---------------------------- MODULE MCArithmetic ----------------------------
(***************************************************************************)
(* Words of three bits for the types, six for the literals: every pair of  *)
(* run-time operands, and literals that fit and that do not.               *)
(***************************************************************************)
EXTENDS Arithmetic

Arith == {"add", "sub", "mul", "div", "pow", "mod", "quo", "rem", "divrem"}
Compare == {"gre", "low", "gre_eq", "low_eq", "eq", "neq", "eqs", "neqs"}
Logic == {"and", "nand", "or", "nor", "xor", "xnor"}
Shifts == {"b_shl_0", "b_shl_1", "b_shl_a", "b_shr_0", "b_shr_1", "b_shr_a", "b_rol", "b_ror"}
Signs == {"plus", "minus", "not"}

Type(kind, bits) == [kind |-> kind, bits |-> bits]
Kind(t) == IF t.kind = "float" THEN "floating" ELSE IF t.kind = "bool" THEN "boolean"
           ELSE IF is_fixed(t) THEN "fixed" ELSE "integral"
Operand(kind, scale) == [kind |-> kind, scale |-> scale]
Form(variable, op, t, to, l, r) ==
  [variable |-> variable, op |-> op, type |-> t, to |-> to, left |-> l, right |-> r]

Types == {Type("signed", 3), Type("unsigned", 3), Type("byte", 3), Type("byte", 4), Type("signed", 6),
          Type("byte", 6), Type("float", 6), Type("decimal", 6), Type("udecimal", 3), Type("bool", 1)}
Operations(t) ==
  Compare \cup Signs \cup {"literal"} \cup (IF t.kind \in {"byte", "bool"} THEN Logic \cup {"add"} ELSE Arith \cup {"and"})
    \cup (IF t.kind = "byte" THEN Shifts ELSE {})

Folded ==
  {f \in UNION {{Form(v, op, t, t, Operand(Kind(t), s), Operand(Kind(t), 0)) :
                   v \in {"global_const", "global", "local_const"}, op \in Operations(t), s \in {0, 2}} : t \in Types} :
     f.left.scale # 0 => is_fixed(f.type)}
Mixed ==
  {Form("local_const", "add", Type("signed", 3), Type("signed", 3), Operand("integral", 0), Operand(k, 0)) :
     k \in {"floating", "value"}}
Run ==
  UNION {{Form("local", op, t, t, Operand("value", 0), Operand("value", 0)) : op \in Operations(t)} :
           t \in {u \in Types : u.bits <= 4}}
Casts ==
  {Form("local", "as", from, to, Operand("value", 0), Operand("value", 0)) :
     from \in {Type("signed", 3), Type("unsigned", 3), Type("byte", 3), Type("bool", 1)},
     to \in {Type("signed", 4), Type("unsigned", 2), Type("float", 6)}}

Literals(t) == IF t.kind = "bool" THEN {0, 1} ELSE {0, 2, 3, 5, 13, 60}
MCOperands(e) ==
  LET words == IF e.left.kind = "value" THEN 0 .. Ones(e.type.bits) ELSE Literals(e.type)
  IN words \X (IF e.op \in Unary \cup {"literal", "as"} THEN {0} ELSE words \ {60})

MCExpressions == Folded \cup Mixed \cup Run \cup Casts
MCUnwritten ==
  (Arith \ {"pow"}) \cup Compare \cup Logic \cup Shifts \cup {"plus", "not", "literal"}

\* As the documentation has them, when they are folded and when they are generated.
FoldedAs ==
  ({"add", "sub", "mul", "mod", "literal"} \X {"signed", "unsigned"})
    \cup ({"gre", "low", "gre_eq", "low_eq", "eq", "neq"} \X {"signed", "unsigned"})
    \cup ((Logic \cup {"b_shl_0", "b_shl_1", "b_shr_0"}) \X {"byte"})
    \cup ({"and", "nand", "or", "nor", "eq", "neq", "not"} \X {"bool"})
GeneratedAs ==
  ({"add", "sub", "mul", "rem", "gre", "low", "gre_eq", "low_eq", "eq", "neq"} \X {"signed", "unsigned"})
    \cup ({"mod", "as"} \X {"signed"})
    \cup ((Logic \cup {"not"}) \X {"byte", "bool"})
    \cup ((Shifts \ {"b_shl_a"}) \X {"byte"})

\* What these operations fold to, and what the generated code computes, is
\* what docs/wiki/language/operators.md says of them (codegen/eval.cpp, tool.cpp).
FoldsAsDocumented == FoldDocumented(FoldedAs)
GeneratesAsDocumented == GeneratedDocumented(GeneratedAs)

=============================================================================
