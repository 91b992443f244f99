------------------------------- MODULE Passes -------------------------------
(***************************************************************************)
(* The three passes of the resolver over the syntax trees of a compilation *)
(* (pipeline/resolver.cpp): Symbol gives names their definitions, Inference *)
(* gives nodes their types, Semantic checks operations and arguments.  A   *)
(* unit goes through all three before the next unit starts, and inference  *)
(* follows a name to its definition in whatever unit that is.              *)
(*                                                                         *)
(* The handler of a node is the list of what it does: visit a child, give  *)
(* a type, report an error.  "rest" stands for the part of a handler that  *)
(* depends on what its first part found.  The machine keeps the handlers   *)
(* that have not returned, as the stack of the code does.                  *)
(*                                                                         *)
(* A failed assertion aborts a checked build and does nothing in another.  *)
(* Reading an invalid identifier is undefined: every build stops there.    *)
(*                                                                         *)
(* A type is a tuple whose first member is its kind, and it is canonical.  *)
(* A node that declares something is the identifier of its definition.     *)
(***************************************************************************)
EXTENDS Integers, FiniteSetsExt, SequencesExt

CONSTANT Programs  \* the syntax trees: nodes, scopes, units with their imports, casts

VARIABLES
  program,   \* the syntax trees of the units
  checked,   \* whether the build keeps its assertions
  queue,     \* the units still to be resolved, in the order of the set of them
  pass,      \* the pass of the unit at the head of the queue
  before,    \* how many units had errors when the unit started
  stack,     \* the handlers that have not returned, with what they have left to do
  status,    \* "running", "ended", "aborted" or "overflow"
  resolved,  \* COMPILER.resolved: the definitions of nodes
  inferred,  \* COMPILER.inference: the types of nodes
  own,       \* the types that literals carry themselves
  metadata,  \* COMPILER.semantic_metadata: the parameters of arguments, the places of members
  errors,    \* the units that have errors
  analysed   \* PIPELINE.analyzed_compilation_units

vars == <<program, checked, queue, pass, before, stack, status, resolved, inferred, own, metadata, errors, analysed>>

(***************************************************************************)
(* Nodes and types.                                                        *)
(***************************************************************************)
NO_ID == 0
NONE == <<>>
Undefined == <<"undefined">>
Prim(p) == <<"Primitive", p>>
Text(k) == <<"String", k>>
Of(x) == <<"of", x>>

\* Definitions of the members every table has, and the mark of an argument past the parameters.
Data == -1
Len_ == -2
Capa == -3
Variadic == -4

Node(x) == program.nodes[x]
Nodes == DOMAIN program.nodes
Kind(x) == IF x \in Nodes THEN Node(x).kind ELSE "NONE"
Sub(x, f) == IF x \in Nodes /\ f \in DOMAIN Node(x).sub THEN Node(x).sub[f] ELSE <<>>
Child(x, f) == IF Sub(x, f) = <<>> THEN NO_ID ELSE Sub(x, f)[1]
Flag(x, f) == x \in Nodes /\ f \in Node(x).flags

Symbols == {"Symbol_Id", "Symbol_Qualified", "Symbol_Type"}
Declarations == {"CodeBlock", "Local_Lambda", "Local_Parameter", "Local_Binding", "Local_Variable", "Local_Capability",
  "Import", "Global_Variable", "Global_Function", "Global_Extend_Fn", "Global_Extern", "Global_Export", "Global_Enum",
  "Global_Flag", "Global_Union", "Global_Alias_Type", "Global_Alias_Module", "SFM_Facet", "SFM_Facet_Field",
  "SFM_View", "SFM_Form", "SFM_Rule"}

Signed == {"ssize", "s8", "s16", "s32", "s64", "s128"}
Unsigned == {"usize", "u8", "u16", "u32", "u64", "u128"}
Bytes == {"bsize", "b8", "b16", "b32", "b64", "b128"}
Floats == {"fsize", "f16", "f32", "f64", "f80", "f128"}
Fixed == {"dsize", "d32", "d64", "d128", "udsize", "ud32", "ud64", "ud128"}

KindOf(t) == IF t = NONE THEN "NONE" ELSE t[1]
Iterable(t) == KindOf(t) \in {"Array", "Buffer", "Slice"}
UserDefined(t) == KindOf(t) \in {"Facet", "View", "Form", "Enum", "Flag", "Union", "Identifier"}
Inner(t) == IF KindOf(t) \in {"Ptr", "Array", "Buffer", "Slice"} THEN t[2] ELSE NONE

\* The definition of a node, and its type: the one it was given, or the one its declaration states.
Def(x) == IF x \in DOMAIN resolved THEN resolved[x] ELSE NO_ID
BuiltinType == [d \in {Len_, Capa} |-> Prim("usize")]
DeclType(x) ==
  IF Kind(x) \in {"Global_Function", "Local_Lambda"} THEN <<"Prototype", x>>
  ELSE IF Kind(x) \in {"Global_Variable", "Global_Alias_Type", "Local_Parameter", "Local_Binding", "Local_Variable",
                       "Local_Capability"} THEN Node(x).type
  ELSE Undefined
TypeOf(x) ==
  IF x \in DOMAIN BuiltinType THEN BuiltinType[x] ELSE IF x \in DOMAIN inferred THEN inferred[x] ELSE DeclType(x)
Value(t) == IF KindOf(t) = "of" THEN TypeOf(t[2]) ELSE t

\* The innermost scope around a node that declares the name.
find_in_chain_scope(scope, name) ==
  LET In[s \in 0 .. Len(program.scopes)] ==
        IF s = 0 THEN NO_ID
        ELSE IF name \in DOMAIN program.scopes[s].items THEN program.scopes[s].items[name]
        ELSE In[program.scopes[s].parent]
  IN In[scope]
\* The units imported under an alias by the scope of a unit, in the order of their identifiers.
find_imports(unit, alias) ==
  IF alias \in DOMAIN program.units[unit].imports THEN program.units[unit].imports[alias] ELSE <<>>
find_lexical_symbol(unit, name) ==
  LET items == program.scopes[program.units[unit].scope].items
  IN IF name \in DOMAIN items THEN items[name] ELSE NO_ID
\* A path is a chain of aliases; of several imports with one alias, the first that leads to the name.
resolve_definition_from_import(unit, path, name) ==
  LET From[u \in DOMAIN program.units, i \in 1 .. Len(path) + 1] ==
        IF i > Len(path) THEN find_lexical_symbol(u, name)
        ELSE LET leading == SelectSeq(find_imports(u, path[i]), LAMBDA v : From[v, i + 1] # NO_ID)
             IN IF leading = <<>> THEN NO_ID ELSE From[leading[1], i + 1]
  IN From[unit, 1]
\* Both anchors the lexer can deliver, none and the root, are the file. Its child modules are no way: a unit is recorded
\* as a child in its own graph, where nobody looks for it. Nor are re-exports, on which the module resolver crashes.
resolve_path_symbol(unit, path, name) == resolve_definition_from_import(unit, path, name)
Lookup(x) ==
  IF Kind(x) # "Symbol_Qualified" THEN find_in_chain_scope(Node(x).scope, Node(x).name)
  ELSE resolve_path_symbol(Node(x).unit, Node(x).path, Node(x).name)
\* The field of a facet with that name, and its place.
FieldAt(facet, name) == SelectInSeq(Sub(facet, "fields"), LAMBDA f : Node(f).name = name)
Field(facet, name) == IF FieldAt(facet, name) = 0 THEN NO_ID ELSE Sub(facet, "fields")[FieldAt(facet, name)]

(***************************************************************************)
(* What types allow (type/rule.cpp).                                       *)
(***************************************************************************)
can_implicit_cast(from, to) == Iterable(from) /\ KindOf(to) = "Slice"

Between(from, to, a, b) == {<<KindOf(from), KindOf(to)>>} \subseteq {<<a, b>>, <<b, a>>}
BytesOf(p) == IF p = "bool" THEN 0 ELSE 1
can_cast_table(from, to) ==
  \E letter \in {"cune", "rune"} :
    /\ to[2] \in IF letter = "cune" THEN {"str", "cstr", "cune"} ELSE {"text", "rune"}
    /\ KindOf(from[2]) = "Primitive" => from[2][2] = letter
Yes == <<"yes">>
No == <<"no">>
can_explicit_cast(from, to) ==
  LET Answer(b) == IF b THEN Yes ELSE No
      both == {from, to}
      prim == CHOOSE t \in both : KindOf(t) = "Primitive"
  IN CASE from = to -> Answer(TRUE)
       [] from # to /\ both \cap {Prim("u0"), Prim("opaque")} # {} -> Answer(FALSE)
       [] from # to /\ both \cap {Prim("u0"), Prim("opaque")} = {} ->
            IF Between(from, to, "Primitive", "Primitive") THEN Answer(TRUE)
            ELSE IF Between(from, to, "Flag", "Primitive") THEN Answer(BytesOf(prim[2]) # 0)
            ELSE IF Between(from, to, "Enum", "Union") THEN Answer(from[2] = to[2])
            ELSE IF KindOf(from) = "Array" /\ KindOf(to) = "String" /\ can_cast_table(from, to) THEN Answer(TRUE)
            ELSE IF KindOf(from) = "String" THEN
              IF from[2] \notin {"str", "cstr"} THEN Answer(FALSE)
              ELSE IF KindOf(to) # "String" THEN Undefined
              ELSE Answer({from[2], to[2]} = {"str", "cstr"})
            ELSE IF Between(from, to, "View", "Facet") \/ Between(from, to, "Form", "Facet") THEN
              IF KindOf(from) = "Facet" THEN Undefined ELSE Answer(to \in from[2])
            ELSE Answer(<<from, to>> \in program.casts)

Arithmetics == {"add", "sub", "mul", "div", "mod", "quo", "rem", "divrem", "pow"}
Comparisons == {"ordering", "gre", "low", "gre_eq", "low_eq", "eq", "in", "nin", "is", "nis", "neq", "eqs", "neqs"}
Logicals == {"and", "nand", "or", "xor", "nor", "xnor"}
Bitwises == {"b_and", "b_nand", "b_or", "b_xor", "b_nor", "b_xnor", "b_shl_0", "b_shl_1", "b_shl_a", "b_shr_0",
  "b_shr_1", "b_shr_a", "b_rol", "b_ror"}
can_op_primitive(p, op) ==
  \/ p = "bool" /\ op \in Comparisons \cup Logicals
  \/ p \in {"cune", "rune"} /\ op \in {"add", "eq", "in", "nin", "is", "nis", "neq", "eqs", "neqs"}
  \/ p \in Signed \cup {"ptrdiff"} \cup Unsigned \cup Floats \cup Fixed /\ op \in Arithmetics \cup Comparisons
  \/ p \in Bytes /\ op \in Bitwises
  \/ p = "opaque" /\ op \in {"mem_add", "mem_sub", "mem_dist"}

(***************************************************************************)
(* What a handler does: the instructions of its list.                      *)
(***************************************************************************)
Do(op, x, y, t) == <<[do |-> op, node |-> x, other |-> y, type |-> t]>>
Visit(x) == Do("visit", x, NO_ID, NONE)
Then(x, stage) == Do("then", x, stage, NONE)
Bind(x, y) == Do("bind", x, y, NONE)
Ensure(x, t) == Do("ensure", x, NO_ID, t)
EnsureSilent(x, t) == Do("ensure_silent", x, NO_ID, t)
Check(x, t, how) == Do(IF how = "ensure" THEN "check" ELSE "check_silent", x, NO_ID, t)
Give(x, t) == Do("give", x, NO_ID, t)
Carry(x, t) == Do("carry", x, NO_ID, t)
Note(x, m) == Do("note", x, m, NONE)
Error(code) == Do("error", code, NO_ID, NONE)
Holds(p) == IF p THEN <<>> ELSE Do("assert", NO_ID, NO_ID, NONE)
Reads(p) == IF p THEN <<>> ELSE Do("undefined", NO_ID, NO_ID, NONE)
If(p, code) == IF p THEN code ELSE <<>>

Chain(seq, f(_)) == FlattenSeq([i \in DOMAIN seq |-> f(seq[i])])
All(x, f) == Chain(Sub(x, f), Visit)   \* the children that are there
One(x, f) == Visit(Child(x, f))        \* the child, even a null one

(***************************************************************************)
(* Resolution of symbols (resolver/symbol.cpp).                            *)
(***************************************************************************)
SymbolIgnored == {"Import", "Global_Alias_Type", "Global_Alias_Module", "Literal_Boolean", "Literal_NullPtr",
  "Literal_Integral", "Literal_Fixed_Point", "Literal_Floating_Point", "Literal_Cune", "Literal_Rune",
  "Literal_Text_Pure", "Global_Extend_Fn", "SFM_Rule", "Local_Lambda", "Statement_Break", "Statement_Continue"}
\* The kinds without the guard against a second resolution.
SymbolUnguarded == SymbolIgnored \cup {"Root", "CodeBlock", "Global_Export", "Global_Extern", "Global_Function",
  "Global_Variable", "Expression_Invocation_Arg", "Literal_Range", "Literal_Table"}

SymbolDeclaration(x) ==
  CASE Kind(x) = "Root" -> All(x, "global_nodes")
    [] Kind(x) = "CodeBlock" -> All(x, "elements")
    [] Kind(x) \in {"Global_Export", "Global_Extern"} -> One(x, "codeblock")
    [] Kind(x) = "Global_Function" -> All(x, "parameters") \o All(x, "contract") \o All(x, "codeblock")
    [] Kind(x) = "Call_Contract" -> One(x, "pre") \o One(x, "post")
    [] Kind(x) = "Local_Parameter" -> All(x, "default_value")
    [] Kind(x) \in {"Global_Variable", "Local_Variable"} -> All(x, "expression")

\* A record looks for the field of its first argument, and takes finding it for the error.
SymbolExpression(x) ==
  CASE Kind(x) \in {"Symbol_Id", "Symbol_Qualified"} -> IF Lookup(x) = NO_ID THEN Error(165) ELSE Bind(x, Lookup(x))
    [] Kind(x) \in {"Symbol_Type", "Literal_Record"} -> One(x, "name") \o Then(x, 1)
    [] Kind(x) = "Expression_Invocation" ->
         IF Kind(Child(x, "callee")) \in Symbols THEN One(x, "callee") \o Then(x, 1) ELSE Error(196)
    [] Kind(x) = "Expression_Member_Access" -> One(x, "left_expression") \o Then(x, 1)
    [] Kind(x) \in {"Expression_Invocation_Arg", "Operation_Cast_As"} -> One(x, "expression")
    [] Kind(x) = "Literal_Range" -> All(x, "start") \o All(x, "end")
    [] Kind(x) = "Literal_Table" -> All(x, "ranges") \o All(x, "values") \o All(x, "map_value")
SymbolThen(x) ==
  LET d == Def(Child(x, CASE Kind(x) = "Expression_Invocation" -> "callee"
                          [] Kind(x) = "Expression_Member_Access" -> "left_expression"
                          [] OTHER -> "name"))
      right == Child(x, "right_identifier")
      fields == Sub(x, "fields_args")
  IN CASE Kind(x) = "Symbol_Type" -> Bind(x, d)
       [] Kind(x) = "Expression_Invocation" -> If(d # NO_ID, All(x, "arguments") \o Bind(x, d))
       [] Kind(x) = "Expression_Member_Access" ->
            LET f == IF Kind(d) = "SFM_Facet" /\ Kind(right) = "Symbol_Id" THEN Field(d, Node(right).name) ELSE NO_ID
            IN Reads(d # NO_ID) \o If(f # NO_ID, Bind(x, Def(f)))
       [] Kind(x) = "Literal_Record" ->
            Bind(x, d) \o Reads(d # NO_ID) \o
            If(fields # <<>>,
               Reads(Kind(d) = "SFM_Facet" /\ Field(d, Node(fields[1]).name) # NO_ID) \o Error(268))

SymbolStatement(x) ==
  CASE Kind(x) \in {"Statement_If", "Statement_While", "Statement_Match_Case"} -> One(x, "evaluator") \o One(x, "codeblock")
    [] Kind(x) = "Statement_For" -> One(x, "expression") \o One(x, "codeblock")
    [] Kind(x) \in {"Statement_Loop", "Statement_GoTo_Label"} -> One(x, "codeblock")
    [] Kind(x) = "Statement_GoTo" -> If(Lookup(x) = NO_ID, Error(165)) \o Bind(x, Lookup(x))
    [] Kind(x) = "Statement_Return" -> One(x, "value")
    [] Kind(x) = "Statement_Match" -> One(x, "base") \o All(x, "cases") \o All(x, "other_case")

\* The size of an array type is not the value of a variable that exists at run time.
SizeThen(x) ==
  If(Kind(Def(x)) \in {"Global_Variable", "Local_Variable"} /\ ~Flag(Def(x), "const"), Error(282))
ensure_types_symbols(unit) == Chain(program.units[unit].sizes, LAMBDA x : Visit(x) \o Then(x, 2))

(***************************************************************************)
(* Inference of types (resolver/inference.cpp).                            *)
(***************************************************************************)
\* The kinds whose handler is empty, or that the switch passes over.
InferenceIgnored == {"Local_Pattern_Enum", "Local_Pattern_Tuple", "Local_Pattern_Form", "Local_Pattern_Rule_Facet",
  "Local_Pattern_Facet", "Literal_Text_Interpolation", "Literal_Textual_Format", "Literal_Tuple", "Literal_Record",
  "Expression_Invocation_Rule", "Expression_Invocation_Extend", "Expression_New_Ptr", "Statement_GoTo",
  "Statement_Break", "Statement_Continue", "Operation_Is", "Operation_In", "Operation_Interval", "Import",
  "Path_Regex", "Global_Reexport"}
\* The kinds without the guard against a second inference.
InferenceUnguarded == InferenceIgnored \cup {"Root", "CodeBlock", "Global_Export", "Global_Extern", "Global_Alias_Type",
  "Statement_If", "Statement_For", "Statement_Loop", "Statement_While", "Statement_GoTo_Label", "Statement_Match",
  "Statement_Match_Case"}

\* Literals that take the type they are expected to have.
LazyLiterals == {"Literal_Integral", "Literal_Floating_Point", "Literal_Fixed_Point", "Literal_Text_Pure", "Literal_Table"}
is_lazy_literal(x) == Kind(x) \in LazyLiterals /\ (x \notin DOMAIN own \/ own[x] = NONE)
\* The five conditions on a primitive are joined by &&, so that no literal misfits one.
bad_inference(x, t) ==
  CASE KindOf(t) = "Primitive" -> FALSE
    [] KindOf(t) = "String" -> Kind(x) # "Literal_Text_Pure"
    [] Iterable(t) -> Kind(x) # "Literal_Table"
    [] OTHER -> TRUE
\* What the literal itself can note of the type it is given.
ensure_primitive_literal(x, t) ==
  LET letters == Kind(x) = "Literal_Text_Pure" /\ KindOf(t) = "Primitive"
      suits == IF letters THEN t[2] \in {"cune", "rune"} ELSE ~(Kind(x) = "Literal_Table" /\ KindOf(t) = "Primitive")
  IN IF suits THEN Carry(x, IF letters THEN Text(t[2]) ELSE t) ELSE Holds(FALSE)

\* ensure_expression_resolution, up to the comparison of what was found with what is expected.
Ensured(x, t, how) ==
  IF t = NONE THEN Visit(x)
  ELSE Reads(x # NO_ID) \o
    (IF ~is_lazy_literal(x) THEN Visit(x)
     ELSE IF bad_inference(x, t) THEN <<>> ELSE Give(x, t) \o ensure_primitive_literal(x, t)) \o Check(x, t, how)
Uncompared(x, t, how) == If(x \notin DOMAIN inferred /\ how = "check", Error(234))
\* The comparison.  A user-defined type is reported at its definition, which is looked for later.
Checked(x, t, how) ==
  IF x \notin DOMAIN inferred /\ how = "check" /\ ~(is_lazy_literal(x) /\ bad_inference(x, t)) THEN Error(234)
  ELSE LET mine == TypeOf(x)
       IN Reads(mine # Undefined) \o
          If(mine # t /\ how = "check",
             IF UserDefined(t) THEN Do("report", x, NO_ID, t) ELSE If(~can_implicit_cast(mine, t), Error(230)))

\* A name takes the type of its definition, which is inferred first if it has not been.
UnvisitedSymbol(x) == Reads(Def(x) # NO_ID) \o Holds(Kind(Def(x)) \in Declarations) \o Give(x, Of(Def(x)))
InferenceSymbol(x) ==
  Reads(Def(x) # NO_ID) \o Visit(Def(x)) \o Holds(Kind(Def(x)) \in Declarations) \o Give(x, Of(Def(x)))
\* A function has its type before its body is inferred.
LateFunction(x) ==
  All(x, "parameters") \o All(x, "contract") \o All(x, "codeblock") \o
  Give(x, IF Node(x).type = NONE THEN Prim("u0") ELSE Node(x).type)
InferenceFunction(x) ==
  LET ret == Node(x).type
  IN All(x, "parameters") \o
     If(Node(x).name = "main" /\ ret \notin {Prim("s32"), Prim("u0")}, Error(218)) \o
     Give(x, IF ret = NONE THEN Prim("u0") ELSE ret) \o
     All(x, "contract") \o All(x, "codeblock")

InferenceDeclaration(x) ==
  LET type == Node(x).type
      body == Child(x, "expression")
      Typed(f) == Chain(Sub(x, f), LAMBDA e : Ensure(e, type)) \o Give(x, type)
  IN CASE Kind(x) = "Root" -> All(x, "global_nodes")
       [] Kind(x) = "CodeBlock" -> All(x, "elements")
       [] Kind(x) \in {"Global_Export", "Global_Extern"} -> One(x, "codeblock")
       [] Kind(x) \in Symbols -> InferenceSymbol(x)
       [] Kind(x) \in {"Global_Variable", "Local_Variable", "Local_Capability"} ->
            IF type = NONE THEN Visit(body) \o Give(x, Of(body)) ELSE Typed("expression")
       [] Kind(x) = "Local_Binding" ->
            IF type = NONE THEN Visit(body) ELSE If(body # NO_ID, Typed("expression"))
       [] Kind(x) = "Local_Parameter" -> Typed("default_value")
       [] Kind(x) = "Global_Alias_Type" -> Give(x, type)
       [] Kind(x) = "Global_Function" -> InferenceFunction(x)

InferenceExpression(x) ==
  LET target == Child(x, "target")
  IN CASE Kind(x) = "Expression_If_Ternary" ->
            LET yes == Child(x, "statement_true")
                Left(e) == Ensure(Child(x, "left"), Of(e))
            IN One(x, "evaluator") \o Visit(yes) \o One(x, "statement_false") \o
               Left(yes) \o Chain(Sub(x, "statement_false"), Left) \o Give(x, Of(yes))
       [] Kind(x) = "Expression_Member_Access" -> One(x, "left_expression") \o Then(x, 1)
       [] Kind(x) \in {"Expression_Self", "Expression_Other"} -> Visit(target) \o Give(x, Of(target))
       [] Kind(x) = "Expression_Invocation_Arg" -> One(x, "expression") \o Give(x, Of(Child(x, "expression")))
       [] Kind(x) = "Expression_Invocation" -> One(x, "callee") \o Then(x, 1)
       [] Kind(x) = "Expression_Table_Access" -> Visit(target) \o One(x, "selector") \o Then(x, 1)

\* A member of a table is one of those every table has, or it is looked for as any name.
builtin_member(right, inner) ==
  LET name == IF Kind(right) = "Symbol_Id" THEN Node(right).name ELSE "other"
  IN CASE name = "data" -> Give(right, <<"Ptr", inner>>) \o Bind(right, Data)
       [] name = "len" -> Give(right, Prim("usize")) \o Bind(right, Len_)
       [] name = "capa" -> Give(right, Prim("usize")) \o Bind(right, Capa)
       [] OTHER -> Visit(right)
Prototyped == {"Global_Function", "SFM_Rule", "Global_Extend_Fn", "Local_Lambda"}
\* The arguments of a call take the types of the parameters, and those past them their own.
InferenceArguments(x, d) ==
  LET params == Sub(d, "parameters")
      args == Sub(x, "arguments")
      Argument(i) ==
        IF i <= Len(params)
        THEN Ensure(Child(args[i], "expression"), Node(params[i]).type) \o Give(args[i], Node(params[i]).type)
        ELSE If(Flag(d, "variadic"), Visit(args[i]))
  IN FlattenSeq([i \in DOMAIN args |-> Argument(i)])
InferenceExpressionThen(x) ==
  CASE Kind(x) = "Expression_Member_Access" ->
         LET t == TypeOf(Child(x, "left_expression"))
             right == Child(x, "right_identifier")
         IN Reads(t \notin {Undefined, NONE}) \o
            (CASE Iterable(t) -> builtin_member(right, t[2]) \o Give(x, Of(right))
               [] KindOf(t) = "Facet" -> Visit(right) \o Give(x, Of(right))
               [] OTHER -> Error(892))
    [] Kind(x) = "Expression_Invocation" ->
         LET d == Def(Child(x, "callee"))
         IN Reads(Kind(d) \in Prototyped) \o InferenceArguments(x, d) \o Give(x, Of(Child(x, "callee")))
    [] Kind(x) = "Expression_Table_Access" ->
         LET t == TypeOf(Child(x, "target"))
         IN Reads(t \notin {Undefined, NONE}) \o IF Inner(t) # NONE THEN Give(x, Inner(t)) ELSE Error(511)

InferenceStatement(x) ==
  LET returned == Child(x, "returnable")
  IN CASE Kind(x) = "Statement_If" ->
            IF Flag(x, "is_else") THEN One(x, "codeblock")
            ELSE Ensure(Child(x, "evaluator"), Prim("bool")) \o One(x, "codeblock") \o One(x, "alternative_statement")
       [] Kind(x) = "Statement_For" -> One(x, "expression") \o Then(x, 1)
       [] Kind(x) \in {"Statement_Loop", "Statement_GoTo_Label", "Statement_Match_Case"} -> One(x, "codeblock")
       [] Kind(x) = "Statement_While" -> Ensure(Child(x, "evaluator"), Prim("bool")) \o One(x, "codeblock")
       [] Kind(x) = "Statement_Return" ->
            Visit(returned) \o
            (IF Child(x, "value") = NO_ID THEN Then(x, 1) ELSE Ensure(Child(x, "value"), Of(returned))) \o
            Give(x, Of(returned))
       [] Kind(x) = "Statement_Match" ->
            Ensure(Child(x, "base"), Prim("bool")) \o All(x, "cases") \o One(x, "other_case")
InferenceStatementThen(x) ==
  CASE Kind(x) = "Statement_For" ->
         LET expr == Child(x, "expression")
             t == TypeOf(expr)
         IN (IF Kind(expr) = "Literal_Range" THEN Give(Child(x, "index"), Of(Child(expr, "start")))
             ELSE Reads(t \notin {Undefined, NONE}) \o
                  IF Iterable(t) THEN Chain(Sub(x, "index") \o Sub(x, "items"), LAMBDA i : Give(i, Inner(t)))
                  ELSE Error(272)) \o
            One(x, "codeblock")
    [] Kind(x) = "Statement_Return" -> If(TypeOf(Child(x, "returnable")) # Prim("u0"), Error(246))

\* The type of a literal nothing expects anything of.
DefaultType == [Literal_Boolean |-> Prim("bool"), Literal_NullPtr |-> Prim("opaque"), Literal_Integral |-> Prim("ssize"),
  Literal_Floating_Point |-> Prim("fsize"), Literal_Fixed_Point |-> Prim("dsize"), Literal_Cune |-> Prim("cune"),
  Literal_Rune |-> Prim("rune")]
InferenceLiteral(x) ==
  LET mine == IF x \in DOMAIN own THEN own[x] ELSE NONE
  IN CASE Kind(x) = "Literal_Table" -> All(x, "ranges") \o All(x, "values") \o All(x, "map_value")
       [] Kind(x) = "Literal_Text_Pure" ->
            Give(x, CASE mine = Text("cstr") -> mine
                      [] mine \in {Text("rune"), Text("text")} -> Text("text")
                      [] OTHER -> Text("str"))
       [] Kind(x) = "Literal_Range" ->
            LET end == Child(x, "end") IN Visit(end) \o Ensure(Child(x, "start"), Of(end)) \o Give(x, Of(end))
       [] Kind(x) \in DOMAIN DefaultType ->
            LET t == IF mine = NONE THEN DefaultType[Kind(x)] ELSE mine
            IN If(Kind(x) \in LazyLiterals, Carry(x, t)) \o Give(x, t)

InferenceOperation(x) ==
  LET left == Child(x, "left")
      right == Child(x, "right")
      base == Child(x, "base")
  IN CASE Kind(x) = "Operation_Cast_As" ->
            Holds(Node(x).type # NONE) \o EnsureSilent(Child(x, "expression"), Node(x).type) \o Then(x, 1)
       [] Kind(x) = "Operation_Transfert" -> Visit(left) \o Ensure(right, Of(left)) \o Give(x, Of(left))
       [] Kind(x) = "Operation_Binary" ->
            IF Node(x).op \in Logicals
            THEN Ensure(left, Prim("bool")) \o Ensure(right, Prim("bool")) \o Give(x, Prim("bool"))
            ELSE Ensure(left, Of(right)) \o Ensure(right, Of(left)) \o
                 Give(x, CASE Node(x).op \in Comparisons -> Prim("bool")
                           [] Node(x).op = "div" -> Prim("fsize")
                           [] OTHER -> Of(left))
       [] Kind(x) = "Operation_Unary" ->
            IF Node(x).op = "not" THEN Ensure(base, Prim("bool")) \o Give(x, Prim("bool"))
            ELSE Visit(base) \o Give(x, Of(base))
       [] Kind(x) = "Operation_Mem" -> One(x, "target") \o Then(x, 1)
InferenceOperationThen(x, stage) ==
  LET target == Child(x, IF Kind(x) = "Operation_Mem" THEN "target" ELSE "expression")
      t == TypeOf(target)
  IN CASE Kind(x) = "Operation_Cast_As" /\ stage = 1 -> If(target \notin DOMAIN inferred, Visit(target)) \o Then(x, 2)
       [] Kind(x) = "Operation_Cast_As" /\ stage = 2 ->
            LET cast == IF t \in {Undefined, NONE} THEN Undefined ELSE can_explicit_cast(t, Node(x).type)
            IN If(Node(x).op = "as", Reads(cast # Undefined) \o If(cast = No, Error(267))) \o Give(x, Node(x).type)
       [] Kind(x) = "Operation_Mem" /\ Node(x).op \notin {"drop", "out"} ->
            Reads(t \notin {Undefined, NONE}) \o IF KindOf(t) = "Ptr" THEN Give(x, t[2]) ELSE Error(511)
       [] Kind(x) = "Operation_Mem" /\ Node(x).op = "drop" ->
            Reads(Def(target) # NO_ID) \o If(Kind(Def(target)) # "Local_Capability", Error(511))
       [] Kind(x) = "Operation_Mem" /\ Node(x).op = "out" -> <<>>

(***************************************************************************)
(* Semantic checks (resolver/semantic.cpp).                                *)
(***************************************************************************)
SemanticIgnored == {"Statement_GoTo", "Statement_Break", "Statement_Continue", "Literal_Table", "Import",
  "Global_Alias_Type", "Global_Alias_Module", "Literal_Boolean", "Literal_NullPtr", "Literal_Integral",
  "Literal_Fixed_Point", "Literal_Floating_Point", "Literal_Cune", "Literal_Rune", "Literal_Text_Pure", "Symbol_Id",
  "Symbol_Qualified"}

SemanticDeclaration(x) ==
  LET Misnamed(f, code) == If(Flag(x, f), Error(code))
  IN CASE Kind(x) = "Root" -> All(x, "global_nodes")
       [] Kind(x) = "CodeBlock" -> All(x, "elements")
       [] Kind(x) \in {"Global_Export", "Global_Extern"} -> One(x, "codeblock")
       [] Kind(x) \in {"Global_Variable", "Local_Variable"} -> All(x, "expression")
       [] Kind(x) = "Global_Function" ->
            If(Node(x).name = "main", Misnamed("scoped", 215) \o Misnamed("exported", 216) \o Misnamed("extern", 217)) \o
            All(x, "codeblock") \o All(x, "contract")

SemanticStatement(x) ==
  CASE Kind(x) = "Statement_If" -> One(x, "evaluator") \o One(x, "codeblock") \o One(x, "alternative_statement")
    [] Kind(x) = "Statement_For" -> One(x, "expression") \o One(x, "index") \o One(x, "codeblock")
    [] Kind(x) \in {"Statement_Loop", "Statement_GoTo_Label", "Statement_Match_Case"} -> One(x, "codeblock")
    [] Kind(x) = "Statement_While" -> One(x, "evaluator") \o One(x, "codeblock")
    [] Kind(x) = "Statement_Return" -> All(x, "value")
    [] Kind(x) = "Statement_Match" -> One(x, "base") \o All(x, "cases") \o One(x, "other_case")

get_parameters(d) == IF Kind(d) \in {"Global_Function", "Local_Lambda", "SFM_Rule"} THEN Sub(d, "parameters") ELSE <<>>
\* An argument that has a parameter, a parameter without an argument, an argument past the parameters.
BoundArgument(x, d, i) ==
  LET arg == Sub(x, "arguments")[i]
      param == get_parameters(d)[i]
  IN Reads(TypeOf(arg) # Undefined) \o If(TypeOf(arg) # Node(param).type, Error(214)) \o Visit(arg) \o Note(arg, param)
LateMissing(x, d, i) ==
  If(~Flag(d, "variadic") /\ i > Len(Sub(x, "arguments")) + 1 /\ Sub(get_parameters(d)[i], "default_value") = <<>>, Error(212))
MissingArgument(x, d, i) == If(~Flag(d, "variadic") /\ Sub(get_parameters(d)[i], "default_value") = <<>>, Error(212))
ExtraArgument(x, d, i) == LET arg == Sub(x, "arguments")[i] IN Visit(arg) \o Note(arg, Variadic)
SemanticArguments(x, d) ==
  LET params == get_parameters(d)
      args == Sub(x, "arguments")
  IN FlattenSeq([i \in DOMAIN params |-> IF i <= Len(args) THEN BoundArgument(x, d, i) ELSE MissingArgument(x, d, i)]) \o
     IF Flag(d, "variadic") THEN FlattenSeq([i \in DOMAIN args |-> If(i > Len(params), ExtraArgument(x, d, i))])
     ELSE If(Len(params) < Len(args), Error(215))

SemanticExpression(x) ==
  CASE Kind(x) = "Expression_Invocation" -> Reads(Kind(Def(x)) \in Prototyped) \o SemanticArguments(x, Def(x))
    [] Kind(x) \in {"Expression_Invocation_Arg", "Operation_Cast_As"} -> One(x, "expression")
    [] Kind(x) = "Literal_Range" -> All(x, "start") \o All(x, "end")
    [] Kind(x) = "Expression_Member_Access" -> One(x, "left_expression") \o Then(x, 1)
    [] Kind(x) = "Operation_Binary" -> One(x, "left") \o One(x, "right") \o Then(x, 1)
\* The place of a member in its facet or its table, from 0.
MemberPlace == [m \in {Data, Len_, Capa} |-> CASE m = Data -> 0 [] m = Len_ -> 1 [] m = Capa -> 2]
SemanticThen(x) ==
  CASE Kind(x) = "Expression_Member_Access" ->
         LET d == Def(Child(x, "left_expression"))
             right == Child(x, "right_identifier")
             at == IF Kind(right) = "Symbol_Id" THEN FieldAt(d, Node(right).name) ELSE 0
         IN Reads(d # NO_ID) \o
            IF Kind(d) = "SFM_Facet" THEN If(at # 0, Note(right, at - 1))
            ELSE Reads(TypeOf(d) \notin {Undefined, NONE}) \o
                 If(KindOf(TypeOf(d)) = "Array",
                    Reads(Def(right) # NO_ID) \o If(Def(right) \in DOMAIN MemberPlace, Note(right, MemberPlace[Def(right)])))
    [] Kind(x) = "Operation_Binary" ->
         LET left == TypeOf(Child(x, "left"))
             right == TypeOf(Child(x, "right"))
         IN Reads(Undefined \notin {left, right}) \o
            IF left # right THEN Error(205)
            ELSE Reads(left # NONE) \o
                 If(KindOf(left) = "Primitive", If(~can_op_primitive(left[2], Node(x).op), Error(206)))

(***************************************************************************)
(* The handler of a node in a pass.  A kind without a case is asserted     *)
(* never to be there.                                                      *)
(***************************************************************************)
Locals == {"CodeBlock", "Local_Variable", "Local_Capability", "Local_Parameter", "Local_Binding"}
Globals == {"Root", "Global_Export", "Global_Extern", "Global_Function", "Global_Variable", "Global_Alias_Type",
  "Call_Contract"}
Statements == {"Statement_If", "Statement_For", "Statement_Loop", "Statement_While", "Statement_GoTo",
  "Statement_GoTo_Label", "Statement_Return", "Statement_Match", "Statement_Match_Case"}
Expressions == {"Expression_If_Ternary", "Expression_Member_Access", "Expression_Self", "Expression_Other",
  "Expression_Invocation", "Expression_Invocation_Arg", "Expression_Table_Access"}
Operations == {"Operation_Cast_As", "Operation_Transfert", "Operation_Binary", "Operation_Unary", "Operation_Mem"}

SymbolHandler(x) ==
  LET k == Kind(x)
  IN IF k \in SymbolIgnored THEN <<>>
     ELSE IF k \in (Globals \cup Locals) \ {"Local_Capability", "Local_Binding"} THEN SymbolDeclaration(x)
     ELSE IF k \in Statements THEN SymbolStatement(x)
     ELSE IF k \in Symbols \cup {"Literal_Record", "Literal_Range", "Literal_Table", "Expression_Invocation",
                "Expression_Invocation_Arg", "Expression_Member_Access", "Operation_Cast_As"} THEN SymbolExpression(x)
     ELSE Holds(FALSE)
InferenceHandler(x) ==
  LET k == Kind(x)
  IN IF k \in InferenceIgnored THEN <<>>
     ELSE IF k \in (Globals \cup Locals \cup Symbols) \ {"Call_Contract"} THEN InferenceDeclaration(x)
     ELSE IF k \in Statements THEN InferenceStatement(x)
     ELSE IF k \in Expressions THEN InferenceExpression(x)
     ELSE IF k \in Operations THEN InferenceOperation(x)
     ELSE IF k \in DOMAIN DefaultType \cup {"Literal_Table", "Literal_Text_Pure", "Literal_Range"} THEN InferenceLiteral(x)
     ELSE Holds(FALSE)
SemanticHandler(x) ==
  LET k == Kind(x)
  IN IF k \in SemanticIgnored THEN <<>>
     ELSE IF k \in (Globals \cup {"CodeBlock", "Local_Variable"}) \ {"Call_Contract"} THEN SemanticDeclaration(x)
     ELSE IF k \in Statements THEN SemanticStatement(x)
     ELSE IF k \in {"Expression_Invocation", "Expression_Invocation_Arg", "Expression_Member_Access", "Literal_Range",
                "Operation_Cast_As", "Operation_Binary"} THEN SemanticExpression(x)
     ELSE Holds(FALSE)

Handler(x) == CASE pass = "symbol" -> SymbolHandler(x) [] pass = "inference" -> InferenceHandler(x)
                [] pass = "semantic" -> SemanticHandler(x)
Guarded(x) ==
  \/ pass = "symbol" /\ Kind(x) \notin SymbolUnguarded /\ x \in DOMAIN resolved
  \/ pass = "inference" /\ Kind(x) \notin InferenceUnguarded /\ x \in DOMAIN inferred
ThenHandler(x, stage) ==
  IF stage = 2 /\ pass = "symbol" THEN SizeThen(x)
  ELSE IF pass = "symbol" THEN SymbolThen(x)
  ELSE IF pass = "semantic" THEN SemanticThen(x)
  ELSE IF Kind(x) \in Expressions THEN InferenceExpressionThen(x)
  ELSE IF Kind(x) \in Statements THEN InferenceStatementThen(x)
  ELSE InferenceOperationThen(x, stage)

(***************************************************************************)
(* The machine.                                                            *)
(***************************************************************************)
Units == DOMAIN program.units
NamedKinds == (Declarations \cup {"Statement_GoTo_Label"}) \ {"CodeBlock", "Global_Extern", "Global_Export", "Import"}
Named == {x \in Nodes : Kind(x) \in NamedKinds}

Init ==
  /\ program \in Programs
  /\ checked \in BOOLEAN
  /\ queue \in SetToSeqs(Units)
  /\ errors \in SUBSET Units
  /\ resolved = [x \in Named |-> x]
  /\ pass = "none" /\ before = 0 /\ stack = <<>> /\ status = "running"
  /\ inferred = <<>> /\ own = <<>> /\ metadata = <<>> /\ analysed = {}

Frame(x, code) == [node |-> x, code |-> code, known |-> <<inferred, resolved>>]
RootFrame(p) ==
  LET unit == Head(queue)
  IN <<Frame(NO_ID, Visit(program.units[unit].root) \o If(p = "symbol", ensure_types_symbols(unit)))>>

Busy == status = "running" /\ stack # <<>> /\ Head(stack).code # <<>>
Now == Head(Head(stack).code)
Is(op) == Busy /\ Now.do = op
Resume(more) == stack' = <<[Head(stack) EXCEPT !.code = more \o Tail(@)]>> \o Tail(stack)
With(f, x, v) == [y \in DOMAIN f \cup {x} |-> IF y = x THEN v ELSE f[y]]
First(f, x, v) == IF x \in DOMAIN f THEN f ELSE With(f, x, v)

\* What stops the compiler: a failed assertion in a checked build, an undefined reading in every build.
Fails(i) ==
  \/ i.do = "undefined"
  \/ i.do = "assert" /\ checked
  \/ i.do = "visit" /\ i.node = NO_ID /\ pass # "inference"
  \/ i.do = "bind" /\ i.other = NO_ID /\ checked
  \/ i.do \in {"ensure", "ensure_silent", "give"} /\ Value(i.type) = Undefined
  \/ i.do = "give" /\ (Value(i.type) = NONE \/ (i.node = NO_ID /\ checked))
\* The handler runs on this node with all that is known now: it will come back here without end.
Repeats(x) == \E i \in DOMAIN stack : stack[i].node = x /\ stack[i].known = <<inferred, resolved>>
Skips(x) == x = NO_ID \/ Guarded(x)

StartUnit ==
  /\ status = "running" /\ pass = "none" /\ queue # <<>>
  /\ pass' = "symbol" /\ before' = Cardinality(errors) /\ stack' = RootFrame("symbol")
  /\ UNCHANGED <<program, checked, queue, status, resolved, inferred, own, metadata, errors, analysed>>

EndPass ==
  LET failed == Cardinality(errors) > before
      next == CASE failed \/ pass = "semantic" -> "none" [] pass = "symbol" -> "inference" [] OTHER -> "semantic"
  IN /\ status = "running" /\ Len(stack) = 1 /\ stack[1].code = <<>>
     /\ pass' = next /\ stack' = IF next = "none" THEN <<>> ELSE RootFrame(next)
     /\ queue' = IF next = "none" THEN Tail(queue) ELSE queue
     /\ analysed' = IF failed \/ next # "none" THEN analysed ELSE analysed \cup {Head(queue)}
     /\ UNCHANGED <<program, checked, before, status, resolved, inferred, own, metadata, errors>>

End ==
  /\ status = "running" /\ pass = "none" /\ queue = <<>>
  /\ status' = "ended"
  /\ UNCHANGED <<program, checked, queue, pass, before, stack, resolved, inferred, own, metadata, errors, analysed>>

VisitNode ==
  /\ Is("visit") /\ ~Fails(Now)
  /\ IF Skips(Now.node) THEN Resume(<<>>) /\ UNCHANGED status
     ELSE IF Repeats(Now.node) THEN status' = "overflow" /\ UNCHANGED stack
     ELSE /\ stack' = <<Frame(Now.node, Handler(Now.node)), [Head(stack) EXCEPT !.code = Tail(@)]>> \o Tail(stack)
          /\ UNCHANGED status
  /\ UNCHANGED <<program, checked, queue, pass, before, resolved, inferred, own, metadata, errors, analysed>>

Return ==
  /\ status = "running" /\ Len(stack) > 1 /\ Head(stack).code = <<>>
  /\ stack' = Tail(stack)
  /\ UNCHANGED <<program, checked, queue, pass, before, status, resolved, inferred, own, metadata, errors, analysed>>

\* What only reads: the rest of a handler, the two halves of ensure_expression_resolution, an assertion that holds or is off.
Proceed ==
  /\ Busy /\ ~Fails(Now)
  /\ CASE Now.do = "then" -> Resume(ThenHandler(Now.node, Now.other))
       [] Now.do \in {"ensure", "ensure_silent"} -> Resume(Ensured(Now.node, Value(Now.type), Now.do))
       [] Now.do \in {"check", "check_silent"} -> Resume(Checked(Now.node, Now.type, Now.do))
       [] Now.do = "assert" -> Resume(<<>>)
       [] OTHER -> FALSE
  /\ UNCHANGED <<program, checked, queue, pass, before, status, resolved, inferred, own, metadata, errors, analysed>>

\* get_declaration compares a type with itself: the definition reported is that of any node with a type.
ReportDefinition ==
  /\ Is("report")
  /\ \E n \in IF inferred = <<>> THEN {NO_ID} ELSE DOMAIN inferred : Resume(Reads(Def(n) # NO_ID) \o Error(230))
  /\ UNCHANGED <<program, checked, queue, pass, before, status, resolved, inferred, own, metadata, errors, analysed>>

AddResolution ==
  /\ Is("bind") /\ ~Fails(Now)
  /\ resolved' = First(resolved, Now.node, Now.other) /\ Resume(<<>>)
  /\ UNCHANGED <<program, checked, queue, pass, before, status, inferred, own, metadata, errors, analysed>>

AddInference ==
  /\ Is("give") /\ ~Fails(Now)
  /\ inferred' = With(inferred, Now.node, Value(Now.type)) /\ Resume(<<>>)
  /\ UNCHANGED <<program, checked, queue, pass, before, status, resolved, own, metadata, errors, analysed>>

CarryType ==
  /\ Is("carry")
  /\ own' = With(own, Now.node, Now.type) /\ Resume(<<>>)
  /\ UNCHANGED <<program, checked, queue, pass, before, status, resolved, inferred, metadata, errors, analysed>>

AddMetadata ==
  /\ Is("note")
  /\ metadata' = First(metadata, Now.node, Now.other) /\ Resume(<<>>)
  /\ UNCHANGED <<program, checked, queue, pass, before, status, resolved, inferred, own, errors, analysed>>

AddError ==
  /\ Is("error")
  /\ errors' = errors \cup {Head(queue)} /\ Resume(<<>>)
  /\ UNCHANGED <<program, checked, queue, pass, before, status, resolved, inferred, own, metadata, analysed>>

Abort ==
  /\ Busy /\ Fails(Now)
  /\ status' = "aborted"
  /\ UNCHANGED <<program, checked, queue, pass, before, stack, resolved, inferred, own, metadata, errors, analysed>>

Next ==
  \/ StartUnit \/ EndPass \/ End \/ VisitNode \/ Return \/ Proceed \/ ReportDefinition \/ AddResolution
  \/ AddInference \/ CarryType \/ AddMetadata \/ AddError \/ Abort

Spec == Init /\ [][Next]_vars

(***************************************************************************)
(* What must be true.                                                      *)
(***************************************************************************)
Accepted == status = "ended" /\ errors = {} /\ analysed = Units

Valued == {"Global_Variable", "Local_Variable", "Local_Parameter", "Local_Capability", "Local_Binding"}
\* Only what takes its type from its value can send inference round without end: a function gives its type before
\* its body is inferred, so that functions call themselves and one another freely.
OverflowThroughInitialisers ==
  status = "overflow" =>
    \E last \in DOMAIN stack : /\ stack[last].node = Now.node
                              /\ \E i \in 1 .. last : Kind(stack[i].node) \in Valued

\* Whatever unit a name is in, and whichever of the two was inferred first, the name has the type of its definition.
NamesAgree ==
  \A x \in DOMAIN inferred :
    Kind(x) \in Symbols /\ Def(x) \in DOMAIN inferred => inferred[x] = inferred[Def(x)]

\* What a node gives its type to: the values it initialises, passes or returns.
ForIndexes == {Child(x, "index") : x \in {y \in Nodes : Kind(y) = "Statement_For"}}
Owned(x) ==
  CASE Kind(x) \in {"Global_Variable", "Local_Variable", "Local_Capability"} /\ Node(x).type # NONE /\ x \notin ForIndexes ->
         Sub(x, "expression")
    [] Kind(x) = "Local_Parameter" -> Sub(x, "default_value")
    [] Kind(x) = "Expression_Invocation_Arg" -> Sub(x, "expression")
    [] Kind(x) = "Statement_Return" -> Sub(x, "value")
    [] OTHER -> <<>>
\* In an accepted compilation every value has the type of what it initialises, returns or is passed for, or casts to it
\* (the comparison of ensure_expression_resolution).
ValuesFit ==
  Accepted => \A x \in DOMAIN inferred : \A v \in Range(Owned(x)) :
    v \in DOMAIN inferred /\ (inferred[v] = inferred[x] \/ can_implicit_cast(inferred[v], inferred[x]))

Unseen == {"Local_Parameter", "Literal_Table"}   \* what Semantic never enters
Below(x) == UNION {Range(Node(x).sub[f]) : f \in DOMAIN Node(x).sub}
SemanticallySeen ==
  LET Reach[n \in Nat] ==
        IF n = 0 THEN {program.units[u].root : u \in Units}
        ELSE LET seen == Reach[n - 1]
             IN seen \cup UNION {Below(x) \ {y \in Nodes : Kind(y) \in Unseen} : x \in {y \in seen : y \in Nodes}}
  IN Reach[Cardinality(Nodes)]
\* In an accepted compilation every call that was checked has each argument bound to the parameter at its place, the
\* arguments past the parameters of a variadic function marked so, and no mandatory parameter without an argument.
ArgumentsBound ==
  Accepted => \A x \in SemanticallySeen \cap DOMAIN inferred : Kind(x) = "Expression_Invocation" =>
    LET params == Sub(Def(x), "parameters")
        args == Sub(x, "arguments")
        variadic == Flag(Def(x), "variadic")
    IN /\ \A i \in DOMAIN args : args[i] \in DOMAIN metadata /\
            metadata[args[i]] = IF i <= Len(params) THEN params[i] ELSE Variadic
       /\ variadic \/ /\ Len(args) <= Len(params)
                      /\ \A i \in DOMAIN params : i > Len(args) => Sub(params[i], "default_value") # <<>>
=============================================================================
