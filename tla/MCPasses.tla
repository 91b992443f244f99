------------------------------ MODULE MCPasses ------------------------------
(***************************************************************************)
(* Small programs for Passes.  A value program declares a variable with a  *)
(* value (node 10 and those after it), a function, a table and a facet; a  *)
(* statement program adds a function with a statement (node 32 and those   *)
(* after it); a program of two units has variables and functions that use  *)
(* one another across them.                                                *)
(***************************************************************************)
EXTENDS Passes, TLC

K(kind, sub) == [kind |-> kind, scope |-> 1, name |-> "", type |-> NONE, op |-> "", flags |-> {}, sub |-> sub]
Leaf(kind) == K(kind, <<>>)
Id(name) == [Leaf("Symbol_Id") EXCEPT !.name = name]
Inside(n) == [n EXCEPT !.scope = 2]
Integer == Leaf("Literal_Integral")
Boolean == Leaf("Literal_Boolean")
Letters == Leaf("Literal_Text_Pure")
Block(elements) == K("CodeBlock", [elements |-> elements])

S32 == Prim("s32")
U8 == Prim("u8")
Table == <<"Array", U8>>
View8 == <<"Slice", U8>>
FacetX == <<"Facet", 21>>

\* A call of f with that many arguments, the nodes from n on.
Call(n, args) ==
  (n :> K("Expression_Invocation", [callee |-> <<n + 1>>, arguments |-> [i \in 1 .. args |-> n + 2 * i]])) @@
  (n + 1 :> Id("f")) @@
  [j \in (n + 2) .. (n + 2 * args + 1) |->
     IF (j - n) % 2 = 0 THEN K("Expression_Invocation_Arg", [expression |-> <<j + 1>>]) ELSE Integer]
Binary(op, left, right) ==
  (10 :> [K("Operation_Binary", [left |-> <<11>>, right |-> <<12>>]) EXCEPT !.op = op]) @@ (11 :> left) @@ (12 :> right)
Cast(type, value) ==
  (10 :> [K("Operation_Cast_As", [expression |-> <<11>>]) EXCEPT !.op = "as", !.type = type]) @@ (11 :> value)
Member(name, of) ==
  (10 :> K("Expression_Member_Access", [left_expression |-> <<11>>, right_identifier |-> <<12>>])) @@
  (11 :> Id(of)) @@ (12 :> Id(name))
Mem(op, of) == (10 :> [K("Operation_Mem", [target |-> <<11>>]) EXCEPT !.op = op]) @@ (11 :> of)

Values ==
  {10 :> v : v \in {Integer, Boolean, Letters, Leaf("Literal_Floating_Point"), Leaf("Literal_NullPtr"), Id("f"),
                    Id("g"), Id("t"), Id("X"), Id("nowhere"), Leaf("Literal_Tuple"), Leaf("Expression_New_Ptr")}} \cup
  {Call(10, n) : n \in 0 .. 2} \cup
  {Binary("and", Boolean, Boolean), Binary("add", Integer, Integer), Binary("and", Id("g"), Id("g"))} \cup
  {Cast(Prim("f32"), Integer), Cast(Prim("u0"), Id("f")), Cast(Text("str"), Id("t"))} \cup
  {Member("len", "t"), Member("data", "t"), Member("capa", "t"), Member("m", "X"), Member("m", "f")} \cup
  {Mem("val", Letters), Mem("drop", Letters), Mem("out", Letters), Mem("val", Id("t"))} \cup
  {(10 :> K("Literal_Table", [values |-> <<11>>])) @@ (11 :> Integer),
   (10 :> K("Literal_Range", [start |-> <<11>>, end |-> <<12>>])) @@ (11 :> Integer) @@ (12 :> Integer),
   (10 :> K("Literal_Record", [name |-> <<11>>, fields_args |-> <<12>>])) @@ (11 :> Id("X")) @@
     (12 :> [Integer EXCEPT !.name = "m"]),
   (10 :> K("Symbol_Type", [name |-> <<11>>])) @@ (11 :> Id("g")),
   (10 :> [K("Operation_Unary", [base |-> <<11>>]) EXCEPT !.op = "not"]) @@ (11 :> Boolean),
   (10 :> K("Expression_Table_Access", [target |-> <<11>>, selector |-> <<12>>])) @@ (11 :> Letters) @@ (12 :> Integer),
   (10 :> K("Expression_If_Ternary", [evaluator |-> <<11>>, statement_true |-> <<12>>])) @@ (11 :> Boolean) @@ (12 :> Integer)}

\* How f is declared: its parameter with or without a default value, variadic or not, and what it returns.
Functions == [default : BOOLEAN, variadic : BOOLEAN, returns : {"value", "call"}]
PlainFunction == [default |-> FALSE, variadic |-> FALSE, returns |-> "value"]
FunctionF(fn) ==
  (3 :> [K("Global_Function", [parameters |-> <<4>>, codeblock |-> <<6>>])
           EXCEPT !.name = "f", !.type = S32, !.flags = IF fn.variadic THEN {"variadic"} ELSE {}]) @@
  (4 :> [K("Local_Parameter", [default_value |-> IF fn.default THEN <<5>> ELSE <<>>])
           EXCEPT !.name = "p", !.type = S32, !.scope = 2]) @@
  (5 :> Integer) @@ (6 :> Block(<<7>>)) @@
  (7 :> K("Statement_Return", [value |-> <<IF fn.returns = "value" THEN 8 ELSE 23>>, returnable |-> <<3>>])) @@
  (8 :> Inside(Id("p"))) @@ Call(23, 1)

Scopes(more) == <<[parent |-> 0, items |-> [g |-> 2, f |-> 3, t |-> 9, X |-> 21]], [parent |-> 1, items |-> [p |-> 4] @@ more]>>
Program(nodes, globals, more, sizes) ==
  [nodes |-> nodes @@ (1 :> K("Root", [global_nodes |-> globals])), scopes |-> Scopes(more),
   units |-> <<[root |-> 1, sizes |-> sizes, scope |-> 1, imports |-> <<>>]>>, casts |-> {}]

Shared(fn) ==
  FunctionF(fn) @@ (9 :> [Leaf("Global_Variable") EXCEPT !.name = "t", !.type = Table]) @@
  (21 :> K("SFM_Facet", [fields |-> <<22>>])) @@ (22 :> [Leaf("SFM_Facet_Field") EXCEPT !.name = "m"])
Variable(type) == 2 :> [K("Global_Variable", [expression |-> <<10>>]) EXCEPT !.name = "g", !.type = type]

ValuePrograms ==
  {Program(Shared(PlainFunction) @@ Variable(type) @@ v, <<2, 3, 9>>, <<>>, <<>>) :
     type \in {NONE, S32, Text("str"), View8, FacetX}, v \in Values}
CallPrograms ==
  {Program(Shared(fn) @@ Variable(NONE) @@ Call(10, n), <<2, 3, 9>>, <<>>, <<>>) : fn \in Functions, n \in 0 .. 2}
\* The size of an array type is a variable, const or not.
SizePrograms ==
  {Program(Shared(PlainFunction) @@ (2 :> [Variable(NONE)[2] EXCEPT !.flags = flags]) @@ (10 :> Integer) @@ (11 :> Id("g")),
           <<2, 3, 9>>, <<>>, <<11>>) : flags \in {{}, {"const"}}}

(***************************************************************************)
(* Statements: node 32, in the block 31 of the function 30.                *)
(***************************************************************************)
Statement(nodes) ==
  Program(Shared(PlainFunction) @@ Variable(NONE) @@ (10 :> Boolean) @@ nodes @@ (34 :> Block(<<>>)) @@
          (30 :> [K("Global_Function", [codeblock |-> <<31>>]) EXCEPT !.name = "main", !.type = S32]) @@ (31 :> Block(<<32, 50>>)) @@
          (50 :> K("Statement_Return", [value |-> <<51>>, returnable |-> <<30>>])) @@ (51 :> Integer),
          <<2, 9, 30, 3>>, [v |-> 32, i |-> 35, l |-> 36], <<>>)
Conditions == {Boolean, Integer, Letters, Id("g"), Id("f")}
Returned == {Integer, Letters, Id("g")}
StatementPrograms ==
  {Statement(nodes) : nodes \in
     {(32 :> K(k, [evaluator |-> <<33>>, codeblock |-> <<34>>])) @@ (33 :> c) :
        k \in {"Statement_If", "Statement_While"}, c \in Conditions} \cup
     {(32 :> K("Statement_If", [evaluator |-> <<33>>, codeblock |-> <<34>>, alternative_statement |-> <<35>>])) @@
        (33 :> Boolean) @@ (35 :> [K("Statement_If", [codeblock |-> <<34>>]) EXCEPT !.flags = {"is_else"}])} \cup
     {(32 :> K("Statement_For", [expression |-> <<33>>, index |-> index, codeblock |-> <<34>>])) @@ (33 :> Id(over)) @@
        (35 :> [K("Local_Variable", [expression |-> <<33>>]) EXCEPT !.name = "i", !.type = Prim("ssize")]) :
          index \in {<<>>, <<35>>}, over \in {"t", "g"}} \cup
     {(32 :> K("Statement_For", [expression |-> <<33>>, index |-> <<35>>, codeblock |-> <<34>>])) @@
        (33 :> K("Literal_Range", [start |-> <<37>>, end |-> <<38>>])) @@ (37 :> Integer) @@ (38 :> Integer) @@
        (35 :> [K("Local_Variable", [expression |-> <<33>>]) EXCEPT !.name = "i", !.type = Prim("ssize")])} \cup
     {(32 :> K("Statement_Loop", [codeblock |-> <<33>>])) @@ (33 :> Block(<<35>>)) @@ (35 :> b) :
        b \in {Leaf("Statement_Break"), Leaf("Statement_Continue"), Leaf("Import")}} \cup
     {(32 :> K("Statement_Match", [base |-> <<33>>, cases |-> <<35>>, other_case |-> other])) @@ (33 :> base) @@
        (35 :> K("Statement_Match_Case", [evaluator |-> <<37>>, codeblock |-> <<34>>])) @@ (37 :> Integer) :
          base \in {Boolean, Id("f")}, other \in {<<>>, <<35>>}} \cup
     {(32 :> Inside([Leaf("Statement_GoTo") EXCEPT !.name = to])) @@
        (36 :> [K("Statement_GoTo_Label", [codeblock |-> <<34>>]) EXCEPT !.name = "l"]) : to \in {"l", "nowhere"}} \cup
     {(32 :> K("Statement_Return", [value |-> value, returnable |-> <<30>>])) @@ (33 :> v) :
        value \in {<<>>, <<33>>}, v \in Returned} \cup
     {(32 :> [K("Local_Variable", [expression |-> <<33>>]) EXCEPT !.name = "v", !.type = type, !.scope = 2]) @@ (33 :> v) :
        type \in {NONE, S32}, v \in Returned} \cup
     {(32 :> K("Operation_Transfert", [left |-> <<33>>, right |-> <<35>>])) @@ (33 :> Id("g")) @@ (35 :> Boolean)} \cup
     {Call(32, 1)}}

(***************************************************************************)
(* Two units: a variable and a function in each, which name one another.   *)
(***************************************************************************)
Second(unit) == IF unit = 1 THEN 2 ELSE 1
Name(n, path, unit) ==
  [name |-> n, path |-> path, unit |-> unit] @@ Leaf("Symbol_Qualified")
At(unit) == 20 * unit
\* What the variable and the function of each unit use of the other unit, one of the two ways round.
Uses == {"none", "variable", "function"}
Rank(use) == CASE use = "none" -> 0 [] use = "variable" -> 1 [] use = "function" -> 2
Pairs == {uses \in [1 .. 4 -> Uses] : 3 * Rank(uses[1]) + Rank(uses[2]) <= 3 * Rank(uses[3]) + Rank(uses[4])}
UnitNodes(unit, path, uses, returned) ==
  LET n == At(unit)
      Use(use) == CASE use = "none" -> Integer [] use = "variable" -> Name("a", path, unit) [] use = "function" -> Integer
      CallOf(use) == IF use = "function" THEN <<n + 5>> ELSE <<n + 4>>
  IN (n :> K("Root", [global_nodes |-> <<n + 1, n + 2>>])) @@
     (n + 1 :> [K("Global_Variable", [expression |-> CallOf(uses)]) EXCEPT !.name = "a"]) @@
     (n + 2 :> [K("Global_Function", [codeblock |-> <<n + 3>>]) EXCEPT !.name = "b", !.type = Prim("ssize")]) @@
     (n + 3 :> Block(<<n + 7>>)) @@ (n + 4 :> Use(uses)) @@
     (n + 5 :> K("Expression_Invocation", [callee |-> <<n + 6>>])) @@ (n + 6 :> Name("b", path, unit)) @@
     (n + 7 :> K("Statement_Return", [value |-> IF returned = "function" THEN <<n + 9>> ELSE <<n + 8>>, returnable |-> <<n + 2>>])) @@
     (n + 8 :> Use(returned)) @@ (n + 9 :> K("Expression_Invocation", [callee |-> <<n + 10>>])) @@ (n + 10 :> Name("b", path, unit))
UnitPrograms(path, ways, imported) ==
  {[nodes |-> UnitNodes(1, path, uses[1], uses[2]) @@ UnitNodes(2, path, uses[3], uses[4]),
    scopes |-> [unit \in 1 .. 2 |-> [parent |-> 0, items |-> [a |-> At(unit) + 1, b |-> At(unit) + 2]]],
    units |-> [unit \in 1 .. 2 |-> [root |-> At(unit), sizes |-> <<>>, scope |-> unit, imports |-> imported[unit]]],
    casts |-> {}] : uses \in ways}
\* Each imports the other; a path may lead through the other back, or nowhere; and one alias may stand for both.
EachOther == [unit \in 1 .. 2 |-> [o |-> <<Second(unit)>>]]
Both == <<[o |-> <<2>>], [o |-> <<1, 2>>]>>
OneName == {uses \in Pairs : \E i \in 1 .. 4 : uses[i] # "none" /\ \A j \in 1 .. 4 \ {i} : uses[j] = "none"}
TwoUnits ==
  UnitPrograms(<<"o">>, Pairs, EachOther) \cup
  UNION {UnitPrograms(path, OneName, EachOther) : path \in {<<"o", "o">>, <<"p">>, <<"o", "p">>}} \cup
  UnitPrograms(<<"o">>, OneName, Both)

MCPrograms == ValuePrograms \cup CallPrograms \cup SizePrograms \cup StatementPrograms \cup TwoUnits
=============================================================================
