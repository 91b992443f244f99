------------------------------- MODULE Grammar -------------------------------
(***************************************************************************)
(* The functions of src/compiler/src/parser, each as the sequence of steps *)
(* it makes (module ParserCode). A token is its own text, a literal one of *)
(* a few representatives; what the functions only store in nodes is left   *)
(* out.                                                                    *)
(***************************************************************************)
EXTENDS ParserCode

(* The kinds of tokens: data.hpp and the keywords and symbols of pool.cpp. *)
ID          == {"a", "m", "n", "p", "q", "T", "U", "main", "self", "other",
                "std", "src", "pkg", "bind", "panic", "to", "from", "size",
                "val", "c", "t", "u", "predicat"}
Integers_   == {"0", "1", "2"}
Decimals    == {"1.5"}
Text        == {"text literal"}
Cunes       == {"cune literal"}
TypeIntegral == {"s32", "u8", "b8", "usize"}
TypeFloating == {"f32"}
TypeFixed   == {"d32", "ud32"}
TypePrimitive == TypeIntegral \cup TypeFloating \cup TypeFixed \cup Integers_
                 \cup Decimals \cup {"u0", "bool", "cune", "rune", "cstr", "str",
                 "text", "ptrsize", "nullptr", "opaque"}
Unary       == {"+", "-", "not", "!"}
Shifts      == {"b.shl.0", "b.shl.1", "b.shl.a", "b.shr.0", "b.shr.1", "b.shr.a",
                "b.rol", "b.ror"}
Arithmetic  == {"+", "-", "*", "**", "/", "%m", "%q", "%r"}
Comparing   == {"==", "!=", "===", "!==", ">=", "<=", "<", ">"}
Logical     == {"and", "nand", "or", "xor", "nor", "xnor"}
Bitwise_    == {"b.and", "b.nand", "b.or", "b.xor", "b.nor", "b.xnor"}
k_operator  == Arithmetic \cup Comparing \cup Logical \cup Bitwise_ \cup Shifts
               \cup {"d.dre", "not", "!", "b.not"}
Assigning   == {"=", "+=", "-=", "*=", "**=", "/=", "%m=", "%q=", "%r=", "d.dre=",
                "m.add=", "m.sub=", "m.dist=", "b.and=", "b.not="}
BinaryOf    == (k_operator \ {"not", "!", "b.not", "d.dre"}) \cup {"in", "nin", "is", "nis"}
               \cup (Assigning \ {"=", "d.dre=", "m.add=", "m.sub=", "m.dist=", "b.not="})
Capability  == {"mut", "ref", "move", "copy"}
PassMode    == Capability \cup {"addr", "const"}
ArgsEnding  == {">", "}", "{", ")", "]", "=", ";", "|"}
Variable    == {"let", "var", "const"}
Ranges      == {"..", "..="}
Keywords    == {"mod", "type", "form", "facet", "use", "enum", "flag", "union", "rule",
                "view", "gen", "import", "export", "reexport", "extern", "fn", "pre",
                "post", "extend", "lam", "ptr", "new", "del", "with", "op", "as", "if",
                "elif", "else", "for", "while", "do", "loop", "match", "break",
                "continue", "return", "goto", "label", "assert", "true", "false",
                "uninit", "in", "nin", "is", "nis", "step"}
               \cup PassMode \cup Variable \cup Logical \cup {"not"}
               \cup (TypePrimitive \ (Integers_ \cup Decimals))
Symbols_    == {"(", ")", "[", "]", "{", "}", "=>", "->", "::", "::<", ":", ";", ",",
                ".", "...", "?", "~", "@", "$", "_", "&", "tick", "^", "{:", ":}", "|",
                "m.add", "m.sub", "m.dist"} \cup Ranges
EOF_        == "end of file"
Token       == ID \cup Integers_ \cup Decimals \cup Text \cup Cunes \cup Keywords
               \cup Symbols_ \cup k_operator \cup Assigning
AnyKind     == Token \cup {EOF_}

(* ----------------------------------------------------------------------- *)
(* base.cpp                                                                *)
parse_import ==
  <<Match({"import"}),
    If(Is({"?", "bind"}), <<Call("regex_path"), Expect({"as"}), StepBack>>,
                          <<Call("regex_path")>>),
    When(Take({"as"}), <<Name>>),
    Either(<<>>, <<Error, Crash>>)>>

parse_export == <<Match({"export"}), Call("codeblock_no_export")>>

parse_reexport ==
  <<Match({"reexport"}), Call("regex_path"), Expect({"as"}), Name,
    Either(<<>>, <<Error>>)>>

parse_extern ==
  <<Match({"extern"}), Expect(Text), Abi(TRUE),
    Call("codeblock_no_both"), Abi(FALSE)>>

parse_instruction ==
  Try("parse_statement")
  \o <<When(Sees(<<Variable, {"("}>>), Become("tuple_destructuring"))>>
  \o Try("parse_local")
  \o <<When(Take({"del"}), <<Return("node")>>), Call("parse_expression"),
       When(Got, <<If(Is(Assigning), Become("assignment"), <<Return("same")>>)>>),
       Throw>>

regex_path ==
  <<If(Take({"@", "std", "$", "src", "pkg", "?", "bind", "~", "self"}),
       <<Expect({"::"})>>, <<Error>>),
    Loop(<<If(Is(ID), <<Name>>, <<Match(Keywords)>>),
           When(Take({"{"}), <<Loop(<<Name, Separator({","}, {"}"})>>), Break>>),
           Unless(Take({"::"}), <<Break>>)>>)>>

(* The names of an identifier: plain, where keywords are allowed, and      *)
(* where no path is. The limit of twelve elements of a path is left out.   *)
Path == Loop(<<Next_, Match({"::"}), Unless(Sees(<<AnyKind, {"::"}>>), <<Next_, Break>>)>>)
IdentifierWith(simple, qualified) ==
  <<Unless(Take({"::"}), <<Unless(Sees(<<AnyKind, {"::"}>>), <<simple, Return("symbol")>>)>>)>>
  \o qualified \o <<Path, Return("symbol")>>
identifier         == IdentifierWith(Name, <<>>)
identifier_keyword == IdentifierWith(Next_, <<>>)
identifier_simple  == IdentifierWith(Name, <<Error>>)

identifier_typed ==
  <<Match({"::<", "{"}), When(Take({">"}), <<Return("symbol")>>),
    Loop(<<Call("parse_type"), Separator({","}, {">"})>>), Return("symbol")>>

(* A parameter put in the scope; one called self or other is an error,     *)
(* since nothing sets in_extend.                                           *)
Inject(n) == <<DefineAs(n), Error>>

(* ----------------------------------------------------------------------- *)
(* declaration_extension.cpp: Extend is what the seven forms share.        *)
parse_extension ==
  <<Match({"extend"}), Call("parse_type"),
    When(Is({"fn"}), Become("extend_fn")),
    When(Is({"as"}), Become("extend_cast")),
    When(Take({"op"}),
      <<When(Is(Unary), Become("extend_op_un")),
        When(Is(BinaryOf), Become("extend_op_bin")),
        When(Is(Assigning), Become("extend_op_transfert")),
        When(Is({"[", "?", "~"}), Become("extend_op_subscript")),
        When(Is({"del", "predicat"}), Become("extend_op_other"))>>),
    Error, Return("nil")>>

Extend(first, inside) ==
  <<Returnable>> \o first \o Undefinable \o <<EnterScope>> \o inside
  \o <<Call("parse_codeblock_instruction"), ExitScope, Restore>>

extend_fn ==
  <<Match({"fn"})>>
  \o Extend(<<Name>>,
       <<Expect({"("}),
         When(Sees(<<{"ref", "mut"}, {"SELF"}>>), Inject("self") \o <<Next_, Next_>>),
         Match({","}), Call("prototype_open")>>)
extend_cast   == <<Match({"as"})>> \o Extend(<<Call("parse_type")>>,
                                             Inject("self") \o <<DefineAs("self")>>)
extend_op_bin == <<Next_>> \o Extend(<<>>, Inject("self") \o Inject("other"))
extend_op_un  == <<Next_>> \o Extend(<<>>, Inject("self"))
Subscript ==
  LET index == <<{"["}, ID, {"]"}>>
      slice == <<{"["}, ID, {".."}, ID, {"]"}>>
      or(K, s, then) == <<Unless(Takes(K \o s), then)>>
  IN or(<<>>, index, or(<<{"?"}>>, index,
       or(<<>>, slice, or(<<{"?"}>>, slice, or(<<{"~"}>>, slice, <<>>)))))
extend_op_subscript ==
  Subscript \o Extend(<<When(Take({"->"}), <<Call("parse_type")>>)>>, Inject("self"))
extend_op_transfert == Extend(<<>>, <<>>)
extend_op_other     == Extend(<<>>, <<When(Take({"->"}), <<Call("parse_type")>>)>>)

(* ----------------------------------------------------------------------- *)
(* declaration_global.cpp                                                  *)
parse_declaration ==
  <<Match({";"}),
    When(Is({"mod"}), Become("_module")),
    When(Is({"union"}), Become("_union")),
    When(Is({"flag"}), Become("flag")),
    When(Is({"enum"}), Become("enumeration")),
    When(Is(Variable), Become("global_variable")),
    When(Is({"fn"}), Become("function")),
    When(Is({"extend"}), Become("parse_extension")),
    When(Is({"gen"}), Become("generic")),
    When(Is({"type"}), Become("type_alias")),
    When(Is({"facet"}), Become("facet")),
    When(Is({"rule"}), Become("rule")),
    When(Is({"form"}), Become("form")),
    When(Is({"reexport"}), Become("parse_reexport")),
    When(Is({"export"}), Become("parse_export")),
    When(Is({"extern"}), Become("parse_extern")),
    When(Is({"import"}), Become("parse_import")),
    Throw>>

(* A block, or one element behind =>. *)
Codeblock(checks, element) ==
  LET body == checks \o <<End({"}"})>> \o element
  IN <<If(Take({"=>"}), <<Loop(body \o <<Break>>)>>, <<ExpectAny({"{"}), Loop(body)>>)>>
parse_codeblock_declaration(noimport, noexport) ==
  LET element == (IF noexport THEN <<When(Is({"export"}), <<Error>>)>> ELSE <<>>)
                 \o (IF noimport THEN <<When(Is({"import"}), <<Error>>)>> ELSE <<>>)
                 \o <<Call("parse_declaration"), Unless(Got, <<Error>>)>>
  IN Codeblock(<<Match({";"})>>, element)

_module ==
  <<Match({"mod"}), Name,
    When(Take({"="}), <<Call("identifier"), Define, Return("node")>>),
    When(Take({"{"}), <<EnterScope, Call("codeblock"), ExitScope, Return("node")>>),
    Throw>>

(* The body of a declaration: its name, a scope, and a list in braces. *)
Listed(keyword, field) ==
  <<Match({keyword}), Name, Define, EnterScope, Expect({"{"}),
    Loop(field \o <<Separator({","}, {"}"})>>), ExitScope>>
enumeration == Listed("enum", <<Name, Call("parse_type")>>)
_union      == Listed("union", <<Name, Expect({":"}), Call("parse_type")>>)
flag        == Listed("flag", <<Name>>)

(* A variable without type or value, and one left uninitialized though it  *)
(* cannot change, are errors.                                              *)
VariableWith(assigning) ==
  LET value(constant, inferred) ==
        <<If(Take(assigning),
             <<If(Take({"uninit"}), constant, <<Call("parse_expression")>>)>>, inferred)>>
      rest(constant) ==
        <<ExpectAny(Variable), Name, Define,
          If(Take({":"}), <<Call("parse_type")>> \o value(constant, <<>>),
                          value(constant, <<Error>>))>>
  IN <<If(Is({"var"}), rest(<<>>), rest(<<Error>>))>>
global_variable == VariableWith({"="})

(* A function: main may only return s32, and an extern one has no body. *)
function ==
  <<Match({"fn"}), Returnable,
    If(Is({"main"}), <<Name, Define, EnterScope, Call("prototype_of_main")>>,
                     <<Name, Define, EnterScope, Call("prototype")>>),
    If(InExtern, <<When(Is({"{"}), <<Error>>)>>, <<Call("parse_codeblock_instruction")>>),
    ExitScope, Restore>>

Contract(keyword) ==
  When(Take({keyword}),
    <<Call("parse_expression"),
      When(Take({"->"}),
        <<If(Take({"assert"}),
             <<When(Take({"("}), <<Expect(Text), StepBack, Call("literal")>>)>>,
             <<If(Is({"panic"}), <<Expect(Text), StepBack, Call("literal")>>,
                                 <<Call("parse_expression")>>)>>)>>)>>)
call_contract ==
  <<Loop(<<Contract("pre"), Contract("post"), Separator({";"}, {"{"}),
           Separator({","}, {"{"})>>)>>

(* The types a parameter may be, in a list; no text gives the lexer a "|". *)
Alternatives == <<Loop(<<Call("parse_type"), When(Take({"|"}), <<Continue>>), Break>>)>>
generic ==
  <<Match({"gen"}), Name, Define, EnterScope, Expect({"<"}),
    Loop(<<Name, End({">"})>>),
    Expect({"{"}),
    Loop(<<When(Take({"}"}), <<Break>>), Name,
           If(Take({"op"}), <<ExpectAny(k_operator), Match({";"})>>,
           <<If(Take({"facet", "view", "extend", "rule"}), <<Call("parse_expression")>>,
           <<If(Take({"is"}), Alternatives,
           <<If(Take({"as"}), <<Unless(Is({"to", "from"}), <<Error>>), Call("parse_type")>>,
             <<Error>>)>>)>>)>>),
           Match({";"})>>),
    ExitScope>>

type_alias == <<Match({"type"}), Name, Expect({"="}), Call("parse_type"), Define>>

(* ----------------------------------------------------------------------- *)
(* type.cpp                                                                *)
Qualifier == LET once == <<Match({"$"}), Match({"?"}), Match({"not"})>>
             IN once \o once \o once

table ==
  <<Match({"["}), Call("parse_type"),
    When(Takes(<<{";"}, {".."}, {"]"}>>), Qualifier \o <<Return("node")>>),
    When(Takes(<<{";"}, {"_"}, {"]"}>>), Qualifier \o <<Return("node")>>),
    When(Takes(<<{";"}, {"c"}, {"]"}>>), Qualifier \o <<Return("node")>>),
    When(Take({";"}), <<Call("parse_expression"), Expect({"]"})>> \o Qualifier
                      \o <<Return("node")>>),
    Crash>>
pointer   == <<Next_>> \o Qualifier \o <<Expect({"tick"}), Call("parse_type")>>
primitive == <<Next_>> \o Qualifier
id_type   == <<Call("identifier"), When(Take({"<", "::<"}), <<Call("identifier_typed")>>)>>
             \o Qualifier
explicit_tuple ==
  <<Match({"("}), Loop(<<Call("parse_type"), Separator({","}, {")"})>>)>> \o Qualifier

parse_type ==
  Qualifier
  \o <<When(Take({"opaque"}), <<Return("node")>>),
       When(Is({"["}), Become("table")),
       When(Is({"ptr"}), Become("pointer")),
       When(Is({"("}), Become("tuple_type")),
       When(Is({"fn"}), Become("prototype_from_type")),
       When(Is(TypePrimitive), Become("primitive")),
       When(Is(ID), Become("id_type")),
       Error, Return("nil")>>

Prototype(parens, return) ==
  <<Match({"fn", "lam"})>> \o parens
  \o <<Call("parameters"), When(Take({"->"}), return \o <<Call("parse_type")>>),
       When(Is({"pre", "post"}), <<Call("call_contract")>>)>>
prototype_from_type ==
  <<Match({"fn", "lam"}), Match({"("}),
    Unless(Take({")"}),
      <<Loop(<<When(Take({"..."}), <<Expect({")"}), Break>>),
               If(Is(PassMode), <<Next_>>, <<Next_, Error>>),
               Call("parse_type"), Separator({","}, {")"})>>)>>),
    When(Take({"->"}), <<Call("parse_type")>>)>>

(* A parameter: only some pass modes allow a default value. *)
Parameter ==
  LET rest(default) ==
        <<Next_, When(Is({"self", "other"}), <<Error>>), Name, Expect({":"}), Call("parse_type"),
          When(Take({"="}), default \o <<Call("parse_expression")>>), Define>>
  IN <<If(Is({"ref", "copy", "const"}), rest(<<>>),
       <<If(Is(PassMode), rest(<<Error>>), <<Error>> \o rest(<<>>))>>)>>
parameters ==
  <<When(Take({")"}), <<Return("node")>>),
    Loop(<<When(Take({"..."}), <<Expect({")"}), Break>>)>> \o Parameter
         \o <<Separator({","}, {")"})>>)>>

(* ----------------------------------------------------------------------- *)
(* operation.cpp: the levels from _1_memory to _15_power; Operations(k) of *)
(* module Parser runs them from level k on.                                *)
Level == [l \in 1..14 |->
  CASE l = 14 -> {"*", "/", "%m", "%q", "%r"}
    [] l = 13 -> {"+", "-"}
    [] l = 12 -> Shifts
    [] l = 11 -> {"<", ">", "<=", ">="}
    [] l = 10 -> {"==", "!=", "===", "!==", "in", "is"}
    [] l = 8  -> {"b.and", "b.nand"}
    [] l = 7  -> {"b.xor", "b.xnor"}
    [] l = 6  -> {"b.or", "b.nor"}
    [] l = 4  -> {"and", "nand"}
    [] l = 3  -> {"xor", "xnor"}
    [] l = 2  -> {"or", "nor"}
    [] l = 1  -> {"m.dist", "m.add", "m.sub"}
    [] OTHER  -> {}]
Prefix == [l \in {0, 5, 9} |-> CASE l = 0 -> Unary [] l = 5 -> {"not"} [] l = 9 -> {"b.not"}]
_15_powerOnce ==
  <<Call("parse_expression_term"),
    When(Take({"**"}), <<Call("parse_expression_term"), Operator("**", 2)>>)>>
_15_power  == <<Call("parse_expression_term"),
                When(Take({"**"}), <<Operations(15), Operator("**", 2)>>)>>
assignment == <<ExpectAny(Assigning), Call("parse_expression")>>

(* ----------------------------------------------------------------------- *)
(* expression.cpp                                                          *)
MemoryWords == {"del", "move", "mut", "ref", "copy", "size", "addr", "val", "&", "*"}
parse_expression ==
  <<When(Take({"_"}), <<Return("nil")>>),
    When(Is({"if"}), Become("if_ternary")),
    When(Is({"new"}), Become("new_ptr")),
    When(Take(MemoryWords),
         <<Match({"tick"}), Call("parse_expression"), Operator("memory", 1), Return("node")>>),
    Operations(0),
    Loop(<<If(Is(k_operator), <<Binary("parse_expression")>>, <<Return("same")>>)>>),
    Throw>>
parse_expression_term ==
  <<Call("base_expression"), If(Got, <<Call("suffix_expression"), Return("same")>>, <<Throw>>)>>
base_expression ==
  <<When(Take(Capability), <<Expect({"tick"})>>),
    When(Take({"("}), <<Call("parse_expression"), Expect({")"}), Return("same")>>),
    Operand>>
  \o Try("literal_silent")
  \o <<When(Is({"::"} \cup ID),
       <<Call("identifier"),
         When(Sees(<<{"{"}, {"."}>>), Become("literal_facet")),
         When(Sees(<<{"{"}, {"@"}>>), Become("literal_form")),
         Return("same")>>),
       Throw>>

(* What follows a term: a literal takes a range or a cast, anything else   *)
(* accesses first.                                                         *)
suffix_expression ==
  LET range == When(Is(Ranges), <<Call("literal_range")>>)
      cast  == When(Is({"as"}), Become("cast_as"))
  IN <<When(GotLiteral, <<range, cast, Return("same")>>),
       Loop(<<If(Is({"."}), <<Call("member_access")>>,
              <<If(Is({"("}), <<Assert(GotSymbol), Call("function_call")>>,
              <<If(Is({"->"}), <<Call("rule_call")>>,
              <<If(Take({"?", "["}), <<Call("table_access")>>, <<Break>>)>>)>>)>>)>>),
       If(Is({"~"}), <<Call("getbits"), When(Is({"["}), <<Call("table_access")>>)>>, <<range>>),
       cast, Return("same")>>
cast_as == <<Next_, Unless(Take({"!"}), <<Match({"?"})>>), Call("parse_type")>>
call_arguments ==
  <<When(Take({")"}), <<Return("node")>>),
    Loop(<<When(Sees(<<ID, {"="}>>), <<Next_, Expect({":"})>>), Call("parse_expression"),
           When(Take({",", "..."}), <<Continue>>), When(Take({")"}), <<Break>>)>>)>>
function_call == <<Match({"("}), Call("call_arguments")>>
rule_call     == <<Match({"->"}), Call("identifier"), Call("call_arguments")>>
if_ternary ==
  <<Call("parse_evaluator"), Expect({"=>"}), Call("parse_expression"),
    When(Take({"else"}), <<Match({"=>"}), Call("parse_expression")>>)>>
member_access == <<Match({"."}), Call("identifier_simple")>>
table_access  == <<Match({"["}), Call("parse_expression"), Expect({"]"})>>
getbits       == <<Match({"~"}), Expect({"["}), Call("parse_expression"), Expect({"]"})>>
new_ptr ==
  <<Match({"new"}), Expect({"ptr"}), Expect({"tick"}), Call("parse_type"), Expect({"("}),
    Call("parse_expression"), Expect({")"})>>

(* ----------------------------------------------------------------------- *)
(* literal.cpp                                                             *)
Literal(otherwise) ==
  <<When(Take({"nullptr", "true", "false"} \cup Cunes), <<Return("literal")>>),
    When(Is(Decimals), Become("literal_decimal")),
    When(Is(Integers_), Become("literal_numeric")),
    When(Is(Text), Become("literal_textual")),
    When(Is(Ranges), Become("literal_range")),
    When(Is({"["}), Become("literal_table")),
    When(Sees(<<{"("}, AnyKind, {",", ":"}>>), Become("literal_tuple")),
    otherwise>>

(* The type behind a number. That of a fixed point is consumed before it   *)
(* is looked at.                                                           *)
FixedPoint    == <<Next_, Match(TypeFixed \cup {"ud", "d"}),
                   When(Take({":"}), <<When(Is(Integers_), <<Next_>>)>>), Return("literal")>>
FloatingPoint == <<Match(TypeFloating), Match({"f"}), Return("literal")>>
Integral      == <<Match(TypeIntegral \cup {"i", "u", "b"}), Return("literal")>>
literal_numeric ==
  <<Next_, When(Is(TypeIntegral), Integral),
    When(Is(TypeFixed \cup {"d", "ud"}), FixedPoint),
    When(Is(TypeFloating \cup {"f"}), FloatingPoint)>> \o Integral
literal_decimal ==
  <<Next_, When(Is(TypeFixed), FixedPoint), When(Is(TypeFloating \cup {"f"}), FloatingPoint),
    When(Is({"d", "ud"}), FixedPoint)>> \o FloatingPoint

literal_textualEndless ==
  <<Loop(<<When(Take(Text), <<Continue>>), Continue>>), Return("literal")>>
literal_textual ==
  <<Loop(<<When(Take(Text),
             <<If(Take({"text", "t"}), <<Match({"str", "s"})>>,
                  <<Match({"cstr", "c", "cune", "cu", "rune", "r"})>>), Continue>>),
           When(Take({"{:"}),
             <<Call("parse_expression"), When(Take({":"}), <<Call("format_specifier")>>),
               Expect({":}"}), Continue>>),
           Break>>),
    Return("literal")>>
format_specifier ==
  LET number == <<If(Take({"{"}), <<Call("parse_expression_term"), Expect({"{"})>>,
                     <<When(Is(Integers_), <<Call("parse_expression_term")>>)>>)>>
  IN <<When(Sees(<<AnyKind, {"<", ">", "^", "~", "="}>>), <<Next_, Next_>>),
       Match({"+", "-"}), When(Take({"HASHTAG"}), <<Expect(Cunes)>>),
       When(Take({"0"}), <<Match({"="})>>)>>
     \o number \o <<Match({",", "_", "tick"}), When(Take({"."}), number), Match(Cunes),
                    Unless(Is({":}"}), <<Error>>)>>

literal_range ==
  <<ExpectAny(Ranges), Unless(Is(ArgsEnding), <<Call("parse_expression")>>), Return("literal")>>

(* A table, a matrix, a population or a map. The reference to the current  *)
(* dimension is stale once a dimension is added; the ranges of a           *)
(* population are then read from empty dimensions.                         *)
Stale == Either(<<>>, <<Crash>>)
Dimension(colon, semicolon, population) ==
  <<Call("parse_expression"), When(Take({":"}), colon), When(Take({";"}), semicolon),
    When(Take({"=>"}), population), Separator({","}, {"]"})>>
literal_table ==
  LET dimensions == <<Stale, Loop(Dimension(<<Throw>>, <<Stale, Continue>>, <<Crash>>)), Break>>
  IN <<Match({"["}), When(Take({"]"}), <<Return("literal")>>),
       Loop(Dimension(Become("table_map"), dimensions, Become("table_population"))
            \o <<Loop(Dimension(<<Throw>>, dimensions, <<Throw>>)), Break>>),
       Return("literal")>>
table_population == <<Loop(<<Call("parse_expression"), Separator({";"}, {"]"})>>), Return("literal")>>
table_map ==
  <<Loop(<<Call("parse_expression"), When(Take({":"}), <<Call("parse_expression")>>),
           When(Take({";"}), <<Stale, Continue>>), Separator({","}, {"]"})>>),
    Return("literal")>>

literal_record ==
  <<Match({"{"}), When(Is({"."}), Become("literal_facet")),
    When(Is({"@"}), Become("literal_form")), Crash>>
literal_form ==
  <<Match({"{"}),
    Loop(<<Expect({"@"}), When(Take({"}"}), <<Return("literal")>>), Call("identifier"),
           Call("literal_facet"), Separator({","}, {"}"})>>),
    Return("literal")>>
literal_facet ==
  <<Match({"{"}),
    Loop(<<Expect({"."}), When(Take({"}"}), <<Return("literal")>>), Name, Expect({"="}),
           Call("parse_expression"), Separator({","}, {"}"})>>),
    Return("literal")>>
literal_tuple ==
  <<If(Is({":"}), <<Loop(<<Name, Expect({"="}), Call("parse_expression"),
                           Unless(Take({","}), <<Break>>)>>)>>,
                  <<Loop(<<Call("parse_expression"), Unless(Take({","}), <<Break>>)>>)>>),
    Return("literal")>>

(* ----------------------------------------------------------------------- *)
(* declaration_local.cpp                                                   *)
parse_local ==
  <<When(Is(Variable), Become("variable")), When(Is({"lam"}), Become("lambda")),
    When(Is({"ref", "mut"}), Become("capability")), Return("nil")>>
variable == VariableWith(Assigning)
tuple_destructuring ==
  <<Next_, Loop(<<Unless(Take({"_"}), <<Match(Capability), Name, Define>>),
                  Separator({","}, {"="})>>), Call("parse_expression")>>
lambda_capture ==
  <<When(Sees(<<{"mut", "copy"}, {"]"}>>), <<Next_, Return("node")>>), Match({"SELF"}),
    Loop(<<ExpectAny(Capability)>>)>>
lambda ==
  <<Returnable, If(Is(ID), <<Name, Define, EnterScope>>, <<EnterScope>>),
    When(Take({"["}), <<Call("lambda_capture")>>), Call("prototype"),
    Call("parse_codeblock_instruction"), ExitScope, Restore>>
parse_codeblock_instruction ==
  Codeblock(<<>>, <<Call("parse_instruction"), Unless(Got, <<Error>>)>>)
capability == <<ExpectAny(Capability), Name, Expect({"="}), Call("parse_expression")>>

(* The patterns of a condition name the value they are compared with, those *)
(* of a match do not.                                                       *)
parse_evaluator == <<When(Take({"mut", "ref"}), Become("pattern")), Call("parse_expression"),
                     Return("same")>>
pattern_mapping ==
  <<When(Take({"_"}), <<Return("node")>>)>> \o Try("literal_silent")
  \o <<When(Take(Capability), <<Expect({"tick"})>>), Name>>
Compared == <<Expect({"="}), Call("parse_expression")>>
Elements(compared) == <<Loop(<<Call("pattern_mapping"), Separator({","}, {")"})>>)>> \o compared
tuple_pattern(compared) ==
  <<When(Is({")"}), <<Error>>)>> \o Elements(compared) \o <<Return("node")>>
enum_pattern(compared) ==
  <<Expect({"("}), When(Is({")"}), <<Error>>), When(Take(Capability), <<Expect({"tick"})>>)>>
  \o Elements(compared) \o <<Return("node")>>
form_pattern(facets, compared) ==
  <<Loop(<<Call("identifier"),
           If(Take({"{"}), <<Call(facets)>>,
              <<Expect({"."}), Name, Expect({":"}), Call("pattern_mapping")>>),
           Separator({","}, {"}"})>>)>> \o compared \o <<Return("node")>>
parse_pattern(facets, compared) ==
  <<When(Take({"("}), tuple_pattern(compared)),
    Call("identifier_keyword"),
    When(Take({"("}), enum_pattern(compared)),
    When(Takes(<<{"::"}, {"<"}>>), form_pattern(facets, compared)),
    When(Take({"{"}), Become(facets)),
    Throw>>
facet_pattern(compared) ==
  <<Loop(<<Separator({","}, {"}"}), Expect({","}), Name, Expect({":"}),
           Call("pattern_mapping")>>)>> \o compared

(* ----------------------------------------------------------------------- *)
(* declaration_sfm.cpp, without view, which nothing calls                  *)
facet ==
  <<Match({"facet"}), Name, Define, Expect({"{"}), When(Take({"}"}), <<Return("node")>>),
    Loop(<<Match({"ref", "mut"}), Name, Expect({":"}), Call("parse_type"), Define,
           Expect({"="}), Call("parse_expression"), Separator({","}, {"}"})>>)>>
form ==
  <<Match({"form"}), Name, Define, EnterScope, Expect({"{"}),
    Loop(<<Call("parse_form_declaration"), End({"}"})>>), ExitScope>>
parse_form_declaration ==
  <<If(Take({"use"}),
       <<Call("identifier"), Call("identifier_typed"),
         If(Is({"{"}), <<Call("literal_record")>>, <<Error>>)>>, <<Error>>)>>

(* A rule without any facet is an error. *)
rule ==
  LET case   == <<Expect({"with"}), Call("_rule_case")>>
      after  == <<When(Is({"with"}), <<Continue>>), When(Take({"}"}), <<Break>>), Error>>
      done   == <<ExitScope, Restore, Return("node")>>
      facets == <<Unless(Is({"with"}), <<If(Take({"}"}), done, <<Error>>)>>),
                  Loop(case \o after)>> \o done
  IN <<Match({"rule"}), Name, Returnable, Define, EnterScope, Call("prototype"), Expect({"{"}),
       Loop(case \o <<When(GotSymbol, facets)>> \o after), Error>> \o done
_rule_case ==
  <<Match({"with"}),
    When(Take({"_"}), <<Call("parse_codeblock_instruction"), Return("node")>>),
    Loop(<<Expect({"("}), Name, Define, Expect({"("}), Separator({"+"}, {"{"})>>),
    Call("parse_codeblock_instruction"), Return("symbol")>>

(* ----------------------------------------------------------------------- *)
(* statement.cpp                                                           *)
parse_statement ==
  <<Match({";"}),
    When(Is({"if"}), Become("if_statement")),
    When(Is({"for"}), Become("for_statement")),
    When(Is({"while", "do"}), Become("while_statement")),
    When(Is({"loop"}), Become("loop_statement")),
    When(Is({"match"}), Become("match_statement")),
    When(Is({"break", "continue"}), <<Bind, Next_, Return("node")>>),
    When(Is({"return"}), Become("return_flow")),
    When(Take({"goto"}), <<Name, Return("node")>>),
    When(Is({"label"}), Become("goto_label_statement")),
    Return("nil")>>
Block_ == <<Call("parse_codeblock_instruction")>>
if_statement ==
  <<Match({"if"}), Match({"elif"}), EnterScope, Call("parse_evaluator"), Assert(Got)>>
  \o Block_ \o <<ExitScope,
    If(Take({"elif"}), <<Call("if_statement")>>,
       <<When(Take({"else"}), <<EnterScope>> \o Block_ \o <<ExitScope>>)>>)>>
BreakingUnrestored(body) == <<Breakable, EnterScope>> \o body \o <<ExitScope>>
Breaking(body) == <<Breakable, EnterScope>> \o body \o <<ExitScope, Restore>>
for_statement ==
  Breaking(<<Match({"for"}), When(Is(ID), <<Name, Define>>),
             When(Take(Capability),
               <<If(Take({"("}), <<Loop(<<Name, Define, Separator({","}, {")"})>>)>>,
                                 <<Name, Define>>)>>),
             Expect({"in"}), Call("parse_expression")>> \o Block_)
loop_statementUnlinked == <<EnterScope, Match({"loop"})>> \o Block_ \o <<ExitScope>>
loop_statement == Breaking(<<Match({"loop"})>> \o Block_)
while_statement ==
  Breaking(<<If(Take({"while"}), <<Call("parse_evaluator")>> \o Block_,
       <<If(Take({"do"}), Block_ \o <<Expect({"while"}), Call("parse_evaluator"), Match({";"})>>,
            <<Error>>)>>)>>)
match_statement ==
  LET cases(patterns) ==
        <<Loop(<<When(Take({"}"}), <<Error, Break>>), When(Take({"_"}), Block_ \o <<Break>>),
                 If(Take({"mut", "ref"}), <<Call(patterns)>>, <<Call("parse_expression")>>)>>
               \o Block_ \o <<End({"}"})>>)>>
  IN Breaking(<<Match({"match"}), Call("parse_expression"), Expect({"{"}),
                If(Got, cases("pattern_of_match"), cases("pattern"))>>)
return_flow ==
  <<Bind, Match({"return"}), When(Take({";"}), <<Return("node")>>),
    When(Is({"}"}), <<Return("node")>>), Call("parse_expression")>>
goto_label_statement == <<Match({"label"}), Name>> \o Undefinable \o Block_

(* context.cpp: the declarations of a file, up to the first without node.  *)
start_parsing ==
  <<Loop(<<Call("parse_declaration"), Unless(Got, <<Stop>>)>>)>>

(* Every function by its name, and the arguments that change its steps. *)
Function ==
  [_module |-> _module, _rule_case |-> _rule_case, _union |-> _union,
   assignment |-> assignment, base_expression |-> base_expression,
   call_arguments |-> call_arguments, call_contract |-> call_contract,
   capability |-> capability, cast_as |-> cast_as,
   codeblock |-> parse_codeblock_declaration(FALSE, FALSE),
   codeblock_no_both |-> parse_codeblock_declaration(TRUE, TRUE),
   codeblock_no_export |-> parse_codeblock_declaration(FALSE, TRUE),
   enumeration |-> enumeration, extend_cast |-> extend_cast, extend_fn |-> extend_fn,
   extend_op_bin |-> extend_op_bin, extend_op_other |-> extend_op_other,
   extend_op_subscript |-> extend_op_subscript,
   extend_op_transfert |-> extend_op_transfert, extend_op_un |-> extend_op_un,
   facet |-> facet, facet_pattern |-> facet_pattern(Compared),
   facet_pattern_of_match |-> facet_pattern(<<>>), flag |-> flag,
   for_statement |-> for_statement, form |-> form,
   format_specifier |-> format_specifier, function |-> function,
   function_call |-> function_call, generic |-> generic, getbits |-> getbits,
   global_variable |-> global_variable,
   goto_label_statement |-> goto_label_statement, id_type |-> id_type,
   identifier |-> identifier, identifier_keyword |-> identifier_keyword,
   identifier_simple |-> identifier_simple, identifier_typed |-> identifier_typed,
   if_statement |-> if_statement, if_ternary |-> if_ternary, lambda |-> lambda,
   lambda_capture |-> lambda_capture, literal |-> Literal(Throw),
   literal_decimal |-> literal_decimal, literal_facet |-> literal_facet,
   literal_form |-> literal_form, literal_numeric |-> literal_numeric,
   literal_range |-> literal_range, literal_record |-> literal_record,
   literal_silent |-> Literal(Return("nil")), literal_table |-> literal_table,
   literal_textual |-> literal_textual, literal_tuple |-> literal_tuple,
   loop_statement |-> loop_statement, match_statement |-> match_statement,
   member_access |-> member_access, new_ptr |-> new_ptr, parameters |-> parameters,
   parse_codeblock_instruction |-> parse_codeblock_instruction,
   parse_declaration |-> parse_declaration, parse_evaluator |-> parse_evaluator,
   parse_export |-> parse_export, parse_expression |-> parse_expression,
   parse_expression_term |-> parse_expression_term,
   parse_extension |-> parse_extension, parse_extern |-> parse_extern,
   parse_form_declaration |-> parse_form_declaration, parse_import |-> parse_import,
   parse_instruction |-> parse_instruction, parse_local |-> parse_local,
   parse_reexport |-> parse_reexport, parse_statement |-> parse_statement,
   parse_type |-> parse_type, pattern |-> parse_pattern("facet_pattern", Compared),
   pattern_of_match |-> parse_pattern("facet_pattern_of_match", <<>>),
   pattern_mapping |-> pattern_mapping, pointer |-> pointer, primitive |-> primitive,
   prototype |-> Prototype(<<Expect({"("})>>, <<>>),
   prototype_from_type |-> prototype_from_type,
   prototype_of_main |-> Prototype(<<Expect({"("})>>, <<Unless(Is({"s32"}), <<Error>>)>>),
   prototype_open |-> Prototype(<<>>, <<>>), regex_path |-> regex_path,
   return_flow |-> return_flow, rule |-> rule, rule_call |-> rule_call,
   suffix_expression |-> suffix_expression, table |-> table,
   table_access |-> table_access, table_map |-> table_map,
   table_population |-> table_population,
   tuple_destructuring |-> tuple_destructuring, tuple_type |-> explicit_tuple,
   type_alias |-> type_alias, variable |-> variable,
   while_statement |-> while_statement]
=============================================================================
