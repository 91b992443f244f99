----------------------------- MODULE ParserCode -----------------------------
(***************************************************************************)
(* The steps the functions of the parser are made of, as data: a function  *)
(* of src/compiler/src/parser is a sequence of them (module Grammar), and  *)
(* module Parser runs them. Each constructor stands for one way the        *)
(* functions ask the token viewer (lexer/token_viewer.cpp) or change the   *)
(* parser context (parser/context.cpp).                                    *)
(***************************************************************************)
EXTENDS Naturals, Sequences

(* The conditions: what the next tokens are, and whether they are consumed *)
(* when they are that; what the last call returned; whether the parser is  *)
(* inside an extern block.                                                 *)
Sees(kinds)   == [on |-> "tokens", kinds |-> kinds, take |-> FALSE]
Takes(kinds)  == [on |-> "tokens", kinds |-> kinds, take |-> TRUE]
Is(K)         == Sees(<<K>>)
Take(K)       == Takes(<<K>>)
Got           == [on |-> "result", in |-> {"node", "symbol", "literal"}]
GotSymbol     == [on |-> "result", in |-> {"symbol"}]
GotLiteral    == [on |-> "result", in |-> {"literal"}]
InExtern      == [on |-> "abi"]

(* The steps. *)
Match(K)      == [do |-> "match", kinds |-> K]
Expect(K)     == [do |-> "expect", kinds |-> K]
ExpectAny(K)  == [do |-> "expect any", kinds |-> K]
Next_         == [do |-> "next"]
StepBack      == [do |-> "back"]
Name          == [do |-> "name"]
If(c, a, b)   == [do |-> "if", cond |-> c, then |-> a, else |-> b]
When(c, a)    == If(c, a, <<>>)
Unless(c, a)  == If(c, <<>>, a)
Either(a, b)  == [do |-> "either", one |-> a, other |-> b]
Loop(body)    == [do |-> "loop", body |-> body]
Break         == [do |-> "break"]
Continue      == [do |-> "continue"]
Separator(K, E) == [do |-> "separator", kinds |-> K, end |-> E]
Call(f)       == [do |-> "call", f |-> f]
Return(r)     == [do |-> "return", result |-> r]
Throw         == [do |-> "throw"]
Stop          == [do |-> "stop"]
Error         == [do |-> "error"]
Crash         == [do |-> "crash"]
Assert(c)     == [do |-> "assert", cond |-> c]
EnterScope    == [do |-> "enter"]
ExitScope     == [do |-> "exit"]
Define        == [do |-> "define"]
DefineAs(n)   == [do |-> "define as", name |-> n]
Breakable     == [do |-> "breakable"]
Returnable    == [do |-> "returnable"]
Restore       == [do |-> "restore"]
Abi(b)        == [do |-> "abi", to |-> b]
Operand       == [do |-> "operand"]
Operator(o, n) == [do |-> "operator", of |-> o, arity |-> n]
Operations(k) == [do |-> "operations", level |-> k]
Binary(f)     == [do |-> "binary", f |-> f]
Bind          == [do |-> "bind"]

(* Shorthands: the end of a list without separator; the result of another  *)
(* function, returned as it is; a function tried first; a definition of a  *)
(* node get_decl_name has no case for (ast/dumper.cpp:286): an assertion,  *)
(* and without assertions a function that ends without a value.            *)
End(E)        == [do |-> "separator", kinds |-> {}, end |-> E]
Become(f)     == <<Call(f), Return("same")>>
Try(f)        == <<Call(f), When(Got, <<Return("same")>>)>>
Undefinable   == <<Assert([on |-> "never"]), Either(<<Crash>>, <<>>)>>
=============================================================================
