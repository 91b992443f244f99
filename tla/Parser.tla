------------------------------- MODULE Parser -------------------------------
(***************************************************************************)
(* The parser of one file (src/compiler/src/parser) over the tokens of the *)
(* file: it runs the functions of module Grammar, from start_parsing on,   *)
(* with the token viewer (lexer/token_viewer.cpp) and the context they     *)
(* share: the scopes, the statement a break leaves, the function a return  *)
(* leaves, the extern block. A parse that fails leaves by an exception,    *)
(* which ends the parse (parser/recovery.cpp).                             *)
(***************************************************************************)
EXTENDS Grammar

CONSTANTS
  Texts,        \* the token sequences of the files
  Assertions    \* whether the build keeps its assertions

ASSUME ParserAssumption ==
  /\ \A t \in Texts : t \in Seq(Token)
  /\ Assertions \in BOOLEAN

VARIABLES
  text,         \* the tokens of the file, without the end of file behind them
  at,           \* Viewer::current
  todo,         \* the steps left to do, those of the innermost call first
  result,       \* what the last call returned
  name,         \* the name the function at work has read
  scopes,       \* the scopes entered, each with the names defined in it
  breakable,    \* current_breakable: where its statement begins, 0 for none
  returnable,   \* current_returnable, likewise
  abi,          \* whether extern_abi is set
  erred,        \* whether an error was added
  operations,   \* the expressions read so far, in postfix order
  status
vars == <<text, at, todo, result, name, scopes, breakable, returnable, abi, erred,
          operations, status>>
context == <<scopes, breakable, returnable, abi>>
read    == <<name, operations>>

Results  == {"nil", "node", "symbol", "literal"}
Failures == {"hang", "spin", "deep", "crash"}
Statuses == {"running", "accepted", "rejected"} \cup Failures

AtEnd  == at > Len(text)
Peek(k) == IF at + k > Len(text) THEN EOF_ ELSE text[at + k]
Last   == IF at = 1 THEN EOF_ ELSE text[at - 1]
Here(K) == ~AtEnd /\ text[at] \in K

(* The marks a call and a loop leave behind the steps of their bodies: the *)
(* calls at work are the positions of theirs, the innermost first.         *)
Calls == {i \in 1 .. Len(todo) : todo[i].do = "ret"}
ReturnMark(f) == [do |-> "ret", f |-> f, from |-> at, depth |-> Len(scopes),
                  breakable |-> breakable, returnable |-> returnable, name |-> name]
AgainMark(body) == [do |-> "again", body |-> body, from |-> at]
Position(kind) == CHOOSE i \in 1 .. Len(todo) :
                    todo[i].do = kind /\ \A j \in 1 .. (i - 1) : todo[j].do # kind
From(i)  == SubSeq(todo, i, Len(todo))

Init ==
  /\ text \in Texts
  /\ at = 1 /\ todo = start_parsing
  /\ result = "nil" /\ name = EOF_
  /\ scopes = <<{}>> /\ breakable = 0 /\ returnable = 0 /\ abi = FALSE
  /\ erred = FALSE /\ operations = <<>> /\ status = "running"

Step(kind) == status = "running" /\ todo # <<>> /\ Head(todo).do = kind
Do(steps)  == todo' = steps \o Tail(todo)
Done       == todo' = Tail(todo)
Consume(k) == at' = at + k
Finish(s)  == status' = s /\ todo' = <<>>

(* The viewer: what is expected is consumed even when it is not there, what *)
(* is expected among several only when it is.                               *)
Forward == at' = IF AtEnd THEN at ELSE at + 1
View ==
  /\ \/ /\ Step("match")
        /\ IF Here(Head(todo).kinds) THEN Consume(1) ELSE UNCHANGED at
        /\ UNCHANGED <<erred, name>>
     \/ /\ Step("expect") /\ Forward
        /\ erred' = (erred \/ ~Here(Head(todo).kinds)) /\ UNCHANGED name
     \/ /\ Step("expect any")
        /\ IF Here(Head(todo).kinds) THEN Consume(1) /\ UNCHANGED erred
                                     ELSE erred' = TRUE /\ UNCHANGED at
        /\ UNCHANGED name
     \/ /\ Step("name") /\ Forward
        /\ erred' = (erred \/ ~Here(ID)) /\ name' = Peek(0)
     \/ Step("next") /\ Forward /\ UNCHANGED <<erred, name>>
     \/ Step("back") /\ at' = at - 1 /\ UNCHANGED <<erred, name>>
  /\ Done /\ UNCHANGED <<text, result, operations, context, status>>

Holds(c) ==
  CASE c.on = "tokens" -> /\ Len(c.kinds) > 1 \/ ~AtEnd
                          /\ \A i \in 1 .. Len(c.kinds) : Peek(i - 1) \in c.kinds[i]
    [] c.on = "result" -> result \in c.in
    [] c.on = "abi"    -> abi
    [] c.on = "never"  -> FALSE
Takes_(c) == c.on = "tokens" /\ c.take
Choose ==
  /\ \/ LET s == Head(todo)
        IN /\ Step("if")
           /\ IF Holds(s.cond)
              THEN Do(s.then) /\ Consume(IF Takes_(s.cond) THEN Len(s.cond.kinds) ELSE 0)
              ELSE Do(s.else) /\ UNCHANGED at
     \/ /\ Step("either") /\ UNCHANGED at
        /\ \/ Do(Head(todo).one)
           \/ Do(Head(todo).other)
  /\ UNCHANGED <<text, result, read, context, erred, status>>

(* A loop runs until the end of the file. One that comes round without a   *)
(* token consumed never ends.                                              *)
Repeat ==
  /\ \/ /\ Step("loop")
        /\ IF AtEnd THEN Done ELSE Do(Head(todo).body \o <<AgainMark(Head(todo).body)>>)
        /\ UNCHANGED status
     \/ /\ Step("again")
        /\ IF AtEnd THEN Done /\ UNCHANGED status
           ELSE IF at = Head(todo).from THEN Finish("spin")
           ELSE Do(Head(todo).body \o <<AgainMark(Head(todo).body)>>) /\ UNCHANGED status
     \/ Step("break") /\ todo' = From(Position("again") + 1) /\ UNCHANGED status
     \/ Step("continue") /\ todo' = From(Position("again")) /\ UNCHANGED status
  /\ UNCHANGED <<text, at, result, read, context, erred>>

(* match_field_separator: the separator, the end, or an error.             *)
Separate ==
  /\ Step("separator")
  /\ LET s == Head(todo)
     IN \/ Here(s.kinds) /\ Consume(1) /\ Done /\ UNCHANGED erred
        \/ ~Here(s.kinds) /\ Here(s.end) /\ Consume(1)
           /\ todo' = From(Position("again") + 1) /\ UNCHANGED erred
        \/ ~Here(s.kinds) /\ ~Here(s.end) /\ Done /\ UNCHANGED at
           /\ erred' = (erred \/ s.kinds # {})
  /\ UNCHANGED <<text, result, read, context, status>>

(* A call inside the same call at the same token never ends.               *)
Called(f) == \E i \in 1 .. Len(todo) : todo[i].do = "ret" /\ todo[i].f = f /\ todo[i].from = at
CallFunction ==
  /\ Step("call")
  /\ LET f == Head(todo).f
     IN IF Called(f) THEN Finish("deep")
        ELSE Do(Function[f] \o <<ReturnMark(f)>>) /\ UNCHANGED status
  /\ UNCHANGED <<text, at, result, read, context, erred>>

(* The end of a body, and a return before it.                              *)
LeaveFunction ==
  /\ \/ Step("ret") /\ Done /\ result' = "node" /\ name' = Head(todo).name
     \/ LET i == Position("ret")
        IN /\ Step("return") /\ todo' = From(i + 1) /\ name' = todo[i].name
           /\ result' = IF Head(todo).result = "same" THEN result ELSE Head(todo).result
  /\ UNCHANGED <<text, at, operations, context, erred, status>>

(* An exception ends the parse: recover_sync returns at once, except at the *)
(* end of the file, where it never does.                                    *)
Leave ==
  /\ \/ Step("throw") /\ erred' = TRUE /\ Finish(IF AtEnd THEN "hang" ELSE "rejected")
     \/ Step("stop")  /\ Finish("rejected") /\ UNCHANGED erred
     \/ Step("crash") /\ Finish("crash") /\ UNCHANGED erred
  /\ UNCHANGED <<text, at, result, read, context>>
AddError ==
  /\ Step("error") /\ Done /\ erred' = TRUE
  /\ UNCHANGED <<text, at, result, read, context, status>>
CheckAssertion ==
  /\ Step("assert")
  /\ IF Assertions /\ ~Holds(Head(todo).cond) THEN Finish("crash") ELSE Done /\ UNCHANGED status
  /\ UNCHANGED <<text, at, result, read, context, erred>>

(* The context of the functions. The scope functions return to is the      *)
(* parent; add_definition keeps the first definition of a name, and the    *)
(* assertion behind it fails.                                              *)
Top == Len(scopes)
Scope ==
  /\ \/ Step("enter") /\ scopes' = Append(scopes, {}) /\ Done /\ UNCHANGED status
     \/ Step("exit") /\ scopes' = SubSeq(scopes, 1, Top - 1) /\ Done /\ UNCHANGED status
     \/ LET n == IF Head(todo).do = "define" THEN name ELSE Head(todo).name
        IN /\ Step("define") \/ Step("define as")
           /\ scopes' = [scopes EXCEPT ![Top] = @ \cup {n}]
           /\ IF Assertions /\ n \in scopes[Top] THEN Finish("crash") ELSE Done /\ UNCHANGED status
  /\ UNCHANGED <<text, at, result, read, breakable, returnable, abi, erred>>
Target ==
  /\ LET frame == todo[Position("ret")]
     IN \/ Step("breakable")  /\ breakable' = frame.from /\ UNCHANGED <<returnable, abi>>
        \/ Step("returnable") /\ returnable' = frame.from /\ UNCHANGED <<breakable, abi>>
        \/ /\ Step("restore") /\ breakable' = frame.breakable /\ returnable' = frame.returnable
           /\ UNCHANGED abi
        \/ Step("abi") /\ abi' = Head(todo).to /\ UNCHANGED <<breakable, returnable>>
        \/ Step("bind") /\ UNCHANGED <<breakable, returnable, abi>>
  /\ Done /\ UNCHANGED <<text, at, result, read, scopes, erred, status>>

(* operation.cpp: the operations from level k on. An operator of level l    *)
(* takes a right side of the levels above it; the loops of the levels down  *)
(* to k follow.                                                             *)
Tails(j, k) == [do |-> "tails", from |-> j, to |-> k]
Prefixed(k) ==
  IF k = 0 THEN <<Operations(1), Operator(Peek(0), 1)>>
           ELSE <<Operations(CHOOSE l \in {5, 9} : Peek(0) \in Prefix[l]), Operator(Peek(0), 1)>>
Operate ==
  /\ \/ /\ Step("operations")
        /\ LET k == Head(todo).level
               l == {p \in {0, 5, 9} : (p = 0) = (k = 0) /\ k <= p /\ Here(Prefix[p])}
           IN \/ l # {} /\ Consume(1)
                 /\ Do(Prefixed(k) \o (IF k = 0 THEN <<>>
                                       ELSE <<Tails((CHOOSE p \in l : TRUE) - 1, k)>>))
              \/ l = {} /\ UNCHANGED at
                 /\ Do(IF k = 0 THEN <<Operations(1)>> ELSE _15_power \o <<Tails(14, k)>>)
     \/ /\ Step("tails")
        /\ LET L == {l \in Head(todo).to .. Head(todo).from : Here(Level[l])}
               l == CHOOSE l \in L : TRUE
           IN \/ L # {} /\ Consume(1)
                 /\ Do(<<Operations(l + 1), Operator(Peek(0), 2), Tails(l, Head(todo).to)>>)
              \/ L = {} /\ Done /\ UNCHANGED at
     \/ Step("binary") /\ Consume(1) /\ Do(<<Call(Head(todo).f), Operator(Peek(0), 2)>>)
  /\ UNCHANGED <<text, result, read, context, erred, status>>
Write ==
  /\ \/ Step("operand") /\ operations' = Append(operations, <<"term", at>>) /\ UNCHANGED result
     \/ /\ Step("operator") /\ result' = "node"
        /\ operations' = Append(operations, <<Head(todo).of, Head(todo).arity>>)
  /\ Done /\ UNCHANGED <<text, at, name, context, erred, status>>

(* start_parsing returns whether the file has no error.                    *)
End_ ==
  /\ status = "running" /\ todo = <<>>
  /\ status' = IF erred THEN "rejected" ELSE "accepted"
  /\ UNCHANGED <<text, at, todo, result, read, context, erred>>

Next ==
  \/ View \/ Choose \/ Repeat \/ Separate \/ CallFunction \/ LeaveFunction \/ Leave \/ AddError
  \/ CheckAssertion \/ Scope \/ Target \/ Operate \/ Write \/ End_
  \/ status # "running" /\ UNCHANGED vars

Spec == Init /\ [][Next]_vars

(* ----------------------------------------------------------------------- *)
(* Properties                                                              *)

(* A function that returns leaves the scope, the target of break and the   *)
(* target of return as they were when it was called, whichever way it      *)
(* returns. A call is left when its mark is no longer where it was, so     *)
(* many steps before the last one.                                         *)
Left(i) == ~\E j \in Calls' : Len(todo') - j = Len(todo) - i
ContextRestored ==
  [][status' = "running" =>
       \A i \in Calls : Left(i) =>
         /\ Len(scopes') = todo[i].depth
         /\ breakable' = todo[i].breakable
         /\ returnable' = todo[i].returnable]_vars

Breaking_  == {"for_statement", "while_statement", "loop_statement", "match_statement"}
Returning  == {"function", "lambda", "rule", "extend_fn", "extend_cast", "extend_op_bin",
               "extend_op_un", "extend_op_subscript", "extend_op_transfert", "extend_op_other"}
Innermost(kinds) == LET at_ == {i \in Calls : todo[i].f \in kinds}
                    IN IF at_ = {} THEN 0 ELSE todo[CHOOSE i \in at_ : \A j \in at_ : i <= j].from
(* A break or continue is bound to the innermost loop or match around it,  *)
(* and a return to the innermost function, lambda, rule or extension: the  *)
(* calls still at work say which that is.                                  *)
LinksRight ==
  Step("bind") => breakable = Innermost(Breaking_) /\ returnable = Innermost(Returning)

(* A parse that goes round without consuming a token has added an error    *)
(* before (the loops over is_end, recover_sync).                           *)
SpinsOnlyAfterError == status = "spin" => erred

LevelOf(o) == IF o = "**" THEN 15 ELSE CHOOSE l \in 1 .. 14 : o \in Level[l]
Applied[lo \in Nat, hi \in Nat] ==
  IF lo = hi THEN <<<<"term", lo>>>>
  ELSE LET ops    == {i \in lo .. hi : (i - lo) % 2 = 1}
           lowest == {i \in ops : \A j \in ops : LevelOf(text[i]) <= LevelOf(text[j])}
           last   == CHOOSE i \in lowest :
                       \A j \in lowest : IF LevelOf(text[i]) = 15 THEN i <= j ELSE i >= j
       IN Applied[lo, last - 1] \o Applied[last + 1, hi] \o <<<<text[last], 2>>>>
Behind == <<"type", "m", "=", "s32">>
IsOperation(n) ==
  /\ n > 4 /\ n % 2 = 0 /\ text = <<"var", "a", "=">> \o SubSeq(text, 4, n) \o Behind
  /\ \A i \in 4 .. n : IF i % 2 = 0 THEN text[i] \in ID
                       ELSE text[i] = "**" \/ \E l \in 1 .. 14 : text[i] \in Level[l]
(* An operation of terms and binary operators binds as the table of levels *)
(* says: the operator applied last is the last one of the lowest level, or *)
(* the first if that is the power.                                         *)
OperatorsBind ==
  LET n == Len(text) - Len(Behind)
  IN status # "running" /\ IsOperation(n) => status = "accepted" /\ operations = Applied[4, n]

=============================================================================
