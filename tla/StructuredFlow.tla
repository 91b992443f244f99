---------------------------- MODULE StructuredFlow ----------------------------
(***************************************************************************)
(* The body of a Tolza function as the parser accepts it, statement by     *)
(* statement (compiler/src/parser/statement.cpp), and what its control     *)
(* statements mean: which point of the program may follow which.           *)
(*                                                                         *)
(* A point is a place where something is evaluated: a plain instruction,   *)
(* a condition, the range of a for, the start of a loop or of the body of  *)
(* a do-while.  The parser binds break and continue to current_breakable,  *)
(* the innermost loop around them.  Match is left out: the code generator  *)
(* has no code for it.                                                     *)
(***************************************************************************)
EXTENDS Naturals, Sequences

CONSTANT MaxSize  \* bound: the number of statements of a function

VARIABLES
  size,    \* statements so far
  points,  \* points so far; point 1 is the entry of the function, 0 its caller
  follow,  \* <<p, q>>: q may be the next point after p
  live,    \* the points from which control reaches the current place
  open,    \* the statements around the current place, innermost last
  jumped,  \* a jump stands before the current place in its code block
  odd,     \* the unusual things the function does, see below
  ended    \* the function is complete

program == <<size, points, follow, live, open, jumped, odd, ended>>

Loops == {"for", "loop", "while", "do"}

\* dead: a statement after a jump in the same code block.  tail: a jump ends the
\* body of a while or a do-while.  shadow: a break or continue after a nested loop
\* of the same loop.  do: a break of a do-while.  goto: a label or a goto.
Oddities == {"dead", "tail", "shadow", "do", "goto"}

Frame(kind, head) ==
  [kind |-> kind,    \* the statement
   head |-> head,    \* its condition or the start of the loop
   outs |-> {},      \* points that leave it: ends of branches, breaks
   conts |-> {},     \* continues of a do-while
   inner |-> FALSE]  \* a loop inside this loop is complete

Top == open[Len(open)]
Pop == SubSeq(open, 1, Len(open) - 1)
In(kinds) == ~ended /\ open # <<>> /\ Top.kind \in kinds

LoopsOf(stack) == {i \in 1 .. Len(stack) : stack[i].kind \in Loops}
Innermost(i, stack) == i \in LoopsOf(stack) /\ \A j \in LoopsOf(stack) : j <= i

Init ==
  /\ size = 0
  /\ points = 1
  /\ follow = {}
  /\ live = {1}
  /\ open = <<>>
  /\ jumped = FALSE
  /\ odd = {}
  /\ ended = FALSE

\* A further statement of the function.
Statement(notes) ==
  /\ ~ended
  /\ size < MaxSize
  /\ size' = size + 1
  /\ odd' = odd \cup notes \cup (IF jumped THEN {"dead"} ELSE {})
  /\ UNCHANGED ended

\* The end of a code block.
Closing(notes) ==
  /\ odd' = odd \cup notes
  /\ jumped' = FALSE
  /\ UNCHANGED <<size, ended>>

New == points + 1
\* A new point, reached from the points of from.
Arrive(from) == points' = New /\ follow' = follow \cup (from \X {New})

Plain ==
  /\ Statement({})
  /\ Arrive(live)
  /\ live' = {New}
  /\ UNCHANGED <<open, jumped>>

\* The condition of an if, the start of a loop.
Enter(kind) ==
  /\ Statement({})
  /\ Arrive(live)
  /\ live' = {New}
  /\ open' = Append(open, Frame(kind, New))
  /\ jumped' = FALSE

OpenIf == Enter("if")
OpenLoop(kind) == kind \in Loops /\ Enter(kind)

\* elif: the condition is evaluated when the one before it is false.
Elif ==
  /\ In({"if"})
  /\ size < MaxSize
  /\ size' = size + 1
  /\ Arrive({Top.head})
  /\ open' = [open EXCEPT ![Len(open)] = [Top EXCEPT !.head = New, !.outs = @ \cup live]]
  /\ live' = {New}
  /\ jumped' = FALSE
  /\ UNCHANGED <<odd, ended>>

Else ==
  /\ In({"if"})
  /\ open' = [open EXCEPT ![Len(open)] = [Top EXCEPT !.kind = "else", !.outs = @ \cup live]]
  /\ live' = {Top.head}
  /\ Closing({})
  /\ UNCHANGED <<points, follow>>

\* The end of the if statement: without an else its last condition falls through.
CloseIf ==
  /\ In({"if", "else"})
  /\ live' = Top.outs \cup live \cup (IF Top.kind = "if" THEN {Top.head} ELSE {})
  /\ open' = Pop
  /\ Closing({})
  /\ UNCHANGED <<points, follow>>

CloseLoop(kind) ==
  /\ kind \in Loops /\ In({kind})
  /\ \/ /\ kind # "do"
        /\ follow' = follow \cup (live \X {Top.head})
        /\ live' = Top.outs \cup (IF kind = "loop" THEN {} ELSE {Top.head})
        /\ UNCHANGED points
     \/ /\ kind = "do"
        /\ points' = New
        /\ follow' = follow \cup ((live \cup Top.conts) \X {New}) \cup {<<New, Top.head>>}
        /\ live' = Top.outs \cup {New}
  /\ open' = [i \in 1 .. Len(Pop) |->
                IF Innermost(i, Pop) THEN [Pop[i] EXCEPT !.inner = TRUE] ELSE Pop[i]]
  /\ Closing(IF jumped /\ kind \in {"while", "do"} THEN {"tail"} ELSE {})

\* A jump out of, or to the next turn of, the innermost loop, which is open[i].
Leave(i, notes) ==
  /\ Innermost(i, open)
  /\ Statement(notes \cup (IF open[i].inner THEN {"shadow"} ELSE {}))
  /\ live' = {}
  /\ jumped' = TRUE
  /\ UNCHANGED points

\* Outside of loops the parser accepts break and continue too; they mean nothing.
Nowhere ==
  /\ LoopsOf(open) = {}
  /\ Statement({})
  /\ UNCHANGED <<points, follow, live, open, jumped>>

Break ==
  \/ \E i \in 1 .. Len(open) :
       /\ Leave(i, IF open[i].kind = "do" THEN {"do"} ELSE {})
       /\ open' = [open EXCEPT ![i].outs = @ \cup live]
       /\ UNCHANGED follow
  \/ Nowhere

Continue ==
  \/ \E i \in 1 .. Len(open) :
       /\ Leave(i, {})
       /\ \/ /\ open[i].kind = "do"
             /\ open' = [open EXCEPT ![i].conts = @ \cup live]
             /\ UNCHANGED follow
          \/ /\ open[i].kind # "do"
             /\ follow' = follow \cup (live \X {open[i].head})
             /\ UNCHANGED open
  \/ Nowhere

Return ==
  /\ Statement({})
  /\ follow' = follow \cup (live \X {0})
  /\ live' = {}
  /\ jumped' = TRUE
  /\ UNCHANGED <<points, open>>

\* Labels: only their nesting is described.
OpenLabel ==
  /\ Statement({"goto"})
  /\ open' = Append(open, Frame("label", New))
  /\ jumped' = FALSE
  /\ UNCHANGED <<points, follow, live>>

CloseLabel ==
  /\ In({"label"})
  /\ open' = Pop
  /\ Closing({})
  /\ UNCHANGED <<points, follow, live>>

GoTo ==
  /\ Statement({"goto"})
  /\ jumped' = TRUE
  /\ UNCHANGED <<points, follow, live, open>>

\* The end of the function returns to the caller.
End ==
  /\ ~ended /\ open = <<>>
  /\ ended' = TRUE
  /\ follow' = follow \cup (live \X {0})
  /\ UNCHANGED <<size, points, live, open, jumped, odd>>

Kinds == Loops \cup {"if", "else", "label"}
FlowTypeOK ==
  /\ size \in Nat
  /\ points \in Nat \ {0}
  /\ follow \subseteq Nat \X Nat
  /\ live \subseteq Nat
  /\ open \in Seq([kind : Kinds, head : Nat, outs : SUBSET Nat, conts : SUBSET Nat, inner : BOOLEAN])
  /\ jumped \in BOOLEAN
  /\ odd \subseteq Oddities
  /\ ended \in BOOLEAN

=============================================================================
