----------------------------- MODULE ControlFlow -----------------------------
(***************************************************************************)
(* The basic blocks of a function: how Codegen_AST turns the statements of *)
(* a body into LLVM blocks and branches                                    *)
(* (the codegen_Statement functions of compiler/src/codegen/codegen.cpp).  *)
(*                                                                         *)
(* The generator visits the tree in order, so the function is chosen while *)
(* it is visited: every action below is one step of the visit and the step *)
(* of StructuredFlow that says which statement it is.  An action that      *)
(* opens a statement is the code before codegen_node(n.codeblock), the one *)
(* that closes it the code after.                                          *)
(***************************************************************************)
EXTENDS Naturals, Sequences

CONSTANTS
  MaxSize,    \* bound: the number of statements
  MaxBlocks,  \* bound: the number of basic blocks
  Labels,     \* the labels of the function
  None        \* nullptr

VARIABLES
  size, points, follow, live, open, jumped, odd, ended,  \* the function, see StructuredFlow
  blocks,   \* the number of blocks created; block 1 is "entry", 0 stands for the caller
  code,     \* what each block holds
  phis,     \* <<h, b>>: the phi node of block h has an incoming value from b
  cur,      \* builder.GetInsertBlock()
  brk,      \* current_bb_break
  cont,     \* current_bb_continue
  frames,   \* the C++ stack: the statements being generated and their blocks
  gotos,    \* gotos[l]: the block of a label that is complete
  crashed   \* the generator recurses for ever

program == <<size, points, follow, live, open, jumped, odd, ended>>
ir == <<blocks, code, phis>>
builder == <<cur, brk, cont, frames, gotos, crashed>>
vars == <<program, ir, builder>>

Flow == INSTANCE StructuredFlow

Blocks == 1 .. MaxBlocks
ASSUME FlowAssumption == MaxSize \in Nat /\ MaxBlocks \in Nat \ {0} /\ None \notin Nat

Empty == [points |-> <<>>,   \* what is evaluated in the block
          ends |-> <<>>,     \* the targets of its terminators
          late |-> FALSE]    \* something is evaluated after a terminator
Entry == [points |-> <<1>>, ends |-> <<>>, late |-> FALSE]

Terminated(b) == code[b].ends # <<>>

\* builder.CreateBr, CreateCondBr, CreateRet append at the end of the block.
Branch(c, b, targets) == [c EXCEPT ![b] = [c[b] EXCEPT !.ends = Append(@, targets)]]
BranchIfOpen(c, b, target) == IF c[b].ends = <<>> THEN Branch(c, b, {target}) ELSE c
Evaluate(c, b, p) ==
  [c EXCEPT ![b] = [points |-> Append(c[b].points, p),
                    ends |-> c[b].ends,
                    late |-> c[b].late \/ c[b].ends # <<>>]]

Frame(kind, next, alt, back) ==
  [kind |-> kind,
   next |-> next,  \* where the code after the statement goes
   alt |-> alt,    \* the block of the alternative of an if
   back |-> back,  \* where the end of the body branches to
   label |-> None,
   jump |-> FALSE] \* a goto is waiting for its label

Top == frames[Len(frames)]
Pop == SubSeq(frames, 1, Len(frames) - 1)
In(kinds) == frames # <<>> /\ Top.kind \in kinds

\* llvm::BasicBlock::Create, k times.
Create(k) == blocks + k <= MaxBlocks /\ blocks' = blocks + k

Init ==
  /\ Flow!Init
  /\ blocks = 1
  /\ code = [b \in Blocks |-> IF b = 1 THEN Entry ELSE Empty]
  /\ phis = {}
  /\ cur = 1
  /\ brk = None
  /\ cont = None
  /\ frames = <<>>
  /\ gotos = [l \in Labels |-> None]
  /\ crashed = FALSE

(***************************************************************************)
(* Mutated forms of the actions below: bugs the properties must notice.    *)
(***************************************************************************)

\* The latch of the innermost for is forgotten: continue goes to the header.
OpenForToHeader ==
  /\ Flow!OpenLoop("for")
  /\ Create(4)
  /\ code' = Branch(Evaluate(Branch(code, cur, {blocks + 1}), blocks + 1, points'),
                    blocks + 1, {blocks + 2, blocks + 4})
  /\ phis' = phis \cup {<<blocks + 1, cur>>}
  /\ brk' = blocks + 4
  /\ cont' = blocks + 1
  /\ cur' = blocks + 2
  /\ frames' = Append(frames, Frame("for", blocks + 4, blocks + 1, blocks + 3))
  /\ UNCHANGED <<gotos, crashed>>

\* The end of an if or else block branches even after a return.
CloseIfAlways ==
  /\ Flow!CloseIf
  /\ In({"if", "else"}) /\ Top.alt = None
  /\ code' = Branch(code, cur, {Top.next})
  /\ cur' = Top.next
  /\ frames' = Pop
  /\ UNCHANGED <<blocks, phis, brk, cont, gotos, crashed>>

\* An elif with an alternative of its own forgets to use its block.
ElifToMerge(alt) ==
  /\ Flow!Elif
  /\ In({"if"}) /\ Top.alt # None
  /\ Create(IF alt THEN 2 ELSE 1)
  /\ LET then == blocks + 1
         other == IF alt THEN blocks + 2 ELSE None
         c == BranchIfOpen(code, cur, Top.next)
     IN  /\ code' = Branch(Evaluate(c, Top.alt, points'), Top.alt, {then, Top.next})
         /\ cur' = then
         /\ frames' = [frames EXCEPT ![Len(frames)] = Frame("if", Top.next, other, None)]
  /\ UNCHANGED <<phis, brk, cont, gotos, crashed>>

(***************************************************************************)
(* Statements without a code block.                                        *)
(***************************************************************************)

Plain ==
  /\ Flow!Plain
  /\ code' = Evaluate(code, cur, points')
  /\ UNCHANGED <<blocks, phis, builder>>

Return ==
  /\ Flow!Return
  /\ code' = Branch(code, cur, {0})
  /\ UNCHANGED <<blocks, phis, builder>>

Break ==
  /\ Flow!Break
  /\ code' = IF brk = None THEN code ELSE Branch(code, cur, {brk})
  /\ UNCHANGED <<blocks, phis, builder>>

Continue ==
  /\ Flow!Continue
  /\ code' = IF cont = None THEN code ELSE Branch(code, cur, {cont})
  /\ UNCHANGED <<blocks, phis, builder>>

(***************************************************************************)
(* if, elif, else: the blocks of a chain share one merge block.            *)
(***************************************************************************)

OpenIf(alt) ==
  /\ Flow!OpenIf
  /\ Create(IF alt THEN 3 ELSE 2)
  /\ LET then == blocks + 1
         other == IF alt THEN blocks + 2 ELSE None
         merge == blocks'
     IN  /\ code' = Branch(Evaluate(code, cur, points'), cur, {then, IF alt THEN other ELSE merge})
         /\ cur' = then
         /\ frames' = Append(frames, Frame("if", merge, other, None))
  /\ UNCHANGED <<phis, brk, cont, gotos, crashed>>

Elif(alt) ==
  /\ Flow!Elif
  /\ In({"if"}) /\ Top.alt # None
  /\ Create(IF alt THEN 2 ELSE 1)
  /\ LET then == blocks + 1
         other == IF alt THEN blocks + 2 ELSE None
         c == BranchIfOpen(code, cur, Top.next)
     IN  /\ code' = Branch(Evaluate(c, Top.alt, points'), Top.alt,
                           {then, IF alt THEN other ELSE Top.next})
         /\ cur' = then
         /\ frames' = [frames EXCEPT ![Len(frames)] = Frame("if", Top.next, other, None)]
  /\ UNCHANGED <<phis, brk, cont, gotos, crashed>>

Else ==
  /\ Flow!Else
  /\ In({"if"}) /\ Top.alt # None
  /\ code' = BranchIfOpen(code, cur, Top.next)
  /\ cur' = Top.alt
  /\ frames' = [frames EXCEPT ![Len(frames)] = Frame("else", Top.next, None, None)]
  /\ UNCHANGED <<blocks, phis, brk, cont, gotos, crashed>>

CloseIf ==
  /\ Flow!CloseIf
  /\ In({"if", "else"}) /\ Top.alt = None
  /\ code' = BranchIfOpen(code, cur, Top.next)
  /\ cur' = Top.next
  /\ frames' = Pop
  /\ UNCHANGED <<blocks, phis, brk, cont, gotos, crashed>>

(***************************************************************************)
(* Loops.  current_bb_break and current_bb_continue are set before the     *)
(* body and are nullptr after it, whatever they were before.               *)
(***************************************************************************)

\* header, body, latch, exit
OpenFor ==
  /\ Flow!OpenLoop("for")
  /\ Create(4)
  /\ code' = Branch(Evaluate(Branch(code, cur, {blocks + 1}), blocks + 1, points'),
                    blocks + 1, {blocks + 2, blocks + 4})
  /\ phis' = phis \cup {<<blocks + 1, cur>>}
  /\ brk' = blocks + 4
  /\ cont' = blocks + 3
  /\ cur' = blocks + 2
  /\ frames' = Append(frames, Frame("for", blocks + 4, blocks + 1, blocks + 3))
  /\ UNCHANGED <<gotos, crashed>>

CloseFor ==
  /\ Flow!CloseLoop("for")
  /\ In({"for"})
  /\ code' = Branch(BranchIfOpen(code, cur, Top.back), Top.back, {Top.alt})
  /\ phis' = phis \cup {<<Top.alt, Top.back>>}
  /\ brk' = None /\ cont' = None
  /\ cur' = Top.next
  /\ frames' = Pop
  /\ UNCHANGED <<blocks, gotos, crashed>>

\* body, after
OpenLoop ==
  /\ Flow!OpenLoop("loop")
  /\ Create(2)
  /\ code' = Evaluate(Branch(code, cur, {blocks + 1}), blocks + 1, points')
  /\ brk' = blocks + 2
  /\ cont' = blocks + 1
  /\ cur' = blocks + 1
  /\ frames' = Append(frames, Frame("loop", blocks + 2, None, blocks + 1))
  /\ UNCHANGED <<phis, gotos, crashed>>

CloseLoop ==
  /\ Flow!CloseLoop("loop")
  /\ In({"loop"})
  /\ code' = BranchIfOpen(code, cur, Top.back)
  /\ brk' = None /\ cont' = None
  /\ cur' = Top.next
  /\ frames' = Pop
  /\ UNCHANGED <<blocks, phis, gotos, crashed>>

\* header, body, merge
OpenWhile ==
  /\ Flow!OpenLoop("while")
  /\ Create(3)
  /\ code' = Branch(Evaluate(Branch(code, cur, {blocks + 1}), blocks + 1, points'),
                    blocks + 1, {blocks + 2, blocks + 3})
  /\ brk' = blocks + 3
  /\ cont' = blocks + 1
  /\ cur' = blocks + 2
  /\ frames' = Append(frames, Frame("while", blocks + 3, None, blocks + 1))
  /\ UNCHANGED <<phis, gotos, crashed>>

\* The targets of a finished while stay in place.
CloseWhileKeeps ==
  /\ Flow!CloseLoop("while")
  /\ In({"while"})
  /\ code' = Branch(code, cur, {Top.back})
  /\ cur' = Top.next
  /\ frames' = Pop
  /\ UNCHANGED <<blocks, phis, brk, cont, gotos, crashed>>

\* The branch back to the header is created whether the body is terminated or not.
CloseWhile ==
  /\ Flow!CloseLoop("while")
  /\ In({"while"})
  /\ code' = Branch(code, cur, {Top.back})
  /\ brk' = None /\ cont' = None
  /\ cur' = Top.next
  /\ frames' = Pop
  /\ UNCHANGED <<blocks, phis, gotos, crashed>>

\* root, body, merge; current_bb_break is left alone.
OpenDo ==
  /\ Flow!OpenLoop("do")
  /\ Create(3)
  /\ code' = Evaluate(Branch(code, cur, {blocks + 2}), blocks + 2, points')
  /\ cont' = blocks + 1
  /\ cur' = blocks + 2
  /\ frames' = Append(frames, Frame("do", blocks + 3, blocks + 2, blocks + 1))
  /\ UNCHANGED <<phis, brk, gotos, crashed>>

CloseDo ==
  /\ Flow!CloseLoop("do")
  /\ In({"do"})
  /\ code' = Branch(Evaluate(Branch(code, cur, {Top.back}), Top.back, points'),
                    Top.back, {Top.alt, Top.next})
  /\ brk' = None /\ cont' = None
  /\ cur' = Top.next
  /\ frames' = Pop
  /\ UNCHANGED <<blocks, phis, gotos, crashed>>

(***************************************************************************)
(* Labels and gotos.  A label is generated where it is met first, by its   *)
(* own statement or by a goto, without a branch from the block before it.  *)
(***************************************************************************)

Label(l, jump) ==
  /\ gotos[l] = None
  /\ \A i \in 1 .. Len(frames) : frames[i].label # l
  /\ Flow!OpenLabel
  /\ Create(1)
  /\ cur' = blocks + 1
  /\ frames' = Append(frames, [Frame("label", blocks + 1, None, None)
                                 EXCEPT !.label = l, !.jump = jump])
  /\ UNCHANGED <<code, phis, brk, cont, gotos, crashed>>

OpenLabel(l) == Label(l, FALSE)
GoToNew(l) == Label(l, TRUE)

\* An open block continues in "label.dead"; the branch of the goto that asked for
\* the label is created wherever the builder is by then.
CloseLabel ==
  /\ Flow!CloseLabel
  /\ In({"label"})
  /\ LET dead == blocks + 1
         c == BranchIfOpen(code, cur, dead)
         last == IF Terminated(cur) THEN cur ELSE dead
     IN  /\ Create(IF Terminated(cur) THEN 0 ELSE 1)
         /\ cur' = last
         /\ code' = IF Top.jump THEN Branch(c, last, {Top.next}) ELSE c
  /\ gotos' = [gotos EXCEPT ![Top.label] = Top.next]
  /\ frames' = Pop
  /\ UNCHANGED <<phis, brk, cont, crashed>>

GoToKnown(l) ==
  /\ gotos[l] # None
  /\ Flow!GoTo
  /\ code' = Branch(code, cur, {gotos[l]})
  /\ UNCHANGED <<blocks, phis, builder>>

\* A goto inside its own label generates the label again, and again.
GoToOpen(l) ==
  /\ \E i \in 1 .. Len(frames) : frames[i].label = l
  /\ Flow!GoTo
  /\ crashed' = TRUE
  /\ UNCHANGED <<ir, cur, brk, cont, frames, gotos>>

(***************************************************************************)
(* codegen_Global_Function after the body: the last block returns.         *)
(***************************************************************************)
End ==
  /\ Flow!End
  /\ frames = <<>>
  /\ code' = BranchIfOpen(code, cur, 0)
  /\ UNCHANGED <<blocks, phis, builder>>

Stopped == (ended \/ crashed) /\ UNCHANGED vars

If == CloseIf \/ Else \/ \E alt \in BOOLEAN : OpenIf(alt) \/ Elif(alt)
Open == OpenFor \/ OpenLoop \/ OpenWhile \/ OpenDo
Close == CloseFor \/ CloseLoop \/ CloseWhile \/ CloseDo
Goto == CloseLabel \/ \E l \in Labels : OpenLabel(l) \/ GoToNew(l) \/ GoToKnown(l) \/ GoToOpen(l)

Next ==
  \/ ~crashed /\ (Plain \/ Return \/ Break \/ Continue \/ If \/ Open \/ Close \/ Goto \/ End)
  \/ Stopped

Spec == Init /\ [][Next]_vars

------------------------------------------------------------------------------
Contents == [points : Seq(Nat), ends : Seq(SUBSET (0 .. MaxBlocks)), late : BOOLEAN]
MaybeBlock == Blocks \cup {None}
Frames == [kind : Flow!Kinds, next : Blocks, alt : MaybeBlock, back : MaybeBlock,
           label : Labels \cup {None}, jump : BOOLEAN]

TypeOK ==
  /\ Flow!FlowTypeOK
  /\ blocks \in Blocks
  /\ code \in [Blocks -> Contents]
  /\ phis \subseteq Blocks \X Blocks
  /\ cur \in Blocks
  /\ brk \in MaybeBlock
  /\ cont \in MaybeBlock
  /\ frames \in Seq(Frames)
  /\ gotos \in [Labels -> MaybeBlock]
  /\ crashed \in BOOLEAN

Finished == ended /\ ~crashed
Without(oddities) == odd \cap oddities = {}

\* The blocks a statement under way has created and not yet entered.
PendingOf(f) ==
  CASE f.kind = "if" -> {f.next} \cup ({f.alt} \ {None})
    [] f.kind \in {"for", "do"} -> {f.next, f.back}
    [] f.kind = "label" -> {}
    [] OTHER -> {f.next}
PendingIn(stack) == UNION {PendingOf(stack[i]) : i \in 1 .. Len(stack)}
Pending == PendingIn(frames)

(* A block the generator has left has a terminator, unless there are labels: *)
(* the merge blocks, latches and exits created ahead of time are entered and *)
(* ended in their turn, also when every branch into them returned.           *)
BlocksEnded ==
  "goto" \notin odd =>
    \A b \in 1 .. blocks : Terminated(b) \/ b \in Pending \cup {cur}

(* A block that is still to be entered holds nothing yet: no two statements *)
(* ever write into the same merge block, latch or exit.                     *)
PendingUntouched == \A b \in Pending : code[b] = Empty /\ b # cur

(* current_bb_break and current_bb_continue are never stale: they are blocks *)
(* of a loop whose body is being generated.                                 *)
TargetsOpen ==
  /\ brk # None => \E i \in 1 .. Len(frames) :
       frames[i].kind \in {"for", "loop", "while"} /\ frames[i].next = brk
  /\ cont # None => \E i \in 1 .. Len(frames) :
       frames[i].kind \in Flow!Loops /\ frames[i].back = cont

(* A finished function without labels, statements after a jump or a jump at *)
(* the end of a while body passes the verifier: every block has exactly one *)
(* terminator, and nothing after it.                                        *)
WellFormed ==
  Finished /\ Without({"goto", "dead", "tail"}) =>
    \A b \in 1 .. blocks : Len(code[b].ends) = 1 /\ ~code[b].late

(* The phi node of a for has one incoming value for every block that        *)
(* branches to its header, in every finished function without labels.       *)
PhisComplete ==
  Finished /\ Without({"goto"}) =>
    \A h \in {p[1] : p \in phis} :
      {p[2] : p \in {q \in phis : q[1] = h}} =
        {b \in 1 .. blocks : \E i \in DOMAIN code[b].ends : h \in code[b].ends[i]}

\* The point reached first from the start of a block.
FirstPoints[b \in 0 .. blocks] ==
  IF b = 0 THEN {0}
  ELSE IF code[b].points # <<>> THEN {code[b].points[1]}
  ELSE UNION {FirstPoints[t] : t \in code[b].ends[1]}

BlockFlow ==
  UNION {LET p == code[b].points
             n == Len(p)
         IN  {<<p[i], p[i + 1]>> : i \in 1 .. n - 1}
               \cup (IF n = 0 THEN {} ELSE {p[n]} \X UNION {FirstPoints[t] : t \in code[b].ends[1]})
         : b \in 1 .. blocks}

(* The blocks do what the statements say: in a finished function that does  *)
(* none of the odd things, a point can follow another in the blocks exactly *)
(* if it can in the program.                                                *)
Faithful == Finished /\ odd = {} => BlockFlow = follow

(***************************************************************************)
(* What the comments and documents say, and the code does not keep.        *)
(***************************************************************************)

=============================================================================
