-------------------------- MODULE ControlFlowProofs --------------------------
(***************************************************************************)
(* Proofs about ControlFlow for functions of any size.                     *)
(*                                                                         *)
(* What makes the invariant inductive is the ownership of blocks: a block  *)
(* the generator has created is finished, is the one it writes into, or is *)
(* still to be entered by exactly one statement of the C++ stack (Apart).  *)
(* A terminator is put twice into a block only after a jump, so the places *)
(* where the language leaves a jump open are tracked beside it (JumpInv).  *)
(***************************************************************************)
EXTENDS ControlFlow, SequenceTheorems, TLAPS

Loop == {"for", "loop", "while", "do"}

(* The blocks a statement under way needs are there.                       *)
Shape(f) ==
  /\ f.kind \in Loop => f.back \in Blocks
  /\ f.kind \in {"for", "do"} => f.alt \in Blocks /\ f.next # f.back
  /\ f.kind = "if" => f.next # f.alt
  /\ f.kind = "label" => f.label \in Labels

(* No block is pending for two statements.                                 *)
Apart(stack) ==
  \A i, j \in 1 .. Len(stack) : i # j => PendingOf(stack[i]) \cap PendingOf(stack[j]) = {}

(* The stack of the generator is that of the program.                      *)
StackInv ==
  /\ Len(open) = Len(frames)
  /\ \A i \in 1 .. Len(frames) : open[i].kind = frames[i].kind /\ Shape(frames[i])
  /\ (\E i \in 1 .. Len(frames) : frames[i].kind = "label") => "goto" \in odd

Tidy == Without({"goto", "dead", "tail"})
Fine(b) == Len(code[b].ends) <= 1 /\ ~code[b].late

OwnerInv ==
  /\ cur \in 1 .. blocks
  /\ Pending \subseteq 1 .. blocks
  /\ Apart(frames)
  /\ \A b \in Blocks : b > blocks => code[b] = Empty
  /\ PendingUntouched
  /\ BlocksEnded

(* In a tidy function no block is ended twice, and the block in hand is     *)
(* ended only after a jump, or at the end.                                 *)
JumpInv ==
  Tidy => /\ \A b \in 1 .. blocks : Fine(b)
          /\ Terminated(cur) => jumped \/ ended

EndInv == ended => frames = <<>> /\ Terminated(cur)

IInv == TypeOK /\ StackInv /\ OwnerInv /\ JumpInv /\ TargetsOpen /\ EndInv

------------------------------------------------------------------------------
(* What the three ways of writing into a block do.                         *)

LEMMA BranchFacts ==
  ASSUME NEW c \in [Blocks -> Contents], NEW b \in Blocks, NEW t \in SUBSET (0 .. MaxBlocks)
  PROVE  /\ Branch(c, b, t) \in [Blocks -> Contents]
         /\ \A d \in Blocks : d # b => Branch(c, b, t)[d] = c[d]
         /\ Branch(c, b, t)[b].ends # <<>>
         /\ Branch(c, b, t)[b].late = c[b].late
         /\ Len(Branch(c, b, t)[b].ends) = Len(c[b].ends) + 1
<1>1. c[b] \in Contents /\ c[b].ends \in Seq(SUBSET (0 .. MaxBlocks))
  BY DEF Contents
<1>2. /\ Append(c[b].ends, t) \in Seq(SUBSET (0 .. MaxBlocks))
      /\ Len(Append(c[b].ends, t)) = Len(c[b].ends) + 1
      /\ Append(c[b].ends, t) # <<>>
  BY <1>1
<1>3. /\ Branch(c, b, t)[b] = [c[b] EXCEPT !.ends = Append(@, t)]
      /\ \A d \in Blocks : d # b => Branch(c, b, t)[d] = c[d]
  BY DEF Branch
<1>4. [c[b] EXCEPT !.ends = Append(@, t)] \in Contents
  BY <1>1, <1>2 DEF Contents
<1> QED
  BY <1>1, <1>2, <1>3, <1>4 DEF Branch, Contents

LEMMA BranchIfOpenFacts ==
  ASSUME NEW c \in [Blocks -> Contents], NEW b \in Blocks, NEW t \in 0 .. MaxBlocks
  PROVE  /\ BranchIfOpen(c, b, t) \in [Blocks -> Contents]
         /\ \A d \in Blocks : d # b => BranchIfOpen(c, b, t)[d] = c[d]
         /\ BranchIfOpen(c, b, t)[b].ends # <<>>
         /\ BranchIfOpen(c, b, t)[b].late = c[b].late
         /\ Len(c[b].ends) <= 1 => Len(BranchIfOpen(c, b, t)[b].ends) <= 1
<1>1. CASE c[b].ends = <<>>
  BY <1>1, BranchFacts, {t} \in SUBSET (0 .. MaxBlocks) DEF BranchIfOpen
<1>2. CASE c[b].ends # <<>>
  BY <1>2 DEF BranchIfOpen
<1> QED
  BY <1>1, <1>2

LEMMA EvaluateFacts ==
  ASSUME NEW c \in [Blocks -> Contents], NEW b \in Blocks, NEW p \in Nat
  PROVE  /\ Evaluate(c, b, p) \in [Blocks -> Contents]
         /\ \A d \in Blocks : d # b => Evaluate(c, b, p)[d] = c[d]
         /\ Evaluate(c, b, p)[b].ends = c[b].ends
         /\ c[b].ends = <<>> /\ ~c[b].late => ~Evaluate(c, b, p)[b].late
<1>1. c[b] \in Contents /\ c[b].points \in Seq(Nat) /\ c[b].late \in BOOLEAN
  BY DEF Contents
<1> DEFINE l == c[b].late \/ c[b].ends # <<>>
           r == [points |-> Append(c[b].points, p), ends |-> c[b].ends, late |-> l]
<1>2. l \in BOOLEAN /\ (c[b].ends = <<>> /\ ~c[b].late => ~l)
  OBVIOUS
<1>3. Evaluate(c, b, p) = [c EXCEPT ![b] = r]
  BY DEF Evaluate
<1> HIDE DEF l
<1>4. r \in Contents /\ r.ends = c[b].ends /\ r.late = l
  BY <1>1, <1>2 DEF Contents
<1> HIDE DEF r
<1> QED
  BY <1>2, <1>3, <1>4

LEMMA EmptyFacts == Empty \in Contents /\ Empty.ends = <<>> /\ ~Empty.late /\ Len(Empty.ends) = 0
BY DEF Empty, Contents

------------------------------------------------------------------------------
(* What the pending blocks become when a statement is opened, closed or     *)
(* changed.                                                                *)

LEMMA PushFacts ==
  ASSUME NEW s \in Seq(Frames), NEW f \in Frames
  PROVE  /\ Append(s, f) \in Seq(Frames)
         /\ Len(Append(s, f)) = Len(s) + 1
         /\ \A i \in 1 .. Len(s) : Append(s, f)[i] = s[i]
         /\ Append(s, f)[Len(s) + 1] = f
         /\ PendingIn(Append(s, f)) = PendingIn(s) \cup PendingOf(f)
         /\ Apart(s) /\ PendingOf(f) \cap PendingIn(s) = {} => Apart(Append(s, f))
<1>1. /\ Append(s, f) \in Seq(Frames)
      /\ Len(Append(s, f)) = Len(s) + 1
      /\ \A i \in 1 .. Len(s) : Append(s, f)[i] = s[i]
      /\ Append(s, f)[Len(s) + 1] = f
      /\ Len(s) \in Nat
  OBVIOUS
<1>2. PendingIn(Append(s, f)) = PendingIn(s) \cup PendingOf(f)
  <2>1. 1 .. Len(Append(s, f)) = 1 .. Len(s) \cup {Len(s) + 1}
    BY <1>1
  <2> QED
    BY <1>1, <2>1 DEF PendingIn
<1>3. ASSUME Apart(s), PendingOf(f) \cap PendingIn(s) = {} PROVE Apart(Append(s, f))
  <2>1. \A i \in 1 .. Len(s) : PendingOf(s[i]) \cap PendingOf(f) = {}
    BY <1>3 DEF PendingIn
  <2>2. \A i \in 1 .. Len(s) + 1 : i \in 1 .. Len(s) \/ i = Len(s) + 1
    BY <1>1
  <2> QED
    BY <1>1, <1>3, <2>1, <2>2 DEF Apart
<1> QED
  BY <1>1, <1>2, <1>3

LEMMA PopFacts ==
  ASSUME NEW s \in Seq(Frames), s # <<>>, Apart(s),
         NEW r, r = SubSeq(s, 1, Len(s) - 1)
  PROVE  /\ r \in Seq(Frames)
         /\ Len(r) = Len(s) - 1 /\ Len(s) \in 1 .. Len(s)
         /\ s[Len(s)] \in Frames
         /\ \A i \in 1 .. Len(r) : r[i] = s[i] /\ i \in 1 .. Len(s)
         /\ PendingIn(s) = PendingIn(r) \cup PendingOf(s[Len(s)])
         /\ PendingIn(r) \cap PendingOf(s[Len(s)]) = {}
         /\ Apart(r)
<1> DEFINE n == Len(s) - 1
<1>a. Len(s) \in Nat \ {0} /\ Len(s) \in 1 .. Len(s) /\ s[Len(s)] \in Frames /\ n \in Nat
  OBVIOUS
<1>b. \A i \in 1 .. n : s[i] \in Frames
  BY <1>a
<1>c. /\ r \in Seq(Frames)
      /\ Len(r) = IF 1 <= n THEN n - 1 + 1 ELSE 0
      /\ \A i \in 1 .. n - 1 + 1 : r[i] = s[1 + i - 1]
  BY <1>a, <1>b, SubSeqProperties
<1>d. n = Len(s) - 1
  OBVIOUS
<1> HIDE DEF n
<1>e. Len(r) = n
  BY <1>a, <1>c
<1>f. \A i \in 1 .. n : r[i] = s[i] /\ i \in 1 .. Len(s)
  <2> SUFFICES ASSUME NEW i \in 1 .. n PROVE r[i] = s[i] /\ i \in 1 .. Len(s)
    OBVIOUS
  <2>1. i \in 1 .. n - 1 + 1 /\ 1 + i - 1 = i
    BY <1>a
  <2>2. r[i] = s[1 + i - 1]
    BY <1>c, <2>1
  <2> QED
    BY <2>1, <2>2, <1>a, <1>d
<1>1. /\ r \in Seq(Frames) /\ Len(s) \in Nat \ {0} /\ Len(r) = Len(s) - 1
      /\ \A i \in 1 .. Len(r) : r[i] = s[i] /\ i \in 1 .. Len(s)
      /\ Len(s) \in 1 .. Len(s) /\ s[Len(s)] \in Frames
  BY <1>a, <1>c, <1>d, <1>e, <1>f
<1>2. \A i : i \in 1 .. Len(s) <=> i \in 1 .. Len(r) \/ i = Len(s)
  BY <1>1
<1>3. PendingIn(s) = PendingIn(r) \cup PendingOf(s[Len(s)])
  <2>1. PendingIn(s) \subseteq PendingIn(r) \cup PendingOf(s[Len(s)])
    BY <1>1, <1>2 DEF PendingIn
  <2>2. PendingIn(r) \subseteq PendingIn(s)
    BY <1>1 DEF PendingIn
  <2>3. PendingOf(s[Len(s)]) \subseteq PendingIn(s)
    BY <1>1 DEF PendingIn
  <2> QED
    BY <2>1, <2>2, <2>3
<1>4. \A i \in 1 .. Len(r) : PendingOf(r[i]) \cap PendingOf(s[Len(s)]) = {}
  <2>1. \A i \in 1 .. Len(r) : i # Len(s)
    BY <1>1
  <2> QED
    BY <1>1, <2>1 DEF Apart
<1>5. PendingIn(r) \cap PendingOf(s[Len(s)]) = {}
  BY <1>4 DEF PendingIn
<1>6. Apart(r)
  BY <1>1 DEF Apart
<1> QED
  BY <1>1, <1>3, <1>5, <1>6

Replace(s, f) == [s EXCEPT ![Len(s)] = f]

LEMMA SwapFacts ==
  ASSUME NEW s \in Seq(Frames), s # <<>>, Apart(s), NEW f \in Frames,
         PendingOf(f) \cap PendingIn(SubSeq(s, 1, Len(s) - 1)) = {},
         NEW t, t = Replace(s, f)
  PROVE  /\ t \in Seq(Frames)
         /\ Len(t) = Len(s)
         /\ t[Len(s)] = f
         /\ \A i \in 1 .. Len(s) : i # Len(s) => t[i] = s[i]
         /\ PendingIn(t) = PendingIn(SubSeq(s, 1, Len(s) - 1)) \cup PendingOf(f)
         /\ Apart(t)
<1> DEFINE r == SubSeq(s, 1, Len(s) - 1)
<1>1. /\ t \in Seq(Frames) /\ Len(t) = Len(s) /\ t[Len(s)] = f
      /\ \A i \in 1 .. Len(s) : i # Len(s) => t[i] = s[i]
      /\ Len(s) \in Nat \ {0}
  BY DEF Replace
<1>2. /\ r \in Seq(Frames) /\ Len(r) = Len(s) - 1
      /\ \A i \in 1 .. Len(r) : r[i] = s[i] /\ i \in 1 .. Len(s)
      /\ Apart(r)
  BY PopFacts
<1> HIDE DEF r
<1>3. /\ \A i : i \in 1 .. Len(s) <=> i \in 1 .. Len(r) \/ i = Len(s)
      /\ \A i \in 1 .. Len(r) : t[i] = r[i] /\ i # Len(s)
  <2>n. Len(s) \in Nat \ {0} /\ Len(r) = Len(s) - 1
    BY <1>1, <1>2
  <2>1. \A i : i \in 1 .. Len(s) <=> i \in 1 .. Len(r) \/ i = Len(s)
    BY <2>n
  <2>2. \A i \in 1 .. Len(r) : i # Len(s)
    BY <2>n
  <2> QED
    BY <1>1, <1>2, <2>1, <2>2
<1>4. PendingIn(t) = PendingIn(r) \cup PendingOf(f)
  BY <1>1, <1>2, <1>3 DEF PendingIn
<1>5. \A i \in 1 .. Len(r) : PendingOf(r[i]) \cap PendingOf(f) = {}
  BY DEF PendingIn, r
<1>6. Apart(t)
  <2> SUFFICES ASSUME NEW i \in 1 .. Len(s), NEW j \in 1 .. Len(s), i # j
               PROVE  PendingOf(t[i]) \cap PendingOf(t[j]) = {}
    BY <1>1 DEF Apart
  <2>1. CASE i \in 1 .. Len(r) /\ j \in 1 .. Len(r)
    BY <2>1, <1>2, <1>3 DEF Apart
  <2>2. CASE i = Len(s)
    BY <2>2, <1>1, <1>3, <1>5
  <2>3. CASE j = Len(s)
    BY <2>3, <1>1, <1>3, <1>5
  <2> QED
    BY <2>1, <2>2, <2>3, <1>3
<1> QED
  BY <1>1, <1>4, <1>6 DEF r

------------------------------------------------------------------------------
(* The program side: what the steps of StructuredFlow do to its stack.      *)

FlowFrames == [kind : Flow!Kinds, head : Nat, outs : SUBSET Nat, conts : SUBSET Nat, inner : BOOLEAN]
SameKinds(s, t) == Len(s) = Len(t) /\ \A i \in 1 .. Len(s) : t[i].kind = s[i].kind

LEMMA FlowFrameType ==
  ASSUME NEW kind \in Flow!Kinds, NEW p \in Nat
  PROVE  Flow!Frame(kind, p) \in FlowFrames /\ Flow!Frame(kind, p).kind = kind
BY DEF Flow!Frame, FlowFrames

LEMMA EditFacts ==
  ASSUME NEW s \in Seq(FlowFrames), NEW i \in 1 .. Len(s), NEW r \in FlowFrames, r.kind = s[i].kind,
         NEW t, t = [s EXCEPT ![i] = r]
  PROVE  t \in Seq(FlowFrames) /\ SameKinds(s, t)
BY ExceptSeq DEF SameKinds

LEMMA ProductFacts ==
  ASSUME NEW f, f \subseteq Nat \X Nat, NEW x, x \subseteq Nat, NEW y, y \subseteq Nat
  PROVE  f \cup (x \X y) \subseteq Nat \X Nat
BY Zenon

LEMMA StatementFacts ==
  ASSUME Flow!FlowTypeOK, NEW notes, notes \subseteq Flow!Oddities, Flow!Statement(notes)
  PROVE  /\ odd' \subseteq Flow!Oddities /\ odd \subseteq odd' /\ notes \subseteq odd'
         /\ "dead" \notin odd' => ~jumped
         /\ ~ended /\ ~ended' /\ ended' \in BOOLEAN /\ size' \in Nat
BY DEF Flow!FlowTypeOK, Flow!Statement, Flow!Oddities

LEMMA ArriveFacts ==
  ASSUME Flow!FlowTypeOK, NEW from, from \subseteq Nat, Flow!Arrive(from)
  PROVE  points' = points + 1 /\ points' \in Nat \ {0} /\ follow' \subseteq Nat \X Nat
<1>1. /\ points \in Nat \ {0} /\ follow \subseteq Nat \X Nat
      /\ points' = points + 1 /\ follow' = follow \cup (from \X {points + 1})
  BY DEF Flow!FlowTypeOK, Flow!Arrive, Flow!New
<1>2. {points + 1} \subseteq Nat /\ points + 1 \in Nat \ {0}
  BY <1>1
<1>3. follow \cup (from \X {points + 1}) \subseteq Nat \X Nat
  BY <1>1, <1>2, ProductFacts
<1> QED
  BY <1>1, <1>2, <1>3

\* The open statements and the sets of points; the rest of the program state.
Walk == open \in Seq(FlowFrames) /\ follow \subseteq Nat \X Nat /\ live \subseteq Nat
Rest == size \in Nat /\ points \in Nat \ {0} /\ jumped \in BOOLEAN /\ odd \subseteq Flow!Oddities /\ ended \in BOOLEAN

LEMMA FlowTypeSplit == Flow!FlowTypeOK <=> Walk /\ Rest
BY DEF Flow!FlowTypeOK, Walk, Rest, FlowFrames

Simple ==
  /\ Flow!FlowTypeOK' /\ SameKinds(open, open')
  /\ odd \subseteq odd' /\ ("dead" \notin odd' => ~jumped)
  /\ ~ended /\ ~ended'

\* A statement without a code block.
LEMMA SimpleFacts ==
  ASSUME Flow!FlowTypeOK,
         Flow!Plain \/ Flow!Return \/ Flow!Break \/ Flow!Continue \/ Flow!GoTo
  PROVE  Simple
<1>0. SameKinds(open, open) /\ Walk /\ Rest
  BY FlowTypeSplit DEF SameKinds
<1>s. ASSUME NEW notes, notes \subseteq Flow!Oddities, Flow!Statement(notes),
             points' \in Nat \ {0}, jumped' \in BOOLEAN, Walk', SameKinds(open, open')
      PROVE  Simple
  <2>1. /\ odd' \subseteq Flow!Oddities /\ odd \subseteq odd'
        /\ "dead" \notin odd' => ~jumped
        /\ ~ended /\ ~ended' /\ ended' \in BOOLEAN /\ size' \in Nat
    BY <1>s, StatementFacts
  <2>2. Rest'
    BY <1>s, <2>1 DEF Rest
  <2>3. Flow!FlowTypeOK'
    BY <1>s, <2>2 DEF Flow!FlowTypeOK, Walk, Rest, FlowFrames
  <2> QED
    BY <1>s, <2>1, <2>3 DEF Simple
<1>1. CASE Flow!Plain
  <2>1. /\ Flow!Statement({}) /\ Flow!Arrive(live)
        /\ live' = {points + 1} /\ open' = open /\ jumped' = jumped
    BY <1>1 DEF Flow!Plain, Flow!New
  <2>2. points' \in Nat \ {0} /\ follow' \subseteq Nat \X Nat /\ points + 1 \in Nat
    BY <2>1, <1>0, ArriveFacts DEF Walk, Rest
  <2>3. Walk' /\ jumped' \in BOOLEAN /\ SameKinds(open, open')
    BY <2>1, <2>2, <1>0 DEF Walk, Rest
  <2> QED
    BY <2>1, <2>2, <2>3, <1>s
<1>2. CASE Flow!Return
  <2>1. /\ Flow!Statement({}) /\ points' = points /\ open' = open
        /\ follow' = follow \cup (live \X {0}) /\ live' = {} /\ jumped' = TRUE
    BY <1>2 DEF Flow!Return
  <2>2. follow \cup (live \X {0}) \subseteq Nat \X Nat
    BY <1>0, {0} \subseteq Nat, ProductFacts DEF Walk
  <2>3. Walk' /\ points' \in Nat \ {0} /\ jumped' \in BOOLEAN /\ SameKinds(open, open')
    BY <2>1, <2>2, <1>0 DEF Walk, Rest
  <2> QED
    BY <2>1, <2>3, <1>s
<1>3. CASE Flow!GoTo
  <2>1. Flow!Statement({"goto"}) /\ {"goto"} \subseteq Flow!Oddities
    BY <1>3 DEF Flow!GoTo, Flow!Oddities
  <2>2. Walk' /\ points' \in Nat \ {0} /\ jumped' \in BOOLEAN /\ SameKinds(open, open')
    BY <1>0, <1>3 DEF Flow!GoTo, Walk, Rest
  <2> QED
    BY <2>1, <2>2, <1>s
<1>4. ASSUME Flow!Nowhere PROVE Simple
  <2>1. Flow!Statement({})
    BY <1>4 DEF Flow!Nowhere
  <2>2. Walk' /\ points' \in Nat \ {0} /\ jumped' \in BOOLEAN /\ SameKinds(open, open')
    BY <1>0, <1>4 DEF Flow!Nowhere, Walk, Rest
  <2> QED
    BY <2>1, <2>2, <1>s
<1>5. ASSUME NEW i \in 1 .. Len(open), NEW notes, notes \subseteq {"do"}, Flow!Leave(i, notes),
             open' \in Seq(FlowFrames), SameKinds(open, open'), follow' \subseteq Nat \X Nat
      PROVE  Simple
  <2> DEFINE m == notes \cup (IF open[i].inner THEN {"shadow"} ELSE {})
  <2>1. Flow!Statement(m) /\ m \subseteq Flow!Oddities
    BY <1>5 DEF Flow!Leave, Flow!Oddities
  <2> HIDE DEF m
  <2>2. Walk' /\ points' \in Nat \ {0} /\ jumped' \in BOOLEAN
    BY <1>0, <1>5 DEF Flow!Leave, Walk, Rest
  <2> QED
    BY <1>5, <2>1, <2>2, <1>s
<1>6. \A i \in 1 .. Len(open) : open[i] \in FlowFrames
  BY <1>0 DEF Walk
<1>7. CASE Flow!Break
  <2>1. ASSUME NEW i \in 1 .. Len(open),
               Flow!Leave(i, IF open[i].kind = "do" THEN {"do"} ELSE {}),
               open' = [open EXCEPT ![i].outs = @ \cup live],
               UNCHANGED follow
        PROVE  Simple
    <3> DEFINE r == [open[i] EXCEPT !.outs = @ \cup live]
               notes == IF open[i].kind = "do" THEN {"do"} ELSE {}
    <3>1. open[i] \in FlowFrames /\ live \subseteq Nat
      BY <1>0, <1>6 DEF Walk
    <3>2. r \in FlowFrames /\ r.kind = open[i].kind
      BY <3>1 DEF FlowFrames
    <3>3. open' = [open EXCEPT ![i] = r]
      BY <2>1
    <3>4. notes \subseteq {"do"} /\ Flow!Leave(i, notes)
      BY <2>1
    <3> HIDE DEF r, notes
    <3>5. open' \in Seq(FlowFrames) /\ SameKinds(open, open')
      BY <1>0, <3>2, <3>3, EditFacts DEF Walk
    <3>6. follow' \subseteq Nat \X Nat
      BY <1>0, <2>1 DEF Walk
    <3> QED
      BY <3>4, <3>5, <3>6, <1>5
  <2> QED
    BY <1>4, <1>7, <2>1 DEF Flow!Break
<1>8. CASE Flow!Continue
  <2>1. ASSUME NEW i \in 1 .. Len(open), Flow!Leave(i, {}),
               open' = [open EXCEPT ![i].conts = @ \cup live],
               UNCHANGED follow
        PROVE  Simple
    <3> DEFINE r == [open[i] EXCEPT !.conts = @ \cup live]
    <3>1. open[i] \in FlowFrames /\ live \subseteq Nat
      BY <1>0, <1>6 DEF Walk
    <3>2. r \in FlowFrames /\ r.kind = open[i].kind
      BY <3>1 DEF FlowFrames
    <3>3. open' = [open EXCEPT ![i] = r]
      BY <2>1
    <3> HIDE DEF r
    <3>5. open' \in Seq(FlowFrames) /\ SameKinds(open, open')
      BY <1>0, <3>2, <3>3, EditFacts DEF Walk
    <3>6. follow' \subseteq Nat \X Nat
      BY <1>0, <2>1 DEF Walk
    <3> QED
      BY <2>1, <3>5, <3>6, <1>5
  <2>2. ASSUME NEW i \in 1 .. Len(open), Flow!Leave(i, {}),
               follow' = follow \cup (live \X {open[i].head}),
               UNCHANGED open
        PROVE  Simple
    <3>1. open[i] \in FlowFrames
      BY <1>6
    <3>2. {open[i].head} \subseteq Nat
      BY <3>1 DEF FlowFrames
    <3>3. follow \cup (live \X {open[i].head}) \subseteq Nat \X Nat
      BY <3>2, <1>0, ProductFacts DEF Walk
    <3>4. open' \in Seq(FlowFrames) /\ SameKinds(open, open')
      BY <1>0, <2>2 DEF Walk
    <3> QED
      BY <2>2, <3>3, <3>4, <1>5
  <2> QED
    BY <1>4, <1>8, <2>1, <2>2 DEF Flow!Continue
<1> QED
  BY <1>1, <1>2, <1>3, <1>7, <1>8

------------------------------------------------------------------------------
Opened(kind) ==
  /\ Flow!FlowTypeOK'
  /\ Len(open') = Len(open) + 1
  /\ \A i \in 1 .. Len(open) : open'[i] = open[i]
  /\ open'[Len(open) + 1].kind = kind
  /\ odd \subseteq odd' /\ ("dead" \notin odd' => ~jumped)
  /\ ~ended /\ ~ended'

Closed ==
  /\ Flow!FlowTypeOK'
  /\ open # <<>> /\ Len(open') = Len(open) - 1
  /\ \A i \in 1 .. Len(open) - 1 : open'[i].kind = open[i].kind
  /\ odd \subseteq odd'
  /\ ~ended /\ ~ended'

Swapped(kind) ==
  /\ Flow!FlowTypeOK'
  /\ open # <<>> /\ Len(open') = Len(open)
  /\ \A i \in 1 .. Len(open) : i # Len(open) => open'[i] = open[i]
  /\ open'[Len(open)].kind = kind
  /\ odd \subseteq odd'
  /\ ~ended /\ ~ended'

LEMMA AppendFlow ==
  ASSUME Flow!FlowTypeOK, NEW kind \in Flow!Kinds, NEW notes, notes \subseteq Flow!Oddities,
         Flow!Statement(notes), jumped' = FALSE,
         open' = Append(open, Flow!Frame(kind, points + 1)),
         points' \in Nat \ {0}, follow' \subseteq Nat \X Nat, live' \subseteq Nat
  PROVE  Opened(kind) /\ notes \subseteq odd'
<1>0. Walk /\ Rest
  BY FlowTypeSplit
<1> DEFINE f == Flow!Frame(kind, points + 1)
<1>1. f \in FlowFrames /\ f.kind = kind
  BY <1>0, points + 1 \in Nat, FlowFrameType DEF Rest
<1> HIDE DEF f
<1>2. open \in Seq(FlowFrames) /\ open' = Append(open, f)
  BY <1>0 DEF Walk, f
<1>3. /\ open' \in Seq(FlowFrames)
      /\ Len(open') = Len(open) + 1
      /\ \A i \in 1 .. Len(open) : open'[i] = open[i]
      /\ open'[Len(open) + 1] = f
  BY <1>1, <1>2
<1>4. /\ odd' \subseteq Flow!Oddities /\ odd \subseteq odd' /\ notes \subseteq odd'
      /\ "dead" \notin odd' => ~jumped
      /\ ~ended /\ ~ended' /\ ended' \in BOOLEAN /\ size' \in Nat
  BY StatementFacts
<1>5. Flow!FlowTypeOK'
  BY <1>3, <1>4 DEF Flow!FlowTypeOK, FlowFrames
<1> QED
  BY <1>1, <1>3, <1>4, <1>5 DEF Opened

LEMMA EnterFacts ==
  ASSUME Flow!FlowTypeOK, NEW kind \in Flow!Kinds, Flow!Enter(kind)
  PROVE  Opened(kind) /\ jumped' = FALSE
<1>0. Walk /\ Rest
  BY FlowTypeSplit
<1>1. /\ Flow!Statement({}) /\ Flow!Arrive(live) /\ live' = {points + 1}
      /\ open' = Append(open, Flow!Frame(kind, points + 1)) /\ jumped' = FALSE
  BY DEF Flow!Enter, Flow!New
<1>2. points' \in Nat \ {0} /\ follow' \subseteq Nat \X Nat
  BY <1>0, <1>1, ArriveFacts DEF Walk
<1>3. live' \subseteq Nat
  BY <1>0, <1>1 DEF Rest
<1> QED
  BY <1>1, <1>2, <1>3, AppendFlow

LEMMA OpenLabelFacts ==
  ASSUME Flow!FlowTypeOK, Flow!OpenLabel
  PROVE  Opened("label") /\ "goto" \in odd' /\ jumped' = FALSE
<1>0. Walk /\ Rest
  BY FlowTypeSplit
<1>1. /\ Flow!Statement({"goto"}) /\ jumped' = FALSE
      /\ open' = Append(open, Flow!Frame("label", points + 1))
      /\ points' = points /\ follow' = follow /\ live' = live
  BY DEF Flow!OpenLabel, Flow!New
<1>2. points' \in Nat \ {0} /\ follow' \subseteq Nat \X Nat /\ live' \subseteq Nat
  BY <1>0, <1>1 DEF Walk, Rest
<1>3. {"goto"} \subseteq Flow!Oddities /\ "label" \in Flow!Kinds
  BY DEF Flow!Oddities, Flow!Kinds
<1> QED
  BY <1>1, <1>2, <1>3, AppendFlow

LEMMA PopFlow ==
  ASSUME NEW s \in Seq(FlowFrames), s # <<>>, NEW r, r = SubSeq(s, 1, Len(s) - 1)
  PROVE  /\ r \in Seq(FlowFrames) /\ Len(r) = Len(s) - 1
         /\ \A i \in 1 .. Len(s) - 1 : r[i] = s[i]
         /\ s[Len(s)] \in FlowFrames /\ Len(s) \in 1 .. Len(s)
<1> DEFINE n == Len(s) - 1
<1>1. Len(s) \in Nat \ {0} /\ Len(s) \in 1 .. Len(s) /\ s[Len(s)] \in FlowFrames /\ n \in Nat
  OBVIOUS
<1>2. \A i \in 1 .. n : s[i] \in FlowFrames
  BY <1>1
<1>3. /\ r \in Seq(FlowFrames)
      /\ Len(r) = IF 1 <= n THEN n - 1 + 1 ELSE 0
      /\ \A i \in 1 .. n - 1 + 1 : r[i] = s[1 + i - 1]
  BY <1>1, <1>2, SubSeqProperties
<1> HIDE DEF n
<1>4. Len(r) = n
  BY <1>1, <1>3
<1>5. \A i \in 1 .. n : r[i] = s[i]
  <2> SUFFICES ASSUME NEW i \in 1 .. n PROVE r[i] = s[i]
    OBVIOUS
  <2>1. i \in 1 .. n - 1 + 1 /\ 1 + i - 1 = i
    BY <1>1
  <2>2. r[i] = s[1 + i - 1]
    BY <1>3, <2>1
  <2> QED
    BY <2>1, <2>2
<1> QED
  BY <1>1, <1>3, <1>4, <1>5 DEF n

LEMMA ClosingFacts ==
  ASSUME Flow!FlowTypeOK, NEW notes, notes \subseteq Flow!Oddities, Flow!Closing(notes),
         ~ended, open # <<>>, open' \in Seq(FlowFrames), Len(open') = Len(open) - 1,
         \A i \in 1 .. Len(open) - 1 : open'[i].kind = open[i].kind,
         points' \in Nat \ {0}, follow' \subseteq Nat \X Nat, live' \subseteq Nat
  PROVE  Closed /\ notes \subseteq odd' /\ jumped' = FALSE
<1>0. Walk /\ Rest
  BY FlowTypeSplit
<1>1. /\ odd' = odd \cup notes /\ jumped' = FALSE
      /\ size' = size /\ ended' = ended
  BY DEF Flow!Closing
<1>2. /\ odd' \subseteq Flow!Oddities /\ size' \in Nat /\ ended' \in BOOLEAN
  BY <1>0, <1>1 DEF Rest
<1>3. Flow!FlowTypeOK'
  BY <1>1, <1>2 DEF Flow!FlowTypeOK, FlowFrames
<1> QED
  BY <1>1, <1>3 DEF Closed

LEMMA CloseIfFacts ==
  ASSUME Flow!FlowTypeOK, Flow!CloseIf
  PROVE  Closed /\ jumped' = FALSE
<1>0. Walk /\ Rest
  BY FlowTypeSplit
<1>1. /\ ~ended /\ open # <<>> /\ open' = SubSeq(open, 1, Len(open) - 1)
      /\ Flow!Closing({}) /\ points' = points /\ follow' = follow
      /\ live' = open[Len(open)].outs \cup live
                   \cup (IF open[Len(open)].kind = "if" THEN {open[Len(open)].head} ELSE {})
  BY DEF Flow!CloseIf, Flow!In, Flow!Top, Flow!Pop
<1>2. /\ open' \in Seq(FlowFrames) /\ Len(open') = Len(open) - 1
      /\ \A i \in 1 .. Len(open) - 1 : open'[i] = open[i]
      /\ open[Len(open)] \in FlowFrames
  BY <1>0, <1>1, PopFlow DEF Walk
<1>3. live' \subseteq Nat
  BY <1>0, <1>1, <1>2 DEF Walk, FlowFrames
<1>4. points' \in Nat \ {0} /\ follow' \subseteq Nat \X Nat
  BY <1>0, <1>1 DEF Walk, Rest
<1> QED
  BY <1>1, <1>2, <1>3, <1>4, ClosingFacts, {} \subseteq Flow!Oddities

LEMMA CloseLabelFacts ==
  ASSUME Flow!FlowTypeOK, Flow!CloseLabel
  PROVE  Closed /\ jumped' = FALSE
<1>0. Walk /\ Rest
  BY FlowTypeSplit
<1>1. /\ ~ended /\ open # <<>> /\ open' = SubSeq(open, 1, Len(open) - 1)
      /\ Flow!Closing({}) /\ points' = points /\ follow' = follow /\ live' = live
  BY DEF Flow!CloseLabel, Flow!In, Flow!Top, Flow!Pop
<1>2. /\ open' \in Seq(FlowFrames) /\ Len(open') = Len(open) - 1
      /\ \A i \in 1 .. Len(open) - 1 : open'[i] = open[i]
  BY <1>0, <1>1, PopFlow DEF Walk
<1>4. points' \in Nat \ {0} /\ follow' \subseteq Nat \X Nat /\ live' \subseteq Nat
  BY <1>0, <1>1 DEF Walk, Rest
<1> QED
  BY <1>1, <1>2, <1>4, ClosingFacts, {} \subseteq Flow!Oddities


\* The loops around a loop that is complete remember it.
Marked(f) == [f EXCEPT !.inner = TRUE]
MarkAll(s, M) == [i \in 1 .. Len(s) |-> IF i \in M THEN Marked(s[i]) ELSE s[i]]

LEMMA MarkedFacts ==
  ASSUME NEW s \in Seq(FlowFrames), NEW M,
         NEW t, t = MarkAll(s, M)
  PROVE  /\ t \in Seq(FlowFrames) /\ Len(t) = Len(s)
         /\ \A i \in 1 .. Len(s) : t[i].kind = s[i].kind
<1> DEFINE r(i) == IF i \in M THEN Marked(s[i]) ELSE s[i]
<1>1. \A i \in 1 .. Len(s) : r(i) \in FlowFrames /\ r(i).kind = s[i].kind
  <2> SUFFICES ASSUME NEW i \in 1 .. Len(s) PROVE r(i) \in FlowFrames /\ r(i).kind = s[i].kind
    OBVIOUS
  <2>1. s[i] \in FlowFrames
    OBVIOUS
  <2> QED
    BY <2>1 DEF FlowFrames, Marked
<1>2. t = [i \in 1 .. Len(s) |-> r(i)] /\ Len(s) \in Nat
  BY DEF MarkAll
<1> HIDE DEF r
<1>3. t \in [1 .. Len(s) -> FlowFrames]
  BY <1>1, <1>2
<1>4. t \in Seq(FlowFrames) /\ Len(t) = Len(s)
  BY <1>2, <1>3
<1> QED
  BY <1>1, <1>2, <1>4

LEMMA CloseLoopFacts ==
  ASSUME Flow!FlowTypeOK, NEW kind, Flow!CloseLoop(kind)
  PROVE  /\ Closed /\ jumped' = FALSE
         /\ kind \in {"while", "do"} /\ jumped => "tail" \in odd'
         /\ kind = "do" => points' \in Nat
<1>0. Walk /\ Rest
  BY FlowTypeSplit
<1> DEFINE notes == IF jumped /\ kind \in {"while", "do"} THEN {"tail"} ELSE {}
           r == SubSeq(open, 1, Len(open) - 1)
           M == {i \in 1 .. Len(r) : Flow!Innermost(i, r)}
<1>1. /\ ~ended /\ open # <<>> /\ Flow!Closing(notes)
      /\ open' = [i \in 1 .. Len(r) |->
                    IF Flow!Innermost(i, r) THEN [r[i] EXCEPT !.inner = TRUE] ELSE r[i]]
  BY DEF Flow!CloseLoop, Flow!In, Flow!Pop
<1>2. /\ r \in Seq(FlowFrames) /\ Len(r) = Len(open) - 1
      /\ \A i \in 1 .. Len(open) - 1 : r[i] = open[i]
      /\ open[Len(open)] \in FlowFrames
  BY <1>0, <1>1, PopFlow DEF Walk
<1>3. open' = MarkAll(r, M)
  BY <1>1, Zenon DEF Marked, MarkAll
<1>4. notes \subseteq Flow!Oddities
  BY DEF Flow!Oddities
<1>5. jumped /\ kind \in {"while", "do"} => "tail" \in notes
  OBVIOUS
<1> HIDE DEF notes, r, M
<1>6. /\ open' \in Seq(FlowFrames) /\ Len(open') = Len(r)
      /\ \A i \in 1 .. Len(r) : open'[i].kind = r[i].kind
  BY <1>2, <1>3, MarkedFacts
<1>7. \A i \in 1 .. Len(open) - 1 : open'[i].kind = open[i].kind
  BY <1>2, <1>6
<1>8. points' \in Nat \ {0} /\ follow' \subseteq Nat \X Nat /\ live' \subseteq Nat
  <2>1. CASE kind # "do"
    <3>1. /\ follow' = follow \cup (live \X {open[Len(open)].head}) /\ points' = points
          /\ live' = open[Len(open)].outs \cup (IF kind = "loop" THEN {} ELSE {open[Len(open)].head})
      BY <2>1 DEF Flow!CloseLoop, Flow!Top
    <3>2. {open[Len(open)].head} \subseteq Nat /\ open[Len(open)].outs \subseteq Nat
      BY <1>2 DEF FlowFrames
    <3>3. follow \cup (live \X {open[Len(open)].head}) \subseteq Nat \X Nat
      BY <1>0, <3>2, ProductFacts DEF Walk
    <3> QED
      BY <1>0, <3>1, <3>2, <3>3 DEF Rest
  <2>2. CASE kind = "do"
    <3> DEFINE h == open[Len(open)].head
               c == open[Len(open)].conts
    <3>1. /\ points' = points + 1
          /\ follow' = follow \cup ((live \cup c) \X {points + 1}) \cup {<<points + 1, h>>}
          /\ live' = open[Len(open)].outs \cup {points + 1}
      BY <2>2 DEF Flow!CloseLoop, Flow!Top, Flow!New
    <3>2. h \in Nat /\ c \subseteq Nat /\ open[Len(open)].outs \subseteq Nat
      BY <1>2 DEF FlowFrames
    <3>3. points + 1 \in Nat \ {0} /\ {points + 1} \subseteq Nat
      BY <1>0 DEF Rest
    <3> HIDE DEF h, c
    <3>4. live \cup c \subseteq Nat
      BY <1>0, <3>2 DEF Walk
    <3>5. follow \cup ((live \cup c) \X {points + 1}) \subseteq Nat \X Nat
      BY <1>0, <3>3, <3>4, ProductFacts DEF Walk
    <3>6. <<points + 1, h>> \in Nat \X Nat
      BY <3>2, <3>3
    <3> QED
      BY <3>1, <3>2, <3>3, <3>5, <3>6
  <2> QED
    BY <2>1, <2>2
<1>9. Closed /\ notes \subseteq odd' /\ jumped' = FALSE
  BY <1>1, <1>2, <1>4, <1>6, <1>7, <1>8, ClosingFacts
<1> QED
  BY <1>5, <1>8, <1>9

\* elif and else change the innermost statement.
LEMMA SwapFlow ==
  ASSUME NEW s \in Seq(FlowFrames), s # <<>>, NEW r \in FlowFrames,
         NEW t, t = [s EXCEPT ![Len(s)] = r]
  PROVE  /\ t \in Seq(FlowFrames) /\ Len(t) = Len(s) /\ t[Len(s)] = r
         /\ \A i \in 1 .. Len(s) : i # Len(s) => t[i] = s[i]
OBVIOUS

LEMMA ElifFacts ==
  ASSUME Flow!FlowTypeOK, Flow!Elif
  PROVE  Swapped("if") /\ jumped' = FALSE /\ points' \in Nat
<1>0. Walk /\ Rest
  BY FlowTypeSplit
<1> DEFINE r == [open[Len(open)] EXCEPT !.head = points + 1, !.outs = @ \cup live]
<1>1. /\ ~ended /\ open # <<>> /\ open[Len(open)].kind = "if"
      /\ size' = size + 1 /\ Flow!Arrive({open[Len(open)].head})
      /\ open' = [open EXCEPT ![Len(open)] = r]
      /\ live' = {points + 1} /\ jumped' = FALSE /\ odd' = odd /\ ended' = ended
  BY DEF Flow!Elif, Flow!In, Flow!Top, Flow!New
<1>2. open[Len(open)] \in FlowFrames
  BY <1>0, <1>1 DEF Walk
<1>3. points + 1 \in Nat /\ size + 1 \in Nat /\ ended \in BOOLEAN /\ odd \subseteq Flow!Oddities
  BY <1>0 DEF Rest
<1>4. r \in FlowFrames /\ r.kind = "if"
  BY <1>0, <1>1, <1>2, <1>3 DEF FlowFrames, Walk
<1>5. {open[Len(open)].head} \subseteq Nat
  BY <1>2 DEF FlowFrames
<1> HIDE DEF r
<1>6. points' \in Nat \ {0} /\ follow' \subseteq Nat \X Nat
  BY <1>1, <1>5, ArriveFacts
<1>7. /\ open' \in Seq(FlowFrames) /\ Len(open') = Len(open) /\ open'[Len(open)] = r
      /\ \A i \in 1 .. Len(open) : i # Len(open) => open'[i] = open[i]
  BY <1>0, <1>1, <1>4, SwapFlow DEF Walk
<1>8. Flow!FlowTypeOK'
  BY <1>1, <1>3, <1>6, <1>7 DEF Flow!FlowTypeOK, FlowFrames
<1> QED
  BY <1>1, <1>4, <1>6, <1>7, <1>8 DEF Swapped

LEMMA ElseFacts ==
  ASSUME Flow!FlowTypeOK, Flow!Else
  PROVE  Swapped("else") /\ jumped' = FALSE
<1>0. Walk /\ Rest
  BY FlowTypeSplit
<1> DEFINE r == [open[Len(open)] EXCEPT !.kind = "else", !.outs = @ \cup live]
<1>1. /\ ~ended /\ open # <<>> /\ Flow!Closing({})
      /\ open' = [open EXCEPT ![Len(open)] = r]
      /\ live' = {open[Len(open)].head} /\ points' = points /\ follow' = follow
  BY DEF Flow!Else, Flow!In, Flow!Top
<1>2. open[Len(open)] \in FlowFrames
  BY <1>0, <1>1 DEF Walk
<1>4. r \in FlowFrames /\ r.kind = "else"
  BY <1>0, <1>2 DEF FlowFrames, Walk, Flow!Kinds
<1>5. live' \subseteq Nat
  BY <1>1, <1>2 DEF FlowFrames
<1>6. odd' = odd /\ jumped' = FALSE /\ size' = size /\ ended' = ended
  BY <1>1 DEF Flow!Closing
<1> HIDE DEF r
<1>7. /\ open' \in Seq(FlowFrames) /\ Len(open') = Len(open) /\ open'[Len(open)] = r
      /\ \A i \in 1 .. Len(open) : i # Len(open) => open'[i] = open[i]
  BY <1>0, <1>1, <1>4, SwapFlow DEF Walk
<1>8. Flow!FlowTypeOK'
  BY <1>0, <1>1, <1>5, <1>6, <1>7 DEF Flow!FlowTypeOK, FlowFrames, Walk, Rest
<1> QED
  BY <1>1, <1>4, <1>6, <1>7, <1>8 DEF Swapped

LEMMA EndFacts ==
  ASSUME Flow!FlowTypeOK, Flow!End
  PROVE  /\ Flow!FlowTypeOK' /\ ~ended /\ ended'
         /\ open = <<>> /\ open' = open /\ odd' = odd /\ jumped' = jumped
<1>0. Walk /\ Rest
  BY FlowTypeSplit
<1>1. /\ ~ended /\ open = <<>> /\ ended' = TRUE /\ follow' = follow \cup (live \X {0})
      /\ size' = size /\ points' = points /\ live' = live /\ open' = open
      /\ jumped' = jumped /\ odd' = odd
  BY DEF Flow!End
<1>2. follow \cup (live \X {0}) \subseteq Nat \X Nat
  BY <1>0, {0} \subseteq Nat, ProductFacts DEF Walk
<1>3. Flow!FlowTypeOK'
  BY <1>0, <1>1, <1>2 DEF Flow!FlowTypeOK, FlowFrames, Walk, Rest
<1> QED
  BY <1>1, <1>3

------------------------------------------------------------------------------
(* The generator side.  Wrote(W): no block outside W changes.              *)

Wrote(W) ==
  /\ code' \in [Blocks -> Contents]
  /\ \A b \in Blocks : b \notin W => code'[b] = code[b]

LEMMA OwnerStep ==
  ASSUME TypeOK, OwnerInv, NEW W, Wrote(W), W \subseteq 1 .. blocks',
         blocks' \in Blocks, blocks <= blocks',
         Apart(frames'), Pending' \subseteq 1 .. blocks', W \cap Pending' = {},
         cur' \in 1 .. blocks', cur' \notin Pending',
         \A b \in Pending' : b \in Pending \/ b > blocks,
         odd \subseteq odd',
         "goto" \notin odd' =>
            /\ \A b \in W : b = cur' \/ code'[b].ends # <<>>
            /\ \A b \in 1 .. blocks' : b \in Pending \cup {cur} \/ b > blocks
                                         => b \in Pending' \cup {cur'} \cup W
  PROVE  OwnerInv'
<1>1. /\ blocks \in Blocks /\ blocks \in Nat /\ blocks' \in Nat
      /\ 1 .. blocks \subseteq Blocks /\ 1 .. blocks' \subseteq Blocks
  BY FlowAssumption DEF TypeOK, Blocks
<1>2. \A b \in Blocks : b > blocks => code[b] = Empty
  BY DEF OwnerInv
<1>3. \A b \in Pending : code[b] = Empty
  BY DEF OwnerInv, PendingUntouched
<1>4. \A b \in Blocks : b > blocks' => code'[b] = Empty
  <2> SUFFICES ASSUME NEW b \in Blocks, b > blocks' PROVE code'[b] = Empty
    OBVIOUS
  <2>1. b > blocks /\ b \notin 1 .. blocks' /\ b \in Nat
    BY <1>1 DEF Blocks
  <2> QED
    BY <1>2, <2>1 DEF Wrote
<1>5. PendingUntouched'
  <2> SUFFICES ASSUME NEW b \in Pending' PROVE code'[b] = Empty /\ b # cur'
    BY DEF PendingUntouched
  <2>1. b \in Blocks /\ b \notin W
    BY <1>1
  <2> QED
    BY <1>2, <1>3, <2>1 DEF Wrote
<1>6. BlocksEnded'
  <2> SUFFICES ASSUME "goto" \notin odd', NEW b \in 1 .. blocks',
                      b \notin Pending' \cup {cur'}
               PROVE  code'[b].ends # <<>>
    BY DEF BlocksEnded, Terminated
  <2>1. CASE b \in W
    BY <2>1
  <2>2. CASE b \notin W
    <3>1. b \notin Pending \cup {cur} /\ ~(b > blocks)
      BY <2>2
    <3>2. b \in 1 .. blocks /\ b \in Blocks
      BY <1>1, <3>1
    <3>3. "goto" \notin odd
      OBVIOUS
    <3>4. code[b].ends # <<>>
      BY <3>1, <3>2, <3>3 DEF OwnerInv, BlocksEnded, Terminated
    <3> QED
      BY <2>2, <3>2, <3>4 DEF Wrote
  <2> QED
    BY <2>1, <2>2
<1> QED
  BY <1>4, <1>5, <1>6 DEF OwnerInv

LEMMA JumpStep ==
  ASSUME TypeOK, OwnerInv, JumpInv, NEW W, Wrote(W), W \subseteq 1 .. blocks',
         blocks' \in Blocks, odd \subseteq odd',
         Tidy' => /\ \A b \in W : Len(code'[b].ends) <= 1 /\ ~code'[b].late
                  /\ code'[cur'].ends # <<>> => jumped' \/ ended'
  PROVE  JumpInv'
<1>1. blocks \in Nat /\ blocks' \in Nat /\ 1 .. blocks' \subseteq Blocks
  BY FlowAssumption DEF TypeOK, Blocks
<1> SUFFICES ASSUME Tidy', NEW b \in 1 .. blocks', b \notin W
             PROVE  Len(code'[b].ends) <= 1 /\ ~code'[b].late
  BY DEF JumpInv, Fine, Terminated
<1>2. Tidy
  BY DEF Tidy, Without
<1>3. code'[b] = code[b] /\ b \in Blocks
  BY <1>1 DEF Wrote
<1>4. CASE b \in 1 .. blocks
  BY <1>2, <1>3, <1>4 DEF JumpInv, Fine
<1>5. CASE b \notin 1 .. blocks
  <2>1. b > blocks
    BY <1>1, <1>5
  <2>2. code[b] = Empty
    BY <1>3, <2>1 DEF OwnerInv
  <2>3. Len(code[b].ends) = 0 /\ ~code[b].late
    BY <2>2, EmptyFacts
  <2> QED
    BY <1>3, <2>3
<1> QED
  BY <1>4, <1>5

\* A tidy function that goes on has no terminator in the block in hand.
LEMMA FreshFacts ==
  ASSUME IInv, odd \subseteq odd', Tidy', ~ended, ~jumped
  PROVE  code[cur].ends = <<>> /\ ~code[cur].late
<1>1. Tidy
  BY DEF Tidy, Without
<1>2. cur \in 1 .. blocks
  BY DEF IInv, OwnerInv
<1> QED
  BY <1>1, <1>2 DEF IInv, JumpInv, Fine, Terminated

\* What a step needs to know of the blocks.
LEMMA BlockFacts ==
  ASSUME IInv
  PROVE  /\ blocks \in Nat \ {0} /\ blocks <= MaxBlocks /\ MaxBlocks \in Nat /\ None \notin Nat
         /\ cur \in Blocks /\ cur \in Nat /\ cur <= blocks /\ cur \notin Pending
         /\ \A b \in Pending : b \in Blocks /\ b <= blocks /\ code[b] = Empty
         /\ \A b \in Blocks : b > blocks => code[b] = Empty
         /\ code \in [Blocks -> Contents] /\ frames \in Seq(Frames)
         /\ Flow!FlowTypeOK /\ phis \subseteq Blocks \X Blocks
<1>1. blocks \in 1 .. MaxBlocks /\ cur \in 1 .. MaxBlocks /\ MaxBlocks \in Nat \ {0} /\ None \notin Nat
  BY FlowAssumption DEF IInv, TypeOK, Blocks
<1>2. cur \in 1 .. blocks /\ Pending \subseteq 1 .. blocks /\ PendingUntouched
  BY DEF IInv, OwnerInv
<1>3. cur \notin Pending
  BY <1>2 DEF PendingUntouched
<1>4. \A b \in Pending : b \in Blocks /\ b <= blocks /\ code[b] = Empty
  BY <1>1, <1>2 DEF PendingUntouched, Blocks
<1>5. \A b \in Blocks : b > blocks => code[b] = Empty
  BY DEF IInv, OwnerInv
<1> QED
  BY <1>1, <1>2, <1>3, <1>4, <1>5 DEF IInv, TypeOK, Blocks

\* What a step needs to know of the statement in hand.
LEMMA TopFacts ==
  ASSUME IInv, frames # <<>>
  PROVE  /\ Top \in Frames /\ Shape(Top) /\ Len(frames) \in 1 .. Len(frames)
         /\ Top = frames[Len(frames)]
         /\ PendingOf(Top) \subseteq Pending
<1>1. frames \in Seq(Frames) /\ Apart(frames) /\ StackInv
  BY DEF IInv, TypeOK, OwnerInv
<1>2. /\ Top = frames[Len(frames)] /\ Top \in Frames /\ Len(frames) \in 1 .. Len(frames)
      /\ PendingOf(Top) \subseteq PendingIn(frames)
  <2> DEFINE r == SubSeq(frames, 1, Len(frames) - 1)
  <2>1. /\ Len(frames) \in 1 .. Len(frames) /\ frames[Len(frames)] \in Frames
        /\ PendingIn(frames) = PendingIn(r) \cup PendingOf(frames[Len(frames)])
    BY <1>1, PopFacts
  <2> QED
    BY <2>1 DEF Top
<1>3. Shape(Top)
  BY <1>1, <1>2 DEF StackInv
<1> QED
  BY <1>2, <1>3 DEF Pending


------------------------------------------------------------------------------
(* A statement that leaves the stack alone: only the block in hand changes. *)
LEMMA KeepStep ==
  ASSUME IInv, Simple, Wrote({cur}),
         UNCHANGED <<blocks, phis, cur, brk, cont, frames, gotos>>, crashed' \in BOOLEAN,
         Tidy' => /\ Len(code'[cur].ends) <= 1 /\ ~code'[cur].late
                  /\ code'[cur].ends # <<>> => jumped'
  PROVE  IInv'
<1>1. TypeOK'
  BY DEF IInv, TypeOK, Simple, Wrote
<1>2. StackInv'
  BY DEF IInv, StackInv, Simple, SameKinds
<1>3. OwnerInv'
  <2>1. TypeOK /\ OwnerInv /\ blocks \in Nat /\ blocks \in Blocks /\ Pending' = Pending
    BY BlockFacts DEF IInv, TypeOK, Pending
  <2>2. cur \notin Pending
    BY BlockFacts
  <2>3. {cur} \cap Pending' = {} /\ {cur} \subseteq 1 .. blocks' /\ blocks <= blocks'
    BY <2>1, <2>2 DEF OwnerInv
  <2>4. odd \subseteq odd' /\ Apart(frames') /\ Pending' \subseteq 1 .. blocks'
    BY <2>1 DEF Simple, OwnerInv
  <2>5. \A b \in 1 .. blocks' : b \in Pending \cup {cur} \/ b > blocks
                                  => b \in Pending' \cup {cur'} \cup {cur}
    BY <2>1
  <2>6. cur' \in 1 .. blocks' /\ cur' \notin Pending'
    BY <2>1, <2>2 DEF OwnerInv
  <2>7. blocks' \in Blocks /\ (\A b \in {cur} : b = cur')
        /\ \A b \in Pending' : b \in Pending \/ b > blocks
    BY <2>1
  <2> QED
    BY <2>1, <2>3, <2>4, <2>5, <2>6, <2>7, OwnerStep
<1>4. JumpInv'
  <2>1. TypeOK /\ OwnerInv /\ JumpInv /\ blocks' \in Blocks /\ odd \subseteq odd'
    BY DEF IInv, TypeOK, Simple
  <2>2. {cur} \subseteq 1 .. blocks'
    BY <2>1 DEF OwnerInv
  <2> QED
    BY <2>1, <2>2, JumpStep
<1>5. TargetsOpen'
  BY DEF IInv, TargetsOpen
<1>6. EndInv'
  BY DEF EndInv, Simple
<1> QED
  BY <1>1, <1>2, <1>3, <1>4, <1>5, <1>6 DEF IInv

(* A statement is opened: the new blocks are fresh.                        *)
LEMMA OpenStep ==
  ASSUME IInv, NEW f \in Frames, frames' = Append(frames, f), Opened(f.kind), Shape(f),
         f.kind = "label" => "goto" \in odd',
         blocks' \in Blocks, blocks < blocks',
         PendingOf(f) \subseteq (blocks + 1) .. blocks',
         cur' \in (blocks + 1) .. blocks', cur' \notin PendingOf(f),
         NEW W, Wrote(W), W \subseteq {cur} \cup (blocks + 1) .. blocks', W \cap PendingOf(f) = {},
         "goto" \notin odd' =>
           /\ cur \in W
           /\ \A b \in W : b = cur' \/ code'[b].ends # <<>>
           /\ \A b \in (blocks + 1) .. blocks' : b \in PendingOf(f) \cup {cur'} \cup W,
         Tidy' => /\ \A b \in W : Len(code'[b].ends) <= 1 /\ ~code'[b].late
                  /\ code'[cur'].ends # <<>> => jumped',
         phis' \subseteq Blocks \X Blocks, UNCHANGED <<gotos, crashed>>,
         brk' = brk \/ (f.kind \in {"for", "loop", "while"} /\ brk' = f.next),
         cont' = cont \/ (f.kind \in Flow!Loops /\ cont' = f.back)
  PROVE  IInv'
<1>0. /\ blocks \in Nat \ {0} /\ blocks' \in Nat /\ blocks <= blocks' /\ 1 .. blocks' \subseteq Blocks
      /\ cur \in 1 .. blocks /\ cur \notin Pending /\ frames \in Seq(Frames)
      /\ Pending \subseteq 1 .. blocks /\ TypeOK /\ OwnerInv /\ JumpInv /\ StackInv /\ TargetsOpen
  <2>1. TypeOK /\ OwnerInv /\ JumpInv /\ StackInv /\ TargetsOpen
    BY DEF IInv
  <2>2. cur \in 1 .. blocks /\ Pending \subseteq 1 .. blocks
    BY <2>1 DEF OwnerInv
  <2>3. blocks \in Nat \ {0} /\ frames \in Seq(Frames) /\ cur \notin Pending /\ MaxBlocks \in Nat
    BY BlockFacts
  <2>4. blocks' \in Nat /\ 1 .. blocks' \subseteq Blocks
    BY <2>3 DEF Blocks
  <2> QED
    BY <2>1, <2>2, <2>3, <2>4
<1>1. PendingOf(f) \cap PendingIn(frames) = {}
  BY <1>0 DEF Pending
<1>2. /\ frames' \in Seq(Frames) /\ Len(frames') = Len(frames) + 1
      /\ \A i \in 1 .. Len(frames) : frames'[i] = frames[i]
      /\ frames'[Len(frames) + 1] = f
      /\ Pending' = Pending \cup PendingOf(f)
      /\ Apart(frames')
  <2>1. Apart(frames)
    BY <1>0 DEF OwnerInv
  <2> QED
    BY <1>0, <1>1, <2>1, PushFacts DEF Pending
<1>3. Len(frames) \in Nat /\ \A i \in 1 .. Len(frames') : i \in 1 .. Len(frames) \/ i = Len(frames) + 1
  BY <1>0, <1>2
<1>4. TypeOK'
  <2>1. brk' \in MaybeBlock
    BY <1>0 DEF TypeOK, MaybeBlock, Frames
  <2>2. cont' \in MaybeBlock
    BY <1>0 DEF TypeOK, Frames
  <2>3. cur' \in Blocks
    BY <1>0
  <2>4. Flow!FlowTypeOK' /\ code' \in [Blocks -> Contents]
    BY <1>0 DEF Opened, Wrote
  <2>5. gotos' \in [Labels -> MaybeBlock] /\ crashed' \in BOOLEAN
    <3>1. gotos \in [Labels -> MaybeBlock] /\ crashed \in BOOLEAN
      BY <1>0 DEF TypeOK
    <3> QED
      BY <3>1
  <2> QED
    BY <1>2, <2>1, <2>2, <2>3, <2>4, <2>5 DEF TypeOK
<1>5. StackInv'
  <2>1. \A i \in 1 .. Len(frames') : open'[i].kind = frames'[i].kind /\ Shape(frames'[i])
    BY <1>0, <1>2, <1>3 DEF StackInv, Opened
  <2>2. ASSUME NEW i \in 1 .. Len(frames'), frames'[i].kind = "label" PROVE "goto" \in odd'
    BY <1>0, <1>2, <1>3, <2>2 DEF StackInv, Opened
  <2>3. Len(open') = Len(frames')
    BY <1>0, <1>2 DEF StackInv, Opened
  <2> QED
    BY <2>1, <2>2, <2>3 DEF StackInv
<1>6. TargetsOpen'
  <2>1. Len(frames) + 1 \in 1 .. Len(frames') /\ 1 .. Len(frames) \subseteq 1 .. Len(frames')
    BY <1>2, <1>3
  <2>2. ASSUME brk' # None
        PROVE  \E i \in 1 .. Len(frames') :
                 frames'[i].kind \in {"for", "loop", "while"} /\ frames'[i].next = brk'
    BY <1>0, <1>2, <2>1, <2>2 DEF TargetsOpen
  <2>3. ASSUME cont' # None
        PROVE  \E i \in 1 .. Len(frames') :
                 frames'[i].kind \in Flow!Loops /\ frames'[i].back = cont'
    BY <1>0, <1>2, <2>1, <2>3 DEF TargetsOpen
  <2> QED
    BY <2>2, <2>3 DEF TargetsOpen
<1>7. W \subseteq 1 .. blocks' /\ odd \subseteq odd'
  BY <1>0 DEF Opened
<1>8. OwnerInv'
  <2>a. \A b \in (blocks + 1) .. blocks' : b \in 1 .. blocks' /\ b \notin 1 .. blocks
    BY <1>0
  <2>b. 1 .. blocks \subseteq 1 .. blocks'
    BY <1>0
  <2>1. Pending' \subseteq 1 .. blocks' /\ cur' \in 1 .. blocks'
    BY <1>0, <1>2, <2>a, <2>b
  <2>2. cur' \notin Pending' /\ W \cap Pending' = {}
    BY <1>0, <1>2, <2>a
  <2>3. \A b \in Pending' : b \in Pending \/ b > blocks
    BY <1>0, <1>2
  <2>4. ASSUME "goto" \notin odd'
        PROVE \A b \in 1 .. blocks' : b \in Pending \cup {cur} \/ b > blocks
                                        => b \in Pending' \cup {cur'} \cup W
    <3>1. \A b \in 1 .. blocks' : b > blocks => b \in (blocks + 1) .. blocks'
      BY <1>0
    <3> QED
      BY <1>2, <2>4, <3>1
  <2> QED
    BY <1>0, <1>2, <1>7, <2>1, <2>2, <2>3, <2>4, OwnerStep
<1>9. JumpInv'
  BY <1>0, <1>7, JumpStep
<1>10. EndInv'
  BY DEF EndInv, Opened
<1> QED
  BY <1>4, <1>5, <1>6, <1>8, <1>9, <1>10 DEF IInv

(* The stacks when a statement is complete.                                *)
LEMMA PopStep ==
  ASSUME IInv, frames # <<>>, frames' = Pop, Closed,
         \/ brk' = None /\ cont' = None
         \/ brk' = brk /\ cont' = cont /\ Top.kind \notin Flow!Loops
  PROVE  /\ frames' \in Seq(Frames) /\ Apart(frames')
         /\ Pending = Pending' \cup PendingOf(Top) /\ Pending' \cap PendingOf(Top) = {}
         /\ brk' \in MaybeBlock /\ cont' \in MaybeBlock
         /\ StackInv' /\ TargetsOpen'
<1>0. TypeOK /\ StackInv /\ TargetsOpen /\ frames \in Seq(Frames) /\ Apart(frames)
  BY DEF IInv, TypeOK, OwnerInv
<1>1. Top \in Frames /\ Top = frames[Len(frames)]
  BY TopFacts
<1>2. /\ frames' \in Seq(Frames) /\ Len(frames') = Len(frames) - 1
      /\ \A i \in 1 .. Len(frames') : frames'[i] = frames[i] /\ i \in 1 .. Len(frames)
      /\ PendingIn(frames) = PendingIn(frames') \cup PendingOf(Top)
      /\ PendingIn(frames') \cap PendingOf(Top) = {}
      /\ Apart(frames')
  <2> DEFINE r == SubSeq(frames, 1, Len(frames) - 1)
  <2>1. r = frames'
    BY DEF Pop
  <2> HIDE DEF r
  <2>2. /\ r \in Seq(Frames) /\ Len(r) = Len(frames) - 1
        /\ \A i \in 1 .. Len(r) : r[i] = frames[i] /\ i \in 1 .. Len(frames)
        /\ PendingIn(frames) = PendingIn(r) \cup PendingOf(frames[Len(frames)])
        /\ PendingIn(r) \cap PendingOf(frames[Len(frames)]) = {}
        /\ Apart(r)
    BY <1>0, PopFacts DEF r
  <2> QED
    BY <1>1, <2>1, <2>2
<1>3. Pending = Pending' \cup PendingOf(Top) /\ Pending' \cap PendingOf(Top) = {}
  BY <1>2 DEF Pending
<1>4. /\ Len(frames) \in Nat \ {0} /\ Len(open) = Len(frames)
      /\ \A i \in 1 .. Len(frames) : i \in 1 .. Len(frames') \/ i = Len(frames)
  BY <1>0, <1>2 DEF StackInv
<1>5. brk' \in MaybeBlock /\ cont' \in MaybeBlock
  BY <1>0 DEF TypeOK, MaybeBlock
<1>6. StackInv'
  <2>1. Len(open') = Len(frames')
    BY <1>2, <1>4 DEF Closed
  <2>2. ASSUME NEW i \in 1 .. Len(frames')
        PROVE  open'[i].kind = frames'[i].kind /\ Shape(frames'[i])
    <3>1. i \in 1 .. Len(open) - 1 /\ i \in 1 .. Len(frames) /\ frames'[i] = frames[i]
      BY <1>2, <1>4
    <3> QED
      BY <1>0, <3>1 DEF StackInv, Closed
  <2>3. ASSUME NEW i \in 1 .. Len(frames'), frames'[i].kind = "label" PROVE "goto" \in odd'
    BY <1>0, <1>2, <2>3 DEF StackInv, Closed
  <2> QED
    BY <2>1, <2>2, <2>3 DEF StackInv
<1>7. TargetsOpen'
  <2>1. CASE brk' = None /\ cont' = None
    BY <2>1 DEF TargetsOpen
  <2>2. CASE brk' = brk /\ cont' = cont /\ Top.kind \notin Flow!Loops
    <3>1. \A i \in 1 .. Len(frames) : frames[i].kind \in Flow!Loops => i \in 1 .. Len(frames')
      BY <1>1, <1>4, <2>2
    <3>2. {"for", "loop", "while"} \subseteq Flow!Loops
      BY DEF Flow!Loops
    <3>3. ASSUME brk' # None
          PROVE  \E i \in 1 .. Len(frames') :
                   frames'[i].kind \in {"for", "loop", "while"} /\ frames'[i].next = brk'
      BY <1>0, <1>2, <2>2, <3>1, <3>2, <3>3 DEF TargetsOpen
    <3>4. ASSUME cont' # None
          PROVE  \E i \in 1 .. Len(frames') :
                   frames'[i].kind \in Flow!Loops /\ frames'[i].back = cont'
      BY <1>0, <1>2, <2>2, <3>1, <3>4 DEF TargetsOpen
    <3> QED
      BY <3>3, <3>4 DEF TargetsOpen
  <2> QED
    BY <2>1, <2>2
<1> QED
  BY <1>2, <1>3, <1>5, <1>6, <1>7

(* A statement is complete: the code after it goes to its next block.       *)
LEMMA CloseStep ==
  ASSUME IInv, frames # <<>>, frames' = Pop, Closed, Top.next \in PendingOf(Top),
         blocks' = blocks, cur' = Top.next, UNCHANGED <<gotos, crashed>>,
         NEW W, Wrote(W), cur \in W, Top.next \notin W,
         W \subseteq {cur} \cup PendingOf(Top), PendingOf(Top) \subseteq W \cup {Top.next},
         "goto" \notin odd' => \A b \in W : code'[b].ends # <<>>,
         Tidy' => \A b \in W : Len(code'[b].ends) <= 1 /\ ~code'[b].late,
         phis' \subseteq Blocks \X Blocks,
         \/ brk' = None /\ cont' = None
         \/ brk' = brk /\ cont' = cont /\ Top.kind \notin Flow!Loops
  PROVE  IInv'
<1>0. /\ blocks \in Nat \ {0} /\ blocks \in Blocks
      /\ cur \in 1 .. blocks /\ cur \notin Pending /\ Pending \subseteq 1 .. blocks
      /\ TypeOK /\ OwnerInv /\ JumpInv
  BY BlockFacts DEF IInv, TypeOK, OwnerInv
<1>1. PendingOf(Top) \subseteq Pending
  BY TopFacts
<1>2. /\ frames' \in Seq(Frames) /\ Apart(frames')
      /\ Pending = Pending' \cup PendingOf(Top) /\ Pending' \cap PendingOf(Top) = {}
      /\ brk' \in MaybeBlock /\ cont' \in MaybeBlock
      /\ StackInv' /\ TargetsOpen'
  BY PopStep
<1>3. TypeOK'
  <2>1. cur' \in Blocks
    BY <1>0, <1>1, BlockFacts
  <2> QED
    BY <1>0, <1>2, <2>1 DEF TypeOK, Closed, Wrote
<1>4. W \subseteq 1 .. blocks' /\ odd \subseteq odd' /\ blocks <= blocks' /\ blocks' \in Blocks
  BY <1>0, <1>1 DEF Closed
<1>5. OwnerInv'
  <2>1. Pending' \subseteq 1 .. blocks' /\ cur' \in 1 .. blocks'
    BY <1>0, <1>1, <1>2
  <2>2. cur' \notin Pending' /\ W \cap Pending' = {}
    BY <1>0, <1>2
  <2>3. \A b \in Pending' : b \in Pending
    BY <1>2
  <2>4. \A b \in 1 .. blocks' : b \in Pending \cup {cur} \/ b > blocks
                                  => b \in Pending' \cup {cur'} \cup W
    BY <1>0, <1>2
  <2> QED
    BY <1>0, <1>2, <1>4, <2>1, <2>2, <2>3, <2>4, OwnerStep
<1>6. JumpInv'
  <2>1. code'[cur'] = Empty
    <3>1. code[cur'] = Empty /\ cur' \in Blocks
      BY <1>1, BlockFacts
    <3> QED
      BY <3>1 DEF Wrote
  <2>2. code'[cur'].ends = <<>>
    BY <2>1, EmptyFacts
  <2> QED
    BY <1>0, <1>4, <2>2, JumpStep
<1>7. EndInv'
  BY DEF EndInv, Closed
<1> QED
  BY <1>2, <1>3, <1>5, <1>6, <1>7 DEF IInv

(* The chain of an if goes on: its alternative is entered.                 *)
LEMMA SwapStep ==
  ASSUME IInv, frames # <<>>, Top.kind = "if", Top.alt # None,
         NEW f \in Frames, frames' = [frames EXCEPT ![Len(frames)] = f],
         Swapped(f.kind), f.kind \in {"if", "else"}, Shape(f),
         blocks' \in Blocks, blocks <= blocks',
         PendingOf(f) \subseteq {Top.next} \cup (blocks + 1) .. blocks', Top.next \in PendingOf(f),
         cur' \in {Top.alt} \cup (blocks + 1) .. blocks', cur' \notin PendingOf(f),
         NEW W, Wrote(W), cur \in W, W \subseteq {cur, Top.alt}, Top.alt \in W \cup {cur'},
         \A b \in (blocks + 1) .. blocks' : b \in PendingOf(f) \cup {cur'},
         \A b \in W : code'[b].ends # <<>>, cur' \notin W,
         Tidy' => \A b \in W : Len(code'[b].ends) <= 1 /\ ~code'[b].late,
         UNCHANGED <<phis, brk, cont, gotos, crashed>>
  PROVE  IInv'
<1>0. /\ blocks \in Nat \ {0} /\ blocks' \in Nat /\ 1 .. blocks' \subseteq Blocks /\ frames \in Seq(Frames)
      /\ cur \in 1 .. blocks /\ cur \notin Pending /\ Pending \subseteq 1 .. blocks
      /\ TypeOK /\ OwnerInv /\ JumpInv /\ StackInv /\ TargetsOpen /\ Apart(frames)
  <2>1. TypeOK /\ OwnerInv /\ JumpInv /\ StackInv /\ TargetsOpen
    BY DEF IInv
  <2>2. cur \in 1 .. blocks /\ Pending \subseteq 1 .. blocks /\ Apart(frames)
    BY <2>1 DEF OwnerInv
  <2>3. blocks \in Nat \ {0} /\ frames \in Seq(Frames) /\ cur \notin Pending /\ MaxBlocks \in Nat
    BY BlockFacts
  <2>4. blocks' \in Nat /\ 1 .. blocks' \subseteq Blocks
    BY <2>3 DEF Blocks
  <2> QED
    BY <2>1, <2>2, <2>3, <2>4
<1>1. /\ Top \in Frames /\ Top = frames[Len(frames)] /\ PendingOf(Top) \subseteq Pending
      /\ Shape(Top)
  BY TopFacts
<1>2. PendingOf(Top) = {Top.next, Top.alt} /\ Top.next # Top.alt
  BY <1>1 DEF PendingOf, Shape
<1> DEFINE r == SubSeq(frames, 1, Len(frames) - 1)
<1>3. /\ r \in Seq(Frames) /\ PendingIn(frames) = PendingIn(r) \cup PendingOf(Top)
      /\ PendingIn(r) \cap PendingOf(Top) = {}
  BY <1>0, <1>1, PopFacts
<1> HIDE DEF r
<1>a. \A b \in (blocks + 1) .. blocks' : b \in 1 .. blocks' /\ b \notin 1 .. blocks /\ b > blocks
  BY <1>0
<1>b. 1 .. blocks \subseteq 1 .. blocks'
  BY <1>0
<1>4. PendingOf(f) \cap PendingIn(r) = {}
  BY <1>0, <1>1, <1>2, <1>3, <1>a DEF Pending
<1>5. /\ frames' \in Seq(Frames) /\ Len(frames') = Len(frames)
      /\ frames'[Len(frames)] = f
      /\ \A i \in 1 .. Len(frames) : i # Len(frames) => frames'[i] = frames[i]
      /\ PendingIn(frames') = PendingIn(r) \cup PendingOf(f)
      /\ Apart(frames')
  <2>1. PendingOf(f) \cap PendingIn(SubSeq(frames, 1, Len(frames) - 1)) = {}
    BY <1>4 DEF r
  <2>2. frames' = Replace(frames, f)
    BY DEF Replace
  <2>3. frames \in Seq(Frames) /\ Apart(frames)
    BY <1>0
  <2> DEFINE t == frames'
  <2> HIDE DEF t
  <2>4. t = Replace(frames, f)
    BY <2>2 DEF t
  <2>5. /\ t \in Seq(Frames) /\ Len(t) = Len(frames)
        /\ t[Len(frames)] = f
        /\ \A i \in 1 .. Len(frames) : i # Len(frames) => t[i] = frames[i]
        /\ PendingIn(t) = PendingIn(SubSeq(frames, 1, Len(frames) - 1)) \cup PendingOf(f)
        /\ Apart(t)
    BY <2>1, <2>3, <2>4, SwapFacts
  <2> QED
    BY <2>5 DEF r, t
<1>6. TypeOK'
  <2>1. cur' \in Blocks
    BY <1>0, <1>1, <1>2, <1>a, BlockFacts
  <2> QED
    BY <1>0, <1>5, <2>1 DEF TypeOK, Swapped, Wrote
<1>7. StackInv'
  <2>1. Len(open') = Len(frames') /\ Len(open) = Len(frames) /\ Len(frames) \in Nat
    BY <1>0, <1>5 DEF StackInv, Swapped
  <2>2. ASSUME NEW i \in 1 .. Len(frames')
        PROVE  open'[i].kind = frames'[i].kind /\ Shape(frames'[i])
    BY <1>0, <1>5, <2>1 DEF StackInv, Swapped
  <2>3. ASSUME NEW i \in 1 .. Len(frames'), frames'[i].kind = "label" PROVE "goto" \in odd'
    BY <1>0, <1>5, <2>3 DEF StackInv, Swapped
  <2> QED
    BY <2>1, <2>2, <2>3 DEF StackInv
<1>8. TargetsOpen'
  <2>1. \A i \in 1 .. Len(frames) : frames[i].kind \in Flow!Loops => i # Len(frames)
    BY <1>1 DEF Flow!Loops
  <2>2. {"for", "loop", "while"} \subseteq Flow!Loops
    BY DEF Flow!Loops
  <2>3. ASSUME brk' # None
        PROVE  \E i \in 1 .. Len(frames') :
                 frames'[i].kind \in {"for", "loop", "while"} /\ frames'[i].next = brk'
    BY <1>0, <1>5, <2>1, <2>2, <2>3 DEF TargetsOpen
  <2>4. ASSUME cont' # None
        PROVE  \E i \in 1 .. Len(frames') :
                 frames'[i].kind \in Flow!Loops /\ frames'[i].back = cont'
    BY <1>0, <1>5, <2>1, <2>4 DEF TargetsOpen
  <2> QED
    BY <2>3, <2>4 DEF TargetsOpen
<1>9. W \subseteq 1 .. blocks' /\ odd \subseteq odd' /\ W \subseteq 1 .. blocks
  BY <1>0, <1>1, <1>2, <1>b DEF Swapped
<1>10. OwnerInv'
  <2>0. Pending' = PendingIn(r) \cup PendingOf(f) /\ Pending = PendingIn(r) \cup {Top.next, Top.alt}
    BY <1>2, <1>3, <1>5 DEF Pending
  <2>1. Pending' \subseteq 1 .. blocks' /\ cur' \in 1 .. blocks'
    BY <1>0, <1>1, <1>2, <1>a, <1>b, <2>0
  <2>2. cur' \notin Pending'
    BY <1>0, <1>2, <1>3, <1>a, <2>0
  <2>3. W \cap Pending' = {}
    <3>1. cur \notin PendingIn(r) /\ Top.alt \notin PendingIn(r)
      BY <1>0, <1>2, <1>3, <2>0
    <3>2. PendingOf(f) \cap 1 .. blocks \subseteq {Top.next}
      BY <1>a
    <3>3. Top.next # cur /\ Top.next # Top.alt
      BY <1>0, <1>2, <2>0
    <3> QED
      BY <1>9, <2>0, <3>1, <3>2, <3>3
  <2>4. \A b \in Pending' : b \in Pending \/ b > blocks
    BY <1>a, <2>0
  <2>5. \A b \in 1 .. blocks' : b > blocks => b \in (blocks + 1) .. blocks'
    BY <1>0
  <2>6. \A b \in 1 .. blocks' : b \in Pending \cup {cur} \/ b > blocks
                                  => b \in Pending' \cup {cur'} \cup W
    BY <2>0, <2>5
  <2> QED
    BY <1>0, <1>5, <1>9, <2>1, <2>2, <2>3, <2>4, <2>6, OwnerStep
<1>11. JumpInv'
  <2>1. cur' \in Blocks /\ code[cur'] = Empty
    BY <1>0, <1>1, <1>2, <1>a, BlockFacts
  <2>2. code'[cur'].ends = <<>>
    BY <2>1, EmptyFacts DEF Wrote
  <2> QED
    BY <1>0, <1>9, <2>2, JumpStep
<1>12. EndInv'
  BY DEF EndInv, Swapped
<1> QED
  BY <1>6, <1>7, <1>8, <1>10, <1>11, <1>12 DEF IInv

------------------------------------------------------------------------------
(* One lemma per step of the generator.                                    *)

LEMMA PlainStep == IInv /\ Plain => IInv'
<1> SUFFICES ASSUME IInv, Plain PROVE IInv'
  OBVIOUS
<1>0. Flow!FlowTypeOK /\ cur \in Blocks /\ code \in [Blocks -> Contents] /\ crashed \in BOOLEAN
  BY BlockFacts DEF IInv, TypeOK
<1>1. Simple /\ jumped' = jumped /\ points' \in Nat
  BY <1>0, SimpleFacts DEF Plain, Flow!Plain, Simple, Flow!FlowTypeOK
<1>2. /\ code' = Evaluate(code, cur, points')
      /\ UNCHANGED <<blocks, phis, cur, brk, cont, frames, gotos>> /\ crashed' = crashed
  BY DEF Plain, builder
<1>3. /\ Wrote({cur}) /\ code'[cur].ends = code[cur].ends
      /\ code[cur].ends = <<>> /\ ~code[cur].late => ~code'[cur].late
  BY <1>0, <1>1, <1>2, EvaluateFacts DEF Wrote
<1>4. Tidy' => code[cur].ends = <<>> /\ ~code[cur].late
  BY <1>1, FreshFacts DEF Simple, Tidy, Without
<1>5. Tidy' => Len(code'[cur].ends) <= 1 /\ ~code'[cur].late /\ code'[cur].ends = <<>>
  BY <1>3, <1>4
<1> QED
  BY <1>0, <1>1, <1>2, <1>3, <1>5, KeepStep

\* A jump: one more terminator in the block in hand.
LEMMA JumpEnds ==
  ASSUME IInv, Simple, jumped' = TRUE, NEW t \in SUBSET (0 .. MaxBlocks),
         code' = Branch(code, cur, t),
         UNCHANGED <<blocks, phis, cur, brk, cont, frames, gotos>>, crashed' = crashed
  PROVE  IInv'
<1>0. cur \in Blocks /\ code \in [Blocks -> Contents] /\ crashed \in BOOLEAN
  BY BlockFacts DEF IInv, TypeOK
<1>1. /\ Wrote({cur}) /\ Len(code'[cur].ends) = Len(code[cur].ends) + 1
      /\ code'[cur].late = code[cur].late
  <2>1. /\ Branch(code, cur, t) \in [Blocks -> Contents]
        /\ \A d \in Blocks : d # cur => Branch(code, cur, t)[d] = code[d]
        /\ Branch(code, cur, t)[cur].late = code[cur].late
        /\ Len(Branch(code, cur, t)[cur].ends) = Len(code[cur].ends) + 1
    BY <1>0, BranchFacts
  <2> QED
    BY <2>1 DEF Wrote
<1>2. Tidy' => code[cur].ends = <<>> /\ ~code[cur].late
  BY FreshFacts DEF Simple, Tidy, Without
<1>3. Tidy' => Len(code'[cur].ends) <= 1 /\ ~code'[cur].late
  BY <1>1, <1>2
<1> QED
  BY <1>0, <1>1, <1>3, KeepStep

LEMMA ReturnStep == IInv /\ Return => IInv'
<1> SUFFICES ASSUME IInv, Return PROVE IInv'
  OBVIOUS
<1>1. Flow!FlowTypeOK /\ MaxBlocks \in Nat
  BY BlockFacts
<1>2. Simple /\ jumped' = TRUE
  BY <1>1, SimpleFacts DEF Return, Flow!Return
<1>3. {0} \in SUBSET (0 .. MaxBlocks)
  BY <1>1
<1>4. /\ code' = Branch(code, cur, {0}) /\ crashed' = crashed
      /\ UNCHANGED <<blocks, phis, cur, brk, cont, frames, gotos>>
  BY DEF Return, builder
<1> QED
  BY <1>2, <1>3, <1>4, JumpEnds

\* A break or continue that generates nothing.
LEMMA NothingStep ==
  ASSUME IInv, Simple, code' = code, jumped' \in BOOLEAN,
         UNCHANGED <<blocks, phis, cur, brk, cont, frames, gotos>>, crashed' \in BOOLEAN
  PROVE  IInv'
<1>1. Wrote({cur})
  BY BlockFacts DEF Wrote
<1>2. Tidy' => code[cur].ends = <<>> /\ ~code[cur].late
  BY FreshFacts DEF Simple, Tidy, Without
<1>3. Tidy' => Len(code'[cur].ends) <= 1 /\ ~code'[cur].late /\ code'[cur].ends = <<>>
  BY <1>2
<1> QED
  BY <1>1, <1>3, KeepStep

\* Inside of a loop break and continue are jumps.
LEMMA LoopJumps ==
  ASSUME IInv, Flow!Break \/ Flow!Continue, brk # None \/ cont # None
  PROVE  jumped' = TRUE
<1>1. \E i \in 1 .. Len(frames) : frames[i].kind \in Flow!Loops
  BY DEF IInv, TargetsOpen, Flow!Loops
<1>2. \E i \in 1 .. Len(open) : open[i].kind \in Flow!Loops
  BY <1>1 DEF IInv, StackInv
<1>3. ~Flow!Nowhere
  BY <1>2 DEF Flow!Nowhere, Flow!LoopsOf
<1>4. (\E i \in 1 .. Len(open) : \E notes : Flow!Leave(i, notes)) => jumped' = TRUE
  BY DEF Flow!Leave
<1> QED
  BY <1>3, <1>4 DEF Flow!Break, Flow!Continue

LEMMA BreakStep == IInv /\ Break => IInv'
<1> SUFFICES ASSUME IInv, Break PROVE IInv'
  OBVIOUS
<1>1. /\ Flow!FlowTypeOK /\ MaxBlocks \in Nat /\ brk \in Blocks \cup {None}
      /\ 0 .. MaxBlocks = Blocks \cup {0} /\ crashed \in BOOLEAN
  BY BlockFacts DEF IInv, TypeOK, MaybeBlock, Blocks
<1>2. Simple
  BY <1>1, SimpleFacts DEF Break
<1>3. jumped' \in BOOLEAN
  BY <1>2 DEF Simple, Flow!FlowTypeOK
<1>4. /\ crashed' = crashed /\ UNCHANGED <<blocks, phis, cur, brk, cont, frames, gotos>>
      /\ code' = IF brk = None THEN code ELSE Branch(code, cur, {brk})
  BY DEF Break, builder
<1>5. CASE brk = None
  BY <1>1, <1>2, <1>3, <1>4, <1>5, NothingStep
<1>6. CASE brk # None
  <2>1. {brk} \in SUBSET (0 .. MaxBlocks)
    BY <1>1, <1>6
  <2>2. jumped' = TRUE
    BY <1>6, LoopJumps DEF Break
  <2> QED
    BY <1>2, <1>4, <1>6, <2>1, <2>2, JumpEnds
<1> QED
  BY <1>5, <1>6

LEMMA ContinueStep == IInv /\ Continue => IInv'
<1> SUFFICES ASSUME IInv, Continue PROVE IInv'
  OBVIOUS
<1>1. /\ Flow!FlowTypeOK /\ MaxBlocks \in Nat /\ cont \in Blocks \cup {None}
      /\ 0 .. MaxBlocks = Blocks \cup {0} /\ crashed \in BOOLEAN
  BY BlockFacts DEF IInv, TypeOK, MaybeBlock, Blocks
<1>2. Simple
  BY <1>1, SimpleFacts DEF Continue
<1>3. jumped' \in BOOLEAN
  BY <1>2 DEF Simple, Flow!FlowTypeOK
<1>4. /\ crashed' = crashed /\ UNCHANGED <<blocks, phis, cur, brk, cont, frames, gotos>>
      /\ code' = IF cont = None THEN code ELSE Branch(code, cur, {cont})
  BY DEF Continue, builder
<1>5. CASE cont = None
  BY <1>1, <1>2, <1>3, <1>4, <1>5, NothingStep
<1>6. CASE cont # None
  <2>1. {cont} \in SUBSET (0 .. MaxBlocks)
    BY <1>1, <1>6
  <2>2. jumped' = TRUE
    BY <1>6, LoopJumps DEF Continue
  <2> QED
    BY <1>2, <1>4, <1>6, <2>1, <2>2, JumpEnds
<1> QED
  BY <1>5, <1>6

LEMMA GoToKnownStep == IInv /\ (\E l \in Labels : GoToKnown(l)) => IInv'
<1> SUFFICES ASSUME IInv, NEW l \in Labels, GoToKnown(l) PROVE IInv'
  OBVIOUS
<1>1. /\ Flow!FlowTypeOK /\ MaxBlocks \in Nat /\ gotos[l] \in Blocks
      /\ 0 .. MaxBlocks = Blocks \cup {0}
  BY BlockFacts DEF IInv, TypeOK, MaybeBlock, Blocks, GoToKnown
<1>2. Simple /\ jumped' = TRUE
  BY <1>1, SimpleFacts DEF GoToKnown, Flow!GoTo
<1>3. /\ code' = Branch(code, cur, {gotos[l]}) /\ crashed' = crashed
      /\ UNCHANGED <<blocks, phis, cur, brk, cont, frames, gotos>>
  BY DEF GoToKnown, builder
<1>4. {gotos[l]} \in SUBSET (0 .. MaxBlocks)
  BY <1>1
<1> QED
  BY <1>2, <1>3, <1>4, JumpEnds

LEMMA GoToOpenStep == IInv /\ (\E l \in Labels : GoToOpen(l)) => IInv'
<1> SUFFICES ASSUME IInv, NEW l \in Labels, GoToOpen(l) PROVE IInv'
  OBVIOUS
<1>1. Flow!FlowTypeOK
  BY BlockFacts
<1>2. Simple /\ jumped' = TRUE
  BY <1>1, SimpleFacts DEF GoToOpen, Flow!GoTo
<1>3. /\ code' = code /\ crashed' = TRUE
      /\ UNCHANGED <<blocks, phis, cur, brk, cont, frames, gotos>>
  BY DEF GoToOpen, ir
<1> QED
  BY <1>2, <1>3, NothingStep

------------------------------------------------------------------------------
\* An evaluation and the branch after it, in the same block.
LEMMA EvalBranchFacts ==
  ASSUME NEW c \in [Blocks -> Contents], NEW b \in Blocks, NEW p \in Nat, NEW t \in SUBSET (0 .. MaxBlocks)
  PROVE  /\ Branch(Evaluate(c, b, p), b, t) \in [Blocks -> Contents]
         /\ \A d \in Blocks : d # b => Branch(Evaluate(c, b, p), b, t)[d] = c[d]
         /\ Branch(Evaluate(c, b, p), b, t)[b].ends # <<>>
         /\ Len(Branch(Evaluate(c, b, p), b, t)[b].ends) = Len(c[b].ends) + 1
         /\ c[b].ends = <<>> /\ ~c[b].late => ~Branch(Evaluate(c, b, p), b, t)[b].late
<1> DEFINE e == Evaluate(c, b, p)
<1>1. /\ e \in [Blocks -> Contents] /\ e[b].ends = c[b].ends
      /\ \A d \in Blocks : d # b => e[d] = c[d]
      /\ c[b].ends = <<>> /\ ~c[b].late => ~e[b].late
  BY EvaluateFacts
<1> HIDE DEF e
<1>2. /\ Branch(e, b, t) \in [Blocks -> Contents] /\ Branch(e, b, t)[b].ends # <<>>
      /\ \A d \in Blocks : d # b => Branch(e, b, t)[d] = e[d]
      /\ Branch(e, b, t)[b].late = e[b].late
      /\ Len(Branch(e, b, t)[b].ends) = Len(e[b].ends) + 1
  BY <1>1, BranchFacts
<1> QED
  BY <1>1, <1>2 DEF e

LEMMA FrameFacts ==
  ASSUME NEW kind \in Flow!Kinds, NEW next \in Blocks, NEW alt \in MaybeBlock, NEW back \in MaybeBlock,
         NEW f, f = Frame(kind, next, alt, back)
  PROVE  /\ f \in Frames
         /\ f.kind = kind /\ f.next = next /\ f.alt = alt /\ f.back = back
BY DEF Frame, Frames

LEMMA KindFacts ==
  /\ "if" \in Flow!Kinds /\ "else" \in Flow!Kinds /\ "label" \in Flow!Kinds
  /\ "for" \in Flow!Kinds /\ "loop" \in Flow!Kinds /\ "while" \in Flow!Kinds /\ "do" \in Flow!Kinds
  /\ Flow!Loops = {"for", "loop", "while", "do"}
BY DEF Flow!Kinds, Flow!Loops

LEMMA OpenIfStep == IInv /\ (\E alt \in BOOLEAN : OpenIf(alt)) => IInv'
<1> SUFFICES ASSUME IInv, NEW alt \in BOOLEAN, OpenIf(alt) PROVE IInv'
  OBVIOUS
<1> DEFINE k == IF alt THEN 3 ELSE 2
           other == IF alt THEN blocks + 2 ELSE None
           merge == blocks'
           f == Frame("if", merge, other, None)
           to == {blocks + 1, IF alt THEN other ELSE merge}
<1>0. /\ blocks \in Nat \ {0} /\ MaxBlocks \in Nat /\ None \notin Nat
      /\ cur \in Blocks /\ cur \in Nat /\ cur <= blocks
      /\ code \in [Blocks -> Contents] /\ phis \subseteq Blocks \X Blocks /\ Flow!FlowTypeOK
      /\ \A b \in Blocks : b > blocks => code[b] = Empty
  BY BlockFacts
<1>1. Opened("if") /\ jumped' = FALSE
  BY <1>0, KindFacts, EnterFacts DEF OpenIf, Flow!OpenIf
<1>2. points' \in Nat
  BY <1>1 DEF Opened, Flow!FlowTypeOK
<1>3. /\ blocks + k <= MaxBlocks /\ blocks' = blocks + k
      /\ code' = Branch(Evaluate(code, cur, points'), cur, to)
      /\ cur' = blocks + 1 /\ frames' = Append(frames, f)
      /\ UNCHANGED <<phis, brk, cont, gotos, crashed>>
  BY DEF OpenIf, Create
<1>a. /\ blocks' \in Blocks /\ blocks < blocks' /\ blocks' \in Nat
      /\ blocks + 1 \in Blocks /\ blocks + 1 \in (blocks + 1) .. blocks' /\ blocks' \in (blocks + 1) .. blocks'
      /\ blocks' # blocks + 1 /\ cur \notin (blocks + 1) .. blocks'
  BY <1>0, <1>3 DEF Blocks
<1>b. /\ other # blocks + 1 /\ other # blocks' /\ other \in MaybeBlock
      /\ other # None => other \in (blocks + 1) .. blocks'
      /\ \A b \in (blocks + 1) .. blocks' : b = blocks + 1 \/ b = blocks' \/ b = other
  <2>1. CASE alt
    <3>1. other = blocks + 2 /\ blocks' = blocks + 3
      BY <1>3, <2>1
    <3> HIDE DEF other
    <3>2. blocks + 2 # blocks + 1 /\ blocks + 2 # blocks' /\ blocks + 2 \in Blocks
      BY <1>0, <1>a, <3>1 DEF Blocks
    <3>3. blocks + 2 \in (blocks + 1) .. blocks'
      BY <1>0, <1>a, <3>1
    <3>4. \A b \in (blocks + 1) .. blocks' : b = blocks + 1 \/ b = blocks' \/ b = blocks + 2
      BY <1>0, <1>a, <3>1
    <3> QED
      BY <3>1, <3>2, <3>3, <3>4 DEF MaybeBlock
  <2>2. CASE ~alt
    <3>1. other = None /\ blocks' = blocks + 2
      BY <1>3, <2>2
    <3>2. \A b \in (blocks + 1) .. blocks' : b = blocks + 1 \/ b = blocks'
      BY <1>0, <3>1
    <3>3. None # blocks + 1 /\ None # blocks'
      BY <1>0, <1>a
    <3> QED
      BY <3>1, <3>2, <3>3 DEF MaybeBlock
  <2> QED
    BY <2>1, <2>2
<1>c. to \in SUBSET (0 .. MaxBlocks)
  <2>1. \A b \in Blocks : b \in 0 .. MaxBlocks
    BY <1>0 DEF Blocks
  <2>2. CASE alt
    <3>1. other \in Blocks
      BY <1>0, <1>3, <2>2 DEF Blocks
    <3> QED
      BY <1>a, <2>1, <2>2, <3>1
  <2>3. CASE ~alt
    BY <1>a, <2>1, <2>3
  <2> QED
    BY <2>2, <2>3
<1> HIDE DEF k, other, to
<1>5. /\ f \in Frames /\ f.kind = "if" /\ f.next = blocks' /\ f.alt = other
  <2>1. "if" \in Flow!Kinds /\ blocks' \in Blocks /\ other \in MaybeBlock /\ None \in MaybeBlock
    BY <1>a, <1>b, KindFacts DEF MaybeBlock
  <2> QED
    BY <2>1, FrameFacts
<1> HIDE DEF f
<1>6. PendingOf(f) = {blocks'} \cup ({other} \ {None}) /\ Shape(f)
  BY <1>a, <1>b, <1>c, <1>5 DEF PendingOf, Shape, Loop
<1>7. /\ Wrote({cur}) /\ code'[cur].ends # <<>>
      /\ Len(code'[cur].ends) = Len(code[cur].ends) + 1
      /\ code[cur].ends = <<>> /\ ~code[cur].late => ~code'[cur].late
  <2> DEFINE c == Branch(Evaluate(code, cur, points'), cur, to)
  <2>1. /\ c \in [Blocks -> Contents]
        /\ \A d \in Blocks : d # cur => c[d] = code[d]
        /\ c[cur].ends # <<>>
        /\ Len(c[cur].ends) = Len(code[cur].ends) + 1
        /\ code[cur].ends = <<>> /\ ~code[cur].late => ~c[cur].late
    BY <1>0, <1>2, <1>a, <1>b, <1>c, EvalBranchFacts
  <2> QED
    BY <1>3, <2>1 DEF Wrote
<1>8. Tidy' => code[cur].ends = <<>> /\ ~code[cur].late
  BY <1>1, FreshFacts DEF Opened, Tidy, Without
<1>9. Tidy' => /\ \A b \in {cur} : Len(code'[b].ends) <= 1 /\ ~code'[b].late
               /\ code'[cur'].ends # <<>> => jumped'
  <2>1. code'[cur'].ends = <<>>
    <3>1. cur' \in Blocks /\ cur' > blocks /\ cur' \notin {cur}
      BY <1>0, <1>3, <1>a, <1>b, <1>c
    <3> QED
      BY <1>0, <1>7, <3>1, EmptyFacts DEF Wrote
  <2> QED
    BY <1>7, <1>8, <2>1
<1>10. PendingOf(f) \subseteq (blocks + 1) .. blocks' /\ cur' \notin PendingOf(f)
       /\ cur' \in (blocks + 1) .. blocks' /\ {cur} \cap PendingOf(f) = {}
  BY <1>3, <1>a, <1>b, <1>c, <1>6
<1>11. /\ \A b \in (blocks + 1) .. blocks' : b \in PendingOf(f) \cup {cur'} \cup {cur}
       /\ \A b \in {cur} : b = cur' \/ code'[b].ends # <<>>
  BY <1>0, <1>3, <1>a, <1>b, <1>c, <1>6, <1>7
<1>12. /\ Opened(f.kind) /\ f.kind # "label" /\ phis' \subseteq Blocks \X Blocks
       /\ {cur} \subseteq {cur} \cup (blocks + 1) .. blocks' /\ cur \in {cur}
       /\ brk' = brk /\ cont' = cont /\ UNCHANGED <<gotos, crashed>>
  BY <1>0, <1>1, <1>3, <1>5
<1> QED
  BY <1>3, <1>a, <1>5, <1>6, <1>7, <1>9, <1>10, <1>11, <1>12, OpenStep

\* The branch into a loop and the point at its start.
Headed(c, b, h, p) == Evaluate(Branch(c, b, {h}), h, p)

LEMMA HeadFacts ==
  ASSUME NEW c \in [Blocks -> Contents], NEW b \in Blocks, NEW h \in Blocks, h # b, c[h] = Empty,
         NEW p \in Nat, NEW d, d = Headed(c, b, h, p)
  PROVE  /\ d \in [Blocks -> Contents]
         /\ \A x \in Blocks : x \notin {b, h} => d[x] = c[x]
         /\ d[b].ends # <<>> /\ d[b].late = c[b].late
         /\ c[b].ends = <<>> => Len(d[b].ends) = 1
         /\ d[h].ends = <<>> /\ ~d[h].late
<1> DEFINE e == Branch(c, b, {h})
<1>1. {h} \in SUBSET (0 .. MaxBlocks)
  BY FlowAssumption DEF Blocks
<1>2. /\ e \in [Blocks -> Contents]
      /\ \A x \in Blocks : x # b => e[x] = c[x]
      /\ e[b].ends # <<>> /\ e[b].late = c[b].late /\ Len(e[b].ends) = Len(c[b].ends) + 1
  BY <1>1, BranchFacts
<1> HIDE DEF e
<1>3. e[h].ends = <<>> /\ ~e[h].late
  BY <1>2, EmptyFacts
<1>4. /\ Evaluate(e, h, p) \in [Blocks -> Contents]
      /\ \A x \in Blocks : x # h => Evaluate(e, h, p)[x] = e[x]
      /\ Evaluate(e, h, p)[h].ends = e[h].ends
      /\ ~Evaluate(e, h, p)[h].late
  BY <1>2, <1>3, EvaluateFacts
<1>5. d = Evaluate(e, h, p)
  BY DEF e, Headed
<1>6. c[b].ends = <<>> => Len(e[b].ends) = 1
  BY <1>2
<1> QED
  BY <1>2, <1>3, <1>4, <1>5, <1>6

\* The code in front of the body of a loop: h is the block of its first point.
LoopHead(h) ==
  /\ Wrote({cur, h})
  /\ code'[cur].ends # <<>> /\ code'[cur].late = code[cur].late
  /\ code[cur].ends = <<>> => Len(code'[cur].ends) = 1
  /\ Len(code'[h].ends) <= 1 /\ ~code'[h].late
  /\ h = cur' \/ code'[h].ends # <<>>
  /\ code'[cur'].ends = <<>>

LEMMA LoopHeadPlain ==
  ASSUME IInv, NEW h \in Blocks, h > blocks, points' \in Nat, cur' = h,
         code' = Headed(code, cur, h, points')
  PROVE  LoopHead(h)
<1>1. /\ cur \in Blocks /\ h # cur /\ code[h] = Empty /\ code \in [Blocks -> Contents]
  BY BlockFacts DEF Blocks
<1> DEFINE d == Headed(code, cur, h, points')
<1>2. /\ d \in [Blocks -> Contents]
      /\ \A x \in Blocks : x \notin {cur, h} => d[x] = code[x]
      /\ d[cur].ends # <<>> /\ d[cur].late = code[cur].late
      /\ code[cur].ends = <<>> => Len(d[cur].ends) = 1
      /\ d[h].ends = <<>> /\ ~d[h].late
  BY <1>1, HeadFacts
<1>3. code' = d /\ Len(<<>>) = 0
  OBVIOUS
<1> HIDE DEF d
<1> QED
  BY <1>2, <1>3 DEF LoopHead, Wrote

LEMMA LoopHeadBranch ==
  ASSUME IInv, NEW h \in Blocks, h > blocks, points' \in Nat,
         cur' \in Blocks, cur' > blocks, cur' # h,
         NEW t \in SUBSET (0 .. MaxBlocks), code' = Branch(Headed(code, cur, h, points'), h, t)
  PROVE  LoopHead(h)
<1>1. /\ cur \in Blocks /\ h # cur /\ code[h] = Empty /\ code \in [Blocks -> Contents]
      /\ cur' # cur /\ code[cur'] = Empty
  BY BlockFacts DEF Blocks
<1> DEFINE d == Headed(code, cur, h, points')
<1>2. /\ d \in [Blocks -> Contents]
      /\ \A x \in Blocks : x \notin {cur, h} => d[x] = code[x]
      /\ d[cur].ends # <<>> /\ d[cur].late = code[cur].late
      /\ code[cur].ends = <<>> => Len(d[cur].ends) = 1
      /\ d[h].ends = <<>> /\ ~d[h].late
  BY <1>1, HeadFacts
<1>3. code' = Branch(d, h, t)
  OBVIOUS
<1> HIDE DEF d
<1>4. /\ code' \in [Blocks -> Contents]
      /\ \A x \in Blocks : x # h => code'[x] = d[x]
      /\ code'[h].ends # <<>> /\ code'[h].late = d[h].late
      /\ Len(code'[h].ends) = Len(d[h].ends) + 1
  <2>1. /\ Branch(d, h, t) \in [Blocks -> Contents]
        /\ \A x \in Blocks : x # h => Branch(d, h, t)[x] = d[x]
        /\ Branch(d, h, t)[h].ends # <<>> /\ Branch(d, h, t)[h].late = d[h].late
        /\ Len(Branch(d, h, t)[h].ends) = Len(d[h].ends) + 1
    BY <1>2, BranchFacts
  <2> QED
    BY <1>3, <2>1
<1>5. Len(code'[h].ends) = 1 /\ ~code'[h].late
  BY <1>2, <1>4, Len(<<>>) = 0
<1>6. code'[cur'].ends = <<>>
  BY <1>1, <1>2, <1>4, EmptyFacts
<1>7. Wrote({cur, h})
  BY <1>2, <1>4 DEF Wrote
<1>8. code'[cur] = d[cur]
  BY <1>1, <1>4
<1> QED
  BY <1>2, <1>4, <1>5, <1>6, <1>7, <1>8 DEF LoopHead

(* What the four loops share.                                              *)
LEMMA LoopOpens ==
  ASSUME IInv, NEW kind, Flow!OpenLoop(kind),
         NEW f \in Frames, f.kind = kind, frames' = Append(frames, f), Shape(f),
         blocks' \in Blocks, blocks < blocks',
         PendingOf(f) \subseteq (blocks + 1) .. blocks',
         cur' \in (blocks + 1) .. blocks', cur' \notin PendingOf(f),
         NEW h \in (blocks + 1) .. blocks', h \notin PendingOf(f), LoopHead(h),
         \A b \in (blocks + 1) .. blocks' : b \in PendingOf(f) \cup {cur', h},
         phis' \subseteq Blocks \X Blocks, gotos' = gotos, crashed' = crashed,
         brk' = brk \/ (f.kind \in {"for", "loop", "while"} /\ brk' = f.next),
         cont' = f.back
  PROVE  IInv'
<1>0. /\ blocks \in Nat \ {0} /\ cur \in Blocks /\ cur <= blocks /\ cur \in Nat /\ Flow!FlowTypeOK
  BY BlockFacts
<1>1. kind \in Flow!Loops /\ kind \in Flow!Kinds /\ kind # "label" /\ Flow!Enter(kind)
  BY KindFacts DEF Flow!OpenLoop
<1>2. Opened(f.kind) /\ jumped' = FALSE
  BY <1>0, <1>1, EnterFacts
<1>3. \A b \in (blocks + 1) .. blocks' : b > blocks /\ b # cur
  BY <1>0
<1>4. Tidy' => code[cur].ends = <<>> /\ ~code[cur].late
  BY <1>2, FreshFacts DEF Opened, Tidy, Without
<1>5. Tidy' => Len(code'[cur].ends) <= 1 /\ ~code'[cur].late
  <2> SUFFICES ASSUME Tidy' PROVE Len(code'[cur].ends) <= 1 /\ ~code'[cur].late
    OBVIOUS
  <2>1. Len(code'[cur].ends) = 1 /\ code'[cur].late = code[cur].late /\ ~code[cur].late
    BY <1>4 DEF LoopHead
  <2> QED
    BY <2>1
<1>6. Tidy' => /\ \A b \in {cur, h} : Len(code'[b].ends) <= 1 /\ ~code'[b].late
               /\ code'[cur'].ends # <<>> => jumped'
  BY <1>5 DEF LoopHead
<1>7. Wrote({cur, h}) /\ \A b \in {cur, h} : b = cur' \/ code'[b].ends # <<>>
  BY DEF LoopHead
<1>8. /\ {cur, h} \subseteq {cur} \cup (blocks + 1) .. blocks'
      /\ {cur, h} \cap PendingOf(f) = {}
      /\ cur \in {cur, h}
      /\ \A b \in (blocks + 1) .. blocks' : b \in PendingOf(f) \cup {cur'} \cup {cur, h}
  BY <1>3
<1>9. f.kind # "label" /\ UNCHANGED <<gotos, crashed>> /\ f.kind \in Flow!Loops
  BY <1>1
<1> QED
  BY <1>2, <1>6, <1>7, <1>8, <1>9, OpenStep

LEMMA OpenForStep == IInv /\ OpenFor => IInv'
<1> SUFFICES ASSUME IInv, OpenFor PROVE IInv'
  OBVIOUS
<1> DEFINE f == Frame("for", blocks + 4, blocks + 1, blocks + 3)
<1>0. /\ blocks \in Nat \ {0} /\ MaxBlocks \in Nat /\ None \notin Nat /\ cur \in Blocks
      /\ phis \subseteq Blocks \X Blocks /\ Flow!FlowTypeOK
  BY BlockFacts
<1>1. /\ Flow!OpenLoop("for") /\ frames' = Append(frames, f)
      /\ blocks + 4 <= MaxBlocks /\ blocks' = blocks + 4
      /\ code' = Branch(Headed(code, cur, blocks + 1, points'), blocks + 1, {blocks + 2, blocks + 4})
      /\ phis' = phis \cup {<<blocks + 1, cur>>}
      /\ brk' = blocks + 4 /\ cont' = blocks + 3 /\ cur' = blocks + 2
      /\ gotos' = gotos /\ crashed' = crashed
  BY DEF OpenFor, Create, Headed
<1>2. /\ blocks + 1 \in Blocks /\ blocks + 2 \in Blocks /\ blocks + 3 \in Blocks /\ blocks + 4 \in Blocks
      /\ blocks' \in Blocks /\ blocks < blocks'
      /\ (blocks + 1) .. blocks' = {blocks + 1, blocks + 2, blocks + 3, blocks + 4}
      /\ blocks + 1 > blocks /\ blocks + 2 > blocks
  <2>1. /\ blocks' = blocks + 4 /\ blocks + 4 <= MaxBlocks
        /\ blocks \in Nat \ {0} /\ MaxBlocks \in Nat
    BY <1>0, <1>1
  <2>2. (blocks + 1) .. (blocks + 4) = {blocks + 1, blocks + 2, blocks + 3, blocks + 4}
    BY <2>1
  <2>3. /\ blocks + 1 \in Blocks /\ blocks + 2 \in Blocks /\ blocks + 3 \in Blocks
        /\ blocks + 4 \in Blocks /\ blocks < blocks + 4
    BY <2>1 DEF Blocks
  <2> QED
    BY <2>1, <2>2, <2>3
<1>3. {blocks + 2, blocks + 4} \in SUBSET (0 .. MaxBlocks)
  BY <1>0, <1>2 DEF Blocks
<1>4. points' \in Nat
  BY <1>0, <1>1, KindFacts, EnterFacts DEF Flow!OpenLoop, Opened, Flow!FlowTypeOK
<1>5. LoopHead(blocks + 1)
  BY <1>0, <1>1, <1>2, <1>3, <1>4, LoopHeadBranch
<1>6. f \in Frames /\ f.kind = "for" /\ f.next = blocks + 4 /\ f.alt = blocks + 1 /\ f.back = blocks + 3
  <2>1. /\ "for" \in Flow!Kinds /\ blocks + 4 \in Blocks
        /\ blocks + 1 \in MaybeBlock /\ blocks + 3 \in MaybeBlock
    BY <1>2, KindFacts DEF MaybeBlock
  <2> QED
    BY <2>1, FrameFacts
<1>7. phis' \subseteq Blocks \X Blocks
  BY <1>0, <1>1, <1>2
<1> HIDE DEF f
<1>8. PendingOf(f) = {blocks + 4, blocks + 3} /\ Shape(f)
  BY <1>0, <1>2, <1>6 DEF PendingOf, Shape, Loop
<1>9. /\ PendingOf(f) \subseteq (blocks + 1) .. blocks'
      /\ cur' \in (blocks + 1) .. blocks' /\ cur' \notin PendingOf(f)
      /\ blocks + 1 \in (blocks + 1) .. blocks' /\ blocks + 1 \notin PendingOf(f)
      /\ \A b \in (blocks + 1) .. blocks' : b \in PendingOf(f) \cup {cur', blocks + 1}
  BY <1>0, <1>1, <1>2, <1>8
<1>10. (brk' = brk \/ (f.kind \in {"for", "loop", "while"} /\ brk' = f.next)) /\ cont' = f.back
  BY <1>1, <1>6
<1> QED
  BY <1>1, <1>2, <1>5, <1>6, <1>7, <1>8, <1>9, <1>10, LoopOpens

LEMMA OpenLoopStep == IInv /\ OpenLoop => IInv'
<1> SUFFICES ASSUME IInv, OpenLoop PROVE IInv'
  OBVIOUS
<1> DEFINE f == Frame("loop", blocks + 2, None, blocks + 1)
<1>0. /\ blocks \in Nat \ {0} /\ MaxBlocks \in Nat /\ None \notin Nat /\ cur \in Blocks
      /\ phis \subseteq Blocks \X Blocks /\ Flow!FlowTypeOK
  BY BlockFacts
<1>1. /\ Flow!OpenLoop("loop") /\ frames' = Append(frames, f)
      /\ blocks + 2 <= MaxBlocks /\ blocks' = blocks + 2
      /\ code' = Headed(code, cur, blocks + 1, points')
      /\ phis' = phis
      /\ brk' = blocks + 2 /\ cont' = blocks + 1 /\ cur' = blocks + 1
      /\ gotos' = gotos /\ crashed' = crashed
  BY DEF OpenLoop, Create, Headed
<1>2. /\ blocks + 1 \in Blocks /\ blocks + 2 \in Blocks
      /\ blocks' \in Blocks /\ blocks < blocks'
      /\ (blocks + 1) .. blocks' = {blocks + 1, blocks + 2}
      /\ blocks + 1 > blocks /\ blocks + 1 > blocks
  BY <1>0, <1>1 DEF Blocks
<1>4. points' \in Nat
  BY <1>0, <1>1, KindFacts, EnterFacts DEF Flow!OpenLoop, Opened, Flow!FlowTypeOK
<1>5. LoopHead(blocks + 1)
  BY <1>1, <1>2, <1>4, LoopHeadPlain
<1>6. f \in Frames /\ f.kind = "loop" /\ f.next = blocks + 2 /\ f.alt = None /\ f.back = blocks + 1
  <2>1. /\ "loop" \in Flow!Kinds /\ blocks + 2 \in Blocks
        /\ None \in MaybeBlock /\ blocks + 1 \in MaybeBlock
    BY <1>2, KindFacts DEF MaybeBlock
  <2> QED
    BY <2>1, FrameFacts
<1>7. phis' \subseteq Blocks \X Blocks
  BY <1>0, <1>1, <1>2
<1> HIDE DEF f
<1>8. PendingOf(f) = {blocks + 2} /\ Shape(f)
  BY <1>0, <1>2, <1>6 DEF PendingOf, Shape, Loop
<1>9. /\ PendingOf(f) \subseteq (blocks + 1) .. blocks'
      /\ cur' \in (blocks + 1) .. blocks' /\ cur' \notin PendingOf(f)
      /\ blocks + 1 \in (blocks + 1) .. blocks' /\ blocks + 1 \notin PendingOf(f)
      /\ \A b \in (blocks + 1) .. blocks' : b \in PendingOf(f) \cup {cur', blocks + 1}
  BY <1>0, <1>1, <1>2, <1>8
<1>10. (brk' = brk \/ (f.kind \in {"for", "loop", "while"} /\ brk' = f.next)) /\ cont' = f.back
  BY <1>1, <1>6
<1> QED
  BY <1>1, <1>2, <1>5, <1>6, <1>7, <1>8, <1>9, <1>10, LoopOpens

LEMMA OpenWhileStep == IInv /\ OpenWhile => IInv'
<1> SUFFICES ASSUME IInv, OpenWhile PROVE IInv'
  OBVIOUS
<1> DEFINE f == Frame("while", blocks + 3, None, blocks + 1)
<1>0. /\ blocks \in Nat \ {0} /\ MaxBlocks \in Nat /\ None \notin Nat /\ cur \in Blocks
      /\ phis \subseteq Blocks \X Blocks /\ Flow!FlowTypeOK
  BY BlockFacts
<1>1. /\ Flow!OpenLoop("while") /\ frames' = Append(frames, f)
      /\ blocks + 3 <= MaxBlocks /\ blocks' = blocks + 3
      /\ code' = Branch(Headed(code, cur, blocks + 1, points'), blocks + 1, {blocks + 2, blocks + 3})
      /\ phis' = phis
      /\ brk' = blocks + 3 /\ cont' = blocks + 1 /\ cur' = blocks + 2
      /\ gotos' = gotos /\ crashed' = crashed
  BY DEF OpenWhile, Create, Headed
<1>2. /\ blocks + 1 \in Blocks /\ blocks + 2 \in Blocks /\ blocks + 3 \in Blocks
      /\ blocks' \in Blocks /\ blocks < blocks'
      /\ (blocks + 1) .. blocks' = {blocks + 1, blocks + 2, blocks + 3}
      /\ blocks + 1 > blocks /\ blocks + 2 > blocks
  BY <1>0, <1>1 DEF Blocks
<1>3. {blocks + 2, blocks + 3} \in SUBSET (0 .. MaxBlocks)
  BY <1>0, <1>2 DEF Blocks
<1>4. points' \in Nat
  BY <1>0, <1>1, KindFacts, EnterFacts DEF Flow!OpenLoop, Opened, Flow!FlowTypeOK
<1>5. LoopHead(blocks + 1)
  BY <1>0, <1>1, <1>2, <1>3, <1>4, LoopHeadBranch
<1>6. f \in Frames /\ f.kind = "while" /\ f.next = blocks + 3 /\ f.alt = None /\ f.back = blocks + 1
  <2>1. /\ "while" \in Flow!Kinds /\ blocks + 3 \in Blocks
        /\ None \in MaybeBlock /\ blocks + 1 \in MaybeBlock
    BY <1>2, KindFacts DEF MaybeBlock
  <2> QED
    BY <2>1, FrameFacts
<1>7. phis' \subseteq Blocks \X Blocks
  BY <1>0, <1>1, <1>2
<1> HIDE DEF f
<1>8. PendingOf(f) = {blocks + 3} /\ Shape(f)
  BY <1>0, <1>2, <1>6 DEF PendingOf, Shape, Loop
<1>9. /\ PendingOf(f) \subseteq (blocks + 1) .. blocks'
      /\ cur' \in (blocks + 1) .. blocks' /\ cur' \notin PendingOf(f)
      /\ blocks + 1 \in (blocks + 1) .. blocks' /\ blocks + 1 \notin PendingOf(f)
      /\ \A b \in (blocks + 1) .. blocks' : b \in PendingOf(f) \cup {cur', blocks + 1}
  BY <1>0, <1>1, <1>2, <1>8
<1>10. (brk' = brk \/ (f.kind \in {"for", "loop", "while"} /\ brk' = f.next)) /\ cont' = f.back
  BY <1>1, <1>6
<1> QED
  BY <1>1, <1>2, <1>5, <1>6, <1>7, <1>8, <1>9, <1>10, LoopOpens

LEMMA OpenDoStep == IInv /\ OpenDo => IInv'
<1> SUFFICES ASSUME IInv, OpenDo PROVE IInv'
  OBVIOUS
<1> DEFINE f == Frame("do", blocks + 3, blocks + 2, blocks + 1)
<1>0. /\ blocks \in Nat \ {0} /\ MaxBlocks \in Nat /\ None \notin Nat /\ cur \in Blocks
      /\ phis \subseteq Blocks \X Blocks /\ Flow!FlowTypeOK
  BY BlockFacts
<1>1. /\ Flow!OpenLoop("do") /\ frames' = Append(frames, f)
      /\ blocks + 3 <= MaxBlocks /\ blocks' = blocks + 3
      /\ code' = Headed(code, cur, blocks + 2, points')
      /\ phis' = phis
      /\ brk' = brk /\ cont' = blocks + 1 /\ cur' = blocks + 2
      /\ gotos' = gotos /\ crashed' = crashed
  BY DEF OpenDo, Create, Headed
<1>2. /\ blocks + 1 \in Blocks /\ blocks + 2 \in Blocks /\ blocks + 3 \in Blocks
      /\ blocks' \in Blocks /\ blocks < blocks'
      /\ (blocks + 1) .. blocks' = {blocks + 1, blocks + 2, blocks + 3}
      /\ blocks + 2 > blocks /\ blocks + 2 > blocks
  BY <1>0, <1>1 DEF Blocks
<1>4. points' \in Nat
  BY <1>0, <1>1, KindFacts, EnterFacts DEF Flow!OpenLoop, Opened, Flow!FlowTypeOK
<1>5. LoopHead(blocks + 2)
  BY <1>1, <1>2, <1>4, LoopHeadPlain
<1>6. f \in Frames /\ f.kind = "do" /\ f.next = blocks + 3 /\ f.alt = blocks + 2 /\ f.back = blocks + 1
  <2>1. /\ "do" \in Flow!Kinds /\ blocks + 3 \in Blocks
        /\ blocks + 2 \in MaybeBlock /\ blocks + 1 \in MaybeBlock
    BY <1>2, KindFacts DEF MaybeBlock
  <2> QED
    BY <2>1, FrameFacts
<1>7. phis' \subseteq Blocks \X Blocks
  BY <1>0, <1>1, <1>2
<1> HIDE DEF f
<1>8. PendingOf(f) = {blocks + 3, blocks + 1} /\ Shape(f)
  BY <1>0, <1>2, <1>6 DEF PendingOf, Shape, Loop
<1>9. /\ PendingOf(f) \subseteq (blocks + 1) .. blocks'
      /\ cur' \in (blocks + 1) .. blocks' /\ cur' \notin PendingOf(f)
      /\ blocks + 2 \in (blocks + 1) .. blocks' /\ blocks + 2 \notin PendingOf(f)
      /\ \A b \in (blocks + 1) .. blocks' : b \in PendingOf(f) \cup {cur', blocks + 2}
  BY <1>0, <1>1, <1>2, <1>8
<1>10. (brk' = brk \/ (f.kind \in {"for", "loop", "while"} /\ brk' = f.next)) /\ cont' = f.back
  BY <1>1, <1>6
<1> QED
  BY <1>1, <1>2, <1>5, <1>6, <1>7, <1>8, <1>9, <1>10, LoopOpens

------------------------------------------------------------------------------
\* A finished body branches on only when nothing has ended its last block.
LEMMA EndIfOpen ==
  ASSUME IInv, odd \subseteq odd', NEW t \in 0 .. MaxBlocks, NEW c, c = BranchIfOpen(code, cur, t)
  PROVE  /\ c \in [Blocks -> Contents]
         /\ \A b \in Blocks : b # cur => c[b] = code[b]
         /\ c[cur].ends # <<>>
         /\ Tidy' => Len(c[cur].ends) <= 1 /\ ~c[cur].late
<1>1. cur \in Blocks /\ code \in [Blocks -> Contents]
  BY BlockFacts
<1>2. /\ c \in [Blocks -> Contents]
      /\ \A b \in Blocks : b # cur => c[b] = code[b]
      /\ c[cur].ends # <<>> /\ c[cur].late = code[cur].late
      /\ Len(code[cur].ends) <= 1 => Len(c[cur].ends) <= 1
  BY <1>1, BranchIfOpenFacts
<1>3. Tidy' => Len(code[cur].ends) <= 1 /\ ~code[cur].late
  BY DEF IInv, JumpInv, OwnerInv, Fine, Tidy, Without
<1> QED
  BY <1>2, <1>3

LEMMA CloseIfStep == IInv /\ CloseIf => IInv'
<1> SUFFICES ASSUME IInv, CloseIf PROVE IInv'
  OBVIOUS
<1>1. Closed
  BY BlockFacts, CloseIfFacts DEF CloseIf
<1>2. /\ frames # <<>> /\ Top.kind \in {"if", "else"} /\ Top.alt = None
      /\ code' = BranchIfOpen(code, cur, Top.next) /\ cur' = Top.next /\ frames' = Pop
      /\ UNCHANGED <<blocks, phis, brk, cont, gotos, crashed>>
  BY DEF CloseIf, In
<1>3. Top \in Frames /\ PendingOf(Top) \subseteq Pending
  BY <1>2, TopFacts
<1>4. PendingOf(Top) = {Top.next}
  BY <1>2 DEF PendingOf
<1>5. /\ cur \notin Pending /\ cur \in Blocks /\ phis' \subseteq Blocks \X Blocks
      /\ Top.next \in 0 .. MaxBlocks /\ Top.next \in Blocks
  BY <1>2, <1>3, <1>4, BlockFacts DEF Blocks
<1>6. odd \subseteq odd'
  BY <1>1 DEF Closed
<1>7. /\ Wrote({cur}) /\ code'[cur].ends # <<>>
      /\ Tidy' => Len(code'[cur].ends) <= 1 /\ ~code'[cur].late
  <2> DEFINE c == BranchIfOpen(code, cur, Top.next)
  <2>1. /\ c \in [Blocks -> Contents]
        /\ \A b \in Blocks : b # cur => c[b] = code[b]
        /\ c[cur].ends # <<>>
        /\ Tidy' => Len(c[cur].ends) <= 1 /\ ~c[cur].late
    BY <1>5, <1>6, EndIfOpen
  <2> HIDE DEF c
  <2>2. code' = c
    BY <1>2 DEF c
  <2> QED
    BY <2>1, <2>2 DEF Wrote
<1>8. /\ Top.next \in PendingOf(Top) /\ Top.next \notin {cur} /\ cur \in {cur}
      /\ {cur} \subseteq {cur} \cup PendingOf(Top) /\ PendingOf(Top) \subseteq {cur} \cup {Top.next}
  BY <1>3, <1>4, <1>5
<1>9. Top.kind \notin Flow!Loops
  BY <1>2 DEF Flow!Loops
<1> QED
  BY <1>1, <1>2, <1>5, <1>7, <1>8, <1>9, CloseStep

LEMMA CloseLoopStep == IInv /\ CloseLoop => IInv'
<1> SUFFICES ASSUME IInv, CloseLoop PROVE IInv'
  OBVIOUS
<1>1. Closed
  BY BlockFacts, CloseLoopFacts DEF CloseLoop
<1>2. /\ frames # <<>> /\ Top.kind = "loop"
      /\ code' = BranchIfOpen(code, cur, Top.back) /\ cur' = Top.next /\ frames' = Pop
      /\ brk' = None /\ cont' = None
      /\ UNCHANGED <<blocks, phis, gotos, crashed>>
  BY DEF CloseLoop, In
<1>3. Top \in Frames /\ PendingOf(Top) \subseteq Pending /\ Top.back \in Blocks
  BY <1>2, TopFacts DEF Shape, Loop
<1>4. PendingOf(Top) = {Top.next}
  BY <1>2 DEF PendingOf
<1>5. /\ cur \notin Pending /\ cur \in Blocks /\ phis' \subseteq Blocks \X Blocks
      /\ Top.back \in 0 .. MaxBlocks
  BY <1>2, <1>3, BlockFacts DEF Blocks
<1>6. odd \subseteq odd'
  BY <1>1 DEF Closed
<1>7. /\ Wrote({cur}) /\ code'[cur].ends # <<>>
      /\ Tidy' => Len(code'[cur].ends) <= 1 /\ ~code'[cur].late
  <2> DEFINE c == BranchIfOpen(code, cur, Top.back)
  <2>1. /\ c \in [Blocks -> Contents]
        /\ \A b \in Blocks : b # cur => c[b] = code[b]
        /\ c[cur].ends # <<>>
        /\ Tidy' => Len(c[cur].ends) <= 1 /\ ~c[cur].late
    BY <1>5, <1>6, EndIfOpen
  <2> HIDE DEF c
  <2>2. code' = c
    BY <1>2 DEF c
  <2> QED
    BY <2>1, <2>2 DEF Wrote
<1>8. /\ Top.next \in PendingOf(Top) /\ Top.next \notin {cur} /\ cur \in {cur}
      /\ {cur} \subseteq {cur} \cup PendingOf(Top) /\ PendingOf(Top) \subseteq {cur} \cup {Top.next}
  BY <1>3, <1>4, <1>5
<1> QED
  BY <1>1, <1>2, <1>5, <1>7, <1>8, CloseStep

LEMMA CloseForStep == IInv /\ CloseFor => IInv'
<1> SUFFICES ASSUME IInv, CloseFor PROVE IInv'
  OBVIOUS
<1>1. Closed
  BY BlockFacts, CloseLoopFacts DEF CloseFor
<1>2. /\ frames # <<>> /\ Top.kind = "for"
      /\ code' = Branch(BranchIfOpen(code, cur, Top.back), Top.back, {Top.alt})
      /\ cur' = Top.next /\ frames' = Pop
      /\ phis' = phis \cup {<<Top.alt, Top.back>>}
      /\ brk' = None /\ cont' = None
      /\ UNCHANGED <<blocks, gotos, crashed>>
  BY DEF CloseFor, In
<1>3. /\ Top \in Frames /\ PendingOf(Top) \subseteq Pending
      /\ Top.back \in Blocks /\ Top.alt \in Blocks /\ Top.next # Top.back
  BY <1>2, TopFacts DEF Shape, Loop
<1>4. PendingOf(Top) = {Top.next, Top.back}
  BY <1>2 DEF PendingOf
<1>5. /\ cur \notin Pending /\ cur \in Blocks /\ phis' \subseteq Blocks \X Blocks
      /\ Top.back \in 0 .. MaxBlocks /\ {Top.alt} \in SUBSET (0 .. MaxBlocks)
      /\ code[Top.back] = Empty
  BY <1>2, <1>3, <1>4, BlockFacts DEF Blocks
<1>6. odd \subseteq odd'
  BY <1>1 DEF Closed
<1>7. /\ Wrote({cur, Top.back}) /\ code'[cur].ends # <<>> /\ code'[Top.back].ends # <<>>
      /\ Tidy' => Len(code'[cur].ends) <= 1 /\ ~code'[cur].late
      /\ Len(code'[Top.back].ends) <= 1 /\ ~code'[Top.back].late
  <2> DEFINE c == BranchIfOpen(code, cur, Top.back)
  <2>1. /\ c \in [Blocks -> Contents]
        /\ \A b \in Blocks : b # cur => c[b] = code[b]
        /\ c[cur].ends # <<>>
        /\ Tidy' => Len(c[cur].ends) <= 1 /\ ~c[cur].late
    BY <1>5, <1>6, EndIfOpen
  <2>2. code' = Branch(c, Top.back, {Top.alt})
    BY <1>2
  <2> HIDE DEF c
  <2> DEFINE d == Branch(c, Top.back, {Top.alt})
  <2>3. /\ d \in [Blocks -> Contents]
        /\ \A b \in Blocks : b # Top.back => d[b] = c[b]
        /\ d[Top.back].ends # <<>> /\ d[Top.back].late = c[Top.back].late
        /\ Len(d[Top.back].ends) = Len(c[Top.back].ends) + 1
    BY <1>3, <1>5, <2>1, BranchFacts
  <2>4. cur # Top.back
    BY <1>3, <1>4, <1>5
  <2>5. c[Top.back].ends = <<>> /\ ~c[Top.back].late /\ Len(c[Top.back].ends) = 0
    BY <1>3, <1>5, <2>1, <2>4, EmptyFacts
  <2>6. code' = d
    BY <2>2
  <2> HIDE DEF d
  <2>7. Len(d[Top.back].ends) <= 1
    BY <2>3, <2>5
  <2> QED
    BY <1>5, <2>1, <2>3, <2>4, <2>5, <2>6, <2>7 DEF Wrote
<1>8. /\ Top.next \in PendingOf(Top) /\ Top.next \notin {cur, Top.back} /\ cur \in {cur, Top.back}
      /\ {cur, Top.back} \subseteq {cur} \cup PendingOf(Top)
      /\ PendingOf(Top) \subseteq {cur, Top.back} \cup {Top.next}
  BY <1>3, <1>4, <1>5
<1>9. /\ Tidy' => \A b \in {cur, Top.back} : Len(code'[b].ends) <= 1 /\ ~code'[b].late
      /\ \A b \in {cur, Top.back} : code'[b].ends # <<>>
  BY <1>7
<1> QED
  BY <1>1, <1>2, <1>5, <1>7, <1>8, <1>9, CloseStep

\* A body that must not have ended its last block.
LEMMA EndAlways ==
  ASSUME IInv, Closed, jumped => "tail" \in odd', NEW t \in Blocks, NEW c, c = Branch(code, cur, {t})
  PROVE  /\ c \in [Blocks -> Contents]
         /\ \A b \in Blocks : b # cur => c[b] = code[b]
         /\ c[cur].ends # <<>>
         /\ Tidy' => Len(c[cur].ends) <= 1 /\ ~c[cur].late
<1>1. cur \in Blocks /\ code \in [Blocks -> Contents] /\ {t} \in SUBSET (0 .. MaxBlocks)
  BY BlockFacts DEF Blocks
<1>2. /\ c \in [Blocks -> Contents]
      /\ \A b \in Blocks : b # cur => c[b] = code[b]
      /\ c[cur].ends # <<>> /\ c[cur].late = code[cur].late
      /\ Len(c[cur].ends) = Len(code[cur].ends) + 1
  BY <1>1, BranchFacts
<1>3. Tidy' => code[cur].ends = <<>> /\ ~code[cur].late
  BY FreshFacts DEF Closed, Tidy, Without
<1>4. Tidy' => Len(c[cur].ends) <= 1 /\ ~c[cur].late
  <2> SUFFICES ASSUME Tidy' PROVE Len(c[cur].ends) <= 1 /\ ~c[cur].late
    OBVIOUS
  <2>1. Len(code[cur].ends) = 0
    BY <1>3
  <2>2. Len(c[cur].ends) <= 1
    <3>1. Len(c[cur].ends) = Len(code[cur].ends) + 1
      BY <1>2
    <3>2. Len(c[cur].ends) = 1
      BY <2>1, <3>1
    <3>3. \A n : n = 1 => n <= 1
      OBVIOUS
    <3> QED
      BY <3>2, <3>3, Zenon
  <2>3. ~c[cur].late
    BY <1>2, <1>3
  <2> QED
    BY <2>2, <2>3
<1> QED
  BY <1>2, <1>4

LEMMA CloseWhileStep == IInv /\ CloseWhile => IInv'
<1> SUFFICES ASSUME IInv, CloseWhile PROVE IInv'
  OBVIOUS
<1>1. Closed /\ (jumped => "tail" \in odd')
  BY BlockFacts, CloseLoopFacts DEF CloseWhile
<1>2. /\ frames # <<>> /\ Top.kind = "while"
      /\ code' = Branch(code, cur, {Top.back}) /\ cur' = Top.next /\ frames' = Pop
      /\ brk' = None /\ cont' = None
      /\ UNCHANGED <<blocks, phis, gotos, crashed>>
  BY DEF CloseWhile, In
<1>3. Top \in Frames /\ PendingOf(Top) \subseteq Pending /\ Top.back \in Blocks
  BY <1>2, TopFacts DEF Shape, Loop
<1>4. PendingOf(Top) = {Top.next}
  BY <1>2 DEF PendingOf
<1>5. /\ cur \notin Pending /\ cur \in Blocks /\ phis' \subseteq Blocks \X Blocks
  BY <1>2, <1>3, BlockFacts DEF Blocks
<1>7. /\ Wrote({cur}) /\ code'[cur].ends # <<>>
      /\ Tidy' => Len(code'[cur].ends) <= 1 /\ ~code'[cur].late
  <2> DEFINE c == Branch(code, cur, {Top.back})
  <2>1. /\ c \in [Blocks -> Contents]
        /\ \A b \in Blocks : b # cur => c[b] = code[b]
        /\ c[cur].ends # <<>>
        /\ Tidy' => Len(c[cur].ends) <= 1 /\ ~c[cur].late
    BY <1>1, <1>3, EndAlways
  <2> HIDE DEF c
  <2>2. code' = c
    BY <1>2 DEF c
  <2> QED
    BY <2>1, <2>2 DEF Wrote
<1>8. /\ Top.next \in PendingOf(Top) /\ Top.next \notin {cur} /\ cur \in {cur}
      /\ {cur} \subseteq {cur} \cup PendingOf(Top) /\ PendingOf(Top) \subseteq {cur} \cup {Top.next}
  BY <1>3, <1>4, <1>5
<1> QED
  BY <1>1, <1>2, <1>5, <1>7, <1>8, CloseStep

LEMMA CloseDoStep == IInv /\ CloseDo => IInv'
<1> SUFFICES ASSUME IInv, CloseDo PROVE IInv'
  OBVIOUS
<1>1. Closed /\ (jumped => "tail" \in odd') /\ points' \in Nat
  BY BlockFacts, CloseLoopFacts DEF CloseDo
<1>2. /\ frames # <<>> /\ Top.kind = "do"
      /\ code' = Branch(Evaluate(Branch(code, cur, {Top.back}), Top.back, points'),
                        Top.back, {Top.alt, Top.next})
      /\ cur' = Top.next /\ frames' = Pop
      /\ brk' = None /\ cont' = None
      /\ UNCHANGED <<blocks, phis, gotos, crashed>>
  BY DEF CloseDo, In
<1>3. /\ Top \in Frames /\ PendingOf(Top) \subseteq Pending
      /\ Top.back \in Blocks /\ Top.alt \in Blocks /\ Top.next # Top.back
  BY <1>2, TopFacts DEF Shape, Loop
<1>4. PendingOf(Top) = {Top.next, Top.back}
  BY <1>2 DEF PendingOf
<1>5. /\ cur \notin Pending /\ cur \in Blocks /\ phis' \subseteq Blocks \X Blocks
      /\ Top.next \in Blocks /\ {Top.alt, Top.next} \in SUBSET (0 .. MaxBlocks)
      /\ code[Top.back] = Empty
  BY <1>2, <1>3, <1>4, BlockFacts DEF Blocks
<1>7. /\ Wrote({cur, Top.back}) /\ code'[cur].ends # <<>> /\ code'[Top.back].ends # <<>>
      /\ Tidy' => Len(code'[cur].ends) <= 1 /\ ~code'[cur].late
      /\ Len(code'[Top.back].ends) <= 1 /\ ~code'[Top.back].late
  <2> DEFINE c == Branch(code, cur, {Top.back})
  <2>1. /\ c \in [Blocks -> Contents]
        /\ \A b \in Blocks : b # cur => c[b] = code[b]
        /\ c[cur].ends # <<>>
        /\ Tidy' => Len(c[cur].ends) <= 1 /\ ~c[cur].late
    BY <1>1, <1>3, EndAlways
  <2>2. code' = Branch(Evaluate(c, Top.back, points'), Top.back, {Top.alt, Top.next})
    BY <1>2
  <2> HIDE DEF c
  <2> DEFINE d == Branch(Evaluate(c, Top.back, points'), Top.back, {Top.alt, Top.next})
  <2>4. cur # Top.back
    BY <1>3, <1>4, <1>5
  <2>5. c[Top.back].ends = <<>> /\ ~c[Top.back].late /\ Len(c[Top.back].ends) = 0
    BY <1>3, <1>5, <2>1, <2>4, EmptyFacts
  <2>3. /\ d \in [Blocks -> Contents]
        /\ \A b \in Blocks : b # Top.back => d[b] = c[b]
        /\ d[Top.back].ends # <<>>
        /\ Len(d[Top.back].ends) = Len(c[Top.back].ends) + 1
        /\ c[Top.back].ends = <<>> /\ ~c[Top.back].late => ~d[Top.back].late
    BY <1>1, <1>3, <1>5, <2>1, EvalBranchFacts
  <2>6. code' = d
    BY <2>2
  <2> HIDE DEF d
  <2>7. Len(d[Top.back].ends) <= 1
    BY <2>3, <2>5
  <2> QED
    BY <1>5, <2>1, <2>3, <2>4, <2>5, <2>6, <2>7 DEF Wrote
<1>8. /\ Top.next \in PendingOf(Top) /\ Top.next \notin {cur, Top.back} /\ cur \in {cur, Top.back}
      /\ {cur, Top.back} \subseteq {cur} \cup PendingOf(Top)
      /\ PendingOf(Top) \subseteq {cur, Top.back} \cup {Top.next}
  BY <1>3, <1>4, <1>5
<1>9. /\ Tidy' => \A b \in {cur, Top.back} : Len(code'[b].ends) <= 1 /\ ~code'[b].late
      /\ \A b \in {cur, Top.back} : code'[b].ends # <<>>
  BY <1>7
<1> QED
  BY <1>1, <1>2, <1>5, <1>7, <1>8, <1>9, CloseStep

------------------------------------------------------------------------------
LEMMA ElifStep == IInv /\ (\E alt \in BOOLEAN : Elif(alt)) => IInv'
<1> SUFFICES ASSUME IInv, NEW alt \in BOOLEAN, Elif(alt) PROVE IInv'
  OBVIOUS
<1> DEFINE other == IF alt THEN blocks + 2 ELSE None
           f == Frame("if", Top.next, other, None)
           to == {blocks + 1, IF alt THEN other ELSE Top.next}
<1>0. /\ blocks \in Nat \ {0} /\ MaxBlocks \in Nat /\ None \notin Nat /\ cur \in Blocks
      /\ cur <= blocks /\ cur \notin Pending /\ cur \in Nat /\ Flow!FlowTypeOK
  BY BlockFacts
<1>1. Swapped("if") /\ points' \in Nat
  BY <1>0, ElifFacts DEF Elif
<1>2. /\ frames # <<>> /\ Top.kind = "if" /\ Top.alt # None
      /\ blocks + (IF alt THEN 2 ELSE 1) <= MaxBlocks /\ blocks' = blocks + (IF alt THEN 2 ELSE 1)
      /\ code' = Branch(Evaluate(BranchIfOpen(code, cur, Top.next), Top.alt, points'), Top.alt, to)
      /\ cur' = blocks + 1 /\ frames' = [frames EXCEPT ![Len(frames)] = f]
      /\ UNCHANGED <<phis, brk, cont, gotos, crashed>>
  BY DEF Elif, In, Create
<1>3. Top \in Frames /\ Shape(Top) /\ PendingOf(Top) \subseteq Pending
  BY <1>2, TopFacts
<1>4. PendingOf(Top) = {Top.next, Top.alt} /\ Top.next # Top.alt
  BY <1>2, <1>3 DEF PendingOf, Shape
<1>5. /\ Top.next \in Blocks /\ Top.alt \in Blocks /\ Top.next <= blocks /\ Top.alt <= blocks
      /\ Top.next \in Nat /\ Top.alt \in Nat /\ code[Top.alt] = Empty
      /\ cur # Top.next /\ cur # Top.alt
  BY <1>0, <1>3, <1>4, BlockFacts DEF Blocks
<1>6. /\ blocks' \in Blocks /\ blocks <= blocks' /\ blocks + 1 \in Blocks /\ blocks' \in Nat
      /\ blocks + 1 \in (blocks + 1) .. blocks' /\ blocks + 1 # Top.next /\ blocks + 1 # Top.alt
      /\ blocks + 1 # cur
  BY <1>0, <1>2, <1>5 DEF Blocks
<1>7. /\ other \in MaybeBlock /\ other # blocks + 1 /\ other # Top.next
      /\ other # None => other \in (blocks + 1) .. blocks'
      /\ \A b \in (blocks + 1) .. blocks' : b = blocks + 1 \/ b = other
      /\ to \in SUBSET (0 .. MaxBlocks)
  <2>0. \A b \in Blocks : b \in 0 .. MaxBlocks
    BY <1>0 DEF Blocks
  <2>1. CASE alt
    <3>1. other = blocks + 2 /\ blocks' = blocks + 2 /\ to = {blocks + 1, blocks + 2}
      BY <1>2, <2>1
    <3> HIDE DEF other, to
    <3>2. blocks + 2 # blocks + 1 /\ blocks + 2 # Top.next /\ blocks + 2 \in Blocks
      BY <1>0, <1>5, <1>6, <3>1 DEF Blocks
    <3>3. blocks + 2 \in (blocks + 1) .. blocks'
      BY <1>0, <1>6, <3>1
    <3>4. \A b \in (blocks + 1) .. blocks' : b = blocks + 1 \/ b = blocks + 2
      BY <1>0, <1>6, <3>1
    <3> QED
      BY <1>6, <2>0, <3>1, <3>2, <3>3, <3>4 DEF MaybeBlock
  <2>2. CASE ~alt
    <3>1. other = None /\ blocks' = blocks + 1 /\ to = {blocks + 1, Top.next}
      BY <1>2, <2>2
    <3> HIDE DEF other, to
    <3>2. \A b \in (blocks + 1) .. blocks' : b = blocks + 1
      BY <1>0, <3>1
    <3>3. None # blocks + 1 /\ None # Top.next
      BY <1>0, <1>5
    <3> QED
      BY <1>5, <1>6, <2>0, <3>1, <3>2, <3>3 DEF MaybeBlock
  <2> QED
    BY <2>1, <2>2
<1> HIDE DEF other, to
<1>8. f \in Frames /\ f.kind = "if" /\ f.next = Top.next /\ f.alt = other
  <2>1. "if" \in Flow!Kinds /\ Top.next \in Blocks /\ other \in MaybeBlock /\ None \in MaybeBlock
    BY <1>5, <1>7, KindFacts DEF MaybeBlock
  <2> QED
    BY <2>1, FrameFacts
<1> HIDE DEF f
<1>9. PendingOf(f) = {Top.next} \cup ({other} \ {None}) /\ Shape(f)
  BY <1>7, <1>8 DEF PendingOf, Shape, Loop
<1>10. odd \subseteq odd'
  BY <1>1 DEF Swapped
<1>11. /\ Wrote({cur, Top.alt}) /\ code'[cur].ends # <<>> /\ code'[Top.alt].ends # <<>>
       /\ Tidy' => Len(code'[cur].ends) <= 1 /\ ~code'[cur].late
       /\ Len(code'[Top.alt].ends) <= 1 /\ ~code'[Top.alt].late
  <2> DEFINE c == BranchIfOpen(code, cur, Top.next)
  <2>0. Top.next \in 0 .. MaxBlocks
    BY <1>0, <1>5 DEF Blocks
  <2>1. /\ c \in [Blocks -> Contents]
        /\ \A b \in Blocks : b # cur => c[b] = code[b]
        /\ c[cur].ends # <<>>
        /\ Tidy' => Len(c[cur].ends) <= 1 /\ ~c[cur].late
    BY <1>10, <2>0, EndIfOpen
  <2>2. code' = Branch(Evaluate(c, Top.alt, points'), Top.alt, to)
    BY <1>2
  <2> HIDE DEF c
  <2> DEFINE d == Branch(Evaluate(c, Top.alt, points'), Top.alt, to)
  <2>3. /\ d \in [Blocks -> Contents]
        /\ \A b \in Blocks : b # Top.alt => d[b] = c[b]
        /\ d[Top.alt].ends # <<>>
        /\ Len(d[Top.alt].ends) = Len(c[Top.alt].ends) + 1
        /\ c[Top.alt].ends = <<>> /\ ~c[Top.alt].late => ~d[Top.alt].late
    BY <1>1, <1>5, <1>7, <2>1, EvalBranchFacts
  <2>4. c[Top.alt].ends = <<>> /\ ~c[Top.alt].late /\ Len(c[Top.alt].ends) = 0
    BY <1>5, <2>1, EmptyFacts
  <2>5. code' = d
    BY <2>2
  <2> HIDE DEF d
  <2>6. Len(d[Top.alt].ends) <= 1
    BY <2>3, <2>4
  <2> QED
    BY <1>0, <1>5, <2>1, <2>3, <2>4, <2>5, <2>6 DEF Wrote
<1>12. /\ Tidy' => \A b \in {cur, Top.alt} : Len(code'[b].ends) <= 1 /\ ~code'[b].late
       /\ \A b \in {cur, Top.alt} : code'[b].ends # <<>>
  BY <1>11
<1>13. /\ PendingOf(f) \subseteq {Top.next} \cup (blocks + 1) .. blocks' /\ Top.next \in PendingOf(f)
       /\ cur' \in {Top.alt} \cup (blocks + 1) .. blocks' /\ cur' \notin PendingOf(f)
       /\ \A b \in (blocks + 1) .. blocks' : b \in PendingOf(f) \cup {cur'}
       /\ cur' \notin {cur, Top.alt} /\ cur \in {cur, Top.alt} /\ Top.alt \in {cur, Top.alt} \cup {cur'}
  BY <1>0, <1>2, <1>6, <1>7, <1>9
<1>14. Swapped(f.kind) /\ f.kind \in {"if", "else"}
  BY <1>1, <1>8
<1> QED
  BY <1>2, <1>6, <1>8, <1>9, <1>11, <1>12, <1>13, <1>14, SwapStep

LEMMA ElseStep == IInv /\ Else => IInv'
<1> SUFFICES ASSUME IInv, Else PROVE IInv'
  OBVIOUS
<1> DEFINE f == Frame("else", Top.next, None, None)
<1>0. /\ blocks \in Blocks /\ blocks \in Nat /\ cur \in Blocks /\ cur \notin Pending /\ Flow!FlowTypeOK
  BY BlockFacts DEF Blocks
<1>1. Swapped("else")
  BY <1>0, ElseFacts DEF Else
<1>2. /\ frames # <<>> /\ Top.kind = "if" /\ Top.alt # None /\ blocks' = blocks
      /\ code' = BranchIfOpen(code, cur, Top.next)
      /\ cur' = Top.alt /\ frames' = [frames EXCEPT ![Len(frames)] = f]
      /\ UNCHANGED <<phis, brk, cont, gotos, crashed>>
  BY DEF Else, In
<1>3. Top \in Frames /\ Shape(Top) /\ PendingOf(Top) \subseteq Pending
  BY <1>2, TopFacts
<1>4. PendingOf(Top) = {Top.next, Top.alt} /\ Top.next # Top.alt
  BY <1>2, <1>3 DEF PendingOf, Shape
<1>5. Top.next \in Blocks /\ Top.next \in 0 .. MaxBlocks /\ cur # Top.alt
  BY <1>0, <1>3, <1>4, BlockFacts DEF Blocks
<1>6. f \in Frames /\ f.kind = "else" /\ f.next = Top.next
  <2>1. "else" \in Flow!Kinds /\ None \in MaybeBlock
    BY KindFacts DEF MaybeBlock
  <2> QED
    BY <1>5, <2>1, FrameFacts
<1> HIDE DEF f
<1>7. PendingOf(f) = {Top.next} /\ Shape(f)
  BY <1>6 DEF PendingOf, Shape, Loop
<1>8. odd \subseteq odd'
  BY <1>1 DEF Swapped
<1>9. /\ Wrote({cur}) /\ code'[cur].ends # <<>>
      /\ Tidy' => Len(code'[cur].ends) <= 1 /\ ~code'[cur].late
  <2> DEFINE c == BranchIfOpen(code, cur, Top.next)
  <2>1. /\ c \in [Blocks -> Contents]
        /\ \A b \in Blocks : b # cur => c[b] = code[b]
        /\ c[cur].ends # <<>>
        /\ Tidy' => Len(c[cur].ends) <= 1 /\ ~c[cur].late
    BY <1>5, <1>8, EndIfOpen
  <2> HIDE DEF c
  <2>2. code' = c
    BY <1>2 DEF c
  <2> QED
    BY <2>1, <2>2 DEF Wrote
<1>10. (blocks + 1) .. blocks' = {} /\ blocks <= blocks' /\ blocks' \in Blocks
  BY <1>0, <1>2
<1>11. /\ PendingOf(f) \subseteq {Top.next} \cup (blocks + 1) .. blocks' /\ Top.next \in PendingOf(f)
       /\ cur' \in {Top.alt} \cup (blocks + 1) .. blocks' /\ cur' \notin PendingOf(f)
       /\ \A b \in (blocks + 1) .. blocks' : b \in PendingOf(f) \cup {cur'}
       /\ cur' \notin {cur} /\ cur \in {cur} /\ Top.alt \in {cur} \cup {cur'} /\ {cur} \subseteq {cur, Top.alt}
  BY <1>2, <1>4, <1>5, <1>7, <1>10
<1>12. Swapped(f.kind) /\ f.kind \in {"if", "else"}
  BY <1>1, <1>6
<1>13. /\ Tidy' => \A b \in {cur} : Len(code'[b].ends) <= 1 /\ ~code'[b].late
       /\ \A b \in {cur} : code'[b].ends # <<>>
  BY <1>9
<1> QED
  BY <1>2, <1>6, <1>7, <1>9, <1>10, <1>11, <1>12, <1>13, SwapStep

LEMMA LabelStep ==
  ASSUME IInv, NEW l \in Labels, NEW jump \in BOOLEAN, Label(l, jump)
  PROVE  IInv'
<1> DEFINE g == Frame("label", blocks + 1, None, None)
           f == [g EXCEPT !.label = l, !.jump = jump]
<1>0. /\ blocks \in Nat \ {0} /\ MaxBlocks \in Nat /\ code \in [Blocks -> Contents]
      /\ phis \subseteq Blocks \X Blocks /\ Flow!FlowTypeOK
  BY BlockFacts
<1>1. Opened("label") /\ "goto" \in odd'
  BY <1>0, OpenLabelFacts DEF Label
<1>2. /\ blocks + 1 <= MaxBlocks /\ blocks' = blocks + 1 /\ cur' = blocks + 1
      /\ frames' = Append(frames, f)
      /\ UNCHANGED <<code, phis, brk, cont, gotos, crashed>>
  BY DEF Label, Create
<1>3. /\ blocks + 1 \in Blocks /\ blocks' \in Blocks /\ blocks < blocks'
      /\ cur' \in (blocks + 1) .. blocks'
  BY <1>0, <1>2 DEF Blocks
<1>4. f \in Frames /\ f.kind = "label" /\ f.label = l
  <2>1. "label" \in Flow!Kinds /\ None \in MaybeBlock
    BY KindFacts DEF MaybeBlock
  <2>2. g \in Frames /\ g.kind = "label"
    BY <1>3, <2>1, FrameFacts
  <2> HIDE DEF g
  <2> QED
    BY <2>2 DEF Frames
<1> HIDE DEF f
<1>5. PendingOf(f) = {} /\ Shape(f)
  BY <1>4 DEF PendingOf, Shape, Loop
<1>6. ~Tidy'
  BY <1>1 DEF Tidy, Without
<1>7. Wrote({})
  BY <1>0, <1>2 DEF Wrote
<1>8. /\ PendingOf(f) \subseteq (blocks + 1) .. blocks' /\ cur' \notin PendingOf(f)
      /\ {} \subseteq {cur} \cup (blocks + 1) .. blocks' /\ {} \cap PendingOf(f) = {}
      /\ phis' \subseteq Blocks \X Blocks /\ brk' = brk /\ cont' = cont
  BY <1>0, <1>2, <1>5
<1>9. Opened(f.kind)
  BY <1>1, <1>4
<1> QED
  BY <1>1, <1>2, <1>3, <1>4, <1>5, <1>6, <1>7, <1>8, <1>9, OpenStep

LEMMA CloseLabelStep == IInv /\ CloseLabel => IInv'
<1> SUFFICES ASSUME IInv, CloseLabel PROVE IInv'
  OBVIOUS
<1> DEFINE dead == blocks + 1
           c == BranchIfOpen(code, cur, dead)
           last == IF Terminated(cur) THEN cur ELSE dead
           k == IF Terminated(cur) THEN 0 ELSE 1
<1>0. /\ blocks \in Nat \ {0} /\ MaxBlocks \in Nat /\ blocks <= MaxBlocks /\ code \in [Blocks -> Contents]
      /\ cur \in Blocks /\ cur <= blocks /\ cur \in Nat /\ cur \notin Pending /\ Flow!FlowTypeOK
      /\ \A b \in Pending : b \in Blocks /\ b <= blocks
  BY BlockFacts
<1>1. Closed
  BY <1>0, CloseLabelFacts DEF CloseLabel
<1>2. /\ frames # <<>> /\ Top.kind = "label" /\ frames' = Pop
      /\ blocks + k <= MaxBlocks /\ blocks' = blocks + k /\ cur' = last
      /\ code' = IF Top.jump THEN Branch(c, last, {Top.next}) ELSE c
      /\ gotos' = [gotos EXCEPT ![Top.label] = Top.next]
      /\ UNCHANGED <<phis, brk, cont, crashed>>
  BY DEF CloseLabel, In, Create
<1>3. Top \in Frames /\ Top.label \in Labels /\ Top.next \in Blocks
  BY <1>2, TopFacts DEF Shape, Frames
<1>4. PendingOf(Top) = {} /\ Top.kind \notin Flow!Loops
  BY <1>2 DEF PendingOf, Flow!Loops
<1>5. "goto" \in odd' /\ ~Tidy'
  <2>1. "goto" \in odd
    BY <1>2, TopFacts DEF IInv, StackInv
  <2> QED
    BY <1>1, <2>1 DEF Closed, Tidy, Without
<1>6. /\ frames' \in Seq(Frames) /\ Apart(frames') /\ Pending' = Pending
      /\ brk' \in MaybeBlock /\ cont' \in MaybeBlock
      /\ StackInv' /\ TargetsOpen'
  BY <1>1, <1>2, <1>4, PopStep
<1>7. /\ blocks' \in Blocks /\ blocks' \in Nat /\ blocks <= blocks'
      /\ last \in Blocks /\ last \in 1 .. blocks' /\ last \notin Pending
      /\ last = cur \/ last > blocks
  <2>1. CASE Terminated(cur)
    BY <1>0, <1>2, <2>1 DEF Blocks
  <2>2. CASE ~Terminated(cur)
    <3>1. last = blocks + 1 /\ blocks' = blocks + 1 /\ blocks + 1 <= MaxBlocks
      BY <1>2, <2>2
    <3> HIDE DEF last
    <3>2. \A b \in Pending : b # blocks + 1
      BY <1>0
    <3> QED
      BY <1>0, <3>1, <3>2 DEF Blocks
  <2> QED
    BY <2>1, <2>2
<1>8. c \in [Blocks -> Contents] /\ \A b \in Blocks : b # cur => c[b] = code[b]
  <2>1. CASE Terminated(cur)
    BY <1>0, <2>1 DEF BranchIfOpen, Terminated
  <2>2. CASE ~Terminated(cur)
    <3>1. dead \in 0 .. MaxBlocks
      BY <1>0, <1>2, <2>2
    <3> HIDE DEF dead
    <3> QED
      BY <1>0, <3>1, BranchIfOpenFacts
  <2> QED
    BY <2>1, <2>2
<1> HIDE DEF c, last, dead, k
<1>9. Wrote({cur, last})
  <2>1. CASE Top.jump
    <3> DEFINE d == Branch(c, last, {Top.next})
    <3>1. {Top.next} \in SUBSET (0 .. MaxBlocks)
      BY <1>0, <1>3 DEF Blocks
    <3>2. d \in [Blocks -> Contents] /\ \A b \in Blocks : b # last => d[b] = c[b]
      BY <1>7, <1>8, <3>1, BranchFacts
    <3>3. code' = d
      BY <1>2, <2>1
    <3> HIDE DEF d
    <3> QED
      BY <1>8, <3>2, <3>3 DEF Wrote
  <2>2. CASE ~Top.jump
    BY <1>2, <1>8, <2>2 DEF Wrote
  <2> QED
    BY <2>1, <2>2
<1>10. TypeOK'
  <2>1. gotos' \in [Labels -> MaybeBlock]
    BY <1>2, <1>3 DEF IInv, TypeOK, MaybeBlock
  <2> QED
    BY <1>1, <1>2, <1>6, <1>7, <1>9, <2>1 DEF IInv, TypeOK, Closed, Wrote
<1>11. {cur, last} \subseteq 1 .. blocks' /\ odd \subseteq odd'
  BY <1>0, <1>1, <1>7 DEF Closed, Blocks
<1>12. OwnerInv'
  <2>1. TypeOK /\ OwnerInv
    BY DEF IInv
  <2>2. Pending' \subseteq 1 .. blocks' /\ {cur, last} \cap Pending' = {}
    BY <1>0, <1>6, <1>7 DEF Blocks
  <2>3. cur' \in 1 .. blocks' /\ cur' \notin Pending' /\ \A b \in Pending' : b \in Pending
    BY <1>2, <1>6, <1>7
  <2> QED
    BY <1>5, <1>6, <1>7, <1>9, <1>11, <2>1, <2>2, <2>3, OwnerStep
<1>13. JumpInv'
  BY <1>5 DEF JumpInv
<1>14. EndInv'
  BY <1>1 DEF EndInv, Closed
<1> QED
  BY <1>6, <1>10, <1>12, <1>13, <1>14 DEF IInv

LEMMA EndStep == IInv /\ End => IInv'
<1> SUFFICES ASSUME IInv, End PROVE IInv'
  OBVIOUS
<1>1. /\ Flow!FlowTypeOK' /\ ~ended /\ ended' /\ open' = open /\ odd' = odd /\ jumped' = jumped
  BY BlockFacts, EndFacts DEF End
<1>2. /\ frames = <<>> /\ code' = BranchIfOpen(code, cur, 0) /\ crashed' = crashed
      /\ UNCHANGED <<blocks, phis, cur, brk, cont, frames, gotos>>
  BY DEF End, builder
<1>3. /\ Wrote({cur}) /\ code'[cur].ends # <<>>
      /\ Tidy' => Len(code'[cur].ends) <= 1 /\ ~code'[cur].late
  <2> DEFINE c == BranchIfOpen(code, cur, 0)
  <2>1. 0 \in 0 .. MaxBlocks /\ odd \subseteq odd'
    BY <1>1, BlockFacts
  <2>2. /\ c \in [Blocks -> Contents]
        /\ \A b \in Blocks : b # cur => c[b] = code[b]
        /\ c[cur].ends # <<>>
        /\ Tidy' => Len(c[cur].ends) <= 1 /\ ~c[cur].late
    BY <2>1, EndIfOpen
  <2> HIDE DEF c
  <2>3. code' = c
    BY <1>2 DEF c
  <2> QED
    BY <2>2, <2>3 DEF Wrote
<1>4. TypeOK'
  BY <1>1, <1>2, <1>3 DEF IInv, TypeOK, Wrote
<1>5. StackInv'
  BY <1>1, <1>2 DEF IInv, StackInv
<1>6. TargetsOpen'
  BY <1>2 DEF IInv, TargetsOpen
<1>0. TypeOK /\ OwnerInv /\ JumpInv /\ blocks \in Nat /\ blocks \in Blocks
  BY BlockFacts DEF IInv, TypeOK
<1>7. /\ Pending' = Pending /\ cur \notin Pending /\ cur \in 1 .. blocks /\ Pending \subseteq 1 .. blocks
      /\ Apart(frames') /\ odd \subseteq odd'
  BY <1>1, <1>2, BlockFacts DEF Pending, IInv, OwnerInv
<1>8. OwnerInv'
  <2>1. /\ {cur} \cap Pending' = {} /\ {cur} \subseteq 1 .. blocks' /\ blocks <= blocks'
        /\ Pending' \subseteq 1 .. blocks' /\ cur' \in 1 .. blocks' /\ cur' \notin Pending'
        /\ \A b \in Pending' : b \in Pending
        /\ \A b \in {cur} : b = cur'
        /\ \A b \in 1 .. blocks' : b \in Pending \cup {cur} \/ b > blocks
                                     => b \in Pending' \cup {cur'} \cup {cur}
    BY <1>0, <1>2, <1>7
  <2>2. blocks' \in Blocks
    BY <1>0, <1>2
  <2> QED
    BY <1>0, <1>3, <1>7, <2>1, <2>2, OwnerStep
<1>9. JumpInv'
  <2>1. blocks' \in Blocks /\ {cur} \subseteq 1 .. blocks'
    BY <1>0, <1>2, <1>7
  <2>2. Tidy' => \A b \in {cur} : Len(code'[b].ends) <= 1 /\ ~code'[b].late
    BY <1>3
  <2> QED
    BY <1>0, <1>1, <1>3, <1>7, <2>1, <2>2, JumpStep
<1>10. EndInv'
  BY <1>2, <1>3 DEF EndInv, Terminated
<1> QED
  BY <1>4, <1>5, <1>6, <1>8, <1>9, <1>10 DEF IInv

LEMMA StutterStep == IInv /\ UNCHANGED vars => IInv'
<1> SUFFICES ASSUME IInv, UNCHANGED vars PROVE IInv'
  OBVIOUS
<1>1. /\ UNCHANGED <<size, points, follow, live, open, jumped, odd, ended>>
      /\ UNCHANGED <<blocks, code, phis, cur, brk, cont, frames, gotos, crashed>>
  BY DEF vars, program, ir, builder
<1>2. TypeOK'
  BY <1>1 DEF IInv, TypeOK, Flow!FlowTypeOK
<1>3. StackInv' /\ EndInv'
  BY <1>1 DEF IInv, StackInv, EndInv, Terminated
<1>4. OwnerInv'
  BY <1>1 DEF IInv, OwnerInv, Pending, PendingUntouched, BlocksEnded, Terminated
<1>5. JumpInv' /\ TargetsOpen'
  BY <1>1 DEF IInv, JumpInv, TargetsOpen, Tidy, Without, Fine, Terminated
<1> QED
  BY <1>2, <1>3, <1>4, <1>5 DEF IInv

LEMMA NextStep == IInv /\ [Next]_vars => IInv'
<1> SUFFICES ASSUME IInv, [Next]_vars PROVE IInv'
  OBVIOUS
<1>1. CASE If
  BY <1>1, CloseIfStep, ElseStep, OpenIfStep, ElifStep DEF If
<1>2. CASE Open
  BY <1>2, OpenForStep, OpenLoopStep, OpenWhileStep, OpenDoStep DEF Open
<1>3. CASE Close
  BY <1>3, CloseForStep, CloseLoopStep, CloseWhileStep, CloseDoStep DEF Close
<1>4. CASE Goto
  BY <1>4, CloseLabelStep, LabelStep, GoToKnownStep, GoToOpenStep DEF Goto, OpenLabel, GoToNew
<1>5. CASE Plain \/ Return \/ Break \/ Continue \/ End
  BY <1>5, PlainStep, ReturnStep, BreakStep, ContinueStep, EndStep
<1>6. CASE Stopped \/ UNCHANGED vars
  BY <1>6, StutterStep DEF Stopped
<1> QED
  BY <1>1, <1>2, <1>3, <1>4, <1>5, <1>6 DEF Next

LEMMA InitStep == Init => IInv
<1> SUFFICES ASSUME Init PROVE IInv
  OBVIOUS
<1>1. /\ size = 0 /\ points = 1 /\ follow = {} /\ live = {1} /\ open = <<>>
      /\ jumped = FALSE /\ odd = {} /\ ended = FALSE
      /\ blocks = 1 /\ phis = {} /\ cur = 1 /\ brk = None /\ cont = None /\ frames = <<>>
      /\ gotos = [l \in Labels |-> None] /\ crashed = FALSE
      /\ code = [b \in Blocks |-> IF b = 1 THEN Entry ELSE Empty]
  BY DEF Init, Flow!Init
<1>2. 1 \in Blocks /\ MaxBlocks \in Nat \ {0}
  BY FlowAssumption DEF Blocks
<1>3. Entry \in Contents /\ Entry.ends = <<>> /\ ~Entry.late /\ Len(Entry.ends) = 0
  <2>1. <<1>> \in Seq(Nat) /\ <<>> \in Seq(SUBSET (0 .. MaxBlocks))
    OBVIOUS
  <2> QED
    BY <2>1 DEF Contents, Entry
<1>4. /\ code \in [Blocks -> Contents] /\ code[1] = Entry
      /\ \A b \in Blocks : b # 1 => code[b] = Empty
  BY <1>1, <1>2, <1>3, EmptyFacts
<1>5. \A b \in Blocks : b # 1 => code[b] = Empty
  BY <1>4
<1>6. code[1].ends = <<>> /\ ~code[1].late /\ Len(code[1].ends) = 0
  BY <1>3, <1>4
<1>7. TypeOK
  <2>1. Rest
    <3>1. size \in Nat /\ points \in Nat \ {0}
      BY <1>1
    <3>2. jumped \in BOOLEAN /\ ended \in BOOLEAN /\ odd \subseteq Flow!Oddities
      BY <1>1, Zenon
    <3> QED
      BY <3>1, <3>2 DEF Rest
  <2>2. Walk
    <3>1. open \in Seq(FlowFrames)
      BY <1>1
    <3> QED
      BY <1>1, <3>1 DEF Walk
  <2>3. Flow!FlowTypeOK
    BY <2>1, <2>2, FlowTypeSplit
  <2>4. frames \in Seq(Frames)
    BY <1>1
  <2>5. brk \in MaybeBlock /\ cont \in MaybeBlock /\ gotos \in [Labels -> MaybeBlock]
    BY <1>1 DEF MaybeBlock
  <2>6. blocks \in Blocks /\ cur \in Blocks /\ phis \subseteq Blocks \X Blocks /\ crashed \in BOOLEAN
    BY <1>1, <1>2
  <2> QED
    BY <1>4, <2>3, <2>4, <2>5, <2>6 DEF TypeOK
<1>8. StackInv /\ TargetsOpen /\ EndInv
  BY <1>1 DEF StackInv, TargetsOpen, EndInv
<1>9. Pending = {} /\ Apart(frames)
  BY <1>1 DEF Pending, PendingIn, Apart
<1>10. OwnerInv
  <2>1. \A b \in Blocks : b > blocks => code[b] = Empty
    BY <1>1, <1>5
  <2>2. PendingUntouched /\ BlocksEnded
    BY <1>1, <1>9 DEF PendingUntouched, BlocksEnded
  <2>3. cur \in 1 .. blocks /\ Pending \subseteq 1 .. blocks
    BY <1>1, <1>9
  <2> QED
    BY <1>9, <2>1, <2>2, <2>3 DEF OwnerInv
<1>11. JumpInv
  <2>1. \A b \in 1 .. blocks : b = 1
    BY <1>1
  <2> QED
    BY <1>1, <1>6, <2>1 DEF JumpInv, Fine, Terminated
<1> QED
  BY <1>7, <1>8, <1>10, <1>11 DEF IInv

------------------------------------------------------------------------------
(* The inductive invariant holds for functions of any size.                *)
THEOREM Invariant == Spec => []IInv
<1>1. Init => IInv
  BY InitStep
<1>2. IInv /\ [Next]_vars => IInv'
  BY NextStep
<1> QED
  BY <1>1, <1>2, PTL DEF Spec

(* Every variable of the generator keeps its type.                         *)
THEOREM TypeCorrect == Spec => []TypeOK
<1>1. IInv => TypeOK
  BY DEF IInv
<1> QED
  BY <1>1, Invariant, PTL

(* Every block the generator has left is terminated or still to be entered  *)
(* by a statement under way (codegen_Statement_If, _For, _While, _Loop).   *)
THEOREM EveryBlockEnds == Spec => []BlocksEnded
<1>1. IInv => BlocksEnded
  BY DEF IInv, OwnerInv
<1> QED
  BY <1>1, Invariant, PTL

(* No two statements share a merge block, a latch or an exit, and none is   *)
(* written into before it is entered.                                      *)
THEOREM PendingBlocksAreFresh == Spec => []PendingUntouched
<1>1. IInv => PendingUntouched
  BY DEF IInv, OwnerInv
<1> QED
  BY <1>1, Invariant, PTL

(* The targets of break and continue are never blocks of a finished loop.   *)
THEOREM TargetsAreOpen == Spec => []TargetsOpen
<1>1. IInv => TargetsOpen
  BY DEF IInv
<1> QED
  BY <1>1, Invariant, PTL

(* A finished function without labels, dead statements and jumps at the end *)
(* of a while body has exactly one terminator in every block.              *)
THEOREM FunctionsAreWellFormed == Spec => []WellFormed
<1>1. IInv => WellFormed
  <2> SUFFICES ASSUME IInv, Finished, Tidy, NEW b \in 1 .. blocks
               PROVE  Len(code[b].ends) = 1 /\ ~code[b].late
    BY DEF WellFormed, Tidy
  <2>1. frames = <<>> /\ Terminated(cur)
    BY DEF IInv, EndInv, Finished
  <2>2. Pending = {}
    BY <2>1 DEF Pending, PendingIn
  <2>3. "goto" \notin odd
    BY DEF Tidy, Without
  <2>4. code[b].ends # <<>>
    BY <2>1, <2>2, <2>3 DEF IInv, OwnerInv, BlocksEnded, Terminated
  <2>5. Len(code[b].ends) <= 1 /\ ~code[b].late
    BY DEF IInv, JumpInv, Fine
  <2>6. code[b].ends \in Seq(SUBSET (0 .. MaxBlocks))
    <3>1. b \in Blocks
      BY BlockFacts DEF Blocks
    <3> QED
      BY <3>1, BlockFacts DEF Contents
  <2>7. Len(code[b].ends) \in Nat /\ Len(code[b].ends) # 0
    BY <2>4, <2>6, EmptySeq
  <2>8. Len(code[b].ends) <= 1
    BY <2>5
  <2>n. \A n \in Nat : n # 0 /\ n <= 1 => n = 1
    OBVIOUS
  <2>9. Len(code[b].ends) = 1
    BY <2>7, <2>8, <2>n, Zenon
  <2> QED
    BY <2>5, <2>9
<1> QED
  BY <1>1, Invariant, PTL

------------------------------------------------------------------------------
(***************************************************************************)
(* Phi nodes.  The header of a for is branched to when it is opened and    *)
(* when it is closed, and each time the phi node gets its value; no other  *)
(* branch goes there, because the other blocks a statement under way may   *)
(* branch to are no headers.                                               *)
(***************************************************************************)

Preds(c, h) == {b \in Blocks : \E i \in DOMAIN c[b].ends : h \in c[b].ends[i]}
Incoming(h) == {p[2] : p \in {q \in phis : q[1] = h}}
Headers == {p[1] : p \in phis}

\* The blocks a statement may still branch to, and the header of a for.
Ways(f) == IF f.kind = "for" THEN {f.next, f.back} ELSE {f.next, f.alt, f.back}
Apt(f, headers, n) ==
  /\ {f.next, f.alt, f.back} \subseteq (1 .. n) \cup {None}
  /\ Ways(f) \cap headers = {}
  /\ f.kind = "for" => f.alt \in headers

PhiInv ==
  "goto" \notin odd =>
    /\ \A h \in Headers : h \in 1 .. blocks /\ Incoming(h) = Preds(code, h)
    /\ \A h \in Blocks : h > blocks => Preds(code, h) = {}
    /\ \A i \in 1 .. Len(frames) : Apt(frames[i], Headers, blocks)

\* From c to d only blocks of T get a new branch.
Touches(c, d, T) == \A h \in Blocks \ T : Preds(d, h) = Preds(c, h)

LEMMA PredsBranch ==
  ASSUME NEW c \in [Blocks -> Contents], NEW b \in Blocks, NEW t \in SUBSET (0 .. MaxBlocks), NEW h
  PROVE  Preds(Branch(c, b, t), h) = Preds(c, h) \cup (IF h \in t THEN {b} ELSE {})
<1>1. c[b].ends \in Seq(SUBSET (0 .. MaxBlocks))
  BY DEF Contents
<1>2. /\ Branch(c, b, t)[b].ends = Append(c[b].ends, t)
      /\ \A d \in Blocks : d # b => Branch(c, b, t)[d] = c[d]
  <2>1. Branch(c, b, t)[b] = [c[b] EXCEPT !.ends = Append(@, t)]
    BY DEF Branch
  <2>2. Branch(c, b, t)[b].ends = Append(c[b].ends, t)
    BY <2>1 DEF Contents
  <2>3. \A d \in Blocks : d # b => Branch(c, b, t)[d] = c[d]
    BY BranchFacts
  <2> QED
    BY <2>2, <2>3
<1>3. \A s \in Seq(SUBSET (0 .. MaxBlocks)) :
        (\E i \in DOMAIN Append(s, t) : h \in Append(s, t)[i]) <=> h \in t \/ \E i \in DOMAIN s : h \in s[i]
  <2> SUFFICES ASSUME NEW s \in Seq(SUBSET (0 .. MaxBlocks))
               PROVE (\E i \in DOMAIN Append(s, t) : h \in Append(s, t)[i])
                       <=> h \in t \/ \E i \in DOMAIN s : h \in s[i]
    OBVIOUS
  <2>1. /\ Len(s) \in Nat /\ DOMAIN s = 1 .. Len(s) /\ DOMAIN Append(s, t) = 1 .. Len(s) + 1
        /\ Append(s, t)[Len(s) + 1] = t /\ \A i \in 1 .. Len(s) : Append(s, t)[i] = s[i]
    OBVIOUS
  <2>2. \A i : i \in 1 .. Len(s) + 1 <=> i \in 1 .. Len(s) \/ i = Len(s) + 1
    BY <2>1
  <2> QED
    BY <2>1, <2>2
<1>4. \A d \in Blocks : d \in Preds(Branch(c, b, t), h) <=> d \in Preds(c, h) \/ (d = b /\ h \in t)
  <2> SUFFICES ASSUME NEW d \in Blocks
               PROVE  d \in Preds(Branch(c, b, t), h) <=> d \in Preds(c, h) \/ (d = b /\ h \in t)
    OBVIOUS
  <2>1. CASE d = b
    BY <1>1, <1>2, <1>3, <2>1 DEF Preds
  <2>2. CASE d # b
    BY <1>2, <2>2 DEF Preds
  <2> QED
    BY <2>1, <2>2
<1> QED
  BY <1>4 DEF Preds

LEMMA TouchBranch ==
  ASSUME NEW c \in [Blocks -> Contents], NEW b \in Blocks, NEW t \in SUBSET (0 .. MaxBlocks)
  PROVE  Touches(c, Branch(c, b, t), t)
<1>1. \A h : Preds(Branch(c, b, t), h) = Preds(c, h) \cup (IF h \in t THEN {b} ELSE {})
  BY PredsBranch
<1> QED
  BY <1>1 DEF Touches

LEMMA TouchBranchIfOpen ==
  ASSUME NEW c \in [Blocks -> Contents], NEW b \in Blocks, NEW t \in 0 .. MaxBlocks
  PROVE  Touches(c, BranchIfOpen(c, b, t), {t})
<1>1. {t} \in SUBSET (0 .. MaxBlocks)
  OBVIOUS
<1>2. Touches(c, Branch(c, b, {t}), {t}) /\ Touches(c, c, {t})
  BY <1>1, TouchBranch DEF Touches
<1> QED
  BY <1>2 DEF BranchIfOpen

LEMMA TouchEvaluate ==
  ASSUME NEW c \in [Blocks -> Contents], NEW b \in Blocks, NEW p \in Nat
  PROVE  \A h : Preds(Evaluate(c, b, p), h) = Preds(c, h)
<1>1. \A d \in Blocks : Evaluate(c, b, p)[d].ends = c[d].ends
  BY EvaluateFacts
<1> QED
  BY <1>1 DEF Preds

\* The odd things a function does stay.
LEMMA OddStays == [Next]_vars => odd \subseteq odd'
<1> SUFFICES ASSUME [Next]_vars PROVE odd \subseteq odd'
  OBVIOUS
<1>1. \A notes : Flow!Statement(notes) \/ Flow!Closing(notes) => odd \subseteq odd'
  BY DEF Flow!Statement, Flow!Closing
<1>2. CASE Plain \/ Return \/ Break \/ Continue
  BY <1>1, <1>2
     DEF Plain, Return, Break, Continue, Flow!Plain, Flow!Return, Flow!Break, Flow!Continue, Flow!Leave, Flow!Nowhere
<1>3. CASE If
  BY <1>1, <1>3
     DEF If, CloseIf, Else, OpenIf, Elif, Flow!CloseIf, Flow!Else, Flow!OpenIf, Flow!Enter, Flow!Elif
<1>4. CASE Open \/ Close
  BY <1>1, <1>4
     DEF Open, Close, OpenFor, OpenLoop, OpenWhile, OpenDo, CloseFor, CloseLoop, CloseWhile, CloseDo,
         Flow!OpenLoop, Flow!Enter, Flow!CloseLoop
<1>5. CASE Goto
  BY <1>1, <1>5
     DEF Goto, CloseLabel, OpenLabel, GoToNew, Label, GoToKnown, GoToOpen,
         Flow!CloseLabel, Flow!OpenLabel, Flow!GoTo
<1>6. CASE End \/ Stopped \/ UNCHANGED vars
  BY <1>6 DEF End, Flow!End, Stopped, vars, program
<1> QED
  BY <1>2, <1>3, <1>4, <1>5, <1>6 DEF Next

\* A longer list of headers and blocks leaves a frame as apt as it was.
LEMMA AptStays ==
  ASSUME NEW f \in Frames, NEW H, NEW G, NEW n \in Nat, NEW m \in Nat, n <= m, Apt(f, H, n),
         H \subseteq G, \A h \in G : h \in H \/ h \in (n + 1) .. m
  PROVE  Apt(f, G, m)
<1>1. {f.next, f.alt, f.back} \subseteq (1 .. m) \cup {None}
  BY DEF Apt
<1>2. Ways(f) \subseteq (1 .. n) \cup {None}
  BY DEF Apt, Ways
<1>3. None \notin Nat
  BY FlowAssumption
<1>4. Ways(f) \cap G = {}
  BY <1>2, <1>3 DEF Apt
<1> QED
  BY <1>1, <1>4 DEF Apt

\* The stack after a step: frames of before, and one the step has made.
LEMMA AptStack ==
  ASSUME IInv, PhiInv, "goto" \notin odd, blocks' \in Nat, blocks <= blocks',
         Headers \subseteq Headers', \A h \in Headers' : h \in Headers \/ h \in (blocks + 1) .. blocks',
         NEW f, Apt(f, Headers', blocks'),
         \A i \in 1 .. Len(frames') :
           frames'[i] = f \/ (i \in 1 .. Len(frames) /\ frames'[i] = frames[i])
  PROVE  \A i \in 1 .. Len(frames') : Apt(frames'[i], Headers', blocks')
<1> SUFFICES ASSUME NEW i \in 1 .. Len(frames') PROVE Apt(frames'[i], Headers', blocks')
  OBVIOUS
<1>1. CASE frames'[i] = f
  BY <1>1
<1>2. CASE i \in 1 .. Len(frames) /\ frames'[i] = frames[i]
  <2>1. frames[i] \in Frames /\ blocks \in Nat
    BY <1>2, BlockFacts
  <2>2. Apt(frames[i], Headers, blocks)
    BY <1>2 DEF PhiInv
  <2>3. Apt(frames[i], Headers', blocks')
    BY <2>1, <2>2, AptStays
  <2> QED
    BY <1>2, <2>3
<1> QED
  BY <1>1, <1>2

\* A step that makes no phi node: no new branch to a header.
LEMMA PhiKeep ==
  ASSUME IInv, PhiInv, "goto" \notin odd, phis' = phis, blocks' \in Nat, blocks <= blocks',
         NEW T, Touches(code, code', T), T \cap Headers = {}, \A t \in T : t <= blocks',
         \A i \in 1 .. Len(frames') : Apt(frames'[i], Headers, blocks')
  PROVE  PhiInv'
<1>0. blocks \in Nat /\ Headers' = Headers /\ Headers \subseteq Blocks /\ blocks <= MaxBlocks /\ MaxBlocks \in Nat
  BY BlockFacts DEF Headers, PhiInv, Blocks
<1>1. ASSUME NEW h \in Headers PROVE h \in 1 .. blocks' /\ Incoming(h)' = Preds(code', h)
  <2>1. Preds(code', h) = Preds(code, h)
    BY <1>0, <1>1 DEF Touches
  <2>2. Incoming(h)' = Incoming(h)
    BY DEF Incoming
  <2> QED
    BY <1>0, <1>1, <2>1, <2>2 DEF PhiInv
<1>2. ASSUME NEW h \in Blocks, h > blocks' PROVE Preds(code', h) = {}
  <2>1. h \notin T /\ h > blocks
    BY <1>0, <1>2 DEF Blocks
  <2> QED
    BY <1>2, <2>1 DEF Touches, PhiInv
<1> QED
  BY <1>0, <1>1, <1>2 DEF PhiInv

\* A step in the block in hand.
LEMMA PhiHere ==
  ASSUME IInv, PhiInv, "goto" \notin odd, UNCHANGED <<phis, blocks, frames>>,
         code' = code \/ (\E p \in Nat : code' = Evaluate(code, cur, p))
           \/ (\E t \in (0 .. blocks) \ Headers : code' = Branch(code, cur, {t}))
  PROVE  PhiInv'
<1>0. /\ blocks \in Nat /\ MaxBlocks \in Nat /\ blocks <= MaxBlocks
      /\ cur \in Blocks /\ code \in [Blocks -> Contents]
  BY BlockFacts
<1>1. \A i \in 1 .. Len(frames') : Apt(frames'[i], Headers, blocks')
  BY DEF PhiInv
<1>2. CASE code' = code
  <2>1. Touches(code, code', {})
    BY <1>2 DEF Touches
  <2> QED
    BY <1>0, <1>1, <2>1, PhiKeep
<1>3. ASSUME NEW p \in Nat, code' = Evaluate(code, cur, p) PROVE PhiInv'
  <2>1. Touches(code, code', {})
    BY <1>0, <1>3, TouchEvaluate DEF Touches
  <2> QED
    BY <1>0, <1>1, <2>1, PhiKeep
<1>4. ASSUME NEW t \in (0 .. blocks) \ Headers, code' = Branch(code, cur, {t}) PROVE PhiInv'
  <2>1. {t} \in SUBSET (0 .. MaxBlocks)
    BY <1>0
  <2>2. Touches(code, code', {t})
    BY <1>0, <1>4, <2>1, TouchBranch
  <2>3. {t} \cap Headers = {} /\ \A u \in {t} : u <= blocks'
    BY <1>0
  <2> QED
    BY <1>0, <1>1, <2>2, <2>3, PhiKeep
<1> QED
  BY <1>2, <1>3, <1>4

\* The caller and the blocks of break and continue are no headers.
LEMMA TargetsApart ==
  ASSUME IInv, PhiInv, "goto" \notin odd
  PROVE  /\ 0 \in (0 .. blocks) \ Headers
         /\ brk # None => brk \in (0 .. blocks) \ Headers
         /\ cont # None => cont \in (0 .. blocks) \ Headers
<1>0. blocks \in Nat /\ None \notin Nat /\ frames \in Seq(Frames)
  BY BlockFacts
<1>1. 0 \notin Headers
  BY DEF PhiInv
<1>2. ASSUME NEW i \in 1 .. Len(frames)
      PROVE  /\ frames[i].next \in (1 .. blocks) \ Headers
             /\ frames[i].kind \in Flow!Loops => frames[i].back \in (1 .. blocks) \ Headers
  <2>1. Apt(frames[i], Headers, blocks) /\ Shape(frames[i]) /\ frames[i] \in Frames
    BY <1>0 DEF PhiInv, IInv, StackInv
  <2>2. frames[i].next # None /\ (frames[i].kind \in Flow!Loops => frames[i].back # None)
    BY <1>0, <2>1 DEF Frames, Blocks, Shape, Loop, Flow!Loops
  <2> QED
    BY <2>1, <2>2 DEF Apt, Ways
<1>3. brk # None => \E i \in 1 .. Len(frames) : frames[i].next = brk
  BY DEF IInv, TargetsOpen
<1>4. cont # None => \E i \in 1 .. Len(frames) : frames[i].kind \in Flow!Loops /\ frames[i].back = cont
  BY DEF IInv, TargetsOpen
<1> QED
  BY <1>0, <1>1, <1>2, <1>3, <1>4

LEMMA PhiPlain ==
  ASSUME IInv, PhiInv, "goto" \notin odd, Plain \/ Return \/ Break \/ Continue \/ End PROVE PhiInv'
<1>1. CASE Plain
  <2>1. code' = Evaluate(code, cur, points') /\ UNCHANGED <<phis, blocks, frames>> /\ points' = points + 1
    BY <1>1 DEF Plain, builder, Flow!Plain, Flow!Arrive, Flow!New
  <2>2. points' \in Nat
    BY <2>1 DEF IInv, TypeOK, Flow!FlowTypeOK
  <2> QED
    BY <2>1, <2>2, PhiHere
<1>2. CASE Return
  BY <1>2, PhiHere, TargetsApart DEF Return, builder
<1>3. CASE Break
  BY <1>3, PhiHere, TargetsApart DEF Break, builder
<1>4. CASE Continue
  BY <1>4, PhiHere, TargetsApart DEF Continue, builder
<1>5. CASE End
  BY <1>5, PhiHere, TargetsApart DEF End, builder, BranchIfOpen
<1> QED
  BY <1>1, <1>2, <1>3, <1>4, <1>5

\* The stack without its last frame, and with another last frame.
LEMMA AptPop ==
  ASSUME IInv, PhiInv, "goto" \notin odd, frames # <<>>, frames' = Pop
  PROVE  \A i \in 1 .. Len(frames') : Apt(frames'[i], Headers, blocks)
<1>1. \A i \in 1 .. Len(frames') : frames'[i] = frames[i] /\ i \in 1 .. Len(frames)
  BY PopFacts DEF IInv, TypeOK, OwnerInv, Pop
<1> QED
  BY <1>1 DEF PhiInv

\* The statement in hand: where it branches to is no header.
LEMMA TopApt ==
  ASSUME IInv, PhiInv, "goto" \notin odd, frames # <<>>
  PROVE  /\ Top \in Frames /\ Shape(Top) /\ Apt(Top, Headers, blocks)
         /\ Top.next \in (1 .. blocks) \ Headers
         /\ Top.kind \in Flow!Loops => Top.back \in (1 .. blocks) \ Headers
<1>1. Top \in Frames /\ Shape(Top) /\ Apt(Top, Headers, blocks)
  BY TopFacts DEF PhiInv
<1>2. Top.next # None /\ (Top.kind \in Flow!Loops => Top.back # None)
  BY <1>1, FlowAssumption DEF Frames, Blocks, Shape, Loop, Flow!Loops
<1> QED
  BY <1>1, <1>2 DEF Apt, Ways

\* The end of a code block, with a branch from its open block.
LEMMA PhiEnd ==
  ASSUME IInv, PhiInv, "goto" \notin odd, frames # <<>>, frames' = Pop, UNCHANGED <<phis, blocks>>,
         NEW t \in (1 .. blocks) \ Headers,
         code' = BranchIfOpen(code, cur, t) \/ code' = Branch(code, cur, {t})
  PROVE  PhiInv'
<1>0. /\ blocks \in Nat /\ MaxBlocks \in Nat /\ blocks <= MaxBlocks
      /\ cur \in Blocks /\ code \in [Blocks -> Contents]
  BY BlockFacts
<1>1. {t} \in SUBSET (0 .. MaxBlocks) /\ t \in 0 .. MaxBlocks
  BY <1>0
<1>2. Touches(code, code', {t})
  BY <1>0, <1>1, TouchBranch, TouchBranchIfOpen
<1>3. {t} \cap Headers = {} /\ \A u \in {t} : u <= blocks'
  BY <1>0
<1> QED
  BY <1>0, <1>2, <1>3, AptPop, PhiKeep

LEMMA PhiCloseSimple ==
  ASSUME IInv, PhiInv, "goto" \notin odd, CloseIf \/ CloseLoop \/ CloseWhile PROVE PhiInv'
<1>1. frames # <<>>
  BY DEF CloseIf, CloseLoop, CloseWhile, In
<1>2. CASE CloseIf
  BY <1>1, <1>2, TopApt, PhiEnd DEF CloseIf
<1>3. CASE CloseLoop
  BY <1>1, <1>3, TopApt, PhiEnd DEF CloseLoop, In, Flow!Loops
<1>4. CASE CloseWhile
  BY <1>1, <1>4, TopApt, PhiEnd DEF CloseWhile, In, Flow!Loops
<1> QED
  BY <1>2, <1>3, <1>4

LEMMA TouchTwice ==
  ASSUME NEW c, NEW d, NEW e, NEW T, NEW U, Touches(c, d, T), Touches(d, e, U)
  PROVE  Touches(c, e, T \cup U)
  BY DEF Touches

LEMMA PhiCloseDo == ASSUME IInv, PhiInv, "goto" \notin odd, CloseDo PROVE PhiInv'
<1>0. /\ blocks \in Nat /\ MaxBlocks \in Nat /\ blocks <= MaxBlocks
      /\ cur \in Blocks /\ code \in [Blocks -> Contents] /\ None \notin Nat
  BY BlockFacts
<1>1. /\ frames # <<>> /\ frames' = Pop /\ Top.kind = "do" /\ UNCHANGED <<phis, blocks>>
      /\ code' = Branch(Evaluate(Branch(code, cur, {Top.back}), Top.back, points'), Top.back, {Top.alt, Top.next})
  BY DEF CloseDo, In
<1>2. points' \in Nat
  BY DEF CloseDo, Flow!CloseLoop, Flow!New, IInv, TypeOK, Flow!FlowTypeOK
<1>3. /\ Top.back \in (1 .. blocks) \ Headers /\ Top.next \in (1 .. blocks) \ Headers
      /\ Top.alt \in (1 .. blocks) \ Headers
  <2>1. /\ Top.back \in (1 .. blocks) \ Headers /\ Top.next \in (1 .. blocks) \ Headers
        /\ Apt(Top, Headers, blocks) /\ Top.alt \in Blocks
    BY <1>1, TopApt DEF Shape, Loop, Flow!Loops
  <2> QED
    BY <1>0, <1>1, <2>1 DEF Apt, Ways, Blocks
<1>4. /\ {Top.back} \in SUBSET (0 .. MaxBlocks) /\ {Top.alt, Top.next} \in SUBSET (0 .. MaxBlocks)
      /\ Top.back \in Blocks
  BY <1>0, <1>3 DEF Blocks
<1> DEFINE c == Branch(code, cur, {Top.back})
           d == Evaluate(c, Top.back, points')
<1>5. c \in [Blocks -> Contents] /\ Touches(code, c, {Top.back})
  BY <1>0, <1>4, BranchFacts, TouchBranch
<1>6. code' = Branch(d, Top.back, {Top.alt, Top.next})
  BY <1>1
<1> HIDE DEF c
<1>7. d \in [Blocks -> Contents] /\ Touches(c, d, {})
  BY <1>2, <1>4, <1>5, EvaluateFacts, TouchEvaluate DEF Touches
<1> HIDE DEF d
<1>8. Touches(d, code', {Top.alt, Top.next})
  BY <1>4, <1>6, <1>7, TouchBranch
<1>9. Touches(code, code', {Top.back, Top.alt, Top.next})
  <2>1. Touches(code, d, {Top.back} \cup {})
    BY <1>5, <1>7, TouchTwice
  <2>2. Touches(code, code', ({Top.back} \cup {}) \cup {Top.alt, Top.next})
    BY <1>8, <2>1, TouchTwice
  <2>3. ({Top.back} \cup {}) \cup {Top.alt, Top.next} = {Top.back, Top.alt, Top.next}
    OBVIOUS
  <2> QED
    BY <2>2, <2>3
<1>10. /\ {Top.back, Top.alt, Top.next} \cap Headers = {}
       /\ \A u \in {Top.back, Top.alt, Top.next} : u <= blocks'
  BY <1>0, <1>1, <1>3
<1>11. \A i \in 1 .. Len(frames') : Apt(frames'[i], Headers, blocks')
  BY <1>1, AptPop
<1>12. phis' = phis /\ blocks' = blocks
  BY <1>1
<1> QED
  BY <1>0, <1>9, <1>10, <1>11, <1>12, PhiKeep

\* One value more: what the headers and their incoming values are then.
FirstsOf(P) == {p[1] : p \in P}
SecondsOf(P, h) == {p[2] : p \in {q \in P : q[1] = h}}
LEMMA OneHeader ==
  ASSUME NEW P, NEW a, NEW b
  PROVE  FirstsOf(P \cup {<<a, b>>}) = FirstsOf(P) \cup {a}
<1>1. <<a, b>>[1] = a /\ <<a, b>>[2] = b
  OBVIOUS
<1> QED
  BY <1>1 DEF FirstsOf

OneMore(P, a, b, h) ==
  \A x : x \in SecondsOf(P \cup {<<a, b>>}, h) <=> x \in SecondsOf(P, h) \/ (h = a /\ x = b)

LEMMA OneValue ==
  ASSUME NEW P, NEW a, NEW b, NEW h
  PROVE  OneMore(P, a, b, h)
<1> DEFINE Q == P \cup {<<a, b>>}
<1>1. <<a, b>>[1] = a /\ <<a, b>>[2] = b
  OBVIOUS
<1>2. {q \in Q : q[1] = h} = {q \in P : q[1] = h} \cup (IF h = a THEN {<<a, b>>} ELSE {})
  BY <1>1
<1> QED
  BY <1>1, <1>2 DEF SecondsOf, OneMore

\* The latch branches back to the header, and the phi node gets the value from there.
LEMMA PhiCloseFor == ASSUME IInv, PhiInv, "goto" \notin odd, CloseFor PROVE PhiInv'
<1>0. /\ blocks \in Nat /\ MaxBlocks \in Nat /\ blocks <= MaxBlocks
      /\ cur \in Blocks /\ code \in [Blocks -> Contents] /\ None \notin Nat
  BY BlockFacts
<1>1. /\ frames # <<>> /\ frames' = Pop /\ Top.kind = "for" /\ blocks' = blocks
      /\ code' = Branch(BranchIfOpen(code, cur, Top.back), Top.back, {Top.alt})
      /\ phis' = phis \cup {<<Top.alt, Top.back>>}
  BY DEF CloseFor, In
<1>2. /\ Top.back \in (1 .. blocks) \ Headers /\ Top.alt \in Headers
      /\ Headers \subseteq 1 .. blocks
  BY <1>1, TopApt DEF Apt, PhiInv, Flow!Loops
<1>3. Top.back \in Blocks /\ Top.back \in 0 .. MaxBlocks /\ {Top.alt} \in SUBSET (0 .. MaxBlocks)
  <2>1. Top.back \in 1 .. blocks /\ Top.alt \in 1 .. blocks
    BY <1>2
  <2> QED
    BY <1>0, <2>1 DEF Blocks
<1> DEFINE c == BranchIfOpen(code, cur, Top.back)
<1>4. c \in [Blocks -> Contents] /\ Touches(code, c, {Top.back})
  BY <1>0, <1>3, BranchIfOpenFacts, TouchBranchIfOpen
<1>5. code' = Branch(c, Top.back, {Top.alt})
  BY <1>1
<1> HIDE DEF c
<1>6. \A h : Preds(code', h) = Preds(c, h) \cup (IF h \in {Top.alt} THEN {Top.back} ELSE {})
  BY <1>3, <1>4, <1>5, PredsBranch
<1>7. Headers' = Headers
  BY <1>1, <1>2 DEF Headers
<1>8. ASSUME NEW h \in Headers PROVE Incoming(h)' = Preds(code', h)
  <2>1. h # Top.back /\ h \in Blocks
    BY <1>0, <1>2, <1>8 DEF Blocks
  <2>2. Preds(c, h) = Incoming(h)
    BY <1>4, <1>8, <2>1 DEF Touches, PhiInv
  <2>3. Incoming(h)' = Incoming(h) \cup (IF h \in {Top.alt} THEN {Top.back} ELSE {})
    <3> PICK Q : Q = phis'
      OBVIOUS
    <3> PICK a : a = Top.alt
      OBVIOUS
    <3> PICK b : b = Top.back
      OBVIOUS
    <3>1. OneMore(phis, a, b, h)
      BY OneValue
    <3>2. SecondsOf(Q, h) = SecondsOf(phis, h) \cup (IF h \in {Top.alt} THEN {Top.back} ELSE {})
      BY <1>1, <3>1 DEF OneMore
    <3> QED
      BY <3>2 DEF Incoming, SecondsOf
  <2> QED
    BY <1>6, <2>2, <2>3
<1>9. ASSUME NEW h \in Blocks, h > blocks PROVE Preds(code', h) = {}
  <2>1. h \notin {Top.back, Top.alt} /\ h \in Blocks
    BY <1>0, <1>2, <1>9 DEF Blocks
  <2> QED
    BY <1>4, <1>6, <1>9, <2>1 DEF Touches, PhiInv
<1> QED
  BY <1>1, <1>2, <1>7, <1>8, <1>9, AptPop DEF PhiInv


\* The stack with a statement more, and with another statement in hand.
LEMMA StackGrows ==
  ASSUME IInv, NEW f \in Frames,
         frames' = Append(frames, f) \/ (frames # <<>> /\ frames' = [frames EXCEPT ![Len(frames)] = f])
  PROVE  \A i \in 1 .. Len(frames') :
           frames'[i] = f \/ (i \in 1 .. Len(frames) /\ frames'[i] = frames[i])
<1>1. frames \in Seq(Frames)
  BY BlockFacts
<1>2. CASE frames' = Append(frames, f)
  <2>1. /\ Len(Append(frames, f)) = Len(frames) + 1 /\ Len(frames) \in Nat
        /\ \A i \in 1 .. Len(frames) : Append(frames, f)[i] = frames[i]
        /\ Append(frames, f)[Len(frames) + 1] = f
    BY <1>1
  <2>2. \A i : i \in 1 .. Len(frames) + 1 => i \in 1 .. Len(frames) \/ i = Len(frames) + 1
    BY <2>1
  <2> QED
    BY <1>2, <2>1, <2>2
<1>3. CASE frames # <<>> /\ frames' = [frames EXCEPT ![Len(frames)] = f]
  BY <1>1, <1>3
<1> QED
  BY <1>2, <1>3

\* A step that makes no phi node, and puts a statement on the stack or in its place.
LEMMA PhiGrow ==
  ASSUME IInv, PhiInv, "goto" \notin odd, phis' = phis, blocks' \in Nat, blocks <= blocks',
         NEW f \in Frames, f.kind # "for",
         {f.next, f.alt, f.back} \subseteq ((1 .. blocks') \ Headers) \cup {None},
         frames' = Append(frames, f) \/ (frames # <<>> /\ frames' = [frames EXCEPT ![Len(frames)] = f]),
         NEW T, Touches(code, code', T), T \subseteq (1 .. blocks') \ Headers
  PROVE  PhiInv'
<1>1. Headers' = Headers /\ Headers \subseteq Nat /\ None \notin Nat
  <2>1. Headers' = Headers
    BY DEF Headers
  <2>2. Headers \subseteq 1 .. blocks
    BY DEF PhiInv
  <2> QED
    BY <2>1, <2>2, BlockFacts
<1>2. Apt(f, Headers', blocks')
  BY <1>1 DEF Apt, Ways
<1>3. \A h \in Headers' : h \in Headers \/ h \in (blocks + 1) .. blocks'
  BY <1>1
<1>4. \A i \in 1 .. Len(frames') : Apt(frames'[i], Headers', blocks')
  BY <1>1, <1>2, <1>3, StackGrows, AptStack
<1>5. T \cap Headers = {} /\ \A t \in T : t <= blocks'
  <2>1. \A t \in 1 .. blocks' : t <= blocks'
    OBVIOUS
  <2> QED
    BY <2>1
<1> QED
  BY <1>1, <1>4, <1>5, PhiKeep

\* The blocks a step makes are no headers yet.
LEMMA NewApart ==
  ASSUME IInv, PhiInv, "goto" \notin odd, NEW b \in Nat, b > blocks
  PROVE  b \notin Headers
BY BlockFacts DEF PhiInv

LEMMA PhiElse == ASSUME IInv, PhiInv, "goto" \notin odd, Else PROVE PhiInv'
<1> DEFINE f == Frame("else", Top.next, None, None)
<1>1. /\ frames # <<>> /\ blocks' = blocks /\ phis' = phis
      /\ code' = BranchIfOpen(code, cur, Top.next)
      /\ frames' = [frames EXCEPT ![Len(frames)] = f]
  BY DEF Else, In
<1>2. Top.next \in (1 .. blocks) \ Headers /\ Top \in Frames /\ Top.next \in Blocks
  BY <1>1, TopApt DEF Frames
<1>3. f \in Frames /\ f.kind # "for" /\ f.next = Top.next /\ f.alt = None /\ f.back = None
  <2>1. "else" \in Flow!Kinds /\ None \in MaybeBlock /\ Top.next \in Blocks
    BY <1>2, KindFacts DEF MaybeBlock
  <2> QED
    BY <1>2, <2>1, KindFacts, FrameFacts
<1> HIDE DEF f
<1>4. Touches(code, code', {Top.next})
  <2>1. Top.next \in 0 .. MaxBlocks /\ cur \in Blocks /\ code \in [Blocks -> Contents]
    BY <1>2, BlockFacts DEF Blocks
  <2> QED
    BY <1>1, <2>1, TouchBranchIfOpen
<1>5. {f.next, f.alt, f.back} \subseteq ((1 .. blocks') \ Headers) \cup {None}
  BY <1>1, <1>2, <1>3
<1>6. blocks' \in Nat /\ blocks <= blocks' /\ {Top.next} \subseteq (1 .. blocks') \ Headers
  BY <1>1, <1>2, BlockFacts
<1> QED
  BY <1>1, <1>3, <1>4, <1>5, <1>6, PhiGrow

\* A condition and the branch on it.
LEMMA TouchTest ==
  ASSUME NEW c \in [Blocks -> Contents], NEW b \in Blocks, NEW p \in Nat, NEW t \in SUBSET (0 .. MaxBlocks)
  PROVE  Touches(c, Branch(Evaluate(c, b, p), b, t), t)
<1>1. Evaluate(c, b, p) \in [Blocks -> Contents]
  BY EvaluateFacts
<1>2. Touches(Evaluate(c, b, p), Branch(Evaluate(c, b, p), b, t), t)
  BY <1>1, TouchBranch
<1> QED
  BY <1>2, TouchEvaluate DEF Touches

LEMMA PhiOpenIf ==
  ASSUME IInv, PhiInv, "goto" \notin odd, NEW alt \in BOOLEAN, OpenIf(alt) PROVE PhiInv'
<1> DEFINE k == IF alt THEN 3 ELSE 2
           other == IF alt THEN blocks + 2 ELSE None
           f == Frame("if", blocks', other, None)
           to == {blocks + 1, IF alt THEN other ELSE blocks'}
<1>0. /\ blocks \in Nat \ {0} /\ MaxBlocks \in Nat /\ None \notin Nat
      /\ cur \in Blocks /\ code \in [Blocks -> Contents] /\ Flow!FlowTypeOK
  BY BlockFacts
<1>1. /\ blocks + k <= MaxBlocks /\ blocks' = blocks + k /\ phis' = phis
      /\ code' = Branch(Evaluate(code, cur, points'), cur, to)
      /\ frames' = Append(frames, f)
  BY DEF OpenIf, Create
<1>2. points' \in Nat
  BY DEF OpenIf, Flow!OpenIf, Flow!Enter, Flow!Arrive, Flow!New, IInv, TypeOK, Flow!FlowTypeOK
<1>3. k \in {2, 3} /\ (alt => k = 3)
  OBVIOUS
<1> HIDE DEF k
<1>4. /\ blocks' \in Nat /\ blocks <= blocks' /\ blocks' \in Blocks
      /\ \A b \in (blocks + 1) .. blocks' : b \in (1 .. blocks') \ Headers /\ b \in Blocks
      /\ blocks + 1 \in (blocks + 1) .. blocks' /\ blocks' \in (blocks + 1) .. blocks'
      /\ alt => blocks + 2 \in (blocks + 1) .. blocks'
  <2>1. /\ blocks' \in Nat /\ blocks <= blocks' /\ blocks' \in Blocks
        /\ blocks + 1 \in (blocks + 1) .. blocks' /\ blocks' \in (blocks + 1) .. blocks'
        /\ alt => blocks + 2 \in (blocks + 1) .. blocks'
    BY <1>0, <1>1, <1>3 DEF Blocks
  <2>2. ASSUME NEW b \in (blocks + 1) .. blocks' PROVE b \in (1 .. blocks') \ Headers /\ b \in Blocks
    <3>1. b \in Nat /\ b > blocks /\ b \in 1 .. blocks' /\ b \in Blocks
      BY <1>0, <1>1, <2>1 DEF Blocks
    <3> QED
      BY <3>1, NewApart
  <2> QED
    BY <2>1, <2>2
<1>5. /\ other = None \/ other \in (1 .. blocks') \ Headers
      /\ other \in MaybeBlock /\ to \subseteq (1 .. blocks') \ Headers
  BY <1>4 DEF MaybeBlock
<1>6. f \in Frames /\ f.kind # "for" /\ f.next = blocks' /\ f.alt = other /\ f.back = None
  <2>1. other \in MaybeBlock /\ None \in MaybeBlock /\ blocks' \in Blocks
    BY <1>4, <1>5 DEF MaybeBlock
  <2> QED
    BY <2>1, KindFacts, FrameFacts
<1> HIDE DEF f, to, other
<1>7. Touches(code, code', to)
  <2>1. to \in SUBSET (0 .. MaxBlocks)
    BY <1>0, <1>1, <1>5, <1>4 DEF Blocks
  <2> QED
    BY <1>0, <1>1, <1>2, <2>1, TouchTest
<1>8. {f.next, f.alt, f.back} \subseteq ((1 .. blocks') \ Headers) \cup {None}
  BY <1>4, <1>5, <1>6
<1> QED
  BY <1>1, <1>4, <1>5, <1>6, <1>7, <1>8, PhiGrow

LEMMA PhiElif ==
  ASSUME IInv, PhiInv, "goto" \notin odd, NEW alt \in BOOLEAN, Elif(alt) PROVE PhiInv'
<1> DEFINE k == IF alt THEN 2 ELSE 1
           other == IF alt THEN blocks + 2 ELSE None
           f == Frame("if", Top.next, other, None)
           to == {blocks + 1, IF alt THEN other ELSE Top.next}
           c == BranchIfOpen(code, cur, Top.next)
<1>0. /\ blocks \in Nat \ {0} /\ MaxBlocks \in Nat /\ None \notin Nat
      /\ cur \in Blocks /\ code \in [Blocks -> Contents] /\ Flow!FlowTypeOK
  BY BlockFacts
<1>1. /\ frames # <<>> /\ Top.alt # None
      /\ blocks + k <= MaxBlocks /\ blocks' = blocks + k /\ phis' = phis
      /\ code' = Branch(Evaluate(c, Top.alt, points'), Top.alt, to)
      /\ frames' = [frames EXCEPT ![Len(frames)] = f]
  BY DEF Elif, Create, In
<1>2. points' \in Nat
  BY DEF Elif, Flow!Elif, Flow!Arrive, Flow!New, IInv, TypeOK, Flow!FlowTypeOK
<1>3. k \in {1, 2} /\ (alt => k = 2)
  OBVIOUS
<1> HIDE DEF k
<1>4. /\ blocks' \in Nat /\ blocks <= blocks' /\ blocks' \in Blocks
      /\ \A b \in (blocks + 1) .. blocks' : b \in (1 .. blocks') \ Headers /\ b \in Blocks
      /\ blocks + 1 \in (blocks + 1) .. blocks'
      /\ alt => blocks + 2 \in (blocks + 1) .. blocks'
  <2>1. /\ blocks' \in Nat /\ blocks <= blocks' /\ blocks' \in Blocks
        /\ blocks + 1 \in (blocks + 1) .. blocks'
        /\ alt => blocks + 2 \in (blocks + 1) .. blocks'
    BY <1>0, <1>1, <1>3 DEF Blocks
  <2>2. ASSUME NEW b \in (blocks + 1) .. blocks' PROVE b \in (1 .. blocks') \ Headers /\ b \in Blocks
    <3>1. b \in Nat /\ b > blocks /\ b \in 1 .. blocks' /\ b \in Blocks
      BY <1>0, <1>1, <2>1 DEF Blocks
    <3> QED
      BY <3>1, NewApart
  <2> QED
    BY <2>1, <2>2
<1>5. Top.next \in (1 .. blocks') \ Headers /\ Top.next \in Blocks /\ Top.alt \in Blocks
  <2>1. Top.next \in (1 .. blocks) \ Headers /\ Top \in Frames
    BY <1>1, TopApt
  <2> QED
    BY <1>0, <1>1, <1>4, <2>1 DEF Frames, MaybeBlock
<1>6. /\ other = None \/ other \in (1 .. blocks') \ Headers
      /\ other \in MaybeBlock /\ to \subseteq (1 .. blocks') \ Headers
  BY <1>4, <1>5 DEF MaybeBlock
<1>7. f \in Frames /\ f.kind # "for" /\ f.next = Top.next /\ f.alt = other /\ f.back = None
  <2>1. other \in MaybeBlock /\ None \in MaybeBlock
    BY <1>6 DEF MaybeBlock
  <2> QED
    BY <1>5, <2>1, KindFacts, FrameFacts
<1> HIDE DEF f, to, other
<1>8. Touches(code, code', {Top.next} \cup to)
  <2>1. to \in SUBSET (0 .. MaxBlocks) /\ Top.next \in 0 .. MaxBlocks
    BY <1>0, <1>1, <1>5, <1>6, <1>4 DEF Blocks
  <2>2. c \in [Blocks -> Contents] /\ Touches(code, c, {Top.next})
    BY <1>0, <2>1, BranchIfOpenFacts, TouchBranchIfOpen
  <2>3. Touches(c, code', to)
    BY <1>1, <1>2, <1>5, <2>1, <2>2, TouchTest
  <2> QED
    BY <2>2, <2>3, TouchTwice
<1>9. {f.next, f.alt, f.back} \subseteq ((1 .. blocks') \ Headers) \cup {None}
  BY <1>5, <1>6, <1>7
<1>10. {Top.next} \cup to \subseteq (1 .. blocks') \ Headers
  BY <1>5, <1>6
<1> QED
  BY <1>1, <1>4, <1>7, <1>8, <1>9, <1>10, PhiGrow

\* The branch into a loop: one way more into its first block.
LEMMA HeadedPreds ==
  ASSUME NEW c \in [Blocks -> Contents], NEW b \in Blocks, NEW h \in Blocks, NEW p \in Nat
  PROVE  /\ Headed(c, b, h, p) \in [Blocks -> Contents]
         /\ \A x : Preds(Headed(c, b, h, p), x) = Preds(c, x) \cup (IF x = h THEN {b} ELSE {})
<1>1. {h} \in SUBSET (0 .. MaxBlocks)
  BY FlowAssumption DEF Blocks
<1>2. Branch(c, b, {h}) \in [Blocks -> Contents]
  BY <1>1, BranchFacts
<1>3. \A x : Preds(Branch(c, b, {h}), x) = Preds(c, x) \cup (IF x \in {h} THEN {b} ELSE {})
  BY <1>1, PredsBranch
<1>4. \A x : Preds(Headed(c, b, h, p), x) = Preds(Branch(c, b, {h}), x)
  BY <1>2, TouchEvaluate DEF Headed
<1> QED
  BY <1>2, <1>3, <1>4, EvaluateFacts DEF Headed

LEMMA TouchHeaded ==
  ASSUME NEW c \in [Blocks -> Contents], NEW b \in Blocks, NEW h \in Blocks, NEW p \in Nat
  PROVE  Headed(c, b, h, p) \in [Blocks -> Contents] /\ Touches(c, Headed(c, b, h, p), {h})
<1>1. /\ Headed(c, b, h, p) \in [Blocks -> Contents]
      /\ \A x : Preds(Headed(c, b, h, p), x) = Preds(c, x) \cup (IF x = h THEN {b} ELSE {})
  BY HeadedPreds
<1> QED
  BY <1>1 DEF Touches

\* The blocks of a loop that is opened, and what a step knows of the rest.
LEMMA LoopBlocks ==
  ASSUME IInv, PhiInv, "goto" \notin odd, NEW k \in Nat, Create(k), NEW kind, Flow!OpenLoop(kind)
  PROVE  /\ blocks \in Nat /\ blocks' \in Nat /\ blocks <= blocks' /\ points' \in Nat
         /\ cur \in Blocks /\ code \in [Blocks -> Contents]
         /\ \A i \in 1 .. k : /\ blocks + i \in (1 .. blocks') \ Headers
                              /\ blocks + i \in Blocks /\ blocks + i \in 0 .. MaxBlocks
<1>0. /\ blocks \in Nat \ {0} /\ MaxBlocks \in Nat /\ cur \in Blocks /\ code \in [Blocks -> Contents]
  BY BlockFacts
<1>1. points' \in Nat
  BY DEF Flow!OpenLoop, Flow!Enter, Flow!Arrive, Flow!New, IInv, TypeOK, Flow!FlowTypeOK
<1>2. blocks + k <= MaxBlocks /\ blocks' = blocks + k
  BY DEF Create
<1>3. ASSUME NEW i \in 1 .. k
      PROVE  /\ blocks + i \in (1 .. blocks') \ Headers
             /\ blocks + i \in Blocks /\ blocks + i \in 0 .. MaxBlocks
  <2>1. blocks + i \in Nat /\ blocks + i > blocks /\ blocks + i \in 1 .. blocks' /\ blocks + i <= MaxBlocks
    BY <1>0, <1>2
  <2> QED
    BY <1>0, <2>1, NewApart DEF Blocks
<1> QED
  BY <1>0, <1>1, <1>2, <1>3

LEMMA PhiOpenLoop == ASSUME IInv, PhiInv, "goto" \notin odd, OpenLoop PROVE PhiInv'
<1> DEFINE f == Frame("loop", blocks + 2, None, blocks + 1)
<1>1. /\ Create(2) /\ Flow!OpenLoop("loop") /\ phis' = phis /\ frames' = Append(frames, f)
      /\ code' = Headed(code, cur, blocks + 1, points')
  BY DEF OpenLoop, Headed
<1>2. /\ blocks' \in Nat /\ blocks <= blocks' /\ points' \in Nat
      /\ cur \in Blocks /\ code \in [Blocks -> Contents]
      /\ \A i \in 1 .. 2 : blocks + i \in (1 .. blocks') \ Headers /\ blocks + i \in Blocks
  BY <1>1, LoopBlocks
<1>3. /\ blocks + 1 \in (1 .. blocks') \ Headers /\ blocks + 1 \in Blocks
      /\ blocks + 2 \in (1 .. blocks') \ Headers /\ blocks + 2 \in Blocks
  BY <1>2
<1>4. f \in Frames /\ f.kind # "for" /\ f.next = blocks + 2 /\ f.alt = None /\ f.back = blocks + 1
  <2>1. {"loop", "while"} \subseteq Flow!Kinds /\ None \in MaybeBlock /\ blocks + 1 \in MaybeBlock
    BY <1>3, KindFacts DEF MaybeBlock
  <2> QED
    BY <1>3, <2>1, KindFacts, FrameFacts
<1> HIDE DEF f
<1>5. Touches(code, code', {blocks + 1})
  BY <1>1, <1>2, <1>3, TouchHeaded
<1>6. /\ {f.next, f.alt, f.back} \subseteq ((1 .. blocks') \ Headers) \cup {None}
      /\ {blocks + 1} \subseteq (1 .. blocks') \ Headers
  BY <1>3, <1>4
<1> QED
  BY <1>1, <1>2, <1>4, <1>5, <1>6, PhiGrow

LEMMA PhiOpenDo == ASSUME IInv, PhiInv, "goto" \notin odd, OpenDo PROVE PhiInv'
<1> DEFINE f == Frame("do", blocks + 3, blocks + 2, blocks + 1)
<1>1. /\ Create(3) /\ Flow!OpenLoop("do") /\ phis' = phis /\ frames' = Append(frames, f)
      /\ code' = Headed(code, cur, blocks + 2, points')
  BY DEF OpenDo, Headed
<1>2. /\ blocks' \in Nat /\ blocks <= blocks' /\ points' \in Nat
      /\ cur \in Blocks /\ code \in [Blocks -> Contents]
      /\ \A i \in 1 .. 3 : blocks + i \in (1 .. blocks') \ Headers /\ blocks + i \in Blocks
  BY <1>1, LoopBlocks
<1>3. /\ blocks + 1 \in (1 .. blocks') \ Headers /\ blocks + 1 \in Blocks
      /\ blocks + 2 \in (1 .. blocks') \ Headers /\ blocks + 2 \in Blocks
      /\ blocks + 3 \in (1 .. blocks') \ Headers /\ blocks + 3 \in Blocks
  BY <1>2
<1>4. f \in Frames /\ f.kind # "for" /\ f.next = blocks + 3 /\ f.alt = blocks + 2 /\ f.back = blocks + 1
  BY <1>3, KindFacts, FrameFacts DEF MaybeBlock
<1> HIDE DEF f
<1>5. Touches(code, code', {blocks + 2})
  BY <1>1, <1>2, <1>3, TouchHeaded
<1>6. /\ {f.next, f.alt, f.back} \subseteq ((1 .. blocks') \ Headers) \cup {None}
      /\ {blocks + 2} \subseteq (1 .. blocks') \ Headers
  BY <1>3, <1>4
<1> QED
  BY <1>1, <1>2, <1>4, <1>5, <1>6, PhiGrow

LEMMA PhiOpenWhile == ASSUME IInv, PhiInv, "goto" \notin odd, OpenWhile PROVE PhiInv'
<1> DEFINE f == Frame("while", blocks + 3, None, blocks + 1)
           to == {blocks + 2, blocks + 3}
           c == Headed(code, cur, blocks + 1, points')
<1>1. /\ Create(3) /\ Flow!OpenLoop("while") /\ phis' = phis /\ frames' = Append(frames, f)
      /\ code' = Branch(c, blocks + 1, to)
  BY DEF OpenWhile, Headed
<1>2. /\ blocks' \in Nat /\ blocks <= blocks' /\ points' \in Nat
      /\ cur \in Blocks /\ code \in [Blocks -> Contents]
      /\ \A i \in 1 .. 3 : /\ blocks + i \in (1 .. blocks') \ Headers
                           /\ blocks + i \in Blocks /\ blocks + i \in 0 .. MaxBlocks
  BY <1>1, LoopBlocks
<1>3. /\ blocks + 1 \in (1 .. blocks') \ Headers /\ blocks + 1 \in Blocks
      /\ blocks + 2 \in (1 .. blocks') \ Headers /\ blocks + 2 \in 0 .. MaxBlocks
      /\ blocks + 3 \in (1 .. blocks') \ Headers /\ blocks + 3 \in 0 .. MaxBlocks
      /\ blocks + 3 \in Blocks
  BY <1>2
<1>4. f \in Frames /\ f.kind # "for" /\ f.next = blocks + 3 /\ f.alt = None /\ f.back = blocks + 1
  <2>1. {"loop", "while"} \subseteq Flow!Kinds /\ None \in MaybeBlock /\ blocks + 1 \in MaybeBlock
    BY <1>3, KindFacts DEF MaybeBlock
  <2> QED
    BY <1>3, <2>1, KindFacts, FrameFacts
<1> HIDE DEF f
<1>5. Touches(code, code', {blocks + 1} \cup to)
  <2>1. c \in [Blocks -> Contents] /\ Touches(code, c, {blocks + 1})
    BY <1>2, <1>3, TouchHeaded
  <2>2. to \in SUBSET (0 .. MaxBlocks)
    BY <1>3
  <2>3. Touches(c, code', to)
    BY <1>1, <1>3, <2>1, <2>2, TouchBranch
  <2> QED
    BY <2>1, <2>3, TouchTwice
<1>6. /\ {f.next, f.alt, f.back} \subseteq ((1 .. blocks') \ Headers) \cup {None}
      /\ {blocks + 1} \cup to \subseteq (1 .. blocks') \ Headers
  BY <1>3, <1>4
<1> QED
  BY <1>1, <1>2, <1>4, <1>5, <1>6, PhiGrow

\* The header of a for is new, the branch into it is its only one so far, and the
\* phi node has the value for it.
LEMMA PhiOpenFor == ASSUME IInv, PhiInv, "goto" \notin odd, OpenFor PROVE PhiInv'
<1> DEFINE f == Frame("for", blocks + 4, blocks + 1, blocks + 3)
           to == {blocks + 2, blocks + 4}
           c == Headed(code, cur, blocks + 1, points')
<1>1. /\ Create(4) /\ Flow!OpenLoop("for") /\ frames' = Append(frames, f)
      /\ phis' = phis \cup {<<blocks + 1, cur>>}
      /\ code' = Branch(c, blocks + 1, to)
      /\ blocks' = blocks + 4
  BY DEF OpenFor, Headed, Create
<1>2. /\ blocks' \in Nat /\ blocks <= blocks' /\ points' \in Nat /\ blocks \in Nat
      /\ cur \in Blocks /\ code \in [Blocks -> Contents]
      /\ \A i \in 1 .. 4 : /\ blocks + i \in (1 .. blocks') \ Headers
                           /\ blocks + i \in Blocks /\ blocks + i \in 0 .. MaxBlocks
  BY <1>1, LoopBlocks
<1>3. /\ blocks + 1 \in (1 .. blocks') \ Headers /\ blocks + 1 \in Blocks
      /\ blocks + 2 \in (1 .. blocks') \ Headers /\ blocks + 2 \in 0 .. MaxBlocks
      /\ blocks + 3 \in (1 .. blocks') \ Headers /\ blocks + 3 \in Blocks
      /\ blocks + 4 \in (1 .. blocks') \ Headers /\ blocks + 4 \in 0 .. MaxBlocks
      /\ blocks + 4 \in Blocks
      /\ blocks + 1 \in (blocks + 1) .. blocks' /\ blocks + 1 > blocks
      /\ blocks + 1 \notin {blocks + 2, blocks + 3, blocks + 4}
  BY <1>1, <1>2
<1>4. f \in Frames /\ f.kind = "for" /\ f.next = blocks + 4 /\ f.alt = blocks + 1 /\ f.back = blocks + 3
  BY <1>3, KindFacts, FrameFacts DEF MaybeBlock
<1> HIDE DEF f
<1>5. Headers' = Headers \cup {blocks + 1}
  <2> PICK Q : Q = phis'
    OBVIOUS
  <2>1. FirstsOf(phis \cup {<<blocks + 1, cur>>}) = FirstsOf(phis) \cup {blocks + 1}
    BY OneHeader
  <2>2. FirstsOf(Q) = FirstsOf(phis) \cup {blocks + 1}
    BY <1>1, <2>1
  <2> QED
    BY <2>2 DEF Headers, FirstsOf
<1>6. Apt(f, Headers', blocks')
  BY <1>3, <1>4, <1>5 DEF Apt, Ways
<1>7. \A i \in 1 .. Len(frames') : Apt(frames'[i], Headers', blocks')
  <2>1. Headers \subseteq Headers' /\ \A h \in Headers' : h \in Headers \/ h \in (blocks + 1) .. blocks'
    BY <1>3, <1>5
  <2>2. \A i \in 1 .. Len(frames') :
          frames'[i] = f \/ (i \in 1 .. Len(frames) /\ frames'[i] = frames[i])
    BY <1>1, <1>4, StackGrows
  <2> QED
    BY <1>2, <1>6, <2>1, <2>2, AptStack
<1>8. \A x : Preds(code', x) = Preds(code, x) \cup (IF x = blocks + 1 THEN {cur} ELSE {})
                                 \cup (IF x \in to THEN {blocks + 1} ELSE {})
  <2>1. /\ c \in [Blocks -> Contents]
        /\ \A x : Preds(c, x) = Preds(code, x) \cup (IF x = blocks + 1 THEN {cur} ELSE {})
    BY <1>2, <1>3, HeadedPreds
  <2>2. to \in SUBSET (0 .. MaxBlocks)
    BY <1>3
  <2> HIDE DEF c, to
  <2>3. \A x : Preds(code', x) = Preds(c, x) \cup (IF x \in to THEN {blocks + 1} ELSE {})
    BY <1>1, <1>3, <2>1, <2>2, PredsBranch
  <2> QED
    BY <2>1, <2>3
<1>9. ASSUME NEW h \in Headers' PROVE h \in 1 .. blocks' /\ Incoming(h)' = Preds(code', h)
  <2>1. CASE h = blocks + 1
    <3>1. Preds(code, h) = {} /\ h \notin to
      BY <1>3, <2>1 DEF PhiInv
    <3>2. Incoming(h)' = {cur}
      BY <1>1, <1>3, <2>1 DEF Incoming, Headers
    <3> QED
      BY <1>3, <1>8, <2>1, <3>1, <3>2
  <2>2. CASE h # blocks + 1
    <3>1. h \in Headers /\ h \in 1 .. blocks /\ Incoming(h) = Preds(code, h)
      BY <1>5, <1>9, <2>2 DEF PhiInv
    <3>2. h \notin to /\ h \in 1 .. blocks'
      BY <1>2, <1>3, <3>1
    <3>3. Incoming(h)' = Incoming(h)
      BY <1>1, <2>2 DEF Incoming
    <3> QED
      BY <1>8, <2>2, <3>1, <3>2, <3>3
  <2> QED
    BY <2>1, <2>2
<1>10. ASSUME NEW h \in Blocks, h > blocks' PROVE Preds(code', h) = {}
  <2>1. h > blocks /\ h # blocks + 1 /\ h \notin to
    BY <1>1, <1>2, <1>10 DEF Blocks
  <2> QED
    BY <1>8, <1>10, <2>1 DEF PhiInv
<1> QED
  BY <1>7, <1>9, <1>10 DEF PhiInv

LEMMA PhiGoto == ASSUME IInv, Goto PROVE "goto" \in odd'
<1>1. CASE CloseLabel
  <2>1. frames # <<>> /\ Top.kind = "label"
    BY <1>1 DEF CloseLabel, In
  <2>2. "goto" \in odd
    BY <2>1, TopFacts DEF IInv, StackInv
  <2> QED
    BY <1>1, <2>2 DEF CloseLabel, Flow!CloseLabel, Flow!Closing
<1>2. CASE \E l \in Labels : OpenLabel(l) \/ GoToNew(l) \/ GoToKnown(l) \/ GoToOpen(l)
  BY <1>2 DEF OpenLabel, GoToNew, Label, GoToKnown, GoToOpen, Flow!OpenLabel, Flow!GoTo, Flow!Statement
<1> QED
  BY <1>1, <1>2 DEF Goto

LEMMA PhiStep == IInv /\ PhiInv /\ [Next]_vars => PhiInv'
<1> SUFFICES ASSUME IInv, PhiInv, [Next]_vars, "goto" \notin odd' PROVE PhiInv'
  BY DEF PhiInv
<1>0. "goto" \notin odd
  BY OddStays
<1>1. CASE If
  BY <1>0, <1>1, PhiCloseSimple, PhiElse, PhiOpenIf, PhiElif DEF If
<1>2. CASE Open
  BY <1>0, <1>2, PhiOpenFor, PhiOpenLoop, PhiOpenWhile, PhiOpenDo DEF Open
<1>3. CASE Close
  BY <1>0, <1>3, PhiCloseFor, PhiCloseSimple, PhiCloseDo DEF Close
<1>4. CASE Goto
  BY <1>4, PhiGoto
<1>5. CASE Plain \/ Return \/ Break \/ Continue \/ End
  BY <1>0, <1>5, PhiPlain
<1>6. CASE Stopped \/ UNCHANGED vars
  <2>1. UNCHANGED <<blocks, code, phis, frames>>
    BY <1>6 DEF Stopped, vars, ir, builder
  <2> QED
    BY <1>0, <2>1, PhiHere
<1> QED
  BY <1>1, <1>2, <1>3, <1>4, <1>5, <1>6 DEF Next

(* The phi node of a for has one value for every block that branches to its *)
(* header (Statement_For: the values of the preheader and of the latch), in *)
(* functions of any size without labels.                                   *)
THEOREM PhisAreComplete == Spec => []PhisComplete
<1>1. Init => PhiInv
  <2> SUFFICES ASSUME Init PROVE PhiInv
    OBVIOUS
  <2>1. phis = {} /\ frames = <<>> /\ code = [b \in Blocks |-> IF b = 1 THEN Entry ELSE Empty]
    BY DEF Init
  <2>2. \A b \in Blocks : code[b].ends = <<>>
    BY <2>1 DEF Entry, Empty
  <2>3. \A h : Preds(code, h) = {}
    BY <2>2 DEF Preds
  <2> QED
    BY <2>1, <2>3 DEF PhiInv, Headers
<1>2. IInv /\ PhiInv => PhisComplete
  <2> SUFFICES ASSUME IInv, PhiInv, "goto" \notin odd, NEW h \in Headers
               PROVE  Incoming(h) = {b \in 1 .. blocks : \E i \in DOMAIN code[b].ends : h \in code[b].ends[i]}
    BY DEF PhisComplete, Without, Headers, Incoming
  <2>1. Incoming(h) = Preds(code, h)
    BY DEF PhiInv
  <2>2. \A b \in Blocks : b > blocks => code[b].ends = <<>>
    BY BlockFacts, EmptyFacts
  <2>3. \A b : b \in Preds(code, h) <=> b \in 1 .. blocks /\ \E i \in DOMAIN code[b].ends : h \in code[b].ends[i]
    BY <2>2, BlockFacts DEF Preds, Blocks
  <2> QED
    BY <2>1, <2>3
<1> QED
  BY <1>1, <1>2, Invariant, PhiStep, PTL DEF Spec

------------------------------------------------------------------------------
(***************************************************************************)
(* The blocks do what the statements say.  Beside the blocks there is a    *)
(* relation g: the points from which control gets to the start of a block  *)
(* without meeting another one.  Two things happen to it.  A point is put  *)
(* into the open block, and follows what got there (AddPoint); the open    *)
(* block branches to others, and what gets to its end gets to them         *)
(* (AddEdge).  Every step of the generator is a few of those.              *)
(***************************************************************************)

Places == 0 .. MaxBlocks
Gains == [Places -> SUBSET Nat]
Quiet(c, b) == c[b].points = <<>>
Done(c, b) == c[b].ends # <<>>
Goes(c, b, t) == Done(c, b) /\ t \in c[b].ends[1]
Final(s) == s[Len(s)]
Succeed(s, p, q) == \E i \in 1 .. Len(s) - 1 : p = s[i] /\ q = s[i + 1]

\* The points last evaluated when control is at the end of b.
Out(c, g, b) == IF Quiet(c, b) THEN g[b] ELSE {Final(c[b].points)}
\* What is evaluated in t begins with q; 0 stands for the caller.
Begins(c, t, q) == (t = 0 /\ q = 0) \/ (t \in Blocks /\ ~Quiet(c, t) /\ q = c[t].points[1])
\* The point p may be followed by q.
Linked(c, g, p, q) ==
  \/ \E b \in Blocks : Succeed(c[b].points, p, q)
  \/ \E t \in Places : p \in g[t] /\ Begins(c, t, q)

\* What gets to a block is what gets to the end of a block that goes there, and was
\* evaluated last in a block that is done.
Carried(c, g) ==
  /\ \A t \in Places : \A p \in Nat : p \in g[t] <=> \E b \in Blocks : Goes(c, b, t) /\ p \in Out(c, g, b)
  /\ \A t \in Places : \A p \in g[t] : \E b \in Blocks : Done(c, b) /\ ~Quiet(c, b) /\ p = Final(c[b].points)
\* The blocks without a point that are done form no circle.
Idle(c) == {b \in Blocks : Quiet(c, b) /\ Done(c, b)}
Grounded(c) ==
  \A S \in SUBSET Idle(c) : S # {} =>
     /\ \E b \in S : \A e \in S : ~Goes(c, b, e)
     /\ \E b \in S : \A e \in S : ~Goes(c, e, b)
\* A point is the last one of one block.
OnePlace(c, n) ==
  \A b \in Blocks : ~Quiet(c, b) =>
     /\ Final(c[b].points) \in 1 .. n
     /\ \A e \in Blocks : ~Quiet(c, e) /\ Final(c[e].points) = Final(c[b].points) => e = b

Sound(c, g, n) == Carried(c, g) /\ Grounded(c) /\ OnePlace(c, n)

\* The points r are the points s and then n.
Longer(s, n, r) ==
  /\ r # <<>> /\ Final(r) = n
  /\ (s = <<>> => r[1] = n) /\ (s # <<>> => r[1] = s[1])
  /\ \A p, q : Succeed(r, p, q) <=> Succeed(s, p, q) \/ (s # <<>> /\ p = Final(s) /\ q = n)

LEMMA AppendPoint ==
  ASSUME NEW s \in Seq(Nat), NEW n \in Nat, NEW r, r = Append(s, n)
  PROVE  Longer(s, n, r)
<1>1. /\ r \in Seq(Nat) /\ Len(s) \in Nat /\ Len(r) = Len(s) + 1 /\ r[Len(s) + 1] = n
      /\ \A i \in 1 .. Len(s) : r[i] = s[i]
      /\ s # <<>> => Len(s) # 0
      /\ s = <<>> => Len(s) = 0
  BY EmptySeq
<1>2. r # <<>> /\ Final(r) = n
  <2>1. r # <<>>
    BY <1>1, EmptySeq
  <2> QED
    BY <1>1, <2>1 DEF Final
<1>3. (s = <<>> => r[1] = n) /\ (s # <<>> => r[1] = s[1])
  BY <1>1
<1>4. ASSUME NEW p, NEW q
      PROVE  Succeed(r, p, q) <=> Succeed(s, p, q) \/ (s # <<>> /\ p = Final(s) /\ q = n)
  <2>1. Len(r) - 1 = Len(s)
    BY <1>1
  <2>2. ASSUME NEW i \in 1 .. Len(s)
        PROVE  /\ r[i] = s[i]
               /\ i \in 1 .. Len(s) - 1 => r[i + 1] = s[i + 1]
               /\ i \notin 1 .. Len(s) - 1 => i = Len(s) /\ r[i + 1] = n
    BY <1>1
  <2>3. \A i \in 1 .. Len(s) - 1 : i \in 1 .. Len(s)
    BY <1>1
  <2>4. s # <<>> => Len(s) \in 1 .. Len(s) /\ Len(s) \notin 1 .. Len(s) - 1
    BY <1>1
  <2>5. Succeed(r, p, q) <=> \E i \in 1 .. Len(s) : p = r[i] /\ q = r[i + 1]
    BY <2>1 DEF Succeed
  <2>6. \A i \in 1 .. Len(s) : s # <<>>
    BY <1>1
  <2> QED
    BY <2>2, <2>3, <2>4, <2>5, <2>6 DEF Succeed, Final
<1> QED
  BY <1>1, <1>2, <1>3, <1>4 DEF Longer

\* None of it beyond block m.
Laid(c, g, n, m) ==
  /\ Sound(c, g, n)
  /\ \A t \in Places : t > m => g[t] = {}
  /\ \A b \in Blocks : \A t : Goes(c, b, t) => t \in 0 .. m

\* From c to d the point n is evaluated in b.
Evaluated(c, g, b, n, d) ==
  /\ d \in [Blocks -> Contents] /\ \A e \in Blocks : e # b => d[e] = c[e]
  /\ d[b].ends = c[b].ends /\ ~Quiet(d, b) /\ Out(d, g, b) = {n}
  /\ \A t, q : Begins(c, t, q) => Begins(d, t, q)
  /\ Quiet(c, b) => Begins(d, b, n)
  /\ \A p \in Nat, q \in Nat : Linked(d, g, p, q) <=> Linked(c, g, p, q) \/ (p \in Out(c, g, b) /\ q = n)

\* From c to d the block b branches to T.
Branched(c, b, T, d) ==
  /\ d \in [Blocks -> Contents] /\ \A e \in Blocks : e # b => d[e] = c[e]
  /\ Done(d, b) /\ \A t : Goes(d, b, t) <=> t \in T
  /\ \A e \in Blocks : d[e].points = c[e].points
  /\ \A t, q : Begins(d, t, q) <=> Begins(c, t, q)

\* From c and g to d and h the points X get to T.
Passes(c, g, X, T, d, h) ==
  /\ \A t \in Places : (t \in T => h[t] = g[t] \cup X) /\ (t \notin T => h[t] = g[t])
  /\ \A p \in Nat, q \in Nat :
       Linked(d, h, p, q) <=> Linked(c, g, p, q) \/ (p \in X /\ \E t \in T : Begins(c, t, q))

LEMMA EvaluateShape ==
  ASSUME NEW c \in [Blocks -> Contents], NEW b \in Blocks, NEW n \in Nat, NEW d, d = Evaluate(c, b, n)
  PROVE  /\ d \in [Blocks -> Contents] /\ \A e \in Blocks : e # b => d[e] = c[e]
         /\ d[b].ends = c[b].ends /\ d[b].points = Append(c[b].points, n) /\ c[b].points \in Seq(Nat)
<1>1. c[b] \in Contents /\ c[b].points \in Seq(Nat)
  BY DEF Contents
<1>2. d[b].points = Append(c[b].points, n)
  BY DEF Evaluate
<1> QED
  BY <1>1, <1>2, EvaluateFacts

LEMMA BranchShape ==
  ASSUME NEW c \in [Blocks -> Contents], NEW b \in Blocks, ~Done(c, b), NEW T \in SUBSET Places,
         NEW d, d = Branch(c, b, T)
  PROVE  /\ d \in [Blocks -> Contents] /\ \A e \in Blocks : e # b => d[e] = c[e]
         /\ d[b].points = c[b].points /\ Done(d, b) /\ d[b].ends[1] = T
<1>1. c[b] \in Contents /\ c[b].ends = <<>>
  BY DEF Done
<1>2. /\ d[b] = [c[b] EXCEPT !.ends = Append(@, T)]
  BY DEF Branch
<1>3. d[b].points = c[b].points /\ d[b].ends = Append(<<>>, T)
  BY <1>1, <1>2 DEF Contents
<1>4. Append(<<>>, T) = <<T>> /\ <<T>>[1] = T
  OBVIOUS
<1> QED
  BY <1>3, <1>4, BranchFacts DEF Done, Places

\* A point is evaluated in an open block.
LEMMA AddPoint ==
  ASSUME NEW c \in [Blocks -> Contents], NEW g \in Gains, NEW n \in Nat, NEW m \in Nat, Laid(c, g, n, m),
         NEW b \in Blocks, ~Done(c, b), NEW d, d = Evaluate(c, b, n + 1)
  PROVE  Laid(d, g, n + 1, m) /\ Evaluated(c, g, b, n + 1, d)
<1>0. Sound(c, g, n)
  BY DEF Laid
<1> DEFINE s == c[b].points
           r == d[b].points
<1>1. /\ d \in [Blocks -> Contents] /\ \A e \in Blocks : e # b => d[e] = c[e]
      /\ d[b].ends = c[b].ends /\ r = Append(s, n + 1) /\ s \in Seq(Nat)
  BY EvaluateShape, n + 1 \in Nat
<1>2. /\ r # <<>> /\ Final(r) = n + 1
      /\ (s = <<>> => r[1] = n + 1) /\ (s # <<>> => r[1] = s[1])
      /\ \A p, q : Succeed(r, p, q) <=> Succeed(s, p, q) \/ (s # <<>> /\ p = Final(s) /\ q = n + 1)
  <2> HIDE DEF s, r
  <2>1. PICK k \in Nat : k = n + 1
    OBVIOUS
  <2>2. r = Append(s, k)
    BY <1>1, <2>1
  <2>3. Longer(s, k, r)
    BY <1>1, <2>1, <2>2, AppendPoint
  <2> QED
    BY <2>1, <2>3 DEF Longer
<1> HIDE DEF s, r
<1>3. ~Quiet(d, b) /\ ~Done(d, b) /\ Out(d, g, b) = {n + 1} /\ (Quiet(c, b) <=> s = <<>>)
  BY <1>1, <1>2 DEF Quiet, Done, Out, s, r
<1>4. \A e \in Blocks : e # b => /\ Quiet(d, e) <=> Quiet(c, e)
                                 /\ Out(d, g, e) = Out(c, g, e)
                                 /\ Final(d[e].points) = Final(c[e].points)
  BY <1>1 DEF Quiet, Out
<1>5. \A e \in Blocks : /\ Done(d, e) <=> Done(c, e)
                        /\ \A t : Goes(d, e, t) <=> Goes(c, e, t)
  BY <1>1 DEF Done, Goes
<1>6. \A e \in Blocks : Done(c, e) => e # b
  OBVIOUS
<1>7. Carried(d, g)
  <2>1. ASSUME NEW t \in Places, NEW p \in Nat
        PROVE  p \in g[t] <=> \E e \in Blocks : Goes(d, e, t) /\ p \in Out(d, g, e)
    <3>1. p \in g[t] <=> \E e \in Blocks : Goes(c, e, t) /\ p \in Out(c, g, e)
      BY <1>0 DEF Sound, Carried
    <3>2. \A e \in Blocks : Goes(c, e, t) => e # b
      BY <1>6 DEF Goes
    <3> QED
      BY <1>4, <1>5, <3>1, <3>2
  <2>2. ASSUME NEW t \in Places, NEW p \in g[t]
        PROVE  \E e \in Blocks : Done(d, e) /\ ~Quiet(d, e) /\ p = Final(d[e].points)
    <3>1. \E e \in Blocks : Done(c, e) /\ ~Quiet(c, e) /\ p = Final(c[e].points)
      BY <1>0 DEF Sound, Carried
    <3> QED
      BY <1>4, <1>5, <1>6, <3>1
  <2> QED
    BY <2>1, <2>2 DEF Carried
<1>8. Grounded(d)
  <2>1. Idle(d) = Idle(c)
    BY <1>4, <1>5, <1>6 DEF Idle
  <2>2. \A e, f \in Idle(c) : Goes(d, e, f) <=> Goes(c, e, f)
    BY <1>5 DEF Idle
  <2>3. \A S \in SUBSET Idle(c) : S # {} =>
          /\ \E e \in S : \A f \in S : ~Goes(c, e, f)
          /\ \E e \in S : \A f \in S : ~Goes(c, f, e)
    BY <1>0 DEF Sound, Grounded
  <2> SUFFICES ASSUME NEW S \in SUBSET Idle(c), S # {}
               PROVE  /\ \E e \in S : \A f \in S : ~Goes(d, e, f)
                      /\ \E e \in S : \A f \in S : ~Goes(d, f, e)
    BY <2>1 DEF Grounded
  <2>4. PICK e \in S : \A f \in S : ~Goes(c, e, f)
    BY <2>3
  <2>5. PICK e2 \in S : \A f \in S : ~Goes(c, f, e2)
    BY <2>3
  <2> QED
    BY <2>2, <2>4, <2>5
<1>9. OnePlace(d, n + 1)
  <2>1. \A e \in Blocks : e # b /\ ~Quiet(d, e) => Final(d[e].points) \in 1 .. n
    BY <1>0, <1>4 DEF Sound, OnePlace
  <2>2. \A k \in 1 .. n : k \in 1 .. n + 1 /\ k # n + 1
    OBVIOUS
  <2>3. Final(d[b].points) = n + 1 /\ n + 1 \in 1 .. n + 1
    BY <1>2 DEF r
  <2>4. \A e, f \in Blocks : e # b /\ f # b /\ ~Quiet(d, e) /\ ~Quiet(d, f)
                             /\ Final(d[f].points) = Final(d[e].points) => f = e
    BY <1>0, <1>4 DEF Sound, OnePlace
  <2> QED
    BY <2>1, <2>2, <2>3, <2>4 DEF OnePlace
<1>10. /\ \A t, q : Begins(c, t, q) => Begins(d, t, q)
       /\ Quiet(c, b) => Begins(d, b, n + 1)
       /\ \A t, q : Begins(d, t, q) => Begins(c, t, q) \/ (t = b /\ s = <<>> /\ q = n + 1)
  <2>1. 0 \notin Blocks
    BY DEF Blocks
  <2>2. (s = <<>> => d[b].points[1] = n + 1) /\ (s # <<>> => d[b].points[1] = c[b].points[1])
    BY <1>2 DEF s, r
  <2>3. \A t \in Blocks : t # b => d[t].points[1] = c[t].points[1]
    BY <1>1
  <2> QED
    BY <1>3, <1>4, <2>1, <2>2, <2>3 DEF Begins
<1>11. ASSUME NEW p \in Nat, NEW q \in Nat
       PROVE  Linked(d, g, p, q) <=> Linked(c, g, p, q) \/ (p \in Out(c, g, b) /\ q = n + 1)
  <2>1. (\E e \in Blocks : Succeed(d[e].points, p, q)) <=>
          (\E e \in Blocks : Succeed(c[e].points, p, q)) \/ (s # <<>> /\ p = Final(s) /\ q = n + 1)
    <3>1. \A e \in Blocks : e # b => (Succeed(d[e].points, p, q) <=> Succeed(c[e].points, p, q))
      BY <1>1
    <3>2. Succeed(d[b].points, p, q) <=>
            Succeed(c[b].points, p, q) \/ (s # <<>> /\ p = Final(s) /\ q = n + 1)
      BY <1>2 DEF s, r
    <3> QED
      BY <3>1, <3>2
  <2>2. (\E t \in Places : p \in g[t] /\ Begins(d, t, q)) <=>
          (\E t \in Places : p \in g[t] /\ Begins(c, t, q)) \/ (s = <<>> /\ p \in g[b] /\ q = n + 1)
    <3>1. b \in Places
      BY DEF Places, Blocks
    <3> QED
      BY <1>3, <1>10, <3>1
  <2>3. p \in Out(c, g, b) <=> (s = <<>> /\ p \in g[b]) \/ (s # <<>> /\ p = Final(s))
    BY DEF Out, Quiet, s
  <2> QED
    BY <2>1, <2>2, <2>3 DEF Linked
<1>12. Laid(d, g, n + 1, m)
  BY <1>5, <1>7, <1>8, <1>9 DEF Laid, Sound
<1> QED
  BY <1>1, <1>3, <1>10, <1>11, <1>12 DEF Evaluated

\* What the blocks T gain when X gets to them.
Plus(g, T, X) == [t \in Places |-> IF t \in T THEN g[t] \cup X ELSE g[t]]

\* An open block branches to others, which have a point or are still open.
LEMMA AddEdge ==
  ASSUME NEW c \in [Blocks -> Contents], NEW g \in Gains, NEW n \in Nat, NEW m \in Nat, m <= MaxBlocks,
         Laid(c, g, n, m), NEW b \in Blocks, ~Done(c, b), NEW T \in SUBSET (0 .. m),
         \A t \in T : t \in Blocks => ~Quiet(c, t) \/ (~Done(c, t) /\ t # b),
         NEW h, h = Plus(g, T, Out(c, g, b)), NEW d, d = Branch(c, b, T)
  PROVE  Laid(d, h, n, m) /\ h \in Gains /\ Branched(c, b, T, d) /\ Passes(c, g, Out(c, g, b), T, d, h)
<1>0. Sound(c, g, n) /\ T \in SUBSET Places /\ MaxBlocks \in Nat
  BY FlowAssumption DEF Laid, Places
<1> DEFINE X == Out(c, g, b)
<1>1. /\ d \in [Blocks -> Contents] /\ \A e \in Blocks : e # b => d[e] = c[e]
      /\ d[b].points = c[b].points /\ Done(d, b) /\ d[b].ends[1] = T
  BY <1>0, BranchShape
<1>2. \A e \in Blocks : d[e].points = c[e].points /\ (Quiet(d, e) <=> Quiet(c, e))
  BY <1>1 DEF Quiet
<1>3. /\ \A e \in Blocks : Done(d, e) <=> Done(c, e) \/ e = b
      /\ \A e \in Blocks : \A t : Goes(d, e, t) <=> Goes(c, e, t) \/ (e = b /\ t \in T)
  <2>1. \A e \in Blocks : e # b => (Done(d, e) <=> Done(c, e)) /\ \A t : Goes(d, e, t) <=> Goes(c, e, t)
    BY <1>1 DEF Done, Goes
  <2>2. \A t : (Goes(d, b, t) <=> t \in T) /\ ~Goes(c, b, t)
    BY <1>1 DEF Goes
  <2> QED
    BY <1>1, <2>1, <2>2
<1>4. X \in SUBSET Nat
  <2>1. b \in Places
    BY DEF Places, Blocks
  <2>2. ~Quiet(c, b) => Final(c[b].points) \in Nat
    BY <1>0 DEF Sound, OnePlace
  <2> QED
    BY <2>1, <2>2 DEF Out, Gains
<1> HIDE DEF X
<1>5. h \in Gains /\ \A t \in Places : h[t] = IF t \in T THEN g[t] \cup X ELSE g[t]
  BY <1>4 DEF Plus, Gains, X
<1>6. \A e \in Blocks : Done(d, e) => Out(d, h, e) = Out(c, g, e)
  <2> SUFFICES ASSUME NEW e \in Blocks, Done(d, e) PROVE Out(d, h, e) = Out(c, g, e)
    OBVIOUS
  <2>1. CASE ~Quiet(c, e)
    BY <1>2, <2>1 DEF Out
  <2>2. CASE Quiet(c, e)
    <3>1. e \notin T /\ e \in Places
      BY <1>3, <2>2 DEF Places, Blocks
    <3>2. h[e] = g[e]
      BY <1>5, <3>1
    <3> QED
      BY <1>2, <2>2, <3>2 DEF Out
  <2> QED
    BY <2>1, <2>2
<1>7. Carried(d, h)
  <2>1. ASSUME NEW t \in Places, NEW p \in Nat
        PROVE  p \in h[t] <=> \E e \in Blocks : Goes(d, e, t) /\ p \in Out(d, h, e)
    <3>1. p \in g[t] <=> \E e \in Blocks : Goes(c, e, t) /\ p \in Out(c, g, e)
      BY <1>0 DEF Sound, Carried
    <3>2. p \in h[t] <=> p \in g[t] \/ (t \in T /\ p \in X)
      BY <1>5
    <3>3. \A e \in Blocks : Goes(d, e, t) => Out(d, h, e) = Out(c, g, e)
      BY <1>6 DEF Goes
    <3>4. (\E e \in Blocks : Goes(d, e, t) /\ p \in Out(d, h, e)) <=>
            (\E e \in Blocks : Goes(c, e, t) /\ p \in Out(c, g, e)) \/ (t \in T /\ p \in X)
      BY <1>3, <3>3 DEF X
    <3> QED
      BY <3>1, <3>2, <3>4
  <2>2. ASSUME NEW t \in Places, NEW p \in h[t]
        PROVE  \E e \in Blocks : Done(d, e) /\ ~Quiet(d, e) /\ p = Final(d[e].points)
    <3>1. \A u \in Places : \A x \in g[u] : \E e \in Blocks : Done(c, e) /\ ~Quiet(c, e) /\ x = Final(c[e].points)
      BY <1>0 DEF Sound, Carried
    <3>2. CASE p \in g[t]
      BY <1>2, <1>3, <3>1, <3>2
    <3>3. CASE p \in X /\ Quiet(c, b)
      <4>1. p \in g[b] /\ b \in Places
        BY <3>3 DEF X, Out, Places, Blocks
      <4> QED
        BY <1>2, <1>3, <3>1, <4>1
    <3>4. CASE p \in X /\ ~Quiet(c, b)
      <4>1. p = Final(c[b].points)
        BY <3>4 DEF X, Out
      <4> QED
        BY <1>1, <1>2, <3>4, <4>1
    <3> QED
      BY <1>5, <3>2, <3>3, <3>4
  <2> QED
    BY <2>1, <2>2 DEF Carried
<1>8. Grounded(d)
  <2>1. /\ Idle(d) \subseteq Idle(c) \cup {b} /\ Idle(d) \subseteq Blocks
        /\ \A e \in Idle(d) : e \notin T
    BY <1>2, <1>3 DEF Idle
  <2>2. \A S \in SUBSET Idle(c) : S # {} =>
          /\ \E e \in S : \A f \in S : ~Goes(c, e, f)
          /\ \E e \in S : \A f \in S : ~Goes(c, f, e)
    BY <1>0 DEF Sound, Grounded
  <2>3. \A e, f \in Idle(d) : Goes(d, e, f) => Goes(c, e, f) /\ e # b
    <3>1. \A t : ~Goes(c, b, t)
      BY DEF Goes
    <3> QED
      BY <1>3, <2>1, <3>1
  <2> SUFFICES ASSUME NEW S \in SUBSET Idle(d), S # {}
               PROVE  /\ \E e \in S : \A f \in S : ~Goes(d, e, f)
                      /\ \E e \in S : \A f \in S : ~Goes(d, f, e)
    BY DEF Grounded
  <2> DEFINE R == S \ {b}
  <2>4. R \in SUBSET Idle(c)
    BY <2>1
  <2>5. CASE R = {}
    BY <2>3, <2>5
  <2>6. CASE R # {}
    <3>1. PICK e \in R : \A f \in R : ~Goes(c, f, e)
      BY <2>2, <2>4, <2>6
    <3>2. \A f \in S : ~Goes(d, f, e)
      BY <2>3, <3>1
    <3>3. PICK x \in R : \A f \in R : ~Goes(c, x, f)
      BY <2>2, <2>4, <2>6
    <3>4. CASE b \in S
      BY <2>3, <3>2, <3>4
    <3>5. CASE b \notin S
      BY <2>3, <3>2, <3>3, <3>5
    <3> QED
      BY <3>4, <3>5
  <2> QED
    BY <2>5, <2>6
<1>9. OnePlace(d, n)
  <2>1. OnePlace(c, n)
    BY <1>0 DEF Sound
  <2> QED
    BY <1>2, <2>1 DEF OnePlace
<1>10. \A t, q : Begins(d, t, q) <=> Begins(c, t, q)
  BY <1>2 DEF Begins
<1>11. ASSUME NEW p \in Nat, NEW q \in Nat
       PROVE  Linked(d, h, p, q) <=> Linked(c, g, p, q) \/ (p \in X /\ \E t \in T : Begins(c, t, q))
  <2>1. (\E e \in Blocks : Succeed(d[e].points, p, q)) <=> (\E e \in Blocks : Succeed(c[e].points, p, q))
    BY <1>2
  <2>2. (\E t \in Places : p \in h[t] /\ Begins(d, t, q)) <=>
          (\E t \in Places : p \in g[t] /\ Begins(c, t, q)) \/ (p \in X /\ \E t \in T : Begins(c, t, q))
    <3>1. \A t \in Places : p \in h[t] <=> p \in g[t] \/ (t \in T /\ p \in X)
      BY <1>5
    <3> QED
      BY <1>0, <1>10, <3>1
  <2> QED
    BY <2>1, <2>2 DEF Linked
<1>12. \A t : Goes(d, b, t) <=> t \in T
  BY <1>1 DEF Goes
<1>13. Laid(d, h, n, m)
  <2>1. \A t \in Places : t > m => h[t] = {}
    <3>1. \A t \in Places : t > m => g[t] = {} /\ t \notin T
      BY DEF Laid, Places
    <3> QED
      BY <1>5, <3>1
  <2>2. \A e \in Blocks : \A t : Goes(d, e, t) => t \in 0 .. m
    BY <1>3 DEF Laid
  <2> QED
    BY <1>7, <1>8, <1>9, <2>1, <2>2 DEF Laid, Sound
<1>14. Branched(c, b, T, d)
  BY <1>1, <1>2, <1>10, <1>12 DEF Branched
<1>15. Passes(c, g, X, T, d, h)
  BY <1>5, <1>11 DEF Passes
<1> QED
  BY <1>5, <1>13, <1>14, <1>15 DEF X

\* Points that get nowhere change nothing.
LEMMA NothingPasses ==
  ASSUME NEW c, NEW g \in Gains, NEW T, NEW h, h = Plus(g, T, {})
  PROVE  h = g /\ Passes(c, g, {}, T, c, h)
<1>1. h = g
  BY DEF Plus, Gains
<1> QED
  BY <1>1 DEF Passes

\* From c to d the block b is closed.
Closes(c, b, d) ==
  /\ d \in [Blocks -> Contents] /\ \A e \in Blocks : e # b => d[e] = c[e]
  /\ Done(d, b)
  /\ \A t, q : Begins(d, t, q) <=> Begins(c, t, q)

\* A branch at the end of a code block, which is not made after a jump.
LEMMA AddEdgeIfOpen ==
  ASSUME NEW c \in [Blocks -> Contents], NEW g \in Gains, NEW n \in Nat, NEW m \in Nat, m <= MaxBlocks,
         Laid(c, g, n, m), NEW b \in Blocks, NEW t \in 0 .. m,
         t \in Blocks => ~Quiet(c, t) \/ (~Done(c, t) /\ t # b),
         NEW X, Done(c, b) => X = {}, ~Done(c, b) => X = Out(c, g, b),
         NEW h, h = Plus(g, {t}, X), NEW d, d = BranchIfOpen(c, b, t)
  PROVE  Laid(d, h, n, m) /\ h \in Gains /\ Passes(c, g, X, {t}, d, h) /\ Closes(c, b, d)
<1>1. CASE Done(c, b)
  <2>1. d = c
    BY <1>1 DEF Done, BranchIfOpen
  <2>2. X = {}
    BY <1>1
  <2>3. h = g /\ Passes(c, g, X, {t}, c, h)
    BY <2>2, NothingPasses
  <2>4. Closes(c, b, d)
    BY <1>1, <2>1 DEF Closes
  <2> QED
    BY <2>1, <2>3, <2>4
<1>2. CASE ~Done(c, b)
  <2>1. d = Branch(c, b, {t}) /\ X = Out(c, g, b)
    BY <1>2 DEF Done, BranchIfOpen
  <2>2. {t} \in SUBSET (0 .. m) /\ \A u \in {t} : u \in Blocks => ~Quiet(c, u) \/ (~Done(c, u) /\ u # b)
    OBVIOUS
  <2>3. Laid(d, h, n, m) /\ h \in Gains /\ Branched(c, b, {t}, d) /\ Passes(c, g, X, {t}, d, h)
    BY <1>2, <2>1, <2>2, AddEdge
  <2>4. Closes(c, b, d)
    BY <2>3 DEF Branched, Closes
  <2> QED
    BY <2>3, <2>4
<1> QED
  BY <1>1, <1>2

\* From c and g to d and h a new block k is entered from b, and the point n evaluated in it.
Headway(c, g, b, k, n, d, h) ==
  /\ d \in [Blocks -> Contents] /\ h \in Gains
  /\ \A e \in Blocks : e # b /\ e # k => d[e] = c[e]
  /\ Done(d, b) /\ ~Done(d, k) /\ ~Quiet(d, k) /\ Out(d, h, k) = {n} /\ Begins(d, k, n)
  /\ \A e \in Places : e # k => h[e] = g[e]
  /\ \A t, q : Begins(c, t, q) => Begins(d, t, q)
  /\ \A p \in Nat, q \in Nat : Linked(d, h, p, q) <=> Linked(c, g, p, q) \/ (p \in Out(c, g, b) /\ q = n)

LEMMA AddHead ==
  ASSUME NEW c \in [Blocks -> Contents], NEW g \in Gains, NEW n \in Nat, NEW m \in Nat, m <= MaxBlocks,
         Laid(c, g, n, m), NEW b \in Blocks, ~Done(c, b), NEW k \in Blocks, k <= m, k # b,
         c[k] = Empty, g[k] = {}, NEW d, d = Headed(c, b, k, n + 1)
  PROVE  \E h : Laid(d, h, n + 1, m) /\ Headway(c, g, b, k, n + 1, d, h)
<1> DEFINE X == Out(c, g, b)
<1>1. PICK e : e = Branch(c, b, {k})
  OBVIOUS
<1>2. PICK h : h = Plus(g, {k}, X)
  OBVIOUS
<1>3. Quiet(c, k) /\ ~Done(c, k)
  BY DEF Quiet, Done, Empty
<1>4. k \in 0 .. m /\ k \in Places
  BY DEF Blocks, Places
<1>5. Laid(e, h, n, m) /\ h \in Gains /\ Branched(c, b, {k}, e) /\ Passes(c, g, X, {k}, e, h)
  <2>1. {k} \in SUBSET (0 .. m) /\ \A u \in {k} : u \in Blocks => ~Quiet(c, u) \/ (~Done(c, u) /\ u # b)
    BY <1>3, <1>4
  <2> QED
    BY <1>1, <1>2, <2>1, AddEdge
<1> HIDE DEF X
<1>6. e \in [Blocks -> Contents] /\ Done(e, b) /\ ~Done(e, k) /\ Quiet(e, k)
      /\ \A f \in Blocks : f # b => e[f] = c[f]
      /\ \A t, q : Begins(c, t, q) => Begins(e, t, q)
  BY <1>3, <1>5 DEF Branched, Done, Quiet
<1>7. h[k] = X /\ \A t \in Places : t # k => h[t] = g[t]
  BY <1>4, <1>5 DEF Passes
<1>8. d = Evaluate(e, k, n + 1)
  BY <1>1 DEF Headed
<1>9. Laid(d, h, n + 1, m) /\ Evaluated(e, h, k, n + 1, d)
  BY <1>5, <1>6, <1>8, AddPoint
<1>10. Out(e, h, k) = X
  BY <1>6, <1>7 DEF Out
<1>11. \A q : ~Begins(c, k, q)
  BY <1>3 DEF Begins, Blocks
<1>12. \A p \in Nat, q \in Nat : Linked(e, h, p, q) <=> Linked(c, g, p, q)
  BY <1>5, <1>11 DEF Passes
<1>13. \A p \in Nat, q \in Nat : Linked(d, h, p, q) <=> Linked(c, g, p, q) \/ (p \in X /\ q = n + 1)
  BY <1>9, <1>10, <1>12 DEF Evaluated
<1>14. /\ d \in [Blocks -> Contents] /\ Done(d, b) /\ ~Done(d, k) /\ ~Quiet(d, k)
       /\ Out(d, h, k) = {n + 1} /\ Begins(d, k, n + 1)
       /\ \A f \in Blocks : f # b /\ f # k => d[f] = c[f]
       /\ \A t, q : Begins(c, t, q) => Begins(d, t, q)
  BY <1>6, <1>9 DEF Evaluated, Done
<1> QED
  BY <1>5, <1>7, <1>9, <1>13, <1>14 DEF Headway, X

------------------------------------------------------------------------------
\* What the blocks of a statement under way know of its place in the program.
Matches(f, o, g, c) ==
  /\ f.kind = "if" => /\ g[f.next] = o.outs \cup (IF f.alt = None THEN {o.head} ELSE {})
                      /\ f.alt # None => g[f.alt] = {o.head}
  /\ f.kind = "else" => g[f.next] = o.outs
  /\ f.kind = "for" => g[f.next] = o.outs \cup {o.head} /\ Begins(c, f.alt, o.head)
  /\ f.kind = "loop" => g[f.next] = o.outs /\ Begins(c, f.back, o.head)
  /\ f.kind = "while" => g[f.next] = o.outs \cup {o.head} /\ Begins(c, f.back, o.head)
  /\ f.kind = "do" => g[f.next] = o.outs /\ g[f.back] = o.conts /\ Begins(c, f.alt, o.head)

\* The latch of a for is ended with the statement: until then what gets there waits.
Waits(f, o, g, p, q) == f.kind = "for" /\ p \in g[f.back] /\ q = o.head
Awaited(g, p, q) == \E i \in 1 .. Len(frames) : Waits(frames[i], open[i], g, p, q)

Told(g) == \A p \in Nat, q \in Nat : <<p, q>> \in follow <=> Linked(code, g, p, q) \/ Awaited(g, p, q)
Here(g) ==
  ~ended => /\ Terminated(cur) <=> jumped
            /\ jumped => live = {}
            /\ ~jumped => live = Out(code, g, cur)
Kept(g) == \A i \in 1 .. Len(frames) : Matches(frames[i], open[i], g, code)
Holds(g) == g \in Gains /\ Laid(code, g, points, blocks) /\ Told(g) /\ Here(g) /\ Kept(g)

\* The blocks of break and continue are those of the innermost loop, before a loop in it.
LoopInv ==
  \A i \in 1 .. Len(open) : Flow!Innermost(i, open) /\ ~open[i].inner =>
    cont = frames[i].back /\ (open[i].kind # "do" => brk = frames[i].next)

FlowInv == odd = {} => LoopInv /\ \E g : Holds(g)

\* A statement keeps its place when nothing more gets to the blocks it has ahead.
SamePlace(i) ==
  /\ i \in 1 .. Len(frames) /\ frames'[i] = frames[i]
  /\ open'[i].head = open[i].head /\ open'[i].outs = open[i].outs /\ open'[i].conts = open[i].conts

LEMMA KeptPlace ==
  ASSUME IInv, NEW g, Kept(g), NEW h, NEW T, \A t \in Places : t \notin T => h[t] = g[t],
         \A t, q : Begins(code, t, q) => Begins(code', t, q),
         NEW i, SamePlace(i), PendingOf(frames[i]) \cap T = {}
  PROVE  /\ Matches(frames'[i], open'[i], h, code')
         /\ \A p, q : Waits(frames'[i], open'[i], h, p, q) <=> Waits(frames[i], open[i], g, p, q)
<1> PICK f : f = frames[i]
  OBVIOUS
<1> PICK o : o = open[i]
  OBVIOUS
<1> PICK u : u = open'[i]
  OBVIOUS
<1> PICK d : d = code'
  OBVIOUS
<1>1. f \in Frames /\ Shape(f) /\ Matches(f, o, g, code) /\ frames'[i] = f
      /\ u.head = o.head /\ u.outs = o.outs /\ u.conts = o.conts /\ PendingOf(f) \cap T = {}
  BY BlockFacts DEF IInv, StackInv, SamePlace, Kept
<1>2. Blocks \subseteq Places /\ None \notin Places
  BY FlowAssumption DEF Blocks, Places
<1>3. f.next \in Blocks /\ f.alt \in Blocks \cup {None} /\ f.back \in Blocks \cup {None}
  BY <1>1 DEF Frames, MaybeBlock
<1>4. /\ f.kind # "label" => f.next \in PendingOf(f)
      /\ f.kind = "if" /\ f.alt # None => f.alt \in PendingOf(f)
      /\ f.kind \in {"for", "do"} => f.back \in PendingOf(f) /\ f.back \in Blocks
  BY <1>1 DEF PendingOf, Shape, Loop
<1>5. /\ f.kind # "label" => h[f.next] = g[f.next]
      /\ f.kind = "if" /\ f.alt # None => h[f.alt] = g[f.alt]
      /\ f.kind \in {"for", "do"} => h[f.back] = g[f.back]
  BY <1>1, <1>2, <1>3, <1>4
<1>6. \A t, q : Begins(code, t, q) => Begins(d, t, q)
  OBVIOUS
<1>7. Matches(f, u, h, d)
  BY <1>1, <1>5, <1>6 DEF Matches
<1>8. \A p, q : Waits(f, u, h, p, q) <=> Waits(f, o, g, p, q)
  BY <1>1, <1>5 DEF Waits
<1> QED
  BY <1>1, <1>7, <1>8

\* The statements N keep their places, and the others have what they need.
Restacked(g, h, N) ==
  /\ Kept(h)'
  /\ \A p, q : Awaited(h, p, q)' <=>
       \/ \E i \in N : Waits(frames[i], open[i], g, p, q)
       \/ \E i \in 1 .. Len(frames') : i \notin N /\ Waits(frames'[i], open'[i], h, p, q)

LEMMA KeptStack ==
  ASSUME IInv, NEW g, Kept(g), NEW h, NEW T, \A t \in Places : t \notin T => h[t] = g[t],
         \A t, q : Begins(code, t, q) => Begins(code', t, q),
         NEW N, N \subseteq 1 .. Len(frames'), \A i \in N : SamePlace(i) /\ PendingOf(frames[i]) \cap T = {},
         \A i \in 1 .. Len(frames') : i \notin N => Matches(frames'[i], open'[i], h, code')
  PROVE  Restacked(g, h, N)
<1>1. \A i \in N : /\ Matches(frames'[i], open'[i], h, code')
                   /\ \A p, q : Waits(frames'[i], open'[i], h, p, q) <=> Waits(frames[i], open[i], g, p, q)
  BY KeptPlace
<1>2. Kept(h)'
  BY <1>1 DEF Kept
<1>3. \A p, q : Awaited(h, p, q)' <=> \E i \in 1 .. Len(frames') : Waits(frames'[i], open'[i], h, p, q)
  BY DEF Awaited, Waits
<1> QED
  BY <1>1, <1>2, <1>3 DEF Restacked

LEMMA OthersApart ==
  ASSUME IInv, NEW T, NEW i \in 1 .. Len(frames), T \cap Pending \subseteq PendingOf(frames[i])
  PROVE  \A j \in 1 .. Len(frames) : j # i => PendingOf(frames[j]) \cap T = {}
<1>1. \A j \in 1 .. Len(frames) : PendingOf(frames[j]) \subseteq Pending
  BY DEF Pending, PendingIn
<1>2. \A j \in 1 .. Len(frames) : j # i => PendingOf(frames[j]) \cap PendingOf(frames[i]) = {}
  BY DEF IInv, OwnerInv, Apart
<1> QED
  BY <1>1, <1>2

\* The stack is left alone.
LEMMA KeptKeep ==
  ASSUME IInv, NEW g, Kept(g), NEW h, NEW T, \A t \in Places : t \notin T => h[t] = g[t],
         \A t, q : Begins(code, t, q) => Begins(code', t, q),
         frames' = frames, open' = open, T \cap Pending = {}
  PROVE  Kept(h)' /\ \A p, q : Awaited(h, p, q)' <=> Awaited(g, p, q)
<1> DEFINE N == 1 .. Len(frames)
<1>1. \A i \in N : PendingOf(frames[i]) \subseteq Pending
  BY DEF Pending, PendingIn
<1>2. /\ N \subseteq 1 .. Len(frames')
      /\ \A i \in 1 .. Len(frames') : i \in N
      /\ \A i \in N : SamePlace(i) /\ PendingOf(frames[i]) \cap T = {}
  BY <1>1 DEF SamePlace
<1>3. \A p, q : Awaited(g, p, q) <=> \E i \in N : Waits(frames[i], open[i], g, p, q)
  BY DEF Awaited
<1> HIDE DEF N
<1>4. \A i \in 1 .. Len(frames') : i \notin N => Matches(frames'[i], open'[i], h, code')
  BY <1>2
<1>5. Restacked(g, h, N)
  BY <1>2, <1>4, KeptStack
<1> QED
  BY <1>2, <1>3, <1>5 DEF Restacked

\* One statement under way changes its sets of points.
Edited(g, h, i) ==
  Kept(h)' /\ \A p, q : Awaited(h, p, q)' <=> Awaited(g, p, q) \/ Waits(frames[i], open'[i], h, p, q)

LEMMA KeptEdit ==
  ASSUME IInv, NEW g, Kept(g), NEW h, NEW T, \A t \in Places : t \notin T => h[t] = g[t],
         \A t, q : Begins(code, t, q) => Begins(code', t, q),
         frames' = frames, NEW i \in 1 .. Len(frames), \A j \in 1 .. Len(frames) : j # i => open'[j] = open[j],
         T \cap Pending \subseteq PendingOf(frames[i]),
         Matches(frames[i], open'[i], h, code'),
         \A p, q : Waits(frames[i], open[i], g, p, q) => Waits(frames[i], open'[i], h, p, q)
  PROVE  Edited(g, h, i)
<1> DEFINE N == (1 .. Len(frames)) \ {i}
<1>1. \A j \in N : PendingOf(frames[j]) \cap T = {}
  BY OthersApart
<1>2. /\ N \subseteq 1 .. Len(frames')
      /\ \A j \in 1 .. Len(frames') : j \notin N <=> j = i
      /\ \A j \in N : SamePlace(j) /\ PendingOf(frames[j]) \cap T = {}
      /\ i \in 1 .. Len(frames')
  BY <1>1 DEF SamePlace
<1>3. \A p, q : Awaited(g, p, q) <=> (\E j \in N : Waits(frames[j], open[j], g, p, q)) \/ Waits(frames[i], open[i], g, p, q)
  BY DEF Awaited
<1> HIDE DEF N
<1>4. \A j \in 1 .. Len(frames') : j \notin N => Matches(frames'[j], open'[j], h, code')
  BY <1>2
<1>5. Restacked(g, h, N)
  BY <1>2, <1>4, KeptStack
<1>6. \A p, q : Awaited(h, p, q)' <=>
           (\E j \in N : Waits(frames[j], open[j], g, p, q)) \/ Waits(frames[i], open'[i], h, p, q)
  BY <1>2, <1>5 DEF Restacked
<1>7. Kept(h)'
  BY <1>5 DEF Restacked
<1> QED
  BY <1>3, <1>6, <1>7 DEF Edited

\* A statement is opened.
LEMMA KeptPush ==
  ASSUME IInv, NEW g, Kept(g), NEW h, NEW T, \A t \in Places : t \notin T => h[t] = g[t],
         \A t, q : Begins(code, t, q) => Begins(code', t, q),
         NEW f \in Frames, frames' = Append(frames, f), NEW o \in FlowFrames, open' = Append(open, o),
         T \cap Pending = {}, Matches(f, o, h, code'), f.kind = "for" => h[f.back] = {}
  PROVE  Kept(h)' /\ \A p, q : Awaited(h, p, q)' <=> Awaited(g, p, q)
<1> DEFINE N == 1 .. Len(frames)
           k == Len(frames) + 1
<1>0. frames \in Seq(Frames) /\ open \in Seq(FlowFrames) /\ Len(open) = Len(frames) /\ Len(frames) \in Nat
  BY BlockFacts, FlowTypeSplit DEF IInv, StackInv, Walk
<1>1. /\ Len(frames') = k /\ \A i \in N : frames'[i] = frames[i] /\ open'[i] = open[i]
      /\ frames'[k] = f /\ open'[k] = o
  BY <1>0
<1>2. \A i \in N : PendingOf(frames[i]) \subseteq Pending
  BY DEF Pending, PendingIn
<1>3. /\ N \subseteq 1 .. Len(frames')
      /\ \A i \in 1 .. Len(frames') : i \notin N <=> i = k
      /\ k \in 1 .. Len(frames')
  BY <1>0, <1>1
<1>4. \A i \in N : SamePlace(i) /\ PendingOf(frames[i]) \cap T = {}
  BY <1>1, <1>2 DEF SamePlace
<1>5. \A p, q : Awaited(g, p, q) <=> \E i \in N : Waits(frames[i], open[i], g, p, q)
  BY DEF Awaited
<1> HIDE DEF N, k
<1>6. \A i \in 1 .. Len(frames') : i \notin N => Matches(frames'[i], open'[i], h, code')
  BY <1>1, <1>3
<1>7. Restacked(g, h, N)
  BY <1>3, <1>4, <1>6, KeptStack
<1>9. \A p, q : \A i \in 1 .. Len(frames') : i \notin N => ~Waits(frames'[i], open'[i], h, p, q)
  <2> SUFFICES ASSUME NEW p, NEW q, NEW i \in 1 .. Len(frames'), i \notin N
               PROVE  ~Waits(frames'[i], open'[i], h, p, q)
    OBVIOUS
  <2>1. i = k
    BY <1>3
  <2>2. frames'[i] = f /\ open'[i] = o
    BY <1>1, <2>1
  <2> QED
    BY <2>2 DEF Waits
<1> QED
  BY <1>5, <1>7, <1>9 DEF Restacked

\* A statement is closed, or another one takes its place; those below keep their points.
Below ==
  /\ frames # <<>> /\ Len(open') = Len(frames')
  /\ \A i \in 1 .. Len(frames) - 1 :
       /\ frames'[i] = frames[i]
       /\ open'[i].head = open[i].head /\ open'[i].outs = open[i].outs /\ open'[i].conts = open[i].conts

LEMMA KeptPop ==
  ASSUME IInv, NEW g, Kept(g), NEW h, NEW T, \A t \in Places : t \notin T => h[t] = g[t],
         \A t, q : Begins(code, t, q) => Begins(code', t, q),
         Below, T \cap Pending \subseteq PendingOf(Top), Len(frames') = Len(frames) - 1
  PROVE  /\ Kept(h)'
         /\ \A p, q : Awaited(g, p, q) <=> Awaited(h, p, q)' \/ Waits(Top, Flow!Top, g, p, q)
<1> DEFINE N == 1 .. Len(frames) - 1
           k == Len(frames)
<1>0. /\ Len(frames) \in Nat \ {0} /\ Top = frames[k] /\ Flow!Top = open[k] /\ k \in 1 .. Len(frames)
      /\ \A i \in 1 .. Len(frames) : i \in N \/ i = k
      /\ \A i \in N : i \in 1 .. Len(frames) /\ i # k
  <2>1. Len(open) = Len(frames) /\ frames \in Seq(Frames) /\ frames # <<>>
    BY BlockFacts DEF IInv, StackInv, Below
  <2>2. Len(frames) \in Nat \ {0}
    BY <2>1, EmptySeq
  <2> QED
    BY <2>1, <2>2 DEF Top, Flow!Top
<1>1. \A i \in N : PendingOf(frames[i]) \cap T = {}
  BY <1>0, OthersApart
<1>2. \A i \in N : SamePlace(i) /\ PendingOf(frames[i]) \cap T = {}
  BY <1>0, <1>1 DEF SamePlace, Below
<1>3. N \subseteq 1 .. Len(frames') /\ \A i \in 1 .. Len(frames') : i \in N
  OBVIOUS
<1>5. \A p, q : Awaited(g, p, q) <=>
        (\E i \in N : Waits(frames[i], open[i], g, p, q)) \/ Waits(Top, Flow!Top, g, p, q)
  BY <1>0 DEF Awaited
<1> HIDE DEF N, k
<1>6. \A i \in 1 .. Len(frames') : i \notin N => Matches(frames'[i], open'[i], h, code')
  BY <1>3
<1>7. Restacked(g, h, N)
  BY <1>2, <1>3, <1>6, KeptStack
<1> QED
  BY <1>3, <1>5, <1>7 DEF Restacked

LEMMA KeptSwap ==
  ASSUME IInv, NEW g, Kept(g), NEW h, NEW T, \A t \in Places : t \notin T => h[t] = g[t],
         \A t, q : Begins(code, t, q) => Begins(code', t, q),
         Below, T \cap Pending \subseteq PendingOf(Top), Len(frames') = Len(frames),
         Top.kind # "for", frames'[Len(frames)].kind # "for",
         Matches(frames'[Len(frames)], open'[Len(frames)], h, code')
  PROVE  Kept(h)' /\ \A p, q : Awaited(h, p, q)' <=> Awaited(g, p, q)
<1> DEFINE N == 1 .. Len(frames) - 1
           k == Len(frames)
<1>0. /\ Len(frames) \in Nat \ {0} /\ Top = frames[k] /\ Flow!Top = open[k] /\ k \in 1 .. Len(frames)
      /\ \A i \in 1 .. Len(frames) : i \in N \/ i = k
      /\ \A i \in N : i \in 1 .. Len(frames) /\ i # k
  <2>1. Len(open) = Len(frames) /\ frames \in Seq(Frames) /\ frames # <<>>
    BY BlockFacts DEF IInv, StackInv, Below
  <2>2. Len(frames) \in Nat \ {0}
    BY <2>1, EmptySeq
  <2> QED
    BY <2>1, <2>2 DEF Top, Flow!Top
<1>1. \A i \in N : PendingOf(frames[i]) \cap T = {}
  BY <1>0, OthersApart
<1>2. \A i \in N : SamePlace(i) /\ PendingOf(frames[i]) \cap T = {}
  BY <1>0, <1>1 DEF SamePlace, Below
<1>3. N \subseteq 1 .. Len(frames') /\ \A i \in 1 .. Len(frames') : i \in N \/ i = k
  BY <1>0
<1>4. \A p, q : ~Waits(Top, Flow!Top, g, p, q) /\ ~Waits(frames'[k], open'[k], h, p, q)
  BY DEF Waits
<1>5. \A p, q : Awaited(g, p, q) <=> \E i \in N : Waits(frames[i], open[i], g, p, q)
  BY <1>0, <1>4 DEF Awaited
<1> HIDE DEF N
<1>6. \A i \in 1 .. Len(frames') : i \notin N => Matches(frames'[i], open'[i], h, code')
  BY <1>3
<1> HIDE DEF k
<1>7. Restacked(g, h, N)
  BY <1>2, <1>3, <1>6, KeptStack
<1> QED
  BY <1>3, <1>4, <1>5, <1>7 DEF Restacked

------------------------------------------------------------------------------
(* What the relation says of the state, and how the next one is put together. *)

LEMMA LaidUp ==
  ASSUME NEW c, NEW g, NEW n, NEW m \in Nat, NEW k \in Nat, m <= k, Laid(c, g, n, m)
  PROVE  Laid(c, g, n, k)
<1>1. \A t \in Places : t > k => t > m
  BY DEF Places
<1>2. 0 .. m \subseteq 0 .. k
  OBVIOUS
<1> QED
  BY <1>1, <1>2 DEF Laid

LEMMA OneBegin ==
  ASSUME NEW c, NEW t \in Blocks, NEW q, Begins(c, t, q)
  PROVE  ~Quiet(c, t) /\ \A r : Begins(c, t, r) <=> r = q
BY DEF Begins, Blocks

LEMMA CallerBegins == \A c, q : Begins(c, 0, q) <=> q = 0
BY DEF Begins, Blocks

\* A block that holds nothing.
Blank(c, b) == b \in Blocks /\ b \in Places /\ Quiet(c, b) /\ ~Done(c, b) /\ \A q : ~Begins(c, b, q)

LEMMA EmptyBlank == ASSUME NEW c, NEW b \in Blocks, c[b] = Empty PROVE Blank(c, b)
BY DEF Blank, Quiet, Done, Empty, Begins, Blocks, Places

LEMMA Now ==
  ASSUME IInv, NEW g, Holds(g)
  PROVE  /\ code \in [Blocks -> Contents] /\ g \in Gains /\ points \in Nat /\ points \in Nat \ {0}
         /\ blocks \in Nat /\ blocks <= MaxBlocks /\ MaxBlocks \in Nat
         /\ Laid(code, g, points, blocks) /\ Told(g) /\ Kept(g)
         /\ cur \in Blocks /\ cur \in Places /\ cur \in 0 .. blocks /\ 0 \notin Blocks
         /\ ~ended => /\ jumped <=> Done(code, cur)
                      /\ Done(code, cur) => live = {}
                      /\ ~Done(code, cur) => live = Out(code, g, cur)
         /\ \A b \in Pending : Blank(code, b) /\ b \in 0 .. blocks /\ b # cur
         /\ \A b \in Blocks : b > blocks => Blank(code, b) /\ code[b] = Empty /\ g[b] = {} /\ b # cur
         /\ 0 \notin Pending
<1>1. /\ blocks \in Nat \ {0} /\ blocks <= MaxBlocks /\ MaxBlocks \in Nat
      /\ cur \in Blocks /\ cur <= blocks /\ cur \notin Pending
      /\ \A b \in Pending : b \in Blocks /\ b <= blocks /\ code[b] = Empty
      /\ \A b \in Blocks : b > blocks => code[b] = Empty
      /\ code \in [Blocks -> Contents] /\ Flow!FlowTypeOK
  BY BlockFacts
<1>2. points \in Nat \ {0}
  BY <1>1 DEF Flow!FlowTypeOK
<1>3. g \in Gains /\ Laid(code, g, points, blocks) /\ Told(g) /\ Here(g) /\ Kept(g)
  BY DEF Holds
<1>4. ~ended => /\ jumped <=> Done(code, cur)
                /\ Done(code, cur) => live = {}
                /\ ~Done(code, cur) => live = Out(code, g, cur)
  BY <1>3 DEF Here, Terminated, Done
<1>5. \A b \in Pending : Blank(code, b) /\ b \in 0 .. blocks /\ b # cur
  BY <1>1, EmptyBlank DEF Blocks
<1>6. \A b \in Blocks : b > blocks => Blank(code, b) /\ code[b] = Empty /\ g[b] = {} /\ b # cur
  <2>1. \A b \in Blocks : b \in Places
    BY DEF Blocks, Places
  <2>2. \A t \in Places : t > blocks => g[t] = {}
    BY <1>3 DEF Laid
  <2>3. ~(cur > blocks)
    BY <1>1 DEF Blocks
  <2> QED
    BY <1>1, <2>1, <2>2, <2>3, EmptyBlank
<1>7. cur \in Places /\ cur \in 0 .. blocks /\ 0 \notin Blocks
  BY <1>1 DEF Blocks, Places
<1> QED
  BY <1>1, <1>2, <1>3, <1>4, <1>5, <1>6, <1>7

\* The steps of the program that stay within the properties.
LEMMA Plainly ==
  ASSUME NEW notes, Flow!Statement(notes), odd' = {}
  PROVE  odd = {} /\ notes = {} /\ ~jumped /\ ~ended /\ ~ended'
BY DEF Flow!Statement

LEMMA ToldNext ==
  ASSUME NEW g, Told(g), NEW h, NEW E, follow' = follow \cup E,
         \A p \in Nat, q \in Nat : Linked(code', h, p, q) \/ Awaited(h, p, q)' <=>
           Linked(code, g, p, q) \/ Awaited(g, p, q) \/ <<p, q>> \in E
  PROVE  Told(h)'
BY DEF Told

LEMMA ToldSame ==
  ASSUME NEW g, Told(g), NEW h, follow' = follow,
         \A p \in Nat, q \in Nat : Linked(code', h, p, q) \/ Awaited(h, p, q)' <=>
           Linked(code, g, p, q) \/ Awaited(g, p, q)
  PROVE  Told(h)'
BY DEF Told

LEMMA HereNext ==
  ASSUME NEW h, jumped' <=> Done(code', cur'), jumped' => live' = {}, ~jumped' => live' = Out(code', h, cur')
  PROVE  Here(h)'
BY DEF Here, Terminated, Done

LEMMA HoldsNext ==
  ASSUME NEW h \in Gains, Laid(code', h, points', blocks'), Told(h)', Here(h)', Kept(h)'
  PROVE  \E k : Holds(k)'
BY DEF Holds

LEMMA LoopKeep ==
  ASSUME LoopInv, UNCHANGED <<frames, brk, cont>>, Len(open') = Len(open),
         \A i \in 1 .. Len(open) : open'[i].kind = open[i].kind /\ open'[i].inner = open[i].inner
  PROVE  LoopInv'
<1>1. Flow!LoopsOf(open') = Flow!LoopsOf(open)
  BY DEF Flow!LoopsOf
<1>2. \A i : Flow!Innermost(i, open') <=> Flow!Innermost(i, open)
  BY <1>1 DEF Flow!Innermost
<1> QED
  BY <1>2 DEF LoopInv

------------------------------------------------------------------------------
(* The steps of the generator, one by one.                                 *)

LEMMA FlowPlain ==
  ASSUME IInv, LoopInv, NEW g, Holds(g), odd' = {}, Plain
  PROVE  LoopInv' /\ \E h : Holds(h)'
<1>1. /\ odd = {} /\ ~jumped /\ ~ended /\ points' = points + 1 /\ follow' = follow \cup (live \X {points + 1})
      /\ live' = {points + 1} /\ open' = open /\ jumped' = jumped /\ code' = Evaluate(code, cur, points + 1)
      /\ UNCHANGED <<blocks, cur, brk, cont, frames>>
  <2>1. Flow!Statement({})
    BY DEF Plain, Flow!Plain
  <2> QED
    BY <2>1, Plainly DEF Plain, Flow!Plain, Flow!Arrive, Flow!New, builder
<1>2. /\ code \in [Blocks -> Contents] /\ g \in Gains /\ points \in Nat /\ blocks \in Nat /\ cur \in Blocks
      /\ Laid(code, g, points, blocks) /\ Told(g) /\ Kept(g)
      /\ ~Done(code, cur) /\ live = Out(code, g, cur)
  BY <1>1, Now
<1>3. Laid(code', g, points + 1, blocks) /\ Evaluated(code, g, cur, points + 1, code')
  BY <1>1, <1>2, AddPoint
<1>4. ~Done(code', cur) /\ Out(code', g, cur) = {points + 1}
  BY <1>2, <1>3 DEF Evaluated, Done
<1>5. Kept(g)' /\ \A p, q : Awaited(g, p, q)' <=> Awaited(g, p, q)
  <2>1. \A t, q : Begins(code, t, q) => Begins(code', t, q)
    BY <1>3 DEF Evaluated
  <2> QED
    BY <1>1, <1>2, <2>1, KeptKeep, {} \cap Pending = {}
<1>6. Told(g)'
  <2>1. \A p \in Nat, q \in Nat : Linked(code', g, p, q) <=> Linked(code, g, p, q) \/ <<p, q>> \in live \X {points + 1}
    BY <1>2, <1>3 DEF Evaluated
  <2> QED
    BY <1>1, <1>2, <1>5, <2>1, ToldNext
<1>7. Here(g)'
  BY <1>1, <1>4, HereNext
<1>8. LoopInv'
  BY <1>1, LoopKeep
<1> QED
  BY <1>1, <1>2, <1>3, <1>5, <1>6, <1>7, <1>8, HoldsNext

LEMMA FlowReturn ==
  ASSUME IInv, LoopInv, NEW g, Holds(g), odd' = {}, Return
  PROVE  LoopInv' /\ \E h : Holds(h)'
<1>1. /\ odd = {} /\ ~jumped /\ ~ended /\ points' = points /\ follow' = follow \cup (live \X {0})
      /\ live' = {} /\ open' = open /\ jumped' = TRUE /\ code' = Branch(code, cur, {0})
      /\ UNCHANGED <<blocks, cur, brk, cont, frames>>
  <2>1. Flow!Statement({})
    BY DEF Return, Flow!Return
  <2> QED
    BY <2>1, Plainly DEF Return, Flow!Return, builder
<1>2. /\ code \in [Blocks -> Contents] /\ g \in Gains /\ points \in Nat /\ blocks \in Nat /\ blocks <= MaxBlocks
      /\ cur \in Blocks /\ Laid(code, g, points, blocks) /\ Told(g) /\ Kept(g)
      /\ ~Done(code, cur) /\ live = Out(code, g, cur) /\ 0 \notin Pending /\ 0 \notin Blocks
  BY <1>1, Now
<1>3. PICK h : h = Plus(g, {0}, live)
  OBVIOUS
<1>4. Laid(code', h, points, blocks) /\ h \in Gains /\ Branched(code, cur, {0}, code')
      /\ Passes(code, g, live, {0}, code', h)
  <2>1. {0} \in SUBSET (0 .. blocks) /\ \A t \in {0} : t \in Blocks => ~Quiet(code, t) \/ (~Done(code, t) /\ t # cur)
    BY <1>2
  <2> QED
    BY <1>1, <1>2, <1>3, <2>1, AddEdge
<1>5. Kept(h)' /\ \A p, q : Awaited(h, p, q)' <=> Awaited(g, p, q)
  <2>1. \A t, q : Begins(code, t, q) => Begins(code', t, q)
    BY <1>4 DEF Branched
  <2>2. \A t \in Places : t \notin {0} => h[t] = g[t]
    BY <1>4 DEF Passes
  <2>3. {0} \cap Pending = {}
    BY <1>2
  <2> QED
    BY <1>1, <1>2, <2>1, <2>2, <2>3, KeptKeep
<1>6. Told(h)'
  <2>1. \A p \in Nat, q \in Nat : Linked(code', h, p, q) <=> Linked(code, g, p, q) \/ <<p, q>> \in live \X {0}
    BY <1>4, CallerBegins DEF Passes
  <2> QED
    BY <1>1, <1>2, <1>5, <2>1, ToldNext
<1>7. Here(h)'
  <2>1. Done(code', cur)
    BY <1>4 DEF Branched
  <2> QED
    BY <1>1, <2>1, HereNext
<1>8. LoopInv'
  BY <1>1, LoopKeep
<1> QED
  BY <1>1, <1>2, <1>4, <1>5, <1>6, <1>7, <1>8, HoldsNext

LEMMA FlowNothing ==
  ASSUME LoopInv, NEW g, Holds(g),
         UNCHANGED <<points, follow, live, open, jumped, ended, code, blocks, cur, brk, cont, frames>>
  PROVE  LoopInv' /\ \E h : Holds(h)'
<1>1. g \in Gains /\ Laid(code', g, points', blocks') /\ Told(g) /\ Here(g) /\ Kept(g)
  BY DEF Holds
<1>2. Kept(g)' /\ Here(g)'
  BY <1>1 DEF Kept, Here, Terminated
<1>3. \A p, q : Awaited(g, p, q)' <=> Awaited(g, p, q)
  BY DEF Awaited, Waits
<1>4. Told(g)'
  BY <1>1, <1>3 DEF Told
<1>5. LoopInv'
  BY LoopKeep
<1> QED
  BY <1>1, <1>2, <1>4, <1>5, HoldsNext

\* What the generator knows of the statement i under way.
LEMMA FrameNow ==
  ASSUME IInv, NEW g, Holds(g), NEW i \in 1 .. Len(frames)
  PROVE  /\ frames[i] \in Frames /\ open[i] \in FlowFrames /\ Matches(frames[i], open[i], g, code)
         /\ open[i].kind = frames[i].kind /\ i \in 1 .. Len(open)
         /\ frames[i].next \in Blocks /\ frames[i].next # None
         /\ frames[i].kind # "label" => frames[i].next \in PendingOf(frames[i])
         /\ frames[i].kind \in {"for", "do"} => /\ frames[i].back \in PendingOf(frames[i])
                                                /\ frames[i].back # frames[i].next
         /\ frames[i].kind = "if" => frames[i].alt # frames[i].next
         /\ frames[i].kind = "if" /\ frames[i].alt # None => frames[i].alt \in PendingOf(frames[i])
         /\ frames[i].kind \in {"for", "loop", "while", "do"} => frames[i].back \in Blocks /\ frames[i].back # None
         /\ frames[i].kind \in {"for", "do"} => frames[i].alt \in Blocks
         /\ PendingOf(frames[i]) \subseteq Pending
<1> PICK f : f = frames[i]
  OBVIOUS
<1>1. frames \in Seq(Frames) /\ open \in Seq(FlowFrames) /\ Len(open) = Len(frames) /\ Kept(g) /\ None \notin Blocks
  BY BlockFacts, FlowTypeSplit DEF IInv, StackInv, Walk, Holds, Blocks
<1>2. f \in Frames /\ Shape(f) /\ open[i].kind = f.kind /\ open[i] \in FlowFrames /\ Matches(f, open[i], g, code)
  BY <1>1 DEF IInv, StackInv, Kept
<1>3. f.next \in Blocks /\ f.next # None
  BY <1>1, <1>2 DEF Frames
<1>4. PendingOf(f) \subseteq Pending
  BY DEF Pending, PendingIn
<1>5. /\ f.kind # "label" => f.next \in PendingOf(f)
      /\ f.kind \in {"for", "do"} => f.back \in PendingOf(f)
      /\ f.kind = "if" /\ f.alt # None => f.alt \in PendingOf(f)
  BY DEF PendingOf
<1>6. /\ f.kind \in {"for", "do"} => f.back # f.next /\ f.alt \in Blocks
      /\ f.kind = "if" => f.alt # f.next
      /\ f.kind \in {"for", "loop", "while", "do"} => f.back \in Blocks /\ f.back # None
  BY <1>1, <1>2 DEF Shape, Loop
<1> QED
  BY <1>1, <1>2, <1>3, <1>4, <1>5, <1>6

LEMMA OutsEdit ==
  ASSUME NEW s \in Seq(FlowFrames), NEW i \in 1 .. Len(s), NEW x \in SUBSET Nat,
         NEW t, t = [s EXCEPT ![i].outs = @ \cup x]
  PROVE  /\ Len(t) = Len(s) /\ \A j \in 1 .. Len(s) : j # i => t[j] = s[j]
         /\ t[i].outs = s[i].outs \cup x /\ t[i].head = s[i].head /\ t[i].conts = s[i].conts
         /\ t[i].inner = s[i].inner /\ t[i].kind = s[i].kind
<1>1. s[i] \in FlowFrames
  OBVIOUS
<1>2. PICK r : r = [s[i] EXCEPT !.outs = s[i].outs \cup x]
  OBVIOUS
<1>3. r.outs = s[i].outs \cup x /\ r.head = s[i].head /\ r.conts = s[i].conts /\ r.inner = s[i].inner /\ r.kind = s[i].kind
  BY <1>1, <1>2 DEF FlowFrames
<1>4. t = [s EXCEPT ![i] = r]
  BY <1>2
<1> QED
  BY <1>3, <1>4

LEMMA ContsEdit ==
  ASSUME NEW s \in Seq(FlowFrames), NEW i \in 1 .. Len(s), NEW x \in SUBSET Nat,
         NEW t, t = [s EXCEPT ![i].conts = @ \cup x]
  PROVE  /\ Len(t) = Len(s) /\ \A j \in 1 .. Len(s) : j # i => t[j] = s[j]
         /\ t[i].conts = s[i].conts \cup x /\ t[i].head = s[i].head /\ t[i].outs = s[i].outs
         /\ t[i].inner = s[i].inner /\ t[i].kind = s[i].kind
<1>1. s[i] \in FlowFrames
  OBVIOUS
<1>2. PICK r : r = [s[i] EXCEPT !.conts = s[i].conts \cup x]
  OBVIOUS
<1>3. r.conts = s[i].conts \cup x /\ r.head = s[i].head /\ r.outs = s[i].outs /\ r.inner = s[i].inner /\ r.kind = s[i].kind
  BY <1>1, <1>2 DEF FlowFrames
<1>4. t = [s EXCEPT ![i] = r]
  BY <1>2
<1> QED
  BY <1>3, <1>4

\* A block with a point is a block of the function, and nobody's pending one.
LEMMA LoudBlock ==
  ASSUME IInv, NEW g, Holds(g), NEW b \in Blocks, ~Quiet(code, b)
  PROVE  b \in 0 .. blocks /\ b \notin Pending /\ b \in Places
<1>1. b \notin Pending /\ ~(b > blocks)
  BY Now DEF Blank
<1> QED
  BY <1>1, Now DEF Blocks, Places

LEMMA FlowBreak ==
  ASSUME IInv, LoopInv, NEW g, Holds(g), odd' = {}, Break
  PROVE  LoopInv' /\ \E h : Holds(h)'
<1>1. CASE Flow!Nowhere
  <2>1. \A i \in 1 .. Len(frames) : frames[i].kind \notin {"for", "loop", "while"}
    BY <1>1 DEF Flow!Nowhere, Flow!LoopsOf, Flow!Loops, IInv, StackInv
  <2>2. brk = None
    BY <2>1 DEF IInv, TargetsOpen
  <2>3. UNCHANGED <<points, follow, live, open, jumped, ended, code, blocks, cur, brk, cont, frames>>
    BY <1>1, <2>2 DEF Break, Flow!Nowhere, Flow!Statement, builder
  <2> QED
    BY <2>3, FlowNothing
<1>2. ASSUME NEW i \in 1 .. Len(open), Flow!Leave(i, IF open[i].kind = "do" THEN {"do"} ELSE {}),
             open' = [open EXCEPT ![i].outs = @ \cup live], follow' = follow
      PROVE  LoopInv' /\ \E h : Holds(h)'
  <2>1. /\ odd = {} /\ ~jumped /\ ~ended /\ open[i].kind # "do" /\ ~open[i].inner /\ Flow!Innermost(i, open)
        /\ points' = points /\ live' = {} /\ jumped' = TRUE
        /\ UNCHANGED <<blocks, cur, brk, cont, frames>>
    <3>1. Flow!Statement((IF open[i].kind = "do" THEN {"do"} ELSE {}) \cup (IF open[i].inner THEN {"shadow"} ELSE {}))
      BY <1>2 DEF Flow!Leave
    <3>2. /\ odd = {} /\ ~jumped /\ ~ended
          /\ (IF open[i].kind = "do" THEN {"do"} ELSE {}) \cup (IF open[i].inner THEN {"shadow"} ELSE {}) = {}
      BY <3>1, Plainly
    <3> QED
      BY <1>2, <3>2 DEF Flow!Leave, Break, builder
  <2>2. /\ code \in [Blocks -> Contents] /\ g \in Gains /\ points \in Nat /\ blocks \in Nat /\ blocks <= MaxBlocks
        /\ cur \in Blocks /\ Laid(code, g, points, blocks) /\ Told(g) /\ Kept(g)
        /\ ~Done(code, cur) /\ live = Out(code, g, cur)
    BY <2>1, Now
  <2>3. i \in 1 .. Len(frames) /\ frames[i].kind \in {"for", "loop", "while"}
    <3>1. open[i].kind \in Flow!Loops
      BY <2>1 DEF Flow!Innermost, Flow!LoopsOf
    <3> QED
      BY <2>1, <3>1 DEF IInv, StackInv, Flow!Loops
  <2> PICK f : f = frames[i]
    OBVIOUS
  <2> PICK o : o = open[i]
    OBVIOUS
  <2> PICK t : t = f.next
    OBVIOUS
  <2>4. /\ f \in Frames /\ o \in FlowFrames /\ Matches(f, o, g, code)
        /\ t \in Blocks /\ t # None /\ t \in PendingOf(f) /\ PendingOf(f) \subseteq Pending
        /\ f.kind = "for" => f.back # t
    BY <2>3, FrameNow
  <2>5. Blank(code, t) /\ t \in 0 .. blocks /\ t # cur
    BY <2>4, Now
  <2>6. code' = Branch(code, cur, {t})
    <3>1. brk = t
      BY <1>2, <2>1, <2>3 DEF LoopInv
    <3> QED
      BY <2>4, <3>1 DEF Break
  <2>7. PICK h : h = Plus(g, {t}, live)
    OBVIOUS
  <2>8. Laid(code', h, points, blocks) /\ h \in Gains /\ Branched(code, cur, {t}, code')
        /\ Passes(code, g, live, {t}, code', h)
    <3>1. {t} \in SUBSET (0 .. blocks) /\ \A u \in {t} : u \in Blocks => ~Quiet(code, u) \/ (~Done(code, u) /\ u # cur)
      BY <2>5 DEF Blank
    <3> QED
      BY <2>2, <2>6, <2>7, <3>1, AddEdge
  <2>9. h[t] = g[t] \cup live /\ \A u \in Places : u \notin {t} => h[u] = g[u]
    BY <2>5, <2>8 DEF Passes, Blank
  <2>10. \A u, q : Begins(code, u, q) => Begins(code', u, q)
    BY <2>8 DEF Branched
  <2>11. /\ Len(open') = Len(open) /\ \A j \in 1 .. Len(open) : j # i => open'[j] = open[j]
         /\ open'[i].outs = o.outs \cup live /\ open'[i].head = o.head /\ open'[i].inner = o.inner /\ open'[i].kind = o.kind
    <3>1. open \in Seq(FlowFrames) /\ live \in SUBSET Nat
      BY BlockFacts, FlowTypeSplit DEF Walk
    <3> QED
      BY <1>2, <3>1, OutsEdit
  <2>13. f.kind = "for" => h[f.back] = g[f.back]
    <3>1. f.kind = "for" => f.back \in Places
      BY <2>3, FrameNow DEF Places, Blocks
    <3> QED
      BY <2>4, <2>9, <3>1
  <2>14. Matches(f, open'[i], h, code')
    BY <2>3, <2>4, <2>9, <2>10, <2>11 DEF Matches
  <2>15. \A p, q : Waits(f, open'[i], h, p, q) <=> Waits(f, o, g, p, q)
    BY <2>11, <2>13 DEF Waits
  <2>16. Kept(h)' /\ \A p, q : Awaited(h, p, q)' <=> Awaited(g, p, q)
    <3>1. {t} \cap Pending \subseteq PendingOf(frames[i])
      BY <2>4
    <3>2. Len(open) = Len(frames)
      BY DEF IInv, StackInv
    <3>3. Edited(g, h, i)
      BY <2>1, <2>2, <2>3, <2>9, <2>10, <2>11, <2>14, <2>15, <3>1, <3>2, KeptEdit
    <3>4. \A p, q : Waits(f, o, g, p, q) => Awaited(g, p, q)
      BY <2>3 DEF Awaited
    <3> QED
      BY <2>15, <3>3, <3>4 DEF Edited
  <2>17. Told(h)'
    <3>1. \A p \in Nat, q \in Nat : Linked(code', h, p, q) <=> Linked(code, g, p, q)
      BY <2>5, <2>8 DEF Passes, Blank
    <3> QED
      BY <1>2, <2>2, <2>16, <3>1, ToldSame
  <2>18. Here(h)'
    <3>1. Done(code', cur)
      BY <2>8 DEF Branched
    <3> QED
      BY <2>1, <3>1, HereNext
  <2>19. LoopInv'
    <3>1. \A j \in 1 .. Len(open) : open'[j].kind = open[j].kind /\ open'[j].inner = open[j].inner
      BY <2>11
    <3> QED
      BY <2>1, <2>11, <3>1, LoopKeep
  <2> QED
    BY <2>1, <2>2, <2>8, <2>16, <2>17, <2>18, <2>19, HoldsNext
<1> QED
  BY <1>1, <1>2 DEF Break, Flow!Break

LEMMA FlowContinue ==
  ASSUME IInv, LoopInv, NEW g, Holds(g), odd' = {}, Continue
  PROVE  LoopInv' /\ \E h : Holds(h)'
<1>1. CASE Flow!Nowhere
  <2>1. \A i \in 1 .. Len(frames) : frames[i].kind \notin Flow!Loops
    BY <1>1 DEF Flow!Nowhere, Flow!LoopsOf, IInv, StackInv
  <2>2. cont = None
    BY <2>1 DEF IInv, TargetsOpen
  <2>3. UNCHANGED <<points, follow, live, open, jumped, ended, code, blocks, cur, brk, cont, frames>>
    BY <1>1, <2>2 DEF Continue, Flow!Nowhere, Flow!Statement, builder
  <2> QED
    BY <2>3, FlowNothing
<1>2. ASSUME NEW i \in 1 .. Len(open), Flow!Leave(i, {}),
             \/ open[i].kind = "do" /\ open' = [open EXCEPT ![i].conts = @ \cup live] /\ follow' = follow
             \/ open[i].kind # "do" /\ follow' = follow \cup (live \X {open[i].head}) /\ open' = open
      PROVE  LoopInv' /\ \E h : Holds(h)'
  <2>1. /\ odd = {} /\ ~jumped /\ ~ended /\ ~open[i].inner /\ Flow!Innermost(i, open)
        /\ points' = points /\ live' = {} /\ jumped' = TRUE
        /\ UNCHANGED <<blocks, cur, brk, cont, frames>>
    <3>1. Flow!Statement({} \cup (IF open[i].inner THEN {"shadow"} ELSE {}))
      BY <1>2 DEF Flow!Leave
    <3>2. odd = {} /\ ~jumped /\ ~ended /\ {} \cup (IF open[i].inner THEN {"shadow"} ELSE {}) = {}
      BY <3>1, Plainly
    <3> QED
      BY <1>2, <3>2 DEF Flow!Leave, Continue, builder
  <2>2. /\ code \in [Blocks -> Contents] /\ g \in Gains /\ points \in Nat /\ blocks \in Nat /\ blocks <= MaxBlocks
        /\ cur \in Blocks /\ Laid(code, g, points, blocks) /\ Told(g) /\ Kept(g)
        /\ ~Done(code, cur) /\ live = Out(code, g, cur)
    BY <2>1, Now
  <2>3. i \in 1 .. Len(frames) /\ frames[i].kind \in {"for", "loop", "while", "do"} /\ open[i].kind = frames[i].kind
    <3>1. open[i].kind \in Flow!Loops
      BY <2>1 DEF Flow!Innermost, Flow!LoopsOf
    <3> QED
      BY <2>1, <3>1 DEF IInv, StackInv, Flow!Loops
  <2> PICK f : f = frames[i]
    OBVIOUS
  <2> PICK o : o = open[i]
    OBVIOUS
  <2> PICK t : t = f.back
    OBVIOUS
  <2>4. /\ f \in Frames /\ o \in FlowFrames /\ Matches(f, o, g, code)
        /\ t \in Blocks /\ t # None /\ f.next \in PendingOf(f) /\ f.next \in Blocks /\ PendingOf(f) \subseteq Pending
        /\ f.kind \in {"for", "do"} => t \in PendingOf(f) /\ t # f.next
    BY <2>3, FrameNow
  <2>5. f.kind \in {"for", "do"} => Blank(code, t) /\ t \in 0 .. blocks /\ t # cur
    BY <2>4, Now
  <2>6. f.kind \in {"loop", "while"} =>
          ~Quiet(code, t) /\ t \in 0 .. blocks /\ t \notin Pending /\ t # f.next /\ \A r : Begins(code, t, r) <=> r = o.head
    <3> SUFFICES ASSUME f.kind \in {"loop", "while"}
                 PROVE  ~Quiet(code, t) /\ t \in 0 .. blocks /\ t \notin Pending /\ t # f.next
                        /\ \A r : Begins(code, t, r) <=> r = o.head
      OBVIOUS
    <3>1. Begins(code, t, o.head)
      BY <2>4 DEF Matches
    <3>2. ~Quiet(code, t) /\ \A r : Begins(code, t, r) <=> r = o.head
      BY <2>4, <3>1, OneBegin
    <3> QED
      BY <2>4, <3>2, LoudBlock
  <2>7. t \in 0 .. blocks /\ t \in Places /\ (t \in Blocks => ~Quiet(code, t) \/ (~Done(code, t) /\ t # cur))
    BY <2>2, <2>3, <2>4, <2>5, <2>6 DEF Blank, Places, Blocks
  <2>8. code' = Branch(code, cur, {t})
    <3>1. cont = t
      BY <1>2, <2>1, <2>3 DEF LoopInv
    <3> QED
      BY <2>4, <3>1 DEF Continue
  <2>9. PICK h : h = Plus(g, {t}, live)
    OBVIOUS
  <2>10. Laid(code', h, points, blocks) /\ h \in Gains /\ Branched(code, cur, {t}, code')
        /\ Passes(code, g, live, {t}, code', h)
    <3>1. {t} \in SUBSET (0 .. blocks) /\ \A u \in {t} : u \in Blocks => ~Quiet(code, u) \/ (~Done(code, u) /\ u # cur)
      BY <2>7
    <3> QED
      BY <2>2, <2>8, <2>9, <3>1, AddEdge
  <2>11. h[t] = g[t] \cup live /\ (\A u \in Places : u \notin {t} => h[u] = g[u]) /\ h[f.next] = g[f.next]
    <3>1. f.next # t /\ f.next \in Places
      BY <2>3, <2>4, <2>6 DEF Places, Blocks
    <3> QED
      BY <2>7, <2>10, <3>1 DEF Passes
  <2>12. \A u, q : Begins(code, u, q) => Begins(code', u, q)
    BY <2>10 DEF Branched
  <2>13. /\ Len(open') = Len(open) /\ \A j \in 1 .. Len(open) : j # i => open'[j] = open[j]
         /\ open'[i].head = o.head /\ open'[i].outs = o.outs
         /\ open'[i].conts = o.conts \cup (IF f.kind = "do" THEN live ELSE {})
         /\ open'[i].inner = o.inner /\ open'[i].kind = o.kind
    <3>1. open \in Seq(FlowFrames) /\ live \in SUBSET Nat
      BY BlockFacts, FlowTypeSplit DEF Walk
    <3>2. CASE f.kind = "do"
      <4>1. open' = [open EXCEPT ![i].conts = @ \cup live]
        BY <1>2, <2>3, <3>2
      <4>2. /\ Len(open') = Len(open) /\ \A j \in 1 .. Len(open) : j # i => open'[j] = open[j]
            /\ open'[i].conts = open[i].conts \cup live /\ open'[i].head = open[i].head /\ open'[i].outs = open[i].outs
            /\ open'[i].inner = open[i].inner /\ open'[i].kind = open[i].kind
        BY <3>1, <4>1, ContsEdit
      <4> QED
        BY <3>2, <4>2
    <3>3. CASE f.kind # "do"
      BY <1>2, <2>3, <3>1, <3>3
    <3> QED
      BY <3>2, <3>3
  <2>14. Matches(f, open'[i], h, code')
    BY <2>3, <2>4, <2>11, <2>12, <2>13 DEF Matches
  <2>15. \A p, q : Waits(f, open'[i], h, p, q) <=>
                     Waits(f, o, g, p, q) \/ (f.kind = "for" /\ p \in live /\ q = o.head)
    BY <2>11, <2>13 DEF Waits
  <2>16. Kept(h)' /\ \A p, q : Awaited(h, p, q)' <=>
                       Awaited(g, p, q) \/ (f.kind = "for" /\ p \in live /\ q = o.head)
    <3>1. {t} \cap Pending \subseteq PendingOf(frames[i])
      BY <2>3, <2>4, <2>6
    <3>2. Len(open) = Len(frames)
      BY DEF IInv, StackInv
    <3>3. Edited(g, h, i)
      BY <2>1, <2>2, <2>3, <2>11, <2>12, <2>13, <2>14, <2>15, <3>1, <3>2, KeptEdit
    <3>4. \A p, q : Waits(f, o, g, p, q) => Awaited(g, p, q)
      BY <2>3 DEF Awaited
    <3> QED
      BY <2>15, <3>3, <3>4 DEF Edited
  <2>17. \A p \in Nat, q \in Nat : Linked(code', h, p, q) <=>
             Linked(code, g, p, q) \/ (f.kind \in {"loop", "while"} /\ p \in live /\ q = o.head)
    <3>1. \A p \in Nat, q \in Nat : Linked(code', h, p, q) <=> Linked(code, g, p, q) \/ (p \in live /\ Begins(code, t, q))
      BY <2>10 DEF Passes
    <3>2. CASE f.kind \in {"for", "do"}
      BY <2>5, <3>1, <3>2 DEF Blank
    <3>3. CASE f.kind \in {"loop", "while"}
      BY <2>6, <3>1, <3>3
    <3> QED
      BY <2>3, <3>2, <3>3
  <2>18. Told(h)'
    <3>1. CASE f.kind = "do"
      <4>1. follow' = follow
        BY <1>2, <2>3, <3>1
      <4> QED
        BY <2>2, <2>16, <2>17, <3>1, <4>1, ToldSame
    <3>2. CASE f.kind # "do"
      <4>1. follow' = follow \cup (live \X {o.head})
        BY <1>2, <2>3, <3>2
      <4>2. \A p \in Nat, q \in Nat : Linked(code', h, p, q) \/ Awaited(h, p, q)' <=>
              Linked(code, g, p, q) \/ Awaited(g, p, q) \/ <<p, q>> \in live \X {o.head}
        BY <2>3, <2>16, <2>17, <3>2
      <4> QED
        BY <2>2, <4>1, <4>2, ToldNext
    <3> QED
      BY <3>1, <3>2
  <2>19. Here(h)'
    <3>1. Done(code', cur)
      BY <2>10 DEF Branched
    <3> QED
      BY <2>1, <3>1, HereNext
  <2>20. LoopInv'
    <3>1. \A j \in 1 .. Len(open) : open'[j].kind = open[j].kind /\ open'[j].inner = open[j].inner
      BY <2>13
    <3> QED
      BY <2>1, <2>13, <3>1, LoopKeep
  <2> QED
    BY <2>1, <2>2, <2>10, <2>16, <2>18, <2>19, <2>20, HoldsNext
<1> QED
  BY <1>1, <1>2 DEF Continue, Flow!Continue

------------------------------------------------------------------------------
\* From c and g to d and h the point n is evaluated in b, which then branches to T.
Tested(c, g, b, n, T, d, h) ==
  /\ d \in [Blocks -> Contents] /\ \A e \in Blocks : e # b => d[e] = c[e]
  /\ Done(d, b)
  /\ \A t \in Places : (t \in T => h[t] = g[t] \cup {n}) /\ (t \notin T => h[t] = g[t])
  /\ \A t, q : Begins(c, t, q) => Begins(d, t, q)
  /\ \A p \in Nat, q \in Nat : Linked(d, h, p, q) <=>
       \/ Linked(c, g, p, q)
       \/ p \in Out(c, g, b) /\ q = n
       \/ p = n /\ \E t \in T : Begins(c, t, q)

LEMMA AddTest ==
  ASSUME NEW c \in [Blocks -> Contents], NEW g \in Gains, NEW n \in Nat, NEW m \in Nat, m <= MaxBlocks,
         Laid(c, g, n, m), NEW b \in Blocks, ~Done(c, b), NEW T \in SUBSET (0 .. m),
         \A t \in T : t \in Blocks => t # b /\ (~Quiet(c, t) \/ ~Done(c, t)),
         NEW d, d = Branch(Evaluate(c, b, n + 1), b, T)
  PROVE  \E h : h \in Gains /\ Laid(d, h, n + 1, m) /\ Tested(c, g, b, n + 1, T, d, h)
<1> PICK k \in Nat : k = n + 1
  OBVIOUS
<1>1. PICK e : e = Evaluate(c, b, k)
  OBVIOUS
<1>2. Laid(e, g, k, m) /\ Evaluated(c, g, b, k, e)
  BY <1>1, AddPoint
<1>3. /\ e \in [Blocks -> Contents] /\ \A f \in Blocks : f # b => e[f] = c[f]
      /\ ~Done(e, b) /\ Out(e, g, b) = {k}
      /\ \A t, q : Begins(c, t, q) => Begins(e, t, q)
      /\ \A p \in Nat, q \in Nat : Linked(e, g, p, q) <=> Linked(c, g, p, q) \/ (p \in Out(c, g, b) /\ q = k)
  BY <1>2 DEF Evaluated, Done
<1>4. \A t \in T : t \in Blocks => ~Quiet(e, t) \/ (~Done(e, t) /\ t # b)
  BY <1>3 DEF Quiet, Done
<1>5. PICK h : h = Plus(g, T, Out(e, g, b))
  OBVIOUS
<1>6. Laid(d, h, k, m) /\ h \in Gains /\ Branched(e, b, T, d) /\ Passes(e, g, {k}, T, d, h)
  <2>0. d = Branch(e, b, T)
    BY <1>1
  <2>1. e \in [Blocks -> Contents] /\ ~Done(e, b) /\ Laid(e, g, k, m)
    BY <1>2, <1>3
  <2>2. Laid(d, h, k, m) /\ h \in Gains /\ Branched(e, b, T, d) /\ Passes(e, g, Out(e, g, b), T, d, h)
    BY <1>4, <1>5, <2>0, <2>1, AddEdge
  <2> QED
    BY <1>3, <2>2
<1>7. \A t \in T : \A q : Begins(e, t, q) <=> Begins(c, t, q)
  BY <1>3 DEF Begins, Quiet
<1>8. /\ d \in [Blocks -> Contents] /\ \A f \in Blocks : f # b => d[f] = c[f]
      /\ Done(d, b) /\ \A t, q : Begins(c, t, q) => Begins(d, t, q)
  BY <1>3, <1>6 DEF Branched
<1>9. \A p \in Nat, q \in Nat : Linked(d, h, p, q) <=>
        Linked(c, g, p, q) \/ (p \in Out(c, g, b) /\ q = k) \/ (p = k /\ \E t \in T : Begins(c, t, q))
  BY <1>3, <1>6, <1>7 DEF Passes
<1>10. \A t \in Places : (t \in T => h[t] = g[t] \cup {k}) /\ (t \notin T => h[t] = g[t])
  BY <1>6 DEF Passes
<1> QED
  BY <1>6, <1>8, <1>9, <1>10 DEF Tested

\* Blocks a step creates.
LEMMA NewBlocks ==
  ASSUME IInv, NEW g, Holds(g), NEW k \in Nat, Create(k)
  PROVE  /\ blocks' = blocks + k /\ blocks' \in Nat /\ blocks' <= MaxBlocks
         /\ Laid(code, g, points, blocks')
         /\ \A b \in (blocks + 1) .. blocks' :
              /\ Blank(code, b) /\ code[b] = Empty /\ g[b] = {} /\ b # cur /\ b \notin Pending
              /\ b \in Blocks /\ b \in Places /\ b \in 0 .. blocks'
<1>1. /\ blocks \in Nat /\ MaxBlocks \in Nat /\ Laid(code, g, points, blocks)
      /\ \A b \in Pending : b \in 0 .. blocks
      /\ \A b \in Blocks : b > blocks => Blank(code, b) /\ code[b] = Empty /\ g[b] = {} /\ b # cur
  BY Now
<1>2. blocks' = blocks + k /\ blocks' \in Nat /\ blocks' <= MaxBlocks /\ blocks <= blocks'
  BY <1>1 DEF Create
<1>3. Laid(code, g, points, blocks')
  BY <1>1, <1>2, LaidUp
<1>4. ASSUME NEW b \in (blocks + 1) .. blocks'
      PROVE  b \in Blocks /\ b \in Places /\ b \in 0 .. blocks' /\ b > blocks /\ b \notin 0 .. blocks
  BY <1>1, <1>2 DEF Blocks, Places
<1> QED
  BY <1>1, <1>2, <1>3, <1>4

\* A statement is opened: the loops of break and continue.
LEMMA LoopPush ==
  ASSUME LoopInv, open \in Seq(FlowFrames), frames \in Seq(Frames), Len(open) = Len(frames),
         NEW f, frames' = Append(frames, f), NEW o, open' = Append(open, o),
         IF o.kind \in Flow!Loops THEN cont' = f.back /\ (o.kind # "do" => brk' = f.next)
                                  ELSE cont' = cont /\ brk' = brk
  PROVE  LoopInv'
<1> PICK n : n = Len(open)
  OBVIOUS
<1>1. /\ n \in Nat /\ Len(open') = n + 1 /\ open'[n + 1] = o /\ frames'[n + 1] = f
      /\ \A i \in 1 .. n : open'[i] = open[i] /\ frames'[i] = frames[i]
  OBVIOUS
<1>2. \A i : i \in 1 .. n + 1 <=> i \in 1 .. n \/ i = n + 1
  BY <1>1
<1>3. CASE o.kind \in Flow!Loops
  <2>1. n + 1 \in Flow!LoopsOf(open')
    BY <1>1, <1>3 DEF Flow!LoopsOf
  <2>2. \A i \in 1 .. n : ~Flow!Innermost(i, open')
    BY <1>1, <2>1 DEF Flow!Innermost
  <2>3. cont' = f.back /\ (o.kind # "do" => brk' = f.next)
    BY <1>3
  <2> QED
    BY <1>1, <1>2, <2>2, <2>3 DEF LoopInv
<1>4. CASE o.kind \notin Flow!Loops
  <2>1. \A i : i \in Flow!LoopsOf(open') <=> i \in Flow!LoopsOf(open)
    BY <1>1, <1>2, <1>4 DEF Flow!LoopsOf
  <2>2. \A i : Flow!Innermost(i, open') <=> Flow!Innermost(i, open)
    BY <2>1 DEF Flow!Innermost
  <2>3. \A i : Flow!Innermost(i, open) => i \in 1 .. n
    BY DEF Flow!Innermost, Flow!LoopsOf
  <2>4. cont' = cont /\ brk' = brk
    BY <1>4
  <2> QED
    BY <1>1, <2>2, <2>3, <2>4 DEF LoopInv
<1> QED
  BY <1>3, <1>4

\* A statement that is no loop is closed or changed.
LEMMA LoopBelow ==
  ASSUME LoopInv, Len(frames) \in Nat \ {0}, Len(open) = Len(frames), Len(open') \in {Len(open) - 1, Len(open)},
         open[Len(open)].kind \notin Flow!Loops,
         Len(open') = Len(open) => open'[Len(open)].kind \notin Flow!Loops,
         \A i \in 1 .. Len(open) - 1 : open'[i] = open[i] /\ frames'[i] = frames[i],
         UNCHANGED <<brk, cont>>
  PROVE  LoopInv'
<1> PICK n : n = Len(open)
  OBVIOUS
<1>1. /\ n \in Nat \ {0} /\ Len(open') \in {n - 1, n}
      /\ \A i \in 1 .. n - 1 : open'[i] = open[i] /\ frames'[i] = frames[i]
      /\ Len(open') = n => open'[n].kind \notin Flow!Loops
      /\ open[n].kind \notin Flow!Loops /\ n = Len(open)
  OBVIOUS
<1>2. \A i : i \in 1 .. n <=> i \in 1 .. n - 1 \/ i = n
  BY <1>1
<1>3. \A i : i \in 1 .. Len(open') <=> i \in 1 .. n - 1 \/ (i = n /\ Len(open') = n)
  BY <1>1
<1>4. \A i : i \in Flow!LoopsOf(open') <=> i \in Flow!LoopsOf(open)
  BY <1>1, <1>2, <1>3 DEF Flow!LoopsOf
<1>5. \A i : Flow!Innermost(i, open') <=> Flow!Innermost(i, open)
  BY <1>4 DEF Flow!Innermost
<1>6. \A i : Flow!Innermost(i, open) => i \in 1 .. n - 1
  BY <1>1, <1>2 DEF Flow!Innermost, Flow!LoopsOf
<1>7. \A i \in 1 .. n - 1 : i \in 1 .. n
  BY <1>1
<1> QED
  BY <1>1, <1>5, <1>6, <1>7 DEF LoopInv

------------------------------------------------------------------------------
\* A statement with a point of its own is opened: on the side of the program,
Entered(kind, o) ==
  /\ ~jumped /\ ~ended /\ points' = points + 1 /\ follow' = follow \cup (live \X {points + 1})
  /\ live' = {points + 1} /\ jumped' = FALSE /\ open' = Append(open, o)
  /\ o \in FlowFrames /\ o.kind = kind /\ o.head = points + 1 /\ o.outs = {} /\ o.conts = {}

LEMMA EnterNow ==
  ASSUME IInv, NEW kind \in Flow!Kinds, Flow!Enter(kind), odd' = {}
  PROVE  \E o : Entered(kind, o)
<1> PICK o : o = Flow!Frame(kind, points + 1)
  OBVIOUS
<1>1. points + 1 \in Nat
  BY BlockFacts DEF Flow!FlowTypeOK
<1>2. o \in FlowFrames /\ o.kind = kind /\ o.head = points + 1 /\ o.outs = {} /\ o.conts = {}
  BY <1>1 DEF Flow!Frame, FlowFrames
<1>3. /\ Flow!Statement({}) /\ points' = points + 1 /\ follow' = follow \cup (live \X {points + 1})
      /\ live' = {points + 1} /\ jumped' = FALSE /\ open' = Append(open, o)
  BY DEF Flow!Enter, Flow!Arrive, Flow!New
<1>4. ~jumped /\ ~ended
  BY <1>3, Plainly
<1> QED
  BY <1>2, <1>3, <1>4 DEF Entered

\* and on the side of the generator, T being the blocks something gets to.
Built(g, h, n, T) ==
  /\ h \in Gains /\ Laid(code', h, n, blocks') /\ T \cap Pending = {}
  /\ \A t \in Places : t \notin T => h[t] = g[t]
  /\ \A t, q : Begins(code, t, q) => Begins(code', t, q)
  /\ \A p \in Nat, q \in Nat : Linked(code', h, p, q) <=> Linked(code, g, p, q) \/ (p \in live /\ q = n)
  /\ ~Done(code', cur') /\ Out(code', h, cur') = {n}

LEMMA FlowOpens ==
  ASSUME IInv, LoopInv, NEW g, Holds(g), NEW kind, NEW o, Entered(kind, o),
         NEW h, NEW T, Built(g, h, points + 1, T),
         NEW f \in Frames, frames' = Append(frames, f),
         Matches(f, o, h, code'), f.kind = "for" => h[f.back] = {},
         IF o.kind \in Flow!Loops THEN cont' = f.back /\ (o.kind # "do" => brk' = f.next)
                                  ELSE cont' = cont /\ brk' = brk
  PROVE  LoopInv' /\ \E k : Holds(k)'
<1>1. Kept(h)' /\ \A p, q : Awaited(h, p, q)' <=> Awaited(g, p, q)
  <2>1. Kept(g)
    BY DEF Holds
  <2> QED
    BY <2>1, KeptPush DEF Entered, Built
<1>2. Told(h)'
  <2>1. \A p \in Nat, q \in Nat : Linked(code', h, p, q) \/ Awaited(h, p, q)' <=>
          Linked(code, g, p, q) \/ Awaited(g, p, q) \/ <<p, q>> \in live \X {points + 1}
    BY <1>1 DEF Built
  <2>2. Told(g) /\ follow' = follow \cup (live \X {points + 1})
    BY DEF Holds, Entered
  <2> QED
    BY <2>1, <2>2, ToldNext
<1>3. Here(h)'
  BY HereNext DEF Entered, Built
<1>4. LoopInv'
  <2>1. open \in Seq(FlowFrames) /\ frames \in Seq(Frames) /\ Len(open) = Len(frames)
    BY BlockFacts, FlowTypeSplit DEF IInv, StackInv, Walk
  <2>2. open' = Append(open, o)
    BY DEF Entered
  <2> QED
    BY <2>1, <2>2, LoopPush
<1>5. h \in Gains /\ Laid(code', h, points', blocks')
  BY DEF Entered, Built
<1> QED
  BY <1>1, <1>2, <1>3, <1>4, <1>5, HoldsNext

LEMMA FlowOpenIf ==
  ASSUME IInv, LoopInv, NEW g, Holds(g), odd' = {}, NEW alt \in BOOLEAN, OpenIf(alt)
  PROVE  LoopInv' /\ \E h : Holds(h)'
<1> PICK then : then = blocks + 1
  OBVIOUS
<1> PICK x : x = blocks + 2
  OBVIOUS
<1> PICK other : other = IF alt THEN x ELSE None
  OBVIOUS
<1> PICK f : f = Frame("if", blocks', other, None)
  OBVIOUS
<1> PICK n : n = points + 1
  OBVIOUS
<1>0. PICK o : Entered("if", o)
  BY EnterNow, KindFacts DEF OpenIf, Flow!OpenIf
<1>1. Create(IF alt THEN 3 ELSE 2) /\ points' = n /\ live' = {n}
      /\ cur' = then /\ frames' = Append(frames, f) /\ UNCHANGED <<brk, cont>>
  BY <1>0 DEF OpenIf, Entered
<1>2. /\ code \in [Blocks -> Contents] /\ g \in Gains /\ points \in Nat /\ blocks \in Nat
      /\ cur \in Blocks /\ ~Done(code, cur) /\ live = Out(code, g, cur) /\ None \notin Nat
  BY <1>0, Now, FlowAssumption DEF Entered
<1>3. /\ blocks' = blocks + (IF alt THEN 3 ELSE 2) /\ blocks' \in Nat /\ blocks' <= MaxBlocks
      /\ Laid(code, g, points, blocks')
      /\ \A b \in (blocks + 1) .. blocks' :
           /\ Blank(code, b) /\ code[b] = Empty /\ g[b] = {} /\ b # cur /\ b \notin Pending
           /\ b \in Blocks /\ b \in Places /\ b \in 0 .. blocks'
  <2>1. (IF alt THEN 3 ELSE 2) \in Nat
    OBVIOUS
  <2> QED
    BY <1>1, <2>1, NewBlocks
<1>4. /\ then \in (blocks + 1) .. blocks' /\ x \in (blocks + 1) .. blocks' /\ blocks' \in (blocks + 1) .. blocks'
      /\ then # x /\ (~alt => blocks' = x) /\ (alt => blocks' # x /\ blocks' # then)
  BY <1>2, <1>3
<1>5. code' = Branch(Evaluate(code, cur, n), cur, {then, x})
  <2>1. {then, IF alt THEN other ELSE blocks'} = {then, x}
    BY <1>4
  <2> QED
    BY <1>1, <2>1 DEF OpenIf
<1>6. PICK h : h \in Gains /\ Laid(code', h, n, blocks') /\ Tested(code, g, cur, n, {then, x}, code', h)
  <2>1. /\ {then, x} \in SUBSET (0 .. blocks')
        /\ \A t \in {then, x} : t \in Blocks => t # cur /\ (~Quiet(code, t) \/ ~Done(code, t))
    BY <1>3, <1>4 DEF Blank
  <2> QED
    BY <1>2, <1>3, <1>5, <2>1, AddTest
<1>7. Blank(code, then) /\ Blank(code, x) /\ then # cur /\ g[then] = {} /\ g[x] = {}
      /\ then \in Places /\ x \in Places /\ blocks' \in Places /\ g[blocks'] = {} /\ then \notin Pending /\ x \notin Pending
  BY <1>3, <1>4
<1>8. Built(g, h, n, {then, x})
  <2>1. \A p \in Nat, q \in Nat : Linked(code', h, p, q) <=> Linked(code, g, p, q) \/ (p \in live /\ q = n)
    BY <1>2, <1>6, <1>7 DEF Tested, Blank
  <2>2. code'[then] = code[then] /\ h[then] = {n}
    BY <1>6, <1>7 DEF Tested, Blank
  <2>3. ~Done(code', cur') /\ Out(code', h, cur') = {n}
    BY <1>1, <1>7, <2>2 DEF Blank, Done, Quiet, Out
  <2> QED
    BY <1>6, <1>7, <2>1, <2>3 DEF Built, Tested
<1>9. f \in Frames /\ f.kind = "if" /\ f.next = blocks' /\ f.alt = other
  <2>1. "if" \in Flow!Kinds /\ blocks' \in Blocks /\ other \in MaybeBlock /\ None \in MaybeBlock
    BY <1>3, <1>4, KindFacts DEF MaybeBlock
  <2> QED
    BY <2>1, FrameFacts
<1>10. Matches(f, o, h, code')
  <2>1. o.head = n /\ o.outs = {}
    BY <1>0 DEF Entered
  <2>2. CASE alt
    <3>1. other = x /\ other # None /\ h[x] = {n} /\ h[blocks'] = {}
      BY <1>2, <1>4, <1>6, <1>7, <2>2 DEF Tested
    <3> QED
      BY <1>9, <2>1, <3>1 DEF Matches
  <2>3. CASE ~alt
    <3>1. other = None /\ h[blocks'] = {n}
      BY <1>4, <1>6, <1>7, <2>3 DEF Tested
    <3> QED
      BY <1>9, <2>1, <3>1 DEF Matches
  <2> QED
    BY <2>2, <2>3
<1> QED
  <2>1. o.kind \notin Flow!Loops
    BY <1>0 DEF Entered, Flow!Loops
  <2>2. f.kind # "for"
    BY <1>9
  <2> QED
    BY <1>0, <1>1, <1>8, <1>9, <1>10, <2>1, <2>2, FlowOpens

\* From c and g to d and h a new block k is entered from b, which evaluates n and branches to T.
Started(c, g, b, k, n, T, d, h) ==
  /\ d \in [Blocks -> Contents] /\ \A e \in Blocks : e # b /\ e # k => d[e] = c[e]
  /\ Begins(d, k, n) /\ \A t, q : Begins(c, t, q) => Begins(d, t, q)
  /\ \A t \in Places : (t \in T => h[t] = g[t] \cup {n}) /\ (t # k /\ t \notin T => h[t] = g[t])
  /\ \A p \in Nat, q \in Nat : Linked(d, h, p, q) <=> Linked(c, g, p, q) \/ (p \in Out(c, g, b) /\ q = n)

LEMMA AddHeadTest ==
  ASSUME NEW c \in [Blocks -> Contents], NEW g \in Gains, NEW n \in Nat, NEW m \in Nat, m <= MaxBlocks,
         Laid(c, g, n, m), NEW b \in Blocks, ~Done(c, b), NEW k \in Blocks, k <= m, k # b,
         c[k] = Empty, g[k] = {}, NEW T \in SUBSET (0 .. m), \A t \in T : Blank(c, t) /\ t # k /\ t # b,
         NEW d, d = Branch(Headed(c, b, k, n + 1), k, T)
  PROVE  \E h : h \in Gains /\ Laid(d, h, n + 1, m) /\ Started(c, g, b, k, n + 1, T, d, h)
<1> PICK p \in Nat : p = n + 1
  OBVIOUS
<1>1. PICK e : e = Headed(c, b, k, p)
  OBVIOUS
<1>2. PICK h : Laid(e, h, p, m) /\ Headway(c, g, b, k, p, e, h)
  BY <1>1, AddHead
<1>3. /\ e \in [Blocks -> Contents] /\ h \in Gains /\ ~Done(e, k) /\ Out(e, h, k) = {p} /\ Begins(e, k, p)
      /\ \A f \in Blocks : f # b /\ f # k => e[f] = c[f]
      /\ \A f \in Places : f # k => h[f] = g[f]
      /\ \A t, q : Begins(c, t, q) => Begins(e, t, q)
      /\ \A r \in Nat, q \in Nat : Linked(e, h, r, q) <=> Linked(c, g, r, q) \/ (r \in Out(c, g, b) /\ q = p)
  BY <1>2 DEF Headway
<1>4. \A t \in T : Blank(e, t) /\ t # k /\ t \in Places
  BY <1>3 DEF Blank, Begins, Quiet, Done, Blocks
<1>5. PICK i : i = Plus(h, T, Out(e, h, k))
  OBVIOUS
<1>6. Laid(d, i, p, m) /\ i \in Gains /\ Branched(e, k, T, d) /\ Passes(e, h, Out(e, h, k), T, d, i)
  <2>1. d = Branch(e, k, T)
    BY <1>1
  <2>2. \A t \in T : t \in Blocks => ~Quiet(e, t) \/ (~Done(e, t) /\ t # k)
    BY <1>4 DEF Blank
  <2>3. Laid(e, h, p, m) /\ e \in [Blocks -> Contents] /\ h \in Gains /\ ~Done(e, k)
    BY <1>2, <1>3
  <2> QED
    BY <1>5, <2>1, <2>2, <2>3, AddEdge
<1>7. /\ d \in [Blocks -> Contents] /\ \A f \in Blocks : f # b /\ f # k => d[f] = c[f]
      /\ \A t, q : Begins(e, t, q) <=> Begins(d, t, q)
  BY <1>3, <1>6 DEF Branched
<1>8. \A t \in Places : (t \in T => i[t] = g[t] \cup {p}) /\ (t # k /\ t \notin T => i[t] = g[t])
  BY <1>3, <1>4, <1>6 DEF Passes
<1>9. \A r \in Nat, q \in Nat : Linked(d, i, r, q) <=> Linked(e, h, r, q)
  BY <1>4, <1>6 DEF Passes, Blank
<1>10. Started(c, g, b, k, p, T, d, i)
  BY <1>3, <1>7, <1>8, <1>9 DEF Started
<1> QED
  BY <1>6, <1>10

\* The relation h when control is at the start of the body, and skips to x.
AtBody(g, h, k, then, x) ==
  /\ Built(g, h, points + 1, {k, then, x}) /\ h[x] = {points + 1} /\ Begins(code', k, points + 1)
  /\ \A t \in (blocks + 3) .. blocks' : t # x => h[t] = {}

\* The header k and the body then of a for or a while.
LEMMA FlowHeads ==
  ASSUME IInv, NEW g, Holds(g), NEW j \in Nat, Create(j), NEW kind, NEW o, Entered(kind, o),
         NEW k, k = blocks + 1, NEW then, then = blocks + 2, NEW x \in (blocks + 3) .. blocks', cur' = then,
         code' = Branch(Headed(code, cur, k, points'), k, {then, x})
  PROVE  \E h : AtBody(g, h, k, then, x)
<1> PICK n : n = points + 1
  OBVIOUS
<1>1. points' = n /\ live' = {n}
  BY DEF Entered
<1>2. /\ code \in [Blocks -> Contents] /\ g \in Gains /\ points \in Nat /\ blocks \in Nat
      /\ cur \in Blocks /\ ~Done(code, cur) /\ live = Out(code, g, cur)
  BY Now DEF Entered
<1>3. /\ blocks' \in Nat /\ blocks' <= MaxBlocks
      /\ Laid(code, g, points, blocks')
      /\ \A b \in (blocks + 1) .. blocks' :
           /\ Blank(code, b) /\ code[b] = Empty /\ g[b] = {} /\ b # cur /\ b \notin Pending
           /\ b \in Blocks /\ b \in Places /\ b \in 0 .. blocks'
  BY NewBlocks
<1>4. /\ k \in (blocks + 1) .. blocks' /\ then \in (blocks + 1) .. blocks' /\ x \in (blocks + 1) .. blocks'
      /\ k # then /\ k # x /\ then # x /\ k <= blocks'
      /\ \A t \in (blocks + 3) .. blocks' : t \in (blocks + 1) .. blocks' /\ t # k /\ t # then
  BY <1>2, <1>3
<1>5. PICK h : h \in Gains /\ Laid(code', h, n, blocks') /\ Started(code, g, cur, k, n, {then, x}, code', h)
  <2>1. {then, x} \in SUBSET (0 .. blocks') /\ \A t \in {then, x} : Blank(code, t) /\ t # k /\ t # cur
    BY <1>3, <1>4
  <2>2. k \in Blocks /\ k # cur /\ code[k] = Empty /\ g[k] = {}
    BY <1>3, <1>4
  <2>3. code' = Branch(Headed(code, cur, k, points + 1), k, {then, x})
    BY <1>1
  <2> QED
    BY <1>2, <1>3, <1>4, <2>1, <2>2, <2>3, AddHeadTest
<1>6. /\ Blank(code, then) /\ then # cur /\ g[then] = {} /\ g[x] = {} /\ then \in Places /\ x \in Places
      /\ k \notin Pending /\ then \notin Pending /\ x \notin Pending
      /\ \A t \in (blocks + 3) .. blocks' : t \in Places /\ g[t] = {} /\ t # k /\ t # then
  BY <1>3, <1>4
<1>7. code'[then] = code[then] /\ h[then] = {n} /\ h[x] = {n}
  BY <1>4, <1>5, <1>6 DEF Started, Blank
<1>8. ~Done(code', cur') /\ Out(code', h, cur') = {n}
  BY <1>6, <1>7 DEF Blank, Done, Quiet, Out
<1>9. Built(g, h, n, {k, then, x})
  <2>1. \A t \in Places : t \notin {k, then, x} => h[t] = g[t]
    BY <1>5 DEF Started
  <2>2. \A p \in Nat, q \in Nat : Linked(code', h, p, q) <=> Linked(code, g, p, q) \/ (p \in live /\ q = n)
    BY <1>2, <1>5 DEF Started
  <2>3. \A t, q : Begins(code, t, q) => Begins(code', t, q)
    BY <1>5 DEF Started
  <2>4. {k, then, x} \cap Pending = {}
    BY <1>6
  <2> QED
    BY <1>5, <1>8, <2>1, <2>2, <2>3, <2>4 DEF Built
<1>10. Begins(code', k, n) /\ \A t \in (blocks + 3) .. blocks' : t # x => h[t] = {}
  BY <1>5, <1>6 DEF Started
<1> QED
  BY <1>7, <1>9, <1>10 DEF AtBody

LEMMA FlowOpenFor ==
  ASSUME IInv, LoopInv, NEW g, Holds(g), odd' = {}, OpenFor
  PROVE  LoopInv' /\ \E h : Holds(h)'
<1> PICK k : k = blocks + 1
  OBVIOUS
<1> PICK then : then = blocks + 2
  OBVIOUS
<1> PICK back : back = blocks + 3
  OBVIOUS
<1> PICK x : x = blocks + 4
  OBVIOUS
<1> PICK f : f = Frame("for", x, k, back)
  OBVIOUS
<1>0. PICK o : Entered("for", o)
  BY EnterNow, KindFacts DEF OpenFor, Flow!OpenLoop
<1>1. /\ Create(4) /\ blocks \in Nat /\ blocks' = blocks + 4 /\ blocks' <= MaxBlocks
      /\ brk' = x /\ cont' = back /\ cur' = then /\ frames' = Append(frames, f)
      /\ code' = Branch(Headed(code, cur, k, points'), k, {then, x})
  BY Now DEF OpenFor, Create, Headed
<1>2. x \in (blocks + 3) .. blocks' /\ back \in (blocks + 3) .. blocks' /\ back # x
      /\ k \in Blocks /\ back \in Blocks /\ x \in Blocks /\ 4 \in Nat
  BY <1>1, Now DEF Blocks
<1>h. PICK h : AtBody(g, h, k, then, x)
  BY <1>0, <1>1, <1>2, FlowHeads
<1>3. /\ Built(g, h, points + 1, {k, then, x}) /\ h[x] = {points + 1} /\ Begins(code', k, points + 1)
      /\ \A t \in (blocks + 3) .. blocks' : t # x => h[t] = {}
  BY <1>h DEF AtBody
<1>4. f \in Frames /\ f.kind = "for" /\ f.next = x /\ f.alt = k /\ f.back = back
  <2>1. "for" \in Flow!Kinds /\ k \in MaybeBlock /\ back \in MaybeBlock
    BY <1>2, KindFacts DEF MaybeBlock
  <2> QED
    BY <1>2, <2>1, FrameFacts
<1>5. o.kind = "for" /\ o.head = points + 1 /\ o.outs = {}
  BY <1>0 DEF Entered
<1>6. Matches(f, o, h, code')
  BY <1>3, <1>4, <1>5 DEF Matches
<1>7. h[f.back] = {}
  BY <1>2, <1>3, <1>4
<1>8. o.kind \in Flow!Loops /\ cont' = f.back /\ (o.kind # "do" => brk' = f.next)
  BY <1>1, <1>4, <1>5, KindFacts
<1> QED
  BY <1>0, <1>1, <1>3, <1>4, <1>6, <1>7, <1>8, FlowOpens

LEMMA FlowOpenWhile ==
  ASSUME IInv, LoopInv, NEW g, Holds(g), odd' = {}, OpenWhile
  PROVE  LoopInv' /\ \E h : Holds(h)'
<1> PICK k : k = blocks + 1
  OBVIOUS
<1> PICK then : then = blocks + 2
  OBVIOUS
<1> PICK x : x = blocks + 3
  OBVIOUS
<1> PICK f : f = Frame("while", x, None, k)
  OBVIOUS
<1>0. PICK o : Entered("while", o)
  BY EnterNow, KindFacts DEF OpenWhile, Flow!OpenLoop
<1>1. /\ Create(3) /\ blocks \in Nat /\ blocks' = blocks + 3 /\ blocks' <= MaxBlocks
      /\ brk' = x /\ cont' = k /\ cur' = then /\ frames' = Append(frames, f)
      /\ code' = Branch(Headed(code, cur, k, points'), k, {then, x})
  BY Now DEF OpenWhile, Create, Headed
<1>2. x \in (blocks + 3) .. blocks' /\ k \in Blocks /\ x \in Blocks /\ 3 \in Nat
  BY <1>1, Now DEF Blocks
<1>h. PICK h : AtBody(g, h, k, then, x)
  BY <1>0, <1>1, <1>2, FlowHeads
<1>3. Built(g, h, points + 1, {k, then, x}) /\ h[x] = {points + 1} /\ Begins(code', k, points + 1)
  BY <1>h DEF AtBody
<1>4. f \in Frames /\ f.kind = "while" /\ f.next = x /\ f.back = k
  <2>1. "while" \in Flow!Kinds /\ k \in MaybeBlock /\ None \in MaybeBlock
    BY <1>2, KindFacts DEF MaybeBlock
  <2> QED
    BY <1>2, <2>1, FrameFacts
<1>5. o.kind = "while" /\ o.head = points + 1 /\ o.outs = {}
  BY <1>0 DEF Entered
<1>6. Matches(f, o, h, code')
  BY <1>3, <1>4, <1>5 DEF Matches
<1>7. f.kind # "for" /\ o.kind \in Flow!Loops /\ cont' = f.back /\ (o.kind # "do" => brk' = f.next)
  BY <1>1, <1>4, <1>5, KindFacts
<1> QED
  BY <1>0, <1>1, <1>3, <1>4, <1>6, <1>7, FlowOpens

\* A loop whose first block k is the body.
LEMMA FlowHead ==
  ASSUME IInv, NEW g, Holds(g), NEW j \in Nat, Create(j), NEW kind, NEW o, Entered(kind, o),
         NEW k \in (blocks + 1) .. blocks', cur' = k, code' = Headed(code, cur, k, points')
  PROVE  \E h : Built(g, h, points + 1, {k}) /\ Begins(code', k, points + 1)
<1> PICK n : n = points + 1
  OBVIOUS
<1>1. points' = n /\ live' = {n}
  BY DEF Entered
<1>2. /\ code \in [Blocks -> Contents] /\ g \in Gains /\ points \in Nat /\ blocks \in Nat
      /\ cur \in Blocks /\ ~Done(code, cur) /\ live = Out(code, g, cur)
  BY Now DEF Entered
<1>3. /\ blocks' \in Nat /\ blocks' <= MaxBlocks /\ Laid(code, g, points, blocks')
      /\ \A b \in (blocks + 1) .. blocks' :
           /\ Blank(code, b) /\ code[b] = Empty /\ g[b] = {} /\ b # cur /\ b \notin Pending
           /\ b \in Blocks /\ b \in Places /\ b \in 0 .. blocks'
  BY NewBlocks
<1>4. k \in Blocks /\ k <= blocks' /\ k # cur /\ code[k] = Empty /\ g[k] = {} /\ k \notin Pending
  BY <1>3
<1>5. PICK h : Laid(code', h, n, blocks') /\ Headway(code, g, cur, k, n, code', h)
  <2>1. code' = Headed(code, cur, k, points + 1)
    BY <1>1
  <2> QED
    BY <1>2, <1>3, <1>4, <2>1, AddHead
<1>6. /\ h \in Gains /\ ~Done(code', k) /\ Out(code', h, k) = {n} /\ Begins(code', k, n)
      /\ \A t \in Places : t \notin {k} => h[t] = g[t]
      /\ \A t, q : Begins(code, t, q) => Begins(code', t, q)
  BY <1>5 DEF Headway
<1>7. \A p \in Nat, q \in Nat : Linked(code', h, p, q) <=> Linked(code, g, p, q) \/ (p \in live /\ q = n)
  BY <1>2, <1>5 DEF Headway
<1>8. Built(g, h, n, {k})
  <2>1. ~Done(code', cur') /\ Out(code', h, cur') = {n} /\ {k} \cap Pending = {}
    BY <1>4, <1>6
  <2> QED
    BY <1>5, <1>6, <1>7, <2>1 DEF Built
<1> QED
  BY <1>6, <1>8

LEMMA FlowOpenLoop ==
  ASSUME IInv, LoopInv, NEW g, Holds(g), odd' = {}, OpenLoop
  PROVE  LoopInv' /\ \E h : Holds(h)'
<1> PICK k : k = blocks + 1
  OBVIOUS
<1> PICK x : x = blocks + 2
  OBVIOUS
<1> PICK f : f = Frame("loop", x, None, k)
  OBVIOUS
<1>0. PICK o : Entered("loop", o)
  BY EnterNow, KindFacts DEF OpenLoop, Flow!OpenLoop
<1>1. /\ Create(2) /\ blocks \in Nat /\ blocks' = blocks + 2 /\ blocks' <= MaxBlocks
      /\ brk' = x /\ cont' = k /\ cur' = k /\ frames' = Append(frames, f)
      /\ code' = Headed(code, cur, k, points')
  BY Now DEF OpenLoop, Create, Headed
<1>2. k \in (blocks + 1) .. blocks' /\ x \in (blocks + 1) .. blocks' /\ x # k /\ k \in Blocks /\ x \in Blocks /\ 2 \in Nat
  BY <1>1, Now DEF Blocks
<1>3. PICK h : Built(g, h, points + 1, {k}) /\ Begins(code', k, points + 1)
  BY <1>0, <1>1, <1>2, FlowHead
<1>4. f \in Frames /\ f.kind = "loop" /\ f.next = x /\ f.back = k
  <2>1. "loop" \in Flow!Kinds /\ k \in MaybeBlock /\ None \in MaybeBlock
    BY <1>2, KindFacts DEF MaybeBlock
  <2> QED
    BY <1>2, <2>1, FrameFacts
<1>5. o.kind = "loop" /\ o.head = points + 1 /\ o.outs = {}
  BY <1>0 DEF Entered
<1>6. h[x] = {}
  <2>1. g[x] = {} /\ x \in Places
    BY <1>1, <1>2, NewBlocks
  <2> QED
    BY <1>2, <1>3, <2>1 DEF Built
<1>7. Matches(f, o, h, code')
  BY <1>3, <1>4, <1>5, <1>6 DEF Matches
<1>8. f.kind # "for" /\ o.kind \in Flow!Loops /\ cont' = f.back /\ (o.kind # "do" => brk' = f.next)
  BY <1>1, <1>4, <1>5, KindFacts
<1> QED
  BY <1>0, <1>1, <1>3, <1>4, <1>7, <1>8, FlowOpens

LEMMA FlowOpenDo ==
  ASSUME IInv, LoopInv, NEW g, Holds(g), odd' = {}, OpenDo
  PROVE  LoopInv' /\ \E h : Holds(h)'
<1> PICK back : back = blocks + 1
  OBVIOUS
<1> PICK k : k = blocks + 2
  OBVIOUS
<1> PICK x : x = blocks + 3
  OBVIOUS
<1> PICK f : f = Frame("do", x, k, back)
  OBVIOUS
<1>0. PICK o : Entered("do", o)
  BY EnterNow, KindFacts DEF OpenDo, Flow!OpenLoop
<1>1. /\ Create(3) /\ blocks \in Nat /\ blocks' = blocks + 3 /\ blocks' <= MaxBlocks
      /\ cont' = back /\ cur' = k /\ frames' = Append(frames, f)
      /\ code' = Headed(code, cur, k, points')
  BY Now DEF OpenDo, Create, Headed
<1>2. /\ k \in (blocks + 1) .. blocks' /\ x \in (blocks + 1) .. blocks' /\ back \in (blocks + 1) .. blocks'
      /\ x # k /\ back # k /\ k \in Blocks /\ x \in Blocks /\ back \in Blocks /\ 3 \in Nat
  BY <1>1, Now DEF Blocks
<1>3. PICK h : Built(g, h, points + 1, {k}) /\ Begins(code', k, points + 1)
  BY <1>0, <1>1, <1>2, FlowHead
<1>4. f \in Frames /\ f.kind = "do" /\ f.next = x /\ f.alt = k /\ f.back = back
  <2>1. "do" \in Flow!Kinds /\ k \in MaybeBlock /\ back \in MaybeBlock
    BY <1>2, KindFacts DEF MaybeBlock
  <2> QED
    BY <1>2, <2>1, FrameFacts
<1>5. o.kind = "do" /\ o.head = points + 1 /\ o.outs = {} /\ o.conts = {}
  BY <1>0 DEF Entered
<1>6. h[x] = {} /\ h[back] = {}
  <2>1. g[x] = {} /\ x \in Places /\ g[back] = {} /\ back \in Places
    BY <1>1, <1>2, NewBlocks
  <2> QED
    BY <1>2, <1>3, <2>1 DEF Built
<1>7. Matches(f, o, h, code')
  BY <1>3, <1>4, <1>5, <1>6 DEF Matches
<1>8. f.kind # "for" /\ o.kind \in Flow!Loops /\ cont' = f.back /\ (o.kind # "do" => brk' = f.next)
  BY <1>1, <1>4, <1>5, KindFacts
<1> QED
  BY <1>0, <1>1, <1>3, <1>4, <1>7, <1>8, FlowOpens

------------------------------------------------------------------------------
\* The statement in hand.
LEMMA TopNow ==
  ASSUME IInv, NEW g, Holds(g), frames # <<>>, Top.kind # "label"
  PROVE  /\ Top = frames[Len(frames)] /\ Flow!Top = open[Len(open)] /\ Len(open) = Len(frames)
         /\ Len(frames) \in Nat \ {0} /\ Flow!Top \in FlowFrames /\ Flow!Top.kind = Top.kind
         /\ Matches(Top, Flow!Top, g, code)
         /\ Top.next \in PendingOf(Top) /\ PendingOf(Top) \subseteq Pending
         /\ Blank(code, Top.next) /\ Top.next \in 0 .. blocks /\ Top.next # cur
         /\ Top.kind = "if" /\ Top.alt # None =>
              /\ Top.alt # Top.next /\ Top.alt \in PendingOf(Top) /\ Blank(code, Top.alt)
              /\ Top.alt \in 0 .. blocks /\ Top.alt # cur
         /\ Top.kind \in {"for", "do"} =>
              /\ Top.back # Top.next /\ Top.back \in PendingOf(Top) /\ Blank(code, Top.back)
              /\ Top.back \in 0 .. blocks /\ Top.back # cur /\ Top.alt \in Blocks
         /\ Top.kind \in {"for", "loop", "while", "do"} => Top.back \in Blocks
<1>1. /\ Top = frames[Len(frames)] /\ Len(frames) \in 1 .. Len(frames) /\ Len(open) = Len(frames)
      /\ Flow!Top = open[Len(open)]
  BY TopFacts DEF Flow!Top, IInv, StackInv
<1>2. Len(frames) \in Nat \ {0}
  BY <1>1, BlockFacts
<1> PICK i \in 1 .. Len(frames) : i = Len(frames)
  BY <1>1
<1> PICK f : f = Top
  OBVIOUS
<1>3. f = frames[i] /\ Flow!Top = open[i]
  BY <1>1
<1>4. /\ open[i] \in FlowFrames /\ Matches(f, open[i], g, code) /\ open[i].kind = f.kind
      /\ f.next \in PendingOf(f) /\ PendingOf(f) \subseteq Pending
      /\ f.kind = "if" => f.alt # f.next
      /\ f.kind = "if" /\ f.alt # None => f.alt \in PendingOf(f)
      /\ f.kind \in {"for", "do"} => f.back \in PendingOf(f) /\ f.back # f.next /\ f.alt \in Blocks
      /\ f.kind \in {"for", "loop", "while", "do"} => f.back \in Blocks
  BY <1>3, FrameNow
<1>5. \A b \in PendingOf(f) : Blank(code, b) /\ b \in 0 .. blocks /\ b # cur
  BY <1>4, Now
<1> QED
  BY <1>1, <1>2, <1>3, <1>4, <1>5

\* The code block ends: control goes from its open block to t.
Ending(g, t, d, h) ==
  /\ h \in Gains /\ Laid(d, h, points, blocks)
  /\ d \in [Blocks -> Contents] /\ \A e \in Blocks : e # cur => d[e] = code[e]
  /\ Done(d, cur)
  /\ \A u, q : Begins(d, u, q) <=> Begins(code, u, q)
  /\ h[t] = g[t] \cup live /\ \A u \in Places : u # t => h[u] = g[u]
  /\ \A p \in Nat, q \in Nat : Linked(d, h, p, q) <=> Linked(code, g, p, q) \/ (p \in live /\ Begins(code, t, q))

LEMMA FlowEnding ==
  ASSUME IInv, NEW g, Holds(g), ~ended, NEW t \in Places, t \in 0 .. blocks,
         t \in Blocks => ~Quiet(code, t) \/ (~Done(code, t) /\ t # cur),
         NEW d, d = BranchIfOpen(code, cur, t)
  PROVE  \E h : Ending(g, t, d, h)
<1>1. /\ code \in [Blocks -> Contents] /\ g \in Gains /\ points \in Nat /\ blocks \in Nat /\ blocks <= MaxBlocks
      /\ cur \in Blocks /\ Laid(code, g, points, blocks)
      /\ Done(code, cur) => live = {}
      /\ ~Done(code, cur) => live = Out(code, g, cur)
  BY Now
<1>2. PICK h : h = Plus(g, {t}, live)
  OBVIOUS
<1>3. Laid(d, h, points, blocks) /\ h \in Gains /\ Passes(code, g, live, {t}, d, h)
      /\ Closes(code, cur, d)
  BY <1>1, <1>2, AddEdgeIfOpen
<1>4. /\ h[t] = g[t] \cup live /\ \A u \in Places : u # t => h[u] = g[u]
      /\ \A p \in Nat, q \in Nat : Linked(d, h, p, q) <=> Linked(code, g, p, q) \/ (p \in live /\ Begins(code, t, q))
  BY <1>3 DEF Passes
<1> QED
  BY <1>3, <1>4 DEF Ending, Closes

\* A statement is closed, and the block after it entered.
LEMMA FlowCloses ==
  ASSUME IInv, NEW g, Holds(g), frames # <<>>, Top.kind # "label", Below, Len(frames') = Len(frames) - 1,
         cur' = Top.next, jumped' = FALSE, NEW E, follow' = follow \cup E,
         NEW h \in Gains, Laid(code', h, points', blocks'),
         NEW T, T \cap Pending \subseteq PendingOf(Top), \A t \in Places : t \notin T => h[t] = g[t],
         \A t, q : Begins(code, t, q) => Begins(code', t, q),
         live' = h[Top.next], code'[Top.next] = code[Top.next],
         \A p \in Nat, q \in Nat : Linked(code', h, p, q) \/ Awaited(h, p, q)' <=>
           Linked(code, g, p, q) \/ <<p, q>> \in E \/ Waits(Top, Flow!Top, g, p, q) \/ Awaited(h, p, q)'
  PROVE  \E k : Holds(k)'
<1>1. Kept(g) /\ Told(g)
  BY DEF Holds
<1>2. Kept(h)' /\ \A p, q : Awaited(g, p, q) <=> Awaited(h, p, q)' \/ Waits(Top, Flow!Top, g, p, q)
  BY <1>1, KeptPop
<1>3. Told(h)'
  <2>1. \A p \in Nat, q \in Nat : Linked(code', h, p, q) \/ Awaited(h, p, q)' <=>
          Linked(code, g, p, q) \/ Awaited(g, p, q) \/ <<p, q>> \in E
    BY <1>2
  <2> QED
    BY <1>1, <2>1, ToldNext
<1>4. Here(h)'
  <2>1. Blank(code, Top.next)
    BY TopNow
  <2>2. ~Done(code', cur') /\ Out(code', h, cur') = h[cur']
    BY <2>1 DEF Blank, Done, Quiet, Out
  <2> QED
    BY <2>2, HereNext
<1> QED
  BY <1>2, <1>3, <1>4, HoldsNext

\* The stacks without their last statement.
LEMMA BelowPop ==
  ASSUME IInv, frames # <<>>, frames' = Pop, open' = Flow!Pop
  PROVE  /\ Below /\ Len(frames') = Len(frames) - 1 /\ Len(open') = Len(open) - 1
         /\ \A i \in 1 .. Len(open) - 1 : open'[i] = open[i] /\ frames'[i] = frames[i]
<1>1. frames \in Seq(Frames) /\ open \in Seq(FlowFrames) /\ Len(open) = Len(frames) /\ Apart(frames)
  BY BlockFacts, FlowTypeSplit DEF IInv, StackInv, OwnerInv, Walk
<1>2. Len(frames') = Len(frames) - 1 /\ \A i \in 1 .. Len(frames') : frames'[i] = frames[i]
  BY <1>1, PopFacts DEF Pop
<1>3. Len(open') = Len(open) - 1 /\ \A i \in 1 .. Len(open) - 1 : open'[i] = open[i]
  <2>1. open # <<>>
    BY <1>1
  <2> QED
    BY <1>1, <2>1, PopFlow DEF Flow!Pop
<1> QED
  BY <1>1, <1>2, <1>3 DEF Below

LEMMA FlowCloseIf ==
  ASSUME IInv, LoopInv, NEW g, Holds(g), CloseIf
  PROVE  LoopInv' /\ \E h : Holds(h)'
<1> PICK t : t = Top.next
  OBVIOUS
<1>1. /\ frames # <<>> /\ Top.kind \in {"if", "else"} /\ Top.alt = None /\ ~ended
      /\ code' = BranchIfOpen(code, cur, t) /\ cur' = t /\ frames' = Pop /\ open' = Flow!Pop
      /\ UNCHANGED <<blocks, brk, cont, points, follow>> /\ jumped' = FALSE
      /\ live' = Flow!Top.outs \cup live \cup (IF Flow!Top.kind = "if" THEN {Flow!Top.head} ELSE {})
  BY DEF CloseIf, In, Flow!CloseIf, Flow!In, Flow!Closing
<1>2. /\ Flow!Top.kind = Top.kind /\ Matches(Top, Flow!Top, g, code) /\ t \in PendingOf(Top)
      /\ Blank(code, t) /\ t \in 0 .. blocks /\ t # cur
      /\ Len(frames) \in Nat \ {0} /\ Len(open) = Len(frames) /\ Flow!Top = open[Len(open)]
  BY <1>1, TopNow
<1>3. PICK h : Ending(g, t, code', h)
  BY <1>1, <1>2, FlowEnding DEF Blank
<1>4. /\ Below /\ Len(frames') = Len(frames) - 1 /\ Len(open') = Len(open) - 1
      /\ \A i \in 1 .. Len(open) - 1 : open'[i] = open[i] /\ frames'[i] = frames[i]
  BY <1>1, BelowPop
<1>5. live' = h[t] /\ code'[t] = code[t]
  <2>1. h[t] = g[t] \cup live
    BY <1>3 DEF Ending
  <2>2. g[t] = Flow!Top.outs \cup (IF Flow!Top.kind = "if" THEN {Flow!Top.head} ELSE {})
    BY <1>1, <1>2 DEF Matches
  <2> QED
    BY <1>1, <1>2, <1>3, <2>1, <2>2 DEF Ending, Blank
<1>6. \A p \in Nat, q \in Nat : Linked(code', h, p, q) <=> Linked(code, g, p, q)
  BY <1>2, <1>3 DEF Ending, Blank
<1>7. \E k : Holds(k)'
  <2>t. PICK T : T = {t}
    OBVIOUS
  <2>1. T \cap Pending \subseteq PendingOf(Top) /\ Top.kind # "label"
    BY <1>1, <1>2, <2>t
  <2>2. /\ \A u \in Places : u \notin T => h[u] = g[u]
        /\ \A u, q : Begins(code, u, q) => Begins(code', u, q)
        /\ h \in Gains /\ Laid(code', h, points', blocks')
    BY <1>1, <1>3, <2>t DEF Ending
  <2>3. PICK E : E = {}
    OBVIOUS
  <2>4. follow' = follow \cup E
    BY <1>1, <2>3
  <2>5. \A p \in Nat, q \in Nat : Linked(code', h, p, q) \/ Awaited(h, p, q)' <=>
           Linked(code, g, p, q) \/ <<p, q>> \in E \/ Waits(Top, Flow!Top, g, p, q) \/ Awaited(h, p, q)'
    BY <1>1, <1>6, <2>3 DEF Waits
  <2>6. cur' = Top.next /\ live' = h[Top.next] /\ code'[Top.next] = code[Top.next] /\ frames # <<>> /\ jumped' = FALSE
    BY <1>1, <1>5
  <2>7. Below /\ Len(frames') = Len(frames) - 1
    BY <1>4
  <2> QED
    BY <2>1, <2>2, <2>4, <2>5, <2>6, <2>7, FlowCloses
<1>8. LoopInv'
  <2>1. open[Len(open)].kind \notin Flow!Loops
    BY <1>1, <1>2, KindFacts
  <2>2. Len(open') # Len(open) /\ Len(open') \in {Len(open) - 1, Len(open)}
    BY <1>2, <1>4
  <2> QED
    BY <1>1, <1>2, <1>4, <2>1, <2>2, LoopBelow
<1> QED
  BY <1>7, <1>8

\* The last statement of the stacks is changed.
LEMMA BelowSwap ==
  ASSUME IInv, frames # <<>>, NEW f, frames' = [frames EXCEPT ![Len(frames)] = f],
         NEW o, open' = [open EXCEPT ![Len(open)] = o]
  PROVE  /\ Below /\ Len(frames') = Len(frames) /\ Len(open') = Len(open)
         /\ frames'[Len(frames)] = f /\ open'[Len(open)] = o
         /\ \A i \in 1 .. Len(open) - 1 : open'[i] = open[i] /\ frames'[i] = frames[i]
<1>1. frames \in Seq(Frames) /\ open \in Seq(FlowFrames) /\ Len(open) = Len(frames) /\ open # <<>>
  BY BlockFacts, FlowTypeSplit DEF IInv, StackInv, Walk
<1>2. Len(frames) \in Nat \ {0}
  BY <1>1, EmptySeq
<1>3. Len(frames') = Len(frames) /\ frames'[Len(frames)] = f /\ \A i \in 1 .. Len(frames) - 1 : frames'[i] = frames[i]
  BY <1>1, <1>2
<1>4. Len(open') = Len(open) /\ open'[Len(open)] = o /\ \A i \in 1 .. Len(open) - 1 : open'[i] = open[i]
  BY <1>1, <1>2
<1> QED
  BY <1>1, <1>3, <1>4 DEF Below

\* Another block of the statement in hand is entered: what the steps elif and else share.
LEMMA FlowSwaps ==
  ASSUME IInv, LoopInv, NEW g, Holds(g), frames # <<>>, Top.kind = "if",
         NEW f, frames' = [frames EXCEPT ![Len(frames)] = f], f.kind \in {"if", "else"},
         NEW o, open' = [open EXCEPT ![Len(open)] = o], o.kind = f.kind,
         UNCHANGED <<brk, cont>>, jumped' = FALSE, NEW E, follow' = follow \cup E,
         NEW h \in Gains, Laid(code', h, points', blocks'), Matches(f, o, h, code'),
         NEW T, T \cap Pending \subseteq PendingOf(Top), \A t \in Places : t \notin T => h[t] = g[t],
         \A t, q : Begins(code, t, q) => Begins(code', t, q),
         ~Done(code', cur'), live' = Out(code', h, cur'),
         \A p \in Nat, q \in Nat : Linked(code', h, p, q) <=> Linked(code, g, p, q) \/ <<p, q>> \in E
  PROVE  LoopInv' /\ \E k : Holds(k)'
<1>1. /\ Below /\ Len(frames') = Len(frames) /\ Len(open') = Len(open)
      /\ frames'[Len(frames)] = f /\ open'[Len(open)] = o
      /\ \A i \in 1 .. Len(open) - 1 : open'[i] = open[i] /\ frames'[i] = frames[i]
  BY BelowSwap
<1>2. /\ Flow!Top.kind = Top.kind /\ Flow!Top = open[Len(open)] /\ Len(open) = Len(frames) /\ Len(frames) \in Nat \ {0}
      /\ Kept(g) /\ Told(g)
  BY TopNow DEF Holds
<1>3. Kept(h)' /\ \A p, q : Awaited(h, p, q)' <=> Awaited(g, p, q)
  <2>1. Matches(frames'[Len(frames)], open'[Len(frames)], h, code') /\ frames'[Len(frames)].kind # "for"
    BY <1>1, <1>2
  <2> QED
    BY <1>1, <1>2, <2>1, KeptSwap
<1>4. Told(h)'
  BY <1>2, <1>3, ToldNext
<1>5. Here(h)'
  BY HereNext
<1>6. LoopInv'
  <2>0. "if" \notin Flow!Loops /\ "else" \notin Flow!Loops
    BY KindFacts
  <2>1. open[Len(open)].kind \notin Flow!Loops /\ open'[Len(open)].kind \notin Flow!Loops
    BY <1>1, <1>2, <2>0, Zenon
  <2>2. Len(open') \in {Len(open) - 1, Len(open)}
    BY <1>1
  <2> QED
    BY <1>1, <1>2, <2>1, <2>2, LoopBelow
<1> QED
  BY <1>3, <1>4, <1>5, <1>6, HoldsNext

LEMMA FlowElse ==
  ASSUME IInv, LoopInv, NEW g, Holds(g), Else
  PROVE  LoopInv' /\ \E h : Holds(h)'
<1> PICK t : t = Top.next
  OBVIOUS
<1> PICK a : a = Top.alt
  OBVIOUS
<1> PICK f : f = Frame("else", t, None, None)
  OBVIOUS
<1> PICK o : o = [Flow!Top EXCEPT !.kind = "else", !.outs = @ \cup live]
  OBVIOUS
<1>1. /\ frames # <<>> /\ Top.kind = "if" /\ a # None /\ ~ended
      /\ code' = BranchIfOpen(code, cur, t) /\ cur' = a
      /\ frames' = [frames EXCEPT ![Len(frames)] = f] /\ open' = [open EXCEPT ![Len(open)] = o]
      /\ UNCHANGED <<blocks, brk, cont, points, follow>> /\ jumped' = FALSE
      /\ live' = {Flow!Top.head}
  BY DEF Else, In, Flow!Else, Flow!In, Flow!Closing
<1>2. /\ Flow!Top \in FlowFrames /\ Matches(Top, Flow!Top, g, code) /\ t \in PendingOf(Top)
      /\ Blank(code, t) /\ t \in 0 .. blocks /\ t # cur
      /\ Blank(code, a) /\ a # cur /\ a # t /\ a \in PendingOf(Top)
  BY <1>1, TopNow
<1>3. PICK h : Ending(g, t, code', h)
  BY <1>1, <1>2, FlowEnding DEF Blank
<1>4. o.kind = "else" /\ o.outs = Flow!Top.outs \cup live
  BY <1>2 DEF FlowFrames
<1>5. f.kind = "else" /\ f.next = t
  BY DEF Frame
<1>6. h[t] = Flow!Top.outs \cup live /\ h[a] = {Flow!Top.head} /\ code'[a] = code[a]
  <2>1. h[t] = g[t] \cup live /\ h[a] = g[a] /\ code'[a] = code[a]
    BY <1>2, <1>3 DEF Ending, Blank
  <2>2. g[t] = Flow!Top.outs /\ g[a] = {Flow!Top.head}
    BY <1>1, <1>2 DEF Matches
  <2> QED
    BY <2>1, <2>2
<1>7. Matches(f, o, h, code')
  BY <1>4, <1>5, <1>6 DEF Matches
<1>8. ~Done(code', cur') /\ live' = Out(code', h, cur')
  BY <1>1, <1>2, <1>6 DEF Blank, Done, Quiet, Out
<1>t. PICK T : T = {t}
  OBVIOUS
<1>9. /\ \A u \in Places : u \notin T => h[u] = g[u]
      /\ \A u, q : Begins(code, u, q) => Begins(code', u, q)
      /\ h \in Gains /\ Laid(code', h, points', blocks') /\ T \cap Pending \subseteq PendingOf(Top)
  BY <1>1, <1>2, <1>3, <1>t DEF Ending
<1>10. PICK E : E = {}
  OBVIOUS
<1>11. \A p \in Nat, q \in Nat : Linked(code', h, p, q) <=> Linked(code, g, p, q) \/ <<p, q>> \in E
  BY <1>2, <1>3, <1>10 DEF Ending, Blank
<1>12. /\ f.kind \in {"if", "else"} /\ o.kind = f.kind /\ frames # <<>> /\ Top.kind = "if"
       /\ frames' = [frames EXCEPT ![Len(frames)] = f] /\ open' = [open EXCEPT ![Len(open)] = o]
       /\ UNCHANGED <<brk, cont>> /\ jumped' = FALSE /\ follow' = follow \cup E
  BY <1>1, <1>4, <1>5, <1>10
<1> QED
  BY <1>7, <1>8, <1>9, <1>11, <1>12, FlowSwaps

LEMMA BlankStays ==
  ASSUME NEW c, NEW d, NEW b, Blank(c, b), d[b] = c[b]
  PROVE  Blank(d, b)
BY DEF Blank, Quiet, Done, Begins, Blocks

LEMMA FlowElif ==
  ASSUME IInv, LoopInv, NEW g, Holds(g), NEW alt \in BOOLEAN, Elif(alt)
  PROVE  LoopInv' /\ \E h : Holds(h)'
<1> PICK t : t = Top.next
  OBVIOUS
<1> PICK a : a = Top.alt
  OBVIOUS
<1> PICK then : then = blocks + 1
  OBVIOUS
<1> PICK other : other = IF alt THEN blocks + 2 ELSE None
  OBVIOUS
<1> PICK x : x = IF alt THEN other ELSE t
  OBVIOUS
<1> PICK n : n = points + 1
  OBVIOUS
<1> PICK f : f = Frame("if", t, other, None)
  OBVIOUS
<1> PICK o : o = [Flow!Top EXCEPT !.head = n, !.outs = @ \cup live]
  OBVIOUS
<1> PICK c : c = BranchIfOpen(code, cur, t)
  OBVIOUS
<1>1. /\ frames # <<>> /\ Top.kind = "if" /\ a # None /\ ~ended /\ Create(IF alt THEN 2 ELSE 1)
      /\ points' = n /\ code' = Branch(Evaluate(c, a, points'), a, {then, x}) /\ cur' = then
      /\ frames' = [frames EXCEPT ![Len(frames)] = f] /\ open' = [open EXCEPT ![Len(open)] = o]
      /\ UNCHANGED <<brk, cont>> /\ jumped' = FALSE
      /\ live' = {n} /\ follow' = follow \cup ({Flow!Top.head} \X {n})
  BY DEF Elif, In, Flow!Elif, Flow!In, Flow!Arrive, Flow!New
<1>2. /\ Flow!Top \in FlowFrames /\ Matches(Top, Flow!Top, g, code) /\ t \in PendingOf(Top) /\ PendingOf(Top) \subseteq Pending
      /\ Blank(code, t) /\ t \in 0 .. blocks /\ t # cur
      /\ Blank(code, a) /\ a # cur /\ a # t /\ a \in PendingOf(Top) /\ a \in 0 .. blocks
  BY <1>1, TopNow
<1>3. /\ blocks \in Nat /\ points \in Nat /\ None \notin Nat
      /\ live \subseteq Nat
  BY Now, BlockFacts, FlowTypeSplit DEF Walk
<1>4. /\ blocks' = blocks + (IF alt THEN 2 ELSE 1) /\ blocks' \in Nat /\ blocks' <= MaxBlocks
      /\ \A b \in (blocks + 1) .. blocks' :
           /\ Blank(code, b) /\ g[b] = {} /\ b # cur /\ b \notin Pending
           /\ b \in Blocks /\ b \in Places /\ b \in 0 .. blocks'
  <2>1. (IF alt THEN 2 ELSE 1) \in Nat
    OBVIOUS
  <2> QED
    BY <1>1, <2>1, NewBlocks
<1>5. then \in (blocks + 1) .. blocks' /\ (alt => other \in (blocks + 1) .. blocks' /\ other # then)
      /\ (~alt => other = None /\ x = t) /\ (alt => x = other) /\ 0 .. blocks \subseteq 0 .. blocks'
  BY <1>3, <1>4
<1>6. PICK i : Ending(g, t, c, i)
  BY <1>1, <1>2, FlowEnding DEF Blank
<1>7. /\ c \in [Blocks -> Contents] /\ \A e \in Blocks : e # cur => c[e] = code[e]
      /\ i \in Gains /\ Laid(c, i, points, blocks)
      /\ i[t] = g[t] \cup live /\ \A u \in Places : u # t => i[u] = g[u]
      /\ \A u, q : Begins(code, u, q) => Begins(c, u, q)
  BY <1>6 DEF Ending
<1>8. \A p \in Nat, q \in Nat : Linked(c, i, p, q) <=> Linked(code, g, p, q)
  BY <1>2, <1>6 DEF Ending, Blank
<1>9. Laid(c, i, points, blocks')
  <2>1. blocks <= blocks'
    BY <1>3, <1>4
  <2> QED
    BY <1>3, <1>4, <1>7, <2>1, LaidUp
<1>10. /\ Blank(c, a) /\ Blank(c, t) /\ Blank(c, then) /\ Blank(c, x)
       /\ then # a /\ x # a /\ then \in 0 .. blocks' /\ x \in 0 .. blocks'
       /\ then # t /\ (alt => x # t /\ x # then /\ x \notin Pending /\ g[x] = {}) /\ then \notin Pending /\ g[then] = {}
  <2>1. \A b \in Blocks : Blank(code, b) /\ b # cur => Blank(c, b)
    BY <1>7, BlankStays
  <2>2. Blank(c, a) /\ Blank(c, t)
    BY <1>2, <2>1 DEF Blank
  <2>3. then \in Blocks /\ Blank(code, then) /\ then # cur /\ then \notin Pending /\ g[then] = {} /\ then \in 0 .. blocks'
    BY <1>4, <1>5
  <2>4. Blank(c, then) /\ then # a /\ then # t
    BY <1>2, <2>1, <2>3
  <2>5. CASE alt
    <3>1. x \in Blocks /\ Blank(code, x) /\ x # cur /\ x \notin Pending /\ g[x] = {} /\ x \in 0 .. blocks' /\ x # then
      BY <1>4, <1>5, <2>5
    <3> QED
      BY <1>2, <2>1, <2>2, <2>3, <2>4, <3>1
  <2>6. CASE ~alt
    BY <1>2, <1>5, <2>2, <2>3, <2>4, <2>6
  <2> QED
    BY <2>5, <2>6
<1>11. Out(c, i, a) = {Flow!Top.head}
  <2>1. i[a] = g[a]
    BY <1>2, <1>7 DEF Blank
  <2>2. g[a] = {Flow!Top.head}
    BY <1>1, <1>2 DEF Matches
  <2> QED
    BY <1>10, <2>1, <2>2 DEF Out, Blank
<1>12. PICK h : h \in Gains /\ Laid(code', h, n, blocks') /\ Tested(c, i, a, n, {then, x}, code', h)
  <2>1. /\ {then, x} \in SUBSET (0 .. blocks')
        /\ \A u \in {then, x} : u \in Blocks => u # a /\ (~Quiet(c, u) \/ ~Done(c, u))
    BY <1>10 DEF Blank
  <2>2. a \in Blocks /\ ~Done(c, a)
    BY <1>10 DEF Blank
  <2>3. code' = Branch(Evaluate(c, a, points + 1), a, {then, x})
    BY <1>1
  <2> QED
    BY <1>3, <1>4, <1>7, <1>9, <2>1, <2>2, <2>3, AddTest
<1>13. /\ \A e \in Blocks : e # a => code'[e] = c[e]
       /\ \A u \in Places : (u \in {then, x} => h[u] = i[u] \cup {n}) /\ (u \notin {then, x} => h[u] = i[u])
       /\ \A u, q : Begins(c, u, q) => Begins(code', u, q)
  BY <1>12 DEF Tested
<1>14. \A p \in Nat, q \in Nat : Linked(code', h, p, q) <=> Linked(code, g, p, q) \/ <<p, q>> \in {Flow!Top.head} \X {n}
  <2>1. \A p \in Nat, q \in Nat : Linked(code', h, p, q) <=> Linked(c, i, p, q) \/ (p \in Out(c, i, a) /\ q = n)
    BY <1>10, <1>12 DEF Tested, Blank
  <2> QED
    BY <1>8, <1>11, <2>1
<1>15. ~Done(code', cur') /\ live' = Out(code', h, cur')
  <2>1. Blank(code', then)
    BY <1>10, <1>13, BlankStays DEF Blank
  <2>2. h[then] = {n}
    BY <1>7, <1>10, <1>13 DEF Blank
  <2> QED
    BY <1>1, <2>1, <2>2 DEF Blank, Done, Quiet, Out
<1>16. o.kind = "if" /\ o.outs = Flow!Top.outs \cup live /\ o.head = n
  <2>1. Flow!Top.kind = "if"
    BY <1>1, TopNow
  <2> QED
    BY <1>2, <2>1 DEF FlowFrames
<1>17. f.kind = "if" /\ f.next = t /\ f.alt = other
  BY DEF Frame
<1>18. Matches(f, o, h, code')
  <2>1. i[t] = Flow!Top.outs \cup live
    BY <1>1, <1>2, <1>7 DEF Matches
  <2>2. CASE alt
    <3>1. h[t] = i[t] /\ h[x] = i[x] \cup {n} /\ i[x] = g[x] /\ t \in Places
      BY <1>7, <1>10, <1>13, <2>2 DEF Blank
    <3>2. other # None /\ x = other
      BY <1>3, <1>5, <2>2
    <3> QED
      BY <1>10, <1>16, <1>17, <2>1, <2>2, <3>1, <3>2 DEF Matches
  <2>3. CASE ~alt
    <3>1. h[t] = i[t] \cup {n} /\ other = None
      BY <1>5, <1>10, <1>13, <2>3 DEF Blank
    <3> QED
      BY <1>16, <1>17, <2>1, <3>1 DEF Matches
  <2> QED
    BY <2>2, <2>3
<1>19. PICK T : T = {t, then, x}
  OBVIOUS
<1>20. T \cap Pending \subseteq PendingOf(Top)
  BY <1>2, <1>5, <1>10, <1>19
<1>21. \A u \in Places : u \notin T => h[u] = g[u]
  BY <1>7, <1>13, <1>19
<1>22. /\ \A u, q : Begins(code, u, q) => Begins(code', u, q)
       /\ h \in Gains /\ Laid(code', h, points', blocks')
  BY <1>1, <1>7, <1>12, <1>13
<1>23. PICK E : E = {Flow!Top.head} \X {n}
  OBVIOUS
<1>24. \A p \in Nat, q \in Nat : Linked(code', h, p, q) <=> Linked(code, g, p, q) \/ <<p, q>> \in E
  BY <1>14, <1>23
<1>25. /\ f.kind \in {"if", "else"} /\ o.kind = f.kind /\ frames # <<>> /\ Top.kind = "if"
       /\ frames' = [frames EXCEPT ![Len(frames)] = f] /\ open' = [open EXCEPT ![Len(open)] = o]
       /\ UNCHANGED <<brk, cont>> /\ jumped' = FALSE /\ follow' = follow \cup E
  BY <1>1, <1>16, <1>17, <1>23
<1> QED
  BY <1>15, <1>18, <1>20, <1>21, <1>22, <1>24, <1>25, FlowSwaps


\* A loop is closed: what lies below it keeps its points, and what break and continue
\* mean is open no more.
LEMMA BelowLoop ==
  ASSUME IInv, NEW kind, Flow!CloseLoop(kind), frames # <<>>, frames' = Pop
  PROVE  Below /\ Len(frames') = Len(frames) - 1 /\ LoopInv'
<1> DEFINE r == SubSeq(open, 1, Len(open) - 1)
           M == {i \in 1 .. Len(r) : Flow!Innermost(i, r)}
<1>1. frames \in Seq(Frames) /\ open \in Seq(FlowFrames) /\ Len(open) = Len(frames) /\ Apart(frames)
  BY BlockFacts, FlowTypeSplit DEF IInv, StackInv, OwnerInv, Walk
<1>2. Len(frames') = Len(frames) - 1 /\ \A i \in 1 .. Len(frames') : frames'[i] = frames[i]
  BY <1>1, PopFacts DEF Pop
<1>3. /\ r \in Seq(FlowFrames) /\ Len(r) = Len(open) - 1
      /\ \A i \in 1 .. Len(open) - 1 : r[i] = open[i]
  <2>1. open # <<>>
    BY <1>1
  <2> QED
    BY <1>1, <2>1, PopFlow
<1>4. open' = MarkAll(r, M)
  <2>1. open' = [i \in 1 .. Len(r) |->
                    IF Flow!Innermost(i, r) THEN [r[i] EXCEPT !.inner = TRUE] ELSE r[i]]
    BY DEF Flow!CloseLoop, Flow!In, Flow!Pop
  <2> QED
    BY <2>1, Zenon DEF Marked, MarkAll
<1>5. \A i : i \in M <=> i \in 1 .. Len(r) /\ Flow!Innermost(i, r)
  OBVIOUS
<1> HIDE DEF r, M
<1>6. /\ Len(open') = Len(r) /\ open' \in Seq(FlowFrames)
      /\ \A i \in 1 .. Len(r) : open'[i].kind = r[i].kind
  BY <1>3, <1>4, MarkedFacts
<1>7. \A i \in 1 .. Len(r) :
        /\ open'[i].head = r[i].head /\ open'[i].outs = r[i].outs /\ open'[i].conts = r[i].conts
        /\ i \in M => open'[i].inner
  <2> SUFFICES ASSUME NEW i \in 1 .. Len(r)
               PROVE  /\ open'[i].head = r[i].head /\ open'[i].outs = r[i].outs /\ open'[i].conts = r[i].conts
                      /\ i \in M => open'[i].inner
    OBVIOUS
  <2>1. open'[i] = IF i \in M THEN Marked(r[i]) ELSE r[i]
    BY <1>4 DEF MarkAll
  <2>2. r[i] \in FlowFrames
    BY <1>3
  <2> QED
    BY <2>1, <2>2 DEF Marked, FlowFrames
<1>8. Below
  <2>1. Len(open') = Len(frames')
    BY <1>1, <1>2, <1>3, <1>6
  <2>2. \A i \in 1 .. Len(frames) - 1 : i \in 1 .. Len(frames') /\ i \in 1 .. Len(r) /\ r[i] = open[i]
    BY <1>1, <1>2, <1>3
  <2> QED
    BY <1>2, <1>7, <2>1, <2>2 DEF Below
<1>9. LoopInv'
  <2>1. Flow!LoopsOf(open') = Flow!LoopsOf(r)
    BY <1>6 DEF Flow!LoopsOf
  <2>2. \A i : Flow!Innermost(i, open') => i \in M
    BY <1>5, <2>1 DEF Flow!Innermost, Flow!LoopsOf
  <2>3. \A i \in M : i \in 1 .. Len(r)
    BY <1>5
  <2> QED
    BY <1>7, <2>2, <2>3 DEF LoopInv
<1> QED
  BY <1>2, <1>8, <1>9

\* The loops whose body goes back to the header.
LEMMA FlowRound ==
  ASSUME IInv, NEW g, Holds(g), NEW kind \in {"loop", "while"}, Flow!CloseLoop(kind),
         frames # <<>>, Top.kind = kind, frames' = Pop, cur' = Top.next, blocks' = blocks,
         code' = BranchIfOpen(code, cur, Top.back)
  PROVE  LoopInv' /\ \E h : Holds(h)'
<1> PICK t : t = Top.next
  OBVIOUS
<1> PICK b : b = Top.back
  OBVIOUS
<1> PICK n : n = Flow!Top.head
  OBVIOUS
<1>1. /\ kind # "do" /\ Top.kind # "label" /\ Top.kind # "for" /\ jumped' = FALSE /\ ~ended /\ UNCHANGED points
      /\ follow' = follow \cup (live \X {n})
      /\ live' = Flow!Top.outs \cup (IF kind = "loop" THEN {} ELSE {n})
  BY DEF Flow!CloseLoop, Flow!In, Flow!Closing
<1>2. /\ Matches(Top, Flow!Top, g, code) /\ t \in Pending /\ Blank(code, t) /\ t # cur /\ b \in Blocks
  BY <1>1, TopNow
<1>3. Begins(code, b, n) /\ g[t] = Flow!Top.outs \cup (IF kind = "loop" THEN {} ELSE {n})
  BY <1>1, <1>2 DEF Matches
<1>4. ~Quiet(code, b) /\ \A r : Begins(code, b, r) <=> r = n
  <2>1. b \in Blocks /\ Begins(code, b, n)
    BY <1>2, <1>3
  <2> QED
    BY <2>1, OneBegin
<1>5. b \in 0 .. blocks /\ b \notin Pending /\ b \in Places
  BY <1>2, <1>4, LoudBlock
<1>6. PICK h : Ending(g, b, code', h)
  BY <1>1, <1>4, <1>5, FlowEnding
<1>7. Below /\ Len(frames') = Len(frames) - 1 /\ LoopInv'
  BY BelowLoop
<1>8. live' = h[t] /\ code'[t] = code[t]
  <2>1. t # b /\ t \in Places /\ t \in Blocks
    BY <1>2, <1>5 DEF Blank
  <2> QED
    BY <1>1, <1>2, <1>3, <1>6, <2>1 DEF Ending
<1>e. PICK E : E = live \X {n}
  OBVIOUS
<1>9. \A p \in Nat, q \in Nat : Linked(code', h, p, q) <=> Linked(code, g, p, q) \/ <<p, q>> \in E
  BY <1>4, <1>6, <1>e DEF Ending
<1>t. PICK T : T = {b}
  OBVIOUS
<1>10. /\ T \cap Pending \subseteq PendingOf(Top)
       /\ \A u \in Places : u \notin T => h[u] = g[u]
       /\ \A u, q : Begins(code, u, q) => Begins(code', u, q)
       /\ h \in Gains /\ Laid(code', h, points', blocks')
  BY <1>1, <1>5, <1>6, <1>t DEF Ending
<1>11. \A p \in Nat, q \in Nat : Linked(code', h, p, q) \/ Awaited(h, p, q)' <=>
         Linked(code, g, p, q) \/ <<p, q>> \in E \/ Waits(Top, Flow!Top, g, p, q) \/ Awaited(h, p, q)'
  <2>1. \A p, q : ~Waits(Top, Flow!Top, g, p, q)
    BY <1>1 DEF Waits
  <2> QED
    BY <1>9, <2>1
<1>12. follow' = follow \cup E /\ live' = h[Top.next] /\ code'[Top.next] = code[Top.next] /\ Top.kind # "label" /\ jumped' = FALSE
  BY <1>1, <1>8, <1>e
<1> QED
  BY <1>7, <1>10, <1>11, <1>12, FlowCloses

LEMMA FlowCloseLoop ==
  ASSUME IInv, NEW g, Holds(g), CloseLoop
  PROVE  LoopInv' /\ \E h : Holds(h)'
BY FlowRound DEF CloseLoop, In

\* A jump at the end of the body would be odd.
LEMMA NoTail ==
  ASSUME IInv, NEW g, Holds(g), NEW kind \in {"while", "do"}, Flow!CloseLoop(kind), odd' = {}
  PROVE  ~jumped /\ ~Done(code, cur) /\ live = Out(code, g, cur) /\ ~ended
<1>1. ~jumped
  BY CloseLoopFacts DEF IInv, TypeOK
<1>2. ~ended
  BY DEF Flow!CloseLoop, Flow!In
<1> QED
  BY <1>1, <1>2, Now

LEMMA FlowCloseWhile ==
  ASSUME IInv, NEW g, Holds(g), odd' = {}, CloseWhile
  PROVE  LoopInv' /\ \E h : Holds(h)'
<1>1. /\ Flow!CloseLoop("while") /\ frames # <<>> /\ Top.kind = "while" /\ frames' = Pop /\ cur' = Top.next
      /\ blocks' = blocks /\ code' = Branch(code, cur, {Top.back})
  BY DEF CloseWhile, In
<1>2. ~Done(code, cur)
  BY <1>1, NoTail
<1>3. code' = BranchIfOpen(code, cur, Top.back)
  BY <1>1, <1>2 DEF BranchIfOpen, Done
<1> QED
  BY <1>1, <1>3, FlowRound

LEMMA FlowCloseFor ==
  ASSUME IInv, NEW g, Holds(g), CloseFor
  PROVE  LoopInv' /\ \E h : Holds(h)'
<1> PICK t : t = Top.next
  OBVIOUS
<1> PICK a : a = Top.alt
  OBVIOUS
<1> PICK b : b = Top.back
  OBVIOUS
<1> PICK n : n = Flow!Top.head
  OBVIOUS
<1> PICK c : c = BranchIfOpen(code, cur, b)
  OBVIOUS
<1>1. /\ Flow!CloseLoop("for") /\ frames # <<>> /\ Top.kind = "for" /\ frames' = Pop /\ cur' = t /\ blocks' = blocks
      /\ code' = Branch(c, b, {a})
      /\ jumped' = FALSE /\ ~ended /\ points' = points /\ follow' = follow \cup (live \X {n})
      /\ live' = Flow!Top.outs \cup {n}
  BY DEF CloseFor, In, Flow!CloseLoop, Flow!In, Flow!Closing
<1>2. /\ Matches(Top, Flow!Top, g, code) /\ t \in PendingOf(Top) /\ b \in PendingOf(Top) /\ PendingOf(Top) \subseteq Pending
      /\ Blank(code, t) /\ Blank(code, b) /\ b # t /\ b # cur /\ t # cur /\ a \in Blocks /\ b \in 0 .. blocks
  BY <1>1, TopNow
<1>3. Begins(code, a, n) /\ g[t] = Flow!Top.outs \cup {n}
  BY <1>1, <1>2 DEF Matches
<1>4. ~Quiet(code, a) /\ \A r : Begins(code, a, r) <=> r = n
  <2>1. a \in Blocks /\ Begins(code, a, n)
    BY <1>2, <1>3
  <2> QED
    BY <2>1, OneBegin
<1>5. a \in 0 .. blocks /\ a \notin Pending /\ a \in Places
  BY <1>2, <1>4, LoudBlock
<1>6. PICK i : Ending(g, b, c, i)
  BY <1>1, <1>2, FlowEnding DEF Blank
<1>7. /\ c \in [Blocks -> Contents] /\ \A e \in Blocks : e # cur => c[e] = code[e]
      /\ i \in Gains /\ Laid(c, i, points, blocks)
      /\ i[b] = g[b] \cup live /\ \A u \in Places : u # b => i[u] = g[u]
      /\ \A u, q : Begins(c, u, q) <=> Begins(code, u, q)
  BY <1>6 DEF Ending
<1>8. \A p \in Nat, q \in Nat : Linked(c, i, p, q) <=> Linked(code, g, p, q)
  BY <1>2, <1>6 DEF Ending, Blank
<1>9. Blank(c, b) /\ c[t] = code[t] /\ ~Quiet(c, a)
  <2>1. Blank(c, b) /\ c[t] = code[t]
    BY <1>2, <1>7, BlankStays DEF Blank
  <2>2. Begins(c, a, n)
    BY <1>3, <1>7
  <2> QED
    BY <1>2, <2>1, <2>2, OneBegin
<1>10. PICK T : T = {a}
  OBVIOUS
<1>11. PICK h : h = Plus(i, T, Out(c, i, b))
  OBVIOUS
<1>12. /\ Laid(code', h, points, blocks) /\ h \in Gains /\ Branched(c, b, T, code')
       /\ Passes(c, i, Out(c, i, b), T, code', h)
  <2>1. points \in Nat /\ blocks \in Nat /\ blocks <= MaxBlocks
    BY Now
  <2>2. T \in SUBSET (0 .. blocks) /\ \A u \in T : u \in Blocks => ~Quiet(c, u) \/ (~Done(c, u) /\ u # b)
    BY <1>5, <1>9, <1>10
  <2>3. b \in Blocks /\ ~Done(c, b) /\ code' = Branch(c, b, T)
    BY <1>1, <1>9, <1>10 DEF Blank
  <2> QED
    BY <1>7, <1>11, <2>1, <2>2, <2>3, AddEdge
<1>13. Out(c, i, b) = g[b] \cup live
  BY <1>7, <1>9 DEF Out, Blank
<1>14. /\ \A u \in Places : u # a /\ u # b => h[u] = g[u]
       /\ \A u, q : Begins(code, u, q) => Begins(code', u, q)
       /\ code'[t] = code[t]
  <2>1. \A u \in Places : u # a => h[u] = i[u]
    BY <1>10, <1>12 DEF Passes
  <2>2. \A u, q : Begins(code', u, q) <=> Begins(c, u, q)
    BY <1>12 DEF Branched
  <2>3. code'[t] = c[t]
    BY <1>2, <1>12 DEF Branched, Blank
  <2> QED
    BY <1>7, <1>9, <2>1, <2>2, <2>3
<1>e. PICK E : E = live \X {n}
  OBVIOUS
<1>15. \A p \in Nat, q \in Nat : Linked(code', h, p, q) <=>
         Linked(code, g, p, q) \/ <<p, q>> \in E \/ Waits(Top, Flow!Top, g, p, q)
  <2>1. \A p \in Nat, q \in Nat : Linked(code', h, p, q) <=>
          Linked(c, i, p, q) \/ (p \in Out(c, i, b) /\ Begins(c, a, q))
    BY <1>10, <1>12 DEF Passes
  <2>2. \A q : Begins(c, a, q) <=> q = n
    BY <1>4, <1>7
  <2>3. \A p, q : Waits(Top, Flow!Top, g, p, q) <=> p \in g[b] /\ q = n
    BY <1>1 DEF Waits
  <2> QED
    BY <1>8, <1>13, <1>e, <2>1, <2>2, <2>3
<1>16. \A p \in Nat, q \in Nat : Linked(code', h, p, q) \/ Awaited(h, p, q)' <=>
         Linked(code, g, p, q) \/ <<p, q>> \in E \/ Waits(Top, Flow!Top, g, p, q) \/ Awaited(h, p, q)'
  BY <1>15
<1>t. PICK U : U = {a, b}
  OBVIOUS
<1>17. /\ U \cap Pending \subseteq PendingOf(Top) /\ h \in Gains /\ Laid(code', h, points', blocks')
       /\ \A u \in Places : u \notin U => h[u] = g[u]
  BY <1>1, <1>2, <1>5, <1>12, <1>14, <1>t
<1>18. live' = h[Top.next] /\ code'[Top.next] = code[Top.next]
  <2>1. t # a /\ t # b /\ t \in Places
    BY <1>2, <1>5 DEF Blank
  <2> QED
    BY <1>1, <1>3, <1>14, <2>1
<1>19. /\ frames # <<>> /\ Top.kind # "label" /\ cur' = Top.next /\ jumped' = FALSE /\ follow' = follow \cup E
       /\ frames' = Pop /\ Flow!CloseLoop("for")
  BY <1>1, <1>e
<1>20. Below /\ Len(frames') = Len(frames) - 1 /\ LoopInv'
  BY <1>19, BelowLoop
<1> QED
  BY <1>14, <1>16, <1>17, <1>18, <1>19, <1>20, FlowCloses

LEMMA FlowCloseDo ==
  ASSUME IInv, NEW g, Holds(g), odd' = {}, CloseDo
  PROVE  LoopInv' /\ \E h : Holds(h)'
<1> PICK t : t = Top.next
  OBVIOUS
<1> PICK a : a = Top.alt
  OBVIOUS
<1> PICK b : b = Top.back
  OBVIOUS
<1> PICK k : k = Flow!Top.head
  OBVIOUS
<1> PICK n : n = points + 1
  OBVIOUS
<1> PICK c : c = BranchIfOpen(code, cur, b)
  OBVIOUS
<1>1. /\ Flow!CloseLoop("do") /\ frames # <<>> /\ Top.kind = "do" /\ frames' = Pop /\ cur' = t /\ blocks' = blocks
      /\ code' = Branch(Evaluate(Branch(code, cur, {b}), b, points'), b, {a, t})
      /\ jumped' = FALSE /\ points' = n
      /\ follow' = follow \cup ((live \cup Flow!Top.conts) \X {n}) \cup {<<n, k>>}
      /\ live' = Flow!Top.outs \cup {n}
  BY DEF CloseDo, In, Flow!CloseLoop, Flow!In, Flow!Closing, Flow!New
<1>0. ~ended /\ code' = Branch(Evaluate(c, b, n), b, {a, t})
  <2>1. ~Done(code, cur) /\ ~ended
    BY <1>1, NoTail
  <2>2. c = Branch(code, cur, {b})
    BY <2>1 DEF BranchIfOpen, Done
  <2> QED
    BY <1>1, <2>1, <2>2
<1>2. /\ Matches(Top, Flow!Top, g, code) /\ t \in PendingOf(Top) /\ b \in PendingOf(Top) /\ PendingOf(Top) \subseteq Pending
      /\ Blank(code, t) /\ Blank(code, b) /\ b # t /\ b # cur /\ t # cur /\ a \in Blocks
      /\ b \in 0 .. blocks /\ t \in 0 .. blocks
  BY <1>1, TopNow
<1>3. Begins(code, a, k) /\ g[t] = Flow!Top.outs /\ g[b] = Flow!Top.conts
  BY <1>1, <1>2 DEF Matches
<1>4. ~Quiet(code, a) /\ \A r : Begins(code, a, r) <=> r = k
  <2>1. a \in Blocks /\ Begins(code, a, k)
    BY <1>2, <1>3
  <2> QED
    BY <2>1, OneBegin
<1>5. a \in 0 .. blocks /\ a \notin Pending /\ a \in Places
  BY <1>2, <1>4, LoudBlock
<1>6. PICK i : Ending(g, b, c, i)
  BY <1>0, <1>2, FlowEnding DEF Blank
<1>7. /\ c \in [Blocks -> Contents] /\ \A e \in Blocks : e # cur => c[e] = code[e]
      /\ i \in Gains /\ Laid(c, i, points, blocks)
      /\ i[b] = g[b] \cup live /\ \A u \in Places : u # b => i[u] = g[u]
      /\ \A u, q : Begins(c, u, q) <=> Begins(code, u, q)
  BY <1>6 DEF Ending
<1>8. \A p \in Nat, q \in Nat : Linked(c, i, p, q) <=> Linked(code, g, p, q)
  BY <1>2, <1>6 DEF Ending, Blank
<1>9. Blank(c, b) /\ Blank(c, t) /\ c[t] = code[t] /\ ~Quiet(c, a)
  <2>1. Blank(c, b) /\ Blank(c, t) /\ c[t] = code[t]
    BY <1>2, <1>7, BlankStays DEF Blank
  <2>2. Begins(c, a, k)
    BY <1>3, <1>7
  <2> QED
    BY <1>2, <2>1, <2>2, OneBegin
<1>10. a # b /\ a # t
  BY <1>9 DEF Blank
<1>11. PICK T : T = {a, t}
  OBVIOUS
<1>12. PICK h : h \in Gains /\ Laid(code', h, n, blocks) /\ Tested(c, i, b, n, T, code', h)
  <2>1. points \in Nat /\ blocks \in Nat /\ blocks <= MaxBlocks
    BY Now
  <2>2. T \in SUBSET (0 .. blocks) /\ \A u \in T : u \in Blocks => u # b /\ (~Quiet(c, u) \/ ~Done(c, u))
    BY <1>2, <1>5, <1>9, <1>10, <1>11 DEF Blank
  <2>3. b \in Blocks /\ ~Done(c, b) /\ code' = Branch(Evaluate(c, b, points + 1), b, T)
    BY <1>0, <1>9, <1>11 DEF Blank
  <2> QED
    BY <1>7, <2>1, <2>2, <2>3, AddTest
<1>13. Out(c, i, b) = Flow!Top.conts \cup live
  BY <1>3, <1>7, <1>9 DEF Out, Blank
<1>14. /\ \A u \in Places : u # a /\ u # b /\ u # t => h[u] = g[u]
       /\ \A u, q : Begins(code, u, q) => Begins(code', u, q)
       /\ code'[t] = code[t]
       /\ h[t] = g[t] \cup {n}
  <2>1. \A u \in Places : (u \in T => h[u] = i[u] \cup {n}) /\ (u \notin T => h[u] = i[u])
    BY <1>12 DEF Tested
  <2>2. \A u, q : Begins(c, u, q) => Begins(code', u, q)
    BY <1>12 DEF Tested
  <2>3. code'[t] = c[t]
    BY <1>2, <1>12 DEF Tested, Blank
  <2>4. t \in Places
    BY <1>2 DEF Blank
  <2> QED
    BY <1>2, <1>7, <1>9, <1>11, <2>1, <2>2, <2>3, <2>4
<1>e. PICK E : E = ((live \cup Flow!Top.conts) \X {n}) \cup {<<n, k>>}
  OBVIOUS
<1>15. \A p \in Nat, q \in Nat : Linked(code', h, p, q) <=> Linked(code, g, p, q) \/ <<p, q>> \in E
  <2>1. \A p \in Nat, q \in Nat : Linked(code', h, p, q) <=>
          \/ Linked(c, i, p, q)
          \/ p \in Out(c, i, b) /\ q = n
          \/ p = n /\ (Begins(c, a, q) \/ Begins(c, t, q))
    BY <1>11, <1>12 DEF Tested
  <2>2. \A q : (Begins(c, a, q) <=> q = k) /\ ~Begins(c, t, q)
    BY <1>4, <1>7, <1>9 DEF Blank
  <2> QED
    BY <1>8, <1>13, <1>e, <2>1, <2>2
<1>16. \A p \in Nat, q \in Nat : Linked(code', h, p, q) \/ Awaited(h, p, q)' <=>
         Linked(code, g, p, q) \/ <<p, q>> \in E \/ Waits(Top, Flow!Top, g, p, q) \/ Awaited(h, p, q)'
  <2>1. \A p, q : ~Waits(Top, Flow!Top, g, p, q)
    BY <1>1 DEF Waits
  <2> QED
    BY <1>15, <2>1
<1>t. PICK U : U = {a, b, t}
  OBVIOUS
<1>17. /\ U \cap Pending \subseteq PendingOf(Top) /\ h \in Gains /\ Laid(code', h, points', blocks')
       /\ \A u \in Places : u \notin U => h[u] = g[u]
  BY <1>1, <1>2, <1>5, <1>12, <1>14, <1>t
<1>18. live' = h[Top.next] /\ code'[Top.next] = code[Top.next]
  BY <1>1, <1>3, <1>14
<1>19. /\ frames # <<>> /\ Top.kind # "label" /\ cur' = Top.next /\ jumped' = FALSE /\ follow' = follow \cup E
       /\ frames' = Pop /\ Flow!CloseLoop("do")
  BY <1>1, <1>e
<1>20. Below /\ Len(frames') = Len(frames) - 1 /\ LoopInv'
  BY <1>19, BelowLoop
<1> QED
  BY <1>14, <1>16, <1>17, <1>18, <1>19, <1>20, FlowCloses

LEMMA FlowEnd ==
  ASSUME IInv, LoopInv, NEW g, Holds(g), End
  PROVE  LoopInv' /\ \E h : Holds(h)'
<1>1. /\ ~ended /\ open = <<>> /\ frames = <<>> /\ ended' /\ follow' = follow \cup (live \X {0})
      /\ code' = BranchIfOpen(code, cur, 0)
      /\ UNCHANGED <<points, live, open, jumped, blocks, cur, brk, cont, frames>>
  BY DEF End, Flow!End, builder
<1>2. 0 \in Places /\ 0 \in 0 .. blocks /\ 0 \notin Blocks /\ 0 \notin Pending
  BY Now DEF Places
<1>3. PICK h : Ending(g, 0, code', h)
  BY <1>1, <1>2, FlowEnding
<1>4. Kept(g) /\ Told(g)
  BY DEF Holds
<1>5. Kept(h)' /\ \A p, q : Awaited(h, p, q)' <=> Awaited(g, p, q)
  <2>1. PICK T : T = {0}
    OBVIOUS
  <2>2. /\ T \cap Pending = {} /\ \A u \in Places : u \notin T => h[u] = g[u]
        /\ \A u, q : Begins(code, u, q) => Begins(code', u, q)
    BY <1>2, <1>3, <2>1 DEF Ending
  <2> QED
    BY <1>1, <1>4, <2>2, KeptKeep
<1>6. Told(h)'
  <2>1. PICK E : E = live \X {0}
    OBVIOUS
  <2>2. \A p \in Nat, q \in Nat : Linked(code', h, p, q) <=> Linked(code, g, p, q) \/ <<p, q>> \in E
    BY <1>3, <2>1, CallerBegins DEF Ending
  <2>3. \A p \in Nat, q \in Nat : Linked(code', h, p, q) \/ Awaited(h, p, q)' <=>
          Linked(code, g, p, q) \/ Awaited(g, p, q) \/ <<p, q>> \in E
    BY <1>5, <2>2
  <2>4. follow' = follow \cup E
    BY <1>1, <2>1
  <2> QED
    BY <1>4, <2>3, <2>4, ToldNext
<1>7. Here(h)'
  BY <1>1 DEF Here
<1>8. h \in Gains /\ Laid(code', h, points', blocks')
  BY <1>1, <1>3 DEF Ending
<1>9. LoopInv'
  <2>1. Len(open') = Len(open) /\ \A i \in 1 .. Len(open) : open'[i].kind = open[i].kind /\ open'[i].inner = open[i].inner
    BY <1>1
  <2> QED
    BY <1>1, <2>1, LoopKeep
<1> QED
  BY <1>5, <1>6, <1>7, <1>8, <1>9, HoldsNext

LEMMA FlowStep == IInv /\ FlowInv /\ [Next]_vars => FlowInv'
<1> SUFFICES ASSUME IInv, FlowInv, [Next]_vars, odd' = {}
             PROVE  LoopInv' /\ \E h : Holds(h)'
  BY DEF FlowInv
<1>1. odd = {}
  BY OddStays
<1>2. PICK g : LoopInv /\ Holds(g)
  BY <1>1 DEF FlowInv
<1>3. CASE If
  BY <1>2, <1>3, FlowCloseIf, FlowElse, FlowOpenIf, FlowElif DEF If
<1>4. CASE Open
  BY <1>2, <1>4, FlowOpenFor, FlowOpenLoop, FlowOpenWhile, FlowOpenDo DEF Open
<1>5. CASE Close
  BY <1>2, <1>5, FlowCloseFor, FlowCloseLoop, FlowCloseWhile, FlowCloseDo DEF Close
<1>6. CASE Goto
  BY <1>6, PhiGoto
<1>7. CASE Plain \/ Return \/ Break \/ Continue \/ End
  BY <1>2, <1>7, FlowPlain, FlowReturn, FlowBreak, FlowContinue, FlowEnd
<1>8. CASE Stopped \/ UNCHANGED vars
  <2>1. UNCHANGED <<points, follow, live, open, jumped, ended, code, blocks, cur, brk, cont, frames>>
    BY <1>8 DEF Stopped, vars, program, ir, builder
  <2> QED
    BY <1>2, <2>1, FlowNothing
<1> QED
  BY <1>3, <1>4, <1>5, <1>6, <1>7, <1>8 DEF Next

LEMMA FlowInit == Init => FlowInv
<1> SUFFICES ASSUME Init PROVE LoopInv /\ \E h : Holds(h)
  BY DEF FlowInv
<1> PICK g : g = [t \in Places |-> {}]
  OBVIOUS
<1>1. /\ points = 1 /\ follow = {} /\ live = {1} /\ open = <<>> /\ jumped = FALSE
      /\ blocks = 1 /\ cur = 1 /\ frames = <<>>
      /\ code = [b \in Blocks |-> IF b = 1 THEN Entry ELSE Empty]
  BY DEF Init, Flow!Init
<1>2. 1 \in Blocks
  BY FlowAssumption DEF Blocks
<1>3. /\ \A b \in Blocks : ~Done(code, b) /\ (Quiet(code, b) <=> b # 1)
      /\ code[1].points = <<1>> /\ \A b \in Blocks : b # 1 => code[b].points = <<>>
  BY <1>1, <1>2 DEF Entry, Empty, Done, Quiet
<1>4. Final(<<1>>) = 1 /\ \A p, q : ~Succeed(<<1>>, p, q) /\ ~Succeed(<<>>, p, q)
  BY DEF Final, Succeed
<1>5. \A b \in Blocks : \A t : ~Goes(code, b, t)
  BY <1>3 DEF Goes
<1>6. g \in Gains /\ \A t \in Places : g[t] = {}
  BY DEF Gains
<1>7. Laid(code, g, points, blocks)
  <2>1. Carried(code, g)
    BY <1>5, <1>6 DEF Carried
  <2>2. Idle(code) = {}
    BY <1>3 DEF Idle
  <2>3. Grounded(code)
    BY <2>2 DEF Grounded
  <2>4. OnePlace(code, points)
    <3>1. 1 \in 1 .. points
      BY <1>1
    <3> QED
      BY <1>3, <1>4, <3>1 DEF OnePlace
  <2> QED
    BY <1>5, <1>6, <2>1, <2>3, <2>4 DEF Laid, Sound
<1>8. Told(g)
  <2>1. \A p, q : ~Linked(code, g, p, q)
    BY <1>3, <1>4, <1>6 DEF Linked
  <2>2. \A p, q : ~Awaited(g, p, q)
    BY <1>1 DEF Awaited
  <2> QED
    BY <1>1, <2>1, <2>2 DEF Told
<1>9. Here(g)
  <2>1. ~Terminated(cur)
    BY <1>1, <1>2, <1>3 DEF Terminated, Done
  <2>2. Out(code, g, cur) = {1}
    BY <1>1, <1>2, <1>3, <1>4 DEF Out
  <2> QED
    BY <1>1, <2>1, <2>2 DEF Here
<1>10. Kept(g) /\ LoopInv
  BY <1>1 DEF Kept, LoopInv
<1> QED
  BY <1>6, <1>7, <1>8, <1>9, <1>10 DEF Holds

------------------------------------------------------------------------------
(***************************************************************************)
(* In a finished function the blocks without a point lead to one, so the   *)
(* equation of FirstPoints has a solution, and what is reached first after *)
(* the last point of a block is what the relation says.                    *)
(***************************************************************************)
Reached(f) ==
  [b \in 0 .. blocks |->
     IF b = 0 THEN {0}
     ELSE IF code[b].points # <<>> THEN {code[b].points[1]}
     ELSE UNION {f[t] : t \in code[b].ends[1]}]

LEMMA FirstEquation ==
  ASSUME NEW f, f = Reached(f)
  PROVE  FirstPoints = Reached(FirstPoints)
<1>1. \E h : h = Reached(h)
  OBVIOUS
<1>2. FirstPoints = CHOOSE h : h = Reached(h)
  BY Zenon DEF FirstPoints, Reached
<1> HIDE DEF Reached
<1> QED
  BY <1>1, <1>2, Zenon

\* Every block is done and goes to blocks of the function.
Linear ==
  /\ blocks \in Nat
  /\ \A b \in 1 .. blocks :
       /\ code[b].points # <<>> => code[b].points[1] \in Nat
       /\ code[b].ends[1] \subseteq 0 .. blocks

\* The least solution: what every set of points closed under the equation holds.
LEMMA ReachedSolved == ASSUME Linear PROVE \E f : f = Reached(f)
<1> DEFINE N == 0 .. blocks
           Sets == [N -> SUBSET Nat]
<1>1. ASSUME NEW h \in Sets
      PROVE  Reached(h) \in Sets
  <2>1. \A b \in N : b # 0 => b \in 1 .. blocks
    BY DEF Linear
  <2>2. ASSUME NEW b \in N
        PROVE  (IF b = 0 THEN {0}
                ELSE IF code[b].points # <<>> THEN {code[b].points[1]}
                ELSE UNION {h[t] : t \in code[b].ends[1]}) \in SUBSET Nat
    <3>1. b # 0 => code[b].ends[1] \subseteq N /\ (code[b].points # <<>> => code[b].points[1] \in Nat)
      BY <2>1 DEF Linear
    <3>2. b # 0 => \A t \in code[b].ends[1] : h[t] \in SUBSET Nat
      BY <3>1
    <3> QED
      BY <3>1, <3>2
  <2> QED
    BY <2>2 DEF Reached
<1>2. ASSUME NEW h \in Sets, NEW k \in Sets, \A t \in N : h[t] \subseteq k[t], NEW b \in N
      PROVE  Reached(h)[b] \subseteq Reached(k)[b]
  <2>1. b # 0 => b \in 1 .. blocks
    BY DEF Linear
  <2>2. b # 0 => \A t \in code[b].ends[1] : h[t] \subseteq k[t]
    BY <1>2, <2>1 DEF Linear
  <2>3. b # 0 => UNION {h[t] : t \in code[b].ends[1]} \subseteq UNION {k[t] : t \in code[b].ends[1]}
    BY <2>2
  <2> QED
    BY <2>3 DEF Reached
<1> DEFINE Pre == {h \in Sets : \A b \in N : Reached(h)[b] \subseteq h[b]}
<1> PICK f : f = [b \in N |-> {q \in Nat : \A h \in Pre : q \in h[b]}]
  OBVIOUS
<1>3. f \in Sets /\ \A h \in Pre : \A b \in N : f[b] \subseteq h[b]
  OBVIOUS
<1>4. \A b \in N : \A q \in Nat : (\A h \in Pre : q \in h[b]) => q \in f[b]
  OBVIOUS
<1>5. \A h \in Sets : h \in Pre <=> \A b \in N : Reached(h)[b] \subseteq h[b]
  OBVIOUS
<1>6. \A h \in Pre : h \in Sets
  OBVIOUS
<1> HIDE DEF Pre
<1>7. \A b \in N : Reached(f)[b] \subseteq f[b]
  <2> SUFFICES ASSUME NEW b \in N, NEW q \in Reached(f)[b] PROVE q \in f[b]
    OBVIOUS
  <2>1. q \in Nat
    BY <1>1, <1>3
  <2>2. ASSUME NEW h \in Pre PROVE q \in h[b]
    <3>1. Reached(f)[b] \subseteq Reached(h)[b]
      BY <1>2, <1>3, <1>6
    <3> QED
      BY <1>5, <1>6, <3>1
  <2> QED
    BY <1>4, <2>1, <2>2
<1> PICK k : k = Reached(f)
  OBVIOUS
<1>8. k \in Sets
  BY <1>1, <1>3
<1>9. k \in Pre
  <2>1. \A b \in N : Reached(k)[b] \subseteq Reached(f)[b]
    BY <1>2, <1>3, <1>7, <1>8
  <2> QED
    BY <1>5, <1>8, <2>1
<1>10. \A b \in N : f[b] = k[b]
  BY <1>3, <1>7, <1>9
<1>11. f = k
  BY <1>3, <1>8, <1>10
<1> QED
  BY <1>11

LEMMA AllEnded ==
  ASSUME IInv, NEW g, Holds(g), ended, odd = {}
  PROVE  /\ Linear /\ frames = <<>>
         /\ \A b \in 1 .. blocks : b \in Blocks /\ b \in Places /\ Done(code, b) /\ code[b].points \in Seq(Nat)
         /\ \A b \in Blocks : ~Quiet(code, b) \/ Done(code, b) => b \in 1 .. blocks
         /\ 0 .. blocks \subseteq Places
<1>1. /\ code \in [Blocks -> Contents] /\ blocks \in Nat /\ blocks <= MaxBlocks /\ MaxBlocks \in Nat
      /\ Laid(code, g, points, blocks)
      /\ \A b \in Blocks : b > blocks => Quiet(code, b) /\ ~Done(code, b)
  BY Now DEF Blank
<1>2. frames = <<>> /\ Terminated(cur) /\ BlocksEnded
  BY DEF IInv, EndInv, OwnerInv
<1>3. Pending = {}
  BY <1>2 DEF Pending, PendingIn
<1>4. ASSUME NEW b \in 1 .. blocks
      PROVE  b \in Blocks /\ b \in Places /\ Done(code, b) /\ code[b].points \in Seq(Nat)
  <2>1. b \in Blocks /\ b \in Places
    BY <1>1 DEF Blocks, Places
  <2>2. Terminated(b)
    BY <1>2, <1>3 DEF BlocksEnded
  <2>3. code[b] \in Contents
    BY <1>1, <2>1
  <2> QED
    BY <2>1, <2>2, <2>3 DEF Terminated, Done, Contents
<1>5. Linear
  <2>1. ASSUME NEW b \in 1 .. blocks
        PROVE  /\ code[b].points # <<>> => code[b].points[1] \in Nat
               /\ code[b].ends[1] \subseteq 0 .. blocks
    <3>1. \A t \in code[b].ends[1] : Goes(code, b, t)
      BY <1>4 DEF Goes
    <3>2. code[b].ends[1] \subseteq 0 .. blocks
      BY <1>1, <1>4, <3>1 DEF Laid
    <3>3. code[b].points \in Seq(Nat)
      BY <1>4
    <3>4. code[b].points # <<>> => 1 \in 1 .. Len(code[b].points)
      BY <3>3, EmptySeq
    <3> QED
      BY <3>2, <3>3, <3>4
  <2> QED
    BY <1>1, <2>1 DEF Linear
<1>6. \A b \in Blocks : ~Quiet(code, b) \/ Done(code, b) => b \in 1 .. blocks
  BY <1>1 DEF Blocks
<1>7. 0 .. blocks \subseteq Places
  BY <1>1 DEF Places
<1> QED
  BY <1>2, <1>4, <1>5, <1>6, <1>7

\* What the equation says of one block.
Solves(f) ==
  /\ \A q : q \in f[0] <=> q = 0
  /\ \A t \in 1 .. blocks : ~Quiet(code, t) => \A q : q \in f[t] <=> Begins(code, t, q)
  /\ \A t \in 1 .. blocks : Quiet(code, t) => \A q : q \in f[t] <=> \E e \in code[t].ends[1] : q \in f[e]

LEMMA SolvesEquation ==
  ASSUME blocks \in Nat, \A b \in 1 .. blocks : b \in Blocks, 0 \notin Blocks, NEW f, f = Reached(f)
  PROVE  Solves(f)
<1>1. \A t \in 0 .. blocks : f[t] =
        IF t = 0 THEN {0}
        ELSE IF code[t].points # <<>> THEN {code[t].points[1]}
        ELSE UNION {f[e] : e \in code[t].ends[1]}
  BY DEF Reached
<1>2. \A t \in 1 .. blocks : t \in 0 .. blocks /\ t # 0
  OBVIOUS
<1>3. f[0] = {0}
  <2>1. 0 \in 0 .. blocks
    OBVIOUS
  <2> QED
    BY <1>1, <2>1, Zenon
<1>4. \A t \in 1 .. blocks : ~Quiet(code, t) => f[t] = {code[t].points[1]}
  BY <1>1, <1>2 DEF Quiet
<1>5. \A t \in 1 .. blocks : Quiet(code, t) => f[t] = UNION {f[e] : e \in code[t].ends[1]}
  BY <1>1, <1>2 DEF Quiet
<1>6. \A t \in 1 .. blocks : ~Quiet(code, t) => \A q : q \in f[t] <=> Begins(code, t, q)
  BY <1>2, <1>4 DEF Begins
<1>7. \A t \in 1 .. blocks : Quiet(code, t) => \A q : q \in f[t] <=> \E e \in code[t].ends[1] : q \in f[e]
  BY <1>5
<1> QED
  BY <1>3, <1>6, <1>7 DEF Solves

\* The points reached first after the last point p of a block.
LEMMA Onward ==
  ASSUME IInv, NEW g, Holds(g), ended, odd = {}, NEW f, Solves(f),
         NEW b \in 1 .. blocks, ~Quiet(code, b), NEW p, p = Final(code[b].points), NEW q
  PROVE  (\E t \in code[b].ends[1] : q \in f[t]) <=> \E t \in Places : p \in g[t] /\ Begins(code, t, q)
<1> DEFINE S == {t \in Idle(code) : p \in g[t] /\ q \in f[t]}
<1>1. /\ Linear /\ \A e \in 1 .. blocks : e \in Blocks /\ Done(code, e)
      /\ \A e \in Blocks : ~Quiet(code, e) \/ Done(code, e) => e \in 1 .. blocks
      /\ 0 .. blocks \subseteq Places
  BY AllEnded
<1>2. blocks \in Nat /\ 0 \notin Blocks /\ Laid(code, g, points, blocks) /\ g \in Gains
  BY Now
<1>3. Carried(code, g) /\ Grounded(code) /\ OnePlace(code, points)
  BY <1>2 DEF Laid, Sound
<1>4. p \in Nat
  <2>1. p \in 1 .. points
    BY <1>1, <1>3 DEF OnePlace
  <2> QED
    BY <2>1
<1>5. \A e \in 1 .. blocks : \A t : Goes(code, e, t) <=> t \in code[e].ends[1]
  BY <1>1 DEF Goes
<1>6. \A e \in 1 .. blocks : \A t \in code[e].ends[1] : t \in 0 .. blocks /\ (t # 0 => t \in 1 .. blocks)
  BY <1>1, <1>2 DEF Linear
<1>7. S \in SUBSET Idle(code)
  OBVIOUS
<1>8. \A t : t \in S <=> t \in Idle(code) /\ p \in g[t] /\ q \in f[t]
  OBVIOUS
<1> HIDE DEF S
<1>9. \A t \in Idle(code) : t \in 1 .. blocks /\ Quiet(code, t)
  BY <1>1 DEF Idle
<1>10. \A t \in 1 .. blocks : Quiet(code, t) => t \in Idle(code)
  BY <1>1 DEF Idle
<1>11. ASSUME \E t \in code[b].ends[1] : q \in f[t]
       PROVE  \E t \in Places : p \in g[t] /\ Begins(code, t, q)
  <2> SUFFICES ASSUME \A t \in Places : p \in g[t] => ~Begins(code, t, q) PROVE FALSE
    OBVIOUS
  \* A block that p gets to and that leads to q is idle.
  <2>1. ASSUME NEW t \in 0 .. blocks, p \in g[t], q \in f[t]
        PROVE  t \in S
    <3>1. t # 0
      BY <1>1, <2>1 DEF Solves, Begins
    <3>2. t \in 1 .. blocks
      BY <3>1
    <3>3. Quiet(code, t)
      BY <1>1, <2>1, <3>2 DEF Solves
    <3> QED
      BY <1>8, <1>10, <2>1, <3>2, <3>3
  <2>2. S # {}
    <3>1. PICK t \in code[b].ends[1] : q \in f[t]
      BY <1>11
    <3>2. Goes(code, b, t) /\ t \in Places /\ t \in 0 .. blocks /\ b \in Blocks
      BY <1>1, <1>5, <1>6
    <3>3. p \in Out(code, g, b)
      BY DEF Out
    <3>4. p \in g[t]
      BY <1>3, <1>4, <3>2, <3>3 DEF Carried
    <3> QED
      BY <2>1, <3>1, <3>2, <3>4
  <2>3. PICK t \in S : \A e \in S : ~Goes(code, t, e)
    BY <1>3, <1>7, <2>2 DEF Grounded
  <2>4. t \in 1 .. blocks /\ Quiet(code, t) /\ p \in g[t] /\ q \in f[t]
    BY <1>8, <1>9
  <2>5. PICK e \in code[t].ends[1] : q \in f[e]
    BY <2>4 DEF Solves
  <2>6. Goes(code, t, e) /\ e \in 0 .. blocks /\ e \in Places /\ t \in Blocks
    BY <1>1, <1>5, <1>6, <2>4
  <2>7. p \in Out(code, g, t)
    BY <2>4 DEF Out
  <2>8. p \in g[e]
    BY <1>3, <1>4, <2>6, <2>7 DEF Carried
  <2> QED
    BY <2>1, <2>3, <2>5, <2>6, <2>8
<1>12. ASSUME NEW t \in Places, p \in g[t], Begins(code, t, q)
       PROVE  \E u \in code[b].ends[1] : q \in f[u]
  <2> SUFFICES ASSUME \A u \in code[b].ends[1] : q \notin f[u] PROVE FALSE
    OBVIOUS
  \* A block that goes to one that p gets to and that leads to q is idle.
  <2>1. ASSUME NEW u \in Places, p \in g[u], q \in f[u]
        PROVE  \E e \in S : Goes(code, e, u)
    <3>1. PICK e \in Blocks : Goes(code, e, u) /\ p \in Out(code, g, e)
      BY <1>3, <1>4, <2>1 DEF Carried
    <3>2. e \in 1 .. blocks /\ Done(code, e)
      BY <1>1, <3>1 DEF Goes
    <3>3. u \in code[e].ends[1]
      BY <1>5, <3>1, <3>2
    <3>4. Quiet(code, e)
      <4> SUFFICES ASSUME ~Quiet(code, e) PROVE FALSE
        OBVIOUS
      <4>1. p = Final(code[e].points)
        BY <3>1 DEF Out
      <4>2. e = b
        BY <1>1, <1>3, <4>1 DEF OnePlace
      <4> QED
        BY <2>1, <3>3, <4>2
    <3>5. p \in g[e] /\ q \in f[e]
      BY <2>1, <3>1, <3>2, <3>3, <3>4 DEF Out, Solves
    <3> QED
      BY <1>8, <1>10, <3>1, <3>2, <3>4, <3>5
  <2>2. q \in f[t]
    <3>1. CASE t = 0
      BY <1>2, <1>12, <3>1 DEF Solves, Begins
    <3>2. CASE t # 0
      <4>1. t \in Blocks /\ ~Quiet(code, t)
        BY <1>12, <3>2 DEF Begins
      <4>2. t \in 1 .. blocks
        BY <1>1, <4>1
      <4> QED
        BY <1>12, <4>1, <4>2 DEF Solves
    <3> QED
      BY <3>1, <3>2
  <2>3. S # {}
    BY <1>12, <2>1, <2>2
  <2>4. PICK u \in S : \A e \in S : ~Goes(code, e, u)
    BY <1>3, <1>7, <2>3 DEF Grounded
  <2>5. u \in Places /\ p \in g[u] /\ q \in f[u]
    BY <1>1, <1>8, <1>9
  <2> QED
    BY <2>1, <2>4, <2>5
<1> QED
  BY <1>11, <1>12

\* The links of one block.
Links(b) ==
  LET p == code[b].points
      n == Len(p)
  IN  {<<p[i], p[i + 1]>> : i \in 1 .. n - 1}
        \cup (IF n = 0 THEN {} ELSE {p[n]} \X UNION {FirstPoints[t] : t \in code[b].ends[1]})

LEMMA LinksOf ==
  ASSUME NEW b, code[b].points \in Seq(Nat), NEW z
  PROVE  z \in Links(b) <=>
           \E p, q : /\ z = <<p, q>>
                     /\ \/ Succeed(code[b].points, p, q)
                        \/ /\ ~Quiet(code, b) /\ p = Final(code[b].points)
                           /\ \E t \in code[b].ends[1] : q \in FirstPoints[t]
<1> PICK s : s = code[b].points
  OBVIOUS
<1> PICK A : A = UNION {FirstPoints[t] : t \in code[b].ends[1]}
  OBVIOUS
<1>1. \A q : q \in A <=> \E t \in code[b].ends[1] : q \in FirstPoints[t]
  OBVIOUS
<1>2. s \in Seq(Nat) /\ (Len(s) = 0 <=> s = <<>>)
  BY EmptySeq
<1>3. Links(b) = {<<s[i], s[i + 1]>> : i \in 1 .. Len(s) - 1} \cup (IF Len(s) = 0 THEN {} ELSE {s[Len(s)]} \X A)
  BY Zenon DEF Links
<1>4. z \in {<<s[i], s[i + 1]>> : i \in 1 .. Len(s) - 1} <=> \E p, q : z = <<p, q>> /\ Succeed(s, p, q)
  BY DEF Succeed
<1>5. z \in (IF Len(s) = 0 THEN {} ELSE {s[Len(s)]} \X A) <=>
        \E p, q : z = <<p, q>> /\ s # <<>> /\ p = Final(s) /\ q \in A
  BY <1>2 DEF Final
<1> HIDE DEF Links
<1>6. z \in Links(b) <=> \E p, q : z = <<p, q>> /\ (Succeed(s, p, q) \/ (s # <<>> /\ p = Final(s) /\ q \in A))
  BY <1>3, <1>4, <1>5
<1> QED
  BY <1>1, <1>6 DEF Quiet

LEMMA LinkedFollow ==
  ASSUME IInv, NEW g, Holds(g), ended, odd = {}
  PROVE  BlockFlow = follow
<1>1. /\ Linear /\ frames = <<>>
      /\ \A b \in 1 .. blocks : b \in Blocks /\ Done(code, b) /\ code[b].points \in Seq(Nat)
      /\ \A b \in Blocks : ~Quiet(code, b) \/ Done(code, b) => b \in 1 .. blocks
  BY AllEnded
<1>2. /\ Told(g) /\ Laid(code, g, points, blocks) /\ code \in [Blocks -> Contents] /\ g \in Gains
      /\ blocks \in Nat /\ 0 \notin Blocks
  BY Now
<1>3. Solves(FirstPoints)
  <2>1. PICK f : f = Reached(f)
    BY <1>1, ReachedSolved
  <2>2. FirstPoints = Reached(FirstPoints)
    BY <2>1, FirstEquation
  <2> QED
    BY <1>1, <1>2, <2>2, SolvesEquation
<1>4. \A p \in Nat, q \in Nat : <<p, q>> \in follow <=> Linked(code, g, p, q)
  <2>1. \A p, q : ~Awaited(g, p, q)
    BY <1>1 DEF Awaited
  <2> QED
    BY <1>2, <2>1 DEF Told
<1>5. follow \subseteq Nat \X Nat
  BY FlowTypeSplit DEF IInv, TypeOK, Walk
<1>6. BlockFlow = UNION {Links(b) : b \in 1 .. blocks}
  BY Zenon DEF BlockFlow, Links
<1>7. ASSUME NEW p, NEW q
      PROVE  <<p, q>> \in BlockFlow <=>
               \E b \in 1 .. blocks :
                 \/ Succeed(code[b].points, p, q)
                 \/ ~Quiet(code, b) /\ p = Final(code[b].points) /\ \E t \in code[b].ends[1] : q \in FirstPoints[t]
  <2>1. <<p, q>> \in BlockFlow <=> \E b \in 1 .. blocks : <<p, q>> \in Links(b)
    BY <1>6
  <2>2. ASSUME NEW b \in 1 .. blocks
        PROVE  <<p, q>> \in Links(b) <=>
                 \/ Succeed(code[b].points, p, q)
                 \/ ~Quiet(code, b) /\ p = Final(code[b].points) /\ \E t \in code[b].ends[1] : q \in FirstPoints[t]
    BY <1>1, LinksOf
  <2> QED
    BY <2>1, <2>2
<1>8. \A b \in 1 .. blocks : ~Quiet(code, b) => \A q :
        (\E t \in code[b].ends[1] : q \in FirstPoints[t]) <=>
          \E t \in Places : Final(code[b].points) \in g[t] /\ Begins(code, t, q)
  BY <1>3, Onward
<1>9. ASSUME NEW p, NEW q
      PROVE  <<p, q>> \in BlockFlow <=>
               \/ \E b \in 1 .. blocks : Succeed(code[b].points, p, q)
               \/ \E b \in 1 .. blocks : /\ ~Quiet(code, b) /\ p = Final(code[b].points)
                                         /\ \E t \in Places : p \in g[t] /\ Begins(code, t, q)
  BY <1>7, <1>8
<1>10. ASSUME NEW p, NEW q
       PROVE  <<p, q>> \in BlockFlow <=> Linked(code, g, p, q)
  <2>1. (\E b \in 1 .. blocks : Succeed(code[b].points, p, q)) <=> \E b \in Blocks : Succeed(code[b].points, p, q)
    <3>1. \A r, s : ~Succeed(<<>>, r, s)
      BY DEF Succeed
    <3>2. \A b \in Blocks : Succeed(code[b].points, p, q) => b \in 1 .. blocks
      BY <1>1, <3>1 DEF Quiet
    <3> QED
      BY <1>1, <3>2
  <2>2. \A t \in Places : p \in g[t] => \E b \in 1 .. blocks : ~Quiet(code, b) /\ p = Final(code[b].points)
    BY <1>1, <1>2 DEF Laid, Sound, Carried
  <2> QED
    BY <1>9, <2>1, <2>2 DEF Linked
<1>11. ASSUME NEW p, NEW q, Linked(code, g, p, q)
       PROVE  p \in Nat /\ q \in Nat
  <2>1. \A b \in Blocks : code[b].points \in Seq(Nat)
    BY <1>2 DEF Contents
  <2>2. CASE \E b \in Blocks : Succeed(code[b].points, p, q)
    <3>1. PICK b \in Blocks : Succeed(code[b].points, p, q)
      BY <2>2
    <3>2. PICK s \in Seq(Nat) : s = code[b].points
      BY <2>1
    <3>3. PICK i \in 1 .. Len(s) - 1 : p = s[i] /\ q = s[i + 1]
      BY <3>1, <3>2 DEF Succeed
    <3>4. i \in 1 .. Len(s) /\ i + 1 \in 1 .. Len(s)
      OBVIOUS
    <3> QED
      BY <3>3, <3>4
  <2>3. CASE \E t \in Places : p \in g[t] /\ Begins(code, t, q)
    <3>1. PICK t \in Places : p \in g[t] /\ Begins(code, t, q)
      BY <2>3
    <3>2. p \in Nat
      BY <1>2, <3>1 DEF Gains
    <3>3. q \in Nat
      <4>1. CASE q = 0
        BY <4>1
      <4>2. CASE t \in Blocks /\ ~Quiet(code, t) /\ q = code[t].points[1]
        <5>1. PICK s \in Seq(Nat) : s = code[t].points
          BY <2>1, <4>2
        <5>2. 1 \in 1 .. Len(s)
          BY <4>2, <5>1, EmptySeq DEF Quiet
        <5> QED
          BY <4>2, <5>1, <5>2
      <4> QED
        BY <3>1, <4>1, <4>2 DEF Begins
    <3> QED
      BY <3>2, <3>3
  <2> QED
    BY <1>11, <2>2, <2>3 DEF Linked
<1>12. \A p, q : <<p, q>> \in BlockFlow <=> <<p, q>> \in follow
  <2>1. \A p, q : <<p, q>> \in follow => p \in Nat /\ q \in Nat
    BY <1>5
  <2> QED
    BY <1>4, <1>10, <1>11, <2>1
<1>13. \A z \in BlockFlow : \E p, q : z = <<p, q>>
  <2> SUFFICES ASSUME NEW z \in BlockFlow PROVE \E p, q : z = <<p, q>>
    OBVIOUS
  <2>1. PICK b \in 1 .. blocks : z \in Links(b)
    BY <1>6
  <2>2. code[b].points \in Seq(Nat)
    BY <1>1
  <2> QED
    BY <2>1, <2>2, LinksOf
<1>14. \A z \in follow : \E p, q : z = <<p, q>>
  BY <1>5
<1> QED
  BY <1>12, <1>13, <1>14

(* The blocks do what the statements say: in a finished function of any     *)
(* size that does none of the odd things, a point can follow another in the *)
(* blocks the generator has branched together exactly if it can in the      *)
(* program (the codegen_Statement functions).                               *)
THEOREM BlocksAreFaithful == Spec => []Faithful
<1>1. IInv /\ FlowInv => Faithful
  BY LinkedFollow DEF FlowInv, Faithful, Finished
<1> QED
  BY <1>1, Invariant, FlowInit, FlowStep, PTL DEF Spec

=============================================================================
