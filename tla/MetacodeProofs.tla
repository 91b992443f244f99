---------------------------- MODULE MetacodeProofs ----------------------------
(***************************************************************************)
(* The safety properties of Metacode, for every set of files.              *)
(*                                                                         *)
(* The frames are the running functions, the metacode of each one above    *)
(* those below it, and current_parent is never below the innermost one     *)
(* (StackInv, ParentInv).  So a list below the root is used whenever an    *)
(* expansion runs (ExpandInv), and a condition leaks only upwards.  The    *)
(* lists hold what lies behind the cursor (ListInv); the records of the    *)
(* branches tell which are still open (ClosedInv).                         *)
(***************************************************************************)
EXTENDS Metacode, TLAPS, WellFoundedInduction, NaturalsInduction

FileInv == file \in Files

\* The frames from j to i are one condition: an # if and the branches after it.
Chain(j, i) == frames[j].kind = "if" /\ \A k \in j + 1 .. i : frames[k].kind \in {"elif", "else"}

StackInv ==
  /\ \A i \in 1 .. Depth : frames[i].meta > 1 /\ frames[i].old < frames[i].meta
  /\ \A i, j \in 1 .. Depth : i < j => frames[i].meta <= frames[j].old
  /\ \A i \in 1 .. Depth :
       metas[frames[i].old].kind \in Blocks => \E j \in 1 .. i - 1 : frames[j].meta = frames[i].old
  /\ \A i \in 1 .. Depth :
       frames[i].kind \in {"elif", "else"} => i > 1 /\ frames[i - 1].kind \in {"if", "elif"}
  /\ \A i \in 1 .. Depth : frames[i].kind \in Branches => \E j \in 1 .. i : Chain(j, i)

ParentInv ==
  /\ \A i \in 1 .. Depth : frames[i].meta <= parent
  /\ metas[parent].kind \in Blocks => \E i \in 1 .. Depth : frames[i].meta = parent

\* current_expand is the innermost expansion that runs.
ExpandInv ==
  /\ expand # 0 =>
       \E i \in 1 .. Depth : /\ frames[i].kind = "each" /\ frames[i].meta = expand
                             /\ \A k \in i + 1 .. Depth : frames[k].kind # "each"
  /\ step = "header" => expand # 0

ListInv == \A m \in 1 .. Len(metas) : \A i \in Positions(m) : metas[m].list[i] < cur

Runs(m) == \E i \in 1 .. Depth : frames[i].meta = m

\* The branch m has handed over to its alternative, and to no other's.
Handover(m) ==
  /\ metas[m].next > m /\ ~metas[m].ended
  /\ metas[m].kind \in {"if", "elif"} /\ metas[metas[m].next].kind \in {"elif", "else"}
  /\ \A n \in 1 .. Len(metas) : metas[n].next = metas[m].next => n = m
  /\ \A i \in 1 .. Depth : frames[i].meta # m /\ frames[i].meta # metas[m].next

\* A metacode that runs is neither ended nor handed over; without an error, the
\* others are one of the two.
ClosedInv ==
  /\ \A m \in 1 .. Len(metas) : metas[m].next # 0 => Handover(m)
  /\ \A i \in 1 .. Depth : ~metas[frames[i].meta].ended
  /\ errors = {} => \A m \in 2 .. Len(metas) : metas[m].ended \/ metas[m].next # 0 \/ Runs(m)

DoneInv == status = "generated" => frames = <<>>

-----------------------------------------------------------------------------
\* A set of numbers has a least element, and below a bound a greatest one.
LEMMA LeastExists ==
  ASSUME NEW S \in SUBSET Nat, S # {}
  PROVE  \E x \in S : \A y \in S : x <= y
<1> DEFINE R == {ss \in Nat \X Nat : ss[1] < ss[2]}
<1>1. IsWellFoundedOn(R, Nat) BY NatLessThanWellFounded, Zenon DEF OpToRel
<1>2. PICK x \in S : \A y \in S : ~(<<y, x>> \in R) BY <1>1, WFMin, Zenon
<1>3. ASSUME NEW y \in S PROVE x <= y
  <2>1. ~(<<y, x>> \in R) BY <1>2
  <2>2. y < x => <<y, x>> \in R OBVIOUS
  <2> QED BY <2>1, <2>2
<1> QED BY <1>3

LEMMA GreatestExists ==
  ASSUME NEW b \in Nat, NEW S \in SUBSET (0 .. b), S # {}
  PROVE  \E x \in S : \A y \in S : y <= x
<1> DEFINE T == {b - x : x \in S}
<1>1. T \in SUBSET Nat /\ T # {} OBVIOUS
<1>2. PICK t \in T : \A u \in T : t <= u BY <1>1, LeastExists
<1>3. PICK x \in S : t = b - x OBVIOUS
<1>4. ASSUME NEW y \in S PROVE y <= x
  <2>1. b - y \in T OBVIOUS
  <2>2. b - x <= b - y BY <2>1, <1>2, <1>3
  <2> QED BY <2>2
<1> QED BY <1>4

\* The file, and what Check says of it.
LEMMA FileFacts ==
  ASSUME FileInv
  PROVE  /\ Last \in Nat \ {0} /\ file \in Seq(Symbols)
         /\ \A i \in 1 .. Last : file[i] \in Symbols /\ (file[i] = "eof" <=> i = Last)
BY FilesAssumption DEF FileInv, Last

LEMMA PastFacts ==
  ASSUME FileInv, NEW p \in Nat
  PROVE  /\ Past(p) \in Nat /\ Past(p) <= Last /\ Past(p) <= p
         /\ p <= Last => Past(p) = p
         /\ p > 0 => Past(p) \in 1 .. Last
BY FileFacts DEF Past

LEMMA CheckFacts ==
  ASSUME FileInv, cur \in 1 .. Last, NEW pattern \in Seq(Symbols \ {"eof"}), pattern # <<>>, Check(pattern)
  PROVE  /\ cur + Len(pattern) < Last
         /\ After(pattern) = cur + Len(pattern) + 1 /\ After(pattern) \in cur + 1 .. Last
         /\ file[cur] = "#"
         /\ \A i \in 1 .. Len(pattern) : file[cur + i] = pattern[i]
<1>1. Last \in Nat \ {0} /\ file[Last] = "eof" BY FileFacts
<1>2. Len(pattern) \in Nat \ {0} /\ pattern[Len(pattern)] # "eof" OBVIOUS
<1>3. \A i \in 1 .. Len(pattern) : Peek(cur + i) = pattern[i] BY DEF Check
<1>4. cur + Len(pattern) < Last
  <2>1. Peek(cur + Len(pattern)) # "eof" BY <1>2, <1>3
  <2> QED BY <1>1, <1>2, <2>1 DEF Peek, Past
<1>5. file[cur] = "#" BY <1>1 DEF Check, Tok, Peek, Past
<1>6. \A i \in 1 .. Len(pattern) : file[cur + i] = pattern[i] BY <1>1, <1>2, <1>3, <1>4 DEF Peek, Past
<1> QED BY <1>1, <1>2, <1>4, <1>5, <1>6 DEF After, Past

\* The words of an instruction are no code.
LEMMA InstructionSkipped ==
  ASSUME FileInv, cur \in 1 .. Last, NEW pattern \in Seq(Symbols \ {"eof"}), pattern # <<>>, Check(pattern),
         \A i \in 1 .. Len(pattern) : pattern[i] = "$" => i = Len(pattern),
         NEW p \in cur .. cur + Len(pattern)
  PROVE  ~Code(p)
<1>1. /\ cur \in Nat /\ Len(pattern) \in Nat /\ file[cur] = "#" /\ cur + Len(pattern) < Last
      /\ \A i \in 1 .. Len(pattern) : file[cur + i] = pattern[i]
  BY CheckFacts, FileFacts
<1>2. CASE p = cur BY <1>1, <1>2 DEF Code, Words
<1>3. CASE p # cur
  <2>1. PICK i \in 1 .. Len(pattern) : p = cur + i
    <3>1. p - cur \in 1 .. Len(pattern) /\ p = cur + (p - cur) BY <1>1, <1>3
    <3> QED BY <3>1
  <2>2. CASE pattern[i] = "$" BY <1>1, <2>1, <2>2 DEF Code, Words
  <2>3. CASE pattern[i] # "$"
    <3>1. ASSUME NEW k \in cur .. p PROVE file[k] # "$"
      <4>1. CASE k = cur BY <1>1, <4>1
      <4>2. CASE k # cur
        <5>1. k - cur \in 1 .. i /\ k = cur + (k - cur) BY <1>1, <2>1, <4>2
        <5>2. pattern[k - cur] # "$" BY <5>1, <2>3, <1>1
        <5> QED BY <5>1, <5>2, <1>1
      <4> QED BY <4>1, <4>2
    <3>2. cur \in 1 .. p BY <1>1, <2>1
    <3> QED BY <3>1, <3>2, <1>1 DEF Code, Inside
  <2> QED BY <2>2, <2>3
<1> QED BY <1>2, <1>3

LEMMA AfterEndFacts ==
  ASSUME FileInv, NEW p \in 1 .. Last, NEW ends \in SUBSET Ends(p)
  PROVE  AfterEnd(ends) \in p .. Last /\ \A q \in ends : AfterEnd(ends) <= q + 1
<1>1. Last \in Nat \ {0} /\ \A q \in 1 .. Last : file[q] = "$" => q < Last BY FileFacts
<1>2. CASE ends = {} BY <1>1, <1>2 DEF AfterEnd
<1>3. CASE ends # {}
  <2>1. ends \in SUBSET Nat BY <1>1 DEF Ends
  <2>2. \E q \in ends : \A r \in ends : q <= r BY <2>1, <1>3, LeastExists
  <2> DEFINE m == CHOOSE q \in ends : \A r \in ends : q <= r
  <2>3. m \in ends /\ \A r \in ends : m <= r BY <2>2
  <2>4. AfterEnd(ends) = 1 + m BY <1>3 DEF AfterEnd
  <2> HIDE DEF m
  <2>5. m \in p .. Last /\ file[m] = "$" BY <2>3 DEF Ends
  <2>6. m < Last BY <2>5, <1>1
  <2> QED BY <1>1, <2>1, <2>3, <2>4, <2>5, <2>6
<1> QED BY <1>2, <1>3

\* Nothing between the # at h and p ends an instruction: p is read inside one.
LEMMA InsideFrom ==
  ASSUME FileInv, NEW p \in 1 .. Last, NEW h \in 1 .. p, file[h] = "#", \A k \in h .. p : file[k] # "$"
  PROVE  ~Code(p)
BY DEF Code, Inside

\* The instructions of a metablock are no code.
LEMMA RowSkipped ==
  ASSUME FileInv, cur \in 1 .. Last, file[cur] = "#", NEW p \in cur .. AfterEnd(RowEnds(cur)) - 1
  PROVE  ~Code(p)
<1>1. Last \in Nat \ {0} /\ cur \in Nat BY FileFacts
<1>2. AfterEnd(RowEnds(cur)) \in cur .. Last /\ \A q \in RowEnds(cur) : AfterEnd(RowEnds(cur)) <= q + 1
  BY AfterEndFacts DEF RowEnds
<1>3. p \in cur .. Last /\ p \in 1 .. Last /\ p \in Nat BY <1>1, <1>2
<1> DEFINE D == {r \in cur .. p : file[r] = "$"}
<1>4. CASE D = {} BY <1>1, <1>3, <1>4, InsideFrom
<1>5. CASE D # {}
  <2>1. D \in SUBSET (0 .. p) BY <1>1, <1>3
  <2>2. PICK r \in D : \A s \in D : s <= r BY <2>1, <1>3, <1>5, GreatestExists
  <2>3. CASE r = p BY <2>2, <2>3 DEF Code, Words
  <2>4. CASE r # p
    <3>1. r \in Nat /\ r < p /\ r + 1 \in 1 .. p /\ r \in Ends(cur) BY <1>1, <1>3, <2>2, <2>4 DEF Ends
    <3>2. r \notin RowEnds(cur) BY <1>1, <1>2, <1>3, <3>1
    <3>3. file[r + 1] = "#" BY <3>1, <3>2, <1>3, <1>1 DEF RowEnds, Peek, Past
    <3>4. \A k \in r + 1 .. p : file[k] # "$" BY <2>2, <3>1, <1>1, <1>3
    <3> QED BY <3>1, <3>3, <3>4, <1>3, InsideFrom
  <2> QED BY <2>3, <2>4
<1> QED BY <1>4, <1>5

\* The variants of a placeholder are no code.
LEMMA VariantsSkipped ==
  ASSUME FileInv, cur \in 1 .. Last, file[cur] = "#", NEW b \in cur .. Last,
         \A k \in cur .. b - 1 : file[k] # "$", NEW p \in b .. AfterEnd(Ends(b)) - 1
  PROVE  ~Code(p)
<1>1. Last \in Nat \ {0} /\ cur \in Nat /\ b \in 1 .. Last /\ b \in Nat BY FileFacts
<1>2. AfterEnd(Ends(b)) \in b .. Last /\ \A q \in Ends(b) : AfterEnd(Ends(b)) <= q + 1 BY <1>1, AfterEndFacts
<1>3. p \in b .. Last /\ p \in 1 .. Last /\ p \in Nat /\ cur \in 1 .. p BY <1>1, <1>2
<1>4. CASE file[p] = "$" BY <1>4 DEF Code, Words
<1>5. CASE file[p] # "$"
  <2>1. ASSUME NEW k \in cur .. p PROVE file[k] # "$"
    <3>1. CASE k < b BY <1>1, <3>1
    <3>2. CASE k = p BY <1>5, <3>2
    <3>3. CASE b <= k /\ k # p
      <4>1. k + 1 <= p /\ p < AfterEnd(Ends(b)) BY <1>1, <1>2, <1>3, <3>3
      <4>2. k \notin Ends(b) BY <1>1, <1>2, <1>3, <3>3, <4>1
      <4> QED BY <4>2, <3>3, <1>1, <1>3 DEF Ends
    <3> QED BY <3>1, <3>2, <3>3, <1>1, <1>3
  <2> QED BY <2>1, <1>3, InsideFrom
<1> QED BY <1>4, <1>5

-----------------------------------------------------------------------------
\* The stack of running functions.

\* The functions that run are in the order their metacodes were created in.
LEMMA FramesRise ==
  ASSUME TypeOK, StackInv, NEW i \in 1 .. Depth, NEW j \in 1 .. Depth, i < j
  PROVE  frames[i].meta < frames[j].meta
<1>1. frames[i].meta <= frames[j].old /\ frames[j].old < frames[j].meta BY DEF StackInv
<1>2. frames[i] \in FrameType /\ frames[j] \in FrameType BY DEF TypeOK, Depth
<1>3. frames[i].meta \in Nat /\ frames[j].meta \in Nat /\ frames[j].old \in Nat BY <1>2 DEF FrameType
<1> QED BY <1>1, <1>3

LEMMA KeepShape ==
  ASSUME TypeOK, StackInv, ParentInv, frames' = frames, parent' = parent,
         \A m \in 1 .. Len(metas) : metas'[m].kind = metas[m].kind
  PROVE  StackInv' /\ ParentInv'
<1>1. /\ Depth' = Depth /\ parent \in 1 .. Len(metas)
      /\ \A i \in 1 .. Depth : frames[i].old \in 1 .. Len(metas)
  BY DEF TypeOK, Depth
<1>2. \A i \in 1 .. Depth : metas'[frames[i].old].kind = metas[frames[i].old].kind BY <1>1
<1>3. \A i, j : Chain(j, i)' = Chain(j, i) BY DEF Chain
<1>4. StackInv' BY <1>1, <1>2, <1>3 DEF StackInv
<1>5. ParentInv' BY <1>1 DEF ParentInv
<1> QED BY <1>4, <1>5

\* What Push makes of the sequences.
LEMMA PushFacts ==
  ASSUME TypeOK, NEW kind \in Branches \cup Blocks, Push(kind)
  PROVE  /\ Len(metas') = Len(metas) + 1 /\ metas' \in Seq(MetaType)
         /\ \A m \in 1 .. Len(metas) : metas'[m] = metas[m]
         /\ metas'[New] = Meta(kind) /\ Meta(kind).kind = kind /\ Meta(kind).next = 0
         /\ Meta(kind).list = <<>> /\ Meta(kind).ended = FALSE
         /\ Depth' = Depth + 1 /\ frames' \in Seq(FrameType)
         /\ \A i \in 1 .. Depth : frames'[i] = frames[i]
         /\ frames'[Depth + 1].kind = kind /\ frames'[Depth + 1].meta = New /\ frames'[Depth + 1].old = parent
         /\ parent' = New /\ New = Len(metas) + 1
<1>1. Meta(kind) \in MetaType BY DEF Meta, MetaType, Branches, Blocks
<1>2. Frame(kind, New) \in FrameType BY DEF Frame, FrameType, TypeOK, New
<1>3. metas \in Seq(MetaType) /\ frames \in Seq(FrameType) BY DEF TypeOK
<1>4. metas' = Append(metas, Meta(kind)) /\ frames' = Append(frames, Frame(kind, New)) /\ parent' = New BY DEF Push
<1>5. /\ Len(metas') = Len(metas) + 1 /\ metas' \in Seq(MetaType)
      /\ \A m \in 1 .. Len(metas) : metas'[m] = metas[m]
      /\ metas'[New] = Meta(kind)
  BY <1>1, <1>3, <1>4 DEF New
<1>6. /\ Depth' = Depth + 1 /\ frames' \in Seq(FrameType)
      /\ \A i \in 1 .. Depth : frames'[i] = frames[i]
      /\ frames'[Depth + 1] = Frame(kind, New)
  BY <1>2, <1>3, <1>4 DEF Depth
<1>7. /\ Meta(kind).kind = kind /\ Meta(kind).next = 0 /\ Meta(kind).list = <<>>
      /\ Meta(kind).ended = (kind = "inline") /\ kind # "inline"
  BY DEF Meta, Branches, Blocks
<1>8. Frame(kind, New).kind = kind /\ Frame(kind, New).meta = New /\ Frame(kind, New).old = parent BY DEF Frame
<1>9. Meta(kind).ended = FALSE BY <1>7, Zenon
<1> QED BY <1>4, <1>5, <1>6, <1>7, <1>8, <1>9 DEF New

LEMMA PushShape ==
  ASSUME TypeOK, StackInv, ParentInv, NEW kind \in Branches \cup Blocks, Push(kind),
         kind \in {"elif", "else"} => In({"if", "elif"})
  PROVE  StackInv' /\ ParentInv'
<1>1. /\ Len(metas) \in Nat \ {0} /\ Depth \in Nat /\ parent \in 1 .. Len(metas)
      /\ \A i \in 1 .. Depth : /\ frames[i].meta \in 1 .. Len(metas) /\ frames[i].old \in 1 .. Len(metas)
  BY DEF TypeOK, Depth
<1>2. /\ \A m \in 1 .. Len(metas) : metas'[m] = metas[m]
      /\ metas'[New].kind = kind
      /\ Depth' = Depth + 1
      /\ \A i \in 1 .. Depth : frames'[i] = frames[i]
      /\ frames'[Depth + 1].kind = kind /\ frames'[Depth + 1].meta = New /\ frames'[Depth + 1].old = parent
      /\ parent' = New /\ New = Len(metas) + 1
  BY PushFacts
<1>3. \A i \in 1 .. Depth' : i \in 1 .. Depth \/ i = Depth + 1 BY <1>1, <1>2
<1>4. \A i \in 1 .. Depth' : frames'[i].meta > 1 /\ frames'[i].old < frames'[i].meta
  <2>1. ASSUME NEW i \in 1 .. Depth PROVE frames'[i].meta > 1 /\ frames'[i].old < frames'[i].meta
    BY <2>1, <1>2 DEF StackInv
  <2>2. frames'[Depth + 1].meta > 1 /\ frames'[Depth + 1].old < frames'[Depth + 1].meta BY <1>1, <1>2
  <2> QED BY <2>1, <2>2, <1>3
<1>5. \A i, j \in 1 .. Depth' : i < j => frames'[i].meta <= frames'[j].old
  <2>1. ASSUME NEW i \in 1 .. Depth, NEW j \in 1 .. Depth, i < j PROVE frames'[i].meta <= frames'[j].old
    BY <2>1, <1>2 DEF StackInv
  <2>2. ASSUME NEW i \in 1 .. Depth PROVE frames'[i].meta <= frames'[Depth + 1].old
    BY <2>2, <1>2 DEF ParentInv
  <2>3. ASSUME NEW i \in 1 .. Depth', NEW j \in 1 .. Depth', i < j PROVE frames'[i].meta <= frames'[j].old
    <3>1. i \in 1 .. Depth BY <2>3, <1>1, <1>2, <1>3
    <3>2. CASE j \in 1 .. Depth BY <3>1, <3>2, <2>1, <2>3
    <3>3. CASE j = Depth + 1 BY <3>1, <3>3, <2>2
    <3> QED BY <3>2, <3>3, <1>3
  <2> QED BY <2>3
<1>6. ASSUME NEW i \in 1 .. Depth', metas'[frames'[i].old].kind \in Blocks
      PROVE  \E j \in 1 .. i - 1 : frames'[j].meta = frames'[i].old
  <2>1. CASE i \in 1 .. Depth
    <3>1. metas[frames[i].old].kind \in Blocks BY <1>1, <1>2, <1>6, <2>1
    <3>2. PICK j \in 1 .. i - 1 : frames[j].meta = frames[i].old BY <2>1, <3>1 DEF StackInv
    <3>3. j \in 1 .. Depth BY <1>1, <2>1
    <3>4. frames'[j].meta = frames'[i].old BY <3>2, <3>3, <1>2, <2>1
    <3> QED BY <3>4
  <2>2. CASE i = Depth + 1
    <3>1. metas[parent].kind \in Blocks BY <1>1, <1>2, <1>6, <2>2
    <3>2. PICK j \in 1 .. Depth : frames[j].meta = parent BY <3>1 DEF ParentInv
    <3>3. j \in 1 .. i - 1 BY <1>1, <2>2
    <3>4. frames'[j].meta = frames'[i].old BY <3>2, <1>2, <2>2
    <3> QED BY <3>3, <3>4
  <2> QED BY <2>1, <2>2, <1>3
<1>7. ASSUME NEW i \in 1 .. Depth', frames'[i].kind \in {"elif", "else"}
      PROVE  i > 1 /\ frames'[i - 1].kind \in {"if", "elif"}
  <2>1. CASE i \in 1 .. Depth
    <3>1. i > 1 /\ frames[i - 1].kind \in {"if", "elif"} BY <1>2, <1>7, <2>1 DEF StackInv
    <3> QED BY <3>1, <1>1, <1>2, <2>1
  <2>2. CASE i = Depth + 1
    <3>1. frames # <<>> /\ frames[Depth].kind \in {"if", "elif"} BY <1>2, <1>7, <2>2 DEF In, Top
    <3>2. Depth > 0 BY <3>1, <1>1 DEF Depth, TypeOK
    <3> QED BY <3>1, <3>2, <1>1, <1>2, <2>2
  <2> QED BY <2>1, <2>2, <1>3
<1>8. ASSUME NEW j \in 1 .. Depth, NEW i \in j .. Depth, Chain(j, i) PROVE Chain(j, i)'
  <2>1. \A k \in j .. i : frames'[k] = frames[k] BY <1>1, <1>2
  <2>2. j \in j .. i /\ \A k \in j + 1 .. i : k \in j .. i BY <1>1
  <2> QED BY <1>8, <2>1, <2>2 DEF Chain
<1>9. ASSUME NEW i \in 1 .. Depth', frames'[i].kind \in Branches
      PROVE  \E j \in 1 .. i : Chain(j, i)'
  <2>1. CASE i \in 1 .. Depth
    <3>1. frames[i].kind \in Branches BY <1>2, <1>9, <2>1
    <3>2. PICK j \in 1 .. i : Chain(j, i) BY <2>1, <3>1 DEF StackInv
    <3>3. j \in 1 .. Depth /\ i \in j .. Depth BY <1>1, <2>1
    <3>4. Chain(j, i)' BY <1>8, <3>2, <3>3
    <3> QED BY <3>4
  <2>2. CASE i = Depth + 1 /\ kind = "if"
    <3>1. i \in Nat /\ i \in 1 .. i BY <1>1, <2>2
    <3>2. frames'[i].kind = "if" BY <1>2, <2>2
    <3>3. \A k \in i + 1 .. i : FALSE BY <3>1
    <3>4. Chain(i, i)' BY <3>2, <3>3 DEF Chain
    <3> QED BY <3>1, <3>4
  <2>3. CASE i = Depth + 1 /\ kind \in {"elif", "else"}
    <3>1. frames # <<>> /\ frames[Depth].kind \in Branches BY <2>3 DEF In, Top, Branches
    <3>2. Depth \in 1 .. Depth BY <3>1, <1>1 DEF Depth, TypeOK
    <3>3. PICK j \in 1 .. Depth : Chain(j, Depth) BY <3>1, <3>2 DEF StackInv
    <3>4. Chain(j, i)'
      <4>1. frames'[j].kind = "if" BY <3>3, <1>2 DEF Chain
      <4>2. ASSUME NEW k \in j + 1 .. i PROVE frames'[k].kind \in {"elif", "else"}
        <5>1. CASE k = i BY <5>1, <2>3, <1>2
        <5>2. CASE k # i
          <6>1. k \in j + 1 .. Depth BY <5>2, <2>3, <1>1, <3>3
          <6> QED BY <6>1, <3>3, <1>1, <1>2 DEF Chain
        <5> QED BY <5>1, <5>2
      <4> QED BY <4>1, <4>2 DEF Chain
    <3>5. j \in 1 .. i BY <3>3, <2>3, <1>1
    <3> QED BY <3>4, <3>5
  <2>4. kind \in Branches \/ i \in 1 .. Depth BY <1>2, <1>3, <1>9
  <2> QED BY <2>1, <2>2, <2>3, <2>4, <1>3 DEF Branches
<1>10. StackInv' BY <1>4, <1>5, <1>6, <1>7, <1>9 DEF StackInv
<1>11. ParentInv'
  <2>1. ASSUME NEW i \in 1 .. Depth' PROVE frames'[i].meta <= parent'
    <3>1. CASE i \in 1 .. Depth
      <4>1. frames'[i].meta = frames[i].meta /\ frames[i].meta \in 1 .. Len(metas) BY <3>1, <1>1, <1>2
      <4> QED BY <4>1, <1>1, <1>2
    <3>2. CASE i = Depth + 1
      <4>1. frames'[i].meta = New BY <3>2, <1>2
      <4> QED BY <4>1, <1>1, <1>2
    <3> QED BY <3>1, <3>2, <1>3
  <2>2. Depth + 1 \in 1 .. Depth' /\ frames'[Depth + 1].meta = parent' BY <1>1, <1>2
  <2> QED BY <2>1, <2>2 DEF ParentInv
<1> QED BY <1>10, <1>11

\* What cutting the stack makes of it.
LEMMA CutFacts ==
  ASSUME TypeOK, NEW d \in 0 .. Depth, frames' = SubSeq(frames, 1, d)
  PROVE  Depth' = d /\ frames' \in Seq(FrameType) /\ \A i \in 1 .. d : i \in 1 .. Depth /\ frames'[i] = frames[i]
BY DEF TypeOK, Depth

LEMMA CutShape ==
  ASSUME TypeOK, StackInv, NEW d \in 0 .. Depth, frames' = SubSeq(frames, 1, d),
         \A m \in 1 .. Len(metas) : metas'[m].kind = metas[m].kind
  PROVE  StackInv'
<1>1. Depth \in Nat /\ \A i \in 1 .. Depth : frames[i].old \in 1 .. Len(metas) BY DEF TypeOK, Depth
<1>2. Depth' = d /\ \A i \in 1 .. d : i \in 1 .. Depth /\ frames'[i] = frames[i] BY CutFacts
<1>3. \A i \in 1 .. d : \A j \in 1 .. i : j \in 1 .. d BY <1>1
<1>4. \A i \in 1 .. Depth' : frames'[i].meta > 1 /\ frames'[i].old < frames'[i].meta BY <1>2 DEF StackInv
<1>5. \A i, j \in 1 .. Depth' : i < j => frames'[i].meta <= frames'[j].old BY <1>2 DEF StackInv
<1>6. ASSUME NEW i \in 1 .. Depth', metas'[frames'[i].old].kind \in Blocks
      PROVE  \E j \in 1 .. i - 1 : frames'[j].meta = frames'[i].old
  <2>1. metas[frames[i].old].kind \in Blocks BY <1>1, <1>2, <1>6
  <2>2. PICK j \in 1 .. i - 1 : frames[j].meta = frames[i].old BY <1>2, <2>1 DEF StackInv
  <2>3. j \in 1 .. i BY <1>1, <1>2
  <2> QED BY <2>2, <2>3, <1>2, <1>3
<1>7. ASSUME NEW i \in 1 .. Depth', frames'[i].kind \in {"elif", "else"}
      PROVE  i > 1 /\ frames'[i - 1].kind \in {"if", "elif"}
  <2>1. i > 1 /\ frames[i - 1].kind \in {"if", "elif"} BY <1>2, <1>7 DEF StackInv
  <2>2. i - 1 \in 1 .. d BY <2>1, <1>1, <1>2
  <2> QED BY <2>1, <2>2, <1>2
<1>8. ASSUME NEW i \in 1 .. Depth', frames'[i].kind \in Branches
      PROVE  \E j \in 1 .. i : Chain(j, i)'
  <2>1. frames[i].kind \in Branches BY <1>2, <1>8
  <2>2. PICK j \in 1 .. i : Chain(j, i) BY <2>1, <1>2 DEF StackInv
  <2>3. j \in 1 .. d /\ \A k \in j + 1 .. i : k \in 1 .. d BY <1>1, <1>2
  <2>4. Chain(j, i)' BY <2>2, <2>3, <1>2 DEF Chain
  <2> QED BY <2>4
<1> QED BY <1>4, <1>5, <1>6, <1>7, <1>8 DEF StackInv

LEMMA PopFacts ==
  ASSUME TypeOK, frames # <<>>, Pop
  PROVE  /\ Depth \in Nat \ {0} /\ Depth - 1 \in 0 .. Depth /\ Depth' = Depth - 1 /\ frames' \in Seq(FrameType)
         /\ \A i \in 1 .. Depth - 1 : i \in 1 .. Depth /\ frames'[i] = frames[i]
         /\ parent' = frames[Depth].old /\ parent' \in 1 .. Len(metas)
<1>1. Depth \in Nat \ {0} /\ Depth - 1 \in 0 .. Depth BY DEF TypeOK, Depth
<1>2. frames' = SubSeq(frames, 1, Depth - 1) /\ parent' = frames[Depth].old BY DEF Pop, Top
<1>3. Depth' = Depth - 1 /\ frames' \in Seq(FrameType) /\ \A i \in 1 .. Depth - 1 : i \in 1 .. Depth /\ frames'[i] = frames[i]
  BY <1>1, <1>2, CutFacts
<1>4. parent' \in 1 .. Len(metas) BY <1>1, <1>2 DEF TypeOK
<1> QED BY <1>1, <1>2, <1>3, <1>4

LEMMA PopShape ==
  ASSUME TypeOK, StackInv, ParentInv, frames # <<>>, Pop,
         \A m \in 1 .. Len(metas) : metas'[m].kind = metas[m].kind
  PROVE  StackInv' /\ ParentInv'
<1>1. /\ Depth \in Nat \ {0} /\ Depth - 1 \in 0 .. Depth /\ Depth' = Depth - 1
      /\ \A i \in 1 .. Depth - 1 : i \in 1 .. Depth /\ frames'[i] = frames[i]
      /\ parent' = frames[Depth].old /\ parent' \in 1 .. Len(metas)
  BY PopFacts
<1>2. frames' = SubSeq(frames, 1, Depth - 1) BY DEF Pop
<1>3. StackInv' BY <1>1, <1>2, CutShape
<1>4. \A i \in 1 .. Depth' : frames'[i].meta <= parent' BY <1>1 DEF StackInv
<1>5. ASSUME metas'[parent'].kind \in Blocks PROVE \E i \in 1 .. Depth' : frames'[i].meta = parent'
  <2>1. metas[frames[Depth].old].kind \in Blocks BY <1>1, <1>5
  <2>2. PICK j \in 1 .. Depth - 1 : frames[j].meta = frames[Depth].old BY <2>1, <1>1 DEF StackInv
  <2> QED BY <2>2, <1>1
<1> QED BY <1>3, <1>4, <1>5 DEF ParentInv

\* The condition that # end if ends.
LEMMA ChainFacts ==
  ASSUME TypeOK, StackInv, In(Branches)
  PROVE  /\ Depth \in Nat \ {0} /\ ChainStart \in 1 .. Depth /\ frames[ChainStart].kind = "if"
         /\ \A k \in ChainStart + 1 .. Depth : frames[k].kind \in {"elif", "else"}
<1>1. Depth \in Nat \ {0} /\ frames[Depth].kind \in Branches BY DEF TypeOK, Depth, In, Top
<1>2. PICK j \in 1 .. Depth : Chain(j, Depth) BY <1>1 DEF StackInv
<1>3. frames[j].kind = "if" /\ \A k \in j + 1 .. Depth : frames[k].kind \in {"elif", "else"} BY <1>2 DEF Chain
<1> DEFINE P(i) == frames[i].kind = "if" /\ \A k \in i + 1 .. Depth : frames[k].kind # "if"
<1>4. P(j) BY <1>3
<1>5. ChainStart \in 1 .. Depth /\ P(ChainStart) BY <1>4 DEF ChainStart
<1>6. ASSUME NEW c \in 1 .. Depth, P(c) PROVE c = j
  <2>1. CASE c < j BY <2>1, <1>3, <1>6
  <2>2. CASE j < c BY <2>2, <1>4, <1>6
  <2> QED BY <2>1, <2>2
<1>7. ChainStart = j BY <1>5, <1>6
<1> QED BY <1>1, <1>3, <1>7

\* current_parent is no block where a branch runs.
LEMMA ParentOfBranch ==
  ASSUME TypeOK, StackInv, ParentInv, In(Branches)
  PROVE  metas[parent].kind \notin Blocks
<1> SUFFICES ASSUME metas[parent].kind \in Blocks PROVE FALSE OBVIOUS
<1>1. Depth \in Nat \ {0} /\ frames[Depth].kind \in Branches BY DEF TypeOK, Depth, In, Top
<1>2. PICK i \in 1 .. Depth : frames[i].meta = parent BY DEF ParentInv
<1>3. i = Depth
  <2> SUFFICES ASSUME i < Depth PROVE FALSE BY <1>1
  <2>1. Depth \in 1 .. Depth BY <1>1
  <2>2. frames[i].meta < frames[Depth].meta BY <2>1, FramesRise
  <2>3. frames[Depth].meta <= parent BY <2>1 DEF ParentInv
  <2>4. frames[i].meta \in 1 .. Len(metas) /\ frames[Depth].meta \in 1 .. Len(metas) BY <2>1 DEF TypeOK
  <2> QED BY <2>2, <2>3, <2>4, <1>2
<1>4. frames[Depth].kind = metas[parent].kind BY <1>1, <1>2, <1>3 DEF TypeOK
<1> QED BY <1>1, <1>4 DEF Branches, Blocks

LEMMA EndIfShape ==
  ASSUME TypeOK, StackInv, ParentInv, In(Branches), parent' = parent,
         frames' = SubSeq(frames, 1, ChainStart - 1),
         \A m \in 1 .. Len(metas) : metas'[m].kind = metas[m].kind
  PROVE  StackInv' /\ ParentInv'
<1>1. Depth \in Nat \ {0} /\ ChainStart \in 1 .. Depth BY ChainFacts
<1>2. ChainStart - 1 \in 0 .. Depth BY <1>1
<1>3. StackInv' BY <1>2, CutShape
<1>4. Depth' = ChainStart - 1 /\ \A i \in 1 .. ChainStart - 1 : i \in 1 .. Depth /\ frames'[i] = frames[i]
  BY <1>2, CutFacts
<1>5. \A i \in 1 .. Depth' : frames'[i].meta <= parent' BY <1>4 DEF ParentInv
<1>6. metas'[parent'].kind \notin Blocks BY ParentOfBranch DEF TypeOK
<1> QED BY <1>3, <1>5, <1>6 DEF ParentInv

-----------------------------------------------------------------------------
\* The metacodes.

MetasOK ==
  /\ metas \in Seq(MetaType)
  /\ \A m \in 1 .. Len(metas) :
       /\ metas[m].next <= Len(metas)
       /\ \A i \in 1 .. Len(metas[m].list) : metas[m].list[i] <= Flag

FramesOK ==
  /\ frames \in Seq(FrameType)
  /\ \A i \in 1 .. Depth : /\ frames[i].meta \in 1 .. Len(metas)
                           /\ frames[i].kind = metas[frames[i].meta].kind
                           /\ frames[i].old \in 1 .. Len(metas)

CursorOK ==
  /\ cur \in 1 .. Last
  /\ parent \in 1 .. Len(metas)
  /\ expand \in 0 .. Len(metas)
  /\ step \in {"loop", "any", "header"}
  /\ errors \subseteq Codes
  /\ tokens \in Seq(1 .. Last)
  /\ status \in {"preprocessing", "generated", "crash"}

LEMMA TypeParts == TypeOK => MetasOK /\ FramesOK /\ CursorOK
BY DEF TypeOK, MetasOK, FramesOK, CursorOK

LEMMA MetaFields ==
  ASSUME metas \in Seq(MetaType), NEW m \in 1 .. Len(metas)
  PROVE  metas[m] \in MetaType /\ metas[m].next \in Nat /\ metas[m].list \in Seq(Nat)
<1>1. metas[m] \in MetaType OBVIOUS
<1> QED BY <1>1 DEF MetaType

\* Nothing but a metacode's end, its name or its alternative changes.
SameLists ==
  /\ metas' \in Seq(MetaType) /\ Len(metas') = Len(metas)
  /\ \A m \in 1 .. Len(metas) : metas'[m].kind = metas[m].kind /\ metas'[m].list = metas[m].list

\* A metacode is added.
Grows(kind) ==
  /\ metas' \in Seq(MetaType) /\ Len(metas') = Len(metas) + 1
  /\ \A m \in 1 .. Len(metas) : metas'[m] = metas[m]
  /\ metas'[Len(metas) + 1].kind = kind /\ metas'[Len(metas) + 1].next = 0
  /\ metas'[Len(metas) + 1].list = <<>>

LEMMA FlagType ==
  ASSUME NEW r \in MetaType, NEW v \in BOOLEAN
  PROVE  [r EXCEPT !.ended = v] \in MetaType /\ [r EXCEPT !.named = v] \in MetaType
<1>1. [r EXCEPT !.ended = v] \in MetaType BY DEF MetaType
<1>2. [r EXCEPT !.named = v] \in MetaType BY DEF MetaType
<1> QED BY <1>1, <1>2

LEMMA ListType ==
  ASSUME NEW r \in MetaType, NEW l \in Seq(Nat)
  PROVE  /\ [r EXCEPT !.list = l] \in MetaType
         /\ [r EXCEPT !.list = l].kind = r.kind /\ [r EXCEPT !.list = l].list = l
         /\ [r EXCEPT !.list = l].next = r.next /\ [r EXCEPT !.list = l].ended = r.ended
<1>1. [r EXCEPT !.list = l] \in MetaType BY DEF MetaType
<1>2. [r EXCEPT !.list = l].list = l /\ [r EXCEPT !.list = l].kind = r.kind BY DEF MetaType
<1>3. [r EXCEPT !.list = l].next = r.next /\ [r EXCEPT !.list = l].ended = r.ended BY DEF MetaType
<1> QED BY <1>1, <1>2, <1>3

LEMMA SeqUpdate ==
  ASSUME metas \in Seq(MetaType), metas' = [m \in DOMAIN metas |-> metas'[m]],
         \A m \in DOMAIN metas : metas'[m] \in MetaType
  PROVE  metas' \in Seq(MetaType) /\ Len(metas') = Len(metas)
<1>1. Len(metas) \in Nat /\ DOMAIN metas = 1 .. Len(metas) OBVIOUS
<1> QED BY <1>1

LEMMA EndFacts ==
  ASSUME TypeOK, NEW x \in 1 .. Len(metas), NEW v \in BOOLEAN, metas' = [metas EXCEPT ![x].ended = v]
  PROVE  /\ SameLists /\ \A m \in 1 .. Len(metas) : metas'[m].next = metas[m].next
         /\ metas'[x].ended = v
         /\ \A m \in 1 .. Len(metas) : m # x => metas'[m] = metas[m]
<1>1. /\ metas \in Seq(MetaType) /\ DOMAIN metas = 1 .. Len(metas)
      /\ \A m \in 1 .. Len(metas) : metas[m] \in MetaType
  BY DEF TypeOK
<1>2. x \in DOMAIN metas BY <1>1
<1> DEFINE r == metas[x]
<1>3. metas'[x] = [r EXCEPT !.ended = v] BY <1>2, Zenon
<1>4. \A m \in 1 .. Len(metas) : m # x => metas'[m] = metas[m] BY <1>1, Zenon
<1>5. metas' = [m \in DOMAIN metas |-> metas'[m]] BY Zenon
<1>6. r \in MetaType BY <1>1
<1> HIDE DEF r
<1>7. metas'[x] \in MetaType BY <1>3, <1>6, FlagType
<1>8. /\ metas'[x].kind = r.kind /\ metas'[x].list = r.list /\ metas'[x].next = r.next
      /\ metas'[x].ended = v
  BY <1>3, <1>6 DEF MetaType
<1>9. \A m \in DOMAIN metas : metas'[m] \in MetaType BY <1>1, <1>4, <1>7, Zenon
<1>10. metas' \in Seq(MetaType) /\ Len(metas') = Len(metas) BY <1>1, <1>5, <1>9, SeqUpdate, Zenon
<1> QED BY <1>4, <1>8, <1>10 DEF SameLists, r

LEMMA NameFacts ==
  ASSUME TypeOK, NEW x \in 1 .. Len(metas), NEW v \in BOOLEAN, metas' = [metas EXCEPT ![x].named = v]
  PROVE  /\ SameLists
         /\ \A m \in 1 .. Len(metas) : metas'[m].next = metas[m].next /\ metas'[m].ended = metas[m].ended
<1>1. /\ metas \in Seq(MetaType) /\ DOMAIN metas = 1 .. Len(metas)
      /\ \A m \in 1 .. Len(metas) : metas[m] \in MetaType
  BY DEF TypeOK
<1>2. x \in DOMAIN metas BY <1>1
<1> DEFINE r == metas[x]
<1>3. metas'[x] = [r EXCEPT !.named = v] BY <1>2, Zenon
<1>4. \A m \in 1 .. Len(metas) : m # x => metas'[m] = metas[m] BY <1>1, Zenon
<1>5. metas' = [m \in DOMAIN metas |-> metas'[m]] BY Zenon
<1>6. r \in MetaType BY <1>1
<1> HIDE DEF r
<1>7. metas'[x] \in MetaType BY <1>3, <1>6, FlagType
<1>8. /\ metas'[x].kind = r.kind /\ metas'[x].list = r.list /\ metas'[x].next = r.next
      /\ metas'[x].ended = r.ended
  BY <1>3, <1>6 DEF MetaType
<1>9. \A m \in DOMAIN metas : metas'[m] \in MetaType BY <1>1, <1>4, <1>7, Zenon
<1>10. metas' \in Seq(MetaType) /\ Len(metas') = Len(metas) BY <1>1, <1>5, <1>9, SeqUpdate, Zenon
<1> QED BY <1>4, <1>8, <1>10 DEF SameLists, r

LEMMA AddFacts ==
  ASSUME TypeOK, NEW x \in 1 .. Len(metas), NEW e \in Nat, metas' = [metas EXCEPT ![x].list = Append(@, e)]
  PROVE  /\ metas' \in Seq(MetaType) /\ Len(metas') = Len(metas)
         /\ \A m \in 1 .. Len(metas) : m # x => metas'[m] = metas[m]
         /\ metas'[x].list = Append(metas[x].list, e)
         /\ \A m \in 1 .. Len(metas) : /\ metas'[m].kind = metas[m].kind /\ metas'[m].next = metas[m].next
                                       /\ metas'[m].ended = metas[m].ended
<1>1. /\ metas \in Seq(MetaType) /\ DOMAIN metas = 1 .. Len(metas)
      /\ \A m \in 1 .. Len(metas) : metas[m] \in MetaType
  BY DEF TypeOK
<1>2. x \in DOMAIN metas BY <1>1
<1> DEFINE r == metas[x]
           l == Append(r.list, e)
<1>3. metas'[x] = [r EXCEPT !.list = l] BY <1>2, Zenon
<1>4. \A m \in 1 .. Len(metas) : m # x => metas'[m] = metas[m] BY <1>1, Zenon
<1>5. metas' = [m \in DOMAIN metas |-> metas'[m]] BY Zenon
<1>6. r \in MetaType BY <1>1
<1>7. l \in Seq(Nat)
  <2>1. r.list \in Seq(Nat) BY <1>1, MetaFields
  <2> QED BY <2>1
<1> HIDE DEF r, l
<1>8. metas'[x] \in MetaType BY <1>3, <1>6, <1>7, ListType
<1>9. /\ metas'[x].kind = r.kind /\ metas'[x].list = l /\ metas'[x].next = r.next /\ metas'[x].ended = r.ended
  <2>1. /\ [r EXCEPT !.list = l].kind = r.kind /\ [r EXCEPT !.list = l].list = l
        /\ [r EXCEPT !.list = l].next = r.next /\ [r EXCEPT !.list = l].ended = r.ended
    BY <1>6, <1>7, ListType
  <2> QED BY <1>3, <2>1
<1>10. \A m \in DOMAIN metas : metas'[m] \in MetaType BY <1>1, <1>4, <1>8, Zenon
<1>11. metas' \in Seq(MetaType) /\ Len(metas') = Len(metas) BY <1>1, <1>5, <1>10, SeqUpdate, Zenon
<1> QED BY <1>4, <1>9, <1>11 DEF r, l

LEMMA GrowFacts ==
  ASSUME TypeOK, NEW kind \in {"inline"} \cup Branches \cup Blocks, metas' = Append(metas, Meta(kind))
  PROVE  Grows(kind) /\ metas'[Len(metas) + 1].ended = (kind = "inline")
<1>1. metas \in Seq(MetaType) BY DEF TypeOK
<1>2. Meta(kind) \in MetaType BY DEF Meta, MetaType, Branches, Blocks
<1>3. Meta(kind).kind = kind /\ Meta(kind).next = 0 /\ Meta(kind).list = <<>> /\ Meta(kind).ended = (kind = "inline")
  BY DEF Meta
<1>4. /\ metas' \in Seq(MetaType) /\ Len(metas') = Len(metas) + 1
      /\ \A m \in 1 .. Len(metas) : metas'[m] = metas[m]
      /\ metas'[Len(metas) + 1] = Meta(kind)
  BY <1>1, <1>2
<1> QED BY <1>3, <1>4 DEF Grows

\* What # end if writes: each branch gets the one called from it, the last its end.
LEMMA EndIfFacts ==
  ASSUME TypeOK, StackInv, EndIf
  PROVE  /\ SameLists
         /\ \A m \in 1 .. Len(metas) : metas'[m].next \in 0 .. Len(metas)
         /\ metas'[frames[Depth].meta].next = metas[frames[Depth].meta].next
         /\ metas'[frames[Depth].meta].ended
         /\ \A i \in ChainStart .. Depth - 1 : /\ metas'[frames[i].meta].next = frames[i + 1].meta
                                               /\ metas'[frames[i].meta].ended = metas[frames[i].meta].ended
         /\ \A m \in 1 .. Len(metas) :
              (\A i \in ChainStart .. Depth : frames[i].meta # m) => metas'[m] = metas[m]
<1> DEFINE c == ChainStart
           S(m) == {i \in c .. Depth - 1 : frames[i].meta = m}
           link(m) == 1 + CHOOSE i \in c .. Depth - 1 : frames[i].meta = m
           last == frames[Depth].meta
<1>1. metas \in Seq(MetaType) /\ DOMAIN metas = 1 .. Len(metas) BY DEF TypeOK
<1>2. Depth \in Nat \ {0} /\ c \in 1 .. Depth BY ChainFacts DEF EndIf
<1>3. \A i \in c .. Depth : i \in 1 .. Depth BY <1>2
<1>4. metas' = [m \in 1 .. Len(metas) |->
                  IF m = last THEN [metas[m] EXCEPT !.ended = TRUE]
                  ELSE IF \E i \in c .. Depth - 1 : frames[i].meta = m
                    THEN [metas[m] EXCEPT !.next = frames[link(m)].meta] ELSE metas[m]]
  BY <1>1 DEF EndIf
<1>5. \A i \in 1 .. Depth : frames[i].meta \in 1 .. Len(metas) BY DEF TypeOK
<1>6. \A i \in c .. Depth - 1 : i \in 1 .. Depth /\ i + 1 \in 1 .. Depth /\ i < Depth BY <1>2
<1>7. ASSUME NEW i \in c .. Depth - 1 PROVE frames[i].meta # last /\ link(frames[i].meta) = i + 1
  <2>1. frames[i].meta < last BY <1>2, <1>6, FramesRise
  <2>2. frames[i].meta \in Nat /\ last \in Nat BY <1>2, <1>5, <1>6
  <2> DEFINE j == CHOOSE k \in c .. Depth - 1 : frames[k].meta = frames[i].meta
  <2>3. j \in c .. Depth - 1 /\ frames[j].meta = frames[i].meta OBVIOUS
  <2>4. link(frames[i].meta) = 1 + j OBVIOUS
  <2> HIDE DEF j
  <2>5. ~(i < j) BY <2>2, <2>3, <1>6, FramesRise
  <2>6. ~(j < i) BY <2>2, <2>3, <1>6, FramesRise
  <2>7. i = j BY <2>3, <2>5, <2>6, <1>2
  <2> QED BY <2>1, <2>2, <2>4, <2>7, <1>2
<1> HIDE DEF link, c
<1>8. \A m \in 1 .. Len(metas) : metas[m] \in MetaType BY <1>1
<1>9. metas'[last] = [metas[last] EXCEPT !.ended = TRUE] /\ last \in 1 .. Len(metas) BY <1>2, <1>4, <1>5
<1>10. ASSUME NEW i \in c .. Depth - 1
       PROVE  metas'[frames[i].meta] = [metas[frames[i].meta] EXCEPT !.next = frames[i + 1].meta]
  BY <1>4, <1>5, <1>6, <1>7, Zenon
<1>11. ASSUME NEW m \in 1 .. Len(metas), m # last, \A i \in c .. Depth - 1 : frames[i].meta # m
       PROVE  metas'[m] = metas[m]
  BY <1>4, <1>11
<1>12. ASSUME NEW m \in 1 .. Len(metas)
       PROVE  m = last \/ (\E i \in c .. Depth - 1 : m = frames[i].meta) \/ metas'[m] = metas[m]
  BY <1>11
<1>13. /\ metas'[last] \in MetaType /\ metas'[last].kind = metas[last].kind /\ metas'[last].list = metas[last].list
       /\ metas'[last].next = metas[last].next /\ metas'[last].ended
  <2> DEFINE r == metas[last]
  <2>1. r \in MetaType /\ metas'[last] = [r EXCEPT !.ended = TRUE] BY <1>8, <1>9
  <2> HIDE DEF r
  <2>2. [r EXCEPT !.ended = TRUE] \in MetaType BY <2>1, FlagType
  <2>3. /\ [r EXCEPT !.ended = TRUE].kind = r.kind /\ [r EXCEPT !.ended = TRUE].list = r.list
        /\ [r EXCEPT !.ended = TRUE].next = r.next
    BY <2>1 DEF MetaType
  <2>4. [r EXCEPT !.ended = TRUE].ended BY <2>1, Zenon DEF MetaType
  <2> QED BY <2>1, <2>2, <2>3, <2>4, Zenon DEF r
<1>14. ASSUME NEW i \in c .. Depth - 1, NEW m, m = frames[i].meta
       PROVE  /\ metas'[m] \in MetaType /\ metas'[m].kind = metas[m].kind /\ metas'[m].list = metas[m].list
              /\ metas'[m].next = frames[i + 1].meta /\ metas'[m].ended = metas[m].ended
  <2> DEFINE r == metas[m]  n == frames[i + 1].meta
  <2>1. r \in MetaType /\ n \in Nat /\ metas'[m] = [r EXCEPT !.next = n] BY <1>5, <1>6, <1>8, <1>10, <1>14
  <2> HIDE DEF r, n
  <2>2. [r EXCEPT !.next = n] \in MetaType BY <2>1 DEF MetaType
  <2>3. /\ [r EXCEPT !.next = n].kind = r.kind /\ [r EXCEPT !.next = n].list = r.list
        /\ [r EXCEPT !.next = n].next = n /\ [r EXCEPT !.next = n].ended = r.ended
    BY <2>1 DEF MetaType
  <2> QED BY <2>1, <2>2, <2>3 DEF r, n
<1>15. SameLists
  <2>1. ASSUME NEW m \in 1 .. Len(metas)
        PROVE  metas'[m] \in MetaType /\ metas'[m].kind = metas[m].kind /\ metas'[m].list = metas[m].list
    BY <1>8, <1>12, <1>13, <1>14
  <2>2. DOMAIN metas' = 1 .. Len(metas) BY <1>4
  <2>3. metas' \in Seq(MetaType) /\ Len(metas') = Len(metas)
    <3>1. metas' = [m \in 1 .. Len(metas) |-> metas'[m]] BY <1>4
    <3>2. Len(metas) \in Nat BY <1>1
    <3> QED BY <2>1, <2>2, <3>1, <3>2
  <2> QED BY <2>1, <2>3 DEF SameLists
<1>16. ASSUME NEW m \in 1 .. Len(metas) PROVE metas'[m].next \in 0 .. Len(metas)
  <2>1. metas[m].next \in 0 .. Len(metas)
    <3>1. metas[m].next \in Nat BY <1>8 DEF MetaType
    <3>2. metas[m].next <= Len(metas) /\ Len(metas) \in Nat BY <1>1 DEF TypeOK
    <3> QED BY <3>1, <3>2
  <2>2. CASE m = last BY <2>1, <2>2, <1>13
  <2>3. CASE \E i \in c .. Depth - 1 : m = frames[i].meta BY <2>3, <1>5, <1>6, <1>14
  <2>4. CASE metas'[m] = metas[m] BY <2>1, <2>4
  <2> QED BY <2>2, <2>3, <2>4, <1>12
<1>17. ASSUME NEW m \in 1 .. Len(metas), \A i \in c .. Depth : frames[i].meta # m PROVE metas'[m] = metas[m]
  <2>1. Depth \in c .. Depth /\ \A i \in c .. Depth - 1 : i \in c .. Depth BY <1>2
  <2> QED BY <2>1, <1>11, <1>17
<1>18. \A i \in c .. Depth - 1 : /\ metas'[frames[i].meta].next = frames[i + 1].meta
                                 /\ metas'[frames[i].meta].ended = metas[frames[i].meta].ended
  BY <1>14
<1> QED BY <1>13, <1>15, <1>16, <1>17, <1>18 DEF c

LEMMA MetasSame ==
  ASSUME MetasOK, file' = file, SameLists, \A m \in 1 .. Len(metas) : metas'[m].next <= Len(metas)
  PROVE  MetasOK'
BY DEF MetasOK, SameLists, Flag, Last

LEMMA MetasGrow ==
  ASSUME MetasOK, file' = file, NEW kind, Grows(kind)
  PROVE  MetasOK'
<1>1. Len(metas) \in Nat /\ Len(metas') = Len(metas) + 1 /\ Flag' = Flag BY DEF Grows, MetasOK, Flag, Last
<1>2. ASSUME NEW m \in 1 .. Len(metas')
      PROVE  metas'[m].next <= Len(metas') /\ \A i \in 1 .. Len(metas'[m].list) : metas'[m].list[i] <= Flag
  <2>1. CASE m \in 1 .. Len(metas)
    <3>1. metas'[m] = metas[m] BY <2>1 DEF Grows
    <3>2. metas[m].next \in Nat /\ metas[m].next <= Len(metas) BY <2>1, MetaFields DEF MetasOK
    <3> QED BY <2>1, <3>1, <3>2, <1>1 DEF MetasOK
  <2>2. CASE m = Len(metas) + 1 BY <2>2, <1>1 DEF Grows
  <2> QED BY <2>1, <2>2, <1>1
<1> QED BY <1>1, <1>2 DEF MetasOK, Grows

LEMMA EntryFacts ==
  ASSUME FileInv, NEW p \in 1 .. Last
  PROVE  Entry(p) \in Nat /\ Entry(p) <= Flag /\ Flag = Last + 1 /\ Entry(p) \in {p, NoId, Flag} /\ NoId = 0
BY FileFacts DEF Entry, Flag, NoId

LEMMA MetasAdd ==
  ASSUME TypeOK, FileInv, file' = file, NEW p \in 1 .. Last,
         metas' = [metas EXCEPT ![parent].list = Append(@, Entry(p))]
  PROVE  MetasOK'
<1>1. parent \in 1 .. Len(metas) /\ Flag' = Flag BY DEF TypeOK, Flag, Last
<1> DEFINE e == Entry(p)
<1>2. e \in Nat /\ e <= Flag BY EntryFacts
<1>3. metas' = [metas EXCEPT ![parent].list = Append(@, e)] OBVIOUS
<1> HIDE DEF e
<1>4. /\ metas' \in Seq(MetaType) /\ Len(metas') = Len(metas)
      /\ \A m \in 1 .. Len(metas) : m # parent => metas'[m] = metas[m]
      /\ metas'[parent].list = Append(metas[parent].list, e)
      /\ \A m \in 1 .. Len(metas) : metas'[m].next = metas[m].next
  BY <1>1, <1>2, <1>3, AddFacts
<1>5. ASSUME NEW m \in 1 .. Len(metas), NEW i \in 1 .. Len(metas'[m].list) PROVE metas'[m].list[i] <= Flag
  <2>1. CASE m # parent BY <2>1, <1>4, <1>5 DEF TypeOK
  <2>2. CASE m = parent
    <3> DEFINE l == metas[parent].list
    <3>1. l \in Seq(Nat) /\ \A j \in 1 .. Len(l) : l[j] <= Flag BY <1>1, MetaFields DEF TypeOK
    <3>2. metas'[m].list = Append(l, e) BY <2>2, <1>4
    <3>3. i \in 1 .. Len(Append(l, e)) BY <3>2, <1>5
    <3> HIDE DEF l
    <3>4. Append(l, e)[i] <= Flag
      <4>1. CASE i \in 1 .. Len(l) BY <4>1, <3>1
      <4>2. CASE i = Len(l) + 1 BY <4>2, <3>1, <1>2
      <4> QED BY <4>1, <4>2, <3>1, <3>3
    <3> QED BY <3>2, <3>4
  <2> QED BY <2>1, <2>2
<1> QED BY <1>1, <1>4, <1>5 DEF MetasOK, TypeOK

\* Metacodes keep what they are.
KindsKept ==
  Len(metas) <= Len(metas') /\ \A m \in 1 .. Len(metas) : metas'[m].kind = metas[m].kind

LEMMA FramesSame ==
  ASSUME TypeOK, KindsKept, metas' \in Seq(MetaType), frames' = frames
  PROVE  FramesOK'
<1>1. Len(metas) \in Nat /\ Len(metas') \in Nat /\ Len(metas) <= Len(metas') BY DEF TypeOK, KindsKept
<1>2. 1 .. Len(metas) \subseteq 1 .. Len(metas') BY <1>1
<1>3. Depth' = Depth /\ frames' \in Seq(FrameType) BY DEF TypeOK, Depth
<1>4. ASSUME NEW i \in 1 .. Depth
      PROVE  /\ frames'[i].meta \in 1 .. Len(metas') /\ frames'[i].kind = metas'[frames'[i].meta].kind
             /\ frames'[i].old \in 1 .. Len(metas')
  BY <1>2 DEF TypeOK, KindsKept
<1> QED BY <1>3, <1>4 DEF FramesOK

LEMMA FramesPush ==
  ASSUME TypeOK, NEW kind \in Branches \cup Blocks, Push(kind)
  PROVE  FramesOK' /\ Grows(kind) /\ KindsKept /\ metas'[Len(metas) + 1].ended = FALSE
         /\ parent' \in 1 .. Len(metas') /\ parent' = Len(metas) + 1
<1>1. /\ Len(metas') = Len(metas) + 1 /\ metas' \in Seq(MetaType)
      /\ \A m \in 1 .. Len(metas) : metas'[m] = metas[m]
      /\ metas'[New] = Meta(kind) /\ Meta(kind).kind = kind /\ Meta(kind).next = 0
      /\ Meta(kind).list = <<>> /\ Meta(kind).ended = FALSE
      /\ Depth' = Depth + 1 /\ frames' \in Seq(FrameType)
      /\ \A i \in 1 .. Depth : frames'[i] = frames[i]
      /\ frames'[Depth + 1].kind = kind /\ frames'[Depth + 1].meta = New /\ frames'[Depth + 1].old = parent
      /\ parent' = New /\ New = Len(metas) + 1
  BY PushFacts
<1>2. Len(metas) \in Nat \ {0} /\ Depth \in Nat /\ parent \in 1 .. Len(metas) BY DEF TypeOK, Depth
<1>3. Grows(kind) BY <1>1 DEF Grows
<1>4. KindsKept BY <1>1, <1>2 DEF KindsKept
<1>5. ASSUME NEW i \in 1 .. Depth'
      PROVE  /\ frames'[i].meta \in 1 .. Len(metas') /\ frames'[i].kind = metas'[frames'[i].meta].kind
             /\ frames'[i].old \in 1 .. Len(metas')
  <2>1. CASE i \in 1 .. Depth
    <3>1. /\ frames[i].meta \in 1 .. Len(metas) /\ frames[i].kind = metas[frames[i].meta].kind
          /\ frames[i].old \in 1 .. Len(metas)
      BY <2>1 DEF TypeOK
    <3>2. frames'[i] = frames[i] /\ metas'[frames[i].meta] = metas[frames[i].meta] BY <2>1, <3>1, <1>1
    <3> QED BY <3>1, <3>2, <1>1, <1>2
  <2>2. CASE i = Depth + 1
    <3>1. frames'[i].meta = New /\ frames'[i].old = parent BY <2>2, <1>1
    <3>2. frames'[i].kind = metas'[New].kind BY <2>2, <1>1
    <3> QED BY <3>1, <3>2, <1>1, <1>2
  <2> QED BY <2>1, <2>2, <1>1, <1>2
<1>6. FramesOK' BY <1>1, <1>5 DEF FramesOK
<1> QED BY <1>1, <1>2, <1>3, <1>4, <1>6

LEMMA FramesCut ==
  ASSUME TypeOK, SameLists, NEW d \in 0 .. Depth, frames' = SubSeq(frames, 1, d)
  PROVE  FramesOK'
<1>1. Depth' = d /\ frames' \in Seq(FrameType) /\ \A i \in 1 .. d : i \in 1 .. Depth /\ frames'[i] = frames[i]
  BY CutFacts
<1>2. ASSUME NEW i \in 1 .. d
      PROVE  /\ frames'[i].meta \in 1 .. Len(metas') /\ frames'[i].kind = metas'[frames'[i].meta].kind
             /\ frames'[i].old \in 1 .. Len(metas')
  <2>1. /\ frames[i].meta \in 1 .. Len(metas) /\ frames[i].kind = metas[frames[i].meta].kind
        /\ frames[i].old \in 1 .. Len(metas)
    BY <1>1 DEF TypeOK
  <2>2. frames'[i] = frames[i] BY <1>1
  <2>3. Len(metas') = Len(metas) /\ metas'[frames[i].meta].kind = metas[frames[i].meta].kind BY <2>1 DEF SameLists
  <2> QED BY <2>1, <2>2, <2>3
<1> QED BY <1>1, <1>2 DEF FramesOK

-----------------------------------------------------------------------------
\* current_expand.

LEMMA ExpandSame ==
  ASSUME ExpandInv, frames' = frames, expand' = expand, step' = "header" => step = "header"
  PROVE  ExpandInv'
BY DEF ExpandInv, Depth

LEMMA ExpandPush ==
  ASSUME TypeOK, ExpandInv, NEW kind \in Branches \cup Blocks, kind # "each", Push(kind), expand' = expand,
         step' # "header"
  PROVE  ExpandInv'
<1>0. Depth \in Nat BY DEF TypeOK, Depth
<1>1. /\ Depth \in Nat /\ Depth' = Depth + 1 /\ \A i \in 1 .. Depth : frames'[i] = frames[i]
      /\ frames'[Depth + 1].kind = kind
  BY <1>0, PushFacts
<1>2. ASSUME expand' # 0
      PROVE  \E i \in 1 .. Depth' : /\ frames'[i].kind = "each" /\ frames'[i].meta = expand'
                                    /\ \A k \in i + 1 .. Depth' : frames'[k].kind # "each"
  <2>1. PICK i \in 1 .. Depth : /\ frames[i].kind = "each" /\ frames[i].meta = expand
                                /\ \A k \in i + 1 .. Depth : frames[k].kind # "each"
    BY <1>2 DEF ExpandInv
  <2>2. ASSUME NEW k \in i + 1 .. Depth + 1 PROVE frames'[k].kind # "each"
    <3>1. CASE k = Depth + 1 BY <3>1, <1>1
    <3>2. CASE k # Depth + 1
      <4>1. k \in i + 1 .. Depth /\ k \in 1 .. Depth BY <3>2, <1>1, <2>1
      <4> QED BY <4>1, <2>1, <1>1
    <3> QED BY <3>1, <3>2
  <2>3. i \in 1 .. Depth' BY <1>1
  <2> QED BY <2>1, <2>2, <2>3, <1>1
<1> QED BY <1>2 DEF ExpandInv

LEMMA ExpandEach ==
  ASSUME TypeOK, Push("each"), expand' = New
  PROVE  ExpandInv'
<1>1. "each" \in Branches \cup Blocks BY DEF Blocks
<1>2. /\ Depth' = Depth + 1 /\ frames'[Depth + 1].kind = "each" /\ frames'[Depth + 1].meta = New
      /\ New = Len(metas) + 1
  BY <1>1, PushFacts
<1>3. Depth \in Nat /\ Len(metas) \in Nat BY DEF TypeOK, Depth
<1>4. Depth' \in 1 .. Depth' /\ \A k \in Depth' + 1 .. Depth' : FALSE BY <1>2, <1>3
<1> QED BY <1>2, <1>3, <1>4 DEF ExpandInv

LEMMA ExpandCut ==
  ASSUME TypeOK, ExpandInv, NEW d \in 0 .. Depth, frames' = SubSeq(frames, 1, d),
         \A k \in d + 1 .. Depth : frames[k].kind # "each", expand' = expand, step' # "header"
  PROVE  ExpandInv'
<1>1. Depth \in Nat /\ Depth' = d /\ \A i \in 1 .. d : i \in 1 .. Depth /\ frames'[i] = frames[i]
  BY CutFacts DEF TypeOK, Depth
<1>2. ASSUME expand' # 0
      PROVE  \E i \in 1 .. Depth' : /\ frames'[i].kind = "each" /\ frames'[i].meta = expand'
                                    /\ \A k \in i + 1 .. Depth' : frames'[k].kind # "each"
  <2>1. PICK i \in 1 .. Depth : /\ frames[i].kind = "each" /\ frames[i].meta = expand
                                /\ \A k \in i + 1 .. Depth : frames[k].kind # "each"
    BY <1>2 DEF ExpandInv
  <2>2. i \in 1 .. d BY <2>1, <1>1
  <2>3. \A k \in i + 1 .. d : k \in i + 1 .. Depth /\ k \in 1 .. d BY <2>2, <1>1
  <2> QED BY <2>1, <2>2, <2>3, <1>1
<1> QED BY <1>2 DEF ExpandInv

-----------------------------------------------------------------------------
\* The part of the invariant that says where the preprocessor is.

CoreInv == TypeOK /\ FileInv /\ StackInv /\ ParentInv /\ ExpandInv

LEMMA FromParts == ASSUME MetasOK', FramesOK', CursorOK' PROVE TypeOK'
BY DEF TypeOK, MetasOK, FramesOK, CursorOK

\* An instruction that was matched.
LEMMA AfterFacts ==
  ASSUME CoreInv, NEW pattern \in Seq(Symbols \ {"eof"}), pattern # <<>>, Check(pattern)
  PROVE  After(pattern) \in 1 .. Last /\ After(pattern) >= cur
<1>1. cur \in 1 .. Last BY DEF CoreInv, TypeOK
<1>2. FileInv /\ Last \in Nat BY FileFacts DEF CoreInv
<1>3. After(pattern) \in cur + 1 .. Last BY <1>1, <1>2, CheckFacts
<1> QED BY <1>1, <1>2, <1>3

LEMMA Marks ==
  /\ IfMark \in Seq(Symbols \ {"eof"}) /\ ElifMark \in Seq(Symbols \ {"eof"})
  /\ ElseMark \in Seq(Symbols \ {"eof"}) /\ EndIfMark \in Seq(Symbols \ {"eof"})
  /\ ScopeMark \in Seq(Symbols \ {"eof"}) /\ NamedScopeMark \in Seq(Symbols \ {"eof"})
  /\ EndScopeMark \in Seq(Symbols \ {"eof"}) /\ ExpandMark \in Seq(Symbols \ {"eof"})
  /\ ForMark \in Seq(Symbols \ {"eof"}) /\ EachMark \in Seq(Symbols \ {"eof"})
  /\ EndEachMark \in Seq(Symbols \ {"eof"}) /\ EndMark \in Seq(Symbols \ {"eof"})
  /\ IfMark # <<>> /\ ElifMark # <<>> /\ ElseMark # <<>> /\ EndIfMark # <<>> /\ ScopeMark # <<>>
  /\ NamedScopeMark # <<>> /\ EndScopeMark # <<>> /\ ExpandMark # <<>> /\ ForMark # <<>>
  /\ EachMark # <<>> /\ EndEachMark # <<>> /\ EndMark # <<>>
BY DEF IfMark, ElifMark, ElseMark, EndIfMark, ScopeMark, NamedScopeMark, EndScopeMark, ExpandMark, ForMark,
       EachMark, EndEachMark, EndMark, Symbols, Words

\* A step that neither calls nor returns.
LEMMA CoreSame ==
  ASSUME CoreInv, file' = file, MetasOK', KindsKept, CursorOK', frames' = frames, parent' = parent,
         expand' = expand, step' = "header" => step = "header"
  PROVE  CoreInv'
<1>1. FramesOK' BY FramesSame DEF CoreInv, MetasOK
<1>2. TypeOK' BY <1>1, FromParts
<1>3. StackInv' /\ ParentInv' BY KeepShape DEF CoreInv, KindsKept
<1>4. ExpandInv' BY ExpandSame DEF CoreInv
<1> QED BY <1>2, <1>3, <1>4 DEF CoreInv, FileInv

\* A step that calls a function.
LEMMA CorePush ==
  ASSUME CoreInv, file' = file, NEW kind \in Branches \cup Blocks, Push(kind),
         kind \in {"elif", "else"} => In({"if", "elif"}),
         cur' \in 1 .. Last, step' \in {"loop", "any", "header"}, errors' \subseteq Codes,
         tokens' = tokens, status' = status,
         \/ kind # "each" /\ expand' = expand /\ step' # "header"
         \/ kind = "each" /\ expand' = New
  PROVE  CoreInv' /\ Grows(kind) /\ metas'[Len(metas) + 1].ended = FALSE
<1>1. TypeOK /\ StackInv /\ ParentInv /\ ExpandInv /\ FileInv BY DEF CoreInv
<1>2. /\ FramesOK' /\ Grows(kind) /\ KindsKept /\ metas'[Len(metas) + 1].ended = FALSE
      /\ parent' \in 1 .. Len(metas')
  BY <1>1, FramesPush
<1>3. MetasOK' BY <1>1, <1>2, MetasGrow, TypeParts
<1>4. expand' \in 0 .. Len(metas')
  <2>1. Len(metas) \in Nat /\ expand \in 0 .. Len(metas) BY <1>1 DEF TypeOK
  <2>2. Len(metas') = Len(metas) + 1 BY <1>2 DEF Grows
  <2> QED BY <2>1, <2>2 DEF New
<1>5. CursorOK' BY <1>1, <1>2, <1>4, TypeParts DEF CursorOK, Last
<1>6. TypeOK' BY <1>2, <1>3, <1>5, FromParts
<1>7. StackInv' /\ ParentInv' BY <1>1, PushShape
<1>8. ExpandInv' BY <1>1, ExpandPush, ExpandEach
<1> QED BY <1>1, <1>2, <1>6, <1>7, <1>8 DEF CoreInv, FileInv

\* A step that returns from a function.
LEMMA CorePop ==
  ASSUME CoreInv, file' = file, frames # <<>>, Pop, SameLists,
         \A m \in 1 .. Len(metas) : metas'[m].next = metas[m].next,
         cur' \in 1 .. Last, step' \in {"loop", "any"}, errors' \subseteq Codes,
         tokens' = tokens, status' = status,
         \/ Top.kind # "each" /\ expand' = expand
         \/ expand' = 0
  PROVE  CoreInv'
<1>1. TypeOK /\ StackInv /\ ParentInv /\ ExpandInv /\ FileInv BY DEF CoreInv
<1>2. KindsKept BY <1>1 DEF SameLists, KindsKept, TypeOK
<1>3. /\ Depth \in Nat \ {0} /\ Depth - 1 \in 0 .. Depth /\ frames' = SubSeq(frames, 1, Depth - 1)
      /\ parent' \in 1 .. Len(metas)
  BY <1>1, PopFacts DEF Pop
<1>4. FramesOK' BY <1>1, <1>3, FramesCut
<1>5. MetasOK'
  <2>1. \A m \in 1 .. Len(metas) : metas'[m].next <= Len(metas) BY <1>1 DEF TypeOK
  <2> QED BY <1>1, <2>1, MetasSame, TypeParts
<1>6. expand' \in 0 .. Len(metas') /\ parent' \in 1 .. Len(metas') BY <1>1, <1>3 DEF SameLists, TypeOK
<1>7. CursorOK' BY <1>1, <1>6, TypeParts DEF CursorOK, Last
<1>8. TypeOK' BY <1>4, <1>5, <1>7, FromParts
<1>9. StackInv' /\ ParentInv' BY <1>1, PopShape DEF SameLists
<1>10. ExpandInv'
  <2>1. CASE Top.kind # "each" /\ expand' = expand
    <3>1. \A k \in Depth - 1 + 1 .. Depth : k = Depth BY <1>3
    <3>2. \A k \in Depth - 1 + 1 .. Depth : frames[k].kind # "each" BY <2>1, <3>1 DEF Top
    <3> QED BY <1>1, <1>3, <2>1, <3>2, ExpandCut
  <2>2. CASE expand' = 0 BY <2>2 DEF ExpandInv
  <2> QED BY <2>1, <2>2
<1> QED BY <1>1, <1>8, <1>9, <1>10 DEF CoreInv, FileInv

\* The cursor behind a condition, and the token of an instruction that was matched.
LEMMA BranchCursor ==
  ASSUME FileInv, NEW c \in 1 .. Last
  PROVE  LET q == Past(c + 1) IN (IF file[q] = "$" THEN q + 1 ELSE q) \in c .. Last
<1> DEFINE q == Past(c + 1)
<1>1. Last \in Nat \ {0} /\ file[Last] # "$" BY FileFacts
<1>2. q \in c .. Last BY <1>1 DEF Past
<1>3. file[q] = "$" => q < Last BY <1>1, <1>2
<1> HIDE DEF q
<1>4. (IF file[q] = "$" THEN q + 1 ELSE q) \in c .. Last BY <1>1, <1>2, <1>3
<1> QED BY <1>4 DEF q

LEMMA CodesFacts ==
  ASSUME CoreInv, NEW p
  PROVE  errors \subseteq Codes /\ errors \cup Complaint(p) \subseteq Codes /\ {135, 137, 138, 142, 143, 144} \subseteq Codes
BY DEF CoreInv, TypeOK, Codes, Complaint

LEMMA StartBranchCore ==
  ASSUME CoreInv, Loop, NEW kind \in Branches, NEW c \in 1 .. Last, StartBranch(kind, c),
         kind \in {"elif", "else"} => In({"if", "elif"})
  PROVE  CoreInv' /\ Grows(kind) /\ metas'[Len(metas) + 1].ended = FALSE /\ cur' \in c .. Last
<1>1. Push(kind) /\ step' = "loop" /\ errors' = errors \cup Complaint(c) /\ expand' = expand /\ status' = status
  BY DEF StartBranch, Stays
<1>2. file' = file /\ tokens' = tokens BY DEF Loop, Running
<1>3. cur' \in c .. Last BY BranchCursor DEF StartBranch, CoreInv
<1>4. cur' \in 1 .. Last BY <1>3, FileFacts DEF CoreInv
<1>5. kind \in Branches \cup Blocks /\ kind # "each" BY DEF Branches
<1>6. errors' \subseteq Codes BY <1>1, CodesFacts
<1> QED BY <1>1, <1>2, <1>3, <1>4, <1>5, <1>6, CorePush

LEMMA IfCore == ASSUME CoreInv, If PROVE CoreInv'
<1>1. After(IfMark) \in 1 .. Last BY AfterFacts, Marks DEF If
<1>2. "if" \in Branches BY DEF Branches
<1> QED BY <1>1, <1>2, StartBranchCore DEF If, Any

LEMMA ElifCore == ASSUME CoreInv, Elif PROVE CoreInv'
<1>1. After(ElifMark) \in 1 .. Last BY AfterFacts, Marks DEF Elif
<1>2. "elif" \in Branches BY DEF Branches
<1> QED BY <1>1, <1>2, StartBranchCore DEF Elif

LEMMA ElseCore == ASSUME CoreInv, Else PROVE CoreInv' /\ Grows("else") /\ metas'[Len(metas) + 1].ended = FALSE
<1>1. After(ElseMark) \in 1 .. Last BY AfterFacts, Marks DEF Else
<1>2. "else" \in Branches \cup Blocks BY DEF Branches
<1>3. /\ Push("else") /\ In({"if", "elif"}) /\ cur' = After(ElseMark) /\ expand' = expand /\ step' = step
      /\ step = "loop" /\ errors' = errors /\ status' = status /\ file' = file /\ tokens' = tokens
  BY DEF Else, Loop, Running, Stays
<1>4. errors' \subseteq Codes BY <1>3, CodesFacts
<1> QED BY <1>1, <1>2, <1>3, <1>4, CorePush

LEMMA ExpandCore == ASSUME CoreInv, Expand PROVE CoreInv' /\ Grows("each") /\ metas'[Len(metas) + 1].ended = FALSE
<1>1. After(ExpandMark) \in 1 .. Last BY AfterFacts, Marks DEF Expand
<1>2. "each" \in Branches \cup Blocks BY DEF Blocks
<1>3. file' = file /\ tokens' = tokens BY DEF Expand, Rest, Any, Loop, Running
<1>4. /\ Push("each") /\ cur' = After(ExpandMark) /\ expand' = New /\ step' = "header"
      /\ errors' = errors /\ status' = status
  BY DEF Expand, Stays
<1>5. errors' \subseteq Codes BY <1>4, CodesFacts
<1> QED BY <1>1, <1>2, <1>3, <1>4, <1>5, CorePush

LEMMA ScopeCore == ASSUME CoreInv, Scope PROVE CoreInv' /\ Grows("scope") /\ metas'[Len(metas) + 1].ended = FALSE
<1>1. cur' \in 1 .. Last BY AfterFacts, Marks DEF Scope
<1>2. "scope" \in Branches \cup Blocks BY DEF Blocks
<1>3. file' = file /\ tokens' = tokens BY DEF Scope, Rest, Any, Loop, Running
<1>4. /\ Push("scope") /\ expand' = expand /\ step' = "loop" /\ errors' = errors /\ status' = status
  BY DEF Scope, Stays
<1>5. errors' \subseteq Codes BY <1>4, CodesFacts
<1> QED BY <1>1, <1>2, <1>3, <1>4, <1>5, CorePush

\* The functions that end with their end.
LEMMA TopFacts ==
  ASSUME CoreInv, frames # <<>>
  PROVE  /\ Depth \in 1 .. Depth /\ Top = frames[Depth] /\ Top.meta \in 1 .. Len(metas) /\ Top.meta > 1
         /\ Top.kind = metas[Top.meta].kind /\ Top.kind \in Branches \cup Blocks
<1>1. Depth \in Nat \ {0} /\ frames[Depth] \in FrameType BY DEF CoreInv, TypeOK, Depth
<1>2. frames[Depth].kind \in Branches \cup Blocks BY <1>1 DEF FrameType
<1> QED BY <1>1, <1>2 DEF CoreInv, TypeOK, StackInv, Top

\* The innermost expansion that runs is the current one.
LEMMA TopEach ==
  ASSUME CoreInv, expand # 0, In({"each"})
  PROVE  Top.meta = expand
<1>1. frames # <<>> /\ Top.kind = "each" BY DEF In
<1>2. PICK i \in 1 .. Depth : frames[i].meta = expand /\ \A k \in i + 1 .. Depth : frames[k].kind # "each"
  BY DEF CoreInv, ExpandInv
<1>3. Depth \in 1 .. Depth /\ Top = frames[Depth] BY <1>1, TopFacts
<1>4. Depth \notin i + 1 .. Depth BY <1>1, <1>2, <1>3
<1>5. i = Depth BY <1>3, <1>4
<1> QED BY <1>2, <1>3, <1>5

LEMMA EndScopeCore == ASSUME CoreInv, EndScope PROVE CoreInv'
<1>1. /\ In({"scope"}) /\ Check(EndScopeMark) /\ Pop /\ cur' = After(EndScopeMark) /\ step' = "loop" /\ errors' = errors
      /\ status' = status /\ file' = file /\ tokens' = tokens /\ expand' = expand
      /\ metas' = [metas EXCEPT ![Top.meta].ended = TRUE]
  BY DEF EndScope, EndBlock, Loop, Running, Stays
<1>2. frames # <<>> /\ Top.kind = "scope" BY <1>1 DEF In
<1>3. cur' \in 1 .. Last BY <1>1, AfterFacts, Marks
<1> DEFINE x == Top.meta
<1>4. x \in 1 .. Len(metas) BY <1>2, TopFacts
<1>5. metas' = [metas EXCEPT ![x].ended = TRUE] BY <1>1
<1> HIDE DEF x
<1>6. SameLists /\ \A m \in 1 .. Len(metas) : metas'[m].next = metas[m].next
  BY <1>4, <1>5, EndFacts DEF CoreInv
<1>7. errors' \subseteq Codes BY <1>1, CodesFacts
<1> QED BY <1>1, <1>2, <1>3, <1>6, <1>7, CorePop

LEMMA EndEachCore == ASSUME CoreInv, EndEach PROVE CoreInv'
<1>1. /\ In({"each"}) /\ Check(EndEachMark) /\ Pop /\ cur' = After(EndEachMark) /\ step' = "loop" /\ errors' = errors
      /\ status' = status /\ file' = file /\ tokens' = tokens /\ expand' = 0 /\ expand # 0
      /\ metas' = [metas EXCEPT ![expand].ended = TRUE]
  BY DEF EndEach, EndBlock, Loop, Running, Stays
<1>2. frames # <<>> BY <1>1 DEF In
<1>3. cur' \in 1 .. Last BY <1>1, AfterFacts, Marks
<1>4. expand \in 1 .. Len(metas) BY <1>1 DEF CoreInv, TypeOK
<1>5. SameLists /\ \A m \in 1 .. Len(metas) : metas'[m].next = metas[m].next
  BY <1>1, <1>4, EndFacts DEF CoreInv
<1>6. errors' \subseteq Codes BY <1>1, CodesFacts
<1> QED BY <1>1, <1>2, <1>3, <1>5, <1>6, CorePop

LEMMA UnclosedCore == ASSUME CoreInv, Unclosed PROVE CoreInv'
<1>1. /\ frames # <<>> /\ Pop /\ errors' = errors \cup {Missing(Top.kind)}
      /\ expand' = (IF Top.kind = "each" THEN 0 ELSE expand)
      /\ step' = (IF Top.kind \in Branches THEN "any" ELSE "loop")
      /\ cur' = cur /\ metas' = metas /\ status' = status /\ file' = file /\ tokens' = tokens
  BY DEF Unclosed, Running, Stays
<1>2. SameLists /\ \A m \in 1 .. Len(metas) : metas'[m].next = metas[m].next
  BY <1>1 DEF SameLists, CoreInv, TypeOK
<1>3. cur' \in 1 .. Last BY <1>1 DEF CoreInv, TypeOK
<1>4. errors' \subseteq Codes
  <2>1. Top.kind \in Branches \cup Blocks BY <1>1, TopFacts
  <2>2. Missing(Top.kind) \in Codes BY <2>1 DEF Missing, Codes, Branches, Blocks
  <2> QED BY <2>2, <1>1, CodesFacts
<1>5. (Top.kind # "each" /\ expand' = expand) \/ expand' = 0 BY <1>1
<1>6. step' \in {"loop", "any"} BY <1>1
<1> QED BY <1>1, <1>2, <1>3, <1>4, <1>5, <1>6, CorePop

LEMMA EndIfCore == ASSUME CoreInv, EndIf PROVE CoreInv'
<1>1. TypeOK /\ StackInv /\ ParentInv /\ ExpandInv /\ FileInv BY DEF CoreInv
<1>2. /\ In(Branches) /\ Check(EndIfMark) /\ frames' = SubSeq(frames, 1, ChainStart - 1)
      /\ cur' = After(EndIfMark) /\ step' = "any" /\ parent' = parent /\ expand' = expand /\ errors' = errors
      /\ status' = status /\ file' = file /\ tokens' = tokens
  BY DEF EndIf, Loop, Running, Stays
<1>3. SameLists /\ \A m \in 1 .. Len(metas) : metas'[m].next \in 0 .. Len(metas) BY <1>1, EndIfFacts
<1>4. /\ Depth \in Nat \ {0} /\ ChainStart \in 1 .. Depth /\ frames[ChainStart].kind = "if"
      /\ \A k \in ChainStart + 1 .. Depth : frames[k].kind \in {"elif", "else"}
  BY <1>1, <1>2, ChainFacts
<1>5. ChainStart - 1 \in 0 .. Depth BY <1>4
<1>6. FramesOK' BY <1>1, <1>2, <1>3, <1>5, FramesCut
<1>7. MetasOK'
  <2>1. Len(metas) \in Nat BY <1>1 DEF TypeOK
  <2>2. \A m \in 1 .. Len(metas) : metas'[m].next <= Len(metas) BY <1>3, <2>1
  <2> QED BY <1>1, <1>2, <1>3, <2>2, MetasSame, TypeParts
<1>8. cur' \in 1 .. Last BY <1>2, AfterFacts, Marks
<1>9. CursorOK' BY <1>1, <1>2, <1>3, <1>8, TypeParts DEF CursorOK, Last, SameLists
<1>10. TypeOK' BY <1>6, <1>7, <1>9, FromParts
<1>11. StackInv' /\ ParentInv' BY <1>1, <1>2, <1>3, EndIfShape DEF SameLists
<1>12. ExpandInv'
  <2>1. \A k \in ChainStart - 1 + 1 .. Depth : k = ChainStart \/ k \in ChainStart + 1 .. Depth BY <1>4
  <2>2. \A k \in ChainStart - 1 + 1 .. Depth : frames[k].kind # "each" BY <2>1, <1>4
  <2> QED BY <1>1, <1>2, <1>5, <2>2, ExpandCut
<1> QED BY <1>1, <1>2, <1>10, <1>11, <1>12 DEF CoreInv, FileInv

\* The steps within a function.
LEMMA StillCore ==
  ASSUME CoreInv, metas' = metas
  PROVE  MetasOK /\ KindsKept /\ (file' = file => MetasOK')
<1>1. MetasOK BY TypeParts DEF CoreInv
<1>2. KindsKept BY DEF CoreInv, TypeOK, KindsKept
<1> QED BY <1>1, <1>2 DEF MetasOK, Flag, Last

LEMMA StrayBranchCore == ASSUME CoreInv, StrayBranch PROVE CoreInv'
<1>1. /\ metas' = metas /\ frames' = frames /\ parent' = parent /\ expand' = expand /\ cur' = cur
      /\ step' = "any" /\ file' = file /\ tokens' = tokens /\ status' = status
      /\ (errors' = errors \cup {137} \/ errors' = errors \cup {138})
  BY DEF StrayBranch, Any, Loop, Running, Stays
<1>2. errors' \subseteq Codes BY <1>1, CodesFacts
<1>3. CursorOK' BY <1>1, <1>2, TypeParts DEF CoreInv, CursorOK, Last
<1> QED BY <1>1, <1>3, StillCore, CoreSame

LEMMA EndHeaderCore == ASSUME CoreInv, EndHeader PROVE CoreInv'
<1>1. /\ metas' = metas /\ frames' = frames /\ parent' = parent /\ expand' = expand
      /\ step' = "loop" /\ file' = file /\ tokens' = tokens /\ status' = status
      /\ cur' = cur \/ (Check(EachMark) /\ cur' = After(EachMark))
      /\ \/ errors' = errors \/ errors' = errors \cup {142} \/ errors' = errors \cup {143}
         \/ errors' = errors \cup {144}
  BY DEF EndHeader, Header, Running, Stays
<1>2. errors' \subseteq Codes BY <1>1, CodesFacts
<1>3. cur' \in 1 .. Last BY <1>1, AfterFacts, Marks DEF CoreInv, TypeOK
<1>4. CursorOK' BY <1>1, <1>2, <1>3, TypeParts DEF CoreInv, CursorOK, Last
<1> QED BY <1>1, <1>4, StillCore, CoreSame

LEMMA ForCore ==
  ASSUME CoreInv, For
  PROVE  /\ CoreInv' /\ SameLists
         /\ \A m \in 1 .. Len(metas) : metas'[m].next = metas[m].next /\ metas'[m].ended = metas[m].ended
<1>1. /\ metas' = [metas EXCEPT ![expand].named = TRUE] /\ cur' = AfterEnd(Ends(After(ForMark)))
      /\ frames' = frames /\ parent' = parent /\ expand' = expand /\ errors' = errors
      /\ step' = step /\ step = "header" /\ file' = file /\ tokens' = tokens /\ status' = status /\ Check(ForMark)
  BY DEF For, Header, Running, Stays
<1>2. expand \in 1 .. Len(metas) BY <1>1 DEF CoreInv, ExpandInv, TypeOK
<1>3. SameLists /\ \A m \in 1 .. Len(metas) : metas'[m].next = metas[m].next /\ metas'[m].ended = metas[m].ended
  BY <1>1, <1>2, NameFacts DEF CoreInv
<1>4. cur' \in 1 .. Last
  <2>1. After(ForMark) \in 1 .. Last BY <1>1, AfterFacts, Marks
  <2> DEFINE b == After(ForMark)
  <2>2. b \in 1 .. Last /\ Ends(b) \in SUBSET Ends(b) BY <2>1
  <2>3. AfterEnd(Ends(b)) \in b .. Last BY <2>2, AfterEndFacts DEF CoreInv
  <2> QED BY <1>1, <2>2, <2>3
<1>5. MetasOK'
  <2>1. \A m \in 1 .. Len(metas) : metas'[m].next <= Len(metas) BY <1>3 DEF CoreInv, TypeOK
  <2> QED BY <1>1, <1>3, <2>1, MetasSame, TypeParts DEF CoreInv
<1>6. KindsKept BY <1>3 DEF SameLists, KindsKept, CoreInv, TypeOK
<1>7. CursorOK' BY <1>1, <1>3, <1>4, TypeParts DEF CoreInv, CursorOK, Last, SameLists
<1> QED BY <1>1, <1>3, <1>5, <1>6, <1>7, CoreSame

LEMMA InlineCore == ASSUME CoreInv, Inline PROVE CoreInv' /\ Grows("inline") /\ metas'[Len(metas) + 1].ended = TRUE
<1>1. /\ metas' = Append(metas, Meta("inline")) /\ cur' = AfterEnd(RowEnds(cur)) /\ step' = "loop"
      /\ frames' = frames /\ parent' = parent /\ expand' = expand /\ errors' = errors
      /\ file' = file /\ tokens' = tokens /\ status' = status
  BY DEF Inline, Rest, Any, Loop, Running, Stays
<1>2. Grows("inline") /\ metas'[Len(metas) + 1].ended = ("inline" = "inline") BY <1>1, GrowFacts DEF CoreInv
<1>3. cur \in 1 .. Last BY DEF CoreInv, TypeOK
<1>4. cur' \in 1 .. Last
  <2>1. RowEnds(cur) \in SUBSET Ends(cur) BY DEF RowEnds
  <2>2. AfterEnd(RowEnds(cur)) \in cur .. Last BY <1>3, <2>1, AfterEndFacts DEF CoreInv
  <2> QED BY <1>1, <1>3, <2>2
<1>5. MetasOK' BY <1>1, <1>2, MetasGrow, TypeParts DEF CoreInv
<1>6. Len(metas) \in Nat /\ Len(metas') = Len(metas) + 1 BY <1>2 DEF CoreInv, TypeOK, Grows
<1>7. KindsKept BY <1>2, <1>6 DEF Grows, KindsKept
<1>8. CursorOK'
  <2>1. parent' \in 1 .. Len(metas') /\ expand' \in 0 .. Len(metas') BY <1>1, <1>6 DEF CoreInv, TypeOK
  <2> QED BY <1>1, <1>4, <2>1, TypeParts DEF CoreInv, CursorOK, Last
<1>9. CoreInv' BY <1>1, <1>5, <1>7, <1>8, CoreSame
<1> QED BY <1>2, <1>9

LEMMA AddTokenCore ==
  ASSUME CoreInv, file' = file, tokens' = tokens, NEW p \in 1 .. Last, AddToken(p), errors' \subseteq Codes
  PROVE  CoreInv'
<1>1. /\ metas' = [metas EXCEPT ![parent].list = Append(@, Entry(p))] /\ cur' = Past(p + 1) /\ step' = "loop"
      /\ parent' = parent /\ expand' = expand /\ frames' = frames /\ status' = status
  BY DEF AddToken, Stays
<1>2. MetasOK' BY <1>1, MetasAdd DEF CoreInv
<1> DEFINE e == Entry(p)
<1>3. e \in Nat BY EntryFacts DEF CoreInv
<1>4. parent \in 1 .. Len(metas) /\ metas' = [metas EXCEPT ![parent].list = Append(@, e)] BY <1>1 DEF CoreInv, TypeOK
<1> HIDE DEF e
<1>5. Len(metas') = Len(metas) /\ \A m \in 1 .. Len(metas) : metas'[m].kind = metas[m].kind
  BY <1>3, <1>4, AddFacts DEF CoreInv
<1>6. KindsKept BY <1>5 DEF KindsKept, CoreInv, TypeOK
<1>7. cur' \in 1 .. Last
  <2>1. Last \in Nat \ {0} BY FileFacts DEF CoreInv
  <2> QED BY <1>1, <2>1 DEF Past
<1>8. CursorOK' BY <1>1, <1>5, <1>7, TypeParts DEF CoreInv, CursorOK, Last
<1> QED BY <1>1, <1>2, <1>6, <1>8, CoreSame

LEMMA TokenCore == ASSUME CoreInv, Token PROVE CoreInv'
<1>1. cur \in 1 .. Last BY DEF CoreInv, TypeOK
<1>2. file' = file /\ tokens' = tokens /\ AddToken(cur) /\ errors' = errors \cup Complaint(cur)
  BY DEF Token, Rest, Any, Loop, Running
<1> QED BY <1>1, <1>2, AddTokenCore, CodesFacts

LEMMA StrayEndCore == ASSUME CoreInv, StrayEnd PROVE CoreInv'
<1>1. /\ file' = file /\ tokens' = tokens /\ AddToken(After(EndMark)) /\ Check(EndMark)
      /\ errors' = errors \cup {135} \cup Complaint(After(EndMark))
  BY DEF StrayEnd, Rest, Any, Loop, Running
<1>2. After(EndMark) \in 1 .. Last BY <1>1, AfterFacts, Marks
<1>3. errors' \subseteq Codes BY <1>1, CodesFacts
<1> QED BY <1>1, <1>2, <1>3, AddTokenCore

LEMMA CrashCore == ASSUME CoreInv, Crash PROVE CoreInv'
<1>1. /\ metas' = metas /\ frames' = frames /\ parent' = parent /\ expand' = expand /\ cur' = cur /\ errors' = errors
      /\ step' = step /\ file' = file /\ tokens' = tokens /\ status' = "crash"
  BY DEF Crash, Rest, Any, Loop, Running
<1>2. CursorOK' BY <1>1, TypeParts DEF CoreInv, CursorOK, Last
<1> QED BY <1>1, <1>2, StillCore, CoreSame

LEMMA ElementTypes ==
  ASSUME NEW T, NEW S, NEW l \in Seq(T), \A i \in 1 .. Len(l) : l[i] \in S
  PROVE  l \in Seq(S)
OBVIOUS

LEMMA GenerateCore == ASSUME CoreInv, Generate PROVE CoreInv'
<1>1. /\ metas' = metas /\ frames' = frames /\ parent' = parent /\ expand' = expand /\ cur' = cur /\ errors' = errors
      /\ step' = step /\ file' = file
  BY DEF Generate
<1>2. tokens' \in Seq(1 .. Last) /\ status' \in {"generated", "crash"}
  <2> DEFINE list == metas[1].list
  <2>1. 1 \in 1 .. Len(metas) BY DEF CoreInv, TypeOK
  <2>2. list \in Seq(Nat) BY <2>1, MetaFields DEF CoreInv, TypeOK
  <2>3. CASE \A i \in 1 .. Len(list) : list[i] \in 1 .. Last
    <3>1. status' = "generated" /\ tokens' = list BY <2>3 DEF Generate
    <3>2. list \in Seq(1 .. Last) BY <2>2, <2>3, ElementTypes
    <3> QED BY <3>1, <3>2
  <2>4. CASE ~ \A i \in 1 .. Len(list) : list[i] \in 1 .. Last
    <3>1. status' = "crash" /\ tokens' = tokens BY <2>4 DEF Generate
    <3> QED BY <3>1 DEF CoreInv, TypeOK
  <2> QED BY <2>3, <2>4
<1>3. CursorOK' BY <1>1, <1>2, TypeParts DEF CoreInv, CursorOK, Last
<1> QED BY <1>1, <1>3, StillCore, CoreSame

LEMMA IdleCore == ASSUME CoreInv, UNCHANGED vars PROVE CoreInv'
<1>1. CursorOK' BY TypeParts DEF vars, CoreInv, CursorOK, Last
<1> QED BY <1>1, StillCore, CoreSame DEF vars

LEMMA InitCore == Init => CoreInv
<1> SUFFICES ASSUME Init PROVE CoreInv OBVIOUS
<1>1. FileInv BY DEF Init, FileInv
<1> DEFINE root == [kind |-> "root", ended |-> FALSE, next |-> 0, named |-> FALSE, list |-> <<>>]
<1>2. root \in MetaType /\ root.kind = "root" /\ root.next = 0 /\ root.list = <<>> BY DEF MetaType
<1>3. metas = <<root>> BY DEF Init
<1> HIDE DEF root
<1>4. metas \in Seq(MetaType) /\ Len(metas) = 1 /\ metas[1] = root BY <1>2, <1>3
<1>5. frames = <<>> /\ Depth = 0 /\ 1 .. Depth = {} BY DEF Init, Depth
<1>6. cur \in 1 .. Last BY <1>1, FileFacts DEF Init
<1>7. /\ parent = 1 /\ expand = 0 /\ step = "loop" /\ errors = {} /\ tokens = <<>> /\ status = "preprocessing"
  BY DEF Init
<1>8. \A m \in 1 .. Len(metas) : m = 1 BY <1>4
<1>9. \A m \in 1 .. Len(metas) : /\ metas[m].next <= Len(metas)
                                 /\ \A i \in 1 .. Len(metas[m].list) : metas[m].list[i] <= Flag
  BY <1>2, <1>4, <1>8
<1>10. parent \in 1 .. Len(metas) /\ expand \in 0 .. Len(metas) BY <1>4, <1>7
<1>11. TypeOK BY <1>4, <1>5, <1>6, <1>7, <1>9, <1>10 DEF TypeOK
<1>12. StackInv BY <1>5 DEF StackInv
<1>13. ParentInv BY <1>2, <1>4, <1>5, <1>7 DEF ParentInv, Blocks
<1>14. ExpandInv BY <1>7 DEF ExpandInv
<1> QED BY <1>1, <1>11, <1>12, <1>13, <1>14 DEF CoreInv

LEMMA NextCore == CoreInv /\ [Next]_vars => CoreInv'
<1> SUFFICES ASSUME CoreInv, [Next]_vars PROVE CoreInv' OBVIOUS
<1>1. CASE If BY <1>1, IfCore
<1>2. CASE Elif BY <1>2, ElifCore
<1>3. CASE Else BY <1>3, ElseCore
<1>4. CASE EndIf BY <1>4, EndIfCore
<1>5. CASE StrayBranch BY <1>5, StrayBranchCore
<1>6. CASE Expand BY <1>6, ExpandCore
<1>7. CASE For BY <1>7, ForCore
<1>8. CASE EndHeader BY <1>8, EndHeaderCore
<1>9. CASE EndEach BY <1>9, EndEachCore
<1>10. CASE Scope BY <1>10, ScopeCore
<1>11. CASE EndScope BY <1>11, EndScopeCore
<1>12. CASE Inline BY <1>12, InlineCore
<1>13. CASE StrayEnd BY <1>13, StrayEndCore
<1>14. CASE Token BY <1>14, TokenCore
<1>15. CASE Unclosed BY <1>15, UnclosedCore
<1>16. CASE Crash BY <1>16, CrashCore
<1>17. CASE Generate BY <1>17, GenerateCore
<1>18. CASE Done \/ UNCHANGED vars BY <1>18, IdleCore DEF Done
<1> QED BY <1>1, <1>2, <1>3, <1>4, <1>5, <1>6, <1>7, <1>8, <1>9, <1>10, <1>11, <1>12, <1>13, <1>14, <1>15,
           <1>16, <1>17, <1>18 DEF Next

\* The state of the preprocessor has its type: the cursor stays in the file, and
\* every running function has a metacode of its own.
THEOREM TypeCorrect == Spec => []TypeOK
<1>1. CoreInv => TypeOK BY DEF CoreInv
<1> QED BY <1>1, InitCore, NextCore, PTL DEF Spec

\* Whatever a condition leaves in current_parent, code goes to the innermost
\* function or above it, and never to a scope or an expansion that is over.
THEOREM StaysInside == Spec => []CodeStaysInside
<1>1. CoreInv => CodeStaysInside
  <2> SUFFICES ASSUME CoreInv PROVE CodeStaysInside OBVIOUS
  <2>1. \A i, j \in 1 .. Depth : i < j => frames[i].meta < frames[j].meta BY FramesRise DEF CoreInv
  <2>2. ASSUME frames # <<>> PROVE parent >= Top.meta
    <3>1. Depth \in 1 .. Depth /\ Top = frames[Depth] /\ Top.meta \in 1 .. Len(metas) BY <2>2, TopFacts
    <3>2. Top.meta <= parent BY <3>1 DEF CoreInv, ParentInv
    <3> QED BY <3>1, <3>2 DEF CoreInv, TypeOK
  <2> QED BY <2>1, <2>2 DEF CodeStaysInside, CoreInv, ParentInv
<1> QED BY <1>1, InitCore, NextCore, PTL DEF Spec

-----------------------------------------------------------------------------
\* The lists of the metacodes.

ListsInv == ListInv /\ CodeKeptOnce /\ GeneratorInput

LEMMA SameFile ==
  ASSUME file' = file
  PROVE  Last' = Last /\ \A p : Code(p)' = Code(p)
BY DEF Last, Code, Inside

\* Intervals with a primed bound.
LEMMA Below ==
  ASSUME NEW b \in Nat, NEW p \in 1 .. b - 1
  PROVE  p \in Nat /\ 1 <= p /\ p < b
OBVIOUS

LEMMA NotBelow ==
  ASSUME NEW a \in 1 .. Last, Last \in Nat, NEW b \in Nat, NEW p \in Nat, p < b, p \notin a .. b - 1
  PROVE  ~(a <= p)
OBVIOUS

\* No token is added, and those the cursor passes are no code.
LEMMA KeepLists ==
  ASSUME CoreInv, ListsInv, file' = file, cur' \in Nat, cur <= cur', \A p \in cur .. cur' - 1 : ~Code(p),
         SameLists \/ \E kind : Grows(kind)
  PROVE  ListsInv'
<1>1. Last' = Last /\ \A p : Code(p)' = Code(p) BY SameFile
<1>2. cur \in 1 .. Last /\ Last \in Nat /\ Len(metas) \in Nat \ {0} BY FileFacts DEF CoreInv, TypeOK
<1>3. Len(metas') \in Nat /\ Len(metas) <= Len(metas') /\ \A m \in 1 .. Len(metas) : metas'[m].list = metas[m].list
  BY <1>2 DEF SameLists, Grows
<1>4. \A m \in 1 .. Len(metas) : m \in 1 .. Len(metas') BY <1>2, <1>3
<1>5. \A m \in 1 .. Len(metas) : Positions(m)' = Positions(m) BY <1>1, <1>3 DEF Positions
<1>6. ASSUME NEW m \in 1 .. Len(metas'), NEW i \in Positions(m)' PROVE m \in 1 .. Len(metas)
  <2>1. CASE SameLists BY <2>1 DEF SameLists
  <2>2. CASE \E kind : Grows(kind)
    <3>1. m \in 1 .. Len(metas) \/ m = Len(metas) + 1 BY <2>2, <1>2 DEF Grows
    <3>2. m = Len(metas) + 1 => Positions(m)' = {} BY <2>2 DEF Grows, Positions
    <3> QED BY <3>1, <3>2
  <2> QED BY <2>1, <2>2
<1>7. ListInv'
  <2>1. ASSUME NEW m \in 1 .. Len(metas'), NEW i \in Positions(m)' PROVE metas'[m].list[i] < cur'
    <3>1. m \in 1 .. Len(metas) /\ i \in Positions(m) BY <1>5, <1>6
    <3>2. metas[m].list[i] < cur /\ metas[m].list[i] \in 1 .. Last - 1
      BY <3>1 DEF ListsInv, ListInv, Positions
    <3> QED BY <3>1, <3>2, <1>2, <1>3
  <2> QED BY <2>1 DEF ListInv
<1>8. ASSUME NEW p \in 1 .. cur' - 1, Code(p)'
      PROVE  \E m \in 1 .. Len(metas') : \E i \in Positions(m)' : metas'[m].list[i] = p
  <2>1. Code(p) BY <1>1, <1>8
  <2>2. p \in 1 .. cur - 1
    <3>1. p \notin cur .. cur' - 1 BY <2>1
    <3>2. p \in Nat /\ 1 <= p /\ p < cur' BY Below, Zenon
    <3>3. ~(cur <= p) BY <3>1, <3>2, NotBelow, <1>2, Zenon
    <3> QED BY <3>2, <3>3, <1>2
  <2>3. PICK m \in 1 .. Len(metas) : \E i \in Positions(m) : metas[m].list[i] = p
    BY <2>1, <2>2 DEF ListsInv, CodeKeptOnce
  <2> QED BY <2>3, <1>3, <1>4, <1>5
<1>9. ASSUME NEW m \in 1 .. Len(metas'), NEW n \in 1 .. Len(metas'), NEW i \in Positions(m)', NEW j \in Positions(n)',
             metas'[m].list[i] = metas'[n].list[j]
      PROVE  m = n /\ i = j
  <2>1. m \in 1 .. Len(metas) /\ n \in 1 .. Len(metas) BY <1>6
  <2> QED BY <2>1, <1>3, <1>5, <1>9 DEF ListsInv, CodeKeptOnce
<1>10. ASSUME NEW m \in 1 .. Len(metas'), NEW i \in Positions(m)', NEW j \in Positions(m)', i < j
       PROVE  metas'[m].list[i] < metas'[m].list[j]
  <2>1. m \in 1 .. Len(metas) BY <1>6
  <2> QED BY <2>1, <1>3, <1>5, <1>10 DEF ListsInv, CodeKeptOnce
<1>11. CodeKeptOnce' BY <1>8, <1>9, <1>10 DEF CodeKeptOnce
<1>12. GeneratorInput'
  <2>1. 1 \in 1 .. Len(metas) BY <1>2
  <2> QED BY <2>1, <1>1, <1>3 DEF ListsInv, GeneratorInput
<1> QED BY <1>7, <1>11, <1>12 DEF ListsInv

\* A token is added: it lies behind all that the lists hold.
LEMMA AddLists ==
  ASSUME CoreInv, ListsInv, file' = file, NEW p \in cur .. Last, \A q \in cur .. p - 1 : ~Code(q), AddToken(p)
  PROVE  ListsInv'
<1>1. Last' = Last /\ \A q : Code(q)' = Code(q) BY SameFile
<1>2. cur \in 1 .. Last /\ Last \in Nat \ {0} /\ Len(metas) \in Nat \ {0} /\ parent \in 1 .. Len(metas)
  BY FileFacts DEF CoreInv, TypeOK
<1>3. p \in 1 .. Last BY <1>2
<1> DEFINE e == Entry(p)
<1>4. /\ e \in Nat /\ (IsPlaceholder(p) => e = 0 \/ e = Last + 1) /\ (~IsPlaceholder(p) => e = p)
  <2>1. e \in Nat BY <1>3, EntryFacts DEF CoreInv
  <2> QED BY <2>1 DEF Entry, Flag, NoId
<1>5. metas' = [metas EXCEPT ![parent].list = Append(@, e)] /\ cur' = Past(p + 1) /\ ~Dangling(p)
  BY DEF AddToken
<1> HIDE DEF e
<1> DEFINE l == metas[parent].list
<1>6. /\ Len(metas') = Len(metas)
      /\ \A m \in 1 .. Len(metas) : m # parent => metas'[m] = metas[m]
      /\ metas'[parent].list = Append(l, e)
  BY <1>2, <1>4, <1>5, AddFacts DEF CoreInv
<1>7. l \in Seq(Nat) /\ Len(l) \in Nat BY <1>2, MetaFields DEF CoreInv, TypeOK
<1> HIDE DEF l
<1>8. cur' \in Nat /\ cur <= cur' /\ (p < Last => cur' = p + 1) /\ (p = Last => cur' = Last) BY <1>2, <1>3, <1>5 DEF Past
<1>9. ASSUME NEW m \in 1 .. Len(metas), NEW i \in Positions(m)
      PROVE  i \in Positions(m)' /\ metas'[m].list[i] = metas[m].list[i]
  <2>1. CASE m # parent BY <2>1, <1>1, <1>6 DEF Positions
  <2>2. CASE m = parent
    <3>1. i \in 1 .. Len(l) /\ l[i] \in 1 .. Last - 1 BY <2>2 DEF Positions, l
    <3>2. i \in 1 .. Len(Append(l, e)) /\ Append(l, e)[i] = l[i] BY <3>1, <1>4, <1>7
    <3> QED BY <2>2, <3>1, <3>2, <1>1, <1>6 DEF Positions, l
  <2> QED BY <2>1, <2>2
<1>10. ASSUME NEW m \in 1 .. Len(metas), NEW i \in Positions(m)'
       PROVE  \/ i \in Positions(m) /\ metas'[m].list[i] = metas[m].list[i]
              \/ m = parent /\ i = Len(l) + 1 /\ metas'[m].list[i] = p /\ p < Last
  <2>1. CASE m # parent BY <2>1, <1>1, <1>6, <1>10 DEF Positions
  <2>2. CASE m = parent
    <3>1. i \in 1 .. Len(Append(l, e)) /\ Append(l, e)[i] \in 1 .. Last - 1 BY <2>2, <1>1, <1>6, <1>10 DEF Positions
    <3>2. CASE i \in 1 .. Len(l)
      <4>1. Append(l, e)[i] = l[i] BY <3>2, <1>4, <1>7
      <4>2. i \in Positions(m) BY <2>2, <3>1, <3>2, <4>1 DEF Positions, l
      <4> QED BY <2>2, <4>1, <4>2, <1>6 DEF l
    <3>3. CASE i = Len(l) + 1
      <4>1. Append(l, e)[i] = e BY <3>3, <1>4, <1>7
      <4>2. e \in 1 .. Last - 1 BY <3>1, <4>1
      <4>3. e = p /\ p < Last BY <4>2, <1>2, <1>4
      <4> QED BY <2>2, <3>3, <4>1, <4>3, <1>6
    <3> QED BY <3>1, <3>2, <3>3, <1>4, <1>7
  <2> QED BY <2>1, <2>2
<1>11. ASSUME ~IsPlaceholder(p), p < Last, NEW m, m = parent
       PROVE  Len(l) + 1 \in Positions(m)' /\ metas'[m].list[Len(l) + 1] = p
  <2>1. e = p /\ p \in 1 .. Last - 1 BY <1>2, <1>3, <1>4, <1>11
  <2>2. Len(l) + 1 \in 1 .. Len(Append(l, e)) /\ Append(l, e)[Len(l) + 1] = e BY <1>4, <1>7
  <2>3. metas'[m].list = Append(l, e) BY <1>6, <1>11
  <2>4. Len(l) + 1 \in 1 .. Len(metas'[m].list) /\ metas'[m].list[Len(l) + 1] \in 1 .. Last' - 1
    BY <2>1, <2>2, <2>3, <1>1
  <2> QED BY <2>1, <2>2, <2>3, <2>4 DEF Positions
<1>12. \A m \in 1 .. Len(metas) : \A i \in Positions(m) :
         metas[m].list[i] \in Nat /\ metas[m].list[i] < cur /\ i \in Nat /\ (m = parent => i <= Len(l))
  <2>1. ASSUME NEW m \in 1 .. Len(metas), NEW i \in Positions(m)
        PROVE  metas[m].list[i] \in Nat /\ metas[m].list[i] < cur /\ i \in Nat /\ (m = parent => i <= Len(l))
    <3>1. i \in 1 .. Len(metas[m].list) /\ metas[m].list[i] \in 1 .. Last - 1 BY DEF Positions
    <3>2. metas[m].list[i] < cur BY DEF ListsInv, ListInv
    <3>3. metas[m].list \in Seq(Nat) BY MetaFields DEF CoreInv, TypeOK
    <3> QED BY <3>1, <3>2, <3>3 DEF l
  <2> QED BY <2>1
<1>13. ListInv'
  <2>1. ASSUME NEW m \in 1 .. Len(metas), NEW i \in Positions(m)' PROVE metas'[m].list[i] < cur'
    <3>1. CASE i \in Positions(m) /\ metas'[m].list[i] = metas[m].list[i] BY <3>1, <1>2, <1>8, <1>12
    <3>2. CASE metas'[m].list[i] = p /\ p < Last BY <3>2, <1>2, <1>8
    <3> QED BY <3>1, <3>2, <1>10
  <2> QED BY <2>1, <1>6 DEF ListInv
<1>14. ASSUME NEW q \in 1 .. cur' - 1, Code(q)'
       PROVE  \E m \in 1 .. Len(metas') : \E i \in Positions(m)' : metas'[m].list[i] = q
  <2>1. Code(q) BY <1>1, <1>14
  <2>2. CASE q < cur
    <3>1. q \in 1 .. cur - 1 BY <2>2, <1>2
    <3>2. PICK m \in 1 .. Len(metas) : \E i \in Positions(m) : metas[m].list[i] = q
      BY <2>1, <3>1 DEF ListsInv, CodeKeptOnce
    <3>3. PICK i \in Positions(m) : metas[m].list[i] = q BY <3>2
    <3> QED BY <3>3, <1>6, <1>9
  <2>3. CASE q >= cur
    <3>1. q = p /\ p < Last
      <4>1. q \notin cur .. p - 1 BY <2>1
      <4>2. q \in Nat /\ q < cur' BY <1>8, Below, Zenon
      <4>3. q >= p BY <4>1, <4>2, <2>3, <1>2
      <4> QED BY <4>2, <4>3, <1>2, <1>3, <1>8
    <3>2. ~IsPlaceholder(p) BY <2>1, <3>1 DEF Code, IsPlaceholder, Words
    <3>3. PICK m \in 1 .. Len(metas) : m = parent BY <1>2
    <3>4. Len(l) + 1 \in Positions(m)' /\ metas'[m].list[Len(l) + 1] = q BY <3>1, <3>2, <3>3, <1>11
    <3> QED BY <3>4, <1>6
  <2> QED BY <2>2, <2>3, <1>2
<1>15. ASSUME NEW m \in 1 .. Len(metas), NEW n \in 1 .. Len(metas), NEW i \in Positions(m)', NEW j \in Positions(n)',
              metas'[m].list[i] = metas'[n].list[j]
       PROVE  m = n /\ i = j
  <2>1. CASE i \in Positions(m) /\ metas'[m].list[i] = metas[m].list[i]
    <3>1. CASE j \in Positions(n) /\ metas'[n].list[j] = metas[n].list[j]
      <4>1. metas[m].list[i] = metas[n].list[j] BY <2>1, <3>1, <1>15
      <4> QED BY <4>1, <2>1, <3>1 DEF ListsInv, CodeKeptOnce
    <3>2. CASE metas'[n].list[j] = p
      <4>1. metas[m].list[i] < cur /\ metas[m].list[i] = p /\ metas[m].list[i] \in Nat BY <2>1, <3>2, <1>12, <1>15
      <4> QED BY <4>1, <1>2
    <3> QED BY <3>1, <3>2, <1>10
  <2>2. CASE m = parent /\ i = Len(l) + 1 /\ metas'[m].list[i] = p
    <3>1. CASE j \in Positions(n) /\ metas'[n].list[j] = metas[n].list[j]
      <4>1. metas[n].list[j] < cur /\ metas[n].list[j] = p /\ metas[n].list[j] \in Nat BY <2>2, <3>1, <1>12, <1>15
      <4> QED BY <4>1, <1>2
    <3>2. CASE n = parent /\ j = Len(l) + 1 BY <2>2, <3>2
    <3> QED BY <3>1, <3>2, <1>10
  <2> QED BY <2>1, <2>2, <1>10
<1>16. ASSUME NEW m \in 1 .. Len(metas), NEW i \in Positions(m)', NEW j \in Positions(m)', i < j
       PROVE  metas'[m].list[i] < metas'[m].list[j]
  <2>1. CASE i \in Positions(m) /\ metas'[m].list[i] = metas[m].list[i]
    <3>1. CASE j \in Positions(m) /\ metas'[m].list[j] = metas[m].list[j]
      <4>1. metas[m].list[i] < metas[m].list[j] BY <2>1, <3>1, <1>16 DEF ListsInv, CodeKeptOnce
      <4> QED BY <4>1, <2>1, <3>1
    <3>2. CASE metas'[m].list[j] = p
      <4>1. metas[m].list[i] < cur /\ metas[m].list[i] \in Nat BY <2>1, <1>12
      <4> QED BY <4>1, <2>1, <3>2, <1>2
    <3> QED BY <3>1, <3>2, <1>10
  <2>2. CASE m = parent /\ i = Len(l) + 1
    <3>1. CASE j \in Positions(m)
      <4>1. j \in Nat /\ j <= Len(l) BY <2>2, <3>1, <1>12
      <4> QED BY <4>1, <2>2, <1>7, <1>16
    <3>2. CASE j = Len(l) + 1 BY <2>2, <3>2, <1>7, <1>16
    <3> QED BY <3>1, <3>2, <1>10
  <2> QED BY <2>1, <2>2, <1>10
<1>17. CodeKeptOnce' BY <1>6, <1>14, <1>15, <1>16 DEF CodeKeptOnce
<1>18. GeneratorInput'
  <2>1. CASE parent # 1
    <3>1. metas'[1] = metas[1] BY <2>1, <1>2, <1>6
    <3> QED BY <3>1, <1>1 DEF ListsInv, GeneratorInput
  <2>2. CASE parent = 1
    <3>1. expand = 0
      <4> SUFFICES ASSUME expand # 0 PROVE FALSE OBVIOUS
      <4>1. PICK i \in 1 .. Depth : frames[i].meta = expand BY DEF CoreInv, ExpandInv
      <4>2. frames[i].meta > 1 /\ frames[i].meta <= parent /\ frames[i].meta \in Nat
        BY <4>1 DEF CoreInv, StackInv, ParentInv, TypeOK
      <4> QED BY <4>2, <2>2
    <3>2. e = p BY <3>1, <1>4, <1>5 DEF Dangling
    <3>3. metas'[1].list = Append(l, e) BY <2>2, <1>6
    <3>4. \A i \in 1 .. Len(l) : l[i] \in 1 .. Last BY <2>2 DEF ListsInv, GeneratorInput, l
    <3>5. ASSUME NEW i \in 1 .. Len(Append(l, e)) PROVE Append(l, e)[i] \in 1 .. Last
      <4>1. CASE i \in 1 .. Len(l) BY <4>1, <3>4, <1>4, <1>7
      <4>2. CASE i = Len(l) + 1 BY <4>2, <3>2, <1>3, <1>4, <1>7
      <4> QED BY <4>1, <4>2, <1>4, <1>7
    <3> QED BY <3>3, <3>5, <1>1 DEF GeneratorInput
  <2> QED BY <2>1, <2>2
<1> QED BY <1>13, <1>17, <1>18 DEF ListsInv

\* Only the last word of a pattern may end the instruction.
LastEnds(pattern) == \A i \in 1 .. Len(pattern) : pattern[i] = "$" => i = Len(pattern)

LEMMA MarkEnds ==
  /\ LastEnds(IfMark) /\ LastEnds(ElifMark) /\ LastEnds(ElseMark) /\ LastEnds(EndIfMark)
  /\ LastEnds(ScopeMark) /\ LastEnds(NamedScopeMark) /\ LastEnds(EndScopeMark) /\ LastEnds(ExpandMark)
  /\ LastEnds(ForMark) /\ LastEnds(EachMark) /\ LastEnds(EndEachMark) /\ LastEnds(EndMark)
BY DEF LastEnds, IfMark, ElifMark, ElseMark, EndIfMark, ScopeMark, NamedScopeMark, EndScopeMark, ExpandMark, ForMark,
       EachMark, EndEachMark, EndMark

\* An instruction that was matched is passed.
LEMMA MatchSkips ==
  ASSUME CoreInv, NEW pattern \in Seq(Symbols \ {"eof"}), pattern # <<>>, LastEnds(pattern), Check(pattern)
  PROVE  /\ After(pattern) \in 1 .. Last /\ After(pattern) \in Nat /\ cur <= After(pattern)
         /\ \A p \in cur .. After(pattern) - 1 : ~Code(p)
<1>1. FileInv /\ cur \in 1 .. Last /\ Last \in Nat BY FileFacts DEF CoreInv, TypeOK
<1>2. After(pattern) = cur + Len(pattern) + 1 /\ After(pattern) \in cur + 1 .. Last BY <1>1, CheckFacts
<1>3. Len(pattern) \in Nat OBVIOUS
<1>4. ASSUME NEW p \in cur .. After(pattern) - 1 PROVE ~Code(p)
  <2>1. p \in cur .. cur + Len(pattern) BY <1>1, <1>2, <1>3
  <2> QED BY <2>1, <1>1, InstructionSkipped DEF LastEnds
<1> QED BY <1>1, <1>2, <1>4

LEMMA MatchLists ==
  ASSUME CoreInv, ListsInv, file' = file, NEW pattern \in Seq(Symbols \ {"eof"}), pattern # <<>>, LastEnds(pattern),
         Check(pattern), cur' = After(pattern), SameLists \/ \E kind : Grows(kind)
  PROVE  ListsInv'
<1>1. /\ After(pattern) \in Nat /\ cur <= After(pattern) /\ \A p \in cur .. After(pattern) - 1 : ~Code(p)
  BY MatchSkips
<1> QED BY <1>1, KeepLists

LEMMA StartBranchLists ==
  ASSUME CoreInv, ListsInv, Loop, NEW kind \in Branches, NEW mark \in {IfMark, ElifMark}, Check(mark),
         StartBranch(kind, After(mark)), Grows(kind)
  PROVE  ListsInv'
<1>0. FileInv /\ cur \in 1 .. Last BY DEF CoreInv, TypeOK
<1>1. Last \in Nat \ {0} /\ file[Last] # "$" /\ FileInv /\ cur \in 1 .. Last BY <1>0, FileFacts
<1>2. mark \in Seq(Symbols \ {"eof"}) /\ mark # <<>> /\ LastEnds(mark) BY Marks, MarkEnds
<1> DEFINE c == After(mark)
           q == Past(c + 1)
           next == IF file[q] = "$" THEN q + 1 ELSE q
<1>3. c \in 1 .. Last /\ cur <= c /\ \A p \in cur .. c - 1 : ~Code(p) BY <1>2, MatchSkips
<1>4. Len(mark) = 1 /\ mark[1] # "$" BY DEF IfMark, ElifMark
<1>5. c = cur + 2 /\ file[cur] = "#" /\ file[cur + 1] # "$"
  <2>1. /\ c = cur + Len(mark) + 1 /\ file[cur] = "#" /\ \A i \in 1 .. Len(mark) : file[cur + i] = mark[i]
    BY <1>1, <1>2, CheckFacts
  <2> QED BY <2>1, <1>4, <1>1
<1> HIDE DEF c
<1>6. cur' = next BY DEF StartBranch, c
<1>7. ~Code(c)
  <2>1. CASE file[c] = "$" BY <2>1 DEF Code, Words
  <2>2. CASE file[c] # "$"
    <3>1. \A k \in cur .. c : k = cur \/ k = cur + 1 \/ k = c BY <1>1, <1>5
    <3>2. \A k \in cur .. c : file[k] # "$" BY <3>1, <2>2, <1>5
    <3>3. cur \in 1 .. c BY <1>1, <1>3
    <3> QED BY <3>2, <3>3, <1>1, <1>3, <1>5, InsideFrom
  <2> QED BY <2>1, <2>2
<1>8. q \in c .. Last /\ q <= c + 1 BY <1>1, <1>3 DEF Past
<1>9. file[q] = "$" => ~Code(q) BY DEF Code, Words
<1> HIDE DEF q
<1>10. next \in Nat /\ cur <= next BY <1>1, <1>3, <1>8
<1>11. ASSUME NEW p \in cur .. next - 1 PROVE ~Code(p)
  <2>1. CASE p < c BY <2>1, <1>1, <1>3, <1>11
  <2>2. CASE p >= c
    <3>1. p = c \/ (file[q] = "$" /\ p = q) BY <2>2, <1>1, <1>3, <1>8, <1>11
    <3> QED BY <3>1, <1>7, <1>9
  <2> QED BY <2>1, <2>2, <1>1, <1>3
<1> HIDE DEF next
<1>12. \A p \in cur .. cur' - 1 : ~Code(p) BY <1>6, <1>11
<1>13. file' = file BY DEF Loop, Running
<1> QED BY <1>6, <1>10, <1>12, <1>13, KeepLists

LEMMA StillLists ==
  ASSUME CoreInv, ListsInv, file' = file, cur' = cur, SameLists \/ \E kind : Grows(kind)
  PROVE  ListsInv'
<1>1. cur \in Nat /\ \A p \in cur .. cur - 1 : ~Code(p) BY FileFacts DEF CoreInv, TypeOK
<1> QED BY <1>1, KeepLists DEF CoreInv, TypeOK

LEMMA UnchangedSame == ASSUME CoreInv, metas' = metas PROVE SameLists
BY DEF CoreInv, TypeOK, SameLists

LEMMA NextLists == CoreInv /\ ListsInv /\ [Next]_vars => ListsInv'
<1> SUFFICES ASSUME CoreInv, ListsInv, [Next]_vars PROVE ListsInv' OBVIOUS
<1>0. FileInv /\ cur \in 1 .. Last /\ Last \in Nat \ {0} BY FileFacts DEF CoreInv, TypeOK
<1>1. CASE If
  <2>1. /\ After(IfMark) \in 1 .. Last /\ "if" \in Branches BY <1>1, AfterFacts, Marks DEF If, Branches
  <2>2. Grows("if") BY <1>1, <2>1, StartBranchCore DEF If, Any
  <2> QED BY <1>1, <2>1, <2>2, StartBranchLists DEF If, Any
<1>2. CASE Elif
  <2>1. /\ After(ElifMark) \in 1 .. Last /\ "elif" \in Branches BY <1>2, AfterFacts, Marks DEF Elif, Branches
  <2>2. Grows("elif") BY <1>2, <2>1, StartBranchCore DEF Elif
  <2> QED BY <1>2, <2>1, <2>2, StartBranchLists DEF Elif
<1>3. CASE Else
  <2>1. Grows("else") BY <1>3, ElseCore
  <2>2. Check(ElseMark) /\ cur' = After(ElseMark) /\ file' = file BY <1>3 DEF Else, Loop, Running
  <2> QED BY <2>1, <2>2, Marks, MarkEnds, MatchLists
<1>4. CASE EndIf
  <2>1. SameLists BY <1>4, EndIfFacts DEF CoreInv
  <2>2. Check(EndIfMark) /\ cur' = After(EndIfMark) /\ file' = file BY <1>4 DEF EndIf, Loop, Running
  <2> QED BY <2>1, <2>2, Marks, MarkEnds, MatchLists
<1>5. CASE StrayBranch \/ Crash \/ Unclosed \/ Generate \/ Done \/ UNCHANGED vars
  <2>1. metas' = metas /\ cur' = cur /\ file' = file
    BY <1>5 DEF StrayBranch, Any, Loop, Running, Crash, Rest, Unclosed, Generate, Done, vars
  <2> QED BY <2>1, UnchangedSame, StillLists
<1>6. CASE Expand
  <2>1. Grows("each") BY <1>6, ExpandCore
  <2>2. Check(ExpandMark) /\ cur' = After(ExpandMark) /\ file' = file BY <1>6 DEF Expand, Rest, Any, Loop, Running
  <2> QED BY <2>1, <2>2, Marks, MarkEnds, MatchLists
<1>7. CASE For
  <2>1. SameLists BY <1>7, ForCore
  <2>2. Check(ForMark) /\ cur' = AfterEnd(Ends(After(ForMark))) /\ file' = file BY <1>7 DEF For, Header, Running
  <2> DEFINE b == After(ForMark)
             next == AfterEnd(Ends(b))
  <2>3. b \in 1 .. Last /\ cur <= b /\ \A p \in cur .. b - 1 : ~Code(p) BY <2>2, Marks, MarkEnds, MatchSkips
  <2>4. b = cur + 4 /\ file[cur] = "#" /\ \A k \in cur .. b - 1 : file[k] # "$"
    <3>1. Len(ForMark) = 3 /\ \A i \in 1 .. 3 : ForMark[i] # "$" BY DEF ForMark
    <3>2. /\ b = cur + Len(ForMark) + 1 /\ file[cur] = "#"
          /\ \A i \in 1 .. Len(ForMark) : file[cur + i] = ForMark[i]
      BY <1>0, <2>2, Marks, CheckFacts
    <3>3. \A k \in cur .. b - 1 : k = cur \/ (k - cur \in 1 .. 3 /\ k = cur + (k - cur)) BY <1>0, <3>1, <3>2
    <3> QED BY <1>0, <3>1, <3>2, <3>3
  <2> HIDE DEF b
  <2>5. b \in cur .. Last BY <1>0, <2>3
  <2>6. Ends(b) \in SUBSET Ends(b) /\ next \in b .. Last BY <1>0, <2>3, AfterEndFacts
  <2>7. \A p \in b .. next - 1 : ~Code(p) BY <1>0, <2>4, <2>5, VariantsSkipped
  <2> HIDE DEF next
  <2>8. next \in Nat /\ cur <= next /\ \A p \in cur .. next - 1 : ~Code(p)
    <3>1. \A p \in cur .. next - 1 : p \in cur .. b - 1 \/ p \in b .. next - 1 BY <1>0, <2>5, <2>6
    <3> QED BY <1>0, <2>3, <2>5, <2>6, <2>7, <3>1
  <2>9. cur' = next BY <2>2 DEF next, b
  <2> QED BY <2>1, <2>2, <2>8, <2>9, KeepLists
<1>8. CASE EndHeader
  <2>1. metas' = metas /\ file' = file /\ (cur' = cur \/ (Check(EachMark) /\ cur' = After(EachMark)))
    BY <1>8 DEF EndHeader, Header, Running
  <2> QED BY <2>1, UnchangedSame, StillLists, Marks, MarkEnds, MatchLists
<1>9. CASE EndEach
  <2>1. /\ Check(EndEachMark) /\ cur' = After(EndEachMark) /\ file' = file /\ expand # 0
        /\ metas' = [metas EXCEPT ![expand].ended = TRUE]
    BY <1>9 DEF EndEach, EndBlock, Loop, Running
  <2>2. expand \in 1 .. Len(metas) BY <2>1 DEF CoreInv, TypeOK
  <2>3. SameLists BY <2>1, <2>2, EndFacts DEF CoreInv
  <2> QED BY <2>1, <2>3, Marks, MarkEnds, MatchLists
<1>10. CASE Scope
  <2>1. Grows("scope") BY <1>10, ScopeCore
  <2>2. PICK pattern \in {ScopeMark, NamedScopeMark} : Check(pattern) /\ cur' = After(pattern) BY <1>10 DEF Scope
  <2>3. file' = file BY <1>10 DEF Scope, Rest, Any, Loop, Running
  <2> QED BY <2>1, <2>2, <2>3, Marks, MarkEnds, MatchLists
<1>11. CASE EndScope
  <2>1. /\ Check(EndScopeMark) /\ cur' = After(EndScopeMark) /\ file' = file /\ frames # <<>>
        /\ metas' = [metas EXCEPT ![Top.meta].ended = TRUE]
    BY <1>11 DEF EndScope, EndBlock, Loop, Running, In
  <2> DEFINE x == Top.meta
  <2>2. x \in 1 .. Len(metas) BY <2>1, TopFacts
  <2>3. metas' = [metas EXCEPT ![x].ended = TRUE] BY <2>1
  <2> HIDE DEF x
  <2>4. SameLists BY <2>2, <2>3, EndFacts DEF CoreInv
  <2> QED BY <2>1, <2>4, Marks, MarkEnds, MatchLists
<1>12. CASE Inline
  <2>1. Grows("inline") BY <1>12, InlineCore
  <2>2. Tok = "#" /\ cur' = AfterEnd(RowEnds(cur)) /\ file' = file BY <1>12 DEF Inline, Rest, Any, Loop, Running
  <2>3. file[cur] = "#" BY <2>2, <1>0 DEF Tok, Peek, Past
  <2> DEFINE next == AfterEnd(RowEnds(cur))
  <2>4. RowEnds(cur) \in SUBSET Ends(cur) BY DEF RowEnds
  <2>5. next \in cur .. Last BY <1>0, <2>4, AfterEndFacts
  <2>6. \A p \in cur .. next - 1 : ~Code(p) BY <1>0, <2>3, RowSkipped
  <2>7. cur' = next BY <2>2
  <2> HIDE DEF next
  <2>8. next \in Nat /\ cur <= next BY <1>0, <2>5
  <2> QED BY <2>1, <2>2, <2>6, <2>7, <2>8, KeepLists
<1>13. CASE StrayEnd
  <2>1. Check(EndMark) /\ AddToken(After(EndMark)) /\ file' = file BY <1>13 DEF StrayEnd, Rest, Any, Loop, Running
  <2>2. /\ After(EndMark) \in 1 .. Last /\ After(EndMark) \in Nat /\ cur <= After(EndMark)
        /\ \A p \in cur .. After(EndMark) - 1 : ~Code(p)
    BY <2>1, Marks, MarkEnds, MatchSkips
  <2>3. After(EndMark) \in cur .. Last BY <2>2, <1>0
  <2> QED BY <2>1, <2>2, <2>3, AddLists
<1>14. CASE Token
  <2>1. AddToken(cur) /\ file' = file BY <1>14 DEF Token, Rest, Any, Loop, Running
  <2>2. cur \in cur .. Last /\ \A p \in cur .. cur - 1 : ~Code(p) BY <1>0
  <2> QED BY <2>1, <2>2, AddLists
<1> QED BY <1>1, <1>2, <1>3, <1>4, <1>5, <1>6, <1>7, <1>8, <1>9, <1>10, <1>11, <1>12, <1>13, <1>14 DEF Next

LEMMA InitLists == Init => ListsInv
<1> SUFFICES ASSUME Init PROVE ListsInv OBVIOUS
<1> DEFINE root == [kind |-> "root", ended |-> FALSE, next |-> 0, named |-> FALSE, list |-> <<>>]
<1>1. root.list = <<>> OBVIOUS
<1>2. metas = <<root>> /\ cur = 1 BY DEF Init
<1> HIDE DEF root
<1>3. Len(metas) = 1 /\ metas[1].list = <<>> BY <1>1, <1>2
<1>4. \A m \in 1 .. Len(metas) : Positions(m) = {} BY <1>3 DEF Positions
<1>5. ListInv BY <1>4 DEF ListInv
<1>6. GeneratorInput BY <1>3 DEF GeneratorInput
<1>7. CodeKeptOnce
  <2>1. 1 .. cur - 1 = {} BY <1>2
  <2> QED BY <1>4, <2>1 DEF CodeKeptOnce
<1> QED BY <1>5, <1>6, <1>7 DEF ListsInv

\* No code is lost or read twice, and every list has it in the order of the file.
THEOREM KeptOnce == Spec => []CodeKeptOnce
<1>1. CoreInv /\ ListsInv => CodeKeptOnce BY DEF ListsInv
<1> QED BY <1>1, InitCore, NextCore, InitLists, NextLists, PTL DEF Spec

\* The list the generator copies names tokens of the file only: an expansion never
\* writes to the root, so no number of a placeholder gets there.
THEOREM CleanInput == Spec => []GeneratorInput
<1>1. CoreInv /\ ListsInv => GeneratorInput BY DEF ListsInv
<1> QED BY <1>1, InitCore, NextCore, InitLists, NextLists, PTL DEF Spec

-----------------------------------------------------------------------------
\* What is closed, and what took over.

LEMMA NextFacts ==
  ASSUME CoreInv, NEW m \in 1 .. Len(metas)
  PROVE  metas[m].next \in 0 .. Len(metas) /\ Len(metas) \in Nat /\ m \in Nat
<1>1. metas \in Seq(MetaType) /\ Len(metas) \in Nat /\ metas[m].next <= Len(metas) BY DEF CoreInv, TypeOK
<1>2. metas[m].next \in Nat BY <1>1, MetaFields
<1> QED BY <1>1, <1>2

LEMMA SameClosed ==
  ASSUME CoreInv, ClosedInv, frames' = frames, Len(metas') = Len(metas), errors' = {} => errors = {},
         \A m \in 1 .. Len(metas) : /\ metas'[m].kind = metas[m].kind /\ metas'[m].next = metas[m].next
                                    /\ metas'[m].ended = metas[m].ended
  PROVE  ClosedInv'
<1>1. Depth' = Depth /\ \A i \in 1 .. Depth : frames[i].meta \in 1 .. Len(metas) BY DEF Depth, CoreInv, TypeOK
<1>2. ASSUME NEW m \in 1 .. Len(metas), metas'[m].next # 0 PROVE Handover(m)'
  <2>1. Handover(m) BY <1>2 DEF ClosedInv
  <2>2. metas[m].next \in 1 .. Len(metas) BY <1>2, NextFacts
  <2> QED BY <2>1, <2>2, <1>1 DEF Handover
<1>3. \A i \in 1 .. Depth' : ~metas'[frames'[i].meta].ended BY <1>1 DEF ClosedInv
<1>4. ASSUME errors' = {}, NEW m \in 2 .. Len(metas) PROVE metas'[m].ended \/ metas'[m].next # 0 \/ Runs(m)'
  <2>1. m \in 1 .. Len(metas) BY DEF CoreInv, TypeOK
  <2> QED BY <2>1, <1>1, <1>4 DEF ClosedInv, Runs
<1> QED BY <1>2, <1>3, <1>4 DEF ClosedInv

\* A new metacode runs or is ended.
LEMMA GrowClosed ==
  ASSUME CoreInv, ClosedInv, NEW kind, Grows(kind), errors' = {} => errors = {},
         \/ frames' = frames /\ metas'[Len(metas) + 1].ended
         \/ /\ Depth' = Depth + 1 /\ \A i \in 1 .. Depth : frames'[i] = frames[i]
            /\ frames'[Depth + 1].meta = Len(metas) + 1 /\ ~metas'[Len(metas) + 1].ended
  PROVE  ClosedInv'
<1>1. /\ Len(metas) \in Nat \ {0} /\ Depth \in Nat /\ \A i \in 1 .. Depth : frames[i].meta \in 1 .. Len(metas)
  BY DEF CoreInv, TypeOK, Depth
<1>0. PICK new \in Nat : new = Len(metas) + 1 BY <1>1
<1>2. /\ Len(metas') = new /\ metas'[new].next = 0
      /\ \A m \in 1 .. Len(metas) : metas'[m] = metas[m]
  BY <1>0 DEF Grows
<1>3. \A i \in 1 .. Depth : i \in 1 .. Depth' /\ frames'[i] = frames[i] BY <1>1 DEF Depth
<1>4. \A i \in 1 .. Depth' : i \in 1 .. Depth \/ (frames'[i].meta = new /\ ~metas'[new].ended) BY <1>0, <1>1 DEF Depth
<1>5. \A m \in 1 .. new : m \in 1 .. Len(metas) \/ m = new BY <1>0, <1>1
<1>6. metas'[new].ended \/ Runs(new)'
  <2>1. ASSUME Depth' = Depth + 1, frames'[Depth + 1].meta = new PROVE \E i \in 1 .. Depth' : frames'[i].meta = new
    BY <2>1, <1>1
  <2>2. CASE frames' = frames /\ metas'[Len(metas) + 1].ended BY <2>2, <1>0, Zenon
  <2>3. CASE Depth' = Depth + 1 /\ frames'[Depth + 1].meta = Len(metas) + 1 BY <2>1, <2>3, <1>0 DEF Runs
  <2> QED BY <2>2, <2>3
<1>7. new \in Nat /\ \A m \in 1 .. Len(metas) : m < new /\ m # new /\ m \in 1 .. new BY <1>0, <1>1
<1>8. ASSUME NEW m \in 1 .. new, metas'[m].next # 0 PROVE Handover(m)'
  <2>1. m \in 1 .. Len(metas) /\ metas'[m] = metas[m] BY <1>2, <1>5, <1>8
  <2>2. Handover(m) BY <2>1, <1>8 DEF ClosedInv
  <2>3. metas[m].next \in 1 .. Len(metas) BY <2>1, <1>8, NextFacts
  <2>4. metas'[metas[m].next] = metas[metas[m].next] /\ metas[m].next # new BY <2>3, <1>2, <1>7
  <2>5. ASSUME NEW n \in 1 .. new, metas'[n].next = metas'[m].next PROVE n = m
    <3>1. n \in 1 .. Len(metas) BY <2>1, <2>5, <1>2, <1>5, <1>8
    <3> QED BY <3>1, <2>1, <2>2, <2>5, <1>2 DEF Handover
  <2>6. ASSUME NEW i \in 1 .. Depth' PROVE frames'[i].meta # m /\ frames'[i].meta # metas'[m].next
    <3>1. CASE i \in 1 .. Depth BY <3>1, <2>1, <2>2, <1>3 DEF Handover
    <3>2. CASE frames'[i].meta = new BY <3>2, <2>1, <2>4, <1>7
    <3> QED BY <3>1, <3>2, <1>4
  <2> QED BY <2>1, <2>2, <2>4, <2>5, <2>6, <1>2 DEF Handover
<1>9. ASSUME NEW i \in 1 .. Depth' PROVE ~metas'[frames'[i].meta].ended
  <2>1. CASE i \in 1 .. Depth BY <2>1, <1>1, <1>2, <1>3 DEF ClosedInv
  <2>2. CASE frames'[i].meta = new /\ ~metas'[new].ended BY <2>2
  <2> QED BY <2>1, <2>2, <1>4
<1>10. ASSUME errors' = {}, NEW m \in 2 .. new PROVE metas'[m].ended \/ metas'[m].next # 0 \/ Runs(m)'
  <2>1. m \in 1 .. new BY <1>7
  <2>2. CASE m = new BY <2>2, <1>6, Zenon
  <2>3. CASE m \in 1 .. Len(metas)
    <3>1. m \in 2 .. Len(metas) BY <2>3, <1>1, <1>7
    <3>2. metas[m].ended \/ metas[m].next # 0 \/ Runs(m) BY <3>1, <1>10 DEF ClosedInv
    <3>3. Runs(m) => Runs(m)' BY <1>3 DEF Runs
    <3> QED BY <3>2, <3>3, <2>3, <1>2
  <2> QED BY <2>1, <2>2, <2>3, <1>5
<1> QED BY <1>2, <1>8, <1>9, <1>10 DEF ClosedInv

\* Functions return; the metacodes of the frames that stay are not touched.
LEMMA CutClosed ==
  ASSUME CoreInv, ClosedInv, NEW d \in 0 .. Depth, frames' = SubSeq(frames, 1, d), Len(metas') = Len(metas),
         \A m \in 1 .. Len(metas) : metas'[m].kind = metas[m].kind /\ metas'[m].next = metas[m].next,
         \A m \in 1 .. Len(metas) :
           (\A i \in d + 1 .. Depth : frames[i].meta # m) => metas'[m].ended = metas[m].ended,
         \/ errors' # {}
         \/ errors' = errors /\ \A i \in d + 1 .. Depth : metas'[frames[i].meta].ended
  PROVE  ClosedInv'
<1>1. Depth \in Nat /\ \A i \in 1 .. Depth : frames[i].meta \in 1 .. Len(metas) BY DEF CoreInv, TypeOK, Depth
<1>2. Depth' = d /\ \A i \in 1 .. d : i \in 1 .. Depth /\ frames'[i] = frames[i] BY CutFacts DEF CoreInv
<1>3. \A i \in d + 1 .. Depth : i \in 1 .. Depth BY <1>1
<1>4. ASSUME NEW m \in 1 .. Len(metas), metas'[m].next # 0 PROVE Handover(m)'
  <2>1. metas[m].next # 0 BY <1>4
  <2>2. Handover(m) BY <2>1 DEF ClosedInv
  <2>3. metas[m].next \in 1 .. Len(metas) BY <2>1, NextFacts
  <2>4. metas'[m].ended = metas[m].ended BY <2>2, <1>3 DEF Handover
  <2> QED BY <2>2, <2>3, <2>4, <1>2 DEF Handover
<1>5. ASSUME NEW i \in 1 .. d PROVE metas'[frames[i].meta].ended = metas[frames[i].meta].ended
  <2>1. ASSUME NEW j \in d + 1 .. Depth PROVE frames[j].meta # frames[i].meta
    <3>1. i \in 1 .. Depth /\ j \in 1 .. Depth /\ i < j BY <1>1, <1>3
    <3>2. TypeOK /\ StackInv BY DEF CoreInv
    <3>3. frames[i].meta < frames[j].meta BY <3>1, <3>2, FramesRise
    <3>4. frames[i].meta \in Nat BY <3>1, <1>1
    <3> QED BY <3>3, <3>4
  <2> QED BY <2>1, <1>1, <1>2
<1>6. \A i \in 1 .. Depth' : ~metas'[frames'[i].meta].ended BY <1>2, <1>5 DEF ClosedInv
<1>7. ASSUME errors' = {}, NEW m \in 2 .. Len(metas) PROVE metas'[m].ended \/ metas'[m].next # 0 \/ Runs(m)'
  <2>1. errors = {} /\ \A i \in d + 1 .. Depth : metas'[frames[i].meta].ended BY <1>7
  <2>2. m \in 1 .. Len(metas) BY DEF CoreInv, TypeOK
  <2>3. metas[m].ended \/ metas[m].next # 0 \/ Runs(m) BY <2>1 DEF ClosedInv
  <2>4. CASE \E i \in d + 1 .. Depth : frames[i].meta = m BY <2>1, <2>4, Zenon
  <2>5. CASE \A i \in d + 1 .. Depth : frames[i].meta # m
    <3>1. metas'[m].ended = metas[m].ended /\ metas'[m].next = metas[m].next BY <2>2, <2>5
    <3>2. ASSUME Runs(m) PROVE Runs(m)'
      <4>1. PICK i \in 1 .. Depth : frames[i].meta = m BY <3>2 DEF Runs
      <4>2. i \in 1 .. d BY <4>1, <2>5, <1>1
      <4> QED BY <4>1, <4>2, <1>2 DEF Runs
    <3> QED BY <3>1, <3>2, <2>3, Zenon
  <2> QED BY <2>4, <2>5
<1> QED BY <1>2, <1>4, <1>6, <1>7 DEF ClosedInv

\* # end if: every branch of the condition but the last hands over to the next.
LEMMA EndIfClosed ==
  ASSUME CoreInv, ClosedInv, EndIf
  PROVE  ClosedInv'
<1>1. TypeOK /\ StackInv /\ ParentInv BY DEF CoreInv
<1>2. In(Branches) /\ frames' = SubSeq(frames, 1, ChainStart - 1) /\ errors' = errors BY DEF EndIf
<1> DEFINE c == ChainStart
           at(i) == frames[i].meta
<1>3. /\ Depth \in Nat \ {0} /\ c \in 1 .. Depth /\ frames[c].kind = "if"
      /\ \A k \in c + 1 .. Depth : frames[k].kind \in {"elif", "else"}
  BY <1>1, <1>2, ChainFacts
<1>4. /\ SameLists
      /\ metas'[at(Depth)].next = metas[at(Depth)].next /\ metas'[at(Depth)].ended
      /\ \A i \in c .. Depth - 1 : metas'[at(i)].next = at(i + 1) /\ metas'[at(i)].ended = metas[at(i)].ended
      /\ \A m \in 1 .. Len(metas) : (\A i \in c .. Depth : at(i) # m) => metas'[m] = metas[m]
  BY <1>1, EndIfFacts
<1>5. c - 1 \in 0 .. Depth /\ frames' = SubSeq(frames, 1, c - 1) BY <1>2, <1>3
<1> HIDE DEF c
<1>6. Depth' = c - 1 /\ \A k \in 1 .. c - 1 : k \in 1 .. Depth /\ frames'[k] = frames[k] BY <1>1, <1>5, CutFacts
<1>7. \A i \in 1 .. Depth : at(i) \in 1 .. Len(metas) /\ at(i) > 1 /\ metas[at(i)].kind = frames[i].kind
  BY <1>1 DEF TypeOK, StackInv
<1>8. \A i \in c .. Depth - 1 : i \in 1 .. Depth /\ i + 1 \in 1 .. Depth /\ i + 1 \in c + 1 .. Depth /\ i < i + 1
  BY <1>3
<1>9. \A i, j \in 1 .. Depth : i < j => at(i) < at(j) BY <1>1, FramesRise
<1>10. \A i, j \in 1 .. Depth : at(i) = at(j) => i = j
  <2>1. ASSUME NEW i \in 1 .. Depth, NEW j \in 1 .. Depth, at(i) = at(j) PROVE i = j
    <3>1. ~(i < j) /\ ~(j < i) BY <2>1, <1>7, <1>9
    <3> QED BY <3>1
  <2> QED BY <2>1
<1>11. \A i \in 1 .. Depth : metas[at(i)].next = 0 /\ ~metas[at(i)].ended
  BY <1>7 DEF ClosedInv, Handover
<1>12. \A m \in 1 .. Len(metas) : \A i \in 1 .. Depth : metas[m].next # at(i)
  <2>1. ASSUME NEW m \in 1 .. Len(metas), NEW i \in 1 .. Depth, metas[m].next = at(i) PROVE FALSE
    <3>1. metas[m].next # 0 BY <2>1, <1>7
    <3> QED BY <2>1, <3>1 DEF ClosedInv, Handover
  <2> QED BY <2>1
<1> HIDE DEF at
<1>13. \A m \in 1 .. Len(metas) : m = at(Depth) \/ (\E i \in c .. Depth - 1 : m = at(i)) \/ (\A i \in c .. Depth : at(i) # m)
  <2>1. \A i \in c .. Depth : i = Depth \/ i \in c .. Depth - 1 BY <1>3
  <2> QED BY <2>1
<1>14. Len(metas') = Len(metas) /\ \A m \in 1 .. Len(metas) : metas'[m].kind = metas[m].kind BY <1>4 DEF SameLists
<1>15. \A k \in 1 .. Depth' : k \in 1 .. Depth /\ frames'[k].meta = at(k) /\ \A i \in c .. Depth : i \in 1 .. Depth /\ k # i
  BY <1>3, <1>6 DEF at
\* The branches of the condition.
<1>16. ASSUME NEW i \in c .. Depth - 1, NEW m, m = at(i) PROVE Handover(m)'
  <2>1. m \in 1 .. Len(metas) /\ metas'[m].next = at(i + 1) /\ i + 1 \in 1 .. Depth BY <1>4, <1>7, <1>8, <1>16
  <2>2. metas'[m].next > m BY <2>1, <1>7, <1>8, <1>9, <1>16
  <2>3. ~metas'[m].ended BY <1>4, <1>8, <1>11, <1>16, Zenon
  <2>4. metas'[m].kind \in {"if", "elif"}
    <3>1. frames[i + 1].kind \in {"elif", "else"} BY <1>3, <1>8
    <3>2. frames[(i + 1) - 1].kind \in {"if", "elif"} BY <3>1, <2>1, <1>1 DEF StackInv
    <3>3. (i + 1) - 1 = i BY <1>3
    <3> QED BY <3>2, <3>3, <2>1, <1>7, <1>8, <1>14, <1>16
  <2>5. metas'[metas'[m].next].kind \in {"elif", "else"}
    <3>1. frames[i + 1].kind \in {"elif", "else"} BY <1>3, <1>8
    <3> QED BY <3>1, <2>1, <1>7, <1>14
  <2>6. ASSUME NEW n \in 1 .. Len(metas), metas'[n].next = metas'[m].next PROVE n = m
    <3>1. metas'[n].next = at(i + 1) BY <2>1, <2>6
    <3>2. CASE n = at(Depth)
      <4>1. metas'[n].next = 0 BY <3>2, <1>3, <1>4, <1>11
      <4>2. at(i + 1) # 0 BY <2>1, <1>7
      <4> QED BY <3>1, <4>1, <4>2
    <3>3. CASE \E j \in c .. Depth - 1 : n = at(j)
      <4>1. PICK j \in c .. Depth - 1 : n = at(j) BY <3>3
      <4>2. at(j + 1) = at(i + 1) BY <3>1, <4>1, <1>4
      <4>3. j + 1 = i + 1 BY <4>2, <1>8, <1>10
      <4>4. j = i BY <4>3, <1>3
      <4> QED BY <4>1, <4>4, <1>16
    <3>4. CASE \A j \in c .. Depth : at(j) # n
      <4>1. metas[n].next = at(i + 1) BY <3>1, <3>4, <1>4
      <4> QED BY <4>1, <2>1, <1>12
    <3> QED BY <3>2, <3>3, <3>4, <1>13
  <2>7. ASSUME NEW k \in 1 .. Depth' PROVE frames'[k].meta # m /\ frames'[k].meta # metas'[m].next
    <3>1. i \in c .. Depth /\ i + 1 \in c .. Depth BY <1>3
    <3>2. k \in 1 .. Depth /\ k # i /\ k # i + 1 /\ frames'[k].meta = at(k) BY <3>1, <1>15
    <3> QED BY <3>2, <2>1, <1>8, <1>10, <1>16
  <2> QED BY <2>2, <2>3, <2>4, <2>5, <2>6, <2>7, <1>14 DEF Handover
\* The other metacodes.
<1>17. ASSUME NEW m \in 1 .. Len(metas), \A i \in c .. Depth : at(i) # m, metas'[m].next # 0 PROVE Handover(m)'
  <2>1. metas'[m] = metas[m] BY <1>4, <1>17
  <2>2. Handover(m) BY <2>1, <1>17 DEF ClosedInv
  <2>3. metas[m].next \in 1 .. Len(metas) BY <2>1, <1>17, NextFacts
  <2>4. ASSUME NEW n \in 1 .. Len(metas), metas'[n].next = metas'[m].next PROVE n = m
    <3>1. CASE n = at(Depth) BY <3>1, <2>1, <2>4, <1>3, <1>4, <1>11, <1>17
    <3>2. CASE \E j \in c .. Depth - 1 : n = at(j)
      <4>1. PICK j \in c .. Depth - 1 : n = at(j) BY <3>2
      <4>2. metas[m].next = at(j + 1) BY <4>1, <2>1, <2>4, <1>4
      <4> QED BY <4>2, <1>8, <1>12
    <3>3. CASE \A j \in c .. Depth : at(j) # n
      <4>1. metas'[n] = metas[n] BY <3>3, <1>4
      <4> QED BY <4>1, <2>1, <2>2, <2>4 DEF Handover
    <3> QED BY <3>1, <3>2, <3>3, <1>13
  <2>5. ASSUME NEW k \in 1 .. Depth' PROVE frames'[k].meta # m /\ frames'[k].meta # metas'[m].next
    <3>1. k \in 1 .. Depth /\ frames'[k].meta = frames[k].meta BY <1>15 DEF at
    <3> QED BY <3>1, <2>1, <2>2 DEF Handover
  <2> QED BY <2>1, <2>2, <2>3, <2>4, <2>5, <1>14 DEF Handover
<1>18. ASSUME NEW m \in 1 .. Len(metas), metas'[m].next # 0 PROVE Handover(m)'
  <2>1. m # at(Depth) BY <1>3, <1>4, <1>11, <1>18
  <2> QED BY <2>1, <1>13, <1>16, <1>17, <1>18
<1>19. ASSUME NEW k \in 1 .. Depth' PROVE ~metas'[frames'[k].meta].ended
  <2>1. k \in 1 .. Depth /\ frames'[k].meta = at(k) BY <1>15
  <2>2. \A i \in c .. Depth : at(i) # at(k) BY <2>1, <1>10, <1>15
  <2>3. metas'[at(k)] = metas[at(k)] BY <2>1, <2>2, <1>4, <1>7
  <2> QED BY <2>1, <2>3, <1>11
<1>20. ASSUME errors' = {}, NEW m \in 2 .. Len(metas) PROVE metas'[m].ended \/ metas'[m].next # 0 \/ Runs(m)'
  <2>1. m \in 1 .. Len(metas) BY <1>1 DEF TypeOK
  <2>2. CASE m = at(Depth) BY <2>2, <1>4, Zenon
  <2>3. CASE \E i \in c .. Depth - 1 : m = at(i)
    <3>1. PICK i \in c .. Depth - 1 : m = at(i) BY <2>3
    <3>2. metas'[m].next = at(i + 1) /\ at(i + 1) # 0 BY <3>1, <1>4, <1>7, <1>8
    <3> QED BY <3>2
  <2>4. CASE \A i \in c .. Depth : at(i) # m
    <3>1. metas'[m] = metas[m] BY <2>1, <2>4, <1>4
    <3>2. metas[m].ended \/ metas[m].next # 0 \/ Runs(m) BY <1>2, <1>20 DEF ClosedInv
    <3>3. ASSUME Runs(m) PROVE Runs(m)'
      <4>1. PICK k \in 1 .. Depth : frames[k].meta = m BY <3>3 DEF Runs
      <4>2. k \in 1 .. c - 1 BY <4>1, <2>4, <1>3 DEF at
      <4> QED BY <4>1, <4>2, <1>6 DEF Runs
    <3> QED BY <3>1, <3>2, <3>3, Zenon
  <2> QED BY <2>1, <2>2, <2>3, <2>4, <1>13
<1> QED BY <1>14, <1>18, <1>19, <1>20 DEF ClosedInv

LEMMA PushClosed ==
  ASSUME CoreInv, ClosedInv, NEW kind \in Branches \cup Blocks, Push(kind), errors' = {} => errors = {}
  PROVE  ClosedInv'
<1>1. /\ Depth' = Depth + 1 /\ \A i \in 1 .. Depth : frames'[i] = frames[i]
      /\ frames'[Depth + 1].meta = New /\ New = Len(metas) + 1
  BY PushFacts DEF CoreInv
<1>2. Grows(kind) /\ metas'[Len(metas) + 1].ended = FALSE BY FramesPush DEF CoreInv
<1>3. ~metas'[Len(metas) + 1].ended BY <1>2, Zenon
<1> QED BY <1>1, <1>2, <1>3, GrowClosed

\* The end of a scope or an expansion.
LEMMA EndTopClosed ==
  ASSUME CoreInv, ClosedInv, frames # <<>>, Pop, NEW x, x = Top.meta, metas' = [metas EXCEPT ![x].ended = TRUE],
         errors' = errors
  PROVE  ClosedInv'
<1>1. Depth \in Nat \ {0} /\ Depth - 1 \in 0 .. Depth /\ frames' = SubSeq(frames, 1, Depth - 1)
  BY PopFacts DEF CoreInv, Pop
<1>2. x \in 1 .. Len(metas) /\ x = frames[Depth].meta BY TopFacts
<1>3. /\ SameLists /\ \A m \in 1 .. Len(metas) : metas'[m].next = metas[m].next
      /\ metas'[x].ended = TRUE
      /\ \A m \in 1 .. Len(metas) : m # x => metas'[m] = metas[m]
  BY <1>2, EndFacts DEF CoreInv
<1>4. \A i \in Depth - 1 + 1 .. Depth : i = Depth BY <1>1
<1>5. \A i \in Depth - 1 + 1 .. Depth : metas'[frames[i].meta].ended BY <1>2, <1>3, <1>4, Zenon
<1>6. ASSUME NEW m \in 1 .. Len(metas), \A i \in Depth - 1 + 1 .. Depth : frames[i].meta # m
      PROVE  metas'[m].ended = metas[m].ended
  <2>1. Depth \in Depth - 1 + 1 .. Depth BY <1>1
  <2>2. m # x BY <2>1, <1>2, <1>6
  <2> QED BY <2>2, <1>3
<1> QED BY <1>1, <1>3, <1>5, <1>6, CutClosed DEF SameLists

LEMMA NextClosed == CoreInv /\ ClosedInv /\ [Next]_vars => ClosedInv'
<1> SUFFICES ASSUME CoreInv, ClosedInv, [Next]_vars PROVE ClosedInv' OBVIOUS
<1>1. CASE StrayBranch \/ EndHeader \/ Crash \/ Generate \/ Done \/ UNCHANGED vars
  <2>1. metas' = metas /\ frames' = frames /\ (errors' = {} => errors = {})
    BY <1>1 DEF StrayBranch, EndHeader, Crash, Generate, Done, vars
  <2> QED BY <2>1, SameClosed
<1>2. CASE For
  <2>1. frames' = frames /\ errors' = errors BY <1>2 DEF For
  <2>2. /\ SameLists
        /\ \A m \in 1 .. Len(metas) : metas'[m].next = metas[m].next /\ metas'[m].ended = metas[m].ended
    BY <1>2, ForCore
  <2> QED BY <2>1, <2>2, SameClosed DEF SameLists
<1>3. CASE Token \/ StrayEnd
  <2>1. PICK p \in 1 .. Last : AddToken(p) /\ (errors' = {} => errors = {})
    <3>1. cur \in 1 .. Last BY DEF CoreInv, TypeOK
    <3>2. StrayEnd => After(EndMark) \in 1 .. Last BY AfterFacts, Marks DEF StrayEnd
    <3> QED BY <1>3, <3>1, <3>2 DEF Token, StrayEnd
  <2> DEFINE e == Entry(p)
  <2>2. /\ frames' = frames /\ metas' = [metas EXCEPT ![parent].list = Append(@, e)] /\ parent \in 1 .. Len(metas)
    BY <2>1 DEF AddToken, CoreInv, TypeOK
  <2>3. e \in Nat BY EntryFacts DEF CoreInv
  <2> HIDE DEF e
  <2>4. /\ Len(metas') = Len(metas)
        /\ \A m \in 1 .. Len(metas) : /\ metas'[m].kind = metas[m].kind /\ metas'[m].next = metas[m].next
                                      /\ metas'[m].ended = metas[m].ended
    BY <2>2, <2>3, AddFacts DEF CoreInv
  <2> QED BY <2>1, <2>2, <2>4, SameClosed
<1>4. CASE If \/ Elif
  <2>1. PICK kind \in Branches \cup Blocks : Push(kind) BY <1>4 DEF If, Elif, StartBranch, Branches
  <2>2. errors' = {} => errors = {} BY <1>4 DEF If, Elif, StartBranch
  <2> QED BY <2>1, <2>2, PushClosed
<1>5. CASE Else \/ Expand \/ Scope
  <2>1. PICK kind \in Branches \cup Blocks : Push(kind) BY <1>5 DEF Else, Expand, Scope, Branches, Blocks
  <2>2. errors' = errors BY <1>5 DEF Else, Expand, Scope
  <2> QED BY <2>1, <2>2, PushClosed
<1>6. CASE Inline
  <2>1. Grows("inline") /\ metas'[Len(metas) + 1].ended = TRUE BY <1>6, InlineCore
  <2>2. metas'[Len(metas) + 1].ended BY <2>1, Zenon
  <2>3. frames' = frames /\ errors' = errors BY <1>6 DEF Inline
  <2> QED BY <2>1, <2>2, <2>3, GrowClosed
<1>7. CASE EndIf BY <1>7, EndIfClosed
<1>8. CASE EndScope
  <2>1. /\ frames # <<>> /\ Pop /\ metas' = [metas EXCEPT ![Top.meta].ended = TRUE] /\ errors' = errors
    BY <1>8 DEF EndScope, EndBlock, In
  <2> QED BY <2>1, EndTopClosed
<1>9. CASE EndEach
  <2>1. /\ In({"each"}) /\ expand # 0 /\ frames # <<>> /\ Pop /\ errors' = errors
        /\ metas' = [metas EXCEPT ![expand].ended = TRUE]
    BY <1>9 DEF EndEach, EndBlock, In
  <2>2. expand = Top.meta BY <2>1, TopEach
  <2> QED BY <2>1, <2>2, EndTopClosed
<1>10. CASE Unclosed
  <2>1. frames # <<>> /\ Pop /\ metas' = metas /\ errors' # {} BY <1>10 DEF Unclosed
  <2>2. Depth - 1 \in 0 .. Depth /\ frames' = SubSeq(frames, 1, Depth - 1) BY <2>1, PopFacts DEF CoreInv, Pop
  <2> QED BY <2>1, <2>2, CutClosed
<1> QED BY <1>1, <1>2, <1>3, <1>4, <1>5, <1>6, <1>7, <1>8, <1>9, <1>10 DEF Next

LEMMA InitClosed == Init => ClosedInv /\ DoneInv
<1> SUFFICES ASSUME Init PROVE ClosedInv /\ DoneInv OBVIOUS
<1> DEFINE root == [kind |-> "root", ended |-> FALSE, next |-> 0, named |-> FALSE, list |-> <<>>]
<1>1. root.next = 0 OBVIOUS
<1>2. metas = <<root>> /\ frames = <<>> BY DEF Init
<1> HIDE DEF root
<1>3. Len(metas) = 1 /\ metas[1].next = 0 /\ Depth = 0 BY <1>1, <1>2 DEF Depth
<1>4. \A m \in 1 .. Len(metas) : m = 1 BY <1>3
<1>5. 1 .. Depth = {} /\ 2 .. Len(metas) = {} BY <1>3
<1>6. ClosedInv BY <1>3, <1>4, <1>5 DEF ClosedInv
<1> QED BY <1>2, <1>6 DEF DoneInv

LEMMA NextDone == DoneInv /\ [Next]_vars => DoneInv'
<1> SUFFICES ASSUME DoneInv, [Next]_vars PROVE DoneInv' OBVIOUS
<1>1. CASE Generate BY <1>1 DEF Generate, DoneInv
<1>2. CASE Crash BY <1>2 DEF Crash, DoneInv
<1>3. CASE Done \/ UNCHANGED vars BY <1>3 DEF Done, vars, DoneInv
<1>4. CASE If \/ Elif \/ Else \/ EndIf \/ StrayBranch
  BY <1>4 DEF If, Elif, Else, EndIf, StrayBranch, StartBranch, Any, Loop, Running, Stays, DoneInv
<1>5. CASE Expand \/ For \/ EndHeader \/ EndEach \/ Scope \/ EndScope
  BY <1>5 DEF Expand, For, EndHeader, EndEach, Scope, EndScope, EndBlock, Rest, Header, Any, Loop, Running, Stays, DoneInv
<1>6. CASE Inline \/ StrayEnd \/ Token \/ Unclosed
  BY <1>6 DEF Inline, StrayEnd, Token, Unclosed, AddToken, Rest, Any, Loop, Running, Stays, DoneInv
<1> QED BY <1>1, <1>2, <1>3, <1>4, <1>5, <1>6 DEF Next

\* A file is accepted without an error only when everything it opened is closed,
\* each branch by its # end if or by one alternative of its own.
THEOREM AcceptedClosed == Spec => []AcceptedIsClosed
<1>1. CoreInv /\ ClosedInv /\ DoneInv => AcceptedIsClosed
  <2> SUFFICES ASSUME CoreInv, ClosedInv, DoneInv, status = "generated", errors = {}, NEW m \in 2 .. Len(metas)
               PROVE  \/ metas[m].ended /\ metas[m].next = 0
                      \/ /\ ~metas[m].ended /\ metas[m].kind \in {"if", "elif"}
                         /\ metas[m].next > m /\ metas[metas[m].next].kind \in {"elif", "else"}
                         /\ \A n \in 2 .. Len(metas) : metas[n].next = metas[m].next => n = m
    BY DEF AcceptedIsClosed
  <2>1. Len(metas) \in Nat BY DEF CoreInv, TypeOK
  <2>2. \A n \in 2 .. Len(metas) : n \in 1 .. Len(metas) BY <2>1
  <2>3. 1 .. Depth = {} BY DEF DoneInv, Depth
  <2>4. metas[m].ended \/ metas[m].next # 0 BY <2>3 DEF ClosedInv, Runs
  <2>5. CASE metas[m].next = 0
    <3>1. metas[m].ended BY <2>4, <2>5, Zenon
    <3> QED BY <2>5, <3>1, Zenon
  <2>6. CASE metas[m].next # 0
    <3>1. Handover(m) BY <2>2, <2>6 DEF ClosedInv
    <3> QED BY <3>1, <2>2 DEF Handover
  <2> QED BY <2>5, <2>6
<1> QED BY <1>1, InitCore, NextCore, InitClosed, NextClosed, NextDone, PTL DEF Spec
=============================================================================
