---------------------------- MODULE ParserProofs ----------------------------
(***************************************************************************)
(* Proofs about Parser for every text: a break, a continue and a return    *)
(* are bound to the statement and the function they stand in, and a call   *)
(* gives the context back as it found it.                                  *)
(***************************************************************************)
EXTENDS Parser, SequenceTheorems, FiniteSetTheorems, WellFoundedInduction, TLAPS

------------------------------------------------------------------------------
(* What a function does to its context. Between two of its steps it is in  *)
(* a mode: whether it has entered a scope, and whether it has set the      *)
(* target of break or of return that it is about.                          *)

Class(f) == IF f \in Breaking_ THEN "breaking"
            ELSE IF f \in Returning THEN "returning" ELSE "plain"
Classes == {"outside", "plain", "breaking", "returning"}
Modes == [class : Classes, inside : BOOLEAN, set : BOOLEAN]
Mode(c, i, s) == [class |-> c, inside |-> i, set |-> s]
Rest(c) == Mode(c, FALSE, FALSE)

\* A function that is about a target has set it before it calls or binds anything.
Settled(m) == m.class \in {"breaking", "returning"} => m.set
Named(f) == f \in DOMAIN Function

IsSeq(c) == \E S : c \in Seq(S)

\* Steps that leave the mode alone, and those before which the target must be set.
Quiet    == {"match", "expect", "expect any", "name", "next", "back", "error", "assert",
             "define", "define as", "abi", "operand", "operator"}
Settling == {"call", "binary", "operations", "tails", "bind"}

\* The marks of loops and calls, which are not steps of a function.
Marks == {"again", "ret"}

\* In J, the code c leads from mode m to mode n. L holds the mode in which the loop
\* around it comes round, and is empty outside of loops.
Along(J, c, m, n, L) ==
  /\ IsSeq(c)
  /\ \E M \in [1 .. Len(c) + 1 -> Modes] :
       /\ M[1] = m /\ M[Len(c) + 1] = n
       /\ \A i \in 1 .. Len(c) : <<c[i], M[i], M[i + 1], L>> \in J

\* The step s may lead from mode m to mode k, if J says so of the steps inside it.
Judged(J, s, m, k, L) ==
  /\ s.do \notin Marks /\ m \in Modes /\ k \in Modes /\ k.class = m.class
  /\ s.do \in Quiet => k = m
  /\ s.do \in Settling => k = m /\ Settled(m)
  /\ s.do \in {"call", "binary"} => Named(s.f)
  /\ s.do = "if" => Along(J, s.then, m, k, L) /\ Along(J, s.else, m, k, L)
  /\ s.do = "either" => Along(J, s.one, m, k, L) /\ Along(J, s.other, m, k, L)
  /\ s.do = "loop" => k = m /\ Along(J, s.body, m, m, {m})
  /\ s.do \in {"break", "continue"} => m \in L
  /\ s.do = "separator" => k = m /\ m \in L
  /\ s.do = "return" => m = Rest(m.class) /\ m.class # "outside"
  /\ s.do = "enter" => ~m.inside /\ k = Mode(m.class, TRUE, m.set)
  /\ s.do = "exit" => m.inside /\ k = Mode(m.class, FALSE, m.set)
  /\ s.do = "breakable" => m.class = "breaking" /\ k = Mode(m.class, m.inside, TRUE)
  /\ s.do = "returnable" => m.class = "returning" /\ k = Mode(m.class, m.inside, TRUE)
  /\ s.do = "restore" => m.class # "outside" /\ k = Mode(m.class, m.inside, FALSE)

Closed(J) == \A s, m, k, L : <<s, m, k, L>> \in J => Judged(J, s, m, k, L)
Steps(s, m, k, L) == \E J : Closed(J) /\ <<s, m, k, L>> \in J
Leads(c, m, n, L) == \E J : Closed(J) /\ Along(J, c, m, n, L)

LEMMA PathGrows ==
  ASSUME NEW J, NEW K, J \subseteq K, NEW c, NEW m, NEW n, NEW L, Along(J, c, m, n, L)
  PROVE  Along(K, c, m, n, L)
BY DEF Along

LEMMA JudgedGrows ==
  ASSUME NEW J, NEW K, J \subseteq K, NEW s, NEW m, NEW k, NEW L, Judged(J, s, m, k, L)
  PROVE  Judged(K, s, m, k, L)
BY PathGrows DEF Judged

LEMMA ClosedUnion ==
  ASSUME NEW F, \A J \in F : Closed(J)
  PROVE  Closed(UNION F)
<1> SUFFICES ASSUME NEW s, NEW m, NEW k, NEW L, <<s, m, k, L>> \in UNION F
             PROVE  Judged(UNION F, s, m, k, L)
  BY DEF Closed
<1>1. PICK J \in F : <<s, m, k, L>> \in J
  OBVIOUS
<1>2. Judged(J, s, m, k, L) /\ J \subseteq UNION F
  BY <1>1 DEF Closed
<1> QED
  BY <1>2, JudgedGrows

\* A step is one by its own rule, if the steps inside it are.
LEMMA Adjoin ==
  ASSUME NEW J, Closed(J), NEW s, NEW m, NEW k, NEW L, Judged(J, s, m, k, L)
  PROVE  Steps(s, m, k, L)
<1> DEFINE K == J \cup {<<s, m, k, L>>}
<1>1. J \subseteq K
  OBVIOUS
<1>2. ASSUME NEW t, NEW a, NEW b, NEW C, <<t, a, b, C>> \in K
      PROVE  Judged(K, t, a, b, C)
  <2>1. CASE <<t, a, b, C>> \in J
    BY <2>1, <1>1, JudgedGrows DEF Closed
  <2>2. CASE <<t, a, b, C>> = <<s, m, k, L>>
    <3>1. t = s /\ a = m /\ b = k /\ C = L
      BY <2>2
    <3> HIDE DEF K
    <3> QED
      BY <3>1, <1>1, JudgedGrows
  <2> QED
    BY <1>2, <2>1, <2>2
<1>3. Closed(K)
  BY <1>2 DEF Closed
<1> QED
  BY <1>3 DEF Steps

LEMMA NothingClosed == Closed({})
BY DEF Closed

LEMMA Alone ==
  ASSUME NEW s, NEW m, NEW k, NEW L, Judged({}, s, m, k, L)
  PROVE  Steps(s, m, k, L)
BY Adjoin, NothingClosed

LEMMA StepsJudged ==
  ASSUME NEW s, NEW m, NEW k, NEW L, Steps(s, m, k, L)
  PROVE  \E J : Closed(J) /\ Judged(J, s, m, k, L)
BY DEF Steps, Closed

LEMMA StepsModes ==
  ASSUME NEW s, NEW m, NEW k, NEW L, Steps(s, m, k, L)
  PROVE  s.do \notin Marks /\ m \in Modes /\ k \in Modes /\ k.class = m.class
<1>1. PICK J : Closed(J) /\ Judged(J, s, m, k, L)
  BY StepsJudged
<1> QED
  BY <1>1 DEF Judged

LEMMA JoinedPaths ==
  ASSUME NEW c, NEW m, NEW n, NEW L, Leads(c, m, n, L),
         NEW d, NEW a, NEW b, NEW K, Leads(d, a, b, K)
  PROVE  \E J : Closed(J) /\ Along(J, c, m, n, L) /\ Along(J, d, a, b, K)
<1>1. PICK J1 : Closed(J1) /\ Along(J1, c, m, n, L)
  BY DEF Leads
<1>2. PICK J2 : Closed(J2) /\ Along(J2, d, a, b, K)
  BY DEF Leads
<1> DEFINE J == UNION {J1, J2}
<1>3. Closed(J)
  BY <1>1, <1>2, ClosedUnion
<1>4. J1 \subseteq J /\ J2 \subseteq J
  OBVIOUS
<1>5. Along(J, c, m, n, L)
  BY <1>1, <1>4, PathGrows
<1>6. Along(J, d, a, b, K)
  BY <1>2, <1>4, PathGrows
<1> QED
  BY <1>3, <1>5, <1>6

\* Code leads along the modes its steps lead along.
LEMMA Walk ==
  ASSUME NEW c, IsSeq(c), NEW L, NEW M \in [1 .. Len(c) + 1 -> Modes],
         \A i \in 1 .. Len(c) : Steps(c[i], M[i], M[i + 1], L)
  PROVE  Leads(c, M[1], M[Len(c) + 1], L)
<1> DEFINE D == [i \in 1 .. Len(c) |-> CHOOSE J : Closed(J) /\ <<c[i], M[i], M[i + 1], L>> \in J]
           J == UNION {D[i] : i \in 1 .. Len(c)}
<1>1. \A i \in 1 .. Len(c) : Closed(D[i]) /\ <<c[i], M[i], M[i + 1], L>> \in D[i]
  BY DEF Steps
<1>2. Closed(J)
  BY <1>1, ClosedUnion
<1>3. \A i \in 1 .. Len(c) : <<c[i], M[i], M[i + 1], L>> \in J
  BY <1>1
<1>4. Along(J, c, M[1], M[Len(c) + 1], L)
  BY <1>3 DEF Along
<1> QED
  BY <1>2, <1>4 DEF Leads

LEMMA Walked ==
  ASSUME NEW c, NEW m, NEW n, NEW L, Leads(c, m, n, L)
  PROVE  /\ IsSeq(c)
         /\ \E M \in [1 .. Len(c) + 1 -> Modes] :
              /\ M[1] = m /\ M[Len(c) + 1] = n
              /\ \A i \in 1 .. Len(c) : Steps(c[i], M[i], M[i + 1], L)
BY DEF Leads, Along, Steps

------------------------------------------------------------------------------
(* The rules of code: of sequences, and one for each kind of step.         *)

LEMMA SeqOf2 ==
  ASSUME NEW c, IsSeq(c), NEW d, IsSeq(d)
  PROVE  \E S : c \in Seq(S) /\ d \in Seq(S)
<1>1. PICK S : c \in Seq(S)
  BY DEF IsSeq
<1>2. PICK R : d \in Seq(R)
  BY DEF IsSeq
<1>3. c \in Seq(S \cup R) /\ d \in Seq(S \cup R)
  BY <1>1, <1>2, SeqMonotonic
<1> QED
  BY <1>3

LEMMA LeadsNowhere ==
  ASSUME NEW m \in Modes, NEW L
  PROVE  Leads(<<>>, m, m, L)
<1> DEFINE M == [i \in 1 .. 1 |-> m]
<1>1. IsSeq(<<>>) /\ Len(<<>>) = 0
  BY EmptySeq DEF IsSeq
<1>2. M \in [1 .. Len(<<>>) + 1 -> Modes] /\ M[1] = m /\ M[Len(<<>>) + 1] = m
  BY <1>1
<1>3. \A i \in 1 .. Len(<<>>) : Steps(<<>>[i], M[i], M[i + 1], L)
  BY <1>1
<1> HIDE DEF M
<1>4. Leads(<<>>, M[1], M[Len(<<>>) + 1], L)
  BY <1>1, <1>2, <1>3, Walk
<1> QED
  BY <1>2, <1>4

LEMMA LeadsModes ==
  ASSUME NEW c, NEW m, NEW n, NEW L, Leads(c, m, n, L)
  PROVE  IsSeq(c) /\ m \in Modes /\ n \in Modes
<1>1. IsSeq(c)
  BY Walked
<1>2. Len(c) \in Nat
  BY <1>1, LenProperties DEF IsSeq
<1>3. PICK M \in [1 .. Len(c) + 1 -> Modes] : M[1] = m /\ M[Len(c) + 1] = n
  BY Walked
<1> QED
  BY <1>1, <1>2, <1>3

LEMMA LeadsOn ==
  ASSUME NEW c, NEW m, NEW n, NEW L, Leads(c, m, n, L), NEW d, NEW k, Leads(d, n, k, L)
  PROVE  Leads(c \o d, m, k, L)
<1>1. PICK S : c \in Seq(S) /\ d \in Seq(S)
  BY LeadsModes, SeqOf2
<1>2. PICK M \in [1 .. Len(c) + 1 -> Modes] :
        /\ M[1] = m /\ M[Len(c) + 1] = n
        /\ \A i \in 1 .. Len(c) : Steps(c[i], M[i], M[i + 1], L)
  BY Walked
<1>3. PICK K \in [1 .. Len(d) + 1 -> Modes] :
        /\ K[1] = n /\ K[Len(d) + 1] = k
        /\ \A i \in 1 .. Len(d) : Steps(d[i], K[i], K[i + 1], L)
  BY Walked
<1> DEFINE e == c \o d
           P == [i \in 1 .. Len(e) + 1 |-> IF i <= Len(c) THEN M[i] ELSE K[i - Len(c)]]
<1>4. /\ e \in Seq(S) /\ Len(e) = Len(c) + Len(d)
      /\ \A i \in 1 .. Len(c) + Len(d) : e[i] = IF i <= Len(c) THEN c[i] ELSE d[i - Len(c)]
      /\ Len(c) \in Nat /\ Len(d) \in Nat
  BY <1>1, ConcatProperties, LenProperties
<1> HIDE DEF e
<1>5. P \in [1 .. Len(e) + 1 -> Modes] /\ P[1] = m /\ P[Len(e) + 1] = k
  BY <1>2, <1>3, <1>4
<1>6. ASSUME NEW i \in 1 .. Len(e) PROVE Steps(e[i], P[i], P[i + 1], L)
  <2>1. CASE i < Len(c)
    <3>1. P[i] = M[i] /\ P[i + 1] = M[i + 1] /\ e[i] = c[i] /\ i \in 1 .. Len(c)
      BY <2>1, <1>4
    <3> HIDE DEF P
    <3> QED
      BY <3>1, <1>2
  <2>2. CASE i = Len(c)
    <3>1. (i + 1) - Len(c) = 1 /\ ~(i + 1 <= Len(c)) /\ i <= Len(c) /\ i + 1 \in 1 .. Len(e) + 1
      BY <2>2, <1>4
    <3>2. P[i] = M[i] /\ P[i + 1] = K[1] /\ e[i] = c[i] /\ M[i + 1] = K[1] /\ i \in 1 .. Len(c)
      BY <2>2, <3>1, <1>2, <1>3, <1>4
    <3> HIDE DEF P
    <3> QED
      BY <3>2, <1>2
  <2>3. CASE i > Len(c)
    <3>1. i - Len(c) \in 1 .. Len(d) /\ (i + 1) - Len(c) = (i - Len(c)) + 1
      BY <2>3, <1>4
    <3>2. P[i] = K[i - Len(c)] /\ P[i + 1] = K[(i - Len(c)) + 1] /\ e[i] = d[i - Len(c)]
      BY <2>3, <3>1, <1>4
    <3> HIDE DEF P
    <3> QED
      BY <3>1, <3>2, <1>3
  <2> QED
    BY <1>4, <2>1, <2>2, <2>3
<1> HIDE DEF P
<1>7. IsSeq(e)
  BY <1>4 DEF IsSeq
<1>8. Leads(e, P[1], P[Len(e) + 1], L)
  BY <1>5, <1>6, <1>7, Walk
<1> QED
  BY <1>5, <1>8 DEF e

LEMMA LeadsOne ==
  ASSUME NEW a, NEW m, NEW n, NEW L, Steps(a, m, n, L)
  PROVE  Leads(<<a>>, m, n, L)
<1> DEFINE M == [i \in 1 .. 2 |-> IF i = 1 THEN m ELSE n]
<1>1. <<a>> \in Seq({a}) /\ Len(<<a>>) = 1 /\ <<a>>[1] = a
  OBVIOUS
<1>2. m \in Modes /\ n \in Modes
  BY StepsJudged DEF Judged
<1>3. M \in [1 .. Len(<<a>>) + 1 -> Modes] /\ M[1] = m /\ M[2] = n /\ Len(<<a>>) + 1 = 2
  BY <1>1, <1>2
<1>4. \A i \in 1 .. Len(<<a>>) : Steps(<<a>>[i], M[i], M[i + 1], L)
  BY <1>1, <1>3
<1>5. IsSeq(<<a>>)
  BY <1>1 DEF IsSeq
<1> HIDE DEF M
<1> QED
  BY <1>3, <1>4, <1>5, Walk

\* Code whose steps all stay in one mode, of any length.
LEMMA Stays ==
  ASSUME NEW S, NEW c \in Seq(S), NEW m \in Modes, NEW L, \A s \in S : Steps(s, m, m, L)
  PROVE  Leads(c, m, m, L)
<1> DEFINE M == [i \in 1 .. Len(c) + 1 |-> m]
<1>1. Len(c) \in Nat /\ \A i \in 1 .. Len(c) : c[i] \in S
  BY LenProperties, ElementOfSeq
<1>2. M \in [1 .. Len(c) + 1 -> Modes] /\ M[1] = m /\ M[Len(c) + 1] = m
  BY <1>1
<1>3. \A i \in 1 .. Len(c) : Steps(c[i], M[i], M[i + 1], L)
  BY <1>1
<1>4. IsSeq(c)
  BY DEF IsSeq
<1> HIDE DEF M
<1> QED
  BY <1>2, <1>3, <1>4, Walk

\* The rules of code that stays in one mode, and of the steps in it.
StaysRules(m) ==
  /\ \A L : Leads(<<>>, m, m, L)
  /\ \A s1, L :
       Steps(s1, m, m, L)
         => Leads(<<s1>>, m, m, L)
  /\ \A s1, s2, L :
       Steps(s1, m, m, L) /\ Steps(s2, m, m, L)
         => Leads(<<s1, s2>>, m, m, L)
  /\ \A s1, s2, s3, L :
       Steps(s1, m, m, L) /\ Steps(s2, m, m, L) /\ Steps(s3, m, m, L)
         => Leads(<<s1, s2, s3>>, m, m, L)
  /\ \A s1, s2, s3, s4, L :
       Steps(s1, m, m, L) /\ Steps(s2, m, m, L) /\ Steps(s3, m, m, L) /\ Steps(s4, m, m, L)
         => Leads(<<s1, s2, s3, s4>>, m, m, L)
  /\ \A s1, s2, s3, s4, s5, L :
       Steps(s1, m, m, L) /\ Steps(s2, m, m, L) /\ Steps(s3, m, m, L) /\ Steps(s4, m, m, L) /\ Steps(s5, m, m, L)
         => Leads(<<s1, s2, s3, s4, s5>>, m, m, L)
  /\ \A s1, s2, s3, s4, s5, s6, L :
       Steps(s1, m, m, L) /\ Steps(s2, m, m, L) /\ Steps(s3, m, m, L) /\ Steps(s4, m, m, L) /\ Steps(s5, m, m, L) /\ Steps(s6, m, m, L)
         => Leads(<<s1, s2, s3, s4, s5, s6>>, m, m, L)
  /\ \A s1, s2, s3, s4, s5, s6, s7, L :
       Steps(s1, m, m, L) /\ Steps(s2, m, m, L) /\ Steps(s3, m, m, L) /\ Steps(s4, m, m, L) /\ Steps(s5, m, m, L) /\ Steps(s6, m, m, L) /\ Steps(s7, m, m, L)
         => Leads(<<s1, s2, s3, s4, s5, s6, s7>>, m, m, L)
  /\ \A s1, s2, s3, s4, s5, s6, s7, s8, L :
       Steps(s1, m, m, L) /\ Steps(s2, m, m, L) /\ Steps(s3, m, m, L) /\ Steps(s4, m, m, L) /\ Steps(s5, m, m, L) /\ Steps(s6, m, m, L) /\ Steps(s7, m, m, L) /\ Steps(s8, m, m, L)
         => Leads(<<s1, s2, s3, s4, s5, s6, s7, s8>>, m, m, L)
  /\ \A c, d, L : Leads(c, m, m, L) /\ Leads(d, m, m, L) => Leads(c \o d, m, m, L)

LEMMA StaysHold == ASSUME NEW m \in Modes PROVE StaysRules(m)
<1>1. \A L : Leads(<<>>, m, m, L)
  BY LeadsNowhere
<1>2. ASSUME NEW s1, NEW L,
            Steps(s1, m, m, L)
      PROVE  Leads(<<s1>>, m, m, L)
  <2> DEFINE S == {s1}
             c == <<s1>>
  <2>1. c \in Seq(S)
    OBVIOUS
  <2>2. \A s \in S : Steps(s, m, m, L)
    BY <1>2
  <2> HIDE DEF S, c
  <2>3. Leads(c, m, m, L)
    BY <2>1, <2>2, Stays
  <2> QED
    BY <2>3 DEF c
<1>3. ASSUME NEW s1, NEW s2, NEW L,
            Steps(s1, m, m, L), Steps(s2, m, m, L)
      PROVE  Leads(<<s1, s2>>, m, m, L)
  <2> DEFINE S == {s1, s2}
             c == <<s1, s2>>
  <2>1. c \in Seq(S)
    OBVIOUS
  <2>2. \A s \in S : Steps(s, m, m, L)
    BY <1>3
  <2> HIDE DEF S, c
  <2>3. Leads(c, m, m, L)
    BY <2>1, <2>2, Stays
  <2> QED
    BY <2>3 DEF c
<1>4. ASSUME NEW s1, NEW s2, NEW s3, NEW L,
            Steps(s1, m, m, L), Steps(s2, m, m, L), Steps(s3, m, m, L)
      PROVE  Leads(<<s1, s2, s3>>, m, m, L)
  <2> DEFINE S == {s1, s2, s3}
             c == <<s1, s2, s3>>
  <2>1. c \in Seq(S)
    OBVIOUS
  <2>2. \A s \in S : Steps(s, m, m, L)
    BY <1>4
  <2> HIDE DEF S, c
  <2>3. Leads(c, m, m, L)
    BY <2>1, <2>2, Stays
  <2> QED
    BY <2>3 DEF c
<1>5. ASSUME NEW s1, NEW s2, NEW s3, NEW s4, NEW L,
            Steps(s1, m, m, L), Steps(s2, m, m, L), Steps(s3, m, m, L), Steps(s4, m, m, L)
      PROVE  Leads(<<s1, s2, s3, s4>>, m, m, L)
  <2> DEFINE S == {s1, s2, s3, s4}
             c == <<s1, s2, s3, s4>>
  <2>1. c \in Seq(S)
    OBVIOUS
  <2>2. \A s \in S : Steps(s, m, m, L)
    BY <1>5
  <2> HIDE DEF S, c
  <2>3. Leads(c, m, m, L)
    BY <2>1, <2>2, Stays
  <2> QED
    BY <2>3 DEF c
<1>6. ASSUME NEW s1, NEW s2, NEW s3, NEW s4, NEW s5, NEW L,
            Steps(s1, m, m, L), Steps(s2, m, m, L), Steps(s3, m, m, L), Steps(s4, m, m, L), Steps(s5, m, m, L)
      PROVE  Leads(<<s1, s2, s3, s4, s5>>, m, m, L)
  <2> DEFINE S == {s1, s2, s3, s4, s5}
             c == <<s1, s2, s3, s4, s5>>
  <2>1. c \in Seq(S)
    OBVIOUS
  <2>2. \A s \in S : Steps(s, m, m, L)
    BY <1>6
  <2> HIDE DEF S, c
  <2>3. Leads(c, m, m, L)
    BY <2>1, <2>2, Stays
  <2> QED
    BY <2>3 DEF c
<1>7. ASSUME NEW s1, NEW s2, NEW s3, NEW s4, NEW s5, NEW s6, NEW L,
            Steps(s1, m, m, L), Steps(s2, m, m, L), Steps(s3, m, m, L), Steps(s4, m, m, L), Steps(s5, m, m, L), Steps(s6, m, m, L)
      PROVE  Leads(<<s1, s2, s3, s4, s5, s6>>, m, m, L)
  <2> DEFINE S == {s1, s2, s3, s4, s5, s6}
             c == <<s1, s2, s3, s4, s5, s6>>
  <2>1. c \in Seq(S)
    OBVIOUS
  <2>2. \A s \in S : Steps(s, m, m, L)
    BY <1>7
  <2> HIDE DEF S, c
  <2>3. Leads(c, m, m, L)
    BY <2>1, <2>2, Stays
  <2> QED
    BY <2>3 DEF c
<1>8. ASSUME NEW s1, NEW s2, NEW s3, NEW s4, NEW s5, NEW s6, NEW s7, NEW L,
            Steps(s1, m, m, L), Steps(s2, m, m, L), Steps(s3, m, m, L), Steps(s4, m, m, L), Steps(s5, m, m, L), Steps(s6, m, m, L), Steps(s7, m, m, L)
      PROVE  Leads(<<s1, s2, s3, s4, s5, s6, s7>>, m, m, L)
  <2> DEFINE S == {s1, s2, s3, s4, s5, s6, s7}
             c == <<s1, s2, s3, s4, s5, s6, s7>>
  <2>1. c \in Seq(S)
    OBVIOUS
  <2>2. \A s \in S : Steps(s, m, m, L)
    BY <1>8
  <2> HIDE DEF S, c
  <2>3. Leads(c, m, m, L)
    BY <2>1, <2>2, Stays
  <2> QED
    BY <2>3 DEF c
<1>9. ASSUME NEW s1, NEW s2, NEW s3, NEW s4, NEW s5, NEW s6, NEW s7, NEW s8, NEW L,
            Steps(s1, m, m, L), Steps(s2, m, m, L), Steps(s3, m, m, L), Steps(s4, m, m, L), Steps(s5, m, m, L), Steps(s6, m, m, L), Steps(s7, m, m, L), Steps(s8, m, m, L)
      PROVE  Leads(<<s1, s2, s3, s4, s5, s6, s7, s8>>, m, m, L)
  <2> DEFINE S == {s1, s2, s3, s4, s5, s6, s7, s8}
             c == <<s1, s2, s3, s4, s5, s6, s7, s8>>
  <2>1. c \in Seq(S)
    OBVIOUS
  <2>2. \A s \in S : Steps(s, m, m, L)
    BY <1>9
  <2> HIDE DEF S, c
  <2>3. Leads(c, m, m, L)
    BY <2>1, <2>2, Stays
  <2> QED
    BY <2>3 DEF c
<1>10. \A c, d, L : Leads(c, m, m, L) /\ Leads(d, m, m, L) => Leads(c \o d, m, m, L)
  BY LeadsOn
<1> QED
  BY <1>1, <1>2, <1>3, <1>4, <1>5, <1>6, <1>7, <1>8, <1>9, <1>10 DEF StaysRules

\* A branch leads where both of its sides lead.
LEMMA IfLeads ==
  ASSUME NEW c, NEW a, NEW b, NEW m, NEW k, NEW L, k.class = m.class,
         Leads(a, m, k, L), Leads(b, m, k, L)
  PROVE  Steps(If(c, a, b), m, k, L)
<1>1. PICK J : Closed(J) /\ Along(J, a, m, k, L) /\ Along(J, b, m, k, L)
  BY JoinedPaths
<1>2. m \in Modes /\ k \in Modes
  BY LeadsModes
<1>3. Judged(J, If(c, a, b), m, k, L)
  BY <1>1, <1>2 DEF Judged, If, Quiet, Settling, Marks
<1> QED
  BY <1>1, <1>3, Adjoin

LEMMA EitherLeads ==
  ASSUME NEW a, NEW b, NEW m, NEW k, NEW L, k.class = m.class,
         Leads(a, m, k, L), Leads(b, m, k, L)
  PROVE  Steps(Either(a, b), m, k, L)
<1>1. PICK J : Closed(J) /\ Along(J, a, m, k, L) /\ Along(J, b, m, k, L)
  BY JoinedPaths
<1>2. m \in Modes /\ k \in Modes
  BY LeadsModes
<1>3. Judged(J, Either(a, b), m, k, L)
  BY <1>1, <1>2 DEF Judged, Either, Quiet, Settling, Marks
<1> QED
  BY <1>1, <1>3, Adjoin

LEMMA LoopLeads ==
  ASSUME NEW b, NEW m, NEW L, Leads(b, m, m, {m})
  PROVE  Steps(Loop(b), m, m, L)
<1>1. PICK J : Closed(J) /\ Along(J, b, m, m, {m})
  BY DEF Leads
<1>2. m \in Modes
  BY LeadsModes
<1>3. Judged(J, Loop(b), m, m, L)
  BY <1>1, <1>2 DEF Judged, Loop, Quiet, Settling, Marks
<1> QED
  BY <1>1, <1>3, Adjoin

\* A return, which is only made where the context is as it was found, leads anywhere.
LEMMA ReturnLeads ==
  ASSUME NEW m \in Modes, NEW k \in Modes, k.class = m.class, NEW L,
         m = Rest(m.class), m.class # "outside", NEW r
  PROVE  Steps(Return(r), m, k, L)
<1>1. Judged({}, Return(r), m, k, L)
  BY DEF Judged, Return, Quiet, Settling, Marks
<1> QED
  BY <1>1, Alone

\* The rules of the steps, where they stay in one mode.
QuietRules(m) ==
  /\ \A K, L : Steps(Match(K), m, m, L)
  /\ \A K, L : Steps(Expect(K), m, m, L)
  /\ \A K, L : Steps(ExpectAny(K), m, m, L)
  /\ \A L : Steps(Next_, m, m, L)
  /\ \A L : Steps(StepBack, m, m, L)
  /\ \A L : Steps(Name, m, m, L)
  /\ \A L : Steps(Error, m, m, L)
  /\ \A c, L : Steps(Assert(c), m, m, L)
  /\ \A L : Steps(Define, m, m, L)
  /\ \A n, L : Steps(DefineAs(n), m, m, L)
  /\ \A b, L : Steps(Abi(b), m, m, L)
  /\ \A L : Steps(Operand, m, m, L)
  /\ \A o, n, L : Steps(Operator(o, n), m, m, L)
  /\ \A L : Steps(Throw, m, m, L)
  /\ \A L : Steps(Stop, m, m, L)
  /\ \A L : Steps(Crash, m, m, L)

LEMMA QuietHold == ASSUME NEW m \in Modes PROVE QuietRules(m)
<1>1. \A K, L : Judged({}, Match(K), m, m, L)
  BY DEF Judged, Quiet, Settling, Marks, Match
<1>2. \A K, L : Judged({}, Expect(K), m, m, L)
  BY DEF Judged, Quiet, Settling, Marks, Expect
<1>3. \A K, L : Judged({}, ExpectAny(K), m, m, L)
  BY DEF Judged, Quiet, Settling, Marks, ExpectAny
<1>4. \A L : Judged({}, Next_, m, m, L)
  BY DEF Judged, Quiet, Settling, Marks, Next_
<1>5. \A L : Judged({}, StepBack, m, m, L)
  BY DEF Judged, Quiet, Settling, Marks, StepBack
<1>6. \A L : Judged({}, Name, m, m, L)
  BY DEF Judged, Quiet, Settling, Marks, Name
<1>7. \A L : Judged({}, Error, m, m, L)
  BY DEF Judged, Quiet, Settling, Marks, Error
<1>8. \A c, L : Judged({}, Assert(c), m, m, L)
  BY DEF Judged, Quiet, Settling, Marks, Assert
<1>9. \A L : Judged({}, Define, m, m, L)
  BY DEF Judged, Quiet, Settling, Marks, Define
<1>10. \A n, L : Judged({}, DefineAs(n), m, m, L)
  BY DEF Judged, Quiet, Settling, Marks, DefineAs
<1>11. \A b, L : Judged({}, Abi(b), m, m, L)
  BY DEF Judged, Quiet, Settling, Marks, Abi
<1>12. \A L : Judged({}, Operand, m, m, L)
  BY DEF Judged, Quiet, Settling, Marks, Operand
<1>13. \A o, n, L : Judged({}, Operator(o, n), m, m, L)
  BY DEF Judged, Quiet, Settling, Marks, Operator
<1>14. \A L : Judged({}, Throw, m, m, L)
  BY DEF Judged, Quiet, Settling, Marks, Throw
<1>15. \A L : Judged({}, Stop, m, m, L)
  BY DEF Judged, Quiet, Settling, Marks, Stop
<1>16. \A L : Judged({}, Crash, m, m, L)
  BY DEF Judged, Quiet, Settling, Marks, Crash
<1> QED
  BY Alone, <1>1, <1>2, <1>3, <1>4, <1>5, <1>6, <1>7, <1>8, <1>9, <1>10, <1>11, <1>12, <1>13, <1>14, <1>15, <1>16 DEF QuietRules

BranchRules(m) ==
  /\ \A c, a, b, L : Leads(a, m, m, L) /\ Leads(b, m, m, L) => Steps(If(c, a, b), m, m, L)
  /\ \A c, a, L : Leads(a, m, m, L) => Steps(When(c, a), m, m, L)
  /\ \A c, a, L : Leads(a, m, m, L) => Steps(Unless(c, a), m, m, L)
  /\ \A a, b, L : Leads(a, m, m, L) /\ Leads(b, m, m, L) => Steps(Either(a, b), m, m, L)
  /\ \A b, L : Leads(b, m, m, {m}) => Steps(Loop(b), m, m, L)
  /\ Steps(Break, m, m, {m}) /\ Steps(Continue, m, m, {m})
  /\ \A K, E : Steps(Separator(K, E), m, m, {m})
  /\ \A E : Steps(End(E), m, m, {m})
  /\ \A L : Leads(Undefinable, m, m, L)

LEMMA BranchHold == ASSUME NEW m \in Modes PROVE BranchRules(m)
<1>1. \A L : Leads(<<>>, m, m, L)
  BY LeadsNowhere
<1>2. \A c, a, b, L : Leads(a, m, m, L) /\ Leads(b, m, m, L) => Steps(If(c, a, b), m, m, L)
  BY IfLeads
<1>3. Judged({}, Break, m, m, {m}) /\ Judged({}, Continue, m, m, {m})
  BY DEF Judged, Quiet, Settling, Marks, Break, Continue
<1>4. \A K, E : Judged({}, Separator(K, E), m, m, {m})
  BY DEF Judged, Quiet, Settling, Marks, Separator
<1>5. \A E : Judged({}, End(E), m, m, {m})
  BY DEF Judged, Quiet, Settling, Marks, End
<1>6. Steps(Break, m, m, {m}) /\ Steps(Continue, m, m, {m})
  BY <1>3, Alone
<1>7. \A K, E : Steps(Separator(K, E), m, m, {m})
  BY <1>4, Alone
<1>8. \A E : Steps(End(E), m, m, {m})
  BY <1>5, Alone
<1>9. \A a, b, L : Leads(a, m, m, L) /\ Leads(b, m, m, L) => Steps(Either(a, b), m, m, L)
  BY EitherLeads
<1>10. \A b, L : Leads(b, m, m, {m}) => Steps(Loop(b), m, m, L)
  BY LoopLeads
<1>11. \A c, a, L : Leads(a, m, m, L) => Steps(When(c, a), m, m, L)
  BY <1>1, <1>2 DEF When
<1>12. \A c, a, L : Leads(a, m, m, L) => Steps(Unless(c, a), m, m, L)
  BY <1>1, <1>2 DEF Unless
<1>13. \A L : Leads(Undefinable, m, m, L)
  BY StaysHold, QuietHold, <1>9 DEF Undefinable, StaysRules, QuietRules
<1> QED
  BY <1>2, <1>6, <1>7, <1>8, <1>9, <1>10, <1>11, <1>12, <1>13 DEF BranchRules

\* Where the target is set, and where the context is as it was found.
CallRules(m) ==
  /\ \A f, L : Named(f) => Steps(Call(f), m, m, L)
  /\ \A f, L : Named(f) => Steps(Binary(f), m, m, L)
  /\ \A k, L : Steps(Operations(k), m, m, L)
  /\ \A j, k, L : Steps(Tails(j, k), m, m, L)
  /\ \A L : Steps(Bind, m, m, L)

LEMMA CallHold == ASSUME NEW m \in Modes, Settled(m) PROVE CallRules(m)
<1>1. \A f, L : Named(f) => Judged({}, Call(f), m, m, L)
  BY DEF Judged, Quiet, Settling, Marks, Call
<1>2. \A f, L : Named(f) => Judged({}, Binary(f), m, m, L)
  BY DEF Judged, Quiet, Settling, Marks, Binary
<1>3. \A k, L : Judged({}, Operations(k), m, m, L)
  BY DEF Judged, Quiet, Settling, Marks, Operations
<1>4. \A j, k, L : Judged({}, Tails(j, k), m, m, L)
  BY DEF Judged, Quiet, Settling, Marks, Tails
<1>5. \A L : Judged({}, Bind, m, m, L)
  BY DEF Judged, Quiet, Settling, Marks, Bind
<1> QED
  BY Alone, <1>1, <1>2, <1>3, <1>4, <1>5 DEF CallRules

ReturnRules(m) ==
  /\ \A r, L : Steps(Return(r), m, m, L)
  /\ \A f, L : Named(f) => Leads(Become(f), m, m, L)
  /\ \A f, L : Named(f) => Leads(Try(f), m, m, L)

LEMMA ReturnHold ==
  ASSUME NEW m \in Modes, Settled(m), m = Rest(m.class), m.class # "outside"
  PROVE  ReturnRules(m)
<1> USE StaysHold, BranchHold, CallHold
<1>1. \A r, L : Steps(Return(r), m, m, L)
  BY ReturnLeads
<1>2. \A f, L : Named(f) => Leads(Become(f), m, m, L)
  BY <1>1 DEF Become, StaysRules, CallRules
<1>3. \A f, L : Named(f) => Leads(Try(f), m, m, L)
  BY <1>1 DEF Try, StaysRules, CallRules, BranchRules
<1> QED
  BY <1>1, <1>2, <1>3 DEF ReturnRules

------------------------------------------------------------------------------
(* The functions of the parser, file by file.                              *)

\* The functions that may be called.
Names ==
  {"_module", "_rule_case", "_union", "assignment", "base_expression", "call_arguments",
   "call_contract", "capability", "cast_as", "codeblock", "codeblock_no_both",
   "codeblock_no_export", "enumeration", "extend_cast", "extend_fn", "extend_op_bin",
   "extend_op_other", "extend_op_subscript", "extend_op_transfert", "extend_op_un",
   "facet", "facet_pattern", "facet_pattern_of_match", "flag", "for_statement", "form",
   "format_specifier", "function", "function_call", "generic", "getbits",
   "global_variable", "goto_label_statement", "id_type", "identifier",
   "identifier_keyword", "identifier_simple", "identifier_typed", "if_statement",
   "if_ternary", "lambda", "lambda_capture", "literal", "literal_decimal",
   "literal_facet", "literal_form", "literal_numeric", "literal_range", "literal_record",
   "literal_silent", "literal_table", "literal_textual", "literal_tuple",
   "loop_statement", "match_statement", "member_access", "new_ptr", "parameters",
   "parse_codeblock_instruction", "parse_declaration", "parse_evaluator", "parse_export",
   "parse_expression", "parse_expression_term", "parse_extension", "parse_extern",
   "parse_form_declaration", "parse_import", "parse_instruction", "parse_local",
   "parse_reexport", "parse_statement", "parse_type", "pattern", "pattern_of_match",
   "pattern_mapping", "pointer", "primitive", "prototype", "prototype_from_type",
   "prototype_of_main", "prototype_open", "regex_path", "return_flow", "rule",
   "rule_call", "suffix_expression", "table", "table_access", "table_map",
   "table_population", "tuple_destructuring", "tuple_type", "type_alias", "variable",
   "while_statement"}

LEMMA NamesKnown ==
  DOMAIN Function = Names
BY DEF Function, Names

LEMMA AllNamed ==
  /\ Named("_module") /\ Named("_rule_case") /\ Named("_union") /\ Named("assignment")
  /\ Named("base_expression") /\ Named("call_arguments") /\ Named("call_contract")
  /\ Named("capability") /\ Named("cast_as") /\ Named("codeblock")
  /\ Named("codeblock_no_both") /\ Named("codeblock_no_export") /\ Named("enumeration")
  /\ Named("extend_cast") /\ Named("extend_fn") /\ Named("extend_op_bin")
  /\ Named("extend_op_other") /\ Named("extend_op_subscript") /\ Named("extend_op_transfert")
  /\ Named("extend_op_un") /\ Named("facet") /\ Named("facet_pattern")
  /\ Named("facet_pattern_of_match") /\ Named("flag") /\ Named("for_statement")
  /\ Named("form") /\ Named("format_specifier") /\ Named("function")
  /\ Named("function_call") /\ Named("generic") /\ Named("getbits")
  /\ Named("global_variable") /\ Named("goto_label_statement") /\ Named("id_type")
  /\ Named("identifier") /\ Named("identifier_keyword") /\ Named("identifier_simple")
  /\ Named("identifier_typed") /\ Named("if_statement") /\ Named("if_ternary")
  /\ Named("lambda") /\ Named("lambda_capture") /\ Named("literal")
  /\ Named("literal_decimal") /\ Named("literal_facet") /\ Named("literal_form")
  /\ Named("literal_numeric") /\ Named("literal_range") /\ Named("literal_record")
  /\ Named("literal_silent") /\ Named("literal_table") /\ Named("literal_textual")
  /\ Named("literal_tuple") /\ Named("loop_statement") /\ Named("match_statement")
  /\ Named("member_access") /\ Named("new_ptr") /\ Named("parameters")
  /\ Named("parse_codeblock_instruction") /\ Named("parse_declaration")
  /\ Named("parse_evaluator") /\ Named("parse_export") /\ Named("parse_expression")
  /\ Named("parse_expression_term") /\ Named("parse_extension") /\ Named("parse_extern")
  /\ Named("parse_form_declaration") /\ Named("parse_import") /\ Named("parse_instruction")
  /\ Named("parse_local") /\ Named("parse_reexport") /\ Named("parse_statement")
  /\ Named("parse_type") /\ Named("pattern") /\ Named("pattern_of_match")
  /\ Named("pattern_mapping") /\ Named("pointer") /\ Named("primitive") /\ Named("prototype")
  /\ Named("prototype_from_type") /\ Named("prototype_of_main") /\ Named("prototype_open")
  /\ Named("regex_path") /\ Named("return_flow") /\ Named("rule") /\ Named("rule_call")
  /\ Named("suffix_expression") /\ Named("table") /\ Named("table_access")
  /\ Named("table_map") /\ Named("table_population") /\ Named("tuple_destructuring")
  /\ Named("tuple_type") /\ Named("type_alias") /\ Named("variable")
  /\ Named("while_statement")
BY NamesKnown DEF Named, Names

\* The rules where the target is set, and those that hold everywhere.
BareRules(m) == StaysRules(m) /\ QuietRules(m) /\ BranchRules(m)
Rules(m) == BareRules(m) /\ CallRules(m)

LEMMA RulesHold ==
  /\ \A m \in Modes : BareRules(m)
  /\ \A m \in Modes : Settled(m) => Rules(m)
BY StaysHold, QuietHold, BranchHold, CallHold DEF BareRules, Rules

\* The functions that are about no target and enter no scope.
\* base.cpp
LEMMA BaseLeads ==
  ASSUME NEW m \in Modes, Rules(m), ReturnRules(m)
  PROVE  /\ Leads(parse_import, m, m, {})
         /\ Leads(parse_export, m, m, {})
         /\ Leads(parse_reexport, m, m, {})
         /\ Leads(parse_extern, m, m, {})
         /\ Leads(parse_instruction, m, m, {})
         /\ Leads(regex_path, m, m, {})
         /\ Leads(identifier, m, m, {})
         /\ Leads(identifier_keyword, m, m, {})
         /\ Leads(identifier_simple, m, m, {})
         /\ Leads(identifier_typed, m, m, {})
<1> USE AllNamed DEF Rules, BareRules, StaysRules, QuietRules, BranchRules, CallRules,
                      ReturnRules
<1>1. Leads(parse_import, m, m, {})
  BY DEF parse_import
<1>2. Leads(parse_export, m, m, {})
  BY DEF parse_export
<1>3. Leads(parse_reexport, m, m, {})
  BY DEF parse_reexport
<1>4. Leads(parse_extern, m, m, {})
  BY DEF parse_extern
<1>5. Leads(parse_instruction, m, m, {})
  BY DEF parse_instruction
<1>6. Leads(regex_path, m, m, {})
  BY DEF regex_path
<1>7. Leads(identifier, m, m, {})
  BY DEF identifier, IdentifierWith, Path
<1>8. Leads(identifier_keyword, m, m, {})
  BY DEF identifier_keyword, IdentifierWith, Path
<1>9. Leads(identifier_simple, m, m, {})
  BY DEF identifier_simple, IdentifierWith, Path
<1>10. Leads(identifier_typed, m, m, {})
  BY DEF identifier_typed
<1> QED
  BY <1>1, <1>2, <1>3, <1>4, <1>5, <1>6, <1>7, <1>8, <1>9, <1>10

\* declaration_global.cpp, declaration_extension.cpp, declaration_sfm.cpp
LEMMA DeclarationLeads ==
  ASSUME NEW m \in Modes, Rules(m), ReturnRules(m)
  PROVE  /\ Leads(parse_extension, m, m, {})
         /\ Leads(parse_declaration, m, m, {})
         /\ Leads(parse_codeblock_declaration(FALSE, FALSE), m, m, {})
         /\ Leads(parse_codeblock_declaration(TRUE, TRUE), m, m, {})
         /\ Leads(parse_codeblock_declaration(FALSE, TRUE), m, m, {})
         /\ Leads(global_variable, m, m, {})
         /\ Leads(call_contract, m, m, {})
         /\ Leads(type_alias, m, m, {})
         /\ Leads(facet, m, m, {})
         /\ Leads(parse_form_declaration, m, m, {})
         /\ Leads(_rule_case, m, m, {})
<1> USE AllNamed DEF Rules, BareRules, StaysRules, QuietRules, BranchRules, CallRules,
                      ReturnRules
<1>1. Leads(parse_extension, m, m, {})
  BY DEF parse_extension
<1>2. Leads(parse_declaration, m, m, {})
  <2> DEFINE S == {Match({";"}),
                    When(Is({"mod"}), Become("_module")),
                    When(Is({"union"}), Become("_union")),
                    When(Is({"flag"}), Become("flag")),
                    When(Is({"enum"}), Become("enumeration")),
                    When(Is(Variable), Become("global_variable")),
                    When(Is({"fn"}), Become("function")),
                    When(Is({"extend"}), Become("parse_extension")),
                    When(Is({"gen"}), Become("generic")),
                    When(Is({"type"}), Become("type_alias")),
                    When(Is({"facet"}), Become("facet")),
                    When(Is({"rule"}), Become("rule")),
                    When(Is({"form"}), Become("form")),
                    When(Is({"reexport"}), Become("parse_reexport")),
                    When(Is({"export"}), Become("parse_export")),
                    When(Is({"extern"}), Become("parse_extern")),
                    When(Is({"import"}), Become("parse_import")),
                    Throw}
  <2>1. parse_declaration \in Seq(S)
    BY DEF parse_declaration
  <2>2. \A s \in S : Steps(s, m, m, {})
    OBVIOUS
  <2> HIDE DEF S
  <2> QED
    BY <2>1, <2>2, Stays
<1>3. Leads(parse_codeblock_declaration(FALSE, FALSE), m, m, {})
  BY DEF parse_codeblock_declaration, Codeblock
<1>4. Leads(parse_codeblock_declaration(TRUE, TRUE), m, m, {})
  BY DEF parse_codeblock_declaration, Codeblock
<1>5. Leads(parse_codeblock_declaration(FALSE, TRUE), m, m, {})
  BY DEF parse_codeblock_declaration, Codeblock
<1>6. Leads(global_variable, m, m, {})
  BY DEF global_variable, VariableWith
<1>7. Leads(call_contract, m, m, {})
  BY DEF call_contract, Contract
<1>8. Leads(type_alias, m, m, {})
  BY DEF type_alias
<1>9. Leads(facet, m, m, {})
  BY DEF facet
<1>10. Leads(parse_form_declaration, m, m, {})
  BY DEF parse_form_declaration
<1>11. Leads(_rule_case, m, m, {})
  BY DEF _rule_case
<1> QED
  BY <1>1, <1>2, <1>3, <1>4, <1>5, <1>6, <1>7, <1>8, <1>9, <1>10, <1>11

\* type.cpp
LEMMA TypeLeads ==
  ASSUME NEW m \in Modes, Rules(m), ReturnRules(m)
  PROVE  /\ Leads(table, m, m, {})
         /\ Leads(pointer, m, m, {})
         /\ Leads(primitive, m, m, {})
         /\ Leads(id_type, m, m, {})
         /\ Leads(explicit_tuple, m, m, {})
         /\ Leads(parse_type, m, m, {})
         /\ Leads(Prototype(<<Expect({"("})>>, <<>>), m, m, {})
         /\ Leads(prototype_from_type, m, m, {})
         /\ Leads(Prototype(<<Expect({"("})>>, <<Unless(Is({"s32"}), <<Error>>)>>), m, m, {})
         /\ Leads(Prototype(<<>>, <<>>), m, m, {})
         /\ Leads(parameters, m, m, {})
<1> USE AllNamed DEF Rules, BareRules, StaysRules, QuietRules, BranchRules, CallRules,
                      ReturnRules
<1>1. Leads(table, m, m, {})
  BY DEF table, Qualifier
<1>2. Leads(pointer, m, m, {})
  BY DEF pointer, Qualifier
<1>3. Leads(primitive, m, m, {})
  BY DEF primitive, Qualifier
<1>4. Leads(id_type, m, m, {})
  BY DEF id_type, Qualifier
<1>5. Leads(explicit_tuple, m, m, {})
  BY DEF explicit_tuple, Qualifier
<1>6. Leads(parse_type, m, m, {})
  <2> DEFINE S == {When(Take({"opaque"}), <<Return("node")>>),
                    When(Is({"["}), Become("table")), When(Is({"ptr"}), Become("pointer")), When(Is({"("}), Become("tuple_type")), When(Is({"fn"}), Become("prototype_from_type")), When(Is(TypePrimitive), Become("primitive")), When(Is(ID), Become("id_type")), Error, Return("nil")}
           c == <<When(Take({"opaque"}), <<Return("node")>>),
                  When(Is({"["}), Become("table")), When(Is({"ptr"}), Become("pointer")), When(Is({"("}), Become("tuple_type")), When(Is({"fn"}), Become("prototype_from_type")), When(Is(TypePrimitive), Become("primitive")), When(Is(ID), Become("id_type")), Error, Return("nil")>>
  <2>1. c \in Seq(S) /\ parse_type = Qualifier \o c
    BY DEF parse_type
  <2>2. \A s \in S : Steps(s, m, m, {})
    OBVIOUS
  <2>3. Leads(Qualifier, m, m, {})
    BY DEF Qualifier
  <2> HIDE DEF S, c
  <2>4. Leads(c, m, m, {})
    BY <2>1, <2>2, Stays
  <2> QED
    BY <2>1, <2>3, <2>4
<1>7. Leads(Prototype(<<Expect({"("})>>, <<>>), m, m, {})
  BY DEF Prototype
<1>8. Leads(prototype_from_type, m, m, {})
  BY DEF prototype_from_type
<1>9. Leads(Prototype(<<Expect({"("})>>, <<Unless(Is({"s32"}), <<Error>>)>>), m, m, {})
  BY DEF Prototype
<1>10. Leads(Prototype(<<>>, <<>>), m, m, {})
  BY DEF Prototype
<1>11. Leads(parameters, m, m, {})
  BY DEF parameters, Parameter
<1> QED
  BY <1>1, <1>2, <1>3, <1>4, <1>5, <1>6, <1>7, <1>8, <1>9, <1>10, <1>11

\* operation.cpp, expression.cpp
LEMMA ExpressionLeads ==
  ASSUME NEW m \in Modes, Rules(m), ReturnRules(m)
  PROVE  /\ Leads(assignment, m, m, {})
         /\ Leads(parse_expression, m, m, {})
         /\ Leads(parse_expression_term, m, m, {})
         /\ Leads(base_expression, m, m, {})
         /\ Leads(suffix_expression, m, m, {})
         /\ Leads(cast_as, m, m, {})
         /\ Leads(call_arguments, m, m, {})
         /\ Leads(function_call, m, m, {})
         /\ Leads(rule_call, m, m, {})
         /\ Leads(if_ternary, m, m, {})
         /\ Leads(member_access, m, m, {})
         /\ Leads(table_access, m, m, {})
         /\ Leads(getbits, m, m, {})
         /\ Leads(new_ptr, m, m, {})
<1> USE AllNamed DEF Rules, BareRules, StaysRules, QuietRules, BranchRules, CallRules,
                      ReturnRules
<1>1. Leads(assignment, m, m, {})
  BY DEF assignment
<1>2. Leads(parse_expression, m, m, {})
  BY DEF parse_expression
<1>3. Leads(parse_expression_term, m, m, {})
  BY DEF parse_expression_term
<1>4. Leads(base_expression, m, m, {})
  BY DEF base_expression
<1>5. Leads(suffix_expression, m, m, {})
  BY DEF suffix_expression
<1>6. Leads(cast_as, m, m, {})
  BY DEF cast_as
<1>7. Leads(call_arguments, m, m, {})
  BY DEF call_arguments
<1>8. Leads(function_call, m, m, {})
  BY DEF function_call
<1>9. Leads(rule_call, m, m, {})
  BY DEF rule_call
<1>10. Leads(if_ternary, m, m, {})
  BY DEF if_ternary
<1>11. Leads(member_access, m, m, {})
  BY DEF member_access
<1>12. Leads(table_access, m, m, {})
  BY DEF table_access
<1>13. Leads(getbits, m, m, {})
  BY DEF getbits
<1>14. Leads(new_ptr, m, m, {})
  BY DEF new_ptr
<1> QED
  BY <1>1, <1>2, <1>3, <1>4, <1>5, <1>6, <1>7, <1>8, <1>9, <1>10, <1>11, <1>12, <1>13, <1>14

\* literal.cpp
LEMMA LiteralLeads ==
  ASSUME NEW m \in Modes, Rules(m), ReturnRules(m)
  PROVE  /\ Leads(Literal(Throw), m, m, {})
         /\ Leads(Literal(Return("nil")), m, m, {})
         /\ Leads(literal_numeric, m, m, {})
         /\ Leads(literal_decimal, m, m, {})
         /\ Leads(literal_textual, m, m, {})
         /\ Leads(format_specifier, m, m, {})
         /\ Leads(literal_range, m, m, {})
         /\ Leads(literal_table, m, m, {})
         /\ Leads(table_population, m, m, {})
         /\ Leads(table_map, m, m, {})
         /\ Leads(literal_record, m, m, {})
         /\ Leads(literal_form, m, m, {})
         /\ Leads(literal_facet, m, m, {})
         /\ Leads(literal_tuple, m, m, {})
<1> USE AllNamed DEF Rules, BareRules, StaysRules, QuietRules, BranchRules, CallRules,
                      ReturnRules
<1>1. Leads(Literal(Throw), m, m, {})
  BY DEF Literal
<1>2. Leads(Literal(Return("nil")), m, m, {})
  BY DEF Literal
<1>3. Leads(literal_numeric, m, m, {})
  BY DEF literal_numeric, Integral, FixedPoint, FloatingPoint
<1>4. Leads(literal_decimal, m, m, {})
  BY DEF literal_decimal, FixedPoint, FloatingPoint
<1>5. Leads(literal_textual, m, m, {})
  BY DEF literal_textual
<1>6. Leads(format_specifier, m, m, {})
  BY DEF format_specifier
<1>7. Leads(literal_range, m, m, {})
  BY DEF literal_range
<1>8. Leads(literal_table, m, m, {})
  BY DEF literal_table, Stale, Dimension
<1>9. Leads(table_population, m, m, {})
  BY DEF table_population
<1>10. Leads(table_map, m, m, {})
  BY DEF table_map, Stale
<1>11. Leads(literal_record, m, m, {})
  BY DEF literal_record
<1>12. Leads(literal_form, m, m, {})
  BY DEF literal_form
<1>13. Leads(literal_facet, m, m, {})
  BY DEF literal_facet
<1>14. Leads(literal_tuple, m, m, {})
  BY DEF literal_tuple
<1> QED
  BY <1>1, <1>2, <1>3, <1>4, <1>5, <1>6, <1>7, <1>8, <1>9, <1>10, <1>11, <1>12, <1>13, <1>14

\* declaration_local.cpp
LEMMA LocalLeads ==
  ASSUME NEW m \in Modes, Rules(m), ReturnRules(m)
  PROVE  /\ Leads(parse_local, m, m, {})
         /\ Leads(variable, m, m, {})
         /\ Leads(tuple_destructuring, m, m, {})
         /\ Leads(lambda_capture, m, m, {})
         /\ Leads(parse_codeblock_instruction, m, m, {})
         /\ Leads(capability, m, m, {})
         /\ Leads(parse_evaluator, m, m, {})
         /\ Leads(pattern_mapping, m, m, {})
         /\ Leads(parse_pattern("facet_pattern", Compared), m, m, {})
         /\ Leads(parse_pattern("facet_pattern_of_match", <<>>), m, m, {})
         /\ Leads(facet_pattern(Compared), m, m, {})
         /\ Leads(facet_pattern(<<>>), m, m, {})
<1> USE AllNamed DEF Rules, BareRules, StaysRules, QuietRules, BranchRules, CallRules,
                      ReturnRules
<1>1. Leads(parse_local, m, m, {})
  BY DEF parse_local
<1>2. Leads(variable, m, m, {})
  BY DEF variable, VariableWith
<1>3. Leads(tuple_destructuring, m, m, {})
  BY DEF tuple_destructuring
<1>4. Leads(lambda_capture, m, m, {})
  BY DEF lambda_capture
<1>5. Leads(parse_codeblock_instruction, m, m, {})
  BY DEF parse_codeblock_instruction, Codeblock
<1>6. Leads(capability, m, m, {})
  BY DEF capability
<1>7. Leads(parse_evaluator, m, m, {})
  BY DEF parse_evaluator
<1>8. Leads(pattern_mapping, m, m, {})
  BY DEF pattern_mapping
<1>9. Leads(parse_pattern("facet_pattern", Compared), m, m, {})
  BY DEF parse_pattern, tuple_pattern, Elements, enum_pattern, form_pattern, Compared
<1>10. Leads(parse_pattern("facet_pattern_of_match", <<>>), m, m, {})
  BY DEF parse_pattern, tuple_pattern, Elements, enum_pattern, form_pattern
<1>11. Leads(facet_pattern(Compared), m, m, {})
  BY DEF facet_pattern, Compared
<1>12. Leads(facet_pattern(<<>>), m, m, {})
  BY DEF facet_pattern
<1> QED
  BY <1>1, <1>2, <1>3, <1>4, <1>5, <1>6, <1>7, <1>8, <1>9, <1>10, <1>11, <1>12

\* statement.cpp
LEMMA StatementLeads ==
  ASSUME NEW m \in Modes, Rules(m), ReturnRules(m)
  PROVE  /\ Leads(parse_statement, m, m, {})
         /\ Leads(return_flow, m, m, {})
         /\ Leads(goto_label_statement, m, m, {})
<1> USE AllNamed DEF Rules, BareRules, StaysRules, QuietRules, BranchRules, CallRules,
                      ReturnRules
<1>1. Leads(parse_statement, m, m, {})
  <2> DEFINE S == {Match({";"}),
                    When(Is({"if"}), Become("if_statement")),
                    When(Is({"for"}), Become("for_statement")),
                    When(Is({"while", "do"}), Become("while_statement")),
                    When(Is({"loop"}), Become("loop_statement")),
                    When(Is({"match"}), Become("match_statement")),
                    When(Is({"break", "continue"}), <<Bind, Next_, Return("node")>>),
                    When(Is({"return"}), Become("return_flow")),
                    When(Take({"goto"}), <<Name, Return("node")>>),
                    When(Is({"label"}), Become("goto_label_statement")),
                    Return("nil")}
  <2>1. parse_statement \in Seq(S)
    BY DEF parse_statement
  <2>2. \A s \in S : Steps(s, m, m, {})
    OBVIOUS
  <2> HIDE DEF S
  <2> QED
    BY <2>1, <2>2, Stays
<1>2. Leads(return_flow, m, m, {})
  BY DEF return_flow
<1>3. Leads(goto_label_statement, m, m, {})
  BY DEF goto_label_statement, Block_
<1> QED
  BY <1>1, <1>2, <1>3


\* The steps that change the mode.
ModeRules(c) ==
  /\ \A s \in BOOLEAN : \A L :
       /\ Steps(EnterScope, Mode(c, FALSE, s), Mode(c, TRUE, s), L)
       /\ Steps(ExitScope, Mode(c, TRUE, s), Mode(c, FALSE, s), L)
  /\ \A i, s \in BOOLEAN : \A L :
       /\ c = "breaking" => Steps(Breakable, Mode(c, i, s), Mode(c, i, TRUE), L)
       /\ c = "returning" => Steps(Returnable, Mode(c, i, s), Mode(c, i, TRUE), L)
       /\ c # "outside" => Steps(Restore, Mode(c, i, s), Mode(c, i, FALSE), L)

LEMMA ModeFacts ==
  ASSUME NEW c \in Classes, NEW i \in BOOLEAN, NEW s \in BOOLEAN
  PROVE  /\ Mode(c, i, s) \in Modes
         /\ Mode(c, i, s).class = c /\ Mode(c, i, s).inside = i /\ Mode(c, i, s).set = s
         /\ Rest(c) = Mode(c, FALSE, FALSE)
BY DEF Mode, Modes, Rest

LEMMA ModeHold == ASSUME NEW c \in Classes PROVE ModeRules(c)
<1>1. ASSUME NEW s \in BOOLEAN, NEW L
      PROVE  /\ Steps(EnterScope, Mode(c, FALSE, s), Mode(c, TRUE, s), L)
             /\ Steps(ExitScope, Mode(c, TRUE, s), Mode(c, FALSE, s), L)
  <2>1. Judged({}, EnterScope, Mode(c, FALSE, s), Mode(c, TRUE, s), L)
    BY ModeFacts DEF EnterScope, Judged, Quiet, Settling, Marks
  <2>2. Judged({}, ExitScope, Mode(c, TRUE, s), Mode(c, FALSE, s), L)
    BY ModeFacts DEF ExitScope, Judged, Quiet, Settling, Marks
  <2> QED
    BY <2>1, <2>2, Alone
<1>2. ASSUME NEW i \in BOOLEAN, NEW s \in BOOLEAN, NEW L
      PROVE  /\ c = "breaking" => Steps(Breakable, Mode(c, i, s), Mode(c, i, TRUE), L)
             /\ c = "returning" => Steps(Returnable, Mode(c, i, s), Mode(c, i, TRUE), L)
             /\ c # "outside" => Steps(Restore, Mode(c, i, s), Mode(c, i, FALSE), L)
  <2>1. /\ Mode(c, i, s) \in Modes /\ Mode(c, i, TRUE) \in Modes /\ Mode(c, i, FALSE) \in Modes
        /\ Mode(c, i, s).class = c /\ Mode(c, i, s).inside = i
        /\ Mode(c, i, TRUE).class = c /\ Mode(c, i, FALSE).class = c
    BY ModeFacts
  <2>2. c = "breaking" => Judged({}, Breakable, Mode(c, i, s), Mode(c, i, TRUE), L)
    BY <2>1 DEF Breakable, Judged, Quiet, Settling, Marks
  <2>3. c = "returning" => Judged({}, Returnable, Mode(c, i, s), Mode(c, i, TRUE), L)
    BY <2>1 DEF Returnable, Judged, Quiet, Settling, Marks
  <2>4. c # "outside" => Judged({}, Restore, Mode(c, i, s), Mode(c, i, FALSE), L)
    BY <2>1 DEF Restore, Judged, Quiet, Settling, Marks
  <2> QED
    BY <2>2, <2>3, <2>4, Alone
<1> QED
  BY <1>1, <1>2 DEF ModeRules

LEMMA Pair ==
  ASSUME NEW a, NEW b
  PROVE  <<a, b>> = <<a>> \o <<b>>
<1> DEFINE s == <<a>>
           t == <<b>>
           u == <<a, b>>
           S == {a, b}
<1>1. s \in Seq(S) /\ t \in Seq(S) /\ u \in Seq(S)
  OBVIOUS
<1>2. Len(s) = 1 /\ Len(t) = 1 /\ Len(u) = 2 /\ s[1] = a /\ t[1] = b /\ u[1] = a /\ u[2] = b
  OBVIOUS
<1> HIDE DEF s, t, u, S
<1>3. /\ s \o t \in Seq(S) /\ Len(s \o t) = Len(s) + Len(t)
      /\ \A i \in 1 .. Len(s) + Len(t) : (s \o t)[i] = IF i <= Len(s) THEN s[i] ELSE t[i - Len(s)]
  BY <1>1, ConcatProperties
<1>4. Len(s \o t) = Len(u) /\ (s \o t)[1] = u[1] /\ (s \o t)[2] = u[2]
  BY <1>2, <1>3
<1>5. \A i \in 1 .. Len(u) : (s \o t)[i] = u[i]
  BY <1>2, <1>4
<1>6. u = s \o t
  BY <1>1, <1>3, <1>4, <1>5, SeqEqual
<1> QED
  BY <1>6 DEF s, t, u

LEMMA LeadsTwo ==
  ASSUME NEW a, NEW b, NEW m, NEW n, NEW k, NEW L, Steps(a, m, n, L), Steps(b, n, k, L)
  PROVE  Leads(<<a, b>>, m, k, L)
BY Pair, LeadsOne, LeadsOn

LEMMA LeadsThree ==
  ASSUME NEW s1, NEW s2, NEW s3,
         NEW m1, NEW m2, NEW m3, NEW m4, NEW L,
         Steps(s1, m1, m2, L), Steps(s2, m2, m3, L), Steps(s3, m3, m4, L)
  PROVE  Leads(<<s1, s2, s3>>, m1, m4, L)
<1>1. <<s1, s2, s3>> = <<s1>> \o <<s2, s3>>
  OBVIOUS
<1>2. Leads(<<s2, s3>>, m2, m4, L)
  BY LeadsTwo
<1> QED
  BY <1>1, <1>2, LeadsOne, LeadsOn

LEMMA LeadsFour ==
  ASSUME NEW s1, NEW s2, NEW s3, NEW s4,
         NEW m1, NEW m2, NEW m3, NEW m4, NEW m5, NEW L,
         Steps(s1, m1, m2, L), Steps(s2, m2, m3, L), Steps(s3, m3, m4, L),
         Steps(s4, m4, m5, L)
  PROVE  Leads(<<s1, s2, s3, s4>>, m1, m5, L)
<1>1. <<s1, s2, s3, s4>> = <<s1>> \o <<s2, s3, s4>>
  OBVIOUS
<1>2. Leads(<<s2, s3, s4>>, m2, m5, L)
  BY LeadsThree
<1> QED
  BY <1>1, <1>2, LeadsOne, LeadsOn

LEMMA LeadsFive ==
  ASSUME NEW s1, NEW s2, NEW s3, NEW s4, NEW s5,
         NEW m1, NEW m2, NEW m3, NEW m4, NEW m5, NEW m6, NEW L,
         Steps(s1, m1, m2, L), Steps(s2, m2, m3, L), Steps(s3, m3, m4, L),
         Steps(s4, m4, m5, L), Steps(s5, m5, m6, L)
  PROVE  Leads(<<s1, s2, s3, s4, s5>>, m1, m6, L)
<1>1. <<s1, s2, s3, s4, s5>> = <<s1>> \o <<s2, s3, s4, s5>>
  OBVIOUS
<1>2. Leads(<<s2, s3, s4, s5>>, m2, m6, L)
  BY LeadsFour
<1> QED
  BY <1>1, <1>2, LeadsOne, LeadsOn

LEMMA LeadsSix ==
  ASSUME NEW s1, NEW s2, NEW s3, NEW s4, NEW s5, NEW s6,
         NEW m1, NEW m2, NEW m3, NEW m4, NEW m5, NEW m6, NEW m7, NEW L,
         Steps(s1, m1, m2, L), Steps(s2, m2, m3, L), Steps(s3, m3, m4, L),
         Steps(s4, m4, m5, L), Steps(s5, m5, m6, L), Steps(s6, m6, m7, L)
  PROVE  Leads(<<s1, s2, s3, s4, s5, s6>>, m1, m7, L)
<1>1. <<s1, s2, s3, s4, s5, s6>> = <<s1>> \o <<s2, s3, s4, s5, s6>>
  OBVIOUS
<1>2. Leads(<<s2, s3, s4, s5, s6>>, m2, m7, L)
  BY LeadsFive
<1> QED
  BY <1>1, <1>2, LeadsOne, LeadsOn

LEMMA LeadsSeven ==
  ASSUME NEW s1, NEW s2, NEW s3, NEW s4, NEW s5, NEW s6, NEW s7,
         NEW m1, NEW m2, NEW m3, NEW m4, NEW m5, NEW m6, NEW m7, NEW m8, NEW L,
         Steps(s1, m1, m2, L), Steps(s2, m2, m3, L), Steps(s3, m3, m4, L),
         Steps(s4, m4, m5, L), Steps(s5, m5, m6, L), Steps(s6, m6, m7, L),
         Steps(s7, m7, m8, L)
  PROVE  Leads(<<s1, s2, s3, s4, s5, s6, s7>>, m1, m8, L)
<1>1. <<s1, s2, s3, s4, s5, s6, s7>> = <<s1>> \o <<s2, s3, s4, s5, s6, s7>>
  OBVIOUS
<1>2. Leads(<<s2, s3, s4, s5, s6, s7>>, m2, m8, L)
  BY LeadsSix
<1> QED
  BY <1>1, <1>2, LeadsOne, LeadsOn

LEMMA LeadsEight ==
  ASSUME NEW s1, NEW s2, NEW s3, NEW s4, NEW s5, NEW s6, NEW s7, NEW s8,
         NEW m1, NEW m2, NEW m3, NEW m4, NEW m5, NEW m6, NEW m7, NEW m8, NEW m9, NEW L,
         Steps(s1, m1, m2, L), Steps(s2, m2, m3, L), Steps(s3, m3, m4, L),
         Steps(s4, m4, m5, L), Steps(s5, m5, m6, L), Steps(s6, m6, m7, L),
         Steps(s7, m7, m8, L), Steps(s8, m8, m9, L)
  PROVE  Leads(<<s1, s2, s3, s4, s5, s6, s7, s8>>, m1, m9, L)
<1>1. <<s1, s2, s3, s4, s5, s6, s7, s8>> = <<s1>> \o <<s2, s3, s4, s5, s6, s7, s8>>
  OBVIOUS
<1>2. Leads(<<s2, s3, s4, s5, s6, s7, s8>>, m2, m9, L)
  BY LeadsSeven
<1> QED
  BY <1>1, <1>2, LeadsOne, LeadsOn

LEMMA LeadsNine ==
  ASSUME NEW s1, NEW s2, NEW s3, NEW s4, NEW s5, NEW s6, NEW s7, NEW s8, NEW s9,
         NEW m1, NEW m2, NEW m3, NEW m4, NEW m5, NEW m6, NEW m7, NEW m8, NEW m9, NEW m10, NEW L,
         Steps(s1, m1, m2, L), Steps(s2, m2, m3, L), Steps(s3, m3, m4, L),
         Steps(s4, m4, m5, L), Steps(s5, m5, m6, L), Steps(s6, m6, m7, L),
         Steps(s7, m7, m8, L), Steps(s8, m8, m9, L), Steps(s9, m9, m10, L)
  PROVE  Leads(<<s1, s2, s3, s4, s5, s6, s7, s8, s9>>, m1, m10, L)
<1>1. <<s1, s2, s3, s4, s5, s6, s7, s8, s9>> = <<s1>> \o <<s2, s3, s4, s5, s6, s7, s8, s9>>
  OBVIOUS
<1>2. Leads(<<s2, s3, s4, s5, s6, s7, s8, s9>>, m2, m10, L)
  BY LeadsEight
<1> QED
  BY <1>1, <1>2, LeadsOne, LeadsOn

\* The functions that enter a scope and are about no target.
LEMMA ListedLeads ==
  ASSUME NEW K, NEW field,
         Leads(field \o <<Separator({","}, {"}"})>>, Mode("plain", TRUE, FALSE),
               Mode("plain", TRUE, FALSE), {Mode("plain", TRUE, FALSE)})
  PROVE  Leads(Listed(K, field), Rest("plain"), Rest("plain"), {})
<1> DEFINE r == Mode("plain", FALSE, FALSE)
           e == Mode("plain", TRUE, FALSE)
<1>1. r \in Modes /\ e \in Modes /\ "plain" \in Classes /\ Rest("plain") = r
  BY ModeFacts DEF Classes
<1>2. BareRules(r) /\ BareRules(e)
  BY <1>1, RulesHold
<1>3. Steps(Match({K}), r, r, {}) /\ Steps(Name, r, r, {}) /\ Steps(Define, r, r, {})
  BY <1>2 DEF BareRules, QuietRules
<1>4. Steps(Expect({"{"}), e, e, {}) /\ Steps(Loop(field \o <<Separator({","}, {"}"})>>), e, e, {})
  BY <1>2 DEF BareRules, QuietRules, BranchRules
<1>5. Steps(EnterScope, r, e, {}) /\ Steps(ExitScope, e, r, {})
  BY <1>1, ModeHold DEF ModeRules
<1> HIDE DEF r, e
<1> QED
  BY <1>1, <1>3, <1>4, <1>5, LeadsSeven DEF Listed

LEMMA ListsLead ==
  /\ Leads(enumeration, Rest("plain"), Rest("plain"), {})
  /\ Leads(_union, Rest("plain"), Rest("plain"), {})
  /\ Leads(flag, Rest("plain"), Rest("plain"), {})
<1> DEFINE e == Mode("plain", TRUE, FALSE)
<1>1. Rules(e)
  BY RulesHold, ModeFacts DEF Classes, Settled
<1> USE <1>1, AllNamed
    DEF Rules, BareRules, StaysRules, QuietRules, BranchRules, CallRules
<1> HIDE DEF e
<1>2. Leads(<<Name, Call("parse_type")>> \o <<Separator({","}, {"}"})>>, e, e, {e})
  OBVIOUS
<1>3. Leads(<<Name, Expect({":"}), Call("parse_type")>> \o <<Separator({","}, {"}"})>>, e, e, {e})
  OBVIOUS
<1>4. Leads(<<Name>> \o <<Separator({","}, {"}"})>>, e, e, {e})
  OBVIOUS
<1> QED
  BY ONLY <1>2, <1>3, <1>4, ListedLeads DEF enumeration, _union, flag, e

LEMMA ScopedLead ==
  /\ Leads(_module, Rest("plain"), Rest("plain"), {})
  /\ Leads(generic, Rest("plain"), Rest("plain"), {})
  /\ Leads(form, Rest("plain"), Rest("plain"), {})
  /\ Leads(if_statement, Rest("plain"), Rest("plain"), {})
<1> DEFINE r == Rest("plain")
           e == Mode("plain", TRUE, FALSE)
<1>1. r \in Modes /\ e \in Modes /\ "plain" \in Classes /\ r = Mode("plain", FALSE, FALSE)
  BY ModeFacts DEF Classes
<1>2. Rules(r) /\ Rules(e) /\ ReturnRules(r)
  BY <1>1, RulesHold, ReturnHold, ModeFacts DEF Settled
<1>3. Steps(EnterScope, r, e, {}) /\ Steps(ExitScope, e, r, {})
  BY <1>1, ModeHold DEF ModeRules
<1> HIDE DEF r, e
<1> USE <1>2, <1>3, AllNamed
    DEF Rules, BareRules, StaysRules, QuietRules, BranchRules, CallRules, ReturnRules
<1>4. Leads(_module, r, r, {})
  <2>1. Leads(<<EnterScope, Call("codeblock"), ExitScope, Return("node")>>, r, r, {})
    BY LeadsFour
  <2> QED
    BY <2>1 DEF _module
<1>5. Leads(generic, r, r, {})
  <2> DEFINE heads == Loop(<<Name, End({">"})>>)
             rules == Loop(<<When(Take({"}"}), <<Break>>), Name,
                             If(Take({"op"}), <<ExpectAny(k_operator), Match({";"})>>,
                             <<If(Take({"facet", "view", "extend", "rule"}), <<Call("parse_expression")>>,
                             <<If(Take({"is"}), Alternatives,
                             <<If(Take({"as"}), <<Unless(Is({"to", "from"}), <<Error>>), Call("parse_type")>>,
                               <<Error>>)>>)>>)>>),
                             Match({";"})>>)
  <2>1. Steps(heads, e, e, {})
    OBVIOUS
  <2>2. Leads(Alternatives, e, e, {e})
    BY DEF Alternatives
  <2>3. Steps(rules, e, e, {})
    BY <2>2
  <2>4. /\ Steps(Match({"gen"}), r, r, {}) /\ Steps(Name, r, r, {}) /\ Steps(Define, r, r, {})
        /\ Steps(Expect({"<"}), e, e, {}) /\ Steps(Expect({"{"}), e, e, {})
    OBVIOUS
  <2>5. generic = <<Match({"gen"}), Name, Define, EnterScope, Expect({"<"}), heads, Expect({"{"}),
                    rules, ExitScope>>
    BY DEF generic
  <2> HIDE DEF heads, rules
  <2> QED
    BY ONLY <1>3, <2>1, <2>3, <2>4, <2>5, LeadsNine
<1>6. Leads(form, r, r, {})
  <2>1. Steps(Loop(<<Call("parse_form_declaration"), End({"}"})>>), e, e, {})
    OBVIOUS
  <2>2. /\ Steps(Match({"form"}), r, r, {}) /\ Steps(Name, r, r, {}) /\ Steps(Define, r, r, {})
        /\ Steps(Expect({"{"}), e, e, {})
    OBVIOUS
  <2> QED
    BY ONLY <1>3, <2>1, <2>2, LeadsSeven DEF form
<1>7. Leads(if_statement, r, r, {})
  <2>1. Leads(<<Match({"if"}), Match({"elif"}), EnterScope, Call("parse_evaluator"), Assert(Got)>>, r, e, {})
    BY LeadsFive
  <2>2. Leads(Block_, r, r, {}) /\ Leads(Block_, e, e, {})
    BY DEF Block_
  <2>3. Leads((<<EnterScope>> \o Block_) \o <<ExitScope>>, r, r, {})
    <3>1. Leads(<<EnterScope>>, r, e, {}) /\ Leads(<<ExitScope>>, e, r, {})
      BY LeadsOne
    <3> QED
      BY ONLY <2>2, <3>1, LeadsOn
  <2> DEFINE rest == If(Take({"elif"}), <<Call("if_statement")>>,
                        <<When(Take({"else"}), (<<EnterScope>> \o Block_) \o <<ExitScope>>)>>)
  <2>4. Steps(rest, r, r, {})
    BY <2>3
  <2>5. if_statement = (<<Match({"if"}), Match({"elif"}), EnterScope, Call("parse_evaluator"), Assert(Got)>>
                        \o Block_) \o <<ExitScope, rest>>
    BY DEF if_statement
  <2> HIDE DEF rest
  <2>6. Leads(<<ExitScope, rest>>, e, r, {})
    BY <2>4, LeadsTwo
  <2> QED
    BY ONLY <2>1, <2>2, <2>5, <2>6, LeadsOn
<1> QED
  BY <1>4, <1>5, <1>6, <1>7 DEF r

\* The functions that are about the target of return.
LEMMA ReturningModes ==
  ASSUME NEW r, NEW s, NEW b, r = Rest("returning"), s = Mode("returning", FALSE, TRUE),
         b = Mode("returning", TRUE, TRUE)
  PROVE  /\ BareRules(r) /\ Rules(s) /\ Rules(b)
         /\ \A L : /\ Steps(Returnable, r, s, L) /\ Steps(EnterScope, s, b, L)
                   /\ Steps(ExitScope, b, s, L) /\ Steps(Restore, s, r, L)
                   /\ \A v : Steps(Return(v), r, b, L) /\ Steps(Return(v), r, r, L)
<1>1. /\ r \in Modes /\ s \in Modes /\ b \in Modes /\ "returning" \in Classes
      /\ r = Mode("returning", FALSE, FALSE)
      /\ r.class = "returning" /\ s.class = "returning" /\ b.class = "returning" /\ s.set /\ b.set
  BY ModeFacts DEF Classes
<1>2. BareRules(r) /\ Rules(s) /\ Rules(b)
  BY <1>1, RulesHold DEF Settled
<1>3. ASSUME NEW L
      PROVE  /\ Steps(Returnable, r, s, L) /\ Steps(EnterScope, s, b, L)
             /\ Steps(ExitScope, b, s, L) /\ Steps(Restore, s, r, L)
  BY <1>1, ModeHold DEF ModeRules
<1>4. ASSUME NEW L, NEW v PROVE Steps(Return(v), r, b, L) /\ Steps(Return(v), r, r, L)
  BY <1>1, ReturnLeads
<1> QED
  BY <1>2, <1>3, <1>4

LEMMA ExtendLeads ==
  ASSUME NEW r, NEW s, NEW b, r = Rest("returning"), s = Mode("returning", FALSE, TRUE),
         b = Mode("returning", TRUE, TRUE),
         NEW first, NEW inside, Leads(first, s, s, {}), Leads(inside, b, b, {})
  PROVE  Leads(Extend(first, inside), r, r, {})
<1>1. /\ BareRules(r) /\ Rules(s) /\ Rules(b)
      /\ Steps(Returnable, r, s, {}) /\ Steps(EnterScope, s, b, {})
      /\ Steps(ExitScope, b, s, {}) /\ Steps(Restore, s, r, {})
  BY ReturningModes
<1>2. Leads(<<Returnable>>, r, s, {}) /\ Leads(<<EnterScope>>, s, b, {})
  BY <1>1, LeadsOne
<1>3. Steps(Call("parse_codeblock_instruction"), b, b, {}) /\ Leads(Undefinable, s, s, {})
  BY <1>1, AllNamed DEF Rules, BareRules, CallRules, BranchRules
<1>4. Leads(<<Call("parse_codeblock_instruction"), ExitScope, Restore>>, b, r, {})
  BY <1>1, <1>3, LeadsThree
<1> QED
  BY <1>2, <1>3, <1>4, LeadsOn DEF Extend

LEMMA ExtensionsLead ==
  ASSUME NEW r, r = Rest("returning")
  PROVE  /\ Leads(extend_fn, r, r, {})
         /\ Leads(extend_cast, r, r, {})
         /\ Leads(extend_op_bin, r, r, {})
         /\ Leads(extend_op_un, r, r, {})
         /\ Leads(extend_op_subscript, r, r, {})
         /\ Leads(extend_op_transfert, r, r, {})
         /\ Leads(extend_op_other, r, r, {})
<1> DEFINE s == Mode("returning", FALSE, TRUE)
           b == Mode("returning", TRUE, TRUE)
<1>1. BareRules(r) /\ Rules(s) /\ Rules(b)
  BY ReturningModes
<1>2. \A first, inside : Leads(first, s, s, {}) /\ Leads(inside, b, b, {})
                           => Leads(Extend(first, inside), r, r, {})
  BY ExtendLeads
<1> HIDE DEF s, b
<1> USE <1>1, <1>2, AllNamed DEF Rules, BareRules, StaysRules, QuietRules, BranchRules, CallRules
<1>3. Leads(Inject("self"), b, b, {}) /\ Leads(Inject("other"), b, b, {})
  BY DEF Inject
<1> USE <1>3
<1>4. Leads(extend_fn, r, r, {})
  <2> DEFINE inside == <<Expect({"("}),
                         When(Sees(<<{"ref", "mut"}, {"SELF"}>>), Inject("self") \o <<Next_, Next_>>),
                         Match({","}), Call("prototype_open")>>
  <2>1. Leads(<<Name>>, s, s, {}) /\ Leads(inside, b, b, {})
    OBVIOUS
  <2>2. extend_fn = <<Match({"fn"})>> \o Extend(<<Name>>, inside)
    BY DEF extend_fn
  <2> HIDE DEF inside
  <2> QED
    BY <2>1, <2>2
<1>5. Leads(extend_cast, r, r, {})
  BY DEF extend_cast
<1>6. Leads(extend_op_bin, r, r, {})
  BY DEF extend_op_bin
<1>7. Leads(extend_op_un, r, r, {})
  BY DEF extend_op_un
<1>8. Leads(Subscript, r, r, {})
  BY DEF Subscript
<1>9. Leads(extend_op_subscript, r, r, {})
  BY <1>8 DEF extend_op_subscript
<1>10. Leads(extend_op_transfert, r, r, {})
  BY DEF extend_op_transfert
<1>11. Leads(extend_op_other, r, r, {})
  BY DEF extend_op_other
<1> QED
  BY <1>4, <1>5, <1>6, <1>7, <1>9, <1>10, <1>11

LEMMA ReturningLead ==
  ASSUME NEW r, r = Rest("returning")
  PROVE  /\ Leads(function, r, r, {})
         /\ Leads(lambda, r, r, {})
         /\ Leads(rule, r, r, {})
<1> DEFINE s == Mode("returning", FALSE, TRUE)
           b == Mode("returning", TRUE, TRUE)
<1>1. /\ BareRules(r) /\ Rules(s) /\ Rules(b)
      /\ \A L : /\ Steps(Returnable, r, s, L) /\ Steps(EnterScope, s, b, L)
                /\ Steps(ExitScope, b, s, L) /\ Steps(Restore, s, r, L)
                /\ \A v : Steps(Return(v), r, b, L) /\ Steps(Return(v), r, r, L)
  BY ReturningModes
<1>2. b.class = s.class
  BY ModeFacts DEF Classes
<1> HIDE DEF s, b
<1> USE <1>1, AllNamed DEF Rules, BareRules, StaysRules, QuietRules, BranchRules, CallRules
<1>3. Leads(function, r, r, {})
  <2> DEFINE head == If(Is({"main"}), <<Name, Define, EnterScope, Call("prototype_of_main")>>,
                                      <<Name, Define, EnterScope, Call("prototype")>>)
             block == If(InExtern, <<When(Is({"{"}), <<Error>>)>>, <<Call("parse_codeblock_instruction")>>)
  <2>1. /\ Leads(<<Name, Define, EnterScope, Call("prototype_of_main")>>, s, b, {})
        /\ Leads(<<Name, Define, EnterScope, Call("prototype")>>, s, b, {})
    BY LeadsFour
  <2>2. Steps(head, s, b, {})
    BY ONLY <1>2, <2>1, IfLeads
  <2>3. Steps(block, b, b, {})
    OBVIOUS
  <2>4. Steps(Match({"fn"}), r, r, {})
    OBVIOUS
  <2>5. function = <<Match({"fn"}), Returnable, head, block, ExitScope, Restore>>
    BY DEF function
  <2> HIDE DEF head, block
  <2> QED
    BY ONLY <1>1, <2>2, <2>3, <2>4, <2>5, LeadsSix
<1>4. Leads(lambda, r, r, {})
  <2> DEFINE head == If(Is(ID), <<Name, Define, EnterScope>>, <<EnterScope>>)
             capture == When(Take({"["}), <<Call("lambda_capture")>>)
  <2>1. Leads(<<Name, Define, EnterScope>>, s, b, {}) /\ Leads(<<EnterScope>>, s, b, {})
    BY LeadsThree, LeadsOne
  <2>2. Steps(head, s, b, {})
    BY ONLY <1>2, <2>1, IfLeads
  <2>3. /\ Steps(capture, b, b, {}) /\ Steps(Call("prototype"), b, b, {})
        /\ Steps(Call("parse_codeblock_instruction"), b, b, {})
    OBVIOUS
  <2>4. lambda = <<Returnable, head, capture, Call("prototype"),
                   Call("parse_codeblock_instruction"), ExitScope, Restore>>
    BY DEF lambda
  <2> HIDE DEF head, capture
  <2> QED
    BY ONLY <1>1, <2>2, <2>3, <2>4, LeadsSeven
<1>5. Leads(rule, r, r, {})
  <2> DEFINE case   == <<Expect({"with"}), Call("_rule_case")>>
             after  == <<When(Is({"with"}), <<Continue>>), When(Take({"}"}), <<Break>>), Error>>
             done   == <<ExitScope, Restore, Return("node")>>
             first  == Unless(Is({"with"}), <<If(Take({"}"}), done, <<Error>>)>>)
             facets == <<first, Loop(case \o after)>> \o done
             cases  == Loop((case \o <<When(GotSymbol, facets)>>) \o after)
  <2>1. \A L : Leads(done, b, b, L) /\ Leads(done, b, r, L)
    BY LeadsThree
  <2>2. \A L : Leads(case, b, b, L)
    OBVIOUS
  <2>3. Leads(after, b, b, {b})
    OBVIOUS
  <2> HIDE DEF case, after, done
  <2>4. \A L : Steps(first, b, b, L)
    BY <2>1
  <2>5. \A L : Steps(Loop(case \o after), b, b, L)
    BY <2>2, <2>3
  <2> HIDE DEF first
  <2>6. \A L : Leads(facets, b, b, L)
    BY <2>1, <2>4, <2>5
  <2> HIDE DEF facets
  <2>7. Steps(cases, b, b, {})
    BY <2>2, <2>3, <2>6
  <2>8. /\ Steps(Match({"rule"}), r, r, {}) /\ Steps(Name, r, r, {}) /\ Steps(Define, s, s, {})
        /\ Steps(Call("prototype"), b, b, {}) /\ Steps(Expect({"{"}), b, b, {}) /\ Steps(Error, b, b, {})
    OBVIOUS
  <2>9. rule = <<Match({"rule"}), Name, Returnable, Define, EnterScope, Call("prototype"),
                 Expect({"{"}), cases, Error>> \o done
    BY DEF rule, cases, facets, first, case, after, done
  <2> HIDE DEF cases
  <2>10. Leads(<<Match({"rule"}), Name, Returnable, Define, EnterScope, Call("prototype"),
                 Expect({"{"}), cases, Error>>, r, b, {})
    BY ONLY <1>1, <2>7, <2>8, LeadsNine
  <2> QED
    BY ONLY <2>1, <2>9, <2>10, LeadsOn
<1> QED
  BY <1>3, <1>4, <1>5

\* The functions that are about the target of break.
LEMMA BreakingLead ==
  ASSUME NEW r, r = Rest("breaking")
  PROVE  /\ Leads(for_statement, r, r, {})
         /\ Leads(while_statement, r, r, {})
         /\ Leads(loop_statement, r, r, {})
         /\ Leads(match_statement, r, r, {})
<1> DEFINE s == Mode("breaking", FALSE, TRUE)
           b == Mode("breaking", TRUE, TRUE)
<1>1. /\ r \in Modes /\ s \in Modes /\ b \in Modes /\ "breaking" \in Classes
      /\ r = Mode("breaking", FALSE, FALSE)
      /\ b.class = "breaking" /\ b.set
  BY ModeFacts DEF Classes
<1>2. Rules(b)
  BY <1>1, RulesHold DEF Settled
<1>3. /\ Steps(Breakable, r, s, {}) /\ Steps(EnterScope, s, b, {})
      /\ Steps(ExitScope, b, s, {}) /\ Steps(Restore, s, r, {})
  BY <1>1, ModeHold DEF ModeRules
<1> HIDE DEF s, b
<1>4. ASSUME NEW c, Leads(c, b, b, {}) PROVE Leads(Breaking(c), r, r, {})
  <2>1. Leads(<<Breakable, EnterScope>>, r, b, {}) /\ Leads(<<ExitScope, Restore>>, b, r, {})
    BY <1>3, LeadsTwo
  <2> QED
    BY <1>4, <2>1, LeadsOn DEF Breaking
<1> USE <1>2, AllNamed DEF Rules, BareRules, StaysRules, QuietRules, BranchRules, CallRules
<1>5. Leads(Block_, b, b, {}) /\ Leads(Block_, b, b, {b})
  BY DEF Block_
<1> USE <1>5
<1>6. Leads(for_statement, r, r, {})
  BY <1>4 DEF for_statement
<1>7. Leads(while_statement, r, r, {})
  BY <1>4 DEF while_statement
<1>8. Leads(loop_statement, r, r, {})
  BY <1>4 DEF loop_statement
<1>9. Leads(match_statement, r, r, {})
  BY <1>4 DEF match_statement
<1> QED
  BY <1>6, <1>7, <1>8, <1>9

\* Every function gives the context back, and the file is read outside of all of them.
Kept(f) == Leads(Function[f], Rest(Class(f)), Rest(Class(f)), {})

LEMMA StartLeads == Leads(start_parsing, Rest("outside"), Rest("outside"), {})
<1>1. Rules(Rest("outside"))
  BY RulesHold, ModeFacts DEF Settled, Classes
<1> QED
  BY <1>1, AllNamed
     DEF start_parsing, Rules, BareRules, StaysRules, QuietRules, BranchRules, CallRules

LEMMA FunctionsLead == \A f \in DOMAIN Function : Kept(f)
<1> DEFINE r == Rest("plain")
<1>1. Rules(r) /\ ReturnRules(r) /\ r \in Modes
  <2>1. r \in Modes /\ r.class = "plain" /\ r = Rest(r.class)
    BY ModeFacts DEF Classes
  <2> QED
    BY <2>1, RulesHold, ReturnHold DEF Settled
<1>2. \A f \in {"parse_import", "parse_export", "parse_reexport", "parse_extern",
             "parse_instruction", "regex_path", "identifier", "identifier_keyword",
             "identifier_simple", "identifier_typed"} : Kept(f)
  <2>1. \A f \in {"parse_import", "parse_export", "parse_reexport", "parse_extern",
               "parse_instruction", "regex_path", "identifier", "identifier_keyword",
               "identifier_simple", "identifier_typed"} : Class(f) = "plain"
    BY DEF Class, Breaking_, Returning
  <2> QED
    BY ONLY <1>1, <2>1, BaseLeads DEF Kept, Function
<1>3. \A f \in {"parse_extension", "parse_declaration", "codeblock", "codeblock_no_both",
             "codeblock_no_export", "global_variable", "call_contract", "type_alias",
             "facet", "parse_form_declaration", "_rule_case"} : Kept(f)
  <2>1. \A f \in {"parse_extension", "parse_declaration", "codeblock", "codeblock_no_both",
               "codeblock_no_export", "global_variable", "call_contract", "type_alias",
               "facet", "parse_form_declaration", "_rule_case"} : Class(f) = "plain"
    BY DEF Class, Breaking_, Returning
  <2> DEFINE c1 == parse_codeblock_declaration(FALSE, FALSE)
             c2 == parse_codeblock_declaration(TRUE, TRUE)
             c3 == parse_codeblock_declaration(FALSE, TRUE)
  <2>2. /\ Leads(parse_extension, r, r, {}) /\ Leads(parse_declaration, r, r, {})
        /\ Leads(c1, r, r, {}) /\ Leads(c2, r, r, {}) /\ Leads(c3, r, r, {})
        /\ Leads(global_variable, r, r, {}) /\ Leads(call_contract, r, r, {})
        /\ Leads(type_alias, r, r, {}) /\ Leads(facet, r, r, {})
        /\ Leads(parse_form_declaration, r, r, {}) /\ Leads(_rule_case, r, r, {})
    BY <1>1, DeclarationLeads
  <2>3. Function["codeblock"] = c1 /\ Function["codeblock_no_both"] = c2 /\ Function["codeblock_no_export"] = c3
    BY DEF Function
  <2> HIDE DEF c1, c2, c3
  <2>4. /\ Function["parse_extension"] = parse_extension /\ Function["parse_declaration"] = parse_declaration
        /\ Function["global_variable"] = global_variable /\ Function["call_contract"] = call_contract
        /\ Function["type_alias"] = type_alias /\ Function["facet"] = facet
        /\ Function["parse_form_declaration"] = parse_form_declaration /\ Function["_rule_case"] = _rule_case
    BY DEF Function
  <2> QED
    BY ONLY <2>1, <2>2, <2>3, <2>4 DEF Kept
<1>4. \A f \in {"table", "pointer", "primitive", "id_type", "tuple_type", "parse_type",
             "prototype", "prototype_from_type", "prototype_of_main", "prototype_open",
             "parameters"} : Kept(f)
  <2>1. \A f \in {"table", "pointer", "primitive", "id_type", "tuple_type", "parse_type",
               "prototype", "prototype_from_type", "prototype_of_main", "prototype_open",
               "parameters"} : Class(f) = "plain"
    BY DEF Class, Breaking_, Returning
  <2> QED
    BY ONLY <1>1, <2>1, TypeLeads DEF Kept, Function
<1>5. \A f \in {"assignment", "parse_expression", "parse_expression_term", "base_expression",
             "suffix_expression", "cast_as", "call_arguments", "function_call",
             "rule_call", "if_ternary", "member_access", "table_access", "getbits",
             "new_ptr"} : Kept(f)
  <2>1. \A f \in {"assignment", "parse_expression", "parse_expression_term",
               "base_expression", "suffix_expression", "cast_as", "call_arguments",
               "function_call", "rule_call", "if_ternary", "member_access",
               "table_access", "getbits", "new_ptr"} : Class(f) = "plain"
    BY DEF Class, Breaking_, Returning
  <2> QED
    BY ONLY <1>1, <2>1, ExpressionLeads DEF Kept, Function
<1>6. \A f \in {"literal", "literal_silent", "literal_numeric", "literal_decimal",
             "literal_textual", "format_specifier", "literal_range", "literal_table",
             "table_population", "table_map", "literal_record", "literal_form",
             "literal_facet", "literal_tuple"} : Kept(f)
  <2>1. \A f \in {"literal", "literal_silent", "literal_numeric", "literal_decimal",
               "literal_textual", "format_specifier", "literal_range", "literal_table",
               "table_population", "table_map", "literal_record", "literal_form",
               "literal_facet", "literal_tuple"} : Class(f) = "plain"
    BY DEF Class, Breaking_, Returning
  <2> QED
    BY ONLY <1>1, <2>1, LiteralLeads DEF Kept, Function
<1>7. \A f \in {"parse_local", "variable", "tuple_destructuring", "lambda_capture",
             "parse_codeblock_instruction", "capability", "parse_evaluator",
             "pattern_mapping", "pattern", "pattern_of_match", "facet_pattern",
             "facet_pattern_of_match"} : Kept(f)
  <2>1. \A f \in {"parse_local", "variable", "tuple_destructuring", "lambda_capture",
               "parse_codeblock_instruction", "capability", "parse_evaluator",
               "pattern_mapping", "pattern", "pattern_of_match", "facet_pattern",
               "facet_pattern_of_match"} : Class(f) = "plain"
    BY DEF Class, Breaking_, Returning
  <2> QED
    BY ONLY <1>1, <2>1, LocalLeads DEF Kept, Function
<1>8. \A f \in {"parse_statement", "return_flow", "goto_label_statement"} : Kept(f)
  <2>1. \A f \in {"parse_statement", "return_flow", "goto_label_statement"} : Class(f) = "plain"
    BY DEF Class, Breaking_, Returning
  <2> QED
    BY ONLY <1>1, <2>1, StatementLeads DEF Kept, Function
<1>9. \A f \in {"_module", "generic", "form", "if_statement", "enumeration", "_union", "flag"} : Kept(f)
  <2>1. \A f \in {"_module", "generic", "form", "if_statement", "enumeration", "_union",
               "flag"} : Class(f) = "plain"
    BY DEF Class, Breaking_, Returning
  <2> QED
    BY ONLY <1>1, <2>1, ListsLead, ScopedLead DEF Kept, Function
<1>10. \A f \in {"function", "lambda", "rule", "extend_fn", "extend_cast", "extend_op_bin",
             "extend_op_un", "extend_op_subscript", "extend_op_transfert",
             "extend_op_other"} : Kept(f)
  <2>1. \A f \in {"function", "lambda", "rule", "extend_fn", "extend_cast", "extend_op_bin",
               "extend_op_un", "extend_op_subscript", "extend_op_transfert",
               "extend_op_other"} : Class(f) = "returning"
    BY DEF Class, Breaking_, Returning
  <2> QED
    BY ONLY <1>1, <2>1, ReturningLead, ExtensionsLead DEF Kept, Function
<1>11. \A f \in {"for_statement", "while_statement", "loop_statement", "match_statement"} : Kept(f)
  <2>1. \A f \in {"for_statement", "while_statement", "loop_statement", "match_statement"} : Class(f) = "breaking"
    BY DEF Class, Breaking_, Returning
  <2> QED
    BY ONLY <1>1, <2>1, BreakingLead DEF Kept, Function
<1> QED
  BY NamesKnown, <1>2, <1>3, <1>4, <1>5, <1>6, <1>7, <1>8, <1>9, <1>10, <1>11 DEF Names

------------------------------------------------------------------------------
(* What is left to do. Before each step there is a point: the mode there,  *)
(* the mode the loop around it comes round in, the call at work, and where *)
(* the innermost statement and function around it begin.                   *)

Point(m, L, f, b, r) == [mode |-> m, loop |-> L, frame |-> f, breaks |-> b, returns |-> r]
Outside == Point(Rest("outside"), {}, [depth |-> 1, breakable |-> 0, returnable |-> 0, from |-> 0],
                 0, 0)

\* The context, where the call f is in mode m.
Fits(m, f, depth, break, return) ==
  /\ depth = f.depth + IF m.inside THEN 1 ELSE 0
  /\ break = IF m.class = "breaking" /\ m.set THEN f.from ELSE f.breakable
  /\ return = IF m.class = "returning" /\ m.set THEN f.from ELSE f.returnable

Bound(p) ==
  /\ p.mode \in Modes /\ p.frame.depth \in Nat
  /\ p.breaks = IF p.mode.class = "breaking" THEN p.frame.from ELSE p.frame.breakable
  /\ p.returns = IF p.mode.class = "returning" THEN p.frame.from ELSE p.frame.returnable

SameCall(p, q) ==
  /\ q.frame = p.frame /\ q.breaks = p.breaks /\ q.returns = p.returns
  /\ q.mode.class = p.mode.class

\* The step s leads from the point p to the point q.
Link(s, p, q) ==
  /\ s.do \notin Marks => SameCall(p, q) /\ p.loop = q.loop /\ Steps(s, p.mode, q.mode, p.loop)
  /\ s.do = "again" => /\ SameCall(p, q) /\ p.mode = q.mode /\ p.loop = {q.mode}
                       /\ Leads(s.body, q.mode, q.mode, {q.mode})
  /\ s.do = "ret" => /\ Named(s.f) /\ p.mode = Rest(Class(s.f)) /\ p.loop = {} /\ p.frame = s
                     /\ p.breaks = (IF s.f \in Breaking_ THEN s.from ELSE q.breaks)
                     /\ p.returns = (IF s.f \in Returning THEN s.from ELSE q.returns)
                     /\ Fits(q.mode, q.frame, s.depth, s.breakable, s.returnable)

Chain(t, W) ==
  /\ IsSeq(t)
  /\ W[Len(t) + 1] = Outside
  /\ \A i \in 1 .. Len(t) + 1 : Bound(W[i])
  /\ \A i \in 1 .. Len(t) : Link(t[i], W[i], W[i + 1])

Chained ==
  /\ IsSeq(scopes)
  /\ \E W : Chain(todo, W) /\ Fits(W[1].mode, W[1].frame, Len(scopes), breakable, returnable)

LEMMA LenNat ==
  ASSUME NEW t, IsSeq(t)
  PROVE  Len(t) \in Nat
BY LenProperties DEF IsSeq

\* A set of numbers that is not empty has a least one.
LEMMA LeastNumber ==
  ASSUME NEW S \in SUBSET Nat, S # {}
  PROVE  \E m \in S : \A n \in S : m <= n
<1> DEFINE U == {0 .. n : n \in S}
<1>1. U \subseteq FiniteSubsetsOf(Nat) /\ U # {}
  <2>1. \A n \in S : 0 .. n \in SUBSET Nat /\ IsFiniteSet(0 .. n)
    BY FS_Interval
  <2> QED
    BY <2>1 DEF FiniteSubsetsOf
<1>2. PICK s \in U : \A t \in U : <<t, s>> \notin StrictSubsetOrdering(Nat)
  BY <1>1, FS_StrictSubsetOrderingWellFounded, WFMin
<1>3. PICK m \in S : s = 0 .. m
  OBVIOUS
<1>4. ASSUME NEW n \in S, n < m PROVE FALSE
  <2>1. m \in 0 .. m /\ m \notin 0 .. n
    BY <1>4
  <2>2. 0 .. n \subseteq 0 .. m /\ 0 .. n # 0 .. m
    BY <1>4, <2>1
  <2>3. 0 .. n \in U /\ 0 .. n \in SUBSET Nat /\ 0 .. m \in SUBSET Nat
    OBVIOUS
  <2> QED
    BY <1>2, <1>3, <2>2, <2>3 DEF StrictSubsetOrdering
<1> QED
  BY <1>4

\* What never changes from one place to the next is the same everywhere.
LEMMA Carried ==
  ASSUME NEW n \in Nat, NEW V, \A i \in 1 .. n : V[i + 1] = V[i]
  PROVE  \A i \in 1 .. n + 1 : V[i] = V[1]
<1> SUFFICES ASSUME NEW j \in 1 .. n + 1, V[j] # V[1] PROVE FALSE
  OBVIOUS
<1> DEFINE S == {i \in 1 .. n + 1 : V[i] # V[1]}
<1>1. S \in SUBSET Nat /\ S # {}
  OBVIOUS
<1>2. PICK m \in S : \A i \in S : m <= i
  BY ONLY <1>1, LeastNumber
<1>3. m \in 1 .. n + 1 /\ V[m] # V[1] /\ m # 1
  BY <1>2
<1>4. m - 1 \in 1 .. n /\ (m - 1) + 1 = m /\ ~(m <= m - 1)
  BY <1>3
<1>5. V[m - 1] = V[1]
  BY <1>2, <1>4
<1>6. V[m] = V[m - 1]
  BY <1>4
<1> QED
  BY <1>3, <1>5, <1>6

LEMMA Dropped ==
  ASSUME NEW t, NEW W, Chain(t, W), NEW k \in 0 .. Len(t)
  PROVE  \E U : Chain(SubSeq(t, k + 1, Len(t)), U) /\ U[1] = W[k + 1]
<1> DEFINE n == Len(t)
           r == SubSeq(t, k + 1, n)
           U == [i \in 1 .. n - k + 1 |-> W[k + i]]
<1>1. PICK S : t \in Seq(S)
  BY DEF Chain, IsSeq
<1>2. n \in Nat /\ \A i \in 1 .. n : t[i] \in S
  BY <1>1, LenProperties, ElementOfSeq
<1>3. r \in Seq(S) /\ Len(r) = n - k /\ \A i \in 1 .. n - k : r[i] = t[k + i]
  <2>1. k + 1 \in Int /\ n \in Int /\ \A i \in k + 1 .. n : t[i] \in S
    BY <1>2
  <2>2. /\ r \in Seq(S) /\ Len(r) = IF k + 1 <= n THEN n - (k + 1) + 1 ELSE 0
        /\ \A i \in 1 .. n - (k + 1) + 1 : r[i] = t[(k + 1) + i - 1]
    BY <2>1, SubSeqProperties
  <2>3. Len(r) = n - k
    BY <2>2, <1>2
  <2>4. \A i \in 1 .. n - k : (k + 1) + i - 1 = k + i /\ i \in 1 .. n - (k + 1) + 1
    BY <1>2
  <2> QED
    BY <2>2, <2>3, <2>4
<1> HIDE DEF r, n
<1>4. U[1] = W[k + 1] /\ U[Len(r) + 1] = W[n + 1]
  BY <1>2, <1>3 DEF n
<1>5. \A i \in 1 .. Len(r) + 1 : U[i] = W[k + i] /\ k + i \in 1 .. n + 1
  BY <1>2, <1>3 DEF n
<1>6. \A i \in 1 .. Len(r) : /\ U[i] = W[k + i] /\ U[i + 1] = W[(k + i) + 1] /\ k + i \in 1 .. n
                             /\ r[i] = t[k + i]
  BY <1>2, <1>3 DEF n
<1> HIDE DEF U
<1>7. Chain(r, U)
  BY <1>3, <1>4, <1>5, <1>6 DEF Chain, IsSeq, n
<1> QED
  BY <1>4, <1>7 DEF r, n

LEMMA Pushed ==
  ASSUME NEW t, NEW W, Chain(t, W), NEW s, NEW p, Bound(p), Link(s, p, W[1])
  PROVE  \E U : Chain(<<s>> \o t, U) /\ U[1] = p
<1> DEFINE c == <<s>>
           r == c \o t
           U == [i \in 1 .. Len(t) + 2 |-> IF i = 1 THEN p ELSE W[i - 1]]
<1>1. c \in Seq({s}) /\ Len(c) = 1 /\ c[1] = s
  OBVIOUS
<1>2. IsSeq(c) /\ IsSeq(t)
  BY <1>1 DEF IsSeq, Chain
<1> HIDE DEF c
<1>3. PICK S : c \in Seq(S) /\ t \in Seq(S)
  BY <1>2, SeqOf2
<1>4. /\ r \in Seq(S) /\ Len(r) = 1 + Len(t) /\ Len(t) \in Nat
      /\ \A i \in 1 .. 1 + Len(t) : r[i] = IF i <= 1 THEN s ELSE t[i - 1]
  BY <1>1, <1>3, ConcatProperties, LenProperties
<1> HIDE DEF r
<1>5. U[1] = p /\ U[Len(r) + 1] = W[Len(t) + 1]
  BY <1>4
<1>6. \A i \in 1 .. Len(r) + 1 : i = 1 \/ (U[i] = W[i - 1] /\ i - 1 \in 1 .. Len(t) + 1)
  BY <1>4
<1>7. r[1] = s /\ U[2] = W[1]
  BY <1>4
<1>8. \A i \in 1 .. Len(r) :
        i = 1 \/ (/\ r[i] = t[i - 1] /\ U[i] = W[i - 1] /\ U[i + 1] = W[(i - 1) + 1]
                  /\ i - 1 \in 1 .. Len(t))
  BY <1>4
<1> HIDE DEF U
<1>9. \A i \in 1 .. Len(r) + 1 : Bound(U[i])
  BY <1>5, <1>6 DEF Chain
<1>10. ASSUME NEW i \in 1 .. Len(r) PROVE Link(r[i], U[i], U[i + 1])
  <2>1. CASE i = 1
    <3>1. i + 1 = 2
      BY <2>1
    <3> QED
      BY <2>1, <3>1, <1>5, <1>7
  <2>2. CASE i # 1
    BY <2>2, <1>8 DEF Chain
  <2> QED
    BY <2>1, <2>2
<1>11. Chain(r, U)
  BY <1>4, <1>5, <1>9, <1>10 DEF Chain, IsSeq
<1> QED
  BY <1>5, <1>11 DEF r, c

LEMMA Ahead ==
  ASSUME NEW t, NEW W, Chain(t, W), NEW c, NEW m, Leads(c, m, W[1].mode, W[1].loop)
  PROVE  \E U : /\ Chain(c \o t, U)
                /\ U[1].mode = m /\ U[1].loop = W[1].loop /\ SameCall(U[1], W[1])
<1> DEFINE q == W[1]
           n == Len(c)
<1>1. /\ IsSeq(c) /\ IsSeq(t) /\ n \in Nat /\ Len(t) \in Nat
  BY LeadsModes, LenNat DEF Chain
<1>2. PICK M \in [1 .. n + 1 -> Modes] :
        /\ M[1] = m /\ M[n + 1] = q.mode
        /\ \A i \in 1 .. n : Steps(c[i], M[i], M[i + 1], q.loop)
  BY Walked
<1>3. PICK S : c \in Seq(S) /\ t \in Seq(S)
  BY <1>1, SeqOf2
<1> DEFINE P(i) == Point(M[i], q.loop, q.frame, q.breaks, q.returns)
           r == c \o t
           U == [i \in 1 .. n + Len(t) + 1 |-> IF i <= n THEN P(i) ELSE W[i - n]]
<1>4. \A i \in 1 .. n + 1 : M[i] \in Modes /\ M[i].class = q.mode.class
  <2> DEFINE V == [i \in 1 .. n + 1 |-> M[i].class]
  <2>1. \A i \in 1 .. n : V[i + 1] = V[i]
    <3>1. \A i \in 1 .. n : M[i + 1].class = M[i].class
      BY <1>2, StepsModes
    <3>2. \A i \in 1 .. n : V[i] = M[i].class /\ V[i + 1] = M[i + 1].class
      BY <1>1
    <3> QED
      BY <3>1, <3>2
  <2> HIDE DEF V
  <2>2. \A i \in 1 .. n + 1 : V[i] = V[1]
    BY ONLY <1>1, <2>1, Carried
  <2>3. \A i \in 1 .. n + 1 : V[i] = M[i].class
    BY DEF V
  <2>4. n + 1 \in 1 .. n + 1
    BY <1>1
  <2> QED
    BY <1>2, <2>2, <2>3, <2>4
<1>5. Bound(q)
  BY <1>1 DEF Chain
<1>6. \A i \in 1 .. n + 1 : /\ P(i).mode = M[i] /\ P(i).loop = q.loop /\ P(i).frame = q.frame
                            /\ P(i).breaks = q.breaks /\ P(i).returns = q.returns
  BY DEF Point
<1> HIDE DEF P
<1>7. \A i \in 1 .. n + 1 : Bound(P(i))
  BY <1>4, <1>5, <1>6 DEF Bound
<1>8. ASSUME NEW i \in 1 .. n
      PROVE  /\ i < n => Link(c[i], P(i), P(i + 1))
             /\ i = n => Link(c[i], P(i), q)
  <2>1. Steps(c[i], M[i], M[i + 1], q.loop) /\ i \in 1 .. n + 1 /\ i + 1 \in 1 .. n + 1
    BY <1>1, <1>2
  <2>2. SameCall(P(i), P(i + 1)) /\ SameCall(P(i), q)
    BY <1>4, <1>6, <2>1 DEF SameCall
  <2>3. c[i].do \notin Marks
    BY <2>1, StepsModes
  <2>4. i = n => M[i + 1] = q.mode
    BY <1>2
  <2> QED
    BY <2>1, <2>2, <2>3, <2>4, <1>6 DEF Link, Marks
<1>9. /\ r \in Seq(S) /\ Len(r) = n + Len(t)
      /\ \A i \in 1 .. n + Len(t) : r[i] = IF i <= n THEN c[i] ELSE t[i - n]
  BY <1>3, ConcatProperties
<1> HIDE DEF r
<1>10. \A i \in 1 .. Len(r) + 1 : \/ i \in 1 .. n /\ U[i] = P(i)
                                  \/ i - n \in 1 .. Len(t) + 1 /\ U[i] = W[i - n]
  BY <1>1, <1>9
<1>11. U[Len(r) + 1] = W[Len(t) + 1]
  BY <1>1, <1>9
<1>12. \A i \in 1 .. Len(r) :
         \/ i < n /\ i \in 1 .. n /\ r[i] = c[i] /\ U[i] = P(i) /\ U[i + 1] = P(i + 1)
         \/ i = n /\ i \in 1 .. n /\ r[i] = c[i] /\ U[i] = P(i) /\ U[i + 1] = q
         \/ /\ i - n \in 1 .. Len(t)
            /\ r[i] = t[i - n] /\ U[i] = W[i - n] /\ U[i + 1] = W[(i - n) + 1]
  <2> SUFFICES ASSUME NEW i \in 1 .. Len(r)
               PROVE  \/ i < n /\ i \in 1 .. n /\ r[i] = c[i] /\ U[i] = P(i) /\ U[i + 1] = P(i + 1)
                      \/ i = n /\ i \in 1 .. n /\ r[i] = c[i] /\ U[i] = P(i) /\ U[i + 1] = q
                      \/ /\ i - n \in 1 .. Len(t)
                         /\ r[i] = t[i - n] /\ U[i] = W[i - n] /\ U[i + 1] = W[(i - n) + 1]
    OBVIOUS
  <2>1. CASE i < n
    BY <2>1, <1>1, <1>9
  <2>2. CASE i = n
    <3>1. (i + 1) - n = 1 /\ ~(i + 1 <= n) /\ i + 1 \in 1 .. n + Len(t) + 1
      BY <2>2, <1>1, <1>9
    <3>2. U[i + 1] = q
      BY <3>1
    <3> QED
      BY <2>2, <3>2, <1>1, <1>9
  <2>3. CASE i > n
    <3>1. (i + 1) - n = (i - n) + 1 /\ ~(i + 1 <= n) /\ i + 1 \in 1 .. n + Len(t) + 1
      BY <2>3, <1>1, <1>9
    <3>2. U[i + 1] = W[(i - n) + 1]
      BY <3>1
    <3> QED
      BY <2>3, <3>2, <1>1, <1>9
  <2> QED
    BY <2>1, <2>2, <2>3, <1>1, <1>9
<1>13. /\ n > 0 => U[1] = P(1)
       /\ n = 0 => U[1] = q
  BY <1>1
<1> HIDE DEF U
<1>14. \A i \in 1 .. Len(r) + 1 : Bound(U[i])
  BY <1>7, <1>10, <1>1 DEF Chain
<1>15. \A i \in 1 .. Len(r) : Link(r[i], U[i], U[i + 1])
  BY <1>8, <1>12 DEF Chain
<1>16. Chain(r, U)
  BY <1>9, <1>11, <1>14, <1>15 DEF Chain, IsSeq
<1>17. U[1].mode = m /\ U[1].loop = q.loop /\ SameCall(U[1], q)
  <2>1. 1 \in 1 .. n + 1 /\ m.class = q.mode.class
    BY <1>1, <1>2, <1>4
  <2>2. CASE n = 0
    <3>1. U[1] = q /\ m = q.mode
      BY <2>2, <1>2, <1>13
    <3> QED
      BY <3>1 DEF SameCall
  <2>3. CASE n > 0
    <3>1. U[1] = P(1)
      BY <2>3, <1>13
    <3> QED
      BY <3>1, <2>1, <1>2, <1>6 DEF SameCall
  <2> QED
    BY <1>1, <2>2, <2>3
<1> QED
  BY <1>16, <1>17 DEF r

\* Looking ahead: what holds here holds up to the mark that changes it.
LEMMA CallsAhead ==
  ASSUME NEW t, NEW W, Chain(t, W), NEW k \in 1 .. Len(t) + 1,
         \A j \in 1 .. k - 1 : t[j].do # "ret"
  PROVE  SameCall(W[1], W[k])
<1> DEFINE n == k - 1
           P(i) == <<W[i].frame, W[i].breaks, W[i].returns, W[i].mode.class>>
           V == [i \in 1 .. n + 1 |-> P(i)]
<1>1. Len(t) \in Nat /\ n \in Nat /\ k = n + 1 /\ k \in 1 .. n + 1 /\ 1 \in 1 .. n + 1
  BY LenNat DEF Chain
<1>2. \A i \in 1 .. n : SameCall(W[i], W[i + 1])
  <2>1. \A i \in 1 .. n : Link(t[i], W[i], W[i + 1])
    BY <1>1 DEF Chain
  <2> QED
    BY <2>1 DEF Link, Marks
<1>3. \A i \in 1 .. n : P(i + 1) = P(i)
  BY <1>2 DEF SameCall
<1> HIDE DEF P
<1>4. \A i \in 1 .. n : V[i + 1] = V[i]
  BY <1>1, <1>3
<1>5. V[k] = P(k) /\ V[1] = P(1)
  BY <1>1
<1> HIDE DEF V
<1>6. V[k] = V[1]
  BY ONLY <1>1, <1>4, Carried
<1> QED
  BY <1>5, <1>6 DEF P, SameCall

LEMMA LoopAhead ==
  ASSUME NEW t, NEW W, Chain(t, W), NEW k \in 1 .. Len(t) + 1,
         \A j \in 1 .. k - 1 : t[j].do \notin Marks
  PROVE  W[k].loop = W[1].loop
<1> DEFINE n == k - 1
           V == [i \in 1 .. n + 1 |-> W[i].loop]
<1>1. Len(t) \in Nat /\ n \in Nat /\ k = n + 1 /\ k \in 1 .. n + 1 /\ 1 \in 1 .. n + 1
  BY LenNat DEF Chain
<1>2. \A i \in 1 .. n : W[i + 1].loop = W[i].loop
  <2>1. \A i \in 1 .. n : Link(t[i], W[i], W[i + 1])
    BY <1>1 DEF Chain
  <2> QED
    BY <2>1 DEF Link
<1>3. \A i \in 1 .. n : V[i + 1] = V[i]
  BY <1>1, <1>2
<1> HIDE DEF V
<1>4. V[k] = V[1]
  BY ONLY <1>1, <1>3, Carried
<1> QED
  BY <1>1, <1>4 DEF V

LEMMA BreaksAhead ==
  ASSUME NEW t, NEW W, Chain(t, W), NEW k \in 1 .. Len(t) + 1,
         \A j \in 1 .. k - 1 : ~(t[j].do = "ret" /\ t[j].f \in Breaking_)
  PROVE  W[k].breaks = W[1].breaks
<1> DEFINE n == k - 1
           V == [i \in 1 .. n + 1 |-> W[i].breaks]
<1>1. Len(t) \in Nat /\ n \in Nat /\ k = n + 1 /\ k \in 1 .. n + 1 /\ 1 \in 1 .. n + 1
  BY LenNat DEF Chain
<1>2. \A i \in 1 .. n : W[i + 1].breaks = W[i].breaks
  <2>1. \A i \in 1 .. n : Link(t[i], W[i], W[i + 1])
    BY <1>1 DEF Chain
  <2> QED
    BY <2>1 DEF Link, Marks, SameCall
<1>3. \A i \in 1 .. n : V[i + 1] = V[i]
  BY <1>1, <1>2
<1> HIDE DEF V
<1>4. V[k] = V[1]
  BY ONLY <1>1, <1>3, Carried
<1> QED
  BY <1>1, <1>4 DEF V

LEMMA ReturnsAhead ==
  ASSUME NEW t, NEW W, Chain(t, W), NEW k \in 1 .. Len(t) + 1,
         \A j \in 1 .. k - 1 : ~(t[j].do = "ret" /\ t[j].f \in Returning)
  PROVE  W[k].returns = W[1].returns
<1> DEFINE n == k - 1
           V == [i \in 1 .. n + 1 |-> W[i].returns]
<1>1. Len(t) \in Nat /\ n \in Nat /\ k = n + 1 /\ k \in 1 .. n + 1 /\ 1 \in 1 .. n + 1
  BY LenNat DEF Chain
<1>2. \A i \in 1 .. n : W[i + 1].returns = W[i].returns
  <2>1. \A i \in 1 .. n : Link(t[i], W[i], W[i + 1])
    BY <1>1 DEF Chain
  <2> QED
    BY <2>1 DEF Link, Marks, SameCall
<1>3. \A i \in 1 .. n : V[i + 1] = V[i]
  BY <1>1, <1>2
<1> HIDE DEF V
<1>4. V[k] = V[1]
  BY ONLY <1>1, <1>3, Carried
<1> QED
  BY <1>1, <1>4 DEF V

\* The first place of a set of places.
LEMMA FirstPlace ==
  ASSUME NEW n \in Nat, NEW S \in SUBSET (1 .. n), S # {}
  PROVE  \E i \in S : \A j \in 1 .. i - 1 : j \notin S
<1>1. PICK i \in S : \A j \in S : i <= j
  BY LeastNumber
<1> QED
  BY <1>1

LEMMA OutsideFacts ==
  /\ Outside.loop = {} /\ Outside.mode = Rest("outside") /\ Outside.breaks = 0 /\ Outside.returns = 0
  /\ Outside.frame.depth = 1 /\ Outside.frame.breakable = 0 /\ Outside.frame.returnable = 0
BY DEF Outside, Point

\* Inside of a loop there is a mark where it comes round, before the call is left.
LEMMA LoopMark ==
  ASSUME NEW t, NEW W, Chain(t, W), W[1].loop # {}
  PROVE  \E i \in 1 .. Len(t) : /\ t[i].do = "again"
                                /\ \A j \in 1 .. i - 1 : t[j].do \notin Marks
<1> DEFINE S == {i \in 1 .. Len(t) : t[i].do \in Marks}
<1>1. Len(t) \in Nat /\ S \in SUBSET (1 .. Len(t))
  BY LenNat DEF Chain
<1>2. S # {}
  <2> SUFFICES ASSUME S = {} PROVE FALSE
    OBVIOUS
  <2>1. Len(t) + 1 \in 1 .. Len(t) + 1 /\ \A j \in 1 .. (Len(t) + 1) - 1 : t[j].do \notin Marks
    BY <1>1
  <2>2. W[Len(t) + 1].loop = W[1].loop
    BY <2>1, LoopAhead
  <2> QED
    BY <2>2, OutsideFacts DEF Chain
<1>3. PICK i \in S : \A j \in 1 .. i - 1 : j \notin S
  BY ONLY <1>1, <1>2, FirstPlace
<1>4. i \in 1 .. Len(t) + 1 /\ \A j \in 1 .. i - 1 : j \in 1 .. Len(t) /\ t[j].do \notin Marks
  BY <1>1, <1>3
<1>5. W[i].loop # {}
  BY <1>4, LoopAhead
<1>6. t[i].do # "ret"
  BY <1>3, <1>5 DEF Chain, Link
<1> QED
  BY <1>3, <1>4, <1>6 DEF Marks

\* Inside of a function there is the mark of its call.
LEMMA CallMark ==
  ASSUME NEW t, NEW W, Chain(t, W), W[1].mode.class # "outside"
  PROVE  \E i \in 1 .. Len(t) : /\ t[i].do = "ret" /\ W[1].frame = t[i]
                                /\ \A j \in 1 .. i - 1 : t[j].do # "ret"
<1> DEFINE S == {i \in 1 .. Len(t) : t[i].do = "ret"}
<1>1. Len(t) \in Nat /\ S \in SUBSET (1 .. Len(t))
  BY LenNat DEF Chain
<1>2. S # {}
  <2> SUFFICES ASSUME S = {} PROVE FALSE
    OBVIOUS
  <2>1. Len(t) + 1 \in 1 .. Len(t) + 1 /\ \A j \in 1 .. (Len(t) + 1) - 1 : t[j].do # "ret"
    BY <1>1
  <2>2. SameCall(W[1], W[Len(t) + 1])
    BY <2>1, CallsAhead
  <2>3. W[Len(t) + 1].mode.class = "outside"
    BY OutsideFacts, ModeFacts DEF Chain, Classes
  <2> QED
    BY <2>2, <2>3 DEF SameCall
<1>3. PICK i \in S : \A j \in 1 .. i - 1 : j \notin S
  BY ONLY <1>1, <1>2, FirstPlace
<1>4. i \in 1 .. Len(t) + 1 /\ \A j \in 1 .. i - 1 : j \in 1 .. Len(t) /\ t[j].do # "ret"
  BY <1>1, <1>3
<1>5. SameCall(W[1], W[i])
  BY <1>4, CallsAhead
<1>6. W[i].frame = t[i]
  BY <1>3 DEF Chain, Link
<1> QED
  BY <1>3, <1>4, <1>5, <1>6 DEF SameCall

LEMMA PositionIs ==
  ASSUME NEW kind, NEW i \in 1 .. Len(todo), Len(todo) \in Nat, todo[i].do = kind,
         \A j \in 1 .. i - 1 : todo[j].do # kind
  PROVE  Position(kind) = i
<1>1. ASSUME NEW k \in 1 .. Len(todo), todo[k].do = kind, \A j \in 1 .. (k - 1) : todo[j].do # kind
      PROVE  k = i
  <2>1. ~(k < i) /\ ~(i < k)
    BY <1>1
  <2> QED
    BY <2>1
<1> QED
  BY <1>1 DEF Position

------------------------------------------------------------------------------
(* What a step of the parser does to the points and to the calls at work.  *)

\* What is said of a step, of its inner code too.
Allows(s, m, k, L) ==
  /\ s.do \in Quiet \cup Settling \cup {"loop", "separator"} => k = m
  /\ s.do \in Settling => Settled(m)
  /\ s.do \in {"call", "binary"} => Named(s.f)
  /\ s.do = "if" => Leads(s.then, m, k, L) /\ Leads(s.else, m, k, L)
  /\ s.do = "either" => Leads(s.one, m, k, L) /\ Leads(s.other, m, k, L)
  /\ s.do = "loop" => Leads(s.body, m, m, {m})
  /\ s.do \in {"break", "continue", "separator"} => m \in L
  /\ s.do = "return" => m = Rest(m.class) /\ m.class # "outside"
  /\ s.do = "enter" => ~m.inside /\ k = Mode(m.class, TRUE, m.set)
  /\ s.do = "exit" => m.inside /\ k = Mode(m.class, FALSE, m.set)
  /\ s.do = "breakable" => m.class = "breaking" /\ k = Mode(m.class, m.inside, TRUE)
  /\ s.do = "returnable" => m.class = "returning" /\ k = Mode(m.class, m.inside, TRUE)
  /\ s.do = "restore" => m.class # "outside" /\ k = Mode(m.class, m.inside, FALSE)

LEMMA StepFacts ==
  ASSUME NEW s, NEW m, NEW k, NEW L, Steps(s, m, k, L)
  PROVE  Allows(s, m, k, L)
<1>1. PICK J : Closed(J) /\ Judged(J, s, m, k, L)
  BY StepsJudged
<1>2. \A c, a, b, K : Along(J, c, a, b, K) => Leads(c, a, b, K)
  BY <1>1 DEF Leads
<1> QED
  BY <1>1, <1>2 DEF Judged, Allows, Quiet, Settling

\* A call that is left leaves the context as it was when it was made.
Gone == \A i \in Calls : Left(i) => /\ Len(scopes') = todo[i].depth
                                    /\ breakable' = todo[i].breakable
                                    /\ returnable' = todo[i].returnable

\* The steps up to the k-th are replaced by others.
LEMMA GoneIf ==
  ASSUME IsSeq(todo), NEW c, IsSeq(c), NEW k \in 0 .. Len(todo),
         todo' = c \o SubSeq(todo, k + 1, Len(todo)),
         \A i \in 1 .. k : todo[i].do = "ret" => /\ Len(scopes') = todo[i].depth
                                                 /\ breakable' = todo[i].breakable
                                                 /\ returnable' = todo[i].returnable
  PROVE  Gone
<1> SUFFICES ASSUME NEW i \in Calls, Left(i), i > k PROVE FALSE
  BY LenNat DEF Gone, Calls
<1> DEFINE n == Len(todo)
           r == SubSeq(todo, k + 1, n)
           j == Len(c) + (i - k)
<1>1. /\ n \in Nat /\ Len(c) \in Nat /\ i \in 1 .. n /\ todo[i].do = "ret"
  BY LenNat DEF Calls
<1>2. PICK S : todo \in Seq(S) /\ c \in Seq(S)
  BY SeqOf2
<1>3. r \in Seq(S) /\ Len(r) = n - k /\ r[i - k] = todo[i]
  <2>1. k + 1 \in Int /\ n \in Int /\ \A x \in k + 1 .. n : todo[x] \in S
    BY <1>1, <1>2, ElementOfSeq
  <2>2. /\ r \in Seq(S) /\ Len(r) = IF k + 1 <= n THEN n - (k + 1) + 1 ELSE 0
        /\ \A x \in 1 .. n - (k + 1) + 1 : r[x] = todo[(k + 1) + x - 1]
    BY <2>1, SubSeqProperties
  <2>3. i - k \in 1 .. n - (k + 1) + 1 /\ (k + 1) + (i - k) - 1 = i
    BY <1>1
  <2>4. r[i - k] = todo[i]
    BY <2>2, <2>3
  <2>5. Len(r) = n - k
    BY <2>2, <1>1
  <2> QED
    BY <2>2, <2>4, <2>5
<1>4. todo' = c \o r
  OBVIOUS
<1> HIDE DEF r
<1>5. /\ Len(todo') = Len(c) + (n - k)
      /\ \A x \in 1 .. Len(c) + Len(r) : todo'[x] = IF x <= Len(c) THEN c[x] ELSE r[x - Len(c)]
  <2>1. /\ Len(c \o r) = Len(c) + Len(r)
        /\ \A x \in 1 .. Len(c) + Len(r) : (c \o r)[x] = IF x <= Len(c) THEN c[x] ELSE r[x - Len(c)]
    BY <1>2, <1>3, ConcatProperties
  <2> QED
    BY <2>1, <1>3, <1>4
<1>6. j \in 1 .. Len(todo') /\ ~(j <= Len(c)) /\ j - Len(c) = i - k /\ Len(todo') - j = n - i
  BY <1>1, <1>5
<1>7. todo'[j] = todo[i]
  BY <1>3, <1>5, <1>6
<1>8. j \in Calls'
  BY <1>1, <1>6, <1>7 DEF Calls
<1> QED
  BY <1>6, <1>8 DEF Left

LEMMA HeadFacts ==
  ASSUME NEW W, Chain(todo, W), todo # <<>>
  PROVE  /\ Len(todo) \in Nat /\ 1 \in 0 .. Len(todo) /\ 1 \in 1 .. Len(todo)
         /\ Head(todo) = todo[1] /\ Tail(todo) = SubSeq(todo, 1 + 1, Len(todo)) /\ IsSeq(Tail(todo))
         /\ Bound(W[1]) /\ Bound(W[2]) /\ Link(Head(todo), W[1], W[2])
         /\ \E U : Chain(Tail(todo), U) /\ U[1] = W[2]
<1>1. PICK S : todo \in Seq(S)
  BY DEF Chain, IsSeq
<1>2. Len(todo) \in Nat /\ Len(todo) # 0
  BY <1>1, EmptySeq, LenProperties
<1>3. Head(todo) = todo[1] /\ Tail(todo) = SubSeq(todo, 2, Len(todo)) /\ Tail(todo) \in Seq(S)
  BY <1>1, HeadTailProperties, TailIsSubSeq
<1>4. 1 \in 1 .. Len(todo) /\ 1 \in 1 .. Len(todo) + 1 /\ 2 \in 1 .. Len(todo) + 1 /\ 1 + 1 = 2
      /\ 1 \in 0 .. Len(todo)
  BY <1>2
<1>5. Bound(W[1]) /\ Bound(W[2]) /\ Link(Head(todo), W[1], W[2])
  BY <1>3, <1>4 DEF Chain
<1>6. \E U : Chain(Tail(todo), U) /\ U[1] = W[2]
  <2>1. \E U : Chain(SubSeq(todo, 1 + 1, Len(todo)), U) /\ U[1] = W[1 + 1]
    BY ONLY <1>4, Chain(todo, W), Dropped
  <2> QED
    BY <1>3, <1>4, <2>1
<1> QED
  BY <1>2, <1>3, <1>4, <1>5, <1>6 DEF IsSeq

\* A step replaced by code that leads where it leads.
LEMMA Does ==
  ASSUME NEW W, Chain(todo, W), todo # <<>>, Head(todo).do \notin Marks,
         NEW c, NEW m, Leads(c, m, W[2].mode, W[1].loop), todo' = c \o Tail(todo),
         IsSeq(scopes'), Fits(m, W[1].frame, Len(scopes'), breakable', returnable')
  PROVE  Chained' /\ Gone
<1>1. /\ Bound(W[2]) /\ Link(Head(todo), W[1], W[2]) /\ IsSeq(todo)
      /\ Len(todo) \in Nat /\ 1 \in 0 .. Len(todo) /\ Head(todo) = todo[1]
      /\ Tail(todo) = SubSeq(todo, 1 + 1, Len(todo))
  BY HeadFacts DEF Chain
<1>2. PICK T : Chain(Tail(todo), T) /\ T[1] = W[2]
  BY HeadFacts
<1>3. SameCall(W[1], W[2]) /\ W[2].loop = W[1].loop
  BY <1>1 DEF Link
<1>4. PICK U : Chain(todo', U) /\ U[1].mode = m /\ SameCall(U[1], W[2])
  <2>1. Leads(c, m, T[1].mode, T[1].loop)
    BY <1>2, <1>3
  <2>2. \E U : Chain(c \o Tail(todo), U) /\ U[1].mode = m /\ U[1].loop = T[1].loop /\ SameCall(U[1], T[1])
    BY ONLY <1>2, <2>1, Ahead
  <2> QED
    BY <1>2, <2>2
<1>5. Chained'
  BY <1>3, <1>4 DEF Chained, SameCall
<1>6. IsSeq(c) /\ \A i \in 1 .. 1 : todo[i].do # "ret"
  BY <1>1, LeadsModes DEF Marks
<1>7. Gone
  BY <1>1, <1>6, GoneIf
<1> QED
  BY <1>5, <1>7

LEMMA Skips ==
  ASSUME NEW W, Chain(todo, W), todo # <<>>, Head(todo).do \notin Marks,
         todo' = Tail(todo),
         IsSeq(scopes'), Fits(W[2].mode, W[1].frame, Len(scopes'), breakable', returnable')
  PROVE  Chained' /\ Gone
<1>1. IsSeq(Tail(todo)) /\ W[2].mode \in Modes
  BY HeadFacts DEF Bound
<1>2. todo' = <<>> \o Tail(todo)
  BY <1>1, ConcatEmptySeq DEF IsSeq
<1>3. Leads(<<>>, W[2].mode, W[2].mode, W[1].loop)
  BY <1>1, LeadsNowhere
<1> QED
  BY <1>2, <1>3, Does

\* A step of a function, with the point before it and the one behind it.
LEMMA HeadSteps ==
  ASSUME NEW W, Chain(todo, W), todo # <<>>, Head(todo).do \notin Marks
  PROVE  /\ Steps(Head(todo), W[1].mode, W[2].mode, W[1].loop)
         /\ Allows(Head(todo), W[1].mode, W[2].mode, W[1].loop)
         /\ SameCall(W[1], W[2]) /\ W[2].loop = W[1].loop
BY HeadFacts, StepFacts DEF Link

\* A step that is over, and one replaced by code, that leave the context alone.
LEMMA Keeps ==
  ASSUME Chained, todo # <<>>, Head(todo).do \in Quiet \cup Settling \cup {"loop", "separator"},
         todo' = Tail(todo), IsSeq(scopes'), Len(scopes') = Len(scopes),
         breakable' = breakable, returnable' = returnable
  PROVE  Chained' /\ Gone
<1>1. PICK W : Chain(todo, W) /\ Fits(W[1].mode, W[1].frame, Len(scopes), breakable, returnable)
  BY DEF Chained
<1>2. Head(todo).do \notin Marks
  BY DEF Quiet, Settling, Marks
<1>3. Allows(Head(todo), W[1].mode, W[2].mode, W[1].loop)
  BY <1>1, <1>2, HeadSteps
<1>4. W[2].mode = W[1].mode
  BY <1>3 DEF Allows
<1> QED
  BY <1>1, <1>2, <1>4, Skips

LEMMA Becomes ==
  ASSUME Chained, todo # <<>>, Head(todo).do \notin Marks, NEW c,
         \A m, k, L : Steps(Head(todo), m, k, L) => Leads(c, m, k, L),
         todo' = c \o Tail(todo), UNCHANGED context
  PROVE  Chained' /\ Gone
<1>1. PICK W : Chain(todo, W) /\ Fits(W[1].mode, W[1].frame, Len(scopes), breakable, returnable)
  BY DEF Chained
<1>2. Leads(c, W[1].mode, W[2].mode, W[1].loop)
  BY <1>1, HeadSteps
<1>3. IsSeq(scopes') /\ Fits(W[1].mode, W[1].frame, Len(scopes'), breakable', returnable')
  BY <1>1 DEF Chained, context
<1> QED
  BY <1>1, <1>2, <1>3, Does

\* The viewer, the errors and the operations written down.
LEMMA ViewChains == ASSUME Chained, View PROVE Chained' /\ Gone
<1>1. todo # <<>> /\ Head(todo).do \in Quiet /\ todo' = Tail(todo) /\ UNCHANGED context
  BY DEF View, Step, Done, Quiet
<1> QED
  BY <1>1, Keeps DEF context, Chained

LEMMA AddErrorChains == ASSUME Chained, AddError PROVE Chained' /\ Gone
<1>1. todo # <<>> /\ Head(todo).do \in Quiet /\ todo' = Tail(todo) /\ UNCHANGED context
  BY DEF AddError, Step, Done, Quiet
<1> QED
  BY <1>1, Keeps DEF context, Chained

LEMMA CheckAssertionChains ==
  ASSUME Chained, CheckAssertion, status' = "running" PROVE Chained' /\ Gone
<1>1. todo # <<>> /\ Head(todo).do \in Quiet /\ todo' = Tail(todo) /\ UNCHANGED context
  BY DEF CheckAssertion, Step, Done, Finish, Quiet
<1> QED
  BY <1>1, Keeps DEF context, Chained

LEMMA WriteChains == ASSUME Chained, Write PROVE Chained' /\ Gone
<1>1. todo # <<>> /\ Head(todo).do \in Quiet /\ todo' = Tail(todo) /\ UNCHANGED context
  BY DEF Write, Step, Done, Quiet
<1> QED
  BY <1>1, Keeps DEF context, Chained

LEMMA ChooseChains == ASSUME Chained, Choose PROVE Chained' /\ Gone
<1>1. /\ todo # <<>> /\ UNCHANGED context
      /\ \/ Head(todo).do = "if" /\ (Do(Head(todo).then) \/ Do(Head(todo).else))
         \/ Head(todo).do = "either" /\ (Do(Head(todo).one) \/ Do(Head(todo).other))
  BY DEF Choose, Step
<1>2. Head(todo).do \notin Marks
  BY <1>1 DEF Marks
<1>3. ASSUME Head(todo).do = "if"
      PROVE  \A m, k, L : Steps(Head(todo), m, k, L)
                            => Leads(Head(todo).then, m, k, L) /\ Leads(Head(todo).else, m, k, L)
  BY <1>3, StepFacts DEF Allows
<1>4. ASSUME Head(todo).do = "either"
      PROVE  \A m, k, L : Steps(Head(todo), m, k, L)
                            => Leads(Head(todo).one, m, k, L) /\ Leads(Head(todo).other, m, k, L)
  BY <1>4, StepFacts DEF Allows
<1>5. CASE Head(todo).do = "if" /\ Do(Head(todo).then)
  BY <1>1, <1>2, <1>3, <1>5, Becomes DEF Do
<1>6. CASE Head(todo).do = "if" /\ Do(Head(todo).else)
  BY <1>1, <1>2, <1>3, <1>6, Becomes DEF Do
<1>7. CASE Head(todo).do = "either" /\ Do(Head(todo).one)
  BY <1>1, <1>2, <1>4, <1>7, Becomes DEF Do
<1>8. CASE Head(todo).do = "either" /\ Do(Head(todo).other)
  BY <1>1, <1>2, <1>4, <1>8, Becomes DEF Do
<1> QED
  BY <1>1, <1>5, <1>6, <1>7, <1>8

\* What entering a scope and setting a target do to the context.
LEMMA EnterFits ==
  ASSUME NEW m \in Modes, NEW f, NEW depth \in Nat, NEW break, NEW return,
         Fits(m, f, depth, break, return), f.depth \in Nat, ~m.inside
  PROVE  Fits(Mode(m.class, TRUE, m.set), f, depth + 1, break, return)
BY DEF Fits, Mode, Modes

LEMMA ExitFits ==
  ASSUME NEW m \in Modes, NEW f, NEW depth \in Nat, NEW break, NEW return,
         Fits(m, f, depth, break, return), f.depth \in Nat
  PROVE  /\ m.inside => depth = f.depth + 1
         /\ Fits(Mode(m.class, FALSE, m.set), f, f.depth, break, return)
BY DEF Fits, Mode, Modes

LEMMA SetFits ==
  ASSUME NEW m \in Modes, NEW f, NEW depth, NEW break, NEW return,
         Fits(m, f, depth, break, return)
  PROVE  /\ m.class = "breaking" => Fits(Mode(m.class, m.inside, TRUE), f, depth, f.from, return)
         /\ m.class = "returning" => Fits(Mode(m.class, m.inside, TRUE), f, depth, break, f.from)
         /\ Fits(Mode(m.class, m.inside, FALSE), f, depth, f.breakable, f.returnable)
BY DEF Fits, Mode, Modes

\* The scopes, and the targets of break and of return.
LEMMA ScopeChains ==
  ASSUME Chained, Scope, status' = "running" PROVE Chained' /\ Gone
<1>1. PICK W : Chain(todo, W) /\ Fits(W[1].mode, W[1].frame, Len(scopes), breakable, returnable)
  BY DEF Chained
<1>2. /\ todo # <<>> /\ Head(todo).do \in {"enter", "exit", "define", "define as"}
      /\ todo' = Tail(todo) /\ breakable' = breakable /\ returnable' = returnable
  BY DEF Scope, Step, Done, Finish
<1>3. Head(todo).do \notin Marks
  BY <1>2 DEF Marks
<1>4. Allows(Head(todo), W[1].mode, W[2].mode, W[1].loop)
  BY <1>1, <1>2, <1>3, HeadSteps
<1>5. PICK S : scopes \in Seq(S)
  BY DEF Chained, IsSeq
<1>6. Len(scopes) \in Nat /\ scopes \in [1 .. Len(scopes) -> S]
  BY <1>5, LenProperties
<1>7. W[1].frame.depth \in Nat /\ W[1].mode \in Modes
  BY <1>1, <1>2, HeadFacts DEF Bound
<1>8. CASE Step("enter")
  <2>1. scopes' = Append(scopes, {}) /\ Head(todo).do = "enter"
    BY <1>8 DEF Scope, Step
  <2>2. scopes' \in Seq(S \cup {{}}) /\ Len(scopes') = Len(scopes) + 1
    <3>1. scopes \in Seq(S \cup {{}})
      BY <1>5, SeqMonotonic
    <3> QED
      BY <2>1, <3>1, AppendProperties
  <2>3. ~W[1].mode.inside /\ W[2].mode = Mode(W[1].mode.class, TRUE, W[1].mode.set)
    BY <1>4, <2>1 DEF Allows
  <2>4. Fits(W[2].mode, W[1].frame, Len(scopes'), breakable', returnable')
    BY <1>1, <1>2, <1>6, <1>7, <2>2, <2>3, EnterFits
  <2> QED
    BY <1>1, <1>2, <1>3, <2>2, <2>4, Skips DEF IsSeq
<1>9. CASE Step("exit")
  <2>1. scopes' = SubSeq(scopes, 1, Len(scopes) - 1) /\ Head(todo).do = "exit"
    BY <1>9 DEF Scope, Step, Top
  <2>2. W[1].mode.inside /\ W[2].mode = Mode(W[1].mode.class, FALSE, W[1].mode.set)
    BY <1>4, <2>1 DEF Allows
  <2>3. Len(scopes) = W[1].frame.depth + 1
    BY <1>1, <1>6, <1>7, <2>2, ExitFits
  <2>4. scopes' \in Seq(S) /\ Len(scopes') = Len(scopes) - 1
    <3>1. \A i \in 1 .. Len(scopes) - 1 : scopes[i] \in S
      BY <1>6
    <3>2. /\ SubSeq(scopes, 1, Len(scopes) - 1) \in Seq(S)
          /\ Len(SubSeq(scopes, 1, Len(scopes) - 1))
               = IF 1 <= Len(scopes) - 1 THEN (Len(scopes) - 1) - 1 + 1 ELSE 0
      BY <1>6, <3>1, SubSeqProperties
    <3> QED
      BY <1>6, <1>7, <2>1, <2>3, <3>2
  <2>5. Fits(W[2].mode, W[1].frame, Len(scopes'), breakable', returnable')
    <3>1. Fits(W[2].mode, W[1].frame, W[1].frame.depth, breakable, returnable)
      <4>1. Fits(Mode(W[1].mode.class, FALSE, W[1].mode.set), W[1].frame, W[1].frame.depth,
                 breakable, returnable)
        BY <1>1, <1>6, <1>7, ExitFits
      <4> QED
        BY <2>2, <4>1
    <3>2. Len(scopes') = W[1].frame.depth
      BY <1>6, <1>7, <2>3, <2>4
    <3> QED
      BY <1>2, <3>1, <3>2
  <2> QED
    BY <1>1, <1>2, <1>3, <2>4, <2>5, Skips DEF IsSeq
<1>10. CASE Step("define") \/ Step("define as")
  <2>1. \E n : scopes' = [scopes EXCEPT ![Len(scopes)] = @ \cup {n}]
    BY <1>10 DEF Scope, Step, Top
  <2>2. PICK n : scopes' = [scopes EXCEPT ![Len(scopes)] = @ \cup {n}]
    BY <2>1
  <2> DEFINE R == S \cup {scopes[Len(scopes)] \cup {n}}
  <2>3. scopes' \in [1 .. Len(scopes) -> R]
    BY <1>6, <2>2
  <2>4. scopes' \in Seq(R) /\ Len(scopes') = Len(scopes)
    <3> HIDE DEF R
    <3>1. \A f : f \in [1 .. Len(scopes) -> R] => f \in Seq(R)
      BY <1>6, IsASeq
    <3>2. scopes' \in Seq(R)
      BY <2>3, <3>1
    <3>3. DOMAIN scopes' = 1 .. Len(scopes) /\ DOMAIN scopes' = 1 .. Len(scopes')
      BY <2>3, <3>2, LenProperties
    <3>4. Len(scopes') \in Nat
      BY <3>2, LenProperties
    <3> QED
      BY <1>6, <3>2, <3>3, <3>4
  <2>5. Head(todo).do \in Quiet
    BY <1>10 DEF Step, Quiet
  <2> QED
    BY <1>2, <2>4, <2>5, Keeps DEF IsSeq
<1> QED
  BY <1>8, <1>9, <1>10 DEF Scope

\* The frame of the call at work is the mark of the innermost call.
LEMMA FrameIs ==
  ASSUME NEW W, Chain(todo, W), W[1].mode.class # "outside"
  PROVE  W[1].frame = todo[Position("ret")]
<1>1. PICK i \in 1 .. Len(todo) : /\ todo[i].do = "ret" /\ W[1].frame = todo[i]
                                 /\ \A j \in 1 .. i - 1 : todo[j].do # "ret"
  BY CallMark
<1>2. Position("ret") = i
  BY <1>1, LenNat, PositionIs DEF Chain
<1> QED
  BY <1>1, <1>2

LEMMA TargetChains == ASSUME Chained, Target PROVE Chained' /\ Gone
<1>1. PICK W : Chain(todo, W) /\ Fits(W[1].mode, W[1].frame, Len(scopes), breakable, returnable)
  BY DEF Chained
<1>2. /\ todo # <<>> /\ todo' = Tail(todo) /\ scopes' = scopes
      /\ Head(todo).do \in {"breakable", "returnable", "restore", "abi", "bind"}
  BY DEF Target, Step, Done
<1>3. Head(todo).do \notin Marks
  BY <1>2 DEF Marks
<1>4. Allows(Head(todo), W[1].mode, W[2].mode, W[1].loop)
  BY <1>1, <1>2, <1>3, HeadSteps
<1>5. W[1].mode \in Modes
  BY <1>1, <1>2, HeadFacts DEF Bound
<1> DEFINE frame == todo[Position("ret")]
<1>6. CASE Step("breakable")
  <2>1. breakable' = frame.from /\ returnable' = returnable /\ Head(todo).do = "breakable"
    BY <1>6 DEF Target, Step
  <2>2. W[1].mode.class = "breaking" /\ W[2].mode = Mode(W[1].mode.class, W[1].mode.inside, TRUE)
    BY <1>4, <2>1 DEF Allows
  <2>3. W[1].frame = frame
    BY <1>1, <2>2, FrameIs
  <2> HIDE DEF frame
  <2>4. Fits(W[2].mode, W[1].frame, Len(scopes'), breakable', returnable')
    BY <1>1, <1>2, <1>5, <2>1, <2>2, <2>3, SetFits
  <2> QED
    BY <1>1, <1>2, <1>3, <2>4, Skips DEF Chained
<1>7. CASE Step("returnable")
  <2>1. returnable' = frame.from /\ breakable' = breakable /\ Head(todo).do = "returnable"
    BY <1>7 DEF Target, Step
  <2>2. W[1].mode.class = "returning" /\ W[2].mode = Mode(W[1].mode.class, W[1].mode.inside, TRUE)
    BY <1>4, <2>1 DEF Allows
  <2>3. W[1].frame = frame
    BY <1>1, <2>2, FrameIs
  <2> HIDE DEF frame
  <2>4. Fits(W[2].mode, W[1].frame, Len(scopes'), breakable', returnable')
    BY <1>1, <1>2, <1>5, <2>1, <2>2, <2>3, SetFits
  <2> QED
    BY <1>1, <1>2, <1>3, <2>4, Skips DEF Chained
<1>8. CASE Step("restore")
  <2>1. /\ breakable' = frame.breakable /\ returnable' = frame.returnable
        /\ Head(todo).do = "restore"
    BY <1>8 DEF Target, Step
  <2>2. W[1].mode.class # "outside" /\ W[2].mode = Mode(W[1].mode.class, W[1].mode.inside, FALSE)
    BY <1>4, <2>1 DEF Allows
  <2>3. W[1].frame = frame
    BY <1>1, <2>2, FrameIs
  <2> HIDE DEF frame
  <2>4. Fits(W[2].mode, W[1].frame, Len(scopes'), breakable', returnable')
    BY <1>1, <1>2, <1>5, <2>1, <2>2, <2>3, SetFits
  <2> QED
    BY <1>1, <1>2, <1>3, <2>4, Skips DEF Chained
<1>9. CASE Step("abi") \/ Step("bind")
  <2>1. /\ Head(todo).do \in Quiet \cup Settling
        /\ breakable' = breakable /\ returnable' = returnable
    BY <1>9 DEF Target, Step, Quiet, Settling
  <2> QED
    BY <1>2, <2>1, Keeps DEF Chained
<1> QED
  BY <1>6, <1>7, <1>8, <1>9 DEF Target

\* The operations: what is left of a level leads where the operations led.
LEMMA OperateChains == ASSUME Chained, Operate PROVE Chained' /\ Gone
<1>1. /\ todo # <<>> /\ UNCHANGED context
      /\ Head(todo).do \in {"operations", "tails", "binary"}
  BY DEF Operate, Step
<1>2. Head(todo).do \notin Marks /\ Head(todo).do \in Settling
  BY <1>1 DEF Marks, Settling
<1>3. \A m, k, L : Steps(Head(todo), m, k, L)
                    => k = m /\ m \in Modes /\ Rules(m) /\ (Head(todo).do = "binary" => Named(Head(todo).f))
  BY <1>2, StepFacts, StepsModes, RulesHold DEF Allows
<1>4. CASE Step("operations")
  <2> DEFINE k == Head(todo).level
             l == {p \in {0, 5, 9} : (p = 0) = (k = 0) /\ k <= p /\ Here(Prefix[p])}
             c == IF k = 0 THEN <<>> ELSE <<Tails((CHOOSE p \in l : TRUE) - 1, k)>>
             d == IF k = 0 THEN <<Operations(1)>> ELSE _15_power \o <<Tails(14, k)>>
  <2>1. Do(Prefixed(k) \o c) \/ Do(d)
    BY <1>4 DEF Operate, Step
  <2>2. ASSUME NEW m, Rules(m), NEW L
        PROVE  Leads(Prefixed(k) \o c, m, m, L) /\ Leads(d, m, m, L)
    <3> USE <2>2 DEF Rules, BareRules, StaysRules, QuietRules, CallRules
    <3>1. Leads(Prefixed(k), m, m, L)
      BY DEF Prefixed
    <3>2. Leads(c, m, m, L)
      OBVIOUS
    <3>3. Leads(_15_power, m, m, L)
      BY AllNamed DEF _15_power, BranchRules
    <3>4. Leads(<<Operations(1)>>, m, m, L) /\ Leads(<<Tails(14, k)>>, m, m, L)
      OBVIOUS
    <3> HIDE DEF c
    <3> QED
      BY <3>1, <3>2, <3>3, <3>4
  <2> DEFINE e == Prefixed(k) \o c
  <2>3. \A m, L : Rules(m) => Leads(e, m, m, L) /\ Leads(d, m, m, L)
    BY <2>2
  <2>4. Do(e) \/ Do(d)
    BY <2>1
  <2> HIDE DEF k, c, d, e
  <2>5. CASE Do(e)
    BY <1>1, <1>2, <1>3, <2>3, <2>5, Becomes DEF Do
  <2>6. CASE Do(d)
    BY <1>1, <1>2, <1>3, <2>3, <2>6, Becomes DEF Do
  <2> QED
    BY <2>4, <2>5, <2>6
<1>5. CASE Step("tails")
  <2>1. Done \/ \E l : Do(<<Operations(l + 1), Operator(Peek(0), 2), Tails(l, Head(todo).to)>>)
    BY <1>5 DEF Operate, Step
  <2>2. CASE Done
    BY <1>1, <1>2, <2>2, Keeps DEF Done, Chained, context
  <2>3. ASSUME NEW l, Do(<<Operations(l + 1), Operator(Peek(0), 2), Tails(l, Head(todo).to)>>)
        PROVE  Chained' /\ Gone
    <3> DEFINE c == <<Operations(l + 1), Operator(Peek(0), 2), Tails(l, Head(todo).to)>>
    <3>1. \A m, L : Rules(m) => Leads(c, m, m, L)
      BY DEF Rules, BareRules, StaysRules, QuietRules, CallRules
    <3> HIDE DEF c
    <3>2. todo' = c \o Tail(todo)
      BY <2>3 DEF c, Do
    <3> QED
      BY <1>1, <1>2, <1>3, <3>1, <3>2, Becomes
  <2> QED
    BY <2>1, <2>2, <2>3
<1>6. CASE Step("binary")
  <2> DEFINE c == <<Call(Head(todo).f), Operator(Peek(0), 2)>>
  <2>1. todo' = c \o Tail(todo) /\ Head(todo).do = "binary"
    BY <1>6 DEF Operate, Step, Do
  <2>2. \A m, L : Rules(m) /\ Named(Head(todo).f) => Leads(c, m, m, L)
    BY DEF Rules, BareRules, StaysRules, QuietRules, CallRules
  <2> HIDE DEF c
  <2> QED
    BY <1>1, <1>2, <1>3, <2>1, <2>2, Becomes
<1> QED
  BY <1>4, <1>5, <1>6 DEF Operate

\* Code put together in one way or the other is the same.
LEMMA Regrouped ==
  ASSUME NEW a, IsSeq(a), NEW b, IsSeq(b), NEW c, IsSeq(c)
  PROVE  (a \o b) \o c = a \o (b \o c) /\ IsSeq(a \o b)
<1>1. PICK S : a \in Seq(S) /\ b \in Seq(S)
  BY SeqOf2
<1>2. IsSeq(a \o b)
  BY <1>1, ConcatProperties DEF IsSeq
<1>3. PICK R : a \o b \in Seq(R) /\ c \in Seq(R)
  BY <1>2, SeqOf2
<1>4. a \in Seq(S \cup R) /\ b \in Seq(S \cup R) /\ c \in Seq(S \cup R)
  BY <1>1, <1>3, SeqMonotonic
<1> QED
  BY <1>2, <1>4, ConcatAssociative

\* The loops: a break leaves the innermost one of the call, a continue begins it anew.
LEMMA Anew ==
  ASSUME NEW W, Chain(todo, W), todo # <<>>,
         NEW body, todo' = (body \o <<AgainMark(body)>>) \o Tail(todo), Bound(W[2]), Leads(body, W[2].mode, W[2].mode, {W[2].mode}),
         todo[1].do # "ret",
         IsSeq(scopes'), Fits(W[2].mode, W[2].frame, Len(scopes'), breakable', returnable')
  PROVE  Chained' /\ Gone
<1>1. PICK T : Chain(Tail(todo), T) /\ T[1] = W[2]
  BY HeadFacts
<1> DEFINE mark == AgainMark(body)
           q == W[2]
           p == Point(q.mode, {q.mode}, q.frame, q.breaks, q.returns)
<1>2. /\ p.mode = q.mode /\ p.loop = {q.mode} /\ p.frame = q.frame
      /\ p.breaks = q.breaks /\ p.returns = q.returns
  BY DEF Point
<1> HIDE DEF p
<1>3. Bound(p) /\ SameCall(p, q)
  BY <1>2 DEF Bound, SameCall
<1>4. mark.do = "again" /\ mark.body = body
  BY DEF AgainMark
<1> HIDE DEF mark
<1>5. Link(mark, p, T[1])
  BY <1>1, <1>2, <1>3, <1>4 DEF Link, Marks
<1>6. PICK V : Chain(<<mark>> \o Tail(todo), V) /\ V[1] = p
  BY ONLY <1>1, <1>3, <1>5, Pushed
<1>7. Leads(body, q.mode, V[1].mode, V[1].loop)
  BY <1>2, <1>6
<1>8. PICK U : Chain(body \o (<<mark>> \o Tail(todo)), U) /\ U[1].mode = q.mode /\ SameCall(U[1], V[1])
  BY ONLY <1>6, <1>7, Ahead
<1>9. IsSeq(body) /\ IsSeq(<<mark>>) /\ IsSeq(Tail(todo))
  <2>1. <<mark>> \in Seq({mark})
    OBVIOUS
  <2> QED
    BY <2>1, LeadsModes, HeadFacts DEF IsSeq
<1>10. (body \o <<mark>>) \o Tail(todo) = body \o (<<mark>> \o Tail(todo)) /\ IsSeq(body \o <<mark>>)
  <2> DEFINE one == <<mark>>
             rest == Tail(todo)
  <2>1. IsSeq(body) /\ IsSeq(one) /\ IsSeq(rest)
    BY <1>9
  <2> HIDE DEF one, rest
  <2>2. (body \o one) \o rest = body \o (one \o rest) /\ IsSeq(body \o one)
    BY ONLY <2>1, Regrouped
  <2> QED
    BY <2>2 DEF one, rest
<1>11. Chained'
  <2>1. todo' = body \o (<<mark>> \o Tail(todo))
    BY <1>10 DEF mark
  <2>2. U[1].frame = q.frame
    BY <1>2, <1>6, <1>8 DEF SameCall
  <2> QED
    BY <1>8, <2>1, <2>2 DEF Chained
<1>12. Gone
  <2>1. /\ IsSeq(todo) /\ 1 \in 0 .. Len(todo) /\ \A i \in 1 .. 1 : todo[i].do # "ret"
        /\ Tail(todo) = SubSeq(todo, 1 + 1, Len(todo))
    BY HeadFacts DEF Chain
  <2> DEFINE c == body \o <<mark>>
  <2>2. todo' = c \o SubSeq(todo, 1 + 1, Len(todo)) /\ IsSeq(c)
    BY <1>10, <2>1 DEF mark
  <2> HIDE DEF c
  <2> QED
    BY <2>1, <2>2, GoneIf
<1> QED
  BY <1>11, <1>12

\* The first steps are left out.
LEMMA Jumps ==
  ASSUME NEW W, Chain(todo, W), NEW k \in 0 .. Len(todo), todo' = SubSeq(todo, k + 1, Len(todo)),
         IsSeq(scopes'), Fits(W[k + 1].mode, W[k + 1].frame, Len(scopes'), breakable', returnable'),
         \A i \in 1 .. k : todo[i].do = "ret" => /\ Len(scopes') = todo[i].depth
                                                 /\ breakable' = todo[i].breakable
                                                 /\ returnable' = todo[i].returnable
  PROVE  Chained' /\ Gone
<1>1. PICK U : Chain(SubSeq(todo, k + 1, Len(todo)), U) /\ U[1] = W[k + 1]
  BY Dropped
<1> DEFINE r == SubSeq(todo, k + 1, Len(todo))
<1>2. IsSeq(r)
  BY <1>1 DEF Chain
<1>3. Chained'
  BY <1>1 DEF Chained
<1>4. r = <<>> \o r /\ IsSeq(<<>>)
  <2> HIDE DEF r
  <2> QED
    BY <1>2, ConcatEmptySeq, EmptySeq DEF IsSeq
<1>5. todo' = <<>> \o SubSeq(todo, k + 1, Len(todo))
  BY <1>4
<1>6. Gone
  BY <1>4, <1>5, GoneIf DEF Chain
<1> QED
  BY <1>3, <1>6

\* A break goes behind the mark of the loop, a continue to it.
LEMMA LoopJumps ==
  ASSUME Chained, todo # <<>>, Head(todo).do \in {"break", "continue", "separator"},
         todo' = From(Position("again") + 1) \/ todo' = From(Position("again")),
         UNCHANGED <<scopes, breakable, returnable>>
  PROVE  Chained' /\ Gone
<1>1. PICK W : Chain(todo, W) /\ Fits(W[1].mode, W[1].frame, Len(scopes), breakable, returnable)
  BY DEF Chained
<1>2. W[1].mode \in W[1].loop
  BY <1>1, HeadSteps DEF Allows, Marks
<1>3. Len(todo) \in Nat /\ IsSeq(todo)
  BY <1>1, LenNat DEF Chain
<1>4. PICK i \in 1 .. Len(todo) : todo[i].do = "again" /\ \A j \in 1 .. i - 1 : todo[j].do \notin Marks
  BY <1>1, <1>2, LoopMark
<1>5. Position("again") = i
  BY <1>3, <1>4, PositionIs DEF Marks
<1>6. W[i].loop = W[1].loop /\ SameCall(W[1], W[i])
  <2>1. i \in 1 .. Len(todo) + 1 /\ \A j \in 1 .. i - 1 : todo[j].do # "ret"
    BY <1>3, <1>4 DEF Marks
  <2> QED
    BY <1>1, <1>4, <2>1, LoopAhead, CallsAhead
<1>7. SameCall(W[i], W[i + 1]) /\ W[i].mode = W[i + 1].mode /\ W[i].loop = {W[i + 1].mode}
  BY <1>1, <1>4 DEF Chain, Link
<1>8. W[1].mode = W[i].mode /\ W[1].mode = W[i + 1].mode
  BY <1>2, <1>6, <1>7
<1>9. W[i].frame = W[1].frame /\ W[i + 1].frame = W[1].frame
  BY <1>6, <1>7 DEF SameCall
<1>10. CASE todo' = From(i + 1)
  <2>1. /\ i \in 0 .. Len(todo) /\ todo' = SubSeq(todo, i + 1, Len(todo))
        /\ \A j \in 1 .. i : todo[j].do # "ret"
    BY <1>3, <1>4, <1>10 DEF From, Marks
  <2> QED
    BY <1>1, <1>8, <1>9, <2>1, Jumps DEF Chained
<1>11. CASE todo' = From(i)
  <2> DEFINE k == i - 1
  <2>1. k \in 0 .. Len(todo) /\ k + 1 = i /\ \A j \in 1 .. k : todo[j].do # "ret"
    BY <1>3, <1>4 DEF Marks
  <2> HIDE DEF k
  <2>2. todo' = SubSeq(todo, k + 1, Len(todo))
    BY <1>11, <2>1 DEF From
  <2>3. IsSeq(scopes') /\ Fits(W[k + 1].mode, W[k + 1].frame, Len(scopes'), breakable', returnable')
    BY <1>1, <1>8, <1>9, <2>1 DEF Chained
  <2> QED
    BY <1>1, <2>1, <2>2, <2>3, Jumps
<1> QED
  BY <1>5, <1>10, <1>11

LEMMA RepeatChains == ASSUME Chained, Repeat, status' = "running" PROVE Chained' /\ Gone
<1>1. PICK W : Chain(todo, W) /\ Fits(W[1].mode, W[1].frame, Len(scopes), breakable, returnable)
  BY DEF Chained
<1>2. todo # <<>> /\ UNCHANGED <<scopes, breakable, returnable>>
  BY DEF Repeat, Step, context
<1>3. CASE Step("loop")
  <2>1. /\ Head(todo).do = "loop"
        /\ todo' = Tail(todo)
           \/ todo' = (Head(todo).body \o <<AgainMark(Head(todo).body)>>) \o Tail(todo)
    BY <1>3 DEF Repeat, Step, Done, Do
  <2>2. CASE todo' = Tail(todo)
    BY <1>2, <2>1, <2>2, Keeps DEF Chained
  <2>3. CASE todo' = (Head(todo).body \o <<AgainMark(Head(todo).body)>>) \o Tail(todo)
    <3>1. Head(todo).do \notin Marks /\ todo[1].do = "loop" /\ Bound(W[2])
      BY <1>1, <1>2, <2>1, HeadFacts DEF Marks
    <3>2. /\ Leads(Head(todo).body, W[1].mode, W[1].mode, {W[1].mode}) /\ W[2].mode = W[1].mode
          /\ W[2].frame = W[1].frame
      BY <1>1, <1>2, <2>1, <3>1, HeadSteps DEF Allows, SameCall
    <3> QED
      BY <1>1, <1>2, <2>3, <3>1, <3>2, Anew DEF Chained
  <2> QED
    BY <2>1, <2>2, <2>3
<1>4. CASE Step("again")
  <2>1. /\ Head(todo).do = "again"
        /\ todo' = Tail(todo)
           \/ todo' = (Head(todo).body \o <<AgainMark(Head(todo).body)>>) \o Tail(todo)
    BY <1>4 DEF Repeat, Step, Done, Do, Finish
  <2>2. /\ SameCall(W[1], W[2]) /\ W[1].mode = W[2].mode
        /\ Leads(Head(todo).body, W[2].mode, W[2].mode, {W[2].mode})
        /\ todo[1].do = "again" /\ Bound(W[2])
        /\ 1 \in 0 .. Len(todo) /\ Tail(todo) = SubSeq(todo, 1 + 1, Len(todo))
    BY <1>1, <1>2, <2>1, HeadFacts DEF Link
  <2>3. Fits(W[2].mode, W[2].frame, Len(scopes'), breakable', returnable') /\ IsSeq(scopes')
    BY <1>1, <1>2, <2>2 DEF SameCall, Chained
  <2>4. CASE todo' = Tail(todo)
    <3>1. /\ todo' = SubSeq(todo, 1 + 1, Len(todo)) /\ 1 + 1 = 2
          /\ \A i \in 1 .. 1 : todo[i].do # "ret"
      BY <2>2, <2>4
    <3>2. Fits(W[1 + 1].mode, W[1 + 1].frame, Len(scopes'), breakable', returnable')
      BY <2>3, <3>1
    <3> QED
      BY <1>1, <2>2, <2>3, <3>1, <3>2, Jumps
  <2>5. CASE todo' = (Head(todo).body \o <<AgainMark(Head(todo).body)>>) \o Tail(todo)
    BY <1>1, <1>2, <2>2, <2>3, <2>5, Anew
  <2> QED
    BY <2>1, <2>4, <2>5
<1>5. CASE Step("break") \/ Step("continue")
  BY <1>2, <1>5, LoopJumps DEF Repeat, Step
<1> QED
  BY <1>3, <1>4, <1>5 DEF Repeat

LEMMA SeparateChains == ASSUME Chained, Separate PROVE Chained' /\ Gone
<1>1. /\ todo # <<>> /\ Head(todo).do = "separator" /\ UNCHANGED <<scopes, breakable, returnable>>
      /\ todo' = Tail(todo) \/ todo' = From(Position("again") + 1)
  BY DEF Separate, Step, Done, context
<1>2. CASE todo' = Tail(todo)
  BY <1>1, <1>2, Keeps DEF Chained
<1>3. CASE todo' = From(Position("again") + 1)
  BY <1>1, <1>3, LoopJumps
<1> QED
  BY <1>1, <1>2, <1>3

\* A call begins at rest; its mark holds the context it was made in.
LEMMA ClassFacts ==
  ASSUME NEW f
  PROVE  /\ Class(f) \in Classes \ {"outside"}
         /\ (Class(f) = "breaking") <=> (f \in Breaking_)
         /\ (Class(f) = "returning") <=> (f \in Returning)
BY DEF Class, Classes, Breaking_, Returning

LEMMA RestMode ==
  ASSUME NEW c \in Classes
  PROVE  Rest(c) \in Modes /\ Rest(c).class = c
BY DEF Rest, Mode, Modes

LEMMA RestFits ==
  ASSUME NEW c \in Classes, NEW f, NEW depth, NEW break, NEW return, f.depth \in Nat
  PROVE  Fits(Rest(c), f, depth, break, return)
         <=> depth = f.depth /\ break = f.breakable /\ return = f.returnable
BY DEF Fits, Rest, Mode

\* Where the target is set, the context holds the statement and the function around.
LEMMA SettledFits ==
  ASSUME NEW p, Bound(p), Settled(p.mode), NEW depth, NEW break, NEW return,
         Fits(p.mode, p.frame, depth, break, return)
  PROVE  break = p.breaks /\ return = p.returns
BY DEF Bound, Settled, Fits

LEMMA CallFunctionChains ==
  ASSUME Chained, CallFunction, status' = "running" PROVE Chained' /\ Gone
<1>1. PICK W : Chain(todo, W) /\ Fits(W[1].mode, W[1].frame, Len(scopes), breakable, returnable)
  BY DEF Chained
<1> DEFINE f == Head(todo).f
           mark == ReturnMark(f)
           q == W[2]
           p == Point(Rest(Class(f)), {}, mark, IF f \in Breaking_ THEN at ELSE q.breaks,
                      IF f \in Returning THEN at ELSE q.returns)
<1>2. /\ todo # <<>> /\ Head(todo).do = "call" /\ UNCHANGED <<scopes, breakable, returnable>>
      /\ todo' = (Function[f] \o <<mark>>) \o Tail(todo)
  BY DEF CallFunction, Step, Do, Finish, context
<1>3. Head(todo).do \notin Marks
  BY <1>2 DEF Marks
<1>4. /\ SameCall(W[1], q) /\ q.mode = W[1].mode /\ Settled(W[1].mode) /\ Named(f)
      /\ Bound(W[1]) /\ Bound(q)
  BY <1>1, <1>2, <1>3, HeadSteps, HeadFacts DEF Allows, Settling
<1>5. Fits(q.mode, q.frame, Len(scopes), breakable, returnable)
  BY <1>1, <1>4 DEF SameCall
<1>6. breakable = q.breaks /\ returnable = q.returns
  BY <1>4, <1>5, SettledFits
<1>7. /\ mark.do = "ret" /\ mark.f = f /\ mark.from = at /\ mark.depth = Len(scopes)
      /\ mark.breakable = breakable /\ mark.returnable = returnable
  BY DEF ReturnMark
<1>8. /\ p.mode = Rest(Class(f)) /\ p.loop = {} /\ p.frame = mark
      /\ p.breaks = (IF f \in Breaking_ THEN at ELSE q.breaks)
      /\ p.returns = (IF f \in Returning THEN at ELSE q.returns)
  BY DEF Point
<1> HIDE DEF p, mark
<1>9. Len(scopes) \in Nat
  BY LenNat DEF Chained
<1>10. Bound(p)
  <2>1. p.mode \in Modes /\ p.mode.class = Class(f)
    BY <1>8, ClassFacts, RestMode
  <2>2. p.breaks = IF p.mode.class = "breaking" THEN p.frame.from ELSE p.frame.breakable
    BY <1>6, <1>7, <1>8, <2>1, ClassFacts
  <2>3. p.returns = IF p.mode.class = "returning" THEN p.frame.from ELSE p.frame.returnable
    BY <1>6, <1>7, <1>8, <2>1, ClassFacts
  <2> QED
    BY <1>7, <1>8, <1>9, <2>1, <2>2, <2>3 DEF Bound
<1>11. PICK T : Chain(Tail(todo), T) /\ T[1] = q
  BY <1>1, <1>2, HeadFacts
<1>12. Link(mark, p, T[1])
  BY <1>4, <1>5, <1>7, <1>8, <1>11 DEF Link, Marks
<1>13. PICK V : Chain(<<mark>> \o Tail(todo), V) /\ V[1] = p
  BY ONLY <1>10, <1>11, <1>12, Pushed
<1>14. Leads(Function[f], Rest(Class(f)), V[1].mode, V[1].loop)
  BY <1>4, <1>8, <1>13, FunctionsLead DEF Named, Kept
<1>15. PICK U : /\ Chain(Function[f] \o (<<mark>> \o Tail(todo)), U)
                /\ U[1].mode = Rest(Class(f)) /\ SameCall(U[1], V[1])
  BY ONLY <1>13, <1>14, Ahead
<1>16. IsSeq(Function[f]) /\ IsSeq(<<mark>>) /\ IsSeq(Tail(todo))
  <2>1. <<mark>> \in Seq({mark})
    OBVIOUS
  <2>2. IsSeq(Function[f])
    BY <1>14, LeadsModes
  <2> QED
    BY <1>1, <1>2, <2>1, <2>2, HeadFacts DEF IsSeq
<1>17. /\ (Function[f] \o <<mark>>) \o Tail(todo) = Function[f] \o (<<mark>> \o Tail(todo))
       /\ IsSeq(Function[f] \o <<mark>>)
  BY <1>16, Regrouped
<1>18. Chained'
  <2>1. U[1].frame = mark
    BY <1>8, <1>13, <1>15 DEF SameCall
  <2>2. Fits(U[1].mode, U[1].frame, Len(scopes'), breakable', returnable')
    BY <1>2, <1>7, <1>9, <1>15, <2>1, RestFits, ClassFacts
  <2>3. todo' = Function[f] \o (<<mark>> \o Tail(todo)) /\ IsSeq(scopes')
    BY <1>2, <1>17 DEF Chained
  <2> QED
    BY <1>15, <2>2, <2>3 DEF Chained
<1>19. Gone
  <2>1. /\ IsSeq(todo) /\ 1 \in 0 .. Len(todo) /\ \A i \in 1 .. 1 : todo[i].do # "ret"
        /\ Tail(todo) = SubSeq(todo, 1 + 1, Len(todo))
    BY <1>1, <1>2, HeadFacts DEF Chain
  <2> DEFINE c == Function[f] \o <<mark>>
  <2>2. todo' = c \o SubSeq(todo, 1 + 1, Len(todo)) /\ IsSeq(c)
    BY <1>2, <1>17, <2>1
  <2> HIDE DEF c
  <2> QED
    BY <2>1, <2>2, GoneIf
<1> QED
  BY <1>18, <1>19

\* A function returns at rest, and so with the context its mark holds.
LEMMA Returns ==
  ASSUME NEW W, Chain(todo, W), W[1].mode = Rest(W[1].mode.class), W[1].mode.class \in Classes,
         Fits(W[1].mode, W[1].frame, Len(scopes), breakable, returnable), IsSeq(scopes),
         NEW i \in 1 .. Len(todo), todo[i].do = "ret", W[1].frame = todo[i],
         \A j \in 1 .. i - 1 : todo[j].do # "ret",
         todo' = SubSeq(todo, i + 1, Len(todo)), UNCHANGED <<scopes, breakable, returnable>>
  PROVE  Chained' /\ Gone
<1>1. Len(todo) \in Nat /\ 1 \in 1 .. Len(todo) + 1
  BY LenNat DEF Chain
<1>2. W[1].frame.depth \in Nat
  BY <1>1 DEF Chain, Bound
<1>3. /\ Len(scopes') = todo[i].depth /\ breakable' = todo[i].breakable
      /\ returnable' = todo[i].returnable
  BY <1>2, RestFits
<1>4. Fits(W[i + 1].mode, W[i + 1].frame, todo[i].depth, todo[i].breakable, todo[i].returnable)
  BY DEF Chain, Link
<1>5. /\ i \in 0 .. Len(todo) /\ IsSeq(scopes')
      /\ Fits(W[i + 1].mode, W[i + 1].frame, Len(scopes'), breakable', returnable')
  BY <1>1, <1>3, <1>4
<1>6. ASSUME NEW j \in 1 .. i, todo[j].do = "ret" PROVE j = i
  BY <1>1, <1>6
<1> QED
  BY <1>3, <1>5, <1>6, Jumps

LEMMA LeaveFunctionChains == ASSUME Chained, LeaveFunction PROVE Chained' /\ Gone
<1>1. PICK W : Chain(todo, W) /\ Fits(W[1].mode, W[1].frame, Len(scopes), breakable, returnable)
  BY DEF Chained
<1>2. todo # <<>> /\ UNCHANGED <<scopes, breakable, returnable>> /\ IsSeq(scopes)
  BY DEF LeaveFunction, Step, context, Chained
<1>3. Len(todo) \in Nat
  BY <1>1, LenNat DEF Chain
<1>4. CASE Step("ret")
  <2>1. Head(todo).do = "ret" /\ todo' = Tail(todo)
    BY <1>4 DEF LeaveFunction, Step, Done
  <2>2. /\ 1 \in 1 .. Len(todo) /\ Head(todo) = todo[1] /\ Link(Head(todo), W[1], W[2])
        /\ todo' = SubSeq(todo, 1 + 1, Len(todo))
    BY <1>1, <1>2, <2>1, HeadFacts
  <2>3. /\ todo[1].do = "ret" /\ W[1].frame = todo[1] /\ W[1].mode = Rest(Class(todo[1].f))
        /\ \A j \in 1 .. 1 - 1 : todo[j].do # "ret"
    BY <2>1, <2>2 DEF Link
  <2>4. W[1].mode.class = Class(todo[1].f) /\ Class(todo[1].f) \in Classes
    BY <2>3, RestMode, ClassFacts
  <2>5. W[1].mode = Rest(W[1].mode.class) /\ W[1].mode.class \in Classes
    BY <2>3, <2>4
  <2> QED
    BY <1>1, <1>2, <2>2, <2>3, <2>5, Returns
<1>5. CASE Step("return")
  <2>1. Head(todo).do = "return" /\ todo' = From(Position("ret") + 1)
    BY <1>5 DEF LeaveFunction, Step
  <2>2. /\ W[1].mode = Rest(W[1].mode.class) /\ W[1].mode.class # "outside"
        /\ W[1].mode.class \in Classes
    BY <1>1, <1>2, <2>1, HeadSteps, HeadFacts DEF Allows, Marks, Bound, Modes
  <2>3. PICK i \in 1 .. Len(todo) : /\ todo[i].do = "ret" /\ W[1].frame = todo[i]
                                   /\ \A j \in 1 .. i - 1 : todo[j].do # "ret"
    BY <1>1, <2>2, CallMark
  <2>4. Position("ret") = i
    BY <1>3, <2>3, PositionIs
  <2>5. todo' = SubSeq(todo, i + 1, Len(todo))
    BY <2>1, <2>4 DEF From
  <2> QED
    BY <1>1, <1>2, <2>2, <2>3, <2>5, Returns
<1> QED
  BY <1>4, <1>5 DEF LeaveFunction

------------------------------------------------------------------------------
(* The inductive invariant, and the two properties.                        *)

Inv == status = "running" => Chained

LEMMA InitChains == Init => Chained
<1> SUFFICES ASSUME Init PROVE Chained
  OBVIOUS
<1> DEFINE W == [i \in 1 .. 1 |-> Outside]
           none == <<>>
<1>1. IsSeq(none) /\ Len(none) = 0
  BY EmptySeq DEF IsSeq
<1> HIDE DEF none
<1>2. W[1] = Outside /\ W[Len(none) + 1] = Outside
  BY <1>1
<1> HIDE DEF W
<1>3. Bound(Outside)
  BY OutsideFacts, RestMode DEF Bound, Classes
<1>4. Chain(none, W)
  BY <1>1, <1>2, <1>3 DEF Chain
<1>5. Leads(start_parsing, Rest("outside"), W[1].mode, W[1].loop)
  BY <1>2, OutsideFacts, StartLeads
<1>6. PICK U : /\ Chain(start_parsing \o none, U)
               /\ U[1].mode = Rest("outside") /\ SameCall(U[1], W[1])
  BY ONLY <1>4, <1>5, Ahead
<1>7. start_parsing \o none = start_parsing
  <2>1. IsSeq(start_parsing)
    BY StartLeads, LeadsModes
  <2> QED
    BY <2>1, ConcatEmptySeq DEF IsSeq, none
<1>8. IsSeq(scopes) /\ Len(scopes) = 1
  <2>1. scopes = <<{}>> /\ <<{}>> \in Seq({{}})
    BY DEF Init
  <2> QED
    BY <2>1 DEF IsSeq
<1>9. Fits(U[1].mode, U[1].frame, Len(scopes), breakable, returnable)
  <2>1. U[1].frame = Outside.frame /\ breakable = 0 /\ returnable = 0
    BY <1>2, <1>6 DEF SameCall, Init
  <2> QED
    BY <1>6, <1>8, <2>1, OutsideFacts, RestFits DEF Classes
<1>10. Chain(todo, U)
  BY <1>6, <1>7 DEF Init
<1> QED
  BY <1>8, <1>9, <1>10 DEF Chained

\* A parse that goes on is chained on, and restores the context of the calls it leaves.
LEMMA StepChains ==
  ASSUME Chained, status = "running", Next, status' = "running"
  PROVE  Chained' /\ Gone
<1>1. CASE View
  BY <1>1, ViewChains
<1>2. CASE Choose
  BY <1>2, ChooseChains
<1>3. CASE Repeat
  BY <1>3, RepeatChains
<1>4. CASE Separate
  BY <1>4, SeparateChains
<1>5. CASE CallFunction
  BY <1>5, CallFunctionChains
<1>6. CASE LeaveFunction
  BY <1>6, LeaveFunctionChains
<1>7. CASE Leave
  BY <1>7 DEF Leave, Finish
<1>8. CASE AddError
  BY <1>8, AddErrorChains
<1>9. CASE CheckAssertion
  BY <1>9, CheckAssertionChains
<1>10. CASE Scope
  BY <1>10, ScopeChains
<1>11. CASE Target
  BY <1>11, TargetChains
<1>12. CASE Operate
  BY <1>12, OperateChains
<1>13. CASE Write
  BY <1>13, WriteChains
<1>14. CASE End_
  BY <1>14 DEF End_
<1> QED
  BY <1>1, <1>2, <1>3, <1>4, <1>5, <1>6, <1>7, <1>8, <1>9, <1>10, <1>11, <1>12, <1>13, <1>14
     DEF Next

\* A step that changes nothing leaves no call.
LEMMA StutterLeaves == ASSUME UNCHANGED vars PROVE Gone /\ (Chained => Chained')
<1>1. todo' = todo /\ scopes' = scopes /\ breakable' = breakable /\ returnable' = returnable
  BY DEF vars
<1>2. \A i \in Calls : ~Left(i)
  BY <1>1 DEF Left, Calls
<1>3. Chained => Chained'
  BY <1>1 DEF Chained
<1> QED
  BY <1>2, <1>3 DEF Gone

LEMMA InvNext ==
  ASSUME Inv, [Next]_vars
  PROVE  Inv' /\ (status = "running" /\ status' = "running" => Gone)
<1>1. CASE UNCHANGED vars
  <2>1. status' = status
    BY <1>1 DEF vars
  <2> QED
    BY <1>1, <2>1, StutterLeaves DEF Inv
<1>2. CASE Next /\ status # "running"
  <2>1. status' # "running"
    BY <1>2 DEF Next, View, Choose, Repeat, Separate, CallFunction, LeaveFunction, Leave, AddError,
       CheckAssertion, Scope, Target, Operate, Write, End_, Step, vars
  <2> QED
    BY <1>2, <2>1 DEF Inv
<1>3. CASE Next /\ status = "running"
  BY <1>3, StepChains DEF Inv
<1> QED
  BY <1>1, <1>2, <1>3

(* While a file is parsed, the steps left to do fit together: before each  *)
(* of them there is a point, that of the first agrees with the scopes, the *)
(* target of break and that of return, and the last is the file's own.     *)
THEOREM StepsFitTogether == Spec => []Inv
<1>1. Init => Inv
  BY InitChains DEF Inv
<1>2. Inv /\ [Next]_vars => Inv'
  BY InvNext
<1> QED
  BY <1>1, <1>2, PTL DEF Spec

(* A function of the parser that returns, at its end or before it, leaves  *)
(* the scope, the target of break and that of return as it found them.     *)
THEOREM ContextIsRestored == Spec => ContextRestored
<1>1. Inv /\ [Next]_vars =>
        [status' = "running" =>
           \A i \in Calls : Left(i) =>
             /\ Len(scopes') = todo[i].depth
             /\ breakable' = todo[i].breakable
             /\ returnable' = todo[i].returnable]_vars
  <2> SUFFICES ASSUME Inv, [Next]_vars, status' = "running", ~(UNCHANGED vars) PROVE Gone
    BY DEF Gone
  <2>1. status = "running"
    BY DEF Next, View, Choose, Repeat, Separate, CallFunction, LeaveFunction, Leave, AddError,
       CheckAssertion, Scope, Target, Operate, Write, End_, Step
  <2> QED
    BY <2>1, InvNext
<1> QED
  BY <1>1, StepsFitTogether, PTL DEF Spec, ContextRestored

\* The innermost call of some kinds is the first of their marks.
LEMMA InnermostIs ==
  ASSUME NEW kinds, Len(todo) \in Nat, NEW i \in 1 .. Len(todo), todo[i].do = "ret", todo[i].f \in kinds,
         \A j \in 1 .. i - 1 : ~(todo[j].do = "ret" /\ todo[j].f \in kinds)
  PROVE  Innermost(kinds) = todo[i].from
<1> DEFINE at_ == {j \in Calls : todo[j].f \in kinds}
<1>1. i \in at_ /\ \A j \in at_ : i <= j
  BY DEF Calls
<1>2. \A k \in at_ : (\A j \in at_ : k <= j) => k = i
  <2>1. at_ \subseteq Nat
    BY DEF Calls
  <2> QED
    BY <1>1, <2>1
<1>3. (CHOOSE k \in at_ : \A j \in at_ : k <= j) = i
  BY <1>1, <1>2
<1> QED
  BY <1>1, <1>3 DEF Innermost

LEMMA InnermostNone ==
  ASSUME NEW kinds, \A j \in 1 .. Len(todo) : ~(todo[j].do = "ret" /\ todo[j].f \in kinds)
  PROVE  Innermost(kinds) = 0
BY DEF Innermost, Calls

\* The points know the innermost statement and the innermost function.
LEMMA BreaksInnermost ==
  ASSUME NEW W, Chain(todo, W)
  PROVE  W[1].breaks = Innermost(Breaking_)
<1> DEFINE S == {j \in 1 .. Len(todo) : todo[j].do = "ret" /\ todo[j].f \in Breaking_}
<1>1. Len(todo) \in Nat /\ S \in SUBSET (1 .. Len(todo))
  BY LenNat DEF Chain
<1>2. CASE S = {}
  <2>1. \A j \in 1 .. Len(todo) : ~(todo[j].do = "ret" /\ todo[j].f \in Breaking_)
    BY <1>2
  <2>2. Len(todo) + 1 \in 1 .. Len(todo) + 1
        /\ \A j \in 1 .. (Len(todo) + 1) - 1 : ~(todo[j].do = "ret" /\ todo[j].f \in Breaking_)
    BY <1>1, <2>1
  <2>3. W[Len(todo) + 1].breaks = W[1].breaks
    BY <2>2, BreaksAhead
  <2>4. Innermost(Breaking_) = 0
    BY <2>1, InnermostNone
  <2> QED
    BY <2>3, <2>4, OutsideFacts DEF Chain
<1>3. CASE S # {}
  <2>1. PICK i \in S : \A j \in 1 .. i - 1 : j \notin S
    BY ONLY <1>1, <1>3, FirstPlace
  <2>2. /\ i \in 1 .. Len(todo) /\ i \in 1 .. Len(todo) + 1
        /\ todo[i].do = "ret" /\ todo[i].f \in Breaking_
        /\ \A j \in 1 .. i - 1 : ~(todo[j].do = "ret" /\ todo[j].f \in Breaking_)
    BY <1>1, <2>1
  <2>3. W[i].breaks = W[1].breaks
    BY <2>2, BreaksAhead
  <2>4. W[i].breaks = todo[i].from
    BY <2>2 DEF Chain, Link
  <2>5. Innermost(Breaking_) = todo[i].from
    BY <1>1, <2>2, InnermostIs
  <2> QED
    BY <2>3, <2>4, <2>5
<1> QED
  BY <1>2, <1>3

LEMMA ReturnsInnermost ==
  ASSUME NEW W, Chain(todo, W)
  PROVE  W[1].returns = Innermost(Returning)
<1> DEFINE S == {j \in 1 .. Len(todo) : todo[j].do = "ret" /\ todo[j].f \in Returning}
<1>1. Len(todo) \in Nat /\ S \in SUBSET (1 .. Len(todo))
  BY LenNat DEF Chain
<1>2. CASE S = {}
  <2>1. \A j \in 1 .. Len(todo) : ~(todo[j].do = "ret" /\ todo[j].f \in Returning)
    BY <1>2
  <2>2. Len(todo) + 1 \in 1 .. Len(todo) + 1
        /\ \A j \in 1 .. (Len(todo) + 1) - 1 : ~(todo[j].do = "ret" /\ todo[j].f \in Returning)
    BY <1>1, <2>1
  <2>3. W[Len(todo) + 1].returns = W[1].returns
    BY <2>2, ReturnsAhead
  <2>4. Innermost(Returning) = 0
    BY <2>1, InnermostNone
  <2> QED
    BY <2>3, <2>4, OutsideFacts DEF Chain
<1>3. CASE S # {}
  <2>1. PICK i \in S : \A j \in 1 .. i - 1 : j \notin S
    BY ONLY <1>1, <1>3, FirstPlace
  <2>2. /\ i \in 1 .. Len(todo) /\ i \in 1 .. Len(todo) + 1
        /\ todo[i].do = "ret" /\ todo[i].f \in Returning
        /\ \A j \in 1 .. i - 1 : ~(todo[j].do = "ret" /\ todo[j].f \in Returning)
    BY <1>1, <2>1
  <2>3. W[i].returns = W[1].returns
    BY <2>2, ReturnsAhead
  <2>4. W[i].returns = todo[i].from
    BY <2>2 DEF Chain, Link
  <2>5. Innermost(Returning) = todo[i].from
    BY <1>1, <2>2, InnermostIs
  <2> QED
    BY <2>3, <2>4, <2>5
<1> QED
  BY <1>2, <1>3

LEMMA BoundRight ==
  ASSUME Inv
  PROVE  LinksRight
<1> SUFFICES ASSUME Step("bind")
             PROVE  breakable = Innermost(Breaking_) /\ returnable = Innermost(Returning)
  BY DEF LinksRight
<1>1. PICK W : Chain(todo, W) /\ Fits(W[1].mode, W[1].frame, Len(scopes), breakable, returnable)
  BY DEF Inv, Chained, Step
<1>2. todo # <<>> /\ Head(todo).do \in Settling /\ Head(todo).do \notin Marks
  BY DEF Step, Settling, Marks
<1>3. Settled(W[1].mode) /\ Bound(W[1])
  BY <1>1, <1>2, HeadSteps, HeadFacts DEF Allows
<1>4. breakable = W[1].breaks /\ returnable = W[1].returns
  BY <1>1, <1>3, SettledFits
<1> QED
  BY <1>1, <1>4, BreaksInnermost, ReturnsInnermost

(* A break and a continue are bound to the innermost loop or match they    *)
(* stand in, a return to the innermost function, lambda, rule or extension *)
(* (0 for none), in every text.                                            *)
THEOREM LinksAreRight == Spec => []LinksRight
BY StepsFitTogether, BoundRight, PTL
=============================================================================
