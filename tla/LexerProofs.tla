----------------------------- MODULE LexerProofs -----------------------------
(***************************************************************************)
(* Proofs about Lexer for texts of any length.                             *)
(***************************************************************************)
EXTENDS Lexer, FiniteSetTheorems, SequenceTheorems, TLAPS

------------------------------------------------------------------------------
(* The types of the state.                                                 *)

\* What a token of plain code can be, and the tokens that open and close something.
Ordinary == {"IDENTIFIER", "L_HEX", "L_I", "L_D", "RANGE", "SYMBOL", "PLACEHOLDER", "L_TEXTUAL", "COLON", "SPEC"}
Brackets == {"METACODE", "METACODE_END", "INTERPOLATION_START", "INTERPOLATION_END"}
Tokens == [kind : Ordinary \cup Brackets \cup {"END_OF_FILE"}, begin : Nat, end : Nat]

Literals == [fn : {"literal"}, escape : BOOLEAN, quote : {"quote", "tick"}, multi : BOOLEAN]
Loops == {Tokenize({}), Tokenize(Instruction), Tokenize(Expression), Spec_} \cup Literals

TextOK == text \in Seq(Chars) /\ text # <<>>

TypeOK ==
  /\ TextOK
  /\ cur \in 0 .. Size
  /\ buffer \in 0 .. Size
  /\ tokens \in Seq(Tokens)
  /\ frames \in Seq(Loops)
  /\ errors \subseteq {0, 2, 6, 151, 229}
  /\ lastOp \in {None} \cup Nat
  /\ status \in {"lexing", "done", "crash"}

\* What may run inside of what: an instruction or a literal in code, an interpolation in
\* a literal.
Nested(f, outer) ==
  \/ f = Tokenize(Instruction) /\ outer \in {Tokenize({}), Tokenize(Expression)}
  \/ f \in {Tokenize(Expression), Spec_} /\ outer \in Literals
  \/ f \in Literals /\ outer.fn = "tokenize"

Stacked(s) ==
  /\ s # <<>> /\ s[1] = Tokenize({})
  /\ \A i \in 2 .. Len(s) : Nested(s[i], s[i - 1])

StackInv == Stacked(frames) /\ (status = "done" => Len(frames) = 1 /\ cur = Size)

Inv == TypeOK /\ StackInv

LEMMA LoopFacts ==
  /\ \A e : Tokenize(e).fn = "tokenize" /\ Tokenize(e).exits = e
  /\ Spec_.fn = "spec"
  /\ \A f \in Literals : f.fn = "literal" /\ f.quote \in {"quote", "tick"} /\ f.multi \in BOOLEAN
  /\ Instruction # {} /\ Expression # {} /\ Instruction # Expression
  /\ "#" \in Instruction /\ "#" \notin Expression
<1>1. \A e : Tokenize(e).fn = "tokenize" /\ Tokenize(e).exits = e
  BY DEF Tokenize
<1>2. Spec_.fn = "spec"
  BY DEF Spec_
<1>3. ASSUME NEW f \in Literals PROVE f.fn = "literal" /\ f.quote \in {"quote", "tick"} /\ f.multi \in BOOLEAN
  BY DEF Literals
<1>4. /\ Instruction # {} /\ Expression # {} /\ Instruction # Expression
      /\ "#" \in Instruction /\ "#" \notin Expression
  BY DEF Instruction, Expression
<1> QED
  BY <1>1, <1>2, <1>3, <1>4

\* The three calls of tokenize are told apart by their exit characters.
LEMMA TokenizeFacts ==
  ASSUME NEW f \in Loops, f.fn = "tokenize"
  PROVE  /\ f = Tokenize(f.exits) /\ f.exits \in {{}, Instruction, Expression}
         /\ f \notin Literals /\ f # Spec_
BY LoopFacts DEF Loops

LEMMA LiteralFacts ==
  ASSUME NEW f \in Loops
  PROVE  /\ f.fn = "literal" <=> f \in Literals
         /\ f.fn = "spec" <=> f = Spec_
<1>1. CASE f \in {Tokenize({}), Tokenize(Instruction), Tokenize(Expression), Spec_}
  BY <1>1, LoopFacts
<1>2. CASE f \in Literals
  BY <1>2, LoopFacts
<1> QED
  BY <1>1, <1>2 DEF Loops

\* Behind the text there is only nul, which no text holds.
LEMMA ChFacts ==
  ASSUME TextOK
  PROVE  /\ Size \in Nat \ {0}
         /\ \A p \in 0 .. Size - 1 : Ch(p) \in Chars
         /\ \A p \in Nat : p >= Size => Ch(p) = "nul"
         /\ \A p \in Nat : Ch(p) # "nul" => p < Size
<1>1. Size \in Nat \ {0} /\ text \in [1 .. Size -> Chars]
  BY EmptySeq DEF TextOK, Size
<1>2. ASSUME NEW p \in 0 .. Size - 1 PROVE Ch(p) \in Chars
  <2>1. p + 1 \in 1 .. Size /\ p < Size
    BY <1>1
  <2> QED
    BY <1>1, <2>1 DEF Ch
<1>3. ASSUME NEW p \in Nat, p >= Size PROVE Ch(p) = "nul"
  <2>1. ~(p < Size)
    BY <1>1, <1>3
  <2> QED
    BY <2>1 DEF Ch
<1>4. \A p \in Nat : p < Size \/ p >= Size
  BY <1>1
<1> QED
  BY <1>1, <1>2, <1>3, <1>4

------------------------------------------------------------------------------
(* Searching the text.                                                     *)

\* A set of numbers that is not empty has a least one.  The intervals that end in its
\* members are ordered by inclusion, which is well-founded.
LEMMA LeastNumber ==
  ASSUME NEW S \in SUBSET Nat, S # {}
  PROVE  \E m \in S : \A n \in S : m <= n
<1> DEFINE U == {0 .. n : n \in S}
<1>1. U \subseteq FiniteSubsetsOf(Nat) /\ U # {}
  <2>1. \A n \in S : 0 .. n \in SUBSET Nat /\ IsFiniteSet(0 .. n)
    BY FS_Interval
  <2> QED
    BY <2>1 DEF FiniteSubsetsOf
<1>2. PICK s \in U : \A t \in U : <<t, s>> \notin StrictSubsetOrdering(Nat)
  BY <1>1, FS_StrictSubsetOrderingWellFounded, WFMin
<1>3. PICK m \in S : s = 0 .. m
  OBVIOUS
<1>4. ASSUME NEW n \in S, n < m PROVE FALSE
  <2>1. m \in 0 .. m /\ m \notin 0 .. n
    BY <1>4
  <2>2. 0 .. n \subseteq 0 .. m /\ 0 .. n # 0 .. m
    BY <1>4, <2>1
  <2>3. 0 .. n \in U /\ 0 .. n \in SUBSET Nat /\ 0 .. m \in SUBSET Nat
    OBVIOUS
  <2> QED
    BY <1>2, <1>3, <2>2, <2>3 DEF StrictSubsetOrdering
<1> QED
  BY <1>4

\* What First returns, as a function of the positions found.
Least(found) == IF found = {} THEN Size ELSE CHOOSE q \in found : \A r \in found : q <= r

LEMMA LeastFacts ==
  ASSUME Size \in Nat, NEW found \in SUBSET (0 .. Size - 1)
  PROVE  /\ Least(found) \in found \/ (Least(found) = Size /\ found = {})
         /\ Least(found) \in 0 .. Size
         /\ \A q \in found : Least(found) <= q
<1>1. CASE found = {}
  BY <1>1 DEF Least
<1>2. CASE found # {}
  <2>1. found \in SUBSET Nat
    OBVIOUS
  <2>2. \E m \in found : \A r \in found : m <= r
    BY <1>2, <2>1, LeastNumber
  <2>3. Least(found) = CHOOSE q \in found : \A r \in found : q <= r
    BY <1>2 DEF Least
  <2>4. Least(found) \in found /\ \A r \in found : Least(found) <= r
    BY <2>2, <2>3
  <2>5. \A q \in found : q \in 0 .. Size
    OBVIOUS
  <2> QED
    BY <2>4, <2>5
<1> QED
  BY <1>1, <1>2

LEMMA NumberEndFacts ==
  ASSUME TextOK, NEW p \in 0 .. Size - 1
  PROVE  /\ NumberEnd(p) \in p .. Size - 1
         /\ \A q \in p + 1 .. NumberEnd(p) : InNumber(q)
         /\ NumberEnd(p) < Size - 1 => ~InNumber(NumberEnd(p) + 1)
<1> DEFINE found == {q \in p + 1 .. Size - 1 : ~InNumber(q)}
<1>1. NumberEnd(p) = Least(found) - 1
  BY DEF NumberEnd, First, Least
<1>2. found \in SUBSET (0 .. Size - 1) /\ \A q : q \in found <=> q \in p + 1 .. Size - 1 /\ ~InNumber(q)
  OBVIOUS
<1>n. Size \in Nat
  BY ChFacts
<1> HIDE DEF found
<1>3. /\ Least(found) \in found \/ (Least(found) = Size /\ found = {})
      /\ \A q \in found : Least(found) <= q
  BY <1>2, <1>n, LeastFacts
<1> QED
  BY <1>1, <1>2, <1>3, <1>n

\* Where a search that uses one condition ends.
LEMMA SearchFacts ==
  ASSUME TextOK, NEW p \in Nat, NEW found, found \subseteq p .. Size - 1, NEW f, f = Least(found)
  PROVE  /\ f \in found \/ (f = Size /\ found = {})
         /\ f \in 0 .. Size
         /\ \A q \in p .. Size - 1 : q < f => q \notin found
         /\ p <= Size => f \in p .. Size
<1>1. Size \in Nat /\ found \in SUBSET (0 .. Size - 1)
  BY ChFacts
<1>2. /\ f \in found \/ (f = Size /\ found = {})
      /\ f \in 0 .. Size
      /\ \A q \in found : f <= q
  BY <1>1, LeastFacts
<1>3. p <= Size => f \in p .. Size
  BY <1>1, <1>2
<1> QED
  BY <1>1, <1>2, <1>3

\* Before the begin of a token there are only blanks.
LEMMA StartFacts ==
  ASSUME TextOK, cur \in 0 .. Size
  PROVE  /\ Start \in cur .. Size
         /\ \A q \in cur .. Start - 1 : Ch(q) \in Blanks
         /\ Start < Size => Ch(Start) \notin Blanks \/ Ch(Start) \in Top.exits
<1> DEFINE found == {q \in cur .. Size - 1 : Ch(q) \notin Blanks \/ Ch(q) \in Top.exits}
<1>1. Start = Least(found) /\ found \subseteq cur .. Size - 1
  BY DEF Start, First, Least
<1>2. \A q \in cur .. Size - 1 : q \in found <=> Ch(q) \notin Blanks \/ Ch(q) \in Top.exits
  OBVIOUS
<1>3. Size \in Nat
  BY ChFacts
<1> HIDE DEF found
<1>4. /\ Start \in found \/ (Start = Size /\ found = {})
      /\ \A q \in cur .. Size - 1 : q < Start => q \notin found
      /\ Start \in cur .. Size
  <2>1. cur \in Nat /\ cur <= Size
    BY <1>3
  <2> QED
    BY <1>1, <2>1, SearchFacts
<1> QED
  BY <1>1, <1>2, <1>3, <1>4

LEMMA WordEndFacts ==
  ASSUME TextOK, NEW p \in 0 .. Size
  PROVE  WordEnd(p) \in p .. Size /\ (p < Size => WordEnd(p) < Size)
<1>0. Size \in Nat
  BY ChFacts
<1>1. CASE Ch(p) \notin Letters \cup {"under"}
  <2>1. WordEnd(p) = p
    BY <1>1 DEF WordEnd
  <2> QED
    BY <1>0, <2>1
<1>2. CASE Ch(p) \in Letters \cup {"under"}
  <2> DEFINE found == {q \in p + 1 .. Size - 1 : ~IsWord(Ch(q))}
  <2>1. WordEnd(p) = Least(found) - 1 /\ found \subseteq p + 1 .. Size - 1
    BY <1>2 DEF WordEnd, First, Least
  <2>2. p < Size
    <3>1. "nul" \notin Letters \cup {"under"}
      BY DEF Letters
    <3>2. Ch(p) # "nul"
      BY <1>2, <3>1, Zenon
    <3>3. p \in Nat
      BY <1>0
    <3> QED
      BY <3>2, <3>3, ChFacts
  <2> HIDE DEF found
  <2>3. Least(found) \in p + 1 .. Size
    <3>1. p + 1 \in Nat /\ p + 1 <= Size
      BY <1>0, <2>2
    <3> QED
      BY <2>1, <3>1, SearchFacts
  <2> QED
    BY <1>0, <2>1, <2>2, <2>3
<1> QED
  BY <1>1, <1>2

------------------------------------------------------------------------------
(* What is read in one turn: one token, or two that touch, from p to last,  *)
(* and the cursor goes behind the last character.                          *)

Spans(found, p, last) ==
  \/ \E k \in Ordinary : found = <<Token(k, p, last)>>
  \/ \E j \in Ordinary, k \in Ordinary, c \in p .. last - 1 : found = <<Token(j, p, c), Token(k, c + 1, last)>>

Reads(r, p) ==
  /\ \E last \in p .. Size : Spans(r.found, p, last) /\ r.next = Move(last)
  /\ r.buffer \in 0 .. Size

LEMMA WordReads == ASSUME TextOK, NEW p \in 0 .. Size PROVE Reads(Word(p), p)
<1>1. WordEnd(p) \in p .. Size
  BY WordEndFacts
<1>2. "IDENTIFIER" \in Ordinary
  BY DEF Ordinary
<1>3. /\ Word(p).found = <<Token("IDENTIFIER", p, WordEnd(p))>>
      /\ Word(p).next = Move(WordEnd(p)) /\ Word(p).buffer = p
  BY DEF Word
<1>4. Spans(Word(p).found, p, WordEnd(p))
  BY <1>2, <1>3 DEF Spans
<1> QED
  BY <1>1, <1>3, <1>4 DEF Reads

LEMMA BasedReads == ASSUME TextOK, NEW p \in 0 .. Size - 1, Ch(p + 1) = "x" PROVE Reads(Based(p), p)
<1> DEFINE found == {q \in Move(p + 1) + 1 .. Size - 1 : ~IsHex(Ch(q))}
           last == IF p + 2 < Size THEN Least(found) - 1 ELSE Size
<1>0. Size \in Nat /\ p + 1 < Size
  BY ChFacts
<1>1. /\ Based(p).found = <<Token("L_HEX", p, last)>>
      /\ Based(p).next = Move(last) /\ Based(p).buffer = p
  BY DEF Based, First, Least
<1>2. Move(p + 1) + 1 = p + 3
  BY <1>0 DEF Move
<1>3. found \subseteq p + 3 .. Size - 1
  BY <1>2
<1> HIDE DEF found
<1>4. last \in p .. Size
  <2>1. CASE p + 2 < Size
    <3>1. p + 3 \in Nat /\ p + 3 <= Size
      BY <1>0, <2>1
    <3>2. Least(found) \in p + 3 .. Size
      BY <1>3, <3>1, SearchFacts
    <3> QED
      BY <1>0, <2>1, <3>2
  <2>2. CASE ~(p + 2 < Size)
    BY <1>0, <2>2
  <2> QED
    BY <2>1, <2>2
<1> HIDE DEF last
<1>5. Spans(Based(p).found, p, last)
  BY <1>1 DEF Spans, Ordinary
<1> QED
  BY <1>0, <1>1, <1>4, <1>5 DEF Reads

\* A number stops at a dot only if another follows, so the dots of a range are in the text.
LEMMA RangeReads ==
  ASSUME TextOK, NEW p \in 0 .. Size - 1, Ch(NumberEnd(p) + 1) = "."
  PROVE  Reads(RangeFrom(p, NumberEnd(p)), p)
<1> DEFINE c == NumberEnd(p)
           last == IF Ch(c + 3) \in {"=", "."} THEN c + 3 ELSE c + 2
<1>0. Size \in Nat /\ c \in p .. Size - 1
  BY ChFacts, NumberEndFacts
<1>1. c + 1 < Size
  BY <1>0, ChFacts
<1>2. ~InNumber(c + 1)
  BY <1>0, <1>1, NumberEndFacts
<1>3. Ch(c + 2) = "."
  BY <1>0, <1>2 DEF InNumber
<1>4. c + 2 < Size
  BY <1>0, <1>3, ChFacts
<1>5. last \in p .. Size /\ c \in p .. last - 1
  <2>1. Ch(c + 3) \in {"=", "."} => c + 3 < Size
    BY <1>0, ChFacts
  <2> QED
    BY <1>0, <1>4, <2>1
<1>6. /\ RangeFrom(p, c).found = <<Token("L_I", p, c), Token("RANGE", c + 1, last)>>
      /\ RangeFrom(p, c).next = Move(last) /\ RangeFrom(p, c).buffer = c + 1
  BY DEF RangeFrom
<1> HIDE DEF last, c
<1>7. Spans(RangeFrom(p, c).found, p, last)
  <2>1. "L_I" \in Ordinary /\ "RANGE" \in Ordinary
    BY DEF Ordinary
  <2> QED
    BY <1>5, <1>6, <2>1 DEF Spans
<1>8. c + 1 \in 0 .. Size
  BY <1>0, <1>1
<1> QED
  BY <1>5, <1>6, <1>7, <1>8 DEF Reads, c

LEMMA NumberReads == ASSUME TextOK, NEW p \in 0 .. Size - 1 PROVE Reads(Number(p), p)
<1> DEFINE c == NumberEnd(p)
           k == IF \E q \in p + 1 .. c : Ch(q) \notin Digits THEN "L_D" ELSE "L_I"
<1>1. CASE Ch(p + 1) = "x"
  BY <1>1, BasedReads DEF Number
<1>2. CASE Ch(p + 1) # "x" /\ Ch(c + 1) = "."
  BY <1>2, RangeReads DEF Number
<1>3. CASE Ch(p + 1) # "x" /\ Ch(c + 1) # "."
  <2>1. /\ Number(p).found = <<Token(k, p, c)>> /\ Number(p).next = Move(c) /\ Number(p).buffer = p
    BY <1>3 DEF Number
  <2>2. c \in p .. Size - 1 /\ Size \in Nat
    BY ChFacts, NumberEndFacts
  <2>3. k \in Ordinary
    BY DEF Ordinary
  <2> HIDE DEF c, k
  <2>4. Spans(Number(p).found, p, c)
    BY <2>1, <2>3 DEF Spans
  <2> QED
    BY <2>1, <2>2, <2>4 DEF Reads
<1> QED
  BY <1>1, <1>2, <1>3

LEMMA PlainReads == ASSUME TextOK, NEW p \in 0 .. Size PROVE Reads(Plain(p), p)
<1>1. CASE Ch(p) \in Digits
  <2>1. p \in 0 .. Size - 1
    BY <1>1, ChFacts DEF Digits
  <2> QED
    BY <1>1, <2>1, NumberReads DEF Plain
<1>2. CASE Ch(p) \notin Digits
  BY <1>2, WordReads DEF Plain
<1> QED
  BY <1>1, <1>2

LEMMA NulFacts == "nul" \notin Chars /\ "nul" \notin Letters /\ "nul" \notin Digits
BY DEF Chars, Letters, Digits

\* A chain that is found lies inside the text.
LEMMA ChainFacts ==
  ASSUME TextOK, NEW p \in Nat, NEW l \in Seq(Chars), l # <<>>, HasChain(p, l)
  PROVE  Len(l) \in Nat \ {0} /\ p + Len(l) <= Size /\ p < Size
<1>1. Len(l) \in Nat \ {0} /\ l[Len(l)] \in Chars /\ Size \in Nat
  BY EmptySeq, ChFacts
<1>2. Ch(p + Len(l) - 1) = l[Len(l)]
  BY <1>1 DEF HasChain
<1>3. Ch(p + Len(l) - 1) # "nul" /\ p + Len(l) - 1 \in Nat
  BY <1>1, <1>2, NulFacts
<1>4. p + Len(l) - 1 < Size
  BY <1>3, ChFacts
<1> QED
  BY <1>1, <1>4

LEMMA SymbolTypes == \A s \in Symbols : s \in Seq(Chars) /\ Len(s) \in 1 .. 3
<1>1. {"=", "+", "*", "/", ".", ":", "$", "under", "lbrace", "rbrace", "[", "]", "b", "a"} \subseteq Chars
  BY DEF Chars, Letters
<1> DEFINE C == {"=", "+", "*", "/", ".", ":", "$", "under", "lbrace", "rbrace", "[", "]", "b", "a"}
<1>2. ASSUME NEW x \in C PROVE <<x>> \in Seq(Chars) /\ Len(<<x>>) \in 1 .. 3
  BY <1>1
<1>3. ASSUME NEW x \in C, NEW y \in C PROVE <<x, y>> \in Seq(Chars) /\ Len(<<x, y>>) \in 1 .. 3
  BY <1>1
<1>4. ASSUME NEW x \in C, NEW y \in C, NEW z \in C PROVE <<x, y, z>> \in Seq(Chars) /\ Len(<<x, y, z>>) \in 1 .. 3
  BY <1>1
<1>5. ASSUME NEW s \in Symbols
      PROVE  \/ \E x \in C : s = <<x>>
             \/ \E x \in C, y \in C : s = <<x, y>>
             \/ \E x \in C, y \in C, z \in C : s = <<x, y, z>>
  BY <1>5 DEF Symbols
<1> HIDE DEF C
<1>6. ASSUME NEW s \in Symbols PROVE s \in Seq(Chars) /\ Len(s) \in 1 .. 3
  <2>1. CASE \E x \in C : s = <<x>>
    BY <1>2, <2>1
  <2>2. CASE \E x \in C, y \in C : s = <<x, y>>
    BY <1>3, <2>2
  <2>3. CASE \E x \in C, y \in C, z \in C : s = <<x, y, z>>
    BY <1>4, <2>3
  <2> QED
    BY <1>5, <2>1, <2>2, <2>3, Zenon
<1> QED
  BY <1>6

LEMMA LongestFacts ==
  ASSUME NEW p, Longest(p) # <<>>
  PROVE  Longest(p) \in Symbols /\ HasChain(p, Longest(p))
<1>1. Matches(p) # {}
  BY DEF Longest
<1>2. \A s \in Matches(p) : s \in Symbols /\ HasChain(p, s) /\ Len(s) \in 1 .. 3
  BY SymbolTypes DEF Matches
<1>3. \E s \in Matches(p) : \A r \in Matches(p) : Len(r) <= Len(s)
  <2>1. CASE \E s \in Matches(p) : Len(s) = 3
    BY <1>2, <2>1
  <2>2. CASE (\A s \in Matches(p) : Len(s) # 3) /\ \E s \in Matches(p) : Len(s) = 2
    BY <1>2, <2>2
  <2>3. CASE \A s \in Matches(p) : Len(s) # 3 /\ Len(s) # 2
    BY <1>1, <1>2, <2>3
  <2> QED
    BY <2>1, <2>2, <2>3
<1>4. Longest(p) = CHOOSE s \in Matches(p) : \A r \in Matches(p) : Len(r) <= Len(s)
  BY <1>1 DEF Longest
<1>5. Longest(p) \in Matches(p)
  BY <1>3, <1>4
<1> QED
  BY <1>2, <1>5

LEMMA SymbolReads ==
  ASSUME TextOK, NEW p \in Nat, Longest(p) # <<>>
  PROVE  p < Size /\ Reads(Symbol(p), p)
<1> DEFINE l == Longest(p)
           last == p + Len(l) - 1
<1>1. l \in Symbols /\ HasChain(p, l) /\ l \in Seq(Chars)
  BY LongestFacts, SymbolTypes
<1>2. Len(l) \in Nat \ {0} /\ p + Len(l) <= Size /\ p < Size /\ Size \in Nat
  BY <1>1, ChainFacts, ChFacts
<1>3. last \in p .. Size
  BY <1>2
<1>4. /\ Symbol(p).found = <<Token("SYMBOL", p, last)>>
      /\ Symbol(p).next = Move(last) /\ Symbol(p).buffer = p
  BY DEF Symbol
<1> HIDE DEF l, last
<1>5. Spans(Symbol(p).found, p, last)
  BY <1>4 DEF Spans, Ordinary
<1>6. p \in 0 .. Size
  BY <1>2
<1> QED
  BY <1>2, <1>3, <1>4, <1>5, <1>6 DEF Reads

\* The chains of the literals, and what each opens.
LEMMA OpeningTypes ==
  /\ DOMAIN Openings = 1 .. 6
  /\ \A i \in 1 .. 6 : /\ Openings[i][1] \in Seq(Chars) /\ Openings[i][1] # <<>>
                       /\ Openings[i][2] \in Literals
  /\ Openings[3][1] = <<"r", "quote">> /\ Openings[4][1] = <<"r", "tick">>
  /\ Openings[5][1] = <<"tick">> /\ Openings[6][1] = <<"quote">>
<1>1. "quote" \in Chars /\ "r" \in Chars /\ "tick" \in Chars
  BY DEF Chars, Letters
<1>2. /\ Triple \in Seq(Chars) /\ Triple # <<>>
      /\ <<"r">> \in Seq(Chars) /\ <<"r">> # <<>>
      /\ <<"r", "quote">> \in Seq(Chars) /\ <<"r", "quote">> # <<>>
      /\ <<"r", "tick">> \in Seq(Chars) /\ <<"r", "tick">> # <<>>
      /\ <<"tick">> \in Seq(Chars) /\ <<"tick">> # <<>>
      /\ <<"quote">> \in Seq(Chars) /\ <<"quote">> # <<>>
  BY <1>1 DEF Triple
<1>3. <<"r">> \o Triple \in Seq(Chars) /\ <<"r">> \o Triple # <<>>
  <2>1. <<"r">> \o Triple \in Seq(Chars) /\ Len(<<"r">> \o Triple) = Len(<<"r">>) + Len(Triple)
    BY <1>2
  <2>2. Len(<<"r">>) = 1 /\ Len(Triple) \in Nat
    BY <1>2
  <2> QED
    BY <2>1, <2>2
<1>4. \A e \in BOOLEAN, q \in {"quote", "tick"}, m \in BOOLEAN : Literal(e, q, m) \in Literals
  BY DEF Literal, Literals
<1> DEFINE a == <<"r">> \o Triple
<1> HIDE DEF a
<1>5. /\ DOMAIN Openings = 1 .. 6
      /\ Openings[1][1] = Triple /\ Openings[1][2] = Literal(TRUE, "quote", TRUE)
      /\ Openings[2][1] = a /\ Openings[2][2] = Literal(FALSE, "quote", TRUE)
      /\ Openings[3][1] = <<"r", "quote">> /\ Openings[3][2] = Literal(FALSE, "quote", FALSE)
      /\ Openings[4][1] = <<"r", "tick">> /\ Openings[4][2] = Literal(FALSE, "tick", FALSE)
      /\ Openings[5][1] = <<"tick">> /\ Openings[5][2] = Literal(TRUE, "tick", FALSE)
      /\ Openings[6][1] = <<"quote">> /\ Openings[6][2] = Literal(TRUE, "quote", FALSE)
  BY DEF Openings, a
<1>6. \A i \in 1 .. 6 : i = 1 \/ i = 2 \/ i = 3 \/ i = 4 \/ i = 5 \/ i = 6
  OBVIOUS
<1>7. ASSUME NEW i \in 1 .. 6
      PROVE  Openings[i][1] \in Seq(Chars) /\ Openings[i][1] # <<>> /\ Openings[i][2] \in Literals
  <2>1. TRUE \in BOOLEAN /\ FALSE \in BOOLEAN /\ "quote" \in {"quote", "tick"} /\ "tick" \in {"quote", "tick"}
    OBVIOUS
  <2>2. a \in Seq(Chars) /\ a # <<>>
    BY <1>3 DEF a
  <2>3. CASE i = 1
    BY <1>2, <1>4, <1>5, <2>1, <2>3
  <2>4. CASE i = 2
    BY <1>4, <1>5, <2>1, <2>2, <2>4
  <2>5. CASE i = 3
    BY <1>2, <1>4, <1>5, <2>1, <2>5
  <2>6. CASE i = 4
    BY <1>2, <1>4, <1>5, <2>1, <2>6
  <2>7. CASE i = 5
    BY <1>2, <1>4, <1>5, <2>1, <2>7
  <2>8. CASE i = 6
    BY <1>2, <1>4, <1>5, <2>1, <2>8
  <2> QED
    BY <1>6, <2>3, <2>4, <2>5, <2>6, <2>7, <2>8
<1> QED
  BY <1>5, <1>7

LEMMA OpeningFacts ==
  ASSUME TextOK, NEW p \in Nat, IsTextual(p)
  PROVE  /\ Opening(p)[2] \in Literals
         /\ Len(Opening(p)[1]) \in Nat \ {0} /\ p + Len(Opening(p)[1]) <= Size /\ p < Size
<1> DEFINE S == {i \in 1 .. 6 : HasChain(p, Openings[i][1])}
<1>1. S # {}
  <2>1. CASE Ch(p) = "quote"
    <3>1. HasChain(p, <<"quote">>)
      BY <2>1 DEF HasChain
    <3>2. Openings[6][1] = <<"quote">>
      BY OpeningTypes
    <3>3. 6 \in S
      BY <3>1, <3>2
    <3> QED
      BY <3>3
  <2>2. CASE Ch(p) = "tick"
    <3>1. HasChain(p, <<"tick">>)
      BY <2>2 DEF HasChain
    <3>2. Openings[5][1] = <<"tick">>
      BY OpeningTypes
    <3>3. 5 \in S
      BY <3>1, <3>2
    <3> QED
      BY <3>3
  <2>3. CASE Ch(p) = "r" /\ Ch(p + 1) = "quote"
    <3>1. HasChain(p, <<"r", "quote">>)
      BY <2>3 DEF HasChain
    <3>2. Openings[3][1] = <<"r", "quote">>
      BY OpeningTypes
    <3>3. 3 \in S
      BY <3>1, <3>2
    <3> QED
      BY <3>3
  <2>4. CASE Ch(p) = "r" /\ Ch(p + 1) = "tick"
    <3>1. HasChain(p, <<"r", "tick">>)
      BY <2>4 DEF HasChain
    <3>2. Openings[4][1] = <<"r", "tick">>
      BY OpeningTypes
    <3>3. 4 \in S
      BY <3>1, <3>2
    <3> QED
      BY <3>3
  <2> QED
    BY <2>1, <2>2, <2>3, <2>4 DEF IsTextual
<1>2. PICK m \in S : \A n \in S : m <= n
  BY <1>1, LeastNumber
<1>3. \A j \in 1 .. m - 1 : ~HasChain(p, Openings[j][1])
  BY <1>2
<1> DEFINE i == CHOOSE i \in DOMAIN Openings :
                  HasChain(p, Openings[i][1]) /\ \A j \in 1 .. i - 1 : ~HasChain(p, Openings[j][1])
<1>4. i \in 1 .. 6 /\ HasChain(p, Openings[i][1])
  BY <1>2, <1>3, OpeningTypes
<1>5. Opening(p) = Openings[i]
  BY DEF Opening
<1> HIDE DEF i
<1>6. Openings[i][1] \in Seq(Chars) /\ Openings[i][1] # <<>> /\ Openings[i][2] \in Literals
  BY <1>4, OpeningTypes
<1> QED
  BY <1>4, <1>5, <1>6, ChainFacts

------------------------------------------------------------------------------
(* What one turn of a loop does to the tokens, the stack and the cursor.    *)

\* The tokens after a turn: those before it and at most two more.
Grows(kinds) ==
  \/ tokens' = tokens
  \/ \E t \in Tokens : t.kind \in kinds /\ tokens' = Append(tokens, t)
  \/ \E t, u \in Tokens : t.kind \in kinds /\ u.kind \in kinds /\ tokens' = Append(Append(tokens, t), u)
Gains(kind) == \E t \in Tokens : t.kind = kind /\ tokens' = Append(tokens, t)
GainsTwo(kind, other) ==
  \E t, u \in Tokens : t.kind = kind /\ u.kind = other /\ tokens' = Append(Append(tokens, t), u)

Turn ==
  /\ text' = text
  /\ status = "lexing"
  /\ cur' \in cur .. Size
  /\ buffer' \in 0 .. Size
  /\ lastOp' \in {None} \cup Nat
  /\ errors \subseteq errors' /\ errors' \subseteq {0, 2, 6, 151, 229}

Stays == frames' = frames /\ Grows(Ordinary) /\ cur' > cur /\ (Top \in Literals => cur < Size)
OpensLiteral ==
  Top.fn = "tokenize" /\ tokens' = tokens /\ cur' > cur /\ \E f \in Literals : frames' = Append(frames, f)
EndsLiteral ==
  /\ Top \in Literals /\ frames' = Below
  /\ (tokens' = tokens /\ errors' # {}) \/ (Grows(Ordinary) /\ cur < Size /\ cur' > cur)
OpensInstruction ==
  /\ Top \in {Tokenize({}), Tokenize(Expression)} /\ frames' = Append(frames, Tokenize(Instruction))
  /\ Gains("METACODE") /\ cur' > cur
NextInstruction ==
  Top = Tokenize(Instruction) /\ frames' = frames /\ GainsTwo("METACODE_END", "METACODE") /\ cur' > cur
EndsInstruction == Top = Tokenize(Instruction) /\ frames' = Below /\ Gains("METACODE_END")
OpensInterpolation ==
  /\ Top \in Literals /\ frames' = Append(frames, Tokenize(Expression))
  /\ GainsTwo("L_TEXTUAL", "INTERPOLATION_START") /\ cur < Size /\ cur' > cur
EndsInterpolation ==
  /\ Top \in {Tokenize(Expression), Spec_} /\ frames' = Below
  /\ Gains("INTERPOLATION_END") /\ cur' > cur
Specifies ==
  Top = Tokenize(Expression) /\ frames' = Append(Below, Spec_) /\ Gains("COLON") /\ cur' > cur
LeavesOpen ==
  /\ Top \in {Tokenize(Expression), Spec_} /\ frames' = Below /\ tokens' = tokens /\ cur' = cur
  /\ cur = Size \/ errors' # {}

Turns ==
  Stays \/ OpensLiteral \/ EndsLiteral \/ OpensInstruction \/ NextInstruction \/ EndsInstruction
    \/ OpensInterpolation \/ EndsInterpolation \/ Specifies \/ LeavesOpen

LEMMA TopFacts ==
  ASSUME Inv
  PROVE  /\ Depth \in Nat \ {0} /\ Top \in Loops
         /\ Size \in Nat \ {0} /\ cur \in Nat /\ cur <= Size /\ TextOK
         /\ Top.fn = "tokenize" => Top = Tokenize(Top.exits) /\ Top.exits \in {{}, Instruction, Expression}
         /\ Top.fn = "literal" <=> Top \in Literals
         /\ Top.fn = "spec" <=> Top = Spec_
<1>1. frames \in Seq(Loops) /\ frames # <<>>
  BY DEF Inv, TypeOK, StackInv, Stacked
<1>2. Depth \in Nat \ {0} /\ Top \in Loops
  BY <1>1, EmptySeq DEF Depth, Top
<1>3. TextOK /\ cur \in 0 .. Size
  BY DEF Inv, TypeOK
<1>4. Size \in Nat \ {0}
  BY <1>3, ChFacts
<1> QED
  BY <1>2, <1>3, <1>4, TokenizeFacts, LiteralFacts

\* A token begins: the loop has not reached the end of the text.
LEMMA BeginsFacts ==
  ASSUME Inv, Begins
  PROVE  /\ Top.fn = "tokenize" /\ status = "lexing" /\ status' = "lexing" /\ text' = text
         /\ cur < Size /\ Start \in cur .. Size /\ Start \in Nat /\ lastOp' = Start
         /\ \A q \in cur .. Start - 1 : Ch(q) \in Blanks
         /\ Start < Size => Ch(Start) \notin Blanks /\ Ch(Start) \notin Top.exits
<1>1. /\ Top.fn = "tokenize" /\ status = "lexing" /\ ~Stops
      /\ lastOp' = Start /\ text' = text /\ status' = status
  BY DEF Begins, Runs
<1>2. TextOK /\ cur \in 0 .. Size /\ Size \in Nat /\ cur \in Nat /\ cur <= Size
  BY TopFacts
<1>3. cur < Size /\ (Start < Size => Ch(Start) \notin Top.exits)
  BY <1>1, <1>2 DEF Stops
<1>4. /\ Start \in cur .. Size
      /\ \A q \in cur .. Start - 1 : Ch(q) \in Blanks
      /\ Start < Size => Ch(Start) \notin Blanks \/ Ch(Start) \in Top.exits
  BY <1>2, StartFacts
<1> QED
  BY <1>1, <1>2, <1>3, <1>4

\* What a reading adds to the tokens.
LEMMA SpansFacts ==
  ASSUME TypeOK, Size \in Nat, NEW p \in Nat, NEW last \in p .. Size, NEW found, Spans(found, p, last),
         tokens' = tokens \o found
  PROVE  Grows(Ordinary)
<1>1. tokens \in Seq(Tokens)
  BY DEF TypeOK
<1>2. ASSUME NEW k \in Ordinary, found = <<Token(k, p, last)>> PROVE Grows(Ordinary)
  <2> DEFINE t == Token(k, p, last)
  <2>1. t \in Tokens /\ t.kind \in Ordinary
    BY DEF Token, Tokens
  <2> HIDE DEF t
  <2>2. tokens \o <<t>> = Append(tokens, t)
    BY <1>1, <2>1
  <2> QED
    BY <1>2, <2>1, <2>2 DEF Grows, t
<1>3. ASSUME NEW j \in Ordinary, NEW k \in Ordinary, NEW c \in p .. last - 1,
             found = <<Token(j, p, c), Token(k, c + 1, last)>>
      PROVE  Grows(Ordinary)
  <2> DEFINE t == Token(j, p, c)
             u == Token(k, c + 1, last)
  <2>1. t \in Tokens /\ t.kind \in Ordinary /\ u \in Tokens /\ u.kind \in Ordinary
    BY DEF Token, Tokens
  <2> HIDE DEF t, u
  <2>2. tokens \o <<t, u>> = Append(Append(tokens, t), u)
    BY <1>1, <2>1
  <2>3. tokens' = Append(Append(tokens, t), u)
    BY <1>3, <2>2 DEF t, u
  <2> QED
    BY <2>1, <2>3 DEF Grows
<1> QED
  BY <1>2, <1>3 DEF Spans

LEMMA MoveFacts ==
  ASSUME Size \in Nat, NEW p \in 0 .. Size
  PROVE  Move(p) \in p .. Size /\ (p < Size => Move(p) = p + 1)
BY DEF Move

\* A turn that reads at p, which lies at or behind the begin of the token.
LEMMA ReadTurn ==
  ASSUME Inv, Begins, NEW p \in Start .. Size, NEW r, Reads(r, p), Take(r),
         errors \subseteq errors', errors' \subseteq {0, 2, 6, 151, 229}
  PROVE  Turn /\ Stays
<1>0. /\ Size \in Nat /\ cur < Size /\ Start \in cur .. Size /\ cur \in Nat /\ status = "lexing"
      /\ text' = text /\ lastOp' \in Nat /\ Top.fn = "tokenize" /\ Start \in Nat
  BY TopFacts, BeginsFacts
<1>1. PICK last \in p .. Size : Spans(r.found, p, last) /\ r.next = Move(last)
  BY DEF Reads
<1>2. tokens' = tokens \o r.found /\ cur' = r.next /\ buffer' = r.buffer /\ frames' = frames
  BY DEF Take
<1>3. r.buffer \in 0 .. Size
  BY DEF Reads
<1>4. cur' \in last .. Size /\ cur' > cur
  <2>1. last \in 0 .. Size /\ last >= cur
    BY <1>0
  <2>2. Move(last) \in last .. Size /\ (last < Size => Move(last) = last + 1)
    BY <1>0, <2>1, MoveFacts
  <2> QED
    BY <1>0, <1>1, <1>2, <2>1, <2>2
<1>5. Grows(Ordinary)
  <2>1. p \in Nat
    BY <1>0
  <2> QED
    BY <1>0, <1>1, <1>2, <2>1, SpansFacts DEF Inv
<1>6. Turn
  <2>1. cur' \in cur .. Size
    BY <1>0, <1>4
  <2> QED
    BY <1>0, <1>2, <1>3, <2>1 DEF Turn
<1> QED
  BY <1>0, <1>2, <1>4, <1>5, <1>6 DEF Stays

LEMMA TakeSymbolTurn == ASSUME Inv, TakeSymbol PROVE Turn /\ Stays
<1>1. Begins /\ Longest(Start) # <<>> /\ Take(Symbol(Start)) /\ errors' = errors
  BY DEF TakeSymbol
<1>2. Start \in Nat /\ TextOK /\ Size \in Nat
  BY <1>1, BeginsFacts, TopFacts
<1>3. Start < Size /\ Reads(Symbol(Start), Start)
  BY <1>1, <1>2, SymbolReads
<1>4. Start \in Start .. Size /\ errors \subseteq errors' /\ errors' \subseteq {0, 2, 6, 151, 229}
  BY <1>1, <1>2, <1>3 DEF Inv, TypeOK
<1> QED
  BY <1>1, <1>3, <1>4, ReadTurn

LEMMA TakePlainTurn == ASSUME Inv, TakePlain PROVE Turn /\ Stays
<1>1. Begins /\ Take(Plain(Start)) /\ errors' = errors
  BY DEF TakePlain
<1>2. Start \in Start .. Size /\ Start \in 0 .. Size /\ TextOK
  BY <1>1, BeginsFacts, TopFacts
<1>3. Reads(Plain(Start), Start)
  BY <1>2, PlainReads
<1>4. errors \subseteq errors' /\ errors' \subseteq {0, 2, 6, 151, 229}
  BY <1>1 DEF Inv, TypeOK
<1> QED
  BY <1>1, <1>2, <1>3, <1>4, ReadTurn

LEMMA StateFacts ==
  ASSUME Inv
  PROVE  /\ tokens \in Seq(Tokens) /\ frames \in Seq(Loops) /\ errors \subseteq {0, 2, 6, 151, 229}
         /\ buffer \in 0 .. Size /\ lastOp \in {None} \cup Nat
BY DEF Inv, TypeOK

LEMMA CommentEndFacts ==
  ASSUME TextOK, NEW p \in 0 .. Size - 1, IsComment(p)
  PROVE  CommentEnd(p) \in p + 1 .. Size
<1>0. Size \in Nat /\ p + 1 < Size
  <2>1. Size \in Nat /\ p + 1 \in Nat /\ Ch(p + 1) # "nul"
    BY ChFacts DEF IsComment
  <2> QED
    BY <2>1, ChFacts
<1> DEFINE lines == {q \in p + 3 .. Size - 1 : Ch(q) = "\n"}
           stars == {q \in p + 3 .. Size - 1 : HasChain(q, <<"*", "/">>)}
<1>1. CASE Ch(p + 1) = "/"
  <2>1. CommentEnd(p) = Least(lines) /\ lines \subseteq p + 3 .. Size - 1 /\ p + 3 \in Nat
    BY <1>1 DEF CommentEnd, First, Least
  <2> HIDE DEF lines
  <2>2. Least(lines) \in lines \/ Least(lines) = Size
    BY <2>1, SearchFacts
  <2>3. Least(lines) \in p + 3 .. Size - 1 \/ Least(lines) = Size
    BY <2>1, <2>2
  <2> QED
    BY <1>0, <2>1, <2>3
<1>2. CASE Ch(p + 1) # "/"
  <2>1. /\ CommentEnd(p) = IF Least(stars) = Size THEN Size ELSE Least(stars) + 2
        /\ stars \subseteq p + 3 .. Size - 1 /\ p + 3 \in Nat
    BY <1>2 DEF CommentEnd, First, Least
  <2>2. ASSUME NEW q \in stars PROVE q + 2 <= Size
    <3>1. <<"*", "/">> \in Seq(Chars) /\ <<"*", "/">> # <<>> /\ Len(<<"*", "/">>) = 2
      BY DEF Chars
    <3>2. q \in Nat /\ HasChain(q, <<"*", "/">>)
      OBVIOUS
    <3> QED
      BY <3>1, <3>2, ChainFacts
  <2>3. \A q \in stars : q \in p + 3 .. Size - 1 /\ q + 2 <= Size
    BY <2>2
  <2> HIDE DEF stars
  <2>4. Least(stars) \in stars \/ Least(stars) = Size
    BY <2>1, SearchFacts
  <2>5. CASE Least(stars) = Size
    BY <1>0, <2>1, <2>5
  <2>6. CASE Least(stars) # Size
    <3>1. Least(stars) \in stars
      BY <2>4, <2>6
    <3>2. Least(stars) \in p + 3 .. Size - 1 /\ Least(stars) + 2 <= Size
      BY <2>3, <3>1
    <3> QED
      BY <1>0, <2>1, <2>6, <3>2
  <2> QED
    BY <2>5, <2>6
<1> QED
  BY <1>1, <1>2

LEMMA CommentTurn == ASSUME Inv, Comment PROVE Turn /\ Stays
<1>1. /\ Begins /\ IsComment(Start) /\ cur' = CommentEnd(Start) /\ buffer' = Start
      /\ tokens' = tokens /\ frames' = frames /\ errors' = errors
  BY DEF Comment
<1>2. /\ Start \in cur .. Size /\ Start \in Nat /\ Size \in Nat /\ TextOK /\ cur \in Nat /\ cur < Size
      /\ text' = text /\ status = "lexing" /\ lastOp' = Start /\ Top.fn = "tokenize"
  BY <1>1, BeginsFacts, TopFacts
<1>3. Start < Size
  <2>1. Ch(Start) # "nul"
    BY <1>1 DEF IsComment
  <2> QED
    BY <1>2, <2>1, ChFacts
<1>4. CommentEnd(Start) \in Start + 1 .. Size
  <2>1. Start \in 0 .. Size - 1
    BY <1>2, <1>3
  <2> QED
    BY <1>1, <1>2, <2>1, CommentEndFacts
<1>5. cur' \in cur .. Size /\ cur' > cur /\ buffer' \in 0 .. Size
  BY <1>1, <1>2, <1>4
<1> QED
  BY <1>1, <1>2, <1>5, StateFacts DEF Turn, Stays, Grows

\* A placeholder that is closed is a token of its own.
LEMMA PlaceholderFacts ==
  ASSUME TextOK, NEW p \in Nat, IsPlaceholder(p)
  PROVE  /\ p + 2 \in 0 .. Size /\ WordEnd(p + 2) \in p + 2 .. Size
         /\ IsClosed(p) => PlaceholderEnd(p) \in p + 4 .. Size - 1
<1>1. p + 1 < Size /\ Size \in Nat
  <2>1. Ch(p + 1) # "nul" /\ p + 1 \in Nat
    BY DEF IsPlaceholder
  <2> QED
    BY <2>1, ChFacts
<1>2. p + 2 \in 0 .. Size
  BY <1>1
<1>3. WordEnd(p + 2) \in p + 2 .. Size
  BY <1>2, WordEndFacts
<1>4. ASSUME IsClosed(p) PROVE PlaceholderEnd(p) \in p + 4 .. Size - 1
  <2> DEFINE e == PlaceholderEnd(p)
  <2>1. e = WordEnd(p + 2) + 2
    BY DEF PlaceholderEnd
  <2>2. HasChain(e - 1, <<"]", "]">>)
    BY <1>4 DEF IsClosed
  <2>3. <<"]", "]">> \in Seq(Chars) /\ <<"]", "]">> # <<>> /\ Len(<<"]", "]">>) = 2
    BY DEF Chars
  <2> HIDE DEF e
  <2>4. e - 1 \in Nat
    BY <1>1, <1>3, <2>1
  <2>5. (e - 1) + 2 <= Size
    BY <2>2, <2>3, <2>4, ChainFacts
  <2> QED
    BY <1>1, <1>3, <2>1, <2>5 DEF e
<1> QED
  BY <1>2, <1>3, <1>4

LEMMA PlaceholderReads ==
  ASSUME TextOK, NEW p \in Nat, IsPlaceholder(p), IsClosed(p)
  PROVE  Reads([found |-> <<Token("PLACEHOLDER", p, PlaceholderEnd(p))>>,
                next |-> Move(PlaceholderEnd(p)), buffer |-> p], p)
<1> DEFINE last == PlaceholderEnd(p)
           r == [found |-> <<Token("PLACEHOLDER", p, last)>>, next |-> Move(last), buffer |-> p]
<1>1. last \in p + 4 .. Size - 1 /\ Size \in Nat
  BY PlaceholderFacts, ChFacts
<1>2. r.found = <<Token("PLACEHOLDER", p, last)>> /\ r.next = Move(last) /\ r.buffer = p
  OBVIOUS
<1> HIDE DEF last
<1>3. last \in p .. Size /\ p \in 0 .. Size
  BY <1>1
<1>4. Spans(r.found, p, last)
  BY <1>2 DEF Spans, Ordinary
<1>5. Reads(r, p)
  BY <1>2, <1>3, <1>4 DEF Reads
<1> QED
  BY <1>5 DEF last

LEMMA PlaceholderTurn == ASSUME Inv, Placeholder PROVE Turn /\ Stays
<1> DEFINE r == [found |-> <<Token("PLACEHOLDER", Start, PlaceholderEnd(Start))>>,
                 next |-> Move(PlaceholderEnd(Start)), buffer |-> Start]
<1>1. Begins /\ IsPlaceholder(Start) /\ IsClosed(Start) /\ Take(r) /\ errors' = errors
  BY DEF Placeholder
<1>2. Start \in Nat /\ Start \in Start .. Size /\ TextOK
  BY <1>1, BeginsFacts, TopFacts
<1>3. Reads(r, Start)
  BY <1>1, <1>2, PlaceholderReads
<1> HIDE DEF r
<1>4. errors \subseteq errors' /\ errors' \subseteq {0, 2, 6, 151, 229}
  BY <1>1, StateFacts
<1> QED
  BY <1>1, <1>2, <1>3, <1>4, ReadTurn

LEMMA BadPlaceholderTurn == ASSUME Inv, BadPlaceholder PROVE Turn /\ Stays /\ errors' # {}
<1> DEFINE w == WordEnd(Start + 2)
           p == IF Ch(w + 1) = "]" THEN w + 1 ELSE w
<1>1. Begins /\ IsPlaceholder(Start) /\ Take(Plain(p)) /\ errors' = errors \cup {0}
  BY DEF BadPlaceholder
<1>2. Start \in Nat /\ TextOK /\ Size \in Nat
  BY <1>1, BeginsFacts, TopFacts
<1>3. w \in Start + 2 .. Size
  BY <1>1, <1>2, PlaceholderFacts
<1>4. p \in Start .. Size /\ p \in 0 .. Size
  <2>1. w + 1 \in Nat /\ (Ch(w + 1) = "]" => w + 1 < Size)
    BY <1>2, <1>3, ChFacts
  <2> QED
    BY <1>2, <1>3, <2>1
<1> HIDE DEF p
<1>5. Reads(Plain(p), p)
  BY <1>2, <1>4, PlainReads
<1>6. errors \subseteq errors' /\ errors' \subseteq {0, 2, 6, 151, 229} /\ errors' # {}
  BY <1>1, StateFacts
<1> QED
  BY <1>1, <1>4, <1>5, <1>6, ReadTurn

LEMMA TokenType ==
  ASSUME NEW kind \in Ordinary \cup Brackets \cup {"END_OF_FILE"}, NEW begin \in Nat, NEW end \in Nat
  PROVE  Token(kind, begin, end) \in Tokens /\ Token(kind, begin, end).kind = kind
BY DEF Token, Tokens

LEMMA MetacodeTurn == ASSUME Inv, Metacode PROVE Turn /\ OpensInstruction
<1> DEFINE t == Token("METACODE", Start, Start)
<1>1. /\ Begins /\ Ch(Start) = "#" /\ tokens' = Append(tokens, t) /\ cur' = Move(Start)
      /\ buffer' = Start /\ frames' = Append(frames, Tokenize(Instruction)) /\ errors' = errors
  BY DEF Metacode
<1>2. /\ Start \in cur .. Size /\ Start \in Nat /\ Size \in Nat /\ TextOK /\ cur \in Nat
      /\ text' = text /\ status = "lexing" /\ lastOp' = Start /\ Top.fn = "tokenize"
      /\ Start < Size => Ch(Start) \notin Top.exits
  BY <1>1, BeginsFacts, TopFacts
<1>3. Start < Size
  BY <1>1, <1>2, ChFacts
<1>4. t \in Tokens /\ t.kind = "METACODE"
  BY <1>2, TokenType DEF Brackets
<1>5. Top \in {Tokenize({}), Tokenize(Expression)}
  <2>1. Top.exits # Instruction
    BY <1>1, <1>2, <1>3, LoopFacts
  <2> QED
    BY <1>2, <2>1, TopFacts
<1>6. cur' = Start + 1 /\ cur' \in cur .. Size /\ cur' > cur /\ buffer' \in 0 .. Size
  BY <1>1, <1>2, <1>3 DEF Move
<1> HIDE DEF t
<1> QED
  BY <1>1, <1>2, <1>4, <1>5, <1>6, StateFacts DEF Turn, OpensInstruction, Gains

LEMMA MetacodeEndTurn == ASSUME Inv, MetacodeEnd PROVE Turn /\ (NextInstruction \/ EndsInstruction)
<1> DEFINE q == IF cur = Size THEN Size ELSE Start
           t == Token("METACODE_END", q, q)
           u == Token("METACODE", q, q)
<1>1. /\ status = "lexing" /\ Top.fn = "tokenize" /\ Top.exits = Instruction /\ Stops
      /\ text' = text /\ errors' = errors /\ lastOp' = lastOp
      /\ \/ /\ Ch(q) = "#" /\ tokens' = tokens \o <<t, u>>
            /\ cur' = q + 1 /\ buffer' = q /\ frames' = frames
         \/ /\ Ch(q) # "#" /\ tokens' = Append(tokens, t)
            /\ cur' = q /\ buffer' = q /\ frames' = Below
  BY DEF MetacodeEnd, Runs
<1>2. Size \in Nat /\ TextOK /\ cur \in Nat /\ cur <= Size /\ Top = Tokenize(Instruction)
  BY <1>1, TopFacts
<1>3. q \in cur .. Size /\ q \in Nat
  <2>1. Start \in cur .. Size
    BY <1>2, StartFacts
  <2> QED
    BY <1>2, <2>1
<1> HIDE DEF q
<1>4. t \in Tokens /\ t.kind = "METACODE_END" /\ u \in Tokens /\ u.kind = "METACODE"
  BY <1>3, TokenType DEF Brackets
<1> HIDE DEF t, u
<1>5. CASE Ch(q) = "#"
  <2>1. q < Size
    BY <1>2, <1>3, <1>5, ChFacts
  <2>2. tokens \o <<t, u>> = Append(Append(tokens, t), u)
    BY <1>4, StateFacts
  <2>3. cur' \in cur .. Size /\ cur' > cur /\ buffer' \in 0 .. Size
    BY <1>1, <1>2, <1>3, <1>5, <2>1
  <2> QED
    BY <1>1, <1>2, <1>4, <1>5, <2>2, <2>3, StateFacts DEF Turn, NextInstruction, GainsTwo
<1>6. CASE Ch(q) # "#"
  <2>1. cur' \in cur .. Size /\ buffer' \in 0 .. Size
    BY <1>1, <1>2, <1>3, <1>6
  <2> QED
    BY <1>1, <1>2, <1>4, <1>6, <2>1, StateFacts DEF Turn, EndsInstruction, Gains
<1> QED
  BY <1>5, <1>6

LEMMA TextualTurn == ASSUME Inv, Textual PROVE Turn /\ (Stays \/ OpensLiteral)
<1> DEFINE open == Opening(Start)
           behind == Start + Len(open[1])
           broken == open[2].multi /\ Ch(behind) # "\n"
<1>1. /\ Begins /\ IsTextual(Start) /\ tokens' = tokens /\ buffer' = cur'
      /\ cur' = IF open[2].multi /\ ~broken THEN behind + 1 ELSE behind
      /\ frames' = IF broken THEN frames ELSE Append(frames, open[2])
      /\ errors' = IF broken THEN errors \cup {229} ELSE errors
  BY DEF Textual
<1>2. /\ Start \in cur .. Size /\ Start \in Nat /\ Size \in Nat /\ TextOK /\ cur \in Nat /\ cur < Size
      /\ text' = text /\ status = "lexing" /\ lastOp' = Start /\ Top.fn = "tokenize"
      /\ Top \notin Literals
  BY <1>1, BeginsFacts, TopFacts, TokenizeFacts
<1>3. open[2] \in Literals /\ Len(open[1]) \in Nat \ {0} /\ behind <= Size
  BY <1>1, <1>2, OpeningFacts
<1> HIDE DEF open
<1>4. behind \in Nat /\ behind > Start
  BY <1>2, <1>3
<1> HIDE DEF behind
<1>5. CASE broken
  <2>1. cur' = behind /\ frames' = frames /\ errors' = errors \cup {229}
    BY <1>1, <1>5
  <2>2. cur' \in cur .. Size /\ cur' > cur /\ buffer' \in 0 .. Size
    BY <1>1, <1>2, <1>3, <1>4, <2>1
  <2> QED
    BY <1>1, <1>2, <2>1, <2>2, StateFacts DEF Turn, Stays, Grows
<1>6. CASE ~broken
  <2>1. frames' = Append(frames, open[2]) /\ errors' = errors
    BY <1>1, <1>6
  <2>2. open[2].multi => behind < Size
    <3>1. open[2].multi => Ch(behind) = "\n"
      BY <1>6
    <3> QED
      BY <1>2, <1>4, <3>1, ChFacts
  <2>3. cur' = IF open[2].multi THEN behind + 1 ELSE behind
    BY <1>1, <1>6
  <2>4. cur' \in cur .. Size /\ cur' > cur /\ buffer' \in 0 .. Size
    BY <1>1, <1>2, <1>3, <1>4, <2>2, <2>3
  <2> QED
    BY <1>1, <1>2, <1>3, <2>1, <2>4, StateFacts DEF Turn, OpensLiteral
<1> QED
  BY <1>5, <1>6

\* The state while a literal is read.
LEMMA InLiteralFacts ==
  ASSUME Inv, InLiteral
  PROVE  /\ Top \in Literals /\ status = "lexing" /\ text' = text /\ lastOp' = lastOp
         /\ Top.quote \in {"quote", "tick"}
         /\ Size \in Nat /\ TextOK /\ cur \in Nat /\ cur <= Size
BY TopFacts, LoopFacts DEF InLiteral, Runs

\* A literal closes inside the text.
LEMMA ClosesFacts ==
  ASSUME Inv, InLiteral, Closes
  PROVE  /\ Top.multi /\ Ch(cur) = "\n" => cur + 4 <= Size
         /\ ~Top.multi => cur + 1 < Size
<1>0. /\ Top.quote \in {"quote", "tick"} /\ Size \in Nat /\ TextOK /\ cur \in Nat /\ cur <= Size
  BY InLiteralFacts
<1>1. ASSUME Top.multi, Ch(cur) = "\n" PROVE cur + 4 <= Size
  <2> DEFINE l == <<"\n">> \o Triple
  <2>1. /\ Triple \in Seq(Chars) /\ <<"\n">> \in Seq(Chars) /\ Len(Triple) = 3 /\ Len(<<"\n">>) = 1
        /\ Triple[1] = "quote"
    BY DEF Triple, Chars
  <2>2. ~HasChain(cur, Triple)
    <3> SUFFICES ASSUME HasChain(cur, Triple) PROVE FALSE
      OBVIOUS
    <3>1. Ch(cur + 1 - 1) = "quote"
      BY <2>1 DEF HasChain
    <3>2. cur + 1 - 1 = cur
      BY <1>0
    <3> QED
      BY <1>1, <3>1, <3>2
  <2>3. HasChain(cur, l)
    BY <1>1, <2>2 DEF Closes
  <2>4. l \in Seq(Chars) /\ Len(l) = 4
    <3>0. \A s, t \in Seq(Chars) : s \o t \in Seq(Chars) /\ Len(s \o t) = Len(s) + Len(t)
      OBVIOUS
    <3>1. l \in Seq(Chars) /\ Len(l) = Len(<<"\n">>) + Len(Triple)
      BY <2>1, <3>0, Zenon
    <3> QED
      BY <2>1, <3>1
  <2>5. l # <<>>
    BY <2>4
  <2> HIDE DEF l
  <2> QED
    BY <1>0, <2>3, <2>4, <2>5, ChainFacts
<1>2. ASSUME ~Top.multi PROVE cur + 1 < Size
  <2>1. Ch(cur + 1) # "nul" /\ cur + 1 \in Nat
    BY <1>0, <1>2 DEF Closes
  <2> QED
    BY <1>0, <2>1, ChFacts
<1> QED
  BY <1>1, <1>2

LEMMA CloseTurn == ASSUME Inv, Close PROVE Turn /\ EndsLiteral
<1> DEFINE t == Token("L_TEXTUAL", buffer, cur)
<1>1. /\ InLiteral /\ Closes /\ (Top.multi => Ch(cur) = "\n")
      /\ tokens' = Append(tokens, t)
      /\ cur' = IF Top.multi THEN cur + 4 ELSE Move(cur + 1)
      /\ frames' = Below /\ buffer' = buffer /\ errors' = errors
  BY DEF Close
<1>2. /\ Top \in Literals /\ status = "lexing" /\ text' = text /\ lastOp' = lastOp
      /\ Size \in Nat /\ cur \in Nat /\ cur <= Size
  BY <1>1, InLiteralFacts
<1>3. cur' \in cur .. Size /\ cur' > cur /\ cur < Size
  <2>1. CASE Top.multi
    <3>1. cur + 4 <= Size /\ cur' = cur + 4
      BY <1>1, <2>1, ClosesFacts
    <3> QED
      BY <1>2, <3>1
  <2>2. CASE ~Top.multi
    <3>1. cur + 1 < Size /\ cur' = Move(cur + 1)
      BY <1>1, <2>2, ClosesFacts
    <3> QED
      BY <1>2, <3>1 DEF Move
  <2> QED
    BY <2>1, <2>2
<1>4. t \in Tokens /\ t.kind \in Ordinary
  <2>1. "L_TEXTUAL" \in Ordinary /\ buffer \in Nat
    BY <1>2, StateFacts DEF Ordinary
  <2> QED
    BY <1>2, <2>1, TokenType
<1> HIDE DEF t
<1> QED
  BY <1>1, <1>2, <1>3, <1>4, StateFacts DEF Turn, EndsLiteral, Grows

LEMMA BadCloseTurn == ASSUME Inv, BadClose \/ Unterminated PROVE Turn /\ EndsLiteral
<1>1. /\ InLiteral /\ buffer' = cur /\ errors' = errors \cup {229} /\ frames' = Below
      /\ cur' = cur /\ tokens' = tokens
  BY DEF BadClose, Unterminated
<1>2. /\ Top \in Literals /\ status = "lexing" /\ text' = text /\ lastOp' = lastOp
      /\ Size \in Nat /\ cur \in Nat /\ cur <= Size
  BY <1>1, InLiteralFacts
<1>3. cur' \in cur .. Size /\ buffer' \in 0 .. Size
  BY <1>1, <1>2
<1> QED
  BY <1>1, <1>2, <1>3, StateFacts DEF Turn, EndsLiteral

LEMMA InterpolateTurn == ASSUME Inv, Interpolate PROVE Turn /\ OpensInterpolation
<1> DEFINE t == Token("L_TEXTUAL", buffer, cur)
           u == Token("INTERPOLATION_START", cur + 1, cur + 1)
<1>1. /\ InLiteral /\ HasChain(cur, <<"$", "lbrace">>) /\ tokens' = tokens \o <<t, u>>
      /\ cur' = cur + 2 /\ buffer' = cur + 2 /\ errors' = errors
      /\ frames' = Append(frames, Tokenize(Expression))
  BY DEF Interpolate, Interpolates
<1>2. /\ Top \in Literals /\ status = "lexing" /\ text' = text /\ lastOp' = lastOp
      /\ Size \in Nat /\ cur \in Nat /\ cur <= Size /\ TextOK
  BY <1>1, InLiteralFacts
<1>3. cur + 2 <= Size
  <2>1. <<"$", "lbrace">> \in Seq(Chars) /\ <<"$", "lbrace">> # <<>> /\ Len(<<"$", "lbrace">>) = 2
    BY DEF Chars
  <2> QED
    BY <1>1, <1>2, <2>1, ChainFacts
<1>4. cur' \in cur .. Size /\ cur' > cur /\ cur < Size /\ buffer' \in 0 .. Size
  BY <1>1, <1>2, <1>3
<1>5. t \in Tokens /\ t.kind = "L_TEXTUAL" /\ u \in Tokens /\ u.kind = "INTERPOLATION_START"
  <2>1. /\ "L_TEXTUAL" \in Ordinary /\ "INTERPOLATION_START" \in Brackets
        /\ buffer \in Nat /\ cur + 1 \in Nat
    BY <1>2, StateFacts DEF Ordinary, Brackets
  <2> QED
    BY <1>2, <2>1, TokenType
<1> HIDE DEF t, u
<1>6. tokens \o <<t, u>> = Append(Append(tokens, t), u)
  BY <1>5, StateFacts
<1> QED
  BY <1>1, <1>2, <1>4, <1>5, <1>6, StateFacts DEF Turn, OpensInterpolation, GainsTwo

LEMMA EscapeTurn == ASSUME Inv, Escape PROVE Turn /\ Stays
<1> DEFINE c == Move(cur)
           hex == IF IsHex(Ch(c + 1)) /\ Ch(c + 1) # "under" THEN c + 2 ELSE c + 1
           bad == IF Ch(c) = "x" THEN IF Ch(hex) \in {"a", "b", "e", "0"} /\ hex = c + 2 THEN {} ELSE {2}
                  ELSE IF Ch(c) \in {"a", "b", "r", "0", "\\", "quote"} THEN {} ELSE {6}
<1>1. /\ InLiteral /\ Ch(cur) = "\\" /\ tokens' = tokens /\ frames' = frames
      /\ cur' = IF Ch(c) # "x" THEN c ELSE IF hex > Size THEN Size ELSE hex
      /\ errors' = errors \cup bad
      /\ buffer' = IF bad = {} THEN buffer ELSE cur'
  BY DEF Escape, Escapes
<1>2. /\ Top \in Literals /\ status = "lexing" /\ text' = text /\ lastOp' = lastOp
      /\ Size \in Nat /\ cur \in Nat /\ cur <= Size /\ TextOK
  BY <1>1, InLiteralFacts
<1>3. cur < Size
  BY <1>1, <1>2, ChFacts
<1>4. c = cur + 1
  BY <1>3 DEF Move
<1>5. hex \in {c + 1, c + 2}
  OBVIOUS
<1>6. bad \subseteq {2, 6}
  OBVIOUS
<1> HIDE DEF c, hex, bad
<1>7. cur' \in cur .. Size /\ cur' > cur
  <2>1. cur' = c \/ (cur' = Size /\ hex > Size) \/ (cur' = hex /\ ~(hex > Size))
    BY <1>1
  <2> QED
    BY <1>2, <1>3, <1>4, <1>5, <2>1
<1>8. buffer' \in 0 .. Size
  BY <1>1, <1>2, <1>7, StateFacts
<1>9. errors \subseteq errors' /\ errors' \subseteq {0, 2, 6, 151, 229}
  <2>1. errors \subseteq {0, 2, 6, 151, 229}
    BY StateFacts
  <2>2. errors' = errors \cup bad
    BY <1>1
  <2> QED
    BY <1>6, <2>1, <2>2
<1> QED
  BY <1>1, <1>2, <1>3, <1>7, <1>8, <1>9, StateFacts DEF Turn, Stays, Grows

LEMMA CharacterTurn == ASSUME Inv, Character PROVE Turn /\ Stays
<1>1. /\ InLiteral /\ cur < Size /\ cur' = cur + 1
      /\ buffer' = buffer /\ tokens' = tokens /\ frames' = frames /\ errors' = errors
  BY DEF Character
<1>2. /\ Top \in Literals /\ status = "lexing" /\ text' = text /\ lastOp' = lastOp
      /\ Size \in Nat /\ cur \in Nat
  BY <1>1, InLiteralFacts
<1>3. cur' \in cur .. Size /\ cur' > cur
  BY <1>1, <1>2
<1> QED
  BY <1>1, <1>2, <1>3, StateFacts DEF Turn, Stays, Grows

\* The state when the expression of an interpolation ends.
LEMMA EndsExpressionFacts ==
  ASSUME Inv, EndsExpression
  PROVE  /\ Top = Tokenize(Expression) /\ status = "lexing" /\ text' = text /\ lastOp' = lastOp
         /\ errors' = errors /\ Stops
         /\ Size \in Nat /\ TextOK /\ cur \in Nat /\ cur <= Size /\ Start \in cur .. Size /\ Start \in Nat
<1>1. /\ status = "lexing" /\ Top.fn = "tokenize" /\ Top.exits = Expression /\ Stops
      /\ text' = text /\ errors' = errors /\ lastOp' = lastOp
  BY DEF EndsExpression, Runs
<1>2. Size \in Nat /\ TextOK /\ cur \in Nat /\ cur <= Size /\ Top = Tokenize(Expression)
  BY <1>1, TopFacts
<1>3. Start \in cur .. Size
  BY <1>2, StartFacts
<1> QED
  BY <1>1, <1>2, <1>3

LEMMA InterpolationEndTurn == ASSUME Inv, InterpolationEnd PROVE Turn /\ EndsInterpolation
<1> DEFINE t == Token("INTERPOLATION_END", buffer, Start)
<1>1. /\ EndsExpression /\ Ch(Start) = "rbrace" /\ tokens' = Append(tokens, t)
      /\ cur' = Start + 1 /\ frames' = Below /\ buffer' = buffer
  BY DEF InterpolationEnd
<1>2. /\ Top = Tokenize(Expression) /\ status = "lexing" /\ text' = text /\ lastOp' = lastOp
      /\ errors' = errors
      /\ Size \in Nat /\ TextOK /\ cur \in Nat /\ Start \in cur .. Size /\ Start \in Nat
  BY <1>1, EndsExpressionFacts
<1>3. Start < Size
  BY <1>1, <1>2, ChFacts
<1>4. t \in Tokens /\ t.kind = "INTERPOLATION_END"
  <2>1. "INTERPOLATION_END" \in Brackets /\ buffer \in Nat
    BY <1>2, StateFacts DEF Brackets
  <2> QED
    BY <1>2, <2>1, TokenType
<1> HIDE DEF t
<1>5. cur' \in cur .. Size /\ cur' > cur
  BY <1>1, <1>2, <1>3
<1> QED
  BY <1>1, <1>2, <1>4, <1>5, StateFacts DEF Turn, EndsInterpolation, Gains

LEMMA ColonTurn == ASSUME Inv, Colon PROVE Turn /\ Specifies
<1> DEFINE t == Token("COLON", Start, Start)
<1>1. /\ EndsExpression /\ Ch(Start) = ":" /\ tokens' = Append(tokens, t)
      /\ cur' = Start + 1 /\ frames' = Append(Below, Spec_) /\ buffer' = Start
  BY DEF Colon
<1>2. /\ Top = Tokenize(Expression) /\ status = "lexing" /\ text' = text /\ lastOp' = lastOp
      /\ errors' = errors
      /\ Size \in Nat /\ TextOK /\ cur \in Nat /\ Start \in cur .. Size /\ Start \in Nat
  BY <1>1, EndsExpressionFacts
<1>3. Start < Size
  BY <1>1, <1>2, ChFacts
<1>4. t \in Tokens /\ t.kind = "COLON"
  BY <1>2, TokenType DEF Ordinary
<1> HIDE DEF t
<1>5. cur' \in cur .. Size /\ cur' > cur /\ buffer' \in 0 .. Size
  BY <1>1, <1>2, <1>3
<1> QED
  BY <1>1, <1>2, <1>4, <1>5, StateFacts DEF Turn, Specifies, Gains

LEMMA OpenExpressionTurn == ASSUME Inv, OpenExpression PROVE Turn /\ LeavesOpen
<1>1. /\ EndsExpression /\ cur = Size /\ frames' = Below /\ cur' = cur /\ buffer' = buffer /\ tokens' = tokens
  BY DEF OpenExpression
<1>2. /\ Top = Tokenize(Expression) /\ status = "lexing" /\ text' = text /\ lastOp' = lastOp
      /\ errors' = errors /\ Size \in Nat /\ cur \in Nat
  BY <1>1, EndsExpressionFacts
<1>3. cur' \in cur .. Size
  BY <1>1, <1>2
<1> QED
  BY <1>1, <1>2, <1>3, StateFacts DEF Turn, LeavesOpen

LEMMA SpecEndFacts ==
  ASSUME TextOK, cur \in Nat, cur < Size
  PROVE  SpecEnd \in cur .. Size - 1
<1> DEFINE found == {q \in cur + 1 .. Size - 1 : Ch(q) \notin Digits}
<1>0. Size \in Nat
  BY ChFacts
<1>1. CASE Ch(cur) \in Digits
  <2>1. SpecEnd = Least(found) - 1 /\ found \subseteq cur + 1 .. Size - 1
    BY <1>1 DEF SpecEnd, First, Least
  <2> HIDE DEF found
  <2>2. cur + 1 \in Nat /\ cur + 1 <= Size
    BY <1>0
  <2>3. Least(found) \in cur + 1 .. Size
    BY <2>1, <2>2, SearchFacts
  <2> QED
    BY <1>0, <2>1, <2>3
<1>2. CASE Ch(cur) \notin Digits
  <2>1. SpecEnd = cur
    BY <1>2 DEF SpecEnd
  <2> QED
    BY <1>0, <2>1
<1> QED
  BY <1>1, <1>2

LEMMA SpecTokenTurn == ASSUME Inv, SpecToken PROVE Turn /\ Stays
<1> DEFINE t == Token("SPEC", cur, SpecEnd)
<1>1. /\ status = "lexing" /\ Top.fn = "spec" /\ IsSpec(Ch(cur)) /\ tokens' = Append(tokens, t)
      /\ cur' = Move(Move(SpecEnd)) /\ buffer' = cur
      /\ text' = text /\ frames' = frames /\ errors' = errors /\ lastOp' = lastOp
  BY DEF SpecToken, Runs
<1>2. Size \in Nat /\ TextOK /\ cur \in Nat /\ cur <= Size /\ Top \notin Literals
  BY <1>1, TopFacts
<1>3. cur < Size
  <2>1. "nul" \notin Letters \cup Digits \cup {".", "under", "+", "=", "blank"}
    BY DEF Letters, Digits
  <2>2. Ch(cur) # "nul"
    BY <1>1, <2>1, Zenon DEF IsSpec
  <2> QED
    BY <1>2, <2>2, ChFacts
<1>4. SpecEnd \in cur .. Size - 1
  BY <1>2, <1>3, SpecEndFacts
<1>5. t \in Tokens /\ t.kind \in Ordinary
  <2>1. "SPEC" \in Ordinary /\ SpecEnd \in Nat
    BY <1>2, <1>4 DEF Ordinary
  <2> QED
    BY <1>2, <2>1, TokenType
<1> HIDE DEF t
<1>6. cur' \in cur .. Size /\ cur' > cur /\ buffer' \in 0 .. Size
  <2>1. Move(SpecEnd) = SpecEnd + 1
    BY <1>4, <1>2 DEF Move
  <2>2. Move(SpecEnd + 1) \in SpecEnd + 1 .. Size
    BY <1>2, <1>4 DEF Move
  <2> QED
    BY <1>1, <1>2, <1>4, <2>1, <2>2
<1> QED
  BY <1>1, <1>2, <1>5, <1>6, StateFacts DEF Turn, Stays, Grows

LEMMA SpecStopTurn == ASSUME Inv, SpecStop PROVE Turn /\ (EndsInterpolation \/ LeavesOpen)
<1> DEFINE t == Token("INTERPOLATION_END", cur, cur)
<1>1. /\ status = "lexing" /\ Top.fn = "spec" /\ frames' = Below /\ buffer' = cur
      /\ text' = text /\ lastOp' = lastOp
      /\ IF Ch(cur) = "rbrace" THEN tokens' = Append(tokens, t) /\ cur' = cur + 1 /\ errors' = errors
         ELSE errors' = errors \cup {151} /\ tokens' = tokens /\ cur' = cur
  BY DEF SpecStop, Runs
<1>2. Size \in Nat /\ TextOK /\ cur \in Nat /\ cur <= Size /\ Top = Spec_
  BY <1>1, TopFacts
<1>3. t \in Tokens /\ t.kind = "INTERPOLATION_END"
  BY <1>2, TokenType DEF Brackets
<1> HIDE DEF t
<1>4. CASE Ch(cur) = "rbrace"
  <2>1. cur < Size
    BY <1>2, <1>4, ChFacts
  <2>2. cur' \in cur .. Size /\ cur' > cur /\ buffer' \in 0 .. Size
    BY <1>1, <1>2, <1>4, <2>1
  <2> QED
    BY <1>1, <1>2, <1>3, <1>4, <2>2, StateFacts DEF Turn, EndsInterpolation, Gains
<1>5. CASE Ch(cur) # "rbrace"
  <2>1. cur' \in cur .. Size /\ buffer' \in 0 .. Size /\ cur' = cur /\ tokens' = tokens
        /\ errors' = errors \cup {151}
    BY <1>1, <1>2, <1>5
  <2> QED
    BY <1>1, <1>2, <2>1, StateFacts DEF Turn, LeavesOpen
<1> QED
  BY <1>4, <1>5

\* Every step of the lexer is a turn of one of these forms, the end of the file or the
\* failed assertion.
LEMMA NextTurn ==
  ASSUME Inv, Next, status = "lexing"
  PROVE  (Turn /\ Turns /\ status' = "lexing") \/ EndOfFile \/ Asserts
<1>1. status' = status \/ EndOfFile \/ Asserts
  BY DEF Next, TakeSymbol, TakePlain, Comment, Placeholder, BadPlaceholder, Metacode, MetacodeEnd, Textual, Close,
         BadClose, Interpolate, Escape, Character, Unterminated, InterpolationEnd, Colon, OpenExpression,
         SpecToken, SpecStop, Finished, vars, Begins, InLiteral, EndsExpression
<1>2. ~Finished
  BY DEF Finished
<1>3. CASE TakeSymbol \/ TakePlain \/ Comment \/ Placeholder \/ BadPlaceholder
  BY <1>1, <1>3, TakeSymbolTurn, TakePlainTurn, CommentTurn, PlaceholderTurn, BadPlaceholderTurn DEF Turns
<1>4. CASE Metacode \/ MetacodeEnd
  BY <1>1, <1>4, MetacodeTurn, MetacodeEndTurn DEF Turns
<1>5. CASE Textual \/ Close \/ BadClose \/ Unterminated
  BY <1>1, <1>5, TextualTurn, CloseTurn, BadCloseTurn DEF Turns
<1>6. CASE Interpolate \/ Escape \/ Character
  BY <1>1, <1>6, InterpolateTurn, EscapeTurn, CharacterTurn DEF Turns
<1>7. CASE InterpolationEnd \/ Colon \/ OpenExpression
  BY <1>1, <1>7, InterpolationEndTurn, ColonTurn, OpenExpressionTurn DEF Turns
<1>8. CASE SpecToken \/ SpecStop
  BY <1>1, <1>8, SpecTokenTurn, SpecStopTurn DEF Turns
<1> QED
  BY <1>2, <1>3, <1>4, <1>5, <1>6, <1>7, <1>8 DEF Next

\* Once the lexer has stopped nothing changes.
LEMMA StoppedStutters == Next /\ status # "lexing" => UNCHANGED vars
BY DEF Next, Asserts, TakeSymbol, TakePlain, Comment, Placeholder, BadPlaceholder, Metacode, MetacodeEnd,
       Textual, Close, BadClose, Interpolate, Escape, Character, Unterminated, InterpolationEnd, Colon,
       OpenExpression, SpecToken, SpecStop, EndOfFile, Finished, Begins, InLiteral, EndsExpression, Runs

------------------------------------------------------------------------------
(* The stack of loops.                                                     *)

\* The innermost loop goes on inside the one below it; only tokenize of the file has none.
LEMMA BelowFacts ==
  ASSUME Inv, Top # Tokenize({})
  PROVE  /\ Depth > 1 /\ Len(Below) = Depth - 1 /\ Below \in Seq(Loops) /\ Stacked(Below)
         /\ frames = Append(Below, Top)
         /\ Nested(Top, Below[Len(Below)])
         /\ \A i \in 1 .. Depth - 1 : Below[i] = frames[i]
<1>1. frames \in Seq(Loops) /\ Stacked(frames) /\ Depth \in Nat \ {0} /\ Depth = Len(frames)
  BY TopFacts DEF Inv, TypeOK, StackInv, Depth
<1>2. Depth > 1
  BY <1>1 DEF Stacked, Top
<1>3. Below \in Seq(Loops) /\ Len(Below) = Depth - 1 /\ \A i \in 1 .. Depth - 1 : Below[i] = frames[i]
  BY <1>1, <1>2 DEF Below
<1>4. Nested(Top, Below[Len(Below)])
  BY <1>1, <1>2, <1>3 DEF Stacked, Top
<1>5. frames = Append(Below, Top)
  <2>1. Top \in Loops
    BY TopFacts
  <2>2. Append(Below, Top) \in Seq(Loops) /\ Len(Append(Below, Top)) = Depth
    BY <1>1, <1>2, <1>3, <2>1
  <2>3. \A i \in 1 .. Depth : Append(Below, Top)[i] = frames[i]
    BY <1>1, <1>2, <1>3, <2>1 DEF Top
  <2> QED
    BY <1>1, <2>2, <2>3, SeqEqual
<1>6. Stacked(Below)
  <2>1. Below # <<>> /\ Below[1] = Tokenize({})
    BY <1>1, <1>2, <1>3 DEF Stacked
  <2>2. \A i \in 2 .. Len(Below) : Below[i] = frames[i] /\ Below[i - 1] = frames[i - 1] /\ i \in 2 .. Len(frames)
    BY <1>1, <1>2, <1>3
  <2> QED
    BY <1>1, <2>1, <2>2 DEF Stacked
<1> QED
  BY <1>2, <1>3, <1>4, <1>5, <1>6

LEMMA PushStacked ==
  ASSUME NEW s \in Seq(Loops), Stacked(s), NEW f \in Loops, Nested(f, s[Len(s)])
  PROVE  Append(s, f) \in Seq(Loops) /\ Stacked(Append(s, f))
<1>1. Len(s) \in Nat \ {0}
  BY EmptySeq DEF Stacked
<1>2. /\ Append(s, f) \in Seq(Loops) /\ Len(Append(s, f)) = Len(s) + 1
      /\ Append(s, f)[Len(s) + 1] = f /\ \A i \in 1 .. Len(s) : Append(s, f)[i] = s[i]
  OBVIOUS
<1>3. ASSUME NEW i \in 2 .. Len(s) + 1 PROVE Nested(Append(s, f)[i], Append(s, f)[i - 1])
  <2>1. CASE i = Len(s) + 1
    BY <1>1, <1>2, <2>1
  <2>2. CASE i # Len(s) + 1
    <3>1. i \in 2 .. Len(s) /\ Append(s, f)[i] = s[i] /\ Append(s, f)[i - 1] = s[i - 1]
      BY <1>1, <1>2, <2>2
    <3> QED
      BY <3>1 DEF Stacked
  <2> QED
    BY <2>1, <2>2
<1>4. Append(s, f) # <<>> /\ Append(s, f)[1] = Tokenize({})
  BY <1>1, <1>2 DEF Stacked
<1> QED
  BY <1>2, <1>3, <1>4 DEF Stacked

\* The loops differ: what may be inside what depends on it.
LEMMA LoopsDiffer ==
  /\ Tokenize({}) # Tokenize(Instruction) /\ Tokenize({}) # Tokenize(Expression)
  /\ Tokenize(Instruction) # Tokenize(Expression)
  /\ \A e : Tokenize(e) # Spec_ /\ Tokenize(e) \notin Literals
  /\ Spec_ \notin Literals
BY LoopFacts

\* What a turn does to the stack.
LEMMA StackTurn ==
  ASSUME Inv, Turns
  PROVE  frames' \in Seq(Loops) /\ Stacked(frames')
<1>1. frames \in Seq(Loops) /\ Stacked(frames) /\ Top \in Loops /\ Depth \in Nat \ {0} /\ Top = frames[Len(frames)]
  BY TopFacts DEF Inv, TypeOK, StackInv, Depth, Top
<1>2. CASE frames' = frames
  BY <1>1, <1>2
<1>3. ASSUME NEW f \in Loops, frames' = Append(frames, f), Nested(f, Top)
      PROVE  frames' \in Seq(Loops) /\ Stacked(frames')
  BY <1>1, <1>3, PushStacked
<1>4. CASE frames' = Below /\ Top # Tokenize({})
  BY <1>4, BelowFacts
<1>5. CASE OpensLiteral
  BY <1>3, <1>5 DEF OpensLiteral, Nested, Loops
<1>6. CASE OpensInstruction
  BY <1>3, <1>6 DEF OpensInstruction, Nested, Loops
<1>7. CASE OpensInterpolation
  BY <1>3, <1>7 DEF OpensInterpolation, Nested, Loops
<1>8. CASE Specifies
  <2>1. Top = Tokenize(Expression) /\ frames' = Append(Below, Spec_) /\ Spec_ \in Loops
    BY <1>8 DEF Specifies, Loops
  <2>2. Below \in Seq(Loops) /\ Stacked(Below) /\ Nested(Top, Below[Len(Below)])
    BY <2>1, BelowFacts, LoopsDiffer
  <2>3. Nested(Spec_, Below[Len(Below)])
    BY <2>1, <2>2, LoopsDiffer DEF Nested
  <2> QED
    BY <2>1, <2>2, <2>3, PushStacked
<1>9. CASE Stays \/ NextInstruction
  BY <1>2, <1>9 DEF Stays, NextInstruction
<1>10. CASE EndsLiteral \/ EndsInstruction \/ EndsInterpolation \/ LeavesOpen
  BY <1>4, <1>10, LoopsDiffer DEF EndsLiteral, EndsInstruction, EndsInterpolation, LeavesOpen
<1> QED
  BY <1>5, <1>6, <1>7, <1>8, <1>9, <1>10 DEF Turns

LEMMA GrowsFacts ==
  ASSUME NEW kinds, tokens \in Seq(Tokens), Grows(kinds)
  PROVE  tokens' \in Seq(Tokens)
BY DEF Grows

\* A turn adds at most two tokens, of the kinds its form allows.
LEMMA TokensTurn ==
  ASSUME Inv, Turns
  PROVE  tokens' \in Seq(Tokens)
<1>1. tokens \in Seq(Tokens)
  BY StateFacts
<1>2. CASE Stays \/ EndsLiteral \/ OpensLiteral \/ LeavesOpen
  BY <1>1, <1>2, GrowsFacts DEF Stays, EndsLiteral, OpensLiteral, LeavesOpen
<1>3. CASE OpensInstruction \/ EndsInstruction \/ EndsInterpolation \/ Specifies
  BY <1>1, <1>3 DEF OpensInstruction, EndsInstruction, EndsInterpolation, Specifies, Gains
<1>4. CASE NextInstruction \/ OpensInterpolation
  BY <1>1, <1>4 DEF NextInstruction, OpensInterpolation, GainsTwo
<1> QED
  BY <1>2, <1>3, <1>4 DEF Turns

LEMMA InitInv == Init => Inv
<1> SUFFICES ASSUME Init PROVE Inv
  OBVIOUS
<1>1. text \in Seq(Chars) /\ text # <<>> /\ lastOp \in {None} \cup Nat
  BY SessionsAssumption DEF Init
<1>2. Size \in Nat
  BY <1>1, ChFacts DEF TextOK
<1>3. /\ cur = 0 /\ buffer = 0 /\ tokens = <<>> /\ frames = <<Tokenize({})>> /\ errors = {} /\ status = "lexing"
  BY DEF Init
<1>4. frames \in Seq(Loops) /\ Len(frames) = 1 /\ frames[1] = Tokenize({}) /\ frames # <<>>
  <2>1. Tokenize({}) \in Loops
    BY DEF Loops
  <2> QED
    BY <1>3, <2>1
<1>5. StackInv
  <2>1. 2 .. Len(frames) = {}
    BY <1>4
  <2> QED
    BY <1>3, <1>4, <2>1 DEF StackInv, Stacked
<1>6. TypeOK
  BY <1>1, <1>2, <1>3, <1>4 DEF TypeOK, TextOK
<1> QED
  BY <1>5, <1>6 DEF Inv

\* The file ends in its own loop, at the end of the text.
LEMMA EndOfFileFacts ==
  ASSUME Inv, EndOfFile
  PROVE  /\ Depth = 1 /\ Top = Tokenize({}) /\ cur = Size /\ status = "lexing" /\ status' = "done"
         /\ text' = text /\ cur' = cur /\ buffer' = buffer /\ frames' = frames /\ errors' = errors /\ lastOp' = lastOp
         /\ Gains("END_OF_FILE")
<1>1. /\ status = "lexing" /\ Top.fn = "tokenize" /\ Top.exits = {} /\ Stops
      /\ tokens' = Append(tokens, Token("END_OF_FILE", buffer, cur)) /\ status' = "done"
      /\ text' = text /\ cur' = cur /\ buffer' = buffer /\ frames' = frames /\ errors' = errors /\ lastOp' = lastOp
  BY DEF EndOfFile, Runs
<1>2. Top = Tokenize({}) /\ cur \in Nat /\ buffer \in Nat
  BY <1>1, TopFacts, StateFacts
<1>3. cur = Size
  BY <1>1 DEF Stops
<1>4. Depth = 1
  <2>1. frames \in Seq(Loops) /\ Stacked(frames) /\ Depth \in Nat \ {0} /\ Depth = Len(frames)
    BY TopFacts DEF Inv, TypeOK, StackInv, Depth
  <2>2. ASSUME Depth > 1 PROVE FALSE
    <3>1. Nested(Tokenize({}), frames[Depth - 1])
      BY <1>2, <2>1, <2>2 DEF Stacked, Top
    <3> QED
      BY <3>1, LoopsDiffer DEF Nested
  <2> QED
    BY <2>1, <2>2
<1>5. Token("END_OF_FILE", buffer, cur) \in Tokens /\ Token("END_OF_FILE", buffer, cur).kind = "END_OF_FILE"
  BY <1>2, TokenType
<1> QED
  BY <1>1, <1>2, <1>3, <1>4, <1>5 DEF Gains

LEMMA NextInv == Inv /\ [Next]_vars => Inv'
<1> SUFFICES ASSUME Inv, [Next]_vars PROVE Inv'
  OBVIOUS
<1>0. TypeOK /\ StackInv
  BY DEF Inv
<1>1. CASE UNCHANGED vars
  BY <1>0, <1>1 DEF Inv, TypeOK, TextOK, StackInv, Stacked, Size, vars
<1>2. CASE Next /\ status # "lexing"
  <2>1. UNCHANGED vars
    BY <1>2, StoppedStutters
  <2> QED
    BY <1>1, <2>1
<1>3. CASE Turn /\ Turns /\ status' = "lexing"
  <2>1. frames' \in Seq(Loops) /\ Stacked(frames') /\ tokens' \in Seq(Tokens)
    BY <1>3, StackTurn, TokensTurn
  <2>2. /\ text' = text /\ cur' \in cur .. Size /\ buffer' \in 0 .. Size /\ lastOp' \in {None} \cup Nat
        /\ errors' \subseteq {0, 2, 6, 151, 229}
    BY <1>3 DEF Turn
  <2>3. Size' = Size /\ TextOK' /\ cur' \in 0 .. Size
    BY <2>2, TopFacts DEF Size, TextOK
  <2>4. TypeOK'
    BY <1>3, <2>1, <2>2, <2>3 DEF TypeOK
  <2>5. Stacked(frames)'
    BY <2>1 DEF Stacked
  <2>6. StackInv'
    BY <1>3, <2>5 DEF StackInv
  <2> QED
    BY <2>4, <2>6 DEF Inv
<1>4. CASE EndOfFile
  <2>1. /\ Len(frames) = 1 /\ cur = Size /\ status' = "done"
        /\ text' = text /\ cur' = cur /\ buffer' = buffer /\ frames' = frames /\ errors' = errors /\ lastOp' = lastOp
        /\ tokens' \in Seq(Tokens)
    BY <1>0, <1>4, EndOfFileFacts DEF Gains, TypeOK, Depth
  <2> QED
    BY <1>0, <2>1 DEF Inv, TypeOK, TextOK, StackInv, Stacked, Size
<1>5. CASE Asserts
  <2>1. status' = "crash" /\ UNCHANGED <<text, cur, buffer, tokens, frames, errors, lastOp>>
    BY <1>5 DEF Asserts
  <2> QED
    BY <1>0, <2>1 DEF Inv, TypeOK, TextOK, StackInv, Stacked, Size
<1> QED
  BY <1>1, <1>2, <1>3, <1>4, <1>5, NextTurn

\* For every text the positions stay inside it, the tokens are of the known kinds, and
\* the loops of the lexer are nested the way the recursive calls of tokenize and
\* tokenize_literal nest them.
THEOREM TypeCorrect == Spec => []Inv
<1>1. Init => Inv
  BY InitInv
<1>2. Inv /\ [Next]_vars => Inv'
  BY NextInv
<1> QED
  BY <1>1, <1>2, PTL DEF Spec

\* Every turn of every loop advances the cursor or leaves the loop, on every text: the
\* lexer stays nowhere.
THEOREM LexerAdvances == Spec => Advances
<1> DEFINE Forward == cur' > cur \/ (cur' = cur /\ (status' # status \/ Len(frames') < Len(frames)))
<1>1. Inv /\ [Next]_vars => [Forward]_vars
  <2> SUFFICES ASSUME Inv, Next, ~UNCHANGED vars PROVE Forward
    OBVIOUS
  <2>1. status = "lexing"
    BY StoppedStutters
  <2>2. CASE EndOfFile \/ Asserts
    BY <2>1, <2>2 DEF EndOfFile, Asserts
  <2>3. CASE Turn /\ Turns
    <3>1. cur' \in Nat /\ cur' >= cur /\ cur \in Nat
      BY <2>3, TopFacts DEF Turn
    <3>2. CASE frames' = Below /\ Top # Tokenize({})
      <4>1. Len(Below) < Len(frames)
        BY <3>2, BelowFacts DEF Depth
      <4> QED
        BY <3>1, <3>2, <4>1
    <3>3. \/ cur' > cur
          \/ frames' = Below /\ Top # Tokenize({})
      BY <2>3, LoopsDiffer DEF Turns, Stays, OpensLiteral, EndsLiteral, OpensInstruction, NextInstruction,
             EndsInstruction, OpensInterpolation, EndsInterpolation, Specifies, LeavesOpen
    <3> QED
      BY <3>2, <3>3
  <2> QED
    BY <2>1, <2>2, <2>3, NextTurn
<1>2. Spec => []Inv
  BY TypeCorrect
<1> QED
  BY <1>1, <1>2, PTL DEF Spec, Advances

------------------------------------------------------------------------------
(* Counting in a sequence that grows at its end.                           *)

\* How many of the first n elements of s are in K.
Hits(s, K, n) == Cardinality({i \in 1 .. n : s[i] \in K})

LEMMA HitsAppend ==
  ASSUME NEW S, NEW s \in Seq(S), NEW x \in S, NEW K
  PROVE  /\ \A n \in 0 .. Len(s) : Hits(Append(s, x), K, n) = Hits(s, K, n) /\ Hits(s, K, n) \in Nat
         /\ Hits(Append(s, x), K, Len(Append(s, x))) = Hits(s, K, Len(s)) + (IF x \in K THEN 1 ELSE 0)
<1> DEFINE r == Append(s, x)
           A(n) == {i \in 1 .. n : s[i] \in K}
           B(n) == {i \in 1 .. n : r[i] \in K}
<1>1. /\ Len(s) \in Nat /\ Len(r) = Len(s) + 1 /\ r[Len(s) + 1] = x
      /\ \A i \in 1 .. Len(s) : r[i] = s[i]
  OBVIOUS
<1> HIDE DEF r
<1>2. ASSUME NEW n \in 0 .. Len(s)
      PROVE  B(n) = A(n) /\ IsFiniteSet(A(n)) /\ Cardinality(A(n)) \in Nat
  <2>1. B(n) = A(n)
    BY <1>1
  <2>2. IsFiniteSet(1 .. n) /\ A(n) \in SUBSET (1 .. n)
    BY <1>1, FS_Interval
  <2>3. IsFiniteSet(A(n))
    BY <2>2, FS_Subset
  <2> QED
    BY <2>1, <2>3, FS_CardinalityType
<1>3. Len(s) \in 0 .. Len(s) /\ Len(s) + 1 \notin A(Len(s))
  BY <1>1
<1>4. B(Len(s) + 1) = IF x \in K THEN A(Len(s)) \cup {Len(s) + 1} ELSE A(Len(s))
  <2>1. 1 .. Len(s) + 1 = (1 .. Len(s)) \cup {Len(s) + 1}
    BY <1>1
  <2> QED
    BY <1>1, <2>1
<1>5. /\ \A n \in 0 .. Len(s) : Hits(r, K, n) = Cardinality(B(n)) /\ Hits(s, K, n) = Cardinality(A(n))
      /\ Hits(r, K, Len(s) + 1) = Cardinality(B(Len(s) + 1))
  BY DEF Hits
<1> HIDE DEF A, B
<1>6. Cardinality(B(Len(s) + 1)) = Cardinality(A(Len(s))) + (IF x \in K THEN 1 ELSE 0)
  <2>1. IsFiniteSet(A(Len(s))) /\ Cardinality(A(Len(s))) \in Nat
    BY <1>2, <1>3
  <2>2. CASE x \in K
    BY <1>3, <1>4, <2>1, <2>2, FS_AddElement
  <2>3. CASE x \notin K
    BY <1>4, <2>1, <2>3
  <2> QED
    BY <2>2, <2>3
<1> QED
  BY <1>1, <1>2, <1>3, <1>5, <1>6 DEF r

\* The tokens of a kind, and how far the first n tokens open more than they close.
LEMMA HitsType ==
  ASSUME NEW s, NEW K, NEW n \in Nat
  PROVE  Hits(s, K, n) \in Nat
<1> DEFINE A == {i \in 1 .. n : s[i] \in K}
<1>1. IsFiniteSet(1 .. n) /\ A \subseteq 1 .. n
  BY FS_Interval
<1>2. IsFiniteSet(A)
  BY <1>1, FS_Subset
<1> QED
  BY <1>2, FS_CardinalityType DEF Hits

Of(kind) == {t \in Tokens : t.kind = kind}
Balance(s, up, down, n) == Hits(s, Of(up), n) - Hits(s, Of(down), n)
Within(s, up, down, L) == \A n \in 0 .. Len(s) : Balance(s, up, down, n) \in L
Weight(kind, up, down) == IF kind = up THEN 1 ELSE IF kind = down THEN -1 ELSE 0

LEMMA BalanceAppend ==
  ASSUME NEW s \in Seq(Tokens), NEW t \in Tokens, NEW up, NEW down, up # down
  PROVE  LET r == Append(s, t)
             level == Balance(s, up, down, Len(s)) + Weight(t.kind, up, down)
         IN  /\ Balance(s, up, down, Len(s)) \in Int /\ Balance(r, up, down, Len(r)) = level
             /\ \A L : Within(s, up, down, L) /\ level \in L => Within(r, up, down, L)
<1> DEFINE r == Append(s, t)
           level == Balance(s, up, down, Len(s)) + Weight(t.kind, up, down)
<1>1. /\ \A n \in 0 .. Len(s) : Hits(r, Of(up), n) = Hits(s, Of(up), n) /\ Hits(s, Of(up), n) \in Nat
      /\ Hits(r, Of(up), Len(r)) = Hits(s, Of(up), Len(s)) + (IF t \in Of(up) THEN 1 ELSE 0)
  BY HitsAppend
<1>2. /\ \A n \in 0 .. Len(s) : Hits(r, Of(down), n) = Hits(s, Of(down), n) /\ Hits(s, Of(down), n) \in Nat
      /\ Hits(r, Of(down), Len(r)) = Hits(s, Of(down), Len(s)) + (IF t \in Of(down) THEN 1 ELSE 0)
  BY HitsAppend
<1>3. (t \in Of(up) <=> t.kind = up) /\ (t \in Of(down) <=> t.kind = down)
  BY DEF Of
<1>4. Len(s) \in Nat /\ Len(r) = Len(s) + 1 /\ Len(s) \in 0 .. Len(s)
  OBVIOUS
<1> HIDE DEF r
<1>5. Balance(s, up, down, Len(s)) \in Int /\ Balance(r, up, down, Len(r)) = level
  BY <1>1, <1>2, <1>3, <1>4 DEF Balance, Weight
<1> HIDE DEF level
<1>6. ASSUME NEW L, Within(s, up, down, L), level \in L PROVE Within(r, up, down, L)
  <2>1. ASSUME NEW n \in 0 .. Len(r) PROVE Balance(r, up, down, n) \in L
    <3>1. CASE n = Len(r)
      BY <1>5, <1>6, <3>1
    <3>2. CASE n # Len(r)
      <4>1. n \in 0 .. Len(s)
        BY <1>4, <3>2
      <4>2. Balance(r, up, down, n) = Balance(s, up, down, n)
        BY <1>1, <1>2, <4>1 DEF Balance
      <4> QED
        BY <1>6, <4>1, <4>2 DEF Within
    <3> QED
      BY <3>1, <3>2
  <2> QED
    BY <2>1 DEF Within
<1> QED
  BY <1>5, <1>6 DEF r, level

\* What the forms of a turn do to a balance: r stands for the tokens after it.
Shifts(r, up, down, d) ==
  LET level == Balance(tokens, up, down, Len(tokens)) + d
  IN  /\ Balance(r, up, down, Len(r)) = level
      /\ \A L : Within(tokens, up, down, L) /\ level \in L => Within(r, up, down, L)

LEMMA ShiftFacts ==
  ASSUME tokens \in Seq(Tokens), NEW up, NEW down, up # down
  PROVE  /\ Balance(tokens, up, down, Len(tokens)) \in Int
         /\ \A L : Within(tokens, up, down, L) => Balance(tokens, up, down, Len(tokens)) \in L
         /\ Shifts(tokens, up, down, 0)
<1>1. Len(tokens) \in 0 .. Len(tokens)
  OBVIOUS
<1>2. /\ \A n \in 0 .. Len(tokens) : Hits(tokens, Of(up), n) \in Nat
      /\ \A n \in 0 .. Len(tokens) : Hits(tokens, Of(down), n) \in Nat
  <2>1. \A n \in 0 .. Len(tokens) : n \in Nat
    BY <1>1
  <2> QED
    BY <2>1, HitsType
<1>3. Balance(tokens, up, down, Len(tokens)) \in Int
  BY <1>1, <1>2 DEF Balance
<1> QED
  BY <1>1, <1>3 DEF Shifts, Within

LEMMA GainsShifts ==
  ASSUME tokens \in Seq(Tokens), NEW kind, Gains(kind), NEW up, NEW down, up # down,
         NEW r, r = tokens'
  PROVE  Shifts(r, up, down, Weight(kind, up, down))
<1>1. PICK t \in Tokens : t.kind = kind /\ r = Append(tokens, t)
  BY DEF Gains
<1> QED
  BY <1>1, BalanceAppend DEF Shifts

LEMMA GainsTwoShifts ==
  ASSUME tokens \in Seq(Tokens), NEW kind, NEW other, GainsTwo(kind, other), NEW up, NEW down, up # down,
         NEW r, r = tokens'
  PROVE  LET level == Balance(tokens, up, down, Len(tokens)) + Weight(kind, up, down)
         IN  /\ Balance(r, up, down, Len(r)) = level + Weight(other, up, down)
             /\ \A L : Within(tokens, up, down, L) /\ level \in L /\ level + Weight(other, up, down) \in L
                         => Within(r, up, down, L)
<1>1. PICK t \in Tokens, u \in Tokens : t.kind = kind /\ u.kind = other /\ r = Append(Append(tokens, t), u)
  BY DEF GainsTwo
<1> DEFINE s == Append(tokens, t)
<1>2. s \in Seq(Tokens) /\ r = Append(s, u)
  BY <1>1
<1>3. /\ Balance(s, up, down, Len(s)) = Balance(tokens, up, down, Len(tokens)) + Weight(kind, up, down)
      /\ \A L : Within(tokens, up, down, L)
                  /\ Balance(tokens, up, down, Len(tokens)) + Weight(kind, up, down) \in L => Within(s, up, down, L)
  BY <1>1, BalanceAppend
<1> HIDE DEF s
<1>4. /\ Balance(r, up, down, Len(r)) = Balance(s, up, down, Len(s)) + Weight(other, up, down)
      /\ \A L : Within(s, up, down, L)
                  /\ Balance(s, up, down, Len(s)) + Weight(other, up, down) \in L => Within(r, up, down, L)
  BY <1>1, <1>2, BalanceAppend
<1> QED
  BY <1>3, <1>4

LEMMA GrowsShifts ==
  ASSUME tokens \in Seq(Tokens), NEW kinds, Grows(kinds), NEW up, NEW down, up # down,
         up \notin kinds, down \notin kinds, NEW r, r = tokens'
  PROVE  Shifts(r, up, down, 0)
<1>0. \A k \in kinds : Weight(k, up, down) = 0
  BY DEF Weight
<1>1. CASE r = tokens
  BY <1>1, ShiftFacts
<1>2. ASSUME NEW t \in Tokens, t.kind \in kinds, r = Append(tokens, t)
      PROVE  Shifts(r, up, down, 0)
  BY <1>0, <1>2, GainsShifts DEF Gains
<1>3. ASSUME NEW t \in Tokens, NEW u \in Tokens, t.kind \in kinds, u.kind \in kinds,
             r = Append(Append(tokens, t), u)
      PROVE  Shifts(r, up, down, 0)
  <2>1. GainsTwo(t.kind, u.kind)
    BY <1>3 DEF GainsTwo
  <2>2. Weight(t.kind, up, down) = 0 /\ Weight(u.kind, up, down) = 0
    BY <1>0, <1>3
  <2>3. Balance(tokens, up, down, Len(tokens)) \in Int
    BY ShiftFacts
  <2> DEFINE level == Balance(tokens, up, down, Len(tokens)) + Weight(t.kind, up, down)
  <2>4. /\ Balance(r, up, down, Len(r)) = level + Weight(u.kind, up, down)
        /\ \A L : Within(tokens, up, down, L) /\ level \in L /\ level + Weight(u.kind, up, down) \in L
                    => Within(r, up, down, L)
    BY <2>1, GainsTwoShifts
  <2>5. /\ level + Weight(u.kind, up, down) = Balance(tokens, up, down, Len(tokens)) + 0
        /\ level = Balance(tokens, up, down, Len(tokens)) + 0
    BY <2>2, <2>3
  <2> HIDE DEF level
  <2> QED
    BY <2>4, <2>5 DEF Shifts
<1> QED
  BY <1>1, <1>2, <1>3 DEF Grows

\* How many of the running loops are in F changes with the stack.
LEMMA StackHits ==
  ASSUME Inv, NEW F
  PROVE  /\ Hits(frames, F, Depth) \in Nat
         /\ \A f \in Loops : \A r : r = Append(frames, f) => Hits(r, F, Len(r)) = Hits(frames, F, Depth) + (IF f \in F THEN 1 ELSE 0)
         /\ Top # Tokenize({}) =>
              /\ Hits(Below, F, Len(Below)) \in Nat
              /\ Hits(frames, F, Depth) = Hits(Below, F, Len(Below)) + (IF Top \in F THEN 1 ELSE 0)
<1>1. frames \in Seq(Loops) /\ Depth = Len(frames) /\ Depth \in 0 .. Len(frames) /\ Top \in Loops
  BY TopFacts, StateFacts DEF Depth
<1>2. Hits(frames, F, Depth) \in Nat
  BY <1>1, HitsAppend
<1>3. ASSUME NEW f \in Loops, NEW r, r = Append(frames, f)
      PROVE  Hits(r, F, Len(r)) = Hits(frames, F, Depth) + (IF f \in F THEN 1 ELSE 0)
  BY <1>1, <1>3, HitsAppend
<1>4. ASSUME Top # Tokenize({})
      PROVE  /\ Hits(Below, F, Len(Below)) \in Nat
             /\ Hits(frames, F, Depth) = Hits(Below, F, Len(Below)) + (IF Top \in F THEN 1 ELSE 0)
  <2>1. Below \in Seq(Loops) /\ frames = Append(Below, Top)
    BY <1>4, BelowFacts
  <2> DEFINE b == Below
             t == Top
             w == frames
  <2>2. b \in Seq(Loops) /\ t \in Loops /\ w = Append(b, t) /\ Len(b) \in 0 .. Len(b)
    BY <1>1, <2>1
  <2> HIDE DEF b, t, w
  <2>3. Hits(b, F, Len(b)) \in Nat /\ Hits(w, F, Len(w)) = Hits(b, F, Len(b)) + (IF t \in F THEN 1 ELSE 0)
    BY <2>2, HitsAppend
  <2> QED
    BY <1>1, <2>3 DEF b, t, w
<1> QED
  BY <1>2, <1>3, <1>4

\* A turn leaves the tokens before it alone and adds none that ends a file.
LEMMA AddsFacts ==
  ASSUME Inv, Turns, NEW r, r = tokens'
  PROVE  /\ Len(tokens) \in Nat /\ Len(r) \in Nat /\ Len(tokens) <= Len(r)
         /\ \A i \in 1 .. Len(tokens) : r[i] = tokens[i]
         /\ \A i \in 1 .. Len(r) : i > Len(tokens) => r[i].kind \in Ordinary \cup Brackets
<1>1. tokens \in Seq(Tokens)
  BY StateFacts
<1> DEFINE Adds == /\ Len(tokens) \in Nat /\ Len(r) \in Nat /\ Len(tokens) <= Len(r)
                   /\ \A i \in 1 .. Len(tokens) : r[i] = tokens[i]
                   /\ \A i \in 1 .. Len(r) : i > Len(tokens) => r[i].kind \in Ordinary \cup Brackets
<1>2. r = tokens => Adds
  BY <1>1
<1>3. ASSUME NEW t \in Tokens, t.kind \in Ordinary \cup Brackets, r = Append(tokens, t)
      PROVE  Adds
  BY <1>1, <1>3
<1>4. ASSUME NEW t \in Tokens, NEW u \in Tokens, t.kind \in Ordinary \cup Brackets, u.kind \in Ordinary \cup Brackets,
             r = Append(Append(tokens, t), u)
      PROVE  Adds
  <2> DEFINE w == Append(tokens, t)
  <2>1. /\ w \in Seq(Tokens) /\ Len(w) = Len(tokens) + 1 /\ w[Len(tokens) + 1] = t /\ Len(tokens) \in Nat
        /\ \A i \in 1 .. Len(tokens) : w[i] = tokens[i]
    BY <1>1
  <2> HIDE DEF w
  <2>2. /\ Len(r) = Len(w) + 1 /\ r[Len(w) + 1] = u
        /\ \A i \in 1 .. Len(w) : r[i] = w[i]
    BY <1>4, <2>1 DEF w
  <2>3. \A i \in 1 .. Len(r) : i > Len(tokens) => i = Len(tokens) + 1 \/ i = Len(w) + 1
    BY <2>1, <2>2
  <2> QED
    BY <1>4, <2>1, <2>2, <2>3
<1> SUFFICES Adds
  OBVIOUS
<1> HIDE DEF Adds
<1>5. Grows(Ordinary) => Adds
  BY <1>2, <1>3, <1>4 DEF Grows
<1>6. \A k \in Ordinary \cup Brackets : Gains(k) => Adds
  BY <1>3 DEF Gains
<1>7. \A j \in Ordinary \cup Brackets, k \in Ordinary \cup Brackets : GainsTwo(j, k) => Adds
  BY <1>4 DEF GainsTwo
<1>8. {"METACODE", "METACODE_END", "INTERPOLATION_START", "INTERPOLATION_END", "COLON", "L_TEXTUAL"}
        \subseteq Ordinary \cup Brackets
  BY DEF Ordinary, Brackets
<1>9. CASE Stays \/ EndsLiteral \/ OpensLiteral \/ LeavesOpen
  BY <1>2, <1>5, <1>9 DEF Stays, EndsLiteral, OpensLiteral, LeavesOpen
<1>10. CASE OpensInstruction \/ EndsInstruction \/ EndsInterpolation \/ Specifies
  BY <1>6, <1>8, <1>10 DEF OpensInstruction, EndsInstruction, EndsInterpolation, Specifies
<1>11. CASE NextInstruction \/ OpensInterpolation
  BY <1>7, <1>8, <1>11 DEF NextInstruction, OpensInterpolation
<1>12. Adds
  BY <1>9, <1>10, <1>11 DEF Turns
<1> QED
  BY <1>12 DEF Adds

------------------------------------------------------------------------------
(* The end of file is the last token, and no other.                        *)

FileEnds ==
  /\ \A i \in 1 .. Len(tokens) : tokens[i].kind = "END_OF_FILE" => status = "done" /\ i = Len(tokens)
  /\ status = "done" => tokens # <<>> /\ tokens[Len(tokens)].kind = "END_OF_FILE"

\* What a step does that is no turn.
LEMMA OtherSteps ==
  ASSUME Inv, [Next]_vars
  PROVE  \/ Turn /\ Turns /\ status = "lexing" /\ status' = "lexing"
         \/ EndOfFile
         \/ /\ text' = text /\ cur' = cur /\ tokens' = tokens /\ frames' = frames /\ errors' = errors
            /\ status' = status \/ (status = "lexing" /\ status' = "crash")
<1>1. CASE UNCHANGED vars
  BY <1>1 DEF vars
<1>2. CASE Asserts
  BY <1>2 DEF Asserts, Runs
<1>3. CASE Next /\ status # "lexing"
  <2>1. UNCHANGED vars
    BY <1>3, StoppedStutters
  <2> QED
    BY <1>1, <2>1
<1>4. CASE Next /\ status = "lexing"
  BY <1>2, <1>4, NextTurn
<1> QED
  BY <1>1, <1>3, <1>4

LEMMA NextFileEnds == Inv /\ FileEnds /\ [Next]_vars => FileEnds'
<1> SUFFICES ASSUME Inv, FileEnds, [Next]_vars PROVE FileEnds'
  OBVIOUS
<1>1. PICK r : r = tokens'
  OBVIOUS
<1>0. tokens \in Seq(Tokens)
  BY StateFacts
<1>2. CASE Turns /\ status = "lexing" /\ status' = "lexing"
  <2>1. "END_OF_FILE" \notin Ordinary \cup Brackets
    BY DEF Ordinary, Brackets
  <2>2. \A i \in 1 .. Len(r) : r[i].kind # "END_OF_FILE"
    <3> TAKE i \in 1 .. Len(r)
    <3>1. CASE i > Len(tokens)
      BY <1>1, <1>2, <2>1, <3>1, AddsFacts
    <3>2. CASE ~(i > Len(tokens))
      <4>1. i \in 1 .. Len(tokens) /\ r[i] = tokens[i]
        BY <1>1, <1>2, <3>2, AddsFacts
      <4> QED
        BY <1>2, <4>1 DEF FileEnds
    <3> QED
      BY <3>1, <3>2
  <2> QED
    BY <1>1, <1>2, <2>2 DEF FileEnds
<1>3. CASE EndOfFile
  <2>1. status = "lexing" /\ status' = "done" /\ Gains("END_OF_FILE")
    BY <1>3, EndOfFileFacts
  <2>2. PICK t \in Tokens : t.kind = "END_OF_FILE" /\ r = Append(tokens, t)
    BY <1>1, <2>1 DEF Gains
  <2>3. /\ Len(r) = Len(tokens) + 1 /\ r[Len(r)] = t /\ Len(tokens) \in Nat
        /\ \A i \in 1 .. Len(tokens) : r[i] = tokens[i]
    BY <1>0, <2>2
  <2>4. \A i \in 1 .. Len(r) : r[i].kind = "END_OF_FILE" => i = Len(r)
    BY <2>1, <2>3 DEF FileEnds
  <2>5. r # <<>> /\ r[Len(r)].kind = "END_OF_FILE"
    BY <2>2, <2>3
  <2> QED
    BY <1>1, <2>1, <2>4, <2>5 DEF FileEnds
<1>4. CASE tokens' = tokens /\ (status' = status \/ (status = "lexing" /\ status' = "crash"))
  BY <1>4 DEF FileEnds
<1> QED
  BY <1>2, <1>3, <1>4, OtherSteps

------------------------------------------------------------------------------
(* Instructions.                                                           *)

Instructions == {Tokenize(Instruction)}
Interpolations == {Tokenize(Expression), Spec_}

\* As many instructions are open as loops of one run, and without an interpolation no
\* loop of an instruction runs inside another.
InstructionInv ==
  /\ Balance(tokens, "METACODE", "METACODE_END", Len(tokens)) = Hits(frames, Instructions, Depth)
  /\ Within(tokens, "METACODE", "METACODE_END", Nat)
  /\ (\A i \in 1 .. Len(tokens) : tokens[i].kind # "INTERPOLATION_START") =>
       /\ \A i \in 1 .. Depth : frames[i] \notin Interpolations
       /\ Within(tokens, "METACODE", "METACODE_END", {0, 1})

LEMMA KindFacts ==
  /\ \A k \in {"METACODE", "METACODE_END", "INTERPOLATION_START", "INTERPOLATION_END"} : k \notin Ordinary
  /\ "METACODE" # "METACODE_END" /\ "INTERPOLATION_START" # "INTERPOLATION_END"
BY DEF Ordinary

\* Only the loop of the file has none below it.
LEMMA OuterFacts ==
  ASSUME Inv, Top = Tokenize({})
  PROVE  Depth = 1 /\ \A F : Tokenize({}) \notin F => Hits(frames, F, Depth) = 0
<1>1. frames \in Seq(Loops) /\ Stacked(frames) /\ Depth \in Nat \ {0} /\ Depth = Len(frames)
  BY TopFacts DEF Inv, TypeOK, StackInv, Depth
<1>2. ASSUME Depth > 1 PROVE FALSE
  <2>1. Nested(Tokenize({}), frames[Depth - 1])
    BY <1>1, <1>2 DEF Stacked, Top
  <2> QED
    BY <2>1, LoopsDiffer DEF Nested
<1>3. Depth = 1
  BY <1>1, <1>2
<1>4. ASSUME NEW F, Tokenize({}) \notin F PROVE Hits(frames, F, Depth) = 0
  <2>1. {i \in 1 .. Depth : frames[i] \in F} = {}
    BY <1>1, <1>3, <1>4 DEF Stacked
  <2> QED
    BY <2>1, FS_EmptySet DEF Hits
<1> QED
  BY <1>3, <1>4

\* A turn that neither opens nor closes an instruction.
LEMMA QuietTurn ==
  ASSUME Inv, InstructionInv, Turns, NEW r, r = tokens', NEW w, w = frames',
         Shifts(r, "METACODE", "METACODE_END", 0),
         Hits(w, Instructions, Len(w)) = Hits(frames, Instructions, Depth),
         (\A i \in 1 .. Len(r) : r[i].kind # "INTERPOLATION_START")
           /\ (\A i \in 1 .. Depth : frames[i] \notin Interpolations)
           => \A i \in 1 .. Len(w) : w[i] \notin Interpolations
  PROVE  InstructionInv'
<1>1. Balance(tokens, "METACODE", "METACODE_END", Len(tokens)) \in Int
  BY ShiftFacts, StateFacts
<1>2. \A L : Within(tokens, "METACODE", "METACODE_END", L) => Balance(tokens, "METACODE", "METACODE_END", Len(tokens)) \in L
  BY ShiftFacts, StateFacts
<1>3. /\ Balance(r, "METACODE", "METACODE_END", Len(r)) = Balance(tokens, "METACODE", "METACODE_END", Len(tokens))
      /\ \A L : Within(tokens, "METACODE", "METACODE_END", L) => Within(r, "METACODE", "METACODE_END", L)
  BY <1>1, <1>2 DEF Shifts
<1>4. (\A i \in 1 .. Len(r) : r[i].kind # "INTERPOLATION_START")
        => \A i \in 1 .. Len(tokens) : tokens[i].kind # "INTERPOLATION_START"
  BY AddsFacts
<1>5. /\ Balance(r, "METACODE", "METACODE_END", Len(r)) = Hits(w, Instructions, Len(w))
      /\ Within(r, "METACODE", "METACODE_END", Nat)
  BY <1>3 DEF InstructionInv
<1>6. ASSUME \A i \in 1 .. Len(r) : r[i].kind # "INTERPOLATION_START"
      PROVE  /\ \A i \in 1 .. Len(w) : w[i] \notin Interpolations
             /\ Within(r, "METACODE", "METACODE_END", {0, 1})
  BY <1>3, <1>4, <1>6 DEF InstructionInv
<1> QED
  BY <1>5, <1>6 DEF InstructionInv, Depth

\* No loop of an interpolation is added to the stack.
LEMMA PopsFacts ==
  ASSUME Inv, Top # Tokenize({}), NEW w, w = Below
  PROVE  /\ (\A i \in 1 .. Depth : frames[i] \notin Interpolations) => \A i \in 1 .. Len(w) : w[i] \notin Interpolations
         /\ Top \notin Instructions => Hits(w, Instructions, Len(w)) = Hits(frames, Instructions, Depth)
         /\ Top \in Instructions => Hits(w, Instructions, Len(w)) = Hits(frames, Instructions, Depth) - 1
<1>1. Len(w) = Depth - 1 /\ \A i \in 1 .. Depth - 1 : w[i] = frames[i]
  BY BelowFacts
<1>2. Depth \in Nat
  BY TopFacts
<1>3. \A i \in 1 .. Len(w) : i \in 1 .. Depth /\ w[i] = frames[i]
  BY <1>1, <1>2
<1>4. /\ Hits(w, Instructions, Len(w)) \in Nat
      /\ Hits(frames, Instructions, Depth) = Hits(w, Instructions, Len(w)) + (IF Top \in Instructions THEN 1 ELSE 0)
  BY StackHits
<1>5. \A m, n \in Int : (m = n + 0 => n = m) /\ (m = n + 1 => n = m - 1)
  OBVIOUS
<1>6. /\ Top \notin Instructions => Hits(w, Instructions, Len(w)) = Hits(frames, Instructions, Depth)
      /\ Top \in Instructions => Hits(w, Instructions, Len(w)) = Hits(frames, Instructions, Depth) - 1
  <2>1. Hits(frames, Instructions, Depth) \in Nat
    BY StackHits
  <2> QED
    BY <1>4, <1>5, <2>1
<1> QED
  BY <1>3, <1>6

LEMMA PushesFacts ==
  ASSUME Inv, NEW f \in Loops, NEW w, w = Append(frames, f)
  PROVE  /\ f \notin Interpolations /\ (\A i \in 1 .. Depth : frames[i] \notin Interpolations)
              => \A i \in 1 .. Len(w) : w[i] \notin Interpolations
         /\ f \notin Instructions => Hits(w, Instructions, Len(w)) = Hits(frames, Instructions, Depth)
         /\ f \in Instructions => Hits(w, Instructions, Len(w)) = Hits(frames, Instructions, Depth) + 1
<1>1. frames \in Seq(Loops) /\ Depth = Len(frames)
  BY StateFacts DEF Depth
<1>2. \A i \in 1 .. Len(w) : (i \in 1 .. Depth /\ w[i] = frames[i]) \/ w[i] = f
  BY <1>1
<1>3. /\ Hits(frames, Instructions, Depth) \in Nat
      /\ Hits(w, Instructions, Len(w)) = Hits(frames, Instructions, Depth) + (IF f \in Instructions THEN 1 ELSE 0)
  BY StackHits
<1>4. \A n \in Nat : n + 0 = n
  OBVIOUS
<1> QED
  BY <1>2, <1>3, <1>4

LEMMA InstructionTurn == ASSUME Inv, InstructionInv, Turns PROVE InstructionInv'
<1>0. tokens \in Seq(Tokens) /\ frames \in Seq(Loops) /\ Depth = Len(frames)
  BY StateFacts DEF Depth
<1> PICK r : r = tokens'
  OBVIOUS
<1> PICK w : w = frames'
  OBVIOUS
<1> DEFINE B == Balance(tokens, "METACODE", "METACODE_END", Len(tokens))
           h == Hits(frames, Instructions, Depth)
<1>1. B = h /\ h \in Nat
  BY StackHits DEF InstructionInv
<1>2. Within(tokens, "METACODE", "METACODE_END", Nat)
  BY DEF InstructionInv
<1>3. (\A i \in 1 .. Len(r) : r[i].kind # "INTERPOLATION_START")
        => /\ \A i \in 1 .. Depth : frames[i] \notin Interpolations
           /\ Within(tokens, "METACODE", "METACODE_END", {0, 1}) /\ B \in {0, 1}
  <2>1. (\A i \in 1 .. Len(r) : r[i].kind # "INTERPOLATION_START")
          => \A i \in 1 .. Len(tokens) : tokens[i].kind # "INTERPOLATION_START"
    BY AddsFacts
  <2> QED
    BY <1>0, <2>1, ShiftFacts, KindFacts DEF InstructionInv
<1>4. ASSUME Balance(r, "METACODE", "METACODE_END", Len(r)) = Hits(w, Instructions, Len(w)),
             Within(r, "METACODE", "METACODE_END", Nat),
             (\A i \in 1 .. Len(r) : r[i].kind # "INTERPOLATION_START") =>
               /\ \A i \in 1 .. Len(w) : w[i] \notin Interpolations
               /\ Within(r, "METACODE", "METACODE_END", {0, 1})
      PROVE  InstructionInv'
  BY <1>4 DEF InstructionInv, Depth
<1>5. /\ Weight("METACODE", "METACODE", "METACODE_END") = 1
      /\ Weight("METACODE_END", "METACODE", "METACODE_END") = -1
      /\ \A k : k \notin {"METACODE", "METACODE_END"} => Weight(k, "METACODE", "METACODE_END") = 0
  BY DEF Weight
<1>6. /\ Spec_ \notin Instructions /\ Tokenize(Expression) \notin Instructions
      /\ \A f \in Literals : f \notin Instructions /\ f \notin Interpolations
      /\ Tokenize(Instruction) \notin Interpolations /\ Tokenize({}) \notin Instructions
  BY LoopsDiffer DEF Instructions, Interpolations
<1>7. "METACODE" \notin Ordinary /\ "METACODE_END" \notin Ordinary
  BY KindFacts
<1>8. CASE Stays
  <2>1. Shifts(r, "METACODE", "METACODE_END", 0) /\ w = frames
    BY <1>0, <1>7, <1>8, GrowsShifts DEF Stays
  <2> QED
    BY <1>0, <2>1, QuietTurn
<1>9. CASE OpensLiteral
  <2>1. PICK f \in Literals : w = Append(frames, f)
    BY <1>9 DEF OpensLiteral
  <2>2. f \in Loops /\ f \notin Instructions /\ f \notin Interpolations
    BY <1>6 DEF Loops
  <2>3. Shifts(r, "METACODE", "METACODE_END", 0)
    BY <1>0, <1>9, ShiftFacts DEF OpensLiteral
  <2>4. /\ Hits(w, Instructions, Len(w)) = h
        /\ (\A i \in 1 .. Depth : frames[i] \notin Interpolations) => \A i \in 1 .. Len(w) : w[i] \notin Interpolations
    BY <1>1, <2>1, <2>2, PushesFacts
  <2> QED
    BY <2>3, <2>4, QuietTurn
<1>10. CASE EndsLiteral \/ EndsInterpolation \/ LeavesOpen
  <2>1. Top # Tokenize({}) /\ Top \notin Instructions /\ w = Below
    BY <1>6, <1>10, LoopsDiffer DEF EndsLiteral, EndsInterpolation, LeavesOpen
  <2>2. CASE tokens' = tokens
    BY <1>0, <2>1, <2>2, ShiftFacts, PopsFacts, QuietTurn
  <2>3. CASE Grows(Ordinary)
    <3>1. Shifts(r, "METACODE", "METACODE_END", 0)
      BY <1>0, <1>7, <2>3, GrowsShifts
    <3> QED
      BY <2>1, <3>1, PopsFacts, QuietTurn
  <2>4. CASE Gains("INTERPOLATION_END")
    <3>1. Shifts(r, "METACODE", "METACODE_END", 0)
      BY <1>0, <1>5, <2>4, GainsShifts
    <3> QED
      BY <2>1, <3>1, PopsFacts, QuietTurn
  <2> QED
    BY <1>10, <2>2, <2>3, <2>4 DEF EndsLiteral, EndsInterpolation, LeavesOpen
<1>11. CASE OpensInterpolation
  <2>1. w = Append(frames, Tokenize(Expression)) /\ GainsTwo("L_TEXTUAL", "INTERPOLATION_START")
    BY <1>11 DEF OpensInterpolation
  <2>2. Tokenize(Expression) \in Loops
    BY DEF Loops
  <2>3. Hits(w, Instructions, Len(w)) = h
    BY <1>1, <1>6, <2>1, <2>2, PushesFacts
  <2>4. B + 0 = B /\ (B + 0) + 0 = B
    BY <1>1
  <2>5. /\ Weight("L_TEXTUAL", "METACODE", "METACODE_END") = 0
        /\ Weight("INTERPOLATION_START", "METACODE", "METACODE_END") = 0
    BY <1>5
  <2>6. Shifts(r, "METACODE", "METACODE_END", 0)
    BY <1>0, <2>1, <2>4, <2>5, GainsTwoShifts, KindFacts DEF Shifts
  <2>7. ~(\A i \in 1 .. Len(r) : r[i].kind # "INTERPOLATION_START")
    <3>1. PICK t \in Tokens, u \in Tokens : u.kind = "INTERPOLATION_START" /\ r = Append(Append(tokens, t), u)
      BY <2>1 DEF GainsTwo
    <3> DEFINE s == Append(tokens, t)
    <3>2. s \in Seq(Tokens) /\ r = Append(s, u)
      BY <1>0, <3>1
    <3> HIDE DEF s
    <3>3. Len(r) \in 1 .. Len(r) /\ r[Len(r)] = u
      BY <3>2
    <3> QED
      BY <3>1, <3>3
  <2> QED
    BY <2>3, <2>6, <2>7, QuietTurn
<1>12. CASE Specifies
  <2>1. Top = Tokenize(Expression) /\ w = Append(Below, Spec_) /\ Gains("COLON")
    BY <1>12 DEF Specifies
  <2>2. Shifts(r, "METACODE", "METACODE_END", 0)
    BY <1>0, <1>5, <2>1, GainsShifts
  <2>3. ~(\A i \in 1 .. Depth : frames[i] \notin Interpolations)
    <3>1. Depth \in 1 .. Depth /\ frames[Depth] \in Interpolations
      BY <2>1, TopFacts DEF Top, Interpolations
    <3> QED
      BY <3>1
  <2>4. Hits(w, Instructions, Len(w)) = h
    <3> PICK b : b = Below
      OBVIOUS
    <3>1. b \in Seq(Loops) /\ Spec_ \in Loops /\ w = Append(b, Spec_)
      BY <2>1, BelowFacts, LoopsDiffer DEF Loops
    <3>2. Hits(b, Instructions, Len(b)) = h
      BY <1>6, <2>1, LoopsDiffer, PopsFacts
    <3>3. Hits(b, Instructions, Len(b)) \in Nat
      BY <1>1, <3>2
    <3>4. Hits(w, Instructions, Len(w)) = Hits(b, Instructions, Len(b)) + 0
      BY <1>6, <3>1, HitsAppend
    <3> QED
      BY <3>2, <3>3, <3>4
  <2> QED
    BY <2>2, <2>3, <2>4, QuietTurn
<1>13. CASE OpensInstruction
  <2>1. /\ Top \in {Tokenize({}), Tokenize(Expression)} /\ w = Append(frames, Tokenize(Instruction)) /\ Gains("METACODE")
        /\ Tokenize(Instruction) \in Loops
    BY <1>13 DEF OpensInstruction, Loops
  <2>2. /\ Balance(r, "METACODE", "METACODE_END", Len(r)) = B + 1
        /\ \A L : Within(tokens, "METACODE", "METACODE_END", L) /\ B + 1 \in L => Within(r, "METACODE", "METACODE_END", L)
    BY <1>0, <1>5, <2>1, GainsShifts, KindFacts DEF Shifts
  <2>3. /\ Hits(w, Instructions, Len(w)) = h + 1
        /\ (\A i \in 1 .. Depth : frames[i] \notin Interpolations) => \A i \in 1 .. Len(w) : w[i] \notin Interpolations
    BY <1>6, <2>1, PushesFacts DEF Instructions
  <2>4. (\A i \in 1 .. Depth : frames[i] \notin Interpolations) => h = 0
    <3>1. ASSUME \A i \in 1 .. Depth : frames[i] \notin Interpolations PROVE Top = Tokenize({})
      BY <2>1, <3>1, TopFacts DEF Top, Interpolations
    <3> QED
      BY <1>6, <3>1, OuterFacts
  <2> HIDE DEF B, h
  <2>5. B + 1 \in Nat /\ (h = 0 => B + 1 \in {0, 1})
    BY <1>1
  <2> QED
    BY <1>1, <1>2, <1>3, <1>4, <2>2, <2>3, <2>4, <2>5
<1>14. CASE NextInstruction
  <2>1. Top = Tokenize(Instruction) /\ w = frames /\ GainsTwo("METACODE_END", "METACODE")
    BY <1>14 DEF NextInstruction
  <2>2. h >= 1
    <3> PICK b : b = Below
      OBVIOUS
    <3>1. h = Hits(b, Instructions, Len(b)) + 1 /\ Hits(b, Instructions, Len(b)) \in Nat
      BY <2>1, StackHits, LoopsDiffer DEF Instructions
    <3> QED
      BY <3>1
  <2>3. /\ Balance(r, "METACODE", "METACODE_END", Len(r)) = (B + (-1)) + 1
        /\ \A L : Within(tokens, "METACODE", "METACODE_END", L) /\ B + (-1) \in L /\ (B + (-1)) + 1 \in L
                    => Within(r, "METACODE", "METACODE_END", L)
    BY <1>0, <1>5, <2>1, GainsTwoShifts, KindFacts
  <2> HIDE DEF B, h
  <2>4. (B + (-1)) + 1 = h /\ B + (-1) \in Nat /\ h \in Nat /\ (B \in {0, 1} => B + (-1) \in {0, 1} /\ h \in {0, 1})
    BY <1>1, <2>2
  <2>5. Hits(w, Instructions, Len(w)) = h
    BY <1>0, <2>1 DEF h
  <2> QED
    BY <1>2, <1>3, <1>4, <1>0, <2>1, <2>3, <2>4, <2>5
<1>15. CASE EndsInstruction
  <2>1. Top = Tokenize(Instruction) /\ w = Below /\ Gains("METACODE_END")
    BY <1>15 DEF EndsInstruction
  <2>2. /\ h = Hits(w, Instructions, Len(w)) + 1 /\ Hits(w, Instructions, Len(w)) \in Nat
        /\ (\A i \in 1 .. Depth : frames[i] \notin Interpolations) => \A i \in 1 .. Len(w) : w[i] \notin Interpolations
    BY <2>1, StackHits, PopsFacts, LoopsDiffer DEF Instructions
  <2>3. /\ Balance(r, "METACODE", "METACODE_END", Len(r)) = B + (-1)
        /\ \A L : Within(tokens, "METACODE", "METACODE_END", L) /\ B + (-1) \in L => Within(r, "METACODE", "METACODE_END", L)
    BY <1>0, <1>5, <2>1, GainsShifts, KindFacts DEF Shifts
  <2> HIDE DEF B, h
  <2>4. /\ B + (-1) = Hits(w, Instructions, Len(w)) /\ B + (-1) \in Nat
        /\ (B \in {0, 1} => B + (-1) \in {0, 1})
    BY <1>1, <2>2
  <2> QED
    BY <1>2, <1>3, <1>4, <2>2, <2>3, <2>4
<1> QED
  BY <1>8, <1>9, <1>10, <1>11, <1>12, <1>13, <1>14, <1>15 DEF Turns

LEMMA StartBalance ==
  ASSUME Init, NEW up, NEW down, NEW F, Tokenize({}) \notin F
  PROVE  /\ Balance(tokens, up, down, Len(tokens)) = 0
         /\ \A L : 0 \in L => Within(tokens, up, down, L)
         /\ Hits(frames, F, Depth) = 0
<1>1. tokens = <<>> /\ Len(tokens) = 0
  BY DEF Init
<1>2. \A s, K : Hits(s, K, 0) = 0
  <2> TAKE s, K
  <2>1. {i \in 1 .. 0 : s[i] \in K} = {}
    OBVIOUS
  <2> QED
    BY <2>1, FS_EmptySet DEF Hits
<1>3. Balance(tokens, up, down, 0) = 0
  BY <1>2 DEF Balance
<1>4. \A n \in 0 .. Len(tokens) : n = 0
  BY <1>1
<1>5. Top = Tokenize({})
  BY DEF Init, Top, Depth
<1>6. Hits(frames, F, Depth) = 0
  BY <1>5, InitInv, OuterFacts
<1> QED
  BY <1>1, <1>3, <1>4, <1>6 DEF Within

LEMMA NextInstructionInv == Inv /\ InstructionInv /\ [Next]_vars => InstructionInv'
<1> SUFFICES ASSUME Inv, InstructionInv, [Next]_vars PROVE InstructionInv'
  OBVIOUS
<1>1. CASE Turns
  BY <1>1, InstructionTurn
<1>2. CASE tokens' = tokens /\ frames' = frames
  BY <1>2 DEF InstructionInv, Depth
<1>3. CASE EndOfFile
  <2> PICK r : r = tokens'
    OBVIOUS
  <2>0. tokens \in Seq(Tokens)
    BY StateFacts
  <2>1. frames' = frames /\ Gains("END_OF_FILE") /\ Depth = 1 /\ Top = Tokenize({})
    BY <1>3, EndOfFileFacts
  <2>2. Weight("END_OF_FILE", "METACODE", "METACODE_END") = 0
    BY DEF Weight
  <2>3. Shifts(r, "METACODE", "METACODE_END", 0)
    BY <2>0, <2>1, <2>2, GainsShifts
  <2>4. /\ Balance(r, "METACODE", "METACODE_END", Len(r)) = Balance(tokens, "METACODE", "METACODE_END", Len(tokens))
        /\ \A L : Within(tokens, "METACODE", "METACODE_END", L) => Within(r, "METACODE", "METACODE_END", L)
    BY <2>0, <2>3, ShiftFacts DEF Shifts
  <2>5. ASSUME \A i \in 1 .. Len(r) : r[i].kind # "INTERPOLATION_START"
        PROVE  \A i \in 1 .. Len(tokens) : tokens[i].kind # "INTERPOLATION_START"
    <3>1. PICK t \in Tokens : r = Append(tokens, t)
      BY <2>1 DEF Gains
    <3>2. \A i \in 1 .. Len(tokens) : i \in 1 .. Len(r) /\ r[i] = tokens[i]
      BY <2>0, <3>1
    <3> QED
      BY <2>5, <3>2
  <2> QED
    BY <2>1, <2>4, <2>5 DEF InstructionInv, Depth
<1> QED
  BY <1>1, <1>2, <1>3, OtherSteps

\* For every text: the end of file is the last token and only that, every instruction is
\* closed by a token of its own and none before it is opened, and without interpolations
\* no instruction is inside another.
THEOREM InstructionsAreClosed == Spec => []InstructionsClosed
<1> DEFINE All == Inv /\ FileEnds /\ InstructionInv
<1>1. Init => All
  <2> SUFFICES ASSUME Init PROVE All
    OBVIOUS
  <2>1. FileEnds
    BY DEF Init, FileEnds
  <2>2. Tokenize({}) \notin Instructions
    BY LoopsDiffer DEF Instructions
  <2>3. InstructionInv
    <3>1. \A i \in 1 .. Depth : frames[i] \notin Interpolations
      BY LoopsDiffer DEF Init, Interpolations, Depth
    <3> QED
      BY <2>2, <3>1, StartBalance DEF InstructionInv
  <2> QED
    BY <2>1, <2>3, InitInv
<1>2. All /\ [Next]_vars => All'
  BY NextInv, NextFileEnds, NextInstructionInv
<1>3. All => InstructionsClosed
  <2> SUFFICES ASSUME All, status = "done" PROVE InstructionsClosed
    BY DEF InstructionsClosed
  <2>1. tokens \in Seq(Tokens) /\ tokens # <<>> /\ tokens[Len(tokens)].kind = "END_OF_FILE"
        /\ \A i \in 1 .. Len(tokens) : tokens[i].kind = "END_OF_FILE" => i = Len(tokens)
    BY StateFacts DEF FileEnds
  <2>2. DOMAIN tokens = 1 .. Len(tokens) /\ Len(tokens) \in Nat
    BY <2>1
  <2>3. ASSUME NEW n \in 0 .. Len(tokens) PROVE Open(n) = Balance(tokens, "METACODE", "METACODE_END", n)
    <3>0. \A i \in 1 .. n : i \in 1 .. Len(tokens)
      BY <2>2
    <3>1. \A i \in 1 .. n : tokens[i] \in Tokens
      BY <2>1, <3>0
    <3>2. /\ {i \in 1 .. n : tokens[i] \in Of("METACODE")} = {i \in 1 .. n : tokens[i].kind = "METACODE"}
          /\ {i \in 1 .. n : tokens[i] \in Of("METACODE_END")} = {i \in 1 .. n : tokens[i].kind = "METACODE_END"}
      BY <3>1 DEF Of
    <3> QED
      BY <3>2 DEF Open, Balance, Hits
  <2>4. Open(Len(tokens)) = 0
    <3>1. Depth = 1 /\ frames[1] = Tokenize({})
      BY DEF Inv, StackInv, Stacked, Depth
    <3>2. Hits(frames, Instructions, Depth) = 0
      BY <3>1, OuterFacts, LoopsDiffer DEF Top, Instructions
    <3>3. Len(tokens) \in 0 .. Len(tokens)
      BY <2>2
    <3> QED
      BY <2>3, <3>2, <3>3 DEF InstructionInv
  <2>5. \A n \in 1 .. Len(tokens) : Open(n) >= 0
    <3>1. \A n \in 1 .. Len(tokens) : n \in 0 .. Len(tokens)
      BY <2>2
    <3>2. \A n \in 0 .. Len(tokens) : Open(n) \in Nat
      BY <2>3 DEF InstructionInv, Within
    <3> QED
      BY <3>1, <3>2
  <2>6. ASSUME \A i \in 1 .. Len(tokens) : tokens[i].kind # "INTERPOLATION_START"
        PROVE  \A n \in 1 .. Len(tokens) : Open(n) <= 1
    <3>1. \A n \in 1 .. Len(tokens) : n \in 0 .. Len(tokens)
      BY <2>2
    <3>2. \A n \in 0 .. Len(tokens) : Open(n) \in {0, 1}
      BY <2>3, <2>6 DEF InstructionInv, Within
    <3> QED
      BY <3>1, <3>2
  <2>7. Len(tokens) \in 1 .. Len(tokens)
    <3>1. Len(tokens) \in Nat \ {0}
      BY <2>1, EmptySeq
    <3> QED
      BY <3>1
  <2> QED
    BY <2>1, <2>2, <2>4, <2>5, <2>6, <2>7 DEF InstructionsClosed
<1> QED
  BY <1>1, <1>2, <1>3, PTL DEF Spec

------------------------------------------------------------------------------
(* Interpolations.                                                         *)

\* As many interpolations are open as loops of one run.  Without an error one more is
\* open only while the literal around it is left at the end of the text, which is an error.
InterpolationInv ==
  LET inside == Balance(tokens, "INTERPOLATION_START", "INTERPOLATION_END", Len(tokens))
      open == Hits(frames, Interpolations, Depth)
  IN  /\ inside >= open
      /\ Within(tokens, "INTERPOLATION_START", "INTERPOLATION_END", Nat)
      /\ errors = {} => inside = open \/ (inside = open + 1 /\ cur = Size /\ Top \in Literals)

\* A turn that opens or closes an interpolation together with its loop, or neither.
LEMMA PairedTurn ==
  ASSUME Inv, InterpolationInv, NEW r, r = tokens', NEW w, w = frames', NEW d \in Int,
         Balance(r, "INTERPOLATION_START", "INTERPOLATION_END", Len(r))
           = Balance(tokens, "INTERPOLATION_START", "INTERPOLATION_END", Len(tokens)) + d,
         Within(r, "INTERPOLATION_START", "INTERPOLATION_END", Nat),
         Hits(w, Interpolations, Len(w)) = Hits(frames, Interpolations, Depth) + d,
         errors' = {} => errors = {} /\ ~(cur = Size /\ Top \in Literals)
  PROVE  InterpolationInv'
<1> DEFINE inside == Balance(tokens, "INTERPOLATION_START", "INTERPOLATION_END", Len(tokens))
           open == Hits(frames, Interpolations, Depth)
           insideAfter == Balance(r, "INTERPOLATION_START", "INTERPOLATION_END", Len(r))
           openAfter == Hits(w, Interpolations, Len(w))
<1>1. inside \in Int /\ open \in Nat
  BY ShiftFacts, StackHits, StateFacts, KindFacts
<1>2. inside >= open /\ (errors = {} => inside = open \/ (inside = open + 1 /\ cur = Size /\ Top \in Literals))
  BY DEF InterpolationInv
<1>3. insideAfter = inside + d /\ openAfter = open + d
  OBVIOUS
<1> HIDE DEF inside, open, insideAfter, openAfter
<1>4. insideAfter >= openAfter /\ (errors' = {} => insideAfter = openAfter)
  BY <1>1, <1>2, <1>3
<1> QED
  BY <1>4 DEF InterpolationInv, Depth, insideAfter, openAfter

LEMMA InterpolationTurn == ASSUME Inv, InterpolationInv, Turn, Turns PROVE InterpolationInv'
<1>0. tokens \in Seq(Tokens) /\ frames \in Seq(Loops) /\ Depth = Len(frames) /\ cur \in Nat /\ Size \in Nat
  BY StateFacts, TopFacts DEF Depth
<1> PICK r : r = tokens'
  OBVIOUS
<1> PICK w : w = frames'
  OBVIOUS
<1> DEFINE B == Balance(tokens, "INTERPOLATION_START", "INTERPOLATION_END", Len(tokens))
           o == Hits(frames, Interpolations, Depth)
           BAfter == Balance(r, "INTERPOLATION_START", "INTERPOLATION_END", Len(r))
           oAfter == Hits(w, Interpolations, Len(w))
           W(x) == Within(x, "INTERPOLATION_START", "INTERPOLATION_END", Nat)
<1>1. B \in Nat /\ o \in Nat /\ B >= o /\ W(tokens)
  <2>1. W(tokens) /\ B >= o
    BY DEF InterpolationInv
  <2> QED
    BY <1>0, <2>1, ShiftFacts, StackHits, KindFacts
<1>2. errors' = {} => errors = {}
  BY DEF Turn
<1>3. /\ Weight("INTERPOLATION_START", "INTERPOLATION_START", "INTERPOLATION_END") = 1
      /\ Weight("INTERPOLATION_END", "INTERPOLATION_START", "INTERPOLATION_END") = -1
      /\ \A k : k \notin {"INTERPOLATION_START", "INTERPOLATION_END"}
           => Weight(k, "INTERPOLATION_START", "INTERPOLATION_END") = 0
  BY DEF Weight
<1>4. /\ Tokenize(Instruction) \notin Interpolations /\ Tokenize({}) \notin Interpolations
      /\ \A f \in Literals : f \notin Interpolations
      /\ \A f \in Interpolations : f \notin Literals /\ f # Tokenize({})
  BY LoopsDiffer DEF Interpolations
<1>5. Shifts(r, "INTERPOLATION_START", "INTERPOLATION_END", 0) => BAfter = B + 0 /\ W(r)
  BY <1>1 DEF Shifts
<1>6. /\ r = tokens => BAfter = B + 0 /\ W(r)
      /\ Grows(Ordinary) => BAfter = B + 0 /\ W(r)
      /\ \A k : Gains(k) /\ k \notin {"INTERPOLATION_START", "INTERPOLATION_END"} => BAfter = B + 0 /\ W(r)
  <2>1. Grows(Ordinary) => BAfter = B + 0 /\ W(r)
    BY <1>0, <1>5, GrowsShifts, KindFacts
  <2>2. \A k : Gains(k) /\ k \notin {"INTERPOLATION_START", "INTERPOLATION_END"} => BAfter = B + 0 /\ W(r)
    BY <1>0, <1>3, <1>5, GainsShifts, KindFacts
  <2>3. r = tokens => BAfter = B + 0 /\ W(r)
    BY <1>1
  <2> QED
    BY <2>1, <2>2, <2>3
<1>7. /\ \A f \in Loops : w = Append(frames, f) => oAfter = o + (IF f \in Interpolations THEN 1 ELSE 0)
      /\ w = frames => oAfter = o + 0
      /\ w = Below /\ Top # Tokenize({}) => /\ oAfter \in Nat
                                            /\ o = oAfter + (IF Top \in Interpolations THEN 1 ELSE 0)
  <2>1. w = frames => oAfter = o + 0
    BY <1>0, <1>1
  <2> QED
    BY <2>1, StackHits
<1>8. ASSUME NEW d \in Int, BAfter = B + d, W(r), oAfter = o + d,
             errors' = {} => errors = {} /\ ~(cur = Size /\ Top \in Literals)
      PROVE  InterpolationInv'
  BY <1>8, PairedTurn
<1> HIDE DEF B, o, BAfter, oAfter, W
<1>9. CASE Stays
  BY <1>0, <1>2, <1>6, <1>7, <1>8, <1>9 DEF Stays
<1>10. CASE OpensLiteral
  <2>1. PICK f \in Literals : w = Append(frames, f)
    BY <1>10 DEF OpensLiteral
  <2>2. f \in Loops /\ oAfter = o + 0
    BY <1>4, <1>7, <2>1 DEF Loops
  <2>3. Top \notin Literals
    BY <1>10, LoopFacts DEF OpensLiteral
  <2> QED
    BY <1>2, <1>6, <1>8, <1>10, <2>2, <2>3 DEF OpensLiteral
<1>11. CASE EndsLiteral
  <2>1. Top \in Literals /\ w = Below /\ Top # Tokenize({}) /\ Top \notin Interpolations
    BY <1>4, <1>11, LoopsDiffer DEF EndsLiteral
  <2>2. oAfter = o + 0
    BY <1>7, <2>1
  <2>3. (r = tokens /\ errors' # {}) \/ (Grows(Ordinary) /\ cur < Size)
    BY <1>11 DEF EndsLiteral
  <2> QED
    BY <1>0, <1>2, <1>6, <1>8, <2>2, <2>3
<1>12. CASE OpensInstruction \/ NextInstruction \/ EndsInstruction
  <2>1. Top \notin Literals
    BY <1>12, LoopsDiffer DEF OpensInstruction, NextInstruction, EndsInstruction
  <2>2. CASE OpensInstruction
    <3>1. w = Append(frames, Tokenize(Instruction)) /\ Gains("METACODE") /\ Tokenize(Instruction) \in Loops
      BY <2>2 DEF OpensInstruction, Loops
    <3>2. oAfter = o + 0
      BY <1>4, <1>7, <3>1
    <3> QED
      BY <1>2, <1>6, <1>8, <2>1, <3>1, <3>2
  <2>3. CASE NextInstruction
    <3>1. w = frames /\ GainsTwo("METACODE_END", "METACODE")
      BY <2>3 DEF NextInstruction
    <3>2. BAfter = B + 0 /\ W(r)
      <4>1. /\ Weight("METACODE", "INTERPOLATION_START", "INTERPOLATION_END") = 0
            /\ Weight("METACODE_END", "INTERPOLATION_START", "INTERPOLATION_END") = 0
        BY <1>3
      <4>2. /\ BAfter = (B + 0) + 0
            /\ \A L : Within(tokens, "INTERPOLATION_START", "INTERPOLATION_END", L) /\ B + 0 \in L /\ (B + 0) + 0 \in L
                        => Within(r, "INTERPOLATION_START", "INTERPOLATION_END", L)
        BY <1>0, <3>1, <4>1, GainsTwoShifts, KindFacts DEF B, BAfter
      <4> QED
        BY <1>1, <4>2 DEF W
    <3> QED
      BY <1>2, <1>7, <1>8, <2>1, <3>1, <3>2
  <2>4. CASE EndsInstruction
    <3>1. w = Below /\ Gains("METACODE_END") /\ Top # Tokenize({}) /\ Top \notin Interpolations
      BY <1>4, <2>4, LoopsDiffer DEF EndsInstruction
    <3>2. oAfter = o + 0
      BY <1>7, <3>1
    <3> QED
      BY <1>2, <1>6, <1>8, <2>1, <3>1, <3>2
  <2> QED
    BY <1>12, <2>2, <2>3, <2>4
<1>13. CASE OpensInterpolation
  <2>1. w = Append(frames, Tokenize(Expression)) /\ GainsTwo("L_TEXTUAL", "INTERPOLATION_START") /\ cur < Size
    BY <1>13 DEF OpensInterpolation
  <2>2. oAfter = o + 1
    BY <1>7, <2>1 DEF Interpolations, Loops
  <2>3. BAfter = B + 1 /\ W(r)
    <3>1. Weight("L_TEXTUAL", "INTERPOLATION_START", "INTERPOLATION_END") = 0
      BY <1>3
    <3>2. /\ BAfter = (B + 0) + 1
          /\ \A L : Within(tokens, "INTERPOLATION_START", "INTERPOLATION_END", L) /\ B + 0 \in L /\ (B + 0) + 1 \in L
                      => Within(r, "INTERPOLATION_START", "INTERPOLATION_END", L)
      BY <1>0, <1>3, <2>1, <3>1, GainsTwoShifts, KindFacts DEF B, BAfter
    <3> QED
      BY <1>1, <3>2 DEF W
  <2> QED
    BY <1>0, <1>2, <1>8, <2>1, <2>2, <2>3
<1>14. CASE EndsInterpolation
  <2>1. Top \in Interpolations /\ w = Below /\ Gains("INTERPOLATION_END")
    BY <1>14 DEF EndsInterpolation, Interpolations
  <2>2. oAfter \in Nat /\ oAfter = o + (-1)
    BY <1>1, <1>4, <1>7, <2>1
  <2>3. BAfter = B + (-1) /\ W(r)
    <3>1. Shifts(r, "INTERPOLATION_START", "INTERPOLATION_END", -1)
      BY <1>0, <1>3, <2>1, GainsShifts, KindFacts
    <3>2. B + (-1) \in Nat
      BY <1>1, <2>2
    <3> QED
      BY <1>1, <3>1, <3>2 DEF Shifts, W, B, BAfter
  <2>4. Top \notin Literals
    BY <1>4, <2>1
  <2> QED
    BY <1>2, <1>8, <2>2, <2>3, <2>4
<1>15. CASE Specifies
  <2>1. Top = Tokenize(Expression) /\ w = Append(Below, Spec_) /\ Gains("COLON")
    BY <1>15 DEF Specifies
  <2>2. Top \in Interpolations /\ Spec_ \in Interpolations /\ Top \notin Literals /\ Top # Tokenize({})
    BY <1>4, <2>1 DEF Interpolations
  <2>3. oAfter = o + 0
    <3> PICK b : b = Below
      OBVIOUS
    <3>1. b \in Seq(Loops) /\ Spec_ \in Loops /\ w = Append(b, Spec_)
      BY <2>1, <2>2, BelowFacts DEF Loops
    <3>2. o = Hits(b, Interpolations, Len(b)) + 1
      BY <2>2, StackHits DEF o
    <3>3. oAfter = Hits(b, Interpolations, Len(b)) + 1
      BY <2>2, <3>1, HitsAppend DEF oAfter
    <3> QED
      BY <1>1, <3>2, <3>3
  <2> QED
    BY <1>2, <1>6, <1>8, <2>1, <2>2, <2>3
<1>16. CASE LeavesOpen
  <2>1. Top \in Interpolations /\ w = Below /\ r = tokens /\ cur' = cur /\ (cur = Size \/ errors' # {})
    BY <1>16 DEF LeavesOpen, Interpolations
  <2>2. oAfter \in Nat /\ o = oAfter + 1 /\ BAfter = B /\ W(r) /\ Top \notin Literals
    BY <1>1, <1>4, <1>6, <1>7, <2>1
  <2>3. errors' = {} => BAfter = oAfter + 1
    <3>1. errors = {} => B = o
      BY <2>2 DEF InterpolationInv, B, o
    <3> QED
      BY <1>2, <2>2, <3>1
  <2>4. Top' \in Literals
    <3>1. Nested(Top, Below[Len(Below)])
      BY <1>4, <2>1, BelowFacts
    <3>2. Below[Len(Below)] \in Literals
      BY <2>1, <3>1, LoopsDiffer DEF Nested, Interpolations
    <3>3. Top' = w[Len(w)]
      BY DEF Top, Depth
    <3> QED
      BY <2>1, <3>2, <3>3
  <2>5. Size' = Size
    BY DEF Turn, Size
  <2>6. BAfter >= oAfter
    BY <1>1, <2>2
  <2>7. errors' = {} => cur' = Size'
    BY <2>1, <2>5
  <2> QED
    BY <2>2, <2>3, <2>4, <2>6, <2>7 DEF InterpolationInv, Depth, BAfter, oAfter, W
<1> QED
  BY <1>9, <1>10, <1>11, <1>12, <1>13, <1>14, <1>15, <1>16 DEF Turns

LEMMA NextInterpolationInv == Inv /\ InterpolationInv /\ [Next]_vars => InterpolationInv'
<1> SUFFICES ASSUME Inv, InterpolationInv, [Next]_vars PROVE InterpolationInv'
  OBVIOUS
<1>1. CASE Turn /\ Turns
  BY <1>1, InterpolationTurn
<1>2. CASE text' = text /\ cur' = cur /\ tokens' = tokens /\ frames' = frames /\ errors' = errors
  BY <1>2 DEF InterpolationInv, Depth, Top, Size
<1>3. CASE EndOfFile
  <2> PICK r : r = tokens'
    OBVIOUS
  <2> PICK w : w = frames'
    OBVIOUS
  <2>0. tokens \in Seq(Tokens)
    BY StateFacts
  <2>1. w = frames /\ errors' = errors /\ Gains("END_OF_FILE") /\ Top = Tokenize({})
    BY <1>3, EndOfFileFacts
  <2>2. Weight("END_OF_FILE", "INTERPOLATION_START", "INTERPOLATION_END") = 0
    BY DEF Weight
  <2>3. Shifts(r, "INTERPOLATION_START", "INTERPOLATION_END", 0)
    BY <2>0, <2>1, <2>2, GainsShifts, KindFacts
  <2>4. /\ Balance(r, "INTERPOLATION_START", "INTERPOLATION_END", Len(r))
             = Balance(tokens, "INTERPOLATION_START", "INTERPOLATION_END", Len(tokens)) + 0
        /\ Within(r, "INTERPOLATION_START", "INTERPOLATION_END", Nat)
    BY <2>0, <2>3, ShiftFacts, KindFacts DEF Shifts, InterpolationInv
  <2>5. Hits(w, Interpolations, Len(w)) = Hits(frames, Interpolations, Depth) + 0
    BY <2>1, StackHits DEF Depth
  <2>6. Top \notin Literals
    BY <2>1, LoopsDiffer
  <2> QED
    BY <2>1, <2>4, <2>5, <2>6, PairedTurn
<1> QED
  BY <1>1, <1>2, <1>3, OtherSteps

\* For every text: no prefix of the tokens closes more interpolations than it opens, and
\* in a file accepted without an error every interpolation is closed.
THEOREM InterpolationsAreClosed == Spec => []InterpolationsClosed
<1> DEFINE All == Inv /\ InterpolationInv
<1>1. Init => All
  <2> SUFFICES ASSUME Init PROVE All
    OBVIOUS
  <2>1. Tokenize({}) \notin Interpolations
    BY LoopsDiffer DEF Interpolations
  <2>2. /\ Balance(tokens, "INTERPOLATION_START", "INTERPOLATION_END", Len(tokens)) = 0
        /\ Within(tokens, "INTERPOLATION_START", "INTERPOLATION_END", Nat)
        /\ Hits(frames, Interpolations, Depth) = 0
    BY <2>1, StartBalance
  <2>3. InterpolationInv
    BY <2>2 DEF InterpolationInv
  <2> QED
    BY <2>3, InitInv
<1>2. All /\ [Next]_vars => All'
  BY NextInv, NextInterpolationInv
<1>3. All => InterpolationsClosed
  <2> SUFFICES ASSUME All, status = "done", errors = {} PROVE InterpolationsClosed
    BY DEF InterpolationsClosed
  <2>1. tokens \in Seq(Tokens) /\ DOMAIN tokens = 1 .. Len(tokens) /\ Len(tokens) \in Nat
    BY StateFacts
  <2>2. ASSUME NEW n \in 0 .. Len(tokens)
        PROVE  Inside(n) = Balance(tokens, "INTERPOLATION_START", "INTERPOLATION_END", n)
    <3>1. \A i \in 1 .. n : tokens[i] \in Tokens
      BY <2>1
    <3>2. /\ {i \in 1 .. n : tokens[i] \in Of("INTERPOLATION_START")}
               = {i \in 1 .. n : tokens[i].kind = "INTERPOLATION_START"}
          /\ {i \in 1 .. n : tokens[i] \in Of("INTERPOLATION_END")}
               = {i \in 1 .. n : tokens[i].kind = "INTERPOLATION_END"}
      BY <3>1 DEF Of
    <3> QED
      BY <3>2 DEF Inside, Balance, Hits
  <2>3. Depth = 1 /\ frames[1] = Tokenize({})
    BY DEF Inv, StackInv, Stacked, Depth
  <2>4. Top = Tokenize({}) /\ Top \notin Literals
    BY <2>3, LoopsDiffer DEF Top
  <2>5. Hits(frames, Interpolations, Depth) = 0
    BY <2>4, OuterFacts, LoopsDiffer DEF Interpolations
  <2>6. Inside(Len(tokens)) = 0
    <3>1. Len(tokens) \in 0 .. Len(tokens)
      BY <2>1
    <3> QED
      BY <2>2, <2>4, <2>5, <3>1 DEF InterpolationInv
  <2>7. \A n \in 1 .. Len(tokens) : Inside(n) >= 0
    <3>1. \A n \in 1 .. Len(tokens) : n \in 0 .. Len(tokens)
      BY <2>1
    <3>2. \A n \in 0 .. Len(tokens) : Inside(n) \in Nat
      BY <2>2 DEF InterpolationInv, Within
    <3> QED
      BY <3>1, <3>2
  <2> QED
    BY <2>1, <2>6, <2>7 DEF InterpolationsClosed
<1> QED
  BY <1>1, <1>2, <1>3, PTL DEF Spec

------------------------------------------------------------------------------
(* Nothing is lost.                                                        *)

\* The tokens with characters of their own that the position p is in.
Covering(p) == {t \in Tokens : t.kind \notin Synthetic /\ t.begin <= p /\ p <= t.end}
Covered(p) == Hits(tokens, Covering(p), Len(tokens))

\* Without literals and comments, and before an error, only the file and its instructions
\* are read, and every character behind the cursor is in one token, none before it in any.
LostInv ==
  errors = {} /\ ~HasLiteral /\ ~HasComment =>
    /\ frames \in {<<Tokenize({})>>, <<Tokenize({}), Tokenize(Instruction)>>}
    /\ \A p \in 0 .. Size - 1 : Ch(p) \notin Blanks => Covered(p) = IF p < cur THEN 1 ELSE 0

LEMMA CoveringFacts ==
  ASSUME NEW p \in Nat, NEW begin \in Nat, NEW end \in Nat
  PROVE  /\ \A k \in Ordinary \cup {"METACODE"} : Token(k, begin, end) \in Covering(p) <=> begin <= p /\ p <= end
         /\ \A k \in Synthetic : Token(k, begin, end) \notin Covering(p)
<1>1. \A k \in Ordinary \cup {"METACODE"} : k \notin Synthetic /\ k \in Ordinary \cup Brackets \cup {"END_OF_FILE"}
  BY DEF Ordinary, Brackets, Synthetic
<1>2. ASSUME NEW k \in Ordinary \cup {"METACODE"}
      PROVE  Token(k, begin, end) \in Covering(p) <=> begin <= p /\ p <= end
  <2> DEFINE t == Token(k, begin, end)
  <2>1. t \in Tokens /\ t.kind = k /\ t.begin = begin /\ t.end = end
    BY <1>1, TokenType DEF Token
  <2> HIDE DEF t
  <2> QED
    BY <1>1, <2>1 DEF Covering, t
<1>3. ASSUME NEW k \in Synthetic PROVE Token(k, begin, end) \notin Covering(p)
  BY <1>3 DEF Covering, Token
<1> QED
  BY <1>2, <1>3

\* Each position of a reading is in one of its tokens.
Rises(s, r, p, first, last) ==
  Hits(r, Covering(p), Len(r)) = Hits(s, Covering(p), Len(s)) + (IF first <= p /\ p <= last THEN 1 ELSE 0)

LEMMA SpansCover ==
  ASSUME NEW s \in Seq(Tokens), NEW first \in Nat, NEW last \in Nat, NEW found, Spans(found, first, last),
         NEW r, r = s \o found, NEW p \in Nat
  PROVE  Rises(s, r, p, first, last)
<1>1. ASSUME NEW k \in Ordinary, found = <<Token(k, first, last)>>
      PROVE  Hits(r, Covering(p), Len(r)) = Hits(s, Covering(p), Len(s)) + (IF first <= p /\ p <= last THEN 1 ELSE 0)
  <2> DEFINE t == Token(k, first, last)
  <2>1. t \in Tokens /\ (t \in Covering(p) <=> first <= p /\ p <= last)
    BY TokenType, CoveringFacts
  <2> HIDE DEF t
  <2>2. r = Append(s, t)
    BY <1>1, <2>1 DEF t
  <2> QED
    BY <2>1, <2>2, HitsAppend
<1>2. ASSUME NEW j \in Ordinary, NEW k \in Ordinary, NEW c \in first .. last - 1,
             found = <<Token(j, first, c), Token(k, c + 1, last)>>
      PROVE  Hits(r, Covering(p), Len(r)) = Hits(s, Covering(p), Len(s)) + (IF first <= p /\ p <= last THEN 1 ELSE 0)
  <2> DEFINE t == Token(j, first, c)
             u == Token(k, c + 1, last)
             q == Append(s, t)
  <2>1. /\ t \in Tokens /\ (t \in Covering(p) <=> first <= p /\ p <= c)
        /\ u \in Tokens /\ (u \in Covering(p) <=> c + 1 <= p /\ p <= last)
    BY TokenType, CoveringFacts
  <2>2. found = <<t, u>>
    BY <1>2
  <2> HIDE DEF t, u
  <2>3. q \in Seq(Tokens) /\ r = Append(q, u)
    BY <2>1, <2>2
  <2>4. /\ Hits(q, Covering(p), Len(q)) = Hits(s, Covering(p), Len(s)) + (IF t \in Covering(p) THEN 1 ELSE 0)
        /\ Len(s) \in 0 .. Len(s) /\ Hits(s, Covering(p), Len(s)) \in Nat
    BY <2>1, HitsAppend
  <2> HIDE DEF q
  <2>5. Hits(r, Covering(p), Len(r)) = Hits(q, Covering(p), Len(q)) + (IF u \in Covering(p) THEN 1 ELSE 0)
    BY <2>1, <2>3, HitsAppend
  <2> QED
    BY <2>1, <2>4, <2>5
<1> QED
  BY <1>1, <1>2 DEF Spans, Rises

\* A step that leaves blanks behind and puts the positions from there to the cursor into
\* one token each.
Gained(r, from, next) ==
  \A p \in 0 .. Size - 1 :
    Hits(r, Covering(p), Len(r)) = Covered(p) + (IF from <= p /\ p < next THEN 1 ELSE 0)
Outer(fs) == fs \in {<<Tokenize({})>>, <<Tokenize({}), Tokenize(Instruction)>>}

LEMMA CoverStep ==
  ASSUME Inv, LostInv, text' = text, errors' = {} => errors = {},
         NEW from \in cur .. Size, \A q \in cur .. from - 1 : Ch(q) \in Blanks,
         NEW next, next = cur', next \in from .. Size,
         NEW r, r = tokens',
         Gained(r, from, next), errors' = {} /\ ~HasLiteral /\ ~HasComment => Outer(frames')
  PROVE  LostInv'
<1>1. /\ Size' = Size /\ (HasLiteral' <=> HasLiteral) /\ (HasComment' <=> HasComment)
      /\ \A p : Ch(p)' = Ch(p)
  BY DEF Size, HasLiteral, HasComment, IsTextual, IsComment, Ch
<1>2. Size \in Nat /\ cur \in Nat
  BY TopFacts
<1>3. ASSUME errors' = {}, ~HasLiteral, ~HasComment, NEW p \in 0 .. Size - 1, Ch(p) \notin Blanks
      PROVE  Hits(r, Covering(p), Len(r)) = IF p < next THEN 1 ELSE 0
  <2>1. Covered(p) = IF p < cur THEN 1 ELSE 0
    BY <1>3 DEF LostInv
  <2>2. p < cur \/ p >= from
    BY <1>2, <1>3
  <2>3. Hits(r, Covering(p), Len(r)) = Covered(p) + (IF from <= p /\ p < next THEN 1 ELSE 0)
    BY <1>3 DEF Gained
  <2> QED
    BY <1>2, <1>3, <2>1, <2>2, <2>3
<1>4. \A p : Covered(p)' = Hits(r, Covering(p), Len(r))
  BY DEF Covered, Covering
<1> QED
  BY <1>1, <1>3, <1>4 DEF LostInv, Outer

LEMMA ReadCovers ==
  ASSUME Inv, LostInv, Begins, NEW t, Reads(t, Start), Take(t), errors' = errors
  PROVE  LostInv'
<1>1. /\ Size \in Nat /\ cur < Size /\ Start \in cur .. Size /\ cur \in Nat /\ Start \in Nat /\ text' = text
      /\ \A q \in cur .. Start - 1 : Ch(q) \in Blanks
  BY TopFacts, BeginsFacts
<1>2. PICK last \in Start .. Size : Spans(t.found, Start, last) /\ t.next = Move(last)
  BY DEF Reads
<1>3. tokens' = tokens \o t.found /\ cur' = Move(last) /\ frames' = frames
  BY <1>2 DEF Take
<1> PICK r : r = tokens'
  OBVIOUS
<1> PICK next : next = cur'
  OBVIOUS
<1>4. last \in Nat /\ next \in Start .. Size /\ \A p \in 0 .. Size - 1 : p < next <=> p <= last
  BY <1>1, <1>2, <1>3 DEF Move
<1>5. ASSUME NEW p \in 0 .. Size - 1
      PROVE  Hits(r, Covering(p), Len(r)) = Covered(p) + (IF Start <= p /\ p < next THEN 1 ELSE 0)
  <2>1. Hits(r, Covering(p), Len(r)) = Covered(p) + (IF Start <= p /\ p <= last THEN 1 ELSE 0)
    <3>1. tokens \in Seq(Tokens) /\ p \in Nat /\ last \in Nat /\ Start \in Nat
      BY <1>1, <1>4, StateFacts
    <3> PICK found : found = t.found
      OBVIOUS
    <3>2. Spans(found, Start, last) /\ r = tokens \o found
      BY <1>2, <1>3
    <3>3. Rises(tokens, r, p, Start, last)
      BY <3>1, <3>2, SpansCover
    <3> QED
      BY <3>3 DEF Covered, Rises
  <2> QED
    BY <1>4, <2>1
<1>6. errors' = {} /\ ~HasLiteral /\ ~HasComment => Outer(frames')
  BY <1>3 DEF LostInv, Outer
<1>7. Gained(r, Start, next)
  BY <1>5 DEF Gained
<1> QED
  BY <1>1, <1>4, <1>6, <1>7, CoverStep

\* The loops a file without literals runs before an error.
LEMMA OuterLoops ==
  ASSUME LostInv, errors = {}, ~HasLiteral, ~HasComment
  PROVE  /\ Top \in {Tokenize({}), Tokenize(Instruction)} /\ Top.fn = "tokenize"
         /\ Top = Tokenize({}) => frames = <<Tokenize({})>>
         /\ Top = Tokenize(Instruction) => frames = <<Tokenize({}), Tokenize(Instruction)>>
<1>1. frames = <<Tokenize({})>> \/ frames = <<Tokenize({}), Tokenize(Instruction)>>
  BY DEF LostInv
<1>2. frames = <<Tokenize({})>> => Top = Tokenize({})
  BY DEF Top, Depth
<1>3. frames = <<Tokenize({}), Tokenize(Instruction)>> => Top = Tokenize(Instruction)
  BY DEF Top, Depth
<1> QED
  BY <1>1, <1>2, <1>3, LoopFacts, LoopsDiffer

LEMMA TwoFacts ==
  ASSUME NEW a, NEW b
  PROVE  Append(<<a>>, b) = <<a, b>> /\ SubSeq(<<a, b>>, 1, Len(<<a, b>>) - 1) = <<a>>
<1> DEFINE S == {a, b}
           u == <<a>>
           v == Append(u, b)
           w == <<a, b>>
           x == SubSeq(w, 1, Len(w) - 1)
<1>0. a \in S /\ b \in S
  OBVIOUS
<1> HIDE DEF S
<1>1. u \in Seq(S) /\ Len(u) = 1 /\ u[1] = a
  BY <1>0
<1>2. w \in Seq(S) /\ Len(w) = 2 /\ w[1] = a /\ w[2] = b
  BY <1>0
<1> HIDE DEF u, w
<1>3. v \in Seq(S) /\ Len(v) = 2 /\ v[1] = a /\ v[2] = b
  <2>0. \A s \in Seq(S), y \in S :
          Append(s, y) \in Seq(S) /\ Len(Append(s, y)) = Len(s) + 1 /\ Append(s, y)[Len(s) + 1] = y
    OBVIOUS
  <2>1. v \in Seq(S) /\ Len(v) = Len(u) + 1 /\ v[Len(u) + 1] = b
    BY <1>0, <1>1, <2>0, Zenon
  <2>2. \A i \in 1 .. Len(u) : v[i] = u[i]
    BY <1>0, <1>1
  <2> HIDE DEF v
  <2> QED
    BY <1>1, <2>1, <2>2
<1>4. x \in Seq(S) /\ Len(x) = 1 /\ x[1] = a
  BY <1>2
<1> HIDE DEF v, x
<1>5. \A i : (i \in 1 .. 2 <=> i = 1 \/ i = 2) /\ (i \in 1 .. 1 <=> i = 1)
  OBVIOUS
<1>6. \A i \in 1 .. Len(v) : v[i] = w[i]
  BY <1>2, <1>3, <1>5
<1>7. v = w
  BY <1>2, <1>3, <1>6, SeqEqual
<1>8. \A i \in 1 .. Len(x) : x[i] = u[i]
  BY <1>1, <1>4, <1>5
<1>9. x = u
  BY <1>1, <1>4, <1>8, SeqEqual
<1> QED
  BY <1>7, <1>9 DEF u, v, w, x

\* A step that needs a literal, a comment or an error.
LEMMA ElsewhereKeepsLost ==
  ASSUME text' = text, errors' # {} \/ HasLiteral \/ HasComment
  PROVE  LostInv'
BY DEF LostInv, Size, HasLiteral, HasComment, IsTextual, IsComment, Ch

LEMMA MetacodeKeepsLost == ASSUME Inv, LostInv, Metacode PROVE LostInv'
<1> DEFINE t == Token("METACODE", Start, Start)
<1>1. /\ Begins /\ Ch(Start) = "#" /\ tokens' = Append(tokens, t) /\ cur' = Move(Start)
      /\ frames' = Append(frames, Tokenize(Instruction)) /\ errors' = errors
  BY DEF Metacode
<1>2. /\ Start \in cur .. Size /\ Start \in Nat /\ Size \in Nat /\ TextOK /\ cur \in Nat /\ text' = text
      /\ \A q \in cur .. Start - 1 : Ch(q) \in Blanks
      /\ Start < Size => Ch(Start) \notin Top.exits
  BY <1>1, BeginsFacts, TopFacts
<1>3. Start < Size
  BY <1>1, <1>2, ChFacts
<1>4. cur' = Start + 1
  BY <1>1, <1>3 DEF Move
<1> PICK r : r = tokens'
  OBVIOUS
<1>5. ASSUME NEW p \in 0 .. Size - 1
      PROVE  Hits(r, Covering(p), Len(r)) = Covered(p) + (IF Start <= p /\ p < Start + 1 THEN 1 ELSE 0)
  <2>1. t \in Tokens /\ (t \in Covering(p) <=> Start <= p /\ p <= Start)
    <3>1. "METACODE" \in Ordinary \cup Brackets \cup {"END_OF_FILE"} /\ "METACODE" \in Ordinary \cup {"METACODE"}
      BY DEF Brackets
    <3>2. p \in Nat
      BY <1>2
    <3>3. t \in Tokens
      BY <1>2, <3>1, TokenType
    <3>4. t \in Covering(p) <=> Start <= p /\ p <= Start
      BY <1>2, <3>1, <3>2, CoveringFacts
    <3> QED
      BY <3>3, <3>4
  <2> HIDE DEF t
  <2>2. Hits(r, Covering(p), Len(r)) = Covered(p) + (IF t \in Covering(p) THEN 1 ELSE 0)
    BY <1>1, <2>1, HitsAppend, StateFacts DEF Covered
  <2> QED
    BY <1>2, <2>1, <2>2
<1>6. ASSUME errors' = {}, ~HasLiteral, ~HasComment PROVE Outer(frames')
  <2>1. Top # Tokenize(Instruction)
    BY <1>1, <1>2, <1>3, LoopFacts
  <2>2. frames = <<Tokenize({})>>
    BY <1>1, <1>6, <2>1, OuterLoops
  <2>3. Append(<<Tokenize({})>>, Tokenize(Instruction)) = <<Tokenize({}), Tokenize(Instruction)>>
    BY TwoFacts
  <2>4. frames' = <<Tokenize({}), Tokenize(Instruction)>>
    BY <1>1, <2>2, <2>3, Zenon
  <2> QED
    BY <2>4 DEF Outer
<1>7. Start + 1 \in Start .. Size
  BY <1>2, <1>3
<1>8. Gained(r, Start, Start + 1)
  BY <1>5 DEF Gained
<1> QED
  BY <1>1, <1>2, <1>4, <1>6, <1>7, <1>8, CoverStep

LEMMA MetacodeEndKeepsLost == ASSUME Inv, LostInv, MetacodeEnd PROVE LostInv'
<1> DEFINE q == IF cur = Size THEN Size ELSE Start
           t == Token("METACODE_END", q, q)
           u == Token("METACODE", q, q)
<1>1. /\ Top.fn = "tokenize" /\ Top.exits = Instruction /\ text' = text /\ errors' = errors
      /\ \/ Ch(q) = "#" /\ tokens' = tokens \o <<t, u>> /\ cur' = q + 1 /\ frames' = frames
         \/ Ch(q) # "#" /\ tokens' = Append(tokens, t) /\ cur' = q /\ frames' = Below
  BY DEF MetacodeEnd, Runs
<1>2. Size \in Nat /\ TextOK /\ cur \in Nat /\ cur <= Size /\ Top = Tokenize(Instruction)
  BY <1>1, TopFacts
<1>3. q \in cur .. Size /\ q \in Nat /\ \A p \in cur .. q - 1 : Ch(p) \in Blanks
  <2>1. Start \in cur .. Size /\ \A p \in cur .. Start - 1 : Ch(p) \in Blanks
    BY <1>2, StartFacts
  <2> QED
    BY <1>2, <2>1
<1> HIDE DEF q
<1>4. /\ t \in Tokens /\ u \in Tokens
      /\ \A p \in Nat : t \notin Covering(p) /\ (u \in Covering(p) <=> p = q)
  <2>1. \A p \in Nat : t \notin Covering(p) /\ (u \in Covering(p) <=> q <= p /\ p <= q)
    BY <1>3, CoveringFacts DEF Synthetic
  <2> QED
    BY <1>3, <2>1, TokenType DEF Brackets
<1> HIDE DEF t, u
<1> PICK r : r = tokens'
  OBVIOUS
<1>5. tokens \in Seq(Tokens)
  BY StateFacts
<1>6. ASSUME NEW p \in 0 .. Size - 1
      PROVE  Covered(p) \in Nat /\ Hits(Append(tokens, t), Covering(p), Len(Append(tokens, t))) = Covered(p)
  <2>1. Len(tokens) \in 0 .. Len(tokens)
    BY <1>5
  <2>2. Hits(Append(tokens, t), Covering(p), Len(Append(tokens, t))) = Covered(p) + 0
    BY <1>4, <1>5, HitsAppend DEF Covered
  <2> QED
    BY <1>4, <1>5, <2>1, <2>2, HitsAppend DEF Covered
<1>7. CASE Ch(q) = "#"
  <2>1. q < Size
    BY <1>2, <1>3, <1>7, ChFacts
  <2>2. tokens \o <<t, u>> = Append(Append(tokens, t), u) /\ Append(tokens, t) \in Seq(Tokens)
    BY <1>4, <1>5
  <2>3. r = Append(Append(tokens, t), u) /\ cur' = q + 1 /\ frames' = frames
    BY <1>1, <1>7, <2>2
  <2>4. ASSUME NEW p \in 0 .. Size - 1
        PROVE  Hits(r, Covering(p), Len(r)) = Covered(p) + (IF q <= p /\ p < q + 1 THEN 1 ELSE 0)
    <3> DEFINE s == Append(tokens, t)
    <3>1. s \in Seq(Tokens) /\ r = Append(s, u) /\ Hits(s, Covering(p), Len(s)) = Covered(p)
      BY <1>6, <2>2, <2>3
    <3> HIDE DEF s
    <3>2. Hits(r, Covering(p), Len(r)) = Covered(p) + (IF u \in Covering(p) THEN 1 ELSE 0)
      BY <1>4, <3>1, HitsAppend
    <3>3. u \in Covering(p) <=> q <= p /\ p < q + 1
      BY <1>3, <1>4
    <3> QED
      BY <3>2, <3>3
  <2>5. q + 1 \in q .. Size
    BY <1>3, <1>2, <2>1
  <2>6. errors' = {} /\ ~HasLiteral /\ ~HasComment => Outer(frames')
    BY <1>1, <2>3 DEF LostInv, Outer
  <2>7. Gained(r, q, q + 1)
    BY <2>4 DEF Gained
  <2> QED
    BY <1>1, <1>3, <2>3, <2>5, <2>6, <2>7, CoverStep
<1>8. CASE Ch(q) # "#"
  <2>1. r = Append(tokens, t) /\ cur' = q /\ frames' = Below
    BY <1>1, <1>8
  <2>2. ASSUME NEW p \in 0 .. Size - 1
        PROVE  Hits(r, Covering(p), Len(r)) = Covered(p) + (IF q <= p /\ p < q THEN 1 ELSE 0)
    BY <1>3, <1>6, <2>1
  <2>3. ASSUME errors' = {}, ~HasLiteral, ~HasComment PROVE Outer(frames')
    <3>1. frames = <<Tokenize({}), Tokenize(Instruction)>>
      BY <1>1, <1>2, <2>3, OuterLoops
    <3>2. Below = <<Tokenize({})>>
      <4> DEFINE v == <<Tokenize({}), Tokenize(Instruction)>>
      <4>1. SubSeq(v, 1, Len(v) - 1) = <<Tokenize({})>>
        BY TwoFacts
      <4>2. Below = SubSeq(frames, 1, Len(frames) - 1)
        BY DEF Below, Depth
      <4> QED
        BY <3>1, <4>1, <4>2, Zenon
    <3> QED
      BY <2>1, <3>2 DEF Outer
  <2>4. q \in q .. Size
    BY <1>3, <1>2
  <2>5. Gained(r, q, q)
    BY <2>2 DEF Gained
  <2> QED
    BY <1>1, <1>3, <2>1, <2>3, <2>4, <2>5, CoverStep
<1> QED
  BY <1>7, <1>8

LEMMA NextLostInv == Inv /\ LostInv /\ [Next]_vars => LostInv'
<1> SUFFICES ASSUME Inv, LostInv, [Next]_vars PROVE LostInv'
  OBVIOUS
<1>0. Size \in Nat /\ TextOK /\ cur \in Nat /\ cur <= Size
  BY TopFacts
<1>1. CASE TakeSymbol \/ TakePlain \/ Placeholder
  <2>1. Begins /\ errors' = errors
    BY <1>1 DEF TakeSymbol, TakePlain, Placeholder
  <2>2. Start \in Nat /\ Start \in 0 .. Size
    BY <1>0, <2>1, BeginsFacts
  <2>3. CASE TakeSymbol
    <3>1. Longest(Start) # <<>> /\ Take(Symbol(Start))
      BY <2>3 DEF TakeSymbol
    <3> QED
      BY <1>0, <2>1, <2>2, <3>1, SymbolReads, ReadCovers
  <2>4. CASE TakePlain
    <3>1. Take(Plain(Start))
      BY <2>4 DEF TakePlain
    <3> QED
      BY <1>0, <2>1, <2>2, <3>1, PlainReads, ReadCovers
  <2>5. CASE Placeholder
    <3> DEFINE t == [found |-> <<Token("PLACEHOLDER", Start, PlaceholderEnd(Start))>>,
                     next |-> Move(PlaceholderEnd(Start)), buffer |-> Start]
    <3>1. IsPlaceholder(Start) /\ IsClosed(Start) /\ Take(t)
      BY <2>5 DEF Placeholder
    <3>2. Reads(t, Start)
      BY <1>0, <2>2, <3>1, PlaceholderReads
    <3> HIDE DEF t
    <3> QED
      BY <2>1, <3>1, <3>2, ReadCovers
  <2> QED
    BY <1>1, <2>3, <2>4, <2>5
<1>2. CASE Comment \/ Textual \/ BadPlaceholder
  <2>1. Begins
    BY <1>2 DEF Comment, Textual, BadPlaceholder
  <2>2. Start \in Nat /\ text' = text
    BY <2>1, BeginsFacts
  <2>3. CASE Comment
    <3>1. IsComment(Start) /\ Ch(Start) # "nul"
      BY <2>3 DEF Comment, IsComment
    <3>2. Start \in 0 .. Size - 1
      BY <1>0, <2>2, <3>1, ChFacts
    <3>3. HasComment
      BY <3>1, <3>2 DEF HasComment
    <3> QED
      BY <2>2, <3>3, ElsewhereKeepsLost
  <2>4. CASE Textual
    <3>1. IsTextual(Start) /\ Ch(Start) # "nul"
      BY <2>4 DEF Textual, IsTextual
    <3>2. Start \in 0 .. Size - 1
      BY <1>0, <2>2, <3>1, ChFacts
    <3>3. HasLiteral
      BY <3>1, <3>2 DEF HasLiteral
    <3> QED
      BY <2>2, <3>3, ElsewhereKeepsLost
  <2>5. CASE BadPlaceholder
    <3>1. errors' # {}
      BY <2>5, BadPlaceholderTurn
    <3> QED
      BY <2>2, <3>1, ElsewhereKeepsLost
  <2> QED
    BY <1>2, <2>3, <2>4, <2>5
<1>3. CASE Metacode
  BY <1>3, MetacodeKeepsLost
<1>4. CASE MetacodeEnd
  BY <1>4, MetacodeEndKeepsLost
<1>5. CASE Close \/ BadClose \/ Unterminated \/ Interpolate \/ Escape \/ Character
             \/ InterpolationEnd \/ Colon \/ OpenExpression \/ SpecToken \/ SpecStop
  <2>1. text' = text /\ errors \subseteq errors'
    BY <1>5, CloseTurn, BadCloseTurn, InterpolateTurn, EscapeTurn, CharacterTurn, InterpolationEndTurn, ColonTurn,
       OpenExpressionTurn, SpecTokenTurn, SpecStopTurn DEF Turn
  <2>2. Top \in Literals \/ Top = Tokenize(Expression) \/ Top = Spec_
    <3>1. Close \/ BadClose \/ Unterminated \/ Interpolate \/ Escape \/ Character => InLiteral
      BY DEF Close, BadClose, Unterminated, Interpolate, Escape, Character
    <3>2. InterpolationEnd \/ Colon \/ OpenExpression => EndsExpression
      BY DEF InterpolationEnd, Colon, OpenExpression
    <3>3. SpecToken \/ SpecStop => Top.fn = "spec"
      BY DEF SpecToken, SpecStop, Runs
    <3> QED
      BY <1>5, <3>1, <3>2, <3>3, InLiteralFacts, EndsExpressionFacts, TopFacts
  <2>3. Top \notin {Tokenize({}), Tokenize(Instruction)}
    BY <2>2, LoopsDiffer
  <2>4. errors # {} \/ HasLiteral \/ HasComment
    BY <2>3, OuterLoops
  <2>5. errors' # {} \/ HasLiteral \/ HasComment
    BY <2>1, <2>4
  <2> QED
    BY <2>1, <2>5, ElsewhereKeepsLost
<1>6. CASE EndOfFile
  <2> DEFINE t == Token("END_OF_FILE", buffer, cur)
  <2>1. tokens' = Append(tokens, t) /\ text' = text /\ cur' = cur /\ frames' = frames /\ errors' = errors
    BY <1>6 DEF EndOfFile
  <2>2. t \in Tokens /\ \A p \in Nat : t \notin Covering(p)
    BY <1>0, StateFacts, TokenType, CoveringFacts DEF Synthetic
  <2> HIDE DEF t
  <2> PICK r : r = tokens'
    OBVIOUS
  <2>3. ASSUME NEW p \in 0 .. Size - 1
        PROVE  Hits(r, Covering(p), Len(r)) = Covered(p) + (IF cur <= p /\ p < cur THEN 1 ELSE 0)
    <3>1. Hits(r, Covering(p), Len(r)) = Covered(p) + 0
      BY <2>1, <2>2, StateFacts, HitsAppend DEF Covered
    <3> QED
      BY <1>0, <3>1
  <2>4. cur \in cur .. Size /\ cur .. cur - 1 = {}
    BY <1>0
  <2>5. errors' = {} /\ ~HasLiteral /\ ~HasComment => Outer(frames')
    BY <2>1 DEF LostInv, Outer
  <2>6. Gained(r, cur, cur)
    BY <2>3 DEF Gained
  <2>7. \A p \in cur .. cur - 1 : Ch(p) \in Blanks
    BY <2>4
  <2> QED
    BY <2>1, <2>4, <2>5, <2>6, <2>7, CoverStep
<1>7. CASE text' = text /\ cur' = cur /\ tokens' = tokens /\ frames' = frames /\ errors' = errors
  BY <1>7 DEF LostInv, Covered, Size, HasLiteral, HasComment, IsTextual, IsComment, Ch
<1>8. Asserts \/ Finished \/ UNCHANGED vars
        => text' = text /\ cur' = cur /\ tokens' = tokens /\ frames' = frames /\ errors' = errors
  BY DEF Asserts, Finished, vars
<1> QED
  BY <1>1, <1>2, <1>3, <1>4, <1>5, <1>6, <1>7, <1>8 DEF Next

\* For every text without literals and comments: an accepted file is exactly its tokens,
\* every character that is not blank is in one token and in no second.
THEOREM NothingIsLost == Spec => []NothingLost
<1> DEFINE All == Inv /\ LostInv
<1>1. Init => All
  <2> SUFFICES ASSUME Init PROVE All
    OBVIOUS
  <2>1. tokens = <<>> /\ cur = 0 /\ frames = <<Tokenize({})>>
    BY DEF Init
  <2>2. ASSUME NEW p \in 0 .. Size - 1 PROVE Covered(p) = 0
    <3>1. {i \in 1 .. Len(tokens) : tokens[i] \in Covering(p)} = {}
      BY <2>1
    <3> QED
      BY <3>1, FS_EmptySet DEF Covered, Hits
  <2>3. Size \in Nat
    BY InitInv, TopFacts
  <2>4. LostInv
    BY <2>1, <2>2, <2>3 DEF LostInv
  <2> QED
    BY <2>4, InitInv
<1>2. All /\ [Next]_vars => All'
  BY NextInv, NextLostInv
<1>3. All => NothingLost
  <2> SUFFICES ASSUME All, status = "done", errors = {}, ~HasLiteral, ~HasComment,
                      NEW p \in 0 .. Size - 1, Ch(p) \notin Blanks
               PROVE  Cardinality({i \in DOMAIN tokens : /\ tokens[i].kind \notin Synthetic
                                                         /\ tokens[i].begin <= p /\ p <= tokens[i].end}) = 1
    BY DEF NothingLost
  <2>1. tokens \in Seq(Tokens) /\ DOMAIN tokens = 1 .. Len(tokens)
    BY StateFacts
  <2>2. {i \in DOMAIN tokens : tokens[i].kind \notin Synthetic /\ tokens[i].begin <= p /\ p <= tokens[i].end}
          = {i \in 1 .. Len(tokens) : tokens[i] \in Covering(p)}
    BY <2>1 DEF Covering
  <2>3. cur = Size /\ Size \in Nat
    BY TopFacts DEF Inv, StackInv
  <2>4. Covered(p) = 1
    BY <2>3 DEF LostInv
  <2> QED
    BY <2>2, <2>4 DEF Covered, Hits
<1> QED
  BY <1>1, <1>2, <1>3, PTL DEF Spec

=============================================================================
