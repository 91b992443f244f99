-------------------------------- MODULE Lexer --------------------------------
(***************************************************************************)
(* The lexer of one file (compiler/src/lexer/lexer.cpp on the cursor of    *)
(* lexer/stream_tracker.hpp).  tokenize calls itself for an instruction    *)
(* and for the expression of an interpolation, so the state holds the C++  *)
(* stack: one frame per running loop.  A step is one turn of the innermost *)
(* loop.  Positions count from 0, as in the code.                          *)
(***************************************************************************)
EXTENDS Integers, Sequences, FiniteSets

CONSTANT Sessions   \* a text and what the files before it left in last_op, None for nothing

None == -1

\* A character stands for its class: "a" for the letters, "r", "b", "e" and "x" for
\* the letters the lexer looks for, "0" for the digits, "nul" for what peek returns behind
\* the text; "quote", "tick", "under", "lbrace", "rbrace" and "blank" name the character.
Letters == {"a", "b", "e", "r", "x"}
Digits == {"0"}
Blanks == {"blank", "\n", "nul"}    \* is_space and is_ctrl; the latter holds of '\0'
Chars == Letters \cup Digits \cup {"blank", "\n", "under", ".", "=", ":", "+", "*", "/", "#", "$",
                                   "lbrace", "rbrace", "[", "]", "quote", "tick", "\\"}

\* k_DFA over these characters; b.a stands for the operators spelt as words.
Symbols == {<<"=">>, <<"=", "=">>, <<"+">>, <<"*">>, <<"*", "*">>, <<"/">>, <<".">>, <<".", ".">>,
            <<".", ".", "=">>, <<".", ".", ".">>, <<":">>, <<":", ":">>, <<"$">>, <<"under">>,
            <<"lbrace">>, <<"rbrace">>, <<"[">>, <<"]">>, <<"b", ".", "a">>}

ASSUME SessionsAssumption ==
  \A s \in Sessions : s.text \in Seq(Chars) /\ s.text # <<>> /\ s.last \in {None} \cup Nat

VARIABLES
  text,     \* the characters of the file
  cur,      \* the position of the stream
  buffer,   \* buffer_start_pos
  tokens,   \* the tokens of the arena, in order
  frames,   \* the running loops, innermost last
  errors,   \* the codes of the errors reported
  lastOp,   \* the static last_op of tokenize
  status    \* "lexing", "done" or "crash"

vars == <<text, cur, buffer, tokens, frames, errors, lastOp, status>>

Size == Len(text)
Ch(p) == IF p < Size THEN text[p + 1] ELSE "nul"          \* StreamTracker::peek
Move(p) == IF p < Size THEN p + 1 ELSE p                  \* StreamTracker::next
HasChain(p, l) == \A i \in 1 .. Len(l) : Ch(p + i - 1) = l[i]

\* The first position from p on that satisfies P, the end of the text if none does.
First(p, P(_)) ==
  LET found == {q \in p .. Size - 1 : P(q)}
  IN  IF found = {} THEN Size ELSE CHOOSE q \in found : \A r \in found : q <= r

Token(kind, begin, end) == [kind |-> kind, begin |-> begin, end |-> end]   \* end: begin + length - 1

\* The loops: tokenize with its set of exit_char, tokenize_literal with its
\* parameters, and the loop over the characters of a format specifier.
InstructionOneLine == {"\n"}     \* mutant: a # does not end an instruction
Instruction == {"\n", "#"}
Expression == {"rbrace", ":"}
Tokenize(exits) == [fn |-> "tokenize", exits |-> exits]
Literal(escape, quote, multi) == [fn |-> "literal", escape |-> escape, quote |-> quote, multi |-> multi]
Spec_ == [fn |-> "spec"]

Depth == Len(frames)
Top == frames[Depth]
Below == SubSeq(frames, 1, Depth - 1)
Runs(fn) == status = "lexing" /\ Top.fn = fn

Init ==
  /\ \E s \in Sessions : text = s.text /\ lastOp = s.last
  /\ cur = 0
  /\ buffer = 0
  /\ tokens = <<>>
  /\ frames = <<Tokenize({})>>
  /\ errors = {}
  /\ status = "lexing"

-----------------------------------------------------------------------------
(***************************************************************************)
(* The guard of tokenize.  At the end of the text peek returns a control   *)
(* character, so blanks that reach the end do not stop the loop: they are  *)
(* taken for a token that begins there.                                    *)
(***************************************************************************)
Start == First(cur, LAMBDA q : Ch(q) \notin Blanks \/ Ch(q) \in Top.exits)
Stops == cur = Size \/ (Start < Size /\ Ch(Start) \in Top.exits)

\* A token begins at Start.
Begins == Runs("tokenize") /\ ~Stops /\ lastOp' = Start /\ UNCHANGED <<text, status>>

\* assert(last_op != stream.position()), in a Debug build.
Asserts ==
  /\ Runs("tokenize") /\ ~Stops /\ lastOp = Start
  /\ status' = "crash"
  /\ UNCHANGED <<text, cur, buffer, tokens, frames, errors, lastOp>>

-----------------------------------------------------------------------------
(***************************************************************************)
(* Words, numbers and symbols.                                             *)
(***************************************************************************)
IsWord(c) == c \in Letters \cup Digits \cup {"under"}

\* read_identifier: the last character of the identifier at p.
WordEnd(p) ==
  IF Ch(p) \notin Letters \cup {"under"} THEN p ELSE First(p + 1, LAMBDA q : ~IsWord(Ch(q))) - 1

\* mutant: one character skipped.
WordSkips(p) == [found |-> <<Token("IDENTIFIER", p, WordEnd(p))>>, next |-> Move(Move(WordEnd(p))), buffer |-> p]

\* tokenize_keyword_identifier: a character that begins nothing is a token, too.
Word(p) == [found |-> <<Token("IDENTIFIER", p, WordEnd(p))>>, next |-> Move(WordEnd(p)), buffer |-> p]

\* The characters behind the first digit that tokenize_numeric makes part of a decimal
\* number: of an exponent the e and the sign behind it, of a range no dot.
InNumber(q) ==
  \/ Ch(q) \in Digits
  \/ Ch(q) = "." /\ Ch(q + 1) # "."
  \/ Ch(q) = "e"
  \/ Ch(q) = "+" /\ Ch(q - 1) = "e"

NumberEnd(p) == First(p + 1, LAMBDA q : ~InNumber(q)) - 1

IsHex(c) == c \in Digits \cup {"a", "b", "e", "under"}

\* A number with a base: whatever follows the 0x is part of it.
Based(p) ==
  LET end == First(Move(p + 1) + 1, LAMBDA q : ~IsHex(Ch(q))) - 1
      last == IF p + 2 < Size THEN end ELSE Size
  IN  [found |-> <<Token("L_HEX", p, last)>>, next |-> Move(last), buffer |-> p]

\* check_range_case: the integer before the dots, and the dots.
RangeFrom(p, c) ==
  LET last == IF Ch(c + 3) \in {"=", "."} THEN c + 3 ELSE c + 2
  IN  [found |-> <<Token("L_I", p, c), Token("RANGE", c + 1, last)>>, next |-> Move(last), buffer |-> c + 1]

Number(p) ==
  LET c == NumberEnd(p)
      decimal == \E q \in p + 1 .. c : Ch(q) \notin Digits
  IN  IF Ch(p + 1) = "x" THEN Based(p)
      ELSE IF Ch(c + 1) = "." THEN RangeFrom(p, c)
      ELSE [found |-> <<Token(IF decimal THEN "L_D" ELSE "L_I", p, c)>>, next |-> Move(c), buffer |-> p]

\* tokenize_DFA: the longest symbol at p, the empty one if there is none.  An
\* underscore is looked up behind itself, finds itself, and is never a symbol.
Matches(p) == {s \in Symbols : HasChain(p, s) /\ s # <<"under">>}
Longest(p) ==
  IF Matches(p) = {} THEN <<>> ELSE CHOOSE s \in Matches(p) : \A r \in Matches(p) : Len(r) <= Len(s)
SymbolStays(p) ==     \* mutant: the cursor stays on the symbol
  LET last == p + Len(Longest(p)) - 1
  IN  [found |-> <<Token("SYMBOL", p, last)>>, next |-> last, buffer |-> p]
Symbol(p) ==
  LET last == p + Len(Longest(p)) - 1
  IN  [found |-> <<Token("SYMBOL", p, last)>>, next |-> Move(last), buffer |-> p]

IsTextual(p) == Ch(p) \in {"quote", "tick"} \/ (Ch(p) = "r" /\ Ch(p + 1) \in {"quote", "tick"})
IsComment(p) == Ch(p) = "/" /\ Ch(p + 1) \in {"/", "*"}
IsPlaceholder(p) == Ch(p) = "[" /\ Ch(p + 1) = "["
Special(p) == IsTextual(p) \/ IsComment(p) \/ Ch(p) = "#" \/ IsPlaceholder(p)

\* What the end of tokenize's loop makes of the characters at p.
Plain(p) == IF Ch(p) \in Digits THEN Number(p) ELSE Word(p)

Take(r) == tokens' = tokens \o r.found /\ cur' = r.next /\ buffer' = r.buffer /\ UNCHANGED frames

TakeSymbol == Begins /\ ~Special(Start) /\ Longest(Start) # <<>> /\ Take(Symbol(Start)) /\ UNCHANGED errors
TakePlain == Begins /\ ~Special(Start) /\ Longest(Start) = <<>> /\ Take(Plain(Start)) /\ UNCHANGED errors

-----------------------------------------------------------------------------
(***************************************************************************)
(* Comments, placeholders and instructions.                                *)
(***************************************************************************)
\* Both loops step once before they look, so the character behind the opening is
\* never the end of the comment.
CommentEnd(p) ==
  IF Ch(p + 1) = "/" THEN First(p + 3, LAMBDA q : Ch(q) = "\n")
  ELSE LET end == First(p + 3, LAMBDA q : HasChain(q, <<"*", "/">>))
       IN  IF end = Size THEN Size ELSE end + 2

Comment ==
  /\ Begins /\ IsComment(Start) /\ ~IsTextual(Start)
  /\ cur' = CommentEnd(Start)
  /\ buffer' = Start
  /\ UNCHANGED <<tokens, frames, errors>>

\* [[Identifier]]
PlaceholderEnd(p) == WordEnd(p + 2) + 2
IsClosed(p) == HasChain(PlaceholderEnd(p) - 1, <<"]", "]">>)

Placeholder ==
  /\ Begins /\ IsPlaceholder(Start) /\ IsClosed(Start)
  /\ Take([found |-> <<Token("PLACEHOLDER", Start, PlaceholderEnd(Start))>>,
           next |-> Move(PlaceholderEnd(Start)), buffer |-> Start])
  /\ UNCHANGED errors

\* After the error the characters behind the brackets become a token, whatever they are.
BadPlaceholder ==
  /\ Begins /\ IsPlaceholder(Start) /\ ~IsClosed(Start)
  /\ LET word == WordEnd(Start + 2)
     IN  Take(Plain(IF Ch(word + 1) = "]" THEN word + 1 ELSE word))
  /\ errors' = errors \cup {0}

\* tokenize_metacode up to its call of tokenize.
Metacode ==
  /\ Begins /\ Ch(Start) = "#"
  /\ tokens' = Append(tokens, Token("METACODE", Start, Start))
  /\ cur' = Move(Start)
  /\ buffer' = Start
  /\ frames' = Append(frames, Tokenize(Instruction))
  /\ UNCHANGED errors

\* Its end, which takes no character; the next # begins the next instruction at once.
MetacodeEnd ==
  /\ Runs("tokenize") /\ Top.exits = Instruction /\ Stops
  /\ LET q == IF cur = Size THEN Size ELSE Start
         end == Token("METACODE_END", q, q)
     IN  IF Ch(q) = "#"
         THEN /\ tokens' = tokens \o <<end, Token("METACODE", q, q)>>
              /\ cur' = q + 1 /\ buffer' = q /\ UNCHANGED frames
         ELSE /\ tokens' = Append(tokens, end)
              /\ cur' = q /\ buffer' = q /\ frames' = Below
  /\ UNCHANGED <<text, errors, lastOp, status>>

-----------------------------------------------------------------------------
(***************************************************************************)
(* tokenize_textual: the opening delimiters in the order of the code.      *)
(***************************************************************************)
Triple == <<"quote", "quote", "quote">>
Openings == <<<<Triple, Literal(TRUE, "quote", TRUE)>>,
              <<<<"r">> \o Triple, Literal(FALSE, "quote", TRUE)>>,
              <<<<"r", "quote">>, Literal(FALSE, "quote", FALSE)>>,
              <<<<"r", "tick">>, Literal(FALSE, "tick", FALSE)>>,
              <<<<"tick">>, Literal(TRUE, "tick", FALSE)>>,
              <<<<"quote">>, Literal(TRUE, "quote", FALSE)>>>>

Opening(p) ==
  LET i == CHOOSE i \in DOMAIN Openings :
             HasChain(p, Openings[i][1]) /\ \A j \in 1 .. i - 1 : ~HasChain(p, Openings[j][1])
  IN  Openings[i]

Textual ==
  /\ Begins /\ IsTextual(Start)
  /\ LET open == Opening(Start)
         behind == Start + Len(open[1])
         broken == open[2].multi /\ Ch(behind) # "\n"     \* text on the line of the quotes
     IN  /\ cur' = IF open[2].multi /\ ~broken THEN behind + 1 ELSE behind
         /\ frames' = IF broken THEN frames ELSE Append(frames, open[2])
         /\ errors' = IF broken THEN errors \cup {229} ELSE errors
  /\ buffer' = cur'
  /\ UNCHANGED tokens

InLiteral == Runs("literal") /\ UNCHANGED <<text, lastOp, status>>
Closes ==
  IF Top.multi THEN HasChain(cur, <<"\n">> \o Triple) \/ HasChain(cur, Triple) ELSE Ch(cur + 1) = Top.quote
Interpolates == ~Closes /\ HasChain(cur, <<"$", "lbrace">>)
Escapes == ~Closes /\ ~Interpolates /\ Top.escape /\ Ch(cur) = "\\"

\* The closing quote is looked for one character ahead, so what the cursor is on is
\* taken to be text: of "" it is the quote itself.
Close ==
  /\ InLiteral /\ Closes /\ (Top.multi => Ch(cur) = "\n")
  /\ tokens' = Append(tokens, Token("L_TEXTUAL", buffer, cur))
  /\ cur' = IF Top.multi THEN cur + 4 ELSE Move(cur + 1)
  /\ frames' = Below
  /\ UNCHANGED <<buffer, errors>>

\* Three quotes that do not begin a line.
BadClose ==
  /\ InLiteral /\ Closes /\ Top.multi /\ Ch(cur) # "\n"
  /\ buffer' = cur
  /\ errors' = errors \cup {229}
  /\ frames' = Below
  /\ UNCHANGED <<cur, tokens>>

\* ${: the text before it with the $, the brace, then tokenize for the expression.
Interpolate ==
  /\ InLiteral /\ Interpolates
  /\ tokens' = tokens \o <<Token("L_TEXTUAL", buffer, cur), Token("INTERPOLATION_START", cur + 1, cur + 1)>>
  /\ cur' = cur + 2
  /\ buffer' = cur + 2
  /\ frames' = Append(frames, Tokenize(Expression))
  /\ UNCHANGED errors

\* process_escape stays on the escaped character; the next turn of the loop reads it again.
Escape ==
  /\ InLiteral /\ Escapes
  /\ LET c == Move(cur)
         hex == IF IsHex(Ch(c + 1)) /\ Ch(c + 1) # "under" THEN c + 2 ELSE c + 1
         bad == IF Ch(c) = "x" THEN IF Ch(hex) \in {"a", "b", "e", "0"} /\ hex = c + 2 THEN {} ELSE {2}
                ELSE IF Ch(c) \in {"a", "b", "r", "0", "\\", "quote"} THEN {} ELSE {6}
     IN  /\ cur' = IF Ch(c) # "x" THEN c ELSE IF hex > Size THEN Size ELSE hex
         /\ errors' = errors \cup bad
         /\ buffer' = IF bad = {} THEN buffer ELSE cur'
  /\ UNCHANGED <<tokens, frames>>

Character ==
  /\ InLiteral /\ ~Closes /\ ~Interpolates /\ ~Escapes /\ cur < Size
  /\ cur' = cur + 1
  /\ UNCHANGED <<buffer, tokens, frames, errors>>

Unterminated ==
  /\ InLiteral /\ ~Closes /\ ~Interpolates /\ ~Escapes /\ cur = Size
  /\ buffer' = cur
  /\ errors' = errors \cup {229}
  /\ frames' = Below
  /\ UNCHANGED <<cur, tokens>>

-----------------------------------------------------------------------------
(***************************************************************************)
(* The end of the expression of an interpolation, its format specifier.    *)
(***************************************************************************)
EndsExpression == Runs("tokenize") /\ Top.exits = Expression /\ Stops /\ UNCHANGED <<text, errors, lastOp, status>>

InterpolationEndSilent ==     \* mutant: the brace becomes no token
  /\ EndsExpression /\ Ch(Start) = "rbrace"
  /\ cur' = Start + 1
  /\ frames' = Below
  /\ UNCHANGED <<buffer, tokens>>

\* The extent goes back to the last token of the expression: buffer_start_pos is its own.
InterpolationEnd ==
  /\ EndsExpression /\ Ch(Start) = "rbrace"
  /\ tokens' = Append(tokens, Token("INTERPOLATION_END", buffer, Start))
  /\ cur' = Start + 1
  /\ frames' = Below
  /\ UNCHANGED buffer

Colon ==
  /\ EndsExpression /\ Ch(Start) = ":"
  /\ tokens' = Append(tokens, Token("COLON", Start, Start))
  /\ cur' = Start + 1
  /\ buffer' = Start
  /\ frames' = Append(Below, Spec_)

OpenExpression ==       \* the text ends in the expression
  /\ EndsExpression /\ cur = Size
  /\ frames' = Below
  /\ UNCHANGED <<cur, buffer, tokens>>

\* tokenize_spec, and the step of the loop around it, which skips one more character.
IsSpec(c) == c \in Letters \cup Digits \cup {".", "under", "+", "=", "blank"}
SpecEnd == IF Ch(cur) \in Digits THEN First(cur + 1, LAMBDA q : Ch(q) \notin Digits) - 1 ELSE cur

SpecToken ==
  /\ Runs("spec") /\ IsSpec(Ch(cur))
  /\ tokens' = Append(tokens, Token("SPEC", cur, SpecEnd))
  /\ cur' = Move(Move(SpecEnd))
  /\ buffer' = cur
  /\ UNCHANGED <<text, frames, errors, lastOp, status>>

SpecStop ==
  /\ Runs("spec") /\ ~IsSpec(Ch(cur))
  /\ IF Ch(cur) = "rbrace"
     THEN /\ tokens' = Append(tokens, Token("INTERPOLATION_END", cur, cur))
          /\ cur' = cur + 1 /\ UNCHANGED errors
     ELSE errors' = errors \cup {151} /\ UNCHANGED <<tokens, cur>>
  /\ buffer' = cur
  /\ frames' = Below
  /\ UNCHANGED <<text, lastOp, status>>

\* The token of the end of file begins where the last buffer began.
EndOfFile ==
  /\ Runs("tokenize") /\ Top.exits = {} /\ Stops
  /\ tokens' = Append(tokens, Token("END_OF_FILE", buffer, cur))
  /\ status' = "done"
  /\ UNCHANGED <<text, cur, buffer, frames, errors, lastOp>>

Finished == status # "lexing" /\ UNCHANGED vars

Next ==
  \/ Asserts \/ TakeSymbol \/ TakePlain \/ Comment \/ Placeholder \/ BadPlaceholder
  \/ Metacode \/ MetacodeEnd
  \/ Textual \/ Close \/ BadClose \/ Interpolate \/ Escape \/ Character \/ Unterminated
  \/ InterpolationEnd \/ Colon \/ OpenExpression \/ SpecToken \/ SpecStop
  \/ EndOfFile \/ Finished

Spec == Init /\ [][Next]_vars

-----------------------------------------------------------------------------
(***************************************************************************)
(* Properties.                                                             *)
(***************************************************************************)

\* The tokens that stand for no character of their own.
Synthetic == {"METACODE_END", "END_OF_FILE"}

\* Without literals and comments an accepted file is exactly its tokens: every
\* character that is not blank is in one token and in no second.
HasLiteral == \E p \in 0 .. Size - 1 : IsTextual(p)
HasComment == \E p \in 0 .. Size - 1 : IsComment(p)
NothingLost ==
  status = "done" /\ errors = {} /\ ~HasLiteral /\ ~HasComment =>
    \A p \in 0 .. Size - 1 : Ch(p) \notin Blanks =>
      Cardinality({i \in DOMAIN tokens : tokens[i].kind \notin Synthetic
                                           /\ tokens[i].begin <= p /\ p <= tokens[i].end}) = 1

Open(n) == Cardinality({i \in 1 .. n : tokens[i].kind = "METACODE"})
             - Cardinality({i \in 1 .. n : tokens[i].kind = "METACODE_END"})
\* What the preprocessor assumes of a file: the end of file is the last token and only
\* that, instructions are closed, and without interpolations none is inside another.
InstructionsClosed ==
  status = "done" =>
    /\ \A i \in DOMAIN tokens : tokens[i].kind = "END_OF_FILE" <=> i = Len(tokens)
    /\ \A n \in DOMAIN tokens : Open(n) >= 0
    /\ Open(Len(tokens)) = 0
    /\ (\A i \in DOMAIN tokens : tokens[i].kind # "INTERPOLATION_START") => \A n \in DOMAIN tokens : Open(n) <= 1

Inside(n) == Cardinality({i \in 1 .. n : tokens[i].kind = "INTERPOLATION_START"})
               - Cardinality({i \in 1 .. n : tokens[i].kind = "INTERPOLATION_END"})
\* In an accepted file every interpolation is closed, and between its two tokens the
\* kinds pair up like brackets: the parser of literals counts on it.
InterpolationsClosed ==
  status = "done" /\ errors = {} => Inside(Len(tokens)) = 0 /\ \A n \in DOMAIN tokens : Inside(n) >= 0

\* Every turn of every loop advances the cursor or leaves the loop, so the lexer ends on
\* every text: no comment, no literal and no broken specifier keeps it where it is.
Advances ==
  [][\/ cur' > cur
     \/ cur' = cur /\ (status' # status \/ Len(frames') < Len(frames))]_vars
=============================================================================
