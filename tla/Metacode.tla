------------------------------- MODULE Metacode -------------------------------
(***************************************************************************)
(* The preprocessor and the token generator of one unit                    *)
(* (compiler/src/metacode/preprocessor.cpp and token_generator.cpp) on the *)
(* cursor of lexer/token_viewer.cpp: the tokens of the lexer are           *)
(* distributed over the metacodes of the file, and the parser gets those   *)
(* of the root metacode.                                                   *)
(*                                                                         *)
(* preprocess_any and the functions below it call each other, so the state *)
(* holds their C++ stack: one frame per running loop.  A token is its      *)
(* position in the file.                                                   *)
(***************************************************************************)
EXTENDS Naturals, Sequences

CONSTANT Files   \* the files, as the lexer cuts them into tokens

\* The kinds of token the preprocessor tells apart: METACODE is "#",
\* S_METACODE_END "$", S_METACODE_PLACEHOLDER "[[n]]", S_END_OF_FILE "eof".  The
\* words of instructions stand for themselves, "n" is the name of a placeholder or
\* a scope, "x" is anything else.
Words == {"if", "elif", "else", "end", "scope", "expand", "each", "for", "as", "n", "x"}
Symbols == Words \cup {"#", "$", "[[n]]", "eof"}

\* The token at i is read before the end of an instruction.
Inside(t, i) == \E h \in 1 .. i : t[h] = "#" /\ \A k \in h .. i : t[k] # "$"

\* The lexer ends every instruction, and nothing else, with one S_METACODE_END
\* (tokenize_metacode), and the file with S_END_OF_FILE (tokenize).
ASSUME FilesAssumption ==
  \A f \in Files :
    /\ f \in Seq(Symbols) /\ f # <<>>
    /\ \A i \in 1 .. Len(f) : f[i] = "eof" <=> i = Len(f)
    /\ \A i \in 1 .. Len(f) : f[i] = "$" => i > 1 /\ Inside(f, i - 1)
    /\ Len(f) > 1 => ~Inside(f, Len(f) - 1)

VARIABLES
  file,     \* file_info.tokens before the generator ran
  cur,      \* the position of the viewer
  metas,    \* the conditions, blocks and expansions in the order of creation; the root is 1
  parent,   \* current_parent
  expand,   \* current_expand, 0 for nullptr
  frames,   \* the running functions, innermost last
  step,     \* "loop", "any" (preprocess_any, when preprocess_if returned NO_ID), "header"
  errors,   \* the codes of the errors reported
  tokens,   \* tokens_generated
  status    \* "preprocessing", "generated" or "crash"

vars == <<file, cur, metas, parent, expand, frames, step, errors, tokens, status>>

Last == Len(file)
AtEnd == cur = Last                            \* Viewer::is_end
Past(p) == IF p < Last THEN p ELSE Last        \* Viewer::jump
Peek(p) == file[Past(p)]
Tok == Peek(cur)

\* check_metacode: METACODE and the words of the pattern; After is where
\* match_metacode jumps to.
Check(pattern) == Tok = "#" /\ \A i \in 1 .. Len(pattern) : Peek(cur + i) = pattern[i]
\* Mutant: match_metacode jumps one token too far.
AfterOneMore(pattern) == Past(cur + Len(pattern) + 2)
After(pattern) == Past(cur + Len(pattern) + 1)

IfMark == <<"if">>
ElifMark == <<"elif">>
ElseMark == <<"else", "$">>
EndIfMark == <<"end", "if", "$">>
ScopeMark == <<"scope", "$">>
NamedScopeMark == <<"scope", "n", "$">>
EndScopeMark == <<"end", "scope", "$">>
ExpandMark == <<"expand", "$">>
ForMark == <<"for", "n", "as">>
EachMark == <<"each", "$">>
EndEachMark == <<"end", "each", "$">>
EndMark == <<"end", "$">>

Branches == {"if", "elif", "else"}
Blocks == {"scope", "each"}

Meta(kind) == [kind |-> kind,    \* "root", "if", "elif", "else", "inline", "scope", "each"
               ended |-> kind = "inline",   \* its end was found: header.scope.end_pos
               next |-> 0,       \* alternative of a condition, 0 for NO_ID
               named |-> FALSE,  \* an expansion with a placeholder
               list |-> <<>>]    \* tokens_to_generate

Frame(kind, meta) == [kind |-> kind, meta |-> meta, old |-> parent]   \* old_parent

New == Len(metas) + 1
Depth == Len(frames)
Top == frames[Depth]
In(kinds) == frames # <<>> /\ Top.kind \in kinds

\* A function creates its metacode, calls its loop with the metacode as parent, and
\* leaves it with the parent it found.
Push(kind) ==
  /\ metas' = Append(metas, Meta(kind))
  /\ frames' = Append(frames, Frame(kind, New))
  /\ parent' = New
Pop ==
  /\ frames' = SubSeq(frames, 1, Depth - 1)
  /\ parent' = Top.old

\* Where instructions end from p on, and rows of instructions that follow one
\* another; the position after the first such end.
Ends(p) == {q \in p .. Last : file[q] = "$"}
RowEnds(p) == {q \in Ends(p) : Peek(q + 1) # "#"}
AfterEnd(ends) == IF ends = {} THEN Last ELSE 1 + CHOOSE q \in ends : \A r \in ends : q <= r

Init ==
  /\ file \in Files
  /\ cur = 1
  /\ metas = <<[kind |-> "root", ended |-> FALSE, next |-> 0, named |-> FALSE, list |-> <<>>]>>
  /\ parent = 1
  /\ expand = 0
  /\ frames = <<>>
  /\ step = "loop"
  /\ errors = {}
  /\ tokens = <<>>
  /\ status = "preprocessing"

Running == status = "preprocessing" /\ UNCHANGED <<file, tokens>>
Stays == UNCHANGED status
Loop == Running /\ step = "loop" /\ ~AtEnd

-----------------------------------------------------------------------------
(***************************************************************************)
(* preprocess_token, called with the token at p when the viewer is behind  *)
(* it: a placeholder is looked up by the text of the token that follows.   *)
(* Flag is the number of the placeholder, above the position of any token, *)
(* NoId the empty id of an unknown one.                                    *)
(***************************************************************************)
NoId == 0
Flag == Last + 1

IsPlaceholder(p) == file[p] = "[[n]]"
Dangling(p) == IsPlaceholder(p) /\ expand = 0      \* assert(current_expand)
Known(p) == metas[expand].named /\ Peek(p + 1) = "n"
Entry(p) == IF ~IsPlaceholder(p) THEN p ELSE IF Known(p) THEN Flag ELSE NoId
Complaint(p) == IF IsPlaceholder(p) /\ ~Known(p) THEN {146} ELSE {}

\* add_token_to_generate(next()) with the viewer at p; at the end next() gives the
\* last token again.
AddToken(p) ==
  /\ ~Dangling(p)
  /\ metas' = [metas EXCEPT ![parent].list = Append(@, Entry(p))]
  /\ cur' = Past(p + 1)
  /\ step' = "loop"
  /\ UNCHANGED <<parent, expand, frames>>
  /\ Stays

-----------------------------------------------------------------------------
(***************************************************************************)
(* Conditions.  # elif and # else are loops called from the loop of the    *)
(* branch before; # end if makes the whole chain return, and no function   *)
(* of the chain restores current_parent then.                              *)
(***************************************************************************)

\* A new branch whose condition is the token at c and, if it follows, the end of
\* the instruction.
StartBranch(kind, c) ==
  /\ ~Dangling(c)
  /\ Push(kind)
  /\ step' = "loop"
  /\ cur' = LET q == Past(c + 1) IN IF file[q] = "$" THEN q + 1 ELSE q
  /\ errors' = errors \cup Complaint(c)
  /\ UNCHANGED expand
  /\ Stays

Elif == Loop /\ In({"if", "elif"}) /\ Check(ElifMark) /\ StartBranch("elif", After(ElifMark))

Else ==
  /\ Loop /\ In({"if", "elif"}) /\ Check(ElseMark)
  /\ Push("else")
  /\ cur' = After(ElseMark)
  /\ UNCHANGED <<expand, step, errors>>
  /\ Stays

\* The frame of the # if the innermost branch belongs to.
ChainStart == CHOOSE i \in 1 .. Depth : frames[i].kind = "if" /\ \A j \in i + 1 .. Depth : frames[j].kind # "if"

\* Every branch gets the one called from it as its alternative, the last one its
\* end; preprocess_if returns NO_ID, so preprocess_any goes on in the frame below.
EndIf ==
  /\ Loop /\ In(Branches) /\ Check(EndIfMark)
  /\ LET at(i) == frames[i].meta IN
       metas' = [m \in DOMAIN metas |->
                   IF m = at(Depth) THEN [metas[m] EXCEPT !.ended = TRUE]
                   ELSE IF \E i \in ChainStart .. Depth - 1 : at(i) = m
                     THEN [metas[m] EXCEPT !.next = at(1 + CHOOSE i \in ChainStart .. Depth - 1 : at(i) = m)]
                     ELSE metas[m]]
  /\ frames' = SubSeq(frames, 1, ChainStart - 1)
  /\ cur' = After(EndIfMark)
  /\ step' = "any"
  /\ UNCHANGED <<parent, expand, errors>>
  /\ Stays

-----------------------------------------------------------------------------
(***************************************************************************)
(* # end scope and # end each.                                             *)
(***************************************************************************)

EndBlock(kind, pattern) ==
  /\ Loop /\ In({kind}) /\ Check(pattern)
  /\ Pop
  /\ cur' = After(pattern)
  /\ UNCHANGED <<step, errors>>
  /\ Stays

EndScope ==
  /\ EndBlock("scope", EndScopeMark)
  /\ metas' = [metas EXCEPT ![Top.meta].ended = TRUE]
  /\ UNCHANGED expand

\* Mutant: current_expand is not cleared.
EndEachStays ==
  /\ expand # 0
  /\ EndBlock("each", EndEachMark)
  /\ metas' = [metas EXCEPT ![expand].ended = TRUE]
  /\ UNCHANGED expand

\* The end is written through current_expand.
EndEach ==
  /\ expand # 0
  /\ EndBlock("each", EndEachMark)
  /\ metas' = [metas EXCEPT ![expand].ended = TRUE]
  /\ expand' = 0

-----------------------------------------------------------------------------
(***************************************************************************)
(* preprocess_any.                                                         *)
(***************************************************************************)
Closes ==
  \/ In(Branches) /\ Check(EndIfMark)
  \/ In({"if", "elif"}) /\ (Check(ElseMark) \/ Check(ElifMark))
  \/ In({"scope"}) /\ Check(EndScopeMark)
  \/ In({"each"}) /\ Check(EndEachMark)

\* start_preprocessor also skips an S_METACODE_END; every function it runs leaves
\* the viewer behind the end of an instruction, so there is none to skip.
Any == Loop /\ ~Closes

If == Any /\ Check(IfMark) /\ StartBranch("if", After(IfMark))

\* preprocess_if reports an # elif or # end if of no condition and goes on.
StrayBranch ==
  /\ Any
  /\ \/ Check(ElifMark) /\ errors' = errors \cup {137}
     \/ Check(EndIfMark) /\ errors' = errors \cup {138}
  /\ step' = "any"
  /\ UNCHANGED <<cur, metas, parent, expand, frames>>
  /\ Stays

\* The rest of preprocess_any, and add_token_to_generate when it returns NO_ID.
Rest ==
  \/ Running /\ step = "any"
  \/ Any /\ ~Check(IfMark) /\ ~Check(ElifMark) /\ ~Check(EndIfMark)

Token == Rest /\ Tok # "#" /\ AddToken(cur) /\ errors' = errors \cup Complaint(cur)

\* # end is reported, and the token behind it is added whatever it is.
StrayEnd ==
  /\ Rest /\ Check(EndMark)
  /\ AddToken(After(EndMark))
  /\ errors' = errors \cup {135} \cup Complaint(After(EndMark))

Expand ==
  /\ Rest /\ Check(ExpandMark)
  /\ Push("each")
  /\ expand' = New
  /\ cur' = After(ExpandMark)
  /\ step' = "header"
  /\ UNCHANGED errors
  /\ Stays

\* preprocess_metablock with a scope as its first instruction.
Scope ==
  /\ Rest
  /\ \E pattern \in {ScopeMark, NamedScopeMark} : Check(pattern) /\ cur' = After(pattern)
  /\ Push("scope")
  /\ step' = "loop"
  /\ UNCHANGED <<expand, errors>>
  /\ Stays

\* preprocess_metablock with any other: the instructions that follow one another
\* are all read as words of the block, whatever they are; so is an # if that
\* follows an # end if.
Inline ==
  /\ Rest /\ Tok = "#"
  /\ \A pattern \in {ExpandMark, EndMark, ScopeMark, NamedScopeMark} : ~Check(pattern)
  /\ metas' = Append(metas, Meta("inline"))
  /\ cur' = AfterEnd(RowEnds(cur))
  /\ step' = "loop"
  /\ UNCHANGED <<parent, expand, frames, errors>>
  /\ Stays

-----------------------------------------------------------------------------
(***************************************************************************)
(* _expand_header, and what every loop does at the end of the file.        *)
(***************************************************************************)
Header == Running /\ step = "header"

For ==
  /\ Header /\ ~AtEnd /\ Check(ForMark)
  /\ metas' = [metas EXCEPT ![expand].named = TRUE]
  /\ cur' = AfterEnd(Ends(After(ForMark)))
  /\ UNCHANGED <<parent, expand, frames, step, errors>>
  /\ Stays

\* Mutant: the header goes on after an error.
EndHeaderRetries ==
  /\ Header
  /\ \/ AtEnd /\ errors' = errors \cup {144} /\ step' = "loop" /\ UNCHANGED cur
     \/ ~AtEnd /\ Check(EachMark) /\ cur' = After(EachMark) /\ step' = "loop" /\ UNCHANGED errors
     \/ Tok = "#" /\ ~Check(ForMark) /\ ~Check(EachMark) /\ errors' = errors \cup {142} /\ UNCHANGED <<cur, step>>
     \/ ~AtEnd /\ Tok # "#" /\ errors' = errors \cup {143} /\ UNCHANGED <<cur, step>>
  /\ UNCHANGED <<metas, parent, expand, frames>>
  /\ Stays

\* Whatever is wrong with the header, the body is read next.
EndHeader ==
  /\ Header
  /\ \/ AtEnd /\ errors' = errors \cup {144} /\ UNCHANGED cur
     \/ ~AtEnd /\ Check(EachMark) /\ cur' = After(EachMark) /\ UNCHANGED errors
     \/ Tok = "#" /\ ~Check(ForMark) /\ ~Check(EachMark) /\ errors' = errors \cup {142} /\ UNCHANGED cur
     \/ ~AtEnd /\ Tok # "#" /\ errors' = errors \cup {143} /\ UNCHANGED cur
  /\ step' = "loop"
  /\ UNCHANGED <<metas, parent, expand, frames>>
  /\ Stays

Missing(kind) == CASE kind = "if" -> 139 [] kind = "else" -> 140 [] kind = "elif" -> 141
                   [] kind = "scope" -> 136 [] kind = "each" -> 145

\* Mutant: only an unclosed condition is an error.
UnclosedSilent ==
  /\ Running /\ step = "loop" /\ AtEnd /\ frames # <<>>
  /\ errors' = errors \cup (IF Top.kind \in Branches THEN {Missing(Top.kind)} ELSE {})
  /\ Pop
  /\ expand' = IF Top.kind = "each" THEN 0 ELSE expand
  /\ step' = IF Top.kind \in Branches THEN "any" ELSE "loop"
  /\ UNCHANGED <<cur, metas>>
  /\ Stays

\* The loop of the innermost function ends without its end; a branch returns false
\* to the loop that called it, or NO_ID, and preprocess_any runs there.
Unclosed ==
  /\ Running /\ step = "loop" /\ AtEnd /\ frames # <<>>
  /\ errors' = errors \cup {Missing(Top.kind)}
  /\ Pop
  /\ expand' = IF Top.kind = "each" THEN 0 ELSE expand
  /\ step' = IF Top.kind \in Branches THEN "any" ELSE "loop"
  /\ UNCHANGED <<cur, metas>>
  /\ Stays

\* An assertion on current_expand, or a write through it.
Crash ==
  /\ \/ Rest /\ Tok # "#" /\ Dangling(cur)
     \/ Rest /\ Check(EndMark) /\ Dangling(After(EndMark))
     \/ Any /\ Check(IfMark) /\ Dangling(After(IfMark))
     \/ Loop /\ In({"if", "elif"}) /\ Check(ElifMark) /\ Dangling(After(ElifMark))
     \/ Loop /\ In({"each"}) /\ Check(EndEachMark) /\ expand = 0
  /\ status' = "crash"
  /\ UNCHANGED <<cur, metas, parent, expand, frames, step, errors>>

\* start_generator and the end of preprocessing_cu: gen_tokens copies the tokens of
\* the root; each one must exist.  The other metacodes are never visited, because
\* no list holds k_metacode_flag.
Generate ==
  /\ status = "preprocessing" /\ step = "loop" /\ AtEnd /\ frames = <<>>
  /\ LET list == metas[1].list IN
       IF \A i \in 1 .. Len(list) : list[i] \in 1 .. Last
         THEN status' = "generated" /\ tokens' = list
         ELSE status' = "crash" /\ UNCHANGED tokens
  /\ UNCHANGED <<file, cur, metas, parent, expand, frames, step, errors>>

Done == status # "preprocessing" /\ UNCHANGED vars

Next ==
  \/ If \/ Elif \/ Else \/ EndIf \/ StrayBranch
  \/ Expand \/ For \/ EndHeader \/ EndEach
  \/ Scope \/ EndScope \/ Inline \/ StrayEnd \/ Token
  \/ Unclosed \/ Crash \/ Generate \/ Done

\* The preprocessor is one thread that nothing blocks.
Spec == Init /\ [][Next]_vars /\ WF_vars(Next)
-----------------------------------------------------------------------------
Codes == {135, 136, 137, 138, 139, 140, 141, 142, 143, 144, 145, 146}
MetaType == [kind : {"root", "inline"} \cup Branches \cup Blocks, ended : BOOLEAN,
             next : Nat, named : BOOLEAN, list : Seq(Nat)]
FrameType == [kind : Branches \cup Blocks, meta : Nat, old : Nat]

TypeOK ==
  /\ cur \in 1 .. Last
  /\ metas \in Seq(MetaType)
  /\ \A m \in 1 .. Len(metas) :
       /\ metas[m].next <= Len(metas)
       /\ \A i \in 1 .. Len(metas[m].list) : metas[m].list[i] <= Flag
  /\ parent \in 1 .. Len(metas)
  /\ expand \in 0 .. Len(metas)
  /\ frames \in Seq(FrameType)
  /\ \A i \in 1 .. Depth : /\ frames[i].meta \in 1 .. Len(metas)
                           /\ frames[i].kind = metas[frames[i].meta].kind
                           /\ frames[i].old \in 1 .. Len(metas)
  /\ step \in {"loop", "any", "header"}
  /\ errors \subseteq Codes
  /\ tokens \in Seq(1 .. Last)
  /\ status \in {"preprocessing", "generated", "crash"}

\* A token of the code, and the places of a list with a token before the last.
Code(p) == file[p] \in Words /\ ~Inside(file, p)
Positions(m) == {i \in 1 .. Len(metas[m].list) : metas[m].list[i] \in 1 .. Last - 1}

\* The preprocessor only sorts the code: every token the viewer has passed that is
\* no part of an instruction is in the list of exactly one metacode, once, and
\* every list keeps the order of the file (add_token_to_generate,
\* preprocess_metablock, preprocess_condition and the jumps of match_metacode).
CodeKeptOnce ==
  /\ \A p \in 1 .. cur - 1 :
       Code(p) => \E m \in 1 .. Len(metas) : \E i \in Positions(m) : metas[m].list[i] = p
  /\ \A m, n \in 1 .. Len(metas) : \A i \in Positions(m), j \in Positions(n) :
       metas[m].list[i] = metas[n].list[j] => m = n /\ i = j
  /\ \A m \in 1 .. Len(metas) : \A i, j \in Positions(m) : i < j => metas[m].list[i] < metas[m].list[j]

\* An # end if leaves current_parent in the branch it ended, but the code that
\* follows stays inside the function that runs: it goes to the innermost branch or
\* block or to one begun in it, and never to a scope or an expansion that is over
\* (preprocess_if, preprocess_metablock, preprocess_expand).
CodeStaysInside ==
  /\ \A i, j \in 1 .. Depth : i < j => frames[i].meta < frames[j].meta
  /\ frames # <<>> => parent >= Top.meta
  /\ metas[parent].kind \in Blocks => \E i \in 1 .. Depth : frames[i].meta = parent

\* The root has only tokens of the file: a number of a placeholder or an empty id
\* is added while an expansion is read, and then to a list below the root, so the
\* generator finds every token it copies (gen_tokens).
GeneratorInput == \A i \in 1 .. Len(metas[1].list) : metas[1].list[i] \in 1 .. Last

\* A file without an error has closed what it opened: every scope and expansion
\* has its end, every branch its end or the branch that took over, an # else last,
\* and no two branches hand over to the same one (_if_end, _else, _elif and the
\* errors 136 and 139 to 145).
AcceptedIsClosed ==
  status = "generated" /\ errors = {} =>
    \A m \in 2 .. Len(metas) :
      \/ metas[m].ended /\ metas[m].next = 0
      \/ /\ ~metas[m].ended /\ metas[m].kind \in {"if", "elif"}
         /\ metas[m].next > m /\ metas[metas[m].next].kind \in {"elif", "else"}
         /\ \A n \in 2 .. Len(metas) : metas[n].next = metas[m].next => n = m

\* Whatever the file, the preprocessor and the generator come to an end: the loops
\* call each other on one viewer, and some go round without moving it
\* (preprocess_any, _expand_header).
PreprocessingEnds == <>(status # "preprocessing")

=============================================================================
