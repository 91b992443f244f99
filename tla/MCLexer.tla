------------------------------- MODULE MCLexer -------------------------------
\* Texts put together from few pieces, one set of pieces for each part of the lexer.
EXTENDS Lexer, SequencesExt

Texts(pieces, max) ==
  {FlattenSeq(s) : s \in UNION {[1 .. n -> pieces] : n \in 1 .. max}}

One(chars) == {<<c>> : c \in chars}

MCTexts ==
  Texts(One({"0", "x", ".", "e", "+", "a", "blank"}), 4)
    \cup Texts(One({"/", "*", "\n", "a"}), 5)
    \cup Texts(One({"[", "]", "a", "under"}) \cup {<<"[", "[">>, <<"]", "]">>}, 3)
    \cup Texts(One({"#", "\n", "a", "blank", "quote"}), 4)
    \cup Texts(One({"quote", "a", "\\", "x", "rbrace", ":"}) \cup {<<"$", "lbrace">>}, 3)
    \cup {<<"quote", "$", "lbrace">> \o t : t \in Texts(One({"quote", ":", "0", "#", "a", "rbrace"}) \cup {<<"quote", "$", "lbrace">>}, 4)}
    \cup Texts({<<"quote", "quote", "quote">>, <<"\n">>, <<"a">>, <<"r">>, <<"tick">>}, 4)

\* The first token of the file before decides what last_op is; a few texts show it.
MCSessions == [text : MCTexts, last : {None}] \cup [text : Texts(One({"a", "blank", "=", "#"}), 2), last : {0, 1}]
==============================================================================
