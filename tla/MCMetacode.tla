------------------------------ MODULE MCMetacode ------------------------------
(* Small files for TLC: pieces of one line, and the head of an expansion. *)
EXTENDS Metacode

CodeLine == <<"x">>
Hole == <<"[[n]]", "n">>
IfLine == <<"#", "if", "x", "$">>
IfHole == <<"#", "if", "[[n]]", "n", "$">>
ElifLine == <<"#", "elif", "x", "$">>
ElifHole == <<"#", "elif", "[[n]]", "n", "$">>
ElseLine == <<"#", "else", "$">>
EndIfLine == <<"#", "end", "if", "$">>
ScopeLine == <<"#", "scope", "$">>
NamedLine == <<"#", "scope", "n", "$">>
EndScopeLine == <<"#", "end", "scope", "$">>
ExpandLine == <<"#", "expand", "$">>
Head2 == <<"#", "expand", "$", "#", "for", "n", "as", "x", "$", "#", "each", "$">>
EndEachLine == <<"#", "end", "each", "$">>
EndLine == <<"#", "end", "$">>
Attribute == <<"#", "x", "$">>

General == {CodeLine, Hole, IfLine, IfHole, ElifLine, ElifHole, ElseLine, EndIfLine, ScopeLine, NamedLine,
          EndScopeLine, ExpandLine, Head2, EndEachLine, EndLine, Attribute}

AllFiles == LET P == General \cup {<<>>} IN {a \o b \o c \o d \o <<"eof">> : a, b, c, d \in P}
=============================================================================
