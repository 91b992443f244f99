------------------------------ MODULE MCParser ------------------------------
\* The forms the hints of the parser show, each whole and with one token changed.
EXTENDS Parser

In(f, t) == <<"fn", f, "(", ")", "{">> \o t \o <<"}">>
Declarations ==
  {<<"mod", "m", "=", "std", "::", "a", ";">>,
   <<"enum", "m", "{", "a", "s32", ",", "n", "u8", "}">>,
   <<"union", "m", "{", "a", ":", "s32", ",", "n", ":", "f32", "}">>,
   <<"flag", "m", "{", "a", ",", "n", "}">>,
   <<"var", "a", ":", "s32", "=", "1", ";", "const", "n", "=", "2", ";">>,
   <<"let", "a", ":", "u8", "=", "uninit", ";">>,
   <<"fn", "n", "(", "const", "a", ":", "s32", ",", "copy", "m", ":", "f32", "=", "1.5", ")",
     "->", "u8", "{", "return", "a", "}">>,
   <<"fn", "main", "(", ")", "->", "s32", "{", "return", "0", "}">>,
   <<"fn", "n", "(", ")", "pre", "a", "->", "panic", "text literal", ";", "post", "m", "{", "}">>,
   <<"gen", "m", "<", "T", "U", ">", "{", "T", "op", "+", ";", "U", "is", "s32", ";", "T", "as", "to", "s32", "}">>,
   <<"type", "m", "=", "[", "ptr", "tick", "s32", ";", "2", "]">>,
   <<"type", "m", "=", "(", "a", ",", "fn", "(", "ref", "s32", ")", "->", "u8", ")">>,
   <<"facet", "m", "{", "ref", "a", ":", "s32", "=", "0", ",", "n", ":", "u8", "=", "1", "}">>,
   <<"form", "m", "{", "use", "a", "<", "s32", ">", "{", "}", "}">>,
   <<"rule", "m", "(", ")", "{", "with", "with", "(", "a", "(", "+", "(", "n", "(", "{", "{", "}", "}">>,
   <<"export", "{", "fn", "n", "(", ")", "{", "}", "}">>,
   <<"extern", "text literal", "{", "fn", "a", "(", "const", "p", ":", "s32", ")", ";", "}">>,
   <<"extend", "s32", "fn", "n", "(", "const", "a", ":", "s32", ")", "{", "}">>,
   <<"extend", "m", "as", "u8", "{", "}", "extend", "m", "op", "*", "{", "}">>,
   <<"extend", "m", "op", "!", "{", "}", "extend", "m", "op", "=", "{", "}">>,
   <<"extend", "m", "op", "[", "a", "]", "->", "s32", "{", "}", "extend", "m", "op", "del", "{", "}">>,
   <<"mod", "m", "{", "fn", "n", "(", ")", "=>", "a", "}">>,
   <<"fn", "n", "(", ")", "pre", "true", "->", "assert", "(", "text literal", "{", "}">>,
   <<"import", "std", "::", "a", "as", "m">>,
   <<"reexport", "std", "::", "a", "as", "m">>}


Instructions ==
  {<<"if", "a", "{", "}", "elif", "n", "{", "}", "else", "{", "}">>,
   <<"for", "a", "p", "in", "..", "2", "{", "continue", ";", "}">>,
   <<"for", "mut", "(", "a", ",", "p", ")", "in", "m", "{", "loop", "{", "break", "}", "}">>,
   <<"while", "mut", "a", "(", "(", "_", ",", "p", ")", "=", "m", "{", "}">>,
   <<"do", "{", "return", ";", "}", "while", "not", "a", ";">>,
   <<"match", "a", "{", "0", "{", "break", "}", "_", "{", "}", "}">>,
   <<"goto", "m", "label", "m", "{", "}">>,
   <<"var", "a", "=", "lam", "p", "(", ")", "->", "s32", "{", "return", "1", "}">>,
   <<"loop", "{", "lam", "p", "(", ")", "=>", "break", "}">>,
   <<"let", "(", "a", ",", "_", ")", "=", "p">>,
   <<"a", "::", "n", "(", "1", ",", "p", "=", ":", "2", ")">>,
   <<"a", ".", "n", "+=", "[", "1", ",", "2", "]", "[", "0", "]", ";">>,
   <<"a", "->", "m", "p", ")">>,
   <<"a", "(", "1", "2", ")">>,
   <<"var", "a", ":", "m", "=", "m", "{", ".", "n", "=", "1", ",", ".", "}">>,
   <<"var", "a", "=", "(", "1", ",", "2", "as", "u8">>,
   <<"return", "text literal", "{:", "a", ":}", "t", "str">>,
   <<"a", "=", "new", "ptr", "tick", "s32", "(", "1", ")">>,
   <<"a", "=", "if", "n", "=>", "1", "else", "2">>,
   <<"while", "mut", "a", "{", ",", "n", ":", "p", "}", "=", "m", "{", "}">>,
   <<"match", "a", "{", "mut", "m", "{", ",", "n", ":", "_", "}", "{", "}", "0", "=>", "break", "}">>,
   <<"a", "=", "text literal", "{:", "n", ":", "0", "=", "2", ".", "1", ":}">>,
   <<"a", "=", "m", "{", "@", "n", "{", ".", "p", "=", "1", ",", ".", "}", ",", "@", "}">>,
   <<"a", "=", "[", "1", ":", "2", ",", "2", ":", "1", "]">>,
   <<"a", "=", "[", "1", ",", "2", ";", "2", ",", "1", "]", ";", "a", "=", "[", "1", "=>", "2", ";", "1", "]">>,
   <<"a", "=", "n", "~", "[", "0", "..", "2", "]">>}

Whole == Declarations \cup {In("n", t) : t \in Instructions}

\* One token left out, or put in, and the file cut short.
Edits(t, K) ==
  {SubSeq(t, 1, i - 1) \o SubSeq(t, i + 1, Len(t)) : i \in DOMAIN t}
    \cup {SubSeq(t, 1, i) \o <<k>> \o SubSeq(t, i + 1, Len(t)) : i \in 0 .. Len(t), k \in K}
    \cup {SubSeq(t, 1, i) : i \in 0 .. Len(t) - 1}

\* Every operation of three operators, one of each level.
Operators == {"**", "*", "+", "b.rol", "<", "==", "b.and", "b.xor", "b.or", "and", "xor", "or", "m.add"}
Operation == {<<"var", "a", "=", "a", o, "n", p, "m", q, "p">> \o Behind : o, p, q \in Operators}
MCTexts == Operation \cup Whole \cup UNION {Edits(t, {";", "}", ",", "a", "lam"}) : t \in Whole}

=============================================================================
