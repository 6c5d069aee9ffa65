----------------------------- MODULE MCScanner ------------------------------
(***************************************************************************)
(* Small instances of Scanner.                                             *)
(***************************************************************************)
EXTENDS ScannerProps

Chars == {"\"", "#", "\n", "o", "r", "1", " ", "+", "@"}

\* Keywords, and words that contain one.
Words ==
  LET kws == {KW_MATCH[k][2] : k \in DOMAIN KW_MATCH}
  IN kws \cup {<<c>> \o kw : c \in {"x", "_"}, kw \in kws}
         \cup {kw \o <<c>> : c \in {"x", "1"}, kw \in kws}
         \cup {kw \o <<";", " ">> \o kw : kw \in kws}

\* What the array may hold after the null.
Rests == {<< >>, <<"o">>, <<"1", "\n", "@", NUL>>, <<"\"", NUL, NUL, "1">>}

MCBuffers ==
  {s \o <<NUL>> \o rest : s \in BoundedSeq(Chars, 4), rest \in Rests}
  \cup {s \o <<NUL>> : s \in BoundedSeq(Chars \ {"r", "+", "@"}, 5)}
  \cup {s \o <<NUL>> : s \in Words}
=============================================================================
