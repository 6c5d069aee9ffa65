----------------------------- MODULE MCRunFile ------------------------------
(***************************************************************************)
(* Small instances of RunFile: sources put together from pieces.           *)
(***************************************************************************)
EXTENDS RunFile, MCNumbers

\* Modulo 5 only the last digit counts; what is no number reads as 0.
MCAtof(str) ==
  IF str = << >> THEN 0
  ELSE Wrap(CASE Last(str) = "1" -> 1 [] Last(str) = "2" -> 2 [] OTHER -> 0)

print == <<"p", "r", "i", "n", "t", " ">>
ret   == <<"r", "e", "t", " ">>

Pieces ==
  { <<"1", ";">>, <<"1">>, <<";">>, <<"#", ")", "\n">>, <<"@">>, <<"{", "}">>,
    print \o <<"2", ";">>,
    print \o <<"1", "-", "-", "2", "/", "(", "1", "2", "-", "1", ")", ";">>,
    print \o <<"\"", "a", "\"", "-", "T", "r", "u", "e", "\n", ";">>,
    print \o <<"-", "1", "+", "2", "-", "1", ";">>, <<"-", "a", ";">>,
    <<"v", "a", "r", " ", "a", "=", "1", ";">>,
    ret \o <<"a", ",", "1", ",", "2", ",", "!", "1", ";">>,
    ret \o <<"i", "f", " ", "1", "{", "2", ";", "}", "e", "l", "s", "e", "{",
             "}", ";">>,
    ret \o <<"a", "(", ")", "[", "1", "]", ";">> }

MCBuffers == {Append(FlattenSeq(s), "NUL") : s \in BoundedSeq(Pieces, 3)}

MCStr == Seq(STRING)
=============================================================================
