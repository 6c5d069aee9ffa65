------------------------------ MODULE MCSlurp -------------------------------
(***************************************************************************)
(* Small instances of Slurp.  Of a file that is neither named nor open     *)
(* nothing is seen, so two files are as good as any number.                *)
(***************************************************************************)
EXTENDS Slurp

MCVersions == {<< >>, <<"a">>, <<"NUL", "b">>, <<"a", "b", "a">>,
               <<"b", "a", "NUL", "b">>}
=============================================================================
