------------------------------ MODULE Keywords ------------------------------
(***************************************************************************)
(* getKeywordTokenType of scan.hpp, and as much of the regular expression  *)
(* library slre as its patterns reach: each is a word between ^ and $, so  *)
(* there are no brackets, branches, sets, escapes or quantifiers, and the  *)
(* table of brackets that foo() builds has the whole pattern as its only   *)
(* entry.  A string is the sequence of its characters.                     *)
(***************************************************************************)
EXTENDS Integers, Sequences, FiniteSets

SLRE_NO_MATCH == -1

\* The j of bar at turn i of its loop: how many characters are matched.
taken(re, i) == Cardinality({k \in 1 .. i - 1 : re[k] \notin {"^", "$"}})

\* Mutant of fits: "$" matches anywhere.
fitsOpenEnd(re, s, i) ==
  CASE re[i] = "^" -> taken(re, i) = 0
    [] re[i] = "$" -> TRUE
    [] OTHER -> taken(re, i) < Len(s) /\ re[i] = s[taken(re, i) + 1]

\* The turn does not return.
fits(re, s, i) ==
  CASE re[i] = "^" -> taken(re, i) = 0
    [] re[i] = "$" -> taken(re, i) = Len(s)
    [] OTHER -> taken(re, i) < Len(s) /\ re[i] = s[taken(re, i) + 1]

\* bar: match re from the start of s; how many characters it took.  doh()
\* calls it for the one bracket.
bar(re, s) ==
  IF \A i \in DOMAIN re : fits(re, s, i) THEN taken(re, Len(re) + 1)
  ELSE SLRE_NO_MATCH

\* baz: try every start of s, only the first if the pattern is anchored.
Tries(re, s) == IF re[1] = "^" THEN {0} ELSE 0 .. Len(s)

re_match(s, re) ==
  \E i \in Tries(re, s) : bar(re, SubSeq(s, i + 1, Len(s))) >= 0

\* The macros KW_MATCH, in their order.
KW_MATCH ==
  << <<"AND", <<"a", "n", "d">> >>,       <<"ELSE", <<"e", "l", "s", "e">> >>,
     <<"CMP", <<"c", "m", "p">> >>,       <<"FN", <<"f", "n">> >>,
     <<"FOR", <<"f", "o", "r">> >>,       <<"VAR", <<"v", "a", "r">> >>,
     <<"IF", <<"i", "f">> >>,             <<"OR", <<"o", "r">> >>,
     <<"PRINT", <<"p", "r", "i", "n", "t">> >>,
     <<"RET", <<"r", "e", "t">> >>,       <<"TO", <<"t", "o">> >>,
     <<"TRUE", <<"T", "r", "u", "e">> >>,
     <<"FALSE", <<"F", "a", "l", "s", "e">> >> >>

getKeywordTokenType(idstr) ==
  LET hits == {k \in DOMAIN KW_MATCH :
                 re_match(idstr, <<"^">> \o KW_MATCH[k][2] \o <<"$">>)}
  IN IF hits = {} THEN "ID"
     ELSE KW_MATCH[CHOOSE k \in hits : \A h \in hits : k <= h][1]
=============================================================================
