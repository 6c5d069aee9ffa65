---------------------------- MODULE ScannerProps ----------------------------
(***************************************************************************)
(* What makes the scanner correct, stated on Scanner's states.             *)
(***************************************************************************)
EXTENDS Scanner, FiniteSetsExt

ScanTypes == Range(SINGLE_CHAR_TOKEN) \cup {KW_MATCH[k][1] : k \in DOMAIN KW_MATCH}
             \cup {"ID", "NUM", "STRING"}

(***************************************************************************)
(* The type invariant: the pointer is in the array or one past it, and     *)
(* lines and positions count characters that were passed.                  *)
(***************************************************************************)
TypeOK ==
  /\ srcbuf \in 1 .. Len(buf) + 1
  /\ lineno \in 0 .. srcbuf - 1
  /\ linepos \in 0 .. srcbuf - 1
  /\ \A i \in DOMAIN tokens :
       /\ tokens[i].type \in ScanTypes
       /\ tokens[i].lineno \in 0 .. lineno
       /\ tokens[i].linepos \in 0 .. Len(buf)
  /\ in \in {"switch", "string", "comment", "id", "num"}
  /\ in \in {"switch", "comment"} => word = << >>
  /\ Len(word) < srcbuf
  /\ scan \in {"scanning", "DONE", "EXIT", "UNDEFINED"}

-----------------------------------------------------------------------------
(***************************************************************************)
(* The tokens of a source, from its characters alone: each character gets  *)
(* a role from its predecessor's, and a token is a maximal run.            *)
(***************************************************************************)

Null == Min({p \in DOMAIN buf : buf[p] = NUL})     \* where the source ends

Newlines(q) == {n \in 1 .. q - 1 : buf[n] = "\n"}

Role ==
  LET role[p \in 0 .. Null - 1] ==
        IF p = 0 THEN "blank"
        ELSE LET was == role[p - 1]
                 c   == buf[p]
             IN CASE was \in {"open", "text"} ->
                       IF c = "\"" THEN "close" ELSE "text"
                  [] was = "comment" ->
                       IF c = "\n" THEN "blank" ELSE "comment"
                  [] OTHER ->
                       CASE c = "\"" -> "open"
                         [] c = "#"  -> "comment"
                         [] c \in Letters -> "id"
                         [] c \in Digits  -> IF was = "id" THEN "id" ELSE "num"
                         [] c \in Blanks  -> "blank"
                         [] c \in DOMAIN SINGLE_CHAR_TOKEN -> "single"
                         [] OTHER -> "unknown"
  IN role

Unknown(role) == {p \in DOMAIN role : role[p] = "unknown"}

\* The source ends inside a comment or a string.
OpenEnd == Role[Null - 1] \in {"open", "text", "comment"}

\* The first characters of the tokens that begin in the first p characters.
StartsUpTo(role) ==
  LET starts[p \in DOMAIN role] ==
        IF p = 0 THEN << >>
        ELSE IF \/ role[p] \in {"open", "single"}
                \/ role[p] \in {"id", "num"} /\ role[p - 1] # role[p]
             THEN Append(starts[p - 1], p)
             ELSE starts[p - 1]
  IN starts

\* ... and of the tokens up to an unknown character.
Starts(role) == StartsUpTo(role)[Min({Null} \cup Unknown(role)) - 1]

LastOf(role, p) ==
  CASE role[p] = "single" -> p
    [] role[p] = "open" ->
         Min({Null} \cup {q \in p + 1 .. Null - 1 : role[q] = "close"})
    [] OTHER ->
         Max({q \in p .. Null - 1 : \A r \in p .. q : role[r] = role[p]})

WordType(w) ==
  IF \E k \in DOMAIN KW_MATCH : KW_MATCH[k][2] = w
  THEN (CHOOSE kw \in Range(KW_MATCH) : kw[2] = w)[1]
  ELSE "ID"

\* A token lies on the line on which it ends.
LexemeAt(role, p) ==
  LET q    == LastOf(role, p)
      text == SubSeq(buf, p, q)
      line == Cardinality(Newlines(q))
      Lex(type, str) == [type |-> type, str |-> str, lineno |-> line]
  IN CASE role[p] = "single" -> Lex(SINGLE_CHAR_TOKEN[buf[p]], text)
       [] role[p] = "open"   -> Lex("STRING", SubSeq(buf, p + 1, q - 1))
       [] role[p] = "num"    -> Lex("NUM", text)
       [] OTHER              -> Lex(WordType(text), text)

Lexemes ==
  LET role   == Role
      starts == Starts(role)
  IN [i \in DOMAIN starts |-> LexemeAt(role, starts[i])]

Seen ==
  [i \in DOMAIN tokens |->
     [type |-> tokens[i].type, str |-> tokens[i].str,
      lineno |-> tokens[i].lineno]]

(***************************************************************************)
(* The pointer, moved forwards and backwards by five loops, neither skips  *)
(* nor repeats a character: the tokens are the lexemes of the source, each *)
(* with its line; a keyword is recognised exactly if it is a whole word;   *)
(* an unknown character outside comments and strings, and nothing else,    *)
(* ends the process.  If the source ends in a comment or a string the      *)
(* tokens go on with what the array holds after the null.                  *)
(***************************************************************************)
LexesSource ==
  scan # "scanning" =>
    LET known == Unknown(Role) = {}
    IN IF known /\ OpenEnd
       THEN IsPrefix(Lexemes, Seen)
       ELSE /\ Seen = Lexemes
            /\ scan = IF known THEN "DONE" ELSE "EXIT"

(***************************************************************************)
(* The array is read past the null only if the source ends in a comment or *)
(* a string (scan.hpp:69, 86 and 144).                                     *)
(***************************************************************************)
OverrunsOnlyIfOpen == srcbuf > Null => OpenEnd

(***************************************************************************)
(* In a source without comments and strings a token's position counts the  *)
(* characters of its line up to its last one, from 1, and in the first     *)
(* line from 0.                                                            *)
(***************************************************************************)
PositionIsColumn ==
  LET role == Role
  IN (\A p \in 1 .. Null - 1 : role[p] \notin {"open", "comment"}) =>
       \A i \in DOMAIN tokens :
         LET q == LastOf(role, Starts(role)[i])
         IN tokens[i].linepos = IF Newlines(q) = {} THEN q - 1
                                ELSE q - Max(Newlines(q))

(***************************************************************************)
(* Every source is scanned to an end, whatever follows it in the array.    *)
(***************************************************************************)
Terminates == <>(scan # "scanning")

-----------------------------------------------------------------------------
(***************************************************************************)
(* "make sure null terminated" (fs.cpp:48) and the test of the loop at     *)
(* scan.hpp:61: scanning stops at the null.                                *)
(***************************************************************************)
StopsAtNull == srcbuf <= Null
=============================================================================
