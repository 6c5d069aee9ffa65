------------------------------ MODULE Scanner -------------------------------
(***************************************************************************)
(* struct Scanner of scan.hpp on the characters of run_file's array, of    *)
(* which slurpFile filled the first part.  A character is a string of one  *)
(* letter, NUL the terminating null.  What follows the null is what the    *)
(* array held before.                                                      *)
(*                                                                         *)
(* in is the loop that is running: "switch" for the outer one, which looks *)
(* at *_srcbuf, and "string", "comment", "id" and "num" for the inner ones.*)
(* Each turn of a loop is an action; advance() is the last step of most.   *)
(***************************************************************************)
EXTENDS Keywords, SequencesExt

CONSTANT Buffers     \* the arrays: each holds a null

NUL == "NUL"

Digits  == {"0", "1", "2", "3", "4", "5", "6", "7", "8", "9"}
Letters == {"a", "b", "c", "d", "e", "f", "g", "h", "i", "j", "k", "l", "m",
            "n", "o", "p", "q", "r", "s", "t", "u", "v", "w", "x", "y", "z",
            "A", "B", "C", "D", "E", "F", "G", "H", "I", "J", "K", "L", "M",
            "N", "O", "P", "Q", "R", "S", "T", "U", "V", "W", "X", "Y", "Z",
            "_"}
Blanks  == {" ", "\t", "\r", "\n"}

SINGLE_CHAR_TOKEN ==
  [c \in {"+", "-", "/", "*", "=", "!", ",", ":", ";", "(", ")", "{", "}",
          "[", "]"} |->
     CASE c = "+" -> "PLUS"         [] c = "-" -> "MINUS"
       [] c = "/" -> "DIV"          [] c = "*" -> "MULT"
       [] c = "=" -> "EQUALS"       [] c = "!" -> "BANG"
       [] c = "," -> "COMMA"        [] c = ":" -> "COLON"
       [] c = ";" -> "SEMICOLON"
       [] c = "(" -> "LEFT_PAREN"   [] c = ")" -> "RIGHT_PAREN"
       [] c = "{" -> "LEFT_BRACE"   [] c = "}" -> "RIGHT_BRACE"
       [] c = "[" -> "LEFT_BRACKET" [] c = "]" -> "RIGHT_BRACKET"]

ASSUME BuffersAssumption == \A b \in Buffers : b \in Seq(STRING) /\ NUL \in Range(b)

VARIABLES
  buf,
  srcbuf,             \* the pointer _srcbuf, an index into buf from 1
  lineno, linepos,
  tokens,
  in, word,           \* word: what the inner loop has pushed so far
  scan                \* "scanning", "DONE", "EXIT" or "UNDEFINED"

scanVars == <<buf, srcbuf, lineno, linepos, tokens, in, word, scan>>

Init ==
  /\ buf \in Buffers
  /\ srcbuf = 1
  /\ lineno = 0
  /\ linepos = 0
  /\ tokens = << >>
  /\ in = "switch"
  /\ word = << >>
  /\ scan = "scanning"

-----------------------------------------------------------------------------
ch == buf[srcbuf]

\* The loop in is running and *_srcbuf is in the array.
Reading(loop) == scan = "scanning" /\ in = loop /\ srcbuf <= Len(buf)

advance == srcbuf' = srcbuf + 1 /\ linepos' = linepos + 1

tok(type, str, pos) ==
  tokens' = Append(tokens, [type |-> type, str |-> str, lineno |-> lineno,
                            linepos |-> pos])

\* The inner loop takes ch, the outer loop goes on, ...
Push     == word' = Append(word, ch)
Continue == in' = "switch" /\ word' = << >>
Keep     == UNCHANGED <<buf, scan>>

EndScan ==
  /\ Reading("switch")
  /\ ch = NUL
  /\ scan' = "DONE"
  /\ UNCHANGED <<buf, srcbuf, lineno, linepos, tokens, in, word>>

Unimplemented ==
  /\ Reading("switch")
  /\ ch \notin {NUL, "\"", "#"} \cup Letters \cup Digits \cup Blanks
               \cup DOMAIN SINGLE_CHAR_TOKEN
  /\ scan' = "EXIT"
  /\ UNCHANGED <<buf, srcbuf, lineno, linepos, tokens, in, word>>

\* The pointer has left the array: undefined behaviour.
ReadOutside ==
  /\ scan = "scanning"
  /\ srcbuf > Len(buf)
  /\ scan' = "UNDEFINED"
  /\ UNCHANGED <<buf, srcbuf, lineno, linepos, tokens, in, word>>

BeginString ==
  /\ Reading("switch")
  /\ ch = "\""
  /\ in' = "string"
  /\ advance
  /\ UNCHANGED <<lineno, tokens, word>>
  /\ Keep

InString ==
  /\ Reading("string")
  /\ ch \notin {"\"", NUL}
  /\ lineno' = IF ch = "\n" THEN lineno + 1 ELSE lineno
  /\ Push
  /\ advance
  /\ UNCHANGED <<tokens, in>>
  /\ Keep

EndString ==
  /\ Reading("string")
  /\ ch \in {"\"", NUL}
  /\ tok("STRING", word, linepos)
  /\ Continue
  /\ advance
  /\ UNCHANGED lineno
  /\ Keep

BeginComment ==
  /\ Reading("switch")
  /\ ch = "#"
  /\ in' = "comment"
  /\ UNCHANGED <<srcbuf, lineno, linepos, tokens, word>>
  /\ Keep

InComment ==
  /\ Reading("comment")
  /\ ch \notin {"\n", NUL}
  /\ advance
  /\ UNCHANGED <<lineno, tokens, in, word>>
  /\ Keep

\* The newline, or the null, is stepped over; linepos is not reset.
EndComment ==
  /\ Reading("comment")
  /\ ch \in {"\n", NUL}
  /\ lineno' = lineno + 1
  /\ Continue
  /\ advance
  /\ UNCHANGED tokens
  /\ Keep

-----------------------------------------------------------------------------
\* consumeId and consumeNum.

WordChars == [id |-> Letters \cup Digits, num |-> Digits]

BeginWord ==
  /\ Reading("switch")
  /\ ch \in Letters \cup Digits
  /\ in' = IF ch \in Digits THEN "num" ELSE "id"
  /\ UNCHANGED <<srcbuf, lineno, linepos, tokens, word>>
  /\ Keep

InWord ==
  /\ \E loop \in {"id", "num"} : Reading(loop) /\ ch \in WordChars[loop]
  /\ Push
  /\ advance
  /\ UNCHANGED <<lineno, tokens, in>>
  /\ Keep

\* Mutant of EndWord: no stepback, so advance() skips a character.
EndWordNoStepback ==
  /\ \E loop \in {"id", "num"} : Reading(loop) /\ ch \notin WordChars[loop]
  /\ tok(IF in = "num" THEN "NUM" ELSE getKeywordTokenType(word), word, linepos)
  /\ Continue
  /\ advance
  /\ UNCHANGED lineno
  /\ Keep

\* Mutant of EndWord: a second stepback, before the token is made.
EndWordTwoBack ==
  /\ \E loop \in {"id", "num"} : Reading(loop) /\ ch \notin WordChars[loop]
  /\ tok(IF in = "num" THEN "NUM" ELSE getKeywordTokenType(word), word,
         linepos - 2)
  /\ Continue
  /\ srcbuf' = srcbuf - 1
  /\ linepos' = linepos - 1
  /\ UNCHANGED lineno
  /\ Keep

\* stepback() before the token is made, advance() after it.
EndWord ==
  /\ \E loop \in {"id", "num"} : Reading(loop) /\ ch \notin WordChars[loop]
  /\ tok(IF in = "num" THEN "NUM" ELSE getKeywordTokenType(word), word,
         linepos - 1)
  /\ Continue
  /\ UNCHANGED <<srcbuf, lineno, linepos>>
  /\ Keep

\* Mutant of Blank: only a newline is skipped.
BlankStays ==
  /\ Reading("switch")
  /\ ch \in Blanks
  /\ IF ch = "\n"
     THEN /\ lineno' = lineno + 1
          /\ linepos' = 1
          /\ srcbuf' = srcbuf + 1
     ELSE UNCHANGED <<lineno, linepos, srcbuf>>
  /\ UNCHANGED <<tokens, in, word>>
  /\ Keep

\* Mutant of Blank: the position is not reset.
BlankNoReset ==
  /\ Reading("switch")
  /\ ch \in Blanks
  /\ lineno' = IF ch = "\n" THEN lineno + 1 ELSE lineno
  /\ advance
  /\ UNCHANGED <<tokens, in, word>>
  /\ Keep

Blank ==
  /\ Reading("switch")
  /\ ch \in Blanks
  /\ IF ch = "\n"
     THEN /\ lineno' = lineno + 1
          /\ linepos' = 1           \* 0, and then advance()
          /\ srcbuf' = srcbuf + 1
     ELSE advance /\ UNCHANGED lineno
  /\ UNCHANGED <<tokens, in, word>>
  /\ Keep

SingleChar ==
  /\ Reading("switch")
  /\ ch \in DOMAIN SINGLE_CHAR_TOKEN
  /\ tok(SINGLE_CHAR_TOKEN[ch], <<ch>>, linepos)
  /\ advance
  /\ UNCHANGED <<lineno, in, word>>
  /\ Keep

Next ==
  \/ EndScan \/ Unimplemented \/ ReadOutside
  \/ BeginString \/ InString \/ EndString
  \/ BeginComment \/ InComment \/ EndComment
  \/ BeginWord \/ InWord \/ EndWord \/ Blank \/ SingleChar

Spec == Init /\ [][Next]_scanVars

\* A sequential program keeps running.
FairSpec == Spec /\ WF_scanVars(Next)
=============================================================================
