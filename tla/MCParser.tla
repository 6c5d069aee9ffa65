------------------------------ MODULE MCParser ------------------------------
(***************************************************************************)
(* Small instances of Parser.  A literal or a name is its position in the  *)
(* source, so that no two are equal.                                       *)
(***************************************************************************)
EXTENDS ParserProps

\* The tokens of these types.
Source(types) ==
  [i \in DOMAIN types |->
     [type |-> types[i],
      lit |-> CASE types[i] = "NUM" -> NumVal(i)
                [] types[i] \in {"ID", "STRING"} -> StrVal(i)
                [] types[i] \in {"TRUE", "FALSE"} -> BoolVal(types[i] = "TRUE")
                [] OTHER -> Null]]

Positions == 1 .. 40

\* No number is computed with: any arithmetic will do.
ParserNum == -1 .. 40
ParserOfInt(i) == i
ParserNeg(a) == a
ParserArith(op, a, b) == a
ParserEq(a, b) == a = b

-----------------------------------------------------------------------------
\* Expressions of up to seven tokens.
ExprTypes == {"NUM", "PLUS", "MULT", "MINUS", "CMP", "LEFT_PAREN", "RIGHT_PAREN"}

\* An operand is followed by an operator or ")", and all else by an operand.
MayFollow(a, b) ==
  IF a \in {"NUM", "RIGHT_PAREN"}
  THEN b \notin {"NUM", "LEFT_PAREN"}
  ELSE b \in {"NUM", "MINUS", "LEFT_PAREN"}

Candidates ==
  LET words[n \in 1 .. 7] ==
        IF n = 1 THEN {<<"NUM">>, <<"MINUS">>, <<"LEFT_PAREN">>}
        ELSE {Append(p[1], p[2]) :
                p \in {p \in words[n - 1] \X ExprTypes :
                         MayFollow(Last(p[1]), p[2])}}
  IN UNION {words[n] : n \in 1 .. 7}

ExprInputs == {Source(Append(s, "SEMICOLON")) : s \in Candidates}

-----------------------------------------------------------------------------
\* Any sequence of up to three tokens, and statements of every kind with one
\* token left out or replaced by any other.
AnyTypes == TokenType \ {"NONE", "STRING", "TRUE", "FALSE", "AND", "OR", "DIV",
                         "MULT", "TO", "CMP"}

Samples ==
  { <<"IF", "ID", "LEFT_BRACE", "NUM", "SEMICOLON", "RIGHT_BRACE",
      "ELSE", "LEFT_BRACE", "RIGHT_BRACE", "NUM", "SEMICOLON">>,
    <<"FOR", "ID", "COLON", "NUM", "TO", "NUM", "LEFT_BRACE", "RET", "ID",
      "SEMICOLON", "RIGHT_BRACE">>,
    <<"FN", "ID", "LEFT_PAREN", "ID", "COMMA", "ID", "RIGHT_PAREN",
      "LEFT_BRACE", "RIGHT_BRACE", "SEMICOLON">>,
    <<"VAR", "ID", "EQUALS", "ID", "LEFT_PAREN", "NUM", "COMMA", "NUM",
      "COMMA", "NUM", "RIGHT_PAREN", "SEMICOLON">>,
    <<"PRINT", "ID", "LEFT_BRACKET", "NUM", "RIGHT_BRACKET", "SEMICOLON",
      "ID", "LEFT_PAREN", "RIGHT_PAREN", "SEMICOLON">>,
    <<"FN", "ID", "LEFT_PAREN", "RIGHT_PAREN", "LEFT_BRACE", "LEFT_PAREN",
      "RIGHT_PAREN", "SEMICOLON", "BANG", "TRUE", "SEMICOLON", "RIGHT_BRACE">> }

Corrupted ==
  UNION { {RemoveAt(s, i) : i \in DOMAIN s}
          \cup {ReplaceAt(s, i, t) : i \in DOMAIN s, t \in AnyTypes}
          \cup {InsertAt(s, i, t) : i \in DOMAIN s, t \in AnyTypes} : s \in Samples }

AnyInputs == {Source(s) : s \in BoundedSeq(AnyTypes, 3) \cup Samples \cup Corrupted}

MCInputs == ExprInputs \cup AnyInputs
=============================================================================
