------------------------------- MODULE Grammar ------------------------------
(***************************************************************************)
(* The tables of the parser (parse.hpp's constructor) and what they say of *)
(* a text on their own, without the recursion of the functions that use    *)
(* them: which brackets match, what an expression is and which of its      *)
(* operators is the root.  A text w is a sequence of records with a type.  *)
(***************************************************************************)
EXTENDS Integers, SequencesExt

PREC_NONE == -99999

PrefixPrec(type) ==
  CASE type \in {"LEFT_BRACE", "LEFT_PAREN", "RET"} -> 1
    [] type \in {"ID", "NUM", "STRING", "TRUE", "FALSE"} -> 5
    [] type \in {"BANG", "MINUS", "FOR", "FN", "IF", "VAR", "PRINT"} -> 100
    [] OTHER -> PREC_NONE

BinaryTypes == {"EQUALS", "COLON", "TO", "CMP", "OR", "AND", "PLUS", "MINUS",
                "DIV", "MULT", "BANG"}

InfixPrec(type) ==
  CASE type = "EQUALS" -> 10
    [] type = "COMMA" -> 20
    [] type = "COLON" -> 22
    [] type = "TO" -> 23
    [] type = "CMP" -> 24
    [] type = "OR" -> 25
    [] type = "AND" -> 26
    [] type \in {"PLUS", "MINUS"} -> 30
    [] type \in {"DIV", "MULT"} -> 40
    [] type = "BANG" -> 80
    [] type \in {"LEFT_PAREN", "LEFT_BRACKET"} -> 100
    [] OTHER -> PREC_NONE

\* The node of a leaf.
LeafKind ==
  [ID |-> "Name", NUM |-> "Num", STRING |-> "String",
   TRUE |-> "Bool", FALSE |-> "Bool"]

LeafTypes == DOMAIN LeafKind

-----------------------------------------------------------------------------
\* Brackets.

Closer == [LEFT_PAREN |-> "RIGHT_PAREN", LEFT_BRACE |-> "RIGHT_BRACE",
           LEFT_BRACKET |-> "RIGHT_BRACKET"]

\* The closers still due after one more token; "mismatch" for good after one
\* that is not.
Meets(due, t) ==
  CASE t.type \in DOMAIN Closer -> Append(due, Closer[t.type])
    [] t.type \in Range(Closer) ->
         IF due # << >> /\ Last(due) = t.type THEN Front(due) ELSE <<"mismatch">>
    [] OTHER -> due

\* The closers still due after the tokens s.
Due(s) ==
  LET due[n \in 0 .. Len(s)] ==
        IF n = 0 THEN << >> ELSE Meets(due[n - 1], s[n])
  IN due[Len(s)]

Balanced(s) == Due(s) = << >>

\* ... after the tokens lo .. p.
DueIn(w, lo, p) == Due(SubSeq(w, lo, p))

-----------------------------------------------------------------------------
(***************************************************************************)
(* Expressions of literals, names, operators and parentheses, and the tree *)
(* that the precedences define: the root is the last of the weakest        *)
(* operators outside parentheses.                                          *)
(***************************************************************************)

EndsOperand(w, p) == w[p].type \in LeafTypes \cup {"RIGHT_PAREN"}

AfterOperand(w, p) == p > 1 /\ EndsOperand(w, p - 1)

Regular(w, p) ==
  w[p].type \in IF AfterOperand(w, p) THEN BinaryTypes \cup {"RIGHT_PAREN"}
                ELSE LeafTypes \cup {"BANG", "MINUS", "LEFT_PAREN"}

\* The tokens lo .. hi are an expression.
Expression(w, lo, hi) ==
  /\ lo \in 1 .. Len(w) /\ hi \in lo .. Len(w)
  /\ \A p \in lo .. hi : Regular(w, p)
  /\ ~ AfterOperand(w, lo) /\ EndsOperand(w, hi)
  /\ DueIn(w, lo, hi) = << >>

\* A prefix operator.
Prefixed(w, p) == w[p].type \in {"BANG", "MINUS"} /\ ~ AfterOperand(w, p)

\* A binary operator outside the parentheses of the expression that begins at
\* lo.
Operator(w, lo, p) ==
  /\ w[p].type \in BinaryTypes /\ p > lo /\ EndsOperand(w, p - 1)
  /\ DueIn(w, lo, p) = << >>

OuterOps(w, lo, hi) == {p \in lo + 1 .. hi - 1 : Operator(w, lo, p)}

\* The root among the operators at the positions S.
RootOf(w, S) ==
  Max({p \in S : \A q \in S : InfixPrec(w[p].type) <= InfixPrec(w[q].type)})

Root(w, lo, hi) == RootOf(w, OuterOps(w, lo, hi))

\* An expression and a semicolon.
IsExprStatement(w) ==
  LET hi == Len(w) - 1 IN
  /\ hi >= 1
  /\ w[hi + 1].type = "SEMICOLON"
  /\ Expression(w, 1, hi)

\* A prefix operator applied to a name, bare or in parentheses: the constructor
\* of UnaryOpExpr asserts that there is none (expr.hpp:118).
NegatesName(w) ==
  \E p, q \in DOMAIN w :
    /\ p < q
    /\ Prefixed(w, p)
    /\ w[q].type = "ID"
    /\ \A i \in 1 .. q - p - 1 : /\ w[q - i].type = "LEFT_PAREN"
                                /\ w[q + i].type = "RIGHT_PAREN"

-----------------------------------------------------------------------------
\* Programs of expressions and prints: statements are what stands between
\* semicolons, up to the first token that cannot start one.

BeginsAt(w, s) ==
  s \in 1 .. Len(w) + 1 /\ (s = 1 \/ w[s - 1].type = "SEMICOLON")

StartsAt(w, s) == s <= Len(w) /\ 0 < PrefixPrec(w[s].type)

Reached(w, s) ==
  BeginsAt(w, s) /\ \A r \in 1 .. s - 1 : BeginsAt(w, r) => StartsAt(w, r)

\* The expression of a statement.
First(w, s) == IF w[s].type = "PRINT" THEN s + 1 ELSE s

\* The statement s .. e is an expression, or prints one.
SimpleAt(w, s, e) ==
  /\ s \in 1 .. Len(w) /\ e \in s .. Len(w)
  /\ e < Len(w) => w[e + 1].type = "SEMICOLON"
  /\ Expression(w, First(w, s), e)

PlainAt(w, s, e) == Reached(w, s) /\ StartsAt(w, s) /\ SimpleAt(w, s, e)

Plainly(w) ==
  \A s \in 1 .. Len(w) : Reached(w, s) /\ StartsAt(w, s) =>
    \E e \in s .. Len(w) : SimpleAt(w, s, e)
=============================================================================
