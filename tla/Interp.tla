------------------------------- MODULE Interp -------------------------------
(***************************************************************************)
(* What genCode promises, without chunks, stacks or instructions: the      *)
(* statements run one after the other, each on its own, and a statement    *)
(* that prints a plain value prints just that value.  The limits of the    *)
(* code are part of the promise: a statement whose instructions do not fit *)
(* the budget prints nothing, and the process may die where the source     *)
(* asserts, traps or has undefined behaviour.                              *)
(***************************************************************************)
EXTENDS Expr, SequencesExt

CONSTANTS Programs, MaxConst, MaxIcount

VARIABLES
  nodes, stmts,
  next,          \* the statement to run next
  printed,
  mode

vars == <<nodes, stmts, next, printed, mode>>

Init ==
  /\ [nodes |-> nodes, stmts |-> stmts] \in Programs
  /\ next = 1
  /\ printed = << >>
  /\ mode = "run"

IsPrintOfPlain(k) ==
  nodes[k].kind = "Print" /\ Plain(nodes)[nodes[k].kids[1]]

\* The statements whose meaning is fixed; the others print what they like.
Simple(k) == Plain(nodes)[k] \/ IsPrintOfPlain(k)

Output(k) ==
  IF IsPrintOfPlain(k) /\ Size(nodes)[k] <= MaxIcount
  THEN <<Eval(nodes)[nodes[k].kids[1]]>>
  ELSE << >>

\* A simple statement kills the process only if a division is undefined, if
\* it has too many constants, or if it prints: OP_POP then empties the stack,
\* whose top is read.
MayDie(k) ==
  \/ MayTrap(nodes)[IF IsPrintOfPlain(k) THEN nodes[k].kids[1] ELSE k]
  \/ Leaves(nodes)[k] > MaxConst
  \/ IsPrintOfPlain(k) /\ Size(nodes)[k] < MaxIcount

RunStmt ==
  /\ mode = "run"
  /\ next <= Len(stmts)
  /\ IF Simple(stmts[next])
     THEN /\ Leaves(nodes)[stmts[next]] <= MaxConst
          /\ printed' = printed \o Output(stmts[next])
     ELSE IsPrefix(printed, printed')
  /\ next' = next + 1
  /\ UNCHANGED <<nodes, stmts, mode>>

Die ==
  /\ mode = "run"
  /\ next <= Len(stmts)
  /\ IF Simple(stmts[next])
     THEN /\ MayDie(stmts[next])
          /\ printed' \in {printed, printed \o Output(stmts[next])}
     ELSE IsPrefix(printed, printed')
  /\ mode' = "dead"
  /\ UNCHANGED <<nodes, stmts, next>>

Finish ==
  /\ mode = "run"
  /\ next > Len(stmts)
  /\ mode' = "done"
  /\ UNCHANGED <<nodes, stmts, next, printed>>

Next == RunStmt \/ Die \/ Finish

Spec == Init /\ [][Next]_vars
=============================================================================
