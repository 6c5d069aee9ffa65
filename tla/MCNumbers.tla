----------------------------- MODULE MCNumbers ------------------------------
(***************************************************************************)
(* The doubles of the small instances: -2 .. 2 with wrap-around arithmetic *)
(* and a NaN, which every division by zero returns.                        *)
(***************************************************************************)
EXTENDS Integers

CONSTANT NaN

MCNum == -2 .. 2 \cup {NaN}

MCOfInt(i) == i

Wrap(i) == ((i + 2) % 5) - 2

MCFNeg(a) == IF a = NaN THEN NaN ELSE -a

\* The opcodes are those of Bytecode: 5 to 8 for + - * /.
MCFArith(op, a, b) ==
  IF NaN \in {a, b} THEN NaN
  ELSE CASE op = 5 -> Wrap(a + b)
         [] op = 6 -> Wrap(a - b)
         [] op = 7 -> Wrap(a * b)
         [] op = 8 -> IF b = 0 THEN NaN ELSE Wrap(a \div b)

MCFEq(a, b) == a = b /\ a # NaN
=============================================================================
