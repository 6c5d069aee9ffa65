------------------------------ MODULE HandTest ------------------------------
(***************************************************************************)
(* A chunk built by hand, then run: the use of Chunk and VM that dumpCode  *)
(* of vm.hpp shows ("use to hand test code sequences").  The client calls  *)
(* addOp, the addConst methods and finalize() in any order, and defines    *)
(* names the way VarExpr::codegen does; then it constructs a VM over the   *)
(* chunk and runs it.  A fixed chunk, as in dumpCode, is one behaviour.    *)
(***************************************************************************)
EXTENDS VM

CONSTANTS
  HandOps,      \* opcodes the client passes to addOp
  HandVals,     \* constants it adds
  HandNames,    \* names it defines
  MaxInstr      \* bound of the model: instructions it adds

ASSUME HandAssumption ==
  /\ HandOps \subseteq {op \in OpCode : ~ TakesOperand(op)}
  /\ HandVals \subseteq Value
  /\ HandNames \subseteq Str
  /\ MaxInstr \in Nat

-----------------------------------------------------------------------------

Init ==
  /\ NoVM
  /\ status = "building"
  /\ printed = << >>

MayBuild ==
  /\ status = "building"
  /\ Cardinality(starts) < MaxInstr
  /\ UNCHANGED execVars

BuildOp ==
  /\ MayBuild
  /\ \E op \in HandOps : addOp(op)
  /\ UNCHANGED status

BuildConst ==
  /\ MayBuild
  /\ \E val \in HandVals : addConst(val)
  /\ UNCHANGED status

BuildDefine ==
  /\ MayBuild
  /\ \E op \in DefineOps, name \in HandNames : addDefine(op, name)
  /\ UNCHANGED status

\* finalize() by the client, before the one of the constructor.
BuildFinalize ==
  /\ MayBuild
  /\ finalize
  /\ UNCHANGED status

\* regConstVal or addConstNull finds the constant table full.
BuildOverflow ==
  /\ MayBuild
  /\ HandVals # {} \/ HandNames # {}
  /\ PoolFull
  /\ Die("ABORT_POOL")

Next ==
  \/ BuildOp \/ BuildConst \/ BuildDefine \/ BuildFinalize
  \/ BuildOverflow
  \/ Construct \/ VMNext

vars == vmVars

Spec == Init /\ [][Next]_vars

-----------------------------------------------------------------------------

(***************************************************************************)
(* The type invariant: above all, ip stays between begin() and end(), the  *)
(* constants within the limit of regConstVal and icount within the budget. *)
(***************************************************************************)
TypeOK == VMTypeOK
=============================================================================
