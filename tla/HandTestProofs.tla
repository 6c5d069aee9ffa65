--------------------------- MODULE HandTestProofs ---------------------------
(***************************************************************************)
(* The invariants of HandTest, for every value of the constants.  The      *)
(* inductive invariant is VMInv of VMProofs: decoding stays at instruction *)
(* boundaries (Aligned) because the chunk is well formed, and the operands *)
(* it then finds are good ones.                                            *)
(***************************************************************************)
EXTENDS HandTest, VMProofs

LEMMA InitInv == Init => VMInv
BY NoVMInv DEF Init

\* The chunk of a client's step has grown.
LEMMA Grown ==
  ASSUME ChunkInv, NEW w \in Seq(Nat), code' = code \o w
  PROVE  Len(code) <= Len(code')
BY CodeAppend DEF ChunkInv, ChunkTypeOK

LEMMA StepInv == VMInv /\ [Next]_vars => VMInv'
<1> SUFFICES ASSUME VMInv, [Next]_vars
             PROVE  VMInv'
  OBVIOUS
<1>0. ChunkInv /\ Len(constants) \in Nat /\ OpCode \subseteq Nat
  BY LenProperties, OpcodeFacts
     DEF VMInv, VMTypeOK, ChunkInv, ChunkTypeOK
<1>1. CASE BuildOp
  <2>1. PICK op \in HandOps : addOp(op)
    BY <1>1 DEF BuildOp
  <2>2. op \in OpCode /\ op \in Nat /\ ~ TakesOperand(op)
    BY <1>0, HandAssumption
  <2>3. code' = code \o <<op>> /\ <<op>> \in Seq(Nat)
    BY <1>0, <2>1, <2>2, AppendIsConcat DEF addOp, ChunkInv, ChunkTypeOK
  <2>4. ChunkInv' /\ Len(code) <= Len(code')
    BY <1>0, <2>1, <2>2, <2>3, AddOpWellFormed, Grown
  <2> QED BY <1>1, <2>4, BuilderInv DEF BuildOp, MayBuild
<1>2. CASE BuildConst
  <2>1. PICK val \in HandVals : addConst(val)
    BY <1>2 DEF BuildConst
  <2>2. addOpWithConst(OP_CONST, val) /\ ~ PoolFull /\ val \in Value
    BY <2>1, HandAssumption DEF addConst, addOpWithConst
  <2>3. OP_CONST \notin DefineOps
    BY DEF OP_CONST, DefineOps, OP_DEFINE_GLOBAL, OP_DEFINE_LOCAL
  <2>4. code' = code \o <<OP_CONST, Len(constants)>>
        /\ <<OP_CONST, Len(constants)>> \in Seq(Nat)
    BY <1>0, <2>2 DEF addOpWithConst, OP_CONST
  <2>5. ChunkInv' /\ Len(code) <= Len(code')
    BY <1>0, <2>2, <2>3, <2>4, ConstOpWellFormed, Grown
  <2> QED BY <1>2, <2>5, BuilderInv DEF BuildConst, MayBuild
<1>3. CASE BuildDefine
  <2>1. PICK op \in DefineOps, name \in HandNames : addDefine(op, name)
    BY <1>3 DEF BuildDefine
  <2>2. /\ addOpWithConst(op, StrVal(name)) /\ ~ PoolFull
        /\ StrVal(name) \in Value /\ isString(StrVal(name))
    BY <2>1, HandAssumption, ValueKinds DEF addDefine, addOpWithConst
  <2>3. op \in Nat
    BY <1>0, OpcodeFacts
  <2>4. code' = code \o <<op, Len(constants)>>
        /\ <<op, Len(constants)>> \in Seq(Nat)
    BY <1>0, <2>2, <2>3 DEF addOpWithConst
  <2>5. ChunkInv' /\ Len(code) <= Len(code')
    BY <1>0, <2>2, <2>4, ConstOpWellFormed, Grown
  <2> QED BY <1>3, <2>5, BuilderInv DEF BuildDefine, MayBuild
<1>4. CASE BuildOverflow
  BY <1>4, DieInv DEF BuildOverflow, Died
<1>5. CASE BuildFinalize
  BY <1>0, <1>5, FinalizeWellFormed, BuilderInv DEF BuildFinalize, MayBuild
<1>6. CASE Construct \/ VMNext
  BY <1>6, VMStepInv
<1>7. CASE UNCHANGED vars
  BY <1>7, Unchanged DEF vars
<1> QED BY <1>1, <1>2, <1>3, <1>4, <1>5, <1>6, <1>7 DEF Next

(***************************************************************************)
(* Every reachable state has the types of VMTypeOK, instructions are       *)
(* decoded where they were encoded, and no operand is bad, for chunks of   *)
(* any length over any doubles and strings and any limits.                 *)
(***************************************************************************)
THEOREM HandTestInv == Spec => []VMInv
<1>1. Init => VMInv
  BY InitInv
<1>2. VMInv /\ [Next]_vars => VMInv'
  BY StepInv
<1> QED BY <1>1, <1>2, PTL DEF Spec

(***************************************************************************)
(* The type invariant of HandTest: stack, constants and variables hold     *)
(* values, ip stays in the chunk (dereferencing it is defined) and icount  *)
(* within the budget.                                                      *)
(***************************************************************************)
THEOREM HandTestTypeOK == Spec => []TypeOK
<1>1. VMInv => TypeOK
  BY DEF VMInv, TypeOK
<1> QED BY <1>1, HandTestInv, PTL

(***************************************************************************)
(* list() and exec() never take a constant index for an instruction.       *)
(***************************************************************************)
THEOREM HandTestAligned == Spec => []Aligned
<1>1. VMInv => Aligned
  BY DEF VMInv
<1> QED BY <1>1, HandTestInv, PTL

(***************************************************************************)
(* The asserts of getConst and of the definitions never fail.              *)
(***************************************************************************)
THEOREM HandTestNoBadOperand == Spec => []NoBadOperand
<1>1. VMInv => NoBadOperand
  BY DEF VMInv
<1> QED BY <1>1, HandTestInv, PTL

(***************************************************************************)
(* exec() reports INF_LOOP because its budget is spent and not because it  *)
(* ran off the chunk, unless the last word of the chunk was meant as a     *)
(* constant index.  Inductive with EofInv: the last word of a finalized    *)
(* chunk is OP_EOF, and ip passes it only where it is an operand.          *)
(***************************************************************************)
THEOREM HandTestLoopEnds == Spec => []LoopEndsByBudget
<1>1. Init => EofInv
  BY DEF Init, EofInv, LoopEndsByBudget
<1>2. VMInv /\ EofInv /\ [Next]_vars => EofInv'
  <2> SUFFICES ASSUME VMInv, EofInv, [Next]_vars
               PROVE  EofInv'
    OBVIOUS
  <2>1. CASE \/ BuildOp \/ BuildConst \/ BuildDefine
             \/ BuildFinalize \/ BuildOverflow
    BY <2>1 DEF BuildOp, BuildConst, BuildDefine, BuildFinalize, BuildOverflow,
                MayBuild, Die,
                EofInv, LoopEndsByBudget
  <2>2. CASE Construct \/ VMNext
    BY <2>2, VMStepEof
  <2>3. CASE UNCHANGED vars
    BY <2>3 DEF vars, vmVars, chunkVars, execVars, EofInv, LoopEndsByBudget
  <2> QED BY <2>1, <2>2, <2>3 DEF Next
<1>3. EofInv => LoopEndsByBudget
  BY DEF EofInv
<1> QED BY <1>1, <1>2, <1>3, HandTestInv, PTL DEF Spec

(***************************************************************************)
(* exec() never takes a depth for another: at every instruction it         *)
(* executes, the stack is as deep as the opcodes from the first one to it  *)
(* make it, and a pop() assert fails only where that depth is zero.        *)
(***************************************************************************)
THEOREM HandTestDepth == Spec => []DepthIsStatic
<1>1. Init => DepthIsStatic
  BY DEF Init, DepthIsStatic
<1>2. VMInv /\ DepthIsStatic /\ [Next]_vars => DepthIsStatic'
  <2> SUFFICES ASSUME VMInv, DepthIsStatic, [Next]_vars
               PROVE  DepthIsStatic'
    OBVIOUS
  <2>1. CASE \/ BuildOp \/ BuildConst \/ BuildDefine
             \/ BuildFinalize \/ BuildOverflow
    <3>1. status' \notin {"running", "ABORT_POP"}
      BY <2>1 DEF BuildOp, BuildConst, BuildDefine, BuildFinalize,
                  BuildOverflow, MayBuild, Die
    <3> QED BY <3>1, DepthElsewhere
  <2>2. CASE Construct \/ VMNext
    BY <2>2, VMStepDepth
  <2>3. CASE UNCHANGED vars
    BY <2>3, DepthKept DEF vars
  <2> QED BY <2>1, <2>2, <2>3 DEF Next
<1> QED BY <1>1, <1>2, HandTestInv, PTL DEF Spec
=============================================================================
