\* Hand-built chunks of up to 4 instructions over every kind of opcode.  The
\* budget and the constant table are small enough to be exhausted.
CONSTANTS
  NaN = NaN
  Num <- MCNum
  Str = {"a", "b"}
  OfInt <- MCOfInt
  FNeg <- MCFNeg
  FArith <- MCFArith
  FEq <- MCFEq
  MaxConst = 3
  MaxIcount = 4
  HandOps <- MCHandOps
  HandVals <- MCHandVals
  HandNames = {"a"}
  MaxInstr = 4
SPECIFICATION Spec
INVARIANTS
  TypeOK
  Aligned
  NoBadOperand
  LoopEndsByBudget
  DepthIsStatic
\* The process stops after one run of the VM.
CHECK_DEADLOCK FALSE
