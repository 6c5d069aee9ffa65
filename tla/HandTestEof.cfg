\* Chunks that are long lists of constants: index 16 is the number of OP_EOF.
CONSTANTS
  NaN = NaN
  Num <- MCNum
  Str = {"a"}
  OfInt <- MCOfInt
  FNeg <- MCFNeg
  FArith <- MCFArith
  FEq <- MCFEq
  MaxConst = 18
  MaxIcount = 50
  HandOps = {}
  HandVals <- OneVal
  HandNames = {}
  MaxInstr = 18
SPECIFICATION Spec
INVARIANT ChunkEndsInEof
CHECK_DEADLOCK FALSE
