\* OP_POP after a print statement.
CONSTANTS
  NaN = NaN
  Num <- MCNum
  Str = {"a", "b"}
  OfInt <- MCOfInt
  FNeg <- MCFNeg
  FArith <- MCFArith
  FEq <- MCFEq
  MaxConst = 2
  MaxIcount = 5
  Programs <- LinePrograms
SPECIFICATION Spec
INVARIANT StackRestored
CHECK_DEADLOCK FALSE
