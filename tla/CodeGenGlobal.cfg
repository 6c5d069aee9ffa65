\* The place of a definition.
CONSTANTS
  NaN = NaN
  Num <- MCNum
  Str = {"a", "b"}
  OfInt <- MCOfInt
  FNeg <- MCFNeg
  FArith <- MCFArith
  FEq <- MCFEq
  MaxConst = 4
  MaxIcount = 5
  Programs <- LinePrograms
SPECIFICATION Spec
INVARIANT DefinesGlobal
CHECK_DEADLOCK FALSE
