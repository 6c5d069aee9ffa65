\* A closing token of the wrong type.
CONSTANTS
  Num <- ParserNum
  Str <- Positions
  OfInt <- ParserOfInt
  FNeg <- ParserNeg
  FArith <- ParserArith
  FEq <- ParserEq
  Inputs <- AnyInputs
SPECIFICATION Spec
INVARIANT BracketsMatch
CHECK_DEADLOCK FALSE
