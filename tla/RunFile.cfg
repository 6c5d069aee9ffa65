\* Sources of up to three pieces.
CONSTANTS
  NaN = NaN
  Num <- MCNum
  Str <- MCStr
  OfInt <- MCOfInt
  FNeg <- MCFNeg
  FArith <- MCFArith
  FEq <- MCFEq
  Atof <- MCAtof
  MaxConst = 4
  MaxIcount = 7
  Buffers <- MCBuffers
SPECIFICATION FairSpec
INVARIANTS
  Handover
  DeletedOnce
  PrintsMeaning
PROPERTY Terminates
\* The process ends.
CHECK_DEADLOCK FALSE
