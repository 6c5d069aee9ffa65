\* Programs of one statement in every shape of up to seven nodes, and of up to
\* three statements, with limits that some of them exceed.
CONSTANTS
  NaN = NaN
  Num <- MCNum
  Str = {"a", "b"}
  OfInt <- MCOfInt
  FNeg <- MCFNeg
  FArith <- MCFArith
  FEq <- MCFEq
  MaxConst = 4
  MaxIcount = 7
  Programs <- MCPrograms
SPECIFICATION FairSpec
INVARIANTS
  TypeOK
  WellFormed
  DepthIsStatic
  ChunkEndsInEof
  StmtLeavesItsValue
  PlainStmtOutcome
  VarBindsItsValue
PROPERTIES
  ImplementsInterp
  Terminates
\* The process stops.
CHECK_DEADLOCK FALSE
