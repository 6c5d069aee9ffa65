\* Expressions of up to seven tokens; any three tokens, and statements with
\* one token wrong.
CONSTANTS
  Num <- ParserNum
  Str <- Positions
  OfInt <- ParserOfInt
  FNeg <- ParserNeg
  FArith <- ParserArith
  FEq <- ParserEq
  Inputs <- MCInputs
SPECIFICATION FairSpec
INVARIANTS
  TypeOK
  SingleOwner
  YieldIsSource
  DepthBySource
  OverrunsOnlyIfOpen
  ParsesByPrecedence
PROPERTY Terminates
\* The process stops.
CHECK_DEADLOCK FALSE
