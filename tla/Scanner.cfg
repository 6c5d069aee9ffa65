\* Any four characters of nine, and all keywords.
CONSTANT
  Buffers <- MCBuffers
SPECIFICATION FairSpec
INVARIANTS
  TypeOK
  LexesSource
  OverrunsOnlyIfOpen
  PositionIsColumn
PROPERTY Terminates
\* The scan ends.
CHECK_DEADLOCK FALSE
