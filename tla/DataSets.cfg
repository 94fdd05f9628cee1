SPECIFICATION FairSpec
CONSTANTS
  NULL = NULL
  Result = {q1, q2}
  Statement = {s1}
  DataSet = {d1}
  Reader = {i1, i2}
  RowCount = {0, 2}
INVARIANTS
  TypeOK
  RowsAccounted
  NullHasCause
  CursorInv
  EndMissesOnlyLost
  ExecutedKeepsResult
PROPERTIES
  ImplementsStream
  ReadersRunOut
  ReadersFinish
CHECK_DEADLOCK FALSE
