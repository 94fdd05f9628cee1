SPECIFICATION Spec
CONSTANTS
  NULL = NULL
  Result = {q1, q2}
  Statement = {s1}
  DataSet = {d1, d2}
  Reader = {i1, i2}
  RowCount = {0, 2}
SYMMETRY Interchangeable
INVARIANT DataSetKeepsItsResult
CHECK_DEADLOCK FALSE
