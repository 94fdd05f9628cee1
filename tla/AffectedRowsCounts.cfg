SPECIFICATION Spec
CONSTANTS
  NULL = NULL
  Result = {q1, q2}
  Statement = {s1}
  DataSet = {d1}
  Reader = {i1}
  RowCount = {0, 256}
SYMMETRY Interchangeable
INVARIANT AffectedRowsCounts
CHECK_DEADLOCK FALSE
