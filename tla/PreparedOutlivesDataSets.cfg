SPECIFICATION Spec
CONSTANTS
  NULL = NULL
  Context = {c1}
  UUID = {u1, u2, u3}
  Ref = {r1, r2, r3}
  Object = {o1, o2, o3}
SYMMETRY Interchangeable
INVARIANT PreparedOutlivesDataSets
CHECK_DEADLOCK FALSE
