SPECIFICATION DisciplinedSpec
CONSTANTS
  NULL = NULL
  Context = {c1, c2}
  UUID = {u1, u2, u3}
  Ref = {r1, r2}
  Object = {o1, o2, o3}
SYMMETRY Interchangeable
PROPERTIES
  ImplementsRegistry
  ImplementsConnectionLife
CHECK_DEADLOCK FALSE
