SPECIFICATION Spec
CONSTANTS
  NULL = NULL
  Context = {c1, c2}
  UUID = {u1, u2, u3, u4}
  Ref = {r1, r2, r3}
  Object = {o1, o2, o3}
SYMMETRY Interchangeable
INVARIANTS
  TypeOK
  HandlesKeepTheirObject
  NoStaleCall
  LiveHandlesHaveEnv
  ConnectionsClosedWithContext
  IInv
PROPERTIES
  ErrorsChangeNoHandle
  GoneForGood
  RegistryUntilAliasClosed
CHECK_DEADLOCK FALSE
