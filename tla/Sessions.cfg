SPECIFICATION Spec
CONSTANTS
  NULL = NULL
  Context = {c1, c2}
  Conn = {k1, k2, k3}
  Session = {s1, s2, s3}
  Work = {w1, w2}
  Options <- SomeOptions
SYMMETRY Interchangeable
INVARIANTS
  TypeOK
  OptionsInForce
  UnreachableWereRefused
  PendingCanBeSettled
  SettledByItsOwn
  SessionsInv
PROPERTIES
  ImplementsConnectionLife
  ImplementsTransactions
CHECK_DEADLOCK FALSE
