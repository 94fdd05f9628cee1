SPECIFICATION Spec
CONSTANTS
  NULL = NULL
  Thread = {t1, t2}
SYMMETRY Interchangeable
INVARIANTS
  TypeOK
  LoadedWhenQuiet
  OwnInitSuffices
  GlobalsInv
PROPERTIES
  MissingNeedsRaceOrFailure
  NeverRepaired
CHECK_DEADLOCK FALSE
