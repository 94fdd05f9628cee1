SPECIFICATION Spec
CONSTANTS
  NULL = NULL
  NOTHING = NOTHING
  UNSET = UNSET
  UNKNOWN = UNKNOWN
  IntRange = 4
  DoubleExact = 8
  Param = {1, 2}
  Index = {0, 1, 2, 5}
  Layout <- FamilyAndString
  Item <- Items
  Datum = {1}
  Wide = {3}
  GARBLED = GARBLED
INVARIANTS
  TypeOK
  ParametersAsAsked
  WhatWasSetIsRead
  NullsOrZeros
  WayInv
CHECK_DEADLOCK FALSE
