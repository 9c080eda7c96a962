CONSTANTS
  MaxPlain = 2
  MaxListened = 4
  MaxFutures = 5
  None = None
  Width = 3
  Radix = 2
  Group = 2
  Samples <- EdgeInts
  HalfAbove = 2
  Units <- EdgeUnits
  Bytes <- EdgeBytes
  Atoms = {a}
  Integers64 = {n}
  FieldNames <- SomeFieldNames
  Keys <- SomeKeys
  Nothing = Nothing
  TextUnits = 3
  TextBytes = 2
  Calls = 4
SPECIFICATION MCSpec
INVARIANTS ArithmeticIsExact TextsSurvive MessagesSurvive MapsHoldWhatWasPut
PROPERTIES Implements EveryListenerIsCalled
CHECK_DEADLOCK FALSE
