CONSTANTS
  d1 = d1  d2 = d2  e1 = e1  e2 = e2  e3 = e3
  Devices = {d1, d2}
  Engines = {e1, e2}
  StoreOf <- OneEach
  Ops <- TwoOps
  RecordOf <- InOneRecord
  FieldOf <- InOneField
  CreatedFields <- Title
  DemoOps = {1}
  PendingLimit = 1
  MaxBatch = 2
  PageLimit = 1
  MaxRounds = 1
  MaxParents = 2
  MaxInterruptions = 1
SYMMETRY Swap
VIEW UpToGaps
SPECIFICATION Spec
INVARIANTS TypeOK AckedIsStored NothingSkipped PushIsValid Agreement
PROPERTIES LogIsImmutable
