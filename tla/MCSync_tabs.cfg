CONSTANTS
  d1 = d1  d2 = d2  e1 = e1  e2 = e2  e3 = e3
  Devices = {d1, d2}
  Engines = {e1, e2, e3}
  StoreOf <- TwoTabs
  Ops <- TwoOps
  RecordOf <- InOneRecord
  FieldOf <- InOneField
  CreatedFields <- Title
  DemoOps = {}
  PendingLimit = 2
  MaxBatch = 2
  PageLimit = 1
  MaxRounds = 2
  MaxParents = 2
  MaxInterruptions = 0
SYMMETRY SwapTabs
VIEW UpToGaps
SPECIFICATION Spec
INVARIANTS PageIsApplicable
PROPERTIES CursorGrows
