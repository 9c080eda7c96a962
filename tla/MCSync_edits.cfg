CONSTANTS
  d1 = d1  d2 = d2  e1 = e1  e2 = e2  e3 = e3
  Devices = {d1, d2}
  Engines = {e1, e2}
  StoreOf <- OneEach
  Ops <- FourOps
  RecordOf <- InOneRecord
  FieldOf <- InTwoFields
  CreatedFields <- TitleAndSite
  DemoOps = {}
  PendingLimit = 2
  MaxBatch = 2
  PageLimit = 2
  MaxRounds = 1
  MaxParents = 2
  MaxInterruptions = 0
SYMMETRY Swap
VIEW UpToGaps
SPECIFICATION Spec
INVARIANTS CausalOrder EveryVersionIsRepresented
PROPERTIES Implements
