CONSTANTS
  f1 = f1  f2 = f2  f3 = f3  s1 = s1  s2 = s2  w1 = w1  w2 = w2  p1 = p1
  RecordOf <- OneRecord
  Stores = {s1, s2}
  Windows = {w1, w2}
  Panels = {p1}
  StoreOf <- TwoWindows
  Files = {f1, f2, f3}
  Refused = {f3}
  UploadLimit = 2
  ListLimit = 1
  MaxInterruptions = 1
SPECIFICATION FairSpec
INVARIANTS TypeOK UploadedIsStored FetchIsComplete
PROPERTIES EverythingInFrontIsUploaded
CHECK_DEADLOCK FALSE
