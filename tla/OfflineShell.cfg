CONSTANTS
  Tabs = {t1, t2}
  Files = {index, main}
  Index = index
  MaxReleases = 3
SPECIFICATION Spec
INVARIANTS WorksOffline
