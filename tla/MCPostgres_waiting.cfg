CONSTANTS
  note = note  reply = reply  edited = edited  photo = photo  c1 = c1  c2 = c2
  None = None
  Devices = {d1}
  Users = {u1}
  Ops = {note, reply, edited}
  Files = {}
  Id <- TheId
  Parents <- TheParents
  Batches <- OneBatch
  Calls = {c1, c2}
  Pulls = {}
  PageLimit = 1
SPECIFICATION FairSpec
PROPERTIES EveryCallReturns
