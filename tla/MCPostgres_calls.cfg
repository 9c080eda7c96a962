CONSTANTS
  note = note  reply = reply  edited = edited  photo = photo  c1 = c1  c2 = c2
  None = None
  Devices = {d1}
  Users = {u1, u2}
  Ops = {note, reply, edited}
  Files = {photo}
  Id <- TheId
  Parents <- TheParents
  Batches <- SomeBatches
  Calls = {c1, c2}
  Pulls = {p1}
  PageLimit = 1
SYMMETRY Alike
SPECIFICATION Spec
INVARIANTS TypeOK GapFree PageIsContiguous AnswerIsTrue
PROPERTIES Implements
