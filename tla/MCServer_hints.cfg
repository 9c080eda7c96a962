CONSTANTS
  editor = editor  viewer = viewer  admin = admin
  d1 = d1  d2 = d2  o1 = o1  o2 = o2  c1 = c1  c2 = c2  h1 = h1  h2 = h2
  Nobody = Nobody
  Devices = {d1, d2}
  Users = {editor}
  RoleOf <- EditorOnly
  Ops = {o1}
  Files = {}
  Contents = {c1}
  Handlers = {h1, h2}
  Sockets = {s1}
SPECIFICATION FairSpec
INVARIANTS HintsArrive
PROPERTIES Disconnected
CHECK_DEADLOCK FALSE
