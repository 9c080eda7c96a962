CONSTANTS
  editor = editor  viewer = viewer  admin = admin
  d1 = d1  d2 = d2  o1 = o1  o2 = o2  c1 = c1  c2 = c2  h1 = h1  h2 = h2
  Nobody = Nobody
  Devices = {d1, d2}
  Users = {editor, viewer, admin}
  RoleOf <- Roles
  Ops = {o1, o2}
  Files = {f1}
  Contents = {c1, c2}
  Handlers = {h1, h2}
  Sockets = {}
SYMMETRY Alike
SPECIFICATION Spec
INVARIANTS TypeOK AuditIsFaithful AcceptedWhileTrusted Authorized
PROPERTIES HistoryIsImmutable
CHECK_DEADLOCK FALSE
