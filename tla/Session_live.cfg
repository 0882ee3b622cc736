SPECIFICATION FairSpec
CONSTANTS
  c1 = c1
  c2 = c2
  c3 = c3
  g1 = g1
  g2 = g2
  u1 = u1
  u2 = u2
  None = None
  Conn = {c1, c2}
  Gate = {g1, g2}
  User = {u1}
  GateOf <- TwoGates
  UserOf <- OneUser
  FdOf <- SharedFd
  AddrOf <- OwnAddr
  Fails = {}
PROPERTY NothingLeft
CHECK_DEADLOCK FALSE
