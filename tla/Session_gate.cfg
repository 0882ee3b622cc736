SPECIFICATION Spec
CONSTANTS
  c1 = c1
  c2 = c2
  c3 = c3
  g1 = g1
  g2 = g2
  u1 = u1
  u2 = u2
  None = None
  Conn = {c1, c2, c3}
  Gate = {g1}
  User = {u1}
  GateOf <- OneGate
  UserOf <- OneUser
  FdOf <- OwnFd
  AddrOf <- OwnAddr
  Fails = {"login", "forward", "load"}
SYMMETRY Symmetry
 
INVARIANT LockHasOwner
 
INVARIANT CountersExact
CHECK_DEADLOCK FALSE
