SPECIFICATION Spec
CONSTANTS
  u1 = u1
  u2 = u2
  t1 = t1
  t2 = t2
  k1 = k1
  k2 = k2
  None = None
  User = {u1, u2}
  Table = {t1, t2}
  Code = {k1, k2}
  Seats = 2
  MaxLost = 1
  Overlap = FALSE
SYMMETRY Symmetry
INVARIANT CodeOwnedOnce
INVARIANT CodeLeadsToRoom
 
 
CHECK_DEADLOCK FALSE
