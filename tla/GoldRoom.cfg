SPECIFICATION Spec
CONSTANTS
  u1 = u1
  u2 = u2
  t1 = t1
  t2 = t2
  None = None
  User = {u1, u2}
  Table = {t1, t2}
  Seats = 2
  Width = 1
SYMMETRY Symmetry
INVARIANT JoinMutex
 
 
INVARIANT PlacesAgree
CHECK_DEADLOCK FALSE
