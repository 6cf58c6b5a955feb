CONSTANTS
  s1 = s1
  s2 = s2
  a1 = a1
  Sessions = {s1, s2}
  Admins = {a1}
SPECIFICATION Spec
INVARIANT ConnectedIsOnline
CHECK_DEADLOCK FALSE
