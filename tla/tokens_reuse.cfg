\* A reused token while a refresh of the live one runs, no failure at all.
SPECIFICATION Spec
CONSTANTS
  User = {u1}
  Request = {r1, r2}
  None = None
  Lifetime = 2
  MaxNow = 2
  MaxFaults = 0
CHECK_DEADLOCK FALSE
SYMMETRY Interchangeable
INVARIANTS
  ReuseEndsEverySession
