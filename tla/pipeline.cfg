\* One key, one address, two goroutines, four requests, a window of two, one failure of any kind.
SPECIFICATION Spec
CONSTANTS
  Key = {k1}
  Request = {r1, r2}
  None = None
  Ttl = 1
  MaxNow = 2
  MaxStarts = 4
  MaxFaults = 1
  Sent = {k1}
  Client = {c1}
  User = {u1}
  Limit = 2
  Period = 1
SYMMETRY Interchangeable
VIEW WithoutHistory
CHECK_DEADLOCK FALSE
INVARIANTS
  TypeOK
  SuccessIsCommitted
  SlidingLimit
