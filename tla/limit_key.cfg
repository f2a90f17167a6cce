\* One account, two addresses, one request per window and address.
SPECIFICATION Spec
CONSTANTS
  Key = {k1}
  Request = {r1, r2}
  None = None
  Ttl = 1
  MaxNow = 1
  MaxStarts = 2
  MaxFaults = 0
  Sent = {k1, None}
  Client = {c1, c2}
  User = {u1}
  Limit = 1
  Period = 1
SYMMETRY Interchangeable
CHECK_DEADLOCK FALSE
INVARIANTS
  UserIsLimited
