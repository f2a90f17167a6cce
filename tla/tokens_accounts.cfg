\* Two accounts, two requests, two seconds, one failure.
SPECIFICATION Spec
CONSTANTS
  User = {u1, u2}
  Request = {r1, r2}
  None = None
  Lifetime = 1
  MaxNow = 1
  MaxFaults = 1
CHECK_DEADLOCK FALSE
PROPERTIES
  SessionsEndForCause
