\* One key, one goroutine, no failure: a second request after the first record expired.
SPECIFICATION Spec
CONSTANTS
  Key = {k1}
  Request = {r1}
  None = None
  Ttl = 1
  MaxNow = 2
  MaxStarts = 3
  MaxFaults = 0
  Hangups = FALSE
CHECK_DEADLOCK FALSE
PROPERTIES
  EveryBackendRecordsAgain
