\* Two instances, one request, three starts, two migrations, one failure.
SPECIFICATION FairSpec
CONSTANTS
  Instance = {i1, i2}
  Request = {r1}
  None = None
  Environment = {"local", "production"}
  Files = 2
  MaxStarts = 3
  MaxFaults = 1
CHECK_DEADLOCK FALSE
INVARIANTS
  TypeOK
  ServesMigratedSchema
  RequestsKeepDatabase
PROPERTIES
  InterruptedStays
  StoppedNeverAccepts
  StopEnds
  StartServes
