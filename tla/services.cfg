\* Two uploads over two instants, one call, one failure.
SPECIFICATION Spec
CONSTANTS
  Upload = {u1, u2}
  Call = {c1}
  None = None
  MaxTime = 1
  MaxFaults = 1
CHECK_DEADLOCK FALSE
INVARIANTS
  TypeOK
  ObjectsHold
  SuccessHappened
