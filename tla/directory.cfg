\* Three rows over three seconds, pages from 0 or 1, page_size -1 to 2, one failure.
SPECIFICATION Spec
CONSTANTS
  Row = {r1, r2, r3}
  Start = {0, 1}
  Size <- Sizes
  MaxPage = 5
  MaxTime = 2
  MaxFaults = 1
SYMMETRY Interchangeable
CHECK_DEADLOCK FALSE
INVARIANTS
  TypeOK
  NothingMissed
  CountCoversPage
