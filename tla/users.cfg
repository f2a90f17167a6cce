\* Three requests over two addresses and two numbers, two connections, one failure.
SPECIFICATION FairSpec
CONSTANTS
  Request = {r1, r2, r3}
  Email = {e1, e2}
  Phone = {p1, p2}
  None = None
  PoolSize = 2
  MaxFaults = 1
INVARIANTS
  TypeOK
  UniqueUsers
  AnswerTellsOutcome
  ConflictIsReal
  NoConnectionLeak
PROPERTIES
  EveryRequestEnds
  ImplementsAccounts
