\* One account, two requests, three seconds, one failure.
SPECIFICATION Spec
CONSTANTS
  User = {u1}
  Request = {r1, r2}
  None = None
  Lifetime = 2
  MaxNow = 2
  MaxFaults = 1
CHECK_DEADLOCK FALSE
SYMMETRY Interchangeable
INVARIANTS
  TypeOK
  AnswersAreBacked
  NoTokenIssuedTwice
  DeadTokensIssueNothing
  ReuseEndsSessions
  AnswerEndsPresentedToken
PROPERTIES
  ImplementsTokenStore
