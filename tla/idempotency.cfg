\* Two keys, two goroutines, three requests, records that expire, one failure.
SPECIFICATION Spec
CONSTANTS
  Key = {k1, k2}
  Request = {r1, r2}
  None = None
  Ttl = 1
  MaxNow = 1
  MaxStarts = 3
  MaxFaults = 1
  Hangups = TRUE
CHECK_DEADLOCK FALSE
SYMMETRY Interchangeable
INVARIANTS
  TypeOK
  AnswersBelongToKey
  LiveRecordIsReplayed
  AnswersAreRecorded
PROPERTIES
  FirstWriterWins
  RedisRecordsAgain
