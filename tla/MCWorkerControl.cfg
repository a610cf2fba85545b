SPECIFICATION Spec
CONSTANTS
  c1 = c1
  c2 = c2
  Call <- MCCall
  Offers <- MCOffers
  MaxConns = 2
  MaxChunks = 3
  HeldBefore = {{}, {0, 2}, {0, 1, 2}}
  PageSize = 1
  Capacity = 1
  SnapshotCapacity = 1
  PendingCapacity = 2
  MaxBreaks = 1
INVARIANTS
  TypeOK
  AnswerIsTrue
  ResumeIsSnapshot
PROPERTIES
  StaleIsPowerless
  CallsEnd
  ShutdownCompletes
CHECK_DEADLOCK FALSE
