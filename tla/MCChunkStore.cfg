\* Two chunks in one group and two contents; two uploads at once, four in
\* all, so that an upload can be repeated with the same or other bytes.
CONSTANTS
  Upload = {u1, u2}
  MaxChunks = 2
  Content = {c1, c2}
  BatchSize = 2
  Faults = {"WorkerCrash", "PowerLoss", "SyncFails", "DirSyncFails", "BadBody", "CommitFailed"}
  MaxFaults = 2
  MaxRequests = 4
  None = None
SPECIFICATION Spec
INVARIANTS
  TypeOK
  AcceptedSurvivesRestart
  BatchIsDurable
PROPERTIES
  KeepsPromise
  UploadsEnd
CHECK_DEADLOCK FALSE
