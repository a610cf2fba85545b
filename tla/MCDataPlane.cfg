\* One capture of two chunks, of which each can have two contents; an old
\* handler beside the one of the current run; every fault once.
CONSTANTS
  Endpoint = {e1}
  Job = {j1}
  Attempt = {a1}
  MaxSteps = 1
  None = None
  Transfer = {t1}
  MaxChunks = 2
  Content = {c1, c2}
  ArtifactDigest <- MCDigest
  Request = {r1, r2}
  FaultKinds = {"Timeout", "HandlerStops", "LostCommitAck", "LostSealDecision", "LostVerdict", "Mutate", "Corrupt", "Disconnect", "Cancel", "Close", "Interrupt"}
  MaxFaults = 3
SPECIFICATION PlaneSpec
INVARIANTS
  HeldIsStored
  VerifiedIsOneSource
  OutcomeMatchesArtifact
PROPERTIES
  RefinesTransferLifecycle
  CaptureEnds
CHECK_DEADLOCK FALSE
