\* One capture, of which one response is lost.
CONSTANTS
  Endpoint = {e1}
  Job = {j1}
  Attempt = {a1}
  MaxSteps = 1
  None = None
  Transfer = {t1}
  MaxChunks = 2
  Content = {c1, c2}
  ArtifactDigest <- MCDigest
  Request = {r1, r2}
  FaultKinds = {"Timeout", "LostVerdict"}
  MaxFaults = 1
SPECIFICATION PlaneSpec
PROPERTIES
  LostResponseRecovers
CHECK_DEADLOCK FALSE
