SPECIFICATION Spec
CONSTANTS
  Capability = {k1, k2}
  Proof = {p1, p2}
  Request = {r1, r2}
  Operation = {"ChunkUpload", "SealManifest"}
  MaxTime = 3
  PastWindow = 1
  FutureSkew = 1
  Ttl = 2
  CapabilityCapacity = 1
  ReplayCapacity = 2
  Faults = {"Restart", "ClockBack", "Revoke"}
  MaxFaults = 1
  None = None
SYMMETRY Symmetries
INVARIANTS
  RepeatOnlyWhenOvertaken
  OverIsNeverApproved
CHECK_DEADLOCK FALSE
