SPECIFICATION Spec
CONSTANTS
  c1 = c1
  c2 = c2
  s1 = s1
  e1 = e1
  e2 = e2
  r1 = r1
  r2 = r2
  Context <- MCContext
  Signal <- MCSignal
  Endpoint <- MCEndpoint
  Request <- MCRequest
  EnrollmentTtl = 1
  CredentialTtl = 1
  MaxTime = 1
  MaxMinted = 3
  Faults <- MCFaults
  MaxFaults = 1
  None = None
INVARIANTS TypeOK AcceptedIsCurrent ChainIsOfBoot NeverStranded
PROPERTIES RedemptionEnds RefinesEndpointFacts
CHECK_DEADLOCK FALSE
