SPECIFICATION GateSpec
CONSTANTS
  e1 = e1
  c1 = c1
  c2 = c2
  j1 = j1
  a1 = a1
  a2 = a2
  h1 = h1
  h2 = h2
  t1 = t1
  t2 = t2
  Endpoint <- MCEndpoint
  Context <- MCContext
  Job <- MCJob
  EndpointOf <- MCEndpointOf
  Call <- MCCall
  Snapshot <- MCSnapshot
  Target <- MCTarget
  MaxRevisions = 3
  None = None
SYMMETRY Symmetries
INVARIANTS NoTornDispatch
PROPERTIES CommitIsGated
