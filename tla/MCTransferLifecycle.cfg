\* One JobStep that two Transfers name, two chunk indices with two possible
\* contents, two digests a seal may name or a verification compute.
CONSTANTS
  Endpoint = {e1}
  Job = {j1}
  Attempt = {a1}
  MaxSteps = 1
  None = None
  Transfer = {t1, t2}
  MaxChunks = 2
  Content = {c1, c2}
  ArtifactDigest = {d1, d2}
SYMMETRY Symmetry
SPECIFICATION TransferSpec
INVARIANTS
  VerifiedIsComplete
PROPERTIES
  DurablePromises
