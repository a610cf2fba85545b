SPECIFICATION LiveSpec
CONSTANTS
  Session = {s1, s2}
  Attempt = {x}
  None = None
  Faults = {"Cancel", "MarkFails"}
INVARIANT InProgressHasSession
PROPERTY OnlyCarrierMarks
PROPERTY UncertainIsResolved
