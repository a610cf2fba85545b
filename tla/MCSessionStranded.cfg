SPECIFICATION LiveSpec
CONSTANTS
  Session = {s1}
  Attempt = {x}
  None = None
  Faults = {}
PROPERTY DispatchedIsResolved
