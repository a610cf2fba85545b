SPECIFICATION ExecSpec
CONSTANTS
  Endpoint = {e1}
  Job = {j1, j2}
  Attempt = {a1, a2}
  MaxSteps = 1
  None = None
  Caller = {c1}
  Capacity = 2
  MaxTriggers = 1
  MaxInFlight = 1
SYMMETRY Symmetry
INVARIANT ExclusiveExecution
INVARIANT AtMostOnceExecution
INVARIANT OutcomeIsTrue
PROPERTY ExecRefinesJobLifecycle
