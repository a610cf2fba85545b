SPECIFICATION TxLiveSpec
CONSTANTS
  Endpoint = {e1}
  Job = {j1}
  Attempt = {1, 2}
  Call = {c1, c2}
  MaxSteps = 2
  None = None
CONSTRAINT InOrder
INVARIANTS
  NoStrandedWork
  PassesSuffice
PROPERTIES
  TerminalIsFinal
  RefinesJobLifecycle
  TransactionsEnd
