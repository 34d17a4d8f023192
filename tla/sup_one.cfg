SPECIFICATION Spec
CONSTANTS
  a = a
  b = b
  Procs = {a}
  Protected = {}
  Enabled = {a}
  Induces <- OneForOne
  MaxRetries = 2
  Windowed = TRUE
  HealthRestart = TRUE
  Faults = {"crash", "exit", "hang", "create", "unkillable", "health"}
  OperatorActs = TRUE
  InboxCap = 2
INVARIANTS TypeOK RemovedStaysDown
