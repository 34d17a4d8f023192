SPECIFICATION FairSpec
CONSTANTS
  a = a
  b = b
  Procs = {a}
  Protected = {}
  Enabled = {a}
  Induces <- OneForOne
  MaxRetries = 2
  Windowed = FALSE
  HealthRestart = FALSE
  Faults = {"crash"}
  OperatorActs = FALSE
  InboxCap = 2
PROPERTIES EveryCrashHandled
