SPECIFICATION FairSpec
CONSTANTS
  a = a
  b = b
  Procs = {a}
  Protected = {}
  Enabled = {a}
  Induces <- OneForOne
  MaxRetries = 2
  Windowed = FALSE
  HealthRestart = TRUE
  Faults = {"crash", "exit", "hang", "create", "unkillable", "health"}
  OperatorActs = FALSE
  InboxCap = 2
PROPERTIES SupervisorQuiesces FirstCrashHandled
