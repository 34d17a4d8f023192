SPECIFICATION Spec
CONSTANTS
  a = a
  b = b
  Procs = {a, b}
  Protected = {}
  Enabled = {a, b}
  Induces <- RestForOne
  MaxRetries = 1
  Windowed = FALSE
  HealthRestart = FALSE
  Faults = {"crash", "hang", "create"}
  OperatorActs = FALSE
  InboxCap = 1
INVARIANTS WatchdogPaired InducedWatched LostIsTracked
PROPERTIES GivenUpNotReplanned
