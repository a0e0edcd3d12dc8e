SPECIFICATION SettlesSpec
CONSTANTS
  Commands = {p1, p2}
  Panels = {c1, c2}
  EntryIds = {e1}
  MaxEntries = 1
  MaxDiskFaults = 1
  MaxStops = 1
  NumTasks = 2
  MaxOrdinal = 1
  Deps <- NoDeps
  Writers = {}
  Overlap = {}
  StrictSerial = TRUE
  Checked = {1}
  Concurrency = 2
  MaxAttempts = 1
  MaxReworks = 1
  Ends = {"done"}
  Verdicts = {"passed", "inconclusive"}
  CrashFates = {"halted"}
  Faults = {}
  MaxControls = 2
  MaxCrashes = 0
  CheckKinds = {"build", "test", "interface", "screenshot"}
  MaxChecks = 2
  ReworkAttempts = {1, 2, 3}
CHECK_DEADLOCK FALSE
PROPERTIES ControlsSettle VerdictsAreProven KnowledgeIsTrue
