SPECIFICATION FairSpec
CONSTANTS
  NumTasks = 1
  MaxOrdinal = 2
  Deps <- NoDeps
  Writers = {1}
  Overlap = {}
  StrictSerial = TRUE
  Checked = {1}
  Concurrency = 1
  MaxAttempts = 2
  MaxReworks = 1
  Ends = {"done"}
  Verdicts = {"passed", "failed"}
  CrashFates = {}
  Faults = {}
  MaxControls = 1
  MaxCrashes = 0
PROPERTY CancelSettles
CHECK_DEADLOCK FALSE
