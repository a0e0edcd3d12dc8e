SPECIFICATION Spec
CONSTANTS
  NumTasks = 3
  MaxOrdinal = 2
  Deps <- ChainLast
  Writers = {3}
  Overlap <- FirstAndLast
  StrictSerial = FALSE
  Checked = {1}
  Concurrency = 2
  MaxAttempts = 1
  MaxReworks = 1
  Ends = {"done", "error"}
  Verdicts = {"passed"}
  CrashFates = {"lost"}
  Faults = {"runner"}
  MaxControls = 1
  MaxCrashes = 0
INVARIANTS WorkFollowsDependencies PlanIsSafe
CHECK_DEADLOCK FALSE
