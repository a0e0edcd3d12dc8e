SPECIFICATION Spec
CONSTANTS
  NumTasks = 2
  MaxOrdinal = 2
  Deps <- NoDeps
  Writers = {1, 2}
  Overlap = {}
  StrictSerial = TRUE
  Checked = {1}
  Concurrency = 2
  MaxAttempts = 2
  MaxReworks = 1
  Ends = {"done", "failedReport"}
  Verdicts = {"passed", "failed"}
  CrashFates = {"live", "lost"}
  Faults = {}
  MaxControls = 1
  MaxCrashes = 1
INVARIANTS LeasesAreExclusive CompletionIsEarned
PROPERTIES ImplementsLifecycle
CHECK_DEADLOCK FALSE
