CONSTANTS
  NumTasks = 1
  MaxOrdinal = 2
  Deps <- NoDeps
  Writers = {1}
  Overlap = {}
  StrictSerial = TRUE
  Checked = {1}
  Concurrency = 1
  MaxAttempts = 2
  MaxReworks = 1
  Ends = {"done", "unreported", "aborted"}
  Verdicts = {"passed", "failed", "inconclusive"}
  CrashFates = {"live", "halted", "lost"}
  Faults = {"runner", "start", "interrupt", "listing"}
  MaxControls = 2
  MaxCrashes = 1
  p1 = p1
  p2 = p2
  NoParent = NoParent
  Parents <- BothParents
  FirstParent = p1
  Statuses = {"running", "needs_reconciliation", "paused", "cancelled"}
  MaxFacts = 3
  MaxSwitches = 1
  MaxRecoveries = 1
  MaxFaults = 1
  MaxReportCrashes = 0
  BridgesMayFail = TRUE
  MaxDisturbances = 2
SPECIFICATION RecoverySpec
CHECK_DEADLOCK FALSE
INVARIANTS TypeOK CancelSticks LiveChildOwnsFiles UnknownIsGated QuietTeamIsQuiet CheckpointProvesInbox
PROPERTIES HistoryIsKept WakesAreNews
