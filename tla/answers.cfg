CONSTANTS
  Modes = {"off", "manual", "quality-gate"}
  Limits = {1}
  TeamLimit = 2
  Findings = {"f1"}
  MaxTasks = 4
  MaxUser = 2
  MaxStalls = 1
  MaxReviewCrashes = 1
  p1 = p1
  p2 = p2
  NoParent = NoParent
  Parents <- BothParents
  FirstParent = p1
  Statuses = {"running", "paused"}
  MaxFacts = 2
  MaxSwitches = 1
  MaxRecoveries = 0
  MaxFaults = 0
  MaxReportCrashes = 1
  BridgesMayFail = FALSE
  NumAttempts = 2
  MaxObserverFaults = 1
  MaxWaits = 1
  MaxRestarts = 1
SPECIFICATION AnswersSpec
CHECK_DEADLOCK FALSE
INVARIANTS ReviewsAreOwned ReworksAreBounded OneMessagePerCut
PROPERTIES RequestsAreClosed RequestsAreAnswered SettlementsAreOwned WaitsEnd
