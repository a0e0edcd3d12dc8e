CONSTANTS
  MaxWork = 1
  MaxCycles = 2
  ShutdownAttempts = 2
  CommandKinds = {"pause", "pauseNow", "repeat", "resume", "cancel", "abort"}
  MaxCommands = 3
  MaxRunnerFaults = 0
  MaxRunnerCrashes = 0
SPECIFICATION RunnerSpec
CHECK_DEADLOCK FALSE
INVARIANTS NeverPresentedAsHealthy
