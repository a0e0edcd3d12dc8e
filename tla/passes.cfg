CONSTANTS
  MaxWork = 1
  MaxCycles = 2
  ShutdownAttempts = 2
  CommandKinds = {"pause", "pauseNow", "repeat", "resume", "cancel", "abort"}
  MaxCommands = 2
  MaxRunnerFaults = 1
  MaxRunnerCrashes = 1
  N = 2
  Limits = {1}
  Reserve = 1
  MaxTokens = 0
  MaxEarly = 1
  Foreigners = {100}
  MaxChildrenFaults = 1
SPECIFICATION PassesSpec
CHECK_DEADLOCK FALSE
INVARIANTS RunnerIsKept
PROPERTIES WorkIsDispatched EndsAreSettled ChildrenAreKept
