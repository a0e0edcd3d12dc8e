CONSTANTS
  Asks = {a1, a2}
  MessageIds = {i1}
  Workers = {t1, t2}
  MaxSlips = 1
  MaxRuns = 2
  Requests = {r1, r2}
  Kinds = {"pause", "resume", "cancel", "retry", "stop", "model", "authority", "scope", "acquire", "return", "attach"}
  Ids = {i1, i2}
  Conversations = {h1, h2}
  Tasks = {t1}
  Values = {old, new}
  First = old
  MaxTries = 2
  Sessions = {1, 2, 3}
  Large = {2}
  PageSize = 2
  PageRoom = 2
  MaxPages = 3
  MaxWalks = 2
  MaxChanges = 1
  RevisionIds = {v1, v2}
  Texts = {"x"}
  FirstTasks = 3
  TaskLimit = 8
  MaxFaulted = 1
  Models <- MCModels
  Controller <- MCController
  CatalogOf <- MCCatalogOf
  Allowlist <- MCAllowlist
  Preferred <- MCPreferred
  Policies = {"inherit", "fixed", "automatic"}
  TaskRequests = {"exact", "tier", "default", "legacy"}
  MaxDispatches = 3
  MaxActs = 2
  N = 2
  Limits = {1}
  Reserve = 1
  MaxTokens = 1
  MaxEarly = 1
  Foreigners = {}
  MaxChildrenFaults = 0
SPECIFICATION RequestsSpec
CHECK_DEADLOCK FALSE
INVARIANTS CommandsHold RevisionsAreCoherent
PROPERTIES InstructionsAreTrue PanelIsTrue RetriesAreSafe BatchesFitTheLimit
SYMMETRY AskSymmetry
