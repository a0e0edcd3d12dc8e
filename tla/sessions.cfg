CONSTANTS
  start = start
  dispatch = dispatch
  summary = summary
  TeamOps <- MCTeamOps
  IndexOps <- MCIndexOps
  Bootstrap = start
  MaxJournalFaults = 1
  MaxJournalCrashes = 1
  MaxCloses = 1
  Starts = {"s"}
  Followups = {"f1", "f2"}
  Homes = {"A", "B"}
  ParentOf <- MCParentOf
  MaxStartFaults = 1
  MaxStartCrashes = 1
  older = older
  newer = newer
  Controllers <- MCControllers
  Ordinals <- MCOrdinals
  Parents = {p1, p2}
  NoParent = none
  Writers = {w1, w2}
  Batches = {b1, b2, b3}
  MaxFacts = 3
  MaxMoves = 4
  MaxBridgeFaults = 1
  MaxRecord = 3
  Calls = {c1, c2}
  Tools = {c2}
  MaxRestarts = 0
SPECIFICATION SessionsSpec
CHECK_DEADLOCK FALSE
INVARIANTS ManifestCoversResidue WritersNeverShare BridgesAreTrue ShownTeamsAreTrue
PROPERTIES StartsAreTrue JournalIsTrue ColdControlHolds
