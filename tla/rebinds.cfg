CONSTANTS
  team = team
  Controllers <- MCTeams
  Ordinals <- MCOrdinals
  Parents = {p1, p2, p3}
  NoParent = none
  Writers = {}
  Batches = {}
  MaxFacts = 1
  MaxMoves = 5
  MaxBridgeFaults = 0
  MaxRecord = 0
SPECIFICATION BridgesSpec
INVARIANT RebindsAreReconciled
CHECK_DEADLOCK FALSE
