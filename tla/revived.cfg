CONSTANTS
  team = team
  Controllers <- MCTeams
  Ordinals <- MCOrdinals
  Parents = {p1, p2}
  NoParent = none
  Writers = {}
  Batches = {}
  MaxFacts = 2
  MaxMoves = 4
  MaxBridgeFaults = 0
  MaxRecord = 0
SPECIFICATION BridgesSpec
INVARIANT PreviousParentIsNotRevived
CHECK_DEADLOCK FALSE
