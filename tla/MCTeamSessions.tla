---- MODULE MCTeamSessions ----
(* One run over four parts of the life of a Team's Session: the start that  *)
(* creates it, the transactions of its journal, the bridges to its parent   *)
(* conversation, and the control of a Team whose Session is cold.  They     *)
(* share no state: the first state chooses which part the behaviour is      *)
(* about, the others rest.                                                  *)
EXTENDS TeamStart, TeamJournal, TeamBridges, TeamDormant

CONSTANTS start, dispatch, summary, older, newer
VARIABLE explored

MCTeamOps == {start, dispatch}
MCIndexOps == {summary}
\* A start in one conversation, of any of the three modes, and a follow-up of
\* another conversation that is requested twice.
MCParentOf == [r \in Requests |-> IF r \in Starts THEN "A" ELSE "B"]
MCControllers == {older, newer}
\* Both controllers from before creation orders, both with one, or a mixture.
MCOrdinals == {[c \in MCControllers |-> 0],
               [c \in MCControllers |-> IF c = older THEN 1 ELSE 2],
               [c \in MCControllers |-> IF c = older THEN 0 ELSE 2]}

\* Appends that fail, and cuts from before revisions existed, take the place of a move.
HasLegacy == \E p \in Parents : \E i \in DOMAIN log[p] : log[p][i].kind # "tomb" /\ log[p][i].rev = 0
Stirs == moves + bridgeFaults + (IF HasLegacy THEN 1 ELSE 0)

SessionsInit ==
  /\ explored \in {"start", "journal", "bridges", "dormant"}
  /\ StartInit /\ JournalInit /\ BridgesInit /\ DormantInit
  /\ explored = "journal" \/ (listener /\ storage)
  /\ explored = "start" \/ mode = [r \in Requests |-> "reader"]
  /\ explored = "bridges" \/ part = "adapters"
  /\ explored = "dormant" \/ (cut = CHOOSE d \in DurableCuts : d.ready)
  /\ cut.ready \/ cut.status \in {"paused", "needs_reconciliation"}

SessionsNext ==
  \/ /\ explored = "start" /\ StartNext
     /\ UNCHANGED <<explored, journalVars, bridgesVars, dormantVars>>
  \/ /\ explored = "journal" /\ JournalNext
     /\ UNCHANGED <<explored, startVars, bridgesVars, dormantVars>>
  \/ /\ explored = "bridges" /\ BridgesNext /\ Stirs' <= MaxMoves
     /\ UNCHANGED <<explored, startVars, journalVars, dormantVars>>
  \/ /\ explored = "dormant" /\ DormantNext
     /\ UNCHANGED <<explored, startVars, journalVars, bridgesVars>>

SessionsSpec ==
  /\ SessionsInit
  /\ [][SessionsNext]_<<explored, startVars, journalVars, bridgesVars, dormantVars>>
====
