---- MODULE MCTeamRecovery ----
(* One run over what survives failures and restarts: the execution of a Team  *)
(* with one task, and the reports to its parent conversation.  They share no  *)
(* state here: the first state chooses which one the behaviour is about, the  *)
(* other rests.                                                               *)
EXTENDS MCTeamExecution, MCTeamReports

CONSTANT MaxDisturbances  \* bound: switches, recoveries, faults and restarts around the reports together

VARIABLE explored

RecoveryInit == explored \in {"execution", "reports"} /\ Init /\ ReportsInit

RecoveryNext ==
  \/ explored = "execution" /\ Next /\ UNCHANGED <<explored, reportsVars>>
  \/ /\ explored = "reports" /\ ReportsNext
     /\ switches' + recoveries' + faults' + hostCrashes' <= MaxDisturbances
     /\ UNCHANGED <<explored, vars>>

RecoverySpec == RecoveryInit /\ [][RecoveryNext]_<<explored, vars, reportsVars>>
====
