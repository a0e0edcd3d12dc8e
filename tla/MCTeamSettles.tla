---- MODULE MCTeamSettles ----
(***************************************************************************)
(* One run over three things that were asked for: what the user asks of a  *)
(* Team, the collection of evidence, and commands on the knowledge index.  *)
(* They share no state here: the first state chooses which one the         *)
(* behaviour is about, the others rest and owe nothing.                    *)
(***************************************************************************)
EXTENDS MCTeamExecution, TeamEvidence, TeamKnowledge

VARIABLE explored

SettlesInit ==
  /\ explored \in {"controls", "evidence", "knowledge"}
  /\ Init
  /\ CollectInit \/ (explored = "evidence" /\ GivenInit)
  /\ explored = "evidence" \/ (/\ reqs = <<[kind |-> "test", required |-> TRUE]>>
                               /\ budget.current = 1 /\ ~budget.teamSpent)
  /\ KnowledgeInit
  /\ explored = "knowledge" \/ disk.entries = {}

SettlesNext ==
  \/ /\ explored = "controls" /\ Next
     /\ UNCHANGED <<explored, evidenceVars, knowledgeVars>>
  \/ /\ explored = "evidence" /\ CollectNext
     /\ UNCHANGED <<explored, vars, knowledgeVars>>
  \/ /\ explored = "knowledge" /\ KnowledgeNext
     /\ UNCHANGED <<explored, vars, evidenceVars>>

\* HostFairness of the Team while it is the part explored.
ControlsFairness ==
  /\ WF_vars(explored = "controls" /\ RunnerStep)
  /\ WF_vars(explored = "controls" /\ WakeRunner)
  /\ WF_vars(explored = "controls" /\ CancelReturns)
  /\ WF_vars(explored = "controls" /\ \E a \in Attempts : VerifyStep(a))
  /\ \A a \in Attempts : /\ WF_vars(explored = "controls" /\ ExecutorStep(a))
                         /\ WF_vars(explored = "controls" /\ ChildEnds(a))

SettlesSpec ==
  /\ SettlesInit /\ [][SettlesNext]_<<explored, vars, evidenceVars, knowledgeVars>>
  /\ ControlsFairness /\ CollectFairness
====
