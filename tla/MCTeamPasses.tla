---- MODULE MCTeamPasses ----
(* One run over what drives a Team forward: the runner that owns its passes, *)
(* and the executor of the batches a pass dispatches.  They share no state   *)
(* here: the first state chooses which one the behaviour is about, the other *)
(* rests.                                                                    *)
EXTENDS TeamRunner, TeamChildren

VARIABLE explored

PassesInit ==
  /\ explored \in {"runner", "children"}
  /\ RunnerInit /\ work = IF explored = "runner" THEN MaxWork ELSE 0
  /\ ChildrenInit
  /\ explored = "children" \/ limit = Unset

PassesNext ==
  \/ explored = "runner" /\ RunnerNext /\ UNCHANGED <<explored, childrenVars>>
  \/ explored = "children" /\ ChildrenNext /\ UNCHANGED <<explored, runnerVars>>

\* A resting executor has nothing to do; a resting runner owes nothing.
PassesSpec ==
  /\ PassesInit
  /\ [][PassesNext]_<<explored, runnerVars, childrenVars>>
  /\ ChildrenFairness
  /\ WF_runnerVars(explored = "runner" /\ PassStep)
  /\ WF_runnerVars(explored = "runner" /\ JournalStep)
  /\ WF_runnerVars(explored = "runner" /\ DisposalEnds)
  /\ WF_runnerVars(explored = "runner" /\ ShutdownReleases)
====
