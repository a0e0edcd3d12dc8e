---- MODULE MCTeamAnswers ----
(* One run over what somebody waits for: the outcome of a review, the end of *)
(* a child or new work, and the report to the parent conversation.  They     *)
(* share no state here: the first state chooses which one the behaviour is   *)
(* about, the others rest.                                                   *)
EXTENDS TeamReview, TeamObserver, MCTeamReports

VARIABLE explored

AnswersInit ==
  /\ explored \in {"review", "observer", "report"}
  /\ ReviewInit
  /\ explored = "review" \/ (mode = "off" /\ limit = 1 /\ Len(tasks) = 1)
  /\ ObserverInit
  /\ explored = "observer" \/ (child = [a \in Attempts |-> "none"] /\ todo = {})
  /\ ReportsInit

AnswersNext ==
  \/ explored = "review" /\ ReviewNext /\ UNCHANGED <<explored, observerVars, reportsVars>>
  \/ explored = "observer" /\ ObserverNext /\ UNCHANGED <<explored, reviewVars, reportsVars>>
  \/ explored = "report" /\ ReportsNext /\ UNCHANGED <<explored, reviewVars, observerVars>>

\* A resting part has nothing to do.
AnswersSpec ==
  /\ AnswersInit
  /\ [][AnswersNext]_<<explored, reviewVars, observerVars, reportsVars>>
  /\ ReviewFairness /\ ObserverFairness /\ DeliveryFairness
====
