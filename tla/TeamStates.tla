---- MODULE TeamStates ----
(***************************************************************************)
(* Status vocabularies and transition tables of the durable Team graph.    *)
(* The projection throws on a step its table does not list, so a table is  *)
(* the promise every writer of the journal has to keep.                    *)
(***************************************************************************)

TeamStatus == {"running", "pausing", "paused", "cancelling", "needs_reconciliation",
               "completed", "failed", "cancelled"}

TerminalTeam == {"completed", "failed", "cancelled"}

TaskStatus == {"pending", "ready", "running", "verifying", "completed", "blocked",
               "failed", "cancelled"}

\* Work a Team may still hand out: cancelled with the Team, replanned by the scheduler.
Schedulable == {"pending", "ready", "blocked"}

TerminalTask == {"completed", "failed", "cancelled"}

\* "none" stands for an ordinal that has not been dispatched yet.
AttemptStatus == {"none", "dispatching", "running", "settled", "verification_failed",
                  "completed", "failed", "cancelled", "unknown"}

\* A child may still be working on the attempt.
InFlight == {"dispatching", "running"}

\* Attempts whose outcome is not known: what reconciliation has to account for.
Unresolved == InFlight \union {"unknown"}

\* The scheduler of the plugin starts a Team by draft -> running in its first commit.
TeamStep == [running |-> {"pausing", "cancelling", "completed", "failed", "needs_reconciliation"},
             pausing |-> {"paused", "running", "cancelling", "needs_reconciliation"},
             paused |-> {"running", "cancelling"},
             cancelling |-> {"cancelled", "needs_reconciliation"},
             needs_reconciliation |-> {"paused", "running", "cancelled", "failed"},
             completed |-> {}, failed |-> {}, cancelled |-> {}]

AttemptStep == [none |-> {"dispatching"},
                dispatching |-> {"running", "failed", "cancelled", "unknown"},
                running |-> {"settled", "failed", "cancelled", "unknown"},
                settled |-> {"verification_failed", "completed", "failed", "unknown"},
                verification_failed |-> {"completed", "failed"},
                unknown |-> {"running", "settled", "failed", "cancelled"},
                completed |-> {}, failed |-> {}, cancelled |-> {}]

\* A commit may hold several events: at most two of the same entity in one commit.
InTwoSteps(table, from, to) ==
    \/ from = to
    \/ to \in table[from]
    \/ \E mid \in table[from] : to \in table[mid]
====
