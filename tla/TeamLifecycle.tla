---- MODULE TeamLifecycle ----
(***************************************************************************)
(* What a Team promises to the user who watches its status: work is handed *)
(* out by a running Team only, a quiet status means that nothing is still  *)
(* working, a cancellation is never taken back, and the recovery gate      *)
(* opens towards work only for a Team nobody asked to cancel.              *)
(***************************************************************************)
EXTENDS TeamStates

VARIABLES
    status,     \* status the user reads
    asked,      \* a cancellation was requested
    busy        \* the outcome of some handed-out work is not known

LifecycleVars == <<status, asked, busy>>

LifecycleInit == status = "running" /\ asked = FALSE /\ busy = FALSE

\* The answer to a control that has to wait for work, and the one that does not.
Answer(pending, done) == status' = pending \/ (status' = done /\ ~busy)

HandOut ==
    /\ status = "running" /\ ~busy
    /\ busy' = TRUE
    /\ UNCHANGED <<status, asked>>

\* The last piece of work ends, or is judged; a control that waited for it is answered.
WorkEnds ==
    /\ busy' = FALSE
    /\ status' = status
       \/ /\ status = "running" /\ status' \in {"completed", "failed", "paused"}
       \/ /\ status = "pausing" /\ status' = "paused"
       \/ /\ status \in {"cancelling", "needs_reconciliation"} /\ asked /\ status' = "cancelled"
    /\ UNCHANGED asked

PauseTeam ==
    /\ status = "running" /\ Answer("pausing", "paused")
    /\ UNCHANGED <<asked, busy>>

ResumeTeam ==
    /\ status \in {"pausing", "paused"} /\ Answer("running", "completed")
    /\ UNCHANGED <<asked, busy>>

CancelTeam ==
    /\ status \notin TerminalTeam
    /\ asked' = TRUE
    /\ \/ status # "needs_reconciliation" /\ status' = "cancelling"
       \/ status' = "needs_reconciliation"
       \/ status' = "cancelled" /\ ~busy
    /\ UNCHANGED busy

\* Something about the work is uncertain: nothing is handed out until it is explained.
Gate ==
    /\ status \in {"running", "pausing", "cancelling"}
    /\ status' = "needs_reconciliation"
    /\ UNCHANGED <<asked, busy>>

Reopen ==
    /\ status = "needs_reconciliation" /\ ~asked
    /\ Answer("running", "paused")
    /\ UNCHANGED <<asked, busy>>

LifecycleNext ==
    \/ HandOut \/ WorkEnds \/ Gate \/ Reopen
    \/ PauseTeam \/ ResumeTeam \/ CancelTeam

LifecycleSpec == LifecycleInit /\ [][LifecycleNext]_LifecycleVars
====
