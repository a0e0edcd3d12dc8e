---- MODULE TeamProjection ----
(***************************************************************************)
(* The durable state of one Team, as replaying its journal projects it,    *)
(* and the predicates of the projection that the writers of the journal    *)
(* share.  Predicates take the part of the state they judge as arguments,  *)
(* because a writer judges the state its own events lead to.               *)
(***************************************************************************)
EXTENDS TeamStates, Integers, FiniteSets

CONSTANTS
    NumTasks,       \* tasks of the graph, numbered in creation order
    MaxOrdinal,     \* bound: attempts one task may have in the model
    Deps,           \* task -> tasks it depends on, all created before it
    Writers,        \* tasks whose authority mode may write; the others read
    Overlap,        \* pairs of tasks whose file scopes overlap
    StrictSerial,   \* directWriteStrategy = 'strict-writer-serial'
    Checked         \* tasks whose contract declares verification checks

Tasks == 1..NumTasks
Ordinals == 1..MaxOrdinal
Attempts == Tasks \X Ordinals

ASSUME GraphAssumption ==
    /\ NumTasks \in Nat \ {0}
    /\ MaxOrdinal \in Nat \ {0}
    /\ Deps \in [Tasks -> SUBSET Tasks]
    /\ \A t \in Tasks : \A d \in Deps[t] : d < t
    /\ Writers \subseteq Tasks
    /\ Overlap \subseteq Tasks \X Tasks
    /\ \A p \in Overlap : <<p[2], p[1]>> \in Overlap
    /\ StrictSerial \in BOOLEAN
    /\ Checked \subseteq Tasks

VARIABLES
    team,           \* status of the Team
    lastControl,    \* action of the latest Team-level control operation
    cancelAsked,    \* some control operation, ever, was a cancel
    startupCut,     \* the latest status change was written by a startup reconciliation
    task,           \* task -> status
    made,           \* task -> attempts created
    floor,          \* task -> verificationAttemptFloor
    attempt,        \* attempt -> its record
    verif,          \* attempt -> its verification, verdict folded in
    lease,          \* attempts whose file lease is active
    reworks         \* automatic retries the Team has spent

durable == <<team, lastControl, cancelAsked, startupCut, task, made, floor, attempt,
             verif, lease, reworks>>

\* How a child ends: reporting its task done, blocked or failed (ending without output
\* counts as failed), without a readable report, interrupted, or by a runtime error.
ChildEndings == {"done", "unreported", "blockedReport", "failedReport", "aborted", "error"}

\* stopReason 'completed'
CompletedEndings == ChildEndings \ {"aborted", "error"}

Observation == {"none", "live", "durable", "missing", "notadmitted", "unavailable"}

AttemptRecord ==
    [st   : AttemptStatus,
     ev   : {"none"} \union ChildEndings,             \* settlement evidence
     bind : {"unbound", "recovered", "admitted"},     \* recovered: child id known, no message id
     seen : Observation,                              \* latest reconciliation observation
     neg  : BOOLEAN,                                  \* closed by a proven negative resolution
     stop : BOOLEAN]                                  \* a stop-task operation names it

FreshAttempt == [st |-> "none", ev |-> "none", bind |-> "unbound", seen |-> "none",
                 neg |-> FALSE, stop |-> FALSE]

\* A failed verdict either advises a retry or stops the automatic correction.
VerifStatus == {"none", "running", "passed", "failedRetry", "failedStop", "waived"}

Latest(t) == <<t, made[t]>>

IsLatest(a) == a[2] = made[a[1]]
----
\* Mutant: an attempt counts only once its child was admitted.
HasAdmittedAttempts(at, vf) ==
    \/ \E a \in Attempts : at[a].st = "running"
    \/ \E a \in Attempts : vf[a] = "running"

\* Any child that may still settle, any verification that may still be judged.
HasActiveAttempts(at, vf) ==
    \/ \E a \in Attempts : at[a].st \in InFlight
    \/ \E a \in Attempts : vf[a] = "running"

\* Durable child facts that contradict each other or lack their outcome.
ReconciliationGap(tk, at) ==
    \E a \in Attempts :
        \/ at[a].st = "unknown"
        \/ at[a].st \in InFlight /\ tk[a[1]] # "running"
        \/ /\ at[a].bind # "unbound" /\ at[a].ev = "none" /\ ~at[a].neg
           /\ at[a].st \notin InFlight
        \/ at[a].ev \in CompletedEndings /\ tk[a[1]] = "running" /\ IsLatest(a)

\* Mutant: recovery forgets the attempts reconciliation made unknown.
HasActiveFacts(tk, at, vf, ls) == HasActiveAttempts(at, vf) \/ ls # {}

\* What a recovery, and a cancellation without its controller, must not leave behind.
HasUnresolvedFacts(tk, at, vf, ls) ==
    \/ ReconciliationGap(tk, at)
    \/ \E a \in Attempts : at[a].st \in Unresolved
    \/ \E a \in Attempts : vf[a] = "running"
    \/ ls # {}

TeamCompletionReady(tk, at, vf, ls) ==
    /\ ~HasUnresolvedFacts(tk, at, vf, ls)
    /\ \A t \in Tasks : tk[t] = "completed"

\* Every task has stopped, some of them short of completion: the controller decides.
RetryableGraph(tk, at, vf, ls) ==
    /\ ~HasActiveAttempts(at, vf)
    /\ \A t \in Tasks : tk[t] \in TerminalTask \union {"blocked"}
    /\ \E t \in Tasks : tk[t] # "completed"
    /\ ~ReconciliationGap(tk, at)
    /\ ls = {}

\* Mutant: the graph is judged before the requested control.
AfterSettlementGraphFirst(tm, tk, at, vf, ls) ==
    IF HasActiveAttempts(at, vf) THEN tm
    ELSE IF RetryableGraph(tk, at, vf, ls) /\ tm \in {"running", "pausing", "cancelling"} THEN "paused"
    ELSE CASE tm = "pausing" -> "paused"
           [] tm = "cancelling" -> "cancelled"
           [] tm = "running" /\ TeamCompletionReady(tk, at, vf, ls) -> "completed"
           [] OTHER -> tm

\* Team status after a settlement: the closing steps the same commit appends.
AfterSettlement(tm, tk, at, vf, ls) ==
    IF HasActiveAttempts(at, vf) THEN tm
    ELSE CASE tm = "pausing" -> "paused"
           [] tm = "cancelling" -> "cancelled"
           [] tm = "running" /\ TeamCompletionReady(tk, at, vf, ls) -> "completed"
           [] tm = "running" /\ RetryableGraph(tk, at, vf, ls) -> "paused"
           [] OTHER -> tm

\* Mutant: a verdict closes a pause only.
AfterVerdictWithoutCancel(tm, at, vf, ls) ==
    IF HasActiveAttempts(at, vf) \/ ls # {} THEN tm
    ELSE IF tm = "pausing" THEN "paused" ELSE tm

\* A verdict closes a requested control once nothing holds an attempt, a check or a lease.
AfterVerdict(tm, at, vf, ls) ==
    IF HasActiveAttempts(at, vf) \/ ls # {} THEN tm
    ELSE CASE tm = "pausing" -> "paused"
           [] tm = "cancelling" -> "cancelled"
           [] OTHER -> tm

\* Cancelling a closed Team takes every unfinished task with it.
CancelUnfinished(tk) == [t \in Tasks |-> IF tk[t] \in TerminalTask THEN tk[t] ELSE "cancelled"]

\* A cancel request cancels only the work that was never handed out.
CancelSchedulable(tk) == [t \in Tasks |-> IF tk[t] \in Schedulable THEN "cancelled" ELSE tk[t]]

\* Mutant: the recovery gate forgets the cancellation that led to it.
CancelIntentOutsideGate == lastControl = "cancel" /\ team # "needs_reconciliation"

\* The latest control operation is the cancellation, so recovery may only close the Team.
CancelIntent == lastControl = "cancel"
----
ProjectionTypeOK ==
    /\ team \in TeamStatus
    /\ lastControl \in {"none", "pause", "resume", "cancel"}
    /\ cancelAsked \in BOOLEAN
    /\ startupCut \in BOOLEAN
    /\ task \in [Tasks -> TaskStatus]
    /\ made \in [Tasks -> 0..MaxOrdinal]
    /\ floor \in [Tasks -> 1..(MaxOrdinal + 1)]
    /\ attempt \in [Attempts -> AttemptRecord]
    /\ verif \in [Attempts -> VerifStatus]
    /\ lease \subseteq Attempts
    /\ reworks \in Nat

ProjectionInit ==
    /\ team = "running" /\ lastControl = "none"
    /\ cancelAsked = FALSE /\ startupCut = FALSE
    /\ task = [t \in Tasks |-> "pending"]
    /\ made = [t \in Tasks |-> 0]
    /\ floor = [t \in Tasks |-> 1]
    /\ attempt = [a \in Attempts |-> FreshAttempt]
    /\ verif = [a \in Attempts |-> "none"]
    /\ lease = {} /\ reworks = 0
====
