---- MODULE TeamExecution ----
(***************************************************************************)
(* One Team under one Host: the background runner that plans, dispatches   *)
(* and verifies; the batch executor that starts children and settles them; *)
(* the controls a user sends; and the recovery commands.  Every action     *)
(* that writes is one journal transaction, validated on the state it       *)
(* reads, so it is atomic; whatever a caller read before its transaction   *)
(* is explicit volatile state.                                             *)
(***************************************************************************)
EXTENDS TeamSchedule

CONSTANTS
    MaxAttempts,    \* contract.maxAttempts: attempts automatic correction may use
    MaxReworks,     \* DEFAULT_MAX_TEAM_AUTOMATIC_REWORKS
    Ends,           \* endings a child may have
    Verdicts,       \* dispositions the evidence may lead to
    CrashFates,     \* what a live child may be found to be after a Host restart
    Faults,         \* failures of the Host environment that may happen
    MaxControls,    \* bound: control commands the user sends
    MaxCrashes      \* bound: Host restarts

ASSUME ExecutionAssumption ==
    /\ MaxAttempts \in Nat \ {0}
    /\ MaxReworks \in Nat
    /\ Ends \subseteq ChildEndings
    /\ Verdicts \subseteq {"passed", "failed", "inconclusive"}
    /\ CrashFates \subseteq {"live", "halted", "lost"}
    /\ Faults \subseteq {"runner", "start", "interrupt", "listing"}
    /\ MaxControls \in Nat
    /\ MaxCrashes \in Nat

VARIABLES
    exec,       \* attempt -> how far the batch executor of this Host is with it
    child,      \* attempt -> the child Session itself; survives the Host
    runner,     \* absent: no controller registered; idle: registered; active: a pass runs
    pass,       \* attempts the current verify call still has to judge
    retryDue,   \* the verdict just recorded for the head of the pass asks for a retry
    failureDue, \* a pass ended short of a stop state and its failure mark is queued
    waking,     \* a resume has committed and has not yet settled or woken the runner
    cancelWait, \* a cancel call still waits for the children it interrupted
    scan,       \* observations taken by a reconciliation that has not committed
    controls, crashes

volatile == <<exec, runner, pass, retryDue, failureDue, waking, cancelWait>>
bounds == <<controls, crashes>>
vars == <<durable, volatile, child, scan, bounds>>

NoScan == [by |-> "none", seen |-> [a \in Attempts |-> "none"]]

\* hasActiveAttempt
Owned(a) == exec[a] # "none"

\* The child no longer runs, and the Host can read how it ended.
Ended(a) == child[a] \in ChildEndings

ExecutionTypeOK ==
    /\ exec \in [Attempts -> {"none", "launching", "admitting", "listening"}]
    /\ child \in [Attempts -> {"none", "live", "halted", "lost"} \union ChildEndings]
    /\ runner \in {"absent", "idle", "active"}
    /\ pass \subseteq Attempts
    /\ retryDue \in BOOLEAN /\ failureDue \in BOOLEAN
    /\ waking \in BOOLEAN /\ cancelWait \in BOOLEAN
    /\ scan \in [by : {"none", "startup", "user"}, seen : [Attempts -> Observation]]
    /\ controls \in 0..MaxControls /\ crashes \in 0..MaxCrashes

TypeOK == ProjectionTypeOK /\ ExecutionTypeOK

Init ==
    /\ ProjectionInit
    /\ exec = [a \in Attempts |-> "none"]
    /\ child = [a \in Attempts |-> "none"]
    /\ runner = "active"
    /\ pass = {} /\ retryDue = FALSE /\ failureDue = FALSE
    /\ waking = FALSE /\ cancelWait = FALSE
    /\ scan = NoScan
    /\ controls = 0 /\ crashes = 0

\* Every commit moves lastEventId, which makes a reconciliation scan in progress stale.
Commit == scan' = NoScan

\* A status change other than a startup reconciliation ends the startup cut.
Restate(status) ==
    /\ team' = status
    /\ startupCut' = (startupCut /\ status = team)

UnchangedControl == UNCHANGED <<lastControl, cancelAsked>>
UnchangedGraph == UNCHANGED <<task, made, floor, attempt, verif, lease, reworks>>
----
(* The runner: one pass of the Team loop *)

\* The loop is at its head: no verify call, and no batch still being admitted.
AtLoopHead ==
    /\ runner = "active" /\ pass = {}
    /\ \A a \in Attempts : exec[a] \notin {"launching", "admitting"}

\* The pass ends with a failure; the mark that makes it visible is another transaction.
FailPass ==
    /\ runner' = "idle" /\ pass' = {} /\ retryDue' = FALSE /\ failureDue' = TRUE
    /\ UNCHANGED <<exec, waking, cancelWait>>

\* Blocked and unblocked tasks are persisted before anything else of the cycle.
PersistSchedule ==
    /\ AtLoopHead /\ team = "running" /\ ~UnsafeGraph
    /\ NewlyBlocked \union Unblocked # {}
    /\ task' = [t \in Tasks |-> IF t \in NewlyBlocked THEN "blocked"
                                ELSE IF t \in Unblocked THEN "pending" ELSE task[t]]
    /\ Commit
    /\ UnchangedControl
    /\ UNCHANGED <<team, startupCut, made, floor, attempt, verif, lease, reworks>>
    /\ UNCHANGED <<volatile, child, bounds>>

\* The cycle may act: the schedule is persisted and the graph is consistent.
MayAct ==
    /\ AtLoopHead /\ team = "running" /\ ~UnsafeGraph
    /\ NewlyBlocked = {} /\ Unblocked = {}

\* Tasks running, attempts created and leases acquired for the whole batch at once.
Dispatch ==
    /\ MayAct
    /\ \E batch \in SUBSET Eligible :
        LET fresh == {<<t, made[t] + 1>> : t \in batch}
        IN  /\ batch # {} /\ IsBatch(batch) /\ LeasesFree(batch)
            /\ fresh \subseteq Attempts          \* bound MaxOrdinal
            /\ task' = [t \in Tasks |-> IF t \in batch THEN "running" ELSE task[t]]
            /\ made' = [t \in Tasks |-> IF t \in batch THEN made[t] + 1 ELSE made[t]]
            /\ attempt' = [a \in Attempts |-> IF a \in fresh
                                              THEN [FreshAttempt EXCEPT !.st = "dispatching"]
                                              ELSE attempt[a]]
            /\ lease' = lease \union fresh
            /\ exec' = [a \in Attempts |-> IF a \in fresh THEN "launching" ELSE exec[a]]
    /\ Commit
    /\ UnchangedControl
    /\ UNCHANGED <<team, startupCut, floor, verif, reworks>>
    /\ UNCHANGED <<runner, pass, retryDue, failureDue, waking, cancelWait, child, bounds>>

\* A lease of the batch collides with one still held: the batch throws, the pass fails.
DispatchRefused ==
    /\ MayAct
    /\ \E batch \in SUBSET Eligible : batch # {} /\ IsBatch(batch) /\ ~LeasesFree(batch)
    /\ FailPass
    /\ UNCHANGED <<durable, child, scan, bounds>>

NeverVerified(t) == \A n \in Ordinals : verif[<<t, n>>] = "none"

\* The latest verification of the task, whichever attempt it judged, was inconclusive.
LastWaived(t) ==
    \E n \in Ordinals : /\ verif[<<t, n>>] = "waived"
                         /\ \A m \in Ordinals : m > n => verif[<<t, m>>] = "none"

\* Tasks a verify call would do something for; it skips the last verification it waived.
Verifiable == {t \in Tasks : task[t] = "verifying" /\ ~LastWaived(t)}

\* Nothing to dispatch and nothing running: the verify call takes its targets once.
StartPass ==
    /\ MayAct /\ NothingToDispatch /\ ActiveTasks = {}
    /\ Verifiable # {}
    /\ pass' = {Latest(t) : t \in Verifiable}
    /\ UNCHANGED <<durable, exec, runner, retryDue, failureDue, waking, cancelWait>>
    /\ UNCHANGED <<child, scan, bounds>>

NothingLeft ==
    /\ MayAct /\ NothingToDispatch /\ ActiveTasks = {}
    /\ Verifiable = {}

\* All tasks completed: the completion coordinator closes the Team.
CompleteTeam ==
    /\ NothingLeft /\ TeamCompletionReady(task, attempt, verif, lease)
    /\ Restate("completed")
    /\ Commit
    /\ UnchangedControl /\ UnchangedGraph
    /\ UNCHANGED <<volatile, child, bounds>>

NoProgress ==
    /\ NothingLeft /\ ~TeamCompletionReady(task, attempt, verif, lease)
    /\ FailPass
    /\ UNCHANGED <<durable, child, scan, bounds>>

\* The loop meets a stop state.  Short of a terminal state or a recovery gate it is
\* reported as recoverable, and the same failure mark is queued as for a failed pass.
RunnerStops ==
    /\ AtLoopHead /\ team # "running"
    /\ runner' = IF team \in TerminalTeam THEN "absent" ELSE "idle"
    /\ failureDue' = (failureDue \/ team \in {"pausing", "paused", "cancelling"})
    /\ UNCHANGED <<durable, exec, pass, retryDue, waking, cancelWait, child, scan, bounds>>

\* Any other failure of a pass: a provider, the workspace check, a lost plan.
RunnerFails ==
    /\ "runner" \in Faults /\ runner = "active"
    /\ FailPass
    /\ UNCHANGED <<durable, child, scan, bounds>>

\* Mutant: the mark is applied whatever became of the Team since the pass ended.
MarkRunnerFailureBlindly ==
    /\ failureDue /\ failureDue' = FALSE
    /\ Restate("needs_reconciliation") /\ Commit
    /\ UnchangedControl /\ UnchangedGraph
    /\ UNCHANGED <<exec, runner, pass, retryDue, waking, cancelWait, child, bounds>>

\* markBackgroundRunnerFailure judges the state it finds, not the one the pass ended in.
MarkRunnerFailure ==
    /\ failureDue /\ failureDue' = FALSE
    /\ Restate(IF team = "running" THEN "needs_reconciliation" ELSE team)
    /\ scan' = IF team = "running" THEN NoScan ELSE scan
    /\ UnchangedControl /\ UnchangedGraph
    /\ UNCHANGED <<exec, runner, pass, retryDue, waking, cancelWait, child, bounds>>
----
(* Verification: the targets of a pass are judged one after the other *)

IsTarget(a) == a \in pass /\ \A b \in pass : a[1] <= b[1]

\* A target names the latest verification its task ever had; only without one does the
\* pass begin a new verification.
BeginAllowed(a) ==
    /\ NeverVerified(a[1])
    /\ task[a[1]] = "verifying" /\ IsLatest(a)
    /\ attempt[a].st = "settled"

\* The verdict is recorded only for the running check of the task's current attempt.
VerdictAllowed(a) ==
    /\ task[a[1]] = "verifying" /\ IsLatest(a) /\ a[2] >= floor[a[1]]
    /\ verif[a] = "running"

BeginVerification(a) ==
    /\ IsTarget(a) /\ ~retryDue /\ BeginAllowed(a)
    /\ verif' = [verif EXCEPT ![a] = "running"]
    /\ Commit
    /\ UnchangedControl
    /\ UNCHANGED <<team, startupCut, task, made, floor, attempt, lease, reworks>>
    /\ UNCHANGED <<volatile, child, bounds>>

\* Lease released, attempt and task moved together; then a requested control may close.
JudgeTask(a, attemptStatus, taskStatus, verdict) ==
    /\ verif' = [verif EXCEPT ![a] = verdict]
    /\ attempt' = [attempt EXCEPT ![a].st = attemptStatus]
    /\ task' = [task EXCEPT ![a[1]] = taskStatus]
    /\ lease' = lease \ {a}

VerdictPassed(a) ==
    /\ "passed" \in Verdicts
    /\ JudgeTask(a, "completed", "completed", "passed")
    /\ Restate(AfterVerdict(team, attempt', verif', lease'))
    /\ retryDue' = FALSE /\ pass' = pass \ {a}

\* No usable evidence: the task waits, visibly blocked, for a human decision.
VerdictInconclusive(a) ==
    /\ "inconclusive" \in Verdicts
    /\ JudgeTask(a, attempt[a].st, "blocked", "waived")
    /\ Restate(AfterVerdict(team, attempt', verif', lease'))
    /\ retryDue' = FALSE /\ pass' = pass \ {a}

\* A failure that still has a retry keeps the task verifying and its lease held.
VerdictRetry(a) ==
    /\ "failed" \in Verdicts /\ a[2] < MaxAttempts /\ reworks < MaxReworks
    /\ verif' = [verif EXCEPT ![a] = "failedRetry"]
    /\ Restate(AfterVerdict(team, attempt, verif', lease))
    /\ UNCHANGED <<task, attempt, lease>>
    /\ retryDue' = TRUE /\ pass' = pass

\* So does one whose retry the Team's correction budget no longer allows; nobody asks for it.
VerdictExhausted(a) ==
    /\ "failed" \in Verdicts /\ a[2] < MaxAttempts /\ reworks >= MaxReworks
    /\ verif' = [verif EXCEPT ![a] = "failedStop"]
    /\ Restate(AfterVerdict(team, attempt, verif', lease))
    /\ UNCHANGED <<task, attempt, lease>>
    /\ retryDue' = FALSE /\ pass' = pass \ {a}

\* A failure without retry closes the task, and the running Team with it.
VerdictStop(a) ==
    /\ "failed" \in Verdicts /\ a[2] >= MaxAttempts
    /\ IF team \in {"running", "cancelling", "pausing"}
       THEN /\ JudgeTask(a, "verification_failed", "failed", "failedStop")
            /\ Restate(IF team = "running" THEN "failed"
                       ELSE AfterVerdict(team, attempt', verif', lease'))
       ELSE /\ verif' = [verif EXCEPT ![a] = "failedStop"]
            /\ Restate(team)
            /\ UNCHANGED <<task, attempt, lease>>
    /\ retryDue' = FALSE /\ pass' = pass \ {a}

RecordVerdict(a) ==
    /\ IsTarget(a) /\ ~retryDue /\ VerdictAllowed(a)
    /\ \/ VerdictPassed(a) \/ VerdictInconclusive(a)
       \/ VerdictRetry(a) \/ VerdictExhausted(a) \/ VerdictStop(a)
    /\ Commit
    /\ UnchangedControl
    /\ UNCHANGED <<made, floor, reworks>>
    /\ UNCHANGED <<exec, runner, failureDue, waking, cancelWait, child, bounds>>

\* The target moved on since the pass read it, or the verification it names is not the
\* running one of this attempt: a verdict exists, or an earlier attempt owns it.
VerifyRefused(a) ==
    /\ IsTarget(a) /\ ~retryDue /\ ~BeginAllowed(a) /\ ~VerdictAllowed(a)
    /\ FailPass
    /\ UNCHANGED <<durable, child, scan, bounds>>

\* What TaskRetryCoordinator asks of the graph, whoever asks for the retry.
RetryAllowed(t) ==
    /\ team \in {"running", "paused"}
    /\ task[t] \in {"failed", "cancelled", "verifying", "blocked"}
    /\ \A n \in Ordinals : attempt[<<t, n>>].st \notin Unresolved /\ verif[<<t, n>>] # "running"
    /\ \A a \in lease : a[1] = t => IsLatest(a)

\* The task gets a fresh opportunity; earlier attempts keep their evidence.
RequeueTask(t) ==
    /\ task' = [task EXCEPT ![t] = "ready"]
    /\ floor' = [floor EXCEPT ![t] = made[t] + 1]
    /\ lease' = {a \in lease : a[1] # t}
    /\ Commit
    /\ UnchangedControl
    /\ UNCHANGED <<team, startupCut, made, attempt, verif>>

AutoRetryAllowed(a) ==
    /\ team = "running" /\ ~ReconciliationGap(task, attempt) /\ reworks < MaxReworks
    /\ task[a[1]] = "verifying" /\ IsLatest(a) /\ RetryAllowed(a[1])

AutoRetry(a) ==
    /\ IsTarget(a) /\ retryDue /\ AutoRetryAllowed(a)
    /\ RequeueTask(a[1])
    /\ reworks' = reworks + 1
    /\ retryDue' = FALSE /\ pass' = pass \ {a}
    /\ UNCHANGED <<exec, runner, failureDue, waking, cancelWait, child, bounds>>

\* A pause, a cancel or a recovery gate came between the verdict and its retry.
AutoRetryRefused(a) ==
    /\ IsTarget(a) /\ retryDue /\ ~AutoRetryAllowed(a)
    /\ FailPass
    /\ UNCHANGED <<durable, child, scan, bounds>>
----
(* The batch executor and the children it starts *)

StartChild(a) ==
    /\ exec[a] = "launching"
    /\ exec' = [exec EXCEPT ![a] = "admitting"]
    /\ child' = [child EXCEPT ![a] = "live"]
    /\ UNCHANGED <<durable, runner, pass, retryDue, failureDue, waking, cancelWait, scan, bounds>>

\* The Harness rejects the start, by itself or because the start was aborted.  A record
\* of the failure needs the attempt still dispatching; otherwise only the executor forgets.
StartRejected(a) ==
    /\ exec[a] = "launching"
    /\ "start" \in Faults \/ cancelAsked \/ attempt[a].stop
    /\ exec' = [exec EXCEPT ![a] = "none"]
    /\ IF attempt[a].st = "dispatching" /\ task[a[1]] = "running"
       THEN LET outcome == IF cancelAsked THEN "cancelled" ELSE "failed"
            IN  /\ attempt' = [attempt EXCEPT ![a].st = outcome]
                /\ task' = [task EXCEPT ![a[1]] = outcome]
                /\ lease' = lease \ {a}
                /\ Restate(AfterSettlement(team, task', attempt', verif, lease'))
                /\ Commit
       ELSE UNCHANGED <<attempt, task, lease, team, startupCut, scan>>
    /\ UnchangedControl
    /\ UNCHANGED <<made, floor, verif, reworks>>
    /\ UNCHANGED <<runner, pass, retryDue, failureDue, waking, cancelWait, child, bounds>>

AdmitAttempt(a) ==
    /\ exec[a] = "admitting" /\ attempt[a].st = "dispatching" /\ attempt[a].bind = "unbound"
    /\ exec' = [exec EXCEPT ![a] = "listening"]
    /\ attempt' = [attempt EXCEPT ![a].st = "running", ![a].bind = "admitted"]
    /\ Commit
    /\ UnchangedControl
    /\ UNCHANGED <<team, startupCut, task, made, floor, verif, lease, reworks>>
    /\ UNCHANGED <<runner, pass, retryDue, failureDue, waking, cancelWait, child, bounds>>

\* A reconciliation got in between: neither admission nor failure can be recorded.
AdmissionLost(a) ==
    /\ exec[a] = "admitting"
    /\ attempt[a].st # "dispatching" \/ attempt[a].bind # "unbound"
    /\ exec' = [exec EXCEPT ![a] = "none"]
    /\ UNCHANGED <<durable, runner, pass, retryDue, failureDue, waking, cancelWait>>
    /\ UNCHANGED <<child, scan, bounds>>

ChildEnds(a) ==
    /\ child[a] = "live"
    /\ \E ending \in Ends : child' = [child EXCEPT ![a] = ending]
    /\ UNCHANGED <<durable, volatile, scan, bounds>>

SettlementDue(a) ==
    /\ Ended(a) /\ attempt[a].ev = "none"
    /\ attempt[a].st \in {"running", "unknown"} /\ task[a[1]] = "running"

\* Mutant: the stop reason of the child is taken for a status.
SettledAttemptByReason(a, asked) == IF child[a] = "done" THEN "settled" ELSE child[a]

\* decideChildSettlement: where the attempt and its task go.
SettledAttempt(a, asked) ==
    CASE child[a] = "aborted" -> "cancelled"
      [] child[a] = "error" -> "failed"
      [] child[a] = "done" /\ a[1] \notin Checked /\ ~asked -> "completed"
      [] OTHER -> "settled"

\* Mutant: a report of success completes the task, checks or not.
SettledTaskUnchecked(a, asked) ==
    IF asked THEN "cancelled"
    ELSE CASE child[a] = "aborted" -> "cancelled"
           [] child[a] \in {"error", "failedReport"} -> "failed"
           [] child[a] \in {"blockedReport", "unreported"} -> "blocked"
           [] OTHER -> "completed"

SettledTask(a, asked) ==
    IF asked THEN "cancelled"
    ELSE CASE child[a] = "aborted" -> "cancelled"
           [] child[a] \in {"error", "failedReport"} -> "failed"
           [] child[a] \in {"blockedReport", "unreported"} -> "blocked"
           [] OTHER -> IF a[1] \in Checked THEN "verifying" ELSE "completed"

\* Evidence, outcome, lease and the closing Team step, from whoever saw the child end.
SettleAttempt(a) ==
    LET asked == cancelAsked \/ attempt[a].stop
        outcome == SettledTask(a, asked)
    IN  /\ SettlementDue(a)
        /\ attempt' = [attempt EXCEPT ![a].st = SettledAttempt(a, asked), ![a].ev = child[a]]
        /\ task' = [task EXCEPT ![a[1]] = outcome]
        /\ lease' = IF outcome = "verifying" THEN lease ELSE lease \ {a}
        /\ Restate(AfterSettlement(team, task', attempt', verif, lease'))
        /\ Commit
        /\ UnchangedControl
        /\ UNCHANGED <<made, floor, verif, reworks>>
        /\ UNCHANGED <<runner, pass, retryDue, failureDue, waking, cancelWait, child, bounds>>

\* The listener registered at admission delivers the end.
Settle(a) ==
    /\ exec[a] = "listening"
    /\ SettleAttempt(a)
    /\ exec' = [exec EXCEPT ![a] = "none"]

\* Evidence already recorded, or the attempt closed otherwise: the listener only ends.
SettleWithoutEffect(a) ==
    /\ exec[a] = "listening" /\ Ended(a) /\ ~SettlementDue(a)
    /\ exec' = [exec EXCEPT ![a] = "none"]
    /\ UNCHANGED <<durable, runner, pass, retryDue, failureDue, waking, cancelWait>>
    /\ UNCHANGED <<child, scan, bounds>>

\* The progress observer, or the cold scan of inactive children, records the end instead.
ObservedSettle(a) ==
    /\ attempt[a].bind = "admitted"
    /\ SettleAttempt(a)
    /\ UNCHANGED exec
----
(* Controls a user sends *)

Controlled(action) ==
    /\ controls < MaxControls
    /\ controls' = controls + 1
    /\ lastControl' = action
    /\ cancelAsked' = (cancelAsked \/ action = "cancel")
    /\ UNCHANGED crashes

Pause ==
    /\ team \in {"running", "pausing"}
    /\ Controlled("pause")
    /\ Restate(IF HasActiveAttempts(attempt, verif) THEN "pausing" ELSE "paused")
    /\ Commit
    /\ UnchangedGraph
    /\ UNCHANGED <<volatile, child>>

\* Interrupted tasks are retried first (RetryTask); a paused Team needs work to resume,
\* and gets its runner registered again when this Host has none.
Resume ==
    /\ \/ /\ team = "paused"
          /\ ResumeHasWork
          /\ \A t \in Tasks : ~RetriedByResume(t)
       \/ /\ team = "pausing"
          /\ runner # "absent"
    /\ Controlled("resume")
    /\ LET ready == TeamCompletionReady(task, attempt, verif, lease)
       IN  /\ Restate(IF ready THEN "completed" ELSE "running")
           /\ waking' = ~ready
    /\ runner' = IF runner = "absent" THEN "idle" ELSE runner
    /\ Commit
    /\ UnchangedGraph
    /\ UNCHANGED <<exec, pass, retryDue, failureDue, cancelWait, child>>

\* Second half of a resume: settle a Team without work, else start a pass.
WakeRunner ==
    /\ waking /\ waking' = FALSE
    /\ Restate(SettledQuiescent)
    /\ scan' = IF SettledQuiescent = team THEN scan ELSE NoScan
    /\ runner' = IF team = "running" /\ SettledQuiescent # "running" THEN runner ELSE "active"
    /\ UnchangedControl /\ UnchangedGraph
    /\ UNCHANGED <<exec, pass, retryDue, failureDue, cancelWait, child, bounds>>

\* Unstarted tasks and Team after a cancel request.
CancelGraph ==
    IF team = "needs_reconciliation"
    THEN IF HasUnresolvedFacts(task, attempt, verif, lease)
         THEN UNCHANGED <<team, startupCut, task>>
         ELSE task' = CancelUnfinished(task) /\ Restate("cancelled")
    ELSE /\ task' = CancelSchedulable(task)
         /\ Restate(IF HasActiveAttempts(attempt, verif) THEN "cancelling" ELSE "cancelled")

VerificationOnly == \A a \in Attempts : attempt[a].st \notin InFlight

\* The request is durable before any child is signalled; then the call waits for them.
Cancel ==
    /\ team \in {"running", "pausing", "paused", "needs_reconciliation"}
    /\ Controlled("cancel")
    /\ CancelGraph
    /\ cancelWait' = (team' = "cancelling" /\ ~(VerificationOnly /\ runner = "active"))
    /\ Commit
    /\ UNCHANGED <<made, floor, attempt, verif, lease, reworks>>
    /\ UNCHANGED <<exec, runner, pass, retryDue, failureDue, waking, child>>

\* The call gives up waiting, or an interrupt was rejected: without an owned child that
\* may still close the Team, the cancellation is uncertain.
CancelReturns ==
    /\ cancelWait /\ cancelWait' = FALSE
    /\ LET owned == \E t \in Tasks : made[t] > 0 /\ Owned(Latest(t))
       IN  \/ /\ team = "cancelling"
              /\ ~owned \/ "interrupt" \in Faults
              /\ Restate("needs_reconciliation") /\ Commit
           \/ /\ team # "cancelling" \/ owned
              /\ UNCHANGED <<team, startupCut, scan>>
    /\ UnchangedControl /\ UnchangedGraph
    /\ UNCHANGED <<exec, runner, pass, retryDue, failureDue, waking, child, bounds>>

\* A cancel without a controller never interrupts anything, so it closes or gates.
CancelDormant ==
    /\ runner = "absent"
    /\ \/ /\ team \in {"running", "pausing", "paused"}
          /\ task' = CancelSchedulable(task)
          /\ Restate(IF HasActiveAttempts(attempt, verif) THEN "needs_reconciliation"
                     ELSE "cancelled")
          /\ Controlled("cancel")
       \/ /\ team = "needs_reconciliation"
          /\ CancelGraph
          /\ Controlled("cancel")
       \/ /\ team = "cancelling"
          /\ IF HasUnresolvedFacts(task, attempt, verif, lease)
             THEN Restate("needs_reconciliation") /\ UNCHANGED task
             ELSE Restate("cancelled") /\ task' = CancelUnfinished(task)
          /\ UnchangedControl /\ UNCHANGED bounds
    /\ Commit
    /\ UNCHANGED <<made, floor, attempt, verif, lease, reworks, volatile, child>>

\* Replaying a reconcile command closes a cancellation that has nothing left to prove.
CloseCancellation ==
    /\ team = "needs_reconciliation" /\ CancelIntent
    /\ ~HasUnresolvedFacts(task, attempt, verif, lease)
    /\ task' = CancelUnfinished(task)
    /\ Restate("cancelled")
    /\ Commit
    /\ UnchangedControl
    /\ UNCHANGED <<made, floor, attempt, verif, lease, reworks, volatile, child, bounds>>

\* A stop names the attempt; what ends the child is its interrupt.
StopTask(t) ==
    /\ controls < MaxControls /\ controls' = controls + 1
    /\ team = "running" /\ task[t] = "running" /\ made[t] > 0
    /\ attempt[Latest(t)].st \in InFlight /\ ~attempt[Latest(t)].stop
    /\ attempt' = [attempt EXCEPT ![Latest(t)].stop = TRUE]
    /\ Commit
    /\ UnchangedControl
    /\ UNCHANGED <<team, startupCut, task, made, floor, verif, lease, reworks>>
    /\ UNCHANGED <<volatile, child, crashes>>

\* A retry somebody asked for; in a running Team it wakes the runner.
RetryTask(t) ==
    /\ controls < MaxControls /\ controls' = controls + 1
    /\ RetryAllowed(t)
    /\ made[t] < MaxOrdinal                     \* bound
    /\ team = "running" => runner # "absent"
    /\ RequeueTask(t)
    /\ runner' = IF team = "running" THEN "active" ELSE runner
    /\ UNCHANGED <<reworks, exec, pass, retryDue, failureDue, waking, cancelWait, child, crashes>>
----
(* Recovery: observe, reconcile, resolve, clear *)

UnresolvedAttempts == {a \in Attempts : attempt[a].st \in Unresolved}

\* What the Host can say of an attempt: its child by the bound id, or by listing children.
Classified(a) ==
    CASE attempt[a].bind = "unbound" /\ child[a] \in {"none", "lost"} -> "notadmitted"
      [] child[a] = "live" -> "live"
      [] attempt[a].bind # "unbound" /\ child[a] \in {"none", "lost"} -> "missing"
      [] OTHER -> "durable"

\* The startup recovery leaves alone the attempts its own executor still holds; a batch
\* just committed may not have reached the executor's table when it looks.
ObservationDue(by) ==
    /\ UnresolvedAttempts # {}
    /\ by = "startup" =>
        /\ team \in {"running", "pausing", "cancelling"}
        /\ HasActiveAttempts(attempt, verif)
        /\ \E a \in Attempts : attempt[a].st \in InFlight /\ exec[a] \in {"none", "launching"}

\* The observation is read outside any transaction.
Observe(by) ==
    /\ scan = NoScan /\ ObservationDue(by)
    /\ \E listed \in {TRUE} \union (IF "listing" \in Faults THEN {FALSE} ELSE {}) :
        scan' = [by |-> by,
                 seen |-> [a \in Attempts |-> IF a \notin UnresolvedAttempts THEN "none"
                                               ELSE IF listed THEN Classified(a)
                                               ELSE "unavailable"]]
    /\ UNCHANGED <<durable, volatile, child, bounds>>

\* The observation is committed only while nothing else was, and gates the Team.
CommitReconcile ==
    /\ scan # NoScan
    /\ team \in {"running", "pausing", "cancelling", "needs_reconciliation"}
    /\ attempt' = [a \in Attempts |->
          IF scan.seen[a] = "none" THEN attempt[a]
          ELSE [attempt[a] EXCEPT
                  !.st = "unknown", !.seen = scan.seen[a],
                  !.bind = IF @ = "unbound" /\ scan.seen[a] \in {"live", "durable"}
                           THEN "recovered" ELSE @]]
    /\ team' = "needs_reconciliation"
    /\ startupCut' = IF team = "needs_reconciliation" THEN startupCut ELSE scan.by = "startup"
    /\ Commit
    /\ UnchangedControl
    /\ UNCHANGED <<task, made, floor, verif, lease, reworks, volatile, child, bounds>>

\* Mutant: the observation committed earlier is trusted, nothing is proved afresh.
QuiescentAsObserved(a) == ~Owned(a) /\ attempt[a].seen \in {"durable", "missing", "notadmitted"}

\* Fresh proof, taken inside the transaction, that the observed child cannot act any more.
\* For an attempt that was never bound, no child of the controller may be listed at all.
Quiescent(a) ==
    /\ ~Owned(a)
    /\ CASE attempt[a].seen = "durable" -> child[a] \notin {"none", "live", "lost"}
         [] attempt[a].seen = "missing" -> child[a] = "lost"
         [] attempt[a].seen = "notadmitted" -> \A b \in Attempts : child[b] \in {"none", "lost"}
         [] OTHER -> FALSE

\* A negative resolution; with the last one, a requested cancellation closes.
Resolve(a, decision) ==
    /\ team = "needs_reconciliation" /\ task[a[1]] = "running"
    /\ attempt[a].st = "unknown" /\ Quiescent(a)
    /\ \A b \in lease : b[1] = a[1] => b = a
    /\ attempt' = [attempt EXCEPT ![a].st = decision, ![a].neg = TRUE]
    /\ lease' = lease \ {a}
    /\ LET closed == [task EXCEPT ![a[1]] = decision]
           closes == /\ CancelIntent /\ lease' = {}
                     /\ \A b \in Attempts : /\ attempt'[b].st \notin Unresolved
                                            /\ verif[b] # "running"
       IN  /\ task' = IF closes THEN CancelUnfinished(closed) ELSE closed
           /\ Restate(IF closes THEN "cancelled" ELSE team)
    /\ Commit
    /\ UnchangedControl
    /\ UNCHANGED <<made, floor, verif, reworks, volatile, child, bounds>>

\* Nothing runs on this Host and every listed child is bound and inactive.
RecoveryProof ==
    \A a \in Attempts : /\ ~Owned(a)
                        /\ child[a] # "live"
                        /\ child[a] \in {"none", "lost"} \/ attempt[a].bind # "unbound"

\* The recovery saga releases leases whose attempts are closed, then pauses the Team.
\* Clearing is an event of its own: the startup cut survives it.
ClearOrphans ==
    /\ team = "needs_reconciliation" /\ ~CancelIntent
    /\ ~HasUnresolvedFacts(task, attempt, verif, {})
    /\ RecoveryProof
    /\ lease' = {}
    /\ team' = "paused"
    /\ Commit
    /\ UnchangedControl
    /\ UNCHANGED <<startupCut, task, made, floor, attempt, verif, reworks>>
    /\ UNCHANGED <<volatile, child, bounds>>

\* With no fact left to prove, the journal alone clears the gate.
ClearFromJournal ==
    /\ team = "needs_reconciliation" /\ ~CancelIntent
    /\ ~HasUnresolvedFacts(task, attempt, verif, lease)
    /\ team' = "paused"
    /\ Commit
    /\ UnchangedControl /\ UnchangedGraph
    /\ UNCHANGED <<startupCut, volatile, child, bounds>>

\* A resume of a gated Team clears to running, with the proof and a runner to wake.
ClearToRunning ==
    /\ team = "needs_reconciliation" /\ ~CancelIntent
    /\ ~HasUnresolvedFacts(task, attempt, verif, lease)
    /\ ResumeHasWork /\ RecoveryProof
    /\ team' = "running"
    /\ waking' = TRUE
    /\ runner' = IF runner = "absent" THEN "idle" ELSE runner
    /\ Commit
    /\ UnchangedControl /\ UnchangedGraph
    /\ UNCHANGED <<startupCut, exec, pass, retryDue, failureDue, cancelWait, child, bounds>>

\* A startup scan gated a Team whose children this Host does own: the gate is undone.
ConfirmOwned ==
    /\ team = "needs_reconciliation" /\ startupCut
    /\ lastControl \notin {"cancel", "pause"}
    /\ UnresolvedAttempts # {}
    /\ \A a \in UnresolvedAttempts :
          /\ attempt[a].st = "unknown" /\ attempt[a].bind = "admitted"
          /\ attempt[a].seen = "live" /\ exec[a] = "listening" /\ task[a[1]] = "running"
    /\ attempt' = [a \in Attempts |-> IF a \in UnresolvedAttempts
                                      THEN [attempt[a] EXCEPT !.st = "running"] ELSE attempt[a]]
    /\ Restate("running")
    /\ Commit
    /\ UnchangedControl
    /\ UNCHANGED <<task, made, floor, verif, lease, reworks, volatile, child, bounds>>

\* A restarted Host finds a running Team nobody works on: run it, settle it, or gate it.
RecoverDormant ==
    /\ runner = "absent" /\ team = "running" /\ ~HasActiveAttempts(attempt, verif)
    /\ LET runnable == \/ \A t \in Tasks : task[t] = "completed"
                       \/ ~UnsafeGraph /\ ~NothingToDispatch
       IN  /\ runner' = IF runnable THEN "active" ELSE runner
           /\ IF runnable THEN UNCHANGED <<team, startupCut, scan>>
              ELSE /\ Restate(IF SettledQuiescent = "running" THEN "needs_reconciliation"
                              ELSE SettledQuiescent)
                   /\ Commit
    /\ UnchangedControl /\ UnchangedGraph
    /\ UNCHANGED <<exec, pass, retryDue, failureDue, waking, cancelWait, child, bounds>>

\* The Host restarts: what it held is gone, children are wherever they are found.
Crash ==
    /\ crashes < MaxCrashes /\ crashes' = crashes + 1
    /\ exec' = [a \in Attempts |-> "none"]
    /\ \E fate \in [{a \in Attempts : child[a] = "live"} -> CrashFates] :
        child' = [a \in Attempts |-> IF child[a] = "live" THEN fate[a] ELSE child[a]]
    /\ runner' = "absent" /\ pass' = {}
    /\ retryDue' = FALSE /\ failureDue' = FALSE /\ waking' = FALSE /\ cancelWait' = FALSE
    /\ scan' = NoScan
    /\ UNCHANGED <<durable, controls>>
----
RunnerStep ==
    \/ PersistSchedule \/ Dispatch \/ DispatchRefused
    \/ StartPass \/ CompleteTeam \/ NoProgress \/ RunnerStops \/ MarkRunnerFailure

VerifyStep(a) ==
    \/ BeginVerification(a) \/ RecordVerdict(a) \/ VerifyRefused(a)
    \/ AutoRetry(a) \/ AutoRetryRefused(a)

ExecutorStep(a) ==
    \/ StartChild(a) \/ StartRejected(a) \/ AdmitAttempt(a) \/ AdmissionLost(a)
    \/ Settle(a) \/ SettleWithoutEffect(a)

Control ==
    \/ Pause \/ Resume \/ Cancel \/ CancelDormant
    \/ \E t \in Tasks : StopTask(t) \/ RetryTask(t)

Recovery ==
    \/ \E by \in {"startup", "user"} : Observe(by)
    \/ CommitReconcile
    \/ \E a \in Attempts, decision \in {"failed", "cancelled"} : Resolve(a, decision)
    \/ ClearOrphans \/ ClearFromJournal \/ ClearToRunning \/ CloseCancellation
    \/ ConfirmOwned \/ RecoverDormant

Next ==
    \/ RunnerStep \/ RunnerFails
    \/ \E a \in Attempts : VerifyStep(a)
    \/ \E a \in Attempts : ExecutorStep(a) \/ ChildEnds(a) \/ ObservedSettle(a)
    \/ WakeRunner \/ CancelReturns
    \/ Control \/ Recovery \/ Crash

Spec == Init /\ [][Next]_vars

\* What the Host schedules by itself: the runner's loop, the executor's callbacks, and the
\* second halves of commands it has accepted.  A child ends because its Session is bounded
\* or interrupted.  Users, recovery commands, faults and restarts owe nothing.
HostFairness ==
    /\ WF_vars(RunnerStep) /\ WF_vars(WakeRunner) /\ WF_vars(CancelReturns)
    /\ WF_vars(\E a \in Attempts : VerifyStep(a))
    /\ \A a \in Attempts : WF_vars(ExecutorStep(a)) /\ WF_vars(ChildEnds(a))

FairSpec == Spec /\ HostFairness
====
