----------------------------- MODULE TeamRunner -----------------------------
(***************************************************************************)
(* The Host's runner of one Team: the supervisor that owns its passes      *)
(* (HarnessTeamRunnerSupervisor, run-cycle.ts), the bounded loop of a pass *)
(* (run-team-loop.ts), and the service commands that pause, resume, cancel,*)
(* recover and shut down around it (service.ts).  What a pass decides is   *)
(* TeamExecution's subject: here a Team is a number of tasks worked on one *)
(* at a time.  A step is the code between two awaits of I/O or a timer;    *)
(* what runs in microtasks in between belongs to the step.                 *)
(***************************************************************************)
EXTENDS Integers, Sequences, FiniteSets

CONSTANTS
  MaxWork,         \* tasks of the Team
  MaxCycles,       \* cycles of a pass before it yields (maxCycles)
  ShutdownAttempts,\* HOST_SHUTDOWN_DISPOSAL_ATTEMPTS
  CommandKinds,           \* commands users send
  MaxCommands,     \* bound: commands of one Host life
  MaxRunnerFaults,       \* bound: failed observations, disposals, interrupts, attempts
  MaxRunnerCrashes       \* bound: Host restarts

VARIABLES
  lifecycle, work, held, active,   \* the journal: status, open tasks, those that need a
                             \* retry, the task being worked on: running its attempt,
                             \* settled and to be verified, or checking
  told,                      \* the journal holds the operation of a pause
  alive,                     \* the attempt in this process: none, running, ended
  queue,                     \* transactions waiting for the journal, first come first
  sup,                       \* the HarnessTeamRunnerState of the Team
  pass,                      \* where its pass is
  flags,                      \* flags of the supervisor and the service
  cmds,                      \* commands of this Host life
  spent                      \* faults and crashes so far

ASSUME RunnerAssumption ==
  /\ MaxWork \in Nat /\ MaxCommands \in Nat
  /\ CommandKinds \subseteq {"pause", "pauseNow", "repeat", "resume", "cancel", "abort"}

durable == <<lifecycle, work, held, active, told>>
runnerVars == <<durable, alive, queue, sup, pass, flags, cmds, spent>>

Terminal == {"completed", "cancelled"}
Stopped == Terminal \cup {"paused", "needs_reconciliation"}
Inactive == {"pausing", "cancelling"}
\* Stop reasons with the disposition "recoverable".
Recoverable == {"paused", "inactive", "noProgress"}

\* cut is history, no step depends on it: a repeated pause interrupted the pass of a
\* running Team, and nothing has woken the runner since.
Unbound == [bound |-> FALSE, op |-> "none", pending |-> FALSE, aborted |-> FALSE,
            observers |-> {}, releasing |-> FALSE, disposal |-> "none", leases |-> 0,
            cut |-> FALSE]
NoPass == [at |-> "none", cycles |-> 0]
FreshPass == [at |-> "head", cycles |-> 0]
FreshHost == [closing |-> FALSE, disposed |-> FALSE, replanned |-> FALSE,
              cached |-> FALSE, disposals |-> 0, attempts |-> 0]

\* launchTeamInBackground of a Team that was just committed.
RunnerInit ==
  /\ lifecycle = "running" /\ work \in 0 .. MaxWork /\ held = 0 /\ active = "none"
  /\ told = FALSE /\ alive = "none" /\ queue = <<>>
  /\ sup = [Unbound EXCEPT !.bound = TRUE, !.op = "pass", !.observers = {"launch"}]
  /\ pass = FreshPass /\ flags = FreshHost
  /\ cmds = <<>> /\ spent = [faults |-> 0, crashes |-> 0]
-----------------------------------------------------------------------------
(* The journal's queue, the commands and the faults.                       *)

Tx(name, by) == [tx |-> name, by |-> by]
Turn(name) == queue # <<>> /\ Head(queue).tx = name
Caller == Head(queue).by
Sent(kind) == [kind |-> kind, phase |-> "queued"]
MayAsk == Len(cmds) < MaxCommands
Issue(kind) ==
  /\ kind \in CommandKinds /\ MayAsk
  /\ cmds' = Append(cmds, Sent(kind))
  /\ queue' = Append(queue, Tx(kind, Len(cmds) + 1))
Advances(phase) == cmds' = [cmds EXCEPT ![Caller].phase = phase]
Fails == spent.faults < MaxRunnerFaults
RunnerFault == Fails /\ spent' = [spent EXCEPT !.faults = @ + 1]
-----------------------------------------------------------------------------
(* The supervisor: operators on its state, each one of its methods.        *)

CanWakeIn(s, h) == s.bound /\ ~h.closing /\ ~h.disposed /\ ~s.releasing
CanWake == CanWakeIn(sup, flags)
Wakeable(s) == s.bound /\ ~s.releasing /\ ~flags.disposed

\* Mutant: a wake that finds an operation is not remembered.
ForgetfulWoken(s) ==
  IF s.op = "none"
  THEN [s EXCEPT !.op = "pass", !.pending = FALSE, !.aborted = FALSE, !.observers = {"wake"},
                 !.cut = FALSE]
  ELSE [s EXCEPT !.observers = @ \cup {"wake"}, !.cut = FALSE]

\* wake and #start; wakeTeamRunner observes the operation it gets back.
Woken(s) ==
  IF s.op = "none"
  THEN [s EXCEPT !.op = "pass", !.pending = FALSE, !.aborted = FALSE, !.observers = {"wake"},
                 !.cut = FALSE]
  ELSE [s EXCEPT !.pending = TRUE, !.observers = @ \cup {"wake"}, !.cut = FALSE]
PassWoken(s, p) == IF s.op = "none" THEN FreshPass ELSE p

Interrupted(s) == [s EXCEPT !.pending = FALSE, !.aborted = @ \/ s.op = "pass"]

\* release with the controller's disposal; a disposal under way is joined.
ReleasedController(s) ==
  IF ~s.bound THEN s
  ELSE [Interrupted(s) EXCEPT !.releasing = TRUE,
                              !.disposal = IF @ = "none" THEN "running" ELSE @]

Leasable(s, h) == CanWakeIn(s, h)
Leased(s) == [s EXCEPT !.leases = @ + 1]
Unleased(s) == [s EXCEPT !.leases = @ - 1]
-----------------------------------------------------------------------------
(* How an operation ends: #drain, #complete, and the observers that        *)
(* launchTeamInBackground and wakeTeamRunner left on it.                   *)

\* The observers that mark the Team after a pass stopped for reason r.
MarksAfter(r) ==
  \/ "wake" \in sup.observers /\ r \in Recoverable
  \/ "launch" \in sup.observers /\ r = "noProgress"

Finished(s) == [s EXCEPT !.op = "none", !.aborted = FALSE, !.observers = {}]

Continues(r) == r # "yielded" /\ r \notin Terminal /\ sup.pending /\ ~flags.disposed

Finish(r, q) ==
  IF r = "yielded"
  THEN /\ sup' = [sup EXCEPT !.op = "yield", !.aborted = FALSE]
       /\ pass' = NoPass /\ queue' = q /\ UNCHANGED flags
  ELSE IF Continues(r)
  THEN /\ sup' = [sup EXCEPT !.pending = FALSE, !.aborted = FALSE]
       /\ pass' = FreshPass /\ queue' = q /\ UNCHANGED flags
  ELSE /\ sup' = LET o == Finished(sup) IN
                 IF r \in Terminal THEN ReleasedController(o) ELSE o
       /\ pass' = NoPass
       /\ queue' = IF MarksAfter(r) THEN Append(q, Tx("mark", 0)) ELSE q
       /\ flags' = IF "wake" \in sup.observers THEN [flags EXCEPT !.replanned = FALSE] ELSE flags

\* replanStaleBackgroundSchedule.
Replans(cause) ==
  /\ cause = "stale" /\ "wake" \in sup.observers /\ lifecycle = "running"
  /\ ~flags.replanned /\ CanWake

MarksAfterFailure(cause) ==
  \/ "launch" \in sup.observers
  \/ "wake" \in sup.observers /\ ~Replans(cause)

PassThrows(cause, q) ==
  LET o == [Finished(sup) EXCEPT !.pending = FALSE]
  IN  /\ sup' = IF Replans(cause) THEN Woken(o) ELSE o
      /\ pass' = IF Replans(cause) THEN FreshPass ELSE NoPass
      /\ flags' = IF Replans(cause) THEN [flags EXCEPT !.replanned = TRUE] ELSE flags
      /\ queue' = IF MarksAfterFailure(cause) THEN Append(q, Tx("mark", 0)) ELSE q

StopReason == IF lifecycle \in Inactive THEN "inactive" ELSE lifecycle
\* The loop's catch: an aborted pass reports how it found the Team.
Caught(cause, q) ==
  IF sup.aborted THEN Finish(IF lifecycle = "running" THEN "aborted" ELSE StopReason, q)
  ELSE PassThrows(cause, q)
-----------------------------------------------------------------------------
(* A pass.                                                                 *)

WorkIsOpen == active = "none" /\ work > held

PassStops ==
  /\ pass.at = "head"
  /\ \/ lifecycle # "running" /\ Finish(StopReason, queue)
     \/ lifecycle = "running" /\ sup.aborted /\ Finish("aborted", queue)
     \/ /\ lifecycle = "running" /\ ~sup.aborted /\ pass.cycles >= MaxCycles
        /\ Finish("yielded", queue)
     \/ /\ lifecycle = "running" /\ ~sup.aborted /\ pass.cycles < MaxCycles
        /\ active = "none" /\ work > 0 /\ work = held
        /\ Finish("noProgress", queue)
  /\ UNCHANGED <<durable, alive, cmds, spent>>

PassPlans ==
  /\ pass.at = "head" /\ lifecycle = "running" /\ ~sup.aborted /\ pass.cycles < MaxCycles
  /\ \/ /\ WorkIsOpen
        /\ queue' = Append(queue, Tx("dispatch", 0))
        /\ pass' = [pass EXCEPT !.at = "working"]
     \/ /\ active = "running"
        /\ pass' = [pass EXCEPT !.at = "waiting"] /\ UNCHANGED queue
     \/ /\ active = "settled"
        /\ queue' = Append(queue, Tx("begin", 0))
        /\ pass' = [pass EXCEPT !.at = "working"]
     \/ /\ active = "checking"          \* begun by a process that has ended
        /\ pass' = [pass EXCEPT !.at = "checking"] /\ UNCHANGED queue
     \/ /\ active = "none" /\ work = 0
        /\ queue' = Append(queue, Tx("complete", 0))
        /\ pass' = [pass EXCEPT !.at = "working"]
  /\ UNCHANGED <<durable, alive, sup, flags, cmds, spent>>

Looped == pass' = [at |-> "head", cycles |-> pass.cycles + 1]

\* executeBatch: a cut that moved since the plan is refused as stale.
CommitDispatch ==
  /\ Turn("dispatch")
  /\ IF lifecycle = "running" /\ WorkIsOpen
     THEN /\ active' = "running" /\ alive' = "running"
          /\ queue' = Tail(queue) /\ Looped
          /\ UNCHANGED <<lifecycle, work, held, told, sup, flags>>
     ELSE Caught("stale", Tail(queue)) /\ UNCHANGED <<durable, alive>>
  /\ UNCHANGED <<cmds, spent>>

CommitComplete ==
  /\ Turn("complete")
  /\ lifecycle' = IF lifecycle = "running" /\ work = 0 THEN "completed" ELSE lifecycle
  /\ queue' = Tail(queue) /\ Looped
  /\ UNCHANGED <<work, held, active, told, alive, sup, flags, cmds, spent>>

\* waitForProgress: durable progress, or an observation that is called off.
PassWakes ==
  /\ pass.at = "waiting"
  /\ \/ active # "running" /\ ~sup.aborted /\ Looped /\ UNCHANGED <<queue, sup, flags>>
     \/ sup.aborted /\ Caught("aborted", queue)
  /\ UNCHANGED <<durable, alive, cmds, spent>>

\* The observation fails, or returns although the journal has not moved.
PassFails ==
  /\ pass.at = "waiting" /\ ~sup.aborted /\ lifecycle = "running" /\ active = "running" /\ RunnerFault
  /\ PassThrows("error", queue) \/ Finish("noProgress", queue)
  /\ UNCHANGED <<durable, alive, cmds>>

-----------------------------------------------------------------------------
(* Verification, the pass's own work: a verdict that passes, or that finds   *)
(* no usable evidence and leaves the task to be done again.  A failing one,  *)
(* and the rework it asks for, is TeamExecution's.                           *)

\* beginVerification looks at the task and its attempt, never at the Team.
CommitBegin ==
  /\ Turn("begin")
  /\ active' = "checking" /\ pass' = [pass EXCEPT !.at = "checking"]
  /\ queue' = Tail(queue)
  /\ UNCHANGED <<lifecycle, work, held, told, alive, sup, flags, cmds, spent>>

\* collectWithAbort: an interrupted collection has no evidence.
PassChecks ==
  /\ pass.at = "checking" /\ pass' = [pass EXCEPT !.at = "working"]
  /\ \/ queue' = Append(queue, Tx("waived", 0))
     \/ ~sup.aborted /\ queue' = Append(queue, Tx("passed", 0))
  /\ UNCHANGED <<durable, alive, sup, flags, cmds, spent>>

\* terminalControlEvent: a pause or cancel that waited for the verdict closes with it.
TerminalControl(t) == IF t = "cancelling" THEN "cancelled" ELSE IF t = "pausing" THEN "paused" ELSE t

CommitVerdict ==
  /\ Turn("passed") \/ Turn("waived")
  /\ work' = IF Turn("passed") THEN work - 1 ELSE work
  /\ active' = "none" /\ lifecycle' = TerminalControl(lifecycle)
  /\ queue' = Tail(queue) /\ Looped
  /\ UNCHANGED <<held, told, alive, sup, flags, cmds, spent>>

\* The macrotask between two passes of one operation.
YieldEnds ==
  /\ sup.op = "yield"
  /\ LET goes == ~flags.disposed /\ ~sup.releasing IN
     /\ sup' = IF goes THEN [sup EXCEPT !.op = "pass", !.pending = FALSE] ELSE Finished(sup)
     /\ pass' = IF goes THEN FreshPass ELSE NoPass
  /\ UNCHANGED <<durable, alive, queue, flags, cmds, spent>>
-----------------------------------------------------------------------------
(* The child of the active attempt.                                        *)

AttemptEnds ==
  /\ alive = "running" /\ alive' = "ended"
  /\ queue' = Append(queue, Tx("settle", 0))
  /\ UNCHANGED <<durable, sup, pass, flags, cmds, spent>>

Settled(t, w, h) ==
  IF t = "running" /\ w > 0 /\ w = h THEN "paused"   \* a controller decision is due
  ELSE TerminalControl(t)

CommitSettle ==
  /\ Turn("settle")
  /\ \/ work' = work - 1 /\ active' = "none" /\ UNCHANGED held   \* nothing to verify
     \/ active' = "settled" /\ UNCHANGED <<work, held>>
     \/ held' = held + 1 /\ active' = "none" /\ UNCHANGED work    \* failed or stopped
  /\ lifecycle' = Settled(lifecycle, work', held')
  /\ alive' = "none" /\ queue' = Tail(queue)
  /\ UNCHANGED <<told, sup, pass, flags, cmds, spent>>
-----------------------------------------------------------------------------
(* Pause and cancel.                                                       *)

\* What a pause or a cancel waits for.
HasActiveAttempts == active \in {"running", "checking"}

\* "repeat" is an immediate pause under an operation id that is in the journal: a client
\* sends its request again whenever it likes, after a restart of the Host too.
BeginPause(kind) ==
  /\ \/ kind \in {"pause", "pauseNow"} /\ lifecycle \in {"running", "pausing"}
     \/ kind = "repeat" /\ told
  /\ Issue(kind)
  /\ UNCHANGED <<durable, alive, sup, pass, flags, spent>>

\* pauseTeam.  An operation of the journal is answered with the Team as it is now, and
\* pauseTeam acts on that answer: it interrupts a pass that only verifies, and when the
\* pause is immediate every pass, that of a Team resumed since included.  The child it
\* stops ends as any does.
CommitPause ==
  /\ Turn("pause") \/ Turn("pauseNow") \/ Turn("repeat")
  /\ LET changes == ~Turn("repeat") /\ lifecycle \in {"running", "pausing"}
         interrupts ==
           \/ lifecycle' = "pausing" /\ active = "checking"
           \/ ~Turn("pause") /\ lifecycle' \in {"pausing", "running"}
         cuts == lifecycle' = "running" /\ sup.op = "pass"
     IN  /\ lifecycle' = IF changes THEN IF HasActiveAttempts THEN "pausing" ELSE "paused" ELSE lifecycle
         /\ told' = (told \/ changes)
         /\ sup' = IF ~interrupts THEN sup
                   ELSE IF cuts THEN [Interrupted(sup) EXCEPT !.cut = TRUE] ELSE Interrupted(sup)
  /\ queue' = Tail(queue) /\ Advances("done")
  /\ UNCHANGED <<work, held, active, alive, pass, flags, spent>>

BeginCancel(kind) ==
  /\ kind \in {"cancel", "abort"} /\ lifecycle \in {"running", "pausing", "paused"} /\ Issue(kind)
  /\ UNCHANGED <<durable, alive, sup, pass, flags, spent>>

\* cancelTeamAfterReview and abortTeamAfterReview; only the first one waits.
CommitCancel ==
  /\ Turn("cancel") \/ Turn("abort")
  /\ IF lifecycle \in {"running", "pausing", "paused"}
     THEN /\ lifecycle' = IF HasActiveAttempts THEN "cancelling" ELSE "cancelled"
          /\ sup' = IF HasActiveAttempts THEN Interrupted(sup) ELSE ReleasedController(sup)
          /\ Advances(IF Turn("cancel") /\ HasActiveAttempts THEN "waiting" ELSE "done")
     ELSE /\ sup' = IF lifecycle = "cancelled" THEN ReleasedController(sup) ELSE sup
          /\ Advances("done") /\ UNCHANGED lifecycle
  /\ queue' = Tail(queue)
  /\ UNCHANGED <<work, held, active, told, alive, pass, flags, spent>>

\* cancelActiveAndWait returned: settled, timed out, or an interrupt failed; a verdict
\* that is still due is no reason to doubt.
CancelReturns(c) ==
  /\ cmds[c].kind = "cancel" /\ cmds[c].phase = "waiting"
  /\ \/ lifecycle = "cancelled" /\ sup' = ReleasedController(sup) /\ UNCHANGED <<queue, spent>>
     \/ /\ lifecycle = "cancelling" /\ (alive # "none" \/ active = "checking")
        /\ UNCHANGED <<sup, queue, spent>>
     \/ /\ lifecycle \in {"cancelling", "needs_reconciliation"} /\ RunnerFault
        /\ queue' = Append(queue, Tx("uncertain", 0)) /\ UNCHANGED sup
     \/ lifecycle \notin {"cancelled", "cancelling"} /\ UNCHANGED <<sup, queue, spent>>
  /\ cmds' = [cmds EXCEPT ![c].phase = "done"]
  /\ UNCHANGED <<durable, alive, pass, flags>>

CommitUncertain ==
  /\ Turn("uncertain")
  /\ lifecycle' = IF lifecycle = "cancelling" THEN "needs_reconciliation" ELSE lifecycle
  /\ queue' = Tail(queue)
  /\ UNCHANGED <<work, held, active, told, alive, sup, pass, flags, cmds, spent>>

\* markBackgroundRunnerFailure.
CommitMark ==
  /\ Turn("mark")
  /\ lifecycle' = IF lifecycle = "running" THEN "needs_reconciliation" ELSE lifecycle
  /\ queue' = Tail(queue)
  /\ UNCHANGED <<work, held, active, told, alive, sup, pass, flags, cmds, spent>>
-----------------------------------------------------------------------------
(* Resume.                                                                 *)

\* restoreRecoveredTeamRunner: the recovered handle moves to the runner.
Restorable == flags.cached /\ ~sup.bound /\ ~flags.disposed
RestoredSup == [Unbound EXCEPT !.bound = TRUE]

TakenFromCache == [flags EXCEPT !.cached = FALSE]

BeginResume ==
  /\ lifecycle \in {"paused", "pausing"} /\ Issue("resume")
  /\ LET restores == lifecycle = "paused" /\ ~CanWake
         s == IF restores THEN RestoredSup ELSE sup
         h == IF restores THEN TakenFromCache ELSE flags
     IN  /\ restores => Restorable
         /\ Leasable(s, h)
         /\ sup' = Leased(s) /\ flags' = h
  /\ held' = IF lifecycle = "paused" THEN 0 ELSE held     \* interrupted tasks are retried
  /\ UNCHANGED <<lifecycle, work, active, told, alive, pass, spent>>

CommitResume ==
  /\ Turn("resume")
  /\ LET ready == work = 0 /\ active = "none"
         runs == lifecycle \in {"paused", "pausing"} /\ ~ready
     IN  /\ lifecycle' = IF lifecycle \notin {"paused", "pausing"} THEN lifecycle
                    ELSE IF ready THEN "completed" ELSE "running"
         /\ queue' = IF runs THEN Append(Tail(queue), Tx("quiesce", Caller)) ELSE Tail(queue)
         /\ sup' = IF runs THEN sup ELSE Unleased(sup)
         /\ Advances(IF runs THEN "committed" ELSE "done")
  /\ UNCHANGED <<work, held, active, told, alive, pass, flags, spent>>

\* settleQuiescentRunningTeam, then wakeTeamRunner with the lease, then its release.
CommitQuiesce ==
  /\ Turn("quiesce")
  /\ LET done == lifecycle = "running" /\ active = "none" /\ work = held
     IN  /\ lifecycle' = IF done THEN IF work = 0 THEN "completed" ELSE "paused" ELSE lifecycle
         /\ sup' = Unleased(IF ~done /\ Wakeable(sup) THEN Woken(sup) ELSE sup)
         /\ pass' = IF ~done /\ Wakeable(sup) THEN PassWoken(sup, pass) ELSE pass
         /\ Advances(IF done \/ Wakeable(sup) THEN "done" ELSE "refused")
  /\ queue' = Tail(queue)
  /\ UNCHANGED <<work, held, active, told, alive, flags, spent>>
-----------------------------------------------------------------------------
(* Controller disposal, shutdown, restart and recovery.                    *)

\* #disposeController settles; a failure keeps the registration.
DisposalEnds ==
  /\ sup.disposal = "running"
  /\ \/ /\ sup' = [sup EXCEPT !.disposal = "done", !.bound = FALSE]
        /\ flags' = [flags EXCEPT !.disposals = @ + 1, !.disposed = @ \/ flags.closing]
        /\ UNCHANGED spent
     \/ RunnerFault /\ sup' = [sup EXCEPT !.disposal = "none"] /\ UNCHANGED flags
  /\ UNCHANGED <<durable, alive, queue, pass, cmds>>

\* disposeHost: recovered handles at once, the runner's after its leases.
DisposeHost ==
  /\ ~flags.closing
  /\ flags' = [flags EXCEPT !.closing = TRUE, !.cached = FALSE, !.disposed = ~sup.bound,
                          !.disposals = @ + IF flags.cached THEN 1 ELSE 0]
  /\ UNCHANGED <<durable, alive, queue, sup, pass, cmds, spent>>

\* Mutant: shutdown releases the runner under a lease.
ReleasesAtOnce == TRUE
LeasesDrained == sup.leases = 0
ShutdownReleases ==
  /\ flags.closing /\ sup.bound /\ LeasesDrained
  /\ sup.disposal = "none" /\ flags.attempts < ShutdownAttempts
  /\ sup' = ReleasedController(sup) /\ flags' = [flags EXCEPT !.attempts = @ + 1]
  /\ UNCHANGED <<durable, alive, queue, pass, cmds, spent>>

\* The process ends, at any point; the next one resolves the controller again.
Restart ==
  /\ spent.crashes < MaxRunnerCrashes /\ spent' = [spent EXCEPT !.crashes = @ + 1]
  /\ alive' = "none" /\ queue' = <<>> /\ sup' = Unbound /\ pass' = NoPass /\ cmds' = <<>>
  /\ flags' = [FreshHost EXCEPT !.cached = TRUE]
  /\ UNCHANGED durable

\* The cold scan of a controller whose active attempt this Host does not own.
ScanActive ==
  /\ ~flags.closing /\ lifecycle \in Inactive \cup {"running"}
  /\ active = "running" /\ alive = "none"
  /\ lifecycle' = "needs_reconciliation"
  /\ UNCHANGED <<work, held, active, told, alive, queue, sup, pass, flags, cmds, spent>>

\* recoverDormantRunningTeam: a running Team that nobody drives.
ScanDormant ==
  /\ ~flags.closing /\ lifecycle = "running" /\ ~HasActiveAttempts /\ ~CanWake
  /\ \/ /\ WorkIsOpen \/ work = 0 \/ (active = "settled" /\ work > held + 1)
        /\ Restorable
        /\ sup' = Woken(RestoredSup) /\ pass' = FreshPass /\ flags' = TakenFromCache
        /\ UNCHANGED <<lifecycle, queue>>
     \/ /\ active = "settled" /\ work = held + 1    \* nothing to dispatch, nothing to settle
        /\ lifecycle' = "needs_reconciliation" /\ UNCHANGED <<queue, sup, pass, flags>>
     \/ /\ active = "none" /\ work > 0 /\ work = held
        /\ lifecycle' = "paused" /\ UNCHANGED <<queue, sup, pass, flags>>
  /\ UNCHANGED <<work, held, active, told, alive, cmds, spent>>

\* recoverColdReconciledTeam and clearTeamRecovery end at a paused Team; neither
\* passes a verification that runs.
Recover ==
  /\ lifecycle = "needs_reconciliation" /\ alive = "none" /\ active # "checking"
  /\ ~flags.closing /\ lifecycle' = "paused"
  /\ active' = IF active = "running" THEN "none" ELSE active
  /\ held' = IF active = "running" THEN held + 1 ELSE held
  /\ UNCHANGED <<work, told, alive, queue, sup, pass, flags, cmds, spent>>
-----------------------------------------------------------------------------
PassStep == PassStops \/ PassPlans \/ PassWakes \/ YieldEnds
JournalStep ==
  \/ CommitDispatch \/ CommitComplete \/ CommitBegin \/ CommitVerdict
  \/ CommitSettle \/ CommitPause
  \/ CommitCancel \/ CommitUncertain \/ CommitMark \/ CommitResume \/ CommitQuiesce

RunnerNext ==
  \/ PassStops \/ PassPlans \/ PassWakes \/ PassFails \/ PassChecks \/ YieldEnds
  \/ CommitDispatch \/ CommitComplete \/ CommitBegin \/ CommitVerdict
  \/ AttemptEnds \/ CommitSettle
  \/ \E k \in CommandKinds : BeginPause(k)
  \/ CommitPause
  \/ \E k \in CommandKinds : BeginCancel(k)
  \/ CommitCancel
  \/ \E c \in 1 .. Len(cmds) : CancelReturns(c)
  \/ CommitUncertain \/ CommitMark
  \/ BeginResume \/ CommitResume \/ CommitQuiesce
  \/ DisposalEnds \/ DisposeHost \/ ShutdownReleases
  \/ Restart \/ ScanActive \/ ScanDormant \/ Recover

\* Microtasks, timers and journal I/O run on; a released controller's disposal
\* settles.  Children, users, crashes and the cold scan owe nothing.
RunnerFairness ==
  /\ WF_runnerVars(PassStep) /\ WF_runnerVars(JournalStep)
  /\ WF_runnerVars(DisposalEnds) /\ WF_runnerVars(ShutdownReleases)

RunnerSpec == RunnerInit /\ [][RunnerNext]_runnerVars /\ RunnerFairness
-----------------------------------------------------------------------------
RunnerTypeOK ==
  /\ lifecycle \in Stopped \cup Inactive \cup {"running"}
  /\ work \in 0 .. MaxWork /\ held \in 0 .. work
  /\ active \in {"none", "running", "settled", "checking"}
  /\ alive \in {"none", "running", "ended"}
  /\ sup.op \in {"none", "pass", "yield"} /\ sup.leases \in 0 .. MaxCommands
  /\ pass.at \in {"none", "head", "working", "waiting", "checking"}

AllAnswered == queue = <<>> /\ \A c \in 1 .. Len(cmds) : cmds[c].phase \in {"done", "refused"}

\* A running Team whose runner this Host owns is being driven: once the
\* commands and the journal are quiet, an operation exists for it.  This is
\* what wakeTeamRunner, the coalesced wakes of the supervisor and
\* markBackgroundRunnerFailure keep between them, with one exception: a pass that a
\* repeated immediate pause interrupted ends "aborted", which no observer marks.
RunningIsDriven ==
  lifecycle = "running" /\ sup.bound /\ ~flags.closing /\ AllAnswered /\ ~sup.cut
    => sup.op # "none"

\* "Never leave a rejected background pass presented as a healthy running Team"
\* (service.ts): without the exception.
NeverPresentedAsHealthy ==
  lifecycle = "running" /\ sup.bound /\ ~flags.closing /\ AllAnswered => sup.op # "none"

\* A resume that committed a running Team always finds its runner, whatever
\* shutdown does meanwhile; only the end of the Team may take the runner away
\* (acquireWakeLease pins it across the commit and the wake).
CommittedResumesWake ==
  \A c \in 1 .. Len(cmds) : cmds[c].phase = "refused" => lifecycle \in Terminal

\* One controller handle is disposed at most once in a Host life, although
\* the cache of recovered controllers, the runner and shutdown may all hold it.
DisposedOnce == flags.disposals <= 1

\* An operation is at most one pass, and a pass belongs to an operation.
PassHasOperation == (pass.at # "none") <=> (sup.op = "pass")

\* Work of a running Team the Host owns is dispatched, or the Team stops
\* running, or the Host stops: a wake is never lost between two passes.  Only a
\* repeated immediate pause leaves it lying, until the runner is woken again.
WorkIsDispatched ==
  (lifecycle = "running" /\ sup.bound /\ WorkIsOpen)
    ~> (active # "none" \/ lifecycle # "running" \/ flags.closing \/ ~sup.bound \/ sup.cut)

\* Together: the Host drives what it owns, and lets go of it once.
RunnerIsKept ==
  RunnerTypeOK /\ RunningIsDriven /\ CommittedResumesWake /\ DisposedOnce /\ PassHasOperation
=============================================================================
