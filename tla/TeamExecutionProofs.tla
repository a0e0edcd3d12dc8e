---- MODULE TeamExecutionProofs ----
(***************************************************************************)
(* Theorems about every Team of TeamExecution: any graph, any bounds, any  *)
(* children, any faults.  Its state is well typed, a cancellation is never *)
(* taken back, an attempt whose outcome is unknown gates the Team.  While  *)
(* children work, a living child holds the files of its running task,      *)
(* leases never conflict, a Team that rests has nothing that works, and    *)
(* work follows its dependencies.                                          *)
(***************************************************************************)
EXTENDS TeamSafety, FiniteSetTheorems, TLAPS

(* Work that is open was handed out: its task has an attempt. *)
OpenWorkHasAttempt == \A t \in Tasks : task[t] \in {"running", "verifying"} => made[t] > 0

(* Typing is inductive together with the fact that the latest attempt of open work exists. *)
TypeInv == TypeOK /\ OpenWorkHasAttempt
----
(* What the closing operators may return *)

(* An attempt is a task and an ordinal, and every such pair is one. *)
LEMMA AttemptParts ==
    /\ \A a \in Attempts : a[1] \in Tasks /\ a[2] \in Ordinals /\ a = <<a[1], a[2]>>
    /\ \A t \in Tasks, n \in Ordinals : <<t, n>> \in Attempts
BY DEF Attempts

(* A closing step of a settlement ends in a Team status. *)
LEMMA AfterSettlementTyped ==
    ASSUME NEW tm \in TeamStatus, NEW tk, NEW at, NEW vf, NEW ls
    PROVE  AfterSettlement(tm, tk, at, vf, ls) \in TeamStatus
BY DEF AfterSettlement, TeamStatus

(* So does a closing step of a verdict. *)
LEMMA AfterVerdictTyped ==
    ASSUME NEW tm \in TeamStatus, NEW at, NEW vf, NEW ls
    PROVE  AfterVerdict(tm, at, vf, ls) \in TeamStatus
BY DEF AfterVerdict, TeamStatus

(* Cancelling tasks keeps them typed, and opens no work. *)
LEMMA CancelledTasksTyped ==
    ASSUME NEW tk \in [Tasks -> TaskStatus]
    PROVE  /\ CancelUnfinished(tk) \in [Tasks -> TaskStatus]
           /\ CancelSchedulable(tk) \in [Tasks -> TaskStatus]
           /\ \A t \in Tasks : CancelUnfinished(tk)[t] \in {"running", "verifying"} =>
                  tk[t] \in {"running", "verifying"}
           /\ \A t \in Tasks : CancelSchedulable(tk)[t] \in {"running", "verifying"} =>
                  tk[t] \in {"running", "verifying"}
BY DEF CancelUnfinished, CancelSchedulable, TaskStatus, TerminalTask, Schedulable

(* A settled Team status is a Team status. *)
LEMMA SettledQuiescentTyped ==
    ASSUME team \in TeamStatus
    PROVE  SettledQuiescent \in TeamStatus
BY DEF SettledQuiescent, TeamStatus

(* The latest attempt of open work is an attempt of the model. *)
LEMMA LatestTyped ==
    ASSUME TypeInv, NEW t \in Tasks, made[t] > 0
    PROVE  Latest(t) \in Attempts
<1>1. made[t] \in 1..MaxOrdinal
  BY GraphAssumption DEF TypeInv, TypeOK, ProjectionTypeOK
<1> QED
  BY <1>1 DEF Latest, Attempts, Ordinals
----
(* Initially every variable has its type *)
LEMMA InitTyped == Init => TypeInv
<1> SUFFICES ASSUME Init PROVE TypeInv
  OBVIOUS
<1>1. ProjectionTypeOK
  <2>1. FreshAttempt \in AttemptRecord
    BY DEF FreshAttempt, AttemptRecord, AttemptStatus, Observation
  <2>2. floor \in [Tasks -> 1..(MaxOrdinal + 1)] /\ made \in [Tasks -> 0..MaxOrdinal]
    BY GraphAssumption DEF Init, ProjectionInit
  <2> QED
    BY <2>1, <2>2 DEF Init, ProjectionInit, ProjectionTypeOK, TeamStatus, TaskStatus, VerifStatus
<1>2. ExecutionTypeOK
  <2>1. NoScan \in [by : {"none", "startup", "user"}, seen : [Attempts -> Observation]]
    BY DEF NoScan, Observation
  <2>2. controls \in 0..MaxControls /\ crashes \in 0..MaxCrashes
    BY ExecutionAssumption DEF Init
  <2> QED
    BY <2>1, <2>2 DEF Init, ExecutionTypeOK
<1>3. OpenWorkHasAttempt
  BY DEF Init, ProjectionInit, OpenWorkHasAttempt
<1> QED
  BY <1>1, <1>2, <1>3 DEF TypeInv, TypeOK
----
(* Every step keeps the types *)
LEMMA NoScanTyped == NoScan \in [by : {"none", "startup", "user"}, seen : [Attempts -> Observation]]
BY DEF NoScan, Observation

(* No step of the runner leaves the types: planning, dispatching, closing, failing. *)
LEMMA RunnerTyped ==
    ASSUME TypeInv, RunnerStep \/ RunnerFails
    PROVE  TypeInv'
<1> USE GraphAssumption, ExecutionAssumption, NoScanTyped
    DEF TypeInv, TypeOK, ProjectionTypeOK, ExecutionTypeOK, OpenWorkHasAttempt,
        durable, volatile, bounds, Commit, UnchangedControl, UnchangedGraph
<1>1. CASE PersistSchedule
  BY <1>1 DEF PersistSchedule, TaskStatus
<1>2. CASE Dispatch
  <2>1. PICK batch \in SUBSET Eligible :
            LET fresh == {<<t, made[t] + 1>> : t \in batch}
            IN  /\ fresh \subseteq Attempts
                /\ task' = [t \in Tasks |-> IF t \in batch THEN "running" ELSE task[t]]
                /\ made' = [t \in Tasks |-> IF t \in batch THEN made[t] + 1 ELSE made[t]]
                /\ attempt' = [a \in Attempts |-> IF a \in fresh
                                                  THEN [FreshAttempt EXCEPT !.st = "dispatching"]
                                                  ELSE attempt[a]]
                /\ lease' = lease \union fresh
                /\ exec' = [a \in Attempts |-> IF a \in fresh THEN "launching" ELSE exec[a]]
    BY <1>2 DEF Dispatch
  <2>2. \A t \in batch : t \in Tasks => made[t] + 1 \in 1..MaxOrdinal
    <3> TAKE t \in batch
    <3>1. <<t, made[t] + 1>> \in Attempts
      BY <2>1
    <3> QED
      BY <3>1 DEF Attempts, Ordinals
  <2>3. task' \in [Tasks -> TaskStatus]
    BY <2>1 DEF TaskStatus
  <2>4. made' \in [Tasks -> 0..MaxOrdinal]
    BY <2>1, <2>2
  <2>5. attempt' \in [Attempts -> AttemptRecord]
    <3>1. [FreshAttempt EXCEPT !.st = "dispatching"] \in AttemptRecord
      BY DEF FreshAttempt, AttemptRecord, AttemptStatus, Observation
    <3> QED
      BY <2>1, <3>1
  <2>6. lease' \subseteq Attempts /\ exec' \in [Attempts -> {"none", "launching", "admitting", "listening"}]
    BY <2>1
  <2>7. OpenWorkHasAttempt'
    BY <2>1, <2>2
  <2>8. UNCHANGED <<team, startupCut, lastControl, cancelAsked, floor, verif, reworks, runner, pass,
                    retryDue, failureDue, waking, cancelWait, child, controls, crashes>> /\ scan' = NoScan
    BY <1>2 DEF Dispatch
  <2> QED
    BY <2>3, <2>4, <2>5, <2>6, <2>7, <2>8
<1>3. CASE DispatchRefused
  BY <1>3 DEF DispatchRefused, FailPass
<1>4. CASE StartPass
  BY <1>4, LatestTyped DEF StartPass, Verifiable
<1>5. CASE CompleteTeam
  BY <1>5 DEF CompleteTeam, Restate, TeamStatus
<1>6. CASE NoProgress
  BY <1>6 DEF NoProgress, FailPass
<1>7. CASE RunnerStops
  BY <1>7 DEF RunnerStops
<1>8. CASE MarkRunnerFailure
  BY <1>8, ZenonT(30) DEF MarkRunnerFailure, Restate, TeamStatus
<1>9. CASE RunnerFails
  BY <1>9 DEF RunnerFails, FailPass
<1> QED
  BY <1>1, <1>2, <1>3, <1>4, <1>5, <1>6, <1>7, <1>8, <1>9 DEF RunnerStep

(* What a verdict does to the parts of the state it touches. *)
LEMMA VerdictTyped ==
    ASSUME TypeInv, NEW a \in Attempts,
           VerdictPassed(a) \/ VerdictInconclusive(a) \/ VerdictRetry(a)
               \/ VerdictExhausted(a) \/ VerdictStop(a)
    PROVE  /\ team' \in TeamStatus /\ startupCut' \in BOOLEAN
           /\ attempt' \in [Attempts -> AttemptRecord]
           /\ task' \in [Tasks -> TaskStatus]
           /\ \A t \in Tasks : task'[t] \in {"running", "verifying"} => task[t] \in {"running", "verifying"}
           /\ verif' \in [Attempts -> VerifStatus] /\ lease' \subseteq Attempts
           /\ pass' \subseteq Attempts /\ retryDue' \in BOOLEAN
<1>1. /\ team \in TeamStatus /\ startupCut \in BOOLEAN
      /\ attempt \in [Attempts -> AttemptRecord]
      /\ task \in [Tasks -> TaskStatus] /\ verif \in [Attempts -> VerifStatus]
      /\ lease \subseteq Attempts /\ pass \subseteq Attempts
  BY DEF TypeInv, TypeOK, ProjectionTypeOK, ExecutionTypeOK
<1>2. a[1] \in Tasks /\ attempt[a].st \in AttemptStatus
  BY <1>1, AttemptParts DEF AttemptRecord
<1>3. ASSUME NEW st \in AttemptStatus, NEW outcome \in {"completed", "blocked", "failed"},
             NEW verdict \in VerifStatus, JudgeTask(a, st, outcome, verdict)
      PROVE  /\ attempt' \in [Attempts -> AttemptRecord]
             /\ task' \in [Tasks -> TaskStatus]
             /\ \A t \in Tasks : task'[t] \in {"running", "verifying"} => task[t] \in {"running", "verifying"}
             /\ verif' \in [Attempts -> VerifStatus] /\ lease' \subseteq Attempts
  <2>1. attempt' \in [Attempts -> AttemptRecord]
    BY <1>1, <1>3 DEF JudgeTask, AttemptRecord
  <2> QED
    BY <1>1, <1>2, <1>3, <2>1 DEF JudgeTask, TaskStatus
<1>4. CASE VerdictPassed(a)
  <2>1. team' \in TeamStatus /\ startupCut' \in BOOLEAN
    BY <1>1, <1>4, AfterVerdictTyped DEF VerdictPassed, Restate
  <2>2. JudgeTask(a, "completed", "completed", "passed") /\ pass' \subseteq Attempts /\ retryDue' = FALSE
    BY <1>1, <1>4 DEF VerdictPassed
  <2> QED
    BY <1>3, <2>1, <2>2 DEF AttemptStatus, VerifStatus
<1>5. CASE VerdictInconclusive(a)
  <2>1. team' \in TeamStatus /\ startupCut' \in BOOLEAN
    BY <1>1, <1>5, AfterVerdictTyped DEF VerdictInconclusive, Restate
  <2>2. JudgeTask(a, attempt[a].st, "blocked", "waived") /\ pass' \subseteq Attempts /\ retryDue' = FALSE
    BY <1>1, <1>5 DEF VerdictInconclusive
  <2> QED
    BY <1>2, <1>3, <2>1, <2>2 DEF VerifStatus
<1>6. CASE VerdictRetry(a) \/ VerdictExhausted(a)
  <2>1. Restate(AfterVerdict(team, attempt, verif', lease))
    BY <1>6 DEF VerdictRetry, VerdictExhausted
  <2>2. team' \in TeamStatus /\ startupCut' \in BOOLEAN
    BY <1>1, <2>1, AfterVerdictTyped DEF Restate
  <2>3. verif' \in [Attempts -> VerifStatus]
    BY <1>1, <1>6 DEF VerdictRetry, VerdictExhausted, VerifStatus
  <2> QED
    BY <1>1, <1>6, <2>2, <2>3 DEF VerdictRetry, VerdictExhausted
<1>7. CASE VerdictStop(a)
  <2>1. team' \in TeamStatus /\ startupCut' \in BOOLEAN
    BY <1>1, <1>7, AfterVerdictTyped DEF VerdictStop, Restate, TeamStatus
  <2>2. pass' \subseteq Attempts /\ retryDue' = FALSE
    BY <1>1, <1>7 DEF VerdictStop
  <2>3. CASE team \in {"running", "cancelling", "pausing"}
    <3>1. JudgeTask(a, "verification_failed", "failed", "failedStop")
      BY <1>7, <2>3 DEF VerdictStop
    <3> QED
      BY <1>3, <2>1, <2>2, <3>1 DEF AttemptStatus, VerifStatus
  <2>4. CASE team \notin {"running", "cancelling", "pausing"}
    BY <1>1, <1>7, <2>1, <2>2, <2>4 DEF VerdictStop, VerifStatus
  <2> QED
    BY <2>3, <2>4
<1> QED
  BY <1>4, <1>5, <1>6, <1>7

(* Nor does a step of the verify call, whatever verdict it records or refuses. *)
LEMMA VerifyTyped ==
    ASSUME TypeInv, NEW a \in Attempts, VerifyStep(a)
    PROVE  TypeInv'
<1> USE NoScanTyped
    DEF TypeInv, TypeOK, ProjectionTypeOK, ExecutionTypeOK, OpenWorkHasAttempt,
        durable, volatile, bounds, Commit, UnchangedControl
<1>1. CASE BeginVerification(a)
  BY <1>1 DEF BeginVerification, VerifStatus
<1>2. CASE RecordVerdict(a)
  <2>1. UNCHANGED <<lastControl, cancelAsked, made, floor, reworks, exec, runner, failureDue, waking,
                    cancelWait, child, controls, crashes>> /\ scan' = NoScan
    BY <1>2 DEF RecordVerdict
  <2>2. VerdictPassed(a) \/ VerdictInconclusive(a) \/ VerdictRetry(a)
            \/ VerdictExhausted(a) \/ VerdictStop(a)
    BY <1>2 DEF RecordVerdict
  <2> QED
    BY <2>1, <2>2, VerdictTyped
<1>3. CASE VerifyRefused(a)
  BY <1>3 DEF VerifyRefused, FailPass
<1>4. CASE AutoRetry(a)
  <2>1. a[1] \in Tasks /\ made[a[1]] \in 0..MaxOrdinal
    BY AttemptParts
  <2>2. floor' \in [Tasks -> 1..(MaxOrdinal + 1)] /\ reworks' \in Nat
    BY <1>4, <2>1, GraphAssumption DEF AutoRetry, RequeueTask
  <2>3. task' \in [Tasks -> TaskStatus] /\ OpenWorkHasAttempt'
    BY <1>4, <2>1 DEF AutoRetry, RequeueTask, TaskStatus
  <2> QED
    BY <1>4, <2>2, <2>3 DEF AutoRetry, RequeueTask
<1>5. CASE AutoRetryRefused(a)
  BY <1>5 DEF AutoRetryRefused, FailPass
<1> QED
  BY <1>1, <1>2, <1>3, <1>4, <1>5 DEF VerifyStep

(* Recording the outcome and the evidence of an attempt keeps it an attempt record. *)
LEMMA SettledRecord ==
    ASSUME NEW at \in [Attempts -> AttemptRecord], NEW a \in Attempts,
           NEW st \in AttemptStatus, NEW ending \in ChildEndings
    PROVE  [at EXCEPT ![a].st = st, ![a].ev = ending] \in [Attempts -> AttemptRecord]
BY DEF AttemptRecord

(* Recording the end of a child keeps the types, and the work it closes or opens typed. *)
LEMMA SettlementTyped ==
    ASSUME TypeInv, NEW a \in Attempts, SettleAttempt(a)
    PROVE  /\ ProjectionTypeOK'
           /\ OpenWorkHasAttempt'
<1> USE GraphAssumption, AttemptParts
    DEF TypeInv, TypeOK, ProjectionTypeOK, OpenWorkHasAttempt, Commit, UnchangedControl
<1>1. team' \in TeamStatus /\ startupCut' \in BOOLEAN
  BY AfterSettlementTyped DEF SettleAttempt, Restate
<1>2. attempt' \in [Attempts -> AttemptRecord]
  <2>1. SettledAttempt(a, cancelAsked \/ attempt[a].stop) \in AttemptStatus
    BY DEF SettledAttempt, AttemptStatus
  <2>2. child[a] \in ChildEndings
    BY DEF SettleAttempt, SettlementDue, Ended
  <2>3. attempt' = [attempt EXCEPT ![a].st = SettledAttempt(a, cancelAsked \/ attempt[a].stop),
                                   ![a].ev = child[a]]
    BY DEF SettleAttempt
  <2> QED
    BY <2>1, <2>2, <2>3, SettledRecord
<1>3. task' \in [Tasks -> TaskStatus]
  BY DEF SettleAttempt, SettledTask, TaskStatus
<1>4. OpenWorkHasAttempt'
  <2>1. task[a[1]] = "running" /\ made' = made
    BY DEF SettleAttempt, SettlementDue
  <2>2. \A t \in Tasks : t # a[1] => task'[t] = task[t]
    BY DEF SettleAttempt
  <2> QED
    BY <2>1, <2>2
<1>5. lease' \subseteq Attempts
  BY DEF SettleAttempt
<1>6. UNCHANGED <<lastControl, cancelAsked, made, floor, verif, reworks>>
  BY DEF SettleAttempt
<1> QED
  BY <1>1, <1>2, <1>3, <1>4, <1>5, <1>6

(* So does recording that a child could not be started. *)
LEMMA StartRejectedTyped ==
    ASSUME TypeInv, NEW a \in Attempts, StartRejected(a)
    PROVE  /\ ProjectionTypeOK' /\ OpenWorkHasAttempt'
           /\ exec' \in [Attempts -> {"none", "launching", "admitting", "listening"}]
           /\ scan' \in {scan, NoScan}
<1> DEFINE recorded == attempt[a].st = "dispatching" /\ task[a[1]] = "running"
           outcome == IF cancelAsked THEN "cancelled" ELSE "failed"
<1>1. /\ team \in TeamStatus /\ startupCut \in BOOLEAN
      /\ attempt \in [Attempts -> AttemptRecord]
      /\ task \in [Tasks -> TaskStatus] /\ lease \subseteq Attempts
      /\ exec \in [Attempts -> {"none", "launching", "admitting", "listening"}]
  BY DEF TypeInv, TypeOK, ProjectionTypeOK, ExecutionTypeOK
<1>2. a[1] \in Tasks
  BY AttemptParts
<1>3. /\ exec' \in [Attempts -> {"none", "launching", "admitting", "listening"}]
      /\ UNCHANGED <<lastControl, cancelAsked, made, floor, verif, reworks>>
  BY <1>1 DEF StartRejected, UnchangedControl
<1>4. CASE recorded
  <2>1. /\ attempt' = [attempt EXCEPT ![a].st = outcome]
        /\ task' = [task EXCEPT ![a[1]] = outcome]
        /\ lease' = lease \ {a}
        /\ Restate(AfterSettlement(team, task', attempt', verif, lease'))
        /\ scan' = NoScan
    BY <1>4 DEF StartRejected, Commit
  <2>2. outcome \in {"cancelled", "failed"}
    OBVIOUS
  <2> HIDE DEF outcome
  <2>3. team' \in TeamStatus /\ startupCut' \in BOOLEAN
    BY <1>1, <2>1, AfterSettlementTyped DEF Restate
  <2>4. attempt' \in [Attempts -> AttemptRecord]
    BY <1>1, <2>1, <2>2 DEF AttemptRecord, AttemptStatus
  <2>5. task' \in [Tasks -> TaskStatus] /\ OpenWorkHasAttempt'
    BY <1>1, <1>2, <1>3, <2>1, <2>2 DEF TaskStatus, TypeInv, OpenWorkHasAttempt
  <2> QED
    BY <1>1, <1>3, <2>1, <2>3, <2>4, <2>5 DEF TypeInv, TypeOK, ProjectionTypeOK
<1>5. CASE ~recorded
  <2>1. UNCHANGED <<attempt, task, lease, team, startupCut, scan>>
    BY <1>5 DEF StartRejected
  <2> QED
    BY <1>3, <2>1 DEF TypeInv, TypeOK, ProjectionTypeOK, OpenWorkHasAttempt
<1> QED
  BY <1>4, <1>5

(* No step of the batch executor, of a child or of the progress observer leaves the types. *)
LEMMA ExecutorTyped ==
    ASSUME TypeInv, NEW a \in Attempts, ExecutorStep(a) \/ ChildEnds(a) \/ ObservedSettle(a)
    PROVE  TypeInv'
<1> USE GraphAssumption, ExecutionAssumption, NoScanTyped, AttemptParts
    DEF TypeInv, TypeOK, ProjectionTypeOK, ExecutionTypeOK, OpenWorkHasAttempt,
        durable, volatile, bounds, Commit, UnchangedControl
<1>1. CASE StartChild(a)
  BY <1>1 DEF StartChild
<1>2. CASE StartRejected(a)
  BY <1>2, StartRejectedTyped, ZenonT(30) DEF StartRejected
<1>3. CASE AdmitAttempt(a)
  BY <1>3 DEF AdmitAttempt, AttemptRecord, AttemptStatus
<1>4. CASE AdmissionLost(a)
  BY <1>4 DEF AdmissionLost
<1>5. CASE Settle(a)
  <2>1. SettleAttempt(a) /\ exec' = [exec EXCEPT ![a] = "none"]
    BY <1>5 DEF Settle
  <2>2. ProjectionTypeOK' /\ OpenWorkHasAttempt'
    <3> HIDE DEF TypeInv, TypeOK, ProjectionTypeOK, OpenWorkHasAttempt
    <3> QED
      BY <2>1, SettlementTyped
  <2>3. ExecutionTypeOK'
    BY <2>1 DEF SettleAttempt
  <2> QED
    BY <2>2, <2>3
<1>6. CASE SettleWithoutEffect(a)
  BY <1>6 DEF SettleWithoutEffect
<1>7. CASE ChildEnds(a)
  BY <1>7 DEF ChildEnds
<1>8. CASE ObservedSettle(a)
  <2>1. SettleAttempt(a) /\ exec' = exec
    BY <1>8 DEF ObservedSettle
  <2>2. ProjectionTypeOK' /\ OpenWorkHasAttempt'
    <3> HIDE DEF TypeInv, TypeOK, ProjectionTypeOK, OpenWorkHasAttempt
    <3> QED
      BY <2>1, SettlementTyped
  <2>3. ExecutionTypeOK'
    BY <2>1 DEF SettleAttempt
  <2> QED
    BY <2>2, <2>3
<1> QED
  BY <1>1, <1>2, <1>3, <1>4, <1>5, <1>6, <1>7, <1>8 DEF ExecutorStep

(* Naming an attempt in a stop, or resolving it, keeps it an attempt record. *)
LEMMA NamedRecord ==
    ASSUME NEW at \in [Attempts -> AttemptRecord], NEW a \in Attempts, NEW st \in AttemptStatus
    PROVE  /\ [at EXCEPT ![a].stop = TRUE] \in [Attempts -> AttemptRecord]
           /\ [at EXCEPT ![a].st = st, ![a].neg = TRUE] \in [Attempts -> AttemptRecord]
BY DEF AttemptRecord

(* So does marking it as observed, and confirming it. *)
LEMMA ObservedRecord ==
    ASSUME NEW r \in AttemptRecord, NEW seen \in Observation
    PROVE  /\ [r EXCEPT !.st = "unknown", !.seen = seen,
                        !.bind = IF @ = "unbound" /\ seen \in {"live", "durable"}
                                 THEN "recovered" ELSE @] \in AttemptRecord
           /\ [r EXCEPT !.st = "running"] \in AttemptRecord
<1>1. "unknown" \in AttemptStatus /\ "running" \in AttemptStatus
  BY DEF AttemptStatus
<1> QED
  BY <1>1 DEF AttemptRecord

(* The Team status a control leaves behind is one; so are the tasks it cancels. *)
LEMMA CancelGraphTyped ==
    ASSUME TypeInv, CancelGraph
    PROVE  /\ team' \in TeamStatus /\ startupCut' \in BOOLEAN
           /\ task' \in [Tasks -> TaskStatus]
           /\ \A t \in Tasks : task'[t] \in {"running", "verifying"} => task[t] \in {"running", "verifying"}
<1>1. team \in TeamStatus /\ startupCut \in BOOLEAN /\ task \in [Tasks -> TaskStatus]
  BY DEF TypeInv, TypeOK, ProjectionTypeOK
<1>2. team' \in TeamStatus /\ startupCut' \in BOOLEAN
  BY <1>1 DEF CancelGraph, Restate, TeamStatus
<1>3. task' \in {task, CancelUnfinished(task), CancelSchedulable(task)}
  BY DEF CancelGraph
<1> QED
  BY <1>1, <1>2, <1>3, CancelledTasksTyped

(* A control operation counts, and stays what the latest one was. *)
LEMMA ControlledTyped ==
    ASSUME TypeInv, NEW action \in {"pause", "resume", "cancel"}, Controlled(action)
    PROVE  /\ lastControl' \in {"none", "pause", "resume", "cancel"} /\ cancelAsked' \in BOOLEAN
           /\ controls' \in 0..MaxControls /\ crashes' = crashes
<1>1. cancelAsked' \in BOOLEAN
  BY DEF Controlled, TypeInv, TypeOK, ProjectionTypeOK
<1>2. controls' \in 0..MaxControls
  BY ExecutionAssumption DEF Controlled, TypeInv, TypeOK, ExecutionTypeOK
<1> QED
  BY <1>1, <1>2 DEF Controlled

(* No control a user sends leaves the types. *)
LEMMA ControlTyped ==
    ASSUME TypeInv, Control \/ WakeRunner \/ CancelReturns
    PROVE  TypeInv'
<1> USE NoScanTyped, ExecutionAssumption
    DEF TypeInv, TypeOK, ProjectionTypeOK, ExecutionTypeOK, OpenWorkHasAttempt,
        durable, volatile, bounds, Commit, UnchangedControl, UnchangedGraph, Controlled
<1>1. CASE Pause
  BY <1>1 DEF Pause, Restate, TeamStatus
<1>2. CASE Resume
  BY <1>2 DEF Resume, Restate, TeamStatus
<1>3. CASE Cancel
  <2>1. cancelWait' \in BOOLEAN
    BY <1>3 DEF Cancel
  <2> QED
    BY <1>3, <2>1, CancelGraphTyped DEF Cancel
<1>4. CASE CancelDormant
  <2>1. /\ team' \in TeamStatus /\ startupCut' \in BOOLEAN
        /\ task' \in [Tasks -> TaskStatus]
        /\ \A t \in Tasks : task'[t] \in {"running", "verifying"} => task[t] \in {"running", "verifying"}
    <3>1. CASE team = "needs_reconciliation"
      BY <1>4, <3>1, CancelGraphTyped DEF CancelDormant
    <3>2. CASE team # "needs_reconciliation"
      <4>1. task' \in {task, CancelUnfinished(task), CancelSchedulable(task)}
        BY <1>4, <3>2 DEF CancelDormant
      <4>2. team' \in TeamStatus /\ startupCut' \in BOOLEAN
        BY <1>4, <3>2 DEF CancelDormant, Restate, TeamStatus
      <4> QED
        BY <4>1, <4>2, CancelledTasksTyped
    <3> QED
      BY <3>1, <3>2
  <2>2. /\ lastControl' \in {"none", "pause", "resume", "cancel"} /\ cancelAsked' \in BOOLEAN
        /\ controls' \in 0..MaxControls /\ crashes' = crashes
    <3>1. Controlled("cancel") \/ UNCHANGED <<lastControl, cancelAsked, controls, crashes>>
      BY <1>4 DEF CancelDormant
    <3>2. CASE Controlled("cancel")
      BY <3>2, ControlledTyped
    <3>3. CASE UNCHANGED <<lastControl, cancelAsked, controls, crashes>>
      BY <3>3
    <3> QED
      BY <3>1, <3>2, <3>3
  <2>3. UNCHANGED <<made, floor, attempt, verif, lease, reworks, volatile, child>> /\ scan' = NoScan
    BY <1>4 DEF CancelDormant
  <2> QED
    BY <2>1, <2>2, <2>3
<1>5. ASSUME NEW t \in Tasks, StopTask(t) PROVE TypeInv'
  <2>1. Latest(t) \in Attempts
    BY <1>5, LatestTyped DEF StopTask
  <2>2. attempt' \in [Attempts -> AttemptRecord]
    BY <1>5, <2>1, NamedRecord DEF StopTask, AttemptStatus
  <2> QED
    BY <1>5, <2>2 DEF StopTask
<1>6. ASSUME NEW t \in Tasks, RetryTask(t) PROVE TypeInv'
  <2>1. floor' \in [Tasks -> 1..(MaxOrdinal + 1)]
    BY <1>6, GraphAssumption DEF RetryTask, RequeueTask
  <2>2. task' \in [Tasks -> TaskStatus] /\ OpenWorkHasAttempt'
    BY <1>6 DEF RetryTask, RequeueTask, TaskStatus
  <2> QED
    BY <1>6, <2>1, <2>2 DEF RetryTask, RequeueTask
<1>7. CASE WakeRunner
  <2>1. team' \in TeamStatus /\ startupCut' \in BOOLEAN
    BY <1>7, SettledQuiescentTyped DEF WakeRunner, Restate
  <2> QED
    BY <1>7, <2>1 DEF WakeRunner
<1>8. CASE CancelReturns
  <2>1. team' \in TeamStatus /\ startupCut' \in BOOLEAN /\ scan' \in {scan, NoScan}
    BY <1>8 DEF CancelReturns, Restate, TeamStatus
  <2>2. /\ cancelWait' = FALSE
        /\ UNCHANGED <<lastControl, cancelAsked, task, made, floor, attempt, verif, lease, reworks>>
        /\ UNCHANGED <<exec, runner, pass, retryDue, failureDue, waking, child, controls, crashes>>
    BY <1>8 DEF CancelReturns
  <2> QED
    BY <2>1, <2>2
<1> QED
  BY <1>1, <1>2, <1>3, <1>4, <1>5, <1>6, <1>7, <1>8 DEF Control

(* No recovery command leaves the types: observing, resolving, clearing, confirming. *)
LEMMA RecoveryTyped ==
    ASSUME TypeInv, Recovery \/ Crash
    PROVE  TypeInv'
<1> USE NoScanTyped, ExecutionAssumption
    DEF TypeInv, TypeOK, ProjectionTypeOK, ExecutionTypeOK, OpenWorkHasAttempt,
        durable, volatile, bounds, Commit, UnchangedControl, UnchangedGraph
<1>1. ASSUME NEW by \in {"startup", "user"}, Observe(by) PROVE TypeInv'
  <2>1. \A a \in Attempts : Classified(a) \in Observation
    BY DEF Classified, Observation
  <2>2. scan' \in [by : {"none", "startup", "user"}, seen : [Attempts -> Observation]]
    BY <1>1, <2>1 DEF Observe, Observation
  <2> QED
    BY <1>1, <2>2 DEF Observe
<1>2. CASE CommitReconcile
  <2>1. attempt' \in [Attempts -> AttemptRecord]
    <3>1. \A a \in Attempts : scan.seen[a] \in Observation
      OBVIOUS
    <3> QED
      BY <1>2, <3>1, ObservedRecord DEF CommitReconcile
  <2>2. team' \in TeamStatus /\ startupCut' \in BOOLEAN
    BY <1>2 DEF CommitReconcile, TeamStatus
  <2> QED
    BY <1>2, <2>1, <2>2 DEF CommitReconcile
<1>3. ASSUME NEW a \in Attempts, NEW decision \in {"failed", "cancelled"}, Resolve(a, decision)
      PROVE  TypeInv'
  <2>1. attempt' \in [Attempts -> AttemptRecord]
    <3>1. attempt' = [attempt EXCEPT ![a].st = decision, ![a].neg = TRUE]
      BY <1>3 DEF Resolve
    <3>2. decision \in AttemptStatus
      BY DEF AttemptStatus
    <3> QED
      BY <3>1, <3>2, NamedRecord
  <2> DEFINE closed == [task EXCEPT ![a[1]] = decision]
  <2>2. closed \in [Tasks -> TaskStatus]
    BY DEF TaskStatus
  <2>3. \A t \in Tasks : closed[t] \in {"running", "verifying"} => task[t] \in {"running", "verifying"}
    OBVIOUS
  <2>4. task' \in {closed, CancelUnfinished(closed)}
    BY <1>3 DEF Resolve
  <2>5. team' \in TeamStatus /\ startupCut' \in BOOLEAN
    BY <1>3 DEF Resolve, Restate, TeamStatus
  <2>6. task' \in [Tasks -> TaskStatus] /\ OpenWorkHasAttempt'
    <3>1. made' = made
      BY <1>3 DEF Resolve
    <3> HIDE DEF closed
    <3> QED
      BY <2>2, <2>3, <2>4, <3>1, CancelledTasksTyped
  <2> QED
    BY <1>3, <2>1, <2>5, <2>6, ZenonT(30) DEF Resolve
<1>4. CASE ClearOrphans
  BY <1>4 DEF ClearOrphans, TeamStatus
<1>5. CASE ClearFromJournal
  BY <1>5 DEF ClearFromJournal, TeamStatus
<1>6. CASE ClearToRunning
  BY <1>6 DEF ClearToRunning, TeamStatus
<1>7. CASE CloseCancellation
  BY <1>7, CancelledTasksTyped DEF CloseCancellation, Restate, TeamStatus
<1>8. CASE ConfirmOwned
  <2>1. attempt' \in [Attempts -> AttemptRecord]
    BY <1>8, ObservedRecord, ZenonT(30) DEF ConfirmOwned, Observation
  <2> QED
    BY <1>8, <2>1 DEF ConfirmOwned, Restate, TeamStatus
<1>9. CASE RecoverDormant
  <2>1. team' \in TeamStatus /\ startupCut' \in BOOLEAN
    BY <1>9, SettledQuiescentTyped DEF RecoverDormant, Restate, TeamStatus
  <2> QED
    BY <1>9, <2>1 DEF RecoverDormant
<1>10. CASE Crash
  <2>1. child' \in [Attempts -> {"none", "live", "halted", "lost"} \union ChildEndings]
    BY <1>10 DEF Crash
  <2>2. exec' \in [Attempts -> {"none", "launching", "admitting", "listening"}]
    BY <1>10 DEF Crash
  <2>3. crashes' \in 0..MaxCrashes /\ UNCHANGED <<durable, controls>>
    BY <1>10 DEF Crash
  <2>4. /\ runner' = "absent" /\ pass' = {} /\ scan' = NoScan
        /\ retryDue' = FALSE /\ failureDue' = FALSE /\ waking' = FALSE /\ cancelWait' = FALSE
    BY <1>10 DEF Crash
  <2> QED
    BY <2>1, <2>2, <2>3, <2>4
<1> QED
  BY <1>1, <1>2, <1>3, <1>4, <1>5, <1>6, <1>7, <1>8, <1>9, <1>10 DEF Recovery
----
(* The inductive form, for the proofs that need typed state. *)
THEOREM TypeInvariant == Spec => []TypeInv
<1>1. Init => TypeInv
  BY InitTyped
<1>2. TypeInv /\ [Next]_vars => TypeInv'
  <2> SUFFICES ASSUME TypeInv, [Next]_vars PROVE TypeInv'
    OBVIOUS
  <2>1. CASE Next
    BY <2>1, RunnerTyped, VerifyTyped, ExecutorTyped, ControlTyped, RecoveryTyped DEF Next
  <2>2. CASE UNCHANGED vars
    BY <2>2 DEF vars, durable, volatile, bounds, TypeInv, TypeOK, ProjectionTypeOK,
                ExecutionTypeOK, OpenWorkHasAttempt
  <2> QED
    BY <2>1, <2>2
<1> QED
  BY <1>1, <1>2, PTL DEF Spec

(* Type correctness of the whole system: no writer of the journal or of the Host's tables
   ever leaves the vocabularies of the projection. *)
THEOREM TypeCorrect == Spec => []TypeOK
<1>1. TypeInv => TypeOK
  BY DEF TypeInv
<1> QED
  BY <1>1, TypeInvariant, PTL

----
(* Two safety invariants of every Team: a cancellation is never taken back, and an attempt
   whose outcome is unknown keeps the Team gated *)

Cancellable == {"cancelling", "needs_reconciliation", "cancelled"}

(* No closing step leads out of a cancellation: settlements and verdicts may only finish it. *)
LEMMA ClosingKeepsCancellation ==
    ASSUME NEW tm \in Cancellable, NEW tk, NEW at, NEW vf, NEW ls
    PROVE  /\ AfterSettlement(tm, tk, at, vf, ls) \in Cancellable
           /\ AfterVerdict(tm, at, vf, ls) \in Cancellable
BY DEF Cancellable, AfterSettlement, AfterVerdict

(* Nor does one lead out of the recovery gate. *)
LEMMA ClosingKeepsGate ==
    ASSUME NEW tk, NEW at, NEW vf, NEW ls
    PROVE  /\ AfterSettlement("needs_reconciliation", tk, at, vf, ls) = "needs_reconciliation"
           /\ AfterVerdict("needs_reconciliation", at, vf, ls) = "needs_reconciliation"
BY DEF AfterSettlement, AfterVerdict

(* Settling a quiescent Team is a matter of running Teams. *)
LEMMA SettledOnlyIfRunning == team # "running" => SettledQuiescent = team
BY DEF SettledQuiescent

(* A step that leaves the control operations alone, and a Team under cancellation in it,
   preserves the invariant. *)
LEMMA CancelFramed ==
    ASSUME CancelSticks, UnchangedControl, team \in Cancellable => team' \in Cancellable
    PROVE  CancelSticks'
BY DEF CancelSticks, UnchangedControl, Cancellable

(* Once requested, a cancellation stays the latest control, and the Team stays on its way to
   cancelled: whatever settles, is judged, recovered, resumed or fails afterwards. *)
LEMMA CancelSticksInductive ==
    ASSUME CancelSticks, [Next]_vars
    PROVE  CancelSticks'
<1> USE DEF durable, bounds
<1>1. CASE RunnerStep \/ RunnerFails
  <2>1. UnchangedControl
    BY <1>1 DEF RunnerStep, RunnerFails, PersistSchedule, Dispatch, DispatchRefused, StartPass,
                CompleteTeam, NoProgress, RunnerStops, MarkRunnerFailure, UnchangedControl
  <2>2. team # "running" => team' = team
    BY <1>1 DEF RunnerStep, RunnerFails, PersistSchedule, Dispatch, DispatchRefused, StartPass,
                CompleteTeam, NoProgress, NothingLeft, MayAct, RunnerStops, MarkRunnerFailure, Restate
  <2> QED
    BY <2>1, <2>2, CancelFramed DEF Cancellable
<1>2. ASSUME NEW a \in Attempts, VerifyStep(a) PROVE CancelSticks'
  <2>1. UnchangedControl
    BY <1>2 DEF VerifyStep, BeginVerification, RecordVerdict, VerifyRefused, AutoRetry, RequeueTask,
                AutoRetryRefused, UnchangedControl
  <2>2. CASE RecordVerdict(a)
    <3>1. team \in Cancellable => team' \in Cancellable
      BY <2>2, ClosingKeepsCancellation
         DEF RecordVerdict, VerdictPassed, VerdictInconclusive, VerdictRetry, VerdictExhausted,
             VerdictStop, Restate, Cancellable
    <3> QED
      BY <2>1, <3>1, CancelFramed
  <2>3. CASE ~RecordVerdict(a)
    <3>1. team' = team
      BY <1>2, <2>3 DEF VerifyStep, BeginVerification, VerifyRefused, AutoRetry, RequeueTask,
                        AutoRetryRefused
    <3> QED
      BY <2>1, <3>1, CancelFramed
  <2> QED
    BY <2>2, <2>3
<1>3. ASSUME NEW a \in Attempts, ExecutorStep(a) \/ ChildEnds(a) \/ ObservedSettle(a)
      PROVE  CancelSticks'
  <2>1. UnchangedControl
    BY <1>3 DEF ExecutorStep, StartChild, StartRejected, AdmitAttempt, AdmissionLost, Settle,
                SettleWithoutEffect, ChildEnds, ObservedSettle, SettleAttempt, UnchangedControl
  <2>2. \/ UNCHANGED team
        \/ Restate(AfterSettlement(team, task', attempt', verif, lease'))
    BY <1>3 DEF ExecutorStep, StartChild, StartRejected, AdmitAttempt, AdmissionLost, Settle,
                SettleWithoutEffect, ChildEnds, ObservedSettle, SettleAttempt
  <2> QED
    BY <2>1, <2>2, ClosingKeepsCancellation, CancelFramed DEF Restate
<1>4. CASE Control
  <2>1. CASE Pause \/ Resume
    <3>1. team \in {"running", "pausing", "paused"}
      BY <2>1 DEF Pause, Resume
    <3>2. ~cancelAsked
      BY <3>1 DEF CancelSticks
    <3>3. PICK action \in {"pause", "resume"} : cancelAsked' = (cancelAsked \/ action = "cancel")
      BY <2>1 DEF Pause, Resume, Controlled
    <3>4. action # "cancel"
      BY <3>3
    <3>5. ~cancelAsked'
      BY <3>2, <3>3, <3>4
    <3> QED
      BY <3>5 DEF CancelSticks
  <2>2. CASE Cancel \/ CancelDormant
    <3>1. CASE UnchangedControl
      BY <2>2, <3>1, CancelFramed DEF Cancel, CancelDormant, CancelGraph, Restate, Cancellable
    <3>2. CASE Controlled("cancel")
      BY <2>2, <3>2 DEF Cancel, CancelDormant, CancelGraph, Restate, Controlled, CancelSticks
    <3> QED
      BY <2>2, <3>1, <3>2 DEF Cancel, CancelDormant
  <2>3. ASSUME NEW t \in Tasks, StopTask(t) \/ RetryTask(t) PROVE CancelSticks'
    BY <2>3, CancelFramed DEF StopTask, RetryTask, RequeueTask, UnchangedControl
  <2> QED
    BY <1>4, <2>1, <2>2, <2>3 DEF Control
<1>5. CASE WakeRunner \/ CancelReturns
  <2>1. CASE WakeRunner
    <3>1. team # "running" => team' = team
      BY <2>1, SettledOnlyIfRunning DEF WakeRunner, Restate
    <3> QED
      BY <2>1, <3>1, CancelFramed DEF WakeRunner, Cancellable
  <2>2. CASE CancelReturns
    BY <2>2, CancelFramed DEF CancelReturns, Restate, Cancellable
  <2> QED
    BY <1>5, <2>1, <2>2
<1>6. CASE Recovery
  <2>1. ASSUME NEW by \in {"startup", "user"}, Observe(by) PROVE CancelSticks'
    BY <2>1, CancelFramed DEF Observe, UnchangedControl
  <2>2. CASE CommitReconcile
    BY <2>2, CancelFramed DEF CommitReconcile, Cancellable
  <2>3. ASSUME NEW a \in Attempts, NEW decision \in {"failed", "cancelled"}, Resolve(a, decision)
        PROVE  CancelSticks'
    BY <2>3, CancelFramed DEF Resolve, Restate, Cancellable
  <2>4. CASE ClearOrphans \/ ClearFromJournal \/ ClearToRunning
    BY <2>4 DEF ClearOrphans, ClearFromJournal, ClearToRunning, CancelIntent, UnchangedControl,
                CancelSticks
  <2>5. CASE CloseCancellation
    BY <2>5, CancelFramed DEF CloseCancellation, Restate, Cancellable
  <2>6. CASE ConfirmOwned
    BY <2>6 DEF ConfirmOwned, UnchangedControl, CancelSticks
  <2>7. CASE RecoverDormant
    BY <2>7 DEF RecoverDormant, UnchangedControl, CancelSticks
  <2> QED
    BY <1>6, <2>1, <2>2, <2>3, <2>4, <2>5, <2>6, <2>7 DEF Recovery
<1>7. CASE Crash
  BY <1>7, CancelFramed DEF Crash, UnchangedControl
<1>8. CASE UNCHANGED vars
  BY <1>8, CancelFramed DEF vars, UnchangedControl
<1> QED
  BY <1>1, <1>2, <1>3, <1>4, <1>5, <1>6, <1>7, <1>8 DEF Next

(* A cancellation sticks in every Team, for every graph, child behaviour and fault. *)
THEOREM CancellationSticks == Spec => []CancelSticks
<1>1. Init => CancelSticks
  BY DEF Init, ProjectionInit, CancelSticks
<1>2. CancelSticks /\ [Next]_vars => CancelSticks'
  BY CancelSticksInductive
<1> QED
  BY <1>1, <1>2, PTL DEF Spec
----
(* A step that makes no attempt unknown and keeps a gated Team gated preserves the gate. *)
LEMMA GateFramed ==
    ASSUME UnknownIsGated,
           \A a \in Attempts : attempt'[a].st = "unknown" => attempt[a].st = "unknown",
           team = "needs_reconciliation" => team' = "needs_reconciliation"
    PROVE  UnknownIsGated'
BY DEF UnknownIsGated

(* Nothing unknown is left once every fact has been accounted for. *)
LEMMA NothingUnknownLeft ==
    ASSUME NEW ls, ~HasUnresolvedFacts(task, attempt, verif, ls)
    PROVE  \A a \in Attempts : attempt[a].st # "unknown"
BY DEF HasUnresolvedFacts, Unresolved

(* An outcome other than unknown makes nothing unknown. *)
LEMMA OutcomeIsKnown ==
    ASSUME NEW at \in [Attempts -> AttemptRecord], NEW a \in Attempts,
           NEW st, st # "unknown" \/ at[a].st = "unknown"
    PROVE  /\ \A b \in Attempts : [at EXCEPT ![a].st = st][b].st = "unknown" => at[b].st = "unknown"
           /\ \A ending : \A b \in Attempts :
                [at EXCEPT ![a].st = st, ![a].ev = ending][b].st = "unknown" => at[b].st = "unknown"
           /\ \A b \in Attempts :
                [at EXCEPT ![a].st = st, ![a].neg = TRUE][b].st = "unknown" => at[b].st = "unknown"
           /\ \A bind : \A b \in Attempts :
                [at EXCEPT ![a].st = st, ![a].bind = bind][b].st = "unknown" => at[b].st = "unknown"
           /\ \A b \in Attempts : [at EXCEPT ![a].stop = TRUE][b].st = "unknown" => at[b].st = "unknown"
BY DEF AttemptRecord

(* A verify call makes no attempt unknown and opens no gate. *)
LEMMA GateVerdicts ==
    ASSUME TypeInv, UnknownIsGated, NEW a \in Attempts, VerifyStep(a)
    PROVE  UnknownIsGated'
<1>1. attempt \in [Attempts -> AttemptRecord]
  BY DEF TypeInv, TypeOK, ProjectionTypeOK
<1>2. CASE RecordVerdict(a)
  <2>1. \/ \E st \in {"completed", "verification_failed", attempt[a].st} :
               attempt' = [attempt EXCEPT ![a].st = st]
        \/ attempt' = attempt
    BY <1>2 DEF RecordVerdict, VerdictPassed, VerdictInconclusive, VerdictRetry, VerdictExhausted,
                VerdictStop, JudgeTask
  <2>2. \A b \in Attempts : attempt'[b].st = "unknown" => attempt[b].st = "unknown"
    <3>1. CASE attempt' = attempt
      BY <3>1
    <3>2. ASSUME NEW st \in {"completed", "verification_failed", attempt[a].st},
                 attempt' = [attempt EXCEPT ![a].st = st]
          PROVE  \A b \in Attempts : attempt'[b].st = "unknown" => attempt[b].st = "unknown"
      <4>1. st # "unknown" \/ attempt[a].st = "unknown"
        OBVIOUS
      <4> QED
        BY <1>1, <3>2, <4>1, OutcomeIsKnown
    <3> QED
      BY <2>1, <3>1, <3>2
  <2>3. team = "needs_reconciliation" => team' = "needs_reconciliation"
    BY <1>2, ClosingKeepsGate
       DEF RecordVerdict, VerdictPassed, VerdictInconclusive, VerdictRetry, VerdictExhausted,
           VerdictStop, Restate
  <2> QED
    BY <2>2, <2>3, GateFramed
<1>3. CASE ~RecordVerdict(a)
  <2>1. UNCHANGED <<team, attempt>>
    BY <1>3 DEF VerifyStep, BeginVerification, VerifyRefused, AutoRetry, RequeueTask,
                AutoRetryRefused, durable
  <2> QED
    BY <2>1, GateFramed
<1> QED
  BY <1>2, <1>3

(* Nor does the executor or a child: a late settlement may resolve an unknown attempt. *)
LEMMA GateExecutor ==
    ASSUME TypeInv, UnknownIsGated, NEW a \in Attempts,
           ExecutorStep(a) \/ ChildEnds(a) \/ ObservedSettle(a)
    PROVE  UnknownIsGated'
<1>1. attempt \in [Attempts -> AttemptRecord]
  BY DEF TypeInv, TypeOK, ProjectionTypeOK
<1>2. team = "needs_reconciliation" => team' = "needs_reconciliation"
  <2>1. \/ UNCHANGED team
        \/ Restate(AfterSettlement(team, task', attempt', verif, lease'))
    BY DEF ExecutorStep, StartChild, StartRejected, AdmitAttempt, AdmissionLost, Settle,
           SettleWithoutEffect, ChildEnds, ObservedSettle, SettleAttempt, durable
  <2> QED
    BY <2>1, ClosingKeepsGate DEF Restate
<1>3. CASE SettleAttempt(a)
  <2>1. SettledAttempt(a, cancelAsked \/ attempt[a].stop) # "unknown"
    BY DEF SettledAttempt
  <2>2. attempt' = [attempt EXCEPT ![a].st = SettledAttempt(a, cancelAsked \/ attempt[a].stop),
                                   ![a].ev = child[a]]
    BY <1>3 DEF SettleAttempt
  <2>3. \A b \in Attempts : attempt'[b].st = "unknown" => attempt[b].st = "unknown"
    BY <1>1, <2>1, <2>2, OutcomeIsKnown
  <2> QED
    BY <1>2, <2>3, GateFramed
<1>4. CASE StartRejected(a)
  <2>1. attempt' = attempt \/ \E st \in {"cancelled", "failed"} : attempt' = [attempt EXCEPT ![a].st = st]
    BY <1>4 DEF StartRejected
  <2>2. \A b \in Attempts : attempt'[b].st = "unknown" => attempt[b].st = "unknown"
    <3>1. CASE attempt' = attempt
      BY <3>1
    <3>2. ASSUME NEW st \in {"cancelled", "failed"}, attempt' = [attempt EXCEPT ![a].st = st]
          PROVE  \A b \in Attempts : attempt'[b].st = "unknown" => attempt[b].st = "unknown"
      <4>1. st # "unknown"
        OBVIOUS
      <4> QED
        BY <1>1, <3>2, <4>1, OutcomeIsKnown
    <3> QED
      BY <2>1, <3>1, <3>2
  <2> QED
    BY <1>2, <2>2, GateFramed
<1>5. CASE AdmitAttempt(a)
  <2>1. attempt' = [attempt EXCEPT ![a].st = "running", ![a].bind = "admitted"]
    BY <1>5 DEF AdmitAttempt
  <2>2. \A b \in Attempts : attempt'[b].st = "unknown" => attempt[b].st = "unknown"
    BY <1>1, <2>1, OutcomeIsKnown
  <2> QED
    BY <1>2, <2>2, GateFramed
<1>6. CASE UNCHANGED attempt
  BY <1>2, <1>6, GateFramed
<1> QED
  BY <1>3, <1>4, <1>5, <1>6
     DEF ExecutorStep, StartChild, AdmissionLost, Settle, SettleWithoutEffect, ChildEnds,
         ObservedSettle, durable

(* Nor does the runner; its failure mark may only gate the Team. *)
LEMMA GateRunner ==
    ASSUME TypeInv, UnknownIsGated, RunnerStep \/ RunnerFails \/ WakeRunner \/ CancelReturns
    PROVE  UnknownIsGated'
<1>1. team = "needs_reconciliation" => team' = "needs_reconciliation"
  BY SettledOnlyIfRunning
     DEF RunnerStep, RunnerFails, PersistSchedule, Dispatch, DispatchRefused, StartPass, CompleteTeam,
         NoProgress, NothingLeft, MayAct, RunnerStops, MarkRunnerFailure, WakeRunner, CancelReturns,
         Restate, durable
<1>2. CASE Dispatch
  <2>1. PICK fresh : attempt' = [a \in Attempts |-> IF a \in fresh
                                                    THEN [FreshAttempt EXCEPT !.st = "dispatching"]
                                                    ELSE attempt[a]]
    BY <1>2 DEF Dispatch
  <2>2. [FreshAttempt EXCEPT !.st = "dispatching"].st # "unknown"
    BY DEF FreshAttempt
  <2> QED
    BY <1>1, <2>1, <2>2, GateFramed
<1>3. CASE ~Dispatch
  <2>1. UNCHANGED attempt
    BY <1>3 DEF RunnerStep, RunnerFails, PersistSchedule, DispatchRefused, StartPass, CompleteTeam,
                NoProgress, RunnerStops, MarkRunnerFailure, WakeRunner, CancelReturns,
                UnchangedGraph, durable
  <2> QED
    BY <1>1, <2>1, GateFramed
<1> QED
  BY <1>2, <1>3

(* A control never lets a Team with an unknown attempt out of the gate. *)
LEMMA GateControl ==
    ASSUME TypeInv, UnknownIsGated, Control
    PROVE  UnknownIsGated'
<1>1. CASE Pause \/ Resume
  BY <1>1, GateFramed DEF Pause, Resume, UnchangedGraph
<1>2. ASSUME UNCHANGED <<attempt, verif, lease>>, team = "needs_reconciliation", CancelGraph
      PROVE  UnknownIsGated'
  <2>1. CASE HasUnresolvedFacts(task, attempt, verif, lease)
    BY <1>2, <2>1, GateFramed DEF CancelGraph
  <2>2. CASE ~HasUnresolvedFacts(task, attempt, verif, lease)
    BY <1>2, <2>2, NothingUnknownLeft DEF UnknownIsGated
  <2> QED
    BY <2>1, <2>2
<1>3. CASE Cancel \/ CancelDormant
  <2>1. UNCHANGED <<attempt, verif, lease>>
    BY <1>3 DEF Cancel, CancelDormant
  <2>2. CASE team = "needs_reconciliation"
    BY <1>2, <1>3, <2>1, <2>2 DEF Cancel, CancelDormant
  <2>3. CASE team # "needs_reconciliation"
    BY <2>1, <2>3, GateFramed
  <2> QED
    BY <2>2, <2>3
<1>4. ASSUME NEW t \in Tasks, StopTask(t) PROVE UnknownIsGated'
  <2>1. attempt \in [Attempts -> AttemptRecord] /\ Latest(t) \in Attempts
    BY <1>4, LatestTyped DEF StopTask, TypeInv, TypeOK, ProjectionTypeOK
  <2>2. attempt' = [attempt EXCEPT ![Latest(t)].stop = TRUE] /\ team' = team
    BY <1>4 DEF StopTask
  <2>3. \A b \in Attempts : attempt'[b].st = "unknown" => attempt[b].st = "unknown"
    BY <2>1, <2>2, OutcomeIsKnown
  <2> QED
    BY <2>2, <2>3, GateFramed
<1>5. ASSUME NEW t \in Tasks, RetryTask(t) PROVE UnknownIsGated'
  BY <1>5, GateFramed DEF RetryTask, RequeueTask
<1> QED
  BY <1>1, <1>3, <1>4, <1>5 DEF Control

(* A recovery command that makes attempts unknown gates; one that opens leaves none. *)
LEMMA GateRecovery ==
    ASSUME TypeInv, UnknownIsGated, Recovery \/ Crash
    PROVE  UnknownIsGated'
<1>1. ASSUME NEW by \in {"startup", "user"}, Observe(by) PROVE UnknownIsGated'
  BY <1>1, GateFramed DEF Observe, durable
<1>2. CASE CommitReconcile
  BY <1>2 DEF CommitReconcile, UnknownIsGated
<1>3. ASSUME NEW a \in Attempts, NEW decision \in {"failed", "cancelled"}, Resolve(a, decision)
      PROVE  UnknownIsGated'
  <2>1. /\ attempt' = [attempt EXCEPT ![a].st = decision, ![a].neg = TRUE]
        /\ attempt \in [Attempts -> AttemptRecord]
    BY <1>3 DEF Resolve, TypeInv, TypeOK, ProjectionTypeOK
  <2>2. \A b \in Attempts : attempt'[b].st = "unknown" => attempt[b].st = "unknown"
    BY <2>1, OutcomeIsKnown
  <2>3. team' = team \/ \A b \in Attempts : attempt'[b].st \notin Unresolved
    BY <1>3 DEF Resolve, Restate
  <2> QED
    BY <2>2, <2>3, GateFramed DEF UnknownIsGated, Unresolved
<1>4. CASE ClearOrphans \/ ClearFromJournal \/ ClearToRunning \/ CloseCancellation
  <2>1. \A a \in Attempts : attempt[a].st # "unknown"
    BY <1>4, NothingUnknownLeft DEF ClearOrphans, ClearFromJournal, ClearToRunning, CloseCancellation
  <2>2. UNCHANGED attempt
    BY <1>4 DEF ClearOrphans, ClearFromJournal, ClearToRunning, CloseCancellation, UnchangedGraph
  <2> QED
    BY <2>1, <2>2 DEF UnknownIsGated
<1>5. CASE ConfirmOwned
  <2>1. \A a \in Attempts : attempt'[a].st # "unknown"
    <3>1. attempt' = [a \in Attempts |-> IF a \in UnresolvedAttempts
                                         THEN [attempt[a] EXCEPT !.st = "running"] ELSE attempt[a]]
      BY <1>5 DEF ConfirmOwned
    <3>2. \A a \in Attempts : attempt[a] \in AttemptRecord
      BY DEF TypeInv, TypeOK, ProjectionTypeOK
    <3> QED
      BY <3>1, <3>2 DEF UnresolvedAttempts, Unresolved, AttemptRecord
  <2> QED
    BY <2>1 DEF UnknownIsGated
<1>6. CASE RecoverDormant
  BY <1>6, GateFramed DEF RecoverDormant, UnchangedGraph
<1>7. CASE Crash
  BY <1>7, GateFramed DEF Crash, durable
<1> QED
  BY <1>1, <1>2, <1>3, <1>4, <1>5, <1>6, <1>7 DEF Recovery

(* In every Team, an attempt whose outcome is unknown keeps the Team behind the recovery gate:
   no control, settlement, verdict or recovery command lets it pass. *)
THEOREM UnknownStaysGated == Spec => []UnknownIsGated
<1>1. Init => UnknownIsGated
  BY DEF Init, ProjectionInit, FreshAttempt, UnknownIsGated
<1>2. TypeInv /\ UnknownIsGated /\ [Next]_vars => UnknownIsGated'
  <2> SUFFICES ASSUME TypeInv, UnknownIsGated, [Next]_vars PROVE UnknownIsGated'
    OBVIOUS
  <2>1. CASE Next
    BY <2>1, GateRunner, GateVerdicts, GateExecutor, GateControl, GateRecovery DEF Next
  <2>2. CASE UNCHANGED vars
    BY <2>2, GateFramed DEF vars, durable
  <2> QED
    BY <2>1, <2>2
<1>3. Spec => []TypeInv
  BY TypeInvariant
<1> QED
  BY <1>1, <1>2, <1>3, PTL DEF Spec

-----------------------------------------------------------------------------
(* Who owns what while children work *)

(* The attempt may still act: it was dispatched and its outcome is not known. *)
Open(a) == attempt[a].st \in Unresolved

Working == {"running", "verifying"}

(* The inductive invariant.  What is open holds the files of a running task, what is leased is
   the latest attempt of a task that works, and whatever could make a child act, or a
   reconciliation report it, belongs to an open attempt. *)
OwnershipInv ==
    /\ \A a \in Attempts : Open(a) => a \in lease /\ task[a[1]] = "running"
    /\ \A a \in lease : IsLatest(a) /\ task[a[1]] \in Working
    /\ \A a \in Attempts : child[a] = "live" => Open(a)
    /\ \A a \in Attempts : exec[a] = "launching" => Open(a) /\ child[a] = "none"
    /\ \A a \in Attempts : child[a] # "none" => a[2] <= made[a[1]]
    /\ \A a \in Attempts : scan.seen[a] # "none" => Open(a)

(* The verifier judges only while nothing works. *)
PassIsQuiet == pass # {} => \A a \in Attempts : ~Open(a)
----
(* What a step may do to ownership *)

(* Nothing opens or closes, and whatever works keeps working. *)
LEMMA OwnershipFramed ==
    ASSUME OwnershipInv, TypeInv, UNCHANGED <<lease, made>>,
           \A a \in Attempts : Open(a)' <=> Open(a),
           \A t \in Tasks : task[t] \in Working => task'[t] = task[t],
           \A a \in Attempts :
              /\ child'[a] = "live" => child[a] = "live"
              /\ child'[a] = "none" <=> child[a] = "none"
              /\ exec'[a] = "launching" => exec[a] = "launching",
           scan' \in {scan, NoScan}
    PROVE  OwnershipInv'
<1>1. \A a \in Attempts : a[1] \in Tasks
  BY AttemptParts
<1>2. lease \subseteq Attempts
  BY DEF TypeInv, TypeOK, ProjectionTypeOK
<1>3. \A a \in Attempts : scan'.seen[a] # "none" => scan.seen[a] # "none"
  BY DEF NoScan
<1> QED
  BY <1>1, <1>2, <1>3 DEF OwnershipInv, Open, IsLatest, Working

(* The attempt at hand closes: its files are given back, unless its check keeps them. *)
LEMMA OwnershipClosed ==
    ASSUME OwnershipInv, TypeInv, NEW a \in Attempts, IsLatest(a), UNCHANGED made,
           \A b \in Attempts \ {a} : Open(b)' <=> Open(b),
           ~Open(a)', child[a] # "live", exec'[a] # "launching",
           \A t \in Tasks \ {a[1]} : task'[t] = task[t],
           \/ lease' = lease \ {a}
           \/ lease' = lease /\ task'[a[1]] \in Working,
           UNCHANGED child,
           \A b \in Attempts \ {a} : exec'[b] = exec[b],
           scan' = NoScan
    PROVE  OwnershipInv'
<1>1. \A b \in Attempts : b[1] \in Tasks /\ (b[1] = a[1] /\ IsLatest(b) => b = a)
  BY AttemptParts DEF IsLatest
<1>2. lease \subseteq Attempts
  BY DEF TypeInv, TypeOK, ProjectionTypeOK
<1>3. \A b \in Attempts \ {a} : Open(b) => b[1] # a[1]
  BY <1>1, <1>2 DEF OwnershipInv
<1>4. \A b \in Attempts : scan'.seen[b] = "none"
  BY DEF NoScan
<1> QED
  BY <1>1, <1>2, <1>3, <1>4 DEF OwnershipInv, Open, IsLatest, Working

(* Nothing is open any more and every file has been given back. *)
LEMMA OwnershipEmptied ==
    ASSUME OwnershipInv, TypeInv, UNCHANGED <<made, child, exec>>, scan' = NoScan, lease' = {},
           \A a \in Attempts : Open(a)' <=> Open(a),
           \A a \in Attempts : ~Open(a)
    PROVE  OwnershipInv'
BY DEF OwnershipInv, Open, IsLatest, NoScan

(* A retry finds nothing open in the task, so it may give its files back. *)
LEMMA OwnershipRequeued ==
    ASSUME OwnershipInv, TypeInv, NEW t \in Tasks, RetryAllowed(t), RequeueTask(t),
           UNCHANGED <<child, exec>>
    PROVE  OwnershipInv'
<1>1. /\ \A a \in Attempts : a[1] = t => ~Open(a)
      /\ \A a \in Attempts : a[1] \in Tasks
  BY AttemptParts DEF RetryAllowed, Open
<1>2. /\ lease' = {a \in lease : a[1] # t} /\ lease \subseteq Attempts
      /\ \A u \in Tasks : u # t => task'[u] = task[u]
      /\ UNCHANGED <<made, attempt>> /\ scan' = NoScan
  BY DEF RequeueTask, Commit, TypeInv, TypeOK, ProjectionTypeOK
<1> QED
  BY <1>1, <1>2 DEF OwnershipInv, Open, IsLatest, NoScan

(* A batch takes tasks that wait, so the attempts it opens own what nobody held. *)
LEMMA OwnershipDispatched ==
    ASSUME OwnershipInv, TypeInv, Dispatch
    PROVE  OwnershipInv'
<1>1. PICK batch \in SUBSET Eligible :
          LET fresh == {<<t, made[t] + 1>> : t \in batch}
          IN  /\ fresh \subseteq Attempts
              /\ task' = [t \in Tasks |-> IF t \in batch THEN "running" ELSE task[t]]
              /\ made' = [t \in Tasks |-> IF t \in batch THEN made[t] + 1 ELSE made[t]]
              /\ attempt' = [a \in Attempts |-> IF a \in fresh
                                                THEN [FreshAttempt EXCEPT !.st = "dispatching"]
                                                ELSE attempt[a]]
              /\ lease' = lease \union fresh
              /\ exec' = [a \in Attempts |-> IF a \in fresh THEN "launching" ELSE exec[a]]
  BY DEF Dispatch
<1>2. /\ UNCHANGED child /\ scan' = NoScan
      /\ lease \subseteq Attempts /\ made \in [Tasks -> 0..MaxOrdinal]
  BY DEF Dispatch, Commit, TypeInv, TypeOK, ProjectionTypeOK
<1> DEFINE fresh == {<<t, made[t] + 1>> : t \in batch}
<1>3. batch \subseteq Tasks /\ \A t \in batch : task[t] \notin Working
  BY DEF Eligible, Candidates, Working
<1>4. \A a \in fresh : /\ a \in Attempts /\ a[1] \in batch /\ a[2] = made[a[1]] + 1
                       /\ Open(a)' /\ child[a] = "none"
  <2> SUFFICES ASSUME NEW a \in fresh
               PROVE  /\ a \in Attempts /\ a[1] \in batch /\ a[2] = made[a[1]] + 1
                      /\ Open(a)' /\ child[a] = "none"
    OBVIOUS
  <2>1. a \in Attempts /\ a[1] \in batch /\ a[2] = made[a[1]] + 1
    BY <1>1
  <2>2. Open(a)'
    BY <1>1, <2>1 DEF Open, FreshAttempt, Unresolved, InFlight
  <2>3. ~(a[2] <= made[a[1]])
    BY <1>2, <1>3, <2>1
  <2> QED
    BY <2>1, <2>2, <2>3 DEF OwnershipInv
<1>5. \A a \in Attempts : a \notin fresh => (Open(a)' <=> Open(a)) /\ exec'[a] = exec[a]
  BY <1>1 DEF Open
<1>6. \A a \in Attempts : /\ a[1] \in Tasks
                          /\ a[1] \notin batch => task'[a[1]] = task[a[1]] /\ made'[a[1]] = made[a[1]]
                          /\ a[1] \in batch => task'[a[1]] = "running" /\ made'[a[1]] = made[a[1]] + 1
  BY <1>1, AttemptParts
<1>7. \A a \in lease : a[1] \notin batch
  BY <1>3 DEF OwnershipInv
<1>8. \A a \in Attempts : Open(a) => a[1] \notin batch
  BY <1>7 DEF OwnershipInv
<1>9. \A a \in Attempts : Open(a)' => a \in lease' /\ task'[a[1]] = "running"
  BY <1>1, <1>4, <1>5, <1>6, <1>8 DEF OwnershipInv
<1>10. \A a \in lease' : IsLatest(a)' /\ task'[a[1]] \in Working
  BY <1>1, <1>2, <1>4, <1>6, <1>7 DEF OwnershipInv, IsLatest, Working
<1>11. \A a \in Attempts : child'[a] = "live" => Open(a)'
  BY <1>2, <1>4, <1>5 DEF OwnershipInv
<1>12. \A a \in Attempts : exec'[a] = "launching" => Open(a)' /\ child'[a] = "none"
  BY <1>2, <1>4, <1>5 DEF OwnershipInv
<1>13. \A a \in Attempts : child'[a] # "none" => a[2] <= made'[a[1]]
  <2> SUFFICES ASSUME NEW a \in Attempts, child[a] # "none" PROVE a[2] <= made'[a[1]]
    BY <1>2
  <2>1. a[2] <= made[a[1]] /\ a[1] \in Tasks /\ made[a[1]] \in Nat /\ a[2] \in Nat
    BY <1>2, AttemptParts, GraphAssumption DEF OwnershipInv, Ordinals
  <2> QED
    BY <1>6, <2>1
<1>14. \A a \in Attempts : scan'.seen[a] = "none"
  BY <1>2 DEF NoScan
<1> QED
  BY <1>9, <1>10, <1>11, <1>12, <1>13, <1>14 DEF OwnershipInv
----
(* Every step keeps the ownership *)

(* A step that changes no status, lease, child or executor entry. *)
LEMMA OwnershipStands ==
    ASSUME OwnershipInv, TypeInv, UNCHANGED <<task, made, attempt, lease, exec, child>>,
           scan' \in {scan, NoScan}
    PROVE  OwnershipInv'
BY OwnershipFramed DEF Open

(* The runner: only a dispatch opens work, and it takes the lease of each attempt it opens. *)
LEMMA OwnershipRunner ==
    ASSUME OwnershipInv, TypeInv, RunnerStep \/ RunnerFails \/ WakeRunner \/ CancelReturns
    PROVE  OwnershipInv'
<1>1. CASE Dispatch
  BY <1>1, OwnershipDispatched
<1>2. CASE PersistSchedule
  <2>1. \A t \in Tasks : task[t] \in Working => task'[t] = task[t]
    BY <1>2 DEF PersistSchedule, NewlyBlocked, Unblocked, Working
  <2>2. UNCHANGED <<made, attempt, lease, exec, child>> /\ scan' = NoScan
    BY <1>2 DEF PersistSchedule, Commit, volatile
  <2> QED
    BY <2>1, <2>2, OwnershipFramed DEF Open
<1>3. CASE DispatchRefused \/ StartPass \/ CompleteTeam \/ NoProgress \/ RunnerStops
           \/ MarkRunnerFailure \/ RunnerFails
  <2>1. UNCHANGED <<task, made, attempt, lease, exec, child>> /\ scan' \in {scan, NoScan}
    BY <1>3 DEF DispatchRefused, StartPass, CompleteTeam, NoProgress, RunnerStops,
                MarkRunnerFailure, RunnerFails, FailPass, Commit, UnchangedGraph, durable, volatile
  <2> QED
    BY <2>1, OwnershipStands
<1>4. CASE WakeRunner \/ CancelReturns
  <2>1. UNCHANGED <<task, made, attempt, lease, exec, child>> /\ scan' \in {scan, NoScan}
    BY <1>4 DEF WakeRunner, CancelReturns, Commit, UnchangedGraph
  <2> QED
    BY <2>1, OwnershipStands
<1> QED
  BY <1>1, <1>2, <1>3, <1>4 DEF RunnerStep

(* A verdict closes an attempt that was not open any more. *)
LEMMA OwnershipVerdicts ==
    ASSUME OwnershipInv, TypeInv, NEW a \in Attempts, VerifyStep(a)
    PROVE  OwnershipInv'
<1>1. /\ attempt \in [Attempts -> AttemptRecord] /\ task \in [Tasks -> TaskStatus]
      /\ a[1] \in Tasks
  BY AttemptParts DEF TypeInv, TypeOK, ProjectionTypeOK
<1>2. CASE RecordVerdict(a)
  <2>1. /\ IsLatest(a) /\ task[a[1]] = "verifying"
        /\ UNCHANGED <<made, exec, child>> /\ scan' = NoScan
    BY <1>2 DEF RecordVerdict, VerdictAllowed, Commit
  <2>2. ~Open(a) /\ child[a] # "live" /\ exec[a] # "launching"
    BY <2>1 DEF OwnershipInv
  <2>3. CASE UNCHANGED <<task, attempt, lease>>
    BY <2>1, <2>3, OwnershipStands
  <2>4. ASSUME NEW st, NEW to, NEW verdict, JudgeTask(a, st, to, verdict),
               st \notin Unresolved
        PROVE  OwnershipInv'
    <3>1. ~Open(a)' /\ \A b \in Attempts \ {a} : Open(b)' <=> Open(b)
      BY <1>1, <2>4 DEF JudgeTask, Open, AttemptRecord
    <3>2. lease' = lease \ {a} /\ \A t \in Tasks \ {a[1]} : task'[t] = task[t]
      BY <1>1, <2>4 DEF JudgeTask
    <3> QED
      BY <2>1, <2>2, <3>1, <3>2, OwnershipClosed
  <2>5. CASE VerdictPassed(a)
    BY <2>4, <2>5 DEF VerdictPassed, Unresolved, InFlight
  <2>6. CASE VerdictInconclusive(a)
    BY <2>2, <2>4, <2>6 DEF VerdictInconclusive, Open
  <2>7. CASE VerdictRetry(a) \/ VerdictExhausted(a)
    BY <2>3, <2>7 DEF VerdictRetry, VerdictExhausted
  <2>8. CASE VerdictStop(a)
    <3>1. \/ JudgeTask(a, "verification_failed", "failed", "failedStop")
          \/ UNCHANGED <<task, attempt, lease>>
      BY <2>8 DEF VerdictStop
    <3>2. "verification_failed" \notin Unresolved
      BY DEF Unresolved, InFlight
    <3> QED
      BY <2>3, <2>4, <3>1, <3>2
  <2> QED
    BY <1>2, <2>5, <2>6, <2>7, <2>8 DEF RecordVerdict
<1>3. CASE AutoRetry(a)
  <2>1. RetryAllowed(a[1]) /\ RequeueTask(a[1]) /\ UNCHANGED <<child, exec>>
    BY <1>3 DEF AutoRetry, AutoRetryAllowed
  <2> QED
    BY <1>1, <2>1, OwnershipRequeued
<1>4. CASE BeginVerification(a) \/ VerifyRefused(a) \/ AutoRetryRefused(a)
  <2>1. UNCHANGED <<task, made, attempt, lease, exec, child>> /\ scan' \in {scan, NoScan}
    BY <1>4 DEF BeginVerification, VerifyRefused, AutoRetryRefused, FailPass, Commit, durable, volatile
  <2> QED
    BY <2>1, OwnershipStands
<1> QED
  BY <1>2, <1>3, <1>4 DEF VerifyStep

(* A settlement closes the attempt it is about, and a child that ended does nothing more. *)
LEMMA OwnershipSettled ==
    ASSUME OwnershipInv, TypeInv, NEW a \in Attempts, SettleAttempt(a),
           exec'[a] # "launching", \A b \in Attempts \ {a} : exec'[b] = exec[b]
    PROVE  OwnershipInv'
<1>1. /\ attempt \in [Attempts -> AttemptRecord] /\ task \in [Tasks -> TaskStatus]
      /\ a[1] \in Tasks
  BY AttemptParts DEF TypeInv, TypeOK, ProjectionTypeOK
<1> DEFINE asked == cancelAsked \/ attempt[a].stop
<1>2. SettledAttempt(a, asked) \notin Unresolved
  BY DEF SettledAttempt, Unresolved, InFlight
<1>3. /\ Open(a) /\ child[a] # "live"
      /\ attempt' = [attempt EXCEPT ![a].st = SettledAttempt(a, asked), ![a].ev = child[a]]
      /\ task' = [task EXCEPT ![a[1]] = SettledTask(a, asked)]
      /\ lease' = IF SettledTask(a, asked) = "verifying" THEN lease ELSE lease \ {a}
      /\ UNCHANGED <<made, child>> /\ scan' = NoScan
  BY DEF SettleAttempt, SettlementDue, Ended, ChildEndings, Open, Unresolved, InFlight, Commit
<1>4. IsLatest(a)
  BY <1>3 DEF OwnershipInv
<1>5. ~Open(a)' /\ \A b \in Attempts \ {a} : Open(b)' <=> Open(b)
  BY <1>1, <1>2, <1>3 DEF Open, AttemptRecord
<1>6. \/ lease' = lease \ {a}
      \/ lease' = lease /\ task'[a[1]] \in Working
  BY <1>1, <1>3 DEF Working
<1>7. \A t \in Tasks \ {a[1]} : task'[t] = task[t]
  BY <1>1, <1>3
<1> QED
  BY <1>3, <1>4, <1>5, <1>6, <1>7, OwnershipClosed

(* The executor, one attempt at a time: its child is started, admitted and settled while it is open. *)
LEMMA OwnershipExecutor ==
    ASSUME OwnershipInv, TypeInv, NEW a \in Attempts,
           ExecutorStep(a) \/ ChildEnds(a) \/ ObservedSettle(a)
    PROVE  OwnershipInv'
<1>1. /\ attempt \in [Attempts -> AttemptRecord] /\ task \in [Tasks -> TaskStatus]
      /\ exec \in [Attempts -> {"none", "launching", "admitting", "listening"}]
      /\ child \in [Attempts -> {"none", "live", "halted", "lost"} \union ChildEndings]
      /\ a[1] \in Tasks
  BY AttemptParts DEF TypeInv, TypeOK, ProjectionTypeOK, ExecutionTypeOK
<1>2. CASE StartChild(a)
  <2>1. /\ exec[a] = "launching" /\ exec' = [exec EXCEPT ![a] = "admitting"]
        /\ child' = [child EXCEPT ![a] = "live"]
        /\ UNCHANGED <<task, made, attempt, lease, scan>>
    BY <1>2 DEF StartChild, durable
  <2>2. Open(a) /\ IsLatest(a)
    BY <2>1 DEF OwnershipInv
  <2>3. a[2] <= made[a[1]]
    BY <2>2, AttemptParts, GraphAssumption DEF IsLatest, Ordinals
  <2> QED
    BY <1>1, <2>1, <2>2, <2>3 DEF OwnershipInv, Open, IsLatest
<1>3. CASE StartRejected(a)
  <2>1. /\ exec[a] = "launching" /\ exec' = [exec EXCEPT ![a] = "none"]
        /\ UNCHANGED <<made, child>>
    BY <1>3 DEF StartRejected
  <2>2. Open(a) /\ child[a] = "none" /\ IsLatest(a)
    BY <2>1 DEF OwnershipInv
  <2>3. exec'[a] # "launching" /\ \A b \in Attempts \ {a} : exec'[b] = exec[b]
    BY <1>1, <2>1
  <2>4. CASE UNCHANGED <<attempt, task, lease, scan>>
    BY <2>1, <2>3, <2>4, OwnershipFramed DEF Open
  <2>5. ASSUME NEW outcome \in {"cancelled", "failed"},
               attempt' = [attempt EXCEPT ![a].st = outcome],
               task' = [task EXCEPT ![a[1]] = outcome],
               lease' = lease \ {a}, scan' = NoScan
        PROVE  OwnershipInv'
    <3>1. ~Open(a)' /\ \A b \in Attempts \ {a} : Open(b)' <=> Open(b)
      BY <1>1, <2>5 DEF Open, AttemptRecord, Unresolved, InFlight
    <3>2. \A t \in Tasks \ {a[1]} : task'[t] = task[t]
      BY <1>1, <2>5
    <3> QED
      BY <2>1, <2>2, <2>3, <2>5, <3>1, <3>2, OwnershipClosed
  <2> QED
    BY <1>3, <2>4, <2>5 DEF StartRejected, Commit
<1>4. CASE AdmitAttempt(a)
  <2>1. /\ attempt' = [attempt EXCEPT ![a].st = "running", ![a].bind = "admitted"]
        /\ attempt[a].st = "dispatching"
        /\ exec' = [exec EXCEPT ![a] = "listening"]
        /\ UNCHANGED <<task, made, lease, child>> /\ scan' = NoScan
    BY <1>4 DEF AdmitAttempt, Commit
  <2>2. \A b \in Attempts : Open(b)' <=> Open(b)
    BY <1>1, <2>1 DEF Open, AttemptRecord, Unresolved, InFlight
  <2>3. \A b \in Attempts : exec'[b] = "launching" => exec[b] = "launching"
    BY <1>1, <2>1
  <2> QED
    BY <2>1, <2>2, <2>3, OwnershipFramed
<1>5. CASE AdmissionLost(a) \/ SettleWithoutEffect(a)
  <2>1. exec' = [exec EXCEPT ![a] = "none"] /\ UNCHANGED <<task, made, attempt, lease, child, scan>>
    BY <1>5 DEF AdmissionLost, SettleWithoutEffect, durable
  <2>2. \A b \in Attempts : exec'[b] = "launching" => exec[b] = "launching"
    BY <1>1, <2>1
  <2> QED
    BY <2>1, <2>2, OwnershipFramed DEF Open
<1>6. CASE ChildEnds(a)
  <2>1. /\ child[a] = "live"
        /\ \E ending \in Ends : child' = [child EXCEPT ![a] = ending]
        /\ UNCHANGED <<task, made, attempt, lease, exec, scan>>
    BY <1>6 DEF ChildEnds, durable, volatile
  <2>2. \A ending \in Ends : ending # "none" /\ ending # "live"
    BY ExecutionAssumption DEF ChildEndings
  <2>3. \A b \in Attempts : /\ child'[b] = "live" => child[b] = "live"
                            /\ child'[b] = "none" <=> child[b] = "none"
    BY <1>1, <2>1, <2>2
  <2> QED
    BY <2>1, <2>3, OwnershipFramed DEF Open
<1>7. CASE Settle(a)
  <2>1. SettleAttempt(a) /\ exec' = [exec EXCEPT ![a] = "none"]
    BY <1>7 DEF Settle
  <2> QED
    BY <1>1, <2>1, OwnershipSettled
<1>8. CASE ObservedSettle(a)
  <2>1. SettleAttempt(a) /\ UNCHANGED exec
    BY <1>8 DEF ObservedSettle
  <2>2. child[a] # "none"
    BY <2>1 DEF SettleAttempt, SettlementDue, Ended, ChildEndings
  <2> QED
    BY <2>1, <2>2, OwnershipSettled DEF OwnershipInv
<1> QED
  BY <1>2, <1>3, <1>4, <1>5, <1>6, <1>7, <1>8 DEF ExecutorStep

(* A cancel takes only work that nobody started, or finds nothing left of what was. *)
LEMMA OwnershipCancelled ==
    ASSUME OwnershipInv, TypeInv, UNCHANGED <<made, attempt, lease, exec, child>>, scan' = NoScan,
           \/ UNCHANGED task
           \/ task' = CancelSchedulable(task)
           \/ task' = CancelUnfinished(task) /\ ~HasUnresolvedFacts(task, attempt, verif, lease)
    PROVE  OwnershipInv'
<1>1. CASE UNCHANGED task
  BY <1>1, OwnershipStands
<1>2. CASE task' = CancelSchedulable(task)
  <2>1. \A t \in Tasks : task[t] \in Working => task'[t] = task[t]
    BY <1>2 DEF CancelSchedulable, Schedulable, Working
  <2> QED
    BY <2>1, OwnershipFramed DEF Open
<1>3. CASE ~HasUnresolvedFacts(task, attempt, verif, lease)
  <2>1. lease = {} /\ \A a \in Attempts : ~Open(a)
    BY <1>3 DEF HasUnresolvedFacts, Open
  <2> QED
    BY <2>1, OwnershipEmptied DEF Open
<1> QED
  BY <1>1, <1>2, <1>3

(* The user: a control closes work or leaves it, it never opens any. *)
LEMMA OwnershipControl ==
    ASSUME OwnershipInv, TypeInv, Control
    PROVE  OwnershipInv'
<1>1. CASE Pause \/ Resume
  <2>1. UNCHANGED <<task, made, attempt, lease, exec, child>> /\ scan' = NoScan
    BY <1>1 DEF Pause, Resume, UnchangedGraph, volatile, Commit
  <2> QED
    BY <2>1, OwnershipStands
<1>2. CASE Cancel \/ CancelDormant
  <2>1. UNCHANGED <<made, attempt, lease, exec, child>> /\ scan' = NoScan
    BY <1>2 DEF Cancel, CancelDormant, volatile, Commit
  <2>2. \/ UNCHANGED task
        \/ task' = CancelSchedulable(task)
        \/ task' = CancelUnfinished(task) /\ ~HasUnresolvedFacts(task, attempt, verif, lease)
    BY <1>2 DEF Cancel, CancelDormant, CancelGraph
  <2> QED
    BY <2>1, <2>2, OwnershipCancelled
<1>3. ASSUME NEW t \in Tasks, StopTask(t) PROVE OwnershipInv'
  <2>1. attempt \in [Attempts -> AttemptRecord] /\ Latest(t) \in Attempts
    BY <1>3, LatestTyped DEF StopTask, TypeInv, TypeOK, ProjectionTypeOK
  <2>2. /\ attempt' = [attempt EXCEPT ![Latest(t)].stop = TRUE]
        /\ UNCHANGED <<task, made, lease, exec, child>> /\ scan' = NoScan
    BY <1>3 DEF StopTask, Commit, volatile
  <2>3. \A b \in Attempts : Open(b)' <=> Open(b)
    BY <2>1, <2>2 DEF Open, AttemptRecord
  <2> QED
    BY <2>2, <2>3, OwnershipFramed
<1>4. ASSUME NEW t \in Tasks, RetryTask(t) PROVE OwnershipInv'
  BY <1>4, OwnershipRequeued DEF RetryTask
<1> QED
  BY <1>1, <1>2, <1>3, <1>4 DEF Control

(* Recovery closes an attempt only on proof that its child cannot act, and gives files back
   only when nothing is open. *)
LEMMA OwnershipRecovery ==
    ASSUME OwnershipInv, TypeInv, Recovery \/ Crash
    PROVE  OwnershipInv'
<1>1. /\ attempt \in [Attempts -> AttemptRecord] /\ task \in [Tasks -> TaskStatus]
      /\ child \in [Attempts -> {"none", "live", "halted", "lost"} \union ChildEndings]
      /\ \A a \in Attempts : a[1] \in Tasks
  BY AttemptParts DEF TypeInv, TypeOK, ProjectionTypeOK, ExecutionTypeOK
<1>2. ASSUME NEW by \in {"startup", "user"}, Observe(by) PROVE OwnershipInv'
  <2>1. UNCHANGED <<task, made, attempt, lease, exec, child>>
    BY <1>2 DEF Observe, durable, volatile
  <2>2. \A a \in Attempts : scan'.seen[a] # "none" => Open(a)
    <3>1. PICK listed \in BOOLEAN :
            scan' = [by |-> by,
                     seen |-> [a \in Attempts |-> IF a \notin UnresolvedAttempts THEN "none"
                                                   ELSE IF listed THEN Classified(a)
                                                   ELSE "unavailable"]]
      BY <1>2 DEF Observe
    <3> QED
      BY <3>1 DEF UnresolvedAttempts, Open
  <2> QED
    BY <2>1, <2>2 DEF OwnershipInv, Open, IsLatest
<1>3. CASE CommitReconcile
  <2>1. /\ attempt' = [a \in Attempts |->
              IF scan.seen[a] = "none" THEN attempt[a]
              ELSE [attempt[a] EXCEPT
                      !.st = "unknown", !.seen = scan.seen[a],
                      !.bind = IF @ = "unbound" /\ scan.seen[a] \in {"live", "durable"}
                               THEN "recovered" ELSE @]]
        /\ UNCHANGED <<task, made, lease, exec, child>> /\ scan' = NoScan
    BY <1>3 DEF CommitReconcile, Commit, volatile
  <2>2. ASSUME NEW a \in Attempts PROVE Open(a)' <=> Open(a)
    <3>1. CASE scan.seen[a] = "none"
      BY <2>1, <3>1 DEF Open
    <3>2. CASE scan.seen[a] # "none"
      <4>1. attempt'[a].st = "unknown"
        BY <1>1, <2>1, <3>2 DEF AttemptRecord
      <4> QED
        BY <3>2, <4>1 DEF OwnershipInv, Open, Unresolved
    <3> QED
      BY <3>1, <3>2
  <2> QED
    BY <2>1, <2>2, OwnershipFramed
<1>4. ASSUME NEW a \in Attempts, NEW decision \in {"failed", "cancelled"}, Resolve(a, decision)
      PROVE  OwnershipInv'
  <2>1. /\ attempt' = [attempt EXCEPT ![a].st = decision, ![a].neg = TRUE]
        /\ lease' = lease \ {a} /\ attempt[a].st = "unknown" /\ Quiescent(a)
        /\ UNCHANGED <<made, exec, child>> /\ scan' = NoScan
    BY <1>4 DEF Resolve, Commit, volatile
  <2>2. Open(a) /\ IsLatest(a) /\ child[a] # "live" /\ exec[a] # "launching"
    BY <2>1 DEF OwnershipInv, Open, Unresolved, Quiescent, Owned
  <2>3. ~Open(a)' /\ \A b \in Attempts \ {a} : Open(b)' <=> Open(b)
    BY <1>1, <2>1 DEF Open, AttemptRecord, Unresolved, InFlight
  <2> DEFINE closed == [task EXCEPT ![a[1]] = decision]
  <2>4. CASE task' = closed
    <3>1. \A t \in Tasks \ {a[1]} : task'[t] = task[t]
      BY <1>1, <2>4
    <3> QED
      BY <2>1, <2>2, <2>3, <3>1, OwnershipClosed
  <2>5. CASE lease' = {} /\ \A b \in Attempts : attempt'[b].st \notin Unresolved
    <3>1. \A b \in Attempts : child'[b] # "live" /\ exec'[b] # "launching"
      BY <2>1, <2>2, <2>3, <2>5 DEF OwnershipInv, Open
    <3>2. \A b \in Attempts : scan'.seen[b] = "none"
      BY <2>1 DEF NoScan
    <3> QED
      BY <2>1, <2>5, <3>1, <3>2 DEF OwnershipInv, Open
  <2> QED
    BY <1>4, <2>4, <2>5 DEF Resolve
<1>5. CASE ClearOrphans
  <2>1. \A a \in Attempts : ~Open(a)
    BY <1>5 DEF ClearOrphans, HasUnresolvedFacts, Open
  <2>2. /\ UNCHANGED <<made, child, exec, attempt>> /\ scan' = NoScan /\ lease' = {}
    BY <1>5 DEF ClearOrphans, Commit, volatile
  <2> QED
    BY <2>1, <2>2, OwnershipEmptied DEF Open
<1>6. CASE ClearFromJournal \/ ClearToRunning \/ RecoverDormant
  <2>1. UNCHANGED <<task, made, attempt, lease, exec, child>> /\ scan' \in {scan, NoScan}
    BY <1>6 DEF ClearFromJournal, ClearToRunning, RecoverDormant, UnchangedGraph, Commit, volatile
  <2> QED
    BY <2>1, OwnershipStands
<1>7. CASE CloseCancellation
  <2>1. /\ UNCHANGED <<made, attempt, lease, exec, child>> /\ scan' = NoScan
        /\ task' = CancelUnfinished(task) /\ ~HasUnresolvedFacts(task, attempt, verif, lease)
    BY <1>7 DEF CloseCancellation, Commit, volatile
  <2> QED
    BY <2>1, OwnershipCancelled
<1>8. CASE ConfirmOwned
  <2>1. /\ attempt' = [a \in Attempts |-> IF a \in UnresolvedAttempts
                                          THEN [attempt[a] EXCEPT !.st = "running"] ELSE attempt[a]]
        /\ UNCHANGED <<task, made, lease, exec, child>> /\ scan' = NoScan
    BY <1>8 DEF ConfirmOwned, Commit, volatile
  <2>2. \A a \in Attempts : Open(a)' <=> Open(a)
    BY <1>1, <2>1 DEF Open, UnresolvedAttempts, AttemptRecord, Unresolved, InFlight
  <2> QED
    BY <2>1, <2>2, OwnershipFramed
<1>9. CASE Crash
  <2>1. /\ exec' = [a \in Attempts |-> "none"]
        /\ \E fate \in [{a \in Attempts : child[a] = "live"} -> CrashFates] :
             child' = [a \in Attempts |-> IF child[a] = "live" THEN fate[a] ELSE child[a]]
        /\ UNCHANGED <<task, made, attempt, lease>> /\ scan' = NoScan
    BY <1>9 DEF Crash, durable
  <2>2. "none" \notin CrashFates
    BY ExecutionAssumption
  <2>3. \A a \in Attempts : /\ child'[a] = "live" => child[a] = "live"
                            /\ child'[a] = "none" <=> child[a] = "none"
                            /\ exec'[a] # "launching"
    BY <2>1, <2>2
  <2> QED
    BY <2>1, <2>3, OwnershipFramed DEF Open
<1> QED
  BY <1>2, <1>3, <1>4, <1>5, <1>6, <1>7, <1>8, <1>9 DEF Recovery

(* What is open owns the files of a running task, in every reachable state. *)
THEOREM OwnershipInvariant == Spec => []OwnershipInv
<1>1. Init => OwnershipInv
  BY DEF Init, ProjectionInit, FreshAttempt, NoScan, OwnershipInv, Open, Unresolved, InFlight
<1>2. TypeInv /\ OwnershipInv /\ [Next]_vars => OwnershipInv'
  <2> SUFFICES ASSUME TypeInv, OwnershipInv, [Next]_vars PROVE OwnershipInv'
    OBVIOUS
  <2>1. CASE Next
    BY <2>1, OwnershipRunner, OwnershipVerdicts, OwnershipExecutor, OwnershipControl,
       OwnershipRecovery DEF Next
  <2>2. CASE UNCHANGED vars
    <3>1. UNCHANGED <<task, made, attempt, lease, exec, child, scan>>
      BY <2>2 DEF vars, durable, volatile
    <3> QED
      BY <3>1, OwnershipStands
  <2> QED
    BY <2>1, <2>2
<1> QED
  BY <1>1, <1>2, TypeInvariant, PTL DEF Spec

(* A child that may still write holds the lease of its running task, and its attempt is the
   task's latest: in no Team does anybody else get its files while it lives. *)
THEOREM LivingChildOwnsFiles == Spec => []LiveChildOwnsFiles
<1>1. OwnershipInv => LiveChildOwnsFiles
  BY DEF OwnershipInv, LiveChildOwnsFiles, Open
<1> QED
  BY <1>1, OwnershipInvariant, PTL
----
(* Only a dispatch opens attempts and acquires leases. *)
LEMMA OpenShrinks ==
    ASSUME TypeInv, OwnershipInv, [Next]_vars, ~Dispatch
    PROVE  lease' \subseteq lease /\ \A a \in Attempts : Open(a)' => Open(a)
<1> USE DEF durable, volatile
<1>1. attempt \in [Attempts -> AttemptRecord]
  BY DEF TypeInv, TypeOK, ProjectionTypeOK
<1>2. ASSUME UNCHANGED attempt, lease' \subseteq lease
      PROVE  lease' \subseteq lease /\ \A a \in Attempts : Open(a)' => Open(a)
  BY <1>2 DEF Open
<1>3. CASE RunnerStep \/ RunnerFails \/ WakeRunner \/ CancelReturns
  <2>1. UNCHANGED <<attempt, lease>>
    BY <1>3 DEF RunnerStep, RunnerFails, PersistSchedule, DispatchRefused, StartPass,
                CompleteTeam, NoProgress, RunnerStops, MarkRunnerFailure, WakeRunner,
                CancelReturns, UnchangedGraph
  <2> QED
    BY <1>2, <2>1
<1>4. ASSUME NEW a \in Attempts, VerifyStep(a)
      PROVE  lease' \subseteq lease /\ \A b \in Attempts : Open(b)' => Open(b)
  <2>1. CASE RecordVerdict(a)
    <3>1. ASSUME NEW st, NEW to, NEW verdict, JudgeTask(a, st, to, verdict),
                 st \notin Unresolved \/ st = attempt[a].st
          PROVE  lease' \subseteq lease /\ \A b \in Attempts : Open(b)' => Open(b)
      <4>1. attempt' = [attempt EXCEPT ![a].st = st] /\ lease' = lease \ {a}
        BY <3>1 DEF JudgeTask
      <4>2. attempt'[a].st = st /\ \A b \in Attempts \ {a} : attempt'[b] = attempt[b]
        BY <1>1, <4>1 DEF AttemptRecord
      <4>3. Open(a)' => Open(a)
        BY <3>1, <4>2 DEF Open
      <4>4. \A b \in Attempts \ {a} : Open(b)' => Open(b)
        BY <4>2 DEF Open
      <4> QED
        BY <4>1, <4>3, <4>4
    <3>2. "completed" \notin Unresolved /\ "verification_failed" \notin Unresolved
      BY DEF Unresolved, InFlight
    <3>3. \/ UNCHANGED <<attempt, lease>>
          \/ JudgeTask(a, "completed", "completed", "passed")
          \/ JudgeTask(a, attempt[a].st, "blocked", "waived")
          \/ JudgeTask(a, "verification_failed", "failed", "failedStop")
      BY <2>1 DEF RecordVerdict, VerdictPassed, VerdictInconclusive, VerdictRetry,
                  VerdictExhausted, VerdictStop
    <3> QED
      BY <1>2, <3>1, <3>2, <3>3
  <2>2. CASE ~RecordVerdict(a)
    <3>1. UNCHANGED attempt /\ lease' \subseteq lease
      BY <1>4, <2>2 DEF VerifyStep, BeginVerification, VerifyRefused, AutoRetry, RequeueTask,
                        AutoRetryRefused
    <3> QED
      BY <1>2, <3>1
  <2> QED
    BY <2>1, <2>2
<1>5. ASSUME NEW a \in Attempts, ExecutorStep(a) \/ ChildEnds(a) \/ ObservedSettle(a)
      PROVE  lease' \subseteq lease /\ \A b \in Attempts : Open(b)' => Open(b)
  <2>1. CASE SettleAttempt(a)
    <3>1. Open(a) /\ lease' \subseteq lease
      BY <2>1 DEF SettleAttempt, SettlementDue, Open, Unresolved, InFlight
    <3>2. \A b \in Attempts \ {a} : attempt'[b] = attempt[b]
      BY <1>1, <2>1 DEF SettleAttempt
    <3> QED
      BY <3>1, <3>2 DEF Open
  <2>2. CASE StartRejected(a)
    <3>1. Open(a) /\ lease' \subseteq lease
      BY <2>2 DEF StartRejected, OwnershipInv
    <3>2. \A b \in Attempts \ {a} : attempt'[b] = attempt[b]
      BY <1>1, <2>2 DEF StartRejected
    <3> QED
      BY <3>1, <3>2 DEF Open
  <2>3. CASE AdmitAttempt(a)
    <3>1. Open(a) /\ lease' = lease
      BY <2>3 DEF AdmitAttempt, Open, Unresolved, InFlight
    <3>2. \A b \in Attempts \ {a} : attempt'[b] = attempt[b]
      BY <1>1, <2>3 DEF AdmitAttempt
    <3> QED
      BY <3>1, <3>2 DEF Open
  <2>4. CASE StartChild(a) \/ AdmissionLost(a) \/ SettleWithoutEffect(a) \/ ChildEnds(a)
    BY <1>2, <2>4 DEF StartChild, AdmissionLost, SettleWithoutEffect, ChildEnds
  <2> QED
    BY <1>5, <2>1, <2>2, <2>3, <2>4 DEF ExecutorStep, Settle, ObservedSettle
<1>6. CASE Control
  <2>1. ASSUME NEW t \in Tasks, StopTask(t)
        PROVE  lease' \subseteq lease /\ \A b \in Attempts : Open(b)' => Open(b)
    <3>1. Latest(t) \in Attempts
      BY <2>1, LatestTyped DEF StopTask
    <3>2. lease' = lease /\ \A b \in Attempts : attempt'[b].st = attempt[b].st
      BY <1>1, <2>1, <3>1 DEF StopTask, AttemptRecord
    <3> QED
      BY <3>2 DEF Open
  <2>2. CASE ~\E t \in Tasks : StopTask(t)
    <3>1. UNCHANGED attempt /\ lease' \subseteq lease
      BY <1>6, <2>2 DEF Control, Pause, Resume, Cancel, CancelDormant, RetryTask, RequeueTask,
                        UnchangedGraph
    <3> QED
      BY <1>2, <3>1
  <2> QED
    BY <2>1, <2>2
<1>7. CASE Recovery \/ Crash
  <2>1. ASSUME NEW a \in Attempts, NEW decision \in {"failed", "cancelled"}, Resolve(a, decision)
        PROVE  lease' \subseteq lease /\ \A b \in Attempts : Open(b)' => Open(b)
    <3>1. Open(a) /\ lease' \subseteq lease
      BY <2>1 DEF Resolve, Open, Unresolved
    <3>2. \A b \in Attempts \ {a} : attempt'[b] = attempt[b]
      BY <1>1, <2>1 DEF Resolve
    <3> QED
      BY <3>1, <3>2 DEF Open
  <2>2. CASE CommitReconcile
    <3>1. lease' = lease /\ \A b \in Attempts : scan.seen[b] = "none" => attempt'[b] = attempt[b]
      BY <2>2 DEF CommitReconcile
    <3> QED
      BY <3>1 DEF OwnershipInv, Open
  <2>3. CASE ConfirmOwned
    <3>1. lease' = lease /\ \A b \in Attempts : ~Open(b) => attempt'[b] = attempt[b]
      BY <2>3 DEF ConfirmOwned, UnresolvedAttempts, Open
    <3> QED
      BY <3>1 DEF Open
  <2>4. CASE \/ \E by \in {"startup", "user"} : Observe(by)
             \/ ClearOrphans \/ ClearFromJournal \/ ClearToRunning \/ CloseCancellation
             \/ RecoverDormant \/ Crash
    <3>1. UNCHANGED attempt /\ lease' \subseteq lease
      BY <2>4 DEF Observe, ClearOrphans, ClearFromJournal, ClearToRunning, CloseCancellation,
                  RecoverDormant, Crash, UnchangedGraph
    <3> QED
      BY <1>2, <3>1
  <2> QED
    BY <1>7, <2>1, <2>2, <2>3, <2>4 DEF Recovery
<1>8. CASE UNCHANGED vars
  BY <1>2, <1>8 DEF vars
<1> QED
  BY <1>3, <1>4, <1>5, <1>6, <1>7, <1>8 DEF Next
----
(* Tasks conflict the same way round. *)
LEMMA ConflictIsSymmetric ==
    ASSUME NEW t \in Tasks, NEW u \in Tasks, LeasesConflict(t, u)
    PROVE  LeasesConflict(u, t)
<1>1. <<t, u>> \in Overlap => <<u, t>> \in Overlap
  BY GraphAssumption
<1> QED
  BY <1>1 DEF LeasesConflict

(* How many eligible tasks a task collides with is a number. *)
LEMMA ConflictDegreeTyped ==
    ASSUME NEW t PROVE ConflictDegree(t) \in Nat
<1>1. IsFiniteSet(Tasks)
  BY GraphAssumption, FS_Interval DEF Tasks
<1>2. {u \in Eligible \ {t} : TasksConflict(t, u)} \subseteq Tasks
  BY DEF Eligible, Candidates
<1> QED
  BY <1>1, <1>2, FS_Subset, FS_CardinalityType DEF ConflictDegree

(* One batch has one authority mode and no collision, so its leases do not conflict. *)
LEMMA BatchIsFree ==
    ASSUME NEW batch \in SUBSET Eligible, IsBatch(batch),
           NEW t \in batch, NEW u \in batch, t # u
    PROVE  ~LeasesConflict(t, u)
<1>1. t \in Tasks /\ u \in Tasks /\ Tasks \subseteq Int
  BY DEF Eligible, Candidates, Tasks
<1>2. (t \in Writers) = (u \in Writers)
  <2>1. PICK m \in ModeLeaders : (m \in Writers) = (t \in Writers)
    BY DEF Eligible
  <2>2. PICK n \in ModeLeaders : (n \in Writers) = (u \in Writers)
    BY DEF Eligible
  <2>3. m <= n /\ n <= m /\ m \in Int /\ n \in Int
    BY <1>1 DEF ModeLeaders, Candidates, ActiveTasks
  <2>4. m = n
    BY <2>3
  <2> QED
    BY <2>1, <2>2, <2>4
<1>3. Precedes(t, u) \/ Precedes(u, t)
  <2>1. ConflictDegree(t) \in Nat /\ ConflictDegree(u) \in Nat
    BY ConflictDegreeTyped
  <2> QED
    BY <1>1, <2>1 DEF Precedes
<1>4. ~TasksConflict(t, u) /\ ~TasksConflict(u, t)
  <2>1. \A v, w \in batch : Precedes(w, v) => ~TasksConflict(v, w)
    BY DEF IsBatch
  <2>2. TasksConflict(t, u) <=> TasksConflict(u, t)
    BY <1>1, GraphAssumption DEF TasksConflict
  <2> QED
    BY <1>3, <2>1, <2>2
<1> QED
  BY <1>2, <1>4 DEF LeasesConflict, TasksConflict

(* No two leases in force conflict. *)
NoConflict == \A a \in lease : \A b \in lease : a # b => ~LeasesConflict(a[1], b[1])

(* Only a dispatch adds leases, and it adds what conflicts with nothing in force. *)
LEMMA NoConflictInductive ==
    ASSUME TypeInv, OwnershipInv, NoConflict, [Next]_vars
    PROVE  NoConflict'
<1>1. CASE ~Dispatch
  BY <1>1, OpenShrinks DEF NoConflict, LeasesConflict
<1>2. CASE Dispatch
  <2>1. PICK batch \in SUBSET Eligible :
            /\ IsBatch(batch) /\ LeasesFree(batch)
            /\ {<<t, made[t] + 1>> : t \in batch} \subseteq Attempts
            /\ lease' = lease \union {<<t, made[t] + 1>> : t \in batch}
    BY <1>2 DEF Dispatch
  <2>2. \A a \in lease' : a \in lease \/ \E t \in batch : a = <<t, made[t] + 1>>
    BY <2>1
  <2>3. \A a \in lease' : a[1] \in Tasks
    BY <2>1, AttemptParts DEF TypeInv, TypeOK, ProjectionTypeOK
  <2>4. ASSUME NEW a \in lease', NEW b \in lease', a # b PROVE ~LeasesConflict(a[1], b[1])
    <3>1. CASE a \in lease /\ b \in lease
      BY <2>4, <3>1 DEF NoConflict
    <3>2. CASE a \notin lease /\ b \in lease
      BY <2>1, <2>2, <3>2 DEF LeasesFree
    <3>3. CASE a \in lease /\ b \notin lease
      BY <2>1, <2>2, <2>3, <3>3, ConflictIsSymmetric DEF LeasesFree
    <3>4. CASE a \notin lease /\ b \notin lease
      <4>1. PICK t \in batch, u \in batch : a = <<t, made[t] + 1>> /\ b = <<u, made[u] + 1>>
        BY <2>2, <3>4
      <4>2. t # u
        BY <2>4, <4>1
      <4> QED
        BY <2>1, <4>1, <4>2, BatchIsFree
    <3> QED
      BY <3>1, <3>2, <3>3, <3>4
  <2> QED
    BY <2>4 DEF NoConflict, LeasesConflict
<1> QED
  BY <1>1, <1>2

(* Two leases in force never conflict, whatever the graph, its writers and their scopes, and
   each belongs to the current attempt of work that is open. *)
THEOREM LeasesExclude == Spec => []LeasesAreExclusive
<1>1. Init => NoConflict
  BY DEF Init, ProjectionInit, NoConflict
<1>2. TypeInv /\ OwnershipInv /\ NoConflict /\ [Next]_vars => NoConflict'
  BY NoConflictInductive
<1>3. OwnershipInv /\ NoConflict => LeasesAreExclusive
  BY DEF OwnershipInv, NoConflict, LeasesAreExclusive, Working
<1> QED
  BY <1>1, <1>2, <1>3, TypeInvariant, OwnershipInvariant, PTL DEF Spec
----
(* A Team that rests has nothing that works *)

(* No status of a Team rests while something works; the verifier judges nothing meanwhile. *)
QuietInv == PassIsQuiet /\ (team \in Quiet => \A a \in Attempts : ~Open(a))

(* The closing steps rest a Team only when nothing is in flight. *)
LEMMA ClosingIsQuiet ==
    ASSUME NEW tm \in TeamStatus \ Quiet, NEW tk, NEW at, NEW vf, NEW ls
    PROVE  /\ AfterSettlement(tm, tk, at, vf, ls) \in Quiet => ~HasActiveAttempts(at, vf)
           /\ AfterVerdict(tm, at, vf, ls) \in Quiet => ~HasActiveAttempts(at, vf)
BY DEF AfterSettlement, AfterVerdict, Quiet

(* A running Team comes to rest on its own only when nothing is in flight. *)
LEMMA SettledIsQuiet ==
    ASSUME team \in TeamStatus \ Quiet, SettledQuiescent \in Quiet
    PROVE  ~HasActiveAttempts(attempt, verif)
<1>1. team = "running"
  BY DEF SettledQuiescent
<1>2. TeamCompletionReady(task, attempt, verif, lease) => ~HasActiveAttempts(attempt, verif)
  BY DEF TeamCompletionReady, HasUnresolvedFacts, HasActiveAttempts, Unresolved
<1> QED
  BY <1>1, <1>2 DEF SettledQuiescent, RetryableGraph, Quiet, TerminalTeam

(* Facts that are all accounted for are no work in flight. *)
LEMMA AccountedIsQuiet ==
    ASSUME NEW ls, ~HasUnresolvedFacts(task, attempt, verif, ls)
    PROVE  ~HasActiveAttempts(attempt, verif)
BY DEF HasUnresolvedFacts, HasActiveAttempts, Unresolved

(* Nothing in flight and no gate: nothing is open. *)
LEMMA NothingOpen ==
    ASSUME UnknownIsGated', team' \in Quiet, ~HasActiveAttempts(attempt', verif')
    PROVE  \A a \in Attempts : ~Open(a)'
BY DEF UnknownIsGated, Quiet, TerminalTeam, HasActiveAttempts, Open, Unresolved

(* A step that rests the Team leaves nothing in flight. *)
LEMMA RestsQuietly ==
    ASSUME TypeInv, OwnershipInv, QuietInv, [Next]_vars, team \notin Quiet, team' \in Quiet
    PROVE  ~HasActiveAttempts(attempt', verif') \/ \A a \in Attempts : ~Open(a)'
<1> USE DEF durable, volatile
<1>1. team \in TeamStatus \ Quiet /\ team # team'
  BY DEF TypeInv, TypeOK, ProjectionTypeOK
<1>2. CASE RunnerStep \/ RunnerFails \/ WakeRunner \/ CancelReturns
  <2>1. UNCHANGED <<attempt, verif>>
    BY <1>1, <1>2 DEF RunnerStep, RunnerFails, PersistSchedule, Dispatch, DispatchRefused, StartPass,
                CompleteTeam, NoProgress, RunnerStops, MarkRunnerFailure, WakeRunner,
                CancelReturns, UnchangedGraph
  <2>2. CompleteTeam \/ WakeRunner
    BY <1>1, <1>2 DEF RunnerStep, RunnerFails, PersistSchedule, Dispatch, DispatchRefused, StartPass,
                NoProgress, RunnerStops, MarkRunnerFailure, CancelReturns, Restate, Quiet, TerminalTeam
  <2>3. ~HasActiveAttempts(attempt, verif)
    BY <1>1, <2>2, AccountedIsQuiet, SettledIsQuiet
       DEF CompleteTeam, WakeRunner, Restate, TeamCompletionReady
  <2> QED
    BY <2>1, <2>3 DEF HasActiveAttempts
<1>3. ASSUME NEW a \in Attempts, VerifyStep(a)
      PROVE  ~HasActiveAttempts(attempt', verif') \/ \A b \in Attempts : ~Open(b)'
  <2>1. RecordVerdict(a)
    BY <1>1, <1>3 DEF VerifyStep, BeginVerification, VerifyRefused, AutoRetry, RequeueTask,
                      AutoRetryRefused
  <2>2. \A b \in Attempts : ~Open(b)
    BY <2>1 DEF RecordVerdict, IsTarget, QuietInv, PassIsQuiet
  <2>3. ~Dispatch
    BY <1>1 DEF Dispatch
  <2> QED
    BY <2>2, <2>3, OpenShrinks
<1>4. ASSUME NEW a \in Attempts, ExecutorStep(a) \/ ChildEnds(a) \/ ObservedSettle(a)
      PROVE  ~HasActiveAttempts(attempt', verif')
  <2>1. Restate(AfterSettlement(team, task', attempt', verif, lease')) /\ verif' = verif
    BY <1>1, <1>4 DEF ExecutorStep, StartChild, StartRejected, AdmitAttempt, AdmissionLost, Settle,
                      SettleWithoutEffect, ChildEnds, ObservedSettle, SettleAttempt
  <2> QED
    BY <1>1, <2>1, ClosingIsQuiet DEF Restate
<1>5. CASE Control
  <2>1. UNCHANGED <<attempt, verif>>
    BY <1>1, <1>5 DEF Control, Pause, Resume, Cancel, CancelDormant, StopTask, RetryTask,
                      RequeueTask, UnchangedGraph
  <2>2. CASE Pause \/ Resume
    BY <1>1, <2>1, <2>2, AccountedIsQuiet
       DEF Pause, Resume, Restate, Quiet, TerminalTeam, TeamCompletionReady, HasActiveAttempts
  <2>3. CASE Cancel \/ CancelDormant
    <3>1. \/ ~HasActiveAttempts(attempt, verif)
          \/ ~HasUnresolvedFacts(task, attempt, verif, lease)
      BY <1>1, <2>3 DEF Cancel, CancelDormant, CancelGraph, Restate, Quiet, TerminalTeam
    <3> QED
      BY <2>1, <3>1, AccountedIsQuiet DEF HasActiveAttempts
  <2>4. CASE \E t \in Tasks : StopTask(t) \/ RetryTask(t)
    BY <1>1, <2>4 DEF StopTask, RetryTask, RequeueTask
  <2> QED
    BY <1>5, <2>2, <2>3, <2>4 DEF Control
<1>6. CASE Recovery \/ Crash
  <2>1. ASSUME NEW a \in Attempts, NEW decision \in {"failed", "cancelled"}, Resolve(a, decision)
        PROVE  \A b \in Attempts : ~Open(b)'
    BY <1>1, <2>1 DEF Resolve, Restate, Open
  <2>2. CASE \/ ClearOrphans \/ ClearFromJournal \/ ClearToRunning \/ CloseCancellation
             \/ RecoverDormant
    <3>1. UNCHANGED <<attempt, verif>>
      BY <2>2 DEF ClearOrphans, ClearFromJournal, ClearToRunning, CloseCancellation,
                  RecoverDormant, UnchangedGraph
    <3>2. ~HasActiveAttempts(attempt, verif)
      BY <2>2, AccountedIsQuiet
         DEF ClearOrphans, ClearFromJournal, ClearToRunning, CloseCancellation, RecoverDormant
    <3> QED
      BY <3>1, <3>2 DEF HasActiveAttempts
  <2>3. CASE \/ \E by \in {"startup", "user"} : Observe(by)
             \/ CommitReconcile \/ ConfirmOwned \/ Crash
    BY <1>1, <2>3 DEF Observe, CommitReconcile, ConfirmOwned, Crash, Restate, Quiet, TerminalTeam
  <2> QED
    BY <1>6, <2>1, <2>2, <2>3 DEF Recovery
<1>7. CASE UNCHANGED vars
  BY <1>1, <1>7 DEF vars
<1> QED
  BY <1>2, <1>3, <1>4, <1>5, <1>6, <1>7 DEF Next

(* A verify call begins when nothing works, and ends before anything is dispatched. *)
LEMMA PassStaysQuiet ==
    ASSUME TypeInv, OwnershipInv, QuietInv, [Next]_vars
    PROVE  PassIsQuiet'
<1> USE DEF durable, volatile
<1>1. CASE Dispatch
  BY <1>1 DEF Dispatch, MayAct, AtLoopHead, PassIsQuiet
<1>2. CASE ~Dispatch /\ StartPass
  <2>1. \A a \in Attempts : ~Open(a)
    <3> SUFFICES ASSUME NEW a \in Attempts, Open(a) PROVE FALSE
      OBVIOUS
    <3>1. attempt[a].st # "unknown"
      BY <1>2 DEF StartPass, MayAct, UnsafeGraph, ReconciliationGap
    <3>2. a[1] \in Tasks /\ a[2] \in Ordinals /\ a = <<a[1], a[2]>>
      BY AttemptParts
    <3>3. a[1] \in ActiveTasks
      BY <3>1, <3>2 DEF Open, Unresolved, ActiveTasks
    <3> QED
      BY <1>2, <3>3 DEF StartPass
  <2> QED
    BY <1>2, <2>1, OpenShrinks DEF PassIsQuiet
<1>3. CASE ~Dispatch /\ ~StartPass
  <2>1. pass' \subseteq pass
    <3>1. ASSUME NEW a \in Attempts, VerifyStep(a) PROVE pass' \subseteq pass
      BY <3>1 DEF VerifyStep, BeginVerification, RecordVerdict, VerdictPassed,
                  VerdictInconclusive, VerdictRetry, VerdictExhausted, VerdictStop,
                  VerifyRefused, AutoRetry, AutoRetryRefused, FailPass
    <3>2. ASSUME NEW a \in Attempts, ExecutorStep(a) \/ ChildEnds(a) \/ ObservedSettle(a)
          PROVE  pass' \subseteq pass
      BY <3>2 DEF ExecutorStep, StartChild, StartRejected, AdmitAttempt, AdmissionLost, Settle,
                  SettleWithoutEffect, ChildEnds, ObservedSettle, SettleAttempt
    <3>3. CASE RunnerStep \/ RunnerFails \/ WakeRunner \/ CancelReturns
      BY <1>3, <3>3 DEF RunnerStep, RunnerFails, PersistSchedule, DispatchRefused, CompleteTeam,
                        NoProgress, RunnerStops, MarkRunnerFailure, WakeRunner, CancelReturns, FailPass
    <3>4. CASE Control
      BY <3>4 DEF Control, Pause, Resume, Cancel, CancelDormant, StopTask, RetryTask
    <3>5. CASE Recovery \/ Crash
      BY <3>5 DEF Recovery, Observe, CommitReconcile, Resolve, ClearOrphans, ClearFromJournal,
                  ClearToRunning, CloseCancellation, ConfirmOwned, RecoverDormant, Crash
    <3>6. CASE UNCHANGED vars
      BY <3>6 DEF vars
    <3> QED
      BY <3>1, <3>2, <3>3, <3>4, <3>5, <3>6 DEF Next
  <2> QED
    BY <1>3, <2>1, OpenShrinks DEF QuietInv, PassIsQuiet
<1> QED
  BY <1>1, <1>2, <1>3

(* Verify calls and Teams at rest have nothing open. *)
THEOREM QuietInvariant == Spec => []QuietInv
<1>1. Init => QuietInv
  BY DEF Init, ProjectionInit, QuietInv, PassIsQuiet, Quiet, TerminalTeam
<1>2. /\ TypeInv /\ OwnershipInv /\ UnknownIsGated' /\ QuietInv
      /\ [Next]_vars
      => QuietInv'
  <2> SUFFICES ASSUME TypeInv, OwnershipInv, UnknownIsGated', QuietInv, [Next]_vars,
                      team' \in Quiet
               PROVE  \A a \in Attempts : ~Open(a)'
    BY PassStaysQuiet DEF QuietInv
  <2>1. CASE team \in Quiet
    <3>1. ~Dispatch
      BY <2>1 DEF Dispatch, MayAct, Quiet, TerminalTeam
    <3> QED
      BY <2>1, <3>1, OpenShrinks DEF QuietInv
  <2>2. CASE team \notin Quiet
    BY <2>2, RestsQuietly, NothingOpen
  <2> QED
    BY <2>1, <2>2
<1> QED
  BY <1>1, <1>2, TypeInvariant, OwnershipInvariant, UnknownStaysGated, PTL DEF Spec

(* A paused or terminal Team has no attempt that may still settle and no living child, by
   whichever of its controls, verdicts, settlements and recoveries it came to rest. *)
THEOREM RestingTeamIsQuiet == Spec => []QuietTeamIsQuiet
<1>1. OwnershipInv /\ QuietInv => QuietTeamIsQuiet
  BY DEF OwnershipInv, QuietInv, QuietTeamIsQuiet, Open
<1> QED
  BY <1>1, QuietInvariant, OwnershipInvariant, PTL
----
(* Work follows its dependencies *)

Started == {"running", "verifying", "completed"}

(* What happens to the tasks in one step: what completed stays completed, and what starts has
   its dependencies behind it. *)
TasksMove ==
    \A t \in Tasks : /\ task[t] = "completed" => task'[t] = "completed"
                     /\ task'[t] \in Started /\ task[t] \notin Started => DependenciesCompleted(t)

(* A step of one task that does not start it moves the graph as it may. *)
LEMMA OneTaskMoves ==
    ASSUME TypeInv, NEW t \in Tasks, NEW to, task' = [task EXCEPT ![t] = to],
           task[t] # "completed", to \in Started => task[t] \in Started
    PROVE  TasksMove
BY DEF TasksMove, TypeInv, TypeOK, ProjectionTypeOK

(* A cancellation closes tasks and starts none. *)
LEMMA CancelMovesTasks ==
    ASSUME TypeInv, \/ UNCHANGED task
                    \/ task' = CancelSchedulable(task)
                    \/ task' = CancelUnfinished(task)
    PROVE  TasksMove
BY DEF TasksMove, CancelSchedulable, CancelUnfinished, Schedulable, TerminalTask, Started

(* Every step moves the tasks as they may move. *)
LEMMA StepsMoveTasks ==
    ASSUME TypeInv, [Next]_vars
    PROVE  TasksMove
<1> USE DEF durable
<1>1. CASE Dispatch
  BY <1>1 DEF Dispatch, Eligible, Candidates, TasksMove, Started
<1>2. CASE PersistSchedule
  BY <1>2 DEF PersistSchedule, NewlyBlocked, Unblocked, TasksMove, Started
<1>3. CASE UNCHANGED task
  BY <1>3, CancelMovesTasks
<1>4. CASE RunnerStep \/ RunnerFails \/ WakeRunner \/ CancelReturns
  <2>1. Dispatch \/ PersistSchedule \/ UNCHANGED task
    BY <1>4 DEF RunnerStep, RunnerFails, DispatchRefused, StartPass, CompleteTeam, NoProgress,
                RunnerStops, MarkRunnerFailure, WakeRunner, CancelReturns, UnchangedGraph
  <2> QED
    BY <1>1, <1>2, <1>3, <2>1
<1>5. ASSUME NEW t \in Tasks, RequeueTask(t), RetryAllowed(t) PROVE TasksMove
  BY <1>5, OneTaskMoves DEF RequeueTask, RetryAllowed, Started
<1>6. ASSUME NEW a \in Attempts, VerifyStep(a) PROVE TasksMove
  <2>1. a[1] \in Tasks
    BY AttemptParts
  <2>2. CASE RecordVerdict(a)
    <3>1. task[a[1]] = "verifying"
      BY <2>2 DEF RecordVerdict, VerdictAllowed
    <3>2. UNCHANGED task \/ \E to : task' = [task EXCEPT ![a[1]] = to]
      BY <2>2 DEF RecordVerdict, VerdictPassed, VerdictInconclusive, VerdictRetry,
                  VerdictExhausted, VerdictStop, JudgeTask
    <3> QED
      BY <1>3, <2>1, <3>1, <3>2, OneTaskMoves DEF Started
  <2>3. CASE AutoRetry(a)
    BY <1>5, <2>1, <2>3 DEF AutoRetry, AutoRetryAllowed
  <2>4. CASE BeginVerification(a) \/ VerifyRefused(a) \/ AutoRetryRefused(a)
    BY <1>3, <2>4 DEF BeginVerification, VerifyRefused, AutoRetryRefused
  <2> QED
    BY <1>6, <2>2, <2>3, <2>4 DEF VerifyStep
<1>7. ASSUME NEW a \in Attempts, ExecutorStep(a) \/ ChildEnds(a) \/ ObservedSettle(a)
      PROVE  TasksMove
  <2>1. a[1] \in Tasks
    BY AttemptParts
  <2>2. \/ UNCHANGED task
        \/ task[a[1]] = "running" /\ \E to : task' = [task EXCEPT ![a[1]] = to]
    BY <1>7 DEF ExecutorStep, StartChild, StartRejected, AdmitAttempt, AdmissionLost, Settle,
                SettleWithoutEffect, ChildEnds, ObservedSettle, SettleAttempt, SettlementDue
  <2> QED
    BY <1>3, <2>1, <2>2, OneTaskMoves DEF Started
<1>8. CASE Control
  <2>1. ASSUME NEW t \in Tasks, RetryTask(t) PROVE TasksMove
    BY <1>5, <2>1 DEF RetryTask
  <2>2. CASE ~\E t \in Tasks : RetryTask(t)
    <3>1. \/ UNCHANGED task
          \/ task' = CancelSchedulable(task)
          \/ task' = CancelUnfinished(task)
      BY <1>8, <2>2 DEF Control, Pause, Resume, Cancel, CancelDormant, CancelGraph, StopTask,
                        UnchangedGraph
    <3> QED
      BY <3>1, CancelMovesTasks
  <2> QED
    BY <2>1, <2>2
<1>9. ASSUME NEW a \in Attempts, NEW decision \in {"failed", "cancelled"}, Resolve(a, decision)
      PROVE  TasksMove
  <2> DEFINE closed == [task EXCEPT ![a[1]] = decision]
  <2>1. a[1] \in Tasks /\ task[a[1]] = "running"
    BY <1>9, AttemptParts DEF Resolve
  <2>2. CASE task' = closed
    BY <2>1, <2>2, OneTaskMoves DEF Started
  <2>3. CASE task' = CancelUnfinished(closed)
    <3>1. task \in [Tasks -> TaskStatus]
      BY DEF TypeInv, TypeOK, ProjectionTypeOK
    <3> QED
      BY <2>1, <2>3, <3>1 DEF CancelUnfinished, TerminalTask, TasksMove, Started
  <2> QED
    BY <1>9, <2>2, <2>3 DEF Resolve
<1>10. CASE Recovery \/ Crash
  <2>1. CASE CloseCancellation
    BY <2>1, CancelMovesTasks DEF CloseCancellation
  <2>2. CASE \/ \E by \in {"startup", "user"} : Observe(by)
             \/ CommitReconcile \/ ClearOrphans \/ ClearFromJournal \/ ClearToRunning
             \/ ConfirmOwned \/ RecoverDormant \/ Crash
    BY <1>3, <2>2 DEF Observe, CommitReconcile, ClearOrphans, ClearFromJournal, ClearToRunning,
                      ConfirmOwned, RecoverDormant, Crash, UnchangedGraph
  <2> QED
    BY <1>9, <1>10, <2>1, <2>2 DEF Recovery
<1>11. CASE UNCHANGED vars
  BY <1>3, <1>11 DEF vars
<1> QED
  BY <1>4, <1>6, <1>7, <1>8, <1>10, <1>11 DEF Next

(* A task that started has every dependency completed, and none is ever reopened: not by a
   retry, a cancel, a resolution or a recovery. *)
THEOREM WorkHasItsDependencies == Spec => []WorkFollowsDependencies
<1>1. Init => WorkFollowsDependencies
  BY DEF Init, ProjectionInit, WorkFollowsDependencies
<1>2. TypeInv /\ WorkFollowsDependencies /\ [Next]_vars => WorkFollowsDependencies'
  <2> SUFFICES ASSUME TypeInv, WorkFollowsDependencies, [Next]_vars,
                      NEW t \in Tasks, task'[t] \in Started, NEW d \in Deps[t]
               PROVE  task'[d] = "completed"
    BY DEF WorkFollowsDependencies, Started
  <2>1. TasksMove /\ d \in Tasks
    BY StepsMoveTasks, GraphAssumption
  <2>2. task[d] = "completed"
    BY <2>1 DEF TasksMove, WorkFollowsDependencies, Started, DependenciesCompleted
  <2> QED
    BY <2>1, <2>2 DEF TasksMove
<1> QED
  BY <1>1, <1>2, TypeInvariant, PTL DEF Spec
=============================================================================
