---- MODULE TeamPromisesProofs ----
(***************************************************************************)
(* What a Team promises its user: what is called completed was earned, the *)
(* Team as a whole implements the lifecycle its status shows, what its     *)
(* journal has recorded stays, and the running graph the planner meets is  *)
(* consistent: its batch takes no slot, no token and no file away from what *)
(* runs.                                                                   *)
(***************************************************************************)
EXTENDS TeamExecutionProofs, WellFoundedInduction

(* A verifying task waits for the check of a worker that reported it done; a completed one
   has that report and, if its contract declares checks, the passed check. *)
Reported(t) == made[t] > 0 /\ attempt[Latest(t)].ev = "done"

TaskIsEarned(t) ==
    /\ task[t] = "verifying" => Reported(t)
    /\ task[t] = "completed" => /\ Reported(t) /\ attempt[Latest(t)].st = "completed"
                                /\ t \in Checked => verif[Latest(t)] = "passed"

TeamIsEarned ==
    team = "completed" => /\ \A t \in Tasks : task[t] = "completed"
                          /\ ~HasUnresolvedFacts(task, attempt, verif, lease)

CompletionInv == (\A t \in Tasks : TaskIsEarned(t)) /\ TeamIsEarned

(* A task nobody touches stays as it was earned. *)
LEMMA EarnedFramed ==
    ASSUME NEW t \in Tasks, TaskIsEarned(t),
           task'[t] \in {"verifying", "completed"} =>
               /\ task'[t] = task[t] /\ made'[t] = made[t]
               /\ attempt'[Latest(t)] = attempt[Latest(t)]
               /\ task[t] = "completed" => verif'[Latest(t)] = verif[Latest(t)]
    PROVE  TaskIsEarned(t)'
BY DEF TaskIsEarned, Reported, Latest

(* No task but the one at hand is touched by a step of one attempt. *)
LEMMA OtherTasksFramed ==
    ASSUME TypeInv, NEW a \in Attempts, NEW t \in Tasks \ {a[1]},
           \A u \in Tasks : TaskIsEarned(u),
           UNCHANGED made,
           \A u \in Tasks \ {a[1]} : task'[u] = task[u],
           \A b \in Attempts \ {a} : attempt'[b] = attempt[b] /\ verif'[b] = verif[b]
    PROVE  TaskIsEarned(t)'
<1>1. CASE task'[t] \in {"verifying", "completed"}
  <2>1. Latest(t) \in Attempts /\ Latest(t) # a
    BY <1>1, LatestTyped, AttemptParts DEF TaskIsEarned, Reported, Latest
  <2> QED
    BY <2>1, EarnedFramed
<1>2. CASE task'[t] \notin {"verifying", "completed"}
  BY <1>2 DEF TaskIsEarned
<1> QED
  BY <1>1, <1>2

(* Nothing about finished work changes without a verdict: attempts that changed were open. *)
LEMMA EarnedStands ==
    ASSUME TypeInv, OwnershipInv, \A t \in Tasks : TaskIsEarned(t),
           \A t \in Tasks : task'[t] \in {"verifying", "completed"} =>
                                task'[t] = task[t] /\ made'[t] = made[t],
           \A a \in Attempts : Open(a) \/ attempt'[a] = attempt[a],
           \A t \in Tasks : task[t] = "completed" => verif'[Latest(t)] = verif[Latest(t)]
    PROVE  \A t \in Tasks : TaskIsEarned(t)'
<1> TAKE t \in Tasks
<1>1. CASE task'[t] \in {"verifying", "completed"}
  <2>1. task'[t] = task[t] /\ made'[t] = made[t] /\ made[t] > 0
    BY <1>1 DEF TaskIsEarned, Reported
  <2>2. Latest(t) \in Attempts
    BY <2>1, LatestTyped
  <2>3. ~Open(Latest(t))
    BY <1>1, <2>1, <2>2 DEF OwnershipInv, Latest
  <2> QED
    BY <1>1, <2>1, <2>2, <2>3, EarnedFramed
<1>2. CASE task'[t] \notin {"verifying", "completed"}
  BY <1>2 DEF TaskIsEarned
<1> QED
  BY <1>1, <1>2

(* A verdict completes only what was reported, and records the check it passed. *)
LEMMA EarnedByVerdict ==
    ASSUME TypeInv, OwnershipInv, \A t \in Tasks : TaskIsEarned(t),
           NEW a \in Attempts, RecordVerdict(a)
    PROVE  \A t \in Tasks : TaskIsEarned(t)'
<1> TAKE t \in Tasks
<1>1. /\ attempt \in [Attempts -> AttemptRecord] /\ task \in [Tasks -> TaskStatus]
      /\ verif \in [Attempts -> VerifStatus] /\ a[1] \in Tasks
  BY AttemptParts DEF TypeInv, TypeOK, ProjectionTypeOK
<1>2. task[a[1]] = "verifying" /\ IsLatest(a) /\ UNCHANGED made
  BY DEF RecordVerdict, VerdictAllowed
<1>3. a = Latest(a[1])
  BY <1>2, AttemptParts DEF IsLatest, Latest
<1>4. /\ \A u \in Tasks \ {a[1]} : task'[u] = task[u]
      /\ \A b \in Attempts \ {a} : attempt'[b] = attempt[b] /\ verif'[b] = verif[b]
      /\ attempt'[a].ev = attempt[a].ev
      /\ \/ task'[a[1]] = task[a[1]]
         \/ task'[a[1]] \in {"blocked", "failed"}
         \/ task'[a[1]] = "completed" /\ attempt'[a].st = "completed" /\ verif'[a] = "passed"
  BY <1>1 DEF RecordVerdict, VerdictPassed, VerdictInconclusive, VerdictRetry, VerdictExhausted,
              VerdictStop, JudgeTask, AttemptRecord
<1>5. CASE t # a[1]
  BY <1>2, <1>4, <1>5, OtherTasksFramed
<1>6. CASE t = a[1]
  <2>1. Reported(t)
    BY <1>2, <1>6 DEF TaskIsEarned
  <2>2. Reported(t)'
    BY <1>2, <1>3, <1>4, <1>6, <2>1 DEF Reported, Latest
  <2> QED
    BY <1>2, <1>3, <1>4, <1>6, <2>2 DEF TaskIsEarned, Latest
<1> QED
  BY <1>5, <1>6

(* A settlement takes the worker's report for it, and leaves a declared check to come. *)
LEMMA EarnedBySettlement ==
    ASSUME TypeInv, OwnershipInv, \A t \in Tasks : TaskIsEarned(t),
           NEW a \in Attempts, SettleAttempt(a)
    PROVE  \A t \in Tasks : TaskIsEarned(t)'
<1> TAKE t \in Tasks
<1>1. /\ attempt \in [Attempts -> AttemptRecord] /\ task \in [Tasks -> TaskStatus]
      /\ a[1] \in Tasks /\ made[a[1]] \in 0..MaxOrdinal /\ a[2] \in Ordinals
      /\ child \in [Attempts -> {"none", "live", "halted", "lost"} \union ChildEndings]
  BY AttemptParts DEF TypeInv, TypeOK, ProjectionTypeOK, ExecutionTypeOK
<1> DEFINE asked == cancelAsked \/ attempt[a].stop
<1>2. /\ attempt' = [attempt EXCEPT ![a].st = SettledAttempt(a, asked), ![a].ev = child[a]]
      /\ task' = [task EXCEPT ![a[1]] = SettledTask(a, asked)]
      /\ UNCHANGED <<made, verif>> /\ Open(a) /\ child[a] \in ChildEndings
  BY DEF SettleAttempt, SettlementDue, Ended, Open, Unresolved, InFlight
<1>3. IsLatest(a) /\ a = Latest(a[1])
  BY <1>2, AttemptParts DEF OwnershipInv, IsLatest, Latest
<1>4. made[a[1]] > 0
  BY <1>1, <1>3, GraphAssumption DEF IsLatest, Ordinals
<1>5. CASE t # a[1]
  BY <1>1, <1>2, <1>5, OtherTasksFramed
<1>6. CASE t = a[1]
  <2>1. SettledTask(a, asked) \in {"verifying", "completed"} => child[a] = "done"
    BY <1>2 DEF SettledTask, ChildEndings
  <2>2. SettledTask(a, asked) = "completed" =>
            a[1] \notin Checked /\ SettledAttempt(a, asked) = "completed"
    BY <1>2 DEF SettledTask, SettledAttempt, ChildEndings
  <2>3. attempt'[a].st = SettledAttempt(a, asked) /\ attempt'[a].ev = child[a]
    BY <1>1, <1>2 DEF AttemptRecord
  <2>4. task'[t] = SettledTask(a, asked) /\ made'[t] = made[t] /\ a = Latest(t) /\ a = Latest(t)'
    BY <1>1, <1>2, <1>3, <1>6 DEF Latest
  <2> HIDE DEF asked
  <2> QED
    BY <1>4, <1>6, <2>1, <2>2, <2>3, <2>4 DEF TaskIsEarned, Reported
<1> QED
  BY <1>5, <1>6

(* Every step keeps what was earned. *)
LEMMA TasksStayEarned ==
    ASSUME TypeInv, OwnershipInv, \A t \in Tasks : TaskIsEarned(t), [Next]_vars
    PROVE  \A t \in Tasks : TaskIsEarned(t)'
<1> USE DEF durable, volatile
<1>1. attempt \in [Attempts -> AttemptRecord] /\ task \in [Tasks -> TaskStatus]
  BY DEF TypeInv, TypeOK, ProjectionTypeOK
<1>2. ASSUME UNCHANGED <<made, verif, attempt>>,
             \A t \in Tasks : task'[t] \in {"verifying", "completed"} => task'[t] = task[t]
      PROVE  \A t \in Tasks : TaskIsEarned(t)'
  BY <1>2, EarnedStands
<1>3. CASE Dispatch
  <2>1. PICK batch \in SUBSET Eligible :
            LET fresh == {<<t, made[t] + 1>> : t \in batch}
            IN  /\ fresh \subseteq Attempts
                /\ task' = [t \in Tasks |-> IF t \in batch THEN "running" ELSE task[t]]
                /\ made' = [t \in Tasks |-> IF t \in batch THEN made[t] + 1 ELSE made[t]]
                /\ attempt' = [a \in Attempts |-> IF a \in fresh
                                                  THEN [FreshAttempt EXCEPT !.st = "dispatching"]
                                                  ELSE attempt[a]]
    BY <1>3 DEF Dispatch
  <2>2. verif' = verif
    BY <1>3 DEF Dispatch
  <2> TAKE t \in Tasks
  <2>3. CASE t \in batch
    BY <2>1, <2>3 DEF TaskIsEarned
  <2>4. CASE t \notin batch
    <3>1. task'[t] = task[t] /\ made'[t] = made[t]
      BY <2>1, <2>4
    <3>2. made[t] > 0 => attempt'[Latest(t)] = attempt[Latest(t)]
      BY <2>1, <2>4, LatestTyped DEF Latest
    <3> QED
      BY <2>2, <3>1, <3>2, EarnedFramed DEF TaskIsEarned, Reported
  <2> QED
    BY <2>3, <2>4
<1>4. CASE RunnerStep \/ RunnerFails \/ WakeRunner \/ CancelReturns
  <2>1. CASE PersistSchedule
    BY <1>2, <2>1 DEF PersistSchedule
  <2>2. CASE ~Dispatch /\ ~PersistSchedule
    <3>1. UNCHANGED <<task, made, verif, attempt>>
      BY <1>4, <2>2 DEF RunnerStep, RunnerFails, DispatchRefused, StartPass, CompleteTeam, NoProgress,
                  RunnerStops, MarkRunnerFailure, WakeRunner, CancelReturns, UnchangedGraph
    <3> QED
      BY <1>2, <3>1
  <2> QED
    BY <1>3, <2>1, <2>2
<1>5. ASSUME NEW t \in Tasks, RequeueTask(t) PROVE \A u \in Tasks : TaskIsEarned(u)'
  <2>1. UNCHANGED <<made, verif, attempt>> /\ task' = [task EXCEPT ![t] = "ready"]
    BY <1>5 DEF RequeueTask
  <2>2. \A u \in Tasks : task'[u] \in {"verifying", "completed"} => task'[u] = task[u]
    BY <1>1, <2>1
  <2> QED
    BY <1>2, <2>1, <2>2
<1>6. ASSUME NEW a \in Attempts, VerifyStep(a) PROVE \A t \in Tasks : TaskIsEarned(t)'
  <2>1. CASE RecordVerdict(a)
    BY <2>1, EarnedByVerdict
  <2>2. CASE BeginVerification(a)
    <3>1. /\ UNCHANGED <<task, made, attempt>> /\ verif' = [verif EXCEPT ![a] = "running"]
          /\ task[a[1]] = "verifying"
      BY <2>2 DEF BeginVerification, BeginAllowed
    <3>2. \A t \in Tasks : task[t] = "completed" => verif'[Latest(t)] = verif[Latest(t)]
      BY <3>1 DEF Latest, TypeInv, TypeOK, ProjectionTypeOK
    <3> QED
      BY <3>1, <3>2, EarnedStands
  <2>3. CASE AutoRetry(a)
    BY <1>5, <2>3, AttemptParts DEF AutoRetry
  <2>4. CASE VerifyRefused(a) \/ AutoRetryRefused(a)
    BY <1>2, <2>4 DEF VerifyRefused, AutoRetryRefused
  <2> QED
    BY <1>6, <2>1, <2>2, <2>3, <2>4 DEF VerifyStep
<1>7. ASSUME NEW a \in Attempts, ExecutorStep(a) \/ ChildEnds(a) \/ ObservedSettle(a)
      PROVE  \A t \in Tasks : TaskIsEarned(t)'
  <2>1. CASE SettleAttempt(a)
    BY <2>1, EarnedBySettlement
  <2>2. CASE StartRejected(a)
    <3>1. /\ UNCHANGED <<made, verif>> /\ exec[a] = "launching"
          /\ \/ UNCHANGED <<task, attempt>>
             \/ \E outcome \in {"cancelled", "failed"} :
                  /\ attempt' = [attempt EXCEPT ![a].st = outcome]
                  /\ task' = [task EXCEPT ![a[1]] = outcome]
      BY <2>2 DEF StartRejected
    <3>2. Open(a) /\ \A b \in Attempts \ {a} : attempt'[b] = attempt[b]
      BY <1>1, <3>1 DEF OwnershipInv
    <3>3. \A t \in Tasks : task'[t] \in {"verifying", "completed"} => task'[t] = task[t]
      BY <1>1, <3>1
    <3> QED
      BY <3>1, <3>2, <3>3, EarnedStands
  <2>3. CASE AdmitAttempt(a)
    <3>1. /\ UNCHANGED <<task, made, verif>> /\ Open(a)
          /\ attempt' = [attempt EXCEPT ![a].st = "running", ![a].bind = "admitted"]
      BY <2>3 DEF AdmitAttempt, Open, Unresolved, InFlight
    <3>2. \A b \in Attempts \ {a} : attempt'[b] = attempt[b]
      BY <1>1, <3>1
    <3> QED
      BY <3>1, <3>2, EarnedStands
  <2>4. CASE StartChild(a) \/ AdmissionLost(a) \/ SettleWithoutEffect(a) \/ ChildEnds(a)
    BY <1>2, <2>4 DEF StartChild, AdmissionLost, SettleWithoutEffect, ChildEnds
  <2> QED
    BY <1>7, <2>1, <2>2, <2>3, <2>4 DEF ExecutorStep, Settle, ObservedSettle
<1>8. ASSUME UNCHANGED <<made, verif, attempt>>,
             \/ UNCHANGED task
             \/ task' = CancelSchedulable(task)
             \/ task' = CancelUnfinished(task)
      PROVE  \A t \in Tasks : TaskIsEarned(t)'
  <2>1. \A t \in Tasks : task'[t] \in {"verifying", "completed"} => task'[t] = task[t]
    BY <1>8 DEF CancelSchedulable, CancelUnfinished
  <2> QED
    BY <1>2, <1>8, <2>1
<1>9. CASE Control
  <2>1. ASSUME NEW t \in Tasks, StopTask(t) PROVE \A u \in Tasks : TaskIsEarned(u)'
    <3>1. /\ UNCHANGED <<task, made, verif>> /\ Open(Latest(t))
          /\ attempt' = [attempt EXCEPT ![Latest(t)].stop = TRUE]
      BY <2>1 DEF StopTask, Open, Unresolved
    <3>2. \A a \in Attempts : Open(a) \/ attempt'[a] = attempt[a]
      BY <1>1, <3>1
    <3> QED
      BY <3>1, <3>2, EarnedStands
  <2>2. ASSUME NEW t \in Tasks, RetryTask(t) PROVE \A u \in Tasks : TaskIsEarned(u)'
    BY <1>5, <2>2 DEF RetryTask
  <2>3. CASE Pause \/ Resume \/ Cancel \/ CancelDormant
    <3>1. /\ UNCHANGED <<made, verif, attempt>>
          /\ \/ UNCHANGED task
             \/ task' = CancelSchedulable(task)
             \/ task' = CancelUnfinished(task)
      BY <2>3 DEF Pause, Resume, Cancel, CancelDormant, CancelGraph, UnchangedGraph
    <3> QED
      BY <1>8, <3>1
  <2> QED
    BY <1>9, <2>1, <2>2, <2>3 DEF Control
<1>10. CASE Recovery \/ Crash
  <2>1. ASSUME NEW a \in Attempts, NEW decision \in {"failed", "cancelled"}, Resolve(a, decision)
        PROVE  \A t \in Tasks : TaskIsEarned(t)'
    <3> DEFINE closed == [task EXCEPT ![a[1]] = decision]
    <3>1. /\ UNCHANGED <<made, verif>> /\ Open(a)
          /\ attempt' = [attempt EXCEPT ![a].st = decision, ![a].neg = TRUE]
          /\ task' = closed \/ task' = CancelUnfinished(closed)
      BY <2>1 DEF Resolve, Open, Unresolved
    <3>2. \A b \in Attempts \ {a} : attempt'[b] = attempt[b]
      BY <1>1, <3>1
    <3>3. \A t \in Tasks : task'[t] \in {"verifying", "completed"} => task'[t] = task[t]
      <4>1. \A t \in Tasks : closed[t] \in {"verifying", "completed"} => closed[t] = task[t]
        BY <1>1
      <4>2. \A t \in Tasks : CancelUnfinished(closed)[t] \in {closed[t], "cancelled"}
        BY DEF CancelUnfinished
      <4> QED
        BY <3>1, <4>1, <4>2
    <3> QED
      BY <3>1, <3>2, <3>3, EarnedStands
  <2>2. CASE CommitReconcile
    <3>1. /\ UNCHANGED <<task, made, verif>>
          /\ \A a \in Attempts : scan.seen[a] = "none" => attempt'[a] = attempt[a]
      BY <2>2 DEF CommitReconcile
    <3> QED
      BY <3>1, EarnedStands DEF OwnershipInv
  <2>3. CASE ConfirmOwned
    <3>1. /\ UNCHANGED <<task, made, verif>>
          /\ \A a \in Attempts : ~Open(a) => attempt'[a] = attempt[a]
      BY <2>3 DEF ConfirmOwned, UnresolvedAttempts, Open
    <3> QED
      BY <3>1, EarnedStands
  <2>4. CASE \/ \E by \in {"startup", "user"} : Observe(by)
             \/ ClearOrphans \/ ClearFromJournal \/ ClearToRunning \/ CloseCancellation
             \/ RecoverDormant \/ Crash
    <3>1. UNCHANGED <<made, verif, attempt>> /\ (UNCHANGED task \/ task' = CancelUnfinished(task))
      BY <2>4 DEF Observe, ClearOrphans, ClearFromJournal, ClearToRunning, CloseCancellation,
                  RecoverDormant, Crash, UnchangedGraph
    <3> QED
      BY <1>8, <3>1
  <2> QED
    BY <1>10, <2>1, <2>2, <2>3, <2>4 DEF Recovery
<1>11. CASE UNCHANGED vars
  BY <1>2, <1>11 DEF vars
<1> QED
  BY <1>4, <1>6, <1>7, <1>9, <1>10, <1>11 DEF Next
----
(* A completed Team is over: no step touches its graph again. *)
LEMMA CompletedStands ==
    ASSUME TypeInv, OwnershipInv, TeamIsEarned, team = "completed", [Next]_vars
    PROVE  UNCHANGED <<team, task, made, attempt, verif, lease>>
<1> USE DEF durable, volatile
<1>1. /\ \A t \in Tasks : task[t] = "completed"
      /\ \A a \in Attempts : task[a[1]] = "completed" /\ ~Open(a) /\ exec[a] # "launching"
  BY AttemptParts DEF TeamIsEarned, OwnershipInv
<1>2. CASE RunnerStep \/ RunnerFails \/ WakeRunner \/ CancelReturns
  BY <1>2, SettledOnlyIfRunning
     DEF RunnerStep, RunnerFails, PersistSchedule, Dispatch, MayAct, DispatchRefused, StartPass,
         CompleteTeam, NothingLeft, NoProgress, RunnerStops, MarkRunnerFailure, WakeRunner,
         CancelReturns, Restate, UnchangedGraph
<1>3. ASSUME NEW a \in Attempts, VerifyStep(a)
      PROVE  UNCHANGED <<team, task, made, attempt, verif, lease>>
  BY <1>1, <1>3 DEF VerifyStep, BeginVerification, BeginAllowed, RecordVerdict, VerdictAllowed,
                    VerifyRefused, AutoRetry, AutoRetryAllowed, AutoRetryRefused
<1>4. ASSUME NEW a \in Attempts, ExecutorStep(a) \/ ChildEnds(a) \/ ObservedSettle(a)
      PROVE  UNCHANGED <<team, task, made, attempt, verif, lease>>
  <2>1. ~SettleAttempt(a) /\ ~StartRejected(a) /\ ~AdmitAttempt(a)
    BY <1>1 DEF SettleAttempt, SettlementDue, StartRejected, AdmitAttempt, Open, Unresolved, InFlight
  <2> QED
    BY <1>4, <2>1 DEF ExecutorStep, StartChild, AdmissionLost, Settle, SettleWithoutEffect, ChildEnds,
                      ObservedSettle
<1>5. ~Control
  BY <1>1 DEF Control, Pause, Resume, Cancel, CancelDormant, StopTask, RetryTask, RetryAllowed
<1>6. CASE Recovery \/ Crash
  BY <1>6 DEF Recovery, Observe, CommitReconcile, Resolve, ClearOrphans, ClearFromJournal,
              ClearToRunning, CloseCancellation, ConfirmOwned, RecoverDormant, Crash
<1>7. CASE UNCHANGED vars
  BY <1>7 DEF vars
<1> QED
  BY <1>2, <1>3, <1>4, <1>5, <1>6, <1>7 DEF Next

(* The closing steps complete a Team only when it owes nothing. *)
LEMMA ClosingCompletes ==
    ASSUME NEW tm \in TeamStatus \ {"completed"}, NEW tk, NEW at, NEW vf, NEW ls
    PROVE  /\ AfterSettlement(tm, tk, at, vf, ls) = "completed" => TeamCompletionReady(tk, at, vf, ls)
           /\ AfterVerdict(tm, at, vf, ls) # "completed"
BY DEF AfterSettlement, AfterVerdict

(* A running Team that completes on its own owes nothing. *)
LEMMA SettledCompletes ==
    ASSUME team # "completed", SettledQuiescent = "completed"
    PROVE  TeamCompletionReady(task, attempt, verif, lease)
BY DEF SettledQuiescent

(* Whatever completes the Team found every task completed and nothing owed. *)
LEMMA TeamCompletes ==
    ASSUME TypeInv, [Next]_vars, team # "completed", team' = "completed"
    PROVE  TeamCompletionReady(task', attempt', verif', lease') /\ made' = made
<1> USE DEF durable, volatile
<1>1. team \in TeamStatus \ {"completed"}
  BY DEF TypeInv, TypeOK, ProjectionTypeOK
<1>2. CASE RunnerStep \/ RunnerFails \/ WakeRunner \/ CancelReturns
  <2>1. CompleteTeam \/ WakeRunner
    BY <1>1, <1>2 DEF RunnerStep, RunnerFails, PersistSchedule, Dispatch, DispatchRefused, StartPass,
                NoProgress, RunnerStops, MarkRunnerFailure, CancelReturns, Restate
  <2>2. UNCHANGED <<task, made, attempt, verif, lease>>
    BY <2>1 DEF CompleteTeam, WakeRunner, UnchangedGraph
  <2> QED
    BY <1>1, <2>1, <2>2, SettledCompletes DEF CompleteTeam, NothingLeft, WakeRunner, Restate
<1>3. ASSUME NEW a \in Attempts, VerifyStep(a) PROVE FALSE
  BY <1>1, <1>3, ClosingCompletes
     DEF VerifyStep, BeginVerification, RecordVerdict, VerdictPassed, VerdictInconclusive,
         VerdictRetry, VerdictExhausted, VerdictStop, VerifyRefused, AutoRetry, RequeueTask,
         AutoRetryRefused, Restate
<1>4. ASSUME NEW a \in Attempts, ExecutorStep(a) \/ ChildEnds(a) \/ ObservedSettle(a)
      PROVE  TeamCompletionReady(task', attempt', verif', lease') /\ made' = made
  <2>1. Restate(AfterSettlement(team, task', attempt', verif, lease'))
        /\ verif' = verif /\ made' = made
    BY <1>1, <1>4 DEF ExecutorStep, StartChild, StartRejected, AdmitAttempt, AdmissionLost, Settle,
                      SettleWithoutEffect, ChildEnds, ObservedSettle, SettleAttempt
  <2>2. AfterSettlement(team, task', attempt', verif', lease') = "completed"
    BY <2>1 DEF Restate
  <2> QED
    BY <1>1, <2>1, <2>2, ClosingCompletes
<1>5. CASE Control
  <2>1. Resume
    BY <1>1, <1>5 DEF Control, Pause, Cancel, CancelDormant, CancelGraph, StopTask, RetryTask,
                      RequeueTask, Restate
  <2>2. UNCHANGED <<task, made, attempt, verif, lease>>
    BY <2>1 DEF Resume, UnchangedGraph
  <2> QED
    BY <2>1, <2>2 DEF Resume, Restate
<1>6. CASE Recovery \/ Crash
  <2>1. RecoverDormant
    BY <1>1, <1>6 DEF Recovery, Observe, CommitReconcile, Resolve, ClearOrphans, ClearFromJournal,
              ClearToRunning, CloseCancellation, ConfirmOwned, Crash, Restate
  <2>2. UNCHANGED <<task, made, attempt, verif, lease>>
    BY <2>1 DEF RecoverDormant, UnchangedGraph
  <2> QED
    BY <1>1, <2>1, <2>2, SettledCompletes DEF RecoverDormant, Restate
<1>7. CASE UNCHANGED vars
  BY <1>1, <1>7 DEF vars
<1> QED
  BY <1>2, <1>3, <1>4, <1>5, <1>6, <1>7 DEF Next

(* A completed task has a finished attempt whose worker reported it done and, if its contract
   declares checks, passed them in that very attempt; a completed Team owes nothing. *)
THEOREM CompletionWasEarned == Spec => []CompletionIsEarned
<1>1. Init => CompletionInv
  BY DEF Init, ProjectionInit, CompletionInv, TaskIsEarned, TeamIsEarned
<1>2. TypeInv /\ OwnershipInv /\ CompletionInv /\ [Next]_vars => CompletionInv'
  <2> SUFFICES ASSUME TypeInv, OwnershipInv, CompletionInv, [Next]_vars PROVE CompletionInv'
    OBVIOUS
  <2>1. \A t \in Tasks : TaskIsEarned(t)'
    BY TasksStayEarned DEF CompletionInv
  <2>2. CASE team = "completed"
    <3>1. UNCHANGED <<team, task, made, attempt, verif, lease>>
      BY <2>2, CompletedStands DEF CompletionInv
    <3>2. HasUnresolvedFacts(task, attempt, verif, lease)'
            = HasUnresolvedFacts(task, attempt, verif, lease)
      BY <3>1 DEF HasUnresolvedFacts, ReconciliationGap, IsLatest
    <3> QED
      BY <2>1, <2>2, <3>1, <3>2 DEF CompletionInv, TeamIsEarned
  <2>3. CASE team # "completed" /\ team' = "completed"
    <3>1. TeamCompletionReady(task', attempt', verif', lease') /\ made' = made
      BY <2>3, TeamCompletes
    <3>2. (\A t \in Tasks : task'[t] = "completed") /\ ~HasUnresolvedFacts(task', attempt', verif', lease')
      BY <3>1 DEF TeamCompletionReady
    <3>3. HasUnresolvedFacts(task, attempt, verif, lease)' = HasUnresolvedFacts(task', attempt', verif', lease')
      BY <3>1 DEF HasUnresolvedFacts, ReconciliationGap, IsLatest
    <3> QED
      BY <2>1, <3>2, <3>3 DEF CompletionInv, TeamIsEarned
  <2> QED
    BY <2>1, <2>2, <2>3 DEF CompletionInv, TeamIsEarned
<1>3. CompletionInv => CompletionIsEarned
  BY DEF CompletionInv, TaskIsEarned, Reported, TeamIsEarned, CompletionIsEarned
<1> QED
  BY <1>1, <1>2, <1>3, TypeInvariant, OwnershipInvariant, PTL DEF Spec

----
(* The Team the code runs implements the lifecycle its user watches: every commit of the runner,
   the executor, a control or a recovery is one of its steps, or none of its business *)

\* What TeamSafety puts for the lifecycle's busy.
Busy == \E a \in Attempts : attempt[a].st \in Unresolved

LifecycleStep == [Lifecycle!LifecycleNext]_(Lifecycle!LifecycleVars)

(* A Team on its way to cancelled was asked for it, and so was one whose latest control is a
   cancellation. *)
AskedIsKnown == team = "cancelling" \/ lastControl = "cancel" => cancelAsked
----
(* The steps of the lifecycle, in the variables of the execution *)

(* Nothing the user reads changes; work may have ended. *)
LEMMA StatusStands ==
    ASSUME UNCHANGED <<team, cancelAsked>>, Busy' => Busy
    PROVE  LifecycleStep
BY DEF LifecycleStep, Busy, Lifecycle!LifecycleNext, Lifecycle!LifecycleVars, Lifecycle!WorkEnds

(* The last piece of work ended, or was judged. *)
LEMMA StatusSettles ==
    ASSUME UNCHANGED cancelAsked, ~Busy',
           \/ team' = team
           \/ team = "running" /\ team' \in {"completed", "failed", "paused"}
           \/ team = "pausing" /\ team' = "paused"
           \/ team \in {"cancelling", "needs_reconciliation"} /\ cancelAsked /\ team' = "cancelled"
    PROVE  LifecycleStep
BY DEF LifecycleStep, Busy, Lifecycle!LifecycleNext, Lifecycle!WorkEnds

(* The work became uncertain. *)
LEMMA StatusGates ==
    ASSUME team \in {"running", "pausing", "cancelling"}, team' = "needs_reconciliation",
           UNCHANGED cancelAsked, Busy' <=> Busy
    PROVE  LifecycleStep
BY DEF LifecycleStep, Busy, Lifecycle!LifecycleNext, Lifecycle!Gate

(* The uncertainty was explained. *)
LEMMA StatusReopens ==
    ASSUME team = "needs_reconciliation", ~cancelAsked, cancelAsked \in BOOLEAN,
           \/ team' = "running"
           \/ team' = "paused" /\ ~Busy,
           UNCHANGED cancelAsked, Busy' <=> Busy
    PROVE  LifecycleStep
BY DEF LifecycleStep, Busy, Lifecycle!LifecycleNext, Lifecycle!Reopen, Lifecycle!Answer

(* The user's cancellation. *)
LEMMA StatusCancelled ==
    ASSUME team \notin TerminalTeam, cancelAsked' = TRUE, Busy' <=> Busy,
           \/ team # "needs_reconciliation" /\ team' = "cancelling"
           \/ team' = "needs_reconciliation"
           \/ team' = "cancelled" /\ ~Busy
    PROVE  LifecycleStep
BY DEF LifecycleStep, Busy, TerminalTeam, Lifecycle!LifecycleNext, Lifecycle!CancelTeam,
       Lifecycle!TerminalTeam
----
(* Nothing is open in a Team at rest. *)
LEMMA RestIsIdle ==
    ASSUME QuietInv
    PROVE  team \in Quiet => ~Busy
BY DEF QuietInv, Busy, Open

(* Work only opens by a dispatch, which makes an attempt. *)
LEMMA BusyShrinks ==
    ASSUME TypeInv, OwnershipInv, [Next]_vars, UNCHANGED made
    PROVE  Busy' => Busy
<1>1. ASSUME Dispatch PROVE FALSE
  <2>1. PICK batch \in SUBSET Eligible :
          /\ batch # {}
          /\ made' = [t \in Tasks |-> IF t \in batch THEN made[t] + 1 ELSE made[t]]
    BY <1>1 DEF Dispatch
  <2>2. PICK t \in Tasks : t \in batch
    BY <2>1 DEF Eligible, Candidates
  <2>3. made[t] = made[t] + 1 /\ made[t] \in 0..MaxOrdinal
    BY <2>1, <2>2 DEF TypeInv, TypeOK, ProjectionTypeOK
  <2> QED
    BY <2>3, GraphAssumption
<1> QED
  BY <1>1, OpenShrinks DEF Busy, Open

(* A Team found with nothing to do is settled only if it was running. *)
LEMMA SettledMoves ==
    SettledQuiescent = team \/ (team = "running" /\ SettledQuiescent \in {"completed", "paused"})
<1>1. CASE team = "running"
  <2>1. SettledQuiescent \in {"completed", "paused", "running"}
    BY <1>1 DEF SettledQuiescent
  <2> QED
    BY <1>1, <2>1
<1>2. CASE team # "running"
  BY <1>2 DEF SettledQuiescent
<1> QED
  BY <1>1, <1>2

(* No step but a cancellation asks for one, and none forgets it. *)
LEMMA AskedIsKnownInductive ==
    ASSUME TypeInv, AskedIsKnown, [Next]_vars
    PROVE  AskedIsKnown'
<1> USE DEF AskedIsKnown, durable, volatile
<1>1. cancelAsked \in BOOLEAN /\ team \in TeamStatus
  BY DEF TypeInv, TypeOK, ProjectionTypeOK
<1>2. ASSUME UnchangedControl, team' = "cancelling" => team = "cancelling"
      PROVE  AskedIsKnown'
  BY <1>2 DEF UnchangedControl
<1>3. SettledQuiescent # "cancelling" \/ SettledQuiescent = team
  BY DEF SettledQuiescent
<1>4. CASE RunnerStep \/ RunnerFails \/ WakeRunner \/ CancelReturns
  BY <1>2, <1>3, <1>4
     DEF RunnerStep, RunnerFails, PersistSchedule, Dispatch, DispatchRefused, StartPass, CompleteTeam,
         NoProgress, RunnerStops, MarkRunnerFailure, WakeRunner, CancelReturns, Restate, UnchangedControl
<1>5. ASSUME NEW tk, NEW at, NEW vf, NEW ls
      PROVE  /\ AfterSettlement(team, tk, at, vf, ls) = "cancelling" => team = "cancelling"
             /\ AfterVerdict(team, at, vf, ls) = "cancelling" => team = "cancelling"
  BY <1>1 DEF AfterSettlement, AfterVerdict
<1>6. ASSUME NEW a \in Attempts, VerifyStep(a) PROVE AskedIsKnown'
  <2>1. UnchangedControl
    BY <1>6 DEF VerifyStep, BeginVerification, RecordVerdict, VerifyRefused, AutoRetry, RequeueTask,
                AutoRetryRefused, UnchangedControl
  <2>2. \/ team' \in {team, "failed"}
        \/ team' = AfterVerdict(team, attempt', verif', lease')
        \/ team' = AfterVerdict(team, attempt, verif', lease')
        \/ team' = AfterVerdict(team, attempt, verif', lease)
    BY <1>6 DEF VerifyStep, BeginVerification, RecordVerdict, VerifyRefused, AutoRetry, RequeueTask,
                AutoRetryRefused, VerdictPassed, VerdictInconclusive, VerdictRetry, VerdictExhausted,
                VerdictStop, Restate
  <2> QED
    BY <1>2, <1>5, <2>1, <2>2
<1>7. ASSUME NEW a \in Attempts, ExecutorStep(a) \/ ChildEnds(a) \/ ObservedSettle(a)
      PROVE  AskedIsKnown'
  <2>1. /\ UnchangedControl
        /\ team' = team \/ team' = AfterSettlement(team, task', attempt', verif, lease')
    BY <1>7 DEF ExecutorStep, StartChild, StartRejected, AdmitAttempt, AdmissionLost, Settle,
                SettleWithoutEffect, ChildEnds, ObservedSettle, SettleAttempt, Restate, UnchangedControl
  <2> QED
    BY <1>2, <1>5, <2>1
<1>8. CASE Control
  <2>1. ASSUME NEW t \in Tasks, StopTask(t) \/ RetryTask(t) PROVE AskedIsKnown'
    BY <1>2, <2>1 DEF StopTask, RetryTask, RequeueTask
  <2>2. CASE Pause \/ Resume
    BY <1>1, <2>2 DEF Pause, Resume, Controlled, Restate
  <2>3. CASE Cancel \/ CancelDormant
    BY <1>1, <2>3 DEF Cancel, CancelDormant, Controlled, Restate, UnchangedControl
  <2> QED
    BY <1>8, <2>1, <2>2, <2>3 DEF Control
<1>9. CASE Recovery \/ Crash
  BY <1>2, <1>3, <1>9
     DEF Recovery, Observe, CommitReconcile, Resolve, ClearOrphans, ClearFromJournal, ClearToRunning,
         CloseCancellation, ConfirmOwned, RecoverDormant, Crash, Restate, UnchangedControl
<1>10. CASE UNCHANGED vars
  BY <1>2, <1>10 DEF vars, UnchangedControl
<1> QED
  BY <1>4, <1>6, <1>7, <1>8, <1>9, <1>10 DEF Next
----
(* Every step of the execution is a step of the lifecycle *)

Proved == /\ TypeInv /\ OwnershipInv /\ QuietInv /\ QuietInv'
          /\ CancelSticks /\ AskedIsKnown

(* The runner hands out work, completes, gates or gives up. *)
LEMMA RunnerImplements ==
    ASSUME Proved, [Next]_vars, RunnerStep \/ RunnerFails \/ WakeRunner \/ CancelReturns
    PROVE  LifecycleStep
<1> USE DEF durable, volatile
<1>1. /\ TypeInv /\ OwnershipInv /\ team \in TeamStatus /\ cancelAsked' = cancelAsked
      /\ team' \in Quiet => ~Busy'
  BY RestIsIdle DEF Proved, TypeInv, TypeOK, ProjectionTypeOK, QuietInv, Busy, Open,
     RunnerStep, RunnerFails, PersistSchedule, Dispatch, DispatchRefused, StartPass, CompleteTeam,
     NoProgress, RunnerStops, MarkRunnerFailure, WakeRunner, CancelReturns, UnchangedControl
<1>2. CASE Dispatch
  <2>1. UNCHANGED team /\ team = "running"
    BY <1>2 DEF Dispatch, MayAct
  <2>2. CASE Busy
    BY <1>1, <2>1, <2>2, StatusStands
  <2>3. CASE ~Busy /\ ~Busy'
    BY <1>1, <2>1, <2>3, StatusStands
  <2>4. CASE ~Busy /\ Busy'
    BY <1>1, <2>1, <2>4 DEF LifecycleStep, Busy, Lifecycle!LifecycleNext, Lifecycle!HandOut
  <2> QED
    BY <2>2, <2>3, <2>4
<1>3. CASE ~Dispatch
  <2>1. Busy' => Busy
    <3>1. UNCHANGED made
      BY <1>3 DEF RunnerStep, RunnerFails, PersistSchedule, DispatchRefused, StartPass, CompleteTeam,
                  NoProgress, RunnerStops, MarkRunnerFailure, WakeRunner, CancelReturns, UnchangedGraph
    <3> QED
      BY <1>1, <3>1, BusyShrinks
  <2>2. CASE team' = team
    BY <1>1, <2>1, <2>2, StatusStands
  <2>3. CASE team' # team
    <3>1. UNCHANGED attempt
      BY <1>3, <2>3 DEF RunnerStep, RunnerFails, PersistSchedule, DispatchRefused, StartPass,
         CompleteTeam, NoProgress, RunnerStops, MarkRunnerFailure, WakeRunner, CancelReturns, UnchangedGraph
    <3>2. \/ team = "running" /\ team' \in {"completed", "paused", "needs_reconciliation"}
          \/ team = "cancelling" /\ team' = "needs_reconciliation"
      BY <1>3, <2>3, SettledMoves
         DEF RunnerStep, RunnerFails, PersistSchedule, DispatchRefused, StartPass, CompleteTeam,
               NothingLeft, MayAct, NoProgress, RunnerStops, MarkRunnerFailure, WakeRunner,
               CancelReturns, Restate
    <3>3. CASE team' = "needs_reconciliation"
      BY <1>1, <3>1, <3>2, <3>3, StatusGates DEF Busy
    <3>4. CASE team' # "needs_reconciliation"
      BY <1>1, <3>2, <3>4, StatusSettles DEF Quiet, TerminalTeam
    <3> QED
      BY <3>3, <3>4
  <2> QED
    BY <2>2, <2>3
<1> QED
  BY <1>2, <1>3

(* What a child reports, and what is judged of it, ends work and answers who waited. *)
LEMMA OutcomesImplement ==
    ASSUME Proved, [Next]_vars, NEW a \in Attempts,
           VerifyStep(a) \/ ExecutorStep(a) \/ ChildEnds(a) \/ ObservedSettle(a)
    PROVE  LifecycleStep
<1> USE DEF durable, volatile
<1>1. /\ TypeInv /\ OwnershipInv /\ team \in TeamStatus
      /\ team' \in Quiet => ~Busy'
      /\ team = "cancelling" => cancelAsked
  BY RestIsIdle DEF Proved, TypeInv, TypeOK, ProjectionTypeOK, QuietInv, Busy, Open, AskedIsKnown
<1>2. ASSUME NEW tk, NEW at, NEW vf, NEW ls,
             \/ team' = AfterSettlement(team, tk, at, vf, ls)
             \/ team' = AfterVerdict(team, at, vf, ls)
      PROVE  \/ team' = team
             \/ team = "running" /\ team' \in {"completed", "paused"}
             \/ team = "pausing" /\ team' = "paused"
             \/ team = "cancelling" /\ team' = "cancelled"
  BY <1>2 DEF AfterSettlement, AfterVerdict
<1>3. /\ UNCHANGED cancelAsked
      /\ \/ team' = team
         \/ team = "running" /\ team' \in {"completed", "failed", "paused"}
         \/ team = "pausing" /\ team' = "paused"
         \/ team = "cancelling" /\ team' = "cancelled"
  <2>1. CASE VerifyStep(a)
    <3>1. UNCHANGED cancelAsked
      BY <2>1 DEF VerifyStep, BeginVerification, RecordVerdict, VerifyRefused, AutoRetry, RequeueTask,
                  AutoRetryRefused, UnchangedControl
    <3>2. \/ team' = team
          \/ team = "running" /\ team' = "failed"
          \/ team' = AfterVerdict(team, attempt', verif', lease')
          \/ team' = AfterVerdict(team, attempt, verif', lease')
          \/ team' = AfterVerdict(team, attempt, verif', lease)
      BY <2>1 DEF VerifyStep, BeginVerification, RecordVerdict, VerifyRefused, AutoRetry, RequeueTask,
                  AutoRetryRefused, VerdictPassed, VerdictInconclusive, VerdictRetry, VerdictExhausted,
                  VerdictStop, Restate
    <3> QED
      BY <1>2, <3>1, <3>2
  <2>2. CASE ExecutorStep(a) \/ ChildEnds(a) \/ ObservedSettle(a)
    <3>1. /\ UNCHANGED cancelAsked
          /\ team' = team \/ team' = AfterSettlement(team, task', attempt', verif, lease')
      BY <2>2 DEF ExecutorStep, StartChild, StartRejected, AdmitAttempt, AdmissionLost, Settle,
                  SettleWithoutEffect, ChildEnds, ObservedSettle, SettleAttempt, Restate, UnchangedControl
    <3> QED
      BY <1>2, <3>1
  <2> QED
    BY <2>1, <2>2
<1>4. Busy' => Busy
  <2>1. UNCHANGED made
    BY DEF VerifyStep, BeginVerification, RecordVerdict, VerifyRefused, AutoRetry, RequeueTask,
           AutoRetryRefused, ExecutorStep, StartChild, StartRejected, AdmitAttempt, AdmissionLost,
           Settle, SettleWithoutEffect, ChildEnds, ObservedSettle, SettleAttempt
  <2> QED
    BY <1>1, <2>1, BusyShrinks
<1> QED
  BY <1>1, <1>3, <1>4, StatusStands, StatusSettles DEF Quiet, TerminalTeam

(* A control is answered at once, or as soon as nothing works. *)
LEMMA ControlsImplement ==
    ASSUME Proved, [Next]_vars, Control
    PROVE  LifecycleStep
<1> USE DEF durable, volatile
<1>1. /\ TypeInv /\ OwnershipInv /\ team \in TeamStatus /\ cancelAsked \in BOOLEAN
      /\ team' \in Quiet => ~Busy'
      /\ team = "cancelling" => cancelAsked
  BY RestIsIdle DEF Proved, TypeInv, TypeOK, ProjectionTypeOK, QuietInv, Busy, Open, AskedIsKnown
<1>2. ASSUME UNCHANGED <<team, cancelAsked, made>> PROVE LifecycleStep
  BY <1>1, <1>2, BusyShrinks, StatusStands
<1>3. ASSUME NEW t \in Tasks, StopTask(t) \/ RetryTask(t) PROVE LifecycleStep
  BY <1>2, <1>3 DEF StopTask, RetryTask, RequeueTask, UnchangedControl
<1>4. CASE Pause \/ Resume \/ Cancel \/ CancelDormant
  <2>1. UNCHANGED attempt /\ (Busy' <=> Busy)
    BY <1>4 DEF Pause, Resume, Cancel, CancelDormant, UnchangedGraph, Busy
  <2>2. CASE Pause
    <3>1. /\ team \in {"running", "pausing"} /\ team' \in {"pausing", "paused"} /\ cancelAsked' = cancelAsked
      BY <1>1, <2>2 DEF Pause, Controlled, Restate
    <3>2. CASE team = "running"
      BY <1>1, <2>1, <3>1, <3>2
         DEF LifecycleStep, Busy, Quiet, Lifecycle!LifecycleNext, Lifecycle!PauseTeam, Lifecycle!Answer
    <3>3. CASE team = "pausing" /\ team' = "pausing"
      BY <2>1, <3>1, <3>3, StatusStands
    <3>4. CASE team = "pausing" /\ team' = "paused"
      BY <1>1, <3>1, <3>4, StatusSettles DEF Quiet
    <3> QED
      BY <3>1, <3>2, <3>3, <3>4
  <2>3. CASE Resume
    <3>1. /\ team \in {"pausing", "paused"} /\ team' \in {"running", "completed"} /\ cancelAsked' = cancelAsked
      BY <1>1, <2>3 DEF Resume, Controlled, Restate
    <3> QED
      BY <1>1, <2>1, <3>1
         DEF LifecycleStep, Busy, Quiet, TerminalTeam, Lifecycle!LifecycleNext, Lifecycle!ResumeTeam,
             Lifecycle!Answer
  <2>4. ASSUME Controlled("cancel"),
               \/ /\ team \in {"running", "pausing", "paused"}
                  /\ team' \in {"cancelling", "cancelled", "needs_reconciliation"}
               \/ team = "needs_reconciliation" /\ team' \in {"needs_reconciliation", "cancelled"}
        PROVE  LifecycleStep
    <3>1. cancelAsked' = TRUE /\ team \notin TerminalTeam
      BY <1>1, <2>4 DEF Controlled, TerminalTeam
    <3>2. team' = "cancelled" => ~Busy
      BY <1>1, <2>1 DEF Quiet, TerminalTeam
    <3> QED
      BY <2>1, <2>4, <3>1, <3>2, StatusCancelled
  <2>5. CASE Cancel
    BY <2>4, <2>5 DEF Cancel, CancelGraph, Restate
  <2>6. CASE CancelDormant
    <3>1. CASE team = "cancelling"
      <4>1. team' \in {"needs_reconciliation", "cancelled"} /\ UNCHANGED cancelAsked
        BY <2>6, <3>1 DEF CancelDormant, Restate, UnchangedControl
      <4> QED
        BY <1>1, <2>1, <3>1, <4>1, StatusGates, StatusSettles DEF Quiet, TerminalTeam
    <3>2. CASE team # "cancelling"
      BY <2>4, <2>6, <3>2 DEF CancelDormant, CancelGraph, Restate
    <3> QED
      BY <3>1, <3>2
  <2> QED
    BY <1>4, <2>2, <2>3, <2>5, <2>6
<1> QED
  BY <1>3, <1>4 DEF Control

(* Recovery gates, explains and reopens, and closes a cancellation that owes nothing. *)
LEMMA RecoveryImplements ==
    ASSUME Proved, [Next]_vars, Recovery \/ Crash
    PROVE  LifecycleStep
<1> USE DEF durable, volatile
<1>1. /\ TypeInv /\ OwnershipInv /\ team \in TeamStatus /\ cancelAsked \in BOOLEAN
      /\ attempt \in [Attempts -> AttemptRecord]
      /\ team' \in Quiet => ~Busy'
      /\ lastControl = "cancel" <=> cancelAsked
  BY RestIsIdle DEF Proved, TypeInv, TypeOK, ProjectionTypeOK, QuietInv, Busy, Open, AskedIsKnown, CancelSticks
<1>2. UNCHANGED <<made, cancelAsked>>
  BY DEF Recovery, Observe, CommitReconcile, Resolve, ClearOrphans, ClearFromJournal, ClearToRunning,
         CloseCancellation, ConfirmOwned, RecoverDormant, Crash, UnchangedControl, UnchangedGraph
<1>3. Busy' => Busy
  BY <1>1, <1>2, BusyShrinks
<1>4. ASSUME NEW a \in Attempts, NEW decision \in {"failed", "cancelled"}, Resolve(a, decision)
      PROVE  LifecycleStep
  <2>1. team = "needs_reconciliation" /\ (team' = team \/ (CancelIntent /\ team' = "cancelled"))
    BY <1>4 DEF Resolve, Restate
  <2> QED
    BY <1>1, <1>2, <1>3, <2>1, StatusStands, StatusSettles DEF CancelIntent, Quiet, TerminalTeam
<1>5. CASE CommitReconcile
  <2>1. Busy => Busy'
    <3> SUFFICES ASSUME NEW a \in Attempts, attempt[a].st \in Unresolved
                 PROVE  attempt'[a].st \in Unresolved
      BY DEF Busy
    <3>1. \/ attempt'[a] = attempt[a]
          \/ attempt'[a].st = "unknown"
      BY <1>1, <1>5 DEF CommitReconcile, AttemptRecord
    <3> QED
      BY <3>1 DEF Unresolved
  <2>2. team' = "needs_reconciliation"
        /\ team \in {"running", "pausing", "cancelling", "needs_reconciliation"}
    BY <1>5 DEF CommitReconcile
  <2> QED
    BY <1>2, <1>3, <2>1, <2>2, StatusStands, StatusGates
<1>6. CASE ConfirmOwned
  <2>1. Busy => Busy'
    <3> SUFFICES ASSUME NEW a \in Attempts, attempt[a].st \in Unresolved
                 PROVE  attempt'[a].st \in Unresolved
      BY DEF Busy
    <3> QED
      BY <1>1, <1>6 DEF ConfirmOwned, UnresolvedAttempts, AttemptRecord, Unresolved, InFlight
  <2>2. team = "needs_reconciliation" /\ team' = "running" /\ lastControl # "cancel"
    BY <1>6 DEF ConfirmOwned, Restate
  <2> QED
    BY <1>1, <1>2, <1>3, <2>1, <2>2, StatusReopens
<1>7. CASE ClearOrphans \/ ClearFromJournal \/ ClearToRunning
  <2>1. /\ UNCHANGED attempt /\ team = "needs_reconciliation" /\ lastControl # "cancel"
        /\ team' \in {"paused", "running"}
    BY <1>7 DEF ClearOrphans, ClearFromJournal, ClearToRunning, UnchangedGraph, CancelIntent
  <2>2. Busy' <=> Busy
    BY <2>1 DEF Busy
  <2> QED
    BY <1>1, <1>2, <2>1, <2>2, StatusReopens DEF Quiet
<1>8. CASE CloseCancellation
  <2>1. team = "needs_reconciliation" /\ CancelIntent /\ team' = "cancelled"
    BY <1>8 DEF CloseCancellation, Restate
  <2> QED
    BY <1>1, <1>2, <2>1, StatusSettles DEF CancelIntent, Quiet, TerminalTeam
<1>9. CASE RecoverDormant
  <2>1. /\ UNCHANGED attempt
        /\ \/ team' = team
           \/ team = "running" /\ team' \in {"completed", "paused", "needs_reconciliation"}
    BY <1>9, SettledMoves DEF RecoverDormant, Restate, UnchangedGraph
  <2>2. Busy' <=> Busy
    BY <2>1 DEF Busy
  <2> QED
    BY <1>1, <1>2, <2>1, <2>2, StatusStands, StatusGates, StatusSettles DEF Quiet, TerminalTeam
<1>10. CASE (\E by \in {"startup", "user"} : Observe(by)) \/ Crash
  <2>1. UNCHANGED team
    BY <1>10 DEF Observe, Crash
  <2> QED
    BY <1>2, <1>3, <2>1, StatusStands
<1> QED
  BY <1>4, <1>5, <1>6, <1>7, <1>8, <1>9, <1>10 DEF Recovery

(* The Team a user watches: runner, executor, controls and recovery together implement the
   lifecycle, for every graph, every configuration and every schedule of their steps. *)
THEOREM LifecycleImplemented == Spec => ImplementsLifecycle
<1>1. Init => Lifecycle!LifecycleInit /\ AskedIsKnown
  BY DEF Init, ProjectionInit, FreshAttempt, AskedIsKnown, Lifecycle!LifecycleInit, Unresolved, InFlight
<1>2. TypeInv /\ AskedIsKnown /\ [Next]_vars => AskedIsKnown'
  BY AskedIsKnownInductive
<1>3. Proved /\ [Next]_vars => [Lifecycle!LifecycleNext]_(Lifecycle!LifecycleVars)
  <2> SUFFICES ASSUME Proved, [Next]_vars PROVE LifecycleStep
    BY DEF LifecycleStep
  <2>1. CASE UNCHANGED vars
    BY <2>1, StatusStands DEF vars, durable, Busy
  <2> QED
    BY <2>1, RunnerImplements, OutcomesImplement, ControlsImplement, RecoveryImplements DEF Next
<1> QED
  BY <1>1, <1>2, <1>3, TypeInvariant, OwnershipInvariant, QuietInvariant, CancellationSticks, PTL
     DEF Spec, Proved, ImplementsLifecycle, Lifecycle!LifecycleSpec

-----------------------------------------------------------------------------
(* What the journal keeps *)

(* The journal only adds: what was recorded of a Team and of an attempt stays *)

(* A child that is known has an outcome: evidence of its end, a proven negative resolution, or
   an attempt that is still open. *)
Accounted(r) ==
    /\ r.st = "dispatching" => r.bind = "unbound"
    /\ r.bind # "unbound" => r.st \in Unresolved \/ r.ev # "none" \/ r.neg

(* The inductive invariant.  An ordinal not dispatched yet has no record, every record is
   accounted for, work that runs has no outcome yet, and what waits for its check is settled. *)
HistoryInv ==
    /\ \A a \in Attempts : a[2] > made[a[1]] => attempt[a] = FreshAttempt /\ verif[a] = "none"
    /\ \A a \in Attempts : Accounted(attempt[a])
    /\ \A t \in Tasks : task[t] = "running" => attempt[Latest(t)].ev = "none"
    /\ \A t \in Tasks : task[t] = "verifying" => attempt[Latest(t)].st = "settled"
    /\ \A t \in Tasks : floor[t] <= made[t] + 1

(* What one commit may do to the records of the attempts, and to the counters of the tasks. *)
RecordMoves(a) ==
    /\ InTwoSteps(AttemptStep, attempt[a].st, attempt'[a].st)
    /\ attempt[a].ev # "none" => attempt'[a].ev = attempt[a].ev
    /\ attempt[a].neg => attempt'[a].neg
    /\ verif[a] \notin {"none", "running"} => verif'[a] = verif[a]

CountersGrow == \A t \in Tasks : made'[t] >= made[t] /\ floor'[t] >= floor[t]

(* The moves the tables of the projection admit for a Team in one commit. *)
LEMMA TeamTable ==
    ASSUME NEW from, NEW to,
           \/ from = to
           \/ from = "running" /\ to \in {"pausing", "paused", "cancelling", "cancelled",
                                          "completed", "failed", "needs_reconciliation"}
           \/ from = "pausing" /\ to \in {"paused", "running", "completed", "cancelling",
                                          "cancelled", "needs_reconciliation"}
           \/ from = "paused" /\ to \in {"running", "completed", "cancelling", "cancelled",
                                         "needs_reconciliation"}
           \/ from = "cancelling" /\ to \in {"cancelled", "needs_reconciliation"}
           \/ from = "needs_reconciliation" /\ to \in {"paused", "running", "cancelled"}
    PROVE  InTwoSteps(TeamStep, from, to)
BY DEF InTwoSteps, TeamStep

(* And for an attempt. *)
LEMMA AttemptTable ==
    ASSUME NEW from, NEW to,
           \/ from = to
           \/ from = "none" /\ to = "dispatching"
           \/ from = "dispatching" /\ to \in {"running", "failed", "cancelled", "unknown"}
           \/ from = "running" /\ to \in {"settled", "completed", "failed", "cancelled", "unknown"}
           \/ from = "settled" /\ to \in {"completed", "verification_failed"}
           \/ from = "unknown" /\ to \in {"running", "settled", "completed", "failed", "cancelled"}
    PROVE  InTwoSteps(AttemptStep, from, to)
BY DEF InTwoSteps, AttemptStep

(* The closing steps of a settlement and of a verdict are moves of the Team. *)
LEMMA ClosingMoves ==
    ASSUME NEW tm, NEW tk, NEW at, NEW vf, NEW ls
    PROVE  /\ InTwoSteps(TeamStep, tm, AfterSettlement(tm, tk, at, vf, ls))
           /\ InTwoSteps(TeamStep, tm, AfterVerdict(tm, at, vf, ls))
<1>1. /\ \/ AfterSettlement(tm, tk, at, vf, ls) = tm
         \/ tm = "pausing" /\ AfterSettlement(tm, tk, at, vf, ls) = "paused"
         \/ tm = "cancelling" /\ AfterSettlement(tm, tk, at, vf, ls) = "cancelled"
         \/ tm = "running" /\ AfterSettlement(tm, tk, at, vf, ls) \in {"completed", "paused"}
      /\ \/ AfterVerdict(tm, at, vf, ls) = tm
         \/ tm = "pausing" /\ AfterVerdict(tm, at, vf, ls) = "paused"
         \/ tm = "cancelling" /\ AfterVerdict(tm, at, vf, ls) = "cancelled"
  BY DEF AfterSettlement, AfterVerdict
<1> QED
  BY <1>1, TeamTable

(* Every commit moves the Team along its table. *)
LEMMA StepsMoveTeam ==
    ASSUME TypeInv, [Next]_vars
    PROVE  InTwoSteps(TeamStep, team, team')
<1> USE DEF durable, volatile, Restate
<1>1. team \in TeamStatus
  BY DEF TypeInv, TypeOK, ProjectionTypeOK
<1>2. CASE team' = team
  BY <1>2, TeamTable
<1>3. CASE RunnerStep \/ RunnerFails \/ WakeRunner \/ CancelReturns
  <2>1. \/ team' = team
        \/ team = "running" /\ team' \in {"completed", "paused", "needs_reconciliation"}
        \/ team = "cancelling" /\ team' = "needs_reconciliation"
    BY <1>3 DEF RunnerStep, RunnerFails, PersistSchedule, Dispatch, DispatchRefused, StartPass,
                CompleteTeam, NothingLeft, MayAct, NoProgress, RunnerStops, MarkRunnerFailure,
                WakeRunner, CancelReturns, SettledQuiescent, UnchangedGraph
  <2> QED
    BY <2>1, TeamTable
<1>4. ASSUME NEW a \in Attempts, VerifyStep(a) PROVE InTwoSteps(TeamStep, team, team')
  <2>1. \/ team' = team
        \/ team = "running" /\ team' = "failed"
        \/ \E at, vf, ls : team' = AfterVerdict(team, at, vf, ls)
    BY <1>4 DEF VerifyStep, BeginVerification, RecordVerdict, VerdictPassed, VerdictInconclusive,
                VerdictRetry, VerdictExhausted, VerdictStop, VerifyRefused, AutoRetry, RequeueTask,
                AutoRetryRefused
  <2> QED
    BY <2>1, TeamTable, ClosingMoves
<1>5. ASSUME NEW a \in Attempts, ExecutorStep(a) \/ ChildEnds(a) \/ ObservedSettle(a)
      PROVE  InTwoSteps(TeamStep, team, team')
  <2>1. team' = team \/ \E tk, at, vf, ls : team' = AfterSettlement(team, tk, at, vf, ls)
    BY <1>5 DEF ExecutorStep, StartChild, StartRejected, AdmitAttempt, AdmissionLost, Settle,
                SettleWithoutEffect, ChildEnds, ObservedSettle, SettleAttempt
  <2> QED
    BY <2>1, TeamTable, ClosingMoves
<1>6. CASE Control
  <2>1. \/ team' = team
        \/ team = "running" /\ team' \in {"pausing", "paused", "cancelling", "cancelled",
                                          "needs_reconciliation"}
        \/ team = "pausing" /\ team' \in {"paused", "running", "completed", "cancelling",
                                          "cancelled", "needs_reconciliation"}
        \/ team = "paused" /\ team' \in {"running", "completed", "cancelling", "cancelled",
                                         "needs_reconciliation"}
        \/ team = "cancelling" /\ team' \in {"cancelled", "needs_reconciliation"}
        \/ team = "needs_reconciliation" /\ team' = "cancelled"
    BY <1>6 DEF Control, Pause, Resume, Cancel, CancelDormant, CancelGraph, StopTask, RetryTask,
                RequeueTask
  <2> QED
    BY <2>1, TeamTable
<1>7. CASE Recovery \/ Crash
  <2>1. \/ team' = team
        \/ team \in {"running", "pausing", "cancelling"} /\ team' = "needs_reconciliation"
        \/ team = "needs_reconciliation" /\ team' \in {"paused", "running", "cancelled"}
        \/ team = "running" /\ team' \in {"completed", "paused"}
    BY <1>7 DEF Recovery, Observe, CommitReconcile, Resolve, ClearOrphans, ClearFromJournal,
                ClearToRunning, CloseCancellation, ConfirmOwned, RecoverDormant, SettledQuiescent,
                Crash
  <2> QED
    BY <2>1, TeamTable
<1> QED
  BY <1>2, <1>3, <1>4, <1>5, <1>6, <1>7 DEF Next, vars
----
(* A record nobody touches stands. *)
LEMMA RecordStands ==
    ASSUME NEW a \in Attempts, attempt'[a] = attempt[a], verif'[a] = verif[a]
    PROVE  RecordMoves(a)
BY AttemptTable DEF RecordMoves

(* A step of one attempt: the others stand, and no verdict is touched. *)
LEMMA OneRecordMoves ==
    ASSUME NEW a \in Attempts, verif' = verif,
           \A b \in Attempts \ {a} : attempt'[b] = attempt[b],
           InTwoSteps(AttemptStep, attempt[a].st, attempt'[a].st),
           attempt[a].ev # "none" => attempt'[a].ev = attempt[a].ev,
           attempt[a].neg => attempt'[a].neg
    PROVE  \A b \in Attempts : RecordMoves(b)
BY RecordStands DEF RecordMoves

(* The attempts of a batch are records nobody has used. *)
LEMMA DispatchMovesRecords ==
    ASSUME TypeInv, HistoryInv, Dispatch
    PROVE  (\A a \in Attempts : RecordMoves(a)) /\ CountersGrow /\ HistoryInv'
<1>1. PICK batch \in SUBSET Eligible :
          LET fresh == {<<t, made[t] + 1>> : t \in batch}
          IN  /\ fresh \subseteq Attempts
              /\ task' = [t \in Tasks |-> IF t \in batch THEN "running" ELSE task[t]]
              /\ made' = [t \in Tasks |-> IF t \in batch THEN made[t] + 1 ELSE made[t]]
              /\ attempt' = [a \in Attempts |-> IF a \in fresh
                                                THEN [FreshAttempt EXCEPT !.st = "dispatching"]
                                                ELSE attempt[a]]
  BY DEF Dispatch
<1> DEFINE fresh == {<<t, made[t] + 1>> : t \in batch}
<1>2. /\ UNCHANGED <<verif, floor>> /\ batch \subseteq Tasks
      /\ made \in [Tasks -> Nat] /\ floor \in [Tasks -> Nat]
  BY GraphAssumption DEF Dispatch, Eligible, Candidates, TypeInv, TypeOK, ProjectionTypeOK
<1>3. \A a \in fresh : /\ a \in Attempts /\ a[1] \in batch /\ a[2] = made[a[1]] + 1
                       /\ attempt[a] = FreshAttempt
                       /\ attempt'[a] = [FreshAttempt EXCEPT !.st = "dispatching"]
  <2> SUFFICES ASSUME NEW a \in fresh
               PROVE  /\ a \in Attempts /\ a[1] \in batch /\ a[2] = made[a[1]] + 1
                      /\ attempt[a] = FreshAttempt
                      /\ attempt'[a] = [FreshAttempt EXCEPT !.st = "dispatching"]
    OBVIOUS
  <2>1. a \in Attempts /\ a[1] \in batch /\ a[2] = made[a[1]] + 1
    BY <1>1
  <2>2. a[2] > made[a[1]]
    BY <1>2, <2>1
  <2>3. attempt'[a] = [FreshAttempt EXCEPT !.st = "dispatching"]
    BY <1>1, <2>1
  <2> QED
    BY <2>1, <2>2, <2>3 DEF HistoryInv
<1>4. \A a \in Attempts \ fresh : attempt'[a] = attempt[a]
  BY <1>1
<1>5. \A t \in Tasks : made'[t] >= made[t]
  BY <1>1, <1>2
<1>6. CountersGrow
  BY <1>2, <1>5 DEF CountersGrow
<1>7. \A a \in Attempts : RecordMoves(a)
  BY <1>2, <1>3, <1>4, AttemptTable, RecordStands DEF RecordMoves, FreshAttempt
<1>8. HistoryInv'
  <2>1. ASSUME NEW a \in Attempts, a[2] > made'[a[1]]
        PROVE  attempt'[a] = FreshAttempt /\ verif'[a] = "none"
    <3>1. a[1] \in Tasks /\ a[2] \in Nat
      BY AttemptParts, GraphAssumption DEF Ordinals
    <3>2. a[2] > made[a[1]] /\ a \notin fresh
      BY <1>1, <1>2, <1>3, <1>5, <2>1, <3>1
    <3> QED
      BY <1>2, <1>4, <2>1, <3>2 DEF HistoryInv
  <2>2. ASSUME NEW t \in Tasks, task'[t] = "verifying"
        PROVE  attempt'[<<t, made'[t]>>].st = "settled"
    <3>1. t \notin batch /\ task[t] = "verifying" /\ made'[t] = made[t] /\ made[t] > 0
      BY <1>1, <2>2 DEF TypeInv, OpenWorkHasAttempt
    <3>2. Latest(t) \in Attempts /\ Latest(t) \notin fresh
      BY <1>2, <1>3, <3>1, LatestTyped DEF Latest
    <3> QED
      BY <1>4, <3>1, <3>2 DEF HistoryInv, Latest
  <2>3. \A t \in Tasks : floor'[t] <= made'[t] + 1
    BY <1>1, <1>2 DEF HistoryInv
  <2>4. \A a \in Attempts : Accounted(attempt'[a])
    BY <1>3, <1>4 DEF HistoryInv, Accounted, FreshAttempt
  <2>5. ASSUME NEW t \in Tasks, task'[t] = "running"
        PROVE  attempt'[<<t, made'[t]>>].ev = "none"
    <3>1. CASE t \in batch
      <4>1. <<t, made'[t]>> \in fresh
        BY <1>1, <3>1
      <4> QED
        BY <1>3, <4>1 DEF FreshAttempt
    <3>2. CASE t \notin batch
      <4>1. task[t] = "running" /\ made'[t] = made[t] /\ made[t] > 0
        BY <1>1, <2>5, <3>2 DEF TypeInv, OpenWorkHasAttempt
      <4>2. Latest(t) \in Attempts /\ Latest(t) \notin fresh
        BY <1>2, <1>3, <4>1, LatestTyped DEF Latest
      <4> QED
        BY <1>4, <4>1, <4>2 DEF HistoryInv, Latest
    <3> QED
      BY <3>1, <3>2
  <2> QED
    BY <2>1, <2>2, <2>3, <2>4, <2>5 DEF HistoryInv, Latest
<1> QED
  BY <1>6, <1>7, <1>8

(* Nothing is counted, begun or judged, and what is recorded of an attempt changes only while
   it is open: the invariant stands. *)
LEMMA HistoryFramed ==
    ASSUME TypeInv, OwnershipInv, HistoryInv, UNCHANGED <<made, floor, verif>>,
           \A a \in Attempts : \/ attempt'[a] = attempt[a]
                              \/ /\ Open(a) /\ attempt'[a].ev = attempt[a].ev
                                 /\ Accounted(attempt[a]) => Accounted(attempt'[a]),
           \A t \in Tasks : task'[t] \in Working => task[t] = task'[t]
    PROVE  HistoryInv' /\ CountersGrow
<1>1. made \in [Tasks -> Nat] /\ floor \in [Tasks -> Nat]
  BY GraphAssumption DEF TypeInv, TypeOK, ProjectionTypeOK
<1>2. ASSUME NEW a \in Attempts, a[2] > made'[a[1]]
      PROVE  attempt'[a] = FreshAttempt /\ verif'[a] = "none"
  <2>1. ~Open(a)
    BY <1>2 DEF HistoryInv, Open, FreshAttempt, Unresolved, InFlight
  <2> QED
    BY <1>2, <2>1 DEF HistoryInv
<1>3. ASSUME NEW t \in Tasks, task'[t] = "verifying"
      PROVE  attempt'[Latest(t)'].st = "settled"
  <2>1. task[t] = "verifying" /\ Latest(t)' = Latest(t) /\ Latest(t) \in Attempts
    BY <1>3, LatestTyped DEF Latest, TypeInv, OpenWorkHasAttempt, Working
  <2>2. attempt[Latest(t)].st = "settled"
    BY <2>1 DEF HistoryInv
  <2>3. ~Open(Latest(t))
    BY <2>2 DEF Open, Unresolved, InFlight
  <2> QED
    BY <2>1, <2>2, <2>3
<1>4. ASSUME NEW t \in Tasks, task'[t] = "running"
      PROVE  attempt'[Latest(t)'].ev = "none"
  <2>1. task[t] = "running" /\ Latest(t)' = Latest(t) /\ Latest(t) \in Attempts
    BY <1>4, LatestTyped DEF Latest, TypeInv, OpenWorkHasAttempt, Working
  <2> QED
    BY <2>1 DEF HistoryInv
<1>5. \A a \in Attempts : Accounted(attempt'[a])
  BY DEF HistoryInv
<1> QED
  BY <1>1, <1>2, <1>3, <1>4, <1>5 DEF HistoryInv, CountersGrow

(* No attempt is touched at all. *)
LEMMA HistoryStands ==
    ASSUME TypeInv, OwnershipInv, HistoryInv, UNCHANGED <<made, floor, verif, attempt>>,
           \A t \in Tasks : task'[t] \in Working => task[t] = task'[t]
    PROVE  HistoryInv' /\ CountersGrow /\ \A a \in Attempts : RecordMoves(a)
BY HistoryFramed, RecordStands

(* A retry only raises the floor: from then on the next attempt is the one to verify. *)
LEMMA RequeueMovesRecords ==
    ASSUME TypeInv, HistoryInv, NEW t \in Tasks, RequeueTask(t)
    PROVE  (\A a \in Attempts : RecordMoves(a)) /\ CountersGrow /\ HistoryInv'
<1>1. /\ UNCHANGED <<made, attempt, verif>> /\ task' = [task EXCEPT ![t] = "ready"]
      /\ floor' = [floor EXCEPT ![t] = made[t] + 1]
  BY DEF RequeueTask
<1>2. /\ made \in [Tasks -> Nat] /\ floor \in [Tasks -> Nat] /\ task \in [Tasks -> TaskStatus]
  BY GraphAssumption DEF TypeInv, TypeOK, ProjectionTypeOK
<1>3. \A a \in Attempts : RecordMoves(a)
  BY <1>1, RecordStands
<1>4. CountersGrow
  BY <1>1, <1>2 DEF CountersGrow, HistoryInv
<1>5. HistoryInv'
  BY <1>1, <1>2 DEF HistoryInv, Latest
<1> QED
  BY <1>3, <1>4, <1>5

(* A verdict is recorded once, for the settled attempt a running check judges. *)
LEMMA VerdictsMoveRecords ==
    ASSUME TypeInv, OwnershipInv, HistoryInv, NEW a \in Attempts, VerifyStep(a)
    PROVE  (\A b \in Attempts : RecordMoves(b)) /\ CountersGrow /\ HistoryInv'
<1>1. /\ attempt \in [Attempts -> AttemptRecord] /\ verif \in [Attempts -> VerifStatus]
      /\ task \in [Tasks -> TaskStatus] /\ made \in [Tasks -> Nat] /\ floor \in [Tasks -> Nat]
      /\ a[1] \in Tasks /\ a[2] \in Ordinals
  BY AttemptParts, GraphAssumption DEF TypeInv, TypeOK, ProjectionTypeOK
<1>2. CASE BeginVerification(a) \/ RecordVerdict(a)
  <2>1. /\ UNCHANGED <<made, floor>> /\ a = Latest(a[1]) /\ task[a[1]] = "verifying"
        /\ attempt[a].st = "settled" /\ ~(a[2] > made[a[1]])
    BY <1>1, <1>2, AttemptParts, GraphAssumption
       DEF BeginVerification, BeginAllowed, RecordVerdict, VerdictAllowed, IsLatest, Latest, HistoryInv,
           Ordinals
  <2>2. /\ verif[a] \in {"none", "running"}
        /\ \A b \in Attempts \ {a} : attempt'[b] = attempt[b] /\ verif'[b] = verif[b]
        /\ \A t \in Tasks \ {a[1]} : task'[t] = task[t]
        /\ attempt'[a].ev = attempt[a].ev /\ attempt'[a].neg = attempt[a].neg
        /\ attempt'[a].bind = attempt[a].bind
        /\ \A t \in Tasks : task'[t] = "running" => task[t] = "running"
        /\ \/ attempt'[a].st = attempt[a].st
           \/ attempt'[a].st \in {"completed", "verification_failed"} /\ task'[a[1]] # "verifying"
    <3>1. CASE BeginVerification(a)
      BY <1>1, <3>1, AttemptParts DEF BeginVerification, BeginAllowed, NeverVerified
    <3>2. CASE RecordVerdict(a)
      BY <1>1, <3>2 DEF RecordVerdict, VerdictAllowed, VerdictPassed, VerdictInconclusive, VerdictRetry,
                        VerdictExhausted, VerdictStop, JudgeTask, AttemptRecord
    <3> QED
      BY <1>2, <3>1, <3>2
  <2>3. RecordMoves(a)
    BY <2>1, <2>2, AttemptTable DEF RecordMoves
  <2>4. \A b \in Attempts : RecordMoves(b)
    BY <2>2, <2>3, RecordStands
  <2>5. CountersGrow
    BY <1>1, <2>1 DEF CountersGrow
  <2>6. \A b \in Attempts : b[2] > made[b[1]] => b # a
    BY <2>1
  <2>7. ASSUME NEW t \in Tasks, task'[t] = "verifying"
        PROVE  attempt'[Latest(t)].st = "settled"
    <3>1. CASE t = a[1]
      BY <2>1, <2>2, <2>7, <3>1
    <3>2. CASE t # a[1]
      <4>1. task[t] = "verifying" /\ Latest(t) # a /\ Latest(t) \in Attempts
        BY <2>1, <2>2, <2>7, <3>2, LatestTyped DEF Latest, TypeInv, OpenWorkHasAttempt
      <4> QED
        BY <2>2, <4>1 DEF HistoryInv
    <3> QED
      BY <3>1, <3>2
  <2>8. \A b \in Attempts : Accounted(attempt'[b])
    BY <2>1, <2>2 DEF HistoryInv, Accounted, Unresolved, InFlight
  <2>9. ASSUME NEW t \in Tasks, task'[t] = "running"
        PROVE  attempt'[Latest(t)].ev = "none"
    <3>1. task[t] = "running" /\ Latest(t) \in Attempts
      BY <2>2, <2>9, LatestTyped DEF TypeInv, OpenWorkHasAttempt
    <3> QED
      BY <2>2, <3>1 DEF HistoryInv
  <2>10. HistoryInv'
    BY <2>1, <2>2, <2>6, <2>7, <2>8, <2>9 DEF HistoryInv, Latest
  <2> QED
    BY <2>4, <2>5, <2>10
<1>3. CASE AutoRetry(a)
  BY <1>1, <1>3, RequeueMovesRecords DEF AutoRetry
<1>4. CASE VerifyRefused(a) \/ AutoRetryRefused(a)
  <2>1. UNCHANGED <<made, floor, verif, attempt, task>>
    BY <1>4 DEF VerifyRefused, AutoRetryRefused, durable
  <2> QED
    BY <2>1, HistoryStands
<1> QED
  BY <1>2, <1>3, <1>4 DEF VerifyStep

(* The executor: a start, an admission, a settlement. *)
LEMMA ExecutorMovesRecords ==
    ASSUME TypeInv, OwnershipInv, HistoryInv, NEW a \in Attempts,
           ExecutorStep(a) \/ ChildEnds(a) \/ ObservedSettle(a)
    PROVE  (\A b \in Attempts : RecordMoves(b)) /\ CountersGrow /\ HistoryInv'
<1> USE DEF durable
<1>1. /\ attempt \in [Attempts -> AttemptRecord] /\ task \in [Tasks -> TaskStatus]
      /\ a[1] \in Tasks
  BY AttemptParts DEF TypeInv, TypeOK, ProjectionTypeOK
<1>2. CASE SettleAttempt(a)
  <2> DEFINE asked == cancelAsked \/ attempt[a].stop
  <2>1. /\ attempt' = [attempt EXCEPT ![a].st = SettledAttempt(a, asked), ![a].ev = child[a]]
        /\ task' = [task EXCEPT ![a[1]] = SettledTask(a, asked)]
        /\ UNCHANGED <<made, floor, verif>> /\ Open(a) /\ child[a] \in ChildEndings
        /\ attempt[a].ev = "none" /\ attempt[a].st \in {"running", "unknown"}
    BY <1>2 DEF SettleAttempt, SettlementDue, Ended, Open, Unresolved, InFlight
  <2>2. SettledAttempt(a, asked) \in {"settled", "completed", "failed", "cancelled"}
    BY DEF SettledAttempt
  <2>3. SettledTask(a, asked) = "verifying" => SettledAttempt(a, asked) = "settled"
    BY <2>1 DEF SettledTask, SettledAttempt, ChildEndings
  <2> HIDE DEF asked
  <2>4. /\ attempt'[a].st = SettledAttempt(a, asked) /\ attempt'[a].neg = attempt[a].neg
        /\ attempt'[a].ev # "none"
        /\ \A b \in Attempts \ {a} : attempt'[b] = attempt[b]
    BY <1>1, <2>1 DEF AttemptRecord, ChildEndings
  <2>5. \A b \in Attempts : RecordMoves(b)
    BY <2>1, <2>2, <2>4, OneRecordMoves, AttemptTable, ZenonT(30)
  <2>6. a = Latest(a[1]) /\ ~(a[2] > made[a[1]])
    <3>1. attempt[a] # FreshAttempt
      BY <2>1 DEF FreshAttempt
    <3> QED
      BY <2>1, <3>1, AttemptParts DEF OwnershipInv, IsLatest, Latest, HistoryInv
  <2>7. ASSUME NEW t \in Tasks, task'[t] = "verifying"
        PROVE  attempt'[Latest(t)].st = "settled"
    <3>1. CASE t = a[1]
      BY <1>1, <2>1, <2>3, <2>4, <2>6, <2>7, <3>1
    <3>2. CASE t # a[1]
      <4>1. task[t] = "verifying" /\ Latest(t) # a /\ Latest(t) \in Attempts
        BY <1>1, <2>1, <2>6, <2>7, <3>2, LatestTyped DEF Latest, TypeInv, OpenWorkHasAttempt
      <4> QED
        BY <2>4, <4>1 DEF HistoryInv
    <3> QED
      BY <3>1, <3>2
  <2>8. made \in [Tasks -> Nat] /\ floor \in [Tasks -> Nat]
    BY GraphAssumption DEF TypeInv, TypeOK, ProjectionTypeOK
  <2>9. \A b \in Attempts : b[2] > made[b[1]] => b # a
    BY <2>6
  <2>10. \A b \in Attempts : Accounted(attempt'[b])
    BY <2>2, <2>4 DEF HistoryInv, Accounted
  <2>11. ASSUME NEW t \in Tasks, task'[t] = "running"
         PROVE  attempt'[Latest(t)].ev = "none"
    <3>1. SettledTask(a, asked) # "running"
      BY DEF SettledTask
    <3>2. t # a[1] /\ task[t] = "running"
      BY <1>1, <2>1, <2>11, <3>1
    <3>3. Latest(t) # a /\ Latest(t) \in Attempts
      BY <2>6, <3>2, LatestTyped DEF Latest, TypeInv, OpenWorkHasAttempt
    <3> QED
      BY <2>4, <3>2, <3>3 DEF HistoryInv
  <2>12. HistoryInv'
    BY <2>1, <2>4, <2>7, <2>9, <2>10, <2>11 DEF HistoryInv, Latest
  <2> QED
    BY <2>1, <2>5, <2>8, <2>12 DEF CountersGrow
<1>3. CASE StartRejected(a)
  <2>1. /\ UNCHANGED <<made, floor, verif>> /\ exec[a] = "launching"
        /\ \/ UNCHANGED <<task, attempt>>
           \/ \E outcome \in {"cancelled", "failed"} :
                /\ attempt' = [attempt EXCEPT ![a].st = outcome] /\ attempt[a].st = "dispatching"
                /\ task' = [task EXCEPT ![a[1]] = outcome]
    BY <1>3 DEF StartRejected
  <2>2. Open(a) /\ \A b \in Attempts \ {a} : attempt'[b] = attempt[b]
    BY <1>1, <2>1 DEF OwnershipInv
  <2>3. \A t \in Tasks : task'[t] \in Working => task[t] = task'[t]
    BY <1>1, <2>1 DEF Working
  <2>4. /\ InTwoSteps(AttemptStep, attempt[a].st, attempt'[a].st)
        /\ attempt'[a].ev = attempt[a].ev /\ attempt'[a].neg = attempt[a].neg
        /\ Accounted(attempt[a]) => Accounted(attempt'[a])
    BY <1>1, <2>1, AttemptTable DEF AttemptRecord, Accounted
  <2> QED
    BY <2>1, <2>2, <2>3, <2>4, OneRecordMoves, HistoryFramed
<1>4. CASE AdmitAttempt(a)
  <2>1. /\ UNCHANGED <<task, made, floor, verif>> /\ Open(a) /\ attempt[a].st = "dispatching"
        /\ attempt' = [attempt EXCEPT ![a].st = "running", ![a].bind = "admitted"]
    BY <1>4 DEF AdmitAttempt, Open, Unresolved, InFlight
  <2>2. \A b \in Attempts \ {a} : attempt'[b] = attempt[b]
    BY <1>1, <2>1
  <2>3. /\ attempt'[a].st = "running" /\ attempt'[a].ev = attempt[a].ev
        /\ attempt'[a].neg = attempt[a].neg
    BY <1>1, <2>1 DEF AttemptRecord
  <2>4. Accounted(attempt'[a])
    BY <2>3 DEF Accounted, Unresolved, InFlight
  <2> QED
    BY <2>1, <2>2, <2>3, <2>4, AttemptTable, OneRecordMoves, HistoryFramed
<1>5. CASE StartChild(a) \/ AdmissionLost(a) \/ SettleWithoutEffect(a) \/ ChildEnds(a)
  BY <1>5, HistoryStands DEF StartChild, AdmissionLost, SettleWithoutEffect, ChildEnds
<1> QED
  BY <1>2, <1>3, <1>4, <1>5 DEF ExecutorStep, Settle, ObservedSettle

(* The controls: a stop is noted on an open attempt, a retry raises the floor. *)
LEMMA ControlsMoveRecords ==
    ASSUME TypeInv, OwnershipInv, HistoryInv, Control
    PROVE  (\A b \in Attempts : RecordMoves(b)) /\ CountersGrow /\ HistoryInv'
<1>1. /\ attempt \in [Attempts -> AttemptRecord] /\ task \in [Tasks -> TaskStatus]
  BY DEF TypeInv, TypeOK, ProjectionTypeOK
<1>2. ASSUME NEW t \in Tasks, StopTask(t)
      PROVE  (\A b \in Attempts : RecordMoves(b)) /\ CountersGrow /\ HistoryInv'
  <2> DEFINE a == Latest(t)
  <2>1. /\ UNCHANGED <<task, made, floor, verif>> /\ Open(a) /\ a \in Attempts
        /\ attempt' = [attempt EXCEPT ![a].stop = TRUE]
    BY <1>2, LatestTyped DEF StopTask, Open, Unresolved
  <2> HIDE DEF a
  <2>2. /\ \A b \in Attempts \ {a} : attempt'[b] = attempt[b]
        /\ attempt'[a].st = attempt[a].st /\ attempt'[a].ev = attempt[a].ev
        /\ attempt'[a].neg = attempt[a].neg /\ attempt'[a].bind = attempt[a].bind
    BY <1>1, <2>1 DEF AttemptRecord
  <2>3. Accounted(attempt[a]) => Accounted(attempt'[a])
    BY <2>2 DEF Accounted
  <2> QED
    BY <2>1, <2>2, <2>3, AttemptTable, OneRecordMoves, HistoryFramed
<1>3. ASSUME NEW t \in Tasks, RetryTask(t)
      PROVE  (\A b \in Attempts : RecordMoves(b)) /\ CountersGrow /\ HistoryInv'
  BY <1>3, RequeueMovesRecords DEF RetryTask
<1>4. CASE Pause \/ Resume \/ Cancel \/ CancelDormant
  <2>1. /\ UNCHANGED <<made, floor, verif, attempt>>
        /\ \/ UNCHANGED task
           \/ task' = CancelSchedulable(task)
           \/ task' = CancelUnfinished(task)
    BY <1>4 DEF Pause, Resume, Cancel, CancelDormant, CancelGraph, UnchangedGraph
  <2>2. \A t \in Tasks : task'[t] \in Working => task[t] = task'[t]
    BY <2>1 DEF CancelSchedulable, CancelUnfinished, Working
  <2> QED
    BY <2>1, <2>2, HistoryStands
<1> QED
  BY <1>2, <1>3, <1>4 DEF Control

(* Recovery changes the record of open attempts only. *)
LEMMA RecoveryMovesRecords ==
    ASSUME TypeInv, OwnershipInv, HistoryInv, Recovery \/ Crash
    PROVE  (\A b \in Attempts : RecordMoves(b)) /\ CountersGrow /\ HistoryInv'
<1> USE DEF durable
<1>1. /\ attempt \in [Attempts -> AttemptRecord] /\ task \in [Tasks -> TaskStatus]
  BY DEF TypeInv, TypeOK, ProjectionTypeOK
<1>2. ASSUME NEW a \in Attempts, NEW decision \in {"failed", "cancelled"}, Resolve(a, decision)
      PROVE  (\A b \in Attempts : RecordMoves(b)) /\ CountersGrow /\ HistoryInv'
  <2> DEFINE closed == [task EXCEPT ![a[1]] = decision]
  <2>1. /\ UNCHANGED <<made, floor, verif>> /\ Open(a) /\ attempt[a].st = "unknown"
        /\ attempt' = [attempt EXCEPT ![a].st = decision, ![a].neg = TRUE]
        /\ task' = closed \/ task' = CancelUnfinished(closed)
    BY <1>2 DEF Resolve, Open, Unresolved
  <2>2. /\ \A b \in Attempts \ {a} : attempt'[b] = attempt[b]
        /\ attempt'[a].st = decision /\ attempt'[a].ev = attempt[a].ev /\ attempt'[a].neg
    BY <1>1, <2>1 DEF AttemptRecord
  <2>3. \A t \in Tasks : closed[t] \in Working => task[t] = closed[t]
    BY <1>1 DEF Working
  <2>4. \A t \in Tasks : CancelUnfinished(closed)[t] \in {closed[t], "cancelled"}
    BY DEF CancelUnfinished
  <2>5. \A t \in Tasks : task'[t] \in Working => task[t] = task'[t]
    BY <2>1, <2>3, <2>4 DEF Working
  <2>6. Accounted(attempt'[a])
    BY <2>2 DEF Accounted
  <2> QED
    BY <2>1, <2>2, <2>5, <2>6, AttemptTable, OneRecordMoves, HistoryFramed
<1>3. CASE CommitReconcile
  <2>1. UNCHANGED <<task, made, floor, verif>>
    BY <1>3 DEF CommitReconcile
  <2>2. \A a \in Attempts :
           \/ attempt'[a] = attempt[a]
           \/ /\ Open(a) /\ attempt'[a].st = "unknown" /\ attempt'[a].ev = attempt[a].ev
              /\ attempt'[a].neg = attempt[a].neg
    <3> TAKE a \in Attempts
    <3>1. attempt[a] \in AttemptRecord
      BY <1>1
    <3>2. CASE scan.seen[a] = "none"
      BY <1>3, <3>2 DEF CommitReconcile
    <3>3. CASE scan.seen[a] # "none"
      <4>1. Open(a)
        BY <3>3 DEF OwnershipInv
      <4>2. attempt'[a] = [attempt[a] EXCEPT
                  !.st = "unknown", !.seen = scan.seen[a],
                  !.bind = IF @ = "unbound" /\ scan.seen[a] \in {"live", "durable"}
                           THEN "recovered" ELSE @]
        BY <1>3, <3>3 DEF CommitReconcile
      <4>3. /\ attempt'[a].st = "unknown" /\ attempt'[a].ev = attempt[a].ev
            /\ attempt'[a].neg = attempt[a].neg
        BY <3>1, <4>2 DEF AttemptRecord
      <4> QED
        BY <4>1, <4>3
    <3> QED
      BY <3>2, <3>3
  <2>3. \A a \in Attempts : RecordMoves(a)
    BY <2>1, <2>2, RecordStands, AttemptTable DEF RecordMoves, Open, Unresolved, InFlight
  <2>4. \A a \in Attempts : attempt'[a].st = "unknown" => Accounted(attempt'[a])
    BY DEF Accounted, Unresolved
  <2> QED
    BY <2>1, <2>2, <2>3, <2>4, HistoryFramed
<1>4. CASE ConfirmOwned
  <2>1. UNCHANGED <<task, made, floor, verif>>
    BY <1>4 DEF ConfirmOwned
  <2>2. \A a \in Attempts :
           \/ attempt'[a] = attempt[a]
           \/ /\ Open(a) /\ attempt[a].st = "unknown" /\ attempt'[a].st = "running"
              /\ attempt'[a].ev = attempt[a].ev /\ attempt'[a].neg = attempt[a].neg
    BY <1>1, <1>4 DEF ConfirmOwned, UnresolvedAttempts, Open, AttemptRecord
  <2>3. \A a \in Attempts : RecordMoves(a)
    BY <2>1, <2>2, RecordStands, AttemptTable DEF RecordMoves
  <2>4. \A a \in Attempts : attempt'[a].st = "running" => Accounted(attempt'[a])
    BY DEF Accounted, Unresolved, InFlight
  <2> QED
    BY <2>1, <2>2, <2>3, <2>4, HistoryFramed
<1>5. CASE \/ \E by \in {"startup", "user"} : Observe(by)
           \/ ClearOrphans \/ ClearFromJournal \/ ClearToRunning \/ CloseCancellation
           \/ RecoverDormant \/ Crash
  <2>1. UNCHANGED <<made, floor, verif, attempt>> /\ (UNCHANGED task \/ task' = CancelUnfinished(task))
    BY <1>5 DEF Observe, ClearOrphans, ClearFromJournal, ClearToRunning, CloseCancellation,
                RecoverDormant, Crash, UnchangedGraph
  <2>2. \A t \in Tasks : task'[t] \in Working => task[t] = task'[t]
    BY <2>1 DEF CancelUnfinished, Working
  <2> QED
    BY <2>1, <2>2, HistoryStands
<1> QED
  BY <1>2, <1>3, <1>4, <1>5 DEF Recovery

(* Every step keeps the invariant and moves the records along their table. *)
LEMMA StepsMoveRecords ==
    ASSUME TypeInv, OwnershipInv, HistoryInv, [Next]_vars
    PROVE  (\A a \in Attempts : RecordMoves(a)) /\ CountersGrow /\ HistoryInv'
<1> USE DEF durable
<1>1. CASE RunnerStep \/ RunnerFails \/ WakeRunner \/ CancelReturns
  <2>1. CASE ~Dispatch
    <3>1. UNCHANGED <<made, floor, verif, attempt>>
      BY <1>1, <2>1 DEF RunnerStep, RunnerFails, PersistSchedule, DispatchRefused, StartPass, CompleteTeam,
                  NoProgress, RunnerStops, MarkRunnerFailure, WakeRunner, CancelReturns, UnchangedGraph
    <3>2. \A t \in Tasks : task'[t] \in Working => task[t] = task'[t]
      BY <1>1, <2>1 DEF RunnerStep, RunnerFails, PersistSchedule, DispatchRefused, StartPass, CompleteTeam,
                  NoProgress, RunnerStops, MarkRunnerFailure, WakeRunner, CancelReturns, UnchangedGraph,
                  Working
    <3> QED
      BY <3>1, <3>2, HistoryStands
  <2> QED
    BY <2>1, DispatchMovesRecords
<1>2. CASE UNCHANGED vars
  BY <1>2, HistoryStands DEF vars
<1> QED
  BY <1>1, <1>2, VerdictsMoveRecords, ExecutorMovesRecords, ControlsMoveRecords, RecoveryMovesRecords
     DEF Next

(* Every record of a Team is accounted for, at any time: the inductive invariant. *)
THEOREM HistoryInvariant == Spec => []HistoryInv
<1>1. Init => HistoryInv
  BY GraphAssumption DEF Init, ProjectionInit, HistoryInv, Accounted, FreshAttempt
<1>2. TypeInv /\ OwnershipInv /\ HistoryInv /\ [Next]_vars => HistoryInv'
  BY StepsMoveRecords
<1> QED
  BY <1>1, <1>2, TypeInvariant, OwnershipInvariant, PTL DEF Spec

(* The journal never rewrites an outcome: whatever happens, evidence, closed attempts and final
   verdicts stay, and every status moves along its table. *)
THEOREM HistoryWasKept == Spec => HistoryIsKept
<1>1. TypeInv /\ OwnershipInv /\ HistoryInv /\ [Next]_vars =>
        [/\ InTwoSteps(TeamStep, team, team')
         /\ \A a \in Attempts :
              /\ InTwoSteps(AttemptStep, attempt[a].st, attempt'[a].st)
              /\ attempt[a].ev # "none" => attempt'[a].ev = attempt[a].ev
              /\ attempt[a].neg => attempt'[a].neg
              /\ verif[a] \notin {"none", "running"} => verif'[a] = verif[a]
         /\ \A t \in Tasks : made'[t] >= made[t] /\ floor'[t] >= floor[t]]_vars
  BY StepsMoveTeam, StepsMoveRecords DEF RecordMoves, CountersGrow
<1> QED
  BY <1>1, HistoryInvariant, TypeInvariant, OwnershipInvariant, PTL DEF Spec, HistoryIsKept

----
(* What the runner plans over is consistent, and stays within the limit *)

(* A set of natural numbers has a least element. *)
LEMMA LeastNatural ==
    ASSUME NEW T \in SUBSET Nat, T # {}
    PROVE  \E x \in T : \A y \in T : x <= y
<1>1. PICK x \in T : \A y \in T : ~(<<y, x>> \in OpToRel(<, Nat))
  BY NatLessThanWellFounded, WFMin
<1>2. \A y \in T : ~(y < x)
  BY <1>1 DEF OpToRel
<1> QED
  BY <1>2

(* And a greatest one when it is bounded: the least of its bounds. *)
LEMMA GreatestNatural ==
    ASSUME NEW T \in SUBSET Nat, T # {}, NEW n \in Nat, \A y \in T : y <= n
    PROVE  \E x \in T : \A y \in T : y <= x
<1> DEFINE B == {b \in Nat : \A y \in T : y <= b}
<1>1. PICK b \in B : \A c \in B : b <= c
  <2>1. n \in B
    OBVIOUS
  <2> QED
    BY <2>1, LeastNatural
<1>2. CASE b \in T
  BY <1>2
<1>3. CASE b \notin T
  <2>1. \A y \in T : y < b
    BY <1>3
  <2>2. b - 1 \in B
    <3>1. b > 0
      <4>1. PICK y \in T : TRUE
        OBVIOUS
      <4>2. y \in Nat /\ b \in Nat /\ y < b
        BY <1>1, <2>1
      <4> QED
        BY <4>2
    <3>2. \A y \in T : y <= b - 1
      BY <1>1, <2>1
    <3> QED
      BY <3>1, <3>2
  <2> QED
    BY <1>1, <2>2
<1> QED
  BY <1>2, <1>3

(* The tasks of a Team are finitely many. *)
LEMMA TasksFinite ==
    ASSUME NEW S \in SUBSET Tasks
    PROVE  IsFiniteSet(S) /\ Cardinality(S) \in Nat /\ Cardinality(S) <= NumTasks
<1>1. IsFiniteSet(Tasks) /\ Cardinality(Tasks) = NumTasks
  BY GraphAssumption, FS_Interval DEF Tasks
<1> QED
  BY <1>1, FS_Subset, FS_CardinalityType

(* A batch has a task that was selected last: all others precede it. *)
LEMMA LastOfBatch ==
    ASSUME NEW batch \in SUBSET Tasks, batch # {}
    PROVE  \E t \in batch : \A u \in batch \ {t} : Precedes(u, t)
<1> DEFINE Degrees == {ConflictDegree(t) : t \in batch}
<1>1. /\ NumTasks \in Nat /\ Tasks \subseteq Nat
      /\ \A t \in batch : ConflictDegree(t) \in Nat /\ ConflictDegree(t) <= NumTasks
  BY GraphAssumption, TasksFinite DEF Tasks, ConflictDegree, Eligible, Candidates
<1>2. PICK d \in Degrees : \A e \in Degrees : e <= d
  <2>1. Degrees # {} /\ Degrees \subseteq Nat /\ \A e \in Degrees : e <= NumTasks
    BY <1>1
  <2> HIDE DEF Degrees
  <2> QED
    BY <1>1, <2>1, GreatestNatural
<1> DEFINE Most == {t \in batch : ConflictDegree(t) = d}
<1>3. PICK t \in Most : \A u \in Most : u <= t
  <2>1. Most # {} /\ Most \subseteq Nat /\ \A u \in Most : u <= NumTasks
    BY <1>1, <1>2 DEF Tasks
  <2> QED
    BY <1>1, <2>1, GreatestNatural
<1>4. \A u \in batch \ {t} : Precedes(u, t)
  <2> TAKE u \in batch \ {t}
  <2>1. ConflictDegree(u) <= d /\ ConflictDegree(t) = d /\ d \in Nat /\ ConflictDegree(u) \in Nat
    BY <1>1, <1>2
  <2>2. u \in Nat /\ t \in Nat
    BY <1>1
  <2>3. CASE ConflictDegree(u) = d
    BY <1>3, <2>1, <2>2, <2>3 DEF Precedes
  <2>4. CASE ConflictDegree(u) # d
    BY <2>1, <2>4 DEF Precedes
  <2> QED
    BY <2>3, <2>4
<1> QED
  BY <1>4

(* A batch never takes more tasks than there are free slots. *)
LEMMA BatchFitsSlots ==
    ASSUME NEW batch \in SUBSET Eligible, IsBatch(batch), batch # {}, FreeSlots \in Int
    PROVE  Cardinality(batch) <= FreeSlots
<1>1. batch \subseteq Tasks
  BY DEF Eligible, Candidates
<1>2. PICK t \in batch : \A u \in batch \ {t} : Precedes(u, t)
  BY <1>1, LastOfBatch
<1> DEFINE earlier == {u \in batch : Precedes(u, t)}
<1>3. Cardinality(earlier) < FreeSlots
  BY <1>2 DEF IsBatch
<1>4. ~Precedes(t, t)
  <2>1. ConflictDegree(t) \in Nat /\ t \in Int
    BY <1>1, ConflictDegreeTyped, GraphAssumption DEF Tasks
  <2> QED
    BY <2>1 DEF Precedes
<1>5. earlier = batch \ {t}
  BY <1>2, <1>4
<1>6. Cardinality(batch \ {t}) = Cardinality(batch) - 1 /\ Cardinality(batch) \in Nat
  BY <1>1, TasksFinite, FS_RemoveElement
<1> QED
  BY <1>3, <1>5, <1>6

(* Tasks with work whose outcome is not known. *)
OpenTasks == {t \in Tasks : \E n \in Ordinals : Open(<<t, n>>)}

(* The inductive invariant: what is open fits the limit of the Team and is of one authority
   mode.  It counts the unknown attempts too, which ActiveTasks does not: a gate that is undone
   makes them active again. *)
PlanInv ==
    /\ Cardinality(OpenTasks) <= Concurrency
    /\ \A t, u \in OpenTasks : (t \in Writers) = (u \in Writers)

(* The plan of a running Team counts all that is open. *)
LEMMA RunningHidesNothing ==
    ASSUME UnknownIsGated, team = "running"
    PROVE  OpenTasks = ActiveTasks
<1>1. \A a \in Attempts : Open(a) <=> attempt[a].st \in InFlight
  BY DEF UnknownIsGated, Open, Unresolved
<1>2. \A t \in Tasks, n \in Ordinals : <<t, n>> \in Attempts
  BY DEF Attempts
<1> QED
  BY <1>1, <1>2 DEF OpenTasks, ActiveTasks

(* A batch joins the work in progress in one mode. *)
LEMMA BatchKeepsMode ==
    ASSUME NEW batch \in SUBSET Eligible,
           \A t, u \in ActiveTasks : (t \in Writers) = (u \in Writers)
    PROVE  \A t, u \in ActiveTasks \union batch : (t \in Writers) = (u \in Writers)
<1>1. Tasks \subseteq Int /\ ModeLeaders \subseteq Tasks
  <2>1. Tasks \subseteq Int /\ ActiveTasks \subseteq Tasks /\ Candidates \subseteq Tasks
    BY GraphAssumption DEF Tasks, ActiveTasks, Candidates
  <2>2. ModeLeaders \subseteq ActiveTasks \/ ModeLeaders \subseteq Candidates
    BY DEF ModeLeaders
  <2> QED
    BY <2>1, <2>2
<1>2. \A m, n \in ModeLeaders : m = n
  <2> SUFFICES ASSUME NEW m \in ModeLeaders, NEW n \in ModeLeaders PROVE m = n
    OBVIOUS
  <2>1. m <= n /\ n <= m
    BY DEF ModeLeaders
  <2> QED
    BY <1>1, <2>1
<1>3. \A t \in batch : \E m \in ModeLeaders : (m \in Writers) = (t \in Writers)
  BY DEF Eligible
<1>4. \A t, u \in batch : (t \in Writers) = (u \in Writers)
  <2> SUFFICES ASSUME NEW t \in batch, NEW u \in batch PROVE (t \in Writers) = (u \in Writers)
    OBVIOUS
  <2>1. PICK m \in ModeLeaders : (m \in Writers) = (t \in Writers)
    BY <1>3
  <2>2. PICK n \in ModeLeaders : (n \in Writers) = (u \in Writers)
    BY <1>3
  <2> QED
    BY <1>2, <2>1, <2>2
<1>5. \A t \in batch, u \in ActiveTasks : (t \in Writers) = (u \in Writers)
  <2> SUFFICES ASSUME NEW t \in batch, NEW u \in ActiveTasks
               PROVE (t \in Writers) = (u \in Writers)
    OBVIOUS
  <2>1. PICK m \in ModeLeaders : (m \in Writers) = (t \in Writers)
    BY <1>3
  <2>2. m \in ActiveTasks
    BY <2>1 DEF ModeLeaders
  <2> QED
    BY <2>1, <2>2
<1> QED
  BY <1>4, <1>5

(* Every step keeps the plan within its limits; only a dispatch opens anything. *)
LEMMA PlanInductive ==
    ASSUME TypeInv, OwnershipInv, UnknownIsGated, PlanInv, [Next]_vars
    PROVE  PlanInv'
<1>1. /\ OpenTasks \subseteq Tasks /\ IsFiniteSet(OpenTasks) /\ Cardinality(OpenTasks) \in Nat
      /\ Concurrency \in Nat
  BY TasksFinite, ConcurrencyAssumption DEF OpenTasks
<1>2. \A t \in Tasks, n \in Ordinals : <<t, n>> \in Attempts
  BY DEF Attempts
<1>3. CASE ~Dispatch
  <2>1. OpenTasks' \subseteq OpenTasks
    BY <1>2, <1>3, OpenShrinks DEF OpenTasks
  <2>2. Cardinality(OpenTasks') <= Cardinality(OpenTasks) /\ Cardinality(OpenTasks') \in Nat
    BY <1>1, <2>1, FS_Subset, FS_CardinalityType
  <2>3. Cardinality(OpenTasks') <= Concurrency
    BY <1>1, <2>2 DEF PlanInv
  <2> QED
    BY <2>1, <2>3 DEF PlanInv
<1>4. CASE Dispatch
  <2>1. PICK batch \in SUBSET Eligible :
            LET fresh == {<<t, made[t] + 1>> : t \in batch}
            IN  /\ batch # {} /\ IsBatch(batch)
                /\ attempt' = [a \in Attempts |-> IF a \in fresh
                                                  THEN [FreshAttempt EXCEPT !.st = "dispatching"]
                                                  ELSE attempt[a]]
    BY <1>4 DEF Dispatch
  <2> DEFINE fresh == {<<t, made[t] + 1>> : t \in batch}
  <2>2. team = "running" /\ OpenTasks = ActiveTasks
    BY <1>4, RunningHidesNothing DEF Dispatch, MayAct
  <2>3. batch \subseteq Tasks /\ \A a \in fresh : a[1] \in batch
    BY DEF Eligible, Candidates
  <2>4. OpenTasks' \subseteq ActiveTasks \union batch
    <3> SUFFICES ASSUME NEW t \in Tasks, NEW n \in Ordinals, Open(<<t, n>>)', t \notin batch
                 PROVE  t \in OpenTasks
      BY <2>2 DEF OpenTasks
    <3>1. <<t, n>> \in Attempts /\ <<t, n>> \notin fresh
      BY <1>2, <2>3
    <3>2. Open(<<t, n>>)
      BY <2>1, <3>1 DEF Open
    <3> QED
      BY <3>2 DEF OpenTasks
  <2>5. FreeSlots \in Int /\ FreeSlots + Cardinality(ActiveTasks) = Concurrency
    BY <1>1, <2>2 DEF FreeSlots
  <2>6. /\ Cardinality(batch) <= FreeSlots
        /\ IsFiniteSet(batch) /\ Cardinality(batch) \in Nat
    BY <2>1, <2>3, <2>5, BatchFitsSlots, TasksFinite
  <2>7. /\ IsFiniteSet(ActiveTasks \union batch)
        /\ Cardinality(ActiveTasks \union batch) <= Concurrency
    <3>1. /\ IsFiniteSet(ActiveTasks \union batch)
          /\ Cardinality(ActiveTasks \union batch)
                = Cardinality(ActiveTasks) + Cardinality(batch) - Cardinality(ActiveTasks \cap batch)
      BY <1>1, <2>2, <2>6, FS_Union
    <3>2. Cardinality(ActiveTasks \cap batch) \in Nat
      BY <2>3, TasksFinite
    <3> QED
      BY <1>1, <2>2, <2>5, <2>6, <3>1, <3>2
  <2>8. Cardinality(OpenTasks') <= Concurrency
    <3>1. /\ Cardinality(OpenTasks') <= Cardinality(ActiveTasks \union batch)
          /\ Cardinality(OpenTasks') \in Nat /\ Cardinality(ActiveTasks \union batch) \in Nat
      BY <2>4, <2>7, FS_Subset, FS_CardinalityType
    <3> QED
      BY <1>1, <2>7, <3>1
  <2>9. \A t, u \in OpenTasks' : (t \in Writers) = (u \in Writers)
    BY <2>2, <2>4, BatchKeepsMode DEF PlanInv
  <2> QED
    BY <2>8, <2>9 DEF PlanInv
<1> QED
  BY <1>3, <1>4

(* A graph without unknown outcomes whose history is accounted for is never one to gate. *)
LEMMA RunningGraphIsSafe ==
    ASSUME TypeInv, OwnershipInv, UnknownIsGated, HistoryInv, LeasesAreExclusive, PlanInv,
           team = "running"
    PROVE  ~UnsafeGraph
<1>1. \A a \in Attempts : a[1] \in Tasks /\ a = <<a[1], a[2]>>
  BY AttemptParts
<1>2. \A t \in Tasks, n \in Ordinals : <<t, n>> \in Attempts
  BY DEF Attempts
<1>3. ~ReconciliationGap(task, attempt)
  <2> SUFFICES ASSUME NEW a \in Attempts
               PROVE  /\ attempt[a].st # "unknown"
                      /\ attempt[a].st \in InFlight => task[a[1]] = "running"
                      /\ attempt[a].bind # "unbound" /\ attempt[a].ev = "none" /\ ~attempt[a].neg
                            => attempt[a].st \in InFlight
                      /\ IsLatest(a) /\ task[a[1]] = "running"
                            => attempt[a].ev \notin CompletedEndings
    BY DEF ReconciliationGap
  <2>1. attempt[a].st # "unknown"
    BY DEF UnknownIsGated
  <2>2. attempt[a].st \in InFlight => task[a[1]] = "running"
    BY DEF OwnershipInv, Open, Unresolved
  <2>3. attempt[a].bind # "unbound" /\ attempt[a].ev = "none" /\ ~attempt[a].neg
            => attempt[a].st \in InFlight
    BY <2>1 DEF HistoryInv, Accounted, Unresolved
  <2>4. IsLatest(a) /\ task[a[1]] = "running" => attempt[a].ev \notin CompletedEndings
    <3>1. IsLatest(a) => a = Latest(a[1])
      BY <1>1 DEF IsLatest, Latest
    <3> QED
      BY <1>1, <3>1 DEF HistoryInv, CompletedEndings, ChildEndings
  <2> QED
    BY <2>1, <2>2, <2>3, <2>4
<1>4. \A t \in Tasks : \A m, n \in Ordinals :
          attempt[<<t, m>>].st \in InFlight /\ attempt[<<t, n>>].st \in InFlight => m = n
  BY <1>2 DEF OwnershipInv, Open, Unresolved, IsLatest
<1>5. \A t, u \in ActiveTasks : t # u => ~TasksConflict(t, u) /\ (t \in Writers) = (u \in Writers)
  <2> SUFFICES ASSUME NEW t \in ActiveTasks, NEW u \in ActiveTasks, t # u
               PROVE  ~TasksConflict(t, u) /\ (t \in Writers) = (u \in Writers)
    OBVIOUS
  <2>1. t \in OpenTasks /\ u \in OpenTasks
    BY RunningHidesNothing
  <2>2. PICK m \in Ordinals : Open(<<t, m>>)
    BY <2>1 DEF OpenTasks
  <2>3. PICK n \in Ordinals : Open(<<u, n>>)
    BY <2>1 DEF OpenTasks
  <2>4. <<t, m>> \in lease /\ <<u, n>> \in lease /\ <<t, m>> # <<u, n>>
    BY <1>2, <2>1, <2>2, <2>3 DEF OwnershipInv, OpenTasks
  <2>5. ~LeasesConflict(t, u)
    BY <2>4 DEF LeasesAreExclusive
  <2> QED
    BY <2>1, <2>5 DEF PlanInv, LeasesConflict, TasksConflict
<1> QED
  BY <1>3, <1>4, <1>5 DEF UnsafeGraph

(* What is open, unknown or not, always fits the limit and the mode of its Team. *)
THEOREM PlanInvariant == Spec => []PlanInv
<1>1. Init => PlanInv
  <2> SUFFICES ASSUME Init PROVE PlanInv
    OBVIOUS
  <2>1. OpenTasks = {}
    BY DEF Init, ProjectionInit, FreshAttempt, OpenTasks, Open, Unresolved, InFlight, Attempts
  <2> QED
    BY <2>1, FS_EmptySet, ConcurrencyAssumption DEF PlanInv
<1>2. TypeInv /\ OwnershipInv /\ UnknownIsGated /\ PlanInv /\ [Next]_vars => PlanInv'
  BY PlanInductive
<1> QED
  BY <1>1, <1>2, TypeInvariant, OwnershipInvariant, UnknownStaysGated, PTL DEF Spec

(* PlanIsSafe: the runner never plans over a graph it would have to gate as unsafe, and never
   hands out more than the limit, several modes at once, or one task twice. *)
THEOREM PlansAreSafe == Spec => []PlanIsSafe
<1>1. TypeInv /\ OwnershipInv /\ UnknownIsGated /\ HistoryInv /\ LeasesAreExclusive /\ PlanInv
        => PlanIsSafe
  <2> SUFFICES ASSUME TypeInv, OwnershipInv, UnknownIsGated, HistoryInv, LeasesAreExclusive, PlanInv
               PROVE  PlanIsSafe
    OBVIOUS
  <2>1. ActiveTasks \subseteq OpenTasks /\ OpenTasks \subseteq Tasks
    BY DEF ActiveTasks, OpenTasks, Open, Unresolved
  <2>2. Cardinality(ActiveTasks) <= Concurrency
    <3>1. /\ Cardinality(ActiveTasks) <= Cardinality(OpenTasks)
          /\ Cardinality(ActiveTasks) \in Nat /\ Cardinality(OpenTasks) \in Nat
      BY <2>1, TasksFinite, FS_Subset
    <3> QED
      BY <3>1, ConcurrencyAssumption DEF PlanInv
  <2>3. \A t \in Tasks : \A m, n \in Ordinals :
            attempt[<<t, m>>].st \in Unresolved /\ attempt[<<t, n>>].st \in Unresolved => m = n
    <3>1. \A t \in Tasks, n \in Ordinals : <<t, n>> \in Attempts
      BY DEF Attempts
    <3> QED
      BY <3>1 DEF OwnershipInv, Open, IsLatest
  <2> QED
    BY <2>1, <2>2, <2>3, RunningGraphIsSafe DEF PlanIsSafe, PlanInv
<1> QED
  BY <1>1, TypeInvariant, OwnershipInvariant, UnknownStaysGated, HistoryInvariant, LeasesExclude,
     PlanInvariant, PTL
=============================================================================
