---- MODULE TeamSchedule ----
(***************************************************************************)
(* The plan the runner computes from a replayed projection: which tasks    *)
(* become blocked or unblocked, and which tasks the next batch dispatches. *)
(***************************************************************************)
EXTENDS TeamProjection

CONSTANT Concurrency    \* maxConcurrency of the Team

ASSUME ConcurrencyAssumption == Concurrency \in Nat \ {0}

\* Planner's view: writers collide when serialised or when their scopes overlap.
TasksConflict(t, u) ==
    /\ t \in Writers /\ u \in Writers
    /\ StrictSerial \/ <<t, u>> \in Overlap

\* Lease manager's view: a reader collides with a writer whose scope overlaps.
LeasesConflict(t, u) ==
    /\ t \in Writers \/ u \in Writers
    /\ \/ StrictSerial /\ t \in Writers /\ u \in Writers
       \/ <<t, u>> \in Overlap

\* The worker itself reported that it cannot complete.
SemanticBlock(t) ==
    /\ task[t] = "blocked" /\ made[t] > 0
    /\ attempt[Latest(t)].ev \in ChildEndings \ {"done"}
    /\ made[t] >= floor[t]

BlocksDependents[t \in Tasks] ==
    \/ task[t] \in {"failed", "cancelled"}
    \/ SemanticBlock(t)
    \/ task[t] = "blocked" /\ Deps[t] = {}
    \/ task[t] \in Schedulable /\ \E d \in Deps[t] : BlocksDependents[d]

BlockedTasks ==
    {t \in Tasks : \/ SemanticBlock(t)
                   \/ task[t] \in Schedulable /\ \E d \in Deps[t] : BlocksDependents[d]}

NewlyBlocked == {t \in BlockedTasks : task[t] \in {"pending", "ready"}}

Unblocked == {t \in Tasks \ BlockedTasks : task[t] = "blocked"}

ActiveTasks == {t \in Tasks : \E n \in Ordinals : attempt[<<t, n>>].st \in InFlight}

\* Facts no scheduler of a correct history meets; the plan asks for reconciliation.
UnsafeGraph ==
    \/ ReconciliationGap(task, attempt)
    \/ \E t \in Tasks : \E m, n \in Ordinals :
            m # n /\ attempt[<<t, m>>].st \in InFlight /\ attempt[<<t, n>>].st \in InFlight
    \/ \E t, u \in ActiveTasks :
            t # u /\ (TasksConflict(t, u) \/ (t \in Writers) # (u \in Writers))

\* Mutant: reported done is enough, verification may follow.
DependenciesReported(t) == \A d \in Deps[t] : task[d] \in {"completed", "verifying"}

DependenciesCompleted(t) == \A d \in Deps[t] : task[d] = "completed"

Candidates ==
    {t \in Tasks \ (ActiveTasks \union BlockedTasks) :
        task[t] \in {"pending", "ready"} /\ DependenciesCompleted(t)}

\* One batch has one authority mode: that of the running work, else of the oldest candidate.
ModeLeaders ==
    LET pool == IF ActiveTasks = {} THEN Candidates ELSE ActiveTasks
    IN  {t \in pool : \A u \in pool : t <= u}

\* Mutant: any authority mode may join the running work.
EligibleAnyMode == {t \in Candidates : \A u \in ActiveTasks : ~TasksConflict(t, u)}

Eligible ==
    {t \in Candidates :
        /\ \E m \in ModeLeaders : (m \in Writers) = (t \in Writers)
        /\ \A u \in ActiveTasks : ~TasksConflict(t, u)}

ConflictDegree(t) == Cardinality({u \in Eligible \ {t} : TasksConflict(t, u)})

\* Least conflicting first, creation order between equals.
Precedes(t, u) ==
    \/ ConflictDegree(t) < ConflictDegree(u)
    \/ ConflictDegree(t) = ConflictDegree(u) /\ t < u

FreeSlots == Concurrency - Cardinality(ActiveTasks)

\* The one greedy selection: a task is in iff there was room and no conflict at its turn.
IsBatch(batch) ==
    \A t \in Eligible :
        LET earlier == {u \in batch : Precedes(u, t)}
        IN  t \in batch <=> /\ Cardinality(earlier) < FreeSlots
                            /\ \A u \in earlier : ~TasksConflict(t, u)

NothingToDispatch == Eligible = {} \/ FreeSlots <= 0

\* Mutant: only the leases of working attempts count, not those held for a verification.
LeasesFreeOfWork(batch) ==
    \A t \in batch : \A a \in lease : a[1] \in ActiveTasks => ~LeasesConflict(t, a[1])

\* The leases of a batch are acquired one by one against everything still held.
LeasesFree(batch) == \A t \in batch : \A a \in lease : ~LeasesConflict(t, a[1])

\* Team status after a running Team is found with nothing to hand to its runner.
SettledQuiescent ==
    IF team # "running" THEN team
    ELSE CASE TeamCompletionReady(task, attempt, verif, lease) -> "completed"
           [] RetryableGraph(task, attempt, verif, lease) /\ Unblocked = {} -> "paused"
           [] /\ ~HasActiveAttempts(attempt, verif) /\ ~UnsafeGraph
              /\ NothingToDispatch /\ NewlyBlocked # {} -> "paused"
           [] OTHER -> "running"

\* The last attempt was cut short, or left no readable report: a resume retries it.
RetriedByResume(t) ==
    /\ made[t] > 0
    /\ \/ task[t] \in {"failed", "cancelled", "blocked"} /\ attempt[Latest(t)].ev = "aborted"
       \/ task[t] = "blocked" /\ attempt[Latest(t)].ev = "unreported"

\* Whether a paused Team has anything a runner could do.
ResumeHasWork ==
    /\ ~UnsafeGraph
    /\ \/ \A t \in Tasks : task[t] = "completed"
       \/ ActiveTasks # {} \/ ~NothingToDispatch \/ Unblocked # {}
       \/ \E t \in Tasks : task[t] = "verifying"
       \/ \E a \in Attempts : verif[a] = "running"
====
