---- MODULE TeamSafety ----
(***************************************************************************)
(* What a Team promises whatever its children, its users, its runner and   *)
(* its Host do, and what it must eventually do.                            *)
(***************************************************************************)
EXTENDS TeamExecution

Quiet == {"paused"} \union TerminalTeam

(* Once a cancel was requested it stays the latest control and the Team only moves towards
   cancelled: no late settlement, verdict, resume, recovery or failure mark brings it back. *)
CancelSticks ==
    cancelAsked => /\ lastControl = "cancel"
                   /\ team \in {"cancelling", "needs_reconciliation", "cancelled"}

(* A child that may still write holds the file lease of its running task, and its attempt is
   one recovery has to account for: no settlement, resolution, retry, cancellation or restart
   gives its files to somebody else while it lives. *)
LiveChildOwnsFiles ==
    \A a \in Attempts : child[a] = "live" =>
        /\ a \in lease
        /\ task[a[1]] = "running" /\ IsLatest(a)
        /\ attempt[a].st \in Unresolved

(* Two active leases never conflict, and a lease belongs to the current attempt of a task
   whose work or verification is open. *)
LeasesAreExclusive ==
    \A a \in lease :
        /\ IsLatest(a) /\ task[a[1]] \in {"running", "verifying"}
        /\ \A b \in lease : a # b => ~LeasesConflict(a[1], b[1])

(* An attempt whose outcome is unknown keeps the Team behind the recovery gate. *)
UnknownIsGated ==
    \A a \in Attempts : attempt[a].st = "unknown" => team = "needs_reconciliation"

(* A paused or terminal Team has no attempt that may still settle and no living child. *)
QuietTeamIsQuiet ==
    team \in Quiet => \A a \in Attempts : attempt[a].st \notin Unresolved /\ child[a] # "live"

(* A completed task has a finished attempt whose worker reported it done, and, if its
   contract declares checks, a passed verification of that very attempt; a completed Team
   has only such tasks and owes nothing. *)
CompletionIsEarned ==
    /\ \A t \in Tasks : task[t] = "completed" =>
          /\ made[t] > 0
          /\ attempt[Latest(t)].st = "completed" /\ attempt[Latest(t)].ev = "done"
          /\ t \in Checked => verif[Latest(t)] = "passed"
    /\ team = "completed" =>
          /\ \A t \in Tasks : task[t] = "completed"
          /\ ~HasUnresolvedFacts(task, attempt, verif, lease)

(* Work starts after its dependencies completed, and no retry, cancel or recovery reopens a
   dependency somebody already built on. *)
WorkFollowsDependencies ==
    \A t \in Tasks : task[t] \in {"running", "verifying", "completed"} =>
        \A d \in Deps[t] : task[d] = "completed"

(* The journal never rewrites an outcome: settlement evidence, closed attempts and final
   verdicts stay as recorded, attempts are only added, and every status moves along its
   table. *)
HistoryIsKept ==
    [][/\ InTwoSteps(TeamStep, team, team')
       /\ \A a \in Attempts :
            /\ InTwoSteps(AttemptStep, attempt[a].st, attempt'[a].st)
            /\ attempt[a].ev # "none" => attempt'[a].ev = attempt[a].ev
            /\ attempt[a].neg => attempt'[a].neg
            /\ verif[a] \notin {"none", "running"} => verif'[a] = verif[a]
       /\ \A t \in Tasks : made'[t] >= made[t] /\ floor'[t] >= floor[t]]_vars

(* A cancellation does not remain open for ever: its children end, their settlements, the
   verdict under way or the uncertainty of the call close it. *)
CancelSettles == team = "cancelling" ~> team # "cancelling"

(* A pause does not remain pending for ever. *)
PauseSettles == team = "pausing" ~> team # "pausing"

Lifecycle == INSTANCE TeamLifecycle
    WITH status <- team, asked <- cancelAsked,
         busy <- \E a \in Attempts : attempt[a].st \in Unresolved

(* The Team a user watches: the runner, the executor, the controls and recovery together
   implement the lifecycle, so each of their commits is one of its steps. *)
ImplementsLifecycle == Lifecycle!LifecycleSpec

(* The runner never plans over a graph it would have to gate as unsafe, since contradictory
   child facts only exist behind the recovery gate; and at most maxConcurrency tasks are
   active, all of one authority mode, one attempt each. *)
PlanIsSafe ==
    /\ team = "running" => ~UnsafeGraph
    /\ Cardinality(ActiveTasks) <= Concurrency
    /\ \A t, u \in ActiveTasks : (t \in Writers) = (u \in Writers)
    /\ \A t \in Tasks : \A m, n \in Ordinals :
          attempt[<<t, m>>].st \in Unresolved /\ attempt[<<t, n>>].st \in Unresolved => m = n

(* Together: what the user asked the Team to do comes to an end. *)
ControlsSettle == CancelSettles /\ PauseSettles
====
