---------------------------- MODULE TeamObserver ----------------------------
(***************************************************************************)
(* How a Team pass waits for its children: HarnessTeamProgressAdapter      *)
(* observes the children of one wait, settles the ones this process does   *)
(* not own from a lifecycle edge or from their Session log, leaves the     *)
(* owned ones to the executor, and asks for a reconciliation when the Host *)
(* contradicts the journal.  JournalProgressWake ends the observation when *)
(* a commit makes work schedulable.  The cold scan settles what an earlier *)
(* process left.                                                           *)
(*                                                                         *)
(* A step is the code between two awaits; a settlement is one transaction. *)
(***************************************************************************)
EXTENDS Integers, FiniteSets

CONSTANTS
  NumAttempts,   \* attempts of the Team, one per Task
  MaxObserverFaults, \* bound on failed commits and failed Host listings
  MaxWaits,      \* bound on the waits of the pass
  MaxRestarts    \* bound on restarts of the process

ASSUME ObserverAssumption ==
  /\ NumAttempts \in Nat \ {0} /\ MaxObserverFaults \in Nat
  /\ MaxWaits \in Nat \ {0} /\ MaxRestarts \in Nat

Attempts == 1..NumAttempts

VARIABLES
  child,     \* the Host's entry of each attempt's child
  sessionLog, \* its Session log: "open", "ended" (one terminal turn), "unreadable"
  evidence,  \* durable evidence: "none", "executor", "edge", "log"
  local,     \* attempts whose execution the executor of this process holds
  settling,  \* transactions in flight: [attempt, by, wait]
  poisoned,  \* a commit of this journal failed
  todo,      \* attempts the schedule could dispatch now
  obs,       \* the observation of the current wait
  waits,     \* its number: a settlement refreshes the wait that began it
  losses      \* [faults, crashes]

observerVars ==
  <<child, sessionLog, evidence, local, settling, poisoned, todo, obs, waits, losses>>

ChildStates == {"none", "active", "inactive", "gone", "diagnostic", "one-shot"}

\* The phases between StartWait and the end of the wait.
Waiting == {"listing", "examining", "loading", "waiting", "relisting", "reconciling"}

NoObs == [phase |-> "idle", active |-> {}, owned |-> {}, todo |-> {}, loads |-> 0,
          entries |-> [a \in Attempts |-> "none"], ended |-> {}, settled |-> {},
          first |-> TRUE, progress |-> "none", failure |-> FALSE]

ObserverTypeOK ==
  /\ child \in [Attempts -> ChildStates]
  /\ sessionLog \in [Attempts -> {"open", "ended", "unreadable"}]
  /\ evidence \in [Attempts -> {"none", "executor", "edge", "log"}]
  /\ local \subseteq Attempts
  /\ settling \subseteq [attempt : Attempts, by : {"executor", "edge", "log", "cold"},
                         wait : 0..MaxWaits]
  /\ poisoned \in BOOLEAN
  /\ todo \subseteq Attempts
  /\ obs.phase \in Waiting \cup {"idle", "stopped", "failed"}
  /\ obs.progress \in {"none", "resolved", "needs", "failed"}
  /\ waits \in 0..MaxWaits
  /\ losses \in [faults : 0..MaxObserverFaults, crashes : 0..MaxRestarts]

\* A process that finds the Team of an earlier one: some children were never
\* dispatched, the others are as the Host and their logs show them.
ObserverInit ==
  /\ child \in [Attempts -> ChildStates]
  /\ sessionLog \in [Attempts -> {"open", "ended", "unreadable"}]
  /\ \A a \in Attempts :
       /\ child[a] \in {"none", "active"} => sessionLog[a] = "open"
       /\ child[a] \in {"gone", "diagnostic"} => sessionLog[a] = "unreadable"
       /\ child[a] = "one-shot" => sessionLog[a] = "open"
  /\ evidence = [a \in Attempts |-> "none"]
  /\ local = {} /\ settling = {} /\ poisoned = FALSE
  /\ todo \in SUBSET {a \in Attempts : child[a] = "none"}
  /\ obs = NoObs /\ waits = 0
  /\ losses = [faults |-> 0, crashes |-> 0]

--------------------------------------------------------------------------
(* Helpers of the observation.                                             *)

Running == {a \in Attempts : child[a] # "none" /\ evidence[a] = "none"}

\* done is a deferred: the first outcome stays.
Outcome(o, p) == IF o.progress = "none" THEN [o EXCEPT !.progress = p] ELSE o

\* refresh(): one awaited attempt with durable evidence is progress.
Refreshed(o, ev) ==
  IF \E a \in o.active : ev[a] # "none" THEN Outcome(o, "resolved") ELSE o

\* requiresReconciliation(): what the loop knew no longer matters.
Reconciling == [NoObs EXCEPT !.phase = "reconciling"]

\* A settlement or an owned attempt's terminal that rejects.
Failing(o) == [Outcome(o, "failed") EXCEPT !.failure = TRUE]

\* settleObserved(): at most one settlement per attempt and wait.
Settlements(as, by) ==
  {[attempt |-> a, by |-> by, wait |-> waits] : a \in as \ obs.settled}

Observing == obs.phase \in Waiting

\* onEnd(): an owned attempt is left to its executor, whose settlement has the
\* final usage; the edge carries none.
EdgeSettles(a) == Observing /\ a \in obs.active \ obs.owned

--------------------------------------------------------------------------
(* The world: children end, users add work, the process dies.              *)

\* A child ends; the executor and the observation hear the same edge.
ObservedEnds(a) ==
  /\ child[a] = "active"
  /\ child' = [child EXCEPT ![a] = "inactive"]
  /\ sessionLog' = [sessionLog EXCEPT ![a] = "ended"]
  /\ settling' = settling
       \cup (IF a \in local THEN {[attempt |-> a, by |-> "executor", wait |-> waits]} ELSE {})
       \cup (IF EdgeSettles(a) THEN Settlements({a}, "edge") ELSE {})
  /\ obs' = IF Observing /\ a \in obs.active
            THEN [obs EXCEPT !.ended = @ \cup {a},
                             !.settled = IF EdgeSettles(a) THEN @ \cup {a} ELSE @]
            ELSE obs
  /\ UNCHANGED <<evidence, local, poisoned, todo, waits, losses>>

Interruptible == {"listing", "examining", "loading", "waiting", "relisting"}

\* Mutant: a commit does not run the checks of the journal's listeners.
ObsAfterSilentCommit == obs

\* The wake aborts the observation, never a worker; a reconciliation that
\* already runs decides the wait itself.
ObsAfterWake == IF obs.phase \in Interruptible THEN NoObs ELSE obs

\* A commit of another command makes a Task schedulable again.
WorkAppears(a) ==
  /\ child[a] = "none" /\ a \notin todo
  /\ ~poisoned
  /\ todo' = todo \cup {a}
  /\ obs' = ObsAfterWake
  /\ UNCHANGED <<child, sessionLog, evidence, local, settling, poisoned, waits, losses>>

\* executeBatch fills every safe slot before the pass waits.
Dispatch(a) ==
  /\ obs.phase = "idle" /\ a \in todo /\ ~poisoned
  /\ todo' = todo \ {a}
  /\ child' = [child EXCEPT ![a] = "active"]
  /\ local' = local \cup {a}
  /\ UNCHANGED <<sessionLog, evidence, settling, poisoned, obs, waits, losses>>

\* A restart: the children of the process stop without a terminal turn.
ProcessDies ==
  /\ losses.crashes < MaxRestarts
  /\ losses' = [losses EXCEPT !.crashes = @ + 1]
  /\ child' = [a \in Attempts |-> IF child[a] = "active" THEN "inactive" ELSE child[a]]
  /\ local' = {} /\ settling' = {} /\ poisoned' = FALSE
  /\ obs' = NoObs
  /\ UNCHANGED <<sessionLog, evidence, todo, waits>>

--------------------------------------------------------------------------
(* Settlement transactions.                                                *)

\* Mutant: the transaction does not look for evidence first.
AlreadySettledNever(a) == FALSE

AlreadySettled(a) == evidence[a] # "none"

Source(by) == IF by = "cold" THEN "log" ELSE by

\* The wait that hears of a settlement: the one whose local wait races the
\* attempt's terminal, or the one that began it.
Hears(s) == /\ Observing
            /\ \/ s.by = "executor" /\ s.attempt \in obs.owned
               \/ s.by \in {"edge", "log"} /\ s.wait = waits

\* The wait refreshes whether or not this settlement wrote the evidence.
Heard(s, ev) == Refreshed(obs, ev)

\* Evidence that is already durable ends the transaction without an event; a
\* cold settlement also stands back from an attempt the executor holds.
Settle(s) ==
  /\ s \in settling /\ ~poisoned
  /\ settling' = settling \ {s}
  /\ evidence' = IF AlreadySettled(s.attempt) \/ (s.by = "cold" /\ s.attempt \in local)
                 THEN evidence ELSE [evidence EXCEPT ![s.attempt] = Source(s.by)]
  /\ local' = IF s.by = "executor" THEN local \ {s.attempt} ELSE local
  /\ obs' = IF Hears(s) THEN Heard(s, evidence') ELSE obs
  /\ UNCHANGED <<child, sessionLog, poisoned, todo, waits, losses>>

\* The commit fails, or an earlier failure poisoned the journal.
SettleFails(s) ==
  /\ s \in settling
  /\ \/ poisoned /\ losses' = losses
     \/ /\ ~poisoned /\ losses.faults < MaxObserverFaults
        /\ losses' = [losses EXCEPT !.faults = @ + 1]
  /\ poisoned' = TRUE
  /\ settling' = settling \ {s}
  /\ local' = IF s.by = "executor" THEN local \ {s.attempt} ELSE local
  /\ obs' = IF Hears(s) THEN Failing(obs) ELSE obs
  /\ UNCHANGED <<child, sessionLog, evidence, todo, waits>>

\* The cold scan of an inactive child whose log holds the terminal turn.
RecoverColdTerminalFact(a) ==
  /\ a \in Running \ local
  /\ child[a] = "inactive" /\ sessionLog[a] = "ended"
  /\ ~\E s \in settling : s.attempt = a /\ s.by = "cold"
  /\ settling' = settling \cup {[attempt |-> a, by |-> "cold", wait |-> waits]}
  /\ UNCHANGED <<child, sessionLog, evidence, local, poisoned, todo, obs, waits, losses>>

--------------------------------------------------------------------------
(* The wait.                                                               *)

StartWait ==
  /\ obs.phase = "idle" /\ todo = {} /\ Running # {} /\ waits < MaxWaits
  /\ waits' = waits + 1
  /\ obs' = [NoObs EXCEPT !.phase = "listing", !.active = Running,
                          !.owned = Running \cap local]
  /\ UNCHANGED <<child, sessionLog, evidence, local, settling, poisoned, todo, losses>>

Listing == obs.phase \in {"listing", "relisting"}

\* listChildren answers: the entries are a snapshot from here on.
ListReturns ==
  /\ Listing
  /\ obs' = [obs EXCEPT !.phase = "examining", !.entries = child,
                        !.first = (obs.phase = "listing"),
                        !.todo = obs.active \ obs.owned]
  /\ UNCHANGED <<child, sessionLog, evidence, local, settling, poisoned, todo, waits, losses>>

ListFails ==
  /\ Listing /\ losses.faults < MaxObserverFaults
  /\ losses' = [losses EXCEPT !.faults = @ + 1]
  /\ obs' = [NoObs EXCEPT !.phase = "failed"]
  /\ UNCHANGED <<child, sessionLog, evidence, local, settling, poisoned, todo, waits>>

\* A slow listing does not hold up a settled child or a failed settlement.
ListedOver == Listing /\ obs.progress # "none"

ProgressBeatsList ==
  /\ ListedOver
  /\ obs' = IF obs.progress = "resolved" THEN NoObs ELSE [NoObs EXCEPT !.phase = "failed"]
  /\ UNCHANGED <<child, sessionLog, evidence, local, settling, poisoned, todo, waits, losses>>

Contradicts(a) == obs.entries[a] \notin {"active", "inactive"}
NeedsLog(a) == obs.entries[a] = "inactive" /\ a \notin obs.ended
Stops == {a \in obs.todo : Contradicts(a) \/ NeedsLog(a)}

\* The attempts the loop passes before the first one it stops at.
Passed == {a \in obs.todo : \A b \in Stops : a < b}

\* An edge that was seen settles; an active child without one is watched,
\* which a child no executor of this process holds refuses at once.
Examine ==
  /\ obs.phase = "examining"
  /\ settling' = settling \cup Settlements(Passed \cap obs.ended, "edge")
  /\ LET seen == [obs EXCEPT !.settled = @ \cup (Passed \cap obs.ended)]
         unowned == {a \in (obs.active \ obs.owned) \ seen.settled : a \notin local}
     IN obs' =
       IF Stops # {}
       THEN LET a == CHOOSE x \in Stops : \A y \in Stops : x <= y IN
            IF Contradicts(a) THEN Reconciling
            ELSE [seen EXCEPT !.phase = "loading", !.loads = a, !.todo = @ \ Passed]
       ELSE LET now == Refreshed(seen, evidence)
                watched == IF obs.first /\ unowned # {} THEN Outcome(now, "needs") ELSE now
            IN IF obs.first /\ \E a \in obs.active : evidence[a] # "none" THEN NoObs
               ELSE [watched EXCEPT !.phase = "waiting", !.entries = NoObs.entries]
  /\ UNCHANGED <<child, sessionLog, evidence, local, poisoned, todo, waits, losses>>

\* replaySessionTerminal over the log of the exact child and message.
ProvesEnd(a) == sessionLog[a] = "ended"

LoadReturns ==
  /\ obs.phase = "loading" /\ ProvesEnd(obs.loads)
  /\ settling' = settling \cup Settlements({obs.loads}, "log")
  /\ obs' = [obs EXCEPT !.phase = "examining", !.todo = @ \ {obs.loads},
                        !.settled = @ \cup {obs.loads}]
  /\ UNCHANGED <<child, sessionLog, evidence, local, poisoned, todo, waits, losses>>

\* A missing, malformed or slow log is no proof.
LoadProvesNothing ==
  /\ obs.phase = "loading"
  /\ \/ sessionLog[obs.loads] # "ended" /\ losses' = losses
     \/ /\ losses.faults < MaxObserverFaults
        /\ losses' = [losses EXCEPT !.faults = @ + 1]
  /\ obs' = Reconciling
  /\ UNCHANGED <<child, sessionLog, evidence, local, settling, poisoned, todo, waits>>

WaitEnds ==
  /\ obs.phase = "waiting" /\ obs.progress # "none"
  /\ obs' = IF obs.progress = "needs" THEN Reconciling
            ELSE IF obs.failure THEN [NoObs EXCEPT !.phase = "failed"] ELSE NoObs
  /\ UNCHANGED <<child, sessionLog, evidence, local, settling, poisoned, todo, waits, losses>>

\* The bound of a quiet wait is a heartbeat: the children are listed again.
Heartbeat ==
  /\ obs.phase = "waiting" /\ obs.progress = "none"
  /\ obs' = [obs EXCEPT !.phase = "relisting"]
  /\ UNCHANGED <<child, sessionLog, evidence, local, settling, poisoned, todo, waits, losses>>

\* reconcileProgress: the Team is recovered and the pass goes on, or it stops
\* for the user.
ReconcileEnds(recovered) ==
  /\ obs.phase = "reconciling"
  /\ obs' = IF recovered THEN NoObs ELSE [NoObs EXCEPT !.phase = "stopped"]
  /\ UNCHANGED <<child, sessionLog, evidence, local, settling, poisoned, todo, waits, losses>>

ObserverNext ==
  \/ \E a \in Attempts : ObservedEnds(a) \/ WorkAppears(a) \/ Dispatch(a)
                         \/ RecoverColdTerminalFact(a)
  \/ ProcessDies
  \/ \E s \in settling : Settle(s) \/ SettleFails(s)
  \/ StartWait \/ ListReturns \/ ListFails \/ ProgressBeatsList \/ Examine
  \/ LoadReturns \/ LoadProvesNothing \/ WaitEnds \/ Heartbeat
  \/ \E r \in BOOLEAN : ReconcileEnds(r)

ObserverFairness ==
  /\ \A a \in Attempts : WF_observerVars(Dispatch(a))
  /\ \A a \in Attempts, b \in {"executor", "edge", "log", "cold"} :
       WF_observerVars(\E s \in settling : s.attempt = a /\ s.by = b
                                           /\ (Settle(s) \/ SettleFails(s)))
  /\ WF_observerVars(ProgressBeatsList) /\ WF_observerVars(Examine)
  /\ WF_observerVars(LoadReturns \/ LoadProvesNothing)
  /\ WF_observerVars(WaitEnds)
  /\ WF_observerVars(\E r \in BOOLEAN : ReconcileEnds(r))

ObserverSpec == ObserverInit /\ [][ObserverNext]_observerVars /\ ObserverFairness

--------------------------------------------------------------------------
(* Properties.                                                             *)

\* An attempt is settled once: a settlement that an earlier wait, a lifecycle
\* edge and the cold scan began in turn never replaces what one of them made
\* durable (the evidence check inside the transaction of settleObservedAttempt).
SettledOnce ==
  [][\A a \in Attempts : evidence[a] # "none" => evidence'[a] = evidence[a]]_observerVars

\* While the executor holds an attempt nobody else settles it, so the usage it
\* reports at the end is not replaced by an edge that carries none.
OwnedUsageIsKept == \A a \in local : evidence[a] = "none"

\* A wait fails only because a commit or a Host listing failed: that another
\* path settled the attempt first is progress, not a failure.
FailsOnlyOnFaults == obs.phase = "failed" => losses.faults > 0

\* A commit that makes work schedulable ends the observation although every
\* child stays quiet, unless the pass stops for the user or a commit failed.
WorkIsNoticed ==
  \A a \in Attempts :
    a \in todo ~> (a \notin todo \/ obs.phase \in {"failed", "stopped"} \/ poisoned)

\* Durable evidence of an attempt the wait owns or settled ends that wait even
\* when the Host never answers the child listing.
ResultEndsWait ==
  \A a \in Attempts :
    (Observing /\ a \in obs.owned \cup obs.settled /\ evidence[a] # "none")
      ~> (~Observing \/ evidence[a] = "none")

\* Together: an attempt is settled by its owner, once, and racing for it is
\* no failure (service.ts, settleObservedAttempt).
SettlementsAreOwned == [](ObserverTypeOK /\ OwnedUsageIsKept /\ FailsOnlyOnFaults) /\ SettledOnce

\* Together: a wait ends for new work and for a durable result.
WaitsEnd == WorkIsNoticed /\ ResultEndsWait
=============================================================================
