---- MODULE TeamDormant ----
(***************************************************************************)
(* Control of a Team whose controller may not be loaded: what a restarted  *)
(* Host does with the durable cut it finds, and what a cancel or a         *)
(* reconcile does when no controller answers.  Every decision is taken on  *)
(* a cut read before an await; every transaction looks again.  The live    *)
(* controller, where there is one, runs next to all of it.                 *)
(***************************************************************************)
EXTENDS Naturals, FiniteSets

CONSTANTS Calls,         \* commands; a command sent again keeps its operation
          Tools,         \* those of them the agent tool sends, the panel sends the others
          MaxRestarts    \* bound: restarts of the Host

ASSUME DormantAssumption == Tools \subseteq Calls /\ MaxRestarts \in Nat

VARIABLES
  cut,        \* the durable Team: status, whether its latest control is a cancel, its
              \* last attempt, facts left behind, its workspace, what its graph allows
  used,       \* what each command's operation has durably been used for
  overtaken,  \* commands that observe for a cut that is no longer the newest
  host,       \* whether the controller is live and its runner installed
  calls,      \* where each command is and what it is for
  search,     \* where the discovery of a cold controller is
  bridge,     \* whether its parent conversation shows a Team that goes on
  restarts

dormantVars == <<cut, used, overtaken, host, calls, search, bridge, restarts>>

Plans == {"ready", "complete", "stuck", "gated"}
NoCall == [at |-> "idle", action |-> "cancel"]

HasActive(c) == c.attempt = "active"
Unresolved(c) == c.attempt # "none" \/ c.residue
\* What matters of the bridge: whether it shows a Team that should be going on.
GoingOn(c) == c.status = "running" \/ (c.status \in {"pausing", "cancelling"} /\ HasActive(c))

\* Cuts a Host may find when it starts.
DurableCuts ==
  LET Cuts(status, intent, attempt, residue, plan) ==
        [status : status, intent : intent, attempt : attempt, residue : residue,
         ready : BOOLEAN, plan : plan]
  IN  UNION {Cuts({"running"}, {FALSE}, {"none"}, {FALSE}, Plans),
             Cuts({"running", "pausing"}, {FALSE}, {"active"}, {FALSE}, {"ready"}),
             Cuts({"paused"}, {FALSE}, {"none"}, {FALSE}, {"ready", "stuck"}),
             Cuts({"cancelling"}, {TRUE}, {"active"}, {FALSE}, {"ready"}),
             Cuts({"needs_reconciliation"}, BOOLEAN, {"none", "unknown"}, BOOLEAN, {"ready"})}

DormantInit ==
  /\ cut \in DurableCuts
  /\ used = [c \in Calls |-> "free"] /\ overtaken = {}
  /\ host = [live |-> FALSE, runner |-> FALSE]
  /\ calls = [c \in Calls |-> NoCall] /\ search = "idle"
  /\ bridge = GoingOn(cut) /\ restarts = 0

\* A commit overtakes what is being observed for the cut before it.
Observing == {c \in Calls : calls[c].at \in {"observe", "close"}}
Commits == overtaken' = Observing
GoesTo(c, at) == calls' = [calls EXCEPT ![c].at = at]
Reads(c) == overtaken' = overtaken \ {c}
KeepsRest == UNCHANGED <<host, search, bridge, restarts>>

--------------------------------------------------------------------------
(* Commands.                                                               *)

\* A command, or the same command sent again after its answer.
Ask(c) ==
  /\ \/ /\ calls[c].at = "idle"
        /\ \E action \in {"cancel", "reconcile"} :
             calls' = [calls EXCEPT ![c] = [at |-> "resolve", action |-> action]]
     \/ calls[c].at = "answered" /\ GoesTo(c, "resolve")
  /\ UNCHANGED <<cut, used, overtaken>> /\ KeepsRest

\* The controller that is live or being resumed, else the persisted one, else none.
Resolve(c) ==
  /\ calls[c].at = "resolve"
  /\ \/ GoesTo(c, "live") /\ host' = [host EXCEPT !.live = TRUE]
     \/ ~host.live /\ GoesTo(c, "load") /\ UNCHANGED host
  /\ UNCHANGED <<cut, used, overtaken, search, bridge, restarts>>

Answered(c) == IF c \in Tools THEN "publish" ELSE "answered"

\* With a live controller the ordinary commands run, but the agent tool closes a
\* cancellation that is already under way through the durable path.
RouteLive(c) ==
  /\ calls[c].at = "live"
  /\ GoesTo(c,
       IF calls[c].action = "reconcile"
       THEN IF cut.status = "needs_reconciliation" /\ ~Unresolved(cut)
            THEN IF cut.intent THEN "cancel" ELSE "proof"
            ELSE "observe"
       ELSE IF c \notin Tools THEN "change"
       ELSE CASE cut.status = "cancelled" -> "publish"
              [] cut.status \in {"needs_reconciliation", "cancelling"} -> "load"
              [] OTHER -> "change")
  /\ Reads(c) /\ UNCHANGED <<cut, used>> /\ KeepsRest

\* The persisted Session cannot be read: nothing is done.
LoadFails(c) ==
  /\ calls[c].at = "load" /\ GoesTo(c, "answered")
  /\ UNCHANGED <<cut, used, overtaken>> /\ KeepsRest

\* controlDormantTeam, on the cut that was loaded.
ControlDormant(c) ==
  /\ calls[c].at = "load"
  /\ GoesTo(c,
       IF calls[c].action = "cancel"
       THEN IF c \in Tools /\ cut.status = "cancelled" THEN "publish" ELSE "cancel"
       ELSE CASE cut.status = "cancelling" /\ ~Unresolved(cut) -> "cancel"
              [] cut.status = "needs_reconciliation" /\ ~Unresolved(cut) ->
                   IF cut.intent THEN "cancel" ELSE "clear"
              [] cut.status = "running" /\ ~HasActive(cut) -> "settle"
              [] OTHER -> "observe")
  /\ Reads(c) /\ UNCHANGED <<cut, used>> /\ KeepsRest

\* A refusal changes nothing durable.
Refuses(c) == GoesTo(c, Answered(c)) /\ overtaken' = overtaken \ {c} /\ UNCHANGED <<cut, used>>

Requested(c) == used' = [used EXCEPT ![c] = "cancel"]
ClosedOrGated == IF Unresolved(cut) THEN "needs_reconciliation" ELSE "cancelled"

\* cancelWithoutController: intent and closure only, nothing is interrupted.
CancelCold(c) ==
  /\ calls[c].at = "cancel"
  /\ \/ /\ used[c] = "free" /\ cut.status \in {"running", "pausing", "paused"}
        /\ cut' = [cut EXCEPT !.intent = TRUE,
                     !.status = IF HasActive(cut) THEN "needs_reconciliation" ELSE "cancelled"]
        /\ Requested(c) /\ Commits /\ GoesTo(c, Answered(c))
     \/ /\ used[c] = "free" /\ cut.status = "needs_reconciliation"
        /\ cut' = [cut EXCEPT !.intent = TRUE, !.status = ClosedOrGated]
        /\ Requested(c) /\ Commits /\ GoesTo(c, Answered(c))
     \/ /\ used[c] = "free" /\ cut.status = "cancelling"
        /\ cut' = [cut EXCEPT !.status = ClosedOrGated]
        /\ Commits /\ GoesTo(c, Answered(c)) /\ UNCHANGED used
     \/ /\ used[c] = "cancel" /\ cut.status = "needs_reconciliation" /\ ~Unresolved(cut)
        /\ cut' = [cut EXCEPT !.status = "cancelled"]
        /\ Commits /\ GoesTo(c, Answered(c)) /\ UNCHANGED used
     \/ /\ \/ used[c] \in {"clear", "observed"}
           \/ used[c] = "free" /\ cut.status \in {"cancelled", "completed"}
           \/ used[c] = "cancel" /\ (cut.status = "needs_reconciliation" => Unresolved(cut))
        /\ Refuses(c)
  /\ KeepsRest

\* Mutant: the clear does not look at the latest control.
ClearableAnyway == cut.status = "needs_reconciliation" /\ ~Unresolved(cut) /\ cut.ready

Clearable ==
  /\ cut.status = "needs_reconciliation" /\ ~cut.intent
  /\ ~Unresolved(cut) /\ cut.ready

\* The gate is cleared to paused from durable facts, or with the Host's proof.
ClearGate(c) ==
  /\ calls[c].at \in {"clear", "proof"}
  /\ IF used[c] = "free" /\ Clearable
     THEN /\ cut' = [cut EXCEPT !.status = "paused"]
          /\ used' = [used EXCEPT ![c] = "clear"]
          /\ Commits /\ GoesTo(c, Answered(c))
     ELSE Refuses(c)
  /\ KeepsRest

\* Where a running Team with nothing active belongs.
Settlement ==
  CASE cut.status = "running" /\ ~HasActive(cut) /\ cut.plan = "complete" -> "completed"
    [] cut.status = "running" /\ ~HasActive(cut) /\ cut.plan = "stuck" -> "paused"
    [] OTHER -> cut.status
Settles == cut' = [cut EXCEPT !.status = Settlement] /\ Commits
CanSettle == Settlement # cut.status
Marked == [cut EXCEPT !.status = IF @ = "running" THEN "needs_reconciliation" ELSE @]

SettleCold(c) ==
  /\ calls[c].at = "settle"
  /\ IF CanSettle THEN Settles /\ GoesTo(c, Answered(c))
     ELSE GoesTo(c, "mark") /\ UNCHANGED <<cut, overtaken>>
  /\ UNCHANGED used /\ KeepsRest

MarkCold(c) ==
  /\ calls[c].at = "mark" /\ GoesTo(c, "reread")
  /\ cut' = Marked /\ IF cut.status = "running" THEN Commits ELSE UNCHANGED overtaken
  /\ UNCHANGED used /\ KeepsRest

Reread(c) ==
  /\ calls[c].at = "reread"
  /\ GoesTo(c, IF cut.status # "needs_reconciliation" THEN Answered(c)
               ELSE IF Unresolved(cut) THEN "observe" ELSE "clear")
  /\ Reads(c) /\ UNCHANGED <<cut, used>> /\ KeepsRest

\* reconcile: what the Host observed is committed against the cut it was asked about.
ObserveRuntime(c) ==
  /\ calls[c].at = "observe"
  /\ IF /\ used[c] = "free" /\ cut.attempt # "none" /\ c \notin overtaken
        /\ cut.status \in {"running", "pausing", "cancelling", "needs_reconciliation"}
     THEN /\ cut' = [cut EXCEPT !.status = "needs_reconciliation", !.attempt = "unknown"]
          /\ used' = [used EXCEPT ![c] = "observed"]
          /\ overtaken' = Observing \ {c}
          /\ \/ cut.intent /\ GoesTo(c, "close")
             \/ GoesTo(c, Answered(c))
     ELSE Refuses(c)
  /\ KeepsRest

\* An attempt the Host proves quiescent is cancelled, and with the last one the Team.
CloseAttempt(c) ==
  /\ calls[c].at = "close"
  /\ \/ /\ c \notin overtaken /\ cut.status = "needs_reconciliation" /\ cut.attempt = "unknown"
        /\ cut' = [cut EXCEPT !.attempt = "none",
                     !.status = IF cut.intent /\ ~cut.residue THEN "cancelled" ELSE @]
        /\ overtaken' = Observing \ {c} /\ GoesTo(c, Answered(c)) /\ UNCHANGED used
     \/ Refuses(c)
  /\ KeepsRest

\* The ordinary cancel of a live controller; its children are then interrupted.
ChangeLive(c) ==
  /\ calls[c].at = "change"
  /\ IF used[c] = "free" /\ cut.status \in {"running", "pausing", "paused", "needs_reconciliation"}
     THEN /\ cut' = [cut EXCEPT !.intent = TRUE,
                       !.status = IF @ = "needs_reconciliation" THEN ClosedOrGated
                                  ELSE IF HasActive(cut) THEN "cancelling" ELSE "cancelled"]
          /\ Requested(c) /\ Commits /\ GoesTo(c, Answered(c))
     ELSE Refuses(c)
  /\ KeepsRest

\* The parent's bridge is refreshed before the tool answers.
Publish(c) ==
  /\ calls[c].at = "publish" /\ GoesTo(c, "answered") /\ bridge' = GoingOn(cut)
  /\ UNCHANGED <<cut, used, overtaken, host, search, restarts>>

--------------------------------------------------------------------------
(* Discovery of a cold controller.                                         *)

KeepsCalls == UNCHANGED <<used, calls, restarts>>

\* A Session appears whose bridge shows a Team that should be going on.
ScanBridge ==
  /\ search = "idle" /\ bridge /\ search' = "look"
  /\ UNCHANGED <<cut, overtaken, host, bridge>> /\ KeepsCalls

InspectsWork == cut.status \in {"running", "pausing", "cancelling"} /\ HasActive(cut)

\* Work that was interrupted enters recovery without its controller: a resumed
\* controller could replay the call that started it.
Look ==
  /\ search = "look" /\ search' = IF InspectsWork THEN "facts" ELSE "resume"
  /\ UNCHANGED <<cut, overtaken, host, bridge>> /\ KeepsCalls

Quiescent == cut.status = "running" /\ ~HasActive(cut)

ResumeFound ==
  /\ search = "resume" /\ host' = [host EXCEPT !.live = TRUE]
  /\ search' = IF Quiescent /\ ~host.runner THEN "recover" ELSE "idle"
  /\ UNCHANGED <<cut, overtaken, bridge>> /\ KeepsCalls

ResumeFails ==
  /\ search = "resume" /\ ~host.live /\ search' = IF Quiescent THEN "settle" ELSE "idle"
  /\ UNCHANGED <<cut, overtaken, host, bridge>> /\ KeepsCalls

\* A Team with work to do, or done, gets its runner back.
RecoverFound ==
  /\ search = "recover"
  /\ IF cut.plan \in {"ready", "complete"} /\ host.live
     THEN host' = [host EXCEPT !.runner = TRUE] /\ search' = "idle"
     ELSE search' = "settle" /\ UNCHANGED host
  /\ UNCHANGED <<cut, overtaken, bridge>> /\ KeepsCalls

SettleFound ==
  /\ search = "settle"
  /\ IF CanSettle THEN Settles /\ search' = "idle"
     ELSE search' = "mark" /\ UNCHANGED <<cut, overtaken>>
  /\ UNCHANGED <<host, bridge>> /\ KeepsCalls

MarkFound ==
  /\ search = "mark" /\ search' = "idle"
  /\ cut' = Marked /\ IF cut.status = "running" THEN Commits ELSE UNCHANGED overtaken
  /\ UNCHANGED <<host, bridge>> /\ KeepsCalls

AttemptEnds(status) ==
  /\ \E plan \in Plans :
       cut' = [cut EXCEPT !.attempt = "none", !.plan = plan,
                 !.status = CASE status = "pausing" -> "paused"
                              [] status = "cancelling" -> "cancelled"
                              [] OTHER -> status]
  /\ Commits

\* Terminal facts its child left behind settle the attempt, else it is gated as unknown.
ColdFacts ==
  /\ search = "facts"
  /\ \/ HasActive(cut) /\ ~host.runner /\ AttemptEnds(cut.status) /\ search' = "idle"
     \/ HasActive(cut) /\ ~host.runner /\ search' = "gate" /\ UNCHANGED <<cut, overtaken>>
     \/ (~HasActive(cut) \/ host.runner) /\ search' = "idle" /\ UNCHANGED <<cut, overtaken>>
  /\ UNCHANGED <<host, bridge>> /\ KeepsCalls

GateUnknown ==
  /\ search = "gate" /\ search' = "idle"
  /\ IF InspectsWork
     THEN /\ cut' = [cut EXCEPT !.status = "needs_reconciliation", !.attempt = "unknown"]
          /\ Commits
     ELSE UNCHANGED <<cut, overtaken>>
  /\ UNCHANGED <<host, bridge>> /\ KeepsCalls

--------------------------------------------------------------------------
(* The live controller, and the Host.                                      *)

DispatchAttempt ==
  /\ host.runner /\ cut.status = "running" /\ cut.attempt = "none" /\ cut.plan = "ready"
  /\ cut' = [cut EXCEPT !.attempt = "active"] /\ Commits
  /\ UNCHANGED <<host, search, bridge>> /\ KeepsCalls

\* A child ends and its settlement is committed, also when it was observed meanwhile.
ChildStops ==
  /\ host.runner /\ cut.attempt # "none" /\ AttemptEnds(cut.status)
  /\ UNCHANGED <<host, search, bridge>> /\ KeepsCalls

Pause ==
  /\ host.live /\ cut.status = "running"
  /\ cut' = [cut EXCEPT !.status = IF HasActive(cut) THEN "pausing" ELSE "paused"] /\ Commits
  /\ UNCHANGED <<host, search, bridge>> /\ KeepsCalls

Resume ==
  /\ host.live /\ cut.status = "paused" /\ cut.plan = "ready"
  /\ cut' = [cut EXCEPT !.status = "running", !.intent = FALSE] /\ Commits
  /\ host' = [host EXCEPT !.runner = TRUE]
  /\ UNCHANGED <<search, bridge>> /\ KeepsCalls

\* Every commit asks for a refresh of the parent's bridge.
RefreshCut ==
  /\ bridge # GoingOn(cut) /\ bridge' = GoingOn(cut)
  /\ UNCHANGED <<cut, overtaken, host, search>> /\ KeepsCalls

Restart ==
  /\ restarts < MaxRestarts /\ restarts' = restarts + 1
  /\ host' = [live |-> FALSE, runner |-> FALSE]
  /\ calls' = [c \in Calls |-> IF calls[c].at = "idle" THEN NoCall ELSE [calls[c] EXCEPT !.at = "answered"]]
  /\ search' = "idle" /\ overtaken' = {}
  /\ UNCHANGED <<cut, used, bridge>>

DormantNext ==
  \/ \E c \in Calls :
       \/ Ask(c) \/ Resolve(c) \/ RouteLive(c) \/ LoadFails(c) \/ ControlDormant(c)
       \/ CancelCold(c) \/ ClearGate(c) \/ SettleCold(c) \/ MarkCold(c) \/ Reread(c)
       \/ ObserveRuntime(c) \/ CloseAttempt(c) \/ ChangeLive(c) \/ Publish(c)
  \/ ScanBridge \/ Look \/ ResumeFound \/ ResumeFails \/ RecoverFound \/ SettleFound
  \/ MarkFound \/ ColdFacts \/ GateUnknown
  \/ DispatchAttempt \/ ChildStops \/ Pause \/ Resume \/ RefreshCut \/ Restart

DormantSpec == DormantInit /\ [][DormantNext]_dormantVars

--------------------------------------------------------------------------
(* Properties.                                                             *)

\* However stale the cut a command acted on, a Team it closed or paused has
\* nothing left that could still run, and no fact a recovery would have to prove.
ClosedIsQuiet ==
  cut.status \in {"paused", "completed", "cancelled"} => ~Unresolved(cut)

\* Once the latest control is a cancel, no discovery, clear or settlement
\* makes the Team go on, whichever commands are still in flight.
CancelSurvivesRecovery ==
  [][cut.intent => /\ cut'.intent
                   /\ cut'.status \in {"cancelling", "needs_reconciliation", "cancelled"}]_dormantVars

\* Together: control without a controller is final and leaves nothing behind.
ColdControlHolds == []ClosedIsQuiet /\ CancelSurvivesRecovery
=============================================================================
