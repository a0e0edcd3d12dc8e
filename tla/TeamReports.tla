---- MODULE TeamReports ----
(***************************************************************************)
(* How the parent conversation of a Team learns what happened: the durable *)
(* facts of the controller Session are projected into the Session of the   *)
(* parent (a bridge), and a worker turns the newest bridge into one report *)
(* in the parent's inbox, acknowledged by a checkpoint in the controller   *)
(* Session.  Both Sessions keep Yuqi facts in the sidecar, so such a write *)
(* is durable or did not happen; the inbox belongs to the native Session   *)
(* and is durable only after a flush.                                      *)
(***************************************************************************)
EXTENDS Integers, Sequences

CONSTANTS
    Parents,            \* conversations that may control the Team
    FirstParent,        \* the one that started it
    NoParent,           \* not a conversation
    Statuses,           \* Team statuses that occur
    MaxFacts,           \* bound: durable Team facts
    MaxSwitches,        \* bound: switches to another conversation
    MaxRecoveries,      \* bound: recoveries asked for from the panel
    MaxFaults,          \* bound: refused writes and failed flushes
    MaxReportCrashes,         \* bound: restarts of the Host
    BridgesMayFail      \* a refused write may be one of a bridge

ASSUME ReportsAssumption ==
    /\ FirstParent \in Parents /\ NoParent \notin Parents
    /\ "running" \in Statuses
    /\ Statuses \subseteq {"running", "needs_reconciliation", "paused", "cancelled"}
    /\ "needs_reconciliation" \in Statuses => {"paused", "cancelled"} \subseteq Statuses
    /\ MaxFacts \in Nat \ {0} /\ MaxSwitches \in Nat /\ MaxRecoveries \in Nat
    /\ MaxFaults \in Nat /\ MaxReportCrashes \in Nat /\ BridgesMayFail \in BOOLEAN

VARIABLES
    facts,          \* controller Session: the Team after each durable fact
    binding,        \* controller Session: parent in control, its predecessor, generation
    checkpoints,    \* controller Session: acknowledged reports
    bridge,         \* parent Sessions: newest projected cut per binding generation, 0 none
    gone,           \* parent Sessions: generation of the newest tombstone, 0 none
    inbox,          \* parent Sessions: reports sent, as the live Session has them
    flushed,        \* parent Sessions: how many of them are durable
    online,         \* parents whose Agent is live
    worker,         \* the delivery of this controller
    wanted,         \* deliveries asked for and not yet confirmed
    retry,          \* the retry timer is set
    job,            \* coalesced projection after commits: "off", "clean" or "dirty"
    sync,           \* projections under way, per caller
    suppression,    \* reports kept back by a recovery from the panel
    switch,         \* a switch of the parent is under way
    recovery,       \* a recovery from the panel is under way
    faults, hostCrashes, switches, recoveries

reportFacts == <<facts, binding, checkpoints, bridge, gone>>
delivery == <<worker, wanted, retry>>
panel == <<suppression, recovery, recoveries>>
reportsVars == <<reportFacts, inbox, flushed, online, delivery, job, sync, panel, switch,
          faults, hostCrashes, switches>>

Callers == {"job", "worker", "switch", "life"}
Cuts == 1..MaxFacts
Generations == 0..MaxSwitches

\* The Team after a fact: its status, whether a requested revision has completed, and
\* whether the fact only records a recovery asked for from the panel.
Facts == [status : Statuses, revised : BOOLEAN, recovered : BOOLEAN]
Reports == [gen : Generations, cut : Cuts]
Checkpoints == [parent : Parents, gen : Generations, cut : Cuts, message : Cuts]

NoBinding == [parent |-> NoParent, previous |-> NoParent, gen |-> 0]
Off == [pc |-> "off", parent |-> NoParent, seen |-> 0, gen |-> 0, cut |-> 0]
Idle == [pc |-> "off", to |-> NoBinding]
NoSuppression == [set |-> FALSE, active |-> FALSE, through |-> 0]

ReportsInit ==
    /\ facts = <<[status |-> "running", revised |-> FALSE, recovered |-> FALSE]>>
    /\ binding = [parent |-> FirstParent, previous |-> NoParent, gen |-> 0]
    /\ checkpoints = {}
    /\ bridge = [p \in Parents |-> [g \in Generations |-> 0]]
    /\ gone = [p \in Parents |-> 0]
    /\ inbox = [p \in Parents |-> <<>>] /\ flushed = [p \in Parents |-> 0]
    /\ online = Parents
    /\ worker = Off /\ wanted = "none" /\ retry = FALSE
    /\ job = "off" /\ sync = [c \in Callers |-> Idle]
    /\ suppression = NoSuppression /\ switch = FALSE /\ recovery = "off"
    /\ faults = 0 /\ hostCrashes = 0 /\ switches = 0 /\ recoveries = 0

----
(* What the parent may be told *)

Now == Len(facts)
Reportable(k) == <<facts[k].status, facts[k].revised>>

\* A bridge carries the whole journal, and is named after the number of its facts.
BridgeCut == Now

\* Mutant: only the newest unflushed message is recognised.
SentLately(p, g, k) ==
    inbox[p] # <<>> /\ inbox[p][Len(inbox[p])] = [gen |-> g, cut |-> k] /\ Len(inbox[p]) > flushed[p]
\* The report of a generation and cut is one message of the inbox.
Sent(p, g, k) == \E i \in 1..Len(inbox[p]) : inbox[p][i] = [gen |-> g, cut |-> k]

\* The newest acknowledged report of the parent in control, as a set of at most one.
CheckpointsOf(b) == {c \in checkpoints : c.parent = b.parent /\ c.gen = b.gen}
LatestCheckpoint(b) ==
    {c \in CheckpointsOf(b) : \A d \in CheckpointsOf(b) : d.cut <= c.cut}
AcknowledgedCut(b) == IF LatestCheckpoint(b) = {} THEN 0
                      ELSE (CHOOSE c \in LatestCheckpoint(b) : TRUE).cut

NewerStateExists(k) == Reportable(Now) # Reportable(k)
\* Mutant: only the same cut repeats a report.
SameCut(c, k) == Sent(c.parent, c.gen, c.message) /\ c.message = k
SameNews(c, k) == /\ Sent(c.parent, c.gen, c.message) /\ Reportable(c.message) = Reportable(k)
HasNewRevisionCompletion(seen) ==
    \E i \in (seen + 1)..Now : facts[i].revised /\ (i = 1 \/ ~facts[i - 1].revised)
IsActionable(k) == facts[k].status \in {"needs_reconciliation", "paused", "cancelled"}
KeptBack(k) == suppression.set /\ (suppression.active \/ k <= suppression.through)

----
(* Asking for a delivery, and the end of one *)

\* A pass takes the newest request, if there is one.
StartDelivery ==
    /\ worker' = [Off EXCEPT !.pc = "delay"]
    /\ wanted' = IF wanted = "more" THEN "taken" ELSE wanted

\* A new request starts the worker unless one is under way, which then runs again.
ScheduleDelivery ==
    IF worker.pc = "off"
    THEN worker' = [Off EXCEPT !.pc = "delay"] /\ wanted' = "taken"
    ELSE wanted' = "more" /\ UNCHANGED worker

\* The worker goes round again unless the request it took is still the newest one.
PassDone ==
    /\ UNCHANGED retry
    /\ IF wanted = "taken" THEN worker' = Off /\ wanted' = "none" ELSE StartDelivery

\* Mutant: a pending delivery is not retried.
PassGivenUp == worker' = Off /\ UNCHANGED <<retry, wanted>>
PassPending == worker' = Off /\ retry' = (retry \/ wanted # "none") /\ UNCHANGED wanted

RetryFires ==
    /\ retry /\ retry' = FALSE
    /\ IF worker.pc = "off" THEN StartDelivery ELSE UNCHANGED <<worker, wanted>>
    /\ UNCHANGED <<reportFacts, inbox, flushed, online, job, sync, panel, switch, faults, hostCrashes, switches>>

Fault == faults < MaxFaults /\ faults' = faults + 1

----
(* Projection of the controller's facts into the parent Session *)

\* Without a former parent nothing is awaited before the bridge is appended.
Opened(b) == [pc |-> IF b.previous = NoParent THEN "publish" ELSE "detach", to |-> b]
Begin(c) == sync' = [sync EXCEPT ![c] = Opened(binding)]
MarkJob == job' = "dirty"

StartJob ==
    /\ job = "dirty" /\ sync["job"].pc = "off"
    /\ job' = "clean" /\ Begin("job")
    /\ UNCHANGED <<reportFacts, inbox, flushed, online, delivery, panel, switch, faults, hostCrashes, switches>>

\* The former parent gets a tombstone of the newer generation; not being able to write it
\* is forgotten.
Detach(c) ==
    LET to == sync[c].to  former == to.previous IN
    /\ sync[c].pc = "detach"
    /\ sync' = [sync EXCEPT ![c].pc = "publish"]
    /\ \/ /\ former \in online \ {to.parent} /\ gone[former] < to.gen
          /\ gone' = [gone EXCEPT ![former] = to.gen] /\ UNCHANGED faults
       \/ former \in online \ {to.parent} /\ gone[former] < to.gen /\ Fault /\ UNCHANGED gone
       \/ ~(former \in online \ {to.parent} /\ gone[former] < to.gen) /\ UNCHANGED <<gone, faults>>
    /\ UNCHANGED <<facts, binding, checkpoints, bridge, inbox, flushed, online, delivery, job,
                   panel, switch, hostCrashes, switches>>

\* The caller goes on once its projection has ended, however it ended; a switch asks for
\* a report to the new parent.
Return(c) ==
    /\ switch' = (switch /\ c # "switch")
    /\ job' = IF c = "job" /\ job = "clean" THEN "off" ELSE job
    /\ \/ c = "worker" /\ worker' = [worker EXCEPT !.pc = "prepare"] /\ UNCHANGED wanted
       \/ c = "switch" /\ ScheduleDelivery
       \/ c \in {"job", "life"} /\ UNCHANGED <<worker, wanted>>

\* The whole journal is projected for the parent and generation read at the beginning; a
\* cut that is there already is not appended twice.  Commits and switches see live
\* Sessions only, the others load the parent.
Publish(c) ==
    LET to == sync[c].to
        reached == to.parent \in online \/ c \in {"worker", "life"}
        news == reached /\ bridge[to.parent][to.gen] # BridgeCut
    IN  /\ sync[c].pc = "publish"
        /\ sync' = [sync EXCEPT ![c] = Idle]
        /\ \/ news /\ bridge' = [bridge EXCEPT ![to.parent][to.gen] = BridgeCut] /\ UNCHANGED faults
           \/ news /\ BridgesMayFail /\ Fault /\ UNCHANGED bridge
           \/ ~news /\ UNCHANGED <<bridge, faults>>
        /\ Return(c)
        /\ UNCHANGED <<facts, binding, checkpoints, gone, inbox, flushed, online, retry,
                       panel, hostCrashes, switches>>

Project(c) == Detach(c) \/ Publish(c)

----
(* One pass of the delivery worker *)

Work(pc) == worker.pc = pc
StepTo(pc) == worker' = [worker EXCEPT !.pc = pc] /\ UNCHANGED <<wanted, retry>>

\* Commits come in bursts: the worker waits before it reads.
EndDelay ==
    /\ Work("delay")
    /\ IF suppression.set /\ suppression.active
       THEN PassDone /\ UNCHANGED sync
       ELSE StepTo("sync") /\ Begin("worker")
    /\ UNCHANGED <<reportFacts, inbox, flushed, online, job, panel, switch, faults, hostCrashes, switches>>

\* Who controls the Team, and up to where its reports are acknowledged, before the
\* checkpoint is made durable again.
Prepare ==
    /\ Work("prepare")
    /\ IF facts[Now].recovered
       THEN PassDone
       ELSE /\ worker' = [worker EXCEPT !.pc = "decide", !.seen = AcknowledgedCut(binding),
                              !.parent = IF binding.parent \in online THEN binding.parent ELSE NoParent]
            /\ UNCHANGED <<wanted, retry>>
    /\ UNCHANGED <<reportFacts, inbox, flushed, online, job, sync, panel, switch, faults, hostCrashes, switches>>

\* Only terminal and actionable states, and newly completed revisions, wake the parent.
Decide ==
    /\ Work("decide")
    /\ suppression' = IF KeptBack(Now) THEN suppression ELSE NoSuppression
    /\ IF KeptBack(Now) \/ ~(HasNewRevisionCompletion(worker.seen) \/ IsActionable(Now))
       THEN PassDone
       ELSE StepTo("deliver")
    /\ UNCHANGED <<reportFacts, inbox, flushed, online, job, sync, recovery, recoveries, switch,
                   faults, hostCrashes, switches>>

\* deliverParentReport up to its first await, one disjunct per way to leave it.
Deliver ==
    LET cut == bridge[binding.parent][binding.gen]
        known == LatestCheckpoint(binding)
        repeats == {c \in known : SameNews(c, cut)}
        settled == NewerStateExists(cut) \/ AcknowledgedCut(binding) >= cut \/ KeptBack(cut)
    IN  /\ Work("deliver")
        /\ \/ /\ worker.parent # binding.parent \/ cut = 0
              /\ PassPending /\ UNCHANGED <<checkpoints, inbox, faults>>
           \/ /\ worker.parent = binding.parent /\ cut > 0 /\ settled
              /\ PassDone /\ UNCHANGED <<checkpoints, inbox, faults>>
           \/ /\ worker.parent = binding.parent /\ cut > 0 /\ ~settled /\ repeats # {}
              /\ \/ /\ checkpoints' = checkpoints \union {[c EXCEPT !.cut = cut] : c \in repeats}
                    /\ PassDone /\ UNCHANGED faults
                 \/ Fault /\ PassPending /\ UNCHANGED checkpoints
              /\ UNCHANGED inbox
           \/ /\ worker.parent = binding.parent /\ cut > 0 /\ ~settled /\ repeats = {}
              /\ inbox' = IF Sent(binding.parent, binding.gen, cut) THEN inbox
                          ELSE [inbox EXCEPT ![binding.parent] =
                                   Append(@, [gen |-> binding.gen, cut |-> cut])]
              /\ worker' = [worker EXCEPT !.pc = "flush", !.gen = binding.gen, !.cut = cut]
              /\ UNCHANGED <<wanted, retry, checkpoints, faults>>
        /\ UNCHANGED <<facts, binding, bridge, gone, flushed, online, job, sync, panel, switch,
                       hostCrashes, switches>>

\* Mutant: the flush is taken as done.
FlushInboxLater ==
    /\ Work("flush") /\ StepTo("acknowledge")
    /\ UNCHANGED <<reportFacts, inbox, flushed, online, job, sync, panel, switch, faults, hostCrashes, switches>>

FlushInbox ==
    /\ Work("flush")
    /\ \/ /\ flushed' = [flushed EXCEPT ![worker.parent] = Len(inbox[worker.parent])]
          /\ StepTo("acknowledge") /\ UNCHANGED faults
       \/ Fault /\ PassPending /\ UNCHANGED flushed
    /\ UNCHANGED <<reportFacts, inbox, online, job, sync, panel, switch, hostCrashes, switches>>

Acknowledge ==
    /\ Work("acknowledge")
    /\ \/ /\ checkpoints' = checkpoints \union
                 {[parent |-> worker.parent, gen |-> worker.gen, cut |-> worker.cut, message |-> worker.cut]}
          /\ PassDone /\ UNCHANGED faults
       \/ Fault /\ PassPending /\ UNCHANGED checkpoints
    /\ UNCHANGED <<facts, binding, bridge, gone, inbox, flushed, online, job, sync, panel,
                   switch, hostCrashes, switches>>

Deliveries == RetryFires \/ EndDelay \/ Prepare \/ Decide \/ Deliver \/ FlushInbox \/ Acknowledge

----
(* What goes on around the delivery *)

\* One more durable fact: noise that changes nothing to tell, or a step of the Team.  Here
\* "running" stands for every status that asks nothing of the parent (also pausing and
\* cancelling), "cancelled" for every terminal one.
Follows(old, new) ==
    /\ ~new.recovered /\ (old.revised => new.revised)
    /\ new.revised /\ ~old.revised => old.status = "running" /\ new.status = "running"
    /\ old.status = "cancelled" => new.status = "cancelled"

CommitFact ==
    /\ Now < MaxFacts
    /\ \E new \in Facts : Follows(facts[Now], new) /\ facts' = Append(facts, new)
    /\ MarkJob /\ ScheduleDelivery
    /\ UNCHANGED <<binding, checkpoints, bridge, gone, inbox, flushed, online, retry, sync, panel,
                   switch, faults, hostCrashes, switches>>

\* /yuqi-rebind: control moves to another live conversation of the project.
SwitchParent(p) ==
    /\ ~switch /\ switches < MaxSwitches /\ {p, binding.parent} \subseteq online
    /\ switches' = switches + 1
    /\ \/ /\ p # binding.parent
          /\ binding' = [parent |-> p, previous |-> binding.parent, gen |-> binding.gen + 1]
          /\ UNCHANGED faults
       \/ p = binding.parent /\ UNCHANGED <<binding, faults>>
       \/ p # binding.parent /\ Fault /\ UNCHANGED binding
    /\ IF faults' = faults
       THEN switch' = TRUE /\ sync' = [sync EXCEPT !["switch"] = Opened(binding')]
       ELSE UNCHANGED <<switch, sync>>
    /\ UNCHANGED <<facts, checkpoints, bridge, gone, inbox, flushed, online, delivery, job, panel, hostCrashes>>

\* "Recover and continue" in the panel: the user sees the outcome there, so what it
\* changes is not reported.
BeginRecovery ==
    /\ recovery = "off" /\ recoveries < MaxRecoveries /\ sync["life"].pc = "off"
    /\ facts[Now].status = "needs_reconciliation" /\ bridge[binding.parent][binding.gen] > 0
    /\ recovery' = "active" /\ recoveries' = recoveries + 1
    /\ suppression' = [set |-> TRUE, active |-> TRUE,
                       through |-> IF suppression.through > Now THEN suppression.through ELSE Now]
    /\ UNCHANGED <<reportFacts, inbox, flushed, online, delivery, job, sync, switch, faults, hostCrashes, switches>>

CommitRecovery ==
    /\ recovery = "active" /\ facts[Now].status = "needs_reconciliation" /\ Now < MaxFacts
    /\ recovery' = "done"
    /\ \/ facts' = Append(facts, [facts[Now] EXCEPT !.status = "paused", !.recovered = TRUE])
       \/ facts' = Append(facts, [facts[Now] EXCEPT !.status = "cancelled"])
    /\ MarkJob
    /\ UNCHANGED <<binding, checkpoints, bridge, gone, inbox, flushed, online, delivery, sync,
                   suppression, recoveries, switch, faults, hostCrashes, switches>>

\* An unsuccessful recovery keeps back what was there when it began.
EndRecovery ==
    /\ recovery \in {"active", "done"} /\ sync["life"].pc = "off"
    /\ suppression' = [suppression EXCEPT !.active = FALSE,
                           !.through = IF recovery = "done" THEN Now ELSE @]
    /\ recovery' = "off" /\ Begin("life")
    /\ UNCHANGED <<reportFacts, inbox, flushed, online, delivery, job, recoveries, switch, faults, hostCrashes, switches>>

\* The Agent of a parent comes up: its controllers are looked up and projected again.
ParentOnline(p) ==
    /\ p \notin online /\ online' = online \union {p}
    /\ IF binding.parent = p THEN ScheduleDelivery ELSE UNCHANGED <<worker, wanted>>
    /\ IF p \in {binding.parent, binding.previous} /\ sync["life"].pc = "off" THEN Begin("life") ELSE UNCHANGED sync
    /\ UNCHANGED <<reportFacts, inbox, flushed, retry, job, panel, switch, faults, hostCrashes, switches>>

\* A restart of the Host keeps the Sessions; how much of an unflushed inbox survives is open.
HostCrash ==
    /\ hostCrashes < MaxReportCrashes /\ hostCrashes' = hostCrashes + 1
    /\ \E kept \in [Parents -> 0..MaxFacts * (MaxSwitches + 1)] :
          /\ \A p \in Parents : flushed[p] <= kept[p] /\ kept[p] <= Len(inbox[p])
          /\ inbox' = [p \in Parents |-> SubSeq(inbox[p], 1, kept[p])]
          /\ flushed' = kept
    /\ online' = {}
    /\ worker' = Off /\ wanted' = "none" /\ retry' = FALSE
    /\ job' = "off" /\ sync' = [c \in Callers |-> Idle]
    /\ suppression' = NoSuppression /\ recovery' = "off" /\ switch' = FALSE
    /\ UNCHANGED <<reportFacts, faults, switches, recoveries>>

ReportsNext ==
    \/ Deliveries \/ StartJob \/ (\E c \in Callers : Project(c))
    \/ CommitFact \/ (\E p \in Parents : SwitchParent(p) \/ ParentOnline(p))
    \/ BeginRecovery \/ CommitRecovery \/ EndRecovery \/ HostCrash

ReportsSpec == ReportsInit /\ [][ReportsNext]_reportsVars

\* Timers fire, started writes end, and the conversation is opened again.
DeliveryFairness ==
    /\ WF_reportsVars(Deliveries) /\ WF_reportsVars(RetryFires) /\ WF_reportsVars(StartJob)
    /\ \A c \in Callers : WF_reportsVars(Project(c))
    /\ \A p \in Parents : WF_reportsVars(ParentOnline(p))
    /\ WF_reportsVars(EndRecovery)

ReportsFairSpec == ReportsSpec /\ DeliveryFairness
====
