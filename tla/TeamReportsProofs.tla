---- MODULE TeamReportsProofs ----
(***************************************************************************)
(* What children report, and what the parent learns of it.                *)
(* For every number of conversations, facts, switches, failures and        *)
(* restarts: an acknowledged report is durable in the inbox of its parent, *)
(* no report of one generation and cut is in an inbox twice, and whoever   *)
(* is woken is in control and learns something new; for every number of    *)
(* attempts, waits, failures and restarts an attempt is settled once, by   *)
(* its owner; and for every number of instructions, tasks and restarts a   *)
(* child takes a request once and the receipt says only what happened.     *)
(***************************************************************************)
EXTENDS TeamReportsSafety, TeamObserver, TeamInstructions, SequenceTheorems, WellFoundedInduction, TLAPS

Bindings == [parent : Parents \union {NoParent}, previous : Parents \union {NoParent}, gen : Generations]
WorkerPlaces == {"off", "delay", "sync", "prepare", "decide", "deliver", "flush", "acknowledge"}

\* The type invariant by who owns the variables, with what ReportsTypeOK leaves out.
FactsTyped == facts \in Seq(Facts) /\ Now \in Cuts

InboxTyped ==
    /\ inbox \in [Parents -> Seq(Reports)] /\ flushed \in [Parents -> Nat]
    /\ \A p \in Parents : flushed[p] <= Len(inbox[p])

RoutesTyped ==
    /\ binding \in Bindings /\ binding.parent \in Parents
    /\ switches \in 0..MaxSwitches /\ binding.gen <= switches
    /\ bridge \in [Parents -> [Generations -> 0..Now]]
    /\ gone \in [Parents -> Generations]
    /\ online \subseteq Parents

SyncTyped ==
    /\ sync \in [Callers -> [pc : {"off", "detach", "publish"}, to : Bindings]]
    /\ \A c \in Callers : sync[c].pc # "off" => sync[c].to.parent \in Parents

WorkerTyped ==
    /\ worker \in [pc : WorkerPlaces, parent : Parents \union {NoParent}, seen : 0..MaxFacts,
                   gen : Generations, cut : 0..MaxFacts]
    /\ worker.pc \in {"flush", "acknowledge"} => worker.parent \in Parents /\ worker.cut \in Cuts
    /\ wanted \in {"none", "taken", "more"} /\ retry \in BOOLEAN
    /\ checkpoints \subseteq Checkpoints

PanelTyped ==
    /\ suppression \in [set : BOOLEAN, active : BOOLEAN, through : 0..Now]
    /\ recovery \in {"off", "active", "done"}
    /\ job \in {"off", "clean", "dirty"} /\ switch \in BOOLEAN

TypeInv == FactsTyped /\ InboxTyped /\ RoutesTyped /\ SyncTyped /\ WorkerTyped /\ PanelTyped

\* While a delivery waits for its flush its message is in the inbox; once the flush has
\* returned, and until the checkpoint is written, it is in the durable part.
Durable(p, g, k) == \E i \in 1..flushed[p] : inbox[p][i] = [gen |-> g, cut |-> k]

DeliveryUnderWay ==
    /\ Work("flush") => Sent(worker.parent, worker.gen, worker.cut)
    /\ Work("acknowledge") => Durable(worker.parent, worker.gen, worker.cut)

----
(* Lemmas on what the steps read and write *)

(* A Team has a first and a last fact, and growing the journal by a fact keeps both. *)
LEMMA FactsGrow ==
    ASSUME FactsTyped, Now < MaxFacts, NEW new \in Facts, facts' = Append(facts, new)
    PROVE  FactsTyped' /\ Now' = Now + 1
BY ReportsAssumption DEF FactsTyped, Now, Cuts

(* The last fact is a fact. *)
LEMMA LastFact ==
    ASSUME FactsTyped
    PROVE  facts[Now] \in Facts /\ Now \in Nat
BY ReportsAssumption DEF FactsTyped, Now, Cuts

(* The position up to which reports are acknowledged is a cut, or none. *)
LEMMA AcknowledgedIsCut ==
    ASSUME checkpoints \subseteq Checkpoints
    PROVE  AcknowledgedCut(binding) \in 0..MaxFacts
<1>1. LatestCheckpoint(binding) \subseteq Checkpoints
  BY DEF LatestCheckpoint, CheckpointsOf
<1>2. CASE LatestCheckpoint(binding) = {}
  BY <1>2, ReportsAssumption DEF AcknowledgedCut
<1>3. CASE LatestCheckpoint(binding) # {}
  <2>1. (CHOOSE c \in LatestCheckpoint(binding) : TRUE) \in Checkpoints
    BY <1>1, <1>3
  <2> QED
    BY <2>1, <1>3, ReportsAssumption DEF AcknowledgedCut, Checkpoints, Cuts
<1> QED
  BY <1>2, <1>3

(* A worker at rest is well typed. *)
LEMMA OffTyped ==
    /\ Off \in [pc : WorkerPlaces, parent : Parents \union {NoParent}, seen : 0..MaxFacts,
                gen : Generations, cut : 0..MaxFacts]
    /\ Off.pc = "off"
BY ReportsAssumption DEF Off, WorkerPlaces, Generations

(* The initial state is well typed. *)
LEMMA InitTyped == ReportsInit => TypeInv
<1> SUFFICES ASSUME ReportsInit PROVE TypeInv
  OBVIOUS
<1> USE ReportsAssumption
<1>1. FactsTyped /\ Now = 1
  BY DEF ReportsInit, FactsTyped, Now, Cuts, Facts
<1>2. InboxTyped
  BY DEF ReportsInit, InboxTyped
<1>3. RoutesTyped
  BY <1>1 DEF ReportsInit, RoutesTyped, Bindings, Generations
<1>4. SyncTyped
  BY DEF ReportsInit, SyncTyped, Idle, NoBinding, Bindings, Generations
<1>5. WorkerTyped
  BY OffTyped DEF ReportsInit, WorkerTyped
<1>6. PanelTyped
  <2>1. NoSuppression \in [set : BOOLEAN, active : BOOLEAN, through : 0..Now]
    BY <1>1 DEF NoSuppression
  <2> QED
    BY <2>1 DEF ReportsInit, PanelTyped
<1> QED
  BY <1>1, <1>2, <1>3, <1>4, <1>5, <1>6 DEF TypeInv

(* Asking for a delivery, and ending one, keep the worker well typed. *)
LEMMA PassesTyped ==
    ASSUME WorkerTyped, checkpoints' \subseteq Checkpoints,
           \/ ScheduleDelivery /\ UNCHANGED retry
           \/ UNCHANGED <<worker, wanted, retry>>
           \/ PassDone
           \/ PassPending
           \/ StartDelivery /\ retry' \in BOOLEAN
    PROVE  WorkerTyped'
<1> DEFINE WorkerNotes == [pc : WorkerPlaces, parent : Parents \union {NoParent}, seen : 0..MaxFacts,
                           gen : Generations, cut : 0..MaxFacts]
<1>1. Off \in WorkerNotes /\ [Off EXCEPT !.pc = "delay"] \in WorkerNotes
  BY ReportsAssumption DEF WorkerPlaces, Off, Generations
<1>2. Off.pc = "off" /\ [Off EXCEPT !.pc = "delay"].pc = "delay"
  BY DEF Off
<1>3. worker' \in {worker, Off, [Off EXCEPT !.pc = "delay"]}
  BY DEF ScheduleDelivery, PassDone, PassPending, StartDelivery
<1>4. wanted' \in {"none", "taken", "more"} /\ retry' \in BOOLEAN
  BY DEF WorkerTyped, ScheduleDelivery, PassDone, PassPending, StartDelivery
<1> HIDE DEF WorkerNotes
<1>5. worker' \in WorkerNotes /\ (worker'.pc \in {"flush", "acknowledge"} => worker' = worker)
  BY <1>1, <1>2, <1>3 DEF WorkerTyped, WorkerNotes
<1> QED
  BY <1>4, <1>5 DEF WorkerTyped, WorkerNotes

(* Starting a projection for a well-typed binding keeps the projections well typed. *)
LEMMA BeginTyped ==
    ASSUME SyncTyped, NEW c \in Callers, NEW b \in Bindings, b.parent \in Parents,
           sync' = [sync EXCEPT ![c] = Opened(b)]
    PROVE  SyncTyped'
BY DEF SyncTyped, Opened

(* What a step leaves alone stays well typed. *)
LEMMA Framed ==
    ASSUME TypeInv
    PROVE  /\ UNCHANGED facts => FactsTyped' /\ Now' = Now
           /\ UNCHANGED <<inbox, flushed>> => InboxTyped'
           /\ UNCHANGED <<facts, binding, switches, bridge, gone, online>> => RoutesTyped'
           /\ UNCHANGED sync => SyncTyped'
           /\ UNCHANGED <<worker, wanted, retry, checkpoints>> => WorkerTyped'
           /\ UNCHANGED checkpoints => checkpoints' \subseteq Checkpoints
           /\ UNCHANGED <<facts, suppression, recovery, job, switch>> => PanelTyped'
BY DEF TypeInv, FactsTyped, InboxTyped, RoutesTyped, SyncTyped, WorkerTyped, PanelTyped, Now, Work

----
(* Type correctness: every step keeps the type invariant *)

(* A pass of the delivery worker. *)
LEMMA DeliveriesTyped ==
    ASSUME TypeInv, Deliveries
    PROVE  TypeInv'
<1> USE DEF TypeInv, reportFacts, panel
<1>1. CASE RetryFires
  <2>1. WorkerTyped'
    BY <1>1, PassesTyped DEF RetryFires, StartDelivery, WorkerTyped
  <2> QED
    BY <1>1, <2>1, Framed DEF RetryFires
<1>2. CASE EndDelay
  <2>1. CASE suppression.set /\ suppression.active
    <3>1. PassDone /\ UNCHANGED <<checkpoints, sync>>
      BY <1>2, <2>1 DEF EndDelay
    <3> QED
      BY <1>2, <3>1, Framed, PassesTyped DEF EndDelay
  <2>2. CASE ~(suppression.set /\ suppression.active)
    <3>1. SyncTyped'
      BY <1>2, <2>2, BeginTyped DEF EndDelay, Begin, RoutesTyped, Callers
    <3>2. WorkerTyped'
      BY <1>2, <2>2 DEF EndDelay, StepTo, WorkerTyped, WorkerPlaces
    <3> QED
      BY <1>2, <3>1, <3>2, Framed DEF EndDelay
  <2> QED
    BY <2>1, <2>2
<1>3. CASE Prepare
  <2>1. CASE facts[Now].recovered
    BY <1>3, <2>1, Framed, PassesTyped DEF Prepare
  <2>2. CASE ~facts[Now].recovered
    <3>1. AcknowledgedCut(binding) \in 0..MaxFacts
      BY AcknowledgedIsCut DEF WorkerTyped
    <3>2. WorkerTyped'
      BY <1>3, <2>2, <3>1 DEF Prepare, WorkerTyped, WorkerPlaces, RoutesTyped
    <3> QED
      BY <1>3, <3>2, Framed DEF Prepare
  <2> QED
    BY <2>1, <2>2
<1>4. CASE Decide
  <2>1. WorkerTyped'
    <3>1. CASE PassDone
      BY <1>4, <3>1, Framed, PassesTyped DEF Decide
    <3>2. CASE StepTo("deliver")
      BY <1>4, <3>2 DEF Decide, StepTo, WorkerTyped, WorkerPlaces
    <3> QED
      BY <1>4, <3>1, <3>2 DEF Decide
  <2>2. PanelTyped'
    <3>1. NoSuppression \in [set : BOOLEAN, active : BOOLEAN, through : 0..Now]
      BY LastFact DEF NoSuppression
    <3> QED
      BY <1>4, <3>1, Framed DEF Decide, PanelTyped
  <2> QED
    BY <1>4, <2>1, <2>2, Framed DEF Decide
<1>5. CASE FlushInbox
  <2>1. worker.parent \in Parents
    BY <1>5 DEF FlushInbox, Work, WorkerTyped
  <2>2. InboxTyped'
    BY <1>5, <2>1 DEF FlushInbox, InboxTyped
  <2>3. WorkerTyped'
    <3>1. CASE PassPending
      BY <1>5, <3>1, Framed, PassesTyped DEF FlushInbox
    <3>2. CASE StepTo("acknowledge")
      BY <1>5, <3>2 DEF FlushInbox, StepTo, Work, WorkerTyped, WorkerPlaces
    <3> QED
      BY <1>5, <3>1, <3>2 DEF FlushInbox
  <2> QED
    BY <1>5, <2>2, <2>3, Framed DEF FlushInbox
<1>6. CASE Acknowledge
  <2>1. WorkerTyped'
    <3>1. CASE UNCHANGED checkpoints
      BY <1>6, <3>1, Framed, PassesTyped DEF Acknowledge
    <3>2. CASE ~UNCHANGED checkpoints
      <4>1. checkpoints' \subseteq Checkpoints
        BY <1>6, <3>2 DEF Acknowledge, Work, WorkerTyped, Checkpoints
      <4>2. PassDone
        BY <1>6, <3>2 DEF Acknowledge
      <4> QED
        BY <4>1, <4>2, PassesTyped DEF WorkerTyped
    <3> QED
      BY <3>1, <3>2
  <2> QED
    BY <1>6, <2>1, Framed DEF Acknowledge
<1>7. CASE Deliver
  <2> DEFINE cut == bridge[binding.parent][binding.gen]
  <2>1. cut \in 0..MaxFacts /\ binding.parent \in Parents /\ binding.gen \in Generations
    <3>1. binding.parent \in Parents /\ binding.gen \in Generations
      BY DEF RoutesTyped, Bindings
    <3>2. cut \in 0..Now
      BY <3>1 DEF RoutesTyped
    <3> QED
      BY <3>1, <3>2, ReportsAssumption DEF FactsTyped, Cuts
  <2> HIDE DEF cut
  <2>2. CASE /\ cut > 0 /\ worker' = [worker EXCEPT !.pc = "flush", !.gen = binding.gen, !.cut = cut]
             /\ worker.parent = binding.parent
             /\ inbox' = IF Sent(binding.parent, binding.gen, cut) THEN inbox
                         ELSE [inbox EXCEPT ![binding.parent] = Append(@, [gen |-> binding.gen, cut |-> cut])]
             /\ UNCHANGED <<wanted, retry, checkpoints>>
    <3>1. [gen |-> binding.gen, cut |-> cut] \in Reports /\ cut \in Cuts
      BY <2>1, <2>2 DEF Reports, Cuts
    <3>2. InboxTyped'
      <4> DEFINE q == binding.parent
                 m == [gen |-> binding.gen, cut |-> cut]
      <4>1. /\ inbox \in [Parents -> Seq(Reports)] /\ flushed \in [Parents -> Nat] /\ flushed' = flushed
            /\ \A p \in Parents : flushed[p] <= Len(inbox[p]) /\ Len(inbox[p]) \in Nat
            /\ q \in Parents /\ inbox[q] \in Seq(Reports) /\ m \in Reports
        BY <1>7, <2>1, <3>1 DEF Deliver, InboxTyped
      <4> HIDE DEF q, m
      <4>2. CASE inbox' = inbox
        BY <4>1, <4>2 DEF InboxTyped
      <4>3. CASE inbox' = [inbox EXCEPT ![q] = Append(@, m)]
        <5>1. Append(inbox[q], m) \in Seq(Reports) /\ Len(Append(inbox[q], m)) = Len(inbox[q]) + 1
          BY <4>1
        <5>2. inbox' \in [Parents -> Seq(Reports)]
          BY <4>1, <4>3, <5>1
        <5>3. \A p \in Parents : flushed[p] <= Len(inbox'[p])
          BY <4>1, <4>3, <5>1
        <5> QED
          BY <4>1, <5>2, <5>3 DEF InboxTyped
      <4> QED
        BY <2>2, <4>2, <4>3 DEF q, m
    <3>3. WorkerTyped'
      BY <2>1, <2>2, <3>1 DEF WorkerTyped, WorkerPlaces
    <3> QED
      BY <1>7, <3>2, <3>3, Framed DEF Deliver
  <2>3. CASE UNCHANGED inbox /\ (PassDone \/ PassPending) /\ checkpoints' \subseteq Checkpoints
    <3>1. WorkerTyped'
      BY <2>3, PassesTyped DEF WorkerTyped
    <3> QED
      BY <1>7, <2>3, <3>1, Framed DEF Deliver
  <2>4. ASSUME NEW c \in checkpoints, cut > 0 PROVE [c EXCEPT !.cut = cut] \in Checkpoints
    BY <2>1, <2>4 DEF WorkerTyped, Checkpoints, Cuts
  <2> QED
    BY <1>7, <2>1, <2>2, <2>3, <2>4 DEF Deliver, cut, WorkerTyped, LatestCheckpoint, CheckpointsOf
<1> QED
  BY <1>1, <1>2, <1>3, <1>4, <1>5, <1>6, <1>7 DEF Deliveries

(* A projection of the journal into the parent. *)
LEMMA ProjectTyped ==
    ASSUME TypeInv, NEW c \in Callers, Project(c)
    PROVE  TypeInv'
<1> USE DEF TypeInv, reportFacts, panel, delivery
<1> DEFINE to == sync[c].to
<1>1. sync[c].pc # "off" /\ to \in Bindings /\ to.parent \in Parents
  BY DEF Project, Detach, Publish, SyncTyped
<1>2. CASE Detach(c)
  <2>1. SyncTyped'
    BY <1>1, <1>2 DEF Detach, SyncTyped
  <2>2. to.gen \in Generations /\ (to.previous \in online => to.previous \in Parents)
    BY <1>1 DEF Bindings, RoutesTyped
  <2>3. gone' = gone \/ (to.previous \in Parents /\ gone' = [gone EXCEPT ![to.previous] = to.gen])
    BY <1>2, <2>2 DEF Detach
  <2>4. gone' \in [Parents -> Generations]
    BY <2>2, <2>3 DEF RoutesTyped
  <2>5. RoutesTyped'
    BY <1>2, <2>4, Framed DEF Detach, RoutesTyped
  <2> QED
    BY <1>2, <2>1, <2>5, Framed DEF Detach
<1>3. CASE Publish(c)
  <2>1. SyncTyped'
    BY <1>3, ReportsAssumption DEF Publish, SyncTyped, Idle, NoBinding, Bindings, Generations
  <2>2. RoutesTyped'
    <3>1. to.gen \in Generations /\ Now \in Nat /\ Now \in 0..Now
      BY <1>1, LastFact DEF Bindings
    <3>2. bridge' \in {bridge, [bridge EXCEPT ![to.parent][to.gen] = Now]}
      BY <1>3 DEF Publish, BridgeCut
    <3>3. bridge' \in [Parents -> [Generations -> 0..Now]]
      <4> HIDE DEF to
      <4>1. [bridge[to.parent] EXCEPT ![to.gen] = Now] \in [Generations -> 0..Now]
        BY <1>1, <3>1 DEF RoutesTyped
      <4> QED
        BY <1>1, <3>1, <3>2, <4>1 DEF RoutesTyped
    <3> QED
      BY <1>3, <3>3, Framed DEF Publish, RoutesTyped
  <2>3. WorkerTyped'
    <3>1. CASE c = "worker"
      BY <1>3, <3>1 DEF Publish, Return, WorkerTyped, WorkerPlaces
    <3>2. CASE c # "worker"
      BY <1>3, <3>2, Framed, PassesTyped DEF Publish, Return
    <3> QED
      BY <3>1, <3>2
  <2>4. PanelTyped'
    BY <1>3, Framed DEF Publish, Return, PanelTyped
  <2> QED
    BY <1>3, <2>1, <2>2, <2>3, <2>4, Framed DEF Publish
<1> QED
  BY <1>2, <1>3 DEF Project

(* A new fact, of the Team or of a recovery from the panel. *)
LEMMA FactsTypedOn ==
    ASSUME TypeInv, CommitFact \/ CommitRecovery
    PROVE  TypeInv'
<1> USE DEF TypeInv, reportFacts, panel, delivery, MarkJob
<1>1. \E new \in Facts : facts' = Append(facts, new)
  <2>1. CASE CommitFact
    BY <2>1 DEF CommitFact
  <2>2. CASE CommitRecovery
    <3>1. facts[Now] \in Facts /\ {"paused", "cancelled"} \subseteq Statuses
      BY <2>2, LastFact, ReportsAssumption DEF CommitRecovery, Facts
    <3> QED
      BY <2>2, <3>1 DEF CommitRecovery, Facts
  <2> QED
    BY <2>1, <2>2
<1>2. FactsTyped' /\ Now' = Now + 1 /\ Now \in Nat
  BY <1>1, FactsGrow, LastFact DEF CommitFact, CommitRecovery
<1>3. 0..Now \subseteq 0..Now'
  BY <1>2
<1>4. RoutesTyped'
  <2>1. UNCHANGED <<binding, switches, bridge, gone, online>>
    BY DEF CommitFact, CommitRecovery
  <2>2. bridge \in [Parents -> [Generations -> 0..Now']]
    BY <1>3 DEF RoutesTyped
  <2> QED
    BY <2>1, <2>2 DEF RoutesTyped
<1>5. WorkerTyped'
  BY Framed, PassesTyped DEF CommitFact, CommitRecovery
<1>6. PanelTyped'
  BY <1>2, <1>3 DEF CommitFact, CommitRecovery, PanelTyped
<1> QED
  BY <1>2, <1>4, <1>5, <1>6, Framed DEF CommitFact, CommitRecovery

(* Everything else around the delivery: switches, the panel, Agents coming up, restarts. *)
LEMMA SurroundingsTyped ==
    ASSUME TypeInv,
           \/ StartJob \/ BeginRecovery \/ EndRecovery \/ HostCrash
           \/ \E p \in Parents : SwitchParent(p) \/ ParentOnline(p)
    PROVE  TypeInv'
<1> USE DEF TypeInv, reportFacts, panel, delivery
<1>1. CASE StartJob
  <2>1. SyncTyped'
    BY <1>1, BeginTyped DEF StartJob, Begin, RoutesTyped, Callers
  <2>2. PanelTyped'
    BY <1>1, Framed DEF StartJob, PanelTyped
  <2> QED
    BY <1>1, <2>1, <2>2, Framed DEF StartJob
<1>2. CASE BeginRecovery
  <2>1. PanelTyped'
    BY <1>2, Framed, LastFact DEF BeginRecovery, PanelTyped
  <2> QED
    BY <1>2, <2>1, Framed DEF BeginRecovery
<1>3. CASE EndRecovery
  <2>1. SyncTyped'
    BY <1>3, BeginTyped DEF EndRecovery, Begin, RoutesTyped, Callers
  <2>2. suppression' \in [set : BOOLEAN, active : BOOLEAN, through : 0..Now]
    <3>1. suppression.through \in 0..Now /\ Now \in 0..Now /\ FALSE \in BOOLEAN
      BY LastFact DEF PanelTyped
    <3>2. PICK k \in 0..Now : suppression' = [suppression EXCEPT !.active = FALSE, !.through = k]
      BY <1>3, <3>1 DEF EndRecovery
    <3> QED
      BY <3>1, <3>2 DEF PanelTyped
  <2>3. PanelTyped'
    BY <1>3, <2>2, Framed DEF EndRecovery, PanelTyped
  <2> QED
    BY <1>3, <2>1, <2>3, Framed DEF EndRecovery
<1>4. CASE HostCrash
  <2>1. PICK kept \in [Parents -> 0..MaxFacts * (MaxSwitches + 1)] :
            /\ \A p \in Parents : flushed[p] <= kept[p] /\ kept[p] <= Len(inbox[p])
            /\ inbox' = [p \in Parents |-> SubSeq(inbox[p], 1, kept[p])]
            /\ flushed' = kept
    BY <1>4 DEF HostCrash
  <2>2. ASSUME NEW p \in Parents
        PROVE  SubSeq(inbox[p], 1, kept[p]) \in Seq(Reports) /\ Len(SubSeq(inbox[p], 1, kept[p])) = kept[p]
    <3>1. inbox[p] \in Seq(Reports) /\ kept[p] \in 0..Len(inbox[p])
      BY <2>1, <2>2, ReportsAssumption DEF InboxTyped
    <3> QED
      BY <3>1, SubSeqProperties
  <2>3. InboxTyped'
    BY <2>1, <2>2, ReportsAssumption DEF InboxTyped
  <2>4. SyncTyped'
    BY <1>4, ReportsAssumption DEF HostCrash, SyncTyped, Idle, NoBinding, Bindings, Generations
  <2>5. WorkerTyped'
    BY <1>4, OffTyped DEF HostCrash, WorkerTyped
  <2>6. PanelTyped'
    <3>1. NoSuppression \in [set : BOOLEAN, active : BOOLEAN, through : 0..Now]
      BY LastFact DEF NoSuppression
    <3> QED
      BY <1>4, <3>1, Framed DEF HostCrash, PanelTyped
  <2>7. RoutesTyped'
    BY <1>4, Framed DEF HostCrash, RoutesTyped
  <2> QED
    BY <1>4, <2>3, <2>4, <2>5, <2>6, <2>7, Framed DEF HostCrash
<1>5. ASSUME NEW p \in Parents, SwitchParent(p) PROVE TypeInv'
  <2>1. /\ binding' \in Bindings /\ binding'.parent \in Parents
        /\ switches' \in 0..MaxSwitches /\ binding'.gen <= switches'
    <3>1. switches < MaxSwitches /\ switches' = switches + 1
      BY <1>5 DEF SwitchParent
    <3>2. CASE UNCHANGED binding
      BY <3>1, <3>2, ReportsAssumption DEF RoutesTyped, Bindings, Generations
    <3>3. CASE binding' = [parent |-> p, previous |-> binding.parent, gen |-> binding.gen + 1]
      <4>1. binding.gen + 1 \in Generations /\ binding.gen \in Nat
        <5>1. binding.gen \in 0..MaxSwitches /\ binding.gen <= switches
          BY DEF RoutesTyped, Bindings, Generations
        <5>2. switches \in 0..MaxSwitches /\ MaxSwitches \in Nat
          BY ReportsAssumption DEF RoutesTyped
        <5> QED
          BY <3>1, <5>1, <5>2 DEF Generations
      <4> QED
        BY <3>1, <3>3, <4>1, ReportsAssumption DEF RoutesTyped, Bindings
    <3> QED
      BY <1>5, <3>2, <3>3 DEF SwitchParent
  <2>2. RoutesTyped'
    BY <1>5, <2>1, Framed DEF SwitchParent, RoutesTyped
  <2>3. SyncTyped'
    BY <1>5, <2>1, BeginTyped, Framed DEF SwitchParent, Callers
  <2>4. PanelTyped'
    BY <1>5, Framed DEF SwitchParent, PanelTyped
  <2> QED
    BY <1>5, <2>2, <2>3, <2>4, Framed DEF SwitchParent
<1>6. ASSUME NEW p \in Parents, ParentOnline(p) PROVE TypeInv'
  <2>1. RoutesTyped'
    BY <1>6, Framed DEF ParentOnline, RoutesTyped
  <2>2. SyncTyped'
    BY <1>6, BeginTyped, Framed DEF ParentOnline, Begin, RoutesTyped, Callers
  <2>3. WorkerTyped'
    BY <1>6, PassesTyped, Framed DEF ParentOnline
  <2> QED
    BY <1>6, <2>1, <2>2, <2>3, Framed DEF ParentOnline
<1> QED
  BY <1>1, <1>2, <1>3, <1>4, <1>5, <1>6

(* Every step keeps the type invariant. *)
LEMMA TypeInductive ==
    ASSUME TypeInv, [ReportsNext]_reportsVars
    PROVE  TypeInv'
<1>1. CASE UNCHANGED reportsVars
  BY <1>1, Framed DEF reportsVars, reportFacts, delivery, panel, TypeInv
<1>2. CASE ReportsNext
  BY <1>2, DeliveriesTyped, ProjectTyped, FactsTypedOn, SurroundingsTyped DEF ReportsNext
<1> QED
  BY <1>1, <1>2

(* The delivery only takes well-typed values, whatever the number of conversations, facts,
   switches, failures and restarts: no cut runs ahead of the journal, no durable prefix
   ahead of its inbox. *)
THEOREM ReportsTypeCorrect == ReportsSpec => []ReportsTypeOK
<1>1. ReportsInit => TypeInv
  BY InitTyped
<1>2. TypeInv /\ [ReportsNext]_reportsVars => TypeInv'
  BY TypeInductive
<1>3. TypeInv => ReportsTypeOK
  <2> SUFFICES ASSUME TypeInv PROVE ReportsTypeOK
    OBVIOUS
  <2>1. binding \in [parent : Parents, previous : Parents \union {NoParent}, gen : Generations]
    BY DEF TypeInv, RoutesTyped, Bindings
  <2>2. suppression.through \in 0..Now /\ worker.pc \in WorkerPlaces
    BY DEF TypeInv, PanelTyped, WorkerTyped
  <2> QED
    BY <2>1, <2>2 DEF ReportsTypeOK, TypeInv, FactsTyped, InboxTyped, RoutesTyped, WorkerTyped,
                      PanelTyped, WorkerPlaces
<1> QED
  BY <1>1, <1>2, <1>3, PTL DEF ReportsSpec

----
(* The inbox and its proofs *)

DeliveryInv == OneMessagePerCut /\ CheckpointProvesInbox /\ DeliveryUnderWay

(* A step that writes neither inbox nor checkpoint, and does not bring the worker to its
   flush, keeps the invariant. *)
LEMMA DeliveryFramed ==
    ASSUME DeliveryInv, UNCHANGED <<inbox, flushed, checkpoints>>,
           worker' = worker \/ worker'.pc \notin {"flush", "acknowledge"}
    PROVE  DeliveryInv'
BY DEF DeliveryInv, OneMessagePerCut, CheckpointProvesInbox, DeliveryUnderWay, Work, Sent, Durable

(* Passes end in a place where nothing is under way. *)
LEMMA PassesRest ==
    ASSUME \/ ScheduleDelivery \/ PassDone \/ PassPending \/ StartDelivery
    PROVE  worker' = worker \/ worker'.pc \notin {"flush", "acknowledge"}
BY DEF ScheduleDelivery, PassDone, PassPending, StartDelivery, Off

(* A message is appended only when it is not there, and leaves the durable part alone. *)
LEMMA DeliverKeeps ==
    ASSUME TypeInv, DeliveryInv, Deliver
    PROVE  DeliveryInv'
<1> DEFINE cut == bridge[binding.parent][binding.gen]
           m == [gen |-> binding.gen, cut |-> cut]
           q == binding.parent
<1>1. q \in Parents /\ inbox[q] \in Seq(Reports) /\ Len(inbox[q]) \in Nat
  BY DEF TypeInv, RoutesTyped, InboxTyped
<1> HIDE DEF cut
<1>2. CASE /\ worker' = [worker EXCEPT !.pc = "flush", !.gen = binding.gen, !.cut = cut]
           /\ worker.parent = q
           /\ inbox' = IF Sent(q, binding.gen, cut) THEN inbox ELSE [inbox EXCEPT ![q] = Append(@, m)]
           /\ UNCHANGED <<flushed, checkpoints>>
  <2>1. worker'.pc = "flush" /\ worker'.parent = q /\ worker'.gen = binding.gen /\ worker'.cut = cut
    BY <1>2 DEF TypeInv, WorkerTyped
  <2>2. CASE Sent(q, binding.gen, cut)
    BY <1>2, <2>1, <2>2 DEF DeliveryInv, OneMessagePerCut, CheckpointProvesInbox, DeliveryUnderWay,
                            Work, Sent
  <2>3. CASE ~Sent(q, binding.gen, cut)
    <3>1. /\ inbox' = [inbox EXCEPT ![q] = Append(inbox[q], m)]
          /\ \A i \in 1..Len(inbox[q]) : inbox[q][i] # m
      BY <1>2, <2>3 DEF Sent
    <3>2. /\ inbox'[q] = Append(inbox[q], m) /\ \A p \in Parents \ {q} : inbox'[p] = inbox[p]
      BY <1>1, <3>1 DEF TypeInv, InboxTyped
    <3>3. /\ Len(inbox'[q]) = Len(inbox[q]) + 1 /\ inbox'[q][Len(inbox[q]) + 1] = m
          /\ \A i \in 1..Len(inbox[q]) : inbox'[q][i] = inbox[q][i]
      <4> HIDE DEF q, m
      <4> QED
        BY <1>1, <3>2
    <3>4. OneMessagePerCut'
      <4> SUFFICES ASSUME NEW p \in Parents, NEW i \in 1..Len(inbox'[p]), NEW j \in 1..Len(inbox'[p]),
                          inbox'[p][i] = inbox'[p][j]
                   PROVE  i = j
        BY DEF OneMessagePerCut
      <4>1. CASE p # q
        BY <3>2, <4>1 DEF DeliveryInv, OneMessagePerCut
      <4>2. CASE p = q
        BY <1>1, <3>1, <3>3, <4>2 DEF DeliveryInv, OneMessagePerCut
      <4> QED
        BY <4>1, <4>2
    <3>5. CheckpointProvesInbox'
      <4> SUFFICES ASSUME NEW c \in checkpoints
                   PROVE  \E i \in 1..flushed[c.parent] :
                              inbox'[c.parent][i] = [gen |-> c.gen, cut |-> c.message]
        BY <1>2 DEF CheckpointProvesInbox
      <4>1. PICK i \in 1..flushed[c.parent] : inbox[c.parent][i] = [gen |-> c.gen, cut |-> c.message]
        BY DEF DeliveryInv, CheckpointProvesInbox
      <4>2. c.parent \in Parents /\ flushed[c.parent] \in Nat /\ flushed[c.parent] <= Len(inbox[c.parent])
        BY DEF TypeInv, WorkerTyped, Checkpoints, InboxTyped
      <4>3. inbox'[c.parent][i] = inbox[c.parent][i]
        BY <1>1, <3>2, <3>3, <4>2
      <4> QED
        BY <4>1, <4>3
    <3>6. DeliveryUnderWay'
      BY <1>1, <2>1, <3>3 DEF DeliveryUnderWay, Work, Sent
    <3> QED
      BY <3>4, <3>5, <3>6 DEF DeliveryInv
  <2> QED
    BY <2>2, <2>3
<1>3. CASE /\ UNCHANGED <<inbox, flushed>> /\ (PassDone \/ PassPending)
           /\ \A d \in checkpoints' : \E c \in checkpoints :
                 d.parent = c.parent /\ d.gen = c.gen /\ d.message = c.message
  <2>1. worker'.pc \notin {"flush", "acknowledge"}
    BY <1>3 DEF PassDone, PassPending, StartDelivery, Off
  <2>2. CheckpointProvesInbox'
    BY <1>3 DEF DeliveryInv, CheckpointProvesInbox
  <2> QED
    BY <1>3, <2>1, <2>2 DEF DeliveryInv, OneMessagePerCut, DeliveryUnderWay, Work
<1>4. ASSUME NEW c \in checkpoints, NEW d, d = [c EXCEPT !.cut = cut]
      PROVE  d.parent = c.parent /\ d.gen = c.gen /\ d.message = c.message
  BY <1>4 DEF TypeInv, WorkerTyped, Checkpoints
<1> QED
  BY <1>2, <1>3, <1>4, SMTT(20) DEF Deliver, cut, LatestCheckpoint, CheckpointsOf

(* A flush makes the whole inbox durable, and with it the message of the delivery. *)
LEMMA FlushKeeps ==
    ASSUME TypeInv, DeliveryInv, FlushInbox
    PROVE  DeliveryInv'
<1>1. CASE UNCHANGED flushed /\ PassPending
  BY <1>1, DeliveryFramed, PassesRest DEF FlushInbox, reportFacts
<1>2. CASE flushed' = [flushed EXCEPT ![worker.parent] = Len(inbox[worker.parent])] /\ StepTo("acknowledge")
  <2> DEFINE q == worker.parent
  <2>1. /\ q \in Parents /\ Len(inbox[q]) \in Nat /\ flushed[q] \in Nat /\ flushed[q] <= Len(inbox[q])
        /\ Sent(q, worker.gen, worker.cut)
    BY DEF FlushInbox, Work, DeliveryInv, DeliveryUnderWay, TypeInv, WorkerTyped, InboxTyped
  <2>2. flushed'[q] = Len(inbox[q]) /\ \A p \in Parents \ {q} : flushed'[p] = flushed[p]
    BY <1>2, <2>1 DEF TypeInv, InboxTyped
  <2>3. worker' = [worker EXCEPT !.pc = "acknowledge"] /\ UNCHANGED <<inbox, checkpoints>>
    BY <1>2 DEF FlushInbox, StepTo, reportFacts
  <2>4. worker'.pc = "acknowledge" /\ worker'.parent = q /\ worker'.gen = worker.gen /\ worker'.cut = worker.cut
    BY <2>3 DEF TypeInv, WorkerTyped
  <2>5. OneMessagePerCut'
    BY <2>3 DEF DeliveryInv, OneMessagePerCut
  <2>6. CheckpointProvesInbox'
    <3> SUFFICES ASSUME NEW c \in checkpoints
                 PROVE  \E i \in 1..flushed'[c.parent] :
                            inbox[c.parent][i] = [gen |-> c.gen, cut |-> c.message]
      BY <2>3 DEF CheckpointProvesInbox
    <3>1. PICK i \in 1..flushed[c.parent] : inbox[c.parent][i] = [gen |-> c.gen, cut |-> c.message]
      BY DEF DeliveryInv, CheckpointProvesInbox
    <3>2. c.parent \in Parents
      BY DEF TypeInv, WorkerTyped, Checkpoints
    <3>3. i \in 1..flushed'[c.parent]
      <4>1. CASE c.parent = q
        BY <2>1, <2>2, <4>1
      <4>2. CASE c.parent # q
        BY <2>2, <3>2, <4>2
      <4> QED
        BY <4>1, <4>2
    <3> QED
      BY <3>1, <3>3
  <2>7. DeliveryUnderWay'
    BY <2>1, <2>2, <2>3, <2>4 DEF DeliveryUnderWay, Work, Sent, Durable
  <2> QED
    BY <2>5, <2>6, <2>7 DEF DeliveryInv
<1> QED
  BY <1>1, <1>2 DEF FlushInbox

(* The checkpoint names a message the flush has made durable. *)
LEMMA AcknowledgeKeeps ==
    ASSUME TypeInv, DeliveryInv, Acknowledge
    PROVE  DeliveryInv'
<1>1. CASE UNCHANGED checkpoints
  BY <1>1, DeliveryFramed, PassesRest DEF Acknowledge
<1>2. CASE PassDone /\ checkpoints' = checkpoints \union
               {[parent |-> worker.parent, gen |-> worker.gen, cut |-> worker.cut, message |-> worker.cut]}
  <2>1. Durable(worker.parent, worker.gen, worker.cut) /\ UNCHANGED <<inbox, flushed>>
    BY DEF Acknowledge, DeliveryInv, DeliveryUnderWay
  <2>2. CheckpointProvesInbox'
    BY <1>2, <2>1 DEF DeliveryInv, CheckpointProvesInbox, Durable
  <2>3. worker'.pc \notin {"flush", "acknowledge"}
    BY <1>2 DEF PassDone, StartDelivery, Off
  <2> QED
    BY <2>1, <2>2, <2>3 DEF DeliveryInv, OneMessagePerCut, DeliveryUnderWay, Work
<1> QED
  BY <1>1, <1>2 DEF Acknowledge

(* A restart loses nothing of the durable part. *)
LEMMA CrashKeeps ==
    ASSUME TypeInv, DeliveryInv, HostCrash
    PROVE  DeliveryInv'
<1>1. PICK kept \in [Parents -> 0..MaxFacts * (MaxSwitches + 1)] :
          /\ \A p \in Parents : flushed[p] <= kept[p] /\ kept[p] <= Len(inbox[p])
          /\ inbox' = [p \in Parents |-> SubSeq(inbox[p], 1, kept[p])]
          /\ flushed' = kept
  BY DEF HostCrash
<1>2. ASSUME NEW p \in Parents
      PROVE  /\ flushed[p] \in Nat /\ kept[p] \in Nat /\ Len(inbox[p]) \in Nat
             /\ flushed[p] <= kept[p] /\ kept[p] <= Len(inbox[p]) /\ flushed'[p] = kept[p]
             /\ Len(inbox'[p]) = kept[p] /\ \A i \in 1..kept[p] : inbox'[p][i] = inbox[p][i]
  <2>1. inbox[p] \in Seq(Reports) /\ kept[p] \in 0..Len(inbox[p]) /\ flushed[p] \in Nat
    BY <1>1, <1>2, ReportsAssumption DEF TypeInv, InboxTyped
  <2>2. inbox'[p] = SubSeq(inbox[p], 1, kept[p])
    BY <1>1, <1>2
  <2> QED
    BY <1>1, <1>2, <2>1, <2>2, SubSeqProperties
<1>3. OneMessagePerCut'
  BY <1>2, SMTT(20) DEF DeliveryInv, OneMessagePerCut
<1>4. CheckpointProvesInbox'
  <2> SUFFICES ASSUME NEW c \in checkpoints
               PROVE  \E i \in 1..flushed'[c.parent] :
                          inbox'[c.parent][i] = [gen |-> c.gen, cut |-> c.message]
    BY DEF CheckpointProvesInbox, HostCrash, reportFacts
  <2>1. PICK i \in 1..flushed[c.parent] : inbox[c.parent][i] = [gen |-> c.gen, cut |-> c.message]
    BY DEF DeliveryInv, CheckpointProvesInbox
  <2>2. c.parent \in Parents
    BY DEF TypeInv, WorkerTyped, Checkpoints
  <2> QED
    BY <1>2, <2>1, <2>2, SMTT(20)
<1>5. DeliveryUnderWay'
  BY DEF HostCrash, DeliveryUnderWay, Work, Off
<1> QED
  BY <1>3, <1>4, <1>5 DEF DeliveryInv

(* Every step keeps what the inbox and the checkpoints say of each other. *)
LEMMA DeliveryInductive ==
    ASSUME TypeInv, DeliveryInv, [ReportsNext]_reportsVars
    PROVE  DeliveryInv'
<1> USE DEF reportFacts, delivery, panel
<1>1. CASE UNCHANGED reportsVars
  BY <1>1, DeliveryFramed DEF reportsVars
<1>2. CASE Deliver \/ FlushInbox \/ Acknowledge \/ HostCrash
  BY <1>2, DeliverKeeps, FlushKeeps, AcknowledgeKeeps, CrashKeeps
<1>3. CASE RetryFires \/ EndDelay \/ Prepare \/ Decide
  <2>1. UNCHANGED <<inbox, flushed, checkpoints>>
    BY <1>3 DEF RetryFires, EndDelay, Prepare, Decide
  <2>2. worker' = worker \/ worker'.pc \notin {"flush", "acknowledge"}
    BY <1>3, PassesRest DEF RetryFires, EndDelay, Prepare, Decide, StepTo, TypeInv, WorkerTyped
  <2> QED
    BY <2>1, <2>2, DeliveryFramed
<1>4. ASSUME NEW c \in Callers, Project(c) PROVE DeliveryInv'
  <2>1. UNCHANGED <<inbox, flushed, checkpoints>>
    BY <1>4 DEF Project, Detach, Publish
  <2>2. worker' = worker \/ worker'.pc \notin {"flush", "acknowledge"}
    BY <1>4, PassesRest DEF Project, Detach, Publish, Return, TypeInv, WorkerTyped
  <2> QED
    BY <2>1, <2>2, DeliveryFramed
<1>5. CASE \/ StartJob \/ CommitFact \/ BeginRecovery \/ CommitRecovery \/ EndRecovery
           \/ \E p \in Parents : SwitchParent(p) \/ ParentOnline(p)
  <2>1. UNCHANGED <<inbox, flushed, checkpoints>>
    BY <1>5 DEF StartJob, CommitFact, BeginRecovery, CommitRecovery, EndRecovery, SwitchParent, ParentOnline
  <2>2. worker' = worker \/ worker'.pc \notin {"flush", "acknowledge"}
    BY <1>5, PassesRest
       DEF StartJob, CommitFact, BeginRecovery, CommitRecovery, EndRecovery, SwitchParent, ParentOnline
  <2> QED
    BY <2>1, <2>2, DeliveryFramed
<1> QED
  BY <1>1, <1>2, <1>3, <1>4, <1>5 DEF ReportsNext, Deliveries

(* Nothing has been delivered at the beginning. *)
LEMMA InitDelivery == ReportsInit => DeliveryInv
BY DEF ReportsInit, DeliveryInv, OneMessagePerCut, CheckpointProvesInbox, DeliveryUnderWay, Work, Off

(* The types and the delivery together are an inductive invariant. *)
LEMMA DeliveryAlways == ReportsSpec => [](TypeInv /\ DeliveryInv)
BY InitTyped, InitDelivery, TypeInductive, DeliveryInductive, PTL DEF ReportsSpec

(* A durable checkpoint proves a durable message: whatever fails or restarts, the controller
   never takes a report for delivered that its parent could still lose. *)
THEOREM CheckpointsAreProofs == ReportsSpec => []CheckpointProvesInbox
<1>1. TypeInv /\ DeliveryInv => CheckpointProvesInbox
  BY DEF DeliveryInv
<1> QED
  BY <1>1, DeliveryAlways, PTL

(* One generation and cut is one message, however often it is retried or replayed. *)
THEOREM ReportsAreUnique == ReportsSpec => []OneMessagePerCut
<1>1. TypeInv /\ DeliveryInv => OneMessagePerCut
  BY DEF DeliveryInv
<1> QED
  BY <1>1, DeliveryAlways, PTL

----
(* Who is woken, and with what *)

(* A set of naturals has a least member. *)
LEMMA LeastOf ==
    ASSUME NEW T, T \subseteq Nat, T # {}
    PROVE  \E x \in T : \A y \in T : x <= y
<1> DEFINE R == {ss \in Nat \X Nat : ss[1] < ss[2]}
<1>1. IsWellFoundedOn(R, Nat)
  BY NatLessThanWellFounded, Zenon DEF OpToRel
<1>2. \A x, y \in T : y < x => <<y, x>> \in R
  OBVIOUS
<1> HIDE DEF R
<1>3. PICK x \in T : \A y \in T : <<y, x>> \notin R
  BY <1>1, WFMin
<1>4. x \in Nat /\ \A y \in T : y \in Nat /\ ~(y < x)
  BY <1>2, <1>3
<1> QED
  BY <1>4

(* Nothing acknowledged to a parent in a generation is newer than what counts as acknowledged. *)
LEMMA AcknowledgedIsNewest ==
    ASSUME checkpoints \subseteq Checkpoints, NEW c \in CheckpointsOf(binding)
    PROVE  c.cut <= AcknowledgedCut(binding)
<1> DEFINE C == CheckpointsOf(binding)
           T == {MaxFacts - d.cut : d \in C}
<1>1. \A d \in C : d.cut \in 1..MaxFacts
  BY DEF CheckpointsOf, Checkpoints, Cuts
<1>2. T \subseteq Nat /\ T # {}
  BY <1>1, ReportsAssumption
<1>3. PICK x \in T : \A y \in T : x <= y
  BY <1>2, LeastOf
<1>4. PICK e \in C : x = MaxFacts - e.cut
  BY <1>3
<1>5. \A d \in C : d.cut <= e.cut
  <2> SUFFICES ASSUME NEW d \in C
               PROVE  d.cut <= e.cut
    OBVIOUS
  <2>1. MaxFacts - e.cut <= MaxFacts - d.cut
    BY <1>3, <1>4
  <2> QED
    BY <1>1, <2>1, ReportsAssumption
<1>6. e \in LatestCheckpoint(binding)
  BY <1>5 DEF LatestCheckpoint
<1> QED
  BY <1>6 DEF AcknowledgedCut, LatestCheckpoint

(* A recovery under way keeps back every report. *)
RecoveryHolds == recovery # "off" => suppression.set /\ suppression.active

(* No step lets the reports of a recovery under way through. *)
LEMMA RecoveryInductive ==
    ASSUME TypeInv, RecoveryHolds, [ReportsNext]_reportsVars
    PROVE  RecoveryHolds'
<1>1. CASE UNCHANGED <<recovery, suppression>>
  BY <1>1 DEF RecoveryHolds
<1>2. CASE Decide \/ BeginRecovery \/ CommitRecovery \/ EndRecovery \/ HostCrash
  <2>1. CASE Decide
    BY <2>1 DEF Decide, KeptBack, RecoveryHolds
  <2>2. CASE BeginRecovery \/ CommitRecovery
    BY <2>2 DEF BeginRecovery, CommitRecovery, RecoveryHolds
  <2>3. CASE EndRecovery \/ HostCrash
    BY <2>3 DEF EndRecovery, HostCrash, RecoveryHolds
  <2> QED
    BY <1>2, <2>1, <2>2, <2>3
<1>3. CASE \/ RetryFires \/ EndDelay \/ Prepare \/ Deliver \/ FlushInbox \/ Acknowledge \/ StartJob
           \/ CommitFact \/ (\E c \in Callers : Project(c))
           \/ \E p \in Parents : SwitchParent(p) \/ ParentOnline(p)
  BY <1>1, <1>3, ZenonT(40)
     DEF RetryFires, EndDelay, Prepare, Deliver, FlushInbox, Acknowledge, StartJob, CommitFact,
         Project, Detach, Publish, SwitchParent, ParentOnline, panel
<1> QED
  BY <1>1, <1>2, <1>3 DEF ReportsNext, Deliveries, reportsVars, panel

(* Only a delivery makes an inbox longer. *)
LEMMA OnlyDeliverWrites ==
    ASSUME TypeInv, [ReportsNext]_reportsVars, NEW p \in Parents, Len(inbox'[p]) > Len(inbox[p])
    PROVE  Deliver
<1>1. inbox[p] \in Seq(Reports) /\ Len(inbox[p]) \in Nat
  BY DEF TypeInv, InboxTyped
<1>2. ~HostCrash
  <2> SUFFICES ASSUME HostCrash
               PROVE  FALSE
    OBVIOUS
  <2>1. PICK kept \in [Parents -> 0..MaxFacts * (MaxSwitches + 1)] :
          /\ \A q \in Parents : flushed[q] <= kept[q] /\ kept[q] <= Len(inbox[q])
          /\ inbox' = [q \in Parents |-> SubSeq(inbox[q], 1, kept[q])]
    BY DEF HostCrash
  <2>2. kept[p] \in Nat /\ kept[p] <= Len(inbox[p])
    BY <2>1, ReportsAssumption DEF TypeInv, InboxTyped
  <2>3. Len(inbox'[p]) = kept[p]
    BY <1>1, <2>1, <2>2
  <2> QED
    BY <1>1, <2>2, <2>3
<1>3. inbox' # inbox
  BY <1>1
<1> QED
  BY <1>2, <1>3, Zenon
     DEF ReportsNext, reportsVars, Deliveries, RetryFires, EndDelay, Prepare, Decide, FlushInbox, Acknowledge, StartJob, Project,
         Detach, Publish, CommitFact, SwitchParent, ParentOnline, BeginRecovery, CommitRecovery, EndRecovery

(* What a delivery adds is news for the parent in control. *)
LEMMA DeliveriesAreNews ==
    ASSUME TypeInv, DeliveryInv, RecoveryHolds, Deliver, NEW p \in Parents, Len(inbox'[p]) > Len(inbox[p])
    PROVE  LET m == inbox'[p][Len(inbox'[p])]
           IN  /\ p = binding.parent /\ m.gen = binding.gen
               /\ Reportable(m.cut) = Reportable(Now) /\ recovery = "off"
               /\ \A c \in CheckpointsOf(binding) : c.cut < m.cut
               /\ \A c \in LatestCheckpoint(binding) : Reportable(c.message) # Reportable(m.cut)
<1> DEFINE cut == bridge[binding.parent][binding.gen]
           q == binding.parent
           m == [gen |-> binding.gen, cut |-> cut]
<1>1. /\ inbox[p] \in Seq(Reports) /\ Len(inbox[p]) \in Nat
      /\ q \in Parents /\ binding.gen \in Generations /\ inbox[q] \in Seq(Reports)
      /\ checkpoints \subseteq Checkpoints /\ Now \in Cuts
  <2>1. q \in Parents /\ binding.gen \in Generations
    BY DEF TypeInv, RoutesTyped, Bindings
  <2>2. checkpoints \subseteq Checkpoints /\ Now \in Cuts
    BY DEF TypeInv, WorkerTyped, FactsTyped
  <2>3. \A r \in Parents : inbox[r] \in Seq(Reports) /\ Len(inbox[r]) \in Nat
    BY DEF TypeInv, InboxTyped
  <2> QED
    BY <2>1, <2>2, <2>3
<1>2. cut \in 0..MaxFacts
  <2>1. bridge[q] \in [Generations -> 0..Now]
    BY <1>1 DEF TypeInv, RoutesTyped
  <2>2. bridge[q][binding.gen] \in 0..Now
    BY <1>1, <2>1
  <2> QED
    BY <1>1, <2>2, ReportsAssumption DEF Cuts
<1>3. inbox' # inbox
  BY <1>1
<1>4. /\ ~(NewerStateExists(cut) \/ AcknowledgedCut(binding) >= cut \/ KeptBack(cut))
      /\ {c \in LatestCheckpoint(binding) : SameNews(c, cut)} = {}
      /\ inbox' = [inbox EXCEPT ![q] = Append(@, m)]
  BY <1>3 DEF Deliver
<1>5. p = q /\ inbox'[p] = Append(inbox[p], m)
  BY <1>1, <1>4 DEF TypeInv, InboxTyped
<1>6. inbox'[p][Len(inbox'[p])] = m
  <2> HIDE DEF m
  <2> QED
    BY <1>1, <1>5
<1>7. recovery = "off" /\ Reportable(cut) = Reportable(Now)
  BY <1>4 DEF RecoveryHolds, KeptBack, NewerStateExists
<1>8. \A c \in CheckpointsOf(binding) : c.cut < cut
  <2> SUFFICES ASSUME NEW c \in CheckpointsOf(binding)
               PROVE  c.cut < cut
    OBVIOUS
  <2>1. c.cut \in Nat /\ AcknowledgedCut(binding) \in Nat
    BY <1>1, AcknowledgedIsCut, ReportsAssumption DEF CheckpointsOf, Checkpoints, Cuts
  <2>2. c.cut <= AcknowledgedCut(binding) /\ ~(AcknowledgedCut(binding) >= cut)
    BY <1>1, <1>4, AcknowledgedIsNewest
  <2> HIDE DEF cut
  <2> QED
    BY <1>2, <2>1, <2>2
<1>9. \A c \in LatestCheckpoint(binding) : Reportable(c.message) # Reportable(cut)
  <2> SUFFICES ASSUME NEW c \in LatestCheckpoint(binding)
               PROVE  Reportable(c.message) # Reportable(cut)
    OBVIOUS
  <2>1. c \in checkpoints /\ c.parent \in Parents
    BY <1>1 DEF LatestCheckpoint, CheckpointsOf, Checkpoints
  <2>2. flushed[c.parent] \in Nat /\ Len(inbox[c.parent]) \in Nat /\ flushed[c.parent] <= Len(inbox[c.parent])
    BY <2>1 DEF TypeInv, InboxTyped
  <2>3. Sent(c.parent, c.gen, c.message)
    BY <2>1, <2>2 DEF DeliveryInv, CheckpointProvesInbox, Sent
  <2> QED
    BY <1>4, <2>3 DEF SameNews
<1>a. m.gen = binding.gen /\ m.cut = cut
  OBVIOUS
<1> HIDE DEF cut, m, q
<1> QED
  BY <1>5, <1>6, <1>7, <1>8, <1>9, <1>a DEF q

(* Nobody is woken in vain: a report goes to the parent in control, tells the state of now, says
   something that was not acknowledged yet, and none is sent while a recovery is under way. *)
THEOREM WakesStayNews == ReportsSpec => WakesAreNews
<1>1. ReportsInit => RecoveryHolds
  BY DEF ReportsInit, RecoveryHolds
<1>2. ReportsSpec => []RecoveryHolds
  BY <1>1, RecoveryInductive, DeliveryAlways, PTL DEF ReportsSpec
<1>3. TypeInv /\ DeliveryInv /\ RecoveryHolds /\ [ReportsNext]_reportsVars =>
        [\A p \in Parents : Len(inbox'[p]) > Len(inbox[p]) =>
          /\ p = binding.parent
          /\ Reportable(inbox'[p][Len(inbox'[p])].cut) = Reportable(Now)
          /\ recovery = "off"]_reportsVars
  BY OnlyDeliverWrites, DeliveriesAreNews
<1>4. TypeInv /\ DeliveryInv /\ RecoveryHolds /\ [ReportsNext]_reportsVars =>
        [\A p \in Parents : Len(inbox'[p]) > Len(inbox[p]) =>
          LET m == inbox'[p][Len(inbox'[p])] IN
          \A c \in CheckpointsOf([parent |-> p, gen |-> m.gen]) :
              c.cut < m.cut /\ (c \in LatestCheckpoint(binding) => Reportable(c.message) # Reportable(m.cut))]_reportsVars
  <2> SUFFICES ASSUME TypeInv, DeliveryInv, RecoveryHolds, [ReportsNext]_reportsVars, NEW p \in Parents,
                      Len(inbox'[p]) > Len(inbox[p]),
                      NEW c \in CheckpointsOf([parent |-> p, gen |-> inbox'[p][Len(inbox'[p])].gen])
               PROVE  /\ c.cut < inbox'[p][Len(inbox'[p])].cut
                      /\ c \in LatestCheckpoint(binding) =>
                           Reportable(c.message) # Reportable(inbox'[p][Len(inbox'[p])].cut)
    OBVIOUS
  <2>1. Deliver
    BY OnlyDeliverWrites
  <2>2. p = binding.parent /\ inbox'[p][Len(inbox'[p])].gen = binding.gen
    BY <2>1, DeliveriesAreNews
  <2>3. c \in CheckpointsOf(binding)
    BY <2>2 DEF CheckpointsOf
  <2> QED
    BY <2>1, <2>3, DeliveriesAreNews
<1> QED
  BY <1>2, <1>3, <1>4, DeliveryAlways, PTL DEF ReportsSpec, WakesAreNews, WakesAreCurrent, NewsOnly

----
(* The settlement of a child, observed by a wait of the pass *)

\* What an observation holds.
Observations ==
    [phase : Waiting \cup {"idle", "stopped", "failed"}, active : SUBSET Attempts,
     owned : SUBSET Attempts, todo : SUBSET Attempts, loads : 0..NumAttempts,
     entries : [Attempts -> ChildStates], ended : SUBSET Attempts, settled : SUBSET Attempts,
     first : BOOLEAN, progress : {"none", "resolved", "needs", "failed"}, failure : BOOLEAN]

\* What an observation is free to settle is nobody's; only its last phase knows that a child has
\* to be reconciled, and only a fault makes it fail.
ObservationInv(o, inUse, faulty) ==
    /\ o \in Observations
    /\ o.todo \subseteq o.active \ o.owned
    /\ o.phase \in Waiting => (o.active \ o.owned) \cap inUse = {}
    /\ o.phase = "loading" => o.loads \in o.active \ o.owned
    /\ o.progress = "needs" => o.phase = "waiting"
    /\ o.phase = "failed" \/ o.failure \/ o.progress = "failed" => faulty

\* Work that is not dispatched has neither evidence nor a settlement; a settlement of an attempt
\* that an executor holds is the executor's own, or the cold scan's, which stands back.
DispatchedOnly ==
    /\ \A a \in todo : child[a] = "none"
    /\ \A a \in Attempts : evidence[a] # "none" => child[a] # "none"
    /\ \A a \in obs.active : child[a] # "none"
    /\ \A s \in settling : child[s.attempt] # "none"

HeldByExecutor == \A s \in settling : s.attempt \in local => s.by \in {"executor", "cold"}

ObserverInv ==
    /\ ObserverTypeOK /\ ObservationInv(obs, local, losses.faults > 0)
    /\ DispatchedOnly /\ HeldByExecutor /\ OwnedUsageIsKept
    /\ poisoned => losses.faults > 0
SettlementRecords == [attempt : Attempts, by : {"executor", "edge", "log", "cold"}, wait : 0..MaxWaits]

(* An observation that has ended is one, whoever holds the attempts. *)
LEMMA RestingObservation ==
    ASSUME NEW ph \in {"idle", "stopped", "reconciling", "failed"}, NEW L, NEW F \in BOOLEAN, ph = "failed" => F,
           NEW o, o = [NoObs EXCEPT !.phase = ph] \/ (o = NoObs /\ ph = "idle")
    PROVE  ObservationInv(o, L, F) /\ o.active = {}
<1>1. NoObs \in Observations
  BY ObserverAssumption DEF NoObs, Observations, Waiting, ChildStates
<1>2. /\ NoObs.phase = "idle" /\ NoObs.active = {} /\ NoObs.owned = {} /\ NoObs.todo = {}
      /\ NoObs.progress = "none" /\ NoObs.failure = FALSE
  BY DEF NoObs
<1>3. o \in Observations
  BY <1>1 DEF Observations, Waiting
<1>4. /\ o.phase = ph /\ o.active = {} /\ o.owned = {} /\ o.todo = {} /\ o.progress = "none"
      /\ o.failure = FALSE
  BY <1>1, <1>2 DEF Observations
<1> QED
  BY <1>3, <1>4 DEF ObservationInv

(* Hearing of a result changes only what the wait came to. *)
LEMMA OutcomeKeeps ==
    ASSUME NEW o, NEW L, NEW F \in BOOLEAN, ObservationInv(o, L, F), NEW p \in {"resolved", "failed"}, p = "failed" => F
    PROVE  /\ ObservationInv(Outcome(o, p), L, F)
           /\ Outcome(o, p).active = o.active /\ Outcome(o, p).phase = o.phase
BY DEF ObservationInv, Observations, Outcome

(* A settlement that fails ends the wait as a failure, once there was one. *)
LEMMA FailingKeeps ==
    ASSUME NEW o, NEW L, NEW F \in BOOLEAN, ObservationInv(o, L, F), F
    PROVE  ObservationInv(Failing(o), L, F) /\ Failing(o).active = o.active
<1>1. ObservationInv(Outcome(o, "failed"), L, F) /\ Outcome(o, "failed").active = o.active
  BY OutcomeKeeps
<1> QED
  BY <1>1 DEF ObservationInv, Observations, Failing

(* Looking for durable evidence changes only what the wait came to. *)
LEMMA RefreshedKeeps ==
    ASSUME NEW o, NEW L, NEW F \in BOOLEAN, NEW ev, ObservationInv(o, L, F)
    PROVE  /\ ObservationInv(Refreshed(o, ev), L, F)
           /\ Refreshed(o, ev).active = o.active /\ Refreshed(o, ev).phase = o.phase
BY OutcomeKeeps DEF Refreshed

(* Settlements a wait begins are of children nobody here holds. *)
LEMMA SettlementsBegun ==
    ASSUME ObserverInv, obs.phase \in Waiting, NEW as, as \subseteq obs.active \ obs.owned,
           NEW by \in {"edge", "log"}, NEW s \in Settlements(as, by)
    PROVE  s \in SettlementRecords /\ s.attempt \notin local /\ child[s.attempt] # "none"
<1>1. s.attempt \in as /\ s = [attempt |-> s.attempt, by |-> by, wait |-> waits]
  <2>1. PICK a \in as : s = [attempt |-> a, by |-> by, wait |-> waits]
    BY DEF Settlements
  <2> QED
    BY <2>1
<1>2. s.attempt \in Attempts /\ waits \in 0..MaxWaits
  BY <1>1 DEF ObserverInv, ObservationInv, Observations, ObserverTypeOK
<1>3. s.attempt \notin local /\ child[s.attempt] # "none"
  BY <1>1 DEF ObserverInv, ObservationInv, DispatchedOnly
<1>4. s \in SettlementRecords
  <2>1. by \in {"executor", "edge", "log", "cold"}
    OBVIOUS
  <2> QED
    BY <1>1, <1>2, <2>1 DEF SettlementRecords
<1> QED
  BY <1>3, <1>4

(* What a wait does: it changes itself, and begins settlements. *)
LEMMA WaitKeeps ==
    ASSUME ObserverInv, UNCHANGED <<child, sessionLog, evidence, local, poisoned, todo>>,
           losses' \in [faults : 0..MaxObserverFaults, crashes : 0..MaxRestarts],
           losses'.faults >= losses.faults, waits' \in 0..MaxWaits,
           ObservationInv(obs', local, losses'.faults > 0), \A a \in obs'.active : child[a] # "none",
           \A s \in settling' : s \in settling \/
             (s \in SettlementRecords /\ s.attempt \notin local /\ child[s.attempt] # "none")
    PROVE  ObserverInv'
<1>1. ObserverTypeOK'
  <2>1. settling' \subseteq SettlementRecords
    BY DEF ObserverInv, ObserverTypeOK, SettlementRecords
  <2>2. obs'.phase \in Waiting \cup {"idle", "stopped", "failed"} /\ obs'.progress \in {"none", "resolved", "needs", "failed"}
    BY DEF ObservationInv, Observations
  <2> QED
    BY <2>1, <2>2 DEF ObserverInv, ObserverTypeOK, SettlementRecords
<1>2. (ObservationInv(obs, local, losses.faults > 0))'
  BY DEF ObservationInv, Observations, Waiting
<1>3. DispatchedOnly' /\ HeldByExecutor' /\ OwnedUsageIsKept'
  BY DEF ObserverInv, DispatchedOnly, HeldByExecutor, OwnedUsageIsKept
<1>4. poisoned' => losses'.faults > 0
  BY DEF ObserverInv, ObserverTypeOK
<1> QED
  BY <1>1, <1>2, <1>3, <1>4 DEF ObserverInv

(* The steps of a wait that begin no settlement. *)
LEMMA WaitingKeeps ==
    ASSUME ObserverInv,
           \/ StartWait \/ ListReturns \/ ListFails \/ ProgressBeatsList \/ LoadProvesNothing \/ WaitEnds
           \/ Heartbeat \/ \E r \in BOOLEAN : ReconcileEnds(r)
    PROVE  ObserverInv'
<1> DEFINE F == losses'.faults > 0
           O == ObservationInv(obs', local, F) /\ \A a \in obs'.active : child[a] # "none"
<1>1. /\ obs \in Observations /\ waits \in 0..MaxWaits
      /\ losses \in [faults : 0..MaxObserverFaults, crashes : 0..MaxRestarts]
      /\ child \in [Attempts -> ChildStates] /\ local \subseteq Attempts
  BY DEF ObserverInv, ObserverTypeOK, ObservationInv
<1>2. /\ losses' \in [faults : 0..MaxObserverFaults, crashes : 0..MaxRestarts]
      /\ losses'.faults >= losses.faults /\ F \in BOOLEAN /\ (losses' = losses \/ F)
  <2>1. CASE losses' = losses
    BY <1>1, <2>1
  <2>2. CASE losses.faults < MaxObserverFaults /\ losses' = [losses EXCEPT !.faults = @ + 1]
    BY <1>1, <2>2, ObserverAssumption
  <2> QED
    BY <2>1, <2>2 DEF StartWait, ListReturns, ListFails, ProgressBeatsList, LoadProvesNothing, WaitEnds, Heartbeat,
                      ReconcileEnds
<1>3. ObservationInv(obs, local, F)
  BY <1>1, <1>2 DEF ObserverInv, ObservationInv
<1>4. ASSUME NEW ph \in {"idle", "stopped", "reconciling", "failed"}, ph = "failed" => F,
             obs' = [NoObs EXCEPT !.phase = ph] \/ (obs' = NoObs /\ ph = "idle")
      PROVE  O
  BY <1>2, <1>4, RestingObservation
<1>5. UNCHANGED <<child, sessionLog, evidence, local, poisoned, todo, settling>> /\ waits' \in 0..MaxWaits
  BY <1>1, ObserverAssumption
     DEF StartWait, ListReturns, ListFails, ProgressBeatsList, LoadProvesNothing, WaitEnds, Heartbeat, ReconcileEnds
<1>6. CASE StartWait
  <2>1. obs' = [NoObs EXCEPT !.phase = "listing", !.active = Running, !.owned = Running \cap local]
    BY <1>6 DEF StartWait
  <2>2. Running \subseteq Attempts /\ \A a \in Running : child[a] # "none"
    BY DEF Running
  <2>3. NoObs \in Observations /\ NoObs.todo = {} /\ NoObs.progress = "none" /\ NoObs.failure = FALSE
    BY ObserverAssumption DEF NoObs, Observations, Waiting, ChildStates
  <2>4. /\ obs' \in Observations /\ obs'.phase = "listing" /\ obs'.active = Running
        /\ obs'.owned = Running \cap local /\ obs'.todo = {} /\ obs'.progress = "none" /\ obs'.failure = FALSE
    BY <2>1, <2>2, <2>3 DEF Observations, Waiting
  <2>5. O
    BY <2>2, <2>4 DEF ObservationInv
  <2> QED
    BY <1>2, <1>5, <2>5, WaitKeeps
<1>7. CASE ListReturns
  <2>1. /\ obs' \in Observations /\ obs'.phase = "examining" /\ obs'.active = obs.active /\ obs'.owned = obs.owned
        /\ obs'.todo = obs.active \ obs.owned /\ obs'.progress = obs.progress /\ obs'.failure = obs.failure
        /\ obs.phase \in {"listing", "relisting"}
    BY <1>1, <1>7 DEF ListReturns, Listing, Observations, Waiting
  <2>2. O
    BY <1>3, <2>1 DEF ObservationInv, Waiting, ObserverInv, DispatchedOnly
  <2> QED
    BY <1>2, <1>5, <2>2, WaitKeeps
<1>8. CASE Heartbeat
  <2>1. /\ obs' \in Observations /\ obs'.phase = "relisting" /\ obs'.active = obs.active /\ obs'.owned = obs.owned
        /\ obs'.todo = obs.todo /\ obs'.progress = "none" /\ obs'.failure = obs.failure /\ obs.phase = "waiting"
    BY <1>1, <1>8 DEF Heartbeat, Observations, Waiting
  <2>2. O
    BY <1>3, <2>1 DEF ObservationInv, Waiting, ObserverInv, DispatchedOnly
  <2> QED
    BY <1>2, <1>5, <2>2, WaitKeeps
<1>9. CASE ListFails \/ ProgressBeatsList \/ LoadProvesNothing \/ WaitEnds \/ \E r \in BOOLEAN : ReconcileEnds(r)
  <2>1. CASE ListFails
    <3>1. F
      BY <1>1, <2>1, ObserverAssumption DEF ListFails
    <3>2. obs' = [NoObs EXCEPT !.phase = "failed"]
      BY <2>1 DEF ListFails
    <3> QED
      BY <1>2, <1>4, <1>5, <3>1, <3>2, WaitKeeps
  <2>2. CASE ProgressBeatsList
    <3>1. obs.progress # "resolved" => F
      BY <1>1, <1>3, <2>2 DEF ProgressBeatsList, ListedOver, Listing, ObservationInv, Observations
    <3>2. obs' = NoObs \/ (obs' = [NoObs EXCEPT !.phase = "failed"] /\ F)
      BY <2>2, <3>1 DEF ProgressBeatsList
    <3>3. O
      BY <1>4, <3>2
    <3> QED
      BY <1>2, <1>5, <3>3, WaitKeeps
  <2>3. CASE LoadProvesNothing
    <3>1. obs' = [NoObs EXCEPT !.phase = "reconciling"]
      BY <2>3 DEF LoadProvesNothing, Reconciling
    <3> QED
      BY <1>2, <1>4, <1>5, <3>1, WaitKeeps
  <2>4. CASE WaitEnds
    <3>1. \/ obs' = [NoObs EXCEPT !.phase = "reconciling"] \/ obs' = NoObs
          \/ obs' = [NoObs EXCEPT !.phase = "failed"] /\ obs.failure
      BY <2>4 DEF WaitEnds, Reconciling
    <3>2. obs.failure => F
      BY <1>3 DEF ObservationInv
    <3>3. O
      BY <1>4, <3>1, <3>2
    <3> QED
      BY <1>2, <1>5, <3>3, WaitKeeps
  <2>5. CASE \E r \in BOOLEAN : ReconcileEnds(r)
    <3>1. obs' = NoObs \/ obs' = [NoObs EXCEPT !.phase = "stopped"]
      BY <2>5 DEF ReconcileEnds
    <3>2. O
      BY <1>4, <3>1
    <3> QED
      BY <1>2, <1>5, <3>2, WaitKeeps
  <2> QED
    BY <1>9, <2>1, <2>2, <2>3, <2>4, <2>5
<1> QED
  BY <1>6, <1>7, <1>8, <1>9

(* The first child a pass stops at is one it had still to look at. *)
LEMMA FirstStop ==
    ASSUME ObserverInv, Stops # {}
    PROVE  (CHOOSE x \in Stops : \A y \in Stops : x <= y) \in Stops
<1>1. Stops \subseteq Nat
  BY ObserverAssumption DEF Stops, ObserverInv, ObservationInv, Observations, Attempts
<1>2. \E x \in Stops : \A y \in Stops : x <= y
  BY <1>1, LeastOf
<1> QED
  BY <1>2

(* The steps that look at children and begin the settlement of those that ended. *)
LEMMA LookingKeeps ==
    ASSUME ObserverInv, Examine \/ LoadReturns
    PROVE  ObserverInv'
<1> DEFINE F == losses.faults > 0
<1>1. /\ obs \in Observations /\ waits \in 0..MaxWaits
      /\ losses \in [faults : 0..MaxObserverFaults, crashes : 0..MaxRestarts]
      /\ ObservationInv(obs, local, F) /\ F \in BOOLEAN /\ \A a \in obs.active : child[a] # "none"
  BY DEF ObserverInv, ObserverTypeOK, ObservationInv, DispatchedOnly
<1>2. losses.faults >= losses.faults
  BY <1>1
<1>3. CASE Examine
  <2> DEFINE ends == Passed \cap obs.ended
             seen == [obs EXCEPT !.settled = @ \cup ends]
             now == Refreshed(seen, evidence)
  <2>1. /\ obs.phase = "examining" /\ UNCHANGED <<child, sessionLog, evidence, local, poisoned, todo, waits, losses>>
        /\ settling' = settling \cup Settlements(ends, "edge")
    BY <1>3 DEF Examine
  <2>2. Passed \subseteq obs.todo /\ obs.todo \subseteq obs.active \ obs.owned /\ Stops \subseteq obs.todo
    BY <1>1 DEF Passed, Stops, ObservationInv
  <2>3. /\ seen \in Observations /\ seen.phase = "examining" /\ seen.active = obs.active /\ seen.owned = obs.owned
        /\ seen.todo = obs.todo /\ seen.progress = obs.progress /\ seen.failure = obs.failure
    BY <1>1, <2>1, <2>2 DEF Observations
  <2>4. ObservationInv(seen, local, F)
    BY <1>1, <2>1, <2>3 DEF ObservationInv, Waiting
  <2> HIDE DEF seen, ends
  <2>5. ObservationInv(now, local, F) /\ now.active = obs.active /\ now.phase = "examining"
    <3> HIDE DEF F
    <3> QED
      BY <1>1, <2>3, <2>4, RefreshedKeeps
  <2> HIDE DEF now
  <2>6. \/ obs' = Reconciling \/ obs' = NoObs
        \/ \E a \in Stops : obs' = [seen EXCEPT !.phase = "loading", !.loads = a, !.todo = @ \ Passed]
        \/ obs' = [now EXCEPT !.phase = "waiting", !.entries = NoObs.entries]
        \/ obs' = [Outcome(now, "needs") EXCEPT !.phase = "waiting", !.entries = NoObs.entries]
    <3>1. CASE Stops # {}
      <4>1. PICK a \in Stops : a = CHOOSE x \in Stops : \A y \in Stops : x <= y
        BY <3>1, FirstStop
      <4> QED
        BY <1>3, <3>1, <4>1 DEF Examine, seen, ends
    <3>2. CASE Stops = {}
      BY <1>3, <3>2 DEF Examine, seen, ends, now
    <3> QED
      BY <3>1, <3>2
  <2>7. NoObs.entries \in [Attempts -> ChildStates]
    BY DEF NoObs, ChildStates
  <2>8. ObservationInv(obs', local, F) /\ \A a \in obs'.active : child[a] # "none"
    <3>1. CASE obs' = Reconciling \/ obs' = NoObs
      BY <1>1, <3>1, RestingObservation DEF Reconciling
    <3>2. ASSUME NEW a \in Stops, obs' = [seen EXCEPT !.phase = "loading", !.loads = a, !.todo = @ \ Passed]
          PROVE  ObservationInv(obs', local, F) /\ \A b \in obs'.active : child[b] # "none"
      <4>1. a \in 0..NumAttempts /\ a \in obs.active \ obs.owned
        BY <1>1, <2>2, ObserverAssumption DEF Observations, Attempts
      <4>2. /\ obs' \in Observations /\ obs'.phase = "loading" /\ obs'.loads = a /\ obs'.active = obs.active
            /\ obs'.owned = obs.owned /\ obs'.todo = obs.todo \ Passed
            /\ obs'.progress = obs.progress /\ obs'.failure = obs.failure
        BY <2>3, <3>2, <4>1 DEF Observations, Waiting
      <4> QED
        BY <1>1, <2>1, <4>1, <4>2 DEF ObservationInv, Waiting
    <3>3. CASE obs' = [now EXCEPT !.phase = "waiting", !.entries = NoObs.entries]
      <4>1. /\ obs' \in Observations /\ obs'.phase = "waiting" /\ obs'.active = now.active
            /\ obs'.owned = now.owned /\ obs'.todo = now.todo
            /\ obs'.progress = now.progress /\ obs'.failure = now.failure
        BY <2>5, <2>7, <3>3 DEF ObservationInv, Observations, Waiting
      <4> QED
        BY <1>1, <2>5, <4>1 DEF ObservationInv, Waiting
    <3>4. CASE obs' = [Outcome(now, "needs") EXCEPT !.phase = "waiting", !.entries = NoObs.entries]
      <4>1. /\ obs' \in Observations /\ obs'.phase = "waiting" /\ obs'.active = now.active
            /\ obs'.owned = now.owned /\ obs'.todo = now.todo
            /\ (obs'.progress = now.progress \/ obs'.progress = "needs") /\ obs'.failure = now.failure
        BY <2>5, <2>7, <3>4 DEF ObservationInv, Observations, Waiting, Outcome
      <4> QED
        BY <1>1, <2>5, <4>1 DEF ObservationInv, Waiting
    <3> QED
      BY <2>6, <3>1, <3>2, <3>3, <3>4
  <2>9. \A s \in settling' : s \in settling \/
          (s \in SettlementRecords /\ s.attempt \notin local /\ child[s.attempt] # "none")
    <3>1. ends \subseteq obs.active \ obs.owned /\ obs.phase \in Waiting
      BY <2>1, <2>2 DEF ends, Waiting
    <3> QED
      BY <2>1, <3>1, SettlementsBegun
  <2> QED
    BY <1>1, <1>2, <2>1, <2>8, <2>9, WaitKeeps
<1>4. CASE LoadReturns
  <2>1. /\ obs.phase = "loading" /\ UNCHANGED <<child, sessionLog, evidence, local, poisoned, todo, waits, losses>>
        /\ settling' = settling \cup Settlements({obs.loads}, "log")
        /\ {obs.loads} \subseteq obs.active \ obs.owned /\ obs.phase \in Waiting /\ obs.loads \in Attempts
    BY <1>1, <1>4 DEF LoadReturns, ObservationInv, Observations, Waiting
  <2>2. /\ obs' \in Observations /\ obs'.phase = "examining" /\ obs'.active = obs.active
        /\ obs'.owned = obs.owned /\ obs'.todo = obs.todo \ {obs.loads}
        /\ obs'.progress = obs.progress /\ obs'.failure = obs.failure
    BY <1>1, <1>4, <2>1 DEF LoadReturns, Observations, Waiting
  <2>3. ObservationInv(obs', local, F) /\ \A a \in obs'.active : child[a] # "none"
    BY <1>1, <2>1, <2>2 DEF ObservationInv, Waiting
  <2>4. \A s \in settling' : s \in settling \/
          (s \in SettlementRecords /\ s.attempt \notin local /\ child[s.attempt] # "none")
    BY <2>1, SettlementsBegun
  <2> QED
    BY <1>1, <1>2, <2>1, <2>3, <2>4, WaitKeeps
<1> QED
  BY <1>3, <1>4

(* The end of a settlement, of the executor or of a wait. *)
LEMMA SettleEndKeeps ==
    ASSUME ObserverInv, NEW s \in settling, Settle(s) \/ SettleFails(s)
    PROVE  ObserverInv'
<1> DEFINE F == losses'.faults > 0
<1>1. /\ s \in SettlementRecords /\ s.attempt \in Attempts
      /\ losses \in [faults : 0..MaxObserverFaults, crashes : 0..MaxRestarts]
      /\ evidence \in [Attempts -> {"none", "executor", "edge", "log"}] /\ local \subseteq Attempts
      /\ child[s.attempt] # "none"
  BY DEF ObserverInv, ObserverTypeOK, SettlementRecords, DispatchedOnly
<1>2. /\ settling' = settling \ {s} /\ UNCHANGED <<child, sessionLog, todo, waits>>
      /\ local' = IF s.by = "executor" THEN local \ {s.attempt} ELSE local
  BY DEF Settle, SettleFails
<1>3. /\ evidence' \in [Attempts -> {"none", "executor", "edge", "log"}]
      /\ \A a \in Attempts : evidence'[a] = evidence[a] \/ (a = s.attempt /\ a \notin local')
  <2>1. CASE evidence' = evidence
    BY <1>1, <2>1
  <2>2. CASE /\ evidence' = [evidence EXCEPT ![s.attempt] = Source(s.by)]
             /\ ~(s.by = "cold" /\ s.attempt \in local)
    <3>1. Source(s.by) \in {"executor", "edge", "log"}
      BY <1>1 DEF Source, SettlementRecords
    <3>2. s.attempt \notin local'
      BY <1>2, <2>2 DEF ObserverInv, HeldByExecutor
    <3> QED
      BY <1>1, <2>2, <3>1, <3>2
  <2> QED
    BY <2>1, <2>2 DEF Settle, SettleFails
<1>4. /\ losses' \in [faults : 0..MaxObserverFaults, crashes : 0..MaxRestarts]
      /\ losses'.faults >= losses.faults /\ F \in BOOLEAN /\ poisoned' \in BOOLEAN /\ (poisoned' => F)
      /\ (SettleFails(s) => F)
  <2>1. poisoned \in BOOLEAN /\ (poisoned => losses.faults > 0)
    BY DEF ObserverInv, ObserverTypeOK
  <2>2. CASE Settle(s)
    BY <1>1, <2>1, <2>2 DEF Settle, SettleFails
  <2>3. CASE SettleFails(s)
    <3>1. CASE poisoned /\ losses' = losses
      BY <1>1, <2>1, <2>3, <3>1 DEF SettleFails
    <3>2. CASE losses.faults < MaxObserverFaults /\ losses' = [losses EXCEPT !.faults = @ + 1]
      <4>1. losses' \in [faults : 0..MaxObserverFaults, crashes : 0..MaxRestarts] /\ losses'.faults = losses.faults + 1
        BY <1>1, <3>2, ObserverAssumption
      <4> QED
        BY <1>1, <2>3, <4>1 DEF SettleFails
    <3> QED
      BY <2>3, <3>1, <3>2 DEF SettleFails
  <2> QED
    BY <2>2, <2>3
<1>5. ObservationInv(obs, local', F)
  <2>1. local' \subseteq local
    BY <1>2
  <2> QED
    BY <1>1, <1>4, <2>1 DEF ObserverInv, ObservationInv
<1>6. ObservationInv(obs', local', F) /\ obs'.active = obs.active
  <2>1. CASE obs' = obs
    BY <1>5, <2>1
  <2>2. CASE obs' = Heard(s, evidence')
    BY <1>4, <1>5, <2>2, RefreshedKeeps DEF Heard
  <2>3. CASE obs' = Failing(obs) /\ SettleFails(s)
    BY <1>4, <1>5, <2>3, FailingKeeps
  <2> QED
    BY <2>1, <2>2, <2>3 DEF Settle, SettleFails
<1>7. ObserverTypeOK'
  <2>1. obs'.phase \in Waiting \cup {"idle", "stopped", "failed"} /\ obs'.progress \in {"none", "resolved", "needs", "failed"}
    BY <1>6 DEF ObservationInv, Observations
  <2> QED
    BY <1>2, <1>3, <1>4, <2>1 DEF ObserverInv, ObserverTypeOK
<1>8. DispatchedOnly' /\ HeldByExecutor' /\ OwnedUsageIsKept'
  <2>1. local' \subseteq local /\ settling' \subseteq settling
    BY <1>2
  <2>2. DispatchedOnly'
    BY <1>1, <1>2, <1>3, <1>6, <2>1 DEF ObserverInv, DispatchedOnly
  <2>3. HeldByExecutor'
    BY <1>2, <2>1 DEF ObserverInv, HeldByExecutor
  <2>4. OwnedUsageIsKept'
    BY <1>1, <1>3, <2>1 DEF ObserverInv, OwnedUsageIsKept
  <2> QED
    BY <2>2, <2>3, <2>4
<1>9. (ObservationInv(obs, local, losses.faults > 0))'
  BY <1>6 DEF ObservationInv, Observations, Waiting
<1> QED
  BY <1>4, <1>7, <1>8, <1>9 DEF ObserverInv

(* What happens around a wait: work, ends of children, the cold scan and the end of the process. *)
LEMMA WorldKeeps ==
    ASSUME ObserverInv,
           \/ \E a \in Attempts : ObservedEnds(a) \/ WorkAppears(a) \/ Dispatch(a) \/ RecoverColdTerminalFact(a)
           \/ ProcessDies
    PROVE  ObserverInv'
<1> DEFINE F == losses'.faults > 0
<1>1. /\ obs \in Observations /\ waits \in 0..MaxWaits
      /\ losses \in [faults : 0..MaxObserverFaults, crashes : 0..MaxRestarts]
      /\ child \in [Attempts -> ChildStates] /\ local \subseteq Attempts /\ settling \subseteq SettlementRecords
      /\ sessionLog \in [Attempts -> {"open", "ended", "unreadable"}] /\ todo \subseteq Attempts
      /\ evidence \in [Attempts -> {"none", "executor", "edge", "log"}] /\ poisoned \in BOOLEAN
      /\ ObservationInv(obs, local, losses.faults > 0)
  BY DEF ObserverInv, ObserverTypeOK, ObservationInv, SettlementRecords
<1>2. ASSUME NEW a \in Attempts, ObservedEnds(a)
      PROVE  ObserverInv'
  <2>1. /\ child[a] = "active" /\ child' = [child EXCEPT ![a] = "inactive"]
        /\ sessionLog' = [sessionLog EXCEPT ![a] = "ended"]
        /\ UNCHANGED <<evidence, local, poisoned, todo, waits, losses>>
    BY <1>2 DEF ObservedEnds
  <2>2. /\ child' \in [Attempts -> ChildStates] /\ sessionLog' \in [Attempts -> {"open", "ended", "unreadable"}]
        /\ \A b \in Attempts : child'[b] = "none" <=> child[b] = "none"
    BY <1>1, <2>1 DEF ChildStates
  <2>3. /\ obs' \in Observations /\ obs'.phase = obs.phase /\ obs'.active = obs.active /\ obs'.owned = obs.owned
        /\ obs'.todo = obs.todo /\ obs'.loads = obs.loads /\ obs'.progress = obs.progress /\ obs'.failure = obs.failure
    BY <1>1, <1>2 DEF ObservedEnds, Observations
  <2>4. ObservationInv(obs', local, losses.faults > 0)
    BY <1>1, <2>3 DEF ObservationInv
  <2>5. \A s \in settling' : s \in settling \/
          (s \in SettlementRecords /\ child[s.attempt] # "none" /\ (s.attempt \in local => s.by = "executor"))
    <3> SUFFICES ASSUME NEW s \in settling', s \notin settling
                 PROVE  s \in SettlementRecords /\ child[s.attempt] # "none" /\ (s.attempt \in local => s.by = "executor")
      OBVIOUS
    <3>1. CASE s = [attempt |-> a, by |-> "executor", wait |-> waits]
      BY <1>1, <2>1, <3>1 DEF SettlementRecords
    <3>2. CASE EdgeSettles(a) /\ s \in Settlements({a}, "edge")
      <4>1. obs.phase \in Waiting /\ {a} \subseteq obs.active \ obs.owned
        BY <3>2 DEF EdgeSettles, Observing
      <4> QED
        BY <3>2, <4>1, SettlementsBegun
    <3> QED
      BY <1>2, <3>1, <3>2 DEF ObservedEnds
  <2>6. ObserverTypeOK'
    <3>1. settling' \subseteq SettlementRecords
      BY <1>1, <2>5
    <3> QED
      BY <1>1, <2>1, <2>2, <2>3, <3>1 DEF ObserverInv, ObserverTypeOK, SettlementRecords, Observations
  <2>7. DispatchedOnly' /\ HeldByExecutor' /\ OwnedUsageIsKept'
    <3>1. obs.active \subseteq Attempts /\ \A s \in SettlementRecords : s.attempt \in Attempts
      BY <1>1 DEF Observations, SettlementRecords
    <3>2. DispatchedOnly'
      BY <1>1, <2>1, <2>2, <2>3, <2>5, <3>1 DEF ObserverInv, DispatchedOnly
    <3>3. HeldByExecutor' /\ OwnedUsageIsKept'
      BY <2>1, <2>5 DEF ObserverInv, HeldByExecutor, OwnedUsageIsKept
    <3> QED
      BY <3>2, <3>3
  <2>8. (ObservationInv(obs, local, losses.faults > 0))'
    BY <2>1, <2>4 DEF ObservationInv, Observations, Waiting
  <2> QED
    BY <2>1, <2>6, <2>7, <2>8 DEF ObserverInv
<1>3. ASSUME NEW a \in Attempts, WorkAppears(a)
      PROVE  ObserverInv'
  <2>1. /\ child[a] = "none" /\ todo' = todo \cup {a} /\ (obs' = obs \/ obs' = NoObs)
        /\ UNCHANGED <<child, sessionLog, evidence, local, settling, poisoned, waits, losses>>
    BY <1>3 DEF WorkAppears, ObsAfterWake
  <2>2. ObservationInv(obs', local, losses.faults > 0) /\ \A b \in obs'.active : child[b] # "none"
    <3> DEFINE G == losses.faults > 0
    <3>1. G \in BOOLEAN /\ ObservationInv(obs, local, G) /\ \A b \in obs.active : child[b] # "none"
      BY <1>1 DEF ObserverInv, DispatchedOnly
    <3> HIDE DEF G
    <3>2. ObservationInv(obs', local, G) /\ \A b \in obs'.active : child[b] # "none"
      BY <2>1, <3>1, RestingObservation
    <3> QED
      BY <3>2 DEF G
  <2>3. (ObservationInv(obs, local, losses.faults > 0))'
    BY <2>1, <2>2 DEF ObservationInv, Observations, Waiting
  <2>4. ObserverTypeOK'
    BY <1>1, <2>1, <2>2 DEF ObserverInv, ObserverTypeOK, ObservationInv, Observations
  <2> QED
    BY <2>1, <2>2, <2>3, <2>4 DEF ObserverInv, DispatchedOnly, HeldByExecutor, OwnedUsageIsKept
<1>4. ASSUME NEW a \in Attempts, Dispatch(a)
      PROVE  ObserverInv'
  <2>1. /\ a \in todo /\ todo' = todo \ {a} /\ child' = [child EXCEPT ![a] = "active"] /\ local' = local \cup {a}
        /\ obs.phase = "idle" /\ UNCHANGED <<sessionLog, evidence, settling, poisoned, obs, waits, losses>>
    BY <1>4 DEF Dispatch
  <2>2. child[a] = "none" /\ evidence[a] = "none" /\ \A s \in settling : s.attempt # a
    BY <2>1 DEF ObserverInv, DispatchedOnly
  <2>3. /\ child' \in [Attempts -> ChildStates] /\ child'[a] = "active"
        /\ \A b \in Attempts : b # a => child'[b] = child[b]
    BY <1>1, <2>1 DEF ChildStates
  <2>4. ObserverTypeOK'
    BY <1>1, <2>1, <2>3 DEF ObserverInv, ObserverTypeOK
  <2>5. DispatchedOnly'
    <3>1. obs.active \subseteq Attempts /\ \A s \in settling : s.attempt \in Attempts
      BY <1>1 DEF Observations, SettlementRecords
    <3> QED
      BY <1>1, <2>1, <2>3, <3>1 DEF ObserverInv, DispatchedOnly
  <2>6. HeldByExecutor' /\ OwnedUsageIsKept'
    BY <2>1, <2>2 DEF ObserverInv, HeldByExecutor, OwnedUsageIsKept
  <2>7. (ObservationInv(obs, local, losses.faults > 0))'
    BY <1>1, <2>1 DEF ObservationInv, Observations, Waiting
  <2> QED
    BY <2>1, <2>4, <2>5, <2>6, <2>7 DEF ObserverInv
<1>5. ASSUME NEW a \in Attempts, RecoverColdTerminalFact(a)
      PROVE  ObserverInv'
  <2>1. /\ settling' = settling \cup {[attempt |-> a, by |-> "cold", wait |-> waits]} /\ child[a] # "none"
        /\ UNCHANGED <<child, sessionLog, evidence, local, poisoned, todo, obs, waits, losses>>
    BY <1>5 DEF RecoverColdTerminalFact, Running
  <2>2. ObserverTypeOK'
    BY <1>1, <2>1 DEF ObserverInv, ObserverTypeOK
  <2>3. (ObservationInv(obs, local, losses.faults > 0))'
    BY <1>1, <2>1 DEF ObservationInv, Observations, Waiting
  <2> QED
    BY <2>1, <2>2, <2>3 DEF ObserverInv, DispatchedOnly, HeldByExecutor, OwnedUsageIsKept
<1>6. CASE ProcessDies
  <2>1. /\ losses' = [losses EXCEPT !.crashes = @ + 1] /\ losses.crashes < MaxRestarts
        /\ child' = [a \in Attempts |-> IF child[a] = "active" THEN "inactive" ELSE child[a]]
        /\ local' = {} /\ settling' = {} /\ poisoned' = FALSE /\ obs' = NoObs
        /\ UNCHANGED <<sessionLog, evidence, todo, waits>>
    BY <1>6 DEF ProcessDies
  <2>2. losses' \in [faults : 0..MaxObserverFaults, crashes : 0..MaxRestarts]
    BY <1>1, <2>1, ObserverAssumption
  <2>3. child' \in [Attempts -> ChildStates] /\ \A b \in Attempts : child'[b] = "none" <=> child[b] = "none"
    BY <1>1, <2>1 DEF ChildStates
  <2>4. ObservationInv(obs', local', F) /\ obs'.active = {}
    <3>1. F \in BOOLEAN /\ obs' = NoObs
      BY <2>1, <2>2
    <3> HIDE DEF F
    <3> QED
      BY <3>1, RestingObservation
  <2>5. ObserverTypeOK'
    BY <1>1, <2>1, <2>2, <2>3, <2>4 DEF ObserverInv, ObserverTypeOK, ObservationInv, Observations
  <2>6. DispatchedOnly' /\ HeldByExecutor' /\ OwnedUsageIsKept'
    BY <1>1, <2>1, <2>3, <2>4 DEF ObserverInv, DispatchedOnly, HeldByExecutor, OwnedUsageIsKept
  <2>7. (ObservationInv(obs, local, losses.faults > 0))'
    BY <2>4 DEF ObservationInv, Observations, Waiting
  <2> QED
    BY <2>1, <2>5, <2>6, <2>7 DEF ObserverInv
<1> QED
  BY <1>2, <1>3, <1>4, <1>5, <1>6

(* Every step of the observer keeps its invariant. *)
LEMMA ObserverInductive ==
    ASSUME ObserverInv, [ObserverNext]_observerVars
    PROVE  ObserverInv'
<1>1. CASE UNCHANGED observerVars
  BY <1>1 DEF observerVars, ObserverInv, ObserverTypeOK, ObservationInv, Observations, Waiting, DispatchedOnly,
              HeldByExecutor, OwnedUsageIsKept
<1> QED
  BY <1>1, WaitingKeeps, LookingKeeps, SettleEndKeeps, WorldKeeps DEF ObserverNext

(* A process begins without settlements, holding nothing. *)
LEMMA InitObserved == ObserverInit => ObserverInv
<1> SUFFICES ASSUME ObserverInit
             PROVE  ObserverInv
  OBVIOUS
<1>1. ObservationInv(NoObs, {}, FALSE) /\ NoObs.active = {}
  BY RestingObservation
<1>2. losses.faults = 0 /\ local = {} /\ obs = NoObs /\ settling = {}
  BY DEF ObserverInit
<1>3. ObserverTypeOK
  <2>1. losses \in [faults : 0..MaxObserverFaults, crashes : 0..MaxRestarts] /\ waits \in 0..MaxWaits
    BY ObserverAssumption DEF ObserverInit
  <2>2. obs.phase \in Waiting \cup {"idle", "stopped", "failed"} /\ obs.progress \in {"none", "resolved", "needs", "failed"}
    BY <1>1, <1>2 DEF ObservationInv, Observations
  <2>3. evidence \in [Attempts -> {"none", "executor", "edge", "log"}] /\ todo \subseteq Attempts /\ poisoned = FALSE
    BY DEF ObserverInit
  <2> QED
    BY <1>2, <2>1, <2>2, <2>3 DEF ObserverInit, ObserverTypeOK
<1>4. ObservationInv(obs, local, losses.faults > 0)
  BY <1>1, <1>2 DEF ObservationInv
<1>5. DispatchedOnly /\ HeldByExecutor /\ OwnedUsageIsKept
  BY <1>1, <1>2 DEF ObserverInit, DispatchedOnly, HeldByExecutor, OwnedUsageIsKept
<1>6. poisoned = FALSE
  BY DEF ObserverInit
<1> QED
  BY <1>3, <1>4, <1>5, <1>6 DEF ObserverInv

(* What is durable of an attempt stays. *)
LEMMA EvidenceStays ==
    ASSUME ObserverInv, [ObserverNext]_observerVars, NEW a \in Attempts, evidence[a] # "none"
    PROVE  evidence'[a] = evidence[a]
<1>1. ASSUME NEW s \in settling, Settle(s)
      PROVE  evidence'[a] = evidence[a]
  <2>1. evidence' = evidence \/ (s.attempt # a /\ evidence' = [evidence EXCEPT ![s.attempt] = Source(s.by)])
    BY <1>1 DEF Settle, AlreadySettled
  <2> QED
    BY <2>1 DEF ObserverInv, ObserverTypeOK
<1>2. CASE UNCHANGED evidence
  BY <1>2
<1> QED
  BY <1>1, <1>2
     DEF ObserverNext, observerVars, ObservedEnds, WorkAppears, Dispatch, RecoverColdTerminalFact, ProcessDies,
         SettleFails, StartWait, ListReturns, ListFails, ProgressBeatsList, Examine, LoadReturns,
         LoadProvesNothing, WaitEnds, Heartbeat, ReconcileEnds

(* An attempt is settled by its owner, once, and racing for it is no failure. *)
THEOREM SettlementsStayOwned == ObserverSpec => SettlementsAreOwned
<1>1. ObserverInv => ObserverTypeOK /\ OwnedUsageIsKept /\ FailsOnlyOnFaults
  BY DEF ObserverInv, ObservationInv, FailsOnlyOnFaults
<1>2. ObserverInv /\ [ObserverNext]_observerVars =>
        [\A a \in Attempts : evidence[a] # "none" => evidence'[a] = evidence[a]]_observerVars
  BY EvidenceStays
<1> QED
  BY InitObserved, ObserverInductive, <1>1, <1>2, PTL DEF ObserverSpec, SettlementsAreOwned, SettledOnce

----
(* Instructions to running children *)

(* An instruction under way: its request is being delivered. *)
UnderWay(a) == ask[a].at \in {"next", "turn", "host", "sent", "lost"}
InHand(a) == ask[a].at \in {"turn", "host", "sent", "lost"}

(* What a row claims of what its task took. *)
Claims(r, g) ==
    /\ g \in 0..1
    /\ r = "accepted" => g = 1
    /\ r \in {"failed", "none"} => g = 0

(* Only the instruction ahead is under way, and while the Host takes its message the transaction is
   its own: the Team and the task still run. *)
TurnsInv == \A a \in Asks :
    /\ UnderWay(a) => Ahead(line, a)
    /\ ask[a].at = "host" => Ahead(turn, a) /\ Admissible(ask[a].row)

(* Both what is visible of a receipt and what a restart would leave of it are true. *)
ReceiptInv == \A i \in MessageIds, t \in Workers :
    Claims(receipt[i].rows[t], got[i][t]) /\ Claims(receipt[i].kept[t], got[i][t])

(* A request under way is recorded as it stands, and what it has not sent nobody took. *)
SendingInv(a) ==
    LET i == ask[a].id IN
    /\ receipt[i].kept = receipt[i].rows /\ receipt[i].rows # NoRow
    /\ InHand(a) => receipt[i].rows[ask[a].row] = "sending"
    /\ ask[a].at = "sent" => got[i][ask[a].row] = 1
    /\ \A t \in Workers : receipt[i].rows[t] = "sending" =>
          got[i][t] = 0 \/ (ask[a].at \in {"sent", "lost"} /\ t = ask[a].row)

InstructionsInv ==
    /\ InstructionsTypeOK /\ TurnsInv /\ ReceiptInv
    /\ \A a \in Asks : UnderWay(a) => SendingInv(a)

AskRecords ==
    [id : MessageIds, target : SUBSET Workers, row : Workers,
     at : {"new", "line", "next", "turn", "host", "sent", "lost", "done"},
     answer : {"none", "receipt", "uncertain", "lost"}]
RowRecords == [Workers -> {"none", "sending", "accepted", "failed", "unknown"}]
Receipts == [rows : RowRecords, kept : RowRecords, target : SUBSET Workers]

(* Who is ahead stays ahead when another joins, and leaves as the head. *)
LEMMA AheadInLine ==
    ASSUME NEW S, NEW s \in Seq(S), NEW x \in S, NEW y \in S
    PROVE  /\ Append(s, y) \in Seq(S) /\ Without(s, x) \in Seq(S)
           /\ Ahead(s, x) => Ahead(Append(s, y), x)
           /\ Ahead(s, x) => s # <<>> /\ Without(s, x) = Tail(s) /\ (Ahead(s, y) => x = y)
<1>1. Append(s, y) \in Seq(S)
  BY AppendProperties
<1>2. Without(s, x) \in Seq(S)
  BY HeadTailProperties DEF Without, Ahead
<1>3. ASSUME Ahead(s, x) PROVE Ahead(Append(s, y), x)
  <2>1. s # <<>> /\ Head(s) = x /\ Len(s) \in Nat /\ Len(s) >= 1
    BY <1>3, EmptySeq, LenProperties DEF Ahead
  <2>2. Append(s, y) # <<>> /\ Append(s, y)[1] = s[1]
    BY <2>1, AppendProperties
  <2> QED
    BY <1>1, <2>1, <2>2, HeadTailProperties DEF Ahead
<1> QED
  BY <1>1, <1>2, <1>3 DEF Without, Ahead

(* Only one instruction is under way. *)
LEMMA OneUnderWay ==
    ASSUME TurnsInv, NEW a \in Asks, NEW b \in Asks, UnderWay(a), UnderWay(b)
    PROVE  a = b
BY DEF TurnsInv, Ahead

(* What the invariant says of the types. *)
LEMMA InstructionsTyped ==
    ASSUME InstructionsTypeOK
    PROVE  /\ ask \in [Asks -> AskRecords] /\ receipt \in [MessageIds -> Receipts]
           /\ got \in [MessageIds -> [Workers -> Nat]]
           /\ line \in Seq(Asks) /\ turn \in Seq(Asks \cup Workers)
BY DEF InstructionsTypeOK, AskRecords, RowRecords, Receipts

(* A step that leaves the receipts and what was taken: the instruction a moves to the record r, and
   nobody else is under way who was not. *)
LEMMA QuietStep ==
    ASSUME InstructionsInv, NEW a \in Asks, NEW r \in AskRecords, ask' = [ask EXCEPT ![a] = r],
           UNCHANGED <<receipt, got, open, work>>,
           line' \in Seq(Asks), turn' \in Seq(Asks \cup Workers),
           r.at \in {"next", "turn", "host", "sent", "lost"} =>
               /\ Ahead(line', a) /\ UnderWay(a) /\ r.id = ask[a].id
               /\ r.at \in {"next", "turn", "host"} /\ ask[a].at \in {"next", "turn", "host"}
               /\ (r.at # "next" => receipt[r.id].rows[r.row] = "sending"),
           r.at = "host" => Ahead(turn', a) /\ Admissible(r.row),
           \A b \in Asks \ {a} : UnderWay(b) => Ahead(line', b),
           \A b \in Asks \ {a} : ask[b].at = "host" => Ahead(turn', b)
    PROVE  InstructionsInv'
<1>1. /\ ask \in [Asks -> AskRecords] /\ ask'[a] = r /\ ask' \in [Asks -> AskRecords]
      /\ \A b \in Asks \ {a} : ask'[b] = ask[b]
  BY InstructionsTyped DEF InstructionsInv
<1>2. InstructionsTypeOK'
  BY <1>1 DEF InstructionsInv, InstructionsTypeOK, AskRecords
<1>3. ReceiptInv'
  BY DEF InstructionsInv, ReceiptInv
<1>4. TurnsInv'
  <2> SUFFICES ASSUME NEW b \in Asks
               PROVE  /\ UnderWay(b)' => Ahead(line', b)
                      /\ ask'[b].at = "host" => Ahead(turn', b) /\ Admissible(ask[b].row)'
    BY DEF TurnsInv
  <2>1. CASE b = a
    BY <1>1, <2>1 DEF UnderWay, Admissible
  <2>2. CASE b # a
    BY <1>1, <2>2 DEF UnderWay, Admissible, InstructionsInv, TurnsInv
  <2> QED
    BY <2>1, <2>2
<1>5. ASSUME NEW b \in Asks, UnderWay(b)'
      PROVE  SendingInv(b)'
  <2>1. CASE b # a
    <3>1. SendingInv(b) /\ ask'[b] = ask[b]
      BY <1>1, <1>5, <2>1 DEF UnderWay, InstructionsInv
    <3> QED
      BY <3>1 DEF SendingInv, InHand
  <2>2. CASE b = a
    <3>1. /\ ask'[a] = r /\ r.id = ask[a].id /\ r.at \in {"next", "turn", "host"}
          /\ r.at # "next" => receipt[r.id].rows[r.row] = "sending"
          /\ ask[a].at \in {"next", "turn", "host"} /\ SendingInv(a)
      BY <1>1, <1>5, <2>2 DEF UnderWay, InstructionsInv
    <3> QED
      BY <2>2, <3>1 DEF SendingInv, InHand
  <2> QED
    BY <2>1, <2>2
<1> QED
  BY <1>2, <1>3, <1>4, <1>5 DEF InstructionsInv

(* A step that writes the receipt of the instruction ahead: nobody else is under way. *)
LEMMA ReceiptStep ==
    ASSUME InstructionsInv, NEW a \in Asks, NEW r \in AskRecords, ask' = [ask EXCEPT ![a] = r],
           UNCHANGED <<got, open, work>>, NEW i \in MessageIds, NEW c \in Receipts,
           receipt' = [receipt EXCEPT ![i] = c], Ahead(line, a),
           line' \in Seq(Asks), turn' \in Seq(Asks \cup Workers),
           \A t \in Workers : Claims(c.rows[t], got[i][t]) /\ Claims(c.kept[t], got[i][t]),
           r.at \notin {"turn", "host", "sent", "lost"},
           r.at = "next" =>
               /\ r.id = i /\ c.kept = c.rows /\ c.rows # NoRow /\ Ahead(line', a)
               /\ \A t \in Workers : c.rows[t] = "sending" => got[i][t] = 0
    PROVE  InstructionsInv'
<1>1. /\ ask \in [Asks -> AskRecords] /\ ask'[a] = r /\ ask' \in [Asks -> AskRecords]
      /\ \A b \in Asks \ {a} : ask'[b] = ask[b]
      /\ receipt \in [MessageIds -> Receipts] /\ receipt' \in [MessageIds -> Receipts]
      /\ receipt'[i] = c /\ \A j \in MessageIds \ {i} : receipt'[j] = receipt[j]
  BY InstructionsTyped DEF InstructionsInv
<1>2. InstructionsTypeOK'
  BY <1>1 DEF InstructionsInv, InstructionsTypeOK, AskRecords, Receipts, RowRecords
<1>3. ReceiptInv'
  BY <1>1 DEF InstructionsInv, ReceiptInv
<1>4. \A b \in Asks \ {a} : ~UnderWay(b) /\ ~UnderWay(b)'
  BY <1>1 DEF InstructionsInv, TurnsInv, Ahead, UnderWay
<1>5. TurnsInv'
  BY <1>1, <1>4 DEF TurnsInv, UnderWay
<1>6. UnderWay(a)' => SendingInv(a)'
  BY <1>1 DEF UnderWay, SendingInv, InHand
<1> QED
  BY <1>2, <1>3, <1>4, <1>5, <1>6 DEF InstructionsInv

(* What a write of a receipt leaves: the new rows or the old ones, and both new when it is durable. *)
Writes(i, rows, outcome) ==
    \E c \in Receipts :
       /\ receipt' = [receipt EXCEPT ![i] = c]
       /\ c.rows \in {rows, receipt[i].rows} /\ c.kept \in {rows, receipt[i].kept}
       /\ outcome = "durable" => c.rows = rows /\ c.kept = rows

(* However a write of a receipt ends, it is such a write. *)
LEMMA Persisted ==
    ASSUME InstructionsTypeOK, NEW i \in MessageIds, NEW rows \in RowRecords, NEW target \in SUBSET Workers,
           NEW outcome \in Outcomes, Persists(i, rows, target, outcome)
    PROVE  Writes(i, rows, outcome)
<1>1. receipt \in [MessageIds -> Receipts] /\ receipt[i] \in Receipts
  BY InstructionsTyped
<1>2. CASE outcome = "durable"
  <2> DEFINE c == [rows |-> rows, kept |-> rows, target |-> target]
  <2>1. receipt' = [receipt EXCEPT ![i] = c]
    BY <1>2 DEF Persists
  <2>2. c \in Receipts /\ c.rows = rows /\ c.kept = rows
    BY DEF Receipts
  <2> QED
    BY <2>1, <2>2 DEF Writes
<1>3. CASE outcome = "visible"
  <2> DEFINE c == [receipt[i] EXCEPT !.rows = rows, !.target = target]
  <2>1. receipt' = [receipt EXCEPT ![i] = c]
    BY <1>1, <1>3 DEF Persists
  <2>2. c \in Receipts /\ c.rows = rows /\ c.kept = receipt[i].kept
    BY <1>1 DEF Receipts
  <2> QED
    BY <1>3, <2>1, <2>2 DEF Writes
<1>4. CASE outcome = "unwritten"
  <2>1. receipt' = [receipt EXCEPT ![i] = receipt[i]]
    BY <1>1, <1>4 DEF Persists
  <2> QED
    BY <1>1, <1>4, <2>1 DEF Writes
<1> QED
  BY <1>2, <1>3, <1>4 DEF Outcomes

(* The records of an instruction that moves, or is answered. *)
LEMMA ServedRecord ==
    ASSUME InstructionsTypeOK, NEW a \in Asks,
           NEW p \in {"new", "line", "next", "turn", "host", "sent", "lost", "done"}
    PROVE  \E r \in AskRecords :
              /\ Served(a, p) = [ask EXCEPT ![a] = r]
              /\ r.at = p /\ r.id = ask[a].id /\ r.row = ask[a].row /\ r.target = ask[a].target
<1> DEFINE r == [ask[a] EXCEPT !.at = p]
<1>1. ask \in [Asks -> AskRecords] /\ ask[a] \in AskRecords
  BY InstructionsTyped
<1>2. r \in AskRecords
  BY <1>1 DEF AskRecords
<1>3. Served(a, p) = [ask EXCEPT ![a] = r]
  BY <1>1 DEF Served
<1>4. r.at = p /\ r.id = ask[a].id /\ r.row = ask[a].row /\ r.target = ask[a].target
  BY <1>1 DEF AskRecords
<1> QED
  BY <1>2, <1>3, <1>4

(* The record of an instruction that is answered. *)
LEMMA ClosedRecord ==
    ASSUME InstructionsTypeOK, NEW a \in Asks, NEW w \in {"receipt", "uncertain"}
    PROVE  \E r \in AskRecords : Closed(a, w) = [ask EXCEPT ![a] = r] /\ r.at = "done"
<1> DEFINE r == [ask[a] EXCEPT !.at = "done", !.answer = w]
<1>1. ask \in [Asks -> AskRecords] /\ ask[a] \in AskRecords
  BY InstructionsTyped
<1>2. r \in AskRecords
  BY <1>1 DEF AskRecords
<1>3. Closed(a, w) = [ask EXCEPT ![a] = r]
  BY <1>1 DEF Closed
<1>4. r.at = "done"
  BY <1>1 DEF AskRecords
<1> QED
  BY <1>2, <1>3, <1>4

(* An instruction ahead writes rows that claim nothing false: it goes on when they are durable, and
   is uncertain otherwise. *)
LEMMA WrittenKeeps ==
    ASSUME InstructionsInv, NEW a \in Asks, NEW rows \in RowRecords, NEW outcome \in Outcomes,
           Persists(ask[a].id, rows, ask[a].target, outcome), Ahead(line, a),
           IF outcome = "durable" THEN ask' = Served(a, "next") /\ line' = line
           ELSE ask' = Closed(a, "uncertain") /\ line' = Without(line, a),
           UNCHANGED <<got, open, work>>, turn' \in Seq(Asks \cup Workers), rows # NoRow,
           \A t \in Workers : /\ Claims(rows[t], got[ask[a].id][t])
                              /\ rows[t] = "sending" => got[ask[a].id][t] = 0
    PROVE  InstructionsInv'
<1> DEFINE i == ask[a].id
           g == ask[a].target
<1>1. /\ InstructionsTypeOK /\ i \in MessageIds /\ g \in SUBSET Workers
      /\ line \in Seq(Asks) /\ ReceiptInv
  BY DEF InstructionsInv, InstructionsTypeOK
<1>0. Persists(i, rows, g, outcome) /\ \A t \in Workers : Claims(rows[t], got[i][t])
  OBVIOUS
<1> HIDE DEF i, g
<1>2. PICK c \in Receipts :
        /\ receipt' = [receipt EXCEPT ![i] = c]
        /\ c.rows \in {rows, receipt[i].rows} /\ c.kept \in {rows, receipt[i].kept}
        /\ outcome = "durable" => c.rows = rows /\ c.kept = rows
  <2>1. Writes(i, rows, outcome)
    BY <1>0, <1>1, Persisted
  <2> QED
    BY <2>1 DEF Writes
<1>3. \A t \in Workers : Claims(c.rows[t], got[i][t]) /\ Claims(c.kept[t], got[i][t])
  BY <1>0, <1>1, <1>2 DEF ReceiptInv
<1>4. CASE outcome = "durable"
  <2>1. ask' = Served(a, "next") /\ line' = line
    BY <1>4
  <2>2. PICK r \in AskRecords :
          /\ Served(a, "next") = [ask EXCEPT ![a] = r]
          /\ r.at = "next" /\ r.id = ask[a].id /\ r.row = ask[a].row /\ r.target = ask[a].target
    BY <1>1, ServedRecord
  <2>3. /\ r.id = i /\ c.kept = c.rows /\ c.rows # NoRow /\ Ahead(line', a)
        /\ \A t \in Workers : c.rows[t] = "sending" => got[i][t] = 0
    BY <1>2, <1>4, <2>1, <2>2 DEF i, Ahead
  <2> QED
    BY <1>1, <1>2, <1>3, <2>1, <2>2, <2>3, ReceiptStep
<1>5. CASE outcome # "durable"
  <2>1. ask' = Closed(a, "uncertain") /\ line' = Without(line, a)
    BY <1>5
  <2>2. PICK r \in AskRecords : Closed(a, "uncertain") = [ask EXCEPT ![a] = r] /\ r.at = "done"
    BY <1>1, ClosedRecord
  <2>3. line' \in Seq(Asks)
    BY <1>1, <2>1, AheadInLine
  <2> QED
    BY <1>1, <1>2, <1>3, <2>1, <2>2, <2>3, ReceiptStep
<1> QED
  BY <1>4, <1>5

(* What is taken is taken for a task that runs, of a Team that runs. *)
TakenByRunning ==
    \A i \in MessageIds, t \in Workers : got'[i][t] # got[i][t] => open /\ work[t] = "running"

(* An instruction joins the queue of its controller. *)
LEMMA InstructKeeps ==
    ASSUME InstructionsInv, NEW a \in Asks, NEW i \in MessageIds,
           NEW target \in {Workers} \cup {{t} : t \in Workers}, Instruct(a, i, target)
    PROVE  InstructionsInv' /\ TakenByRunning
<1> DEFINE r == [ask[a] EXCEPT !.id = i, !.target = target, !.at = "line"]
<1>1. /\ ask \in [Asks -> AskRecords] /\ ask[a] \in AskRecords /\ line \in Seq(Asks) /\ turn \in Seq(Asks \cup Workers)
      /\ target \in SUBSET Workers
  BY InstructionsTyped DEF InstructionsInv
<1>2. r \in AskRecords /\ r.at = "line"
  BY <1>1 DEF AskRecords
<1>3. ask' = [ask EXCEPT ![a] = r]
  BY DEF Instruct
<1>4. line' = Append(line, a) /\ UNCHANGED <<receipt, got, open, work, turn>>
  BY DEF Instruct
<1>5. line' \in Seq(Asks) /\ \A b \in Asks : Ahead(line, b) => Ahead(line', b)
  BY <1>1, <1>4, AheadInLine
<1> HIDE DEF r
<1>6. /\ \A b \in Asks \ {a} : UnderWay(b) => Ahead(line', b)
      /\ \A b \in Asks \ {a} : ask[b].at = "host" => Ahead(turn', b)
  BY <1>4, <1>5 DEF InstructionsInv, TurnsInv
<1> QED
  BY <1>1, <1>2, <1>3, <1>4, <1>5, <1>6, QuietStep DEF TakenByRunning

(* What the instruction ahead intends is written before anything is sent. *)
LEMMA IntendKeeps ==
    ASSUME InstructionsInv, NEW a \in Asks, NEW outcome \in Outcomes, Intend(a, outcome)
    PROVE  InstructionsInv' /\ TakenByRunning
<1> DEFINE i == ask[a].id
           rows == [t \in Workers |-> IF t \in Recipients(a) THEN "sending" ELSE "none"]
<1>1. /\ i \in MessageIds /\ turn \in Seq(Asks \cup Workers) /\ ask[a].target \subseteq Workers
      /\ receipt[i].rows = NoRow /\ ReceiptInv
  BY DEF InstructionsInv, InstructionsTypeOK, Intend, Known
<1>2. \A t \in Workers : got[i][t] = 0
  BY <1>1 DEF ReceiptInv, Claims, NoRow
<1>3. rows \in RowRecords /\ \A t \in Workers : rows[t] \in {"sending", "none"}
  BY DEF RowRecords
<1>4. rows # NoRow
  <2>1. PICK t \in Workers : t \in Recipients(a)
    BY <1>1 DEF Intend, Recipients
  <2>2. rows[t] = "sending" /\ NoRow[t] = "none"
    BY <2>1 DEF NoRow
  <2> QED
    BY <2>2
<1>5. \A t \in Workers : Claims(rows[t], got[i][t]) /\ (rows[t] = "sending" => got[i][t] = 0)
  BY <1>2, <1>3 DEF Claims
<1>6. /\ Persists(i, rows, ask[a].target, outcome) /\ Ahead(line, a) /\ UNCHANGED <<got, open, work, turn>>
      /\ IF outcome = "durable" THEN ask' = Served(a, "next") /\ line' = line
         ELSE ask' = Closed(a, "uncertain") /\ line' = Without(line, a)
  BY DEF Intend
<1> HIDE DEF rows
<1> QED
  BY <1>1, <1>3, <1>4, <1>5, <1>6, WrittenKeeps DEF TakenByRunning

(* An instruction that is answered without a write leaves the queue. *)
LEMMA AnswerKeeps ==
    ASSUME InstructionsInv, NEW a \in Asks, NoRecipient(a) \/ Receive(a)
    PROVE  InstructionsInv' /\ TakenByRunning
<1>1. /\ InstructionsTypeOK /\ line \in Seq(Asks) /\ turn \in Seq(Asks \cup Workers)
  BY DEF InstructionsInv, InstructionsTypeOK
<1>2. Ahead(line, a)
  BY DEF NoRecipient, Receive, InstructionsInv, TurnsInv, UnderWay
<1>3. /\ ask' = Closed(a, "receipt") /\ line' = Without(line, a) /\ UNCHANGED <<receipt, got, open, work, turn>>
  BY DEF NoRecipient, Receive
<1>4. PICK r \in AskRecords : Closed(a, "receipt") = [ask EXCEPT ![a] = r] /\ r.at = "done"
  BY <1>1, ClosedRecord
<1>5. line' \in Seq(Asks) /\ \A b \in Asks \ {a} : ~Ahead(line, b)
  BY <1>1, <1>2, <1>3, AheadInLine
<1>6. /\ \A b \in Asks \ {a} : UnderWay(b) => Ahead(line', b)
      /\ \A b \in Asks \ {a} : ask[b].at = "host" => Ahead(turn', b)
  BY <1>3, <1>5 DEF InstructionsInv, TurnsInv
<1> QED
  BY <1>1, <1>3, <1>4, <1>5, <1>6, QuietStep DEF TakenByRunning

(* A replay sends nothing: it makes what is visible durable, or is uncertain. *)
LEMMA ReplayKeeps ==
    ASSUME InstructionsInv, NEW a \in Asks, NEW confirmed \in BOOLEAN, Replay(a, confirmed)
    PROVE  InstructionsInv' /\ TakenByRunning
<1> DEFINE i == ask[a].id
           c == IF confirmed THEN [receipt[i] EXCEPT !.kept = receipt[i].rows] ELSE receipt[i]
<1>1. /\ InstructionsTypeOK /\ line \in Seq(Asks) /\ turn \in Seq(Asks \cup Workers) /\ i \in MessageIds
      /\ receipt \in [MessageIds -> Receipts] /\ receipt[i] \in Receipts /\ ReceiptInv
  BY InstructionsTyped DEF InstructionsInv, InstructionsTypeOK
<1>2. /\ Ahead(line, a) /\ line' = Without(line, a) /\ UNCHANGED <<got, open, work, turn>>
      /\ receipt' = [receipt EXCEPT ![i] = c]
  BY <1>1 DEF Replay
<1>3. PICK w \in {"receipt", "uncertain"} : ask' = Closed(a, w)
  BY DEF Replay
<1>4. PICK r \in AskRecords : Closed(a, w) = [ask EXCEPT ![a] = r] /\ r.at = "done"
  BY <1>1, ClosedRecord
<1>5. c \in Receipts /\ c.rows = receipt[i].rows /\ c.kept \in {receipt[i].rows, receipt[i].kept}
  BY <1>1 DEF Receipts
<1> HIDE DEF c, i
<1>6. \A t \in Workers : Claims(c.rows[t], got[i][t]) /\ Claims(c.kept[t], got[i][t])
  BY <1>1, <1>5 DEF ReceiptInv
<1>7. line' \in Seq(Asks)
  BY <1>1, <1>2, AheadInLine
<1> QED
  BY <1>1, <1>2, <1>3, <1>4, <1>5, <1>6, <1>7, ReceiptStep DEF TakenByRunning

(* The next row waits for the journal's transaction, and the Team and the task are looked at in it. *)
LEMMA SendingKeeps ==
    ASSUME InstructionsInv, NEW a \in Asks, Check(a) \/ \E t \in Workers : NextRow(a, t)
    PROVE  InstructionsInv' /\ TakenByRunning
<1>1. /\ InstructionsTypeOK /\ line \in Seq(Asks) /\ turn \in Seq(Asks \cup Workers) /\ a \in Asks \cup Workers
      /\ ask \in [Asks -> AskRecords] /\ ask[a] \in AskRecords
  BY InstructionsTyped DEF InstructionsInv
<1>2. /\ UNCHANGED <<receipt, got, open, work, line>> /\ UnderWay(a) /\ Ahead(line, a)
      /\ ask[a].at \in {"next", "turn"}
  BY DEF Check, NextRow, InstructionsInv, TurnsInv, UnderWay
<1>3. \A b \in Asks \ {a} : ~UnderWay(b) /\ ask[b].at # "host"
  BY <1>2, OneUnderWay DEF InstructionsInv, UnderWay
<1>4. ASSUME NEW r \in AskRecords, ask' = [ask EXCEPT ![a] = r], r.id = ask[a].id, r.at \in {"turn", "host"},
             receipt[r.id].rows[r.row] = "sending", turn' \in Seq(Asks \cup Workers),
             r.at = "host" => Ahead(turn', a) /\ Admissible(r.row)
      PROVE  InstructionsInv'
  BY <1>1, <1>2, <1>3, <1>4, QuietStep
<1>5. CASE Check(a)
  <2>1. PICK r \in AskRecords :
          /\ Served(a, "host") = [ask EXCEPT ![a] = r]
          /\ r.at = "host" /\ r.id = ask[a].id /\ r.row = ask[a].row /\ r.target = ask[a].target
    BY <1>1, ServedRecord
  <2>2. /\ ask' = Served(a, "host") /\ turn' = turn /\ Ahead(turn, a) /\ Admissible(ask[a].row)
        /\ receipt[ask[a].id].rows[ask[a].row] = "sending"
    BY <1>2, <1>5 DEF Check, TurnKept, InstructionsInv, SendingInv, InHand
  <2> QED
    BY <1>1, <1>2, <1>4, <2>1, <2>2 DEF TakenByRunning
<1>6. ASSUME NEW t \in Workers, NextRow(a, t)
      PROVE  InstructionsInv' /\ TakenByRunning
  <2> DEFINE r == [ask[a] EXCEPT !.at = "turn", !.row = t]
  <2>1. r \in AskRecords /\ r.id = ask[a].id /\ r.at = "turn" /\ r.row = t
    BY <1>1 DEF AskRecords
  <2>2. ask' = [ask EXCEPT ![a] = r] /\ turn' = Append(turn, a) /\ receipt[ask[a].id].rows[t] = "sending"
    BY <1>1, <1>6 DEF NextRow
  <2>3. turn' \in Seq(Asks \cup Workers)
    BY <1>1, <2>2, AheadInLine
  <2> HIDE DEF r
  <2> QED
    BY <1>2, <1>4, <2>1, <2>2, <2>3 DEF TakenByRunning
<1> QED
  BY <1>5, <1>6

(* The row under way with its result: true, if the result is. *)
LEMMA RowWritten ==
    ASSUME InstructionsInv, NEW a \in Asks, InHand(a), NEW status \in {"accepted", "failed", "unknown"},
           Claims(status, got[ask[a].id][ask[a].row])
    PROVE  /\ Row(a, status) \in RowRecords /\ Row(a, status) # NoRow
           /\ \A t \in Workers : /\ Claims(Row(a, status)[t], got[ask[a].id][t])
                                 /\ Row(a, status)[t] = "sending" => got[ask[a].id][t] = 0
<1> DEFINE i == ask[a].id
           w == ask[a].row
<1>1. /\ i \in MessageIds /\ w \in Workers /\ receipt[i].rows \in RowRecords /\ ReceiptInv /\ SendingInv(a)
  BY DEF InstructionsInv, InstructionsTypeOK, RowRecords, UnderWay, InHand
<1>2. Row(a, status) = [receipt[i].rows EXCEPT ![w] = status]
  BY DEF Row
<1>3. /\ Row(a, status) \in RowRecords /\ Row(a, status)[w] = status
      /\ \A t \in Workers \ {w} : Row(a, status)[t] = receipt[i].rows[t]
  BY <1>1, <1>2 DEF RowRecords
<1>4. NoRow[w] = "none"
  BY <1>1 DEF NoRow
<1>5. \A t \in Workers \ {w} : receipt[i].rows[t] = "sending" => got[i][t] = 0
  BY <1>1 DEF SendingInv
<1> QED
  BY <1>1, <1>3, <1>4, <1>5 DEF ReceiptInv

(* A result is noted: the refusal of the check, what the Host took, or a doubt. *)
LEMMA ResultKeepsReceipt ==
    ASSUME InstructionsInv, NEW a \in Asks, NEW outcome \in Outcomes,
           Reject(a, outcome) \/ Accept(a, outcome) \/ Doubt(a, outcome)
    PROVE  InstructionsInv' /\ TakenByRunning
<1>1. /\ InstructionsTypeOK /\ turn \in Seq(Asks \cup Workers) /\ ask[a].id \in MessageIds /\ ask[a].row \in Workers
      /\ ReceiptInv
  BY DEF InstructionsInv, InstructionsTypeOK
<1>2. InHand(a) /\ UnderWay(a) /\ Ahead(line, a) /\ SendingInv(a) /\ UNCHANGED <<got, open, work>>
  BY DEF Reject, Accept, Doubt, InHand, UnderWay, InstructionsInv, TurnsInv
<1>3. turn' \in Seq(Asks \cup Workers)
  <2>1. a \in Asks \cup Workers
    OBVIOUS
  <2>2. turn' = turn \/ turn' = Without(turn, a)
    BY DEF Reject, Accept, Doubt
  <2>3. Without(turn, a) \in Seq(Asks \cup Workers)
    BY <1>1, <2>1, AheadInLine
  <2> QED
    BY <1>1, <2>2, <2>3
<1>4. PICK status \in {"accepted", "failed", "unknown"} :
        Noted(a, status, outcome) /\ Claims(status, got[ask[a].id][ask[a].row])
  <2>1. got[ask[a].id][ask[a].row] \in 0..1
    BY <1>1 DEF ReceiptInv, Claims
  <2>2. CASE Reject(a, outcome)
    BY <1>1, <1>2, <2>1, <2>2 DEF Reject, SendingInv, Claims
  <2>3. CASE Accept(a, outcome)
    BY <1>1, <1>2, <2>1, <2>3 DEF Accept, SendingInv, Claims
  <2>4. CASE Doubt(a, outcome)
    BY <2>1, <2>4 DEF Doubt, Claims
  <2> QED
    BY <2>2, <2>3, <2>4
<1>5. /\ Persists(ask[a].id, Row(a, status), ask[a].target, outcome)
      /\ IF outcome = "durable" THEN ask' = Served(a, "next") /\ line' = line
         ELSE ask' = Closed(a, "uncertain") /\ line' = Without(line, a)
  BY <1>4 DEF Noted
<1>6. /\ Row(a, status) \in RowRecords /\ Row(a, status) # NoRow
      /\ \A t \in Workers : /\ Claims(Row(a, status)[t], got[ask[a].id][t])
                            /\ Row(a, status)[t] = "sending" => got[ask[a].id][t] = 0
  BY <1>2, <1>4, RowWritten
<1> DEFINE rows == Row(a, status)
<1> HIDE DEF rows
<1>7. /\ rows \in RowRecords /\ rows # NoRow /\ Persists(ask[a].id, rows, ask[a].target, outcome)
      /\ \A t \in Workers : /\ Claims(rows[t], got[ask[a].id][t])
                            /\ rows[t] = "sending" => got[ask[a].id][t] = 0
  BY <1>5, <1>6 DEF rows
<1> QED
  BY <1>2, <1>3, <1>5, <1>7, WrittenKeeps DEF TakenByRunning

(* The Host takes the message inside the transaction that looked at the Team, or fails. *)
LEMMA HostKeeps ==
    ASSUME InstructionsInv, NEW a \in Asks, HandOver(a) \/ \E taken \in BOOLEAN : HostFails(a, taken)
    PROVE  InstructionsInv' /\ TakenByRunning
<1> DEFINE i == ask[a].id
           w == ask[a].row
<1>1. /\ InstructionsTypeOK /\ turn \in Seq(Asks \cup Workers) /\ i \in MessageIds /\ w \in Workers
      /\ ask \in [Asks -> AskRecords] /\ ask[a] \in AskRecords /\ got \in [MessageIds -> [Workers -> Nat]]
      /\ a \in Asks \cup Workers /\ ReceiptInv
  BY InstructionsTyped DEF InstructionsInv, InstructionsTypeOK
<1>2. /\ ask[a].at = "host" /\ UnderWay(a) /\ SendingInv(a) /\ Ahead(line, a) /\ Admissible(w)
      /\ UNCHANGED <<line, receipt, open, work>> /\ turn' = Without(turn, a)
  BY DEF HandOver, HostFails, UnderWay, InstructionsInv, TurnsInv
<1>3. receipt[i].rows[w] = "sending" /\ receipt[i].kept = receipt[i].rows /\ got[i][w] = 0
  BY <1>1, <1>2 DEF SendingInv, InHand
<1>4. PICK p \in {"sent", "lost"} :
        /\ ask' = Served(a, p)
        /\ got' = [got EXCEPT ![i][w] = @ + 1] \/ (p = "lost" /\ got' = got)
  BY DEF HandOver, HostFails
<1>5. /\ got' \in [MessageIds -> [Workers -> Nat]] /\ got'[i][w] \in 0..1 /\ (p = "sent" => got'[i][w] = 1)
      /\ \A j \in MessageIds, t \in Workers : j # i \/ t # w => got'[j][t] = got[j][t]
  <2>1. CASE got' = got /\ p = "lost"
    BY <1>1, <1>3, <2>1
  <2>2. CASE got' = [got EXCEPT ![i][w] = @ + 1]
    <3> HIDE DEF i, w
    <3>1. got'[i] = [got[i] EXCEPT ![w] = @ + 1] /\ \A j \in MessageIds \ {i} : got'[j] = got[j]
      BY <1>1, <2>2
    <3>2. got'[i][w] = 1 /\ \A t \in Workers \ {w} : got'[i][t] = got[i][t]
      BY <1>1, <1>3, <3>1
    <3>3. got' \in [MessageIds -> [Workers -> Nat]]
      BY <1>1, <2>2
    <3> QED
      BY <3>1, <3>2, <3>3
  <2> QED
    BY <1>4, <2>1, <2>2
<1>6. p \in {"new", "line", "next", "turn", "host", "sent", "lost", "done"}
  BY <1>4
<1>7. PICK r \in AskRecords :
        /\ Served(a, p) = [ask EXCEPT ![a] = r]
        /\ r.at = p /\ r.id = ask[a].id /\ r.row = ask[a].row /\ r.target = ask[a].target
  BY <1>1, <1>6, ServedRecord
<1>8. /\ ask' \in [Asks -> AskRecords] /\ ask'[a] = r /\ \A b \in Asks \ {a} : ask'[b] = ask[b]
  BY <1>1, <1>4, <1>7
<1>9. turn' \in Seq(Asks \cup Workers)
  BY <1>1, <1>2, AheadInLine
<1> HIDE DEF i, w
<1>10. InstructionsTypeOK'
  BY <1>1, <1>2, <1>5, <1>8, <1>9 DEF InstructionsTypeOK, AskRecords
<1>11. ReceiptInv'
  <2> SUFFICES ASSUME NEW j \in MessageIds, NEW t \in Workers
               PROVE  Claims(receipt[j].rows[t], got'[j][t]) /\ Claims(receipt[j].kept[t], got'[j][t])
    BY <1>2 DEF ReceiptInv
  <2>1. CASE j = i /\ t = w
    BY <1>3, <1>5, <2>1 DEF Claims
  <2>2. CASE j # i \/ t # w
    BY <1>1, <1>5, <2>2 DEF ReceiptInv
  <2> QED
    BY <2>1, <2>2
<1>12. \A b \in Asks \ {a} : ~UnderWay(b) /\ ~UnderWay(b)' /\ ask'[b].at # "host"
  BY <1>2, <1>8, OneUnderWay DEF InstructionsInv, UnderWay
<1>13. TurnsInv'
  BY <1>2, <1>4, <1>7, <1>8, <1>12 DEF TurnsInv, UnderWay
<1>14. SendingInv(a)'
  <2>1. /\ ask'[a].id = i /\ ask'[a].row = w /\ ask'[a].at = p
    BY <1>7, <1>8 DEF i, w
  <2>2. receipt' = receipt /\ receipt[i].rows # NoRow
    BY <1>2 DEF SendingInv, i
  <2>3. \A t \in Workers : receipt[i].rows[t] = "sending" => got'[i][t] = 0 \/ t = w
    BY <1>1, <1>2, <1>5 DEF SendingInv, i
  <2> QED
    BY <1>3, <1>4, <1>5, <2>1, <2>2, <2>3 DEF SendingInv, InHand
<1>15. TakenByRunning
  BY <1>2, <1>5 DEF TakenByRunning, Admissible
<1> QED
  BY <1>10, <1>11, <1>12, <1>13, <1>14, <1>15 DEF InstructionsInv

(* The journal's other transactions: none is made while the Host takes a message. *)
LEMMA WorkKeeps ==
    ASSUME InstructionsInv, Gate \/ \E t \in Workers : EndsWork(t) \/ SettleWork(t) \/ Redo(t)
    PROVE  InstructionsInv' /\ TakenByRunning
<1>1. /\ UNCHANGED <<ask, line, receipt, got>> /\ turn \in Seq(Asks \cup Workers)
      /\ open \in BOOLEAN /\ work \in [Workers -> {"ready", "running", "done"}]
  BY DEF Gate, EndsWork, SettleWork, Redo, InstructionsInv, InstructionsTypeOK
<1>2. \A b \in Asks : ask[b].at = "host" => Ahead(turn, b) /\ Admissible(ask[b].row)
  BY DEF InstructionsInv, TurnsInv
<1>3. /\ turn' \in Seq(Asks \cup Workers) /\ open' \in BOOLEAN /\ work' \in [Workers -> {"ready", "running", "done"}]
      /\ \A b \in Asks : ask[b].at = "host" => Ahead(turn', b) /\ Admissible(ask[b].row)'
  <2>1. CASE Gate
    BY <1>1, <1>2, <2>1 DEF Gate, Ahead
  <2>2. ASSUME NEW t \in Workers, EndsWork(t)
        PROVE  turn' = Append(turn, t) /\ UNCHANGED <<open, work>> /\ t \in Asks \cup Workers
    BY <2>2 DEF EndsWork
  <2>3. ASSUME NEW t \in Workers, EndsWork(t)
        PROVE  turn' \in Seq(Asks \cup Workers) /\ \A b \in Asks : Ahead(turn, b) => Ahead(turn', b)
    <3>1. Append(turn, t) \in Seq(Asks \cup Workers)
      BY <1>1, <2>2, <2>3, AheadInLine
    <3>2. ASSUME NEW b \in Asks, Ahead(turn, b)
          PROVE  Ahead(Append(turn, t), b)
      <4>1. b \in Asks \cup Workers /\ t \in Asks \cup Workers
        OBVIOUS
      <4> QED
        BY <1>1, <3>2, <4>1, AheadInLine
    <3> QED
      BY <2>2, <2>3, <3>1, <3>2
  <2>4. ASSUME NEW t \in Workers, SettleWork(t)
        PROVE  /\ turn' \in Seq(Asks \cup Workers) /\ \A b \in Asks : ~Ahead(turn, b)
               /\ open' = open /\ work' \in [Workers -> {"ready", "running", "done"}]
    <3>1. turn # <<>> /\ Head(turn) = t /\ turn' = Tail(turn)
      BY <2>4 DEF SettleWork, Ahead
    <3>2. \A b \in Asks : b # t
      BY InstructionsAssumption
    <3> QED
      BY <1>1, <2>4, <3>1, <3>2, HeadTailProperties DEF SettleWork, Ahead
  <2>5. ASSUME NEW t \in Workers, Redo(t)
        PROVE  /\ turn' = turn /\ \A b \in Asks : ~Ahead(turn, b)
               /\ open' = open /\ work' \in [Workers -> {"ready", "running", "done"}]
    BY <1>1, <2>5 DEF Redo, Ahead
  <2>6. CASE \E t \in Workers : EndsWork(t)
    BY <1>1, <1>2, <2>2, <2>3, <2>6 DEF Admissible
  <2>7. CASE \E t \in Workers : SettleWork(t) \/ Redo(t)
    BY <1>1, <1>2, <2>4, <2>5, <2>7
  <2> QED
    BY <2>1, <2>6, <2>7
<1>4. InstructionsTypeOK'
  BY <1>1, <1>3 DEF InstructionsInv, InstructionsTypeOK
<1>5. ReceiptInv' /\ \A a \in Asks : UnderWay(a)' => SendingInv(a)'
  BY <1>1 DEF InstructionsInv, ReceiptInv, UnderWay, SendingInv, InHand
<1>6. TurnsInv'
  BY <1>1, <1>3 DEF InstructionsInv, TurnsInv, UnderWay, Admissible
<1> QED
  BY <1>1, <1>4, <1>5, <1>6 DEF InstructionsInv, TakenByRunning

(* A restart leaves what is durable of the receipts, and nothing under way. *)
LEMMA InstructionsStopKeeps ==
    ASSUME InstructionsInv, InstructionsStop
    PROVE  InstructionsInv' /\ TakenByRunning
<1>1. /\ ask \in [Asks -> AskRecords] /\ receipt \in [MessageIds -> Receipts]
      /\ got \in [MessageIds -> [Workers -> Nat]]
  BY InstructionsTyped DEF InstructionsInv
<1>2. /\ ask' = [a \in Asks |-> IF ask[a].at \in {"new", "done"} THEN ask[a]
                                ELSE [ask[a] EXCEPT !.at = "done", !.answer = "lost"]]
      /\ receipt' = [i \in MessageIds |->
           [receipt[i] EXCEPT !.rows = receipt[i].kept, !.target = IF receipt[i].kept = NoRow THEN {} ELSE receipt[i].target]]
      /\ line' = <<>> /\ turn' = <<>> /\ open' = FALSE /\ got' = got
      /\ work' = [t \in Workers |-> IF work[t] = "running" THEN "done" ELSE work[t]]
  BY DEF InstructionsStop
<1>3. ASSUME NEW a \in Asks
      PROVE  ask'[a] \in AskRecords /\ ask'[a].at \in {"new", "done"}
  <2>1. ask[a] \in AskRecords
    BY <1>1
  <2>2. CASE ask[a].at \in {"new", "done"}
    BY <1>2, <2>1, <2>2
  <2>3. CASE ask[a].at \notin {"new", "done"}
    <3>1. ask'[a] = [ask[a] EXCEPT !.at = "done", !.answer = "lost"]
      BY <1>2, <2>3
    <3> QED
      BY <2>1, <3>1 DEF AskRecords
  <2> QED
    BY <2>2, <2>3
<1>4. ASSUME NEW i \in MessageIds
      PROVE  receipt'[i] \in Receipts /\ receipt'[i].rows = receipt[i].kept /\ receipt'[i].kept = receipt[i].kept
  <2>1. receipt[i] \in Receipts
    BY <1>1
  <2>2. receipt'[i] = [receipt[i] EXCEPT !.rows = receipt[i].kept,
                                         !.target = IF receipt[i].kept = NoRow THEN {} ELSE receipt[i].target]
    BY <1>2
  <2> QED
    BY <2>1, <2>2 DEF Receipts
<1>5. ask' \in [Asks -> AskRecords] /\ receipt' \in [MessageIds -> Receipts]
  BY <1>2, <1>3, <1>4
<1>6. work' \in [Workers -> {"ready", "running", "done"}] /\ line' \in Seq(Asks) /\ turn' \in Seq(Asks \cup Workers)
  BY <1>2, EmptySeq DEF InstructionsInv, InstructionsTypeOK
<1>7. InstructionsTypeOK'
  BY <1>1, <1>2, <1>5, <1>6 DEF InstructionsTypeOK, AskRecords, Receipts, RowRecords
<1>8. ReceiptInv'
  BY <1>2, <1>4 DEF InstructionsInv, ReceiptInv
<1>9. TurnsInv' /\ \A a \in Asks : ~UnderWay(a)'
  BY <1>3 DEF TurnsInv, UnderWay
<1> QED
  BY <1>2, <1>7, <1>8, <1>9 DEF InstructionsInv, TakenByRunning

(* Every step keeps the receipts true, and reaches running work. *)
LEMMA InstructionsStep ==
    ASSUME InstructionsInv, [InstructionsNext]_instructionsVars
    PROVE  InstructionsInv' /\ TakenByRunning
<1>1. ASSUME NEW a \in Asks, NEW i \in MessageIds, NEW target \in {Workers} \cup {{t} : t \in Workers},
             Instruct(a, i, target)
      PROVE  InstructionsInv' /\ TakenByRunning
  BY <1>1, InstructKeeps
<1>2. ASSUME NEW a \in Asks, NEW o \in Outcomes, Intend(a, o)
      PROVE  InstructionsInv' /\ TakenByRunning
  BY <1>2, IntendKeeps
<1>3. ASSUME NEW a \in Asks, NEW o \in Outcomes, Reject(a, o) \/ Accept(a, o) \/ Doubt(a, o)
      PROVE  InstructionsInv' /\ TakenByRunning
  BY <1>3, ResultKeepsReceipt
<1>4. ASSUME NEW a \in Asks, NEW b \in BOOLEAN, Replay(a, b)
      PROVE  InstructionsInv' /\ TakenByRunning
  BY <1>4, ReplayKeeps
<1>5. ASSUME NEW a \in Asks, HandOver(a) \/ \E b \in BOOLEAN : HostFails(a, b)
      PROVE  InstructionsInv' /\ TakenByRunning
  BY <1>5, HostKeeps
<1>6. ASSUME NEW a \in Asks, Check(a) \/ \E t \in Workers : NextRow(a, t)
      PROVE  InstructionsInv' /\ TakenByRunning
  BY <1>6, SendingKeeps
<1>7. ASSUME NEW a \in Asks, NoRecipient(a) \/ Receive(a)
      PROVE  InstructionsInv' /\ TakenByRunning
  BY <1>7, AnswerKeeps
<1>8. CASE Gate \/ \E t \in Workers : EndsWork(t) \/ SettleWork(t) \/ Redo(t)
  BY <1>8, WorkKeeps
<1>9. CASE InstructionsStop
  BY <1>9, InstructionsStopKeeps
<1>10. CASE UNCHANGED instructionsVars
  BY <1>10 DEF instructionsVars, InstructionsInv, InstructionsTypeOK, TurnsInv, ReceiptInv, UnderWay, InHand,
               SendingInv, Admissible, TakenByRunning
<1> QED
  BY <1>1, <1>2, <1>3, <1>4, <1>5, <1>6, <1>7, <1>8, <1>9, <1>10 DEF InstructionsNext

(* At first nothing is sent and nothing is recorded. *)
LEMMA InstructionsStart ==
    ASSUME InstructionsInit
    PROVE  InstructionsInv
<1>1. (CHOOSE i \in MessageIds : TRUE) \in MessageIds /\ (CHOOSE t \in Workers : TRUE) \in Workers
  BY InstructionsAssumption
<1>2. NoRow \in RowRecords /\ \A t \in Workers : NoRow[t] = "none"
  BY DEF NoRow, RowRecords
<1>3. /\ ask = [a \in Asks |-> Quiet] /\ line = <<>> /\ turn = <<>>
      /\ receipt = [i \in MessageIds |-> NoReceipt] /\ open = TRUE /\ work = [t \in Workers |-> "running"]
      /\ got = [i \in MessageIds |-> [t \in Workers |-> 0]]
  BY DEF InstructionsInit
<1>4. Quiet \in AskRecords /\ Quiet.at = "new"
  BY <1>1 DEF Quiet, AskRecords
<1>5. NoReceipt \in Receipts /\ NoReceipt.rows = NoRow /\ NoReceipt.kept = NoRow
  BY <1>2 DEF NoReceipt, Receipts
<1>6. InstructionsTypeOK
  <2>1. ask \in [Asks -> AskRecords] /\ receipt \in [MessageIds -> Receipts]
    BY <1>3, <1>4, <1>5
  <2>2. line \in Seq(Asks) /\ turn \in Seq(Asks \cup Workers)
    BY <1>3, EmptySeq
  <2> QED
    BY <1>3, <2>1, <2>2 DEF InstructionsTypeOK, AskRecords, Receipts, RowRecords
<1>7. TurnsInv /\ \A a \in Asks : ~UnderWay(a)
  BY <1>3, <1>4 DEF TurnsInv, UnderWay
<1>8. ReceiptInv
  BY <1>2, <1>3, <1>5 DEF ReceiptInv, Claims
<1> QED
  BY <1>6, <1>7, <1>8 DEF InstructionsInv

(* A child takes a request once, a receipt claims what happened, and a message meets running work:
   for any number of instructions, requests, tasks, failing writes and restarts (deliverTeamInstruction,
   sendTaskMessage). *)
THEOREM InstructionsStayTrue == InstructionsSpec => InstructionsAreTrue
<1>1. InstructionsInit => InstructionsInv
  BY InstructionsStart
<1>2. InstructionsInv /\ [InstructionsNext]_instructionsVars => InstructionsInv' /\ TakenByRunning
  BY InstructionsStep
<1>3. InstructionsInv => InstructionsTypeOK /\ ReceiptsAreTrue
  <2>1. ASSUME NEW i \in MessageIds, NEW t \in Workers, Claims(receipt[i].rows[t], got[i][t])
        PROVE  /\ got[i][t] <= 1
               /\ receipt[i].rows[t] = "accepted" => got[i][t] = 1
               /\ receipt[i].rows[t] = "failed" => got[i][t] = 0
    BY <2>1 DEF Claims
  <2> QED
    BY <2>1 DEF InstructionsInv, ReceiptInv, ReceiptsAreTrue
<1>4. InstructionsInv /\ [InstructionsNext]_instructionsVars =>
        [\A i \in MessageIds, t \in Workers :
           got'[i][t] # got[i][t] => open /\ work[t] = "running"]_instructionsVars
  BY <1>2 DEF TakenByRunning
<1> QED
  BY <1>1, <1>2, <1>3, <1>4, PTL DEF InstructionsSpec, InstructionsAreTrue, MessagesMeetRunningWork
====
