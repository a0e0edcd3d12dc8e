---- MODULE TeamSessionsProofs ----
(***************************************************************************)
(* The Sessions of a Host: a start leaves nothing behind that no manifest  *)
(* names, reports only what can run and never lets two writers into one    *)
(* directory; and control without a controller holds: whatever cut a       *)
(* command or the discovery acted on, a Team that was closed or paused has *)
(* nothing left that could run, and a cancel stays the last word.  The     *)
(* journal of a Session loses nothing it acknowledged, and keeps its facts *)
(* on one side and its transactions in order.                              *)
(***************************************************************************)
EXTENDS TeamStart, TeamDormant, TeamJournal, SequenceTheorems, FiniteSetTheorems, TLAPS

(* Control without a controller *)

Closed == {"paused", "completed", "cancelled"}
UnderCancel == {"cancelling", "needs_reconciliation", "cancelled"}

CutRecords == [status : {"running", "pausing", "cancelling", "needs_reconciliation"} \cup Closed,
         intent : BOOLEAN, attempt : {"none", "active", "unknown"}, residue : BOOLEAN,
         ready : BOOLEAN, plan : Plans]

(* The inductive invariant: what is unknown or left behind is gated, what is closed is quiet,
   and what was cancelled last is on its way to cancelled. *)
ColdCut(c) ==
  /\ c \in CutRecords
  /\ c.status \in Closed => c.attempt = "none" /\ ~c.residue
  /\ c.attempt = "unknown" \/ c.residue => c.status = "needs_reconciliation"
  /\ c.intent => c.status \in UnderCancel

ColdInv == ColdCut(cut)

(* A step of the Team keeps the invariant and the cancellation. *)
Keeps == ColdCut(cut') /\ (cut.intent => cut'.intent)

(* A cut a Host may find when it starts is one. *)
LEMMA DurableCutsAreCold ==
  ASSUME NEW c \in DurableCuts
  PROVE  ColdCut(c)
<1> DEFINE Of(status, cancel, attempt, residue, plan) ==
             [status : status, intent : cancel, attempt : attempt, residue : residue,
              ready : BOOLEAN, plan : plan]
<1>1. \/ c \in Of({"running"}, {FALSE}, {"none"}, {FALSE}, Plans)
      \/ c \in Of({"running", "pausing"}, {FALSE}, {"active"}, {FALSE}, {"ready"})
      \/ c \in Of({"paused"}, {FALSE}, {"none"}, {FALSE}, {"ready", "stuck"})
      \/ c \in Of({"cancelling"}, {TRUE}, {"active"}, {FALSE}, {"ready"})
      \/ c \in Of({"needs_reconciliation"}, BOOLEAN, {"none", "unknown"}, BOOLEAN, {"ready"})
  BY Zenon DEF DurableCuts
<1> QED
  BY <1>1 DEF ColdCut, CutRecords, Closed, UnderCancel, Plans

(* An attempt that ends closes what was waiting for it, and nothing else. *)
LEMMA EndingKeeps ==
  ASSUME ColdInv, cut.attempt # "none", AttemptEnds(cut.status),
         cut.residue => cut.status = "needs_reconciliation"
  PROVE  Keeps
BY DEF ColdInv, ColdCut, CutRecords, Closed, UnderCancel, Keeps, AttemptEnds, Plans

(* Settling or marking a Team is a matter of a running one. *)
LEMMA SettlingKeeps ==
  ASSUME ColdInv, Settles \/ cut' = Marked
  PROVE  Keeps
BY DEF ColdInv, ColdCut, CutRecords, Closed, UnderCancel, Keeps, Settles, Settlement, Marked, HasActive

(* What does not write the cut keeps it. *)
LEMMA StandingKeeps ==
  ASSUME ColdInv, UNCHANGED cut
  PROVE  Keeps
BY DEF ColdInv, Keeps

(* The commands, on a cut that may have moved since they read it. *)
LEMMA CommandsKeep ==
  ASSUME ColdInv, NEW c \in Calls,
         \/ Ask(c) \/ Resolve(c) \/ RouteLive(c) \/ LoadFails(c) \/ ControlDormant(c)
         \/ CancelCold(c) \/ ClearGate(c) \/ SettleCold(c) \/ MarkCold(c) \/ Reread(c)
         \/ ObserveRuntime(c) \/ CloseAttempt(c) \/ ChangeLive(c) \/ Publish(c)
  PROVE  Keeps
<1> USE DEF ColdInv, ColdCut, CutRecords, Closed, UnderCancel
<1>1. CASE Ask(c) \/ Resolve(c) \/ RouteLive(c) \/ LoadFails(c) \/ ControlDormant(c)
           \/ Reread(c) \/ Publish(c)
  BY <1>1, StandingKeeps DEF Ask, Resolve, RouteLive, LoadFails, ControlDormant, Reread, Publish
<1>2. CASE CancelCold(c)
  BY <1>2 DEF CancelCold, ClosedOrGated, Unresolved, HasActive, Refuses, Keeps
<1>3. CASE ClearGate(c)
  BY <1>3 DEF ClearGate, Clearable, Unresolved, Refuses, Keeps
<1>4. CASE SettleCold(c)
  BY <1>4, SettlingKeeps, StandingKeeps DEF SettleCold
<1>5. CASE MarkCold(c)
  BY <1>5, SettlingKeeps DEF MarkCold
<1>6. CASE ObserveRuntime(c)
  BY <1>6, ZenonT(30) DEF ObserveRuntime, Refuses, Keeps
<1>7. CASE CloseAttempt(c)
  BY <1>7 DEF CloseAttempt, Refuses, Keeps
<1>8. CASE ChangeLive(c)
  BY <1>8 DEF ChangeLive, ClosedOrGated, Unresolved, HasActive, Refuses, Keeps
<1> QED
  BY <1>1, <1>2, <1>3, <1>4, <1>5, <1>6, <1>7, <1>8

(* The discovery of a cold controller. *)
LEMMA DiscoveryKeeps ==
  ASSUME ColdInv,
         \/ ScanBridge \/ Look \/ ResumeFound \/ ResumeFails \/ RecoverFound \/ SettleFound
         \/ MarkFound \/ ColdFacts \/ GateUnknown
  PROVE  Keeps
<1>1. CASE ScanBridge \/ Look \/ ResumeFound \/ ResumeFails \/ RecoverFound
  BY <1>1, StandingKeeps DEF ScanBridge, Look, ResumeFound, ResumeFails, RecoverFound
<1>2. CASE SettleFound \/ MarkFound
  BY <1>2, SettlingKeeps, StandingKeeps DEF SettleFound, MarkFound
<1>3. CASE ColdFacts
  <2>1. CASE UNCHANGED cut
    BY <2>1, StandingKeeps
  <2>2. CASE HasActive(cut) /\ AttemptEnds(cut.status)
    BY <2>2, EndingKeeps DEF HasActive, ColdInv, ColdCut
  <2> QED
    BY <1>3, <2>1, <2>2 DEF ColdFacts
<1>4. CASE GateUnknown
  BY <1>4 DEF GateUnknown, InspectsWork, Keeps, ColdInv, ColdCut, CutRecords, Closed, UnderCancel
<1> QED
  BY <1>1, <1>2, <1>3, <1>4

(* The live controller and the Host. *)
LEMMA ControllerKeeps ==
  ASSUME ColdInv, DispatchAttempt \/ ChildStops \/ Pause \/ Resume \/ RefreshCut \/ Restart
  PROVE  Keeps
<1>1. CASE ChildStops
  BY <1>1, EndingKeeps DEF ChildStops, ColdInv, ColdCut
<1>2. CASE DispatchAttempt \/ Pause \/ Resume
  BY <1>2 DEF DispatchAttempt, Pause, Resume, HasActive, Keeps, ColdInv, ColdCut, CutRecords, Closed,
              UnderCancel
<1>3. CASE RefreshCut \/ Restart
  BY <1>3, StandingKeeps DEF RefreshCut, Restart
<1> QED
  BY <1>1, <1>2, <1>3

(* Every step of the specification keeps the invariant and the cancellation. *)
LEMMA ColdStep ==
  ASSUME ColdInv, [DormantNext]_dormantVars
  PROVE  Keeps
BY CommandsKeep, DiscoveryKeeps, ControllerKeeps, StandingKeeps DEF DormantNext, dormantVars

(* Control of a Team without its controller is final: what it closed or paused is quiet, and
   no later discovery, clear, settlement or late command takes a cancel back. *)
THEOREM ColdControlIsFinal == DormantSpec => ColdControlHolds
<1>1. DormantInit => ColdInv
  BY DurableCutsAreCold DEF DormantInit, ColdInv
<1>2. ColdInv /\ [DormantNext]_dormantVars => ColdInv'
  BY ColdStep DEF Keeps, ColdInv
<1>3. ColdInv => ClosedIsQuiet
  BY DEF ColdInv, ColdCut, ClosedIsQuiet, Closed, Unresolved
<1>4. ColdInv /\ [DormantNext]_dormantVars =>
        [cut.intent => /\ cut'.intent
                       /\ cut'.status \in {"cancelling", "needs_reconciliation", "cancelled"}]_dormantVars
  BY ColdStep DEF Keeps, ColdCut, UnderCancel
<1> QED
  BY <1>1, <1>2, <1>3, <1>4, PTL DEF DormantSpec, ColdControlHolds, CancelSurvivesRecovery

----
(* The tables of a start *)

\* Where a request is once it was admitted, and the part of it before a controller runs.
Launching == {"intent", "manifest", "tree", "provisioned", "launching", "launch"}
Bootstrapped == {"bootstrapped", "confirming", "workspace", "prove", "unproven", "confirm",
                 "complete", "publish"}
Inner == Launching \cup Bootstrapped \cup {"launched", "bootstrap"}
                   \cup {"undo", "drop", "drop_bootstrap", "drop_confirm"}
Places == Terminal \cup {"idle", "gate", "lock"} \cup Inner

\* Phases of a manifest under which no cleanup touches what it names.
Protected == {"controller-launching", "controller-launched", "team-bootstrapped",
              "durable-confirming", "completed"}

(* Where the manifest is advanced, and where a failed start is discarded. *)
LEMMA AdvancesTable ==
    /\ DOMAIN Advances = {"provisioned", "launching", "launched", "bootstrapped", "confirming",
                          "complete"}
    /\ Advances["provisioned"] = <<"workspace-provisioned", "launching", "failed">>
    /\ Advances["launching"] = <<"controller-launching", "launch", "failed">>
    /\ Advances["launched"] = <<"controller-launched", "bootstrap", "undo">>
    /\ Advances["bootstrapped"] = <<"team-bootstrapped", "confirming", "drop">>
    /\ Advances["confirming"] = <<"durable-confirming", "workspace", "drop">>
    /\ Advances["complete"] = <<"completed", "publish", "drop">>
BY DEF Advances

(* The marks a failed start leaves, by the undo that leaves them. *)
LEMMA MarksTable ==
    /\ DOMAIN Marks = {"undo", "drop", "drop_bootstrap", "drop_confirm"}
    /\ Marks["undo"] = "workspace-provisioned" /\ Marks["drop"] = "unmarked"
    /\ Marks["drop_bootstrap"] = "bootstrap-failed"
    /\ Marks["drop_confirm"] = "confirmation-failed"
BY DEF Marks

(* A phase is left only for the phases the manifest store accepts after it. *)
LEMMA PhaseTable ==
    ASSUME NEW from, NEW to, AllowedRecoveryTransition(from, to)
    PROVE  /\ from = "planned" => to \in {"workspace-provisioned", "cleaned"}
           /\ from = "workspace-provisioned" => to \in {"controller-launching", "cleaned"}
           /\ from = "controller-launching" => to \in {"controller-launched", "workspace-provisioned"}
           /\ from = "controller-launched" => to \in {"bootstrap-failed", "team-bootstrapped"}
           /\ from = "team-bootstrapped" => to = "durable-confirming"
           /\ from = "durable-confirming" => to \in {"confirmation-failed", "completed"}
           /\ from \in {"bootstrap-failed", "confirmation-failed"} => to = "cleaned"
           /\ from \in {"planned", "workspace-provisioned", "controller-launching",
                        "controller-launched", "team-bootstrapped", "durable-confirming",
                        "bootstrap-failed", "confirmation-failed"}
           /\ to \in Phases
BY DEF AllowedRecoveryTransition, Phases

----
(* Queues without duplicates *)

(* Whoever comes last waits behind all others. *)
LEMMA JoinQueue ==
    ASSUME NEW S, NEW q \in Seq(S), IsInjective(q), NEW x \in S, x \notin Range(q)
    PROVE  /\ Append(q, x) \in Seq(S) /\ IsInjective(Append(q, x))
           /\ Range(Append(q, x)) = Range(q) \cup {x}
           /\ q # <<>> => Append(q, x) # <<>> /\ Head(Append(q, x)) = Head(q)
           /\ q = <<>> => Append(q, x) # <<>> /\ Head(Append(q, x)) = x
<1>1. /\ Append(q, x) \in Seq(S) /\ Len(Append(q, x)) = Len(q) + 1 /\ Len(q) \in Nat
      /\ \A i \in 1..Len(q) : Append(q, x)[i] = q[i]
      /\ Append(q, x)[Len(q) + 1] = x
      /\ DOMAIN q = 1..Len(q) /\ DOMAIN Append(q, x) = 1..(Len(q) + 1)
  OBVIOUS
<1>2. IsInjective(Append(q, x))
  BY <1>1 DEF IsInjective, Range
<1>3. Range(Append(q, x)) = Range(q) \cup {x}
  <2>1. \A y \in Range(Append(q, x)) : y \in Range(q) \cup {x}
    BY <1>1 DEF Range
  <2>2. \A y \in Range(q) : y \in Range(Append(q, x))
    BY <1>1 DEF Range
  <2>3. x \in Range(Append(q, x))
    BY <1>1 DEF Range
  <2> QED
    BY <2>1, <2>2, <2>3
<1>4. Append(q, x) # <<>> /\ Head(Append(q, x)) = Append(q, x)[1] /\ (q # <<>> => Head(q) = q[1])
  BY <1>1
<1>5. q # <<>> => Len(q) > 0
  BY <1>1
<1> QED
  BY <1>1, <1>2, <1>3, <1>4, <1>5

(* Whoever leaves was inside; nobody else moves. *)
LEMMA LeaveQueue ==
    ASSUME NEW S, NEW q \in Seq(S), IsInjective(q), NEW x
    PROVE  /\ Leave(q, x) \in Seq(S) /\ IsInjective(Leave(q, x))
           /\ Range(Leave(q, x)) \subseteq Range(q)
           /\ q # <<>> /\ Head(q) = x => Range(Leave(q, x)) = Range(q) \ {x}
           /\ q = <<>> \/ Head(q) # x => Leave(q, x) = q
<1>1. CASE q # <<>> /\ Head(q) = x
  <2>1. /\ Leave(q, x) = Tail(q) /\ Tail(q) \in Seq(S) /\ Len(Tail(q)) = Len(q) - 1
        /\ \A i \in 1..(Len(q) - 1) : Tail(q)[i] = q[i + 1]
        /\ q[1] = x /\ Len(q) \in Nat /\ Len(q) > 0
        /\ DOMAIN q = 1..Len(q) /\ DOMAIN Tail(q) = 1..(Len(q) - 1)
    BY <1>1 DEF Leave
  <2>2. IsInjective(Tail(q))
    BY <2>1 DEF IsInjective
  <2>3. \A y \in Range(Tail(q)) : y \in Range(q) /\ y # x
    <3> SUFFICES ASSUME NEW i \in 1..(Len(q) - 1)
                 PROVE  Tail(q)[i] \in Range(q) /\ Tail(q)[i] # x
      BY <2>1 DEF Range
    <3>1. i + 1 \in DOMAIN q /\ 1 \in DOMAIN q /\ i + 1 # 1
      BY <2>1
    <3> QED
      BY <2>1, <3>1 DEF IsInjective, Range
  <2>4. \A y \in Range(q) \ {x} : y \in Range(Tail(q))
    <3> SUFFICES ASSUME NEW i \in 1..Len(q), q[i] # x PROVE q[i] \in Range(Tail(q))
      BY <2>1 DEF Range
    <3>1. i - 1 \in 1..(Len(q) - 1) /\ Tail(q)[i - 1] = q[i]
      BY <2>1
    <3> QED
      BY <2>1, <3>1 DEF Range
  <2>5. Range(Tail(q)) = Range(q) \ {x}
    BY <2>3, <2>4
  <2> QED
    BY <1>1, <2>1, <2>2, <2>5
<1>2. CASE ~(q # <<>> /\ Head(q) = x)
  BY <1>2 DEF Leave
<1> QED
  BY <1>1, <1>2

(* The one inside is in the queue. *)
LEMMA HeadInQueue ==
    ASSUME NEW S, NEW q \in Seq(S), q # <<>>
    PROVE  Head(q) \in Range(q)
<1>1. Head(q) = q[1] /\ 1 \in DOMAIN q
  OBVIOUS
<1> QED
  BY <1>1 DEF Range

(* A queue somebody is in has a head. *)
LEMMA NotAlone ==
    ASSUME NEW S, NEW q \in Seq(S), NEW x \in Range(q)
    PROVE  q # <<>>
BY DEF Range

----
(* The state of a request *)

RequestTypes ==
    /\ mode \in [Requests -> {"git", "writer", "reader"}]
    /\ place \in [Requests -> Places]
    /\ phase \in [Requests -> Phases] /\ trusted \subseteq Git
    /\ tree \in [Requests -> {"none", "clean", "dirty", "branch"}]
    /\ ctl \in [Requests -> {"none", "live", "stuck", "disposed", "cold", "resumed"}]
    /\ team \in [Requests -> {"none", "open", "ended"}]
    /\ ws \in [Requests -> {"none", "provisioning", "ready", "recon"}]
    /\ writes \subseteq Requests /\ admitted \subseteq Requests
    /\ intent \in {"none", "requested"} \cup Followups
    /\ doubtful \subseteq Requests \cup {"source"}
    /\ upgrade \in [Requests -> {"none", "queued", "settled"}]
    /\ startFaults \in 0..MaxStartFaults /\ startCrashes \in 0..MaxStartCrashes

(* A step of one request leaves the others alone. *)
OthersStand(r) ==
    /\ \A o \in Requests \ {r} :
          /\ place'[o] = place[o] /\ phase'[o] = phase[o] /\ tree'[o] = tree[o]
          /\ ctl'[o] = ctl[o] /\ team'[o] = team[o] /\ ws'[o] = ws[o]
          /\ upgrade'[o] = upgrade[o]
          /\ o \in writes' <=> o \in writes
          /\ o \in admitted' <=> o \in admitted
    /\ mode' = mode

(* A step of a request keeps its types and leaves the other requests alone. *)
LEMMA StepsKeepTypes ==
    ASSUME RequestTypes, NEW r \in Requests, Step(r) \/ Environment(r)
    PROVE  RequestTypes' /\ OthersStand(r)
<1> USE StartAssumption DEF RequestTypes, OthersStand, resources, journals, NoFault, StartFault, GoOn
<1>1. CASE SubmitRequest(r)
  BY <1>1 DEF SubmitRequest, Places, Inner, Launching, Bootstrapped, Git
<1>2. CASE AdmitStart(r) \/ AdmitFollowup(r)
  <2>1. CASE AdmitStart(r)
    BY <2>1 DEF AdmitStart, Answer, Places, Terminal, Inner, Launching, Git
  <2>2. CASE AdmitFollowup(r)
    BY <2>2 DEF AdmitFollowup, Answer, Places, Terminal, Inner, Launching, Git
  <2> QED
    BY <1>2, <2>1, <2>2
<1>3. CASE Reconcile(r)
  BY <1>3 DEF Reconcile, Answer, Places, Terminal, Candidates, Git
<1>4. CASE CheckWriters(r)
  BY <1>4 DEF CheckWriters, Answer, Places, Terminal, Inner, Launching, Git
<1>5. CASE Intend(r)
  BY <1>5 DEF Intend, Answer, Places, Terminal, Inner, Launching, Git
<1>6. CASE CreateManifest(r)
  BY <1>6 DEF CreateManifest, Answer, Places, Terminal, Inner, Launching, Phases, Git
<1>7. CASE ProvisionPhysical(r)
  BY <1>7 DEF ProvisionPhysical, Answer, Recorded, Interrupted, Places, Terminal, Inner, Launching,
              Bootstrapped, Git
<1>8. CASE Advance(r)
  BY <1>8, AdvancesTable, PhaseTable
     DEF Advance, Exit, Answer, Places, Terminal, Inner, Launching, Bootstrapped, Git
<1>9. CASE Launch(r)
  BY <1>9 DEF Launch, Answer, Recorded, Places, Terminal, Inner, Launching, Bootstrapped, Git
<1>10. CASE CommitBootstrap(r)
  BY <1>10 DEF CommitBootstrap, Commit, Recorded, Places, Inner, Bootstrapped, Git
<1>11. CASE IntendWorkspace(r) \/ RecordReconciliation(r) \/ ConfirmWorkspace(r)
  BY <1>11 DEF IntendWorkspace, RecordReconciliation, ConfirmWorkspace, Commit, Recorded, Places,
               Inner, Bootstrapped, Git
<1>12. CASE ProveWorkspace(r)
  BY <1>12 DEF ProveWorkspace, Places, Inner, Bootstrapped, Git
<1>13. CASE PublishStart(r)
  BY <1>13 DEF PublishStart, Answer, Places, Terminal, Inner, Git
<1>14. CASE Discard(r)
  BY <1>14, MarksTable, PhaseTable DEF Discard, Answer, Places, Terminal, Git
<1>15. CASE GrantWriter(r) \/ AskWriter(r)
  BY <1>15 DEF GrantWriter, AskWriter, Git
<1>16. CASE TeamEnds(r) \/ ResumeStart(r) \/ Touch(r)
  BY <1>16 DEF TeamEnds, ResumeStart, Touch, Git
<1>17. CASE Cleanup(r)
  BY <1>17 DEF Cleanup, Phases, Git
<1> QED
  BY <1>1, <1>2, <1>3, <1>4, <1>5, <1>6, <1>7, <1>8, <1>9, <1>10, <1>11, <1>12, <1>13, <1>14,
     <1>15, <1>16, <1>17 DEF Step, Environment

(* How far a start has come: what exists of it at each place, and which phase its manifest has
   while something of it may have to be protected or cleaned up. *)
Stage(r) ==
    /\ place[r] \in {"idle", "gate", "lock"} \cup Launching =>
            ctl[r] = "none" /\ team[r] = "none" /\ ws[r] = "none"
    /\ place[r] \in Inner \ Launching => ctl[r] = "live"
    /\ place[r] \in Bootstrapped => team[r] = "open"
    /\ place[r] \in {"complete", "publish"} => ws[r] = "ready"
    /\ place[r] \in {"idle", "gate", "lock", "intent", "manifest", "tree"} => tree[r] = "none"
    /\ upgrade[r] = "queued" => place[r] = "started" /\ ctl[r] \in {"live", "resumed"}

ManifestStage(r) ==
    /\ place[r] = "tree" => phase[r] = "planned"
    /\ place[r] = "launch" => phase[r] = "controller-launching"
    /\ place[r] \in {"publish", "started"} => phase[r] = "completed"
    /\ ctl[r] \in {"live", "stuck"} => phase[r] \in Protected
    /\ tree[r] # "none" => phase[r] \notin {"none", "cleaned"}

StageInv == (\A r \in Requests : Stage(r)) /\ \A r \in Git : ManifestStage(r)

(* A step of a request keeps what its place promises. *)
LEMMA StepsKeepStage ==
    ASSUME RequestTypes, NEW r \in Requests, Stage(r), Step(r) \/ Environment(r)
    PROVE  Stage(r)'
<1> USE DEF RequestTypes, Stage, resources, journals, NoFault, GoOn, Inner, Launching, Bootstrapped
<1>1. CASE SubmitRequest(r)
  BY <1>1 DEF SubmitRequest
<1>2. CASE AdmitStart(r)
  BY <1>2 DEF AdmitStart, Answer
<1>3. CASE AdmitFollowup(r)
  BY <1>3 DEF AdmitFollowup, Answer
<1>4. CASE Reconcile(r) \/ CheckWriters(r)
  BY <1>4 DEF Reconcile, CheckWriters, Answer
<1>5. CASE Intend(r)
  BY <1>5 DEF Intend, Answer
<1>6. CASE CreateManifest(r)
  BY <1>6 DEF CreateManifest, Answer
<1>7. CASE ProvisionPhysical(r)
  BY <1>7 DEF ProvisionPhysical, Answer, Recorded
<1>8. CASE Advance(r)
  BY <1>8, AdvancesTable DEF Advance, Exit, Answer
<1>9. CASE Launch(r)
  BY <1>9 DEF Launch, Answer, Recorded
<1>10. CASE CommitBootstrap(r)
  BY <1>10 DEF CommitBootstrap, Commit, Recorded
<1>11. CASE IntendWorkspace(r) \/ RecordReconciliation(r) \/ ConfirmWorkspace(r)
  BY <1>11 DEF IntendWorkspace, RecordReconciliation, ConfirmWorkspace, Commit, Recorded
<1>12. CASE ProveWorkspace(r)
  BY <1>12 DEF ProveWorkspace
<1>13. CASE PublishStart(r)
  BY <1>13 DEF PublishStart, Answer
<1>14. CASE Discard(r)
  BY <1>14, MarksTable DEF Discard, Answer
<1>15. CASE GrantWriter(r) \/ AskWriter(r)
  BY <1>15 DEF GrantWriter, AskWriter, Reachable
<1>16. CASE TeamEnds(r) \/ ResumeStart(r) \/ Touch(r)
  BY <1>16 DEF TeamEnds, ResumeStart, Touch, Terminal
<1>17. CASE Cleanup(r)
  BY <1>17 DEF Cleanup, Terminal
<1> QED
  BY <1>1, <1>2, <1>3, <1>4, <1>5, <1>6, <1>7, <1>8, <1>9, <1>10, <1>11, <1>12, <1>13, <1>14,
     <1>15, <1>16, <1>17 DEF Step, Environment

(* A step of a request keeps what its manifest must cover. *)
LEMMA StepsKeepManifest ==
    ASSUME RequestTypes, NEW r \in Git, Stage(r), ManifestStage(r), Step(r) \/ Environment(r)
    PROVE  ManifestStage(r)'
<1> USE DEF RequestTypes, Stage, ManifestStage, Git, resources, journals, NoFault, GoOn, Inner,
            Launching, Bootstrapped, Protected
<1>1. CASE SubmitRequest(r)
  BY <1>1 DEF SubmitRequest
<1>2. CASE AdmitStart(r)
  BY <1>2 DEF AdmitStart, Answer
<1>3. CASE AdmitFollowup(r)
  BY <1>3 DEF AdmitFollowup, Answer
<1>4. CASE Reconcile(r) \/ CheckWriters(r)
  BY <1>4 DEF Reconcile, CheckWriters, Answer
<1>5. CASE Intend(r)
  BY <1>5 DEF Intend, Answer
<1>6. CASE CreateManifest(r)
  BY <1>6 DEF CreateManifest, Answer
<1>7. CASE ProvisionPhysical(r)
  BY <1>7 DEF ProvisionPhysical, Answer, Recorded
<1>8. CASE Advance(r)
  BY <1>8, AdvancesTable DEF Advance, Exit, Answer
<1>9. CASE Launch(r)
  BY <1>9 DEF Launch, Answer, Recorded
<1>10. CASE CommitBootstrap(r)
  BY <1>10 DEF CommitBootstrap, Commit, Recorded
<1>11. CASE IntendWorkspace(r) \/ RecordReconciliation(r) \/ ConfirmWorkspace(r)
  BY <1>11 DEF IntendWorkspace, RecordReconciliation, ConfirmWorkspace, Commit, Recorded
<1>12. CASE ProveWorkspace(r)
  BY <1>12 DEF ProveWorkspace
<1>13. CASE PublishStart(r)
  BY <1>13 DEF PublishStart, Answer
<1>14. CASE Discard(r)
  BY <1>14, MarksTable DEF Discard, Answer
<1>15. CASE GrantWriter(r) \/ AskWriter(r)
  BY <1>15 DEF GrantWriter, AskWriter
<1>16. CASE TeamEnds(r) \/ ResumeStart(r) \/ Touch(r)
  BY <1>16 DEF TeamEnds, ResumeStart, Touch
<1>17. CASE Cleanup(r)
  BY <1>17 DEF Cleanup, CleanupEligiblePhase, Terminal
<1> QED
  BY <1>1, <1>2, <1>3, <1>4, <1>5, <1>6, <1>7, <1>8, <1>9, <1>10, <1>11, <1>12, <1>13, <1>14,
     <1>15, <1>16, <1>17 DEF Step, Environment

(* A restart loses what was under way, and leaves nothing that runs. *)
LEMMA RestartKeepsStage ==
    ASSUME RequestTypes, StageInv, StartRestart
    PROVE  RequestTypes' /\ StageInv'
<1>1. RequestTypes'
  BY StartAssumption DEF RequestTypes, StartRestart, Places, Terminal, Git
<1>2. \A r \in Requests : Stage(r)'
  BY DEF RequestTypes, StartRestart, StageInv, Stage, Inner, Launching, Bootstrapped, Terminal
<1>3. \A r \in Git' : r \in Git
  BY DEF StartRestart, Git
<1>4. \A r \in Git : ManifestStage(r)'
  BY DEF RequestTypes, StartRestart, StageInv, ManifestStage, Terminal, Git
<1> QED
  BY <1>1, <1>2, <1>3, <1>4 DEF StageInv
----
(* The queues *)

(* Whoever waits is queued, and whoever is past the queue of its conversation, or past that of
   the directory as a writer, is the one inside. *)
GateInv ==
    /\ gate \in [Homes -> Seq(Requests)]
    /\ \A p \in Homes :
          /\ IsInjective(gate[p])
          /\ Range(gate[p]) = {r \in Requests : /\ ParentOf[r] = p
                                                /\ place[r] \notin Terminal \cup {"idle"}}
    /\ \A r \in Requests : place[r] \in {"lock"} \cup Inner =>
          gate[ParentOf[r]] # <<>> /\ Head(gate[ParentOf[r]]) = r

LockInv ==
    /\ lock \in Seq(Requests) /\ IsInjective(lock)
    /\ \A r \in Requests : place[r] = "lock" \/ upgrade[r] = "queued" => r \in Range(lock)
    /\ \A r \in Range(lock) : \/ place[r] = "lock" \/ upgrade[r] = "queued"
                              \/ place[r] \in Inner /\ Head(lock) = r
    /\ \A r \in admitted : /\ place[r] \notin {"idle", "gate", "lock"}
                           /\ place[r] \in Inner => lock # <<>> /\ Head(lock) = r

(* The ways a step moves a request in the queues. *)
Inside(r) ==
    \/ place[r] = "gate" /\ Head(gate[ParentOf[r]]) = r
    \/ place[r] = "lock" /\ Head(lock) = r
    \/ place[r] \in Inner

Moves(r, to) == place' = [place EXCEPT ![r] = to]

Submits(r) ==
    /\ place[r] = "idle" /\ Moves(r, "gate")
    /\ gate' = [gate EXCEPT ![ParentOf[r]] = Append(@, r)]
    /\ UNCHANGED <<lock, upgrade, admitted>>
Queues(r) ==
    /\ place[r] = "gate" /\ Head(gate[ParentOf[r]]) = r /\ Moves(r, "lock")
    /\ lock' = Append(lock, r) /\ UNCHANGED <<gate, upgrade, admitted>>
GoesOn(r) ==
    /\ Inside(r) /\ \E to \in Inner : Moves(r, to)
    /\ UNCHANGED <<gate, lock, upgrade>>
    /\ r \in admitted' => r \in admitted \/ place[r] = "lock"
Answers(r) ==
    /\ Inside(r) /\ \E result \in Terminal : Moves(r, result)
    /\ gate' = [gate EXCEPT ![ParentOf[r]] = Leave(@, r)] /\ lock' = Leave(lock, r)
    /\ UNCHANGED upgrade
Asks(r) ==
    /\ place[r] = "started" /\ upgrade[r] = "none" /\ upgrade' = [upgrade EXCEPT ![r] = "queued"]
    /\ lock' = Append(lock, r) /\ UNCHANGED <<place, gate, admitted>>
Granted(r) ==
    /\ upgrade[r] = "queued" /\ Head(lock) = r /\ upgrade' = [upgrade EXCEPT ![r] = "settled"]
    /\ lock' = Tail(lock) /\ UNCHANGED <<place, gate>>
Rests == UNCHANGED <<place, gate, lock, upgrade, admitted>>

(* What a step does to the queues: it joins one, goes on, is answered, asks or is granted. *)
LEMMA StepShapes ==
    ASSUME RequestTypes, NEW r \in Requests, Step(r) \/ Environment(r)
    PROVE  \/ Submits(r) \/ Queues(r) \/ GoesOn(r) \/ Answers(r) \/ Asks(r) \/ Granted(r) \/ Rests
<1> USE DEF GoOn, Moves, Inside, resources, journals
<1>1. CASE SubmitRequest(r)
  BY <1>1 DEF SubmitRequest, Submits
<1>2. CASE AdmitStart(r)
  BY <1>2 DEF AdmitStart, Answer, Queues, GoesOn, Answers, Terminal, Inner, Launching
<1>3. CASE AdmitFollowup(r)
  BY <1>3 DEF AdmitFollowup, Answer, Queues, GoesOn, Answers, Terminal, Inner, Launching
<1>4. CASE Reconcile(r) \/ CheckWriters(r)
  BY <1>4 DEF Reconcile, CheckWriters, Answer, GoesOn, Answers, Terminal, Inner, Launching
<1>5. CASE Intend(r) \/ CreateManifest(r)
  BY <1>5 DEF Intend, CreateManifest, Answer, GoesOn, Answers, Terminal, Inner, Launching
<1>6. CASE ProvisionPhysical(r) \/ Launch(r)
  BY <1>6 DEF ProvisionPhysical, Launch, Answer, Recorded, GoesOn, Answers, Terminal, Inner,
              Launching, Bootstrapped
<1>7. CASE Advance(r)
  BY <1>7, AdvancesTable DEF Advance, Exit, Answer, GoesOn, Answers, Terminal, Inner, Launching,
                             Bootstrapped
<1>8. CASE CommitBootstrap(r)
  BY <1>8 DEF CommitBootstrap, Commit, Recorded, GoesOn, Inner, Bootstrapped
<1>9. CASE IntendWorkspace(r) \/ RecordReconciliation(r) \/ ConfirmWorkspace(r)
  BY <1>9 DEF IntendWorkspace, RecordReconciliation, ConfirmWorkspace, Commit, Recorded, GoesOn,
              Inner, Bootstrapped
<1>10. CASE ProveWorkspace(r)
  BY <1>10 DEF ProveWorkspace, GoesOn, Inner, Bootstrapped
<1>11. CASE PublishStart(r)
  BY <1>11 DEF PublishStart, Answer, GoesOn, Answers, Terminal, Inner, Bootstrapped
<1>12. CASE Discard(r)
  BY <1>12, MarksTable DEF Discard, Answer, Answers, Terminal, Inner
<1>13. CASE GrantWriter(r) \/ AskWriter(r)
  BY <1>13 DEF GrantWriter, AskWriter, Granted, Asks
<1>14. CASE TeamEnds(r) \/ ResumeStart(r) \/ Touch(r) \/ Cleanup(r)
  BY <1>14 DEF TeamEnds, ResumeStart, Touch, Cleanup, Rests
<1> QED
  BY <1>1, <1>2, <1>3, <1>4, <1>5, <1>6, <1>7, <1>8, <1>9, <1>10, <1>11, <1>12, <1>13, <1>14
     DEF Step, Environment

(* The gate of a Session holds the requests under way there, each once. *)
LEMMA StepsKeepGate ==
    ASSUME RequestTypes, GateInv, NEW r \in Requests,
           Submits(r) \/ Queues(r) \/ GoesOn(r) \/ Answers(r) \/ Asks(r) \/ Granted(r) \/ Rests
    PROVE  GateInv'
<1> DEFINE p == ParentOf[r]
<1>1. /\ p \in Homes /\ gate[p] \in Seq(Requests) /\ IsInjective(gate[p])
      /\ Range(gate[p]) = {o \in Requests : ParentOf[o] = p /\ place[o] \notin Terminal \cup {"idle"}}
      /\ place \in [Requests -> Places] /\ gate \in [Homes -> Seq(Requests)]
  BY StartAssumption DEF GateInv, RequestTypes
<1> USE DEF Moves
<1>2. CASE Asks(r) \/ Granted(r) \/ Rests
  BY <1>2 DEF GateInv, Asks, Granted, Rests
<1>3. CASE GoesOn(r) \/ Queues(r)
  <2>1. PICK to \in {"lock"} \cup Inner : Moves(r, to) /\ gate' = gate
    BY <1>3 DEF GoesOn, Queues
  <2>2. r \in Range(gate[p]) /\ place[r] \notin Terminal \cup {"idle"}
    BY <1>1, <1>3 DEF GoesOn, Queues, Inside, Terminal, Inner, Launching, Bootstrapped
  <2>3. gate[p] # <<>> /\ Head(gate[p]) = r
    BY <1>1, <1>3, <2>2, NotAlone DEF GoesOn, Queues, Inside, GateInv
  <2>4. to \notin Terminal \cup {"idle"}
    BY DEF Terminal, Inner, Launching, Bootstrapped
  <2>5. \A o \in Requests : place'[o] \notin Terminal \cup {"idle"}
                              <=> place[o] \notin Terminal \cup {"idle"}
    BY <1>1, <2>1, <2>2, <2>4
  <2> QED
    BY <1>1, <2>1, <2>3, <2>5 DEF GateInv
<1>4. CASE Submits(r)
  <2>1. r \notin Range(gate[p])
    BY <1>1, <1>4 DEF Submits
  <2>2. /\ Append(gate[p], r) \in Seq(Requests) /\ IsInjective(Append(gate[p], r))
        /\ Range(Append(gate[p], r)) = Range(gate[p]) \cup {r}
        /\ gate[p] # <<>> => /\ Append(gate[p], r) # <<>>
                             /\ Head(Append(gate[p], r)) = Head(gate[p])
    BY <1>1, <2>1, JoinQueue
  <2>3. /\ \A q \in Homes \ {p} : gate'[q] = gate[q]
        /\ gate'[p] = Append(gate[p], r) /\ gate' \in [Homes -> Seq(Requests)]
    BY <1>1, <1>4, <2>2 DEF Submits
  <2>4. /\ \A o \in Requests \ {r} : place'[o] = place[o]
        /\ place'[r] = "gate" /\ place'[r] \notin Terminal \cup {"idle"} \cup {"lock"} \cup Inner
    BY <1>1, <1>4 DEF Submits, Terminal, Inner, Launching, Bootstrapped
  <2>5. \A q \in Homes : /\ IsInjective(gate'[q])
                         /\ Range(gate'[q]) = {o \in Requests : /\ ParentOf[o] = q
                                                  /\ place'[o] \notin Terminal \cup {"idle"}}
    <3> SUFFICES ASSUME NEW q \in Homes
                 PROVE  /\ IsInjective(gate'[q])
                        /\ Range(gate'[q]) = {o \in Requests : /\ ParentOf[o] = q
                                                 /\ place'[o] \notin Terminal \cup {"idle"}}
      OBVIOUS
    <3>1. CASE q = p
      <4>1. \A o \in Requests : ParentOf[o] = p /\ place'[o] \notin Terminal \cup {"idle"}
                                   <=> o \in Range(gate[p]) \cup {r}
        BY <1>1, <2>4
      <4>2. Range(gate[p]) \cup {r} \subseteq Requests
        BY <1>1
      <4> QED
        BY <2>2, <2>3, <3>1, <4>1, <4>2
    <3>2. CASE q # p
      <4>1. /\ IsInjective(gate[q]) /\ ParentOf[r] # q
            /\ Range(gate[q]) = {o \in Requests : /\ ParentOf[o] = q
                                                  /\ place[o] \notin Terminal \cup {"idle"}}
        BY <3>2 DEF GateInv
      <4>2. \A o \in Requests : ParentOf[o] = q => place'[o] = place[o]
        BY <2>4, <4>1
      <4> QED
        BY <2>3, <3>2, <4>1, <4>2
    <3> QED
      BY <3>1, <3>2
  <2>6. \A o \in Requests : place'[o] \in {"lock"} \cup Inner =>
            gate'[ParentOf[o]] # <<>> /\ Head(gate'[ParentOf[o]]) = o
    BY <2>2, <2>3, <2>4, StartAssumption DEF GateInv
  <2> QED
    BY <2>3, <2>5, <2>6 DEF GateInv
<1>5. CASE Answers(r)
  <2>1. r \in Range(gate[p])
    BY <1>1, <1>5 DEF Answers, Inside, Terminal, Inner, Launching, Bootstrapped
  <2>2. gate[p] # <<>> /\ Head(gate[p]) = r
    BY <1>1, <1>5, <2>1, NotAlone DEF Answers, Inside, GateInv
  <2>3. /\ Leave(gate[p], r) \in Seq(Requests) /\ IsInjective(Leave(gate[p], r))
        /\ Range(Leave(gate[p], r)) = Range(gate[p]) \ {r}
    BY <1>1, <2>2, LeaveQueue
  <2>4. /\ \A q \in Homes \ {p} : gate'[q] = gate[q]
        /\ gate'[p] = Leave(gate[p], r) /\ gate' \in [Homes -> Seq(Requests)]
    BY <1>1, <1>5, <2>3 DEF Answers
  <2>5. /\ \A o \in Requests \ {r} : place'[o] = place[o]
        /\ place'[r] \in Terminal /\ place'[r] \notin {"lock"} \cup Inner
    BY <1>1, <1>5 DEF Answers, Terminal, Inner, Launching, Bootstrapped
  <2>6. \A q \in Homes : /\ IsInjective(gate'[q])
                         /\ Range(gate'[q]) = {o \in Requests : /\ ParentOf[o] = q
                                                  /\ place'[o] \notin Terminal \cup {"idle"}}
    <3> SUFFICES ASSUME NEW q \in Homes
                 PROVE  /\ IsInjective(gate'[q])
                        /\ Range(gate'[q]) = {o \in Requests : /\ ParentOf[o] = q
                                                 /\ place'[o] \notin Terminal \cup {"idle"}}
      OBVIOUS
    <3>1. CASE q = p
      <4>1. \A o \in Requests : ParentOf[o] = p /\ place'[o] \notin Terminal \cup {"idle"}
                                   <=> o \in Range(gate[p]) \ {r}
        BY <1>1, <2>5
      <4>2. Range(gate[p]) \ {r} \subseteq Requests
        BY <1>1
      <4> QED
        BY <2>3, <2>4, <3>1, <4>1, <4>2
    <3>2. CASE q # p
      <4>1. /\ IsInjective(gate[q]) /\ ParentOf[r] # q
            /\ Range(gate[q]) = {o \in Requests : /\ ParentOf[o] = q
                                                  /\ place[o] \notin Terminal \cup {"idle"}}
        BY <3>2 DEF GateInv
      <4>2. \A o \in Requests : ParentOf[o] = q => place'[o] = place[o]
        BY <2>5, <4>1
      <4> QED
        BY <2>4, <3>2, <4>1, <4>2
    <3> QED
      BY <3>1, <3>2
  <2>7. \A o \in Requests : place'[o] \in {"lock"} \cup Inner => ParentOf[o] # p
    BY <2>2, <2>5 DEF GateInv
  <2>8. \A o \in Requests : place'[o] \in {"lock"} \cup Inner =>
            gate'[ParentOf[o]] # <<>> /\ Head(gate'[ParentOf[o]]) = o
    BY <2>4, <2>5, <2>7, StartAssumption DEF GateInv
  <2> QED
    BY <2>4, <2>6, <2>8 DEF GateInv
<1> QED
  BY <1>2, <1>3, <1>4, <1>5

(* The workspace lock holds the requests that wait for it or have it, each once. *)
LEMMA StepsKeepLock ==
    ASSUME RequestTypes, RequestTypes', LockInv, NEW r \in Requests, OthersStand(r),
           \A o \in Requests : upgrade[o] = "queued" => place[o] = "started",
           Submits(r) \/ Queues(r) \/ GoesOn(r) \/ Answers(r) \/ Asks(r) \/ Granted(r) \/ Rests
    PROVE  LockInv'
<1>1. /\ lock \in Seq(Requests) /\ IsInjective(lock) /\ Range(lock) \subseteq Requests
      /\ place \in [Requests -> Places] /\ upgrade \in [Requests -> {"none", "queued", "settled"}]
      /\ "started" \in Terminal
      /\ \A to \in Terminal : to \notin {"idle", "gate", "lock"} \cup Inner
      /\ \A to \in Inner : to \notin {"idle", "gate", "lock"}
      /\ admitted \subseteq Requests /\ admitted' \subseteq Requests
  BY DEF LockInv, RequestTypes, Range, Terminal, Inner, Launching, Bootstrapped
<1>2. \A o \in Requests \ {r} : /\ place'[o] = place[o] /\ upgrade'[o] = upgrade[o]
                                /\ o \in admitted' <=> o \in admitted
  BY DEF OthersStand
<1>3. lock # <<>> => Head(lock) \in Range(lock)
  BY <1>1, HeadInQueue
<1> USE DEF Moves
<1>4. CASE Submits(r) \/ Rests
  BY <1>1, <1>4 DEF LockInv, Submits, Rests
<1>5. CASE GoesOn(r)
  <2>1. lock' = lock /\ place'[r] \in Inner /\ upgrade' = upgrade
    BY <1>1, <1>5 DEF GoesOn
  <2>2. place[r] # "started" /\ upgrade[r] # "queued"
    BY <1>1, <1>5 DEF GoesOn, Inside
  <2>3. r \in Range(lock) => lock # <<>> /\ Head(lock) = r
    BY <1>1, <1>5, <2>2, NotAlone DEF LockInv, GoesOn, Inside
  <2>4. r \in admitted' => lock # <<>> /\ Head(lock) = r
    <3>1. CASE place[r] = "lock"
      <4>1. r \in Range(lock)
        BY <3>1 DEF LockInv
      <4> QED
        BY <2>3, <4>1
    <3>2. CASE place[r] = "gate"
      BY <1>1, <1>5, <3>2 DEF LockInv, GoesOn
    <3>3. CASE place[r] \in Inner
      BY <1>1, <1>5, <3>3 DEF LockInv, GoesOn
    <3> QED
      BY <1>5, <3>1, <3>2, <3>3 DEF GoesOn, Inside
  <2> QED
    BY <1>1, <1>2, <2>1, <2>2, <2>3, <2>4 DEF LockInv
<1>6. CASE Queues(r) \/ Asks(r)
  <2>1. r \notin Range(lock)
    BY <1>1, <1>6 DEF LockInv, Queues, Asks
  <2>2. /\ lock' \in Seq(Requests) /\ IsInjective(lock') /\ Range(lock') = Range(lock) \cup {r}
        /\ lock # <<>> => lock' # <<>> /\ Head(lock') = Head(lock)
    <3>1. lock' = Append(lock, r)
      BY <1>6 DEF Queues, Asks
    <3> QED
      BY <1>1, <2>1, <3>1, JoinQueue
  <2>3. /\ place'[r] = "lock" \/ upgrade'[r] = "queued"
        /\ place'[r] \notin Inner
    BY <1>1, <1>6 DEF Queues, Asks
  <2>4. \A o \in Range(lock) : lock # <<>>
    BY <1>1, NotAlone
  <2>5. admitted' = admitted /\ (r \in admitted => place'[r] \notin {"idle", "gate", "lock"})
    BY <1>1, <1>6 DEF LockInv, Queues, Asks
  <2> QED
    BY <1>1, <1>2, <2>2, <2>3, <2>4, <2>5 DEF LockInv
<1>7. CASE Answers(r)
  <2>1. place'[r] \in Terminal /\ upgrade' = upgrade /\ lock' = Leave(lock, r)
    BY <1>1, <1>7 DEF Answers
  <2>2. place[r] # "started" /\ upgrade[r] # "queued"
    BY <1>1, <1>7 DEF Answers, Inside
  <2>3. r \in Range(lock) => lock # <<>> /\ Head(lock) = r
    BY <1>1, <1>7, <2>2, NotAlone DEF LockInv, Answers, Inside
  <2>4. /\ lock' \in Seq(Requests) /\ IsInjective(lock') /\ Range(lock') = Range(lock) \ {r}
        /\ r \notin Range(lock) => lock' = lock
    BY <1>1, <1>3, <2>1, <2>3, LeaveQueue
  <2>5. \A o \in Requests \ {r} : o \in Range(lock) => o \in Range(lock')
    BY <2>4
  <2>6. ASSUME NEW o \in Requests \ {r}, place[o] \in Inner, lock # <<>>, Head(lock) = o
        PROVE  lock' = lock
    BY <2>1, <2>6 DEF Leave
  <2>7. \A o \in Range(lock') : /\ o # r
                                /\ \/ place'[o] = "lock" \/ upgrade'[o] = "queued"
                                   \/ place'[o] \in Inner /\ Head(lock') = o
    <3> SUFFICES ASSUME NEW o \in Range(lock')
                 PROVE  /\ o # r
                        /\ \/ place'[o] = "lock" \/ upgrade'[o] = "queued"
                           \/ place'[o] \in Inner /\ Head(lock') = o
      OBVIOUS
    <3>1. o \in Range(lock) /\ o # r /\ o \in Requests /\ lock # <<>>
      BY <1>1, <2>4, NotAlone
    <3> QED
      BY <1>2, <2>6, <3>1 DEF LockInv
  <2>8. \A o \in admitted' : place'[o] \in Inner => lock' # <<>> /\ Head(lock') = o
    <3> SUFFICES ASSUME NEW o \in admitted', place'[o] \in Inner
                 PROVE  lock' # <<>> /\ Head(lock') = o
      OBVIOUS
    <3>1. o \in Requests \ {r} /\ o \in admitted /\ place[o] \in Inner
      BY <1>1, <1>2, <2>1
    <3>2. lock # <<>> /\ Head(lock) = o
      BY <3>1 DEF LockInv
    <3> QED
      BY <2>6, <3>1, <3>2
  <2>9. \A o \in Requests : place'[o] = "lock" \/ upgrade'[o] = "queued" => o \in Range(lock')
    BY <1>1, <1>2, <2>1, <2>2, <2>5 DEF LockInv
  <2>10. \A o \in admitted' : place'[o] \notin {"idle", "gate", "lock"}
    BY <1>1, <1>2, <2>1 DEF LockInv
  <2> QED
    BY <2>4, <2>7, <2>8, <2>9, <2>10 DEF LockInv
<1>8. CASE Granted(r)
  <2>1. place[r] = "started" /\ upgrade'[r] = "settled" /\ place' = place
    BY <1>1, <1>8 DEF Granted
  <2>2. r \in Range(lock) /\ lock # <<>> /\ Head(lock) = r
    BY <1>1, <1>8, NotAlone DEF Granted, LockInv
  <2>3. /\ lock' \in Seq(Requests) /\ IsInjective(lock') /\ Range(lock') = Range(lock) \ {r}
    BY <1>1, <1>8, <2>2, LeaveQueue DEF Granted, Leave
  <2>4. \A o \in Requests : place[o] \in Inner => o # Head(lock)
    BY <1>1, <2>1, <2>2
  <2>5. \A o \in admitted' : place'[o] \notin {"idle", "gate", "lock"} \cup Inner
    BY <1>1, <1>2, <2>1, <2>4 DEF LockInv
  <2> QED
    BY <1>1, <1>2, <2>1, <2>2, <2>3, <2>4, <2>5 DEF LockInv
<1> QED
  BY <1>4, <1>5, <1>6, <1>7, <1>8

----
(* One Team for a follow-up *)

(* Until the intent is durable there is no Team of the follow-up; from then on only the request
   that wrote it has one, and once the source names it, it is the one, and ready. *)
FollowInv ==
    /\ intent = "none" => Candidates = {}
    /\ \A e, f \in Candidates : e = f
    /\ intent \in Followups => Candidates = {intent} /\ ws[intent] = "ready"
    /\ \A f \in Followups :
          /\ place[f] \in {"lock", "intent"} => intent = "none"
          /\ place[f] \in Inner \ {"intent"} =>
                /\ Candidates \subseteq {f}
                /\ intent = "requested" \/ (intent = f /\ place[f] = "drop")
    /\ \A r \in Requests : place[r] = "intent" => r \in Followups

(* No other request of the follow-up is past the gate. *)
Sole(r) == \A f \in Followups \ {r} : place[f] \notin {"lock"} \cup Inner

(* One follow-up is inside at a time. *)
LEMMA OneInside ==
    ASSUME GateInv, NEW r \in Followups, Head(gate[ParentOf[r]]) = r \/ place[r] \in {"lock"} \cup Inner
    PROVE  Sole(r)
<1>1. Head(gate[ParentOf[r]]) = r
  BY DEF GateInv, Requests
<1>2. \A f \in Followups : ParentOf[f] = ParentOf[r] /\ f \in Requests
  BY StartAssumption DEF Requests
<1> QED
  BY <1>1, <1>2 DEF GateInv, Sole

(* A request moves, and neither intent nor Teams are touched. *)
LEMMA FollowMoves ==
    ASSUME RequestTypes, FollowInv, NEW r \in Requests, OthersStand(r),
           UNCHANGED <<intent, team, ws>>,
           \/ place'[r] = place[r]
           \/ place'[r] \in Terminal \cup {"idle", "gate"}
           \/ place'[r] = "intent" /\ place[r] = "lock" /\ r \in Followups
           \/ place[r] \in Inner \ {"intent", "drop"} /\ place'[r] \in Inner \ {"intent"}
           \/ r \in Starts /\ place'[r] # "intent"
    PROVE  FollowInv'
<1>1. Candidates' = Candidates
  BY DEF Candidates
<1>2. \A o \in Requests \ {r} : place'[o] = place[o]
  BY DEF OthersStand
<1>3. \A f \in Followups : f \in Requests /\ f \notin Starts
  BY StartAssumption DEF Requests
<1>4. \A to \in Terminal \cup {"idle", "gate"} : to \notin {"lock", "intent"} \cup Inner
  BY DEF Terminal, Inner, Launching, Bootstrapped
<1>5. \A f \in Followups :
          /\ place'[f] \in {"lock", "intent"} => intent' = "none"
          /\ place'[f] \in Inner \ {"intent"} =>
                /\ Candidates' \subseteq {f}
                /\ intent' = "requested" \/ (intent' = f /\ place'[f] = "drop")
  <2> SUFFICES ASSUME NEW f \in Followups
               PROVE  /\ place'[f] \in {"lock", "intent"} => intent = "none"
                      /\ place'[f] \in Inner \ {"intent"} =>
                            /\ Candidates \subseteq {f}
                            /\ intent = "requested" \/ (intent = f /\ place'[f] = "drop")
    BY <1>1
  <2>1. CASE place'[f] = place[f]
    BY <2>1 DEF FollowInv
  <2>2. CASE place'[f] # place[f]
    <3>1. f = r /\ f \notin Starts
      BY <1>2, <1>3, <2>2
    <3>2. CASE place'[r] \in Terminal \cup {"idle", "gate"}
      BY <1>4, <3>1, <3>2
    <3>3. CASE place'[r] = "intent" /\ place[r] = "lock"
      BY <3>1, <3>3 DEF FollowInv
    <3>4. CASE place[r] \in Inner \ {"intent", "drop"} /\ place'[r] \in Inner \ {"intent"}
      <4>1. "lock" \notin Inner
        BY DEF Inner, Launching, Bootstrapped
      <4> QED
        BY <3>1, <3>4, <4>1 DEF FollowInv
    <3> QED
      BY <2>2, <3>1, <3>2, <3>3, <3>4
  <2> QED
    BY <2>1, <2>2
<1>6. \A o \in Requests : place'[o] = "intent" => o \in Followups
  BY <1>2, <1>4 DEF FollowInv
<1> QED
  BY <1>1, <1>5, <1>6 DEF FollowInv

(* A second follow-up sees the first, and does not start another Team. *)
LEMMA StepsKeepFollowup ==
    ASSUME RequestTypes, GateInv, FollowInv, NEW r \in Requests, Stage(r), OthersStand(r),
           Step(r) \/ Environment(r)
    PROVE  FollowInv'
<1> USE DEF resources, journals, GoOn
<1>1. place \in [Requests -> Places] /\ \A f \in Followups : f \in Requests /\ f \notin Starts
  BY StartAssumption DEF Requests, RequestTypes
<1>2. CASE SubmitRequest(r)
  BY <1>1, <1>2, FollowMoves DEF SubmitRequest
<1>3. CASE AdmitStart(r)
  <2>1. r \in Starts /\ place'[r] # "intent" /\ UNCHANGED <<intent, team, ws>>
    BY <1>1, <1>3 DEF AdmitStart, Answer
  <2> QED
    BY <2>1, FollowMoves
<1>4. CASE AdmitFollowup(r)
  <2>1. CASE intent \in Followups
    BY <1>1, <1>4, <2>1, FollowMoves DEF AdmitFollowup, Answer, Terminal
  <2>2. CASE intent \notin Followups
    <3>1. r \in Followups /\ intent = "none" /\ Sole(r)
      BY <1>4, <2>2, OneInside DEF AdmitFollowup, FollowupPending, RequestTypes
    <3>2. /\ place'[r] \in {"lock", "intent"} /\ UNCHANGED <<intent, team, ws>>
          /\ Candidates' = Candidates
      BY <1>1, <1>4, <2>2 DEF AdmitFollowup, Candidates
    <3>3. \A f \in Followups \ {r} : place'[f] \notin {"lock"} \cup Inner
      BY <1>1, <3>1 DEF OthersStand, Sole
    <3>4. \A o \in Requests : place'[o] = "intent" => o \in Followups
      BY <3>1 DEF FollowInv, OthersStand
    <3>5. "lock" \notin Inner /\ "intent" \in Inner
      BY DEF Inner, Launching, Bootstrapped
    <3> QED
      BY <3>1, <3>2, <3>3, <3>4, <3>5 DEF FollowInv
  <2> QED
    BY <2>1, <2>2
<1>5. CASE Reconcile(r)
  <2>1. r \in Followups /\ Sole(r) /\ place'[r] \in Terminal /\ UNCHANGED <<team, ws>>
    BY <1>1, <1>5, OneInside DEF Reconcile, Answer, Terminal
  <2>2. Candidates' = Candidates
    BY <2>1 DEF Candidates
  <2>3. \/ intent' = intent
        \/ intent' \in Candidates /\ Candidates = {intent'} /\ ws[intent'] = "ready"
    BY <1>5 DEF Reconcile, FollowupPending
  <2>4. \A f \in Followups : place'[f] \notin {"lock"} \cup Inner
    BY <1>1, <2>1 DEF OthersStand, Sole, Terminal, Inner, Launching, Bootstrapped
  <2>5. \A o \in Requests : place'[o] = "intent" => o \in Followups
    BY <2>1 DEF FollowInv, OthersStand
  <2>6. \A f \in Candidates : f # "none"
    BY StartAssumption DEF Candidates, Requests
  <2> QED
    BY <2>1, <2>2, <2>3, <2>4, <2>5, <2>6 DEF FollowInv, Inner, Launching
<1>6. CASE CheckWriters(r)
  <2>1. /\ place[r] = "lock" /\ UNCHANGED <<intent, team, ws>>
        /\ \/ place'[r] \in Terminal
           \/ place'[r] = "intent" /\ r \in Followups
           \/ place'[r] = "manifest" /\ r \notin Followups
    BY <1>1, <1>6 DEF CheckWriters, Answer, Terminal
  <2> QED
    BY <2>1, FollowMoves DEF Requests
<1>7. CASE Intend(r)
  <2>1. r \in Followups /\ Sole(r) /\ intent = "none" /\ Candidates = {}
    BY <1>7, OneInside DEF Intend, FollowInv, Inner, Launching
  <2>2. /\ UNCHANGED <<team, ws>> /\ intent' \in {"none", "requested"}
        /\ place'[r] \in Terminal \/ (place'[r] = "manifest" /\ intent' = "requested")
    <3>1. UNCHANGED <<team, ws>>
      BY <1>7 DEF Intend
    <3>2. PICK to \in Terminal \cup {"manifest"} :
             /\ place' = [place EXCEPT ![r] = to]
             /\ intent' \in {"none", "requested"}
             /\ to = "manifest" => intent' = "requested"
      BY <1>7, <2>1 DEF Intend, Answer, Terminal
    <3>3. place'[r] = to
      BY <1>1, <3>2
    <3> QED
      BY <3>1, <3>2, <3>3
  <2>3. Candidates' = {}
    BY <2>1, <2>2 DEF Candidates
  <2>4. "none" \notin Followups /\ "requested" \notin Followups
    BY StartAssumption DEF Requests
  <2> QED
    BY <1>1, <2>1, <2>2, <2>3, <2>4
       DEF FollowInv, OthersStand, Sole, Terminal, Inner, Launching, Bootstrapped
<1>8. CASE CreateManifest(r) \/ ProveWorkspace(r)
  BY <1>1, <1>8, FollowMoves
     DEF CreateManifest, ProveWorkspace, Answer, Terminal, Inner, Launching, Bootstrapped
<1>9. CASE ProvisionPhysical(r) \/ Launch(r)
  BY <1>1, <1>9, FollowMoves
     DEF ProvisionPhysical, Launch, Recorded, Answer, Terminal, Inner, Launching, Bootstrapped
<1>10. CASE Advance(r)
  BY <1>1, <1>10, FollowMoves, AdvancesTable
     DEF Advance, Exit, Answer, Terminal, Inner, Launching, Bootstrapped
<1>11. CASE CommitBootstrap(r)
  <2>1. /\ place[r] = "bootstrap" /\ UNCHANGED <<intent, ws>>
        /\ place'[r] \in Inner \ {"intent"}
        /\ team' = team \/ team' = [team EXCEPT ![r] = "open"]
    BY <1>1, <1>11 DEF CommitBootstrap, Commit, Recorded, Inner, Launching, Bootstrapped
  <2>2. CASE r \in Followups
    <3>1. /\ Sole(r) /\ intent = "requested" /\ Candidates \subseteq {r}
          /\ "requested" \notin Followups
      BY <2>1, <2>2, OneInside, StartAssumption
         DEF FollowInv, Inner, Launching, Requests
    <3>2. \A f \in Followups \ {r} : team[f] = "none" /\ team'[f] = "none"
      BY <1>1, <3>1 DEF Candidates, OthersStand
    <3>3. Candidates' \subseteq {r}
      BY <3>2 DEF Candidates
    <3>4. place'[r] \notin {"lock", "intent"}
      BY <2>1 DEF Inner, Launching, Bootstrapped
    <3>5. \A f \in Followups \ {r} : place'[f] \notin {"lock"} \cup Inner
      BY <1>1, <3>1 DEF OthersStand, Sole
    <3>6. \A o \in Requests : place'[o] = "intent" => o \in Followups
      BY <3>4 DEF FollowInv, OthersStand
    <3>7. intent' = "requested" /\ intent' \notin Followups /\ "intent" \in Inner
      BY <2>1, <3>1 DEF Inner, Launching
    <3> QED
      BY <2>2, <3>3, <3>4, <3>5, <3>6, <3>7 DEF FollowInv
  <2>3. CASE r \notin Followups
    <3>1. \A f \in Followups : team'[f] = team[f] /\ place'[f] = place[f]
      BY <1>1, <2>3 DEF OthersStand
    <3>2. Candidates' = Candidates
      BY <3>1 DEF Candidates
    <3>3. \A o \in Requests : place'[o] = "intent" => o \in Followups
      BY <2>1 DEF FollowInv, OthersStand
    <3> QED
      BY <2>1, <3>1, <3>2, <3>3 DEF FollowInv
  <2> QED
    BY <2>2, <2>3
<1>12. CASE IntendWorkspace(r) \/ RecordReconciliation(r) \/ ConfirmWorkspace(r)
  <2>1. /\ place[r] \in Bootstrapped /\ UNCHANGED <<intent, team>>
        /\ place'[r] \in Inner \ {"intent"}
    BY <1>1, <1>12 DEF IntendWorkspace, RecordReconciliation, ConfirmWorkspace, Commit, Recorded,
                       Inner, Launching, Bootstrapped
  <2>2. \A o \in Requests \ {r} : ws'[o] = ws[o] /\ place'[o] = place[o]
    BY DEF OthersStand
  <2>3. Candidates' = Candidates
    BY <2>1 DEF Candidates
  <2>4. r \in Followups => intent = "requested" /\ r # intent
    BY <2>1, StartAssumption DEF FollowInv, Inner, Launching, Bootstrapped, Requests
  <2>5. intent \in Followups => intent # r /\ ws'[intent] = ws[intent]
    BY <1>1, <2>2, <2>4
  <2> QED
    BY <1>1, <2>1, <2>2, <2>3, <2>4, <2>5
       DEF FollowInv, Inner, Launching, Bootstrapped
<1>13. CASE PublishStart(r)
  <2>1. CASE r \in Starts
    BY <1>1, <1>13, <2>1, FollowMoves DEF PublishStart, Answer, Terminal
  <2>2. CASE r \in Followups
    <3>1. /\ Sole(r) /\ intent = "requested" /\ Candidates \subseteq {r}
          /\ ws[r] = "ready" /\ team[r] = "open"
      BY <1>13, <2>2, OneInside
         DEF PublishStart, FollowInv, Stage, Inner, Launching, Bootstrapped
    <3>2. Candidates = {r} /\ Candidates' = {r}
      BY <1>13, <2>2, <3>1 DEF PublishStart, Candidates
    <3>3. /\ intent' \in {"requested", r} /\ ws' = ws
          /\ place'[r] \in Terminal \/ place'[r] = "drop"
      BY <1>1, <1>13, <2>2 DEF PublishStart, Answer, Terminal
    <3>4. r # "none" /\ "requested" \notin Followups
      BY <2>2, StartAssumption DEF Requests
    <3> QED
      BY <1>1, <2>2, <3>1, <3>2, <3>3, <3>4
         DEF FollowInv, OthersStand, Sole, Terminal, Inner, Launching, Bootstrapped
  <2> QED
    BY <2>1, <2>2 DEF Requests
<1>14. CASE Discard(r)
  BY <1>1, <1>14, FollowMoves DEF Discard, Answer, Terminal
<1>15. CASE GrantWriter(r) \/ AskWriter(r) \/ ResumeStart(r) \/ Touch(r) \/ Cleanup(r)
  BY <1>15, FollowMoves DEF GrantWriter, AskWriter, ResumeStart, Touch, Cleanup
<1>16. CASE TeamEnds(r)
  <2>1. Candidates' = Candidates
    BY <1>16 DEF TeamEnds, Candidates, RequestTypes
  <2> QED
    BY <1>16, <2>1 DEF TeamEnds, FollowInv
<1> QED
  BY <1>2, <1>3, <1>4, <1>5, <1>6, <1>7, <1>8, <1>9, <1>10, <1>11, <1>12, <1>13, <1>14,
     <1>15, <1>16 DEF Step, Environment

----
(* One writer in the directory *)

(* The controller of an admitted writer was not let go since, and while one of them is still being
   started none of the others competes. *)
WriterInv ==
    /\ \A b \in admitted : ctl[b] \notin {"disposed", "cold"}
    /\ \A a \in admitted : place[a] \in Inner => \A b \in admitted \ {a} : ~Competes(b)
    /\ WritersNeverShare

(* What a step of one request does to the admission of writers. *)
AsBefore(r) ==
    /\ admitted' \subseteq admitted
    /\ r \in admitted' => /\ Competes(r)' => Competes(r)
                          /\ place'[r] \in Inner => place[r] \in Inner
StartsOn(r) == place[r] \in Inner /\ admitted' \subseteq admitted
Admits(r) == \A o \in Requests : ~Competes(o) /\ ~Competes(o)'
Upgrades(r) ==
    /\ admitted' \subseteq admitted \cup {r} /\ lock # <<>> /\ Head(lock) = r
    /\ place[r] = "started" /\ place' = place
    /\ \A o \in Requests \ {r} : ~Competes(o)

(* What a step does to the writers: nothing, a start, an admission or an upgrade. *)
LEMMA WriterShapes ==
    ASSUME RequestTypes, LockInv, WriterInv, NEW r \in Requests, Stage(r), Step(r) \/ Environment(r)
    PROVE  /\ AsBefore(r) \/ StartsOn(r) \/ Admits(r) \/ Upgrades(r)
           /\ r \in admitted' => ctl'[r] \notin {"disposed", "cold"}
<1> USE DEF GoOn, resources, journals, NoFault
<1>1. /\ place \in [Requests -> Places] /\ ctl \in [Requests -> {"none", "live", "stuck",
                                                     "disposed", "cold", "resumed"}]
      /\ place[r] \in {"idle", "gate", "lock"} => r \notin admitted
      /\ r \in admitted => ctl[r] \notin {"disposed", "cold"}
  BY DEF RequestTypes, LockInv, WriterInv
<1>2. CASE place[r] \in Inner /\ admitted' \subseteq admitted /\ ctl' = ctl
  BY <1>1, <1>2 DEF StartsOn
<1>3. CASE SubmitRequest(r)
  BY <1>1, <1>3 DEF SubmitRequest, AsBefore
<1>4. CASE AdmitStart(r)
  BY <1>1, <1>4 DEF AdmitStart, AsBefore, Answer
<1>5. CASE AdmitFollowup(r)
  BY <1>1, <1>5 DEF AdmitFollowup, AsBefore, Answer
<1>6. CASE Reconcile(r)
  BY <1>1, <1>6 DEF Reconcile, AsBefore, Answer
<1>7. CASE CheckWriters(r)
  <2>1. CASE \E o \in Requests : Competes(o)
    BY <1>1, <1>7, <2>1 DEF CheckWriters, AsBefore, Answer
  <2>2. CASE \A o \in Requests : ~Competes(o)
    <3>1. \A o \in Requests : Competes(o)' <=> Competes(o)
      BY <1>7 DEF CheckWriters, Competes, Git
    <3>2. ctl'[r] = "none"
      BY <1>7 DEF CheckWriters, Stage
    <3> QED
      BY <2>2, <3>1, <3>2 DEF Admits
  <2> QED
    BY <2>1, <2>2
<1>8. CASE \/ Intend(r) \/ CreateManifest(r) \/ ProvisionPhysical(r) \/ Advance(r)
           \/ CommitBootstrap(r) \/ IntendWorkspace(r) \/ ProveWorkspace(r)
           \/ RecordReconciliation(r) \/ ConfirmWorkspace(r) \/ PublishStart(r)
  <2>1. ctl' = ctl /\ admitted' = admitted
    BY <1>8 DEF Intend, CreateManifest, ProvisionPhysical, Advance, CommitBootstrap,
                IntendWorkspace, ProveWorkspace, RecordReconciliation, ConfirmWorkspace, PublishStart
  <2>2. place[r] \in Inner
    BY <1>8, AdvancesTable
       DEF Intend, CreateManifest, ProvisionPhysical, Advance, CommitBootstrap, IntendWorkspace,
           ProveWorkspace, RecordReconciliation, ConfirmWorkspace, PublishStart, Inner, Launching,
           Bootstrapped
  <2> QED
    BY <1>2, <2>1, <2>2
<1>9. CASE Launch(r)
  <2>1. place[r] \in Inner /\ admitted' = admitted
    BY <1>9 DEF Launch, Inner, Launching
  <2>2. ctl'[r] \in {ctl[r], "live"}
    BY <1>1, <1>9 DEF Launch
  <2> QED
    BY <1>1, <2>1, <2>2 DEF StartsOn
<1>10. CASE Discard(r)
  <2>1. place[r] \in Inner /\ admitted' \subseteq admitted
    BY <1>10, MarksTable DEF Discard, Inner
  <2>2. r \in admitted' => ctl'[r] = "stuck"
    BY <1>1, <1>10 DEF Discard
  <2> QED
    BY <2>1, <2>2 DEF StartsOn
<1>11. CASE GrantWriter(r)
  <2>1. /\ place[r] = "started" /\ ctl[r] \in {"live", "resumed"} /\ ctl' = ctl
        /\ r \in Range(lock) /\ lock \in Seq(Requests)
    BY <1>11 DEF GrantWriter, Stage, LockInv
  <2>2. CASE UNCHANGED <<writes, admitted>>
    <3>1. Competes(r)' <=> Competes(r)
      BY <1>11, <2>2 DEF GrantWriter, Competes, Git
    <3> QED
      BY <1>1, <1>11, <2>1, <2>2, <3>1 DEF GrantWriter, AsBefore
  <2>3. CASE ~UNCHANGED <<writes, admitted>>
    <3>1. lock # <<>>
      BY <2>1, NotAlone
    <3> QED
      BY <1>11, <2>1, <2>3, <3>1 DEF GrantWriter, Upgrades
  <2> QED
    BY <2>2, <2>3
<1>12. CASE AskWriter(r) \/ Touch(r) \/ Cleanup(r)
  <2>1. UNCHANGED <<ctl, admitted, place, ws, team, writes, mode>>
    BY <1>12 DEF AskWriter, Touch, Cleanup
  <2> QED
    BY <1>1, <2>1 DEF AsBefore, Competes, Git
<1>13. CASE TeamEnds(r)
  BY <1>1, <1>13 DEF TeamEnds, AsBefore, Competes, Git, RequestTypes
<1>14. CASE ResumeStart(r)
  BY <1>1, <1>14 DEF ResumeStart, AsBefore
<1> QED
  BY <1>3, <1>4, <1>5, <1>6, <1>7, <1>8, <1>9, <1>10, <1>11, <1>12, <1>13, <1>14
     DEF Step, Environment

(* A writer of a directory competes with no other. *)
LEMMA StepsKeepWriters ==
    ASSUME RequestTypes, RequestTypes', LockInv, WriterInv, NEW r \in Requests, Stage(r),
           OthersStand(r), Step(r) \/ Environment(r)
    PROVE  WriterInv'
<1>1. /\ AsBefore(r) \/ StartsOn(r) \/ Admits(r) \/ Upgrades(r)
      /\ r \in admitted' => ctl'[r] \notin {"disposed", "cold"}
  BY WriterShapes
<1>2. \A o \in Requests \ {r} : /\ place'[o] = place[o] /\ ctl'[o] = ctl[o]
                                /\ o \in admitted' <=> o \in admitted
  BY DEF OthersStand
<1>3. \A o \in Requests \ {r} : Competes(o)' <=> Competes(o)
  BY DEF OthersStand, Competes, Git
<1>4. admitted \subseteq Requests /\ admitted' \subseteq Requests
  BY DEF RequestTypes
<1>5. \A b \in admitted' : ctl'[b] \notin {"disposed", "cold"}
  BY <1>1, <1>2, <1>4 DEF WriterInv
<1>6. CASE Admits(r)
  BY <1>4, <1>5, <1>6 DEF Admits, WriterInv, WritersNeverShare
<1>7. CASE AsBefore(r)
  <2>1. \A a \in admitted' : /\ a \in admitted /\ (Competes(a)' => Competes(a))
                             /\ place'[a] \in Inner => place[a] \in Inner
    BY <1>2, <1>3, <1>4, <1>7 DEF AsBefore
  <2> QED
    BY <1>5, <2>1 DEF WriterInv, WritersNeverShare
<1>8. CASE StartsOn(r)
  <2>1. \A a \in admitted' : a \in admitted /\ (a # r => (Competes(a)' => Competes(a)))
    BY <1>3, <1>4, <1>8 DEF StartsOn
  <2>2. r \in admitted => \A b \in admitted \ {r} : ~Competes(b) /\ place[b] \notin Inner
    BY <1>8 DEF StartsOn, WriterInv, LockInv
  <2>3. CASE r \in admitted'
    <3>1. \A b \in admitted' \ {r} : ~Competes(b)' /\ place'[b] \notin Inner
      BY <1>2, <1>4, <2>1, <2>2, <2>3
    <3> QED
      BY <1>5, <3>1 DEF WriterInv, WritersNeverShare
  <2>4. CASE r \notin admitted'
    <3>1. \A a \in admitted' : /\ a \in admitted /\ (Competes(a)' => Competes(a))
                               /\ place'[a] = place[a]
      BY <1>2, <1>4, <2>1, <2>4
    <3> QED
      BY <1>5, <3>1 DEF WriterInv, WritersNeverShare
  <2> QED
    BY <2>3, <2>4
<1>9. CASE Upgrades(r)
  <2>1. \A b \in admitted' \ {r} : ~Competes(b)'
    BY <1>3, <1>4, <1>9 DEF Upgrades
  <2>2. \A a \in admitted' : place'[a] \notin Inner
    <3> SUFFICES ASSUME NEW a \in admitted', place[a] \in Inner PROVE FALSE
      BY <1>9 DEF Upgrades
    <3>1. a # r
      BY <1>9 DEF Upgrades, Inner, Launching, Bootstrapped
    <3> QED
      BY <1>2, <1>4, <1>9, <3>1 DEF Upgrades, LockInv
  <2> QED
    BY <1>5, <2>1, <2>2 DEF WriterInv, WritersNeverShare
<1> QED
  BY <1>1, <1>6, <1>7, <1>8, <1>9

----
(* All of it *)

StartInv ==
    RequestTypes /\ StageInv /\ GateInv /\ LockInv /\ FollowInv /\ WriterInv

(* Before the first request the invariant holds. *)
LEMMA StartInitially ==
    ASSUME StartInit
    PROVE  StartInv
<1> USE DEF StartInit
<1>1. RequestTypes
  BY StartAssumption DEF RequestTypes, Places, Phases, Readers, Git
<1>2. StageInv
  BY DEF StageInv, Stage, ManifestStage, Inner, Launching, Bootstrapped, Git
<1>3. /\ <<>> \in Seq(Requests) /\ Range(<<>>) = {} /\ IsInjective(<<>>)
  BY DEF Range, IsInjective
<1>4. GateInv
  BY <1>3, StartAssumption DEF GateInv, Inner, Launching, Bootstrapped
<1>5. LockInv
  BY <1>3 DEF LockInv
<1>6. Candidates = {} /\ "none" \notin Followups /\ \A f \in Followups : f \in Requests
  BY StartAssumption DEF Candidates, Requests
<1>7. FollowInv
  BY <1>6 DEF FollowInv, Inner, Launching, Bootstrapped
<1>8. WriterInv
  BY DEF WriterInv, WritersNeverShare
<1> QED
  BY <1>1, <1>2, <1>4, <1>5, <1>7, <1>8 DEF StartInv

(* A restart empties the queues and the admission. *)
LEMMA RestartKeepsStart ==
    ASSUME StartInv, StartRestart
    PROVE  StartInv'
<1> USE DEF StartRestart
<1>1. RequestTypes' /\ StageInv'
  BY RestartKeepsStage DEF StartInv
<1>2. /\ <<>> \in Seq(Requests) /\ Range(<<>>) = {} /\ IsInjective(<<>>)
  BY DEF Range, IsInjective
<1>3. \A r \in Requests : /\ place'[r] \in Terminal \cup {"idle"}
                          /\ place'[r] \notin {"lock", "intent"} \cup Inner
                          /\ upgrade'[r] # "queued"
  BY DEF Terminal, Inner, Launching, Bootstrapped, StartInv, RequestTypes
<1>4. GateInv'
  BY <1>2, <1>3, StartAssumption DEF GateInv
<1>5. LockInv'
  BY <1>2, <1>3 DEF LockInv
<1>6. Candidates' = Candidates /\ \A f \in Followups : f \in Requests
  BY DEF Candidates, Requests
<1>7. FollowInv'
  BY <1>3, <1>6 DEF FollowInv, StartInv, Inner, Launching
<1>8. WriterInv'
  BY DEF WriterInv, WritersNeverShare
<1> QED
  BY <1>1, <1>4, <1>5, <1>7, <1>8 DEF StartInv

(* Every step of every request keeps the invariant. *)
LEMMA StartInductive ==
    ASSUME StartInv, [StartNext]_startVars
    PROVE  StartInv'
<1>1. CASE UNCHANGED startVars
  BY <1>1 DEF startVars, resources, journals, StartInv, RequestTypes, StageInv, Stage,
              ManifestStage, GateInv, LockInv, FollowInv, WriterInv, WritersNeverShare, Competes,
              Candidates, Git
<1>2. CASE StartRestart
  BY <1>2, RestartKeepsStart
<1>3. ASSUME NEW r \in Requests, Step(r) \/ Environment(r) PROVE StartInv'
  <2>1. RequestTypes' /\ OthersStand(r)
    BY <1>3, StepsKeepTypes DEF StartInv
  <2>2. Stage(r) /\ (r \in Git => ManifestStage(r)) /\ \A o \in Requests : Stage(o)
    BY DEF StartInv, StageInv, Git
  <2>3. StageInv'
    <3>1. Stage(r)' /\ (r \in Git => ManifestStage(r)')
      BY <1>3, <2>2, StepsKeepStage, StepsKeepManifest DEF StartInv
    <3>2. \A o \in Requests \ {r} : Stage(o)'
      BY <2>1, <2>2 DEF OthersStand, Stage
    <3>3. \A o \in Git \ {r} : ManifestStage(o)'
      BY <2>1 DEF OthersStand, ManifestStage, StartInv, StageInv, Git
    <3>4. Git' = Git /\ \A o \in Git : o \in Requests
      BY <2>1 DEF Git, OthersStand
    <3> QED
      BY <3>1, <3>2, <3>3, <3>4 DEF StageInv
  <2>4. Submits(r) \/ Queues(r) \/ GoesOn(r) \/ Answers(r) \/ Asks(r) \/ Granted(r) \/ Rests
    BY <1>3, StepShapes DEF StartInv
  <2>5. GateInv'
    BY <2>4, StepsKeepGate DEF StartInv
  <2>6. LockInv'
    BY <2>1, <2>2, <2>4, StepsKeepLock DEF StartInv, Stage
  <2>7. FollowInv'
    BY <1>3, <2>1, <2>2, StepsKeepFollowup DEF StartInv
  <2>8. WriterInv'
    BY <1>3, <2>1, <2>2, StepsKeepWriters DEF StartInv
  <2> QED
    BY <2>1, <2>3, <2>5, <2>6, <2>7, <2>8 DEF StartInv
<1> QED
  BY <1>1, <1>2, <1>3 DEF StartNext

(* The invariant of the start saga, its gate, its locks and its manifests holds in every state. *)
THEOREM StartInvariant == StartSpec => []StartInv
<1>1. StartInit => StartInv
  BY StartInitially
<1>2. StartInv /\ [StartNext]_startVars => StartInv'
  BY StartInductive
<1> QED
  BY <1>1, <1>2, PTL DEF StartSpec

(* ManifestCoversResidue: whatever a start leaves behind is named by a manifest that is open. *)
THEOREM ManifestCovers == StartSpec => []ManifestCoversResidue
<1>1. StartInv => ManifestCoversResidue
  BY DEF StartInv, StageInv, ManifestStage, ManifestCoversResidue
<1> QED
  BY <1>1, StartInvariant, PTL

(* WritersNeverShare: no two admitted writers work in one project directory. *)
THEOREM WritersAreAlone == StartSpec => []WritersNeverShare
<1>1. StartInv => WritersNeverShare
  BY DEF StartInv, WriterInv
<1> QED
  BY <1>1, StartInvariant, PTL

(* The invariant says the types of the module. *)
LEMMA StartTypes ==
    ASSUME StartInv
    PROVE  StartTypeOK
<1>1. place \in [Requests -> Terminal \cup DOMAIN Advances \cup DOMAIN Marks \cup
       {"idle", "gate", "lock", "intent", "manifest", "tree", "launch", "bootstrap",
        "workspace", "prove", "unproven", "confirm", "publish"}]
  <2>1. Places \subseteq Terminal \cup DOMAIN Advances \cup DOMAIN Marks \cup
       {"idle", "gate", "lock", "intent", "manifest", "tree", "launch", "bootstrap",
        "workspace", "prove", "unproven", "confirm", "publish"}
    BY AdvancesTable, MarksTable DEF Places, Inner, Launching, Bootstrapped
  <2> QED
    BY <2>1 DEF StartInv, RequestTypes
<1>2. Range(lock) \subseteq {r \in Requests : \/ upgrade[r] = "queued"
                                             \/ place[r] \notin Terminal \cup {"idle", "gate"}}
  <2>1. Range(lock) \subseteq Requests
    BY DEF StartInv, LockInv, Range
  <2>2. \A to \in {"lock"} \cup Inner : to \notin Terminal \cup {"idle", "gate"}
    BY DEF Terminal, Inner, Launching, Bootstrapped
  <2> QED
    BY <2>1, <2>2 DEF StartInv, LockInv
<1>3. /\ IsInjective(lock)
      /\ \A p \in Homes : /\ IsInjective(gate[p])
                          /\ Range(gate[p]) = {r \in Requests : /\ ParentOf[r] = p
                                                 /\ place[r] \notin Terminal \cup {"idle"}}
  BY DEF StartInv, LockInv, GateInv
<1>4. RequestTypes
  BY DEF StartInv
<1> QED
  BY <1>1, <1>2, <1>3, <1>4 DEF StartTypeOK, RequestTypes

(* The invariant says that one follow-up Team is started at most. *)
LEMMA OneTeam ==
    ASSUME StartInv
    PROVE  OneFollowup
<1>1. Cardinality(Candidates) <= 1
  <2>1. CASE Candidates = {}
    BY <2>1, FS_EmptySet
  <2>2. ASSUME NEW f \in Candidates PROVE Cardinality(Candidates) <= 1
    <3>1. Candidates = {f}
      BY <2>2 DEF StartInv, FollowInv
    <3> QED
      BY <3>1, FS_Singleton
  <2> QED
    BY <2>1, <2>2
<1> QED
  BY <1>1 DEF OneFollowup, StartInv, FollowInv

(* StartedIsRunnable: only the last step of a start reports a Team. *)
LEMMA StartedRuns ==
    ASSUME StartInv, StartInv', [StartNext]_startVars
    PROVE  \A r \in Requests : place[r] # "started" /\ place'[r] = "started"
              => /\ team[r] = "open" /\ ws[r] = "ready" /\ ctl[r] = "live"
                 /\ r \in Git => phase[r] = "completed"
                 /\ r \in Followups => intent' = r
<1> SUFFICES ASSUME NEW r \in Requests, place[r] # "started", place'[r] = "started"
             PROVE  /\ team[r] = "open" /\ ws[r] = "ready" /\ ctl[r] = "live"
                    /\ r \in Git => phase[r] = "completed"
                    /\ r \in Followups => intent' = r
  OBVIOUS
<1>1. Stage(r) /\ (r \in Git => ManifestStage(r)) /\ RequestTypes
  BY DEF StartInv, StageInv
<1>2. ASSUME NEW o \in Requests, Step(o) \/ Environment(o) PROVE o = r /\ PublishStart(r)
  <2> USE DEF GoOn, resources, journals, RequestTypes
  <2>1. o = r
    BY <1>1, <1>2, StepsKeepTypes DEF OthersStand
  <2>2. CASE \/ SubmitRequest(r) \/ AdmitStart(r) \/ AdmitFollowup(r) \/ Reconcile(r)
             \/ CheckWriters(r) \/ Intend(r) \/ CreateManifest(r) \/ ProvisionPhysical(r)
    BY <1>1, <2>2 DEF SubmitRequest, AdmitStart, AdmitFollowup, Reconcile, CheckWriters, Intend,
                      CreateManifest, ProvisionPhysical, Answer, Recorded
  <2>3. CASE Advance(r)
    BY <1>1, <2>3, AdvancesTable DEF Advance, Exit, Answer
  <2>4. CASE \/ Launch(r) \/ CommitBootstrap(r) \/ IntendWorkspace(r) \/ ProveWorkspace(r)
             \/ RecordReconciliation(r) \/ ConfirmWorkspace(r)
    BY <1>1, <2>4 DEF Launch, CommitBootstrap, IntendWorkspace, ProveWorkspace,
                      RecordReconciliation, ConfirmWorkspace, Commit, Answer, Recorded
  <2>5. CASE Discard(r) \/ GrantWriter(r)
    BY <1>1, <2>5 DEF Discard, GrantWriter, Answer
  <2>6. CASE TeamEnds(r) \/ ResumeStart(r) \/ AskWriter(r) \/ Touch(r) \/ Cleanup(r)
    BY <1>1, <2>6 DEF TeamEnds, ResumeStart, AskWriter, Touch, Cleanup
  <2> QED
    BY <1>2, <2>1, <2>2, <2>3, <2>4, <2>5, <2>6 DEF Step, Environment
<1>3. PublishStart(r)
  <2>1. CASE StartRestart
    BY <1>1, <2>1 DEF StartRestart, Terminal
  <2>2. CASE UNCHANGED startVars
    BY <2>2 DEF startVars
  <2> QED
    BY <1>2, <2>1, <2>2 DEF StartNext
<1>4. r \in Followups => intent' = r
  BY <1>1, <1>3, StartAssumption DEF PublishStart, GoOn, RequestTypes
<1>5. place[r] = "publish"
  BY <1>3 DEF PublishStart
<1> QED
  BY <1>1, <1>4, <1>5 DEF Stage, ManifestStage, Inner, Launching, Bootstrapped

(* CleanupSparesControllers: a worktree is only removed when it is clean and nobody runs there. *)
LEMMA CleanupSpares ==
    ASSUME StartInv, [StartNext]_startVars
    PROVE  \A r \in Git : tree[r] \in {"clean", "dirty"} /\ tree'[r] \in {"branch", "none"}
              => tree[r] = "clean" /\ ctl[r] \notin {"live", "stuck"} /\ place[r] # "started"
<1> SUFFICES ASSUME NEW r \in Git, tree[r] \in {"clean", "dirty"}, tree'[r] \in {"branch", "none"}
             PROVE  tree[r] = "clean" /\ ctl[r] \notin {"live", "stuck"} /\ place[r] # "started"
  OBVIOUS
<1>1. r \in Requests /\ Stage(r) /\ ManifestStage(r) /\ RequestTypes
  BY DEF StartInv, StageInv, Git
<1>2. ASSUME NEW o \in Requests, Step(o) \/ Environment(o) PROVE Cleanup(r)
  <2> USE DEF resources, journals, RequestTypes
  <2>1. o = r
    BY <1>1, <1>2, StepsKeepTypes DEF OthersStand
  <2>2. CASE tree' = tree
    BY <2>2
  <2>3. CASE ProvisionPhysical(r)
    BY <1>1, <2>3 DEF ProvisionPhysical, Stage, Inner
  <2>4. CASE Touch(r)
    BY <1>1, <2>4 DEF Touch
  <2>5. Cleanup(r) \/ ProvisionPhysical(r) \/ Touch(r) \/ tree' = tree
    BY <1>2, <2>1 DEF Step, Environment, SubmitRequest, AdmitStart, AdmitFollowup, Reconcile,
         CheckWriters, Intend, CreateManifest, Advance, Launch, CommitBootstrap, IntendWorkspace,
         ProveWorkspace, RecordReconciliation, ConfirmWorkspace, PublishStart, Discard,
         GrantWriter, TeamEnds, ResumeStart, AskWriter
  <2> QED
    BY <2>2, <2>3, <2>4, <2>5
<1>3. Cleanup(r)
  BY <1>2 DEF StartNext, StartRestart, startVars, resources
<1> QED
  BY <1>1, <1>3 DEF Cleanup, GitProof, ManifestStage, Protected, CleanupEligiblePhase

(* StartsAreTrue: a request makes at most one Team, which it reports only when it can run, and
   clearing up after it never takes a Team's ground away. *)
THEOREM StartsKeepTrue == StartSpec => StartsAreTrue
<1>1. StartInv => StartTypeOK /\ OneFollowup
  BY StartTypes, OneTeam
<1>2. StartInv /\ StartInv' /\ [StartNext]_startVars
        => [\A r \in Requests : place[r] # "started" /\ place'[r] = "started"
              => /\ team[r] = "open" /\ ws[r] = "ready" /\ ctl[r] = "live"
                 /\ r \in Git => phase[r] = "completed"
                 /\ r \in Followups => intent' = r]_startVars
  BY StartedRuns
<1>3. StartInv /\ [StartNext]_startVars
        => [\A r \in Git : tree[r] \in {"clean", "dirty"} /\ tree'[r] \in {"branch", "none"}
              => tree[r] = "clean" /\ ctl[r] \notin {"live", "stuck"} /\ place[r] # "started"]_startVars
  BY CleanupSpares
<1> QED
  BY <1>1, <1>2, <1>3, StartInvariant, PTL
     DEF StartSpec, StartsAreTrue, StartedIsRunnable, CleanupSparesControllers

(* The journal of a Session *)

(* Where an operation is: before any log, in the record's queue, in the native log. *)
InRecord == {"chained", "put"}
InNative == {"flush", "list", "write", "prove"}
BeforeLog == {"idle", "queued", "commit"}

(* A log goes on from what was read with index facts only. *)
Extends(seq, read) ==
  /\ Len(read) <= Len(seq)
  /\ \A j \in 1..Len(seq) : IF j <= Len(read) THEN seq[j] = read[j] ELSE seq[j] \in IndexOps

JournalTypes ==
  /\ live \in Seq(Ops) /\ disk \in Seq(Ops) /\ record \in Seq(Ops)
  /\ listener \in BOOLEAN /\ storage \in BOOLEAN /\ poisoned \in BOOLEAN /\ disposed \in BOOLEAN
  /\ repo \in {"closed", "open"} /\ epoch \in Nat /\ bound \in 0..epoch
  /\ pc \in [Ops -> {"idle"} \cup Waiting \cup Settled]
  /\ basis \in [TeamOps -> Seq(Ops)] /\ span \in [Ops -> Nat \X Nat]
  /\ queue \in Seq(TeamOps) /\ chain \in Seq(Ops \X Nat)
  /\ journalFaults \in 0..MaxJournalFaults /\ journalCrashes \in 0..MaxJournalCrashes /\ closes \in 0..MaxCloses

(* Exactly the waiting transactions are queued, and all but the first wait for their turn. *)
GateInOrder ==
  /\ \A i \in DOMAIN queue : pc[queue[i]] \in Waiting /\ (i # 1 => pc[queue[i]] = "queued")
  /\ \A i, j \in DOMAIN queue : queue[i] = queue[j] => i = j
  /\ \A o \in TeamOps : pc[o] \in Waiting => \E i \in DOMAIN queue : queue[i] = o

(* Exactly the appends in the record's queue are chained, and only the first is written. *)
ChainInOrder ==
  /\ \A i \in DOMAIN chain : pc[chain[i][1]] \in InRecord /\ (i # 1 => pc[chain[i][1]] = "chained")
  /\ \A i, j \in DOMAIN chain : chain[i][1] = chain[j][1] => i = j
  /\ \A o \in Ops : pc[o] \in InRecord => \E i \in DOMAIN chain : chain[i][1] = o

(* The facts are on the side the Session is bound to, and the start is the first. *)
OneSide ==
  /\ repo = "open" => epoch > 0
  /\ bound > 0 => live = <<>>
  /\ chain # <<>> => bound > 0
  /\ live = <<>> \/ record = <<>>
  /\ pc[Bootstrap] \in BeforeLog => live = <<>> /\ record = <<>> /\ chain = <<>>
  /\ \A o \in Ops : o # Bootstrap /\ pc[o] = "commit" => Facts # <<>>

(* What is stored is what was there first; what is not is on its way or closed the journal. *)
StoredIsKept ==
  /\ Len(disk) <= Len(live)
  /\ \A i \in 1..Len(disk) : disk[i] = live[i]
  /\ \A i \in 1..Len(live) : pc[live[i]] \notin BeforeLog \cup InRecord
  /\ \A i \in 1..Len(record) : pc[record[i]] \notin BeforeLog \cup InRecord
  /\ \A o \in Ops : pc[o] \in {"flush", "list"} => \E i \in 1..Len(live) : live[i] = o
  /\ \A o \in Ops : pc[o] \in {"write", "prove"} =>
       /\ span[o][1] <= span[o][2] /\ span[o][2] <= Len(live)
       /\ \E i \in 1..span[o][2] : live[i] = o
  /\ \A o \in Ops : pc[o] = "acked" =>
       (\E i \in 1..Len(disk) : disk[i] = o) \/ (\E i \in 1..Len(record) : record[i] = o)
  /\ \A i \in 1..Len(live) : live[i] \in TeamOps =>
       poisoned \/ (\E j \in 1..Len(disk) : disk[j] = live[i]) \/ pc[live[i]] \in InNative

(* Every transaction is written after what it read. *)
WrittenAfterRead ==
  /\ \A i \in 1..Len(live) : live[i] \in TeamOps => Follows(live, i, basis[live[i]])
  /\ \A i \in 1..Len(record) : record[i] \in TeamOps => Follows(record, i, basis[record[i]])
  /\ \A o \in TeamOps : pc[o] = "commit" => Extends(Facts, basis[o])
  /\ \A o \in TeamOps : pc[o] \in InRecord => Extends(record, basis[o])

JournalInv == JournalTypes /\ GateInOrder /\ ChainInOrder /\ OneSide /\ StoredIsKept /\ WrittenAfterRead

(* What a log holds after an append. *)
LEMMA AppendLog ==
  ASSUME NEW S, NEW seq \in Seq(S), NEW x \in S
  PROVE  /\ Append(seq, x) \in Seq(S) /\ Len(Append(seq, x)) = Len(seq) + 1
         /\ \A i \in 1..Len(seq) : Append(seq, x)[i] = seq[i]
         /\ Append(seq, x)[Len(seq) + 1] = x
         /\ DOMAIN seq = 1..Len(seq) /\ Len(seq) \in Nat
BY AppendProperties, LenProperties

(* What is left of a queue when its head leaves. *)
LEMMA TailLog ==
  ASSUME NEW S, NEW seq \in Seq(S), seq # <<>>
  PROVE  /\ Tail(seq) \in Seq(S) /\ Len(Tail(seq)) = Len(seq) - 1 /\ Len(seq) \in Nat \ {0}
         /\ \A i \in 1..(Len(seq) - 1) : Tail(seq)[i] = seq[i + 1]
         /\ Head(seq) = seq[1] /\ DOMAIN seq = 1..Len(seq) /\ DOMAIN Tail(seq) = 1..(Len(seq) - 1)
<1>1. Len(seq) \in Nat \ {0} /\ DOMAIN seq = 1..Len(seq)
  BY EmptySeq, LenProperties
<1>2. Tail(seq) \in Seq(S) /\ Len(Tail(seq)) = Len(seq) - 1
  BY HeadTailProperties
<1>3. \A i \in 1..(Len(seq) - 1) : Tail(seq)[i] = seq[i + 1]
  BY HeadTailProperties, <1>1, <1>2
<1> QED
  BY <1>1, <1>2, <1>3, LenProperties, HeadTailProperties

(* A transaction that extends what it read is written after it. *)
LEMMA ExtendsFollows ==
  ASSUME NEW seq \in Seq(Ops), NEW read \in Seq(Ops), NEW x \in Ops, Extends(seq, read)
  PROVE  Follows(Append(seq, x), Len(seq) + 1, read)
<1>1. Len(read) \in Nat /\ Len(seq) \in Nat
  BY LenProperties
<1> QED
  BY <1>1, AppendLog DEF Extends, Follows

(* An index fact leaves a transaction after what it read. *)
LEMMA ExtendsIndex ==
  ASSUME NEW seq \in Seq(Ops), NEW read \in Seq(Ops), NEW x \in Ops, Extends(seq, read), x \in IndexOps
  PROVE  Extends(Append(seq, x), read)
<1>1. Len(read) \in Nat /\ Len(seq) \in Nat
  BY LenProperties
<1>2. \A j \in 1..(Len(seq) + 1) : j = Len(seq) + 1 \/ j \in 1..Len(seq)
  BY <1>1
<1>3. \A j \in 1..(Len(seq) + 1) :
         IF j <= Len(read) THEN Append(seq, x)[j] = read[j] ELSE Append(seq, x)[j] \in IndexOps
  BY <1>1, <1>2, AppendLog DEF Extends
<1> QED
  BY <1>1, <1>3, AppendLog DEF Extends

(* Whatever is appended, the earlier transactions stay where they were. *)
LEMMA FollowsStays ==
  ASSUME NEW seq, NEW more, NEW i \in Nat, NEW read,
         \A j \in 1..(i - 1) : more[j] = seq[j], Follows(seq, i, read)
  PROVE  Follows(more, i, read)
BY DEF Follows

(* Who reads a log extends it. *)
LEMMA ReaderExtends ==
  ASSUME NEW seq \in Seq(Ops)
  PROVE  Extends(seq, seq)
<1>1. Len(seq) \in Nat
  BY LenProperties
<1> QED
  BY <1>1 DEF Extends

(* One step of a commit, whichever way it goes. *)
Moved(o, w) ==
  /\ pc[o] \in (Waiting \ {"queued"}) /\ pc' = [pc EXCEPT ![o] = w]
  /\ \/ w \in Waiting \ {"queued", "commit"} /\ queue' = queue /\ poisoned' = poisoned
     \/ w = "acked" /\ LeaveGate(o) /\ poisoned' = poisoned
     \/ w = "failed" /\ LeaveGate(o) /\ poisoned' = (poisoned \/ o \in TeamOps)
  /\ UNCHANGED <<basis, bound, repo, epoch>>

Chained(o, w) ==
  \/ w = "chained" /\ pc[o] = "commit" /\ bound > 0 /\ chain' = Append(chain, <<o, bound>>)
  \/ w = "put" /\ pc[o] = "chained" /\ chain # <<>> /\ Head(chain)[1] = o /\ chain' = chain
  \/ w \notin InRecord /\ pc[o] \in InRecord /\ chain # <<>> /\ Head(chain)[1] = o /\ chain' = Tail(chain)
  \/ w \notin InRecord /\ pc[o] \notin InRecord /\ chain' = chain

Logged(o, w) ==
  \/ /\ pc[o] = "commit" /\ bound = 0 /\ live' = Append(live, o) /\ w = "flush"
     /\ UNCHANGED <<disk, record, span>>
  \/ /\ pc[o] = "put" /\ record' = Append(record, o) /\ w \in {"acked", "failed"}
     /\ UNCHANGED <<live, disk, span>>
  \/ /\ pc[o] \in {"commit", "chained", "put"} /\ w \in {"chained", "put", "failed"}
     /\ UNCHANGED <<live, disk, record, span>>
  \/ /\ pc[o] = "flush" /\ w \in {"acked", "failed"} /\ disk' \in {disk, live} /\ (w = "acked" => disk' = live)
     /\ UNCHANGED <<live, record, span>>
  \/ /\ pc[o] = "flush" /\ w = "list" /\ UNCHANGED <<live, disk, record, span>>
  \/ /\ pc[o] = "list" /\ w \in {"write", "prove"} /\ span' = [span EXCEPT ![o] = <<Len(disk), Len(live)>>]
     /\ UNCHANGED <<live, disk, record>>
  \/ /\ pc[o] = "write" /\ UNCHANGED <<live, record, span>>
     /\ \/ w = "failed" /\ disk' = disk
        \/ w \in {"prove", "failed"} /\ Len(disk) = span[o][1] /\ disk' = SubSeq(live, 1, span[o][2])
  \/ /\ pc[o] = "prove" /\ w \in {"acked", "failed"} /\ (w = "acked" => Len(disk) = span[o][2])
     /\ UNCHANGED <<live, disk, record, span>>
  \/ /\ pc[o] = "list" /\ w = "failed" /\ UNCHANGED <<live, disk, record, span>>

(* The append that is written is the head of the record's queue. *)
LEMMA HeadIsChained ==
  ASSUME JournalTypes, ChainInOrder, NEW o \in Ops, pc[o] = "put"
  PROVE  chain # <<>> /\ Head(chain)[1] = o
<1>1. PICK i \in DOMAIN chain : chain[i][1] = o
  BY DEF ChainInOrder, InRecord
<1>2. chain # <<>>
  BY <1>1, LenProperties, EmptySeq DEF JournalTypes
<1>3. i = 1
  BY <1>1 DEF ChainInOrder
<1> QED
  BY <1>1, <1>2, <1>3, TailLog DEF JournalTypes

(* One step of a commit moves one operation and touches at most one log. *)
LEMMA WriteShape ==
  ASSUME JournalTypes, ChainInOrder, NEW o \in Ops, Write(o)
  PROVE  /\ UNCHANGED hostVars
         /\ journalFaults' \in 0..MaxJournalFaults
         /\ \E w : Moved(o, w) /\ Chained(o, w) /\ Logged(o, w)
<1>0. UNCHANGED hostVars
  BY DEF Write, AppendFact, Materialize, PutRecord, Flush, ListStored, WriteTail, ProveStored
<1> DEFINE To(w) == Moved(o, w) /\ Chained(o, w) /\ Logged(o, w)
<1>f. JournalFault => journalFaults' \in 0..MaxJournalFaults
  BY JournalAssumption DEF JournalTypes, JournalFault
<1>g. UNCHANGED journalFaults => journalFaults' \in 0..MaxJournalFaults
  BY DEF JournalTypes
<1>1. CASE AppendFact(o)
  <2>1. To("failed") \/ To("flush") \/ To("chained")
    BY <1>0, <1>1 DEF AppendFact, Moved, Chained, Logged, InRecord, Waiting, hostVars, Fail, Goto
  <2>2. UNCHANGED journalFaults
    BY <1>1 DEF AppendFact
  <2> QED
    BY <1>0, <1>g, <2>1, <2>2
<1>2. CASE Materialize(o)
  <2>0. chain # <<>>
    <3>1. PICK i \in DOMAIN chain : chain[i][1] = o
      BY <1>2 DEF ChainInOrder, InRecord, Materialize
    <3> QED
      BY <3>1, LenProperties, EmptySeq DEF JournalTypes
  <2>1. To("failed") \/ To("put")
    BY <1>0, <1>2, <2>0 DEF Materialize, Moved, Chained, Logged, InRecord, Waiting, hostVars, Fail, Goto
  <2>2. UNCHANGED journalFaults \/ JournalFault
    BY <1>2 DEF Materialize
  <2> QED
    BY <1>0, <1>f, <1>g, <2>1, <2>2
<1>3. CASE PutRecord(o)
  <2>0. chain # <<>> /\ Head(chain)[1] = o
    BY <1>3, HeadIsChained DEF PutRecord
  <2>1. To("failed") \/ To("acked")
    BY <1>0, <1>3, <2>0 DEF PutRecord, Moved, Chained, Logged, InRecord, Waiting, hostVars, Fail, Acknowledge
  <2>2. UNCHANGED journalFaults \/ JournalFault
    BY <1>3 DEF PutRecord
  <2> QED
    BY <1>0, <1>f, <1>g, <2>1, <2>2
<1>4. CASE Flush(o)
  <2>1. To("failed") \/ To("acked") \/ To("list")
    BY <1>0, <1>4 DEF Flush, Moved, Chained, Logged, InRecord, Waiting, hostVars, Fail, Acknowledge, Goto
  <2>2. UNCHANGED journalFaults \/ JournalFault
    BY <1>4 DEF Flush
  <2> QED
    BY <1>0, <1>f, <1>g, <2>1, <2>2
<1>5. CASE ListStored(o)
  <2>1. To("failed") \/ To("prove") \/ To("write")
    BY <1>0, <1>5 DEF ListStored, Moved, Chained, Logged, InRecord, Waiting, hostVars, Fail, Goto
  <2>2. UNCHANGED journalFaults \/ JournalFault
    BY <1>5 DEF ListStored
  <2> QED
    BY <1>0, <1>f, <1>g, <2>1, <2>2
<1>6. CASE WriteTail(o)
  <2>1. To("failed") \/ To("prove")
    BY <1>0, <1>6 DEF WriteTail, Moved, Chained, Logged, InRecord, Waiting, hostVars, Fail, Goto
  <2>2. UNCHANGED journalFaults \/ JournalFault
    BY <1>6 DEF WriteTail
  <2> QED
    BY <1>0, <1>f, <1>g, <2>1, <2>2
<1>7. CASE ProveStored(o)
  <2>1. To("failed") \/ To("acked")
    BY <1>0, <1>7 DEF ProveStored, Moved, Chained, Logged, InRecord, Waiting, hostVars, Fail, Acknowledge
  <2>2. UNCHANGED journalFaults \/ JournalFault
    BY <1>7 DEF ProveStored
  <2> QED
    BY <1>0, <1>f, <1>g, <2>1, <2>2
<1> QED
  BY <1>1, <1>2, <1>3, <1>4, <1>5, <1>6, <1>7 DEF Write

(* The head of the gate is the one transaction that runs. *)
LEMMA HeadRuns ==
  ASSUME JournalTypes, GateInOrder, NEW o \in TeamOps, pc[o] \in Waiting \ {"queued"}
  PROVE  queue # <<>> /\ Head(queue) = o
<1>1. PICK i \in DOMAIN queue : queue[i] = o
  BY DEF GateInOrder
<1>2. queue # <<>>
  BY <1>1, LenProperties, EmptySeq DEF JournalTypes
<1>3. i = 1
  BY <1>1 DEF GateInOrder
<1> QED
  BY <1>1, <1>2, <1>3, TailLog DEF JournalTypes

(* A step of a commit keeps the types. *)
LEMMA WriteKeepsTypes ==
  ASSUME JournalTypes, GateInOrder, ChainInOrder, StoredIsKept, NEW o \in Ops, Write(o)
  PROVE  JournalTypes'
<1>1. UNCHANGED hostVars /\ journalFaults' \in 0..MaxJournalFaults
  BY WriteShape
<1>2. PICK w : Moved(o, w) /\ Chained(o, w) /\ Logged(o, w)
  BY WriteShape
<1>3. live' \in Seq(Ops) /\ record' \in Seq(Ops)
  <2>1. Append(live, o) \in Seq(Ops) /\ Append(record, o) \in Seq(Ops) /\ live \in Seq(Ops) /\ record \in Seq(Ops)
    BY AppendLog DEF JournalTypes
  <2>2. live' \in {live, Append(live, o)} /\ record' \in {record, Append(record, o)}
    BY <1>2 DEF Logged
  <2> QED
    BY <2>1, <2>2
<1>4. span' \in [Ops -> Nat \X Nat]
  <2>1. <<Len(disk), Len(live)>> \in Nat \X Nat
    BY LenProperties DEF JournalTypes
  <2>2. span' = span \/ span' = [span EXCEPT ![o] = <<Len(disk), Len(live)>>]
    BY <1>2 DEF Logged
  <2> QED
    BY <2>1, <2>2 DEF JournalTypes
<1>5. disk' \in Seq(Ops)
  <2>1. pc[o] = "write" => SubSeq(live, 1, span[o][2]) \in Seq(Ops)
    <3>1. span[o][2] \in Nat /\ Len(live) \in Nat
      BY LenProperties DEF JournalTypes
    <3>2. pc[o] = "write" => \A i \in 1..span[o][2] : live[i] \in Ops
      <4>1. pc[o] = "write" => span[o][2] <= Len(live)
        BY DEF StoredIsKept
      <4> QED
        BY <3>1, <4>1, ElementOfSeq DEF JournalTypes
    <3> QED
      BY <3>1, <3>2, SubSeqProperties DEF JournalTypes, StoredIsKept
  <2> QED
    BY <1>2, <2>1 DEF Logged, JournalTypes
<1>6. chain' \in Seq(Ops \X Nat)
  <2>1. <<o, bound>> \in Ops \X Nat
    BY DEF JournalTypes
  <2>2. Append(chain, <<o, bound>>) \in Seq(Ops \X Nat)
    BY <2>1, AppendLog DEF JournalTypes
  <2>3. chain # <<>> => Tail(chain) \in Seq(Ops \X Nat)
    BY TailLog DEF JournalTypes
  <2>4. chain' = chain \/ chain' = Append(chain, <<o, bound>>) \/ (chain # <<>> /\ chain' = Tail(chain))
    BY <1>2 DEF Chained
  <2> QED
    BY <2>2, <2>3, <2>4 DEF JournalTypes
<1>7. queue' \in Seq(TeamOps)
  <2>1. o \in TeamOps => queue # <<>>
    BY <1>2, HeadRuns DEF Moved
  <2>2. queue # <<>> => Tail(queue) \in Seq(TeamOps)
    BY TailLog DEF JournalTypes
  <2>3. queue' = queue \/ (o \in TeamOps /\ queue' = Tail(queue))
    BY <1>2 DEF Moved, LeaveGate
  <2> QED
    BY <2>1, <2>2, <2>3 DEF JournalTypes
<1>8. pc' \in [Ops -> {"idle"} \cup Waiting \cup Settled]
  BY <1>2 DEF Moved, JournalTypes, Settled
<1>9. poisoned' \in BOOLEAN
  <2>1. (o \in TeamOps) \in BOOLEAN
    OBVIOUS
  <2> QED
    BY <1>2, <2>1, Zenon DEF Moved, JournalTypes
<1> QED
  BY <1>1, <1>2, <1>3, <1>4, <1>5, <1>6, <1>7, <1>8, <1>9 DEF JournalTypes, hostVars, Moved

(* A step of a commit keeps the gate in order. *)
LEMMA WriteKeepsGate ==
  ASSUME JournalTypes, GateInOrder, ChainInOrder, NEW o \in Ops, Write(o)
  PROVE  GateInOrder'
<1>1. PICK w : Moved(o, w) /\ Chained(o, w) /\ Logged(o, w)
  BY WriteShape
<1>2. \A p \in Ops : pc'[p] = IF p = o THEN w ELSE pc[p]
  BY <1>1 DEF Moved, JournalTypes
<1>3. \A i \in DOMAIN queue : queue[i] \in TeamOps /\ queue[i] \in Ops
  BY ElementOfSeq, LenProperties DEF JournalTypes, Ops
<1>4. o \in TeamOps => queue # <<>> /\ Head(queue) = o
  BY <1>1, HeadRuns DEF Moved
<1>5. CASE w \in Waiting \ {"queued", "commit"}
  <2>1. queue' = queue
    BY <1>1, <1>5 DEF Moved, Waiting
  <2>2. \A i \in DOMAIN queue : queue[i] = o => i = 1
    BY <1>1, <1>3 DEF GateInOrder, Moved
  <2> QED
    BY <1>1, <1>2, <1>3, <1>5, <2>1, <2>2 DEF GateInOrder, Moved, Ops
<1>6. CASE w \in {"acked", "failed"} /\ o \in TeamOps
  <2>1. queue' = Tail(queue)
    BY <1>1, <1>6 DEF Moved, LeaveGate, Waiting
  <2> DEFINE n == Len(queue)
  <2>2. n \in Nat \ {0} /\ DOMAIN queue = 1..n /\ DOMAIN queue' = 1..(n - 1) /\ queue[1] = o
        /\ \A i \in 1..(n - 1) : queue'[i] = queue[i + 1]
    BY <1>4, <1>6, <2>1, TailLog DEF JournalTypes
  <2> HIDE DEF n
  <2>3. \A i \in DOMAIN queue' : pc'[queue'[i]] = "queued"
    <3> TAKE i \in DOMAIN queue'
    <3>1. i + 1 \in DOMAIN queue /\ i + 1 # 1 /\ queue'[i] = queue[i + 1]
      BY <2>2
    <3>2. queue[i + 1] # o
      BY <2>2, <3>1 DEF GateInOrder
    <3> QED
      BY <1>2, <1>3, <3>1, <3>2 DEF GateInOrder
  <2>4. \A i, j \in DOMAIN queue' : queue'[i] = queue'[j] => i = j
    <3> TAKE i, j \in DOMAIN queue'
    <3>1. i + 1 \in DOMAIN queue /\ j + 1 \in DOMAIN queue /\ i \in Nat /\ j \in Nat
      BY <2>2
    <3>2. queue[i + 1] = queue[j + 1] => i + 1 = j + 1
      BY <3>1 DEF GateInOrder
    <3> QED
      BY <2>2, <3>1, <3>2
  <2>5. \A p \in TeamOps : pc'[p] \in Waiting => \E i \in DOMAIN queue' : queue'[i] = p
    <3> SUFFICES ASSUME NEW p \in TeamOps, pc'[p] \in Waiting
                 PROVE  \E i \in DOMAIN queue' : queue'[i] = p
      OBVIOUS
    <3>1. p # o /\ pc[p] \in Waiting
      BY <1>2, <1>6 DEF Ops, Waiting
    <3>2. PICK i \in DOMAIN queue : queue[i] = p
      BY <3>1 DEF GateInOrder
    <3>3. i # 1 /\ i - 1 \in DOMAIN queue'
      BY <2>2, <3>1, <3>2
    <3>4. queue'[i - 1] = p
      BY <2>2, <3>2, <3>3
    <3> QED
      BY <3>3, <3>4
  <2> QED
    BY <2>3, <2>4, <2>5 DEF GateInOrder, Waiting
<1>7. CASE w \in {"acked", "failed"} /\ o \notin TeamOps
  <2>1. queue' = queue
    BY <1>1, <1>7 DEF Moved, LeaveGate, Waiting
  <2> QED
    BY <1>2, <1>3, <1>7, <2>1 DEF GateInOrder, Ops
<1> QED
  BY <1>1, <1>5, <1>6, <1>7 DEF Moved

(* A step of a commit keeps the queue of the record in order. *)
LEMMA WriteKeepsChain ==
  ASSUME JournalTypes, ChainInOrder, NEW o \in Ops, Write(o)
  PROVE  ChainInOrder'
<1>1. PICK w : Moved(o, w) /\ Chained(o, w) /\ Logged(o, w)
  BY WriteShape
<1>2. \A p \in Ops : pc'[p] = IF p = o THEN w ELSE pc[p]
  BY <1>1 DEF Moved, JournalTypes
<1> DEFINE n == Len(chain)
<1>3. n \in Nat /\ DOMAIN chain = 1..n
  BY LenProperties DEF JournalTypes
<1>4. \A i \in DOMAIN chain : chain[i][1] \in Ops
  <2>1. \A i \in DOMAIN chain : chain[i] \in Ops \X Nat
    BY ElementOfSeq, LenProperties DEF JournalTypes
  <2> QED
    BY <2>1
<1>5. CASE w = "chained" /\ pc[o] = "commit" /\ chain' = Append(chain, <<o, bound>>)
  <2>1. <<o, bound>> \in Ops \X Nat
    BY DEF JournalTypes
  <2>2. DOMAIN chain' = 1..(n + 1) /\ (\A i \in 1..n : chain'[i] = chain[i]) /\ chain'[n + 1] = <<o, bound>>
    <3>1. chain' \in Seq(Ops \X Nat) /\ Len(chain') = n + 1
      BY <1>5, <2>1, AppendLog DEF JournalTypes
    <3> QED
      BY <1>5, <2>1, <3>1, AppendLog, LenProperties DEF JournalTypes
  <2>3. chain'[n + 1][1] = o
    BY <2>2
  <2> HIDE DEF n
  <2>4. \A i \in 1..n : chain[i][1] # o
    BY <1>3, <1>5 DEF ChainInOrder, InRecord
  <2>5. \A i \in 1..(n + 1) : i = n + 1 \/ i \in 1..n
    BY <1>3
  <2>6. \A i \in DOMAIN chain' : pc'[chain'[i][1]] \in InRecord /\ (i # 1 => pc'[chain'[i][1]] = "chained")
    BY <1>2, <1>3, <1>4, <1>5, <2>2, <2>3, <2>4, <2>5 DEF ChainInOrder, InRecord
  <2>7. \A i, j \in DOMAIN chain' : chain'[i][1] = chain'[j][1] => i = j
    BY <1>3, <2>2, <2>3, <2>4, <2>5 DEF ChainInOrder
  <2>8. \A p \in Ops : pc'[p] \in InRecord => \E i \in DOMAIN chain' : chain'[i][1] = p
    <3> SUFFICES ASSUME NEW p \in Ops, pc'[p] \in InRecord
                 PROVE  \E i \in DOMAIN chain' : chain'[i][1] = p
      OBVIOUS
    <3>1. CASE p = o
      <4>1. n + 1 \in DOMAIN chain'
        BY <1>3, <2>2
      <4> QED
        BY <2>3, <3>1, <4>1
    <3>2. CASE p # o
      <4>1. PICK i \in DOMAIN chain : chain[i][1] = p
        BY <1>2, <3>2 DEF ChainInOrder
      <4>2. i \in DOMAIN chain' /\ chain'[i] = chain[i]
        BY <1>3, <2>2
      <4> QED
        BY <4>1, <4>2
    <3> QED
      BY <3>1, <3>2
  <2> QED
    BY <2>6, <2>7, <2>8 DEF ChainInOrder
<1>6. CASE w = "put" /\ pc[o] = "chained" /\ chain # <<>> /\ Head(chain)[1] = o /\ chain' = chain
  <2>1. chain[1][1] = o /\ 1 \in DOMAIN chain
    BY <1>6, TailLog DEF JournalTypes
  <2>2. \A i \in DOMAIN chain : chain[i][1] = o => i = 1
    BY <2>1 DEF ChainInOrder
  <2> QED
    BY <1>2, <1>4, <1>6, <2>1, <2>2 DEF ChainInOrder, InRecord
<1>7. CASE w \notin InRecord /\ pc[o] \in InRecord /\ chain # <<>> /\ Head(chain)[1] = o /\ chain' = Tail(chain)
  <2>1. n \in Nat \ {0} /\ DOMAIN chain = 1..n /\ DOMAIN chain' = 1..(n - 1) /\ chain[1][1] = o
        /\ \A i \in 1..(n - 1) : chain'[i] = chain[i + 1]
    BY <1>7, TailLog DEF JournalTypes
  <2> HIDE DEF n
  <2>2. \A i \in DOMAIN chain' : i + 1 \in DOMAIN chain /\ i + 1 # 1 /\ chain'[i][1] = chain[i + 1][1] /\ chain'[i][1] # o
    <3> TAKE i \in DOMAIN chain'
    <3>1. i + 1 \in DOMAIN chain /\ i + 1 # 1 /\ chain'[i] = chain[i + 1]
      BY <2>1
    <3>2. 1 \in DOMAIN chain
      BY <2>1
    <3> QED
      BY <2>1, <3>1, <3>2 DEF ChainInOrder
  <2>3. \A i \in DOMAIN chain' : pc'[chain'[i][1]] = "chained"
    BY <1>2, <1>4, <2>2 DEF ChainInOrder
  <2>4. \A i, j \in DOMAIN chain' : chain'[i][1] = chain'[j][1] => i = j
    <3> TAKE i, j \in DOMAIN chain'
    <3>1. i \in Nat /\ j \in Nat
      BY <2>1
    <3>2. chain[i + 1][1] = chain[j + 1][1] => i + 1 = j + 1
      BY <2>2 DEF ChainInOrder
    <3> QED
      BY <2>2, <3>1, <3>2
  <2>5. \A p \in Ops : pc'[p] \in InRecord => \E i \in DOMAIN chain' : chain'[i][1] = p
    <3> SUFFICES ASSUME NEW p \in Ops, pc'[p] \in InRecord
                 PROVE  \E i \in DOMAIN chain' : chain'[i][1] = p
      OBVIOUS
    <3>1. p # o /\ pc[p] \in InRecord
      BY <1>2, <1>7
    <3>2. PICK i \in DOMAIN chain : chain[i][1] = p
      BY <3>1 DEF ChainInOrder
    <3>3. i # 1 /\ i - 1 \in DOMAIN chain'
      BY <2>1, <3>1, <3>2
    <3>4. chain'[i - 1] = chain[i]
      BY <2>1, <3>3
    <3> QED
      BY <3>2, <3>3, <3>4
  <2> QED
    BY <2>3, <2>4, <2>5 DEF ChainInOrder, InRecord
<1>8. CASE w \notin InRecord /\ pc[o] \notin InRecord /\ chain' = chain
  <2>1. \A p \in Ops : pc[p] \in InRecord \/ pc'[p] \in InRecord => pc'[p] = pc[p]
    BY <1>2, <1>8
  <2> QED
    BY <1>4, <1>8, <2>1 DEF ChainInOrder
<1> QED
  BY <1>1, <1>5, <1>6, <1>7, <1>8 DEF Chained

(* An append to a log makes it longer. *)
LEMMA NeverEmpty ==
  ASSUME NEW S, NEW seq \in Seq(S), NEW x \in S
  PROVE  Append(seq, x) # <<>>
BY AppendProperties

(* A step of a commit writes on the side the Session is bound to. *)
LEMMA WriteKeepsSource ==
  ASSUME JournalTypes, ChainInOrder, OneSide, NEW o \in Ops, Write(o)
  PROVE  OneSide'
<1>1. PICK w : Moved(o, w) /\ Chained(o, w) /\ Logged(o, w)
  BY WriteShape
<1>2. \A p \in Ops : pc'[p] = IF p = o THEN w ELSE pc[p]
  BY <1>1 DEF Moved, JournalTypes
<1>3. w \notin BeforeLog /\ pc[o] \notin {"idle", "queued"} /\ bound' = bound
  BY <1>1 DEF Moved, BeforeLog, Waiting
<1>4. Bootstrap \in Ops
  BY JournalAssumption DEF Ops
<1>5. live' # live => live' = Append(live, o) /\ pc[o] = "commit" /\ bound = 0 /\ record' = record
  BY <1>1 DEF Logged
<1>6. record' # record => record' = Append(record, o) /\ pc[o] = "put" /\ live' = live
  BY <1>1 DEF Logged
<1>7. pc[o] = "put" => chain # <<>>
  BY HeadIsChained
<1>8. chain' # <<>> => chain # <<>> \/ (bound > 0 /\ pc[o] = "commit")
  BY <1>1 DEF Chained
<1>9. pc'[Bootstrap] \in BeforeLog => o # Bootstrap /\ pc[Bootstrap] \in BeforeLog
  BY <1>2, <1>3, <1>4
<1>10. o # Bootstrap /\ pc[o] = "commit" => Facts # <<>>
  BY DEF OneSide
<1>11. bound > 0 /\ pc[o] = "commit" /\ o # Bootstrap => record # <<>>
  BY <1>10 DEF Facts, JournalTypes
<1>12. bound = 0 /\ pc[o] = "commit" /\ o # Bootstrap => live # <<>>
  BY <1>10 DEF Facts
<1>13. bound' > 0 => live' = <<>>
  BY <1>3, <1>5 DEF OneSide, JournalTypes
<1>14. chain' # <<>> => bound' > 0
  BY <1>3, <1>8 DEF OneSide
<1>15. live' = <<>> \/ record' = <<>>
  <2>1. CASE live' # live
    <3>1. o = Bootstrap => record = <<>>
      BY <2>1, <1>5 DEF OneSide, BeforeLog
    <3>2. o # Bootstrap => record = <<>>
      BY <2>1, <1>5, <1>12 DEF OneSide
    <3> QED
      BY <2>1, <3>1, <3>2, <1>5
  <2>2. CASE record' # record
    BY <2>2, <1>6, <1>7 DEF OneSide
  <2> QED
    BY <2>1, <2>2 DEF OneSide
<1>16. pc'[Bootstrap] \in BeforeLog => live' = <<>> /\ record' = <<>> /\ chain' = <<>>
  <2> SUFFICES ASSUME pc'[Bootstrap] \in BeforeLog
               PROVE  live' = <<>> /\ record' = <<>> /\ chain' = <<>>
    OBVIOUS
  <2>1. live = <<>> /\ record = <<>> /\ chain = <<>> /\ o # Bootstrap
    BY <1>9 DEF OneSide
  <2>2. pc[o] # "commit"
    BY <2>1, <1>10 DEF Facts
  <2> QED
    BY <2>1, <2>2, <1>5, <1>6, <1>7, <1>8
<1>17. \A p \in Ops : p # Bootstrap /\ pc'[p] = "commit" => Facts' # <<>>
  <2> SUFFICES ASSUME NEW p \in Ops, p # Bootstrap, pc'[p] = "commit"
               PROVE  Facts' # <<>>
    OBVIOUS
  <2>1. Facts # <<>>
    BY <1>2, <1>3 DEF OneSide, BeforeLog
  <2>2. live # <<>> => live' # <<>>
    BY <1>5, NeverEmpty DEF JournalTypes
  <2>3. record # <<>> => record' # <<>>
    BY <1>6, NeverEmpty DEF JournalTypes
  <2> QED
    BY <2>1, <2>2, <2>3, <1>3 DEF Facts
<1>18. repo' = "open" => epoch' > 0
  BY <1>1 DEF Moved, OneSide
<1> QED
  BY <1>13, <1>14, <1>15, <1>16, <1>17, <1>18 DEF OneSide

(* What a step of a commit does to the logs, position by position. *)
LEMMA WriteLogs ==
  ASSUME JournalTypes, ChainInOrder, StoredIsKept, NEW o \in Ops, Write(o)
  PROVE  /\ Len(live) \in Nat /\ Len(live') \in Nat /\ Len(disk) \in Nat /\ Len(disk') \in Nat
         /\ Len(record) \in Nat /\ Len(record') \in Nat
         /\ Len(live) <= Len(live') /\ \A i \in 1..Len(live) : live'[i] = live[i]
         /\ Len(record) <= Len(record') /\ \A i \in 1..Len(record) : record'[i] = record[i]
         /\ \/ live' = live
            \/ live' = Append(live, o) /\ Len(live') = Len(live) + 1 /\ live'[Len(live) + 1] = o
               /\ pc[o] = "commit" /\ bound = 0
         /\ \/ record' = record
            \/ record' = Append(record, o) /\ Len(record') = Len(record) + 1 /\ record'[Len(record) + 1] = o
               /\ pc[o] = "put"
         /\ Len(disk) <= Len(disk') /\ Len(disk') <= Len(live')
         /\ \A i \in 1..Len(disk') : disk'[i] = live[i] /\ i \in 1..Len(live)
         /\ \A i \in 1..Len(disk) : disk'[i] = disk[i]
<1>1. PICK w : Moved(o, w) /\ Chained(o, w) /\ Logged(o, w)
  BY WriteShape
<1>2. Len(live) \in Nat /\ Len(disk) \in Nat /\ Len(record) \in Nat
  BY LenProperties DEF JournalTypes
<1>3. \/ live' = live
      \/ /\ live' = Append(live, o) /\ Len(live') = Len(live) + 1 /\ live'[Len(live) + 1] = o
         /\ pc[o] = "commit" /\ bound = 0 /\ \A i \in 1..Len(live) : live'[i] = live[i]
  <2>1. live' = live \/ (live' = Append(live, o) /\ pc[o] = "commit" /\ bound = 0)
    BY <1>1 DEF Logged
  <2>2. LET more == Append(live, o) IN
           Len(more) = Len(live) + 1 /\ more[Len(live) + 1] = o /\ \A i \in 1..Len(live) : more[i] = live[i]
    BY AppendLog DEF JournalTypes
  <2> QED
    BY <2>1, <2>2
<1>4. \/ record' = record
      \/ /\ record' = Append(record, o) /\ Len(record') = Len(record) + 1 /\ record'[Len(record) + 1] = o
         /\ pc[o] = "put" /\ \A i \in 1..Len(record) : record'[i] = record[i]
  <2>1. record' = record \/ (record' = Append(record, o) /\ pc[o] = "put")
    BY <1>1 DEF Logged
  <2>2. LET more == Append(record, o) IN
           Len(more) = Len(record) + 1 /\ more[Len(record) + 1] = o /\ \A i \in 1..Len(record) : more[i] = record[i]
    BY AppendLog DEF JournalTypes
  <2> QED
    BY <2>1, <2>2
<1>5. /\ Len(disk') \in Nat /\ Len(disk) <= Len(disk') /\ Len(disk') <= Len(live)
      /\ \A i \in 1..Len(disk') : disk'[i] = live[i]
  <2>1. CASE disk' = disk
    BY <2>1, <1>2 DEF StoredIsKept
  <2>2. CASE disk' = live
    BY <2>2, <1>2 DEF StoredIsKept
  <2>3. CASE pc[o] = "write" /\ Len(disk) = span[o][1] /\ disk' = SubSeq(live, 1, span[o][2])
    <3>1. span[o][2] \in Nat /\ span[o][1] \in Nat
      BY DEF JournalTypes
    <3>2. span[o][1] <= span[o][2] /\ span[o][2] <= Len(live)
      BY <2>3 DEF StoredIsKept
    <3>3. \A i \in 1..span[o][2] : live[i] \in Ops
      BY <1>2, <3>1, <3>2, ElementOfSeq DEF JournalTypes
    <3>4. Len(disk') = span[o][2] /\ \A i \in 1..span[o][2] : disk'[i] = live[i]
      BY <1>2, <2>3, <3>1, <3>2, <3>3, SubSeqProperties DEF JournalTypes
    <3> QED
      BY <1>2, <2>3, <3>1, <3>2, <3>4
  <2> QED
    BY <1>1, <2>1, <2>2, <2>3 DEF Logged
<1>6. \A i \in 1..Len(disk) : disk'[i] = disk[i]
  BY <1>2, <1>5 DEF StoredIsKept
<1>7. Len(live) <= Len(live') /\ Len(live') \in Nat /\ Len(record) <= Len(record') /\ Len(record') \in Nat
  BY <1>2, <1>3, <1>4
<1>8. \A i \in 1..Len(disk') : disk'[i] = live[i] /\ i \in 1..Len(live)
  BY <1>2, <1>5
<1> QED
  BY <1>2, <1>3, <1>4, <1>5, <1>6, <1>7, <1>8

(* A step of a commit keeps what is stored where it was, and acknowledges only what is stored. *)
LEMMA WriteKeepsStored ==
  ASSUME JournalTypes, ChainInOrder, StoredIsKept, NEW o \in Ops, Write(o)
  PROVE  StoredIsKept'
<1>1. PICK w : Moved(o, w) /\ Chained(o, w) /\ Logged(o, w)
  BY WriteShape
<1>2. \A p \in Ops : pc'[p] = IF p = o THEN w ELSE pc[p]
  BY <1>1 DEF Moved, JournalTypes
<1>3. /\ Len(live) \in Nat /\ Len(live') \in Nat /\ Len(disk) \in Nat /\ Len(disk') \in Nat
      /\ Len(record) \in Nat /\ Len(record') \in Nat
      /\ Len(live) <= Len(live') /\ \A i \in 1..Len(live) : live'[i] = live[i]
      /\ Len(record) <= Len(record') /\ \A i \in 1..Len(record) : record'[i] = record[i]
      /\ Len(disk) <= Len(disk') /\ Len(disk') <= Len(live')
      /\ \A i \in 1..Len(disk') : disk'[i] = live[i] /\ i \in 1..Len(live)
      /\ \A i \in 1..Len(disk) : disk'[i] = disk[i]
  BY WriteLogs
<1>4. \/ live' = live
      \/ Len(live') = Len(live) + 1 /\ live'[Len(live) + 1] = o /\ pc[o] = "commit" /\ bound = 0
  BY WriteLogs
<1>5. \/ record' = record
      \/ Len(record') = Len(record) + 1 /\ record'[Len(record) + 1] = o /\ pc[o] = "put"
  BY WriteLogs
<1>6. /\ \A i \in 1..Len(live) : live[i] \in Ops
      /\ \A i \in 1..Len(record) : record[i] \in Ops
  BY <1>3, ElementOfSeq DEF JournalTypes
<1>7. \A i \in 1..Len(live') : (i \in 1..Len(live) /\ live'[i] = live[i]) \/ (live'[i] = o /\ pc[o] = "commit" /\ i = Len(live) + 1)
  BY <1>3, <1>4
<1>8. \A i \in 1..Len(record') : (i \in 1..Len(record) /\ record'[i] = record[i]) \/ (record'[i] = o /\ pc[o] = "put" /\ i = Len(record) + 1)
  BY <1>3, <1>5
<1>9. w \notin BeforeLog /\ pc[o] \notin {"idle", "queued"}
  BY <1>1 DEF Moved, BeforeLog, Waiting
<1>a. \A i \in 1..Len(disk') : disk'[i] = live'[i]
  BY <1>3
<1>b. \A i \in 1..Len(live') : pc'[live'[i]] \notin BeforeLog \cup InRecord
  <2> SUFFICES ASSUME NEW i \in 1..Len(live')
               PROVE  pc'[live'[i]] \notin BeforeLog \cup InRecord
    OBVIOUS
  <2>1. CASE i \in 1..Len(live) /\ live'[i] = live[i] /\ live[i] # o
    BY <1>2, <1>6, <2>1 DEF StoredIsKept
  <2>2. CASE i \in 1..Len(live) /\ live'[i] = live[i] /\ live[i] = o
    <3>1. pc[o] \notin BeforeLog \cup InRecord
      BY <2>2 DEF StoredIsKept
    <3>2. w \notin InRecord
      BY <1>1, <3>1 DEF Chained, BeforeLog, InRecord
    <3> QED
      BY <1>2, <1>9, <2>2, <3>2
  <2>3. CASE live'[i] = o /\ pc[o] = "commit" /\ i = Len(live) + 1
    <3>1. live' # live
      BY <1>3, <2>3
    <3>2. w = "flush"
      BY <1>1, <3>1 DEF Logged
    <3> QED
      BY <1>2, <2>3, <3>2 DEF BeforeLog, InRecord
  <2> QED
    BY <1>7, <2>1, <2>2, <2>3
<1>c. \A i \in 1..Len(record') : pc'[record'[i]] \notin BeforeLog \cup InRecord
  <2> SUFFICES ASSUME NEW i \in 1..Len(record')
               PROVE  pc'[record'[i]] \notin BeforeLog \cup InRecord
    OBVIOUS
  <2>1. CASE i \in 1..Len(record) /\ record'[i] = record[i] /\ record[i] # o
    BY <1>2, <1>6, <2>1 DEF StoredIsKept
  <2>2. CASE i \in 1..Len(record) /\ record'[i] = record[i] /\ record[i] = o
    <3>1. pc[o] \notin BeforeLog \cup InRecord
      BY <2>2 DEF StoredIsKept
    <3>2. w \notin InRecord
      BY <1>1, <3>1 DEF Chained, BeforeLog, InRecord
    <3> QED
      BY <1>2, <1>9, <2>2, <3>2
  <2>3. CASE record'[i] = o /\ pc[o] = "put" /\ i = Len(record) + 1
    <3>1. record' # record
      BY <1>3, <2>3
    <3>2. w \in {"acked", "failed"}
      BY <1>1, <3>1 DEF Logged
    <3> QED
      BY <1>2, <2>3, <3>2 DEF BeforeLog, InRecord
  <2> QED
    BY <1>8, <2>1, <2>2, <2>3
<1>d. \A p \in Ops : pc'[p] \in {"flush", "list"} => \E i \in 1..Len(live') : live'[i] = p
  <2> SUFFICES ASSUME NEW p \in Ops, pc'[p] \in {"flush", "list"}
               PROVE  \E i \in 1..Len(live') : live'[i] = p
    OBVIOUS
  <2>1. CASE pc[p] \in {"flush", "list"}
    <3>1. PICK i \in 1..Len(live) : live[i] = p
      BY <2>1 DEF StoredIsKept
    <3> QED
      BY <1>3, <3>1
  <2>2. CASE pc[p] \notin {"flush", "list"}
    <3>1. p = o /\ w = "flush" /\ pc[o] = "commit"
      BY <1>1, <1>2, <2>2 DEF Logged
    <3>2. Len(live') = Len(live) + 1 /\ live'[Len(live) + 1] = o
      BY <1>1, <3>1, AppendLog DEF Logged, JournalTypes
    <3> QED
      BY <1>3, <3>1, <3>2
  <2> QED
    BY <2>1, <2>2
<1>e. \A p \in Ops : pc'[p] \in {"write", "prove"} =>
         /\ span'[p][1] <= span'[p][2] /\ span'[p][2] <= Len(live')
         /\ \E i \in 1..span'[p][2] : live'[i] = p
  <2> SUFFICES ASSUME NEW p \in Ops, pc'[p] \in {"write", "prove"}
               PROVE  /\ span'[p][1] <= span'[p][2] /\ span'[p][2] <= Len(live')
                      /\ \E i \in 1..span'[p][2] : live'[i] = p
    OBVIOUS
  <2>0. span[p][1] \in Nat /\ span[p][2] \in Nat
    BY DEF JournalTypes
  <2>1. CASE pc[p] \in {"write", "prove"}
    <3>1. span'[p] = span[p]
      BY <1>1, <2>1 DEF Logged, JournalTypes
    <3>2. PICK i \in 1..span[p][2] : live[i] = p
      BY <2>1 DEF StoredIsKept
    <3>3. span[p][1] <= span[p][2] /\ span[p][2] <= Len(live)
      BY <2>1 DEF StoredIsKept
    <3>4. i \in 1..Len(live)
      BY <1>3, <2>0, <3>3
    <3>5. live'[i] = p
      BY <1>3, <3>2, <3>4
    <3>6. span[p][2] <= Len(live')
      BY <1>3, <2>0, <3>3
    <3> QED
      BY <3>1, <3>3, <3>5, <3>6
  <2>2. CASE pc[p] \notin {"write", "prove"}
    <3>1. p = o /\ pc[o] = "list"
      BY <1>1, <1>2, <2>2 DEF Logged
    <3>2. span'[o] = <<Len(disk), Len(live)>>
      BY <1>1, <1>2, <2>2, <3>1 DEF Logged, JournalTypes
    <3>3. PICK i \in 1..Len(live) : live[i] = o
      BY <3>1 DEF StoredIsKept
    <3>4. live' = live
      BY <1>1, <3>1 DEF Logged
    <3>5. Len(disk) <= Len(live)
      BY DEF StoredIsKept
    <3>6. span'[p][1] = Len(disk) /\ span'[p][2] = Len(live)
      BY <3>1, <3>2
    <3> QED
      BY <1>3, <3>1, <3>3, <3>4, <3>5, <3>6
  <2> QED
    BY <2>1, <2>2
<1>f. \A p \in Ops : pc'[p] = "acked" =>
         (\E i \in 1..Len(disk') : disk'[i] = p) \/ (\E i \in 1..Len(record') : record'[i] = p)
  <2> SUFFICES ASSUME NEW p \in Ops, pc'[p] = "acked"
               PROVE  (\E i \in 1..Len(disk') : disk'[i] = p) \/ (\E i \in 1..Len(record') : record'[i] = p)
    OBVIOUS
  <2>1. CASE pc[p] = "acked"
    <3>1. CASE \E i \in 1..Len(disk) : disk[i] = p
      BY <1>3, <3>1
    <3>2. CASE \E i \in 1..Len(record) : record[i] = p
      BY <1>3, <3>2
    <3> QED
      BY <2>1, <3>1, <3>2 DEF StoredIsKept
  <2>2. CASE pc[p] # "acked"
    <3>1. p = o /\ w = "acked"
      BY <1>2, <2>2
    <3>2. CASE pc[o] = "put"
      <4>0. record' = Append(record, o)
        BY <1>1, <3>1, <3>2 DEF Logged
      <4>1. Len(record') = Len(record) + 1 /\ record'[Len(record) + 1] = o
        BY <4>0, AppendLog DEF JournalTypes
      <4> QED
        BY <1>3, <3>1, <4>1
    <3>3. CASE pc[o] = "flush"
      <4>1. disk' = live
        BY <1>1, <3>1, <3>3 DEF Logged
      <4>2. PICK i \in 1..Len(live) : live[i] = o
        BY <3>3 DEF StoredIsKept
      <4> QED
        BY <3>1, <4>1, <4>2
    <3>4. CASE pc[o] = "prove"
      <4>1. disk' = disk /\ Len(disk) = span[o][2]
        BY <1>1, <3>1, <3>4 DEF Logged
      <4>2. PICK i \in 1..span[o][2] : live[i] = o
        BY <3>4 DEF StoredIsKept
      <4> QED
        BY <1>3, <3>1, <4>1, <4>2
    <3> QED
      BY <1>1, <3>1, <3>2, <3>3, <3>4 DEF Logged
  <2> QED
    BY <2>1, <2>2
<1>g. \A i \in 1..Len(live') : live'[i] \in TeamOps =>
        poisoned' \/ (\E j \in 1..Len(disk') : disk'[j] = live'[i]) \/ pc'[live'[i]] \in InNative
  <2> SUFFICES ASSUME NEW i \in 1..Len(live'), live'[i] \in TeamOps
               PROVE  poisoned' \/ (\E j \in 1..Len(disk') : disk'[j] = live'[i]) \/ pc'[live'[i]] \in InNative
    OBVIOUS
  <2>1. CASE live'[i] = o
    <3>1. w = "failed" => poisoned'
      BY <1>1, <2>1 DEF Moved, Waiting
    <3>2. w \notin InRecord
      BY <1>2, <1>b, <2>1
    <3>3. w = "acked" => pc[o] \in {"put", "flush", "prove"}
      BY <1>1 DEF Logged
    <3>4. CASE w = "acked" /\ pc[o] = "put"
      <4>1. live' = live
        BY <1>1, <3>4 DEF Logged
      <4> QED
        BY <2>1, <3>4, <4>1 DEF StoredIsKept, InRecord
    <3>5. CASE w = "acked" /\ pc[o] = "flush"
      <4>1. disk' = live /\ live' = live
        BY <1>1, <3>5 DEF Logged
      <4> QED
        BY <2>1, <4>1
    <3>6. CASE w = "acked" /\ pc[o] = "prove"
      <4>1. disk' = disk /\ Len(disk) = span[o][2]
        BY <1>1, <3>6 DEF Logged
      <4>2. PICK j \in 1..span[o][2] : live[j] = o
        BY <3>6 DEF StoredIsKept
      <4> QED
        BY <1>3, <2>1, <4>1, <4>2
    <3> QED
      BY <1>1, <1>2, <2>1, <3>1, <3>2, <3>3, <3>4, <3>5, <3>6 DEF Moved, Waiting, InNative, InRecord
  <2>2. CASE live'[i] # o
    <3>1. i \in 1..Len(live) /\ live'[i] = live[i] /\ pc'[live[i]] = pc[live[i]]
      BY <1>2, <1>6, <1>7, <2>2
    <3>2. poisoned => poisoned'
      BY <1>1 DEF Moved
    <3> QED
      BY <1>3, <2>2, <3>1, <3>2 DEF StoredIsKept
  <2> QED
    BY <2>1, <2>2
<1> QED
  BY <1>3, <1>a, <1>b, <1>c, <1>d, <1>e, <1>f, <1>g DEF StoredIsKept

(* A step of a commit writes a transaction after what it read, and beside the others only index facts. *)
LEMMA WriteKeepsSerial ==
  ASSUME JournalInv, NEW o \in Ops, Write(o)
  PROVE  WrittenAfterRead'
<1> USE DEF JournalInv
<1>1. PICK w : Moved(o, w) /\ Chained(o, w) /\ Logged(o, w)
  BY WriteShape
<1>2. \A p \in Ops : pc'[p] = IF p = o THEN w ELSE pc[p]
  BY <1>1 DEF Moved, JournalTypes
<1>3. basis' = basis /\ bound' = bound /\ w \notin BeforeLog /\ pc[o] \in Waiting \ {"queued"}
  BY <1>1 DEF Moved, BeforeLog, Waiting
<1>4. /\ Len(live) \in Nat /\ Len(live') \in Nat /\ Len(record) \in Nat /\ Len(record') \in Nat
      /\ \A i \in 1..Len(live) : live'[i] = live[i]
      /\ \A i \in 1..Len(record) : record'[i] = record[i]
      /\ live \in Seq(Ops) /\ live' \in Seq(Ops) /\ record \in Seq(Ops) /\ record' \in Seq(Ops)
  <2>1. JournalTypes'
    BY WriteKeepsTypes
  <2> QED
    BY <2>1, WriteLogs DEF JournalTypes
<1>5. \/ live' = live
      \/ live' = Append(live, o) /\ Len(live') = Len(live) + 1 /\ live'[Len(live) + 1] = o
         /\ pc[o] = "commit" /\ bound = 0
  BY WriteLogs
<1>6. \/ record' = record
      \/ record' = Append(record, o) /\ Len(record') = Len(record) + 1 /\ record'[Len(record) + 1] = o
         /\ pc[o] = "put"
  BY WriteLogs
<1>7. \A p \in TeamOps : p \in Ops /\ basis[p] \in Seq(Ops)
  BY DEF JournalTypes, Ops
<1>8. \A p \in TeamOps : p # o /\ pc[p] \in Waiting \ {"queued"} => o \in IndexOps
  <2> SUFFICES ASSUME NEW p \in TeamOps, p # o, pc[p] \in Waiting \ {"queued"}, o \in TeamOps
               PROVE  FALSE
    BY DEF Ops
  <2>1. Head(queue) = p /\ Head(queue) = o
    BY <1>3, HeadRuns
  <2> QED
    BY <2>1
<1>9. \A i \in 1..Len(live') : live'[i] \in TeamOps => Follows(live', i, basis'[live'[i]])
  <2> SUFFICES ASSUME NEW i \in 1..Len(live'), live'[i] \in TeamOps
               PROVE  Follows(live', i, basis[live'[i]])
    BY <1>3
  <2>1. CASE i \in 1..Len(live)
    <3>1. live'[i] = live[i] /\ Follows(live, i, basis[live[i]])
      BY <1>4, <2>1 DEF WrittenAfterRead
    <3>2. i \in Nat /\ \A j \in 1..(i - 1) : live'[j] = live[j]
      <4>1. Len(live) \in Nat
        BY <1>4
      <4>2. i \in Nat /\ \A j \in 1..(i - 1) : j \in 1..Len(live)
        BY <2>1, <4>1
      <4>3. \A j \in 1..Len(live) : live'[j] = live[j]
        BY <1>4
      <4> QED
        BY <4>2, <4>3
    <3>3. Follows(live', i, basis[live[i]])
      BY <3>1, <3>2, FollowsStays
    <3> QED
      BY <3>1, <3>3
  <2>2. CASE i \notin 1..Len(live)
    <3>1. live' = Append(live, o) /\ i = Len(live) + 1 /\ live'[i] = o /\ pc[o] = "commit" /\ bound = 0
      BY <1>4, <1>5, <2>2
    <3>2. Extends(live, basis[o])
      BY <3>1 DEF WrittenAfterRead, Facts
    <3> QED
      BY <1>4, <1>7, <3>1, <3>2, ExtendsFollows
  <2> QED
    BY <2>1, <2>2
<1>10. \A i \in 1..Len(record') : record'[i] \in TeamOps => Follows(record', i, basis'[record'[i]])
  <2> SUFFICES ASSUME NEW i \in 1..Len(record'), record'[i] \in TeamOps
               PROVE  Follows(record', i, basis[record'[i]])
    BY <1>3
  <2>1. CASE i \in 1..Len(record)
    <3>1. record'[i] = record[i] /\ Follows(record, i, basis[record[i]])
      BY <1>4, <2>1 DEF WrittenAfterRead
    <3>2. i \in Nat /\ \A j \in 1..(i - 1) : record'[j] = record[j]
      <4>1. Len(record) \in Nat
        BY <1>4
      <4>2. i \in Nat /\ \A j \in 1..(i - 1) : j \in 1..Len(record)
        BY <2>1, <4>1
      <4>3. \A j \in 1..Len(record) : record'[j] = record[j]
        BY <1>4
      <4> QED
        BY <4>2, <4>3
    <3>3. Follows(record', i, basis[record[i]])
      BY <3>1, <3>2, FollowsStays
    <3> QED
      BY <3>1, <3>3
  <2>2. CASE i \notin 1..Len(record)
    <3>1. record' = Append(record, o) /\ i = Len(record) + 1 /\ record'[i] = o /\ pc[o] = "put"
      BY <1>4, <1>6, <2>2
    <3>2. Extends(record, basis[o])
      BY <2>2, <3>1 DEF WrittenAfterRead, InRecord
    <3> QED
      BY <1>4, <1>7, <3>1, <3>2, ExtendsFollows
  <2> QED
    BY <2>1, <2>2
<1>11. \A p \in TeamOps : p # o /\ pc[p] \in Waiting \ {"queued"} =>
         /\ Extends(live, basis[p]) => Extends(live', basis[p])
         /\ Extends(record, basis[p]) => Extends(record', basis[p])
  <2> SUFFICES ASSUME NEW p \in TeamOps, p # o, pc[p] \in Waiting \ {"queued"}
               PROVE  /\ Extends(live, basis[p]) => Extends(live', basis[p])
                      /\ Extends(record, basis[p]) => Extends(record', basis[p])
    OBVIOUS
  <2>1. o \in IndexOps
    BY <1>8
  <2>2. Extends(live, basis[p]) => Extends(Append(live, o), basis[p])
    BY <1>4, <1>7, <2>1, ExtendsIndex
  <2>3. Extends(record, basis[p]) => Extends(Append(record, o), basis[p])
    BY <1>4, <1>7, <2>1, ExtendsIndex
  <2> QED
    BY <1>5, <1>6, <2>2, <2>3
<1>12. \A p \in TeamOps : pc'[p] = "commit" => Extends(Facts', basis'[p])
  <2> SUFFICES ASSUME NEW p \in TeamOps, pc'[p] = "commit"
               PROVE  Extends(Facts', basis[p])
    BY <1>3
  <2>1. p # o /\ pc[p] = "commit" /\ pc[p] \in Waiting \ {"queued"}
    BY <1>2, <1>3, <1>7 DEF BeforeLog, Waiting
  <2> QED
    BY <1>3, <1>11, <2>1 DEF WrittenAfterRead, Facts
<1>13. \A p \in TeamOps : pc'[p] \in InRecord => Extends(record', basis'[p])
  <2> SUFFICES ASSUME NEW p \in TeamOps, pc'[p] \in InRecord
               PROVE  Extends(record', basis[p])
    BY <1>3
  <2>1. CASE p # o
    <3>1. pc[p] \in InRecord /\ pc[p] \in Waiting \ {"queued"}
      BY <1>2, <1>7, <2>1 DEF InRecord, Waiting
    <3> QED
      BY <1>11, <2>1, <3>1 DEF WrittenAfterRead
  <2>2. CASE p = o
    <3>1. w \in InRecord
      BY <1>2, <1>7, <2>2
    <3>2. record' = record
      BY <1>1, <3>1 DEF Logged, InRecord
    <3>3. CASE pc[o] = "commit" /\ bound > 0
      <4>1. Facts = record
        BY <3>3 DEF Facts
      <4>2. Extends(Facts, basis[o])
        BY <3>3, <2>2 DEF WrittenAfterRead
      <4> QED
        BY <2>2, <3>2, <4>1, <4>2
    <3>4. CASE pc[o] \in InRecord
      <4>1. Extends(record, basis[o])
        BY <2>2, <3>4 DEF WrittenAfterRead
      <4> QED
        BY <2>2, <3>2, <4>1
    <3> QED
      BY <1>1, <3>1, <3>3, <3>4 DEF Chained, InRecord
  <2> QED
    BY <2>1, <2>2
<1> QED
  BY <1>9, <1>10, <1>12, <1>13 DEF WrittenAfterRead

(* Binding a Session anew leaves its facts where they are. *)
LEMMA BindingKeepsFacts ==
  ASSUME JournalTypes, OneSide, UNCHANGED <<live, record>>, epoch' \in Nat, epoch <= epoch',
         bound' = bound \/ (live = <<>> /\ bound' = epoch' /\ bound' > 0)
  PROVE  /\ bound' \in 0..epoch' /\ bound <= bound' /\ (bound' > 0 => live = <<>>)
         /\ Facts # <<>> => Facts' = Facts
         /\ record = <<>> => Facts' = Facts
<1>1. bound \in Nat /\ epoch \in Nat /\ bound <= epoch
  BY DEF JournalTypes
<1>2. bound' \in 0..epoch' /\ bound <= bound'
  BY <1>1
<1>3. bound' > 0 => live = <<>>
  BY DEF OneSide
<1>4. CASE bound' = bound
  BY <1>2, <1>3, <1>4 DEF Facts
<1>5. CASE live = <<>> /\ bound' > 0
  BY <1>1, <1>2, <1>3, <1>5 DEF Facts
<1> QED
  BY <1>2, <1>3, <1>4, <1>5

(* An operation that has not reached a log moves before the logs do. *)
Approaching(o, w) ==
  /\ pc' = [pc EXCEPT ![o] = w] /\ pc[o] \in {"idle", "queued"} /\ w \in {"queued", "commit", "refused"}
  /\ UNCHANGED <<live, disk, record, chain, span, poisoned>>

(* It leaves what is stored and what is chained alone. *)
LEMMA BeforeKeepsLogs ==
  ASSUME JournalTypes, ChainInOrder, StoredIsKept, NEW o \in Ops, NEW w, Approaching(o, w)
  PROVE  ChainInOrder' /\ StoredIsKept'
<1>1. \A p \in Ops : pc'[p] = IF p = o THEN w ELSE pc[p]
  BY DEF Approaching, JournalTypes
<1>2. pc[o] \in BeforeLog /\ w \notin InRecord \cup InNative \cup {"acked"} /\ pc[o] \notin InRecord \cup InNative \cup {"acked"}
  BY DEF Approaching, BeforeLog, InRecord, InNative
<1>3. \A i \in DOMAIN chain : chain[i][1] \in Ops
  <2>1. \A i \in DOMAIN chain : chain[i] \in Ops \X Nat
    BY ElementOfSeq, LenProperties DEF JournalTypes
  <2> QED
    BY <2>1
<1>4. (\A i \in 1..Len(live) : live[i] \in Ops) /\ (\A i \in 1..Len(record) : record[i] \in Ops)
  BY ElementOfSeq, LenProperties DEF JournalTypes
<1>5. ChainInOrder'
  BY <1>1, <1>2, <1>3 DEF ChainInOrder, Approaching
<1>6. \A i \in 1..Len(live) : live[i] # o
  BY <1>2 DEF StoredIsKept
<1>7. \A i \in 1..Len(record) : record[i] # o
  BY <1>2 DEF StoredIsKept
<1>8. \A p \in Ops : pc'[p] \in InNative \cup {"acked"} => pc'[p] = pc[p]
  BY <1>1, <1>2
<1>9. StoredIsKept'
  BY <1>1, <1>2, <1>4, <1>6, <1>7, <1>8 DEF StoredIsKept, Approaching, InNative
<1> QED
  BY <1>5, <1>9

(* It leaves what the Session is bound to and what was written in order. *)
LEMMA BeforeKeepsSource ==
  ASSUME JournalTypes, OneSide, NEW o \in Ops, NEW w, Approaching(o, w), bound' = bound \/ bound' = Rebound,
         UNCHANGED <<repo, epoch>>, w = "commit" /\ o # Bootstrap => Facts # <<>>
  PROVE  /\ bound' \in 0..epoch' /\ OneSide'
         /\ \A p \in Ops : pc[p] = "commit" => Facts' = Facts
<1>1. \A p \in Ops : pc'[p] = IF p = o THEN w ELSE pc[p]
  BY DEF Approaching, JournalTypes
<1>2. pc[o] \in BeforeLog /\ UNCHANGED <<live, record, chain>>
  BY DEF Approaching, BeforeLog
<1>3. Bootstrap \in Ops
  BY JournalAssumption DEF Ops
<1>4. /\ bound' \in 0..epoch' /\ bound <= bound' /\ (bound' > 0 => live = <<>>)
      /\ Facts # <<>> => Facts' = Facts
      /\ record = <<>> => Facts' = Facts
  <2>1. epoch' \in Nat /\ epoch <= epoch'
    BY DEF JournalTypes
  <2>2. bound' = bound \/ (live = <<>> /\ bound' = epoch' /\ bound' > 0)
    BY DEF Rebound, OneSide
  <2> QED
    BY <1>2, <2>1, <2>2, BindingKeepsFacts
<1>5. \A p \in Ops : pc[p] = "commit" => Facts' = Facts
  <2> SUFFICES ASSUME NEW p \in Ops, pc[p] = "commit"
               PROVE  Facts' = Facts
    OBVIOUS
  <2>1. p = Bootstrap => record = <<>>
    BY DEF OneSide, BeforeLog
  <2> QED
    BY <1>4, <2>1 DEF OneSide
<1>6. \A p \in Ops : p # Bootstrap /\ pc'[p] = "commit" => Facts' # <<>>
  BY <1>1, <1>4 DEF OneSide
<1>7. pc'[Bootstrap] \in BeforeLog => pc[Bootstrap] \in BeforeLog
  BY <1>1, <1>2, <1>3
<1>8. chain' # <<>> => bound' > 0
  BY <1>2, <1>4 DEF OneSide, JournalTypes
<1> QED
  BY <1>2, <1>4, <1>5, <1>6, <1>7, <1>8 DEF OneSide

(* What was written stays after what it read, and who reads now extends it. *)
LEMMA BeforeKeepsSerial ==
  ASSUME JournalTypes, StoredIsKept, WrittenAfterRead, NEW o \in Ops, NEW w, Approaching(o, w),
         \A p \in Ops : pc[p] = "commit" => Facts' = Facts,
         \A p \in TeamOps : p # o => basis'[p] = basis[p],
         o \in TeamOps /\ w = "commit" => Extends(Facts', basis'[o])
  PROVE  WrittenAfterRead'
<1>1. \A p \in Ops : pc'[p] = IF p = o THEN w ELSE pc[p]
  BY DEF Approaching, JournalTypes
<1>2. pc[o] \in BeforeLog /\ UNCHANGED <<live, record, chain>> /\ w \notin InRecord
  BY DEF Approaching, BeforeLog, InRecord
<1>3. (\A i \in 1..Len(live) : live[i] # o) /\ (\A i \in 1..Len(record) : record[i] # o)
  BY <1>2 DEF StoredIsKept
<1>4. \A i \in 1..Len(live) : live[i] \in TeamOps => Follows(live, i, basis'[live[i]])
  BY <1>3 DEF WrittenAfterRead
<1>5. \A i \in 1..Len(record) : record[i] \in TeamOps => Follows(record, i, basis'[record[i]])
  BY <1>3 DEF WrittenAfterRead
<1>6. \A p \in TeamOps : pc'[p] = "commit" => Extends(Facts', basis'[p])
  BY <1>1 DEF WrittenAfterRead, Ops
<1>7. \A p \in TeamOps : pc'[p] \in InRecord => Extends(record, basis'[p])
  BY <1>1, <1>2 DEF WrittenAfterRead, Ops
<1> QED
  BY <1>2, <1>4, <1>5, <1>6, <1>7 DEF WrittenAfterRead

(* A submitted transaction waits at the end of the gate's queue. *)
LEMMA SubmitKeeps ==
  ASSUME JournalInv, NEW o \in TeamOps, SubmitTransaction(o)
  PROVE  JournalInv'
<1> USE DEF JournalInv
<1> DEFINE refused == Conflicting \/ disposed
<1>0. o \in Ops
  BY DEF Ops
<1>1. PICK w \in {"queued", "refused"} :
         /\ pc' = [pc EXCEPT ![o] = w]
         /\ IF w = "refused" THEN UNCHANGED <<queue, bound>> ELSE bound' = Rebound /\ queue' = Append(queue, o)
  BY DEF SubmitTransaction
<1>2. pc[o] = "idle" /\ UNCHANGED <<live, disk, record, listener, storage, repo, epoch, chain, poisoned, disposed,
                 basis, span, journalFaults, journalCrashes, closes>>
  BY DEF SubmitTransaction
<1>3. \A p \in Ops : pc'[p] = IF p = o THEN w ELSE pc[p]
  BY <1>1 DEF JournalTypes
<1>4. Approaching(o, w)
  BY <1>1, <1>2 DEF Approaching
<1>9. bound' \in 0..epoch' /\ OneSide' /\ \A p \in Ops : pc[p] = "commit" => Facts' = Facts
  <2>1. bound' = bound \/ bound' = Rebound
    BY <1>1
  <2> QED
    BY <1>0, <1>1, <1>2, <1>4, <2>1, BeforeKeepsSource
<1>5. queue' \in Seq(TeamOps)
  <2>1. Append(queue, o) \in Seq(TeamOps)
    BY AppendLog DEF JournalTypes
  <2> QED
    BY <1>1, <2>1 DEF JournalTypes
<1>6. JournalTypes'
  BY <1>0, <1>1, <1>2, <1>9, <1>5 DEF JournalTypes, Waiting, Settled
<1>7. GateInOrder'
  <2>0. \A i \in DOMAIN queue : queue[i] \in TeamOps /\ queue[i] \in Ops /\ queue[i] # o
    <3>1. \A i \in DOMAIN queue : queue[i] \in TeamOps
      BY ElementOfSeq, LenProperties DEF JournalTypes
    <3>2. \A i \in DOMAIN queue : queue[i] # o
      BY <1>2 DEF GateInOrder, Waiting
    <3> QED
      BY <3>1, <3>2 DEF Ops
  <2>1. CASE w = "refused"
    <3>1. queue' = queue
      BY <1>1, <2>1
    <3> QED
      BY <1>0, <1>3, <2>0, <2>1, <3>1 DEF GateInOrder, Waiting, Ops
  <2>2. CASE w = "queued"
    <3> DEFINE n == Len(queue)
    <3>1. n \in Nat /\ DOMAIN queue = 1..n /\ DOMAIN queue' = 1..(n + 1)
          /\ (\A i \in 1..n : queue'[i] = queue[i]) /\ queue'[n + 1] = o
      <4>1. queue' = Append(queue, o)
        BY <1>1, <2>2
      <4>2. DOMAIN queue' = 1..Len(queue')
        BY <1>5, LenProperties
      <4> QED
        BY <4>1, <4>2, AppendLog DEF JournalTypes
    <3> HIDE DEF n
    <3>2. \A i \in 1..(n + 1) : i \in 1..n \/ i = n + 1
      BY <3>1
    <3>3. \A i \in DOMAIN queue' : pc'[queue'[i]] \in Waiting /\ (i # 1 => pc'[queue'[i]] = "queued")
      BY <1>0, <1>3, <2>0, <2>2, <3>1, <3>2 DEF GateInOrder, Waiting
    <3>4. \A i, j \in DOMAIN queue' : queue'[i] = queue'[j] => i = j
      BY <2>0, <3>1, <3>2 DEF GateInOrder
    <3>5. \A p \in TeamOps : pc'[p] \in Waiting => \E i \in DOMAIN queue' : queue'[i] = p
      <4> SUFFICES ASSUME NEW p \in TeamOps, pc'[p] \in Waiting
                   PROVE  \E i \in DOMAIN queue' : queue'[i] = p
        OBVIOUS
      <4>1. CASE p = o
        <5>1. n + 1 \in DOMAIN queue'
          BY <3>1
        <5> QED
          BY <3>1, <4>1, <5>1
      <4>2. CASE p # o
        <5>1. PICK i \in DOMAIN queue : queue[i] = p
          BY <1>3, <4>2 DEF GateInOrder, Ops
        <5> QED
          BY <3>1, <5>1
      <4> QED
        BY <4>1, <4>2
    <3> QED
      BY <3>3, <3>4, <3>5 DEF GateInOrder
  <2> QED
    BY <2>1, <2>2
<1>8. ChainInOrder' /\ StoredIsKept'
  BY <1>0, <1>2, <1>4, BeforeKeepsLogs
<1>10. WrittenAfterRead'
  BY <1>0, <1>1, <1>2, <1>4, <1>9, BeforeKeepsSerial
<1> QED
  BY <1>6, <1>7, <1>8, <1>9, <1>10

(* The head of the gate reads the facts, or leaves. *)
LEMMA BeginKeeps ==
  ASSUME JournalInv, NEW o \in TeamOps, Begin(o)
  PROVE  JournalInv'
<1> USE DEF JournalInv
<1>0. o \in Ops
  BY DEF Ops
<1>1. PICK w \in {"commit", "refused"} :
         /\ pc' = [pc EXCEPT ![o] = w]
         /\ IF w = "refused" THEN queue' = Tail(queue) /\ basis' = basis
            ELSE /\ basis' = [basis EXCEPT ![o] = Facts] /\ queue' = queue
                 /\ (o # Bootstrap => Facts # <<>>)
  BY DEF Begin
<1>2. /\ queue # <<>> /\ Head(queue) = o /\ pc[o] = "queued"
      /\ UNCHANGED <<live, disk, record, chain, poisoned, span, journalFaults>> /\ UNCHANGED hostVars
  BY DEF Begin
<1>3. \A p \in Ops : pc'[p] = IF p = o THEN w ELSE pc[p]
  BY <1>1 DEF JournalTypes
<1>4. Approaching(o, w)
  BY <1>1, <1>2 DEF Approaching
<1>5. bound' \in 0..epoch' /\ OneSide' /\ \A p \in Ops : pc[p] = "commit" => Facts' = Facts
  BY <1>0, <1>1, <1>2, <1>4, BeforeKeepsSource DEF hostVars
<1>6. Facts \in Seq(Ops) /\ Facts' = Facts
  BY <1>2 DEF Facts, JournalTypes, hostVars
<1>7. basis' \in [TeamOps -> Seq(Ops)] /\ (\A p \in TeamOps : p # o => basis'[p] = basis[p])
      /\ (w = "commit" => basis'[o] = Facts)
  BY <1>1, <1>6 DEF JournalTypes
<1>8. JournalTypes'
  <2>1. Tail(queue) \in Seq(TeamOps)
    BY <1>2, TailLog DEF JournalTypes
  <2>2. queue' \in Seq(TeamOps)
    BY <1>1, <2>1 DEF JournalTypes
  <2>3. pc' \in [Ops -> {"idle"} \cup Waiting \cup Settled]
    BY <1>0, <1>1 DEF JournalTypes, Waiting, Settled
  <2> QED
    BY <1>2, <1>5, <1>7, <2>2, <2>3 DEF JournalTypes, hostVars
<1>9. GateInOrder'
  <2> DEFINE n == Len(queue)
  <2>0. n \in Nat \ {0} /\ DOMAIN queue = 1..n /\ queue[1] = o
        /\ \A i \in DOMAIN queue : queue[i] \in Ops
    <3>1. \A i \in DOMAIN queue : queue[i] \in TeamOps
      BY ElementOfSeq, LenProperties DEF JournalTypes
    <3> QED
      BY <1>2, <3>1, TailLog DEF JournalTypes, Ops
  <2>1. CASE w = "commit"
    <3>1. queue' = queue
      BY <1>1, <2>1
    <3>2. \A i \in DOMAIN queue : i # 1 => queue[i] # o
      BY <2>0 DEF GateInOrder
    <3> QED
      BY <1>0, <1>2, <1>3, <2>0, <2>1, <3>1, <3>2 DEF GateInOrder, Waiting, Ops
  <2>2. CASE w = "refused"
    <3>1. DOMAIN queue' = 1..(n - 1) /\ \A i \in 1..(n - 1) : queue'[i] = queue[i + 1]
      BY <1>1, <1>2, <2>2, TailLog DEF JournalTypes
    <3> HIDE DEF n
    <3>2. \A i \in DOMAIN queue' : i + 1 \in DOMAIN queue /\ i + 1 # 1 /\ queue'[i] = queue[i + 1] /\ queue'[i] # o
      <4> TAKE i \in DOMAIN queue'
      <4>1. i + 1 \in DOMAIN queue /\ i + 1 # 1 /\ queue'[i] = queue[i + 1] /\ 1 \in DOMAIN queue
        BY <2>0, <3>1
      <4> QED
        BY <2>0, <4>1 DEF GateInOrder
    <3>3. \A i \in DOMAIN queue' : pc'[queue'[i]] = "queued"
      BY <1>3, <2>0, <3>2 DEF GateInOrder
    <3>4. \A i, j \in DOMAIN queue' : queue'[i] = queue'[j] => i = j
      <4> TAKE i, j \in DOMAIN queue'
      <4>1. i \in Nat /\ j \in Nat
        BY <2>0, <3>1
      <4>2. queue[i + 1] = queue[j + 1] => i + 1 = j + 1
        BY <3>2 DEF GateInOrder
      <4> QED
        BY <3>2, <4>1, <4>2
    <3>5. \A p \in TeamOps : pc'[p] \in Waiting => \E i \in DOMAIN queue' : queue'[i] = p
      <4> SUFFICES ASSUME NEW p \in TeamOps, pc'[p] \in Waiting
                   PROVE  \E i \in DOMAIN queue' : queue'[i] = p
        OBVIOUS
      <4>1. p # o /\ pc[p] \in Waiting
        BY <1>3, <2>2 DEF Ops, Waiting
      <4>2. PICK i \in DOMAIN queue : queue[i] = p
        BY <4>1 DEF GateInOrder
      <4>3. i # 1 /\ i - 1 \in DOMAIN queue'
        BY <2>0, <3>1, <4>1, <4>2
      <4>4. queue'[i - 1] = queue[i]
        BY <2>0, <3>1, <4>3
      <4> QED
        BY <4>2, <4>3, <4>4
    <3> QED
      BY <3>3, <3>4, <3>5 DEF GateInOrder, Waiting
  <2> QED
    BY <2>1, <2>2
<1>10. ChainInOrder' /\ StoredIsKept'
  BY <1>0, <1>1, <1>4, <1>7, BeforeKeepsLogs
<1>11. WrittenAfterRead'
  <2>1. w = "commit" => Extends(Facts', basis'[o])
    BY <1>6, <1>7, ReaderExtends
  <2> QED
    BY <1>0, <1>4, <1>5, <1>7, <2>1, BeforeKeepsSerial
<1> QED
  BY <1>5, <1>8, <1>9, <1>10, <1>11

(* An index fact is committed where there are facts. *)
LEMMA IndexKeeps ==
  ASSUME JournalInv, NEW o \in IndexOps, SubmitIndex(o)
  PROVE  JournalInv'
<1> USE DEF JournalInv
<1>0. o \in Ops /\ o \notin TeamOps
  BY JournalAssumption DEF Ops
<1>1. PICK w \in {"commit", "refused"} :
         pc' = [pc EXCEPT ![o] = w] /\ bound' = IF w = "refused" THEN bound ELSE Rebound
  BY DEF SubmitIndex
<1>2. /\ pc[o] = "idle" /\ Facts # <<>>
      /\ UNCHANGED <<live, disk, record, listener, storage, repo, epoch, queue, chain, poisoned,
                 disposed, basis, span, journalFaults, journalCrashes, closes>>
  BY DEF SubmitIndex
<1>3. \A p \in Ops : pc'[p] = IF p = o THEN w ELSE pc[p]
  BY <1>0, <1>1 DEF JournalTypes
<1>4. Approaching(o, w)
  BY <1>1, <1>2 DEF Approaching
<1>5. bound' \in 0..epoch' /\ OneSide' /\ \A p \in Ops : pc[p] = "commit" => Facts' = Facts
  <2>1. bound' = bound \/ bound' = Rebound
    BY <1>1
  <2> QED
    BY <1>0, <1>2, <1>4, <2>1, BeforeKeepsSource
<1>6. JournalTypes'
  <2>1. pc' \in [Ops -> {"idle"} \cup Waiting \cup Settled]
    BY <1>0, <1>1 DEF JournalTypes, Waiting, Settled
  <2> QED
    BY <1>2, <1>5, <2>1 DEF JournalTypes
<1>7. GateInOrder'
  <2>1. \A i \in DOMAIN queue : queue[i] \in TeamOps
    BY ElementOfSeq, LenProperties DEF JournalTypes
  <2> QED
    BY <1>0, <1>2, <1>3, <2>1 DEF GateInOrder, Ops
<1>8. ChainInOrder' /\ StoredIsKept'
  BY <1>0, <1>2, <1>4, BeforeKeepsLogs
<1>9. WrittenAfterRead'
  BY <1>0, <1>2, <1>4, <1>5, BeforeKeepsSerial
<1> QED
  BY <1>5, <1>6, <1>7, <1>8, <1>9

(* A commit that moves keeps the journal. *)
LEMMA WriteKeeps ==
  ASSUME JournalInv, NEW o \in Ops, Write(o)
  PROVE  JournalInv'
<1>1. JournalTypes' /\ GateInOrder' /\ ChainInOrder' /\ OneSide' /\ StoredIsKept'
  BY WriteKeepsTypes, WriteKeepsGate, WriteKeepsChain, WriteKeepsSource, WriteKeepsStored DEF JournalInv
<1> QED
  BY <1>1, WriteKeepsSerial DEF JournalInv

(* Nothing of the journal changes when its surroundings do, unless a poisoning closes it. *)
LEMMA QuietKeeps ==
  ASSUME JournalInv, UNCHANGED <<live, disk, record, bound, epoch, queue, chain, pc, basis, span>>,
         repo' \in {repo, "closed"}, poisoned => poisoned', JournalTypes'
  PROVE  JournalInv'
<1>1. Facts' = Facts
  BY DEF Facts
<1>2. GateInOrder' /\ ChainInOrder' /\ OneSide'
  BY <1>1 DEF JournalInv, GateInOrder, ChainInOrder, OneSide
<1>3. StoredIsKept'
  BY DEF JournalInv, StoredIsKept
<1>4. WrittenAfterRead'
  BY <1>1 DEF JournalInv, WrittenAfterRead
<1> QED
  BY <1>2, <1>3, <1>4 DEF JournalInv

(* Opening the storage binds a Session without native facts. *)
LEMMA OpenKeeps ==
  ASSUME JournalInv, OpenStorage
  PROVE  JournalInv'
<1> USE DEF JournalInv
<1>1. UNCHANGED <<live, disk, record, listener, storage, queue, chain, poisoned, disposed, pc,
                  basis, span, journalFaults, journalCrashes, closes>>
  BY DEF OpenStorage
<1>2. epoch' = epoch + 1 /\ repo' = "open" /\ epoch \in Nat /\ epoch' \in Nat /\ epoch' > 0 /\ epoch <= epoch'
  BY DEF OpenStorage, JournalTypes
<1>3. bound' = bound \/ (live = <<>> /\ bound' = epoch' /\ bound' > 0)
  BY <1>2 DEF OpenStorage
<1>4. /\ bound' \in 0..epoch' /\ bound <= bound' /\ (bound' > 0 => live = <<>>)
      /\ Facts # <<>> => Facts' = Facts
      /\ record = <<>> => Facts' = Facts
  BY <1>1, <1>2, <1>3, BindingKeepsFacts
<1>5. JournalTypes'
  BY <1>1, <1>2, <1>4 DEF JournalTypes
<1>6. GateInOrder' /\ ChainInOrder' /\ StoredIsKept'
  BY <1>1 DEF GateInOrder, ChainInOrder, StoredIsKept
<1>7. \A p \in Ops : pc[p] = "commit" => Facts' = Facts
  <2> SUFFICES ASSUME NEW p \in Ops, pc[p] = "commit"
               PROVE  Facts' = Facts
    OBVIOUS
  <2>1. p = Bootstrap => record = <<>>
    BY DEF OneSide, BeforeLog
  <2> QED
    BY <1>4, <2>1 DEF OneSide
<1>8. OneSide'
  <2>1. chain' # <<>> => bound' > 0
    BY <1>1, <1>4 DEF OneSide, JournalTypes
  <2> QED
    BY <1>1, <1>2, <1>4, <1>7, <2>1 DEF OneSide
<1>9. WrittenAfterRead'
  BY <1>1, <1>7 DEF WrittenAfterRead, Ops
<1> QED
  BY <1>5, <1>6, <1>8, <1>9

(* A restart finds the journal in order: what waited is lost, what is stored is read again. *)
LEMMA RestartKeeps ==
  ASSUME JournalInv, JournalRestart
  PROVE  JournalInv'
<1> USE DEF JournalInv
<1>1. /\ live' = disk /\ repo' = "closed" /\ bound' = 0 /\ epoch' = 0 /\ queue' = <<>> /\ chain' = <<>>
      /\ UNCHANGED <<disk, record, listener, basis, span, journalFaults, closes>>
  BY DEF JournalRestart
<1>2. \A p \in Ops : pc'[p] = IF pc[p] \in Waiting THEN "lost" ELSE pc[p]
  BY DEF JournalRestart
<1>3. \A p \in Ops : pc'[p] \notin Waiting
  BY <1>2 DEF Waiting
<1>4. \A p \in Ops : pc'[p] \in BeforeLog => pc'[p] = "idle" /\ pc[p] = "idle"
  BY <1>2 DEF Waiting, BeforeLog
<1>5. Bootstrap \in Ops
  BY JournalAssumption DEF Ops
<1>6. JournalTypes'
  <2>1. pc' \in [Ops -> {"idle"} \cup Waiting \cup Settled]
    BY DEF JournalRestart, JournalTypes, Settled
  <2>2. queue' \in Seq(TeamOps) /\ chain' \in Seq(Ops \X Nat) /\ live' \in Seq(Ops)
    BY <1>1, EmptySeq DEF JournalTypes
  <2>3. journalCrashes' \in 0..MaxJournalCrashes
    BY JournalAssumption DEF JournalRestart, JournalTypes
  <2>4. poisoned' \in BOOLEAN /\ disposed' \in BOOLEAN /\ storage' \in BOOLEAN
    BY DEF JournalRestart
  <2> QED
    BY <1>1, <2>1, <2>2, <2>3, <2>4 DEF JournalTypes
<1>7. GateInOrder' /\ ChainInOrder'
  <2>1. DOMAIN queue' = {} /\ DOMAIN chain' = {}
    BY <1>1
  <2>2. \A p \in TeamOps : pc'[p] \notin Waiting
    BY <1>3 DEF Ops
  <2>3. \A p \in Ops : pc'[p] \notin InRecord
    BY <1>3 DEF Waiting, InRecord
  <2> QED
    BY <2>1, <2>2, <2>3 DEF GateInOrder, ChainInOrder
<1>8. Len(disk) \in Nat /\ Len(live) \in Nat /\ Len(disk) <= Len(live)
      /\ \A i \in 1..Len(disk) : disk[i] = live[i] /\ i \in 1..Len(live) /\ disk[i] \in Ops
  <2>1. Len(disk) \in Nat /\ Len(live) \in Nat /\ \A i \in 1..Len(disk) : disk[i] \in Ops
    BY ElementOfSeq, LenProperties DEF JournalTypes
  <2> QED
    BY <2>1 DEF StoredIsKept
<1>9. live = <<>> => disk = <<>>
  BY <1>8, EmptySeq DEF JournalTypes
<1>10. OneSide'
  <2>1. pc'[Bootstrap] \in BeforeLog => live' = <<>> /\ record' = <<>>
    BY <1>1, <1>4, <1>5, <1>9 DEF OneSide, BeforeLog
  <2>2. \A p \in Ops : pc'[p] # "commit"
    BY <1>3 DEF Waiting
  <2> QED
    BY <1>1, <1>9, <2>1, <2>2 DEF OneSide
<1>11. StoredIsKept'
  <2>1. \A i \in 1..Len(record) : record[i] \in Ops
    BY ElementOfSeq, LenProperties DEF JournalTypes
  <2>2. \A p \in Ops : pc'[p] \notin InRecord \cup {"flush", "list", "write", "prove"}
    BY <1>3 DEF Waiting, InRecord
  <2>3. \A i \in 1..Len(live') : pc'[live'[i]] \notin BeforeLog \cup InRecord
    BY <1>1, <1>4, <1>8, <2>2 DEF StoredIsKept, BeforeLog
  <2>4. \A i \in 1..Len(record) : pc'[record[i]] \notin BeforeLog \cup InRecord
    BY <1>4, <2>1, <2>2 DEF StoredIsKept, BeforeLog
  <2>5. \A p \in Ops : pc'[p] = "acked" => pc[p] = "acked"
    BY <1>2
  <2> QED
    BY <1>1, <1>8, <2>2, <2>3, <2>4, <2>5 DEF StoredIsKept
<1>12. WrittenAfterRead'
  <2>1. \A i \in 1..Len(live') : live'[i] \in TeamOps => Follows(live', i, basis'[live'[i]])
    <3> SUFFICES ASSUME NEW i \in 1..Len(disk), disk[i] \in TeamOps
                 PROVE  Follows(disk, i, basis[disk[i]])
      BY <1>1
    <3>1. Follows(live, i, basis[live[i]]) /\ live[i] = disk[i]
      BY <1>8 DEF WrittenAfterRead
    <3>2. i \in Nat /\ \A j \in 1..(i - 1) : disk[j] = live[j]
      BY <1>8
    <3>3. Follows(disk, i, basis[live[i]])
      BY <3>1, <3>2, FollowsStays
    <3> QED
      BY <3>1, <3>3
  <2>2. \A p \in TeamOps : pc'[p] \notin InRecord \cup {"commit"}
    BY <1>3 DEF Waiting, InRecord, Ops
  <2> QED
    BY <1>1, <2>1, <2>2 DEF WrittenAfterRead
<1> QED
  BY <1>6, <1>7, <1>10, <1>11, <1>12

(* The invariant holds when the Host starts for the first time. *)
LEMMA JournalInitially == JournalInit => JournalInv
<1> SUFFICES ASSUME JournalInit
             PROVE  JournalInv
  OBVIOUS
<1>1. /\ live = <<>> /\ disk = <<>> /\ record = <<>> /\ queue = <<>> /\ chain = <<>>
      /\ Len(live) = 0 /\ Len(disk) = 0 /\ Len(record) = 0
  BY DEF JournalInit
<1>2. \A p \in Ops : pc[p] = "idle"
  BY DEF JournalInit
<1>3. JournalTypes
  <2>1. <<0, 0>> \in Nat \X Nat
    OBVIOUS
  <2>2. /\ live \in Seq(Ops) /\ disk \in Seq(Ops) /\ record \in Seq(Ops)
        /\ queue \in Seq(TeamOps) /\ chain \in Seq(Ops \X Nat)
    BY <1>1, EmptySeq
  <2>3. basis \in [TeamOps -> Seq(Ops)]
    BY EmptySeq DEF JournalInit
  <2>4. bound \in 0..epoch /\ epoch \in Nat /\ repo \in {"closed", "open"}
    BY DEF JournalInit
  <2>5. pc \in [Ops -> {"idle"} \cup Waiting \cup Settled] /\ span \in [Ops -> Nat \X Nat]
    BY <2>1 DEF JournalInit
  <2>6. /\ journalFaults \in 0..MaxJournalFaults /\ journalCrashes \in 0..MaxJournalCrashes
        /\ closes \in 0..MaxCloses
    BY JournalAssumption DEF JournalInit
  <2> QED
    BY <2>2, <2>3, <2>4, <2>5, <2>6 DEF JournalInit, JournalTypes
<1>4. GateInOrder /\ ChainInOrder
  <2>1. DOMAIN queue = {} /\ DOMAIN chain = {}
    BY <1>1
  <2> QED
    BY <1>2, <2>1 DEF GateInOrder, ChainInOrder, Waiting, InRecord, Ops
<1>5. OneSide
  BY <1>1, <1>2 DEF OneSide, JournalInit
<1>6. StoredIsKept
  BY <1>1, <1>2 DEF StoredIsKept
<1>7. WrittenAfterRead
  BY <1>1, <1>2 DEF WrittenAfterRead, InRecord, Ops
<1> QED
  BY <1>3, <1>4, <1>5, <1>6, <1>7 DEF JournalInv

(* Every step of the journal keeps its invariant. *)
LEMMA JournalInductive == JournalInv /\ [JournalNext]_journalVars => JournalInv'
<1> SUFFICES ASSUME JournalInv, [JournalNext]_journalVars
             PROVE  JournalInv'
  OBVIOUS
<1> USE JournalAssumption
<1>1. CASE CloseStorage
  <2>1. JournalTypes'
    BY <1>1 DEF CloseStorage, JournalInv, JournalTypes
  <2> QED
    BY <1>1, <2>1, QuietKeeps DEF CloseStorage
<1>2. CASE StorageAppears
  <2>1. JournalTypes'
    BY <1>2 DEF StorageAppears, JournalInv, JournalTypes
  <2> QED
    BY <1>2, <2>1, QuietKeeps DEF StorageAppears
<1>3. CASE Dispose
  <2>1. JournalTypes'
    BY <1>3 DEF Dispose, JournalInv, JournalTypes
  <2> QED
    BY <1>3, <2>1, QuietKeeps DEF Dispose
<1>4. CASE Poison
  <2>1. JournalTypes'
    BY <1>4 DEF Poison, JournalFault, hostVars, JournalInv, JournalTypes
  <2> QED
    BY <1>4, <2>1, QuietKeeps DEF Poison, hostVars
<1>5. CASE UNCHANGED journalVars
  <2>1. JournalTypes'
    BY <1>5 DEF journalVars, JournalInv, JournalTypes
  <2> QED
    BY <1>5, <2>1, QuietKeeps DEF journalVars
<1> QED
  BY <1>1, <1>2, <1>3, <1>4, <1>5, SubmitKeeps, BeginKeeps, IndexKeeps, WriteKeeps, OpenKeeps, RestartKeeps
     DEF JournalNext

(* The invariant of the journal holds in every state. *)
THEOREM JournalInvariant == JournalSpec => []JournalInv
BY JournalInitially, JournalInductive, PTL DEF JournalSpec

(* What the invariant says of a state. *)
LEMMA JournalStates ==
  ASSUME JournalInv
  PROVE  JournalTypeOK /\ AckedIsDurable /\ OneSource /\ Serialised
<1> USE DEF JournalInv
<1>1. /\ DOMAIN live = 1..Len(live) /\ DOMAIN disk = 1..Len(disk) /\ DOMAIN record = 1..Len(record)
      /\ DOMAIN queue = 1..Len(queue) /\ DOMAIN chain = 1..Len(chain)
  BY LenProperties DEF JournalTypes
<1>2. ToSet(queue) = {o \in TeamOps : pc[o] \in Waiting}
  <2>1. \A i \in DOMAIN queue : queue[i] \in TeamOps
    BY ElementOfSeq, LenProperties DEF JournalTypes
  <2> QED
    BY <2>1 DEF ToSet, GateInOrder
<1>3. {chain[i][1] : i \in DOMAIN chain} = {o \in Ops : pc[o] \in {"chained", "put"}}
  <2>1. \A i \in DOMAIN chain : chain[i][1] \in Ops
    <3>1. \A i \in DOMAIN chain : chain[i] \in Ops \X Nat
      BY ElementOfSeq, LenProperties DEF JournalTypes
    <3> QED
      BY <3>1
  <2> QED
    BY <2>1 DEF ChainInOrder, InRecord
<1>4. JournalTypeOK
  BY <1>2, <1>3 DEF JournalTypeOK, JournalTypes, GateInOrder, IsInjective
<1>5. AckedIsDurable
  BY <1>1 DEF AckedIsDurable, Durable, ToSet, StoredIsKept
<1>6. OneSource
  BY DEF OneSource, OneSide
<1>7. Serialised
  BY <1>1 DEF Serialised, WrittenAfterRead
<1> QED
  BY <1>4, <1>5, <1>6, <1>7

(* A transaction reads only what a restart would find. *)
LEMMA ReadsDurable ==
  ASSUME JournalInv, [JournalNext]_journalVars, NEW o \in TeamOps, pc[o] = "queued", pc'[o] = "commit"
  PROVE  ToSet(basis'[o]) \cap TeamOps \subseteq Durable
<1> USE DEF JournalInv
<1>0. o \in Ops
  BY DEF Ops
<1>1. Begin(o)
  <2>1. \A p \in TeamOps : ~SubmitTransaction(p)
    BY <1>0 DEF SubmitTransaction, JournalTypes
  <2>2. \A p \in IndexOps : ~SubmitIndex(p)
    BY <1>0, JournalAssumption DEF SubmitIndex, JournalTypes
  <2>3. \A p \in TeamOps : Begin(p) => p = o
    BY <1>0 DEF Begin, JournalTypes
  <2>4. \A p \in Ops : ~Write(p)
    <3> SUFFICES ASSUME NEW p \in Ops, Write(p)
                 PROVE  FALSE
      OBVIOUS
    <3>1. PICK w : Moved(p, w) /\ Chained(p, w) /\ Logged(p, w)
      BY WriteShape
    <3> QED
      BY <1>0, <3>1 DEF Moved, JournalTypes, Waiting
  <2>5. pc' # pc
    OBVIOUS
  <2>6. ~JournalRestart
    BY <1>0 DEF JournalRestart, Waiting
  <2> QED
    BY <2>1, <2>2, <2>3, <2>4, <2>5, <2>6
       DEF JournalNext, journalVars, OpenStorage, CloseStorage, StorageAppears, Dispose, Poison
<1>2. ~poisoned /\ basis'[o] = Facts /\ Head(queue) = o
  BY <1>1 DEF Begin, JournalTypes
<1>3. /\ DOMAIN live = 1..Len(live) /\ DOMAIN disk = 1..Len(disk) /\ DOMAIN record = 1..Len(record)
  BY LenProperties DEF JournalTypes
<1>4. CASE bound > 0
  BY <1>2, <1>4 DEF Facts, Durable, JournalTypes
<1>5. CASE bound = 0
  <2> SUFFICES ASSUME NEW i \in 1..Len(live), live[i] \in TeamOps
               PROVE  live[i] \in Durable
    BY <1>2, <1>3, <1>5 DEF Facts, ToSet
  <2>1. pc[live[i]] \notin InNative
    <3> SUFFICES ASSUME pc[live[i]] \in Waiting \ {"queued"}
                 PROVE  FALSE
      BY DEF InNative, Waiting
    <3>1. Head(queue) = live[i]
      BY HeadRuns
    <3> QED
      BY <1>2, <3>1
  <2> QED
    BY <1>2, <1>3, <2>1 DEF StoredIsKept, Durable, ToSet
<1> QED
  BY <1>4, <1>5 DEF JournalTypes

(* What the journal promises: an acknowledged operation is found again, the facts have one source,
   the transactions are serial, and none decides on a fact a restart might not find. *)
THEOREM JournalStaysTrue == JournalSpec => JournalIsTrue
<1>1. JournalInv => JournalTypeOK /\ AckedIsDurable /\ OneSource /\ Serialised
  BY JournalStates
<1>2. JournalInv /\ [JournalNext]_journalVars =>
        [\A o \in TeamOps :
           pc[o] = "queued" /\ pc'[o] = "commit" => ToSet(basis'[o]) \cap TeamOps \subseteq Durable]_journalVars
  BY ReadsDurable
<1> QED
  BY <1>1, <1>2, JournalInvariant, PTL DEF JournalSpec, JournalIsTrue, ReadsAreDurable
====
