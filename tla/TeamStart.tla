---- MODULE TeamStart ----
(***************************************************************************)
(* The start of a Team: one request at a time per conversation, one writer *)
(* at a time in a project directory, a recovery manifest written ahead of  *)
(* every resource, the controller Session and the first commits of its     *)
(* journal; follow-up Teams with a durable intent in the journal of their  *)
(* source; the cleanup of what a failed start left behind.  A Team is      *)
(* identified with the request that starts it.                             *)
(***************************************************************************)
EXTENDS Naturals, Sequences, Functions, FiniteSets

CONSTANTS Starts,      \* requests for a new Team
          Followups,   \* requests, retried or repeated, of one follow-up operation
          Homes, ParentOf,  \* conversations and the one a request comes from
          MaxStartFaults,   \* bound: steps that fail
          MaxStartCrashes   \* bound: restarts of the Host

Requests == Starts \cup Followups

\* A follow-up is asked for in the conversation its source Team belongs to.
ASSUME StartAssumption ==
  /\ Starts \cap Followups = {} /\ {"none", "requested", "source"} \cap Requests = {}
  /\ ParentOf \in [Requests -> Homes]
  /\ \A e, f \in Followups : ParentOf[e] = ParentOf[f]
  /\ MaxStartFaults \in Nat /\ MaxStartCrashes \in Nat

VARIABLES
  mode,      \* of a request: a worktree of its own, or the project directory
             \* with tasks that write or that are all read-only
  place,        \* where the request is
  gate,      \* per conversation the requests in it, the head is running
  lock,      \* who is in the directory admission, the head is running
  phase,     \* of the recovery manifest of a request
  trusted,   \* manifests this Host process has written itself
  tree,      \* "none", "clean", "dirty": worktree and branch; "branch"
  ctl,       \* the controller: "none", "live", "stuck", "disposed", "resumed"
  team,      \* the Team in its journal: "none", "open", "ended"
  ws,        \* its workspace fact: "none", "provisioning", "ready", "recon"
  writes,    \* Teams with a task that is not read-only
  admitted,  \* writers admitted to the directory and never let go since
  intent,    \* of the follow-up: "none", "requested", or the Team started for it
  doubtful,  \* journals with an unknown commit outcome: Teams, or "source"
  upgrade,   \* a read-only Team asking for a writer: "none", "queued", "settled"
  startFaults, startCrashes

journals == <<team, ws, writes, intent, doubtful>>
resources == <<phase, trusted, tree, ctl>>
startVars == <<mode, place, gate, lock, resources, journals, admitted, upgrade, startFaults, startCrashes>>

Git == {r \in Requests : mode[r] = "git"}
Readers == {r \in Requests : mode[r] = "reader"}

Terminal == {"started", "existing", "refused", "failed", "lost"}
Phases == {"none", "planned", "workspace-provisioned", "controller-launching",
           "controller-launched", "bootstrap-failed", "team-bootstrapped",
           "durable-confirming", "confirmation-failed", "completed", "cleaned"}

AllowedRecoveryTransition(from, to) ==
  to \in CASE from = "planned" -> {"workspace-provisioned", "cleaned"}
           [] from = "workspace-provisioned" -> {"controller-launching", "cleaned"}
           [] from = "controller-launching" -> {"controller-launched", "workspace-provisioned"}
           [] from = "controller-launched" -> {"bootstrap-failed", "team-bootstrapped"}
           [] from = "team-bootstrapped" -> {"durable-confirming"}
           [] from = "durable-confirming" -> {"confirmation-failed", "completed"}
           [] from \in {"bootstrap-failed", "confirmation-failed"} -> {"cleaned"}
           [] OTHER -> {}

CleanupEligiblePhase == {"planned", "workspace-provisioned", "bootstrap-failed", "confirmation-failed"}

\* A follow-up works in the directory of its source, always on one request.
StartInit ==
  /\ mode \in [Requests -> {"git", "writer", "reader"}]
  /\ \A f \in Followups : mode[f] # "git" /\ \A e \in Followups : mode[e] = mode[f]
  /\ place = [r \in Requests |-> "idle"]
  /\ gate = [p \in Homes |-> <<>>] /\ lock = <<>>
  /\ phase = [r \in Requests |-> "none"] /\ trusted = {}
  /\ tree = [r \in Requests |-> "none"]
  /\ ctl = [r \in Requests |-> "none"]
  /\ team = [r \in Requests |-> "none"]
  /\ ws = [r \in Requests |-> "none"]
  /\ writes = Requests \ Readers
  /\ admitted = {}
  /\ intent = "none" /\ doubtful = {}
  /\ upgrade = [r \in Requests |-> "none"]
  /\ startFaults = 0 /\ startCrashes = 0

StartFault == startFaults < MaxStartFaults /\ startFaults' = startFaults + 1
NoFault == UNCHANGED startFaults

GoOn(r, to) == place' = [place EXCEPT ![r] = to] /\ UNCHANGED <<gate, lock>>

\* Whoever is inside leaves to the next in the queue.
Leave(q, r) == IF q # <<>> /\ Head(q) = r THEN Tail(q) ELSE q

\* The result leaves the conversation to the next request and the directory
\* to the next writer.
Answer(r, result) ==
  /\ place' = [place EXCEPT ![r] = result]
  /\ gate' = [gate EXCEPT ![ParentOf[r]] = Leave(@, r)]
  /\ lock' = Leave(lock, r)

(***************************************************************************)
(* Admission.                                                              *)
(***************************************************************************)

SubmitRequest(r) ==
  /\ place[r] = "idle"
  /\ place' = [place EXCEPT ![r] = "gate"]
  /\ gate' = [gate EXCEPT ![ParentOf[r]] = Append(@, r)]
  /\ UNCHANGED <<lock, resources, journals, admitted, upgrade, startFaults, startCrashes, mode>>

\* Whether the conversation shows an active Team.  It is told of its Teams
\* asynchronously: it may not know one yet, nor that one has ended.
Busy(p) == {FALSE} \cup {TRUE : t \in {r \in Requests : ParentOf[r] = p /\ team[r] # "none"}}

\* A writer in the project directory passes the directory admission first.
NeedsLock(r) == r \notin Git /\ r \notin Readers

\* A new Team waits for its turn in the conversation, which must not show an
\* active Team, and for the directory when it writes there.
AdmitStart(r) ==
  /\ r \in Starts /\ place[r] = "gate" /\ Head(gate[ParentOf[r]]) = r
  /\ \E busy \in Busy(ParentOf[r]) :
       IF busy THEN Answer(r, "refused")
       ELSE IF NeedsLock(r)
       THEN place' = [place EXCEPT ![r] = "lock"] /\ lock' = Append(lock, r) /\ UNCHANGED gate
       ELSE GoOn(r, "manifest")
  /\ UNCHANGED <<resources, journals, admitted, upgrade, startFaults, startCrashes, mode>>

\* A source takes one request at a time; its result closes exactly that request.
FollowupPending == intent = "requested"

\* A follow-up whose intent is durable and without a target is reconciled: the
\* one Team the Host's Sessions hold for the operation, with a ready workspace,
\* is its target; no Team, an unproven one or a failed enumeration leave the
\* intent as it is.
Candidates == {r \in Followups : team[r] # "none"}

Reconcile(r) ==
  /\ r \in Followups /\ place[r] = "gate" /\ Head(gate[ParentOf[r]]) = r
  /\ FollowupPending
  /\ \/ /\ "source" \notin doubtful
        /\ \E t \in Candidates :
             /\ Candidates = {t} /\ ws[t] = "ready"
             /\ \/ intent' = t /\ Answer(r, "existing") /\ NoFault /\ UNCHANGED doubtful
                \/ /\ StartFault /\ intent' \in {"requested", t}
                   /\ doubtful' = doubtful \cup {"source"}
                   /\ Answer(r, "failed")
     \/ /\ \/ "source" \in doubtful
           \/ ~\E t \in Candidates : Candidates = {t} /\ ws[t] = "ready"
        /\ Answer(r, "failed")
        /\ NoFault /\ UNCHANGED <<intent, doubtful>>
     \/ StartFault /\ Answer(r, "failed") /\ UNCHANGED <<intent, doubtful>>
  /\ UNCHANGED <<resources, team, ws, writes, admitted, upgrade, startCrashes, mode>>

\* Mutant: a pending intent is taken for a request that failed.
AdmitFollowupAgain(r) ==
  /\ r \in Followups /\ place[r] = "gate" /\ Head(gate[ParentOf[r]]) = r
  /\ IF intent \in Followups THEN Answer(r, "existing")
     ELSE IF NeedsLock(r)
     THEN place' = [place EXCEPT ![r] = "lock"] /\ lock' = Append(lock, r) /\ UNCHANGED gate
     ELSE GoOn(r, "intent")
  /\ UNCHANGED <<resources, journals, admitted, upgrade, startFaults, startCrashes, mode>>

AdmitFollowup(r) ==
  /\ r \in Followups /\ place[r] = "gate" /\ Head(gate[ParentOf[r]]) = r
  /\ ~FollowupPending
  /\ IF intent \in Followups
     THEN Answer(r, IF "source" \in doubtful THEN "failed" ELSE "existing")
     ELSE IF NeedsLock(r)
     THEN place' = [place EXCEPT ![r] = "lock"] /\ lock' = Append(lock, r) /\ UNCHANGED gate
     ELSE GoOn(r, "intent")
  /\ UNCHANGED <<resources, journals, admitted, upgrade, startFaults, startCrashes, mode>>

\* A listed Session whose Team has a workspace in the directory, may write and
\* has not ended.
Competes(r) == /\ ctl[r] \in {"live", "stuck", "resumed"}
               /\ r \notin Git /\ r \in writes
               /\ ws[r] # "none" /\ team[r] = "open"

\* Mutant: a writer looks before its turn.
CheckEarly(r) ==
  /\ place[r] = "lock"
  /\ IF \E o \in Requests : Competes(o)
     THEN Answer(r, "refused") /\ UNCHANGED admitted
     ELSE /\ GoOn(r, IF r \in Followups THEN "intent" ELSE "manifest")
          /\ admitted' = admitted \cup {r}
  /\ UNCHANGED <<resources, journals, upgrade, startFaults, startCrashes, mode>>

\* The head of the directory admission looks for a competing writer.
CheckWriters(r) ==
  /\ place[r] = "lock" /\ Head(lock) = r
  /\ IF \E o \in Requests : Competes(o)
     THEN Answer(r, "refused") /\ UNCHANGED admitted
     ELSE /\ GoOn(r, IF r \in Followups THEN "intent" ELSE "manifest")
          /\ admitted' = admitted \cup {r}
  /\ UNCHANGED <<resources, journals, upgrade, startFaults, startCrashes, mode>>

\* The parent conversation has another Team that has not ended.
ParentBusy(r) == TRUE \in Busy(ParentOf[r])

\* The follow-up is checked and its intent committed before anything is started.
Intend(r) ==
  /\ place[r] = "intent"
  /\ \/ /\ "source" \in doubtful
        /\ Answer(r, "failed")
        /\ NoFault /\ UNCHANGED <<intent, doubtful>>
     \/ /\ "source" \notin doubtful /\ ParentBusy(r)
        /\ Answer(r, "refused")
        /\ NoFault /\ UNCHANGED <<intent, doubtful>>
     \/ /\ "source" \notin doubtful
        /\ \/ intent' = "requested" /\ GoOn(r, "manifest") /\ NoFault /\ UNCHANGED doubtful
           \/ /\ StartFault /\ intent' \in {"none", "requested"}
              /\ doubtful' = doubtful \cup {"source"}
              /\ Answer(r, "failed")
  /\ UNCHANGED <<resources, team, ws, writes, admitted, upgrade, startCrashes, mode>>

(***************************************************************************)
(* The start proper.                                                       *)
(***************************************************************************)

\* Mutant: the worktree is not preceded by a manifest.
ManifestAfterwards(r) ==
  /\ place[r] = "manifest" /\ GoOn(r, "tree")
  /\ UNCHANGED <<resources, journals, admitted, upgrade, startFaults, startCrashes, mode>>

\* Identity and exact paths are on disk before the worktree is created.
CreateManifest(r) ==
  /\ place[r] = "manifest"
  /\ \/ /\ GoOn(r, "tree") /\ NoFault
        /\ phase' = IF r \in Git THEN [phase EXCEPT ![r] = "planned"] ELSE phase
        /\ trusted' = trusted \cup ({r} \cap Git)
     \/ Answer(r, "failed") /\ StartFault /\ UNCHANGED <<phase, trusted>>
  /\ UNCHANGED <<tree, ctl, journals, admitted, upgrade, startCrashes, mode>>

\* What the manifest advances to, where the start goes on, and where it goes
\* when the manifest cannot be advanced.
Advances == [provisioned  |-> <<"workspace-provisioned", "launching", "failed">>,
             launching    |-> <<"controller-launching", "launch", "failed">>,
             launched     |-> <<"controller-launched", "bootstrap", "undo">>,
             bootstrapped |-> <<"team-bootstrapped", "confirming", "drop">>,
             confirming   |-> <<"durable-confirming", "workspace", "drop">>,
             complete     |-> <<"completed", "publish", "drop">>]

\* A direct start has no manifest to advance.
Recorded(r, to) ==
  GoOn(r, IF r \in Git THEN to
          ELSE CASE to = "provisioned" -> "launch"    [] to = "launched" -> "bootstrap"
                 [] to = "bootstrapped" -> "workspace" [] to = "complete" -> "publish"
                 [] OTHER -> to)

\* An interrupted git worktree add leaves nothing, the branch, or all of it.
Interrupted == {"none", "branch", "clean"}

\* git worktree add creates branch and worktree, or fails anywhere between; a
\* direct workspace only has to exist.
ProvisionPhysical(r) ==
  /\ place[r] = "tree"
  /\ \/ /\ NoFault /\ Recorded(r, "provisioned")
        /\ tree' = IF r \in Git THEN [tree EXCEPT ![r] = "clean"] ELSE tree
     \/ /\ StartFault /\ Answer(r, "failed")
        /\ IF r \in Git THEN \E t \in Interrupted : tree' = [tree EXCEPT ![r] = t]
                        ELSE UNCHANGED tree
  /\ UNCHANGED <<phase, trusted, ctl, journals, admitted, upgrade, startCrashes, mode>>

Exit(r, to) == IF to = "failed" THEN Answer(r, to) ELSE GoOn(r, to)

Advance(r) ==
  /\ place[r] \in DOMAIN Advances
  /\ LET a == Advances[place[r]] IN
     \/ /\ GoOn(r, a[2]) /\ NoFault
        /\ AllowedRecoveryTransition(phase[r], a[1])
        /\ phase' = [phase EXCEPT ![r] = a[1]]
     \/ /\ Exit(r, a[3]) /\ UNCHANGED phase
        /\ IF AllowedRecoveryTransition(phase[r], a[1]) THEN StartFault ELSE NoFault
  /\ UNCHANGED <<trusted, tree, ctl, journals, admitted, upgrade, startCrashes, mode>>

\* A fresh controller in the workspace.
Launch(r) ==
  /\ place[r] = "launch"
  /\ \/ ctl' = [ctl EXCEPT ![r] = "live"] /\ Recorded(r, "launched") /\ NoFault
     \/ StartFault /\ Answer(r, "failed") /\ UNCHANGED ctl
  /\ UNCHANGED <<phase, trusted, tree, journals, admitted, upgrade, startCrashes, mode>>

\* A commit to the journal of the new Team: done, or its outcome is unknown,
\* which closes that journal for this process.
Commit(r, var, value, next, failure) ==
  /\ r \notin doubtful
  /\ \/ var' = [var EXCEPT ![r] = value] /\ Recorded(r, next) /\ NoFault /\ UNCHANGED doubtful
     \/ /\ StartFault /\ GoOn(r, failure)
        /\ var' \in {var, [var EXCEPT ![r] = value]}
        /\ doubtful' = doubtful \cup {r}

CommitBootstrap(r) ==
  /\ place[r] = "bootstrap"
  /\ Commit(r, team, "open", "bootstrapped", "drop_bootstrap")
  /\ UNCHANGED <<resources, ws, writes, intent, admitted, upgrade, startCrashes, mode>>

\* The same workspace as a fact of the Team: intent, proof, confirmation.
IntendWorkspace(r) ==
  /\ place[r] = "workspace"
  /\ Commit(r, ws, "provisioning", "prove", "drop_confirm")
  /\ UNCHANGED <<resources, team, writes, intent, admitted, upgrade, startCrashes, mode>>

\* The worktree is registered, at its baseline, on its branch and clean.
Provable(r) == r \in Git => tree[r] = "clean"

ProveWorkspace(r) ==
  /\ place[r] = "prove"
  /\ \/ Provable(r) /\ GoOn(r, "confirm") /\ NoFault
     \/ /\ IF Provable(r) THEN StartFault ELSE NoFault
        /\ GoOn(r, "unproven")
  /\ UNCHANGED <<resources, journals, admitted, upgrade, startCrashes, mode>>

RecordReconciliation(r) ==
  /\ place[r] = "unproven"
  /\ Commit(r, ws, "recon", "drop_confirm", "drop_confirm")
  /\ UNCHANGED <<resources, team, writes, intent, admitted, upgrade, startCrashes, mode>>

ConfirmWorkspace(r) ==
  /\ place[r] = "confirm"
  /\ Commit(r, ws, "ready", "complete", "drop_confirm")
  /\ UNCHANGED <<resources, team, writes, intent, admitted, upgrade, startCrashes, mode>>

\* A new Team is handed to its caller; a follow-up is first published in the
\* journal of its source, and its controller disposed when that fails.
PublishStart(r) ==
  /\ place[r] = "publish"
  /\ \/ r \in Starts /\ Answer(r, "started") /\ NoFault /\ UNCHANGED <<intent, doubtful>>
     \/ r \in Followups /\ intent' = r /\ Answer(r, "started") /\ NoFault /\ UNCHANGED doubtful
     \/ /\ r \in Followups /\ StartFault /\ GoOn(r, "drop")
        /\ intent' \in {"requested", r}
        /\ doubtful' = doubtful \cup {"source"}
  /\ UNCHANGED <<resources, team, ws, writes, admitted, upgrade, startCrashes, mode>>

\* The phase the manifest of a failed start gets once its controller is gone.
Marks == [undo           |-> "workspace-provisioned", drop         |-> "unmarked",
          drop_bootstrap |-> "bootstrap-failed",      drop_confirm |-> "confirmation-failed"]

\* A failed start disposes its controller and then marks the manifest; while
\* the controller cannot be disposed, and when the manifest cannot be
\* advanced, the phase stays one that no cleanup accepts.
Discard(r) ==
  /\ place[r] \in DOMAIN Marks
  /\ \/ /\ StartFault /\ ctl' = [ctl EXCEPT ![r] = "stuck"]
        /\ UNCHANGED <<phase, admitted>>
     \/ /\ ctl' = [ctl EXCEPT ![r] = "disposed"]
        /\ admitted' = admitted \ {r}
        /\ LET markable == AllowedRecoveryTransition(phase[r], Marks[place[r]]) IN
           \/ markable /\ phase' = [phase EXCEPT ![r] = Marks[place[r]]] /\ NoFault
           \/ UNCHANGED phase /\ IF markable THEN StartFault ELSE NoFault
  /\ Answer(r, "failed")
  /\ UNCHANGED <<trusted, tree, journals, upgrade, startCrashes, mode>>

(***************************************************************************)
(* After the start.                                                        *)
(***************************************************************************)

Reachable(r) == ctl[r] \in {"live", "resumed"} /\ r \notin doubtful

\* The Team of a finished start, successful or not, ends or is cancelled.
\* (What becomes of a Team in a worktree of its own is nobody's business here.)
TeamEnds(r) ==
  /\ r \notin Git /\ place[r] \in Terminal /\ Reachable(r) /\ team[r] = "open"
  /\ team' = [team EXCEPT ![r] = "ended"]
  /\ UNCHANGED <<place, gate, lock, resources, ws, writes, intent, doubtful, admitted,
                 upgrade, startFaults, startCrashes, mode>>

\* A controller that is gone is loaded again from its persisted Session.
ResumeStart(r) ==
  /\ r \notin Git /\ ctl[r] \in {"disposed", "cold"} /\ team[r] # "none" /\ place[r] \in Terminal
  /\ ctl' = [ctl EXCEPT ![r] = "resumed"]
  /\ UNCHANGED <<place, gate, lock, phase, trusted, tree, journals, admitted, upgrade,
                 startFaults, startCrashes, mode>>

\* A permission that makes a read-only Team a writer, or the manual takeover
\* of one of its tasks, passes the same admission as a new writer.
AskWriter(r) ==
  /\ r \in Readers \ Git /\ r \notin writes /\ upgrade[r] = "none"
  /\ place[r] = "started" /\ Reachable(r) /\ team[r] = "open"
  /\ upgrade' = [upgrade EXCEPT ![r] = "queued"]
  /\ lock' = Append(lock, r)
  /\ UNCHANGED <<place, gate, resources, journals, admitted, startFaults, startCrashes, mode>>

\* A Team never competes with itself.
GrantWriter(r) ==
  /\ upgrade[r] = "queued" /\ Head(lock) = r
  /\ \/ /\ (\E o \in Requests \ {r} : Competes(o)) \/ r \in doubtful
        /\ NoFault /\ UNCHANGED <<writes, admitted, doubtful>>
     \/ /\ ~\E o \in Requests \ {r} : Competes(o)
        /\ r \notin doubtful
        /\ admitted' = admitted \cup {r}
        /\ \/ writes' = writes \cup {r} /\ NoFault /\ UNCHANGED doubtful
           \/ /\ StartFault /\ writes' \in {writes, writes \cup {r}}
              /\ doubtful' = doubtful \cup {r}
  /\ upgrade' = [upgrade EXCEPT ![r] = "settled"]
  /\ lock' = Tail(lock)
  /\ UNCHANGED <<place, gate, resources, team, ws, intent, startCrashes, mode>>

\* Somebody writes in a worktree that a start has left behind; during the
\* start it is a proof that fails.
Touch(r) ==
  /\ place[r] \in {"failed", "lost"} /\ tree[r] = "clean"
  /\ tree' = [tree EXCEPT ![r] = "dirty"]
  /\ UNCHANGED <<place, gate, lock, phase, trusted, ctl, journals, admitted, upgrade,
                 startFaults, startCrashes, mode>>

\* The stored manifest is, to the last field, the one this process wrote.
ExactOwner(r) == r \in trusted

\* What is registered, the branch and its head are what the manifest names,
\* and nobody has written in the worktree.
GitProof(r) == tree[r] # "dirty"

\* The process that wrote a manifest may remove what it names: the worktree
\* while it is clean, then the branch, then the manifest is closed.
Cleanup(r) ==
  /\ place[r] \in Terminal /\ ExactOwner(r)
  /\ phase[r] \in CleanupEligiblePhase /\ GitProof(r)
  /\ \/ /\ tree' = [tree EXCEPT ![r] = "none"]
        /\ phase' = [phase EXCEPT ![r] = "cleaned"] /\ NoFault
     \/ /\ StartFault /\ UNCHANGED phase
        /\ \E t \in {"branch", "none"} : tree[r] # "none" /\ tree' = [tree EXCEPT ![r] = t]
  /\ UNCHANGED <<place, gate, lock, trusted, ctl, journals, admitted, upgrade, startCrashes, mode>>

\* The Host stops and starts again: what runs in it is lost, what is on disk
\* or in a journal stays.
StartRestart ==
  /\ startCrashes < MaxStartCrashes /\ startCrashes' = startCrashes + 1
  /\ place' = [r \in Requests |-> IF place[r] \in Terminal \cup {"idle"} THEN place[r] ELSE "lost"]
  /\ gate' = [p \in Homes |-> <<>>] /\ lock' = <<>>
  /\ trusted' = {} /\ doubtful' = {} /\ admitted' = {}
  /\ ctl' = [r \in Requests |-> IF ctl[r] = "none" THEN "none" ELSE "cold"]
  /\ upgrade' = [r \in Requests |-> IF upgrade[r] = "queued" THEN "settled" ELSE upgrade[r]]
  /\ UNCHANGED <<phase, tree, team, ws, writes, intent, startFaults, mode>>

Step(r) == \/ AdmitStart(r) \/ AdmitFollowup(r) \/ Reconcile(r) \/ CheckWriters(r) \/ Intend(r)
           \/ CreateManifest(r) \/ ProvisionPhysical(r) \/ Advance(r) \/ Launch(r) \/ CommitBootstrap(r)
           \/ IntendWorkspace(r) \/ ProveWorkspace(r) \/ RecordReconciliation(r)
           \/ ConfirmWorkspace(r) \/ PublishStart(r) \/ Discard(r) \/ GrantWriter(r)

Environment(r) == \/ SubmitRequest(r) \/ TeamEnds(r) \/ ResumeStart(r) \/ AskWriter(r)
                  \/ Touch(r) \/ Cleanup(r)

StartNext == (\E r \in Requests : Step(r) \/ Environment(r)) \/ StartRestart

\* What has been accepted runs on by itself.
StartSpec == StartInit /\ [][StartNext]_startVars /\ \A r \in Requests : WF_startVars(Step(r))

(***************************************************************************)
(* Properties.                                                             *)
(***************************************************************************)

StartTypeOK ==
  /\ mode \in [Requests -> {"git", "writer", "reader"}]
  /\ place \in [Requests -> Terminal \cup DOMAIN Advances \cup DOMAIN Marks \cup
       {"idle", "gate", "lock", "intent", "manifest", "tree", "launch", "bootstrap",
        "workspace", "prove", "unproven", "confirm", "publish"}]
  /\ \A p \in Homes : /\ IsInjective(gate[p])
                        /\ Range(gate[p]) = {r \in Requests : ParentOf[r] = p
                                               /\ place[r] \notin Terminal \cup {"idle"}}
  /\ IsInjective(lock)
  /\ Range(lock) \subseteq {r \in Requests : upgrade[r] = "queued" \/ place[r] \notin Terminal \cup {"idle", "gate"}}
  /\ phase \in [Requests -> Phases] /\ trusted \subseteq Git
  /\ tree \in [Requests -> {"none", "clean", "dirty", "branch"}]
  /\ ctl \in [Requests -> {"none", "live", "stuck", "disposed", "cold", "resumed"}]
  /\ team \in [Requests -> {"none", "open", "ended"}]
  /\ ws \in [Requests -> {"none", "provisioning", "ready", "recon"}]
  /\ writes \subseteq Requests /\ admitted \subseteq Requests
  /\ intent \in {"none", "requested"} \cup Followups
  /\ doubtful \subseteq Requests \cup {"source"}
  /\ upgrade \in [Requests -> {"none", "queued", "settled"}]
  /\ startFaults \in 0..MaxStartFaults /\ startCrashes \in 0..MaxStartCrashes

\* Whatever fails and whenever the Host stops, a worktree or branch the start
\* of a Team has created is named by a manifest that is not closed as cleaned.
ManifestCoversResidue ==
  \A r \in Git : tree[r] # "none" => phase[r] \notin {"none", "cleaned"}

\* A worktree is removed only when nobody wrote in it and the controller the
\* start launched there is gone, never under a Team that was started.
CleanupSparesControllers ==
  [][\A r \in Git : tree[r] \in {"clean", "dirty"} /\ tree'[r] \in {"branch", "none"}
       => tree[r] = "clean" /\ ctl[r] \notin {"live", "stuck"} /\ place[r] # "started"]_startVars

\* A start that reports a Team reports one that can run: bootstrapped, with a
\* confirmed workspace and a live controller, its manifest closed, and linked
\* in its source when it is a follow-up.
StartedIsRunnable ==
  [][\A r \in Requests : place[r] # "started" /\ place'[r] = "started"
       => /\ team[r] = "open" /\ ws[r] = "ready" /\ ctl[r] = "live"
          /\ r \in Git => phase[r] = "completed"
          /\ r \in Followups => intent' = r]_startVars

\* No two Teams write in one project directory, however starts, failures and
\* permission upgrades interleave, as long as neither controller is let go.
WritersNeverShare ==
  \A a, b \in admitted : a # b => ~(Competes(a) /\ Competes(b))

\* However often a follow-up is retried, and wherever the first try stops,
\* one Team at most is created for it, and only a ready one is its target.
OneFollowup ==
  /\ Cardinality(Candidates) <= 1
  /\ intent \in Followups => Candidates = {intent} /\ ws[intent] = "ready"

\* Together: a request makes at most one Team, which it reports only when it
\* can run, and clearing up after it never takes a Team's ground away.
StartsAreTrue == [](StartTypeOK /\ OneFollowup) /\ StartedIsRunnable /\ CleanupSparesControllers
====
