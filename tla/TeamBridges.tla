---- MODULE TeamBridges ----
(***************************************************************************)
(* The index of Teams a parent conversation keeps.  Every controller       *)
(* publishes its newest cut as a bridge in the sidecar record of the       *)
(* conversation it is bound to; a rebind leaves a tombstone in the one it  *)
(* left.  Appends of one record pass through a queue, so what a sync has   *)
(* read may be stale when its entry is stored.  The record compacts        *)
(* superseded cuts.  The second part ("adapters") are the optimistic       *)
(* writers of one record: OwnedTeamJournal over OwnedEventStore.           *)
(***************************************************************************)
EXTENDS Naturals, Sequences, SequencesExt, FiniteSets

CONSTANTS Controllers, Parents, NoParent,
          Ordinals,     \* possible creation orders; 0: an identifier without one
          Writers, Batches,
          MaxFacts,     \* bound: cuts of a controller
          MaxMoves,     \* bound: commits, rebinds and closed conversations together
          MaxBridgeFaults,    \* bound: appends that fail
          MaxRecord     \* bound: batches of the record the adapters share

ASSUME BridgesAssumption ==
  /\ Parents # {} /\ NoParent \notin Parents
  /\ \A o \in Ordinals : o \in [Controllers -> Nat]
  /\ MaxFacts \in Nat /\ MaxMoves \in Nat /\ MaxBridgeFaults \in Nat /\ MaxRecord \in Nat

VARIABLES
  part,      \* which part this behaviour is about
  ordinal,   \* creation order of the controllers
  facts,     \* number of Team events of each controller
  binding,   \* the conversation each controller is bound to
  open,      \* conversations the Host has loaded
  log,       \* the record of each conversation
  pending,     \* its pending appends
  sync,      \* the syncs of a controller: its coalesced job and one explicit call
  dirty,     \* the job has to run once more
  moves, bridgeFaults,
  shared,    \* the record of the adapters: <<author, batch>> in order
  rev,       \* the revision each adapter decides on, or Unread
  known      \* the batches each adapter has read or written

bridgeVars == <<ordinal, facts, binding, open, log, pending, sync, dirty, moves>>
adapterVars == <<shared, rev, known>>
bridgesVars == <<part, ordinal, facts, binding, open, log, pending, sync, dirty, moves, bridgeFaults,
          shared, rev, known>>

Jobs == {"job", "call"}
Idle == [pc |-> "idle", to |-> NoParent, gen |-> 0]
Unread == MaxRecord + 1

(***************************************************************************)
(* What the record of a conversation says.                                 *)
(***************************************************************************)

BridgeOf(c, gen, act, revision, cut) ==
  [kind |-> "bridge", c |-> c, gen |-> gen, act |-> act, rev |-> revision,
   cut |-> cut, ord |-> ordinal[c]]
TombOf(c, gen) == [BridgeOf(c, gen, 0, 0, 0) EXCEPT !.kind = "tomb"]

IsBridge(e) == e.kind = "bridge"
\* The record as it would be without compaction.
Whole(es) == [i \in DOMAIN es |->
                IF es[i].kind = "compacted" THEN [es[i] EXCEPT !.kind = "bridge"] ELSE es[i]]

Newer(b, a) ==
  IF b.rev # a.rev THEN b.rev > a.rev ELSE b.cut >= a.cut

NoBridge == [TombOf(CHOOSE c \in Controllers : TRUE, 0) EXCEPT !.kind = "none"]
NoActivation == [active |-> NoBridge, gens |-> [c \in Controllers |-> 0], next |-> 1]

NextUnused(st) ==
  LET used == {st.gens[c] : c \in Controllers}
  IN CHOOSE g \in st.next .. st.next + Cardinality(Controllers) :
       g \notin used /\ \A h \in st.next .. g - 1 : h \in used

\* The candidate takes the place of the active bridge.
Takes(b, a, gens) ==
  \/ a.kind = "none"
  \/ a.c = b.c /\ Newer(b, a)
  \/ a.c # b.c /\ b.ord > 0 /\ b.ord > a.ord
  \/ a.c # b.c /\ b.ord = 0 /\ a.ord = 0 /\ gens[b.c] > gens[a.c]

Activate(st, b) ==
  IF st.gens[b.c] = 0 /\ b.act > 0 /\ \E c \in Controllers : st.gens[c] = b.act
  THEN st
  ELSE LET g == IF st.gens[b.c] > 0 THEN st.gens[b.c]
                ELSE IF b.act > 0 THEN b.act ELSE NextUnused(st)
           gens == [st.gens EXCEPT ![b.c] = g]
       IN [active |-> IF Takes(b, st.active, gens) THEN b ELSE st.active,
           gens |-> gens,
           next |-> IF st.next > g THEN st.next ELSE g + 1]

\* Mutant: a tombstone does not take the Team off the conversation.
ActivationByCuts(st, e) == IF IsBridge(e) THEN Activate(st, e) ELSE st

ActivationAfter(st, e) ==
  CASE IsBridge(e) -> Activate(st, e)
    [] e.kind = "tomb" /\ st.active.kind = "bridge" /\ st.active.c = e.c
         /\ e.gen >= st.active.gen -> [st EXCEPT !.active = NoBridge]
    [] OTHER -> st
Activation(es) == FoldLeft(ActivationAfter, NoActivation, es)
Active(es) == Activation(es).active

\* The newest cut of a controller; of equals the one stored last.
Latest(es, c) ==
  LET cuts == {i \in DOMAIN es : IsBridge(es[i]) /\ es[i].c = c}
  IN IF cuts = {} THEN NoBridge
     ELSE es[CHOOSE i \in cuts : \A k \in cuts : Newer(es[i], es[k]) /\ (Newer(es[k], es[i]) => k <= i)]
HasTomb(es, c, gen) ==
  \E i \in DOMAIN es : es[i].kind = "tomb" /\ es[i].c = c /\ es[i].gen >= gen
\* The cut of a controller a command of this conversation may use.
CutFor(es, c) ==
  LET b == Latest(es, c)
  IN IF b.kind = "none" \/ HasTomb(es, c, b.gen) THEN 0 ELSE b.cut

HasCut(es, c, gen, cut) ==
  \E i \in DOMAIN es : IsBridge(es[i]) /\ es[i].c = c /\ es[i].gen = gen /\ es[i].cut = cut

NextBridge(es, c, gen) ==
  LET st == Activation(SelectSeq(es, IsBridge))
      revs == {es[i].rev : i \in {j \in DOMAIN es : IsBridge(es[j]) /\ es[j].c = c}} \cup {0}
  IN BridgeOf(c, gen, IF st.gens[c] > 0 THEN st.gens[c] ELSE NextUnused(st),
              (CHOOSE r \in revs : \A s \in revs : r >= s) + 1, facts[c])

\* Superseded cuts lose their payload; the first cut of a controller keeps
\* the order in which controllers were first seen.
Compacts(es, i, new) ==
  /\ IsBridge(es[i]) /\ es[i].c = new.c
  /\ \E j \in 1 .. i - 1 : IsBridge(es[j]) /\ es[j].c = new.c
  /\ es[i].gen <= new.gen
  /\ es[i].rev = 0 \/ new.rev = 0 \/ es[i].rev < new.rev
Append1(es, e) ==
  Append(IF IsBridge(e)
         THEN [i \in DOMAIN es |-> IF Compacts(es, i, e) THEN [es[i] EXCEPT !.kind = "compacted"] ELSE es[i]]
         ELSE es, e)

(***************************************************************************)
(* A sync: tombstone in the conversation left, then the cut in the         *)
(* conversation bound.  The binding is read once, at the beginning.        *)
(***************************************************************************)

Enqueue(p, e, c, j) == pending' = [pending EXCEPT ![p] = Append(@, [e |-> e, c |-> c, j |-> j])]

\* A job that was asked again meanwhile starts over.
Ended(c, j) == IF j = "job" /\ dirty[c] THEN [Idle EXCEPT !.pc = "asked"] ELSE Idle

\* The conversation left by the newest binding lacks its tombstone.
Owes(c) ==
  /\ binding[c].prev \in open \ {binding[c].to}
  /\ ~HasTomb(log[binding[c].prev], c, binding[c].gen)

\* The tombstone is handed to the queue of the conversation that was left.
Detach(c, j) ==
  LET b == binding[c] IN
  /\ sync[c][j].pc = "asked" /\ Owes(c)
  /\ sync' = [sync EXCEPT ![c][j] = [pc |-> "detaching", to |-> b.to, gen |-> b.gen]]
  /\ Enqueue(b.prev, TombOf(c, b.gen), c, j)
  /\ dirty' = IF j = "job" THEN [dirty EXCEPT ![c] = FALSE] ELSE dirty
  /\ UNCHANGED <<part, ordinal, facts, binding, open, log, moves, bridgeFaults, adapterVars>>

\* Where the cut goes: the binding read when the sync began, which is now
\* unless the sync had to wait for a tombstone.
Target(c, j) ==
  IF sync[c][j].pc = "attach" THEN sync[c][j] ELSE [pc |-> "attach", to |-> binding[c].to, gen |-> binding[c].gen]
Attaches(c, j) == sync[c][j].pc = "attach" \/ (sync[c][j].pc = "asked" /\ ~Owes(c))

\* Nothing to publish: the conversation is closed, the Team has no event, or
\* this very cut is already there.
NothingNew(c, s) == s.to \notin open \/ facts[c] = 0 \/ HasCut(log[s.to], c, s.gen, facts[c])

SkipAttach(c, j) ==
  /\ Attaches(c, j) /\ NothingNew(c, Target(c, j))
  /\ sync' = [sync EXCEPT ![c][j] =
       IF @.pc = "asked" THEN Idle ELSE Ended(c, j)]
  /\ dirty' = IF j = "job" THEN [dirty EXCEPT ![c] = FALSE] ELSE dirty
  /\ UNCHANGED <<part, ordinal, facts, binding, open, log, pending, moves, bridgeFaults, adapterVars>>

Attach(c, j) ==
  LET s == Target(c, j) IN
  /\ Attaches(c, j) /\ ~NothingNew(c, s)
  /\ Enqueue(s.to, NextBridge(log[s.to], c, s.gen), c, j)
  /\ sync' = [sync EXCEPT ![c][j] = [s EXCEPT !.pc = "attaching"]]
  /\ dirty' = IF j = "job" /\ sync[c][j].pc = "asked" THEN [dirty EXCEPT ![c] = FALSE] ELSE dirty
  /\ UNCHANGED <<part, ordinal, facts, binding, open, log, moves, bridgeFaults, adapterVars>>

\* A sync whose append has ended goes on before anything else is delivered.
Delivered == \A c \in Controllers, j \in Jobs : sync[c][j].pc # "attach"

\* The owner of the append goes on: after a tombstone, failed or not, with the
\* cut; after the cut the sync has ended.
ResumeSync(item) ==
  sync' = [sync EXCEPT ![item.c][item.j] =
             IF item.e.kind = "tomb" THEN [@ EXCEPT !.pc = "attach"] ELSE Ended(item.c, item.j)]

StoreEntry(p) ==
  /\ Delivered /\ pending[p] # <<>>
  /\ log' = [log EXCEPT ![p] = Append1(@, Head(pending[p]).e)]
  /\ ResumeSync(Head(pending[p]))
  /\ pending' = [pending EXCEPT ![p] = Tail(@)]
  /\ UNCHANGED <<part, ordinal, facts, binding, open, dirty, moves, bridgeFaults, adapterVars>>

LoseEntry(p) ==
  /\ Delivered /\ pending[p] # <<>> /\ bridgeFaults < MaxBridgeFaults
  /\ bridgeFaults' = bridgeFaults + 1
  /\ ResumeSync(Head(pending[p]))
  /\ pending' = [pending EXCEPT ![p] = Tail(@)]
  /\ UNCHANGED <<part, ordinal, facts, binding, open, log, dirty, moves, adapterVars>>

\* A durable commit of the controller asks for one sync, or for one more.
CommitFact(c) ==
  /\ part = "bridges" /\ Delivered /\ facts[c] < MaxFacts /\ moves < MaxMoves
  /\ facts' = [facts EXCEPT ![c] = @ + 1]
  /\ IF sync[c]["job"].pc = "idle"
     THEN sync' = [sync EXCEPT ![c]["job"].pc = "asked"] /\ UNCHANGED dirty
     ELSE dirty' = [dirty EXCEPT ![c] = TRUE] /\ UNCHANGED sync
  /\ moves' = moves + 1
  /\ UNCHANGED <<part, ordinal, binding, open, log, pending, bridgeFaults, adapterVars>>

\* The Team moves to another conversation of the project.  Both have to be
\* loaded.  The binding is durable before the awaited sync begins.
Rebind(c, p) ==
  /\ part = "bridges" /\ Delivered /\ moves < MaxMoves /\ facts[c] > 0
  /\ sync[c]["call"].pc = "idle"
  /\ p \in open /\ binding[c].to \in open
  /\ binding' = IF binding[c].to = p THEN binding
                ELSE [binding EXCEPT ![c] = [to |-> p, prev |-> @.to, gen |-> @.gen + 1]]
  /\ sync' = [sync EXCEPT ![c]["call"].pc = "asked"]
  /\ moves' = moves + 1
  /\ UNCHANGED <<part, ordinal, facts, open, log, pending, dirty, bridgeFaults, adapterVars>>

CloseParent(p) ==
  /\ part = "bridges" /\ Delivered /\ p \in open /\ moves < MaxMoves
  /\ open' = open \ {p}
  /\ moves' = moves + 1
  /\ UNCHANGED <<part, ordinal, facts, binding, log, pending, sync, dirty, bridgeFaults, adapterVars>>

\* Mutant: only those bound to it.
InvolvedBound(p) == {c \in Controllers : binding[c].to = p}

\* A conversation is loaded: every controller bound to it, or that has left
\* it last, is synchronised again.
Involved(p) == {c \in Controllers : p \in {binding[c].to, binding[c].prev}}
OpenParent(p) ==
  /\ part = "bridges" /\ Delivered /\ p \notin open
  /\ \A c \in Involved(p) : sync[c]["call"].pc = "idle"
  /\ open' = open \cup {p}
  /\ sync' = [c \in Controllers |->
                IF c \in Involved(p) THEN [sync[c] EXCEPT !["call"].pc = "asked"] ELSE sync[c]]
  /\ UNCHANGED <<part, ordinal, facts, binding, log, pending, dirty, moves, bridgeFaults, adapterVars>>

(***************************************************************************)
(* The adapters.                                                           *)
(***************************************************************************)

Stored == {shared[i].batch : i \in DOMAIN shared}
\* A valid record counts its batches; each has an operation of its own.
Revision == Len(shared)

\* The first read fixes the cut the adapter decides on.
ReadRecord(w) ==
  /\ part = "adapters" /\ rev[w] = Unread
  /\ rev' = [rev EXCEPT ![w] = Revision]
  /\ known' = [known EXCEPT ![w] = Stored]
  /\ UNCHANGED <<part, bridgeVars, bridgeFaults, shared>>

\* An acknowledged batch of another writer does not move the cut.
RevisionAfter(w, replayed, revision) == IF replayed THEN rev[w] ELSE revision

\* An identical operation is found before the revision is compared.
Replay(w, b) ==
  /\ part = "adapters" /\ rev[w] # Unread /\ b \in Stored
  /\ rev' = [rev EXCEPT ![w] = RevisionAfter(w, TRUE, Revision)]
  /\ UNCHANGED <<part, bridgeVars, bridgeFaults, shared, known>>

\* The write may be stored and reported as failed.
CommitBatch(w, b) ==
  /\ part = "adapters" /\ rev[w] = Revision /\ Revision < MaxRecord
  /\ b \notin Stored
  /\ shared' = Append(shared, [batch |-> b, seen |-> known[w]])
  /\ \/ /\ rev' = [rev EXCEPT ![w] = RevisionAfter(w, FALSE, Revision + 1)]
        /\ known' = [known EXCEPT ![w] = @ \cup {b}]
        /\ UNCHANGED bridgeFaults
     \/ /\ bridgeFaults < MaxBridgeFaults /\ bridgeFaults' = bridgeFaults + 1
        /\ UNCHANGED <<rev, known>>
  /\ UNCHANGED <<part, bridgeVars>>

\* A fresh journal over the same record.
RenewAdapter(w) ==
  /\ part = "adapters" /\ rev[w] \notin {Unread, Revision}
  /\ rev' = [rev EXCEPT ![w] = Unread]
  /\ UNCHANGED <<part, bridgeVars, bridgeFaults, shared, known>>

(***************************************************************************)
(* Behaviours.  Conversations may hold cuts of before generations and      *)
(* revisions existed.                                                      *)
(***************************************************************************)

LegacyCut(c) == [BridgeOf(c, 0, 0, 0, 1) EXCEPT !.ord = 0]
Legacies == {<<>>} \cup {<<c>> : c \in Controllers} \cup {s \in Controllers \X Controllers : s[1] # s[2]}

BridgesInit ==
  /\ part \in {"bridges", "adapters"}
  /\ ordinal \in IF part = "bridges" THEN Ordinals ELSE {CHOOSE o \in Ordinals : TRUE}
  /\ \E home \in {CHOOSE p \in Parents : TRUE}, old \in IF part = "bridges" THEN Legacies ELSE {<<>>} :
       /\ facts = [c \in Controllers |-> IF c \in ToSet(old) THEN 1 ELSE 0]
       /\ binding = [c \in Controllers |-> [to |-> home, prev |-> NoParent, gen |-> 0]]
       /\ log = [p \in Parents |-> IF p = home THEN [i \in DOMAIN old |-> LegacyCut(old[i])] ELSE <<>>]
  /\ open = Parents
  /\ pending = [p \in Parents |-> <<>>]
  /\ sync = [c \in Controllers |-> [j \in Jobs |-> Idle]]
  /\ dirty = [c \in Controllers |-> FALSE]
  /\ moves = 0 /\ bridgeFaults = 0
  /\ shared = <<>>
  /\ rev = [w \in Writers |-> Unread]
  /\ known = [w \in Writers |-> {}]

BridgesNext ==
  \/ \E c \in Controllers, j \in Jobs : Detach(c, j)
  \/ \E c \in Controllers, j \in Jobs : SkipAttach(c, j)
  \/ \E c \in Controllers, j \in Jobs : Attach(c, j)
  \/ \E p \in Parents : StoreEntry(p)
  \/ \E p \in Parents : LoseEntry(p)
  \/ \E c \in Controllers : CommitFact(c)
  \/ \E c \in Controllers, p \in Parents : Rebind(c, p)
  \/ \E p \in Parents : CloseParent(p)
  \/ \E p \in Parents : OpenParent(p)
  \/ \E w \in Writers : ReadRecord(w)
  \/ \E w \in Writers, b \in Batches : Replay(w, b)
  \/ \E w \in Writers, b \in Batches : CommitBatch(w, b)
  \/ \E w \in Writers : RenewAdapter(w)

BridgesSpec == BridgesInit /\ [][BridgesNext]_bridgesVars

(***************************************************************************)
(* Properties.                                                             *)
(***************************************************************************)

\* Entries are well formed, and a sync that waits for an append owns exactly
\* one pending entry (session-sidecar.ts append, session-journal.ts sync).
BridgesTypeOK ==
  /\ \A p \in Parents : \A i \in DOMAIN log[p] :
       /\ log[p][i].kind \in {"bridge", "tomb", "compacted"}
       /\ log[p][i].cut <= facts[log[p][i].c]
  /\ \A c \in Controllers, j \in Jobs :
       sync[c][j].pc \in {"detaching", "attaching"}
         <=> \E p \in Parents : \E i \in DOMAIN pending[p] : pending[p][i].c = c /\ pending[p][i].j = j
  /\ \A p, q \in Parents : \A i \in DOMAIN pending[p], k \in DOMAIN pending[q] :
       pending[p][i].c = pending[q][k].c /\ pending[p][i].j = pending[q][k].j => p = q /\ i = k

\* Compaction never changes the newest cut of any controller
\* (owned-event-store.ts compactSupersededProjections against
\* selectLatestControllerBridge).
NewestCutIsKept ==
  \A p \in Parents, c \in Controllers : Latest(log[p], c) = Latest(Whole(log[p]), c)

\* Nor does it change which Team a conversation shows, as long as no two
\* controllers claimed one place in the order of activation
\* (owned-event-store.ts:65 against selectActiveTeamProjectionBridge).  After a
\* disputed claim it may: the first cut it keeps is then the refused one.
Undisputed(es) ==
  \A i \in DOMAIN es : IsBridge(es[i]) => Activation(SubSeq(es, 1, i)).gens[es[i].c] > 0
CompactionIsInvisible ==
  part = "bridges" =>
    \A p \in Parents : Undisputed(Whole(log[p])) => Active(log[p]) = Active(Whole(log[p]))

Quiet == \A c \in Controllers, j \in Jobs : sync[c][j].pc = "idle"

\* Cuts of a controller reached the record in the order of its bindings.
InOrder(es, c) ==
  \A i, k \in DOMAIN es :
    i < k /\ es[i].kind # "tomb" /\ es[k].kind # "tomb" /\ es[i].c = c /\ es[k].c = c
      => es[i].gen <= es[k].gen

\* When all syncs have ended and none of their appends failed, a loaded
\* conversation holds the newest cut of every Team bound to it, and offers it
\* unless a sync of an older binding ended late: the coalesced job, the test
\* for an identical cut and the stale revisions of queued appends lose no cut
\* (session-journal.ts 462-526).
PublishedWhenQuiet ==
  Quiet /\ bridgeFaults = 0 =>
    \A c \in Controllers : binding[c].to \in open =>
      /\ facts[c] > 0 => HasCut(log[binding[c].to], c, binding[c].gen, facts[c])
      /\ InOrder(log[binding[c].to], c) => CutFor(log[binding[c].to], c) = facts[c]

\* And the conversation a Team has left last, once loaded, offers none of its
\* cuts (session-journal.ts 528-587).
LeftWhenQuiet ==
  Quiet /\ bridgeFaults = 0 =>
    \A c \in Controllers :
      binding[c].prev \in open \ {binding[c].to} => CutFor(log[binding[c].prev], c) = 0

\* A cut of an older binding was stored behind the tombstone of a newer one.
Revived(es, c) ==
  \E k \in DOMAIN es : \E i \in 1 .. k - 1 :
    /\ es[i].kind = "tomb" /\ es[k].kind # "tomb"
    /\ es[i].c = c /\ es[k].c = c /\ es[k].gen < es[i].gen

\* The Team a conversation shows is what a user sees of its record, and is not
\* the same question as which cuts it offers.  When all is quiet and nothing
\* failed, a loaded conversation does not show a Team that left it last, unless
\* a sync of an older binding ended behind the tombstone; of a Team bound to it
\* it shows the newest cut; and as long as no Team has left it, it shows one,
\* the one created last where every creation order is known
\* (session-journal.ts selectActiveTeamProjectionBridge, 437-451).
ShownWhenQuiet ==
  part = "bridges" /\ Quiet /\ bridgeFaults = 0 =>
    \A p \in open :
      LET shown == Active(log[p])
          c == shown.c IN
      /\ shown.kind = "bridge" =>
           /\ binding[c].prev = p /\ binding[c].to # p => Revived(log[p], c)
           /\ binding[c].to = p /\ InOrder(log[p], c) => shown.cut = facts[c]
      /\ (\A i \in DOMAIN log[p] : log[p][i].kind # "tomb") =>
           \A d \in Controllers : binding[d].to = p /\ facts[d] > 0 =>
             /\ shown.kind = "bridge"
             /\ Undisputed(Whole(log[p])) /\ (\A i \in DOMAIN log[p] : log[p][i].ord > 0)
                  => shown.ord >= ordinal[d]

\* Together: what a conversation shows of its Teams.
ShownTeamsAreTrue == CompactionIsInvisible /\ ShownWhenQuiet

\* "does not let a queued background cut revive the previous parent after an
\* explicit rebind" (tests/team-session-projection.spec.ts:232): without the
\* exception.  A job that waits for its tombstone while the Team moves on
\* publishes under the binding it has read (session-journal.ts:466).
PreviousParentIsNotRevived ==
  Quiet /\ bridgeFaults = 0 =>
    \A c \in Controllers : binding[c].prev \in open \ {binding[c].to} =>
      LET shown == Active(log[binding[c].prev]) IN ~(shown.kind = "bridge" /\ shown.c = c)

\* "reconciles a durable rebind when only its previous parent restores later"
\* (tests/team-session-projection.spec.ts:84): no loaded conversation a Team has
\* left offers its cuts.  The code looks back one binding only, so a second
\* rebind while the first conversation is closed leaves that one behind for good.
RebindsAreReconciled ==
  Quiet /\ bridgeFaults = 0 =>
    \A c \in Controllers : \A p \in open \ {binding[c].to} : CutFor(log[p], c) = 0

\* An adapter appends only when every batch before its own was read or
\* written by it: the acknowledgement of a retried batch gives no authority
\* over facts it has not seen (owned-team-journal.ts:37-39).
UnseenFactsNeverDecided ==
  \A i \in DOMAIN shared : \A k \in 1 .. i - 1 : shared[k].batch \in shared[i].seen

\* An operation is stored once however often it is retried
\* (owned-event-store.ts commitBatch).
StoredOnce ==
  \A i, k \in DOMAIN shared : shared[i].batch = shared[k].batch => i = k

\* What the adapters of one record promise (owned-team-journal.ts).
AdaptersAreTrue == UnseenFactsNeverDecided /\ StoredOnce

\* Together with which cuts of its Teams a conversation offers to commands
\* (session-journal.ts).
BridgesAreTrue ==
  /\ part = "bridges" => /\ BridgesTypeOK /\ NewestCutIsKept
                         /\ PublishedWhenQuiet /\ LeftWhenQuiet
  /\ AdaptersAreTrue
====
