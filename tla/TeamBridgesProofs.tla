---- MODULE TeamBridgesProofs ----
(***************************************************************************)
(* What a conversation shows: the newest cut of every Team bound to it,    *)
(* and none of a Team that has just left, whatever syncs, moves and        *)
(* unloaded conversations overtake each other; and the adapters of one     *)
(* record decide only on what they have seen.                              *)
(***************************************************************************)
EXTENDS TeamBridges, SequenceTheorems, FiniteSetTheorems, WellFoundedInduction, TLAPS

(* The adapters of one record *)

(* An adapter has read or written every batch before the revision it decides on, and no
   revision of the record is taken for an adapter that has not read yet. *)
AdaptersInv ==
  /\ shared \in Seq([batch : Batches, seen : SUBSET Batches]) /\ Len(shared) <= MaxRecord
  /\ rev \in [Writers -> Nat] /\ known \in [Writers -> SUBSET Batches]
  /\ \A w \in Writers : rev[w] = Unread \/
       (rev[w] <= Len(shared) /\ \A k \in 1..rev[w] : shared[k].batch \in known[w])
  /\ AdaptersAreTrue

(* A batch is written by an adapter that knows all others, and it is a new one. *)
LEMMA CommitKeepsAdapters ==
  ASSUME AdaptersInv, NEW w \in Writers, NEW b \in Batches, CommitBatch(w, b)
  PROVE  AdaptersInv'
<1> DEFINE n == Len(shared)
<1> DEFINE entry == [batch |-> b, seen |-> known[w]]
<1> DEFINE R == [batch : Batches, seen : SUBSET Batches]
<1>1. n \in Nat /\ DOMAIN shared = 1..n /\ MaxRecord \in Nat /\ n < MaxRecord /\ rev[w] = n
  BY LenProperties, BridgesAssumption DEF AdaptersInv, CommitBatch, Revision
<1>2. entry \in R /\ entry.batch = b /\ entry.seen = known[w]
  BY DEF AdaptersInv
<1>3. /\ shared' \in Seq(R) /\ Len(shared') = n + 1 /\ DOMAIN shared' = 1..(n + 1)
      /\ (\A i \in 1..n : shared'[i] = shared[i]) /\ shared'[n + 1] = entry
  <2>1. shared' = Append(shared, entry) /\ shared \in Seq(R)
    BY DEF CommitBatch, AdaptersInv
  <2>2. shared' \in Seq(R) /\ Len(shared') = n + 1
    BY <1>2, <2>1, AppendProperties
  <2> QED
    BY <1>2, <2>1, <2>2, AppendProperties, LenProperties
<1>4. \A i \in 1..n : shared[i].batch # b
  BY <1>1 DEF CommitBatch, Stored
<1>5. \A k \in 1..n : shared[k].batch \in known[w]
  BY <1>1 DEF AdaptersInv, Unread
<1>6. /\ rev' \in [Writers -> Nat] /\ known' \in [Writers -> SUBSET Batches]
      /\ \A v \in Writers : (rev'[v] = rev[v] /\ known'[v] = known[v])
                            \/ (v = w /\ rev'[v] = n + 1 /\ known'[v] = known[v] \cup {b})
  <2>1. CASE rev' = [rev EXCEPT ![w] = n + 1] /\ known' = [known EXCEPT ![w] = @ \cup {b}]
    BY <1>1, <2>1 DEF AdaptersInv
  <2>2. CASE UNCHANGED <<rev, known>>
    BY <2>2 DEF AdaptersInv
  <2> QED
    BY <2>1, <2>2 DEF CommitBatch, RevisionAfter, Revision
<1> HIDE DEF n, entry
<1>7. \A i \in 1..(n + 1) : i \in 1..n \/ i = n + 1
  BY <1>1
<1>8. \A v \in Writers : rev'[v] = Unread \/
        (rev'[v] <= n + 1 /\ \A k \in 1..rev'[v] : shared'[k].batch \in known'[v])
  <2> SUFFICES ASSUME NEW v \in Writers
               PROVE  rev'[v] = Unread \/
                        (rev'[v] <= n + 1 /\ \A k \in 1..rev'[v] : shared'[k].batch \in known'[v])
    OBVIOUS
  <2>1. CASE rev'[v] = rev[v] /\ known'[v] = known[v]
    <3>1. rev[v] = Unread \/ (rev[v] \in Nat /\ rev[v] <= n /\ \A k \in 1..rev[v] : shared[k].batch \in known[v])
      BY DEF AdaptersInv, n
    <3>2. rev[v] # Unread => rev[v] <= n + 1 /\ \A k \in 1..rev[v] : k \in 1..n
      BY <1>1, <3>1
    <3> QED
      BY <1>3, <2>1, <3>1, <3>2
  <2>2. CASE v = w /\ rev'[v] = n + 1 /\ known'[v] = known[v] \cup {b}
    <3>1. \A k \in 1..(n + 1) : shared'[k].batch \in known'[v]
      BY <1>2, <1>3, <1>5, <1>7, <2>2
    <3> QED
      BY <1>1, <2>2, <3>1
  <2> QED
    BY <1>6, <2>1, <2>2
<1>9. UnseenFactsNeverDecided'
  <2>1. \A i \in 1..(n + 1) : \A k \in 1..(i - 1) : k \in 1..n /\ (i \in 1..n \/ i = n + 1)
    BY <1>1
  <2>2. \A i \in 1..n : \A k \in 1..(i - 1) : shared[k].batch \in shared[i].seen
    BY <1>1 DEF AdaptersInv, AdaptersAreTrue, UnseenFactsNeverDecided
  <2> QED
    BY <1>2, <1>3, <1>5, <2>1, <2>2 DEF UnseenFactsNeverDecided
<1>10. StoredOnce'
  <2>1. \A i, k \in 1..n : shared[i].batch = shared[k].batch => i = k
    BY <1>1 DEF AdaptersInv, AdaptersAreTrue, StoredOnce
  <2> QED
    BY <1>2, <1>3, <1>4, <1>7, <2>1 DEF StoredOnce
<1>11. n + 1 <= MaxRecord
  BY <1>1
<1> QED
  BY <1>3, <1>6, <1>8, <1>9, <1>10, <1>11 DEF AdaptersInv, AdaptersAreTrue, Unread

(* The adapters of a record keep their promise at every step. *)
LEMMA AdaptersInductive ==
  ASSUME AdaptersInv, [BridgesNext]_bridgesVars
  PROVE  AdaptersInv'
<1>1. CASE UNCHANGED <<shared, rev, known>>
  BY <1>1 DEF AdaptersInv, AdaptersAreTrue, UnseenFactsNeverDecided, StoredOnce, Unread
<1>2. ASSUME NEW w \in Writers, ReadRecord(w)
      PROVE  AdaptersInv'
  <2>1. Len(shared) \in Nat /\ DOMAIN shared = 1..Len(shared) /\ shared' = shared
    BY <1>2, LenProperties DEF ReadRecord, AdaptersInv
  <2>2. Stored \subseteq Batches
    <3>1. \A i \in DOMAIN shared : shared[i] \in [batch : Batches, seen : SUBSET Batches]
      BY <2>1, ElementOfSeq DEF AdaptersInv
    <3> QED
      BY <3>1 DEF Stored
  <2>3. /\ rev' \in [Writers -> Nat] /\ known' \in [Writers -> SUBSET Batches]
        /\ \A v \in Writers : (rev'[v] = rev[v] /\ known'[v] = known[v])
                              \/ (rev'[v] = Len(shared) /\ known'[v] = Stored)
    BY <1>2, <2>1, <2>2 DEF ReadRecord, AdaptersInv, Revision
  <2>4. \A k \in 1..Len(shared) : shared[k].batch \in Stored
    BY <2>1 DEF Stored
  <2>5. \A v \in Writers : rev'[v] = Unread \/
          (rev'[v] <= Len(shared) /\ \A k \in 1..rev'[v] : shared[k].batch \in known'[v])
    BY <2>1, <2>3, <2>4 DEF AdaptersInv
  <2> QED
    BY <2>1, <2>3, <2>5 DEF AdaptersInv, AdaptersAreTrue, UnseenFactsNeverDecided, StoredOnce, Unread
<1>3. ASSUME NEW w \in Writers, NEW b \in Batches, Replay(w, b)
      PROVE  AdaptersInv'
  <2>1. UNCHANGED <<shared, rev, known>>
    BY <1>3 DEF Replay, RevisionAfter, AdaptersInv
  <2> QED
    BY <1>1, <2>1
<1>4. ASSUME NEW w \in Writers, RenewAdapter(w)
      PROVE  AdaptersInv'
  <2>1. Unread \in Nat
    BY BridgesAssumption DEF Unread
  <2>2. /\ rev' \in [Writers -> Nat] /\ UNCHANGED <<shared, known>>
        /\ \A v \in Writers : rev'[v] = rev[v] \/ rev'[v] = Unread
    BY <1>4, <2>1 DEF RenewAdapter, AdaptersInv
  <2> QED
    BY <2>2 DEF AdaptersInv, AdaptersAreTrue, UnseenFactsNeverDecided, StoredOnce, Unread
<1>5. ASSUME ~(\E w \in Writers : ReadRecord(w)), ~(\E w \in Writers, b \in Batches : Replay(w, b)),
             ~(\E w \in Writers, b \in Batches : CommitBatch(w, b)), ~(\E w \in Writers : RenewAdapter(w))
      PROVE  UNCHANGED <<shared, rev, known>>
  BY <1>5 DEF BridgesNext, bridgesVars, Detach, SkipAttach, Attach, StoreEntry, LoseEntry, CommitFact,
              Rebind, CloseParent, OpenParent, adapterVars
<1> QED
  BY <1>1, <1>2, <1>3, <1>4, <1>5, CommitKeepsAdapters

(* No adapter appends over a batch it has not seen, and no batch is stored twice, for any number of
   writers, batches and failing writes. *)
THEOREM AdaptersStayTrue == BridgesSpec => []AdaptersAreTrue
<1>1. BridgesInit => AdaptersInv
  <2> SUFFICES ASSUME BridgesInit
               PROVE  AdaptersInv
    OBVIOUS
  <2>1. shared = <<>> /\ DOMAIN shared = {} /\ Len(shared) = 0
    BY DEF BridgesInit
  <2>2. shared \in Seq([batch : Batches, seen : SUBSET Batches])
    BY <2>1, EmptySeq
  <2>3. Unread \in Nat /\ MaxRecord \in Nat
    BY BridgesAssumption DEF Unread
  <2> QED
    BY <2>1, <2>2, <2>3 DEF BridgesInit, AdaptersInv, AdaptersAreTrue, UnseenFactsNeverDecided, StoredOnce
<1>2. AdaptersInv /\ [BridgesNext]_bridgesVars => AdaptersInv'
  BY AdaptersInductive
<1>3. AdaptersInv => AdaptersAreTrue
  BY DEF AdaptersInv
<1> QED
  BY <1>1, <1>2, <1>3, PTL DEF BridgesSpec

(* The bridges of conversations *)

Sequential(s) == s \in Seq({s[i] : i \in DOMAIN s})

(* An entry of a record, or one on its way to it; only its place in the order of
   activation is left open. *)
Entry(e) ==
  /\ e \in [kind : {"bridge", "tomb", "compacted"}, c : Controllers, gen : Nat, act : {e.act},
            rev : Nat, cut : Nat, ord : {e.ord}]
  /\ e.cut <= facts[e.c] /\ e.gen <= binding[e.c].gen

(* A tombstone of the present binding is in a conversation that was left. *)
Buries(e, p) == e.kind = "tomb" /\ e.gen = binding[e.c].gen => binding[e.c].to # p

BridgesTyped ==
  /\ facts \in [Controllers -> Nat] /\ dirty \in [Controllers -> BOOLEAN] /\ open \subseteq Parents
  /\ binding \in [Controllers -> [to : Parents, prev : Parents \cup {NoParent}, gen : Nat]]
  /\ sync \in [Controllers -> [Jobs -> [pc : {"idle", "asked", "detaching", "attach", "attaching"},
                                        to : Parents \cup {NoParent}, gen : Nat]]]
  /\ \A c \in Controllers, j \in Jobs : sync[c][j].gen <= binding[c].gen
  /\ log = [p \in Parents |-> log[p]] /\ pending = [p \in Parents |-> pending[p]]
  /\ \A p \in Parents : Sequential(log[p]) /\ Sequential(pending[p])
  /\ bridgeFaults \in Nat

Recorded ==
  \A p \in Parents : \A i \in DOMAIN log[p] : Entry(log[p][i]) /\ Buries(log[p][i], p)

(* What an append waits for: its sync, whose only append it is. *)
Awaited(x) ==
  /\ x.e.kind \in {"bridge", "tomb"} /\ (x.e.kind = "bridge" => x.e.rev # 0)
  /\ x.c = x.e.c /\ x.j \in Jobs
  /\ sync[x.c][x.j].pc = IF x.e.kind = "tomb" THEN "detaching" ELSE "attaching"
Queued ==
  /\ \A p \in Parents : \A i \in DOMAIN pending[p] :
       LET x == pending[p][i] IN Entry(x.e) /\ Buries(x.e, p) /\ Awaited(x)
  /\ \A c \in Controllers, j \in Jobs : sync[c][j].pc \in {"detaching", "attaching"} =>
       \E p \in Parents : \E i \in DOMAIN pending[p] : pending[p][i].c = c /\ pending[p][i].j = j
  /\ \A p, q \in Parents : \A i \in DOMAIN pending[p], k \in DOMAIN pending[q] :
       pending[p][i].c = pending[q][k].c /\ pending[p][i].j = pending[q][k].j => p = q /\ i = k

(* Cuts and revisions of a controller grow along a record and its queue. *)
InTurn(d, e) == d.kind # "tomb" /\ e.kind # "tomb" /\ d.c = e.c => d.cut <= e.cut /\ d.rev <= e.rev
Growing ==
  \A p \in Parents :
    /\ \A i, k \in DOMAIN log[p] : i < k => InTurn(log[p][i], log[p][k])
    /\ \A i \in DOMAIN log[p], k \in DOMAIN pending[p] : InTurn(log[p][i], pending[p][k].e)
    /\ \A i, k \in DOMAIN pending[p] : i < k => InTurn(pending[p][i].e, pending[p][k].e)

(* A cut lost its payload to a later one with a newer revision. *)
Superseded ==
  \A p \in Parents : \A i \in DOMAIN log[p] : log[p][i].kind = "compacted" =>
    \E k \in DOMAIN log[p] : i < k /\ IsBridge(log[p][k]) /\ log[p][k].c = log[p][i].c
                             /\ log[p][k].rev > log[p][i].rev

(* The revision of a queued cut was the next one when it was queued. *)
Fresh ==
  \A p \in Parents : \A k \in DOMAIN pending[p] :
    LET e == pending[p][k].e IN
    IsBridge(e) /\ e.rev > 1 =>
      \E i \in DOMAIN log[p] : IsBridge(log[p][i]) /\ log[p][i].c = e.c /\ e.rev <= log[p][i].rev + 1

(* The newest cut is in the conversation bound to, on its way or asked for. *)
CutStored(c) == HasCut(log[binding[c].to], c, binding[c].gen, facts[c])
CutQueued(c) ==
  \E i \in DOMAIN pending[binding[c].to] :
    LET e == pending[binding[c].to][i].e
    IN IsBridge(e) /\ e.c = c /\ e.gen = binding[c].gen /\ e.cut = facts[c]
SyncAsked(c) == \E j \in Jobs : sync[c][j].pc = "asked"
SyncAimed(c) ==
  \E j \in Jobs : /\ sync[c][j].pc \in {"detaching", "attach"}
                 /\ sync[c][j].gen = binding[c].gen /\ sync[c][j].to = binding[c].to
SyncRepeats(c) == dirty[c] /\ sync[c]["job"].pc # "idle"
CutComes(c) == CutStored(c) \/ CutQueued(c) \/ SyncAsked(c) \/ SyncAimed(c) \/ SyncRepeats(c)
(* And the tombstone in the one left. *)
TombStored(c) == HasTomb(log[binding[c].prev], c, binding[c].gen)
TombQueued(c) ==
  \E i \in DOMAIN pending[binding[c].prev] :
    LET e == pending[binding[c].prev][i].e IN e.kind = "tomb" /\ e.c = c /\ e.gen = binding[c].gen
TombComes(c) == TombStored(c) \/ TombQueued(c) \/ SyncAsked(c)
Coming ==
  bridgeFaults = 0 => \A c \in Controllers :
    /\ binding[c].to \in open /\ facts[c] > 0 => CutComes(c)
    /\ binding[c].prev \in open \ {binding[c].to} => TombComes(c)

BridgesInv == BridgesTyped /\ Recorded /\ Queued /\ Growing /\ Superseded /\ Fresh /\ Coming

(* A record is a sequence. *)
LEMMA RecordIsSequence ==
  ASSUME NEW s, Sequential(s)
  PROVE  Len(s) \in Nat /\ DOMAIN s = 1 .. Len(s) /\ s = [i \in 1 .. Len(s) |-> s[i]]
BY LenProperties DEF Sequential

(* And every function on 1 .. n is one. *)
LEMMA SequenceIsRecord ==
  ASSUME NEW n \in Nat, NEW s, s = [i \in 1 .. n |-> s[i]]
  PROVE  Sequential(s) /\ Len(s) = n
<1> DEFINE S == {s[i] : i \in DOMAIN s}
<1>1. s \in [1 .. n -> S]
  OBVIOUS
<1>2. s \in Seq(S)
  BY <1>1, SMT
<1>3. Len(s) = n
  BY <1>1, <1>2, SMT
<1> QED
  BY <1>2, <1>3 DEF Sequential

(* What an append leaves of a sequence. *)
LEMMA RecordAppended ==
  ASSUME NEW s, NEW e, Sequential(s)
  PROVE  /\ Sequential(Append(s, e)) /\ Len(Append(s, e)) = Len(s) + 1
         /\ \A i \in 1 .. Len(s) : Append(s, e)[i] = s[i]
         /\ Append(s, e)[Len(s) + 1] = e
<1> DEFINE S == {s[i] : i \in DOMAIN s} \cup {e}
           t == Append(s, e)
<1>1. s \in Seq(S)
  BY SeqMonotonic DEF Sequential
<1>2. t \in Seq(S) /\ Len(t) = Len(s) + 1
      /\ (\A i \in 1 .. Len(s) : t[i] = s[i]) /\ t[Len(s) + 1] = e
  BY <1>1, AppendProperties
<1>3. t = [i \in 1 .. Len(t) |-> t[i]] /\ Len(t) \in Nat
  <2> HIDE DEF t, S
  <2> QED
    BY <1>2, LenProperties
<1> QED
  BY <1>2, <1>3, SequenceIsRecord

(* What is left of a queue of appends. *)
LEMMA RecordShortened ==
  ASSUME NEW s, Sequential(s), s # <<>>
  PROVE  /\ Len(s) \in Nat \ {0} /\ Head(s) = s[1]
         /\ Sequential(Tail(s)) /\ Len(Tail(s)) = Len(s) - 1
         /\ \A i \in 1 .. Len(s) - 1 : i + 1 \in 1 .. Len(s) /\ Tail(s)[i] = s[i + 1]
<1> DEFINE S == {s[i] : i \in DOMAIN s}
           t == Tail(s)
<1>1. s \in Seq(S)
  BY DEF Sequential
<1>2. t \in Seq(S) /\ Len(t) = Len(s) - 1 /\ \A i \in 1 .. Len(t) : t[i] = s[i + 1]
  BY <1>1, HeadTailProperties
<1>3. t = [i \in 1 .. Len(t) |-> t[i]] /\ Len(t) \in Nat
  <2> HIDE DEF t, S
  <2> QED
    BY <1>2, LenProperties
<1>4. Len(s) \in Nat \ {0}
  BY <1>1, EmptySeq
<1>5. Head(s) = s[1]
  BY <1>1, SMT
<1>6. \A i \in 1 .. Len(s) - 1 : i + 1 \in 1 .. Len(s)
  BY <1>4
<1>7. Sequential(t)
  BY <1>3, SequenceIsRecord
<1> QED
  BY <1>2, <1>4, <1>5, <1>6, <1>7

(* A set of places in a sequence has a last one. *)
LEMMA LastPlace ==
  ASSUME NEW n \in Nat, NEW S \in SUBSET (1 .. n), S # {}
  PROVE  \E x \in S : \A m \in S : m <= x
<1> DEFINE D == {n - m : m \in S}
<1>1. D \in SUBSET Nat /\ D # {}
  <2>1. \A m \in S : m \in 1 .. n /\ n - m \in Nat
    OBVIOUS
  <2> QED
    BY <2>1
<1>2. PICK d \in D : \A e \in D : ~(<<e, d>> \in OpToRel(<, Nat))
  BY <1>1, NatLessThanWellFounded, WFMin
<1>3. PICK x \in S : d = n - x
  OBVIOUS
<1>4. ASSUME NEW m \in S PROVE m <= x
  <2>1. n - m \in D /\ n - m \in Nat /\ d \in Nat
    BY <1>1
  <2>2. ~(n - m < d)
    BY <1>2, <2>1 DEF OpToRel
  <2> QED
    BY <2>1, <2>2, <1>3
<1> QED
  BY <1>3, <1>4

(* A stored entry is the last; of the others only cuts it supersedes change. *)
LEMMA StoredShape ==
  ASSUME NEW s, Sequential(s), NEW e
  PROVE  /\ Sequential(Append1(s, e)) /\ Len(Append1(s, e)) = Len(s) + 1
         /\ \A i \in 1 .. Len(s) :
              Append1(s, e)[i] = IF IsBridge(e) /\ Compacts(s, i, e)
                                 THEN [s[i] EXCEPT !.kind = "compacted"] ELSE s[i]
         /\ Append1(s, e)[Len(s) + 1] = e
<1> DEFINE m == [i \in DOMAIN s |-> IF Compacts(s, i, e) THEN [s[i] EXCEPT !.kind = "compacted"] ELSE s[i]]
           t == IF IsBridge(e) THEN m ELSE s
<1>1. Len(s) \in Nat /\ DOMAIN s = 1 .. Len(s)
  BY RecordIsSequence
<1>2. Sequential(m) /\ Len(m) = Len(s)
  BY <1>1, SequenceIsRecord
<1>3. Sequential(t) /\ Len(t) = Len(s)
  BY <1>2
<1>4. Append1(s, e) = Append(t, e)
  BY DEF Append1
<1>5. \A i \in 1 .. Len(s) : t[i] = IF IsBridge(e) /\ Compacts(s, i, e)
                                     THEN [s[i] EXCEPT !.kind = "compacted"] ELSE s[i]
  BY <1>1
<1> HIDE DEF t, m
<1> QED
  BY <1>3, <1>4, <1>5, RecordAppended

(* A new cut has a revision of its own, the next after the newest of the record. *)
LEMMA NextIsNewest ==
  ASSUME NEW es, Sequential(es), NEW c, NEW gen,
         \A i \in DOMAIN es : es[i].rev \in Nat,
         \A i, k \in DOMAIN es : i < k => InTurn(es[i], es[k])
  PROVE  LET e == NextBridge(es, c, gen) IN
         /\ e = [kind |-> "bridge", c |-> c, gen |-> gen, act |-> e.act, rev |-> e.rev,
                 cut |-> facts[c], ord |-> e.ord]
         /\ e.rev \in Nat \ {0}
         /\ \A i \in DOMAIN es : IsBridge(es[i]) /\ es[i].c = c => es[i].rev < e.rev
         /\ e.rev > 1 => \E i \in DOMAIN es : IsBridge(es[i]) /\ es[i].c = c /\ e.rev = es[i].rev + 1
<1> DEFINE I == {j \in DOMAIN es : IsBridge(es[j]) /\ es[j].c = c}
           R == {es[i].rev : i \in I} \cup {0}
           top == CHOOSE r \in R : \A s \in R : r >= s
           e == NextBridge(es, c, gen)
           st == Activation(SelectSeq(es, IsBridge))
           act == IF st.gens[c] > 0 THEN st.gens[c] ELSE NextUnused(st)
<1>1. Len(es) \in Nat /\ DOMAIN es = 1 .. Len(es)
  BY RecordIsSequence
<1>2. \E r \in R : \A s \in R : r >= s
  <2>1. CASE I = {}
    BY <2>1
  <2>2. CASE I # {}
    <3>1. PICK x \in I : \A m \in I : m <= x
      <4> HIDE DEF I
      <4>1. I \in SUBSET (1 .. Len(es))
        BY <1>1 DEF I
      <4> QED
        BY <4>1, <1>1, <2>2, LastPlace
    <3>2. \A m \in I : m \in Nat /\ es[m].rev \in Nat /\ es[m].kind # "tomb" /\ es[m].c = c
      BY <1>1 DEF IsBridge
    <3>3. ASSUME NEW m \in I PROVE es[m].rev <= es[x].rev
      <4>1. m = x \/ m < x
        BY <3>1, <3>2
      <4> QED
        BY <3>2, <4>1 DEF InTurn
    <3>4. es[x].rev \in R /\ \A s \in R : es[x].rev >= s
      BY <3>2, <3>3
    <3> QED
      BY <3>4
  <2> QED
    BY <2>1, <2>2
<1>3. top \in R /\ \A s \in R : top >= s
  <2> HIDE DEF R
  <2> QED
    BY <1>2
<1>4. e = BridgeOf(c, gen, act, top + 1, facts[c])
  BY DEF NextBridge
<1>5. R \subseteq Nat
  BY <1>1
<1>6. e = [kind |-> "bridge", c |-> c, gen |-> gen, act |-> act, rev |-> top + 1,
           cut |-> facts[c], ord |-> ordinal[c]]
  <2> HIDE DEF act, top
  <2> QED
    BY <1>4 DEF BridgeOf
<1> HIDE DEF act, top, e
<1>7. e.rev = top + 1 /\ e.act = act /\ e.ord = ordinal[c] /\ top \in Nat
  BY <1>3, <1>5, <1>6
<1>8. \A i \in DOMAIN es : IsBridge(es[i]) /\ es[i].c = c => es[i].rev < e.rev
  BY <1>3, <1>5, <1>7
<1>9. e.rev > 1 => \E i \in DOMAIN es : IsBridge(es[i]) /\ es[i].c = c /\ e.rev = es[i].rev + 1
  BY <1>3, <1>7
<1> QED
  BY <1>6, <1>7, <1>8, <1>9 DEF e

(* Records and queues are sequences. *)
LEMMA PlacesTyped ==
  ASSUME BridgesTyped, NEW p \in Parents
  PROVE  /\ Sequential(log[p]) /\ Len(log[p]) \in Nat /\ DOMAIN log[p] = 1 .. Len(log[p])
         /\ Sequential(pending[p]) /\ Len(pending[p]) \in Nat /\ DOMAIN pending[p] = 1 .. Len(pending[p])
BY RecordIsSequence DEF BridgesTyped

(* The fields of an entry. *)
LEMMA EntryFields ==
  ASSUME NEW e, Entry(e)
  PROVE  /\ e.kind \in {"bridge", "tomb", "compacted"} /\ e.c \in Controllers
         /\ e.gen \in Nat /\ e.rev \in Nat /\ e.cut \in Nat
         /\ e.cut <= facts[e.c] /\ e.gen <= binding[e.c].gen
BY DEF Entry

(* What is stored and queued stays well formed while facts and generations only grow. *)
LEMMA GrowthKeeps ==
  ASSUME BridgesTyped, BridgesTyped', Recorded, Queued, Growing, Superseded, Fresh,
         log' = log, pending' = pending,
         \A c \in Controllers : /\ facts[c] <= facts'[c]
                                /\ binding'[c] = binding[c] \/ binding'[c].gen = binding[c].gen + 1,
         \A c \in Controllers, j \in Jobs :
           sync'[c][j].pc = sync[c][j].pc
           \/ {sync[c][j].pc, sync'[c][j].pc} \cap {"detaching", "attaching"} = {}
  PROVE  Recorded' /\ Queued' /\ Growing' /\ Superseded' /\ Fresh'
<1>1. Growing' /\ Superseded' /\ Fresh'
  BY DEF Growing, Superseded, Fresh
<1>2. ASSUME NEW e, NEW p \in Parents, Entry(e), Buries(e, p)
      PROVE  Entry(e)' /\ Buries(e, p)'
  <2>1. e.c \in Controllers /\ e.gen \in Nat /\ e.cut \in Nat /\ e.cut <= facts[e.c] /\ e.gen <= binding[e.c].gen
    BY <1>2, EntryFields
  <2>2. facts[e.c] \in Nat /\ facts'[e.c] \in Nat /\ binding[e.c].gen \in Nat /\ binding'[e.c].gen \in Nat
    BY <2>1 DEF BridgesTyped
  <2>3. e.cut <= facts'[e.c] /\ e.gen <= binding'[e.c].gen
    BY <2>1, <2>2
  <2>4. Entry(e)'
    BY <1>2, <2>3 DEF Entry
  <2>5. Buries(e, p)'
    BY <1>2, <2>1, <2>2 DEF Buries
  <2> QED
    BY <2>4, <2>5
<1>3. Recorded'
  BY <1>2 DEF Recorded
<1>4. Queued'
  <2>1. ASSUME NEW p \in Parents, NEW i \in DOMAIN pending[p]
        PROVE  Entry(pending[p][i].e)' /\ Buries(pending[p][i].e, p)' /\ Awaited(pending[p][i])'
    <3> DEFINE x == pending[p][i]
    <3>1. Entry(x.e) /\ Buries(x.e, p) /\ Awaited(x)
      BY DEF Queued
    <3>7. x' = x
      OBVIOUS
    <3> HIDE DEF x
    <3>2. x.c \in Controllers /\ x.j \in Jobs
      BY <3>1, EntryFields DEF Awaited
    <3>3. sync[x.c][x.j].pc \in {"detaching", "attaching"}
      BY <3>1 DEF Awaited
    <3>4. sync'[x.c][x.j].pc = sync[x.c][x.j].pc
      BY <3>2, <3>3
    <3>5. Awaited(x)'
      BY <3>1, <3>4, <3>7 DEF Awaited
    <3>6. (Entry(x.e) /\ Buries(x.e, p))'
      BY <1>2, <3>1, <3>7
    <3> QED
      BY <3>5, <3>6 DEF x
  <2>2. \A c \in Controllers, j \in Jobs : sync'[c][j].pc \in {"detaching", "attaching"} =>
          sync[c][j].pc \in {"detaching", "attaching"}
    OBVIOUS
  <2> QED
    BY <2>1, <2>2 DEF Queued
<1> QED
  BY <1>1, <1>3, <1>4

(* A step that queues an append, and the sync it takes. *)
Enters(p, x) == pending' = [pending EXCEPT ![p] = Append(@, x)]
Steps(c, j, s) == sync' = [sync EXCEPT ![c][j] = s]

(* What is queued now, entry by entry. *)
LEMMA QueuedEntry ==
  ASSUME Queued, NEW q \in Parents, NEW i \in DOMAIN pending[q]
  PROVE  /\ Entry(pending[q][i].e) /\ Buries(pending[q][i].e, q) /\ Awaited(pending[q][i])
         /\ pending[q][i].c \in Controllers /\ pending[q][i].j \in Jobs
<1> DEFINE y == pending[q][i]
<1>1. Entry(y.e) /\ Buries(y.e, q) /\ Awaited(y)
  BY DEF Queued
<1> HIDE DEF y
<1>2. y.c \in Controllers /\ y.j \in Jobs
  BY <1>1, EntryFields DEF Awaited
<1> QED
  BY <1>1, <1>2 DEF y

(* A sync hands one append to the queue of a conversation. *)
LEMMA QueueingKeeps ==
  ASSUME BridgesTyped, Recorded, Queued, Growing, Superseded, Fresh,
         NEW c \in Controllers, NEW j \in Jobs, NEW p \in Parents, NEW e, NEW s,
         s \in [pc : {"detaching", "attaching"}, to : Parents \cup {NoParent}, gen : Nat],
         s.gen <= binding[c].gen,
         s.pc = IF e.kind = "tomb" THEN "detaching" ELSE "attaching",
         Entry(e), Buries(e, p), e.c = c, e.kind \in {"bridge", "tomb"}, e.kind = "bridge" => e.rev # 0,
         \A i \in DOMAIN log[p] : InTurn(log[p][i], e),
         \A i \in DOMAIN pending[p] : InTurn(pending[p][i].e, e),
         IsBridge(e) /\ e.rev > 1 =>
           \E i \in DOMAIN log[p] : IsBridge(log[p][i]) /\ log[p][i].c = c /\ e.rev <= log[p][i].rev + 1,
         sync[c][j].pc \notin {"detaching", "attaching"},
         Enters(p, [e |-> e, c |-> c, j |-> j]), Steps(c, j, s), dirty' \in [Controllers -> BOOLEAN],
         UNCHANGED <<facts, binding, open, log, bridgeFaults>>
  PROVE  BridgesTyped' /\ Recorded' /\ Queued' /\ Growing' /\ Superseded' /\ Fresh'
<1> DEFINE x == [e |-> e, c |-> c, j |-> j]
           n == Len(pending[p])
<1>1. n \in Nat /\ DOMAIN pending[p] = 1 .. n /\ Sequential(pending[p])
  BY PlacesTyped
<1>2. pending' = [q \in Parents |-> IF q = p THEN Append(pending[p], x) ELSE pending[q]]
  BY DEF BridgesTyped, Enters
<1>3. /\ Sequential(pending'[p]) /\ Len(pending'[p]) = n + 1 /\ DOMAIN pending'[p] = 1 .. n + 1
      /\ \A i \in 1 .. n : pending'[p][i] = pending[p][i]
      /\ pending'[p][n + 1] = x
  BY <1>1, <1>2, RecordAppended, RecordIsSequence
<1>4. \A q \in Parents : q # p => pending'[q] = pending[q]
  BY <1>2
<1>5. x.e = e /\ x.c = c /\ x.j = j
  OBVIOUS
<1> HIDE DEF x, n
<1>6. ASSUME NEW q \in Parents, NEW i \in DOMAIN pending'[q]
      PROVE  \/ i \in DOMAIN pending[q] /\ pending'[q][i] = pending[q][i]
             \/ q = p /\ i = n + 1 /\ pending'[q][i] = x
  BY <1>1, <1>3, <1>4
<1>7. \A q \in Parents : \A i \in DOMAIN pending[q] :
        i \in DOMAIN pending'[q] /\ pending'[q][i] = pending[q][i] /\ (q = p => i < n + 1)
  BY <1>1, <1>3, <1>4
<1>8. n + 1 \in DOMAIN pending'[p] /\ n + 1 \notin DOMAIN pending[p]
  BY <1>1, <1>3
<1>9. /\ sync'[c][j] = s
      /\ \A d \in Controllers, k \in Jobs : d # c \/ k # j => sync'[d][k] = sync[d][k]
  BY DEF BridgesTyped, Steps
<1>10. BridgesTyped'
  <2>1. \A q \in Parents : Sequential(log'[q]) /\ Sequential(pending'[q])
    BY <1>3, <1>4 DEF BridgesTyped
  <2>2. pending' = [q \in Parents |-> pending'[q]]
    BY <1>2
  <2>3. \A d \in Controllers, k \in Jobs : sync'[d][k].gen <= binding[d].gen
    <3> SUFFICES ASSUME NEW d \in Controllers, NEW k \in Jobs
                 PROVE  sync'[d][k].gen <= binding[d].gen
      OBVIOUS
    <3>1. sync[d][k].gen <= binding[d].gen
      BY DEF BridgesTyped
    <3>2. CASE d = c /\ k = j
      BY <1>9, <3>2
    <3>3. CASE d # c \/ k # j
      <4>1. sync'[d][k] = sync[d][k]
        BY <1>9, <3>3
      <4> QED
        BY <3>1, <4>1
    <3> QED
      BY <3>2, <3>3
  <2>4. sync' \in [Controllers -> [Jobs -> [pc : {"idle", "asked", "detaching", "attach", "attaching"},
                                            to : Parents \cup {NoParent}, gen : Nat]]]
    <3>1. s \in [pc : {"idle", "asked", "detaching", "attach", "attaching"}, to : Parents \cup {NoParent}, gen : Nat]
      OBVIOUS
    <3> QED
      BY <3>1 DEF BridgesTyped, Steps
  <2> QED
    BY <2>1, <2>2, <2>3, <2>4 DEF BridgesTyped
<1>11. Recorded' /\ Superseded'
  BY DEF Recorded, Superseded, Entry, Buries
<1>12. \A q \in Parents : \A i \in DOMAIN pending[q] :
         /\ Entry(pending[q][i].e) /\ Buries(pending[q][i].e, q) /\ Awaited(pending[q][i])
         /\ pending[q][i].c \in Controllers /\ pending[q][i].j \in Jobs
         /\ pending[q][i].c # c \/ pending[q][i].j # j
  <2> SUFFICES ASSUME NEW q \in Parents, NEW i \in DOMAIN pending[q]
               PROVE  pending[q][i].c # c \/ pending[q][i].j # j
    BY QueuedEntry, Zenon
  <2> DEFINE y == pending[q][i]
  <2>1. Awaited(y)
    BY QueuedEntry
  <2> HIDE DEF y
  <2>2. sync[y.c][y.j].pc \in {"detaching", "attaching"}
    BY <2>1 DEF Awaited
  <2> QED
    BY <2>2 DEF y
<1>13. Queued'
  <2>1. ASSUME NEW q \in Parents, NEW i \in DOMAIN pending'[q]
        PROVE  (LET y == pending[q][i] IN Entry(y.e) /\ Buries(y.e, q) /\ Awaited(y))'
    <3>1. CASE i \in DOMAIN pending[q] /\ pending'[q][i] = pending[q][i]
      <4> DEFINE y == pending[q][i]
      <4>1. Entry(y.e) /\ Buries(y.e, q) /\ Awaited(y) /\ y.c \in Controllers /\ y.j \in Jobs /\ (y.c # c \/ y.j # j)
        BY <1>12, <3>1, Zenon
      <4>2. pending'[q][i] = y
        BY <3>1
      <4> HIDE DEF y
      <4>3. sync'[y.c][y.j] = sync[y.c][y.j]
        BY <1>9, <4>1
      <4> QED
        BY <4>1, <4>2, <4>3 DEF Entry, Buries, Awaited
    <3>2. CASE q = p /\ i = n + 1 /\ pending'[q][i] = x
      BY <1>5, <1>9, <3>2 DEF Entry, Buries, Awaited
    <3> QED
      BY <1>6, <3>1, <3>2, Zenon
  <2>2. ASSUME NEW d \in Controllers, NEW k \in Jobs, sync'[d][k].pc \in {"detaching", "attaching"}
        PROVE  \E q \in Parents : \E i \in DOMAIN pending'[q] : pending'[q][i].c = d /\ pending'[q][i].j = k
    <3>1. CASE d = c /\ k = j
      BY <1>3, <1>5, <1>8, <3>1
    <3>2. CASE d # c \/ k # j
      <4>1. sync[d][k].pc \in {"detaching", "attaching"}
        BY <2>2, <3>2, <1>9
      <4>2. \E q \in Parents : \E i \in DOMAIN pending[q] : pending[q][i].c = d /\ pending[q][i].j = k
        BY <4>1 DEF Queued
      <4> QED
        BY <4>2, <1>7
    <3> QED
      BY <3>1, <3>2
  <2>3. ASSUME NEW q \in Parents, NEW r \in Parents, NEW i \in DOMAIN pending'[q], NEW k \in DOMAIN pending'[r],
               pending'[q][i].c = pending'[r][k].c, pending'[q][i].j = pending'[r][k].j
        PROVE  q = r /\ i = k
    <3>1. CASE i \in DOMAIN pending[q] /\ pending'[q][i] = pending[q][i]
      <4>1. CASE k \in DOMAIN pending[r] /\ pending'[r][k] = pending[r][k]
        BY <2>3, <3>1, <4>1 DEF Queued
      <4>2. CASE r = p /\ k = n + 1 /\ pending'[r][k] = x
        BY <2>3, <3>1, <4>2, <1>5, <1>12
      <4> QED
        BY <4>1, <4>2, <1>6
    <3>2. CASE q = p /\ i = n + 1 /\ pending'[q][i] = x
      <4>1. CASE k \in DOMAIN pending[r] /\ pending'[r][k] = pending[r][k]
        BY <2>3, <3>2, <4>1, <1>5, <1>12
      <4>2. CASE r = p /\ k = n + 1 /\ pending'[r][k] = x
        BY <3>2, <4>2
      <4> QED
        BY <4>1, <4>2, <1>6
    <3> QED
      BY <3>1, <3>2, <1>6
  <2> QED
    BY <2>1, <2>2, <2>3 DEF Queued
<1>14. Growing'
  <2>1. ASSUME NEW q \in Parents, NEW i \in DOMAIN log'[q], NEW k \in DOMAIN log'[q], i < k
        PROVE  InTurn(log'[q][i], log'[q][k])
    BY <2>1 DEF Growing
  <2>2. ASSUME NEW q \in Parents, NEW i \in DOMAIN log'[q], NEW k \in DOMAIN pending'[q]
        PROVE  InTurn(log'[q][i], pending'[q][k].e)
    <3>1. CASE k \in DOMAIN pending[q] /\ pending'[q][k] = pending[q][k]
      BY <3>1 DEF Growing
    <3>2. CASE q = p /\ k = n + 1 /\ pending'[q][k] = x
      BY <3>2, <1>5
    <3> QED
      BY <3>1, <3>2, <1>6
  <2>3. ASSUME NEW q \in Parents, NEW i \in DOMAIN pending'[q], NEW k \in DOMAIN pending'[q], i < k
        PROVE  InTurn(pending'[q][i].e, pending'[q][k].e)
    <3>1. i \in DOMAIN pending[q] /\ pending'[q][i] = pending[q][i]
      BY <1>6, <1>3, <1>1, <2>3
    <3>2. CASE k \in DOMAIN pending[q] /\ pending'[q][k] = pending[q][k]
      BY <2>3, <3>1, <3>2 DEF Growing
    <3>3. CASE q = p /\ k = n + 1 /\ pending'[q][k] = x
      BY <3>1, <3>3, <1>5
    <3> QED
      BY <3>2, <3>3, <1>6
  <2> QED
    BY <2>1, <2>2, <2>3 DEF Growing
<1>15. Fresh'
  <2> SUFFICES ASSUME NEW q \in Parents, NEW k \in DOMAIN pending'[q],
                      IsBridge(pending'[q][k].e), pending'[q][k].e.rev > 1
               PROVE  \E i \in DOMAIN log'[q] : /\ IsBridge(log'[q][i]) /\ log'[q][i].c = pending'[q][k].e.c
                                                /\ pending'[q][k].e.rev <= log'[q][i].rev + 1
    BY DEF Fresh
  <2>1. CASE k \in DOMAIN pending[q] /\ pending'[q][k] = pending[q][k]
    BY <2>1 DEF Fresh
  <2>2. CASE q = p /\ k = n + 1 /\ pending'[q][k] = x
    BY <2>2, <1>5
  <2> QED
    BY <2>1, <2>2, <1>6
<1> QED
  BY <1>10, <1>11, <1>13, <1>14, <1>15

(* Storing an entry compacts cuts it supersedes and changes nothing else of them. *)
LEMMA StoredKeepsCuts ==
  ASSUME NEW s, Sequential(s), \A i \in DOMAIN s : Entry(s[i]),
         NEW e, Entry(e), e.kind = "bridge" => e.rev # 0, NEW i \in DOMAIN s
  PROVE  LET d == s[i]
             t == Append1(s, e)[i]
         IN /\ t.c = d.c /\ t.gen = d.gen /\ t.cut = d.cut /\ t.rev = d.rev
            /\ t.kind = "tomb" <=> d.kind = "tomb"
            /\ Entry(t)
            /\ \/ t = d
               \/ /\ IsBridge(e) /\ IsBridge(d) /\ d.c = e.c /\ d.gen <= e.gen /\ d.rev < e.rev
                  /\ t.kind = "compacted"
<1> DEFINE d == s[i]
           t == Append1(s, e)[i]
           z == [d EXCEPT !.kind = "compacted"]
<1>1. Entry(d) /\ i \in 1 .. Len(s)
  BY RecordIsSequence
<1>2. t = IF IsBridge(e) /\ Compacts(s, i, e) THEN z ELSE d
  BY <1>1, StoredShape
<1>3. Compacts(s, i, e) => IsBridge(d) /\ d.c = e.c /\ d.gen <= e.gen /\ (d.rev = 0 \/ e.rev = 0 \/ d.rev < e.rev)
  BY DEF Compacts
<1> HIDE DEF d, t
<1>4. d.rev \in Nat /\ e.rev \in Nat /\ d.kind \in {"bridge", "tomb", "compacted"}
  BY <1>1, EntryFields
<1>5. d \in [kind : {"bridge", "tomb", "compacted"}, c : Controllers, gen : Nat, act : {d.act},
             rev : Nat, cut : Nat, ord : {d.ord}]
  BY <1>1 DEF Entry
<1>6. /\ z.kind = "compacted" /\ z.c = d.c /\ z.gen = d.gen /\ z.cut = d.cut /\ z.rev = d.rev
      /\ z.act = d.act /\ z.ord = d.ord
      /\ z \in [kind : {"bridge", "tomb", "compacted"}, c : Controllers, gen : Nat, act : {d.act},
             rev : Nat, cut : Nat, ord : {d.ord}]
  BY <1>5
<1>7. Entry(z)
  BY <1>1, <1>6 DEF Entry
<1>8. CASE IsBridge(e) /\ Compacts(s, i, e)
  <2>1. t = z /\ IsBridge(d) /\ d.c = e.c /\ d.gen <= e.gen /\ d.rev < e.rev /\ d.kind = "bridge"
    BY <1>2, <1>3, <1>4, <1>8 DEF IsBridge
  <2> QED
    BY <2>1, <1>6, <1>7, <1>8 DEF d, t
<1>9. CASE ~(IsBridge(e) /\ Compacts(s, i, e))
  <2>1. t = d
    BY <1>2, <1>9
  <2> QED
    BY <2>1, <1>1 DEF d, t
<1> QED
  BY <1>8, <1>9

(* One record grows by one place. *)
LEMMA StorePlaces ==
  ASSUME BridgesTyped, NEW p \in Parents, NEW e, log' = [log EXCEPT ![p] = Append1(@, e)]
  PROVE  /\ Len(log[p]) \in Nat /\ DOMAIN log[p] = 1 .. Len(log[p]) /\ DOMAIN log'[p] = 1 .. Len(log[p]) + 1
         /\ Sequential(log'[p]) /\ log'[p][Len(log[p]) + 1] = e /\ log'[p] = Append1(log[p], e)
         /\ \A q \in Parents : q # p => log'[q] = log[q]
         /\ log' = [q \in Parents |-> log'[q]]
<1> DEFINE s == log[p]
           n == Len(s)
<1>1. n \in Nat /\ DOMAIN s = 1 .. n /\ Sequential(s)
  BY PlacesTyped
<1>2. log' = [q \in Parents |-> IF q = p THEN Append1(s, e) ELSE log[q]]
  BY DEF BridgesTyped
<1>3. log'[p] = Append1(s, e) /\ (\A q \in Parents : q # p => log'[q] = log[q])
      /\ log' = [q \in Parents |-> log'[q]]
  BY <1>2
<1>4. Sequential(log'[p]) /\ Len(log'[p]) = n + 1 /\ log'[p][n + 1] = e
  <2> HIDE DEF s
  <2> QED
    BY <1>1, <1>3, StoredShape
<1>5. DOMAIN log'[p] = 1 .. n + 1
  BY <1>1, <1>4, RecordIsSequence
<1> QED
  BY <1>1, <1>3, <1>4, <1>5

(* What was stored, after another entry has been. *)
Keeps(d, t, e) ==
  /\ t.c = d.c /\ t.gen = d.gen /\ t.cut = d.cut /\ t.rev = d.rev
  /\ t.kind = "tomb" <=> d.kind = "tomb"
  /\ Entry(t)
  /\ \/ t = d
     \/ /\ IsBridge(e) /\ IsBridge(d) /\ d.c = e.c /\ d.gen <= e.gen /\ d.rev < e.rev
        /\ t.kind = "compacted"

(* What one place of that record held before and after. *)
LEMMA StoreRecords ==
  ASSUME BridgesTyped, Recorded, NEW p \in Parents, NEW e, Entry(e), e.kind = "bridge" => e.rev # 0,
         log' = [log EXCEPT ![p] = Append1(@, e)], NEW i \in 1 .. Len(log[p])
  PROVE  Keeps(log[p][i], log'[p][i], e)
<1> DEFINE s == log[p]
<1>1. Sequential(s) /\ i \in DOMAIN s
  BY PlacesTyped
<1>2. \A k \in DOMAIN s : Entry(s[k])
  BY DEF Recorded
<1>3. log'[p] = Append1(s, e)
  BY StorePlaces
<1> HIDE DEF s
<1>4. Keeps(s[i], Append1(s, e)[i], e)
  BY <1>1, <1>2, StoredKeepsCuts DEF Keeps
<1> QED
  BY <1>3, <1>4, Zenon DEF s

(* What leaves the head of a queue. *)
LEMMA QueueShortened ==
  ASSUME BridgesTyped, Queued, NEW p \in Parents, pending[p] # <<>>,
         pending' = [pending EXCEPT ![p] = Tail(@)]
  PROVE  LET x == Head(pending[p]) IN
         /\ 1 \in DOMAIN pending[p] /\ x = pending[p][1] /\ Entry(x.e) /\ Buries(x.e, p) /\ Awaited(x)
         /\ x.c \in Controllers /\ x.j \in Jobs /\ x.e.c = x.c
         /\ Sequential(pending'[p]) /\ DOMAIN pending'[p] = 1 .. Len(pending[p]) - 1
         /\ Len(pending[p]) \in Nat /\ DOMAIN pending[p] = 1 .. Len(pending[p])
         /\ \A i \in DOMAIN pending'[p] : i + 1 \in DOMAIN pending[p] /\ pending'[p][i] = pending[p][i + 1]
         /\ \A i \in DOMAIN pending[p] : i # 1 => i - 1 \in DOMAIN pending'[p] /\ pending'[p][i - 1] = pending[p][i]
         /\ \A q \in Parents : q # p => pending'[q] = pending[q]
         /\ pending' = [q \in Parents |-> pending'[q]]
<1> DEFINE s == pending[p]
           n == Len(s)
<1>1. n \in Nat /\ DOMAIN s = 1 .. n /\ Sequential(s)
  BY PlacesTyped
<1>2. pending' = [q \in Parents |-> IF q = p THEN Tail(s) ELSE pending[q]]
  BY DEF BridgesTyped
<1>3. pending'[p] = Tail(s) /\ (\A q \in Parents : q # p => pending'[q] = pending[q])
      /\ pending' = [q \in Parents |-> pending'[q]]
  BY <1>2
<1>4. /\ n \in Nat \ {0} /\ Head(s) = s[1] /\ Sequential(Tail(s)) /\ Len(Tail(s)) = n - 1
      /\ \A i \in 1 .. n - 1 : i + 1 \in 1 .. n /\ Tail(s)[i] = s[i + 1]
  BY <1>1, RecordShortened
<1>5. 1 \in DOMAIN s
  BY <1>1, <1>4
<1>6. Entry(s[1].e) /\ Buries(s[1].e, p) /\ Awaited(s[1])
  BY <1>5 DEF Queued
<1> HIDE DEF s, n
<1>7. s[1].c \in Controllers /\ s[1].j \in Jobs /\ s[1].e.c = s[1].c
  BY <1>6, EntryFields DEF Awaited
<1>8. DOMAIN pending'[p] = 1 .. n - 1
  BY <1>3, <1>4, RecordIsSequence
<1>9. \A i \in DOMAIN pending'[p] : i + 1 \in DOMAIN s /\ pending'[p][i] = s[i + 1]
  BY <1>1, <1>3, <1>4, <1>8
<1>10. \A i \in DOMAIN s : i # 1 => i - 1 \in DOMAIN pending'[p] /\ pending'[p][i - 1] = s[i]
  <2> SUFFICES ASSUME NEW i \in DOMAIN s, i # 1
               PROVE  i - 1 \in DOMAIN pending'[p] /\ pending'[p][i - 1] = s[i]
    OBVIOUS
  <2>1. i - 1 \in 1 .. n - 1 /\ (i - 1) + 1 = i
    BY <1>1
  <2> QED
    BY <2>1, <1>8, <1>9
<1> QED
  BY <1>1, <1>3, <1>4, <1>5, <1>6, <1>7, <1>8, <1>9, <1>10 DEF s, n

(* The sync that waited for an append goes on, and no other. *)
Resumed(x) ==
  /\ \A c \in Controllers, j \in Jobs : c # x.c \/ j # x.j => sync'[c][j] = sync[c][j]
  /\ x.e.kind = "tomb" => sync'[x.c][x.j] = [sync[x.c][x.j] EXCEPT !.pc = "attach"]
  /\ x.e.kind # "tomb" => sync'[x.c][x.j] = Ended(x.c, x.j)
  /\ sync'[x.c][x.j].pc \in {"idle", "asked", "attach"}

(* A delivery resumes one sync, and keeps the types of all. *)
LEMMA ResumesTyped ==
  ASSUME BridgesTyped, NEW x, x.c \in Controllers, x.j \in Jobs, ResumeSync(x)
  PROVE  /\ sync' \in [Controllers -> [Jobs -> [pc : {"idle", "asked", "detaching", "attach", "attaching"},
                                                to : Parents \cup {NoParent}, gen : Nat]]]
         /\ \A c \in Controllers, j \in Jobs : sync'[c][j].gen <= binding[c].gen
         /\ Resumed(x)
<1> DEFINE u == sync[x.c][x.j]
           t == IF x.e.kind = "tomb" THEN [u EXCEPT !.pc = "attach"] ELSE Ended(x.c, x.j)
           T == [pc : {"idle", "asked", "detaching", "attach", "attaching"}, to : Parents \cup {NoParent}, gen : Nat]
<1>1. u \in T /\ u.gen <= binding[x.c].gen /\ binding[x.c].gen \in Nat
  BY DEF BridgesTyped
<1>2. Ended(x.c, x.j) \in T /\ Ended(x.c, x.j).gen = 0 /\ Ended(x.c, x.j).pc \in {"idle", "asked"}
  BY DEF Ended, Idle
<1>3. t \in T /\ t.gen <= binding[x.c].gen /\ t.pc \in {"idle", "asked", "attach"}
  <2>1. CASE x.e.kind = "tomb"
    <3>1. t = [u EXCEPT !.pc = "attach"]
      BY <2>1
    <3> HIDE DEF t, u
    <3> QED
      BY <3>1, <1>1
  <2>2. CASE x.e.kind # "tomb"
    <3>1. t = Ended(x.c, x.j)
      BY <2>2
    <3> HIDE DEF t, u
    <3> QED
      BY <3>1, <1>1, <1>2
  <2> QED
    BY <2>1, <2>2
<1>4. sync' = [sync EXCEPT ![x.c][x.j] = t]
  BY DEF ResumeSync
<1> HIDE DEF t, u
<1>5. sync'[x.c][x.j] = t /\ \A c \in Controllers, j \in Jobs : c # x.c \/ j # x.j => sync'[c][j] = sync[c][j]
  BY <1>4 DEF BridgesTyped
<1>6. sync' \in [Controllers -> [Jobs -> T]]
  BY <1>3, <1>4 DEF BridgesTyped
<1>7. ASSUME NEW c \in Controllers, NEW j \in Jobs
      PROVE  sync'[c][j].gen <= binding[c].gen
  <2>1. CASE c = x.c /\ j = x.j
    BY <1>3, <1>5, <2>1
  <2>2. CASE c # x.c \/ j # x.j
    <3>1. sync'[c][j] = sync[c][j]
      BY <1>5, <2>2
    <3> QED
      BY <3>1 DEF BridgesTyped
  <2> QED
    BY <2>1, <2>2
<1>8. Resumed(x)
  BY <1>3, <1>5 DEF t, u, Resumed
<1> QED
  BY <1>6, <1>7, <1>8

(* The head of a queue leaves it, stored or lost. *)
Delivers(p) ==
  /\ pending[p] # <<>> /\ pending' = [pending EXCEPT ![p] = Tail(@)]
  /\ ResumeSync(Head(pending[p]))
StoresHead(p) == log' = [log EXCEPT ![p] = Append1(@, Head(pending[p]).e)]

(* The queue goes on behind its head. *)
LEMMA DeliveryKeepsQueues ==
  ASSUME BridgesTyped, Queued, NEW p \in Parents, Delivers(p), UNCHANGED <<facts, binding, open>>
  PROVE  Queued'
<1> DEFINE x == Head(pending[p])
<1>1. /\ 1 \in DOMAIN pending[p] /\ x = pending[p][1] /\ Awaited(x) /\ x.c \in Controllers /\ x.j \in Jobs
      /\ DOMAIN pending[p] = 1 .. Len(pending[p]) /\ Len(pending[p]) \in Nat
      /\ DOMAIN pending'[p] = 1 .. Len(pending[p]) - 1
      /\ \A i \in DOMAIN pending'[p] : i + 1 \in DOMAIN pending[p] /\ pending'[p][i] = pending[p][i + 1]
      /\ \A i \in DOMAIN pending[p] : i # 1 => i - 1 \in DOMAIN pending'[p] /\ pending'[p][i - 1] = pending[p][i]
      /\ \A q \in Parents : q # p => pending'[q] = pending[q]
  BY QueueShortened DEF Delivers
<1> HIDE DEF x
<1>2. /\ \A c \in Controllers, j \in Jobs : c # x.c \/ j # x.j => sync'[c][j] = sync[c][j]
      /\ sync'[x.c][x.j].pc \in {"idle", "asked", "attach"}
  <2>1. ResumeSync(x)
    BY DEF x, Delivers
  <2>2. x.c \in Controllers /\ x.j \in Jobs
    BY <1>1, Zenon
  <2>3. Resumed(x)
    BY <2>1, <2>2, ResumesTyped, Zenon
  <2> QED
    BY <2>3 DEF Resumed
<1>3. \A r \in Parents : \A k \in DOMAIN pending[r] :
         pending[r][k].c = x.c /\ pending[r][k].j = x.j => r = p /\ k = 1
  BY <1>1 DEF Queued
<1>11. ASSUME NEW r \in Parents, r # p, NEW k \in DOMAIN pending[r]
       PROVE  pending[r][k].c # x.c \/ pending[r][k].j # x.j
  BY <1>3, <1>11
<1>4. ASSUME NEW q \in Parents, NEW i \in DOMAIN pending'[q]
      PROVE  \E k \in DOMAIN pending[q] : /\ pending'[q][i] = pending[q][k]
                                          /\ k = IF q = p THEN i + 1 ELSE i
                                          /\ q = p => k # 1
                                          /\ pending[q][k].c # x.c \/ pending[q][k].j # x.j
  <2>1. CASE q = p
    <3>1. i + 1 \in DOMAIN pending[p] /\ pending'[p][i] = pending[p][i + 1] /\ i \in Nat \ {0}
      BY <1>1, <2>1
    <3>2. i + 1 # 1
      BY <3>1
    <3>3. pending[p][i + 1].c # x.c \/ pending[p][i + 1].j # x.j
      BY <1>3, <3>1, <3>2
    <3> QED
      BY <2>1, <3>1, <3>2, <3>3
  <2>2. CASE q # p
    <3>1. pending'[q] = pending[q] /\ i \in DOMAIN pending[q]
      BY <1>1, <2>2
    <3>2. pending[q][i].c # x.c \/ pending[q][i].j # x.j
      BY <1>11, <2>2, <3>1
    <3> QED
      BY <2>2, <3>1, <3>2
  <2> QED
    BY <2>1, <2>2
<1>5. ASSUME NEW q \in Parents, NEW i \in DOMAIN pending'[q]
      PROVE  (Entry(pending[q][i].e) /\ Buries(pending[q][i].e, q) /\ Awaited(pending[q][i]))'
  <2>1. PICK k \in DOMAIN pending[q] : /\ pending'[q][i] = pending[q][k]
                                       /\ pending[q][k].c # x.c \/ pending[q][k].j # x.j
    BY <1>4
  <2> DEFINE y == pending[q][k]
  <2>2. Entry(y.e) /\ Buries(y.e, q) /\ Awaited(y)
    BY DEF Queued
  <2>3. y.c # x.c \/ y.j # x.j
    BY <2>1
  <2>4. y = pending'[q][i]
    BY <2>1
  <2> HIDE DEF y
  <2>5. y.c \in Controllers /\ y.j \in Jobs
    BY <2>2, EntryFields DEF Awaited
  <2>6. sync'[y.c][y.j] = sync[y.c][y.j]
    BY <1>2, <2>3, <2>5
  <2>7. (Entry(pending[q][i].e))'
    BY <2>2, <2>4 DEF Entry
  <2>8. (Buries(pending[q][i].e, q))'
    BY <2>2, <2>4 DEF Buries
  <2>9. (Awaited(pending[q][i]))'
    BY <2>2, <2>4, <2>6 DEF Awaited
  <2> QED
    BY <2>7, <2>8, <2>9
<1>6. ASSUME NEW c \in Controllers, NEW j \in Jobs, sync'[c][j].pc \in {"detaching", "attaching"}
      PROVE  \E q \in Parents : \E i \in DOMAIN pending'[q] : pending'[q][i].c = c /\ pending'[q][i].j = j
  <2>1. (c # x.c \/ j # x.j) /\ sync[c][j].pc \in {"detaching", "attaching"}
    BY <1>2, <1>6
  <2>2. PICK q \in Parents : \E i \in DOMAIN pending[q] : pending[q][i].c = c /\ pending[q][i].j = j
    BY <2>1 DEF Queued
  <2>3. CASE q = p
    BY <2>1, <2>2, <2>3, <1>1
  <2>4. CASE q # p
    BY <2>2, <2>4, <1>1
  <2> QED
    BY <2>3, <2>4
<1>7. ASSUME NEW q \in Parents, NEW r \in Parents, NEW i \in DOMAIN pending'[q], NEW k \in DOMAIN pending'[r],
             pending'[q][i].c = pending'[r][k].c, pending'[q][i].j = pending'[r][k].j
      PROVE  q = r /\ i = k
  <2>1. PICK u \in DOMAIN pending[q] : pending'[q][i] = pending[q][u] /\ u = IF q = p THEN i + 1 ELSE i
    BY <1>4
  <2>2. PICK v \in DOMAIN pending[r] : pending'[r][k] = pending[r][v] /\ v = IF r = p THEN k + 1 ELSE k
    BY <1>4
  <2>3. q = r /\ u = v
    BY <1>7, <2>1, <2>2 DEF Queued
  <2>4. CASE q = p
    <3>1. i \in Nat /\ k \in Nat /\ i + 1 = k + 1
      BY <1>1, <2>1, <2>2, <2>3, <2>4
    <3> QED
      BY <2>3, <3>1
  <2>5. CASE q # p
    BY <2>1, <2>2, <2>3, <2>5
  <2> QED
    BY <2>4, <2>5
<1>8. \A q \in Parents : \A i \in DOMAIN pending'[q] :
        (Entry(pending[q][i].e) /\ Buries(pending[q][i].e, q) /\ Awaited(pending[q][i]))'
  BY <1>5
<1>9. \A c \in Controllers, j \in Jobs : sync'[c][j].pc \in {"detaching", "attaching"} =>
        \E q \in Parents : \E i \in DOMAIN pending'[q] : pending'[q][i].c = c /\ pending'[q][i].j = j
  BY <1>6
<1>10. \A q, r \in Parents : \A i \in DOMAIN pending'[q], k \in DOMAIN pending'[r] :
        pending'[q][i].c = pending'[r][k].c /\ pending'[q][i].j = pending'[r][k].j => q = r /\ i = k
  <2> SUFFICES ASSUME NEW q \in Parents, NEW r \in Parents, NEW i \in DOMAIN pending'[q], NEW k \in DOMAIN pending'[r],
                      pending'[q][i].c = pending'[r][k].c, pending'[q][i].j = pending'[r][k].j
               PROVE  q = r /\ i = k
    OBVIOUS
  <2> QED
    BY <1>7
<1> QED
  BY <1>8, <1>9, <1>10 DEF Queued

(* The queues of a record keep their order when their head is stored or lost. *)
LEMMA DeliveryKeeps ==
  ASSUME BridgesTyped, Recorded, Queued, Growing, Superseded, Fresh, NEW p \in Parents, Delivers(p),
         log' = log \/ StoresHead(p),
         bridgeFaults' \in Nat, UNCHANGED <<facts, binding, open, dirty>>
  PROVE  BridgesTyped' /\ Recorded' /\ Queued' /\ Growing' /\ Superseded' /\ Fresh'
<1> DEFINE x == Head(pending[p])
           e == Head(pending[p]).e
<1>1. /\ 1 \in DOMAIN pending[p] /\ x = pending[p][1] /\ x.e = e
      /\ Entry(e) /\ Buries(e, p) /\ Awaited(x) /\ x.c \in Controllers /\ x.j \in Jobs
      /\ Sequential(pending'[p]) /\ DOMAIN pending'[p] = 1 .. Len(pending[p]) - 1
      /\ Len(pending[p]) \in Nat /\ DOMAIN pending[p] = 1 .. Len(pending[p])
      /\ \A i \in DOMAIN pending'[p] : i + 1 \in DOMAIN pending[p] /\ pending'[p][i] = pending[p][i + 1]
      /\ \A q \in Parents : q # p => pending'[q] = pending[q]
      /\ pending' = [q \in Parents |-> pending'[q]]
  BY QueueShortened DEF Delivers
<1>2. StoresHead(p) => log' = [log EXCEPT ![p] = Append1(@, e)]
  BY DEF StoresHead
<1>3. ResumeSync(x)
  BY DEF Delivers
<1>4. Queued'
  BY DeliveryKeepsQueues
<1> HIDE DEF x, e
<1>5. /\ sync' \in [Controllers -> [Jobs -> [pc : {"idle", "asked", "detaching", "attach", "attaching"},
                                                to : Parents \cup {NoParent}, gen : Nat]]]
      /\ \A c \in Controllers, j \in Jobs : sync'[c][j].gen <= binding[c].gen
  <2>1. x.c \in Controllers /\ x.j \in Jobs
    BY <1>1, Zenon
  <2> QED
    BY <1>3, <2>1, ResumesTyped, Zenon
<1>6. e.kind \in {"bridge", "tomb"} /\ (e.kind = "bridge" => e.rev # 0) /\ e.rev \in Nat
  BY <1>1, EntryFields DEF Awaited
<1>7. \A q \in Parents : Sequential(pending'[q])
  BY <1>1 DEF BridgesTyped
<1>8. ASSUME NEW q \in Parents, NEW k \in DOMAIN pending'[q]
      PROVE  \E h \in DOMAIN pending[q] : /\ pending'[q][k] = pending[q][h] /\ (q = p => 1 < h)
                                          /\ h = IF q = p THEN k + 1 ELSE k
  <2>1. CASE q = p
    <3>1. k + 1 \in DOMAIN pending[p] /\ pending'[p][k] = pending[p][k + 1] /\ k \in Nat \ {0} /\ 1 < k + 1
      BY <1>1, <2>1
    <3> QED
      BY <2>1, <3>1
  <2>2. CASE q # p
    BY <1>1, <2>2
  <2> QED
    BY <2>1, <2>2
<1>9. ASSUME NEW q \in Parents, NEW i \in DOMAIN pending'[q], NEW k \in DOMAIN pending'[q], i < k
      PROVE  InTurn(pending'[q][i].e, pending'[q][k].e)
  <2>1. PICK u \in DOMAIN pending[q] : pending'[q][i] = pending[q][u] /\ u = IF q = p THEN i + 1 ELSE i
    BY <1>8
  <2>2. PICK v \in DOMAIN pending[q] : pending'[q][k] = pending[q][v] /\ v = IF q = p THEN k + 1 ELSE k
    BY <1>8
  <2>3. u < v
    BY <1>1, <1>9, <2>1, <2>2
  <2> QED
    BY <2>1, <2>2, <2>3 DEF Growing
<1>10. CASE log' = log
  <2>1. Recorded' /\ Superseded'
    BY <1>10 DEF Recorded, Superseded, Entry, Buries
  <2>4. BridgesTyped'
    BY <1>1, <1>5, <1>7, <1>10 DEF BridgesTyped
  <2>2. Growing'
    BY <1>8, <1>9, <1>10 DEF Growing
  <2>3. Fresh'
    <3> SUFFICES ASSUME NEW q \in Parents, NEW k \in DOMAIN pending'[q],
                        IsBridge(pending'[q][k].e), pending'[q][k].e.rev > 1
                 PROVE  \E i \in DOMAIN log'[q] : /\ IsBridge(log'[q][i]) /\ log'[q][i].c = pending'[q][k].e.c
                                                  /\ pending'[q][k].e.rev <= log'[q][i].rev + 1
      BY DEF Fresh
    <3>1. PICK h \in DOMAIN pending[q] : pending'[q][k] = pending[q][h]
      BY <1>8
    <3>2. \E i \in DOMAIN log[q] : /\ IsBridge(log[q][i]) /\ log[q][i].c = pending[q][h].e.c
                                    /\ pending[q][h].e.rev <= log[q][i].rev + 1
      BY <3>1 DEF Fresh
    <3> QED
      BY <3>1, <3>2, <1>10
  <2> QED
    BY <1>4, <2>1, <2>2, <2>3, <2>4
<1>11. CASE StoresHead(p)
  <2> DEFINE n == Len(log[p])
  <2>1. /\ n \in Nat /\ DOMAIN log[p] = 1 .. n /\ DOMAIN log'[p] = 1 .. n + 1
        /\ Sequential(log'[p]) /\ log'[p][n + 1] = e
        /\ \A q \in Parents : q # p => log'[q] = log[q]
        /\ log' = [q \in Parents |-> log'[q]]
        /\ \A i \in 1 .. n :
              LET d == log[p][i]
                  t == log'[p][i]
              IN /\ t.c = d.c /\ t.gen = d.gen /\ t.cut = d.cut /\ t.rev = d.rev
                 /\ t.kind = "tomb" <=> d.kind = "tomb"
                 /\ Entry(t)
                 /\ \/ t = d
                    \/ /\ IsBridge(e) /\ IsBridge(d) /\ d.c = e.c /\ d.gen <= e.gen /\ d.rev < e.rev
                       /\ t.kind = "compacted"
    <3>1. Entry(e) /\ (e.kind = "bridge" => e.rev # 0)
      BY <1>1, <1>6
    <3>2. log' = [log EXCEPT ![p] = Append1(@, e)]
      BY <1>2, <1>11
    <3>3. /\ n \in Nat /\ DOMAIN log[p] = 1 .. n /\ DOMAIN log'[p] = 1 .. n + 1
          /\ Sequential(log'[p]) /\ log'[p][n + 1] = e
          /\ \A q \in Parents : q # p => log'[q] = log[q]
          /\ log' = [q \in Parents |-> log'[q]]
      BY <3>2, StorePlaces
    <3>4. \A i \in 1 .. n :
              LET d == log[p][i]
                  t == log'[p][i]
              IN /\ t.c = d.c /\ t.gen = d.gen /\ t.cut = d.cut /\ t.rev = d.rev
                 /\ t.kind = "tomb" <=> d.kind = "tomb"
                 /\ Entry(t)
                 /\ \/ t = d
                    \/ /\ IsBridge(e) /\ IsBridge(d) /\ d.c = e.c /\ d.gen <= e.gen /\ d.rev < e.rev
                       /\ t.kind = "compacted"
      <4>1. \A i \in 1 .. n : Keeps(log[p][i], log'[p][i], e)
        BY <3>1, <3>2, StoreRecords, Zenon
      <4> QED
        BY <4>1 DEF Keeps
    <3> QED
      BY <3>3, <3>4
  <2> HIDE DEF n
  <2>2. ASSUME NEW q \in Parents, NEW i \in DOMAIN log'[q]
        PROVE  \/ /\ q = p /\ i = n + 1 /\ log'[q][i] = e
               \/ /\ i \in DOMAIN log[q] /\ (q = p => i < n + 1)
                  /\ log'[q][i].c = log[q][i].c /\ log'[q][i].gen = log[q][i].gen
                  /\ log'[q][i].cut = log[q][i].cut /\ log'[q][i].rev = log[q][i].rev
                  /\ log'[q][i].kind = "tomb" <=> log[q][i].kind = "tomb"
                  /\ Entry(log'[q][i])
                  /\ \/ log'[q][i] = log[q][i]
                     \/ /\ q = p /\ IsBridge(e) /\ IsBridge(log[p][i]) /\ log[p][i].c = e.c /\ log[p][i].rev < e.rev
                        /\ log'[q][i].kind = "compacted"
    <3>1. CASE q # p
      BY <3>1, <2>1 DEF Recorded
    <3>2. CASE q = p /\ i = n + 1
      BY <3>2, <2>1
    <3>3. CASE q = p /\ i # n + 1
      <4>1. i \in 1 .. n /\ i < n + 1
        BY <3>3, <2>1
      <4> QED
        BY <3>3, <4>1, <2>1
    <3> QED
      BY <3>1, <3>2, <3>3
  <2>3. n + 1 \in DOMAIN log'[p] /\ log'[p][n + 1] = e
    BY <2>1
  <2>4. BridgesTyped'
    <3>1. \A q \in Parents : Sequential(log'[q])
      BY <2>1 DEF BridgesTyped
    <3> QED
      BY <1>1, <1>5, <1>7, <2>1, <3>1 DEF BridgesTyped
  <2>5. Recorded'
    <3>1. ASSUME NEW q \in Parents, NEW i \in DOMAIN log'[q]
          PROVE  Entry(log'[q][i]) /\ Buries(log'[q][i], q)
      <4>1. CASE q = p /\ i = n + 1 /\ log'[q][i] = e
        BY <4>1, <1>1
      <4>2. CASE /\ i \in DOMAIN log[q] /\ log'[q][i].c = log[q][i].c /\ log'[q][i].gen = log[q][i].gen
                 /\ log'[q][i].kind = "tomb" <=> log[q][i].kind = "tomb"
                 /\ Entry(log'[q][i])
        <5>1. Buries(log[q][i], q)
          BY <4>2 DEF Recorded
        <5> QED
          BY <4>2, <5>1 DEF Buries
      <4> QED
        BY <2>2, <4>1, <4>2
    <3> QED
      BY <3>1 DEF Recorded, Entry, Buries
  <2>6. Superseded'
    <3> SUFFICES ASSUME NEW q \in Parents, NEW i \in DOMAIN log'[q], log'[q][i].kind = "compacted"
                 PROVE  \E k \in DOMAIN log'[q] : /\ i < k /\ IsBridge(log'[q][k]) /\ log'[q][k].c = log'[q][i].c
                                                  /\ log'[q][k].rev > log'[q][i].rev
      BY DEF Superseded
    <3>1. i \in DOMAIN log[q] /\ (q = p => i < n + 1)
          /\ log'[q][i].c = log[q][i].c /\ log'[q][i].rev = log[q][i].rev
      BY <2>2, <1>6
    <3>2. CASE q = p /\ IsBridge(e) /\ log[p][i].c = e.c /\ log[p][i].rev < e.rev
      BY <3>1, <3>2, <2>3, <1>6
    <3>3. CASE log'[q][i] = log[q][i]
      <4>1. PICK k \in DOMAIN log[q] : /\ i < k /\ IsBridge(log[q][k]) /\ log[q][k].c = log[q][i].c
                                       /\ log[q][k].rev > log[q][i].rev
        BY <3>1, <3>3 DEF Superseded
      <4>2. k \in DOMAIN log'[q]
        BY <2>1
      <4>3. CASE log'[q][k] = log[q][k]
        BY <3>1, <4>1, <4>2, <4>3
      <4>4. CASE q = p /\ IsBridge(e) /\ log[p][k].c = e.c /\ log[p][k].rev < e.rev
        <5>1. log[p][i].rev \in Nat /\ log[p][k].rev \in Nat
          BY <3>1, <4>1, <4>4, EntryFields DEF Recorded
        <5>2. log[p][i].rev < e.rev /\ log[p][i].c = e.c
          BY <4>1, <4>4, <5>1, <1>6
        <5> QED
          BY <3>1, <4>4, <5>2, <2>3, <1>6
      <4>5. k # n + 1 \/ q # p
        BY <2>1, <4>1
      <4> QED
        BY <4>2, <4>3, <4>4, <4>5, <2>2
    <3>4. \/ log'[q][i] = log[q][i]
          \/ q = p /\ IsBridge(e) /\ log[p][i].c = e.c /\ log[p][i].rev < e.rev
      <4>1. log'[q][i] # e
        BY <1>6
      <4> QED
        BY <4>1, <2>2
    <3> QED
      BY <3>2, <3>3, <3>4
  <2>7. ASSUME NEW q \in Parents, NEW i \in DOMAIN log'[q], NEW k \in DOMAIN log'[q], i < k
        PROVE  InTurn(log'[q][i], log'[q][k])
    <3>1. /\ i \in DOMAIN log[q]
          /\ log'[q][i].c = log[q][i].c /\ log'[q][i].cut = log[q][i].cut /\ log'[q][i].rev = log[q][i].rev
          /\ log'[q][i].kind = "tomb" <=> log[q][i].kind = "tomb"
      BY <2>1, <2>2, <2>7
    <3>2. CASE q = p /\ k = n + 1 /\ log'[q][k] = e
      <4>1. InTurn(log[p][i], e)
        BY <1>1, <3>1, <3>2 DEF Growing
      <4> QED
        BY <3>1, <3>2, <4>1 DEF InTurn
    <3>3. CASE /\ k \in DOMAIN log[q]
               /\ log'[q][k].c = log[q][k].c /\ log'[q][k].cut = log[q][k].cut /\ log'[q][k].rev = log[q][k].rev
               /\ log'[q][k].kind = "tomb" <=> log[q][k].kind = "tomb"
      <4>1. InTurn(log[q][i], log[q][k])
        BY <2>7, <3>1, <3>3 DEF Growing
      <4> QED
        BY <3>1, <3>3, <4>1 DEF InTurn
    <3> QED
      BY <2>2, <3>2, <3>3
  <2>8. ASSUME NEW q \in Parents, NEW i \in DOMAIN log'[q], NEW k \in DOMAIN pending'[q]
        PROVE  InTurn(log'[q][i], pending'[q][k].e)
    <3>1. PICK h \in DOMAIN pending[q] : pending'[q][k] = pending[q][h] /\ (q = p => 1 < h)
      BY <1>8
    <3>2. CASE q = p /\ log'[q][i] = e
      BY <1>1, <3>1, <3>2 DEF Growing
    <3>3. CASE /\ i \in DOMAIN log[q]
               /\ log'[q][i].c = log[q][i].c /\ log'[q][i].cut = log[q][i].cut /\ log'[q][i].rev = log[q][i].rev
               /\ log'[q][i].kind = "tomb" <=> log[q][i].kind = "tomb"
      <4>1. InTurn(log[q][i], pending[q][h].e)
        BY <3>3 DEF Growing
      <4> QED
        BY <3>1, <3>3, <4>1 DEF InTurn
    <3> QED
      BY <2>2, <3>2, <3>3
  <2>9. Growing'
    BY <1>9, <2>7, <2>8 DEF Growing
  <2>10. Fresh'
    <3> SUFFICES ASSUME NEW q \in Parents, NEW k \in DOMAIN pending'[q],
                        IsBridge(pending'[q][k].e), pending'[q][k].e.rev > 1
                 PROVE  \E i \in DOMAIN log'[q] : /\ IsBridge(log'[q][i]) /\ log'[q][i].c = pending'[q][k].e.c
                                                  /\ pending'[q][k].e.rev <= log'[q][i].rev + 1
      BY DEF Fresh
    <3>1. PICK h \in DOMAIN pending[q] : pending'[q][k] = pending[q][h]
      BY <1>8
    <3>2. PICK i \in DOMAIN log[q] : /\ IsBridge(log[q][i]) /\ log[q][i].c = pending[q][h].e.c
                                     /\ pending[q][h].e.rev <= log[q][i].rev + 1
      BY <3>1 DEF Fresh
    <3>3. i \in DOMAIN log'[q] /\ (i # n + 1 \/ q # p)
      BY <2>1
    <3>4. CASE log'[q][i] = log[q][i]
      BY <3>1, <3>2, <3>3, <3>4
    <3>5. CASE q = p /\ IsBridge(e) /\ log[p][i].c = e.c /\ log[p][i].rev < e.rev
      <4>1. log[p][i].rev \in Nat /\ pending[q][h].e.rev \in Nat
        BY <3>5, EntryFields DEF Recorded, Queued
      <4>2. pending[q][h].e.rev <= e.rev + 1
        BY <3>2, <3>5, <4>1, <1>6
      <4> QED
        BY <3>1, <3>2, <3>5, <4>2, <2>3
    <3> QED
      BY <3>3, <3>4, <3>5, <2>2
  <2> QED
    BY <1>4, <2>4, <2>5, <2>6, <2>9, <2>10
<1> QED
  BY <1>10, <1>11

(* What a step of the syncs of one controller leaves alone. *)
KeepsPlaces ==
  \A q \in Parents : \A i \in DOMAIN pending[q] : i \in DOMAIN pending'[q] /\ pending'[q][i] = pending[q][i]
KeepsOthers(c) == \A d \in Controllers : d # c => sync'[d] = sync[d] /\ dirty'[d] = dirty[d]

(* What is stored of a Team stays stored while neither the Team nor the record changes. *)
LEMMA SameCutStored ==
  ASSUME NEW d \in Controllers, facts'[d] = facts[d], binding'[d] = binding[d],
         log'[binding[d].to] = log[binding[d].to]
  PROVE  CutStored(d) => CutStored(d)'
<1>1. log'[binding'[d].to] = log[binding[d].to] /\ binding'[d].gen = binding[d].gen
  BY Zenon
<1> QED
  BY <1>1, Zenon DEF CutStored

(* The same of a stored tombstone. *)
LEMMA SameTombStored ==
  ASSUME NEW d \in Controllers, binding'[d] = binding[d], log'[binding[d].prev] = log[binding[d].prev]
  PROVE  TombStored(d) => TombStored(d)'
<1>1. log'[binding'[d].prev] = log[binding[d].prev] /\ binding'[d].gen = binding[d].gen
  BY Zenon
<1> QED
  BY <1>1, Zenon DEF TombStored

(* And of both, when the step leaves all records alone. *)
LEMMA StillStored ==
  ASSUME NEW d \in Controllers, UNCHANGED <<facts, binding, open, log, bridgeFaults>>
  PROVE  (CutStored(d) => CutStored(d)') /\ (TombStored(d) => TombStored(d)')
<1>1. /\ facts'[d] = facts[d] /\ binding'[d] = binding[d]
      /\ log'[binding[d].to] = log[binding[d].to] /\ log'[binding[d].prev] = log[binding[d].prev]
  BY Zenon
<1> QED
  BY <1>1, SameCutStored, SameTombStored, Zenon

(* And what is queued stays so, or is found in the queue again. *)
LEMMA CutQueuedShown ==
  ASSUME NEW d \in Controllers, facts'[d] = facts[d], binding'[d] = binding[d],
         NEW k \in DOMAIN pending'[binding[d].to],
         LET e == pending'[binding[d].to][k].e
         IN IsBridge(e) /\ e.c = d /\ e.gen = binding[d].gen /\ e.cut = facts[d]
  PROVE  CutQueued(d)'
<1>1. pending'[binding'[d].to] = pending'[binding[d].to]
  BY Zenon
<1>2. LET e == pending'[binding'[d].to][k].e
      IN IsBridge(e) /\ e.c = d /\ e.gen = binding'[d].gen /\ e.cut = facts'[d]
  BY <1>1, Zenon
<1> QED
  BY <1>1, <1>2, Zenon DEF CutQueued

(* A queued tombstone of the present binding, named by its place. *)
LEMMA TombQueuedShown ==
  ASSUME NEW d \in Controllers, binding'[d] = binding[d], NEW k \in DOMAIN pending'[binding[d].prev],
         LET e == pending'[binding[d].prev][k].e IN e.kind = "tomb" /\ e.c = d /\ e.gen = binding[d].gen
  PROVE  TombQueued(d)'
<1>1. pending'[binding'[d].prev] = pending'[binding[d].prev]
  BY Zenon
<1>2. LET e == pending'[binding'[d].prev][k].e IN e.kind = "tomb" /\ e.c = d /\ e.gen = binding'[d].gen
  BY <1>1, Zenon
<1> QED
  BY <1>1, <1>2, Zenon DEF TombQueued

(* Where a queued cut is. *)
LEMMA CutQueuedSomewhere ==
  ASSUME NEW d \in Controllers, CutQueued(d)
  PROVE  \E i \in DOMAIN pending[binding[d].to] :
           LET e == pending[binding[d].to][i].e
           IN IsBridge(e) /\ e.c = d /\ e.gen = binding[d].gen /\ e.cut = facts[d]
BY Zenon DEF CutQueued

(* Where a queued tombstone is. *)
LEMMA TombQueuedSomewhere ==
  ASSUME NEW d \in Controllers, TombQueued(d)
  PROVE  \E i \in DOMAIN pending[binding[d].prev] :
           LET e == pending[binding[d].prev][i].e IN e.kind = "tomb" /\ e.c = d /\ e.gen = binding[d].gen
BY Zenon DEF TombQueued

(* What a sync is about to do it does while it stands still. *)
LEMMA SameSyncs ==
  ASSUME NEW d \in Controllers, binding'[d] = binding[d], sync'[d] = sync[d], dirty'[d] = dirty[d]
  PROVE  /\ SyncAsked(d) => SyncAsked(d)'
         /\ SyncAimed(d) => SyncAimed(d)'
         /\ SyncRepeats(d) => SyncRepeats(d)'
<1>1. SyncAsked(d) => SyncAsked(d)'
  BY DEF SyncAsked
<1>2. SyncAimed(d) => SyncAimed(d)'
  BY DEF SyncAimed
<1>3. SyncRepeats(d) => SyncRepeats(d)'
  BY DEF SyncRepeats
<1> QED
  BY <1>1, <1>2, <1>3

(* The queue that takes an append. *)
LEMMA PendingAppended ==
  ASSUME BridgesTyped, NEW p \in Parents, NEW x, Enters(p, x)
  PROVE  KeepsPlaces /\ \E i \in DOMAIN pending'[p] : pending'[p][i] = x
<1> DEFINE n == Len(pending[p])
<1>1. n \in Nat /\ DOMAIN pending[p] = 1 .. n /\ Sequential(pending[p])
  BY PlacesTyped
<1>2. pending' = [q \in Parents |-> IF q = p THEN Append(pending[p], x) ELSE pending[q]]
  BY DEF BridgesTyped, Enters
<1>3. pending'[p] = Append(pending[p], x) /\ \A q \in Parents : q # p => pending'[q] = pending[q]
  BY <1>2
<1>4. /\ DOMAIN pending'[p] = 1 .. n + 1 /\ pending'[p][n + 1] = x
      /\ \A i \in 1 .. n : pending'[p][i] = pending[p][i]
  BY <1>1, <1>3, RecordAppended, RecordIsSequence
<1> HIDE DEF n
<1>5. n + 1 \in DOMAIN pending'[p] /\ \A i \in 1 .. n : i \in DOMAIN pending'[p]
  BY <1>1, <1>4
<1>6. KeepsPlaces
  <2> SUFFICES ASSUME NEW q \in Parents, NEW i \in DOMAIN pending[q]
               PROVE  i \in DOMAIN pending'[q] /\ pending'[q][i] = pending[q][i]
    BY DEF KeepsPlaces
  <2>1. CASE q = p
    BY <1>1, <1>4, <1>5, <2>1
  <2>2. CASE q # p
    BY <1>3, <2>2
  <2> QED
    BY <2>1, <2>2
<1> QED
  BY <1>4, <1>5, <1>6

(* A queued cut stays queued while places are kept. *)
LEMMA SameCutQueued ==
  ASSUME KeepsPlaces, NEW d \in Controllers, binding[d].to \in Parents, CutQueued(d),
         facts'[d] = facts[d], binding'[d] = binding[d]
  PROVE  CutQueued(d)'
<1>1. PICK i \in DOMAIN pending[binding[d].to] :
        LET e == pending[binding[d].to][i].e
        IN IsBridge(e) /\ e.c = d /\ e.gen = binding[d].gen /\ e.cut = facts[d]
  BY CutQueuedSomewhere, Zenon
<1>2. i \in DOMAIN pending'[binding[d].to] /\ pending'[binding[d].to][i] = pending[binding[d].to][i]
  BY Zenon DEF KeepsPlaces
<1> QED
  BY <1>1, <1>2, CutQueuedShown, Zenon

(* And so does a queued tombstone. *)
LEMMA SameTombQueued ==
  ASSUME KeepsPlaces, NEW d \in Controllers, binding[d].prev \in Parents, TombQueued(d),
         binding'[d] = binding[d]
  PROVE  TombQueued(d)'
<1>1. PICK i \in DOMAIN pending[binding[d].prev] :
        LET e == pending[binding[d].prev][i].e IN e.kind = "tomb" /\ e.c = d /\ e.gen = binding[d].gen
  BY TombQueuedSomewhere, Zenon
<1>2. i \in DOMAIN pending'[binding[d].prev] /\ pending'[binding[d].prev][i] = pending[binding[d].prev][i]
  BY Zenon DEF KeepsPlaces
<1> QED
  BY <1>1, <1>2, TombQueuedShown, Zenon

(* What is on its way to another controller's conversations stays so. *)
LEMMA OtherCutComes ==
  ASSUME KeepsPlaces, NEW d \in Controllers, binding[d].to \in Parents, CutComes(d),
         facts'[d] = facts[d], binding'[d] = binding[d], log'[binding[d].to] = log[binding[d].to],
         sync'[d] = sync[d], dirty'[d] = dirty[d]
  PROVE  CutComes(d)'
<1>1. CutStored(d) => CutStored(d)'
  BY SameCutStored, Zenon
<1>2. CutQueued(d) => CutQueued(d)'
  BY SameCutQueued, Zenon
<1>3. /\ SyncAsked(d) => SyncAsked(d)'
      /\ SyncAimed(d) => SyncAimed(d)'
      /\ SyncRepeats(d) => SyncRepeats(d)'
  BY SameSyncs, Zenon
<1> QED
  BY <1>1, <1>2, <1>3, Zenon DEF CutComes

(* And so does the tombstone. *)
LEMMA OtherTombComes ==
  ASSUME KeepsPlaces, NEW d \in Controllers, binding[d].prev \in Parents, TombComes(d),
         binding'[d] = binding[d], log'[binding[d].prev] = log[binding[d].prev], sync'[d] = sync[d]
  PROVE  TombComes(d)'
<1>1. TombStored(d) => TombStored(d)'
  BY SameTombStored, Zenon
<1>2. TombQueued(d) => TombQueued(d)'
  BY SameTombQueued, Zenon
<1>3. SyncAsked(d) => SyncAsked(d)'
  BY DEF SyncAsked
<1> QED
  BY <1>1, <1>2, <1>3, Zenon DEF TombComes

(* A sync takes a step: nothing else that will come is lost by it. *)
LEMMA SyncKeepsComing ==
  ASSUME BridgesTyped, Coming, NEW c \in Controllers, KeepsOthers(c), KeepsPlaces,
         UNCHANGED <<facts, binding, open, log, bridgeFaults>>,
         bridgeFaults = 0 /\ binding[c].to \in open /\ facts[c] > 0 => CutComes(c)',
         bridgeFaults = 0 /\ binding[c].prev \in open \ {binding[c].to} => TombComes(c)'
  PROVE  Coming'
<1>1. ASSUME NEW d \in Controllers, d # c
      PROVE  /\ CutComes(d) => CutComes(d)'
             /\ TombComes(d) /\ binding[d].prev \in open => TombComes(d)'
  <2>1. binding[d].to \in Parents /\ (binding[d].prev \in open => binding[d].prev \in Parents)
    BY DEF BridgesTyped
  <2>2. sync'[d] = sync[d] /\ dirty'[d] = dirty[d]
    BY <1>1, Zenon DEF KeepsOthers
  <2>3. /\ facts'[d] = facts[d] /\ binding'[d] = binding[d]
        /\ log'[binding[d].to] = log[binding[d].to] /\ log'[binding[d].prev] = log[binding[d].prev]
    BY Zenon
  <2>4. CutComes(d) => CutComes(d)'
    BY <2>1, <2>2, <2>3, OtherCutComes, Zenon
  <2>5. TombComes(d) /\ binding[d].prev \in open => TombComes(d)'
    BY <2>1, <2>2, <2>3, OtherTombComes, Zenon
  <2> QED
    BY <2>4, <2>5
<1> QED
  BY <1>1 DEF Coming

(* The tombstone is queued where the Team left. *)
LEMMA DetachKeeps ==
  ASSUME BridgesInv, NEW c \in Controllers, NEW j \in Jobs, Detach(c, j)
  PROVE  BridgesInv'
<1> DEFINE b == binding[c]
           e == TombOf(c, b.gen)
           s == [pc |-> "detaching", to |-> b.to, gen |-> b.gen]
<1>0. sync[c][j].pc = "asked" /\ UNCHANGED <<facts, binding, open, log, bridgeFaults>>
  BY DEF Detach, Enqueue
<1>1. BridgesTyped /\ Recorded /\ Queued /\ Growing /\ Superseded /\ Fresh /\ Coming
  BY DEF BridgesInv
<1>2. /\ sync[c][j].pc = "asked" /\ sync' = [sync EXCEPT ![c][j] = s]
      /\ pending' = [pending EXCEPT ![b.prev] = Append(@, [e |-> e, c |-> c, j |-> j])]
      /\ UNCHANGED <<facts, binding, open, log, bridgeFaults>>
      /\ b.prev \in open \ {b.to}
  BY DEF Detach, Enqueue, Owes
<1>3. b \in [to : Parents, prev : Parents \cup {NoParent}, gen : Nat] /\ b.prev \in Parents /\ facts[c] \in Nat
  BY <1>1, <1>2 DEF BridgesTyped
<1>4. dirty' \in [Controllers -> BOOLEAN] /\ \A d \in Controllers : d # c => dirty'[d] = dirty[d]
  BY <1>1 DEF Detach, BridgesTyped
<1>5. e = [kind |-> "tomb", c |-> c, gen |-> b.gen, act |-> 0, rev |-> 0, cut |-> 0, ord |-> ordinal[c]]
  BY DEF TombOf, BridgeOf
<1> HIDE DEF e
<1>6. e.kind = "tomb" /\ e.c = c /\ e.gen = b.gen /\ e.rev = 0 /\ e.cut = 0
  BY <1>5
<1>7. Entry(e) /\ Buries(e, b.prev)
  <2>1. e \in [kind : {"bridge", "tomb", "compacted"}, c : Controllers, gen : Nat, act : {e.act},
               rev : Nat, cut : Nat, ord : {e.ord}]
    BY <1>3, <1>5
  <2> QED
    BY <1>2, <1>3, <1>6, <2>1 DEF Entry, Buries
<1>8. /\ s \in [pc : {"detaching", "attaching"}, to : Parents \cup {NoParent}, gen : Nat]
      /\ s.gen <= b.gen /\ s.pc = "detaching" /\ s.to = b.to /\ s.gen = b.gen
  BY <1>3
<1> HIDE DEF s
<1>9. /\ Enters(b.prev, [e |-> e, c |-> c, j |-> j]) /\ Steps(c, j, s)
  BY <1>2, Zenon DEF Enters, Steps
<1>15. BridgesTyped' /\ Recorded' /\ Queued' /\ Growing' /\ Superseded' /\ Fresh'
  <2>1. \A d : InTurn(d, e)
    BY <1>6 DEF InTurn
  <2>2. ~IsBridge(e)
    BY <1>6 DEF IsBridge
  <2> QED
    BY <1>0, <1>1, <1>3, <1>4, <1>6, <1>7, <1>8, <1>9, <2>1, <2>2, QueueingKeeps
<1>10. /\ sync'[c][j] = s /\ \A k \in Jobs : k # j => sync'[c][k] = sync[c][k]
       /\ \A d \in Controllers : d # c => sync'[d] = sync[d]
  BY <1>1, <1>2 DEF BridgesTyped
<1>11. KeepsPlaces /\ \E i \in DOMAIN pending'[b.prev] : pending'[b.prev][i].e = e
  <2> DEFINE x == [e |-> e, c |-> c, j |-> j]
             p == b.prev
  <2>1. x.e = e /\ Enters(p, x) /\ p \in Parents
    BY <1>3, <1>9
  <2> HIDE DEF x, p
  <2>2. KeepsPlaces /\ \E i \in DOMAIN pending'[p] : pending'[p][i] = x
    BY <1>1, <2>1, PendingAppended
  <2> QED
    BY <2>1, <2>2 DEF p
<1>12. CutComes(c)'
  <2>1. SyncAimed(c)'
    BY <1>0, <1>8, <1>10 DEF SyncAimed
  <2> QED
    BY <2>1 DEF CutComes
<1>13. TombComes(c)'
  <2>1. TombQueued(c)'
    BY <1>0, <1>6, <1>11, Zenon DEF TombQueued
  <2> QED
    BY <2>1 DEF TombComes
<1>14. Coming'
  <2>1. KeepsOthers(c)
    BY <1>4, <1>10 DEF KeepsOthers
  <2> QED
    BY <1>0, <1>1, <1>11, <1>12, <1>13, <2>1, SyncKeepsComing
<1> QED
  BY <1>14, <1>15 DEF BridgesInv

(* A sync that published the newest cut, or has it on its way, still lets come what comes. *)
LEMMA AttachKeepsComing ==
  ASSUME BridgesTyped, Coming, NEW c \in Controllers, NEW j \in Jobs, Attaches(c, j),
         \A k \in Jobs : k # j => sync'[c][k] = sync[c][k],
         KeepsOthers(c), KeepsPlaces, UNCHANGED <<facts, binding, open, log, bridgeFaults>>,
         Target(c, j).to = binding[c].to /\ Target(c, j).gen = binding[c].gen
           /\ binding[c].to \in open /\ facts[c] > 0 => CutComes(c)',
         sync[c][j].pc = "attach" => dirty'[c] = dirty[c] \/ sync'[c]["job"].pc = "asked",
         sync[c][j].pc = "attach" /\ j = "job" /\ dirty[c] => sync'[c]["job"].pc # "idle"
  PROVE  Coming'
<1>1. binding[c].to \in Parents /\ "job" \in Jobs
  BY DEF BridgesTyped, Jobs
<1>4. (CutStored(c) => CutStored(c)') /\ (TombStored(c) => TombStored(c)')
  BY StillStored, Zenon
<1>5. facts'[c] = facts[c] /\ binding'[c] = binding[c]
  BY Zenon
<1>2. ASSUME bridgeFaults = 0, binding[c].to \in open, facts[c] > 0
      PROVE  CutComes(c)'
  <2>1. CASE sync[c][j].pc = "attach"
    <3>1. CASE sync[c][j].gen = binding[c].gen /\ sync[c][j].to = binding[c].to
      BY <1>2, <2>1, <3>1 DEF Target
    <3>2. CASE ~(sync[c][j].gen = binding[c].gen /\ sync[c][j].to = binding[c].to)
      <4>1. CutComes(c)
        BY <1>2, Zenon DEF Coming
      <4>3. CutQueued(c) => CutQueued(c)'
        BY <1>1, <1>5, SameCutQueued, Zenon
      <4>4. SyncAsked(c) => SyncAsked(c)'
        BY <2>1 DEF SyncAsked
      <4>5. SyncAimed(c) => SyncAimed(c)'
        BY <3>2 DEF SyncAimed
      <4>6. SyncRepeats(c) => SyncRepeats(c)' \/ SyncAsked(c)'
        BY <1>1, <2>1 DEF SyncRepeats, SyncAsked
      <4> QED
        BY <1>4, <4>1, <4>3, <4>4, <4>5, <4>6, Zenon DEF CutComes
    <3> QED
      BY <3>1, <3>2
  <2>2. CASE sync[c][j].pc # "attach"
    <3>1. Target(c, j).to = binding[c].to /\ Target(c, j).gen = binding[c].gen
      BY <2>2 DEF Target
    <3> QED
      BY <1>2, <3>1
  <2> QED
    BY <2>1, <2>2
<1>3. ASSUME bridgeFaults = 0, binding[c].prev \in open \ {binding[c].to}
      PROVE  TombComes(c)'
  <2>1. TombComes(c) /\ binding[c].prev \in Parents
    BY <1>3 DEF Coming, BridgesTyped
  <2>2. SyncAsked(c) => SyncAsked(c)' \/ TombStored(c)
    <3>1. CASE sync[c][j].pc = "asked"
      BY <1>3, <3>1 DEF Attaches, Owes, TombStored
    <3>2. CASE sync[c][j].pc # "asked"
      BY <3>2 DEF SyncAsked
    <3> QED
      BY <3>1, <3>2
  <2>4. TombQueued(c) => TombQueued(c)'
    BY <1>5, <2>1, SameTombQueued, Zenon
  <2> QED
    BY <1>4, <2>1, <2>2, <2>4, Zenon DEF TombComes
<1> QED
  BY <1>2, <1>3, SyncKeepsComing

(* Where a cut goes is a conversation or none, of a binding that was. *)
LEMMA TargetTyped ==
  ASSUME BridgesTyped, NEW c \in Controllers, NEW j \in Jobs
  PROVE  /\ Target(c, j) \in [pc : {"idle", "asked", "detaching", "attach", "attaching"},
                              to : Parents \cup {NoParent}, gen : Nat]
         /\ Target(c, j).gen <= binding[c].gen
<1>1. CASE sync[c][j].pc = "attach"
  BY <1>1 DEF Target, BridgesTyped
<1>2. CASE sync[c][j].pc # "attach"
  <2> DEFINE b == binding[c]
  <2>1. b.to \in Parents /\ b.gen \in Nat
    BY DEF BridgesTyped
  <2> HIDE DEF b
  <2>2. Target(c, j) = [pc |-> "attach", to |-> b.to, gen |-> b.gen]
    BY <1>2 DEF Target, b
  <2> QED
    BY <2>1, <2>2 DEF b
<1> QED
  BY <1>1, <1>2

(* A sync with nothing new to publish loses nothing. *)
LEMMA SkipAttachKeeps ==
  ASSUME BridgesInv, NEW c \in Controllers, NEW j \in Jobs, SkipAttach(c, j)
  PROVE  BridgesInv'
<1> DEFINE s == IF sync[c][j].pc = "asked" THEN Idle ELSE Ended(c, j)
<1>1. BridgesTyped /\ Recorded /\ Queued /\ Growing /\ Superseded /\ Fresh /\ Coming
  BY DEF BridgesInv
<1>2. /\ Attaches(c, j) /\ NothingNew(c, Target(c, j))
      /\ sync' = [sync EXCEPT ![c][j] = s]
      /\ dirty' = IF j = "job" THEN [dirty EXCEPT ![c] = FALSE] ELSE dirty
      /\ UNCHANGED <<facts, binding, open, log, pending, bridgeFaults>>
  BY DEF SkipAttach
<1>3. s \in [pc : {"idle", "asked"}, to : Parents \cup {NoParent}, gen : Nat] /\ s.gen = 0
  BY DEF Idle, Ended
<1>4. sync[c][j].pc = "attach" /\ j = "job" /\ dirty[c] => s.pc = "asked"
  BY DEF Idle, Ended
<1> HIDE DEF s
<1>5. /\ sync'[c][j] = s /\ \A k \in Jobs : k # j => sync'[c][k] = sync[c][k]
      /\ \A d \in Controllers : d # c => sync'[d] = sync[d]
  BY <1>1, <1>2 DEF BridgesTyped
<1>6. /\ dirty' \in [Controllers -> BOOLEAN] /\ \A d \in Controllers : d # c => dirty'[d] = dirty[d]
      /\ dirty'[c] = IF j = "job" THEN FALSE ELSE dirty[c]
      /\ dirty[c] \in BOOLEAN
  BY <1>1, <1>2 DEF BridgesTyped
<1>7. BridgesTyped'
  <2>1. /\ sync' \in [Controllers -> [Jobs -> [pc : {"idle", "asked", "detaching", "attach", "attaching"},
                                         to : Parents \cup {NoParent}, gen : Nat]]]
        /\ \A d \in Controllers, k \in Jobs : sync'[d][k].gen <= binding[d].gen
    <3>1. s \in [pc : {"idle", "asked", "detaching", "attach", "attaching"}, to : Parents \cup {NoParent}, gen : Nat]
      BY <1>3
    <3> QED
      BY <1>1, <1>2, <1>3, <1>5, <3>1 DEF BridgesTyped
  <2> QED
    BY <1>1, <1>2, <1>6, <2>1 DEF BridgesTyped
<1>8. Recorded' /\ Queued' /\ Growing' /\ Superseded' /\ Fresh'
  <2>1. \A d \in Controllers : /\ facts[d] <= facts'[d]
                               /\ binding'[d] = binding[d] \/ binding'[d].gen = binding[d].gen + 1
    BY <1>1, <1>2 DEF BridgesTyped
  <2>2. \A d \in Controllers, k \in Jobs :
           sync'[d][k].pc = sync[d][k].pc
           \/ {sync[d][k].pc, sync'[d][k].pc} \cap {"detaching", "attaching"} = {}
    BY <1>2, <1>3, <1>5 DEF Attaches
  <2> QED
    BY <1>1, <1>2, <1>7, <2>1, <2>2, GrowthKeeps
<1>9. Coming'
  <2>1. Target(c, j).to = binding[c].to /\ Target(c, j).gen = binding[c].gen
           /\ binding[c].to \in open /\ facts[c] > 0 => CutComes(c)'
    <3>1. facts[c] \in Nat
      BY <1>1 DEF BridgesTyped
    <3> QED
      BY <1>2, <3>1 DEF NothingNew, CutComes, CutStored
  <2>2. sync[c][j].pc = "attach" => dirty'[c] = dirty[c] \/ sync'[c]["job"].pc = "asked"
    BY <1>4, <1>5, <1>6
  <2>3. sync[c][j].pc = "attach" /\ j = "job" /\ dirty[c] => sync'[c]["job"].pc # "idle"
    BY <1>4, <1>5
  <2>4. KeepsPlaces /\ KeepsOthers(c)
    BY <1>2, <1>5, <1>6 DEF KeepsPlaces, KeepsOthers
  <2>5. Attaches(c, j) /\ UNCHANGED <<facts, binding, open, log, bridgeFaults>> /\ \A k \in Jobs : k # j => sync'[c][k] = sync[c][k]
    BY <1>2, <1>5
  <2> QED
    BY <1>1, <2>1, <2>2, <2>3, <2>4, <2>5, AttachKeepsComing
<1> QED
  BY <1>1, <1>7, <1>8, <1>9 DEF BridgesInv

(* A cut is built on the newest cut of its record, so it is behind nothing stored or queued there. *)
LEMMA CutIsInTurn ==
  ASSUME BridgesTyped, Recorded, Queued, Growing, Superseded, Fresh,
         NEW c \in Controllers, NEW p \in Parents, NEW gen \in Nat, gen <= binding[c].gen
  PROVE  LET e == NextBridge(log[p], c, gen) IN
         /\ Entry(e) /\ e.kind = "bridge" /\ e.c = c /\ e.gen = gen /\ e.cut = facts[c] /\ e.rev # 0
         /\ \A i \in DOMAIN log[p] : InTurn(log[p][i], e)
         /\ \A i \in DOMAIN pending[p] : InTurn(pending[p][i].e, e)
         /\ e.rev > 1 => \E i \in DOMAIN log[p] : /\ IsBridge(log[p][i]) /\ log[p][i].c = c
                                                  /\ e.rev <= log[p][i].rev + 1
<1> DEFINE s == log[p]
           e == NextBridge(s, c, gen)
<1>1. Sequential(s) /\ \A i \in DOMAIN s : Entry(s[i])
  BY PlacesTyped DEF Recorded
<1>2. \A i \in DOMAIN s : s[i].rev \in Nat /\ s[i].cut \in Nat /\ s[i].c \in Controllers
                          /\ s[i].cut <= facts[s[i].c] /\ s[i].kind \in {"bridge", "tomb", "compacted"}
  BY <1>1, EntryFields
<1>3. \A i, k \in DOMAIN s : i < k => InTurn(s[i], s[k])
  BY DEF Growing
<1>4. \A i \in DOMAIN s : s[i].kind = "compacted" =>
        \E k \in DOMAIN s : IsBridge(s[k]) /\ s[k].c = s[i].c /\ s[k].rev > s[i].rev
  BY DEF Superseded
<1>5. facts[c] \in Nat
  BY DEF BridgesTyped
<1>6. /\ e = [kind |-> "bridge", c |-> c, gen |-> gen, act |-> e.act, rev |-> e.rev, cut |-> facts[c], ord |-> e.ord]
      /\ e.rev \in Nat \ {0}
      /\ \A i \in DOMAIN s : IsBridge(s[i]) /\ s[i].c = c => s[i].rev < e.rev
      /\ e.rev > 1 => \E i \in DOMAIN s : IsBridge(s[i]) /\ s[i].c = c /\ e.rev = s[i].rev + 1
  <2> HIDE DEF s, e
  <2> QED
    BY <1>1, <1>2, <1>3, NextIsNewest DEF e
<1>7. \A k \in DOMAIN pending[p] :
        /\ Entry(pending[p][k].e) /\ pending[p][k].e.kind \in {"bridge", "tomb"}
        /\ IsBridge(pending[p][k].e) /\ pending[p][k].e.rev > 1 =>
             \E i \in DOMAIN s : IsBridge(s[i]) /\ s[i].c = pending[p][k].e.c /\ pending[p][k].e.rev <= s[i].rev + 1
  BY DEF Queued, Awaited, Fresh
<1> HIDE DEF e, s
<1>8. e.kind = "bridge" /\ e.c = c /\ e.gen = gen /\ e.cut = facts[c] /\ e.rev \in Nat
  BY <1>6
<1>9. Entry(e)
  <2>1. e \in [kind : {"bridge", "tomb", "compacted"}, c : Controllers, gen : Nat, act : {e.act},
               rev : Nat, cut : Nat, ord : {e.ord}]
    BY <1>5, <1>6
  <2> QED
    BY <1>5, <1>8, <2>1 DEF Entry
<1>10. ASSUME NEW i \in DOMAIN s, s[i].kind # "tomb", s[i].c = c
       PROVE  s[i].cut <= e.cut /\ s[i].rev < e.rev
  <2>1. s[i].cut <= e.cut
    BY <1>2, <1>8, <1>10
  <2>2. CASE s[i].kind = "bridge"
    BY <1>6, <1>10, <2>1, <2>2 DEF IsBridge
  <2>3. CASE s[i].kind = "compacted"
    <3>1. PICK k \in DOMAIN s : IsBridge(s[k]) /\ s[k].c = c /\ s[k].rev > s[i].rev
      BY <1>4, <1>10, <2>3
    <3>2. s[k].rev < e.rev
      BY <1>6, <3>1
    <3> QED
      BY <1>2, <1>8, <2>1, <3>1, <3>2
  <2> QED
    BY <1>2, <1>10, <2>2, <2>3
<1>11. \A i \in DOMAIN s : InTurn(s[i], e)
  BY <1>2, <1>8, <1>10 DEF InTurn
<1>12. ASSUME NEW k \in DOMAIN pending[p], pending[p][k].e.kind # "tomb", pending[p][k].e.c = c
       PROVE  pending[p][k].e.cut <= e.cut /\ pending[p][k].e.rev <= e.rev
  <2> DEFINE y == pending[p][k].e
  <2>1. Entry(y) /\ IsBridge(y) /\ y.c = c
    BY <1>7, <1>12 DEF IsBridge
  <2>2. y.rev > 1 => \E i \in DOMAIN s : IsBridge(s[i]) /\ s[i].c = c /\ y.rev <= s[i].rev + 1
    BY <1>7, <2>1
  <2> HIDE DEF y
  <2>3. y.cut \in Nat /\ y.rev \in Nat /\ y.cut <= facts[c]
    BY <2>1, EntryFields
  <2>4. CASE y.rev > 1
    <3>1. PICK i \in DOMAIN s : IsBridge(s[i]) /\ s[i].c = c /\ y.rev <= s[i].rev + 1
      BY <2>2, <2>4
    <3>2. s[i].rev < e.rev /\ s[i].rev \in Nat
      BY <1>2, <1>6, <3>1
    <3> QED
      BY <1>8, <2>3, <3>1, <3>2 DEF y
  <2>5. CASE ~(y.rev > 1)
    BY <1>6, <1>8, <2>3, <2>5 DEF y
  <2> QED
    BY <2>4, <2>5
<1>13. \A k \in DOMAIN pending[p] : InTurn(pending[p][k].e, e)
  BY <1>8, <1>12 DEF InTurn
<1>14. e.rev # 0 /\ (e.rev > 1 => \E i \in DOMAIN s : IsBridge(s[i]) /\ s[i].c = c /\ e.rev <= s[i].rev + 1)
  BY <1>6, <1>2
<1> QED
  BY <1>8, <1>9, <1>11, <1>13, <1>14 DEF s, e

(* The cut is queued where the Team is. *)
LEMMA AttachKeeps ==
  ASSUME BridgesInv, NEW c \in Controllers, NEW j \in Jobs, Attach(c, j)
  PROVE  BridgesInv'
<1> DEFINE p == Target(c, j).to
           g == Target(c, j).gen
           e == NextBridge(log[p], c, g)
           s == [Target(c, j) EXCEPT !.pc = "attaching"]
<1>1. BridgesTyped /\ Recorded /\ Queued /\ Growing /\ Superseded /\ Fresh /\ Coming
  BY DEF BridgesInv
<1>2. /\ Attaches(c, j) /\ ~NothingNew(c, Target(c, j))
      /\ sync' = [sync EXCEPT ![c][j] = s]
      /\ pending' = [pending EXCEPT ![p] = Append(@, [e |-> e, c |-> c, j |-> j])]
      /\ dirty' = IF j = "job" /\ sync[c][j].pc = "asked" THEN [dirty EXCEPT ![c] = FALSE] ELSE dirty
      /\ UNCHANGED <<facts, binding, open, log, bridgeFaults>>
  BY DEF Attach, Enqueue
<1>3. /\ Target(c, j) \in [pc : {"idle", "asked", "detaching", "attach", "attaching"},
                           to : Parents \cup {NoParent}, gen : Nat]
      /\ g <= binding[c].gen
  BY <1>1, TargetTyped
<1>4. p \in Parents /\ g \in Nat
  BY <1>1, <1>2, <1>3 DEF NothingNew, BridgesTyped
<1>5. /\ s \in [pc : {"detaching", "attaching"}, to : Parents \cup {NoParent}, gen : Nat]
      /\ s.gen = g /\ s.pc = "attaching" /\ s.to = p
  <2> DEFINE t == Target(c, j)
  <2> HIDE DEF t
  <2>1. t \in [pc : {"idle", "asked", "detaching", "attach", "attaching"}, to : Parents \cup {NoParent}, gen : Nat]
    BY <1>3 DEF t
  <2>2. /\ [t EXCEPT !.pc = "attaching"] \in [pc : {"detaching", "attaching"}, to : Parents \cup {NoParent}, gen : Nat]
        /\ [t EXCEPT !.pc = "attaching"].gen = t.gen /\ [t EXCEPT !.pc = "attaching"].to = t.to
        /\ [t EXCEPT !.pc = "attaching"].pc = "attaching"
    BY <2>1
  <2> QED
    BY <2>2 DEF t
<1> HIDE DEF p, g, s
<1>6. /\ Entry(e) /\ e.kind = "bridge" /\ e.c = c /\ e.gen = g /\ e.cut = facts[c] /\ e.rev # 0
      /\ \A i \in DOMAIN log[p] : InTurn(log[p][i], e)
      /\ \A i \in DOMAIN pending[p] : InTurn(pending[p][i].e, e)
      /\ e.rev > 1 => \E i \in DOMAIN log[p] : /\ IsBridge(log[p][i]) /\ log[p][i].c = c
                                               /\ e.rev <= log[p][i].rev + 1
  BY <1>1, <1>3, <1>4, CutIsInTurn
<1> HIDE DEF e
<1>7. dirty' \in [Controllers -> BOOLEAN] /\ (\A d \in Controllers : d # c => dirty'[d] = dirty[d])
      /\ (sync[c][j].pc = "attach" => dirty'[c] = dirty[c])
  BY <1>1, <1>2 DEF BridgesTyped
<1>8. sync[c][j].pc \notin {"detaching", "attaching"}
  BY <1>2 DEF Attaches
<1>14. Enters(p, [e |-> e, c |-> c, j |-> j]) /\ Steps(c, j, s) /\ UNCHANGED <<facts, binding, open, log, bridgeFaults>>
  BY <1>2, Zenon DEF Enters, Steps
<1>9. BridgesTyped' /\ Recorded' /\ Queued' /\ Growing' /\ Superseded' /\ Fresh'
  <2>1. Buries(e, p)
    BY <1>6 DEF Buries
  <2> QED
    BY <1>1, <1>3, <1>4, <1>5, <1>6, <1>7, <1>8, <1>14, <2>1, QueueingKeeps
<1>10. /\ sync'[c][j] = s /\ \A k \in Jobs : k # j => sync'[c][k] = sync[c][k]
       /\ \A d \in Controllers : d # c => sync'[d] = sync[d]
  BY <1>1, <1>2 DEF BridgesTyped
<1>11. KeepsPlaces /\ \E i \in DOMAIN pending'[p] : pending'[p][i].e = e
  <2> DEFINE x == [e |-> e, c |-> c, j |-> j]
  <2>1. x.e = e /\ Enters(p, x)
    BY <1>14
  <2> HIDE DEF x
  <2>2. KeepsPlaces /\ \E i \in DOMAIN pending'[p] : pending'[p][i] = x
    BY <1>1, <1>4, <2>1, PendingAppended
  <2> QED
    BY <2>1, <2>2
<1>12. Target(c, j).to = binding[c].to /\ Target(c, j).gen = binding[c].gen => CutComes(c)'
  <2> SUFFICES ASSUME p = binding[c].to, g = binding[c].gen
               PROVE  CutComes(c)'
    BY DEF p, g
  <2>1. IsBridge(e) /\ e.c = c /\ e.gen = binding[c].gen /\ e.cut = facts[c]
    BY <1>6 DEF IsBridge
  <2>2. \E i \in DOMAIN pending'[binding[c].to] : pending'[binding[c].to][i].e = e
    BY <1>11
  <2>3. CutComes(c)'
    <3>1. CutQueued(c)'
      BY <1>14, <2>1, <2>2 DEF CutQueued
    <3> QED
      BY <3>1 DEF CutComes
  <2> QED
    BY <2>3
<1>13. Coming'
  <2>1. sync[c][j].pc = "attach" /\ j = "job" /\ dirty[c] => sync'[c]["job"].pc # "idle"
    BY <1>5, <1>10
  <2>2. KeepsOthers(c) /\ \A k \in Jobs : k # j => sync'[c][k] = sync[c][k]
    BY <1>7, <1>10 DEF KeepsOthers
  <2>3. Attaches(c, j)
    BY <1>2
  <2> QED
    BY <1>1, <1>7, <1>11, <1>12, <1>14, <2>1, <2>2, <2>3, AttachKeepsComing
<1> QED
  BY <1>9, <1>13 DEF BridgesInv

(* An append that fails ends what its sync has promised, and keeps the order. *)
LEMMA LoseKeeps ==
  ASSUME BridgesInv, NEW p \in Parents, LoseEntry(p)
  PROVE  BridgesInv'
<1>1. BridgesTyped /\ Recorded /\ Queued /\ Growing /\ Superseded /\ Fresh
  BY DEF BridgesInv
<1>2. Delivers(p) /\ UNCHANGED <<facts, binding, open, log, dirty>> /\ bridgeFaults' = bridgeFaults + 1
  BY DEF LoseEntry, Delivers
<1>3. bridgeFaults' \in Nat /\ bridgeFaults' # 0
  BY <1>1, <1>2 DEF BridgesTyped
<1>4. BridgesTyped' /\ Recorded' /\ Queued' /\ Growing' /\ Superseded' /\ Fresh'
  BY <1>1, <1>2, <1>3, DeliveryKeeps
<1>5. Coming'
  BY <1>3 DEF Coming
<1> QED
  BY <1>4, <1>5 DEF BridgesInv

(* What has come stays, and what leaves a queue has come. *)
LEMMA StoreKeeps ==
  ASSUME BridgesInv, NEW p \in Parents, StoreEntry(p)
  PROVE  BridgesInv'
<1> DEFINE x == Head(pending[p])
           e == x.e
           n == Len(log[p])
<1>1. BridgesTyped /\ Recorded /\ Queued /\ Growing /\ Superseded /\ Fresh /\ Coming
  BY DEF BridgesInv
<1>2. Delivers(p) /\ StoresHead(p) /\ UNCHANGED <<facts, binding, open, dirty, bridgeFaults>>
  BY DEF StoreEntry, Delivers, StoresHead
<1>3. bridgeFaults' \in Nat
  BY <1>1, <1>2 DEF BridgesTyped
<1>4. BridgesTyped' /\ Recorded' /\ Queued' /\ Growing' /\ Superseded' /\ Fresh'
  BY <1>1, <1>2, <1>3, DeliveryKeeps
<1>5. /\ 1 \in DOMAIN pending[p] /\ x = pending[p][1] /\ Entry(e) /\ Awaited(x)
      /\ x.c \in Controllers /\ x.j \in Jobs /\ e.c = x.c
      /\ \A i \in DOMAIN pending[p] : i # 1 => i - 1 \in DOMAIN pending'[p] /\ pending'[p][i - 1] = pending[p][i]
      /\ \A q \in Parents : q # p => pending'[q] = pending[q]
  BY <1>1, <1>2, QueueShortened DEF Delivers
<1>6. ResumeSync(x) /\ log' = [log EXCEPT ![p] = Append1(@, e)]
  BY <1>2 DEF Delivers, StoresHead
<1> HIDE DEF x
<1>7. /\ \A c \in Controllers, j \in Jobs : c # x.c \/ j # x.j => sync'[c][j] = sync[c][j]
      /\ e.kind = "tomb" => sync'[x.c][x.j] = [sync[x.c][x.j] EXCEPT !.pc = "attach"]
      /\ e.kind # "tomb" => sync'[x.c][x.j] = Ended(x.c, x.j)
  <2>1. x.c \in Controllers /\ x.j \in Jobs
    BY <1>5, Zenon
  <2>2. ResumeSync(x)
    BY <1>6, Zenon
  <2>3. Resumed(x)
    BY <1>1, <2>1, <2>2, ResumesTyped, Zenon
  <2> QED
    BY <2>3 DEF Resumed, e
<1>8. /\ sync[x.c][x.j].pc = IF e.kind = "tomb" THEN "detaching" ELSE "attaching"
      /\ e.kind \in {"bridge", "tomb"} /\ (e.kind = "bridge" => e.rev # 0)
  <2>1. Awaited(x)
    BY <1>5, Zenon
  <2> QED
    BY <2>1, Zenon DEF Awaited, e
<1> HIDE DEF e
<1>9. /\ n \in Nat /\ DOMAIN log[p] = 1 .. n /\ DOMAIN log'[p] = 1 .. n + 1 /\ log'[p][n + 1] = e
      /\ \A q \in Parents : q # p => log'[q] = log[q]
  BY <1>1, <1>6, StorePlaces
<1>10. \A i \in 1 .. n :
              LET d == log[p][i]
                  t == log'[p][i]
              IN /\ t.c = d.c /\ t.gen = d.gen /\ t.cut = d.cut /\ t.rev = d.rev
                 /\ t.kind = "tomb" <=> d.kind = "tomb"
                 /\ Entry(t)
                 /\ \/ t = d
                    \/ /\ IsBridge(e) /\ IsBridge(d) /\ d.c = e.c /\ d.gen <= e.gen /\ d.rev < e.rev
                       /\ t.kind = "compacted"
  <2>1. \A i \in 1 .. n : Keeps(log[p][i], log'[p][i], e)
    BY <1>1, <1>5, <1>6, <1>8, StoreRecords, Zenon
  <2> QED
    BY <2>1 DEF Keeps
<1> HIDE DEF n
<1>11. n + 1 \in DOMAIN log'[p] /\ \A i \in DOMAIN log[p] : i \in DOMAIN log'[p] /\ i \in 1 .. n
  BY <1>9
<1>12. ASSUME NEW c \in Controllers, HasCut(log[binding[c].to], c, binding[c].gen, facts[c])
       PROVE  HasCut(log'[binding[c].to], c, binding[c].gen, facts[c])
  <2>1. CASE binding[c].to # p
    <3>1. binding[c].to \in Parents
      BY <1>1 DEF BridgesTyped
    <3> QED
      BY <1>9, <1>12, <2>1, <3>1
  <2>2. CASE binding[c].to = p
    <3>1. PICK i \in DOMAIN log[p] : /\ IsBridge(log[p][i]) /\ log[p][i].c = c
                                     /\ log[p][i].gen = binding[c].gen /\ log[p][i].cut = facts[c]
      BY <1>12, <2>2 DEF HasCut
    <3>2. i \in DOMAIN log'[p] /\ i \in 1 .. n
      BY <1>11
    <3>3. CASE log'[p][i] = log[p][i]
      BY <2>2, <3>1, <3>2, <3>3 DEF HasCut
    <3>4. CASE IsBridge(e) /\ log[p][i].c = e.c /\ log[p][i].gen <= e.gen
      <4>1. e.gen \in Nat /\ e.cut \in Nat /\ e.gen <= binding[c].gen /\ e.cut <= facts[c]
        BY <1>5, <3>1, <3>4, EntryFields
      <4>2. binding[c].gen \in Nat /\ facts[c] \in Nat
        BY <1>1 DEF BridgesTyped
      <4>3. e.gen = binding[c].gen
        BY <3>1, <3>4, <4>1, <4>2
      <4>4. InTurn(log[p][i], e)
        BY <1>1, <1>5, <3>1 DEF Growing, e
      <4>5. e.cut = facts[c]
        BY <3>1, <3>4, <4>1, <4>2, <4>4 DEF InTurn, IsBridge
      <4> QED
        BY <1>9, <1>11, <2>2, <3>1, <3>4, <4>3, <4>5 DEF HasCut
    <3> QED
      BY <1>10, <3>2, <3>3, <3>4
  <2> QED
    BY <2>1, <2>2
<1>13. ASSUME NEW q \in Parents, NEW i \in DOMAIN pending[q]
       PROVE  \/ \E k \in DOMAIN pending'[q] : pending'[q][k] = pending[q][i]
              \/ q = p /\ pending[q][i].e = e
  BY <1>5 DEF e
<1>14. ASSUME NEW c \in Controllers, CutQueued(c)
       PROVE  CutQueued(c)' \/ CutStored(c)'
  <2>1. binding[c].to \in Parents
    BY <1>1 DEF BridgesTyped
  <2>2. facts'[c] = facts[c] /\ binding'[c] = binding[c]
    BY <1>2, Zenon
  <2>3. PICK i \in DOMAIN pending[binding[c].to] :
          LET d == pending[binding[c].to][i].e
          IN IsBridge(d) /\ d.c = c /\ d.gen = binding[c].gen /\ d.cut = facts[c]
    BY <1>14, CutQueuedSomewhere, Zenon
  <2>4. CASE \E k \in DOMAIN pending'[binding[c].to] : pending'[binding[c].to][k] = pending[binding[c].to][i]
    <3>1. PICK k \in DOMAIN pending'[binding[c].to] : pending'[binding[c].to][k] = pending[binding[c].to][i]
      BY <2>4, Zenon
    <3>2. LET d == pending'[binding[c].to][k].e
          IN IsBridge(d) /\ d.c = c /\ d.gen = binding[c].gen /\ d.cut = facts[c]
      BY <2>3, <3>1, Zenon
    <3> QED
      BY <2>2, <3>2, CutQueuedShown, Zenon
  <2>5. CASE binding[c].to = p /\ pending[binding[c].to][i].e = e
    <3>1. HasCut(log'[binding[c].to], c, binding[c].gen, facts[c])
      BY <1>9, <1>11, <2>3, <2>5 DEF HasCut
    <3>2. log'[binding'[c].to] = log'[binding[c].to] /\ binding'[c].gen = binding[c].gen
      BY <2>2, Zenon
    <3> QED
      BY <2>2, <3>1, <3>2, Zenon DEF CutStored
  <2> QED
    BY <1>13, <2>1, <2>4, <2>5
<1>15. ASSUME NEW c \in Controllers
       PROVE  SyncAsked(c) => SyncAsked(c)'
  <2> SUFFICES ASSUME SyncAsked(c) PROVE SyncAsked(c)'
    OBVIOUS
  <2>1. PICK k \in Jobs : sync[c][k].pc = "asked"
    BY DEF SyncAsked
  <2>2. sync'[c][k] = sync[c][k]
    BY <1>7, <1>8, <2>1
  <2> QED
    BY <2>1, <2>2 DEF SyncAsked
<1>16. ASSUME NEW c \in Controllers
       PROVE  SyncAimed(c) => SyncAimed(c)'
  <2> SUFFICES ASSUME SyncAimed(c) PROVE SyncAimed(c)'
    OBVIOUS
  <2>1. PICK k \in Jobs : /\ sync[c][k].pc \in {"detaching", "attach"}
                          /\ sync[c][k].gen = binding[c].gen /\ sync[c][k].to = binding[c].to
    BY DEF SyncAimed
  <2>2. CASE c = x.c /\ k = x.j
    <3> DEFINE t == sync[c][k]
    <3>1. t \in [pc : {"idle", "asked", "detaching", "attach", "attaching"}, to : Parents \cup {NoParent}, gen : Nat]
      BY <1>1 DEF BridgesTyped
    <3>2. sync'[c][k] = [t EXCEPT !.pc = "attach"]
      BY <1>7, <1>8, <2>1, <2>2
    <3> HIDE DEF t
    <3>3. sync'[c][k].pc = "attach" /\ sync'[c][k].gen = t.gen /\ sync'[c][k].to = t.to
      BY <3>1, <3>2
    <3> QED
      BY <1>2, <2>1, <3>3 DEF SyncAimed, t
  <2>3. CASE c # x.c \/ k # x.j
    <3>1. sync'[c][k] = sync[c][k]
      BY <1>7, <2>3
    <3> QED
      BY <1>2, <2>1, <3>1 DEF SyncAimed
  <2> QED
    BY <2>2, <2>3
<1>17. ASSUME NEW c \in Controllers
       PROVE  SyncRepeats(c) => SyncRepeats(c)' \/ SyncAsked(c)'
  <2> SUFFICES ASSUME SyncRepeats(c) PROVE SyncRepeats(c)' \/ SyncAsked(c)'
    OBVIOUS
  <2>1. dirty[c] /\ sync[c]["job"].pc # "idle" /\ "job" \in Jobs
    BY DEF SyncRepeats, Jobs
  <2>2. CASE c = x.c /\ x.j = "job" /\ e.kind # "tomb"
    <3>1. sync'[c]["job"].pc = "asked"
      BY <1>7, <2>1, <2>2 DEF Ended, Idle
    <3> QED
      BY <2>1, <3>1 DEF SyncAsked
  <2>3. CASE c = x.c /\ x.j = "job" /\ e.kind = "tomb"
    <3> DEFINE t == sync[c]["job"]
    <3>1. t \in [pc : {"idle", "asked", "detaching", "attach", "attaching"}, to : Parents \cup {NoParent}, gen : Nat]
      BY <1>1, <2>1 DEF BridgesTyped
    <3>2. sync'[c]["job"] = [t EXCEPT !.pc = "attach"]
      BY <1>7, <2>3
    <3> HIDE DEF t
    <3>3. sync'[c]["job"].pc = "attach"
      BY <3>1, <3>2
    <3> QED
      BY <1>2, <2>1, <3>3 DEF SyncRepeats
  <2>4. CASE c # x.c \/ x.j # "job"
    <3>1. sync'[c]["job"] = sync[c]["job"]
      BY <1>7, <2>1, <2>4
    <3> QED
      BY <1>2, <2>1, <3>1 DEF SyncRepeats
  <2> QED
    BY <2>2, <2>3, <2>4
<1>18. ASSUME NEW c \in Controllers, CutComes(c)
       PROVE  CutComes(c)'
  <2>1. CutStored(c) => CutStored(c)'
    <3>1. /\ facts'[c] = facts[c] /\ log'[binding'[c].to] = log'[binding[c].to] /\ binding'[c].gen = binding[c].gen
      BY <1>2, Zenon
    <3> QED
      BY <1>12, <3>1, Zenon DEF CutStored
  <2> QED
    BY <1>14, <1>15, <1>16, <1>17, <1>18, <2>1, Zenon DEF CutComes
<1>19. ASSUME NEW c \in Controllers, binding[c].prev \in Parents
       PROVE  TombStored(c) => TombStored(c)'
  <2> DEFINE prev == binding[c].prev
  <2> SUFFICES ASSUME TombStored(c) PROVE TombStored(c)'
    OBVIOUS
  <2>1. PICK i \in DOMAIN log[prev] :
          log[prev][i].kind = "tomb" /\ log[prev][i].c = c /\ log[prev][i].gen >= binding[c].gen
    BY DEF TombStored, HasTomb
  <2>2. /\ i \in DOMAIN log'[prev] /\ log'[prev][i].kind = "tomb" /\ log'[prev][i].c = c
        /\ log'[prev][i].gen >= binding[c].gen
    <3>1. CASE prev = p
      BY <1>10, <1>11, <2>1, <3>1
    <3>2. CASE prev # p
      BY <1>9, <1>19, <2>1, <3>2
    <3> QED
      BY <3>1, <3>2
  <2> QED
    BY <1>2, <2>2 DEF TombStored, HasTomb
<1>20. ASSUME NEW c \in Controllers, binding[c].prev \in Parents, TombQueued(c)
       PROVE  TombQueued(c)' \/ TombStored(c)'
  <2>1. binding[c].gen \in Nat
    BY <1>1 DEF BridgesTyped
  <2>2. binding'[c] = binding[c]
    BY <1>2, Zenon
  <2>3. PICK i \in DOMAIN pending[binding[c].prev] :
          LET d == pending[binding[c].prev][i].e IN d.kind = "tomb" /\ d.c = c /\ d.gen = binding[c].gen
    BY <1>20, TombQueuedSomewhere, Zenon
  <2>4. CASE \E k \in DOMAIN pending'[binding[c].prev] : pending'[binding[c].prev][k] = pending[binding[c].prev][i]
    <3>1. PICK k \in DOMAIN pending'[binding[c].prev] : pending'[binding[c].prev][k] = pending[binding[c].prev][i]
      BY <2>4, Zenon
    <3>2. LET d == pending'[binding[c].prev][k].e IN d.kind = "tomb" /\ d.c = c /\ d.gen = binding[c].gen
      BY <2>3, <3>1, Zenon
    <3> QED
      BY <2>2, <3>2, TombQueuedShown, Zenon
  <2>5. CASE binding[c].prev = p /\ pending[binding[c].prev][i].e = e
    <3>1. HasTomb(log'[binding[c].prev], c, binding[c].gen)
      BY <1>9, <1>11, <2>1, <2>3, <2>5 DEF HasTomb
    <3>2. log'[binding'[c].prev] = log'[binding[c].prev] /\ binding'[c].gen = binding[c].gen
      BY <2>2, Zenon
    <3> QED
      BY <3>1, <3>2, Zenon DEF TombStored
  <2> QED
    BY <1>13, <1>20, <2>4, <2>5
<1>21. ASSUME NEW c \in Controllers, TombComes(c), binding[c].prev \in Parents
       PROVE  TombComes(c)'
  BY <1>15, <1>19, <1>20, <1>21, Zenon DEF TombComes
<1>22. Coming'
  <2>1. \A c \in Controllers : binding[c].prev \in open => binding[c].prev \in Parents
    BY <1>1 DEF BridgesTyped
  <2> QED
    BY <1>1, <1>2, <1>18, <1>21, <2>1 DEF Coming
<1> QED
  BY <1>4, <1>22 DEF BridgesInv

(* What a Team is owed stays on its way while nothing of it changes. *)
LEMMA StaysComing ==
  ASSUME BridgesTyped, NEW d \in Controllers, facts'[d] = facts[d], binding'[d] = binding[d],
         sync'[d] = sync[d], dirty'[d] = dirty[d], log' = log, pending' = pending
  PROVE  /\ CutComes(d) => CutComes(d)'
         /\ TombComes(d) /\ binding[d].prev \in Parents => TombComes(d)'
<1>1. KeepsPlaces
  BY Zenon DEF KeepsPlaces
<1>2. binding[d].to \in Parents
  BY DEF BridgesTyped
<1>3. log'[binding[d].to] = log[binding[d].to] /\ log'[binding[d].prev] = log[binding[d].prev]
  BY Zenon
<1>4. CutComes(d) => CutComes(d)'
  BY <1>1, <1>2, <1>3, OtherCutComes, Zenon
<1>5. TombComes(d) /\ binding[d].prev \in Parents => TombComes(d)'
  BY <1>1, <1>3, OtherTombComes, Zenon
<1> QED
  BY <1>4, <1>5

(* A Team moves on: what was asked for is still asked for. *)
LEMMA CommitFactKeeps ==
  ASSUME BridgesInv, NEW c \in Controllers, CommitFact(c)
  PROVE  BridgesInv'
<1>1. BridgesTyped /\ Recorded /\ Queued /\ Growing /\ Superseded /\ Fresh /\ Coming
  BY DEF BridgesInv
<1>2. /\ facts' = [facts EXCEPT ![c] = @ + 1] /\ UNCHANGED <<binding, open, log, pending, bridgeFaults>>
      /\ \/ sync[c]["job"].pc = "idle" /\ sync' = [sync EXCEPT ![c]["job"].pc = "asked"] /\ dirty' = dirty
         \/ sync[c]["job"].pc # "idle" /\ dirty' = [dirty EXCEPT ![c] = TRUE] /\ sync' = sync
  BY DEF CommitFact
<1>3. /\ \A d \in Controllers : facts[d] \in Nat /\ facts'[d] \in Nat /\ facts[d] <= facts'[d]
      /\ \A d \in Controllers : d # c => facts'[d] = facts[d]
      /\ facts' \in [Controllers -> Nat]
  BY <1>1, <1>2 DEF BridgesTyped
<1>4. "job" \in Jobs
  BY DEF Jobs
<1>5. CASE sync[c]["job"].pc = "idle" /\ sync' = [sync EXCEPT ![c]["job"].pc = "asked"] /\ dirty' = dirty
  <2> DEFINE t == sync[c]["job"]
             s == [t EXCEPT !.pc = "asked"]
  <2>1. /\ t \in [pc : {"idle", "asked", "detaching", "attach", "attaching"}, to : Parents \cup {NoParent}, gen : Nat]
        /\ t.gen <= binding[c].gen
    BY <1>1, <1>4 DEF BridgesTyped
  <2>2. sync' = [sync EXCEPT ![c]["job"] = s]
    BY <1>1, <1>5 DEF BridgesTyped
  <2>3. /\ s \in [pc : {"idle", "asked", "detaching", "attach", "attaching"}, to : Parents \cup {NoParent}, gen : Nat]
        /\ s.gen = t.gen /\ s.pc = "asked"
    <3> HIDE DEF t
    <3> QED
      BY <2>1
  <2>4. t.pc = "idle"
    BY <1>5
  <2> HIDE DEF s, t
  <2>5. /\ sync'[c]["job"] = s /\ \A k \in Jobs : k # "job" => sync'[c][k] = sync[c][k]
        /\ \A d \in Controllers : d # c => sync'[d] = sync[d]
    BY <1>1, <1>4, <2>2 DEF BridgesTyped
  <2>6. BridgesTyped'
    <3>1. /\ sync' \in [Controllers -> [Jobs -> [pc : {"idle", "asked", "detaching", "attach", "attaching"},
                                         to : Parents \cup {NoParent}, gen : Nat]]]
          /\ \A d \in Controllers, k \in Jobs : sync'[d][k].gen <= binding[d].gen
      <4>1. sync' \in [Controllers -> [Jobs -> [pc : {"idle", "asked", "detaching", "attach", "attaching"},
                                               to : Parents \cup {NoParent}, gen : Nat]]]
        BY <1>1, <2>2, <2>3 DEF BridgesTyped
      <4>2. ASSUME NEW d \in Controllers, NEW k \in Jobs
            PROVE  sync'[d][k].gen <= binding[d].gen
        <5>1. CASE d = c /\ k = "job"
          BY <2>1, <2>3, <2>5, <5>1
        <5>2. CASE d # c \/ k # "job"
          <6>1. sync'[d][k] = sync[d][k]
            BY <2>5, <5>2
          <6> QED
            BY <1>1, <6>1 DEF BridgesTyped
        <5> QED
          BY <5>1, <5>2
      <4> QED
        BY <4>1, <4>2
    <3> QED
      BY <1>1, <1>2, <1>3, <1>5, <3>1 DEF BridgesTyped
  <2>7. \A d \in Controllers, k \in Jobs :
           sync'[d][k].pc = sync[d][k].pc
           \/ {sync[d][k].pc, sync'[d][k].pc} \cap {"detaching", "attaching"} = {}
    BY <2>3, <2>4, <2>5 DEF t
  <2>8. Recorded' /\ Queued' /\ Growing' /\ Superseded' /\ Fresh'
    BY <1>1, <1>2, <1>3, <2>6, <2>7, GrowthKeeps
  <2>9. \E k \in Jobs : sync'[c][k].pc = "asked"
    BY <1>4, <2>3, <2>5
  <2>10. CutComes(c)' /\ TombComes(c)'
    <3>1. SyncAsked(c)'
      BY <2>9, Zenon DEF SyncAsked
    <3> QED
      BY <3>1, Zenon DEF CutComes, TombComes
  <2>11. ASSUME NEW d \in Controllers, d # c
         PROVE  /\ CutComes(d) => CutComes(d)'
                /\ TombComes(d) /\ binding[d].prev \in Parents => TombComes(d)'
    <3>1. facts'[d] = facts[d] /\ binding'[d] = binding[d] /\ log' = log /\ pending' = pending
      BY <1>2, <1>3, <2>11, Zenon
    <3>2. sync'[d] = sync[d] /\ dirty'[d] = dirty[d]
      BY <1>5, <2>5, <2>11, Zenon
    <3> QED
      BY <1>1, <3>1, <3>2, StaysComing, Zenon
  <2>12. \A d \in Controllers : d # c => facts'[d] = facts[d] /\ (binding[d].prev \in open => binding[d].prev \in Parents)
    BY <1>1, <1>3 DEF BridgesTyped
  <2>13. Coming'
    BY <1>1, <1>2, <2>10, <2>11, <2>12 DEF Coming
  <2> QED
    BY <2>6, <2>8, <2>13 DEF BridgesInv
<1>6. CASE sync[c]["job"].pc # "idle" /\ dirty' = [dirty EXCEPT ![c] = TRUE] /\ sync' = sync
  <2>1. BridgesTyped'
    BY <1>1, <1>2, <1>3, <1>6 DEF BridgesTyped
  <2>2. Recorded' /\ Queued' /\ Growing' /\ Superseded' /\ Fresh'
    BY <1>1, <1>2, <1>3, <1>6, <2>1, GrowthKeeps
  <2>3. dirty'[c] /\ \A d \in Controllers : d # c => dirty'[d] = dirty[d]
    BY <1>1, <1>6 DEF BridgesTyped
  <2>4. CutComes(c)'
    BY <1>6, <2>3 DEF CutComes, CutStored, CutQueued, SyncAsked, SyncAimed, SyncRepeats
  <2>5. ASSUME NEW d \in Controllers, d # c
        PROVE  /\ CutComes(d) => CutComes(d)'
               /\ TombComes(d) /\ binding[d].prev \in Parents => TombComes(d)'
    <3>1. facts'[d] = facts[d] /\ binding'[d] = binding[d] /\ log' = log /\ pending' = pending
      BY <1>2, <1>3, <2>5, Zenon
    <3>2. sync'[d] = sync[d] /\ dirty'[d] = dirty[d]
      BY <1>6, <2>3, <2>5, Zenon
    <3> QED
      BY <1>1, <3>1, <3>2, StaysComing, Zenon
  <2>6. ASSUME binding[c].prev \in Parents, TombComes(c)
        PROVE  TombComes(c)'
    <3>1. binding'[c] = binding[c] /\ sync'[c] = sync[c] /\ log'[binding[c].prev] = log[binding[c].prev]
      BY <1>2, <1>6, Zenon
    <3>2. KeepsPlaces
      BY <1>2, Zenon DEF KeepsPlaces
    <3> QED
      BY <2>6, <3>1, <3>2, OtherTombComes, Zenon
  <2>7. \A d \in Controllers : /\ d # c => facts'[d] = facts[d]
                               /\ binding[d].prev \in open => binding[d].prev \in Parents
    BY <1>1, <1>3 DEF BridgesTyped
  <2>8. Coming'
    BY <1>1, <1>2, <2>4, <2>5, <2>6, <2>7 DEF Coming
  <2> QED
    BY <2>1, <2>2, <2>8 DEF BridgesInv
<1> QED
  BY <1>2, <1>5, <1>6

(* A rebind asks for a sync of the new binding. *)
LEMMA RebindKeeps ==
  ASSUME BridgesInv, NEW c \in Controllers, NEW p \in Parents, Rebind(c, p)
  PROVE  BridgesInv'
<1> DEFINE b == binding[c]
           t == sync[c]["call"]
           s == [t EXCEPT !.pc = "asked"]
           moved == [to |-> p, prev |-> b.to, gen |-> b.gen + 1]
<1>1. BridgesTyped /\ Recorded /\ Queued /\ Growing /\ Superseded /\ Fresh /\ Coming
  BY DEF BridgesInv
<1>2. /\ t.pc = "idle" /\ UNCHANGED <<facts, open, log, pending, dirty, bridgeFaults>>
      /\ sync' = [sync EXCEPT ![c]["call"].pc = "asked"]
      /\ binding' = binding \/ binding' = [binding EXCEPT ![c] = moved]
  BY DEF Rebind
<1>3. "call" \in Jobs
  BY DEF Jobs
<1>4. /\ t \in [pc : {"idle", "asked", "detaching", "attach", "attaching"}, to : Parents \cup {NoParent}, gen : Nat]
      /\ t.gen <= b.gen
      /\ b.to \in Parents /\ b.gen \in Nat
  BY <1>1, <1>3 DEF BridgesTyped
<1>5. sync' = [sync EXCEPT ![c]["call"] = s]
  BY <1>1, <1>2 DEF BridgesTyped
<1>6. /\ s \in [pc : {"idle", "asked", "detaching", "attach", "attaching"}, to : Parents \cup {NoParent}, gen : Nat]
      /\ s.gen = t.gen /\ s.pc = "asked"
  <2> HIDE DEF t
  <2> QED
    BY <1>4
<1>7. moved \in [to : Parents, prev : Parents \cup {NoParent}, gen : Nat] /\ moved.gen = b.gen + 1
  BY <1>4
<1> HIDE DEF s, t, moved
<1>8. /\ binding' \in [Controllers -> [to : Parents, prev : Parents \cup {NoParent}, gen : Nat]]
      /\ \A d \in Controllers : d # c => binding'[d] = binding[d]
      /\ \A d \in Controllers : binding'[d] = binding[d] \/ binding'[d].gen = binding[d].gen + 1
      /\ \A d \in Controllers : binding[d].gen \in Nat /\ binding[d].gen <= binding'[d].gen /\ binding'[d].gen \in Nat
  <2>1. CASE binding' = binding
    BY <1>1, <2>1 DEF BridgesTyped
  <2>2. CASE binding' = [binding EXCEPT ![c] = moved]
    BY <1>1, <1>7, <2>2 DEF BridgesTyped
  <2> QED
    BY <1>2, <2>1, <2>2
<1>9. /\ sync'[c]["call"] = s /\ \A k \in Jobs : k # "call" => sync'[c][k] = sync[c][k]
      /\ \A d \in Controllers : d # c => sync'[d] = sync[d]
  BY <1>1, <1>3, <1>5 DEF BridgesTyped
<1>10. BridgesTyped'
  <2>1. sync' \in [Controllers -> [Jobs -> [pc : {"idle", "asked", "detaching", "attach", "attaching"},
                                         to : Parents \cup {NoParent}, gen : Nat]]]
    BY <1>1, <1>5, <1>6 DEF BridgesTyped
  <2>2. \A d \in Controllers, k \in Jobs : sync'[d][k].gen <= binding[d].gen /\ sync'[d][k].gen \in Nat
    <3> SUFFICES ASSUME NEW d \in Controllers, NEW k \in Jobs
                 PROVE  sync'[d][k].gen <= binding[d].gen /\ sync'[d][k].gen \in Nat
      OBVIOUS
    <3>1. sync'[d][k].gen \in Nat
      BY <2>1
    <3>2. CASE d = c /\ k = "call"
      BY <1>4, <1>6, <1>9, <3>1, <3>2
    <3>3. CASE d # c \/ k # "call"
      <4>1. sync'[d][k] = sync[d][k]
        BY <1>9, <3>3
      <4>2. sync[d][k].gen <= binding[d].gen
        BY <1>1 DEF BridgesTyped
      <4> QED
        BY <3>1, <4>1, <4>2
    <3> QED
      BY <3>2, <3>3
  <2>3. \A d \in Controllers, k \in Jobs : sync'[d][k].gen <= binding'[d].gen
    BY <1>8, <2>2
  <2> QED
    BY <1>1, <1>2, <1>8, <2>1, <2>3 DEF BridgesTyped
<1>11. Recorded' /\ Queued' /\ Growing' /\ Superseded' /\ Fresh'
  <2>1. \A d \in Controllers, k \in Jobs :
           sync'[d][k].pc = sync[d][k].pc
           \/ {sync[d][k].pc, sync'[d][k].pc} \cap {"detaching", "attaching"} = {}
    BY <1>2, <1>6, <1>9 DEF t
  <2>2. \A d \in Controllers : facts[d] <= facts'[d]
    BY <1>1, <1>2 DEF BridgesTyped
  <2> QED
    BY <1>1, <1>2, <1>8, <1>10, <2>1, <2>2, GrowthKeeps
<1>12. Coming'
  <2>1. \E k \in Jobs : sync'[c][k].pc = "asked"
    BY <1>3, <1>6, <1>9
  <2>2. CutComes(c)' /\ TombComes(c)'
    <3>1. SyncAsked(c)'
      BY <2>1, Zenon DEF SyncAsked
    <3> QED
      BY <3>1, Zenon DEF CutComes, TombComes
  <2>3. ASSUME NEW d \in Controllers, d # c
        PROVE  /\ CutComes(d) => CutComes(d)'
               /\ TombComes(d) /\ binding[d].prev \in Parents => TombComes(d)'
    <3>1. facts'[d] = facts[d] /\ log' = log /\ pending' = pending /\ dirty'[d] = dirty[d]
      BY <1>2, Zenon
    <3>2. sync'[d] = sync[d] /\ binding'[d] = binding[d]
      BY <1>8, <1>9, <2>3, Zenon
    <3> QED
      BY <1>1, <3>1, <3>2, StaysComing, Zenon
  <2>4. \A d \in Controllers : binding[d].prev \in open => binding[d].prev \in Parents
    BY <1>1 DEF BridgesTyped
  <2> QED
    BY <1>1, <1>2, <1>8, <2>2, <2>3, <2>4 DEF Coming
<1> QED
  BY <1>10, <1>11, <1>12 DEF BridgesInv

(* A closed conversation is owed nothing. *)
LEMMA CloseParentKeeps ==
  ASSUME BridgesInv, NEW p \in Parents, CloseParent(p)
  PROVE  BridgesInv'
<1>1. BridgesTyped /\ Recorded /\ Queued /\ Growing /\ Superseded /\ Fresh /\ Coming
  BY DEF BridgesInv
<1>2. open' = open \ {p} /\ UNCHANGED <<facts, binding, log, pending, sync, dirty, bridgeFaults>>
  BY DEF CloseParent
<1>3. BridgesTyped'
  BY <1>1, <1>2 DEF BridgesTyped
<1>4. \A d \in Controllers : facts[d] <= facts'[d] /\ binding'[d] = binding[d]
  BY <1>1, <1>2 DEF BridgesTyped
<1>5. Recorded' /\ Queued' /\ Growing' /\ Superseded' /\ Fresh'
  BY <1>1, <1>2, <1>3, <1>4, GrowthKeeps
<1>6. Coming'
  <2>1. ASSUME NEW d \in Controllers
        PROVE  /\ CutComes(d) => CutComes(d)'
               /\ TombComes(d) /\ binding[d].prev \in Parents => TombComes(d)'
    <3>1. /\ facts'[d] = facts[d] /\ binding'[d] = binding[d] /\ log' = log /\ pending' = pending
          /\ sync'[d] = sync[d] /\ dirty'[d] = dirty[d]
      BY <1>2, Zenon
    <3> QED
      BY <1>1, <3>1, StaysComing, Zenon
  <2>2. \A d \in Controllers : binding[d].prev \in open => binding[d].prev \in Parents
    BY <1>1 DEF BridgesTyped
  <2> QED
    BY <1>1, <1>2, <2>1, <2>2 DEF Coming
<1> QED
  BY <1>3, <1>5, <1>6 DEF BridgesInv

(* A loaded conversation asks for a sync of every Team it is about. *)
LEMMA OpenParentKeeps ==
  ASSUME BridgesInv, NEW p \in Parents, OpenParent(p)
  PROVE  BridgesInv'
<1>1. BridgesTyped /\ Recorded /\ Queued /\ Growing /\ Superseded /\ Fresh /\ Coming
  BY DEF BridgesInv
<1>2. /\ open' = open \cup {p} /\ UNCHANGED <<facts, binding, log, pending, dirty, bridgeFaults>>
      /\ \A c \in Involved(p) : sync[c]["call"].pc = "idle"
      /\ sync' = [c \in Controllers |->
                    IF c \in Involved(p) THEN [sync[c] EXCEPT !["call"].pc = "asked"] ELSE sync[c]]
  BY DEF OpenParent
<1>3. "call" \in Jobs
  BY DEF Jobs
<1>4. ASSUME NEW c \in Controllers, c \in Involved(p)
      PROVE  /\ sync'[c] \in [Jobs -> [pc : {"idle", "asked", "detaching", "attach", "attaching"},
                                       to : Parents \cup {NoParent}, gen : Nat]]
             /\ sync'[c]["call"].pc = "asked" /\ sync'[c]["call"].gen = sync[c]["call"].gen
             /\ \A k \in Jobs : k # "call" => sync'[c][k] = sync[c][k]
  <2> DEFINE u == sync[c]
             t == sync[c]["call"]
             s == [t EXCEPT !.pc = "asked"]
  <2>1. /\ u \in [Jobs -> [pc : {"idle", "asked", "detaching", "attach", "attaching"},
                           to : Parents \cup {NoParent}, gen : Nat]]
        /\ t \in [pc : {"idle", "asked", "detaching", "attach", "attaching"}, to : Parents \cup {NoParent}, gen : Nat]
    BY <1>1, <1>3 DEF BridgesTyped
  <2>2. /\ s \in [pc : {"idle", "asked", "detaching", "attach", "attaching"}, to : Parents \cup {NoParent}, gen : Nat]
        /\ s.gen = t.gen /\ s.pc = "asked"
    <3> HIDE DEF t
    <3> QED
      BY <2>1
  <2>3. sync'[c] = [u EXCEPT !["call"] = s]
    BY <1>2, <1>4
  <2> HIDE DEF s, t
  <2>4. sync'[c]["call"] = s /\ \A k \in Jobs : k # "call" => sync'[c][k] = u[k]
    <3> HIDE DEF u
    <3> QED
      BY <1>3, <2>1, <2>3
  <2>5. sync'[c] \in [Jobs -> [pc : {"idle", "asked", "detaching", "attach", "attaching"},
                                       to : Parents \cup {NoParent}, gen : Nat]]
    <3> HIDE DEF u
    <3> QED
      BY <2>1, <2>2, <2>3
  <2> QED
    BY <2>2, <2>4, <2>5 DEF t
<1>5. \A c \in Controllers : c \notin Involved(p) => sync'[c] = sync[c]
  BY <1>2
<1>6. BridgesTyped'
  <2>1. sync' \in [Controllers -> [Jobs -> [pc : {"idle", "asked", "detaching", "attach", "attaching"},
                                       to : Parents \cup {NoParent}, gen : Nat]]]
    <3>1. \A c \in Controllers : sync'[c] \in [Jobs -> [pc : {"idle", "asked", "detaching", "attach", "attaching"},
                                       to : Parents \cup {NoParent}, gen : Nat]]
      BY <1>1, <1>4, <1>5 DEF BridgesTyped
    <3>2. sync' = [c \in Controllers |-> sync'[c]]
      BY <1>2
    <3> QED
      BY <3>1, <3>2
  <2>2. \A c \in Controllers, k \in Jobs : sync'[c][k].gen = sync[c][k].gen
    BY <1>4, <1>5
  <2> QED
    BY <1>1, <1>2, <2>1, <2>2 DEF BridgesTyped
<1>7. Recorded' /\ Queued' /\ Growing' /\ Superseded' /\ Fresh'
  <2>1. \A d \in Controllers, k \in Jobs :
           sync'[d][k].pc = sync[d][k].pc
           \/ {sync[d][k].pc, sync'[d][k].pc} \cap {"detaching", "attaching"} = {}
    BY <1>2, <1>4, <1>5
  <2>2. \A d \in Controllers : facts[d] <= facts'[d] /\ binding'[d] = binding[d]
    BY <1>1, <1>2 DEF BridgesTyped
  <2> QED
    BY <1>1, <1>2, <1>6, <2>1, <2>2, GrowthKeeps
<1>8. Coming'
  <2>1. ASSUME NEW c \in Controllers, c \in Involved(p) PROVE CutComes(c)' /\ TombComes(c)'
    <3>1. SyncAsked(c)'
      BY <1>3, <1>4, <2>1, Zenon DEF SyncAsked
    <3> QED
      BY <3>1, Zenon DEF CutComes, TombComes
  <2>2. ASSUME NEW c \in Controllers, c \notin Involved(p)
        PROVE  /\ binding[c].to # p /\ binding[c].prev # p
               /\ CutComes(c) => CutComes(c)'
               /\ TombComes(c) /\ binding[c].prev \in Parents => TombComes(c)'
    <3>1. binding[c].to # p /\ binding[c].prev # p
      BY <2>2 DEF Involved
    <3>2. /\ sync'[c] = sync[c] /\ facts'[c] = facts[c] /\ binding'[c] = binding[c] /\ log' = log
          /\ pending' = pending /\ dirty'[c] = dirty[c]
      BY <1>2, <1>5, <2>2, Zenon
    <3> QED
      BY <1>1, <3>1, <3>2, StaysComing, Zenon
  <2>3. \A c \in Controllers : binding[c].prev \in open => binding[c].prev \in Parents
    BY <1>1 DEF BridgesTyped
  <2> QED
    BY <1>1, <1>2, <2>1, <2>2, <2>3 DEF Coming
<1> QED
  BY <1>6, <1>7, <1>8 DEF BridgesInv

(* Every step keeps the conversations in order. *)
LEMMA BridgesInductive ==
  ASSUME BridgesInv, [BridgesNext]_bridgesVars
  PROVE  BridgesInv'
<1>1. ASSUME UNCHANGED <<ordinal, facts, binding, open, log, pending, sync, dirty>>,
             bridgeFaults' = bridgeFaults \/ bridgeFaults' = bridgeFaults + 1
      PROVE  BridgesInv'
  <2>1. BridgesTyped /\ Recorded /\ Queued /\ Growing /\ Superseded /\ Fresh /\ Coming
    BY DEF BridgesInv
  <2>2. bridgeFaults \in Nat
    BY <2>1 DEF BridgesTyped
  <2>3. bridgeFaults' \in Nat /\ (bridgeFaults' = 0 => bridgeFaults = 0)
    BY <1>1, <2>2
  <2>4. BridgesTyped'
    BY <1>1, <2>1, <2>3 DEF BridgesTyped
  <2>5. /\ \A d \in Controllers : facts[d] <= facts'[d] /\ binding'[d] = binding[d]
        /\ \A d \in Controllers, k \in Jobs : sync'[d][k].pc = sync[d][k].pc
    BY <1>1, <2>1 DEF BridgesTyped
  <2>6. Recorded' /\ Queued' /\ Growing' /\ Superseded' /\ Fresh'
    BY <1>1, <2>1, <2>4, <2>5, GrowthKeeps
  <2>7. ASSUME NEW d \in Controllers
        PROVE  /\ CutComes(d) => CutComes(d)'
               /\ TombComes(d) /\ binding[d].prev \in Parents => TombComes(d)'
    <3>1. /\ facts'[d] = facts[d] /\ binding'[d] = binding[d] /\ log' = log /\ pending' = pending
          /\ sync'[d] = sync[d] /\ dirty'[d] = dirty[d]
      BY <1>1, Zenon
    <3> QED
      BY <2>1, <3>1, StaysComing, Zenon
  <2>8. \A d \in Controllers : binding[d].prev \in open => binding[d].prev \in Parents
    BY <2>1 DEF BridgesTyped
  <2>9. Coming'
    BY <1>1, <2>1, <2>3, <2>7, <2>8 DEF Coming
  <2> QED
    BY <2>4, <2>6, <2>9 DEF BridgesInv
<1>2. CASE UNCHANGED bridgesVars
  BY <1>1, <1>2 DEF bridgesVars
<1>3. ASSUME NEW w \in Writers, ReadRecord(w) \/ RenewAdapter(w) \/ \E b \in Batches : Replay(w, b) \/ CommitBatch(w, b)
      PROVE  BridgesInv'
  <2>1. UNCHANGED bridgeVars /\ (bridgeFaults' = bridgeFaults \/ bridgeFaults' = bridgeFaults + 1)
    BY <1>3 DEF ReadRecord, RenewAdapter, Replay, CommitBatch
  <2> QED
    BY <1>1, <2>1 DEF bridgeVars
<1>4. CASE BridgesNext
  <2>1. ASSUME NEW c \in Controllers, NEW j \in Jobs, Detach(c, j) \/ SkipAttach(c, j) \/ Attach(c, j)
        PROVE  BridgesInv'
    BY <2>1, DetachKeeps, SkipAttachKeeps, AttachKeeps
  <2>2. ASSUME NEW p \in Parents, StoreEntry(p) \/ LoseEntry(p) \/ CloseParent(p) \/ OpenParent(p)
        PROVE  BridgesInv'
    BY <2>2, StoreKeeps, LoseKeeps, CloseParentKeeps, OpenParentKeeps
  <2>3. ASSUME NEW c \in Controllers, CommitFact(c) \/ \E p \in Parents : Rebind(c, p)
        PROVE  BridgesInv'
    BY <2>3, CommitFactKeeps, RebindKeeps
  <2> QED
    BY <1>3, <1>4, <2>1, <2>2, <2>3 DEF BridgesNext
<1> QED
  BY <1>2, <1>4

(* They are in order at the beginning, with cuts of older versions too. *)
LEMMA BridgesInitially == BridgesInit => BridgesInv
<1> SUFFICES ASSUME BridgesInit
             PROVE  BridgesInv
  OBVIOUS
<1>1. PICK home \in {CHOOSE p \in Parents : TRUE} :
        \E old \in IF part = "bridges" THEN Legacies ELSE {<<>>} :
          /\ facts = [c \in Controllers |-> IF c \in ToSet(old) THEN 1 ELSE 0]
          /\ binding = [c \in Controllers |-> [to |-> home, prev |-> NoParent, gen |-> 0]]
          /\ log = [p \in Parents |-> IF p = home THEN [i \in DOMAIN old |-> LegacyCut(old[i])] ELSE <<>>]
  BY Zenon DEF BridgesInit
<1>2. PICK old \in IF part = "bridges" THEN Legacies ELSE {<<>>} :
          /\ facts = [c \in Controllers |-> IF c \in ToSet(old) THEN 1 ELSE 0]
          /\ binding = [c \in Controllers |-> [to |-> home, prev |-> NoParent, gen |-> 0]]
          /\ log = [p \in Parents |-> IF p = home THEN [i \in DOMAIN old |-> LegacyCut(old[i])] ELSE <<>>]
  BY <1>1, Zenon
<1>3. home \in Parents /\ NoParent \notin Parents
  BY BridgesAssumption
<1>4. old \in Legacies \cup {<<>>}
  OBVIOUS
<1>5. /\ open = Parents /\ pending = [p \in Parents |-> <<>>]
      /\ sync = [c \in Controllers |-> [j \in Jobs |-> Idle]]
      /\ dirty = [c \in Controllers |-> FALSE] /\ bridgeFaults = 0
  BY DEF BridgesInit
<1>6. \E n \in Nat : DOMAIN old = 1 .. n /\ \A i \in 1 .. n : old[i] \in Controllers
  <2>1. CASE old = <<>>
    BY <2>1
  <2>2. CASE \E c \in Controllers : old = <<c>>
    BY <2>2
  <2>3. CASE old \in Controllers \X Controllers
    BY <2>3
  <2> QED
    BY <1>4, <2>1, <2>2, <2>3 DEF Legacies
<1>7. PICK n \in Nat : DOMAIN old = 1 .. n /\ \A i \in 1 .. n : old[i] \in Controllers
  BY <1>6
<1>8. log[home] = [i \in 1 .. n |-> LegacyCut(old[i])] /\ \A p \in Parents : p # home => log[p] = <<>>
  BY <1>3, <1>2, <1>7
<1>9. ASSUME NEW i \in 1 .. n
      PROVE  /\ LegacyCut(old[i]).kind = "bridge" /\ LegacyCut(old[i]).c = old[i] /\ LegacyCut(old[i]).gen = 0
             /\ LegacyCut(old[i]).rev = 0 /\ LegacyCut(old[i]).cut = 1
             /\ Entry(LegacyCut(old[i]))
  <2> DEFINE d == old[i]
             e == LegacyCut(d)
  <2>1. d \in Controllers /\ d \in ToSet(old)
    BY <1>7 DEF ToSet
  <2> HIDE DEF d
  <2>2. e = [kind |-> "bridge", c |-> d, gen |-> 0, act |-> 0, rev |-> 0, cut |-> 1, ord |-> 0]
    BY DEF LegacyCut, BridgeOf
  <2>3. facts[d] = 1 /\ binding[d].gen = 0
    BY <1>2, <2>1
  <2> HIDE DEF e
  <2>4. e.kind = "bridge" /\ e.c = d /\ e.gen = 0 /\ e.act = 0 /\ e.rev = 0 /\ e.cut = 1 /\ e.ord = 0
    BY <2>2
  <2>5. e \in [kind : {"bridge", "tomb", "compacted"}, c : Controllers, gen : Nat, act : {e.act},
               rev : Nat, cut : Nat, ord : {e.ord}]
    BY <2>1, <2>2, <2>4
  <2>6. Entry(e)
    BY <2>3, <2>4, <2>5 DEF Entry
  <2> QED
    BY <2>4, <2>6 DEF d, e
<1>10. /\ DOMAIN log[home] = 1 .. n /\ Sequential(log[home])
      /\ \A i \in 1 .. n : /\ log[home][i].kind = "bridge" /\ log[home][i].c = old[i] /\ log[home][i].gen = 0
                           /\ log[home][i].rev = 0 /\ log[home][i].cut = 1 /\ Entry(log[home][i])
  <2>1. \A i \in 1 .. n : log[home][i] = LegacyCut(old[i])
    BY <1>8
  <2>2. log[home] = [i \in 1 .. n |-> log[home][i]]
    BY <1>8
  <2> QED
    BY <1>8, <1>9, <2>1, <2>2, SequenceIsRecord
<1>11. \A p \in Parents : p # home => DOMAIN log[p] = {} /\ Sequential(log[p])
  <2>1. Sequential(<<>>) /\ DOMAIN <<>> = {}
    BY DEF Sequential
  <2> QED
    BY <1>8, <2>1
<1>12. \A p \in Parents : pending[p] = <<>> /\ DOMAIN pending[p] = {} /\ Sequential(pending[p])
  <2>1. Sequential(<<>>) /\ DOMAIN <<>> = {}
    BY DEF Sequential
  <2> QED
    BY <1>5, <2>1
<1>13. \A c \in Controllers, j \in Jobs : sync[c][j].pc = "idle" /\ sync[c][j].gen = 0
  BY <1>5 DEF Idle
<1>14. BridgesTyped
  <2>1. facts \in [Controllers -> Nat] /\ dirty \in [Controllers -> BOOLEAN] /\ open \subseteq Parents
    BY <1>2, <1>5
  <2>2. binding \in [Controllers -> [to : Parents, prev : Parents \cup {NoParent}, gen : Nat]]
    BY <1>3, <1>2
  <2>3. sync \in [Controllers -> [Jobs -> [pc : {"idle", "asked", "detaching", "attach", "attaching"},
                                           to : Parents \cup {NoParent}, gen : Nat]]]
    BY <1>5 DEF Idle
  <2>4. \A c \in Controllers, j \in Jobs : sync[c][j].gen <= binding[c].gen
    BY <1>2, <1>13
  <2>5. \A p \in Parents : Sequential(log[p]) /\ Sequential(pending[p])
    BY <1>10, <1>11, <1>12
  <2>6. log = [p \in Parents |-> log[p]] /\ pending = [p \in Parents |-> pending[p]]
    BY <1>2, <1>5
  <2> QED
    BY <1>5, <2>1, <2>2, <2>3, <2>4, <2>5, <2>6 DEF BridgesTyped
<1>15. Recorded
  <2>1. \A p \in Parents : \A i \in DOMAIN log[p] : p = home /\ i \in 1 .. n
    BY <1>10, <1>11
  <2> QED
    BY <1>10, <2>1 DEF Recorded, Buries
<1>16. Queued /\ Fresh
  BY <1>12, <1>13 DEF Queued, Fresh
<1>17. Growing
  <2>1. \A i, k \in 1 .. n : InTurn(log[home][i], log[home][k])
    BY <1>10 DEF InTurn
  <2> QED
    BY <1>10, <1>11, <1>12, <2>1 DEF Growing
<1>18. Superseded
  <2>1. \A p \in Parents : \A i \in DOMAIN log[p] : log[p][i].kind # "compacted"
    BY <1>10, <1>11
  <2> QED
    BY <2>1 DEF Superseded
<1>19. Coming
  <2>1. ASSUME NEW c \in Controllers, facts[c] > 0
        PROVE  CutComes(c)
    <3>1. facts[c] = 1 /\ c \in ToSet(old)
      BY <1>2, <2>1
    <3>2. PICK i \in 1 .. n : old[i] = c
      BY <1>7, <3>1 DEF ToSet
    <3>3. binding[c].to = home /\ binding[c].gen = 0
      BY <1>2
    <3> QED
      BY <1>10, <3>1, <3>2, <3>3 DEF CutComes, CutStored, CutQueued, SyncAsked, SyncAimed, SyncRepeats, HasCut, IsBridge
  <2>2. \A c \in Controllers : binding[c].prev \notin open
    BY <1>3, <1>2, <1>5
  <2> QED
    BY <2>1, <2>2 DEF Coming
<1> QED
  BY <1>14, <1>15, <1>16, <1>17, <1>18, <1>19 DEF BridgesInv

(* The newest cut of a controller is the one stored last: revisions and cuts grow. *)
LEMMA LatestIsLast ==
  ASSUME NEW es, Sequential(es), NEW c,
         \A i \in DOMAIN es : es[i].rev \in Nat /\ es[i].cut \in Nat,
         \A i, k \in DOMAIN es : i < k => InTurn(es[i], es[k]),
         NEW m \in DOMAIN es, IsBridge(es[m]), es[m].c = c,
         \A k \in DOMAIN es : IsBridge(es[k]) /\ es[k].c = c => k <= m
  PROVE  Latest(es, c) = es[m]
<1> DEFINE cuts == {i \in DOMAIN es : IsBridge(es[i]) /\ es[i].c = c}
           Newest(i) == \A k \in cuts : Newer(es[i], es[k]) /\ (Newer(es[k], es[i]) => k <= i)
<1>1. Len(es) \in Nat /\ DOMAIN es = 1 .. Len(es)
  BY RecordIsSequence
<1>2. \A k \in cuts : k \in Nat /\ k <= m /\ es[k].rev \in Nat /\ es[k].cut \in Nat
  BY <1>1
<1>3. m \in cuts
  OBVIOUS
<1>4. ASSUME NEW k \in cuts PROVE es[k].rev <= es[m].rev /\ es[k].cut <= es[m].cut
  <2>1. CASE k = m
    BY <1>2, <2>1
  <2>2. CASE k # m
    <3>1. k < m
      BY <1>2, <1>3, <2>2
    <3>2. InTurn(es[k], es[m])
      BY <3>1
    <3> QED
      BY <3>2 DEF InTurn, IsBridge
  <2> QED
    BY <2>1, <2>2
<1>5. \A k \in cuts : Newer(es[m], es[k])
  BY <1>2, <1>3, <1>4 DEF Newer
<1>6. Newest(m)
  BY <1>2, <1>5
<1>7. \A i \in cuts : Newest(i) => i = m
  BY <1>2, <1>3, <1>5
<1>8. Latest(es, c) = es[CHOOSE i \in cuts : Newest(i)]
  <2>1. cuts # {}
    BY <1>3
  <2> QED
    BY <2>1 DEF Latest
<1> HIDE DEF Newest, cuts
<1>9. (CHOOSE i \in cuts : Newest(i)) = m
  BY <1>3, <1>6, <1>7
<1> QED
  BY <1>8, <1>9

(* Where a record holds a cut of a controller, its newest one is the last. *)
LEMMA LastCut ==
  ASSUME BridgesInv, NEW p \in Parents, NEW c, \E i \in DOMAIN log[p] : IsBridge(log[p][i]) /\ log[p][i].c = c
  PROVE  \E m \in DOMAIN log[p] :
           /\ IsBridge(log[p][m]) /\ log[p][m].c = c
           /\ \A k \in DOMAIN log[p] : log[p][k].kind # "tomb" /\ log[p][k].c = c => k <= m
           /\ Latest(log[p], c) = log[p][m]
<1> DEFINE s == log[p]
           cuts == {i \in DOMAIN s : IsBridge(s[i]) /\ s[i].c = c}
<1>1. BridgesTyped /\ Recorded /\ Growing /\ Superseded
  BY DEF BridgesInv
<1>2. Sequential(s) /\ Len(s) \in Nat /\ DOMAIN s = 1 .. Len(s)
  BY <1>1, PlacesTyped
<1>3. \A i \in DOMAIN s : s[i].rev \in Nat /\ s[i].cut \in Nat /\ s[i].kind \in {"bridge", "tomb", "compacted"}
  BY <1>1, EntryFields DEF Recorded
<1>4. \A i, k \in DOMAIN s : i < k => InTurn(s[i], s[k])
  BY <1>1 DEF Growing
<1>5. \A i \in DOMAIN s : s[i].kind = "compacted" =>
        \E k \in DOMAIN s : i < k /\ IsBridge(s[k]) /\ s[k].c = s[i].c
  BY <1>1 DEF Superseded
<1>6. cuts # {}
  OBVIOUS
<1> HIDE DEF s
<1>7. PICK m \in cuts : \A k \in cuts : k <= m
  <2>1. cuts \in SUBSET (1 .. Len(s))
    BY <1>2
  <2> HIDE DEF cuts
  <2> QED
    BY <1>2, <1>6, <2>1, LastPlace
<1>8. ASSUME NEW k \in DOMAIN s, s[k].kind # "tomb", s[k].c = c PROVE k <= m
  <2>1. CASE s[k].kind = "bridge"
    BY <1>7, <1>8, <2>1 DEF IsBridge
  <2>2. CASE s[k].kind = "compacted"
    <3>1. PICK l \in DOMAIN s : k < l /\ IsBridge(s[l]) /\ s[l].c = c
      BY <1>5, <1>8, <2>2
    <3> QED
      BY <1>2, <1>7, <3>1
  <2> QED
    BY <1>3, <1>8, <2>1, <2>2
<1>9. Latest(s, c) = s[m]
  BY <1>2, <1>3, <1>4, <1>7, LatestIsLast
<1> QED
  BY <1>7, <1>8, <1>9 DEF s

(* Compaction never touches the last cut of a controller. *)
LEMMA CompactionKeepsNewest ==
  ASSUME BridgesInv
  PROVE  NewestCutIsKept
<1> SUFFICES ASSUME NEW p \in Parents, NEW c \in Controllers
             PROVE  Latest(log[p], c) = Latest(Whole(log[p]), c)
  BY DEF NewestCutIsKept
<1> DEFINE s == log[p]
           w == Whole(s)
<1>1. BridgesTyped /\ Recorded /\ Growing /\ Superseded
  BY DEF BridgesInv
<1>2. Sequential(s) /\ Len(s) \in Nat /\ DOMAIN s = 1 .. Len(s)
  BY <1>1, PlacesTyped
<1>3. \A i \in DOMAIN s : Entry(s[i])
  BY <1>1 DEF Recorded
<1>4. \A i, k \in DOMAIN s : i < k => InTurn(s[i], s[k])
  BY <1>1 DEF Growing
<1>5. \A i \in DOMAIN s : s[i].kind = "compacted" => \E k \in DOMAIN s : IsBridge(s[k]) /\ s[k].c = s[i].c
  BY <1>1 DEF Superseded
<1>6. (\E i \in DOMAIN s : IsBridge(s[i]) /\ s[i].c = c) =>
      \E m \in DOMAIN s : /\ IsBridge(s[m]) /\ s[m].c = c
                          /\ \A k \in DOMAIN s : s[k].kind # "tomb" /\ s[k].c = c => k <= m
                          /\ Latest(s, c) = s[m]
  BY LastCut
<1> HIDE DEF s
<1>7. w = [i \in 1 .. Len(s) |-> IF s[i].kind = "compacted" THEN [s[i] EXCEPT !.kind = "bridge"] ELSE s[i]]
  BY <1>2 DEF Whole
<1> HIDE DEF w
<1>8. DOMAIN w = 1 .. Len(s) /\ Sequential(w)
  BY <1>2, <1>7, SequenceIsRecord
<1>9. ASSUME NEW i \in DOMAIN s
      PROVE  /\ w[i].c = s[i].c /\ w[i].rev = s[i].rev /\ w[i].cut = s[i].cut
             /\ w[i].rev \in Nat /\ w[i].cut \in Nat
             /\ w[i].kind = "tomb" <=> s[i].kind = "tomb"
             /\ IsBridge(w[i]) => s[i].kind \in {"bridge", "compacted"}
             /\ IsBridge(s[i]) => w[i] = s[i]
  <2> DEFINE d == s[i]
             z == [d EXCEPT !.kind = "bridge"]
  <2>1. Entry(d)
    BY <1>3
  <2>2. w[i] = IF d.kind = "compacted" THEN z ELSE d
    BY <1>2, <1>7
  <2> HIDE DEF d
  <2>3. /\ d \in [kind : {"bridge", "tomb", "compacted"}, c : Controllers, gen : Nat, act : {d.act},
                  rev : Nat, cut : Nat, ord : {d.ord}]
        /\ d.rev \in Nat /\ d.cut \in Nat /\ d.kind \in {"bridge", "tomb", "compacted"}
    BY <2>1, EntryFields DEF Entry
  <2>4. z.kind = "bridge" /\ z.c = d.c /\ z.rev = d.rev /\ z.cut = d.cut
    BY <2>3
  <2> HIDE DEF z
  <2>5. CASE d.kind = "compacted"
    BY <2>2, <2>3, <2>4, <2>5 DEF IsBridge, d
  <2>6. CASE d.kind # "compacted"
    BY <2>2, <2>3, <2>6 DEF IsBridge, d
  <2> QED
    BY <2>5, <2>6
<1>10. \A i, k \in DOMAIN w : i < k => InTurn(w[i], w[k])
  <2> SUFFICES ASSUME NEW i \in DOMAIN w, NEW k \in DOMAIN w, i < k
               PROVE  InTurn(w[i], w[k])
    OBVIOUS
  <2>1. i \in DOMAIN s /\ k \in DOMAIN s
    BY <1>2, <1>8
  <2>2. InTurn(s[i], s[k])
    BY <1>4, <2>1
  <2>3. /\ w[i].c = s[i].c /\ w[i].rev = s[i].rev /\ w[i].cut = s[i].cut
        /\ w[i].kind = "tomb" <=> s[i].kind = "tomb"
    BY <1>9, <2>1
  <2>4. /\ w[k].c = s[k].c /\ w[k].rev = s[k].rev /\ w[k].cut = s[k].cut
        /\ w[k].kind = "tomb" <=> s[k].kind = "tomb"
    BY <1>9, <2>1
  <2> QED
    BY <2>2, <2>3, <2>4 DEF InTurn
<1>11. CASE \E i \in DOMAIN s : IsBridge(s[i]) /\ s[i].c = c
  <2>1. PICK m \in DOMAIN s : /\ IsBridge(s[m]) /\ s[m].c = c
                              /\ \A k \in DOMAIN s : s[k].kind # "tomb" /\ s[k].c = c => k <= m
                              /\ Latest(s, c) = s[m]
    BY <1>6, <1>11
  <2>2. m \in DOMAIN w /\ w[m] = s[m] /\ IsBridge(w[m]) /\ w[m].c = c
    BY <1>2, <1>8, <1>9, <2>1
  <2>3. \A k \in DOMAIN w : IsBridge(w[k]) /\ w[k].c = c => k <= m
    BY <1>2, <1>8, <1>9, <2>1
  <2>4. \A i \in DOMAIN w : w[i].rev \in Nat /\ w[i].cut \in Nat
    BY <1>2, <1>8, <1>9
  <2>5. Latest(w, c) = w[m]
    BY <1>8, <1>10, <2>2, <2>3, <2>4, LatestIsLast
  <2> QED
    BY <2>1, <2>2, <2>5 DEF s, w
<1>12. CASE ~\E i \in DOMAIN s : IsBridge(s[i]) /\ s[i].c = c
  <2>1. \A i \in DOMAIN w : ~(IsBridge(w[i]) /\ w[i].c = c)
    <3> SUFFICES ASSUME NEW i \in DOMAIN w, IsBridge(w[i]), w[i].c = c
                 PROVE  FALSE
      OBVIOUS
    <3>1. i \in DOMAIN s
      BY <1>2, <1>8
    <3>2. s[i].c = c /\ s[i].kind \in {"bridge", "compacted"}
      BY <1>9, <3>1
    <3>3. s[i].kind = "compacted"
      BY <1>12, <3>1, <3>2 DEF IsBridge
    <3> QED
      BY <1>5, <1>12, <3>1, <3>2, <3>3
  <2>2. Latest(w, c) = NoBridge
    BY <2>1 DEF Latest
  <2>3. Latest(s, c) = NoBridge
    BY <1>12 DEF Latest
  <2> QED
    BY <2>2, <2>3 DEF s, w
<1> QED
  BY <1>11, <1>12

(* When all syncs have ended no append is queued. *)
LEMMA NothingWaits ==
  ASSUME BridgesInv, Quiet
  PROVE  \A q \in Parents : DOMAIN pending[q] = {}
<1> SUFFICES ASSUME NEW q \in Parents, NEW i \in DOMAIN pending[q]
             PROVE  FALSE
  OBVIOUS
<1> DEFINE x == pending[q][i]
<1>1. Entry(x.e) /\ Awaited(x)
  BY DEF BridgesInv, Queued
<1> HIDE DEF x
<1>2. x.c \in Controllers /\ x.j \in Jobs /\ sync[x.c][x.j].pc \in {"detaching", "attaching"}
  BY <1>1, EntryFields DEF Awaited
<1> QED
  BY <1>2 DEF Quiet

(* What was on its way has come. *)
LEMMA NewestIsPublished ==
  ASSUME BridgesInv
  PROVE  PublishedWhenQuiet
<1> SUFFICES ASSUME Quiet, bridgeFaults = 0, NEW c \in Controllers, binding[c].to \in open
             PROVE  /\ facts[c] > 0 => HasCut(log[binding[c].to], c, binding[c].gen, facts[c])
                    /\ InOrder(log[binding[c].to], c) => CutFor(log[binding[c].to], c) = facts[c]
  BY DEF PublishedWhenQuiet
<1> DEFINE to == binding[c].to
           s == log[to]
<1>1. BridgesTyped /\ Recorded /\ Growing /\ Coming
  BY DEF BridgesInv
<1>2. to \in Parents /\ facts[c] \in Nat /\ binding[c].gen \in Nat
  BY <1>1 DEF BridgesTyped
<1>3. "job" \in Jobs
  BY DEF Jobs
<1>4. facts[c] > 0 => HasCut(s, c, binding[c].gen, facts[c])
  <2>1. DOMAIN pending[to] = {}
    BY <1>2, NothingWaits
  <2>2. facts[c] > 0 => CutComes(c)
    BY <1>1 DEF Coming
  <2> QED
    BY <1>3, <2>1, <2>2 DEF CutComes, CutStored, CutQueued, SyncAsked, SyncAimed, SyncRepeats, Quiet
<1>5. \A i \in DOMAIN s : /\ Entry(s[i]) /\ s[i].cut \in Nat /\ s[i].gen \in Nat
                          /\ s[i].cut <= facts[s[i].c] /\ s[i].gen <= binding[s[i].c].gen
                          /\ Buries(s[i], to)
  BY <1>1, <1>2, EntryFields DEF Recorded
<1>6. \A i, k \in DOMAIN s : i < k => InTurn(s[i], s[k])
  BY <1>1, <1>2 DEF Growing
<1>7. Len(s) \in Nat /\ DOMAIN s = 1 .. Len(s)
  BY <1>1, <1>2, PlacesTyped
<1>8. (\E i \in DOMAIN s : IsBridge(s[i]) /\ s[i].c = c) =>
      \E m \in DOMAIN s : /\ IsBridge(s[m]) /\ s[m].c = c
                          /\ \A k \in DOMAIN s : s[k].kind # "tomb" /\ s[k].c = c => k <= m
                          /\ Latest(s, c) = s[m]
  BY <1>2, LastCut
<1>9. ASSUME InOrder(s, c) PROVE CutFor(s, c) = facts[c]
  <2> HIDE DEF s
  <2>1. CASE ~\E i \in DOMAIN s : IsBridge(s[i]) /\ s[i].c = c
    <3>1. facts[c] = 0
      BY <1>2, <1>4, <2>1 DEF HasCut
    <3>2. Latest(s, c) = NoBridge
      BY <2>1 DEF Latest
    <3>3. NoBridge.kind = "none"
      BY DEF NoBridge, TombOf, BridgeOf
    <3> QED
      BY <3>1, <3>2, <3>3 DEF CutFor
  <2>2. CASE \E i \in DOMAIN s : IsBridge(s[i]) /\ s[i].c = c
    <3>1. PICK m \in DOMAIN s : /\ IsBridge(s[m]) /\ s[m].c = c
                                /\ \A k \in DOMAIN s : s[k].kind # "tomb" /\ s[k].c = c => k <= m
                                /\ Latest(s, c) = s[m]
      BY <1>8, <2>2
    <3>2. s[m].cut \in Nat /\ s[m].cut <= facts[c] /\ s[m].gen <= binding[c].gen /\ s[m].gen \in Nat
      BY <1>5, <3>1
    <3>3. CASE facts[c] = 0
      <4>1. s[m].cut = 0
        BY <3>2, <3>3
      <4> QED
        BY <3>1, <3>3, <4>1 DEF CutFor
    <3>4. CASE facts[c] # 0
      <4>1. PICK i \in DOMAIN s : IsBridge(s[i]) /\ s[i].c = c /\ s[i].gen = binding[c].gen /\ s[i].cut = facts[c]
        BY <1>2, <1>4, <3>4 DEF HasCut
      <4>2. i <= m /\ i \in Nat /\ m \in Nat
        BY <1>7, <3>1, <4>1 DEF IsBridge
      <4>3. s[m].cut = facts[c] /\ s[m].gen = binding[c].gen
        <5>1. CASE i = m
          BY <4>1, <5>1
        <5>2. CASE i < m
          <6>1. InTurn(s[i], s[m])
            BY <1>6, <5>2
          <6>2. s[i].gen <= s[m].gen
            BY <1>9, <3>1, <4>1, <5>2 DEF InOrder, IsBridge
          <6>3. facts[c] <= s[m].cut
            BY <3>1, <4>1, <6>1 DEF InTurn, IsBridge
          <6> QED
            BY <1>2, <3>2, <4>1, <6>2, <6>3
        <5> QED
          BY <4>2, <5>1, <5>2
      <4>4. ~HasTomb(s, c, binding[c].gen)
        <5> SUFFICES ASSUME NEW k \in DOMAIN s, s[k].kind = "tomb", s[k].c = c, s[k].gen >= binding[c].gen
                     PROVE  FALSE
          BY DEF HasTomb
        <5>1. s[k].gen = binding[c].gen
          BY <1>2, <1>5
        <5> QED
          BY <1>5, <5>1 DEF Buries
      <4> QED
        BY <3>1, <4>3, <4>4 DEF CutFor, IsBridge
    <3> QED
      BY <3>3, <3>4
  <2> QED
    BY <2>1, <2>2
<1> QED
  BY <1>4, <1>9

(* And so has the tombstone. *)
LEMMA LeftIsBuried ==
  ASSUME BridgesInv
  PROVE  LeftWhenQuiet
<1> SUFFICES ASSUME Quiet, bridgeFaults = 0, NEW c \in Controllers, binding[c].prev \in open \ {binding[c].to}
             PROVE  CutFor(log[binding[c].prev], c) = 0
  BY DEF LeftWhenQuiet
<1> DEFINE prev == binding[c].prev
           s == log[prev]
<1>1. BridgesTyped /\ Recorded /\ Coming
  BY DEF BridgesInv
<1>2. prev \in Parents /\ binding[c].gen \in Nat
  BY <1>1 DEF BridgesTyped
<1>3. HasTomb(s, c, binding[c].gen)
  <2>1. DOMAIN pending[prev] = {}
    BY <1>2, NothingWaits
  <2>2. TombComes(c)
    BY <1>1 DEF Coming
  <2> QED
    BY <2>1, <2>2 DEF TombComes, TombStored, TombQueued, SyncAsked, Quiet
<1>4. \A i \in DOMAIN s : s[i].gen \in Nat /\ s[i].gen <= binding[s[i].c].gen
  BY <1>1, <1>2, EntryFields DEF Recorded
<1>5. (\E i \in DOMAIN s : IsBridge(s[i]) /\ s[i].c = c) =>
      \E m \in DOMAIN s : s[m].c = c /\ Latest(s, c) = s[m]
  BY <1>2, LastCut
<1> HIDE DEF s
<1>6. CASE ~\E i \in DOMAIN s : IsBridge(s[i]) /\ s[i].c = c
  <2>1. Latest(s, c) = NoBridge
    BY <1>6 DEF Latest
  <2>2. NoBridge.kind = "none"
    BY DEF NoBridge, TombOf, BridgeOf
  <2> QED
    BY <2>1, <2>2 DEF CutFor, s
<1>7. CASE \E i \in DOMAIN s : IsBridge(s[i]) /\ s[i].c = c
  <2>1. PICK m \in DOMAIN s : s[m].c = c /\ Latest(s, c) = s[m]
    BY <1>5, <1>7
  <2>2. HasTomb(s, c, s[m].gen)
    <3>1. s[m].gen \in Nat /\ s[m].gen <= binding[c].gen
      BY <1>4, <2>1
    <3>2. PICK i \in DOMAIN s : s[i].kind = "tomb" /\ s[i].c = c /\ s[i].gen >= binding[c].gen
      BY <1>3 DEF HasTomb
    <3>3. s[i].gen >= s[m].gen
      BY <1>2, <1>4, <3>1, <3>2
    <3> QED
      BY <3>2, <3>3 DEF HasTomb
  <2> QED
    BY <2>1, <2>2 DEF CutFor, s
<1> QED
  BY <1>6, <1>7

(* The invariant holds what the types promise. *)
LEMMA BridgesWellFormed ==
  ASSUME BridgesInv
  PROVE  BridgesTypeOK
<1>1. Recorded /\ Queued
  BY DEF BridgesInv
<1>2. \A p \in Parents : \A i \in DOMAIN log[p] :
        /\ log[p][i].kind \in {"bridge", "tomb", "compacted"}
        /\ log[p][i].cut <= facts[log[p][i].c]
  BY <1>1, EntryFields DEF Recorded
<1>3. ASSUME NEW p \in Parents, NEW i \in DOMAIN pending[p]
      PROVE  sync[pending[p][i].c][pending[p][i].j].pc \in {"detaching", "attaching"}
  BY <1>1 DEF Queued, Awaited
<1>4. ASSUME NEW c \in Controllers, NEW j \in Jobs
      PROVE  sync[c][j].pc \in {"detaching", "attaching"}
               <=> \E p \in Parents : \E i \in DOMAIN pending[p] : pending[p][i].c = c /\ pending[p][i].j = j
  <2>1. sync[c][j].pc \in {"detaching", "attaching"} =>
          \E p \in Parents : \E i \in DOMAIN pending[p] : pending[p][i].c = c /\ pending[p][i].j = j
    BY <1>1 DEF Queued
  <2>2. ASSUME NEW p \in Parents, NEW i \in DOMAIN pending[p], pending[p][i].c = c, pending[p][i].j = j
        PROVE  sync[c][j].pc \in {"detaching", "attaching"}
    BY <1>3, <2>2
  <2> QED
    BY <2>1, <2>2
<1>5. \A p, q \in Parents : \A i \in DOMAIN pending[p], k \in DOMAIN pending[q] :
        pending[p][i].c = pending[q][k].c /\ pending[p][i].j = pending[q][k].j => p = q /\ i = k
  BY <1>1 DEF Queued
<1> QED
  BY <1>2, <1>4, <1>5 DEF BridgesTypeOK

(* Every conversation is in order at every step, for any number of controllers, conversations, rebinds
   and lost appends: what is stored and queued grows, and what is owed is on its way. *)
THEOREM BridgesInvariant == BridgesSpec => []BridgesInv
<1>1. BridgesInit => BridgesInv
  BY BridgesInitially
<1>2. BridgesInv /\ [BridgesNext]_bridgesVars => BridgesInv'
  BY BridgesInductive
<1> QED
  BY <1>1, <1>2, PTL DEF BridgesSpec

(* A conversation shows the Teams bound to it: compaction keeps the newest cut of each, and when all
   syncs have ended without a lost append it holds the newest cut of every Team bound to it and offers
   none of one that left it last (session-journal.ts 462-587, owned-event-store.ts 54-76). *)
THEOREM BridgesStayTrue == BridgesSpec => []BridgesAreTrue
<1>1. BridgesInv /\ AdaptersAreTrue => BridgesAreTrue
  BY CompactionKeepsNewest, NewestIsPublished, LeftIsBuried, BridgesWellFormed DEF BridgesAreTrue
<1> QED
  BY <1>1, BridgesInvariant, AdaptersStayTrue, PTL
====
