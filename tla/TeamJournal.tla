---- MODULE TeamJournal ----
(***************************************************************************)
(* The journal of one controller Session: transactions serialised by a     *)
(* gate and closed by a poison flag, written either into the Host's own    *)
(* Session log (native: append in memory, flush, or persist the tail) or   *)
(* into a record of the plugin's storage domain (sidecar).  Writers of     *)
(* index facts (summaries, checkpoints, bindings) use the journal without  *)
(* the gate.  A fact is identified with the operation that wrote it.       *)
(***************************************************************************)
EXTENDS Naturals, Sequences, SequencesExt, FiniteSets

CONSTANTS TeamOps,      \* transactions, the first of which starts the Team
          IndexOps,     \* commits outside the gate
          Bootstrap,    \* the transaction that starts the Team
          MaxJournalFaults,    \* bound: refused or unacknowledged writes
          MaxJournalCrashes,   \* bound: restarts of the Host
          MaxCloses     \* bound: storage domains closed under a living Host

ASSUME JournalAssumption ==
  /\ TeamOps \cap IndexOps = {}
  /\ Bootstrap \in TeamOps
  /\ MaxJournalFaults \in Nat /\ MaxJournalCrashes \in Nat /\ MaxCloses \in Nat

Ops == TeamOps \cup IndexOps

VARIABLES
  live,      \* Yuqi facts in the native Session object
  disk,      \* those of them a restart finds
  record,    \* facts of the sidecar record; durable as soon as they are there
  listener,  \* whether a flush of the native Session has somebody who writes
  storage,   \* whether the Host offers a storage domain
  repo,      \* "closed", "open": the domain opened by this service
  bound,     \* 0: the Session reads its native log; n: bound to the n-th repository
  epoch,     \* number of repositories opened since the Host started
  queue,     \* transactions accepted by the gate, the head is running
  chain,     \* appends waiting in the queue of the sidecar record
  poisoned, disposed,
  pc,        \* where each operation is
  basis,     \* the facts a transaction has read
  span,      \* the part of the live log a persistence write covers
  journalFaults, journalCrashes, closes

journalVars == <<live, disk, record, listener, storage, repo, bound, epoch, queue, chain,
          poisoned, disposed, pc, basis, span, journalFaults, journalCrashes, closes>>
hostVars == <<listener, storage, repo, bound, epoch, disposed, journalCrashes, closes>>

Settled == {"acked", "failed", "refused", "lost"}
Waiting == {"queued", "commit", "chained", "put", "flush", "list", "write", "prove"}

(***************************************************************************)
(* Reading.                                                                *)
(***************************************************************************)

\* A binding to a repository that has been disposed throws instead of
\* falling back to the native log.
Readable == bound = 0 \/ (repo = "open" /\ bound = epoch)
Facts == IF bound = 0 THEN live ELSE record

\* Rebinding a Session: native facts stay where they are, facts on both sides
\* are refused, and a Session bound to a disposed repository is bound anew.
Conflicting == repo = "open" /\ live # <<>> /\ record # <<>>
Rebound == IF repo = "open" /\ live = <<>> THEN epoch ELSE bound

JournalInit ==
  /\ live = <<>> /\ disk = <<>> /\ record = <<>>
  /\ listener \in BOOLEAN /\ storage \in BOOLEAN
  /\ repo = "closed" /\ bound = 0 /\ epoch = 0
  /\ queue = <<>> /\ chain = <<>>
  /\ poisoned = FALSE /\ disposed = FALSE
  /\ pc = [o \in Ops |-> "idle"]
  /\ basis = [o \in TeamOps |-> <<>>]
  /\ span = [o \in Ops |-> <<0, 0>>]
  /\ journalFaults = 0 /\ journalCrashes = 0 /\ closes = 0

(***************************************************************************)
(* The gate.                                                               *)
(***************************************************************************)

\* A request gets the journal of the Session, which binds it first, and then
\* waits for the transactions before it.  Starting a Team waits for storage.
SubmitTransaction(o) ==
  /\ o \in TeamOps /\ pc[o] = "idle"
  /\ o = Bootstrap => (storage => repo = "open")
  /\ IF Conflicting \/ disposed
     THEN pc' = [pc EXCEPT ![o] = "refused"] /\ UNCHANGED <<queue, bound>>
     ELSE /\ bound' = Rebound
          /\ queue' = Append(queue, o)
          /\ pc' = [pc EXCEPT ![o] = "queued"]
  /\ UNCHANGED <<live, disk, record, listener, storage, repo, epoch, chain, poisoned, disposed,
                 basis, span, journalFaults, journalCrashes, closes>>

\* The head of the queue reads the facts it decides on.  A poisoned journal
\* refuses it, so does one it cannot read; only a start accepts an empty one.
Begin(o) ==
  /\ queue # <<>> /\ Head(queue) = o /\ pc[o] = "queued"
  /\ IF poisoned \/ ~Readable \/ (Facts = <<>> /\ o # Bootstrap) \/ (Facts # <<>> /\ o = Bootstrap)
     THEN /\ pc' = [pc EXCEPT ![o] = "refused"]
          /\ queue' = Tail(queue)
          /\ UNCHANGED basis
     ELSE /\ pc' = [pc EXCEPT ![o] = "commit"]
          /\ basis' = [basis EXCEPT ![o] = Facts]
          /\ UNCHANGED queue
  /\ UNCHANGED <<live, disk, record, chain, poisoned, span, journalFaults>>
  /\ UNCHANGED hostVars

\* A summary, a checkpoint or a binding is committed without the gate.
SubmitIndex(o) ==
  /\ o \in IndexOps /\ pc[o] = "idle"
  /\ Readable /\ Facts # <<>>
  /\ IF Conflicting
     THEN pc' = [pc EXCEPT ![o] = "refused"] /\ UNCHANGED bound
     ELSE pc' = [pc EXCEPT ![o] = "commit"] /\ bound' = Rebound
  /\ UNCHANGED <<live, disk, record, listener, storage, repo, epoch, queue, chain, poisoned,
                 disposed, basis, span, journalFaults, journalCrashes, closes>>

\* A transaction leaves the gate when its operation settles, and the next one
\* becomes its head; one whose commit threw leaves a poisoned journal.
LeaveGate(o) == IF o \in TeamOps THEN queue' = Tail(queue) ELSE UNCHANGED queue
Acknowledge(o) ==
  /\ pc' = [pc EXCEPT ![o] = "acked"]
  /\ LeaveGate(o) /\ UNCHANGED poisoned
Fail(o) ==
  /\ pc' = [pc EXCEPT ![o] = "failed"]
  /\ LeaveGate(o)
  /\ poisoned' = (poisoned \/ o \in TeamOps)

Goto(o, where) ==
  /\ pc' = [pc EXCEPT ![o] = where]
  /\ UNCHANGED <<queue, poisoned>>

JournalFault == journalFaults < MaxJournalFaults /\ journalFaults' = journalFaults + 1

(***************************************************************************)
(* Committing.                                                             *)
(***************************************************************************)

\* The event goes to exactly one source: appended to the native Session at
\* once, or queued for the sidecar record.
AppendFact(o) ==
  /\ pc[o] = "commit"
  /\ \/ /\ ~Readable
        /\ Fail(o) /\ UNCHANGED <<live, chain>>
     \/ /\ Readable /\ bound = 0
        /\ live' = Append(live, o)
        /\ Goto(o, "flush") /\ UNCHANGED chain
     \/ /\ Readable /\ bound > 0
        /\ chain' = Append(chain, <<o, bound>>)
        /\ Goto(o, "chained") /\ UNCHANGED live
  /\ UNCHANGED <<disk, record, basis, span, journalFaults>> /\ UNCHANGED hostVars

\* The head of the record's queue makes the native header durable first.  Its
\* repository may have been disposed meanwhile, or the header be refused.
Materialize(o) ==
  /\ pc[o] = "chained" /\ Head(chain)[1] = o
  /\ \/ /\ repo = "open" /\ Head(chain)[2] = epoch
        /\ Goto(o, "put") /\ UNCHANGED <<chain, journalFaults>>
     \/ /\ ~(repo = "open" /\ Head(chain)[2] = epoch)
        /\ Fail(o) /\ chain' = Tail(chain) /\ UNCHANGED journalFaults
     \/ /\ JournalFault /\ Fail(o) /\ chain' = Tail(chain)
  /\ UNCHANGED <<live, disk, record, basis, span>> /\ UNCHANGED hostVars

\* The record is written with the revision read now.  A write may throw with
\* or without having happened; one that happened while the repository was
\* disposed is not acknowledged either, because the journal asks for the
\* binding once more.
PutRecord(o) ==
  /\ pc[o] = "put" /\ chain' = Tail(chain)
  /\ \/ /\ Head(chain)[2] = epoch /\ repo = "open"
        /\ record' = Append(record, o)
        /\ Acknowledge(o) /\ UNCHANGED journalFaults
     \/ /\ ~(Head(chain)[2] = epoch /\ repo = "open")
        /\ record' \in {record, Append(record, o)}
        /\ Fail(o) /\ UNCHANGED journalFaults
     \/ /\ JournalFault
        /\ record' \in {record, Append(record, o)}
        /\ Fail(o)
  /\ UNCHANGED <<live, disk, basis, span>> /\ UNCHANGED hostVars

\* Mutant: a flush nobody listened to is taken for a durable one.
FlushUnheard(o) ==
  /\ pc[o] = "flush"
  /\ \/ listener /\ disk' = live /\ Acknowledge(o) /\ UNCHANGED journalFaults
     \/ ~listener /\ Acknowledge(o) /\ UNCHANGED <<disk, journalFaults>>
     \/ JournalFault /\ listener /\ disk' \in {disk, live} /\ Fail(o)
  /\ UNCHANGED <<live, record, chain, basis, span>> /\ UNCHANGED hostVars

\* The native Session is flushed.  Without a listener the flush answers no,
\* and the persistence service is used.
Flush(o) ==
  /\ pc[o] = "flush"
  /\ \/ listener /\ disk' = live /\ Acknowledge(o) /\ UNCHANGED journalFaults
     \/ ~listener /\ Goto(o, "list") /\ UNCHANGED <<disk, journalFaults>>
     \/ JournalFault /\ listener /\ disk' \in {disk, live} /\ Fail(o)
  /\ UNCHANGED <<live, record, chain, basis, span>> /\ UNCHANGED hostVars

\* It reads the stored log, compares it with the live one, and notes the tail.
ListStored(o) ==
  /\ pc[o] = "list"
  /\ \/ /\ IsPrefix(disk, live)
        /\ span' = [span EXCEPT ![o] = <<Len(disk), Len(live)>>]
        /\ Goto(o, IF Len(disk) = Len(live) THEN "prove" ELSE "write") /\ UNCHANGED journalFaults
     \/ ~IsPrefix(disk, live) /\ Fail(o) /\ UNCHANGED <<span, journalFaults>>
     \/ JournalFault /\ Fail(o) /\ UNCHANGED span
  /\ UNCHANGED <<live, disk, record, chain, basis>> /\ UNCHANGED hostVars

\* The store takes a tail only where its own log ends.
WriteTail(o) ==
  /\ pc[o] = "write"
  /\ LET written == SubSeq(live, 1, span[o][2]) IN
     \/ /\ Len(disk) = span[o][1] /\ disk' = written
        /\ Goto(o, "prove") /\ UNCHANGED journalFaults
     \/ Len(disk) # span[o][1] /\ Fail(o) /\ UNCHANGED <<disk, journalFaults>>
     \/ JournalFault /\ Len(disk) = span[o][1] /\ disk' \in {disk, written} /\ Fail(o)
  /\ UNCHANGED <<live, record, chain, basis, span>> /\ UNCHANGED hostVars

\* It reads the log again: anything but exactly the live log it saw is no proof.
ProveStored(o) ==
  /\ pc[o] = "prove"
  /\ \/ Len(disk) = span[o][2] /\ Acknowledge(o) /\ UNCHANGED journalFaults
     \/ Len(disk) # span[o][2] /\ Fail(o) /\ UNCHANGED journalFaults
     \/ JournalFault /\ Fail(o)
  /\ UNCHANGED <<live, disk, record, chain, basis, span>> /\ UNCHANGED hostVars

(***************************************************************************)
(* The storage domain and the Host.                                        *)
(***************************************************************************)

\* Opening binds the Session unless it has native facts; facts on both sides
\* leave it as it was.  A failed opening is retried by the next caller.
OpenStorage ==
  /\ storage /\ repo = "closed" /\ ~disposed
  /\ repo' = "open" /\ epoch' = epoch + 1
  /\ bound' = IF live = <<>> THEN epoch + 1 ELSE bound
  /\ UNCHANGED <<live, disk, record, listener, storage, queue, chain, poisoned, disposed, pc,
                 basis, span, journalFaults, journalCrashes, closes>>

\* The domain is closed: the repository is disposed, its bindings throw.
CloseStorage ==
  /\ repo = "open" /\ closes < MaxCloses
  /\ repo' = "closed" /\ closes' = closes + 1
  /\ UNCHANGED <<live, disk, record, listener, storage, bound, epoch, queue, chain, poisoned,
                 disposed, pc, basis, span, journalFaults, journalCrashes>>

\* A storage domain that appears while the Host lives.
StorageAppears ==
  /\ ~storage /\ storage' = TRUE
  /\ UNCHANGED <<live, disk, record, listener, repo, bound, epoch, queue, chain, poisoned,
                 disposed, pc, basis, span, journalFaults, journalCrashes, closes>>

\* The gate accepts nothing more and waits for what it has accepted.
Dispose ==
  /\ ~disposed /\ disposed' = TRUE
  /\ UNCHANGED <<live, disk, record, listener, storage, repo, bound, epoch, queue, chain, poisoned,
                 pc, basis, span, journalFaults, journalCrashes, closes>>

\* The batch executor poisons the journal when an effect outside it is unknown.
Poison ==
  /\ ~poisoned /\ JournalFault /\ poisoned' = TRUE
  /\ UNCHANGED <<live, disk, record, queue, chain, pc, basis, span>> /\ UNCHANGED hostVars

\* A restart keeps what is durable, and may come up without storage.
JournalRestart ==
  /\ journalCrashes < MaxJournalCrashes /\ journalCrashes' = journalCrashes + 1
  /\ live' = disk
  /\ storage' \in BOOLEAN
  /\ repo' = "closed" /\ bound' = 0 /\ epoch' = 0
  /\ queue' = <<>> /\ chain' = <<>>
  /\ poisoned' = FALSE /\ disposed' = FALSE
  /\ pc' = [o \in Ops |-> IF pc[o] \in Waiting THEN "lost" ELSE pc[o]]
  /\ UNCHANGED <<disk, record, listener, basis, span, journalFaults, closes>>

Write(o) ==
  \/ AppendFact(o) \/ Materialize(o) \/ PutRecord(o)
  \/ Flush(o) \/ ListStored(o) \/ WriteTail(o) \/ ProveStored(o)

JournalNext ==
  \/ \E o \in TeamOps : SubmitTransaction(o) \/ Begin(o)
  \/ \E o \in IndexOps : SubmitIndex(o)
  \/ \E o \in Ops : Write(o)
  \/ OpenStorage \/ CloseStorage \/ StorageAppears \/ Dispose \/ Poison \/ JournalRestart

JournalSpec == JournalInit /\ [][JournalNext]_journalVars

(***************************************************************************)
(* Properties.                                                             *)
(***************************************************************************)

\* What a restart finds.
Durable == ToSet(disk) \cup ToSet(record)

\* Position i of a log comes after the facts read and index facts.
Follows(log, i, read) ==
  /\ Len(read) < i
  /\ \A j \in 1..(i - 1) : IF j <= Len(read) THEN log[j] = read[j] ELSE log[j] \in IndexOps

\* The variables have their types; exactly the transactions that are waiting
\* are in the gate's queue, and exactly the appends that are waiting in the
\* record's (journal-gate.ts, session-sidecar.ts: a settled operation gives
\* its turn away, whatever its outcome).
JournalTypeOK ==
  /\ live \in Seq(Ops) /\ disk \in Seq(Ops) /\ record \in Seq(Ops)
  /\ listener \in BOOLEAN /\ storage \in BOOLEAN /\ poisoned \in BOOLEAN /\ disposed \in BOOLEAN
  /\ repo \in {"closed", "open"} /\ bound \in 0..epoch /\ epoch \in Nat
  /\ pc \in [Ops -> {"idle"} \cup Waiting \cup Settled]
  /\ basis \in [TeamOps -> Seq(Ops)]
  /\ queue \in Seq(TeamOps) /\ IsInjective(queue)
  /\ ToSet(queue) = {o \in TeamOps : pc[o] \in Waiting}
  /\ {chain[i][1] : i \in DOMAIN chain} = {o \in Ops : pc[o] \in {"chained", "put"}}
  /\ journalFaults \in 0..MaxJournalFaults /\ journalCrashes \in 0..MaxJournalCrashes /\ closes \in 0..MaxCloses

\* An operation that was acknowledged is found by every later start of the
\* Host, however it was written: flush, persisted tail or record
\* (session-journal.ts, flushOrPersist; session-sidecar.ts, append).
AckedIsDurable == \A o \in Ops : pc[o] = "acked" => o \in Durable

\* The Session has its facts in one source: never some in the native log and
\* some in the record, although storage may appear, close, or be missing after
\* a restart (session-sidecar.ts, assertNoLegacy).
OneSource == live = <<>> \/ record = <<>>

\* The transactions of a Session are serial: the facts before a transaction's
\* own are the ones it has read, and after those only index facts, which are
\* written without the gate (journal-gate.ts, run).
Serialised ==
  \A log \in {live, record} : \A i \in DOMAIN log :
    log[i] \in TeamOps => Follows(log, i, basis[log[i]])

\* No transaction decides on a fact that a restart might not find: once a
\* commit failed, the journal is closed until the Host restarts
\* (durable-journal.ts, the poison flag).
ReadsAreDurable ==
  [][\A o \in TeamOps :
       pc[o] = "queued" /\ pc'[o] = "commit" => ToSet(basis'[o]) \cap TeamOps \subseteq Durable]_journalVars

\* Together: what the journal promises the commands that write through it.
JournalIsTrue ==
  /\ [](JournalTypeOK /\ AckedIsDurable /\ OneSource /\ Serialised)
  /\ ReadsAreDurable
====
