---- MODULE TeamHostProofs ----
(***************************************************************************)
(* What the Host does around its Teams.  The runner drives every running   *)
(* Team it owns: no wake is lost between a command, the end of a pass and  *)
(* shutdown, and no controller is disposed twice.  The commands of several *)
(* controllers share the index of their project: none is lost, and each is *)
(* told what happened.  A verdict on a task is earned by the processes     *)
(* that the Host ran for it and derives again from its own facts.          *)
(***************************************************************************)
EXTENDS TeamRunner, TeamKnowledge, TeamEvidence, FiniteSetTheorems, SequenceTheorems, TLAPS

(* What the runner of a Team is made of *)

Asked == {"pause", "pauseNow", "repeat", "resume", "cancel", "abort"}
VerdictTx == {"passed", "waived"}
PassTx == {"dispatch", "complete", "begin"} \cup VerdictTx
Repeatable == {"mark", "uncertain"}
HostTx == PassTx \cup Repeatable \cup {"settle"}
TxRecords == {t \in [tx : Asked \cup HostTx \cup {"quiesce"}, by : Nat] : t.tx \in HostTx => t.by = 0}
SupRecords ==
    [bound : BOOLEAN, op : {"none", "pass", "yield"}, pending : BOOLEAN, aborted : BOOLEAN,
     observers : SUBSET {"launch", "wake"}, releasing : BOOLEAN,
     disposal : {"none", "running", "done"}, leases : Int, cut : BOOLEAN]
PassRecords == [at : {"none", "head", "working", "waiting", "checking"}, cycles : Nat]
FlagRecords == [closing : BOOLEAN, disposed : BOOLEAN, replanned : BOOLEAN, cached : BOOLEAN,
                disposals : Nat, attempts : Nat]
CommandRecords == [kind : Asked, phase : {"queued", "waiting", "committed", "done", "refused"}]

(* The transactions that wait, as a set; all but the marks wait once. *)
Waiting(q) == {q[i] : i \in 1 .. Len(q)}
QueueTyped(q) ==
    /\ q \in Seq(TxRecords)
    /\ \A i, j \in 1 .. Len(q) : i # j /\ q[i].tx \notin Repeatable => q[i] # q[j]

(* A transaction joins the queue of the Host; only a repeatable one may wait twice. *)
LEMMA QueueGrows ==
    ASSUME NEW q, QueueTyped(q), NEW t \in TxRecords, t.tx \in Repeatable \/ t \notin Waiting(q)
    PROVE  QueueTyped(Append(q, t)) /\ Waiting(Append(q, t)) = Waiting(q) \cup {t}
<1> DEFINE n == Append(q, t)
<1>1. /\ q \in Seq(TxRecords) /\ Len(q) \in Nat /\ n \in Seq(TxRecords) /\ Len(n) = Len(q) + 1
      /\ \A i \in 1 .. Len(q) : n[i] = q[i]
      /\ n[Len(q) + 1] = t
  BY DEF QueueTyped
<1> HIDE DEF n
<1>2. \A i \in 1 .. Len(n) : i \in 1 .. Len(q) \/ i = Len(q) + 1
  BY <1>1
<1>3. Waiting(n) = Waiting(q) \cup {t}
  BY <1>1, <1>2 DEF Waiting
<1>4. ASSUME NEW i \in 1 .. Len(n), NEW j \in 1 .. Len(n), i # j, n[i].tx \notin Repeatable
      PROVE  n[i] # n[j]
  <2>1. CASE i \in 1 .. Len(q) /\ j \in 1 .. Len(q)
    BY <1>1, <1>4, <2>1 DEF QueueTyped
  <2>2. CASE i \in 1 .. Len(q) /\ j = Len(q) + 1
    BY <1>1, <1>4, <2>2 DEF Waiting
  <2>3. CASE i = Len(q) + 1 /\ j \in 1 .. Len(q)
    BY <1>1, <1>4, <2>3 DEF Waiting
  <2> QED
    BY <1>2, <1>4, <2>1, <2>2, <2>3
<1> QED
  BY <1>1, <1>3, <1>4 DEF QueueTyped, n

(* The head leaves: what is not repeatable waits no more. *)
LEMMA QueueShrinks ==
    ASSUME NEW q, QueueTyped(q), q # <<>>
    PROVE  /\ QueueTyped(Tail(q)) /\ Head(q) \in TxRecords /\ Head(q) \in Waiting(q)
           /\ Waiting(q) = Waiting(Tail(q)) \cup {Head(q)}
           /\ Head(q).tx \notin Repeatable => Head(q) \notin Waiting(Tail(q))
<1> DEFINE n == Tail(q)
           h == Head(q)
<1>1. /\ q \in Seq(TxRecords) /\ Len(q) \in Nat \ {0} /\ n \in Seq(TxRecords) /\ Len(n) = Len(q) - 1
      /\ h = q[1] /\ \A i \in 1 .. Len(n) : n[i] = q[i + 1]
  BY DEF QueueTyped
<1> HIDE DEF n, h
<1>2. h \in TxRecords /\ h \in Waiting(q)
  BY <1>1 DEF Waiting
<1>3. \A i \in 1 .. Len(n) : i + 1 \in 1 .. Len(q) /\ i + 1 # 1
  BY <1>1
<1>4. \A i \in 1 .. Len(q) : i = 1 \/ (i - 1 \in 1 .. Len(n) /\ q[i] = n[i - 1])
  BY <1>1
<1>5. Waiting(q) = Waiting(n) \cup {h}
  BY <1>1, <1>3, <1>4 DEF Waiting
<1>6. h.tx \notin Repeatable => h \notin Waiting(n)
  BY <1>1, <1>3 DEF Waiting, QueueTyped
<1>7. QueueTyped(n)
  <2> SUFFICES ASSUME NEW i \in 1 .. Len(n), NEW j \in 1 .. Len(n), i # j, n[i].tx \notin Repeatable
               PROVE  n[i] # n[j]
    BY <1>1 DEF QueueTyped
  <2>1. i + 1 \in 1 .. Len(q) /\ j + 1 \in 1 .. Len(q) /\ i + 1 # j + 1
        /\ n[i] = q[i + 1] /\ n[j] = q[j + 1]
    BY <1>1
  <2> QED
    BY <2>1 DEF QueueTyped
<1> QED
  BY <1>2, <1>5, <1>6, <1>7 DEF n, h

(* The inductive invariant *)

RunnerTyped ==
    /\ lifecycle \in Stopped \cup Inactive \cup {"running"}
    /\ sup \in SupRecords /\ pass \in PassRecords /\ flags \in FlagRecords
    /\ cmds \in Seq(CommandRecords) /\ Len(cmds) <= MaxCommands /\ QueueTyped(queue)

(* The task at work belongs to open work; its attempt is settled once it ended, and a
   verification that begins, or whose verdict is due, is its own. *)
WorkInv ==
    /\ work \in 0 .. MaxWork /\ held \in 0 .. work
    /\ active \in {"none", "running", "settled", "checking"} /\ alive \in {"none", "running", "ended"}
    /\ active # "none" => held < work
    /\ alive # "none" => active = "running"
    /\ pass.at = "checking" => active = "checking"
    /\ \A t \in Waiting(queue) :
         /\ t.tx = "settle" => alive = "ended"
         /\ t.tx = "begin" => active = "settled"
         /\ t.tx \in VerdictTx => active = "checking"

(* A pass belongs to an operation and waits for one transaction of its own. *)
PassInv ==
    /\ PassHasOperation
    /\ \A t \in Waiting(queue) : t.tx \in PassTx => pass.at = "working"
    /\ \A t, u \in Waiting(queue) : t.tx \in PassTx /\ u.tx \in PassTx => t = u
    /\ sup.op # "none" => sup.observers # {}
    /\ sup.op # "pass" => ~sup.aborted

(* A command's transaction waits while the command does. *)
CommandInv ==
    \A t \in Waiting(queue) :
      /\ t.tx \in Asked \cup {"quiesce"} => t.by \in 1 .. Len(cmds)
      /\ t.tx \in Asked => cmds[t.by] = [kind |-> t.tx, phase |-> "queued"]
      /\ t.tx = "quiesce" => cmds[t.by] = [kind |-> "resume", phase |-> "committed"]

(* Every resume under way holds a lease on the runner, and a lease keeps the runner. *)
Resuming == {c \in 1 .. Len(cmds) : cmds[c].kind = "resume" /\ cmds[c].phase \in {"queued", "committed"}}
LeaseInv ==
    /\ sup.leases = Cardinality(Resuming)
    /\ sup.leases > 0 => lifecycle \in Terminal \/ (sup.bound /\ ~sup.releasing /\ ~flags.disposed)
    /\ CommittedResumesWake

(* The controller has one owner: the cache, the runner, or nobody once it is disposed. *)
HandleInv ==
    /\ DisposedOnce
    /\ flags.cached => sup = Unbound /\ ~flags.closing /\ ~flags.disposed
    /\ flags.cached \/ sup.bound => flags.disposals = 0
    /\ sup.disposal = "running" => sup.bound /\ sup.releasing
    /\ sup.bound /\ sup.releasing => flags.closing \/ lifecycle \in Terminal
    /\ flags.disposed => flags.closing

(* A running Team is driven, or a transaction that wakes or stops it waits, or a repeated
   immediate pause has cut its pass off and no wake has come since. *)
DriveInv ==
    lifecycle = "running" /\ sup.bound /\ ~flags.closing =>
      \/ sup.op # "none" /\ (sup.aborted => sup.pending)
      \/ \E t \in Waiting(queue) : t.tx \in {"quiesce", "mark"}
      \/ sup.cut

RunnerInv == RunnerTyped /\ WorkInv /\ PassInv /\ CommandInv /\ LeaseInv /\ HandleInv /\ DriveInv

(* What the methods of the supervisor do to its state *)

(* The records the runner starts from. *)
LEMMA Pieces ==
    /\ Unbound \in SupRecords /\ ~Unbound.bound /\ Unbound.op = "none" /\ ~Unbound.aborted
    /\ Unbound.leases = 0 /\ Unbound.disposal = "none" /\ ~Unbound.releasing
    /\ RestoredSup \in SupRecords /\ RestoredSup.bound /\ RestoredSup.op = "none" /\ ~RestoredSup.aborted
    /\ RestoredSup.leases = 0 /\ RestoredSup.disposal = "none" /\ ~RestoredSup.releasing
    /\ NoPass \in PassRecords /\ NoPass.at = "none"
    /\ FreshPass \in PassRecords /\ FreshPass.at = "head"
    /\ FreshHost \in FlagRecords /\ ~FreshHost.closing /\ ~FreshHost.disposed /\ FreshHost.disposals = 0
<1>1. Unbound \in SupRecords /\ ~Unbound.bound /\ Unbound.op = "none" /\ ~Unbound.aborted
      /\ Unbound.leases = 0 /\ Unbound.disposal = "none" /\ ~Unbound.releasing
  BY DEF Unbound, SupRecords
<1>2. /\ RestoredSup \in SupRecords /\ RestoredSup.bound /\ RestoredSup.op = "none" /\ ~RestoredSup.aborted
      /\ RestoredSup.leases = 0 /\ RestoredSup.disposal = "none" /\ ~RestoredSup.releasing
  BY <1>1 DEF RestoredSup, SupRecords
<1>3. /\ NoPass \in PassRecords /\ NoPass.at = "none"
      /\ FreshPass \in PassRecords /\ FreshPass.at = "head"
  BY DEF NoPass, FreshPass, PassRecords
<1>4. FreshHost \in FlagRecords /\ ~FreshHost.closing /\ ~FreshHost.disposed /\ FreshHost.disposals = 0
  BY DEF FreshHost, FlagRecords
<1> QED
  BY <1>1, <1>2, <1>3, <1>4

(* A wake asks for a pass: it starts one, or leaves its mark on the operation under way. *)
LEMMA WokenFacts ==
    ASSUME NEW s \in SupRecords
    PROVE  /\ Woken(s) \in SupRecords /\ Woken(s).op = (IF s.op = "none" THEN "pass" ELSE s.op)
           /\ Woken(s).bound = s.bound /\ Woken(s).releasing = s.releasing
           /\ Woken(s).disposal = s.disposal /\ Woken(s).leases = s.leases
           /\ Woken(s).observers # {} /\ (Woken(s).aborted => Woken(s).pending)
           /\ (s.op # "none" => Woken(s).aborted = s.aborted)
BY DEF Woken, SupRecords

(* An interrupt, or a release, leaves the operation and the leases where they are. *)
Cut(s, u) ==
    /\ u \in SupRecords /\ u.bound = s.bound /\ u.op = s.op /\ u.observers = s.observers
    /\ u.leases = s.leases /\ (s.op # "pass" => u.aborted = s.aborted)

(* An interruption aborts the operation and touches nothing else. *)
LEMMA InterruptedFacts ==
    ASSUME NEW s \in SupRecords
    PROVE  /\ Cut(s, Interrupted(s)) /\ (s = Unbound => Interrupted(s) = Unbound)
           /\ Interrupted(s).releasing = s.releasing /\ Interrupted(s).disposal = s.disposal
           /\ Interrupted(s).cut = s.cut
<1>1. s = Unbound => Interrupted(s) = Unbound
  <2> SUFFICES Interrupted(Unbound) = Unbound
    OBVIOUS
  <2>1. (Unbound.aborted \/ Unbound.op = "pass") = FALSE
    BY Pieces
  <2>2. Interrupted(Unbound) = [Unbound EXCEPT !.pending = FALSE, !.aborted = FALSE]
    BY <2>1 DEF Interrupted
  <2> QED
    BY <2>2 DEF Unbound
<1>2. (s.aborted \/ s.op = "pass") \in BOOLEAN
  OBVIOUS
<1> QED
  BY <1>1, <1>2 DEF Interrupted, SupRecords, Cut

(* A release aborts the operation and starts the disposal of a bound controller, once. *)
LEMMA ReleasedFacts ==
    ASSUME NEW s \in SupRecords, s.disposal = "running" => s.bound /\ s.releasing
    PROVE  /\ Cut(s, ReleasedController(s)) /\ (~s.bound => ReleasedController(s) = s)
           /\ s.bound => ReleasedController(s).releasing
           /\ ReleasedController(s).disposal = "running" => s.bound /\ ReleasedController(s).releasing
<1> DEFINE i == Interrupted(s)
<1>1. i \in SupRecords /\ Cut(s, i) /\ i.disposal = s.disposal
  BY InterruptedFacts DEF Cut
<1>2. CASE ~s.bound
  BY <1>2 DEF ReleasedController, Cut
<1>3. CASE s.bound
  <2>1. ReleasedController(s) = [i EXCEPT !.releasing = TRUE, !.disposal = IF @ = "none" THEN "running" ELSE @]
    BY <1>3 DEF ReleasedController
  <2> HIDE DEF i
  <2>2. i \in SupRecords /\ (IF i.disposal = "none" THEN "running" ELSE i.disposal) \in {"running", "done"}
    BY <1>1 DEF SupRecords
  <2>3. PICK d \in {"running", "done"} :
          ReleasedController(s) = [i EXCEPT !.releasing = TRUE, !.disposal = d]
    BY <2>1, <2>2
  <2>4. LET r == ReleasedController(s)
        IN /\ r \in SupRecords /\ r.releasing /\ r.bound = i.bound /\ r.op = i.op
           /\ r.observers = i.observers /\ r.leases = i.leases /\ r.aborted = i.aborted
    BY <2>2, <2>3 DEF SupRecords
  <2> QED
    BY <1>1, <1>3, <2>4 DEF Cut
<1> QED
  BY <1>2, <1>3

(* A finished operation leaves the controller free. *)
LEMMA FinishedFacts ==
    ASSUME NEW s \in SupRecords
    PROVE  /\ Finished(s) \in SupRecords /\ Finished(s).op = "none" /\ ~Finished(s).aborted
           /\ Finished(s).bound = s.bound /\ Finished(s).releasing = s.releasing
           /\ Finished(s).disposal = s.disposal /\ Finished(s).leases = s.leases
           /\ Finished(s).cut = s.cut
BY DEF Finished, SupRecords

(* How an operation ends *)

(* A pass, or its operation, that ends on a journal that stands. *)
LEMMA PassMoves ==
    ASSUME RunnerInv, UNCHANGED <<durable, alive, cmds>>, ~flags.cached,
           QueueTyped(queue'),
           \A t \in Waiting(queue') : t.tx = "mark" \/ (t \in Waiting(queue) /\ t.tx \notin PassTx),
           sup' \in SupRecords, pass' \in PassRecords, flags' \in FlagRecords,
           flags'.closing = flags.closing, flags'.disposed = flags.disposed,
           flags'.cached = flags.cached, flags'.disposals = flags.disposals,
           sup'.bound = sup.bound, sup'.leases = sup.leases,
           sup'.releasing => sup.releasing \/ lifecycle \in Terminal,
           sup'.disposal = "running" => sup'.bound /\ sup'.releasing,
           PassHasOperation', sup'.op # "none" => sup'.observers # {}, sup'.op # "pass" => ~sup'.aborted,
           pass'.at # "checking", DriveInv'
    PROVE  RunnerInv'
<1> USE DEF RunnerInv, durable
<1>1. RunnerTyped'
  BY DEF RunnerTyped
<1>2. WorkInv'
  BY DEF WorkInv, VerdictTx
<1>3. PassInv'
  BY DEF PassInv, PassTx, VerdictTx
<1>4. CommandInv'
  BY DEF CommandInv, Asked
<1>5. LeaseInv'
  <2>1. Resuming' = Resuming
    BY DEF Resuming
  <2> QED
    BY <2>1 DEF LeaseInv, CommittedResumesWake
<1>6. HandleInv'
  BY DEF HandleInv, DisposedOnce
<1> QED
  BY <1>1, <1>2, <1>3, <1>4, <1>5, <1>6

(* The mark a failed pass leaves is one of the transactions. *)
LEMMA MarkIsTx == Tx("mark", 0) \in TxRecords /\ Tx("mark", 0).tx = "mark"
BY DEF Tx, TxRecords, HostTx, Repeatable

(* A pass that ends, for whatever reason, loses no wake: the next one starts or is not needed. *)
LEMMA FinishKeeps ==
    ASSUME RunnerInv, UNCHANGED <<durable, alive, cmds>>, pass.at # "none",
           NEW q, QueueTyped(q), Waiting(q) \subseteq Waiting(queue),
           \A t \in Waiting(q) : t.tx \notin PassTx,
           \A t \in Waiting(queue) : t.tx \in {"quiesce", "mark"} => t \in Waiting(q),
           NEW r, r \in Terminal => lifecycle \in Terminal,
           lifecycle = "running" => r \in {"yielded", "noProgress"} \/ (r = "aborted" /\ sup.aborted),
           Finish(r, q)
    PROVE  RunnerInv'
<1> USE DEF RunnerInv, durable
<1>1. /\ sup \in SupRecords /\ pass \in PassRecords /\ flags \in FlagRecords /\ sup.op = "pass"
      /\ sup.observers # {} /\ sup.observers \subseteq {"launch", "wake"}
      /\ (sup.disposal = "running" => sup.bound /\ sup.releasing)
  BY DEF RunnerTyped, PassInv, PassHasOperation, HandleInv, SupRecords
<1>2. ~flags.cached
  BY <1>1, Pieces DEF HandleInv
<1>3. lifecycle = "running" /\ sup.bound /\ ~flags.closing =>
        \/ sup.aborted => sup.pending
        \/ \E t \in Waiting(q) : t.tx \in {"quiesce", "mark"}
        \/ sup.cut
  BY <1>1 DEF DriveInv
<1>4. CASE r = "yielded"
  <2>1. sup' = [sup EXCEPT !.op = "yield", !.aborted = FALSE] /\ pass' = NoPass /\ queue' = q
        /\ flags' = flags
    BY <1>4 DEF Finish
  <2>2. /\ sup' \in SupRecords /\ sup'.op = "yield" /\ ~sup'.aborted /\ sup'.bound = sup.bound
        /\ sup'.leases = sup.leases /\ sup'.releasing = sup.releasing /\ sup'.disposal = sup.disposal
        /\ sup'.observers = sup.observers
    BY <1>1, <2>1 DEF SupRecords
  <2>3. DriveInv' /\ PassHasOperation'
    BY <2>1, <2>2, Pieces DEF DriveInv, PassHasOperation
  <2> QED
    BY <1>1, <1>2, <2>1, <2>2, <2>3, PassMoves, Pieces
<1>5. CASE Continues(r)
  <2>1. sup' = [sup EXCEPT !.pending = FALSE, !.aborted = FALSE] /\ pass' = FreshPass /\ queue' = q
        /\ flags' = flags
    BY <1>5 DEF Finish, Continues
  <2>2. /\ sup' \in SupRecords /\ sup'.op = "pass" /\ ~sup'.aborted /\ sup'.bound = sup.bound
        /\ sup'.leases = sup.leases /\ sup'.releasing = sup.releasing /\ sup'.disposal = sup.disposal
        /\ sup'.observers = sup.observers
    BY <1>1, <2>1 DEF SupRecords
  <2>3. DriveInv' /\ PassHasOperation'
    BY <2>1, <2>2, Pieces DEF DriveInv, PassHasOperation
  <2> QED
    BY <1>1, <1>2, <2>1, <2>2, <2>3, PassMoves, Pieces
<1>6. CASE r # "yielded" /\ ~Continues(r)
  <2> DEFINE o == Finished(sup)
  <2>1. /\ sup' = (IF r \in Terminal THEN ReleasedController(o) ELSE o) /\ pass' = NoPass
        /\ queue' = (IF MarksAfter(r) THEN Append(q, Tx("mark", 0)) ELSE q)
        /\ flags' = IF "wake" \in sup.observers THEN [flags EXCEPT !.replanned = FALSE] ELSE flags
    BY <1>6 DEF Finish
  <2>2. /\ o \in SupRecords /\ o.op = "none" /\ ~o.aborted /\ o.bound = sup.bound
        /\ o.releasing = sup.releasing /\ o.disposal = sup.disposal /\ o.leases = sup.leases
        /\ o.cut = sup.cut
    BY <1>1, FinishedFacts
  <2> HIDE DEF o
  <2>3. /\ sup' \in SupRecords /\ sup'.op = "none" /\ ~sup'.aborted /\ sup'.bound = sup.bound
        /\ sup'.leases = sup.leases /\ (sup'.releasing => sup.releasing \/ lifecycle \in Terminal)
        /\ (sup'.disposal = "running" => sup'.bound /\ sup'.releasing)
    <3>1. CASE r \in Terminal
      BY <1>1, <2>1, <2>2, <3>1, ReleasedFacts DEF Cut
    <3>2. CASE r \notin Terminal
      BY <1>1, <2>1, <2>2, <3>2
    <3> QED
      BY <3>1, <3>2
  <2>4. QueueTyped(queue') /\ Waiting(q) \subseteq Waiting(queue')
        /\ (MarksAfter(r) => Tx("mark", 0) \in Waiting(queue'))
        /\ \A t \in Waiting(queue') : t.tx = "mark" \/ t \in Waiting(q)
    <3>1. CASE MarksAfter(r)
      BY <2>1, <3>1, QueueGrows, MarkIsTx DEF Repeatable
    <3>2. CASE ~MarksAfter(r)
      BY <2>1, <3>2
    <3> QED
      BY <3>1, <3>2
  <2>5. /\ flags' \in FlagRecords /\ flags'.closing = flags.closing /\ flags'.disposed = flags.disposed
        /\ flags'.cached = flags.cached /\ flags'.disposals = flags.disposals
    BY <1>1, <2>1 DEF FlagRecords
  <2>6. DriveInv'
    <3> SUFFICES ASSUME lifecycle = "running", sup.bound, ~flags.closing
                 PROVE  sup'.cut \/ \E t \in Waiting(queue') : t.tx \in {"quiesce", "mark"}
      BY <2>3, <2>5 DEF DriveInv
    <3>1. CASE r = "noProgress"
      <4>1. MarksAfter(r)
        BY <1>1, <3>1 DEF MarksAfter, Recoverable
      <4> QED
        BY <2>4, <4>1, MarkIsTx
    <3>2. CASE r = "aborted" /\ sup.aborted
      <4>1. ~sup.pending
        BY <1>6, <3>2 DEF Continues, Terminal, HandleInv
      <4>2. sup'.cut = sup.cut
        BY <2>1, <2>2, <3>2 DEF Terminal
      <4> QED
        BY <1>3, <2>4, <3>2, <4>1, <4>2
    <3> QED
      BY <1>6, <3>1, <3>2
  <2>7. PassHasOperation'
    BY <2>1, <2>3, Pieces DEF PassHasOperation
  <2> QED
    BY <1>1, <1>2, <2>1, <2>3, <2>4, <2>5, <2>6, <2>7, PassMoves, Pieces
<1> QED
  BY <1>4, <1>5, <1>6

(* A pass that throws plans again, once, or leaves the mark that hands the Team to reconciliation. *)
LEMMA ThrowKeeps ==
    ASSUME RunnerInv, UNCHANGED <<durable, alive, cmds>>, pass.at # "none",
           NEW q, QueueTyped(q), Waiting(q) \subseteq Waiting(queue),
           \A t \in Waiting(q) : t.tx \notin PassTx,
           NEW cause, PassThrows(cause, q)
    PROVE  RunnerInv'
<1> USE DEF RunnerInv, durable
<1>1. /\ sup \in SupRecords /\ pass \in PassRecords /\ flags \in FlagRecords /\ sup.op = "pass"
      /\ sup.observers # {} /\ sup.observers \subseteq {"launch", "wake"}
      /\ (sup.disposal = "running" => sup.bound /\ sup.releasing)
  BY DEF RunnerTyped, PassInv, PassHasOperation, HandleInv, SupRecords
<1>2. ~flags.cached
  BY <1>1, Pieces DEF HandleInv
<1> DEFINE o == [Finished(sup) EXCEPT !.pending = FALSE]
<1>3. /\ sup' = (IF Replans(cause) THEN Woken(o) ELSE o)
      /\ pass' = (IF Replans(cause) THEN FreshPass ELSE NoPass)
      /\ flags' = (IF Replans(cause) THEN [flags EXCEPT !.replanned = TRUE] ELSE flags)
      /\ queue' = IF MarksAfterFailure(cause) THEN Append(q, Tx("mark", 0)) ELSE q
  BY DEF PassThrows
<1>4. /\ o \in SupRecords /\ o.op = "none" /\ ~o.aborted /\ o.bound = sup.bound
      /\ o.releasing = sup.releasing /\ o.disposal = sup.disposal /\ o.leases = sup.leases
  <2>1. Finished(sup) \in SupRecords
    BY <1>1, FinishedFacts
  <2> QED
    BY <1>1, <2>1, FinishedFacts DEF SupRecords
<1> HIDE DEF o
<1>5. /\ sup' \in SupRecords /\ sup'.bound = sup.bound /\ sup'.leases = sup.leases
      /\ sup'.releasing = sup.releasing /\ sup'.disposal = sup.disposal
      /\ sup'.op = (IF Replans(cause) THEN "pass" ELSE "none")
      /\ (sup'.op # "none" => sup'.observers # {} /\ (sup'.aborted => sup'.pending))
      /\ (sup'.op # "pass" => ~sup'.aborted)
  BY <1>3, <1>4, WokenFacts
<1>6. QueueTyped(queue') /\ Waiting(q) \subseteq Waiting(queue')
      /\ (MarksAfterFailure(cause) => Tx("mark", 0) \in Waiting(queue'))
      /\ \A t \in Waiting(queue') : t.tx = "mark" \/ t \in Waiting(q)
  <2>1. CASE MarksAfterFailure(cause)
    BY <1>3, <2>1, QueueGrows, MarkIsTx DEF Repeatable
  <2>2. CASE ~MarksAfterFailure(cause)
    BY <1>3, <2>2
  <2> QED
    BY <2>1, <2>2
<1>7. /\ flags' \in FlagRecords /\ flags'.closing = flags.closing /\ flags'.disposed = flags.disposed
      /\ flags'.cached = flags.cached /\ flags'.disposals = flags.disposals
  BY <1>1, <1>3 DEF FlagRecords
<1>8. DriveInv'
  <2>1. Replans(cause) \/ MarksAfterFailure(cause)
    BY <1>1 DEF MarksAfterFailure
  <2> QED
    BY <1>5, <1>6, <2>1, MarkIsTx DEF DriveInv
<1>9. PassHasOperation' /\ pass' \in PassRecords /\ pass'.at # "checking"
  BY <1>3, <1>5, Pieces DEF PassHasOperation
<1> QED
  BY <1>1, <1>2, <1>5, <1>6, <1>7, <1>8, <1>9, PassMoves

(* What an aborted pass throws is its abort; what any other throws is a failure. *)
LEMMA CaughtKeeps ==
    ASSUME RunnerInv, UNCHANGED <<durable, alive, cmds>>, pass.at # "none",
           NEW q, QueueTyped(q), Waiting(q) \subseteq Waiting(queue),
           \A t \in Waiting(q) : t.tx \notin PassTx,
           \A t \in Waiting(queue) : t.tx \in {"quiesce", "mark"} => t \in Waiting(q),
           NEW cause, Caught(cause, q)
    PROVE  RunnerInv'
<1>1. CASE sup.aborted
  <2> DEFINE r == IF lifecycle = "running" THEN "aborted" ELSE StopReason
  <2>1. Finish(r, q)
    BY <1>1 DEF Caught
  <2>2. (r \in Terminal => lifecycle \in Terminal)
        /\ (lifecycle = "running" => r \in {"yielded", "noProgress"} \/ (r = "aborted" /\ sup.aborted))
    BY <1>1 DEF StopReason, Terminal, Inactive
  <2> HIDE DEF r
  <2> QED
    BY <2>1, <2>2, FinishKeeps
<1>2. CASE ~sup.aborted
  BY <1>2, ThrowKeeps DEF Caught
<1> QED
  BY <1>1, <1>2

(* The steps of a pass *)

(* A pass stops at its head, is woken while it waits, or fails. *)
LEMMA StopsKeeps ==
    ASSUME RunnerInv, PassStops \/ PassWakes \/ PassFails
    PROVE  RunnerInv'
<1> USE DEF RunnerInv
<1>1. pass.at \in {"head", "waiting"} /\ UNCHANGED <<durable, alive, cmds>>
  BY DEF PassStops, PassWakes, PassFails
<1>2. QueueTyped(queue) /\ \A t \in Waiting(queue) : t.tx \notin PassTx
  BY <1>1 DEF RunnerTyped, PassInv
<1>3. CASE PassStops
  <2>1. PICK r \in {StopReason, "aborted", "yielded", "noProgress"} :
          /\ Finish(r, queue)
          /\ lifecycle = "running" => r \in {"yielded", "noProgress"} \/ (r = "aborted" /\ sup.aborted)
          /\ lifecycle # "running" => r = StopReason
    BY <1>3 DEF PassStops
  <2>2. r \in Terminal => lifecycle \in Terminal
    BY <2>1 DEF StopReason, Terminal, Inactive
  <2> QED
    BY <1>1, <1>2, <2>1, <2>2, FinishKeeps
<1>4. CASE PassWakes
  <2>1. CASE sup.aborted /\ Caught("aborted", queue)
    BY <1>1, <1>2, <2>1, CaughtKeeps
  <2>2. CASE Looped /\ UNCHANGED <<queue, sup, flags>>
    <3>1. pass \in PassRecords /\ pass' \in PassRecords /\ pass'.at = "head"
      BY <2>2 DEF RunnerTyped, Looped, PassRecords
    <3>2. PassInv'
      BY <1>1, <1>2, <2>2, <3>1 DEF PassInv, PassHasOperation
    <3> QED
      BY <1>1, <2>2, <3>1, <3>2
         DEF RunnerTyped, WorkInv, CommandInv, LeaseInv, Resuming, CommittedResumesWake, HandleInv, DisposedOnce, DriveInv,
             durable
  <2> QED
    BY <1>4, <2>1, <2>2 DEF PassWakes
<1>5. CASE PassFails
  <2>1. CASE PassThrows("error", queue)
    BY <1>1, <1>2, <2>1, ThrowKeeps
  <2>2. CASE Finish("noProgress", queue)
    BY <1>1, <1>2, <2>2, FinishKeeps DEF Terminal
  <2> QED
    BY <1>5, <2>1, <2>2 DEF PassFails
<1> QED
  BY <1>3, <1>4, <1>5

(* A pass plans: it queues its own transaction, waits for its attempt or ends. *)
LEMMA PlansKeeps ==
    ASSUME RunnerInv, PassPlans
    PROVE  RunnerInv'
<1> USE DEF RunnerInv
<1>1. pass.at = "head" /\ UNCHANGED <<durable, alive, sup, flags, cmds>> /\ pass \in PassRecords
      /\ QueueTyped(queue) /\ \A t \in Waiting(queue) : t.tx \notin PassTx
  BY DEF PassPlans, RunnerTyped, PassInv
<1>2. CASE \E x \in {"dispatch", "complete", "begin"} :
             /\ queue' = Append(queue, Tx(x, 0)) /\ pass' = [pass EXCEPT !.at = "working"]
             /\ x = "begin" => active = "settled"
  <2>1. PICK x \in {"dispatch", "complete", "begin"} :
          /\ queue' = Append(queue, Tx(x, 0)) /\ pass' = [pass EXCEPT !.at = "working"]
          /\ x = "begin" => active = "settled"
    BY <1>2
  <2>2. /\ Tx(x, 0) \in TxRecords /\ Tx(x, 0).tx = x /\ x \in PassTx
        /\ x \notin Asked \cup Repeatable \cup VerdictTx \cup {"quiesce", "settle"}
    BY DEF Tx, TxRecords, HostTx, PassTx, VerdictTx, Asked, Repeatable
  <2>3. QueueTyped(queue') /\ Waiting(queue') = Waiting(queue) \cup {Tx(x, 0)}
    BY <1>1, <2>1, <2>2, QueueGrows
  <2>4. pass' \in PassRecords /\ pass'.at = "working"
    BY <1>1, <2>1 DEF PassRecords
  <2>5. PassInv'
    BY <1>1, <2>2, <2>3, <2>4 DEF PassInv, PassHasOperation
  <2>6. CommandInv'
    BY <1>1, <2>2, <2>3 DEF CommandInv
  <2>7. WorkInv'
    BY <1>1, <2>1, <2>2, <2>3, <2>4 DEF WorkInv, durable
  <2> QED
    BY <1>1, <2>3, <2>4, <2>5, <2>6, <2>7
       DEF RunnerTyped, LeaseInv, Resuming, CommittedResumesWake, HandleInv, DisposedOnce, DriveInv, durable
<1>3. CASE /\ \/ pass' = [pass EXCEPT !.at = "waiting"]
              \/ active = "checking" /\ pass' = [pass EXCEPT !.at = "checking"]
           /\ UNCHANGED queue
  <2>1. /\ pass' \in PassRecords /\ pass'.at \in {"waiting", "checking"}
        /\ pass'.at = "checking" => active = "checking"
    BY <1>1, <1>3 DEF PassRecords
  <2>2. PassInv'
    BY <1>1, <1>3, <2>1 DEF PassInv, PassHasOperation
  <2> QED
    BY <1>1, <1>3, <2>1, <2>2
       DEF RunnerTyped, WorkInv, CommandInv, LeaseInv, Resuming, CommittedResumesWake, HandleInv, DisposedOnce, DriveInv,
           durable
<1> QED
  BY <1>2, <1>3 DEF PassPlans

(* What a transaction finds when its turn comes. *)
LEMMA TurnFacts ==
    ASSUME RunnerInv, NEW x, Turn(x)
    PROVE  /\ Head(queue) \in TxRecords /\ Head(queue).tx = x /\ Head(queue) \in Waiting(queue)
           /\ QueueTyped(Tail(queue)) /\ Waiting(queue) = Waiting(Tail(queue)) \cup {Head(queue)}
           /\ x \notin Repeatable => Head(queue) \notin Waiting(Tail(queue))
BY QueueShrinks DEF Turn, RunnerInv, RunnerTyped

(* The pass whose transaction commits is the one that waited for it. *)
LEMMA PassTurn ==
    ASSUME RunnerInv, NEW x \in PassTx, Turn(x)
    PROVE  pass.at = "working" /\ \A t \in Waiting(Tail(queue)) : t.tx \notin PassTx
<1>1. x \notin Repeatable
  BY DEF PassTx, VerdictTx, Repeatable
<1> QED
  BY <1>1, TurnFacts DEF RunnerInv, PassInv

(* The dispatch of a pass starts an attempt, or finds that its plan is stale. *)
LEMMA PassDispatchKeeps ==
    ASSUME RunnerInv, CommitDispatch
    PROVE  RunnerInv'
<1> USE DEF RunnerInv
<1>1. /\ Turn("dispatch") /\ "dispatch" \in PassTx /\ cmds' = cmds /\ "dispatch" \notin Repeatable
  BY DEF CommitDispatch, PassTx, VerdictTx, Repeatable
<1>2. /\ pass.at = "working" /\ QueueTyped(Tail(queue)) /\ Waiting(Tail(queue)) \subseteq Waiting(queue)
      /\ \A t \in Waiting(Tail(queue)) : t.tx \notin PassTx
      /\ \A t \in Waiting(queue) : t.tx \in {"quiesce", "mark"} => t \in Waiting(Tail(queue))
  BY <1>1, PassTurn, TurnFacts
<1>3. CASE Caught("stale", Tail(queue)) /\ UNCHANGED <<durable, alive>>
  BY <1>1, <1>2, <1>3, CaughtKeeps
<1>4. CASE /\ lifecycle = "running" /\ WorkIsOpen /\ active' = "running" /\ alive' = "running"
           /\ queue' = Tail(queue) /\ Looped /\ UNCHANGED <<lifecycle, work, held, sup, flags>>
  <2>1. pass \in PassRecords /\ pass' \in PassRecords /\ pass'.at = "head"
    BY <1>4 DEF RunnerTyped, Looped, PassRecords
  <2>2. WorkInv'
    BY <1>2, <1>4, <2>1 DEF WorkInv, WorkIsOpen, PassTx, VerdictTx
  <2>3. PassInv'
    BY <1>2, <1>4, <2>1 DEF PassInv, PassHasOperation
  <2>4. CommandInv' /\ DriveInv'
    BY <1>1, <1>2, <1>4 DEF CommandInv, DriveInv
  <2> QED
    BY <1>1, <1>2, <1>4, <2>1, <2>2, <2>3, <2>4
       DEF RunnerTyped, LeaseInv, Resuming, CommittedResumesWake, HandleInv, DisposedOnce
<1> QED
  BY <1>3, <1>4 DEF CommitDispatch

(* A Team is completed by a pass when no work is left. *)
LEMMA CompleteKeeps ==
    ASSUME RunnerInv, CommitComplete
    PROVE  RunnerInv'
<1> USE DEF RunnerInv
<1>1. /\ Turn("complete") /\ "complete" \in PassTx /\ queue' = Tail(queue) /\ Looped
      /\ "complete" \notin Repeatable
      /\ lifecycle' = (IF lifecycle = "running" /\ work = 0 THEN "completed" ELSE lifecycle)
      /\ UNCHANGED <<work, held, active, alive, sup, flags, cmds>>
  BY DEF CommitComplete, PassTx, VerdictTx, Repeatable
<1>2. /\ pass.at = "working" /\ QueueTyped(Tail(queue)) /\ Waiting(Tail(queue)) \subseteq Waiting(queue)
      /\ \A t \in Waiting(Tail(queue)) : t.tx \notin PassTx
      /\ \A t \in Waiting(queue) : t.tx \in {"quiesce", "mark"} => t \in Waiting(Tail(queue))
  BY <1>1, PassTurn, TurnFacts
<1>3. pass \in PassRecords /\ pass' \in PassRecords /\ pass'.at = "head"
  BY <1>1 DEF RunnerTyped, Looped, PassRecords
<1>4. WorkInv' /\ CommandInv' /\ DriveInv'
  BY <1>1, <1>2, <1>3 DEF WorkInv, CommandInv, DriveInv
<1>5. PassInv'
  BY <1>1, <1>2, <1>3 DEF PassInv, PassHasOperation
<1> QED
  BY <1>1, <1>2, <1>3, <1>4, <1>5
     DEF RunnerTyped, LeaseInv, Resuming, CommittedResumesWake, HandleInv, DisposedOnce, Terminal, Stopped

(* The verification a pass begins is that of the task at work, and its verdict frees the task. *)
LEMMA ChecksKeeps ==
    ASSUME RunnerInv, PassChecks \/ CommitBegin \/ CommitVerdict
    PROVE  RunnerInv'
<1> USE DEF RunnerInv
<1>1. CASE PassChecks
  <2>1. /\ pass.at = "checking" /\ pass' = [pass EXCEPT !.at = "working"]
        /\ UNCHANGED <<durable, alive, sup, flags, cmds>>
        /\ \E x \in VerdictTx : queue' = Append(queue, Tx(x, 0))
    BY <1>1 DEF PassChecks, VerdictTx
  <2>2. PICK x \in VerdictTx : queue' = Append(queue, Tx(x, 0))
    BY <2>1
  <2>3. /\ pass \in PassRecords /\ QueueTyped(queue) /\ active = "checking"
        /\ \A t \in Waiting(queue) : t.tx \notin PassTx
    BY <2>1 DEF RunnerTyped, PassInv, WorkInv
  <2>4. /\ Tx(x, 0) \in TxRecords /\ Tx(x, 0).tx = x /\ x \in PassTx
        /\ x \notin Asked \cup Repeatable \cup {"quiesce", "settle", "begin"}
    BY DEF Tx, TxRecords, HostTx, PassTx, VerdictTx, Asked, Repeatable
  <2>5. QueueTyped(queue') /\ Waiting(queue') = Waiting(queue) \cup {Tx(x, 0)}
    BY <2>2, <2>3, <2>4, QueueGrows
  <2>6. pass' \in PassRecords /\ pass'.at = "working"
    BY <2>1, <2>3 DEF PassRecords
  <2>7. PassInv'
    BY <2>1, <2>3, <2>4, <2>5, <2>6 DEF PassInv, PassHasOperation
  <2>8. CommandInv'
    BY <2>1, <2>4, <2>5 DEF CommandInv
  <2>9. WorkInv'
    BY <2>1, <2>3, <2>4, <2>5, <2>6 DEF WorkInv, durable
  <2> QED
    BY <2>1, <2>5, <2>6, <2>7, <2>8, <2>9
       DEF RunnerTyped, LeaseInv, Resuming, CommittedResumesWake, HandleInv, DisposedOnce, DriveInv, durable
<1>2. CASE CommitBegin \/ CommitVerdict
  <2>1. PICK x \in VerdictTx \cup {"begin"} :
          /\ Turn(x) /\ queue' = Tail(queue) /\ UNCHANGED <<held, alive, sup, flags, cmds>>
          /\ \/ /\ x = "begin" /\ active' = "checking" /\ pass' = [pass EXCEPT !.at = "checking"]
                /\ UNCHANGED <<lifecycle, work>>
             \/ /\ x # "begin" /\ active' = "none" /\ Looped /\ lifecycle' = TerminalControl(lifecycle)
                /\ work' \in {work, work - 1}
    BY <1>2 DEF CommitBegin, CommitVerdict, VerdictTx
  <2>2. x \in PassTx /\ x \notin Repeatable
    BY <2>1 DEF PassTx, VerdictTx, Repeatable
  <2>3. /\ pass.at = "working" /\ QueueTyped(Tail(queue)) /\ Waiting(Tail(queue)) \subseteq Waiting(queue)
        /\ \A t \in Waiting(Tail(queue)) : t.tx \notin PassTx
        /\ \A t \in Waiting(queue) : t.tx \in {"quiesce", "mark"} => t \in Waiting(Tail(queue))
    BY <2>1, <2>2, PassTurn, TurnFacts DEF PassTx, VerdictTx
  <2>4. active \in {"settled", "checking"} /\ held < work /\ alive = "none"
    BY <2>1, TurnFacts DEF WorkInv, VerdictTx
  <2>5. pass \in PassRecords /\ pass' \in PassRecords /\ pass'.at = (IF x = "begin" THEN "checking" ELSE "head")
    BY <2>1 DEF RunnerTyped, Looped, PassRecords
  <2>6. /\ lifecycle' \in Stopped \cup Inactive \cup {"running"}
        /\ (lifecycle \in Terminal => lifecycle' = lifecycle) /\ (lifecycle' = "running" => lifecycle = "running")
    BY <2>1 DEF TerminalControl, RunnerTyped, Stopped, Terminal, Inactive
  <2>7. WorkInv'
    <3>1. /\ work' \in 0 .. MaxWork /\ held' \in 0 .. work' /\ active' \in {"none", "checking"}
          /\ active' # "none" => held' < work'
      BY <2>1, <2>4, RunnerAssumption DEF WorkInv
    <3>2. pass'.at = "checking" => active' = "checking"
      BY <2>1, <2>5
    <3>3. \A t \in Waiting(queue') : t.tx # "begin" /\ t.tx \notin VerdictTx /\ t.tx # "settle"
      BY <2>1, <2>3, <2>4 DEF WorkInv, PassTx, VerdictTx
    <3> QED
      BY <2>1, <2>4, <3>1, <3>2, <3>3 DEF WorkInv
  <2>8. CommandInv' /\ DriveInv'
    BY <2>1, <2>3, <2>6 DEF CommandInv, DriveInv
  <2>9. PassInv'
    BY <2>1, <2>3, <2>5 DEF PassInv, PassHasOperation
  <2> QED
    BY <2>1, <2>3, <2>5, <2>6, <2>7, <2>8, <2>9
       DEF RunnerTyped, LeaseInv, Resuming, CommittedResumesWake, HandleInv, DisposedOnce
<1> QED
  BY <1>1, <1>2

(* A pass that yielded begins again, unless its controller is being released. *)
LEMMA YieldKeeps ==
    ASSUME RunnerInv, YieldEnds
    PROVE  RunnerInv'
<1> USE DEF RunnerInv
<1> DEFINE goes == ~flags.disposed /\ ~sup.releasing
<1>1. /\ sup.op = "yield" /\ UNCHANGED <<durable, alive, queue, flags, cmds>>
      /\ sup' = (IF goes THEN [sup EXCEPT !.op = "pass", !.pending = FALSE] ELSE Finished(sup))
      /\ pass' = (IF goes THEN FreshPass ELSE NoPass)
  BY DEF YieldEnds
<1>2. /\ sup \in SupRecords /\ flags \in FlagRecords /\ QueueTyped(queue) /\ pass.at = "none"
      /\ ~sup.aborted /\ sup.observers # {} /\ ~flags.cached
  BY <1>1, Pieces DEF RunnerTyped, PassInv, PassHasOperation, HandleInv
<1>3. /\ sup' \in SupRecords /\ sup'.bound = sup.bound /\ sup'.releasing = sup.releasing
      /\ sup'.disposal = sup.disposal /\ sup'.leases = sup.leases /\ ~sup'.aborted
      /\ sup'.op = (IF goes THEN "pass" ELSE "none") /\ (goes => sup'.observers # {})
  <2>1. CASE goes
    BY <1>1, <1>2, <2>1 DEF SupRecords
  <2>2. CASE ~goes
    BY <1>1, <1>2, <2>2, FinishedFacts
  <2> QED
    BY <2>1, <2>2
<1>4. PassHasOperation' /\ pass' \in PassRecords /\ pass'.at # "checking"
  BY <1>1, <1>3, Pieces DEF PassHasOperation
<1>5. DriveInv'
  <2>1. lifecycle = "running" /\ sup.bound /\ ~flags.closing => goes
    BY DEF HandleInv, Terminal
  <2> QED
    BY <1>1, <1>3, <2>1 DEF DriveInv, durable
<1>6. \A t \in Waiting(queue') : t \in Waiting(queue) /\ t.tx \notin PassTx
  BY <1>1, <1>2 DEF PassInv
<1> HIDE DEF goes
<1> QED
  BY <1>1, <1>2, <1>3, <1>4, <1>5, <1>6, PassMoves DEF HandleInv

(* The child of the attempt, and the transactions of the Host *)

(* A step that leaves the supervisor, its pass and the commands alone. *)
LEMMA JournalMoves ==
    ASSUME RunnerInv, UNCHANGED <<sup, pass, flags, cmds>>, QueueTyped(queue'),
           \A t \in Waiting(queue') : t \in Waiting(queue) \/ t.tx \in {"settle", "mark", "uncertain"},
           lifecycle' \in Stopped \cup Inactive \cup {"running"},
           lifecycle \in Terminal => lifecycle' \in Terminal,
           WorkInv', DriveInv'
    PROVE  RunnerInv'
<1> USE DEF RunnerInv
<1>1. PassInv'
  BY DEF PassInv, PassHasOperation, PassTx, VerdictTx
<1>2. CommandInv'
  BY DEF CommandInv, Asked
<1>3. Resuming' = Resuming
  BY DEF Resuming
<1>4. LeaseInv'
  BY <1>3 DEF LeaseInv, CommittedResumesWake
<1> QED
  BY <1>1, <1>2, <1>4 DEF RunnerTyped, HandleInv, DisposedOnce

(* An attempt that ends queues its settlement. *)
LEMMA AttemptKeeps ==
    ASSUME RunnerInv, AttemptEnds
    PROVE  RunnerInv'
<1> USE DEF RunnerInv
<1> DEFINE t == Tx("settle", 0)
<1>1. /\ alive = "running" /\ alive' = "ended" /\ queue' = Append(queue, t)
      /\ UNCHANGED <<durable, sup, pass, flags, cmds>>
  BY DEF AttemptEnds
<1>2. t \in TxRecords /\ t.tx = "settle" /\ t \notin Waiting(queue) /\ QueueTyped(queue)
  BY <1>1 DEF Tx, TxRecords, HostTx, WorkInv, RunnerTyped
<1> HIDE DEF t
<1>3. QueueTyped(queue') /\ Waiting(queue') = Waiting(queue) \cup {t}
  BY <1>1, <1>2, QueueGrows
<1>4. WorkInv'
  BY <1>1, <1>2, <1>3 DEF WorkInv, VerdictTx, durable
<1>5. DriveInv'
  BY <1>1, <1>3 DEF DriveInv, durable
<1> QED
  BY <1>1, <1>2, <1>3, <1>4, <1>5, JournalMoves DEF durable, RunnerTyped

(* A settlement accounts for one unit of work, done or held. *)
LEMMA SettleKeeps ==
    ASSUME RunnerInv, CommitSettle
    PROVE  RunnerInv'
<1> USE DEF RunnerInv
<1>1. /\ Turn("settle") /\ "settle" \notin Repeatable /\ queue' = Tail(queue)
      /\ alive' = "none" /\ UNCHANGED <<sup, pass, flags, cmds>>
      /\ lifecycle' = Settled(lifecycle, work', held')
      /\ \/ work' = work - 1 /\ held' = held /\ active' = "none"
         \/ active' = "settled" /\ work' = work /\ held' = held
         \/ held' = held + 1 /\ work' = work /\ active' = "none"
  BY DEF CommitSettle, Repeatable
<1>2. /\ QueueTyped(Tail(queue)) /\ Waiting(Tail(queue)) \subseteq Waiting(queue)
      /\ Head(queue) \in Waiting(queue) /\ Head(queue).tx = "settle"
      /\ Head(queue) \notin Waiting(Tail(queue)) /\ Waiting(queue) = Waiting(Tail(queue)) \cup {Head(queue)}
  BY <1>1, TurnFacts
<1>3. \A t \in Waiting(Tail(queue)) : t.tx # "settle"
  <2> SUFFICES ASSUME NEW t \in Waiting(Tail(queue)), t.tx = "settle" PROVE FALSE
    OBVIOUS
  <2>1. t \in TxRecords /\ Head(queue) \in TxRecords
    BY <1>1, <1>2, TurnFacts DEF RunnerTyped, QueueTyped, Waiting
  <2>2. t.tx = Head(queue).tx /\ t.by = Head(queue).by
    BY <1>2, <2>1 DEF TxRecords, HostTx
  <2>3. t = Head(queue)
    BY <2>1, <2>2 DEF TxRecords
  <2> QED
    BY <1>2, <2>3
<1>4. active = "running" /\ held < work /\ pass.at # "checking"
      /\ \A t \in Waiting(Tail(queue)) : t.tx # "begin" /\ t.tx \notin VerdictTx
  BY <1>2 DEF WorkInv
<1>5. WorkInv'
  <2>1. /\ work' \in 0 .. MaxWork /\ held' \in 0 .. work' /\ active' \in {"none", "settled"}
        /\ active' # "none" => held' < work'
    BY <1>1, <1>4, RunnerAssumption DEF WorkInv
  <2> QED
    BY <1>1, <1>3, <1>4, <2>1 DEF WorkInv
<1>6. /\ lifecycle' \in Stopped \cup Inactive \cup {"running"}
      /\ (lifecycle \in Terminal => lifecycle' = lifecycle)
      /\ (lifecycle' = "running" => lifecycle = "running")
  BY <1>1 DEF Settled, TerminalControl, RunnerTyped, Stopped, Terminal, Inactive
<1>7. DriveInv'
  BY <1>1, <1>2, <1>6 DEF DriveInv
<1> QED
  BY <1>1, <1>2, <1>5, <1>6, <1>7, JournalMoves

(* A mark hands the Team to reconciliation; it may be made twice. *)
LEMMA MarkKeeps ==
    ASSUME RunnerInv, CommitMark \/ CommitUncertain
    PROVE  RunnerInv'
<1> USE DEF RunnerInv
<1>1. PICK x \in Repeatable :
        /\ Turn(x) /\ queue' = Tail(queue) /\ UNCHANGED <<work, held, active, alive, sup, pass, flags, cmds>>
        /\ lifecycle' \in {lifecycle, "needs_reconciliation"}
        /\ (lifecycle' # lifecycle => lifecycle \in {"running", "cancelling"})
        /\ (x = "mark" => lifecycle' # "running")
  BY DEF CommitMark, CommitUncertain, Repeatable
<1>2. /\ QueueTyped(Tail(queue)) /\ Head(queue).tx = x
      /\ Waiting(queue) = Waiting(Tail(queue)) \cup {Head(queue)}
  BY <1>1, TurnFacts
<1>3. WorkInv'
  BY <1>1, <1>2 DEF WorkInv
<1>4. DriveInv'
  BY <1>1, <1>2 DEF DriveInv, Repeatable
<1> QED
  BY <1>1, <1>2, <1>3, <1>4, JournalMoves DEF RunnerTyped, Stopped, Terminal

(* The commands of users *)

(* A command that is sent waits for its turn. *)
LEMMA IssueFacts ==
    ASSUME RunnerInv, NEW kind, Issue(kind)
    PROVE  /\ kind \in Asked /\ QueueTyped(queue') /\ Waiting(queue') = Waiting(queue) \cup {Tx(kind, Len(cmds) + 1)}
           /\ Tx(kind, Len(cmds) + 1).tx = kind
           /\ cmds' \in Seq(CommandRecords) /\ Len(cmds') <= MaxCommands /\ CommandInv'
           /\ Len(cmds) + 1 \notin Resuming
           /\ Resuming' = IF kind = "resume" THEN Resuming \cup {Len(cmds) + 1} ELSE Resuming
           /\ \A c \in 1 .. Len(cmds') : cmds'[c].phase = "refused" =>
                 c \in 1 .. Len(cmds) /\ cmds[c].phase = "refused"
<1> USE DEF RunnerInv
<1> DEFINE n == Len(cmds) + 1
           t == Tx(kind, n)
           k == Sent(kind)
<1>1. /\ kind \in Asked /\ cmds' = Append(cmds, k) /\ queue' = Append(queue, t)
      /\ cmds \in Seq(CommandRecords) /\ Len(cmds) \in Nat /\ Len(cmds) < MaxCommands
  BY RunnerAssumption DEF Issue, MayAsk, RunnerTyped, Asked
<1>2. t.tx = kind /\ t.by = n /\ t \in TxRecords /\ k = [kind |-> kind, phase |-> "queued"]
      /\ k \in CommandRecords
  BY <1>1 DEF Tx, TxRecords, Sent, CommandRecords, Asked, HostTx, PassTx, VerdictTx, Repeatable
<1>3. t \notin Waiting(queue)
  BY <1>1, <1>2 DEF CommandInv
<1> HIDE DEF t, k
<1>4. QueueTyped(queue') /\ Waiting(queue') = Waiting(queue) \cup {t}
  BY <1>1, <1>2, <1>3, QueueGrows DEF RunnerTyped
<1>5. /\ cmds' \in Seq(CommandRecords) /\ Len(cmds') = n /\ cmds'[n] = k
      /\ \A c \in 1 .. Len(cmds) : cmds'[c] = cmds[c]
  BY <1>1, <1>2
<1>6. CommandInv'
  <2>1. \A u \in Waiting(queue) : u.by \in 1 .. Len(cmds) => u.by \in 1 .. n /\ cmds'[u.by] = cmds[u.by]
    BY <1>1, <1>5
  <2>2. t.tx = kind /\ t.by = n /\ cmds'[n] = [kind |-> kind, phase |-> "queued"] /\ n \in 1 .. n
        /\ kind # "quiesce"
    BY <1>1, <1>2, <1>5 DEF Asked
  <2> HIDE DEF n
  <2> QED
    BY <1>4, <1>5, <2>1, <2>2 DEF CommandInv
<1>7. n \notin Resuming /\ 1 .. n = 1 .. Len(cmds) \cup {n} /\ n \notin 1 .. Len(cmds)
  BY <1>1 DEF Resuming
<1>8. cmds'[n].kind = kind /\ cmds'[n].phase = "queued"
  BY <1>2, <1>5
<1> HIDE DEF n
<1>9. Resuming' = IF kind = "resume" THEN Resuming \cup {n} ELSE Resuming
  BY <1>5, <1>7, <1>8 DEF Resuming
<1>10. \A c \in 1 .. Len(cmds') : cmds'[c].phase = "refused" =>
         c \in 1 .. Len(cmds) /\ cmds[c].phase = "refused"
  BY <1>5, <1>7, <1>8
<1>11. n = Len(cmds) + 1 /\ t = Tx(kind, n)
  BY DEF n, t
<1>12. Len(cmds') <= MaxCommands
  BY <1>1, <1>5, <1>11, RunnerAssumption
<1> QED
  BY <1>1, <1>2, <1>4, <1>5, <1>6, <1>7, <1>9, <1>10, <1>11, <1>12

(* A command whose turn came moves on, and no other. *)
LEMMA AdvanceFacts ==
    ASSUME RunnerInv, NEW x \in Asked \cup {"quiesce"}, Turn(x),
           NEW phase \in {"waiting", "committed", "done", "refused"}, Advances(phase)
    PROVE  /\ x \notin Repeatable \cup PassTx
           /\ Caller \in 1 .. Len(cmds) /\ cmds[Caller].kind = (IF x = "quiesce" THEN "resume" ELSE x)
           /\ cmds[Caller].phase = (IF x = "quiesce" THEN "committed" ELSE "queued")
           /\ cmds' \in Seq(CommandRecords) /\ Len(cmds') = Len(cmds)
           /\ cmds'[Caller].kind = cmds[Caller].kind /\ cmds'[Caller].phase = phase
           /\ cmds'[Caller] = [kind |-> cmds[Caller].kind, phase |-> phase]
           /\ \A c \in 1 .. Len(cmds) : c # Caller => cmds'[c] = cmds[c]
           /\ \A t \in Waiting(Tail(queue)) : t.tx \in Asked \cup {"quiesce"} => t.by # Caller
<1> USE DEF RunnerInv
<1> DEFINE h == Head(queue)
           c == h.by
<1>1. /\ h \in TxRecords /\ h.tx = x /\ h \in Waiting(queue) /\ x \notin Repeatable \cup PassTx
      /\ h \notin Waiting(Tail(queue)) /\ Waiting(Tail(queue)) \subseteq Waiting(queue)
  BY TurnFacts DEF Repeatable, Asked, PassTx, VerdictTx
<1>2. c \in 1 .. Len(cmds) /\ (x \in Asked => cmds[c] = [kind |-> x, phase |-> "queued"])
      /\ (x = "quiesce" => cmds[c] = [kind |-> "resume", phase |-> "committed"])
  BY <1>1 DEF CommandInv
<1>3. x = "quiesce" <=> x \notin Asked
  BY DEF Asked
<1>4. cmds \in Seq(CommandRecords) /\ cmds' = [cmds EXCEPT ![c].phase = phase]
  BY DEF RunnerTyped, Advances, Caller
<1>5. [cmds[c] EXCEPT !.phase = phase] = [kind |-> cmds[c].kind, phase |-> phase]
      /\ [cmds[c] EXCEPT !.phase = phase] \in CommandRecords
  <2>1. cmds[c] \in CommandRecords
    BY <1>2, <1>4
  <2> QED
    BY <2>1 DEF CommandRecords
<1>6. cmds' = [cmds EXCEPT ![c] = [cmds[c] EXCEPT !.phase = phase]]
  BY <1>4
<1>7. /\ cmds' \in Seq(CommandRecords) /\ Len(cmds') = Len(cmds)
      /\ cmds'[c] = [kind |-> cmds[c].kind, phase |-> phase]
      /\ \A d \in 1 .. Len(cmds) : d # c => cmds'[d] = cmds[d]
  BY <1>2, <1>4, <1>5, <1>6, ExceptSeq
<1>8. ASSUME NEW t \in Waiting(Tail(queue)), t.tx \in Asked \cup {"quiesce"}, t.by = c PROVE FALSE
  <2>1. t \in Waiting(queue) /\ t \in TxRecords
    BY <1>1 DEF RunnerTyped, QueueTyped, Waiting
  <2>2. /\ (t.tx \in Asked => cmds[c] = [kind |-> t.tx, phase |-> "queued"])
        /\ (t.tx = "quiesce" => cmds[c] = [kind |-> "resume", phase |-> "committed"])
    BY <1>8, <2>1 DEF CommandInv
  <2>3. t.tx = h.tx
    BY <1>1, <1>2, <1>3, <1>8, <2>2 DEF Asked
  <2>4. t = h
    BY <1>1, <1>8, <2>1, <2>3 DEF TxRecords
  <2> QED
    BY <1>1, <2>4
<1> HIDE DEF h, c
<1>9. c = Caller
  BY DEF c, h, Caller
<1> QED
  BY <1>1, <1>2, <1>3, <1>7, <1>8, <1>9 DEF h

(* A command that interrupts or releases the runner, or only waits or ends. *)
LEMMA CutMoves ==
    ASSUME RunnerInv, UNCHANGED <<pass, flags, work, held, active, alive>>,
           lifecycle' \in Stopped \cup Inactive \cup {"running"},
           lifecycle \in Terminal => lifecycle' \in Terminal,
           QueueTyped(queue'),
           \A t \in Waiting(queue') : t \in Waiting(queue) \/ t.tx \in Asked \cup {"uncertain"},
           cmds' \in Seq(CommandRecords), Len(cmds') <= MaxCommands, CommandInv',
           Cardinality(Resuming') = Cardinality(Resuming),
           \A c \in 1 .. Len(cmds') : cmds'[c].phase = "refused" =>
             c \in 1 .. Len(cmds) /\ cmds[c].phase = "refused",
           Cut(sup, sup'), sup = Unbound => sup' = Unbound,
           sup'.releasing => sup.releasing \/ lifecycle' \in Terminal,
           sup'.disposal = "running" => sup'.bound /\ sup'.releasing,
           DriveInv'
    PROVE  RunnerInv'
<1> USE DEF RunnerInv, Cut
<1>1. sup' \in SupRecords
  BY DEF Cut
<1>2. WorkInv'
  BY DEF WorkInv, Asked, VerdictTx
<1>3. PassInv'
  BY DEF PassInv, PassHasOperation, PassTx, VerdictTx, Asked
<1>4. LeaseInv'
  BY DEF LeaseInv, CommittedResumesWake
<1>5. HandleInv'
  BY DEF HandleInv, DisposedOnce
<1> QED
  BY <1>1, <1>2, <1>3, <1>4, <1>5 DEF RunnerTyped

(* A pause or a cancellation is asked for. *)
LEMMA BeginKeeps ==
    ASSUME RunnerInv, NEW kind, BeginPause(kind) \/ BeginCancel(kind)
    PROVE  RunnerInv'
<1> USE DEF RunnerInv
<1>1. /\ kind \in {"pause", "pauseNow", "repeat", "cancel", "abort"} /\ Issue(kind)
      /\ UNCHANGED <<durable, alive, sup, pass, flags>>
  BY DEF BeginPause, BeginCancel
<1>2. /\ QueueTyped(queue') /\ Waiting(queue') = Waiting(queue) \cup {Tx(kind, Len(cmds) + 1)}
      /\ Tx(kind, Len(cmds) + 1).tx = kind /\ kind \in Asked
      /\ cmds' \in Seq(CommandRecords) /\ Len(cmds') <= MaxCommands /\ CommandInv' /\ Resuming' = Resuming
      /\ \A c \in 1 .. Len(cmds') : cmds'[c].phase = "refused" =>
            c \in 1 .. Len(cmds) /\ cmds[c].phase = "refused"
  BY <1>1, IssueFacts
<1>3. Cut(sup, sup') /\ sup' = sup
  BY <1>1 DEF Cut, RunnerTyped
<1>4. DriveInv'
  BY <1>1, <1>2 DEF DriveInv, durable
<1>5. sup'.disposal = "running" => sup'.bound /\ sup'.releasing
  BY <1>3 DEF HandleInv
<1> QED
  BY <1>1, <1>2, <1>3, <1>4, <1>5, CutMoves DEF RunnerTyped, durable

(* The command whose turn came goes on, and its transaction is gone. *)
LEMMA TurnEnds ==
    ASSUME RunnerInv, NEW x \in Asked, x # "resume", Turn(x),
           NEW phase \in {"waiting", "done"}, Advances(phase), queue' = Tail(queue)
    PROVE  /\ QueueTyped(queue') /\ \A t \in Waiting(queue') : t \in Waiting(queue)
           /\ cmds' \in Seq(CommandRecords) /\ Len(cmds') <= MaxCommands /\ CommandInv'
           /\ Resuming' = Resuming
           /\ \A c \in 1 .. Len(cmds') : cmds'[c].phase = "refused" =>
                 c \in 1 .. Len(cmds) /\ cmds[c].phase = "refused"
<1> USE DEF RunnerInv
<1>1. /\ Caller \in 1 .. Len(cmds) /\ cmds[Caller].kind = x
      /\ cmds' \in Seq(CommandRecords) /\ Len(cmds') = Len(cmds)
      /\ cmds'[Caller].kind = x /\ cmds'[Caller].phase = phase
      /\ \A c \in 1 .. Len(cmds) : c # Caller => cmds'[c] = cmds[c]
      /\ \A t \in Waiting(Tail(queue)) : t.tx \in Asked \cup {"quiesce"} => t.by # Caller
  BY AdvanceFacts DEF Asked
<1>2. QueueTyped(queue') /\ \A t \in Waiting(queue') : t \in Waiting(queue)
  BY TurnFacts
<1>3. CommandInv'
  BY <1>1, <1>2 DEF CommandInv
<1>4. Resuming' = Resuming
  BY <1>1 DEF Resuming
<1> QED
  BY <1>1, <1>2, <1>3, <1>4 DEF RunnerTyped

(* A pause is committed: the Team is paused, or pausing until its attempt has ended.  A repeated
   one leaves it as it is, and may cut off the pass of a running Team. *)
LEMMA PauseKeeps ==
    ASSUME RunnerInv, CommitPause
    PROVE  RunnerInv'
<1> USE DEF RunnerInv
<1>1. PICK x \in {"pause", "pauseNow", "repeat"} : Turn(x)
  BY DEF CommitPause
<1> DEFINE c == lifecycle' = "running" /\ sup.op = "pass"
           u == Interrupted(sup)
           i == IF c THEN [u EXCEPT !.cut = TRUE] ELSE u
<1>2. /\ Advances("done") /\ queue' = Tail(queue)
      /\ UNCHANGED <<work, held, active, alive, pass, flags>>
      /\ lifecycle' \in {lifecycle, "paused", "pausing"} /\ (lifecycle \in Terminal => lifecycle' = lifecycle)
      /\ (lifecycle' = "running" => lifecycle = "running" /\ sup' = i) /\ sup' \in {sup, i}
  <2> HIDE DEF c, u, i
  <2>1. sup' = sup \/ sup' = i
    BY DEF CommitPause, c, u, i
  <2>2. lifecycle' = "running" => lifecycle = "running" /\ sup' = i
    BY <1>1 DEF CommitPause, Turn, c, u, i
  <2> QED
    BY <2>1, <2>2 DEF CommitPause, Terminal
<1>3. /\ QueueTyped(queue') /\ \A t \in Waiting(queue') : t \in Waiting(queue)
      /\ cmds' \in Seq(CommandRecords) /\ Len(cmds') <= MaxCommands /\ CommandInv'
      /\ Resuming' = Resuming
      /\ \A d \in 1 .. Len(cmds') : cmds'[d].phase = "refused" =>
            d \in 1 .. Len(cmds) /\ cmds[d].phase = "refused"
  BY <1>1, <1>2, TurnEnds DEF Asked
<1>4. sup \in SupRecords /\ (sup.op # "pass" => ~sup.aborted)
  BY DEF RunnerTyped, PassInv
<1>5. /\ Cut(sup, u) /\ (sup = Unbound => u = Unbound)
      /\ u.releasing = sup.releasing /\ u.disposal = sup.disposal /\ u.cut = sup.cut
  BY <1>4, InterruptedFacts
<1> HIDE DEF u
<1>6. /\ Cut(sup, i) /\ i.releasing = sup.releasing /\ i.disposal = sup.disposal
      /\ (i.cut <=> c \/ sup.cut)
  <2>1. u \in SupRecords /\ sup.cut \in BOOLEAN
    BY <1>4, <1>5 DEF Cut, SupRecords
  <2>2. CASE ~c
    BY <1>5, <2>1, <2>2
  <2>3. CASE c
    <3>1. i = [u EXCEPT !.cut = TRUE]
      BY <2>3
    <3> HIDE DEF i
    <3> QED
      BY <1>5, <2>1, <2>3, <3>1 DEF Cut, SupRecords
  <2> QED
    BY <2>2, <2>3
<1>7. sup = Unbound => i = Unbound
  BY <1>5, Pieces
<1> HIDE DEF i, c
<1>8. /\ Cut(sup, sup') /\ (sup = Unbound => sup' = Unbound) /\ sup'.releasing = sup.releasing
      /\ sup'.disposal = sup.disposal
  <2>1. CASE sup' = sup
    BY <1>4, <2>1 DEF Cut
  <2> QED
    BY <1>2, <1>5, <1>6, <1>7, <2>1
<1>9. DriveInv'
  <2> SUFFICES ASSUME lifecycle' = "running", sup'.bound, ~flags'.closing
               PROVE  \/ sup'.op # "none" /\ (sup'.aborted => sup'.pending)
                      \/ \E t \in Waiting(queue') : t.tx \in {"quiesce", "mark"}
                      \/ sup'.cut
    BY DEF DriveInv
  <2>1. /\ sup' = i /\ lifecycle = "running" /\ sup.bound /\ ~flags.closing
        /\ sup'.op = sup.op /\ (sup.op # "pass" => ~sup'.aborted)
        /\ (sup'.cut <=> sup.op = "pass" \/ sup.cut)
    BY <1>2, <1>4, <1>6, <1>8 DEF Cut, c
  <2>2. CASE sup.op = "none"
    <3>1. sup.cut \/ \E t \in Waiting(queue) : t.tx \in {"quiesce", "mark"}
      BY <2>1, <2>2 DEF DriveInv
    <3>2. Head(queue).tx = x /\ Waiting(queue) = Waiting(Tail(queue)) \cup {Head(queue)}
      BY <1>1, TurnFacts
    <3> QED
      BY <1>1, <1>2, <2>1, <3>1, <3>2
  <2>3. sup.op \in {"none", "pass", "yield"}
    BY <1>4 DEF SupRecords
  <2> QED
    BY <2>1, <2>2, <2>3
<1>10. sup'.disposal = "running" => sup'.bound /\ sup'.releasing
  BY <1>8 DEF HandleInv, Cut
<1>11. lifecycle' \in Stopped \cup Inactive \cup {"running"}
  BY <1>2 DEF RunnerTyped, Stopped, Terminal, Inactive
<1> QED
  BY <1>2, <1>3, <1>8, <1>9, <1>10, <1>11, CutMoves

(* A cancellation is committed, and waits for its attempt. *)
LEMMA CancelKeeps ==
    ASSUME RunnerInv, CommitCancel
    PROVE  RunnerInv'
<1> USE DEF RunnerInv
<1>1. PICK x \in {"cancel", "abort"} : Turn(x)
  BY DEF CommitCancel
<1>2. /\ \E phase \in {"waiting", "done"} : Advances(phase)
      /\ queue' = Tail(queue) /\ UNCHANGED <<work, held, active, alive, pass, flags>>
      /\ lifecycle' \in {lifecycle, "cancelled", "cancelling"}
      /\ (lifecycle \in Terminal => lifecycle' = lifecycle) /\ (lifecycle' = "running" => sup' = sup /\ lifecycle = "running")
      /\ \/ sup' = sup
         \/ sup' = Interrupted(sup)
         \/ sup' = ReleasedController(sup) /\ lifecycle' = "cancelled"
  BY DEF CommitCancel, Terminal
<1>3. /\ QueueTyped(queue') /\ \A t \in Waiting(queue') : t \in Waiting(queue)
      /\ cmds' \in Seq(CommandRecords) /\ Len(cmds') <= MaxCommands /\ CommandInv'
      /\ Resuming' = Resuming
      /\ \A c \in 1 .. Len(cmds') : cmds'[c].phase = "refused" =>
            c \in 1 .. Len(cmds) /\ cmds[c].phase = "refused"
  BY <1>1, <1>2, TurnEnds DEF Asked
<1>4. sup \in SupRecords /\ (sup.disposal = "running" => sup.bound /\ sup.releasing)
  BY DEF RunnerTyped, HandleInv
<1>5. /\ Cut(sup, sup') /\ (sup = Unbound => sup' = Unbound)
      /\ (sup'.releasing => sup.releasing \/ lifecycle' \in Terminal)
      /\ (sup'.disposal = "running" => sup'.bound /\ sup'.releasing)
  <2>1. CASE sup' = sup
    BY <1>4, <2>1 DEF Cut
  <2>2. CASE sup' = Interrupted(sup)
    BY <1>4, <2>2, InterruptedFacts DEF Cut
  <2>3. CASE sup' = ReleasedController(sup) /\ lifecycle' = "cancelled"
    BY <1>4, <2>3, ReleasedFacts, Pieces DEF Cut, Terminal
  <2> QED
    BY <1>2, <2>1, <2>2, <2>3
<1>6. DriveInv'
  <2> SUFFICES ASSUME lifecycle' = "running", sup.bound, ~flags.closing
               PROVE  \/ sup.op # "none" /\ (sup.aborted => sup.pending)
                      \/ \E t \in Waiting(queue') : t.tx \in {"quiesce", "mark"}
                      \/ sup.cut
    BY <1>2 DEF DriveInv
  <2>1. \/ sup.op # "none" /\ (sup.aborted => sup.pending)
        \/ \E t \in Waiting(queue) : t.tx \in {"quiesce", "mark"}
        \/ sup.cut
    BY <1>2 DEF DriveInv
  <2>2. Head(queue).tx = x /\ Waiting(queue) = Waiting(Tail(queue)) \cup {Head(queue)}
    BY <1>1, TurnFacts
  <2> QED
    BY <1>1, <1>2, <2>1, <2>2
<1>7. lifecycle' \in Stopped \cup Inactive \cup {"running"}
  BY <1>2 DEF RunnerTyped, Stopped, Terminal, Inactive
<1> QED
  BY <1>2, <1>3, <1>5, <1>6, <1>7, CutMoves

(* A cancellation that returns releases the controller of a cancelled Team. *)
LEMMA ReturnKeeps ==
    ASSUME RunnerInv, NEW c \in 1 .. Len(cmds), CancelReturns(c)
    PROVE  RunnerInv'
<1> USE DEF RunnerInv
<1> DEFINE t == Tx("uncertain", 0)
<1>1. /\ cmds[c].kind = "cancel" /\ cmds[c].phase = "waiting"
      /\ cmds' = [cmds EXCEPT ![c].phase = "done"] /\ UNCHANGED <<durable, alive, pass, flags>>
      /\ \/ sup' = sup
         \/ sup' = ReleasedController(sup) /\ lifecycle = "cancelled"
      /\ queue' \in {queue, Append(queue, t)}
  BY DEF CancelReturns
<1>2. t \in TxRecords /\ t.tx = "uncertain"
  BY DEF Tx, TxRecords, HostTx, Repeatable
<1> HIDE DEF t
<1>3. /\ QueueTyped(queue') /\ Waiting(queue) \subseteq Waiting(queue')
      /\ \A u \in Waiting(queue') : u \in Waiting(queue) \/ u.tx = "uncertain"
  <2>1. CASE queue' = queue
    BY <2>1 DEF RunnerTyped
  <2>2. CASE queue' = Append(queue, t)
    BY <1>2, <2>2, QueueGrows DEF RunnerTyped, Repeatable
  <2> QED
    BY <1>1, <2>1, <2>2
<1>4. /\ cmds' \in Seq(CommandRecords) /\ Len(cmds') = Len(cmds)
      /\ cmds'[c].kind = "cancel" /\ cmds'[c].phase = "done"
      /\ \A d \in 1 .. Len(cmds) : d # c => cmds'[d] = cmds[d]
  <2>1. cmds \in Seq(CommandRecords) /\ cmds[c] \in CommandRecords
    BY DEF RunnerTyped
  <2>2. /\ [cmds[c] EXCEPT !.phase = "done"] \in CommandRecords
        /\ [cmds[c] EXCEPT !.phase = "done"].kind = "cancel"
        /\ [cmds[c] EXCEPT !.phase = "done"].phase = "done"
    BY <1>1, <2>1 DEF CommandRecords
  <2>3. cmds' = [cmds EXCEPT ![c] = [cmds[c] EXCEPT !.phase = "done"]]
    BY <1>1
  <2> QED
    BY <2>1, <2>2, <2>3, ExceptSeq
<1>5. CommandInv'
  <2>1. ASSUME NEW u \in Waiting(queue), u.tx \in Asked \cup {"quiesce"}
        PROVE  u.by \in 1 .. Len(cmds) /\ u.by # c
    <3>1. CASE u.tx \in Asked
      <4>1. u.by \in 1 .. Len(cmds) /\ cmds[u.by] = [kind |-> u.tx, phase |-> "queued"]
        BY <3>1 DEF CommandInv
      <4>2. cmds[u.by].phase = "queued"
        BY <4>1
      <4> QED
        BY <1>1, <4>1, <4>2
    <3>2. CASE u.tx = "quiesce"
      <4>1. u.by \in 1 .. Len(cmds) /\ cmds[u.by] = [kind |-> "resume", phase |-> "committed"]
        BY <3>2 DEF CommandInv
      <4>2. cmds[u.by].phase = "committed"
        BY <4>1
      <4> QED
        BY <1>1, <4>1, <4>2
    <3> QED
      BY <2>1, <3>1, <3>2
  <2>2. \A u \in Waiting(queue') : u.tx \in Asked \cup {"quiesce"} =>
          u \in Waiting(queue) /\ u.by \in 1 .. Len(cmds) /\ cmds'[u.by] = cmds[u.by]
    BY <1>3, <1>4, <2>1 DEF Asked
  <2> QED
    BY <1>4, <2>2 DEF CommandInv
<1>6. Resuming' = Resuming
  BY <1>1, <1>4 DEF Resuming
<1>7. sup \in SupRecords /\ (sup.disposal = "running" => sup.bound /\ sup.releasing)
  BY DEF RunnerTyped, HandleInv
<1>8. /\ Cut(sup, sup') /\ (sup = Unbound => sup' = Unbound)
      /\ (sup'.releasing => sup.releasing \/ lifecycle \in Terminal)
      /\ (sup'.disposal = "running" => sup'.bound /\ sup'.releasing)
  <2>1. CASE sup' = sup
    BY <1>7, <2>1 DEF Cut
  <2>2. CASE sup' = ReleasedController(sup) /\ lifecycle = "cancelled"
    BY <1>7, <2>2, ReleasedFacts, Pieces DEF Cut, Terminal
  <2> QED
    BY <1>1, <2>1, <2>2
<1>9. DriveInv'
  BY <1>1, <1>3 DEF DriveInv, durable
<1>10. \A d \in 1 .. Len(cmds') : cmds'[d].phase = "refused" =>
         d \in 1 .. Len(cmds) /\ cmds[d].phase = "refused"
  BY <1>4
<1> QED
  BY <1>1, <1>3, <1>4, <1>5, <1>6, <1>8, <1>9, <1>10, CutMoves DEF durable, RunnerTyped

(* Resumes and the leases they hold *)

(* The commands that hold the controller open are finitely many. *)
LEMMA ResumingIsFinite ==
    ASSUME cmds \in Seq(CommandRecords)
    PROVE  /\ IsFiniteSet(Resuming) /\ Cardinality(Resuming) \in 0 .. Len(cmds)
<1>1. Len(cmds) \in Nat /\ Resuming \subseteq 1 .. Len(cmds)
  BY DEF Resuming
<1> DEFINE n == Len(cmds)
<1> HIDE DEF n
<1>2. n \in Nat /\ IsFiniteSet(1 .. n) /\ Cardinality(1 .. n) = n
  BY <1>1, FS_Interval, SMTT(20) DEF n
<1>3. IsFiniteSet(Resuming) /\ Cardinality(Resuming) <= n
  BY <1>1, <1>2, FS_Subset DEF n
<1>4. Cardinality(Resuming) \in Nat
  BY <1>3, FS_CardinalityType
<1> QED
  BY <1>2, <1>3, <1>4 DEF n

(* A resume holds the controller open from before its commit, restoring it if it was gone. *)
LEMMA BeginResumeKeeps ==
    ASSUME RunnerInv, BeginResume
    PROVE  RunnerInv'
<1> USE DEF RunnerInv
<1> DEFINE restores == lifecycle = "paused" /\ ~CanWake
           s == IF restores THEN RestoredSup ELSE sup
           n == Len(cmds) + 1
<1>1. /\ lifecycle \in {"paused", "pausing"} /\ Issue("resume") /\ (restores => Restorable)
      /\ Leasable(s, flags') /\ sup' = Leased(s)
      /\ flags' = (IF restores THEN TakenFromCache ELSE flags)
      /\ held' \in {0, held} /\ UNCHANGED <<lifecycle, work, active, alive, pass>>
  BY DEF BeginResume
<1>2. /\ QueueTyped(queue') /\ Waiting(queue') = Waiting(queue) \cup {Tx("resume", n)}
      /\ Tx("resume", n).tx = "resume"
      /\ cmds' \in Seq(CommandRecords) /\ Len(cmds') <= MaxCommands /\ CommandInv'
      /\ n \notin Resuming /\ Resuming' = Resuming \cup {n}
      /\ \A c \in 1 .. Len(cmds') : cmds'[c].phase = "refused" =>
            c \in 1 .. Len(cmds) /\ cmds[c].phase = "refused"
  BY <1>1, IssueFacts
<1>3. /\ sup \in SupRecords /\ flags \in FlagRecords /\ sup.leases = Cardinality(Resuming)
      /\ cmds \in Seq(CommandRecords)
  BY DEF RunnerTyped, LeaseInv
<1>4. (restores => sup = Unbound /\ ~flags.disposed /\ flags.disposals = 0) /\ (~restores => flags' = flags)
  BY <1>1 DEF Restorable, HandleInv
<1>5. /\ s \in SupRecords /\ s.op = sup.op /\ s.leases = sup.leases /\ s.aborted = sup.aborted
      /\ s.bound /\ ~s.releasing /\ ~flags'.disposed /\ ~flags'.closing
      /\ (s.disposal = "running" => s.bound /\ s.releasing)
      /\ (s.op # "none" => s.observers # {})
  <2>1. s.bound /\ ~s.releasing /\ ~flags'.disposed /\ ~flags'.closing
    BY <1>1 DEF Leasable, CanWakeIn
  <2>2. CASE restores
    <3>1. s = RestoredSup /\ sup = Unbound
      BY <1>4, <2>2
    <3>2. Unbound.aborted = FALSE /\ RestoredSup.aborted = FALSE
      BY DEF Unbound, RestoredSup
    <3> HIDE DEF s, restores
    <3> QED
      BY <2>1, <3>1, <3>2, Pieces
  <2>3. CASE ~restores
    BY <1>3, <2>1, <2>3 DEF HandleInv, PassInv
  <2> QED
    BY <2>2, <2>3
<1>6. /\ flags' \in FlagRecords /\ flags'.disposals = 0 /\ ~flags'.cached
  <2>1. CASE restores
    BY <1>1, <1>3, <1>4, <2>1 DEF TakenFromCache, FlagRecords
  <2>2. CASE ~restores
    BY <1>1, <1>3, <1>5, <2>2, Pieces DEF HandleInv
  <2> QED
    BY <2>1, <2>2
<1> HIDE DEF restores, s, n
<1>7. /\ sup' \in SupRecords /\ sup'.op = sup.op /\ sup'.leases = sup.leases + 1
      /\ sup'.bound /\ ~sup'.releasing /\ sup'.aborted = sup.aborted /\ sup'.disposal = s.disposal
      /\ sup'.observers = s.observers
  BY <1>1, <1>5 DEF Leased, SupRecords
<1>8. Cardinality(Resuming') = Cardinality(Resuming) + 1
  BY <1>2, <1>3, ResumingIsFinite, FS_AddElement
<1>9. LeaseInv'
  BY <1>1, <1>2, <1>3, <1>5, <1>7, <1>8 DEF LeaseInv, CommittedResumesWake, Terminal
<1>10. WorkInv'
  BY <1>1, <1>2 DEF WorkInv, Asked, VerdictTx
<1>11. PassInv'
  BY <1>1, <1>2, <1>5, <1>7 DEF PassInv, PassHasOperation, PassTx, VerdictTx
<1>12. HandleInv'
  BY <1>5, <1>6, <1>7 DEF HandleInv, DisposedOnce
<1>13. DriveInv'
  BY <1>1 DEF DriveInv
<1> QED
  BY <1>1, <1>2, <1>6, <1>7, <1>9, <1>10, <1>11, <1>12, <1>13 DEF RunnerTyped

(* A resume whose turn came holds a lease. *)
LEMMA ResumeTurn ==
    ASSUME RunnerInv, NEW x \in {"resume", "quiesce"}, Turn(x)
    PROVE  /\ Caller \in Resuming /\ sup.leases > 0 /\ ~flags.cached
           /\ IsFiniteSet(Resuming) /\ sup.leases = Cardinality(Resuming)
           /\ Cardinality(Resuming \ {Caller}) = sup.leases - 1 /\ sup.leases \in Int
<1> USE DEF RunnerInv
<1>1. Head(queue) \in Waiting(queue) /\ Head(queue).tx = x
  BY TurnFacts
<1>2. Caller \in Resuming
  <2> DEFINE c == Head(queue).by
  <2> HIDE DEF c
  <2>1. c \in 1 .. Len(cmds) /\ \E phase \in {"queued", "committed"} : cmds[c] = [kind |-> "resume", phase |-> phase]
    BY <1>1 DEF CommandInv, Asked, c
  <2>2. cmds[c].kind = "resume" /\ cmds[c].phase \in {"queued", "committed"}
    BY <2>1
  <2> QED
    BY <2>1, <2>2 DEF Resuming, Caller, c
<1>3. IsFiniteSet(Resuming) /\ Cardinality(Resuming) \in Nat
  BY ResumingIsFinite DEF RunnerTyped
<1>4. Cardinality(Resuming \ {Caller}) = Cardinality(Resuming) - 1
  BY <1>2, <1>3, FS_RemoveElement
<1>5. Cardinality(Resuming) # 0
  BY <1>2, <1>3, FS_EmptySet
<1>6. sup.leases = Cardinality(Resuming)
  BY DEF LeaseInv
<1> QED
  BY <1>2, <1>3, <1>4, <1>5, <1>6, Pieces DEF HandleInv

(* A committed resume queues the question whether there is work; a refused one lets go. *)
LEMMA ResumeKeeps ==
    ASSUME RunnerInv, CommitResume
    PROVE  RunnerInv'
<1> USE DEF RunnerInv
<1> DEFINE t == Tx("quiesce", Caller)
           runs == lifecycle \in {"paused", "pausing"} /\ ~(work = 0 /\ active = "none")
<1>1. /\ Turn("resume") /\ Advances(IF runs THEN "committed" ELSE "done")
      /\ queue' = (IF runs THEN Append(Tail(queue), t) ELSE Tail(queue))
      /\ sup' = (IF runs THEN sup ELSE Unleased(sup))
      /\ UNCHANGED <<work, held, active, alive, pass, flags>>
      /\ lifecycle' \in {lifecycle, "completed", "running"}
      /\ (lifecycle \in Terminal => lifecycle' \in Terminal)
      /\ (runs => lifecycle' = "running")
      /\ (~runs => lifecycle' # "running" \/ lifecycle = "running")
  BY DEF CommitResume, Terminal
<1>2. PICK phase \in {"committed", "done"} :
        Advances(phase) /\ phase = (IF runs THEN "committed" ELSE "done")
  BY <1>1
<1> HIDE DEF runs
<1>3. /\ Caller \in 1 .. Len(cmds) /\ cmds[Caller].kind = "resume"
      /\ cmds[Caller].phase = "queued"
      /\ cmds' \in Seq(CommandRecords) /\ Len(cmds') = Len(cmds)
      /\ cmds'[Caller].kind = "resume" /\ cmds'[Caller].phase = phase
      /\ cmds'[Caller] = [kind |-> "resume", phase |-> phase]
      /\ \A c \in 1 .. Len(cmds) : c # Caller => cmds'[c] = cmds[c]
      /\ \A u \in Waiting(Tail(queue)) : u.tx \in Asked \cup {"quiesce"} => u.by # Caller
  BY <1>1, <1>2, AdvanceFacts DEF Asked
<1>4. /\ QueueTyped(Tail(queue)) /\ Waiting(queue) = Waiting(Tail(queue)) \cup {Head(queue)}
      /\ Head(queue).tx = "resume" /\ Caller \in Nat
  <2>1. Len(cmds) \in Nat
    BY DEF RunnerTyped
  <2> QED
    BY <1>1, <1>3, <2>1, TurnFacts
<1>5. t \in TxRecords /\ t.tx = "quiesce" /\ t.by = Caller /\ t \notin Waiting(Tail(queue))
  BY <1>3, <1>4 DEF Tx, TxRecords, HostTx, PassTx, VerdictTx, Repeatable
<1> HIDE DEF t
<1>6. /\ QueueTyped(queue') /\ Waiting(queue') = (IF runs THEN Waiting(Tail(queue)) \cup {t} ELSE Waiting(Tail(queue)))
  BY <1>1, <1>4, <1>5, QueueGrows
<1>7. CommandInv'
  <2>1. ASSUME NEW u \in Waiting(Tail(queue)), u.tx \in Asked \cup {"quiesce"}
        PROVE  u.by \in 1 .. Len(cmds') /\ cmds'[u.by] = cmds[u.by] /\ u \in Waiting(queue)
    BY <1>3, <1>4, <2>1 DEF CommandInv
  <2>2. runs => t.by \in 1 .. Len(cmds') /\ cmds'[t.by] = [kind |-> "resume", phase |-> "committed"]
    BY <1>2, <1>3, <1>5
  <2> QED
    BY <1>5, <1>6, <2>1, <2>2 DEF CommandInv, Asked
<1>8. Resuming' = IF runs THEN Resuming ELSE Resuming \ {Caller}
  BY <1>2, <1>3 DEF Resuming
<1>9. /\ Caller \in Resuming /\ sup.leases > 0 /\ ~flags.cached /\ sup.leases \in Int
      /\ sup.leases = Cardinality(Resuming) /\ Cardinality(Resuming \ {Caller}) = sup.leases - 1
  BY <1>1, ResumeTurn
<1>10. /\ sup' \in SupRecords /\ sup'.op = sup.op /\ sup'.bound = sup.bound
       /\ sup'.releasing = sup.releasing /\ sup'.disposal = sup.disposal /\ sup'.aborted = sup.aborted
       /\ sup'.pending = sup.pending /\ sup'.observers = sup.observers /\ sup'.cut = sup.cut
       /\ sup'.leases = IF runs THEN sup.leases ELSE sup.leases - 1
  BY <1>1 DEF RunnerTyped, Unleased, SupRecords
<1>11. \A c \in 1 .. Len(cmds') : cmds'[c].phase = "refused" => cmds[c].phase = "refused"
  BY <1>2, <1>3
<1>12. LeaseInv'
  BY <1>1, <1>3, <1>8, <1>9, <1>10, <1>11 DEF LeaseInv, CommittedResumesWake, runs, Terminal
<1>13. WorkInv'
  BY <1>1, <1>4, <1>5, <1>6 DEF WorkInv, VerdictTx
<1>14. PassInv'
  BY <1>1, <1>4, <1>5, <1>6, <1>10 DEF PassInv, PassHasOperation, PassTx, VerdictTx
<1>15. HandleInv'
  BY <1>1, <1>9, <1>10 DEF HandleInv, DisposedOnce
<1>16. DriveInv'
  <2>1. CASE runs
    BY <1>5, <1>6, <2>1 DEF DriveInv
  <2>2. CASE ~runs
    BY <1>1, <1>4, <1>6, <1>10, <2>2 DEF DriveInv
  <2> QED
    BY <2>1, <2>2
<1> QED
  BY <1>1, <1>3, <1>6, <1>7, <1>10, <1>12, <1>13, <1>14, <1>15, <1>16 DEF RunnerTyped, Stopped, Terminal

(* The answer completes the Team, pauses it or wakes the runner, and lets the controller go. *)
LEMMA QuiesceKeeps ==
    ASSUME RunnerInv, CommitQuiesce
    PROVE  RunnerInv'
<1> USE DEF RunnerInv
<1> DEFINE done == lifecycle = "running" /\ active = "none" /\ work = held
           wakes == ~done /\ Wakeable(sup)
           w == IF wakes THEN Woken(sup) ELSE sup
<1>1. /\ Turn("quiesce") /\ queue' = Tail(queue) /\ sup' = Unleased(w)
      /\ pass' = (IF wakes THEN PassWoken(sup, pass) ELSE pass)
      /\ Advances(IF done \/ Wakeable(sup) THEN "done" ELSE "refused")
      /\ UNCHANGED <<work, held, active, alive, flags>>
      /\ lifecycle' \in Stopped \cup Inactive \cup {"running"}
      /\ (lifecycle \in Terminal => lifecycle' \in Terminal)
      /\ (lifecycle' = "running" => ~done /\ lifecycle = "running")
  BY DEF CommitQuiesce, RunnerTyped, Stopped, Terminal
<1>2. PICK phase \in {"done", "refused"} :
        Advances(phase) /\ phase = (IF done \/ Wakeable(sup) THEN "done" ELSE "refused")
  BY <1>1
<1>3. /\ Caller \in Resuming /\ sup.leases > 0 /\ ~flags.cached /\ sup.leases \in Int
      /\ sup.leases = Cardinality(Resuming) /\ Cardinality(Resuming \ {Caller}) = sup.leases - 1
  BY <1>1, ResumeTurn
<1>4. ~Wakeable(sup) => lifecycle \in Terminal
  BY <1>3 DEF LeaseInv, Wakeable
<1>5. lifecycle \in Terminal => ~done
  BY DEF Terminal
<1>6. /\ sup \in SupRecords /\ pass \in PassRecords
      /\ (sup.op # "none" => sup.observers # {}) /\ (sup.op # "pass" => ~sup.aborted)
  BY DEF RunnerTyped, PassInv
<1>7. /\ w \in SupRecords /\ w.bound = sup.bound /\ w.releasing = sup.releasing
      /\ w.disposal = sup.disposal /\ w.leases = sup.leases /\ (w.op # "none" => w.observers # {})
      /\ (wakes => w.op # "none" /\ (w.aborted => w.pending))
      /\ (sup.op # "none" => w.op = sup.op /\ w.aborted = sup.aborted)
      /\ (wakes /\ sup.op = "none" => w.op = "pass")
      /\ (~wakes => w = sup)
  BY <1>6, WokenFacts
<1>8. /\ pass' \in PassRecords /\ (sup.op # "none" => pass' = pass) /\ (~wakes => pass' = pass)
      /\ (wakes /\ sup.op = "none" => pass'.at = "head")
  BY <1>1, <1>6, Pieces DEF PassWoken
<1>9. sup.op = "none" /\ wakes => ~w.aborted \/ w.op = "pass"
  BY <1>7
<1> HIDE DEF w
<1>10. /\ sup' \in SupRecords /\ sup'.op = w.op /\ sup'.bound = sup.bound
       /\ sup'.releasing = sup.releasing /\ sup'.disposal = sup.disposal /\ sup'.aborted = w.aborted
       /\ sup'.pending = w.pending /\ sup'.observers = w.observers
       /\ sup'.leases = sup.leases - 1
  BY <1>1, <1>7 DEF Unleased, SupRecords
<1>11. /\ cmds' \in Seq(CommandRecords) /\ Len(cmds') = Len(cmds)
       /\ cmds'[Caller].phase = phase
       /\ \A c \in 1 .. Len(cmds) : c # Caller => cmds'[c] = cmds[c]
       /\ \A u \in Waiting(Tail(queue)) : u.tx \in Asked \cup {"quiesce"} => u.by # Caller
  BY <1>1, <1>2, AdvanceFacts DEF Asked
<1>12. /\ QueueTyped(Tail(queue)) /\ Waiting(queue) = Waiting(Tail(queue)) \cup {Head(queue)}
       /\ Head(queue).tx = "quiesce"
  BY <1>1, TurnFacts
<1>13. CommandInv'
  BY <1>1, <1>11, <1>12 DEF CommandInv
<1>14. Resuming' = Resuming \ {Caller}
  BY <1>2, <1>11 DEF Resuming
<1>15. LeaseInv'
  <2>1. \A c \in 1 .. Len(cmds') : cmds'[c].phase = "refused" => lifecycle \in Terminal
    BY <1>2, <1>4, <1>11 DEF LeaseInv, CommittedResumesWake
  <2> HIDE DEF done, wakes
  <2> QED
    BY <1>1, <1>3, <1>10, <1>14, <2>1 DEF LeaseInv, CommittedResumesWake
<1>16. WorkInv'
  BY <1>1, <1>8, <1>12 DEF WorkInv
<1>17. PassInv'
  <2> HIDE DEF done, wakes
  <2>1. CASE ~wakes
    BY <1>1, <1>7, <1>8, <1>10, <1>12, <2>1 DEF PassInv, PassHasOperation
  <2>2. CASE wakes /\ sup.op # "none"
    BY <1>1, <1>7, <1>8, <1>10, <1>12, <2>2 DEF PassInv, PassHasOperation
  <2>3. CASE wakes /\ sup.op = "none"
    <3>1. \A u \in Waiting(queue) : u.tx \notin PassTx
      BY <2>3 DEF PassInv, PassHasOperation
    <3> QED
      BY <1>1, <1>7, <1>8, <1>10, <1>12, <2>3, <3>1 DEF PassInv, PassHasOperation
  <2> QED
    BY <2>1, <2>2, <2>3
<1>18. HandleInv'
  <2> HIDE DEF done, wakes
  <2> QED
    BY <1>1, <1>3, <1>10 DEF HandleInv, DisposedOnce
<1>19. DriveInv'
  BY <1>1, <1>4, <1>7, <1>10 DEF DriveInv, Terminal
<1> HIDE DEF done, wakes
<1> QED
  BY <1>1, <1>8, <1>10, <1>11, <1>12, <1>13, <1>15, <1>16, <1>17, <1>18, <1>19 DEF RunnerTyped

(* The controller's disposal, shutdown, restart and recovery *)

(* A controller is disposed once, by whichever of release and shutdown comes first. *)
LEMMA DisposalKeeps ==
    ASSUME RunnerInv, DisposalEnds \/ DisposeHost \/ ShutdownReleases
    PROVE  RunnerInv'
<1> USE DEF RunnerInv, durable
<1>1. /\ sup \in SupRecords /\ flags \in FlagRecords /\ UNCHANGED <<durable, alive, queue, pass, cmds>>
      /\ (sup.disposal = "running" => sup.bound /\ sup.releasing)
      /\ sup.leases = Cardinality(Resuming) /\ Resuming' = Resuming
      /\ (flags.cached => ~sup.bound /\ sup.disposal = "none" /\ sup = Unbound /\ flags.disposals = 0)
  BY Pieces DEF RunnerTyped, HandleInv, LeaseInv, Resuming, DisposalEnds, DisposeHost, ShutdownReleases
<1>2. WorkInv' /\ CommandInv'
  BY <1>1 DEF WorkInv, CommandInv
<1>3. CASE DisposalEnds
  <2>1. CASE /\ sup.disposal = "running" /\ sup' = [sup EXCEPT !.disposal = "done", !.bound = FALSE]
             /\ flags' = [flags EXCEPT !.disposals = @ + 1, !.disposed = @ \/ flags.closing]
    <3> DEFINE d == flags.disposed \/ flags.closing
               n == flags.disposals + 1
    <3>1. d \in BOOLEAN /\ n \in Nat /\ flags' = [flags EXCEPT !.disposals = n, !.disposed = d]
      BY <1>1, <2>1 DEF FlagRecords
    <3> HIDE DEF d, n
    <3>2. /\ sup' \in SupRecords /\ ~sup'.bound /\ sup'.disposal = "done" /\ sup'.op = sup.op
          /\ sup'.aborted = sup.aborted /\ sup'.observers = sup.observers /\ sup'.leases = sup.leases
      BY <1>1, <2>1 DEF SupRecords
    <3>3. /\ flags' \in FlagRecords /\ flags'.disposals = flags.disposals + 1 /\ flags'.closing = flags.closing
          /\ flags'.cached = flags.cached /\ (flags'.disposed => flags.disposed \/ flags.closing)
      <4>1. /\ flags' \in FlagRecords /\ flags'.disposals = n
            /\ flags'.closing = flags.closing /\ flags'.cached = flags.cached /\ flags'.disposed = d
        BY <1>1, <3>1 DEF FlagRecords
      <4> QED
        BY <4>1 DEF d, n
    <3>4. ~flags.cached /\ flags.disposals = 0
      BY <1>1, <2>1 DEF HandleInv
    <3>5. LeaseInv'
      BY <1>1, <2>1, <3>2 DEF LeaseInv, CommittedResumesWake
    <3>6. PassInv'
      BY <1>1, <3>2 DEF PassInv, PassHasOperation
    <3>7. HandleInv' /\ DriveInv'
      BY <3>2, <3>3, <3>4 DEF HandleInv, DisposedOnce, DriveInv
    <3> QED
      BY <1>1, <1>2, <3>2, <3>3, <3>5, <3>6, <3>7 DEF RunnerTyped
  <2>2. CASE sup.disposal = "running" /\ sup' = [sup EXCEPT !.disposal = "none"] /\ UNCHANGED flags
    <3>1. /\ sup' \in SupRecords /\ sup'.bound = sup.bound /\ sup'.disposal = "none" /\ sup'.op = sup.op
          /\ sup'.aborted = sup.aborted /\ sup'.observers = sup.observers /\ sup'.leases = sup.leases
          /\ sup'.pending = sup.pending /\ sup'.releasing = sup.releasing /\ sup'.cut = sup.cut
      BY <1>1, <2>2 DEF SupRecords
    <3>2. ~flags.cached
      BY <1>1, <2>2
    <3>3. LeaseInv'
      BY <1>1, <2>2, <3>1 DEF LeaseInv, CommittedResumesWake
    <3>4. PassInv' /\ DriveInv'
      BY <1>1, <2>2, <3>1 DEF PassInv, PassHasOperation, DriveInv
    <3>5. HandleInv'
      BY <1>1, <2>2, <3>1, <3>2 DEF HandleInv, DisposedOnce
    <3> QED
      BY <1>1, <1>2, <2>2, <3>1, <3>3, <3>4, <3>5 DEF RunnerTyped
  <2> QED
    BY <1>3, <2>1, <2>2 DEF DisposalEnds
<1>4. CASE DisposeHost
  <2>1. /\ ~flags.closing /\ sup' = sup
        /\ flags' = [flags EXCEPT !.closing = TRUE, !.cached = FALSE, !.disposed = ~sup.bound,
                                 !.disposals = @ + IF flags.cached THEN 1 ELSE 0]
    BY <1>4 DEF DisposeHost
  <2>2. /\ flags' \in FlagRecords /\ flags'.closing /\ ~flags'.cached /\ flags'.disposed = ~sup.bound
        /\ flags'.disposals = flags.disposals + IF flags.cached THEN 1 ELSE 0
    <3> DEFINE d == ~sup.bound
               n == flags.disposals + IF flags.cached THEN 1 ELSE 0
    <3>1. /\ d \in BOOLEAN /\ n \in Nat
          /\ flags' = [flags EXCEPT !.closing = TRUE, !.cached = FALSE, !.disposed = d, !.disposals = n]
      BY <1>1, <2>1 DEF FlagRecords
    <3> HIDE DEF d, n
    <3>2. /\ flags' \in FlagRecords /\ flags'.closing /\ ~flags'.cached /\ flags'.disposed = d
          /\ flags'.disposals = n
      BY <1>1, <3>1 DEF FlagRecords
    <3> QED
      BY <3>2 DEF d, n
  <2>3. LeaseInv'
    BY <1>1, <2>1, <2>2 DEF LeaseInv, CommittedResumesWake
  <2>4. PassInv' /\ DriveInv'
    BY <1>1, <2>1, <2>2 DEF PassInv, PassHasOperation, DriveInv
  <2>5. HandleInv'
    BY <1>1, <2>1, <2>2 DEF HandleInv, DisposedOnce, FlagRecords
  <2> QED
    BY <1>1, <1>2, <2>1, <2>2, <2>3, <2>4, <2>5 DEF RunnerTyped
<1>5. CASE ShutdownReleases
  <2>1. /\ flags.closing /\ sup.bound /\ sup.leases = 0 /\ sup' = ReleasedController(sup)
        /\ flags' = [flags EXCEPT !.attempts = @ + 1]
    BY <1>5 DEF ShutdownReleases, LeasesDrained
  <2>2. /\ flags' \in FlagRecords /\ flags'.closing /\ flags'.cached = flags.cached
        /\ flags'.disposed = flags.disposed /\ flags'.disposals = flags.disposals
    BY <1>1, <2>1 DEF FlagRecords
  <2>3. Cut(sup, sup') /\ (sup'.disposal = "running" => sup'.bound /\ sup'.releasing)
    BY <1>1, <2>1, ReleasedFacts DEF Cut
  <2>4. LeaseInv'
    BY <1>1, <2>1, <2>3 DEF LeaseInv, CommittedResumesWake, Cut
  <2>5. PassInv' /\ DriveInv'
    BY <1>1, <2>1, <2>2, <2>3 DEF PassInv, PassHasOperation, DriveInv, Cut
  <2>6. HandleInv'
    BY <1>1, <2>1, <2>2, <2>3 DEF HandleInv, DisposedOnce, Cut
  <2> QED
    BY <1>1, <1>2, <2>2, <2>3, <2>4, <2>5, <2>6 DEF RunnerTyped, Cut
<1> QED
  BY <1>3, <1>4, <1>5

(* Nothing waits, nobody asked, and no lease is held when a Host starts. *)
LEMMA FreshFacts ==
    ASSUME queue = <<>>, cmds = <<>>
    PROVE  /\ QueueTyped(queue) /\ Waiting(queue) = {} /\ cmds \in Seq(CommandRecords)
           /\ Len(cmds) <= MaxCommands /\ Cardinality(Resuming) = 0 /\ CommandInv /\ CommittedResumesWake
<1>1. Len(queue) = 0 /\ Len(cmds) = 0
  OBVIOUS
<1>2. Waiting(queue) = {} /\ Resuming = {}
  BY <1>1 DEF Waiting, Resuming
<1>3. Cardinality(Resuming) = 0
  BY <1>2, FS_EmptySet
<1>4. QueueTyped(queue) /\ cmds \in Seq(CommandRecords) /\ Len(cmds) <= MaxCommands
  BY <1>1, RunnerAssumption DEF QueueTyped
<1> QED
  BY <1>1, <1>2, <1>3, <1>4 DEF CommandInv, CommittedResumesWake

(* A restart leaves what is durable and nothing else. *)
LEMMA RestartKeeps ==
    ASSUME RunnerInv, Restart
    PROVE  RunnerInv'
<1> USE DEF RunnerInv, durable
<1>1. /\ alive' = "none" /\ queue' = <<>> /\ sup' = Unbound /\ pass' = NoPass /\ cmds' = <<>>
      /\ flags' = [FreshHost EXCEPT !.cached = TRUE] /\ UNCHANGED durable
  BY DEF Restart
<1>2. /\ QueueTyped(queue') /\ Waiting(queue') = {} /\ cmds' \in Seq(CommandRecords)
      /\ Len(cmds') <= MaxCommands /\ Cardinality(Resuming') = 0 /\ CommandInv' /\ CommittedResumesWake'
  <2>1. Len(queue') = 0 /\ Len(cmds') = 0
    BY <1>1
  <2>2. Waiting(queue') = {} /\ Resuming' = {}
    BY <2>1 DEF Waiting, Resuming
  <2>3. Cardinality(Resuming') = 0
    BY <2>2, FS_EmptySet
  <2>4. QueueTyped(queue') /\ cmds' \in Seq(CommandRecords) /\ Len(cmds') <= MaxCommands
    BY <1>1, <2>1, RunnerAssumption DEF QueueTyped
  <2> QED
    BY <2>1, <2>2, <2>3, <2>4 DEF CommandInv, CommittedResumesWake
<1>3. /\ flags' \in FlagRecords /\ flags'.cached /\ ~flags'.closing /\ ~flags'.disposed /\ flags'.disposals = 0
  BY <1>1, Pieces DEF FlagRecords
<1> QED
  BY <1>1, <1>2, <1>3, Pieces
     DEF RunnerTyped, WorkInv, PassInv, PassHasOperation, LeaseInv, HandleInv, DisposedOnce, DriveInv

(* The scan after a restart marks an attempt that was cut off, and wakes or pauses a dormant Team. *)
LEMMA ScanKeeps ==
    ASSUME RunnerInv, ScanActive \/ ScanDormant \/ Recover
    PROVE  RunnerInv'
<1> USE DEF RunnerInv
<1>1. CASE ScanActive
  <2>1. lifecycle' = "needs_reconciliation" /\ lifecycle \notin Terminal
        /\ UNCHANGED <<work, held, active, alive, queue, sup, pass, flags, cmds>>
    BY <1>1 DEF ScanActive, Terminal, Inactive
  <2> QED
    BY <2>1, JournalMoves DEF RunnerTyped, Stopped, WorkInv, DriveInv
<1>2. CASE Recover
  <2>1. /\ lifecycle' = "paused" /\ lifecycle = "needs_reconciliation" /\ alive = "none" /\ active # "checking"
        /\ active' = (IF active = "running" THEN "none" ELSE active)
        /\ held' = (IF active = "running" THEN held + 1 ELSE held)
        /\ UNCHANGED <<work, alive, queue, sup, pass, flags, cmds>>
    BY <1>2 DEF Recover
  <2>2. WorkInv'
    BY <2>1 DEF WorkInv
  <2> QED
    BY <2>1, <2>2, JournalMoves DEF RunnerTyped, Stopped, Terminal, DriveInv
<1>3. CASE ScanDormant
  <2>1. CASE /\ lifecycle' \in {"paused", "needs_reconciliation"} /\ lifecycle = "running"
             /\ UNCHANGED <<work, held, active, alive, queue, sup, pass, flags, cmds>>
    BY <2>1, JournalMoves DEF RunnerTyped, Stopped, Terminal, WorkInv, DriveInv
  <2>2. CASE /\ Restorable /\ sup' = Woken(RestoredSup) /\ pass' = FreshPass /\ flags' = TakenFromCache
             /\ UNCHANGED <<lifecycle, work, held, active, alive, queue, cmds>> /\ lifecycle = "running"
    <3>1. /\ sup = Unbound /\ flags.cached /\ ~flags.closing /\ ~flags.disposed /\ flags.disposals = 0
          /\ flags \in FlagRecords
      BY <2>2 DEF Restorable, HandleInv, RunnerTyped
    <3>2. sup.op = "none" /\ sup.leases = 0 /\ pass.at = "none"
      BY <3>1, Pieces DEF PassInv, PassHasOperation, RunnerTyped, PassRecords
    <3>3. /\ sup' \in SupRecords /\ sup'.op = "pass" /\ sup'.bound /\ ~sup'.releasing /\ sup'.leases = 0
          /\ sup'.disposal = "none" /\ sup'.observers # {} /\ (sup'.aborted => sup'.pending)
      BY <2>2, WokenFacts, Pieces
    <3>4. /\ flags' \in FlagRecords /\ ~flags'.cached /\ ~flags'.closing /\ ~flags'.disposed
          /\ flags'.disposals = 0
      BY <2>2, <3>1 DEF TakenFromCache, FlagRecords
    <3>5. pass' \in PassRecords /\ pass'.at = "head"
      BY <2>2, Pieces
    <3>6. PassInv'
      BY <2>2, <3>2, <3>3, <3>5 DEF PassInv, PassHasOperation
    <3>7. WorkInv' /\ CommandInv'
      BY <2>2, <3>5 DEF WorkInv, CommandInv
    <3>8. LeaseInv'
      <4>1. Resuming' = Resuming
        BY <2>2 DEF Resuming
      <4> QED
        BY <2>2, <3>2, <3>3, <3>4, <4>1 DEF LeaseInv, CommittedResumesWake
    <3>9. HandleInv' /\ DriveInv'
      BY <2>2, <3>3, <3>4 DEF HandleInv, DisposedOnce, DriveInv
    <3> QED
      BY <2>2, <3>3, <3>4, <3>5, <3>6, <3>7, <3>8, <3>9 DEF RunnerTyped
  <2> QED
    BY <1>3, <2>1, <2>2 DEF ScanDormant
<1> QED
  BY <1>1, <1>2, <1>3

(* The theorems *)

(* A Team that was just launched satisfies the invariant. *)
LEMMA RunnerStarts ==
    ASSUME RunnerInit
    PROVE  RunnerInv
<1>1. /\ lifecycle = "running" /\ work \in 0 .. MaxWork /\ held = 0 /\ active = "none"
      /\ alive = "none" /\ queue = <<>> /\ pass = FreshPass /\ flags = FreshHost /\ cmds = <<>>
      /\ sup = [Unbound EXCEPT !.bound = TRUE, !.op = "pass", !.observers = {"launch"}]
  BY DEF RunnerInit
<1>2. /\ QueueTyped(queue) /\ Waiting(queue) = {} /\ cmds \in Seq(CommandRecords)
      /\ Len(cmds) <= MaxCommands /\ Cardinality(Resuming) = 0 /\ CommandInv /\ CommittedResumesWake
  BY <1>1, FreshFacts
<1>3. /\ sup \in SupRecords /\ sup.bound /\ sup.op = "pass" /\ sup.observers # {} /\ ~sup.aborted
      /\ sup.leases = 0 /\ sup.disposal = "none" /\ ~sup.releasing
  BY <1>1, Pieces DEF SupRecords
<1>4. flags \in FlagRecords /\ ~flags.closing /\ ~flags.disposed /\ flags.disposals = 0 /\ ~flags.cached
  BY <1>1 DEF FreshHost, FlagRecords
<1>5. pass \in PassRecords /\ pass.at = "head"
  BY <1>1, Pieces
<1>6. WorkInv
  BY <1>1, <1>2, <1>5, RunnerAssumption DEF WorkInv
<1>7. PassInv
  BY <1>2, <1>3, <1>5 DEF PassInv, PassHasOperation
<1> QED
  BY <1>1, <1>2, <1>3, <1>4, <1>5, <1>6, <1>7
     DEF RunnerInv, RunnerTyped, LeaseInv, HandleInv, DisposedOnce, DriveInv

(* Every step keeps the invariant. *)
LEMMA RunnerMoves ==
    ASSUME RunnerInv, [RunnerNext]_runnerVars
    PROVE  RunnerInv'
<1>1. CASE PassStops \/ PassWakes \/ PassFails
  BY <1>1, StopsKeeps
<1>2. CASE PassPlans
  BY <1>2, PlansKeeps
<1>3. CASE YieldEnds
  BY <1>3, YieldKeeps
<1>4. CASE CommitDispatch \/ CommitComplete \/ PassChecks \/ CommitBegin \/ CommitVerdict
  BY <1>4, PassDispatchKeeps, CompleteKeeps, ChecksKeeps
<1>5. CASE AttemptEnds \/ CommitSettle
  BY <1>5, AttemptKeeps, SettleKeeps
<1>6. CASE \E k \in CommandKinds : BeginPause(k) \/ BeginCancel(k)
  BY <1>6, BeginKeeps
<1>7. CASE CommitPause \/ CommitCancel \/ \E c \in 1 .. Len(cmds) : CancelReturns(c)
  BY <1>7, PauseKeeps, CancelKeeps, ReturnKeeps
<1>8. CASE CommitUncertain \/ CommitMark
  BY <1>8, MarkKeeps
<1>9. CASE BeginResume \/ CommitResume \/ CommitQuiesce
  BY <1>9, BeginResumeKeeps, ResumeKeeps, QuiesceKeeps
<1>10. CASE DisposalEnds \/ DisposeHost \/ ShutdownReleases
  BY <1>10, DisposalKeeps
<1>11. CASE Restart \/ ScanActive \/ ScanDormant \/ Recover
  BY <1>11, RestartKeeps, ScanKeeps
<1>12. CASE UNCHANGED runnerVars
  <2>1. Resuming' = Resuming
    BY <1>12 DEF runnerVars, Resuming
  <2> QED
    BY <1>12, <2>1
       DEF runnerVars, durable, RunnerInv, RunnerTyped, WorkInv, PassInv, PassHasOperation, CommandInv, LeaseInv,
           CommittedResumesWake, HandleInv, DisposedOnce, DriveInv
<1> QED
  BY <1>1, <1>2, <1>3, <1>4, <1>5, <1>6, <1>7, <1>8, <1>9, <1>10, <1>11, <1>12 DEF RunnerNext

(* The inductive invariant of the runner: the queue of the journal, the pass, the leases and the
   owner of the controller agree at every step. *)
THEOREM RunnerInvariant == RunnerSpec => []RunnerInv
<1>1. RunnerInit => RunnerInv
  BY RunnerStarts
<1>2. RunnerInv /\ [RunnerNext]_runnerVars => RunnerInv'
  BY RunnerMoves
<1> QED
  BY <1>1, <1>2, PTL DEF RunnerSpec

(* RunnerIsKept, for any number of tasks, commands, faults and restarts: a running Team whose
   runner this Host owns is driven once the commands and the journal are quiet, unless a repeated
   immediate pause has cut its pass off and nothing has woken it since; a resume that committed
   finds its runner, a pass belongs to an operation, and one controller is disposed at
   most once. *)
THEOREM RunnerStaysKept == RunnerSpec => []RunnerIsKept
<1>1. RunnerInv => RunnerIsKept
  <2> SUFFICES ASSUME RunnerInv PROVE RunnerIsKept
    OBVIOUS
  <2> USE DEF RunnerInv
  <2>1. sup.leases \in 0 .. MaxCommands
    <3>1. Len(cmds) \in Nat /\ Len(cmds) <= MaxCommands /\ Cardinality(Resuming) \in 0 .. Len(cmds)
          /\ sup.leases = Cardinality(Resuming)
      BY ResumingIsFinite DEF RunnerTyped, LeaseInv
    <3> QED
      BY <3>1, RunnerAssumption
  <2>2. RunnerTypeOK
    <3>1. /\ sup.op \in {"none", "pass", "yield"}
          /\ pass.at \in {"none", "head", "working", "waiting", "checking"}
      BY DEF RunnerTyped, SupRecords, PassRecords
    <3> QED
      BY <2>1, <3>1 DEF RunnerTypeOK, RunnerTyped, WorkInv
  <2>3. RunningIsDriven
    <3>1. queue = <<>> => Waiting(queue) = {}
      BY DEF Waiting
    <3> QED
      BY <3>1 DEF RunningIsDriven, AllAnswered, DriveInv
  <2> QED
    BY <2>2, <2>3 DEF RunnerIsKept, LeaseInv, HandleInv, PassInv
<1> QED
  BY <1>1, RunnerInvariant, PTL

-----------------------------------------------------------------------------
(* Queues whose head is served *)

(* A queue holds each of its members once, and none of those that run but its head. *)
Serves(q, members, running) ==
  /\ q \in Seq(members)
  /\ \A i \in 1..Len(q) : i # 1 => q[i] \notin running
  /\ \A i, j \in 1..Len(q) : q[i] = q[j] => i = j
  /\ \A p \in members : \E i \in 1..Len(q) : q[i] = p

(* A member that runs is the head. *)
LEMMA RunnerIsHead ==
  ASSUME NEW q, NEW M, NEW R, Serves(q, M, R), NEW p \in M, p \in R
  PROVE  q # <<>> /\ Head(q) = p
<1>1. PICK i \in 1..Len(q) : q[i] = p
  BY DEF Serves
<1>2. i = 1 /\ Len(q) \in Nat /\ Len(q) >= 1
  BY <1>1, LenProperties DEF Serves
<1> QED
  BY <1>1, <1>2, HeadTailProperties, EmptySeq DEF Serves

(* Who joins is last. *)
LEMMA JoiningServes ==
  ASSUME NEW q, NEW M, NEW R, Serves(q, M, R), NEW p, p \notin M, NEW Fresh, p \notin Fresh,
         \A x \in M : x \in Fresh => x \in R
  PROVE  Serves(Append(q, p), M \cup {p}, Fresh)
<1> DEFINE n == Len(q)
           r == Append(q, p)
<1>1. q \in Seq(M \cup {p}) /\ n \in Nat /\ q \in Seq(M)
  <2>1. q \in Seq(M)
    BY DEF Serves
  <2> QED
    BY <2>1, SeqMonotonic, LenProperties
<1>2. r \in Seq(M \cup {p}) /\ Len(r) = n + 1 /\ (\A i \in 1..n : r[i] = q[i]) /\ r[n + 1] = p
  BY <1>1, AppendProperties
<1>3. \A i \in 1..n : q[i] \in M
  BY <1>1, ElementOfSeq
<1> HIDE DEF n, r
<1>4. \A i \in 1..(n + 1) : i \in 1..n \/ i = n + 1
  BY <1>1
<1>5. \A i \in 1..Len(r) : i # 1 => r[i] \notin Fresh
  BY <1>2, <1>3, <1>4 DEF Serves, n
<1>6. \A i, j \in 1..Len(r) : r[i] = r[j] => i = j
  <2>1. \A i, j \in 1..n : q[i] = q[j] => i = j
    BY DEF Serves, n
  <2> QED
    BY <1>2, <1>3, <1>4, <2>1
<1>7. \A x \in M \cup {p} : \E i \in 1..Len(r) : r[i] = x
  <2> SUFFICES ASSUME NEW x \in M \cup {p}
               PROVE  \E i \in 1..(n + 1) : r[i] = x
    BY <1>2
  <2>1. CASE x \in M
    <3>1. PICK i \in 1..n : q[i] = x
      BY <2>1 DEF Serves, n
    <3> QED
      BY <1>1, <1>2, <3>1
  <2>2. CASE x = p
    BY <1>1, <1>2, <2>2
  <2> QED
    BY <2>1, <2>2
<1> QED
  BY <1>2, <1>5, <1>6, <1>7 DEF Serves, r

(* The head leaves, and the next may run. *)
LEMMA LeavingServes ==
  ASSUME NEW q, NEW M, NEW R, Serves(q, M, R), q # <<>>, NEW Fresh, \A x \in M \ {Head(q)} : x \in Fresh => x \in R
  PROVE  Serves(Tail(q), M \ {Head(q)}, Fresh) /\ Head(q) \in M
<1> DEFINE n == Len(q)
           r == Tail(q)
           h == Head(q)
<1>1. q \in Seq(M) /\ n \in Nat /\ n >= 1 /\ h = q[1]
  BY EmptySeq, LenProperties, HeadTailProperties DEF Serves
<1>2. r \in Seq(M) /\ Len(r) = n - 1 /\ \A i \in 1..(n - 1) : r[i] = q[i + 1]
  BY <1>1, HeadTailProperties, LenProperties
<1>3. \A i \in 1..n : q[i] \in M
  BY <1>1, ElementOfSeq
<1>4. \A i, j \in 1..n : q[i] = q[j] => i = j
  BY DEF Serves
<1>5. \A i \in 1..n : i # 1 => q[i] \notin R
  BY DEF Serves
<1> HIDE DEF n, r, h
<1>6. \A i \in 1..(n - 1) : i + 1 \in 1..n /\ i + 1 # 1 /\ r[i] = q[i + 1] /\ 1 \in 1..n
  BY <1>1, <1>2
<1>7. \A i \in 1..Len(r) : r[i] \in M \ {h}
  BY <1>1, <1>2, <1>3, <1>4, <1>6
<1>8. r \in Seq(M \ {h})
  <2>1. Len(r) \in Nat
    BY <1>1, <1>2
  <2>2. r = [i \in 1..Len(r) |-> r[i]]
    BY <1>2, LenProperties
  <2> QED
    BY <1>7, <2>1, <2>2, SeqDef
<1>9. \A i \in 1..Len(r) : i # 1 => r[i] \notin Fresh
  BY <1>2, <1>5, <1>6, <1>7 DEF h
<1>10. \A i, j \in 1..Len(r) : r[i] = r[j] => i = j
  <2> SUFFICES ASSUME NEW i \in 1..(n - 1), NEW j \in 1..(n - 1), r[i] = r[j]
               PROVE  i = j
    BY <1>2
  <2>1. i + 1 = j + 1
    BY <1>4, <1>6
  <2> QED
    BY <1>1, <2>1
<1>11. \A x \in M \ {h} : \E i \in 1..Len(r) : r[i] = x
  <2> SUFFICES ASSUME NEW x \in M \ {h}
               PROVE  \E i \in 1..(n - 1) : r[i] = x
    BY <1>2
  <2>1. PICK i \in 1..n : q[i] = x
    BY DEF Serves, n
  <2>2. i # 1 /\ i - 1 \in 1..(n - 1) /\ (i - 1) + 1 = i
    BY <1>1, <2>1
  <2>3. r[i - 1] = q[(i - 1) + 1]
    BY <1>6, <2>2
  <2> QED
    BY <2>1, <2>2, <2>3
<1>12. h \in M
  BY <1>1, <1>3, <1>6
<1> QED
  BY <1>8, <1>9, <1>10, <1>11, <1>12 DEF Serves, r, h

(* Who runs may change as long as no one behind the head begins. *)
LEMMA StandingServes ==
  ASSUME NEW q, NEW M, NEW R, Serves(q, M, R), NEW Fresh,
         \A x \in M : x \in Fresh => x \in R \/ (q # <<>> /\ x = Head(q))
  PROVE  Serves(q, M, Fresh)
<1>1. \A i \in 1..Len(q) : q[i] \in M
  BY ElementOfSeq DEF Serves
<1>2. \A i \in 1..Len(q) : i # 1 => q[i] \notin Fresh
  <2> SUFFICES ASSUME NEW i \in 1..Len(q), i # 1, q[i] \in Fresh
               PROVE  FALSE
    OBVIOUS
  <2>1. q[i] \notin R /\ q[i] \in M /\ q # <<>> /\ q[i] = Head(q)
    BY <1>1 DEF Serves
  <2>2. Head(q) = q[1] /\ 1 \in 1..Len(q)
    BY <2>1, HeadTailProperties, LenProperties, EmptySeq DEF Serves
  <2> QED
    BY <2>1, <2>2 DEF Serves
<1> QED
  BY <1>2 DEF Serves

(* An empty queue serves nobody. *)
LEMMA EmptyServes ==
  ASSUME NEW R
  PROVE  Serves(<<>>, {}, R)
BY EmptySeq DEF Serves

-----------------------------------------------------------------------------
(* The project's knowledge index *)

InFile == {"saving", "writing", "publishing", "recording"}
FileMembers == {p \in Commands : command[p].at \in InFile}
FileRunning == {p \in Commands : command[p].at \in {"writing", "recording"}}

InTurn(p) == command[p].kind \in Deletions /\ command[p].at \notin {"new", "done"}
TurnMembers(c) == {p \in Commands : InTurn(p) /\ command[p].panel = c}
TurnRunning == {p \in Commands : command[p].at # "turn"}

(* The queue of the file holds exactly the commands that are in it, and only its head has it; a
   controller's queue holds exactly its deletions under way, and only its head has its turn. *)
QueuesInOrder ==
  /\ Serves(fileQueue, FileMembers, FileRunning)
  /\ \A c \in Panels : Serves(turns[c], TurnMembers(c), TurnRunning)
  /\ \A p \in Commands : command[p].at = "turn" => command[p].kind \in Deletions

(* What the head of the file's queue has read is what the file holds, and nothing seen or shown
   is ahead of the file. *)
FileIsCurrent ==
  /\ \A p \in Commands : command[p].at \in {"writing", "recording"} => command[p].snap = disk
  /\ \A p \in Commands : command[p].saw.v <= disk.v
  /\ \A c \in Panels : panelShows[c].v <= disk.v
  /\ \A p \in Commands : command[p].answer = "synced" => command[p].at = "done"

KnowledgeInv == KnowledgeTypeOK /\ QueuesInOrder /\ FileIsCurrent /\ SyncedIsShown

(* A step of a command along the queue of the file: none, it joins, it has the file, it leaves. *)
FileStep(p) ==
  \/ command[p].at \notin InFile /\ command'[p].at \notin InFile /\ fileQueue' = fileQueue
  \/ /\ command[p].at \notin InFile /\ command'[p].at \in {"saving", "publishing"}
     /\ fileQueue' = Append(fileQueue, p)
  \/ /\ HasFile(p) /\ command[p].at \in InFile /\ command'[p].at \in {"writing", "recording"}
     /\ fileQueue' = fileQueue
  \/ command[p].at \in {"writing", "recording"} /\ command'[p].at \notin InFile /\ fileQueue' = Tail(fileQueue)

(* And along the queue of its controller: it stays where it is, is none of it, joins, leaves. *)
TurnStep(p) ==
  \/ /\ turns' = turns /\ command'[p].panel = command[p].panel /\ (InTurn(p) <=> InTurn(p)')
     /\ \/ command[p].at # "turn" \/ ~InTurn(p) \/ command'[p].at = "turn"
        \/ Head(turns[command[p].panel]) = p
  \/ turns' = turns /\ ~InTurn(p) /\ ~InTurn(p)'
  \/ /\ ~InTurn(p) /\ InTurn(p)' /\ command'[p].at = "turn" /\ command'[p].panel \in Panels
     /\ turns' = [turns EXCEPT ![command'[p].panel] = Append(@, p)]
  \/ /\ InTurn(p) /\ ~InTurn(p)' /\ (command[p].at # "turn" \/ Head(turns[command[p].panel]) = p)
     /\ turns' = [turns EXCEPT ![command[p].panel] = Tail(@)]

(* A step of one command moves it along the queue of the file. *)
LEMMA FileMoves ==
  ASSUME KnowledgeInv, NEW p \in Commands, \A q \in Commands \ {p} : command'[q] = command[q],
         FileStep(p)
  PROVE  Serves(fileQueue', FileMembers', FileRunning')
<1>0. Serves(fileQueue, FileMembers, FileRunning)
  BY DEF KnowledgeInv, QueuesInOrder
<1>1. CASE command[p].at \notin InFile /\ command'[p].at \notin InFile /\ fileQueue' = fileQueue
  <2>1. FileMembers' = FileMembers /\ FileRunning' = FileRunning
    BY <1>1 DEF FileMembers, FileRunning, InFile
  <2> QED
    BY <1>0, <1>1, <2>1
<1>2. CASE /\ command[p].at \notin InFile /\ command'[p].at \in {"saving", "publishing"}
           /\ fileQueue' = Append(fileQueue, p)
  <2>1. /\ FileMembers' = FileMembers \cup {p} /\ p \notin FileMembers /\ p \notin FileRunning'
        /\ \A x \in FileMembers : x \in FileRunning' => x \in FileRunning
    BY <1>2 DEF FileMembers, FileRunning, InFile
  <2> QED
    BY <1>0, <1>2, <2>1, JoiningServes
<1>3. CASE /\ HasFile(p) /\ command[p].at \in InFile /\ command'[p].at \in {"writing", "recording"}
           /\ fileQueue' = fileQueue
  <2>1. /\ FileMembers' = FileMembers /\ fileQueue # <<>> /\ Head(fileQueue) = p
        /\ \A x \in FileMembers : x \in FileRunning' => x \in FileRunning \/ x = p
    BY <1>3 DEF FileMembers, FileRunning, InFile, HasFile
  <2> QED
    BY <1>0, <1>3, <2>1, StandingServes
<1>4. CASE command[p].at \in {"writing", "recording"} /\ command'[p].at \notin InFile /\ fileQueue' = Tail(fileQueue)
  <2>1. fileQueue # <<>> /\ Head(fileQueue) = p
    BY <1>0, <1>4, RunnerIsHead DEF FileMembers, FileRunning, InFile
  <2>2. FileMembers' = FileMembers \ {p} /\ \A x \in FileMembers \ {p} : x \in FileRunning' => x \in FileRunning
    BY <1>4 DEF FileMembers, FileRunning, InFile
  <2> QED
    BY <1>0, <1>4, <2>1, <2>2, LeavingServes
<1> QED
  BY <1>1, <1>2, <1>3, <1>4 DEF FileStep

(* A step of one command moves it along the queue of its controller. *)
LEMMA TurnMoves ==
  ASSUME KnowledgeInv, NEW p \in Commands, \A q \in Commands \ {p} : command'[q] = command[q],
         TurnStep(p)
  PROVE  \A c \in Panels : Serves(turns'[c], TurnMembers(c)', TurnRunning')
<1> SUFFICES ASSUME NEW c \in Panels
             PROVE  Serves(turns'[c], TurnMembers(c)', TurnRunning')
  OBVIOUS
<1>0. /\ Serves(turns[c], TurnMembers(c), TurnRunning) /\ turns \in [Panels -> Seq(Commands)]
      /\ command[p].panel \in Panels
  BY DEF KnowledgeInv, QueuesInOrder, KnowledgeTypeOK
<1>1. ASSUME turns'[c] = turns[c], TurnMembers(c)' = TurnMembers(c),
             \A x \in TurnMembers(c) : x \in TurnRunning' => x \in TurnRunning \/ (turns[c] # <<>> /\ x = Head(turns[c]))
      PROVE  Serves(turns'[c], TurnMembers(c)', TurnRunning')
  BY <1>0, <1>1, StandingServes
<1>2. TurnMembers(c) # {} => turns[c] # <<>>
  <2> SUFFICES ASSUME NEW x \in TurnMembers(c), turns[c] = <<>>
               PROVE  FALSE
    OBVIOUS
  <2>1. Len(turns[c]) = 0 /\ \E i \in 1..Len(turns[c]) : turns[c][i] = x
    BY <1>0, EmptySeq DEF Serves
  <2> QED
    BY <2>1
<1>3. \A q \in Commands \ {p} : (q \in TurnMembers(c)' <=> q \in TurnMembers(c)) /\ (q \in TurnRunning' <=> q \in TurnRunning)
  BY DEF TurnMembers, TurnRunning, InTurn
<1>4. CASE /\ turns' = turns /\ command'[p].panel = command[p].panel /\ (InTurn(p) <=> InTurn(p)')
           /\ \/ command[p].at # "turn" \/ ~InTurn(p) \/ command'[p].at = "turn"
              \/ Head(turns[command[p].panel]) = p
  <2>1. TurnMembers(c)' = TurnMembers(c)
    BY <1>3, <1>4 DEF TurnMembers
  <2>2. p \in TurnMembers(c) => InTurn(p) /\ command[p].panel = c
    BY DEF TurnMembers
  <2>3. ASSUME p \in TurnMembers(c), p \in TurnRunning'
        PROVE  p \in TurnRunning \/ (turns[c] # <<>> /\ p = Head(turns[c]))
    BY <1>2, <1>4, <2>2, <2>3 DEF TurnRunning
  <2>4. \A x \in TurnMembers(c) : x \in TurnRunning' => x \in TurnRunning \/ (turns[c] # <<>> /\ x = Head(turns[c]))
    BY <1>3, <2>3 DEF TurnMembers
  <2> QED
    BY <1>1, <1>4, <2>1, <2>4
<1>5. CASE turns' = turns /\ ~InTurn(p) /\ ~InTurn(p)'
  <2>1. TurnMembers(c)' = TurnMembers(c) /\ p \notin TurnMembers(c)
    BY <1>3, <1>5 DEF TurnMembers
  <2>2. \A x \in TurnMembers(c) : x \in TurnRunning' => x \in TurnRunning
    BY <1>3, <2>1 DEF TurnMembers
  <2> QED
    BY <1>1, <1>5, <2>1, <2>2
<1>6. CASE /\ ~InTurn(p) /\ InTurn(p)' /\ command'[p].at = "turn" /\ command'[p].panel \in Panels
           /\ turns' = [turns EXCEPT ![command'[p].panel] = Append(@, p)]
  <2>1. p \notin TurnMembers(c) /\ p \notin TurnRunning'
    BY <1>6 DEF TurnMembers, TurnRunning
  <2>2. \A x \in TurnMembers(c) : x \in TurnRunning' => x \in TurnRunning
    BY <1>3, <2>1 DEF TurnMembers
  <2>3. CASE command'[p].panel = c
    <3>1. turns'[c] = Append(turns[c], p)
      BY <1>0, <1>6, <2>3
    <3>2. TurnMembers(c)' = TurnMembers(c) \cup {p}
      BY <1>3, <1>6, <2>3 DEF TurnMembers
    <3> QED
      BY <1>0, <2>1, <2>2, <3>1, <3>2, JoiningServes
  <2>4. CASE command'[p].panel # c
    <3>1. turns'[c] = turns[c]
      BY <1>0, <1>6, <2>4
    <3>2. TurnMembers(c)' = TurnMembers(c)
      BY <1>3, <2>1, <2>4 DEF TurnMembers
    <3> QED
      BY <1>1, <2>2, <3>1, <3>2
  <2> QED
    BY <2>3, <2>4
<1>7. CASE /\ InTurn(p) /\ ~InTurn(p)' /\ (command[p].at # "turn" \/ Head(turns[command[p].panel]) = p)
           /\ turns' = [turns EXCEPT ![command[p].panel] = Tail(@)]
  <2>1. p \notin TurnMembers(c)'
    BY <1>7 DEF TurnMembers
  <2>2. CASE command[p].panel = c
    <3>1. turns'[c] = Tail(turns[c]) /\ p \in TurnMembers(c)
      BY <1>0, <1>7, <2>2 DEF TurnMembers
    <3>2. turns[c] # <<>> /\ Head(turns[c]) = p
      BY <1>0, <1>2, <1>7, <2>2, <3>1, RunnerIsHead DEF TurnRunning
    <3>3. TurnMembers(c)' = TurnMembers(c) \ {p}
      BY <1>3, <2>1 DEF TurnMembers
    <3>4. \A x \in TurnMembers(c) \ {p} : x \in TurnRunning' => x \in TurnRunning
      BY <1>3 DEF TurnMembers
    <3>5. Serves(Tail(turns[c]), TurnMembers(c) \ {Head(turns[c])}, TurnRunning')
      <4>1. \A x \in TurnMembers(c) \ {Head(turns[c])} : x \in TurnRunning' => x \in TurnRunning
        BY <3>2, <3>4
      <4> QED
        BY <1>0, <3>2, <4>1, LeavingServes
    <3> QED
      BY <3>1, <3>2, <3>3, <3>5
  <2>3. CASE command[p].panel # c
    <3>1. turns'[c] = turns[c] /\ p \notin TurnMembers(c)
      BY <1>0, <1>7, <2>3 DEF TurnMembers
    <3>2. TurnMembers(c)' = TurnMembers(c)
      BY <1>3, <2>1, <3>1 DEF TurnMembers
    <3>3. \A x \in TurnMembers(c) : x \in TurnRunning' => x \in TurnRunning
      BY <1>3, <3>1 DEF TurnMembers
    <3> QED
      BY <1>1, <3>1, <3>2, <3>3
  <2> QED
    BY <2>2, <2>3
<1> QED
  BY <1>4, <1>5, <1>6, <1>7 DEF TurnStep
(* What a command's record holds. *)
CommandRecord ==
  [kind : IndexCommands, panel : Panels, entry : EntryIds,
   at : {"new", "turn", "path", "saving", "writing", "saved", "publishing", "recording", "done"},
   snap : [v : Nat, entries : SUBSET EntryIds], saw : [v : Nat, entries : SUBSET EntryIds],
   answer : {"none", "error", "partial", "synced", "lost"}]

IndexRecord == [v : Nat, entries : SUBSET EntryIds]

(* A step of one command that is a step along both queues keeps them in order. *)
LEMMA QueuesMove ==
  ASSUME KnowledgeInv, NEW p \in Commands, NEW r \in CommandRecord, command' = [command EXCEPT ![p] = r],
         FileStep(p), TurnStep(p), r.at = "turn" => r.kind \in Deletions
  PROVE  /\ QueuesInOrder' /\ command' \in [Commands -> CommandRecord]
         /\ turns' \in [Panels -> Seq(Commands)] /\ fileQueue' \in Seq(Commands)
<1>1. /\ command \in [Commands -> CommandRecord] /\ command' \in [Commands -> CommandRecord] /\ command'[p] = r
      /\ \A q \in Commands \ {p} : command'[q] = command[q]
  BY DEF KnowledgeInv, KnowledgeTypeOK, CommandRecord
<1>2. Serves(fileQueue', FileMembers', FileRunning')
  BY <1>1, FileMoves
<1>3. \A c \in Panels : Serves(turns'[c], TurnMembers(c)', TurnRunning')
  BY <1>1, TurnMoves
<1>4. \A q \in Commands : command'[q].at = "turn" => command'[q].kind \in Deletions
  BY <1>1 DEF KnowledgeInv, QueuesInOrder
<1>5. QueuesInOrder'
  BY <1>2, <1>3, <1>4 DEF QueuesInOrder
<1>6. FileMembers' \subseteq Commands /\ \A c \in Panels : TurnMembers(c)' \subseteq Commands
  BY DEF FileMembers, TurnMembers
<1>7. fileQueue' \in Seq(Commands)
  <2>1. fileQueue' \in Seq(FileMembers')
    BY <1>2 DEF Serves
  <2> QED
    BY <1>6, <2>1, SeqMonotonic
<1>8. \A c \in Panels : turns'[c] \in Seq(Commands)
  <2> SUFFICES ASSUME NEW c \in Panels
               PROVE  turns'[c] \in Seq(Commands)
    OBVIOUS
  <2>1. turns'[c] \in Seq(TurnMembers(c)')
    BY <1>3 DEF Serves
  <2> QED
    BY <1>6, <2>1, SeqMonotonic
<1>9. turns' = [c \in Panels |-> turns'[c]]
  BY DEF TurnStep, KnowledgeInv, KnowledgeTypeOK
<1> QED
  BY <1>1, <1>5, <1>7, <1>8, <1>9

(* A step of one command that reads or shows no more than the file holds keeps the file current. *)
LEMMA FileStays ==
  ASSUME KnowledgeInv, NEW p \in Commands, NEW r \in CommandRecord, command' = [command EXCEPT ![p] = r],
         disk' = disk, r.at \in {"writing", "recording"} => r.snap = disk,
         r.saw = command[p].saw \/ r.saw = disk,
         r.answer = "synced" => r.at = "done" /\ panelShows'[r.panel].v >= r.saw.v,
         \/ panelShows' = panelShows
         \/ /\ command[p].at = "recording"
            /\ panelShows' = [panelShows EXCEPT ![command[p].panel] = command[p].snap]
  PROVE  /\ FileIsCurrent' /\ SyncedIsShown' /\ disk' \in IndexRecord
         /\ panelShows' \in [Panels -> IndexRecord]
         /\ \A c \in Panels : panelShows'[c].v >= panelShows[c].v
<1>1. /\ command \in [Commands -> CommandRecord] /\ command'[p] = r
      /\ \A q \in Commands \ {p} : command'[q] = command[q]
      /\ disk \in IndexRecord /\ panelShows \in [Panels -> IndexRecord]
  BY DEF KnowledgeInv, KnowledgeTypeOK, CommandRecord, IndexRecord
<1>2. disk.v \in Nat /\ (\A c \in Panels : panelShows[c].v \in Nat)
      /\ \A q \in Commands : command[q].saw.v \in Nat /\ command[q].panel \in Panels
  BY <1>1 DEF CommandRecord, IndexRecord
<1>3. FileIsCurrent /\ SyncedIsShown
  BY DEF KnowledgeInv
<1>4. /\ panelShows' \in [Panels -> IndexRecord]
      /\ \A c \in Panels : panelShows'[c] = panelShows[c] \/ panelShows'[c] = disk
  BY <1>1, <1>2, <1>3 DEF FileIsCurrent
<1>5. \A c \in Panels : panelShows'[c].v >= panelShows[c].v /\ panelShows'[c].v \in Nat /\ panelShows'[c].v <= disk.v
  BY <1>2, <1>3, <1>4 DEF FileIsCurrent
<1>6. FileIsCurrent'
  <2>1. \A q \in Commands : command'[q].at \in {"writing", "recording"} => command'[q].snap = disk'
    BY <1>1, <1>3 DEF FileIsCurrent
  <2>2. \A q \in Commands : command'[q].saw.v <= disk'.v
    BY <1>1, <1>2, <1>3 DEF FileIsCurrent
  <2>3. \A c \in Panels : panelShows'[c].v <= disk'.v
    BY <1>5
  <2>4. \A q \in Commands : command'[q].answer = "synced" => command'[q].at = "done"
    BY <1>1, <1>3 DEF FileIsCurrent
  <2> QED
    BY <2>1, <2>2, <2>3, <2>4 DEF FileIsCurrent
<1>7. SyncedIsShown'
  <2> SUFFICES ASSUME NEW q \in Commands, command'[q].answer = "synced"
               PROVE  panelShows'[command'[q].panel].v >= command'[q].saw.v
    BY DEF SyncedIsShown
  <2>1. CASE q = p
    BY <1>1, <2>1
  <2>2. CASE q # p
    <3>1. command'[q] = command[q] /\ panelShows[command[q].panel].v >= command[q].saw.v
      BY <1>1, <1>3, <2>2 DEF SyncedIsShown
    <3> QED
      BY <1>2, <1>5, <3>1
  <2> QED
    BY <2>1, <2>2
<1> QED
  BY <1>1, <1>4, <1>5, <1>6, <1>7

(* A command that is answered, with its turn over, has moved along its controller's queue. *)
LEMMA TurnIsOver ==
  ASSUME KnowledgeInv, NEW p \in Commands, NEW a, command' = Answered(p, a), turns' = TurnOver(p),
         command[p].at \notin {"new", "done"}, command[p].at = "turn" => Head(turns[command[p].panel]) = p
  PROVE  TurnStep(p)
<1>1. command'[p].at = "done" /\ command'[p].kind = command[p].kind /\ command'[p].panel = command[p].panel
  BY DEF Answered, KnowledgeInv, KnowledgeTypeOK
<1>2. ~InTurn(p)'
  BY <1>1 DEF InTurn
<1>3. CASE command[p].kind \in Deletions
  BY <1>2, <1>3 DEF TurnStep, InTurn, TurnOver
<1>4. CASE command[p].kind \notin Deletions
  BY <1>2, <1>4 DEF TurnStep, InTurn, TurnOver
<1> QED
  BY <1>3, <1>4

(* The record of an answered command. *)
LEMMA AnsweredRecord ==
  ASSUME KnowledgeInv, NEW p \in Commands, NEW a \in {"none", "error", "partial", "synced", "lost"}
  PROVE  \E r \in CommandRecord :
           /\ Answered(p, a) = [command EXCEPT ![p] = r]
           /\ r.at = "done" /\ r.answer = a /\ r.saw = command[p].saw /\ r.panel = command[p].panel
<1> DEFINE r == [command[p] EXCEPT !.at = "done", !.answer = a, !.snap = NoIndex]
<1>1. command[p] \in CommandRecord /\ command \in [Commands -> CommandRecord]
  BY DEF KnowledgeInv, KnowledgeTypeOK, CommandRecord
<1>2. NoIndex \in IndexRecord
  BY DEF NoIndex, IndexRecord
<1>3. r \in CommandRecord
  BY <1>1, <1>2 DEF CommandRecord, IndexRecord
<1>4. /\ Answered(p, a) = [command EXCEPT ![p] = r]
      /\ r.at = "done" /\ r.answer = a /\ r.saw = command[p].saw /\ r.panel = command[p].panel
  BY <1>1 DEF Answered, CommandRecord
<1> QED
  BY <1>3, <1>4

(* What a step may do to the file and to the panels. *)
IndexKeeps ==
  /\ disk' # disk => \E p \in Commands :
       disk'.entries = Patched(command[p].kind, command[p].entry, disk.entries)
  /\ \A c \in Panels : panelShows'[c].v >= panelShows[c].v

(* A step of one command that does not write the file. *)
LEMMA CommandMoves ==
  ASSUME KnowledgeInv, NEW p \in Commands, NEW r \in CommandRecord, command' = [command EXCEPT ![p] = r],
         FileStep(p), TurnStep(p), r.at = "turn" => r.kind \in Deletions,
         disk' = disk, r.at \in {"writing", "recording"} => r.snap = disk,
         r.saw = command[p].saw \/ r.saw = disk,
         r.answer = "synced" => r.at = "done" /\ panelShows'[r.panel].v >= r.saw.v,
         \/ panelShows' = panelShows
         \/ /\ command[p].at = "recording"
            /\ panelShows' = [panelShows EXCEPT ![command[p].panel] = command[p].snap],
         ready' \subseteq Panels
  PROVE  KnowledgeInv' /\ IndexKeeps
<1>1. /\ QueuesInOrder' /\ command' \in [Commands -> CommandRecord]
      /\ turns' \in [Panels -> Seq(Commands)] /\ fileQueue' \in Seq(Commands)
  BY QueuesMove
<1>2. /\ FileIsCurrent' /\ SyncedIsShown' /\ disk' \in IndexRecord /\ panelShows' \in [Panels -> IndexRecord]
      /\ \A c \in Panels : panelShows'[c].v >= panelShows[c].v
  BY FileStays
<1>3. KnowledgeTypeOK'
  BY <1>1, <1>2 DEF KnowledgeTypeOK, CommandRecord, IndexRecord
<1> QED
  BY <1>1, <1>2, <1>3 DEF KnowledgeInv, IndexKeeps

(* A command that runs in the file's queue has the file. *)
LEMMA RunnerHasFile ==
  ASSUME KnowledgeInv, NEW p \in Commands, command[p].at \in {"writing", "recording"}
  PROVE  HasFile(p)
<1>1. p \in FileMembers /\ p \in FileRunning
  BY DEF FileMembers, FileRunning, InFile
<1>2. Serves(fileQueue, FileMembers, FileRunning)
  BY DEF KnowledgeInv, QueuesInOrder
<1> QED
  BY <1>1, <1>2, RunnerIsHead DEF HasFile

(* A submitted command is new; a deletion waits for its turn. *)
LEMMA SubmitKeeps ==
  ASSUME KnowledgeInv, NEW p \in Commands, NEW k \in IndexCommands, NEW c \in Panels, NEW e \in EntryIds,
         Submit(p, k, c, e)
  PROVE  KnowledgeInv' /\ IndexKeeps
<1> DEFINE r == [command[p] EXCEPT !.kind = k, !.panel = c, !.entry = e,
                   !.at = IF k \in Deletions THEN "turn" ELSE IF k = "record" THEN "path" ELSE "saved",
                   !.saw = IF k = "refresh" THEN disk ELSE command[p].saw]
<1>1. /\ command[p] \in CommandRecord /\ command \in [Commands -> CommandRecord] /\ disk \in IndexRecord
      /\ ready \subseteq Panels
  BY DEF KnowledgeInv, KnowledgeTypeOK, CommandRecord, IndexRecord
<1>2. r \in CommandRecord
  BY <1>1 DEF CommandRecord, IndexRecord
<1>3. command' = [command EXCEPT ![p] = r] /\ command[p].at = "new"
  BY DEF Submit
<1>4. /\ r.kind = k /\ r.panel = c /\ r.at \in {"turn", "path", "saved"} /\ (r.at = "turn" <=> k \in Deletions)
      /\ r.answer = command[p].answer /\ (r.saw = command[p].saw \/ r.saw = disk)
  BY <1>1 DEF CommandRecord, Deletions
<1>5. command'[p] = r
  BY <1>1, <1>3
<1> HIDE DEF r
<1>6. FileStep(p)
  BY <1>3, <1>4, <1>5 DEF FileStep, InFile, Submit
<1>7. TurnStep(p)
  <2>1. ~InTurn(p) /\ (InTurn(p)' <=> k \in Deletions)
    BY <1>3, <1>4, <1>5 DEF InTurn
  <2> QED
    BY <1>4, <1>5, <2>1 DEF TurnStep, Submit
<1>8. r.answer # "synced"
  BY <1>3, <1>4 DEF KnowledgeInv, FileIsCurrent
<1>9. disk' = disk /\ panelShows' = panelShows /\ ready' = ready
  BY DEF Submit
<1> QED
  BY <1>1, <1>2, <1>3, <1>4, <1>6, <1>7, <1>8, <1>9, CommandMoves

(* A command that ends with an answer other than "synced". *)
LEMMA EndKeepsIndex ==
  ASSUME KnowledgeInv, NEW p \in Commands, NEW a \in {"none", "error", "partial", "synced", "lost"},
         command' = Answered(p, a), FileStep(p), turns' = TurnOver(p), command[p].at \notin {"new", "done"},
         command[p].at = "turn" => Head(turns[command[p].panel]) = p,
         a = "synced" => panelShows'[command[p].panel].v >= command[p].saw.v,
         disk' = disk, ready' = ready,
         \/ panelShows' = panelShows
         \/ /\ command[p].at = "recording"
            /\ panelShows' = [panelShows EXCEPT ![command[p].panel] = command[p].snap]
  PROVE  KnowledgeInv' /\ IndexKeeps
<1>1. TurnStep(p)
  BY TurnIsOver
<1>2. PICK r \in CommandRecord :
        /\ Answered(p, a) = [command EXCEPT ![p] = r]
        /\ r.at = "done" /\ r.answer = a /\ r.saw = command[p].saw /\ r.panel = command[p].panel
  BY AnsweredRecord
<1>3. ready \subseteq Panels
  BY DEF KnowledgeInv, KnowledgeTypeOK
<1> QED
  BY <1>1, <1>2, <1>3, CommandMoves

(* A command whose place alone moves, with what it has read. *)
LEMMA PlaceMoves ==
  ASSUME KnowledgeInv, NEW p \in Commands, NEW r \in CommandRecord, command' = [command EXCEPT ![p] = r],
         r.kind = command[p].kind, r.panel = command[p].panel, r.answer = command[p].answer, r.saw = command[p].saw,
         r.at \notin {"new", "turn", "done"}, command[p].at \notin {"new", "done"},
         command[p].at = "turn" => Head(turns[command[p].panel]) = p,
         r.at \in {"writing", "recording"} => r.snap = disk,
         FileStep(p), UNCHANGED <<turns, disk, panelShows, ready>>
  PROVE  KnowledgeInv' /\ IndexKeeps
<1>1. command \in [Commands -> CommandRecord] /\ command'[p] = r /\ ready \subseteq Panels
  BY DEF KnowledgeInv, KnowledgeTypeOK, CommandRecord
<1>2. TurnStep(p)
  BY <1>1 DEF TurnStep, InTurn
<1>3. r.answer # "synced"
  BY DEF KnowledgeInv, FileIsCurrent
<1> QED
  BY <1>1, <1>2, <1>3, CommandMoves

(* The places a command is at. *)
CommandPlaces == {"new", "turn", "path", "saving", "writing", "saved", "publishing", "recording", "done"}

(* The record of a command whose place moves. *)
LEMMA PlacedRecord ==
  ASSUME KnowledgeInv, NEW p \in Commands, NEW t \in CommandPlaces
  PROVE  \E r \in CommandRecord :
           /\ [command EXCEPT ![p].at = t] = [command EXCEPT ![p] = r]
           /\ r.kind = command[p].kind /\ r.panel = command[p].panel /\ r.answer = command[p].answer
           /\ r.saw = command[p].saw /\ r.at = t /\ r.snap = command[p].snap
<1> DEFINE r == [command[p] EXCEPT !.at = t]
<1>1. command[p] \in CommandRecord /\ command \in [Commands -> CommandRecord]
  BY DEF KnowledgeInv, KnowledgeTypeOK, CommandRecord
<1>2. r \in CommandRecord
  BY <1>1 DEF CommandRecord, CommandPlaces
<1>3. [command EXCEPT ![p].at = t] = [command EXCEPT ![p] = r]
  BY <1>1
<1>4. /\ r.kind = command[p].kind /\ r.panel = command[p].panel /\ r.answer = command[p].answer
      /\ r.saw = command[p].saw /\ r.at = t /\ r.snap = command[p].snap
  BY <1>1 DEF CommandRecord
<1> QED
  BY <1>2, <1>3, <1>4

(* A turn is taken by the head of its controller's queue, or ends there. *)
LEMMA TakeTurnKeeps ==
  ASSUME KnowledgeInv, NEW p \in Commands, TakeTurn(p)
  PROVE  KnowledgeInv' /\ IndexKeeps
<1>0. "path" \in CommandPlaces
  BY DEF CommandPlaces
<1>1. /\ command \in [Commands -> CommandRecord] /\ command[p].at = "turn"
      /\ Head(turns[command[p].panel]) = p
      /\ UNCHANGED <<fileQueue, disk, panelShows, ready>>
  BY DEF KnowledgeInv, KnowledgeTypeOK, CommandRecord, TakeTurn
<1>2. CASE command[p].panel \in ready
  <2>1. command' = [command EXCEPT ![p].at = "path"] /\ turns' = turns
    BY <1>2 DEF TakeTurn
  <2>2. PICK r \in CommandRecord :
          /\ [command EXCEPT ![p].at = "path"] = [command EXCEPT ![p] = r]
          /\ r.kind = command[p].kind /\ r.panel = command[p].panel /\ r.answer = command[p].answer
          /\ r.saw = command[p].saw /\ r.at = "path" /\ r.snap = command[p].snap
    BY <1>0, PlacedRecord
  <2>3. FileStep(p)
    BY <1>1, <2>1 DEF FileStep, InFile
  <2> QED
    BY <1>1, <2>1, <2>2, <2>3, PlaceMoves
<1>3. CASE command[p].panel \notin ready
  <2>1. command' = Answered(p, "error") /\ turns' = TurnOver(p)
    BY <1>3 DEF TakeTurn
  <2>2. FileStep(p)
    BY <1>1, <2>1 DEF FileStep, InFile, Answered
  <2> QED
    BY <1>1, <2>1, <2>2, EndKeepsIndex
<1> QED
  BY <1>2, <1>3

(* A command joins the file's queue, to save or to publish, or its publication is refused. *)
LEMMA JoinKeeps ==
  ASSUME KnowledgeInv, NEW p \in Commands, JoinToSave(p) \/ JoinToPublish(p)
  PROVE  KnowledgeInv' /\ IndexKeeps
<1>1. /\ command \in [Commands -> CommandRecord] /\ command[p].at \in {"path", "saved"}
      /\ UNCHANGED <<disk, panelShows, ready>>
  BY DEF KnowledgeInv, KnowledgeTypeOK, CommandRecord, JoinToSave, JoinToPublish
<1>2. ASSUME NEW t \in {"saving", "publishing"}, command' = [command EXCEPT ![p].at = t],
             fileQueue' = Append(fileQueue, p), turns' = turns
      PROVE  KnowledgeInv' /\ IndexKeeps
  <2>0. t \in CommandPlaces
    BY DEF CommandPlaces
  <2>1. PICK r \in CommandRecord :
          /\ [command EXCEPT ![p].at = t] = [command EXCEPT ![p] = r]
          /\ r.kind = command[p].kind /\ r.panel = command[p].panel /\ r.answer = command[p].answer
          /\ r.saw = command[p].saw /\ r.at = t /\ r.snap = command[p].snap
    BY <2>0, PlacedRecord
  <2>2. FileStep(p)
    BY <1>1, <1>2 DEF FileStep, InFile
  <2> QED
    BY <1>1, <1>2, <2>1, <2>2, PlaceMoves
<1>3. CASE JoinToSave(p)
  BY <1>2, <1>3 DEF JoinToSave
<1>4. CASE JoinToPublish(p) /\ command[p].panel \in ready
  BY <1>2, <1>4 DEF JoinToPublish
<1>5. CASE JoinToPublish(p) /\ command[p].panel \notin ready
  <2>1. command' = Unpublished(p) /\ turns' = TurnOver(p) /\ fileQueue' = fileQueue
    BY <1>5 DEF JoinToPublish
  <2>2. PICK a \in {"error", "partial"} : command' = Answered(p, a)
    BY <2>1 DEF Unpublished
  <2>3. FileStep(p)
    BY <1>1, <2>1, <2>2 DEF FileStep, InFile, Answered
  <2> QED
    BY <1>1, <2>1, <2>2, <2>3, EndKeepsIndex
<1> QED
  BY <1>3, <1>4, <1>5

(* The head of the file's queue reads what the file holds. *)
LEMMA ReadKeeps ==
  ASSUME KnowledgeInv, NEW p \in Commands, ReadToSave(p) \/ ReadToPublish(p)
  PROVE  KnowledgeInv' /\ IndexKeeps
<1>1. /\ command \in [Commands -> CommandRecord] /\ command[p].at \in {"saving", "publishing"} /\ HasFile(p)
      /\ UNCHANGED <<turns, fileQueue, disk, panelShows, ready>>
  BY DEF KnowledgeInv, KnowledgeTypeOK, CommandRecord, ReadToSave, ReadToPublish
<1>2. PICK t \in {"writing", "recording"} : command' = [command EXCEPT ![p].at = t, ![p].snap = disk]
  BY DEF ReadToSave, ReadToPublish, OnDisk
<1> DEFINE r == [command[p] EXCEPT !.at = t, !.snap = disk]
<1>3. command[p] \in CommandRecord /\ disk \in IndexRecord
  BY <1>1 DEF KnowledgeInv, KnowledgeTypeOK, IndexRecord
<1>4. r \in CommandRecord
  BY <1>3 DEF CommandRecord, IndexRecord
<1>5. command' = [command EXCEPT ![p] = r]
  BY <1>1, <1>2
<1>6. /\ r.kind = command[p].kind /\ r.panel = command[p].panel /\ r.answer = command[p].answer
      /\ r.saw = command[p].saw /\ r.at = t /\ r.snap = disk
  BY <1>3 DEF CommandRecord
<1>7. FileStep(p)
  BY <1>1, <1>2 DEF FileStep, InFile
<1> HIDE DEF r
<1> QED
  BY <1>1, <1>4, <1>5, <1>6, <1>7, PlaceMoves

(* A save, a publication or the failure of one leaves the file's queue. *)
LEMMA LeaveKeeps ==
  ASSUME KnowledgeInv, NEW p \in Commands, SaveFails(p) \/ Publish(p) \/ PublishFails(p)
  PROVE  KnowledgeInv' /\ IndexKeeps
<1>1. /\ command \in [Commands -> CommandRecord] /\ command[p].at \in {"writing", "recording"}
      /\ UNCHANGED <<disk, ready>> /\ fileQueue' = Tail(fileQueue) /\ turns' = TurnOver(p)
  BY DEF KnowledgeInv, KnowledgeTypeOK, CommandRecord, SaveFails, Publish, PublishFails, LeftQueue
<1>2. \/ panelShows' = panelShows
      \/ /\ command[p].at = "recording"
         /\ panelShows' = [panelShows EXCEPT ![command[p].panel] = command[p].snap]
  BY DEF SaveFails, Publish, PublishFails
<1>3. PICK a \in {"error", "partial", "synced"} : command' = Answered(p, a) /\ (a = "synced" => Publish(p))
  BY DEF SaveFails, Publish, PublishFails, Unpublished
<1>4. FileStep(p)
  BY <1>1, <1>3 DEF FileStep, InFile, Answered
<1>5. a = "synced" => panelShows'[command[p].panel].v >= command[p].saw.v
  <2> SUFFICES ASSUME a = "synced"
               PROVE  panelShows'[command[p].panel].v >= command[p].saw.v
    OBVIOUS
  <2>1. /\ command[p].at = "recording" /\ panelShows' = [panelShows EXCEPT ![command[p].panel] = command[p].snap]
        /\ panelShows \in [Panels -> IndexRecord] /\ command[p].panel \in Panels
    BY <1>1, <1>3 DEF Publish, KnowledgeInv, KnowledgeTypeOK, IndexRecord, CommandRecord
  <2>2. panelShows'[command[p].panel] = disk
    BY <2>1 DEF KnowledgeInv, FileIsCurrent
  <2>3. command[p].saw.v <= disk.v /\ disk.v \in Nat /\ command[p].saw.v \in Nat
    BY DEF KnowledgeInv, FileIsCurrent, KnowledgeTypeOK
  <2> QED
    BY <2>2, <2>3
<1> QED
  BY <1>1, <1>2, <1>3, <1>4, <1>5, EndKeepsIndex

(* A save writes the file the head has read, and what it saw is what the file holds then. *)
LEMMA SaveKeeps ==
  ASSUME KnowledgeInv, NEW p \in Commands, Save(p)
  PROVE  KnowledgeInv' /\ IndexKeeps
<1> DEFINE next == Patched(command[p].kind, command[p].entry, command[p].snap.entries)
           r == [command[p] EXCEPT !.at = "saved", !.saw = disk']
<1>1. /\ command \in [Commands -> CommandRecord] /\ command[p] \in CommandRecord /\ disk \in IndexRecord
      /\ panelShows \in [Panels -> IndexRecord] /\ ready \subseteq Panels
  BY DEF KnowledgeInv, KnowledgeTypeOK, CommandRecord, IndexRecord
<1>2. command[p].at = "writing" /\ command[p].snap = disk
  BY DEF Save, KnowledgeInv, FileIsCurrent
<1>3. next \subseteq EntryIds /\ next = Patched(command[p].kind, command[p].entry, disk.entries)
  BY <1>1, <1>2 DEF CommandRecord, IndexRecord, Patched
<1>4. /\ disk' = disk \/ disk' = [v |-> disk.v + 1, entries |-> next]
      /\ command' = [command EXCEPT ![p].at = "saved", ![p].saw = disk']
      /\ fileQueue' = Tail(fileQueue) /\ UNCHANGED <<turns, panelShows, ready>>
  BY DEF Save, LeftQueue
<1> HIDE DEF next
<1>5. disk' \in IndexRecord /\ disk'.v >= disk.v /\ disk.v \in Nat /\ disk'.v \in Nat
  BY <1>1, <1>3, <1>4 DEF IndexRecord
<1>6. disk' # disk => disk'.entries = Patched(command[p].kind, command[p].entry, disk.entries)
  BY <1>3, <1>4
<1>7. /\ r \in CommandRecord /\ command' = [command EXCEPT ![p] = r] /\ command'[p] = r
      /\ r.at = "saved" /\ r.kind = command[p].kind /\ r.panel = command[p].panel
      /\ r.saw = disk' /\ r.answer = command[p].answer
  <2>1. r \in CommandRecord
    BY <1>1, <1>5 DEF CommandRecord, IndexRecord
  <2>2. command' = [command EXCEPT ![p] = r]
    BY <1>1, <1>4
  <2>3. command'[p] = r
    BY <1>1, <2>2
  <2> QED
    BY <1>1, <2>1, <2>2, <2>3 DEF CommandRecord
<1> HIDE DEF r
<1>8. FileStep(p)
  BY <1>2, <1>4, <1>7 DEF FileStep, InFile
<1>9. TurnStep(p)
  BY <1>2, <1>4, <1>7 DEF TurnStep, InTurn
<1>10. /\ QueuesInOrder' /\ command' \in [Commands -> CommandRecord]
       /\ turns' \in [Panels -> Seq(Commands)] /\ fileQueue' \in Seq(Commands)
  BY <1>7, <1>8, <1>9, QueuesMove
<1>11. \A q \in Commands \ {p} : command'[q] = command[q]
  BY <1>1, <1>7
<1>12. FileIsCurrent'
  <2>1. ASSUME NEW q \in Commands
        PROVE  command'[q].at \notin {"writing", "recording"}
    <3>1. CASE q = p
      BY <1>7, <3>1
    <3>2. ASSUME q # p, command[q].at \in {"writing", "recording"}
          PROVE  FALSE
      BY <1>2, <3>2, RunnerHasFile DEF HasFile
    <3> QED
      BY <1>11, <3>1, <3>2
  <2>2. ASSUME NEW q \in Commands
        PROVE  command'[q].saw.v <= disk'.v /\ (command'[q].answer = "synced" => command'[q].at = "done")
    <3>1. CASE q = p
      BY <1>2, <1>5, <1>7, <3>1 DEF KnowledgeInv, FileIsCurrent
    <3>2. CASE q # p
      <4>1. command'[q] = command[q] /\ command[q].saw.v \in Nat /\ command[q].saw.v <= disk.v
        BY <1>1, <1>11, <3>2 DEF KnowledgeInv, FileIsCurrent, CommandRecord
      <4> QED
        BY <1>5, <4>1 DEF KnowledgeInv, FileIsCurrent
    <3> QED
      BY <3>1, <3>2
  <2>3. ASSUME NEW c \in Panels
        PROVE  panelShows'[c].v <= disk'.v
    <3>1. panelShows'[c].v <= disk.v /\ panelShows'[c].v \in Nat
      BY <1>1, <1>4 DEF KnowledgeInv, FileIsCurrent, IndexRecord
    <3> QED
      BY <1>5, <3>1
  <2> QED
    BY <2>1, <2>2, <2>3 DEF FileIsCurrent
<1>13. SyncedIsShown'
  <2> SUFFICES ASSUME NEW q \in Commands, command'[q].answer = "synced"
               PROVE  panelShows'[command'[q].panel].v >= command'[q].saw.v
    BY DEF SyncedIsShown
  <2>1. q # p
    BY <1>2, <1>7 DEF KnowledgeInv, FileIsCurrent
  <2> QED
    BY <1>4, <1>11, <2>1 DEF KnowledgeInv, SyncedIsShown
<1>14. KnowledgeTypeOK'
  BY <1>1, <1>4, <1>5, <1>10 DEF KnowledgeTypeOK, CommandRecord, IndexRecord
<1>15. \A c \in Panels : panelShows'[c].v >= panelShows[c].v
  BY <1>1, <1>4 DEF IndexRecord
<1> QED
  BY <1>6, <1>10, <1>12, <1>13, <1>14, <1>15 DEF KnowledgeInv, IndexKeeps

(* A restart empties both kinds of queues: every command it cuts short is lost. *)
LEMMA StopKeepsIndex ==
  ASSUME KnowledgeInv, KnowledgeStops
  PROVE  KnowledgeInv' /\ IndexKeeps
<1>1. /\ command \in [Commands -> CommandRecord] /\ panelShows \in [Panels -> IndexRecord]
      /\ UNCHANGED <<disk, panelShows, ready>> /\ fileQueue' = <<>> /\ turns' = [c \in Panels |-> <<>>]
      /\ command' = [p \in Commands |->
           IF command[p].at \in {"new", "done"} THEN command[p]
           ELSE [command[p] EXCEPT !.at = "done", !.answer = "lost"]]
  BY DEF KnowledgeStops, KnowledgeInv, KnowledgeTypeOK, CommandRecord, IndexRecord
<1>2. ASSUME NEW p \in Commands
      PROVE  /\ command'[p] \in CommandRecord /\ command'[p].at \in {"new", "done"}
             /\ command'[p].saw = command[p].saw /\ command'[p].panel = command[p].panel
             /\ command'[p] = command[p] \/ (command'[p].answer = "lost" /\ command'[p].at = "done")
  <2>1. command[p] \in CommandRecord
    BY <1>1
  <2>2. CASE command[p].at \in {"new", "done"}
    BY <1>1, <2>1, <2>2
  <2>3. CASE command[p].at \notin {"new", "done"}
    <3>1. command'[p] = [command[p] EXCEPT !.at = "done", !.answer = "lost"]
      BY <1>1, <2>3
    <3> QED
      BY <2>1, <3>1 DEF CommandRecord
  <2> QED
    BY <2>2, <2>3
<1>3. command' \in [Commands -> CommandRecord]
  BY <1>1, <1>2
<1>4. FileMembers' = {} /\ \A c \in Panels : TurnMembers(c)' = {}
  BY <1>2 DEF FileMembers, TurnMembers, InTurn, InFile
<1>5. QueuesInOrder'
  <2>1. Serves(fileQueue', FileMembers', FileRunning')
    BY <1>1, <1>4, EmptyServes
  <2>2. \A c \in Panels : Serves(turns'[c], TurnMembers(c)', TurnRunning')
    BY <1>1, <1>4, EmptyServes
  <2>3. \A p \in Commands : command'[p].at # "turn"
    BY <1>2
  <2> QED
    BY <2>1, <2>2, <2>3 DEF QueuesInOrder
<1>6. FileIsCurrent' /\ SyncedIsShown'
  BY <1>1, <1>2 DEF KnowledgeInv, FileIsCurrent, SyncedIsShown
<1>7. turns' \in [Panels -> Seq(Commands)] /\ fileQueue' \in Seq(Commands)
  BY <1>1, EmptySeq
<1>8. KnowledgeTypeOK'
  BY <1>1, <1>3, <1>7 DEF KnowledgeInv, KnowledgeTypeOK, CommandRecord
<1>9. \A c \in Panels : panelShows'[c].v >= panelShows[c].v
  <2>1. \A c \in Panels : panelShows[c].v \in Nat /\ panelShows'[c].v = panelShows[c].v
    BY <1>1 DEF IndexRecord
  <2> QED
    BY <2>1
<1> QED
  BY <1>1, <1>5, <1>6, <1>8, <1>9 DEF KnowledgeInv, IndexKeeps

(* A step that leaves the commands, the queues, the file and the panels keeps them. *)
LEMMA IndexStands ==
  ASSUME KnowledgeInv, UNCHANGED <<command, turns, fileQueue, disk, panelShows>>, ready' \subseteq Panels
  PROVE  KnowledgeInv' /\ IndexKeeps
<1>1. KnowledgeTypeOK'
  BY DEF KnowledgeInv, KnowledgeTypeOK
<1>2. FileMembers' = FileMembers /\ FileRunning' = FileRunning /\ TurnRunning' = TurnRunning
      /\ \A c \in Panels : TurnMembers(c)' = TurnMembers(c)
  BY DEF FileMembers, FileRunning, TurnRunning, TurnMembers, InTurn
<1>3. QueuesInOrder'
  BY <1>2 DEF KnowledgeInv, QueuesInOrder
<1>4. FileIsCurrent' /\ SyncedIsShown'
  BY DEF KnowledgeInv, FileIsCurrent, SyncedIsShown
<1>5. \A c \in Panels : panelShows'[c].v >= panelShows[c].v
  BY DEF KnowledgeInv, KnowledgeTypeOK
<1> QED
  BY <1>1, <1>3, <1>4, <1>5 DEF KnowledgeInv, IndexKeeps

(* At the head of a queue is one of its members: a command still under way there. *)
LEMMA HeadsAreUnderWay ==
  ASSUME KnowledgeInv
  PROVE  QueuesMoveOn
<1>1. ASSUME NEW q, NEW M, NEW R, Serves(q, M, R), q # <<>>
      PROVE  Head(q) \in M
  BY <1>1, HeadTailProperties DEF Serves
<1>2. fileQueue # <<>> => Head(fileQueue) \in FileMembers
  BY <1>1 DEF KnowledgeInv, QueuesInOrder
<1>3. \A c \in Panels : turns[c] # <<>> => Head(turns[c]) \in TurnMembers(c)
  BY <1>1 DEF KnowledgeInv, QueuesInOrder
<1> QED
  BY <1>2, <1>3 DEF QueuesMoveOn, FileMembers, TurnMembers, InTurn, InFile

(* Every step of the project's commands keeps the invariant, the file and the panels. *)
LEMMA KnowledgeStep ==
  ASSUME KnowledgeInv, [KnowledgeNext]_knowledgeVars
  PROVE  KnowledgeInv' /\ IndexKeeps
<1>1. ASSUME NEW p \in Commands, NEW k \in IndexCommands, NEW c \in Panels, NEW e \in EntryIds, Submit(p, k, c, e)
      PROVE  KnowledgeInv' /\ IndexKeeps
  BY <1>1, SubmitKeeps
<1>2. ASSUME NEW p \in Commands, TakeTurn(p)
      PROVE  KnowledgeInv' /\ IndexKeeps
  BY <1>2, TakeTurnKeeps
<1>3. ASSUME NEW p \in Commands, JoinToSave(p) \/ JoinToPublish(p)
      PROVE  KnowledgeInv' /\ IndexKeeps
  BY <1>3, JoinKeeps
<1>4. ASSUME NEW p \in Commands, ReadToSave(p) \/ ReadToPublish(p)
      PROVE  KnowledgeInv' /\ IndexKeeps
  BY <1>4, ReadKeeps
<1>5. ASSUME NEW p \in Commands, Save(p)
      PROVE  KnowledgeInv' /\ IndexKeeps
  BY <1>5, SaveKeeps
<1>6. ASSUME NEW p \in Commands, SaveFails(p) \/ Publish(p) \/ PublishFails(p)
      PROVE  KnowledgeInv' /\ IndexKeeps
  BY <1>6, LeaveKeeps
<1>7. ASSUME NEW c \in Panels, WorkspaceGoes(c)
      PROVE  KnowledgeInv' /\ IndexKeeps
  <2>1. UNCHANGED <<command, turns, fileQueue, disk, panelShows>> /\ ready' \subseteq Panels
    BY <1>7 DEF WorkspaceGoes, KnowledgeInv, KnowledgeTypeOK
  <2> QED
    BY <2>1, IndexStands
<1>8. CASE KnowledgeStops
  BY <1>8, StopKeepsIndex
<1>9. CASE UNCHANGED knowledgeVars
  <2>1. UNCHANGED <<command, turns, fileQueue, disk, panelShows>> /\ ready' \subseteq Panels
    BY <1>9 DEF knowledgeVars, KnowledgeInv, KnowledgeTypeOK
  <2> QED
    BY <2>1, IndexStands
<1> QED
  BY <1>1, <1>2, <1>3, <1>4, <1>5, <1>6, <1>7, <1>8, <1>9 DEF KnowledgeNext

(* At first nothing is asked and both queues are empty. *)
LEMMA KnowledgeStart ==
  ASSUME KnowledgeInit
  PROVE  KnowledgeInv
<1>1. /\ Panels # {} /\ EntryIds # {}
      /\ (CHOOSE c \in Panels : TRUE) \in Panels /\ (CHOOSE e \in EntryIds : TRUE) \in EntryIds
  BY KnowledgeAssumption
<1>2. command \in [Commands -> CommandRecord]
      /\ \A p \in Commands : /\ command[p].at = "new" /\ command[p].answer = "none"
                               /\ command[p].saw = NoIndex
  BY <1>1 DEF KnowledgeInit, CommandRecord, IndexCommands, NoIndex
<1>3. disk \in IndexRecord /\ disk.v = 0 /\ ready = Panels /\ panelShows = [c \in Panels |-> NoIndex]
      /\ fileQueue = <<>> /\ turns = [c \in Panels |-> <<>>]
  BY DEF KnowledgeInit, IndexRecord
<1>4. KnowledgeTypeOK
  <2>1. panelShows \in [Panels -> IndexRecord]
    BY <1>3 DEF NoIndex, IndexRecord
  <2>2. turns \in [Panels -> Seq(Commands)] /\ fileQueue \in Seq(Commands)
    BY <1>3, EmptySeq
  <2> QED
    BY <1>2, <1>3, <2>1, <2>2 DEF KnowledgeTypeOK, CommandRecord, IndexRecord
<1>5. FileMembers = {} /\ \A c \in Panels : TurnMembers(c) = {}
  BY <1>2 DEF FileMembers, TurnMembers, InTurn, InFile
<1>6. QueuesInOrder
  <2>1. Serves(fileQueue, FileMembers, FileRunning)
    BY <1>3, <1>5, EmptyServes
  <2>2. \A c \in Panels : Serves(turns[c], TurnMembers(c), TurnRunning)
    BY <1>3, <1>5, EmptyServes
  <2> QED
    BY <1>2, <2>1, <2>2 DEF QueuesInOrder
<1>7. FileIsCurrent /\ SyncedIsShown
  BY <1>2, <1>3 DEF FileIsCurrent, SyncedIsShown, NoIndex
<1> QED
  BY <1>4, <1>6, <1>7 DEF KnowledgeInv

(* The index loses no command and every command is told the truth: a write applies one command to
   the file as it was just before, no panel goes back, a command told "synchronized" is on its panel,
   and nobody waits for a command that has ended (updateProjectSummary, publishLatest, the queues). *)
THEOREM KnowledgeStaysTrue == KnowledgeSpec => KnowledgeIsTrue
<1>1. KnowledgeInit => KnowledgeInv
  BY KnowledgeStart
<1>2. KnowledgeInv /\ [KnowledgeNext]_knowledgeVars => KnowledgeInv' /\ IndexKeeps
  BY KnowledgeStep
<1>3. KnowledgeInv => KnowledgeTypeOK /\ SyncedIsShown /\ QueuesMoveOn
  BY HeadsAreUnderWay DEF KnowledgeInv
<1>4. KnowledgeInv /\ [KnowledgeNext]_knowledgeVars =>
        [/\ disk' # disk => \E p \in Commands :
              disk'.entries = Patched(command[p].kind, command[p].entry, disk.entries)
         /\ \A c \in Panels : panelShows'[c].v >= panelShows[c].v]_knowledgeVars
  BY <1>2 DEF IndexKeeps
<1> QED
  BY <1>1, <1>2, <1>3, <1>4, PTL DEF KnowledgeSpec, KnowledgeIsTrue, KnowledgeIsOrdered

(* The verdict on the evidence *)

AnyKind == {"build", "test", "interface", "screenshot"}
AnySeen == {"none", "match", "mismatch", "unavailable", "elsewhere", "broken"}
AnyAnswer == {"none", "collected", "failed", "unavailable", "aborted"}
AnyRecord == [check : Nat, kind : AnyKind, exit : Int, failed : Nat, skipped : Nat,
              seen : AnySeen, wellFormed : BOOLEAN]
AnyOutcome == [exit : Int, seen : AnySeen, failed : Nat, skipped : Nat, proves : BOOLEAN]
AnyRequest == [phase : {"idle", "collecting", "taken", "recorded", "refused", "offered", "given"},
               kind : AnyAnswer, evidence : Seq(AnyRecord)]
AnyPort == [phase : {"off", "resolving", "running", "exiting"}, cut : {"none", "timed-out", "aborted"},
            settled : {"none", "interrupted", "done", "spawn-failed"}, out : AnyOutcome]

EvidenceTypes ==
  /\ reqs \in Seq([kind : AnyKind, required : BOOLEAN]) /\ Len(reqs) > 0
  /\ budget \in [current : Nat, max : Nat, teamSpent : BOOLEAN]
  /\ request \in AnyRequest
  /\ col \in [at : {"off", "checking", "running", "over"}, i : Nat, evidence : Seq(AnyRecord)]
  /\ port \in AnyPort
  /\ tree \in {"none", "alive", "gone"} /\ aborted \in BOOLEAN /\ current \in BOOLEAN
  /\ proven \subseteq DOMAIN reqs

(* The first n checks have one record each, and one that passes was earned. *)
Supports(rs, evidence, n, earned) ==
  /\ Len(evidence) = n
  /\ \A k \in 1 .. n :
       /\ evidence[k].check = k /\ evidence[k].wellFormed
       /\ AssessEvidenceRecord(rs[k], evidence[k]) = "none" => k \in earned

(* What the process left is a passing record only when the process really passed. *)
OutcomeIsTrue(req, i, out) ==
  out.exit = 0 /\ out.seen # "broken"
    /\ AssessEvidenceRecord(req, Record(i, req.kind, out)) = "none" => out.proves

(* One run at a time, for the check the collector is at. *)
RunsInOrder ==
  /\ request.phase \in {"idle", "offered", "given"} => col.at = "off"
  /\ col.at = "running" <=> port.phase # "off"
  /\ port.phase \in {"resolving", "running"} => port.settled = "none"
  /\ port.phase = "exiting" => port.settled # "none"
  /\ col.at # "over" => col.i \in DOMAIN reqs /\ Supports(reqs, col.evidence, col.i - 1, proven)
  /\ port.settled = "done" => OutcomeIsTrue(reqs[col.i], col.i, port.out)

(* An answer that is taken was asked within the budget, and one with evidence is the last. *)
AnswersAreEarned ==
  /\ request.phase \in {"idle", "collecting", "taken", "recorded"} => \A k \in DOMAIN reqs : reqs[k].required
  /\ request.phase \in {"collecting", "taken", "recorded"} => RequestIsValid(budget)
  /\ request.phase \in {"taken", "recorded"} /\ request.kind = "collected" =>
       col.at = "over" /\ tree # "alive" /\ Supports(reqs, request.evidence, Len(reqs), proven)

RecordedAsTaken ==
  request.phase = "recorded" =>
    verdict = VerdictToRecord(reqs, request.evidence, request.kind, budget)

EvidenceInv ==
  EvidenceTypes /\ RunsInOrder /\ AnswersAreEarned /\ RecordedAsTaken /\ VerdictReplays

(* A collection that failed decides nothing. *)
LEMMA NoEvidenceIsNoVerdict ==
  ASSUME NEW rs, NEW raw, NEW status, NEW b, DOMAIN rs # {}, status # "collected"
  PROVE VerdictToRecord(rs, raw, status, b).disposition = "inconclusive"
  <1>1. CollectionReason(status) \notin FailedCodes /\ CollectionReason(status) # "none"
    BY DEF CollectionReason, FailedCodes
  <1> QED BY <1>1 DEF VerdictToRecord, EvaluateEvidenceVerdict, Disposition

(* Evidence that supports every check passes only when every check was earned. *)
LEMMA PassedIsEarned ==
  ASSUME reqs \in Seq([kind : AnyKind, required : BOOLEAN]), NEW ev \in Seq(AnyRecord), NEW b,
         Supports(reqs, ev, Len(reqs), proven), \A k \in DOMAIN reqs : reqs[k].required,
         VerdictToRecord(reqs, ev, "collected", b).disposition = "passed"
  PROVE DOMAIN reqs \subseteq proven
  <1>1. WellFormed(ev) = ev
    <2>0. DOMAIN ev = 1 .. Len(reqs)
      BY DEF Supports
    <2>1. {m \in DOMAIN ev : ev[m].wellFormed} = DOMAIN ev
      BY <2>0 DEF Supports
    <2>2. ev = [m \in DOMAIN ev |-> ev[m]]
      OBVIOUS
    <2> QED BY <2>1, <2>2 DEF WellFormed
  <1> SUFFICES ASSUME NEW k \in DOMAIN reqs PROVE k \in proven
    OBVIOUS
  <1>2. k \in 1 .. Len(reqs) /\ DOMAIN ev = 1 .. Len(reqs)
    BY DEF Supports
  <1>3. RecordsOf(ev, k) = {k}
    BY <1>2 DEF RecordsOf, Supports
  <1>4. AssessRequirement(reqs[k], k, ev) = AssessEvidenceRecord(reqs[k], ev[k])
    BY <1>3 DEF AssessRequirement, Several, RecordAt
  <1>5. AssessRequirement(reqs[k], k, ev) = "none"
    BY <1>1 DEF VerdictToRecord, EvaluateEvidenceVerdict, Disposition, IsRequired
  <1> QED BY <1>2, <1>4, <1>5 DEF Supports

(* What is recorded derives again from its own facts. *)
LEMMA RecordedReplays ==
  ASSUME NEW rs, NEW raw, NEW status, NEW b \in [current : Nat, max : Nat, teamSpent : BOOLEAN],
         RequestIsValid(b)
  PROVE ProjectionAccepts(rs, VerdictToRecord(rs, raw, status, b))
  <1> DEFINE valid == IF status = "collected" THEN WellFormed(raw) ELSE <<>>
             v == EvaluateEvidenceVerdict(rs, valid, status, b)
             r == VerdictToRecord(rs, raw, status, b)
             used == v.rework.action = "retry" /\ b.teamSpent
  <1>r. /\ r.disposition = v.disposition /\ r.codes = v.codes /\ r.status = status
        /\ r.evidence = valid /\ r.budget = b
        /\ r.rework = IF used THEN [action |-> "stop", next |-> 0, kinds |-> {"controller"}] ELSE v.rework
    BY DEF VerdictToRecord
  <1>v. /\ v.codes = [i \in DOMAIN rs |->
                        IF status = "collected" THEN AssessRequirement(rs[i], i, valid)
                        ELSE CollectionReason(status)]
        /\ v.disposition = Disposition(v.codes,
             IF status = "collected" THEN {i \in DOMAIN rs : IsRequired(rs[i], i, valid)} ELSE DOMAIN rs)
        /\ v.rework = IF v.disposition = "failed" THEN MakeReworkAdvice(b, v.codes) ELSE NoRework
    BY DEF EvaluateEvidenceVerdict
  <1> HIDE DEF v, r
  <1>1. status # "collected" => r.evidence = <<>>
    BY <1>r
  <1>2. ExpectedVerdict(rs, valid, status) = [codes |-> v.codes, disposition |-> v.disposition]
    <2> DEFINE gating == {i \in DOMAIN rs : status # "collected" \/ IsRequired(rs[i], i, valid)}
    <2>1. ASSUME NEW i \in DOMAIN rs
          PROVE ExpectedCode(rs[i], i, valid, status) =
                  IF status = "collected" THEN AssessRequirement(rs[i], i, valid)
                  ELSE CollectionReason(status)
      BY DEF ExpectedCode, AssessRequirement
    <2>2. [i \in DOMAIN rs |-> ExpectedCode(rs[i], i, valid, status)] = v.codes
      BY <2>1, <1>v
    <2>3. gating = IF status = "collected" THEN {i \in DOMAIN rs : IsRequired(rs[i], i, valid)} ELSE DOMAIN rs
      OBVIOUS
    <2>4. Disposition(v.codes, gating) = v.disposition
      BY <2>3, <1>v
    <2> QED BY <2>2, <2>4 DEF ExpectedVerdict
  <1>3. ReworkIsValid(r)
    <2>1. CASE v.disposition # "failed"
      BY <2>1, <1>r, <1>v DEF ReworkIsValid, NoRework
    <2>2. CASE v.disposition = "failed"
      <3>1. PICK i \in DOMAIN rs : v.codes[i] \in FailedCodes
        BY <2>2, <1>v DEF Disposition
      <3>2. DOMAIN v.codes = DOMAIN rs
        BY <1>v
      <3>3. MakeReworkAdvice(b, v.codes).kinds # {}
        BY <3>1, <3>2 DEF MakeReworkAdvice
      <3>4. /\ MakeReworkAdvice(b, v.codes).action \in {"retry", "stop"}
            /\ MakeReworkAdvice(b, v.codes).action = "retry" => MakeReworkAdvice(b, v.codes).next = b.current + 1
            /\ MakeReworkAdvice(b, v.codes).action = "stop" => MakeReworkAdvice(b, v.codes).next = 0
        BY DEF MakeReworkAdvice
      <3>5. b.current <= b.max /\ b.max <= MaxReworkRounds
        BY DEF RequestIsValid
      <3>6. v.rework = MakeReworkAdvice(b, v.codes)
        BY <2>2, <1>v
      <3>7. CASE used
        BY <3>5, <3>7, <2>2, <1>r DEF ReworkIsValid
      <3>8. CASE ~used
        BY <3>3, <3>4, <3>5, <3>6, <3>8, <2>2, <1>r DEF ReworkIsValid
      <3> QED BY <3>7, <3>8
    <2> QED BY <2>1, <2>2
  <1>4. ProjectionAccepts(rs, r)
    BY <1>1, <1>2, <1>3, <1>r DEF ProjectionAccepts
  <1> QED BY <1>4 DEF r

LEMMA PortIsIdle ==
  /\ PortIdle.phase = "off" /\ PortIdle.settled = "none"
  /\ PortIdle \in AnyPort
  BY DEF PortIdle, NoOutcome, AnyOutcome, AnySeen, AnyPort

(* Support is kept while what was earned only grows. *)
LEMMA SupportStays ==
  ASSUME NEW rs, NEW ev, NEW n, NEW earned, NEW more, Supports(rs, ev, n, earned), earned \subseteq more
  PROVE Supports(rs, ev, n, more)
  BY DEF Supports

LEMMA FunctionIsSequence ==
  ASSUME NEW S, NEW n \in Nat, NEW f \in [1 .. n -> S]
  PROVE f \in Seq(S) /\ Len(f) = n
  OBVIOUS

LEMMA RequirementIsTyped ==
  ASSUME EvidenceTypes, NEW k \in DOMAIN reqs
  PROVE reqs[k].kind \in AnyKind /\ k \in Nat \ {0}
  <1>1. reqs \in Seq([kind : AnyKind, required : BOOLEAN]) /\ k \in 1 .. Len(reqs)
    BY DEF EvidenceTypes, AnyRequest, AnyPort
  <1>2. reqs[k] \in [kind : AnyKind, required : BOOLEAN]
    BY <1>1, ElementOfSeq
  <1> QED BY <1>1, <1>2

(* Nothing of a verdict that is there is touched. *)
LEMMA AnswerKeepsOrder ==
  ASSUME EvidenceInv, NEW kind \in AnyAnswer, NEW evidence \in Seq(AnyRecord), Answer(kind, evidence),
         col.at # "over", request.phase # "offered", request.phase # "given", request.phase # "idle",
         kind = "collected" => tree' # "alive" /\ Supports(reqs, evidence, Len(reqs), proven'),
         UNCHANGED <<reqs, budget, aborted, current, verdict>>,
         tree' \in {"none", "alive", "gone"}, proven \subseteq proven', proven' \subseteq DOMAIN reqs
  PROVE EvidenceInv'
  <1>t. EvidenceTypes'
    <2>2. col' \in [at : {"off", "checking", "running", "over"}, i : Nat, evidence : Seq(AnyRecord)]
      BY DEF EvidenceInv, EvidenceTypes, AnyRequest, AnyPort, Answer
    <2>3. request' \in AnyRequest
      BY DEF EvidenceInv, EvidenceTypes, AnyRequest, AnyPort, Answer
    <2> QED BY PortIsIdle, <2>2, <2>3 DEF EvidenceInv, EvidenceTypes, AnyRequest, AnyPort, Answer
  <1>2. RunsInOrder'
    BY PortIsIdle DEF EvidenceInv, EvidenceTypes, AnyRequest, AnyPort, RunsInOrder, Answer
  <1>3. AnswersAreEarned'
    <2>1. CASE request.phase = "collecting"
      <3>1. request' = [phase |-> "taken", kind |-> kind, evidence |-> evidence] /\ col'.at = "over"
        BY <2>1 DEF Answer, EvidenceInv, EvidenceTypes, AnyRequest, AnyPort
      <3> QED BY <3>1, <2>1, SupportStays DEF EvidenceInv, AnswersAreEarned, RequestIsValid
    <2>2. CASE request.phase # "collecting"
      <3>1. request' = request
        BY <2>2 DEF Answer
      <3>2. request.phase \in {"taken", "recorded"} => request.kind # "collected"
        BY DEF EvidenceInv, AnswersAreEarned
      <3> QED BY <3>1, <3>2, <2>2 DEF EvidenceInv, AnswersAreEarned, RequestIsValid
    <2> QED BY <2>1, <2>2
  <1>4. RecordedAsTaken'
    BY DEF EvidenceInv, RecordedAsTaken, Answer
  <1>5. VerdictReplays'
    BY DEF EvidenceInv, VerdictReplays
  <1> QED BY <1>t, <1>2, <1>3, <1>4, <1>5 DEF EvidenceInv

LEMMA EvidenceStarts ==
  ASSUME CollectInit \/ GivenInit
  PROVE EvidenceInv
  <1>1. EvidenceTypes /\ RunsInOrder /\ AnswersAreEarned
    <2>2. \E n \in Nat \ {0} : reqs \in [1 .. n -> [kind : AnyKind, required : BOOLEAN]]
      <3>1. CASE CollectInit
        <4>1. PICK n \in 1 .. MaxChecks : reqs \in [1 .. n -> [kind : CheckKinds, required : {TRUE}]]
          BY <3>1 DEF CollectInit
        <4>2. n \in Nat \ {0} /\ CheckKinds \subseteq AnyKind
          BY EvidenceAssumption DEF AnyKind
        <4> QED BY <4>1, <4>2
      <3>2. CASE GivenInit
        <4>1. reqs \in [1 .. 2 -> [kind : AnyKind, required : BOOLEAN]]
          BY <3>2 DEF GivenInit, AnyKind
        <4> QED BY <4>1
      <3> QED BY <3>1, <3>2
    <2>3. reqs \in Seq([kind : AnyKind, required : BOOLEAN]) /\ Len(reqs) > 0 /\ 1 \in DOMAIN reqs
      <3>1. PICK n \in Nat \ {0} : reqs \in [1 .. n -> [kind : AnyKind, required : BOOLEAN]]
        BY <2>2
      <3>2. reqs \in Seq([kind : AnyKind, required : BOOLEAN]) /\ Len(reqs) = n
        BY <3>1, FunctionIsSequence
      <3> QED BY <3>1, <3>2
    <2>4. budget \in [current : Nat, max : Nat, teamSpent : BOOLEAN]
      <3>1. budget \in [current : ReworkAttempts, max : {2}, teamSpent : BOOLEAN]
        BY DEF CollectInit, GivenInit
      <3>2. budget.current \in Nat
        BY <3>1, EvidenceAssumption
      <3>3. budget = [current |-> budget.current, max |-> 2, teamSpent |-> budget.teamSpent] /\ budget.teamSpent \in BOOLEAN
        BY <3>1
      <3> QED BY <3>2, <3>3
    <2>5. /\ request.phase \in {"idle", "offered"} /\ request.kind = "none" /\ request.evidence = <<>>
          /\ request = [phase |-> request.phase, kind |-> "none", evidence |-> <<>>]
          /\ col = [at |-> "off", i |-> 1, evidence |-> <<>>] /\ port = PortIdle
          /\ tree = "none" /\ aborted = FALSE /\ current = TRUE /\ proven = {}
      <3>1. CASE CollectInit
        BY <3>1 DEF CollectInit
      <3>2. CASE GivenInit
        BY <3>2 DEF GivenInit
      <3> QED BY <3>1, <3>2
    <2>6. EvidenceTypes
      <3>1. <<>> \in Seq(AnyRecord)
        OBVIOUS
      <3>2. request \in AnyRequest
        BY <2>5, <3>1 DEF AnyAnswer, AnyRequest
      <3>3. col \in [at : {"off", "checking", "running", "over"}, i : Nat, evidence : Seq(AnyRecord)]
        BY <2>5, <3>1
      <3> QED BY PortIsIdle, <2>3, <2>4, <2>5, <3>2, <3>3 DEF EvidenceTypes, AnyRequest, AnyPort
    <2>7. RunsInOrder
      BY PortIsIdle, <2>3, <2>5 DEF RunsInOrder, Supports
    <2>8. request.phase = "idle" => \A k \in DOMAIN reqs : reqs[k].required
      <3>1. CASE CollectInit
        BY <3>1 DEF CollectInit
      <3>2. CASE GivenInit
        BY <3>2 DEF GivenInit
      <3> QED BY <3>1, <3>2
    <2>9. AnswersAreEarned
      BY <2>5, <2>8 DEF AnswersAreEarned
    <2> QED BY <2>6, <2>7, <2>9
  <1>2. RecordedAsTaken /\ VerdictReplays
    <2>1. CASE CollectInit
      BY <2>1 DEF RecordedAsTaken, VerdictReplays, CollectInit
    <2>2. CASE GivenInit
      BY <2>2 DEF RecordedAsTaken, VerdictReplays, GivenInit
    <2> QED BY <2>1, <2>2
  <1> QED BY <1>1, <1>2 DEF EvidenceInv

(* What the run of a check leaves is taken. *)
LEMMA RunIsTaken ==
  ASSUME EvidenceInv, WaitForExit
  PROVE EvidenceInv'
  <1> USE DEF EvidenceInv
  <1> DEFINE kind == reqs[col.i].kind
             collected == Append(col.evidence, Record(col.i, kind, port.out))
             Unproven == \/ port.settled = "spawn-failed" \/ port.out.exit = -1
                         \/ kind \in {"interface", "screenshot"} /\ port.out.exit # 0
  <1>0. /\ port.phase = "exiting" /\ col.at = "running" /\ col.i \in DOMAIN reqs
        /\ UNCHANGED <<reqs, budget, tree, aborted, current, verdict>>
        /\ request.phase \notin {"idle", "offered", "given"}
    BY DEF WaitForExit, RunsInOrder, EvidenceTypes, AnyRequest, AnyPort
  <1>1. proven' = IF tree # "alive" /\ port.settled = "done" /\ port.out.proves
                  THEN proven \cup {col.i} ELSE proven
    BY DEF WaitForExit
  <1>2. proven \subseteq proven' /\ proven' \subseteq DOMAIN reqs
    BY <1>0, <1>1 DEF EvidenceTypes, AnyRequest, AnyPort
  <1>3. tree' \in {"none", "alive", "gone"}
    BY <1>0 DEF EvidenceTypes, AnyRequest, AnyPort
  <1>f. ASSUME NEW answer \in {"failed", "unavailable", "aborted"}, Answer(answer, <<>>) PROVE EvidenceInv'
    <2>1. <<>> \in Seq(AnyRecord) /\ answer \in AnyAnswer /\ answer # "collected"
      BY DEF AnyAnswer
    <2> QED BY <2>1, <1>f, <1>0, <1>2, <1>3, AnswerKeepsOrder
  <1>4. CASE tree = "alive"
    BY <1>4, <1>f DEF WaitForExit
  <1>5. CASE tree # "alive" /\ TakeRun
    <2>1. CASE port.settled = "interrupted"
      BY <2>1, <1>5, <1>f DEF TakeRun, InterruptedAnswer
    <2>2. CASE port.settled # "interrupted" /\ Unproven
      BY <2>2, <1>5, <1>f DEF TakeRun
    <2>3. CASE port.out.seen \in {"broken", "elsewhere"} /\ ~Unproven /\ port.settled # "interrupted"
      BY <2>3, <1>5, <1>f DEF TakeRun
    <2>4. CASE port.out.seen \notin {"broken", "elsewhere"} /\ ~Unproven /\ port.settled # "interrupted"
      <3>1. IF col.i = Len(reqs) THEN Answer("collected", collected)
            ELSE /\ col' = [at |-> "checking", i |-> col.i + 1, evidence |-> collected]
                 /\ port' = PortIdle
                 /\ UNCHANGED request
        BY <2>4, <1>5 DEF TakeRun
      <3>r. Record(col.i, kind, port.out) \in AnyRecord
        <4>1. kind \in AnyKind /\ col.i \in Nat
          BY <1>0, RequirementIsTyped
        <4>2. port.out \in AnyOutcome
          BY DEF EvidenceTypes, AnyRequest, AnyPort
        <4> HIDE DEF kind
        <4> QED BY <4>1, <4>2 DEF Record, AnyRecord, AnyOutcome
      <3>c. collected \in Seq(AnyRecord)
        BY <3>r DEF EvidenceTypes, AnyRequest, AnyPort
      <3>2. Supports(reqs, collected, col.i, proven')
        <4>1. Supports(reqs, col.evidence, col.i - 1, proven) /\ col.evidence \in Seq(AnyRecord) /\ col.i \in Nat
          BY <1>0 DEF RunsInOrder, EvidenceTypes, AnyRequest, AnyPort
        <4>2. /\ Len(collected) = col.i /\ collected[col.i] = Record(col.i, kind, port.out)
              /\ \A k \in 1 .. col.i - 1 : collected[k] = col.evidence[k]
          BY <4>1, <3>r DEF Supports
        <4>3. AssessEvidenceRecord(reqs[col.i], Record(col.i, kind, port.out)) = "none" => col.i \in proven'
          <5>1. SUFFICES ASSUME AssessEvidenceRecord(reqs[col.i], Record(col.i, kind, port.out)) = "none"
                PROVE port.settled = "done" /\ port.out.proves
            BY <1>1, <1>5
          <5>2. port.settled = "done"
            BY <2>4, <1>0 DEF RunsInOrder, EvidenceTypes, AnyRequest, AnyPort
          <5>3. Record(col.i, kind, port.out).kind = kind /\ Record(col.i, kind, port.out).exit = port.out.exit
            BY DEF Record
          <5>4. kind \in AnyKind
            BY <1>0, RequirementIsTyped
          <5>5. port.out.exit = 0
            <6>1. CASE kind = "build"
              BY <6>1, <5>1, <5>3 DEF AssessEvidenceRecord
            <6>2. CASE kind = "test"
              BY <6>2, <5>1, <5>3 DEF AssessEvidenceRecord
            <6>3. CASE kind \in {"interface", "screenshot"}
              BY <6>3, <2>4
            <6> QED BY <6>1, <6>2, <6>3, <5>4 DEF AnyKind
          <5> QED BY <5>1, <5>2, <5>5, <2>4, <1>0 DEF RunsInOrder, OutcomeIsTrue
        <4>4. Record(col.i, kind, port.out).check = col.i /\ Record(col.i, kind, port.out).wellFormed
          BY DEF Record
        <4> QED BY <4>1, <4>2, <4>3, <4>4, <1>2, <1>0 DEF Supports
      <3>3. CASE col.i = Len(reqs)
        <4>1. Supports(reqs, collected, Len(reqs), proven')
          BY <3>2, <3>3, <1>0
        <4> QED BY <3>2, <3>1, <3>3, <3>c, <1>0, <1>2, <1>3, <1>5, AnswerKeepsOrder DEF AnyAnswer
      <3>4. CASE col.i # Len(reqs)
        <4>0. /\ col' = [at |-> "checking", i |-> col.i + 1, evidence |-> collected]
              /\ port' = PortIdle /\ UNCHANGED request
          BY <3>1, <3>4
        <4>1. col.i + 1 \in DOMAIN reqs /\ col.i \in Nat
          BY <3>4, <1>0 DEF EvidenceTypes, AnyRequest, AnyPort
        <4>2. EvidenceTypes'
          BY <4>0, <4>1, <3>c, <1>0, <1>2, PortIsIdle DEF EvidenceTypes, AnyRequest, AnyPort
        <4>3. RunsInOrder'
          BY <4>0, <4>1, <3>2, <1>0, PortIsIdle DEF RunsInOrder, EvidenceTypes, AnyRequest, AnyPort
        <4>4. AnswersAreEarned'
          BY <4>0, <1>0, SupportStays DEF AnswersAreEarned, RequestIsValid
        <4>5. RecordedAsTaken' /\ VerdictReplays'
          BY <4>0, <1>0 DEF RecordedAsTaken, VerdictReplays
        <4> QED BY <4>2, <4>3, <4>4, <4>5
      <3> QED BY <3>3, <3>4
    <2> QED BY <2>1, <2>2, <2>3, <2>4
  <1> QED BY <1>4, <1>5 DEF WaitForExit

(* The port hands a passing record over only for a process that really passed. *)
LEMMA EndIsTrue ==
  ASSUME EvidenceInv, ProcessEnds
  PROVE EvidenceInv'
  <1> USE DEF EvidenceInv
  <1> DEFINE kind == reqs[col.i].kind
  <1>0. /\ port.phase = "running" /\ col.at = "running" /\ col.i \in DOMAIN reqs
        /\ UNCHANGED <<reqs, budget, request, col, tree, aborted, current, verdict, proven>>
    <2>1. port.phase = "running" /\ UNCHANGED <<reqs, budget, request, col, tree, aborted, current, verdict, proven>>
      BY Zenon DEF ProcessEnds
    <2>2. col.at = "running"
      BY <2>1 DEF RunsInOrder
    <2>3. col.i \in DOMAIN reqs
      BY <2>2 DEF RunsInOrder
    <2> QED BY <2>1, <2>2, <2>3
  <1>k. kind \in AnyKind
    BY <1>0, RequirementIsTyped
  <1>1. \/ \E exit \in {-1, 0, 1}, seen \in Seen(kind) :
           \E report \in (IF kind = "test" THEN Reports ELSE {NoReport}) :
             port' = [port EXCEPT !.phase = "exiting", !.settled = "done",
                                  !.out = RunOutcome(kind, exit, report, seen)]
        \/ port' = [port EXCEPT !.phase = "exiting", !.settled = "spawn-failed"]
    BY Zenon DEF ProcessEnds
  <1> HIDE DEF kind
  <1>2. ASSUME NEW exit \in {-1, 0, 1}, NEW seen \in Seen(kind), NEW report \in (IF kind = "test" THEN Reports ELSE {NoReport})
        PROVE RunOutcome(kind, exit, report, seen) \in AnyOutcome
    <2>1. seen \in AnySeen
      BY DEF Seen, AnySeen
    <2>2. report.claimed \in Counts /\ report.actual \in Counts
      BY DEF Reports, NoReport, NoCounts, Counts
    <2>3. report.claimed.failed \in Nat /\ report.claimed.skipped \in Nat
      BY <2>2 DEF Counts
    <2>4. Proves(kind, exit, report, seen) \in BOOLEAN
      BY DEF Proves
    <2> QED BY <2>1, <2>3, <2>4 DEF RunOutcome, AnyOutcome, AnySeen
  <1>3. ASSUME NEW exit \in {-1, 0, 1}, NEW seen \in Seen(kind), NEW report \in (IF kind = "test" THEN Reports ELSE {NoReport})
        PROVE OutcomeIsTrue(reqs[col.i], col.i, RunOutcome(kind, exit, report, seen))
    <2> DEFINE out == RunOutcome(kind, exit, report, seen)
               rec == Record(col.i, kind, out)
    <2>1. SUFFICES ASSUME out.exit = 0, out.seen # "broken", AssessEvidenceRecord(reqs[col.i], rec) = "none"
          PROVE out.proves
      BY DEF OutcomeIsTrue, kind
    <2>2. /\ out.exit = exit /\ out.proves = Proves(kind, exit, report, seen)
          /\ out.seen = IF kind = "test" /\ ~ReportIsComplete(report, exit) THEN "broken" ELSE seen
          /\ ReportIsComplete(report, exit) => out.failed = report.claimed.failed /\ out.skipped = report.claimed.skipped
      BY DEF RunOutcome
    <2>3. rec.kind = kind /\ rec.exit = exit /\ rec.failed = out.failed /\ rec.skipped = out.skipped /\ rec.seen = out.seen
      BY <2>2 DEF Record
    <2> HIDE DEF out, rec
    <2>4. CASE kind = "build"
      BY <2>4, <2>1, <2>2 DEF Proves
    <2>5. CASE kind = "test"
      <3>1. report.claimed \in Counts /\ report.actual = report.claimed
        BY <2>5, <2>1, <2>2 DEF Reports, ReportIsComplete
      <3>2. ~(out.failed > 0) /\ ~(out.skipped > 0)
        BY <2>5, <2>1, <2>3 DEF AssessEvidenceRecord
      <3>3. report.claimed.failed = 0 /\ report.claimed.skipped = 0 /\ report.claimed.passed \in Nat
        <4>1. ReportIsComplete(report, exit)
          BY <2>5, <2>1, <2>2
        <4>2. report.claimed.failed \in Nat /\ report.claimed.skipped \in Nat /\ report.claimed.passed \in Nat
          BY <3>1 DEF Counts
        <4> QED BY <4>1, <4>2, <3>2, <2>2
      <3> QED BY <2>5, <2>1, <2>2, <3>1, <3>3 DEF Proves, Total
    <2>6. CASE kind \notin {"build", "test"}
      <3>1. out.seen = "match"
        <4>1. kind \in {"interface", "screenshot"}
          BY <2>6, <1>k DEF AnyKind
        <4>2. rec.seen = "match"
          BY <4>1, <2>1, <2>3 DEF AssessEvidenceRecord
        <4> QED BY <4>2, <2>3
      <3> QED BY <3>1, <2>6, <2>1, <2>2 DEF Proves
    <2> QED BY <2>4, <2>5, <2>6
  <1>4. /\ port'.phase = "exiting" /\ port'.cut = port.cut /\ port'.settled \in {"done", "spawn-failed"}
        /\ port'.out \in AnyOutcome
        /\ port'.settled = "done" => OutcomeIsTrue(reqs[col.i], col.i, port'.out)
        /\ port' = [phase |-> port'.phase, cut |-> port'.cut, settled |-> port'.settled, out |-> port'.out]
    <2>1. CASE port' = [port EXCEPT !.phase = "exiting", !.settled = "spawn-failed"]
      BY <2>1 DEF EvidenceTypes, AnyRequest, AnyPort
    <2>2. ASSUME NEW exit \in {-1, 0, 1}, NEW seen \in Seen(kind),
                 NEW report \in (IF kind = "test" THEN Reports ELSE {NoReport}),
                 port' = [port EXCEPT !.phase = "exiting", !.settled = "done",
                                      !.out = RunOutcome(kind, exit, report, seen)]
          PROVE /\ port'.phase = "exiting" /\ port'.cut = port.cut /\ port'.settled = "done"
                /\ port'.out = RunOutcome(kind, exit, report, seen)
                /\ port' = [phase |-> port'.phase, cut |-> port'.cut, settled |-> port'.settled, out |-> port'.out]
      BY <2>2 DEF EvidenceTypes, AnyRequest, AnyPort
    <2>3. CASE \E exit \in {-1, 0, 1}, seen \in Seen(kind) :
                 \E report \in (IF kind = "test" THEN Reports ELSE {NoReport}) :
                   port' = [port EXCEPT !.phase = "exiting", !.settled = "done",
                                        !.out = RunOutcome(kind, exit, report, seen)]
      <3>1. PICK exit \in {-1, 0, 1}, seen \in Seen(kind) :
              \E report \in (IF kind = "test" THEN Reports ELSE {NoReport}) :
                port' = [port EXCEPT !.phase = "exiting", !.settled = "done",
                                     !.out = RunOutcome(kind, exit, report, seen)]
        BY <2>3, Zenon
      <3>2. PICK report \in (IF kind = "test" THEN Reports ELSE {NoReport}) :
              port' = [port EXCEPT !.phase = "exiting", !.settled = "done",
                                   !.out = RunOutcome(kind, exit, report, seen)]
        BY <3>1, Zenon
      <3> DEFINE out == RunOutcome(kind, exit, report, seen)
      <3>3. out \in AnyOutcome /\ OutcomeIsTrue(reqs[col.i], col.i, out)
        BY <1>2, <1>3, Zenon
      <3>4. /\ port'.phase = "exiting" /\ port'.cut = port.cut /\ port'.settled = "done"
            /\ port'.out = out
            /\ port' = [phase |-> port'.phase, cut |-> port'.cut, settled |-> port'.settled, out |-> port'.out]
        BY <3>2, <2>2, Zenon
      <3> HIDE DEF out
      <3> QED BY <3>3, <3>4
    <2> QED BY <1>1, <2>1, <2>3, Zenon
  <1>5. EvidenceTypes' /\ RunsInOrder'
    BY <1>0, <1>4 DEF EvidenceTypes, AnyRequest, AnyPort, RunsInOrder
  <1>6. AnswersAreEarned' /\ RecordedAsTaken' /\ VerdictReplays'
    BY <1>0 DEF AnswersAreEarned, RecordedAsTaken, VerdictReplays, RequestIsValid
  <1> QED BY <1>5, <1>6

(* Every step keeps the order of the runs and the truth of what is taken. *)
LEMMA EvidenceStays ==
  ASSUME EvidenceInv, [CollectNext]_evidenceVars
  PROVE EvidenceInv'
  <1> USE DEF EvidenceInv
  <1>e. <<>> \in Seq(AnyRecord)
    OBVIOUS
  <1>1. CASE CollectAndRecord
    <2>0. /\ request.phase = "idle" /\ col.at = "off"
          /\ UNCHANGED <<reqs, budget, port, tree, aborted, current, verdict, proven>>
      BY <1>1 DEF CollectAndRecord, RunsInOrder
    <2>1. \/ request' = [request EXCEPT !.phase = "refused"] /\ UNCHANGED col
          \/ /\ RequestIsValid(budget) /\ UNCHANGED col
             /\ \E answer \in {"failed", "unavailable", "aborted"} :
                  request' = [phase |-> "taken", kind |-> answer, evidence |-> <<>>]
          \/ /\ RequestIsValid(budget)
             /\ request' = [request EXCEPT !.phase = "collecting"] /\ col' = [col EXCEPT !.at = "checking"]
      BY <1>1 DEF CollectAndRecord, RefusedAtSource
    <2>2. EvidenceTypes'
      <3>1. request' \in AnyRequest
        <4>1. ASSUME NEW answer \in {"failed", "unavailable", "aborted"},
                     request' = [phase |-> "taken", kind |-> answer, evidence |-> <<>>]
              PROVE request' \in AnyRequest
          BY <4>1, <1>e DEF AnyRequest, AnyAnswer
        <4>2. ASSUME NEW phase \in {"refused", "collecting"}, request' = [request EXCEPT !.phase = phase]
              PROVE request' \in AnyRequest
          BY <4>2 DEF EvidenceTypes, AnyRequest
        <4> QED BY <2>1, <4>1, <4>2
      <3>2. col' \in [at : {"off", "checking", "running", "over"}, i : Nat, evidence : Seq(AnyRecord)]
        BY <2>0, <2>1 DEF EvidenceTypes
      <3> QED BY <3>1, <3>2, <2>0 DEF EvidenceTypes
    <2>3. RunsInOrder'
      BY <2>0, <2>1 DEF EvidenceTypes, AnyRequest, AnyPort, RunsInOrder
    <2>4. AnswersAreEarned'
      BY <2>0, <2>1 DEF EvidenceTypes, AnyRequest, AnyPort, AnswersAreEarned, RequestIsValid
    <2>5. RecordedAsTaken' /\ VerdictReplays'
      BY <2>0, <2>1 DEF EvidenceTypes, AnyRequest, AnyPort, RecordedAsTaken, VerdictReplays
    <2> QED BY <2>2, <2>3, <2>4, <2>5
  <1>2. CASE CheckAvailable
    <2>0. /\ col.at = "checking" /\ request.phase \notin {"idle", "offered", "given"}
          /\ UNCHANGED <<reqs, budget, tree, aborted, current, verdict, proven>>
      BY <1>2 DEF CheckAvailable, RunsInOrder
    <2>1. CASE Answer("unavailable", <<>>) \/ Answer("aborted", <<>>)
      BY <2>0, <2>1, <1>e, AnswerKeepsOrder DEF EvidenceTypes, AnyRequest, AnyPort, AnyAnswer
    <2>2. CASE /\ col' = [col EXCEPT !.at = "running"] /\ UNCHANGED request
               /\ port' = [PortIdle EXCEPT !.phase = "resolving"]
      <3>1. EvidenceTypes'
        BY <2>0, <2>2, PortIsIdle DEF EvidenceTypes, AnyRequest, AnyPort
      <3>2. RunsInOrder'
        BY <2>0, <2>2, PortIsIdle DEF EvidenceTypes, AnyRequest, AnyPort, RunsInOrder
      <3>3. AnswersAreEarned' /\ RecordedAsTaken' /\ VerdictReplays'
        BY <2>0, <2>2 DEF AnswersAreEarned, RecordedAsTaken, VerdictReplays, RequestIsValid
      <3> QED BY <3>1, <3>2, <3>3
    <2> QED BY <1>2, <2>1, <2>2 DEF CheckAvailable, CommandUnavailable
  <1>3. CASE SpawnProcess
    <2>0. /\ port.phase = "resolving" /\ col.at = "running" /\ request.phase \notin {"idle", "offered", "given"}
          /\ UNCHANGED <<reqs, budget, aborted, current, verdict, proven>>
      BY <1>3 DEF SpawnProcess, RunsInOrder, EvidenceTypes, AnyRequest, AnyPort
    <2>1. CASE \E answer \in {"failed", "aborted"} : Answer(answer, <<>>) /\ UNCHANGED tree
      <3>1. PICK answer \in {"failed", "aborted"} : Answer(answer, <<>>) /\ UNCHANGED tree
        BY <2>1
      <3>2. answer \in AnyAnswer /\ answer # "collected" /\ col.at # "over"
        BY <2>0 DEF AnyAnswer
      <3>3. proven \subseteq proven' /\ proven' \subseteq DOMAIN reqs /\ tree' \in {"none", "alive", "gone"}
        BY <2>0, <3>1 DEF EvidenceTypes
      <3> QED BY <2>0, <3>1, <3>2, <3>3, <1>e, AnswerKeepsOrder
    <2>2. CASE port' = [port EXCEPT !.phase = "running"] /\ tree' = "alive" /\ UNCHANGED <<request, col>>
      <3>1. EvidenceTypes'
        BY <2>0, <2>2 DEF EvidenceTypes, AnyRequest, AnyPort
      <3>2. RunsInOrder'
        BY <2>0, <2>2 DEF EvidenceTypes, AnyRequest, AnyPort, RunsInOrder
      <3>3. AnswersAreEarned' /\ RecordedAsTaken' /\ VerdictReplays'
        BY <2>0, <2>2 DEF AnswersAreEarned, RecordedAsTaken, VerdictReplays, RequestIsValid
      <3> QED BY <3>1, <3>2, <3>3
    <2> QED BY <1>3, <2>1, <2>2 DEF SpawnProcess, ResolutionFails, InterruptedAnswer
  <1>4. CASE RunTimesOut \/ AbortRequest
    <2>0. /\ UNCHANGED <<reqs, budget, col, tree, current, verdict, proven>> /\ aborted' \in BOOLEAN
          /\ \/ UNCHANGED request
             \/ /\ request.phase = "collecting"
                /\ request' = [phase |-> "taken", kind |-> "aborted", evidence |-> <<>>]
          /\ \E cut \in {"timed-out", "aborted"} : Interrupt(cut)
      BY <1>4 DEF RunTimesOut, AbortRequest, EvidenceTypes, AnyRequest, AnyPort
    <2>1. /\ port' \in AnyPort
          /\ port'.phase = "off" <=> port.phase = "off"
          /\ port'.phase \in {"resolving", "running"} => port'.settled = port.settled /\ port'.phase = port.phase
          /\ port'.phase = "exiting" => 
               (port'.settled = port.settled /\ port.phase = "exiting") \/ port'.settled = "interrupted"
          /\ port'.settled = "done" => port.settled = "done" /\ port'.out = port.out
      <3>1. PICK cut \in {"timed-out", "aborted"} : Interrupt(cut)
        BY <2>0
      <3>2. CASE ~Busy \/ port.cut # "none"
        BY <3>1, <3>2 DEF Interrupt, EvidenceTypes, AnyPort
      <3>3. CASE Busy /\ port.cut = "none" /\ port.phase = "running"
        <4>1. port' = [port EXCEPT !.cut = cut, !.settled = "interrupted", !.phase = "exiting"]
          BY <3>1, <3>3 DEF Interrupt
        <4> QED BY <3>3, <4>1 DEF EvidenceTypes, AnyPort
      <3>4. CASE Busy /\ port.cut = "none" /\ port.phase # "running"
        <4>1. port' = [port EXCEPT !.cut = cut, !.settled = @, !.phase = @]
          BY <3>1, <3>4 DEF Interrupt
        <4> QED BY <3>4, <4>1 DEF EvidenceTypes, AnyPort
      <3> QED BY <3>2, <3>3, <3>4
    <2>2. EvidenceTypes'
      <3>1. request' \in AnyRequest
        <4>1. CASE UNCHANGED request
          BY <4>1 DEF EvidenceTypes
        <4>2. CASE request' = [phase |-> "taken", kind |-> "aborted", evidence |-> <<>>]
          BY <4>2, <1>e DEF AnyRequest, AnyAnswer
        <4> QED BY <2>0, <4>1, <4>2
      <3> QED BY <3>1, <2>1, <2>0 DEF EvidenceTypes
    <2>3. RunsInOrder'
      <3>1. request'.phase \in {"idle", "offered", "given"} => request.phase = request'.phase
        BY <2>0
      <3>2. port'.phase \in {"off", "resolving", "running", "exiting"}
        BY <2>1 DEF AnyPort
      <3> QED BY <2>0, <2>1, <3>1, <3>2 DEF RunsInOrder
    <2>4. AnswersAreEarned'
      BY <2>0 DEF AnswersAreEarned, RequestIsValid
    <2>5. RecordedAsTaken' /\ VerdictReplays'
      BY <2>0 DEF RecordedAsTaken, VerdictReplays
    <2> QED BY <2>2, <2>3, <2>4, <2>5
  <1>5. CASE ProcessEnds
    BY <1>5, EndIsTrue
  <1>6. CASE TreeExits
    <2>0. tree' = "gone" /\ UNCHANGED <<reqs, budget, request, col, port, aborted, current, verdict, proven>>
      BY <1>6 DEF TreeExits
    <2> QED BY <2>0 DEF EvidenceTypes, AnyRequest, AnyPort, RunsInOrder, AnswersAreEarned, RecordedAsTaken, VerdictReplays, RequestIsValid
  <1>7. CASE WaitForExit
    BY <1>7, RunIsTaken
  <1>8. CASE RecordInTransaction
    <2>0. /\ request.phase = "taken" /\ request' = [request EXCEPT !.phase = IF current THEN "recorded" ELSE "refused"]
          /\ verdict' = IF current THEN VerdictToRecord(reqs, request.evidence, request.kind, budget) ELSE verdict
          /\ UNCHANGED <<reqs, budget, col, port, tree, aborted, current, proven>>
      BY <1>8 DEF RecordInTransaction
    <2>1. request'.kind = request.kind /\ request'.evidence = request.evidence
          /\ request'.phase = IF current THEN "recorded" ELSE "refused"
      BY <2>0 DEF EvidenceTypes, AnyRequest, AnyPort
    <2>2. EvidenceTypes'
      <3>1. request' \in AnyRequest
        BY <2>0 DEF EvidenceTypes, AnyRequest
      <3> QED BY <3>1, <2>0 DEF EvidenceTypes
    <2>3. RunsInOrder'
      BY <2>0, <2>1 DEF EvidenceTypes, AnyRequest, AnyPort, RunsInOrder
    <2>4. AnswersAreEarned'
      BY <2>0, <2>1 DEF AnswersAreEarned, RequestIsValid
    <2>5. RecordedAsTaken'
      BY <2>0, <2>1 DEF RecordedAsTaken
    <2>6. VerdictReplays'
      <3>1. RequestIsValid(budget) /\ budget \in [current : Nat, max : Nat, teamSpent : BOOLEAN]
        BY <2>0 DEF AnswersAreEarned, EvidenceTypes, AnyRequest, AnyPort
      <3>2. ProjectionAccepts(reqs, VerdictToRecord(reqs, request.evidence, request.kind, budget))
        BY <3>1, RecordedReplays
      <3>3. CASE current
        BY <3>2, <3>3, <2>0 DEF VerdictReplays
      <3>4. CASE ~current
        BY <3>4, <2>0 DEF VerdictReplays
      <3> QED BY <3>3, <3>4
    <2> QED BY <2>2, <2>3, <2>4, <2>5, <2>6
  <1>9. CASE RecordGivenEvidence
    <2>0. /\ request.phase = "offered" /\ UNCHANGED <<reqs, budget, col, port, tree, aborted, current, proven>>
          /\ \/ /\ request' = [request EXCEPT !.phase = "refused"] /\ UNCHANGED verdict
             \/ /\ RequestIsValid(budget) /\ request' = [request EXCEPT !.phase = "given"]
                /\ \E raw : verdict' = VerdictToRecord(reqs, raw, "collected", budget)
      BY <1>9 DEF RecordGivenEvidence
    <2>1. request'.phase \in {"refused", "given"}
      BY <2>0 DEF EvidenceTypes, AnyRequest, AnyPort
    <2>2. EvidenceTypes'
      <3>1. request' \in AnyRequest
        BY <2>0 DEF EvidenceTypes, AnyRequest
      <3> QED BY <3>1, <2>0 DEF EvidenceTypes
    <2>3. RunsInOrder'
      <3>1. col.at = "off"
        BY <2>0 DEF RunsInOrder
      <3> QED BY <2>0, <3>1 DEF RunsInOrder
    <2>4. AnswersAreEarned' /\ RecordedAsTaken'
      BY <2>1 DEF AnswersAreEarned, RecordedAsTaken
    <2>5. VerdictReplays'
      <3>1. budget \in [current : Nat, max : Nat, teamSpent : BOOLEAN]
        BY DEF EvidenceTypes, AnyRequest, AnyPort
      <3> QED BY <2>0, <3>1, RecordedReplays DEF VerdictReplays
    <2> QED BY <2>2, <2>3, <2>4, <2>5
  <1>10. CASE VerificationEnds
    <2>0. current' = FALSE /\ UNCHANGED <<reqs, budget, request, col, port, tree, aborted, verdict, proven>>
      BY <1>10 DEF VerificationEnds
    <2>1. EvidenceTypes'
      BY <2>0 DEF EvidenceTypes
    <2> QED BY <2>0, <2>1 DEF RunsInOrder, AnswersAreEarned, RecordedAsTaken, VerdictReplays
  <1>11. CASE UNCHANGED evidenceVars
    BY <1>11 DEF evidenceVars, EvidenceTypes, AnyRequest, AnyPort, RunsInOrder, AnswersAreEarned, RecordedAsTaken, VerdictReplays, RequestIsValid
  <1> QED BY <1>1, <1>2, <1>3, <1>4, <1>5, <1>6, <1>7, <1>8, <1>9, <1>10, <1>11 DEF CollectNext

(* The collection of evidence keeps its inductive invariant: one run at a time,
   each record stands for what its process left, and what is recorded is what
   was taken (collect-evidence.ts, record-verification-verdict.ts). *)
THEOREM EvidenceInvariant == CollectSpec => []EvidenceInv
  <1>1. CollectInit \/ GivenInit => EvidenceInv
    BY EvidenceStarts
  <1>2. EvidenceInv /\ [CollectNext]_evidenceVars => EvidenceInv'
    BY EvidenceStays
  <1> QED BY <1>1, <1>2, PTL DEF CollectSpec

(* A passing verdict is earned by one completed process per check, what is
   recorded derives again from its own facts, and a verdict that decides comes
   after the last process tree has gone: the safety of VerdictsAreProven, for any
   checks, budget and order of aborts, timeouts and ends. *)
THEOREM VerdictsStayProven == CollectSpec => [](PassedIsProven /\ VerdictReplays /\ DecidedAfterExit)
  <1>1. EvidenceInv => PassedIsProven /\ VerdictReplays /\ DecidedAfterExit
    <2> SUFFICES ASSUME EvidenceInv PROVE PassedIsProven /\ VerdictReplays /\ DecidedAfterExit
      OBVIOUS
    <2>1. 1 \in DOMAIN reqs
      <3>1. reqs \in Seq([kind : AnyKind, required : BOOLEAN]) /\ Len(reqs) > 0
        BY DEF EvidenceInv, EvidenceTypes
      <3> QED BY <3>1
    <2>2. request.phase = "recorded" /\ verdict.disposition # "inconclusive" => request.kind = "collected"
      BY <2>1, NoEvidenceIsNoVerdict DEF EvidenceInv, RecordedAsTaken
    <2>3. PassedIsProven
      <3>1. SUFFICES ASSUME request.phase = "recorded", verdict.disposition = "passed" PROVE proven = DOMAIN reqs
        BY DEF PassedIsProven
      <3>2. /\ request.kind = "collected" /\ Supports(reqs, request.evidence, Len(reqs), proven)
            /\ \A k \in DOMAIN reqs : reqs[k].required
        BY <2>2, <3>1 DEF EvidenceInv, AnswersAreEarned
      <3>3. VerdictToRecord(reqs, request.evidence, "collected", budget).disposition = "passed"
        BY <3>1, <3>2 DEF EvidenceInv, RecordedAsTaken
      <3> QED BY <3>2, <3>3, PassedIsEarned DEF EvidenceInv, EvidenceTypes, AnyRequest, AnyPort
    <2>4. DecidedAfterExit
      BY <2>2 DEF EvidenceInv, AnswersAreEarned, DecidedAfterExit
    <2> QED BY <2>3, <2>4 DEF EvidenceInv
  <1> QED BY <1>1, EvidenceInvariant, PTL
====
