---- MODULE TeamReportsSafety ----
(***************************************************************************)
(* What the parent conversation can rely on.                               *)
(***************************************************************************)
EXTENDS TeamReports

(* The values every variable of the delivery may take; cuts never run ahead of the facts. *)
ReportsTypeOK ==
    /\ facts \in Seq(Facts) /\ Now \in Cuts
    /\ binding \in [parent : Parents, previous : Parents \union {NoParent}, gen : Generations]
    /\ checkpoints \subseteq Checkpoints
    /\ bridge \in [Parents -> [Generations -> 0..Now]] /\ gone \in [Parents -> Generations]
    /\ inbox \in [Parents -> Seq(Reports)] /\ flushed \in [Parents -> Nat]
    /\ \A p \in Parents : flushed[p] <= Len(inbox[p])
    /\ online \subseteq Parents
    /\ worker.pc \in {"off", "delay", "sync", "prepare", "decide", "deliver", "flush", "acknowledge"}
    /\ wanted \in {"none", "taken", "more"} /\ retry \in BOOLEAN
    /\ job \in {"off", "clean", "dirty"}
    /\ suppression.through \in 0..Now
    /\ recovery \in {"off", "active", "done"} /\ switch \in BOOLEAN

(* A durable checkpoint proves that its message is durable in the inbox of its parent: the
   controller never forgets a report that a crash could still take from the parent. *)
CheckpointProvesInbox ==
    \A c \in checkpoints : \E i \in 1..flushed[c.parent] :
        inbox[c.parent][i] = [gen |-> c.gen, cut |-> c.message]

(* However often a delivery is retried, interrupted or repeated by a restarted Host, one
   generation and cut is one message of the inbox. *)
OneMessagePerCut ==
    \A p \in Parents : \A i, j \in 1..Len(inbox[p]) : inbox[p][i] = inbox[p][j] => i = j

(* Whoever is woken controls the Team at that moment and reads its current state, and nobody
   is woken while a recovery from the panel is under way. *)
WakesAreCurrent ==
    [][\A p \in Parents : Len(inbox'[p]) > Len(inbox[p]) =>
          /\ p = binding.parent
          /\ Reportable(inbox'[p][Len(inbox'[p])].cut) = Reportable(Now)
          /\ recovery = "off"]_reportsVars

(* A report is only sent of news: the cut of a message is newer than every report already
   acknowledged to the same parent in the same generation, and says something else. *)
NewsOnly ==
    [][\A p \in Parents : Len(inbox'[p]) > Len(inbox[p]) =>
          LET m == inbox'[p][Len(inbox'[p])] IN
          \A c \in CheckpointsOf([parent |-> p, gen |-> m.gen]) :
              c.cut < m.cut /\ (c \in LatestCheckpoint(binding) => Reportable(c.message) # Reportable(m.cut))]_reportsVars

Acknowledged(k) == AcknowledgedCut(binding) >= k

(* A delivery that was asked for is not lost: an actionable state is acknowledged as reported
   to the parent in control, unless the Team moves on or a recovery keeps it back. *)
RequestsAreAnswered ==
    \A k \in Cuts :
        (Now = k /\ IsActionable(k) /\ ~facts[k].recovered /\ ~KeptBack(k) /\ wanted # "none")
            ~> (Acknowledged(k) \/ Now > k \/ suppression.set)

(* Together: nobody is woken in vain. *)
WakesAreNews == WakesAreCurrent /\ NewsOnly
====
