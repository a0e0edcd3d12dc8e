---------------------------- MODULE TeamChildren ----------------------------
(***************************************************************************)
(* The runtime side of a batch: the executor that starts the children of   *)
(* one controller and accounts for their ends (execute-team-batch.ts), the *)
(* router that matches ends to admissions (settlement-router.ts), the      *)
(* adapter that owns timers and token usage (continuable-child.ts), and    *)
(* the token budget the children are admitted under (domain/budget.ts and  *)
(* the budget events of projection.ts).  An attempt and its child share a  *)
(* name; token counts are the sum of their four parts.                     *)
(***************************************************************************)
EXTENDS Integers, FiniteSets

CONSTANTS
  N,            \* the attempts 1 .. N, in the order the scheduler dispatches them
  Limits,       \* token limits a policy may set
  Reserve,      \* tokenReserve of an attempt
  MaxTokens,    \* bound: tokens a child reports, one per message
  MaxEarly,     \* DEFAULT_MAX_EARLY_ENDS
  Foreigners,   \* children of the controller the executor did not start
  MaxChildrenFaults     \* bound: commits that fail, interrupts refused, ends of Foreigners

ASSUME ChildrenAssumption ==
  /\ N \in Nat /\ Limits \subseteq Nat /\ Reserve \in Nat /\ MaxTokens \in Nat
  /\ MaxEarly \in Nat /\ MaxChildrenFaults \in Nat
  /\ \A f \in Foreigners : f \notin 1 .. N

VARIABLES
  lifeOfTeam, status, resv, observed, endUsage, limit,   \* the journal
  batch,        \* a batch whose intent is durable and that is not launched yet
  execution,         \* #active: how far the execution of each attempt is
  early, overflowed,     \* the router: #earlyEnds, #overflowed
  hostChild, used, asked,    \* the children: life, tokens, whether told to stop
  subs,         \* usage subscriptions, made in the order of the attempts, with the tokens
                \* used before each
  shared,       \* #observedUsage
  timers,       \* #executionTimers
  ends,         \* ends the adapter is still completing with usage
  disposal,     \* of the executor
  journalFailed, foreign, childrenFaults

journal == <<lifeOfTeam, status, resv, observed, endUsage, limit>>
router == <<early, overflowed, ends>>
usage == <<subs, shared>>
processVars == <<hostChild, used, asked, timers>>
counters == <<journalFailed, foreign, childrenFaults>>
childrenVars == <<journal, batch, execution, router, processVars, usage, disposal, counters>>

Unset == -1      \* no policy, nothing observed, usage unknown
Pending == -2    \* no evidence yet
Batched == 1 .. N
NoExecution == [at |-> "none", abort |-> FALSE, latest |-> Unset, pending |-> FALSE,
                refused |-> FALSE, tokens |-> Unset]
Unended == {"dispatching", "running"}
Claimed == {"gate", "starting", "committing"}      \* admission claims still open
Bound == {"committing", "owned", "settling"}       \* childSessionId is known
Executing(e) == {a \in Batched : e[a].at # "none"}

ChildrenInit ==
  /\ lifeOfTeam = "running" /\ limit \in Limits \cup {Unset}
  /\ status = [a \in Batched |-> "none"] /\ resv = [a \in Batched |-> "none"]
  /\ observed = [a \in Batched |-> Unset] /\ endUsage = [a \in Batched |-> Pending]
  /\ batch = {} /\ execution = [a \in Batched |-> NoExecution]
  /\ early = {} /\ overflowed = FALSE /\ ends = {}
  /\ hostChild = [a \in Batched |-> "none"] /\ used = [a \in Batched |-> 0]
  /\ asked = [a \in Batched |-> FALSE]
  /\ subs = {} /\ shared = [a \in Batched |-> Unset] /\ timers = {}
  /\ disposal = "none" /\ journalFailed = FALSE /\ foreign = {} /\ childrenFaults = 0
-----------------------------------------------------------------------------
(* The ledger.                                                             *)

Held == {a \in Batched : resv[a] = "active"}
HasSession(a) == status[a] \in {"running", "ended"}

UsageKnown ==
  /\ \A a \in Batched : resv[a] # "unknown"
  /\ limit # Unset => \A a \in Batched :
       HasSession(a) /\ endUsage[a] < 0 => status[a] = "running" /\ a \in Held

(* The sum of f over S, token by token.                                     *)
Tokens(f, S) == UNION {{a} \X (1 .. f[a]) : a \in S}
Total(f, S) == Cardinality(Tokens(f, S))

UsedTokens == Total(endUsage, Batched)

\* Mutant: every reservation of a batch assessed as if it were the only one.
AllowedOneByOne(B) ==
  limit # Unset => UsageKnown /\ UsedTokens + Reserve * (Cardinality(Held) + 1) <= limit

Allowed(B) ==
  limit # Unset =>
    /\ UsageKnown
    /\ UsedTokens + Reserve * (Cardinality(Held) + Cardinality(B)) <= limit

LedgerGap ==
  \E a \in Batched :
    \/ resv[a] = "unknown"
    \/ resv[a] = "active" /\ status[a] \notin Unended
    \/ limit # Unset /\ status[a] = "running" /\ a \notin Held

(* A transaction commits, or fails and poisons the journal for good.        *)
Commits(ok) ==
  /\ ~journalFailed /\ (ok \/ childrenFaults < MaxChildrenFaults)
  /\ journalFailed' = ~ok /\ childrenFaults' = IF ok THEN childrenFaults ELSE childrenFaults + 1
  /\ UNCHANGED foreign
NoCommit == UNCHANGED counters
ChildrenFault(ok) ==       \* an interrupt the Host accepts, or refuses
  /\ (ok \/ childrenFaults < MaxChildrenFaults)
  /\ childrenFaults' = IF ok THEN childrenFaults ELSE childrenFaults + 1
  /\ UNCHANGED <<journalFailed, foreign>>

SetPolicy(l) ==
  /\ ~journalFailed /\ l # limit
  /\ limit' = l
  /\ UNCHANGED <<lifeOfTeam, status, resv, observed, endUsage, batch, execution, router, processVars, usage,
                 disposal, counters>>
-----------------------------------------------------------------------------
(* Dispatch and admission.                                                 *)

Dispatchable == {a .. b : a \in {x \in Batched : \A y \in Batched : status[y] = "none" <=> y >= x},
                          b \in Batched} \ {{}}

Reserved(B) == [a \in Batched |-> IF a \in B /\ limit # Unset THEN "active" ELSE resv[a]]

IntendBatch(B, ok) ==
  /\ disposal = "none" /\ batch = {} /\ lifeOfTeam = "running" /\ ~LedgerGap
  /\ Allowed(B) /\ Commits(ok)
  /\ IF ok
     THEN /\ status' = [a \in Batched |-> IF a \in B THEN "dispatching" ELSE status[a]]
          /\ resv' = Reserved(B)
          /\ batch' = B
     ELSE UNCHANGED <<status, resv, batch>>
  /\ UNCHANGED <<lifeOfTeam, observed, endUsage, limit, execution, router, processVars, usage, disposal>>

(* The router and its end subscription live while an execution is active.  *)
RouterAfter(e) == IF Executing(e) = {}
                  THEN early' = {} /\ overflowed' = FALSE /\ ends' = {}
                  ELSE UNCHANGED router

Unsubscribed(a) == {x \in subs : x.by # a}

(* #deleteActive of one execution, and the usage listener with it.          *)
ReleasedUsage(a) ==
  /\ execution' = [execution EXCEPT ![a] = NoExecution]
  /\ subs' = Unsubscribed(a) /\ UNCHANGED shared

Launch ==
  /\ batch # {}
  /\ batch' = {}
  /\ IF disposal # "none" THEN UNCHANGED <<execution, subs>>
     ELSE /\ execution' = [a \in Batched |->
                     IF a \in batch THEN [NoExecution EXCEPT !.at = "gate"] ELSE execution[a]]
          /\ subs' = subs \cup {[by |-> a, base |-> used] : a \in batch}
  /\ UNCHANGED <<journal, router, processVars, shared, disposal, counters>>

PassGate(a) ==
  /\ execution[a].at = "gate" /\ ~execution[a].abort
  /\ execution' = [execution EXCEPT ![a].at = "starting"]
  /\ UNCHANGED <<journal, batch, router, processVars, usage, disposal, counters>>

(* The Host admits the child, possibly after the start was aborted.         *)
NativeAdmit(a) ==
  /\ execution[a].at = "starting" /\ hostChild[a] = "none"
  /\ hostChild' = [hostChild EXCEPT ![a] = "live"]
  /\ UNCHANGED <<journal, batch, execution, router, used, asked, timers, usage, disposal, counters>>

Listening(e) == {a \in Batched : e[a].at = "owned"}
Claims(e) == {a \in Batched : e[a].at \in Claimed}

(* The gate, the Host or the abort refuses the start; the claim is dropped. *)
HostRefuses(a) ==
  /\ execution[a].at \in {"gate", "starting"} /\ hostChild[a] = "none"
  /\ execution' = [execution EXCEPT ![a].at = "failing"]
  /\ early' = IF Claims(execution') = {} /\ Listening(execution') = {} THEN {} ELSE early
  /\ UNCHANGED <<journal, batch, overflowed, ends, processVars, usage, disposal, counters>>

NoneUnended(s) == \A a \in Batched : s[a] \notin Unended
TeamAfter(s) == IF lifeOfTeam = "cancelling" /\ NoneUnended(s) THEN "cancelled" ELSE lifeOfTeam

RecordStartFailure(a, ok) ==
  /\ execution[a].at = "failing"
  /\ IF journalFailed THEN NoCommit ELSE Commits(ok)
  /\ IF ok /\ ~journalFailed
     THEN /\ status' = [status EXCEPT ![a] = "failed"]
          /\ resv' = [resv EXCEPT ![a] = IF @ = "active" THEN "not-admitted" ELSE @]
          /\ lifeOfTeam' = TeamAfter(status')
     ELSE UNCHANGED <<status, resv, lifeOfTeam>>
  /\ ReleasedUsage(a) /\ RouterAfter(execution')
  /\ UNCHANGED <<observed, endUsage, limit, batch, processVars, disposal>>

(* start returns: a timer, unless the child's end came before its id.       *)
\* Mutant: an end that came first is forgotten.
TimersWithoutEarlyEnds(a) == timers \cup {a}

TimersAfterStart(a) == IF hostChild[a] = "live" THEN timers \cup {a} ELSE timers

StartResumes(a) ==
  /\ execution[a].at = "starting" /\ hostChild[a] # "none"
  /\ execution' = [execution EXCEPT ![a].at = "committing"]
  /\ timers' = TimersAfterStart(a)
  /\ UNCHANGED <<journal, batch, router, hostChild, used, asked, usage, disposal, counters>>

(* claim.admit: a buffered end settles at once, else the child is routed.   *)
EarlyOf(a) == {e \in early : e.child = a}
Routed(a) == IF EarlyOf(a) = {} THEN [execution[a] EXCEPT !.at = "owned"]
             ELSE [execution[a] EXCEPT !.at = "settling", !.pending = FALSE,
                                  !.tokens = (CHOOSE e \in EarlyOf(a) : TRUE).tokens]

(* An admission that lost the race against an abort interrupts its child.   *)
LateAbort(a) == execution[a].abort /\ ~asked[a]

(* #recordCancellationRuntimeUncertain.                                     *)
Uncertain(heard) == IF ~heard /\ disposal = "none" /\ lifeOfTeam = "cancelling"
                    THEN "needs_reconciliation" ELSE lifeOfTeam

CommitAdmission(a, ok, heard) ==
  /\ execution[a].at = "committing" /\ ~journalFailed
  /\ heard \/ (ok /\ ~overflowed /\ LateAbort(a) /\ childrenFaults < MaxChildrenFaults)
  /\ IF ok THEN ChildrenFault(heard) ELSE Commits(FALSE)
  /\ status' = IF ok THEN [status EXCEPT ![a] = "running"] ELSE status
  /\ IF ok /\ ~overflowed
     THEN /\ execution' = [execution EXCEPT ![a] = [Routed(a) EXCEPT !.refused = ~heard /\ disposal # "none"]]
          /\ early' = early \ EarlyOf(a)
          /\ asked' = [asked EXCEPT ![a] = @ \/ (LateAbort(a) /\ hostChild[a] = "live")]
          /\ timers' = IF LateAbort(a) THEN timers \ {a} ELSE timers
          /\ lifeOfTeam' = Uncertain(heard)
          /\ subs' = IF EarlyOf(a) = {} THEN subs ELSE Unsubscribed(a)
          /\ UNCHANGED <<overflowed, ends, shared>>
     ELSE ReleasedUsage(a) /\ RouterAfter(execution') /\ UNCHANGED <<asked, timers, lifeOfTeam>>
  /\ UNCHANGED <<resv, observed, endUsage, limit, batch, hostChild, used, disposal>>

(* On a poisoned journal the admission is lost, and the execution with it.  *)
LoseAdmission(a) ==
  /\ execution[a].at = "committing" /\ journalFailed
  /\ ReleasedUsage(a) /\ RouterAfter(execution')
  /\ UNCHANGED <<journal, batch, processVars, disposal, counters>>
-----------------------------------------------------------------------------
(* Usage and ends.                                                         *)

(* Every subscription adds the message to its own sum and writes #observedUsage, *)
(* so the subscription made last decides what an end will report.           *)
LastListener == CHOOSE x \in subs : \A y \in subs : y.by <= x.by
Snapshot(a) == IF subs = {} THEN shared[a] ELSE used[a] + 1 - LastListener.base[a]

ChildReports(a) ==
  /\ hostChild[a] = "live" /\ used[a] < MaxTokens
  /\ used' = [used EXCEPT ![a] = @ + 1]
  /\ shared' = [shared EXCEPT ![a] = Snapshot(a)]
  /\ execution' = IF execution[a].at \in {"committing", "owned"} /\ disposal = "none"
             THEN [execution EXCEPT ![a].latest = used[a] + 1, ![a].pending = TRUE] ELSE execution
  /\ UNCHANGED <<journal, batch, router, hostChild, asked, timers, subs, disposal, counters>>

RecordUsage(a, ok) ==
  /\ execution[a].pending /\ execution[a].at \in {"committing", "owned"} /\ disposal = "none"
  /\ execution' = [execution EXCEPT ![a].pending = FALSE]
  /\ IF status[a] = "running" /\ observed[a] # execution[a].latest /\ ~journalFailed
     THEN /\ Commits(ok)
          /\ observed' = IF ok THEN [observed EXCEPT ![a] = execution[a].latest] ELSE observed
     ELSE ok /\ NoCommit /\ UNCHANGED observed
  /\ UNCHANGED <<lifeOfTeam, status, resv, endUsage, limit, batch, router, processVars, usage,
                 disposal>>

ReportedTokens(a) == IF shared[a] # Unset THEN {shared[a]}
                 ELSE {Unset} \cup (IF used[a] > 0 THEN {used[a]} ELSE {})

(* A child ends: its timer goes, and its end is reported with its usage once *)
(* that is known.  A child told to stop by a Team cancellation may be drained *)
(* without any end (quiet).                                                 *)
NativeEnd(a, quiet) ==
  /\ hostChild[a] = "live" /\ (quiet => asked[a] /\ lifeOfTeam # "running" /\ execution[a].at = "owned")
  /\ hostChild' = [hostChild EXCEPT ![a] = IF quiet THEN "drained" ELSE "over"]
  /\ timers' = timers \ {a}
  /\ IF quiet \/ Executing(execution) = {} THEN UNCHANGED <<ends, shared>>
     ELSE \E t \in ReportedTokens(a) :
            /\ ends' = ends \cup {[child |-> a, tokens |-> t]}
            /\ shared' = [shared EXCEPT ![a] = Unset]
  /\ UNCHANGED <<journal, batch, execution, early, overflowed, used, asked, subs, disposal, counters>>

ForeignEnd(f) ==
  /\ f \notin foreign /\ Executing(execution) # {} /\ childrenFaults < MaxChildrenFaults
  /\ ends' = ends \cup {[child |-> f, tokens |-> Unset]}
  /\ foreign' = foreign \cup {f} /\ childrenFaults' = childrenFaults + 1
  /\ UNCHANGED <<journal, batch, execution, early, overflowed, processVars, usage, disposal, journalFailed>>

IsOwned(c) == c \in Batched /\ execution[c].at = "owned"

\* Mutant: nothing is buffered while admissions are open.
BufferedNever(e) == UNCHANGED <<early, overflowed>>

(* #route of an end nobody listens for.                                     *)
Buffered(e) ==
  IF Claims(execution) = {} \/ \E x \in early : x.child = e.child
  THEN UNCHANGED <<early, overflowed>>
  ELSE IF Cardinality(early) >= MaxEarly THEN early' = {} /\ overflowed' = TRUE
  ELSE early' = early \cup {e} /\ UNCHANGED overflowed

RouteEnd(e) ==
  /\ ends' = ends \ {e}
  /\ IF IsOwned(e.child)
     THEN /\ execution' = [execution EXCEPT ![e.child].at = "settling", ![e.child].pending = FALSE,
                                  ![e.child].tokens = e.tokens]
          /\ subs' = Unsubscribed(e.child)
          /\ early' = IF Claims(execution') = {} /\ Listening(execution') = {} THEN {} ELSE early
          /\ UNCHANGED overflowed
     ELSE Buffered(e) /\ UNCHANGED <<execution, subs>>
  /\ UNCHANGED <<journal, batch, processVars, shared, disposal, counters>>

(* The last usage heard is recorded with the end; an end that reports less is refused. *)
SettledUsage(a) == IF execution[a].latest # Unset THEN execution[a].latest ELSE observed[a]
UsageRefused(a) == execution[a].tokens # Unset /\ execution[a].tokens < SettledUsage(a)
Settlement(a) == IF resv[a] # "active" THEN resv[a]
                 ELSE IF execution[a].tokens = Unset THEN "unknown" ELSE "known"

SettleEnd(a, ok) ==
  /\ execution[a].at = "settling"
  /\ IF journalFailed \/ UsageRefused(a) THEN ok /\ NoCommit ELSE Commits(ok)
  /\ IF ok /\ ~journalFailed /\ ~UsageRefused(a)
     THEN /\ status' = [status EXCEPT ![a] = "ended"]
          /\ observed' = [observed EXCEPT ![a] = SettledUsage(a)]
          /\ endUsage' = [endUsage EXCEPT ![a] = execution[a].tokens]
          /\ resv' = [resv EXCEPT ![a] = Settlement(a)]
          /\ lifeOfTeam' = TeamAfter(status')
     ELSE UNCHANGED <<status, observed, endUsage, resv, lifeOfTeam>>
  /\ ReleasedUsage(a) /\ RouterAfter(execution')
  /\ UNCHANGED <<limit, batch, processVars, disposal>>
-----------------------------------------------------------------------------
(* Stops: of the Team, by the timer, by disposal.                           *)

(* An execution without a child id is aborted, every other one interrupted. *)
Stop(ok, mark) ==
  /\ ChildrenFault(ok) /\ (ok \/ \E a \in Batched : execution[a].at \in Bound)
  /\ asked' = [a \in Batched |-> asked[a] \/ (execution[a].at \in Bound /\ hostChild[a] = "live")]
  /\ timers' = {a \in timers : execution[a].at \notin Bound}
  /\ execution' = [a \in Batched |-> mark[a]]

CancelTeam(ok) ==
  /\ lifeOfTeam = "running" /\ ~journalFailed
  /\ lifeOfTeam' = IF NoneUnended(status) THEN "cancelled" ELSE "cancelling"
  /\ Stop(ok, [a \in Batched |->
       IF execution[a].at \in {"gate", "starting"} THEN [execution[a] EXCEPT !.abort = TRUE] ELSE execution[a]])
  /\ UNCHANGED <<status, resv, observed, endUsage, limit, batch, router, hostChild, used, usage,
                 disposal>>

TimerFires(a) ==
  /\ a \in timers
  /\ timers' = timers \ {a} /\ asked' = [asked EXCEPT ![a] = TRUE]
  /\ UNCHANGED <<journal, batch, execution, router, hostChild, used, usage, disposal, counters>>

(* #requestDisposal; a disposal whose interrupts failed may be asked again. *)
DisposeExecutor(ok) ==
  /\ disposal \in {"none", "failed"}
  /\ disposal' = "draining"
  /\ Stop(ok, [a \in Batched |->
       IF execution[a].at = "none" THEN NoExecution
       ELSE [execution[a] EXCEPT !.abort = TRUE, !.pending = FALSE,
                            !.refused = execution[a].at \in Bound /\ ~ok]])
  /\ subs' = {}
  /\ UNCHANGED <<journal, batch, router, hostChild, used, shared>>

InTransit == {a \in Batched : execution[a].at \in {"gate", "starting", "failing", "committing", "settling"}}

Drain ==
  /\ disposal = "draining" /\ InTransit = {}
  /\ IF \E a \in Batched : execution[a].refused
     THEN disposal' = "failed" /\ UNCHANGED <<execution, router>>
     ELSE disposal' = "done" /\ execution' = [a \in Batched |-> NoExecution] /\ RouterAfter(execution')
  /\ UNCHANGED <<journal, batch, processVars, usage, counters>>
-----------------------------------------------------------------------------
ChildrenNext ==
  \/ Launch \/ Drain
  \/ \E f \in Foreigners : ForeignEnd(f)
  \/ \E l \in Limits : SetPolicy(l)
  \/ \E B \in Dispatchable, ok \in BOOLEAN : IntendBatch(B, ok)
  \/ \E a \in Batched : PassGate(a)
  \/ \E a \in Batched : NativeAdmit(a)
  \/ \E a \in Batched : HostRefuses(a)
  \/ \E a \in Batched, ok \in BOOLEAN : RecordStartFailure(a, ok)
  \/ \E a \in Batched : StartResumes(a)
  \/ \E a \in Batched, ok \in BOOLEAN, heard \in BOOLEAN : CommitAdmission(a, ok, heard)
  \/ \E a \in Batched : LoseAdmission(a)
  \/ \E a \in Batched : ChildReports(a)
  \/ \E a \in Batched, ok \in BOOLEAN : RecordUsage(a, ok)
  \/ \E a \in Batched, quiet \in BOOLEAN : NativeEnd(a, quiet)
  \/ \E e \in ends : RouteEnd(e)
  \/ \E a \in Batched, ok \in BOOLEAN : SettleEnd(a, ok)
  \/ \E ok \in BOOLEAN : CancelTeam(ok)
  \/ \E a \in Batched : TimerFires(a)
  \/ \E ok \in BOOLEAN : DisposeExecutor(ok)

ChildrenSpec == ChildrenInit /\ [][ChildrenNext]_childrenVars

(* The executor's own continuations run; the Host answers a start.  Nothing *)
(* makes a child end.                                                       *)
ChildrenFairness ==
  /\ WF_childrenVars(Launch) /\ WF_childrenVars(Drain)
  /\ \A a \in Batched :
       /\ WF_childrenVars(PassGate(a) \/ HostRefuses(a) \/ NativeAdmit(a))
       /\ WF_childrenVars(\E ok \in BOOLEAN : RecordStartFailure(a, ok))
       /\ WF_childrenVars(StartResumes(a))
       /\ WF_childrenVars(LoseAdmission(a) \/ \E ok, heard \in BOOLEAN : CommitAdmission(a, ok, heard))
       /\ WF_childrenVars(\E e \in ends : e.child = a /\ RouteEnd(e))
       /\ WF_childrenVars(\E ok \in BOOLEAN : SettleEnd(a, ok))

ChildrenFairSpec == ChildrenSpec /\ ChildrenFairness
-----------------------------------------------------------------------------
(* Properties.                                                             *)

(* The values every variable may take.                                      *)
ChildrenTypeOK ==
  /\ lifeOfTeam \in {"running", "cancelling", "cancelled", "needs_reconciliation"}
  /\ \A a \in Batched :
       /\ status[a] \in Unended \cup {"none", "failed", "ended"}
       /\ resv[a] \in {"none", "active", "known", "unknown", "not-admitted"}
       /\ observed[a] \in Unset .. MaxTokens /\ endUsage[a] \in Pending .. MaxTokens
       /\ hostChild[a] \in {"none", "live", "over", "drained"} /\ used[a] \in 0 .. MaxTokens
       /\ execution[a].at \in Claimed \cup {"none", "owned", "settling", "failing"}
  /\ limit \in Limits \cup {Unset} /\ batch \subseteq Batched
  /\ timers \subseteq Batched /\ Cardinality(early) <= MaxEarly
  /\ disposal \in {"none", "draining", "failed", "done"}

(* A child whose start has returned runs under its execution timer until it *)
(* is told to stop, and no timer outlives its child: an end that overtakes  *)
(* the start's answer must not leave a timer, a stop must not keep one.     *)
ChildrenAreTimed ==
  \A a \in Batched :
    a \in timers <=> /\ hostChild[a] = "live" /\ ~asked[a]
                    /\ \/ execution[a].at \in Bound
                       \/ status[a] # "dispatching"
                       \/ execution[a].at = "none"

(* When a disposal resolves, every live child the executor still owned has  *)
(* been told to stop and none of those interrupts was refused, also a child *)
(* that the Host admitted after the disposal had begun.                     *)
DisposalStopsChildren ==
  [][disposal = "draining" /\ disposal' = "done" =>
       \A a \in Batched :
         execution[a].at # "none" /\ hostChild[a] = "live" => asked[a] /\ ~execution[a].refused]_childrenVars

(* Settled usage is counted once and unsettled children keep their reserve: *)
(* what ended children spent, with the reserves of those in flight, is      *)
(* within the limit whenever a batch is admitted under a policy.  A child   *)
(* whose end reported less than it used counts as reported.                 *)
Spent(a) ==
  IF status[a] \in Unended THEN (IF resv[a] = "active" THEN Reserve ELSE 0)
  ELSE IF endUsage[a] >= 0 THEN endUsage[a] ELSE used[a]
BatchesFitTheLimit ==
  [][batch = {} /\ batch' # {} /\ limit # Unset =>
       Total([a \in Batched |-> Spent(a)], Batched)' <= limit]_childrenVars

(* An end of a child the executor owns, or is about to own, settles its     *)
(* attempt; what may keep it open is a failed commit, an overflow of the    *)
(* router, a disposal, or an end that reports less than was observed.       *)
Excused(a) == journalFailed \/ overflowed \/ disposal # "none" \/ UsageRefused(a)
EndsAreSettled ==
  \A a \in Batched :
    (hostChild[a] = "over" /\ execution[a].at # "none") ~> (status[a] \in {"ended", "failed"} \/ Excused(a))

\* Together: the executor keeps hold of the children it has started.
ChildrenAreKept == [](ChildrenTypeOK /\ ChildrenAreTimed) /\ DisposalStopsChildren
=============================================================================
