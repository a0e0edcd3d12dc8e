----------------------------- MODULE TeamReview -----------------------------
(***************************************************************************)
(* Reviews of one Team: the durable cycle of requests, results, rework and *)
(* decisions (record-review-result.ts, review-checkpoint.ts and the review *)
(* events of projection.ts), the calls of the Host that drive it           *)
(* (service.ts) and the reviewer child of a call (review-agent.ts).        *)
(* Tasks run one at a time; how an attempt runs is TeamExecution's matter. *)
(***************************************************************************)
EXTENDS Integers, Sequences, FiniteSets

CONSTANTS
  Modes,        \* the review policies a Team may have
  Limits,       \* the values of maxReworkRounds a Team may have
  TeamLimit,    \* DEFAULT_MAX_TEAM_AUTOMATIC_REWORKS
  Findings,     \* fingerprints of findings
  MaxTasks,     \* bound: MAX_TEAM_TASKS
  MaxUser,      \* bound: commands of the user
  MaxStalls,    \* bound: confirmations of a stop that time out
  MaxReviewCrashes \* bound: restarts of the Host

VARIABLES
  team, mode, limit, tasks, candidate, reviews,   \* the journal
  call,         \* reviewCalls: the call of reviewTeam in flight
  slot,         \* #runs of the reviewer agent
  sources,      \* reviewCloseSources
  gate,         \* reviewStopGates: how a cancellation stands
  children,     \* reviewer children alive
  ran,          \* reviews a child was ever started for
  users, stalls, hostRestarts

journal == <<team, mode, limit, tasks, candidate, reviews>>
volatile == <<call, slot, sources, gate>>
bounds == <<users, stalls, hostRestarts>>
reviewVars == <<journal, volatile, children, ran, bounds>>

MaxReworkRounds == 3

\* team-settings.ts bounds maxReworkRounds; a Team has a task, and its plan a second one here.
ASSUME ReviewAssumption ==
  /\ Limits \subseteq 0 .. MaxReworkRounds /\ TeamLimit \in Nat
  /\ MaxTasks \in Nat /\ MaxTasks >= 2

None == [decision |-> "none", finding |-> "none"]
IdleCall == [at |-> "idle", by |-> "none", q |-> <<>>, r |-> 0, seen |-> <<>>,
             cut |-> FALSE, out |-> None]
Free == [at |-> "free", r |-> 0, cut |-> FALSE]
NoReview == 0
-----------------------------------------------------------------------------
(* What the journal says.  A checkpoint is <<subject, number>>: the plan,   *)
(* the attempt of a task, or the completion candidate a task created.       *)

Task(kind, source, round, deps) ==
  [kind |-> kind, status |-> "pending", source |-> source, round |-> round, deps |-> deps]

Ids(s) == 1 .. Len(s)
Completed == {t \in Ids(tasks) : tasks[t].status = "completed"}
AllDone == Completed = Ids(tasks)
Busy == \E t \in Ids(tasks) : tasks[t].status = "running"
Last(S) == IF S = {} THEN NoReview ELSE CHOOSE n \in S : \A m \in S : m <= n

Candidate == <<"completion", candidate>>
Unresolved == {r \in Ids(reviews) : reviews[r].status = "requested"}
ReworkOf(r) == {t \in Ids(tasks) : tasks[t].kind = "rework" /\ tasks[t].source = r}
ReworkDone(r) == \E t \in ReworkOf(r) : t \in Completed

LatestOf(c) ==
  Last({r \in Ids(reviews) :
          IF c[1] = "completion" THEN reviews[r].anchor[1] = "completion"
                                 ELSE reviews[r].anchor = c})

Automatic == {t \in Ids(tasks) : tasks[t].kind = "rework" /\ reviews[tasks[t].source].user # "authorise"}
AutomaticFor(anchor) == {t \in Automatic : reviews[tasks[t].source].anchor = anchor}
\* Mutant: only the chain of rounds is bounded, not the corrections made.
ExhaustedByRound(r) == reviews[r].round >= limit
Exhausted(r) ==
  \/ reviews[r].round >= limit
  \/ Cardinality(AutomaticFor(reviews[r].anchor)) >= limit
  \/ Cardinality(Automatic) >= TeamLimit
-----------------------------------------------------------------------------
(* The decision on a checkpoint: decideReviewCheckpoint, branch by branch. *)

AfterChanges(r) ==
  IF ReworkOf(r) # {}                                THEN IF ReworkDone(r) THEN "review" ELSE "verify"
  ELSE IF reviews[r].user = "authorise"              THEN "rework"
  ELSE IF Exhausted(r) \/ Len(tasks) >= MaxTasks     THEN "await"
  ELSE "rework"

DecisionOn(r, c) ==
  LET rv == reviews[r] IN
  IF rv.cand # c THEN IF rv.decision = "changes" /\ ReworkDone(r) THEN "review" ELSE "await"
  ELSE IF rv.status = "requested"          THEN "review"
  ELSE IF rv.user = "waive"                THEN "complete"
  ELSE IF rv.user = "retry"                THEN "review"
  ELSE IF rv.user = "authorise"            THEN AfterChanges(r)
  ELSE IF rv.user \in {"fail", "cancel"}   THEN "await"
  ELSE IF rv.status = "awaiting"           THEN "await"
  ELSE IF rv.decision = "pass"             THEN "complete"
  ELSE AfterChanges(r)

Decision(c) ==
  IF team = "completed"                        THEN "complete"
  ELSE IF team # "running"                     THEN "await"
  ELSE IF c[1] = "completion" /\ ~AllDone      THEN "verify"
  ELSE IF mode = "off"                         THEN "complete"
  ELSE IF LatestOf(c) = NoReview
    THEN IF c[1] = "completion" /\ mode = "manual" THEN "complete" ELSE "review"
  ELSE DecisionOn(LatestOf(c), c)

\* The request a decision "review" asks for.  The fields name the review:
\* reviewIdentity is made of trigger, round, candidate and the retried decision.
Request(trigger, round, cand, op, anchor) ==
  [trigger |-> trigger, round |-> round, cand |-> cand, op |-> op, anchor |-> anchor]

Asked(c) ==
  LET r == LatestOf(c) IN
  IF r = NoReview THEN Request("first", 0, c, 0, c)
  ELSE LET rv == reviews[r] IN
    IF rv.cand = c /\ rv.status = "requested"
      THEN Request(rv.trigger, rv.round, c, rv.op, rv.anchor)
    ELSE IF rv.cand = c /\ rv.user = "retry"
      THEN Request(IF rv.round = 0 THEN "user-request" ELSE "rework-verification",
                   rv.round, c, rv.userOp, rv.anchor)
    ELSE Request("rework-verification", rv.round + 1, c, 0, rv.anchor)

\* The journal's rules for a request, a rework task and a decision.
AnchorValid(q) ==
  CASE q.anchor[1] = "completion" -> AllDone /\ q.cand = Candidate
    [] q.anchor[1] = "plan"       -> \A t \in Ids(tasks) : tasks[t].status = "pending"
    [] OTHER                      -> TRUE

RoundValid(q) ==
  /\ q.round <= limit
  /\ IF q.trigger = "rework-verification"
       THEN q.round > 0 /\ \E t \in Completed : tasks[t].kind = "rework" /\ tasks[t].round = q.round
       ELSE q.round = 0

CycleOpen(q) ==
  LET last == Len(reviews) IN
  (last > 0 /\ reviews[last].cand = q.cand) =>
    /\ \/ reviews[last].status = "completed" /\ reviews[last].decision # "changes"
       \/ reviews[last].status = "awaiting" /\ reviews[last].user = "retry" /\ reviews[last].round = q.round
    /\ reviews[last].decision = "pass" => q.trigger = "user-request"

SameReview(rv, q) == rv.trigger = q.trigger /\ rv.round = q.round /\ rv.cand = q.cand /\ rv.op = q.op

Durable(q) == {r \in Ids(reviews) : SameReview(reviews[r], q)}

RequestAccepted(q) ==
  /\ team = "running" /\ mode # "off"
  /\ Durable(q) = {}
  /\ AnchorValid(q) /\ RoundValid(q)
  /\ Unresolved = {}
  /\ CycleOpen(q)

ReworkAccepted(r) ==
  LET final == /\ reviews[r].user = "authorise" /\ reviews[r].status = "awaiting"
               /\ reviews[r].round + 1 <= MaxReworkRounds IN
  /\ team \in {"running", "paused", "pausing", "cancelling", "needs_reconciliation"}
  /\ reviews[r].decision = "changes"
  /\ reviews[r].status = "completed" \/ final
  /\ reviews[r].round + 1 <= limit \/ final
  /\ ReworkOf(r) = {}
  /\ final \/ ~Exhausted(r)
  /\ Len(tasks) < MaxTasks

DecisionAccepted(r, d) ==
  /\ team \in {"running", "paused"}
  /\ reviews[r].status = "awaiting" /\ reviews[r].user = "none"
  /\ reviews[r].cand = Candidate
  /\ d = "authorise" => reviews[r].decision = "changes" /\ reviews[r].round < MaxReworkRounds
  /\ d = "fail" => team = "running"

Recorded(r, out) ==
  LET rv == reviews[r]
      repeated == \E p \in Ids(reviews) :
        p # r /\ reviews[p].anchor = rv.anchor /\ reviews[p].finding = out.finding
      awaiting == \/ out.decision = "inconclusive"
                  \/ out.decision = "changes" /\ (repeated \/ Exhausted(r)) IN
  [reviews EXCEPT ![r] = [rv EXCEPT !.status = IF awaiting THEN "awaiting" ELSE "completed",
                                    !.decision = out.decision, !.finding = out.finding]]

Inconclusive == [decision |-> "inconclusive", finding |-> "none"]
Results == {[decision |-> "pass", finding |-> "none"], Inconclusive}
             \cup {[decision |-> "changes", finding |-> f] : f \in Findings}
-----------------------------------------------------------------------------
ReviewInit ==
  /\ team = "running" /\ mode \in Modes /\ limit \in Limits
  /\ tasks \in {<<Task("work", 0, 0, {})>>, <<Task("work", 0, 0, {}), Task("work", 0, 0, {1})>>}
  /\ candidate = 0 /\ reviews = <<>>
  /\ call = IdleCall /\ slot = Free /\ sources = {} /\ gate = "open"
  /\ children = {} /\ ran = {}
  /\ users = 0 /\ stalls = 0 /\ hostRestarts = 0

\* assertReviewQuiescent; a cancellation passes its own gate.
Quiescent == call.at = "idle" /\ slot = Free /\ Unresolved = {}
Quiet == gate = "open" /\ Quiescent

FailRunner == IF team = "running" THEN "needs_reconciliation" ELSE team
-----------------------------------------------------------------------------
(* The runner: the first checkpoint that is not complete decides its pass.  *)

FirstPending == CHOOSE t \in Ids(tasks) :
  tasks[t].status = "pending" /\ \A u \in Ids(tasks) : tasks[u].status = "pending" => t <= u
HasPending == \E t \in Ids(tasks) : tasks[t].status = "pending"

\* executeGatedBatch: the plan, then the attempts the batch depends on.
GateOf(t) == {<<"plan", 0>>} \cup {<<"attempt", u>> : u \in tasks[t].deps}
Held(t) == IF mode = "quality-gate" THEN {c \in GateOf(t) : Decision(c) # "complete"} ELSE {}
Due == IF ~HasPending THEN Candidate
       ELSE CHOOSE c \in Held(FirstPending) :
              c[1] = "plan" \/ (<<"plan", 0>> \notin Held(FirstPending)
                                /\ \A d \in Held(FirstPending) : c[2] <= d[2])

RunnerReady == /\ team = "running" /\ ~Busy /\ call.by # "runner"
               /\ HasPending => Held(FirstPending) # {}

DispatchTask ==
  /\ team = "running" /\ ~Busy /\ call.by # "runner" /\ HasPending /\ Held(FirstPending) = {}
  /\ tasks' = [tasks EXCEPT ![FirstPending].status = "running"]
  /\ UNCHANGED <<team, mode, limit, candidate, reviews, volatile, children, ran, bounds>>

\* A call of reviewTeam is refused while one is in flight, a reviewer holds
\* the slot or a durable request has no outcome; the pass then fails.
RunnerRefused ==
  /\ RunnerReady /\ ~Quiet
  /\ Decision(Due) = "review" \/ ~HasPending
  /\ team' = FailRunner
  /\ UNCHANGED <<mode, limit, tasks, candidate, reviews, volatile, children, ran, bounds>>

BeginCall(by, q) ==
  call' = [IdleCall EXCEPT !.at = "admitting", !.by = by, !.q = q]

RunnerReviews ==
  /\ RunnerReady /\ Quiet /\ Decision(Due) = "review"
  /\ BeginCall("runner", Asked(Due))
  /\ UNCHANGED <<journal, slot, sources, gate, children, ran, bounds>>

RunnerCompletes ==
  /\ RunnerReady /\ Quiet /\ ~HasPending /\ Decision(Candidate) = "complete"
  /\ team' = "completed"
  /\ UNCHANGED <<mode, limit, tasks, candidate, reviews, volatile, children, ran, bounds>>

\* The correction of a review is created once, after everything completed so far.
WithRework(r) == Append(tasks, Task("rework", r, reviews[r].round + 1, Completed))

RunnerReworks ==
  /\ RunnerReady /\ (HasPending \/ Quiet) /\ Decision(Due) = "rework"
  /\ LET r == LatestOf(Due) IN
       IF ReworkAccepted(r) THEN tasks' = WithRework(r) /\ UNCHANGED team
                            ELSE team' = FailRunner /\ UNCHANGED tasks
  /\ UNCHANGED <<mode, limit, candidate, reviews, volatile, children, ran, bounds>>

RunnerAwaits ==
  /\ RunnerReady /\ (HasPending \/ Quiet) /\ Decision(Due) = "await"
  /\ team' = "paused"
  /\ UNCHANGED <<mode, limit, tasks, candidate, reviews, volatile, children, ran, bounds>>

\* The batch is skipped for a rework that is not verified: a pass without
\* progress, which the Host records as a failure of the runner.
RunnerIdles ==
  /\ RunnerReady /\ Decision(Due) = "verify"
  /\ team' = FailRunner
  /\ UNCHANGED <<mode, limit, tasks, candidate, reviews, volatile, children, ran, bounds>>

TaskSettles ==
  \E t \in Ids(tasks) :
    /\ tasks[t].status = "running"
    /\ tasks' = [tasks EXCEPT ![t].status = IF team = "cancelling" THEN "cancelled" ELSE "completed"]
    /\ candidate' = IF team = "cancelling" THEN candidate ELSE t
    /\ team' = CASE team = "cancelling" -> "cancelled" [] team = "pausing" -> "paused" [] OTHER -> team
    /\ UNCHANGED <<mode, limit, reviews, volatile, children, ran, bounds>>
-----------------------------------------------------------------------------
(* One call of reviewTeam, by the runner or by the user.                    *)

AskReview ==
  /\ users < MaxUser /\ users' = users + 1
  /\ Quiet /\ candidate # 0 /\ ~Busy
  /\ team \in {"running", "paused", "pausing"}
  /\ \A r \in Durable(Request("user-request", 0, Candidate, 0, Candidate)) : r \in Unresolved
  /\ BeginCall("user", Request("user-request", 0, Candidate, 0, Candidate))
  /\ UNCHANGED <<journal, slot, sources, gate, children, ran, stalls, hostRestarts>>

\* The call throws: its finally block still has to close the review.
Throw == [call EXCEPT !.at = "failing"]

\* A request that is already durable is taken up as it stands.
CommitRequest ==
  /\ call.at = "admitting"
  /\ LET q == call.q
         known == Durable(q)
         r == IF known = {} THEN Len(reviews) + 1 ELSE Last(known) IN
     IF ~call.cut /\ (known # {} \/ RequestAccepted(q))
       THEN /\ reviews' = IF known # {} THEN reviews ELSE Append(reviews,
                 [trigger |-> q.trigger, round |-> q.round, cand |-> q.cand, op |-> q.op,
                  anchor |-> q.anchor, status |-> "requested", decision |-> "none",
                  finding |-> "none", user |-> "none", userOp |-> 0])
            /\ call' = [call EXCEPT !.at = "routing", !.r = r, !.seen = <<team, candidate>>]
            /\ sources' = sources \cup {r}
       ELSE call' = Throw /\ UNCHANGED <<reviews, sources>>
  /\ UNCHANGED <<team, mode, limit, tasks, candidate, slot, gate, children, ran, bounds>>

\* Routes are inspected, the Team is compared with the cut of the request,
\* and the agent takes its slot before the child is admitted.
StartReviewer ==
  /\ call.at = "routing"
  /\ IF call.cut \/ call.seen # <<team, candidate>>
       THEN call' = Throw /\ UNCHANGED <<slot, ran>>
       ELSE /\ call' = [call EXCEPT !.at = "running"]
            /\ slot' = [at |-> "starting", r |-> call.r, cut |-> FALSE]
            /\ ran' = ran \cup {call.r}
  /\ UNCHANGED <<journal, sources, gate, children, bounds>>

AdmitChild ==
  /\ slot.at = "starting"
  /\ \/ slot' = [slot EXCEPT !.at = "live"] /\ children' = children \cup {slot.r}
     \/ slot' = [slot EXCEPT !.at = "refused"] /\ UNCHANGED children
  /\ UNCHANGED <<journal, call, sources, gate, ran, bounds>>

ChildEnds ==
  /\ slot.at = "live"
  /\ slot' = [slot EXCEPT !.at = "ended"] /\ children' = children \ {slot.r}
  /\ UNCHANGED <<journal, call, sources, gate, ran, bounds>>

\* REVIEW_TIMEOUT_MS.
Timeout ==
  /\ slot.at \in {"starting", "live"} /\ ~slot.cut
  /\ slot' = [slot EXCEPT !.cut = TRUE]
  /\ UNCHANGED <<journal, call, sources, gate, children, ran, bounds>>

\* The run returns what the child said, or that nothing usable was said.
ReviewerAnswers ==
  /\ call.at = "running" /\ ~slot.cut
  /\ \/ slot.at = "ended" /\ \E out \in Results : call' = [call EXCEPT !.at = "answered", !.out = out]
     \/ slot.at = "refused" /\ call' = [call EXCEPT !.at = "answered", !.out = Inconclusive]
  /\ slot' = Free
  /\ UNCHANGED <<journal, sources, gate, children, ran, bounds>>

\* onStopped: the review of a run that was cut is closed as inconclusive.
Closed(r) ==
  IF r \in sources /\ reviews[r].status = "requested"
    THEN reviews' = Recorded(r, Inconclusive) /\ sources' = sources \ {r}
    ELSE UNCHANGED <<reviews, sources>>

\* A cut run waits for its admission and for proof that the child stopped.
StopConfirmed ==
  /\ slot.at \in {"ended", "refused"} /\ slot.cut
  /\ slot' = Free
  /\ Closed(slot.r)
  /\ call' = IF call.at # "running" THEN call
             ELSE IF call.cut THEN Throw
             ELSE [call EXCEPT !.at = "answered", !.out = Inconclusive]
  /\ UNCHANGED <<team, mode, limit, tasks, candidate, gate, children, ran, bounds>>

\* The proof takes too long: the run throws and the slot stays taken.
\* Mutant: the slot is given back although the child may live.
StopStallsFree ==
  /\ stalls < MaxStalls /\ stalls' = stalls + 1
  /\ slot.cut /\ slot.at \in {"starting", "live"} /\ call.at = "running"
  /\ call' = Throw /\ slot' = Free
  /\ UNCHANGED <<journal, sources, gate, children, ran, users, hostRestarts>>

StopStalls ==
  /\ stalls < MaxStalls /\ stalls' = stalls + 1
  /\ slot.cut /\ slot.at \in {"starting", "live"} /\ call.at = "running"
  /\ call' = Throw
  /\ UNCHANGED <<journal, slot, sources, gate, children, ran, users, hostRestarts>>

\* A result the agent already closed is refused as different facts, and repeated
\* with the same facts changes nothing.
ResultRefused(r, out) == reviews[r].status # "requested" /\ out # Inconclusive
WithResult(r, out) == IF reviews[r].status = "requested" THEN Recorded(r, out) ELSE reviews

\* The result is recorded on the cut it was asked on, or not at all.
RecordResult ==
  /\ call.at = "answered"
  /\ IF call.cut \/ call.seen # <<team, candidate>> \/ ResultRefused(call.r, call.out)
       THEN call' = Throw /\ UNCHANGED <<reviews, sources>>
       ELSE /\ reviews' = WithResult(call.r, call.out)
            /\ sources' = sources \ {call.r}
            /\ call' = IdleCall
  /\ UNCHANGED <<team, mode, limit, tasks, candidate, slot, gate, children, ran, bounds>>

\* finally: with the slot free the review is closed; the runner's pass fails,
\* or is planned again when its only fault was a stale cut.
\* Mutant: the call forgets its request when the agent still holds the slot.
EndFailedCallForgets ==
  /\ call.at = "failing"
  /\ IF slot = Free /\ call.r # NoReview THEN Closed(call.r)
     ELSE sources' = sources \ {call.r} /\ UNCHANGED reviews
  /\ call' = IdleCall
  /\ IF call.by = "runner" THEN team' \in {team, FailRunner} ELSE UNCHANGED team
  /\ UNCHANGED <<mode, limit, tasks, candidate, slot, gate, children, ran, bounds>>

EndFailedCall ==
  /\ call.at = "failing"
  /\ IF slot = Free /\ call.r # NoReview THEN Closed(call.r) ELSE UNCHANGED <<reviews, sources>>
  /\ call' = IdleCall
  /\ IF call.by = "runner" THEN team' \in {team, FailRunner} ELSE UNCHANGED team
  /\ UNCHANGED <<mode, limit, tasks, candidate, slot, gate, children, ran, bounds>>
-----------------------------------------------------------------------------
(* Commands of the user and of the controller conversation.                 *)

Command == users < MaxUser /\ users' = users + 1

\* A decision is recorded once per operation; fail ends the Team with it.
WithDecision(r, d) == [reviews EXCEPT ![r].user = d, ![r].userOp = users + 1]

UserDecides ==
  /\ Command /\ Quiet
  /\ \E r \in Ids(reviews), d \in {"retry", "authorise", "waive", "fail", "cancel"} :
       /\ DecisionAccepted(r, d)
       /\ reviews' = WithDecision(r, d)
       /\ team' = CASE d = "fail" -> "failed"
                    [] d \in {"retry", "authorise", "waive"} -> "running"
                    [] OTHER -> team
       /\ gate' = IF d = "cancel" THEN "stopping" ELSE gate
  /\ UNCHANGED <<mode, limit, tasks, candidate, call, slot, sources, children, ran, stalls, hostRestarts>>

PauseTeam ==
  /\ Command /\ team = "running"
  /\ team' = IF Busy THEN "pausing" ELSE "paused"
  /\ UNCHANGED <<mode, limit, tasks, candidate, reviews, volatile, children, ran, stalls, hostRestarts>>

\* Resume, and recovery of a Team whose runtime facts are settled.
ResumeTeam ==
  /\ Command /\ ~Busy
  /\ \/ team = "paused" /\ team' = "running"
     \/ team = "needs_reconciliation" /\ team' \in {"paused", "running"}
  /\ UNCHANGED <<mode, limit, tasks, candidate, reviews, volatile, children, ran, stalls, hostRestarts>>

\* withStoppedReviewer: close the gate, abort the call, stop the reviewer.
Abort ==
  /\ call' = IF call.at = "idle" THEN call ELSE [call EXCEPT !.cut = TRUE]
  /\ slot' = IF slot.at = "free" THEN slot ELSE [slot EXCEPT !.cut = TRUE]

CancelTeam ==
  /\ Command /\ gate = "open"
  /\ team \in {"running", "pausing", "paused", "needs_reconciliation"}
  /\ gate' = "aborting"
  /\ UNCHANGED <<journal, call, slot, sources, children, ran, stalls, hostRestarts>>

AbortReviewer ==
  /\ gate \in {"aborting", "stopping"} /\ gate' = "waiting"
  /\ Abort
  /\ UNCHANGED <<journal, sources, children, ran, bounds>>

\* The reviewer stopped and every review has an outcome: cancel the Team.
CancelCommits ==
  /\ gate = "waiting" /\ Quiescent /\ gate' = "open"
  /\ team' = CASE team \in {"running", "pausing", "paused", "needs_reconciliation"} ->
                    IF ~Busy THEN "cancelled"
                    ELSE IF team = "needs_reconciliation" THEN team ELSE "cancelling"
               [] OTHER -> team
  /\ UNCHANGED <<mode, limit, tasks, candidate, reviews, call, slot, sources, children, ran, bounds>>

\* The stop is not confirmed in time, or a review has no owner to close it.
CancelFails ==
  /\ gate = "waiting" /\ gate' = "open"
  /\ \/ (slot # Free \/ call.at # "idle") /\ stalls < MaxStalls /\ stalls' = stalls + 1
     \/ slot = Free /\ call.at = "idle" /\ Unresolved # {} /\ UNCHANGED stalls
  /\ team' = FailRunner
  /\ UNCHANGED <<mode, limit, tasks, candidate, reviews, call, slot, sources, children, ran, users, hostRestarts>>

HostRestarts ==
  /\ hostRestarts < MaxReviewCrashes /\ hostRestarts' = hostRestarts + 1
  /\ call' = IdleCall /\ slot' = Free /\ sources' = {} /\ gate' = "open" /\ children' = {}
  /\ team' = IF Busy /\ team \in {"running", "pausing", "cancelling"} THEN "needs_reconciliation" ELSE team
  /\ UNCHANGED <<mode, limit, tasks, candidate, reviews, ran, users, stalls>>
-----------------------------------------------------------------------------
ReviewNext ==
  \/ DispatchTask \/ RunnerRefused \/ RunnerReviews \/ RunnerCompletes
  \/ RunnerReworks \/ RunnerAwaits \/ RunnerIdles \/ TaskSettles
  \/ AskReview \/ CommitRequest \/ StartReviewer \/ AdmitChild \/ ChildEnds
  \/ Timeout \/ ReviewerAnswers \/ StopConfirmed \/ StopStalls
  \/ RecordResult \/ EndFailedCall
  \/ UserDecides \/ PauseTeam \/ ResumeTeam \/ CancelTeam \/ AbortReviewer
  \/ CancelCommits \/ CancelFails \/ HostRestarts

ReviewSpec == ReviewInit /\ [][ReviewNext]_reviewVars

\* The steps of a call and of the agent are promise continuations and timers,
\* and a child that was admitted ends or is stopped at the deadline.
ReviewFairness ==
  /\ WF_reviewVars(CommitRequest) /\ WF_reviewVars(StartReviewer) /\ WF_reviewVars(AdmitChild)
  /\ WF_reviewVars(ChildEnds) /\ WF_reviewVars(ReviewerAnswers) /\ WF_reviewVars(StopConfirmed)
  /\ WF_reviewVars(RecordResult) /\ WF_reviewVars(EndFailedCall)

ReviewFairSpec == ReviewSpec /\ ReviewFairness
-----------------------------------------------------------------------------
ReviewCheckpoints == {"plan", "attempt", "completion"} \X (0 .. MaxTasks)

ReviewTypeOK ==
  /\ team \in {"running", "pausing", "paused", "cancelling", "cancelled", "completed",
               "failed", "needs_reconciliation"}
  /\ mode \in Modes /\ limit \in Limits
  /\ \A t \in Ids(tasks) : tasks[t].status \in {"pending", "running", "completed", "cancelled"}
  /\ \A r \in Ids(reviews) :
       /\ reviews[r].cand \in ReviewCheckpoints /\ reviews[r].anchor \in ReviewCheckpoints
       /\ reviews[r].status \in {"requested", "completed", "awaiting"}
       /\ reviews[r].status = "requested" <=> reviews[r].decision = "none"
  /\ call.at \in {"idle", "admitting", "routing", "running", "answered", "failing"}
  /\ slot.at \in {"free", "starting", "live", "ended", "refused"}
  /\ gate \in {"open", "aborting", "stopping", "waiting"}
  /\ sources \subseteq Ids(reviews) /\ children \subseteq Ids(reviews)

\* A Team under review completes only on a candidate that passed or was waived
\* (docs/FEATURES.md: every completion candidate must pass independent review).
CompletionIsReviewed ==
  team = "completed" =>
    LET r == LatestOf(Candidate) IN
    /\ AllDone
    /\ mode = "quality-gate" => r # NoReview
    /\ (mode # "off" /\ r # NoReview) =>
         /\ reviews[r].cand = Candidate
         /\ reviews[r].decision = "pass" \/ reviews[r].user = "waive"

\* A reviewer child lives only while the agent holds the slot for it, whatever
\* was aborted, timed out or cancelled meanwhile: it is never left behind.
ReviewerIsOwned == children \subseteq {slot.r}

\* A cancelled Team has no reviewer at work and no review without an outcome.
CancelledIsQuiet == team = "cancelled" => children = {} /\ Unresolved = {}

\* Corrections nobody authorised stay within the limit of their checkpoint and
\* of the Team; no chain of rounds is longer than the product's maximum.
ReworksAreBounded ==
  /\ Cardinality(Automatic) <= TeamLimit
  /\ \A t \in Ids(tasks) : tasks[t].kind = "rework" =>
       /\ tasks[t].round <= MaxReworkRounds
       /\ Cardinality(AutomaticFor(reviews[tasks[t].source].anchor)) <= limit

\* A request whose Host lives gets an outcome: the run ends, is cut at its
\* deadline, or its late end closes the review; until then the Host remembers
\* that it owes one.
OutcomeIsOwed ==
  [][\A r \in sources : r \in Unresolved' => r \in sources' \/ hostRestarts' # hostRestarts]_reviewVars
OutcomeIsGiven == sources # {} ~> sources = {}
RequestsAreClosed == OutcomeIsOwed /\ OutcomeIsGiven

\* Together: a Team completes reviewed, and its reviewers end with their slot.
ReviewsAreOwned == ReviewTypeOK /\ CompletionIsReviewed /\ ReviewerIsOwned /\ CancelledIsQuiet
=============================================================================
