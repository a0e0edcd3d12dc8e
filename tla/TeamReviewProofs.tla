---- MODULE TeamReviewProofs ----
(***************************************************************************)
(* The review of a Team: whatever the reviewer answers, the user decides   *)
(* or the Host restarts in between, a Team completes on work that passed or*)
(* was waived, its only reviewer holds the only slot, and corrections that *)
(* nobody authorised stay within the limits of the policy; what the panel  *)
(* shows is a whole catalog; however results are revised, the newest ones  *)
(* rest on the newest ones; and a retry that the Team decides by itself    *)
(* repeats no work and gives way to the user.                              *)
(***************************************************************************)
EXTENDS TeamReview, TeamPanel, TeamRevisions, TeamModels, FiniteSetTheorems, SequenceTheorems, WellFoundedInduction, TLAPS

(* What a state of a review is made of *)

Teams == {"running", "pausing", "paused", "cancelling", "cancelled", "completed", "failed",
          "needs_reconciliation"}
TaskRecords ==
    [kind : {"work", "rework"}, status : {"pending", "running", "completed", "cancelled"},
     source : Nat, round : Nat, deps : SUBSET (1 .. MaxTasks)]
Triggers == {"first", "user-request", "rework-verification"}
RequestRecords ==
    [trigger : Triggers, round : Nat, cand : ReviewCheckpoints, op : Nat, anchor : ReviewCheckpoints]
ReviewRecords ==
    [trigger : Triggers, round : Nat, cand : ReviewCheckpoints, op : Nat, anchor : ReviewCheckpoints,
     status : {"requested", "completed", "awaiting"},
     decision : {"none", "pass", "inconclusive", "changes"}, finding : Findings \cup {"none"},
     user : {"none", "retry", "authorise", "waive", "fail", "cancel"}, userOp : Nat]
CallRecords ==
    [at : {"idle", "admitting", "routing", "running", "answered", "failing"},
     by : {"none", "runner", "user"}, q : {<<>>} \cup RequestRecords, r : Nat,
     seen : {<<>>} \cup (Teams \X Nat), cut : BOOLEAN, out : {None} \cup Results]
SlotRecords == [at : {"free", "starting", "live", "ended", "refused"}, r : Nat, cut : BOOLEAN]

TasksTyped == tasks \in Seq(TaskRecords) /\ Len(tasks) <= MaxTasks
ReviewsTyped ==
    /\ reviews \in Seq(ReviewRecords)
    /\ \A r \in Ids(reviews) : reviews[r].status = "requested" <=> reviews[r].decision = "none"
TeamTyped ==
    /\ team \in Teams /\ mode \in Modes /\ limit \in Limits /\ candidate \in 0 .. MaxTasks
    /\ gate \in {"open", "aborting", "stopping", "waiting"} /\ users \in Nat

(* The call in flight: it has a request before it has a review, and the agent's slot is free
   until the reviewer is started. *)
CallInv ==
    /\ call \in CallRecords /\ call.r \in 0 .. Len(reviews)
    /\ call.at = "admitting" => call.q \in RequestRecords
    /\ call.at \in {"routing", "running", "answered"} => call.r # NoReview
    /\ call.at = "answered" => call.out \in Results
    /\ call.at \in {"admitting", "routing"} => slot = Free

(* The agent's slot: the only child is the one it was taken for. *)
SlotInv ==
    /\ slot \in SlotRecords /\ (slot.at = "free" <=> slot = Free)
    /\ slot.at # "free" => slot.r \in Ids(reviews)
    /\ children # {} => slot.at = "live" /\ children = {slot.r}
    /\ sources \subseteq Ids(reviews)

(* A Team that is being cancelled, was cancelled or completed has no review going on. *)
QuietInv == team \in {"cancelling", "cancelled", "completed"} => Quiescent

ReviewInv ==
    TeamTyped /\ TasksTyped /\ ReviewsTyped /\ CallInv /\ SlotInv /\ QuietInv
    /\ CompletionIsReviewed

(* The last of a set of numbers is in it and not below any other. *)
LEMMA Maximum ==
    ASSUME NEW n \in Nat, NEW S \in SUBSET (1 .. n), S # {}
    PROVE  Last(S) \in S /\ \A m \in S : m <= Last(S)
<1> DEFINE D == {n - m : m \in S}
<1>1. D \in SUBSET Nat /\ D # {}
  <2>1. \A m \in S : m \in 1 .. n /\ n - m \in Nat
    OBVIOUS
  <2> QED
    BY <2>1
<1>2. PICK d \in D : \A e \in D : ~(<<e, d>> \in OpToRel(<, Nat))
  BY <1>1, NatLessThanWellFounded, WFMin
<1>3. PICK x \in S : d = n - x
  OBVIOUS
<1>4. ASSUME NEW m \in S PROVE m <= x
  <2>1. n - m \in D /\ n - m \in Nat /\ d \in Nat
    BY <1>1
  <2>2. ~(n - m < d)
    BY <1>2, <2>1 DEF OpToRel
  <2> QED
    BY <2>1, <2>2, <1>3
<1> QED
  BY <1>3, <1>4 DEF Last

(* A set of natural numbers that is not empty has a least member. *)
LEMMA Minimum ==
    ASSUME NEW S \in SUBSET Nat, S # {}
    PROVE  \E d \in S : \A e \in S : d <= e
<1>1. PICK d \in S : \A e \in S : ~(<<e, d>> \in OpToRel(<, Nat))
  BY NatLessThanWellFounded, WFMin
<1>2. ASSUME NEW e \in S PROVE d <= e
  <2>1. ~(e < d)
    BY <1>1 DEF OpToRel
  <2> QED
    BY <2>1
<1> QED
  BY <1>2

(* The latest review of a checkpoint is a review. *)
LEMMA LatestIsReview ==
    ASSUME ReviewsTyped, NEW c
    PROVE  LatestOf(c) \in 0 .. Len(reviews)
<1> DEFINE S == {r \in Ids(reviews) : IF c[1] = "completion" THEN reviews[r].anchor[1] = "completion"
                                 ELSE reviews[r].anchor = c}
<1>1. Len(reviews) \in Nat /\ S \in SUBSET (1 .. Len(reviews)) /\ LatestOf(c) = Last(S)
  BY DEF ReviewsTyped, Ids, LatestOf
<1>2. CASE S = {}
  BY <1>1, <1>2 DEF Last, NoReview
<1>3. CASE S # {}
  <2> HIDE DEF S
  <2>1. Last(S) \in S
    BY <1>1, <1>3, Maximum
  <2>2. Last(S) \in 1 .. Len(reviews)
    BY <1>1, <2>1
  <2>3. \A x \in 1 .. Len(reviews) : x \in 0 .. Len(reviews)
    BY <1>1
  <2> QED
    BY <1>1, <2>2, <2>3
<1> QED
  BY <1>2, <1>3

(* The next task of a pass is one that waits. *)
LEMMA FirstIsPending ==
    ASSUME TasksTyped, HasPending
    PROVE  FirstPending \in Ids(tasks) /\ tasks[FirstPending].status = "pending"
<1> DEFINE P == {u \in Ids(tasks) : tasks[u].status = "pending"}
<1>1. P \in SUBSET Nat /\ P # {}
  BY DEF HasPending, Ids, TasksTyped
<1>2. \E u \in P : \A v \in P : u <= v
  BY <1>1, Minimum
<1> QED
  BY <1>2 DEF FirstPending

(* The checkpoint a pass turns to is one. *)
LEMMA DueIsCheckpoint ==
    ASSUME TeamTyped, TasksTyped, RunnerReady
    PROVE  Due \in ReviewCheckpoints
<1>1. CASE ~HasPending
  BY <1>1, ReviewAssumption DEF Due, Candidate, ReviewCheckpoints, TeamTyped
<1>2. CASE HasPending
  <2> DEFINE t == FirstPending
             H == Held(t)
             Right(c) == c[1] = "plan" \/ (<<"plan", 0>> \notin H /\ \A d \in H : c[2] <= d[2])
  <2>1. H # {} /\ Due = CHOOSE c \in H : Right(c)
    BY <1>2 DEF RunnerReady, Due
  <2>2. t \in Ids(tasks)
    BY <1>2, FirstIsPending
  <2>3. tasks[t].deps \subseteq 1 .. MaxTasks
    <3>1. tasks[t] \in TaskRecords
      BY <2>2 DEF TasksTyped, Ids
    <3> HIDE DEF t
    <3> QED
      BY <3>1 DEF TaskRecords
  <2>4. \A c \in H : c \in ReviewCheckpoints /\ (c = <<"plan", 0>> \/ (c[1] = "attempt" /\ c[2] \in Nat))
    BY <2>3, ReviewAssumption DEF Held, GateOf, ReviewCheckpoints
  <2>5. \E c \in H : Right(c)
    <3>1. CASE <<"plan", 0>> \in H
      BY <3>1
    <3>2. CASE <<"plan", 0>> \notin H
      <4> DEFINE N == {d[2] : d \in H}
      <4>1. N \in SUBSET Nat /\ N # {}
        BY <2>1, <2>4, <3>2
      <4>2. PICK n \in N : \A m \in N : n <= m
        BY <4>1, Minimum
      <4> QED
        BY <4>2, <3>2
    <3> QED
      BY <3>1, <3>2
  <2> HIDE DEF H, Right
  <2>6. Due \in H
    BY <2>1, <2>5
  <2> QED
    BY <2>4, <2>6
<1> QED
  BY <1>1, <1>2

(* What a review asks for is a request. *)
LEMMA AskedIsRequest ==
    ASSUME ReviewsTyped, NEW c \in ReviewCheckpoints
    PROVE  Asked(c) \in RequestRecords
<1> DEFINE r == LatestOf(c)
<1>1. r \in 0 .. Len(reviews)
  BY LatestIsReview
<1>2. CASE r = NoReview
  BY <1>2 DEF Asked, Request, RequestRecords, Triggers
<1>3. CASE r # NoReview
  <2>1. reviews[r] \in ReviewRecords
    BY <1>1, <1>3 DEF ReviewsTyped, NoReview
  <2> DEFINE rv == reviews[r]
  <2>2. /\ rv.round \in Nat /\ rv.op \in Nat /\ rv.userOp \in Nat /\ rv.anchor \in ReviewCheckpoints
        /\ rv.trigger \in Triggers /\ rv.round + 1 \in Nat
    BY <2>1 DEF ReviewRecords
  <2>3. \/ Asked(c) = Request(rv.trigger, rv.round, c, rv.op, rv.anchor)
        \/ Asked(c) = Request("user-request", rv.round, c, rv.userOp, rv.anchor)
        \/ Asked(c) = Request("rework-verification", rv.round, c, rv.userOp, rv.anchor)
        \/ Asked(c) = Request("rework-verification", rv.round + 1, c, 0, rv.anchor)
    BY <1>3 DEF Asked
  <2> HIDE DEF rv
  <2> QED
    BY <2>2, <2>3 DEF Request, RequestRecords, Triggers
<1> QED
  BY <1>2, <1>3

(* The pieces a step puts in place are what they should be. *)
LEMMA PiecesTyped ==
    /\ IdleCall \in CallRecords /\ Free \in SlotRecords /\ Inconclusive \in Results
    /\ Inconclusive.decision = "inconclusive" /\ None \notin Results
    /\ \A out \in Results : out.decision \in {"pass", "inconclusive", "changes"}
                            /\ out.finding \in Findings \cup {"none"}
<1>1. IdleCall \in CallRecords
  BY DEF IdleCall, CallRecords
<1>2. Free \in SlotRecords
  BY DEF Free, SlotRecords
<1>3. Inconclusive \in Results /\ Inconclusive.decision = "inconclusive"
  BY DEF Inconclusive, Results
<1>4. \A out \in Results : out.decision \in {"pass", "inconclusive", "changes"}
                          /\ out.finding \in Findings \cup {"none"}
  BY DEF Inconclusive, Results
<1>5. None \notin Results
  BY <1>4 DEF None
<1> QED
  BY <1>1, <1>2, <1>3, <1>4, <1>5

(* A review that gets its result keeps everything else, and the others keep all. *)
LEMMA RecordedKeeps ==
    ASSUME ReviewsTyped, NEW r \in Ids(reviews), NEW out \in Results,
           reviews' = Recorded(r, out)
    PROVE  /\ ReviewsTyped' /\ Len(reviews') = Len(reviews) /\ Ids(reviews') = Ids(reviews)
           /\ \A p \in Ids(reviews) : /\ reviews'[p].anchor = reviews[p].anchor
                                      /\ reviews'[p].user = reviews[p].user
                                      /\ reviews'[p].round = reviews[p].round
                                      /\ reviews'[p].cand = reviews[p].cand
<1> DEFINE rv == reviews[r]
           done == reviews'[r]
<1>1. reviews \in Seq(ReviewRecords) /\ r \in 1 .. Len(reviews) /\ Len(reviews) \in Nat
  BY DEF ReviewsTyped, Ids
<1>2. PICK st \in {"awaiting", "completed"} :
        reviews' = [reviews EXCEPT ![r] = [rv EXCEPT !.status = st, !.decision = out.decision,
                                                     !.finding = out.finding]]
  BY DEF Recorded
<1>3. out.decision \in {"pass", "inconclusive", "changes"} /\ out.finding \in Findings \cup {"none"}
  BY PiecesTyped
<1>4. rv \in ReviewRecords
  BY <1>1
<1>5. [rv EXCEPT !.status = st, !.decision = out.decision, !.finding = out.finding] \in ReviewRecords
  BY <1>3, <1>4 DEF ReviewRecords
<1>6. reviews' \in Seq(ReviewRecords) /\ Len(reviews') = Len(reviews)
  BY <1>1, <1>2, <1>5, ExceptSeq
<1>7. \A p \in 1 .. Len(reviews) : reviews'[p] = IF p = r
        THEN [rv EXCEPT !.status = st, !.decision = out.decision, !.finding = out.finding]
        ELSE reviews[p]
  BY <1>1, <1>2
<1>8. done.status = st /\ done.decision = out.decision /\ done.anchor = rv.anchor
      /\ done.user = rv.user /\ done.round = rv.round /\ done.cand = rv.cand
  BY <1>1, <1>4, <1>7 DEF ReviewRecords
<1>9. \A p \in 1 .. Len(reviews) :
        /\ reviews'[p].status = "requested" <=> reviews'[p].decision = "none"
        /\ reviews'[p].anchor = reviews[p].anchor /\ reviews'[p].user = reviews[p].user
        /\ reviews'[p].round = reviews[p].round /\ reviews'[p].cand = reviews[p].cand
  BY <1>1, <1>3, <1>7, <1>8 DEF ReviewsTyped, Ids
<1> QED
  BY <1>6, <1>9 DEF ReviewsTyped, Ids

(* Closing a review is recording one. *)
LEMMA ClosedKeeps ==
    ASSUME ReviewsTyped, SlotInv, NEW r, Closed(r)
    PROVE  /\ ReviewsTyped' /\ Len(reviews') = Len(reviews) /\ Ids(reviews') = Ids(reviews)
           /\ sources' \subseteq Ids(reviews)
           /\ \A p \in Ids(reviews) : /\ reviews'[p].anchor = reviews[p].anchor
                                      /\ reviews'[p].user = reviews[p].user
                                      /\ reviews'[p].round = reviews[p].round
                                      /\ reviews'[p].cand = reviews[p].cand
<1>1. CASE r \in sources /\ reviews[r].status = "requested"
  <2>1. r \in Ids(reviews) /\ reviews' = Recorded(r, Inconclusive) /\ sources' = sources \ {r}
    BY <1>1 DEF Closed, SlotInv
  <2> QED
    BY <2>1, RecordedKeeps, PiecesTyped DEF SlotInv
<1>2. CASE ~(r \in sources /\ reviews[r].status = "requested")
  BY <1>2 DEF Closed, ReviewsTyped, SlotInv, Ids
<1> QED
  BY <1>1, <1>2

(* What a Team completed on stands while its journal does. *)
LEMMA CompletionStands ==
    ASSUME CompletionIsReviewed, UNCHANGED <<mode, tasks, candidate, reviews>>,
           team' = "completed" => team = "completed"
    PROVE  CompletionIsReviewed'
BY DEF CompletionIsReviewed, LatestOf, Last, Candidate, Ids, AllDone, Completed

(* Completion asks for a review of completed Teams alone. *)
LEMMA NotCompleted == team' # "completed" => CompletionIsReviewed'
BY DEF CompletionIsReviewed

(* A task that changes its status stays a task. *)
LEMMA RestatusTyped ==
    ASSUME TasksTyped, NEW t \in Ids(tasks), NEW st \in {"running", "completed", "cancelled"},
           tasks' = [tasks EXCEPT ![t].status = st]
    PROVE  TasksTyped' /\ Len(tasks') = Len(tasks)
<1>1. tasks \in Seq(TaskRecords) /\ t \in 1 .. Len(tasks)
  BY DEF TasksTyped, Ids
<1>2. [tasks[t] EXCEPT !.status = st] \in TaskRecords
  <2>1. tasks[t] \in TaskRecords
    BY <1>1
  <2> QED
    BY <2>1 DEF TaskRecords
<1> QED
  BY <1>1, <1>2, ExceptSeq DEF TasksTyped

(* A call begins with its request. *)
LEMMA CallBegins ==
    ASSUME CallInv, ReviewsTyped, NEW q \in RequestRecords, NEW by \in {"runner", "user"},
           call' = [IdleCall EXCEPT !.at = "admitting", !.by = by, !.q = q],
           slot' = Free, reviews' = reviews
    PROVE  CallInv'
<1>1. call' \in CallRecords /\ call'.at = "admitting" /\ call'.q = q /\ call'.r = 0
  BY PiecesTyped DEF CallRecords, IdleCall
<1>2. Len(reviews) \in Nat
  BY DEF ReviewsTyped
<1> QED
  BY <1>1, <1>2 DEF CallInv

(* A pass of the runner and the tasks it works on. *)
LEMMA PassKeeps ==
    ASSUME ReviewInv,
           DispatchTask \/ RunnerRefused \/ RunnerReviews \/ RunnerAwaits \/ RunnerIdles
    PROVE  ReviewInv'
<1> USE DEF ReviewInv
<1>1. CASE DispatchTask
  <2> DEFINE f == FirstPending
  <2>1. f \in Ids(tasks) /\ tasks \in Seq(TaskRecords) /\ Len(tasks) <= MaxTasks
    BY <1>1, FirstIsPending DEF DispatchTask, TasksTyped
  <2>2. team' = team /\ team = "running" /\ tasks' = [tasks EXCEPT ![f].status = "running"]
        /\ UNCHANGED <<mode, limit, candidate, reviews, volatile, children, ran, bounds>>
    BY <1>1 DEF DispatchTask
  <2> HIDE DEF f
  <2>3. TasksTyped'
    BY <2>1, <2>2, RestatusTyped
  <2> QED
    BY <2>2, <2>3, NotCompleted
       DEF TeamTyped, ReviewsTyped, CallInv, SlotInv, QuietInv, volatile, bounds, Ids
<1>2. CASE RunnerRefused \/ RunnerAwaits \/ RunnerIdles
  <2>1. team' \in Teams \ {"cancelling", "cancelled", "completed"}
    BY <1>2 DEF RunnerRefused, RunnerAwaits, RunnerIdles, RunnerReady, FailRunner, Teams
  <2>2. UNCHANGED <<mode, limit, tasks, candidate, reviews, volatile, children, ran, bounds>>
    BY <1>2 DEF RunnerRefused, RunnerAwaits, RunnerIdles
  <2> QED
    BY <2>1, <2>2, NotCompleted
       DEF TeamTyped, TasksTyped, ReviewsTyped, CallInv, SlotInv, QuietInv, volatile, bounds, Ids
<1>3. CASE RunnerReviews
  <2>1. Asked(Due) \in RequestRecords
    BY <1>3, DueIsCheckpoint, AskedIsRequest DEF RunnerReviews
  <2>2. CallInv'
    <3>1. call' = [IdleCall EXCEPT !.at = "admitting", !.by = "runner", !.q = Asked(Due)]
          /\ slot = Free /\ slot' = slot /\ reviews' = reviews
      BY <1>3 DEF RunnerReviews, BeginCall, journal, Quiet, Quiescent
    <3> QED
      BY <2>1, <3>1, CallBegins
  <2>3. UNCHANGED <<journal, slot, sources, gate, children, ran, bounds>> /\ team = "running"
    BY <1>3 DEF RunnerReviews, RunnerReady
  <2> QED
    BY <2>2, <2>3, CompletionStands
       DEF TeamTyped, TasksTyped, ReviewsTyped, SlotInv, QuietInv, journal, bounds, Ids
<1> QED
  BY <1>1, <1>2, <1>3

(* A pass that completes a Team found it reviewed. *)
LEMMA CompleteMeansReviewed ==
    ASSUME ReviewsTyped, team = "running", Decision(Candidate) = "complete"
    PROVE  /\ AllDone
           /\ mode = "quality-gate" => LatestOf(Candidate) # NoReview
           /\ (mode # "off" /\ LatestOf(Candidate) # NoReview) =>
                 /\ reviews[LatestOf(Candidate)].cand = Candidate
                 /\ \/ reviews[LatestOf(Candidate)].decision = "pass"
                    \/ reviews[LatestOf(Candidate)].user = "waive"
<1> DEFINE r == LatestOf(Candidate)
<1>1. Candidate[1] = "completion"
  BY DEF Candidate
<1>2. AllDone
  BY <1>1 DEF Decision
<1>3. CASE mode = "off"
  BY <1>2, <1>3
<1>4. CASE mode # "off" /\ r = NoReview
  BY <1>1, <1>2, <1>4 DEF Decision
<1>5. CASE mode # "off" /\ r # NoReview
  <2>1. DecisionOn(r, Candidate) = "complete"
    BY <1>1, <1>2, <1>5 DEF Decision
  <2>2. AfterChanges(r) # "complete"
    BY DEF AfterChanges
  <2> HIDE DEF r
  <2>3. reviews[r].cand = Candidate
        /\ (reviews[r].decision = "pass" \/ reviews[r].user = "waive")
    BY <2>1, <2>2 DEF DecisionOn
  <2> QED
    BY <1>2, <1>5, <2>3 DEF r
<1> QED
  BY <1>3, <1>4, <1>5

(* The runner completes a quiescent Team whose candidate the policy has reviewed. *)
LEMMA CompletesKeeps ==
    ASSUME ReviewInv, RunnerCompletes
    PROVE  ReviewInv'
<1> USE DEF ReviewInv
<1>1. /\ team = "running" /\ team' = "completed" /\ Quiescent
      /\ UNCHANGED <<mode, limit, tasks, candidate, reviews, volatile, children, ran, bounds>>
  BY DEF RunnerCompletes, RunnerReady, Quiet
<1>2. CompletionIsReviewed'
  <2>1. UNCHANGED <<AllDone, Candidate, LatestOf(Candidate)>>
    BY <1>1 DEF AllDone, Completed, Candidate, LatestOf, Ids
  <2>2. Decision(Candidate) = "complete"
    BY DEF RunnerCompletes
  <2> QED
    BY <1>1, <2>1, <2>2, CompleteMeansReviewed DEF CompletionIsReviewed
<1>3. QuietInv'
  BY <1>1 DEF QuietInv, Quiescent, Unresolved, Ids, volatile
<1> QED
  BY <1>1, <1>2, <1>3
     DEF TeamTyped, Teams, TasksTyped, ReviewsTyped, CallInv, SlotInv, volatile, bounds, Ids

(* A checkpoint that asks for rework has a review. *)
LEMMA ReworkHasReview ==
    ASSUME ReviewsTyped, NEW c, Decision(c) = "rework"
    PROVE  LatestOf(c) \in Ids(reviews)
<1>1. LatestOf(c) # NoReview
  BY DEF Decision
<1> QED
  BY <1>1, LatestIsReview DEF Ids, NoReview, ReviewsTyped

(* The rework of the review that is due is added, or the Team fails when it is not accepted. *)
LEMMA ReworksKeeps ==
    ASSUME ReviewInv, RunnerReworks
    PROVE  ReviewInv'
<1> USE DEF ReviewInv
<1> DEFINE r == LatestOf(Due)
<1>1. r \in Ids(reviews)
  BY ReworkHasReview DEF RunnerReworks
<1>2. team' \in Teams \ {"cancelling", "cancelled", "completed"}
      /\ UNCHANGED <<mode, limit, candidate, reviews, volatile, children, ran, bounds>>
  BY DEF RunnerReworks, RunnerReady, FailRunner, Teams
<1>3. TasksTyped'
  <2>1. CASE ReworkAccepted(r)
    <3> DEFINE t == Task("rework", r, reviews[r].round + 1, Completed)
    <3>1. tasks' = Append(tasks, t) /\ Len(tasks) < MaxTasks /\ tasks \in Seq(TaskRecords)
      BY <2>1 DEF RunnerReworks, WithRework, ReworkAccepted, TasksTyped
    <3>2. Completed \in SUBSET (1 .. MaxTasks) /\ r \in Nat /\ reviews[r].round + 1 \in Nat
      <4>1. reviews[r] \in ReviewRecords /\ r \in Nat
        BY <1>1 DEF ReviewsTyped, Ids
      <4>2. reviews[r].round \in Nat
        BY <4>1 DEF ReviewRecords
      <4>3. \A u \in Completed : u \in 1 .. MaxTasks
        BY <3>1, ReviewAssumption DEF Completed, Ids
      <4> QED
        BY <4>1, <4>2, <4>3
    <3>3. t \in TaskRecords
      BY <3>2 DEF Task, TaskRecords
    <3> HIDE DEF t
    <3> QED
      BY <3>1, <3>3, ReviewAssumption DEF TasksTyped
  <2>2. CASE ~ReworkAccepted(r)
    BY <2>2 DEF RunnerReworks, TasksTyped
  <2> QED
    BY <2>1, <2>2
<1> QED
  BY <1>2, <1>3, NotCompleted
     DEF TeamTyped, ReviewsTyped, CallInv, SlotInv, QuietInv, volatile, bounds, Ids

(* A task that settles makes a new candidate to review. *)
LEMMA SettlesKeeps ==
    ASSUME ReviewInv, TaskSettles
    PROVE  ReviewInv'
<1> USE DEF ReviewInv
<1>1. PICK t \in Ids(tasks) :
        /\ tasks[t].status = "running"
        /\ tasks' = [tasks EXCEPT ![t].status = IF team = "cancelling" THEN "cancelled" ELSE "completed"]
        /\ candidate' = IF team = "cancelling" THEN candidate ELSE t
        /\ team' = CASE team = "cancelling" -> "cancelled" [] team = "pausing" -> "paused" [] OTHER -> team
        /\ UNCHANGED <<mode, limit, reviews, volatile, children, ran, bounds>>
  BY DEF TaskSettles
<1>2. TasksTyped'
  <2>1. (IF team = "cancelling" THEN "cancelled" ELSE "completed") \in {"running", "completed", "cancelled"}
    OBVIOUS
  <2> QED
    BY <1>1, <2>1, RestatusTyped
<1>3. team # "completed"
  BY <1>1 DEF CompletionIsReviewed, AllDone, Completed
<1>4. team' \in Teams /\ team' # "completed" /\ (team' \in {"cancelling", "cancelled"} =>
                                                    team \in {"cancelling", "cancelled"})
  BY <1>1, <1>3 DEF TeamTyped, Teams
<1>5. candidate' \in 0 .. MaxTasks
  BY <1>1, ReviewAssumption DEF TeamTyped, TasksTyped, Ids
<1>6. QuietInv'
  BY <1>1, <1>4 DEF QuietInv, Quiescent, Unresolved, Ids, volatile
<1> QED
  BY <1>1, <1>2, <1>4, <1>5, <1>6, NotCompleted
     DEF TeamTyped, ReviewsTyped, CallInv, SlotInv, volatile, bounds, Ids

(* A step taken while a review goes on leaves the Team in progress. *)
LEMMA InProgress ==
    ASSUME ReviewInv, ~Quiescent, team' \in {team, FailRunner},
           UNCHANGED <<mode, limit, tasks, candidate>>, gate' = gate, users' \in {users, users + 1}
    PROVE  TeamTyped' /\ TasksTyped' /\ QuietInv' /\ CompletionIsReviewed'
<1>1. team \notin {"cancelling", "cancelled", "completed"}
  BY DEF ReviewInv, QuietInv
<1>2. team' \in Teams /\ team' \notin {"cancelling", "cancelled", "completed"}
  BY <1>1 DEF ReviewInv, TeamTyped, FailRunner, Teams
<1> QED
  BY <1>2, NotCompleted DEF ReviewInv, TeamTyped, TasksTyped, QuietInv

(* A user asks for a review of the candidate; the call takes the free slot. *)
LEMMA AskKeeps ==
    ASSUME ReviewInv, AskReview
    PROVE  ReviewInv'
<1> USE DEF ReviewInv
<1> DEFINE q == Request("user-request", 0, Candidate, 0, Candidate)
<1>1. /\ call' = [IdleCall EXCEPT !.at = "admitting", !.by = "user", !.q = q]
      /\ slot = Free /\ slot' = Free /\ team \in {"running", "paused", "pausing"}
      /\ UNCHANGED <<journal, sources, gate, children, ran>> /\ users' = users + 1
  BY DEF AskReview, BeginCall, Quiet, Quiescent
<1>2. q \in RequestRecords
  BY ReviewAssumption
     DEF Request, RequestRecords, Triggers, Candidate, ReviewCheckpoints, TeamTyped
<1> HIDE DEF q
<1>3. CallInv'
  BY <1>1, <1>2, CallBegins DEF journal
<1>4. TeamTyped' /\ QuietInv' /\ CompletionIsReviewed'
  BY <1>1, NotCompleted DEF TeamTyped, QuietInv, journal, Teams
<1> QED
  BY <1>1, <1>3, <1>4 DEF TasksTyped, ReviewsTyped, SlotInv, Ids, journal

(* A request is recorded once: a second one of the same kind finds the first. *)
LEMMA RequestKeeps ==
    ASSUME ReviewInv, CommitRequest
    PROVE  ReviewInv'
<1> USE DEF ReviewInv
<1> DEFINE q == call.q
           known == Durable(q)
           r == IF known = {} THEN Len(reviews) + 1 ELSE Last(known)
           new == [trigger |-> q.trigger, round |-> q.round, cand |-> q.cand, op |-> q.op,
                   anchor |-> q.anchor, status |-> "requested", decision |-> "none",
                   finding |-> "none", user |-> "none", userOp |-> 0]
<1>1. /\ call.at = "admitting" /\ q \in RequestRecords /\ slot = Free /\ call \in CallRecords
      /\ reviews \in Seq(ReviewRecords) /\ Len(reviews) \in Nat
      /\ UNCHANGED <<team, mode, limit, tasks, candidate, slot, gate, children, ran, bounds>>
  BY DEF CommitRequest, CallInv, ReviewsTyped
<1>2. TeamTyped' /\ TasksTyped' /\ QuietInv' /\ CompletionIsReviewed'
  BY <1>1, InProgress DEF Quiescent, bounds
<1>3. CASE call' = Throw /\ UNCHANGED <<reviews, sources>>
  <2>1. call' \in CallRecords /\ call'.at = "failing" /\ call'.r = call.r
    BY <1>1, <1>3 DEF Throw, CallRecords
  <2> QED
    BY <1>1, <1>2, <1>3, <2>1 DEF CallInv, SlotInv, ReviewsTyped, Ids
<1>4. CASE /\ reviews' = IF known # {} THEN reviews ELSE Append(reviews, new)
           /\ call' = [call EXCEPT !.at = "routing", !.r = r, !.seen = <<team, candidate>>]
           /\ sources' = sources \cup {r}
  <2>1. /\ reviews' \in Seq(ReviewRecords) /\ r \in 1 .. Len(reviews') /\ Len(reviews') \in Nat
        /\ Len(reviews) <= Len(reviews') /\ ReviewsTyped'
    <3>1. CASE known # {}
      <4>1. known \in SUBSET (1 .. Len(reviews))
        BY DEF Durable, Ids
      <4> HIDE DEF known
      <4>2. Last(known) \in known
        BY <1>1, <3>1, <4>1, Maximum
      <4> QED
        BY <1>1, <1>4, <3>1, <4>1, <4>2 DEF ReviewsTyped, Ids
    <3>2. CASE known = {}
      <4>1. new \in ReviewRecords /\ new.status = "requested" /\ new.decision = "none"
        BY <1>1 DEF RequestRecords, ReviewRecords
      <4>2. reviews' = Append(reviews, new) /\ r = Len(reviews) + 1
        BY <1>4, <3>2
      <4> HIDE DEF new, r, known
      <4>3. /\ reviews' \in Seq(ReviewRecords) /\ Len(reviews') = Len(reviews) + 1
            /\ reviews'[r] = new /\ \A p \in 1 .. Len(reviews) : reviews'[p] = reviews[p]
        BY <1>1, <4>1, <4>2, AppendProperties
      <4> QED
        BY <1>1, <4>1, <4>2, <4>3 DEF ReviewsTyped, Ids
    <3> QED
      BY <3>1, <3>2
  <2> HIDE DEF r, known, new
  <2>2. call' \in CallRecords /\ call'.at = "routing" /\ call'.r = r
    <3>1. r \in Nat /\ <<team, candidate>> \in Teams \X Nat
      BY <2>1, ReviewAssumption DEF TeamTyped
    <3> DEFINE cut == <<team, candidate>>
    <3>2. call' = [call EXCEPT !.at = "routing", !.r = r, !.seen = cut]
      BY <1>4
    <3> HIDE DEF cut, q
    <3> QED
      BY <1>1, <3>1, <3>2 DEF CallRecords, cut
  <2>3. CallInv'
    BY <1>1, <2>1, <2>2 DEF CallInv, NoReview
  <2>4. SlotInv'
    BY <1>1, <1>4, <2>1 DEF SlotInv, Ids
  <2> QED
    BY <1>2, <2>1, <2>3, <2>4
<1> QED
  BY <1>3, <1>4 DEF CommitRequest

(* The steps of the reviewer child and of its slot leave the journal alone. *)
LEMMA ReviewerKeeps ==
    ASSUME ReviewInv,
           StartReviewer \/ AdmitChild \/ ChildEnds \/ Timeout \/ ReviewerAnswers \/ StopStalls
    PROVE  ReviewInv'
<1> USE DEF ReviewInv
<1>1. UNCHANGED <<journal, sources, gate>> /\ users' = users /\ ~Quiescent
  BY DEF StartReviewer, AdmitChild, ChildEnds, Timeout, ReviewerAnswers, StopStalls, Quiescent,
         CallInv, SlotInv, Free, bounds
<1>2. TeamTyped' /\ TasksTyped' /\ QuietInv' /\ CompletionIsReviewed'
  BY <1>1, InProgress DEF journal
<1>3. ReviewsTyped' /\ call \in CallRecords /\ slot \in SlotRecords /\ Ids(reviews') = Ids(reviews)
      /\ reviews' = reviews
  BY <1>1 DEF ReviewsTyped, journal, CallInv, SlotInv, Ids
<1>4. CASE StartReviewer
  <2>1. call.r \in Ids(reviews) /\ slot = Free /\ children = {} /\ children' = {}
    BY <1>4, PiecesTyped DEF StartReviewer, CallInv, SlotInv, NoReview, Ids, Free
  <2>2. CASE call' = Throw /\ UNCHANGED <<slot, ran>>
    <3>1. call' \in CallRecords /\ call'.at = "failing" /\ call'.r = call.r
      BY <1>3, <2>2 DEF Throw, CallRecords
    <3> QED
      BY <1>1, <1>2, <1>3, <2>1, <2>2, <3>1 DEF CallInv, SlotInv
  <2>3. CASE call' = [call EXCEPT !.at = "running"]
             /\ slot' = [at |-> "starting", r |-> call.r, cut |-> FALSE]
    <3>1. call' \in CallRecords /\ call'.at = "running" /\ call'.r = call.r
      BY <1>3, <2>3 DEF CallRecords
    <3>2. slot' \in SlotRecords /\ slot'.at = "starting" /\ slot'.r = call.r /\ slot' # Free
      BY <1>3, <2>1, <2>3 DEF SlotRecords, Free, Ids, CallRecords
    <3> QED
      BY <1>1, <1>2, <1>3, <2>1, <3>1, <3>2 DEF CallInv, SlotInv, NoReview, Ids
  <2> QED
    BY <1>4, <2>2, <2>3 DEF StartReviewer
<1>5. CASE AdmitChild \/ ChildEnds \/ Timeout
  <2>1. /\ slot.at \in {"starting", "live"} /\ slot' \in SlotRecords /\ slot'.at # "free"
        /\ slot'.r = slot.r /\ slot' # Free /\ slot # Free /\ call' = call
    <3>1. /\ slot.at \in {"starting", "live"} /\ call' = call
          /\ \/ \E x \in {"live", "refused", "ended"} : slot' = [slot EXCEPT !.at = x]
             \/ slot' = [slot EXCEPT !.cut = TRUE]
      BY <1>5 DEF AdmitChild, ChildEnds, Timeout
    <3>2. Free.at = "free"
      BY DEF Free
    <3>3. slot' \in SlotRecords /\ slot'.at # "free" /\ slot'.r = slot.r
      <4>1. ASSUME NEW x \in {"live", "refused", "ended"}, slot' = [slot EXCEPT !.at = x]
            PROVE  slot' \in SlotRecords /\ slot'.at # "free" /\ slot'.r = slot.r
        BY <1>3, <4>1 DEF SlotRecords
      <4>2. CASE slot' = [slot EXCEPT !.cut = TRUE]
        BY <1>3, <3>1, <4>2 DEF SlotRecords
      <4> QED
        BY <3>1, <4>1, <4>2
    <3> QED
      BY <3>1, <3>2, <3>3
  <2>2. children' # {} => slot'.at = "live" /\ children' = {slot.r}
    BY <1>3, <1>5 DEF AdmitChild, ChildEnds, Timeout, SlotInv, SlotRecords
  <2> QED
    BY <1>1, <1>2, <1>3, <2>1, <2>2 DEF CallInv, SlotInv
<1>6. CASE ReviewerAnswers
  <2>1. PICK out \in Results : call' = [call EXCEPT !.at = "answered", !.out = out]
    BY <1>6, PiecesTyped DEF ReviewerAnswers
  <2>2. call' \in CallRecords /\ call'.at = "answered" /\ call'.r = call.r /\ call'.out = out
    BY <1>3, <2>1 DEF CallRecords
  <2>3. slot' = Free /\ children' = {} /\ call.r # NoReview /\ slot.at # "live"
    BY <1>6 DEF ReviewerAnswers, SlotInv, CallInv
  <2> QED
    BY <1>1, <1>2, <1>3, <2>2, <2>3, PiecesTyped DEF CallInv, SlotInv, Free
<1>7. CASE StopStalls
  <2>1. call' \in CallRecords /\ call'.at = "failing" /\ call'.r = call.r
    BY <1>3, <1>7 DEF Throw, CallRecords, StopStalls
  <2> QED
    BY <1>1, <1>2, <1>3, <1>7, <2>1 DEF CallInv, SlotInv, StopStalls
<1> QED
  BY <1>4, <1>5, <1>6, <1>7

(* A run that is known to have stopped gives the slot back and closes its review. *)
LEMMA StopKeeps ==
    ASSUME ReviewInv, StopConfirmed
    PROVE  ReviewInv'
<1> USE DEF ReviewInv
<1>1. /\ slot' = Free /\ slot.at \in {"ended", "refused"} /\ Closed(slot.r)
      /\ UNCHANGED <<team, mode, limit, tasks, candidate, gate, children, ran, bounds>>
  BY DEF StopConfirmed
<1>2. ~Quiescent /\ children = {}
  BY <1>1 DEF Quiescent, SlotInv, Free
<1>3. TeamTyped' /\ TasksTyped' /\ QuietInv' /\ CompletionIsReviewed'
  BY <1>1, <1>2, InProgress DEF bounds
<1>4. ReviewsTyped' /\ Len(reviews') = Len(reviews) /\ Ids(reviews') = Ids(reviews)
      /\ sources' \subseteq Ids(reviews)
  BY <1>1, ClosedKeeps
<1>5. SlotInv'
  BY <1>1, <1>2, <1>4, PiecesTyped DEF SlotInv, Free
<1>6. CallInv'
  <2>1. call \in CallRecords /\ Inconclusive \in Results
    BY PiecesTyped DEF CallInv
  <2>2. CASE call' = call
    BY <1>1, <1>4, <2>2 DEF CallInv
  <2>3. CASE call' = Throw
    <3>1. call' \in CallRecords /\ call'.at = "failing" /\ call'.r = call.r
      BY <2>1, <2>3 DEF Throw, CallRecords
    <3> QED
      BY <1>1, <1>4, <3>1 DEF CallInv
  <2>4. CASE call.at = "running" /\ call' = [call EXCEPT !.at = "answered", !.out = Inconclusive]
    <3>1. call' \in CallRecords /\ call'.at = "answered" /\ call'.r = call.r /\ call'.out = Inconclusive
      BY <2>1, <2>4 DEF CallRecords
    <3> QED
      BY <1>1, <1>4, <2>1, <2>4, <3>1 DEF CallInv
  <2> QED
    BY <2>2, <2>3, <2>4 DEF StopConfirmed
<1> QED
  BY <1>3, <1>4, <1>5, <1>6

(* A result is recorded for the review whose call answered. *)
LEMMA ResultKeeps ==
    ASSUME ReviewInv, RecordResult
    PROVE  ReviewInv'
<1> USE DEF ReviewInv
<1>1. /\ call.at = "answered" /\ call.r \in Ids(reviews) /\ call.out \in Results
      /\ UNCHANGED <<team, mode, limit, tasks, candidate, slot, gate, children, ran, bounds>>
  BY DEF RecordResult, CallInv, NoReview, Ids
<1>2. TeamTyped' /\ TasksTyped' /\ QuietInv' /\ CompletionIsReviewed'
  BY <1>1, InProgress DEF bounds, Quiescent
<1>3. CASE call' = Throw /\ UNCHANGED <<reviews, sources>>
  <2>1. call' \in CallRecords /\ call'.at = "failing" /\ call'.r = call.r
    BY <1>3 DEF Throw, CallRecords, CallInv
  <2> QED
    BY <1>1, <1>2, <1>3, <2>1 DEF CallInv, SlotInv, ReviewsTyped, Ids
<1>4. CASE reviews' = WithResult(call.r, call.out) /\ sources' = sources \ {call.r} /\ call' = IdleCall
  <2>1. ReviewsTyped' /\ Len(reviews') = Len(reviews) /\ Ids(reviews') = Ids(reviews)
    <3>1. CASE reviews' = reviews
      BY <3>1 DEF ReviewsTyped, Ids
    <3>2. CASE reviews' = Recorded(call.r, call.out)
      BY <1>1, <3>2, RecordedKeeps
    <3> QED
      BY <1>4, <3>1, <3>2 DEF WithResult
  <2>2. IdleCall.at = "idle" /\ IdleCall.r = 0 /\ Len(reviews) \in Nat
    BY DEF IdleCall, ReviewsTyped
  <2>3. CallInv'
    BY <1>4, <2>1, <2>2, PiecesTyped DEF CallInv
  <2>4. SlotInv'
    BY <1>1, <1>4, <2>1 DEF SlotInv
  <2> QED
    BY <1>2, <2>1, <2>3, <2>4
<1> QED
  BY <1>3, <1>4 DEF RecordResult

(* A failed call ends, with its review closed or not. *)
LEMMA FailureKeeps ==
    ASSUME ReviewInv, EndFailedCall
    PROVE  ReviewInv'
<1> USE DEF ReviewInv
<1>1. /\ call.at = "failing" /\ call' = IdleCall /\ team' \in {team, FailRunner}
      /\ (Closed(call.r) \/ UNCHANGED <<reviews, sources>>)
      /\ UNCHANGED <<mode, limit, tasks, candidate, slot, gate, children, ran, bounds>>
  BY DEF EndFailedCall
<1>2. TeamTyped' /\ TasksTyped' /\ QuietInv' /\ CompletionIsReviewed'
  BY <1>1, InProgress DEF bounds, Quiescent
<1>3. ReviewsTyped' /\ Len(reviews') = Len(reviews) /\ Ids(reviews') = Ids(reviews)
      /\ sources' \subseteq Ids(reviews)
  <2>1. CASE Closed(call.r)
    BY <2>1, ClosedKeeps
  <2>2. CASE UNCHANGED <<reviews, sources>>
    BY <2>2 DEF ReviewsTyped, SlotInv, Ids
  <2> QED
    BY <1>1, <2>1, <2>2
<1>4. IdleCall.at = "idle" /\ IdleCall.r = 0 /\ Len(reviews) \in Nat
  BY DEF IdleCall, ReviewsTyped
<1>5. CallInv'
  BY <1>1, <1>3, <1>4, PiecesTyped DEF CallInv
<1>6. SlotInv'
  BY <1>1, <1>3 DEF SlotInv
<1> QED
  BY <1>2, <1>3, <1>5, <1>6

(* The commands of the user. *)
LEMMA DecideKeeps ==
    ASSUME ReviewInv, UserDecides
    PROVE  ReviewInv'
<1> USE DEF ReviewInv
<1>1. PICK r \in Ids(reviews), d \in {"retry", "authorise", "waive", "fail", "cancel"} :
        /\ DecisionAccepted(r, d) /\ reviews' = WithDecision(r, d)
        /\ team' \in {team, "failed", "running"} /\ gate' \in {gate, "stopping"}
  BY DEF UserDecides
<1>2. UNCHANGED <<mode, limit, tasks, candidate, call, slot, sources, children, ran, stalls, hostRestarts>>
      /\ users' = users + 1 /\ team \in {"running", "paused"}
  BY <1>1 DEF UserDecides, Command, DecisionAccepted
<1>3. ReviewsTyped' /\ Len(reviews') = Len(reviews)
  <2> DEFINE n == users + 1
             rv == [reviews[r] EXCEPT !.user = d, !.userOp = n]
  <2>1. reviews \in Seq(ReviewRecords) /\ r \in 1 .. Len(reviews) /\ n \in Nat
    BY DEF ReviewsTyped, Ids, TeamTyped
  <2>2. reviews[r] \in ReviewRecords
    BY <2>1
  <2>3. rv \in ReviewRecords /\ rv.status = reviews[r].status /\ rv.decision = reviews[r].decision
    BY <2>1, <2>2 DEF ReviewRecords
  <2>4. reviews' = [reviews EXCEPT ![r] = rv]
    BY <1>1, <2>1 DEF WithDecision
  <2> HIDE DEF rv, n
  <2>5. reviews' \in Seq(ReviewRecords) /\ Len(reviews') = Len(reviews)
        /\ \A p \in 1 .. Len(reviews) : reviews'[p] = IF p = r THEN rv ELSE reviews[p]
    BY <2>1, <2>3, <2>4, ExceptSeq
  <2> QED
    BY <2>3, <2>5 DEF ReviewsTyped, Ids
<1>4. TeamTyped' /\ QuietInv' /\ CompletionIsReviewed'
  BY <1>1, <1>2, NotCompleted DEF TeamTyped, QuietInv, Teams
<1>5. TasksTyped' /\ CallInv' /\ SlotInv'
  BY <1>2, <1>3 DEF TasksTyped, CallInv, SlotInv, Ids
<1> QED
  BY <1>3, <1>4, <1>5

(* A control does not touch the reviews; it may abort the gate. *)
LEMMA ControlKeeps ==
    ASSUME ReviewInv, PauseTeam \/ ResumeTeam \/ CancelTeam
    PROVE  ReviewInv'
<1> USE DEF ReviewInv
<1>1. /\ UNCHANGED <<mode, limit, tasks, candidate, reviews, call, slot, sources, children, ran>>
      /\ users' = users + 1 /\ gate' \in {gate, "aborting"} /\ team' \in {"pausing", "paused", "running", team}
      /\ team \in {"running", "pausing", "paused", "needs_reconciliation"}
  BY DEF PauseTeam, ResumeTeam, CancelTeam, Command, volatile, journal
<1>2. TeamTyped' /\ QuietInv' /\ CompletionIsReviewed'
  BY <1>1, NotCompleted DEF TeamTyped, QuietInv, Teams
<1> QED
  BY <1>1, <1>2 DEF TasksTyped, ReviewsTyped, CallInv, SlotInv, Ids

(* Cancelling cuts the reviewer first, and waits until nothing of it is left. *)
LEMMA CancelKeeps ==
    ASSUME ReviewInv, AbortReviewer \/ CancelCommits \/ CancelFails
    PROVE  ReviewInv'
<1> USE DEF ReviewInv
<1>1. CASE AbortReviewer
  <2>1. UNCHANGED <<journal, sources, children, ran, bounds>> /\ gate' = "waiting" /\ Abort
    BY <1>1 DEF AbortReviewer
  <2>2. CallInv' /\ (call.at = "idle" => call'.at = "idle") /\ (slot = Free => slot' = Free)
    <3>1. call \in CallRecords /\ slot \in SlotRecords /\ reviews' = reviews
      BY <2>1 DEF CallInv, SlotInv, journal
    <3>2. call' \in CallRecords /\ call'.at = call.at /\ call'.r = call.r /\ call'.q = call.q
          /\ call'.out = call.out
      BY <2>1, <3>1 DEF Abort, CallRecords
    <3>3. slot = Free => slot' = Free
      BY <2>1 DEF Abort, Free
    <3> QED
      BY <3>1, <3>2, <3>3 DEF CallInv
  <2>3. SlotInv'
    <3>1. slot \in SlotRecords /\ reviews' = reviews /\ sources' = sources /\ children' = children
      BY <2>1 DEF SlotInv, journal
    <3>2. slot' \in SlotRecords /\ slot'.at = slot.at /\ slot'.r = slot.r
      BY <2>1, <3>1 DEF Abort, SlotRecords
    <3>3. slot'.at = "free" <=> slot' = Free
      BY <2>1, <3>2 DEF Abort, SlotInv, Free
    <3> QED
      BY <3>1, <3>2, <3>3 DEF SlotInv
  <2>4. TeamTyped' /\ TasksTyped' /\ ReviewsTyped'
    BY <2>1 DEF TeamTyped, TasksTyped, ReviewsTyped, journal, bounds, Ids
  <2>5. QuietInv'
    BY <2>1, <2>2 DEF QuietInv, Quiescent, Unresolved, Ids, journal
  <2>6. CompletionIsReviewed'
    BY <2>1, CompletionStands DEF journal
  <2> QED
    BY <2>2, <2>3, <2>4, <2>5, <2>6
<1>2. CASE CancelCommits
  <2>1. UNCHANGED <<mode, limit, tasks, candidate, reviews, call, slot, sources, children, ran, bounds>>
        /\ Quiescent /\ gate' = "open"
    BY <1>2 DEF CancelCommits
  <2>2. team' \in Teams /\ (team' = "completed" => team = "completed")
    BY <1>2 DEF CancelCommits, TeamTyped, Teams
  <2>3. QuietInv'
    BY <2>1 DEF QuietInv, Quiescent, Unresolved, Ids
  <2> QED
    BY <2>1, <2>2, <2>3, CompletionStands
       DEF TeamTyped, TasksTyped, ReviewsTyped, CallInv, SlotInv, bounds, Ids
<1>3. CASE CancelFails
  <2>1. UNCHANGED <<mode, limit, tasks, candidate, reviews, call, slot, sources, children, ran, users>>
        /\ gate' = "open" /\ team' = FailRunner
    BY <1>3 DEF CancelFails
  <2>2. team' \in Teams /\ (team' \in {"cancelling", "cancelled", "completed"} => team' = team)
    BY <2>1 DEF FailRunner, TeamTyped, Teams
  <2>3. QuietInv'
    BY <2>1, <2>2 DEF QuietInv, Quiescent, Unresolved, Ids
  <2> QED
    BY <2>1, <2>2, <2>3, CompletionStands
       DEF TeamTyped, TasksTyped, ReviewsTyped, CallInv, SlotInv, Ids
<1> QED
  BY <1>1, <1>2, <1>3

(* A restart forgets the call, and the reviewer child of a dead Host is gone. *)
LEMMA CrashKeeps ==
    ASSUME ReviewInv, HostRestarts
    PROVE  ReviewInv'
<1> USE DEF ReviewInv
<1>1. /\ UNCHANGED <<mode, limit, tasks, candidate, reviews, ran, users>>
      /\ call' = IdleCall /\ slot' = Free /\ sources' = {} /\ gate' = "open" /\ children' = {}
  BY DEF HostRestarts
<1>2. team' \in Teams /\ (team' \in {"cancelling", "cancelled", "completed"} => team' = team)
  BY DEF HostRestarts, TeamTyped, Teams
<1>3. IdleCall.at = "idle" /\ IdleCall.r = 0 /\ Free.at = "free" /\ Len(reviews) \in Nat
  BY DEF IdleCall, Free, ReviewsTyped
<1>4. CallInv' /\ SlotInv'
  BY <1>1, <1>3, PiecesTyped DEF CallInv, SlotInv
<1>5. QuietInv'
  BY <1>1, <1>2, <1>3 DEF QuietInv, Quiescent, Unresolved, Ids
<1> QED
  BY <1>1, <1>2, <1>4, <1>5, CompletionStands DEF TeamTyped, TasksTyped, ReviewsTyped, Ids

(* The theorems *)

(* The inductive invariant of the review cycle: a call has a request before a review, the slot
   is held for the only child, and a Team at its end has no review going on. *)
THEOREM ReviewInvariant == ReviewSpec => []ReviewInv
<1>1. ReviewInit => ReviewInv
  <2> SUFFICES ASSUME ReviewInit PROVE ReviewInv
    OBVIOUS
  <2>1. IdleCall.at = "idle" /\ IdleCall.r = 0 /\ Free.at = "free" /\ call = IdleCall /\ slot = Free
    BY DEF IdleCall, Free, ReviewInit
  <2>2. TasksTyped
    <3> DEFINE a == Task("work", 0, 0, {})
               b == Task("work", 0, 0, {1})
    <3>1. a \in TaskRecords /\ b \in TaskRecords
      BY ReviewAssumption DEF Task, TaskRecords
    <3> HIDE DEF a, b
    <3>2. <<a>> \in Seq(TaskRecords) /\ <<a, b>> \in Seq(TaskRecords)
          /\ Len(<<a>>) = 1 /\ Len(<<a, b>>) = 2
      BY <3>1
    <3>3. tasks = <<a>> \/ tasks = <<a, b>>
      BY DEF ReviewInit, a, b
    <3>4. CASE tasks = <<a>>
      BY <3>2, <3>4, ReviewAssumption DEF TasksTyped
    <3>5. CASE tasks = <<a, b>>
      BY <3>2, <3>5, ReviewAssumption DEF TasksTyped
    <3> QED
      BY <3>3, <3>4, <3>5
  <2>3. ReviewsTyped /\ Len(reviews) = 0 /\ Unresolved = {}
    BY DEF ReviewInit, ReviewsTyped, Ids, Unresolved
  <2>4. CallInv /\ SlotInv
    BY <2>1, <2>3, PiecesTyped DEF ReviewInit, CallInv, SlotInv
  <2> QED
    BY <2>1, <2>2, <2>3, <2>4, ReviewAssumption
       DEF ReviewInit, ReviewInv, TeamTyped, QuietInv, CompletionIsReviewed, Teams
<1>2. ReviewInv /\ [ReviewNext]_reviewVars => ReviewInv'
  <2> SUFFICES ASSUME ReviewInv, [ReviewNext]_reviewVars PROVE ReviewInv'
    OBVIOUS
  <2>1. CASE UNCHANGED reviewVars
    BY <2>1, CompletionStands
       DEF reviewVars, journal, volatile, bounds, ReviewInv, TeamTyped, TasksTyped, ReviewsTyped, CallInv,
           SlotInv, QuietInv, Quiescent, Unresolved, Ids
  <2>2. CASE ReviewNext
    BY <2>2, PassKeeps, CompletesKeeps, ReworksKeeps, SettlesKeeps, AskKeeps, RequestKeeps,
       ReviewerKeeps, StopKeeps, ResultKeeps, FailureKeeps, DecideKeeps, ControlKeeps, CancelKeeps,
       CrashKeeps DEF ReviewNext
  <2> QED
    BY <2>1, <2>2
<1> QED
  BY <1>1, <1>2, PTL DEF ReviewSpec

(* Reviews are owned, for every policy, limit, finding and number of restarts: a Team under
   review completes on a candidate that passed or was waived, a reviewer child never outlives
   its slot, and a cancelled Team leaves no review without an outcome. *)
THEOREM ReviewsStayOwned == ReviewSpec => []ReviewsAreOwned
<1>1. ReviewInv => ReviewsAreOwned
  <2> SUFFICES ASSUME ReviewInv PROVE ReviewsAreOwned
    OBVIOUS
  <2>1. ReviewTypeOK
    <3>1. \A t \in Ids(tasks) : tasks[t].status \in {"pending", "running", "completed", "cancelled"}
      <4>1. \A t \in Ids(tasks) : tasks[t] \in TaskRecords
        BY DEF ReviewInv, TasksTyped, Ids
      <4> QED
        BY <4>1 DEF TaskRecords
    <3>2. \A r \in Ids(reviews) : /\ reviews[r].cand \in ReviewCheckpoints /\ reviews[r].anchor \in ReviewCheckpoints
                                  /\ reviews[r].status \in {"requested", "completed", "awaiting"}
      <4>1. \A r \in Ids(reviews) : reviews[r] \in ReviewRecords
        BY DEF ReviewInv, ReviewsTyped, Ids
      <4> QED
        BY <4>1 DEF ReviewRecords
    <3>3. children \subseteq Ids(reviews)
      BY DEF ReviewInv, SlotInv
    <3>4. call.at \in {"idle", "admitting", "routing", "running", "answered", "failing"}
          /\ slot.at \in {"free", "starting", "live", "ended", "refused"}
      BY DEF ReviewInv, CallInv, SlotInv, CallRecords, SlotRecords
    <3> QED
      BY <3>1, <3>2, <3>3, <3>4 DEF ReviewInv, ReviewTypeOK, TeamTyped, ReviewsTyped, SlotInv, Teams
  <2>2. CancelledIsQuiet /\ ReviewerIsOwned
    BY DEF ReviewInv, CancelledIsQuiet, ReviewerIsOwned, QuietInv, Quiescent, SlotInv, Free
  <2> QED
    BY <2>1, <2>2 DEF ReviewInv, ReviewsAreOwned
<1> QED
  BY <1>1, ReviewInvariant, PTL

(* Corrections stay bounded *)

(* The inductive invariant: a rework task corrects a review there is, and no checkpoint, nor the
   Team, has more unauthorised corrections than it may have. *)
ReworkInv ==
    /\ \A t \in Ids(tasks) : tasks[t].kind = "rework" =>
          tasks[t].source \in Ids(reviews) /\ tasks[t].round <= MaxReworkRounds
    /\ Cardinality(Automatic) <= TeamLimit
    /\ \A a \in ReviewCheckpoints : Cardinality(AutomaticFor(a)) <= limit

(* What every step but the creation of a rework task does to what is counted. *)
OnlyGrows ==
    /\ Len(tasks') = Len(tasks) /\ limit' = limit /\ Ids(reviews) \subseteq Ids(reviews')
    /\ \A t \in Ids(tasks) : /\ tasks'[t].kind = tasks[t].kind /\ tasks'[t].round = tasks[t].round
                             /\ tasks'[t].source = tasks[t].source
    /\ \A r \in Ids(reviews) : /\ reviews'[r].anchor = reviews[r].anchor
                               /\ reviews[r].user = "authorise" => reviews'[r].user = "authorise"

(* A task that changes its status takes no review away. *)
LEMMA RestatusGrows ==
    ASSUME ReviewInv, NEW t \in Ids(tasks), NEW st, tasks' = [tasks EXCEPT ![t].status = st],
           UNCHANGED <<limit, reviews>>
    PROVE  OnlyGrows
<1>1. tasks \in Seq(TaskRecords) /\ t \in 1 .. Len(tasks)
  BY DEF ReviewInv, TasksTyped, Ids
<1>2. tasks[t] \in TaskRecords
  BY <1>1
<1>3. Len(tasks') = Len(tasks)
  BY <1>1
<1>4. \A u \in 1 .. Len(tasks) : tasks'[u] = IF u = t THEN [tasks[t] EXCEPT !.status = st] ELSE tasks[u]
  BY <1>1
<1>5. \A u \in 1 .. Len(tasks) : tasks'[u].kind = tasks[u].kind /\ tasks'[u].round = tasks[u].round
                                 /\ tasks'[u].source = tasks[u].source
  BY <1>2, <1>4 DEF TaskRecords
<1> QED
  BY <1>3, <1>5 DEF OnlyGrows, Ids

(* Only an accepted rework adds to what is bounded. *)
LEMMA StepsGrow ==
    ASSUME ReviewInv, [ReviewNext]_reviewVars, ~(RunnerReworks /\ ReworkAccepted(LatestOf(Due)))
    PROVE  OnlyGrows
<1>0. ReviewsTyped /\ TasksTyped /\ SlotInv /\ CallInv /\ TeamTyped
  BY DEF ReviewInv
<1>1. CASE UNCHANGED <<tasks, reviews, limit>>
  BY <1>1 DEF OnlyGrows, Ids
<1>2. CASE DispatchTask
  <2>1. FirstPending \in Ids(tasks)
    BY <1>0, <1>2, FirstIsPending DEF DispatchTask
  <2> QED
    BY <1>2, <2>1, RestatusGrows DEF DispatchTask
<1>3. CASE TaskSettles
  <2>1. PICK t \in Ids(tasks) :
          /\ tasks' = [tasks EXCEPT ![t].status = IF team = "cancelling" THEN "cancelled" ELSE "completed"]
          /\ UNCHANGED <<limit, reviews>>
    BY <1>3 DEF TaskSettles
  <2> QED
    BY <2>1, RestatusGrows
<1>4. CASE CommitRequest
  <2>1. PICK new : reviews' = reviews \/ reviews' = Append(reviews, new)
    BY <1>4 DEF CommitRequest
  <2>2. reviews \in Seq(ReviewRecords) /\ Len(reviews) \in Nat
    BY <1>0 DEF ReviewsTyped
  <2>3. Len(reviews') >= Len(reviews) /\ \A p \in 1 .. Len(reviews) : reviews'[p] = reviews[p]
    BY <2>1, <2>2
  <2>4. Len(reviews') \in Nat
    BY <2>1, <2>2
  <2>5. tasks' = tasks /\ limit' = limit
    BY <1>4 DEF CommitRequest
  <2> QED
    BY <2>2, <2>3, <2>4, <2>5 DEF OnlyGrows, Ids
<1>5. CASE StopConfirmed \/ EndFailedCall
  <2>1. tasks' = tasks /\ limit' = limit
        /\ (UNCHANGED reviews \/ \E r : Closed(r))
    BY <1>5 DEF StopConfirmed, EndFailedCall
  <2>2. ASSUME NEW r, Closed(r) PROVE OnlyGrows
    BY <1>0, <2>1, <2>2, ClosedKeeps DEF OnlyGrows, Ids
  <2> QED
    BY <1>1, <2>1, <2>2
<1>6. CASE RecordResult
  <2>1. tasks' = tasks /\ limit' = limit /\ call.r \in Ids(reviews) /\ call.out \in Results
        /\ (UNCHANGED reviews \/ reviews' = Recorded(call.r, call.out))
    BY <1>0, <1>6 DEF RecordResult, WithResult, CallInv, NoReview, Ids
  <2> QED
    BY <1>0, <1>1, <2>1, RecordedKeeps DEF OnlyGrows, Ids
<1>7. CASE UserDecides
  <2>1. PICK r \in Ids(reviews), d \in {"retry", "authorise", "waive", "fail", "cancel"} :
          DecisionAccepted(r, d) /\ reviews' = WithDecision(r, d) /\ UNCHANGED <<tasks, limit>>
    BY <1>7 DEF UserDecides
  <2>2. reviews \in Seq(ReviewRecords) /\ r \in 1 .. Len(reviews) /\ reviews[r].user = "none"
        /\ Len(reviews) \in Nat
    BY <1>0, <2>1 DEF ReviewsTyped, Ids, DecisionAccepted
  <2>3. reviews[r] \in ReviewRecords
    BY <2>2
  <2>4. Len(reviews') = Len(reviews)
    BY <2>1, <2>2 DEF WithDecision
  <2>5. \A p \in 1 .. Len(reviews) : p # r => reviews'[p] = reviews[p]
    BY <2>1, <2>2 DEF WithDecision
  <2>6. reviews'[r].anchor = reviews[r].anchor
    BY <2>1, <2>2, <2>3 DEF WithDecision, ReviewRecords
  <2> QED
    BY <2>1, <2>2, <2>4, <2>5, <2>6 DEF OnlyGrows, Ids
<1>8. CASE RunnerReworks
  BY <1>1, <1>8 DEF RunnerReworks
<1> QED
  BY <1>1, <1>2, <1>3, <1>4, <1>5, <1>6, <1>7, <1>8
     DEF ReviewNext, reviewVars, journal, RunnerRefused, RunnerReviews, RunnerCompletes, RunnerAwaits, RunnerIdles,
         AskReview, StartReviewer, AdmitChild, ChildEnds, Timeout, ReviewerAnswers, StopStalls,
         PauseTeam, ResumeTeam, CancelTeam, AbortReviewer, CancelCommits, CancelFails, HostRestarts

(* The corrections counted are finitely many. *)
LEMMA CountsFinite ==
    ASSUME TasksTyped
    PROVE  /\ IsFiniteSet(Automatic) /\ Cardinality(Automatic) \in Nat
           /\ \A a : IsFiniteSet(AutomaticFor(a)) /\ Cardinality(AutomaticFor(a)) \in Nat
<1>1. Len(tasks) \in Nat /\ Automatic \subseteq 1 .. Len(tasks)
  BY DEF TasksTyped, Automatic, Ids
<1>2. IsFiniteSet(Automatic)
  <2>1. IsFiniteSet(1 .. Len(tasks))
    BY <1>1, FS_Interval
  <2> QED
    BY <1>1, <2>1, FS_Subset
<1>3. \A a : AutomaticFor(a) \subseteq Automatic
  BY DEF AutomaticFor
<1> QED
  BY <1>2, <1>3, FS_Subset, FS_CardinalityType

(* What only grows in reviews and verdicts keeps the bounds on reworks. *)
LEMMA GrowthKeepsBounds ==
    ASSUME ReviewInv, ReworkInv, OnlyGrows
    PROVE  ReworkInv'
<1>1. Ids(tasks') = Ids(tasks) /\ TasksTyped /\ ReviewsTyped
  BY DEF OnlyGrows, Ids, ReviewInv
<1>2. \A t \in Ids(tasks) : tasks[t].kind = "rework" => tasks[t].source \in Ids(reviews)
  BY DEF ReworkInv
<1>3. Automatic' \subseteq Automatic
  BY <1>1, <1>2 DEF OnlyGrows, Automatic
<1>4. \A a : AutomaticFor(a)' \subseteq AutomaticFor(a)
  <2>1. \A t \in Automatic' : reviews'[tasks'[t].source].anchor = reviews[tasks[t].source].anchor
    BY <1>1, <1>2, <1>3 DEF OnlyGrows, Automatic
  <2> QED
    BY <1>3, <2>1 DEF AutomaticFor
<1>5. Cardinality(Automatic') <= Cardinality(Automatic) /\ Cardinality(Automatic') \in Nat
  BY <1>1, <1>3, CountsFinite, FS_Subset, FS_CardinalityType
<1>6. \A a : Cardinality(AutomaticFor(a)') <= Cardinality(AutomaticFor(a))
             /\ Cardinality(AutomaticFor(a)') \in Nat
  BY <1>1, <1>4, CountsFinite, FS_Subset, FS_CardinalityType
<1>7. limit \in Nat /\ TeamLimit \in Nat /\ limit' = limit
  BY ReviewAssumption DEF ReviewInv, TeamTyped, OnlyGrows, MaxReworkRounds
<1>8. Cardinality(Automatic)' <= TeamLimit
  BY <1>1, <1>5, <1>7, CountsFinite DEF ReworkInv
<1>9. \A a \in ReviewCheckpoints : Cardinality(AutomaticFor(a))' <= limit'
  BY <1>1, <1>6, <1>7, CountsFinite DEF ReworkInv
<1> QED
  BY <1>1, <1>8, <1>9 DEF ReworkInv, OnlyGrows

(* The correction of a review, once it is accepted, is one more than before. *)
LEMMA ReworkKeepsBounds ==
    ASSUME ReviewInv, ReworkInv, RunnerReworks, ReworkAccepted(LatestOf(Due))
    PROVE  ReworkInv'
<1> DEFINE r == LatestOf(Due)
           n == Len(tasks) + 1
           free == reviews[r].user = "authorise"
<1>1. /\ r \in Ids(reviews) /\ reviews' = reviews /\ limit' = limit /\ TasksTyped /\ ReviewsTyped
      /\ tasks' = Append(tasks, Task("rework", r, reviews[r].round + 1, Completed))
  BY ReworkHasReview DEF RunnerReworks, WithRework, ReviewInv
<1>2. /\ Len(tasks) \in Nat /\ Len(tasks') = n /\ n \notin Ids(tasks) /\ Ids(tasks') = Ids(tasks) \cup {n}
      /\ \A t \in Ids(tasks) : tasks'[t] = tasks[t]
      /\ tasks'[n].kind = "rework" /\ tasks'[n].source = r /\ tasks'[n].round = reviews[r].round + 1
  BY <1>1 DEF TasksTyped, Ids, Task
<1>3. reviews[r].round \in Nat /\ reviews[r].anchor \in ReviewCheckpoints
  <2>1. reviews[r] \in ReviewRecords
    BY <1>1 DEF ReviewsTyped, Ids
  <2> QED
    BY <2>1 DEF ReviewRecords
<1>4. limit \in 0 .. MaxReworkRounds /\ TeamLimit \in Nat
  BY ReviewAssumption DEF ReviewInv, TeamTyped
<1>5. /\ free \/ ~Exhausted(r)
      /\ reviews[r].round + 1 <= MaxReworkRounds
  BY <1>3, <1>4 DEF ReworkAccepted, MaxReworkRounds
<1> HIDE DEF r, n
<1>6. Automatic' = IF free THEN Automatic ELSE Automatic \cup {n}
  BY <1>1, <1>2 DEF Automatic
<1>7. \A a : AutomaticFor(a)' = IF free \/ a # reviews[r].anchor THEN AutomaticFor(a)
                                ELSE AutomaticFor(a) \cup {n}
  <2>1. n \notin Automatic
    BY <1>2 DEF Automatic
  <2>2. \A t \in Automatic : tasks'[t] = tasks[t]
    BY <1>2 DEF Automatic
  <2> QED
    BY <1>1, <1>2, <1>6, <2>1, <2>2, ZenonT(30) DEF AutomaticFor
<1>8. n \notin Automatic /\ \A a : n \notin AutomaticFor(a)
  BY <1>2 DEF Automatic, AutomaticFor
<1>9. Cardinality(Automatic)' <= TeamLimit
  <2>1. CASE free
    BY <1>6, <2>1 DEF ReworkInv
  <2>2. CASE ~free
    <3>1. Cardinality(Automatic') = Cardinality(Automatic) + 1
      BY <1>1, <1>6, <1>8, <2>2, CountsFinite, FS_AddElement
    <3>2. Cardinality(Automatic) \in Nat /\ ~(Cardinality(Automatic) >= TeamLimit)
      BY <1>1, <1>5, <2>2, CountsFinite DEF Exhausted
    <3> QED
      BY <1>4, <3>1, <3>2
  <2> QED
    BY <2>1, <2>2
<1>10. ASSUME NEW a \in ReviewCheckpoints PROVE Cardinality(AutomaticFor(a))' <= limit'
  <2>1. CASE free \/ a # reviews[r].anchor
    BY <1>1, <1>7, <2>1 DEF ReworkInv
  <2>2. CASE ~free /\ a = reviews[r].anchor
    <3>1. Cardinality(AutomaticFor(a)') = Cardinality(AutomaticFor(a)) + 1
      BY <1>1, <1>7, <1>8, <2>2, CountsFinite, FS_AddElement
    <3>2. Cardinality(AutomaticFor(a)) \in Nat /\ ~(Cardinality(AutomaticFor(a)) >= limit)
      BY <1>1, <1>5, <2>2, CountsFinite DEF Exhausted
    <3> QED
      BY <1>1, <1>4, <3>1, <3>2
  <2> QED
    BY <2>1, <2>2
<1>11. \A t \in Ids(tasks') : tasks'[t].kind = "rework" =>
          tasks'[t].source \in Ids(reviews') /\ tasks'[t].round <= MaxReworkRounds
  BY <1>1, <1>2, <1>5 DEF ReworkInv
<1> QED
  BY <1>9, <1>10, <1>11 DEF ReworkInv

(* Corrections nobody authorised stay within the limit of their checkpoint and of the Team, and
   no chain of rounds is longer than the maximum, for every limit a Team may have and whatever
   is asked, decided, cancelled or restarted meanwhile. *)
THEOREM ReworksStayBounded == ReviewSpec => []ReworksAreBounded
<1>1. ReviewInit => ReworkInv
  <2> SUFFICES ASSUME ReviewInit PROVE ReworkInv
    OBVIOUS
  <2>1. \A t \in Ids(tasks) : tasks[t].kind = "work"
    BY DEF ReviewInit, Ids, Task
  <2>2. Automatic = {} /\ \A a : AutomaticFor(a) = {}
    BY <2>1 DEF Automatic, AutomaticFor
  <2>3. limit \in Nat /\ TeamLimit \in Nat /\ Cardinality({}) = 0
    BY ReviewAssumption, FS_EmptySet DEF ReviewInit, MaxReworkRounds
  <2> QED
    BY <2>1, <2>2, <2>3 DEF ReworkInv
<1>2. ReviewInv /\ ReworkInv /\ [ReviewNext]_reviewVars => ReworkInv'
  BY StepsGrow, GrowthKeepsBounds, ReworkKeepsBounds
<1>3. ReviewInv /\ ReworkInv => ReworksAreBounded
  <2> SUFFICES ASSUME ReviewInv, ReworkInv PROVE ReworksAreBounded
    OBVIOUS
  <2>1. \A r \in Ids(reviews) : reviews[r].anchor \in ReviewCheckpoints
    <3>1. \A r \in Ids(reviews) : reviews[r] \in ReviewRecords
      BY DEF ReviewInv, ReviewsTyped, Ids
    <3> QED
      BY <3>1 DEF ReviewRecords
  <2> QED
    BY <2>1 DEF ReworkInv, ReworksAreBounded
<1> QED
  BY <1>1, <1>2, <1>3, ReviewInvariant, PTL DEF ReviewSpec
-----------------------------------------------------------------------------
(* The panel's copy of the catalog *)

Entries == [source : {"none", "sidecar", "unavailable", "legacy"}, version : Nat]
WalkRecords ==
    [id : Nat \ {0}, stage : {"index", "rows"}, of : SUBSET Sessions, after : Int,
     used : SUBSET Sessions, pages : Nat, found : [Sessions -> Entries]]

(* A conversation without a Team, or without a Session, never had a version. *)
StoreTyped ==
    /\ store \in [Sessions -> [kind : RecordKinds, version : Nat]]
    /\ \A c \in Sessions : store[c].kind \in {"ordinary", "gone"} => store[c].version = 0

(* A walk waits for one answer; older ones have other numbers. *)
WalkTyped ==
    /\ walks \in Nat /\ walk \in WalkRecords \cup {NoWalk} /\ walk.id <= walks
    /\ \A a \in answers : a.walk \in 1 .. walks
    /\ \A a, b \in answers : a.walk = walk.id /\ b.walk = walk.id => a = b

(* A page holds, of what did not change since the walk began, exactly the records between the
   cursor it was asked with and the one it answers. *)
Within(page, c) == page.cursor = -1 \/ c <= page.cursor
TruePage(page) ==
    /\ page.cursor \in Sessions \cup {-1} /\ (page.cursor # -1 => page.cursor > walk.after)
    /\ DOMAIN page.records \subseteq Sessions
    /\ \A c \in DOMAIN page.records : page.records[c] \in Entries
    /\ \A c \in Sessions \ touched :
         /\ c \in DOMAIN page.records =>
              c \in Selected /\ c > walk.after /\ Within(page, c) /\ page.records[c] = Inspect(c)
         /\ c \in Selected /\ c > walk.after /\ Within(page, c) /\ Present(c) =>
              c \in DOMAIN page.records
AnswersTrue ==
    walk # NoWalk => \A a \in answers : a.walk = walk.id /\ ~a.failed => TruePage(a.page)

(* What the walk has found so far of what did not change: the index up to its cursor; then every
   row but the cold ones, and those up to the cursor of the second request. *)
FoundTrue ==
    walk # NoWalk => \A c \in Sessions \ touched :
      IF walk.stage = "index"
      THEN walk.found[c] = IF c \in Index /\ c <= walk.after THEN Inspect(c) ELSE Nothing
      ELSE /\ c \in walk.of <=> store[c].kind = "cold"
           /\ walk.found[c] = IF c \in walk.of /\ c > walk.after THEN Nothing ELSE Inspect(c)

ClientInv == PanelKeepsTrying /\ (disposed => walk = NoWalk)
PanelInv == StoreTyped /\ WalkTyped /\ AnswersTrue /\ FoundTrue /\ ClientInv

(* A finite set of natural numbers that is not empty has a greatest member, which is its Max. *)
LEMMA Greatest ==
    ASSUME NEW S \in SUBSET Nat, IsFiniteSet(S), S # {}
    PROVE  Max(S) \in S /\ \A e \in S : e <= Max(S)
<1> DEFINE Above(y) == {x \in S : x > y}
           D == {Cardinality(Above(y)) : y \in S}
<1>1. \A y \in S : Above(y) \in SUBSET S /\ IsFiniteSet(Above(y)) /\ Cardinality(Above(y)) \in Nat
  BY FS_Subset, FS_CardinalityType
<1>2. PICK d \in D : \A e \in D : d <= e
  <2>1. D \in SUBSET Nat /\ D # {}
    BY <1>1
  <2> QED
    BY <2>1, Minimum
<1>3. PICK y \in S : d = Cardinality(Above(y))
  BY <1>2
<1>4. ASSUME NEW z \in S PROVE z <= y
  <2> SUFFICES ASSUME z > y PROVE FALSE
    OBVIOUS
  <2>0. y \in Nat /\ z \in Nat /\ ~(z > z) /\ \A x \in S : x > z => x > y
    <3>1. \A x \in S : x \in Nat
      OBVIOUS
    <3> QED
      BY <3>1
  <2>1. Above(z) \subseteq Above(y) /\ z \in Above(y) /\ z \notin Above(z)
    BY <2>0
  <2>2. Cardinality(Above(z)) <= Cardinality(Above(y)) /\ Cardinality(Above(z)) # Cardinality(Above(y))
    <3>1. IsFiniteSet(Above(y)) /\ Above(z) \in SUBSET Above(y) /\ Above(z) # Above(y)
      BY <1>1, <2>1
    <3> HIDE DEF Above
    <3> QED
      BY <3>1, FS_Subset
  <2>3. d <= Cardinality(Above(z))
    BY <1>2
  <2> HIDE DEF Above
  <2> QED
    BY <1>1, <1>3, <2>2, <2>3
<1>5. \E x \in S : \A e \in S : x >= e
  BY <1>4
<1> QED
  BY <1>5 DEF Max

(* What the Host answers about a conversation is an entry. *)
LEMMA EntriesTyped ==
    ASSUME StoreTyped, NEW c \in Sessions
    PROVE  Inspect(c) \in Entries /\ Nothing \in Entries /\ (~Present(c) => Inspect(c) = Nothing)
<1>1. store[c].kind \in RecordKinds /\ store[c].version \in Nat
  BY DEF StoreTyped
<1>2. store[c].kind \in {"ordinary", "gone"} => store[c].version = 0
  BY DEF StoreTyped
<1> QED
  BY <1>1, <1>2 DEF Inspect, Present, Nothing, Entries, RecordKinds

(* Wherever its room ends, a page is cut between two records (readSidecarSnapshot). *)
LEMMA PageIsTrue ==
    ASSUME StoreTyped, walk \in WalkRecords
    PROVE  TruePage(Page(Selected, walk.after))
<1> DEFINE after == walk.after
           eligible == {c \in Selected : c > after}
           Below(c) == {d \in eligible : d < c}
           page == {c \in eligible : Cardinality(Below(c)) < PageSize}
           Earlier(c) == {d \in page : d < c /\ Present(d)}
           Fits(c) == Present(c) /\ Earlier(c) # {} =>
                        MapThenSumSet(Size, Earlier(c) \cup {c}) <= PageRoom
           kept == {c \in page : \A d \in page : d <= c => Fits(d)}
           last == IF kept = {} THEN -1 ELSE Max(kept)
           answer == [records |-> [c \in {d \in kept : Present(d)} |-> Inspect(c)],
                      cursor |-> IF kept # {} /\ \E c \in eligible : c > last THEN last ELSE -1]
<1>1. Page(Selected, walk.after) = answer
  BY DEF Page, LastRecord
<1>2. /\ Selected \subseteq Sessions /\ after \in Int
      /\ eligible \subseteq Nat /\ IsFiniteSet(eligible) /\ kept \subseteq eligible
  <2>1. Selected \subseteq Sessions /\ after \in Int
    BY DEF WalkRecords, Selected, Index
  <2>2. eligible \in SUBSET Sessions /\ kept \subseteq eligible
    BY <2>1
  <2> QED
    BY <2>1, <2>2, FS_Subset, PanelAssumption
<1>3. \A c \in eligible : /\ Below(c) \subseteq eligible /\ IsFiniteSet(Below(c))
                         /\ Cardinality(Below(c)) \in Nat
  <2> SUFFICES ASSUME NEW c \in eligible
               PROVE  /\ Below(c) \subseteq eligible /\ IsFiniteSet(Below(c))
                      /\ Cardinality(Below(c)) \in Nat
    OBVIOUS
  <2>1. Below(c) \in SUBSET eligible
    OBVIOUS
  <2> HIDE DEF Below, eligible
  <2> QED
    BY <1>2, <2>1, FS_Subset, FS_CardinalityType
<1>4. eligible # {} => kept # {}
  <2> SUFFICES ASSUME eligible # {} PROVE kept # {}
    OBVIOUS
  <2>1. PICK m \in eligible : \A e \in eligible : m <= e
    <3> HIDE DEF eligible
    <3> QED
      BY <1>2, Minimum
  <2>2. m \in Nat /\ \A e \in eligible : e \in Nat /\ ~(e < m)
    BY <1>2, <2>1
  <2>3. Below(m) = {}
    BY <2>2
  <2>4. m \in page
    <3>1. Cardinality(Below(m)) = 0
      BY <2>3, FS_EmptySet
    <3> QED
      BY <3>1, PanelAssumption
  <2>5. Earlier(m) = {}
    BY <2>2
  <2>6. Fits(m)
    BY <2>5
  <2>7. \A d \in page : d <= m => d = m
    BY <1>2, <2>1, <2>2
  <2> QED
    BY <2>4, <2>6, <2>7
<1>5. ASSUME NEW x \in kept, NEW c \in eligible, c <= x
      PROVE  c \in kept
  <2>1. x \in eligible /\ x \in Nat /\ c \in Nat /\ \A d \in eligible : d \in Nat
    BY <1>2
  <2>2. Below(c) \subseteq Below(x)
    <3>1. \A d \in eligible : d < c => d < x
      <4> HIDE DEF eligible
      <4> QED
        BY <2>1, <1>5
    <3> QED
      BY <3>1
  <2>3. Cardinality(Below(c)) <= Cardinality(Below(x))
    <3>1. Below(c) \in SUBSET Below(x) /\ IsFiniteSet(Below(x))
      BY <1>3, <2>1, <2>2
    <3> HIDE DEF Below
    <3> QED
      BY <3>1, FS_Subset
  <2>4. Cardinality(Below(x)) < PageSize
    OBVIOUS
  <2>5. Cardinality(Below(c)) < PageSize
    <3>1. Cardinality(Below(c)) \in Nat /\ Cardinality(Below(x)) \in Nat /\ PageSize \in Nat
      BY <1>3, <2>1, PanelAssumption
    <3> HIDE DEF Below
    <3> QED
      BY <3>1, <2>3, <2>4
  <2>6. c \in page
    BY <2>5
  <2>7. \A d \in page : d <= c => d <= x
    BY <2>1, <1>5
  <2>8. \A d \in page : d <= x => Fits(d)
    OBVIOUS
  <2> HIDE DEF page, Fits
  <2> QED
    BY <2>6, <2>7, <2>8
<1>6. kept # {} => Max(kept) \in kept /\ \A e \in kept : e <= Max(kept)
  <2> SUFFICES ASSUME kept # {} PROVE Max(kept) \in kept /\ \A e \in kept : e <= Max(kept)
    OBVIOUS
  <2>1. kept \in SUBSET Nat /\ IsFiniteSet(kept)
    <3>1. kept \in SUBSET eligible
      BY <1>2
    <3> HIDE DEF kept, eligible
    <3> QED
      BY <3>1, <1>2, FS_Subset
  <2> HIDE DEF kept
  <2> QED
    BY <2>1, Greatest
<1>7. /\ answer.cursor = -1 => \A c \in eligible : c \in kept
      /\ answer.cursor # -1 => answer.cursor = Max(kept) /\ kept # {}
      /\ DOMAIN answer.records = {d \in kept : Present(d)}
      /\ \A d \in kept : Present(d) => answer.records[d] = Inspect(d)
  <2> HIDE DEF eligible, kept
  <2>1. answer.cursor = -1 => \A c \in eligible : c \in kept
    <3> SUFFICES ASSUME answer.cursor = -1, NEW c \in eligible PROVE c \in kept
      OBVIOUS
    <3>1. kept # {}
      BY <1>4
    <3>2. last = Max(kept) /\ Max(kept) \in kept /\ Max(kept) \in Nat /\ c \in Nat
      BY <1>2, <1>6, <3>1
    <3>3. ~(c > last)
      BY <3>1, <3>2
    <3>4. c <= Max(kept)
      BY <3>2, <3>3
    <3> QED
      BY <1>5, <3>2, <3>4
  <2> QED
    BY <2>1
<1>8. /\ answer.cursor \in Sessions \cup {-1} /\ (answer.cursor # -1 => answer.cursor > walk.after)
      /\ DOMAIN answer.records \subseteq Sessions
      /\ \A c \in DOMAIN answer.records : answer.records[c] \in Entries
  <2>1. \A c \in kept : c \in Sessions /\ c > walk.after /\ Inspect(c) \in Entries
    BY <1>2, EntriesTyped
  <2> HIDE DEF kept, answer
  <2> QED
    BY <1>6, <1>7, <2>1
<1>9. ASSUME NEW c \in Sessions
      PROVE  /\ c \in DOMAIN answer.records =>
                   c \in Selected /\ c > walk.after /\ Within(answer, c)
                   /\ answer.records[c] = Inspect(c)
             /\ c \in Selected /\ c > walk.after /\ Within(answer, c) /\ Present(c) =>
                   c \in DOMAIN answer.records
  <2>1. c \in kept => c \in eligible /\ c \in Selected /\ c > walk.after
    OBVIOUS
  <2>2. c \in Selected /\ c > walk.after => c \in eligible
    OBVIOUS
  <2>3. c \in kept => Within(answer, c)
    <3> HIDE DEF kept, answer
    <3> QED
      BY <1>6, <1>7 DEF Within
  <2>4. c \in eligible /\ Within(answer, c) => c \in kept
    <3> HIDE DEF kept, answer, eligible
    <3> QED
      BY <1>5, <1>6, <1>7 DEF Within
  <2> HIDE DEF kept, answer, eligible
  <2> QED
    BY <1>7, <2>1, <2>2, <2>3, <2>4
<1> HIDE DEF answer
<1> QED
  BY <1>1, <1>8, <1>9 DEF TruePage

(* A step of the Client that leaves the records, the answers and the walk alone. *)
LEMMA PanelRests ==
    ASSUME PanelInv, ClientInv', UNCHANGED <<store, walk, walks, answers, touched>>
    PROVE  PanelInv'
<1>1. StoreTyped' /\ WalkTyped'
  BY DEF PanelInv, StoreTyped, WalkTyped
<1>2. AnswersTrue'
  BY DEF PanelInv, AnswersTrue, TruePage, Within, Selected, Index, Inspect, Present
<1>3. FoundTrue'
  BY DEF PanelInv, FoundTrue, Index, Inspect
<1> QED
  BY <1>1, <1>2, <1>3 DEF PanelInv

(* The walk ends, or none begins. *)
LEMMA WalkEnds ==
    ASSUME PanelInv, ClientInv', walk' = NoWalk, answers' \subseteq answers,
           UNCHANGED <<store, walks>>
    PROVE  PanelInv'
<1>1. StoreTyped'
  BY DEF PanelInv, StoreTyped
<1>2. NoWalk.id = 0
  BY DEF NoWalk
<1>3. WalkTyped'
  BY <1>2 DEF PanelInv, WalkTyped
<1> QED
  BY <1>1, <1>3 DEF PanelInv, AnswersTrue, FoundTrue

(* A new walk has found nothing, and nobody has answered it. *)
LEMMA WalkBegins ==
    ASSUME PanelInv, ~disposed, NEW b \in BOOLEAN, Begins(b), UNCHANGED <<store, answers, disposed>>
    PROVE  PanelInv'
<1>1. StoreTyped'
  BY DEF PanelInv, StoreTyped
<1>2. /\ walk' \in WalkRecords /\ walk' # NoWalk /\ walk'.stage = "index" /\ walk'.after = -1
      /\ walk'.found = NoneShown /\ walk'.id = walks + 1 /\ walks' = walks + 1 /\ walks \in Nat
  <2>1. walks \in Nat
    BY DEF PanelInv, WalkTyped
  <2>2. NoneShown \in [Sessions -> Entries]
    BY DEF Nothing, Entries, NoneShown
  <2>3. /\ walk' = [id |-> walks + 1, stage |-> "index", of |-> {}, after |-> -1, used |-> {},
                   pages |-> 0, found |-> NoneShown]
        /\ walks' = walks + 1
    BY DEF Begins, NoWalk
  <2>4. walk' \in WalkRecords
    BY <2>1, <2>2, <2>3 DEF WalkRecords
  <2>5. walk' # NoWalk
    BY <2>3 DEF NoWalk
  <2> QED
    BY <2>1, <2>3, <2>4, <2>5
<1>3. \A a \in answers : a.walk \in 1 .. walks /\ a.walk # walks + 1 /\ a.walk \in 1 .. walks + 1
  BY <1>2 DEF PanelInv, WalkTyped
<1>4. WalkTyped'
  BY <1>2, <1>3 DEF WalkTyped
<1>5. AnswersTrue'
  BY <1>2, <1>3 DEF AnswersTrue
<1>6. FoundTrue'
  <2>1. \A c \in Sessions : ~(c <= -1) /\ NoneShown[c] = Nothing
    BY PanelAssumption DEF NoneShown
  <2> QED
    BY <1>2, <2>1 DEF FoundTrue
<1>7. ClientInv'
  BY <1>2 DEF Begins, PanelInv, ClientInv, PanelKeepsTrying
<1> QED
  BY <1>1, <1>4, <1>5, <1>6, <1>7 DEF PanelInv

(* A record changes: what a page or the walk has of the others is still true. *)
LEMMA ChangeKeeps ==
    ASSUME PanelInv, NEW c \in Sessions, NEW k \in RecordKinds, Change(c, k)
    PROVE  PanelInv'
<1>1. /\ \A d \in Sessions \ touched' : d # c /\ d \notin touched /\ store'[d] = store[d]
      /\ UNCHANGED <<walk, walks, answers, panel, disposed, poll>>
  BY DEF Change, PanelInv, StoreTyped
<1>2. StoreTyped'
  <2>1. store[c].kind \in RecordKinds /\ store[c].version \in Nat
    BY DEF PanelInv, StoreTyped
  <2>2. k # "ordinary" /\ k # "gone"
    BY <2>1 DEF Change, Becomes, RecordKinds
  <2>3. /\ store' = [store EXCEPT ![c] = [kind |-> k, version |-> @.version + 1]]
        /\ [kind |-> k, version |-> store[c].version + 1] \in [kind : RecordKinds, version : Nat]
    BY <2>1 DEF Change
  <2> QED
    BY <2>2, <2>3 DEF PanelInv, StoreTyped
<1>3. WalkTyped' /\ ClientInv'
  BY <1>1 DEF PanelInv, WalkTyped, ClientInv, PanelKeepsTrying
<1>5. AnswersTrue'
  <2> SUFFICES ASSUME walk # NoWalk, NEW a \in answers, a.walk = walk.id, ~a.failed
               PROVE  TruePage(a.page)'
    BY <1>1 DEF AnswersTrue
  <2>1. TruePage(a.page)
    BY DEF PanelInv, AnswersTrue
  <2>2. ASSUME NEW d \in Sessions \ touched'
        PROVE  /\ d \in DOMAIN a.page.records =>
                    (d \in Selected /\ d > walk.after /\ Within(a.page, d)
                     /\ a.page.records[d] = Inspect(d))'
               /\ (d \in Selected /\ d > walk.after /\ Within(a.page, d) /\ Present(d))' =>
                    d \in DOMAIN a.page.records
    BY <1>1, <2>1, <2>2 DEF TruePage, Within, Selected, Index, Inspect, Present
  <2> QED
    BY <1>1, <2>1, <2>2 DEF TruePage, Within
<1>6. FoundTrue'
  BY <1>1 DEF PanelInv, FoundTrue, Index, Inspect
<1> QED
  BY <1>2, <1>3, <1>5, <1>6 DEF PanelInv

(* The Host answers the walk that waits. *)
LEMMA AnswerKeeps ==
    ASSUME PanelInv, Serve \/ Refuse
    PROVE  PanelInv'
<1>1. PICK new : /\ answers' = answers \cup {new} /\ new.walk = walk.id
                 /\ ~new.failed => new.page = Page(Selected, walk.after)
  <2>1. CASE Serve
    <3> DEFINE r == [walk |-> walk.id, failed |-> FALSE, page |-> Page(Selected, walk.after)]
    <3>1. answers' = answers \cup {r}
      BY <2>1 DEF Serve
    <3>2. r.walk = walk.id /\ r.page = Page(Selected, walk.after)
      OBVIOUS
    <3> HIDE DEF r
    <3> QED
      BY <3>1, <3>2
  <2>2. CASE Refuse
    <3> DEFINE r == [walk |-> walk.id, failed |-> TRUE,
                     page |-> [records |-> [c \in {} |-> Nothing], cursor |-> -1]]
    <3>1. answers' = answers \cup {r}
      BY <2>2 DEF Refuse
    <3>2. r.walk = walk.id /\ r.failed
      OBVIOUS
    <3> HIDE DEF r
    <3> QED
      BY <3>1, <3>2
  <2> QED
    BY <2>1, <2>2
<1>2. /\ UNCHANGED <<store, walk, walks, panel, disposed, poll, touched>>
      /\ Outstanding
  BY DEF Serve, Refuse
<1>3. walk \in WalkRecords /\ walk.id \in 1 .. walks
  BY <1>2 DEF Outstanding, PanelInv, WalkTyped, WalkRecords
<1>4. StoreTyped' /\ ClientInv' /\ FoundTrue'
  BY <1>2 DEF PanelInv, StoreTyped, ClientInv, PanelKeepsTrying, FoundTrue, Index, Inspect
<1>5. WalkTyped'
  <2>1. \A a \in answers : a.walk \in 1 .. walks /\ a.walk # walk.id
    BY <1>2 DEF Outstanding, PanelInv, WalkTyped
  <2>2. \A a \in answers' : a.walk \in 1 .. walks
    BY <1>1, <1>3, <2>1
  <2>3. \A a, b \in answers' : a.walk = walk.id /\ b.walk = walk.id => a = b
    BY <1>1, <2>1
  <2> QED
    BY <1>2, <2>2, <2>3 DEF PanelInv, WalkTyped
<1>6. AnswersTrue'
  <2> SUFFICES ASSUME NEW a \in answers', a.walk = walk.id, ~a.failed
               PROVE  TruePage(a.page)'
    BY <1>2 DEF AnswersTrue
  <2>1. a.page = Page(Selected, walk.after)
    <3>1. a \notin answers
      BY <1>2 DEF Outstanding
    <3> QED
      BY <1>1, <3>1
  <2>2. TruePage(a.page)
    BY <1>3, <2>1, PageIsTrue DEF PanelInv
  <2> QED
    BY <1>2, <2>2 DEF TruePage, Within, Selected, Index, Inspect, Present
<1> QED
  BY <1>4, <1>5, <1>6 DEF PanelInv

(* Session ids are numbers. *)
LEMMA SessionsAreNumbers ==
    /\ \A c \in Sessions : c \in Nat /\ c \in Int
    /\ \A c \in Sessions \cup {-1} : c \in Int
<1>1. \A c \in Sessions : c \in Nat
  BY PanelAssumption
<1> QED
  BY <1>1

(* After a page the walk has found what it holds, and no more. *)
LEMMA MergedIsTrue ==
    ASSUME PanelInv, walk # NoWalk, NEW a \in answers, a.walk = walk.id, ~a.failed,
           NEW c \in Sessions \ touched
    PROVE  IF walk.stage = "index"
           THEN Merged(a.page)[c] = IF c \in Index /\ Within(a.page, c) THEN Inspect(c) ELSE Nothing
           ELSE Merged(a.page)[c] = IF c \in walk.of /\ ~Within(a.page, c) THEN Nothing
                                    ELSE Inspect(c)
<1> DEFINE p == a.page
           m == IF c \in DOMAIN p.records THEN p.records[c] ELSE walk.found[c]
<1>1. Merged(p)[c] = m
  BY DEF Merged
<1>2. /\ c \in DOMAIN p.records =>
           c \in Selected /\ c > walk.after /\ Within(p, c) /\ p.records[c] = Inspect(c)
      /\ c \in Selected /\ c > walk.after /\ Within(p, c) /\ Present(c) => c \in DOMAIN p.records
      /\ p.cursor \in Sessions \cup {-1} /\ (p.cursor # -1 => p.cursor > walk.after)
  BY DEF PanelInv, AnswersTrue, TruePage
<1>3. IF walk.stage = "index"
      THEN walk.found[c] = IF c \in Index /\ c <= walk.after THEN Inspect(c) ELSE Nothing
      ELSE walk.found[c] = IF c \in walk.of /\ c > walk.after THEN Nothing ELSE Inspect(c)
  BY DEF PanelInv, FoundTrue
<1>4. /\ Selected = IF walk.stage = "index" THEN Index ELSE walk.of
      /\ ~Present(c) => Inspect(c) = Nothing
      /\ c \in Nat /\ walk.after \in Int
  BY EntriesTyped, PanelAssumption DEF Selected, PanelInv, WalkTyped, WalkRecords
<1>5. c <= walk.after \/ c > walk.after
  BY <1>4
<1> HIDE DEF p, m
<1>6. c <= walk.after => ~(c > walk.after) /\ Within(p, c)
  <2>1. p.cursor \in Int
    <3>1. p.cursor \in Sessions \cup {-1}
      BY <1>2
    <3> QED
      BY <3>1, SessionsAreNumbers
  <2>2. p.cursor # -1 => p.cursor > walk.after
    BY <1>2
  <2>3. c <= walk.after => ~(c > walk.after) /\ (p.cursor = -1 \/ c <= p.cursor)
    BY <1>4, <2>1, <2>2
  <2> QED
    BY <2>3 DEF Within
<1>7. CASE walk.stage = "index"
  <2>1. m = IF c \in Index /\ Within(p, c) THEN Inspect(c) ELSE Nothing
    BY <1>2, <1>3, <1>4, <1>5, <1>6, <1>7 DEF m
  <2> QED
    BY <1>1, <1>7, <2>1 DEF p
<1>8. CASE walk.stage # "index"
  <2>1. m = IF c \in walk.of /\ ~Within(p, c) THEN Nothing ELSE Inspect(c)
    BY <1>2, <1>3, <1>4, <1>5, <1>6, <1>8 DEF m
  <2> QED
    BY <1>1, <1>8, <2>1 DEF p
<1> QED
  BY <1>7, <1>8

(* The Client asks for the next page of the walk. *)
LEMMA ContinueKeeps ==
    ASSUME PanelInv, walk # NoWalk, NEW a \in answers, a.walk = walk.id, ~a.failed,
           answers' = answers \ {a}, a.page.cursor # -1, Continues(a.page),
           UNCHANGED <<store, walks, touched, panel, poll, disposed>>
    PROVE  PanelInv'
<1>1. StoreTyped'
  BY DEF PanelInv, StoreTyped
<1>2. walk \in WalkRecords /\ TruePage(a.page)
  BY DEF PanelInv, WalkTyped, AnswersTrue
<1>3. Merged(a.page) \in [Sessions -> Entries] /\ DOMAIN a.page.records \subseteq Sessions
      /\ a.page.cursor \in Sessions
  BY <1>2 DEF Merged, TruePage, WalkRecords
<1>4. /\ walk' \in WalkRecords /\ walk'.id = walk.id /\ walk'.stage = walk.stage
      /\ walk'.of = walk.of /\ walk'.after = a.page.cursor /\ walk'.found = Merged(a.page)
  <2>1. walk' = [id |-> walk.id, stage |-> walk.stage, of |-> walk.of, after |-> a.page.cursor,
                 used |-> walk.used \cup DOMAIN a.page.records, pages |-> walk.pages + 1,
                 found |-> Merged(a.page)]
    BY <1>2 DEF Continues, WalkRecords
  <2>2. /\ walk.id \in Nat \ {0} /\ walk.stage \in {"index", "rows"} /\ walk.of \in SUBSET Sessions
        /\ a.page.cursor \in Int /\ walk.used \cup DOMAIN a.page.records \in SUBSET Sessions
        /\ walk.pages + 1 \in Nat
    <3>1. a.page.cursor \in Int
      BY <1>3, SessionsAreNumbers
    <3>2. walk.id \in Nat \ {0} /\ walk.stage \in {"index", "rows"} /\ walk.of \in SUBSET Sessions
      BY <1>2 DEF WalkRecords
    <3>3. walk.used \in SUBSET Sessions /\ walk.pages \in Nat
      BY <1>2 DEF WalkRecords
    <3> QED
      BY <1>3, <3>1, <3>2, <3>3
  <2> HIDE DEF Merged
  <2>3. walk' \in WalkRecords
    BY <1>3, <2>1, <2>2 DEF WalkRecords
  <2> QED
    BY <2>1, <2>3
<1>5. \A b \in answers' : b \in answers /\ b.walk # walk.id
  BY DEF PanelInv, WalkTyped
<1>6. WalkTyped' /\ AnswersTrue'
  BY <1>4, <1>5 DEF PanelInv, WalkTyped, AnswersTrue
<1>7. FoundTrue'
  <2>1. ASSUME NEW c \in Sessions \ touched
        PROVE  /\ Within(a.page, c) <=> c <= a.page.cursor
               /\ ~Within(a.page, c) <=> c > a.page.cursor
    <3>1. a.page.cursor \in Nat /\ c \in Nat
      BY <1>3, PanelAssumption
    <3>2. a.page.cursor # -1 /\ (~(c <= a.page.cursor) <=> c > a.page.cursor)
      BY <3>1
    <3> QED
      BY <3>2 DEF Within
  <2>2. ASSUME NEW c \in Sessions \ touched
        PROVE  IF walk.stage = "index"
               THEN Merged(a.page)[c] = IF c \in Index /\ c <= a.page.cursor THEN Inspect(c) ELSE Nothing
               ELSE /\ c \in walk.of <=> store[c].kind = "cold"
                    /\ Merged(a.page)[c] = IF c \in walk.of /\ c > a.page.cursor THEN Nothing
                                           ELSE Inspect(c)
    BY <2>1, MergedIsTrue DEF PanelInv, FoundTrue
  <2>3. \A c \in Sessions : Inspect(c)' = Inspect(c)
    BY DEF Inspect
  <2> QED
    BY <1>4, <2>2, <2>3 DEF FoundTrue, Index
<1>8. ClientInv'
  <2>1. walk' # NoWalk
    BY <1>4 DEF WalkRecords, NoWalk
  <2> QED
    BY <2>1 DEF PanelInv, ClientInv, PanelKeepsTrying
<1> QED
  BY <1>1, <1>6, <1>7, <1>8 DEF PanelInv

(* The whole index is read, and the Client asks for the rows it does not know. *)
LEMMA RowsKeep ==
    ASSUME PanelInv, walk # NoWalk, NEW a \in answers, a.walk = walk.id, ~a.failed,
           answers' = answers \ {a}, a.page.cursor = -1, walk.stage = "index", AsksRows(a.page),
           UNCHANGED <<store, walks, touched, panel, poll, disposed>>
    PROVE  PanelInv'
<1> DEFINE of == Rows(Merged(a.page))
           found == [c \in Sessions |-> IF c \in of THEN Nothing ELSE Merged(a.page)[c]]
<1>1. StoreTyped'
  BY DEF PanelInv, StoreTyped
<1>2. walk \in WalkRecords /\ TruePage(a.page)
  BY DEF PanelInv, WalkTyped, AnswersTrue
<1>3. Merged(a.page) \in [Sessions -> Entries] /\ of \in SUBSET Sessions /\ Nothing \in Entries
  BY <1>2 DEF Merged, TruePage, WalkRecords, Rows, Nothing, Entries
<1>4. /\ walk' \in WalkRecords /\ walk'.id = walk.id /\ walk'.stage = "rows"
      /\ walk'.of = of /\ walk'.after = -1 /\ walk'.found = found
  <2>1. found \in [Sessions -> Entries]
    BY <1>3
  <2> HIDE DEF of, found
  <2>2. walk' = [id |-> walk.id, stage |-> "rows", of |-> of, after |-> -1,
                 used |-> {}, pages |-> walk.pages + 1, found |-> found]
    BY <1>2 DEF AsksRows, WalkRecords, of, found
  <2>3. walk.id \in Nat \ {0} /\ walk.pages + 1 \in Nat
    BY <1>2 DEF WalkRecords
  <2>4. walk' \in WalkRecords
    BY <1>3, <2>1, <2>2, <2>3 DEF WalkRecords
  <2> QED
    BY <2>2, <2>4
<1>5. \A b \in answers' : b \in answers /\ b.walk # walk.id
  BY DEF PanelInv, WalkTyped
<1>6. WalkTyped' /\ AnswersTrue'
  BY <1>4, <1>5 DEF PanelInv, WalkTyped, AnswersTrue
<1>7. FoundTrue'
  <2> SUFFICES ASSUME NEW c \in Sessions \ touched
               PROVE  /\ c \in of <=> store[c].kind = "cold"
                      /\ found[c] = IF c \in of /\ c > -1 THEN Nothing ELSE Inspect(c)
    <3>1. \A c \in Sessions : Inspect(c)' = Inspect(c)
      BY DEF Inspect
    <3> QED
      BY <1>4, <3>1 DEF FoundTrue
  <2>1. Merged(a.page)[c] = IF c \in Index THEN Inspect(c) ELSE Nothing
    BY MergedIsTrue DEF Within
  <2>2. store[c].kind \in RecordKinds /\ c \in Nat
    BY PanelAssumption DEF PanelInv, StoreTyped
  <2>3. store[c].kind = "cold" => c \notin Index
    BY DEF Index
  <2>4. store[c].kind = "live" => c \in Index /\ Inspect(c) # Nothing
    BY DEF Index, Inspect, Nothing
  <2>5. c \in of <=> store[c].kind = "cold"
    BY <2>1, <2>3, <2>4 DEF Rows
  <2>6. c \notin of => Merged(a.page)[c] = Inspect(c)
    <3>1. CASE c \in Index
      BY <2>1, <3>1
    <3>2. CASE c \notin Index /\ store[c].kind # "cold"
      <4>1. store[c].kind = "ordinary"
        BY <2>2, <3>2 DEF Index, RecordKinds
      <4>2. ~Present(c)
        BY <4>1 DEF Inspect, Present
      <4>3. Inspect(c) = Nothing
        BY <4>2, EntriesTyped DEF PanelInv
      <4> QED
        BY <2>1, <3>2, <4>3
    <3> QED
      BY <2>5, <3>1, <3>2
  <2>7. c > -1
    BY <2>2
  <2> HIDE DEF of
  <2> QED
    BY <2>5, <2>6, <2>7
<1>8. ClientInv'
  <2>1. walk' # NoWalk
    BY <1>4 DEF WalkRecords, NoWalk
  <2> QED
    BY <2>1 DEF PanelInv, ClientInv, PanelKeepsTrying
<1> QED
  BY <1>1, <1>6, <1>7, <1>8 DEF PanelInv

(* What is published is the whole walk. *)
LEMMA PublishedTrue ==
    ASSUME PanelInv, walk # NoWalk, NEW a \in answers, a.walk = walk.id, ~a.failed,
           a.page.cursor = -1, walk.stage = "index" => Rows(Merged(a.page)) = {},
           NEW c \in Sessions \ touched
    PROVE  Merged(a.page)[c] = Inspect(c)
<1>1. Within(a.page, c)
  BY DEF Within
<1>2. CASE walk.stage = "index"
  <2>1. Merged(a.page)[c] = IF c \in Index THEN Inspect(c) ELSE Nothing
    BY <1>1, <1>2, MergedIsTrue
  <2>2. store[c].kind \in RecordKinds
    BY DEF PanelInv, StoreTyped
  <2>3. ~(c \notin Index /\ store[c].kind = "cold")
    BY <1>2, <2>1 DEF Rows
  <2>4. c \notin Index => store[c].kind = "ordinary"
    BY <2>2, <2>3 DEF Index, RecordKinds
  <2>5. store[c].kind = "ordinary" => Inspect(c) = Nothing
    <3>1. store[c].kind = "ordinary" => ~Present(c)
      BY DEF Inspect, Present
    <3> QED
      BY <3>1, EntriesTyped DEF PanelInv
  <2> QED
    BY <2>1, <2>4, <2>5
<1>3. CASE walk.stage # "index"
  BY <1>1, <1>3, MergedIsTrue
<1> QED
  BY <1>2, <1>3

(* An answer to the current walk. *)
LEMMA ReceiveKeeps ==
    ASSUME PanelInv, NEW a \in answers, ReceivePage(a)
    PROVE  PanelInv'
<1>1. /\ walk # NoWalk /\ a.walk = walk.id /\ answers' = answers \ {a} /\ ~disposed
      /\ UNCHANGED <<store, walks, disposed, touched>>
  BY DEF ReceivePage, PanelInv, ClientInv
<1>2. CASE Fails \/ Publishes(a.page)
  <2>1. walk' = NoWalk /\ poll' /\ panel' \in {"error", "ready"}
    BY <1>2 DEF Fails, Publishes, Retried
  <2>2. ClientInv'
    BY <1>1, <2>1 DEF ClientInv, PanelKeepsTrying
  <2> QED
    BY <1>1, <2>1, <2>2, WalkEnds
<1>3. CASE ~a.failed /\ a.page.cursor # -1 /\ Continues(a.page) /\ UNCHANGED <<panel, shown, poll>>
  BY <1>1, <1>3, ContinueKeeps
<1>4. CASE /\ ~a.failed /\ a.page.cursor = -1 /\ walk.stage = "index" /\ AsksRows(a.page)
           /\ UNCHANGED <<panel, shown, poll>>
  BY <1>1, <1>4, RowsKeep
<1> QED
  BY <1>2, <1>3, <1>4 DEF ReceivePage

(* The catalog, the panel and their initial states. *)
LEMMA PanelBegins ==
    ASSUME PanelInit
    PROVE  PanelInv
<1>1. walk = NoWalk /\ walks = 0 /\ answers = {} /\ panel = "loading" /\ ~poll /\ ~disposed
  BY DEF PanelInit
<1>2. StoreTyped
  BY DEF PanelInit, StoreTyped
<1>3. WalkTyped
  BY <1>1 DEF WalkTyped, NoWalk
<1> QED
  BY <1>1, <1>2, <1>3 DEF PanelInv, AnswersTrue, FoundTrue, ClientInv, PanelKeepsTrying

(* Every step keeps the panel's walk true. *)
LEMMA PanelSteps ==
    ASSUME PanelInv, [PanelNext]_panelVars
    PROVE  PanelInv'
<1>1. ASSUME NEW c \in Sessions, NEW k \in RecordKinds, Change(c, k) PROVE PanelInv'
  BY <1>1, ChangeKeeps
<1>2. CASE Serve \/ Refuse
  BY <1>2, AnswerKeeps
<1>3. CASE Refresh
  BY <1>3, WalkBegins DEF Refresh
<1>4. CASE Poll
  BY <1>4, WalkBegins DEF Poll
<1>5. CASE Deadline
  <2>1. ClientInv'
    BY <1>5 DEF Deadline, Fails, Retried, PanelInv, ClientInv, PanelKeepsTrying
  <2> QED
    BY <1>5, <2>1, WalkEnds DEF Deadline, Fails
<1>6. CASE Recover
  <2>1. ClientInv'
    BY <1>6 DEF Recover, PanelInv, ClientInv, PanelKeepsTrying
  <2> QED
    BY <1>6, <2>1, PanelRests DEF Recover
<1>7. CASE Cancel
  <2>1. ClientInv'
    BY <1>7 DEF Cancel, ClientInv, PanelKeepsTrying
  <2> QED
    BY <1>7, <2>1, WalkEnds DEF Cancel
<1>8. CASE Dispose
  <2>1. ClientInv'
    BY <1>8 DEF Dispose, ClientInv, PanelKeepsTrying
  <2> QED
    BY <1>8, <2>1, WalkEnds DEF Dispose
<1>9. ASSUME NEW a \in answers, ReceivePage(a) PROVE PanelInv'
  BY <1>9, ReceiveKeeps
<1>10. ASSUME NEW a \in answers, Drop(a) PROVE PanelInv'
  <2>1. answers' \subseteq answers /\ UNCHANGED <<store, walk, walks, panel, poll, disposed, touched>>
    BY <1>10 DEF Drop
  <2>2. StoreTyped' /\ ClientInv' /\ FoundTrue'
    BY <2>1 DEF PanelInv, StoreTyped, ClientInv, PanelKeepsTrying, FoundTrue, Index, Inspect
  <2>3. WalkTyped'
    BY <2>1 DEF PanelInv, WalkTyped
  <2>4. AnswersTrue'
    BY <2>1 DEF PanelInv, AnswersTrue, TruePage, Within, Selected, Index, Inspect, Present
  <2> QED
    BY <2>2, <2>3, <2>4 DEF PanelInv
<1>11. ASSUME NEW g \in recovering, Recovered(g) PROVE PanelInv'
  <2>1. CASE g = generation /\ ~disposed /\ walks < MaxWalks
    BY <1>11, <2>1, WalkBegins DEF Recovered
  <2>2. CASE ~(g = generation /\ ~disposed /\ walks < MaxWalks)
    <3>1. UNCHANGED <<store, walk, walks, answers, touched, panel, poll, disposed>>
      BY <1>11, <2>2 DEF Recovered
    <3>2. ClientInv'
      BY <3>1 DEF PanelInv, ClientInv, PanelKeepsTrying
    <3> QED
      BY <3>1, <3>2, PanelRests
  <2> QED
    BY <2>1, <2>2
<1>12. CASE UNCHANGED panelVars
  <2>1. ClientInv'
    BY <1>12 DEF panelVars, PanelInv, ClientInv, PanelKeepsTrying
  <2> QED
    BY <1>12, <2>1, PanelRests DEF panelVars
<1> QED
  BY <1>1, <1>2, <1>3, <1>4, <1>5, <1>6, <1>7, <1>8, <1>9, <1>10, <1>11, <1>12 DEF PanelNext

(* A step that publishes shows the whole catalog. *)
LEMMA PublishesWhole ==
    ASSUME PanelInv, PanelNext, panel' = "ready", walk # NoWalk, walk' = NoWalk, ~disposed',
           NEW c \in Sessions \ touched
    PROVE  shown'[c] = Inspect(c) /\ (PageEntry(c)' = "team" => store[c].kind = "facts")
<1>1. \E a \in answers : ReceivePage(a) /\ Publishes(a.page)
  <2>1. walk.id \in Nat /\ walks \in Nat
    BY DEF PanelInv, WalkTyped, WalkRecords
  <2>2. ~Begins(TRUE) /\ ~Begins(FALSE)
    <3>1. walks + 1 # 0
      BY <2>1
    <3> QED
      BY <3>1 DEF Begins, NoWalk
  <2>3. ~Fails
    BY DEF Fails
  <2>4. \A a \in answers : ~Continues(a.page) /\ ~AsksRows(a.page)
    <3>1. walk \in WalkRecords
      BY DEF PanelInv, WalkTyped
    <3>2. walk.id # NoWalk.id
      BY <3>1 DEF WalkRecords, NoWalk
    <3> QED
      BY <3>1, <3>2 DEF Continues, AsksRows, WalkRecords
  <2>5. ASSUME NEW a \in answers, ReceivePage(a) PROVE Publishes(a.page)
    BY <2>3, <2>4, <2>5 DEF ReceivePage
  <2> HIDE DEF Begins, Fails, Publishes
  <2>6. ~Refresh /\ ~Poll /\ ~Deadline /\ ~Cancel /\ ~Dispose
    BY <2>2, <2>3 DEF Refresh, Poll, Deadline, Cancel, Dispose
  <2>7. ~Serve /\ ~Refuse /\ ~Recover
    BY DEF Serve, Refuse, Recover
  <2>8. /\ \A d \in Sessions, k \in RecordKinds : ~Change(d, k)
        /\ \A a \in answers : ~Drop(a)
        /\ \A g \in recovering : ~Recovered(g)
    BY <2>2 DEF Change, Drop, Recovered
  <2> QED
    BY <2>5, <2>6, <2>7, <2>8 DEF PanelNext
<1>2. PICK a \in answers : ReceivePage(a) /\ Publishes(a.page)
  BY <1>1
<1>3. shown' = Merged(a.page) /\ UNCHANGED store /\ a.walk = walk.id /\ walk' = NoWalk
  BY <1>2 DEF ReceivePage, Publishes
<1>4. /\ ~a.failed /\ a.page.cursor = -1
      /\ walk.stage = "index" => Rows(Merged(a.page)) = {}
  <2>1. ~Fails
    BY <1>2 DEF Fails
  <2>2. ~Continues(a.page) /\ ~AsksRows(a.page)
    <3>1. walk \in WalkRecords
      BY DEF PanelInv, WalkTyped
    <3>2. walk.id # NoWalk.id
      BY <3>1 DEF WalkRecords, NoWalk
    <3> QED
      BY <3>1, <3>2 DEF Continues, AsksRows, WalkRecords
  <2> QED
    BY <1>2, <2>1, <2>2 DEF ReceivePage
<1>5. shown'[c] = Inspect(c)
  BY <1>3, <1>4, PublishedTrue
<1>6. PageEntry(c)' = "team" => Inspect(c).source = "sidecar"
  <2>1. shown'[c].source = Inspect(c).source
    BY <1>5
  <2> HIDE DEF Inspect
  <2> QED
    BY <2>1 DEF PageEntry
<1>7. Inspect(c).source = "sidecar" => store[c].kind = "facts"
  <2>1. store[c].kind \in RecordKinds
    BY DEF PanelInv, StoreTyped
  <2> QED
    BY <2>1 DEF Inspect, RecordKinds
<1> QED
  BY <1>5, <1>6, <1>7

(* What the walk has found is true in every state, whatever changes meanwhile. *)
THEOREM PanelInvariant == PanelSpec => []PanelInv
<1>1. PanelInit => PanelInv
  BY PanelBegins
<1>2. PanelInv /\ [PanelNext]_panelVars => PanelInv'
  BY PanelSteps
<1> QED
  BY <1>1, <1>2, PTL DEF PanelSpec

(* The panel publishes whole catalogs and never stops asking for them. *)
THEOREM PanelStaysTrue == PanelSpec => PanelIsTrue
<1>1. PanelInv => PanelKeepsTrying
  BY DEF PanelInv, ClientInv
<1>2. PanelInv /\ [PanelNext]_panelVars =>
        [panel' = "ready" /\ walk # NoWalk /\ walk' = NoWalk /\ ~disposed' =>
           \A c \in Sessions \ touched :
             /\ shown'[c] = Inspect(c)
             /\ PageEntry(c)' = "team" => store[c].kind = "facts"]_panelVars
  BY PublishesWhole
<1> QED
  BY <1>1, <1>2, PanelInvariant, PTL DEF PanelSpec, PanelIsTrue, PublishedIsWhole

-----------------------------------------------------------------------------
(* Revisions rest on the newest results *)

(* The group's new tasks depend on earlier ones, among them the one each of them revises. *)
Acyclic(g) ==
  /\ Len(g) \in Nat
  /\ \A i \in 1 .. Len(g) : g[i].deps \subseteq 1 .. (i - 1)
  /\ \A i \in 1 .. Len(g) : g[i].source # 0 => g[i].source \in g[i].deps

(* Origin, Rests and the sources of a revision, of any plan of tasks. *)
OriginIn(g) ==
  CHOOSE f : f = [i \in 1 .. Len(g) |-> IF g[i].source = 0 THEN i ELSE f[g[i].source]]
RestsIn(g) ==
  CHOOSE f : f = [i \in 1 .. Len(g) |-> g[i].deps \cup UNION {f[d] : d \in g[i].deps}]
TouchedIn(g, root) ==
  CHOOSE f : f = [i \in 1 .. Len(g) |->
    i = root \/ (i > root /\ (\/ \E d \in g[i].deps : f[d]
                              \/ g[i].source # 0 /\ f[g[i].source]))]

(* They are those of the state, before a step and after it. *)
LEMMA OfThePlan ==
    /\ Origin = OriginIn(graph) /\ Rests = RestsIn(graph)
    /\ Origin' = OriginIn(graph') /\ Rests' = RestsIn(graph')
<1>1. Origin = OriginIn(graph) /\ Rests = RestsIn(graph)
  BY DEF Origin, OriginIn, Rests, RestsIn, LastTask
<1>2. Origin' = OriginIn(graph')
  BY DEF Origin, OriginIn, LastTask
<1>3. Rests' = RestsIn(graph')
  BY DEF Rests, RestsIn, LastTask
<1> QED
  BY <1>1, <1>2, <1>3

(* What a revision of a result reaches is read off the plan alone. *)
LEMMA SourcesOfThePlan ==
    ASSUME NEW root
    PROVE  RevisionSources(root) = {i \in 1 .. Len(graph) : TouchedIn(graph, root)[i]}
BY DEF RevisionSources, TouchedIn, LastTask, Consumes

(* Every task has an origin: a function that gives it for the first n tasks gives it for one more. *)
LEMMA OriginFits ==
    ASSUME NEW g, Acyclic(g)
    PROVE  OriginIn(g) =
             [i \in 1 .. Len(g) |-> IF g[i].source = 0 THEN i ELSE OriginIn(g)[g[i].source]]
<1> DEFINE Fits(f, n) == f = [i \in 1 .. n |-> IF g[i].source = 0 THEN i ELSE f[g[i].source]]
           Bad == {n \in 0 .. Len(g) : ~ \E f : Fits(f, n)}
<1>1. Len(g) \in Nat
  BY DEF Acyclic
<1>2. Bad = {}
  <2> SUFFICES ASSUME Bad # {} PROVE FALSE
    OBVIOUS
  <2>1. Bad \subseteq Nat
    BY <1>1
  <2>2. PICK n \in Bad : \A e \in Bad : n <= e
    <3> HIDE DEF Bad
    <3> QED
      BY <2>1, Minimum
  <2>3. n \in Nat /\ n <= Len(g) /\ ~ \E f : Fits(f, n)
    BY <1>1, <2>2
  <2>4. n # 0
    <3>1. Fits([i \in 1 .. 0 |-> IF g[i].source = 0 THEN i ELSE 0], 0)
      OBVIOUS
    <3> QED
      BY <2>3, <3>1
  <2>5. PICK f : Fits(f, n - 1)
    <3>1. n - 1 \notin Bad /\ n - 1 \in 0 .. Len(g)
      <4> HIDE DEF Bad
      <4>1. ~ (n <= n - 1) /\ n - 1 \in 0 .. Len(g)
        BY <2>3, <2>4, <1>1
      <4> QED
        BY <2>2, <4>1
    <3> QED
      BY <3>1
  <2> DEFINE h == [i \in 1 .. n |-> IF g[i].source = 0 THEN i ELSE f[g[i].source]]
  <2>6. \A i \in 1 .. (n - 1) : h[i] = f[i]
    BY <2>3, <2>4, <2>5
  <2>7. \A i \in 1 .. n : g[i].source # 0 => g[i].source \in 1 .. (n - 1)
    <3>1. \A i \in 1 .. n : i \in 1 .. Len(g) /\ 1 .. (i - 1) \subseteq 1 .. (n - 1)
      BY <2>3, <1>1
    <3> QED
      BY <3>1 DEF Acyclic
  <2>8. Fits(h, n)
    BY <2>6, <2>7
  <2> QED
    BY <2>3, <2>8
<1>3. \E f : Fits(f, Len(g))
  <2>1. Len(g) \in 0 .. Len(g)
    BY <1>1
  <2> QED
    BY <1>2, <2>1
<1> QED
  BY <1>3 DEF OriginIn

(* So it has what it rests on ... *)
LEMMA RestsFits ==
    ASSUME NEW g, Acyclic(g)
    PROVE  RestsIn(g) =
             [i \in 1 .. Len(g) |-> g[i].deps \cup UNION {RestsIn(g)[d] : d \in g[i].deps}]
<1> DEFINE Now(f, i) == g[i].deps \cup UNION {f[d] : d \in g[i].deps}
           Fits(f, n) == f = [i \in 1 .. n |-> Now(f, i)]
           Bad == {n \in 0 .. Len(g) : ~ \E f : Fits(f, n)}
<1>1. Len(g) \in Nat
  BY DEF Acyclic
<1>2. Bad = {}
  <2> SUFFICES ASSUME Bad # {} PROVE FALSE
    OBVIOUS
  <2>1. Bad \subseteq Nat
    BY <1>1
  <2>2. PICK n \in Bad : \A e \in Bad : n <= e
    <3> HIDE DEF Bad
    <3> QED
      BY <2>1, Minimum
  <2>3. n \in Nat /\ n <= Len(g) /\ ~ \E f : Fits(f, n)
    BY <1>1, <2>2
  <2>4. n # 0
    <3> DEFINE z == [i \in 1 .. 0 |-> {}]
    <3>1. Fits(z, 0)
      OBVIOUS
    <3> QED
      BY <2>3, <3>1
  <2>5. PICK f : Fits(f, n - 1)
    <3>1. n - 1 \notin Bad /\ n - 1 \in 0 .. Len(g)
      <4> HIDE DEF Bad
      <4>1. ~ (n <= n - 1) /\ n - 1 \in 0 .. Len(g)
        BY <2>3, <2>4, <1>1
      <4> QED
        BY <2>2, <4>1
    <3> QED
      BY <3>1
  <2> DEFINE h == [i \in 1 .. n |-> Now(f, i)]
  <2>6. \A i \in 1 .. (n - 1) : h[i] = f[i]
    <3>1. \A i \in 1 .. (n - 1) : f[i] = Now(f, i) /\ i \in 1 .. n
      <4> HIDE DEF Now
      <4> QED
        BY <2>3, <2>4, <2>5
    <3> HIDE DEF Now
    <3> QED
      BY <3>1
  <2>7. \A i \in 1 .. n : g[i].deps \subseteq 1 .. (n - 1)
    <3>1. \A i \in 1 .. n : i \in 1 .. Len(g) /\ 1 .. (i - 1) \subseteq 1 .. (n - 1)
      BY <2>3, <1>1
    <3> QED
      BY <3>1 DEF Acyclic
  <2>8. \A i \in 1 .. n : {h[d] : d \in g[i].deps} = {f[d] : d \in g[i].deps}
    <3> HIDE DEF h
    <3> QED
      BY <2>6, <2>7
  <2>9. Fits(h, n)
    <3>1. \A i \in 1 .. n : Now(h, i) = Now(f, i)
      <4> HIDE DEF h
      <4> QED
        BY <2>8
    <3> HIDE DEF Now
    <3>2. \A i \in 1 .. n : h[i] = Now(h, i)
      BY <3>1
    <3>3. h = [i \in 1 .. n |-> h[i]]
      OBVIOUS
    <3> HIDE DEF h
    <3> QED
      BY <3>2, <3>3
  <2> HIDE DEF Fits, h
  <2> QED
    BY <2>3, <2>9
<1>3. \E f : Fits(f, Len(g))
  <2>1. Len(g) \in 0 .. Len(g)
    BY <1>1
  <2> QED
    BY <1>2, <2>1
<1> QED
  BY <1>3 DEF RestsIn

(* ... and is touched by a revision or not. *)
LEMMA TouchedFits ==
    ASSUME NEW g, Acyclic(g), NEW root
    PROVE  TouchedIn(g, root) =
             [i \in 1 .. Len(g) |->
               i = root \/ (i > root /\ (\/ \E d \in g[i].deps : TouchedIn(g, root)[d]
                                         \/ g[i].source # 0 /\ TouchedIn(g, root)[g[i].source]))]
<1> DEFINE Now(f, i) == i = root \/ (i > root /\ (\/ \E d \in g[i].deps : f[d]
                                                  \/ g[i].source # 0 /\ f[g[i].source]))
           Fits(f, n) == f = [i \in 1 .. n |-> Now(f, i)]
           Bad == {n \in 0 .. Len(g) : ~ \E f : Fits(f, n)}
<1>1. Len(g) \in Nat
  BY DEF Acyclic
<1>2. Bad = {}
  <2> SUFFICES ASSUME Bad # {} PROVE FALSE
    OBVIOUS
  <2>1. Bad \subseteq Nat
    BY <1>1
  <2>2. PICK n \in Bad : \A e \in Bad : n <= e
    <3> HIDE DEF Bad
    <3> QED
      BY <2>1, Minimum
  <2>3. n \in Nat /\ n <= Len(g) /\ ~ \E f : Fits(f, n)
    BY <1>1, <2>2
  <2>4. n # 0
    <3> DEFINE z == [i \in 1 .. 0 |-> TRUE]
    <3>1. z = [i \in 1 .. 0 |-> Now(z, i)]
      <4> HIDE DEF Now
      <4> QED
        OBVIOUS
    <3> HIDE DEF z, Now
    <3> QED
      BY <2>3, <3>1
  <2>5. PICK f : Fits(f, n - 1)
    <3>1. n - 1 \notin Bad /\ n - 1 \in 0 .. Len(g)
      <4> HIDE DEF Bad
      <4>1. ~ (n <= n - 1) /\ n - 1 \in 0 .. Len(g)
        BY <2>3, <2>4, <1>1
      <4> QED
        BY <2>2, <4>1
    <3> HIDE DEF Fits
    <3> QED
      BY <3>1
  <2> DEFINE h == [i \in 1 .. n |-> Now(f, i)]
  <2>6. \A i \in 1 .. (n - 1) : h[i] = f[i]
    <3>1. \A i \in 1 .. (n - 1) : f[i] = Now(f, i) /\ i \in 1 .. n
      <4> HIDE DEF Now
      <4> QED
        BY <2>3, <2>4, <2>5
    <3> HIDE DEF Now
    <3> QED
      BY <3>1
  <2>7. \A i \in 1 .. n : g[i].deps \subseteq 1 .. (n - 1)
                          /\ (g[i].source # 0 => g[i].source \in 1 .. (n - 1))
    <3>1. \A i \in 1 .. n : i \in 1 .. Len(g) /\ 1 .. (i - 1) \subseteq 1 .. (n - 1)
      BY <2>3, <1>1
    <3> QED
      BY <3>1 DEF Acyclic
  <2>8. \A i \in 1 .. n : Now(h, i) = Now(f, i)
    <3> HIDE DEF h
    <3> QED
      BY <2>6, <2>7
  <2>9. Fits(h, n)
    <3> HIDE DEF Now
    <3>1. \A i \in 1 .. n : h[i] = Now(h, i)
      BY <2>8
    <3>2. h = [i \in 1 .. n |-> h[i]]
      OBVIOUS
    <3> HIDE DEF h
    <3> QED
      BY <3>1, <3>2
  <2> HIDE DEF Fits, h
  <2> QED
    BY <2>3, <2>9
<1>3. \E f : Fits(f, Len(g))
  <2>1. Len(g) \in 0 .. Len(g)
    BY <1>1
  <2> HIDE DEF Fits
  <2> QED
    BY <1>2, <2>1
<1> QED
  BY <1>3 DEF TouchedIn

(* A plan that grows keeps the inputs and the source of the tasks it has. *)
Grows(g, h) ==
  /\ Acyclic(g) /\ Acyclic(h) /\ Len(g) <= Len(h)
  /\ \A i \in 1 .. Len(g) : h[i].deps = g[i].deps /\ h[i].source = g[i].source

(* What is found from the inputs and the sources is found again. *)
LEMMA FoundAgain ==
    ASSUME NEW g, NEW h, Grows(g, h)
    PROVE  \A i \in 1 .. Len(g) : OriginIn(h)[i] = OriginIn(g)[i] /\ RestsIn(h)[i] = RestsIn(g)[i]
<1> DEFINE Same(i) == OriginIn(h)[i] = OriginIn(g)[i] /\ RestsIn(h)[i] = RestsIn(g)[i]
           Bad == {i \in 1 .. Len(g) : ~Same(i)}
<1>1. Len(g) \in Nat /\ Len(h) \in Nat /\ Acyclic(g) /\ Acyclic(h)
  BY DEF Grows, Acyclic
<1>2. Bad = {}
  <2> SUFFICES ASSUME Bad # {} PROVE FALSE
    OBVIOUS
  <2>1. Bad \subseteq Nat
    OBVIOUS
  <2>2. PICK i \in Bad : \A e \in Bad : i <= e
    <3> HIDE DEF Bad
    <3> QED
      BY <2>1, Minimum
  <2>3. i \in 1 .. Len(g) /\ i \in 1 .. Len(h)
    BY <1>1, <2>2 DEF Grows
  <2>4. \A d \in 1 .. (i - 1) : Same(d)
    <3>1. \A d \in 1 .. (i - 1) : d \in 1 .. Len(g) /\ ~(i <= d)
      BY <2>3, <1>1
    <3> HIDE DEF Same
    <3> QED
      BY <3>1, <2>2
  <2>5. g[i].deps \subseteq 1 .. (i - 1) /\ (g[i].source # 0 => g[i].source \in 1 .. (i - 1))
    BY <2>3, <1>1 DEF Acyclic
  <2>6. h[i].deps = g[i].deps /\ h[i].source = g[i].source
    BY <2>3 DEF Grows
  <2>7. OriginIn(h)[i] = OriginIn(g)[i]
    <3>1. OriginIn(g)[i] = IF g[i].source = 0 THEN i ELSE OriginIn(g)[g[i].source]
      BY <1>1, <2>3, OriginFits
    <3>2. OriginIn(h)[i] = IF h[i].source = 0 THEN i ELSE OriginIn(h)[h[i].source]
      BY <1>1, <2>3, OriginFits
    <3> QED
      BY <3>1, <3>2, <2>4, <2>5, <2>6
  <2>8. RestsIn(h)[i] = RestsIn(g)[i]
    <3>1. RestsIn(g)[i] = g[i].deps \cup UNION {RestsIn(g)[d] : d \in g[i].deps}
      BY <1>1, <2>3, RestsFits
    <3>2. RestsIn(h)[i] = h[i].deps \cup UNION {RestsIn(h)[d] : d \in h[i].deps}
      BY <1>1, <2>3, RestsFits
    <3>3. \A d \in g[i].deps : RestsIn(h)[d] = RestsIn(g)[d]
      BY <2>4, <2>5
    <3>4. {RestsIn(h)[d] : d \in g[i].deps} = {RestsIn(g)[d] : d \in g[i].deps}
      BY <3>3
    <3> QED
      BY <3>1, <3>2, <3>4, <2>6
  <2> QED
    BY <2>2, <2>7, <2>8
<1> QED
  BY <1>2

(* A task rests on its inputs and on what they rest on. *)
LEMMA RestsOn ==
    ASSUME NEW g, Acyclic(g), NEW i \in 1 .. Len(g), NEW x
    PROVE  x \in RestsIn(g)[i] <=> x \in g[i].deps \/ \E d \in g[i].deps : x \in RestsIn(g)[d]
<1>1. RestsIn(g)[i] = g[i].deps \cup UNION {RestsIn(g)[d] : d \in g[i].deps}
  BY RestsFits
<1> QED
  BY <1>1

(* All of them are earlier tasks, and it rests on all that those rest on. *)
LEMMA RestsThrough ==
    ASSUME NEW g, Acyclic(g)
    PROVE  \A i \in 1 .. Len(g) : \A x \in RestsIn(g)[i] :
             x \in 1 .. (i - 1) /\ RestsIn(g)[x] \subseteq RestsIn(g)[i]
<1> DEFINE Through(i) == \A x \in RestsIn(g)[i] :
                           x \in 1 .. (i - 1) /\ RestsIn(g)[x] \subseteq RestsIn(g)[i]
           Bad == {i \in 1 .. Len(g) : ~Through(i)}
<1>1. Len(g) \in Nat
  BY DEF Acyclic
<1>2. Bad = {}
  <2> SUFFICES ASSUME Bad # {} PROVE FALSE
    OBVIOUS
  <2>1. Bad \subseteq Nat
    OBVIOUS
  <2>2. PICK i \in Bad : \A e \in Bad : i <= e
    <3> HIDE DEF Bad
    <3> QED
      BY <2>1, Minimum
  <2>3. i \in 1 .. Len(g)
    BY <2>2
  <2>4. \A d \in 1 .. (i - 1) : Through(d)
    <3>1. \A d \in 1 .. (i - 1) : d \in 1 .. Len(g) /\ ~(i <= d)
      BY <2>3, <1>1
    <3> HIDE DEF Through
    <3> QED
      BY <3>1, <2>2
  <2>5. g[i].deps \subseteq 1 .. (i - 1)
    BY <2>3, <1>1 DEF Acyclic
  <2>6. \A d \in g[i].deps : RestsIn(g)[d] \subseteq RestsIn(g)[i]
    BY <2>3, RestsOn
  <2>7. ASSUME NEW x \in RestsIn(g)[i]
        PROVE  x \in 1 .. (i - 1) /\ RestsIn(g)[x] \subseteq RestsIn(g)[i]
    <3>1. CASE x \in g[i].deps
      BY <3>1, <2>5, <2>6
    <3>2. ASSUME NEW d \in g[i].deps, x \in RestsIn(g)[d]
          PROVE  x \in 1 .. (i - 1) /\ RestsIn(g)[x] \subseteq RestsIn(g)[i]
      <4>1. x \in 1 .. (d - 1) /\ RestsIn(g)[x] \subseteq RestsIn(g)[d] /\ d \in 1 .. (i - 1)
        BY <3>2, <2>4, <2>5
      <4>2. x \in 1 .. (i - 1)
        BY <4>1, <2>3
      <4> QED
        BY <4>1, <4>2, <2>6
    <3> QED
      BY <3>1, <3>2, <2>3, RestsOn
  <2> QED
    BY <2>2, <2>7
<1> QED
  BY <1>2

(* A group of revisions: a new task for each of the affected ones, in their order, whose inputs
   are the result it revises and the new version of each input that has one. *)
Revises(g, h, A, m) ==
  /\ Grows(g, h) /\ A \subseteq 1 .. Len(g)
  /\ \A i \in A : m[i] \in (Len(g) + 1) .. Len(h) /\ h[m[i]].source = i
  /\ \A i \in A : \A d \in g[i].deps \cap A : m[d] \in h[m[i]].deps
  /\ \A k \in (Len(g) + 1) .. Len(h) : \E i \in A : k = m[i]
  /\ \A i, j \in A : i < j => m[i] < m[j]
  /\ \A i \in 1 .. Len(g) : g[i].deps \cap A # {} => i \in A

(* What rests on an affected task is affected, and so are their new versions connected. *)
LEMMA NewRests ==
    ASSUME NEW g, NEW h, NEW A, NEW m, Revises(g, h, A, m)
    PROVE  \A j \in 1 .. Len(g) : \A i \in RestsIn(g)[j] :
             i \in A => j \in A /\ m[i] \in RestsIn(h)[m[j]]
<1> DEFINE Moved(j) == \A i \in RestsIn(g)[j] : i \in A => j \in A /\ m[i] \in RestsIn(h)[m[j]]
           Bad == {j \in 1 .. Len(g) : ~Moved(j)}
<1>1. Len(g) \in Nat /\ Len(h) \in Nat /\ Acyclic(g) /\ Acyclic(h) /\ Grows(g, h)
  BY DEF Revises, Grows, Acyclic
<1>2. Bad = {}
  <2> SUFFICES ASSUME Bad # {} PROVE FALSE
    OBVIOUS
  <2>1. Bad \subseteq Nat
    OBVIOUS
  <2>2. PICK j \in Bad : \A e \in Bad : j <= e
    <3> HIDE DEF Bad
    <3> QED
      BY <2>1, Minimum
  <2>3. j \in 1 .. Len(g)
    BY <2>2
  <2>4. \A d \in 1 .. (j - 1) : Moved(d)
    <3>1. \A d \in 1 .. (j - 1) : d \in 1 .. Len(g) /\ ~(j <= d)
      BY <2>3, <1>1
    <3> HIDE DEF Moved
    <3> QED
      BY <3>1, <2>2
  <2>5. g[j].deps \subseteq 1 .. (j - 1)
    BY <2>3, <1>1 DEF Acyclic
  <2>6. j \in A => m[j] \in 1 .. Len(h)
    BY <1>1 DEF Revises
  <2>7. ASSUME NEW i \in RestsIn(g)[j], i \in A
        PROVE  j \in A /\ m[i] \in RestsIn(h)[m[j]]
    <3>1. CASE i \in g[j].deps
      <4>1. j \in A
        BY <3>1, <2>3, <2>7 DEF Revises
      <4>2. m[i] \in h[m[j]].deps
        BY <4>1, <3>1, <2>7 DEF Revises
      <4> QED
        BY <4>1, <4>2, <2>6, <1>1, RestsOn
    <3>2. ASSUME NEW d \in g[j].deps, i \in RestsIn(g)[d]
          PROVE  j \in A /\ m[i] \in RestsIn(h)[m[j]]
      <4>1. d \in A /\ m[i] \in RestsIn(h)[m[d]]
        BY <3>2, <2>4, <2>5, <2>7
      <4>2. j \in A
        BY <4>1, <2>3 DEF Revises
      <4>3. m[d] \in h[m[j]].deps
        BY <4>1, <4>2 DEF Revises
      <4> QED
        BY <4>1, <4>2, <4>3, <2>6, <1>1, RestsOn
    <3> QED
      BY <3>1, <3>2, <2>3, <1>1, RestsOn
  <2> QED
    BY <2>2, <2>7
<1> QED
  BY <1>2

(* The newest version of a task of the plan, and the two things that hold of it: it rests on every
   other version, and on the newest version of each input of the task. *)
IsNewest(g, c, n) ==
  /\ n \in 1 .. Len(g) /\ OriginIn(g)[n] = c
  /\ \A j \in 1 .. Len(g) : OriginIn(g)[j] = c => j <= n
OnOlder(g, c, n) == \A i \in 1 .. Len(g) : OriginIn(g)[i] = c => i = n \/ i \in RestsIn(g)[n]
Stands(g) ==
  /\ \A c \in 1 .. FirstTasks : \E n : IsNewest(g, c, n) /\ OnOlder(g, c, n)
  /\ \A c \in 1 .. FirstTasks : \A a \in g[c].deps : \A n, o :
       IsNewest(g, c, n) /\ IsNewest(g, a, o) => o \in RestsIn(g)[n]

(* A result has one newest version. *)
LEMMA OneNewest ==
    ASSUME NEW g, Acyclic(g), NEW c, NEW n, NEW o, IsNewest(g, c, n), IsNewest(g, c, o)
    PROVE  n = o
BY DEF IsNewest, Acyclic

(* The newest version of a task moves with its revision. *)
LEMMA NewestMoves ==
    ASSUME NEW g, NEW h, NEW A, NEW m, Revises(g, h, A, m),
           NEW c, NEW n, IsNewest(g, c, n), OnOlder(g, c, n)
    PROVE  LET o == IF n \in A THEN m[n] ELSE n IN IsNewest(h, c, o) /\ OnOlder(h, c, o)
<1> DEFINE o == IF n \in A THEN m[n] ELSE n
<1>1. Len(g) \in Nat /\ Len(h) \in Nat /\ Len(g) <= Len(h) /\ Acyclic(g) /\ Acyclic(h) /\ Grows(g, h)
  BY DEF Revises, Grows, Acyclic
<1>2. \A i \in 1 .. Len(g) : OriginIn(h)[i] = OriginIn(g)[i] /\ RestsIn(h)[i] = RestsIn(g)[i]
  BY <1>1, FoundAgain
<1>3. n \in 1 .. Len(g) /\ OriginIn(g)[n] = c
  BY DEF IsNewest
<1>4. ASSUME NEW i \in A
      PROVE  /\ i \in 1 .. Len(g) /\ m[i] \in 1 .. Len(h) /\ m[i] > Len(g)
             /\ OriginIn(h)[m[i]] = OriginIn(g)[i]
             /\ i \in h[m[i]].deps /\ RestsIn(h)[i] \subseteq RestsIn(h)[m[i]] /\ i \in RestsIn(h)[m[i]]
  <2>1. i \in 1 .. Len(g) /\ m[i] \in (Len(g) + 1) .. Len(h) /\ h[m[i]].source = i
    BY DEF Revises
  <2>2. m[i] \in 1 .. Len(h) /\ m[i] > Len(g) /\ i # 0
    BY <2>1, <1>1
  <2>3. OriginIn(h)[m[i]] = IF h[m[i]].source = 0 THEN m[i] ELSE OriginIn(h)[h[m[i]].source]
    BY <1>1, <2>2, OriginFits
  <2>4. OriginIn(h)[m[i]] = OriginIn(g)[i]
    BY <2>1, <2>2, <2>3, <1>2
  <2>5. i \in h[m[i]].deps
    BY <2>1, <2>2, <1>1 DEF Acyclic
  <2>6. i \in RestsIn(h)[m[i]]
    BY <2>2, <2>5, <1>1, RestsOn
  <2>7. RestsIn(h)[i] \subseteq RestsIn(h)[m[i]]
    BY <2>2, <2>6, <1>1, RestsThrough
  <2> QED
    BY <2>1, <2>2, <2>4, <2>5, <2>6, <2>7
<1>5. o \in 1 .. Len(h) /\ OriginIn(h)[o] = c /\ n <= o
  BY <1>1, <1>2, <1>3, <1>4
<1>6. ASSUME NEW k \in 1 .. Len(h), OriginIn(h)[k] = c
      PROVE  k <= o /\ (k = o \/ k \in RestsIn(h)[o])
  <2>1. CASE k <= Len(g)
    <3>1. k \in 1 .. Len(g) /\ OriginIn(g)[k] = c
      BY <2>1, <1>6, <1>2, <1>1
    <3>2. k <= n /\ (k = n \/ k \in RestsIn(h)[n])
      BY <3>1, <1>2, <1>3 DEF IsNewest, OnOlder
    <3>3. k <= o
      BY <3>2, <1>1, <1>3, <1>5
    <3>4. k = o \/ k \in RestsIn(h)[o]
      BY <3>2, <1>4
    <3> QED
      BY <3>3, <3>4
  <2>2. CASE k > Len(g)
    <3>1. PICK i \in A : k = m[i]
      <4>1. k \in (Len(g) + 1) .. Len(h)
        BY <2>2, <1>1
      <4> QED
        BY <4>1 DEF Revises
    <3>2. i \in 1 .. Len(g) /\ OriginIn(g)[i] = c
      BY <3>1, <1>4, <1>6
    <3>3. i <= n /\ (i = n \/ i \in RestsIn(g)[n])
      BY <3>2 DEF IsNewest, OnOlder
    <3>4. n \in A /\ (i = n \/ m[i] \in RestsIn(h)[m[n]])
      BY <3>3, <1>3, NewRests
    <3>5. i = n \/ m[i] < m[n]
      <4>1. i = n \/ i < n
        BY <3>2, <3>3, <1>1, <1>3
      <4> QED
        BY <4>1, <3>4 DEF Revises
    <3>6. m[i] \in Nat /\ m[n] \in Nat
      BY <3>4, <1>4, <1>1
    <3> QED
      BY <3>1, <3>4, <3>5, <3>6
  <2> QED
    BY <2>1, <2>2, <1>1
<1> QED
  BY <1>5, <1>6 DEF IsNewest, OnOlder

(* So the newest versions go on resting on the newest ones. *)
LEMMA RevisionStands ==
    ASSUME NEW g, NEW h, NEW A, NEW m, Revises(g, h, A, m), Stands(g), FirstTasks \in Nat, FirstTasks <= Len(g)
    PROVE  Stands(h)
<1> DEFINE Moved(n) == IF n \in A THEN m[n] ELSE n
<1>1. Len(g) \in Nat /\ Acyclic(g) /\ Acyclic(h) /\ Grows(g, h) /\ Len(g) <= Len(h)
  BY DEF Revises, Grows, Acyclic
<1>2. ASSUME NEW c, NEW n, IsNewest(g, c, n), OnOlder(g, c, n)
      PROVE  IsNewest(h, c, Moved(n)) /\ OnOlder(h, c, Moved(n))
  BY <1>2, NewestMoves
<1>3. ASSUME NEW c \in 1 .. FirstTasks
      PROVE  \E n : IsNewest(g, c, n) /\ OnOlder(g, c, n)
                    /\ IsNewest(h, c, Moved(n)) /\ OnOlder(h, c, Moved(n))
  <2>1. PICK n : IsNewest(g, c, n) /\ OnOlder(g, c, n)
    BY DEF Stands
  <2> HIDE DEF Moved
  <2> QED
    BY <1>2, <2>1
<1>4. ASSUME NEW c \in 1 .. FirstTasks, NEW a \in h[c].deps, NEW x, NEW y,
             IsNewest(h, c, x), IsNewest(h, a, y)
      PROVE  y \in RestsIn(h)[x]
  <2>1. c \in 1 .. Len(g) /\ a \in g[c].deps /\ a \in 1 .. FirstTasks
    <3>1. c \in 1 .. Len(g)
      BY <1>1
    <3>2. a \in g[c].deps /\ a \in 1 .. (c - 1)
      BY <3>1, <1>1 DEF Grows, Acyclic
    <3> QED
      BY <3>1, <3>2
  <2>2. PICK n : IsNewest(g, c, n) /\ IsNewest(h, c, Moved(n))
    BY <1>3
  <2>3. PICK o : IsNewest(g, a, o) /\ IsNewest(h, a, Moved(o))
    BY <1>3, <2>1
  <2>4. x = Moved(n) /\ y = Moved(o)
    <3> HIDE DEF Moved
    <3> QED
      BY <1>1, <1>4, <2>2, <2>3, OneNewest
  <2>5. o \in RestsIn(g)[n] /\ n \in 1 .. Len(g)
    BY <2>1, <2>2, <2>3 DEF Stands, IsNewest
  <2>6. CASE o \in A
    <3>1. n \in A /\ m[o] \in RestsIn(h)[m[n]]
      BY <2>5, <2>6, NewRests
    <3> QED
      BY <2>4, <2>6, <3>1
  <2>7. CASE o \notin A
    <3>1. o \in RestsIn(h)[n]
      BY <2>5, <1>1, FoundAgain
    <3>2. ASSUME n \in A PROVE RestsIn(h)[n] \subseteq RestsIn(h)[m[n]]
      <4>1. m[n] \in 1 .. Len(h) /\ h[m[n]].source = n /\ n # 0
        BY <3>2, <2>5, <1>1 DEF Revises
      <4>2. n \in h[m[n]].deps
        BY <4>1, <1>1 DEF Acyclic
      <4> QED
        BY <4>1, <4>2, <1>1, RestsOn, RestsThrough
    <3> QED
      BY <2>4, <2>7, <3>1, <3>2
  <2> QED
    BY <2>6, <2>7
<1> HIDE DEF Moved
<1> QED
  BY <1>3, <1>4 DEF Stands

(* The place of a member among the members of a set of numbers. *)
Rank(A, i) == Cardinality({j \in A : j <= i})

(* The members of a set of numbers have the places 1 to its size, in order. *)
LEMMA Ranks ==
    ASSUME NEW n \in Nat, NEW A \in SUBSET (1 .. n)
    PROVE  /\ Cardinality(A) \in Nat
           /\ \A i \in A : Rank(A, i) \in 1 .. Cardinality(A)
           /\ \A i, j \in A : i < j => Rank(A, i) < Rank(A, j)
           /\ \A k \in 1 .. Cardinality(A) : \E i \in A : Rank(A, i) = k
<1> DEFINE Below(i) == {j \in A : j <= i}
           T == 1 .. Cardinality(A)
           f == [i \in A |-> Rank(A, i)]
<1>1. IsFiniteSet(A)
  <2>1. IsFiniteSet(1 .. n)
    BY FS_Interval
  <2> QED
    BY <2>1, FS_Subset
<1>2. Cardinality(A) \in Nat
  BY <1>1, FS_CardinalityType
<1>3. ASSUME NEW i \in A
      PROVE  IsFiniteSet(Below(i)) /\ Rank(A, i) = Cardinality(Below(i)) /\ Rank(A, i) \in T
  <2>1. Below(i) \in SUBSET A /\ i \in Below(i)
    OBVIOUS
  <2>2. Rank(A, i) = Cardinality(Below(i))
    BY DEF Rank
  <2> HIDE DEF Below
  <2>3. IsFiniteSet(Below(i)) /\ Cardinality(Below(i)) <= Cardinality(A)
    BY <1>1, <2>1, FS_Subset
  <2>4. Cardinality(Below(i)) \in Nat /\ Cardinality(Below(i)) # 0
    BY <2>1, <2>3, FS_CardinalityType, FS_EmptySet
  <2> QED
    BY <1>2, <2>2, <2>3, <2>4
<1>4. ASSUME NEW i \in A, NEW j \in A, i < j
      PROVE  Rank(A, i) < Rank(A, j)
  <2>1. Below(i) \in SUBSET Below(j) /\ j \in Below(j) /\ j \notin Below(i)
    <3>1. \A x \in A : x \in Int
      BY A \subseteq 1 .. n, \A x \in 1 .. n : x \in Int
    <3>2. i \in Int /\ j \in Int
      BY <3>1
    <3>3. \A x \in A : x <= i => x <= j
      BY <1>4, <3>1, <3>2
    <3>4. ~(j <= i) /\ j <= j
      BY <1>4, <3>2
    <3> QED
      BY <3>3, <3>4
  <2> HIDE DEF Below, T
  <2>2. Cardinality(Below(i)) <= Cardinality(Below(j)) /\ Cardinality(Below(i)) # Cardinality(Below(j))
    BY <1>3, <2>1, FS_Subset
  <2>3. Rank(A, i) \in Nat /\ Rank(A, j) \in Nat
    BY <1>3, <1>2 DEF T
  <2> QED
    BY <1>3, <2>2, <2>3
<1>5. f \in Injection(A, T)
  <2>1. f \in [A -> T]
    BY <1>3
  <2>2. ASSUME NEW i \in A, NEW j \in A, f[i] = f[j] PROVE i = j
    <3>1. Rank(A, i) = Rank(A, j)
      BY <2>2
    <3>2. Rank(A, i) \in Nat
      <4>1. Rank(A, i) \in T
        BY <1>3
      <4> QED
        BY <4>1, <1>2
    <3>3. ~(Rank(A, i) < Rank(A, j)) /\ ~(Rank(A, j) < Rank(A, i))
      BY <3>1, <3>2
    <3>4. ~(i < j) /\ ~(j < i)
      BY <3>3, <1>4
    <3>5. i \in Int /\ j \in Int
      OBVIOUS
    <3> QED
      BY <3>4, <3>5
  <2> HIDE DEF f, T
  <2> QED
    BY <2>1, <2>2 DEF Injection, IsInjective
<1>6. f \in Surjection(A, T)
  <2>1. IsFiniteSet(T) /\ Cardinality(T) = Cardinality(A)
    BY <1>2, FS_Interval
  <2> HIDE DEF f, T
  <2> QED
    BY <1>5, <2>1, FS_Injection
<1>7. \A k \in T : \E i \in A : Rank(A, i) = k
  BY <1>6 DEF Surjection
<1> QED
  BY <1>2, <1>3, <1>4, <1>7

(* What a state of the revisions is made of *)
TaskStates == {"pending", "running", "completed", "failed", "unknown"}
RevisionTasks ==
  [deps : SUBSET Nat, source : Nat, op : RevisionIds \cup {"none"}, text : Texts \cup {"none"},
   include : BOOLEAN, plan : SUBSET (Nat \X Nat), status : TaskStates]

(* The group of a revision and the first task of an operation, of any plan. *)
SourcesIn(g, root) == {i \in 1 .. Len(g) : TouchedIn(g, root)[i]}
PlaceIn(g, A, i) == Len(g) + Rank(A, i)
MemberIn(g, i, root, A, op, text, include) ==
  Added(IF i = root THEN {i}
        ELSE {i} \cup {IF d \in A THEN PlaceIn(g, A, d) ELSE d : d \in g[i].deps},
        i, op, IF i = root THEN text ELSE g[i].text, include,
        {<<j, PlaceIn(g, A, j)>> : j \in A})
GroupIn(g, root, op, text, include) ==
  [k \in 1 .. Cardinality(SourcesIn(g, root)) |->
     MemberIn(g, CHOOSE i \in SourcesIn(g, root) : PlaceIn(g, SourcesIn(g, root), i) = Len(g) + k,
              root, SourcesIn(g, root), op, text, include)]
FirstOf(g, op) == {i \in 1 .. Len(g) : g[i].op = op /\ \A j \in 1 .. (i - 1) : g[j].op # op}

(* They are the group and the task of the state. *)
LEMMA GroupOfThePlan ==
    ASSUME NEW root, NEW op, NEW text, NEW include
    PROVE  /\ RevisionSources(root) = SourcesIn(graph, root)
           /\ Group(root, op, text, include) = GroupIn(graph, root, op, text, include)
           /\ RootOf(op) = FirstOf(graph, op)
<1>1. RevisionSources(root) = SourcesIn(graph, root)
  BY SourcesOfThePlan DEF SourcesIn
<1>2. RootOf(op) = FirstOf(graph, op)
  BY DEF RootOf, FirstOf, LastTask
<1> DEFINE A == RevisionSources(root)
<1>3. \A i : Mapped(A, i) = PlaceIn(graph, A, i)
  BY DEF Mapped, PlaceIn, Rank, LastTask
<1>4. \A i : Member(i, root, A, op, text, include) = MemberIn(graph, i, root, A, op, text, include)
  <2> HIDE DEF A
  <2> QED
    BY <1>3 DEF Member, MemberIn, NewInputs
<1>5. Group(root, op, text, include) =
        [k \in 1 .. Cardinality(A) |->
           Member(CHOOSE i \in A : Mapped(A, i) = LastTask + k, root, A, op, text, include)]
  BY DEF Group
<1>6. Group(root, op, text, include) =
        [k \in 1 .. Cardinality(A) |->
           MemberIn(graph, CHOOSE i \in A : PlaceIn(graph, A, i) = Len(graph) + k, root, A, op, text, include)]
  <2> HIDE DEF A
  <2> QED
    BY <1>3, <1>4, <1>5 DEF LastTask
<1>7. Group(root, op, text, include) = GroupIn(graph, root, op, text, include)
  BY <1>1, <1>6 DEF GroupIn
<1> QED
  BY <1>1, <1>2, <1>7

(* The first affected task is the result that is revised, and all that consumes one is affected. *)
LEMMA SourcesAre ==
    ASSUME NEW g, Acyclic(g), NEW root \in 1 .. Len(g)
    PROVE  /\ SourcesIn(g, root) \subseteq 1 .. Len(g) /\ root \in SourcesIn(g, root)
           /\ \A i \in SourcesIn(g, root) : root <= i
           /\ \A i \in 1 .. Len(g) : g[i].deps \cap SourcesIn(g, root) # {} => i \in SourcesIn(g, root)
<1> DEFINE f == TouchedIn(g, root)
           Now(i) == i = root \/ (i > root /\ (\/ \E d \in g[i].deps : f[d]
                                               \/ g[i].source # 0 /\ f[g[i].source]))
<1>1. \A i \in 1 .. Len(g) : f[i] = Now(i)
  <2>1. f = [i \in 1 .. Len(g) |-> Now(i)]
    BY TouchedFits
  <2> HIDE DEF f, Now
  <2> QED
    BY <2>1
<1>2. Len(g) \in Nat
  BY DEF Acyclic
<1>3. SourcesIn(g, root) = {i \in 1 .. Len(g) : f[i]}
  BY DEF SourcesIn
<1>4. \A i \in SourcesIn(g, root) : i \in 1 .. Len(g) /\ (i = root \/ i > root)
  <2> HIDE DEF f
  <2> QED
    BY <1>1, <1>3
<1>5. root \in SourcesIn(g, root)
  <2> HIDE DEF f
  <2> QED
    BY <1>1, <1>3
<1>6. ASSUME NEW i \in 1 .. Len(g), NEW d \in g[i].deps, d \in SourcesIn(g, root)
      PROVE  i \in SourcesIn(g, root)
  <2>1. d \in 1 .. (i - 1)
    BY DEF Acyclic
  <2>2. i > root
    BY <2>1, <1>4, <1>6, <1>2
  <2>3. f[d]
    BY <1>3, <1>6
  <2>4. Now(i)
    BY <2>2, <2>3
  <2> HIDE DEF f, Now
  <2> QED
    BY <2>4, <1>1, <1>3
<1>7. \A i \in SourcesIn(g, root) : root <= i
  BY <1>4, <1>2
<1> QED
  BY <1>4, <1>5, <1>6, <1>7

(* The members of the group are tasks whose inputs come before them. *)
LEMMA MemberTyped ==
    ASSUME NEW g \in Seq(RevisionTasks), Acyclic(g), NEW root \in 1 .. Len(g), NEW op \in RevisionIds,
           NEW text \in Texts, NEW include \in BOOLEAN,
           NEW A, A = SourcesIn(g, root), NEW i \in A
    PROVE  LET x == MemberIn(g, i, root, A, op, text, include)
           IN /\ x \in RevisionTasks /\ x.source = i /\ x.op = op /\ x.include = include
              /\ x.text = IF i = root THEN text ELSE g[i].text
              /\ i \in x.deps /\ x.deps \subseteq 1 .. (PlaceIn(g, A, i) - 1)
              /\ \A d \in g[i].deps \cap A : PlaceIn(g, A, d) \in x.deps
              /\ \A y \in x.deps : y = i \/ (y \in 1 .. Len(g) /\ y \notin A) \/ y > Len(g)
<1> DEFINE x == MemberIn(g, i, root, A, op, text, include)
           deps == IF i = root THEN {i}
                   ELSE {i} \cup {IF d \in A THEN PlaceIn(g, A, d) ELSE d : d \in g[i].deps}
           plan == {<<j, PlaceIn(g, A, j)>> : j \in A}
<1>1. Len(g) \in Nat /\ A \in SUBSET (1 .. Len(g)) /\ i \in 1 .. Len(g) /\ g[i] \in RevisionTasks
  <2>1. Len(g) \in Nat /\ A \in SUBSET (1 .. Len(g))
    BY SourcesAre DEF Acyclic
  <2> QED
    BY <2>1, ElementOfSeq
<1>2. /\ \A j \in A : Rank(A, j) \in Nat \ {0} /\ PlaceIn(g, A, j) \in Nat /\ PlaceIn(g, A, j) > Len(g)
      /\ \A j, k \in A : j < k => PlaceIn(g, A, j) < PlaceIn(g, A, k)
  <2>1. /\ Cardinality(A) \in Nat
        /\ \A j \in A : Rank(A, j) \in 1 .. Cardinality(A)
        /\ \A j, k \in A : j < k => Rank(A, j) < Rank(A, k)
    BY <1>1, Ranks
  <2>2. \A j \in A : Rank(A, j) \in Nat \ {0}
    BY <2>1
  <2> QED
    BY <1>1, <2>1, <2>2 DEF PlaceIn
<1>3. g[i].deps \subseteq 1 .. (i - 1)
  BY <1>1 DEF Acyclic
<1>4. ASSUME NEW d \in g[i].deps
      PROVE  /\ d \in A => PlaceIn(g, A, d) \in 1 .. (PlaceIn(g, A, i) - 1)
             /\ d \notin A => d \in 1 .. (PlaceIn(g, A, i) - 1) /\ d \in 1 .. Len(g)
  <2>1. d \in 1 .. (i - 1) /\ i \in 1 .. Len(g) /\ Len(g) \in Nat
    BY <1>1, <1>3
  <2>2. PlaceIn(g, A, i) \in Nat /\ PlaceIn(g, A, i) > Len(g)
    BY <1>2
  <2>3. d \in A => PlaceIn(g, A, d) \in Nat /\ PlaceIn(g, A, d) > Len(g) /\ PlaceIn(g, A, d) < PlaceIn(g, A, i)
    BY <1>2, <2>1
  <2> QED
    BY <2>1, <2>2, <2>3
<1>5. i \in 1 .. (PlaceIn(g, A, i) - 1)
  BY <1>1, <1>2
<1>6. deps \subseteq 1 .. (PlaceIn(g, A, i) - 1) /\ i \in deps
  BY <1>4, <1>5
<1>7. \A d \in g[i].deps \cap A : PlaceIn(g, A, d) \in deps
  <2>1. i = root => g[i].deps \cap A = {}
    <3>1. \A d \in A : root <= d
      BY SourcesAre
    <3> QED
      BY <3>1, <1>1, <1>3
  <2> QED
    BY <2>1
<1>8. \A y \in deps : y = i \/ (y \in 1 .. Len(g) /\ y \notin A) \/ y > Len(g)
  BY <1>2, <1>4
<1>9. x = [deps |-> deps, source |-> i, op |-> op, text |-> IF i = root THEN text ELSE g[i].text,
           include |-> include, plan |-> plan, status |-> "pending"]
  BY DEF MemberIn, Added
<1>10. x \in RevisionTasks
  <2>1. deps \in SUBSET Nat
    <3> HIDE DEF deps
    <3>1. \A y \in deps : y \in Nat
      BY <1>6, <1>2
    <3> QED
      BY <3>1
  <2>2. plan \in SUBSET (Nat \X Nat)
    BY <1>1, <1>2
  <2>3. i \in Nat /\ (IF i = root THEN text ELSE g[i].text) \in Texts \cup {"none"}
    BY <1>1 DEF RevisionTasks
  <2>4. op \in RevisionIds \cup {"none"} /\ "pending" \in TaskStates
    BY DEF TaskStates
  <2> HIDE DEF deps, plan
  <2> QED
    BY <1>9, <2>1, <2>2, <2>3, <2>4 DEF RevisionTasks
<1> HIDE DEF deps, plan
<1> QED
  BY <1>6, <1>7, <1>8, <1>9, <1>10

(* The plan with the group: each place of the group holds the new task of one affected task. *)
Joined(g, h, A, root, op, text, include) ==
  /\ h \in Seq(RevisionTasks) /\ Len(h) \in Nat /\ Len(g) <= Len(h)
  /\ \A i \in 1 .. Len(g) : h[i] = g[i]
  /\ \A i \in A : /\ PlaceIn(g, A, i) \in (Len(g) + 1) .. Len(h)
                  /\ h[PlaceIn(g, A, i)] = MemberIn(g, i, root, A, op, text, include)
  /\ \A k \in (Len(g) + 1) .. Len(h) : \E i \in A : k = PlaceIn(g, A, i)
  /\ \A i, j \in A : i < j => PlaceIn(g, A, i) < PlaceIn(g, A, j)

(* The group a revision appends: one new task for each of its sources, in their order. *)
LEMMA GroupJoined ==
    ASSUME NEW g \in Seq(RevisionTasks), Acyclic(g), NEW root \in 1 .. Len(g), NEW op \in RevisionIds,
           NEW text \in Texts, NEW include \in BOOLEAN,
           NEW A, A = SourcesIn(g, root), NEW h, h = g \o GroupIn(g, root, op, text, include)
    PROVE  Joined(g, h, A, root, op, text, include)
<1> DEFINE s == GroupIn(g, root, op, text, include)
           c == Cardinality(A)
           At(k) == CHOOSE i \in A : PlaceIn(g, A, i) = Len(g) + k
           Part(i) == MemberIn(g, i, root, A, op, text, include)
<1>1. Len(g) \in Nat /\ A \in SUBSET (1 .. Len(g))
  BY SourcesAre DEF Acyclic
<1>2. /\ c \in Nat
      /\ \A i \in A : Rank(A, i) \in 1 .. c
      /\ \A i, j \in A : i < j => Rank(A, i) < Rank(A, j)
      /\ \A k \in 1 .. c : \E i \in A : Rank(A, i) = k
  BY <1>1, Ranks
<1>3. s = [k \in 1 .. c |-> Part(At(k))]
  BY DEF GroupIn
<1> HIDE DEF s, c
<1>4. \A i \in A : PlaceIn(g, A, i) = Len(g) + Rank(A, i)
  BY DEF PlaceIn
<1>5. \A k \in 1 .. c : At(k) \in A /\ Rank(A, At(k)) = k
  <2> SUFFICES ASSUME NEW k \in 1 .. c PROVE At(k) \in A /\ Rank(A, At(k)) = k
    OBVIOUS
  <2>1. PICK i \in A : Rank(A, i) = k
    BY <1>2
  <2>2. PlaceIn(g, A, i) = Len(g) + k
    BY <2>1, <1>4
  <2>3. At(k) \in A /\ PlaceIn(g, A, At(k)) = Len(g) + k
    BY <2>2
  <2> HIDE DEF At
  <2>4. Len(g) + Rank(A, At(k)) = Len(g) + k /\ Rank(A, At(k)) \in 1 .. c
    BY <2>3, <1>4, <1>2
  <2>5. Rank(A, At(k)) = k
    BY <2>4, <1>1, <1>2
  <2> QED
    BY <2>3, <2>5
<1> HIDE DEF At
<1>6. \A i \in A : At(Rank(A, i)) = i
  <2> SUFFICES ASSUME NEW i \in A PROVE At(Rank(A, i)) = i
    OBVIOUS
  <2> DEFINE j == At(Rank(A, i))
  <2>1. j \in A /\ Rank(A, j) = Rank(A, i) /\ Rank(A, i) \in Int
    BY <1>2, <1>5
  <2> HIDE DEF j
  <2>2. ~(i < j) /\ ~(j < i)
    BY <2>1, <1>2
  <2>3. i \in Int /\ j \in Int
    BY <1>1, <2>1
  <2>4. i = j
    BY <2>2, <2>3
  <2> QED
    BY <2>4 DEF j
<1>7. s \in Seq(RevisionTasks) /\ Len(s) = c
  <2>1. \A k \in 1 .. c : Part(At(k)) \in RevisionTasks
    BY <1>5, MemberTyped
  <2> HIDE DEF Part
  <2>2. s \in [1 .. c -> RevisionTasks]
    BY <2>1, <1>3
  <2>3. s \in Seq(RevisionTasks)
    BY <2>2, <1>2, IsASeq
  <2>4. DOMAIN s = 1 .. c /\ Len(s) \in Nat
    BY <2>2, <2>3, LenProperties
  <2> QED
    BY <2>3, <2>4, <1>2, LenProperties
<1>8. h \in Seq(RevisionTasks) /\ Len(h) = Len(g) + c
      /\ \A i \in 1 .. Len(h) : h[i] = IF i <= Len(g) THEN g[i] ELSE s[i - Len(g)]
  <2>1. /\ g \o s \in Seq(RevisionTasks) /\ Len(g \o s) = Len(g) + Len(s)
        /\ \A i \in 1 .. Len(g) + Len(s) : (g \o s)[i] = IF i <= Len(g) THEN g[i] ELSE s[i - Len(g)]
    BY <1>7, ConcatProperties
  <2>2. h = g \o s
    BY DEF s
  <2> QED
    BY <1>7, <2>1, <2>2
<1>9. \A i \in 1 .. Len(g) : h[i] = g[i]
  BY <1>1, <1>2, <1>8
<1>10. ASSUME NEW i \in A
       PROVE  PlaceIn(g, A, i) \in (Len(g) + 1) .. Len(h) /\ h[PlaceIn(g, A, i)] = Part(i)
  <2>1. Rank(A, i) \in 1 .. c /\ PlaceIn(g, A, i) = Len(g) + Rank(A, i)
    BY <1>2, <1>4
  <2>2. /\ PlaceIn(g, A, i) \in (Len(g) + 1) .. Len(h) /\ PlaceIn(g, A, i) \in 1 .. Len(h)
        /\ ~(PlaceIn(g, A, i) <= Len(g)) /\ PlaceIn(g, A, i) - Len(g) = Rank(A, i)
    BY <2>1, <1>1, <1>2, <1>8
  <2>3. h[PlaceIn(g, A, i)] = s[Rank(A, i)]
    BY <2>2, <1>8
  <2>4. s[Rank(A, i)] = Part(i)
    <3> HIDE DEF Part
    <3> QED
      BY <2>1, <1>3, <1>6
  <2> QED
    BY <2>2, <2>3, <2>4
<1>11. ASSUME NEW k \in (Len(g) + 1) .. Len(h) PROVE \E i \in A : k = PlaceIn(g, A, i)
  <2>1. k - Len(g) \in 1 .. c /\ k = Len(g) + (k - Len(g))
    BY <1>1, <1>2, <1>8
  <2>2. PICK i \in A : Rank(A, i) = k - Len(g)
    BY <2>1, <1>2
  <2> QED
    BY <2>1, <2>2, <1>4
<1>12. \A i, j \in A : i < j => PlaceIn(g, A, i) < PlaceIn(g, A, j)
  BY <1>1, <1>2, <1>4
<1>13. Len(h) \in Nat /\ Len(g) <= Len(h)
  BY <1>1, <1>2, <1>8
<1>14. h \in Seq(RevisionTasks)
  BY <1>8
<1> QED
  BY <1>9, <1>10, <1>11, <1>12, <1>13, <1>14 DEF Joined

(* What a commit of the group makes of the plan is a revision of it. *)
LEMMA GroupRevises ==
    ASSUME NEW g \in Seq(RevisionTasks), Acyclic(g), NEW root \in 1 .. Len(g), NEW op \in RevisionIds,
           NEW text \in Texts, NEW include \in BOOLEAN,
           NEW A, A = SourcesIn(g, root), NEW h, h = g \o GroupIn(g, root, op, text, include)
    PROVE  Revises(g, h, A, [i \in A |-> PlaceIn(g, A, i)])
<1> DEFINE m == [i \in A |-> PlaceIn(g, A, i)]
           Part(i) == MemberIn(g, i, root, A, op, text, include)
<1>1. Len(g) \in Nat /\ A \subseteq 1 .. Len(g)
      /\ \A i \in 1 .. Len(g) : g[i].deps \cap A # {} => i \in A
  BY SourcesAre DEF Acyclic
<1>2. /\ h \in Seq(RevisionTasks) /\ Len(h) \in Nat /\ Len(g) <= Len(h)
      /\ \A i \in 1 .. Len(g) : h[i] = g[i]
      /\ \A i \in A : m[i] \in (Len(g) + 1) .. Len(h) /\ h[m[i]] = Part(i) /\ m[i] = PlaceIn(g, A, i)
      /\ \A k \in (Len(g) + 1) .. Len(h) : \E i \in A : k = m[i]
      /\ \A i, j \in A : i < j => m[i] < m[j]
  <2>0. Joined(g, h, A, root, op, text, include)
    BY GroupJoined
  <2>1. h \in Seq(RevisionTasks) /\ Len(h) \in Nat /\ Len(g) <= Len(h)
        /\ \A i \in 1 .. Len(g) : h[i] = g[i]
    BY <2>0 DEF Joined
  <2>6. ASSUME NEW i \in A
        PROVE  PlaceIn(g, A, i) \in (Len(g) + 1) .. Len(h) /\ h[PlaceIn(g, A, i)] = Part(i)
    BY <2>0 DEF Joined
  <2>7. /\ \A k \in (Len(g) + 1) .. Len(h) : \E i \in A : k = PlaceIn(g, A, i)
        /\ \A i, j \in A : i < j => PlaceIn(g, A, i) < PlaceIn(g, A, j)
    BY <2>0 DEF Joined
  <2>2. \A i \in A : m[i] = PlaceIn(g, A, i)
    OBVIOUS
  <2> HIDE DEF m, Part
  <2>3. \A i \in A : m[i] \in (Len(g) + 1) .. Len(h) /\ h[m[i]] = Part(i) /\ m[i] = PlaceIn(g, A, i)
    BY <2>6, <2>2
  <2>4. \A k \in (Len(g) + 1) .. Len(h) : \E i \in A : k = m[i]
    BY <2>7, <2>2
  <2>5. \A i, j \in A : i < j => m[i] < m[j]
    BY <2>7, <2>2
  <2> QED
    BY <2>1, <2>3, <2>4, <2>5
<1>3. \A i \in A : /\ Part(i).source = i /\ i \in Part(i).deps
                  /\ Part(i).deps \subseteq 1 .. (m[i] - 1)
                  /\ \A d \in g[i].deps \cap A : m[d] \in Part(i).deps
  <2> SUFFICES ASSUME NEW i \in A
               PROVE  /\ Part(i).source = i /\ i \in Part(i).deps
                      /\ Part(i).deps \subseteq 1 .. (PlaceIn(g, A, i) - 1)
                      /\ \A d \in g[i].deps \cap A : PlaceIn(g, A, d) \in Part(i).deps
    <3> HIDE DEF Part
    <3> QED
      OBVIOUS
  <2> QED
    BY MemberTyped
<1> HIDE DEF m, Part
<1>4. Acyclic(h)
  <2>1. ASSUME NEW k \in 1 .. Len(h)
        PROVE  h[k].deps \subseteq 1 .. (k - 1) /\ (h[k].source # 0 => h[k].source \in h[k].deps)
    <3>1. CASE k \in 1 .. Len(g)
      BY <3>1, <1>2 DEF Acyclic
    <3>2. CASE k \in (Len(g) + 1) .. Len(h)
      BY <3>2, <1>2, <1>3
    <3> QED
      BY <3>1, <3>2, <1>1, <1>2
  <2> QED
    BY <2>1, <1>2 DEF Acyclic
<1>5. Grows(g, h)
  BY <1>2, <1>4 DEF Grows
<1>6. Revises(g, h, A, m)
  <2>1. \A i \in A : m[i] \in (Len(g) + 1) .. Len(h) /\ h[m[i]].source = i
    BY <1>2, <1>3
  <2>2. \A i \in A : \A d \in g[i].deps \cap A : m[d] \in h[m[i]].deps
    BY <1>2, <1>3
  <2> QED
    BY <1>1, <1>2, <1>5, <2>1, <2>2 DEF Revises
<1> QED
  BY <1>6 DEF m

(* A plan whose newest results rest on newest ones, whose unfinished tasks have inputs nobody
   replaced, and in which an operation revises a result once. *)
KeptIn(g) == \A i, j \in 1 .. Len(g) : g[j].source \in g[i].deps /\ i < j => g[i].status = "completed"
OnceIn(g) == \A i, j \in 1 .. Len(g) :
               g[i].op # "none" /\ g[i].op = g[j].op /\ g[i].source = g[j].source => i = j
GoodPlan(g) ==
  /\ g \in Seq(RevisionTasks) /\ Acyclic(g) /\ FirstTasks <= Len(g)
  /\ Stands(g) /\ KeptIn(g) /\ OnceIn(g)

(* An operation without a first task has no task. *)
LEMMA FirstExists ==
    ASSUME NEW g, Len(g) \in Nat, NEW op, FirstOf(g, op) = {}
    PROVE  \A i \in 1 .. Len(g) : g[i].op # op
<1> DEFINE S == {i \in 1 .. Len(g) : g[i].op = op}
<1> SUFFICES ASSUME S # {} PROVE FALSE
  OBVIOUS
<1>1. S \in SUBSET Nat
  OBVIOUS
<1>2. PICK i \in S : \A e \in S : i <= e
  <2> HIDE DEF S
  <2> QED
    BY <1>1, Minimum
<1>3. i \in 1 .. Len(g) /\ g[i].op = op
  BY <1>2
<1>4. \A j \in 1 .. (i - 1) : g[j].op # op
  <2>1. \A j \in 1 .. (i - 1) : j \in 1 .. Len(g) /\ ~(i <= j)
    BY <1>3
  <2> QED
    BY <1>2, <2>1
<1> QED
  BY <1>3, <1>4 DEF FirstOf

(* The tasks of an operation are the answer to its request, and stay it. *)
Answered(g, op, root, text, include) ==
  \E i \in FirstOf(g, op) : g[i].source = root /\ g[i].text = text /\ g[i].include = include
KeepsAnswers(g, h) ==
  \A op : \A i \in FirstOf(g, op) :
    /\ i \in FirstOf(h, op)
    /\ h[i].source = g[i].source /\ h[i].text = g[i].text /\ h[i].include = g[i].include

(* The group of a new operation keeps a plan good, keeps what was answered and answers the request. *)
LEMMA GroupKeeps ==
    ASSUME NEW g, GoodPlan(g), NEW root \in 1 .. Len(g), NEW op \in RevisionIds,
           NEW text \in Texts, NEW include \in BOOLEAN, FirstOf(g, op) = {},
           \A i \in SourcesIn(g, root) : g[i].status = "completed",
           NEW h, h = g \o GroupIn(g, root, op, text, include)
    PROVE  GoodPlan(h) /\ KeepsAnswers(g, h) /\ Answered(h, op, root, text, include)
<1> DEFINE A == SourcesIn(g, root)
           m(i) == PlaceIn(g, A, i)
           Part(i) == MemberIn(g, i, root, A, op, text, include)
<1>1. g \in Seq(RevisionTasks) /\ Acyclic(g) /\ FirstTasks <= Len(g) /\ Len(g) \in Nat
      /\ Stands(g) /\ KeptIn(g) /\ OnceIn(g)
  BY DEF GoodPlan, Acyclic
<1>2. FirstTasks \in Nat
  BY RevisionsAssumption
<1>3. Joined(g, h, A, root, op, text, include)
  BY <1>1, GroupJoined
<1>4. Revises(g, h, A, [i \in A |-> PlaceIn(g, A, i)])
  BY <1>1, GroupRevises
<1>5. A \subseteq 1 .. Len(g) /\ root \in A /\ \A i \in A : root <= i
  BY <1>1, SourcesAre
<1>6. /\ h \in Seq(RevisionTasks) /\ Len(h) \in Nat /\ Len(g) <= Len(h)
      /\ \A i \in 1 .. Len(g) : h[i] = g[i]
      /\ \A i \in A : m(i) \in (Len(g) + 1) .. Len(h) /\ h[m(i)] = Part(i)
      /\ \A k \in (Len(g) + 1) .. Len(h) : \E i \in A : k = m(i)
      /\ \A i, j \in A : i < j => m(i) < m(j)
  BY <1>3 DEF Joined
<1>7. ASSUME NEW i \in A
      PROVE  /\ Part(i).source = i /\ Part(i).op = op /\ Part(i).include = include
             /\ Part(i).text = IF i = root THEN text ELSE g[i].text
             /\ \A y \in Part(i).deps : y = i \/ (y \in 1 .. Len(g) /\ y \notin A) \/ y > Len(g)
  BY <1>1, MemberTyped
<1>8. \A i \in 1 .. Len(g) : g[i].op # op
  BY <1>1, FirstExists
<1>9. \A i \in 1 .. Len(g) : g[i].deps \cap A # {} => i \in A
  BY <1>1, SourcesAre
<1> HIDE DEF A, m, Part
<1>10. \A k \in 1 .. Len(h) : k \in 1 .. Len(g) \/ k \in (Len(g) + 1) .. Len(h)
  BY <1>1, <1>6
<1>11. Acyclic(h) /\ FirstTasks <= Len(h)
  BY <1>1, <1>2, <1>4, <1>6 DEF Revises, Grows
<1>12. Stands(h)
  BY <1>1, <1>2, <1>4, RevisionStands
<1>13. KeptIn(h)
  <2>1. ASSUME NEW i \in 1 .. Len(h), NEW j \in 1 .. Len(h), h[j].source \in h[i].deps, i < j
        PROVE  h[i].status = "completed"
    <3>1. CASE j \in 1 .. Len(g)
      <4>1. i \in 1 .. Len(g)
        BY <2>1, <3>1, <1>1
      <4> QED
        BY <2>1, <3>1, <4>1, <1>1, <1>6 DEF KeptIn
    <3>2. CASE j \in (Len(g) + 1) .. Len(h)
      <4>1. PICK b \in A : j = m(b)
        BY <3>2, <1>6
      <4>2. h[j].source = b /\ b \in 1 .. Len(g) /\ b <= Len(g)
        BY <4>1, <1>1, <1>5, <1>6, <1>7
      <4>3. CASE i \in 1 .. Len(g)
        <5>1. b \in g[i].deps
          BY <2>1, <4>2, <4>3, <1>6
        <5>2. i \in A
          BY <5>1, <4>1, <4>3, <1>9
        <5>3. g[i].status = "completed"
          BY <5>2 DEF A
        <5> QED
          BY <5>3, <4>3, <1>6
      <4>4. CASE i \in (Len(g) + 1) .. Len(h)
        <5>1. PICK a \in A : i = m(a)
          BY <4>4, <1>6
        <5>2. b \in Part(a).deps
          BY <2>1, <4>2, <5>1, <1>6
        <5>3. b = a \/ (b \in 1 .. Len(g) /\ b \notin A) \/ b > Len(g)
          BY <5>2, <1>7
        <5>4. b = a
          BY <5>3, <4>1, <4>2, <1>1
        <5>5. i = j
          BY <5>4, <4>1, <5>1
        <5> QED
          BY <5>5, <2>1
      <4> QED
        BY <4>3, <4>4, <1>10
    <3> QED
      BY <3>1, <3>2, <1>10
  <2> QED
    BY <2>1 DEF KeptIn
<1>14. OnceIn(h)
  <2>1. \A k \in (Len(g) + 1) .. Len(h) : h[k].op = op /\ h[k].source \in A /\ k = m(h[k].source)
    BY <1>6, <1>7
  <2>2. ASSUME NEW i \in 1 .. Len(h), NEW j \in 1 .. Len(h), h[i].op # "none", h[i].op = h[j].op,
               h[i].source = h[j].source
        PROVE  i = j
    <3>1. CASE i \in 1 .. Len(g) /\ j \in 1 .. Len(g)
      BY <2>2, <3>1, <1>1, <1>6 DEF OnceIn
    <3>2. CASE i \in (Len(g) + 1) .. Len(h) /\ j \in (Len(g) + 1) .. Len(h)
      BY <2>1, <2>2, <3>2
    <3>3. CASE i \in 1 .. Len(g) /\ j \in (Len(g) + 1) .. Len(h)
      BY <2>1, <2>2, <3>3, <1>6, <1>8
    <3>4. CASE j \in 1 .. Len(g) /\ i \in (Len(g) + 1) .. Len(h)
      BY <2>1, <2>2, <3>4, <1>6, <1>8
    <3> QED
      BY <3>1, <3>2, <3>3, <3>4, <1>10
  <2> QED
    BY <2>2 DEF OnceIn
<1>15. ASSUME NEW o, NEW i \in FirstOf(g, o) PROVE i \in FirstOf(h, o) /\ h[i] = g[i]
  <2>1. i \in 1 .. Len(g) /\ g[i].op = o /\ \A j \in 1 .. (i - 1) : g[j].op # o
    BY DEF FirstOf
  <2>2. i \in 1 .. Len(h) /\ h[i] = g[i]
    BY <2>1, <1>1, <1>6
  <2>3. \A j \in 1 .. (i - 1) : h[j] = g[j]
    <3>1. \A j \in 1 .. (i - 1) : j \in 1 .. Len(g)
      BY <2>1, <1>1
    <3> QED
      BY <3>1, <1>6
  <2> QED
    BY <2>1, <2>2, <2>3 DEF FirstOf
<1>16. Answered(h, op, root, text, include)
  <2>1. m(root) \in (Len(g) + 1) .. Len(h) /\ m(root) \in 1 .. Len(h) /\ h[m(root)] = Part(root)
    BY <1>1, <1>5, <1>6
  <2>2. \A k \in (Len(g) + 1) .. Len(h) : m(root) <= k
    <3>1. ASSUME NEW i \in A PROVE m(root) <= m(i)
      <4>1. root \in Int /\ i \in Int /\ m(root) \in Int /\ m(i) \in Int
        <5>1. m(i) \in (Len(g) + 1) .. Len(h) /\ i \in 1 .. Len(g)
          BY <1>5, <1>6
        <5> QED
          BY <5>1, <2>1
      <4>2. root = i \/ root < i
        BY <4>1, <1>5
      <4> QED
        BY <4>1, <4>2, <1>5, <1>6
    <3> QED
      BY <3>1, <1>6
  <2>3. \A j \in 1 .. (m(root) - 1) : h[j].op # op
    <3>1. \A j \in 1 .. (m(root) - 1) : j \in 1 .. Len(h) /\ j \in 1 .. Len(g)
      <4> SUFFICES ASSUME NEW j \in 1 .. (m(root) - 1) PROVE j \in 1 .. Len(h) /\ j \in 1 .. Len(g)
        OBVIOUS
      <4>1. j \in 1 .. Len(h) /\ ~(m(root) <= j)
        BY <2>1, <1>1, <1>6
      <4> QED
        BY <4>1, <2>2, <1>10
    <3> QED
      BY <3>1, <1>6, <1>8
  <2>4. m(root) \in FirstOf(h, op)
    BY <2>1, <2>3, <1>5, <1>7 DEF FirstOf
  <2> QED
    BY <2>1, <2>4, <1>5, <1>7 DEF Answered
<1>17. GoodPlan(h)
  BY <1>6, <1>11, <1>12, <1>13, <1>14 DEF GoodPlan
<1>18. KeepsAnswers(g, h)
  BY <1>15 DEF KeepsAnswers
<1> QED
  BY <1>16, <1>17, <1>18

(* A task that is not completed may change its status: everything else stays. *)
LEMMA TurnKeeps ==
    ASSUME NEW g, GoodPlan(g), NEW i \in 1 .. Len(g), NEW status \in TaskStates,
           g[i].status # "completed", NEW h, h = [g EXCEPT ![i].status = status]
    PROVE  GoodPlan(h) /\ KeepsAnswers(g, h)
<1>1. g \in Seq(RevisionTasks) /\ Acyclic(g) /\ FirstTasks <= Len(g) /\ Len(g) \in Nat
      /\ Stands(g) /\ KeptIn(g) /\ OnceIn(g)
  BY DEF GoodPlan, Acyclic
<1>2. \A j \in 1 .. Len(g) : g[j] \in RevisionTasks
  BY <1>1, ElementOfSeq
<1>3. DOMAIN g = 1 .. Len(g)
  BY <1>1, LenProperties
<1> DEFINE x == [g[i] EXCEPT !.status = status]
<1>4. h = [g EXCEPT ![i] = x]
  OBVIOUS
<1>5. /\ x \in RevisionTasks /\ x.deps = g[i].deps /\ x.source = g[i].source /\ x.op = g[i].op
      /\ x.text = g[i].text /\ x.include = g[i].include
  BY <1>2 DEF RevisionTasks
<1> HIDE DEF x
<1>6. h \in Seq(RevisionTasks) /\ Len(h) = Len(g)
  BY <1>1, <1>4, <1>5, ExceptSeq
<1>7. \A j \in 1 .. Len(g) : h[j] = IF j = i THEN x ELSE g[j]
  BY <1>3, <1>4
<1>8. \A j \in 1 .. Len(g) :
        /\ h[j].deps = g[j].deps /\ h[j].source = g[j].source /\ h[j].op = g[j].op
        /\ h[j].text = g[j].text /\ h[j].include = g[j].include
        /\ g[j].status = "completed" => h[j].status = "completed"
  BY <1>5, <1>7
<1>9. Acyclic(h)
  BY <1>1, <1>6, <1>8 DEF Acyclic
<1>10. Stands(h)
  <2>1. Grows(g, h)
    BY <1>1, <1>6, <1>8, <1>9 DEF Grows
  <2>2. \A k \in (Len(g) + 1) .. Len(h) : FALSE
    BY <1>1, <1>6
  <2>3. Revises(g, h, {}, <<>>)
    BY <2>1, <2>2 DEF Revises
  <2>4. FirstTasks \in Nat
    BY RevisionsAssumption
  <2> QED
    BY <1>1, <2>3, <2>4, RevisionStands
<1>11. KeptIn(h)
  BY <1>1, <1>6, <1>8 DEF KeptIn
<1>12. OnceIn(h)
  BY <1>1, <1>6, <1>8 DEF OnceIn
<1>13. GoodPlan(h)
  BY <1>1, <1>6, <1>9, <1>10, <1>11, <1>12 DEF GoodPlan
<1>14. ASSUME NEW o, NEW j \in FirstOf(g, o)
       PROVE  /\ j \in FirstOf(h, o)
              /\ h[j].source = g[j].source /\ h[j].text = g[j].text /\ h[j].include = g[j].include
  <2>1. j \in 1 .. Len(g) /\ g[j].op = o /\ \A k \in 1 .. (j - 1) : g[k].op # o
    BY DEF FirstOf
  <2>2. \A k \in 1 .. (j - 1) : k \in 1 .. Len(g)
    BY <2>1, <1>1
  <2> QED
    BY <2>1, <2>2, <1>6, <1>8 DEF FirstOf
<1>15. KeepsAnswers(g, h)
  BY <1>14 DEF KeepsAnswers
<1> QED
  BY <1>13, <1>15

(* The invariant: the plan is good, the answers are in it, and a group whose commit is uncertain
   would keep it so. *)
AnswersIn(g, answered) ==
  \A q \in answered : Answered(g, q.op, q.source, q.text, q.include)
GroupOpen(g, group) ==
  group = <<>> \/ \E op \in RevisionIds, text \in Texts, include \in BOOLEAN : \E root \in 1 .. Len(g) :
    /\ FirstOf(g, op) = {} /\ \A i \in SourcesIn(g, root) : g[i].status = "completed"
    /\ group = GroupIn(g, root, op, text, include)
RevisionsInv == GoodPlan(graph) /\ AnswersIn(graph, accepted) /\ GroupOpen(graph, limbo)

(* What was answered stays answered. *)
LEMMA AnswersStay ==
    ASSUME NEW g, NEW h, KeepsAnswers(g, h), NEW answered, AnswersIn(g, answered)
    PROVE  AnswersIn(h, answered)
<1> SUFFICES ASSUME NEW q \in answered PROVE Answered(h, q.op, q.source, q.text, q.include)
  BY DEF AnswersIn
<1>1. PICK i \in FirstOf(g, q.op) :
        g[i].source = q.source /\ g[i].text = q.text /\ g[i].include = q.include
  BY DEF AnswersIn, Answered
<1> QED
  BY <1>1 DEF KeepsAnswers, Answered

(* A plan in which every task is its own origin is good. *)
LEMMA RevisionsBegin == RevisionsInit => RevisionsInv
<1> SUFFICES ASSUME RevisionsInit PROVE RevisionsInv
  OBVIOUS
<1>1. PICK d \in [1 .. FirstTasks -> SUBSET (1 .. FirstTasks)] :
        /\ \A i \in 1 .. FirstTasks : \A j \in d[i] : j < i
        /\ graph = [i \in 1 .. FirstTasks |-> Added(d[i], 0, "none", "none", FALSE, {})]
  BY DEF RevisionsInit
<1>2. FirstTasks \in Nat
  BY RevisionsAssumption
<1>3. ASSUME NEW i \in 1 .. FirstTasks
      PROVE  /\ graph[i] = Added(d[i], 0, "none", "none", FALSE, {})
             /\ graph[i].source = 0 /\ graph[i].op = "none" /\ graph[i].deps = d[i]
  <2>1. graph[i] = Added(d[i], 0, "none", "none", FALSE, {})
    BY <1>1
  <2>2. ASSUME NEW deps, NEW include
        PROVE  LET x == Added(deps, 0, "none", "none", include, {})
               IN x.source = 0 /\ x.op = "none" /\ x.deps = deps
    BY DEF Added
  <2>3. LET x == Added(d[i], 0, "none", "none", FALSE, {})
        IN x.source = 0 /\ x.op = "none" /\ x.deps = d[i]
    BY <2>2
  <2> QED
    BY <2>1, <2>3
<1>4. graph \in Seq(RevisionTasks) /\ Len(graph) = FirstTasks
  <2>1. \A i \in 1 .. FirstTasks : graph[i] \in RevisionTasks
    <3> SUFFICES ASSUME NEW i \in 1 .. FirstTasks PROVE graph[i] \in RevisionTasks
      OBVIOUS
    <3>1. d[i] \in SUBSET Nat
      BY <1>2
    <3>2. "pending" \in TaskStates /\ {} \in SUBSET (Nat \X Nat) /\ FALSE \in BOOLEAN /\ 0 \in Nat
          /\ "none" \in RevisionIds \cup {"none"} /\ "none" \in Texts \cup {"none"}
      BY DEF TaskStates
    <3>3. graph[i] = [deps |-> d[i], source |-> 0, op |-> "none", text |-> "none", include |-> FALSE,
                      plan |-> {}, status |-> "pending"]
      BY <1>3 DEF Added
    <3> QED
      BY <3>1, <3>2, <3>3 DEF RevisionTasks
  <2>2. graph \in [1 .. FirstTasks -> RevisionTasks]
    BY <1>1, <2>1
  <2>3. graph \in Seq(RevisionTasks)
    BY <2>2, <1>2, IsASeq
  <2>4. DOMAIN graph = 1 .. FirstTasks /\ Len(graph) \in Nat
    BY <2>2, <2>3, LenProperties
  <2> QED
    BY <2>3, <2>4, <1>2, LenProperties
<1>5. Acyclic(graph)
  <2>1. \A i \in 1 .. FirstTasks : graph[i].source = 0 /\ graph[i].deps = d[i]
    BY <1>3
  <2>2. \A i \in 1 .. FirstTasks : d[i] \subseteq 1 .. (i - 1)
    <3> SUFFICES ASSUME NEW i \in 1 .. FirstTasks, NEW j \in d[i] PROVE j \in 1 .. (i - 1)
      OBVIOUS
    <3>1. j \in 1 .. FirstTasks /\ j < i
      BY <1>1
    <3> QED
      BY <3>1, <1>2
  <2> QED
    BY <2>1, <2>2, <1>2, <1>4 DEF Acyclic
<1>6. \A i \in 1 .. FirstTasks : OriginIn(graph)[i] = i
  <2>1. \A i \in 1 .. FirstTasks : graph[i].source = 0
    BY <1>3
  <2>2. \A i \in 1 .. FirstTasks : OriginIn(graph)[i] =
          IF graph[i].source = 0 THEN i ELSE OriginIn(graph)[graph[i].source]
    BY <1>4, <1>5, OriginFits
  <2> QED
    BY <2>1, <2>2
<1>7. Stands(graph)
  <2>1. ASSUME NEW c \in 1 .. FirstTasks PROVE IsNewest(graph, c, c) /\ OnOlder(graph, c, c)
    BY <1>2, <1>4, <1>6 DEF IsNewest, OnOlder
  <2>2. ASSUME NEW c \in 1 .. FirstTasks, NEW a \in graph[c].deps, NEW n, NEW o,
               IsNewest(graph, c, n), IsNewest(graph, a, o)
        PROVE  o \in RestsIn(graph)[n]
    <3>1. n = c /\ o = a
      BY <2>2, <1>4, <1>6 DEF IsNewest
    <3> QED
      BY <3>1, <1>4, <1>5, RestsOn
  <2> QED
    BY <2>1, <2>2 DEF Stands
<1>8. KeptIn(graph) /\ OnceIn(graph)
  <2>1. \A i \in 1 .. FirstTasks : graph[i].source = 0 /\ graph[i].op = "none" /\ 0 \notin graph[i].deps
    <3>1. \A i \in 1 .. FirstTasks : graph[i].source = 0 /\ graph[i].op = "none"
      BY <1>3
    <3>2. \A i \in 1 .. FirstTasks : 0 \notin graph[i].deps
      <4>1. \A i \in 1 .. FirstTasks : graph[i].deps \subseteq 1 .. (i - 1)
        BY <1>4, <1>5 DEF Acyclic
      <4>2. \A i \in 1 .. FirstTasks : 0 \notin 1 .. (i - 1)
        BY <1>2
      <4> QED
        BY <4>1, <4>2
    <3> QED
      BY <3>1, <3>2
  <2> QED
    BY <2>1, <1>4 DEF KeptIn, OnceIn
<1>9. GoodPlan(graph)
  BY <1>2, <1>4, <1>5, <1>7, <1>8 DEF GoodPlan
<1> QED
  BY <1>9 DEF RevisionsInit, RevisionsInv, AnswersIn, GroupOpen

(* A change of status of a task that is not completed keeps it. *)
LEMMA TurnsKeep ==
    ASSUME RevisionsInv, NEW i \in 1 .. LastTask, NEW status \in TaskStates,
           graph[i].status # "completed", limbo = <<>>, Turns(i, status)
    PROVE  RevisionsInv'
<1>1. i \in 1 .. Len(graph) /\ GoodPlan(graph)
  BY DEF LastTask, RevisionsInv
<1>2. graph' = [graph EXCEPT ![i].status = status] /\ limbo' = <<>> /\ accepted' = accepted
  BY DEF Turns
<1>3. GoodPlan(graph') /\ KeepsAnswers(graph, graph')
  BY <1>1, <1>2, TurnKeeps
<1>4. AnswersIn(graph', accepted')
  BY <1>2, <1>3, AnswersStay DEF RevisionsInv
<1> QED
  BY <1>2, <1>3, <1>4 DEF RevisionsInv, GroupOpen

(* A commit of a group keeps it, whenever it becomes known. *)
LEMMA CommitKeeps ==
    ASSUME RevisionsInv, NEW root \in 1 .. Len(graph), NEW op \in RevisionIds,
           NEW text \in Texts, NEW include \in BOOLEAN, FirstOf(graph, op) = {},
           \A i \in SourcesIn(graph, root) : graph[i].status = "completed",
           graph' = graph \o GroupIn(graph, root, op, text, include)
    PROVE  /\ GoodPlan(graph') /\ AnswersIn(graph', accepted)
           /\ AnswersIn(graph', {[op |-> op, text |-> text, source |-> root, include |-> include]})
<1>1. GoodPlan(graph) /\ AnswersIn(graph, accepted)
  BY DEF RevisionsInv
<1>2. GoodPlan(graph') /\ KeepsAnswers(graph, graph') /\ Answered(graph', op, root, text, include)
  BY <1>1, GroupKeeps
<1>3. AnswersIn(graph', accepted)
  BY <1>1, <1>2, AnswersStay
<1>4. AnswersIn(graph', {[op |-> op, text |-> text, source |-> root, include |-> include]})
  BY <1>2 DEF AnswersIn
<1> QED
  BY <1>2, <1>3, <1>4

(* A revision that is accepted, refused or lost on its way keeps the plan good. *)
LEMMA CreateKeeps ==
    ASSUME RevisionsInv, NEW op \in RevisionIds, NEW text \in Texts, NEW include \in BOOLEAN,
           NEW root \in 1 .. LastTask, NEW certain, CreateRevision(op, root, include, text, certain)
    PROVE  RevisionsInv'
<1> DEFINE asked == [op |-> op, text |-> text, source |-> root, include |-> include]
<1>1. root \in 1 .. Len(graph) /\ GoodPlan(graph) /\ AnswersIn(graph, accepted)
  BY DEF LastTask, RevisionsInv
<1>2. /\ RevisionSources(root) = SourcesIn(graph, root)
      /\ Group(root, op, text, include) = GroupIn(graph, root, op, text, include)
      /\ RootOf(op) = FirstOf(graph, op)
  BY GroupOfThePlan
<1>3. FirstOf(graph, op) = {} /\ \A i \in SourcesIn(graph, root) : graph[i].status = "completed"
  BY <1>2 DEF CreateRevision, RevisionAdmissible
<1>4. CASE certain
  <2>1. /\ graph' = graph \o GroupIn(graph, root, op, text, include) /\ limbo' = <<>>
        /\ accepted' = accepted \cup {asked}
    BY <1>2, <1>4 DEF CreateRevision
  <2>2. GoodPlan(graph') /\ AnswersIn(graph', accepted) /\ AnswersIn(graph', {asked})
    BY <1>1, <1>3, <2>1, CommitKeeps
  <2> HIDE DEF asked
  <2>3. AnswersIn(graph', accepted')
    BY <2>1, <2>2 DEF AnswersIn
  <2> QED
    BY <2>1, <2>2, <2>3 DEF RevisionsInv, GroupOpen
<1>5. CASE ~certain
  <2>1. graph' = graph /\ limbo' = GroupIn(graph, root, op, text, include) /\ accepted' = accepted
    BY <1>2, <1>5 DEF CreateRevision
  <2>2. GroupOpen(graph', limbo')
    BY <1>1, <1>3, <2>1 DEF GroupOpen
  <2> QED
    BY <1>1, <2>1, <2>2 DEF RevisionsInv
<1> QED
  BY <1>4, <1>5

(* A revision that is asked for again keeps the plan good. *)
LEMMA ReplayKeeps ==
    ASSUME RevisionsInv, NEW op \in RevisionIds, NEW text \in Texts, NEW include \in BOOLEAN,
           NEW root \in 1 .. LastTask, ReplayRevision(op, root, include, text)
    PROVE  RevisionsInv'
<1> DEFINE asked == [op |-> op, text |-> text, source |-> root, include |-> include]
<1>1. graph' = graph /\ limbo' = limbo /\ accepted' = accepted \cup {asked}
  BY DEF ReplayRevision
<1>2. \E i \in FirstOf(graph, op) :
        graph[i].source = root /\ graph[i].include = include /\ graph[i].text = text
  <2>1. RootOf(op) = FirstOf(graph, op)
    BY GroupOfThePlan
  <2> QED
    BY <2>1 DEF ReplayRevision, SameRequest
<1>3. AnswersIn(graph, {asked})
  BY <1>2 DEF AnswersIn, Answered
<1> HIDE DEF asked
<1>4. AnswersIn(graph', accepted')
  BY <1>1, <1>3 DEF RevisionsInv, AnswersIn
<1> QED
  BY <1>1, <1>4 DEF RevisionsInv

(* What a later start finds of a revision of unknown fate keeps the plan good. *)
LEMMA RereadKeeps ==
    ASSUME RevisionsInv, NEW written, RereadPlan(written)
    PROVE  RevisionsInv'
<1>1. limbo # <<>> /\ limbo' = <<>> /\ accepted' = accepted
      /\ graph' = IF written THEN graph \o limbo ELSE graph
  BY DEF RereadPlan
<1>2. PICK op \in RevisionIds, text \in Texts, include \in BOOLEAN : \E root \in 1 .. Len(graph) :
        /\ FirstOf(graph, op) = {} /\ \A i \in SourcesIn(graph, root) : graph[i].status = "completed"
        /\ limbo = GroupIn(graph, root, op, text, include)
  BY <1>1 DEF RevisionsInv, GroupOpen
<1>3. PICK root \in 1 .. Len(graph) :
        /\ FirstOf(graph, op) = {} /\ \A i \in SourcesIn(graph, root) : graph[i].status = "completed"
        /\ limbo = GroupIn(graph, root, op, text, include)
  BY <1>2
<1>4. GoodPlan(graph') /\ AnswersIn(graph', accepted)
  <2>1. CASE written
    <3>1. graph' = graph \o GroupIn(graph, root, op, text, include)
      BY <2>1, <1>1, <1>3
    <3> QED
      BY <3>1, <1>3, CommitKeeps
  <2>2. CASE ~written
    BY <2>2, <1>1 DEF RevisionsInv
  <2> QED
    BY <2>1, <2>2
<1> QED
  BY <1>1, <1>4 DEF RevisionsInv, GroupOpen

(* Every step keeps the invariant. *)
LEMMA RevisionsStep == RevisionsInv /\ [RevisionsNext]_revisionsVars => RevisionsInv'
<1> SUFFICES ASSUME RevisionsInv, [RevisionsNext]_revisionsVars PROVE RevisionsInv'
  OBVIOUS
<1>1. ASSUME NEW op \in RevisionIds, NEW text \in Texts, NEW include \in BOOLEAN, NEW root \in 1 .. LastTask,
             (\E certain \in BOOLEAN : CreateRevision(op, root, include, text, certain))
             \/ ReplayRevision(op, root, include, text)
      PROVE  RevisionsInv'
  BY <1>1, CreateKeeps, ReplayKeeps
<1>2. ASSUME NEW w \in BOOLEAN, RereadPlan(w) PROVE RevisionsInv'
  BY <1>2, RereadKeeps
<1>3. ASSUME NEW i \in 1 .. LastTask, StartTask(i) PROVE RevisionsInv'
  <2>1. graph[i].status # "completed" /\ limbo = <<>> /\ Turns(i, "running") /\ "running" \in TaskStates
    BY <1>3 DEF StartTask, Works, TaskStates
  <2> QED
    BY <2>1, TurnsKeep
<1>4. ASSUME NEW i \in 1 .. LastTask, EndTask(i) PROVE RevisionsInv'
  <2>1. graph[i].status # "completed" /\ limbo = <<>> /\ Turns(i, "completed") /\ "completed" \in TaskStates
    BY <1>4 DEF EndTask, TaskStates
  <2> QED
    BY <2>1, TurnsKeep
<1>5. ASSUME NEW i \in 1 .. LastTask, RepeatTask(i) PROVE RevisionsInv'
  <2>1. graph[i].status # "completed" /\ limbo = <<>> /\ Turns(i, "pending") /\ "pending" \in TaskStates
    BY <1>5 DEF RepeatTask, TaskStates
  <2> QED
    BY <2>1, TurnsKeep
<1>6. ASSUME NEW i \in 1 .. LastTask, NEW s \in {"failed", "unknown"}, FailTask(i, s) PROVE RevisionsInv'
  <2>1. graph[i].status # "completed" /\ limbo = <<>> /\ Turns(i, s) /\ s \in TaskStates
    BY <1>6 DEF FailTask, TaskStates
  <2> QED
    BY <2>1, TurnsKeep
<1>7. ASSUME UNCHANGED <<graph, limbo, accepted>> PROVE RevisionsInv'
  BY <1>7 DEF RevisionsInv
<1>8. ASSUME Steer PROVE RevisionsInv'
  <2>1. UNCHANGED <<graph, limbo, accepted>>
    BY <1>8 DEF Steer, Steers
  <2> QED
    BY <2>1, <1>7
<1>9. CASE UNCHANGED revisionsVars
  BY <1>9, <1>7 DEF revisionsVars
<1> QED
  BY <1>1, <1>2, <1>3, <1>4, <1>5, <1>6, <1>8, <1>9 DEF RevisionsNext

(* A state of the invariant is coherent. *)
LEMMA GoodIsCoherent == RevisionsInv => RevisionsAreCoherent
<1> SUFFICES ASSUME RevisionsInv PROVE RevisionsAreCoherent
  OBVIOUS
<1>1. GoodPlan(graph) /\ AnswersIn(graph, accepted)
  BY DEF RevisionsInv
<1>2. NewestRestOnNewest
  <2>1. ASSUME NEW c \in 1 .. FirstTasks
        PROVE  \E n : IsNewest(graph, c, n) /\ Newest(c) = n
    <3>1. PICK n : IsNewest(graph, c, n)
      BY <1>1 DEF GoodPlan, Stands
    <3>2. IsNewest(graph, c, Newest(c))
      BY <3>1, OfThePlan DEF Newest, IsNewest, LastTask
    <3> QED
      BY <3>2
  <2>2. ASSUME NEW c \in 1 .. FirstTasks, NEW a \in graph[c].deps
        PROVE  Newest(a) \in Rests[Newest(c)]
    <3>1. a \in 1 .. FirstTasks
      <4>1. c \in 1 .. Len(graph) /\ c \in 1 .. FirstTasks /\ FirstTasks \in Nat /\ Len(graph) \in Nat
        BY <1>1, RevisionsAssumption DEF GoodPlan, Acyclic
      <4>2. a \in 1 .. (c - 1)
        BY <4>1, <1>1 DEF GoodPlan, Acyclic
      <4> QED
        BY <4>1, <4>2
    <3>2. IsNewest(graph, c, Newest(c)) /\ IsNewest(graph, a, Newest(a))
      BY <2>1, <3>1
    <3>3. Newest(a) \in RestsIn(graph)[Newest(c)]
      BY <3>2, <1>1 DEF GoodPlan, Stands
    <3> QED
      BY <3>3, OfThePlan
  <2> QED
    BY <2>2 DEF NewestRestOnNewest
<1>3. NoInputReplaced /\ RevisesOnce
  BY <1>1 DEF GoodPlan, KeptIn, OnceIn, NoInputReplaced, RevisesOnce, LastTask
<1>4. AnswersStand
  <2>1. \A op : RootOf(op) = FirstOf(graph, op)
    BY DEF RootOf, FirstOf, LastTask
  <2> QED
    BY <2>1, <1>1 DEF AnswersIn, Answered, AnswersStand
<1> QED
  BY <1>2, <1>3, <1>4 DEF RevisionsAreCoherent

(* The plan is good in every state. *)
THEOREM RevisionsInvariant == RevisionsSpec => []RevisionsInv
<1>1. RevisionsInit => RevisionsInv
  BY RevisionsBegin
<1>2. RevisionsInv /\ [RevisionsNext]_revisionsVars => RevisionsInv'
  BY RevisionsStep
<1> QED
  BY <1>1, <1>2, PTL DEF RevisionsSpec

(* However results are revised, the newest ones rest on the newest ones. *)
THEOREM RevisionsStayCoherent == RevisionsSpec => []RevisionsAreCoherent
BY RevisionsInvariant, GoodIsCoherent, PTL

-----------------------------------------------------------------------------
(* Retries that nobody asked for *)

(* What the catalogs list is a sequence of routes, whichever answered. *)
LEMMA CatalogTyped ==
    ASSUME NEW listed \in SUBSET DOMAIN CatalogOf
    PROVE  CatalogRoutes(listed) \in Seq(Models)
<1> DEFINE providers == <<Controller.provider>> \o Allowlist
           Part(k) == IF providers[k] \in listed THEN CatalogOf[providers[k]] ELSE <<>>
           Grown(f, k) == IF k = 0 THEN <<>> ELSE f[k - 1] \o Part(k)
           Fits(f, n) == f = [k \in 0 .. n |-> Grown(f, k)]
           Bad == {n \in 0 .. Len(providers) : ~ \E f : Fits(f, n)}
<1>1. Len(providers) \in Nat
  <2>1. <<Controller.provider>> \in Seq(DOMAIN CatalogOf) /\ Allowlist \in Seq(DOMAIN CatalogOf)
    BY ModelsAssumption
  <2>2. providers \in Seq(DOMAIN CatalogOf)
    BY <2>1, ConcatProperties
  <2> QED
    BY <2>2, LenProperties
<1>2. \A k : Part(k) \in Seq(Models)
  <2>1. \A p \in listed : CatalogOf[p] \in Seq(Models)
    BY ModelsAssumption
  <2>2. <<>> \in Seq(Models)
    OBVIOUS
  <2> HIDE DEF providers
  <2> QED
    BY <2>1, <2>2
<1> HIDE DEF providers, Part
<1>3. Bad = {}
  <2> SUFFICES ASSUME Bad # {} PROVE FALSE
    OBVIOUS
  <2>1. Bad \subseteq Nat
    BY <1>1
  <2>2. PICK n \in Bad : \A e \in Bad : n <= e
    <3> HIDE DEF Bad
    <3> QED
      BY <2>1, Minimum
  <2>3. n \in 0 .. Len(providers) /\ n \in Nat /\ ~ \E f : Fits(f, n)
    <3> HIDE DEF Fits
    <3>1. n \in 0 .. Len(providers) /\ ~ \E f : Fits(f, n)
      BY <2>2
    <3> QED
      BY <1>1, <3>1
  <2>4. n # 0
    <3> DEFINE z == [k \in 0 .. 0 |-> <<>>]
    <3>1. \A k \in 0 .. 0 : k = 0 /\ z[k] = <<>>
      OBVIOUS
    <3>2. \A k \in 0 .. 0 : z[k] = Grown(z, k)
      BY <3>1
    <3>3. z = [k \in 0 .. 0 |-> z[k]]
      OBVIOUS
    <3> HIDE DEF z, Grown
    <3>4. z = [k \in 0 .. 0 |-> Grown(z, k)]
      BY <3>2, <3>3
    <3>5. Fits(z, 0)
      BY <3>4
    <3> HIDE DEF Fits
    <3> QED
      BY <2>3, <3>5
  <2>5. PICK f : Fits(f, n - 1)
    <3>1. ~(n <= n - 1) /\ n - 1 \in 0 .. Len(providers)
      BY <2>3, <2>4, <1>1
    <3>2. n - 1 \notin Bad
      <4> HIDE DEF Bad
      <4> QED
        BY <3>1, <2>2
    <3> HIDE DEF Fits
    <3> QED
      BY <3>1, <3>2
  <2> DEFINE h == [k \in 0 .. n |-> Grown(f, k)]
  <2>6. \A k \in 0 .. (n - 1) : h[k] = f[k]
    <3>1. \A k \in 0 .. (n - 1) : f[k] = Grown(f, k) /\ k \in 0 .. n
      <4> HIDE DEF Grown
      <4> QED
        BY <2>3, <2>4, <2>5
    <3> HIDE DEF Grown
    <3> QED
      BY <3>1
  <2>7. \A k \in 0 .. n : k # 0 => k - 1 \in 0 .. (n - 1)
    BY <2>3
  <2>8. \A k \in 0 .. n : Grown(h, k) = Grown(f, k)
    <3> HIDE DEF h
    <3> QED
      BY <2>6, <2>7
  <2>9. Fits(h, n)
    <3> HIDE DEF Grown
    <3>1. \A k \in 0 .. n : h[k] = Grown(h, k)
      BY <2>8
    <3>2. h = [k \in 0 .. n |-> h[k]]
      OBVIOUS
    <3> HIDE DEF h
    <3> QED
      BY <3>1, <3>2
  <2> HIDE DEF Fits, h
  <2> QED
    BY <2>3, <2>9
<1> DEFINE g == CHOOSE f : Fits(f, Len(providers))
<1>4. PICK f : Fits(f, Len(providers))
  <2>1. Len(providers) \in 0 .. Len(providers)
    BY <1>1
  <2> HIDE DEF Fits
  <2> QED
    BY <1>3, <2>1
<1>5. Fits(g, Len(providers))
  <2> HIDE DEF Fits
  <2> QED
    BY <1>4
<1>6. g[Len(providers)] \in Seq(Models)
  <2> HIDE DEF g
  <2> DEFINE Off == {k \in 0 .. Len(providers) : g[k] \notin Seq(Models)}
  <2>1. Off = {}
    <3> SUFFICES ASSUME Off # {} PROVE FALSE
      OBVIOUS
    <3>1. Off \subseteq Nat
      BY <1>1
    <3>2. PICK k \in Off : \A e \in Off : k <= e
      <4> HIDE DEF Off
      <4> QED
        BY <3>1, Minimum
    <3>3. k \in 0 .. Len(providers) /\ k \in Nat /\ g[k] \notin Seq(Models)
      BY <1>1, <3>2
    <3>4. g[k] = Grown(g, k)
      <4> HIDE DEF Grown
      <4> QED
        BY <1>5, <3>3
    <3>5. k # 0
      BY <3>3, <3>4
    <3>6. k - 1 \in 0 .. Len(providers) /\ ~(k <= k - 1)
      BY <1>1, <3>3, <3>5
    <3>7. g[k - 1] \in Seq(Models)
      <4>1. k - 1 \notin Off
        <5> HIDE DEF Off
        <5> QED
          BY <3>2, <3>6
      <4> QED
        BY <3>6, <4>1
    <3> QED
      BY <3>3, <3>4, <3>5, <3>7, <1>2, ConcatProperties
  <2>2. Len(providers) \in 0 .. Len(providers)
    BY <1>1
  <2> QED
    BY <2>1, <2>2
<1>7. CatalogRoutes(listed) = g[Len(providers)]
  BY DEF CatalogRoutes, providers, Part
<1> QED
  BY <1>6, <1>7

(* The candidates are routes, and those that count are inside the scope. *)
LEMMA CandidatesTyped ==
    ASSUME NEW listed \in SUBSET DOMAIN CatalogOf
    PROVE  /\ AutomaticModelCandidates(listed) \in Seq(Models) /\ Candidates(listed) \in SUBSET Nat
           /\ \A i \in Candidates(listed) : /\ AutomaticModelCandidates(listed)[i] \in Models
                                           /\ IsProviderAllowed(AutomaticModelCandidates(listed)[i])
<1> DEFINE s == AutomaticModelCandidates(listed)
<1>1. s \in Seq(Models)
  <2>1. Preferred \in Seq(Models) /\ <<Controller>> \in Seq(Models)
    BY ModelsAssumption
  <2> QED
    BY <2>1, CatalogTyped, ConcatProperties DEF AutomaticModelCandidates
<1> HIDE DEF s
<1>2. DOMAIN s = 1 .. Len(s) /\ Len(s) \in Nat /\ \A i \in 1 .. Len(s) : s[i] \in Models
  BY <1>1, LenProperties, ElementOfSeq
<1>3. Candidates(listed) = {i \in DOMAIN s : IsProviderAllowed(s[i])}
  BY DEF Candidates, s
<1>4. Candidates(listed) \in SUBSET Nat
  BY <1>2, <1>3
<1> QED
  BY <1>1, <1>2, <1>3, <1>4 DEF s

RoutedAlone == policy.team = "automatic" /\ AutomaticTier(policy.task)

(* A route that is resolved is inside the scope, and an automatic one has not failed. *)
LEMMA RouteFits ==
    ASSUME policy \in [team : Policies, task : TaskRequests], NEW listed \in SUBSET DOMAIN CatalogOf,
           NEW facts, NEW failed, NEW r, r = ResolveModelRoute(policy, facts, failed, listed), r # NoRoute
    PROVE  /\ r \in Models /\ IsProviderAllowed(r)
           /\ RoutedAlone /\ failed # {} => r \notin failed
<1> DEFINE Order == AutomaticModelCandidates(listed)
           open == {i \in Candidates(listed) : Order[i] \notin failed /\ Order[i] \in facts}
           Strict(m) == IF IsProviderAllowed(m) /\ m \in facts THEN m ELSE NoRoute
           first == CHOOSE i \in open : \A j \in open : i <= j
<1>1. Controller \in Models /\ IsProviderAllowed(Controller)
  BY ModelsAssumption DEF IsProviderAllowed
<1>2. Exact \in Models /\ Fixed \in Models /\ Legacy \in Models /\ IsProviderAllowed(Legacy)
  BY ModelsAssumption DEF Legacy, IsProviderAllowed
<1>3. open # {} => first \in open
  <2>1. open \in SUBSET Nat
    BY CandidatesTyped
  <2> HIDE DEF open
  <2> QED
    BY <2>1, Minimum
<1>4. open # {} => Order[first] \in Models /\ IsProviderAllowed(Order[first]) /\ Order[first] \notin failed
  <2>1. \A i \in open : Order[i] \in Models /\ IsProviderAllowed(Order[i]) /\ Order[i] \notin failed
    BY CandidatesTyped
  <2> HIDE DEF first, open, Order
  <2> QED
    BY <1>3, <2>1
<1>5. r = CASE policy.task = "exact" -> Strict(Exact)
            [] policy.task = "legacy" -> IF Legacy \in facts THEN Legacy ELSE NoRoute
            [] policy.team = "fixed" /\ policy.task \notin {"exact", "legacy"} -> Strict(Fixed)
            [] policy.team = "automatic" /\ AutomaticTier(policy.task) ->
                 IF open # {} THEN Order[first] ELSE IF failed # {} THEN NoRoute ELSE Controller
            [] OTHER -> Controller
  BY DEF ResolveModelRoute
<1> HIDE DEF Order, open, first, Strict
<1>6. CASE policy.task = "exact"
  <2>1. r = Strict(Exact) /\ ~RoutedAlone
    BY <1>5, <1>6 DEF RoutedAlone, AutomaticTier
  <2> QED
    BY <2>1, <1>2 DEF Strict
<1>7. CASE policy.task = "legacy"
  <2>1. r = Legacy /\ ~RoutedAlone
    BY <1>5, <1>7 DEF RoutedAlone, AutomaticTier
  <2> QED
    BY <2>1, <1>2
<1>8. CASE policy.team = "fixed" /\ policy.task \notin {"exact", "legacy"}
  <2>1. r = Strict(Fixed) /\ ~RoutedAlone
    BY <1>5, <1>8 DEF RoutedAlone
  <2> QED
    BY <2>1, <1>2 DEF Strict
<1>9. CASE RoutedAlone
  <2>1. policy.task \notin {"exact", "legacy"} /\ policy.team # "fixed"
    BY <1>9 DEF RoutedAlone, AutomaticTier
  <2>2. r = IF open # {} THEN Order[first] ELSE IF failed # {} THEN NoRoute ELSE Controller
    BY <1>5, <1>9, <2>1 DEF RoutedAlone
  <2> QED
    BY <2>2, <1>1, <1>4
<1>10. CASE /\ policy.task \notin {"exact", "legacy"} /\ policy.team # "fixed" /\ ~RoutedAlone
  <2>1. r = Controller
    BY <1>5, <1>10 DEF RoutedAlone
  <2> QED
    BY <2>1, <1>1, <1>10
<1> QED
  BY <1>6, <1>7, <1>8, <1>9, <1>10

(* What a state of the retries is made of *)
AllLogs == Logs \cup {NoLog}
Tries == [model : Models, log : AllLogs, seen : BOOLEAN, retried : {"none", "user", "safe"}, touched : BOOLEAN]
ModelsTyped ==
  /\ policy \in [team : Policies, task : TaskRequests]
  /\ dispatches \in Seq(Tries)
  /\ DOMAIN preflight = {"at", "fresh", "route"}

(* Before a retry that nobody asked for, every attempt failed in the provider's first call. *)
SafeInv ==
  \A i \in 1 .. Len(dispatches) : dispatches[i].retried = "safe" =>
    RoutedAlone /\ \A j \in 1 .. i : dispatches[j].seen /\ InspectModelCallFailure(dispatches[j].log)

(* While a retry is being decided on what nobody has changed, the Team waits and the user did not
   touch the latest attempt; once the logs were read, they show such failures. *)
PreflightInv ==
  preflight.at # "idle" /\ preflight.fresh =>
    /\ crew = "paused" /\ dispatches # <<>> /\ ~Latest.touched
    /\ preflight.at # "logs" => \A i \in 1 .. Len(dispatches) : InspectModelCallFailure(dispatches[i].log)

RetriesInv ==
  ModelsTyped /\ RoutesStayInScope /\ SafeInv /\ SafeRetryChangesModel /\ PreflightInv

(* No attempt, no preflight. *)
LEMMA RetriesBegin == ModelsInit => RetriesInv
<1> SUFFICES ASSUME ModelsInit PROVE RetriesInv
  OBVIOUS
<1>1. dispatches = <<>> /\ preflight = [at |-> "idle", fresh |-> FALSE, route |-> NoRoute]
  BY DEF ModelsInit
<1>2. Len(dispatches) = 0 /\ DOMAIN dispatches = {} /\ dispatches \in Seq(Tries)
  BY <1>1
<1>3. preflight.at = "idle" /\ DOMAIN preflight = {"at", "fresh", "route"}
  BY <1>1
<1>4. ModelsTyped
  BY <1>2, <1>3 DEF ModelsInit, ModelsTyped
<1> QED
  BY <1>2, <1>3, <1>4 DEF RetriesInv, RoutesStayInScope, SafeInv, SafeRetryChangesModel, PreflightInv

(* The places of the attempts. *)
LEMMA Places ==
    ASSUME ModelsTyped
    PROVE  /\ Len(dispatches) \in Nat /\ DOMAIN dispatches = 1 .. Len(dispatches)
           /\ \A i \in 1 .. Len(dispatches) : dispatches[i] \in Tries
           /\ dispatches # <<>> => Len(dispatches) \in 1 .. Len(dispatches)
<1>1. dispatches \in Seq(Tries)
  BY DEF ModelsTyped
<1>2. Len(dispatches) \in Nat /\ DOMAIN dispatches = 1 .. Len(dispatches)
  BY <1>1, LenProperties
<1>3. dispatches # <<>> => Len(dispatches) # 0
  BY <1>1, EmptySeq
<1>4. \A i \in 1 .. Len(dispatches) : dispatches[i] \in Tries
  BY <1>1, ElementOfSeq
<1> QED
  BY <1>2, <1>3, <1>4

(* A fresh route is inside the scope, and no model whose failure was recorded is asked again. *)
LEMMA FreshFits ==
    ASSUME ModelsTyped, NEW r \in FreshRoutes \ {NoRoute}
    PROVE  /\ r \in Models /\ IsProviderAllowed(r)
           /\ RoutedAlone => \A i \in 1 .. Len(dispatches) :
                dispatches[i].seen /\ dispatches[i].retried = "safe" => dispatches[i].model # r
<1>0. PICK readable \in Readable, listed \in SUBSET DOMAIN CatalogOf :
        \E facts \in Inspected(policy, listed) :
          r = ResolveModelRoute(policy, facts,
                IF AutomaticTier(policy.task) /\ policy.team = "automatic"
                THEN FailedModels(readable) ELSE {}, listed)
  BY DEF FreshRoutes
<1>1. PICK facts \in Inspected(policy, listed) :
        r = ResolveModelRoute(policy, facts,
              IF AutomaticTier(policy.task) /\ policy.team = "automatic"
              THEN FailedModels(readable) ELSE {}, listed)
  BY <1>0
<1> DEFINE failed == IF AutomaticTier(policy.task) /\ policy.team = "automatic"
                     THEN FailedModels(readable) ELSE {}
<1>2. r = ResolveModelRoute(policy, facts, failed, listed) /\ r # NoRoute
  BY <1>1
<1> HIDE DEF failed
<1>3. policy \in [team : Policies, task : TaskRequests]
  BY DEF ModelsTyped
<1>4. r \in Models /\ IsProviderAllowed(r) /\ (RoutedAlone /\ failed # {} => r \notin failed)
  BY <1>2, <1>3, RouteFits
<1>5. ASSUME RoutedAlone, NEW i \in 1 .. Len(dispatches), dispatches[i].seen, dispatches[i].retried = "safe"
      PROVE  dispatches[i].model # r
  <2>1. failed = FailedModels(readable)
    BY <1>5 DEF failed, RoutedAlone
  <2>2. i \in DOMAIN dispatches
    BY Places
  <2>3. dispatches[i].model \in FailedModels(readable)
    BY <2>2, <1>5 DEF FailedModels
  <2> QED
    BY <2>1, <2>3, <1>4, <1>5
<1> QED
  BY <1>4, <1>5

(* The next attempt runs on another model than one whose retry was automatic. *)
LEMMA DispatchKeeps == ASSUME RetriesInv, DispatchTry PROVE RetriesInv'
<1> DEFINE n == Len(dispatches)
<1>1. PICK r \in FreshRoutes \ {NoRoute} : dispatches' = Append(dispatches, Try(r))
  BY DEF DispatchTry
<1>2. ModelsTyped /\ UNCHANGED <<policy, crew, preflight>> /\ crew = "running"
  BY DEF RetriesInv, DispatchTry
<1>3. /\ n \in Nat /\ DOMAIN dispatches = 1 .. n /\ dispatches \in Seq(Tries)
      /\ \A i \in 1 .. n : dispatches[i] \in Tries
  BY <1>2, Places DEF ModelsTyped
<1>4. /\ r \in Models /\ IsProviderAllowed(r)
      /\ RoutedAlone => \A i \in 1 .. n :
           dispatches[i].seen /\ dispatches[i].retried = "safe" => dispatches[i].model # r
  BY <1>2, FreshFits
<1>5. Try(r) \in Tries /\ Try(r).model = r /\ Try(r).retried = "none"
  BY <1>4 DEF Try, Tries, AllLogs
<1>6. /\ dispatches' \in Seq(Tries) /\ Len(dispatches') = n + 1 /\ DOMAIN dispatches' = 1 .. (n + 1)
      /\ \A i \in 1 .. n : dispatches'[i] = dispatches[i]
      /\ dispatches'[n + 1] = Try(r)
  <2>1. /\ dispatches' \in Seq(Tries) /\ Len(dispatches') = n + 1
        /\ \A i \in 1 .. n : dispatches'[i] = dispatches[i]
        /\ dispatches'[n + 1] = Try(r)
    BY <1>1, <1>3, <1>5, AppendProperties
  <2>2. DOMAIN dispatches' = 1 .. Len(dispatches')
    BY <2>1, LenProperties
  <2> HIDE DEF n
  <2>3. DOMAIN dispatches' = 1 .. (n + 1)
    BY <2>1, <2>2
  <2> QED
    BY <2>1, <2>3
<1> HIDE DEF n
<1>7. \A i \in 1 .. (n + 1) : i \in 1 .. n \/ i = n + 1
  BY <1>3
<1>8. ModelsTyped'
  BY <1>2, <1>6 DEF ModelsTyped
<1>9. RoutesStayInScope'
  <2>1. \A i \in 1 .. n : IsProviderAllowed(dispatches[i].model)
    BY <1>3 DEF RetriesInv, RoutesStayInScope
  <2>2. \A i \in 1 .. (n + 1) : IsProviderAllowed(dispatches'[i].model)
    BY <2>1, <1>4, <1>5, <1>6, <1>7
  <2> QED
    BY <2>2, <1>6 DEF RoutesStayInScope, IsProviderAllowed
<1>10. SafeInv'
  <2>1. ASSUME NEW i \in 1 .. (n + 1), dispatches'[i].retried = "safe"
        PROVE  RoutedAlone /\ \A j \in 1 .. i : dispatches'[j].seen /\ InspectModelCallFailure(dispatches'[j].log)
    <3>1. i \in 1 .. n
      BY <2>1, <1>5, <1>6, <1>7
    <3>2. dispatches[i].retried = "safe"
      BY <2>1, <3>1, <1>6
    <3>3. RoutedAlone /\ \A j \in 1 .. i : dispatches[j].seen /\ InspectModelCallFailure(dispatches[j].log)
      BY <3>1, <3>2 DEF RetriesInv, SafeInv, n
    <3>4. \A j \in 1 .. i : j \in 1 .. n
      BY <3>1, <1>3
    <3> QED
      BY <3>3, <3>4, <1>6
  <2>2. RoutedAlone' = RoutedAlone
    BY <1>2 DEF RoutedAlone, AutomaticTier
  <2> QED
    BY <2>1, <2>2, <1>6 DEF SafeInv, InspectModelCallFailure
<1>11. SafeRetryChangesModel'
  <2>1. ASSUME NEW i \in 1 .. (n + 1), dispatches'[i].retried = "safe", i < n + 1
        PROVE  dispatches'[i + 1].model # dispatches'[i].model
    <3>1. i \in 1 .. n /\ i + 1 \in 1 .. (n + 1)
      BY <2>1, <1>3
    <3>2. dispatches[i].retried = "safe" /\ dispatches'[i] = dispatches[i]
      BY <2>1, <3>1, <1>6
    <3>3. CASE i < n
      <4>1. dispatches[i + 1].model # dispatches[i].model
        BY <3>1, <3>2, <3>3, <1>3 DEF RetriesInv, SafeRetryChangesModel, n
      <4>2. i + 1 \in 1 .. n
        BY <3>1, <3>3, <1>3
      <4> QED
        BY <4>1, <4>2, <3>2, <1>6
    <3>4. CASE i = n
      <4>1. RoutedAlone /\ dispatches[i].seen
        <5>1. i \in 1 .. i
          BY <3>1, <1>3
        <5> QED
          BY <5>1, <3>1, <3>2 DEF RetriesInv, SafeInv, n
      <4>2. dispatches[i].model # r
        BY <4>1, <3>1, <3>2, <1>4
      <4> QED
        BY <4>2, <3>2, <3>4, <1>5, <1>6
    <3> QED
      BY <3>1, <3>3, <3>4, <1>3
  <2> QED
    BY <2>1, <1>6 DEF SafeRetryChangesModel
<1>12. PreflightInv'
  BY <1>2 DEF RetriesInv, PreflightInv
<1> QED
  BY <1>8, <1>9, <1>10, <1>11, <1>12 DEF RetriesInv

(* What changes the latest attempt alone, and not its model, keeps the attempts safe. *)
LEMMA LatestChanges ==
    ASSUME RetriesInv, dispatches # <<>>, NEW t \in Tries, t.model = Latest.model, UNCHANGED policy,
           DOMAIN preflight' = {"at", "fresh", "route"},
           dispatches' = [i \in 1 .. Len(dispatches) |-> IF i = Len(dispatches) THEN t ELSE dispatches[i]],
           t.retried = "safe" =>
             /\ RoutedAlone /\ t.seen /\ InspectModelCallFailure(t.log)
             /\ \A j \in 1 .. Len(dispatches) : j # Len(dispatches) =>
                  dispatches[j].seen /\ InspectModelCallFailure(dispatches[j].log)
    PROVE  /\ ModelsTyped' /\ RoutesStayInScope' /\ SafeInv' /\ SafeRetryChangesModel'
           /\ Len(dispatches') = Len(dispatches) /\ dispatches' # <<>> /\ Latest' = t
<1> DEFINE n == Len(dispatches)
<1>1. /\ n \in Nat /\ DOMAIN dispatches = 1 .. n /\ n \in 1 .. n
      /\ \A i \in 1 .. n : dispatches[i] \in Tries
  BY Places DEF RetriesInv
<1>2. Latest = dispatches[n]
  BY DEF Latest
<1>3. /\ dispatches' \in Seq(Tries) /\ Len(dispatches') = n /\ DOMAIN dispatches' = 1 .. n
      /\ dispatches'[n] = t
      /\ \A i \in 1 .. n : i # n => dispatches'[i] = dispatches[i]
  <2> HIDE DEF n
  <2>1. dispatches' = [i \in 1 .. n |-> IF i = n THEN t ELSE dispatches[i]]
    BY DEF n
  <2>2. \A i \in 1 .. n : (IF i = n THEN t ELSE dispatches[i]) \in Tries
    BY <1>1
  <2>3. dispatches' \in [1 .. n -> Tries]
    BY <2>1, <2>2
  <2>4. dispatches' \in Seq(Tries)
    BY <2>3, <1>1, SeqDef
  <2>5. DOMAIN dispatches' = 1 .. n
    BY <2>3
  <2>6. Len(dispatches') = n
    BY <2>4, <2>5, <1>1, LenProperties
  <2> QED
    BY <2>1, <2>4, <2>5, <2>6, <1>1
<1>4. RoutedAlone' = RoutedAlone
  BY DEF RoutedAlone, AutomaticTier
<1> HIDE DEF n
<1>5. ModelsTyped'
  BY <1>3 DEF RetriesInv, ModelsTyped
<1>6. \A i \in 1 .. n : dispatches'[i].model = dispatches[i].model
  BY <1>2, <1>3
<1>7. RoutesStayInScope'
  <2>1. \A i \in 1 .. n : IsProviderAllowed(dispatches[i].model)
    BY <1>1 DEF RetriesInv, RoutesStayInScope
  <2>2. \A i \in 1 .. n : IsProviderAllowed(dispatches'[i].model)
    BY <2>1, <1>6
  <2> QED
    BY <2>2, <1>3 DEF RoutesStayInScope, IsProviderAllowed
<1>8. SafeInv'
  <2>1. ASSUME NEW i \in 1 .. n, dispatches'[i].retried = "safe"
        PROVE  RoutedAlone /\ \A j \in 1 .. i : dispatches'[j].seen /\ InspectModelCallFailure(dispatches'[j].log)
    <3>1. CASE i = n
      <4>1. /\ RoutedAlone /\ t.seen /\ InspectModelCallFailure(t.log)
            /\ \A j \in 1 .. n : j # n => dispatches[j].seen /\ InspectModelCallFailure(dispatches[j].log)
        BY <2>1, <3>1, <1>3 DEF n
      <4>2. \A j \in 1 .. n : dispatches'[j].seen /\ InspectModelCallFailure(dispatches'[j].log)
        BY <4>1, <1>3
      <4> QED
        BY <3>1, <4>1, <4>2
    <3>2. CASE i # n
      <4>1. dispatches[i].retried = "safe"
        BY <2>1, <3>2, <1>3
      <4>2. RoutedAlone /\ \A j \in 1 .. i : dispatches[j].seen /\ InspectModelCallFailure(dispatches[j].log)
        BY <4>1 DEF RetriesInv, SafeInv, n
      <4>3. \A j \in 1 .. i : j \in 1 .. n /\ j # n
        BY <3>2, <1>1
      <4> QED
        BY <4>2, <4>3, <1>3
    <3> QED
      BY <3>1, <3>2
  <2> QED
    BY <2>1, <1>3, <1>4 DEF SafeInv, InspectModelCallFailure
<1>9. SafeRetryChangesModel'
  <2>0. \A i \in 1 .. n : dispatches[i].retried = "safe" /\ i < n =>
          dispatches[i + 1].model # dispatches[i].model
    BY <1>1 DEF RetriesInv, SafeRetryChangesModel, n
  <2>1. ASSUME NEW i \in 1 .. n, dispatches'[i].retried = "safe", i < n
        PROVE  dispatches'[i + 1].model # dispatches'[i].model
    <3>1. i + 1 \in 1 .. n /\ i # n
      BY <2>1, <1>1
    <3>2. dispatches[i].retried = "safe"
      BY <2>1, <3>1, <1>3
    <3> DEFINE k == i + 1
    <3>3. dispatches[k].model # dispatches[i].model
      BY <2>0, <2>1, <3>2
    <3>4. k \in 1 .. n
      BY <3>1
    <3> HIDE DEF k
    <3>5. dispatches'[k].model # dispatches'[i].model
      BY <3>3, <3>4, <1>6
    <3> QED
      BY <3>5 DEF k
  <2> QED
    BY <2>1, <1>3 DEF SafeRetryChangesModel
<1>10. dispatches' # <<>> /\ Latest' = t
  <2>1. dispatches' # <<>>
    BY <1>1, <1>3
  <2>2. Latest' = dispatches'[n]
    BY <1>3 DEF Latest
  <2> QED
    BY <2>1, <2>2, <1>3
<1>11. Len(dispatches') = Len(dispatches)
  BY <1>3 DEF n
<1> QED
  BY <1>5, <1>7, <1>8, <1>9, <1>10, <1>11

(* An attempt that has not ended was never retried by the Team itself. *)
LEMMA OpenUnretried == ASSUME RetriesInv, dispatches # <<>>, ~Over(Latest) PROVE Latest.retried # "safe"
<1> DEFINE n == Len(dispatches)
<1>1. n \in 1 .. n /\ Latest = dispatches[n]
  BY Places DEF RetriesInv, Latest
<1>2. SUFFICES ASSUME dispatches[n].retried = "safe" PROVE FALSE
  BY <1>1
<1>3. InspectModelCallFailure(dispatches[n].log)
  BY <1>1, <1>2 DEF RetriesInv, SafeInv
<1>4. dispatches[n].log = NoLog
  BY <1>1 DEF Over
<1>5. NoLog.turns = 0
  BY DEF NoLog
<1> QED
  BY <1>3, <1>4, <1>5 DEF InspectModelCallFailure

(* The failure of an attempt is the first thing its log shows. *)
LEMMA AttemptFailureKeeps == ASSUME RetriesInv, AttemptFails PROVE RetriesInv'
<1> DEFINE n == Len(dispatches)
<1>1. PICK log \in Logs, said \in BOOLEAN :
        dispatches' = [dispatches EXCEPT ![n].log = log, ![n].seen = said]
  <2>1. \A output \in BOOLEAN : (~output) \in BOOLEAN
    OBVIOUS
  <2> QED
    BY <2>1 DEF AttemptFails
<1> DEFINE old == dispatches[n]
           t == [old EXCEPT !.log = log, !.seen = said]
<1>2. /\ dispatches # <<>> /\ ~Over(Latest) /\ UNCHANGED <<policy, preflight>> /\ crew = "running"
  BY DEF AttemptFails
<1>3. /\ DOMAIN dispatches = 1 .. n /\ n \in 1 .. n /\ old \in Tries /\ Latest = old
      /\ DOMAIN preflight = {"at", "fresh", "route"} /\ dispatches \in Seq(Tries)
  BY <1>2, Places DEF RetriesInv, ModelsTyped, Latest
<1>4. old.retried # "safe"
  BY <1>2, <1>3, OpenUnretried
<1>5. t \in Tries /\ t.model = old.model /\ t.retried = old.retried
  <2> HIDE DEF n, old
  <2>1. log \in AllLogs
    BY DEF AllLogs
  <2> QED
    BY <1>3, <2>1 DEF Tries
<1>6. dispatches' = [i \in 1 .. n |-> IF i = n THEN t ELSE dispatches[i]]
  <2>0. dispatches = [i \in 1 .. n |-> dispatches[i]]
    BY <1>3
  <2> HIDE DEF n
  <2> DEFINE logged == [dispatches EXCEPT ![n].log = log]
  <2>1. logged = [i \in 1 .. n |-> IF i = n THEN [old EXCEPT !.log = log] ELSE dispatches[i]]
    BY <1>3, <2>0
  <2>2. dispatches' = [logged EXCEPT ![n].seen = said]
    BY <1>1
  <2> HIDE DEF logged
  <2>3. logged[n] = [old EXCEPT !.log = log] /\ \A i \in 1 .. n : i # n => logged[i] = dispatches[i]
    BY <1>3, <2>1
  <2>4. dispatches' = [i \in 1 .. n |-> IF i = n THEN [logged[n] EXCEPT !.seen = said] ELSE logged[i]]
    BY <2>1, <2>2, Zenon
  <2> QED
    BY <2>3, <2>4
<1> HIDE DEF t, old
<1>7. /\ ModelsTyped' /\ RoutesStayInScope' /\ SafeInv' /\ SafeRetryChangesModel'
  BY <1>2, <1>3, <1>4, <1>5, <1>6, LatestChanges, Zenon
<1>8. PreflightInv'
  BY <1>2 DEF RetriesInv, PreflightInv
<1> QED
  BY <1>7, <1>8 DEF RetriesInv

(* What a user did keeps the attempts safe, and cuts a preflight. *)
LEMMA ActsKeep ==
    ASSUME RetriesInv, NEW after, NEW retried \in {"none", "user", "safe"},
           retried \in {"user", Latest.retried}, Acts(after, retried)
    PROVE  RetriesInv'
<1> DEFINE n == Len(dispatches)
           old == dispatches[n]
           t == [old EXCEPT !.touched = TRUE, !.retried = retried]
<1>1. /\ dispatches # <<>> /\ UNCHANGED policy /\ preflight' = [preflight EXCEPT !.fresh = FALSE]
      /\ dispatches' = [dispatches EXCEPT ![n].touched = TRUE, ![n].retried = retried]
  BY DEF Acts, CutMoves
<1>2. /\ DOMAIN dispatches = 1 .. n /\ n \in 1 .. n /\ old \in Tries /\ Latest = old
      /\ DOMAIN preflight = {"at", "fresh", "route"} /\ dispatches \in Seq(Tries) /\ n \in Nat
  BY <1>1, Places DEF RetriesInv, ModelsTyped, Latest
<1>3. /\ t \in Tries /\ t.model = old.model /\ t.retried = retried
      /\ t.seen = old.seen /\ t.log = old.log
  <2> HIDE DEF n, old
  <2> QED
    BY <1>2 DEF Tries
<1>4. dispatches' = [i \in 1 .. n |-> IF i = n THEN t ELSE dispatches[i]]
  <2>1. dispatches = [i \in 1 .. n |-> dispatches[i]]
    BY <1>2
  <2> HIDE DEF n
  <2> QED
    BY <1>1, <1>2, <2>1
<1>5. DOMAIN preflight' = {"at", "fresh", "route"} /\ preflight'.fresh = FALSE
  BY <1>1, <1>2
<1>6. ASSUME retried = "safe"
      PROVE  /\ RoutedAlone /\ old.seen /\ InspectModelCallFailure(old.log)
             /\ \A j \in 1 .. n : dispatches[j].seen /\ InspectModelCallFailure(dispatches[j].log)
  <2>1. dispatches[n].retried = "safe"
    BY <1>2, <1>6
  <2> QED
    BY <2>1, <1>2 DEF RetriesInv, SafeInv
<1> HIDE DEF t, old
<1>7. /\ ModelsTyped' /\ RoutesStayInScope' /\ SafeInv' /\ SafeRetryChangesModel'
  BY <1>1, <1>2, <1>3, <1>4, <1>5, <1>6, LatestChanges
<1>8. PreflightInv'
  BY <1>5 DEF PreflightInv
<1> QED
  BY <1>7, <1>8 DEF RetriesInv

(* Every act of the user keeps the attempts safe. *)
LEMMA UserKeeps ==
    ASSUME RetriesInv,
           UserRetries \/ UserResumes \/ UserPauses \/ UserCancels \/ AcquireManually \/ ReturnFromManual
    PROVE  RetriesInv'
<1>1. dispatches # <<>>
  BY DEF UserRetries, UserResumes, UserPauses, UserCancels, AcquireManually, ReturnFromManual, Acts
<1>2. Latest.retried \in {"none", "user", "safe"}
  <2>1. dispatches[Len(dispatches)] \in Tries
    BY <1>1, Places DEF RetriesInv
  <2> QED
    BY <2>1 DEF Latest, Tries
<1>3. CASE UserRetries
  BY <1>3, ActsKeep DEF UserRetries
<1>4. CASE UserResumes \/ UserPauses \/ UserCancels \/ AcquireManually \/ ReturnFromManual
  <2>1. PICK after : Acts(after, Latest.retried)
    BY <1>4 DEF UserResumes, UserPauses, UserCancels, AcquireManually, ReturnFromManual
  <2> QED
    BY <2>1, <1>2, ActsKeep
<1> QED
  BY <1>3, <1>4

(* The reads of a preflight change no attempt, and what they find is in the logs. *)
LEMMA PreflightKeeps ==
    ASSUME RetriesInv, BeginPreflight \/ ReadLogs \/ LogsUnreadable \/ ResolveRetryRoute
    PROVE  RetriesInv'
<1>1. UNCHANGED <<policy, crew, dispatches>> /\ Latest' = Latest
  BY DEF BeginPreflight, ReadLogs, LogsUnreadable, ResolveRetryRoute, Latest
<1>2. DOMAIN preflight = {"at", "fresh", "route"}
  BY DEF RetriesInv, ModelsTyped
<1>3. DOMAIN preflight' = {"at", "fresh", "route"} /\ PreflightInv'
  <2>1. CASE BeginPreflight
    <3>1. /\ preflight' = [at |-> "logs", fresh |-> TRUE, route |-> NoRoute] /\ ~Latest.touched
          /\ crew = "paused" /\ dispatches # <<>>
      BY <2>1 DEF BeginPreflight, CanRetryModelCall
    <3>2. preflight'.at = "logs" /\ DOMAIN preflight' = {"at", "fresh", "route"}
      BY <3>1
    <3> QED
      BY <3>1, <3>2, <1>1 DEF PreflightInv
  <2>2. CASE ReadLogs
    <3> DEFINE Shown == \A i \in DOMAIN dispatches : InspectModelCallFailure(dispatches[i].log)
    <3>1. /\ preflight.at = "logs"
          /\ preflight' = IF Shown THEN [preflight EXCEPT !.at = "route"] ELSE [preflight EXCEPT !.at = "idle"]
      BY <2>2 DEF ReadLogs
    <3>2. /\ DOMAIN preflight' = {"at", "fresh", "route"} /\ preflight'.fresh = preflight.fresh
          /\ ~Shown => preflight'.at = "idle"
      <4> HIDE DEF Shown
      <4> QED
        BY <3>1, <1>2
    <3>3. Shown => \A i \in 1 .. Len(dispatches) : InspectModelCallFailure(dispatches[i].log)
      BY Places DEF RetriesInv
    <3> HIDE DEF Shown
    <3> QED
      BY <3>1, <3>2, <3>3, <1>1 DEF RetriesInv, PreflightInv, InspectModelCallFailure
  <2>3. CASE LogsUnreadable
    <3>1. preflight'.at = "idle" /\ DOMAIN preflight' = {"at", "fresh", "route"}
      BY <2>3, <1>2 DEF LogsUnreadable
    <3> QED
      BY <3>1 DEF PreflightInv
  <2>4. CASE ResolveRetryRoute
    <3>1. /\ preflight.at = "route"
          /\ \E route \in FreshRoutes : \/ preflight' = [preflight EXCEPT !.at = "idle"]
                                        \/ preflight' = [preflight EXCEPT !.at = "commit", !.route = route]
      BY <2>4 DEF ResolveRetryRoute
    <3>2. DOMAIN preflight' = {"at", "fresh", "route"} /\ preflight'.fresh = preflight.fresh
      BY <3>1, <1>2
    <3> QED
      BY <3>1, <3>2, <1>1 DEF RetriesInv, PreflightInv, InspectModelCallFailure
  <2> QED
    BY <2>1, <2>2, <2>3, <2>4
<1>4. ModelsTyped'
  BY <1>1, <1>3 DEF RetriesInv, ModelsTyped
<1>5. RoutesStayInScope' /\ SafeRetryChangesModel'
  BY <1>1 DEF RetriesInv, RoutesStayInScope, IsProviderAllowed, SafeRetryChangesModel
<1>6. SafeInv'
  BY <1>1 DEF RetriesInv, SafeInv, RoutedAlone, AutomaticTier, InspectModelCallFailure
<1> QED
  BY <1>3, <1>4, <1>5, <1>6 DEF RetriesInv

(* A retry that commits: the cut is the one the preflight read, so that every log shows
   such a failure and the user did not touch the attempt. *)
LEMMA CommitFinds ==
    ASSUME RetriesInv, preflight.at = "commit", preflight.fresh, CanRetryModelCall
    PROVE  /\ dispatches # <<>> /\ ~Latest.touched /\ RoutedAlone
           /\ \A j \in 1 .. Len(dispatches) : dispatches[j].seen /\ InspectModelCallFailure(dispatches[j].log)
<1>1. /\ dispatches # <<>> /\ ~Latest.touched
      /\ \A i \in 1 .. Len(dispatches) : InspectModelCallFailure(dispatches[i].log)
  BY DEF RetriesInv, PreflightInv
<1>2. RoutedAlone /\ \A i \in DOMAIN dispatches : dispatches[i].seen
  BY DEF CanRetryModelCall, RoutedAlone
<1>3. DOMAIN dispatches = 1 .. Len(dispatches)
  BY Places DEF RetriesInv
<1> QED
  BY <1>1, <1>2, <1>3

(* The transaction of a retry keeps the attempts safe, whether it commits or gives way. *)
LEMMA RetryCommitKeeps == ASSUME RetriesInv, CommitSafeRetry PROVE RetriesInv'
<1>1. /\ preflight.at = "commit" /\ UNCHANGED policy /\ preflight' = [preflight EXCEPT !.at = "idle"]
      /\ DOMAIN preflight = {"at", "fresh", "route"}
  BY DEF CommitSafeRetry, RetriesInv, ModelsTyped
<1>2. DOMAIN preflight' = {"at", "fresh", "route"} /\ preflight'.at = "idle"
  BY <1>1
<1>3. PreflightInv'
  BY <1>2 DEF PreflightInv
<1>4. ModelsTyped' /\ RoutesStayInScope' /\ SafeInv' /\ SafeRetryChangesModel'
  <2>1. CASE preflight.fresh /\ CanRetryModelCall
    <3> DEFINE n == Len(dispatches)
               old == dispatches[n]
               t == [old EXCEPT !.retried = "safe"]
    <3>1. /\ dispatches' = [dispatches EXCEPT ![n].retried = "safe"]
      BY <2>1 DEF CommitSafeRetry, SafelyRetried
    <3>2. /\ dispatches # <<>> /\ RoutedAlone
          /\ \A j \in 1 .. n : dispatches[j].seen /\ InspectModelCallFailure(dispatches[j].log)
      BY <1>1, <2>1, CommitFinds
    <3>3. /\ DOMAIN dispatches = 1 .. n /\ n \in 1 .. n /\ old \in Tries /\ Latest = old
          /\ dispatches \in Seq(Tries)
      BY <3>2, Places DEF RetriesInv, ModelsTyped, Latest
    <3>4. t \in Tries /\ t.model = old.model /\ t.seen = old.seen /\ t.log = old.log
      <4> HIDE DEF n, old
      <4> QED
        BY <3>3 DEF Tries
    <3>5. dispatches' = [i \in 1 .. n |-> IF i = n THEN t ELSE dispatches[i]]
      <4>1. dispatches = [i \in 1 .. n |-> dispatches[i]]
        BY <3>3
      <4> HIDE DEF n
      <4> QED
        BY <3>1, <3>3, <4>1
    <3>6. old.seen /\ InspectModelCallFailure(old.log)
      BY <3>2, <3>3
    <3> HIDE DEF t, old
    <3> QED
      BY <1>1, <1>2, <3>2, <3>3, <3>4, <3>5, <3>6, LatestChanges
  <2>2. CASE ~(preflight.fresh /\ CanRetryModelCall)
    <3>1. UNCHANGED <<dispatches, crew>>
      BY <2>2 DEF CommitSafeRetry
    <3>2. ModelsTyped'
      BY <1>1, <1>2, <3>1 DEF RetriesInv, ModelsTyped
    <3>3. RoutesStayInScope' /\ SafeRetryChangesModel'
      BY <3>1 DEF RetriesInv, RoutesStayInScope, IsProviderAllowed, SafeRetryChangesModel
    <3>4. SafeInv'
      BY <1>1, <3>1 DEF RetriesInv, SafeInv, RoutedAlone, AutomaticTier, InspectModelCallFailure
    <3> QED
      BY <3>2, <3>3, <3>4
  <2> QED
    BY <2>1, <2>2
<1> QED
  BY <1>3, <1>4 DEF RetriesInv

(* Every reachable state of the retries satisfies RetriesInv. *)
THEOREM RetriesInvariant == ModelsSpec => []RetriesInv
<1>1. RetriesInv /\ [ModelsNext]_modelVars => RetriesInv'
  <2> SUFFICES ASSUME RetriesInv, [ModelsNext]_modelVars PROVE RetriesInv'
    OBVIOUS
  <2>1. CASE DispatchTry
    BY <2>1, DispatchKeeps
  <2>2. CASE AttemptFails
    BY <2>2, AttemptFailureKeeps
  <2>3. CASE UserRetries \/ UserResumes \/ UserPauses \/ UserCancels \/ AcquireManually \/ ReturnFromManual
    BY <2>3, UserKeeps
  <2>4. CASE BeginPreflight \/ ReadLogs \/ LogsUnreadable \/ ResolveRetryRoute
    BY <2>4, PreflightKeeps
  <2>5. CASE CommitSafeRetry
    BY <2>5, RetryCommitKeeps
  <2>6. CASE UNCHANGED modelVars
    BY <2>6 DEF modelVars, RetriesInv, ModelsTyped, RoutesStayInScope, IsProviderAllowed, SafeInv,
         SafeRetryChangesModel, PreflightInv, Latest, RoutedAlone, AutomaticTier, InspectModelCallFailure
  <2> QED
    BY <2>1, <2>2, <2>3, <2>4, <2>5, <2>6 DEF ModelsNext
<1> QED
  BY RetriesBegin, <1>1, PTL DEF ModelsSpec

(* The only step that retries an attempt by itself finds it untouched. *)
LEMMA UntouchedOnly ==
    ASSUME RetriesInv, [ModelsNext]_modelVars
    PROVE  \A i \in DOMAIN dispatches :
             dispatches[i].retried # "safe" /\ dispatches'[i].retried = "safe" => ~dispatches[i].touched
<1> DEFINE n == Len(dispatches)
<1> SUFFICES ASSUME NEW i \in 1 .. n, dispatches[i].retried # "safe", dispatches'[i].retried = "safe"
             PROVE  ~dispatches[i].touched
  BY Places DEF RetriesInv
<1>1. /\ n \in Nat /\ DOMAIN dispatches = 1 .. n /\ dispatches \in Seq(Tries)
      /\ dispatches[i] \in Tries /\ Latest = dispatches[n] /\ n \in 1 .. n
      /\ dispatches[n] \in Tries
  <2>1. /\ n \in Nat /\ DOMAIN dispatches = 1 .. n /\ dispatches \in Seq(Tries)
        /\ Latest = dispatches[n] /\ \A j \in 1 .. n : dispatches[j] \in Tries
    BY Places DEF RetriesInv, ModelsTyped, Latest
  <2> HIDE DEF n
  <2>2. n \in 1 .. n
    BY <2>1
  <2> QED
    BY <2>1, <2>2
<1>2. ~DispatchTry
  <2> SUFFICES ASSUME DispatchTry PROVE FALSE
    OBVIOUS
  <2>1. PICK r \in FreshRoutes \ {NoRoute} : dispatches' = Append(dispatches, Try(r))
    BY DEF DispatchTry
  <2>2. r \in Models
    BY <2>1, FreshFits DEF RetriesInv
  <2>3. Try(r) \in Tries
    BY <2>2 DEF Try, Tries, AllLogs
  <2>4. dispatches'[i] = dispatches[i]
    BY <2>1, <2>3, <1>1, AppendProperties
  <2> QED
    BY <2>4
<1>3. ~AttemptFails
  <2> SUFFICES ASSUME AttemptFails PROVE FALSE
    OBVIOUS
  <2>1. PICK log \in Logs, output \in BOOLEAN :
          dispatches' = [dispatches EXCEPT ![n].log = log, ![n].seen = ~output]
    BY DEF AttemptFails
  <2> HIDE DEF n
  <2>2. dispatches'[i].retried = dispatches[i].retried
    BY <2>1, <1>1 DEF Tries
  <2> QED
    BY <2>2
<1>4. ~(UserRetries \/ UserResumes \/ UserPauses \/ UserCancels \/ AcquireManually \/ ReturnFromManual)
  <2> SUFFICES ASSUME UserRetries \/ UserResumes \/ UserPauses \/ UserCancels \/ AcquireManually
                        \/ ReturnFromManual
               PROVE  FALSE
    OBVIOUS
  <2>1. PICK after : \E retried \in {"user", Latest.retried} : Acts(after, retried)
    BY DEF UserRetries, UserResumes, UserPauses, UserCancels, AcquireManually, ReturnFromManual
  <2>2. PICK retried \in {"user", Latest.retried} :
          dispatches' = [dispatches EXCEPT ![n].touched = TRUE, ![n].retried = retried]
    BY <2>1 DEF Acts
  <2> HIDE DEF n
  <2>3. CASE i # n
    <3>1. dispatches'[i].retried = dispatches[i].retried
      BY <2>2, <2>3, <1>1 DEF Tries
    <3> QED
      BY <3>1
  <2>4. CASE i = n
    <3>1. dispatches'[i].retried = retried
      BY <2>2, <2>4, <1>1 DEF Tries
    <3> QED
      BY <3>1, <2>1, <2>4, <1>1
  <2> QED
    BY <2>3, <2>4
<1>5. ~(UNCHANGED dispatches)
  OBVIOUS
<1>6. CommitSafeRetry
  BY <1>2, <1>3, <1>4, <1>5 DEF ModelsNext, modelVars, BeginPreflight, ReadLogs, LogsUnreadable,
     ResolveRetryRoute
<1>7. preflight.at = "commit" /\ preflight.fresh /\ CanRetryModelCall
  BY <1>5, <1>6 DEF CommitSafeRetry
<1>8. ~Latest.touched
  BY <1>7, CommitFinds
<1>9. dispatches' = [dispatches EXCEPT ![n].retried = "safe"]
  BY <1>6, <1>7 DEF CommitSafeRetry, SafelyRetried
<1>10. i = n
  <2> HIDE DEF n
  <2>1. i # n => dispatches'[i] = dispatches[i]
    BY <1>1, <1>9
  <2> QED
    BY <2>1
<1> QED
  BY <1>1, <1>8, <1>10

(* A retry that the Team decides by itself repeats no work, runs on another model of the
   user's scope, and gives way to whatever the user did since the attempt. *)
THEOREM RetriesStaySafe == ModelsSpec => RetriesAreSafe
<1> DEFINE AloneUntouched ==
      \A i \in DOMAIN dispatches :
        dispatches[i].retried # "safe" /\ dispatches'[i].retried = "safe" => ~dispatches[i].touched
<1>1. RetriesInv => RoutesStayInScope /\ SafeRetriesLoseNothing /\ SafeRetryChangesModel
  <2> SUFFICES ASSUME RetriesInv PROVE SafeRetriesLoseNothing
    BY DEF RetriesInv
  <2>1. DOMAIN dispatches = 1 .. Len(dispatches)
    BY Places DEF RetriesInv
  <2> QED
    BY <2>1 DEF RetriesInv, SafeInv, SafeRetriesLoseNothing, InspectModelCallFailure
<1>2. RetriesInv /\ [ModelsNext]_modelVars => AloneUntouched
  BY UntouchedOnly
<1>3. ModelsSpec => [](RoutesStayInScope /\ SafeRetriesLoseNothing /\ SafeRetryChangesModel)
  BY RetriesInvariant, <1>1, PTL
<1>4. ModelsSpec => [][AloneUntouched]_modelVars
  BY RetriesInvariant, <1>2, PTL DEF ModelsSpec
<1> QED
  BY <1>3, <1>4 DEF RetriesAreSafe, UserDecisionWins
=============================================================================
