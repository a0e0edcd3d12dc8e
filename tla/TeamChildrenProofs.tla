---- MODULE TeamChildrenProofs ----
(***************************************************************************)
(* Who works on a task.  Commands of several conversations interleave: a   *)
(* human works alone, a child runs under the contract the journal shows,   *)
(* and what is asked for twice is done once.  The children of a batch are  *)
(* kept: each has its timer until it is told to stop, and every batch that *)
(* is admitted fits the token limit.                                       *)
(***************************************************************************)
EXTENDS TeamCommands, TeamChildren, FiniteSetTheorems, SequenceTheorems, WellFoundedInduction, TLAPS

(* Commands that interleave *)

RequestRecords ==
    [kind : AllKinds, task : Tasks, value : Values, id : Ids, by : Conversations,
     at : {"new", "target", "first", "commit", "kill", "dying", "wait", "retry", "revise",
           "resume", "resumeRetry", "resumeCommit", "settle", "done"},
     try : Nat, ran : BOOLEAN, again : BOOLEAN, live : BOOLEAN, left : SUBSET Tasks,
     answer : {"none", "ok", "error"}]
OperationRecords ==
    [id : Ids, step : AllKinds \cup {"main", "resume-retry"}, kind : AllKinds, task : Tasks,
     value : Values]

TeamTyped == team \in {"running", "pausing", "paused", "cancelling", "cancelled", "completed"}
TaskTyped == task \in [Tasks -> {"ready", "running", "completed", "failed", "cancelled"}]
RunTyped == run \in [Tasks -> [on : BOOLEAN, told : BOOLEAN, with : [Aspects -> Values]]]

(* The inductive invariant, in three parts: a child runs for the task that is shown running and
   under the contract shown; a human works alone; an operation is recorded once. *)
ChildrenInv ==
    /\ TaskTyped /\ RunTyped /\ contract \in [Tasks -> [Aspects -> Values]]
    /\ \A t \in Tasks : /\ run[t].on => task[t] = "running"
                        /\ run[t].on => run[t].with = contract[t]
HumanInv == TeamTyped /\ HumanWorksAlone
RecordInv ==
    /\ ops \in Seq(OperationRecords)
    /\ \A i, j \in DOMAIN ops :
          SameOperation(ops[i], ops[j].id, ops[j].step, ops[j].task) => i = j
RestInv == tries \in [Tasks -> Nat] /\ holder \in Conversations

CommandsInv ==
    request \in [Requests -> RequestRecords] /\ ChildrenInv /\ HumanInv /\ RecordInv /\ RestInv

(* The request before it is sent is one of the requests. *)
LEMMA BlankTyped ==
    /\ Blank \in RequestRecords /\ Blank.task \in Tasks /\ Blank.by \in Conversations
    /\ Blank.at = "new" /\ First \in Values /\ "pause" \in AllKinds
<1>1. /\ (CHOOSE t \in Tasks : TRUE) \in Tasks /\ (CHOOSE i \in Ids : TRUE) \in Ids
      /\ (CHOOSE c \in Conversations : TRUE) \in Conversations /\ First \in Values
  BY CommandsAssumption
<1> QED
  BY <1>1 DEF Blank, RequestRecords, AllKinds

(* What is neither replayed nor in conflict is new to the journal. *)
LEMMA RecordedOnce ==
    ASSUME RecordInv, NEW id \in Ids, NEW step \in AllKinds \cup {"main", "resume-retry"},
           NEW k \in AllKinds, NEW t \in Tasks, NEW v \in Values,
           ~Replayed(id, step, k, t, v), ~Conflicts(id, step, k, t, v),
           ops' = Append(ops, Entry(id, step, k, t, v))
    PROVE  RecordInv'
<1> DEFINE e == Entry(id, step, k, t, v)
<1>1. Entries(id, step, t) = {}
  BY DEF Replayed, Conflicts
<1>2. \A i \in DOMAIN ops : ~SameOperation(ops[i], id, step, t)
  BY <1>1 DEF Entries
<1>3. e \in OperationRecords /\ e.id = id /\ e.step = step /\ e.task = t
  BY DEF Entry, OperationRecords
<1>4. /\ ops \in Seq(OperationRecords) /\ Len(ops) \in Nat /\ DOMAIN ops = 1..Len(ops)
      /\ \A i, j \in 1..Len(ops) :
            SameOperation(ops[i], ops[j].id, ops[j].step, ops[j].task) => i = j
  BY DEF RecordInv
<1> HIDE DEF e
<1>5. /\ ops' \in Seq(OperationRecords) /\ DOMAIN ops' = 1..(Len(ops) + 1)
      /\ \A i \in 1..Len(ops) : ops'[i] = ops[i]
      /\ ops'[Len(ops) + 1] = e
  BY <1>3, <1>4 DEF e
<1>6. \A i \in 1..Len(ops) : /\ ~SameOperation(ops[i], e.id, e.step, e.task)
                             /\ ~SameOperation(e, ops[i].id, ops[i].step, ops[i].task)
  BY <1>2, <1>3, <1>4 DEF SameOperation
<1>7. \A i, j \in 1..(Len(ops) + 1) :
         SameOperation(ops'[i], ops'[j].id, ops'[j].step, ops'[j].task) => i = j
  <2> SUFFICES ASSUME NEW i \in 1..(Len(ops) + 1), NEW j \in 1..(Len(ops) + 1), i # j,
                      SameOperation(ops'[i], ops'[j].id, ops'[j].step, ops'[j].task)
               PROVE  FALSE
    OBVIOUS
  <2>1. \/ i \in 1..Len(ops) /\ j \in 1..Len(ops)
        \/ i \in 1..Len(ops) /\ j = Len(ops) + 1
        \/ i = Len(ops) + 1 /\ j \in 1..Len(ops)
    BY <1>4
  <2> QED
    BY <1>4, <1>5, <1>6, <2>1
<1> QED
  BY <1>5, <1>7 DEF RecordInv

(* A request moves within its records. *)
LEMMA Typed ==
    ASSUME request \in [Requests -> RequestRecords], NEW r \in Requests
    PROVE  /\ request[r] \in RequestRecords
           /\ \A a \in {"ok", "error"} : Answers(r, a) \in [Requests -> RequestRecords]
           /\ \A at \in {"first", "commit", "kill", "dying", "wait", "retry", "revise",
                         "resume", "resumeCommit", "settle"} :
                 Moves(r, at) \in [Requests -> RequestRecords]
<1>1. request[r] \in RequestRecords
  OBVIOUS
<1>2. ASSUME NEW a \in {"ok", "error"} PROVE Answers(r, a) \in [Requests -> RequestRecords]
  <2>1. [request[r] EXCEPT !.at = "done", !.answer = a, !.left = {}, !.try = 0, !.ran = FALSE,
                           !.again = FALSE, !.live = FALSE] \in RequestRecords
    BY <1>1, <1>2 DEF RequestRecords
  <2> QED
    BY <2>1 DEF Answers
<1>3. ASSUME NEW at \in {"first", "commit", "kill", "dying", "wait", "retry", "revise",
                         "resume", "resumeCommit", "settle"}
      PROVE  Moves(r, at) \in [Requests -> RequestRecords]
  <2>1. [request[r] EXCEPT !.at = at] \in RequestRecords
    BY <1>1, <1>3 DEF RequestRecords
  <2> QED
    BY <2>1 DEF Moves
<1> QED
  BY <1>1, <1>2, <1>3

(* A control keeps a human alone: it is refused while he works, or finds no child to wait for. *)
LEMMA ControlKeeps ==
    ASSUME CommandsInv, NEW k \in TeamWide, NEW id \in Ids,
           NEW step \in AllKinds \cup {"main", "resume-retry"},
           Controls(k, id, step), Control(k, id, step), UNCHANGED <<contract, owner>>
    PROVE  ChildrenInv' /\ HumanInv' /\ RecordInv'
<1>1. CASE Replayed(id, step, k, Blank.task, First)
  <2>1. UNCHANGED <<team, task, ops, run, contract, owner>>
    BY <1>1 DEF Control
  <2> QED
    BY <2>1 DEF CommandsInv, ChildrenInv, HumanInv, RecordInv, TaskTyped, RunTyped, TeamTyped,
                HumanWorksAlone, Human, Active
<1>2. CASE ~Replayed(id, step, k, Blank.task, First)
  <2>1. /\ ops' = Append(ops, Entry(id, step, k, Blank.task, First))
        /\ team' = ControlStatus(k)
        /\ task' = IF k = "cancel"
                   THEN [t \in Tasks |-> IF task[t] = "ready" THEN "cancelled" ELSE task[t]]
                   ELSE task
        /\ run' = IF k = "cancel" THEN [t \in Tasks |-> [run[t] EXCEPT !.told = run[t].on]]
                  ELSE run
        /\ StatusAllows(k) /\ ~Conflicts(id, step, k, Blank.task, First)
    BY <1>2 DEF Control, Controls
  <2>2. k \in AllKinds /\ k \in {"pause", "resume", "cancel"}
    BY DEF TeamWide, AllKinds
  <2>3. RecordInv'
    BY <1>2, <2>1, <2>2, BlankTyped, RecordedOnce DEF CommandsInv
  <2>4. /\ task' \in [Tasks -> {"ready", "running", "completed", "failed", "cancelled"}]
        /\ \A t \in Tasks : task[t] = "running" => task'[t] = "running"
    BY <2>1 DEF CommandsInv, ChildrenInv, TaskTyped
  <2>5. RunTyped' /\ \A t \in Tasks : run'[t].on = run[t].on /\ run'[t].with = run[t].with
    BY <2>1 DEF CommandsInv, ChildrenInv, RunTyped
  <2>6. ChildrenInv'
    BY <2>4, <2>5 DEF CommandsInv, ChildrenInv, TaskTyped
  <2>7. TeamTyped'
    BY <2>1, <2>2 DEF ControlStatus, TeamTyped
  <2>8. HumanWorksAlone'
    <3> SUFFICES ASSUME Human' PROVE ~Active' /\ team' \in {"paused", "cancelled"}
      BY DEF HumanWorksAlone
    <3>1. Human /\ ~Active /\ team \in {"paused", "cancelled"}
      BY DEF CommandsInv, HumanInv, HumanWorksAlone, Human
    <3>2. ~Active'
      BY <2>5, <3>1 DEF Active
    <3>3. k = "cancel"
      BY <2>1, <2>2, <3>1 DEF StatusAllows
    <3> QED
      BY <2>1, <3>1, <3>2, <3>3 DEF ControlStatus
  <2> QED
    BY <2>3, <2>6, <2>7, <2>8 DEF HumanInv
<1> QED
  BY <1>1, <1>2

(* A retry reopens a task no child runs for. *)
LEMMA RetryKeeps ==
    ASSUME CommandsInv, NEW t \in Tasks, NEW id \in Ids,
           NEW step \in AllKinds \cup {"main", "resume-retry"},
           Retries(t, id, step), Retry(t, id, step), UNCHANGED <<team, contract, run, owner>>
    PROVE  ChildrenInv' /\ HumanInv' /\ RecordInv'
<1>1. HumanInv'
  BY DEF CommandsInv, HumanInv, TeamTyped, HumanWorksAlone, Human, Active
<1>2. CASE Replayed(id, step, "retry", t, First)
  <2>1. UNCHANGED <<task, ops, run, contract>>
    BY <1>2 DEF Retry
  <2> QED
    BY <1>1, <2>1 DEF CommandsInv, ChildrenInv, RecordInv, TaskTyped, RunTyped
<1>3. CASE ~Replayed(id, step, "retry", t, First)
  <2>1. /\ task' = [task EXCEPT ![t] = "ready"]
        /\ ops' = Append(ops, Entry(id, step, "retry", t, First))
        /\ ~Conflicts(id, step, "retry", t, First) /\ task[t] \in {"failed", "cancelled"}
    BY <1>3 DEF Retry, Retries
  <2>2. RecordInv'
    <3>1. "retry" \in AllKinds
      BY DEF AllKinds
    <3> QED
      BY <1>3, <2>1, <3>1, BlankTyped, RecordedOnce DEF CommandsInv
  <2>3. ChildrenInv'
    BY <2>1 DEF CommandsInv, ChildrenInv, TaskTyped, RunTyped
  <2> QED
    BY <1>1, <2>2, <2>3
<1> QED
  BY <1>2, <1>3

(* Steps that only move their request, or who holds the Team. *)
Waits == UNCHANGED <<team, task, contract, run, tries, ops, owner>>

(* A step that only moves requests on keeps what is shown, who works and what is recorded. *)
LEMMA WaitingKeeps ==
    ASSUME CommandsInv, Waits
    PROVE  ChildrenInv' /\ HumanInv' /\ RecordInv'
BY DEF Waits, CommandsInv, ChildrenInv, HumanInv, RecordInv, TaskTyped, RunTyped, TeamTyped,
       HumanWorksAlone, Human, Active

(* Where the steps of a command are recorded. *)
LEMMA StepTyped ==
    ASSUME NEW r \in Requests, NEW s \in AllKinds
    PROVE  Step(r, s) \in AllKinds \cup {"main", "resume-retry"}
BY DEF Step

(* No step of a command breaks the invariant, whatever the other commands did since it read. *)
LEMMA CommandKeeps ==
    ASSUME CommandsInv, NEW r \in Requests,
           \/ \E k \in Kinds, t \in Tasks, v \in Values, i \in Ids, c \in Conversations :
                Send(r, k, t, v, i, c)
           \/ Target(r) \/ Attach(r) \/ ControlCommand(r) \/ RetryCommand(r)
           \/ ResumeRead(r) \/ \E t \in Tasks : ResumeRetry(r, t)
           \/ ResumeCommit(r) \/ ResumeSettle(r) \/ StopRead(r) \/ StopCommit(r)
           \/ ChangeRead(r) \/ ChangePause(r) \/ Kill(r) \/ Dead(r) \/ Paused(r)
           \/ ChangeRetry(r) \/ Revise(r) \/ Scope(r) \/ Acquire(r) \/ Return(r) \/ Throws(r)
    PROVE  CommandsInv'
<1> DEFINE c == request[r]
           NewRequest == request' \in [Requests -> RequestRecords]
           Kept == ChildrenInv' /\ HumanInv' /\ RecordInv'
<1>1. /\ request \in [Requests -> RequestRecords] /\ RestInv
      /\ c \in RequestRecords /\ c.id \in Ids /\ c.task \in Tasks /\ c.value \in Values
      /\ c.kind \in AllKinds /\ c.by \in Conversations /\ c.left \in SUBSET Tasks
      /\ First \in Values /\ Blank.task \in Tasks
  BY BlankTyped DEF CommandsInv, RequestRecords
<1>2. /\ \A a \in {"ok", "error"} : Answers(r, a) \in [Requests -> RequestRecords]
      /\ \A at \in {"first", "commit", "kill", "dying", "wait", "retry", "revise",
                    "resume", "resumeCommit", "settle"} :
            Moves(r, at) \in [Requests -> RequestRecords]
  BY <1>1, Typed
<1> HIDE DEF c
<1>3. ASSUME NewRequest, Kept, tries' = tries, holder' \in Conversations PROVE CommandsInv'
  BY <1>1, <1>3 DEF CommandsInv, RestInv
<1>4. ASSUME NEW k \in Kinds, NEW t \in Tasks, NEW v \in Values, NEW i \in Ids,
             NEW h \in Conversations, Send(r, k, t, v, i, h)
      PROVE  CommandsInv'
  <2>1. NewRequest
    <3>1. [request[r] EXCEPT !.kind = k, !.task = t, !.value = v, !.id = i, !.by = h,
                             !.at = "target"] \in RequestRecords
      BY <1>1, CommandsAssumption DEF RequestRecords, c
    <3> QED
      BY <1>1, <1>4, <3>1 DEF Send
  <2>2. Waits /\ holder' = holder
    BY <1>4 DEF Send, Waits
  <2> QED
    BY <1>1, <1>3, <2>1, <2>2, WaitingKeeps DEF RestInv, Waits
<1>5. CASE Target(r) \/ Dead(r) \/ Paused(r) \/ Throws(r)
  <2>1. NewRequest
    BY <1>2, <1>5 DEF Target, Dead, Paused, Throws
  <2>2. Waits /\ holder' = holder
    BY <1>5 DEF Target, Dead, Paused, Throws, Waits
  <2> QED
    BY <1>1, <1>3, <2>1, <2>2, WaitingKeeps DEF RestInv, Waits
<1>6. CASE ResumeRead(r) \/ StopRead(r) \/ ChangeRead(r)
  <2>1. ASSUME ResumeRead(r) PROVE NewRequest
    <3> DEFINE new == [request EXCEPT ![r].at = "resumeRetry",
                                      ![r].left = {t \in Tasks : task[t] = "cancelled"}]
    <3>1. [c EXCEPT !.at = "resumeRetry", !.left = {t \in Tasks : task[t] = "cancelled"}]
             \in RequestRecords
      BY <1>1 DEF RequestRecords
    <3>2. new \in [Requests -> RequestRecords]
      BY <1>1, <3>1 DEF c
    <3>3. request' \in {Answers(r, "ok"), Answers(r, "error"), Moves(r, "resumeCommit"), new}
      BY <2>1 DEF ResumeRead
    <3> HIDE DEF new
    <3> QED
      BY <1>2, <3>2, <3>3
  <2>2. ASSUME StopRead(r) PROVE NewRequest
    <3> DEFINE new(at) == [request EXCEPT ![r].at = at, ![r].try = tries[c.task]]
    <3>1. ASSUME NEW at \in {"kill", "commit"}
          PROVE  new(at) \in [Requests -> RequestRecords]
      <4>1. [c EXCEPT !.at = at, !.try = tries[c.task]] \in RequestRecords
        BY <1>1, <3>1 DEF RequestRecords, RestInv
      <4> QED
        BY <1>1, <4>1 DEF c
    <3>2. request' \in {Answers(r, "ok"), Answers(r, "error"),
                        new("kill"), new("commit")}
      BY <2>2 DEF StopRead, c
    <3> HIDE DEF new
    <3> QED
      BY <1>2, <3>1, <3>2
  <2>3. ASSUME ChangeRead(r) PROVE NewRequest
    <3> DEFINE new(at, again, ran, live) ==
                 [request EXCEPT ![r].at = at, ![r].try = tries[c.task], ![r].again = again,
                                 ![r].ran = ran, ![r].live = live]
    <3>1. ASSUME NEW at \in {"commit", "retry", "revise"}, NEW again \in BOOLEAN,
                 NEW ran \in BOOLEAN, NEW live \in BOOLEAN
          PROVE  new(at, again, ran, live) \in [Requests -> RequestRecords]
      <4>1. [c EXCEPT !.at = at, !.try = tries[c.task], !.again = again, !.ran = ran, !.live = live]
               \in RequestRecords
        BY <1>1, <3>1, ZenonT(40) DEF RequestRecords, RestInv
      <4> QED
        BY <1>1, <4>1 DEF c
    <3> DEFINE anew == task[c.task] \in {"running", "failed", "cancelled"}
               runs == task[c.task] = "running"
               lives == team = "running"
    <3>2. PICK at \in {"commit", "retry", "revise"} : request' = new(at, anew, runs, lives)
      BY <2>3, Zenon DEF ChangeRead, c
    <3>3. anew \in BOOLEAN /\ runs \in BOOLEAN /\ lives \in BOOLEAN
      OBVIOUS
    <3> HIDE DEF new, anew, runs, lives
    <3> QED
      BY <3>1, <3>2, <3>3
  <2>4. Waits /\ holder' = holder
    BY <1>6, Zenon DEF ResumeRead, StopRead, ChangeRead, Waits
  <2> QED
    BY <1>1, <1>3, <1>6, <2>1, <2>2, <2>3, <2>4, WaitingKeeps DEF RestInv, Waits
<1>7. CASE Attach(r)
  <2>1. NewRequest /\ holder' \in Conversations /\ UNCHANGED <<team, task, contract, run, tries, owner>>
    BY <1>1, <1>2, <1>7 DEF Attach, c, RestInv
  <2>2. RecordInv'
    <3>1. CASE Replayed(c.id, "main", "attach", Blank.task, First)
      <4>1. Waits
        BY <1>7, <3>1 DEF Attach, Waits, c
      <4> QED
        BY <4>1, WaitingKeeps
    <3>2. CASE ~Replayed(c.id, "main", "attach", Blank.task, First)
      <4>1. /\ ops' = Append(ops, Entry(c.id, "main", "attach", Blank.task, First))
            /\ ~Conflicts(c.id, "main", "attach", Blank.task, First) /\ "attach" \in AllKinds
        BY <1>7, <3>2 DEF Attach, c, AllKinds
      <4> QED
        BY <1>1, <3>2, <4>1, RecordedOnce DEF CommandsInv
    <3> QED
      BY <3>1, <3>2
  <2>3. ChildrenInv' /\ HumanInv'
    BY <2>1 DEF CommandsInv, ChildrenInv, HumanInv, TaskTyped, RunTyped, TeamTyped,
                HumanWorksAlone, Human, Active
  <2> QED
    BY <1>3, <2>1, <2>2, <2>3
<1>8. CASE ControlCommand(r) \/ ChangePause(r) \/ ResumeCommit(r)
  <2>1. PICK k \in TeamWide, step \in AllKinds \cup {"main", "resume-retry"} :
           Controls(k, c.id, step) /\ Control(k, c.id, step)
    <3>1. CASE ControlCommand(r)
      BY <1>1, <3>1 DEF ControlCommand, At, TeamWide, c
    <3>2. CASE ChangePause(r)
      BY <1>1, <3>2 DEF ChangePause, TeamWide, AllKinds, c
    <3>3. CASE ResumeCommit(r)
      <4>1. "resume" \in TeamWide /\ Step(r, "resume") \in AllKinds \cup {"main", "resume-retry"}
        BY StepTyped DEF TeamWide, AllKinds
      <4> QED
        BY <3>3, <4>1 DEF ResumeCommit, c
    <3> QED
      BY <1>8, <3>1, <3>2, <3>3
  <2>2. UNCHANGED <<contract, tries, owner, holder>>
    BY <1>8 DEF ControlCommand, ChangePause, ResumeCommit
  <2>3. NewRequest
    BY <1>2, <1>8 DEF ControlCommand, ChangePause, ResumeCommit, Resumed
  <2>4. Kept
    BY <1>1, <2>1, <2>2, ControlKeeps
  <2> QED
    BY <1>1, <1>3, <2>2, <2>3, <2>4 DEF RestInv
<1>9. CASE RetryCommand(r) \/ ChangeRetry(r)
  <2>1. PICK step \in AllKinds \cup {"main", "resume-retry"} :
           Retries(c.task, c.id, step) /\ Retry(c.task, c.id, step)
    BY <1>9 DEF RetryCommand, ChangeRetry, AllKinds, c
  <2>2. UNCHANGED <<team, contract, run, tries, owner, holder>>
    BY <1>9 DEF RetryCommand, ChangeRetry
  <2>3. NewRequest
    BY <1>2, <1>9 DEF RetryCommand, ChangeRetry
  <2>4. Kept
    BY <1>1, <2>1, <2>2, RetryKeeps
  <2> QED
    BY <1>1, <1>3, <2>2, <2>3, <2>4 DEF RestInv
<1>10. ASSUME NEW t \in Tasks, ResumeRetry(r, t) PROVE CommandsInv'
  <2>1. /\ Retries(t, c.id, "resume-retry") /\ Retry(t, c.id, "resume-retry")
        /\ UNCHANGED <<team, contract, run, tries, owner, holder>>
    BY <1>10 DEF ResumeRetry, c
  <2>2. ASSUME NEW left \in SUBSET Tasks, NEW at \in {"resumeCommit", "resumeRetry"}
        PROVE  [request EXCEPT ![r].left = left, ![r].at = at] \in [Requests -> RequestRecords]
    <3>1. [c EXCEPT !.left = left, !.at = at] \in RequestRecords
      BY <1>1, <2>2 DEF RequestRecords
    <3> QED
      BY <1>1, <3>1 DEF c
  <2>3. {u \in c.left \ {t} : task'[u] = "cancelled"} \in SUBSET Tasks
    BY <1>1
  <2>4. NewRequest
    BY <1>10, <2>2, <2>3 DEF ResumeRetry, c
  <2>5. Kept
    BY <1>1, <2>1, RetryKeeps
  <2> QED
    BY <1>1, <1>3, <2>1, <2>4, <2>5 DEF RestInv
<1>11. CASE ResumeSettle(r)
  <2>1. NewRequest /\ UNCHANGED <<task, contract, run, tries, ops, owner, holder>>
    BY <1>2, <1>11 DEF ResumeSettle, Resumed
  <2>2. HumanInv'
    BY <1>11 DEF ResumeSettle, CommandsInv, HumanInv, TeamTyped, HumanWorksAlone, Human, Active,
                 Quiesced
  <2>3. ChildrenInv' /\ RecordInv'
    BY <2>1 DEF CommandsInv, ChildrenInv, RecordInv, TaskTyped, RunTyped
  <2> QED
    BY <1>1, <1>3, <2>1, <2>2, <2>3 DEF RestInv
<1>12. CASE StopCommit(r)
  <2>1. NewRequest /\ UNCHANGED <<team, task, contract, run, tries, owner, holder>>
    BY <1>2, <1>12 DEF StopCommit
  <2>2. RecordInv'
    <3>1. CASE ops' = ops
      BY <3>1 DEF CommandsInv, RecordInv
    <3>2. CASE ops' # ops
      <4>1. /\ ops' = Append(ops, Entry(c.id, "main", "stop", c.task, First))
            /\ ~Replayed(c.id, "main", "stop", c.task, First)
            /\ ~Conflicts(c.id, "main", "stop", c.task, First) /\ "stop" \in AllKinds
        BY <1>12, <3>2 DEF StopCommit, Stops, c, AllKinds
      <4> QED
        BY <1>1, <4>1, RecordedOnce DEF CommandsInv
    <3> QED
      BY <3>1, <3>2
  <2>3. ChildrenInv' /\ HumanInv'
    BY <2>1 DEF CommandsInv, ChildrenInv, HumanInv, TaskTyped, RunTyped, TeamTyped,
                HumanWorksAlone, Human, Active
  <2> QED
    BY <1>1, <1>3, <2>1, <2>2, <2>3 DEF RestInv
<1>13. CASE Kill(r)
  <2>1. NewRequest /\ UNCHANGED <<team, task, contract, tries, ops, owner, holder>>
    BY <1>2, <1>13 DEF Kill
  <2>2. RunTyped' /\ \A t \in Tasks : run'[t].on = run[t].on /\ run'[t].with = run[t].with
    <3>1. CASE run' = run
      BY <3>1 DEF CommandsInv, ChildrenInv, RunTyped
    <3>2. CASE run' = [run EXCEPT ![c.task].told = TRUE]
      <4>1. [run[c.task] EXCEPT !.told = TRUE] \in [on : BOOLEAN, told : BOOLEAN, with : [Aspects -> Values]]
        BY <1>1 DEF CommandsInv, ChildrenInv, RunTyped
      <4> QED
        BY <1>1, <3>2, <4>1 DEF CommandsInv, ChildrenInv, RunTyped
    <3> QED
      BY <1>13, <3>1, <3>2 DEF Kill, c
  <2>3. Kept
    BY <2>1, <2>2 DEF CommandsInv, ChildrenInv, HumanInv, RecordInv, TaskTyped, TeamTyped,
                      HumanWorksAlone, Human, Active
  <2> QED
    BY <1>1, <1>3, <2>1, <2>3 DEF RestInv
<1>14. CASE Revise(r)
  <2>1. NewRequest /\ UNCHANGED <<team, task, run, tries, ops, owner, holder>>
    BY <1>2, <1>14 DEF Revise
  <2>2. /\ contract' = [contract EXCEPT ![c.task][c.kind] = c.value] /\ c.kind \in Aspects
        /\ task[c.task] = "ready"
    BY <1>14 DEF Revise, Revisable, At, Revising, Aspects, c
  <2>3. contract' \in [Tasks -> [Aspects -> Values]]
        /\ \A t \in Tasks \ {c.task} : contract'[t] = contract[t]
    BY <1>1, <2>2 DEF CommandsInv, ChildrenInv
  <2>4. Kept
    BY <2>1, <2>2, <2>3 DEF CommandsInv, ChildrenInv, HumanInv, RecordInv, TaskTyped, RunTyped,
                            TeamTyped, HumanWorksAlone, Human, Active
  <2> QED
    BY <1>1, <1>3, <2>1, <2>4 DEF RestInv
<1>15. CASE Scope(r)
  <2>1. NewRequest /\ UNCHANGED <<team, run, tries, owner, holder>>
    BY <1>2, <1>15 DEF Scope
  <2>2. CASE Replayed(c.id, "main", "scope", c.task, c.value)
    <3>1. Waits
      BY <1>15, <2>2 DEF Scope, Waits, c
    <3> QED
      BY <1>1, <1>3, <2>1, <3>1, WaitingKeeps DEF RestInv
  <2>3. CASE ~Replayed(c.id, "main", "scope", c.task, c.value)
    <3>1. /\ ops' = Append(ops, Entry(c.id, "main", "scope", c.task, c.value))
          /\ ~Conflicts(c.id, "main", "scope", c.task, c.value) /\ "scope" \in AllKinds
          /\ task' = [task EXCEPT ![c.task] = "ready"] /\ ~Active
          /\ contract' = [contract EXCEPT ![c.task]["scope"] = c.value] /\ "scope" \in Aspects
      BY <1>15, <2>3 DEF Scope, Takeover, AllKinds, Aspects, c
    <3>2. RecordInv'
      BY <1>1, <2>3, <3>1, RecordedOnce DEF CommandsInv
    <3>3. ChildrenInv'
      BY <1>1, <2>1, <3>1 DEF CommandsInv, ChildrenInv, TaskTyped, RunTyped, Active
    <3>4. HumanInv'
      BY <2>1 DEF CommandsInv, HumanInv, TeamTyped, HumanWorksAlone, Human, Active
    <3> QED
      BY <1>1, <1>3, <2>1, <3>2, <3>3, <3>4 DEF RestInv
  <2> QED
    BY <2>2, <2>3
<1>16. CASE Acquire(r)
  <2>1. NewRequest /\ UNCHANGED <<team, task, contract, run, tries, holder>>
    BY <1>2, <1>16 DEF Acquire
  <2>2. CASE Replayed(c.id, "main", "acquire", c.task, First)
    <3>1. Waits
      BY <1>16, <2>2 DEF Acquire, Waits, c
    <3> QED
      BY <1>1, <1>3, <2>1, <3>1, WaitingKeeps DEF RestInv
  <2>3. CASE ~Replayed(c.id, "main", "acquire", c.task, First)
    <3>1. /\ ops' = Append(ops, Entry(c.id, "main", "acquire", c.task, First))
          /\ ~Conflicts(c.id, "main", "acquire", c.task, First) /\ "acquire" \in AllKinds
          /\ ~Active /\ team = "paused"
      BY <1>16, <2>3 DEF Acquire, Takeover, AllKinds, c
    <3>2. RecordInv'
      BY <1>1, <2>3, <3>1, RecordedOnce DEF CommandsInv
    <3>3. ChildrenInv' /\ HumanInv'
      BY <2>1, <3>1 DEF CommandsInv, ChildrenInv, HumanInv, TaskTyped, RunTyped, TeamTyped,
                        HumanWorksAlone, Human, Active
    <3> QED
      BY <1>1, <1>3, <2>1, <3>2, <3>3 DEF RestInv
  <2> QED
    BY <2>2, <2>3
<1>17. CASE Return(r)
  <2>1. NewRequest /\ UNCHANGED <<team, task, contract, run, tries, holder>>
    BY <1>2, <1>17 DEF Return
  <2>2. CASE Replayed(c.id, "main", "return", c.task, First)
    <3>1. Waits
      BY <1>17, <2>2 DEF Return, Waits, c
    <3> QED
      BY <1>1, <1>3, <2>1, <3>1, WaitingKeeps DEF RestInv
  <2>3. CASE ~Replayed(c.id, "main", "return", c.task, First)
    <3>1. /\ ops' = Append(ops, Entry(c.id, "main", "return", c.task, First))
          /\ ~Conflicts(c.id, "main", "return", c.task, First) /\ "return" \in AllKinds
          /\ owner' = None
      BY <1>17, <2>3 DEF Return, AllKinds, c
    <3>2. RecordInv'
      BY <1>1, <2>3, <3>1, RecordedOnce DEF CommandsInv
    <3>3. ChildrenInv' /\ HumanInv'
      BY <2>1, <3>1 DEF CommandsInv, ChildrenInv, HumanInv, TaskTyped, RunTyped, TeamTyped,
                        HumanWorksAlone, Human
    <3> QED
      BY <1>1, <1>3, <2>1, <3>2, <3>3 DEF RestInv
  <2> QED
    BY <2>2, <2>3
<1> QED
  BY <1>4, <1>5, <1>6, <1>7, <1>8, <1>9, <1>10, <1>11, <1>12, <1>13, <1>14, <1>15, <1>16, <1>17

(* A child is only started while nobody but the Team works, and under what the journal shows. *)
LEMMA DispatchKeeps ==
    ASSUME CommandsInv, NEW t \in Tasks, Dispatch(t)
    PROVE  CommandsInv'
<1>1. RunTyped' /\ \A u \in Tasks \ {t} : run'[u] = run[u]
  BY DEF Dispatch, CommandsInv, ChildrenInv, RunTyped
<1>2. run'[t].with = contract[t] /\ TaskTyped' /\ \A u \in Tasks \ {t} : task'[u] = task[u]
  BY DEF Dispatch, CommandsInv, ChildrenInv, RunTyped, TaskTyped
<1>3. task'[t] = "running"
  BY DEF Dispatch, CommandsInv, ChildrenInv, TaskTyped
<1>4. ChildrenInv'
  BY <1>1, <1>2, <1>3 DEF Dispatch, CommandsInv, ChildrenInv
<1>5. HumanInv'
  BY DEF Dispatch, CommandsInv, HumanInv, TeamTyped, HumanWorksAlone, Human
<1>6. RecordInv' /\ RestInv' /\ request' \in [Requests -> RequestRecords]
  BY DEF Dispatch, CommandsInv, RecordInv, RestInv
<1> QED
  BY <1>4, <1>5, <1>6 DEF CommandsInv

(* The end of a child is shown for the task it ran for, and for no other. *)
LEMMA EndKeeps ==
    ASSUME CommandsInv, NEW t \in Tasks, NEW end \in {"completed", "failed", "cancelled"},
           ChildEnds(t, end)
    PROVE  CommandsInv'
<1>1. Idle \in [on : BOOLEAN, told : BOOLEAN, with : [Aspects -> Values]] /\ ~Idle.on
  BY CommandsAssumption DEF Idle
<1>2. /\ RunTyped' /\ TaskTyped'
      /\ \A u \in Tasks \ {t} : run'[u] = run[u] /\ task'[u] = task[u]
      /\ ~run'[t].on
  BY <1>1 DEF ChildEnds, CommandsInv, ChildrenInv, RunTyped, TaskTyped
<1>3. ChildrenInv'
  BY <1>2 DEF ChildEnds, CommandsInv, ChildrenInv
<1>4. ~Human /\ owner' = owner
  BY DEF ChildEnds, CommandsInv, HumanInv, HumanWorksAlone, Active
<1>5. HumanInv'
  BY <1>4 DEF ChildEnds, CommandsInv, HumanInv, TeamTyped, HumanWorksAlone, Human, Quiesced
<1>6. RecordInv' /\ RestInv' /\ request' \in [Requests -> RequestRecords]
  BY DEF ChildEnds, CommandsInv, RecordInv, RestInv
<1> QED
  BY <1>3, <1>5, <1>6 DEF CommandsInv

(* The inductive invariant of the commands: every record has its shape, a child runs for the task
   and under the contract that is shown, and no operation is recorded twice. *)
THEOREM CommandsInvariant == CommandsSpec => []CommandsInv
<1>1. CommandsInit => CommandsInv
  <2> SUFFICES ASSUME CommandsInit PROVE CommandsInv
    OBVIOUS
  <2>1. request \in [Requests -> RequestRecords] /\ RestInv
    BY BlankTyped DEF CommandsInit, RestInv
  <2>2. ChildrenInv
    BY BlankTyped DEF CommandsInit, ChildrenInv, TaskTyped, RunTyped, Idle
  <2>3. HumanInv
    BY DEF CommandsInit, HumanInv, TeamTyped, HumanWorksAlone, Human
  <2>4. RecordInv
    BY DEF CommandsInit, RecordInv
  <2> QED
    BY <2>1, <2>2, <2>3, <2>4 DEF CommandsInv
<1>2. CommandsInv /\ [CommandsNext]_commandsVars => CommandsInv'
  <2> SUFFICES ASSUME CommandsInv, [CommandsNext]_commandsVars PROVE CommandsInv'
    OBVIOUS
  <2>1. CASE UNCHANGED commandsVars
    <3>1. Waits /\ request' = request /\ holder' = holder
      BY <2>1 DEF commandsVars, Waits
    <3> QED
      BY <3>1, WaitingKeeps DEF CommandsInv, RestInv, Waits
  <2>2. CASE CommandsNext
    BY <2>2, CommandKeeps, DispatchKeeps, EndKeeps DEF CommandsNext
  <2> QED
    BY <2>1, <2>2
<1> QED
  BY <1>1, <1>2, PTL DEF CommandsSpec

(* CommandsHold: a human works alone, a child under the contract the journal shows, and what is
   asked for twice is done once. *)
THEOREM CommandsStayTrue == CommandsSpec => []CommandsHold
<1>1. CommandsInv => CommandsHold
  <2> SUFFICES ASSUME CommandsInv PROVE CommandsHold
    OBVIOUS
  <2>1. CommandsTypeOK
    BY DEF CommandsInv, CommandsTypeOK, RequestRecords, ChildrenInv, HumanInv, TaskTyped,
           RunTyped, TeamTyped, RestInv
  <2>2. HumanWorksAlone /\ ChildrenKeepTheirContract
    BY DEF CommandsInv, HumanInv, ChildrenInv, ChildrenKeepTheirContract
  <2>3. OperationsActOnce
    BY DEF CommandsInv, RecordInv, OperationsActOnce, SameOperation
  <2> QED
    BY <2>1, <2>2, <2>3 DEF CommandsHold
<1> QED
  BY <1>1, CommandsInvariant, PTL

-----------------------------------------------------------------------------
(* The children of a batch *)

Amounts == 0 .. MaxTokens
Counts == Unset .. MaxTokens
Executions ==
    [at : Claimed \cup {"none", "owned", "settling", "failing"}, abort : BOOLEAN,
     latest : Counts, pending : BOOLEAN, refused : BOOLEAN, tokens : Counts]
EndReports == [child : Batched \cup Foreigners, tokens : Counts]
Listeners == [by : Batched, base : [Batched -> Amounts]]

JournalTyped ==
    /\ lifeOfTeam \in {"running", "cancelling", "cancelled", "needs_reconciliation"}
    /\ status \in [Batched -> Unended \cup {"none", "failed", "ended"}]
    /\ resv \in [Batched -> {"none", "active", "known", "unknown", "not-admitted"}]
    /\ observed \in [Batched -> Counts] /\ endUsage \in [Batched -> Pending .. MaxTokens]
    /\ limit \in Limits \cup {Unset} /\ disposal \in {"none", "draining", "failed", "done"}
ProcessTyped ==
    /\ execution \in [Batched -> Executions] /\ batch \subseteq Batched /\ timers \subseteq Batched
    /\ hostChild \in [Batched -> {"none", "live", "over", "drained"}]
    /\ used \in [Batched -> Amounts] /\ asked \in [Batched -> BOOLEAN]
RouterTyped ==
    /\ ends \subseteq EndReports /\ early \subseteq EndReports
    /\ IsFiniteSet(early) /\ Cardinality(early) <= MaxEarly

(* A listener starts counting from the tokens used when it was made. *)
UsageTyped ==
    /\ shared \in [Batched -> Counts] /\ subs \subseteq Listeners
    /\ \A x \in subs, a \in Batched : x.base[a] <= used[a]

(* How far an attempt is: its child begins between the gate and the commit, and has a timer once
   its start has returned; after a disposal it is aborted, and told to stop once it is owned. *)
Phase(a) ==
    /\ a \in timers <=> /\ hostChild[a] = "live" /\ ~asked[a]
                       /\ \/ execution[a].at \in Bound
                          \/ status[a] # "dispatching"
                          \/ execution[a].at = "none"
    /\ a \in batch => status[a] = "dispatching" /\ execution[a].at = "none" /\ hostChild[a] = "none"
    /\ status[a] \in {"none", "failed"} => execution[a].at = "none" /\ hostChild[a] = "none"
    /\ execution[a].at \in {"gate", "starting", "failing", "committing"} => status[a] = "dispatching"
    /\ execution[a].at \in {"gate", "failing"} => hostChild[a] = "none"
    /\ hostChild[a] = "none" => used[a] = 0 /\ ~asked[a]
    /\ execution[a].at = "starting" => ~asked[a]
    /\ disposal # "none" =>
         /\ execution[a].at # "none" => execution[a].abort
         /\ execution[a].at \in {"owned", "settling"} /\ hostChild[a] = "live" => asked[a]

BatchInv ==
    JournalTyped /\ ProcessTyped /\ RouterTyped /\ UsageTyped /\ \A a \in Batched : Phase(a)

(* The numbers of tokens: zero, one more and the unknown. *)
LEMMA CountsAre ==
    /\ 0 \in Amounts /\ Unset \in Counts /\ Pending \in Pending .. MaxTokens
    /\ Amounts \subseteq Counts /\ Counts \subseteq Pending .. MaxTokens
    /\ \A n \in Amounts : n < MaxTokens => n + 1 \in Amounts
    /\ Amounts \subseteq Nat /\ Counts \subseteq Int
BY ChildrenAssumption DEF Amounts, Counts, Unset, Pending

(* An attempt of which a step changes nothing keeps its phase. *)
LEMMA PhaseRests ==
    ASSUME NEW a \in Batched, Phase(a), execution'[a] = execution[a], status'[a] = status[a],
           hostChild'[a] = hostChild[a], used'[a] = used[a], asked'[a] = asked[a],
           a \in timers' <=> a \in timers, a \in batch' => a \in batch, disposal' = disposal
    PROVE  Phase(a)'
BY DEF Phase

(* One execution changes. *)
LEMMA OneExecution ==
    ASSUME execution \in [Batched -> Executions], NEW a \in Batched, NEW r \in Executions,
           execution' = [execution EXCEPT ![a] = r]
    PROVE  /\ execution' \in [Batched -> Executions] /\ execution'[a] = r
           /\ \A b \in Batched \ {a} : execution'[b] = execution[b]
OBVIOUS

(* No execution. *)
LEMMA NoExecutionTyped == NoExecution \in Executions /\ NoExecution.at = "none"
BY CountsAre DEF NoExecution, Executions

(* Once no execution is active the router is gone. *)
LEMMA RouterEnds ==
    ASSUME RouterTyped, RouterAfter(execution')
    PROVE  RouterTyped'
<1>1. CASE Executing(execution') = {}
  <2>1. early' = {} /\ ends' = {}
    BY <1>1 DEF RouterAfter
  <2>2. IsFiniteSet({}) /\ Cardinality({}) = 0
    BY FS_EmptySet
  <2> QED
    BY <2>1, <2>2, ChildrenAssumption DEF RouterTyped
<1>2. CASE Executing(execution') # {}
  BY <1>2 DEF RouterAfter, RouterTyped, router
<1> QED
  BY <1>1, <1>2

(* What an execution releases: itself and its listener. *)
LEMMA ReleaseKeeps ==
    ASSUME BatchInv, NEW a \in Batched, ReleasedUsage(a), UNCHANGED used
    PROVE  /\ execution' \in [Batched -> Executions] /\ execution'[a].at = "none"
           /\ \A b \in Batched \ {a} : execution'[b] = execution[b]
           /\ UsageTyped'
<1>1. execution \in [Batched -> Executions] /\ execution' = [execution EXCEPT ![a] = NoExecution]
  BY DEF BatchInv, ProcessTyped, ReleasedUsage
<1>2. /\ execution' \in [Batched -> Executions] /\ execution'[a] = NoExecution
      /\ \A b \in Batched \ {a} : execution'[b] = execution[b]
  BY <1>1, NoExecutionTyped, OneExecution
<1>3. UsageTyped'
  BY DEF BatchInv, UsageTyped, ReleasedUsage, Unsubscribed
<1> QED
  BY <1>2, <1>3, NoExecutionTyped

(* Initially there is no child. *)
LEMMA ChildrenBegin ==
    ASSUME ChildrenInit
    PROVE  BatchInv
<1>1. JournalTyped
  BY CountsAre DEF ChildrenInit, JournalTyped
<1>2. ProcessTyped
  BY CountsAre, NoExecutionTyped DEF ChildrenInit, ProcessTyped
<1>3. RouterTyped
  BY FS_EmptySet, ChildrenAssumption DEF ChildrenInit, RouterTyped
<1>4. UsageTyped
  BY CountsAre DEF ChildrenInit, UsageTyped
<1>5. \A a \in Batched : Phase(a)
  BY NoExecutionTyped DEF ChildrenInit, Phase, Bound
<1> QED
  BY <1>1, <1>2, <1>3, <1>4, <1>5 DEF BatchInv

(* A policy changes the limit alone. *)
LEMMA PolicyKeeps ==
    ASSUME BatchInv, NEW l \in Limits, SetPolicy(l)
    PROVE  BatchInv'
<1>1. JournalTyped'
  BY DEF BatchInv, JournalTyped, SetPolicy
<1>2. ProcessTyped' /\ RouterTyped' /\ UsageTyped'
  BY DEF BatchInv, ProcessTyped, RouterTyped, UsageTyped, SetPolicy, router, processVars, usage
<1>3. \A a \in Batched : Phase(a)'
  BY DEF BatchInv, SetPolicy, Phase, processVars
<1> QED
  BY <1>1, <1>2, <1>3 DEF BatchInv

(* A batch that is intended has no child yet. *)
LEMMA IntendKeeps ==
    ASSUME BatchInv, NEW B \in Dispatchable, NEW ok \in BOOLEAN, IntendBatch(B, ok)
    PROVE  BatchInv'
<1>1. B \subseteq Batched /\ \A a \in B : status[a] = "none"
  <2>1. PICK x \in Batched, b \in Batched :
          B = x .. b /\ \A y \in Batched : status[y] = "none" <=> y >= x
    BY DEF Dispatchable
  <2>2. \A y \in x .. b : y \in Batched /\ y >= x
    BY <2>1, ChildrenAssumption DEF Batched
  <2> QED
    BY <2>1, <2>2
<1>2. /\ \A a \in Batched : status'[a] = IF ok /\ a \in B THEN "dispatching" ELSE status[a]
      /\ JournalTyped' /\ batch' \subseteq batch \cup B
  BY DEF IntendBatch, JournalTyped, BatchInv, Unended, Reserved
<1>3. ProcessTyped' /\ RouterTyped' /\ UsageTyped'
  BY <1>1, <1>2
     DEF BatchInv, ProcessTyped, RouterTyped, UsageTyped, IntendBatch, router, processVars, usage
<1>4. ASSUME NEW a \in Batched PROVE Phase(a)'
  <2>1. Phase(a) /\ UNCHANGED <<execution, hostChild, used, asked, timers, disposal>>
    BY DEF BatchInv, IntendBatch, processVars
  <2>2. a \in batch' => ok /\ a \in B
    BY DEF IntendBatch
  <2> QED
    BY <1>1, <1>2, <2>1, <2>2 DEF Phase
<1> QED
  BY <1>2, <1>3, <1>4 DEF BatchInv

(* The executions of a batch begin at their gates. *)
LEMMA LaunchKeeps ==
    ASSUME BatchInv, Launch
    PROVE  BatchInv'
<1>1. JournalTyped' /\ RouterTyped'
  BY DEF BatchInv, JournalTyped, RouterTyped, Launch, router, journal
<1>2. UNCHANGED <<status, hostChild, used, asked, timers, disposal, shared>> /\ batch' = {}
  BY DEF Launch, journal, processVars
<1> DEFINE r == [NoExecution EXCEPT !.at = "gate"]
<1>3. r \in Executions /\ r.at = "gate"
  BY CountsAre DEF NoExecution, Executions, Claimed
<1> HIDE DEF r
<1>4. CASE disposal # "none"
  BY <1>1, <1>2, <1>4 DEF BatchInv, ProcessTyped, UsageTyped, Phase, Launch
<1>5. CASE disposal = "none"
  <2>1. /\ execution' = [a \in Batched |-> IF a \in batch THEN r ELSE execution[a]]
        /\ subs' = subs \cup {[by |-> a, base |-> used] : a \in batch}
    BY <1>5 DEF Launch, r
  <2>2. ProcessTyped'
    BY <1>2, <1>3, <2>1 DEF BatchInv, ProcessTyped
  <2>3. UsageTyped'
    <3>1. batch \subseteq Batched /\ used \in [Batched -> Amounts]
      BY DEF BatchInv, ProcessTyped
    <3>2. ASSUME NEW a \in Batched PROVE used[a] <= used[a]
      <4>1. used[a] \in Nat
        BY <3>1, CountsAre
      <4> QED
        BY <4>1
    <3>3. \A x \in subs' : x \in Listeners /\ (x \in subs \/ x.base = used)
      <4>1. \A a \in batch : [by |-> a, base |-> used] \in Listeners
        BY <3>1 DEF Listeners
      <4>2. subs \subseteq Listeners
        BY DEF BatchInv, UsageTyped
      <4> QED
        BY <2>1, <4>1, <4>2
    <3> QED
      BY <1>2, <3>2, <3>3 DEF BatchInv, UsageTyped
  <2>4. ASSUME NEW a \in Batched PROVE Phase(a)'
    BY <1>2, <1>3, <1>5, <2>1 DEF BatchInv, Phase, Bound
  <2> QED
    BY <1>1, <2>2, <2>3, <2>4 DEF BatchInv
<1> QED
  BY <1>4, <1>5

(* One execution moves on within its batch. *)
LEMMA PassKeeps ==
    ASSUME BatchInv, NEW a \in Batched,
           PassGate(a) \/ HostRefuses(a) \/ StartResumes(a)
    PROVE  BatchInv'
<1>1. execution \in [Batched -> Executions]
  BY DEF BatchInv, ProcessTyped
<1>2. PICK at \in {"starting", "failing", "committing"} :
        /\ execution' = [execution EXCEPT ![a] = [execution[a] EXCEPT !.at = at]]
        /\ at = "starting" => PassGate(a)
        /\ at = "failing" => HostRefuses(a)
        /\ at = "committing" => StartResumes(a)
  <2>1. CASE PassGate(a)
    BY <1>1, <2>1 DEF PassGate
  <2>2. CASE HostRefuses(a)
    BY <1>1, <2>2 DEF HostRefuses
  <2>3. CASE StartResumes(a)
    BY <1>1, <2>3 DEF StartResumes
  <2> QED
    BY <2>1, <2>2, <2>3
<1>3. /\ execution' \in [Batched -> Executions] /\ execution'[a].at = at /\ execution'[a].abort = execution[a].abort
      /\ \A b \in Batched \ {a} : execution'[b] = execution[b]
  <2> DEFINE q == [execution[a] EXCEPT !.at = at]
  <2>1. q \in Executions /\ q.at = at /\ q.abort = execution[a].abort
    BY <1>1 DEF Executions, Claimed
  <2>2. execution' = [execution EXCEPT ![a] = q]
    BY <1>2
  <2> HIDE DEF q
  <2> QED
    BY <1>1, <2>1, <2>2, OneExecution
<1>4. /\ UNCHANGED <<journal, batch, hostChild, used, asked, usage, disposal, ends, overflowed>>
      /\ early' \in {early, {}}
      /\ at # "committing" => timers' = timers
      /\ at = "committing" => timers' = TimersAfterStart(a)
  BY <1>2 DEF PassGate, HostRefuses, StartResumes, router, processVars
<1>5. JournalTyped' /\ UsageTyped'
  BY <1>4 DEF BatchInv, JournalTyped, UsageTyped, journal, usage
<1>6. RouterTyped'
  BY <1>4, FS_EmptySet, ChildrenAssumption DEF BatchInv, RouterTyped
<1>7. ProcessTyped'
  BY <1>3, <1>4 DEF BatchInv, ProcessTyped, TimersAfterStart
<1>8. /\ execution[a].at \in {"gate", "starting"}
      /\ at = "starting" => execution[a].at = "gate"
      /\ at = "failing" => hostChild[a] = "none"
      /\ at = "committing" => execution[a].at = "starting" /\ hostChild[a] # "none"
  BY <1>2 DEF PassGate, HostRefuses, StartResumes
<1>9. Phase(a)'
  <2>1. Phase(a)
    BY DEF BatchInv
  <2>2. a \in timers' <=> a \in timers \/ (at = "committing" /\ hostChild[a] = "live")
    BY <1>4 DEF TimersAfterStart
  <2> QED
    BY <1>3, <1>4, <1>8, <2>1, <2>2 DEF Phase, Bound, journal
<1>10. ASSUME NEW b \in Batched \ {a} PROVE Phase(b)'
  <2>1. b \in timers' <=> b \in timers
    BY <1>4 DEF TimersAfterStart
  <2> QED
    BY <1>3, <1>4, <2>1, PhaseRests DEF BatchInv, journal
<1> QED
  BY <1>5, <1>6, <1>7, <1>9, <1>10 DEF BatchInv

(* The Host admits a child. *)
LEMMA AdmitKeeps ==
    ASSUME BatchInv, NEW a \in Batched, NativeAdmit(a)
    PROVE  BatchInv'
<1>1. JournalTyped' /\ RouterTyped' /\ UsageTyped'
  BY DEF BatchInv, JournalTyped, RouterTyped, UsageTyped, NativeAdmit, journal, router, usage
<1>2. ProcessTyped'
  BY DEF BatchInv, ProcessTyped, NativeAdmit
<1>3. /\ hostChild'[a] = "live" /\ \A b \in Batched \ {a} : hostChild'[b] = hostChild[b]
      /\ execution[a].at = "starting"
      /\ UNCHANGED <<status, execution, used, asked, timers, batch, disposal>>
  BY DEF BatchInv, ProcessTyped, NativeAdmit, journal
<1>4. Phase(a)'
  BY <1>3 DEF BatchInv, Phase, Bound
<1>5. \A b \in Batched \ {a} : Phase(b)'
  BY <1>3, PhaseRests DEF BatchInv
<1> QED
  BY <1>1, <1>2, <1>4, <1>5 DEF BatchInv

(* A start that failed is recorded, or lost with the journal. *)
LEMMA FailureKeeps ==
    ASSUME BatchInv, NEW a \in Batched, NEW ok \in BOOLEAN, RecordStartFailure(a, ok)
    PROVE  BatchInv'
<1>1. /\ execution' \in [Batched -> Executions] /\ execution'[a].at = "none"
      /\ \A b \in Batched \ {a} : execution'[b] = execution[b]
      /\ UsageTyped' /\ RouterTyped'
  BY ReleaseKeeps, RouterEnds DEF RecordStartFailure, BatchInv, processVars
<1>2. /\ \/ UNCHANGED <<status, resv, lifeOfTeam>>
         \/ /\ status' = [status EXCEPT ![a] = "failed"]
            /\ resv' = [resv EXCEPT ![a] = IF resv[a] = "active" THEN "not-admitted" ELSE resv[a]]
            /\ lifeOfTeam' = TeamAfter(status')
      /\ UNCHANGED <<observed, endUsage, limit, batch, hostChild, used, asked, timers, disposal>>
      /\ execution[a].at = "failing"
  BY DEF RecordStartFailure, processVars
<1>3. JournalTyped' /\ ProcessTyped'
  BY <1>1, <1>2 DEF BatchInv, JournalTyped, ProcessTyped, TeamAfter
<1>4. Phase(a)'
  BY <1>1, <1>2 DEF BatchInv, Phase, Bound, JournalTyped
<1>5. ASSUME NEW b \in Batched \ {a} PROVE Phase(b)'
  <2>1. status'[b] = status[b]
    BY <1>2 DEF BatchInv, JournalTyped
  <2> QED
    BY <1>1, <1>2, <2>1, PhaseRests DEF BatchInv
<1> QED
  BY <1>1, <1>3, <1>4, <1>5 DEF BatchInv

(* A lost admission loses its execution. *)
LEMMA LoseKeeps ==
    ASSUME BatchInv, NEW a \in Batched, LoseAdmission(a)
    PROVE  BatchInv'
<1>1. /\ execution' \in [Batched -> Executions] /\ execution'[a].at = "none"
      /\ \A b \in Batched \ {a} : execution'[b] = execution[b]
      /\ UsageTyped' /\ RouterTyped'
  BY ReleaseKeeps, RouterEnds DEF LoseAdmission, BatchInv, processVars
<1>2. /\ UNCHANGED <<journal, batch, hostChild, used, asked, timers, disposal>>
      /\ execution[a].at = "committing"
  BY DEF LoseAdmission, processVars
<1>3. JournalTyped' /\ ProcessTyped'
  BY <1>1, <1>2 DEF BatchInv, JournalTyped, ProcessTyped, journal
<1>4. Phase(a)'
  BY <1>1, <1>2 DEF BatchInv, Phase, Bound, journal
<1>5. \A b \in Batched \ {a} : Phase(b)'
  BY <1>1, <1>2, PhaseRests DEF BatchInv, journal
<1> QED
  BY <1>1, <1>3, <1>4, <1>5 DEF BatchInv

(* A child is admitted durably: it is owned, settles at once, or is lost. *)
LEMMA CommitKeeps ==
    ASSUME BatchInv, NEW a \in Batched, NEW ok \in BOOLEAN, NEW heard \in BOOLEAN,
           CommitAdmission(a, ok, heard)
    PROVE  BatchInv'
<1>1. /\ execution[a].at = "committing" /\ status' = IF ok THEN [status EXCEPT ![a] = "running"] ELSE status
      /\ UNCHANGED <<resv, observed, endUsage, limit, batch, hostChild, used, disposal>>
      /\ lifeOfTeam' \in {lifeOfTeam, "needs_reconciliation"}
  BY DEF CommitAdmission, Uncertain
<1>2. JournalTyped'
  BY <1>1 DEF BatchInv, JournalTyped, Unended
<1>3. CASE ok /\ ~overflowed
  <2> DEFINE r == [Routed(a) EXCEPT !.refused = ~heard /\ disposal # "none"]
  <2>1. /\ execution' = [execution EXCEPT ![a] = r] /\ early' = early \ EarlyOf(a)
        /\ asked' = [asked EXCEPT ![a] = asked[a] \/ (LateAbort(a) /\ hostChild[a] = "live")]
        /\ timers' = IF LateAbort(a) THEN timers \ {a} ELSE timers
        /\ subs' = IF EarlyOf(a) = {} THEN subs ELSE Unsubscribed(a)
        /\ UNCHANGED <<overflowed, ends, shared>>
    BY <1>3 DEF CommitAdmission
  <2>2. /\ r \in Executions /\ r.at \in {"owned", "settling"} /\ r.abort = execution[a].abort
    <3>1. execution[a] \in Executions
      BY DEF BatchInv, ProcessTyped
    <3>2. EarlyOf(a) # {} => (CHOOSE e \in EarlyOf(a) : TRUE).tokens \in Counts
      BY DEF EarlyOf, BatchInv, RouterTyped, EndReports
    <3>3. /\ Routed(a) \in Executions /\ Routed(a).at \in {"owned", "settling"}
          /\ Routed(a).abort = execution[a].abort
      BY <3>1, <3>2 DEF Routed, Executions
    <3> QED
      BY <3>3 DEF Executions
  <2> HIDE DEF r
  <2>3. /\ execution' \in [Batched -> Executions] /\ execution'[a] = r
        /\ \A b \in Batched \ {a} : execution'[b] = execution[b]
    BY <2>1, <2>2, OneExecution DEF BatchInv, ProcessTyped
  <2>4. /\ asked'[a] = (asked[a] \/ (LateAbort(a) /\ hostChild[a] = "live"))
        /\ \A b \in Batched \ {a} : asked'[b] = asked[b]
        /\ asked' \in [Batched -> BOOLEAN]
    BY <2>1 DEF BatchInv, ProcessTyped
  <2>5. ProcessTyped'
    BY <1>1, <2>1, <2>3, <2>4 DEF BatchInv, ProcessTyped
  <2>6. RouterTyped'
    <3>1. early' \in SUBSET early /\ IsFiniteSet(early)
      BY <2>1 DEF BatchInv, RouterTyped
    <3>2. IsFiniteSet(early') /\ Cardinality(early') <= Cardinality(early)
          /\ Cardinality(early') \in Nat /\ Cardinality(early) \in Nat
      BY <3>1, FS_Subset, FS_CardinalityType
    <3>3. Cardinality(early') <= MaxEarly
      BY <3>2, ChildrenAssumption DEF BatchInv, RouterTyped
    <3> QED
      BY <2>1, <3>1, <3>2, <3>3 DEF BatchInv, RouterTyped
  <2>7. UsageTyped'
    BY <1>1, <2>1 DEF BatchInv, UsageTyped, Unsubscribed
  <2>8. Phase(a)'
    <3>1. status'[a] = "running"
      BY <1>1, <1>3 DEF BatchInv, JournalTyped
    <3>2. a \in timers' <=> a \in timers /\ ~LateAbort(a)
      BY <2>1
    <3> QED
      BY <1>1, <2>2, <2>3, <2>4, <3>1, <3>2 DEF BatchInv, Phase, Bound, LateAbort
  <2>9. ASSUME NEW b \in Batched \ {a} PROVE Phase(b)'
    <3>1. status'[b] = status[b] /\ (b \in timers' <=> b \in timers)
      BY <1>1, <2>1 DEF BatchInv, JournalTyped
    <3> QED
      BY <1>1, <2>3, <2>4, <3>1, PhaseRests DEF BatchInv
  <2> QED
    BY <1>2, <2>5, <2>6, <2>7, <2>8, <2>9 DEF BatchInv
<1>4. CASE ~(ok /\ ~overflowed)
  <2>1. ReleasedUsage(a) /\ RouterAfter(execution') /\ UNCHANGED <<asked, timers>>
    BY <1>4 DEF CommitAdmission
  <2>2. /\ execution' \in [Batched -> Executions] /\ execution'[a].at = "none"
        /\ \A b \in Batched \ {a} : execution'[b] = execution[b]
        /\ UsageTyped' /\ RouterTyped'
    BY <1>1, <2>1, ReleaseKeeps, RouterEnds DEF BatchInv
  <2>3. ProcessTyped'
    BY <1>1, <2>1, <2>2 DEF BatchInv, ProcessTyped
  <2>4. Phase(a)'
    <3>1. status'[a] \in {"running", status[a]}
      BY <1>1 DEF BatchInv, JournalTyped
    <3> QED
      BY <1>1, <2>1, <2>2, <3>1 DEF BatchInv, Phase, Bound
  <2>5. ASSUME NEW b \in Batched \ {a} PROVE Phase(b)'
    <3>1. status'[b] = status[b]
      BY <1>1 DEF BatchInv, JournalTyped
    <3> QED
      BY <1>1, <2>1, <2>2, <3>1, PhaseRests DEF BatchInv
  <2> QED
    BY <1>2, <2>2, <2>3, <2>4, <2>5 DEF BatchInv
<1> QED
  BY <1>3, <1>4

(* A set of natural numbers that is not empty has a least member. *)
LEMMA Minimum ==
    ASSUME NEW S \in SUBSET Nat, S # {}
    PROVE  \E d \in S : \A e \in S : d <= e
<1>1. PICK d \in S : \A e \in S : ~(<<e, d>> \in OpToRel(<, Nat))
  BY NatLessThanWellFounded, WFMin
<1>2. ASSUME NEW e \in S PROVE d <= e
  <2>1. ~(e < d)
    BY <1>1 DEF OpToRel
  <2> QED
    BY <2>1
<1> QED
  BY <1>2

(* The listener made last counts from no more than the child has used. *)
LEMMA SnapshotTyped ==
    ASSUME BatchInv, NEW a \in Batched, used[a] < MaxTokens
    PROVE  Snapshot(a) \in Counts
<1>1. /\ used[a] \in Amounts /\ shared[a] \in Counts /\ subs \subseteq Listeners
      /\ \A x \in subs : x.by \in Batched /\ x.base[a] \in Amounts /\ x.base[a] <= used[a]
  BY DEF BatchInv, ProcessTyped, UsageTyped, Listeners
<1>2. CASE subs = {}
  BY <1>1, <1>2 DEF Snapshot
<1>3. CASE subs # {}
  <2> DEFINE D == {N - x.by : x \in subs}
  <2>1. \A x \in subs : x.by \in Int /\ N - x.by \in Nat
    BY <1>1, ChildrenAssumption DEF Batched
  <2>2. PICK d \in D : \A e \in D : d <= e
    <3>1. D \in SUBSET Nat /\ D # {}
      BY <1>3, <2>1
    <3> HIDE DEF D
    <3> QED
      BY <3>1, Minimum
  <2>3. PICK x \in subs : d = N - x.by
    BY <2>2
  <2>4. ASSUME NEW y \in subs PROVE y.by <= x.by
    <3>1. N - x.by <= N - y.by
      BY <2>2, <2>3
    <3>2. x.by \in Int /\ y.by \in Int /\ N \in Nat
      BY <2>1, ChildrenAssumption
    <3> QED
      BY <3>1, <3>2
  <2>5. LastListener \in subs
    BY <2>4 DEF LastListener
  <2>6. /\ LastListener.base[a] \in Amounts /\ LastListener.base[a] <= used[a]
        /\ Snapshot(a) = used[a] + 1 - LastListener.base[a]
    BY <1>1, <1>3, <2>5 DEF Snapshot
  <2>7. \A m \in Amounts : m <= used[a] => used[a] + 1 - m \in Counts
    BY <1>1, ChildrenAssumption DEF Amounts, Counts, Unset
  <2> QED
    BY <2>6, <2>7
<1> QED
  BY <1>2, <1>3

(* A child reports tokens. *)
LEMMA ReportKeeps ==
    ASSUME BatchInv, NEW a \in Batched, ChildReports(a)
    PROVE  BatchInv'
<1>1. /\ used[a] \in Amounts /\ used[a] + 1 \in Amounts /\ used[a] + 1 \in Counts
      /\ used[a] <= used[a] + 1 /\ Snapshot(a) \in Counts
  BY CountsAre, SnapshotTyped DEF ChildReports, BatchInv, ProcessTyped
<1>2. /\ UNCHANGED <<journal, batch, router, hostChild, asked, timers, subs, disposal>>
      /\ used' = [used EXCEPT ![a] = used[a] + 1] /\ shared' = [shared EXCEPT ![a] = Snapshot(a)]
      /\ hostChild[a] = "live"
  BY DEF ChildReports
<1>3. JournalTyped' /\ RouterTyped'
  BY <1>2 DEF BatchInv, JournalTyped, RouterTyped, journal, router
<1>4. /\ execution' \in [Batched -> Executions] /\ execution'[a].at = execution[a].at /\ execution'[a].abort = execution[a].abort
      /\ \A b \in Batched \ {a} : execution'[b] = execution[b]
  <2> DEFINE r == [execution[a] EXCEPT !.latest = used[a] + 1, !.pending = TRUE]
  <2>1. execution \in [Batched -> Executions]
    BY DEF BatchInv, ProcessTyped
  <2>2. r \in Executions /\ r.at = execution[a].at /\ r.abort = execution[a].abort
    BY <1>1, <2>1 DEF Executions
  <2>3. execution' = execution \/ execution' = [execution EXCEPT ![a] = r]
    BY <2>1 DEF ChildReports
  <2> HIDE DEF r
  <2> QED
    BY <2>1, <2>2, <2>3, OneExecution
<1>5. ProcessTyped'
  BY <1>1, <1>2, <1>4 DEF BatchInv, ProcessTyped
<1>6. UsageTyped'
  <2>1. shared' \in [Batched -> Counts] /\ subs' \subseteq Listeners
    BY <1>1, <1>2 DEF BatchInv, UsageTyped
  <2>2. ASSUME NEW x \in subs, NEW b \in Batched PROVE x.base[b] <= used'[b]
    <3>1. x.base[b] <= used[b] /\ x.base[b] \in Int /\ used[b] \in Int
      BY CountsAre DEF BatchInv, UsageTyped, Listeners, ProcessTyped
    <3>2. used'[b] = IF b = a THEN used[b] + 1 ELSE used[b]
      BY <1>2 DEF BatchInv, ProcessTyped
    <3> QED
      BY <3>1, <3>2
  <2> QED
    BY <1>2, <2>1, <2>2 DEF UsageTyped
<1>7. Phase(a)'
  BY <1>2, <1>4 DEF BatchInv, Phase, Bound, journal
<1>8. ASSUME NEW b \in Batched \ {a} PROVE Phase(b)'
  <2>1. used'[b] = used[b]
    BY <1>2 DEF BatchInv, ProcessTyped
  <2> QED
    BY <1>2, <1>4, <2>1, PhaseRests DEF BatchInv, journal
<1> QED
  BY <1>3, <1>5, <1>6, <1>7, <1>8 DEF BatchInv

(* Usage is recorded. *)
LEMMA UsageKeeps ==
    ASSUME BatchInv, NEW a \in Batched, NEW ok \in BOOLEAN, RecordUsage(a, ok)
    PROVE  BatchInv'
<1>1. /\ UNCHANGED <<lifeOfTeam, status, resv, endUsage, limit, batch, router, processVars, usage,
                    disposal>>
      /\ execution \in [Batched -> Executions]
      /\ observed' = observed \/ observed' = [observed EXCEPT ![a] = execution[a].latest]
      /\ execution' = [execution EXCEPT ![a] = [execution[a] EXCEPT !.pending = FALSE]]
  BY DEF RecordUsage, BatchInv, ProcessTyped
<1>2. /\ execution' \in [Batched -> Executions] /\ execution'[a].at = execution[a].at /\ execution'[a].abort = execution[a].abort
      /\ \A b \in Batched \ {a} : execution'[b] = execution[b]
  <2> DEFINE r == [execution[a] EXCEPT !.pending = FALSE]
  <2>1. r \in Executions /\ r.at = execution[a].at /\ r.abort = execution[a].abort
    BY <1>1 DEF Executions
  <2>2. execution' = [execution EXCEPT ![a] = r]
    BY <1>1
  <2> HIDE DEF r
  <2> QED
    BY <1>1, <2>1, <2>2, OneExecution
<1>3. JournalTyped'
  <2>1. execution[a].latest \in Counts
    BY <1>1 DEF Executions
  <2> QED
    BY <1>1, <2>1 DEF BatchInv, JournalTyped
<1>4. ProcessTyped' /\ RouterTyped' /\ UsageTyped'
  BY <1>1, <1>2 DEF BatchInv, ProcessTyped, RouterTyped, UsageTyped, processVars, router, usage
<1>5. Phase(a)'
  BY <1>1, <1>2 DEF BatchInv, Phase, processVars
<1>6. \A b \in Batched \ {a} : Phase(b)'
  BY <1>1, <1>2, PhaseRests DEF BatchInv, processVars
<1> QED
  BY <1>3, <1>4, <1>5, <1>6 DEF BatchInv

(* A child ends. *)
LEMMA NativeEndKeeps ==
    ASSUME BatchInv, NEW a \in Batched, NEW quiet \in BOOLEAN, NativeEnd(a, quiet)
    PROVE  BatchInv'
<1>1. /\ UNCHANGED <<journal, batch, execution, early, overflowed, used, asked, subs, disposal>>
      /\ hostChild' = [hostChild EXCEPT ![a] = IF quiet THEN "drained" ELSE "over"]
      /\ timers' = timers \ {a} /\ hostChild[a] = "live"
  BY DEF NativeEnd
<1>2. \/ UNCHANGED <<ends, shared>>
      \/ \E t \in ReportedTokens(a) : /\ ends' = ends \cup {[child |-> a, tokens |-> t]}
                                  /\ shared' = [shared EXCEPT ![a] = Unset]
  BY DEF NativeEnd
<1>3. \A t \in ReportedTokens(a) : [child |-> a, tokens |-> t] \in EndReports
  BY CountsAre DEF ReportedTokens, BatchInv, UsageTyped, ProcessTyped, EndReports
<1>4. RouterTyped' /\ UsageTyped'
  <2>1. ends' \subseteq EndReports /\ shared' \in [Batched -> Counts]
    BY <1>2, <1>3, CountsAre DEF BatchInv, RouterTyped, UsageTyped
  <2> QED
    BY <1>1, <2>1 DEF BatchInv, RouterTyped, UsageTyped
<1>5. JournalTyped' /\ ProcessTyped'
  BY <1>1 DEF BatchInv, JournalTyped, ProcessTyped, journal
<1>6. Phase(a)'
  <2>1. hostChild'[a] \in {"drained", "over"} /\ a \notin timers'
    BY <1>1 DEF BatchInv, ProcessTyped
  <2> QED
    BY <1>1, <2>1 DEF BatchInv, Phase, journal
<1>7. ASSUME NEW b \in Batched \ {a} PROVE Phase(b)'
  <2>1. hostChild'[b] = hostChild[b] /\ (b \in timers' <=> b \in timers)
    BY <1>1 DEF BatchInv, ProcessTyped
  <2> QED
    BY <1>1, <2>1, PhaseRests DEF BatchInv, journal
<1> QED
  BY <1>4, <1>5, <1>6, <1>7 DEF BatchInv

(* A child of somebody else ends. *)
LEMMA ForeignKeeps ==
    ASSUME BatchInv, NEW f \in Foreigners, ForeignEnd(f)
    PROVE  BatchInv'
<1>1. /\ UNCHANGED <<journal, batch, execution, early, overflowed, processVars, usage, disposal>>
      /\ ends' = ends \cup {[child |-> f, tokens |-> Unset]}
  BY DEF ForeignEnd
<1>2. [child |-> f, tokens |-> Unset] \in EndReports
  BY CountsAre DEF EndReports
<1>3. JournalTyped' /\ ProcessTyped' /\ RouterTyped' /\ UsageTyped'
  BY <1>1, <1>2
     DEF BatchInv, JournalTyped, ProcessTyped, RouterTyped, UsageTyped, journal, processVars, usage
<1>4. \A a \in Batched : Phase(a)'
  BY <1>1, PhaseRests DEF BatchInv, journal, processVars
<1> QED
  BY <1>3, <1>4 DEF BatchInv

(* An end is buffered while there is room, or the buffer is given up. *)
LEMMA BufferKeeps ==
    ASSUME RouterTyped, NEW e \in ends, Buffered(e)
    PROVE  early' \subseteq EndReports /\ IsFiniteSet(early') /\ Cardinality(early') <= MaxEarly
<1>1. \/ early' = early
      \/ early' = {}
      \/ early' = early \cup {e} /\ ~(Cardinality(early) >= MaxEarly)
  BY DEF Buffered
<1>2. IsFiniteSet(early) /\ Cardinality(early) \in Nat /\ Cardinality(early) <= MaxEarly
  BY FS_CardinalityType DEF RouterTyped
<1>3. CASE early' = {}
  BY <1>3, FS_EmptySet, ChildrenAssumption
<1>4. CASE early' = early \cup {e} /\ ~(Cardinality(early) >= MaxEarly)
  <2>1. /\ IsFiniteSet(early \cup {e})
        /\ Cardinality(early \cup {e}) \in {Cardinality(early), Cardinality(early) + 1}
    BY <1>2, FS_AddElement
  <2>2. Cardinality(early) + 1 <= MaxEarly
    BY <1>2, <1>4, ChildrenAssumption
  <2> QED
    BY <1>2, <1>4, <2>1, <2>2 DEF RouterTyped
<1> QED
  BY <1>1, <1>2, <1>3, <1>4 DEF RouterTyped

(* An end reaches the router. *)
LEMMA DeliverKeeps ==
    ASSUME BatchInv, NEW e \in ends, RouteEnd(e)
    PROVE  BatchInv'
<1>1. /\ UNCHANGED <<journal, batch, processVars, shared, disposal>> /\ ends' = ends \ {e}
      /\ e \in EndReports
  BY DEF RouteEnd, BatchInv, RouterTyped
<1>2. JournalTyped'
  BY <1>1 DEF BatchInv, JournalTyped, journal
<1>3. CASE IsOwned(e.child)
  <2> DEFINE a == e.child
             r == [execution[a] EXCEPT !.at = "settling", !.pending = FALSE, !.tokens = e.tokens]
  <2>1. a \in Batched /\ execution[a].at = "owned" /\ execution \in [Batched -> Executions]
    BY <1>3 DEF IsOwned, BatchInv, ProcessTyped
  <2>2. r \in Executions /\ r.at = "settling" /\ r.abort = execution[a].abort
    <3>1. execution[a] \in Executions /\ e.tokens \in Counts
      BY <1>1, <2>1 DEF EndReports
    <3> HIDE DEF a
    <3> QED
      BY <3>1 DEF Executions
  <2>3. /\ execution' = [execution EXCEPT ![a] = r] /\ subs' = Unsubscribed(a) /\ early' \in {early, {}}
    BY <1>3, <2>1 DEF RouteEnd
  <2> HIDE DEF r, a
  <2>4. /\ execution' \in [Batched -> Executions] /\ execution'[a] = r
        /\ \A b \in Batched \ {a} : execution'[b] = execution[b]
    BY <2>1, <2>2, <2>3, OneExecution
  <2>5. ProcessTyped' /\ UsageTyped'
    BY <1>1, <2>3, <2>4 DEF BatchInv, ProcessTyped, UsageTyped, processVars, Unsubscribed
  <2>6. RouterTyped'
    BY <1>1, <2>3, FS_EmptySet, ChildrenAssumption DEF BatchInv, RouterTyped
  <2>7. Phase(a)'
    BY <1>1, <2>1, <2>2, <2>4 DEF BatchInv, Phase, Bound, journal, processVars
  <2>8. \A b \in Batched \ {a} : Phase(b)'
    BY <1>1, <2>4, PhaseRests DEF BatchInv, journal, processVars
  <2> QED
    BY <1>2, <2>5, <2>6, <2>7, <2>8 DEF BatchInv
<1>4. CASE ~IsOwned(e.child)
  <2>1. Buffered(e) /\ UNCHANGED <<execution, subs>>
    BY <1>4 DEF RouteEnd
  <2>2. RouterTyped'
    BY <1>1, <2>1, BufferKeeps DEF BatchInv, RouterTyped
  <2>3. ProcessTyped' /\ UsageTyped'
    BY <1>1, <2>1 DEF BatchInv, ProcessTyped, UsageTyped, processVars
  <2>4. \A a \in Batched : Phase(a)'
    BY <1>1, <2>1, PhaseRests DEF BatchInv, journal, processVars
  <2> QED
    BY <1>2, <2>2, <2>3, <2>4 DEF BatchInv
<1> QED
  BY <1>3, <1>4

(* An end settles its attempt. *)
LEMMA SettleEndKeeps ==
    ASSUME BatchInv, NEW a \in Batched, NEW ok \in BOOLEAN, SettleEnd(a, ok)
    PROVE  BatchInv'
<1>1. /\ execution' \in [Batched -> Executions] /\ execution'[a].at = "none"
      /\ \A b \in Batched \ {a} : execution'[b] = execution[b]
      /\ UsageTyped' /\ RouterTyped'
  BY ReleaseKeeps, RouterEnds DEF SettleEnd, BatchInv, processVars
<1>2. /\ UNCHANGED <<limit, batch, hostChild, used, asked, timers, disposal>>
      /\ execution[a].at = "settling" /\ execution[a] \in Executions
  BY DEF SettleEnd, processVars, BatchInv, ProcessTyped
<1>3. \/ UNCHANGED <<status, observed, endUsage, resv, lifeOfTeam>>
      \/ /\ status' = [status EXCEPT ![a] = "ended"]
         /\ observed' = [observed EXCEPT ![a] = SettledUsage(a)]
         /\ endUsage' = [endUsage EXCEPT ![a] = execution[a].tokens]
         /\ resv' = [resv EXCEPT ![a] = Settlement(a)]
         /\ lifeOfTeam' = TeamAfter(status')
  BY DEF SettleEnd
<1>4. /\ SettledUsage(a) \in Counts /\ execution[a].tokens \in Pending .. MaxTokens
      /\ Settlement(a) \in {"none", "active", "known", "unknown", "not-admitted"}
  BY <1>2, CountsAre DEF SettledUsage, Settlement, Executions, BatchInv, JournalTyped
<1>5. JournalTyped'
  BY <1>2, <1>3, <1>4 DEF BatchInv, JournalTyped, TeamAfter
<1>6. ProcessTyped'
  BY <1>1, <1>2 DEF BatchInv, ProcessTyped
<1>7. Phase(a)'
  <2>1. status'[a] \in {status[a], "ended"}
    BY <1>3 DEF BatchInv, JournalTyped
  <2> QED
    BY <1>1, <1>2, <2>1 DEF BatchInv, Phase, Bound
<1>8. ASSUME NEW b \in Batched \ {a} PROVE Phase(b)'
  <2>1. status'[b] = status[b]
    BY <1>3 DEF BatchInv, JournalTyped
  <2> QED
    BY <1>1, <1>2, <2>1, PhaseRests DEF BatchInv
<1> QED
  BY <1>1, <1>5, <1>6, <1>7, <1>8 DEF BatchInv

(* A stop reaches every child whose id is known, and no execution moves. *)
LEMMA StopKeeps ==
    ASSUME BatchInv, NEW ok, NEW mark, Stop(ok, mark),
           \A a \in Batched : /\ mark[a] \in Executions /\ mark[a].at = execution[a].at
                              /\ execution[a].at # "none" /\ execution[a].abort => mark[a].abort,
           \/ disposal' = disposal
           \/ \A a \in Batched : mark[a].at # "none" => mark[a].abort,
           UNCHANGED <<status, hostChild, used, batch>>
    PROVE  ProcessTyped' /\ \A a \in Batched : Phase(a)'
<1>1. /\ execution' \in [Batched -> Executions]
      /\ \A a \in Batched : execution'[a] = mark[a]
      /\ asked' \in [Batched -> BOOLEAN]
      /\ \A a \in Batched : asked'[a] = (asked[a] \/ (execution[a].at \in Bound /\ hostChild[a] = "live"))
      /\ timers' = {a \in timers : execution[a].at \notin Bound}
  BY DEF Stop, BatchInv, ProcessTyped
<1>2. ProcessTyped'
  BY <1>1 DEF BatchInv, ProcessTyped
<1>3. ASSUME NEW a \in Batched PROVE Phase(a)'
  <2>1. Phase(a) /\ (a \in timers' <=> a \in timers /\ execution[a].at \notin Bound)
    BY <1>1 DEF BatchInv
  <2>2. /\ execution'[a].at = execution[a].at /\ (execution[a].at # "none" /\ execution[a].abort => execution'[a].abort)
        /\ asked'[a] = (asked[a] \/ (execution[a].at \in Bound /\ hostChild[a] = "live"))
        /\ disposal' = disposal \/ (execution'[a].at # "none" => execution'[a].abort)
    BY <1>1
  <2> QED
    BY <2>1, <2>2 DEF Phase, Bound
<1> QED
  BY <1>2, <1>3

(* The Team is cancelled. *)
LEMMA CancelTeamKeeps ==
    ASSUME BatchInv, NEW ok \in BOOLEAN, CancelTeam(ok)
    PROVE  BatchInv'
<1> DEFINE mark == [a \in Batched |-> IF execution[a].at \in {"gate", "starting"}
                                      THEN [execution[a] EXCEPT !.abort = TRUE] ELSE execution[a]]
<1>1. /\ Stop(ok, mark)
      /\ UNCHANGED <<status, resv, observed, endUsage, limit, batch, router, hostChild, used, usage,
                     disposal>>
      /\ lifeOfTeam' \in {"cancelled", "cancelling"}
  BY DEF CancelTeam
<1>2. \A a \in Batched : /\ mark[a] \in Executions /\ mark[a].at = execution[a].at
                         /\ execution[a].abort => mark[a].abort
  BY DEF BatchInv, ProcessTyped, Executions
<1> HIDE DEF mark
<1>3. ProcessTyped' /\ \A a \in Batched : Phase(a)'
  BY <1>1, <1>2, StopKeeps
<1>4. JournalTyped' /\ RouterTyped' /\ UsageTyped'
  BY <1>1 DEF BatchInv, JournalTyped, RouterTyped, UsageTyped, router, usage
<1> QED
  BY <1>3, <1>4 DEF BatchInv

(* The executor is disposed of. *)
LEMMA DisposeKeeps ==
    ASSUME BatchInv, NEW ok \in BOOLEAN, DisposeExecutor(ok)
    PROVE  BatchInv'
<1> DEFINE mark == [a \in Batched |->
                     IF execution[a].at = "none" THEN NoExecution
                     ELSE [execution[a] EXCEPT !.abort = TRUE, !.pending = FALSE,
                                          !.refused = execution[a].at \in Bound /\ ~ok]]
<1>1. /\ Stop(ok, mark) /\ disposal' = "draining" /\ subs' = {}
      /\ UNCHANGED <<journal, batch, router, hostChild, used, shared>>
  BY DEF DisposeExecutor
<1>2. ASSUME NEW a \in Batched
      PROVE  /\ mark[a] \in Executions /\ mark[a].at = execution[a].at
             /\ execution[a].at # "none" => mark[a].abort
  <2>1. execution[a] \in Executions
    BY DEF BatchInv, ProcessTyped
  <2>2. CASE execution[a].at = "none"
    BY <2>2, NoExecutionTyped
  <2>3. CASE execution[a].at # "none"
    BY <2>1, <2>3 DEF Executions
  <2> QED
    BY <2>2, <2>3
<1> HIDE DEF mark
<1>3. JournalTyped' /\ RouterTyped' /\ UsageTyped'
  BY <1>1 DEF BatchInv, JournalTyped, RouterTyped, UsageTyped, journal, router
<1>4. ProcessTyped' /\ \A a \in Batched : Phase(a)'
  BY <1>1, <1>2, StopKeeps DEF journal
<1> QED
  BY <1>3, <1>4 DEF BatchInv

(* The execution timer interrupts its child. *)
LEMMA TimerKeeps ==
    ASSUME BatchInv, NEW a \in Batched, TimerFires(a)
    PROVE  BatchInv'
<1>1. /\ UNCHANGED <<journal, batch, execution, router, hostChild, used, usage, disposal>> /\ a \in timers
      /\ timers' = timers \ {a} /\ asked' = [asked EXCEPT ![a] = TRUE]
  BY DEF TimerFires
<1>2. JournalTyped' /\ ProcessTyped' /\ RouterTyped' /\ UsageTyped'
  BY <1>1 DEF BatchInv, JournalTyped, ProcessTyped, RouterTyped, UsageTyped, journal, router, usage
<1>3. /\ asked'[a] /\ \A b \in Batched \ {a} : asked'[b] = asked[b]
  BY <1>1 DEF BatchInv, ProcessTyped
<1>4. Phase(a)'
  BY <1>1, <1>3 DEF BatchInv, Phase, Bound, journal
<1>5. \A b \in Batched \ {a} : Phase(b)'
  BY <1>1, <1>3, PhaseRests DEF BatchInv, journal
<1> QED
  BY <1>2, <1>4, <1>5 DEF BatchInv

(* The disposal resolves, or may be asked again. *)
LEMMA DrainKeeps ==
    ASSUME BatchInv, Drain
    PROVE  BatchInv'
<1>1. /\ UNCHANGED <<journal, batch, processVars, usage>> /\ disposal = "draining"
      /\ disposal' \in {"failed", "done"} /\ InTransit = {}
  BY DEF Drain
<1>2. JournalTyped' /\ UsageTyped'
  BY <1>1 DEF BatchInv, JournalTyped, UsageTyped, journal, processVars, usage
<1>3. RouterTyped'
  BY RouterEnds DEF Drain, BatchInv, RouterTyped, router
<1>4. \/ execution' = execution
      \/ execution' = [a \in Batched |-> NoExecution]
  BY DEF Drain
<1>5. ProcessTyped'
  BY <1>1, <1>4, NoExecutionTyped DEF BatchInv, ProcessTyped, processVars
<1>6. ASSUME NEW a \in Batched PROVE Phase(a)'
  <2>1. execution[a].at \in {"none", "owned"}
    BY <1>1 DEF InTransit, BatchInv, ProcessTyped, Executions, Claimed
  <2>2. Phase(a) /\ execution'[a] \in {execution[a], NoExecution}
    BY <1>4 DEF BatchInv
  <2> QED
    BY <1>1, <2>1, <2>2, NoExecutionTyped DEF Phase, Bound, journal, processVars
<1> QED
  BY <1>2, <1>3, <1>5, <1>6 DEF BatchInv

(* Every step keeps hold of the children. *)
LEMMA ChildrenStep ==
    ASSUME BatchInv, [ChildrenNext]_childrenVars
    PROVE  BatchInv'
<1>1. CASE UNCHANGED childrenVars
  BY <1>1
     DEF childrenVars, journal, router, processVars, usage, BatchInv, JournalTyped, ProcessTyped,
         RouterTyped, UsageTyped, Phase
<1>2. CASE Launch \/ Drain
  BY <1>2, LaunchKeeps, DrainKeeps
<1>3. CASE \E f \in Foreigners : ForeignEnd(f)
  BY <1>3, ForeignKeeps
<1>4. CASE \E l \in Limits : SetPolicy(l)
  BY <1>4, PolicyKeeps
<1>5. CASE \E B \in Dispatchable, ok \in BOOLEAN : IntendBatch(B, ok)
  BY <1>5, IntendKeeps
<1>6. CASE \E a \in Batched : PassGate(a) \/ HostRefuses(a) \/ StartResumes(a)
  BY <1>6, PassKeeps
<1>7. CASE \E a \in Batched : NativeAdmit(a) \/ LoseAdmission(a) \/ ChildReports(a) \/ TimerFires(a)
  BY <1>7, AdmitKeeps, LoseKeeps, ReportKeeps, TimerKeeps
<1>8. CASE \E a \in Batched, ok \in BOOLEAN :
             RecordStartFailure(a, ok) \/ RecordUsage(a, ok) \/ SettleEnd(a, ok)
  BY <1>8, FailureKeeps, UsageKeeps, SettleEndKeeps
<1>9. CASE \E a \in Batched, ok \in BOOLEAN, heard \in BOOLEAN : CommitAdmission(a, ok, heard)
  BY <1>9, CommitKeeps
<1>10. CASE \E a \in Batched, quiet \in BOOLEAN : NativeEnd(a, quiet)
  BY <1>10, NativeEndKeeps
<1>11. CASE \E e \in ends : RouteEnd(e)
  BY <1>11, DeliverKeeps
<1>12. CASE \E ok \in BOOLEAN : CancelTeam(ok) \/ DisposeExecutor(ok)
  BY <1>12, CancelTeamKeeps, DisposeKeeps
<1> QED
  BY <1>1, <1>2, <1>3, <1>4, <1>5, <1>6, <1>7, <1>8, <1>9, <1>10, <1>11, <1>12 DEF ChildrenNext

(* The executor's hold on its children: every state is typed, and every attempt is in its phase. *)
THEOREM BatchInvariant == ChildrenSpec => []BatchInv
<1>1. ChildrenInit => BatchInv
  BY ChildrenBegin
<1>2. BatchInv /\ [ChildrenNext]_childrenVars => BatchInv'
  BY ChildrenStep
<1> QED
  BY <1>1, <1>2, PTL DEF ChildrenSpec

(* A disposal that resolves has told every child it owned. *)
LEMMA DisposalTells ==
    ASSUME BatchInv, ChildrenNext, disposal = "draining", disposal' = "done",
           NEW a \in Batched, execution[a].at # "none", hostChild[a] = "live"
    PROVE  asked[a] /\ ~execution[a].refused
<1>1. Drain
  BY DEF ChildrenNext, Launch, ForeignEnd, SetPolicy, IntendBatch, PassGate, NativeAdmit, HostRefuses,
         RecordStartFailure, StartResumes, CommitAdmission, LoseAdmission, ChildReports, RecordUsage,
         NativeEnd, RouteEnd, SettleEnd, CancelTeam, TimerFires, DisposeExecutor
<1>2. InTransit = {} /\ ~\E b \in Batched : execution[b].refused
  BY <1>1 DEF Drain
<1>3. execution[a].at = "owned"
  BY <1>2 DEF InTransit, BatchInv, ProcessTyped, Executions, Claimed
<1> QED
  BY <1>2, <1>3 DEF BatchInv, Phase

(* The executor keeps hold of the children it has started. *)
THEOREM ChildrenStayKept == ChildrenSpec => ChildrenAreKept
<1>1. BatchInv => ChildrenTypeOK /\ ChildrenAreTimed
  <2>1. ASSUME BatchInv PROVE ChildrenTypeOK
    BY <2>1 DEF BatchInv, JournalTyped, ProcessTyped, RouterTyped, ChildrenTypeOK, Executions,
                Counts, Amounts
  <2>2. ASSUME BatchInv PROVE ChildrenAreTimed
    BY <2>2 DEF BatchInv, Phase, ChildrenAreTimed
  <2> QED
    BY <2>1, <2>2
<1>2. BatchInv /\ [ChildrenNext]_childrenVars =>
        [disposal = "draining" /\ disposal' = "done" =>
           \A a \in Batched :
             execution[a].at # "none" /\ hostChild[a] = "live" => asked[a] /\ ~execution[a].refused]_childrenVars
  BY DisposalTells
<1> QED
  BY <1>1, <1>2, BatchInvariant, PTL DEF ChildrenSpec, ChildrenAreKept, DisposalStopsChildren

(* Two sets of tokens hold together no more than their sum. *)
LEMMA UnionFits ==
    ASSUME NEW S, NEW T, IsFiniteSet(S), IsFiniteSet(T)
    PROVE  /\ IsFiniteSet(S \cup T) /\ Cardinality(S \cup T) \in Nat
           /\ Cardinality(S \cup T) <= Cardinality(S) + Cardinality(T)
<1>1. /\ IsFiniteSet(S \cup T) /\ IsFiniteSet(S \cap T)
      /\ Cardinality(S \cup T) = Cardinality(S) + Cardinality(T) - Cardinality(S \cap T)
  <2>1. IsFiniteSet(S \cap T)
    <3>1. S \cap T \in SUBSET S
      OBVIOUS
    <3> QED
      BY <3>1, FS_Subset
  <2> QED
    BY <2>1, FS_Union
<1>2. /\ Cardinality(S \cup T) \in Nat /\ Cardinality(S \cap T) \in Nat
      /\ Cardinality(S) \in Nat /\ Cardinality(T) \in Nat
  BY <1>1, FS_CardinalityType
<1> QED
  BY <1>1, <1>2

(* What the children of a batch may spend is what was spending and a reserve for each of those held. *)
LEMMA SpentIsCovered ==
    ASSUME BatchInv, UsageKnown, limit # Unset, NEW B \in Dispatchable, IntendBatch(B, TRUE)
    PROVE  Tokens([a \in Batched |-> Spent(a)], Batched)'
             \subseteq Tokens(endUsage, Batched) \cup ((Held \cup B) \X (1 .. Reserve))
<1>1. /\ \A a \in Batched : status'[a] = IF a \in B THEN "dispatching" ELSE status[a]
      /\ \A a \in Batched : resv'[a] = IF a \in B THEN "active" ELSE resv[a]
      /\ UNCHANGED <<endUsage, used>>
  BY DEF IntendBatch, Reserved, processVars
<1>2. \A a \in Batched : endUsage[a] \in Int
  BY CountsAre, ChildrenAssumption DEF BatchInv, JournalTyped, Pending
<1>3. ASSUME NEW a \in Batched, NEW t \in 1 .. Spent(a)'
      PROVE  t \in 1 .. endUsage[a] \/ (a \in Held \cup B /\ t \in 1 .. Reserve)
  <2>1. CASE status'[a] \in Unended
    <3>1. resv'[a] = "active" /\ t \in 1 .. Reserve
      <4>1. ~(t \in 1 .. 0)
        OBVIOUS
      <4> QED
        BY <2>1, <4>1 DEF Spent
    <3>2. a \in Held \cup B
      BY <1>1, <3>1 DEF Held
    <3> QED
      BY <3>1, <3>2
  <2>2. CASE status'[a] \notin Unended
    <3>1. status[a] = status'[a] /\ endUsage'[a] = endUsage[a] /\ used'[a] = used[a]
      BY <1>1, <2>2 DEF Unended
    <3>2. CASE endUsage[a] >= 0
      BY <2>2, <3>1, <3>2 DEF Spent
    <3>3. CASE ~(endUsage[a] >= 0)
      <4>1. status[a] \in {"none", "failed"}
        <5>1. endUsage[a] < 0
          BY <1>2, <3>3
        <5>2. status[a] # "ended"
          BY <5>1 DEF UsageKnown, HasSession
        <5> QED
          BY <2>2, <3>1, <5>2 DEF BatchInv, JournalTyped
      <4>2. used[a] = 0
        BY <4>1 DEF BatchInv, Phase
      <4>3. Spent(a)' = 0
        BY <2>2, <3>1, <3>3, <4>2 DEF Spent
      <4> QED
        BY <4>3
    <3> QED
      BY <3>2, <3>3
  <2> QED
    BY <2>1, <2>2
<1> QED
  BY <1>3 DEF Tokens

(* The sums over the attempts are finite. *)
LEMMA TokensFinite ==
    ASSUME BatchInv
    PROVE  /\ IsFiniteSet(Tokens(endUsage, Batched))
           /\ \A S \in SUBSET Batched : /\ IsFiniteSet(S) /\ IsFiniteSet(S \X (1 .. Reserve))
                                        /\ Cardinality(S) \in Nat
                                        /\ Cardinality(S \X (1 .. Reserve)) = Cardinality(S) * Reserve
<1>1. IsFiniteSet(Batched) /\ IsFiniteSet(1 .. MaxTokens) /\ IsFiniteSet(1 .. Reserve)
  BY ChildrenAssumption, FS_Interval DEF Batched
<1>2. Cardinality(1 .. Reserve) = Reserve
  <2>1. Cardinality(1 .. Reserve) = IF 1 > Reserve THEN 0 ELSE Reserve - 1 + 1
    BY ChildrenAssumption, FS_Interval
  <2> QED
    BY <2>1, ChildrenAssumption
<1>3. IsFiniteSet(Tokens(endUsage, Batched))
  <2>1. \A a \in Batched : 1 .. endUsage[a] \subseteq 1 .. MaxTokens
    <3>1. \A a \in Batched : endUsage[a] \in Int /\ endUsage[a] <= MaxTokens
      BY ChildrenAssumption DEF BatchInv, JournalTyped, Pending
    <3> QED
      BY <3>1, ChildrenAssumption
  <2>2. Tokens(endUsage, Batched) \in SUBSET (Batched \X (1 .. MaxTokens))
    BY <2>1 DEF Tokens
  <2>3. IsFiniteSet(Batched \X (1 .. MaxTokens))
    BY <1>1, FS_Product
  <2> QED
    BY <2>2, <2>3, FS_Subset
<1>4. ASSUME NEW S \in SUBSET Batched
      PROVE  /\ IsFiniteSet(S) /\ IsFiniteSet(S \X (1 .. Reserve)) /\ Cardinality(S) \in Nat
             /\ Cardinality(S \X (1 .. Reserve)) = Cardinality(S) * Reserve
  <2>1. IsFiniteSet(S)
    BY <1>1, FS_Subset
  <2>2. Cardinality(S) \in Nat
    BY <2>1, FS_CardinalityType
  <2>3. /\ IsFiniteSet(S \X (1 .. Reserve))
        /\ Cardinality(S \X (1 .. Reserve)) = Cardinality(S) * Cardinality(1 .. Reserve)
    BY <1>1, <2>1, FS_Product
  <2> QED
    BY <1>2, <2>1, <2>2, <2>3
<1> QED
  BY <1>3, <1>4

(* A batch that is admitted under a policy fits the limit. *)
LEMMA BatchFits ==
    ASSUME BatchInv, ChildrenNext, batch = {}, batch' # {}, limit # Unset
    PROVE  Total([a \in Batched |-> Spent(a)], Batched)' <= limit
<1>1. PICK B \in Dispatchable : IntendBatch(B, TRUE)
  <2>1. \E B \in Dispatchable, ok \in BOOLEAN : IntendBatch(B, ok)
    BY DEF ChildrenNext, Launch, Drain, ForeignEnd, SetPolicy, PassGate, NativeAdmit, HostRefuses,
           RecordStartFailure, StartResumes, CommitAdmission, LoseAdmission, ChildReports, RecordUsage,
           NativeEnd, RouteEnd, SettleEnd, CancelTeam, TimerFires, DisposeExecutor
  <2>2. \A B \in Dispatchable : ~IntendBatch(B, FALSE)
    BY DEF IntendBatch
  <2> QED
    BY <2>1, <2>2
<1> DEFINE spending == Tokens([a \in Batched |-> Spent(a)], Batched)'
           counted == Tokens(endUsage, Batched)
           reserved == (Held \cup B) \X (1 .. Reserve)
           heldAndNew == Held \cup B
<1>2. UsageKnown /\ Cardinality(counted) + Reserve * (Cardinality(Held) + Cardinality(B)) <= limit
  BY <1>1 DEF IntendBatch, Allowed, UsedTokens, Total
<1>3. Held \in SUBSET Batched /\ B \in SUBSET Batched /\ heldAndNew \in SUBSET Batched
  <2>1. B \subseteq Batched
    <3>1. PICK x \in Batched, b \in Batched : B = x .. b
      BY DEF Dispatchable
    <3> QED
      BY <3>1, ChildrenAssumption DEF Batched
  <2> QED
    BY <2>1 DEF Held
<1>4. spending \subseteq counted \cup reserved
  BY <1>1, <1>2, SpentIsCovered
<1>5. /\ IsFiniteSet(counted) /\ Cardinality(counted) \in Nat
      /\ IsFiniteSet(reserved) /\ Cardinality(reserved) = Cardinality(heldAndNew) * Reserve
      /\ Cardinality(heldAndNew) \in Nat /\ Cardinality(Held) \in Nat /\ Cardinality(B) \in Nat
      /\ Cardinality(heldAndNew) <= Cardinality(Held) + Cardinality(B)
  <2>1. IsFiniteSet(counted) /\ Cardinality(counted) \in Nat
    BY TokensFinite, FS_CardinalityType
  <2>2. /\ IsFiniteSet(reserved) /\ Cardinality(reserved) = Cardinality(heldAndNew) * Reserve
        /\ Cardinality(heldAndNew) \in Nat
    BY <1>3, TokensFinite
  <2>3. IsFiniteSet(Held) /\ IsFiniteSet(B) /\ Cardinality(Held) \in Nat /\ Cardinality(B) \in Nat
    BY <1>3, TokensFinite
  <2>4. Cardinality(heldAndNew) <= Cardinality(Held) + Cardinality(B)
    BY <2>3, UnionFits
  <2> QED
    BY <2>1, <2>2, <2>3, <2>4
<1> HIDE DEF counted, reserved, heldAndNew, spending
<1>6. /\ Cardinality(spending) \in Nat /\ Cardinality(reserved) \in Nat
      /\ Cardinality(spending) <= Cardinality(counted) + Cardinality(reserved)
  <2>1. /\ IsFiniteSet(counted \cup reserved) /\ Cardinality(counted \cup reserved) \in Nat
        /\ Cardinality(counted \cup reserved) <= Cardinality(counted) + Cardinality(reserved)
        /\ Cardinality(reserved) \in Nat
    BY <1>5, UnionFits, FS_CardinalityType
  <2>2. spending \in SUBSET (counted \cup reserved)
    BY <1>4
  <2>3. IsFiniteSet(spending) /\ Cardinality(spending) <= Cardinality(counted \cup reserved)
    BY <2>1, <2>2, FS_Subset
  <2>4. Cardinality(spending) \in Nat
    BY <2>3, FS_CardinalityType
  <2> QED
    BY <1>5, <2>1, <2>3, <2>4
<1>7. Cardinality(reserved) <= Reserve * (Cardinality(Held) + Cardinality(B))
  <2>1. \A m, n, k \in Nat : m <= n => m * k <= k * n
    OBVIOUS
  <2>2. Cardinality(Held) + Cardinality(B) \in Nat /\ Reserve \in Nat
    BY <1>5, ChildrenAssumption
  <2> QED
    BY <1>5, <2>1, <2>2
<1>8. Cardinality(spending) <= limit
  <2>1. limit \in Int /\ Reserve * (Cardinality(Held) + Cardinality(B)) \in Nat
    BY <1>5, ChildrenAssumption DEF BatchInv, JournalTyped, Unset
  <2> QED
    BY <1>2, <1>5, <1>6, <1>7, <2>1
<1> QED
  BY <1>8 DEF spending, Total

(* What a batch may spend fits the limit of its policy. *)
THEOREM BatchesStayFit == ChildrenSpec => BatchesFitTheLimit
<1>1. BatchInv /\ [ChildrenNext]_childrenVars =>
        [batch = {} /\ batch' # {} /\ limit # Unset =>
           Total([a \in Batched |-> Spent(a)], Batched)' <= limit]_childrenVars
  BY BatchFits
<1> QED
  BY <1>1, BatchInvariant, PTL DEF ChildrenSpec, BatchesFitTheLimit
=============================================================================
