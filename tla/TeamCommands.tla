----------------------------- MODULE TeamCommands -----------------------------
(***************************************************************************)
(* The panel's commands on a Team and its tasks (commands.ts) and the      *)
(* service calls behind them.  A command names the Team it was shown; it   *)
(* is checked against the conversation that holds the Team and then runs   *)
(* as one or more journal transactions with waits between them: changing   *)
(* the model of a running task pauses the Team, stops the child, queues a  *)
(* retry, revises the contract and resumes.  Two commands interleave at    *)
(* every wait, and the Client may send one request twice.                  *)
(*                                                                         *)
(* A step is the code between two awaits.  A contract is what the three    *)
(* revising commands set, by aspect.                                       *)
(***************************************************************************)
EXTENDS Integers, Sequences, FiniteSets

CONSTANTS
  Requests,        \* commands the conversations send
  Kinds,           \* the kinds of command they may be
  Ids,             \* request ids; two commands with one id are one request
  Conversations,   \* main conversations that may hold the Team
  Tasks,           \* tasks of the Team
  Values,          \* what a contract may be set to
  First,           \* the value every contract starts with
  MaxTries         \* bound on the attempts of a task

AllKinds == {"pause", "resume", "cancel", "retry", "stop", "model", "authority", "scope",
             "acquire", "return", "attach"}

ASSUME CommandsAssumption ==
  /\ Kinds \subseteq AllKinds /\ MaxTries \in Nat /\ First \in Values
  /\ Requests # {} /\ Conversations # {} /\ Tasks # {}
  /\ Ids # {} /\ "none" \notin Ids

VARIABLES
  request,   \* how far each command is
  team,      \* team.status
  task,      \* status of each task
  contract,  \* what the journal says of each task
  run,       \* #active: the attempt of a task that runs, with its contract
  tries,     \* attempts of each task
  ops,       \* operations in the journal, in their order
  owner,     \* the task a human owns, and the operation that acquired it
  holder     \* the conversation that holds the Team

commandsVars == <<request, team, task, contract, run, tries, ops, owner, holder>>

Aspects == {"model", "authority", "scope"}
Revising == {"model", "authority"}
None == [task |-> CHOOSE t \in Tasks : TRUE, id |-> "none"]
Idle == [on |-> FALSE, told |-> FALSE, with |-> [a \in Aspects |-> First]]
Blank == [kind |-> "pause", task |-> CHOOSE t \in Tasks : TRUE, value |-> First,
          id |-> CHOOSE i \in Ids : TRUE, by |-> CHOOSE c \in Conversations : TRUE,
          at |-> "new", try |-> 0, ran |-> FALSE, again |-> FALSE, live |-> FALSE,
          left |-> {}, answer |-> "none"]
Unfinished == {"ready", "failed", "cancelled"}

CommandsTypeOK ==
  /\ request \in [Requests ->
       [kind : AllKinds, task : Tasks, value : Values, id : Ids, by : Conversations,
        at : {"new", "target", "first", "commit", "kill", "dying", "wait", "retry", "revise",
              "resume", "resumeRetry", "resumeCommit", "settle", "done"},
        try : Nat, ran : BOOLEAN, again : BOOLEAN, live : BOOLEAN, left : SUBSET Tasks,
        answer : {"none", "ok", "error"}]]
  /\ team \in {"running", "pausing", "paused", "cancelling", "cancelled", "completed"}
  /\ task \in [Tasks -> {"ready", "running", "completed", "failed", "cancelled"}]
  /\ contract \in [Tasks -> [Aspects -> Values]]
  /\ run \in [Tasks -> [on : BOOLEAN, told : BOOLEAN, with : [Aspects -> Values]]]
  /\ tries \in [Tasks -> Nat] /\ holder \in Conversations

CommandsInit ==
  /\ request = [r \in Requests |-> Blank]
  /\ team \in {"running", "paused"} /\ task = [t \in Tasks |-> "ready"]
  /\ contract = [t \in Tasks |-> [a \in Aspects |-> First]]
  /\ run = [t \in Tasks |-> Idle] /\ tries = [t \in Tasks |-> 0]
  /\ ops = <<>> /\ owner = None /\ holder = Blank.by

--------------------------------------------------------------------------
(* Operations and what the projection admits.                              *)

Human == owner # None
Active == \E t \in Tasks : run[t].on
Done(tasks) == \A t \in Tasks : tasks[t] = "completed"

\* The id a step of a command is recorded under; each retry that a resume makes
\* has one that names its task.
SameOperation(e, id, step, t) ==
  e.id = id /\ e.step = step /\ (step = "resume-retry" => e.task = t)
Entries(id, step, t) == {i \in DOMAIN ops : SameOperation(ops[i], id, step, t)}

\* The journal entry of an operation: its kind, its task and what it set.
Entry(id, step, k, t, v) == [id |-> id, step |-> step, kind |-> k, task |-> t, value |-> v]

Replayed(id, step, k, t, v) ==
  \E i \in Entries(id, step, t) : ops[i] = Entry(id, step, k, t, v)

\* The id was used for something else (operationIdUsed and the previous record).
Conflicts(id, step, k, t, v) ==
  Entries(id, step, t) # {} /\ \A i \in Entries(id, step, t) : ops[i] # Entry(id, step, k, t, v)

\* The latest Team control decides whether a cancellation is pending.
TeamWide == {"pause", "resume", "cancel"}
CancelPending ==
  \E i \in DOMAIN ops : /\ ops[i].kind = "cancel"
                        /\ \A j \in DOMAIN ops : j > i => ops[j].kind \notin TeamWide

\* manualTakeoverIssue() and the executor's own attempts.
Takeover(t) ==
  /\ ~Human /\ team = "paused" /\ ~CancelPending
  /\ task[t] \in Unfinished /\ ~Active

--------------------------------------------------------------------------
(* Status events that a transaction appends with its operation.            *)

Schedulable(tasks) == {t \in Tasks : tasks[t] = "ready"}

\* #withQuiescentTeamCompletion, settleQuiescentRunningTeam.
Quiesced(status, tasks, active) ==
  IF active THEN status
  ELSE CASE status = "pausing" -> "paused"
         [] status = "cancelling" -> "cancelled"
         [] status = "running" /\ Done(tasks) -> "completed"
         [] status = "running" /\ ~Done(tasks) /\ Schedulable(tasks) = {} -> "paused"
         [] OTHER -> status

StatusAllows(k) ==
  CASE k = "pause" -> team \in {"running", "pausing"}
    [] k = "resume" -> team \in {"paused", "pausing"} /\ ~Human
    [] k = "cancel" -> team \in {"running", "pausing", "paused"}

\* pauseStatusEvents, resumeStatusEvents, cancelStatusEvents.
ControlStatus(k) ==
  CASE k = "pause" -> IF Active THEN "pausing" ELSE "paused"
    [] k = "resume" -> IF Done(task) THEN "completed" ELSE "running"
    [] k = "cancel" -> IF Active THEN "cancelling" ELSE "cancelled"

\* One control transaction: accepted, replayed (nothing changes) or refused.
Controls(k, id, step) ==
  /\ ~Conflicts(id, step, k, Blank.task, First)
  /\ Replayed(id, step, k, Blank.task, First) \/ StatusAllows(k)

Control(k, id, step) ==
  IF Replayed(id, step, k, Blank.task, First) THEN UNCHANGED <<team, task, ops, run>>
  ELSE /\ ops' = Append(ops, Entry(id, step, k, Blank.task, First))
       /\ team' = ControlStatus(k)
       /\ task' = IF k = "cancel"
                  THEN [t \in Tasks |-> IF task[t] = "ready" THEN "cancelled" ELSE task[t]]
                  ELSE task
       /\ run' = IF k = "cancel" THEN [t \in Tasks |-> [run[t] EXCEPT !.told = run[t].on]]
                 ELSE run

\* TaskRetryCoordinator.retry().
Retries(t, id, step) ==
  /\ ~Human /\ ~Conflicts(id, step, "retry", t, First)
  /\ \/ Replayed(id, step, "retry", t, First)
     \/ team \in {"running", "paused"} /\ task[t] \in {"failed", "cancelled"}

Retry(t, id, step) ==
  IF Replayed(id, step, "retry", t, First) THEN UNCHANGED <<task, ops>>
  ELSE /\ task' = [task EXCEPT ![t] = "ready"]
       /\ ops' = Append(ops, Entry(id, step, "retry", t, First))

--------------------------------------------------------------------------
(* Commands are sent, and find their target.                               *)

At(r, k, at) == request[r].at = at /\ request[r].kind \in k
Moves(r, at) == [request EXCEPT ![r].at = at]
Answers(r, a) == [request EXCEPT ![r] = [@ EXCEPT !.at = "done", !.answer = a, !.left = {},
                                                  !.try = 0, !.ran = FALSE, !.again = FALSE,
                                                  !.live = FALSE]]
\* A kind that names no task, or sets nothing, leaves that field blank.
Send(r, k, t, v, i, c) ==
  /\ request[r].at = "new"
  /\ k \in TeamWide \cup {"attach"} => t = Blank.task
  /\ k \notin Aspects => v = First
  /\ request' = [request EXCEPT ![r] =
       [@ EXCEPT !.kind = k, !.task = t, !.value = v, !.id = i, !.by = c, !.at = "target"]]
  /\ UNCHANGED <<team, task, contract, run, tries, ops, owner, holder>>

\* commandTarget(): the controller is resolved, then its binding is read.
Target(r) ==
  /\ request[r].at = "target"
  /\ IF request[r].kind = "attach" \/ request[r].by = holder
     THEN request' = Moves(r, IF request[r].kind = "resume" THEN "resume" ELSE "first")
     ELSE request' = Answers(r, "error")
  /\ UNCHANGED <<team, task, contract, run, tries, ops, owner, holder>>

\* rebindTeam(): the binding moves, an operation replayed moves nothing.
Attach(r) ==
  LET c == request[r]
      again == Replayed(c.id, "main", "attach", Blank.task, First)
  IN
  /\ At(r, {"attach"}, "first") /\ ~Conflicts(c.id, "main", "attach", Blank.task, First)
  /\ holder' = IF again THEN holder ELSE c.by
  /\ ops' = IF again THEN ops ELSE Append(ops, Entry(c.id, "main", "attach", Blank.task, First))
  /\ request' = Answers(r, "ok")
  /\ UNCHANGED <<team, task, contract, run, tries, owner>>

ControlCommand(r) ==
  LET c == request[r] IN
  /\ At(r, {"pause", "cancel"}, "first") /\ Controls(c.kind, c.id, "main")
  /\ Control(c.kind, c.id, "main")
  /\ request' = Answers(r, "ok")
  /\ UNCHANGED <<contract, tries, owner, holder>>

RetryCommand(r) ==
  LET c == request[r] IN
  /\ At(r, {"retry"}, "first") /\ Retries(c.task, c.id, "main")
  /\ Retry(c.task, c.id, "main")
  /\ request' = CASE team = "paused" -> Moves(r, "resume")
                  [] team \in {"running", "completed"} -> Answers(r, "ok")
                  [] OTHER -> Answers(r, "error")
  /\ UNCHANGED <<team, contract, run, tries, owner, holder>>

--------------------------------------------------------------------------
(* Resume: interrupted tasks are retried first, each in a transaction of   *)
(* its own, after which those left are looked at again.                    *)

\* The operation a step of a command is recorded under.
Step(r, s) == IF request[r].kind = s THEN "main" ELSE s

Executable == Schedulable(task) # {} \/ Done(task)

ResumeRead(r) ==
  LET c == request[r]
      known == Entries(c.id, Step(r, "resume"), Blank.task) # {}
      interrupted == {t \in Tasks : task[t] = "cancelled"}
  IN
  /\ c.at = "resume"
  /\ request' =
       CASE Human -> Answers(r, "error")
         [] ~Human /\ team = "running" /\ ~known /\ ~CancelPending -> Answers(r, "ok")
         [] ~Human /\ team = "paused" /\ ~known /\ interrupted # {} ->
              [request EXCEPT ![r].at = "resumeRetry", ![r].left = interrupted]
         [] ~Human /\ team = "paused" /\ ~known /\ interrupted = {} /\ ~Executable ->
              Answers(r, "error")
         [] OTHER -> Moves(r, "resumeCommit")
  /\ UNCHANGED <<team, task, contract, run, tries, ops, owner, holder>>

ResumeRetry(r, t) ==
  /\ request[r].at = "resumeRetry" /\ t \in request[r].left
  /\ Retries(t, request[r].id, "resume-retry") /\ Retry(t, request[r].id, "resume-retry")
  /\ LET left == {u \in request[r].left \ {t} : task'[u] = "cancelled"} IN
     request' = [request EXCEPT ![r].left = left,
                                ![r].at = IF left = {} THEN "resumeCommit" ELSE "resumeRetry"]
  /\ UNCHANGED <<team, contract, run, tries, owner, holder>>

\* A Team that did not come back running is answered as it is.
Resumed(r) == IF request[r].kind \in Revising THEN "ok"
              ELSE IF team' \in {"running", "completed"} THEN "ok" ELSE "error"

ResumeCommit(r) ==
  /\ request[r].at = "resumeCommit" /\ Controls("resume", request[r].id, Step(r, "resume"))
  /\ Control("resume", request[r].id, Step(r, "resume"))
  /\ request' = IF team' = "running" THEN Moves(r, "settle") ELSE Answers(r, Resumed(r))
  /\ UNCHANGED <<contract, tries, owner, holder>>

\* settleQuiescentRunningTeam(), then the runner is woken.
ResumeSettle(r) ==
  /\ request[r].at = "settle"
  /\ team' = IF team = "running" THEN Quiesced(team, task, Active) ELSE team
  /\ request' = Answers(r, Resumed(r))
  /\ UNCHANGED <<task, contract, run, tries, ops, owner, holder>>

--------------------------------------------------------------------------
(* Stopping one child, and changing the contract of a task.                *)

StopRead(r) ==
  LET c == request[r] IN
  /\ At(r, {"stop"}, "first")
  /\ request' =
       CASE Entries(c.id, "main", c.task) # {} /\ Conflicts(c.id, "main", "stop", c.task, First) ->
              Answers(r, "error")
         [] Replayed(c.id, "main", "stop", c.task, First) ->
              IF run[c.task].on THEN [request EXCEPT ![r].at = "kill", ![r].try = tries[c.task]]
              ELSE Answers(r, "ok")
         [] Entries(c.id, "main", c.task) = {} /\ task[c.task] \in {"completed", "failed", "cancelled"} ->
              Answers(r, "ok")
         [] Entries(c.id, "main", c.task) = {} /\ run[c.task].on /\ team = "running" ->
              [request EXCEPT ![r].at = "commit", ![r].try = tries[c.task]]
         [] OTHER -> Answers(r, "error")
  /\ UNCHANGED <<team, task, contract, run, tries, ops, owner, holder>>

\* The transaction reads again: a task that ended, or the intent itself, is fine.
Rested(t) == task[t] \in {"completed", "failed", "cancelled"}
Stops(c) ==
  \/ Rested(c.task) \/ Replayed(c.id, "main", "stop", c.task, First)
  \/ /\ ~Conflicts(c.id, "main", "stop", c.task, First)
     /\ team = "running" /\ run[c.task].on /\ tries[c.task] = c.try

StopCommit(r) ==
  LET c == request[r] IN
  /\ At(r, {"stop"}, "commit") /\ Stops(c)
  /\ ops' = IF Rested(c.task) \/ Replayed(c.id, "main", "stop", c.task, First) THEN ops
            ELSE Append(ops, Entry(c.id, "main", "stop", c.task, First))
  /\ request' = IF task[c.task] = "running" THEN Moves(r, "kill") ELSE Answers(r, "ok")
  /\ UNCHANGED <<team, task, contract, run, tries, owner, holder>>

\* setTaskModel and setTaskAuthority decide on the state they read first.  The
\* model change pauses a running Team for a retry of a task at rest too.
ChangeRead(r) ==
  LET t == request[r].task
      again == task[t] \in {"running", "failed", "cancelled"}
      pauses == IF request[r].kind = "model" /\ team = "running" THEN again
                ELSE task[t] = "running"
  IN
  /\ At(r, Revising, "first")
  /\ request' = [request EXCEPT ![r].at = IF pauses THEN "commit"
                                          ELSE IF again THEN "retry" ELSE "revise",
                                ![r].try = tries[t], ![r].again = again,
                                ![r].ran = task[t] = "running",
                                ![r].live = team = "running"]
  /\ UNCHANGED <<team, task, contract, run, tries, ops, owner, holder>>

ChangePause(r) ==
  /\ At(r, Revising, "commit") /\ Controls("pause", request[r].id, "pause")
  /\ Control("pause", request[r].id, "pause")
  /\ request' = Moves(r, IF request[r].ran THEN "kill" ELSE "wait")
  /\ UNCHANGED <<contract, tries, owner, holder>>

\* cancelAttemptAndWait(): only an attempt the executor still owns.
Kill(r) ==
  LET c == request[r] IN
  /\ c.at = "kill"
  /\ IF run[c.task].on /\ tries[c.task] = c.try
     THEN run' = [run EXCEPT ![c.task].told = TRUE] /\ request' = Moves(r, "dying")
     ELSE run' = run /\ request' = Answers(r, "error")
  /\ UNCHANGED <<team, task, contract, tries, ops, owner, holder>>

\* The child ended, and its end is in the journal; or the wait timed out.
Dead(r) ==
  LET c == request[r] IN
  /\ c.at = "dying"
  /\ request' \in
       {Answers(r, "error")} \cup
       (IF run[c.task].on /\ tries[c.task] = c.try THEN {}
        ELSE IF c.kind \in Revising THEN {Moves(r, "wait")}
        ELSE IF task[c.task] = "cancelled" THEN {Answers(r, "ok")} ELSE {})
  /\ UNCHANGED <<team, task, contract, run, tries, ops, owner, holder>>

\* waitForTeamPaused(): polls; a Team that leaves pausing otherwise is an error.
Paused(r) ==
  LET next == IF request[r].again THEN "retry" ELSE "revise" IN
  /\ request[r].at = "wait"
  /\ request' \in IF team = "paused" THEN {Moves(r, next)} ELSE {Answers(r, "error")}
  /\ UNCHANGED <<team, task, contract, run, tries, ops, owner, holder>>

ChangeRetry(r) ==
  /\ request[r].at = "retry" /\ Retries(request[r].task, request[r].id, "retry")
  /\ Retry(request[r].task, request[r].id, "retry")
  /\ request' = Moves(r, "revise")
  /\ UNCHANGED <<team, contract, run, tries, owner, holder>>

\* Mutant: the revision trusts the status the command read before its waits.
AnyStatus(r) == TRUE

\* The revision's transaction reads the task again.
Revisable(r) == task[request[r].task] = "ready"

Revise(r) ==
  LET c == request[r]
      resumes == IF c.kind = "model" THEN c.live /\ c.again ELSE c.ran
  IN
  /\ At(r, Revising, "revise") /\ Revisable(r) /\ ~Human
  /\ contract' = [contract EXCEPT ![c.task][c.kind] = c.value]
  /\ request' = IF resumes THEN Moves(r, "resume") ELSE Answers(r, "ok")
  /\ UNCHANGED <<team, task, run, tries, ops, owner, holder>>

--------------------------------------------------------------------------
(* Commands of one transaction on a paused Team.                           *)

\* setTaskFileScope(): retry and revision are one commit under one receipt.
Scope(r) ==
  LET c == request[r] IN
  /\ At(r, {"scope"}, "first") /\ ~Conflicts(c.id, "main", "scope", c.task, c.value)
  /\ IF Replayed(c.id, "main", "scope", c.task, c.value) THEN UNCHANGED <<task, contract, ops>>
     ELSE /\ Takeover(c.task)
          /\ task' = [task EXCEPT ![c.task] = "ready"]
          /\ contract' = [contract EXCEPT ![c.task]["scope"] = c.value]
          /\ ops' = Append(ops, Entry(c.id, "main", "scope", c.task, c.value))
  /\ request' = Answers(r, "ok")
  /\ UNCHANGED <<team, run, tries, owner, holder>>

Acquire(r) ==
  LET c == request[r] IN
  /\ At(r, {"acquire"}, "first") /\ ~Conflicts(c.id, "main", "acquire", c.task, First)
  /\ IF Replayed(c.id, "main", "acquire", c.task, First)
     THEN ~Active /\ UNCHANGED <<ops, owner>>
     ELSE /\ Takeover(c.task)
          /\ owner' = [task |-> c.task, id |-> c.id]
          /\ ops' = Append(ops, Entry(c.id, "main", "acquire", c.task, First))
  /\ request' = Answers(r, "ok")
  /\ UNCHANGED <<team, task, contract, run, tries, holder>>

\* The acquisition named is the one that holds.
Returnable(c) == Human /\ owner.task = c.task /\ team \in {"paused", "cancelled"}

\* Ownership ends; nothing is resumed.
Return(r) ==
  LET c == request[r] IN
  /\ At(r, {"return"}, "first") /\ ~Conflicts(c.id, "main", "return", c.task, First)
  /\ IF Replayed(c.id, "main", "return", c.task, First) THEN UNCHANGED <<ops, owner>>
     ELSE /\ Returnable(c)
          /\ owner' = None
          /\ ops' = Append(ops, Entry(c.id, "main", "return", c.task, First))
  /\ request' = Answers(r, "ok")
  /\ UNCHANGED <<team, task, contract, run, tries, holder>>

\* A transaction that throws: its command is answered with the error.
Throws(r) ==
  LET c == request[r]
      conflict == Conflicts(c.id, "main", c.kind, c.task, c.value)
      again == Replayed(c.id, "main", c.kind, c.task, c.value)
      first == c.at = "first"
  IN
  /\ \/ first /\ c.kind = "attach" /\ conflict
     \/ first /\ c.kind \in {"pause", "cancel"} /\ ~Controls(c.kind, c.id, "main")
     \/ first /\ c.kind = "retry" /\ ~Retries(c.task, c.id, "main")
     \/ first /\ c.kind = "scope" /\ ~again /\ (conflict \/ ~Takeover(c.task))
     \/ first /\ c.kind = "acquire" /\ (IF again THEN Active ELSE conflict \/ ~Takeover(c.task))
     \/ first /\ c.kind = "return" /\ ~again /\ (conflict \/ ~Returnable(c))
     \/ At(r, {"stop"}, "commit") /\ ~Stops(c)
     \/ At(r, Revising, "commit") /\ ~Controls("pause", c.id, "pause")
     \/ c.at = "retry" /\ ~Retries(c.task, c.id, "retry")
     \/ c.at = "revise" /\ (~Revisable(r) \/ Human)
     \/ c.at = "resumeRetry" /\ \E t \in c.left : ~Retries(t, c.id, "resume-retry")
     \/ c.at = "resumeCommit" /\ ~Controls("resume", c.id, Step(r, "resume"))
  /\ request' = Answers(r, "error")
  /\ UNCHANGED <<team, task, contract, run, tries, ops, owner, holder>>

--------------------------------------------------------------------------
(* The scheduler and the children.                                         *)

Dispatch(t) ==
  /\ team = "running" /\ ~Human /\ task[t] = "ready" /\ tries[t] < MaxTries
  /\ task' = [task EXCEPT ![t] = "running"]
  /\ run' = [run EXCEPT ![t] = [on |-> TRUE, told |-> FALSE, with |-> contract[t]]]
  /\ tries' = [tries EXCEPT ![t] = @ + 1]
  /\ UNCHANGED <<request, team, contract, ops, owner, holder>>

\* A child ends on its own, or because it was told to, and is settled.
ChildEnds(t, end) ==
  LET after == [task EXCEPT ![t] = end] IN
  /\ run[t].on /\ (end = "cancelled" => run[t].told)
  /\ run' = [run EXCEPT ![t] = Idle] /\ task' = after
  /\ team' = Quiesced(team, after, \E u \in Tasks : u # t /\ run[u].on)
  /\ UNCHANGED <<request, contract, tries, ops, owner, holder>>

CommandsNext ==
  \/ \E r \in Requests :
       \/ \E k \in Kinds, t \in Tasks, v \in Values, i \in Ids, c \in Conversations :
            Send(r, k, t, v, i, c)
       \/ Target(r) \/ Attach(r) \/ ControlCommand(r) \/ RetryCommand(r)
       \/ ResumeRead(r) \/ \E t \in Tasks : ResumeRetry(r, t)
       \/ ResumeCommit(r) \/ ResumeSettle(r) \/ StopRead(r) \/ StopCommit(r)
       \/ ChangeRead(r) \/ ChangePause(r) \/ Kill(r) \/ Dead(r) \/ Paused(r)
       \/ ChangeRetry(r) \/ Revise(r) \/ Scope(r) \/ Acquire(r) \/ Return(r) \/ Throws(r)
  \/ \E t \in Tasks : Dispatch(t)
  \/ \E t \in Tasks, end \in {"completed", "failed", "cancelled"} : ChildEnds(t, end)

CommandsSpec == CommandsInit /\ [][CommandsNext]_commandsVars

--------------------------------------------------------------------------
(* Properties.                                                             *)

\* While a human owns a task the whole Team rests: no child runs, and no
\* command, resumed step or dispatch brings the Team back
\* (manualTakeoverIssue, the human-owned gate of applyTeamEvent).
HumanWorksAlone == Human => ~Active /\ team \in {"paused", "cancelled"}

\* A child works under the contract the journal shows: no command, however it
\* interleaves with a dispatch, revises a task that runs (setTaskModel).
ChildrenKeepTheirContract == \A t \in Tasks : run[t].on => run[t].with = contract[t]

\* A request sent twice is recorded once: no operation of a command, nor of one
\* of its steps, is in the journal a second time (operationId replays).  What a
\* step does besides, as to stop a child, it may do again.
OperationsActOnce == \A i, j \in DOMAIN ops :
  ops[i].id = ops[j].id /\ ops[i].step = ops[j].step /\ ops[i].task = ops[j].task => i = j

\* Together: commands that interleave leave humans, children and the journal
\* in step.
CommandsHold == CommandsTypeOK /\ HumanWorksAlone /\ ChildrenKeepTheirContract /\ OperationsActOnce
=============================================================================
