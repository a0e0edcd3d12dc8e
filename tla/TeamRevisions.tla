----------------------------- MODULE TeamRevisions -----------------------------
(***************************************************************************)
(* Changes the user asks of completed results: a revision never reopens a  *)
(* task, it adds a group of new ones, one for the result and one for every *)
(* task that consumed it (task-revision.ts, create-task-revision.ts).      *)
(* Tasks are numbered in the order they were created (taskIds), so that a  *)
(* dependency always has the smaller number.  Requests are repeated, other *)
(* work goes on meanwhile, and a commit may stay uncertain until the       *)
(* journal is read again.                                                  *)
(***************************************************************************)
EXTENDS Integers, Sequences, FiniteSets

CONSTANTS
  RevisionIds,     \* operation ids of the requests
  Texts,           \* goals and criteria a request may ask for
  FirstTasks,      \* number of tasks of the Team's plan
  TaskLimit,       \* MAX_TEAM_TASKS
  MaxFaulted       \* bound on failures of attempts and commits

ASSUME RevisionsAssumption ==
  /\ FirstTasks \in Nat \ {0} /\ TaskLimit \in Nat /\ FirstTasks <= TaskLimit
  /\ MaxFaulted \in Nat /\ "none" \notin RevisionIds \cup Texts

VARIABLES
  graph,       \* the tasks: [deps, source, op, text, include, plan, status]
  lifecycle,   \* the Team: running, paused or completed
  ownership,       \* the Team's manual ownership: a human or the agents
  reviewed,    \* a review was requested
  limbo,       \* tasks of a commit whose outcome is unknown
  accepted,    \* [op, text, source, include] of the requests answered with their tasks
  faulted

revisionsVars == <<graph, lifecycle, ownership, reviewed, limbo, accepted, faulted>>

LastTask == Len(graph)
Added(deps, source, op, text, include, plan) ==
  [deps |-> deps, source |-> source, op |-> op, text |-> text, include |-> include,
   plan |-> plan, status |-> "pending"]

\* The plan of the Team: any acyclic graph.
RevisionsInit ==
  /\ \E d \in [1..FirstTasks -> SUBSET (1..FirstTasks)] :
       /\ \A i \in 1..FirstTasks : \A j \in d[i] : j < i
       /\ graph = [i \in 1..FirstTasks |-> Added(d[i], 0, "none", "none", FALSE, {})]
  /\ lifecycle = "running" /\ ownership = "agents" /\ reviewed = FALSE
  /\ limbo = <<>> /\ accepted = {} /\ faulted = 0

--------------------------------------------------------------------------
(* The group of a revision.                                                *)

\* A task is affected when it depends on an affected one or revises it.
Consumes(i, affected) ==
  \/ \E d \in graph[i].deps : affected[d]
  \/ graph[i].source # 0 /\ affected[graph[i].source]

\* taskRevisionSources(): the result and its consumers, previous revisions
\* included, in dependency order, which is the order of their numbers.
RevisionSources(root) ==
  LET affected[i \in 1..LastTask] == i = root \/ (i > root /\ Consumes(i, affected))
  IN {i \in 1..LastTask : affected[i]}

\* The new task of a source: its position in the group.
Mapped(sources, i) == LastTask + Cardinality({j \in sources : j <= i})

\* Mutant: a revalidated task keeps the inputs its source had.
OldInputs(i, root, sources) == IF i = root THEN {i} ELSE {i} \cup graph[i].deps

\* taskRevisionDependencies(): its own source, and the new version of each
\* input that has one.
NewInputs(i, root, sources) ==
  IF i = root THEN {i}
  ELSE {i} \cup {IF d \in sources THEN Mapped(sources, d) ELSE d : d \in graph[i].deps}

Member(i, root, sources, op, text, include) ==
  Added(NewInputs(i, root, sources), i, op, IF i = root THEN text ELSE graph[i].text,
        include, {<<j, Mapped(sources, j)>> : j \in sources})

\* The group in its order.
Group(root, op, text, include) ==
  LET sources == RevisionSources(root)
      At(k) == CHOOSE i \in sources : Mapped(sources, i) = LastTask + k
  IN [k \in 1..Cardinality(sources) |-> Member(At(k), root, sources, op, text, include)]

--------------------------------------------------------------------------
(* A request.                                                              *)

RootOf(op) == {i \in 1..LastTask : graph[i].op = op /\ \A j \in 1..(i - 1) : graph[j].op # op}

\* taskRevisionAdmissionIssue(): every affected result is settled.
RevisionAdmissible(sources) ==
  /\ lifecycle \in {"running", "paused"} /\ ownership = "agents" /\ ~reviewed
  /\ \A i \in 1..LastTask : graph[i].status # "unknown"
  /\ \A i \in sources : graph[i].status = "completed"

Confirmed(root, include) == Cardinality(RevisionSources(root)) > 1 => include

\* A new operation: its whole group is one commit of the journal.
CreateRevision(op, root, include, text, certain) ==
  /\ limbo = <<>> /\ RootOf(op) = {} /\ root <= LastTask
  /\ RevisionAdmissible(RevisionSources(root)) /\ Confirmed(root, include)
  /\ LastTask + Cardinality(RevisionSources(root)) <= TaskLimit
  /\ IF certain
     THEN /\ graph' = graph \o Group(root, op, text, include) /\ limbo' = limbo
          /\ accepted' = accepted \cup {[op |-> op, text |-> text, source |-> root, include |-> include]}
          /\ faulted' = faulted
     ELSE /\ faulted < MaxFaulted /\ faulted' = faulted + 1
          /\ limbo' = Group(root, op, text, include) /\ UNCHANGED <<graph, accepted>>
  /\ UNCHANGED <<lifecycle, ownership, reviewed>>

\* requestDigest: the request is the one that created the task.
SameRequest(i, root, include, text) ==
  graph[i].source = root /\ graph[i].include = include /\ graph[i].text = text

\* The same operation again: its tasks are the answer, nothing is written.
ReplayRevision(op, root, include, text) ==
  /\ limbo = <<>>
  /\ \E i \in RootOf(op) : SameRequest(i, root, include, text)
  /\ accepted' = accepted \cup {[op |-> op, text |-> text, source |-> root, include |-> include]}
  /\ UNCHANGED <<graph, lifecycle, ownership, reviewed, limbo, faulted>>

\* The journal is poisoned; the next Host reads what was written.
RereadPlan(written) ==
  /\ limbo # <<>> /\ limbo' = <<>>
  /\ graph' = IF written THEN graph \o limbo ELSE graph
  /\ UNCHANGED <<lifecycle, ownership, reviewed, accepted, faulted>>

--------------------------------------------------------------------------
(* The Team's other work.                                                  *)

Works == limbo = <<>> /\ lifecycle = "running" /\ ownership = "agents"
Turns(i, status) ==
  /\ graph' = [graph EXCEPT ![i].status = status]
  /\ UNCHANGED <<lifecycle, ownership, reviewed, limbo, accepted>>

StartTask(i) ==
  /\ Works /\ graph[i].status = "pending"
  /\ \A d \in graph[i].deps : graph[d].status = "completed"
  /\ Turns(i, "running") /\ faulted' = faulted

EndTask(i) ==
  /\ limbo = <<>> /\ graph[i].status = "running"
  /\ Turns(i, "completed") /\ faulted' = faulted

\* An attempt fails, or nobody knows what became of it.
FailTask(i, status) ==
  /\ limbo = <<>> /\ graph[i].status = "running" /\ status \in {"failed", "unknown"}
  /\ faulted < MaxFaulted /\ faulted' = faulted + 1
  /\ Turns(i, status)

RepeatTask(i) ==
  /\ limbo = <<>> /\ lifecycle # "completed" /\ graph[i].status \in {"failed", "unknown"}
  /\ Turns(i, "pending") /\ faulted' = faulted

\* Pause, resume, completion, a takeover or its return, and a review.
Steers(l, o, r) ==
  /\ limbo = <<>> /\ lifecycle' = l /\ ownership' = o /\ reviewed' = r
  /\ UNCHANGED <<graph, limbo, accepted, faulted>>

NothingRuns == \A i \in 1..LastTask : graph[i].status # "running"

Steer ==
  \/ lifecycle = "running" /\ Steers("paused", ownership, reviewed)
  \/ lifecycle = "paused" /\ ownership = "agents" /\ Steers("running", ownership, reviewed)
  \/ /\ lifecycle = "running" /\ \A i \in 1..LastTask : graph[i].status = "completed"
     /\ Steers("completed", ownership, reviewed)
  \/ lifecycle = "paused" /\ NothingRuns /\ ownership = "agents" /\ Steers(lifecycle, "human", reviewed)
  \/ ownership = "human" /\ Steers(lifecycle, "agents", reviewed)
  \/ lifecycle = "running" /\ ~reviewed /\ Steers(lifecycle, ownership, TRUE)

RevisionsNext ==
  \/ \E op \in RevisionIds, text \in Texts, include \in BOOLEAN, root \in 1..LastTask :
       \/ \E certain \in BOOLEAN : CreateRevision(op, root, include, text, certain)
       \/ ReplayRevision(op, root, include, text)
  \/ \E w \in BOOLEAN : RereadPlan(w)
  \/ \E i \in 1..LastTask : StartTask(i) \/ EndTask(i) \/ RepeatTask(i)
  \/ \E i \in 1..LastTask : \E s \in {"failed", "unknown"} : FailTask(i, s)
  \/ Steer

RevisionsSpec == RevisionsInit /\ [][RevisionsNext]_revisionsVars

--------------------------------------------------------------------------
(* Properties.                                                             *)

\* The task of the plan a task is a version of, and its newest version.
Origin ==
  LET origin[i \in 1..LastTask] == IF graph[i].source = 0 THEN i ELSE origin[graph[i].source]
  IN origin
Newest(c) == CHOOSE i \in 1..LastTask : Origin[i] = c /\ \A j \in 1..LastTask : Origin[j] = c => j <= i

\* What a task rests on, through the results it consumes.
Rests ==
  LET rests[i \in 1..LastTask] == graph[i].deps \cup UNION {rests[d] : d \in graph[i].deps}
  IN rests

\* However results are revised, the newest version of a task rests on the newest
\* version of everything it depends on,
NewestRestOnNewest == \A c \in 1..FirstTasks : \A a \in graph[c].deps : Newest(a) \in Rests[Newest(c)]

\* no unfinished task has an input that was replaced after it was created,
NoInputReplaced ==
  \A i \in 1..LastTask, j \in 1..LastTask :
    graph[j].source \in graph[i].deps /\ i < j => graph[i].status = "completed"

\* a request that was answered stands in the journal exactly as it was asked,
AnswersStand ==
  \A q \in accepted : \E i \in RootOf(q.op) :
    graph[i].source = q.source /\ graph[i].text = q.text /\ graph[i].include = q.include

\* and an operation revises a result once.
RevisesOnce ==
  \A i \in 1..LastTask, j \in 1..LastTask :
    graph[i].op # "none" /\ graph[i].op = graph[j].op /\ graph[i].source = graph[j].source => i = j

\* Revised one after another or again, results stay coherent
\* (TaskRevisionCoordinator.create).
RevisionsAreCoherent == NewestRestOnNewest /\ NoInputReplaced /\ AnswersStand /\ RevisesOnce
=============================================================================
