# Yuqi Team Orchestrator: specification and proofs

Yuqi runs a *Team*: one controller Session, a durable graph of tasks, and child agents that
work on the tasks. Everything a Team is, is the replay of its journal
(`src/src/domain/projection.ts`); everything that happens to it is a transaction of events on
that journal. This directory specifies the parts of the plugin where those transactions
interleave with each other, with children that end whenever they like, with a user who does not
wait, and with a Host that restarts between any two steps.

Paths below are those of the repository, whose program is under `src/src`.

## The system

| part | state it keeps | operations | talks to |
|---|---|---|---|
| projection (`domain/projection.ts`, `states.ts`) | Team, task, attempt, verification, lease facts | replay, validate a batch of events | everybody reads it |
| scheduler (`application/schedule-team.ts`, `file-ownership.ts`) | none | plan, classify a resume, acquire leases | runner, resume, cold recovery |
| runner (`run-team-loop.ts`, `host/harness/run-cycle.ts`) | a pass, its verify targets, a queued failure mark, the supervisor's leases and wakes | plan, persist the schedule, dispatch, wait, verify, complete, stop | executor, verification, service |
| batch executor (`execute-team-batch.ts`, `child-settlement.ts`, `settlement-router.ts`, `continuable-child.ts`) | table of active attempts, one listener per child, early ends, observed usage, timers | start, admit, settle, interrupt, dispose | Harness children |
| progress observer, cold scan (`reconciliation-observer.ts`, `progress-adapter.ts`, `service.ts`) | one wait | settle a child it saw end | executor's attempts |
| verification (`begin-verification.ts`, `record-verification-verdict.ts`, `verification-retry.ts`, `host/verification/*`) | collection under way, one process run | begin, collect, judge, queue rework | processes, browser, journal |
| review (`review-*.ts`) | candidates, requests, a reviewer child | request, decide, rework, waive, cancel | completion, controls |
| controls (`control-team.ts`, `retry-task.ts`, `service.ts`) | a cancel call that waits, a resume that has to wake | pause, resume, cancel, stop, retry, change of model or authority, takeover and return | executor, runner |
| recovery (`reconcile-team.ts`, `resolve-attempt.ts`, `clear-recovery.ts`, `recover-owned-live-attempts.ts`, `controller-recovery.ts`) | an observation not yet committed | observe, reconcile, resolve, clear, confirm, control a cold Team | Harness child listing |
| journal (`durable-journal.ts`, `journal-gate.ts`, `session-journal.ts`, `host/storage/*`) | FIFO per controller, poison flag, revision | transaction, flush, replay of an operation, compaction | storage |
| start, follow-up, manifest, direct workspace, git | recovery manifest, claims on a directory | create, advance, reconcile, clean up | git, Sessions |
| reports and instructions (`parent-report-delivery.ts`, `team-instruction-delivery.ts`) | checkpoint, intent | deliver, replay | parent Session, children |
| budget, models, revisions, knowledge index | reservations, policies, groups, one file per project | reserve, route, retry a call, revise, record | dispatch, completion |
| client panel, tools, web API, settings | the catalog shown | present, validate, call | service |

What makes it hard: children end whenever they like, and their end is delivered by several
routes; a status is read before an `await` and used after it; a failure is marked in a
transaction of its own; a cancel call waits while the Team moves on; a client repeats what it
has no answer for; and every one of these has to leave the graph in a state some command can
continue from.

`PROJECT.json` lists the parts under `components` and the hazards, each at its line, under
`hazards`.

## Modules

The core, composed of modules that share one durable state:

* `TeamStates`: the status vocabularies and the transition tables of `states.ts`.
* `TeamProjection`: the durable variables and the predicates several writers share, such as
  `HasActiveAttempts`, `ReconciliationGap`, `HasUnresolvedFacts`, and the closing operators
  `AfterSettlement` and `AfterVerdict` that say which Team step a commit appends. Predicates take
  the state they judge as arguments, because the code calls them on the projection its own
  events lead to.
* `TeamSchedule`: `planTeamSchedule` as definitions over the projection. `IsBatch` characterises
  the greedy selection without recursion; `LeasesConflict` is the lease manager's notion of a
  conflict, `TasksConflict` the planner's: they differ on purpose, the code's do.
* `TeamExecution`: the state machine, one action per handler.
* `TeamLifecycle`: the abstract specification, three variables: the status a user reads, whether a
  cancellation was requested, whether the outcome of some handed-out work is unknown.
* `TeamSafety`: the properties of the core, and the refinement mapping to `TeamLifecycle`.

Components with a state of their own, each seen from the code between two of its awaits; what
`TeamExecution` takes as one step is opened up in them:

| module | what it opens up |
|---|---|
| `TeamRunner` | the supervisor of a controller: coalesced wakes, leases, the cycle limit, interruption, release, shutdown |
| `TeamChildren` | a batch from reservation to settlement: early ends, lost admissions, usage, timers, disposal |
| `TeamObserver` | one wait of a pass: listings, edges, heartbeats, settlement of what was seen to end |
| `TeamEvidence` | one collection of evidence: process, timeout, abort, process tree, verdict |
| `TeamReview` | review checkpoints: candidate, request, reviewer child, rework, waiver, cancellation |
| `TeamModels` | routes of attempts, and the automatic retry of a failed model call |
| `TeamCommands` | commands made of several transactions, their replay by operation id, manual ownership |
| `TeamRevisions` | revision groups and the consumers they copy |
| `TeamInstructions` | messages to running tasks and their receipts |
| `TeamDormant` | commands on, and discovery of, a Team whose controller is not loaded |
| `TeamStart` | the start saga, its manifest, follow-ups, claims on a shared directory |
| `TeamJournal` | the transaction itself: gate, queue, commit in memory and on disk, poison, replay |
| `TeamBridges` | which Teams a conversation shows, compaction of superseded cuts, the optimistic record |
| `TeamReports` | reports into the parent's inbox; its properties are in `TeamReportsSafety` |
| `TeamKnowledge` | the project's index file, written by several Teams |
| `TeamPanel` | the client's walk over the pages of the catalog |

They share no variable with each other: `TeamExecution` sees a transaction as atomic,
`TeamReports` sees the execution as a journal of facts that may follow each other, and so on.
The MC modules `MCTeamRecovery`, `MCTeamAnswers`, `MCTeamPasses`, `MCTeamSessions`, `MCTeamRequests` and
`MCTeamSettles` run several of them under one configuration: a variable `explored`, chosen in the first
state, says which component a behaviour is about, and the others keep their first state. Such a run
checks each component by itself, it is not a product of them. `MCTeamRecovery` joins `TeamExecution` and
`TeamReports`; `MCTeamAnswers` `TeamReview`, `TeamObserver` and `TeamReports`; `MCTeamPasses` `TeamRunner` and
`TeamChildren`; `MCTeamSessions` `TeamStart`, `TeamJournal`, `TeamBridges` and `TeamDormant`; `MCTeamRequests`
`TeamInstructions`, `TeamCommands`, `TeamPanel`, `TeamRevisions`, `TeamModels` and `TeamChildren`; `MCTeamSettles`
`TeamExecution`, `TeamEvidence` and `TeamKnowledge`.
`MCTeamRebinds` gives `TeamBridges` a single Team, with two or three conversations.

Proof modules, by what they are about:

| module | subject |
|---|---|
| `TeamExecutionProofs` | the core: types, cancellation, the recovery gate, children and file leases, rest, dependencies |
| `TeamPromisesProofs` | the core: earned completion, the refinement of `TeamLifecycle`, what its journal never rewrites, what the planner may meet |
| `TeamChildrenProofs` | `TeamCommands` and `TeamChildren` |
| `TeamHostProofs` | `TeamRunner`, `TeamKnowledge` and `TeamEvidence` |
| `TeamReportsProofs` | `TeamReports`, `TeamObserver` and `TeamInstructions` |
| `TeamReviewProofs` | `TeamReview`, `TeamPanel`, `TeamRevisions` and `TeamModels` |
| `TeamSessionsProofs` | `TeamStart`, `TeamDormant` and `TeamJournal` |
| `TeamBridgesProofs` | `TeamBridges` |

`TeamPromisesProofs` extends `TeamExecutionProofs`; the others are independent of each other.

### State and code of the core

| variable | code |
|---|---|
| `team`, `task`, `made`, `floor` | `team.status`, task statuses, `attemptIds.length`, `verificationAttemptFloor` |
| `attempt[a]` | status, evidence (`ev`), child binding (`bind`), latest runtime observation (`seen`), negative resolution (`neg`), task-stop operation naming it (`stop`) |
| `verif[a]` | verification of the attempt with its verdict folded in; `pending` and `running` are one value, they are written by one commit |
| `lease` | attempts whose file lease is active: one lease per attempt |
| `lastControl`, `cancelAsked`, `startupCut` | the latest control operation; whether any was a cancel (`cancellationWasRequested` looks at all of them, `hasCurrentCancellationIntent` at the latest); whether the latest status change was a startup reconciliation |
| `exec[a]` | the executor's table: `launching` (committed, start requested), `admitting` (child exists, admission not committed), `listening` (admitted, one-listener claim) |
| `child[a]` | the child Session: external, survives the Host |
| `runner`, `pass`, `retryDue`, `failureDue` | supervisor registration and pass; targets left in the verify call; a verdict whose retry has not been queued; a failure mark queued by `wakeTeamRunner` |
| `waking`, `cancelWait`, `scan` | second half of a resume; a cancel call waiting; observations not committed |

An attempt is a pair of task and ordinal. Every journal write validates against the state it
reads inside its transaction, so each is one action; what a caller read *before* its
transaction is a volatile variable (`pass`, `scan`, `failureDue`, `waking`, `cancelWait`).
`Commit` resets `scan`, because a reconciliation refuses to commit when `lastEventId` moved.

Modelling decisions a reader of the code will look for:

* A stale plan (`STALE_SCHEDULE`) is replanned once by the service, so planning and committing a
  batch is one step, `Dispatch`; a second stale plan is one of the failures of `RunnerFails`.
* The loop would persist an unsafe graph as needing reconciliation. `PlanIsSafe` says this never
  happens in a running Team, so the branch is a guard of `MayAct`, not an action.
* The verify call goes on with its remaining targets after an interrupt or a terminal status;
  so does `pass`.
* A verify target carries `task.verificationIds.at(-1)`: the last verification of the *task*.
  `NeverVerified` and `LastWaived` say what the verify call does with it.
* What evidence means is a choice among dispositions (`Verdicts`), what a child reports a choice
  among endings (`Ends`), what a restarted Host finds a choice among `CrashFates`.

Left out of the core and kept in a component of its own, or nowhere: token budget and usage
(`TeamChildren`), review (`TeamReview`), manual ownership (`TeamCommands`), revisions
(`TeamRevisions`), retry of a failed model call (`TeamModels`), the yield at a cycle limit
(`TeamRunner`), the poison flag and the replay of operation ids (`TeamJournal`, `TeamCommands`);
a workspace that itself needs reconciliation, scope syntax, the retirement of Teams.

### State and code of the components

`TeamRunner`. `sup` is the `HarnessTeamRunnerState` of the Team, `pass` the place of its pass, `queue`
the journal's FIFO, `flags` what the supervisor and the service remember of a wake, a release, a
shutdown; `lifecycle`, `work`, `held`, `active` are what the journal says, `told` that it holds the
operation of a pause. Microtask chains are atomic; tasks run one at a time; the five seconds of a
shutdown are `ShutdownAttempts`. A pass verifies what has settled, with a verdict that passes or one
without usable evidence; failing verdicts and rework are a matter of `TeamExecution`. A client may send
an immediate pause again under its operation id at any time (the command kind `repeat`), after a resume
or a restart too: the journal answers with the Team as it is, and `pauseTeam` interrupts what it finds
running. `sup.cut` is history: such a request has interrupted the pass of a running Team and nothing has
woken the runner since. A resume sent again to a running Team wakes it; that repeated command is
left out, and so are other ways to recover such a Team than a restart, a pause and a resume.

`TeamChildren`. `lifeOfTeam`, `status`, `resv`, `observed`, `endUsage`, `limit` are what the journal says:
the Team, its attempts, their reservations and usage, the token policy. `exec` is `#active` of the
executor, `early` and `overflowed` are the router's, `subs` and `shared` the usage subscriptions (a set: each
remembers the attempt it was made for and the tokens used before it) and their shared map, `timers` the
execution timers, `ends` the ends whose usage is still being read, `disposal` the executor's, `hostChild`
the children of the Host, `journalFailed` the poisoned journal. Tokens are summed, token by token;
attempts are dispatched in their order; the router's bound is `MaxEarly`. Usage reported while a disposal
drains is lost; snapshots and the source of a child are left out.

`TeamObserver`. `obs` is the observation of the current wait, `settling` the transactions in flight, a
set because nothing orders them; `sessionLog` is the child's log, `local` the executions this process
owns. A foreign active child ends a wait at once, so heartbeats matter for owned children only.

`TeamEvidence`. `request` is the coordinator's request, `col` the collector's loop, `port` the run of the
subprocess port, `tree` its process tree, `proven` a history of what completed processes passed. Texts,
digests and byte bounds are left out, the join of equal collections too.

`TeamReview`. `reviews`, `candidate`, `tasks` are the journal's; `call`, `slot`, `sources`, `gate` are
`reviewCalls`, the agent's `#runs`, `reviewCloseSources`, `reviewStopGates`; `children` are the reviewer
Sessions alive. Tasks run one at a time. Step budgets, reviews of Teams already completed, failed
tasks and the escalation of failures are left out.

`TeamModels`. One task; `dispatches` its attempts with the model and the few facts the retry reads from
a child's log, `preflight` the automatic retry between its reads, `crew` the Team. The candidates of a
route are a sequence in the order of the code: the user's, the controller's model, then what the
catalogs list, the controller's provider before the allowlist; the code drops repeated candidates, the
model takes the first of equal ones. `resolveFixedModel`, which only replays old Teams, is left out.

`TeamCommands`. `request` is how far each command is, `run` the attempt that runs with the contract it
was started under, `ops` the operations in the journal, `owner` and `holder` the human and the
conversation. A contract is its three aspects (model, authority, scope). Of an attempt, "cancelled" is
interrupted, "failed" ended on its own. Recovery commands are in `TeamExecution` and `TeamDormant`,
messages in `TeamInstructions`, review commands in `TeamReview`, the immediate pause in `TeamRunner`.

`TeamRevisions`. `graph` is the sequence of tasks in their order of creation, so a dependency has the
smaller number; a group is one commit. `limbo` is a commit whose outcome is unknown. `RevisionsAreCoherent`
is the conjunction of four named parts.

`TeamInstructions`. `ask` is how far each instruction is, `line` the queue of the controller, `receipt`
what of a request's record is visible and what is durable, `turn` the journal's transactions.

`TeamDormant`. `cut` is what the commands tell apart of a projection: status, whether the latest control
is a cancel, the last attempt, whether facts are left behind, whether the workspace is ready, what the
graph allows. `calls` are commands between their steps, `overtaken` those whose basis is no longer the
newest, `search` the discovery of a cold controller. Token reservations are left out;
`recoverDormantProjection` needs a Host without `controlDormantTeam` (`commands.ts:128`), which the
product is not.

`TeamStart`. `phase` is that of the manifest, `tree` the worktree and branch, `ctl` the controller, `gate`
the queue of a conversation, `lock` the admission to the directory, `doubtful` the journals with an
unknown outcome. A Team is identified with its request. Validation of input is left out, an abort is a
failing step, and the scan of cold history, which the product switches off (`scanColdHistory: false`),
too. No product path calls the cleanup of a start; it is modelled as the code has it.

`TeamJournal`. `live` and `disk` are the native log in memory and on disk, `record` the sidecar's, `queue`
the gate, `chain` the record's own queue, `basis` what a transaction has read, `span` what a write of the
tail covers. A fact is identified with the operation that wrote it.

`TeamBridges`. `log` is the record of a conversation, `sync` the synchronisations under way of a
controller, `pending` the appends waiting, `dirty` a job asked for again while it runs. `Latest` is the
cut `latestTeamBridge` finds, the one of the greatest revision and among those the last; `HasTomb` the test
before a tombstone is written again. Which Team a conversation shows (`Active`) is a fold over its record, by
the claims to activation; `CutFor` is the cut of one Team that a command there may use. Its second part (`shared`, `rev`, `known`) is the optimistic
record of several adapters. `OwnedTeamJournal` is exported and tested, and no product path uses it yet.
Storage outside the repository is taken to refuse a tail that does not continue its log.

`TeamKnowledge`. `fileQueue` orders the writers of one index file, `turns` the deletions of a controller,
`panelShows` what each Session shows last. Entries are one section with a version. Validation,
Markdown, and other processes that write the file are left out.

`TeamPanel`. `walk` is the request under way, `answers` what is on its way to it, `poll` whether a timer
will refresh, `shown` what the panel has, `touched` a history of what changed under the walk. A page is
read in one step; byte limits are `PageRoom` and `Large`.

| variable of `TeamReports` | code |
|---|---|
| `facts` | the Team after each durable fact of the controller: status, whether a requested revision is completed, whether the fact is a recovery from the panel (`isTargetRecoveryOnlyCut`) |
| `binding` | `readActiveTeamParentBinding`: parent, previous parent, generation |
| `checkpoints` | report checkpoints in the controller Session; `message` is the cut its message id was made from |
| `bridge[p][g]`, `gone[p]` | newest projected cut and newest tombstone in a parent Session |
| `inbox[p]`, `flushed[p]` | reports of the native parent Session; how many survive a crash for certain |
| `worker`, `wanted`, `retry` | `parentReportDeliveryTails`, `parentReportDeliveryGenerations` ("taken": the generation read by the pass is the newest), `parentReportDeliveryRetryTimers` |
| `job`, `sync[c]` | coalesced projection job of `scheduleTeamProjectionToParent`; one projection under way per kind of caller: job, worker, switch, Session lifecycle |
| `suppression`, `recovery` | `parentReportSuppressions`; a recovery from the panel under way |
| `switch` | a `rebindParent` under way |

Each step of the report worker ends at an `await` of the code: the 25 ms delay, the projection, the
re-flush of the checkpoint, reading task reports, the flush of the parent, the checkpoint write.
Both Sessions are taken to keep Yuqi facts in the sidecar; what the code does on a Host without
sidecar is not modelled there (it is in `TeamJournal`). A report is identified with its generation and
cut; its text with the status and the completion of revisions it reports. A publication is atomic at
the place in the parent's queue where its append is executed. There is at most one switch, one
recovery and one lifecycle projection at a time.

## Runs

`CHECK_DEADLOCK FALSE` everywhere: a completed or cancelled Team really stops, and so does a client
that has been answered. Every bound is a constant of the `.cfg`: `Max...` bounds commands, faults,
restarts, facts or attempts. `MaxAttempts`, `MaxReworks`, `TeamLimit`, `MaxEarly`, `MaxDispatches` are
parameters of the code.

| run | bounds | shows |
|---|---|---|
| `recovery` | execution: 1 task, 2 attempts, 2 controls, 1 restart, every verdict and fault, children that end with a report, without one or aborted; reports: 2 conversations, 3 facts, and of 1 switch, 1 panel recovery, 1 refused write or failed flush at most 2 | `TypeOK`, `CancelSticks`, `LiveChildOwnsFiles`, `UnknownIsGated`, `QuietTeamIsQuiet`, `HistoryIsKept`, `CheckpointProvesInbox`, `WakesAreNews` |
| `verification` | 2 excluding writers, 2 attempts, 1 control, 1 restart, children that report success or failure | `LeasesAreExclusive`, `CompletionIsEarned`, `ImplementsLifecycle` |
| `graph` | 3 tasks, 2 attempts each, a dependency, an overlap, a writer among readers, 2 slots, 1 control, children that succeed or break, passes that fail | `WorkFollowsDependencies`, `PlanIsSafe` |
| `settles` | controls: 2 parallel readers whose children succeed, 2 controls, fair Host; evidence: up to 2 checks of four kinds, any rework budget; knowledge: 2 commands from 2 panels on one entry, 1 fault, 1 controller that stops | `ControlsSettle`, `VerdictsAreProven`, `KnowledgeIsTrue` |
| `answers` | review: every mode, one rework per checkpoint and two per Team on its own, up to 4 tasks, 2 user commands, 1 stop that times out, 1 restart; observer: 2 attempts, 1 wait, 1 fault, 1 restart; reports: 2 conversations, 2 facts, 1 switch, 1 restart; all three fair | `ReviewsAreOwned`, `ReworksAreBounded`, `RequestsAreClosed`, `SettlementsAreOwned`, `WaitsEnd`, `OneMessagePerCut`, `RequestsAreAnswered` |
| `passes` | runner: 1 task that may be verified, 2 commands of six kinds, 1 fault, 1 crash; executor: 2 attempts, a foreign end, a buffer of 1, 1 fault, no tokens; both fair | `RunnerIsKept`, `WorkIsDispatched`, `EndsAreSettled`, `ChildrenAreKept` |
| `sessions` | start: a request and a follow-up asked for twice, 2 conversations, 1 fault, 1 crash; journal: the start, another transaction, 1 index write, 1 fault, 1 crash, 1 close; bridges: 2 controllers, 2 conversations, 3 facts, 4 moves, 1 fault and cuts from before revisions each in the place of a move, and 2 adapters of one record with 3 batches; dormant: 2 commands on every cut a restarted Host can find | `StartsAreTrue`, `ManifestCoversResidue`, `WritersNeverShare`, `JournalIsTrue`, `BridgesAreTrue`, `ShownTeamsAreTrue`, `ColdControlHolds` |
| `requests` | 2 instructions to 2 tasks; 2 commands of eleven kinds from 2 conversations; 2 walks over 3 Sessions on pages of 2, the second by the poll or over the first and on records that are all there; 2 revisions of a plan of 3; 3 dispatches and 2 acts under every policy; a batch of 2 attempts, a buffer of 1, a child that uses 1 token, no policy or a limit of 1, no fault | `InstructionsAreTrue`, `CommandsHold`, `PanelIsTrue`, `RevisionsAreCoherent`, `RetriesAreSafe`, `BatchesFitTheLimit` |
| `cancel_during_verdict` | 1 task, 2 attempts, 1 control, failing verdicts, fair Host | a violation of `CancelSettles`, see below |
| `rebinds` | 1 Team, 3 conversations, 1 fact, 5 moves, no fault | a violation of `RebindsAreReconciled`, see below |
| `revived` | 1 Team, 2 conversations, 2 facts, 4 moves, no fault | a violation of `PreviousParentIsNotRevived`, see below |
| `repeated_pause` | 1 task, 3 commands, no fault, no restart | a violation of `NeverPresentedAsHealthy`, see below |

Why they are enough: the recovery properties relate one task's attempts, its lease, its child
and the Team status, so one task with a second attempt has all the parts, and two controls with a
restart give each pair of commands around each failure. Exclusion needs two tasks, rework
needs two attempts; a second attempt in flight while an earlier child still lives is what
`MaxOrdinal = 2` is for. The planner's order, slots and modes need three tasks, and a retry there
reopens a task beside two others. For the reports in `recovery` three facts are a state already
acknowledged, one being delivered and one that overtakes it; two conversations are the former and the
new parent, and a race of the delivery is between two of a switch, a recovery and a failure. `answers` asks
whether a report arrives, and for that two facts, one of them under way while the parent changes or the
Host restarts, are enough: the safety it checks beside is proved for any number. Endings are split among the runs by what a property tells apart: one that ends without
evidence is a matter of recovery, one that reports failure a matter of verification. For
the components, a race of the code is between two actors of one kind (two commands, two writers,
two batches of one record, two panels), with one fault or restart at any of their steps. That the start saga also
survives a failed reaction to a failure is proved, for any number of faults. The dormant part of
`sessions` does not restart the Host itself: each of its first states is a cut that a Host may find
when it starts, with the calls of before forgotten, which is what a restart leaves; `ColdControlIsFinal`
covers restarts in between. Four moves of the bridges are two commits and two rebinds, with which a job
of the first binding can meet the tombstone of the third. In `settles` one entry id never overflows an
index; two walks of the panel are one that polls, or supersedes, the other. The runs are small because
what they check beside liveness is, but for `ShownTeamsAreTrue`, proved for every bound. `BridgesAreTrue` and
the compaction were also checked at larger bounds, which no run repeats: one controller with 3
conversations, 6 moves and 3 facts (3.4 million states), the same with 5 moves and a fault, and 2
controllers with 3 conversations and 4 moves.
The executor is looked at twice: what settles and stops its children under faults and a foreign end
(`passes`), and what they may use together (`requests`); tokens under a fair executor were too many states.

`requests` uses symmetry: of the instructions a user sends, and of the operation ids of revisions. It
has no fairness and no leads-to property, and no formula names a single one of those values.

`ControlsSettle` holds in part, and its run says so by its constants: it is checked without failing
verdicts, with them it is violated by what the code does (`cancel_during_verdict`).
`RunningIsDriven` and `WorkIsDispatched` except a pass that a repeated immediate pause has interrupted,
until the runner is woken again; `repeated_pause` shows the Team that is left. `ShownWhenQuiet` excepts a
conversation in which a bridge of an older binding is stored behind a newer tombstone (`Revived`);
`revived` shows it. `CommandsHold` says that a repeated operation is recorded once, not that a repeated
step has no effect. `RequestsAreAnswered` is checked with no
refused write: when the write of a bridge is refused while an older bridge is there, the delivery
counts as suppressed rather than pending (`service.ts:4521` ignores the result of the projection), and
nothing asks for it again before the next commit or restart. It also excuses what a recovery
from the panel keeps back. `EndsAreSettled` excuses a poisoned journal, an overflowing buffer, a disposal,
and an end that reports less usage than was observed. `WritersNeverShare` speaks of writers that were
not let go: a controller that is disposed and resumed cold beside a new writer is not excluded by
the code.

### Where code and documents disagree

Four runs keep one each.

* `cancel_during_verdict`: a cancel while evidence is collected, and a verdict that fails with retry
  advice. The Team stays `cancelling` for ever, although the verdict is where such a cancel is closed.
* `rebinds`: a Team moves from one conversation to a second while the first is closed, and on to a third
  before the first is loaded. A conversation is told of a Team that left it only as the previous parent of
  the present binding (`session-journal.ts:534`, `team-projection.ts:218-224`), so it offers the Team for good,
  although `tests/team-session-projection.spec.ts:84` is about a previous parent that "restores later".
  `LeftWhenQuiet` says what the code does promise: the conversation left last.
* `revived`: a sync reads the binding, waits for its tombstone in the previous parent and then publishes
  under the binding it has read (`session-journal.ts:466`). When the Team has moved on meanwhile, the bridge
  is stored behind a newer tombstone, and the conversation that was left shows the Team again, which
  `tests/team-session-projection.spec.ts:232` is meant to exclude.
* `repeated_pause`: an immediate pause that is sent again after a resume is answered from the journal
  with the running Team (`control-team.ts:144-150`), and `pauseTeam` interrupts its pass
  (`service.ts:2885`). The pass ends `aborted`, which no observer takes for a failure
  (`service.ts:4312-4324`), and the Team stays running with nobody to drive it, although
  `service.ts:4358` says "Never leave a rejected background pass presented as a healthy running Team".

The following came up while modelling. The model has the behaviour; no run keeps the trace.

* `owned-event-store.ts:54-76`: a cut is compacted so that it no longer counts, but which of two
  controllers was refused a disputed place of activation depends on every cut in the record. With three
  controllers whose claims collide, compaction changes which Team a conversation shows, against the
  comments at `54-55` and `65-66`. `CompactionIsInvisible` is therefore about records without a dispute
  (`Undisputed`).
* `session-journal.ts:462-526`: a job of an older binding that waited for its tombstone appends a cut of
  that binding under a newer revision, also to a conversation the Team has meanwhile come back to.
  `PublishedWhenQuiet` therefore says that the newest cut is in the record whatever happened, and that it
  is the one shown when the cuts came in the order of the bindings (`InOrder`).

* `schedule-team.ts:156`: the planner ignores the lease of a verifying task. Its batch is refused by
  `acquireFileLease`, the pass fails and the Team is gated, where workers are told that "the Host queues
  conflicting work" (`run-cycle.ts:597`).
* `clear-recovery.ts:33`: a Team gated with a lease held and then cancelled has no command that opens
  its gate; the lease blocks the closing and the cancellation blocks the release (`USER_GUIDE.md:97`,
  `control-team.ts:284-288`).
* `run-team-loop.ts:280`: a reworked attempt is verified under the first verification's id and refused
  (`record-verification-verdict.ts:427`), against `verification-retry.ts:1`.
* `schedule-team.ts:132`: a task that waits for a human decision after an inconclusive verdict
  (`record-verification-verdict.ts:287-291`) is unblocked and dispatched without a retry.
* `service.ts:4491`: a retry timer that outlives the delivery that succeeded makes the report worker go
  round every 25 ms, since it compares an absent generation with its default (`4493-4494`).
* `continuable-child.ts:192`: a later subscription overwrites the observed usage with a lower sum, and
  the projection (`projection.ts:1649`) may refuse the end, against the intent of `170-173`.
* `service.ts:4370`: the failure mark of an old pass gates a Team that was paused and resumed since
  (`4335-4340`, `4359`).
* `service.ts:3402`: after a change of authority, the retry is committed before the contract is revised
  (`3321`, `3364`), so a dispatch in between runs under the old contract.
* `service.ts:1980`: the controller of a cancelled, gated Team is resumed with an attempt recorded as
  running (`1967-1970`).
* `control-team.ts:276`: a cancel between the settlement of a checked task and the beginning of its
  verification closes the Team at once, with the task verifying and its lease active.
* `reconciliation-observer.ts:79`: an attempt that was never admitted cannot be resolved while any
  sibling child is listed at all.
* A repeated model or authority command whose retry runs again replays its own pause and kills the new
  attempt. Its operations are recorded once all the same.

## Fairness

`HostFairness` (`settles`, `cancel_during_verdict`): weak fairness of what the Host schedules by itself:
the runner's loop and its verify call, the executor's callbacks of each attempt, the second halves
of a resume and of a cancel call that were accepted. A child is assumed to end: its Session is bounded
by the adapter's limits, and pause and cancel interrupt or wait for it.

In `answers`, `DeliveryFairness`: timers fire, started writes and projections end, a panel recovery
returns, and the conversation is opened again after a restart; `ReviewFairness`: promise continuations and
timers run, a reviewer child ends or is stopped at its deadline; `ObserverFairness`: the transactions in
flight, the steps of a wait and the planner's dispatch of what it sees. In `passes`, `ChildrenFairness`: the
executor's continuations run and the Host answers a start, nothing makes a child end; the fairness of the
runner: microtasks, timers and journal I/O, and the disposal of a released controller. A collection of
evidence (`PassChecks`) owes nothing there; that it ends is the subject of `CollectFairness` in `settles`:
timers fire, reads answer, the event loop runs, no process or tree is assumed to end.

Users, commands, commits of others, faults and restarts are never fair. In a composed run the fairness
of a component is conjoined with `explored`, so a resting component owes nothing; where this is not
written (`answers`, `CollectFairness`, `ChildrenFairness`), the resting component has no fair step enabled.

## Proofs

TLAPS proves, for every value of the constants that satisfies `GraphAssumption`,
`ConcurrencyAssumption` and `ExecutionAssumption`:

* `TypeCorrect`: `Spec => []TypeOK`. `TypeOK` alone is not inductive: an action that writes
  `Latest(t)` needs the task to have an attempt. The invariant `TypeInv` adds
  `OpenWorkHasAttempt`, that a running or verifying task has one. One lemma per group of actions
  (`RunnerTyped`, `VerifyTyped`, `ExecutorTyped`, `ControlTyped`, `RecoveryTyped`), with lemmas on the
  records and closing operators they write.
* `CancellationSticks`: `Spec => []CancelSticks`. The property is inductive by itself: the lemma
  `ClosingKeepsCancellation` shows that no closing step leaves the cancellable statuses, and each
  action that could is guarded by the intent or by the status.
* `UnknownStaysGated`: `Spec => []UnknownIsGated`, on top of `TypeInv`. Only `CommitReconcile` makes an
  attempt unknown, and it gates; every step that opens the gate has proved that nothing is
  unresolved, or (`ConfirmOwned`) makes every unresolved attempt running.
* `LivingChildOwnsFiles`: `Spec => []LiveChildOwnsFiles`. Its strengthening `OwnershipInv` says what is
  *open* (an unresolved attempt) holds the files of a running task and is its latest attempt, what is
  leased is the latest attempt of a working task, and a living child, an entry of the executor's table
  and an observation belong to what is open. Each step is one of three movements, opening (only
  `Dispatch`), closing and standing, and one lemma for each says it keeps the invariant.
* `LeasesExclude`: `Spec => []LeasesAreExclusive`. Only `Dispatch` adds leases; the batch it adds
  conflicts neither with a lease in force nor within itself (`NoConflict`).
* `RestingTeamIsQuiet`: `Spec => []QuietTeamIsQuiet`, by `QuietInv`: what closes a Team has seen nothing
  in flight, and the verifier judges nothing meanwhile (`PassIsQuiet`).
* `WorkHasItsDependencies`: `Spec => []WorkFollowsDependencies`, by `TasksMove`, a fact of every step: what
  completed stays completed, and what starts has its dependencies behind it.
* `CompletionWasEarned`: `Spec => []CompletionIsEarned`, by `CompletionInv`: the latest attempt of a
  completed task is closed with the report, and the verification, that completed it; nothing reopens or
  judges it again, and whatever completes the Team found nothing owed.
* `LifecycleImplemented`: `Spec => ImplementsLifecycle`, the refinement. The initial states map; each
  group of actions maps to a step of the lifecycle or a stutter (`RunnerImplements`,
  `OutcomesImplement`, `ControlsImplement`, `RecoveryImplements`). It rests on the invariants above and
  on `AskedIsKnown`, that a control whose intent is current has been asked for.

* `HistoryWasKept`: `Spec => HistoryIsKept`, an action property. `HistoryInv` accounts for every record: an
  ordinal nobody made is fresh, evidence and resolutions fit the status and the child of their attempt,
  a running task's latest attempt has no evidence and a verifying task's is settled. Each record then
  moves along the tables of `states.ts` (`StepsMoveRecords` and its lemmas, one per group of actions).
* `PlansAreSafe`: `Spec => []PlanIsSafe`. `PlanInv` counts what is open: the batch `IsBatch` selects has
  one new task per free slot, so a dispatch keeps the count within the limit and the mode single. The
  rest (no task twice, nothing unsafe) follows from `OwnershipInv` and the gate.

For every value of the constants that satisfies `ReportsAssumption`:

* `ReportsTypeCorrect`: `ReportsSpec => []ReportsTypeOK`. The inductive `TypeInv` of `TeamReportsProofs` adds the
  types of the projections under way, of the worker's notes and of the suppression, and that a
  generation never exceeds the number of switches.
* `CheckpointsAreProofs` and `ReportsAreUnique`: `ReportsSpec => []CheckpointProvesInbox` and
  `ReportsSpec => []OneMessagePerCut`, by one induction on `DeliveryInv`. Neither is inductive without
  `DeliveryUnderWay`: while the worker waits for its flush its message is in the inbox, and once the
  flush has returned it is in the durable part, because only a delivery and a restart write the
  inbox, a delivery appends, and a restart keeps the durable part.

* `WakesStayNews`: `ReportsSpec => WakesAreNews`, an action property. The checkpoint a wake is measured against
  is the greatest one acknowledged to the parent in control, a `CHOOSE` whose choice exists because a set
  of naturals has a least member (`LeastOf`, by the well-foundedness of the order); so a cut above it has
  never been acknowledged. `RecoveryHolds` says a recovery keeps its suppression from its first step
  to its last, which is why no wake falls into one.

For every value of the constants that satisfies `ObserverAssumption`, so for any number of attempts, waits,
faults and restarts:

* `SettlementsStayOwned`: `ObserverSpec => SettlementsAreOwned`. `ObserverInv` adds that what a wait may
  settle was nobody's when it looked, and stays so (`ObservationInv`: an executor only takes work that is
  not dispatched, and a wait looks at dispatched work); that a settlement of an attempt the executor holds
  is the executor's own or the cold scan's, which stands back (`HeldByExecutor`); and that work which
  is not dispatched has neither evidence nor a settlement (`DispatchedOnly`).

For every set of calls and any number of restarts of `TeamDormant`:

* `ColdControlIsFinal`: `DormantSpec => ColdControlHolds`. The invariant `ColdCut` of the durable cut says
  that what is unknown or left behind is gated, what is closed or paused is quiet, and what was
  cancelled last is on its way to cancelled; the same step lemmas give the action property.

For every value of the constants that satisfies `StartAssumption`, so for any number of requests,
failing steps and restarts:

* `ManifestCovers` and `WritersAreAlone`: `StartSpec => []ManifestCoversResidue`, `[]WritersNeverShare`, and
  `StartsKeepTrue`: `StartSpec => StartsAreTrue`. `StartInv` follows a request through the saga: `StageInv`
  fixes, for each place, the phase of the manifest and what exists on disk and in the journals;
  `GateInv` and `LockInv` say who is inside the two queues, and that only their heads run; `FollowInv`
  ties a follow-up to the one Team recorded for it; `WriterInv` that as long as an admitted request is
  inside the lock no other admitted one competes with it, which carries the exclusion from the check
  of the writers to the moment the lock is left.

For every value of the constants that satisfies `JournalAssumption`, so for any number of transactions and
index writes, faults, closed domains and restarts:

* `JournalStaysTrue`: `JournalSpec => JournalIsTrue`. None of its parts is inductive. `JournalInv` adds that
  only the head of each of the two queues runs (`GateInOrder`, `ChainInOrder`); that a Session with
  native facts is bound to its native log and nothing commits into an empty Session but its start
  (`OneSide`), which is why storage that appears in the middle of a commit cannot split the facts; that
  the disk is a prefix of the live log and each native write covers the place of its own fact, so an
  acknowledgement proves it, while a transaction that is neither stored nor on its way has closed the
  journal (`StoredIsKept`), which is what `ReadsAreDurable` needs; and that a log goes on from what the
  running transaction has read with index facts only (`WrittenAfterRead`), which becomes `Serialised` when
  the transaction is written. Each step of a commit is first brought into one of a few shapes
  (`WriteShape`), and one lemma per part says those shapes keep it. `Serialised` compares position by
  position, so it also says where index facts may stand.

For every value of the constants that satisfies `BridgesAssumption`, so for any number of controllers,
conversations, facts, moves, failing appends, adapters and batches:

* `BridgesStayTrue`: `BridgesSpec => []BridgesAreTrue`. The property speaks of quiet states and of compacted
  records, `BridgesInv` (`BridgesInvariant`) of every step on the way to them. Entries are of the present or
  an earlier binding and of facts that were (`Recorded`, `Entry`), and a tombstone of the present binding is
  never where the Team is (`Buries`). An append in a queue belongs to one sync, which waits for it and
  for nothing else (`Queued`, `Awaited`). Cuts and revisions of a controller grow along a record and
  its queue (`Growing`): since a revision is read when an append is queued, not when it is stored, this
  needs that a queued revision is at most one above a stored one (`Fresh`). A cut that lost its payload has a
  later one of a newer revision in the same record (`Superseded`), from which `NewestCutIsKept` follows by
  a greatest revision. `Coming` is why quiet conversations are right: while no append failed, the
  newest cut of a Team is stored, queued, or there is a sync that was asked for, is aimed at the present
  binding, or will run again; the tombstone likewise. When all syncs have ended only the first case
  is left (`NewestIsPublished`, `LeftIsBuried`). A conversation that is not loaded is owed nothing; loading it
  asks for a sync.
* The adapters are its other half: `AdaptersInv` adds that an adapter has read or written every batch up to
  the revision it decides on, unless it has to read anew; the revision that stands for that (`Unread`) lies
  above every revision within the bound of the record, so the check of the revision refuses it.

For every value of the constants that satisfies `EvidenceAssumption`, so for any checks, budgets, and any order
of ends, timeouts, aborts and process trees that stay:

* `VerdictsStayProven`: `CollectSpec => [](PassedIsProven /\ VerdictReplays /\ DecidedAfterExit)`, the safety half
  of `VerdictsAreProven`. `EvidenceInv` ties each record to the process behind it: what a process leaves
  passes its check only when the process really passed (`OutcomeIsTrue`, by cases on the kind of check, the
  claims of a test report against its assertions), the evidence so far has exactly one record for each
  check before the current one (`Supports`), and evidence is handed over complete, when no tree is alive.
  That a recorded verdict derives again from its facts is a lemma on the two derivations for any
  records whatever (`RecordedReplays`).

For every value of the constants that satisfies `InstructionsAssumption`, so for any number of
instructions, requests, tasks, failing writes and restarts:

* `InstructionsStayTrue`: `InstructionsSpec => InstructionsAreTrue`. `TurnsInv` says that only the
  instruction ahead of its controller's queue is under way, and that while the Host takes its message
  the journal's transaction is its own, so the Team and the task checked before the call still run
  when the child has the message. `ReceiptInv` says that the rows on screen and the rows a restart would
  leave claim only what happened, and `SendingInv` that a request under way is recorded as it stands
  and that nobody took what it has not sent: a repeated request finds this receipt, which is why no
  child takes it twice.

For every value of the constants that satisfies `ReviewAssumption` (the limits are those the settings
admit, `host/team-settings.ts`):

* `ReviewsStayOwned`: `ReviewSpec => []ReviewsAreOwned`. `ReviewInv` ties the call to its request and its review
  at each stage (`CallInv`), the only reviewer child to the only slot (`SlotInv`), and the Team's end to
  the absence of reviews under way (`QuietInv`), the rest of the property is inductive with them.
* `ReworksStayBounded`: `ReviewSpec => []ReworksAreBounded`, by `ReworkInv`: a rework names its review and its
  round, and corrections nobody authorised are counted per checkpoint and for the Team. Only
  the creation of a rework task adds one, below both limits; every other step only grows what the
  count leaves out (`OnlyGrows`).

For every value of the constants that satisfies `PanelAssumption`, so for any set of conversations, size
and room of a page, and limit on the pages of a walk:

* `PanelStaysTrue`: `PanelSpec => PanelIsTrue`. The property speaks of what is published; `PanelInv` says what
  an unfinished walk knows: of what did not change since the walk began, a page under way holds exactly
  the records between the cursor it was asked with and the one it answers (`AnswersTrue`), and what was
  found is the index up to the cursor, then every row but the cold ones and those up to the second
  cursor (`FoundTrue`). The cursor of a page is the greatest key it holds, which exists because the page
  is finite (`Greatest`), and a walk whose answer has no cursor has therefore found everything. An
  answer with another number than the walk's is never read (`WalkTyped`).

For every value of the constants that satisfies `RevisionsAssumption`, so for any acyclic plan, any number
of revisions, and any fate of their commits:

* `RevisionsStayCoherent`: `RevisionsSpec => []RevisionsAreCoherent`. That the newest version of a task rests on
  the newest version of what it depends on is not inductive: a revision of something in between could
  leave a consumer behind. `RevisionsInv` adds that the newest version of a task rests on every other
  version of it (`OnOlder`), so a revision of any version reaches the newest, and with it all its
  consumers: the group contains a new newest version of each task it touches, and rests on the old.
  `OneNewest` and `Ranks` say which places the group takes. A group whose commit is unknown is described
  in the plan as it stands (`GroupOpen`), so that reading it again keeps the invariant whether it was
  written or not. The closures (`Origin`, `Rests`, what a revision touches) are recursive functions; that
  such a function exists and what it says at each task is proved from a least counterexample over
  the length of the plan, since a plan depends on smaller numbers only.

For every value of the constants that satisfies `ModelsAssumption`, so for any catalogs, candidates,
allowlist, number of attempts and acts of the user:

* `RetriesStaySafe`: `ModelsSpec => RetriesAreSafe`. `RetriesInv` adds that before a retry nobody asked for
  every attempt was seen to fail in the call to its provider (`SafeInv`), not only the retried one: its
  next route is resolved anew from what can be read then, and is another model because the recorded
  failure counts even when the log cannot be read (`FreshFits`). `PreflightInv` says that a preflight whose
  cut nobody has moved still finds the Team paused and the attempt untouched, which is what the
  action property `UserDecisionWins` needs. What the catalogs list is a recursive function of the
  providers; that it yields routes (`CatalogTyped`) is a least counterexample again.

For every value of the constants that satisfies `ChildrenAssumption`, so for any number of attempts, tokens,
foreign ends and faults:

* `ChildrenStayKept` and `BatchesStayFit`: `ChildrenSpec => ChildrenAreKept` and `ChildrenSpec =>
  BatchesFitTheLimit`, two action properties, by `BatchInv`. `Phase` follows an attempt through journal,
  executor and Host: its child lives from the start under the gate on, has a timer exactly from the return
  of that start to the moment it is told to stop, and after a disposal is told as soon as it is owned.
  None of that is inductive without the rest: an admission that is lost, an end that arrives early and a
  cancel that overtakes the start meet in the same attempt. A batch is admitted on the ledger of the
  moment; that the sum does not move between the check and the commit follows from which attempts have
  usage and which are held (`Phase`), and sums are counted token by token, so that they grow with their
  sets (`FS_Subset`).

For every value of the constants that satisfies `CommandsAssumption`:

* `CommandsStayTrue`: `CommandsSpec => []CommandsHold`. `CommandsInv` has three parts: a child that runs
  belongs to a task shown as running and has the contract shown; while a human owns a task nothing
  runs and nothing is schedulable; and no two operations in the journal are the same request, step
  and task.

For every value of the constants that satisfies `RunnerAssumption`, so for any number of tasks, commands,
faults and restarts:

* `RunnerStaysKept`: `RunnerSpec => []RunnerIsKept`. `RunningIsDriven` is far from inductive: it speaks of
  the quiet states only. `DriveInv` says why they are driven: at any time a running Team the Host owns
  has an operation that will look again (not aborted, or with a wake pending), or a transaction
  waits that wakes it (`quiesce`) or gates it (`mark`), or a repeated immediate pause has cut its pass and
  nothing has woken the runner since (`sup.cut`). The last is the exception of the theorem too: every
  other interruption of a running Team is followed by a look or a mark. `LeaseInv` says each resume under way holds one
  lease, counted, and a lease keeps the runner bound unless the Team ended, which is what
  `CommittedResumesWake` needs; `HandleInv` that the controller has one owner at a time, the cache or the
  runner, which is what `DisposedOnce` needs; `PassInv` and `CommandInv` that a transaction in the queue
  belongs to the pass or the command that waits for it, and waits once (all but the marks).

For every value of the constants that satisfies `KnowledgeAssumption`, so for any number of commands,
controllers, faults and restarts:

* `KnowledgeStaysTrue`: `KnowledgeSpec => KnowledgeIsTrue`. Both kinds of queues are instances of one idea,
  `Serves`: a queue holds each of its members once, and none of those that run but its head. One lemma
  each says that joining, leaving and standing keep it, `FileStep` and `TurnStep` bring every action into one
  of those shapes, and `QueuesMoveOn` follows. `FileIsCurrent` says what that buys: whoever is between its
  read and its write has read what the file holds now, since nobody else runs, and nothing seen or
  shown is ahead of the file.

Definitions changed because a proof failed. A retry that a resume makes for a task is recorded
under an operation id with the task in it (`service.ts:2930`), so a resume that is repeated recomputes
what is left to retry; `TeamCommands` had kept what the first one had computed. And decisions of
`TeamReview` and `TeamEvidence` were written as `CASE` with overlapping guards, which TLC reads in order and
the logic leaves open; they are chains of `IF` now, in the order of the code (in `TeamObserver` and
`TeamKnowledge` too). `TeamJournal`, `TeamKnowledge` and `TeamInstructions` took a command out of a queue by
name; now the head leaves, which is what a chain of promises does, and that it is the right one is
proved.

To make them provable, `TeamChildren` sums tokens by counting them and keeps its subscriptions in a set,
and `TeamModels` keeps the candidates of a route in the order of the code, as a sequence, instead of a
set: the first allowed one that has not failed is taken. `TeamEvidence` finds the records of a check by
their places in the evidence instead of filtering a sequence; malformed ones leave a gap. `TeamBridges`
chooses the latest cut by its revision and place instead of folding over the record.

Model-checked only:

* everything under fairness (`ControlsSettle`, `WorkIsDispatched`, `WaitsEnd`, `RequestsAreClosed`,
  `RequestsAreAnswered`, `EndsAreSettled`, `VerdictsAreProven`): liveness is outside the prover. Of
  `VerdictsAreProven` that is `CollectionEnds`; its safety half is proved;
* `ShownTeamsAreTrue`: which Team a conversation shows is a fold over its record, and what a fold computes
  for a record of any length is induction over data. `BridgesAreTrue`, which is proved, speaks of the cuts
  a conversation offers to commands.

`BlocksDependents` is a recursive function; nothing is proved about what it computes.

## Not modelled

* Rendering, styles and forms of the client (`src/src/client`), except the catalog walk; settings,
  slash-command syntax, schemas of the agent tools: they keep no state that decides anything.
* Git and the file system: what a worktree is, is what `TeamStart` observes of it. Reading of reports of
  test runners, screenshots and digests: a choice of outcomes in `TeamEvidence`.
* Parsing and overlap of file scopes: `Overlap` is a constant. Validation of contracts and identifiers.
* The cost metric and alerts of `reserveBudget`, and `BudgetPolicyCoordinator`: exported, not wired.
* Two processes on one project: the code does not coordinate them either.
* Retirement of Teams and a workspace of a running Team that needs reconciliation.

## What is left

1. Products instead of a choice: commands interleaved with a retry of a model call, a start with the
   journal under it, a cold discovery with the bridge it reads.
2. The retirement of a Team, and a workspace that is lost while its Team runs.
