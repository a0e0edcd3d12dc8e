----------------------------- MODULE TeamModels -----------------------------
(***************************************************************************)
(* Which model an attempt runs on, and the one automatic retry the Team    *)
(* makes by itself: the route of an attempt is resolved from the durable   *)
(* policy, the Task's request and what the catalogs answer just then; a    *)
(* Task whose attempts all ended in a provider failure before any output   *)
(* is retried on another route, unless the user acted since.               *)
(*                                                                         *)
(* One Task.  A model is a [provider, id]; the controller's own model is   *)
(* Controller.  A child's native log is kept as the few facts the retry    *)
(* reads from it.                                                          *)
(***************************************************************************)
EXTENDS Integers, Sequences

CONSTANTS
  Models,        \* the models there are, each a [provider, id]
  Controller,    \* the controller's model
  CatalogOf,     \* what each provider's catalog lists, in order
  Allowlist,     \* the provider allowlist of the policy, in order
  Preferred,     \* the candidates of the Task's tier, in order
  Policies,      \* the Team policies: "inherit", "fixed", "automatic"
  TaskRequests,  \* the Task requests: "exact", "tier", "default", "legacy"
  MaxDispatches,      \* maxAttempts of the Task (DEFAULT_AUTOMATIC_MODEL_ATTEMPTS is 3)
  MaxActs        \* bound on the user's acts

VARIABLES
  policy,     \* [team, task]: the durable policy and the Task's request
  crew,       \* the Team: "running", "paused" by quiescence, "held" by the user,
              \* "manual" while a human owns the Task, "ended"
  dispatches,      \* the attempts: [model, log, seen, retried, touched]
  preflight,  \* the automatic retry between its reads: [at, fresh, route]
  acts        \* the user's acts so far

modelVars == <<policy, crew, dispatches, preflight, acts>>

--------------------------------------------------------------------------
(* Routes.                                                                 *)

NoRoute == [provider |-> "none", id |-> "none"]
Exact == [provider |-> "p2", id |-> "exact"]
Fixed == [provider |-> "p2", id |-> "fixed"]
Legacy == [provider |-> Controller.provider, id |-> "legacy"]

ASSUME ModelsAssumption ==
  /\ MaxDispatches \in Nat \ {0} /\ MaxActs \in Nat
  /\ {Controller, Exact, Fixed, Legacy} \subseteq Models /\ Preferred \in Seq(Models)
  /\ Controller.provider \in DOMAIN CatalogOf /\ Allowlist \in Seq(DOMAIN CatalogOf)
  /\ \A p \in DOMAIN CatalogOf : CatalogOf[p] \in Seq(Models)

IsProviderAllowed(m) ==
  m.provider = Controller.provider \/ \E i \in 1 .. Len(Allowlist) : Allowlist[i] = m.provider

\* The default request of an automatic Team shares the standard tier.
AutomaticTier(task) == task \in {"tier", "default"}

\* What the catalogs of the providers that answered list: the controller's
\* provider first, then the allowlist.
CatalogRoutes(listed) ==
  LET providers == <<Controller.provider>> \o Allowlist
      gathered[k \in 0 .. Len(providers)] ==
        IF k = 0 THEN <<>>
        ELSE gathered[k - 1] \o (IF providers[k] \in listed THEN CatalogOf[providers[k]] ELSE <<>>)
  IN gathered[Len(providers)]

\* The user's candidates, the controller and the catalogs, in order; of equal
\* ones the first counts, and only those inside the provider scope.
AutomaticModelCandidates(listed) == Preferred \o <<Controller>> \o CatalogRoutes(listed)
Candidates(listed) ==
  {i \in DOMAIN AutomaticModelCandidates(listed) :
     IsProviderAllowed(AutomaticModelCandidates(listed)[i])}

\* The routes whose metadata is asked for outside automatic routing.
RoutingCandidates(p) ==
  {m \in {Controller} \cup (CASE p.task = "exact" -> {Exact} [] p.task = "legacy" -> {Legacy}
                              [] OTHER -> {})
                      \cup (IF p.team = "fixed" THEN {Fixed} ELSE {}) : IsProviderAllowed(m)}

\* The facts the catalog port can return: a route it asked for resolves or not.
Inspected(p, listed) ==
  IF p.team = "automatic" /\ AutomaticTier(p.task)
  THEN SUBSET {AutomaticModelCandidates(listed)[i] : i \in Candidates(listed)}
  ELSE SUBSET RoutingCandidates(p)

\* One route, or NoRoute where the code throws: exact and fixed routes fail
\* closed, automatic ones skip what failed and fall back to the controller.
ResolveModelRoute(p, facts, failed, listed) ==
  LET Closed(m) == IF IsProviderAllowed(m) /\ m \in facts THEN m ELSE NoRoute
      Order == AutomaticModelCandidates(listed)
      open == {i \in Candidates(listed) : Order[i] \notin failed /\ Order[i] \in facts}
  IN CASE p.task = "exact" -> Closed(Exact)
       [] p.task = "legacy" -> IF Legacy \in facts THEN Legacy ELSE NoRoute
       [] p.team = "fixed" /\ p.task \notin {"exact", "legacy"} -> Closed(Fixed)
       [] p.team = "automatic" /\ AutomaticTier(p.task) ->
            IF open # {} THEN Order[CHOOSE i \in open : \A j \in open : i <= j]
            ELSE IF failed # {} THEN NoRoute ELSE Controller
       [] OTHER -> Controller

--------------------------------------------------------------------------
(* What a child leaves: its native log and the evidence of its attempt.    *)

\* log: the child's turns, whether anything but the failed call happened, the
\* kind of failure and whether the turn's end repeats it.  seen: the evidence
\* of the attempt says error without assistant output.
Logs == [turns : 1 .. 2, worked : BOOLEAN, failure : {"http", "local"}, closed : BOOLEAN]
NoLog == [turns |-> 0, worked |-> FALSE, failure |-> "none", closed |-> FALSE]

\* Only an explicit provider failure of the first call, before any output or
\* tool, and whose turn ended with the same failure.
InspectModelCallFailure(log) ==
  log.turns = 1 /\ ~log.worked /\ log.failure = "http" /\ log.closed

Try(m) == [model |-> m, log |-> NoLog, seen |-> FALSE, retried |-> "none", touched |-> FALSE]
Latest == dispatches[Len(dispatches)]
Over(t) == t.log # NoLog

\* The attempts whose log the Host could read just now.
Readable == SUBSET DOMAIN dispatches

\* Mutant: a route counts as failed only while its log can be read.
FailedOfReadable(readable) ==
  {dispatches[i].model : i \in {j \in readable : dispatches[j].seen
                             /\ InspectModelCallFailure(dispatches[j].log)}}

\* The routes an automatic resolution skips: those whose retry already
\* recorded the failure, and those whose log shows it now.
FailedModels(readable) ==
  {dispatches[i].model : i \in {j \in DOMAIN dispatches :
     /\ dispatches[j].seen
     /\ \/ dispatches[j].retried = "safe"
        \/ j \in readable /\ InspectModelCallFailure(dispatches[j].log)}}

\* The route of the next attempt, resolved from fresh catalogs and logs.
FreshRoutes ==
  UNION {UNION {{ResolveModelRoute(policy, facts,
                   IF AutomaticTier(policy.task) /\ policy.team = "automatic"
                   THEN FailedModels(readable) ELSE {}, listed) :
                   facts \in Inspected(policy, listed)} :
                 listed \in SUBSET DOMAIN CatalogOf} : readable \in Readable}

--------------------------------------------------------------------------
(* The Team.                                                               *)

\* The next attempt of a pending Task.
DispatchTry ==
  /\ crew = "running" /\ Len(dispatches) < MaxDispatches
  /\ dispatches # <<>> => Latest.retried # "none"
  /\ \E route \in FreshRoutes \ {NoRoute} : dispatches' = Append(dispatches, Try(route))
  /\ UNCHANGED <<policy, crew, preflight, acts>>

\* The child ends in a failure, and the Team pauses for a decision.
AttemptFails ==
  /\ crew = "running" /\ dispatches # <<>> /\ ~Over(Latest)
  /\ \E log \in Logs, output \in BOOLEAN :
       /\ output => log.worked
       /\ dispatches' = [dispatches EXCEPT ![Len(dispatches)].log = log, ![Len(dispatches)].seen = ~output]
  /\ crew' = "paused"
  /\ UNCHANGED <<policy, preflight, acts>>

\* What any transaction does to a preflight that is reading.
CutMoves == preflight' = [preflight EXCEPT !.fresh = FALSE]

\* The user's acts on the failed Task.
Acts(after, retried) ==
  /\ acts < MaxActs /\ dispatches # <<>> /\ Over(Latest)
  /\ acts' = acts + 1 /\ crew' = after
  /\ dispatches' = [dispatches EXCEPT ![Len(dispatches)].touched = TRUE,
                            ![Len(dispatches)].retried = retried]
  /\ CutMoves
  /\ UNCHANGED policy

UserRetries == crew = "paused" /\ Latest.retried = "none" /\ Acts("held", "user")
UserResumes == crew = "held" /\ dispatches # <<>> /\ Latest.retried # "none" /\ Acts("running", Latest.retried)
UserPauses == crew = "running" /\ dispatches # <<>> /\ Acts("held", Latest.retried)
AcquireManually == crew = "paused" /\ Acts("manual", Latest.retried)
ReturnFromManual == crew = "manual" /\ Acts("paused", Latest.retried)
UserCancels == crew \in {"paused", "held"} /\ Acts("ended", Latest.retried)

--------------------------------------------------------------------------
(* retrySafeModelCalls: a preflight over several reads, one transaction.   *)

CanRetryModelCall ==
  /\ crew = "paused" /\ policy.team = "automatic" /\ AutomaticTier(policy.task)
  /\ dispatches # <<>> /\ Len(dispatches) < MaxDispatches
  /\ Latest.retried = "none"
  /\ \A i \in DOMAIN dispatches : Over(dispatches[i]) /\ dispatches[i].seen

\* The snapshot: nothing of the user's since the latest attempt was created.
BeginPreflight ==
  /\ preflight.at = "idle" /\ CanRetryModelCall /\ ~Latest.touched
  /\ preflight' = [at |-> "logs", fresh |-> TRUE, route |-> NoRoute]
  /\ UNCHANGED <<policy, crew, dispatches, acts>>

\* Every attempt's log is read; one that cannot be read or shows anything
\* else ends the preflight.
ReadLogs ==
  /\ preflight.at = "logs"
  /\ preflight' = IF \A i \in DOMAIN dispatches : InspectModelCallFailure(dispatches[i].log)
                  THEN [preflight EXCEPT !.at = "route"] ELSE [preflight EXCEPT !.at = "idle"]
  /\ UNCHANGED <<policy, crew, dispatches, acts>>

LogsUnreadable ==
  /\ preflight.at = "logs"
  /\ preflight' = [preflight EXCEPT !.at = "idle"]
  /\ UNCHANGED <<policy, crew, dispatches, acts>>

\* A route that an attempt already ran on is no retry.
ResolveRetryRoute ==
  /\ preflight.at = "route"
  /\ \E route \in FreshRoutes :
       preflight' = IF route = NoRoute \/ \E i \in DOMAIN dispatches : dispatches[i].model = route
                    THEN [preflight EXCEPT !.at = "idle"]
                    ELSE [preflight EXCEPT !.at = "commit", !.route = route]
  /\ UNCHANGED <<policy, crew, dispatches, acts>>

SafelyRetried == dispatches' = [dispatches EXCEPT ![Len(dispatches)].retried = "safe"] /\ crew' = "running"

\* The transaction commits on the very cut the preflight read, or not at all.
CommitSafeRetry ==
  /\ preflight.at = "commit"
  /\ IF preflight.fresh /\ CanRetryModelCall THEN SafelyRetried ELSE UNCHANGED <<dispatches, crew>>
  /\ preflight' = [preflight EXCEPT !.at = "idle"]
  /\ UNCHANGED <<policy, acts>>

--------------------------------------------------------------------------
ModelsInit ==
  /\ policy \in [team : Policies, task : TaskRequests]
  /\ crew = "running" /\ dispatches = <<>>
  /\ preflight = [at |-> "idle", fresh |-> FALSE, route |-> NoRoute]
  /\ acts = 0

ModelsNext ==
  \/ DispatchTry \/ AttemptFails
  \/ UserRetries \/ UserResumes \/ UserPauses \/ UserCancels
  \/ AcquireManually \/ ReturnFromManual
  \/ BeginPreflight \/ ReadLogs \/ LogsUnreadable \/ ResolveRetryRoute \/ CommitSafeRetry

ModelsSpec == ModelsInit /\ [][ModelsNext]_modelVars

--------------------------------------------------------------------------
\* No attempt ever runs on a provider outside the Team's scope, whatever the
\* catalogs list and whichever routes failed before.
RoutesStayInScope == \A i \in DOMAIN dispatches : IsProviderAllowed(dispatches[i].model)

\* An automatic retry repeats no work: every attempt before it failed in the
\* provider's first call, without output, tools or a second turn.
SafeRetriesLoseNothing ==
  \A i \in DOMAIN dispatches : dispatches[i].retried = "safe" =>
    \A j \in 1 .. i : dispatches[j].log.turns = 1 /\ ~dispatches[j].log.worked
                        /\ dispatches[j].log.failure = "http"

\* An automatic retry is a change of model, although its route is resolved a
\* second time when the attempt is dispatched.
SafeRetryChangesModel ==
  \A i \in DOMAIN dispatches : dispatches[i].retried = "safe" /\ i < Len(dispatches) =>
    dispatches[i + 1].model # dispatches[i].model

\* The user's decision wins: what a human did since the attempt is never
\* followed by a retry that was decided before.
UserDecisionWins ==
  [][\A i \in DOMAIN dispatches : dispatches[i].retried # "safe" /\ dispatches'[i].retried = "safe" =>
       ~dispatches[i].touched]_modelVars

\* Together: a retry nobody asked for is safe, on another model of the scope,
\* and gives way to whatever the user did.
RetriesAreSafe ==
  [](RoutesStayInScope /\ SafeRetriesLoseNothing /\ SafeRetryChangesModel) /\ UserDecisionWins
=============================================================================
