---------------------------- MODULE TeamEvidence ----------------------------
(***************************************************************************)
(* The collection of Host evidence for one verification and the verdict    *)
(* that is derived from it: VerificationVerdictCoordinator asks the        *)
(* collector outside the journal gate, the collector runs one fixed        *)
(* command per durable check through the subprocess port, the port races   *)
(* the process against its timeout and the caller's abort and waits for    *)
(* the whole process tree, and the coordinator records one verdict, which  *)
(* the projection derives again from the recorded facts.                   *)
(*                                                                         *)
(* A step is the code between two awaits.  Texts, digests and byte bounds  *)
(* are left out; a test report keeps its claimed and its actual counts.    *)
(***************************************************************************)
EXTENDS Integers, Sequences

CONSTANTS
  CheckKinds,   \* the kinds the durable checks of a task may have
  MaxChecks,    \* bound on the checks of one task (MAX_VERIFICATION_CHECKS is 4)
  ReworkAttempts      \* the attempt numbers a rework budget is asked with

ASSUME EvidenceAssumption ==
  /\ CheckKinds \subseteq {"build", "test", "interface", "screenshot"}
  /\ MaxChecks \in Nat \ {0}
  /\ ReworkAttempts \subseteq Nat \ {0}

MaxReworkRounds == 5

VARIABLES
  reqs,     \* the requirements of the verification, by check id
  budget,   \* [current, max, teamSpent]: the rework budget of the request
  request,  \* the coordinator's request: its phase and the result it took
  col,      \* the collector's loop: [at, i, evidence]
  port,     \* the port's run: [phase, cut, settled, out]
  tree,     \* the process tree of the run: "none", "alive", "gone"
  aborted,  \* the caller's AbortSignal
  current,  \* the verification is still the Task's current one
  verdict,  \* the recorded verdict, or NoVerdict
  proven    \* the checks a completed process of this collection passed

evidenceVars ==
  <<reqs, budget, request, col, port, tree, aborted, current, verdict, proven>>

--------------------------------------------------------------------------
(* One record against one requirement.                                     *)

FailedCodes == {"build-failed", "tests-failed", "interface-failed",
                "screenshot-mismatch"}

\* The reason code of a record of the requirement's check, "none" when it
\* passes: a code decides the outcome of the check.
AssessEvidenceRecord(req, rec) ==
  IF rec.kind # req.kind THEN "invalid-evidence"
  ELSE IF rec.kind = "build" THEN IF rec.exit = 0 THEN "none" ELSE "build-failed"
  ELSE IF rec.kind = "test" THEN
    IF rec.exit # 0 \/ rec.failed > 0 THEN "tests-failed"
    ELSE IF rec.skipped > 0 THEN "tests-incomplete" ELSE "none"
  ELSE IF rec.seen = "match" THEN "none"
  ELSE IF rec.kind = "interface" THEN "interface-failed"
  ELSE IF rec.seen = "mismatch" THEN "screenshot-mismatch" ELSE "screenshot-unavailable"

\* The places of the records of a check among the evidence.
RecordsOf(evidence, i) == {k \in DOMAIN evidence : evidence[k].check = i}
Several(places) == \E k, l \in places : k # l
RecordAt(evidence, places) == evidence[CHOOSE k \in places : TRUE]

\* No record and two records of one check are both no proof.
AssessRequirement(req, i, evidence) ==
  LET candidates == RecordsOf(evidence, i) IN
  IF candidates = {} THEN "missing-evidence"
  ELSE IF Several(candidates) THEN "invalid-evidence"
  ELSE AssessEvidenceRecord(req, RecordAt(evidence, candidates))

\* An optional check gates the verdict until it has a record of its own.
IsRequired(req, i, evidence) == req.required \/ RecordsOf(evidence, i) = {}

Disposition(codes, gating) ==
  IF \E i \in gating : codes[i] \in FailedCodes THEN "failed"
  ELSE IF \E i \in gating : codes[i] # "none" THEN "inconclusive" ELSE "passed"

CollectionReason(status) ==
  IF status = "unavailable" THEN "collector-unavailable"
  ELSE IF status = "failed" THEN "collector-failed" ELSE "collector-aborted"

ReworkKind(code) ==
  IF code = "build-failed" THEN "build"
  ELSE IF code \in {"tests-failed", "tests-incomplete"} THEN "test"
  ELSE IF code = "interface-failed" THEN "interface" ELSE "screenshot"

NoRework == [action |-> "none", next |-> 0, kinds |-> {}]

\* Guidance for a failed attempt: another attempt while the budget lasts, and
\* one instruction per kind of failed check.
MakeReworkAdvice(b, codes) ==
  LET instructive == FailedCodes \cup {"tests-incomplete", "screenshot-unavailable"}
      kinds == {ReworkKind(codes[i]) : i \in {j \in DOMAIN codes : codes[j] \in instructive}}
  IN IF b.current < b.max
     THEN [action |-> "retry", next |-> b.current + 1, kinds |-> kinds]
     ELSE [action |-> "stop", next |-> 0, kinds |-> kinds]

\* A budget the evaluation refuses ends the request before anything runs.
RequestIsValid(b) == b.max >= b.current /\ b.max <= MaxReworkRounds

EvaluateEvidenceVerdict(rs, evidence, status, b) ==
  LET codes == [i \in DOMAIN rs |->
                  IF status = "collected" THEN AssessRequirement(rs[i], i, evidence)
                  ELSE CollectionReason(status)]
      gating == IF status = "collected"
                THEN {i \in DOMAIN rs : IsRequired(rs[i], i, evidence)}
                ELSE DOMAIN rs
      disposition == Disposition(codes, gating)
  IN [disposition |-> disposition, codes |-> codes,
      rework |-> IF disposition = "failed" THEN MakeReworkAdvice(b, codes)
                 ELSE NoRework]

\* Malformed records are left out; the others keep their places.
WellFormed(raw) == [k \in {m \in DOMAIN raw : raw[m].wellFormed} |-> raw[k]]

\* What the coordinator makes durable: the well-formed records, and a
\* Team whose automatic reworks are spent stops instead of retrying.
VerdictToRecord(rs, raw, status, b) ==
  LET valid == IF status = "collected" THEN WellFormed(raw) ELSE <<>>
      v == EvaluateEvidenceVerdict(rs, valid, status, b)
      spent == v.rework.action = "retry" /\ b.teamSpent
  IN [disposition |-> v.disposition, codes |-> v.codes, status |-> status,
      evidence |-> valid, budget |-> b,
      rework |-> IF spent THEN [action |-> "stop", next |-> 0, kinds |-> {"controller"}]
                 ELSE v.rework]

NoVerdict == [disposition |-> "none"]

--------------------------------------------------------------------------
(* What the projection accepts, derived from the recorded facts alone.     *)

ExpectedCode(req, i, evidence, status) ==
  LET matches == RecordsOf(evidence, i) IN
  IF status # "collected" THEN CollectionReason(status)
  ELSE IF matches = {} THEN "missing-evidence"
  ELSE IF Several(matches) THEN "invalid-evidence"
  ELSE AssessEvidenceRecord(req, RecordAt(evidence, matches))

ExpectedVerdict(rs, evidence, status) ==
  LET codes == [i \in DOMAIN rs |-> ExpectedCode(rs[i], i, evidence, status)]
      gating == {i \in DOMAIN rs : status # "collected" \/ IsRequired(rs[i], i, evidence)}
  IN [codes |-> codes, disposition |-> Disposition(codes, gating)]

ReworkIsValid(v) ==
  IF v.rework.action = "none" THEN v.disposition # "failed"
  ELSE /\ v.disposition = "failed" /\ v.budget.current <= v.budget.max
       /\ v.budget.max <= MaxReworkRounds
       /\ v.rework.action = "retry" => v.rework.next = v.budget.current + 1
       /\ v.rework.action = "stop" => v.rework.next = 0
       /\ v.rework.kinds # {}

\* The projection keeps a verdict only when its facts derive it: evidence
\* belongs to a finished collection, codes and disposition follow from it.
ProjectionAccepts(rs, v) ==
  /\ v.status # "collected" => v.evidence = <<>>
  /\ ExpectedVerdict(rs, v.evidence, v.status) =
       [codes |-> v.codes, disposition |-> v.disposition]
  /\ ReworkIsValid(v)

--------------------------------------------------------------------------
(* A Vitest report: what its totals claim, what its assertions say.        *)

Counts == [passed : 0 .. 1, failed : 0 .. 1, skipped : 0 .. 1]
Reports == [json : BOOLEAN, success : BOOLEAN, claimed : Counts, actual : Counts]
Total(c) == c.passed + c.failed + c.skipped

\* A report counts only when it is whole and agrees with itself and with the
\* exit code; a non-zero exit stays failed evidence.
ReportIsComplete(r, exit) ==
  /\ r.json /\ Total(r.claimed) > 0
  /\ exit = 0 => r.success
  /\ r.success => r.claimed.failed = 0
  /\ r.actual = r.claimed

Proves(kind, exit, report, seen) ==
  /\ exit = 0
  /\ kind = "test" => report.actual.failed = 0 /\ report.actual.passed = Total(report.actual)
  /\ kind \notin {"build", "test"} => seen = "match"

Record(i, kind, out) ==
  [check |-> i, kind |-> kind, exit |-> out.exit, failed |-> out.failed,
   skipped |-> out.skipped, seen |-> out.seen, wellFormed |-> TRUE]

--------------------------------------------------------------------------
(* The port and the collector.                                             *)

NoCounts == [passed |-> 0, failed |-> 0, skipped |-> 0]
NoReport == [json |-> FALSE, success |-> FALSE, claimed |-> NoCounts, actual |-> NoCounts]

\* What an ended process leaves to the port: its exit code (-1: none, a
\* signal), its parsed report or probe, and whether it really proves its check.
RunOutcome(kind, exit, report, seen) ==
  LET whole == ReportIsComplete(report, exit) IN
  [exit |-> exit, seen |-> IF kind = "test" /\ ~whole THEN "broken" ELSE seen,
   failed |-> IF whole THEN report.claimed.failed ELSE 0,
   skipped |-> IF whole THEN report.claimed.skipped ELSE 0,
   proves |-> Proves(kind, exit, report, seen)]
NoOutcome == [exit |-> -1, seen |-> "none", failed |-> 0, skipped |-> 0, proves |-> FALSE]

PortIdle == [phase |-> "off", cut |-> "none", settled |-> "none", out |-> NoOutcome]
Busy == port.phase # "off"

\* The collector answers: the coordinator takes the answer unless the abort
\* was first (collectWithAbort races the two).
Answer(kind, evidence) ==
  /\ port' = PortIdle
  /\ col' = [col EXCEPT !.at = "over"]
  /\ request' = IF request.phase # "collecting" THEN request
                ELSE [phase |-> "taken", kind |-> kind, evidence |-> evidence]

\* The answers of a collector that runs nothing: the workspace or the checks
\* it re-reads are not the durable ones, or the Host has no subprocess runtime.
RefusedAtSource == {"failed", "unavailable"}

\* The durable identity and the budget are checked before the collector is
\* reached; an aborted request never reaches it.
CollectAndRecord ==
  /\ request.phase = "idle"
  /\ IF ~current \/ ~RequestIsValid(budget)
     THEN request' = [request EXCEPT !.phase = "refused"] /\ UNCHANGED col
     ELSE \/ /\ request' \in [phase : {"taken"}, evidence : {<<>>},
                             kind : IF aborted THEN {"aborted"} ELSE RefusedAtSource]
             /\ UNCHANGED col
          \/ /\ ~aborted
             /\ request' = [request EXCEPT !.phase = "collecting"]
             /\ col' = [col EXCEPT !.at = "checking"]
  /\ UNCHANGED <<reqs, budget, port, tree, aborted, current, verdict, proven>>

\* The workspace declares no script or no single project for the command.
CommandUnavailable == Answer("unavailable", <<>>)

\* A fixed command that this workspace does not declare is unavailable; an
\* aborted signal is found before anything is spawned.
CheckAvailable ==
  /\ col.at = "checking"
  /\ \/ CommandUnavailable
     \/ aborted /\ Answer("aborted", <<>>)
     \/ /\ ~aborted
        /\ col' = [col EXCEPT !.at = "running"]
        /\ port' = [PortIdle EXCEPT !.phase = "resolving"]
        /\ UNCHANGED request
  /\ UNCHANGED <<reqs, budget, tree, aborted, current, verdict, proven>>

InterruptedAnswer(cut) ==
  Answer(IF cut = "aborted" THEN "aborted" ELSE "failed", <<>>)

\* No executable, or a command shim that is not a plain Node launcher.
ResolutionFails == port.cut = "none" /\ Answer("failed", <<>>)

\* The executable is resolved and the process spawned, unless the run was
\* interrupted meanwhile; a failure of either is a failed run.
SpawnProcess ==
  /\ port.phase = "resolving"
  /\ \/ /\ port.cut = "none"
        /\ port' = [port EXCEPT !.phase = "running"]
        /\ tree' = "alive"
        /\ UNCHANGED <<request, col>>
     \/ ResolutionFails /\ UNCHANGED tree
     \/ /\ port.cut # "none" /\ InterruptedAnswer(port.cut) /\ UNCHANGED tree
  /\ UNCHANGED <<reqs, budget, aborted, current, verdict, proven>>

\* The first cause of an interruption is kept; a running process is settled
\* as interrupted and terminated, a settled one keeps its settlement.
Interrupt(kind) ==
  port' = IF ~Busy \/ port.cut # "none" THEN port
          ELSE [port EXCEPT !.cut = kind,
                  !.settled = IF port.phase = "running" THEN "interrupted" ELSE @,
                  !.phase = IF @ = "running" THEN "exiting" ELSE @]

RunTimesOut ==
  /\ Busy /\ port.cut = "none"
  /\ Interrupt("timed-out")
  /\ UNCHANGED <<reqs, budget, request, col, tree, aborted, current, verdict, proven>>

AbortRequest ==
  /\ ~aborted /\ request.phase \in {"idle", "collecting"}
  /\ aborted' = TRUE
  /\ Interrupt("aborted")
  /\ request' = IF request.phase = "collecting"
                THEN [phase |-> "taken", kind |-> "aborted", evidence |-> <<>>] ELSE request
  /\ UNCHANGED <<reqs, budget, col, tree, current, verdict, proven>>

Seen(kind) ==
  IF kind = "interface" THEN {"match", "mismatch", "elsewhere", "broken"}
  ELSE IF kind = "screenshot" THEN {"match", "mismatch", "unavailable", "elsewhere", "broken"}
  ELSE {"none"}

\* The process ends with a code and an output, or its handle fails;
\* descendants may outlive it.
ProcessEnds ==
  /\ port.phase = "running"
  /\ \/ \E exit \in {-1, 0, 1}, seen \in Seen(reqs[col.i].kind) :
        \E report \in (IF reqs[col.i].kind = "test" THEN Reports ELSE {NoReport}) :
          port' = [port EXCEPT !.phase = "exiting", !.settled = "done",
                     !.out = RunOutcome(reqs[col.i].kind, exit, report, seen)]
     \/ port' = [port EXCEPT !.phase = "exiting", !.settled = "spawn-failed"]
  /\ UNCHANGED <<reqs, budget, request, col, tree, aborted, current, verdict, proven>>

TreeExits ==
  /\ tree = "alive" /\ port.phase # "running"
  /\ tree' = "gone"
  /\ UNCHANGED <<reqs, budget, request, col, port, aborted, current, verdict, proven>>

\* What the collector makes of a run whose tree is gone: the next check, the
\* whole evidence after the last one, or the answer of a run that proves
\* nothing.
TakeRun ==
  LET kind == reqs[col.i].kind
      collected == Append(col.evidence, Record(col.i, kind, port.out))
  IN IF port.settled = "interrupted" THEN InterruptedAnswer(port.cut)
     ELSE IF \/ port.settled = "spawn-failed" \/ port.out.exit = -1
             \/ kind \in {"interface", "screenshot"} /\ port.out.exit # 0 THEN Answer("failed", <<>>)
     ELSE IF port.out.seen = "broken" THEN Answer("unavailable", <<>>)
     ELSE IF port.out.seen = "elsewhere" THEN Answer("failed", <<>>)
     ELSE IF col.i = Len(reqs) THEN Answer("collected", collected)
     ELSE /\ col' = [at |-> "checking", i |-> col.i + 1, evidence |-> collected]
          /\ port' = PortIdle
          /\ UNCHANGED request

\* Mutant: the run is taken as soon as the process itself has ended.
TakeWithoutWaiting ==
  /\ port.phase = "exiting"
  /\ TakeRun
  /\ proven' = IF port.settled = "done" /\ port.out.proves THEN proven \cup {col.i} ELSE proven
  /\ UNCHANGED <<reqs, budget, tree, aborted, current, verdict>>

\* waitForExit sees the whole tree gone, or its grace ends first: then the
\* run has failed and the tree is left behind.
WaitForExit ==
  /\ port.phase = "exiting"
  /\ IF tree = "alive" THEN Answer("failed", <<>>) ELSE TakeRun
  /\ proven' = IF /\ tree # "alive" /\ port.settled = "done" /\ port.out.proves
               THEN proven \cup {col.i} ELSE proven
  /\ UNCHANGED <<reqs, budget, tree, aborted, current, verdict>>

\* The answer is recorded in one transaction that finds the verification
\* still current, or nothing is.
RecordInTransaction ==
  /\ request.phase = "taken"
  /\ request' = [request EXCEPT !.phase = IF current THEN "recorded" ELSE "refused"]
  /\ verdict' = IF current THEN VerdictToRecord(reqs, request.evidence, request.kind, budget)
                ELSE verdict
  /\ UNCHANGED <<reqs, budget, col, port, tree, aborted, current, proven>>

\* Records a caller may hand over, well formed or not.
GivenRecords ==
  [check : 1 .. 2, kind : {"test", "screenshot"}, exit : {0, 1}, failed : {0},
   skipped : {0, 1}, seen : {"match", "unavailable"}, wellFormed : BOOLEAN]

\* The coordinator's other entry evaluates records a caller hands it, which
\* may be malformed, of another kind, or several of one check.
RecordGivenEvidence ==
  /\ request.phase = "offered" /\ current
  /\ \E n \in 0 .. 2 : \E ev \in [1 .. n -> GivenRecords] :
       IF RequestIsValid(budget)
       THEN /\ verdict' = VerdictToRecord(reqs, ev, "collected", budget)
            /\ request' = [request EXCEPT !.phase = "given"]
       ELSE /\ request' = [request EXCEPT !.phase = "refused"]
            /\ UNCHANGED verdict
  /\ UNCHANGED <<reqs, budget, col, port, tree, aborted, current, proven>>

\* A control ends the verification while it is collected.
VerificationEnds ==
  /\ current /\ verdict = NoVerdict
  /\ current' = FALSE
  /\ UNCHANGED <<reqs, budget, request, col, port, tree, aborted, verdict, proven>>

--------------------------------------------------------------------------
\* Durable checks are all required; a given request may have optional ones.
CollectInit ==
  /\ \E n \in 1 .. MaxChecks : reqs \in [1 .. n -> [kind : CheckKinds, required : {TRUE}]]
  /\ budget \in [current : ReworkAttempts, max : {2}, teamSpent : BOOLEAN]
  /\ request = [phase |-> "idle", kind |-> "none", evidence |-> <<>>]
  /\ col = [at |-> "off", i |-> 1, evidence |-> <<>>]
  /\ port = PortIdle /\ tree = "none"
  /\ aborted = FALSE /\ current = TRUE /\ verdict = NoVerdict /\ proven = {}

GivenInit ==
  /\ reqs \in [1 .. 2 -> [kind : {"test", "screenshot"}, required : BOOLEAN]]
  /\ budget \in [current : ReworkAttempts, max : {2}, teamSpent : BOOLEAN]
  /\ request = [phase |-> "offered", kind |-> "none", evidence |-> <<>>]
  /\ col = [at |-> "off", i |-> 1, evidence |-> <<>>]
  /\ port = PortIdle /\ tree = "none"
  /\ aborted = FALSE /\ current = TRUE /\ verdict = NoVerdict /\ proven = {}

CollectNext ==
  \/ CollectAndRecord \/ CheckAvailable \/ SpawnProcess
  \/ RunTimesOut \/ AbortRequest \/ ProcessEnds \/ TreeExits \/ WaitForExit
  \/ RecordInTransaction \/ RecordGivenEvidence \/ VerificationEnds

\* Timers fire, file reads and the resolver answer, and the event loop runs;
\* nothing makes a process or its tree end by itself.
CollectFairness ==
  /\ WF_evidenceVars(CheckAvailable) /\ WF_evidenceVars(SpawnProcess)
  /\ WF_evidenceVars(RunTimesOut)
  /\ WF_evidenceVars(WaitForExit) /\ WF_evidenceVars(RecordInTransaction)

CollectSpec == (CollectInit \/ GivenInit) /\ [][CollectNext]_evidenceVars /\ CollectFairness

--------------------------------------------------------------------------
\* A passing verdict of a collection rests on one completed process per
\* durable check, each of which really passed: no aborted, timed out,
\* truncated or misdirected run stands behind it.
PassedIsProven ==
  request.phase = "recorded" /\ verdict.disposition = "passed" => proven = DOMAIN reqs

\* Whatever the coordinator records, from a collector or from a caller's
\* records, the projection derives again from the durable facts: a recorded
\* verdict never makes the journal unreadable.
VerdictReplays ==
  verdict # NoVerdict => ProjectionAccepts(reqs, verdict)

\* Evidence that decides the Task is recorded after the tree of the last
\* process is gone, so a retry never meets a process of the attempt it
\* replaces.
DecidedAfterExit ==
  request.phase = "recorded" /\ verdict.disposition \in {"passed", "failed"} =>
    tree # "alive"

\* A collection ends with a verdict or a refusal, even when no process of
\* it ever ends by itself.
CollectionEnds ==
  (request.phase = "collecting") ~> (request.phase \in {"recorded", "refused"})

\* Together: a verdict is reached, is earned and can be read again.
VerdictsAreProven == [](PassedIsProven /\ VerdictReplays /\ DecidedAfterExit) /\ CollectionEnds
=============================================================================
