--------------------------- MODULE TeamInstructions ---------------------------
(***************************************************************************)
(* Instructions the user sends to running children: the queue of one       *)
(* controller, the receipt that is written before and after every delivery *)
(* (team-instruction-delivery.ts), and the delivery itself, which holds    *)
(* the journal's transaction while the Host takes the message              *)
(* (sendTaskMessage).  Requests are repeated, receipts fail to persist,    *)
(* tasks end and are retried, and the process restarts.                    *)
(***************************************************************************)
EXTENDS Integers, Sequences, FiniteSets

CONSTANTS
  Asks,            \* instructions sent; two of one id are one request repeated
  MessageIds,      \* request ids
  Workers,         \* tasks of the Team
  MaxSlips,        \* bound on receipts that fail, Host errors and restarts
  MaxRuns          \* bound on the attempts of a task

ASSUME InstructionsAssumption ==
  /\ Asks # {} /\ MessageIds # {} /\ Workers # {} /\ MaxSlips \in Nat /\ MaxRuns \in Nat
  /\ Asks \cap Workers = {}   \* a transaction is an instruction's or a settlement

VARIABLES
  ask,        \* [id, target, at, row, answer] of each instruction
  line,       \* instructionQueues: the asks of the controller, in order
  receipt,    \* per request id, its record: what is visible, what is durable
  open,       \* the Team is running and no gate is closed
  work,       \* the task's status in the journal
  attempt,    \* attempts of each task
  turn,       \* the journal's transactions, in order: an ask or a worker
  got,        \* messages of a request a task's children took
  slips

instructionsVars == <<ask, line, receipt, open, work, attempt, turn, got, slips>>

NoRow == [t \in Workers |-> "none"]
NoReceipt == [rows |-> NoRow, kept |-> NoRow, target |-> {}]
Quiet == [id |-> CHOOSE i \in MessageIds : TRUE, target |-> {}, at |-> "new",
          row |-> CHOOSE t \in Workers : TRUE, answer |-> "none"]

InstructionsTypeOK ==
  /\ ask \in [Asks ->
       [id : MessageIds, target : SUBSET Workers, row : Workers,
        at : {"new", "line", "next", "turn", "host", "sent", "lost", "done"},
        answer : {"none", "receipt", "uncertain", "lost"}]]
  /\ receipt \in [MessageIds ->
       [rows : [Workers -> {"none", "sending", "accepted", "failed", "unknown"}],
        kept : [Workers -> {"none", "sending", "accepted", "failed", "unknown"}],
        target : SUBSET Workers]]
  /\ open \in BOOLEAN /\ work \in [Workers -> {"ready", "running", "done"}]
  /\ got \in [MessageIds -> [Workers -> Nat]]
  /\ line \in Seq(Asks) /\ turn \in Seq(Asks \cup Workers)

InstructionsInit ==
  /\ ask = [a \in Asks |-> Quiet] /\ line = <<>> /\ turn = <<>>
  /\ receipt = [i \in MessageIds |-> NoReceipt]
  /\ open = TRUE /\ work = [t \in Workers |-> "running"]
  /\ attempt = [t \in Workers |-> 1]
  /\ got = [i \in MessageIds |-> [t \in Workers |-> 0]] /\ slips = 0

--------------------------------------------------------------------------
(* Helpers.                                                                *)

Slip == slips < MaxSlips /\ slips' = slips + 1
Served(a, at) == [ask EXCEPT ![a].at = at]
Closed(a, w) == [ask EXCEPT ![a].at = "done", ![a].answer = w]
Ahead(s, x) == s # <<>> /\ Head(s) = x

\* Who is ahead has had its turn and leaves.
Without(s, x) == IF Ahead(s, x) THEN Tail(s) ELSE s

\* Mutant: a receipt whose delivery did not finish is taken for a new request.
Finished(i) == receipt[i].rows # NoRow /\ \A t \in Workers : receipt[i].rows[t] # "sending"

\* readTeamInstructions(): the last record of the request, whatever it says.
Known(i) == receipt[i].rows # NoRow

\* commitYuqiSessionEvent and flush: durable, visible only, or not written.
Persists(i, rows, target, outcome) ==
  /\ receipt' = CASE outcome = "durable" ->
                       [receipt EXCEPT ![i] = [rows |-> rows, kept |-> rows, target |-> target]]
                  [] outcome = "visible" ->
                       [receipt EXCEPT ![i].rows = rows, ![i].target = target]
                  [] outcome = "unwritten" -> receipt
  /\ IF outcome = "durable" THEN slips' = slips ELSE Slip

Outcomes == {"durable", "visible", "unwritten"}

--------------------------------------------------------------------------
(* An instruction.                                                         *)

\* The same id is the same request: its target is the one it had.
Instruct(a, i, target) ==
  /\ ask[a].at = "new" /\ target # {}
  /\ receipt[i].target # {} => target = receipt[i].target
  /\ \A b \in Asks : ask[b].at # "new" /\ ask[b].id = i => target = ask[b].target
  /\ ask' = [ask EXCEPT ![a] = [@ EXCEPT !.id = i, !.target = target, !.at = "line"]]
  /\ line' = Append(line, a)
  /\ UNCHANGED <<receipt, open, work, attempt, turn, got, slips>>

\* The recipients are the running tasks of this moment, or the task named.
Recipients(a) ==
  IF ask[a].target = Workers THEN {t \in Workers : work[t] = "running"} ELSE ask[a].target

\* A request without recipients is recorded with no row; here it is answered.
Intend(a, outcome) ==
  LET i == ask[a].id
      rows == [t \in Workers |-> IF t \in Recipients(a) THEN "sending" ELSE "none"]
  IN
  /\ ask[a].at = "line" /\ Ahead(line, a) /\ ~Known(i) /\ Recipients(a) # {}
  /\ Persists(i, rows, ask[a].target, outcome)
  /\ IF outcome = "durable" THEN ask' = Served(a, "next") /\ line' = line
     ELSE ask' = Closed(a, "uncertain") /\ line' = Without(line, a)
  /\ UNCHANGED <<open, work, attempt, turn, got>>

NoRecipient(a) ==
  /\ ask[a].at = "line" /\ Ahead(line, a) /\ ~Known(ask[a].id) /\ Recipients(a) = {}
  /\ ask' = Closed(a, "receipt") /\ line' = Without(line, a)
  /\ UNCHANGED <<receipt, open, work, attempt, turn, got, slips>>

\* A replay confirms that the record is durable and sends nothing; rows that
\* were being sent are answered as unknown.
Replay(a, confirmed) ==
  LET i == ask[a].id IN
  /\ ask[a].at = "line" /\ Ahead(line, a) /\ Known(i)
  /\ IF confirmed
     THEN /\ receipt' = [receipt EXCEPT ![i].kept = receipt[i].rows] /\ slips' = slips
          /\ ask' = Closed(a, "receipt")
     ELSE receipt' = receipt /\ Slip /\ ask' = Closed(a, "uncertain")
  /\ line' = Without(line, a)
  /\ UNCHANGED <<open, work, attempt, turn, got>>

\* The next row that is still to be sent waits for the journal's transaction.
NextRow(a, t) ==
  /\ ask[a].at = "next" /\ receipt[ask[a].id].rows[t] = "sending"
  /\ ask' = [ask EXCEPT ![a].at = "turn", ![a].row = t]
  /\ turn' = Append(turn, a)
  /\ UNCHANGED <<line, receipt, open, work, attempt, got, slips>>

\* The lifecycle check of sendTaskMessage(): Team and task run in the journal.
Admissible(t) == open /\ work[t] = "running"

\* Mutant: the transaction ends with the check, before the Host took the message.
TurnEnds(a) == Without(turn, a)
TurnKept(a) == turn

Check(a) ==
  /\ ask[a].at = "turn" /\ Ahead(turn, a) /\ Admissible(ask[a].row)
  /\ ask' = Served(a, "host") /\ turn' = TurnKept(a)
  /\ UNCHANGED <<line, receipt, open, work, attempt, got, slips>>

Row(a, status) == [receipt[ask[a].id].rows EXCEPT ![ask[a].row] = status]

Noted(a, status, outcome) ==
  /\ Persists(ask[a].id, Row(a, status), ask[a].target, outcome)
  /\ IF outcome = "durable" THEN ask' = Served(a, "next") /\ line' = line
     ELSE ask' = Closed(a, "uncertain") /\ line' = Without(line, a)

\* A check that fails is a YuqiOrchestratorError: the row is failed.
Reject(a, outcome) ==
  /\ ask[a].at = "turn" /\ Ahead(turn, a) /\ ~Admissible(ask[a].row)
  /\ Noted(a, "failed", outcome)
  /\ turn' = Without(turn, a)
  /\ UNCHANGED <<open, work, attempt, got>>

\* sendControllerTaskMessage(): the Host takes the message.
HandOver(a) ==
  /\ ask[a].at = "host"
  /\ got' = [got EXCEPT ![ask[a].id][ask[a].row] = @ + 1]
  /\ ask' = Served(a, "sent") /\ turn' = Without(turn, a)
  /\ UNCHANGED <<line, receipt, open, work, attempt, slips>>

Accept(a, outcome) ==
  /\ ask[a].at = "sent"
  /\ Noted(a, "accepted", outcome)
  /\ UNCHANGED <<open, work, attempt, turn, got>>

\* The Host fails: the message may have been taken.
HostFails(a, taken) ==
  /\ ask[a].at = "host" /\ Slip
  /\ got' = IF taken THEN [got EXCEPT ![ask[a].id][ask[a].row] = @ + 1] ELSE got
  /\ ask' = Served(a, "lost") /\ turn' = Without(turn, a)
  /\ UNCHANGED <<line, receipt, open, work, attempt>>

Doubt(a, outcome) ==
  /\ ask[a].at = "lost"
  /\ Noted(a, "unknown", outcome)
  /\ UNCHANGED <<open, work, attempt, turn, got>>

\* Every row has its result: the record is the answer.
Receive(a) ==
  /\ ask[a].at = "next" /\ \A t \in Workers : receipt[ask[a].id].rows[t] # "sending"
  /\ ask' = Closed(a, "receipt") /\ line' = Without(line, a)
  /\ UNCHANGED <<receipt, open, work, attempt, turn, got, slips>>

--------------------------------------------------------------------------
(* The Team.                                                               *)

\* A child ends: its settlement is the next transaction of the journal.
EndsWork(t) ==
  /\ work[t] = "running" /\ \A k \in DOMAIN turn : turn[k] # t
  /\ turn' = Append(turn, t)
  /\ UNCHANGED <<ask, line, receipt, open, work, attempt, got, slips>>

SettleWork(t) ==
  /\ Ahead(turn, t)
  /\ work' = [work EXCEPT ![t] = "done"] /\ turn' = Tail(turn)
  /\ UNCHANGED <<ask, line, receipt, open, attempt, got, slips>>

\* A pause, a cancel or a recovery gate; and the way back.
Gate ==
  /\ turn = <<>> /\ open' = ~open
  /\ UNCHANGED <<ask, line, receipt, work, attempt, turn, got, slips>>

Redo(t) ==
  /\ turn = <<>> /\ open /\ work[t] = "done" /\ attempt[t] < MaxRuns
  /\ work' = [work EXCEPT ![t] = "running"] /\ attempt' = [attempt EXCEPT ![t] = @ + 1]
  /\ UNCHANGED <<ask, line, receipt, open, turn, got, slips>>

\* The process restarts: what was only visible is gone, children are gone.
InstructionsStop ==
  /\ Slip
  /\ ask' = [a \in Asks |-> IF ask[a].at \in {"new", "done"} THEN ask[a]
                            ELSE [ask[a] EXCEPT !.at = "done", !.answer = "lost"]]
  /\ line' = <<>> /\ turn' = <<>> /\ open' = FALSE
  /\ receipt' = [i \in MessageIds |->
       [receipt[i] EXCEPT !.rows = receipt[i].kept,
                          !.target = IF receipt[i].kept = NoRow THEN {} ELSE @]]
  /\ work' = [t \in Workers |-> IF work[t] = "running" THEN "done" ELSE work[t]]
  /\ UNCHANGED <<attempt, got>>

InstructionsNext ==
  \/ \E a \in Asks, i \in MessageIds :
       \E target \in {Workers} \cup {{t} : t \in Workers} : Instruct(a, i, target)
  \/ \E a \in Asks, o \in Outcomes : Intend(a, o) \/ Reject(a, o) \/ Accept(a, o) \/ Doubt(a, o)
  \/ \E a \in Asks, b \in BOOLEAN : Replay(a, b) \/ HostFails(a, b)
  \/ \E a \in Asks, t \in Workers : NextRow(a, t)
  \/ \E a \in Asks : NoRecipient(a) \/ Check(a) \/ HandOver(a) \/ Receive(a)
  \/ \E t \in Workers : EndsWork(t) \/ SettleWork(t) \/ Redo(t)
  \/ Gate \/ InstructionsStop

InstructionsSpec == InstructionsInit /\ [][InstructionsNext]_instructionsVars

--------------------------------------------------------------------------
(* Properties.                                                             *)

\* A child takes a request once, however often the request is repeated and
\* whatever fails, and a receipt never claims a delivery that did not happen
\* or denies one that did (deliverTeamInstruction).
ReceiptsAreTrue ==
  \A i \in MessageIds, t \in Workers :
    /\ got[i][t] <= 1
    /\ receipt[i].rows[t] = "accepted" => got[i][t] = 1
    /\ receipt[i].rows[t] = "failed" => got[i][t] = 0

\* A message never reaches a task the journal already shows as ended, nor a
\* Team that does not run (the transaction held by sendTaskMessage).
MessagesMeetRunningWork ==
  [][\A i \in MessageIds, t \in Workers :
       got'[i][t] # got[i][t] => open /\ work[t] = "running"]_instructionsVars

\* Together: what a request tells its tasks, and what its receipt tells of it.
InstructionsAreTrue == [](InstructionsTypeOK /\ ReceiptsAreTrue) /\ MessagesMeetRunningWork
=============================================================================
