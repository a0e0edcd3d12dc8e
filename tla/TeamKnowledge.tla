---------------------------- MODULE TeamKnowledge ----------------------------
(***************************************************************************)
(* The project knowledge index (.yuqi-team/index.json) and the panels that *)
(* show it.  Several controllers may share one project: a save is a read,  *)
(* a patch and a rename under the writer queue of the file; a publication  *)
(* reads the file again under the same queue and appends the result to the *)
(* controller's Session.  The deletion commands of one controller also     *)
(* wait for each other.                                                    *)
(*                                                                         *)
(* A step is the code between two awaits.  The index is one section: a set *)
(* of entries with a version that counts its writes.                       *)
(***************************************************************************)
EXTENDS Integers, Sequences, FiniteSets

CONSTANTS
  Commands,        \* the commands of a run
  Panels,          \* controllers whose Teams share the project
  EntryIds,         \* entry ids
  MaxEntries,      \* MAX_PROJECT_SUMMARY_ITEMS
  MaxDiskFaults,   \* bound on failed writes, reads and Session commits
  MaxStops         \* bound on restarts of the process

ASSUME KnowledgeAssumption ==
  /\ MaxEntries \in Nat \ {0} /\ MaxDiskFaults \in Nat /\ MaxStops \in Nat
  /\ Commands # {} /\ Panels # {} /\ EntryIds # {}

VARIABLES
  command,   \* [kind, panel, entry, at, snap, saw, answer] of each command
  turns,     \* per controller, the deletion commands in their order
  fileQueue, \* the writer queue of the index
  disk,      \* the index file: [v, entries]
  panelShows,     \* per controller, the summary its Session shows last
  ready,     \* controllers whose Team workspace is ready
  mishaps    \* [faults, stops]

knowledgeVars == <<command, turns, fileQueue, disk, panelShows, ready, mishaps>>

IndexCommands == {"delete", "clear", "record", "refresh"}
Deletions == {"delete", "clear"}
NoIndex == [v |-> 0, entries |-> {}]

KnowledgeTypeOK ==
  /\ command \in [Commands ->
       [kind : IndexCommands, panel : Panels, entry : EntryIds,
        at : {"new", "turn", "path", "saving", "writing", "saved", "publishing",
              "recording", "done"},
        snap : [v : Nat, entries : SUBSET EntryIds],
        saw : [v : Nat, entries : SUBSET EntryIds],
        answer : {"none", "error", "partial", "synced", "lost"}]]
  /\ turns \in [Panels -> Seq(Commands)] /\ fileQueue \in Seq(Commands)
  /\ disk \in [v : Nat, entries : SUBSET EntryIds]
  /\ panelShows \in [Panels -> [v : Nat, entries : SUBSET EntryIds]]
  /\ ready \subseteq Panels

KnowledgeInit ==
  /\ command = [p \in Commands |->
       [kind |-> "refresh", panel |-> CHOOSE c \in Panels : TRUE,
        entry |-> CHOOSE e \in EntryIds : TRUE, at |-> "new",
        snap |-> NoIndex, saw |-> NoIndex, answer |-> "none"]]
  /\ turns = [c \in Panels |-> <<>>] /\ fileQueue = <<>>
  /\ disk \in [v : {0}, entries : {s \in SUBSET EntryIds : Cardinality(s) <= MaxEntries}]
  /\ panelShows = [c \in Panels |-> NoIndex]
  /\ ready = Panels
  /\ mishaps = [faults |-> 0, stops |-> 0]

--------------------------------------------------------------------------
(* Helpers.                                                                *)

\* updateProjectSummary(): an entry replaces the one of its id; a removal of
\* what is not there changes nothing.
Patched(k, e, entries) ==
  CASE k = "delete" -> entries \ {e}
    [] k = "clear" -> {}
    [] OTHER -> entries \cup {e}

\* A full section refuses a new entry: nothing is evicted for it.
Overflows(k, e, entries) ==
  k = "record" /\ Cardinality(entries \ {e}) >= MaxEntries

Fault == mishaps.faults < MaxDiskFaults /\ mishaps' = [mishaps EXCEPT !.faults = @ + 1]

\* The finally of the deletion queue: a deletion that ends had its turn, the next one goes.
TurnOver(p) ==
  IF command[p].kind \in Deletions THEN [turns EXCEPT ![command[p].panel] = Tail(@)] ELSE turns

LeftQueue(p) == Tail(fileQueue)

Answered(p, a) == [command EXCEPT ![p].at = "done", ![p].answer = a, ![p].snap = NoIndex]

\* serializeSummaryWrite(): an operation runs when it is first in the queue.
HasFile(p) == fileQueue # <<>> /\ Head(fileQueue) = p

--------------------------------------------------------------------------
(* A command up to its save.                                               *)

\* A refresh reads the index without the queue first; what it read is not
\* what it publishes.
Submit(p, k, c, e) ==
  /\ command[p].at = "new"
  /\ k \notin {"delete", "record"} => e = command[p].entry
  /\ command' = [command EXCEPT ![p] =
       [@ EXCEPT !.kind = k, !.panel = c, !.entry = e,
                 !.at = IF k \in Deletions THEN "turn" ELSE IF k = "record" THEN "path" ELSE "saved",
                 !.saw = IF k = "refresh" THEN disk ELSE command[p].saw]]
  /\ turns' = IF k \in Deletions THEN [turns EXCEPT ![c] = Append(@, p)] ELSE turns
  /\ UNCHANGED <<fileQueue, disk, panelShows, ready, mishaps>>

\* Identity and workspace are resolved after the wait.
TakeTurn(p) ==
  /\ command[p].at = "turn" /\ Head(turns[command[p].panel]) = p
  /\ IF command[p].panel \in ready
     THEN command' = [command EXCEPT ![p].at = "path"] /\ turns' = turns
     ELSE command' = Answered(p, "error") /\ turns' = TurnOver(p)
  /\ UNCHANGED <<fileQueue, disk, panelShows, ready, mishaps>>

\* canonicalSummaryPath() resolves the directory before the queue is joined.
JoinToSave(p) ==
  /\ command[p].at = "path"
  /\ fileQueue' = Append(fileQueue, p)
  /\ command' = [command EXCEPT ![p].at = "saving"]
  /\ UNCHANGED <<turns, disk, panelShows, ready, mishaps>>

ReadToSave(p) ==
  /\ command[p].at = "saving" /\ HasFile(p)
  /\ command' = [command EXCEPT ![p].at = "writing", ![p].snap = disk]
  /\ UNCHANGED <<turns, fileQueue, disk, panelShows, ready, mishaps>>

\* The rename of the temporary file; an unchanged index is not written.
Save(p) ==
  LET c == command[p]
      next == Patched(c.kind, c.entry, c.snap.entries)
  IN
  /\ c.at = "writing" /\ ~Overflows(c.kind, c.entry, c.snap.entries)
  /\ disk' = IF c.kind \in Deletions /\ next = c.snap.entries THEN disk
             ELSE [v |-> disk.v + 1, entries |-> next]
  /\ command' = [command EXCEPT ![p].at = "saved", ![p].saw = disk']
  /\ fileQueue' = LeftQueue(p)
  /\ UNCHANGED <<turns, panelShows, ready, mishaps>>

SaveFails(p) ==
  /\ command[p].at = "writing"
  /\ \/ Overflows(command[p].kind, command[p].entry, command[p].snap.entries)
        /\ mishaps' = mishaps
     \/ Fault
  /\ command' = Answered(p, "error")
  /\ fileQueue' = LeftQueue(p) /\ turns' = TurnOver(p)
  /\ UNCHANGED <<disk, panelShows, ready>>

--------------------------------------------------------------------------
(* The publication to the panel.                                           *)

\* The outcome of a publication that failed: the save stands.
Unpublished(p) == Answered(p, IF command[p].kind = "refresh" THEN "error" ELSE "partial")

JoinToPublish(p) ==
  /\ command[p].at = "saved"
  /\ IF command[p].panel \in ready
     THEN /\ fileQueue' = Append(fileQueue, p)
          /\ command' = [command EXCEPT ![p].at = "publishing"]
          /\ turns' = turns
     ELSE command' = Unpublished(p) /\ turns' = TurnOver(p) /\ fileQueue' = fileQueue
  /\ UNCHANGED <<disk, panelShows, ready, mishaps>>

\* Mutant: the summary the caller saved is published, not the latest one.
CallersSummary(p) == command[p].saw

OnDisk(p) == disk

ReadToPublish(p) ==
  /\ command[p].at = "publishing" /\ HasFile(p)
  /\ command' = [command EXCEPT ![p].at = "recording", ![p].snap = OnDisk(p)]
  /\ UNCHANGED <<turns, fileQueue, disk, panelShows, ready, mishaps>>

\* commitProjectSummary() for the workspace that is still this one.
Publish(p) ==
  /\ command[p].at = "recording" /\ command[p].panel \in ready
  /\ panelShows' = [panelShows EXCEPT ![command[p].panel] = command[p].snap]
  /\ command' = Answered(p, "synced")
  /\ fileQueue' = LeftQueue(p) /\ turns' = TurnOver(p)
  /\ UNCHANGED <<disk, ready, mishaps>>

\* The append may be visible although the flush failed.
PublishFails(p) ==
  /\ command[p].at = "recording"
  /\ \/ command[p].panel \notin ready /\ mishaps' = mishaps /\ panelShows' = panelShows
     \/ /\ Fault
        /\ panelShows' \in {panelShows, [panelShows EXCEPT ![command[p].panel] = command[p].snap]}
  /\ command' = Unpublished(p)
  /\ fileQueue' = LeftQueue(p) /\ turns' = TurnOver(p)
  /\ UNCHANGED <<disk, ready>>

--------------------------------------------------------------------------
(* The surroundings.                                                       *)

\* The Team's workspace is cleaned up or fails.
WorkspaceGoes(c) ==
  /\ c \in ready
  /\ Fault
  /\ ready' = ready \ {c}
  /\ UNCHANGED <<command, turns, fileQueue, disk, panelShows>>

KnowledgeStops ==
  /\ mishaps.stops < MaxStops
  /\ mishaps' = [mishaps EXCEPT !.stops = @ + 1]
  /\ command' = [p \in Commands |->
       IF command[p].at \in {"new", "done"} THEN command[p]
       ELSE [command[p] EXCEPT !.at = "done", !.answer = "lost"]]
  /\ turns' = [c \in Panels |-> <<>>] /\ fileQueue' = <<>>
  /\ UNCHANGED <<disk, panelShows, ready>>

KnowledgeNext ==
  \/ \E p \in Commands :
       \/ \E k \in IndexCommands, c \in Panels, e \in EntryIds : Submit(p, k, c, e)
       \/ TakeTurn(p) \/ JoinToSave(p) \/ ReadToSave(p) \/ Save(p)
       \/ SaveFails(p) \/ JoinToPublish(p) \/ ReadToPublish(p) \/ Publish(p)
       \/ PublishFails(p)
  \/ \E c \in Panels : WorkspaceGoes(c)
  \/ KnowledgeStops

KnowledgeSpec == KnowledgeInit /\ [][KnowledgeNext]_knowledgeVars

--------------------------------------------------------------------------
(* Properties.                                                             *)

\* A write applies one command to the index as it was just before, so no save
\* of another command is lost, and no panel goes back to an older index, so a
\* deleted entry does not reappear (serializeSummaryWrite, publishLatest).
KnowledgeIsOrdered ==
  [][/\ disk' # disk => \E p \in Commands :
          disk'.entries = Patched(command[p].kind, command[p].entry, disk.entries)
     /\ \A c \in Panels : panelShows'[c].v >= panelShows[c].v]_knowledgeVars

\* A command that answered "panel synchronized" is on the panel.
SyncedIsShown ==
  \A p \in Commands : command[p].answer = "synced" =>
    panelShows[command[p].panel].v >= command[p].saw.v

\* Nobody waits for a command that has ended: the heads of the file's queue
\* and of each controller's deletion queue are commands still in progress
\* there, whatever failed before (the finally blocks of both queues).
QueuesMoveOn ==
  /\ fileQueue # <<>> =>
       command[Head(fileQueue)].at \in {"saving", "writing", "publishing", "recording"}
  /\ \A c \in Panels : turns[c] # <<>> =>
       command[Head(turns[c])].panel = c /\ command[Head(turns[c])].at \notin {"new", "done"}

\* Together: the index loses no command, and every command is told the truth.
KnowledgeIsTrue == [](KnowledgeTypeOK /\ SyncedIsShown /\ QueuesMoveOn) /\ KnowledgeIsOrdered
=============================================================================
