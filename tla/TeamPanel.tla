------------------------------ MODULE TeamPanel ------------------------------
(***************************************************************************)
(* The panel's copy of the Team records: the Host answers a bounded page   *)
(* of its catalog (readSidecarSnapshot, team-sidecar-web-api.ts), and the  *)
(* Client walks the pages, asks a second time for the rows only the native *)
(* list knows, and shows the result when the whole walk is done            *)
(* (client/sidecar-store.ts).  Records appear, grow and break meanwhile;   *)
(* answers are lost or late, walks are superseded, cancelled or timed out. *)
(***************************************************************************)
EXTENDS Integers, FiniteSets, FiniteSetsExt

CONSTANTS
  Sessions,   \* native Session ids, in their order: a set of integers
  Large,           \* the ones whose record fills a page alone
  PageSize,        \* TEAM_SIDECAR_PAGE_SIZE
  PageRoom,        \* records of the other conversations one answer has room for
  MaxPages,        \* page limit of one walk
  MaxWalks,        \* bound on refreshes
  MaxChanges       \* bound on changes of the records

ASSUME PanelAssumption ==
  /\ Sessions \subseteq Nat /\ IsFiniteSet(Sessions) /\ Large \subseteq Sessions
  /\ PageSize \in Nat \ {0} /\ PageRoom \in Nat \ {0}
  /\ MaxPages \in Nat /\ MaxWalks \in Nat /\ MaxChanges \in Nat

VARIABLES
  store,       \* [kind, version] of each conversation at the Host
  changes,
  panel,       \* loading, ready, error or cancelled
  shown,       \* SidecarState: what the panel has of each conversation
  walk,        \* the current request, or NoWalk
  walks,       \* refreshes so far
  answers,     \* answers on their way: [walk, page] or [walk, failed]
  poll,        \* a timer will refresh
  recovering,  \* generations of recover-target calls under way
  generation,  \* recoveryRefreshGeneration
  disposed,
  touched      \* history: conversations that changed during the walk

panelVars == <<store, changes, panel, shown, walk, walks, answers, poll,
               recovering, generation, disposed, touched>>

\* Kinds of a conversation: an ordinary one, sidecar facts, a record that
\* cannot be read, an index entry without a Session, and legacy Teams whose
\* native Session is live or cold.
RecordKinds == {"ordinary", "facts", "broken", "gone", "live", "cold"}

Nothing == [source |-> "none", version |-> 0]
NoneShown == [c \in Sessions |-> Nothing]
NoWalk == [id |-> 0, stage |-> "none", of |-> {}, after |-> -1, used |-> {}, pages |-> 0,
           found |-> NoneShown]

PanelInit ==
  /\ \E k \in [Sessions -> RecordKinds] :
       store = [c \in Sessions |-> [kind |-> k[c], version |-> 0]]
  /\ changes = 0 /\ panel = "loading" /\ shown = NoneShown
  /\ walk = NoWalk /\ walks = 0 /\ answers = {} /\ poll = FALSE
  /\ recovering = {} /\ generation = 0 /\ disposed = FALSE /\ touched = {}

--------------------------------------------------------------------------
(* The Host: one page.                                                     *)

\* The first-paint catalog: the sidecar index and live Sessions with facts.
Index == {c \in Sessions : store[c].kind \in {"facts", "broken", "gone", "live"}}

\* A record, or none when the Session is absent.
Inspect(c) ==
  LET source == CASE store[c].kind = "facts" -> "sidecar"
                  [] store[c].kind = "broken" -> "unavailable"
                  [] store[c].kind \in {"live", "cold"} -> "legacy"
                  [] OTHER -> "none"
  IN [source |-> source, version |-> store[c].version]

Present(c) == Inspect(c).source # "none"
Size(c) == IF c \in Large THEN PageRoom ELSE 1

\* Mutant: the cursor names the first record the answer had no room for.
NextRecord(page, kept) == IF kept = page THEN Max(kept) ELSE Min(page \ kept)

\* last: absent entries are passed over as well.
LastRecord(page, kept) == Max(kept)

\* The answer ends before the first record it has no room for, never inside a
\* record, and an empty answer has room for any record.
Page(of, after) ==
  LET eligible == {c \in of : c > after}
      page == {c \in eligible : Cardinality({d \in eligible : d < c}) < PageSize}
      Earlier(c) == {d \in page : d < c /\ Present(d)}
      Fits(c) == Present(c) /\ Earlier(c) # {} =>
                   MapThenSumSet(Size, Earlier(c) \cup {c}) <= PageRoom
      kept == {c \in page : \A d \in page : d <= c => Fits(d)}
      last == IF kept = {} THEN -1 ELSE LastRecord(page, kept)
  IN [records |-> [c \in {d \in kept : Present(d)} |-> Inspect(c)],
      cursor |-> IF kept # {} /\ \E c \in eligible : c > last THEN last ELSE -1]

Becomes(kind) ==
  CASE kind = "ordinary" -> {"facts"}
    [] kind = "facts" -> {"facts", "broken"}
    [] kind = "broken" -> {"facts"}
    [] kind = "live" -> {"cold", "live"}
    [] kind = "cold" -> {"live"}
    [] kind = "gone" -> {}

\* A Team begins, grows, breaks or is repaired; a legacy Session is loaded,
\* grows or goes.
Change(c, kind) ==
  /\ changes < MaxChanges /\ changes' = changes + 1 /\ kind \in Becomes(store[c].kind)
  /\ store' = [store EXCEPT ![c] = [kind |-> kind, version |-> @.version + 1]]
  /\ touched' = touched \cup {c}
  /\ UNCHANGED <<panel, shown, walk, walks, answers, poll, recovering, generation, disposed>>

Outstanding == walk # NoWalk /\ \A a \in answers : a.walk # walk.id

\* The index is read again for every page.
Selected == IF walk.stage = "index" THEN Index ELSE walk.of

Serve ==
  /\ Outstanding
  /\ answers' = answers \cup {[walk |-> walk.id, failed |-> FALSE, page |-> Page(Selected, walk.after)]}
  /\ UNCHANGED <<store, changes, panel, shown, walk, walks, poll, recovering, generation,
                 disposed, touched>>

\* The read fails, or its answer is refused: too large, cancelled, not ready.
Refuse ==
  /\ Outstanding
  /\ answers' = answers \cup {[walk |-> walk.id, failed |-> TRUE,
                              page |-> [records |-> [c \in {} |-> Nothing], cursor |-> -1]]}
  /\ UNCHANGED <<store, changes, panel, shown, walk, walks, poll, recovering, generation,
                 disposed, touched>>

--------------------------------------------------------------------------
(* The Client.                                                             *)

\* What the panel makes of a conversation (rebuild): a Team of the sidecar, a
\* Team of the native list, nothing it may control, or no Team.
PageEntry(c) ==
  IF shown[c].source = "unavailable" THEN "hidden"
  ELSE IF shown[c].source = "sidecar" THEN "team"
  ELSE IF shown[c].source = "legacy" THEN "native"
  ELSE "none"

\* refresh(): the walk before is superseded, its timer and deadline are gone.
Begins(background) ==
  /\ walks < MaxWalks /\ walks' = walks + 1
  /\ walk' = [NoWalk EXCEPT !.id = walks + 1, !.stage = "index"]
  /\ touched' = {} /\ poll' = FALSE
  /\ IF background THEN UNCHANGED <<panel, shown>> ELSE panel' = "loading" /\ shown' = NoneShown

Refresh ==
  /\ ~disposed /\ Begins(FALSE)
  /\ UNCHANGED <<store, changes, answers, recovering, generation, disposed>>

Poll ==
  /\ ~disposed /\ poll /\ Begins(TRUE)
  /\ UNCHANGED <<store, changes, answers, recovering, generation, disposed>>

Retried == TRUE

Fails ==
  /\ panel' = "error" /\ shown' = NoneShown /\ walk' = NoWalk /\ poll' = Retried

\* 30 seconds without a whole walk.
Deadline ==
  /\ walk # NoWalk /\ Fails
  /\ UNCHANGED <<store, changes, walks, answers, recovering, generation, disposed, touched>>

\* Rows the native list shows as Teams and the index does not know.
Rows(found) == {c \in Sessions : store[c].kind \in {"live", "cold"} /\ found[c] = Nothing}

\* An answer that repeats a record or a cursor is an error of the walk.
Repeats(page) ==
  (\E c \in DOMAIN page.records : c \in walk.used) \/ (page.cursor # -1 /\ page.cursor = walk.after)

Merged(page) == [c \in Sessions |->
  IF c \in DOMAIN page.records THEN page.records[c] ELSE walk.found[c]]

Continues(page) ==
  walk' = [walk EXCEPT !.found = Merged(page), !.after = page.cursor, !.pages = @ + 1,
                       !.used = @ \cup DOMAIN page.records]

AsksRows(page) ==
  walk' = [walk EXCEPT !.found = [c \in Sessions |->
                         IF c \in Rows(Merged(page)) THEN Nothing ELSE Merged(page)[c]],
                       !.stage = "rows", !.of = Rows(Merged(page)), !.after = -1,
                       !.used = {}, !.pages = @ + 1]

\* publish(): the whole walk at once.
Publishes(page) ==
  /\ panel' = "ready" /\ shown' = Merged(page) /\ walk' = NoWalk /\ poll' = TRUE

ReceivePage(a) ==
  /\ a \in answers /\ a.walk = walk.id /\ walk # NoWalk
  /\ answers' = answers \ {a}
  /\ IF a.failed \/ Repeats(a.page) \/ walk.pages >= MaxPages THEN Fails
     ELSE IF a.page.cursor # -1 THEN Continues(a.page) /\ UNCHANGED <<panel, shown, poll>>
     ELSE IF walk.stage = "index" /\ Rows(Merged(a.page)) # {}
     THEN AsksRows(a.page) /\ UNCHANGED <<panel, shown, poll>>
     ELSE Publishes(a.page)
  /\ UNCHANGED <<store, changes, walks, recovering, generation, disposed, touched>>

\* An answer to a walk that is no longer the current one.
Drop(a) ==
  /\ a \in answers /\ a.walk # walk.id
  /\ answers' = answers \ {a}
  /\ UNCHANGED <<store, changes, panel, shown, walk, walks, poll, recovering, generation,
                 disposed, touched>>

\* recover-target: the panel is refreshed unless it was cancelled meanwhile.
Recover ==
  /\ ~disposed /\ recovering = {}
  /\ recovering' = {generation}
  /\ UNCHANGED <<store, changes, panel, shown, walk, walks, answers, poll, generation, disposed,
                 touched>>

Recovered(g) ==
  /\ g \in recovering /\ recovering' = recovering \ {g}
  /\ IF g = generation /\ ~disposed /\ walks < MaxWalks THEN Begins(TRUE)
     ELSE UNCHANGED <<panel, shown, walk, walks, poll, touched>>
  /\ UNCHANGED <<store, changes, answers, generation, disposed>>

Cancel ==
  /\ ~disposed /\ generation < MaxWalks /\ generation' = generation + 1
  /\ walk' = NoWalk /\ poll' = FALSE /\ panel' = "cancelled" /\ shown' = NoneShown
  /\ UNCHANGED <<store, changes, walks, answers, recovering, disposed, touched>>

Dispose ==
  /\ ~disposed /\ disposed' = TRUE /\ generation' = generation + 1
  /\ walk' = NoWalk /\ poll' = FALSE
  /\ UNCHANGED <<store, changes, panel, shown, walks, answers, recovering, touched>>

PanelNext ==
  \/ \E c \in Sessions, k \in RecordKinds : Change(c, k)
  \/ Serve \/ Refuse \/ Refresh \/ Poll \/ Deadline \/ Recover \/ Cancel \/ Dispose
  \/ \E a \in answers : ReceivePage(a) \/ Drop(a)
  \/ \E g \in recovering : Recovered(g)

PanelSpec == PanelInit /\ [][PanelNext]_panelVars

--------------------------------------------------------------------------
(* Properties.                                                             *)

\* A published walk is whole: a conversation that did not change since it
\* began is shown as the Host has it, wherever the pages were cut, and one
\* whose record cannot be read or is absent is never shown as a Team.
PublishedIsWhole ==
  [][panel' = "ready" /\ walk # NoWalk /\ walk' = NoWalk /\ ~disposed' =>
       \A c \in Sessions \ touched :
         /\ shown'[c] = Inspect(c)
         /\ PageEntry(c)' = "team" => store[c].kind = "facts"]_panelVars

\* A panel that was opened keeps trying until it is cancelled or disposed:
\* a walk or a timer is under way, whatever failed; after a cancel no timer is.
PanelKeepsTrying ==
  /\ panel \in {"ready", "error"} /\ ~disposed => walk # NoWalk \/ poll
  /\ panel = "cancelled" \/ disposed => ~poll

\* Together: the panel shows whole catalogs and never stops asking for them.
PanelIsTrue == []PanelKeepsTrying /\ PublishedIsWhole
=============================================================================
