---- MODULE MCTeamRequests ----
(***************************************************************************)
(* One run over six parts that serve the user: instructions to running     *)
(* tasks, commands on them, revisions of their results, the panel, the     *)
(* model calls that are retried while the user may decide otherwise, and   *)
(* the batch of children that works on what was asked for.  They share no  *)
(* state: the first state chooses which part the behaviour is about, the   *)
(* others rest.                                                            *)
(***************************************************************************)
EXTENDS TeamInstructions, TeamCommands, TeamPanel, TeamRevisions, TeamModels,
        TeamChildren, TLC

\* Two allowed providers and one outside the scope.
Route(p, i) == [provider |-> p, id |-> i]
MCModels == {Route(p, i) : p \in {"p0", "p1", "p2"}, i \in {"a", "b", "c", "exact", "fixed", "legacy"}}
MCController == Route("p0", "a")
MCCatalogOf == [p \in {"p0", "p1", "p2"} |->
                  IF p = "p0" THEN <<Route("p0", "a")>> ELSE <<Route(p, "b")>>]
MCAllowlist == <<"p1">>
MCPreferred == <<Route("p1", "c"), Route("p2", "b")>>

\* Instructions of the user are interchangeable, and so are operation ids.
AskSymmetry == Permutations(Asks) \cup Permutations(RevisionIds)

VARIABLE explored

\* A second refresh, by the poll or over the first, is explored on records that are there.
SecondWalkIsPlain == walks > 1 => \A c \in Sessions : store[c].kind = "facts"

RequestsInit ==
  /\ explored \in {"instructions", "commands", "panel", "revisions", "models", "children"}
  /\ InstructionsInit
  /\ CommandsInit
  /\ explored = "commands" \/ (team = "running")
  /\ PanelInit
  /\ \A c \in Sessions : store[c].kind = "facts" \/ (explored = "panel" /\ c # 1)
  /\ RevisionsInit
  /\ explored = "revisions" \/ (\A i \in DOMAIN graph : graph[i].deps = {})
  /\ ModelsInit
  /\ explored = "models" \/ (policy.team = "inherit" /\ policy.task = "default")
  /\ ChildrenInit
  /\ explored = "children" \/ limit = Unset

RequestsNext ==
  \/ /\ explored = "instructions" /\ InstructionsNext
     /\ UNCHANGED <<explored, commandsVars, panelVars, revisionsVars, modelVars,
                    childrenVars>>
  \/ /\ explored = "commands" /\ CommandsNext
     /\ UNCHANGED <<explored, instructionsVars, panelVars, revisionsVars, modelVars,
                    childrenVars>>
  \/ /\ explored = "panel" /\ PanelNext /\ SecondWalkIsPlain'
     /\ UNCHANGED <<explored, instructionsVars, commandsVars, revisionsVars, modelVars,
                    childrenVars>>
  \/ /\ explored = "revisions" /\ RevisionsNext
     /\ UNCHANGED <<explored, instructionsVars, commandsVars, panelVars, modelVars,
                    childrenVars>>
  \/ /\ explored = "models" /\ ModelsNext
     /\ UNCHANGED <<explored, instructionsVars, commandsVars, panelVars, revisionsVars,
                    childrenVars>>
  \/ /\ explored = "children" /\ ChildrenNext
     /\ UNCHANGED <<explored, instructionsVars, commandsVars, panelVars, revisionsVars,
                    modelVars>>

RequestsSpec ==
  /\ RequestsInit
  /\ [][RequestsNext]_<<explored, instructionsVars, commandsVars, panelVars,
                      revisionsVars, modelVars, childrenVars>>
====
