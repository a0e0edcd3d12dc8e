---- MODULE MCTeamRebinds ----
(***************************************************************************)
(* One Team that moves between three conversations of a project.           *)
(***************************************************************************)
EXTENDS TeamBridges

CONSTANT team
MCTeams == {team}
MCOrdinals == {[c \in MCTeams |-> 1]}
====
