---- MODULE MCTeamExecution ----
(***************************************************************************)
(* Small graphs for model checking TeamExecution.                          *)
(***************************************************************************)
EXTENDS TeamSafety

NoDeps == [t \in Tasks |-> {}]
\* The last task depends on the first.
ChainLast == [t \in Tasks |-> IF t = NumTasks /\ NumTasks > 1 THEN {1} ELSE {}]
\* Their file scopes overlap, so they collide once one of them writes.
FirstAndLast == {<<1, NumTasks>>, <<NumTasks, 1>>}
====
