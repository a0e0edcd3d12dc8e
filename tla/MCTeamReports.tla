---- MODULE MCTeamReports ----
(***************************************************************************)
(* Two conversations and one Team for model checking TeamReports.          *)
(***************************************************************************)
EXTENDS TeamReportsSafety

CONSTANTS p1, p2
BothParents == {p1, p2}
====
