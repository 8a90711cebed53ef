-------------------------- MODULE MCStatementRun --------------------------
(* StatementRun on a small instance: two runs of a tab. *)
EXTENDS StatementRun
=============================================================================
