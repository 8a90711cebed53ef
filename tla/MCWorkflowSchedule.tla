------------------------ MODULE MCWorkflowSchedule ------------------------
(* WorkflowSchedule on a small instance: two schedules, two fires at a time. *)
EXTENDS WorkflowSchedule, TLC

AnyInterval == {1, 2}
AnyLeap == {1, 3}
Alike == Permutations(Nodes) \cup Permutations(Fires)
=============================================================================
