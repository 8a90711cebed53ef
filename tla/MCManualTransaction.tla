----------------------- MODULE MCManualTransaction -----------------------
(* ManualTransaction on small instances. *)
EXTENDS ManualTransaction, TLC

Symmetric == Permutations(Plans) \cup Permutations(Runs) \cup Permutations(Buttons) \cup Permutations(Conns)
=============================================================================
