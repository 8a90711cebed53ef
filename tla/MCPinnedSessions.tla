-------------------------- MODULE MCPinnedSessions --------------------------
(* Small instances of PinnedSessions for TLC. *)
EXTENDS PinnedSessions, TLC

(* Runners, tabs and slots are interchangeable in the safety runs. *)
Symmetric == Permutations(Runners) \cup Permutations(Slots) \cup Permutations(Tabs)
=============================================================================
