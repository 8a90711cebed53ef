---------------------------- MODULE ScriptReport ----------------------------
(***************************************************************************)
(* What the runs of a query tab promise to whoever reads their reports     *)
(* (services/query.rs, the contract of `execute_batch`), without the Stop, *)
(* the guard, the connection and the server that keep it: the statements   *)
(* of a script are reported once each and in order, what is reported as a  *)
(* success has landed, after a statement that halts the script nothing     *)
(* else of it runs, which the report says, and what was reported takes no  *)
(* effect any more unless the report leaves that open. StatementRun        *)
(* implements it.                                                          *)
(***************************************************************************)
EXTENDS Naturals

CONSTANTS
  Batches,  \* the runs
  Size      \* statements in a script

VARIABLES
  report,  \* batch -> statement -> the BatchStatus reported for it
  strict,  \* batch -> stop_on_error was asked for
  landed   \* the statements whose effects are in the database

vars == <<report, strict, landed>>

Statements == 1 .. Size

Init ==
  /\ report = [b \in Batches |-> [i \in Statements |-> "none"]]
  /\ strict = [b \in Batches |-> FALSE]
  /\ landed = {}

(* After this outcome the rest of the script is skipped. *)
Halting(status, isStrict) ==
  status \in {"cancelled", "skipped"} \/ (isStrict /\ status \in {"error", "timeout", "lost"})

(* Every statement before i has been reported, and none of them halts the script. *)
ReachedIn(b, i) ==
  \A j \in Statements : j < i => report[b][j] # "none" /\ ~Halting(report[b][j], strict[b])

(* A run is asked for. *)
Ask(b) ==
  /\ \A i \in Statements : report[b][i] = "none"
  /\ \E s \in BOOLEAN : strict' = [strict EXCEPT ![b] = s]
  /\ UNCHANGED <<report, landed>>

(* The reports that leave open whether the statement took effect, or will. *)
Open == {"timeout", "lost", "cancelled"}

(* A statement takes effect, possibly after its run has given it up (and then  *)
(* perhaps after the statements behind it).                                    *)
Land(b, i) ==
  /\ ReachedIn(b, i)
  /\ report[b][i] \in {"none"} \cup Open
  /\ landed' = landed \cup {<<b, i>>}
  /\ UNCHANGED <<report, strict>>

(* The next statement is reported. *)
Say(b, i, status) ==
  /\ report[b][i] = "none"
  /\ \A j \in Statements : j < i => report[b][j] # "none"
  /\ status = "skipped" => <<b, i>> \notin landed
  /\ status = "success" => <<b, i>> \in landed
  /\ ReachedIn(b, i) \/ status = "skipped"
  /\ report' = [report EXCEPT ![b] = [report[b] EXCEPT ![i] = status]]
  /\ UNCHANGED <<strict, landed>>

Statuses == {"success", "error", "skipped"} \cup Open

Next ==
  \E b \in Batches :
    \/ Ask(b)
    \/ \E i \in Statements : Land(b, i) \/ \E status \in Statuses : Say(b, i, status)

Spec == Init /\ [][Next]_vars

=============================================================================
