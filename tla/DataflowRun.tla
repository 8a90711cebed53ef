----------------------------- MODULE DataflowRun ----------------------------
(***************************************************************************)
(* What a workflow promises of a run to whoever reads its report           *)
(* (services/workflows/runner.rs, run_group and run_pass), without the     *)
(* levels, the tasks, the pauses and the checks of the token that keep it: *)
(* in a pass every node is decided once, after the nodes that feed it, and *)
(* runs exactly if it has no input or something travels along one of them; *)
(* after a failure, or a Stop, nothing else of the pass is decided; a pass *)
(* is begun when the one before it is through; and the run ends when every *)
(* node that was launched has ended. WorkflowRun implements it.            *)
(***************************************************************************)
EXTENDS Naturals

CONSTANTS
  Nodes,
  Documents,            \* the saved workflows, see WorkflowGraph
  Incoming(_, _),       \* the edges into a node of a document
  Groups(_, _),         \* the groups of some targets in a document
  GroupNodes(_, _, _),  \* what the targets of a group need
  Passes(_, _)          \* how often a group of a document is to run

VARIABLES
  doc,     \* the document that runs
  asked,   \* the nodes it was asked for
  status,  \* "idle", "running", then how it ended
  stop,    \* the user asked it to stop
  failed,  \* some node has failed
  pass,    \* group -> its pass
  fate,    \* group -> node -> what became of it in this pass
  rows,    \* group -> the sides of its Branch nodes that have rows
  report   \* node -> its last result

vars == <<doc, asked, status, stop, failed, pass, fate, rows, report>>

Init ==
  /\ doc \in Documents
  /\ asked \in SUBSET Nodes
  /\ status = "idle"
  /\ stop = FALSE
  /\ failed = FALSE
  /\ pass = <<>> /\ fate = <<>> /\ rows = <<>>
  /\ report = [n \in Nodes |-> "none"]

(* The run is refused, or every group of targets gets its first pass. *)
Start ==
  /\ status = "idle"
  /\ \/ status' = "refused" /\ UNCHANGED <<pass, fate, rows>>
     \/ /\ status' = "running"
        /\ pass' = [g \in Groups(doc, asked) |-> 1]
        /\ fate' = [g \in Groups(doc, asked) |-> [n \in GroupNodes(doc, asked, g) |-> "unseen"]]
        /\ rows' = [g \in Groups(doc, asked) |-> {}]
  /\ UNCHANGED <<doc, asked, stop, failed, report>>

(* A Stop may come before the run is through, and also too late. *)
Stop ==
  /\ status # "idle"
  /\ stop' = TRUE
  /\ UNCHANGED <<doc, asked, status, failed, pass, fate, rows, report>>

-----------------------------------------------------------------------------
Members(g) == DOMAIN fate[g]

Good == {"success", "skipped", "closed", "continued"}
Bad == {"error", "stopped"}

(* A node is ready once all that feed it are decided. *)
Ready(g) ==
  {n \in Members(g) : fate[g][n] = "unseen" /\ \A e \in Incoming(doc, n) : fate[g][e[1]] \in Good \cup Bad}

(* Something travels along the edge: its source ran, is no gate that closed,   *)
(* and if it is a Branch it has rows for that side.                            *)
Open(g, e) ==
  /\ fate[g][e[1]] \in {"success", "continued"}
  /\ doc.kind[e[1]] = "branch" => <<e[1], e[2]>> \in rows[g]

Runs(g, n) == Incoming(doc, n) = {} \/ \E e \in Incoming(doc, n) : Open(g, e)

Broken(g) == \E n \in Members(g) : fate[g][n] \in Bad

Through(g) == \A n \in Members(g) : fate[g][n] \in Good

Skip(nodes) == report' = [n \in Nodes |-> IF n \in nodes THEN "skipped" ELSE report[n]]

(* Some nodes that are ready are announced, or launched at once, or skipped if *)
(* nothing reaches them.                                                      *)
Decide(g) ==
  /\ status = "running" /\ ~stop /\ ~Broken(g)
  /\ \E nodes \in SUBSET Ready(g), how \in {"announced", "running"} :
       /\ fate' = [fate EXCEPT ![g] = [n \in Members(g) |->
            IF n \notin nodes THEN fate[g][n] ELSE IF Runs(g, n) THEN how ELSE "skipped"]]
       /\ Skip({n \in nodes : ~Runs(g, n)})
  /\ UNCHANGED <<doc, asked, status, stop, failed, pass, rows>>

(* What was announced is launched. *)
Launch(g) ==
  /\ status = "running"
  /\ fate' = [fate EXCEPT ![g] = [n \in Members(g) |-> IF fate[g][n] = "announced" THEN "running" ELSE fate[g][n]]]
  /\ UNCHANGED <<doc, asked, status, stop, failed, pass, rows, report>>

(* A node ends. Only the report keeps a failure that the node may go on after. *)
Conclude(g, n) ==
  /\ status = "running"
  /\ fate[g][n] = "running"
  /\ \E outcome \in {"success", "closed", "error", "continued", "stopped"} :
       /\ outcome = "closed" => doc.kind[n] = "gate"
       /\ outcome = "continued" => n \in doc.lenient
       /\ outcome = "error" => n \notin doc.lenient
       /\ outcome = "stopped" => stop
       /\ fate' = [fate EXCEPT ![g] = [fate[g] EXCEPT ![n] = outcome]]
       /\ failed' = (failed \/ outcome \in {"error", "continued"})
       /\ report' = [report EXCEPT ![n] =
            CASE outcome = "closed" -> "success" [] outcome = "continued" -> "error" [] OTHER -> outcome]
       /\ \E given \in SUBSET {"true", "false"} :
            /\ given # {} => outcome = "success" /\ doc.kind[n] = "branch"
            /\ rows' = [rows EXCEPT ![g] = rows[g] \cup ({n} \X given)]
  /\ UNCHANGED <<doc, asked, status, stop, pass>>

(* The next pass is begun: no node failed for good, and those that are not     *)
(* decided yet are skipped.                                                    *)
NextPass(g) ==
  /\ status = "running"
  /\ pass[g] < Passes(doc, g)
  /\ \A n \in Members(g) : fate[g][n] \in Good \/ (n \in Ready(g) /\ ~Runs(g, n))
  /\ pass' = [pass EXCEPT ![g] = pass[g] + 1]
  /\ fate' = [fate EXCEPT ![g] = [n \in Members(g) |-> "unseen"]]
  /\ rows' = [rows EXCEPT ![g] = {}]
  /\ Skip(Ready(g))
  /\ UNCHANGED <<doc, asked, status, stop, failed>>

(* A group is over after its last pass, after a pass with a failure, or after  *)
(* a Stop, which leaves what was only announced as it is.                      *)
IsOver(g) ==
  /\ \A n \in Members(g) : fate[g][n] # "running"
  /\ stop \/ Broken(g) \/ (pass[g] = Passes(doc, g) /\ Through(g))

Finish ==
  /\ status = "running"
  /\ \A g \in DOMAIN fate : IsOver(g)
  /\ status' = IF stop THEN "stopped" ELSE IF failed THEN "failed" ELSE "completed"
  /\ UNCHANGED <<doc, asked, stop, failed, pass, fate, rows, report>>

-----------------------------------------------------------------------------
Next ==
  \/ Start \/ Stop \/ Finish
  \/ \E g \in DOMAIN fate : \/ Decide(g) \/ Launch(g) \/ NextPass(g)
                            \/ \E n \in Members(g) : Conclude(g, n)

Spec == Init /\ [][Next]_vars

=============================================================================
