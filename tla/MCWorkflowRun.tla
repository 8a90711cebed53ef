--------------------------- MODULE MCWorkflowRun ---------------------------
(* WorkflowRun on the small documents of a few shapes, with up to four nodes. *)
EXTENDS WorkflowRun

Plain == [n \in Nodes |-> "plain"]
Once == [n \in Nodes |-> 1]

Document(kind, edges, lenient, count) == [kind |-> kind, edges |-> edges, lenient |-> lenient, count |-> count]

(* The edges forward along the order of the nodes, and the wirings by them in *)
(* which two nodes share at most one edge and only the first has no input.    *)
Forward(kind) ==
  {e \in Nodes \X Sides \X Nodes : e[1] < e[3] /\ ((kind[e[1]] = "branch") <=> e[2] # "out")}

Single(edges) == \A e \in edges, f \in edges : e[1] = f[1] /\ e[3] = f[3] => e = f
Fed(edges, nodes) == \A n \in nodes : \E e \in edges : e[3] = n

(* A Branch whose rows may reach a gate, and a node that continues on error. *)
Branching ==
  LET kind == [Plain EXCEPT ![1] = "branch", ![2] = "gate"]
      wirings == {edges \in SUBSET Forward(kind) : <<1, "true", 2>> \in edges /\ Single(edges) /\ Fed(edges, {2, 3, 4})}
  IN  {Document(kind, edges, {3}, Once) : edges \in wirings}

(* A Repeat beside a source: in some wirings two groups share nodes. *)
Repeating ==
  LET kind == [Plain EXCEPT ![2] = "repeat"]
  IN  {Document(kind, edges, {1}, [Once EXCEPT ![2] = 2]) : edges \in {w \in SUBSET Forward(kind) : Fed(w, {4})}}

(* Cycles behind a trigger, beside a note. *)
Cyclic ==
  LET kind == [Plain EXCEPT ![1] = "schedule", ![4] = "note"]
  IN  {Document(kind, edges \cup {<<3, "out", 2>>}, {}, Once) : edges \in {w \in SUBSET Forward(kind) : ~Fed(w, {4})}}

(* Repeats of none and of too many passes, wrong wires, an edge onto itself. *)
Odd ==
  LET repeats == [Plain EXCEPT ![2] = "repeat", ![3] = "repeat"]
  IN  {Document(repeats, {<<2, "out", 3>>}, {}, [Once EXCEPT ![2] = count, ![3] = count]) : count \in {0, 1, 2}}
      \cup {Document([Plain EXCEPT ![1] = "branch"], {<<1, side, 2>>, <<3, other, 4>>}, {}, Once) : side \in Sides, other \in Sides}
      \cup {Document(Plain, {<<1, "out", 1>>}, {}, Once)}

AllDocuments == Branching \cup Repeating \cup Cyclic \cup Odd
=============================================================================
