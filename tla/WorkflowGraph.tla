--------------------------- MODULE WorkflowGraph ---------------------------
(***************************************************************************)
(* The planning of a workflow run (services/workflows/graph.rs): what a    *)
(* set of targets needs, in which levels, and in how many passes. Pure     *)
(* functions of the document, with recursive functions for the loops.      *)
(*                                                                         *)
(* A document is a record: `kind` of every node, `edges` as triples        *)
(* <<source, side, target>>, `count` of every Repeat, and `lenient`, the   *)
(* nodes that are set to continue on error.                                *)
(***************************************************************************)
EXTENDS Integers, FiniteSetsExt

CONSTANTS
  Nodes,     \* the nodes of the document
  MaxPasses  \* MAX_PASSES

ASSUME NodesAreFinite == IsFiniteSet(Nodes)

Sides == {"out", "true", "false"}
Kinds == {"plain", "branch", "gate", "repeat", "schedule", "note"}

(* What can be saved: edges that lead to a node that is gone are dropped. *)
Graphs == [kind : [Nodes -> Kinds], edges : SUBSET (Nodes \X Sides \X Nodes),
           lenient : SUBSET Nodes, count : [Nodes -> Nat]]

Incoming(doc, n) == {e \in doc.edges : e[3] = n}
Outgoing(doc, n) == {e \in doc.edges : e[1] = n}
Feeders(doc, n) == {e[1] : e \in Incoming(doc, n)}

(* What "Run all" runs: the ends of the graph, notes excepted. *)
Leaves(doc) == {n \in Nodes : doc.kind[n] # "note" /\ Outgoing(doc, n) = {}}

(* The targets and everything upstream of them. *)
Ancestors(doc, targets) ==
  LET seen[k \in 0 .. Cardinality(Nodes)] ==
        IF k = 0 THEN targets
        ELSE LET before == seen[k - 1] IN before \cup UNION {Feeders(doc, n) : n \in before}
  IN  seen[Cardinality(Nodes)]

(* The leaves a trigger leads to. *)
LeavesDownstreamOf(doc, trigger) ==
  LET leaves == {n \in Nodes : Outgoing(doc, n) = {} /\ trigger \in Ancestors(doc, {n})}
  IN  IF leaves = {} THEN {trigger} ELSE leaves

(* Mutant: a node enters the frontier with the first of its feeders. *)
ReleasedEarly(degree, hits) == {n \in DOMAIN degree : degree[n] > 0 /\ hits[n] > 0}

(* The nodes whose last open edge comes from the frontier. *)
Released(degree, hits) == {n \in DOMAIN degree : degree[n] > 0 /\ degree[n] = hits[n]}

(* Kahn's algorithm over a subset: the frontier of every round and the edges  *)
(* that are left into every node. Frontiers are the levels.                   *)
Kahn(doc, subset) ==
  LET Between(from, n) == Cardinality({e \in Incoming(doc, n) : e[1] \in from})
      first == [n \in subset |-> Between(subset, n)]
      round[k \in 1 .. Cardinality(Nodes) + 1] ==
        IF k = 1
        THEN [frontier |-> {n \in subset : first[n] = 0}, degree |-> first]
        ELSE LET before == round[k - 1]
                 hits == [n \in subset |-> Between(before.frontier, n)]
             IN  [frontier |-> Released(before.degree, hits),
                  degree |-> [n \in subset |-> before.degree[n] - hits[n]]]
  IN  [k \in DOMAIN round |-> round[k].frontier]

(* The levels of a subset, as the sequence the runner walks. *)
Levels(doc, subset) ==
  LET rounds == Kahn(doc, subset)
  IN  [k \in {i \in DOMAIN rounds : rounds[i] # {}} |-> rounds[k]]

(* Mutant: only a graph that is all cycle is noticed. *)
HasCycleOnly(doc, subset) == subset # {} /\ DOMAIN Levels(doc, subset) = {}

(* Leftover nodes mean a cycle. *)
HasCycle(doc, subset) == UNION {Kahn(doc, subset)[k] : k \in 1 .. Cardinality(Nodes)} # subset

(* Targets under the same Repeats form a group, which their set of Repeats    *)
(* names; the Repeats make the passes.                                        *)
RepeatsAbove(doc, n) == {r \in Ancestors(doc, {n}) : doc.kind[r] = "repeat"}
Groups(doc, targets) == {RepeatsAbove(doc, t) : t \in targets}
GroupNodes(doc, targets, g) == Ancestors(doc, {t \in targets : RepeatsAbove(doc, t) = g})
Passes(doc, g) == MapThenFoldSet(LAMBDA x, y : x * y, 1, LAMBDA r : doc.count[r], LAMBDA s : CHOOSE r \in s : TRUE, g)

(* The first wiring mistake: a Branch has two sides, every other node one. *)
Miswired(doc, involved) ==
  \E e \in doc.edges :
    /\ e[1] \in involved /\ e[3] \in involved
    /\ (doc.kind[e[1]] = "branch") # (e[2] \in {"true", "false"})

(* Everything that is refused before anything runs. *)
Refused(doc, targets) ==
  \/ targets = {}
  \/ \E e \in doc.edges : e[1] = e[3]
  \/ \E g \in Groups(doc, targets) :
       \/ \E r \in g : doc.count[r] = 0
       \/ Passes(doc, g) > MaxPasses
       \/ HasCycle(doc, GroupNodes(doc, targets, g))
  \/ Miswired(doc, Ancestors(doc, targets))
=============================================================================
