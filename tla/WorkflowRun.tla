---------------------------- MODULE WorkflowRun ----------------------------
(***************************************************************************)
(* One run of a workflow (services/workflows/runner.rs): the groups of the *)
(* plan run side by side, each its passes one after another, each pass     *)
(* level by level and the nodes of a level in parallel, with Stop, closed  *)
(* gates, empty sides of a Branch and failing nodes. What a node computes  *)
(* is left out but for what decides which nodes run after it.              *)
(***************************************************************************)
EXTENDS WorkflowGraph

CONSTANT Documents  \* the saved workflows a run may find

ASSUME DocumentsAreGraphs == Documents \subseteq Graphs

VARIABLES
  doc,        \* the document that runs
  targets,    \* the nodes it was asked for
  status,     \* "idle", "connecting", "running", then how it ended (RunStatus, or "refused")
  listed,     \* it is among the live runs (WorkflowRuns), so that Stop finds it
  cancelled,  \* the token of the run
  errors,     \* some node has failed
  at,         \* group -> where its task stands
  pass,       \* group -> the pass it is in
  level,      \* group -> the level it is in
  node,       \* group -> node -> what became of it in this pass
  sides,      \* group -> the sides of Branch nodes that have rows in this pass
  plan,       \* group -> its levels and passes, once the plan is made
  report      \* node -> its last result, as the report will list it

vars == <<doc, targets, status, listed, cancelled, errors, at, pass, level, node, sides, plan, report>>
fixed == <<doc, targets, plan, listed>>

PlanOf(d, wanted) ==
  [g \in Groups(d, wanted) |-> [levels |-> Levels(d, GroupNodes(d, wanted, g)), passes |-> Passes(d, g)]]

Plan == DOMAIN plan
NodesOf(g) == DOMAIN node[g]
LevelsOf(g) == plan[g].levels

Fresh(nodes) == [n \in nodes |-> "unseen"]

(* "Run all", "Run node" and a Schedule firing ask for different targets. *)
Requests(d) ==
  {Leaves(d)} \cup {{n} : n \in Nodes} \cup {LeavesDownstreamOf(d, t) : t \in {n \in Nodes : d.kind[n] = "schedule"}}

Init ==
  /\ doc \in Documents
  /\ targets \in Requests(doc)
  /\ status = "idle"
  /\ listed = FALSE
  /\ cancelled = FALSE
  /\ errors = FALSE
  /\ plan = <<>> /\ at = <<>> /\ pass = <<>> /\ level = <<>> /\ node = <<>> /\ sides = <<>>
  /\ report = [n \in Nodes |-> "none"]

(* The run is listed, and its plan made and checked before anything runs. *)
Start ==
  /\ status = "idle"
  /\ listed' = (targets # {})
  /\ IF Refused(doc, targets)
     THEN status' = "refused" /\ UNCHANGED <<plan, at, pass, level, node, sides>>
     ELSE /\ status' = "connecting"
          /\ plan' = PlanOf(doc, targets)
          /\ at' = [g \in DOMAIN plan' |-> "check"]
          /\ pass' = [g \in DOMAIN plan' |-> 1]
          /\ level' = [g \in DOMAIN plan' |-> 1]
          /\ node' = [g \in DOMAIN plan' |-> Fresh(GroupNodes(doc, targets, g))]
          /\ sides' = [g \in DOMAIN plan' |-> {}]
  /\ UNCHANGED <<doc, targets, cancelled, errors, report>>

(* The connections are open, or could not be opened: the run goes on all the   *)
(* same, and without a look at the token.                                      *)
EnsureConnections ==
  /\ status = "connecting"
  /\ status' = "running"
  /\ UNCHANGED <<fixed, cancelled, errors, at, pass, level, node, sides, report>>

(* Stop finds the run as long as it is listed: while it connects, while it     *)
(* runs, and between its report and the end of its registration, too late.     *)
Stop ==
  /\ listed
  /\ ~cancelled
  /\ cancelled' = TRUE
  /\ UNCHANGED <<fixed, status, errors, at, pass, level, node, sides, report>>

-----------------------------------------------------------------------------
(* One group: run_group and run_pass *)

(* Nodes that pass nothing on: skipped, or a gate that closed. *)
Dead(g) == {n \in NodesOf(g) : node[g][n] \in {"skipped", "closed"}}

(* Mutant: only the sides of a Branch close an edge. *)
EdgeActiveThroughDead(g, e) == doc.kind[e[1]] = "branch" => <<e[1], e[2]>> \in sides[g]

EdgeActive(g, e) ==
  /\ e[1] \notin Dead(g)
  /\ doc.kind[e[1]] = "branch" => <<e[1], e[2]>> \in sides[g]

AllClosed(g, n) == Incoming(doc, n) # {} /\ \A e \in Incoming(doc, n) : ~EdgeActive(g, e)

End(g) == at' = [at EXCEPT ![g] = "done"] /\ UNCHANGED <<pass, level, sides>>

(* The next level of the pass, the next pass of the group, or its end. *)
Advance(g, now) ==
  IF level[g] < Cardinality(DOMAIN LevelsOf(g))
  THEN /\ level' = [level EXCEPT ![g] = @ + 1]
       /\ at' = [at EXCEPT ![g] = "check"]
       /\ node' = [node EXCEPT ![g] = now]
       /\ UNCHANGED <<pass, sides>>
  ELSE IF pass[g] < plan[g].passes
  THEN /\ pass' = [pass EXCEPT ![g] = @ + 1]
       /\ level' = [level EXCEPT ![g] = 1]
       /\ at' = [at EXCEPT ![g] = "check"]
       /\ node' = [node EXCEPT ![g] = Fresh(NodesOf(g))]
       /\ sides' = [sides EXCEPT ![g] = {}]
  ELSE End(g) /\ node' = [node EXCEPT ![g] = now]

(* Stop is looked at before every pass and every level. *)
NoticeStop(g) ==
  /\ status = "running"
  /\ at[g] = "check"
  /\ cancelled
  /\ End(g)
  /\ UNCHANGED <<fixed, status, cancelled, errors, node, report>>

(* Mutant: a level with nothing to run ends the pass. *)
EnterLevelEnding(g) ==
  /\ status = "running"
  /\ at[g] = "check"
  /\ ~cancelled
  /\ LET ids == LevelsOf(g)[level[g]]
         skipped == {n \in ids : AllClosed(g, n)}
         now == [n \in NodesOf(g) |-> IF n \in skipped THEN "skipped" ELSE IF n \in ids THEN "running" ELSE node[g][n]]
     IN  /\ report' = [n \in Nodes |-> IF n \in skipped THEN "skipped" ELSE report[n]]
         /\ node' = [node EXCEPT ![g] = now]
         /\ IF ids = skipped THEN End(g)
            ELSE at' = [at EXCEPT ![g] = "busy"] /\ UNCHANGED <<pass, level, sides>>
  /\ UNCHANGED <<fixed, status, cancelled, errors>>

(* Closed nodes of the level are skipped, the others published as running;    *)
(* between two levels a watched run pauses.                                   *)
EnterLevel(g) ==
  /\ status = "running"
  /\ at[g] = "check"
  /\ ~cancelled
  /\ LET ids == LevelsOf(g)[level[g]]
         skipped == {n \in ids : AllClosed(g, n)}
         now == [n \in NodesOf(g) |-> IF n \in skipped THEN "skipped" ELSE IF n \in ids THEN "running" ELSE node[g][n]]
     IN  /\ report' = [n \in Nodes |-> IF n \in skipped THEN "skipped" ELSE report[n]]
         /\ IF ids = skipped
            THEN Advance(g, now)
            ELSE /\ node' = [node EXCEPT ![g] = now]
                 /\ \E next \in IF level[g] > 1 THEN {"pause", "busy"} ELSE {"busy"} : at' = [at EXCEPT ![g] = next]
                 /\ UNCHANGED <<pass, level, sides>>
  /\ UNCHANGED <<fixed, status, cancelled, errors>>

(* The pause is over, or Stop ends it and the pass. *)
Pause(g) ==
  /\ at[g] = "pause"
  /\ \/ at' = [at EXCEPT ![g] = "busy"] /\ UNCHANGED <<pass, level, sides>>
     \/ cancelled /\ End(g)
  /\ UNCHANGED <<fixed, status, cancelled, errors, node, report>>

(* run_node: the node is done. A failure counts even when the node continues; *)
(* after a Stop it may also answer that it was stopped.                       *)
EndNode(g, n) ==
  /\ at[g] = "busy"
  /\ node[g][n] = "running"
  /\ \E outcome \in {"success", "closed", "error", "stopped"} :
       /\ outcome = "closed" => doc.kind[n] = "gate"
       /\ outcome = "stopped" => cancelled
       /\ node' = [node EXCEPT ![g][n] = IF outcome = "error" /\ n \in doc.lenient THEN "continued" ELSE outcome]
       /\ report' = [report EXCEPT ![n] = IF outcome = "closed" THEN "success" ELSE outcome]
       /\ errors' = (errors \/ outcome = "error")
       /\ \E rows \in SUBSET {"true", "false"} :
            /\ rows # {} => outcome = "success" /\ doc.kind[n] = "branch"
            /\ sides' = [sides EXCEPT ![g] = @ \cup ({n} \X rows)]
  /\ UNCHANGED <<fixed, status, cancelled, at, pass, level>>

LevelIsDone(g) == at[g] = "busy" /\ \A n \in NodesOf(g) : node[g][n] # "running"

(* Mutant: a failed pass is followed by the next one. *)
LeaveLevelRegardless(g) ==
  /\ LevelIsDone(g)
  /\ Advance(g, node[g])
  /\ UNCHANGED <<fixed, status, cancelled, errors, report>>

(* A failure ends the pass once its level has finished, and the group with it. *)
LeaveLevel(g) ==
  /\ LevelIsDone(g)
  /\ IF \E n \in NodesOf(g) : node[g][n] \in {"error", "stopped"}
     THEN End(g) /\ UNCHANGED node
     ELSE Advance(g, node[g])
  /\ UNCHANGED <<fixed, status, cancelled, errors, report>>

(* How the run ended is read off its token, and reported. *)
Finish ==
  /\ status = "running"
  /\ \A g \in Plan : at[g] = "done"
  /\ status' = CASE cancelled -> "stopped" [] ~cancelled /\ errors -> "failed" [] OTHER -> "completed"
  /\ UNCHANGED <<fixed, cancelled, errors, at, pass, level, node, sides, report>>

(* The report is out, or the run was refused. *)
EndRun ==
  /\ listed
  /\ status \notin {"connecting", "running"}
  /\ listed' = FALSE
  /\ UNCHANGED <<doc, targets, plan, status, cancelled, errors, at, pass, level, node, sides, report>>

-----------------------------------------------------------------------------
Next ==
  \/ Start \/ EnsureConnections \/ Stop \/ Finish \/ EndRun
  \/ \E g \in Plan : \/ NoticeStop(g) \/ EnterLevel(g) \/ Pause(g) \/ LeaveLevel(g)
                     \/ \E n \in NodesOf(g) : EndNode(g, n)

Spec == Init /\ [][Next]_vars

(* Mutant: a node that is deaf to the token. *)
EndStoppedNever(g, n) == UNCHANGED vars

(* Every node watches the token, or ends by itself (file and notification nodes). *)
EndStopped(g, n) == cancelled /\ EndNode(g, n)

Engine ==
  \/ Finish \/ EndRun
  \/ \E g \in Plan : \/ NoticeStop(g) \/ EnterLevel(g) \/ Pause(g) \/ LeaveLevel(g)
                     \/ \E n \in NodesOf(g) : EndStopped(g, n)

(* The future of a started run is polled, its timer fires, and a node that    *)
(* was stopped ends. Nothing is assumed of a node that was not, nor of the    *)
(* opening of connections, which has no deadline. One condition is enough for *)
(* all groups, as each of their steps brings the end nearer.                  *)
FairSpec == Spec /\ WF_vars(Engine)

-----------------------------------------------------------------------------
(* The state has its types: no group walks past its last level or pass.       *)
TypeOK ==
  /\ doc \in Documents
  /\ targets \subseteq Nodes
  /\ status \in {"idle", "connecting", "running", "refused", "completed", "failed", "stopped"}
  /\ listed \in BOOLEAN
  /\ cancelled \in BOOLEAN
  /\ errors \in BOOLEAN
  /\ report \in [Nodes -> {"none", "skipped", "success", "error", "stopped"}]
  /\ DOMAIN at = Plan /\ DOMAIN pass = Plan /\ DOMAIN level = Plan /\ DOMAIN node = Plan /\ DOMAIN sides = Plan
  /\ \A g \in Plan :
       /\ at[g] \in {"check", "pause", "busy", "done"}
       /\ pass[g] \in 1 .. plan[g].passes
       /\ level[g] \in DOMAIN LevelsOf(g)
       /\ node[g] \in [NodesOf(g) -> {"unseen", "running", "skipped", "success", "closed", "error", "continued", "stopped"}]
       /\ sides[g] \subseteq NodesOf(g) \X {"true", "false"}

Reaches(m, n) == \E e \in Outgoing(doc, m) : e[3] = n \/ e[3] \in Ancestors(doc, {n})

(* A document is refused exactly when what the targets need cannot be run: a   *)
(* node that feeds itself through others (Reaches, against which the levels    *)
(* are held), a wrong wire, a Repeat of none, too many passes (execute).       *)
RefusalsAreRight ==
  [][status = "idle" =>
       (status' = "refused" <=>
          LET involved == Ancestors(doc, targets) IN
            \/ targets = {}
            \/ \E n \in involved : Reaches(n, n) \/ (doc.kind[n] = "repeat" /\ doc.count[n] = 0)
            \/ \E n \in Nodes, side \in Sides : <<n, side, n>> \in doc.edges
            \/ Miswired(doc, involved)
            \/ \E t \in targets : Passes(doc, RepeatsAbove(doc, t)) > MaxPasses)]_vars

(* No node is decided (run or skipped) in a pass before all its feeders are:   *)
(* "a node's level is after every node that feeds it" (graph.rs).             *)
FeedersComeFirst ==
  \A g \in Plan : \A n \in NodesOf(g) : \A m \in Feeders(doc, n) :
    node[g][n] # "unseen" => node[g][m] \notin {"unseen", "running"}

OpenTo(g, e) ==
  /\ node[g][e[1]] \in {"success", "continued"}
  /\ doc.kind[e[1]] = "branch" => <<e[1], e[2]>> \in sides[g]

Reached(g) ==
  LET reach[k \in 0 .. Cardinality(Nodes)] ==
        IF k = 0 THEN {n \in NodesOf(g) : Incoming(doc, n) = {}}
        ELSE LET before == reach[k - 1]
             IN  before \cup {n \in NodesOf(g) : \E e \in Incoming(doc, n) : e[1] \in before /\ OpenTo(g, e)}
  IN  reach[Cardinality(Nodes)]

(* A node of a pass ran exactly if an open path leads to it: from a node       *)
(* without inputs, over nodes that ran and were no closed gate, by sides of    *)
(* Branch nodes that had rows. "A side with no rows is skipped along with      *)
(* everything after it" (NodeHelp.tsx).                                       *)
OnlyWhatIsReachedRuns ==
  \A g \in Plan : \A n \in NodesOf(g) :
    node[g][n] # "unseen" => (node[g][n] # "skipped" <=> n \in Reached(g))

(* A run that reports Completed has run every pass of every group to its end:  *)
(* everything the targets need has its result, and no result is a failure.    *)
CompletedRunsRanEverything ==
  status = "completed" =>
    /\ \A g \in Plan : pass[g] = plan[g].passes /\ \A n \in NodesOf(g) : node[g][n] \in {"success", "skipped", "closed"}
    /\ \A n \in Ancestors(doc, targets) : report[n] \in {"success", "skipped"}

(* "Passes run one after another and stop at the first failure" (NodeHelp.tsx): *)
(* a pass is begun only when the one before it went through every node and none *)
(* of them failed for good, or was stopped.                                    *)
PassesStopAtTheFirstFailure ==
  [][\A g \in Plan : pass'[g] # pass[g] =>
       \A n \in NodesOf(g) : \/ node[g][n] \in {"success", "skipped", "closed", "continued"}
                             \/ node[g][n] = "unseen" /\ AllClosed(g, n)]_vars

(* Seen through its results the run is the dataflow that DataflowRun describes: *)
(* levels, tasks, pauses and checks decide when its steps happen, but no node   *)
(* runs that it would not run, none is skipped that it would, none begins after *)
(* a failure, and none is left running.                                        *)
(* A node that is shown as running has been launched once its level is busy.   *)
Fate ==
  [g \in Plan |-> [n \in NodesOf(g) |->
     IF node[g][n] = "running" /\ at[g] # "busy" THEN "announced" ELSE node[g][n]]]

(* Nothing of the opening of connections is seen. *)
Flow == INSTANCE DataflowRun WITH
  status <- IF status = "connecting" THEN "running" ELSE status, asked <- targets, stop <- cancelled, failed <- errors, fate <- Fate, rows <- sides

RunsAsADataflow == Flow!Spec

(* A run that was stopped before its groups are through ends, and says that it *)
(* was stopped: also one stopped while it connected, once the connections are  *)
(* open. One whose report is out already is not held to it (Stop).             *)
StopEndsTheRun == cancelled /\ status = "running" ~> status = "stopped"
=============================================================================
