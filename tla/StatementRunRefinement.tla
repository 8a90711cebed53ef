----------------------- MODULE StatementRunRefinement -----------------------
(***************************************************************************)
(* StatementRun implements ScriptReport: what the tab, the batch, the      *)
(* guard, the connection and the server do to a script is, seen through    *)
(* its reports and its effects, what the contract of a run allows. `Inv`   *)
(* of StatementRun is not enough for this: `Order` says how far a script   *)
(* has got, and is kept by every step as well.                             *)
(***************************************************************************)
EXTENDS StatementRunProofs

USE DEF Errors

Strict == [b \in Batches |-> run[b].stopOnError]

(* What the steps that report nothing do to the loop of each batch. *)
LoopsGoOn ==
  \A a \in Batches :
    /\ run'[a].n = run[a].n
    /\ stop[a] = "landed" => stop'[a] = "landed"
    /\ \/ run'[a] = run[a]
       \/ run[a].at \notin {"loop", "done"}
       \/ run[a].at = "loop" /\ ~Stopped(a)
       \/ run'[a].at = "done"

(* Order holds at the start. *)
LEMMA InitOrder == Init => Order
BY DEF Init, Order, PassedIsReported, SkipsLast, NotRun, Index

(* The order is kept by the steps that report nothing. *)
LEMMA SilentOrder ==
  ASSUME Order, UNCHANGED results, LoopsGoOn
  PROVE  Order'
<1>1. PassedIsReported'
  BY DEF Order, PassedIsReported, LoopsGoOn
<1>2. SkipsLast'
  <2> SUFFICES ASSUME NEW a \in Batches, NEW i \in Index, results[a][i] = "skipped"
               PROVE  /\ run'[a].at \in {"loop", "done"}
                      /\ run'[a].at = "loop" => Stopped(a)'
                      /\ \A j \in Index : j > i => results[a][j] \in {"none", "skipped"}
    BY DEF SkipsLast
  <2>1. /\ run[a].at \in {"loop", "done"}
        /\ run[a].at = "loop" => Stopped(a)
        /\ \A j \in Index : j > i => results[a][j] \in {"none", "skipped"}
    BY DEF Order, SkipsLast
  <2>2. run'[a] = run[a] \/ run'[a].at = "done"
    BY <2>1 DEF LoopsGoOn
  <2>3. stop[a] = "landed" => stop'[a] = "landed"
    BY DEF LoopsGoOn
  <2> QED
    BY <2>1, <2>2, <2>3 DEF Stopped
<1> QED
  BY <1>1, <1>2 DEF Order

(* Seen from outside, such a step is a stutter. *)
LEMMA SilentStep ==
  ASSUME UNCHANGED <<results, landed>>, \A a \in Batches : run'[a].stopOnError = run[a].stopOnError
  PROVE  UNCHANGED <<results, Strict, landed>>
BY DEF Strict

(* What a statement behind which the batch has come was answered. *)
LEMMA ReachedInOrder ==
  ASSUME Inv, Order, NEW b \in Batches, NEW i \in Index, i <= run[b].n,
         run[b].at \in {"run", "stopping"} \/ results[b][i] \notin {"none", "skipped"}
  PROVE  \A j \in Index : j < i => /\ results[b][j] # "none"
                                  /\ results[b][j] # "skipped"
                                  /\ ~Halts(results[b][j], run[b].stopOnError)
<1> SUFFICES ASSUME NEW j \in Index, j < i
             PROVE  /\ results[b][j] # "none"
                    /\ results[b][j] # "skipped"
                    /\ ~Halts(results[b][j], run[b].stopOnError)
  OBVIOUS
<1>1. run[b].n \in 1 .. Size + 1
  BY DEF Inv, TypeOK, RunState
<1>2. results[b][j] # "none"
  <2>1. j < run[b].n
    BY <1>1 DEF Index
  <2> QED
    BY <2>1 DEF Order, PassedIsReported
<1>3. results[b][j] # "skipped"
  <2>1. i > j
    BY DEF Index
  <2> QED
    BY <2>1 DEF Order, SkipsLast
<1>4. ~Halts(results[b][j], run[b].stopOnError)
  <2>1. CASE run[b].at \in {"run", "stopping"}
    BY <2>1 DEF Inv, HaltIsKept
  <2>2. CASE results[b][i] \notin {"none", "skipped"}
    BY <2>2 DEF Inv, HaltedBatchesSkipTheRest, Halts
  <2> QED
    BY <2>1, <2>2
<1> QED
  BY <1>2, <1>3, <1>4

-----------------------------------------------------------------------------
(* A statement is skipped *)

(* What a skip does, statement by statement. *)
LEMMA SkipEffect ==
  ASSUME Inv, NEW b \in Batches, Skip(b)
  PROVE  /\ run[b].n \in Index /\ run[b].at = "loop" /\ Stopped(b)
         /\ \A a \in Batches : /\ run'[a].n = IF a = b THEN run[b].n + 1 ELSE run[a].n
                               /\ run'[a].at = run[a].at /\ run'[a].halted = run[a].halted
                               /\ run'[a].stopOnError = run[a].stopOnError
         /\ \A a \in Batches, i \in Index :
              results'[a][i] = IF a = b /\ i = run[b].n THEN "skipped" ELSE results[a][i]
         /\ results[b][run[b].n] = "none" /\ <<b, run[b].n>> \notin landed
<1> DEFINE n == run[b].n
           new == [run[b] EXCEPT !.n = n + 1]
<1>1. n \in Index /\ run[b].at = "loop" /\ Stopped(b)
  BY DEF Skip
<1>2. run \in [Batches -> RunState] /\ results \in [Batches -> [Index -> {"none", "success", "error", "timeout", "lost", "cancelled", "skipped"}]]
  BY DEF Inv, TypeOK
<1>3. run' = [run EXCEPT ![b] = new]
  BY DEF Skip
<1>4. new.n = n + 1 /\ new.at = run[b].at /\ new.halted = run[b].halted /\ new.stopOnError = run[b].stopOnError
  BY <1>2 DEF RunState
<1>5. results' = [results EXCEPT ![b][n] = "skipped"]
  BY DEF Skip
<1>6. results[b][n] = "none" /\ entry[b][n] = "none"
  BY <1>1 DEF Inv, ReportsAreInOrder, Index
<1>7. <<b, n>> \notin landed
  <2>1. work[b] = "none"
    BY <1>1 DEF Inv, LayersAgree
  <2> QED
    BY <1>6, <2>1 DEF Inv, ServerWorkIsKnown, Entry
<1> HIDE DEF n, new
<1>8. \A a \in Batches : run'[a] = IF a = b THEN new ELSE run[a]
  BY <1>2, <1>3
<1>9. \A a \in Batches, i \in Index : results'[a][i] = IF a = b /\ i = n THEN "skipped" ELSE results[a][i]
  BY <1>1, <1>2, <1>5
<1> QED
  BY <1>1, <1>4, <1>6, <1>7, <1>8, <1>9 DEF n

LEMMA SkipOrder ==
  ASSUME Inv, Order, NEW b \in Batches, Skip(b)
  PROVE  Order'
<1> DEFINE n == run[b].n
<1>a. /\ n \in Index /\ run[b].at = "loop" /\ Stopped(b)
      /\ \A a \in Batches : /\ run'[a].n = IF a = b THEN n + 1 ELSE run[a].n
                            /\ run'[a].at = run[a].at /\ run'[a].halted = run[a].halted
      /\ \A a \in Batches, i \in Index : results'[a][i] = IF a = b /\ i = n THEN "skipped" ELSE results[a][i]
  BY SkipEffect
<1>b. \A a \in Batches : run[a].n \in 1 .. Size + 1
  BY DEF Inv, TypeOK, RunState
<1> HIDE DEF n
<1>1. PassedIsReported'
  <2> SUFFICES ASSUME NEW a \in Batches, NEW i \in Index, i < run'[a].n
               PROVE  results'[a][i] # "none"
    BY DEF PassedIsReported
  <2>1. CASE a = b /\ i = n
    BY <1>a, <2>1
  <2>2. CASE ~(a = b /\ i = n)
    <3>1. i < run[a].n
      <4>1. CASE a = b
        <5>1. i < n + 1 /\ i # n /\ n \in 1 .. Size + 1
          BY <1>a, <1>b, <2>2, <4>1 DEF n
        <5>2. i < n
          BY <5>1 DEF Index
        <5> QED
          BY <4>1, <5>2 DEF n
      <4>2. CASE a # b
        BY <1>a, <4>2
      <4> QED
        BY <4>1, <4>2
    <3>2. results[a][i] # "none"
      BY <3>1 DEF Order, PassedIsReported
    <3> QED
      BY <1>a, <2>2, <3>2
  <2> QED
    BY <2>1, <2>2
<1>2. SkipsLast'
  <2> SUFFICES ASSUME NEW a \in Batches, NEW i \in Index, results'[a][i] = "skipped"
               PROVE  /\ run'[a].at \in {"loop", "done"}
                      /\ run'[a].at = "loop" => Stopped(a)'
                      /\ \A j \in Index : j > i => results'[a][j] \in {"none", "skipped"}
    BY DEF SkipsLast
  <2>1. stop' = stop
    BY DEF Skip
  <2>2. CASE a = b /\ i = n
    <3>1. \A j \in Index : j > i => results[b][j] = "none"
      <4>1. \A j \in Index : j > n => j >= n
        BY <1>a DEF Index
      <4> QED
        BY <2>2, <4>1 DEF Inv, ReportsAreInOrder, n
    <3>2. \A j \in Index : j > i => j # n
      BY <1>a, <2>2 DEF Index
    <3>3. \A j \in Index : j > i => results'[b][j] = results[b][j]
      BY <1>a, <3>2
    <3>4. run'[b].at = "loop" /\ Stopped(b)'
      BY <1>a, <2>1 DEF Stopped
    <3> QED
      BY <2>2, <3>1, <3>3, <3>4
  <2>3. CASE ~(a = b /\ i = n)
    <3>1. results[a][i] = "skipped"
      BY <1>a, <2>3
    <3>2. /\ run[a].at \in {"loop", "done"}
          /\ run[a].at = "loop" => Stopped(a)
          /\ \A j \in Index : j > i => results[a][j] \in {"none", "skipped"}
      BY <3>1 DEF Order, SkipsLast
    <3> QED
      BY <1>a, <2>1, <3>2 DEF Stopped
  <2> QED
    BY <2>2, <2>3
<1> QED
  BY <1>1, <1>2 DEF Order

(* It is reported as such. *)
LEMMA SkipSays ==
  ASSUME Inv, Order, NEW b \in Batches, Skip(b)
  PROVE  Report!Say(b, run[b].n, "skipped")
<1>1. results' = [results EXCEPT ![b] = [results[b] EXCEPT ![run[b].n] = "skipped"]]
  BY DEF Skip
<1>2. \A j \in Index : j < run[b].n => results[b][j] # "none"
  BY DEF Order, PassedIsReported
<1>3. UNCHANGED landed /\ Strict' = Strict
  BY SkipEffect DEF Skip, Strict
<1> QED
  BY <1>1, <1>2, <1>3, SkipEffect DEF Report!Say, Report!Statements, Index, Strict

-----------------------------------------------------------------------------
(* A statement is answered *)

(* What an answer does, statement by statement. *)
LEMMA AnswerEffect ==
  ASSUME Inv, NEW b \in Batches, NEW status \in {"success", "error", "timeout", "lost", "cancelled"},
         NEW row \in {"none", "ok", "error"}, Answer(b, status, row), guard[b] # "none"
  PROVE  /\ run[b].n \in Index /\ run[b].at \in {"run", "stopping"}
         /\ \A a \in Batches : /\ run'[a].n = IF a = b THEN run[b].n + 1 ELSE run[a].n
                               /\ a # b => run'[a] = run[a]
                               /\ run'[a].stopOnError = run[a].stopOnError
         /\ \A a \in Batches, i \in Index :
              results'[a][i] = IF a = b /\ i = run[b].n THEN status ELSE results[a][i]
         /\ results[b][run[b].n] = "none"
<1> DEFINE n == run[b].n
           new == [run[b] EXCEPT !.at = "loop", !.n = n + 1, !.halted = Halts(status, run[b].stopOnError)]
<1>1. n \in Index /\ run[b].at \in {"run", "stopping"}
  BY DEF Inv, LayersAgree
<1>2. run \in [Batches -> RunState] /\ results \in [Batches -> [Index -> {"none", "success", "error", "timeout", "lost", "cancelled", "skipped"}]]
  BY DEF Inv, TypeOK
<1>3. run' = [run EXCEPT ![b] = new]
  BY DEF Answer
<1>4. new.n = n + 1 /\ new.stopOnError = run[b].stopOnError
  BY <1>2 DEF RunState
<1>5. results' = [results EXCEPT ![b][n] = status]
  BY DEF Answer
<1>6. results[b][n] = "none"
  BY <1>1 DEF Inv, ReportsAreInOrder, Index
<1> HIDE DEF n, new
<1>7. \A a \in Batches : run'[a] = IF a = b THEN new ELSE run[a]
  BY <1>2, <1>3
<1>8. \A a \in Batches, i \in Index : results'[a][i] = IF a = b /\ i = n THEN status ELSE results[a][i]
  BY <1>1, <1>2, <1>5
<1> QED
  BY <1>1, <1>4, <1>6, <1>7, <1>8 DEF n

LEMMA AnswerOrder ==
  ASSUME Inv, Order, NEW b \in Batches, NEW status \in {"success", "error", "timeout", "lost", "cancelled"},
         NEW row \in {"none", "ok", "error"}, Answer(b, status, row), guard[b] # "none",
         UNCHANGED stop
  PROVE  Order'
<1>1. PassedIsReported'
  <2> SUFFICES ASSUME NEW a \in Batches, NEW i \in Index, i < run'[a].n
               PROVE  results'[a][i] # "none"
    BY DEF PassedIsReported
  <2>1. CASE a = b /\ i = run[b].n
    BY <2>1, AnswerEffect
  <2>2. CASE ~(a = b /\ i = run[b].n)
    <3>1. i < run[a].n
      BY <2>2, AnswerEffect DEF Index
    <3> QED
      BY <2>2, <3>1, AnswerEffect DEF Order, PassedIsReported
  <2> QED
    BY <2>1, <2>2
<1>2. SkipsLast'
  <2> SUFFICES ASSUME NEW a \in Batches, NEW i \in Index, results'[a][i] = "skipped"
               PROVE  /\ run'[a].at \in {"loop", "done"}
                      /\ run'[a].at = "loop" => Stopped(a)'
                      /\ \A j \in Index : j > i => results'[a][j] \in {"none", "skipped"}
    BY DEF SkipsLast
  <2>1. results[a][i] = "skipped"
    BY AnswerEffect
  <2>2. /\ run[a].at \in {"loop", "done"}
        /\ run[a].at = "loop" => Stopped(a)
        /\ \A j \in Index : j > i => results[a][j] \in {"none", "skipped"}
    BY <2>1 DEF Order, SkipsLast
  <2>3. a # b
    BY <2>2, AnswerEffect
  <2>4. run'[a] = run[a] /\ \A j \in Index : results'[a][j] = results[a][j]
    BY <2>3, AnswerEffect
  <2> QED
    BY <2>2, <2>4 DEF Stopped
<1> QED
  BY <1>1, <1>2 DEF Order

(* It is the report of the next statement of the script. *)
LEMMA AnswerSays ==
  ASSUME Inv, Order, NEW b \in Batches, NEW status \in {"success", "error", "timeout", "lost", "cancelled"},
         NEW row \in {"none", "ok", "error"}, Answer(b, status, row), guard[b] # "none",
         UNCHANGED landed, status = "success" => work[b] = "success"
  PROVE  Report!Say(b, run[b].n, status)
<1>1. results' = [results EXCEPT ![b] = [results[b] EXCEPT ![run[b].n] = status]]
  BY DEF Answer
<1>2. run[b].n \in Index /\ run[b].at \in {"run", "stopping"} /\ results[b][run[b].n] = "none"
  BY AnswerEffect
<1>3. \A j \in Index : j < run[b].n => /\ results[b][j] # "none"
                                      /\ results[b][j] # "skipped"
                                      /\ ~Halts(results[b][j], run[b].stopOnError)
  BY <1>2, ReachedInOrder DEF Index
<1>4. Strict' = Strict
  BY AnswerEffect DEF Strict
<1>5. status = "success" => <<b, run[b].n>> \in landed
  BY DEF Inv, ServerWorkIsKnown, Current
<1>6. Report!ReachedIn(b, run[b].n)
  BY <1>3 DEF Report!ReachedIn, Report!Halting, Report!Statements, Index, Halts
<1> QED
  BY <1>1, <1>2, <1>3, <1>4, <1>5, <1>6 DEF Report!Say, Report!Statements, Index, Strict

-----------------------------------------------------------------------------
(* A backend ends its statement *)

(* What a backend executes: the one of the tab, or one without a connection. *)
Executing(s) == s \in orphans \/ (s = server /\ server # Nothing)

(* It comes next in its script, or its report leaves open what becomes of it. *)
LEMMA ExecutingIsReached ==
  ASSUME Inv, Order, NEW s, Executing(s)
  PROVE  /\ s \in Batches \X Index
         /\ Report!ReachedIn(s[1], s[2])
         /\ results[s[1]][s[2]] \in {"none"} \cup Report!Open
<1> DEFINE b == s[1]
           i == s[2]
<1>1. b \in Batches /\ i \in Index /\ s = <<b, i>>
  BY DEF Inv, TypeOK, Executing
<1>2. run[b].n \in 1 .. Size + 1
  BY <1>1 DEF Inv, TypeOK, RunState
<1> HIDE DEF b, i
<1>3. CASE work[b] \in {"sent", "lost"} /\ Current(b) = s
  <2>1. work[b] # "none" /\ run[b].n = i
    BY <1>1, <1>3 DEF Current
  <2>2. run[b].at \in {"run", "stopping"}
    BY <1>1, <2>1 DEF Inv, LayersAgree
  <2>3. i <= run[b].n /\ i >= run[b].n
    BY <1>2, <2>1
  <2>4. results[b][i] = "none"
    BY <1>1, <2>3 DEF Inv, ReportsAreInOrder
  <2>5. \A j \in Index : j < i => /\ results[b][j] # "none"
                                  /\ results[b][j] # "skipped"
                                  /\ ~Halts(results[b][j], run[b].stopOnError)
    BY <1>1, <2>2, <2>3, ReachedInOrder
  <2>6. Report!ReachedIn(b, i)
    BY <1>1, <2>5 DEF Report!ReachedIn, Report!Halting, Report!Statements, Index, Halts
  <2> QED
    BY <1>1, <2>4, <2>6
<1>4. CASE Result(s) \in {"cancelled", "timeout", "lost"}
  <2>1. results[b][i] \in {"cancelled", "timeout", "lost"}
    BY <1>1, <1>4 DEF Result
  <2>2. ~(i >= run[b].n)
    BY <1>1, <2>1 DEF Inv, ReportsAreInOrder
  <2>3. i <= run[b].n
    BY <1>1, <1>2, <2>2 DEF Index
  <2>4. \A j \in Index : j < i => /\ results[b][j] # "none"
                                  /\ results[b][j] # "skipped"
                                  /\ ~Halts(results[b][j], run[b].stopOnError)
    BY <1>1, <2>1, <2>3, ReachedInOrder
  <2>5. Report!ReachedIn(b, i)
    BY <1>1, <2>4 DEF Report!ReachedIn, Report!Halting, Report!Statements, Index, Halts
  <2> QED
    BY <1>1, <2>1, <2>5 DEF Report!Open
<1> QED
  BY <1>1, <1>3, <1>4 DEF Inv, ServerWorkIsKnown, Awaits, Executing, b

(* Its effects land, or nothing does. *)
LEMMA ExecutingLands ==
  ASSUME Inv, Order, NEW s, Executing(s), landed' \in {landed, landed \cup {s}}, UNCHANGED <<run, results>>
  PROVE  \/ Report!Land(s[1], s[2])
         \/ UNCHANGED <<results, Strict, landed>>
<1>1. Strict' = Strict
  BY DEF Strict
<1>2. CASE landed' = landed
  BY <1>1, <1>2
<1>3. CASE landed' = landed \cup {s}
  <2>1. landed' = landed \cup {<<s[1], s[2]>>}
    BY <1>3, ExecutingIsReached
  <2> QED
    BY <1>1, <2>1, ExecutingIsReached DEF Report!Land, Strict
<1> QED
  BY <1>2, <1>3

-----------------------------------------------------------------------------
(* Every step *)

(* A step of StatementRun: it is silent, or reports a statement, or ends one   *)
(* on a server.                                                                *)
Silent ==
  /\ UNCHANGED <<results, landed>>
  /\ LoopsGoOn
  /\ \A a \in Batches : run'[a].stopOnError = run[a].stopOnError

Answers(b) ==
  \E status \in {"success", "error", "timeout", "lost", "cancelled"}, row \in {"none", "ok", "error"} :
    /\ Answer(b, status, row)
    /\ UNCHANGED <<stop, landed>>
    /\ guard[b] # "none"
    /\ status = "success" => work[b] = "success"

Serves ==
  /\ \E s \in Batches \X Index : Executing(s) /\ landed' \in {landed, landed \cup {s}}
  /\ UNCHANGED <<run, stop, results>>

(* The steps of the tab and the loop that report nothing. *)
LEMMA LoopIsSilent ==
  ASSUME Inv, NEW b \in Batches,
         PressStop(b) \/ Plan(b) \/ StartStatement(b) \/ Finish(b) \/ NoticeStop(b) \/ StopAgain(b)
  PROVE  Silent
<1>1. run \in [Batches -> RunState]
  BY DEF Inv, TypeOK
<1>2. CASE PressStop(b)
  BY <1>2 DEF PressStop, Silent, LoopsGoOn
<1>3. CASE StopAgain(b)
  BY <1>3 DEF StopAgain, Silent, LoopsGoOn
<1>4. ASSUME NEW new \in RunState, run' = [run EXCEPT ![b] = new],
             new.n = run[b].n, new.stopOnError = run[b].stopOnError,
             run[b].at \notin {"loop", "done"} \/ (run[b].at = "loop" /\ ~Stopped(b)) \/ new.at = "done",
             UNCHANGED <<stop, results, landed>>
      PROVE  Silent
  <2>1. \A a \in Batches : run'[a] = IF a = b THEN new ELSE run[a]
    BY <1>1, <1>4
  <2> QED
    BY <1>4, <2>1 DEF Silent, LoopsGoOn
<1>5. CASE Plan(b)
  <2>1. PICK at \in {"refused", "loop"} : run' = [run EXCEPT ![b] = [run[b] EXCEPT !.at = at]]
    BY <1>5 DEF Plan
  <2>2. [run[b] EXCEPT !.at = at] \in RunState
    BY <1>1, <2>1 DEF RunState
  <2> QED
    BY <1>1, <1>4, <1>5, <2>1, <2>2 DEF Plan, RunState
<1>6. CASE StartStatement(b)
  <2>1. run' = [run EXCEPT ![b] = [run[b] EXCEPT !.at = "run"]]
    BY <1>6 DEF StartStatement
  <2>2. [run[b] EXCEPT !.at = "run"] \in RunState
    BY <1>1 DEF RunState
  <2> QED
    BY <1>1, <1>4, <1>6, <2>1, <2>2 DEF StartStatement, RunState
<1>7. CASE Finish(b)
  <2>1. run' = [run EXCEPT ![b] = [run[b] EXCEPT !.at = "done", !.halted = FALSE]]
    BY <1>7 DEF Finish
  <2>2. [run[b] EXCEPT !.at = "done", !.halted = FALSE] \in RunState
    BY <1>1 DEF RunState
  <2> QED
    BY <1>1, <1>4, <1>7, <2>1, <2>2 DEF Finish, RunState
<1>8. CASE NoticeStop(b)
  <2>1. run' = [run EXCEPT ![b] = [run[b] EXCEPT !.at = "stopping"]]
    BY <1>8 DEF NoticeStop
  <2>2. [run[b] EXCEPT !.at = "stopping"] \in RunState
    BY <1>1 DEF RunState
  <2> QED
    BY <1>1, <1>4, <1>8, <2>1, <2>2 DEF NoticeStop, RunState
<1> QED
  BY <1>2, <1>3, <1>5, <1>6, <1>7, <1>8

(* The steps of the guard, the handler and the cancel that report nothing. *)
LEMMA WorkIsSilent ==
  ASSUME NEW b \in Batches,
         \/ Resolve(b) /\ UNCHANGED <<run, results>>
         \/ SeeStop(b) \/ TakeSlot(b) \/ TakeBusySlot(b) \/ TakeNewSlot(b) \/ SlotFails(b)
         \/ Send(b) \/ Lose(b) \/ CancelMisses(b)
  PROVE  Silent
<1>1. UNCHANGED <<run, stop, results, landed>>
  BY DEF Resolve, SeeStop, TakeSlot, TakeBusySlot, TakeNewSlot, SlotFails, Send, Lose, CancelMisses, AfterCancel
<1> QED
  BY <1>1 DEF Silent, LoopsGoOn

(* The steps with which run_one returns. *)
LEMMA ReturnsAnswer ==
  ASSUME Inv, NEW b \in Batches,
         \/ Resolve(b) /\ Answer(b, "error", "none")
         \/ Reply(b) \/ TimeOut(b) \/ GraceOver(b)
  PROVE  Answers(b)
BY DEF Resolve, Reply, TimeOut, GraceOver, Polled, Answers

(* Every step is of one of these kinds. *)
LEMMA StepKinds ==
  ASSUME Inv, Next
  PROVE  \/ Silent \/ Serves
         \/ \E b \in Batches : StartRun(b) \/ Skip(b) \/ Answers(b)
<1>a. server # Nothing => server \in Batches \X Index
  BY DEF Inv, TypeOK
<1>b. orphans \subseteq Batches \X Index
  BY DEF Inv, TypeOK
<1>1. CASE ServerAnswers
  BY <1>a, <1>1 DEF ServerAnswers, ServerEnds, Serves, Executing
<1>2. ASSUME NEW b \in Batches, CancelArrives(b)
      PROVE  Serves
  BY <1>a, <1>2 DEF CancelArrives, AfterCancel, ServerEnds, Serves, Executing
<1>6. CASE OrphanEnds
  BY <1>b, <1>6 DEF OrphanEnds, Serves, Executing
<1>3. ASSUME NEW b \in Batches, Resolve(b)
      PROVE  Silent \/ Answers(b)
  BY <1>3, WorkIsSilent, ReturnsAnswer DEF Resolve
<1>4. ASSUME NEW b \in Batches, ClientStep(b)
      PROVE  Silent \/ Serves \/ Skip(b) \/ Answers(b)
  BY <1>2, <1>3, <1>4, LoopIsSilent, WorkIsSilent, ReturnsAnswer DEF ClientStep
<1>5. ASSUME NEW b \in Batches,
             \/ PressStop(b) \/ TimeOut(b) \/ TakeSlot(b) \/ TakeBusySlot(b) \/ TakeNewSlot(b)
             \/ SlotFails(b) \/ Send(b) \/ Lose(b)
      PROVE  Silent \/ Answers(b)
  BY <1>5, LoopIsSilent, WorkIsSilent, ReturnsAnswer
<1> QED
  BY <1>1, <1>4, <1>5, <1>6 DEF Next

(* The start of a run, seen from outside. *)
LEMMA StartAsks ==
  ASSUME Inv, Order, NEW b \in Batches, StartRun(b)
  PROVE  Report!Ask(b) /\ Order'
<1>1. run \in [Batches -> RunState]
  BY DEF Inv, TypeOK
<1>2. PICK s \in BOOLEAN : run' = [run EXCEPT ![b] = [run[b] EXCEPT !.at = "planning", !.stopOnError = s]]
  BY DEF StartRun
<1> DEFINE new == [run[b] EXCEPT !.at = "planning", !.stopOnError = s]
<1>3. new.n = run[b].n /\ new.stopOnError = s
  BY <1>1 DEF RunState
<1>4. run' = [run EXCEPT ![b] = new]
  BY <1>2
<1> HIDE DEF new
<1>5. \A a \in Batches : run'[a] = IF a = b THEN new ELSE run[a]
  BY <1>1, <1>4
<1>6. run[b].at = "idle" /\ UNCHANGED <<stop, results, landed>>
  BY DEF StartRun
<1>7. LoopsGoOn
  BY <1>3, <1>5, <1>6 DEF LoopsGoOn
<1>8. Order'
  BY <1>6, <1>7, SilentOrder
<1>9. Strict' = [Strict EXCEPT ![b] = s]
  BY <1>3, <1>5 DEF Strict
<1>10. \A i \in Index : results[b][i] = "none"
  <2>1. run[b].n = 1
    BY <1>6 DEF Inv, LayersAgree
  <2> QED
    BY <2>1 DEF Inv, ReportsAreInOrder, Index
<1> QED
  BY <1>6, <1>8, <1>9, <1>10 DEF Report!Ask, Report!Statements, Index, Strict

(* Every step keeps the order, and is a step of ScriptReport or a stutter. *)
LEMMA StepReports ==
  ASSUME Inv, Order, [Next]_vars
  PROVE  Order' /\ [Report!Next]_(Report!vars)
<1>1. CASE UNCHANGED vars
  BY <1>1 DEF vars, Order, PassedIsReported, SkipsLast, Stopped, Report!vars
<1>2. CASE Silent
  BY <1>2, SilentOrder, SilentStep DEF Silent, Report!vars, Strict
<1>3. CASE Serves
  <2>1. PICK s \in Batches \X Index : Executing(s) /\ landed' \in {landed, landed \cup {s}}
    BY <1>3 DEF Serves
  <2>2. Order'
    BY <1>3, SilentOrder DEF Serves, LoopsGoOn
  <2>3. Report!Land(s[1], s[2]) \/ UNCHANGED <<results, Strict, landed>>
    BY <1>3, <2>1, ExecutingLands DEF Serves
  <2>4. s[1] \in Batches /\ s[2] \in Report!Statements
    BY DEF Report!Statements, Index
  <2> QED
    BY <2>2, <2>3, <2>4 DEF Report!Next, Report!vars, Strict
<1>4. ASSUME NEW b \in Batches, StartRun(b)
      PROVE  Order' /\ Report!Next
  BY <1>4, StartAsks DEF Report!Next
<1>5. ASSUME NEW b \in Batches, Skip(b)
      PROVE  Order' /\ Report!Next
  <2>1. run[b].n \in Report!Statements /\ "skipped" \in Report!Statuses
    BY <1>5, SkipEffect DEF Report!Statements, Report!Statuses, Report!Open, Index
  <2> QED
    BY <1>5, <2>1, SkipOrder, SkipSays DEF Report!Next
<1>6. ASSUME NEW b \in Batches, Answers(b)
      PROVE  Order' /\ Report!Next
  <2>1. PICK status \in {"success", "error", "timeout", "lost", "cancelled"}, row \in {"none", "ok", "error"} :
          /\ Answer(b, status, row)
          /\ UNCHANGED <<stop, landed>>
          /\ guard[b] # "none"
          /\ status = "success" => work[b] = "success"
    BY <1>6 DEF Answers
  <2>2. Order' /\ Report!Say(b, run[b].n, status)
    BY <2>1, AnswerOrder, AnswerSays
  <2>3. run[b].n \in Report!Statements /\ status \in Report!Statuses
    BY <2>1, AnswerEffect DEF Report!Statements, Report!Statuses, Report!Open, Index
  <2> QED
    BY <2>2, <2>3 DEF Report!Next
<1> QED
  BY <1>1, <1>2, <1>3, <1>4, <1>5, <1>6, StepKinds

(* The start is a start of ScriptReport. *)
LEMMA InitReports == Init => Report!Init
BY DEF Init, NotRun, Index, Report!Init, Report!Statements

(* What the layers under a run do to its script is what ScriptReport promises, *)
(* for any number of runs and statements.                                      *)
THEOREM RunsKeepTheReport == Spec => KeepsTheReport
<1>1. Init => Order
  BY InitOrder
<1>2. Inv /\ Order /\ [Next]_vars => Order' /\ [Report!Next]_(Report!vars)
  BY StepReports
<1> QED
  BY <1>1, <1>2, InvHolds, InitReports, PTL DEF Spec, KeepsTheReport, Report!Spec

=============================================================================
