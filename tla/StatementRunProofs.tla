------------------------- MODULE StatementRunProofs -------------------------
(***************************************************************************)
(* The safety claims of StatementRun for every number of runs and          *)
(* statements. `Inv` is inductive: one lemma per kind of step shows that   *)
(* it is kept, and the claims are among its parts.                         *)
(***************************************************************************)
EXTENDS StatementRun, TLAPS

USE SizeIsPositive, NoneIsNothing DEF Errors

(* The invariant holds at the start. *)
LEMMA InitInv == Init => Inv
<1> SUFFICES ASSUME Init PROVE Inv
  OBVIOUS
<1>1. TypeOK
  BY DEF Init, TypeOK, RunState, NotRun, Index
<1>2. OneRunAtATime /\ LayersAgree /\ HaltIsKept
  BY DEF Init, OneRunAtATime, InFlight, LayersAgree, HaltIsKept, Halts, NotRun
<1>3. ReportsAreInOrder /\ ServerWorkIsKnown
  BY DEF Init, ReportsAreInOrder, ServerWorkIsKnown, NotRun
<1>4. SuccessesLanded /\ HaltedBatchesSkipTheRest
  BY DEF Init, SuccessesLanded, HaltedBatchesSkipTheRest, Result, Halts
<1> QED
  BY <1>1, <1>2, <1>3, <1>4 DEF Inv

(* What stands in the reports keeps its halts when the step adds nothing to them. *)
LEMMA HaltsAreUndisturbed ==
  ASSUME Inv, LayersAgree', HaltIsKept', UNCHANGED <<results, entry, landed>>,
         \A a \in Batches : run'[a].stopOnError = run[a].stopOnError \/ run'[a].at = "planning",
         \A a \in Batches : stop[a] = "landed" => stop'[a] = "landed"
  PROVE  HaltedBatchesSkipTheRest'
<1> SUFFICES ASSUME NEW a \in Batches, NEW i \in Index, NEW j \in Index, i < j, Halts(results'[a][i],
                    run'[a].stopOnError)
             PROVE  results[a][j] \in {"none", "skipped"} /\ ~(run'[a].n = j /\ guard'[a] # "none")
  BY DEF Inv, HaltedBatchesSkipTheRest, Halts
<1>1. run'[a].at \in {"loop", "done"}
  BY DEF HaltIsKept
<1>2. guard'[a] = "none"
  BY <1>1 DEF LayersAgree
<1>3. Halts(results[a][i], run[a].stopOnError)
  BY <1>1 DEF Halts
<1> QED
  BY <1>2, <1>3 DEF Inv, HaltedBatchesSkipTheRest, Halts

(* The invariant is kept when the tab starts a run. *)
LEMMA StartRunStep ==
  ASSUME Inv, NEW b \in Batches, StartRun(b)
  PROVE  Inv'
<1>1. TypeOK'
  <2>1. run \in [Batches -> RunState]
    BY DEF Inv, TypeOK
  <2>2. PICK stopOnError \in BOOLEAN :
          run' = [run EXCEPT ![b] = [run[b] EXCEPT !.at = "planning", !.stopOnError = stopOnError]]
    BY DEF StartRun
  <2>3. [run[b] EXCEPT !.at = "planning", !.stopOnError = stopOnError] \in RunState
    BY <2>1 DEF RunState
  <2>4. run' \in [Batches -> RunState]
    BY <2>1, <2>2, <2>3
  <2>5. UNCHANGED <<stop, guard, told, work, cancels, server, orphans, results, entry, landed>>
    BY DEF StartRun
  <2> QED
    BY <2>4, <2>5 DEF Inv, TypeOK
<1>2. OneRunAtATime'
  BY DEF Inv, TypeOK, RunState, OneRunAtATime, InFlight, StartRun, InFlight
<1>3. LayersAgree'
  BY DEF Inv, TypeOK, RunState, LayersAgree, StartRun, Index, InFlight
<1>4. ReportsAreInOrder'
  BY <1>1 DEF Inv, TypeOK, RunState, LayersAgree, ReportsAreInOrder, StartRun, Index, InFlight
<1>5. ServerWorkIsKnown'
  BY DEF Inv, TypeOK, RunState, ServerWorkIsKnown, ReportsAreInOrder, LayersAgree, Awaits, Current, Result,
      Entry, StartRun, Index, InFlight
<1>6. HaltIsKept'
  BY DEF Inv, TypeOK, RunState, HaltIsKept, LayersAgree, ReportsAreInOrder, Halts, StartRun, Index, InFlight
<1>7. SuccessesLanded'
  BY DEF Inv, TypeOK, RunState, SuccessesLanded, Result, Entry, StartRun, Index, InFlight
<1>8. HaltedBatchesSkipTheRest'
  <2>1. /\ UNCHANGED <<results, entry, landed>>
        /\ \A a \in Batches : run'[a].stopOnError = run[a].stopOnError \/ run'[a].at = "planning"
        /\ \A a \in Batches : stop[a] = "landed" => stop'[a] = "landed"
    BY DEF Inv, TypeOK, RunState, StartRun, InFlight
  <2> QED
    BY <1>3, <1>6, <2>1, HaltsAreUndisturbed
<1> QED
  BY <1>1, <1>2, <1>3, <1>4, <1>5, <1>6, <1>7, <1>8 DEF Inv

(* The invariant is kept when the user presses Stop. *)
LEMMA PressStopStep ==
  ASSUME Inv, NEW b \in Batches, PressStop(b)
  PROVE  Inv'
<1>1. TypeOK'
  BY DEF Inv, TypeOK, LayersAgree, PressStop, Index, Current, InFlight, Registered
<1>2. OneRunAtATime'
  BY DEF Inv, TypeOK, RunState, OneRunAtATime, InFlight, PressStop, InFlight, Registered
<1>3. LayersAgree'
  BY DEF Inv, TypeOK, RunState, LayersAgree, PressStop, Index, InFlight, Registered
<1>4. ReportsAreInOrder'
  BY <1>1 DEF Inv, TypeOK, RunState, LayersAgree, ReportsAreInOrder, PressStop, Index, InFlight, Registered
<1>5. ServerWorkIsKnown'
  BY DEF Inv, TypeOK, RunState, ServerWorkIsKnown, ReportsAreInOrder, LayersAgree, Awaits, Current, Result,
      Entry, PressStop, Index, InFlight, Registered
<1>6. HaltIsKept'
  BY DEF Inv, TypeOK, RunState, HaltIsKept, LayersAgree, ReportsAreInOrder, Halts, PressStop, Index,
      InFlight, Registered
<1>7. SuccessesLanded'
  BY DEF Inv, TypeOK, RunState, SuccessesLanded, Result, Entry, PressStop, Index, InFlight, Registered
<1>8. HaltedBatchesSkipTheRest'
  <2>1. /\ UNCHANGED <<results, entry, landed>>
        /\ \A a \in Batches : run'[a].stopOnError = run[a].stopOnError \/ run'[a].at = "planning"
        /\ \A a \in Batches : stop[a] = "landed" => stop'[a] = "landed"
    BY DEF Inv, TypeOK, RunState, PressStop, InFlight, Registered
  <2> QED
    BY <1>3, <1>6, <2>1, HaltsAreUndisturbed
<1> QED
  BY <1>1, <1>2, <1>3, <1>4, <1>5, <1>6, <1>7, <1>8 DEF Inv

(* The invariant is kept when a run is refused or registered. *)
LEMMA PlanStep ==
  ASSUME Inv, NEW b \in Batches, Plan(b)
  PROVE  Inv'
<1>1. TypeOK'
  <2>1. run \in [Batches -> RunState]
    BY DEF Inv, TypeOK
  <2>2. run' \in [Batches -> RunState]
    BY <2>1, SizeIsPositive DEF Plan, RunState, Index
  <2> QED
    BY <2>2 DEF Inv, TypeOK, LayersAgree, Plan, Index
<1>2. OneRunAtATime'
  BY DEF Inv, TypeOK, RunState, OneRunAtATime, InFlight, Plan
<1>3. LayersAgree'
  BY DEF Inv, TypeOK, RunState, LayersAgree, Plan, Index
<1>4. ReportsAreInOrder'
  BY <1>1 DEF Inv, TypeOK, RunState, LayersAgree, ReportsAreInOrder, Plan, Index
<1>5. ServerWorkIsKnown'
  BY DEF Inv, TypeOK, RunState, ServerWorkIsKnown, ReportsAreInOrder, LayersAgree, Awaits, Current, Result,
      Entry, Plan, Index
<1>6. HaltIsKept'
  BY DEF Inv, TypeOK, RunState, HaltIsKept, LayersAgree, ReportsAreInOrder, Halts, Plan, Index
<1>7. SuccessesLanded'
  BY DEF Inv, TypeOK, RunState, SuccessesLanded, Result, Entry, Plan, Index
<1>8. HaltedBatchesSkipTheRest'
  <2>1. /\ UNCHANGED <<results, entry, landed>>
        /\ \A a \in Batches : run'[a].stopOnError = run[a].stopOnError \/ run'[a].at = "planning"
        /\ \A a \in Batches : stop[a] = "landed" => stop'[a] = "landed"
    BY DEF Inv, TypeOK, RunState, Plan
  <2> QED
    BY <1>3, <1>6, <2>1, HaltsAreUndisturbed
<1> QED
  BY <1>1, <1>2, <1>3, <1>4, <1>5, <1>6, <1>7, <1>8 DEF Inv

(* The invariant is kept when a statement is started. *)
LEMMA StartStatementStep ==
  ASSUME Inv, NEW b \in Batches, StartStatement(b)
  PROVE  Inv'
<1>1. TypeOK'
  <2>1. run \in [Batches -> RunState]
    BY DEF Inv, TypeOK
  <2>2. run' \in [Batches -> RunState]
    BY <2>1, SizeIsPositive DEF StartStatement, RunState, Index, Stopped
  <2> QED
    BY <2>2 DEF Inv, TypeOK, LayersAgree, StartStatement, Index, Stopped
<1>2. OneRunAtATime'
  BY DEF Inv, TypeOK, RunState, OneRunAtATime, InFlight, StartStatement, Stopped
<1>3. LayersAgree'
  BY DEF Inv, TypeOK, RunState, LayersAgree, StartStatement, Index, Stopped
<1>4. ReportsAreInOrder'
  BY <1>1 DEF Inv, TypeOK, RunState, LayersAgree, ReportsAreInOrder, StartStatement, Index, Stopped
<1>5. ServerWorkIsKnown'
  BY DEF Inv, TypeOK, RunState, ServerWorkIsKnown, ReportsAreInOrder, LayersAgree, Awaits, Current, Result,
      Entry, StartStatement, Index, Stopped
<1>6. HaltIsKept'
  BY DEF Inv, TypeOK, RunState, HaltIsKept, LayersAgree, ReportsAreInOrder, Halts, StartStatement, Index,
      Stopped
<1>7. SuccessesLanded'
  BY DEF Inv, TypeOK, RunState, SuccessesLanded, Result, Entry, StartStatement, Index, Stopped
<1>8. HaltedBatchesSkipTheRest'
  <2>1. /\ UNCHANGED <<results, entry, landed>>
        /\ \A a \in Batches : run'[a].stopOnError = run[a].stopOnError \/ run'[a].at = "planning"
        /\ \A a \in Batches : stop[a] = "landed" => stop'[a] = "landed"
    BY DEF Inv, TypeOK, RunState, StartStatement, Stopped
  <2> QED
    BY <1>3, <1>6, <2>1, HaltsAreUndisturbed
<1> QED
  BY <1>1, <1>2, <1>3, <1>4, <1>5, <1>6, <1>7, <1>8 DEF Inv

(* The invariant is kept when a batch ends. *)
LEMMA FinishStep ==
  ASSUME Inv, NEW b \in Batches, Finish(b)
  PROVE  Inv'
<1>1. TypeOK'
  <2>1. run \in [Batches -> RunState]
    BY DEF Inv, TypeOK
  <2>2. run' \in [Batches -> RunState]
    BY <2>1, SizeIsPositive DEF Finish, RunState, Index
  <2> QED
    BY <2>2 DEF Inv, TypeOK, LayersAgree, Finish, Index
<1>2. OneRunAtATime'
  BY DEF Inv, TypeOK, RunState, OneRunAtATime, InFlight, Finish
<1>3. LayersAgree'
  BY DEF Inv, TypeOK, RunState, LayersAgree, Finish, Index
<1>4. ReportsAreInOrder'
  BY <1>1 DEF Inv, TypeOK, RunState, LayersAgree, ReportsAreInOrder, Finish, Index
<1>5. ServerWorkIsKnown'
  BY DEF Inv, TypeOK, RunState, ServerWorkIsKnown, ReportsAreInOrder, LayersAgree, Awaits, Current, Result,
      Entry, Finish, Index
<1>6. HaltIsKept'
  BY DEF Inv, TypeOK, RunState, HaltIsKept, LayersAgree, ReportsAreInOrder, Halts, Finish, Index
<1>7. SuccessesLanded'
  BY DEF Inv, TypeOK, RunState, SuccessesLanded, Result, Entry, Finish, Index
<1>8. HaltedBatchesSkipTheRest'
  <2>1. /\ UNCHANGED <<results, entry, landed>>
        /\ \A a \in Batches : run'[a].stopOnError = run[a].stopOnError \/ run'[a].at = "planning"
        /\ \A a \in Batches : stop[a] = "landed" => stop'[a] = "landed"
    BY DEF Inv, TypeOK, RunState, Finish
  <2> QED
    BY <1>3, <1>6, <2>1, HaltsAreUndisturbed
<1> QED
  BY <1>1, <1>2, <1>3, <1>4, <1>5, <1>6, <1>7, <1>8 DEF Inv

(* The invariant is kept when run_one leaves its select. *)
LEMMA NoticeStopStep ==
  ASSUME Inv, NEW b \in Batches, NoticeStop(b)
  PROVE  Inv'
<1>1. TypeOK'
  <2>1. run \in [Batches -> RunState]
    BY DEF Inv, TypeOK
  <2>2. run' \in [Batches -> RunState]
    BY <2>1, SizeIsPositive DEF NoticeStop, RunState, Index
  <2> QED
    BY <2>2 DEF Inv, TypeOK, LayersAgree, NoticeStop, Index
<1>2. OneRunAtATime'
  BY DEF Inv, TypeOK, RunState, OneRunAtATime, InFlight, NoticeStop
<1>3. LayersAgree'
  BY DEF Inv, TypeOK, RunState, LayersAgree, NoticeStop, Index
<1>4. ReportsAreInOrder'
  BY <1>1 DEF Inv, TypeOK, RunState, LayersAgree, ReportsAreInOrder, NoticeStop, Index
<1>5. ServerWorkIsKnown'
  BY DEF Inv, TypeOK, RunState, ServerWorkIsKnown, ReportsAreInOrder, LayersAgree, Awaits, Current, Result,
      Entry, NoticeStop, Index
<1>6. HaltIsKept'
  BY DEF Inv, TypeOK, RunState, HaltIsKept, LayersAgree, ReportsAreInOrder, Halts, NoticeStop, Index
<1>7. SuccessesLanded'
  BY DEF Inv, TypeOK, RunState, SuccessesLanded, Result, Entry, NoticeStop, Index
<1>8. HaltedBatchesSkipTheRest'
  <2>1. /\ UNCHANGED <<results, entry, landed>>
        /\ \A a \in Batches : run'[a].stopOnError = run[a].stopOnError \/ run'[a].at = "planning"
        /\ \A a \in Batches : stop[a] = "landed" => stop'[a] = "landed"
    BY DEF Inv, TypeOK, RunState, NoticeStop
  <2> QED
    BY <1>3, <1>6, <2>1, HaltsAreUndisturbed
<1> QED
  BY <1>1, <1>2, <1>3, <1>4, <1>5, <1>6, <1>7, <1>8 DEF Inv

(* The invariant is kept when run_one repeats the cancel. *)
LEMMA StopAgainStep ==
  ASSUME Inv, NEW b \in Batches, StopAgain(b)
  PROVE  Inv'
<1>1. TypeOK'
  BY DEF Inv, TypeOK, LayersAgree, StopAgain, Index, Current
<1>2. OneRunAtATime'
  BY DEF Inv, TypeOK, RunState, OneRunAtATime, InFlight, StopAgain
<1>3. LayersAgree'
  BY DEF Inv, TypeOK, RunState, LayersAgree, StopAgain, Index
<1>4. ReportsAreInOrder'
  BY <1>1 DEF Inv, TypeOK, RunState, LayersAgree, ReportsAreInOrder, StopAgain, Index
<1>5. ServerWorkIsKnown'
  BY DEF Inv, TypeOK, RunState, ServerWorkIsKnown, ReportsAreInOrder, LayersAgree, Awaits, Current, Result,
      Entry, StopAgain, Index
<1>6. HaltIsKept'
  BY DEF Inv, TypeOK, RunState, HaltIsKept, LayersAgree, ReportsAreInOrder, Halts, StopAgain, Index
<1>7. SuccessesLanded'
  BY DEF Inv, TypeOK, RunState, SuccessesLanded, Result, Entry, StopAgain, Index
<1>8. HaltedBatchesSkipTheRest'
  <2>1. /\ UNCHANGED <<results, entry, landed>>
        /\ \A a \in Batches : run'[a].stopOnError = run[a].stopOnError \/ run'[a].at = "planning"
        /\ \A a \in Batches : stop[a] = "landed" => stop'[a] = "landed"
    BY DEF Inv, TypeOK, RunState, StopAgain
  <2> QED
    BY <1>3, <1>6, <2>1, HaltsAreUndisturbed
<1> QED
  BY <1>1, <1>2, <1>3, <1>4, <1>5, <1>6, <1>7, <1>8 DEF Inv

(* The invariant is kept when the token wins the race. *)
LEMMA SeeStopStep ==
  ASSUME Inv, NEW b \in Batches, SeeStop(b)
  PROVE  Inv'
<1>1. TypeOK'
  <2>1. UNCHANGED <<run, stop, told, work, server, orphans, results, entry, landed>>
    BY DEF SeeStop
  <2>2. guard \in [Batches -> {"none", "resolve", "race", "cancel", "grace"}] /\ cancels \in [Batches -> BOOLEAN]
    BY DEF Inv, TypeOK
  <2>3. CASE work[b] \in {"slot", "lost"}
    <3>1. guard' = [guard EXCEPT ![b] = "grace"] /\ cancels' = cancels
      BY <2>3 DEF SeeStop
    <3>2. guard' \in [Batches -> {"none", "resolve", "race", "cancel", "grace"}]
      BY <2>2, <3>1
    <3> QED
      BY <2>1, <3>1, <3>2 DEF Inv, TypeOK
  <2>4. CASE work[b] \notin {"slot", "lost"}
    <3>1. guard' = [guard EXCEPT ![b] = "cancel"] /\ cancels' = [cancels EXCEPT ![b] = TRUE]
      BY <2>4 DEF SeeStop
    <3>2. guard' \in [Batches -> {"none", "resolve", "race", "cancel", "grace"}]
      BY <2>2, <3>1
    <3>3. cancels' \in [Batches -> BOOLEAN]
      BY <2>2, <3>1
    <3> QED
      BY <2>1, <3>2, <3>3 DEF Inv, TypeOK
  <2> QED
    BY <2>3, <2>4
<1>2. OneRunAtATime'
  BY DEF Inv, TypeOK, RunState, OneRunAtATime, InFlight, SeeStop
<1>3. LayersAgree'
  BY DEF Inv, TypeOK, RunState, LayersAgree, SeeStop, Index
<1>4. ReportsAreInOrder'
  BY <1>1 DEF Inv, TypeOK, RunState, LayersAgree, ReportsAreInOrder, SeeStop, Index
<1>5. ServerWorkIsKnown'
  BY DEF Inv, TypeOK, RunState, ServerWorkIsKnown, ReportsAreInOrder, LayersAgree, Awaits, Current, Result,
      Entry, SeeStop, Index
<1>6. HaltIsKept'
  BY DEF Inv, TypeOK, RunState, HaltIsKept, LayersAgree, ReportsAreInOrder, Halts, SeeStop, Index
<1>7. SuccessesLanded'
  BY DEF Inv, TypeOK, RunState, SuccessesLanded, Result, Entry, SeeStop, Index
<1>8. HaltedBatchesSkipTheRest'
  <2>1. /\ UNCHANGED <<results, entry, landed>>
        /\ \A a \in Batches : run'[a].stopOnError = run[a].stopOnError \/ run'[a].at = "planning"
        /\ \A a \in Batches : stop[a] = "landed" => stop'[a] = "landed"
    BY DEF Inv, TypeOK, RunState, SeeStop
  <2> QED
    BY <1>3, <1>6, <2>1, HaltsAreUndisturbed
<1> QED
  BY <1>1, <1>2, <1>3, <1>4, <1>5, <1>6, <1>7, <1>8 DEF Inv

(* The invariant is kept when a statement is sent on a free connection. *)
LEMMA TakeSlotStep ==
  ASSUME Inv, NEW b \in Batches, TakeSlot(b)
  PROVE  Inv'
<1>1. TypeOK'
  BY DEF Inv, TypeOK, LayersAgree, TakeSlot, Index, Current, Polled
<1>2. OneRunAtATime'
  BY DEF Inv, TypeOK, RunState, OneRunAtATime, InFlight, TakeSlot, Polled
<1>3. LayersAgree'
  BY DEF Inv, TypeOK, RunState, LayersAgree, TakeSlot, Index, Polled
<1>4. ReportsAreInOrder'
  BY <1>1 DEF Inv, TypeOK, RunState, LayersAgree, ReportsAreInOrder, TakeSlot, Index, Polled
<1>5. ServerWorkIsKnown'
  BY DEF Inv, TypeOK, RunState, ServerWorkIsKnown, ReportsAreInOrder, LayersAgree, Awaits, Current, Result,
      Entry, TakeSlot, Index, Polled
<1>6. HaltIsKept'
  BY DEF Inv, TypeOK, RunState, HaltIsKept, LayersAgree, ReportsAreInOrder, Halts, TakeSlot, Index, Polled
<1>7. SuccessesLanded'
  BY DEF Inv, TypeOK, RunState, SuccessesLanded, Result, Entry, TakeSlot, Index, Polled
<1>8. HaltedBatchesSkipTheRest'
  <2>1. /\ UNCHANGED <<results, entry, landed>>
        /\ \A a \in Batches : run'[a].stopOnError = run[a].stopOnError \/ run'[a].at = "planning"
        /\ \A a \in Batches : stop[a] = "landed" => stop'[a] = "landed"
    BY DEF Inv, TypeOK, RunState, TakeSlot, Polled
  <2> QED
    BY <1>3, <1>6, <2>1, HaltsAreUndisturbed
<1> QED
  BY <1>1, <1>2, <1>3, <1>4, <1>5, <1>6, <1>7, <1>8 DEF Inv

(* The invariant is kept when the driver finds the backend busy. *)
LEMMA TakeBusySlotStep ==
  ASSUME Inv, NEW b \in Batches, TakeBusySlot(b)
  PROVE  Inv'
<1>1. TypeOK'
  BY DEF Inv, TypeOK, LayersAgree, TakeBusySlot, Index, Current, Polled
<1>2. OneRunAtATime'
  BY DEF Inv, TypeOK, RunState, OneRunAtATime, InFlight, TakeBusySlot, Polled
<1>3. LayersAgree'
  BY DEF Inv, TypeOK, RunState, LayersAgree, TakeBusySlot, Index, Polled
<1>4. ReportsAreInOrder'
  BY <1>1 DEF Inv, TypeOK, RunState, LayersAgree, ReportsAreInOrder, TakeBusySlot, Index, Polled
<1>5. ServerWorkIsKnown'
  BY DEF Inv, TypeOK, RunState, ServerWorkIsKnown, ReportsAreInOrder, LayersAgree, Awaits, Current, Result,
      Entry, TakeBusySlot, Index, Polled
<1>6. HaltIsKept'
  BY DEF Inv, TypeOK, RunState, HaltIsKept, LayersAgree, ReportsAreInOrder, Halts, TakeBusySlot, Index, Polled
<1>7. SuccessesLanded'
  BY DEF Inv, TypeOK, RunState, SuccessesLanded, Result, Entry, TakeBusySlot, Index, Polled
<1>8. HaltedBatchesSkipTheRest'
  <2>1. /\ UNCHANGED <<results, entry, landed>>
        /\ \A a \in Batches : run'[a].stopOnError = run[a].stopOnError \/ run'[a].at = "planning"
        /\ \A a \in Batches : stop[a] = "landed" => stop'[a] = "landed"
    BY DEF Inv, TypeOK, RunState, TakeBusySlot, Polled
  <2> QED
    BY <1>3, <1>6, <2>1, HaltsAreUndisturbed
<1> QED
  BY <1>1, <1>2, <1>3, <1>4, <1>5, <1>6, <1>7, <1>8 DEF Inv

(* What executes on a connection that is let go of was dropped before, or is   *)
(* the statement that is now lost.                                             *)
LEMMA LostWorkIsKnown ==
  ASSUME Inv, NEW b \in Batches, NEW w \in {"sent", "error", "lost"}, guard[b] # "none",
         work[b] = "slot" \/ (work[b] \in {"drain", "sent"} /\ w = "lost"),
         work' = [work EXCEPT ![b] = w], UNCHANGED <<run, results, entry, landed>>,
         \/ LoseConnection /\ server' = Nothing
         \/ LoseConnection /\ server' = Current(b) /\ w = "sent"
         \/ UNCHANGED <<server, orphans>> /\ work[b] = "slot"
  PROVE  ServerWorkIsKnown'
<1>1. \A a \in Batches : work'[a] = IF a = b THEN w ELSE work[a]
  BY DEF Inv, TypeOK
<1>2. \A a \in Batches : Current(a)' = Current(a)
  BY DEF Current
<1>3. \A s \in Batches \X Index : Result(s)' = Result(s) /\ Entry(s)' = Entry(s) /\ s[1] \in Batches
  BY DEF Result, Entry
<1>4. /\ server # Nothing => server \in Batches \X Index
      /\ orphans \subseteq Batches \X Index /\ landed \subseteq Batches \X Index
  BY DEF Inv, TypeOK
<1>5. server' # Nothing => \/ work'[server'[1]] = "sent" /\ Current(server'[1]) = server'
                           \/ Result(server') \in {"cancelled", "timeout"}
  <2>1. CASE server' = Current(b) /\ w = "sent"
    BY <1>1, <2>1 DEF Current
  <2>2. CASE server' = server /\ server # Nothing /\ work[b] = "slot"
    BY <1>1, <1>3, <1>4, <2>2 DEF Inv, ServerWorkIsKnown, Awaits
  <2> QED
    BY <2>1, <2>2
<1>6. \A s \in orphans' : \/ work'[s[1]] = "lost" /\ Current(s[1])' = s
                          \/ Result(s)' \in {"cancelled", "timeout", "lost"}
  <2> SUFFICES ASSUME NEW s \in orphans', Result(s) \notin {"cancelled", "timeout", "lost"}
               PROVE  work'[s[1]] = "lost" /\ Current(s[1]) = s
    BY <1>2, <1>3, <1>4 DEF LoseConnection
  <2>1. CASE s \in orphans
    BY <1>1, <1>3, <1>4, <2>1 DEF Inv, ServerWorkIsKnown
  <2>2. CASE s \notin orphans
    <3>1. s = server /\ server # Nothing /\ s[1] \in Batches
      BY <1>3, <1>4, <2>2 DEF LoseConnection
    <3>2. work[s[1]] = "sent" /\ Current(s[1]) = s
      BY <3>1 DEF Inv, ServerWorkIsKnown, Awaits
    <3>3. s[1] = b
      BY <3>1, <3>2 DEF Inv, OneRunAtATime, LayersAgree, InFlight
    <3> QED
      BY <1>1, <3>1, <3>2, <3>3
  <2> QED
    BY <2>1, <2>2
<1>7. \A a \in Batches : work'[a] = "success" => Current(a)' \in landed'
  BY <1>1, <1>2 DEF Inv, ServerWorkIsKnown
<1>8. \A s \in landed' : \/ work'[s[1]] \in {"success", "lost"} /\ Current(s[1])' = s
                         \/ Entry(s)' # "none"
  BY <1>1, <1>2, <1>3, <1>4 DEF Inv, ServerWorkIsKnown
<1>9. server' # Nothing => server' \in Batches \X Index
  BY <1>4 DEF Inv, TypeOK, LayersAgree, Current
<1> QED
  BY <1>2, <1>3, <1>5, <1>6, <1>7, <1>8, <1>9 DEF ServerWorkIsKnown, Awaits, Current, Result

(* The invariant is kept when a statement is sent on a new connection. *)
LEMMA TakeNewSlotStep ==
  ASSUME Inv, NEW b \in Batches, TakeNewSlot(b)
  PROVE  Inv'
<1>1. TypeOK'
  BY DEF Inv, TypeOK, LayersAgree, TakeNewSlot, LoseConnection, Index, Current, Polled
<1>2. OneRunAtATime'
  BY DEF Inv, TypeOK, RunState, OneRunAtATime, InFlight, TakeNewSlot, Polled, LoseConnection
<1>3. LayersAgree'
  BY DEF Inv, TypeOK, RunState, LayersAgree, TakeNewSlot, LoseConnection, Index, Polled
<1>4. ReportsAreInOrder'
  BY <1>1 DEF Inv, TypeOK, RunState, LayersAgree, ReportsAreInOrder, TakeNewSlot, LoseConnection, Index, Polled
<1>5. ServerWorkIsKnown'
  <2>1. guard[b] # "none"
    BY DEF TakeNewSlot, Polled
  <2> QED
    BY <2>1, LostWorkIsKnown DEF TakeNewSlot
<1>6. HaltIsKept'
  BY DEF Inv, TypeOK, RunState, HaltIsKept, LayersAgree, ReportsAreInOrder, Halts, TakeNewSlot, LoseConnection, Index, Polled
<1>7. SuccessesLanded'
  BY DEF Inv, TypeOK, RunState, SuccessesLanded, Result, Entry, TakeNewSlot, LoseConnection, Index, Polled
<1>8. HaltedBatchesSkipTheRest'
  <2>1. /\ UNCHANGED <<results, entry, landed>>
        /\ \A a \in Batches : run'[a].stopOnError = run[a].stopOnError \/ run'[a].at = "planning"
        /\ \A a \in Batches : stop[a] = "landed" => stop'[a] = "landed"
    BY DEF Inv, TypeOK, RunState, TakeNewSlot, Polled, LoseConnection
  <2> QED
    BY <1>3, <1>6, <2>1, HaltsAreUndisturbed
<1> QED
  BY <1>1, <1>2, <1>3, <1>4, <1>5, <1>6, <1>7, <1>8 DEF Inv

(* The invariant is kept when the connection cannot be had. *)
LEMMA SlotFailsStep ==
  ASSUME Inv, NEW b \in Batches, SlotFails(b)
  PROVE  Inv'
<1>1. TypeOK'
  BY DEF Inv, TypeOK, LayersAgree, SlotFails, LoseConnection, Index, Current, Polled
<1>2. OneRunAtATime'
  BY DEF Inv, TypeOK, RunState, OneRunAtATime, InFlight, SlotFails, Polled, LoseConnection
<1>3. LayersAgree'
  BY DEF Inv, TypeOK, RunState, LayersAgree, SlotFails, LoseConnection, Index, Polled
<1>4. ReportsAreInOrder'
  BY <1>1 DEF Inv, TypeOK, RunState, LayersAgree, ReportsAreInOrder, SlotFails, LoseConnection, Index, Polled
<1>5. ServerWorkIsKnown'
  <2>1. guard[b] # "none"
    BY DEF SlotFails, Polled
  <2> QED
    BY <2>1, LostWorkIsKnown DEF SlotFails
<1>6. HaltIsKept'
  BY DEF Inv, TypeOK, RunState, HaltIsKept, LayersAgree, ReportsAreInOrder, Halts, SlotFails, LoseConnection, Index, Polled
<1>7. SuccessesLanded'
  BY DEF Inv, TypeOK, RunState, SuccessesLanded, Result, Entry, SlotFails, LoseConnection, Index, Polled
<1>8. HaltedBatchesSkipTheRest'
  <2>1. /\ UNCHANGED <<results, entry, landed>>
        /\ \A a \in Batches : run'[a].stopOnError = run[a].stopOnError \/ run'[a].at = "planning"
        /\ \A a \in Batches : stop[a] = "landed" => stop'[a] = "landed"
    BY DEF Inv, TypeOK, RunState, SlotFails, Polled, LoseConnection
  <2> QED
    BY <1>3, <1>6, <2>1, HaltsAreUndisturbed
<1> QED
  BY <1>1, <1>2, <1>3, <1>4, <1>5, <1>6, <1>7, <1>8 DEF Inv

(* The invariant is kept when the connection breaks under the handler. *)
LEMMA LoseStep ==
  ASSUME Inv, NEW b \in Batches, Lose(b)
  PROVE  Inv'
<1>1. TypeOK'
  BY DEF Inv, TypeOK, LayersAgree, Lose, LoseConnection, Index, Current, Polled
<1>2. OneRunAtATime'
  BY DEF Inv, TypeOK, RunState, OneRunAtATime, InFlight, Lose, Polled, LoseConnection
<1>3. LayersAgree'
  BY DEF Inv, TypeOK, RunState, LayersAgree, Lose, LoseConnection, Index, Polled
<1>4. ReportsAreInOrder'
  BY <1>1 DEF Inv, TypeOK, RunState, LayersAgree, ReportsAreInOrder, Lose, LoseConnection, Index, Polled
<1>5. ServerWorkIsKnown'
  <2>1. guard[b] # "none"
    BY DEF Lose, Polled
  <2> QED
    BY <2>1, LostWorkIsKnown DEF Lose
<1>6. HaltIsKept'
  BY DEF Inv, TypeOK, RunState, HaltIsKept, LayersAgree, ReportsAreInOrder, Halts, Lose, LoseConnection, Index, Polled
<1>7. SuccessesLanded'
  BY DEF Inv, TypeOK, RunState, SuccessesLanded, Result, Entry, Lose, LoseConnection, Index, Polled
<1>8. HaltedBatchesSkipTheRest'
  <2>1. /\ UNCHANGED <<results, entry, landed>>
        /\ \A a \in Batches : run'[a].stopOnError = run[a].stopOnError \/ run'[a].at = "planning"
        /\ \A a \in Batches : stop[a] = "landed" => stop'[a] = "landed"
    BY DEF Inv, TypeOK, RunState, Lose, Polled, LoseConnection
  <2> QED
    BY <1>3, <1>6, <2>1, HaltsAreUndisturbed
<1> QED
  BY <1>1, <1>2, <1>3, <1>4, <1>5, <1>6, <1>7, <1>8 DEF Inv

(* The invariant is kept when a backend without a connection ends its statement. *)
LEMMA OrphanEndsStep ==
  ASSUME Inv, OrphanEnds
  PROVE  Inv'
<1> PICK s \in orphans : orphans' = orphans \ {s} /\ landed' \in {landed, landed \cup {s}}
  BY DEF OrphanEnds
<1>1. UNCHANGED <<run, stop, guard, told, work, cancels, server, results, entry>>
  BY DEF OrphanEnds
<1>2. s \in Batches \X Index
  BY DEF Inv, TypeOK
<1>3. \/ work[s[1]] = "lost" /\ Current(s[1]) = s
      \/ Result(s) \in {"cancelled", "timeout", "lost"} /\ Entry(s) # "none"
  BY <1>2 DEF Inv, ServerWorkIsKnown, ReportsAreInOrder, Result, Entry
<1>4. TypeOK' /\ OneRunAtATime' /\ LayersAgree' /\ ReportsAreInOrder' /\ HaltIsKept'
  BY <1>1, <1>2 DEF Inv, TypeOK, OneRunAtATime, InFlight, LayersAgree, ReportsAreInOrder, HaltIsKept, Halts
<1>5. ServerWorkIsKnown'
  BY <1>1, <1>3 DEF Inv, ServerWorkIsKnown, Awaits, Current, Result, Entry
<1>6. SuccessesLanded'
  BY <1>1 DEF Inv, SuccessesLanded, Result, Entry
<1>7. HaltedBatchesSkipTheRest'
  <2>1. \A a \in Batches, i \in Index : results[a][i] = "skipped" => <<a, i>> # s
    BY <1>2, <1>3 DEF Inv, TypeOK, ReportsAreInOrder, LayersAgree, RunState, Current, Result, Index
  <2> QED
    BY <1>1, <2>1 DEF Inv, HaltedBatchesSkipTheRest, Halts
<1> QED
  BY <1>4, <1>5, <1>6, <1>7 DEF Inv

(* The invariant is kept when a statement is sent on a drained connection. *)
LEMMA SendStep ==
  ASSUME Inv, NEW b \in Batches, Send(b)
  PROVE  Inv'
<1>1. TypeOK'
  BY DEF Inv, TypeOK, LayersAgree, Send, Index, Current, Polled
<1>2. OneRunAtATime'
  BY DEF Inv, TypeOK, RunState, OneRunAtATime, InFlight, Send, Polled
<1>3. LayersAgree'
  BY DEF Inv, TypeOK, RunState, LayersAgree, Send, Index, Polled
<1>4. ReportsAreInOrder'
  BY <1>1 DEF Inv, TypeOK, RunState, LayersAgree, ReportsAreInOrder, Send, Index, Polled
<1>5. ServerWorkIsKnown'
  BY DEF Inv, TypeOK, RunState, ServerWorkIsKnown, ReportsAreInOrder, LayersAgree, Awaits, Current, Result,
      Entry, Send, Index, Polled
<1>6. HaltIsKept'
  BY DEF Inv, TypeOK, RunState, HaltIsKept, LayersAgree, ReportsAreInOrder, Halts, Send, Index, Polled
<1>7. SuccessesLanded'
  BY DEF Inv, TypeOK, RunState, SuccessesLanded, Result, Entry, Send, Index, Polled
<1>8. HaltedBatchesSkipTheRest'
  <2>1. /\ UNCHANGED <<results, entry, landed>>
        /\ \A a \in Batches : run'[a].stopOnError = run[a].stopOnError \/ run'[a].at = "planning"
        /\ \A a \in Batches : stop[a] = "landed" => stop'[a] = "landed"
    BY DEF Inv, TypeOK, RunState, Send, Polled
  <2> QED
    BY <1>3, <1>6, <2>1, HaltsAreUndisturbed
<1> QED
  BY <1>1, <1>2, <1>3, <1>4, <1>5, <1>6, <1>7, <1>8 DEF Inv

(* The invariant is kept when a cancel misses. *)
LEMMA CancelMissesStep ==
  ASSUME Inv, NEW b \in Batches, CancelMisses(b)
  PROVE  Inv'
<1>1. TypeOK'
  BY DEF Inv, TypeOK, LayersAgree, CancelMisses, Index, Current, AfterCancel
<1>2. OneRunAtATime'
  BY DEF Inv, TypeOK, RunState, OneRunAtATime, InFlight, CancelMisses, AfterCancel
<1>3. LayersAgree'
  BY DEF Inv, TypeOK, RunState, LayersAgree, CancelMisses, Index, AfterCancel
<1>4. ReportsAreInOrder'
  BY <1>1 DEF Inv, TypeOK, RunState, LayersAgree, ReportsAreInOrder, CancelMisses, Index, AfterCancel
<1>5. ServerWorkIsKnown'
  BY DEF Inv, TypeOK, RunState, ServerWorkIsKnown, ReportsAreInOrder, LayersAgree, Awaits, Current, Result,
      Entry, CancelMisses, Index, AfterCancel
<1>6. HaltIsKept'
  BY DEF Inv, TypeOK, RunState, HaltIsKept, LayersAgree, ReportsAreInOrder, Halts, CancelMisses, Index,
      AfterCancel
<1>7. SuccessesLanded'
  BY DEF Inv, TypeOK, RunState, SuccessesLanded, Result, Entry, CancelMisses, Index, AfterCancel
<1>8. HaltedBatchesSkipTheRest'
  <2>1. /\ UNCHANGED <<results, entry, landed>>
        /\ \A a \in Batches : run'[a].stopOnError = run[a].stopOnError \/ run'[a].at = "planning"
        /\ \A a \in Batches : stop[a] = "landed" => stop'[a] = "landed"
    BY DEF Inv, TypeOK, RunState, CancelMisses, AfterCancel
  <2> QED
    BY <1>3, <1>6, <2>1, HaltsAreUndisturbed
<1> QED
  BY <1>1, <1>2, <1>3, <1>4, <1>5, <1>6, <1>7, <1>8 DEF Inv

(* The invariant is kept when a statement is skipped. *)
LEMMA SkipStep ==
  ASSUME Inv, NEW b \in Batches, Skip(b)
  PROVE  Inv'
<1> DEFINE n == run[b].n
<1>1. n \in Index /\ n + 1 \in 1 .. Size + 1 /\ run[b].at = "loop" /\ guard[b] = "none" /\ work[b] = "none"
  BY DEF Inv, LayersAgree, Skip, Index
<1>2. run \in [Batches -> RunState] /\ run' = [run EXCEPT ![b].n = n + 1]
  BY DEF Inv, TypeOK, Skip
<1>3. results \in [Batches -> [Index -> {"none", "success", "error", "timeout", "lost", "cancelled", "skipped"}]]
      /\ results' = [results EXCEPT ![b][n] = "skipped"]
  BY DEF Inv, TypeOK, Skip
<1>4. results[b][n] = "none" /\ entry[b][n] = "none" /\ <<b, n>> \notin landed
  <2>1. results[b][n] = "none" /\ entry[b][n] = "none"
    BY <1>1 DEF Inv, ReportsAreInOrder, TypeOK, Index
  <2>2. <<b, n>> \in landed => work[b] = "success" \/ entry[b][n] # "none"
    BY <1>1 DEF Inv, ServerWorkIsKnown, Entry
  <2> QED
    BY <1>1, <2>1, <2>2
<1>5. TypeOK'
  <2>1. run' \in [Batches -> RunState]
    BY <1>1, <1>2 DEF RunState
  <2>2. results' \in [Batches -> [Index -> {"none", "success", "error", "timeout", "lost", "cancelled", "skipped"}]]
    BY <1>3
  <2> QED
    BY <2>1, <2>2 DEF Inv, TypeOK, Skip
<1>6. \A a \in Batches : /\ run'[a].at = run[a].at /\ run'[a].halted = run[a].halted
                         /\ run'[a].stopOnError = run[a].stopOnError
                           /\ run'[a].n = IF a = b THEN n + 1 ELSE run[a].n
  BY <1>2 DEF RunState
<1>7. \A a \in Batches, i \in Index : results'[a][i] = IF a = b /\ i = n THEN "skipped" ELSE results[a][i]
  BY <1>3
<1>8. OneRunAtATime' /\ LayersAgree'
  BY <1>1, <1>6 DEF Inv, OneRunAtATime, InFlight, LayersAgree, Skip
<1>9. ReportsAreInOrder'
  BY <1>1, <1>6, <1>7 DEF Inv, TypeOK, RunState, ReportsAreInOrder, Skip, Index
<1>10. ServerWorkIsKnown'
  <2>1. \A a \in Batches : work[a] # "none" => Current(a)' = Current(a)
    BY <1>1, <1>6 DEF Current
  <2>2. \A s \in Batches \X Index : Result(s)' = Result(s) \/ Result(s) = "none"
    BY <1>4, <1>7 DEF Result
  <2>3. server # Nothing => server \in Batches \X Index /\ server[1] \in Batches
    BY DEF Inv, TypeOK
  <2>4. \A s \in landed \cup orphans : s \in Batches \X Index /\ s[1] \in Batches
    BY DEF Inv, TypeOK
  <2> QED
    BY <2>1, <2>2, <2>3, <2>4 DEF Inv, ServerWorkIsKnown, Awaits, Entry, Skip
<1>11. HaltIsKept'
  BY <1>6, <1>7 DEF Inv, HaltIsKept, Halts
<1>12. SuccessesLanded'
  BY <1>4, <1>7 DEF Inv, SuccessesLanded, Result, Entry, Skip
<1>13. HaltedBatchesSkipTheRest'
  <2>1. ASSUME NEW a \in Batches, NEW i \in Index, Halts(results'[a][i], run'[a].stopOnError), NEW j \in Index, i < j
        PROVE  results'[a][j] \in {"none", "skipped"} /\ ~(run'[a].n = j /\ guard[a] # "none")
    <3>1. Halts(results[a][i], run[a].stopOnError)
      BY <1>6, <1>7, <2>1 DEF Halts
    <3>2. j \in Index /\ results[a][j] \in {"none", "skipped"} /\ ~(run[a].n = j /\ guard[a] # "none")
      BY <2>1, <3>1 DEF Inv, HaltedBatchesSkipTheRest
    <3> QED
      BY <1>1, <1>6, <1>7, <3>2
  <2>2. \A a \in Batches, i \in Index : results'[a][i] = "cancelled" => stop[a] = "landed"
    BY <1>1, <1>7 DEF Inv, HaltedBatchesSkipTheRest, Halts
  <2>3. \A a \in Batches, i \in Index : results'[a][i] = "skipped" => entry[a][i] = "none" /\ <<a, i>> \notin landed
    BY <1>4, <1>7 DEF Inv, HaltedBatchesSkipTheRest, Halts
  <2>4. UNCHANGED <<stop, guard, entry, landed>>
    BY DEF Skip
  <2> QED
    BY <2>1, <2>2, <2>3, <2>4 DEF HaltedBatchesSkipTheRest, Halts
<1> QED
  BY <1>5, <1>8, <1>9, <1>10, <1>11, <1>12, <1>13 DEF Inv

(* The invariant is kept when run_one returns with an answer that fits the work. *)
LEMMA AnswerStep ==
  ASSUME Inv, NEW b \in Batches,
         NEW status \in {"success", "error", "timeout", "lost", "cancelled"}, NEW row \in {"none", "ok", "error"},
         Answer(b, status, row), UNCHANGED <<stop, cancels, server, orphans, landed>>,
         guard[b] \notin {"none", "cancel"},
         status = "success" => row = "ok" /\ work[b] = "success",
         status \in {"timeout", "lost", "cancelled"} => row = "error",
         status = "cancelled" => stop[b] = "landed",
         status \notin {"timeout", "cancelled"} => work[b] # "sent",
         status \notin {"timeout", "lost", "cancelled"} => work[b] # "lost",
         row = "none" => status = "error" /\ guard[b] = "resolve"
  PROVE  Inv'
<1> DEFINE n == run[b].n
           Statuses == {"none", "success", "error", "timeout", "lost", "cancelled", "skipped"}
<1>1. /\ n \in Index /\ n + 1 \in 1 .. Size + 1
      /\ run[b].at \in {"run", "stopping"} /\ guard[b] # "none" /\ ~cancels[b]
  BY DEF Inv, TypeOK, RunState, LayersAgree, Index
<1>2. run \in [Batches -> RunState] /\ results \in [Batches -> [Index -> Statuses]]
      /\ entry \in [Batches -> [Index -> {"none", "ok", "error"}]]
  BY DEF Inv, TypeOK
<1>3. Halts(status, run[b].stopOnError) \in BOOLEAN
  BY DEF Halts
<1>4. /\ run' \in [Batches -> RunState]
      /\ \A a \in Batches :
           /\ run'[a].at = IF a = b THEN "loop" ELSE run[a].at
           /\ run'[a].n = IF a = b THEN n + 1 ELSE run[a].n
           /\ run'[a].halted = IF a = b THEN Halts(status, run[b].stopOnError) ELSE run[a].halted
           /\ run'[a].stopOnError = run[a].stopOnError
  <2>1. run' = [run EXCEPT ![b] = [@ EXCEPT !.at = "loop", !.n = n + 1, !.halted = Halts(status, run[b].stopOnError)]]
    BY DEF Answer
  <2> HIDE DEF n
  <2> DEFINE new == [run[b] EXCEPT !.at = "loop", !.n = n + 1, !.halted = Halts(status, run[b].stopOnError)]
  <2>2. /\ new \in RunState /\ new.at = "loop" /\ new.n = n + 1 /\ new.stopOnError = run[b].stopOnError
        /\ new.halted = Halts(status, run[b].stopOnError)
    BY <1>1, <1>2, <1>3 DEF RunState
  <2>3. run' = [run EXCEPT ![b] = new]
    BY <2>1
  <2> HIDE DEF new
  <2>4. run' \in [Batches -> RunState] /\ \A a \in Batches : run'[a] = IF a = b THEN new ELSE run[a]
    BY <1>2, <2>2, <2>3
  <2> QED
    BY <2>2, <2>4
<1>5. /\ results' \in [Batches -> [Index -> Statuses]]
      /\ \A a \in Batches, i \in Index : results'[a][i] = IF a = b /\ i = n THEN status ELSE results[a][i]
  <2>1. results' = [results EXCEPT ![b][n] = status]
    BY DEF Answer
  <2> HIDE DEF n
  <2> QED
    BY <1>1, <1>2, <2>1
<1>6. /\ entry' \in [Batches -> [Index -> {"none", "ok", "error"}]]
      /\ \A a \in Batches, i \in Index : entry'[a][i] = IF a = b /\ i = n THEN row ELSE entry[a][i]
  <2>1. entry' = [entry EXCEPT ![b][n] = row]
    BY DEF Answer
  <2> HIDE DEF n
  <2> QED
    BY <1>1, <1>2, <2>1
<1>7. results[b][n] = "none" /\ entry[b][n] = "none"
  BY <1>1 DEF Inv, ReportsAreInOrder, TypeOK, RunState
<1>8. TypeOK'
  BY <1>4, <1>5, <1>6 DEF Inv, TypeOK, Answer
<1>9. OneRunAtATime'
  BY <1>1, <1>4 DEF Inv, OneRunAtATime, InFlight
<1>10. LayersAgree'
  BY <1>1, <1>4 DEF Inv, TypeOK, LayersAgree, Answer
<1>11. ReportsAreInOrder'
  <2> SUFFICES ASSUME NEW a \in Batches, NEW i \in Index
               PROVE  /\ i >= run'[a].n => results'[a][i] = "none" /\ entry'[a][i] = "none"
                      /\ results'[a][i] \in {"cancelled", "timeout", "lost"} => entry'[a][i] = "error"
    BY DEF ReportsAreInOrder
  <2>1. CASE a = b /\ i = n
    BY <1>1, <1>4, <1>5, <1>6, <2>1 DEF Index
  <2>2. CASE a = b /\ i # n
    <3>1. i >= n + 1 => i >= n
      BY <1>1 DEF Index
    <3>2. run'[b].n = n + 1 /\ results'[b][i] = results[b][i] /\ entry'[b][i] = entry[b][i]
      BY <1>4, <1>5, <1>6, <2>2
    <3>3. /\ i >= n => results[b][i] = "none" /\ entry[b][i] = "none"
          /\ results[b][i] \in {"cancelled", "timeout", "lost"} => entry[b][i] = "error"
      BY DEF Inv, ReportsAreInOrder
    <3> HIDE DEF n
    <3> QED
      BY <2>2, <3>1, <3>2, <3>3
  <2>3. CASE a # b
    <3>1. run'[a].n = run[a].n /\ results'[a][i] = results[a][i] /\ entry'[a][i] = entry[a][i]
      BY <1>4, <1>5, <1>6, <2>3
    <3>2. /\ i >= run[a].n => results[a][i] = "none" /\ entry[a][i] = "none"
          /\ results[a][i] \in {"cancelled", "timeout", "lost"} => entry[a][i] = "error"
      BY DEF Inv, ReportsAreInOrder
    <3> QED
      BY <3>1, <3>2
  <2> QED
    BY <2>1, <2>2, <2>3
<1>12. ServerWorkIsKnown'
  <2>1. \A a \in Batches : /\ work'[a] = IF a = b THEN "none" ELSE work[a]
                           /\ a # b => run'[a].n = run[a].n
    BY <1>4 DEF Inv, TypeOK, Answer
  <2>2. /\ server # Nothing => server \in Batches \X Index
        /\ orphans \subseteq Batches \X Index /\ landed \subseteq Batches \X Index
    BY DEF Inv, TypeOK
  <2>3. ASSUME NEW s \in Batches \X Index, s # <<b, n>>
        PROVE  /\ s[1] \in Batches
               /\ results'[s[1]][s[2]] = Result(s) /\ entry'[s[1]][s[2]] = Entry(s)
               /\ Current(s[1]) = s => s[1] # b /\ run'[s[1]].n = s[2]
    <3>1. s[1] \in Batches /\ s[2] \in Index /\ ~(s[1] = b /\ s[2] = n)
      BY <2>3
    <3>2. results'[s[1]][s[2]] = Result(s) /\ entry'[s[1]][s[2]] = Entry(s)
      BY <1>5, <1>6, <3>1 DEF Result, Entry
    <3>3. Current(s[1]) = s => s[1] # b /\ run'[s[1]].n = s[2]
      <4> SUFFICES ASSUME Current(s[1]) = s PROVE s[1] # b /\ run'[s[1]].n = s[2]
        OBVIOUS
      <4>1. s[2] = run[s[1]].n
        BY DEF Current
      <4>2. s[1] # b
        BY <3>1, <4>1
      <4>3. run'[s[1]].n = run[s[1]].n
        BY <2>1, <3>1, <4>2
      <4> QED
        BY <4>1, <4>2, <4>3
    <3> QED
      BY <3>1, <3>2, <3>3
  <2>4. results'[b][n] = status /\ entry'[b][n] = row /\ Result(<<b, n>>) = "none" /\ Entry(<<b, n>>) = "none"
    BY <1>1, <1>5, <1>6, <1>7 DEF Result, Entry
  <2>5. server # Nothing => \/ work'[server[1]] = "sent" /\ run'[server[1]].n = server[2]
                            \/ results'[server[1]][server[2]] \in {"cancelled", "timeout"}
    <3>1. CASE server = <<b, n>>
      BY <2>4, <3>1 DEF Inv, ServerWorkIsKnown, Awaits
    <3>2. CASE server # <<b, n>>
      BY <2>1, <2>2, <2>3, <3>2 DEF Inv, ServerWorkIsKnown, Awaits
    <3> QED
      BY <3>1, <3>2
  <2>6. ASSUME NEW s \in orphans
        PROVE  \/ work'[s[1]] = "lost" /\ run'[s[1]].n = s[2]
               \/ results'[s[1]][s[2]] \in {"cancelled", "timeout", "lost"}
    <3>1. CASE s = <<b, n>>
      BY <2>4, <3>1 DEF Inv, ServerWorkIsKnown
    <3>2. CASE s # <<b, n>>
      BY <2>1, <2>2, <2>3, <3>2 DEF Inv, ServerWorkIsKnown
    <3> QED
      BY <3>1, <3>2
  <2>7. \A a \in Batches : work'[a] = "success" => <<a, run'[a].n>> \in landed
    <3> SUFFICES ASSUME NEW a \in Batches, work'[a] = "success" PROVE <<a, run'[a].n>> \in landed
      OBVIOUS
    <3>1. a # b /\ work[a] = "success"
      BY <2>1
    <3>2. Current(a) \in landed /\ run'[a].n = run[a].n
      BY <2>1, <3>1 DEF Inv, ServerWorkIsKnown
    <3> QED
      BY <3>2 DEF Current
  <2>8. ASSUME NEW s \in landed
        PROVE  \/ work'[s[1]] \in {"success", "lost"} /\ run'[s[1]].n = s[2]
               \/ entry'[s[1]][s[2]] # "none"
    <3>1. CASE s = <<b, n>>
      <4>1. work[b] # "none"
        BY <2>4, <3>1 DEF Inv, ServerWorkIsKnown
      <4>2. row # "none"
        BY <4>1 DEF Inv, LayersAgree
      <4> QED
        BY <2>4, <3>1, <4>2
    <3>2. CASE s # <<b, n>>
      BY <2>1, <2>2, <2>3, <3>2 DEF Inv, ServerWorkIsKnown
    <3> QED
      BY <3>1, <3>2
  <2>9. \A s \in Batches \X Index : s = <<s[1], s[2]>>
    OBVIOUS
  <2> QED
    BY <2>2, <2>5, <2>6, <2>7, <2>8, <2>9 DEF ServerWorkIsKnown, Awaits, Current, Result, Entry
<1>13. HaltIsKept'
  <2> SUFFICES ASSUME NEW a \in Batches, NEW i \in Index, Halts(results'[a][i], run'[a].stopOnError)
               PROVE  run'[a].at \in {"loop", "done"} /\ (run'[a].at = "loop" => run'[a].halted)
    BY DEF HaltIsKept
  <2>1. CASE a = b /\ i = n
    BY <1>4, <1>5, <2>1 DEF Halts
  <2>2. CASE ~(a = b /\ i = n)
    <3>1. Halts(results[a][i], run[a].stopOnError)
      BY <1>4, <1>5, <2>2 DEF Halts
    <3>2. a # b
      BY <1>1, <3>1 DEF Inv, HaltIsKept
    <3> QED
      BY <1>4, <3>1, <3>2 DEF Inv, HaltIsKept, Halts
  <2> QED
    BY <2>1, <2>2
<1>14. SuccessesLanded'
  BY DEF Inv, TypeOK, SuccessesLanded, ServerWorkIsKnown, LayersAgree, Current, Result, Entry, Answer, Index
<1>15. HaltedBatchesSkipTheRest'
  <2>1. ASSUME NEW a \in Batches, NEW i \in Index, Halts(results'[a][i], run'[a].stopOnError), NEW j \in Index, i < j
        PROVE  results'[a][j] \in {"none", "skipped"} /\ ~(run'[a].n = j /\ guard'[a] # "none")
    <3>1. j \in Index /\ j # i /\ j > i
      BY <2>1 DEF Index
    <3>2. guard'[a] = "none"
      BY <1>10, <1>13, <2>1 DEF LayersAgree, HaltIsKept
    <3>3. CASE a = b /\ i = n
      <4>1. results[b][j] = "none"
        BY <1>1, <3>1, <3>3 DEF Inv, ReportsAreInOrder, Index
      <4> QED
        BY <1>5, <3>1, <3>2, <3>3, <4>1
    <3>4. CASE ~(a = b /\ i = n)
      <4>1. Halts(results[a][i], run[a].stopOnError)
        BY <1>4, <1>5, <2>1, <3>4 DEF Halts
      <4>2. a # b
        BY <1>1, <4>1 DEF Inv, HaltIsKept
      <4>3. results[a][j] \in {"none", "skipped"}
        BY <2>1, <4>1 DEF Inv, HaltedBatchesSkipTheRest, Halts
      <4> QED
        BY <1>5, <3>1, <3>2, <4>2, <4>3
    <3> QED
      BY <3>3, <3>4
  <2>2. \A a \in Batches, i \in Index : results'[a][i] = "cancelled" => stop[a] = "landed"
    BY <1>5 DEF Inv, HaltedBatchesSkipTheRest, Halts
  <2>3. \A a \in Batches, i \in Index : results'[a][i] = "skipped" => entry'[a][i] = "none" /\ <<a, i>> \notin landed
    BY <1>5, <1>6 DEF Inv, HaltedBatchesSkipTheRest, Halts
  <2> QED
    BY <2>1, <2>2, <2>3 DEF HaltedBatchesSkipTheRest, Halts
<1> QED
  BY <1>8, <1>9, <1>10, <1>11, <1>12, <1>13, <1>14, <1>15 DEF Inv

(* The invariant is kept when the race begins, or cannot. *)
LEMMA ResolveStep ==
  ASSUME Inv, NEW b \in Batches, Resolve(b)
  PROVE  Inv'
<1>1. CASE Answer(b, "error", "none")
  <2>1. guard[b] = "resolve" /\ work[b] = "none"
    BY DEF Inv, LayersAgree, Resolve
  <2> QED
    BY <1>1, <2>1, AnswerStep DEF Resolve
<1>2. CASE guard' = [guard EXCEPT ![b] = "race"] /\ work' = [work EXCEPT ![b] = "slot"] /\ UNCHANGED <<run, told, results, entry>>
  <2>1. TypeOK'
    BY <1>2 DEF Inv, TypeOK, Resolve
  <2>2. OneRunAtATime' /\ ReportsAreInOrder' /\ HaltIsKept' /\ SuccessesLanded'
    BY <1>2 DEF Inv, OneRunAtATime, InFlight, ReportsAreInOrder, HaltIsKept, Halts, SuccessesLanded,
        Result, Entry, Resolve
  <2>3. LayersAgree'
    BY <1>2 DEF Inv, TypeOK, LayersAgree, Resolve
  <2>4. ServerWorkIsKnown'
    BY <1>2 DEF Inv, TypeOK, ServerWorkIsKnown, LayersAgree, Awaits, Current, Result, Entry, Resolve
  <2>5. HaltedBatchesSkipTheRest'
    BY <1>2, <2>2, <2>3, HaltsAreUndisturbed DEF Resolve
  <2> QED
    BY <2>1, <2>2, <2>3, <2>4, <2>5 DEF Inv
<1> QED
  BY <1>1, <1>2 DEF Resolve

(* The invariant is kept when the handler is done, or dropped. *)
LEMMA ReturnStep ==
  ASSUME Inv, NEW b \in Batches, Reply(b) \/ TimeOut(b) \/ GraceOver(b)
  PROVE  Inv'
<1>1. guard[b] = "grace" => stop[b] = "landed"
  BY DEF Inv, LayersAgree
<1>2. CASE Reply(b) /\ guard[b] = "race"
  BY <1>2, AnswerStep DEF Reply
<1>3. CASE Reply(b) /\ guard[b] = "grace"
  BY <1>1, <1>3, AnswerStep DEF Reply
<1>4. CASE TimeOut(b)
  BY <1>4, AnswerStep DEF TimeOut
<1>5. CASE GraceOver(b)
  BY <1>1, <1>5, AnswerStep DEF GraceOver
<1> QED
  BY <1>2, <1>3, <1>4, <1>5 DEF Reply, Polled

(* The invariant is kept when the backend ends its statement, whether by itself or by a cancel. *)
LEMMA ServerEndsStep ==
  ASSUME Inv, server # Nothing, NEW outcome \in {"success", "error"}, ServerEnds(outcome),
         UNCHANGED <<run, stop, told, orphans, results, entry>>,
         \/ UNCHANGED <<guard, cancels>>
         \/ \E b \in Batches : cancels[b] /\ AfterCancel(b)
  PROVE  Inv'
<1>1. TypeOK'
  <2>1. server' = Nothing /\ landed' \in {landed, landed \cup {server}}
    BY DEF ServerEnds
  <2>2. server \in Batches \X Index /\ landed \subseteq Batches \X Index
    BY DEF Inv, TypeOK
  <2>3. landed' \subseteq Batches \X Index
    BY <2>1, <2>2
  <2>4. work' \in [Batches -> {"none", "slot", "drain", "sent", "success", "error", "lost"}]
    <3>1. work' = [b \in Batches |-> IF Awaits(b, server) THEN outcome ELSE work[b]]
      BY DEF ServerEnds
    <3>2. \A b \in Batches : work[b] \in {"none", "slot", "drain", "sent", "success", "error", "lost"}
      BY DEF Inv, TypeOK
    <3> QED
      BY <3>1, <3>2
  <2>5. /\ guard' \in [Batches -> {"none", "resolve", "race", "cancel", "grace"}]
        /\ cancels' \in [Batches -> BOOLEAN]
    <3>1. guard \in [Batches -> {"none", "resolve", "race", "cancel", "grace"}] /\ cancels \in [Batches -> BOOLEAN]
      BY DEF Inv, TypeOK
    <3>2. CASE UNCHANGED <<guard, cancels>>
      BY <3>1, <3>2
    <3>3. ASSUME NEW b \in Batches, AfterCancel(b)
          PROVE  /\ guard' \in [Batches -> {"none", "resolve", "race", "cancel", "grace"}]
                 /\ cancels' \in [Batches -> BOOLEAN]
      <4>1. cancels' = [cancels EXCEPT ![b] = FALSE] /\ (guard' = guard \/ guard' = [guard EXCEPT ![b] = "grace"])
        BY <3>3 DEF AfterCancel
      <4>2. cancels' \in [Batches -> BOOLEAN]
        BY <3>1, <4>1
      <4>3. guard' \in [Batches -> {"none", "resolve", "race", "cancel", "grace"}]
        BY <3>1, <4>1
      <4> QED
        BY <4>2, <4>3
    <3> QED
      BY <3>2, <3>3
  <2> QED
    BY <2>1, <2>3, <2>4, <2>5 DEF Inv, TypeOK
<1>2. OneRunAtATime' /\ ReportsAreInOrder' /\ HaltIsKept'
  BY DEF Inv, OneRunAtATime, InFlight, ReportsAreInOrder, HaltIsKept, Halts
<1>3. LayersAgree'
  BY DEF Inv, TypeOK, LayersAgree, ServerEnds, AfterCancel, Awaits
<1>4. ServerWorkIsKnown'
  <2>1. /\ server' = Nothing
        /\ landed' \in {landed, landed \cup {server}} /\ (outcome = "success" => server \in landed')
        /\ \A a \in Batches : work'[a] = IF Awaits(a, server) THEN outcome ELSE work[a]
    BY DEF ServerEnds
  <2>2. \A a \in Batches : work'[a] = "success" => Current(a) \in landed'
    BY <2>1 DEF Inv, ServerWorkIsKnown, Awaits
  <2>3. ASSUME NEW s \in landed'
        PROVE  (work'[s[1]] \in {"success", "lost"} /\ Current(s[1]) = s) \/ Entry(s) # "none"
    <3>1. s \in Batches \X Index /\ s[1] \in Batches /\ s[2] \in Index /\ s = <<s[1], s[2]>>
      BY <1>1, <2>3 DEF TypeOK
    <3>2. CASE s \in landed
      <4>1. Awaits(s[1], server) => work[s[1]] \notin {"success", "lost"}
        BY DEF Awaits
      <4> QED
        BY <2>1, <3>1, <3>2, <4>1 DEF Inv, ServerWorkIsKnown
    <3>3. CASE s \notin landed
      <4>1. s = server /\ outcome = "success"
        BY <2>3, <3>3 DEF ServerEnds
      <4>2. CASE Awaits(s[1], s)
        BY <2>1, <3>1, <4>1, <4>2 DEF Awaits
      <4>3. CASE Result(s) \in {"cancelled", "timeout"}
        BY <3>1, <4>3 DEF Inv, ReportsAreInOrder, Result, Entry
      <4> QED
        BY <4>1, <4>2, <4>3 DEF Inv, ServerWorkIsKnown
    <3> QED
      BY <3>2, <3>3
  <2>4. UNCHANGED run /\ UNCHANGED results /\ UNCHANGED entry
    OBVIOUS
  <2>5. \A s \in orphans' : \/ work'[s[1]] = "lost" /\ Current(s[1]) = s
                            \/ Result(s) \in {"cancelled", "timeout", "lost"}
    <3>1. \A s \in orphans : s[1] \in Batches
      BY DEF Inv, TypeOK
    <3> QED
      BY <2>1, <3>1 DEF Inv, ServerWorkIsKnown, Awaits
  <2> QED
    BY <2>1, <2>2, <2>3, <2>4, <2>5 DEF ServerWorkIsKnown, Awaits, Current, Entry, Result
<1>5. SuccessesLanded'
  BY DEF Inv, SuccessesLanded, ServerEnds, Result, Entry
<1>6. HaltedBatchesSkipTheRest'
  <2>1. ASSUME NEW a \in Batches, NEW i \in Index, results[a][i] = "skipped"
        PROVE  <<a, i>> \notin landed'
    <3>1. Result(<<a, i>>) = "skipped" /\ <<a, i>> \notin landed
      BY <2>1 DEF Inv, HaltedBatchesSkipTheRest, Halts, Result
    <3>2. SUFFICES ASSUME server = <<a, i>> PROVE FALSE
      BY <3>1 DEF ServerEnds
    <3>3. run[a].n = i /\ work[a] = "sent"
      BY <3>1, <3>2 DEF Inv, ServerWorkIsKnown, Awaits, Current
    <3> QED
      BY <2>1, <3>3 DEF Inv, TypeOK, ReportsAreInOrder, RunState, Index
  <2>2. \A a \in Batches : guard'[a] = "none" <=> guard[a] = "none"
    BY <1>2, <1>3 DEF Inv, LayersAgree
  <2> QED
    BY <2>1, <2>2 DEF Inv, HaltedBatchesSkipTheRest, Halts
<1> QED
  BY <1>1, <1>2, <1>3, <1>4, <1>5, <1>6 DEF Inv

(* Every step keeps the invariant. *)
LEMMA StepInv == Inv /\ [Next]_vars => Inv'
<1> SUFFICES ASSUME Inv, [Next]_vars PROVE Inv'
  OBVIOUS
<1>1. CASE UNCHANGED vars
  BY <1>1 DEF vars, Inv, TypeOK, OneRunAtATime, InFlight, LayersAgree, ReportsAreInOrder, ServerWorkIsKnown,
      HaltIsKept, SuccessesLanded, HaltedBatchesSkipTheRest, Halts, Awaits, Current, Result, Entry
<1>2. CASE ServerAnswers
  BY <1>2, ServerEndsStep DEF ServerAnswers
<1>5. CASE OrphanEnds
  BY <1>5, OrphanEndsStep
<1>3. ASSUME NEW b \in Batches, ClientStep(b)
      PROVE  Inv'
  <2>1. CASE CancelArrives(b)
    BY <2>1, ServerEndsStep DEF CancelArrives, AfterCancel
  <2> QED
    BY <1>3, <2>1, PlanStep, SkipStep, StartStatementStep, FinishStep, NoticeStopStep, StopAgainStep,
        ResolveStep,
        ReturnStep, SeeStopStep, CancelMissesStep DEF ClientStep
<1>4. ASSUME NEW b \in Batches,
             \/ StartRun(b) \/ PressStop(b) \/ TimeOut(b) \/ TakeSlot(b) \/ TakeBusySlot(b) \/ TakeNewSlot(b)
             \/ SlotFails(b) \/ Send(b) \/ Lose(b)
      PROVE  Inv'
  BY <1>4, StartRunStep, PressStopStep, ReturnStep, TakeSlotStep, TakeBusySlotStep, TakeNewSlotStep, SlotFailsStep,
      SendStep, LoseStep
<1> QED
  BY <1>1, <1>2, <1>3, <1>4, <1>5 DEF Next

(* The inductive invariant holds in every reachable state. *)
THEOREM InvHolds == Spec => []Inv
<1> QED
  BY InitInv, StepInv, PTL DEF Spec

(* Type correctness of the run of a script. *)
THEOREM TypeCorrect == Spec => []TypeOK
<1>1. Inv => TypeOK
  BY DEF Inv
<1> QED
  BY <1>1, InvHolds, PTL

(* A statement reported as a success is one the server completed, and handed   *)
(* to the history log as such: the late answer of a dropped statement, or of   *)
(* one on a lost connection, is never taken for it.                            *)
THEOREM SuccessesAreReal == Spec => []SuccessesLanded
<1>1. Inv => SuccessesLanded
  BY DEF Inv
<1> QED
  BY <1>1, InvHolds, PTL

(* After a cancelled statement, or a failed one with stop_on_error, nothing of *)
(* the script reaches the server.                                              *)
THEOREM HaltsAreKept == Spec => []HaltedBatchesSkipTheRest
<1>1. Inv => HaltedBatchesSkipTheRest
  BY DEF Inv
<1> QED
  BY <1>1, InvHolds, PTL

(* Whatever reached the server was handed to the history log once its run has  *)
(* the answer; whether the store keeps it is not part of the claim.            *)
THEOREM HistoryIsHandedAll == Spec => []ServerWorkComesToTheLog
<1>1. Inv => ServerWorkComesToTheLog
  BY DEF Inv, TypeOK, ServerWorkComesToTheLog, ServerWorkIsKnown, ReportsAreInOrder, LayersAgree, Awaits,
      Current, Result, Entry, Index
<1> QED
  BY <1>1, InvHolds, PTL

(* The cancel of a run ends its own statement or a dropped one, never a later run's. *)
THEOREM CancelsAreAimed == Spec => CancelsSpareLaterRuns
<1>1. Inv /\ [Next]_vars =>
        [\A b \in Batches : cancels[b] /\ ~cancels'[b] /\ server' # server =>
           server = Current(b) \/ Result(server) \in {"cancelled", "timeout"}]_vars
  <2> SUFFICES ASSUME Inv, Next, NEW b \in Batches, cancels[b], ~cancels'[b], server' # server,
                      Result(server) \notin {"cancelled", "timeout"}
               PROVE  server = Current(b)
    OBVIOUS
  <2>1. PICK c \in Batches : CancelArrives(c)
    BY DEF Inv, TypeOK, Next, ClientStep, StartRun, PressStop, TimeOut, TakeSlot, TakeBusySlot, TakeNewSlot,
        SlotFails, Send, Lose, OrphanEnds, Plan, Skip,
        StartStatement, Finish, NoticeStop, StopAgain, Resolve, Reply, SeeStop, GraceOver, CancelMisses, ServerAnswers
  <2>2. server \in Batches \X Index /\ server[1] \in Batches
    BY <2>1 DEF Inv, TypeOK, CancelArrives
  <2>3. work[server[1]] = "sent" /\ Current(server[1]) = server
    BY <2>1 DEF Inv, ServerWorkIsKnown, Awaits, CancelArrives
  <2>4. InFlight(server[1]) /\ InFlight(b)
    BY <2>2, <2>3 DEF Inv, LayersAgree, InFlight
  <2> QED
    BY <2>2, <2>3, <2>4 DEF Inv, OneRunAtATime
<1> QED
  BY <1>1, InvHolds, PTL DEF Spec, CancelsSpareLaterRuns

=============================================================================
