----------------------- MODULE WorkflowScheduleProofs -----------------------
(***************************************************************************)
(* The claims of WorkflowSchedule for every number of schedules, fires,    *)
(* intervals, saves and restarts.  The invariant `Inv` speaks of the book  *)
(* (what the store, the mark and the clock say of the table) and of the    *)
(* tasks; no step of a task touches the book, and of the steps of the book *)
(* only a poll and a save touch tasks.                                     *)
(***************************************************************************)
EXTENDS WorkflowSchedule, TLAPS

USE IntervalsArePositive, AbsentIsNoInterval, LeapsArePositive, RescanIsPositive,
    HorizonIsFar, TasksDiffer, MaxOpsIsNatural

-----------------------------------------------------------------------------
(* The types of what the steps compute *)

Timers == [every : Intervals \cup {0}, left : Nat]
TaskState == [at : {"ended", "taken", "active", "clear", "running"},
              node : SUBSET Nodes, blind : SUBSET Tasks, quiet : BOOLEAN]

(* Intervals, and 0 for none, are numbers.                                  *)
LEMMA IntervalsAreNat == Intervals \cup {0} \subseteq Nat
  BY IntervalsArePositive

LEMMA IntervalsAreShort == \A i \in Intervals \cup {0} : i <= Horizon
  BY IntervalsArePositive, HorizonIsFar

(* What a node wants to fire at is an interval or nothing.                  *)
LEMMA WantedType ==
  ASSUME TypeOK, NEW n \in Nodes
  PROVE  Wanted(n) \in Intervals \cup {0} /\ Wanted(n) \in Nat
<1>1. CASE stored = Gone
  BY <1>1 DEF Gone, Wanted, Scheduled
<1>2. CASE stored \in Documents
  <2>1. stored.every[n] \in Intervals \cup {0, Absent}
    BY <1>2 DEF Documents
  <2>2. Wanted(n) \in Intervals \cup {0}
    BY <2>1 DEF Wanted, Scheduled
  <2> QED
    BY <2>2, IntervalsAreNat
<1> QED
  BY <1>1, <1>2 DEF TypeOK

LEMMA WantedTypeNext ==
  ASSUME TypeOK', NEW n \in Nodes
  PROVE  Wanted(n)' \in Intervals \cup {0} /\ Wanted(n)' \in Nat
<1>1. CASE stored' = Gone
  BY <1>1 DEF Gone, Wanted, Scheduled
<1>2. CASE stored' \in Documents
  <2>1. stored'.every[n] \in Intervals \cup {0, Absent}
    BY <1>2 DEF Documents
  <2>2. Wanted(n)' \in Intervals \cup {0}
    BY <2>1 DEF Wanted, Scheduled
  <2> QED
    BY <2>2, IntervalsAreNat
<1> QED
  BY <1>1, <1>2 DEF TypeOK

(* What `apply` arms: an unchanged timer, or one that starts now.           *)
LEMMA ApplyTable ==
  ASSUME TypeOK
  PROVE  /\ Apply \in [Nodes -> Timers]
         /\ \A n \in Nodes :
              /\ Apply[n].every = seen[n]
              /\ armed[n].every = seen[n] => Apply[n] = armed[n]
              /\ armed[n].every # seen[n] => Apply[n].left = seen[n]
<1>1. armed \in [Nodes -> Timers] /\ seen \in [Nodes -> Intervals \cup {0}]
  BY DEF TypeOK, Timers
<1>2. ASSUME NEW n \in Nodes
      PROVE  /\ Arm(seen[n]) \in Timers
             /\ Arm(seen[n]).every = seen[n] /\ Arm(seen[n]).left = seen[n]
  <2>1. seen[n] \in Intervals \cup {0}
    BY <1>1
  <2>2. seen[n] \in Nat
    BY <2>1, IntervalsAreNat
  <2> QED
    BY <2>1, <2>2 DEF Arm, Timers
<1> QED
  BY <1>1, <1>2 DEF Apply

(* What taking what is due does to the timers of a table and to the fires.  *)
LEMMA TakenTimers ==
  ASSUME TypeOK, NEW table \in [Nodes -> Timers], TakeDue(table)
  PROVE  /\ armed' \in [Nodes -> Timers]
         /\ since' \in [Nodes -> 0 .. Horizon]
         /\ \A n \in Nodes :
              /\ armed'[n].every = table[n].every
              /\ n \in Due(table) =>
                   table[n].every # 0 /\ armed'[n].left = table[n].every /\ since'[n] = 0
              /\ n \notin Due(table) =>
                   /\ armed'[n] = table[n] /\ since'[n] = since[n]
                   /\ table[n].every # 0 => table[n].left # 0
<1>1. ASSUME NEW n \in Nodes
      PROVE  /\ Arm(table[n].every) \in Timers
             /\ Arm(table[n].every).every = table[n].every
             /\ Arm(table[n].every).left = table[n].every
  <2>1. table[n].every \in Intervals \cup {0}
    BY DEF Timers
  <2>2. table[n].every \in Nat
    BY <2>1, IntervalsAreNat
  <2> QED
    BY <2>1, <2>2 DEF Arm, Timers
<1>2. /\ armed' = [n \in Nodes |-> IF n \in Due(table) THEN Arm(table[n].every) ELSE table[n]]
      /\ since' = [n \in Nodes |-> IF n \in Due(table) THEN 0 ELSE since[n]]
  BY DEF TakeDue
<1>3. since \in [Nodes -> 0 .. Horizon]
  BY DEF TypeOK
<1>4. armed' \in [Nodes -> Timers] /\ since' \in [Nodes -> 0 .. Horizon]
  BY <1>1, <1>2, <1>3
<1>5. ASSUME NEW n \in Nodes
      PROVE  n \in Due(table) <=> table[n].every # 0 /\ table[n].left = 0
  BY DEF Due
<1> QED
  BY <1>1, <1>2, <1>4, <1>5

(* A task that taking what is due changes is the new fire of one node.      *)
LEMMA TakenTasks ==
  ASSUME TypeOK, NEW table, TakeDue(table)
  PROVE  /\ task' \in [Tasks -> TaskState]
         /\ \A t \in Tasks :
              \/ task'[t] = task[t]
              \/ /\ task[t].at = "ended"
                 /\ \E n \in Nodes : /\ task'[t].at = "taken" /\ task'[t].node = {n}
                                     /\ task'[t].blind = {} /\ task'[t].quiet = ~Scheduled(n)
<1>1. PICK taken \in [Due(table) -> {t \in Fires : task[t].at = "ended"}] :
        task' = [t \in Tasks |->
            IF \E n \in Due(table) : taken[n] = t
            THEN LET n == CHOOSE n \in Due(table) : taken[n] = t
                 IN  [Ended EXCEPT !.at = "taken", !.node = {n}, !.quiet = ~Scheduled(n)]
            ELSE task[t]]
  BY DEF TakeDue
<1>2. task \in [Tasks -> TaskState] /\ Fires \subseteq Tasks
  BY DEF TypeOK, TaskState, Tasks
<1>3. ASSUME NEW t \in Tasks
      PROVE  /\ task'[t] \in TaskState
             /\ \/ task'[t] = task[t]
                \/ /\ task[t].at = "ended"
                   /\ \E n \in Nodes : /\ task'[t].at = "taken" /\ task'[t].node = {n}
                                       /\ task'[t].blind = {} /\ task'[t].quiet = ~Scheduled(n)
  <2>1. CASE \E n \in Due(table) : taken[n] = t
    <3> DEFINE m == CHOOSE n \in Due(table) : taken[n] = t
               fire == [Ended EXCEPT !.at = "taken", !.node = {m}, !.quiet = ~Scheduled(m)]
    <3>1. m \in Due(table) /\ taken[m] = t
      BY <2>1
    <3>2. task'[t] = fire
      BY <1>1, <2>1
    <3>3. m \in Nodes /\ task[t].at = "ended"
      BY <3>1, <1>1 DEF Due
    <3>4. Scheduled(m) \in BOOLEAN
      BY DEF Scheduled
    <3> HIDE DEF m
    <3>5. fire \in TaskState /\ fire.at = "taken" /\ fire.node = {m} /\ fire.blind = {}
      BY <3>3, <3>4 DEF Ended, TaskState
    <3>6. fire.quiet = ~Scheduled(m)
      BY DEF Ended
    <3> HIDE DEF fire
    <3> QED
      BY <3>2, <3>3, <3>5, <3>6
  <2>2. CASE ~\E n \in Due(table) : taken[n] = t
    BY <1>1, <1>2, <2>2
  <2> QED
    BY <2>1, <2>2
<1>4. task' = [t \in Tasks |-> task'[t]]
  BY <1>1
<1> QED
  BY <1>3, <1>4

-----------------------------------------------------------------------------
(* The types are kept *)

(* How a task ends, becomes and begins, for one task.                       *)
LEMMA TaskTypes ==
  ASSUME TypeOK, NEW t \in Tasks
  PROVE  /\ End(t) => task' \in [Tasks -> TaskState]
         /\ \A at \in {"active", "clear", "running"} : Become(t, at) => task' \in [Tasks -> TaskState]
         /\ \A entry \in TaskState : Register(t, entry) => task' \in [Tasks -> TaskState]
<1>1. task \in [Tasks -> TaskState] /\ Ended \in TaskState
  BY DEF TypeOK, TaskState, Ended
<1>2. ASSUME NEW u \in Tasks
      PROVE  /\ [task[u] EXCEPT !.blind = @ \ {t}] \in TaskState
             /\ [task[u] EXCEPT !.blind = @ \cup {t}] \in TaskState
             /\ \A at \in {"active", "clear", "running"} : [task[u] EXCEPT !.at = at] \in TaskState
  BY <1>1 DEF TaskState
<1>3. ASSUME End(t) PROVE task' \in [Tasks -> TaskState]
  BY <1>1, <1>2, <1>3 DEF End
<1>4. ASSUME NEW at \in {"active", "clear", "running"}, Become(t, at)
      PROVE  task' \in [Tasks -> TaskState]
  BY <1>1, <1>2, <1>4 DEF Become
<1>5. ASSUME NEW entry \in TaskState, Register(t, entry) PROVE task' \in [Tasks -> TaskState]
  BY <1>1, <1>2, <1>5 DEF Register
<1> QED
  BY <1>3, <1>4, <1>5

(* The types at the start.                                                  *)
LEMMA InitTypes == Init => TypeOK
<1>1. Init => age \in 0 .. Rescan /\ ops \in 0 .. MaxOps /\ since \in [Nodes -> 0 .. Horizon]
  BY DEF Init
<1>2. Ended \in TaskState
  BY DEF Ended, TaskState
<1>3. Init => task \in [Tasks -> TaskState]
  BY <1>2 DEF Init
<1>4. Unarmed \in Timers
  BY DEF Unarmed, Timers
<1>5. Init => armed \in [Nodes -> Timers]
  BY <1>4 DEF Init
<1>6. Init => seen \in [Nodes -> Intervals \cup {0}] /\ late \in [Nodes -> Nat] /\ poll \in PollStates
  BY DEF Init, PollStates
<1>7. Init => stored \in Documents \cup {Gone} /\ dirty \in BOOLEAN /\ missed \in BOOLEAN
  BY Zenon DEF Init
<1>8. Init => marks \in Nat
  BY DEF Init
<1> QED
  BY <1>1, <1>3, <1>5, <1>6, <1>7, <1>8 DEF TypeOK, TaskState, Timers

(* Every step keeps the types.                                              *)
LEMMA TypesAreKept ==
  ASSUME TypeOK, [Next]_vars
  PROVE  TypeOK'
<1> USE DEF TaskState
<1>1. ASSUME NEW doc \in Documents \cup {Gone}, Save(doc) PROVE TypeOK'
  <2>1. late' \in [Nodes -> Nat]
    BY <1>1 DEF Save, TypeOK
  <2>2. task' \in [Tasks -> TaskState]
    <3>1. ASSUME NEW t \in Tasks
          PROVE  [task[t] EXCEPT !.quiet = @ /\ \A n \in task[t].node : ~Scheduled(n)'] \in TaskState
      <4>1. task[t] \in TaskState
        BY DEF TypeOK
      <4>2. (task[t].quiet /\ \A n \in task[t].node : ~Scheduled(n)') \in BOOLEAN
        OBVIOUS
      <4> QED
        BY <4>1, <4>2
    <3> QED
      BY <3>1, <1>1 DEF Save
  <2>3. marks' \in Nat /\ ops' \in 0 .. MaxOps
    BY <1>1 DEF Save, TypeOK
  <2> QED
    BY <1>1, <2>1, <2>2, <2>3 DEF Save, TypeOK
<1>2. CASE Mark
  <2>1. marks' \in Nat
    BY <1>2 DEF Mark, TypeOK
  <2> QED
    BY <1>2, <2>1 DEF Mark, TypeOK
<1>3. ASSUME NEW time \in Leaps, Tick(time) PROVE TypeOK'
  <2>1. time \in Nat
    OBVIOUS
  <2>2. age' \in 0 .. Rescan
    BY <1>3, <2>1 DEF Tick, TypeOK, Least
  <2>3. armed' \in [Nodes -> Timers]
    <3>1. ASSUME NEW n \in Nodes PROVE [armed[n] EXCEPT !.left = Minus(@, time)] \in Timers
      <4>1. armed[n] \in Timers
        BY DEF TypeOK, Timers
      <4>2. Minus(armed[n].left, time) \in Nat
        <5>1. armed[n].left \in Nat
          BY <4>1 DEF Timers
        <5> QED
          BY <5>1, <2>1 DEF Minus
      <4> QED
        BY <4>1, <4>2 DEF Timers
    <3> QED
      BY <1>3, <3>1 DEF Tick
  <2>4. since' \in [Nodes -> 0 .. Horizon]
    <3>1. ASSUME NEW n \in Nodes PROVE Least(since[n] + time, Horizon) \in 0 .. Horizon
      <4>1. since[n] \in 0 .. Horizon
        BY DEF TypeOK
      <4> QED
        BY <2>1, <4>1 DEF Least
    <3> QED
      BY <1>3, <3>1 DEF Tick
  <2>5. poll' \in PollStates /\ dirty' \in BOOLEAN
    BY <1>3 DEF Tick, PollStates
  <2> QED
    BY <1>3, <2>2, <2>3, <2>4, <2>5 DEF Tick, TypeOK, Timers
<1>4. CASE Read
  <2>1. seen' \in [Nodes -> Intervals \cup {0}]
    BY <1>4, WantedType DEF Read
  <2> QED
    BY <1>4, <2>1 DEF Read, TypeOK, PollStates
<1>5. ASSUME NEW table \in [Nodes -> Timers], TakeDue(table)
      PROVE  /\ armed' \in [Nodes -> Timers]
             /\ since' \in [Nodes -> 0 .. Horizon]
             /\ task' \in [Tasks -> TaskState]
             /\ Waited(table) \in [Nodes -> Nat]
  <2>1. Waited(table) \in [Nodes -> Nat]
    BY DEF Waited, TypeOK
  <2> QED
    BY <1>5, <2>1, TakenTimers, TakenTasks
<1>6. CASE Update
  <2>1. seen' \in [Nodes -> Intervals \cup {0}] /\ poll' \in PollStates /\ age' \in 0 .. Rescan
    BY <1>6 DEF Update, PollStates
  <2> QED
    BY <1>5, <1>6, <2>1, ApplyTable DEF Update, TypeOK, Timers
<1>7. CASE ReadFails
  <2>1. armed \in [Nodes -> Timers]
    BY DEF TypeOK, Timers
  <2>2. late' \in [Nodes -> Nat] /\ poll' \in PollStates /\ ops' \in 0 .. MaxOps
    BY <1>7 DEF ReadFails, TypeOK, PollStates
  <2> QED
    BY <1>5, <1>7, <2>1, <2>2 DEF ReadFails, TypeOK, Timers
<1>8. CASE NoRead
  <2>1. armed \in [Nodes -> Timers] /\ poll' \in PollStates
    BY <1>8 DEF TypeOK, Timers, NoRead, PollStates
  <2> QED
    BY <1>5, <1>8, <2>1 DEF NoRead, TypeOK, Timers
<1>9. ASSUME NEW t \in Tasks, UnchangedBook, task' \in [Tasks -> TaskState] PROVE TypeOK'
  BY <1>9 DEF UnchangedBook, TypeOK
<1>10. ASSUME NEW t \in Fires, Fire(t) PROVE TypeOK'
  <2>1. t \in Tasks /\ task[t] \in TaskState
    BY DEF Tasks, TypeOK
  <2>2. [task[t] EXCEPT !.at = "running"] \in TaskState
    BY <2>1
  <2>3. UnchangedBook /\ task' \in [Tasks -> TaskState]
    BY <1>10, <2>1, <2>2, TaskTypes DEF Fire, Check, Ask, Begin
  <2> QED
    BY <1>9, <2>1, <2>3
<1>11. ASSUME NEW t \in Manuals, RunByHand(t) PROVE TypeOK'
  <2>1. t \in Tasks /\ [Ended EXCEPT !.at = "running", !.blind = Running] \in TaskState
    BY DEF Tasks, Running, Ended
  <2> QED
    BY <1>9, <1>11, <2>1, TaskTypes DEF RunByHand
<1>12. ASSUME NEW t \in Tasks, RunEnds(t) PROVE TypeOK'
  BY <1>9, <1>12, TaskTypes DEF RunEnds
<1>13. CASE Restart
  <2>1. /\ marks' \in Nat /\ age' \in 0 .. Rescan /\ ops' \in 0 .. MaxOps
        /\ armed' \in [Nodes -> Timers] /\ late' \in [Nodes -> Nat]
        /\ seen' \in [Nodes -> Intervals \cup {0}] /\ task' \in [Tasks -> TaskState]
    BY <1>13 DEF Restart, TypeOK, Timers, Unarmed, Ended
  <2> QED
    BY <1>13, <2>1 DEF Restart, TypeOK, Timers, PollStates
<1>14. CASE UNCHANGED vars
  BY <1>14 DEF vars, TypeOK
<1> QED
  BY <1>1, <1>2, <1>3, <1>4, <1>6, <1>7, <1>8, <1>10, <1>11, <1>12, <1>13, <1>14 DEF Next, Clock

-----------------------------------------------------------------------------
(* The book is kept: the table, the timers and the waits *)

(* What the book says of one node is made of numbers.                       *)
LEMMA NodeTypes ==
  ASSUME TypeOK, NEW n \in Nodes
  PROVE  /\ armed[n].every \in Nat /\ armed[n].left \in Nat
         /\ armed[n].every <= Horizon
         /\ since[n] \in Nat /\ since[n] <= Horizon
         /\ late[n] \in Nat /\ seen[n] \in Nat
         /\ Wanted(n) \in Nat /\ age \in Nat /\ age <= Rescan
         /\ Rescan \in Nat /\ Rescan > 0 /\ Horizon \in Nat
<1>1. armed \in [Nodes -> Timers]
  BY DEF TypeOK, Timers
<1>2. armed[n].every \in Intervals \cup {0} /\ armed[n].left \in Nat
  BY <1>1 DEF Timers
<1>3. armed[n].every \in Nat /\ armed[n].every <= Horizon
  BY <1>2, IntervalsAreNat, IntervalsAreShort
<1>4. since[n] \in 0 .. Horizon /\ late[n] \in Nat /\ age \in 0 .. Rescan
  BY DEF TypeOK
<1>5. seen[n] \in Intervals \cup {0}
  BY DEF TypeOK
<1>6. seen[n] \in Nat
  BY <1>5, IntervalsAreNat
<1> QED
  BY <1>2, <1>3, <1>4, <1>6, WantedType

(* The parts of the book's invariant that speak of one node, of the node's  *)
(* numbers alone.                                                           *)
Fits(at, old, every, left, want, read, wait, gap) ==
  /\ left <= every
  /\ at = "idle" /\ every # 0 => left # 0
  /\ every <= gap + left
  /\ want # 0 =>
       /\ every = want => wait + left <= Rescan + want + (IF at = "idle" THEN 1 ELSE 0)
       /\ every # want => wait <= Rescan /\ wait <= old + (IF at = "skip" THEN 0 ELSE 1)
       /\ at = "apply" /\ read # want => wait = 0

NodeFits(n) ==
  Fits(poll, age, armed[n].every, armed[n].left, Wanted(n), seen[n], late[n], since[n])

TimersInv == TimersRun /\ TimersAreSpaced /\ WaitsAreBounded

LEMMA BookByNode == TimersInv <=> (poll = "skip" => age < Rescan) /\ \A n \in Nodes : NodeFits(n)
  BY DEF TimersInv, TimersRun, TimersAreSpaced, WaitsAreBounded, NodeFits, Fits

LEMMA BookByNodeNext ==
  TimersInv' <=> (poll' = "skip" => age' < Rescan) /\ \A n \in Nodes : NodeFits(n)'
  BY DEF TimersInv, TimersRun, TimersAreSpaced, WaitsAreBounded, NodeFits, Fits

(* A save does not touch the timers, and a schedule it changes waits anew.  *)
LEMMA SaveKeepsTimers ==
  ASSUME TypeOK, TypeOK', TimersInv, NEW doc \in Documents \cup {Gone}, Save(doc)
  PROVE  TimersInv'
<1>1. ASSUME NEW n \in Nodes PROVE NodeFits(n)'
  <2>1. NodeFits(n)
    BY BookByNode
  <2>2. UNCHANGED <<armed, age, poll, seen, since>>
    BY DEF Save
  <2>3. late'[n] = IF Wanted(n)' = Wanted(n) THEN late[n] ELSE 0
    BY DEF Save
  <2>4. Wanted(n)' \in Nat
    BY WantedTypeNext
  <2>5. CASE Wanted(n)' = Wanted(n)
    BY <2>1, <2>2, <2>3, <2>5 DEF NodeFits, Fits
  <2>6. CASE Wanted(n)' # Wanted(n)
    BY <2>1, <2>2, <2>3, <2>4, <2>6, NodeTypes DEF NodeFits, Fits
  <2> QED
    BY <2>5, <2>6
<1> QED
  BY <1>1, BookByNode, BookByNodeNext DEF Save

(* The clock goes on by at least one: every timer that runs is nearer.      *)
LEMMA TickKeepsTimers ==
  ASSUME TypeOK, TypeOK', TimersInv, NEW time \in Leaps, Tick(time)
  PROVE  TimersInv'
<1>1. time \in Nat /\ time > 0
  OBVIOUS
<1>2. /\ poll = "idle" /\ poll' \in {"read", "skip"}
      /\ poll' = "skip" => age + time < Rescan
      /\ age' = Least(age + time, Rescan)
  <2>1. age + time \in Nat /\ Rescan \in Nat
    BY <1>1 DEF TypeOK
  <2> QED
    BY <2>1 DEF Tick, Stale
<1>3. ASSUME NEW n \in Nodes PROVE NodeFits(n)'
  <2>1. NodeFits(n)
    BY BookByNode
  <2>2. /\ armed'[n].every = armed[n].every
        /\ armed'[n].left = Minus(armed[n].left, time)
        /\ since'[n] = Least(since[n] + time, Horizon)
        /\ late'[n] = late[n] /\ seen'[n] = seen[n]
    <3>1. armed[n] \in Timers
      BY DEF TypeOK, Timers
    <3> QED
      BY <3>1 DEF Tick, Timers
  <2>3. Wanted(n)' = Wanted(n)
    BY DEF Tick, Wanted, Scheduled
  <2>4. /\ Minus(armed[n].left, time) \in Nat
        /\ Minus(armed[n].left, time) <= armed[n].left
        /\ armed[n].left # 0 => Minus(armed[n].left, time) + 1 <= armed[n].left
        /\ armed[n].left <= Minus(armed[n].left, time) + time
    BY <1>1, NodeTypes DEF Minus
  <2>5. /\ Least(since[n] + time, Horizon) \in Nat
        /\ Least(since[n] + time, Horizon) \in {since[n] + time, Horizon}
    BY <1>1, NodeTypes DEF Least
  <2>6. /\ age' \in Nat /\ age <= age'
        /\ poll' = "skip" => age + 1 <= age'
        /\ age < Rescan => age + 1 <= age'
    BY <1>1, <1>2, NodeTypes DEF Least
  <2> DEFINE l == Minus(armed[n].left, time)
             g == Least(since[n] + time, Horizon)
             w == Wanted(n)
  <2>7. l \in Nat /\ g \in Nat /\ w \in Nat
    BY <2>4, <2>5, NodeTypes
  <2> HIDE DEF l, g, w
  <2>8. l <= armed[n].every /\ armed[n].every <= g + l
    BY <1>1, <2>1, <2>4, <2>5, <2>7, NodeTypes DEF NodeFits, Fits, l, g
  <2>9. w # 0 /\ armed[n].every = w => late[n] + l <= Rescan + w
    <3>1. ASSUME w # 0, armed[n].every = w PROVE late[n] + l <= Rescan + w
      <4>1. late[n] + armed[n].left <= Rescan + w + 1 /\ armed[n].left # 0
        BY <1>2, <2>1, <3>1 DEF NodeFits, Fits, w
      <4>2. l + 1 <= armed[n].left
        BY <2>4, <4>1 DEF l
      <4> QED
        BY <2>7, <4>1, <4>2, NodeTypes
    <3> QED
      BY <3>1
  <2>10. w # 0 /\ armed[n].every # w =>
           late[n] <= Rescan /\ late[n] <= age' + (IF poll' = "skip" THEN 0 ELSE 1)
    <3>1. ASSUME w # 0, armed[n].every # w
          PROVE  late[n] <= Rescan /\ late[n] <= age' + (IF poll' = "skip" THEN 0 ELSE 1)
      <4>1. late[n] <= Rescan /\ late[n] <= age + 1
        BY <1>2, <2>1, <3>1 DEF NodeFits, Fits, w
      <4> QED
        BY <2>6, <4>1, NodeTypes
    <3> QED
      BY <3>1
  <2>11. Fits(poll', age', armed[n].every, l, w, seen[n], late[n], g)
    BY <1>2, <2>7, <2>8, <2>9, <2>10, NodeTypes DEF Fits
  <2> QED
    BY <2>2, <2>3, <2>11 DEF NodeFits, l, g, w
<1>4. poll' = "skip" => age' < Rescan
  <2>1. age \in Nat /\ Rescan \in Nat
    BY DEF TypeOK
  <2> QED
    BY <1>1, <1>2, <2>1 DEF Least
<1> QED
  BY <1>3, <1>4, BookByNodeNext

(* A node that has just fired.                                              *)
LEMMA JustFiredFits ==
  ASSUME NEW old \in Nat, NEW every \in Nat \ {0}, NEW want \in Nat, NEW read
  PROVE  Fits("idle", old, every, every, want, read, 0, 0)
  BY DEF Fits

(* A poll takes what is due and arms it from now; the table it takes it     *)
(* from (`apply`'s, or the one there was) must suit the poll that ends.     *)
LEMMA PollKeepsTimers ==
  ASSUME TypeOK, TypeOK', TimersInv,
         NEW table \in [Nodes -> Timers], TakeDue(table),
         poll' = "idle", stored' = stored, age' \in Nat,
         \A n \in Nodes :
           /\ table[n].left <= table[n].every
           /\ table[n].every <= since[n] + table[n].left
           /\ late'[n] = 0 \/ n \notin Due(table)
           /\ Wanted(n) # 0 /\ n \notin Due(table) =>
                /\ table[n].every = Wanted(n) => late'[n] + table[n].left <= Rescan + Wanted(n) + 1
                /\ table[n].every # Wanted(n) => late'[n] <= Rescan /\ late'[n] <= age' + 1
  PROVE  TimersInv'
<1>1. ASSUME NEW n \in Nodes PROVE NodeFits(n)'
  <2>1. Wanted(n)' = Wanted(n) /\ Wanted(n) \in Nat
    BY NodeTypes DEF Wanted, Scheduled
  <2>2. table[n].every \in Nat /\ table[n].left \in Nat /\ late'[n] \in Nat /\ since'[n] \in Nat
    <3>1. table[n].every \in Intervals \cup {0} /\ table[n].left \in Nat
      BY DEF Timers
    <3>2. late'[n] \in Nat /\ since'[n] \in 0 .. Horizon
      BY DEF TypeOK
    <3>3. table[n].every \in Nat
      BY <3>1, IntervalsAreNat
    <3>4. since'[n] \in Nat
      BY <3>2
    <3> QED
      BY <3>1, <3>2, <3>3, <3>4
  <2>3. CASE n \in Due(table)
    <3>1. /\ armed'[n].every = table[n].every /\ table[n].every # 0
          /\ armed'[n].left = table[n].every /\ since'[n] = 0 /\ late'[n] = 0
      BY <2>3, TakenTimers
    <3>2. Fits("idle", age', table[n].every, table[n].every, Wanted(n), seen'[n], 0, 0)
      BY <2>1, <2>2, <3>1, JustFiredFits
    <3> QED
      BY <2>1, <3>1, <3>2 DEF NodeFits
  <2>4. CASE n \notin Due(table)
    <3>1. /\ armed'[n] = table[n] /\ since'[n] = since[n]
          /\ table[n].every # 0 => table[n].left # 0
      BY <2>4, TakenTimers
    <3> QED
      BY <2>1, <2>2, <2>4, <3>1 DEF NodeFits, Fits
  <2> QED
    BY <2>3, <2>4
<1> QED
  BY <1>1, BookByNodeNext

(* The poll that read the workflows.                                        *)
LEMMA UpdateKeepsTimers ==
  ASSUME TypeOK, TypeOK', TimersInv, Update
  PROVE  TimersInv'
<1>1. /\ poll = "apply" /\ poll' = "idle" /\ stored' = stored /\ age' = 0
      /\ TakeDue(Apply) /\ late' = Waited(Apply)
  BY DEF Update
<1>2. Apply \in [Nodes -> Timers]
  BY ApplyTable
<1>3. ASSUME NEW n \in Nodes
      PROVE  /\ Apply[n].left <= Apply[n].every
             /\ Apply[n].every <= since[n] + Apply[n].left
             /\ late'[n] = 0 \/ n \notin Due(Apply)
             /\ Wanted(n) # 0 /\ n \notin Due(Apply) =>
                  /\ Apply[n].every = Wanted(n) => late'[n] + Apply[n].left <= Rescan + Wanted(n) + 1
                  /\ Apply[n].every # Wanted(n) => late'[n] <= Rescan /\ late'[n] <= age' + 1
  <2>1. NodeFits(n)
    BY BookByNode
  <2>2. late'[n] = IF Wanted(n) = 0 \/ n \in Due(Apply) THEN 0 ELSE late[n] + 1
    BY <1>1 DEF Waited
  <2>3. CASE armed[n].every = seen[n]
    <3>1. Apply[n].every = armed[n].every /\ Apply[n].left = armed[n].left
      BY <2>3, ApplyTable
    <3> QED
      BY <1>1, <2>1, <2>2, <2>3, <3>1, NodeTypes DEF NodeFits, Fits
  <2>4. CASE armed[n].every # seen[n]
    <3>1. Apply[n].every = seen[n] /\ Apply[n].left = seen[n]
      BY <2>4, ApplyTable
    <3> QED
      BY <1>1, <2>1, <2>2, <2>4, <3>1, NodeTypes DEF NodeFits, Fits
  <2> QED
    BY <2>3, <2>4
<1> QED
  BY <1>1, <1>2, <1>3, PollKeepsTimers

(* The poll whose read fails, and the one that reads nothing.               *)
LEMMA OtherPollsKeepTimers ==
  ASSUME TypeOK, TypeOK', TimersInv, ReadFails \/ NoRead
  PROVE  TimersInv'
<1>1. /\ poll \in {"read", "skip"} /\ poll' = "idle" /\ stored' = stored /\ age' = age
      /\ TakeDue(armed)
  BY DEF ReadFails, NoRead
<1>2. armed \in [Nodes -> Timers] /\ age \in Nat
  BY DEF TypeOK, Timers
<1>3. ASSUME NEW n \in Nodes
      PROVE  /\ armed[n].left <= armed[n].every
             /\ armed[n].every <= since[n] + armed[n].left
             /\ late'[n] = 0 \/ n \notin Due(armed)
             /\ Wanted(n) # 0 /\ n \notin Due(armed) =>
                  /\ armed[n].every = Wanted(n) => late'[n] + armed[n].left <= Rescan + Wanted(n) + 1
                  /\ armed[n].every # Wanted(n) => late'[n] <= Rescan /\ late'[n] <= age' + 1
  <2>1. NodeFits(n) /\ (poll = "skip" => age < Rescan)
    BY BookByNode
  <2>2. CASE ReadFails
    <3>1. poll = "read" /\ late'[n] = IF n \in Due(armed) THEN 0 ELSE late[n]
      BY <2>2 DEF ReadFails
    <3> QED
      BY <1>1, <2>1, <3>1, NodeTypes DEF NodeFits, Fits
  <2>3. CASE NoRead
    <3>1. poll = "skip" /\ late'[n] = IF Wanted(n) = 0 \/ n \in Due(armed) THEN 0 ELSE late[n] + 1
      BY <2>3 DEF NoRead, Waited
    <3> QED
      BY <1>1, <2>1, <3>1, NodeTypes DEF NodeFits, Fits
  <2> QED
    BY <2>2, <2>3
<1> QED
  BY <1>1, <1>2, <1>3, PollKeepsTimers

(* Reading, restarting and the start.                                       *)
LEMMA ReadKeepsTimers ==
  ASSUME TypeOK, TypeOK', TimersInv, Read
  PROVE  TimersInv'
<1>1. ASSUME NEW n \in Nodes PROVE NodeFits(n)'
  <2>1. NodeFits(n) /\ Wanted(n)' = Wanted(n) /\ seen'[n] = Wanted(n)
    BY BookByNode DEF Read, Wanted, Scheduled
  <2>2. poll = "read" /\ poll' = "apply" /\ UNCHANGED <<armed, age, late, since>>
    BY DEF Read
  <2> QED
    BY <2>1, <2>2 DEF NodeFits, Fits
<1>2. poll' = "apply"
  BY DEF Read
<1> QED
  BY <1>1, <1>2, BookByNodeNext

LEMMA RestartKeepsTimers ==
  ASSUME TypeOK, TypeOK', Restart
  PROVE  TimersInv'
<1>1. ASSUME NEW n \in Nodes PROVE NodeFits(n)'
  <2>1. /\ armed'[n].every = 0 /\ armed'[n].left = 0 /\ late'[n] = 0 /\ since'[n] = since[n]
        /\ poll' = "idle" /\ age' = Rescan
    BY DEF Restart, Unarmed
  <2>2. since[n] \in Nat /\ Rescan \in Nat
    BY NodeTypes
  <2>3. Wanted(n)' \in Nat
    BY WantedTypeNext
  <2> QED
    BY <2>1, <2>2, <2>3 DEF NodeFits, Fits
<1>2. poll' = "idle"
  BY DEF Restart
<1> QED
  BY <1>1, <1>2, BookByNodeNext

LEMMA InitTimers == Init => TimersInv
<1> SUFFICES ASSUME Init PROVE TimersInv
  OBVIOUS
<1>1. ASSUME NEW n \in Nodes PROVE NodeFits(n)
  <2>1. /\ armed[n].every = 0 /\ armed[n].left = 0 /\ late[n] = 0 /\ since[n] = Horizon
        /\ poll = "idle" /\ age = Rescan
    BY DEF Init, Unarmed
  <2>2. Wanted(n) \in Nat
    BY InitTypes, WantedType
  <2> QED
    BY <2>1, <2>2 DEF NodeFits, Fits
<1> QED
  BY <1>1, BookByNode DEF Init

(* What is read is marked, and the table follows the store.                 *)
TableInv == TableFollowsTheStore /\ ReadsAreMarked

LEMMA InitTable == Init => TableInv
  BY DEF Init, TableInv, TableFollowsTheStore, ReadsAreMarked

LEMMA TableIsKept ==
  ASSUME TypeOK, TypeOK', TableInv, [Next]_vars
  PROVE  TableInv'
<1> DEFINE Same == /\ UNCHANGED <<stored, marks, dirty, poll, seen, missed>>
                   /\ \A n \in Nodes : armed'[n].every = armed[n].every
<1>1. ASSUME Same PROVE TableInv'
  BY <1>1 DEF TableInv, TableFollowsTheStore, ReadsAreMarked, Wanted, Scheduled
<1>2. ASSUME NEW doc \in Documents \cup {Gone}, Save(doc) PROVE TableInv'
  <2>1. marks' # 0
    <3>1. marks \in Nat
      BY DEF TypeOK
    <3> QED
      BY <1>2, <3>1 DEF Save
  <2> QED
    BY <2>1 DEF TableInv, TableFollowsTheStore, ReadsAreMarked
<1>3. ASSUME Mark \/ Restart PROVE TableInv'
  <2>1. dirty'
    BY <1>3 DEF Mark, Restart
  <2> QED
    BY <2>1 DEF TableInv, TableFollowsTheStore, ReadsAreMarked
<1>4. ASSUME NEW time \in Leaps, Tick(time) PROVE TableInv'
  <2>1. /\ poll = "idle" /\ poll' \in {"read", "skip"} /\ (poll' = "skip" => ~dirty)
        /\ UNCHANGED <<stored, marks, missed>>
    BY <1>4 DEF Tick
  <2>2. ASSUME NEW n \in Nodes PROVE armed'[n].every = armed[n].every
    <3>1. armed[n] \in Timers
      BY DEF TypeOK, Timers
    <3> QED
      BY <1>4, <3>1 DEF Tick, Timers
  <2> QED
    BY <2>1, <2>2 DEF TableInv, TableFollowsTheStore, ReadsAreMarked, Wanted, Scheduled
<1>5. ASSUME Read PROVE TableInv'
  <2>1. poll' = "apply" /\ \A n \in Nodes : seen'[n] = Wanted(n)'
    BY <1>5 DEF Read, Wanted, Scheduled
  <2> QED
    BY <2>1 DEF TableInv, TableFollowsTheStore, ReadsAreMarked
<1>6. ASSUME Update PROVE TableInv'
  <2>1. /\ poll = "apply" /\ poll' = "idle" /\ UNCHANGED <<stored, marks, dirty>>
        /\ TakeDue(Apply)
    BY <1>6 DEF Update
  <2>2. ASSUME NEW n \in Nodes PROVE armed'[n].every = seen[n]
    BY <2>1, ApplyTable, TakenTimers
  <2> QED
    BY <2>1, <2>2 DEF TableInv, TableFollowsTheStore, ReadsAreMarked, Wanted, Scheduled
<1>7. ASSUME ReadFails PROVE TableInv'
  <2>1. missed' /\ poll' = "idle"
    BY <1>7 DEF ReadFails
  <2> QED
    BY <2>1 DEF TableInv, TableFollowsTheStore, ReadsAreMarked
<1>8. ASSUME NoRead PROVE TableInv'
  <2>1. /\ poll = "skip" /\ poll' = "idle" /\ UNCHANGED <<stored, marks, dirty, missed>>
        /\ TakeDue(armed)
    BY <1>8 DEF NoRead
  <2>2. armed \in [Nodes -> Timers]
    BY DEF TypeOK, Timers
  <2>3. ASSUME NEW n \in Nodes PROVE armed'[n].every = armed[n].every
    BY <2>1, <2>2, TakenTimers
  <2> QED
    BY <2>1, <2>3 DEF TableInv, TableFollowsTheStore, ReadsAreMarked, Wanted, Scheduled
<1>9. ASSUME UnchangedBook \/ UNCHANGED vars PROVE TableInv'
  <2>1. Same
    BY <1>9 DEF UnchangedBook, vars
  <2> HIDE DEF Same
  <2> QED
    BY <1>1, <2>1
<1> QED
  BY <1>2, <1>3, <1>4, <1>5, <1>6, <1>7, <1>8, <1>9
  DEF Next, Clock, Fire, Check, Ask, Begin, RunByHand, RunEnds

(* The book's invariant is kept by every step.                              *)
LEMMA TimersAreKept ==
  ASSUME TypeOK, TypeOK', TimersInv, [Next]_vars
  PROVE  TimersInv'
<1>1. ASSUME NEW doc \in Documents \cup {Gone}, Save(doc) PROVE TimersInv'
  BY <1>1, SaveKeepsTimers
<1>2. ASSUME NEW time \in Leaps, Tick(time) PROVE TimersInv'
  BY <1>2, TickKeepsTimers
<1>3. ASSUME Mark \/ UnchangedBook \/ UNCHANGED vars PROVE TimersInv'
  BY <1>3 DEF Mark, UnchangedBook, vars, TimersInv, TimersRun, TimersAreSpaced,
      WaitsAreBounded, Wanted, Scheduled
<1> QED
  BY <1>1, <1>2, <1>3, ReadKeepsTimers, UpdateKeepsTimers, OtherPollsKeepTimers, RestartKeepsTimers
  DEF Next, Clock, Fire, Check, Ask, Begin, RunByHand, RunEnds

-----------------------------------------------------------------------------
(* The tasks *)

TasksInv == FiresKnow /\ OnlyRacesPileUp

(* What is asked of a task, and of two tasks that run.                      *)
Knows(s, t) ==
  /\ s[t].quiet => s[t].at = "taken" /\ \E n \in s[t].node : ~Scheduled(n)
  /\ s[t].at = "clear" => \A u \in Tasks : s[u].at = "running" => u \in s[t].blind

Apart(s, t, u) ==
  s[t].at = "running" /\ s[u].at = "running" => t = u \/ t \in s[u].blind \/ u \in s[t].blind

LEMMA TasksByTask == TasksInv <=> \A t, u \in Tasks : Knows(task, t) /\ Apart(task, t, u)
  BY DEF TasksInv, FiresKnow, OnlyRacesPileUp, Running, Knows, Apart

LEMMA TasksByTaskNext ==
  TasksInv' <=> \A t, u \in Tasks : Knows(task, t)' /\ Apart(task, t, u)'
  BY DEF TasksInv, FiresKnow, OnlyRacesPileUp, Running, Knows, Apart

(* A task that ends is nobody's concern any more.                           *)
LEMMA EndKeepsTasks ==
  ASSUME TypeOK, TasksInv, stored' = stored, NEW t \in Tasks, End(t)
  PROVE  TasksInv'
<1>1. ASSUME NEW v \in Tasks
      PROVE  /\ v = t => task'[v] = Ended
             /\ v # t => /\ task'[v].at = task[v].at /\ task'[v].node = task[v].node
                         /\ task'[v].blind = task[v].blind \ {t}
                         /\ task'[v].quiet = task[v].quiet
  BY DEF End, TypeOK
<1>2. Ended.at = "ended" /\ Ended.quiet = FALSE
  BY DEF Ended
<1>3. ASSUME NEW v \in Tasks, NEW w \in Tasks PROVE Knows(task, v)' /\ Apart(task, v, w)'
  <2>1. Knows(task, v) /\ Apart(task, v, w)
    BY TasksByTask
  <2>2. Knows(task, v)'
    BY <1>1, <1>2, <2>1 DEF Knows, Scheduled
  <2>3. Apart(task, v, w)'
    BY <1>1, <1>2, <2>1 DEF Apart
  <2> QED
    BY <2>2, <2>3
<1> QED
  BY <1>3, TasksByTaskNext

(* A fire that goes on is not quiet, and it has seen nothing running when   *)
(* it is clear.                                                             *)
LEMMA BecomeKeepsTasks ==
  ASSUME TypeOK, TasksInv, stored' = stored, NEW t \in Tasks, task[t].at # "running",
         NEW at \in {"active", "clear"}, Become(t, at),
         \A n \in task[t].node : task[t].at = "taken" => Scheduled(n),
         at = "clear" => Running = {}
  PROVE  TasksInv'
<1>1. ASSUME NEW v \in Tasks
      PROVE  /\ task'[v].at = IF v = t THEN at ELSE task[v].at
             /\ task'[v].node = task[v].node /\ task'[v].blind = task[v].blind
             /\ task'[v].quiet = task[v].quiet
  BY DEF Become, TypeOK
<1>2. ~task[t].quiet
  BY TasksByTask DEF Knows
<1>3. ASSUME NEW v \in Tasks, NEW w \in Tasks PROVE Knows(task, v)' /\ Apart(task, v, w)'
  <2>1. Knows(task, v) /\ Apart(task, v, w)
    BY TasksByTask
  <2>2. Knows(task, v)'
    BY <1>1, <1>2, <2>1 DEF Knows, Scheduled, Running
  <2>3. Apart(task, v, w)'
    BY <1>1, <2>1 DEF Apart
  <2> QED
    BY <2>2, <2>3
<1> QED
  BY <1>3, TasksByTaskNext

(* A run that begins knows of those that are on, and those that asked       *)
(* before do not know of it.                                                *)
LEMMA RegisterKeepsTasks ==
  ASSUME TypeOK, TasksInv, stored' = stored, NEW t \in Tasks, NEW entry \in TaskState,
         Register(t, entry), entry.at = "running", ~entry.quiet, Running \subseteq entry.blind
  PROVE  TasksInv'
<1>1. ASSUME NEW v \in Tasks
      PROVE  /\ v = t => task'[v] = entry
             /\ v # t => /\ task'[v].at = task[v].at /\ task'[v].node = task[v].node
                         /\ task'[v].quiet = task[v].quiet
                         /\ task'[v].blind = IF task[v].at = "clear" THEN task[v].blind \cup {t}
                                             ELSE task[v].blind
  BY DEF Register, TypeOK
<1>2. ASSUME NEW v \in Tasks, NEW w \in Tasks PROVE Knows(task, v)' /\ Apart(task, v, w)'
  <2>1. Knows(task, v) /\ Apart(task, v, w) /\ (task[v].at = "running" => v \in entry.blind)
        /\ (task[w].at = "running" => w \in entry.blind)
    BY TasksByTask DEF Running
  <2>2. Knows(task, v)'
    BY <1>1, <2>1 DEF Knows, Scheduled
  <2>3. Apart(task, v, w)'
    <3>1. CASE v = t \/ w = t
      BY <1>1, <2>1, <3>1 DEF Apart
    <3>2. CASE v # t /\ w # t
      BY <1>1, <2>1, <3>2 DEF Apart
    <3> QED
      BY <3>1, <3>2
  <2> QED
    BY <2>2, <2>3
<1> QED
  BY <1>2, TasksByTaskNext

(* New fires are taken: a quiet one is of a schedule that is off.           *)
LEMMA TakeKeepsTasks ==
  ASSUME TypeOK, TasksInv, stored' = stored, NEW table, TakeDue(table)
  PROVE  TasksInv'
<1>1. ASSUME NEW v \in Tasks
      PROVE  \/ task'[v] = task[v]
             \/ /\ task[v].at = "ended" /\ task'[v].at = "taken"
                /\ \E n \in Nodes : task'[v].node = {n} /\ task'[v].quiet = ~Scheduled(n)
  BY TakenTasks
<1>2. ASSUME NEW v \in Tasks PROVE task'[v].at = "running" => task'[v] = task[v]
  BY <1>1
<1>3. ASSUME NEW v \in Tasks, NEW w \in Tasks PROVE Knows(task, v)' /\ Apart(task, v, w)'
  <2>1. Knows(task, v) /\ Apart(task, v, w)
    BY TasksByTask
  <2>2. Knows(task, v)'
    <3>1. CASE task'[v] = task[v]
      BY <1>2, <2>1, <3>1 DEF Knows, Scheduled
    <3>2. CASE task'[v] # task[v]
      <4>1. PICK n \in Nodes : task'[v].node = {n} /\ task'[v].quiet = ~Scheduled(n)
        BY <1>1, <3>2
      <4>2. task'[v].at = "taken" /\ Scheduled(n)' = Scheduled(n)
        BY <1>1, <3>2 DEF Scheduled
      <4> QED
        BY <4>1, <4>2 DEF Knows
    <3> QED
      BY <3>1, <3>2
  <2>3. Apart(task, v, w)'
    BY <1>2, <2>1 DEF Apart
  <2> QED
    BY <2>2, <2>3
<1> QED
  BY <1>3, TasksByTaskNext

(* A save is seen by the fires whose schedules it switches on.              *)
LEMMA SaveKeepsTasks ==
  ASSUME TypeOK, TasksInv, NEW doc \in Documents \cup {Gone}, Save(doc)
  PROVE  TasksInv'
<1>1. ASSUME NEW v \in Tasks
      PROVE  /\ task'[v].at = task[v].at /\ task'[v].node = task[v].node
             /\ task'[v].blind = task[v].blind
             /\ task'[v].quiet => task[v].quiet /\ \A n \in task[v].node : ~Scheduled(n)'
  <2>1. task[v] \in TaskState /\ task'[v] = [task[v] EXCEPT !.quiet = @ /\ \A n \in task[v].node : ~Scheduled(n)']
    BY DEF Save, TypeOK, TaskState
  <2>2. /\ task'[v].at = task[v].at /\ task'[v].node = task[v].node
        /\ task'[v].blind = task[v].blind
    BY <2>1 DEF TaskState
  <2>3. task'[v].quiet = (task[v].quiet /\ \A n \in task[v].node : ~Scheduled(n)')
    BY <2>1 DEF TaskState
  <2> QED
    BY <2>2, <2>3
<1>2. ASSUME NEW v \in Tasks, NEW w \in Tasks PROVE Knows(task, v)' /\ Apart(task, v, w)'
  <2>1. Knows(task, v) /\ Apart(task, v, w)
    BY TasksByTask
  <2>2. Knows(task, v)'
    BY <1>1, <2>1 DEF Knows
  <2>3. Apart(task, v, w)'
    BY <1>1, <2>1 DEF Apart
  <2> QED
    BY <2>2, <2>3
<1> QED
  BY <1>2, TasksByTaskNext

LEMMA InitTasks == Init => TasksInv
<1> SUFFICES ASSUME Init PROVE TasksInv
  OBVIOUS
<1>1. ASSUME NEW v \in Tasks PROVE task[v].at = "ended" /\ ~task[v].quiet
  BY DEF Init, Ended
<1> QED
  BY <1>1, TasksByTask DEF Knows, Apart

LEMMA TasksAreKept ==
  ASSUME TypeOK, TasksInv, [Next]_vars
  PROVE  TasksInv'
<1>1. ASSUME NEW doc \in Documents \cup {Gone}, Save(doc) PROVE TasksInv'
  BY <1>1, SaveKeepsTasks
<1>2. ASSUME UNCHANGED <<stored, task>> PROVE TasksInv'
  BY <1>2 DEF TasksInv, FiresKnow, OnlyRacesPileUp, Running, Scheduled
<1>3. CASE Update \/ ReadFails \/ NoRead
  BY <1>3, TakeKeepsTasks DEF Update, ReadFails, NoRead
<1>4. ASSUME NEW t \in Fires, Check(t) PROVE TasksInv'
  BY <1>4, EndKeepsTasks, BecomeKeepsTasks DEF Check, UnchangedBook, Tasks
<1>5. ASSUME NEW t \in Fires, Ask(t) PROVE TasksInv'
  BY <1>5, EndKeepsTasks, BecomeKeepsTasks DEF Ask, IsBusy, UnchangedBook, Tasks
<1>6. ASSUME NEW t \in Fires, Begin(t) PROVE TasksInv'
  <2>1. t \in Tasks /\ task[t] \in TaskState /\ stored' = stored
    BY <1>6 DEF Tasks, TypeOK, TaskState, Begin, UnchangedBook
  <2> DEFINE entry == [task[t] EXCEPT !.at = "running"]
  <2>2. /\ entry \in TaskState /\ entry.at = "running"
        /\ entry.quiet = task[t].quiet /\ entry.blind = task[t].blind
    BY <2>1 DEF TaskState
  <2>3. ~entry.quiet /\ Running \subseteq entry.blind
    BY <1>6, <2>1, <2>2, TasksByTask DEF Knows, Begin, Running
  <2>4. Register(t, entry) \/ End(t)
    BY <1>6 DEF Begin
  <2> HIDE DEF entry
  <2> QED
    BY <2>1, <2>2, <2>3, <2>4, EndKeepsTasks, RegisterKeepsTasks
<1>7. ASSUME NEW t \in Manuals, RunByHand(t) PROVE TasksInv'
  <2> DEFINE entry == [Ended EXCEPT !.at = "running", !.blind = Running]
  <2>1. /\ entry \in TaskState /\ entry.at = "running" /\ ~entry.quiet
        /\ entry.blind = Running
    BY DEF Ended, TaskState, Running
  <2>2. t \in Tasks /\ stored' = stored /\ Register(t, entry)
    BY <1>7 DEF RunByHand, UnchangedBook, Tasks
  <2> HIDE DEF entry
  <2> QED
    BY <2>1, <2>2, RegisterKeepsTasks
<1>8. ASSUME NEW t \in Tasks, RunEnds(t) PROVE TasksInv'
  BY <1>8, EndKeepsTasks DEF RunEnds, UnchangedBook
<1>9. CASE Restart
  <2>1. ASSUME NEW v \in Tasks PROVE task'[v].at = "ended" /\ ~task'[v].quiet
    BY <1>9 DEF Restart, Ended
  <2> QED
    BY <2>1, TasksByTaskNext DEF Knows, Apart
<1>10. ASSUME Mark \/ Read \/ (\E time \in Leaps : Tick(time)) \/ UNCHANGED vars PROVE TasksInv'
  BY <1>2, <1>10 DEF Mark, Read, Tick, vars
<1> QED
  BY <1>1, <1>3, <1>4, <1>5, <1>6, <1>7, <1>8, <1>9, <1>10 DEF Next, Clock, Fire

-----------------------------------------------------------------------------
(* The claims *)

(* Inv is an invariant.                                                     *)
LEMMA Invariance == Spec => []Inv
<1>1. Init => Inv
  BY InitTypes, InitTable, InitTimers, InitTasks
  DEF Inv, BookInv, TableInv, TimersInv, TasksInv
<1>2. Inv /\ [Next]_vars => Inv'
  BY TypesAreKept, TableIsKept, TimersAreKept, TasksAreKept
  DEF Inv, BookInv, TableInv, TimersInv, TasksInv
<1> QED
  BY <1>1, <1>2, PTL DEF Spec

(* The state has its types.                                                 *)
THEOREM Types == Spec => []TypeOK
  BY Invariance, PTL DEF Inv

(* An edit of the schedules is armed by the first poll after its mark.      *)
THEOREM TableIsUpToDate == Spec => []TableFollowsTheStore
  BY Invariance, PTL DEF Inv, BookInv

(* A fire whose schedule was off already when it was taken, and has been    *)
(* off ever since, does not run. (Nothing is said of a later pause.)        *)
THEOREM PausesHold == Spec => []PausedSchedulesDoNotRun
<1>1. Inv => PausedSchedulesDoNotRun
  BY DEF Inv, FiresKnow, PausedSchedulesDoNotRun, Running
<1> QED
  BY <1>1, Invariance, PTL

(* Runs of a workflow overlap only if one was started by hand or both asked *)
(* before either had begun.                                                 *)
THEOREM RunsDoNotPileUp == Spec => []OnlyRacesPileUp
  BY Invariance, PTL DEF Inv

(* A schedule that is left alone fires within one rescan and one interval.  *)
THEOREM FiresAreOnTime == Spec => []SchedulesFireOnTime
<1>1. Inv => SchedulesFireOnTime
  <2> SUFFICES ASSUME Inv, NEW n \in Nodes, Wanted(n) # 0
               PROVE  late[n] <= Rescan + Wanted(n)
    BY DEF SchedulesFireOnTime
  <2>1. TypeOK /\ NodeFits(n)
    BY BookByNode DEF Inv, BookInv, TimersInv
  <2> QED
    BY <2>1, NodeTypes DEF NodeFits, Fits
<1> QED
  BY <1>1, Invariance, PTL

(* Two fires of a node are an interval apart.                               *)
THEOREM FiresAreApart == Spec => FiresKeepTheirDistance
<1> DEFINE Spaced == \A n \in Nodes : since'[n] < since[n] => since[n] >= armed'[n].every
<1>1. Inv /\ [Next]_vars => [Spaced]_vars
  <2> SUFFICES ASSUME Inv, Next, NEW n \in Nodes, since'[n] < since[n]
               PROVE  since[n] >= armed'[n].every
    OBVIOUS
  <2>1. TypeOK /\ NodeFits(n) /\ armed \in [Nodes -> Timers]
    BY BookByNode DEF Inv, BookInv, TimersInv, TypeOK, Timers
  <2>2. ASSUME NEW table \in [Nodes -> Timers], TakeDue(table),
               table[n].every = armed[n].every => table[n] = armed[n],
               table[n].every # armed[n].every => table[n].left = table[n].every
        PROVE  since[n] >= armed'[n].every
    <3>1. n \in Due(table)
      BY <2>1, <2>2, TakenTimers, NodeTypes
    <3>2. table[n].left = 0 /\ table[n].every # 0 /\ armed'[n].every = table[n].every
      BY <2>1, <2>2, <3>1, TakenTimers DEF Due
    <3>3. armed[n].every <= since[n] + armed[n].left /\ table[n] = armed[n]
      BY <2>1, <2>2, <3>2 DEF NodeFits, Fits
    <3> QED
      BY <2>1, <3>2, <3>3, NodeTypes
  <2>3. CASE Update
    <3>1. /\ Apply \in [Nodes -> Timers] /\ TakeDue(Apply)
          /\ Apply[n].every = armed[n].every => Apply[n] = armed[n]
          /\ Apply[n].every # armed[n].every => Apply[n].left = Apply[n].every
      BY <2>1, <2>3, ApplyTable DEF Update
    <3> QED
      BY <2>2, <3>1
  <2>4. CASE ReadFails \/ NoRead
    BY <2>1, <2>2, <2>4 DEF ReadFails, NoRead
  <2>5. ASSUME NEW time \in Leaps, Tick(time) PROVE FALSE
    <3>1. time \in Nat /\ since[n] \in Nat /\ since[n] <= Horizon /\ Horizon \in Nat
      BY <2>1, NodeTypes
    <3>2. since'[n] = Least(since[n] + time, Horizon)
      BY <2>5 DEF Tick
    <3> QED
      BY <3>1, <3>2 DEF Least
  <2>6. since'[n] = since[n] => FALSE
    BY <2>1, NodeTypes
  <2> QED
    BY <2>3, <2>4, <2>5, <2>6
    DEF Next, Clock, Save, Mark, Read, Restart, Fire, Check, Ask, Begin, RunByHand, RunEnds, UnchangedBook
<1>2. Spec => [][Spaced]_vars
  BY <1>1, Invariance, PTL DEF Spec
<1> QED
  BY <1>2 DEF FiresKeepTheirDistance

=============================================================================
