------------------------- MODULE WorkflowSchedule -------------------------
(***************************************************************************)
(* The schedules of one saved workflow: the table of armed Schedule nodes  *)
(* (services/workflows/scheduler.rs), the clock that polls it once a       *)
(* second, the task of each fire (workflows/mod.rs, `run_fire`), the runs  *)
(* in flight (`WorkflowRuns`), and the saves that change the workflow      *)
(* under them (services/documents.rs).                                     *)
(*                                                                         *)
(* Time is relative: a timer is the time left, a scan has an age. A poll   *)
(* and a fire stop wherever the code lets go of a lock: a save, another    *)
(* fire or a run by hand can come between any two of their steps.          *)
(***************************************************************************)
EXTENDS Naturals

CONSTANTS
  Nodes,      \* the Schedule nodes of the workflow
  Fires,      \* the tasks of fires (a task that ended is used again)
  Manuals,    \* the runs somebody starts by hand
  Intervals,  \* the intervals a schedule can have
  Leaps,      \* how far the clock goes on between two polls (1, or a sleep of the machine)
  Absent,     \* no schedule: the node is not there, or is no Schedule node
  Rescan,     \* RESCAN_EVERY_SECONDS
  Horizon,    \* bound: how far back `since` reaches, at least the longest interval
  MaxOps      \* bound: saves, failed reads and restarts

ASSUME IntervalsArePositive == Intervals \subseteq Nat \ {0}
ASSUME AbsentIsNoInterval == Absent \notin Intervals \cup {0}
(* The clock of the machine may leap, but is not set back.                   *)
ASSUME LeapsArePositive == Leaps \subseteq Nat \ {0}
ASSUME RescanIsPositive == Rescan \in Nat \ {0}
ASSUME HorizonIsFar == Horizon \in Nat /\ \A i \in Intervals : i <= Horizon
ASSUME TasksDiffer == Fires \cap Manuals = {}
ASSUME MaxOpsIsNatural == MaxOps \in Nat

VARIABLES
  stored,   \* the document in the store (see Documents)
  marks,    \* saves that have written the store and not yet set the mark
  dirty,    \* Scheduler::dirty
  armed,    \* Book::armed: node -> its interval and the time left (see Unarmed)
  age,      \* the time since Book::last_scan, at most Rescan
  poll,     \* where the clock stands (see PollStates)
  seen,     \* what `wanted` read: node -> the interval at which it should fire
  task,     \* fire or run by hand -> where it stands (see Ended)
  ops,      \* counts towards MaxOps
  missed,   \* history: a read of the store has failed since the last one that did not
  late,     \* history: node -> polls since its schedule was stored as it is, or last fired
  since     \* history: node -> time since it fired, at most Horizon

vars == <<stored, marks, dirty, armed, age, poll, seen, task, ops, missed, late, since>>

(* Interval 0: settings with which a schedule can never fire (`problem`). *)
Documents == [there : {TRUE}, active : BOOLEAN, every : [Nodes -> Intervals \cup {0, Absent}]]
Gone == [there |-> FALSE, active |-> FALSE, every |-> [n \in Nodes |-> Absent]]

(* Node n is a schedule, and "Schedules active" is on. *)
Scheduled(n) == stored.active /\ stored.every[n] # Absent

(* Before a poll; its mark is swapped and the workflows are to be read, or     *)
(* not; they are read.                                                         *)
PollStates == {"idle", "read", "skip", "apply"}

(* The interval at which node n should fire, 0 if it should not (`wanted`). *)
Wanted(n) == IF Scheduled(n) THEN stored.every[n] ELSE 0

Unarmed == [every |-> 0, left |-> 0]

(* `blind`: the runs that were on without this one knowing when it began;     *)
(* `quiet`: its schedule has been off in the store ever since it was taken.   *)
Ended == [at |-> "ended", node |-> {}, blind |-> {}, quiet |-> FALSE]

Tasks == Fires \cup Manuals
Running == {t \in Tasks : task[t].at = "running"}

Least(a, b) == IF a < b THEN a ELSE b
Minus(a, b) == IF a < b THEN 0 ELSE a - b

Init ==
  /\ stored \in Documents
  /\ marks = 0
  /\ dirty = TRUE
  /\ armed = [n \in Nodes |-> Unarmed]
  /\ age = Rescan
  /\ poll = "idle"
  /\ seen = [n \in Nodes |-> 0]
  /\ task = [t \in Tasks |-> Ended]
  /\ ops = 0
  /\ missed = FALSE
  /\ late = [n \in Nodes |-> 0]
  /\ since = [n \in Nodes |-> Horizon]

-----------------------------------------------------------------------------
(* Saves: the store is written (documents::save, duplicate, rename, delete), *)
(* then the schedules are marked as changed. The comment at RESCAN_EVERY_-   *)
(* SECONDS speaks of a duplicate or an import that does not mark them; the   *)
(* code has none: duplicate does, nothing imports a workflow, and the one    *)
(* write without a mark (clearing sealed secrets) changes no schedule.       *)

Save(doc) ==
  /\ ops < MaxOps
  /\ ops' = ops + 1
  /\ stored' = doc
  /\ marks' = marks + 1
  /\ late' = [n \in Nodes |-> IF Wanted(n)' = Wanted(n) THEN late[n] ELSE 0]
  /\ task' = [t \in Tasks |-> [task[t] EXCEPT !.quiet = @ /\ \A n \in task[t].node : ~Scheduled(n)']]
  /\ UNCHANGED <<dirty, armed, age, poll, seen, missed, since>>

Mark ==
  /\ marks > 0
  /\ marks' = marks - 1
  /\ dirty' = TRUE
  /\ UNCHANGED <<stored, armed, age, poll, seen, task, ops, missed, late, since>>

-----------------------------------------------------------------------------
(* The clock (start_scheduler) and the poll *)

(* The clock ticks: is a read due? (Utc::now only goes on here: a wall clock   *)
(* that is set back is left out.)                                              *)
Stale(time) == age + time >= Rescan

Tick(time) ==
  /\ poll = "idle"
  /\ poll' = IF dirty \/ Stale(time) THEN "read" ELSE "skip"
  /\ dirty' = FALSE
  /\ age' = Least(age + time, Rescan)
  /\ armed' = [n \in Nodes |-> [armed[n] EXCEPT !.left = Minus(@, time)]]
  /\ since' = [n \in Nodes |-> Least(since[n] + time, Horizon)]
  /\ UNCHANGED <<stored, marks, seen, task, ops, missed, late>>

(* Mutant: a schedule is due as soon as it is armed. *)
ArmDue(every) == [every |-> every, left |-> 0]

(* A schedule armed from now (next_fire: strictly later). *)
Arm(every) == [every |-> every, left |-> every]

(* Mutant: every schedule is armed from now. *)
ApplyAnew == [n \in Nodes |-> Arm(seen[n])]

(* apply: an unchanged schedule keeps its timer. *)
Apply == [n \in Nodes |-> IF armed[n].every = seen[n] THEN armed[n] ELSE Arm(seen[n])]

Due(table) == {n \in Nodes : table[n].every # 0 /\ table[n].left = 0}

(* take_due: what is due fires and is armed from now; the clock spawns a task *)
(* for each fire. (Bound: there are no more tasks at a time than Fires.)      *)
TakeDue(table) ==
  /\ armed' = [n \in Nodes |-> IF n \in Due(table) THEN Arm(table[n].every) ELSE table[n]]
  /\ \E taken \in [Due(table) -> {t \in Fires : task[t].at = "ended"}] :
       /\ \A m, n \in Due(table) : taken[m] = taken[n] => m = n
       /\ task' = [t \in Tasks |->
            IF \E n \in Due(table) : taken[n] = t
            THEN LET n == CHOOSE n \in Due(table) : taken[n] = t
                 IN  [Ended EXCEPT !.at = "taken", !.node = {n}, !.quiet = ~Scheduled(n)]
            ELSE task[t]]
  /\ since' = [n \in Nodes |-> IF n \in Due(table) THEN 0 ELSE since[n]]

Waited(table) == [n \in Nodes |-> IF Wanted(n) = 0 \/ n \in Due(table) THEN 0 ELSE late[n] + 1]

(* Mutant: the mark is taken down after the store was read. *)
UpdateAndClear ==
  /\ poll = "apply"
  /\ TakeDue(Apply)
  /\ late' = Waited(Apply)
  /\ age' = 0
  /\ dirty' = FALSE
  /\ missed' = FALSE
  /\ poll' = "idle"
  /\ seen' = [n \in Nodes |-> 0]
  /\ UNCHANGED <<stored, marks, ops>>

(* The store is read (`wanted`) ... *)
Read ==
  /\ poll = "read"
  /\ poll' = "apply"
  /\ seen' = [n \in Nodes |-> Wanted(n)]
  /\ UNCHANGED <<stored, marks, dirty, armed, age, task, ops, missed, late, since>>

(* ... what it said is armed, and what is due fires. *)
Update ==
  /\ poll = "apply"
  /\ TakeDue(Apply)
  /\ late' = Waited(Apply)
  /\ age' = 0
  /\ missed' = FALSE
  /\ poll' = "idle"
  /\ seen' = [n \in Nodes |-> 0]
  /\ UNCHANGED <<stored, marks, dirty, ops>>

(* The read fails: what is armed stays so, and what is due fires all the same. *)
ReadFails ==
  /\ poll = "read"
  /\ ops < MaxOps
  /\ ops' = ops + 1
  /\ TakeDue(armed)
  /\ late' = [n \in Nodes |-> IF n \in Due(armed) THEN 0 ELSE late[n]]
  /\ missed' = TRUE
  /\ poll' = "idle"
  /\ UNCHANGED <<stored, marks, dirty, age, seen>>

NoRead ==
  /\ poll = "skip"
  /\ TakeDue(armed)
  /\ late' = Waited(armed)
  /\ poll' = "idle"
  /\ UNCHANGED <<stored, marks, dirty, age, seen, ops, missed>>

-----------------------------------------------------------------------------
(* The task of a fire (run_fire, then run_saved) *)

Become(t, at) == task' = [task EXCEPT ![t].at = at]
End(t) == task' = [u \in Tasks |-> IF u = t THEN Ended ELSE [task[u] EXCEPT !.blind = @ \ {t}]]

UnchangedBook == UNCHANGED <<stored, marks, dirty, armed, age, poll, seen, ops, missed, late, since>>

(* Mutant: only a workflow that is gone does not run. *)
CheckExists(t) ==
  /\ task[t].at = "taken"
  /\ IF stored.there THEN Become(t, "active") ELSE End(t)
  /\ UnchangedBook

(* Is the workflow there, active, and the node still a schedule? *)
Check(t) ==
  /\ task[t].at = "taken"
  /\ IF \A n \in task[t].node : Scheduled(n) THEN Become(t, "active") ELSE End(t)
  /\ UnchangedBook

(* Mutant: a fire is skipped while its own node runs. *)
IsBusyWith(t) == \E r \in Running : task[r].node = task[t].node

IsBusy(t) == Running # {}

(* is_busy: the fire is skipped while the workflow runs. *)
Ask(t) ==
  /\ task[t].at = "active"
  /\ IF IsBusy(t) THEN End(t) ELSE Become(t, "clear")
  /\ UnchangedBook

(* Run t is in the registry; those that asked before do not know.            *)
Register(t, entry) ==
  task' = [u \in Tasks |->
    IF u = t THEN entry
    ELSE IF task[u].at = "clear" THEN [task[u] EXCEPT !.blind = @ \cup {t}]
    ELSE task[u]]

(* run_saved reads the document once more, and runs it even if it was paused   *)
(* (WorkflowRuns::begin).                                                      *)
Begin(t) ==
  /\ task[t].at = "clear"
  /\ IF stored.there THEN Register(t, [task[t] EXCEPT !.at = "running"]) ELSE End(t)
  /\ UnchangedBook

(* A run by hand asks nobody: it can begin on top of another. *)
RunByHand(t) ==
  /\ task[t].at = "ended"
  /\ stored.there
  /\ Register(t, [Ended EXCEPT !.at = "running", !.blind = Running])
  /\ UnchangedBook

(* The run is over, however it ended (WorkflowRuns::end). *)
RunEnds(t) ==
  /\ task[t].at = "running"
  /\ End(t)
  /\ UnchangedBook

(* The app ends and starts again: only the store is left. *)
Restart ==
  /\ ops < MaxOps
  /\ ops' = ops + 1
  /\ marks' = 0
  /\ dirty' = TRUE
  /\ armed' = [n \in Nodes |-> Unarmed]
  /\ age' = Rescan
  /\ poll' = "idle"
  /\ seen' = [n \in Nodes |-> 0]
  /\ task' = [t \in Tasks |-> Ended]
  /\ missed' = FALSE
  /\ late' = [n \in Nodes |-> 0]
  /\ UNCHANGED <<stored, since>>

-----------------------------------------------------------------------------
Clock == (\E time \in Leaps : Tick(time)) \/ Read \/ Update \/ ReadFails \/ NoRead
Fire(t) == Check(t) \/ Ask(t) \/ Begin(t)

Next ==
  \/ \E doc \in Documents \cup {Gone} : Save(doc)
  \/ Mark \/ Clock \/ Restart
  \/ \E t \in Fires : Fire(t)
  \/ \E t \in Manuals : RunByHand(t)
  \/ \E t \in Tasks : RunEnds(t)

Spec == Init /\ [][Next]_vars

-----------------------------------------------------------------------------
(* Saves, the clock, the table, the tasks and the history have their types. *)
TypeOK ==
  /\ stored \in Documents \cup {Gone}
  /\ marks \in Nat
  /\ dirty \in BOOLEAN
  /\ armed \in [Nodes -> [every : Intervals \cup {0}, left : Nat]]
  /\ age \in 0 .. Rescan
  /\ poll \in PollStates
  /\ seen \in [Nodes -> Intervals \cup {0}]
  /\ task \in [Tasks -> [at : {"ended", "taken", "active", "clear", "running"},
                         node : SUBSET Nodes, blind : SUBSET Tasks, quiet : BOOLEAN]]
  /\ ops \in 0 .. MaxOps
  /\ missed \in BOOLEAN
  /\ late \in [Nodes -> Nat]
  /\ since \in [Nodes -> 0 .. Horizon]

(* An edit of the schedules is armed by the first poll after its mark: once    *)
(* every save has set its mark and the poll has seen it, the table is what the *)
(* store says, unless the read failed. The mark is taken down before the store *)
(* is read; the other way round, a save in between would go unseen.            *)
TableFollowsTheStore ==
  poll \notin {"read", "apply"} /\ ~dirty /\ marks = 0 /\ ~missed => \A n \in Nodes : armed[n].every = Wanted(n)

(* A schedule that is left alone fires on time: within one rescan and one      *)
(* interval, also if the mark of its save was lost to a failed read, and       *)
(* however often other edits make the scheduler read the workflows again ("A   *)
(* node whose settings did not change keeps its timer").                       *)
SchedulesFireOnTime == \A n \in Nodes : late[n] <= Rescan + Wanted(n) \/ Wanted(n) = 0

(* Two fires of a node are an interval apart, through edits, pauses, restarts  *)
(* and sleeps of the machine ("a fire is never replayed").                     *)
FiresKeepTheirDistance ==
  [][\A n \in Nodes : since'[n] < since[n] => since[n] >= armed'[n].every]_vars

(* A fire that was taken from a table the store had overtaken (the workflow    *)
(* was already paused or gone, the schedule removed) never becomes a run,      *)
(* unless the schedule was switched on again ("a paused workflow never         *)
(* fires"). A pause that comes later, between the check of a fire and its run, *)
(* does not hold the run back (Begin).                                         *)
PausedSchedulesDoNotRun == \A t \in Running : ~task[t].quiet

(* Of two runs that are on at once the later one was started by hand, or it    *)
(* asked whether the workflow was busy before the other had begun: an interval *)
(* shorter than a run does not pile runs up.                                   *)
OnlyRacesPileUp ==
  \A t, u \in Running : t = u \/ t \in task[u].blind \/ u \in task[t].blind

-----------------------------------------------------------------------------
(* Why they hold: the invariant, in two parts that share no step's argument.   *)

(* What a poll read is what the store says, unless a save is under way or has  *)
(* set its mark since.                                                         *)
ReadsAreMarked == poll = "apply" /\ ~dirty /\ marks = 0 => \A n \in Nodes : seen[n] = Wanted(n)

(* Between two polls nothing that is armed is due.                             *)
TimersRun ==
  \A n \in Nodes :
    /\ armed[n].left <= armed[n].every
    /\ poll = "idle" /\ armed[n].every # 0 => armed[n].left # 0

(* A timer ends an interval after the node's last fire, at the earliest.       *)
TimersAreSpaced == \A n \in Nodes : armed[n].every <= since[n] + armed[n].left

(* A schedule that waits is armed and its timer ends in time, or it is not     *)
(* armed and the next scan comes in time. (A poll that is on counts already.)  *)
WaitsAreBounded ==
  /\ poll = "skip" => age < Rescan
  /\ \A n \in Nodes : Wanted(n) # 0 =>
       /\ armed[n].every = Wanted(n) =>
            late[n] + armed[n].left <= Rescan + Wanted(n) + (IF poll = "idle" THEN 1 ELSE 0)
       /\ armed[n].every # Wanted(n) =>
            late[n] <= Rescan /\ late[n] <= age + (IF poll = "skip" THEN 0 ELSE 1)
       /\ poll = "apply" /\ seen[n] # Wanted(n) => late[n] = 0

BookInv == TableFollowsTheStore /\ ReadsAreMarked /\ TimersRun /\ TimersAreSpaced /\ WaitsAreBounded

(* A fire whose schedule is off, and has been since it was taken, is stopped   *)
(* by its check, and one that knows of no run there was none of.               *)
FiresKnow ==
  \A t \in Tasks :
    /\ task[t].quiet => task[t].at = "taken" /\ \E n \in task[t].node : ~Scheduled(n)
    /\ task[t].at = "clear" => Running \subseteq task[t].blind

Inv == TypeOK /\ BookInv /\ FiresKnow /\ OnlyRacesPileUp

=============================================================================
