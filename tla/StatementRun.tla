--------------------------- MODULE StatementRun ---------------------------
(***************************************************************************)
(* One Run of the editor: `execute_batch` (services/query.rs) takes a      *)
(* script statement by statement through `guard::statement` (guard/mod.rs) *)
(* to the Postgres connection pinned to the query tab, and Stop reaches it *)
(* through the registry of tokens (state.rs, `QueryRuns`).                 *)
(*                                                                         *)
(* Three layers wait for each other, and each can give up on the one       *)
(* below: the batch (`run`), the guard (`guard`), which races the work     *)
(* against the token of the statement, and the work itself (`work`), which *)
(* advances only while the guard polls it. The server (`server`) goes on   *)
(* whoever has given up, and on a connection that is lost as well          *)
(* (`orphans`), while the tab goes on with another. What the connection    *)
(* keeps between two runs is the subject of PinnedSessions, and is left    *)
(* out here.                                                               *)
(***************************************************************************)
EXTENDS Naturals

CONSTANTS
  Batches,  \* the runs of one query tab: calls of execute_batch
  Size,     \* statements in a script
  Nothing   \* no statement

ASSUME SizeIsPositive == Size \in Nat \ {0}
ASSUME NoneIsNothing == Nothing \notin Batches \X (1 .. Size)

VARIABLES
  run,      \* batch -> where its loop stands (see NotRun)
  stop,     \* batch -> what became of its Stop
  guard,    \* batch -> where guard::statement stands with its current statement
  told,     \* batch -> the token of its current statement is cancelled
  work,     \* batch -> where the handler of its current statement stands
  cancels,  \* batch -> its cancel is on the way to the backend
  server,   \* the statement that the backend of the tab executes
  orphans,  \* statements still executing on backends whose connection is gone
  results,  \* batch -> statement -> the BatchStatus reported for it
  entry,    \* batch -> statement -> the entry handed to the history log (insert_history)
  landed    \* history: the statements the server completed

vars == <<run, stop, guard, told, work, cancels, server, orphans, results, entry, landed>>

Index == 1 .. Size

NotRun == [at |-> "idle", n |-> 1, halted |-> FALSE, stopOnError |-> FALSE]

Init ==
  /\ run = [b \in Batches |-> NotRun]
  /\ stop = [b \in Batches |-> "none"]
  /\ guard = [b \in Batches |-> "none"]
  /\ told = [b \in Batches |-> FALSE]
  /\ work = [b \in Batches |-> "none"]
  /\ cancels = [b \in Batches |-> FALSE]
  /\ server = Nothing
  /\ orphans = {}
  /\ results = [b \in Batches |-> [i \in Index |-> "none"]]
  /\ entry = [b \in Batches |-> [i \in Index |-> "none"]]
  /\ landed = {}

InFlight(b) == run[b].at \in {"planning", "loop", "run", "stopping"}

(* The batch has an entry in QueryRuns (register ... finish). *)
Registered(b) == run[b].at \in {"loop", "run", "stopping"}

(* The statement at which the batch stands. *)
Current(b) == <<b, run[b].n>>

(* The guard polls the handler: in the race, and in the grace after a Stop,   *)
(* but not while it awaits the cancel of the adapter.                         *)
Polled(b) == guard[b] \in {"race", "grace"}

Result(s) == results[s[1]][s[2]]
Entry(s) == entry[s[1]][s[2]]

(* Mutant: whoever waits on the connection takes the next answer. *)
AwaitsAny(b, s) == work[b] \in {"sent", "drain"}

(* Batch b waits for the answer to statement s: the driver skips the answers  *)
(* to statements that were dropped before.                                    *)
Awaits(b, s) == work[b] = "sent" /\ Current(b) = s

-----------------------------------------------------------------------------
(* The query tab (queryRuns.ts): one run at a time, and Stop once per run. *)

StartRun(b) ==
  /\ run[b].at = "idle"
  /\ \A o \in Batches : ~InFlight(o)
  /\ \E stopOnError \in BOOLEAN :
       run' = [run EXCEPT ![b] = [@ EXCEPT !.at = "planning", !.stopOnError = stopOnError]]
  /\ UNCHANGED <<stop, guard, told, work, cancels, server, orphans, results, entry, landed>>

(* cancel_query: the token of the batch, if it is registered by now. *)
PressStop(b) ==
  /\ InFlight(b)
  /\ stop[b] = "none"
  /\ stop' = [stop EXCEPT ![b] = IF Registered(b) THEN "landed" ELSE "missed"]
  /\ UNCHANGED <<run, guard, told, work, cancels, server, orphans, results, entry, landed>>

-----------------------------------------------------------------------------
(* The loop of execute_batch *)

(* The gates over the whole script, the session, the plan; then `register`. *)
Plan(b) ==
  /\ run[b].at = "planning"
  /\ \E at \in {"refused", "loop"} : run' = [run EXCEPT ![b].at = at]
  /\ UNCHANGED <<stop, guard, told, work, cancels, server, orphans, results, entry, landed>>

(* Mutant: a statement that failed or was cancelled does not halt the batch. *)
StoppedOnlyByStop(b) == stop[b] = "landed"

Stopped(b) == run[b].halted \/ stop[b] = "landed"

Skip(b) ==
  /\ run[b].at = "loop"
  /\ run[b].n \in Index
  /\ Stopped(b)
  /\ results' = [results EXCEPT ![b][run[b].n] = "skipped"]
  /\ run' = [run EXCEPT ![b].n = run[b].n + 1]
  /\ UNCHANGED <<stop, guard, told, work, cancels, server, orphans, entry, landed>>

StartStatement(b) ==
  /\ run[b].at = "loop"
  /\ run[b].n \in Index
  /\ ~Stopped(b)
  /\ run' = [run EXCEPT ![b].at = "run"]
  /\ guard' = [guard EXCEPT ![b] = "resolve"]
  /\ UNCHANGED <<stop, told, work, cancels, server, orphans, results, entry, landed>>

Finish(b) ==
  /\ run[b].at = "loop"
  /\ run[b].n = Size + 1
  /\ run' = [run EXCEPT ![b] = [@ EXCEPT !.at = "done", !.halted = FALSE]]
  /\ UNCHANGED <<stop, guard, told, work, cancels, server, orphans, results, entry, landed>>

(* The outcomes that are BatchStatus::Error, told apart by their messages:     *)
(* `lost` says of a statement that it may or may not have been applied.        *)
Errors == {"error", "timeout", "lost"}

(* After this outcome of a statement the rest of the script is skipped. *)
Halts(status, stopOnError) == status = "cancelled" \/ (stopOnError /\ status \in Errors)

(* Mutant: a statement that timed out is tried once more. *)
AnswerRetrying(b, status, row) ==
  /\ results' = [results EXCEPT ![b][run[b].n] = status]
  /\ entry' = [entry EXCEPT ![b][run[b].n] = row]
  /\ run' = [run EXCEPT ![b] = [@ EXCEPT !.at = "loop",
                                        !.n = IF status = "timeout" THEN run[b].n ELSE run[b].n + 1,
                                        !.halted = Halts(status, run[b].stopOnError)]]
  /\ guard' = [guard EXCEPT ![b] = "none"]
  /\ told' = [told EXCEPT ![b] = FALSE]
  /\ work' = [work EXCEPT ![b] = "none"]

(* run_one returns: what the guard answered for the current statement, and    *)
(* the entry it handed to insert_history (early returns hand it none). The    *)
(* store may fail to keep it, which is a warning and changes nothing else.    *)
Answer(b, status, row) ==
  /\ results' = [results EXCEPT ![b][run[b].n] = status]
  /\ entry' = [entry EXCEPT ![b][run[b].n] = row]
  /\ run' = [run EXCEPT ![b] = [@ EXCEPT !.at = "loop", !.n = run[b].n + 1, !.halted = Halts(status, run[b].stopOnError)]]
  /\ guard' = [guard EXCEPT ![b] = "none"]
  /\ told' = [told EXCEPT ![b] = FALSE]
  /\ work' = [work EXCEPT ![b] = "none"]

(* Mutant: the select returns without the statement. *)
NoticeStopDrops(b) ==
  /\ run[b].at = "run"
  /\ stop[b] = "landed"
  /\ Answer(b, "cancelled", "none")
  /\ UNCHANGED <<stop, cancels, server, orphans, landed>>

(* Stop reaches run_one: it leaves its select and cancels the run of the      *)
(* statement, which is a no-op until guard::statement has registered it ...   *)
NoticeStop(b) ==
  /\ run[b].at = "run"
  /\ stop[b] = "landed"
  /\ run' = [run EXCEPT ![b].at = "stopping"]
  /\ told' = [told EXCEPT ![b] = guard[b] # "resolve"]
  /\ UNCHANGED <<stop, guard, work, cancels, server, orphans, results, entry, landed>>

(* Mutant: cancelled once. *)
StopAgainNever(b) == run[b].at = "stopping" /\ UNCHANGED vars

(* ... and is repeated every 50 ms until the statement ends. *)
StopAgain(b) ==
  /\ run[b].at = "stopping"
  /\ guard[b] # "resolve"
  /\ told' = [told EXCEPT ![b] = TRUE]
  /\ UNCHANGED <<run, stop, guard, work, cancels, server, orphans, results, entry, landed>>

-----------------------------------------------------------------------------
(* guard::statement *)

(* Steps 1-8: the session is gone or the connection was locked meanwhile, or  *)
(* the run is registered and the race begins.                                 *)
Resolve(b) ==
  /\ guard[b] = "resolve"
  /\ \/ /\ guard' = [guard EXCEPT ![b] = "race"]
        /\ work' = [work EXCEPT ![b] = "slot"]
        /\ UNCHANGED <<run, told, results, entry>>
     \/ Answer(b, "error", "none")
  /\ UNCHANGED <<stop, cancels, server, orphans, landed>>

(* The handler is done: in the race that is the answer, in the grace it is    *)
(* ignored.                                                                   *)
Reply(b) ==
  /\ Polled(b)
  /\ work[b] \in {"success", "error", "lost"}
  /\ IF guard[b] = "race"
     THEN Answer(b, work[b], IF work[b] = "success" THEN "ok" ELSE "error")
     ELSE Answer(b, "cancelled", "error")
  /\ UNCHANGED <<stop, cancels, server, orphans, landed>>

(* DEFAULT_TIMEOUT: the handler is dropped, and the server is not told. *)
TimeOut(b) ==
  /\ guard[b] = "race"
  /\ Answer(b, "timeout", "error")
  /\ UNCHANGED <<stop, cancels, server, orphans, landed>>

(* Mutant: the cancel is spawned and not awaited. *)
SeeStopDetached(b) ==
  /\ guard[b] = "race"
  /\ told[b]
  /\ guard' = [guard EXCEPT ![b] = "grace"]
  /\ cancels' = [cancels EXCEPT ![b] = work[b] \notin {"slot", "lost"}]
  /\ UNCHANGED <<run, stop, told, work, server, orphans, results, entry, landed>>

(* The token wins the race: `cancel` of the adapter looks the run up, which   *)
(* is listed while the handler runs on its connection (`Tracked`).            *)
SeeStop(b) ==
  /\ guard[b] = "race"
  /\ told[b]
  /\ IF work[b] \in {"slot", "lost"}
     THEN /\ guard' = [guard EXCEPT ![b] = "grace"]
          /\ UNCHANGED cancels
     ELSE /\ guard' = [guard EXCEPT ![b] = "cancel"]
          /\ cancels' = [cancels EXCEPT ![b] = TRUE]
  /\ UNCHANGED <<run, stop, told, work, server, orphans, results, entry, landed>>

(* CANCEL_GRACE is over: the handler is dropped wherever it stands. *)
GraceOver(b) ==
  /\ guard[b] = "grace"
  /\ Answer(b, "cancelled", "error")
  /\ UNCHANGED <<stop, cancels, server, orphans, landed>>

-----------------------------------------------------------------------------
(* The handler on the pinned connection, and the server *)

(* The slot's mutex, the probe and the opening are behind: the run is listed  *)
(* under the backend, and the statement is sent.                              *)
TakeSlot(b) ==
  /\ Polled(b)
  /\ work[b] = "slot"
  /\ server = Nothing
  /\ server' = Current(b)
  /\ work' = [work EXCEPT ![b] = "sent"]
  /\ UNCHANGED <<run, stop, guard, told, cancels, orphans, results, entry, landed>>

(* A slot used less than 20 s ago is not probed, so a dropped statement may   *)
(* still run there (not one that timed out: it has run for longer). The run   *)
(* is listed, and the driver waits for the backend before it sends.           *)
TakeBusySlot(b) ==
  /\ Polled(b)
  /\ work[b] = "slot"
  /\ server # Nothing
  /\ Result(server) = "cancelled"
  /\ work' = [work EXCEPT ![b] = "drain"]
  /\ UNCHANGED <<run, stop, guard, told, cancels, server, orphans, results, entry, landed>>

(* The connection of the tab is gone; its backend may go on. *)
LoseConnection == orphans' = orphans \cup ({server} \ {Nothing})

(* The probe finds the connection dead, or the reaper has closed it: another   *)
(* one is opened, and the statement is sent there.                             *)
TakeNewSlot(b) ==
  /\ Polled(b)
  /\ work[b] = "slot"
  /\ server # Nothing
  /\ LoseConnection
  /\ server' = Current(b)
  /\ work' = [work EXCEPT ![b] = "sent"]
  /\ UNCHANGED <<run, stop, guard, told, cancels, results, entry, landed>>

(* No connection, the old one lost (the session has expired, or no other can   *)
(* be opened) or not (the table of sessions is full).                          *)
SlotFails(b) ==
  /\ Polled(b)
  /\ work[b] = "slot"
  /\ work' = [work EXCEPT ![b] = "error"]
  /\ \/ UNCHANGED <<server, orphans>>
     \/ LoseConnection /\ server' = Nothing
  /\ UNCHANGED <<run, stop, guard, told, cancels, results, entry, landed>>

Send(b) ==
  /\ Polled(b)
  /\ work[b] = "drain"
  /\ server = Nothing
  /\ server' = Current(b)
  /\ work' = [work EXCEPT ![b] = "sent"]
  /\ UNCHANGED <<run, stop, guard, told, cancels, orphans, results, entry, landed>>

(* The connection breaks under the handler, which closes it and says so. *)
Lose(b) ==
  /\ Polled(b)
  /\ work[b] \in {"drain", "sent"}
  /\ LoseConnection
  /\ server' = Nothing
  /\ work' = [work EXCEPT ![b] = "lost"]
  /\ UNCHANGED <<run, stop, guard, told, cancels, results, entry, landed>>

(* The backend ends its statement; the answer waits on the socket. *)
ServerEnds(outcome) ==
  /\ server' = Nothing
  /\ landed' = IF outcome = "success" THEN landed \cup {server} ELSE landed
  /\ work' = [b \in Batches |-> IF Awaits(b, server) THEN outcome ELSE work[b]]

ServerAnswers ==
  /\ server # Nothing
  /\ \E outcome \in {"success", "error"} : ServerEnds(outcome)
  /\ UNCHANGED <<run, stop, guard, told, cancels, orphans, results, entry>>

(* A backend without a connection ends its statement, or rolls it back. *)
OrphanEnds ==
  /\ \E s \in orphans :
       /\ orphans' = orphans \ {s}
       /\ landed' \in {landed, landed \cup {s}}
  /\ UNCHANGED <<run, stop, guard, told, work, cancels, server, results, entry>>

AfterCancel(b) ==
  /\ cancels' = [cancels EXCEPT ![b] = FALSE]
  /\ guard' = IF guard[b] = "cancel" THEN [guard EXCEPT ![b] = "grace"] ELSE guard
  /\ UNCHANGED <<run, stop, told, orphans, results, entry>>

(* pg_cancel_backend ends whatever the backend executes. *)
CancelArrives(b) ==
  /\ cancels[b]
  /\ server # Nothing
  /\ ServerEnds("error")
  /\ AfterCancel(b)

(* The backend is idle, or the pool has no connection for the cancel in 15 s. *)
CancelMisses(b) ==
  /\ cancels[b]
  /\ AfterCancel(b)
  /\ UNCHANGED <<work, server, landed>>

-----------------------------------------------------------------------------
ClientStep(b) ==
  \/ Plan(b) \/ Skip(b) \/ StartStatement(b) \/ Finish(b)
  \/ NoticeStop(b) \/ StopAgain(b)
  \/ Resolve(b) \/ Reply(b) \/ SeeStop(b) \/ GraceOver(b)
  \/ CancelArrives(b) \/ CancelMisses(b)

Next ==
  \/ \E b \in Batches : \/ StartRun(b) \/ PressStop(b) \/ TimeOut(b)
                        \/ TakeSlot(b) \/ TakeBusySlot(b) \/ TakeNewSlot(b) \/ SlotFails(b)
                        \/ Send(b) \/ Lose(b)
                        \/ ClientStep(b)
  \/ ServerAnswers \/ OrphanEnds

Spec == Init /\ [][Next]_vars

(* The runtime polls the task of a batch and its timers fire. Nothing is       *)
(* assumed of the server, of the pool, or of the 300 s timeout.               *)
FairSpec == Spec /\ \A b \in Batches : WF_vars(ClientStep(b))

-----------------------------------------------------------------------------
RunState == [at : {"idle", "planning", "refused", "loop", "run", "stopping", "done"},
             n : 1 .. Size + 1, halted : BOOLEAN, stopOnError : BOOLEAN]

(* The state of tab, batch, guard, registry and server has its types. *)
TypeOK ==
  /\ run \in [Batches -> RunState]
  /\ stop \in [Batches -> {"none", "missed", "landed"}]
  /\ guard \in [Batches -> {"none", "resolve", "race", "cancel", "grace"}]
  /\ told \in [Batches -> BOOLEAN]
  /\ work \in [Batches -> {"none", "slot", "drain", "sent", "success", "error", "lost"}]
  /\ cancels \in [Batches -> BOOLEAN]
  /\ server \in (Batches \X Index) \cup {Nothing}
  /\ orphans \subseteq Batches \X Index
  /\ results \in [Batches -> [Index -> {"none", "success", "error", "timeout", "lost", "cancelled", "skipped"}]]
  /\ entry \in [Batches -> [Index -> {"none", "ok", "error"}]]
  /\ landed \subseteq Batches \X Index

(* What reached the server is handed to the history log before its run has an  *)
(* answer, however the run ended: "its own history row" (execute_batch). A     *)
(* Stop must wait for the guard, not drop it, or a statement that ran never    *)
(* gets there. What the store makes of it is another matter: a failing insert  *)
(* is only warned about, and the statement is then without a row.              *)
ServerWorkComesToTheLog ==
  \A s \in Batches \X Index :
    (s \in (landed \cup orphans) \/ server = s) =>
      \/ Result(s) = "none" /\ Current(s[1]) = s
      \/ Entry(s) # "none"

(* Reported as a success is what the server completed: the late answer of a    *)
(* statement that was dropped is never taken for the answer of the next one,   *)
(* and the entry handed to the history log says the same.                      *)
SuccessesLanded ==
  \A s \in Batches \X Index :
    Result(s) = "success" => s \in landed /\ Entry(s) = "ok"

(* A cancelled statement, and a failed one with stop_on_error, is the last     *)
(* that ran: whatever stands behind it was skipped, and what was skipped never *)
(* reached the server or the log. Only a Stop that landed cancels.             *)
HaltedBatchesSkipTheRest ==
  /\ \A b \in Batches, i, j \in Index :
       i < j /\ Halts(results[b][i], run[b].stopOnError) =>
         results[b][j] \in {"none", "skipped"} /\ ~(run[b].n = j /\ guard[b] # "none")
  /\ \A b \in Batches, i \in Index : results[b][i] = "cancelled" => stop[b] = "landed"
  /\ \A b \in Batches, i \in Index :
       results[b][i] = "skipped" => entry[b][i] = "none" /\ <<b, i>> \notin landed

(* The cancel of a run interrupts that run, or a statement its tab had dropped *)
(* before (the guard awaits the cancel, so the backend cannot be serving the   *)
(* next run of the tab when it arrives).                                       *)
CancelsSpareLaterRuns ==
  [][\A b \in Batches :
       cancels[b] /\ ~cancels'[b] /\ server' # server =>
         server = Current(b) \/ Result(server) \in {"cancelled", "timeout"}]_vars

(* After a Stop that landed the batch ends, whatever the server does, wherever *)
(* in the three layers it landed: also in the gap before the current statement *)
(* is registered, and without a connection for the cancel.                     *)
StopEndsTheRun == \A b \in Batches : stop[b] = "landed" ~> run[b].at = "done"

(* What the layers do is what ScriptReport promises of a run: every statement  *)
(* reported once and in order, none run or landed behind one that halts, none  *)
(* reported as a success that did not land, and none that takes effect after   *)
(* it was reported but those whose report leaves that open, whatever Stop,     *)
(* timeouts, late answers, lost cancels and lost connections do in between.    *)
Report == INSTANCE ScriptReport WITH
  report <- results, strict <- [b \in Batches |-> run[b].stopOnError]
KeepsTheReport == Report!Spec

-----------------------------------------------------------------------------
(* The inductive invariant: the safety properties above and what they rest on *)

(* A tab does not start a run while it has one in flight. *)
OneRunAtATime == \A a, b \in Batches : InFlight(a) /\ InFlight(b) => a = b

(* The three layers of a batch stand where each other expects them. *)
LayersAgree ==
  \A b \in Batches :
    /\ guard[b] = "none" <=> run[b].at \notin {"run", "stopping"}
    /\ work[b] = "none" <=> guard[b] \in {"none", "resolve"}
    /\ guard[b] # "none" => run[b].n \in Index
    /\ run[b].at \in {"idle", "planning", "refused"} => run[b].n = 1
    /\ cancels[b] => guard[b] = "cancel"
    /\ (run[b].at = "stopping" \/ told[b] \/ guard[b] \in {"cancel", "grace"}) => stop[b] = "landed"

(* Nothing is reported of a statement the batch has not passed. *)
ReportsAreInOrder ==
  \A b \in Batches, i \in Index :
    /\ i >= run[b].n => results[b][i] = "none" /\ entry[b][i] = "none"
    /\ results[b][i] \in {"cancelled", "timeout", "lost"} => entry[b][i] = "error"

(* What a backend executes is waited for, or was dropped or lost. *)
ServerWorkIsKnown ==
  /\ server # Nothing => Awaits(server[1], server) \/ Result(server) \in {"cancelled", "timeout"}
  /\ \A s \in orphans :
       \/ work[s[1]] = "lost" /\ Current(s[1]) = s
       \/ Result(s) \in {"cancelled", "timeout", "lost"}
  /\ \A b \in Batches : work[b] = "success" => Current(b) \in landed
  /\ \A s \in landed : (work[s[1]] \in {"success", "lost"} /\ Current(s[1]) = s) \/ Entry(s) # "none"

(* Once a statement halts the batch, the batch knows. *)
HaltIsKept ==
  \A b \in Batches, i \in Index :
    Halts(results[b][i], run[b].stopOnError) =>
      /\ run[b].at \in {"loop", "done"}
      /\ run[b].at = "loop" => run[b].halted

(* What the refinement needs as well: what the batch has passed is reported,   *)
(* and after a skip it only skips.                                             *)
PassedIsReported == \A b \in Batches, i \in Index : i < run[b].n => results[b][i] # "none"

SkipsLast ==
  \A b \in Batches, i \in Index : results[b][i] = "skipped" =>
    /\ run[b].at \in {"loop", "done"}
    /\ run[b].at = "loop" => Stopped(b)
    /\ \A j \in Index : j > i => results[b][j] \in {"none", "skipped"}

Order == PassedIsReported /\ SkipsLast

Inv ==
  /\ TypeOK /\ OneRunAtATime /\ LayersAgree /\ ReportsAreInOrder /\ ServerWorkIsKnown /\ HaltIsKept
  /\ SuccessesLanded /\ HaltedBatchesSkipTheRest

=============================================================================
