# A verification development for DB Free

DB Free is a desktop database client: a core in Rust (`src-tauri/src`, Tauri v2) and a React
window (`src`). This directory holds TLA+ models of the parts of it in which several things
happen at once, the TLC configurations that check them on small instances, and proofs, checked
by TLAPS, that the central claims hold for every size. Paths below are relative to the
repository; `S/` stands for `src-tauri/src/services/`, `I/` for `src-tauri/src/integrations/`.

## 1. The system

### 1.1 Parts

| part | where | state it keeps | operations | what makes it hard | what makes it correct |
|---|---|---|---|---|---|
| pinned query-tab sessions | `I/pooling.rs` (`Pins`) | table tab → slot; per slot a connection, idle time, two flags; retire tasks | run, close, close_all, sweep, evict, retire | the slot is found under one lock and used under another; a run is dropped at any await | a script keeps its connection to itself; a loss of session state is told; no connection is forgotten |
| schema cache | `S/schema_cache.rs`, `store/schema_cache.rs` | five maps of shared calls, recent answers, live keys, epochs; rows in the app store | load, revalidate, invalidate, restart | every map has a lock of its own; calls are shared; store and memory are written apart | no caller is given an answer older than an invalidation it came after; differences are told |
| manual transaction, commit plans | `I/postgres.rs`, `S/changes.rs`, `S/query.rs` | the pinned connection, the flag `tx_open`, the pool, the transaction on the server | begin, end, execute, commit of a plan, disconnect | flag and mutex are read apart; several tabs share one transaction; requests are dropped | a plan lands whole or not at all; connections come back clean |
| statement runs | `S/query.rs`, `guard/mod.rs`, `state.rs`, `src/stores/queryRuns.ts` | the batch loop, tokens by run id, the race of work and token, the history | run, stop, time out, cancel on the server | three layers, each of which can give up on the one below while the server goes on | what is reported and logged agrees with what the server did; a Stop ends the run |
| workflow planning and runs | `S/workflows/{graph,runner,mod}.rs` | the plan; per group its pass and level; results; the token | plan, run, stop | groups side by side, levels in parallel, closed paths, failures, repeats | a node runs after its feeders and only if a path to it is open; failures and Stop end what they should |
| workflow schedules | `S/workflows/{scheduler,schedule}.rs` | the armed Schedule nodes, a dirty flag, runs in flight | poll, rescan, fire | the clock, edits and runs race; `is_busy` is read before `begin` | a fire comes on time, never for a paused workflow, and is skipped while a run is on |
| documents and versions | `S/documents.rs`, `S/document_versions.rs`, `S/agent/documents/mod.rs`, `src/features/diagrams/useAutosave.ts` | documents, numbered versions | save, autosave, checkpoint, restore, rewrite, delete, prune | each is several store calls others come between; the tab counts what it saved by itself | "Saved" is true; a deleted document stays deleted; a restore loses nothing |
| agent runs | `S/agent/mod.rs`, `S/agent/tools.rs` | turns, open permission question, blanket permissions | run, ask, decide, stop | decisions come over a channel without the id of their question | nothing that changes data runs without a decision about it |
| connections | `S/connection.rs`, `state.rs` | saved rows, table of open sessions | connect, disconnect, edit, delete | an await between reading the row and registering the session | every open session belongs to a saved connection and can be closed |
| master key | `state.rs`, `adapters/{keyring,crypto}.rs` | the key, sealed secrets | look up, create, reset | a missing key and an unreadable keychain look alike | a new key is never made while secrets are sealed under an old one |
| file import | `S/{transfer,sql_import}.rs`, `commands/transfer.rs` | position in the file, the token of the run | import in chunks, stop | a failure or Stop between chunks | the report says how far it got |
| export, backup, comparisons | `S/{export,backup,data_compare,schema_diff}.rs` | none between calls | stream, run a tool, merge | file and process I/O | |
| library, home, tags, settings, history, chats | `S/*.rs`, `store/*.rs` | rows of the app store | single store calls | | what SQLite guarantees |
| guard classification | `guard/{destructive,dialect,language}.rs` | none | functions of SQL text | tokens and dialects | |
| engine adapters | `I/*.rs` (69 engines) | sessions of their drivers | the `Integration` interface | drivers, protocols | |
| window | `src/stores`, `src/features` | tabs, runs, staged changes, layout | | answers that come late or to a tab that moved on | |

### 1.2 How they interact

The window calls a Tauri command; the command runs inside the guard's block (`guard/mod.rs`),
which finds the session, classifies the statement, refuses or asks, races the work against its
token and a timeout, writes the history row, and invalidates the schema cache of the connection.
The work reaches an adapter, which runs it on the tab's pinned session (`Pins`), inside the open
manual transaction, or on a pooled connection. Whatever the guard gives up on is a dropped
future: the Rust side stops at its last await and its destructors run, the server does not stop.
Workflow nodes and imports go through the same guard. Events (`schema-cache:updated`, batch and
workflow events) go back to the window.

Where two parts meet, the models meet too: `StatementRun` takes from `PinnedSessions` that the
runs of a tab queue for one connection; `PinnedSessions` takes the drop of a run at any await
from the guard; `SchemaCache` includes the guard step that invalidates it; `WorkflowSchedule`
begins and ends the runs whose inside is `WorkflowRun`; `DocumentVersions` has the store calls of
the editor and of the assistant act on one row.

### 1.3 Modules

| module | what it is |
|---|---|
| `PinnedSessions`, `MCPinnedSessions`, `PinnedSessionsProofs` | the registry of pinned sessions, its instances, its theorems |
| `SchemaCache`, `MCSchemaCache`, `SchemaCacheProofs` | the schema cache and its invalidation |
| `ManualTransaction`, `MCManualTransaction`, `ManualTransactionProofs` | the manual transaction, commit plans, buttons, pool, disconnect |
| `StatementRun`, `MCStatementRun`, `StatementRunProofs` | a Run of the editor from the button to the server and back |
| `ScriptReport`, `StatementRunRefinement` | the contract of a run as its report shows it, and the proof that `StatementRun` implements it |
| `WorkflowGraph` | the pure functions of the workflow graph: levels, ancestors, groups, passes, refusals |
| `WorkflowRun`, `MCWorkflowRun`, `WorkflowRunProofs` | a workflow run over that plan, its instance, its theorems and those of the graph |
| `DataflowRun` | the contract of a workflow run, which `WorkflowRun` implements |
| `WorkflowSchedule`, `MCWorkflowSchedule`, `WorkflowScheduleProofs` | the clock, the armed table, the fires and the runs of one saved workflow |
| `DocumentVersions`, `MCDocumentVersions`, `DocumentVersionsProofs` | a diagram, its history, the tab that autosaves it, the assistant that rewrites it |

Where an invariant has to be strengthened to be inductive, the stronger one stands at the end of
the module it is about, and is proved in the module's `...Proofs`.

`PROJECT.json` maps every definition to the lines it stands for, lists the runs, for every
property a mutant (a plausible bug under which the property fails), the hazards, and the theorems.
Definitions whose comment begins with "Mutant" are those bugs; the specifications do not use them.

## 2. The models

A step ends where the code awaits or releases a lock another step may take. Data is reduced to
what the properties tell apart. Fields called *history* are not in the code: they record what
really happened, so that the code's own bookkeeping can be compared with it.

### 2.1 PinnedSessions (`I/pooling.rs` 457–760)

`table` is `PinsInner::slots`, `slots` the `SlotState` cells, `lock` their tokio mutexes,
`retiring` the spawned `retire` tasks, `pc`, `at`, `tab`, `kind` the position of every
`Pins::run`. `Enter*` is the lookup (known tab, new tab, eviction, refusal); `Lock` the await of
the slot's mutex with the checks after it; `Probe*`, `DeadClosed`, `Open*`, `Run*`, `LostClosed`
the awaits of a run; `Drop` the guard that gives up at any of them. `CloseTab`, `CloseAll`,
`Retire`, `SweepTake`, `SweepMark` are the rest of the interface; `Age` and `ServerKill` are time
and the network. `held` and `owed` are history: the session really holds state; its loss is not
yet told. Whether a script touches session state (`scan`) is an input. Two simplifications that no
property can tell: `Retire` takes the lock and the connection and closes it in one step, where the
code awaits the close with the slot locked (708–713), and `SweepTake` walks the slots that are listed
or retiring, where the code walks the copy it made of the table (686–692).

Properties: `ScriptKeepsItsConnection`, `RunsOnItsOwnSession`, `TableWithinMax`,
`NoOrphanConnection`, `NoSilentReplacement`, `RunKeepsLiveSession`; `RunsReturn`,
`RetiredGetsClosed` under fairness. `NoSilentReplacement` makes one exception, a loss whose
telling a Stop cut short (see 5).

### 2.2 SchemaCache (`S/schema_cache.rs`, `guard/mod.rs` step 14)

One connection, since all maps are keyed by it. An answer is the number of catalog changes it
shows, with the value `floor` (history: the newest change whose invalidation has returned) had
when its call compared the epochs. `Ask`, `IsLive`, `ReadStored`, `Start`, `Serve` are
`load_by_ids`; `Fetch*`, `CheckEpoch`, `Persist`, `RememberRecent`, `RememberLive`, `Finish` the
shared call; `RunScript`, `BumpEpoch`, `ForgetFlights`, `ForgetRecent`, `ClearStored` the guard
and `invalidate`; `Restart` forgets memory and keeps the store; `Expire`, `ChangeElsewhere` are
time and other clients. `Finish` leaves the table of calls and wakes those who await the shared
future in one step.

Properties: `WaitersSeeInvalidatedChanges`, `KeptAnswersPassedTheFence`, `CallsAreRunning`
(the calls that are listed or awaited), `DifferenceIsTold`, `CallersAreAnswered` (fair), and `NoStaleAnswerKept`,
which the code's comment promises and the code does not keep (see 5).

### 2.3 ManualTransaction (`I/postgres.rs`, `S/changes.rs`, `S/query.rs`)

`held` and `holder` are the mutex `tx` and what is in it, `txOpen` the flag, `idle` the pool,
`session` what the server has on every connection. A request (a commit plan, another statement, a
button, the disconnect) is in one phase of one command: `Call` tests the flag, `EnterTransaction`
and `EnterBegin` take or await the mutex, `TakeTransaction` looks again once it is granted,
`Acquire*` draws from the pool, `ReplyArrives` picks one of the server's replies (`Replies` gives
them, failures and lost connections included), `DropWaiting` and `DropRunning` are the guard.
`overlapped` and `beginLost` are history.

`UndisturbedPlansLandWhole` and `UndisturbedUndoTakesOnlyItsOwn` speak of plans no other request was
in flight with: for the others they do not hold (see 5). The first says that such a plan, once
answered ok or with an error, is in the database whole or not at all, and that it is there if the
answer was ok. A plan the guard *dropped* (timeout or Stop) is not undone: what it had done by then
stays in the pinned transaction, which the next request finds open. Of such a plan the property says
what it can, as a condition on steps: a part of it can land only by the Commit that the user presses
afterwards in that transaction (see 5). `PoolIsSound` (every connection is in one place, and a pooled one is
outside any transaction, unless a begin was dropped after BEGIN was sent) and
`FlagMirrorsTransaction` speak of everything; so does `DisconnectEnds` (fair).

### 2.4 StatementRun (`S/query.rs` 60–255, `guard/mod.rs` 120–231, `I/postgres.rs` 760–800, `I/pooling.rs` 568–614)

`run` is `execute_batch`, `guard` and `told` are `guard::statement` and the statement's token,
`work` the handler on the pinned connection, `server` the backend of that connection, `cancels` a
`pg_cancel_backend` under way, `entry` what was handed to `insert_history` (whether the store keeps
it is not modelled: a failing insert is only warned about), `landed` (history) what the server
completed. The handler moves only while the guard polls it (`Polled`). A statement that was dropped
stays on the server; the next run on that connection first drains its answer (`TakeBusySlot`,
`Send`), or finds the connection dead or closed and is given another (`TakeNewSlot`). A connection
may also break under a statement (`Lose`), which is then answered with the error that it "may or may
not have been applied". In both cases the backend that was left may go on with what it executes:
`orphans` are these statements, and `OrphanEnds` ends each of them, with effect or without, at any
time, also after the statements behind it.

Properties: `ServerWorkComesToTheLog`, `SuccessesLanded`, `HaltedBatchesSkipTheRest`,
`CancelsSpareLaterRuns`, `StopEndsTheRun` (fair), and `KeepsTheReport`, the refinement: with the
reports, stop_on_error and what landed as the only state, a run is `ScriptReport`, which knows no
Stop, guard, connection or server. It says that statements are reported once each and in order, that
what is reported as a success has landed, that nothing runs behind a statement that halts the script,
that what was skipped has not landed, and that what was reported as an error has not landed and will
not. Three outcomes leave it open whether the statement took effect, or will (`Open`): a timeout, a
lost connection and a cancelled statement; one of these may land after the statements behind it.

### 2.5 WorkflowGraph, WorkflowRun and DataflowRun (`S/workflows/{graph,runner,mod}.rs`)

`WorkflowGraph` has the functions of `Graph` as operators over a document: Kahn's levels, the
ancestors of the targets, groups by the Repeats above them, the number of passes, the refusals.
`WorkflowRun` lists the run (`listed`) and computes the plan at `Start`, as `execute` does; then the
connections that the nodes need are opened (`EnsureConnections`: one that fails to open is left to
the node that uses it, and nobody looks at the token meanwhile); then every group takes its own
steps: `NoticeStop` (before a pass or level), `EnterLevel` (skipping and publishing), `Pause`,
`EndNode`, `LeaveLevel`; `Finish` reads the token and reports, and `EndRun` takes the run off the
list, as `runs.end` does later. `Stop` is taken for as long as the run is listed: while it connects,
while it runs, and between report and `EndRun`, where it is accepted and changes nothing. A node is its outcome: success (a Branch with rows on any
of its sides), a closed gate, an error, stopped.

Properties: `RefusalsAreRight` (the levels against the plain definition of a cycle),
`FeedersComeFirst`, `OnlyWhatIsReachedRuns` (skipping against reachability over open edges),
`CompletedRunsRanEverything`, `StopEndsTheRun` (fair: a run whose token is cancelled before its
report ends as stopped; one that is still connecting, once it has connected), and `RunsAsADataflow`, the refinement:
`DataflowRun` is what a reader of the report is promised. It has no levels, no tasks and no pauses; the graph and its
groups are its parameters. In a pass it decides nodes that are ready, in any order and number; a node runs exactly
if it has no input or something travels along one of them; after a failure or a Stop nothing else
is decided; a pass follows one that went through; and the run ends when every group is over and
every node that was launched has ended. The mapping (`Fate`) tells the nodes that were only announced as running,
before the pause, from those that were launched. `PassesStopAtTheFirstFailure` is one of its
consequences, and is proved on its own.

### 2.6 WorkflowSchedule (`S/workflows/{scheduler,mod}.rs`, `S/documents.rs`)

One workflow. `stored` is its document, `dirty` the mark that a save sets (`marks`: saves between
their write and their mark), `armed` and `age` are `Book`, as times *left* and an age instead of
instants. A poll is `Tick` (the swap of the mark; does a read fall due?), `Read` (`wanted`), and
`Update`, `ReadFails` or `NoRead` (`apply`, `take_due`, which arms what fires anew and spawns a
task for each). A task goes through `Check`, `Ask` (`is_busy`), `Begin` (`run_saved` reads the
document again) and `RunEnds`; `RunByHand` asks nobody. Between any two of these steps come saves,
other tasks and `Restart`. `late` (polls a schedule has waited), `since` (time since a node
fired), `blind` (runs that were on without this one knowing) and `quiet` (the schedule has been
off since the fire was taken) are history.

Properties: `TableFollowsTheStore`, `SchedulesFireOnTime`, `FiresKeepTheirDistance`,
`PausedSchedulesDoNotRun`, `OnlyRacesPileUp`. That a schedule fires at all is stated as a bound
(`SchedulesFireOnTime`): no schedule waits longer than its interval and one rescan, so this module
needs no fairness. Time is a count of seconds that goes forward, by one or in leaps (a machine that
slept): the code reads the wall clock (`Utc::now`, `scheduler.rs` 76–79 and 114), and a clock that is
set back is not modelled; it would delay what is armed by as much. Every `Save` is followed by its
mark, since every writer of the repository that changes a schedule sets it (see 5 on the comment that
says otherwise). `PausedSchedulesDoNotRun` is about schedules that were off already when the fire was
taken from the table; a pause that comes later may come too late (see 5). Only interval schedules are modelled; those at a time of day differ in the
calculation of the next instant.

### 2.7 DocumentVersions (`S/document_versions.rs`, `store/document_versions.rs`, `useAutosave.ts`, ...)

One diagram. `body`, `stamp` and `versions` are its rows; `call` says at which store call each
command of the backend stands (`Check`, `ReadVersion`, `KeepOld`, `Write`, `FileNew`; each may
fail, `StoreFails`); `ed` and `queue` are the hook `useAutosave` and the tab around it: generation
counters, timers, the state it shows, the promises that run one after another. `Edit`,
`TimerFires`, `CloseTab`, `StartRun`, `SaveEnds`, `SaveFails` are the hook; `Checkpoint`,
`OpenHistory`, `Restore`, `RestoreEnds` the popovers; `ProposeRewrite` and `DecideRewrite` the
assistant, which reads the document *before* it asks; `Delete`, `Rename`, `DeleteVersion` the
sidebar; `SendReload` and `TakeReload` the list of documents, which may arrive late. A body is a
number, so that two edits differ. `typed`, `wrote` and `calm` are history.

Properties: `SavedMeansStored`, `UndisturbedReplacementsCanBeUndone`, `OnlyOldVersionsGo`,
`GoneStaysGone`, `EditsAreSavedAndFiled` (fair), and `RewritesKeepWhatTheUserHad`, which a comment
promises and the code does not keep (see 5).

## 3. The runs

| run | instance | shows |
|---|---|---|
| `pinned_sessions` | 2 tabs, 2 runs, 3 slots, table of 1 | the safety properties of 2.1, with eviction, closing, sweeping, kills and drops in every order |
| `pinned_liveness` | 1 tab, 2 runs, 1 slot | runs come back, retired sessions are closed |
| `schema_cache` | 1 key, 1 request, 2 calls, 1 script, 2 changes, 1 invalidation per launch | the properties of 2.2, under fairness |
| `schema_cache_fence` | the same | *violated*: a stale answer is kept after an invalidation |
| `manual_transaction` | 2 plans of 2 changes, 1 statement, 2 buttons, pool of 2 | the safety properties of 2.3, with drops, failures and lost connections at every command |
| `transaction_disconnect` | 1 plan, 1 statement, 2 buttons, a disconnect | a disconnect ends, unless a transaction was begun behind its check |
| `transaction_atomicity` | 2 plans | *violated*: overlapping plans do not land whole |
| `statement_run` | 2 runs of 2 statements | the properties of 2.4 and the refinement, under fairness, with connections lost and replaced |
| `workflow_run` | documents of 4 nodes, at most 3 passes | the properties of 2.5 and the refinement, under fairness, with Stop from the listing of the run to its end |
| `workflow_schedule` | 2 schedules, 2 fires at a time, 1 run by hand, intervals 1 and 2, rescan 2 | the properties of 2.6 |
| `document_versions` | 2 edits, 2 steps that are not the autosave's, 2 automatic versions kept | the properties of 2.7, under fairness |
| `document_rewrite` | 2 edits, 1 such step | *violated*: a rewrite overwrites an edit that no version has |

**Why the bounds are enough.** `pinned_sessions`: a table of one makes every second tab evict;
two runs are the least for one that waits on the other, two tabs for a slot that changes hands,
three slots for one in the table, one being retired and one still referred to. `schema_cache`:
two calls are the least for one that was dropped from the table and its successor; two changes
for one before and one after a fence; keys do not share state. The second caller is a call that
nobody awaits any more; the theorems of 6 are about any number. `manual_transaction`: two plans of
two changes are the least in which one can end the other's transaction half way; two connections
make the pinned one and a pooled one differ, and let requests queue for the pool. `statement_run`:
two statements let one halt the script before the other; two runs let one leave a statement on the
connection for the other. `workflow_run`: four nodes make a diamond, a chain of two skipped nodes,
two groups that share a node, and two Repeats above one end; the documents are the wirings
(`MCWorkflowRun`) of a Branch above a gate, of a Repeat beside a source, of a graph with a back edge
behind a trigger, and a few malformed ones. `MaxPasses` is 3 for the code's 100,000 so that four
passes are refused. `workflow_schedule`: intervals of one and two seconds stand for ten and more,
a rescan of two for thirty, so that an interval is shorter than, or as long as, the rescan; a leap
of three is a machine that sleeps through both; two fires are the least that race; `Horizon` ends
the history of fires at the longest interval. `MaxOps` counts saves, failed reads and restarts.
`document_versions`: `Keep` is 2 for the code's 20, so that a third automatic version prunes;
`MaxOps` counts commands begun by others and store calls that fail; two edits let one come while
the other is being saved.

**Symmetry** is used in `pinned_sessions`, the safety runs of `ManualTransaction`, and
`workflow_schedule` only, over identities the specification never compares but for equality; none
of these runs checks liveness. **Deadlock** is checked where the system serves for ever
(`PinnedSessions`, `SchemaCache`, `WorkflowSchedule`); the other instances have finitely many
requests, edits or steps, and end.

## 4. Fairness

Each condition stands for something the code or its runtime does.

- `PinnedSessions!Fairness`: a run goes on when its await is over (the database answers or the
  timeout around the run drops it); waiting for a slot's lock is strongly fair, since tokio's
  mutex is first-in-first-out; so are the retire tasks; a sweep that has begun ends.
- `SchemaCache!Fairness`: a request and a shared call go on between their critical sections; a
  request gets a call or joins one (strong: calls come and go); a call that the server never
  answers is ended by `FETCH_TIMEOUT`, so `FetchFails`, not `FetchAnswers`, is fair.
- `ManualTransaction!FairSpec`: every request is polled; the server answers or the request fails.
- `StatementRun!FairSpec`: only the client's steps are fair. The server may never answer and a
  cancel may never get a connection: the grace and the timeout have to do.
- `WorkflowRun!FairSpec`: the run is polled, its timer fires, and a node that was told to stop
  ends (`or_stopped` is raced against every long await). A node that was not told may run for
  ever; nothing is claimed of it. Nor is anything assumed of the opening of connections, which has
  no deadline and does not look at the token: `StopEndsTheRun` begins when they are open.
- `DocumentVersions!FairSpec`: timers of the tab fire, in the order of their delays; the queue of
  the autosave goes on; and the save command, whose store calls succeed or fail, ends. No command
  of anybody else has to.
- `WorkflowSchedule` has none: what is due in time is a safety property there.

Edits, commands of the user, closing, pressing Stop, evictions, kills, expiry and restarts are
never fair.

## 5. Where code and comments disagree

Checked by runs that find the violation:

- **A stale catalog survives an invalidation** (`schema_cache_fence`). `schema_cache.rs` 246 compares
  the epochs, 247–248 write, under no common lock; an invalidation between them is overwritten,
  although `invalidate` "also fences off a fetch that started before the change" (36–37).
  What does hold, and is proved, is `KeptAnswersPassedTheFence`: what is kept was read after every
  invalidation that had returned *when the epochs were compared*.
- **Overlapping commits are not atomic** (`transaction_atomicity`). `S/changes.rs` 463 tests
  `in_transaction()` and then begins or joins; the COMMIT of one plan ends the transaction under
  another. "Runs a commit plan so it either lands whole or not at all" (445).
- **A rewrite can lose an edit** (`document_rewrite`). `S/agent/documents/mod.rs` 75 reads the
  document, 117 waits for the user's decision, 125 files the body that was read and 132 overwrites
  the row; what the open editor autosaved meanwhile is overwritten and in no version. "Keep what
  the user had: an AI rewrite of an open document can be undone from its version history" (123).

Seen in the models by the same means and not kept as runs (the properties above are weakened by
exactly these cases):

- Eviction takes the least recently used idle session whatever it holds, and its tab is not told
  (`pooling.rs` 664; 533 says it is "kept until the tab closes").
- A run dropped while it closes a dead connection (`pooling.rs` 604) loses the message about the
  lost state: the exception in `NoSilentReplacement`.
- A retired session keeps its connection until its script ends, so a database can have more than
  `Limits::max` of them open ("Dedicated connections one database connection may hold", 469).
- A statement of another tab that fails in the open transaction makes the plan's COMMIT roll back
  without an error, and the plan answers ok (`changes.rs` 482).
- ROLLBACK TO a plan's savepoint undoes what another tab ran in between and was told ok (505;
  453 says "a failure undoes only the commit").
- A `begin_transaction` dropped after BEGIN was sent returns its connection to the pool inside the
  transaction (`postgres.rs` 809): the exception `beginLost`.
- `close` reads `tx_open` without the mutex; a begin in flight pins its connection afterwards and
  the disconnect waits for ever (848): the exception in `DisconnectEnds`.
- A plan that the guard drops (its timeout, or a Stop) is an error to the user and is not undone: it
  leaves what it had done in the pinned transaction, and a Commit that the user presses afterwards
  lands that part (`changes.rs` 445: "lands whole or not at all"). `UndisturbedPlansLandWhole` says
  that a part lands in no other way.
- A statement answered as cancelled can be sent in the grace and land (`guard/mod.rs` 188); one
  that timed out is only dropped, never cancelled (165).
- A statement can be without its "own history row" (`S/query.rs` 88): when `insert_history` fails
  the guard only warns (`guard/mod.rs` 213–231). `ServerWorkComesToTheLog` and `SuccessesLanded` speak
  of the entry that is handed over.
- When a tab's connection is lost or replaced, the next statement runs on another backend
  (`pooling.rs` 574–591, 603–614) while the first may still execute, so a statement answered with "may or
  may not have been applied" (482–487), one that timed out or one that was cancelled can land after
  the statements behind it. `ScriptReport` leaves this open for these three and excludes it for all others.
- A Stop can hit a statement that an earlier run left on the connection, and its own is sent after
  it (`postgres.rs` 449); `CancelsSpareLaterRuns` says what does hold: it never ends a statement
  that another run still waits for.
- A Repeat runs its whole group again, the nodes *before* it too (`graph.rs` 187–206); the help says
  "Runs everything after it once per iteration". A node under two groups runs in each.
- A workflow report keeps one result per node, so a failed run may list no failed node; Stop
  during the pause leaves nodes shown as running (`runner.rs` 206, 370).
- A Stop can miss its run: the window offers it before the backend has registered the run
  (`S/query.rs` 89, 118); the answer `false` is ignored (`queryRuns.ts` 237) and no second Stop is
  possible, so the script runs to its end. `StopEndsTheRun` speaks of a Stop that found its run.
- A Stop of a workflow run is accepted for as long as the run is listed, and that is longer than
  anybody looks at the token: between the reading of it (`runner.rs` 97–103) and `runs.end`
  (`workflows/mod.rs` 135) Stop answers true and the report says Completed. A Stop while the run opens
  its connections (`runner.rs` 83) takes effect only when they are open, and that has no deadline.
- A pause between `is_busy` and `begin` (`workflows/mod.rs` 138–160) comes too late: `run_saved` reads the
  document again but not whether its schedules are on, so a run begins of a workflow that is paused.
- Two Schedule nodes of a workflow that are due in one second both run: each asks `is_busy` before
  either has begun (`workflows/mod.rs` 138–160, and `NodeHelp.tsx` 28: a fire is skipped while the
  previous run is going). `OnlyRacesPileUp` is what holds.
- A tab whose last save failed takes a reload of the list over the edits it could not save
  (`DesignerTab.tsx` 216: unless "there are edits here still waiting"); a restore is shown over
  edits made while it ran; a checkpoint does not wait for the autosave, so for a moment
  an older body whose save was already on its way may overwrite it.

Seen while reading, outside the models:

- `scheduler.rs` 30–31 says that "a duplicate or an import writes the store without telling the
  scheduler". A duplicate does tell it (`documents.rs` 99) and the repository has no import of documents.
  Of the writers that change a body only the reset of the sealed secrets (`store/documents.rs` 63–70)
  does not, and it changes no schedule. So `TableFollowsTheStore` holds of the code; were there such a writer,
  the rescan would bring the table up to date after at most 30 seconds.
- A wall clock that is set back (`scheduler.rs` 76–79, 114) delays the rescan and what is armed by as
  much as it was set back.
- `schedule.rs` 116–126 advances a time of day that does not exist in steps of 15 minutes: 02:10
  in a gap from 02:00 to 03:00 becomes 03:10, not "the first minute after the gap" (113–115).
- A Stop, or the timeout of the guard, in the middle of the tool calls of a turn leaves a stored
  assistant message some of whose tool calls have no result (`S/agent/mod.rs` 336–400).
- "Allow for this run" is kept by the name of the tool, so it also covers later statements of
  the same tool that destroy data (`S/agent/mod.rs` 153–165).
- A connection whose host is edited keeps its cached catalog until it expires; a forced refresh
  joins a call that is already on its way.

## 6. What is proved

| module | theorems | the invariant |
|---|---|---|
| `PinnedSessionsProofs` | `Invariance`, `TypeCorrect`, `ScriptsKeepTheirConnections`, `SessionsAreNotShared`, `TableIsBounded`, `ConnectionsAreNotOrphaned`, `ReplacementIsAnnounced`, `LiveSessionsAreKept` | `Inv` = types, `LockInv`, `TableInv`, `ConnInv`, `LossInv` and `NoOrphanConnection` |
| `SchemaCacheProofs` | `CacheTypes`, `NobodyJoinsAStaleCall`, `TheFenceHolds`, `NobodyAwaitsAFinishedCall`, `WhoWasServedIsTold` | `Inv` = types, `RefInv`, `OrderInv`, `FenceInv`, `JoinInv` and the claims |
| `ManualTransactionProofs` | `Types`, `TheFlagIsRight`, `NoConnectionIsLost`, `AloneIsAtomic`, `UndoSparesTheOthers` | `Inv` = types, `PoolInv`, `AnswersComeLast`, `PlansEndTheirOwn`, and `PlanInv` and `DropInv` of every plan nothing overlapped |
| `StatementRunProofs` | `TypeCorrect`, `SuccessesAreReal`, `HaltsAreKept`, `HistoryIsHandedAll`, `CancelsAreAimed` | `Inv` = types, `OneRunAtATime`, `LayersAgree`, `ReportsAreInOrder`, `ServerWorkIsKnown`, `HaltIsKept`, `SuccessesLanded` and `HaltedBatchesSkipTheRest`; the other claims follow from it |
| `StatementRunRefinement` | `RunsKeepTheReport` | `Inv` and `Order` |
| `WorkflowRunProofs` | `Types`, `Order`, `Reachability`, `Completion`, `PassesInTurn`, `Refusals`, `RunsAreDataflows` | `Inv` = `Shape`, `PlanInv`, `Reports`, `Stages` and, of every group, `GroupInv` |
| `WorkflowScheduleProofs` | `Types`, `TableIsUpToDate`, `PausesHold`, `RunsDoNotPileUp`, `FiresAreOnTime`, `FiresAreApart` | `Inv` = types, `BookInv`, `FiresKnow` and `OnlyRacesPileUp` |
| `DocumentVersionsProofs` | `Types`, `SavedIsStored`, `TheDeletedStaysDeleted`, `ReplacementsCanBeUndone`, `CheckpointsStay` | `SaveInv` = `Shapes`, `ScreenIsTyped`, `SaveIsSound` and `SavedMeansStored`; `HistoryInv` = types, `SaveIsQueued`, `RewriteAsksFirst` and `ReplacedIsFiled` |

They hold for every value of the constants under the named assumptions of each module (finite
tabs and a positive limit; bounds that are numbers; intervals that are positive; at least two
automatic versions kept; "nothing" values that are not among the things they stand for). Every
invariant was first checked by TLC. With them every safety property that a passing run checks,
invariant or action property, is a theorem.

*Pinned sessions.* The claims alone are not inductive: that a script keeps its connection depends
on who holds which lock (`LockInv`), that no two tabs share a slot and no retiring slot is in the
table (`TableInv`), that the place of a run fixes what its slot has (`ConnInv`), and that the
flags of a listed slot at rest agree with the history (`LossInv`, by `Settled`). One lemma says
that leaving a slot keeps all this, one that going on inside it does; each action is then an
instance or a short lemma.

*Schema cache.* `WaitersSeeInvalidatedChanges` needs that a call that can still be joined and has
its answer shows every change whose script has got as far as dropping the calls (`JoinInv`), and
that nobody asked later than the last invalidation that returned (`OrderInv`).
`KeptAnswersPassedTheFence` needs that an answer in hand under the present epoch shows every
change whose script has bumped it, since the call began before that only with an older epoch, and
that the value of `floor` at the comparison is carried by the call until it writes (`FenceInv`).
`DifferenceIsTold` rests on one fact: only the end of its own call, or a restart, ends the task of a
revalidation (`TasksEndWithTheirFlight`).

*Statement runs.* The heart is `LayersAgree`: which positions of batch, guard and work go
together. With one run at a time on a tab, and reports in order, it gives that an answer awaited
is the answer to the run's own statement, and that what a backend without a connection still executes
was answered as lost, timed out or cancelled, or is about to be answered as lost
(`ServerWorkIsKnown`), whence the claims. The refinement needs besides that what a batch has passed is
reported, and that after a skip it only skips (`Order`). A step that reports nothing either lands a
statement (whose report is still to come or leaves that open) or is a stutter of the contract; every
other step reports one statement.

*Manual transaction.* Three layers, each proved on top of the one before. `PoolInv`: who is on
which connection, who has the mutex, and what stands open where; it alone gives
`FlagMirrorsTransaction` and `PoolIsSound`, for all requests. Then `AnswersComeLast`, and that a plan
ends only a transaction it began (`PlansEndTheirOwn`). `PlanInv(p)`, for a
plan while nothing overlaps it: nothing of it is durable or at a savepoint, its transaction holds
exactly the changes up to the current one, and no other session holds any (`PlanGoesOn`); once it
has answered, it is whole in every place some of it is left in, the durable changes, the work of a
session and every savepoint (`PlanIsOver`). The last is what makes it inductive: a later COMMIT,
ROLLBACK or ROLLBACK TO of anybody moves the plan as one piece. For a plan the guard dropped,
`DropInv(p)`: what is left of it is on the pinned connection, or on one whose transaction is being
ended, and while it is pinned no plan runs in a transaction of its own, so that no plan's COMMIT can land it.

*Workflow runs.* Here the planning has to be proved first, and it is all loops. `WorkflowGraph`
writes them as recursive functions, which for the prover are the CHOOSEn solutions of an equation;
the induction theorems of the library take operators, which the provers cannot instantiate, but
that every set of numbers has a least one is a fact about sets, and `SetInduction`, `Iteration` (the
loop has a solution) and `Saturation` (a growing set of nodes stands still after as many rounds as
there are nodes) follow. With them: the ancestors are the least closed set around the targets; a
round of Kahn's algorithm, which counts edges down, takes exactly the nodes that nothing which is
left feeds (`RoundsPeel`), so that its levels are in order (`LevelsAreInOrder`); the nodes that are
left over each have a feeder that is, and among those the one with the fewest ancestors is its own
ancestor, while a node on a circle never gets a level (`CirclesAreNoticed`); and the passes are a
positive number (`PassesArePositive`). A plan that is not refused is therefore sound
(`PlansAreSound`), for every finite document. The runner keeps to it: the levels before the current
one are decided and did not fail, those after it are untouched, a task that ended early had a reason
to, the stages of the run agree with where its groups stand (`Stages`), what is decided is in the
report, and a decided node was skipped exactly if all its edges are closed (`GroupInv`). The last makes `OnlyWhatIsReachedRuns` an induction over the levels. It is kept
because a node that ends in one level feeds only later ones (`ClosedByFeeders`). The refinement adds nothing
to the invariant: when a task is about to enter a level, all that feeds it is decided and nothing
of the group runs (`AtALevel`), so the nodes of the level are ready, and closed in the eyes of the runner
exactly if they are in those of the dataflow; each step is then an instance of one of its actions or changes nothing
of what is seen (`FlowStep`). The end of the run needs that a task which ended without a Stop either
got through or has a failed node and nothing running (`Ended`). The assumptions are
that the nodes are finitely many (`NodesAreFinite`) and that the documents are graphs over them
(`DocumentsAreGraphs`).

*Workflow schedules.* No step of a task touches the book, and of the steps of the book only a poll
and a save touch tasks, so the invariant has two parts. For the table: what a poll has read is what
the store says, unless a save is under way or has set its mark since (`ReadsAreMarked`). For time,
a potential: of a schedule that is armed, the polls it waited plus the time left stay below
interval plus rescan; of one that is not armed yet, the polls stay below the age of the last scan
(`WaitsAreBounded`). For the distance of fires, the time since the last fire plus the time left is
at least the interval (`TimersAreSpaced`). For tasks: a fire that has found the workflow idle knows
of every run that began since (`FiresKnow`).

*Documents.* A save on its way saves a generation between the last saved one and the current one;
if it is the current one, what it carries is the last edit; and once it has written, the store has
it unless somebody wrote later (`SaveIsSound`). All steps but the edits and the autosave leave
these alone (`Bystander`). `TheDeletedStaysDeleted` needs only that no command reaches its write but
by finding the document.

For the history, first what pruning does. The ranks of a finite set of places are 1 up to its
cardinality, each taken once (`RanksDiffer`, `RanksAreTaken`), so that what is chosen are the
versions at these places (`PlaceOfRank`, `ChosenFacts`). With `KEEP_AUTOMATIC` at least two the newest two versions
are always among them, and a version that goes leaves as many unnamed ones as are kept. The
assumption `KeepIsEnough` is needed: were only one kept, the version of the restored body would
push out the one of the body it replaced (the code keeps 20). `ReplacedIsFiled` then follows a
command that nobody disturbs: what it is about to replace is what it has read, and once it has filed
that, it is the newest version until its own is filed.
Every step of another that touches the document or its history ends the calm, so for the rest each action has a
lemma of a few lines.

**Model-checked only** are the liveness properties (`RunsReturn`, `RetiredGetsClosed`,
`CallersAreAnswered`, `DisconnectEnds`, `StopEndsTheRun` of both modules and
`EditsAreSavedAndFiled`): the provers have no rule for fairness and ENABLED that would apply here.

## 7. What is not modelled

Text and value conversion (splitters, the guard's classification, result formatting, import and
export formats), drivers and network protocols, cryptography, SQLite itself, and rendering: their
outcomes are inputs of the models. This is most of the repository: 69 adapters, each of which
builds requests and converts values behind one interface, and a window that draws what it is told.
What they add is mostly sequential: a wrong string or a wrong type, which unit tests reach and a
model of their control would not. Engines other than Postgres are covered where
they share code (`Pins`, the guard, the batch loop); MySQL has the transaction logic of Postgres in
its own lines (`mysql.rs` 2020–2119), SQLite one of its own.

In the parts that are modelled: the previews that plan the SQL of staged changes, scripts with
transaction control of their own, reruns of a single statement (they have a run id nobody holds, so
no Stop reaches them), runs without a session key, the event stream of workflows, schedules at a
time of day, names of documents (a rename in the sidebar can be undone by an autosave that was
built before the list reached the tab), and a tab that is opened again.

Not modelled although they have state: connecting, editing and deleting a connection
(`S/connection.rs`; a connect that read the row before its deletion registers a session for a
connection that is gone), the turns of the assistant (`S/agent/mod.rs`; a decision carries no call
id), the master key, and imports, which send one chunk after another through the guard.

## 8. What could follow

1. `Connections`: the table of sessions against the rows, with connect, edit, delete and the close
   of a session between them, above `PinnedSessions` and `ManualTransaction`.
2. `AgentRun`: turns, questions, decisions, blanket permissions and Stop; claim: no tool runs
   without a decision that was made about it.
3. Reruns in `StatementRun`, beside the runs of a tab.
