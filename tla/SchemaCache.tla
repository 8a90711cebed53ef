----------------------------- MODULE SchemaCache -----------------------------
(***************************************************************************)
(* The schema cache of one connection                                      *)
(* (src-tauri/src/services/schema_cache.rs, `SchemaCache`) and the step of *)
(* the guard that invalidates it after a script that may have changed the  *)
(* catalog (guard/mod.rs, step 14).                                        *)
(*                                                                         *)
(* The in-memory half is five maps, each behind a mutex of its own, and    *)
(* the app store behind another: an action is one critical section, and a  *)
(* load, a flight and an invalidation interleave between any two of them.  *)
(* The content of the catalog is the number of changes made to it so far.  *)
(***************************************************************************)
EXTENDS Integers

CONSTANTS
  Keys,        \* (database, scope) pairs of the connection: what can be asked
  Callers,     \* requests of the UI that can be loading at the same time
  Flights,     \* identities of the shared calls, reused once one is over
  Scripts,     \* guarded statements that may change the catalog
  MaxChanges,  \* bound on the changes of the catalog
  MaxEpoch,    \* bound on the invalidations of one launch
  None         \* no flight, no key

ASSUME BoundsAreNat == MaxChanges \in Nat \ {0} /\ MaxEpoch \in Nat
ASSUME NoneIsNothing == None \notin Flights \cup Keys

VARIABLES
  catalog,        \* how often the catalog of the server has changed
  epoch,          \* Inner::epochs of the connection
  table,          \* Inner::flights: key -> flight or None
  flight,         \* the calls themselves (see NoFlight)
  recent,         \* Inner::recent: key -> the answer, FRESH_FOR not yet over
  live,           \* Inner::live: keys answered live since the launch
  stored,         \* the rows of the schema_cache table of the app store
  caller,         \* caller -> where its `load_by_ids` stands (see NoCaller)
  revalidations,  \* spawned tasks: <<flight, the stored answer that was served>>
  script,         \* script -> where its guarded statement stands
  floor,          \* history: the newest change whose invalidation has returned
  told            \* the last step raised `schema-cache:updated`

memory == <<epoch, table, flight, recent, live, caller, revalidations, script>>
vars == <<catalog, memory, stored, floor, told>>

(* A kept answer: the state of the catalog it shows (0: no answer), and what  *)
(* `floor` was when the flight that brought it compared the epochs.           *)
NoAnswer == [v |-> 0, seen |-> 0]

NoFlight == [pc |-> "free", key |-> None, epoch |-> 0, answer |-> NoAnswer]

NoCaller == [pc |-> "idle", key |-> None, at |-> None, asked |-> 0]

Running == {"fetching", "fetched", "checked", "persisted", "remembered", "finishing"}

Init ==
  /\ catalog = 1
  /\ epoch = 0
  /\ table = [k \in Keys |-> None]
  /\ flight = [f \in Flights |-> NoFlight]
  /\ recent = [k \in Keys |-> NoAnswer]
  /\ live = {}
  /\ stored = [k \in Keys |-> NoAnswer]
  /\ caller = [c \in Callers |-> NoCaller]
  /\ revalidations = {}
  /\ script = [s \in Scripts |-> [pc |-> "idle", v |-> 0]]
  /\ floor = 0
  /\ told = FALSE

-----------------------------------------------------------------------------
(* SchemaCache::load_by_ids *)

Goto(c, where) == caller' = [caller EXCEPT ![c].pc = where]

(* A request that is not forced is answered from `recent` if that is fresh. *)
Ask(c, k, force) ==
  /\ caller[c].pc = "idle"
  /\ \/ /\ ~force /\ recent[k].v # 0
        /\ UNCHANGED caller
     \/ /\ force \/ recent[k].v = 0
        /\ caller' = [caller EXCEPT ![c] =
             [pc |-> IF force THEN "start" ELSE "isLive", key |-> k, at |-> None, asked |-> floor]]
  /\ told' = FALSE
  /\ UNCHANGED <<catalog, epoch, table, flight, recent, live, stored, revalidations, script, floor>>

IsLive(c) ==
  /\ caller[c].pc = "isLive"
  /\ Goto(c, IF caller[c].key \in live THEN "start" ELSE "readStored")
  /\ told' = FALSE
  /\ UNCHANGED <<catalog, epoch, table, flight, recent, live, stored, revalidations, script, floor>>

(* What read_stored found is answered as soon as the flight behind it is     *)
(* under way; `asked` keeps the answer until then.                           *)
ReadStored(c) ==
  /\ caller[c].pc = "readStored"
  /\ IF stored[caller[c].key].v = 0
       THEN Goto(c, "start")
       ELSE caller' = [caller EXCEPT ![c] = [@ EXCEPT !.pc = "serve", !.asked = stored[caller[c].key].v]]
  /\ told' = FALSE
  /\ UNCHANGED <<catalog, epoch, table, flight, recent, live, stored, revalidations, script, floor>>

(* SchemaCache::start, under the lock of the flights: join the call that is  *)
(* running for the key, or read the epoch and start another.                 *)
Board(k, f) ==
  \/ table[k] = f /\ UNCHANGED <<table, flight>>
  \/ /\ table[k] = None
     /\ flight[f].pc = "free"
     /\ table' = [table EXCEPT ![k] = f]
     /\ flight' = [flight EXCEPT ![f] =
          [pc |-> "fetching", key |-> k, epoch |-> epoch, answer |-> NoAnswer]]

Start(c) ==
  /\ caller[c].pc = "start"
  /\ \E f \in Flights :
       /\ Board(caller[c].key, f)
       /\ caller' = [caller EXCEPT ![c] = [@ EXCEPT !.pc = "waiting", !.at = f]]
  /\ told' = FALSE
  /\ UNCHANGED <<catalog, epoch, recent, live, stored, revalidations, script, floor>>

(* start and revalidate: the caller has its stored answer, a task awaits the *)
(* live one.                                                                 *)
Serve(c) ==
  /\ caller[c].pc = "serve"
  /\ \E f \in Flights :
       /\ Board(caller[c].key, f)
       /\ revalidations' = revalidations \cup {<<f, caller[c].asked>>}
  /\ caller' = [caller EXCEPT ![c] = NoCaller]
  /\ told' = FALSE
  /\ UNCHANGED <<catalog, epoch, recent, live, stored, script, floor>>

-----------------------------------------------------------------------------
(* The future of a flight *)

(* The adapter's answer shows the catalog as it was at some moment of the call. *)
FetchAnswers(f) ==
  /\ flight[f].pc = "fetching"
  /\ flight' = [flight EXCEPT ![f] = [@ EXCEPT !.pc = "fetched", !.answer.v = catalog]]
  /\ told' = FALSE
  /\ UNCHANGED <<catalog, epoch, table, recent, live, stored, caller, revalidations, script, floor>>

(* The call failed, or FETCH_TIMEOUT is over: nothing is kept. *)
FetchNeverTimesOut(f) ==
  /\ flight[f].pc = "fetching"
  /\ table[flight[f].key] # f
  /\ flight' = [flight EXCEPT ![f].pc = "finishing"]
  /\ told' = FALSE
  /\ UNCHANGED <<catalog, epoch, table, recent, live, stored, caller, revalidations, script, floor>>

FetchFails(f) ==
  /\ flight[f].pc = "fetching"
  /\ flight' = [flight EXCEPT ![f].pc = "finishing"]
  /\ told' = FALSE
  /\ UNCHANGED <<catalog, epoch, table, recent, live, stored, caller, revalidations, script, floor>>

CheckEpochNever(f) ==
  /\ flight[f].pc = "fetched"
  /\ flight' = [flight EXCEPT ![f] = [@ EXCEPT !.pc = "checked", !.answer.seen = floor]]
  /\ told' = FALSE
  /\ UNCHANGED <<catalog, epoch, table, recent, live, stored, caller, revalidations, script, floor>>

CheckEpoch(f) ==
  /\ flight[f].pc = "fetched"
  /\ flight' = IF flight[f].epoch = epoch
                 THEN [flight EXCEPT ![f] = [@ EXCEPT !.pc = "checked", !.epoch = 0, !.answer.seen = floor]]
                 ELSE [flight EXCEPT ![f] = [@ EXCEPT !.pc = "finishing", !.epoch = 0]]
  /\ told' = FALSE
  /\ UNCHANGED <<catalog, epoch, table, recent, live, stored, caller, revalidations, script, floor>>

(* A store that cannot be written is logged and otherwise ignored. *)
Persist(f) ==
  /\ flight[f].pc = "checked"
  /\ \/ stored' = [stored EXCEPT ![flight[f].key] = flight[f].answer]
     \/ UNCHANGED stored
  /\ flight' = [flight EXCEPT ![f].pc = "persisted"]
  /\ told' = FALSE
  /\ UNCHANGED <<catalog, epoch, table, recent, live, caller, revalidations, script, floor>>

RememberRecent(f) ==
  /\ flight[f].pc = "persisted"
  /\ recent' = [recent EXCEPT ![flight[f].key] = flight[f].answer]
  /\ flight' = [flight EXCEPT ![f].pc = "remembered"]
  /\ told' = FALSE
  /\ UNCHANGED <<catalog, epoch, table, live, stored, caller, revalidations, script, floor>>

RememberLive(f) ==
  /\ flight[f].pc = "remembered"
  /\ live' = live \cup {flight[f].key}
  /\ flight' = [flight EXCEPT ![f].pc = "finishing"]
  /\ told' = FALSE
  /\ UNCHANGED <<catalog, epoch, table, recent, stored, caller, revalidations, script, floor>>

(* The flight leaves the table if it is still the one listed there, and the  *)
(* shared future resolves: callers get its answer, a revalidation tells the  *)
(* UI if that is not what was served.                                        *)
Resolve(f) ==
  /\ flight[f].pc = "finishing"
  /\ flight' = [flight EXCEPT ![f] = NoFlight]
  /\ caller' = [c \in Callers |->
       IF caller[c].pc = "waiting" /\ caller[c].at = f THEN NoCaller ELSE caller[c]]
  /\ revalidations' = {t \in revalidations : t[1] # f}
  /\ told' = \E t \in revalidations : t[1] = f /\ flight[f].answer.v \notin {0, t[2]}
  /\ UNCHANGED <<catalog, epoch, recent, live, stored, script, floor>>

FinishLeavesEntry(f) == Resolve(f) /\ UNCHANGED table

(* The comparison against the row the flight has just overwritten. *)
FinishComparesWithStored(f) ==
  /\ flight[f].pc = "finishing"
  /\ flight' = [flight EXCEPT ![f] = NoFlight]
  /\ caller' = [c \in Callers |->
       IF caller[c].pc = "waiting" /\ caller[c].at = f THEN NoCaller ELSE caller[c]]
  /\ revalidations' = {t \in revalidations : t[1] # f}
  /\ told' = (flight[f].answer.v \notin {0, stored[flight[f].key].v})
  /\ table' = [k \in Keys |-> IF table[k] = f THEN None ELSE table[k]]
  /\ UNCHANGED <<catalog, epoch, recent, live, stored, script, floor>>

Finish(f) ==
  /\ Resolve(f)
  /\ table' = [k \in Keys |-> IF table[k] = f THEN None ELSE table[k]]

-----------------------------------------------------------------------------
(* SchemaCache::invalidate, called once the script is over: failed or not,   *)
(* with the catalog changed or not.                                          *)

RunScript(s) ==
  /\ script[s].pc = "idle"
  /\ epoch < MaxEpoch
  /\ \/ catalog < MaxChanges /\ catalog' = catalog + 1
     \/ UNCHANGED catalog
  /\ script' = [script EXCEPT ![s] = [pc |-> "ran", v |-> catalog']]
  /\ told' = FALSE
  /\ UNCHANGED <<epoch, table, flight, recent, live, stored, caller, revalidations, floor>>

BumpEpoch(s) ==
  /\ script[s].pc = "ran"
  /\ epoch' = epoch + 1
  /\ script' = [script EXCEPT ![s].pc = "bumped"]
  /\ told' = FALSE
  /\ UNCHANGED <<catalog, table, flight, recent, live, stored, caller, revalidations, floor>>

KeepFlights(s) ==
  /\ script[s].pc = "bumped"
  /\ script' = [script EXCEPT ![s].pc = "forgotten"]
  /\ told' = FALSE
  /\ UNCHANGED <<table, catalog, epoch, flight, recent, live, stored, caller, revalidations, floor>>

ForgetFlights(s) ==
  /\ script[s].pc = "bumped"
  /\ table' = [k \in Keys |-> None]
  /\ script' = [script EXCEPT ![s].pc = "forgotten"]
  /\ told' = FALSE
  /\ UNCHANGED <<catalog, epoch, flight, recent, live, stored, caller, revalidations, floor>>

ForgetRecent(s) ==
  /\ script[s].pc = "forgotten"
  /\ recent' = [k \in Keys |-> NoAnswer]
  /\ script' = [script EXCEPT ![s].pc = "clearing"]
  /\ told' = FALSE
  /\ UNCHANGED <<catalog, epoch, table, flight, live, stored, caller, revalidations, floor>>

(* The rows of the store go last; a failure to delete them is only logged. *)
ClearStored(s) ==
  /\ script[s].pc = "clearing"
  /\ \/ /\ stored' = [k \in Keys |-> NoAnswer]
        /\ floor' = IF script[s].v > floor THEN script[s].v ELSE floor
     \/ UNCHANGED <<stored, floor>>
  /\ script' = [script EXCEPT ![s] = [pc |-> "idle", v |-> 0]]
  /\ told' = FALSE
  /\ UNCHANGED <<catalog, epoch, table, flight, recent, live, caller, revalidations>>

-----------------------------------------------------------------------------
(* FRESH_FOR goes by. *)
Expire(k) ==
  /\ recent[k].v # 0
  /\ recent' = [recent EXCEPT ![k] = NoAnswer]
  /\ told' = FALSE
  /\ UNCHANGED <<catalog, epoch, table, flight, live, stored, caller, revalidations, script, floor>>

(* Another client changes the catalog, or a statement the guard gave up on   *)
(* (timeout, Stop) completes on the server after its invalidation.           *)
ChangeElsewhere ==
  /\ catalog < MaxChanges
  /\ catalog' = catalog + 1
  /\ told' = FALSE
  /\ UNCHANGED <<memory, stored, floor>>

(* The app quits and is started again: only the store is left. *)
Restart ==
  /\ epoch' = 0
  /\ table' = [k \in Keys |-> None]
  /\ flight' = [f \in Flights |-> NoFlight]
  /\ recent' = [k \in Keys |-> NoAnswer]
  /\ live' = {}
  /\ caller' = [c \in Callers |-> NoCaller]
  /\ revalidations' = {}
  /\ script' = [s \in Scripts |-> [pc |-> "idle", v |-> 0]]
  /\ told' = FALSE
  /\ UNCHANGED <<catalog, stored, floor>>

Keep(f) == CheckEpoch(f) \/ Persist(f) \/ RememberRecent(f) \/ RememberLive(f) \/ Finish(f)

Load(c) == IsLive(c) \/ ReadStored(c)

Invalidate(s) == BumpEpoch(s) \/ ForgetFlights(s) \/ ForgetRecent(s) \/ ClearStored(s)

Next ==
  \/ \E c \in Callers, k \in Keys, force \in BOOLEAN : Ask(c, k, force)
  \/ \E c \in Callers : Load(c) \/ Start(c) \/ Serve(c)
  \/ \E f \in Flights : FetchAnswers(f) \/ FetchFails(f) \/ Keep(f)
  \/ \E s \in Scripts : RunScript(s) \/ Invalidate(s)
  \/ \E k \in Keys : Expire(k)
  \/ ChangeElsewhere
  \/ Restart

Spec == Init /\ [][Next]_vars

(* Fairness: the runtime polls every task; the database may never answer,    *)
(* but FETCH_TIMEOUT then ends the call.  Start and Serve are strong only    *)
(* because a finite Flights can keep them waiting, which the code never does. *)
Fairness ==
  /\ \A c \in Callers : WF_vars(Load(c)) /\ SF_vars(Start(c)) /\ SF_vars(Serve(c))
  /\ \A f \in Flights : WF_vars(FetchFails(f)) /\ WF_vars(Keep(f))

FairSpec == Spec /\ Fairness

-----------------------------------------------------------------------------
Answer == [v : 0..MaxChanges, seen : 0..MaxChanges]

FlightState == [pc : Running \cup {"free"}, key : Keys \cup {None}, epoch : Nat, answer : Answer]

CallerState == [pc : {"idle", "isLive", "readStored", "start", "serve", "waiting"},
                key : Keys \cup {None}, at : Flights \cup {None}, asked : 0..MaxChanges]

ScriptState == [pc : {"idle", "ran", "bumped", "forgotten", "clearing"}, v : 0..MaxChanges]

(* The state of cache, store, flights, requests and scripts has its types. *)
TypeOK ==
  /\ catalog \in 1..MaxChanges
  /\ floor \in 0..MaxChanges
  /\ epoch \in Nat
  /\ table \in [Keys -> Flights \cup {None}]
  /\ flight \in [Flights -> FlightState]
  /\ recent \in [Keys -> Answer]
  /\ live \subseteq Keys
  /\ stored \in [Keys -> Answer]
  /\ caller \in [Callers -> CallerState]
  /\ revalidations \subseteq Flights \X (1..MaxChanges)
  /\ script \in [Scripts -> ScriptState]
  /\ told \in BOOLEAN

(* Whoever asks after an invalidation has returned, and waits for a live     *)
(* answer, gets one that shows at least the change that was invalidated:     *)
(* invalidate drops the calls that others started before it, so nobody       *)
(* joins one of those.                                                       *)
WaitersSeeInvalidatedChanges ==
  \A c \in Callers :
    caller[c].pc = "waiting" /\ flight[caller[c].at].answer.v # 0
      => flight[caller[c].at].answer.v >= caller[c].asked

(* The fence, as far as it holds: an answer kept in memory or in the store   *)
(* shows every change whose invalidation had returned when its flight        *)
(* compared the epochs.                                                      *)
KeptAnswersPassedTheFence ==
  \A k \in Keys : recent[k].v >= recent[k].seen /\ stored[k].v >= stored[k].seen

(* `flights` lists calls that are still running, each for its own key: a     *)
(* finished future would answer everybody from then on with the old catalog. *)
ListedFlightsRun ==
  \A k \in Keys : table[k] # None =>
    flight[table[k]].pc \in Running /\ flight[table[k]].key = k

(* A caller and a revalidation wait for a call that is still running, even   *)
(* when an invalidation has dropped it from the table.                       *)
AwaitedFlightsRun ==
  /\ \A c \in Callers : caller[c].pc = "waiting" => flight[caller[c].at].pc \in Running
  /\ \A t \in revalidations : flight[t[1]].pc \in Running

(* Nobody is handed a finished call: neither a new request nor one under way. *)
CallsAreRunning == ListedFlightsRun /\ AwaitedFlightsRun

(* "The UI is told when the live answer differs from what it was shown": by  *)
(* the time a revalidation is over, although its flight has overwritten the   *)
(* row that was shown; unless the app quits first.                           *)
DifferenceIsTold ==
  [][\A t \in revalidations :
       t \notin revalidations' /\ flight[t[1]].answer.v \notin {0, t[2]}
         => told' \/ Restart]_vars

(* The claim of the module comment: invalidate "also fences off a fetch that *)
(* started before the change so it cannot write a stale answer back".  Once  *)
(* an invalidation has returned, no kept answer is older than its change.    *)
NoStaleAnswerKept ==
  \A k \in Keys : \A a \in {recent[k], stored[k]} : a.v # 0 => a.v >= floor

(* Every request is answered: a flight ends even if the database hangs. *)
CallersAreAnswered == \A c \in Callers : caller[c].pc # "idle" ~> caller[c].pc = "idle"

-----------------------------------------------------------------------------
(* The inductive invariant behind the two safety claims, in named parts. *)

(* Whoever is under way names a key, a flight and an answer. *)
RefInv ==
  /\ \A c \in Callers :
       /\ caller[c].pc # "idle" => caller[c].key \in Keys
       /\ caller[c].pc = "waiting" => caller[c].at \in Flights
       /\ caller[c].pc = "serve" => caller[c].asked # 0
  /\ \A f \in Flights : flight[f].pc # "free" => flight[f].key \in Keys

(* Nothing is newer than the catalog, and nobody asked later than the floor. *)
OrderInv ==
  /\ floor <= catalog
  /\ \A s \in Scripts : script[s].v <= catalog
  /\ \A f \in Flights : flight[f].answer.v <= catalog
  /\ \A f \in Flights : flight[f].pc \in {"free", "fetching"} => flight[f].answer.v = 0
  /\ \A c \in Callers :
       caller[c].pc \in {"isLive", "readStored", "start", "waiting"} => caller[c].asked <= floor

(* An answer that passes the fence was read after its flight began, so after *)
(* every invalidation that had bumped the epoch by then.                     *)
FenceInv ==
  \A f \in Flights :
    /\ flight[f].epoch <= epoch
    /\ flight[f].pc = "fetched" /\ flight[f].epoch = epoch =>
         /\ flight[f].answer.v >= floor
         /\ \A s \in Scripts :
              script[s].pc \in {"bumped", "forgotten", "clearing"} =>
                flight[f].answer.v >= script[s].v
    /\ flight[f].pc \in {"free", "fetching", "fetched"} => flight[f].answer.seen = 0
    /\ flight[f].pc \in {"checked", "persisted"} => flight[f].answer.v >= flight[f].answer.seen

(* A call that can be joined shows what every invalidation that has emptied  *)
(* the table was about.                                                      *)
JoinInv ==
  \A k \in Keys : table[k] # None /\ flight[table[k]].pc # "fetching"
      /\ flight[table[k]].answer.v # 0 =>
    /\ flight[table[k]].answer.v >= floor
    /\ \A s \in Scripts : script[s].pc \in {"forgotten", "clearing"} =>
         flight[table[k]].answer.v >= script[s].v

Inv ==
  /\ TypeOK
  /\ RefInv
  /\ OrderInv
  /\ FenceInv
  /\ JoinInv
  /\ ListedFlightsRun
  /\ AwaitedFlightsRun
  /\ WaitersSeeInvalidatedChanges
  /\ KeptAnswersPassedTheFence
==============================================================================
