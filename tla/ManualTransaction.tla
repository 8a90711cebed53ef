------------------------- MODULE ManualTransaction -------------------------
(***************************************************************************)
(* The manual transaction of one Postgres session                          *)
(* (src-tauri/src/integrations/postgres.rs: `tx`, `tx_open` and the pool)  *)
(* and the requests that meet in it: commit plans of pending changes       *)
(* (services/changes.rs, `commit`), statements that run without a session  *)
(* key, the Begin / Commit / Rollback buttons (services/query.rs,          *)
(* `transaction`) and the disconnect.                                      *)
(*                                                                         *)
(* A request is in one phase of one command, and a step ends where the     *)
(* code awaits: before the test of `tx_open` ("call"), at the mutex        *)
(* ("lock"), at the pool ("pool"), at the server ("run"). A change is a    *)
(* token; what became of it is the transaction that holds it (`session`),  *)
(* or `durable`, or nothing.                                               *)
(***************************************************************************)
EXTENDS Naturals, Sequences

CONSTANTS
  Plans,        \* commits of pending changes
  Runs,         \* other statements that execute
  Buttons,      \* presses of Begin, Commit or Rollback
  Disconnects,  \* the request that disconnects, if there is one
  Conns,        \* the connections of the pool
  Size,         \* changes in a plan
  Nobody,       \* no request
  NoConn        \* no connection

ASSUME SizeIsPositive == Size \in Nat \ {0}
ASSUME NoneIsNothing == Nobody \notin Plans \cup Runs \cup Buttons \cup Disconnects /\ NoConn \notin Conns
ASSUME KindsDiffer ==
  /\ Plans \cap (Runs \cup Buttons \cup Disconnects) = {}
  /\ Runs \cap (Buttons \cup Disconnects) = {}
  /\ Buttons \cap Disconnects = {}

VARIABLES
  held,        \* PostgresIntegration::tx: the pinned connection or NoConn
  holder,      \* who holds the mutex of `tx`
  txOpen,      \* PostgresIntegration::tx_open
  idle,        \* the connections lying in the pool
  poolClosed,  \* Pool::close has been called
  connected,   \* the session is listed in AppState
  session,     \* connection -> the transaction the server has on it (see Clean)
  durable,     \* the changes that are committed
  req,         \* request -> where it stands (see NotSent)
  overlapped,  \* history: the plans another request was in flight with
  beginLost    \* history: a begin_transaction was dropped after BEGIN was sent

vars == <<held, holder, txOpen, idle, poolClosed, connected, session, durable, req, overlapped, beginLost>>

Requests == Plans \cup Runs \cup Buttons \cup Disconnects

Changes(k) == IF k \in Plans THEN {k} \X (1 .. Size) ELSE {k} \X {1}

(* A session of the server: its uncommitted work, and the work there was at   *)
(* every savepoint (all are called db_free_commit, so the last one counts).   *)
Clean == [is |-> "clean", work |-> {}, marks |-> <<>>]
Lost == [is |-> "lost", work |-> {}, marks |-> <<>>]

(* `own`: the plan opened the transaction itself (run_in_new_transaction).    *)
NotSent == [at |-> "", n |-> 1, phase |-> "idle", own |-> FALSE, conn |-> NoConn, answer |-> ""]

Init ==
  /\ held = NoConn
  /\ holder = Nobody
  /\ txOpen = FALSE
  /\ idle = Conns
  /\ poolClosed = FALSE
  /\ connected = TRUE
  /\ session = [c \in Conns |-> Clean]
  /\ durable = {}
  /\ req = [k \in Requests |-> NotSent]
  /\ overlapped = {}
  /\ beginLost = FALSE

Active == {k \in Requests : req[k].phase \notin {"idle", "done"}}

-----------------------------------------------------------------------------
(* What the server does with the command of request k, sent on session s: the *)
(* session afterwards, the changes made durable, and the reply.               *)

Reply(to, kept, ok) == [to |-> to, kept |-> kept, ok |-> ok]

(* An error inside a transaction aborts it. *)
Refused(s) == Reply(IF s.is = "open" THEN [s EXCEPT !.is = "aborted"] ELSE s, {}, FALSE)

(* A change or a statement: part of the open transaction, or committed by     *)
(* itself when there is none, which a lost reply does not tell.               *)
WorkReplies(s, k) ==
  LET change == {<<k, req[k].n>>} IN
    CASE s.is = "open"  -> {Reply([s EXCEPT !.work = @ \cup change], {}, TRUE)}
      [] s.is = "clean" -> {Reply(s, change, TRUE), Reply(Lost, change, FALSE)}
      [] OTHER          -> {}

SavepointReplies(s) ==
  IF s.is = "open" THEN {Reply([s EXCEPT !.marks = Append(@, s.work)], {}, TRUE)} ELSE {}

ReleaseReplies(s) ==
  IF s.is = "open" /\ s.marks # <<>>
  THEN {Reply([s EXCEPT !.marks = SubSeq(@, 1, Len(@) - 1)], {}, TRUE)}
  ELSE {}

(* ROLLBACK TO SAVEPOINT keeps the savepoint, and revives an aborted transaction. *)
UndoReplies(s) ==
  IF s.is \in {"open", "aborted"} /\ s.marks # <<>>
  THEN {Reply([s EXCEPT !.is = "open", !.work = s.marks[Len(s.marks)]], {}, TRUE)}
  ELSE {}

(* BEGIN inside a transaction is only a warning. *)
BeginReplies(s) ==
  CASE s.is = "clean" -> {Reply([s EXCEPT !.is = "open"], {}, TRUE)}
    [] s.is = "open"  -> {Reply(s, {}, TRUE)}
    [] OTHER          -> {}

(* COMMIT of an aborted transaction rolls back and is no error; a COMMIT that *)
(* fails has rolled back as well; the reply to one that succeeded can be lost. *)
CommitReplies(s) ==
  CASE s.is = "open"    -> {Reply(Clean, s.work, TRUE), Reply(Clean, {}, FALSE), Reply(Lost, s.work, FALSE)}
    [] s.is = "aborted" -> {Reply(Clean, {}, TRUE)}
    [] OTHER            -> {}

RollbackReplies(s) == IF s.is # "lost" THEN {Reply(Clean, {}, TRUE)} ELSE {}

Replies(s, k) ==
  {Reply(Lost, {}, FALSE)} \cup
    CASE req[k].at = "commit"    -> CommitReplies(s)
      [] req[k].at = "rollback"  -> RollbackReplies(s)
      [] req[k].at = "begin"     -> {Refused(s)} \cup BeginReplies(s)
      [] req[k].at = "savepoint" -> {Refused(s)} \cup SavepointReplies(s)
      [] req[k].at = "release"   -> {Refused(s)} \cup ReleaseReplies(s)
      [] req[k].at = "undo"      -> {Refused(s)} \cup UndoReplies(s)
      [] OTHER                   -> {Refused(s)} \cup WorkReplies(s, k)

-----------------------------------------------------------------------------
(* The course of a request: the command after this one *)

Goto(k, at) ==
  [req[k] EXCEPT !.at = at, !.conn = NoConn,
                 !.phase = IF at \in {"begin", "commit", "rollback"} THEN "lock" ELSE "call"]

(* Of an answered request only the outcome of a plan is kept. *)
Answer(k, answer) ==
  [NotSent EXCEPT !.phase = "done", !.own = req[k].own, !.answer = IF k \in Plans THEN answer ELSE ""]

(* Mutant: the whole transaction is rolled back, whoever opened it. *)
NextChangeRollsBack(k, ok) ==
  CASE ok /\ req[k].n < Size -> [Goto(k, "change") EXCEPT !.n = @ + 1]
    [] ok /\ req[k].n = Size -> Goto(k, IF req[k].own THEN "commit" ELSE "release")
    [] OTHER                 -> Goto(k, "rollback")

(* run_each: the changes in order, until one fails. *)
NextChange(k, ok) ==
  CASE ok /\ req[k].n < Size -> [Goto(k, "change") EXCEPT !.n = @ + 1]
    [] ok /\ req[k].n = Size -> Goto(k, IF req[k].own THEN "commit" ELSE "release")
    [] OTHER                 -> Goto(k, IF req[k].own THEN "rollback" ELSE "undo")

(* commit: what follows the reply to the current command of a plan. *)
NextOfPlan(k, ok) ==
  CASE req[k].at = "change" -> NextChange(k, ok)
    [] req[k].at \in {"begin", "savepoint"} /\ ok -> Goto(k, "change")
    [] req[k].at \in {"commit", "release"} /\ ok  -> Answer(k, "ok")
    [] OTHER -> Answer(k, "error")

(* close goes on whatever became of its ROLLBACK. *)
Proceed(k, ok) ==
  CASE k \in Plans       -> NextOfPlan(k, ok)
    [] k \in Disconnects -> [req[k] EXCEPT !.at = "close", !.phase = "pins", !.conn = NoConn]
    [] OTHER             -> Answer(k, IF ok THEN "ok" ELSE "error")

-----------------------------------------------------------------------------
(* The requests arrive *)

Send(k, r) ==
  /\ req[k].phase = "idle"
  /\ connected
  /\ req' = [req EXCEPT ![k] = r]
  /\ overlapped' = overlapped \cup (IF Active = {} THEN {} ELSE Plans \cap ({k} \cup Active))
  /\ UNCHANGED <<held, holder, txOpen, idle, poolClosed, session, durable, beginLost>>

(* commit: the plan joins a transaction that is open, or opens its own. *)
StartPlan(p) ==
  /\ Send(p, [Goto(p, IF txOpen THEN "savepoint" ELSE "begin") EXCEPT !.own = ~txOpen])
  /\ UNCHANGED connected

StartRun(r) == Send(r, Goto(r, "statement")) /\ UNCHANGED connected

PressButton(b, step) == Send(b, Goto(b, step)) /\ UNCHANGED connected

(* remove_session unlists the session, then close ends the transaction if     *)
(* there is one now.                                                          *)
Disconnect(d) ==
  /\ Send(d, IF txOpen THEN Goto(d, "rollback") ELSE Proceed(d, TRUE))
  /\ connected' = FALSE

-----------------------------------------------------------------------------
(* execute *)

(* Mutant: execute does not look for the transaction. *)
CallMissesTransaction(k) ==
  /\ req[k].phase = "call"
  /\ req' = [req EXCEPT ![k].phase = "pool"]
  /\ UNCHANGED <<held, holder, txOpen, idle, poolClosed, connected, session, durable, overlapped, beginLost>>

(* The test of `tx_open`, without the mutex. *)
Call(k) ==
  /\ req[k].phase = "call"
  /\ req' = [req EXCEPT ![k].phase = IF txOpen THEN "lock" ELSE "pool"]
  /\ UNCHANGED <<held, holder, txOpen, idle, poolClosed, connected, session, durable, overlapped, beginLost>>

(* With the mutex: on the pinned connection, if it is still there. *)
EnterTransaction(k) ==
  /\ req[k].phase = "lock" /\ req[k].at \notin {"begin", "commit", "rollback"}
  /\ holder = Nobody
  /\ \/ /\ held # NoConn
        /\ holder' = k
        /\ req' = [req EXCEPT ![k] = [@ EXCEPT !.phase = "run", !.conn = held]]
     \/ /\ held = NoConn
        /\ req' = [req EXCEPT ![k].phase = "pool"]
        /\ UNCHANGED holder
  /\ UNCHANGED <<held, txOpen, idle, poolClosed, connected, session, durable, overlapped, beginLost>>

(* begin_transaction has the mutex, and an open transaction is an error. *)
EnterBegin(k) ==
  /\ req[k].phase = "lock" /\ req[k].at = "begin"
  /\ holder = Nobody
  /\ \/ /\ held = NoConn
        /\ holder' = k
        /\ req' = [req EXCEPT ![k].phase = "pool"]
     \/ /\ held # NoConn
        /\ req' = [req EXCEPT ![k] = Proceed(k, FALSE)]
        /\ UNCHANGED holder
  /\ UNCHANGED <<held, txOpen, idle, poolClosed, connected, session, durable, overlapped, beginLost>>

(* Mutant: `tx_open` stays set. *)
TakeTransactionKeepsFlag(k) ==
  /\ req[k].phase = "lock" /\ req[k].at \in {"commit", "rollback"}
  /\ holder = Nobody
  /\ \/ /\ held # NoConn
        /\ holder' = k
        /\ held' = NoConn
        /\ req' = [req EXCEPT ![k] = [@ EXCEPT !.phase = "run", !.conn = held]]
     \/ /\ held = NoConn
        /\ req' = [req EXCEPT ![k] = Proceed(k, FALSE)]
        /\ UNCHANGED <<holder, held>>
  /\ UNCHANGED <<txOpen, idle, poolClosed, connected, session, durable, overlapped, beginLost>>

(* end_transaction takes the connection out before it sends COMMIT or ROLLBACK. *)
TakeTransaction(k) ==
  /\ req[k].phase = "lock" /\ req[k].at \in {"commit", "rollback"}
  /\ holder = Nobody
  /\ \/ /\ held # NoConn
        /\ holder' = k
        /\ held' = NoConn
        /\ txOpen' = FALSE
        /\ req' = [req EXCEPT ![k] = [@ EXCEPT !.phase = "run", !.conn = held]]
     \/ /\ held = NoConn
        /\ req' = [req EXCEPT ![k] = Proceed(k, FALSE)]
        /\ UNCHANGED <<holder, held, txOpen>>
  /\ UNCHANGED <<idle, poolClosed, connected, session, durable, overlapped, beginLost>>

Acquire(k) ==
  /\ req[k].phase = "pool" /\ ~poolClosed
  /\ \E c \in idle :
       /\ idle' = idle \ {c}
       /\ req' = [req EXCEPT ![k] = [@ EXCEPT !.phase = "run", !.conn = c]]
  /\ UNCHANGED <<held, holder, txOpen, poolClosed, connected, session, durable, overlapped, beginLost>>

Unlocked(k) == IF holder = k THEN Nobody ELSE holder

(* The pool is closed, busy for acquire_timeout, or cannot connect. *)
AcquireFails(k) ==
  /\ req[k].phase = "pool"
  /\ holder' = Unlocked(k)
  /\ req' = [req EXCEPT ![k] = Proceed(k, FALSE)]
  /\ UNCHANGED <<held, txOpen, idle, poolClosed, connected, session, durable, overlapped, beginLost>>

(* A pooled connection is handed over as it is; a lost one is opened anew. *)
Returned(s) == IF s.is = "lost" THEN Clean ELSE s

(* Mutant: the mutex is kept. *)
SettleKeepsMutex(k, reply, pinned) ==
  LET c == req[k].conn IN
    /\ held' = IF pinned THEN c ELSE held
    /\ idle' = IF pinned THEN idle ELSE idle \cup {c}
    /\ session' = [session EXCEPT ![c] = IF pinned THEN reply.to ELSE Returned(reply.to)]
    /\ durable' = durable \cup reply.kept
    /\ UNCHANGED <<holder, poolClosed, connected, overlapped>>

(* The server has replied: the connection stays pinned, or goes to the pool. *)
Settle(k, reply, pinned) ==
  LET c == req[k].conn IN
    /\ held' = IF pinned THEN c ELSE held
    /\ idle' = IF pinned THEN idle ELSE idle \cup {c}
    /\ session' = [session EXCEPT ![c] = IF pinned THEN reply.to ELSE Returned(reply.to)]
    /\ durable' = durable \cup reply.kept
    /\ holder' = Unlocked(k)
    /\ UNCHANGED <<poolClosed, connected, overlapped>>

(* Mutant: BEGIN runs on a connection that goes straight back to the pool. *)
ReplyArrivesUnpinned(k) ==
  /\ req[k].phase = "run"
  /\ \E reply \in Replies(session[req[k].conn], k) :
       /\ Settle(k, reply, req[k].conn = held)
       /\ req' = [req EXCEPT ![k] = Proceed(k, reply.ok)]
  /\ UNCHANGED <<txOpen, beginLost>>

ReplyArrives(k) ==
  /\ req[k].phase = "run"
  /\ \E reply \in Replies(session[req[k].conn], k) :
       LET begun == req[k].at = "begin" /\ reply.ok IN
         /\ Settle(k, reply, req[k].conn = held \/ begun)
         /\ txOpen' = (txOpen \/ begun)
         /\ req' = [req EXCEPT ![k] = Proceed(k, reply.ok)]
  /\ UNCHANGED beginLost

-----------------------------------------------------------------------------
(* The guard drops a request after its timeout, and the run of a statement    *)
(* when it is stopped; a disconnect has no timeout. What the server was asked *)
(* it still does.                                                             *)

DropWaiting(k) ==
  /\ req[k].phase \in {"call", "lock", "pool"}
  /\ k \notin Disconnects
  /\ holder' = Unlocked(k)
  /\ req' = [req EXCEPT ![k] = Answer(k, "dropped")]
  /\ UNCHANGED <<held, txOpen, idle, poolClosed, connected, session, durable, overlapped, beginLost>>

DropRunning(k) ==
  /\ req[k].phase = "run"
  /\ k \notin Disconnects
  /\ \E reply \in Replies(session[req[k].conn], k) : Settle(k, reply, req[k].conn = held)
  /\ req' = [req EXCEPT ![k] = Answer(k, "dropped")]
  /\ beginLost' = (beginLost \/ req[k].at = "begin")
  /\ UNCHANGED txOpen

(* close: the sessions of the query tabs, then the pool, which waits for      *)
(* every connection to come back.                                             *)
ClosePool(d) ==
  /\ req[d].phase = "pins"
  /\ poolClosed' = TRUE
  /\ req' = [req EXCEPT ![d].phase = "drain"]
  /\ UNCHANGED <<held, holder, txOpen, idle, connected, session, durable, overlapped, beginLost>>

Closed(d) ==
  /\ req[d].phase = "drain" /\ idle = Conns
  /\ req' = [req EXCEPT ![d] = Answer(d, "ok")]
  /\ UNCHANGED <<held, holder, txOpen, idle, poolClosed, connected, session, durable, overlapped, beginLost>>

Step(k) ==
  \/ Call(k) \/ EnterTransaction(k) \/ EnterBegin(k) \/ TakeTransaction(k)
  \/ Acquire(k) \/ AcquireFails(k) \/ ReplyArrives(k)
  \/ DropWaiting(k) \/ DropRunning(k)
  \/ ClosePool(k) \/ Closed(k)

Next ==
  \/ \E p \in Plans : StartPlan(p)
  \/ \E r \in Runs : StartRun(r)
  \/ \E b \in Buttons, step \in {"begin", "commit", "rollback"} : PressButton(b, step)
  \/ \E d \in Disconnects : Disconnect(d)
  \/ \E k \in Requests : Step(k)

Spec == Init /\ [][Next]_vars

(* A request that was sent does not stay where it is for ever: the server      *)
(* answers or the guard gives up, the pool has its acquire_timeout, and the    *)
(* mutex is fair. The ROLLBACK of a disconnect has no timeout: that the server *)
(* answers it, or its connection breaks, is assumed.                           *)
FairSpec == Spec /\ \A k \in Requests : WF_vars(Step(k))

-----------------------------------------------------------------------------
(* Types *)

AllChanges == UNION {Changes(k) : k \in Plans \cup Runs}

Sessions == [is : {"clean", "open", "aborted", "lost"}, work : SUBSET AllChanges, marks : Seq(SUBSET AllChanges)]

Commands == {"", "begin", "savepoint", "change", "release", "undo", "commit", "rollback", "statement", "close"}

(* The state has its types. *)
TypeOK ==
  /\ held \in Conns \cup {NoConn}
  /\ holder \in Requests \cup {Nobody}
  /\ txOpen \in BOOLEAN
  /\ idle \subseteq Conns
  /\ poolClosed \in BOOLEAN
  /\ connected \in BOOLEAN
  /\ session \in [Conns -> Sessions]
  /\ durable \subseteq AllChanges
  /\ req \in [Requests -> [at : Commands, n : 1 .. Size, own : BOOLEAN, conn : Conns \cup {NoConn},
                           phase : {"idle", "call", "lock", "pool", "run", "pins", "drain", "done"},
                           answer : {"", "ok", "error", "dropped"}]]
  /\ overlapped \subseteq Plans
  /\ beginLost \in BOOLEAN

-----------------------------------------------------------------------------
(* Properties *)

(* The requests that run on connection c.                                     *)
Users(c) == {k \in Requests : req[k].conn = c}

(* A connection is in the pool, or pinned, or with one request that runs on   *)
(* it, and never in two of these places.                                      *)
OnePlace ==
  \A c \in Conns :
    /\ c \in idle => c # held /\ Users(c) = {}
    /\ c \notin idle /\ c # held => \E k \in Requests : Users(c) = {k}
    /\ c = held => Users(c) \subseteq {holder}

(* `tx_open` mirrors `tx.is_some()` whenever nobody holds the mutex.          *)
FlagMirrorsTransaction == txOpen <=> held # NoConn

(* No path of execute, begin, end or a dropped future leaks a connection or   *)
(* shares one, and nothing goes back to the pool inside a transaction, except *)
(* through a begin_transaction whose future was dropped after BEGIN was sent. *)
PoolIsSound == OnePlace /\ (beginLost \/ \A c \in idle : session[c] = Clean)

(* What of a plan is in the database for good. *)
Landed(p) == durable \cap Changes(p)

(* Of a plan that was answered, not dropped by the guard.                     *)
WholeOrNothing(p) == req[p].answer \in {"ok", "error"} => Landed(p) \in {{}, Changes(p)}

(* A plan that opened its own transaction and was answered ok has landed.     *)
LandedWhenOk(p) == req[p].own /\ req[p].answer = "ok" => Landed(p) = Changes(p)

(* This step is the end of a Commit the user pressed, after the guard dropped *)
(* plan p.                                                                    *)
UserCommitsAfterDrop(p) ==
  /\ req[p].answer = "dropped"
  /\ \E b \in Buttons : req[b].at = "commit" /\ req[b].phase = "run" /\ req'[b].phase = "done"

(* A plan that was answered, and that no other request overlapped, landed     *)
(* whole or not at all, whether it opened a transaction or joined one, and    *)
(* whatever the requests before and after it did; "ok" means that it landed.  *)
(* A plan that the guard dropped leaves what it had done in the pinned        *)
(* transaction, and of that a part can land, but only by the user's own       *)
(* Commit: no other plan, statement, disconnect or lost connection lands it.  *)
UndisturbedPlansLandWhole ==
  /\ [](\A p \in Plans \ overlapped : WholeOrNothing(p) /\ LandedWhenOk(p))
  /\ [][\A p \in Plans \ overlapped :
          Landed(p)' \in {Landed(p), Changes(p)} \/ UserCommitsAfterDrop(p)]_vars

(* A plan that joined a transaction and failed takes only its own changes out *)
(* of it and leaves it open, if no other request overlapped the plan.         *)
UndoTakesOnlyItsOwn(p) ==
  ~req[p].own /\ req[p].at \in {"undo", "rollback"} /\ req[p].phase = "run" /\ req'[p].phase = "done" =>
    LET c == req[p].conn IN
      \/ session'[c].is \in {"aborted", "lost"}
      \/ session[c].work \ session'[c].work \subseteq Changes(p)

UndisturbedUndoTakesOnlyItsOwn == [][\A p \in Plans \ overlapped : UndoTakesOnlyItsOwn(p)]_vars

(* A disconnect ends, unless a transaction was pinned behind its back; the    *)
(* pool then waits for a connection nobody gives back.                        *)
DisconnectEnds ==
  \A d \in Disconnects :
    req[d].phase \notin {"idle", "done"} ~> req[d].phase = "done" \/ (req[d].phase = "drain" /\ held # NoConn)

-----------------------------------------------------------------------------
(* What a comment promises, and overlapping requests break *)

(* services/changes.rs: a commit plan "either lands whole or not at all".      *)
PlansLandWhole == \A p \in Plans : WholeOrNothing(p)

-----------------------------------------------------------------------------
(* Why they hold: the invariant. First the places of the connections.          *)

InTransaction == {"savepoint", "change", "release", "undo"}
AtEnd == {"commit", "rollback"}

CommandsOf(k) ==
  CASE k \in Plans   -> InTransaction \cup AtEnd \cup {"begin"}
    [] k \in Runs    -> {"statement"}
    [] k \in Buttons -> AtEnd \cup {"begin"}
    [] OTHER         -> {"rollback"}

(* A request has a connection while it runs on it, has a command of its kind,  *)
(* and has the mutex, with nothing pinned, from BEGIN's way to the pool and    *)
(* while it ends the transaction.                                              *)
RequestFits(k) ==
  /\ req[k].phase = "idle" => req[k] = NotSent
  /\ req[k].conn # NoConn <=> req[k].phase = "run"
  /\ req[k].phase \in {"call", "lock", "pool", "run"} => req[k].at \in CommandsOf(k)
  /\ req[k].phase \in {"call", "pool"} => req[k].at \notin AtEnd
  /\ req[k].phase = "call" => req[k].at # "begin"
  /\ k \notin Plans => req[k].n = 1
  /\ req[k].at = "begin" /\ req[k].phase \in {"pool", "run"} => holder = k /\ held = NoConn
  /\ req[k].at \in AtEnd /\ req[k].phase = "run" => req[k].conn # held

RequestsFit == \A k \in Requests : RequestFits(k)

(* What runs on a connection of the pool, and does not end a transaction, does *)
(* not find one there.                                                         *)
PooledIsClean ==
  beginLost \/ \A k \in Requests :
    req[k].phase = "run" /\ req[k].conn # held /\ req[k].at \notin AtEnd => session[req[k].conn] = Clean

PoolInv == RequestsFit /\ OnePlace /\ FlagMirrorsTransaction /\ PooledIsClean /\ PoolIsSound

(* Then the plans that nobody overlaps. Session s holds, of the changes C,     *)
(* parts that are in A: in its work if it can still be committed, and at every *)
(* savepoint.                                                                  *)
Within(A, C, s) ==
  /\ s.is \in {"clean", "open"} => s.work \cap C \in A
  /\ \A i \in 1 .. Len(s.marks) : s.marks[i] \cap C \in A

(* Where plan p's transaction is.                                              *)
Tx(p) == IF req[p].conn # NoConn THEN req[p].conn ELSE held

(* A plan in flight: nothing of it is durable or at a savepoint, and its       *)
(* transaction holds the changes up to the current one.                        *)
PlanGoesOn(p) ==
  /\ Landed(p) = {}
  /\ req[p].phase \in {"call", "lock", "pool", "run"}
  /\ \A c \in Conns : \A i \in 1 .. Len(session[c].marks) : session[c].marks[i] \cap Changes(p) = {}
  /\ \A c \in Conns \ {Tx(p)} : Within({{}}, Changes(p), session[c])
  /\ req[p].at \in {"begin", "savepoint"} => req[p].n = 1 /\ \A c \in Conns : Within({{}}, Changes(p), session[c])
  /\ req[p].at = "begin" => req[p].own
  /\ req[p].at \in InTransaction =>
       /\ req[p].phase \in {"call", "lock", "run"}
       /\ held # NoConn
       /\ req[p].phase = "run" => req[p].conn = held
  /\ req[p].at \in {"savepoint", "release", "undo"} => ~req[p].own
  /\ req[p].at \in AtEnd => req[p].own /\ Tx(p) # NoConn /\ req[p].phase \in {"lock", "run"}
  /\ req[p].at \in {"undo", "rollback"} => session[Tx(p)].is \in {"aborted", "lost"}
  /\ req[p].at = "change" =>
       session[held].is = "open" /\ session[held].work \cap Changes(p) = {p} \X (1 .. req[p].n - 1)
  /\ req[p].at \in {"commit", "release"} => session[Tx(p)].is = "open" /\ Changes(p) \subseteq session[Tx(p)].work
  /\ req[p].at \in {"change", "undo"} /\ ~req[p].own =>
       LET s == session[held] IN s.marks # <<>> => s.work \ s.marks[Len(s.marks)] \subseteq Changes(p)

(* A plan that was answered: it is whole wherever some of it is left.          *)
PlanIsOver(p) ==
  /\ Landed(p) \in {{}, Changes(p)}
  /\ LandedWhenOk(p)
  /\ \A c \in Conns : Within({{}, Changes(p)}, Changes(p), session[c])

PlanInv(p) ==
  /\ p \in Active => Active = {p} /\ PlanGoesOn(p)
  /\ req[p].phase = "idle" => Landed(p) = {} /\ \A c \in Conns : Within({{}}, Changes(p), session[c])
  /\ req[p].phase = "done" /\ req[p].answer # "dropped" => PlanIsOver(p)

(* A plan that was dropped: what it left is in the pinned transaction, or in  *)
(* one that is being ended, and the end of that is nothing a plan asked for.  *)
Without(p, s) == Within({{}}, Changes(p), s)

Ending(c) == \E k \in Requests : req[k].conn = c /\ req[k].at \in AtEnd

PlanIsLeft(p) ==
  /\ \A c \in Conns : Without(p, session[c]) \/ c = held \/ Ending(c)
  /\ held # NoConn /\ ~Without(p, session[held]) => \A q \in Plans \cap Active : ~req[q].own
  /\ \A q \in Plans : req[q].phase = "run" /\ req[q].at \in AtEnd => Without(p, session[req[q].conn])

DropInv(p) == req[p].answer = "dropped" => PlanIsLeft(p)

(* A plan ends only a transaction it opened itself.                            *)
PlansEndTheirOwn == \A p \in Plans : req[p].at \in AtEnd => req[p].own

(* Nobody is answered early.                                                   *)
AnswersComeLast == \A k \in Requests : req[k].phase = "done" \/ req[k].answer = ""

Inv ==
  /\ TypeOK /\ PoolInv /\ AnswersComeLast /\ PlansEndTheirOwn
  /\ \A p \in Plans \ overlapped : PlanInv(p) /\ DropInv(p)

=============================================================================
