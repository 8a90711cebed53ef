--------------------------- MODULE PinnedSessions ---------------------------
(***************************************************************************)
(* The registry of pinned query-tab sessions of one database connection    *)
(* (src-tauri/src/integrations/pooling.rs, `Pins`).                        *)
(*                                                                         *)
(* A query tab that runs a script gets a connection of its own, so SET,    *)
(* temporary tables and BEGIN are still there on its next Run.  The table  *)
(* of sessions is behind a std mutex and every session (slot) behind a     *)
(* tokio mutex; the runs of the tabs, the reaper, `close` and `close_all`  *)
(* interleave at every await.  A run can also be dropped at any await: the *)
(* block around it gives up on Stop and on the request timeout.            *)
(*                                                                         *)
(* An atomic step ends where the code awaits.  The slot of a tab is looked *)
(* up under the table lock, and only then is the slot's own lock awaited:  *)
(* in between the slot may be evicted, closed or retired, and the run goes *)
(* on with a slot the table has forgotten.                                 *)
(***************************************************************************)
EXTENDS FiniteSets, Integers

CONSTANTS
  Tabs,     \* session keys: one per query tab
  Runners,  \* Run requests the app can have in flight at once
  Slots,    \* identities of the Arc<Slot> cells, reused once nobody refers to one
  Max,      \* Limits::max, the number of sessions the table holds
  None      \* no slot, no tab

ASSUME TabsFinite == IsFiniteSet(Tabs)
ASSUME MaxIsPositive == Max \in Nat \ {0}
ASSUME NoneIsNoSlot == None \notin Slots \cup Tabs

Reaper == "reaper"   \* the sweep task, as a holder of a slot's lock
Free == "free"       \* nobody holds the slot's lock

ASSUME HoldersDiffer == Reaper \notin Runners /\ Free \notin Runners

VARIABLES
  table,     \* PinsInner::slots: tab -> slot or None
  slots,     \* slot -> SlotState, and two history fields (see EmptySlot)
  lock,      \* slot -> the holder of its tokio mutex
  retiring,  \* slots a spawned `retire` task waits to close
  pc,        \* runner -> where its `Pins::run` stands
  at,        \* runner -> the Arc<Slot> it took from the table
  tab,       \* runner -> the tab it runs for
  kind,      \* runner -> whether `scan` found its script to touch session state
  reply      \* what the last step answered to the run it ended, or "none"

vars == <<table, slots, lock, retiring, pc, at, tab, kind, reply>>

Kinds == {"plain", "stateful"}

(***************************************************************************)
(* conn: none, or a connection the server still serves (live) or not       *)
(* (dead).  idle: last_used is at least probe_after ago.  stateful and     *)
(* loss are the code's flags (`unannounced_loss` is loss).  held and owed  *)
(* are history: held says the live connection really has session state,    *)
(* owed that such state was lost and the tab has not been told ("yes"), or *)
(* was being told when the run was dropped ("dropped").                    *)
(***************************************************************************)
EmptySlot == [conn |-> "none", idle |-> FALSE, stateful |-> FALSE, loss |-> FALSE,
              held |-> FALSE, owed |-> "no"]

SlotState == [conn : {"none", "live", "dead"}, idle : BOOLEAN, stateful : BOOLEAN,
              loss : BOOLEAN, held : BOOLEAN, owed : {"no", "yes", "dropped"}]

Replies == {"none", "ok", "refused", "expired", "openFailed", "lost", "dropped"}

Working == {"probing", "closingDead", "opening", "running", "closingLost"}

Init ==
  /\ table = [t \in Tabs |-> None]
  /\ slots = [s \in Slots |-> EmptySlot]
  /\ lock = [s \in Slots |-> Free]
  /\ retiring = {}
  /\ pc = [r \in Runners |-> "idle"]
  /\ at = [r \in Runners |-> None]
  /\ tab = [r \in Runners |-> None]
  /\ kind = [r \in Runners |-> "plain"]
  /\ reply = "none"

-----------------------------------------------------------------------------
(* The slots in the table, and who still refers to a slot. *)

Listed(tbl) == {tbl[t] : t \in Tabs} \ {None}

Opened(tbl) == {t \in Tabs : tbl[t] # None}

Referenced(s) ==
  \/ s \in Listed(table)
  \/ s \in retiring
  \/ \E r \in Runners : at[r] = s

(* The session state goes away without the tab hearing of it. *)
Lose(st) == [st EXCEPT !.held = FALSE, !.owed = IF st.held THEN "yes" ELSE @]

(* A run is over: it answers, lets go of the lock and of its Arc.  The last *)
(* reference to a slot the table forgot takes the connection with it.       *)
Finish(r, answer, st) ==
  LET s == at[r]
      last == /\ s \notin Listed(table) \cup retiring
              /\ \A q \in Runners \ {r} : at[q] # s
  IN /\ reply' = answer
     /\ pc' = [pc EXCEPT ![r] = "idle"]
     /\ at' = [at EXCEPT ![r] = None]
     /\ tab' = [tab EXCEPT ![r] = None]
     /\ kind' = [kind EXCEPT ![r] = "plain"]
     /\ lock' = IF lock[s] = r THEN [lock EXCEPT ![s] = Free] ELSE lock
     /\ slots' = [slots EXCEPT ![s] = IF last THEN EmptySlot ELSE st]
     /\ UNCHANGED <<table, retiring>>

(* The run goes on inside its slot, whose lock it holds. *)
Continue(r, where, st) ==
  /\ pc' = [pc EXCEPT ![r] = where]
  /\ lock' = [lock EXCEPT ![at[r]] = r]
  /\ slots' = [slots EXCEPT ![at[r]] = st]
  /\ reply' = "none"
  /\ UNCHANGED <<table, retiring, at, tab, kind>>

(* `if scan(sql).any() { state.stateful = true }`, just before the script. *)
Marked(r, st) == [st EXCEPT !.stateful = @ \/ kind[r] = "stateful"]

(* No connection: say so once if state was lost, otherwise open another.   *)
Reconnect(r, st) ==
  \/ /\ st.loss /\ st.stateful
     /\ Finish(r, "expired", [st EXCEPT !.loss = FALSE, !.stateful = FALSE, !.owed = "no"])
  \/ /\ ~(st.loss /\ st.stateful)
     /\ Continue(r, "opening", [st EXCEPT !.loss = FALSE, !.stateful = FALSE])

-----------------------------------------------------------------------------
(* PinsInner::slot *)

(* A run of tab t is at the table and takes slot s. *)
Take(r, t, k, s) ==
  /\ pc[r] = "idle"
  /\ pc' = [pc EXCEPT ![r] = "waiting"]
  /\ at' = [at EXCEPT ![r] = s]
  /\ tab' = [tab EXCEPT ![r] = t]
  /\ kind' = [kind EXCEPT ![r] = k]
  /\ reply' = "none"
  /\ UNCHANGED lock

EnterKnown(r, t, k) ==
  /\ table[t] # None
  /\ Take(r, t, k, table[t])
  /\ UNCHANGED <<table, slots, retiring>>

EnterNewOffByOne(r, t, k) ==
  /\ table[t] = None
  /\ Cardinality(Opened(table)) <= Max
  /\ \E s \in {u \in Slots : ~Referenced(u)} :
       /\ Take(r, t, k, s)
       /\ table' = [table EXCEPT ![t] = s]
       /\ slots' = [slots EXCEPT ![s] = EmptySlot]
  /\ UNCHANGED retiring

EnterNew(r, t, k) ==
  /\ table[t] = None
  /\ Cardinality(Opened(table)) < Max
  /\ \E s \in {u \in Slots : ~Referenced(u)} :
       /\ Take(r, t, k, s)
       /\ table' = [table EXCEPT ![t] = s]
       /\ slots' = [slots EXCEPT ![s] = EmptySlot]
  /\ UNCHANGED retiring

(* The table is full: a session nobody runs on makes room (the code picks   *)
(* the least recently touched one; which one makes no difference here).     *)
Victims == {v \in Tabs : table[v] # None /\ lock[table[v]] = Free}

EnterReusingVictim(r, t, k) ==
  /\ table[t] = None
  /\ Cardinality(Opened(table)) >= Max
  /\ \E v \in Victims :
       /\ Take(r, t, k, table[v])
       /\ table' = [table EXCEPT ![v] = None, ![t] = table[v]]
  /\ UNCHANGED <<slots, retiring>>

EnterEvicting(r, t, k) ==
  /\ table[t] = None
  /\ Cardinality(Opened(table)) >= Max
  /\ \E v \in Victims, s \in {u \in Slots : ~Referenced(u)} :
       /\ Take(r, t, k, s)
       /\ table' = [table EXCEPT ![v] = None, ![t] = s]
       /\ slots' = [slots EXCEPT ![s] = EmptySlot]
       /\ retiring' = retiring \cup {table[v]}

EnterRefused(r, t) ==
  /\ pc[r] = "idle"
  /\ table[t] = None
  /\ Cardinality(Opened(table)) >= Max
  /\ Victims = {}
  /\ reply' = "refused"
  /\ UNCHANGED <<table, slots, lock, retiring, pc, at, tab, kind>>

-----------------------------------------------------------------------------
(* Pins::run, from the slot's lock on *)

Lock(r) ==
  LET st == slots[at[r]]
  IN /\ pc[r] = "waiting"
     /\ lock[at[r]] = Free
     /\ \/ st.conn = "none" /\ Reconnect(r, st)
        \/ st.conn # "none" /\ st.idle /\ Continue(r, "probing", st)
        \/ st.conn # "none" /\ ~st.idle /\ Continue(r, "running", Marked(r, st))

ProbeAlive(r) ==
  /\ pc[r] = "probing"
  /\ slots[at[r]].conn = "live"
  /\ Continue(r, "running", Marked(r, slots[at[r]]))

ProbeDead(r) ==
  /\ pc[r] = "probing"
  /\ slots[at[r]].conn = "dead"
  /\ Continue(r, "closingDead", slots[at[r]])

DeadClosedForever(r) ==
  /\ pc[r] = "closingDead"
  /\ Continue(r, "closingDead", slots[at[r]])

DeadClosed(r) ==
  /\ pc[r] = "closingDead"
  /\ Reconnect(r, [slots[at[r]] EXCEPT !.conn = "none", !.loss = TRUE])

OpenSession(r) ==
  /\ pc[r] = "opening"
  /\ Continue(r, "running",
       Marked(r, [slots[at[r]] EXCEPT !.conn = "live", !.held = FALSE, !.owed = "no"]))

OpenFailed(r) ==
  /\ pc[r] = "opening"
  /\ Finish(r, "openFailed", slots[at[r]])

(* The script ran (or failed as SQL) on a connection that is still there. A *)
(* script that touches session state may leave some or clear what was there *)
(* (BEGIN and COMMIT both do); any other leaves the session as it was.      *)
RunDone(r) ==
  LET st == slots[at[r]]
  IN /\ pc[r] = "running"
     /\ st.conn = "live"
     /\ \E h \in BOOLEAN :
          /\ kind[r] = "plain" => h = st.held
          /\ Finish(r, "ok", [st EXCEPT !.idle = FALSE, !.held = h])

(* conn.lost(): taken out of the slot, then closed; the flags follow after. *)
RunLostOnAnyError(r) ==
  /\ pc[r] = "running"
  /\ Continue(r, "closingLost", [slots[at[r]] EXCEPT !.conn = "none", !.idle = FALSE])

RunLost(r) ==
  LET st == slots[at[r]]
  IN /\ pc[r] = "running"
     /\ st.conn = "dead"
     /\ Continue(r, "closingLost", [st EXCEPT !.conn = "none", !.idle = FALSE])

LostClosed(r) ==
  /\ pc[r] = "closingLost"
  /\ Finish(r, "lost", [slots[at[r]] EXCEPT !.loss = FALSE, !.stateful = FALSE, !.owed = "no"])

(* Stop or the request timeout drops the future at an await (guard::statement). *)
(* What a dropped script did on the server is not known.                        *)
Drop(r) ==
  LET st == slots[at[r]]
  IN \/ /\ pc[r] \in {"waiting", "probing", "closingDead", "opening"}
        /\ Finish(r, "dropped", st)
     \/ /\ pc[r] = "running"
        /\ \E h \in BOOLEAN :
             /\ (kind[r] = "plain" \/ st.conn = "dead") => h = st.held
             /\ Finish(r, "dropped", [st EXCEPT !.held = h])
     \/ /\ pc[r] = "closingLost"
        /\ Finish(r, "dropped", [st EXCEPT !.owed = IF @ = "yes" THEN "dropped" ELSE @])

-----------------------------------------------------------------------------
(* Pins::close and Pins::close_all: the table lets the slots go, their       *)
(* connections are closed once the slot's lock is free.                      *)
CloseTabWithoutRetire(t) ==
  /\ table[t] # None
  /\ table' = [table EXCEPT ![t] = None]
  /\ reply' = "none"
  /\ UNCHANGED <<retiring, slots, lock, pc, at, tab, kind>>

CloseTab(t) ==
  /\ table[t] # None
  /\ table' = [table EXCEPT ![t] = None]
  /\ retiring' = retiring \cup {table[t]}
  /\ reply' = "none"
  /\ UNCHANGED <<slots, lock, pc, at, tab, kind>>

CloseAll ==
  /\ Opened(table) # {}
  /\ table' = [t \in Tabs |-> None]
  /\ retiring' = retiring \cup Listed(table)
  /\ reply' = "none"
  /\ UNCHANGED <<slots, lock, pc, at, tab, kind>>

Retire(s) ==
  /\ s \in retiring
  /\ lock[s] = Free
  /\ retiring' = retiring \ {s}
  /\ slots' = [slots EXCEPT ![s] =
                 IF \E r \in Runners : at[r] = s
                 THEN [@ EXCEPT !.conn = "none", !.held = FALSE] ELSE EmptySlot]
  /\ reply' = "none"
  /\ UNCHANGED <<table, lock, pc, at, tab, kind>>

(* PinsInner::sweep, one slot: take the idle connection, close it, mark it. *)
SweepTakeUnlocked(s) ==
  /\ s \in Listed(table) \cup retiring
  /\ slots[s].conn # "none"
  /\ slots[s].idle
  /\ lock' = [lock EXCEPT ![s] = Reaper]
  /\ slots' = [slots EXCEPT ![s] = Lose([@ EXCEPT !.conn = "none"])]
  /\ reply' = "none"
  /\ UNCHANGED <<table, retiring, pc, at, tab, kind>>

SweepTake(s) ==
  /\ s \in Listed(table) \cup retiring
  /\ lock[s] = Free
  /\ slots[s].conn # "none"
  /\ slots[s].idle
  /\ lock' = [lock EXCEPT ![s] = Reaper]
  /\ slots' = [slots EXCEPT ![s] = Lose([@ EXCEPT !.conn = "none"])]
  /\ reply' = "none"
  /\ UNCHANGED <<table, retiring, pc, at, tab, kind>>

SweepUnmarked(s) ==
  /\ lock[s] = Reaper
  /\ lock' = [lock EXCEPT ![s] = Free]
  /\ reply' = "none"
  /\ UNCHANGED <<slots, table, retiring, pc, at, tab, kind>>

SweepNeverUnlocks(s) ==
  /\ lock[s] = Reaper
  /\ ~slots[s].loss
  /\ slots' = [slots EXCEPT ![s].loss = TRUE]
  /\ reply' = "none"
  /\ UNCHANGED <<lock, table, retiring, pc, at, tab, kind>>

SweepMark(s) ==
  /\ lock[s] = Reaper
  /\ lock' = [lock EXCEPT ![s] = Free]
  /\ slots' = [slots EXCEPT ![s].loss = TRUE]
  /\ reply' = "none"
  /\ UNCHANGED <<table, retiring, pc, at, tab, kind>>

(* The environment: time passes, the server or a firewall drops a session.  *)
Age(s) ==
  /\ slots[s].conn # "none" /\ ~slots[s].idle
  /\ slots' = [slots EXCEPT ![s].idle = TRUE]
  /\ reply' = "none"
  /\ UNCHANGED <<table, lock, retiring, pc, at, tab, kind>>

ServerKill(s) ==
  /\ slots[s].conn = "live"
  /\ slots' = [slots EXCEPT ![s] = Lose([@ EXCEPT !.conn = "dead"])]
  /\ reply' = "none"
  /\ UNCHANGED <<table, lock, retiring, pc, at, tab, kind>>

-----------------------------------------------------------------------------
Advance(r) ==
  \/ ProbeAlive(r) \/ ProbeDead(r) \/ DeadClosed(r)
  \/ OpenSession(r) \/ OpenFailed(r)
  \/ RunDone(r) \/ RunLost(r) \/ LostClosed(r)

Next ==
  \/ \E r \in Runners, t \in Tabs, k \in Kinds :
       EnterKnown(r, t, k) \/ EnterNew(r, t, k) \/ EnterEvicting(r, t, k)
  \/ \E r \in Runners, t \in Tabs : EnterRefused(r, t)
  \/ \E r \in Runners : Lock(r) \/ Advance(r) \/ Drop(r)
  \/ \E t \in Tabs : CloseTab(t)
  \/ CloseAll
  \/ \E s \in Slots : Retire(s) \/ SweepTake(s) \/ SweepMark(s) \/ Age(s) \/ ServerKill(s)

Spec == Init /\ [][Next]_vars

(* Fairness: the runtime keeps polling a run that is not dropped, and the    *)
(* database answers or the request timeout ends the run; tokio's mutex is    *)
(* FIFO, so a task that waits for it gets it if it is freed again and again. *)
Fairness ==
  /\ \A r \in Runners : WF_vars(Advance(r)) /\ SF_vars(Lock(r))
  /\ \A s \in Slots : SF_vars(Retire(s)) /\ WF_vars(SweepMark(s))

FairSpec == Spec /\ Fairness

-----------------------------------------------------------------------------
(* The state has its types. *)
TypeOK ==
  /\ table \in [Tabs -> Slots \cup {None}]
  /\ slots \in [Slots -> SlotState]
  /\ lock \in [Slots -> Runners \cup {Free, Reaper}]
  /\ retiring \subseteq Slots
  /\ pc \in [Runners -> {"idle", "waiting"} \cup Working]
  /\ at \in [Runners -> Slots \cup {None}]
  /\ tab \in [Runners -> Tabs \cup {None}]
  /\ kind \in [Runners -> Kinds]
  /\ reply \in Replies

(* A script in flight keeps its connection, and keeps it to itself: `close`, *)
(* `close_all`, an eviction and the reaper all wait for the script to end.   *)
ScriptKeepsItsConnection ==
  \A r \in Runners : pc[r] = "running" =>
    /\ slots[at[r]].conn # "none"
    /\ \A q \in Runners \ {r} : pc[q] \in Working => at[q] # at[r]

(* A run that uses a session of the table uses the one of its own tab, and   *)
(* no two tabs share a session, whatever was evicted while it waited.        *)
RunsOnItsOwnSession ==
  /\ \A t, u \in Tabs : table[t] = table[u] /\ table[t] # None => t = u
  /\ \A r \in Runners : at[r] \in Listed(table) => table[tab[r]] = at[r]

(* The table never holds more than `Limits::max` sessions. *)
TableWithinMax == Cardinality(Opened(table)) <= Max

(* No dedicated connection stays open on the server once nobody (the table,  *)
(* a run, a pending `retire`) can close it any more.                         *)
NoOrphanConnection == \A s \in Slots : slots[s].conn # "none" => Referenced(s)

(* A session of the table that held state is not replaced behind the tab's   *)
(* back: by the time the replacement is opened the loss was told             *)
(* (SESSION_EXPIRED or the lost-connection error), or a Stop cut that very   *)
(* answer short.                                                             *)
NoSilentReplacement ==
  \A r \in Runners : pc[r] = "opening" /\ at[r] \in Listed(table)
    => slots[at[r]].owed # "yes"

(* No run of a tab gives up a live session: a script that fails as SQL, a    *)
(* Stop, a timeout and a failed probe of somebody else all leave it open.    *)
RunKeepsLiveSession ==
  [][\A r \in Runners :
       (pc[r] \in Working /\ pc'[r] # pc[r] /\ at[r] \in Listed(table))
         => (slots[at[r]].conn = "live" => slots'[at[r]].conn = "live")]_vars

(* Every run comes back, although others queue for the same session. *)
RunsReturn == \A r \in Runners : pc[r] # "idle" ~> pc[r] = "idle"

(* What `close` and `close_all` let go of is closed in the end. *)
RetiredGetsClosed == \A s \in Slots : s \in retiring ~> s \notin retiring

-----------------------------------------------------------------------------
(* The inductive invariant behind the safety properties, in named parts.     *)

(* Whoever works inside a slot holds its lock, and the lock is held by       *)
(* nobody else than a run that works there or the reaper.                    *)
LockInv ==
  /\ \A r \in Runners : pc[r] = "idle" <=> at[r] = None
  /\ \A r \in Runners : pc[r] \in Working => lock[at[r]] = r
  /\ \A s \in Slots : lock[s] \in Runners => pc[lock[s]] \in Working /\ at[lock[s]] = s
  /\ \A s \in Slots : lock[s] = Reaper =>
       slots[s].conn = "none" /\ s \in Listed(table) \cup retiring

(* A slot is in the table once, or waits to be retired, never both; a run    *)
(* holds the slot of its own tab while the table lists it.                   *)
TableInv ==
  /\ \A t, u \in Tabs : table[t] = table[u] /\ table[t] # None => t = u
  /\ \A r \in Runners : at[r] \in Listed(table) => tab[r] \in Tabs /\ table[tab[r]] = at[r]
  /\ Listed(table) \cap retiring = {}

(* Where a run stands says whether its slot has a connection. *)
ConnInv ==
  \A r \in Runners :
    /\ pc[r] \in {"probing", "running"} => slots[at[r]].conn # "none"
    /\ pc[r] = "closingDead" => slots[at[r]].conn = "dead"
    /\ pc[r] \in {"opening", "closingLost"} => slots[at[r]].conn = "none"

(* A session of the table that holds state is flagged before the state can   *)
(* exist, and an untold loss stays visible to the next run: the connection   *)
(* is still there to be probed, or the loss is marked, or whoever holds the  *)
(* lock is about to mark it or to tell it.                                   *)
Settled(st) ==
  /\ st.held => st.stateful /\ st.conn = "live"
  /\ st.owed = "yes" => st.stateful /\ (st.conn = "dead" \/ (st.conn = "none" /\ st.loss))

LossInv ==
  /\ \A r \in Runners : pc[r] = "running" /\ kind[r] = "stateful" => slots[at[r]].stateful
  /\ \A s \in Listed(table) :
       \/ Settled(slots[s])
       \/ /\ lock[s] = Reaper \/ (lock[s] \in Runners /\ pc[lock[s]] = "closingLost")
          /\ ~slots[s].held
          /\ slots[s].owed = "yes" => slots[s].stateful
  /\ \A r \in Runners : pc[r] = "opening" /\ at[r] \in Listed(table) => slots[at[r]].owed # "yes"

Inv ==
  /\ TypeOK
  /\ LockInv
  /\ TableInv
  /\ ConnInv
  /\ LossInv
  /\ NoOrphanConnection
=============================================================================
