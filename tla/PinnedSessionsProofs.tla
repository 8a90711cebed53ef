------------------------ MODULE PinnedSessionsProofs ------------------------
(***************************************************************************)
(* Proofs about PinnedSessions, for any number of tabs, runs, slots and    *)
(* any limit: Inv is inductive and implies the safety properties.          *)
(***************************************************************************)
EXTENDS PinnedSessions, FiniteSetTheorems, TLAPS

USE NoneIsNoSlot, HoldersDiffer DEF Reaper, Free, Kinds, Working, Replies

(* A run that is not idle has a slot, and whoever works inside a slot is     *)
(* the only one there.                                                       *)
LEMMA HoldsSlot ==
  ASSUME Inv, NEW r \in Runners, pc[r] # "idle"
  PROVE  /\ at[r] \in Slots
         /\ slots[at[r]] \in SlotState
         /\ tab[r] \in Tabs \cup {None}
  BY DEF Inv, TypeOK, LockInv

(* The end of a run keeps the invariant, whatever it answers, if it leaves   *)
(* a settled slot behind, or does not touch a slot it only waited for.       *)
LEMMA FinishStep ==
  ASSUME Inv, NEW r \in Runners, pc[r] # "idle",
         NEW answer \in Replies, NEW st \in SlotState,
         Finish(r, answer, st),
         \/ pc[r] = "waiting" /\ st = slots[at[r]]
         \/ lock[at[r]] \in {Free, r} /\ (at[r] \in Listed(table) => Settled(st))
  PROVE  Inv'
<1>1. at[r] \in Slots
  BY HoldsSlot
<1>2. EmptySlot \in SlotState /\ EmptySlot.conn = "none"
  BY DEF EmptySlot, SlotState
<1>3. slots' \in [Slots -> SlotState]
  BY <1>1, <1>2 DEF Inv, TypeOK, Finish
<1>4. TypeOK'
  BY <1>1, <1>3 DEF Inv, TypeOK, Finish
<1>5. LockInv'
  BY <1>1, <1>2 DEF Inv, TypeOK, LockInv, ConnInv, Finish, Listed
<1>6. TableInv'
  BY <1>1 DEF Inv, TypeOK, LockInv, TableInv, Finish, Listed
<1>7. ConnInv'
  BY <1>1, <1>2 DEF Inv, TypeOK, LockInv, ConnInv, Finish, Listed
<1>8. LossInv'
  BY <1>1, <1>2 DEF Inv, TypeOK, LockInv, ConnInv, LossInv, Finish, Listed
<1>9. NoOrphanConnection'
  BY <1>1, <1>2 DEF Inv, TypeOK, NoOrphanConnection, Referenced, Finish, Listed
<1> QED
  BY <1>4, <1>5, <1>6, <1>7, <1>8, <1>9 DEF Inv

(* Going on inside a slot keeps the invariant if the slot fits the place the *)
(* run goes on to.                                                           *)
LEMMA ContinueStep ==
  ASSUME Inv, NEW r \in Runners, NEW where \in Working, NEW st \in SlotState,
         pc[r] \in Working \/ (pc[r] = "waiting" /\ lock[at[r]] = Free),
         Continue(r, where, st),
         where \in {"probing", "running"} => st.conn # "none",
         where = "closingDead" => st.conn = "dead",
         where \in {"opening", "closingLost"} => st.conn = "none",
         where = "running" /\ kind[r] = "stateful" => st.stateful,
         at[r] \in Listed(table) =>
           \/ Settled(st)
           \/ where = "closingLost" /\ ~st.held /\ (st.owed = "yes" => st.stateful),
         at[r] \in Listed(table) /\ where = "opening" => st.owed # "yes"
  PROVE  Inv'
<1>1. at[r] \in Slots
  BY HoldsSlot
<1>2. slots' \in [Slots -> SlotState]
  BY <1>1 DEF Inv, TypeOK, Continue
<1>3. TypeOK'
  BY <1>1, <1>2 DEF Inv, TypeOK, Continue
<1>4. LockInv'
  BY <1>1 DEF Inv, TypeOK, LockInv, ConnInv, Continue, Listed
<1>5. TableInv'
  BY DEF Inv, TableInv, Continue, Listed
<1>6. ConnInv'
  BY <1>1 DEF Inv, TypeOK, LockInv, ConnInv, Continue
<1>7. LossInv'
  BY <1>1 DEF Inv, TypeOK, LockInv, ConnInv, LossInv, Continue, Listed
<1>8. NoOrphanConnection'
  BY <1>1 DEF Inv, TypeOK, LockInv, NoOrphanConnection, Referenced, Continue, Listed
<1> QED
  BY <1>3, <1>4, <1>5, <1>6, <1>7, <1>8 DEF Inv

-----------------------------------------------------------------------------
(* Taking a slot from the table. *)

LEMMA EnterStep ==
  ASSUME Inv, NEW r \in Runners, NEW t \in Tabs, NEW k \in Kinds,
         EnterKnown(r, t, k) \/ EnterNew(r, t, k) \/ EnterEvicting(r, t, k)
  PROVE  Inv'
<1>1. CASE EnterKnown(r, t, k)
  <2>1. TypeOK'
    BY <1>1 DEF Inv, TypeOK, EnterKnown, Take
  <2>2. LockInv'
    BY <1>1 DEF Inv, TypeOK, LockInv, EnterKnown, Take, Listed
  <2>3. TableInv'
    BY <1>1 DEF Inv, TypeOK, LockInv, TableInv, EnterKnown, Take, Listed
  <2>4. ConnInv' /\ LossInv'
    BY <1>1 DEF Inv, TypeOK, LockInv, ConnInv, LossInv, EnterKnown, Take, Listed
  <2>5. NoOrphanConnection'
    BY <1>1 DEF Inv, TypeOK, LockInv, NoOrphanConnection, Referenced, EnterKnown, Take, Listed
  <2> QED
    BY <2>1, <2>2, <2>3, <2>4, <2>5 DEF Inv
<1>2. CASE EnterNew(r, t, k) \/ EnterEvicting(r, t, k)
  <2>1. PICK s \in Slots, gone \in SUBSET Tabs :
          /\ ~Referenced(s)
          /\ Take(r, t, k, s)
          /\ table[t] = None
          /\ table' = [u \in Tabs |-> IF u = t THEN s ELSE IF u \in gone THEN None ELSE table[u]]
          /\ slots' = [slots EXCEPT ![s] = EmptySlot]
          /\ \A u \in gone : table[u] # None
          /\ retiring' = retiring \cup {table[u] : u \in gone}
    <3>1. CASE EnterNew(r, t, k)
      <4>1. PICK s \in Slots :
              /\ ~Referenced(s) /\ Take(r, t, k, s)
              /\ table' = [table EXCEPT ![t] = s] /\ slots' = [slots EXCEPT ![s] = EmptySlot]
        BY <3>1 DEF EnterNew
      <4>2. table' = [u \in Tabs |-> IF u = t THEN s ELSE IF u \in {} THEN None ELSE table[u]]
        BY <4>1 DEF Inv, TypeOK
      <4>3. retiring' = retiring \cup {table[u] : u \in {}} /\ table[t] = None
        BY <3>1 DEF EnterNew
      <4> QED
        BY <4>1, <4>2, <4>3
    <3>2. CASE EnterEvicting(r, t, k)
      <4>1. PICK s \in Slots, v \in Victims :
              /\ ~Referenced(s) /\ Take(r, t, k, s)
              /\ table' = [table EXCEPT ![v] = None, ![t] = s]
              /\ slots' = [slots EXCEPT ![s] = EmptySlot]
              /\ retiring' = retiring \cup {table[v]}
        BY <3>2 DEF EnterEvicting
      <4>2. v \in Tabs /\ table[v] # None /\ table[t] = None
        BY <3>2, <4>1 DEF Victims, EnterEvicting
      <4>3. table' = [u \in Tabs |-> IF u = t THEN s ELSE IF u \in {v} THEN None ELSE table[u]]
        BY <4>1, <4>2 DEF Inv, TypeOK
      <4>4. retiring' = retiring \cup {table[u] : u \in {v}}
        BY <4>1
      <4> QED
        BY <4>1, <4>2, <4>3, <4>4
    <3> QED
      BY <1>2, <3>1, <3>2
  <2>2. EmptySlot \in SlotState /\ EmptySlot.conn = "none" /\ Settled(EmptySlot)
    BY DEF EmptySlot, SlotState, Settled
  <2>3. s \notin Listed(table) /\ s \notin retiring /\ \A q \in Runners : at[q] # s
    BY <2>1 DEF Referenced
  <2>4. lock[s] = Free
    BY <2>3 DEF Inv, TypeOK, LockInv
  <2>5. TypeOK'
    BY <2>1, <2>2 DEF Inv, TypeOK, Take
  <2>6. Listed(table') \subseteq Listed(table) \cup {s}
    BY <2>1 DEF Listed, Inv, TypeOK
  <2>7. Listed(table) \subseteq Listed(table') \cup retiring'
    BY <2>1 DEF Listed, Inv, TypeOK
  <2>8. LockInv'
    BY <2>1, <2>3, <2>4, <2>7 DEF Inv, TypeOK, LockInv, Take
  <2>9. TableInv'
    <3>1. \A u \in Tabs : table[u] # s
      BY <2>3 DEF Listed
    <3>2. \A u, w \in Tabs : table'[u] = table'[w] /\ table'[u] # None => u = w
      BY <2>1, <3>1 DEF Inv, TableInv
    <3>3. ASSUME NEW q \in Runners, at'[q] \in Listed(table')
          PROVE  tab'[q] \in Tabs /\ table'[tab'[q]] = at'[q]
      <4>1. CASE q = r
        BY <2>1, <4>1 DEF Inv, TypeOK, Take
      <4>2. CASE q # r
        <5>1. at'[q] = at[q] /\ tab'[q] = tab[q] /\ at[q] # s
          BY <2>1, <2>3, <4>2 DEF Inv, TypeOK, Take
        <5>2. PICK u \in Tabs : table'[u] = at[q] /\ at[q] # None
          BY <3>3, <5>1 DEF Listed
        <5>3. table[u] = at[q] /\ u # t /\ u \notin gone
          BY <2>1, <5>1, <5>2
        <5>4. tab[q] \in Tabs /\ tab[q] = u
          BY <5>2, <5>3 DEF Inv, TableInv, Listed
        <5> QED
          BY <2>1, <5>1, <5>2, <5>3, <5>4
      <4> QED
        BY <4>1, <4>2
    <3>4. Listed(table') \cap retiring' = {}
      BY <2>1, <2>3, <3>1 DEF Inv, TableInv, Listed
    <3> QED
      BY <3>2, <3>3, <3>4 DEF TableInv
  <2>10. ConnInv'
    BY <2>1, <2>3 DEF Inv, TypeOK, LockInv, ConnInv, Take
  <2>11. LossInv'
    BY <2>1, <2>2, <2>3, <2>4, <2>6 DEF Inv, TypeOK, LockInv, LossInv, Take
  <2>12. NoOrphanConnection'
    BY <2>1, <2>2, <2>3, <2>7 DEF Inv, TypeOK, LockInv, NoOrphanConnection, Referenced, Take
  <2> QED
    BY <2>5, <2>8, <2>9, <2>10, <2>11, <2>12 DEF Inv
<1> QED
  BY <1>1, <1>2

-----------------------------------------------------------------------------
(* A run inside its slot: each step is the end of the run or goes on.        *)

LEMMA ReconnectStep ==
  ASSUME Inv, NEW r \in Runners, NEW st \in SlotState, Reconnect(r, st),
         pc[r] \in Working \/ (pc[r] = "waiting" /\ lock[at[r]] = Free),
         st.conn = "none",
         at[r] \in Listed(table) => Settled(st)
  PROVE  Inv'
<1>1. pc[r] # "idle" /\ lock[at[r]] \in {Free, r}
  BY DEF Inv, LockInv
<1>2. CASE st.loss /\ st.stateful /\
           Finish(r, "expired", [st EXCEPT !.loss = FALSE, !.stateful = FALSE, !.owed = "no"])
  <2> DEFINE new == [st EXCEPT !.loss = FALSE, !.stateful = FALSE, !.owed = "no"]
  <2>1. new \in SlotState
    BY DEF SlotState
  <2>2. at[r] \in Listed(table) => Settled(new)
    BY DEF SlotState, Settled
  <2> QED
    BY <1>1, <1>2, <2>1, <2>2, FinishStep
<1>3. CASE ~(st.loss /\ st.stateful) /\
           Continue(r, "opening", [st EXCEPT !.loss = FALSE, !.stateful = FALSE])
  <2> DEFINE new == [st EXCEPT !.loss = FALSE, !.stateful = FALSE]
  <2>1. new \in SlotState /\ new.conn = "none"
    BY DEF SlotState
  <2>2. at[r] \in Listed(table) => Settled(new) /\ new.owed # "yes"
    BY <1>3 DEF SlotState, Settled
  <2> QED
    BY <1>3, <2>1, <2>2, ContinueStep
<1> QED
  BY <1>2, <1>3 DEF Reconnect

(* A slot of the table whose lock is free, or held by a run that is not      *)
(* closing a lost connection, is settled.                                    *)
LEMMA SlotSettled ==
  ASSUME Inv, NEW r \in Runners, pc[r] # "idle", at[r] \in Listed(table),
         \/ lock[at[r]] = Free
         \/ lock[at[r]] = r /\ pc[r] # "closingLost"
  PROVE  Settled(slots[at[r]])
  BY DEF Inv, LossInv, LockInv

LEMMA LockStep ==
  ASSUME Inv, NEW r \in Runners, Lock(r)
  PROVE  Inv'
<1> DEFINE st == slots[at[r]]
<1>1. pc[r] = "waiting" /\ lock[at[r]] = Free /\ st \in SlotState
  BY HoldsSlot DEF Lock
<1>2. at[r] \in Listed(table) => Settled(st)
  BY <1>1, SlotSettled
<1>3. CASE st.conn = "none" /\ Reconnect(r, st)
  BY <1>1, <1>2, <1>3, ReconnectStep
<1>4. CASE st.conn # "none" /\ st.idle /\ Continue(r, "probing", st)
  BY <1>1, <1>2, <1>4, ContinueStep
<1>5. CASE st.conn # "none" /\ ~st.idle /\ Continue(r, "running", Marked(r, st))
  <2>1. /\ Marked(r, st) \in SlotState
        /\ Marked(r, st).conn # "none"
        /\ kind[r] = "stateful" => Marked(r, st).stateful
        /\ at[r] \in Listed(table) => Settled(Marked(r, st))
    BY <1>1, <1>2, <1>5 DEF Marked, SlotState, Settled
  <2> QED
    BY <1>1, <1>5, <2>1, ContinueStep
<1> QED
  BY <1>3, <1>4, <1>5 DEF Lock

LEMMA AdvanceStep ==
  ASSUME Inv, NEW r \in Runners, Advance(r)
  PROVE  Inv'
<1> DEFINE st == slots[at[r]]
<1>1. pc[r] \in Working /\ pc[r] # "idle" /\ lock[at[r]] = r /\ st \in SlotState
  <2>1. pc[r] \in Working
    BY DEF Advance, ProbeAlive, ProbeDead, DeadClosed, OpenSession, OpenFailed, RunDone, RunLost, LostClosed
  <2> QED
    BY <2>1, HoldsSlot DEF Inv, LockInv
<1>2. at[r] \in Listed(table) /\ pc[r] # "closingLost" => Settled(st)
  BY <1>1, SlotSettled
<1>3. CASE ProbeAlive(r)
  <2>1. /\ Marked(r, st) \in SlotState
        /\ Marked(r, st).conn # "none"
        /\ kind[r] = "stateful" => Marked(r, st).stateful
        /\ at[r] \in Listed(table) => Settled(Marked(r, st))
    BY <1>1, <1>2, <1>3 DEF ProbeAlive, Marked, SlotState, Settled
  <2> QED
    BY <1>1, <1>3, <2>1, ContinueStep DEF ProbeAlive
<1>4. CASE ProbeDead(r)
  BY <1>1, <1>2, <1>4, ContinueStep DEF ProbeDead
<1>5. CASE DeadClosed(r)
  <2> DEFINE new == [st EXCEPT !.conn = "none", !.loss = TRUE]
  <2>1. new \in SlotState /\ new.conn = "none"
    BY <1>1 DEF SlotState
  <2>2. at[r] \in Listed(table) => Settled(new)
    BY <1>1, <1>2, <1>5 DEF DeadClosed, SlotState, Settled, Inv, ConnInv
  <2> QED
    BY <1>1, <1>5, <2>1, <2>2, ReconnectStep DEF DeadClosed
<1>6. CASE OpenSession(r)
  <2> DEFINE new == Marked(r, [st EXCEPT !.conn = "live", !.held = FALSE, !.owed = "no"])
  <2>1. /\ new \in SlotState
        /\ new.conn # "none"
        /\ kind[r] = "stateful" => new.stateful
        /\ Settled(new)
    BY <1>1 DEF Marked, SlotState, Settled
  <2> QED
    BY <1>1, <1>6, <2>1, ContinueStep DEF OpenSession
<1>7. CASE OpenFailed(r)
  BY <1>1, <1>2, <1>7, FinishStep DEF OpenFailed
<1>8. CASE RunDone(r)
  <2>1. PICK h \in BOOLEAN :
          /\ kind[r] = "plain" => h = st.held
          /\ Finish(r, "ok", [st EXCEPT !.idle = FALSE, !.held = h])
    BY <1>8 DEF RunDone
  <2> DEFINE new == [st EXCEPT !.idle = FALSE, !.held = h]
  <2>2. new \in SlotState
    BY <1>1 DEF SlotState
  <2>3. at[r] \in Listed(table) => Settled(new)
    BY <1>1, <1>2, <1>8, <2>1 DEF RunDone, SlotState, Settled, Inv, TypeOK, LossInv
  <2> QED
    BY <1>1, <2>1, <2>2, <2>3, FinishStep
<1>9. CASE RunLost(r)
  <2> DEFINE new == [st EXCEPT !.conn = "none", !.idle = FALSE]
  <2>1. new \in SlotState /\ new.conn = "none"
    BY <1>1 DEF SlotState
  <2>2. at[r] \in Listed(table) => ~new.held /\ (new.owed = "yes" => new.stateful)
    BY <1>1, <1>2, <1>9 DEF RunLost, SlotState, Settled
  <2> QED
    BY <1>1, <1>9, <2>1, <2>2, ContinueStep DEF RunLost
<1>10. CASE LostClosed(r)
  <2> DEFINE new == [st EXCEPT !.loss = FALSE, !.stateful = FALSE, !.owed = "no"]
  <2>1. new \in SlotState
    BY <1>1 DEF SlotState
  <2>2. at[r] \in Listed(table) => Settled(new)
    BY <1>1, <1>10 DEF LostClosed, SlotState, Settled, Inv, LossInv, LockInv, ConnInv
  <2> QED
    BY <1>1, <1>10, <2>1, <2>2, FinishStep DEF LostClosed
<1> QED
  BY <1>3, <1>4, <1>5, <1>6, <1>7, <1>8, <1>9, <1>10 DEF Advance

LEMMA DropStep ==
  ASSUME Inv, NEW r \in Runners, Drop(r)
  PROVE  Inv'
<1> DEFINE st == slots[at[r]]
<1>1. pc[r] # "idle" /\ st \in SlotState
  BY HoldsSlot DEF Drop
<1>2. pc[r] # "waiting" => lock[at[r]] = r
  BY <1>1 DEF Inv, LockInv, TypeOK
<1>3. at[r] \in Listed(table) /\ pc[r] \notin {"waiting", "closingLost"} => Settled(st)
  BY <1>1, <1>2, SlotSettled
<1>4. CASE pc[r] \in {"waiting", "probing", "closingDead", "opening"} /\ Finish(r, "dropped", st)
  BY <1>1, <1>2, <1>3, <1>4, FinishStep
<1>5. CASE pc[r] = "running" /\ \E h \in BOOLEAN :
             /\ (kind[r] = "plain" \/ st.conn = "dead") => h = st.held
             /\ Finish(r, "dropped", [st EXCEPT !.held = h])
  <2>1. PICK h \in BOOLEAN :
          /\ (kind[r] = "plain" \/ st.conn = "dead") => h = st.held
          /\ Finish(r, "dropped", [st EXCEPT !.held = h])
    BY <1>5
  <2> DEFINE new == [st EXCEPT !.held = h]
  <2>2. new \in SlotState
    BY <1>1 DEF SlotState
  <2>3. at[r] \in Listed(table) => Settled(new)
    BY <1>1, <1>3, <1>5, <2>1 DEF SlotState, Settled, Inv, TypeOK, ConnInv, LossInv
  <2> QED
    BY <1>1, <1>2, <1>5, <2>1, <2>2, <2>3, FinishStep
<1>6. CASE pc[r] = "closingLost" /\
           Finish(r, "dropped", [st EXCEPT !.owed = IF @ = "yes" THEN "dropped" ELSE @])
  <2> DEFINE new == [st EXCEPT !.owed = IF @ = "yes" THEN "dropped" ELSE @]
  <2>1. new \in SlotState
    BY <1>1 DEF SlotState
  <2>2. at[r] \in Listed(table) => Settled(new)
    BY <1>1, <1>2, <1>6 DEF SlotState, Settled, Inv, LossInv, LockInv
  <2> QED
    BY <1>1, <1>2, <1>6, <2>1, <2>2, FinishStep
<1> QED
  BY <1>4, <1>5, <1>6 DEF Drop

-----------------------------------------------------------------------------
(* Closing, retiring and sweeping, and the environment. *)

LEMMA CloseTabStep ==
  ASSUME Inv, NEW t \in Tabs, CloseTab(t)
  PROVE  Inv'
<1>1. slots' \in [Slots -> SlotState]
  <2>1. slots \in [Slots -> SlotState]
    BY DEF Inv, TypeOK
  <2> QED
    BY <2>1 DEF CloseTab, SlotState
<1>2. TypeOK'
  BY <1>1 DEF Inv, TypeOK, CloseTab
<1>3. LockInv'
  BY DEF Inv, TypeOK, LockInv, CloseTab, SlotState, Listed
<1>4. TableInv'
  BY DEF Inv, TypeOK, TableInv, CloseTab, Listed
<1>5. ConnInv'
  BY DEF Inv, TypeOK, LockInv, ConnInv, CloseTab, SlotState
<1>6. LossInv'
  BY DEF Inv, TypeOK, LockInv, ConnInv, LossInv, Settled, CloseTab, SlotState, Listed
<1>7. NoOrphanConnection'
  BY DEF Inv, TypeOK, LockInv, NoOrphanConnection, Referenced, CloseTab, SlotState, Listed
<1> QED
  BY <1>2, <1>3, <1>4, <1>5, <1>6, <1>7 DEF Inv

LEMMA CloseAllStep ==
  ASSUME Inv, CloseAll
  PROVE  Inv'
<1>1. slots' \in [Slots -> SlotState]
  <2>1. slots \in [Slots -> SlotState]
    BY DEF Inv, TypeOK
  <2> QED
    BY <2>1 DEF CloseAll, SlotState
<1>2. TypeOK'
  BY <1>1 DEF Inv, TypeOK, CloseAll, Listed
<1>3. LockInv'
  BY DEF Inv, TypeOK, LockInv, CloseAll, SlotState, Listed
<1>4. TableInv'
  BY DEF Inv, TypeOK, TableInv, CloseAll, Listed
<1>5. ConnInv'
  BY DEF Inv, TypeOK, LockInv, ConnInv, CloseAll, SlotState
<1>6. LossInv'
  BY DEF Inv, TypeOK, LockInv, ConnInv, LossInv, Settled, CloseAll, SlotState, Listed
<1>7. NoOrphanConnection'
  BY DEF Inv, TypeOK, LockInv, NoOrphanConnection, Referenced, CloseAll, SlotState, Listed
<1> QED
  BY <1>2, <1>3, <1>4, <1>5, <1>6, <1>7 DEF Inv

(* A slot that loses its session state is still a slot. *)
LEMMA LoseKeepsType ==
  ASSUME NEW st \in SlotState
  PROVE  Lose(st) \in SlotState
<1>1. st.owed \in {"no", "yes", "dropped"}
  BY DEF SlotState
<1>2. CASE st.held
  BY <1>1, <1>2 DEF Lose, SlotState
<1>3. CASE ~st.held
  BY <1>1, <1>3 DEF Lose, SlotState
<1> QED
  BY <1>2, <1>3

LEMMA RetireStep ==
  ASSUME Inv, NEW s \in Slots, Retire(s)
  PROVE  Inv'
<1>1. slots' \in [Slots -> SlotState]
  <2>1. slots \in [Slots -> SlotState]
    BY DEF Inv, TypeOK
  <2>2. slots[s] \in SlotState /\ EmptySlot \in SlotState
    BY <2>1 DEF EmptySlot, SlotState
  <2>3. CASE \E r \in Runners : at[r] = s
    <3>1. slots' = [slots EXCEPT ![s] = [slots[s] EXCEPT !.conn = "none", !.held = FALSE]]
      BY <2>3 DEF Retire
    <3>2. [slots[s] EXCEPT !.conn = "none", !.held = FALSE] \in SlotState
      BY <2>2 DEF SlotState
    <3> QED
      BY <2>1, <3>1, <3>2
  <2>4. CASE ~(\E r \in Runners : at[r] = s)
    <3>1. slots' = [slots EXCEPT ![s] = EmptySlot]
      BY <2>4 DEF Retire
    <3> QED
      BY <2>1, <2>2, <3>1
  <2> QED
    BY <2>3, <2>4
<1>2. TypeOK'
  BY <1>1 DEF Inv, TypeOK, Retire, EmptySlot
<1>3. LockInv'
  BY DEF Inv, TypeOK, LockInv, Retire, EmptySlot, SlotState, Listed
<1>4. TableInv'
  BY DEF Inv, TypeOK, TableInv, Retire, EmptySlot, Listed
<1>5. ConnInv'
  BY DEF Inv, TypeOK, LockInv, ConnInv, Retire, EmptySlot, SlotState
<1>6. LossInv'
  BY DEF Inv, TypeOK, LockInv, ConnInv, TableInv, LossInv, Settled, Retire, EmptySlot, SlotState, Listed
<1>7. NoOrphanConnection'
  BY DEF Inv, TypeOK, LockInv, NoOrphanConnection, Referenced, Retire, EmptySlot, SlotState, Listed
<1> QED
  BY <1>2, <1>3, <1>4, <1>5, <1>6, <1>7 DEF Inv

LEMMA SweepTakeStep ==
  ASSUME Inv, NEW s \in Slots, SweepTake(s)
  PROVE  Inv'
<1>1. slots' \in [Slots -> SlotState]
  <2>1. slots \in [Slots -> SlotState]
    BY DEF Inv, TypeOK
  <2>2. [slots[s] EXCEPT !.conn = "none"] \in SlotState
    BY <2>1 DEF SlotState
  <2>3. slots' = [slots EXCEPT ![s] = Lose([slots[s] EXCEPT !.conn = "none"])]
    BY DEF SweepTake
  <2> QED
    BY <2>1, <2>2, <2>3, LoseKeepsType
<1>2. TypeOK'
  BY <1>1 DEF Inv, TypeOK, SweepTake, Lose
<1>3. LockInv'
  BY DEF Inv, TypeOK, LockInv, SweepTake, Lose, SlotState, Listed
<1>4. TableInv'
  BY DEF Inv, TypeOK, TableInv, SweepTake, Lose, Listed
<1>5. ConnInv'
  BY DEF Inv, TypeOK, LockInv, ConnInv, SweepTake, Lose, SlotState
<1>6. LossInv'
  BY DEF Inv, TypeOK, LockInv, ConnInv, LossInv, Settled, SweepTake, Lose, SlotState, Listed
<1>7. NoOrphanConnection'
  BY DEF Inv, TypeOK, LockInv, NoOrphanConnection, Referenced, SweepTake, Lose, SlotState, Listed
<1> QED
  BY <1>2, <1>3, <1>4, <1>5, <1>6, <1>7 DEF Inv

LEMMA SweepMarkStep ==
  ASSUME Inv, NEW s \in Slots, SweepMark(s)
  PROVE  Inv'
<1>1. slots' \in [Slots -> SlotState]
  <2>1. slots \in [Slots -> SlotState]
    BY DEF Inv, TypeOK
  <2> QED
    BY <2>1 DEF SweepMark, SlotState
<1>2. TypeOK'
  BY <1>1 DEF Inv, TypeOK, SweepMark
<1>3. LockInv'
  BY DEF Inv, TypeOK, LockInv, SweepMark, SlotState, Listed
<1>4. TableInv'
  BY DEF Inv, TypeOK, TableInv, SweepMark, Listed
<1>5. ConnInv'
  BY DEF Inv, TypeOK, LockInv, ConnInv, SweepMark, SlotState
<1>6. LossInv'
  BY DEF Inv, TypeOK, LockInv, ConnInv, LossInv, Settled, SweepMark, SlotState, Listed
<1>7. NoOrphanConnection'
  BY DEF Inv, TypeOK, LockInv, NoOrphanConnection, Referenced, SweepMark, SlotState, Listed
<1> QED
  BY <1>2, <1>3, <1>4, <1>5, <1>6, <1>7 DEF Inv

LEMMA AgeStep ==
  ASSUME Inv, NEW s \in Slots, Age(s)
  PROVE  Inv'
<1>1. slots' \in [Slots -> SlotState]
  <2>1. slots \in [Slots -> SlotState]
    BY DEF Inv, TypeOK
  <2> QED
    BY <2>1 DEF Age, SlotState
<1>2. TypeOK'
  BY <1>1 DEF Inv, TypeOK, Age
<1>3. LockInv'
  BY DEF Inv, TypeOK, LockInv, Age, SlotState, Listed
<1>4. TableInv'
  BY DEF Inv, TypeOK, TableInv, Age, Listed
<1>5. ConnInv'
  BY DEF Inv, TypeOK, LockInv, ConnInv, Age, SlotState
<1>6. LossInv'
  BY DEF Inv, TypeOK, LockInv, ConnInv, LossInv, Settled, Age, SlotState, Listed
<1>7. NoOrphanConnection'
  BY DEF Inv, TypeOK, LockInv, NoOrphanConnection, Referenced, Age, SlotState, Listed
<1> QED
  BY <1>2, <1>3, <1>4, <1>5, <1>6, <1>7 DEF Inv

LEMMA ServerKillStep ==
  ASSUME Inv, NEW s \in Slots, ServerKill(s)
  PROVE  Inv'
<1>1. slots' \in [Slots -> SlotState]
  <2>1. slots \in [Slots -> SlotState]
    BY DEF Inv, TypeOK
  <2>2. [slots[s] EXCEPT !.conn = "dead"] \in SlotState
    BY <2>1 DEF SlotState
  <2>3. slots' = [slots EXCEPT ![s] = Lose([slots[s] EXCEPT !.conn = "dead"])]
    BY DEF ServerKill
  <2> QED
    BY <2>1, <2>2, <2>3, LoseKeepsType
<1>2. TypeOK'
  BY <1>1 DEF Inv, TypeOK, ServerKill, Lose
<1>3. LockInv'
  BY DEF Inv, TypeOK, LockInv, ServerKill, Lose, SlotState, Listed
<1>4. TableInv'
  BY DEF Inv, TypeOK, TableInv, ServerKill, Lose, Listed
<1>5. ConnInv'
  BY DEF Inv, TypeOK, LockInv, ConnInv, ServerKill, Lose, SlotState
<1>6. LossInv'
  BY DEF Inv, TypeOK, LockInv, ConnInv, LossInv, Settled, ServerKill, Lose, SlotState, Listed
<1>7. NoOrphanConnection'
  BY DEF Inv, TypeOK, LockInv, NoOrphanConnection, Referenced, ServerKill, Lose, SlotState, Listed
<1> QED
  BY <1>2, <1>3, <1>4, <1>5, <1>6, <1>7 DEF Inv

-----------------------------------------------------------------------------
(* Inv is an invariant of the specification. *)

THEOREM Invariance == Spec => []Inv
<1>1. Init => Inv
  <2> SUFFICES ASSUME Init PROVE Inv
    OBVIOUS
  <2>1. EmptySlot \in SlotState /\ EmptySlot.conn = "none" /\ Settled(EmptySlot)
    BY DEF EmptySlot, SlotState, Settled
  <2>2. TypeOK
    BY <2>1 DEF Init, TypeOK
  <2>3. LockInv /\ TableInv /\ ConnInv /\ LossInv /\ NoOrphanConnection
    BY <2>1 DEF Init, LockInv, TableInv, ConnInv, LossInv, NoOrphanConnection, Listed
  <2> QED
    BY <2>2, <2>3 DEF Inv
<1>2. Inv /\ [Next]_vars => Inv'
  <2> SUFFICES ASSUME Inv, [Next]_vars PROVE Inv'
    OBVIOUS
  <2>1. CASE \E r \in Runners, t \in Tabs, k \in Kinds :
               EnterKnown(r, t, k) \/ EnterNew(r, t, k) \/ EnterEvicting(r, t, k)
    BY <2>1, EnterStep
  <2>2. CASE \E r \in Runners, t \in Tabs : EnterRefused(r, t)
    BY <2>2 DEF EnterRefused, Inv, TypeOK, LockInv, TableInv, ConnInv, LossInv, Settled,
                NoOrphanConnection, Referenced, Listed
  <2>3. CASE \E r \in Runners : Lock(r) \/ Advance(r) \/ Drop(r)
    BY <2>3, LockStep, AdvanceStep, DropStep
  <2>4. CASE (\E t \in Tabs : CloseTab(t)) \/ CloseAll
    BY <2>4, CloseTabStep, CloseAllStep
  <2>5. CASE \E s \in Slots : Retire(s) \/ SweepTake(s) \/ SweepMark(s) \/ Age(s) \/ ServerKill(s)
    BY <2>5, RetireStep, SweepTakeStep, SweepMarkStep, AgeStep, ServerKillStep
  <2>6. CASE UNCHANGED vars
    BY <2>6 DEF vars, Inv, TypeOK, LockInv, TableInv, ConnInv, LossInv, Settled,
                NoOrphanConnection, Referenced, Listed
  <2> QED
    BY <2>1, <2>2, <2>3, <2>4, <2>5, <2>6 DEF Next
<1> QED
  BY <1>1, <1>2, PTL DEF Spec

(* Every variable keeps its type. *)
THEOREM TypeCorrect == Spec => []TypeOK
<1>1. Inv => TypeOK
  BY DEF Inv
<1> QED
  BY <1>1, Invariance, PTL

(* A script in flight keeps its connection, and keeps it to itself. *)
THEOREM ScriptsKeepTheirConnections == Spec => []ScriptKeepsItsConnection
<1>1. Inv => ScriptKeepsItsConnection
  BY DEF Inv, LockInv, ConnInv, ScriptKeepsItsConnection
<1> QED
  BY <1>1, Invariance, PTL

(* A run uses the session of its own tab and no two tabs share one. *)
THEOREM SessionsAreNotShared == Spec => []RunsOnItsOwnSession
<1>1. Inv => RunsOnItsOwnSession
  BY DEF Inv, TableInv, RunsOnItsOwnSession
<1> QED
  BY <1>1, Invariance, PTL

(* No connection stays open that nobody can close any more. *)
THEOREM ConnectionsAreNotOrphaned == Spec => []NoOrphanConnection
<1>1. Inv => NoOrphanConnection
  BY DEF Inv
<1> QED
  BY <1>1, Invariance, PTL

(* A session that held state is never replaced in silence, short of a Stop.  *)
THEOREM ReplacementIsAnnounced == Spec => []NoSilentReplacement
<1>1. Inv => NoSilentReplacement
  BY DEF Inv, LossInv, NoSilentReplacement
<1> QED
  BY <1>1, Invariance, PTL

-----------------------------------------------------------------------------
(* Beyond the invariant. *)

(* The table never holds more than Max sessions: a new one is only added     *)
(* below the limit, or for another that leaves in the same step.             *)
THEOREM TableIsBounded == Spec => []TableWithinMax
<1>1. Init => TableWithinMax
  <2> SUFFICES ASSUME Init PROVE TableWithinMax
    OBVIOUS
  <2>1. Opened(table) = {}
    BY DEF Init, Opened
  <2> QED
    BY <2>1, FS_EmptySet, MaxIsPositive DEF TableWithinMax
<1>2. Inv /\ TableWithinMax /\ [Next]_vars => TableWithinMax'
  <2> SUFFICES ASSUME Inv, TableWithinMax, [Next]_vars PROVE TableWithinMax'
    OBVIOUS
  <2>1. IsFiniteSet(Opened(table)) /\ Opened(table) \subseteq Tabs
    BY TabsFinite, FS_Subset DEF Opened
  <2>2. CASE Opened(table') \subseteq Opened(table)
    <3>1. Cardinality(Opened(table')) <= Cardinality(Opened(table))
      BY <2>1, <2>2, FS_Subset
    <3> QED
      BY <2>1, <2>2, <3>1, FS_Subset, FS_CardinalityType, MaxIsPositive DEF TableWithinMax
  <2>3. ASSUME NEW r \in Runners, NEW t \in Tabs, NEW k \in Kinds, EnterNew(r, t, k)
        PROVE  TableWithinMax'
    <3>1. Opened(table') \subseteq Opened(table) \cup {t}
      BY <2>3 DEF EnterNew, Opened, Inv, TypeOK
    <3>2. /\ IsFiniteSet(Opened(table) \cup {t})
          /\ Cardinality(Opened(table) \cup {t}) <= Cardinality(Opened(table)) + 1
          /\ Cardinality(Opened(table) \cup {t}) \in Nat
      <4>1. IsFiniteSet(Opened(table) \cup {t})
        BY <2>1, FS_AddElement
      <4>2. Cardinality(Opened(table) \cup {t}) =
              IF t \in Opened(table) THEN Cardinality(Opened(table)) ELSE Cardinality(Opened(table)) + 1
        BY <2>1, FS_AddElement
      <4>3. Cardinality(Opened(table)) \in Nat /\ Cardinality(Opened(table) \cup {t}) \in Nat
        BY <2>1, <4>1, FS_CardinalityType
      <4> QED
        BY <4>1, <4>2, <4>3
    <3>3. Cardinality(Opened(table')) <= Cardinality(Opened(table) \cup {t}) /\ Cardinality(Opened(table')) \in Nat
      BY <3>1, <3>2, FS_Subset, FS_CardinalityType
    <3>4. Cardinality(Opened(table)) < Max /\ Cardinality(Opened(table)) \in Nat
      BY <2>1, <2>3, FS_CardinalityType DEF EnterNew
    <3> QED
      BY <3>2, <3>3, <3>4, MaxIsPositive DEF TableWithinMax
  <2>4. ASSUME NEW r \in Runners, NEW t \in Tabs, NEW k \in Kinds, EnterEvicting(r, t, k)
        PROVE  TableWithinMax'
    <3>1. PICK v \in Victims, s \in Slots : table' = [table EXCEPT ![v] = None, ![t] = s]
      BY <2>4 DEF EnterEvicting
    <3>2. v \in Opened(table) /\ t \notin Opened(table)
      BY <2>4, <3>1 DEF EnterEvicting, Victims, Opened
    <3> DEFINE rest == Opened(table) \ {v}
    <3>3. Opened(table') \subseteq rest \cup {t}
      BY <3>1, <3>2 DEF Opened, Inv, TypeOK
    <3>4. /\ IsFiniteSet(rest) /\ IsFiniteSet(rest \cup {t})
          /\ Cardinality(rest) = Cardinality(Opened(table)) - 1
          /\ Cardinality(rest \cup {t}) = Cardinality(rest) + 1
          /\ Cardinality(Opened(table)) \in Nat
      <4>1. IsFiniteSet(rest) /\ Cardinality(rest) = Cardinality(Opened(table)) - 1
        BY <2>1, <3>2, FS_RemoveElement
      <4>2. t \notin rest
        BY <3>2
      <4> QED
        BY <2>1, <4>1, <4>2, FS_AddElement, FS_CardinalityType
    <3>5. Cardinality(Opened(table')) <= Cardinality(rest \cup {t}) /\ Cardinality(Opened(table')) \in Nat
      BY <3>3, <3>4, FS_Subset, FS_CardinalityType
    <3> QED
      BY <3>4, <3>5, MaxIsPositive DEF TableWithinMax
  <2>5. CASE table' = table
    BY <2>2, <2>5
  <2>6. CASE (\E t \in Tabs : CloseTab(t)) \/ CloseAll
    <3>1. ASSUME NEW t \in Tabs, CloseTab(t) PROVE Opened(table') \subseteq Opened(table)
      BY <3>1 DEF CloseTab, Opened, Inv, TypeOK
    <3>2. ASSUME CloseAll PROVE Opened(table') \subseteq Opened(table)
      <4>1. \A t \in Tabs : table'[t] = None
        BY <3>2 DEF CloseAll
      <4> QED
        BY <4>1 DEF Opened
    <3> QED
      BY <2>2, <2>6, <3>1, <3>2
  <2>7. ASSUME NEW r \in Runners, Lock(r) \/ Advance(r) \/ Drop(r)
        PROVE  table' = table
    <3>1. CASE Lock(r)
      BY <3>1 DEF Lock, Reconnect, Finish, Continue
    <3>3. CASE Drop(r)
      BY <3>3 DEF Drop, Finish
    <3>2. CASE Advance(r)
      BY <3>2 DEF Advance, Reconnect, Finish, Continue, ProbeAlive, ProbeDead, DeadClosed,
          OpenSession, OpenFailed, RunDone, RunLost, LostClosed
    <3> QED
      BY <2>7, <3>1, <3>2, <3>3
  <2>8. ASSUME NEW s \in Slots, Retire(s) \/ SweepTake(s) \/ SweepMark(s) \/ Age(s) \/ ServerKill(s)
        PROVE  table' = table
    BY <2>8 DEF Retire, SweepTake, SweepMark, Age, ServerKill
  <2>9. ASSUME NEW r \in Runners, NEW t \in Tabs, NEW k \in Kinds, EnterKnown(r, t, k) \/ EnterRefused(r, t)
        PROVE  table' = table
    BY <2>9 DEF EnterKnown, EnterRefused
  <2>10. CASE UNCHANGED vars
    BY <2>5, <2>10 DEF vars
  <2> QED
    BY <2>3, <2>4, <2>5, <2>6, <2>7, <2>8, <2>9, <2>10 DEF Next
<1> QED
  BY <1>1, <1>2, Invariance, PTL DEF Spec

(* What a step of a run leaves in its slot while the table lists it. *)
LEMMA SlotAfter ==
  ASSUME slots \in [Slots -> SlotState], NEW r \in Runners, at[r] \in Slots, at[r] \in Listed(table),
         NEW st, NEW w, Finish(r, w, st) \/ Continue(r, w, st)
  PROVE  slots'[at[r]] = st
  BY DEF Finish, Continue

(* A step of a run moves that run only. *)
LEMMA MovesItself ==
  ASSUME NEW r \in Runners, Lock(r) \/ Advance(r) \/ Drop(r)
  PROVE  \E w : pc' = [pc EXCEPT ![r] = w]
<1>1. ASSUME NEW st, NEW w, Finish(r, w, st) \/ Continue(r, w, st)
      PROVE  \E v : pc' = [pc EXCEPT ![r] = v]
  BY <1>1 DEF Finish, Continue
<1>2. \E st, w : Finish(r, w, st) \/ Continue(r, w, st)
  BY DEF Lock, Advance, Drop, ProbeAlive, ProbeDead, DeadClosed, OpenSession, OpenFailed,
         RunDone, RunLost, LostClosed, Reconnect
<1> QED
  BY <1>1, <1>2

(* No step of a run gives up the live session of its tab. *)
THEOREM LiveSessionsAreKept == Spec => RunKeepsLiveSession
<1>1. ASSUME Inv, [Next]_vars, NEW r \in Runners,
             pc[r] \in Working, pc'[r] # pc[r], at[r] \in Listed(table),
             slots[at[r]].conn = "live"
      PROVE  slots'[at[r]].conn = "live"
  <2> DEFINE st == slots[at[r]]
  <2>1. at[r] \in Slots /\ st \in SlotState /\ slots \in [Slots -> SlotState] /\ pc[r] # "idle"
    BY <1>1, HoldsSlot DEF Inv, TypeOK
  <2>2. Advance(r) \/ Drop(r)
    <3>1. CASE \E q \in Runners : Lock(q) \/ Advance(q) \/ Drop(q)
      <4>1. PICK q \in Runners : Lock(q) \/ Advance(q) \/ Drop(q)
        BY <3>1
      <4>2. PICK w : pc' = [pc EXCEPT ![q] = w]
        BY <4>1, MovesItself
      <4>3. q = r
        BY <1>1, <4>2 DEF Inv, TypeOK
      <4> QED
        BY <1>1, <4>1, <4>3 DEF Lock
    <3>2. CASE \E q \in Runners, t \in Tabs, k \in Kinds :
                 EnterKnown(q, t, k) \/ EnterNew(q, t, k) \/ EnterEvicting(q, t, k)
      <4>1. PICK q \in Runners : pc[q] = "idle" /\ pc' = [pc EXCEPT ![q] = "waiting"]
        BY <3>2 DEF EnterKnown, EnterNew, EnterEvicting, Take
      <4> QED
        BY <1>1, <2>1, <4>1 DEF Inv, TypeOK
    <3> QED
      BY <1>1, <3>1, <3>2 DEF Next, vars, EnterRefused, CloseTab, CloseAll, Retire, SweepTake,
                              SweepMark, Age, ServerKill
  <2>3. ASSUME NEW w, NEW new, Finish(r, w, new) \/ Continue(r, w, new)
        PROVE  slots'[at[r]] = new
    BY <1>1, <2>1, <2>3, SlotAfter
  <2>4. pc[r] \notin {"closingDead", "opening", "closingLost", "waiting"}
    BY <1>1 DEF Inv, ConnInv, Working
  <2>5. CASE Drop(r)
    <3>1. PICK h \in BOOLEAN : Finish(r, "dropped", st) \/ Finish(r, "dropped", [st EXCEPT !.held = h])
      BY <2>4, <2>5 DEF Drop
    <3>2. slots'[at[r]] = st \/ slots'[at[r]] = [st EXCEPT !.held = h]
      BY <2>3, <3>1
    <3> QED
      BY <1>1, <2>1, <3>2 DEF SlotState
  <2>6. CASE ProbeAlive(r)
    BY <1>1, <2>1, <2>3, <2>6 DEF ProbeAlive, Marked, SlotState
  <2>7. CASE RunDone(r)
    <3>1. PICK h \in BOOLEAN : Finish(r, "ok", [st EXCEPT !.idle = FALSE, !.held = h])
      BY <2>7 DEF RunDone
    <3>2. slots'[at[r]] = [st EXCEPT !.idle = FALSE, !.held = h]
      BY <2>3, <3>1
    <3> QED
      BY <1>1, <2>1, <3>2 DEF SlotState
  <2>8. Drop(r) \/ ProbeAlive(r) \/ RunDone(r)
    BY <1>1, <2>2, <2>4 DEF Advance, ProbeDead, DeadClosed, OpenSession, OpenFailed, RunLost, LostClosed
  <2> QED
    BY <2>5, <2>6, <2>7, <2>8
<1>2. Inv /\ [Next]_vars => [\A r \in Runners :
        (pc[r] \in Working /\ pc'[r] # pc[r] /\ at[r] \in Listed(table))
        => (slots[at[r]].conn = "live" => slots'[at[r]].conn = "live")]_vars
  BY <1>1
<1> QED
  BY <1>2, Invariance, PTL DEF Spec, RunKeepsLiveSession
=============================================================================
