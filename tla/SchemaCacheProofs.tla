-------------------------- MODULE SchemaCacheProofs --------------------------
(***************************************************************************)
(* The safety claims of SchemaCache for every number of keys, requests,    *)
(* flights, scripts and changes.  `Inv` is inductive: one lemma per action *)
(* shows that it is kept, and the claims are among its parts.              *)
(***************************************************************************)
EXTENDS SchemaCache, TLAPS

USE BoundsAreNat, NoneIsNothing

(* The invariant is kept when a request asks `recent`. *)
LEMMA AskStep ==
  ASSUME Inv, NEW c \in Callers, NEW k \in Keys, NEW force \in BOOLEAN, Ask(c, k, force)
  PROVE  Inv'
<1>1. TypeOK'
  <2>1. caller' \in [Callers -> CallerState]
    <3>1. caller \in [Callers -> CallerState] /\ stored \in [Keys -> Answer]
           /\ floor \in 0..MaxChanges
      BY DEF Inv, TypeOK
    <3> QED
      BY <3>1 DEF Ask, CallerState
  <2> QED
    BY <2>1 DEF Inv, TypeOK, Ask
<1>2. RefInv'
  BY <1>1 DEF Inv, RefInv, Ask, TypeOK, FlightState, CallerState
<1>3. OrderInv'
  BY <1>1 DEF Inv, OrderInv, Ask, TypeOK, RefInv, CallerState, FlightState, Answer,
      ScriptState
<1>4. AwaitedFlightsRun'
  BY <1>1 DEF Inv, AwaitedFlightsRun, Ask, TypeOK, RefInv, ListedFlightsRun,
      Running, CallerState
<1>5. WaitersSeeInvalidatedChanges'
  BY <1>1 DEF Inv, WaitersSeeInvalidatedChanges, Ask, TypeOK, RefInv, OrderInv,
      AwaitedFlightsRun, Running, CallerState, FlightState, Answer, ScriptState
<1>6. FenceInv' /\ JoinInv' /\ ListedFlightsRun' /\ KeptAnswersPassedTheFence'
  BY DEF Inv, FenceInv, JoinInv, ListedFlightsRun, KeptAnswersPassedTheFence, Ask
<1> QED
  BY <1>1, <1>2, <1>3, <1>4, <1>5, <1>6 DEF Inv

(* The invariant is kept when a request looks into `live`. *)
LEMMA IsLiveStep ==
  ASSUME Inv, NEW c \in Callers, IsLive(c)
  PROVE  Inv'
<1>1. TypeOK'
  <2>1. caller' \in [Callers -> CallerState]
    <3>1. caller \in [Callers -> CallerState] /\ stored \in [Keys -> Answer]
           /\ floor \in 0..MaxChanges
      BY DEF Inv, TypeOK
    <3> QED
      BY <3>1 DEF IsLive, Goto, CallerState
  <2> QED
    BY <2>1 DEF Inv, TypeOK, IsLive, Goto
<1>2. RefInv'
  BY <1>1 DEF Inv, RefInv, IsLive, Goto, TypeOK, FlightState, CallerState
<1>3. OrderInv'
  BY <1>1 DEF Inv, OrderInv, IsLive, Goto, TypeOK, RefInv, CallerState, FlightState,
      Answer, ScriptState
<1>4. AwaitedFlightsRun'
  BY <1>1 DEF Inv, AwaitedFlightsRun, IsLive, Goto, TypeOK, RefInv,
      ListedFlightsRun, Running, CallerState
<1>5. WaitersSeeInvalidatedChanges'
  BY <1>1 DEF Inv, WaitersSeeInvalidatedChanges, IsLive, Goto, TypeOK, RefInv,
      OrderInv, AwaitedFlightsRun, Running, CallerState, FlightState, Answer,
      ScriptState
<1>6. FenceInv' /\ JoinInv' /\ ListedFlightsRun' /\ KeptAnswersPassedTheFence'
  BY DEF Inv, FenceInv, JoinInv, ListedFlightsRun, KeptAnswersPassedTheFence,
      IsLive, Goto
<1> QED
  BY <1>1, <1>2, <1>3, <1>4, <1>5, <1>6 DEF Inv

(* The invariant is kept when a request reads the store. *)
LEMMA ReadStoredStep ==
  ASSUME Inv, NEW c \in Callers, ReadStored(c)
  PROVE  Inv'
<1>1. caller \in [Callers -> CallerState] /\ stored \in [Keys -> Answer] /\ floor \in 0..MaxChanges
  BY DEF Inv, TypeOK
<1>2. CASE stored[caller[c].key].v = 0
  <2>0. caller' = [caller EXCEPT ![c].pc = "start"]
    BY <1>2 DEF ReadStored, Goto
  <2>1. TypeOK'
    <3>1. caller' \in [Callers -> CallerState]
      BY <1>1, <2>0 DEF CallerState
    <3> QED
      BY <3>1 DEF Inv, TypeOK, ReadStored
  <2>2. RefInv'
    BY <1>1, <2>0 DEF Inv, RefInv, ReadStored, CallerState
  <2>3. OrderInv'
    BY <2>0, <2>1 DEF Inv, OrderInv, ReadStored, TypeOK, RefInv, CallerState, FlightState, Answer, ScriptState
  <2>4. AwaitedFlightsRun'
    BY <2>0, <2>1 DEF Inv, AwaitedFlightsRun, ReadStored, TypeOK, RefInv, ListedFlightsRun, Running, CallerState
  <2>5. WaitersSeeInvalidatedChanges'
    BY <2>0, <2>1 DEF Inv, WaitersSeeInvalidatedChanges, ReadStored, TypeOK, RefInv, OrderInv, AwaitedFlightsRun,
        Running, CallerState, FlightState, Answer, ScriptState
  <2> QED
    BY <2>1, <2>2, <2>3, <2>4, <2>5
    DEF Inv, FenceInv, JoinInv, ListedFlightsRun, KeptAnswersPassedTheFence, ReadStored
<1>3. CASE stored[caller[c].key].v # 0
  <2>0. caller' = [caller EXCEPT ![c] = [@ EXCEPT !.pc = "serve", !.asked = stored[caller[c].key].v]]
    BY <1>3 DEF ReadStored
  <2>1. TypeOK'
    <3>1. caller[c].key \in Keys /\ stored[caller[c].key].v \in 0..MaxChanges
      BY <1>1 DEF Inv, RefInv, ReadStored, CallerState, Answer
    <3>2. [caller[c] EXCEPT !.pc = "serve", !.asked = stored[caller[c].key].v] \in CallerState
      BY <1>1, <3>1 DEF CallerState
    <3>3. caller' \in [Callers -> CallerState]
      BY <1>1, <2>0, <3>2
    <3> QED
      BY <3>3 DEF Inv, TypeOK, ReadStored
  <2>a. /\ \A d \in Callers \ {c} : caller'[d] = caller[d]
        /\ caller'[c].pc = "serve" /\ caller'[c].key = caller[c].key /\ caller'[c].asked # 0
    BY <1>1, <1>3, <2>0 DEF CallerState
  <2>b. UNCHANGED <<catalog, epoch, table, flight, recent, live, stored, revalidations, script, floor>>
    BY DEF ReadStored
  <2>c. \A d \in Callers : caller'[d].pc = "waiting" => caller'[d] = caller[d]
    BY <2>a
  <2>2. RefInv'
    <3>1. caller[c].key \in Keys
      BY DEF Inv, RefInv, ReadStored
    <3> QED
      BY <2>a, <2>b, <3>1 DEF Inv, RefInv
  <2>3. OrderInv'
    BY <2>a, <2>b DEF Inv, OrderInv
  <2>4. AwaitedFlightsRun'
    BY <2>b, <2>c DEF Inv, AwaitedFlightsRun
  <2>5. WaitersSeeInvalidatedChanges'
    BY <2>b, <2>c DEF Inv, WaitersSeeInvalidatedChanges
  <2> QED
    BY <2>1, <2>2, <2>3, <2>4, <2>5
    DEF Inv, FenceInv, JoinInv, ListedFlightsRun, KeptAnswersPassedTheFence, ReadStored
<1> QED
  BY <1>2, <1>3

(* The invariant is kept when the adapter answers a flight. *)
LEMMA FetchAnswersStep ==
  ASSUME Inv, NEW f \in Flights, FetchAnswers(f)
  PROVE  Inv'
<1>1. TypeOK'
  <2>1. flight' \in [Flights -> FlightState]
    <3>1. flight \in [Flights -> FlightState] /\ catalog \in 0..MaxChanges
      BY BoundsAreNat DEF Inv, TypeOK
    <3>2. [flight[f].answer EXCEPT !.v = catalog] \in Answer
      BY <3>1 DEF FlightState, Answer
    <3>3. [flight[f] EXCEPT !.pc = "fetched", !.answer.v = catalog] \in FlightState
      BY <3>1, <3>2 DEF FlightState, Running
    <3> QED
      BY <3>1, <3>3 DEF FetchAnswers
  <2> QED
    BY <2>1 DEF Inv, TypeOK, FetchAnswers
<1>2. RefInv'
  BY <1>1 DEF Inv, RefInv, FetchAnswers, TypeOK, FlightState, CallerState, Answer,
      NoAnswer
<1>3. OrderInv'
  BY <1>1 DEF Inv, OrderInv, FetchAnswers, TypeOK, RefInv, FlightState, Answer,
      NoAnswer, CallerState, ScriptState
<1>4. FenceInv'
  BY <1>1 DEF Inv, FenceInv, FetchAnswers, TypeOK, OrderInv, RefInv, FlightState,
      Answer, NoAnswer, CallerState, ScriptState
<1>5. JoinInv'
  BY <1>1 DEF Inv, JoinInv, FetchAnswers, TypeOK, OrderInv, FenceInv,
      ListedFlightsRun, FlightState, Answer, NoAnswer, CallerState, ScriptState
<1>6. ListedFlightsRun'
  BY <1>1 DEF Inv, ListedFlightsRun, FetchAnswers, TypeOK, RefInv, Running,
      FlightState, Answer, NoAnswer
<1>7. AwaitedFlightsRun'
  BY <1>1 DEF Inv, AwaitedFlightsRun, FetchAnswers, TypeOK, RefInv,
      ListedFlightsRun, Running, FlightState, Answer, NoAnswer
<1>8. WaitersSeeInvalidatedChanges'
  BY <1>1 DEF Inv, WaitersSeeInvalidatedChanges, FetchAnswers, TypeOK, RefInv,
      OrderInv, AwaitedFlightsRun, Running, FlightState, Answer, NoAnswer, CallerState,
      ScriptState
<1>9. KeptAnswersPassedTheFence'
  BY DEF Inv, KeptAnswersPassedTheFence, FetchAnswers
<1> QED
  BY <1>1, <1>2, <1>3, <1>4, <1>5, <1>6, <1>7, <1>8, <1>9 DEF Inv

(* The invariant is kept when a flight fails or times out. *)
LEMMA FetchFailsStep ==
  ASSUME Inv, NEW f \in Flights, FetchFails(f)
  PROVE  Inv'
<1>1. TypeOK'
  <2>1. flight' \in [Flights -> FlightState]
    <3>1. flight \in [Flights -> FlightState] /\ catalog \in 1..MaxChanges
           /\ floor \in 0..MaxChanges /\ epoch \in Nat
      BY DEF Inv, TypeOK
    <3> QED
      BY <3>1 DEF FetchFails, FlightState, Answer, NoAnswer, Running
  <2> QED
    BY <2>1 DEF Inv, TypeOK, FetchFails
<1>2. RefInv'
  BY <1>1 DEF Inv, RefInv, FetchFails, TypeOK, FlightState, CallerState, Answer,
      NoAnswer
<1>3. OrderInv'
  BY <1>1 DEF Inv, OrderInv, FetchFails, TypeOK, RefInv, FlightState, Answer,
      NoAnswer, CallerState, ScriptState
<1>4. FenceInv'
  BY <1>1 DEF Inv, FenceInv, FetchFails, TypeOK, OrderInv, RefInv, FlightState,
      Answer, NoAnswer, CallerState, ScriptState
<1>5. JoinInv'
  BY <1>1 DEF Inv, JoinInv, FetchFails, TypeOK, OrderInv, FenceInv,
      ListedFlightsRun, FlightState, Answer, NoAnswer, CallerState, ScriptState
<1>6. ListedFlightsRun'
  BY <1>1 DEF Inv, ListedFlightsRun, FetchFails, TypeOK, RefInv, Running,
      FlightState, Answer, NoAnswer
<1>7. AwaitedFlightsRun'
  BY <1>1 DEF Inv, AwaitedFlightsRun, FetchFails, TypeOK, RefInv, ListedFlightsRun,
      Running, FlightState, Answer, NoAnswer
<1>8. WaitersSeeInvalidatedChanges'
  BY <1>1 DEF Inv, WaitersSeeInvalidatedChanges, FetchFails, TypeOK, RefInv,
      OrderInv, AwaitedFlightsRun, Running, FlightState, Answer, NoAnswer, CallerState,
      ScriptState
<1>9. KeptAnswersPassedTheFence'
  BY DEF Inv, KeptAnswersPassedTheFence, FetchFails
<1> QED
  BY <1>1, <1>2, <1>3, <1>4, <1>5, <1>6, <1>7, <1>8, <1>9 DEF Inv

(* The invariant is kept when a flight compares the epochs. *)
LEMMA CheckEpochStep ==
  ASSUME Inv, NEW f \in Flights, CheckEpoch(f)
  PROVE  Inv'
<1>1. TypeOK'
  <2>1. flight' \in [Flights -> FlightState]
    <3>1. flight \in [Flights -> FlightState] /\ floor \in 0..MaxChanges
      BY DEF Inv, TypeOK
    <3>2. [flight[f].answer EXCEPT !.seen = floor] \in Answer
      BY <3>1 DEF FlightState, Answer
    <3>3. [flight[f] EXCEPT !.pc = "checked", !.epoch = 0, !.answer.seen = floor] \in FlightState
      BY <3>1, <3>2 DEF FlightState, Running
    <3>4. [flight[f] EXCEPT !.pc = "finishing", !.epoch = 0] \in FlightState
      BY <3>1 DEF FlightState, Running
    <3> QED
      BY <3>1, <3>3, <3>4 DEF CheckEpoch
  <2> QED
    BY <2>1 DEF Inv, TypeOK, CheckEpoch
<1>2. RefInv'
  BY <1>1 DEF Inv, RefInv, CheckEpoch, TypeOK, FlightState, CallerState, Answer,
      NoAnswer
<1>3. OrderInv'
  BY <1>1 DEF Inv, OrderInv, CheckEpoch, TypeOK, RefInv, FlightState, Answer,
      NoAnswer, CallerState, ScriptState
<1>4. FenceInv'
  BY <1>1 DEF Inv, FenceInv, CheckEpoch, TypeOK, OrderInv, RefInv, FlightState,
      Answer, NoAnswer, CallerState, ScriptState
<1>5. JoinInv'
  BY <1>1 DEF Inv, JoinInv, CheckEpoch, TypeOK, OrderInv, FenceInv,
      ListedFlightsRun, FlightState, Answer, NoAnswer, CallerState, ScriptState
<1>6. ListedFlightsRun'
  BY <1>1 DEF Inv, ListedFlightsRun, CheckEpoch, TypeOK, RefInv, Running,
      FlightState, Answer, NoAnswer
<1>7. AwaitedFlightsRun'
  BY <1>1 DEF Inv, AwaitedFlightsRun, CheckEpoch, TypeOK, RefInv, ListedFlightsRun,
      Running, FlightState, Answer, NoAnswer
<1>8. WaitersSeeInvalidatedChanges'
  BY <1>1 DEF Inv, WaitersSeeInvalidatedChanges, CheckEpoch, TypeOK, RefInv,
      OrderInv, AwaitedFlightsRun, Running, FlightState, Answer, NoAnswer, CallerState,
      ScriptState
<1>9. KeptAnswersPassedTheFence'
  BY DEF Inv, KeptAnswersPassedTheFence, CheckEpoch
<1> QED
  BY <1>1, <1>2, <1>3, <1>4, <1>5, <1>6, <1>7, <1>8, <1>9 DEF Inv

(* The invariant is kept when a flight writes its row. *)
LEMMA PersistStep ==
  ASSUME Inv, NEW f \in Flights, Persist(f)
  PROVE  Inv'
<1>1. TypeOK'
  <2>1. flight' \in [Flights -> FlightState]
    <3>1. flight \in [Flights -> FlightState] /\ catalog \in 1..MaxChanges
           /\ floor \in 0..MaxChanges /\ epoch \in Nat
      BY DEF Inv, TypeOK
    <3> QED
      BY <3>1 DEF Persist, FlightState, Answer, NoAnswer, Running
  <2>2. stored' \in [Keys -> Answer]
    <3>1. stored \in [Keys -> Answer] /\ flight \in [Flights -> FlightState]
      BY DEF Inv, TypeOK
    <3> QED
      BY <3>1 DEF Persist, FlightState, Answer, NoAnswer
  <2> QED
    BY <2>1, <2>2 DEF Inv, TypeOK, Persist
<1>2. RefInv'
  BY <1>1 DEF Inv, RefInv, Persist, TypeOK, FlightState, CallerState, Answer,
      NoAnswer
<1>3. OrderInv'
  BY <1>1 DEF Inv, OrderInv, Persist, TypeOK, RefInv, FlightState, Answer, NoAnswer,
      CallerState, ScriptState
<1>4. FenceInv'
  BY <1>1 DEF Inv, FenceInv, Persist, TypeOK, OrderInv, RefInv, FlightState, Answer,
      NoAnswer, CallerState, ScriptState
<1>5. JoinInv'
  BY <1>1 DEF Inv, JoinInv, Persist, TypeOK, OrderInv, FenceInv, ListedFlightsRun,
      FlightState, Answer, NoAnswer, CallerState, ScriptState
<1>6. ListedFlightsRun'
  BY <1>1 DEF Inv, ListedFlightsRun, Persist, TypeOK, RefInv, Running, FlightState,
      Answer, NoAnswer
<1>7. AwaitedFlightsRun'
  BY <1>1 DEF Inv, AwaitedFlightsRun, Persist, TypeOK, RefInv, ListedFlightsRun,
      Running, FlightState, Answer, NoAnswer
<1>8. WaitersSeeInvalidatedChanges'
  BY <1>1 DEF Inv, WaitersSeeInvalidatedChanges, Persist, TypeOK, RefInv, OrderInv,
      AwaitedFlightsRun, Running, FlightState, Answer, NoAnswer, CallerState,
      ScriptState
<1>9. KeptAnswersPassedTheFence'
  BY <1>1 DEF Inv, KeptAnswersPassedTheFence, Persist, TypeOK, RefInv, FenceInv,
      NoAnswer, FlightState, Answer
<1> QED
  BY <1>1, <1>2, <1>3, <1>4, <1>5, <1>6, <1>7, <1>8, <1>9 DEF Inv

(* The invariant is kept when a flight is remembered in `recent`. *)
LEMMA RememberRecentStep ==
  ASSUME Inv, NEW f \in Flights, RememberRecent(f)
  PROVE  Inv'
<1>1. TypeOK'
  <2>1. flight' \in [Flights -> FlightState]
    <3>1. flight \in [Flights -> FlightState] /\ catalog \in 1..MaxChanges
           /\ floor \in 0..MaxChanges /\ epoch \in Nat
      BY DEF Inv, TypeOK
    <3> QED
      BY <3>1 DEF RememberRecent, FlightState, Answer, NoAnswer, Running
  <2>2. recent' \in [Keys -> Answer]
    <3>1. recent \in [Keys -> Answer] /\ flight \in [Flights -> FlightState]
      BY DEF Inv, TypeOK
    <3> QED
      BY <3>1 DEF RememberRecent, FlightState, Answer, NoAnswer
  <2> QED
    BY <2>1, <2>2 DEF Inv, TypeOK, RememberRecent
<1>2. RefInv'
  BY <1>1 DEF Inv, RefInv, RememberRecent, TypeOK, FlightState, CallerState, Answer,
      NoAnswer
<1>3. OrderInv'
  BY <1>1 DEF Inv, OrderInv, RememberRecent, TypeOK, RefInv, FlightState, Answer,
      NoAnswer, CallerState, ScriptState
<1>4. FenceInv'
  BY <1>1 DEF Inv, FenceInv, RememberRecent, TypeOK, OrderInv, RefInv, FlightState,
      Answer, NoAnswer, CallerState, ScriptState
<1>5. JoinInv'
  BY <1>1 DEF Inv, JoinInv, RememberRecent, TypeOK, OrderInv, FenceInv,
      ListedFlightsRun, FlightState, Answer, NoAnswer, CallerState, ScriptState
<1>6. ListedFlightsRun'
  BY <1>1 DEF Inv, ListedFlightsRun, RememberRecent, TypeOK, RefInv, Running,
      FlightState, Answer, NoAnswer
<1>7. AwaitedFlightsRun'
  BY <1>1 DEF Inv, AwaitedFlightsRun, RememberRecent, TypeOK, RefInv,
      ListedFlightsRun, Running, FlightState, Answer, NoAnswer
<1>8. WaitersSeeInvalidatedChanges'
  BY <1>1 DEF Inv, WaitersSeeInvalidatedChanges, RememberRecent, TypeOK, RefInv,
      OrderInv, AwaitedFlightsRun, Running, FlightState, Answer, NoAnswer, CallerState,
      ScriptState
<1>9. KeptAnswersPassedTheFence'
  BY <1>1 DEF Inv, KeptAnswersPassedTheFence, RememberRecent, TypeOK, RefInv,
      FenceInv, NoAnswer, FlightState, Answer
<1> QED
  BY <1>1, <1>2, <1>3, <1>4, <1>5, <1>6, <1>7, <1>8, <1>9 DEF Inv

(* The invariant is kept when a flight marks its key live. *)
LEMMA RememberLiveStep ==
  ASSUME Inv, NEW f \in Flights, RememberLive(f)
  PROVE  Inv'
<1>1. TypeOK'
  <2>1. flight' \in [Flights -> FlightState]
    <3>1. flight \in [Flights -> FlightState] /\ catalog \in 1..MaxChanges
           /\ floor \in 0..MaxChanges /\ epoch \in Nat
      BY DEF Inv, TypeOK
    <3> QED
      BY <3>1 DEF RememberLive, FlightState, Answer, NoAnswer, Running
  <2>2. live' \subseteq Keys
    BY DEF Inv, TypeOK, RefInv, RememberLive
  <2> QED
    BY <2>1, <2>2 DEF Inv, TypeOK, RememberLive
<1>2. RefInv'
  BY <1>1 DEF Inv, RefInv, RememberLive, TypeOK, FlightState, CallerState, Answer,
      NoAnswer
<1>3. OrderInv'
  BY <1>1 DEF Inv, OrderInv, RememberLive, TypeOK, RefInv, FlightState, Answer,
      NoAnswer, CallerState, ScriptState
<1>4. FenceInv'
  BY <1>1 DEF Inv, FenceInv, RememberLive, TypeOK, OrderInv, RefInv, FlightState,
      Answer, NoAnswer, CallerState, ScriptState
<1>5. JoinInv'
  BY <1>1 DEF Inv, JoinInv, RememberLive, TypeOK, OrderInv, FenceInv,
      ListedFlightsRun, FlightState, Answer, NoAnswer, CallerState, ScriptState
<1>6. ListedFlightsRun'
  BY <1>1 DEF Inv, ListedFlightsRun, RememberLive, TypeOK, RefInv, Running,
      FlightState, Answer, NoAnswer
<1>7. AwaitedFlightsRun'
  BY <1>1 DEF Inv, AwaitedFlightsRun, RememberLive, TypeOK, RefInv,
      ListedFlightsRun, Running, FlightState, Answer, NoAnswer
<1>8. WaitersSeeInvalidatedChanges'
  BY <1>1 DEF Inv, WaitersSeeInvalidatedChanges, RememberLive, TypeOK, RefInv,
      OrderInv, AwaitedFlightsRun, Running, FlightState, Answer, NoAnswer, CallerState,
      ScriptState
<1>9. KeptAnswersPassedTheFence'
  BY DEF Inv, KeptAnswersPassedTheFence, RememberLive
<1> QED
  BY <1>1, <1>2, <1>3, <1>4, <1>5, <1>6, <1>7, <1>8, <1>9 DEF Inv

(* The invariant is kept when a flight leaves the table and resolves. *)
LEMMA FinishStep ==
  ASSUME Inv, NEW f \in Flights, Finish(f)
  PROVE  Inv'
<1>1. TypeOK'
  <2>1. flight' \in [Flights -> FlightState]
    <3>1. flight \in [Flights -> FlightState] /\ catalog \in 1..MaxChanges
           /\ floor \in 0..MaxChanges /\ epoch \in Nat
      BY DEF Inv, TypeOK
    <3> QED
      BY <3>1 DEF Finish, Resolve, NoFlight, NoCaller, FlightState, Answer,
          NoAnswer, Running
  <2>2. caller' \in [Callers -> CallerState]
    <3>1. caller \in [Callers -> CallerState] /\ stored \in [Keys -> Answer]
           /\ floor \in 0..MaxChanges
      BY DEF Inv, TypeOK
    <3> QED
      BY <3>1 DEF Finish, Resolve, NoFlight, NoCaller, CallerState
  <2>3. table' \in [Keys -> Flights \cup {None}]
    <3>1. table \in [Keys -> Flights \cup {None}]
      BY DEF Inv, TypeOK
    <3> QED
      BY <3>1 DEF Finish, Resolve, NoFlight, NoCaller
  <2>4. revalidations' \subseteq Flights \X (1..MaxChanges)
    <3>1. revalidations \subseteq Flights \X (1..MaxChanges)
      BY DEF Inv, TypeOK
    <3> QED
      BY <3>1 DEF Finish, Resolve, NoFlight, NoCaller
  <2> QED
    BY <2>1, <2>2, <2>3, <2>4 DEF Inv, TypeOK, Finish, Resolve, NoFlight, NoCaller
<1>2. RefInv'
  BY <1>1 DEF Inv, RefInv, Finish, Resolve, NoFlight, NoCaller, TypeOK, FlightState,
      CallerState, Answer, NoAnswer
<1>3. OrderInv'
  BY <1>1 DEF Inv, OrderInv, Finish, Resolve, NoFlight, NoCaller, TypeOK, RefInv,
      FlightState, Answer, NoAnswer, CallerState, ScriptState
<1>4. FenceInv'
  BY <1>1 DEF Inv, FenceInv, Finish, Resolve, NoFlight, NoCaller, TypeOK, OrderInv,
      RefInv, FlightState, Answer, NoAnswer, CallerState, ScriptState
<1>5. JoinInv'
  BY <1>1 DEF Inv, JoinInv, Finish, Resolve, NoFlight, NoCaller, TypeOK, OrderInv,
      FenceInv, ListedFlightsRun, FlightState, Answer, NoAnswer, CallerState,
      ScriptState
<1>6. ListedFlightsRun'
  BY <1>1 DEF Inv, ListedFlightsRun, Finish, Resolve, NoFlight, NoCaller, TypeOK,
      RefInv, Running, FlightState, Answer, NoAnswer, CallerState
<1>7. AwaitedFlightsRun'
  BY <1>1 DEF Inv, AwaitedFlightsRun, Finish, Resolve, NoFlight, NoCaller, TypeOK,
      RefInv, ListedFlightsRun, Running, FlightState, Answer, NoAnswer, CallerState
<1>8. WaitersSeeInvalidatedChanges'
  BY <1>1 DEF Inv, WaitersSeeInvalidatedChanges, Finish, Resolve, NoFlight,
      NoCaller, TypeOK, RefInv, OrderInv, AwaitedFlightsRun, Running, FlightState,
      Answer, NoAnswer, CallerState, ScriptState
<1>9. KeptAnswersPassedTheFence'
  BY DEF Inv, KeptAnswersPassedTheFence, Finish, Resolve, NoFlight, NoCaller
<1> QED
  BY <1>1, <1>2, <1>3, <1>4, <1>5, <1>6, <1>7, <1>8, <1>9 DEF Inv

(* The invariant is kept when a script ends. *)
LEMMA RunScriptStep ==
  ASSUME Inv, NEW s \in Scripts, RunScript(s)
  PROVE  Inv'
<1>1. TypeOK'
  <2>1. catalog' \in 1..MaxChanges
    <3>1. catalog \in 1..MaxChanges
      BY DEF Inv, TypeOK
    <3> QED
      BY <3>1 DEF RunScript
  <2>2. script' \in [Scripts -> ScriptState]
    <3>1. script \in [Scripts -> ScriptState] /\ catalog \in 1..MaxChanges
      BY DEF Inv, TypeOK
    <3> QED
      BY <3>1 DEF RunScript, ScriptState
  <2> QED
    BY <2>1, <2>2 DEF Inv, TypeOK, RunScript
<1>2. OrderInv'
  BY <1>1 DEF Inv, OrderInv, RunScript, TypeOK, RefInv, ScriptState, FlightState,
      Answer, CallerState
<1>3. FenceInv'
  BY <1>1 DEF Inv, FenceInv, RunScript, TypeOK, OrderInv, RefInv, ScriptState,
      FlightState, Answer, CallerState
<1>4. JoinInv'
  BY <1>1 DEF Inv, JoinInv, RunScript, TypeOK, OrderInv, FenceInv, ListedFlightsRun,
      ScriptState, FlightState, Answer, CallerState
<1>5. RefInv' /\ ListedFlightsRun' /\ AwaitedFlightsRun' /\ WaitersSeeInvalidatedChanges' /\ KeptAnswersPassedTheFence'
  BY DEF Inv, RefInv, ListedFlightsRun, AwaitedFlightsRun,
      WaitersSeeInvalidatedChanges, KeptAnswersPassedTheFence, RunScript
<1> QED
  BY <1>1, <1>2, <1>3, <1>4, <1>5 DEF Inv

(* The invariant is kept when invalidate bumps the epoch. *)
LEMMA BumpEpochStep ==
  ASSUME Inv, NEW s \in Scripts, BumpEpoch(s)
  PROVE  Inv'
<1>1. TypeOK'
  <2>1. script' \in [Scripts -> ScriptState]
    <3>1. script \in [Scripts -> ScriptState] /\ catalog \in 1..MaxChanges
      BY DEF Inv, TypeOK
    <3> QED
      BY <3>1 DEF BumpEpoch, ScriptState
  <2>2. epoch' \in Nat
    <3>1. epoch \in Nat
      BY DEF Inv, TypeOK
    <3> QED
      BY <3>1 DEF BumpEpoch
  <2> QED
    BY <2>1, <2>2 DEF Inv, TypeOK, BumpEpoch
<1>2. OrderInv'
  BY <1>1 DEF Inv, OrderInv, BumpEpoch, TypeOK, RefInv, ScriptState, FlightState,
      Answer, CallerState
<1>3. FenceInv'
  BY <1>1 DEF Inv, FenceInv, BumpEpoch, TypeOK, OrderInv, RefInv, ScriptState,
      FlightState, Answer, CallerState
<1>4. JoinInv'
  BY <1>1 DEF Inv, JoinInv, BumpEpoch, TypeOK, OrderInv, FenceInv, ListedFlightsRun,
      ScriptState, FlightState, Answer, CallerState
<1>5. RefInv' /\ ListedFlightsRun' /\ AwaitedFlightsRun' /\ WaitersSeeInvalidatedChanges' /\ KeptAnswersPassedTheFence'
  BY DEF Inv, RefInv, ListedFlightsRun, AwaitedFlightsRun,
      WaitersSeeInvalidatedChanges, KeptAnswersPassedTheFence, BumpEpoch
<1> QED
  BY <1>1, <1>2, <1>3, <1>4, <1>5 DEF Inv

(* The invariant is kept when invalidate empties the flights. *)
LEMMA ForgetFlightsStep ==
  ASSUME Inv, NEW s \in Scripts, ForgetFlights(s)
  PROVE  Inv'
<1>1. TypeOK'
  <2>1. table' \in [Keys -> Flights \cup {None}]
    <3>1. table \in [Keys -> Flights \cup {None}]
      BY DEF Inv, TypeOK
    <3> QED
      BY <3>1 DEF ForgetFlights
  <2>2. script' \in [Scripts -> ScriptState]
    <3>1. script \in [Scripts -> ScriptState] /\ catalog \in 1..MaxChanges
      BY DEF Inv, TypeOK
    <3> QED
      BY <3>1 DEF ForgetFlights, ScriptState
  <2> QED
    BY <2>1, <2>2 DEF Inv, TypeOK, ForgetFlights
<1>2. OrderInv'
  BY <1>1 DEF Inv, OrderInv, ForgetFlights, TypeOK, RefInv, ScriptState,
      FlightState, Answer, CallerState
<1>3. FenceInv'
  BY <1>1 DEF Inv, FenceInv, ForgetFlights, TypeOK, OrderInv, RefInv, ScriptState,
      FlightState, Answer, CallerState
<1>4. JoinInv'
  BY <1>1 DEF Inv, JoinInv, ForgetFlights, TypeOK, OrderInv, FenceInv,
      ListedFlightsRun, ScriptState, FlightState, Answer, CallerState
<1>5. ListedFlightsRun'
  BY <1>1 DEF Inv, ListedFlightsRun, ForgetFlights, TypeOK, RefInv, Running,
      ScriptState
<1>6. RefInv' /\ AwaitedFlightsRun' /\ WaitersSeeInvalidatedChanges' /\ KeptAnswersPassedTheFence'
  BY DEF Inv, RefInv, AwaitedFlightsRun, WaitersSeeInvalidatedChanges,
      KeptAnswersPassedTheFence, ForgetFlights
<1> QED
  BY <1>1, <1>2, <1>3, <1>4, <1>5, <1>6 DEF Inv

(* The invariant is kept when invalidate empties `recent`. *)
LEMMA ForgetRecentStep ==
  ASSUME Inv, NEW s \in Scripts, ForgetRecent(s)
  PROVE  Inv'
<1>1. TypeOK'
  <2>1. recent' \in [Keys -> Answer]
    <3>1. recent \in [Keys -> Answer] /\ flight \in [Flights -> FlightState]
      BY DEF Inv, TypeOK
    <3> QED
      BY <3>1 DEF ForgetRecent, FlightState, Answer, NoAnswer
  <2>2. script' \in [Scripts -> ScriptState]
    <3>1. script \in [Scripts -> ScriptState] /\ catalog \in 1..MaxChanges
      BY DEF Inv, TypeOK
    <3> QED
      BY <3>1 DEF ForgetRecent, ScriptState
  <2> QED
    BY <2>1, <2>2 DEF Inv, TypeOK, ForgetRecent
<1>2. OrderInv'
  BY <1>1 DEF Inv, OrderInv, ForgetRecent, TypeOK, RefInv, FlightState, Answer,
      NoAnswer, ScriptState, CallerState
<1>3. FenceInv'
  BY <1>1 DEF Inv, FenceInv, ForgetRecent, TypeOK, OrderInv, RefInv, FlightState,
      Answer, NoAnswer, ScriptState, CallerState
<1>4. JoinInv'
  BY <1>1 DEF Inv, JoinInv, ForgetRecent, TypeOK, OrderInv, FenceInv,
      ListedFlightsRun, FlightState, Answer, NoAnswer, ScriptState, CallerState
<1>5. KeptAnswersPassedTheFence'
  BY <1>1 DEF Inv, KeptAnswersPassedTheFence, ForgetRecent, TypeOK, RefInv,
      FenceInv, NoAnswer, FlightState, Answer, ScriptState
<1>6. RefInv' /\ ListedFlightsRun' /\ AwaitedFlightsRun' /\ WaitersSeeInvalidatedChanges'
  BY DEF Inv, RefInv, ListedFlightsRun, AwaitedFlightsRun,
      WaitersSeeInvalidatedChanges, ForgetRecent
<1> QED
  BY <1>1, <1>2, <1>3, <1>4, <1>5, <1>6 DEF Inv

(* The invariant is kept when invalidate clears the store. *)
LEMMA ClearStoredStep ==
  ASSUME Inv, NEW s \in Scripts, ClearStored(s)
  PROVE  Inv'
<1>1. TypeOK'
  <2>1. stored' \in [Keys -> Answer]
    <3>1. stored \in [Keys -> Answer] /\ flight \in [Flights -> FlightState]
      BY DEF Inv, TypeOK
    <3> QED
      BY <3>1 DEF ClearStored, FlightState, Answer, NoAnswer
  <2>2. script' \in [Scripts -> ScriptState]
    <3>1. script \in [Scripts -> ScriptState] /\ catalog \in 1..MaxChanges
      BY DEF Inv, TypeOK
    <3> QED
      BY <3>1 DEF ClearStored, ScriptState
  <2>3. floor' \in 0..MaxChanges
    <3>1. floor \in 0..MaxChanges /\ script \in [Scripts -> ScriptState]
      BY DEF Inv, TypeOK
    <3> QED
      BY <3>1 DEF ClearStored, ScriptState
  <2> QED
    BY <2>1, <2>2, <2>3 DEF Inv, TypeOK, ClearStored
<1>2. OrderInv'
  BY <1>1 DEF Inv, OrderInv, ClearStored, TypeOK, RefInv, FlightState, Answer,
      NoAnswer, ScriptState, CallerState
<1>3. FenceInv'
  BY <1>1 DEF Inv, FenceInv, ClearStored, TypeOK, OrderInv, RefInv, FlightState,
      Answer, NoAnswer, ScriptState, CallerState
<1>4. JoinInv'
  BY <1>1 DEF Inv, JoinInv, ClearStored, TypeOK, OrderInv, FenceInv,
      ListedFlightsRun, FlightState, Answer, NoAnswer, ScriptState, CallerState
<1>5. KeptAnswersPassedTheFence'
  BY <1>1 DEF Inv, KeptAnswersPassedTheFence, ClearStored, TypeOK, RefInv, FenceInv,
      NoAnswer, FlightState, Answer, ScriptState
<1>6. RefInv' /\ ListedFlightsRun' /\ AwaitedFlightsRun' /\ WaitersSeeInvalidatedChanges'
  BY DEF Inv, RefInv, ListedFlightsRun, AwaitedFlightsRun,
      WaitersSeeInvalidatedChanges, ClearStored
<1> QED
  BY <1>1, <1>2, <1>3, <1>4, <1>5, <1>6 DEF Inv

(* The invariant is kept when FRESH_FOR goes by. *)
LEMMA ExpireStep ==
  ASSUME Inv, NEW k \in Keys, Expire(k)
  PROVE  Inv'
<1>1. TypeOK'
  <2>1. recent' \in [Keys -> Answer]
    <3>1. recent \in [Keys -> Answer] /\ flight \in [Flights -> FlightState]
      BY DEF Inv, TypeOK
    <3> QED
      BY <3>1 DEF Expire, FlightState, Answer, NoAnswer
  <2> QED
    BY <2>1 DEF Inv, TypeOK, Expire
<1>2. KeptAnswersPassedTheFence'
  BY <1>1 DEF Inv, KeptAnswersPassedTheFence, Expire, TypeOK, RefInv, FenceInv,
      NoAnswer, FlightState, Answer
<1>3. RefInv' /\ OrderInv' /\ FenceInv' /\ JoinInv' /\ ListedFlightsRun' /\ AwaitedFlightsRun' /\ WaitersSeeInvalidatedChanges'
  BY DEF Inv, RefInv, OrderInv, FenceInv, JoinInv, ListedFlightsRun,
      AwaitedFlightsRun, WaitersSeeInvalidatedChanges, Expire
<1> QED
  BY <1>1, <1>2, <1>3 DEF Inv

(* The invariant is kept when the catalog changes elsewhere. *)
LEMMA ChangeElsewhereStep ==
  ASSUME Inv, ChangeElsewhere
  PROVE  Inv'
<1>1. TypeOK'
  <2>1. catalog' \in 1..MaxChanges
    <3>1. catalog \in 1..MaxChanges
      BY DEF Inv, TypeOK
    <3> QED
      BY <3>1 DEF ChangeElsewhere, memory
  <2> QED
    BY <2>1 DEF Inv, TypeOK, ChangeElsewhere, memory
<1>2. OrderInv'
  BY <1>1 DEF Inv, OrderInv, ChangeElsewhere, memory, TypeOK, RefInv, ScriptState,
      FlightState, Answer, CallerState
<1>3. RefInv' /\ FenceInv' /\ JoinInv' /\ ListedFlightsRun' /\ AwaitedFlightsRun' /\ WaitersSeeInvalidatedChanges' /\ KeptAnswersPassedTheFence'
  BY DEF Inv, RefInv, FenceInv, JoinInv, ListedFlightsRun, AwaitedFlightsRun,
      WaitersSeeInvalidatedChanges, KeptAnswersPassedTheFence, ChangeElsewhere, memory
<1> QED
  BY <1>1, <1>2, <1>3 DEF Inv

(* The invariant is kept when the app starts again. *)
LEMMA RestartStep ==
  ASSUME Inv, Restart
  PROVE  Inv'
<1>1. TypeOK'
  <2>1. flight' \in [Flights -> FlightState]
    <3>1. flight \in [Flights -> FlightState] /\ catalog \in 1..MaxChanges
           /\ floor \in 0..MaxChanges /\ epoch \in Nat
      BY DEF Inv, TypeOK
    <3> QED
      BY <3>1 DEF Restart, NoFlight, NoCaller, FlightState, Answer, NoAnswer,
          Running
  <2>2. caller' \in [Callers -> CallerState]
    <3>1. caller \in [Callers -> CallerState] /\ stored \in [Keys -> Answer]
           /\ floor \in 0..MaxChanges
      BY DEF Inv, TypeOK
    <3> QED
      BY <3>1 DEF Restart, NoFlight, NoCaller, CallerState
  <2>3. table' \in [Keys -> Flights \cup {None}]
    <3>1. table \in [Keys -> Flights \cup {None}]
      BY DEF Inv, TypeOK
    <3> QED
      BY <3>1 DEF Restart, NoFlight, NoCaller
  <2>4. recent' \in [Keys -> Answer]
    <3>1. recent \in [Keys -> Answer] /\ flight \in [Flights -> FlightState]
      BY DEF Inv, TypeOK
    <3> QED
      BY <3>1 DEF Restart, NoFlight, NoCaller, FlightState, Answer, NoAnswer
  <2>5. script' \in [Scripts -> ScriptState]
    <3>1. script \in [Scripts -> ScriptState] /\ catalog \in 1..MaxChanges
      BY DEF Inv, TypeOK
    <3> QED
      BY <3>1 DEF Restart, NoFlight, NoCaller, ScriptState
  <2>6. live' \subseteq Keys
    <3>1. live \subseteq Keys
      BY DEF Inv, TypeOK
    <3> QED
      BY <3>1 DEF Restart, NoFlight, NoCaller, FlightState
  <2>7. revalidations' \subseteq Flights \X (1..MaxChanges)
    <3>1. revalidations \subseteq Flights \X (1..MaxChanges)
      BY DEF Inv, TypeOK
    <3> QED
      BY <3>1 DEF Restart, NoFlight, NoCaller
  <2>8. epoch' \in Nat
    <3>1. epoch \in Nat
      BY DEF Inv, TypeOK
    <3> QED
      BY <3>1 DEF Restart, NoFlight, NoCaller
  <2> QED
    BY <2>1, <2>2, <2>3, <2>4, <2>5, <2>6, <2>7, <2>8 DEF Inv, TypeOK, Restart,
        NoFlight, NoCaller
<1>2. RefInv'
  BY <1>1 DEF Inv, RefInv, Restart, NoFlight, NoCaller, TypeOK, FlightState,
      CallerState, Answer, NoAnswer, ScriptState
<1>3. OrderInv'
  BY <1>1 DEF Inv, OrderInv, Restart, NoFlight, NoCaller, TypeOK, RefInv,
      FlightState, Answer, NoAnswer, CallerState, ScriptState
<1>4. FenceInv'
  BY <1>1 DEF Inv, FenceInv, Restart, NoFlight, NoCaller, TypeOK, OrderInv, RefInv,
      FlightState, Answer, NoAnswer, CallerState, ScriptState
<1>5. JoinInv'
  BY <1>1 DEF Inv, JoinInv, Restart, NoFlight, NoCaller, TypeOK, OrderInv, FenceInv,
      ListedFlightsRun, FlightState, Answer, NoAnswer, CallerState, ScriptState
<1>6. ListedFlightsRun'
  BY <1>1 DEF Inv, ListedFlightsRun, Restart, NoFlight, NoCaller, TypeOK, RefInv,
      Running, FlightState, Answer, NoAnswer, CallerState, ScriptState
<1>7. AwaitedFlightsRun'
  BY <1>1 DEF Inv, AwaitedFlightsRun, Restart, NoFlight, NoCaller, TypeOK, RefInv,
      ListedFlightsRun, Running, FlightState, Answer, NoAnswer, CallerState, ScriptState
<1>8. WaitersSeeInvalidatedChanges'
  BY <1>1 DEF Inv, WaitersSeeInvalidatedChanges, Restart, NoFlight, NoCaller,
      TypeOK, RefInv, OrderInv, AwaitedFlightsRun, Running, FlightState, Answer,
      NoAnswer, CallerState, ScriptState
<1>9. KeptAnswersPassedTheFence'
  BY <1>1 DEF Inv, KeptAnswersPassedTheFence, Restart, NoFlight, NoCaller, TypeOK,
      RefInv, FenceInv, NoAnswer, FlightState, Answer, CallerState, ScriptState
<1> QED
  BY <1>1, <1>2, <1>3, <1>4, <1>5, <1>6, <1>7, <1>8, <1>9 DEF Inv

(* Whoever boards gets a running flight of its key.  A flight that is new has   *)
(* nothing to show yet; one that is joined shows what JoinInv says.            *)
LEMMA BoardStep ==
  ASSUME Inv, NEW k \in Keys, NEW f \in Flights, Board(k, f)
  PROVE  /\ table' \in [Keys -> Flights \cup {None}]
         /\ flight' \in [Flights -> FlightState]
         /\ flight'[f].pc \in Running /\ flight'[f].key = k
         /\ flight'[f].answer.v # 0 => flight'[f].answer.v >= floor
         /\ \A g \in Flights : flight[g].pc \in Running => flight'[g] = flight[g]
         /\ \A g \in Flights : flight'[g] = flight[g] \/
              (g = f /\ flight'[g] = [pc |-> "fetching", key |-> k, epoch |-> epoch, answer |-> NoAnswer])
         /\ \A j \in Keys : table'[j] = table[j] \/ (j = k /\ table'[j] = f)
         /\ table'[k] = f
<1>1. /\ table \in [Keys -> Flights \cup {None}]
      /\ flight \in [Flights -> FlightState]
      /\ epoch \in Nat /\ floor \in 0..MaxChanges
  BY DEF Inv, TypeOK
<1>2. CASE table[k] = f /\ UNCHANGED <<table, flight>>
  <2>1. flight[f].pc = "fetching" => flight[f].answer.v = 0
    BY DEF Inv, OrderInv
  <2>2. flight[f].pc \in Running /\ flight[f].key = k
    BY <1>2 DEF Inv, ListedFlightsRun
  <2>3. flight[f].answer.v # 0 => flight[f].answer.v >= floor
    BY <1>2, <2>1 DEF Inv, JoinInv
  <2> QED
    BY <1>1, <1>2, <2>2, <2>3
<1>3. CASE /\ table[k] = None
           /\ flight[f].pc = "free"
           /\ table' = [table EXCEPT ![k] = f]
           /\ flight' = [flight EXCEPT ![f] =
                [pc |-> "fetching", key |-> k, epoch |-> epoch, answer |-> NoAnswer]]
  <2>1. [pc |-> "fetching", key |-> k, epoch |-> epoch, answer |-> NoAnswer] \in FlightState
    BY <1>1 DEF FlightState, Running, Answer, NoAnswer
  <2> QED
    BY <1>1, <1>3, <2>1 DEF Running, NoAnswer
<1> QED
  BY <1>2, <1>3 DEF Board

(* The invariant is kept when a request joins or starts a flight. *)
LEMMA StartStep ==
  ASSUME Inv, NEW c \in Callers, Start(c)
  PROVE  Inv'
<1> DEFINE k == caller[c].key
<1>1. /\ caller \in [Callers -> CallerState] /\ flight \in [Flights -> FlightState]
      /\ table \in [Keys -> Flights \cup {None}]
  BY DEF Inv, TypeOK
<1>2. k \in Keys
  BY DEF Inv, RefInv, Start
<1>3. PICK f \in Flights : Board(k, f) /\ caller' = [caller EXCEPT ![c] = [@ EXCEPT !.pc = "waiting", !.at = f]]
  BY DEF Start
<1> HIDE DEF k
<1>4. /\ table' \in [Keys -> Flights \cup {None}]
      /\ flight' \in [Flights -> FlightState]
      /\ flight'[f].pc \in Running /\ flight'[f].key = k
      /\ flight'[f].answer.v # 0 => flight'[f].answer.v >= floor
      /\ \A g \in Flights : flight[g].pc \in Running => flight'[g] = flight[g]
      /\ \A g \in Flights : flight'[g] = flight[g] \/
           (g = f /\ flight'[g] = [pc |-> "fetching", key |-> k, epoch |-> epoch, answer |-> NoAnswer])
      /\ \A j \in Keys : table'[j] = table[j] \/ (j = k /\ table'[j] = f)
      /\ table'[k] = f
  BY <1>2, <1>3, BoardStep
<1>5. UNCHANGED <<catalog, epoch, recent, live, stored, script, floor>> /\ told' = FALSE
  BY DEF Start
<1>6. /\ caller' \in [Callers -> CallerState]
      /\ \A d \in Callers \ {c} : caller'[d] = caller[d]
      /\ caller'[c].pc = "waiting" /\ caller'[c].at = f /\ caller'[c].asked <= floor
      /\ caller'[c].key = k
  <2>1. caller[c].asked <= floor
    BY DEF Inv, OrderInv, Start
  <2>2. [caller[c] EXCEPT !.pc = "waiting", !.at = f] \in CallerState
    BY <1>1 DEF CallerState
  <2>3. caller' \in [Callers -> CallerState] /\ \A d \in Callers \ {c} : caller'[d] = caller[d]
    BY <1>1, <1>3, <2>2
  <2>4. caller'[c] = [caller[c] EXCEPT !.pc = "waiting", !.at = f]
    BY <1>1, <1>3
  <2>5. /\ caller'[c].pc = "waiting" /\ caller'[c].at = f
        /\ caller'[c].asked = caller[c].asked /\ caller'[c].key = caller[c].key
    BY <1>1, <2>4 DEF CallerState
  <2> QED
    BY <2>1, <2>3, <2>5 DEF k
<1>7. TypeOK'
  BY <1>4, <1>5, <1>6, <1>3 DEF Inv, TypeOK, Start
<1>8. RefInv'
  BY <1>1, <1>2, <1>4, <1>6 DEF Inv, RefInv
<1>9. OrderInv'
  <2>1. \A g \in Flights :
          /\ flight'[g].answer.v <= catalog'
          /\ flight'[g].pc \in {"free", "fetching"} => flight'[g].answer.v = 0
    BY <1>4, <1>5 DEF Inv, TypeOK, OrderInv, NoAnswer
  <2>2. \A d \in Callers : caller'[d].pc \in {"isLive", "readStored", "start", "waiting"}
                           => caller'[d].asked <= floor'
    BY <1>5, <1>6 DEF Inv, OrderInv
  <2> QED
    <3>1. floor' <= catalog' /\ \A s \in Scripts : script'[s].v <= catalog'
      BY <1>5 DEF Inv, OrderInv
    <3> QED
      BY <2>1, <2>2, <3>1 DEF OrderInv
<1>10. FenceInv'
  BY <1>1, <1>4, <1>5 DEF Inv, TypeOK, FenceInv, NoAnswer
<1>11. JoinInv'
  <2>1. \A j \in Keys : table[j] # None => flight'[table[j]] = flight[table[j]]
    BY <1>1, <1>4 DEF Inv, ListedFlightsRun
  <2>2. \A j \in Keys : table'[j] # None /\ table'[j] # table[j] => flight'[table'[j]].pc = "fetching"
    BY <1>1, <1>2, <1>3, <1>4 DEF Board
  <2> QED
    BY <1>1, <1>4, <1>5, <2>1, <2>2 DEF Inv, JoinInv
<1>12. ListedFlightsRun'
  BY <1>1, <1>2, <1>4 DEF Inv, ListedFlightsRun
<1>13. AwaitedFlightsRun'
  <2>1. \A d \in Callers : caller'[d].pc = "waiting" => flight'[caller'[d].at].pc \in Running
    BY <1>1, <1>4, <1>6 DEF Inv, RefInv, AwaitedFlightsRun
  <2>2. \A t \in revalidations' : flight'[t[1]].pc \in Running
    BY <1>1, <1>3, <1>4 DEF Inv, TypeOK, AwaitedFlightsRun, Start
  <2> QED
    BY <2>1, <2>2 DEF AwaitedFlightsRun
<1>14. WaitersSeeInvalidatedChanges'
  <2> SUFFICES ASSUME NEW d \in Callers, caller'[d].pc = "waiting", flight'[caller'[d].at].answer.v # 0
               PROVE  flight'[caller'[d].at].answer.v >= caller'[d].asked
    BY DEF WaitersSeeInvalidatedChanges
  <2>1. CASE d = c
    <3>1. flight'[f].answer.v >= floor /\ flight'[f].answer.v \in Nat /\ floor \in Nat
          /\ caller'[c].asked \in Nat
      BY <1>4, <1>6, <2>1 DEF Inv, TypeOK, FlightState, Answer, CallerState
    <3> QED
      BY <1>6, <2>1, <3>1
  <2>2. CASE d # c
    BY <1>1, <1>4, <1>6, <2>2 DEF Inv, RefInv, AwaitedFlightsRun, WaitersSeeInvalidatedChanges
  <2> QED
    BY <2>1, <2>2
<1>15. KeptAnswersPassedTheFence'
  BY <1>5 DEF Inv, KeptAnswersPassedTheFence
<1> QED
  BY <1>7, <1>8, <1>9, <1>10, <1>11, <1>12, <1>13, <1>14, <1>15 DEF Inv

(* The invariant is kept when a request is served and a revalidation starts. *)
LEMMA ServeStep ==
  ASSUME Inv, NEW c \in Callers, Serve(c)
  PROVE  Inv'
<1> DEFINE k == caller[c].key
<1>1. /\ caller \in [Callers -> CallerState] /\ flight \in [Flights -> FlightState]
      /\ table \in [Keys -> Flights \cup {None}]
  BY DEF Inv, TypeOK
<1>2. k \in Keys
  BY DEF Inv, RefInv, Serve
<1>3. PICK f \in Flights : Board(k, f) /\ revalidations' = revalidations \cup {<<f, caller[c].asked>>}
  BY DEF Serve
<1> HIDE DEF k
<1>4. /\ table' \in [Keys -> Flights \cup {None}]
      /\ flight' \in [Flights -> FlightState]
      /\ flight'[f].pc \in Running /\ flight'[f].key = k
      /\ flight'[f].answer.v # 0 => flight'[f].answer.v >= floor
      /\ \A g \in Flights : flight[g].pc \in Running => flight'[g] = flight[g]
      /\ \A g \in Flights : flight'[g] = flight[g] \/
           (g = f /\ flight'[g] = [pc |-> "fetching", key |-> k, epoch |-> epoch, answer |-> NoAnswer])
      /\ \A j \in Keys : table'[j] = table[j] \/ (j = k /\ table'[j] = f)
      /\ table'[k] = f
  BY <1>2, <1>3, BoardStep
<1>5. UNCHANGED <<catalog, epoch, recent, live, stored, script, floor>> /\ told' = FALSE
  BY DEF Serve
<1>6. /\ caller' \in [Callers -> CallerState]
      /\ \A d \in Callers \ {c} : caller'[d] = caller[d]
      /\ caller'[c] = NoCaller
  <2>1. caller' = [caller EXCEPT ![c] = NoCaller]
    BY DEF Serve
  <2> QED
    BY <1>1, <2>1 DEF CallerState, NoCaller
<1>7. TypeOK'
  <2>1. caller[c].asked \in 1..MaxChanges
    BY <1>1 DEF Inv, RefInv, Serve, CallerState
  <2>2. revalidations' \subseteq Flights \X (1..MaxChanges)
    BY <1>3, <2>1 DEF Inv, TypeOK
  <2> QED
    BY <1>4, <1>5, <1>6, <2>2 DEF Inv, TypeOK
<1>8. RefInv'
  BY <1>1, <1>2, <1>4, <1>6 DEF Inv, RefInv, NoCaller
<1>9. OrderInv'
  <2>1. \A g \in Flights :
          /\ flight'[g].answer.v <= catalog'
          /\ flight'[g].pc \in {"free", "fetching"} => flight'[g].answer.v = 0
    BY <1>4, <1>5 DEF Inv, TypeOK, OrderInv, NoAnswer
  <2>2. \A d \in Callers : caller'[d].pc \in {"isLive", "readStored", "start", "waiting"}
                           => caller'[d].asked <= floor'
    BY <1>5, <1>6 DEF Inv, OrderInv, NoCaller
  <2> QED
    <3>1. floor' <= catalog' /\ \A s \in Scripts : script'[s].v <= catalog'
      BY <1>5 DEF Inv, OrderInv
    <3> QED
      BY <2>1, <2>2, <3>1 DEF OrderInv
<1>10. FenceInv'
  BY <1>1, <1>4, <1>5 DEF Inv, TypeOK, FenceInv, NoAnswer
<1>11. JoinInv'
  <2>1. \A j \in Keys : table[j] # None => flight'[table[j]] = flight[table[j]]
    BY <1>1, <1>4 DEF Inv, ListedFlightsRun
  <2>2. \A j \in Keys : table'[j] # None /\ table'[j] # table[j] => flight'[table'[j]].pc = "fetching"
    BY <1>1, <1>2, <1>3, <1>4 DEF Board
  <2> QED
    BY <1>1, <1>4, <1>5, <2>1, <2>2 DEF Inv, JoinInv
<1>12. ListedFlightsRun'
  BY <1>1, <1>2, <1>4 DEF Inv, ListedFlightsRun
<1>13. AwaitedFlightsRun'
  <2>1. \A d \in Callers : caller'[d].pc = "waiting" => flight'[caller'[d].at].pc \in Running
    BY <1>1, <1>4, <1>6 DEF Inv, RefInv, AwaitedFlightsRun, NoCaller
  <2>2. \A t \in revalidations' : flight'[t[1]].pc \in Running
    BY <1>1, <1>3, <1>4 DEF Inv, TypeOK, AwaitedFlightsRun, Serve
  <2> QED
    BY <2>1, <2>2 DEF AwaitedFlightsRun
<1>14. WaitersSeeInvalidatedChanges'
  BY <1>1, <1>4, <1>6 DEF Inv, RefInv, OrderInv, AwaitedFlightsRun, WaitersSeeInvalidatedChanges, NoCaller
<1>15. KeptAnswersPassedTheFence'
  BY <1>5 DEF Inv, KeptAnswersPassedTheFence
<1> QED
  BY <1>7, <1>8, <1>9, <1>10, <1>11, <1>12, <1>13, <1>14, <1>15 DEF Inv

-----------------------------------------------------------------------------
(* The invariant holds initially. *)
LEMMA InitInv == Init => Inv
<1> SUFFICES ASSUME Init PROVE Inv
  OBVIOUS
<1>1. TypeOK
  <2>1. NoAnswer \in Answer
    BY DEF NoAnswer, Answer
  <2>2. NoFlight \in FlightState /\ NoCaller \in CallerState
    BY <2>1 DEF NoFlight, NoCaller, FlightState, CallerState
  <2>3. [pc |-> "idle", v |-> 0] \in ScriptState
    BY DEF ScriptState
  <2>4. flight \in [Flights -> FlightState] /\ caller \in [Callers -> CallerState]
        /\ script \in [Scripts -> ScriptState] /\ recent \in [Keys -> Answer] /\ stored \in [Keys -> Answer]
    BY <2>1, <2>2, <2>3 DEF Init
  <2> QED
    <3>1. catalog \in 1..MaxChanges /\ floor \in 0..MaxChanges /\ epoch \in Nat
      BY DEF Init
    <3>4. told \in BOOLEAN
      BY Zenon DEF Init
    <3>2. live \subseteq Keys /\ revalidations \subseteq Flights \X (1..MaxChanges)
      <4>1. live = {} /\ revalidations = {}
        BY DEF Init
      <4> QED
        BY <4>1, Zenon
    <3>3. table \in [Keys -> Flights \cup {None}]
      BY DEF Init
    <3> QED
      BY <2>4, <3>1, <3>2, <3>3, <3>4 DEF TypeOK
<1>2. RefInv /\ OrderInv /\ FenceInv /\ JoinInv
  BY DEF Init, RefInv, OrderInv, FenceInv, JoinInv, NoAnswer, NoFlight, NoCaller
<1>3. /\ ListedFlightsRun /\ AwaitedFlightsRun
      /\ WaitersSeeInvalidatedChanges /\ KeptAnswersPassedTheFence
  BY DEF Init, ListedFlightsRun, AwaitedFlightsRun, WaitersSeeInvalidatedChanges,
      KeptAnswersPassedTheFence, NoAnswer, NoCaller
<1> QED
  BY <1>1, <1>2, <1>3 DEF Inv

(* The invariant is inductive. *)
LEMMA StepInv == Inv /\ [Next]_vars => Inv'
<1> SUFFICES ASSUME Inv, [Next]_vars PROVE Inv'
  OBVIOUS
<1>1. ASSUME NEW c \in Callers, NEW k \in Keys, NEW force \in BOOLEAN, Ask(c, k, force)
      PROVE  Inv'
  BY <1>1, AskStep
<1>2. ASSUME NEW c \in Callers, Load(c) \/ Start(c) \/ Serve(c)
      PROVE  Inv'
  BY <1>2, IsLiveStep, ReadStoredStep, StartStep, ServeStep DEF Load
<1>3. ASSUME NEW f \in Flights, FetchAnswers(f) \/ FetchFails(f) \/ Keep(f)
      PROVE  Inv'
  BY <1>3, FetchAnswersStep, FetchFailsStep, CheckEpochStep, PersistStep,
     RememberRecentStep, RememberLiveStep, FinishStep DEF Keep
<1>4. ASSUME NEW s \in Scripts, RunScript(s) \/ Invalidate(s)
      PROVE  Inv'
  BY <1>4, RunScriptStep, BumpEpochStep, ForgetFlightsStep, ForgetRecentStep,
     ClearStoredStep DEF Invalidate
<1>5. ASSUME NEW k \in Keys, Expire(k)
      PROVE  Inv'
  BY <1>5, ExpireStep
<1>6. CASE UNCHANGED vars
  BY <1>6 DEF vars, memory, Inv, TypeOK, RefInv, OrderInv, FenceInv, JoinInv,
     ListedFlightsRun, AwaitedFlightsRun, WaitersSeeInvalidatedChanges, KeptAnswersPassedTheFence
<1> QED
  BY <1>1, <1>2, <1>3, <1>4, <1>5, <1>6, ChangeElsewhereStep, RestartStep DEF Next

(* Every reachable state satisfies the inductive invariant. *)
THEOREM CacheInvariance == Spec => []Inv
<1> QED
  BY InitInv, StepInv, PTL DEF Spec

(* The state stays within its type. *)
THEOREM CacheTypes == Spec => []TypeOK
<1>1. Inv => TypeOK
  BY DEF Inv
<1> QED
  BY CacheInvariance, <1>1, PTL

(* Nobody who asks after an invalidation has returned is answered by a call   *)
(* that does not show it (`invalidate`, `start`).                             *)
THEOREM NobodyJoinsAStaleCall == Spec => []WaitersSeeInvalidatedChanges
<1>1. Inv => WaitersSeeInvalidatedChanges
  BY DEF Inv
<1> QED
  BY CacheInvariance, <1>1, PTL

(* The epoch comparison keeps answers out that were read before an            *)
(* invalidation which had returned by then (`start`, lines 243 to 250).       *)
THEOREM TheFenceHolds == Spec => []KeptAnswersPassedTheFence
<1>1. Inv => KeptAnswersPassedTheFence
  BY DEF Inv
<1> QED
  BY CacheInvariance, <1>1, PTL

(* A listed or awaited call is still running, so it resolves for everybody.   *)
THEOREM NobodyAwaitsAFinishedCall == Spec => []CallsAreRunning
<1>1. Inv => CallsAreRunning
  BY DEF Inv, CallsAreRunning
<1> QED
  BY CacheInvariance, <1>1, PTL

(* Tasks come when a stored answer is served, and go with their flight or the *)
(* whole process.                                                             *)
LEMMA TasksEndWithTheirFlight ==
  ASSUME Next, NEW t \in revalidations, t \notin revalidations'
  PROVE  Restart \/ \E f \in Flights : Finish(f) /\ t[1] = f
<1>1. CASE \E f \in Flights : Finish(f)
  <2>1. PICK f \in Flights : Finish(f)
    BY <1>1
  <2>2. revalidations' = {u \in revalidations : u[1] # f}
    BY <2>1 DEF Finish, Resolve
  <2> QED
    BY <2>1, <2>2
<1>2. ASSUME ~Restart, \A f \in Flights : ~Finish(f)
      PROVE  revalidations \subseteq revalidations'
  BY <1>2 DEF Next, Ask, Load, IsLive, ReadStored, Start, Serve, FetchAnswers, FetchFails, Keep, CheckEpoch,
     Persist, RememberRecent, RememberLive, RunScript, Invalidate, BumpEpoch, ForgetFlights, ForgetRecent,
     ClearStored, Expire, ChangeElsewhere, memory
<1> QED
  BY <1>1, <1>2

(* Whoever was served a stored answer hears of it when the live one differs   *)
(* (`revalidate`), whatever the flight has written over that row meanwhile.   *)
THEOREM WhoWasServedIsTold == Spec => DifferenceIsTold
<1>1. ASSUME Next, NEW t \in revalidations, t \notin revalidations', flight[t[1]].answer.v \notin {0, t[2]}
      PROVE  told' \/ Restart
  <2>1. CASE \E f \in Flights : Finish(f) /\ t[1] = f
    BY <1>1, <2>1 DEF Finish, Resolve
  <2> QED
    BY <1>1, <2>1, TasksEndWithTheirFlight
<1>2. [Next]_vars =>
        [\A t \in revalidations :
           t \notin revalidations' /\ flight[t[1]].answer.v \notin {0, t[2]} => told' \/ Restart]_vars
  BY <1>1
<1> QED
  BY <1>2, PTL DEF Spec, DifferenceIsTold

=============================================================================
