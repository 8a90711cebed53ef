----------------------- MODULE ManualTransactionProofs -----------------------
(***************************************************************************)
(* The claims of ManualTransaction for every number of plans, statements,  *)
(* buttons and connections and every size of a plan.  The invariant has    *)
(* three layers: types, the places of the connections, and what has become *)
(* of a plan that no other request overlaps, also once the guard dropped   *)
(* it and left a part of it in the pinned transaction.                     *)
(***************************************************************************)
EXTENDS ManualTransaction, SequenceTheorems, TLAPS

USE SizeIsPositive, NoneIsNothing, KindsDiffer

RequestState ==
  [at : Commands, n : 1 .. Size, own : BOOLEAN, conn : Conns \cup {NoConn},
   phase : {"idle", "call", "lock", "pool", "run", "pins", "drain", "done"},
   answer : {"", "ok", "error", "dropped"}]

-----------------------------------------------------------------------------
(* The course of a request *)

(* What a request looks like that goes on to its next command.              *)
LEMMA GotoFields ==
  ASSUME TypeOK, NEW k \in Requests, NEW at \in Commands
  PROVE  /\ Goto(k, at) \in RequestState
         /\ Goto(k, at).at = at /\ Goto(k, at).conn = NoConn
         /\ Goto(k, at).n = req[k].n /\ Goto(k, at).own = req[k].own
         /\ Goto(k, at).phase = IF at \in {"begin", "commit", "rollback"} THEN "lock" ELSE "call"
<1>1. req[k] \in RequestState
  BY DEF TypeOK, RequestState
<1> QED
  BY <1>1 DEF Goto, RequestState

(* What an answered request looks like.                                     *)
LEMMA AnswerFields ==
  ASSUME TypeOK, NEW k \in Requests, NEW answer \in {"ok", "error", "dropped"}
  PROVE  /\ Answer(k, answer) \in RequestState
         /\ Answer(k, answer).phase = "done" /\ Answer(k, answer).conn = NoConn
         /\ Answer(k, answer).n = 1 /\ Answer(k, answer).own = req[k].own
         /\ Answer(k, answer).at = ""
         /\ k \in Plans => Answer(k, answer).answer = answer
<1>1. req[k].own \in BOOLEAN
  BY DEF TypeOK
<1>2. 1 \in 1 .. Size
  OBVIOUS
<1> QED
  BY <1>1, <1>2 DEF Answer, NotSent, RequestState, Commands

(* The commands are commands.                                               *)
LEMMA CommandsOfAreCommands == \A k \in Requests : CommandsOf(k) \subseteq Commands
  BY DEF CommandsOf, Commands, InTransaction, AtEnd

(* What follows the reply to a change.                                      *)
LEMMA NextChangeFields ==
  ASSUME TypeOK, NEW p \in Plans, NEW ok \in BOOLEAN
  PROVE  /\ NextChange(p, ok) \in RequestState
         /\ NextChange(p, ok).own = req[p].own /\ NextChange(p, ok).conn = NoConn
         /\ ok /\ req[p].n < Size =>
              /\ NextChange(p, ok).at = "change" /\ NextChange(p, ok).n = req[p].n + 1
              /\ NextChange(p, ok).phase = "call"
         /\ ok /\ req[p].n = Size =>
              IF req[p].own THEN NextChange(p, ok).at = "commit" /\ NextChange(p, ok).phase = "lock"
              ELSE NextChange(p, ok).at = "release" /\ NextChange(p, ok).phase = "call"
         /\ ~ok =>
              IF req[p].own THEN NextChange(p, ok).at = "rollback" /\ NextChange(p, ok).phase = "lock"
              ELSE NextChange(p, ok).at = "undo" /\ NextChange(p, ok).phase = "call"
<1>1. p \in Requests /\ req[p].n \in 1 .. Size /\ req[p].own \in BOOLEAN
  BY DEF TypeOK, Requests
<1>2. {"change", "commit", "release", "rollback", "undo"} \subseteq Commands
  BY DEF Commands
<1>3. CASE ok /\ req[p].n < Size
  <2>1. req[p].n + 1 \in 1 .. Size
    BY <1>1, <1>3
  <2> DEFINE next == Goto(p, "change")
  <2>2. NextChange(p, ok) = [next EXCEPT !.n = @ + 1]
    BY <1>3 DEF NextChange
  <2>3. /\ next \in RequestState /\ next.n = req[p].n
        /\ next.at = "change" /\ next.conn = NoConn
        /\ next.own = req[p].own /\ next.phase = "call"
    BY <1>1, <1>2, GotoFields
  <2> HIDE DEF next
  <2>4. NextChange(p, ok).n = req[p].n + 1
    BY <2>2, <2>3 DEF RequestState
  <2>5. /\ NextChange(p, ok).at = "change" /\ NextChange(p, ok).conn = NoConn
        /\ NextChange(p, ok).own = req[p].own /\ NextChange(p, ok).phase = "call"
    BY <2>2, <2>3 DEF RequestState
  <2>6. NextChange(p, ok) \in RequestState
    <3>1. next.n + 1 \in 1 .. Size
      BY <2>1, <2>3
    <3> QED
      BY <2>2, <2>3, <3>1 DEF RequestState
  <2>7. req[p].n # Size
    BY <1>1, <1>3
  <2> QED
    BY <1>3, <2>4, <2>5, <2>6, <2>7
<1>4. CASE ok /\ req[p].n = Size
  <2>1. NextChange(p, ok) = Goto(p, IF req[p].own THEN "commit" ELSE "release")
    BY <1>1, <1>4 DEF NextChange
  <2>0. ~(req[p].n < Size)
    BY <1>1, <1>4
  <2>2. CASE req[p].own
    <3>1. NextChange(p, ok) = Goto(p, "commit") /\ "commit" \in Commands
      BY <1>2, <2>1, <2>2
    <3>2. /\ NextChange(p, ok) \in RequestState
          /\ NextChange(p, ok).own = req[p].own /\ NextChange(p, ok).conn = NoConn
          /\ NextChange(p, ok).at = "commit" /\ NextChange(p, ok).phase = "lock"
      BY <1>1, <3>1, GotoFields
    <3> QED
      BY <1>4, <2>0, <2>2, <3>2
  <2>3. CASE ~req[p].own
    <3>1. NextChange(p, ok) = Goto(p, "release") /\ "release" \in Commands
      BY <1>2, <2>1, <2>3
    <3>2. /\ NextChange(p, ok) \in RequestState
          /\ NextChange(p, ok).own = req[p].own /\ NextChange(p, ok).conn = NoConn
          /\ NextChange(p, ok).at = "release" /\ NextChange(p, ok).phase = "call"
      BY <1>1, <3>1, GotoFields
    <3> QED
      BY <1>4, <2>0, <2>3, <3>2
  <2> QED
    BY <2>2, <2>3
<1>5. CASE ~ok
  <2>1. NextChange(p, ok) = Goto(p, IF req[p].own THEN "rollback" ELSE "undo")
    BY <1>5 DEF NextChange
  <2> QED
    BY <1>1, <1>2, <1>5, <2>1, GotoFields
<1> QED
  BY <1>1, <1>3, <1>4, <1>5

(* What follows a reply, for every request: no connection, the same owner,  *)
(* and a command of its kind.                                               *)
LEMMA ProceedFields ==
  ASSUME TypeOK, RequestsFit, NEW k \in Requests, NEW ok \in BOOLEAN
  PROVE  /\ Proceed(k, ok) \in RequestState
         /\ Proceed(k, ok).own = req[k].own /\ Proceed(k, ok).conn = NoConn
         /\ Proceed(k, ok).phase \in {"call", "lock", "pins", "done"}
         /\ Proceed(k, ok).phase \in {"call", "lock"} => Proceed(k, ok).at \in CommandsOf(k)
         /\ k \notin Plans => Proceed(k, ok).n = 1
         /\ Proceed(k, ok).phase = "call" => Proceed(k, ok).at \notin AtEnd \cup {"begin"}
<1>1. CASE k \in Plans
  <2>1. Proceed(k, ok) = NextOfPlan(k, ok) /\ "change" \in Commands
    BY <1>1 DEF Proceed, Commands
  <2>2. {"change", "commit", "release", "rollback", "undo"} \subseteq CommandsOf(k)
    BY <1>1 DEF CommandsOf, InTransaction, AtEnd
  <2>3. CASE req[k].at = "change"
    <3>1. Proceed(k, ok) = NextChange(k, ok) /\ req[k].n \in 1 .. Size
      BY <2>1, <2>3 DEF NextOfPlan, TypeOK
    <3>2. req[k].n < Size \/ req[k].n = Size
      BY <3>1
    <3> QED
      BY <1>1, <2>2, <3>1, <3>2, NextChangeFields DEF AtEnd
  <2>4. CASE req[k].at # "change"
    <3>1. Proceed(k, ok) \in {Goto(k, "change"), Answer(k, "ok"), Answer(k, "error")}
      BY <2>1, <2>4 DEF NextOfPlan
    <3>2. CASE Proceed(k, ok) = Goto(k, "change")
      BY <1>1, <2>1, <2>2, <3>2, GotoFields DEF AtEnd
    <3>3. CASE Proceed(k, ok) = Answer(k, "ok")
      BY <1>1, <3>3, AnswerFields
    <3>4. CASE Proceed(k, ok) = Answer(k, "error")
      BY <1>1, <3>4, AnswerFields
    <3> QED
      BY <3>1, <3>2, <3>3, <3>4
  <2> QED
    BY <2>3, <2>4
<1>2. CASE k \in Disconnects
  <2>1. Proceed(k, ok) = [req[k] EXCEPT !.at = "close", !.phase = "pins", !.conn = NoConn]
    BY <1>2 DEF Proceed
  <2>2. req[k] \in RequestState /\ "close" \in Commands /\ (k \notin Plans => req[k].n = 1)
    BY DEF TypeOK, RequestState, Commands, RequestsFit, RequestFits
  <2> QED
    BY <1>2, <2>1, <2>2 DEF RequestState
<1>3. CASE k \notin Plans \cup Disconnects
  <2>1. Proceed(k, ok) \in {Answer(k, "ok"), Answer(k, "error")}
    BY <1>3 DEF Proceed
  <2>2. CASE Proceed(k, ok) = Answer(k, "ok")
    BY <1>3, <2>2, AnswerFields
  <2>3. CASE Proceed(k, ok) = Answer(k, "error")
    BY <1>3, <2>3, AnswerFields
  <2> QED
    BY <2>1, <2>2, <2>3
<1> QED
  BY <1>1, <1>2, <1>3

-----------------------------------------------------------------------------
(* The replies of the server *)

(* What each reply does to session s: `to` is what it leaves, `kept` what   *)
(* becomes durable.                                                         *)
Loses(s, r) == r.to = Lost /\ r.kept = {} /\ r.ok = FALSE
Aborts(s, r) == r.to = (IF s.is = "open" THEN [s EXCEPT !.is = "aborted"] ELSE s) /\ r.kept = {} /\ r.ok = FALSE
Commits(s, r) ==
  /\ s.is \in {"open", "aborted"} /\ r.to \in {Clean, Lost}
  /\ r.kept \in {{}, s.work} /\ (s.is = "aborted" => r.kept = {})
  /\ r.ok = TRUE \/ r.ok = FALSE
  /\ r.ok = TRUE /\ s.is = "open" => r.kept = s.work
RollsBack(s, r) == r.to = Clean /\ r.kept = {} /\ r.ok = TRUE
Opens(s, r) ==
  /\ s.is \in {"clean", "open"} /\ r.kept = {} /\ r.ok = TRUE
  /\ r.to = IF s.is = "clean" THEN [s EXCEPT !.is = "open"] ELSE s
Saves(s, r) == s.is = "open" /\ r.to = [s EXCEPT !.marks = Append(@, s.work)] /\ r.kept = {} /\ r.ok = TRUE
Releases(s, r) ==
  /\ s.is = "open" /\ s.marks # <<>> /\ r.kept = {} /\ r.ok = TRUE
  /\ r.to = [s EXCEPT !.marks = SubSeq(@, 1, Len(@) - 1)]
Undoes(s, r) ==
  /\ s.is \in {"open", "aborted"} /\ s.marks # <<>> /\ r.kept = {} /\ r.ok = TRUE
  /\ r.to = [s EXCEPT !.is = "open", !.work = s.marks[Len(s.marks)]]
WorksInside(s, change, r) ==
  s.is = "open" /\ r.to = [s EXCEPT !.work = @ \cup {change}] /\ r.kept = {} /\ r.ok = TRUE
WorksOutside(s, change, r) ==
  /\ s.is = "clean" /\ r.to \in {s, Lost} /\ r.kept = {change}
  /\ r.ok = TRUE \/ r.ok = FALSE

(* The commands that are not work.                                          *)
Framing == AtEnd \cup {"begin", "savepoint", "release", "undo"}

(* A reply is one of the replies to the command.                            *)
LEMMA RepliesAre ==
  ASSUME NEW s, NEW k \in Requests, NEW r \in Replies(s, k)
  PROVE  \/ Loses(s, r)
         \/ req[k].at = "commit" /\ Commits(s, r)
         \/ req[k].at = "rollback" /\ RollsBack(s, r)
         \/ req[k].at \notin AtEnd /\ Aborts(s, r)
         \/ req[k].at = "begin" /\ Opens(s, r)
         \/ req[k].at = "savepoint" /\ Saves(s, r)
         \/ req[k].at = "release" /\ Releases(s, r)
         \/ req[k].at = "undo" /\ Undoes(s, r)
         \/ /\ req[k].at \notin Framing
            /\ WorksInside(s, <<k, req[k].n>>, r) \/ WorksOutside(s, <<k, req[k].n>>, r)
<1>1. \/ Loses(s, r)
      \/ req[k].at = "commit" /\ r \in CommitReplies(s)
      \/ req[k].at = "rollback" /\ r \in RollbackReplies(s)
      \/ req[k].at \notin AtEnd /\ Aborts(s, r)
      \/ req[k].at = "begin" /\ r \in BeginReplies(s)
      \/ req[k].at = "savepoint" /\ r \in SavepointReplies(s)
      \/ req[k].at = "release" /\ r \in ReleaseReplies(s)
      \/ req[k].at = "undo" /\ r \in UndoReplies(s)
      \/ req[k].at \notin Framing /\ r \in WorkReplies(s, k)
  BY DEF Replies, AtEnd, Framing, Reply, Refused, Loses, Aborts
<1>2. ASSUME r \in CommitReplies(s) PROVE Commits(s, r)
  <2>1. s.is = "open" \/ s.is = "aborted"
    BY <1>2 DEF CommitReplies
  <2>2. CASE s.is = "open"
    BY <1>2, <2>2 DEF CommitReplies, Reply, Commits
  <2>3. CASE s.is = "aborted"
    BY <1>2, <2>3 DEF CommitReplies, Reply, Commits
  <2> QED
    BY <2>1, <2>2, <2>3
<1>3. ASSUME r \in RollbackReplies(s) PROVE RollsBack(s, r)
  BY <1>3 DEF RollbackReplies, Reply, RollsBack
<1>4. ASSUME r \in BeginReplies(s) PROVE Opens(s, r)
  <2>1. s.is = "open" \/ s.is = "clean"
    BY <1>4 DEF BeginReplies
  <2>2. CASE s.is = "open"
    BY <1>4, <2>2 DEF BeginReplies, Reply, Opens
  <2>3. CASE s.is = "clean"
    BY <1>4, <2>3 DEF BeginReplies, Reply, Opens
  <2> QED
    BY <2>1, <2>2, <2>3
<1>5. ASSUME r \in SavepointReplies(s) PROVE Saves(s, r)
  BY <1>5 DEF SavepointReplies, Reply, Saves
<1>6. ASSUME r \in ReleaseReplies(s) PROVE Releases(s, r)
  BY <1>6 DEF ReleaseReplies, Reply, Releases
<1>7. ASSUME r \in UndoReplies(s) PROVE Undoes(s, r)
  BY <1>7 DEF UndoReplies, Reply, Undoes
<1>8. ASSUME r \in WorkReplies(s, k)
      PROVE  WorksInside(s, <<k, req[k].n>>, r) \/ WorksOutside(s, <<k, req[k].n>>, r)
  <2>1. s.is = "open" \/ s.is = "clean"
    BY <1>8 DEF WorkReplies
  <2>2. CASE s.is = "open"
    BY <1>8, <2>2 DEF WorkReplies, Reply, WorksInside
  <2>3. CASE s.is = "clean"
    BY <1>8, <2>3 DEF WorkReplies, Reply, WorksOutside
  <2> QED
    BY <2>1, <2>2, <2>3
<1> QED
  BY <1>1, <1>2, <1>3, <1>4, <1>5, <1>6, <1>7, <1>8

LEMMA CleanFields ==
  /\ Clean \in Sessions /\ Lost \in Sessions
  /\ Clean.is = "clean" /\ Clean.work = {} /\ Clean.marks = <<>>
  /\ Lost.is = "lost" /\ Lost.work = {} /\ Lost.marks = <<>>
<1>1. <<>> \in Seq(SUBSET AllChanges)
  BY EmptySeq
<1> QED
  BY <1>1 DEF Clean, Lost, Sessions

(* A change of a plan or a statement is a change.                           *)
LEMMA ChangeOfRequest ==
  ASSUME TypeOK, RequestsFit, NEW k \in Plans \cup Runs
  PROVE  <<k, req[k].n>> \in Changes(k) /\ Changes(k) \subseteq AllChanges
<1>1. req[k].n \in 1 .. Size /\ (k \notin Plans => req[k].n = 1)
  BY DEF TypeOK, RequestsFit, RequestFits, Requests
<1> QED
  BY <1>1 DEF Changes, AllChanges

(* Savepoints: one more, or one less.                                       *)
LEMMA MarksChange ==
  ASSUME NEW s \in Sessions
  PROVE  /\ s.marks \in Seq(SUBSET AllChanges) /\ s.work \in SUBSET AllChanges
         /\ Len(s.marks) \in Nat
         /\ \A i \in 1 .. Len(s.marks) : s.marks[i] \in SUBSET AllChanges
         /\ Append(s.marks, s.work) \in Seq(SUBSET AllChanges)
         /\ Append(s.marks, s.work) # <<>>
         /\ Len(Append(s.marks, s.work)) = Len(s.marks) + 1
         /\ \A i \in 1 .. Len(s.marks) + 1 :
              Append(s.marks, s.work)[i] = IF i <= Len(s.marks) THEN s.marks[i] ELSE s.work
         /\ s.marks # <<>> =>
              LET kept == SubSeq(s.marks, 1, Len(s.marks) - 1) IN
                /\ Len(s.marks) \in 1 .. Len(s.marks)
                /\ kept \in Seq(SUBSET AllChanges) /\ Len(kept) = Len(s.marks) - 1
                /\ \A i \in 1 .. Len(kept) : i \in 1 .. Len(s.marks) /\ kept[i] = s.marks[i]
<1>1. s.marks \in Seq(SUBSET AllChanges) /\ s.work \in SUBSET AllChanges
  BY DEF Sessions
<1>2. Len(s.marks) \in Nat /\ \A i \in 1 .. Len(s.marks) : s.marks[i] \in SUBSET AllChanges
  BY <1>1, LenProperties, ElementOfSeq
<1>3. /\ Append(s.marks, s.work) \in Seq(SUBSET AllChanges)
      /\ Append(s.marks, s.work) # <<>>
      /\ Len(Append(s.marks, s.work)) = Len(s.marks) + 1
      /\ \A i \in 1 .. Len(s.marks) + 1 :
           Append(s.marks, s.work)[i] = IF i <= Len(s.marks) THEN s.marks[i] ELSE s.work
  BY <1>1, <1>2
<1>4. ASSUME s.marks # <<>>
      PROVE  LET kept == SubSeq(s.marks, 1, Len(s.marks) - 1) IN
                /\ Len(s.marks) \in 1 .. Len(s.marks)
                /\ kept \in Seq(SUBSET AllChanges) /\ Len(kept) = Len(s.marks) - 1
                /\ \A i \in 1 .. Len(kept) : i \in 1 .. Len(s.marks) /\ kept[i] = s.marks[i]
  BY <1>1, <1>2, <1>4
<1> QED
  BY <1>1, <1>2, <1>3, <1>4

(* Only a plan or a statement does work, a plan its change.                 *)
LEMMA WhoWorks ==
  ASSUME RequestsFit, NEW k \in Requests, req[k].phase = "run",
         req[k].at \notin Framing
  PROVE  k \in Plans \cup Runs /\ (k \in Plans => req[k].at = "change")
<1>1. req[k].at \in CommandsOf(k)
  BY DEF RequestsFit, RequestFits
<1> QED
  BY <1>1 DEF CommandsOf, InTransaction, AtEnd, Framing, Requests

(* A reply leaves a session, and makes changes durable.                     *)
LEMMA ReplyTypes ==
  ASSUME TypeOK, RequestsFit, NEW k \in Requests, req[k].phase = "run",
         NEW s \in Sessions, NEW r \in Replies(s, k)
  PROVE  r.to \in Sessions /\ r.kept \in SUBSET AllChanges /\ r.ok \in BOOLEAN
<1>1. CASE Loses(s, r)
  BY <1>1, CleanFields DEF Loses
<1>2. CASE Commits(s, r)
  <2>1. r.to \in Sessions /\ r.kept \in SUBSET AllChanges
    BY <1>2, CleanFields DEF Commits, Sessions
  <2>2. r.ok \in BOOLEAN
    BY <1>2, Zenon DEF Commits
  <2> QED
    BY <2>1, <2>2
<1>3. CASE RollsBack(s, r)
  BY <1>3, CleanFields DEF RollsBack
<1>4. CASE Aborts(s, r)
  BY <1>4 DEF Aborts, Sessions
<1>5. CASE Opens(s, r)
  <2>1. r.to = (IF s.is = "clean" THEN [s EXCEPT !.is = "open"] ELSE s) /\ r.kept = {} /\ r.ok = TRUE
    BY <1>5 DEF Opens
  <2>2. r.to \in Sessions
    BY <2>1 DEF Sessions
  <2> QED
    BY <2>1, <2>2
<1>6. CASE Saves(s, r)
  BY <1>6, MarksChange DEF Saves, Sessions
<1>7. CASE Releases(s, r)
  BY <1>7, MarksChange DEF Releases, Sessions
<1>8. CASE Undoes(s, r)
  <2>1. s.marks[Len(s.marks)] \in SUBSET AllChanges
    BY <1>8, MarksChange DEF Undoes
  <2> QED
    BY <1>8, <2>1 DEF Undoes, Sessions
<1>9. CASE /\ req[k].at \notin Framing
           /\ WorksInside(s, <<k, req[k].n>>, r) \/ WorksOutside(s, <<k, req[k].n>>, r)
  <2>1. {<<k, req[k].n>>} \in SUBSET AllChanges
    BY <1>9, WhoWorks, ChangeOfRequest
  <2>2. CASE WorksInside(s, <<k, req[k].n>>, r)
    <3>1. s.work \cup {<<k, req[k].n>>} \in SUBSET AllChanges
      BY <2>1 DEF Sessions
    <3> QED
      BY <2>2, <3>1 DEF WorksInside, Sessions
  <2>3. CASE WorksOutside(s, <<k, req[k].n>>, r)
    <3>1. r.ok \in BOOLEAN
      BY <2>3, Zenon DEF WorksOutside
    <3> QED
      BY <2>1, <2>3, <3>1, CleanFields DEF WorksOutside
  <2> QED
    BY <1>9, <2>2, <2>3
<1> QED
  BY <1>1, <1>2, <1>3, <1>4, <1>5, <1>6, <1>7, <1>8, <1>9, RepliesAre

(* COMMIT and ROLLBACK leave no transaction.                                *)
LEMMA EndLeavesClean ==
  ASSUME NEW k \in Requests, NEW s, NEW r \in Replies(s, k), req[k].at \in AtEnd
  PROVE  Returned(r.to) = Clean
<1>1. Returned(Clean) = Clean /\ Returned(Lost) = Clean
  BY CleanFields DEF Returned
<1>2. r.to \in {Clean, Lost}
  BY RepliesAre DEF AtEnd, Framing, Loses, Commits, RollsBack
<1> QED
  BY <1>1, <1>2

(* Only a BEGIN that is answered ok leaves a clean session with one.        *)
LEMMA CleanStaysClean ==
  ASSUME NEW k \in Requests, NEW r \in Replies(Clean, k),
         req[k].at = "begin" => r.ok = FALSE
  PROVE  Returned(r.to) = Clean
<1>1. Returned(Clean) = Clean /\ Returned(Lost) = Clean
  BY CleanFields DEF Returned
<1>2. r.to \in {Clean, Lost}
  BY RepliesAre, CleanFields
  DEF Loses, Commits, RollsBack, Aborts, Opens, Saves, Releases, Undoes, WorksInside, WorksOutside
<1> QED
  BY <1>1, <1>2

(* What is within A stays within A, whatever a request replies that does no *)
(* work of C.                                                               *)
LEMMA NothingIsWithin ==
  ASSUME NEW A, NEW C, {} \in A
  PROVE  Within(A, C, Clean) /\ Within(A, C, Lost)
<1>1. Len(Clean.marks) = 0 /\ Len(Lost.marks) = 0
  BY CleanFields, EmptySeq
<1> QED
  BY <1>1, CleanFields DEF Within

LEMMA StaysWithin ==
  ASSUME NEW A, NEW C, {} \in A, NEW s \in Sessions, Within(A, C, s),
         NEW k \in Requests, NEW r \in Replies(s, k),
         req[k].at \in Framing \/ <<k, req[k].n>> \notin C
  PROVE  Within(A, C, r.to) /\ Within(A, C, Returned(r.to)) /\ r.kept \cap C \in A
<1>1. Within(A, C, Clean) /\ Within(A, C, Lost) /\ {} \cap C \in A
  BY NothingIsWithin
<1>2. SUFFICES Within(A, C, r.to) /\ r.kept \cap C \in A
  BY <1>1 DEF Returned
<1>3. CASE Loses(s, r) \/ RollsBack(s, r)
  BY <1>1, <1>3 DEF Loses, RollsBack
<1>4. CASE Commits(s, r)
  <2>1. r.to \in {Clean, Lost} /\ r.kept \in {{}, s.work} /\ (r.kept # {} => s.is = "open")
    BY <1>4 DEF Commits
  <2>2. s.is = "open" => s.work \cap C \in A
    BY DEF Within
  <2> QED
    BY <1>1, <2>1, <2>2
<1>5. CASE Aborts(s, r)
  <2>1. /\ r.to.is = "aborted" \/ (r.to.is = s.is /\ r.to.work = s.work)
        /\ r.to.marks = s.marks /\ r.kept = {}
    BY <1>5 DEF Aborts, Sessions
  <2> QED
    BY <1>1, <2>1 DEF Within
<1>6. CASE Opens(s, r)
  <2>1. /\ r.to.work = s.work /\ r.to.marks = s.marks /\ r.kept = {}
        /\ s.is \in {"clean", "open"}
    BY <1>6 DEF Opens, Sessions
  <2> QED
    BY <1>1, <2>1 DEF Within
<1>7. CASE Saves(s, r)
  <2>1. /\ s.is = "open" /\ r.to.is = s.is /\ r.to.work = s.work
        /\ r.to.marks = Append(s.marks, s.work) /\ r.kept = {}
    BY <1>7 DEF Saves, Sessions
  <2>2. s.work \cap C \in A
    BY <2>1 DEF Within
  <2>3. ASSUME NEW i \in 1 .. Len(s.marks) + 1 PROVE Append(s.marks, s.work)[i] \cap C \in A
    <3>1. CASE i <= Len(s.marks)
      <4>1. i \in 1 .. Len(s.marks) /\ Append(s.marks, s.work)[i] = s.marks[i]
        BY <3>1, MarksChange
      <4> QED
        BY <4>1 DEF Within
    <3>2. CASE ~(i <= Len(s.marks))
      BY <2>2, <3>2, MarksChange
    <3> QED
      BY <3>1, <3>2
  <2>4. Len(r.to.marks) = Len(s.marks) + 1
    BY <2>1, MarksChange
  <2> QED
    BY <1>1, <2>1, <2>2, <2>3, <2>4 DEF Within
<1>8. CASE Releases(s, r)
  <2>1. /\ s.marks # <<>> /\ r.to.is = s.is /\ r.to.work = s.work
        /\ r.to.marks = SubSeq(s.marks, 1, Len(s.marks) - 1) /\ r.kept = {}
    BY <1>8 DEF Releases, Sessions
  <2>2. \A i \in 1 .. Len(r.to.marks) : i \in 1 .. Len(s.marks) /\ r.to.marks[i] = s.marks[i]
    BY <2>1, MarksChange
  <2> QED
    BY <1>1, <2>1, <2>2 DEF Within
<1>9. CASE Undoes(s, r)
  <2>1. /\ s.marks # <<>> /\ r.to.work = s.marks[Len(s.marks)]
        /\ r.to.marks = s.marks /\ r.kept = {}
    BY <1>9 DEF Undoes, Sessions
  <2>2. Len(s.marks) \in 1 .. Len(s.marks)
    BY <2>1, MarksChange
  <2> QED
    BY <1>1, <2>1, <2>2 DEF Within
<1>10. CASE req[k].at \notin Framing /\ WorksInside(s, <<k, req[k].n>>, r)
  <2>1. /\ r.to.is = "open" /\ r.to.marks = s.marks /\ s.is = "open" /\ r.kept = {}
        /\ r.to.work = s.work \cup {<<k, req[k].n>>}
    BY <1>10 DEF WorksInside, Sessions
  <2>2. r.to.work \cap C = s.work \cap C
    BY <1>10, <2>1
  <2> QED
    BY <1>1, <2>1, <2>2 DEF Within
<1>11. CASE req[k].at \notin Framing /\ WorksOutside(s, <<k, req[k].n>>, r)
  <2>1. r.to \in {s, Lost} /\ r.kept \cap C = {}
    BY <1>11 DEF WorksOutside
  <2> QED
    BY <1>1, <2>1
<1> QED
  BY <1>3, <1>4, <1>5, <1>6, <1>7, <1>8, <1>9, <1>10, <1>11, RepliesAre

-----------------------------------------------------------------------------
(* The types are kept *)

LEMMA InitTypes == Init => TypeOK
<1> SUFFICES ASSUME Init PROVE TypeOK
  OBVIOUS
<1>1. NotSent \in RequestState
  <2>1. 1 \in 1 .. Size
    OBVIOUS
  <2> QED
    BY <2>1 DEF NotSent, RequestState, Commands
<1>2. req \in [Requests -> RequestState] /\ session \in [Conns -> Sessions]
  BY <1>1, CleanFields DEF Init
<1>3. /\ held \in Conns \cup {NoConn} /\ holder \in Requests \cup {Nobody} /\ idle \subseteq Conns
      /\ durable \subseteq AllChanges /\ overlapped \subseteq Plans
  BY DEF Init
<1>4. /\ txOpen \in BOOLEAN /\ poolClosed \in BOOLEAN /\ connected \in BOOLEAN /\ beginLost \in BOOLEAN
  BY Zenon DEF Init
<1> QED
  BY <1>2, <1>3, <1>4 DEF TypeOK, RequestState

(* A step that only moves request k keeps the types if k keeps its own.     *)
LEMMA MoveTypes ==
  ASSUME TypeOK, NEW k \in Requests, NEW r \in RequestState, req' = [req EXCEPT ![k] = r]
  PROVE  /\ req' \in [Requests -> RequestState]
         /\ req'[k] = r
         /\ \A j \in Requests \ {k} : req'[j] = req[j]
<1>1. req \in [Requests -> RequestState]
  BY DEF TypeOK, RequestState
<1> QED
  BY <1>1

(* The phase a request enters while it keeps its command.                   *)
LEMMA PhaseFields ==
  ASSUME TypeOK, NEW k \in Requests,
         NEW phase \in {"call", "lock", "pool", "run", "drain"}, NEW c \in Conns \cup {NoConn}
  PROVE  LET r == [req[k] EXCEPT !.phase = phase, !.conn = c] IN
           /\ r \in RequestState /\ r.phase = phase /\ r.conn = c
           /\ r.at = req[k].at /\ r.n = req[k].n /\ r.own = req[k].own /\ r.answer = req[k].answer
<1>1. req[k] \in RequestState
  BY DEF TypeOK, RequestState
<1> QED
  BY <1>1 DEF RequestState

(* The same without a connection, as the actions write it.                  *)
LEMMA PhaseOnly ==
  ASSUME TypeOK, NEW k \in Requests, NEW phase \in {"call", "lock", "pool", "run", "drain"}
  PROVE  [req EXCEPT ![k].phase = phase] = [req EXCEPT ![k] = [req[k] EXCEPT !.phase = phase, !.conn = req[k].conn]]
<1>1. req \in [Requests -> RequestState]
  BY DEF TypeOK, RequestState
<1>2. req[k] \in RequestState
  BY <1>1
<1>3. [req[k] EXCEPT !.phase = phase] = [req[k] EXCEPT !.phase = phase, !.conn = req[k].conn]
  BY <1>2 DEF RequestState
<1> QED
  BY <1>1, <1>3

-----------------------------------------------------------------------------
(* The places of the connections *)

LEMMA NobodyIsNone == Nobody \notin Requests
  BY DEF Requests

Moves(k, r) == req' = [req EXCEPT ![k] = r]

(* What is kept of the rest of the state when the types are to be kept.     *)
RestIsTyped ==
  /\ held' \in Conns \cup {NoConn} /\ holder' \in Requests \cup {Nobody} /\ idle' \subseteq Conns
  /\ txOpen' \in BOOLEAN /\ poolClosed' \in BOOLEAN /\ connected' \in BOOLEAN /\ beginLost' \in BOOLEAN
  /\ session' \in [Conns -> Sessions] /\ durable' \subseteq AllChanges /\ overlapped' \subseteq Plans

LEMMA TypesOfMove ==
  ASSUME TypeOK, NEW k \in Requests, NEW r \in RequestState, Moves(k, r), RestIsTyped
  PROVE  TypeOK'
<1>1. req' \in [Requests -> RequestState]
  BY MoveTypes DEF Moves
<1> QED
  BY <1>1 DEF TypeOK, RestIsTyped, RequestState

LEMMA UsersOfMove ==
  ASSUME TypeOK, NEW k \in Requests, NEW r \in RequestState, Moves(k, r), NEW c
  PROVE  Users(c)' = IF r.conn = c THEN Users(c) \cup {k} ELSE Users(c) \ {k}
<1>1. req'[k] = r /\ \A j \in Requests \ {k} : req'[j] = req[j]
  BY MoveTypes DEF Moves
<1> QED
  BY <1>1 DEF Users

(* A request that fits after the step; the others fit if they keep what     *)
(* they need.                                                               *)
LEMMA FitsOfMove ==
  ASSUME TypeOK, RequestsFit, NEW k \in Requests, NEW r \in RequestState, Moves(k, r),
         RequestFits(k)',
         \A j \in Requests \ {k} :
           /\ req[j].at = "begin" /\ req[j].phase \in {"pool", "run"} => holder' = j /\ held' = NoConn
           /\ req[j].at \in AtEnd /\ req[j].phase = "run" => req[j].conn # held'
  PROVE  RequestsFit'
<1>1. \A j \in Requests \ {k} : req'[j] = req[j]
  BY MoveTypes DEF Moves
<1>2. ASSUME NEW j \in Requests \ {k} PROVE RequestFits(j)'
  BY <1>1, <1>2 DEF RequestsFit, RequestFits
<1> QED
  BY <1>2 DEF RequestsFit

(* The mutex of a request's own is released, or taken by one that waits for *)
(* it; nothing else about the connections changes.                          *)
MutexMoves(k) ==
  \/ holder' = holder
  \/ holder' = Unlocked(k)
  \/ holder = Nobody /\ held = NoConn /\ holder' = k

LEMMA MoveWithoutConnection ==
  ASSUME TypeOK, PoolInv, NEW k \in Requests, NEW r \in RequestState, Moves(k, r),
         req[k].conn = NoConn, r.conn = NoConn, MutexMoves(k),
         UNCHANGED <<held, txOpen, idle, session, durable, beginLost>>,
         poolClosed' \in BOOLEAN, connected' \in BOOLEAN, overlapped' \subseteq Plans,
         r.phase \notin {"idle", "run"},
         r.phase \in {"call", "lock", "pool"} => r.at \in CommandsOf(k),
         k \notin Plans => r.n = 1, r.phase = "call" => r.at \notin AtEnd \cup {"begin"},
         r.phase = "pool" => r.at \notin AtEnd,
         r.at = "begin" /\ r.phase = "pool" => holder' = k /\ held = NoConn
  PROVE  TypeOK' /\ PoolInv'
<1>1. req'[k] = r /\ \A j \in Requests \ {k} : req'[j] = req[j]
  BY MoveTypes DEF Moves
<1>2. holder' \in Requests \cup {Nobody}
  BY DEF TypeOK, MutexMoves, Unlocked
<1>3. TypeOK'
  <2>1. RestIsTyped
    BY <1>2 DEF RestIsTyped, TypeOK
  <2> QED
    BY <2>1, TypesOfMove
<1>4. RequestsFit'
  <2>1. RequestFits(k)'
    BY <1>1 DEF RequestFits
  <2>2. ASSUME NEW j \in Requests \ {k}
        PROVE  /\ req[j].at = "begin" /\ req[j].phase \in {"pool", "run"} => holder' = j /\ held' = NoConn
               /\ req[j].at \in AtEnd /\ req[j].phase = "run" => req[j].conn # held'
    <3>1. RequestFits(j) /\ held' = held
      BY DEF PoolInv, RequestsFit
    <3>2. holder = j => holder' = j
      BY NobodyIsNone DEF MutexMoves, Unlocked
    <3> QED
      BY <3>1, <3>2 DEF RequestFits
  <2> QED
    BY <2>1, <2>2, FitsOfMove DEF PoolInv
<1>5. ASSUME NEW c \in Conns PROVE Users(c)' = Users(c) /\ k \notin Users(c)
  <2>1. k \notin Users(c)
    BY DEF Users
  <2> QED
    BY <2>1, UsersOfMove
<1>6. OnePlace'
  <2>1. ASSUME NEW c \in Conns, c = held' PROVE Users(c)' \subseteq {holder'}
    BY <1>5, <2>1 DEF PoolInv, OnePlace, MutexMoves, Unlocked
  <2> QED
    BY <1>5, <2>1 DEF PoolInv, OnePlace
<1>7. PooledIsClean'
  BY <1>1 DEF PoolInv, PooledIsClean
<1> QED
  BY <1>3, <1>4, <1>6, <1>7 DEF PoolInv, FlagMirrorsTransaction, PoolIsSound

(* Who runs on a connection has it for itself.                              *)
LEMMA OwnConnection ==
  ASSUME TypeOK, PoolInv, NEW k \in Requests, req[k].phase = "run"
  PROVE  /\ req[k].conn \in Conns \ idle /\ Users(req[k].conn) = {k}
         /\ req[k].conn = held => holder = k
         /\ session[req[k].conn] \in Sessions
<1>1. req[k].conn \in Conns /\ k \in Users(req[k].conn)
  BY DEF TypeOK, PoolInv, RequestsFit, RequestFits, Users
<1>2. session[req[k].conn] \in Sessions
  BY <1>1 DEF TypeOK
<1>3. CASE req[k].conn = held
  <2>1. Users(req[k].conn) \subseteq {holder} /\ req[k].conn \notin idle
    BY <1>1, <1>3 DEF PoolInv, OnePlace
  <2> QED
    BY <1>1, <1>2, <2>1
<1>4. CASE req[k].conn # held
  <2>1. req[k].conn \notin idle /\ \E j \in Requests : Users(req[k].conn) = {j}
    BY <1>1, <1>4 DEF PoolInv, OnePlace
  <2> QED
    BY <1>1, <1>2, <1>4, <2>1
<1> QED
  BY <1>3, <1>4

(* Request k starts to run on connection c: the pinned one, with the mutex, *)
(* the one it unpins to end the transaction, or one of the pool.            *)
LEMMA MoveOntoConnection ==
  ASSUME TypeOK, PoolInv, NEW k \in Requests, NEW r \in RequestState, Moves(k, r),
         req[k].phase \in {"lock", "pool"}, NEW c \in Conns,
         r.phase = "run", r.conn = c, r.at = req[k].at, r.n = req[k].n,
         UNCHANGED <<poolClosed, connected, session, durable, overlapped, beginLost>>,
         \/ /\ c = held /\ holder = Nobody /\ holder' = k
            /\ r.at \notin AtEnd \cup {"begin"} /\ UNCHANGED <<held, txOpen, idle>>
         \/ /\ c = held /\ holder = Nobody /\ holder' = k
            /\ r.at \in AtEnd /\ held' = NoConn /\ txOpen' = FALSE /\ idle' = idle
         \/ /\ c \in idle /\ idle' = idle \ {c} /\ UNCHANGED <<held, txOpen, holder>>
            /\ req[k].phase = "pool" /\ r.at \notin AtEnd
  PROVE  TypeOK' /\ PoolInv'
<1>1. req'[k] = r /\ \A j \in Requests \ {k} : req'[j] = req[j]
  BY MoveTypes DEF Moves
<1>2. RequestFits(k) /\ NoConn \notin Conns /\ req[k].conn = NoConn
  BY DEF PoolInv, RequestsFit, RequestFits
<1>3. TypeOK'
  <2>1. RestIsTyped
    BY DEF RestIsTyped, TypeOK
  <2> QED
    BY <2>1, TypesOfMove
<1>4. Users(c) = {} /\ c \notin idle'
  <2>1. CASE c = held /\ holder = Nobody /\ idle' = idle
    <3>1. Users(c) \subseteq {Nobody} /\ Users(c) \subseteq Requests /\ c \notin idle
      BY <2>1 DEF PoolInv, OnePlace, Users
    <3> QED
      BY <2>1, <3>1, NobodyIsNone
  <2>2. CASE c \in idle /\ idle' = idle \ {c}
    BY <2>2 DEF PoolInv, OnePlace
  <2> QED
    BY <2>1, <2>2
<1>5. Users(c)' = {k} /\ \A d \in Conns \ {c} : Users(d)' = Users(d)
  <2>1. ASSUME NEW d \in Conns \ {c} PROVE Users(d)' = Users(d)
    <3>1. k \notin Users(d)
      BY <1>2 DEF Users
    <3> QED
      BY <3>1, UsersOfMove
  <2>2. Users(c)' = {k}
    BY <1>4, UsersOfMove
  <2> QED
    BY <2>1, <2>2
<1>6. RequestsFit'
  <2>1. RequestFits(k)'
    <3>1. r.at = "begin" => holder' = k /\ held' = NoConn
      BY <1>2 DEF RequestFits, AtEnd
    <3>2. r.at \in AtEnd => r.conn # held'
      BY <1>2
    <3> QED
      BY <1>1, <1>2, <3>1, <3>2 DEF RequestFits
  <2>2. ASSUME NEW j \in Requests \ {k}
        PROVE  /\ req[j].at = "begin" /\ req[j].phase \in {"pool", "run"} => holder' = j /\ held' = NoConn
               /\ req[j].at \in AtEnd /\ req[j].phase = "run" => req[j].conn # held'
    <3>1. RequestFits(j) /\ (held' = held \/ held' = NoConn)
      BY DEF PoolInv, RequestsFit
    <3>2. holder = j => holder' = j
      BY NobodyIsNone
    <3> QED
      BY <3>1, <3>2 DEF RequestFits
  <2> QED
    BY <2>1, <2>2, FitsOfMove DEF PoolInv
<1>7. OnePlace'
  <2>1. ASSUME NEW d \in Conns \ {c}
        PROVE  /\ d \in idle' => d # held' /\ Users(d)' = {}
               /\ d \notin idle' /\ d # held' => \E j \in Requests : Users(d)' = {j}
               /\ d = held' => Users(d)' \subseteq {holder'}
    <3>1. /\ d \in idle' <=> d \in idle
          /\ d = held' <=> d = held
          /\ d = held => holder' = holder
      BY <1>2
    <3> QED
      BY <1>5, <3>1 DEF PoolInv, OnePlace
  <2>2. c = held' => holder' = k
    <3>1. c \in idle => c # held
      BY DEF PoolInv, OnePlace
    <3> QED
      BY <1>2, <3>1
  <2> QED
    BY <1>4, <1>5, <2>1, <2>2 DEF OnePlace
<1>8. PooledIsClean'
  <2>1. SUFFICES ASSUME ~beginLost, NEW j \in Requests, req'[j].phase = "run",
                        req'[j].conn # held', req'[j].at \notin AtEnd
                 PROVE  session'[req'[j].conn] = Clean
    BY DEF PooledIsClean
  <2>2. CASE j = k
    <3>1. c \in idle
      BY <1>1, <2>1, <2>2
    <3> QED
      BY <1>1, <2>1, <2>2, <3>1 DEF PoolInv, PoolIsSound
  <2>3. CASE j # k
    <3>1. req'[j] = req[j] /\ req[j].phase = "run"
      BY <1>1, <2>1, <2>3
    <3>2. req[j].conn # held
      <4>1. req[j].conn # c
        BY <1>4, <3>1, OwnConnection
      <4> QED
        BY <2>1, <3>1, <4>1
    <3> QED
      BY <2>1, <3>1, <3>2 DEF PoolInv, PooledIsClean
  <2> QED
    BY <2>2, <2>3
<1>9. FlagMirrorsTransaction' /\ (beginLost' \/ \A d \in idle' : session'[d] = Clean)
  BY <1>2 DEF PoolInv, FlagMirrorsTransaction, PoolIsSound
<1> QED
  BY <1>3, <1>6, <1>7, <1>8, <1>9 DEF PoolInv, PoolIsSound

(* The server has replied to request k, which then has no connection: the   *)
(* connection is pinned, because it was, or because it begun a transaction, *)
(* or it goes to the pool.                                                  *)
LEMMA MoveOffConnection ==
  ASSUME TypeOK, PoolInv, NEW k \in Requests, NEW r \in RequestState, Moves(k, r),
         req[k].phase = "run", NEW reply \in Replies(session[req[k].conn], k),
         NEW pinned \in BOOLEAN, Settle(k, reply, pinned),
         r.conn = NoConn, r.phase \in {"call", "lock", "pins", "done"},
         r.phase \in {"call", "lock"} => r.at \in CommandsOf(k),
         k \notin Plans => r.n = 1, r.phase = "call" => r.at \notin AtEnd \cup {"begin"},
         txOpen' \in BOOLEAN, beginLost' \in BOOLEAN, beginLost => beginLost',
         req[k].conn = held => pinned,
         pinned /\ req[k].conn # held => req[k].at = "begin",
         txOpen' = (txOpen \/ (pinned /\ req[k].conn # held)),
         req[k].at = "begin" /\ ~pinned /\ reply.ok => beginLost'
  PROVE  TypeOK' /\ PoolInv'
<1>0. PICK c \in Conns : c = req[k].conn
  BY OwnConnection
<1>1. req'[k] = r /\ \A j \in Requests \ {k} : req'[j] = req[j]
  BY MoveTypes DEF Moves
<1>2. /\ c \in Conns \ idle /\ Users(c) = {k} /\ NoConn \notin Conns
      /\ c = held => holder = k
      /\ session[c] \in Sessions /\ RequestFits(k)
  BY <1>0, OwnConnection DEF PoolInv, RequestsFit
<1>3. /\ held' = IF pinned THEN c ELSE held
      /\ idle' = IF pinned THEN idle ELSE idle \cup {c}
      /\ session' = [session EXCEPT ![c] = IF pinned THEN reply.to ELSE Returned(reply.to)]
      /\ durable' = durable \cup reply.kept
      /\ holder' = Unlocked(k)
      /\ UNCHANGED <<poolClosed, connected, overlapped>>
  BY <1>0 DEF Settle
<1>4. reply.to \in Sessions /\ reply.kept \in SUBSET AllChanges /\ Returned(reply.to) \in Sessions
  <2>1. reply.to \in Sessions /\ reply.kept \in SUBSET AllChanges
    BY <1>0, <1>2, ReplyTypes DEF PoolInv
  <2> QED
    BY <2>1, CleanFields DEF Returned
<1>5. k = holder => holder' = Nobody
  BY <1>3 DEF Unlocked
<1>6. k # holder => holder' = holder
  BY <1>3 DEF Unlocked
<1>7. pinned /\ c # held => held = NoConn /\ holder = k
  BY <1>0, <1>2 DEF RequestFits
<1>8. /\ session'[c] = IF pinned THEN reply.to ELSE Returned(reply.to)
      /\ \A d \in Conns \ {c} : session'[d] = session[d]
      /\ session' \in [Conns -> Sessions]
  BY <1>2, <1>3, <1>4 DEF TypeOK
<1>9. TypeOK'
  <2>1. RestIsTyped
    BY <1>2, <1>3, <1>4, <1>5, <1>6, <1>8 DEF RestIsTyped, TypeOK
  <2> QED
    BY <2>1, TypesOfMove
<1>10. Users(c)' = {} /\ \A d \in Conns \ {c} : Users(d)' = Users(d)
  <2>1. ASSUME NEW d \in Conns \ {c} PROVE Users(d)' = Users(d)
    <3>1. k \notin Users(d)
      BY <1>0 DEF Users
    <3> QED
      BY <3>1, UsersOfMove
  <2>2. Users(c)' = {}
    <3>1. r.conn # c
      BY <1>2
    <3>2. Users(c)' = Users(c) \ {k}
      BY <3>1, UsersOfMove
    <3> QED
      BY <1>2, <3>2
  <2> QED
    BY <2>1, <2>2
<1>11. RequestsFit'
  <2>1. RequestFits(k)'
    BY <1>1 DEF RequestFits
  <2>2. ASSUME NEW j \in Requests \ {k}
        PROVE  /\ req[j].at = "begin" /\ req[j].phase \in {"pool", "run"} => holder' = j /\ held' = NoConn
               /\ req[j].at \in AtEnd /\ req[j].phase = "run" => req[j].conn # held'
    <3>1. RequestFits(j)
      BY DEF PoolInv, RequestsFit
    <3>2. ASSUME req[j].at = "begin", req[j].phase \in {"pool", "run"} PROVE holder' = j /\ held' = NoConn
      <4>1. holder = j /\ held = NoConn /\ k # holder
        BY <3>1, <3>2 DEF RequestFits
      <4>2. ~pinned
        BY <1>2, <1>7, <4>1
      <4> QED
        BY <1>3, <1>6, <4>1, <4>2
    <3>3. ASSUME req[j].at \in AtEnd, req[j].phase = "run" PROVE req[j].conn # held'
      <4>1. req[j].conn # held /\ req[j].conn # c
        BY <1>2, <3>1, <3>3, OwnConnection DEF RequestFits
      <4> QED
        BY <1>3, <4>1
    <3> QED
      BY <3>2, <3>3
  <2> QED
    BY <2>1, <2>2, FitsOfMove DEF PoolInv
<1>12. OnePlace'
  <2>1. ASSUME NEW d \in Conns \ {c}
        PROVE  /\ d \in idle' => d # held' /\ Users(d)' = {}
               /\ d \notin idle' /\ d # held' => \E j \in Requests : Users(d)' = {j}
               /\ d = held' => Users(d)' \subseteq {holder'}
    <3>1. /\ d \in idle' <=> d \in idle
          /\ d = held' => d = held
          /\ d = held => d = held'
      BY <1>2, <1>3, <1>7
    <3>2. d = held => Users(d) = {} \/ holder' = holder
      <4>1. k \notin Users(d)
        BY <1>0 DEF Users
      <4>2. d = held => Users(d) \subseteq {holder}
        BY DEF PoolInv, OnePlace
      <4> QED
        BY <1>6, <4>1, <4>2
    <3> QED
      BY <1>10, <3>1, <3>2 DEF PoolInv, OnePlace
  <2>2. c \in idle' => c # held'
    BY <1>0, <1>2, <1>3
  <2>3. c \in idle' \/ c = held'
    BY <1>3
  <2>4. /\ c \in idle' => c # held' /\ Users(c)' = {}
        /\ c \notin idle' /\ c # held' => \E j \in Requests : Users(c)' = {j}
        /\ c = held' => Users(c)' \subseteq {holder'}
    BY <1>10, <2>2, <2>3
  <2>5. ASSUME NEW d \in Conns
        PROVE  /\ d \in idle' => d # held' /\ Users(d)' = {}
               /\ d \notin idle' /\ d # held' => \E j \in Requests : Users(d)' = {j}
               /\ d = held' => Users(d)' \subseteq {holder'}
    BY <2>1, <2>4
  <2> QED
    BY <2>5 DEF OnePlace
<1>13. FlagMirrorsTransaction'
  BY <1>0, <1>2, <1>3, <1>7 DEF PoolInv, FlagMirrorsTransaction
<1>14. ~beginLost' /\ ~pinned => Returned(reply.to) = Clean
  <2> SUFFICES ASSUME ~beginLost', ~pinned PROVE Returned(reply.to) = Clean
    OBVIOUS
  <2>1. CASE req[k].at \in AtEnd
    BY <2>1, EndLeavesClean
  <2>2. CASE req[k].at \notin AtEnd
    <3>1. session[c] = Clean
      BY <1>0, <1>2, <2>2 DEF PoolInv, PooledIsClean
    <3>2. reply \in Replies(Clean, k)
      BY <1>0, <3>1
    <3>3. reply.ok \in BOOLEAN
      BY <1>0, <1>2, ReplyTypes DEF PoolInv
    <3>4. req[k].at = "begin" => reply.ok = FALSE
      BY <3>3
    <3> QED
      BY <3>2, <3>4, CleanStaysClean
  <2> QED
    BY <2>1, <2>2
<1>15. PooledIsClean'
  <2>1. SUFFICES ASSUME ~beginLost', NEW j \in Requests, req'[j].phase = "run",
                        req'[j].conn # held', req'[j].at \notin AtEnd
                 PROVE  session'[req'[j].conn] = Clean
    BY DEF PooledIsClean
  <2>2. j # k /\ req'[j] = req[j]
    BY <1>1, <2>1
  <2>3. req[j].conn \in Conns \ {c} /\ req[j].conn # held
    <3>1. req[j].conn \in Conns /\ Users(req[j].conn) = {j}
      BY <2>1, <2>2, OwnConnection
    <3>2. req[j].conn # c
      BY <1>2, <2>2, <3>1
    <3>3. req[j].conn = held => held' = held
      BY <1>2, <1>3, <1>7, <3>1, <3>2
    <3> QED
      BY <2>1, <2>2, <3>1, <3>2, <3>3
  <2> QED
    BY <1>8, <2>1, <2>2, <2>3 DEF PoolInv, PooledIsClean
<1>16. beginLost' \/ \A d \in idle' : session'[d] = Clean
  <2> SUFFICES ASSUME ~beginLost', NEW d \in idle' PROVE session'[d] = Clean
    OBVIOUS
  <2>1. CASE d = c
    <3>1. ~pinned
      BY <1>2, <1>3, <2>1
    <3> QED
      BY <1>8, <1>14, <2>1, <3>1
  <2>2. CASE d # c
    <3>1. d \in idle /\ d \in Conns
      BY <1>3, <2>2 DEF TypeOK
    <3> QED
      BY <1>8, <2>2, <3>1 DEF PoolInv, PoolIsSound
  <2> QED
    BY <2>1, <2>2
<1> QED
  BY <1>9, <1>11, <1>12, <1>13, <1>15, <1>16 DEF PoolInv, PoolIsSound

-----------------------------------------------------------------------------
(* Every step moves one request                                             *)

Kept == TypeOK' /\ PoolInv'

LEMMA NotSentFields ==
  /\ NotSent.conn = NoConn /\ NotSent.n = 1 /\ NotSent.own = FALSE
  /\ NotSent.answer = "" /\ NotSent.phase = "idle" /\ NotSent.at = ""
  BY DEF NotSent

(* A request that is sent.                                                  *)
LEMMA SendKeeps ==
  ASSUME TypeOK, PoolInv, NEW k \in Requests, NEW r \in RequestState, Send(k, r),
         connected' \in BOOLEAN, r.conn = NoConn,
         r.phase \in {"call", "lock", "pins"}, r.n = 1,
         r.phase \in {"call", "lock"} => r.at \in CommandsOf(k), r.phase = "call" => r.at \notin AtEnd \cup {"begin"}
  PROVE  Kept
<1>1. req[k].conn = NoConn
  BY NotSentFields DEF PoolInv, RequestsFit, RequestFits, Send
<1>2. overlapped' \subseteq Plans /\ poolClosed' \in BOOLEAN
  BY DEF Send, TypeOK
<1>3. Moves(k, r) /\ MutexMoves(k) /\ UNCHANGED <<held, txOpen, idle, session, durable, beginLost>>
  BY DEF Send, Moves, MutexMoves
<1>4. r.phase \in {"call", "lock", "pool"} => r.at \in CommandsOf(k)
  OBVIOUS
<1> QED
  BY <1>1, <1>2, <1>3, <1>4, MoveWithoutConnection DEF Kept

LEMMA StartPlanMoves ==
  ASSUME TypeOK, PoolInv, NEW p \in Plans, StartPlan(p)
  PROVE  \E r \in RequestState :
           /\ Send(p, r) /\ connected' = connected
           /\ r.conn = NoConn /\ r.n = 1 /\ r.own = ~txOpen /\ r.phase \in {"call", "lock"}
           /\ r.at \in {"savepoint", "begin"}
           /\ txOpen => r.at = "savepoint" /\ r.phase = "call"
           /\ ~txOpen => r.at = "begin" /\ r.phase = "lock"
<1> DEFINE at == IF txOpen THEN "savepoint" ELSE "begin"
           next == Goto(p, at)
           r == [next EXCEPT !.own = ~txOpen]
<1>1. p \in Requests /\ req[p].n = 1
  BY NotSentFields DEF PoolInv, RequestsFit, RequestFits, StartPlan, Send, Requests
<1>2. at \in Commands /\ txOpen \in BOOLEAN
  BY DEF Commands, TypeOK
<1>3. /\ next \in RequestState /\ next.at = at /\ next.conn = NoConn /\ next.n = 1
      /\ next.phase = IF at \in {"begin", "commit", "rollback"} THEN "lock" ELSE "call"
  BY <1>1, <1>2, GotoFields
<1>4. Send(p, r) /\ connected' = connected
  BY DEF StartPlan
<1> HIDE DEF next
<1>5. /\ r \in RequestState /\ r.conn = NoConn /\ r.n = 1 /\ r.own = ~txOpen
      /\ r.at = next.at /\ r.phase = next.phase
  BY <1>2, <1>3 DEF RequestState
<1> HIDE DEF r
<1> QED
  BY <1>3, <1>4, <1>5

LEMMA SendsKeep ==
  ASSUME TypeOK, PoolInv,
         \/ \E p \in Plans : StartPlan(p)
         \/ \E r \in Runs : StartRun(r)
         \/ \E b \in Buttons, step \in {"begin", "commit", "rollback"} : PressButton(b, step)
         \/ \E d \in Disconnects : Disconnect(d)
  PROVE  Kept
<1>1. ASSUME NEW p \in Plans, StartPlan(p) PROVE Kept
  <2>1. PICK r \in RequestState :
           /\ Send(p, r) /\ connected' = connected
           /\ r.conn = NoConn /\ r.n = 1 /\ r.own = ~txOpen /\ r.phase \in {"call", "lock"}
           /\ r.at \in {"savepoint", "begin"} /\ (r.phase = "call" => r.at = "savepoint")
    BY <1>1, StartPlanMoves
  <2>2. p \in Requests /\ {"savepoint", "begin"} \subseteq CommandsOf(p) /\ connected' \in BOOLEAN
    BY <2>1 DEF Requests, CommandsOf, InTransaction, TypeOK
  <2>3. r.phase = "call" => r.at \notin AtEnd \cup {"begin"}
    BY <2>1 DEF AtEnd
  <2> QED
    BY <2>1, <2>2, <2>3, SendKeeps
<1>2. ASSUME NEW k \in Runs \cup Buttons, NEW at \in CommandsOf(k), Send(k, Goto(k, at)), connected' = connected
      PROVE  Kept
  <2>1. k \in Requests /\ at \in Commands /\ req[k].n = 1 /\ connected' \in BOOLEAN
    BY <1>2, CommandsOfAreCommands, NotSentFields
    DEF Requests, PoolInv, RequestsFit, RequestFits, Send, TypeOK
  <2>2. /\ Goto(k, at) \in RequestState /\ Goto(k, at).conn = NoConn /\ Goto(k, at).n = 1
        /\ Goto(k, at).at = at /\ Goto(k, at).phase \in {"call", "lock"}
        /\ Goto(k, at).phase = "call" => at \notin AtEnd \cup {"begin"}
    BY <2>1, GotoFields DEF AtEnd
  <2> QED
    BY <1>2, <2>1, <2>2, SendKeeps
<1>3. ASSUME NEW k \in Runs, StartRun(k) PROVE Kept
  <2>1. "statement" \in CommandsOf(k)
    BY DEF CommandsOf
  <2> QED
    BY <1>2, <1>3, <2>1 DEF StartRun
<1>4. ASSUME NEW b \in Buttons, NEW step \in {"begin", "commit", "rollback"}, PressButton(b, step) PROVE Kept
  <2>1. step \in CommandsOf(b)
    BY DEF CommandsOf, AtEnd
  <2> QED
    BY <1>2, <1>4, <2>1 DEF PressButton
<1>5. ASSUME NEW d \in Disconnects, Disconnect(d) PROVE Kept
  <2>1. d \in Requests /\ "rollback" \in CommandsOf(d) /\ "rollback" \in Commands /\ req[d].n = 1
    BY <1>5, NotSentFields
    DEF Requests, CommandsOf, Commands, PoolInv, RequestsFit, RequestFits, Disconnect, Send
  <2>2. connected' \in BOOLEAN /\ d \notin Plans
    BY <1>5 DEF Disconnect
  <2>3. CASE txOpen
    <3>1. /\ Goto(d, "rollback") \in RequestState /\ Goto(d, "rollback").conn = NoConn
          /\ Goto(d, "rollback").n = 1 /\ Goto(d, "rollback").at = "rollback"
          /\ Goto(d, "rollback").phase = "lock"
      BY <2>1, GotoFields
    <3>2. Send(d, Goto(d, "rollback"))
      BY <1>5, <2>3 DEF Disconnect
    <3> QED
      BY <2>1, <2>2, <3>1, <3>2, SendKeeps
  <2>4. CASE ~txOpen
    <3>1. Proceed(d, TRUE) = [req[d] EXCEPT !.at = "close", !.phase = "pins", !.conn = NoConn]
      BY DEF Proceed
    <3>2. /\ Proceed(d, TRUE) \in RequestState /\ Proceed(d, TRUE).conn = NoConn
          /\ Proceed(d, TRUE).n = 1
      BY <2>1, <2>2, ProceedFields DEF PoolInv
    <3>3. Proceed(d, TRUE).phase = "pins"
      <4>1. req[d] \in RequestState
        BY <2>1 DEF TypeOK, RequestState
      <4> QED
        BY <3>1, <4>1 DEF RequestState
    <3>4. Send(d, Proceed(d, TRUE))
      BY <1>5, <2>4 DEF Disconnect
    <3> QED
      BY <2>1, <2>2, <3>2, <3>3, <3>4, SendKeeps
  <2> QED
    BY <2>3, <2>4
<1> QED
  BY <1>1, <1>3, <1>4, <1>5

(* The steps of a request that has no connection and gets none.             *)
LEMMA WaitingKeeps ==
  ASSUME TypeOK, PoolInv, NEW k \in Requests,
         Call(k) \/ AcquireFails(k) \/ DropWaiting(k) \/ ClosePool(k) \/ Closed(k)
  PROVE  Kept
<1>1. RequestFits(k) /\ req[k].conn \in Conns \cup {NoConn}
  BY DEF PoolInv, RequestsFit, TypeOK
<1>2. ASSUME NEW phase \in {"lock", "pool", "drain"}, req' = [req EXCEPT ![k].phase = phase],
             req[k].phase \in {"call", "pins"}, req[k].phase = "pins" => phase = "drain",
             req[k].phase = "call" => phase # "drain" /\ req[k].at # "begin",
             UNCHANGED <<held, holder, txOpen, idle, connected, session, durable, overlapped, beginLost>>,
             poolClosed' \in BOOLEAN
      PROVE  Kept
  <2> DEFINE r == [req[k] EXCEPT !.phase = phase, !.conn = req[k].conn]
  <2>1. Moves(k, r)
    BY <1>2, PhaseOnly DEF Moves
  <2>2. /\ r \in RequestState /\ r.phase = phase /\ r.conn = req[k].conn
        /\ r.at = req[k].at /\ r.n = req[k].n
    <3>1. req[k] \in RequestState
      BY DEF TypeOK, RequestState
    <3> QED
      BY <3>1 DEF RequestState
  <2> HIDE DEF r
  <2>3. connected' \in BOOLEAN /\ overlapped' \subseteq Plans /\ MutexMoves(k)
    BY <1>2 DEF TypeOK, MutexMoves
  <2>4. req[k].conn = NoConn
    BY <1>1, <1>2 DEF RequestFits
  <2>5. r.phase \in {"call", "lock", "pool"} => r.at \in CommandsOf(k)
    BY <1>1, <1>2, <2>2 DEF RequestFits
  <2>6. r.phase = "pool" => r.at \notin AtEnd \cup {"begin"}
    BY <1>1, <1>2, <2>2 DEF RequestFits
  <2>7. k \notin Plans => r.n = 1
    BY <1>1, <2>2 DEF RequestFits
  <2> QED
    BY <1>2, <2>1, <2>2, <2>3, <2>4, <2>5, <2>6, <2>7, MoveWithoutConnection DEF Kept
<1>3. ASSUME NEW r \in RequestState, Moves(k, r), r.conn = NoConn,
             req[k].phase \in {"call", "lock", "pool", "drain"},
             r.phase \in {"call", "lock", "pins", "done"},
             r.phase \in {"call", "lock"} => r.at \in CommandsOf(k), k \notin Plans => r.n = 1,
             r.phase = "call" => r.at \notin AtEnd \cup {"begin"},
             holder' \in {holder, Unlocked(k)},
             UNCHANGED <<held, txOpen, idle, poolClosed, connected, session, durable, overlapped, beginLost>>
      PROVE  Kept
  <2>1. req[k].conn = NoConn
    BY <1>1, <1>3 DEF RequestFits
  <2>2. MutexMoves(k) /\ poolClosed' \in BOOLEAN /\ connected' \in BOOLEAN /\ overlapped' \subseteq Plans
    BY <1>3 DEF TypeOK, MutexMoves
  <2> QED
    BY <1>3, <2>1, <2>2, MoveWithoutConnection DEF Kept
<1>4. CASE Call(k)
  <2>1. /\ req[k].phase = "call" /\ req[k].at # "begin"
        /\ req' = [req EXCEPT ![k].phase = IF txOpen THEN "lock" ELSE "pool"]
    BY <1>1, <1>4 DEF Call, RequestFits
  <2>2. PICK phase \in {"lock", "pool"} : req' = [req EXCEPT ![k].phase = phase]
    BY <2>1
  <2>3. /\ UNCHANGED <<held, holder, txOpen, idle, connected, session, durable, overlapped, beginLost>>
        /\ poolClosed' \in BOOLEAN
    BY <1>4 DEF Call, TypeOK
  <2> QED
    BY <1>2, <2>1, <2>2, <2>3
<1>5. CASE AcquireFails(k)
  <2>1. /\ Proceed(k, FALSE) \in RequestState /\ Proceed(k, FALSE).conn = NoConn
        /\ Proceed(k, FALSE).phase \in {"call", "lock", "pins", "done"}
        /\ Proceed(k, FALSE).phase \in {"call", "lock"} => Proceed(k, FALSE).at \in CommandsOf(k)
        /\ k \notin Plans => Proceed(k, FALSE).n = 1
        /\ Proceed(k, FALSE).phase = "call" => Proceed(k, FALSE).at \notin AtEnd \cup {"begin"}
    BY ProceedFields DEF PoolInv
  <2> QED
    BY <1>3, <1>5, <2>1 DEF AcquireFails, Moves
<1>6. CASE DropWaiting(k) \/ Closed(k)
  <2>1. PICK answer \in {"ok", "dropped"} : req' = [req EXCEPT ![k] = Answer(k, answer)]
    BY <1>6 DEF DropWaiting, Closed
  <2>2. /\ Answer(k, answer) \in RequestState /\ Answer(k, answer).conn = NoConn
        /\ Answer(k, answer).phase = "done" /\ Answer(k, answer).n = 1
    BY AnswerFields
  <2>3. /\ req[k].phase \in {"call", "lock", "pool", "drain"} /\ holder' \in {holder, Unlocked(k)}
        /\ UNCHANGED <<held, txOpen, idle, poolClosed, connected, session, durable, overlapped, beginLost>>
    BY <1>6 DEF DropWaiting, Closed
  <2> QED
    BY <1>3, <2>1, <2>2, <2>3 DEF Moves
<1>7. CASE ClosePool(k)
  <2>1. /\ req[k].phase = "pins" /\ req' = [req EXCEPT ![k].phase = "drain"]
        /\ UNCHANGED <<held, holder, txOpen, idle, connected, session, durable, overlapped, beginLost>>
        /\ poolClosed' \in BOOLEAN
    BY <1>7 DEF ClosePool
  <2> QED
    BY <1>2, <2>1
<1> QED
  BY <1>4, <1>5, <1>6, <1>7

(* A request that gets the mutex or a connection.                           *)
LEMMA RunsOn ==
  ASSUME TypeOK, NEW k \in Requests, NEW c \in Conns,
         req' = [req EXCEPT ![k] = [@ EXCEPT !.phase = "run", !.conn = c]]
  PROVE  \E r \in RequestState :
           /\ Moves(k, r) /\ r.phase = "run" /\ r.conn = c /\ r.at = req[k].at
           /\ r.n = req[k].n /\ r.own = req[k].own
<1> DEFINE r == [req[k] EXCEPT !.phase = "run", !.conn = c]
<1>1. req[k] \in RequestState
  BY DEF TypeOK, RequestState
<1>2. /\ r \in RequestState /\ r.phase = "run" /\ r.conn = c /\ r.at = req[k].at
      /\ r.n = req[k].n /\ r.own = req[k].own
  BY <1>1 DEF RequestState
<1>3. Moves(k, r)
  BY DEF Moves
<1> HIDE DEF r
<1> QED
  BY <1>2, <1>3

LEMMA GoesTo ==
  ASSUME TypeOK, NEW k \in Requests, NEW phase \in {"lock", "pool", "drain"},
         req' = [req EXCEPT ![k].phase = phase]
  PROVE  \E r \in RequestState :
           /\ Moves(k, r) /\ r.phase = phase /\ r.conn = req[k].conn /\ r.at = req[k].at
           /\ r.n = req[k].n /\ r.own = req[k].own
<1> DEFINE r == [req[k] EXCEPT !.phase = phase, !.conn = req[k].conn]
<1>1. req[k] \in RequestState
  BY DEF TypeOK, RequestState
<1>2. /\ r \in RequestState /\ r.phase = phase /\ r.conn = req[k].conn /\ r.at = req[k].at
      /\ r.n = req[k].n /\ r.own = req[k].own
  BY <1>1 DEF RequestState
<1>3. Moves(k, r)
  BY PhaseOnly DEF Moves
<1> HIDE DEF r
<1> QED
  BY <1>2, <1>3

LEMMA EnteringKeeps ==
  ASSUME TypeOK, PoolInv, NEW k \in Requests,
         EnterTransaction(k) \/ EnterBegin(k) \/ TakeTransaction(k) \/ Acquire(k)
  PROVE  Kept
<1>1. /\ RequestFits(k) /\ req[k].phase \in {"lock", "pool"} /\ req[k].conn = NoConn
      /\ req[k].at \in CommandsOf(k)
      /\ UNCHANGED <<poolClosed, connected, session, durable, overlapped, beginLost>>
      /\ poolClosed \in BOOLEAN /\ connected \in BOOLEAN /\ overlapped \subseteq Plans
  BY DEF PoolInv, RequestsFit, RequestFits, EnterTransaction, EnterBegin, TakeTransaction, Acquire, TypeOK
<1>2. ASSUME NEW c \in Conns, req' = [req EXCEPT ![k] = [@ EXCEPT !.phase = "run", !.conn = c]],
             \/ /\ c = held /\ holder = Nobody /\ holder' = k
                /\ req[k].at \notin AtEnd \cup {"begin"} /\ UNCHANGED <<held, txOpen, idle>>
             \/ /\ c = held /\ holder = Nobody /\ holder' = k
                /\ req[k].at \in AtEnd /\ held' = NoConn /\ txOpen' = FALSE /\ idle' = idle
             \/ /\ c \in idle /\ idle' = idle \ {c} /\ UNCHANGED <<held, txOpen, holder>>
                /\ req[k].phase = "pool" /\ req[k].at \notin AtEnd
      PROVE  Kept
  <2>1. PICK r \in RequestState :
          /\ Moves(k, r) /\ r.phase = "run" /\ r.conn = c /\ r.at = req[k].at
          /\ r.n = req[k].n /\ r.own = req[k].own
    BY <1>2, RunsOn
  <2> QED
    BY <1>1, <1>2, <2>1, MoveOntoConnection DEF Kept
<1>3. ASSUME req' = [req EXCEPT ![k].phase = "pool"], req[k].phase = "lock",
             \/ req[k].at \notin AtEnd \cup {"begin"} /\ holder' = holder
             \/ req[k].at = "begin" /\ holder = Nobody /\ held = NoConn /\ holder' = k,
             UNCHANGED <<held, txOpen, idle>>
      PROVE  Kept
  <2>1. PICK r \in RequestState :
          /\ Moves(k, r) /\ r.phase = "pool" /\ r.conn = req[k].conn /\ r.at = req[k].at
          /\ r.n = req[k].n /\ r.own = req[k].own
    BY <1>3, GoesTo
  <2>2. MutexMoves(k)
    BY <1>3 DEF MutexMoves
  <2>3. r.at \notin AtEnd /\ (r.at = "begin" => holder' = k /\ held = NoConn)
    BY <1>3, <2>1 DEF AtEnd
  <2>4. k \notin Plans => r.n = 1
    BY <1>1, <2>1 DEF RequestFits
  <2> QED
    BY <1>1, <1>3, <2>1, <2>2, <2>3, <2>4, MoveWithoutConnection DEF Kept
<1>4. ASSUME req' = [req EXCEPT ![k] = Proceed(k, FALSE)], UNCHANGED <<held, holder, txOpen, idle>>
      PROVE  Kept
  <2>1. /\ Proceed(k, FALSE) \in RequestState /\ Proceed(k, FALSE).conn = NoConn
        /\ Proceed(k, FALSE).phase \in {"call", "lock", "pins", "done"}
        /\ Proceed(k, FALSE).phase \in {"call", "lock"} => Proceed(k, FALSE).at \in CommandsOf(k)
        /\ k \notin Plans => Proceed(k, FALSE).n = 1
        /\ Proceed(k, FALSE).phase = "call" => Proceed(k, FALSE).at \notin AtEnd \cup {"begin"}
    BY ProceedFields DEF PoolInv
  <2>2. MutexMoves(k)
    BY <1>4 DEF MutexMoves
  <2> QED
    BY <1>1, <1>4, <2>1, <2>2, MoveWithoutConnection DEF Kept, Moves
<1>5. CASE EnterTransaction(k)
  <2>1. /\ req[k].phase = "lock" /\ req[k].at \notin AtEnd \cup {"begin"} /\ holder = Nobody
        /\ UNCHANGED <<held, txOpen, idle>>
    BY <1>5 DEF EnterTransaction, AtEnd
  <2>2. \/ /\ held # NoConn /\ holder' = k
           /\ req' = [req EXCEPT ![k] = [@ EXCEPT !.phase = "run", !.conn = held]]
        \/ req' = [req EXCEPT ![k].phase = "pool"] /\ holder' = holder
    BY <1>5 DEF EnterTransaction
  <2>3. held # NoConn => held \in Conns
    BY DEF TypeOK
  <2> QED
    BY <1>2, <1>3, <2>1, <2>2, <2>3
<1>6. CASE EnterBegin(k)
  <2>1. /\ req[k].phase = "lock" /\ req[k].at = "begin" /\ holder = Nobody
        /\ UNCHANGED <<held, txOpen, idle>>
        /\ \/ held = NoConn /\ holder' = k /\ req' = [req EXCEPT ![k].phase = "pool"]
           \/ req' = [req EXCEPT ![k] = Proceed(k, FALSE)] /\ holder' = holder
    BY <1>6 DEF EnterBegin
  <2> QED
    BY <1>3, <1>4, <2>1
<1>7. CASE TakeTransaction(k)
  <2>1. /\ req[k].at \in AtEnd /\ holder = Nobody /\ idle' = idle
        /\ \/ /\ held # NoConn /\ holder' = k /\ held' = NoConn /\ txOpen' = FALSE
              /\ req' = [req EXCEPT ![k] = [@ EXCEPT !.phase = "run", !.conn = held]]
           \/ req' = [req EXCEPT ![k] = Proceed(k, FALSE)] /\ UNCHANGED <<holder, held, txOpen>>
    BY <1>7 DEF TakeTransaction, AtEnd
  <2>2. held # NoConn => held \in Conns
    BY DEF TypeOK
  <2> QED
    BY <1>2, <1>4, <2>1, <2>2
<1>8. CASE Acquire(k)
  <2>1. PICK c \in idle : /\ idle' = idle \ {c}
                          /\ req' = [req EXCEPT ![k] = [@ EXCEPT !.phase = "run", !.conn = c]]
    BY <1>8 DEF Acquire
  <2>2. /\ req[k].phase = "pool" /\ UNCHANGED <<held, txOpen, holder>> /\ c \in Conns
    BY <1>8 DEF Acquire, TypeOK
  <2>3. req[k].at \notin AtEnd
    BY <1>1, <2>2 DEF RequestFits
  <2> QED
    BY <1>2, <2>1, <2>2, <2>3
<1> QED
  BY <1>5, <1>6, <1>7, <1>8

(* A request whose reply arrives, or that is dropped while it waits for it. *)
LEMMA AnsweringKeeps ==
  ASSUME TypeOK, PoolInv, NEW k \in Requests, ReplyArrives(k) \/ DropRunning(k)
  PROVE  Kept
<1>1. req[k].phase = "run" /\ RequestFits(k) /\ req[k].conn \in Conns /\ session[req[k].conn] \in Sessions
  BY OwnConnection DEF ReplyArrives, DropRunning, PoolInv, RequestsFit
<1>2. CASE ReplyArrives(k)
  <2>1. PICK reply \in Replies(session[req[k].conn], k) :
          /\ Settle(k, reply, req[k].conn = held \/ (req[k].at = "begin" /\ reply.ok))
          /\ txOpen' = (txOpen \/ (req[k].at = "begin" /\ reply.ok))
          /\ req' = [req EXCEPT ![k] = Proceed(k, reply.ok)]
    BY <1>2 DEF ReplyArrives
  <2>2. reply.ok \in BOOLEAN /\ txOpen \in BOOLEAN
    BY <1>1, ReplyTypes DEF PoolInv, TypeOK
  <2>3. /\ Proceed(k, reply.ok) \in RequestState /\ Proceed(k, reply.ok).conn = NoConn
        /\ Proceed(k, reply.ok).phase \in {"call", "lock", "pins", "done"}
        /\ Proceed(k, reply.ok).phase \in {"call", "lock"} => Proceed(k, reply.ok).at \in CommandsOf(k)
        /\ k \notin Plans => Proceed(k, reply.ok).n = 1
        /\ Proceed(k, reply.ok).phase = "call" => Proceed(k, reply.ok).at \notin AtEnd \cup {"begin"}
    BY <2>2, ProceedFields DEF PoolInv
  <2>4. beginLost' = beginLost /\ beginLost \in BOOLEAN
    BY <1>2 DEF ReplyArrives, TypeOK
  <2> DEFINE pinned == req[k].conn = held \/ (req[k].at = "begin" /\ reply.ok)
  <2>5. /\ pinned \in BOOLEAN /\ txOpen' \in BOOLEAN
        /\ req[k].conn = held => pinned
        /\ pinned /\ req[k].conn # held => req[k].at = "begin"
        /\ req[k].at = "begin" /\ ~pinned => ~reply.ok
    BY <2>1, <2>2
  <2>6. txOpen' = (txOpen \/ (pinned /\ req[k].conn # held))
    <3>1. req[k].at = "begin" => held = NoConn
      BY <1>1 DEF RequestFits
    <3> QED
      BY <1>1, <2>1, <2>2, <3>1
  <2>7. Settle(k, reply, pinned) /\ Moves(k, Proceed(k, reply.ok))
    BY <2>1 DEF Moves
  <2> HIDE DEF pinned
  <2> QED
    BY <1>1, <2>3, <2>4, <2>5, <2>6, <2>7, MoveOffConnection DEF Kept
<1>3. CASE DropRunning(k)
  <2>1. PICK reply \in Replies(session[req[k].conn], k) : Settle(k, reply, req[k].conn = held)
    BY <1>3 DEF DropRunning
  <2>2. /\ Moves(k, Answer(k, "dropped")) /\ txOpen' = txOpen /\ txOpen \in BOOLEAN
        /\ beginLost' = (beginLost \/ req[k].at = "begin") /\ beginLost \in BOOLEAN
    BY <1>3 DEF DropRunning, Moves, TypeOK
  <2>3. /\ Answer(k, "dropped") \in RequestState /\ Answer(k, "dropped").conn = NoConn
        /\ Answer(k, "dropped").phase = "done" /\ Answer(k, "dropped").n = 1
    BY AnswerFields
  <2>4. PICK pinned \in BOOLEAN : pinned <=> req[k].conn = held
    OBVIOUS
  <2>5. Settle(k, reply, pinned)
    <3>1. CASE req[k].conn = held
      BY <2>1, <2>4, <3>1 DEF Settle
    <3>2. CASE req[k].conn # held
      BY <2>1, <2>4, <3>2 DEF Settle
    <3> QED
      BY <3>1, <3>2
  <2>6. PICK r \in RequestState :
          /\ Moves(k, r) /\ r.conn = NoConn /\ r.n = 1
          /\ r.phase \in {"call", "lock", "pins", "done"} /\ r.phase \notin {"call", "lock"}
    BY <2>2, <2>3
  <2>7. /\ txOpen' \in BOOLEAN /\ beginLost' \in BOOLEAN /\ (beginLost => beginLost')
        /\ (req[k].at = "begin" => beginLost')
    BY <2>2
  <2>8. /\ req[k].conn = held => pinned
        /\ pinned /\ req[k].conn # held => req[k].at = "begin"
        /\ txOpen' = (txOpen \/ (pinned /\ req[k].conn # held))
    BY <2>2, <2>4
  <2> QED
    BY <1>1, <2>5, <2>6, <2>7, <2>8, MoveOffConnection DEF Kept
<1> QED
  BY <1>2, <1>3

(* The first two layers are an invariant by themselves.                     *)
LEMMA PoolIsKept ==
  ASSUME TypeOK, PoolInv, [Next]_vars
  PROVE  TypeOK' /\ PoolInv'
<1>1. CASE UNCHANGED vars
  <2>1. TypeOK'
    BY <1>1 DEF vars, TypeOK
  <2>2. RequestsFit'
    BY <1>1 DEF vars, PoolInv, RequestsFit, RequestFits
  <2>3. OnePlace' /\ FlagMirrorsTransaction'
    BY <1>1 DEF vars, PoolInv, OnePlace, Users, FlagMirrorsTransaction
  <2>4. PooledIsClean' /\ (beginLost' \/ \A c \in idle' : session'[c] = Clean)
    BY <1>1 DEF vars, PoolInv, PooledIsClean, PoolIsSound
  <2> QED
    BY <2>1, <2>2, <2>3, <2>4 DEF PoolInv, PoolIsSound
<1>2. ASSUME NEW k \in Requests, Step(k) PROVE Kept
  BY <1>2, WaitingKeeps, EnteringKeeps, AnsweringKeeps DEF Step
<1>3. ASSUME Next, ~\E k \in Requests : Step(k) PROVE Kept
  BY <1>3, SendsKeep DEF Next
<1> QED
  BY <1>1, <1>2, <1>3 DEF Kept

LEMMA InitPool == Init => PoolInv
<1> SUFFICES ASSUME Init PROVE PoolInv
  OBVIOUS
<1>1. \A k \in Requests : req[k] = NotSent
  BY DEF Init
<1>2. RequestsFit
  BY <1>1, NotSentFields DEF RequestsFit, RequestFits, AtEnd
<1>3. \A c \in Conns : Users(c) = {} /\ c \in idle /\ c # held /\ session[c] = Clean
  BY <1>1, NotSentFields DEF Users, Init
<1>4. OnePlace /\ FlagMirrorsTransaction /\ idle = Conns
  BY <1>3 DEF OnePlace, FlagMirrorsTransaction, Init
<1>5. PooledIsClean
  BY <1>1, NotSentFields DEF PooledIsClean
<1> QED
  BY <1>2, <1>3, <1>4, <1>5 DEF PoolInv, PoolIsSound

(* The types are right in every state.                                      *)
THEOREM Types == Spec => []TypeOK
<1>1. TypeOK /\ PoolInv /\ [Next]_vars => (TypeOK /\ PoolInv)'
  BY PoolIsKept
<1> QED
  BY <1>1, InitTypes, InitPool, PTL DEF Spec

(* However plans, statements, buttons and the disconnect are interleaved,   *)
(* dropped and refused, tx_open (read without the mutex by execute and by   *)
(* commit) says what `tx` holds.                                            *)
THEOREM TheFlagIsRight == Spec => []FlagMirrorsTransaction
<1>1. TypeOK /\ PoolInv /\ [Next]_vars => (TypeOK /\ PoolInv)'
  BY PoolIsKept
<1>2. PoolInv => FlagMirrorsTransaction
  BY DEF PoolInv
<1> QED
  BY <1>1, <1>2, InitTypes, InitPool, PTL DEF Spec

(* No connection is leaked or shared, and none is given back inside a       *)
(* transaction, for every number of requests and of connections.            *)
THEOREM NoConnectionIsLost == Spec => []PoolIsSound
<1>1. TypeOK /\ PoolInv /\ [Next]_vars => (TypeOK /\ PoolInv)'
  BY PoolIsKept
<1>2. PoolInv => PoolIsSound
  BY DEF PoolInv
<1> QED
  BY <1>1, <1>2, InitTypes, InitPool, PTL DEF Spec

-----------------------------------------------------------------------------
(* What a step of one request does to the plans of the others *)

LEMMA OthersStay ==
  ASSUME TypeOK, NEW k \in Requests, Step(k), NEW j \in Requests \ {k}
  PROVE  req'[j] = req[j] /\ k \in Active /\ overlapped' = overlapped
<1>1. req \in [Requests -> RequestState]
  BY DEF TypeOK, RequestState
<1>2. CASE Call(k) \/ EnterTransaction(k) \/ EnterBegin(k)
  BY <1>1, <1>2 DEF Call, EnterTransaction, EnterBegin, Active
<1>3. CASE TakeTransaction(k) \/ Acquire(k) \/ AcquireFails(k)
  BY <1>1, <1>3 DEF TakeTransaction, Acquire, AcquireFails, Active
<1>4. CASE ReplyArrives(k) \/ DropRunning(k)
  BY <1>1, <1>4 DEF ReplyArrives, DropRunning, Settle, Active
<1>5. CASE DropWaiting(k) \/ ClosePool(k) \/ Closed(k)
  BY <1>1, <1>5 DEF DropWaiting, ClosePool, Closed, Active
<1> QED
  BY <1>2, <1>3, <1>4, <1>5 DEF Step

(* The reply of the server to one request, as the sessions and the durable  *)
(* changes show it.                                                         *)
LEMMA ReplyEffects ==
  ASSUME TypeOK, PoolInv, NEW k \in Requests, ReplyArrives(k) \/ DropRunning(k)
  PROVE  \E c \in Conns : \E reply \in Replies(session[c], k) :
           /\ req[k].phase = "run" /\ c = req[k].conn /\ session[c] \in Sessions
           /\ durable' = durable \cup reply.kept
           /\ \A d \in Conns \ {c} : session'[d] = session[d]
           /\ session'[c] \in {reply.to, Returned(reply.to)}
           /\ c = held => session'[c] = reply.to /\ held' = held
           /\ ReplyArrives(k) =>
                /\ reply.ok \in BOOLEAN
                /\ req' = [req EXCEPT ![k] = Proceed(k, reply.ok)]
                /\ req[k].at = "begin" /\ reply.ok => session'[c] = reply.to /\ held' = c
<1>1. req[k].phase = "run"
  BY DEF ReplyArrives, DropRunning
<1>2. PICK c \in Conns : c = req[k].conn
  BY <1>1, OwnConnection
<1>3. session[c] \in Sessions /\ session \in [Conns -> Sessions]
  BY <1>2 DEF TypeOK
<1>4. CASE ReplyArrives(k)
  <2>1. PICK reply \in Replies(session[c], k) :
          /\ Settle(k, reply, req[k].conn = held \/ (req[k].at = "begin" /\ reply.ok))
          /\ req' = [req EXCEPT ![k] = Proceed(k, reply.ok)]
    BY <1>2, <1>4 DEF ReplyArrives
  <2>2. reply.ok \in BOOLEAN
    BY <1>1, <1>3, <2>1, ReplyTypes DEF PoolInv
  <2> QED
    BY <1>1, <1>2, <1>3, <2>1, <2>2 DEF Settle
<1>5. CASE DropRunning(k)
  <2>1. PICK reply \in Replies(session[c], k) : Settle(k, reply, req[k].conn = held)
    BY <1>2, <1>5 DEF DropRunning
  <2>2. ~ReplyArrives(k) \/ ReplyArrives(k)
    OBVIOUS
  <2>3. CASE ~ReplyArrives(k)
    BY <1>1, <1>2, <1>3, <2>1, <2>3 DEF Settle
  <2> QED
    BY <1>4, <2>2, <2>3
<1> QED
  BY <1>4, <1>5

LEMMA StepsStayWithin ==
  ASSUME TypeOK, PoolInv, NEW k \in Requests, Step(k), NEW A, NEW C, {} \in A,
         \A c \in Conns : Within(A, C, session[c]),
         req[k].at \in Framing \/ <<k, req[k].n>> \notin C
  PROVE  /\ \A c \in Conns : Within(A, C, session'[c])
         /\ \E kept : durable' = durable \cup kept /\ kept \cap C \in A
<1>1. CASE UNCHANGED <<session, durable>>
  <2>1. durable' = durable \cup {} /\ {} \cap C \in A
    BY <1>1
  <2> QED
    BY <1>1, <2>1
<1>2. CASE ReplyArrives(k) \/ DropRunning(k)
  <2>0. PICK c \in Conns : \E reply \in Replies(session[c], k) :
           /\ session[c] \in Sessions /\ durable' = durable \cup reply.kept
           /\ \A d \in Conns \ {c} : session'[d] = session[d]
           /\ session'[c] \in {reply.to, Returned(reply.to)}
    BY <1>2, ReplyEffects
  <2>1. PICK reply \in Replies(session[c], k) :
           /\ session[c] \in Sessions /\ durable' = durable \cup reply.kept
           /\ \A d \in Conns \ {c} : session'[d] = session[d]
           /\ session'[c] \in {reply.to, Returned(reply.to)}
    BY <2>0
  <2>2. Within(A, C, reply.to) /\ Within(A, C, Returned(reply.to)) /\ reply.kept \cap C \in A
    BY <2>1, StaysWithin
  <2> QED
    BY <2>1, <2>2
<1>3. UNCHANGED <<session, durable>> \/ ReplyArrives(k) \/ DropRunning(k)
  BY DEF Step, Call, EnterTransaction, EnterBegin, TakeTransaction, Acquire, AcquireFails,
         DropWaiting, ClosePool, Closed
<1> QED
  BY <1>1, <1>2, <1>3

(* A plan that is not in flight is not touched by a step of another request. *)
LEMMA PlansRest ==
  ASSUME TypeOK, PoolInv, NEW p \in Plans, PlanInv(p), p \notin Active,
         NEW k \in Requests \ {p}, Step(k)
  PROVE  PlanInv(p)'
<1>1. p \in Requests /\ req'[p] = req[p]
  BY OthersStay DEF Requests
<1>2. p \notin Active'
  BY <1>1 DEF Active
<1>3. <<k, req[k].n>> \notin Changes(p)
  BY DEF Changes
<1>4. CASE req[p].phase = "idle"
  <2>1. Landed(p) = {} /\ \A c \in Conns : Within({{}}, Changes(p), session[c])
    BY <1>4 DEF PlanInv
  <2>0. PICK A : A = {{}}
    OBVIOUS
  <2>2. /\ \A c \in Conns : Within(A, Changes(p), session'[c])
        /\ \E kept : durable' = durable \cup kept /\ kept \cap Changes(p) \in A
    <3>1. {} \in A /\ \A c \in Conns : Within(A, Changes(p), session[c])
      BY <2>0, <2>1
    <3> QED
      BY <1>3, <3>1, StepsStayWithin
  <2>3. Landed(p)' = {}
    BY <2>0, <2>1, <2>2 DEF Landed
  <2> QED
    BY <1>1, <1>2, <1>4, <2>0, <2>2, <2>3 DEF PlanInv
<1>5. CASE req[p].phase = "done" /\ req[p].answer # "dropped"
  <2>1. /\ Landed(p) \in {{}, Changes(p)} /\ LandedWhenOk(p)
        /\ \A c \in Conns : Within({{}, Changes(p)}, Changes(p), session[c])
    BY <1>5 DEF PlanInv, PlanIsOver
  <2>2. /\ \A c \in Conns : Within({{}, Changes(p)}, Changes(p), session'[c])
        /\ \E kept : durable' = durable \cup kept /\ kept \cap Changes(p) \in {{}, Changes(p)}
    BY <1>3, <2>1, StepsStayWithin
  <2>3. Landed(p)' \in {{}, Changes(p)} /\ Landed(p) \subseteq Landed(p)'
    BY <2>1, <2>2 DEF Landed
  <2>4. LandedWhenOk(p)'
    BY <1>1, <2>1, <2>3 DEF LandedWhenOk
  <2> QED
    BY <1>1, <1>2, <1>5, <2>2, <2>3, <2>4 DEF PlanInv, PlanIsOver
<1> QED
  BY <1>1, <1>2, <1>4, <1>5 DEF PlanInv

-----------------------------------------------------------------------------
(* What a plan in flight does *)

PlanStepped(p) ==
  \/ PlanGoesOn(p)'
  \/ req'[p].phase = "done" /\ (req'[p].answer = "dropped" \/ PlanIsOver(p)')

(* The commands of a plan.                                                  *)
LEMMA PlanCommands ==
  ASSUME PoolInv, NEW p \in Plans, PlanGoesOn(p)
  PROVE  /\ p \in Requests /\ RequestFits(p) /\ req[p].phase \in {"call", "lock", "pool", "run"}
         /\ req[p].at \in InTransaction \cup AtEnd \cup {"begin"}
<1>1. p \in Requests /\ RequestFits(p)
  BY DEF PoolInv, RequestsFit, Requests
<1>2. req[p].phase \in {"call", "lock", "pool", "run"}
  BY DEF PlanGoesOn
<1>3. CommandsOf(p) = InTransaction \cup AtEnd \cup {"begin"}
  BY DEF CommandsOf
<1> QED
  BY <1>1, <1>2, <1>3 DEF RequestFits

(* A step that does not reach the server leaves the plan where it is.       *)
LEMMA StandsFirm ==
  ASSUME PoolInv, NEW p \in Plans, PlanGoesOn(p),
         UNCHANGED <<session, durable>>,
         req'[p].at = req[p].at, req'[p].n = req[p].n, req'[p].own = req[p].own,
         req'[p].phase \in {"lock", "pool", "run"},
         req[p].at = "begin" \/ req'[p].phase # "pool",
         req[p].at \in InTransaction =>
           held' = held /\ req'[p].conn = IF req'[p].phase = "run" THEN held ELSE NoConn,
         req[p].at \in AtEnd => Tx(p)' = Tx(p)
  PROVE  PlanGoesOn(p)'
<1>1. req[p].at \in InTransaction \cup AtEnd \cup {"begin"} /\ RequestFits(p)
  BY PlanCommands
<1>2. CASE req[p].at = "begin"
  BY <1>2 DEF PlanGoesOn, Landed, InTransaction, AtEnd, Within
<1>3. CASE req[p].at \in InTransaction
  <2>1. Tx(p) = held
    BY <1>1, <1>3 DEF PlanGoesOn, Tx, RequestFits
  <2>2. Tx(p)' = held /\ held' = held
    BY <1>3 DEF Tx
  <2>3. req[p].at \notin AtEnd \cup {"begin"}
    BY <1>3 DEF InTransaction, AtEnd
  <2> QED
    BY <1>3, <2>1, <2>2, <2>3 DEF PlanGoesOn, Landed
<1>4. CASE req[p].at \in AtEnd
  <2>1. req[p].at \notin InTransaction /\ req[p].at \notin {"begin", "savepoint", "release", "undo", "change"}
    BY <1>4 DEF InTransaction, AtEnd
  <2> QED
    BY <1>4, <2>1 DEF PlanGoesOn, Landed
<1> QED
  BY <1>1, <1>2, <1>3, <1>4

(* Except while it makes changes, the plan is whole or absent in every      *)
(* session that can still be committed.                                     *)
LEMMA WholeBetween ==
  ASSUME TypeOK, NEW p \in Plans, PlanGoesOn(p), PoolInv, req[p].at # "change", NEW c \in Conns
  PROVE  Within({{}, Changes(p)}, Changes(p), session[c])
<1>1. /\ \A i \in 1 .. Len(session[c].marks) : session[c].marks[i] \cap Changes(p) = {}
      /\ req[p].at \in InTransaction \cup AtEnd \cup {"begin"}
  BY PlanCommands DEF PlanGoesOn
<1>2. CASE c # Tx(p) \/ req[p].at \in {"begin", "savepoint"}
  BY <1>2 DEF PlanGoesOn, Within
<1>3. CASE c = Tx(p) /\ req[p].at \in {"commit", "release"}
  <2>1. Changes(p) \subseteq session[c].work
    BY <1>3 DEF PlanGoesOn
  <2> QED
    BY <1>1, <2>1 DEF Within
<1>4. CASE c = Tx(p) /\ req[p].at \in {"undo", "rollback"}
  <2>1. session[c].is \in {"aborted", "lost"}
    BY <1>4 DEF PlanGoesOn
  <2> QED
    BY <1>1, <2>1 DEF Within
<1> QED
  BY <1>1, <1>2, <1>3, <1>4 DEF InTransaction, AtEnd

(* A plan that is answered, and not in the midst of its changes, is over.   *)
LEMMA AnswerEnds ==
  ASSUME TypeOK, PoolInv, NEW p \in Plans, PlanGoesOn(p), Step(p), req[p].at # "change",
         req'[p].own /\ req'[p].answer = "ok" => Landed(p)' = Changes(p)
  PROVE  PlanIsOver(p)'
<1>1. PICK A : A = {{}, Changes(p)}
  OBVIOUS
<1>2. req[p].at \in Framing /\ p \in Requests
  BY PlanCommands DEF InTransaction, AtEnd, Framing
<1>3. {} \in A /\ \A c \in Conns : Within(A, Changes(p), session[c])
  BY <1>1, WholeBetween
<1>4. /\ \A c \in Conns : Within(A, Changes(p), session'[c])
      /\ \E kept : durable' = durable \cup kept /\ kept \cap Changes(p) \in A
  BY <1>2, <1>3, StepsStayWithin
<1>5. Landed(p)' \in A
  BY <1>4 DEF PlanGoesOn, Landed
<1>6. LandedWhenOk(p)'
  BY DEF LandedWhenOk
<1> QED
  BY <1>1, <1>4, <1>5, <1>6 DEF PlanIsOver

(* On its way to the server.                                                *)
LEMMA PlanWaits ==
  ASSUME TypeOK, PoolInv, NEW p \in Plans, PlanGoesOn(p), Step(p),
         ~(ReplyArrives(p) \/ DropRunning(p))
  PROVE  PlanStepped(p)
<1>1. /\ p \in Requests /\ RequestFits(p) /\ req[p].phase \in {"call", "lock", "pool", "run"}
      /\ req[p].at \in InTransaction \cup AtEnd \cup {"begin"} /\ req \in [Requests -> RequestState]
  BY PlanCommands DEF TypeOK, RequestState
<1>2. req[p].at \in InTransaction => held # NoConn /\ req[p].phase \in {"call", "lock", "run"}
  BY DEF PlanGoesOn
<1>0. ASSUME NEW c \in Conns, req' = [req EXCEPT ![p] = [@ EXCEPT !.phase = "run", !.conn = c]]
      PROVE  \E r \in RequestState : Moves(p, r) /\ r.phase = "run" /\ r.conn = c
                                  /\ r.at = req[p].at /\ r.n = req[p].n /\ r.own = req[p].own
  <2> DEFINE r == [req[p] EXCEPT !.phase = "run", !.conn = c]
  <2>1. req[p] \in RequestState
    BY <1>1
  <2>2. /\ r \in RequestState /\ r.phase = "run" /\ r.conn = c
        /\ r.at = req[p].at /\ r.n = req[p].n /\ r.own = req[p].own
    BY <2>1 DEF RequestState
  <2>3. Moves(p, r)
    BY <1>0 DEF Moves
  <2> HIDE DEF r
  <2> QED
    BY <2>2, <2>3
<1>3. CASE Call(p)
  <2>1. req[p].phase = "call" /\ req[p].at \in InTransaction /\ txOpen /\ req[p].conn = NoConn
    BY <1>1, <1>2, <1>3 DEF Call, RequestFits, PoolInv, FlagMirrorsTransaction
  <2>2. PICK r \in RequestState : Moves(p, r) /\ r.phase = "lock" /\ r.conn = NoConn
                                  /\ r.at = req[p].at /\ r.n = req[p].n /\ r.own = req[p].own
    <3>1. req' = [req EXCEPT ![p].phase = "lock"]
      BY <1>3, <2>1 DEF Call
    <3> QED
      BY <1>1, <2>1, <3>1, GoesTo
  <2>3. req'[p] = r
    BY <1>1, <2>2 DEF Moves
  <2>4. UNCHANGED <<session, durable, held>> /\ req[p].at \notin AtEnd
    BY <1>3, <2>1 DEF Call, InTransaction, AtEnd
  <2> QED
    BY <2>1, <2>2, <2>3, <2>4, StandsFirm DEF PlanStepped
<1>4. CASE EnterTransaction(p)
  <2>1. req[p].phase = "lock" /\ req[p].at \in InTransaction /\ held # NoConn /\ held \in Conns
    BY <1>1, <1>2, <1>4 DEF EnterTransaction, AtEnd, TypeOK
  <2>2. PICK r \in RequestState : Moves(p, r) /\ r.phase = "run" /\ r.conn = held
                                  /\ r.at = req[p].at /\ r.n = req[p].n /\ r.own = req[p].own
    BY <1>0, <1>4, <2>1 DEF EnterTransaction
  <2>3. req'[p] = r
    BY <1>1, <2>2 DEF Moves
  <2>4. UNCHANGED <<session, durable, held>> /\ req[p].at \notin AtEnd
    BY <1>4, <2>1 DEF EnterTransaction, InTransaction, AtEnd
  <2> QED
    BY <2>1, <2>2, <2>3, <2>4, StandsFirm DEF PlanStepped
<1>5. ASSUME req' = [req EXCEPT ![p] = Proceed(p, FALSE)], req[p].at = "begin"
      PROVE  PlanStepped(p)
  <2>1. Proceed(p, FALSE) = Answer(p, "error")
    BY <1>5 DEF Proceed, NextOfPlan
  <2>2. req'[p].phase = "done" /\ req'[p].answer = "error"
    BY <1>1, <1>5, <2>1, AnswerFields
  <2>3. PlanIsOver(p)'
    BY <1>5, <2>2, AnswerEnds
  <2> QED
    BY <2>2, <2>3 DEF PlanStepped
<1>6. CASE EnterBegin(p)
  <2>1. CASE req' = [req EXCEPT ![p].phase = "pool"]
    <3>1. PICK r \in RequestState : Moves(p, r) /\ r.phase = "pool" /\ r.conn = req[p].conn
                                  /\ r.at = req[p].at /\ r.n = req[p].n /\ r.own = req[p].own
      BY <1>1, <2>1, GoesTo
    <3>2. req'[p] = r
      BY <1>1, <3>1 DEF Moves
    <3>3. UNCHANGED <<session, durable>> /\ req[p].at = "begin"
      BY <1>6 DEF EnterBegin
    <3>4. req[p].at \notin InTransaction \cup AtEnd
      BY <3>3 DEF InTransaction, AtEnd
    <3> QED
      BY <3>1, <3>2, <3>3, <3>4, StandsFirm DEF PlanStepped
  <2> QED
    BY <1>5, <1>6, <2>1 DEF EnterBegin
<1>7. CASE TakeTransaction(p)
  <2>1. req[p].phase = "lock" /\ req[p].at \in AtEnd /\ req[p].conn = NoConn /\ held # NoConn /\ held \in Conns
        /\ Tx(p) = held
    BY <1>1, <1>7 DEF TakeTransaction, AtEnd, RequestFits, PlanGoesOn, Tx, TypeOK
  <2>2. PICK r \in RequestState : Moves(p, r) /\ r.phase = "run" /\ r.conn = held
                                  /\ r.at = req[p].at /\ r.n = req[p].n /\ r.own = req[p].own
    BY <1>0, <1>7, <2>1 DEF TakeTransaction
  <2>3. req'[p] = r
    BY <1>1, <2>2 DEF Moves
  <2>4. UNCHANGED <<session, durable>> /\ req[p].at \notin InTransaction
    BY <1>7, <2>1 DEF TakeTransaction, InTransaction, AtEnd
  <2>5. Tx(p)' = Tx(p)
    BY <2>1, <2>2, <2>3 DEF Tx
  <2> QED
    BY <2>1, <2>2, <2>3, <2>4, <2>5, StandsFirm DEF PlanStepped
<1>8. req[p].phase = "pool" => req[p].at = "begin"
  BY <1>1, <1>2 DEF RequestFits
<1>9. CASE Acquire(p)
  <2>1. PICK c \in Conns : req' = [req EXCEPT ![p] = [@ EXCEPT !.phase = "run", !.conn = c]]
    BY <1>9 DEF Acquire, TypeOK
  <2>2. PICK r \in RequestState : Moves(p, r) /\ r.phase = "run" /\ r.conn = c
                                  /\ r.at = req[p].at /\ r.n = req[p].n /\ r.own = req[p].own
    BY <1>0, <2>1
  <2>3. req'[p] = r
    BY <1>1, <2>2 DEF Moves
  <2>4. UNCHANGED <<session, durable>> /\ req[p].at = "begin" /\ req[p].at \notin InTransaction \cup AtEnd
    BY <1>8, <1>9 DEF Acquire, InTransaction, AtEnd
  <2> QED
    BY <2>2, <2>3, <2>4, StandsFirm DEF PlanStepped
<1>10. CASE AcquireFails(p)
  BY <1>5, <1>8, <1>10 DEF AcquireFails
<1>11. CASE DropWaiting(p)
  <2>1. req'[p].phase = "done" /\ req'[p].answer = "dropped"
    BY <1>1, <1>11, AnswerFields DEF DropWaiting
  <2> QED
    BY <2>1 DEF PlanStepped
<1>12. ~ClosePool(p) /\ ~Closed(p)
  BY <1>1 DEF ClosePool, Closed
<1> QED
  BY <1>3, <1>4, <1>6, <1>7, <1>9, <1>10, <1>11, <1>12 DEF Step

(* The plan goes on to a change or to its end on connection c, which stays  *)
(* pinned or is pinned now.                                                 *)
OnlySession(p, c) ==
  /\ held' = c /\ durable' = durable
  /\ \A d \in Conns \ {c} : session'[d] = session[d] /\ Within({{}}, Changes(p), session[d])
  /\ \A i \in 1 .. Len(session'[c].marks) : session'[c].marks[i] \cap Changes(p) = {}

(* Of a joined transaction, what is newer than the last savepoint is p's.   *)
Newer(p, s) == s.marks # <<>> => s.work \ s.marks[Len(s.marks)] \subseteq Changes(p)

LEMMA GoesOnWith ==
  ASSUME NEW p \in Plans, PlanGoesOn(p), NEW c \in Conns, OnlySession(p, c),
         req'[p].conn = NoConn,
         \/ /\ req'[p].at = "change" /\ req'[p].phase = "call"
            /\ session'[c].is = "open" /\ session'[c].work \cap Changes(p) = {p} \X (1 .. req'[p].n - 1)
            /\ ~req'[p].own => Newer(p, session'[c])
         \/ /\ req'[p].at = "commit" /\ req'[p].phase = "lock" /\ req'[p].own
            /\ session'[c].is = "open" /\ Changes(p) \subseteq session'[c].work
         \/ /\ req'[p].at = "release" /\ req'[p].phase = "call" /\ ~req'[p].own
            /\ session'[c].is = "open" /\ Changes(p) \subseteq session'[c].work
         \/ /\ req'[p].at = "rollback" /\ req'[p].phase = "lock" /\ req'[p].own
            /\ session'[c].is \in {"aborted", "lost"}
         \/ /\ req'[p].at = "undo" /\ req'[p].phase = "call" /\ ~req'[p].own
            /\ session'[c].is \in {"aborted", "lost"} /\ Newer(p, session'[c])
  PROVE  PlanGoesOn(p)'
<1>1. Tx(p)' = c /\ c # NoConn
  BY DEF OnlySession, Tx
<1>2. Landed(p)' = {}
  BY DEF PlanGoesOn, Landed, OnlySession
<1>3. \A d \in Conns : \A i \in 1 .. Len(session'[d].marks) : session'[d].marks[i] \cap Changes(p) = {}
  BY DEF PlanGoesOn, OnlySession
<1>4. \A d \in Conns \ {c} : Within({{}}, Changes(p), session'[d])
  BY DEF OnlySession
<1>5. held' = c
  BY DEF OnlySession
<1> QED
  BY <1>1, <1>2, <1>3, <1>4, <1>5 DEF PlanGoesOn, Newer, InTransaction, AtEnd

LEMMA JustAbove ==
  ASSUME NEW n \in Nat
  PROVE  n + 1 \in 1 .. n + 1 /\ ~(n + 1 <= n)
  OBVIOUS

(* The reply to BEGIN or SAVEPOINT.                                         *)
LEMMA FirstChange ==
  ASSUME TypeOK, PoolInv, NEW p \in Plans, PlanGoesOn(p), NEW c \in Conns,
         NEW reply \in Replies(session[c], p), session[c] \in Sessions,
         req[p].at \in {"begin", "savepoint"}, reply.ok, reply.ok \in BOOLEAN,
         req[p].phase = "run", c = req[p].conn,
         durable' = durable \cup reply.kept, session'[c] = reply.to, held' = c,
         \A d \in Conns \ {c} : session'[d] = session[d],
         req' = [req EXCEPT ![p] = Goto(p, "change")]
  PROVE  PlanGoesOn(p)'
<1>1. p \in Requests /\ req[p].n = 1 /\ \A d \in Conns : Within({{}}, Changes(p), session[d])
  BY DEF PlanGoesOn, Requests
<1>2. /\ req'[p].at = "change" /\ req'[p].conn = NoConn /\ req'[p].phase = "call"
      /\ req'[p].n = 1 /\ req'[p].own = req[p].own
  <2>1. "change" \in Commands /\ req \in [Requests -> RequestState]
    BY DEF Commands, TypeOK, RequestState
  <2> QED
    BY <1>1, <2>1, GotoFields
<1>3. \A i \in 1 .. Len(session[c].marks) : session[c].marks[i] \cap Changes(p) = {}
  BY DEF PlanGoesOn
<1>4. {p} \X (1 .. 1 - 1) = {}
  OBVIOUS
<1>5. session[c].is \in {"clean", "open"} => session[c].work \cap Changes(p) = {}
  BY <1>1 DEF Within
<1>6. CASE req[p].at = "begin"
  <2>1. Opens(session[c], reply)
    BY <1>1, <1>6, RepliesAre DEF Loses, Aborts, AtEnd, Framing
  <2>2. /\ reply.to.is = "open" /\ reply.to.work = session[c].work /\ reply.to.marks = session[c].marks
        /\ reply.kept = {} /\ session[c].is \in {"clean", "open"}
    BY <2>1 DEF Opens, Sessions
  <2>3. OnlySession(p, c)
    BY <1>1, <1>3, <2>2 DEF OnlySession
  <2>4. req[p].own
    BY <1>6 DEF PlanGoesOn
  <2>5. session'[c].is = "open" /\ session'[c].work \cap Changes(p) = {p} \X (1 .. req'[p].n - 1)
    BY <1>2, <1>4, <1>5, <2>2
  <2> QED
    BY <1>2, <2>3, <2>4, <2>5, GoesOnWith
<1>7. CASE req[p].at = "savepoint"
  <2>1. Saves(session[c], reply)
    BY <1>1, <1>7, RepliesAre DEF Loses, Aborts, AtEnd, Framing
  <2>2. /\ session[c].is = "open" /\ reply.to.is = "open" /\ reply.to.work = session[c].work
        /\ reply.to.marks = Append(session[c].marks, session[c].work) /\ reply.kept = {}
    BY <2>1 DEF Saves, Sessions
  <2>3. /\ Len(reply.to.marks) = Len(session[c].marks) + 1 /\ Len(session[c].marks) \in Nat
        /\ \A i \in 1 .. Len(session[c].marks) + 1 :
             reply.to.marks[i] = IF i <= Len(session[c].marks) THEN session[c].marks[i] ELSE session[c].work
    <3> DEFINE marks == session[c].marks
               longer == Append(marks, session[c].work)
    <3>1. /\ Len(longer) = Len(marks) + 1 /\ Len(marks) \in Nat
          /\ \A i \in 1 .. Len(marks) + 1 : longer[i] = IF i <= Len(marks) THEN marks[i] ELSE session[c].work
      BY MarksChange
    <3>2. reply.to.marks = longer
      BY <2>2
    <3> HIDE DEF longer
    <3> QED
      BY <3>1, <3>2
  <2>4. reply.to.marks[Len(reply.to.marks)] = session[c].work
    <3>0. Len(reply.to.marks) = Len(session[c].marks) + 1 /\ Len(session[c].marks) \in Nat
      BY <2>3
    <3>1. Len(reply.to.marks) \in 1 .. Len(session[c].marks) + 1 /\ ~(Len(reply.to.marks) <= Len(session[c].marks))
      BY <3>0, JustAbove, Zenon
    <3> QED
      BY <2>3, <3>1
  <2>5. ASSUME NEW i \in 1 .. Len(reply.to.marks) PROVE reply.to.marks[i] \cap Changes(p) = {}
    <3>1. CASE i <= Len(session[c].marks)
      <4>1. i \in 1 .. Len(session[c].marks) /\ reply.to.marks[i] = session[c].marks[i]
        BY <2>3, <3>1
      <4> QED
        BY <1>3, <4>1
    <3>2. CASE ~(i <= Len(session[c].marks))
      <4>1. reply.to.marks[i] = session[c].work
        BY <2>3, <3>2
      <4> QED
        BY <1>5, <2>2, <4>1
    <3> QED
      BY <3>1, <3>2
  <2>6. OnlySession(p, c)
    BY <1>1, <2>2, <2>5 DEF OnlySession
  <2>7. Newer(p, session'[c])
    <3>1. reply.to.work \ reply.to.marks[Len(reply.to.marks)] = {}
      BY <2>2, <2>4
    <3> QED
      BY <3>1 DEF Newer
  <2>8. session'[c].is = "open" /\ session'[c].work \cap Changes(p) = {p} \X (1 .. req'[p].n - 1)
    BY <1>2, <1>4, <1>5, <2>2
  <2> QED
    BY <1>2, <2>6, <2>7, <2>8, GoesOnWith
<1> QED
  BY <1>6, <1>7

(* The reply to a change.                                                   *)
LEMMA NextChangeOrEnd ==
  ASSUME TypeOK, PoolInv, NEW p \in Plans, PlanGoesOn(p), NEW c \in Conns,
         NEW reply \in Replies(session[c], p), session[c] \in Sessions,
         req[p].at = "change", reply.ok \in BOOLEAN,
         req[p].phase = "run", c = req[p].conn,
         durable' = durable \cup reply.kept, session'[c] = reply.to, held' = c,
         \A d \in Conns \ {c} : session'[d] = session[d],
         req' = [req EXCEPT ![p] = NextChange(p, reply.ok)]
  PROVE  PlanGoesOn(p)'
<1>1. /\ p \in Requests /\ req \in [Requests -> RequestState] /\ req[p].n \in 1 .. Size
      /\ req[p].own \in BOOLEAN
  BY DEF TypeOK, RequestState, Requests
<1>2. /\ c = held /\ Tx(p) = c
      /\ session[c].is = "open" /\ session[c].work \cap Changes(p) = {p} \X (1 .. req[p].n - 1)
      /\ ~req[p].own => Newer(p, session[c])
      /\ \A d \in Conns \ {c} : Within({{}}, Changes(p), session[d])
      /\ \A i \in 1 .. Len(session[c].marks) : session[c].marks[i] \cap Changes(p) = {}
  BY DEF PlanGoesOn, Tx, InTransaction, Newer
<1> DEFINE next == NextChange(p, reply.ok)
<1>3. req'[p] = next
  BY <1>1
<1>4. \/ Loses(session[c], reply) \/ Aborts(session[c], reply)
      \/ WorksInside(session[c], <<p, req[p].n>>, reply)
  BY <1>1, <1>2, RepliesAre DEF AtEnd, Framing, WorksOutside
<1>5. /\ next.own = req[p].own /\ next.conn = NoConn
      /\ reply.ok /\ req[p].n < Size =>
              /\ next.at = "change" /\ next.n = req[p].n + 1 /\ next.phase = "call"
      /\ reply.ok /\ req[p].n = Size =>
              IF req[p].own THEN next.at = "commit" /\ next.phase = "lock"
              ELSE next.at = "release" /\ next.phase = "call"
      /\ ~reply.ok =>
              IF req[p].own THEN next.at = "rollback" /\ next.phase = "lock"
              ELSE next.at = "undo" /\ next.phase = "call"
  BY NextChangeFields
<1> HIDE DEF next
<1>6. CASE Loses(session[c], reply)
  <2>1. /\ reply.to.is = "lost" /\ reply.to.marks = <<>> /\ reply.kept = {} /\ ~reply.ok
        /\ Len(reply.to.marks) = 0
    BY <1>6, CleanFields, EmptySeq DEF Loses
  <2>2. OnlySession(p, c) /\ Newer(p, session'[c])
    BY <1>2, <2>1 DEF OnlySession, Newer
  <2> QED
    BY <1>3, <1>5, <2>1, <2>2, GoesOnWith
<1>7. CASE Aborts(session[c], reply)
  <2>1. /\ reply.to.is = "aborted" /\ reply.to.marks = session[c].marks
        /\ reply.to.work = session[c].work /\ reply.kept = {} /\ ~reply.ok
    BY <1>2, <1>7 DEF Aborts, Sessions
  <2>2. OnlySession(p, c) /\ (~req[p].own => Newer(p, session'[c]))
    BY <1>2, <2>1 DEF OnlySession, Newer
  <2> QED
    BY <1>3, <1>5, <2>1, <2>2, GoesOnWith
<1>8. CASE WorksInside(session[c], <<p, req[p].n>>, reply)
  <2>1. /\ reply.to.is = "open" /\ reply.to.marks = session[c].marks /\ reply.kept = {} /\ reply.ok
        /\ reply.to.work = session[c].work \cup {<<p, req[p].n>>}
    BY <1>8 DEF WorksInside, Sessions
  <2>2. Changes(p) = {p} \X (1 .. Size)
    BY DEF Changes
  <2>3. <<p, req[p].n>> \in Changes(p)
    BY <1>1, <2>2
  <2>4. reply.to.work \cap Changes(p) = {p} \X (1 .. req[p].n)
    <3>1. 1 .. req[p].n = (1 .. req[p].n - 1) \cup {req[p].n}
      BY <1>1
    <3>2. {p} \X (1 .. req[p].n) = ({p} \X (1 .. req[p].n - 1)) \cup {<<p, req[p].n>>}
      BY <3>1
    <3> QED
      BY <1>2, <2>1, <2>3, <3>2
  <2>5. ~req[p].own => Newer(p, session'[c])
    BY <1>2, <2>1, <2>3 DEF Newer
  <2>6. OnlySession(p, c)
    BY <1>2, <2>1 DEF OnlySession
  <2>7. CASE req[p].n < Size
    <3>1. /\ next.n - 1 = req[p].n /\ next.at = "change" /\ next.phase = "call"
          /\ next.own = req[p].own /\ next.conn = NoConn
      BY <1>1, <1>5, <2>1, <2>7
    <3>2. /\ session'[c].is = "open" /\ session'[c].work \cap Changes(p) = {p} \X (1 .. req'[p].n - 1)
          /\ ~req'[p].own => Newer(p, session'[c])
      BY <1>3, <2>1, <2>4, <2>5, <3>1
    <3> QED
      BY <1>3, <2>6, <3>1, <3>2, GoesOnWith
  <2>8. CASE req[p].n = Size
    <3>1. Changes(p) \subseteq session'[c].work
      BY <2>1, <2>2, <2>4, <2>8
    <3>2. session'[c].is = "open" /\ next.conn = NoConn /\ next.own = req[p].own
      BY <1>5, <2>1
    <3>3. \/ next.at = "commit" /\ next.phase = "lock" /\ req[p].own
          \/ next.at = "release" /\ next.phase = "call" /\ ~req[p].own
      BY <1>5, <2>1, <2>8
    <3> QED
      BY <1>3, <2>6, <3>1, <3>2, <3>3, GoesOnWith
  <2> QED
    BY <1>1, <2>7, <2>8
<1> QED
  BY <1>4, <1>6, <1>7, <1>8

(* Every reply to a plan.                                                   *)
LEMMA PlanIsAnswered ==
  ASSUME TypeOK, PoolInv, NEW p \in Plans, PlanGoesOn(p), ReplyArrives(p)
  PROVE  PlanStepped(p)
<1>1. /\ p \in Requests /\ req[p].at \in InTransaction \cup AtEnd \cup {"begin"}
      /\ req \in [Requests -> RequestState] /\ Step(p)
  BY PlanCommands DEF TypeOK, RequestState, Step
<1>2. PICK c \in Conns : \E reply \in Replies(session[c], p) :
           /\ req[p].phase = "run" /\ c = req[p].conn /\ session[c] \in Sessions
           /\ durable' = durable \cup reply.kept
           /\ \A d \in Conns \ {c} : session'[d] = session[d]
           /\ c = held => session'[c] = reply.to /\ held' = held
           /\ reply.ok \in BOOLEAN
           /\ req' = [req EXCEPT ![p] = Proceed(p, reply.ok)]
           /\ req[p].at = "begin" /\ reply.ok => session'[c] = reply.to /\ held' = c
  BY <1>1, ReplyEffects
<1>3. PICK reply \in Replies(session[c], p) :
           /\ req[p].phase = "run" /\ c = req[p].conn /\ session[c] \in Sessions
           /\ durable' = durable \cup reply.kept
           /\ \A d \in Conns \ {c} : session'[d] = session[d]
           /\ c = held => session'[c] = reply.to /\ held' = held
           /\ reply.ok \in BOOLEAN
           /\ req' = [req EXCEPT ![p] = Proceed(p, reply.ok)]
           /\ req[p].at = "begin" /\ reply.ok => session'[c] = reply.to /\ held' = c
  BY <1>2
<1>4. Proceed(p, reply.ok) = NextOfPlan(p, reply.ok)
  BY DEF Proceed
<1>5. CASE req[p].at = "change"
  <2>1. Proceed(p, reply.ok) = NextChange(p, reply.ok)
    BY <1>4, <1>5 DEF NextOfPlan
  <2>2. c = held
    BY <1>3, <1>5 DEF PlanGoesOn, InTransaction
  <2> QED
    BY <1>3, <1>5, <2>1, <2>2, NextChangeOrEnd DEF PlanStepped
<1>6. CASE req[p].at \in {"begin", "savepoint"} /\ reply.ok
  <2>1. Proceed(p, reply.ok) = Goto(p, "change")
    BY <1>4, <1>6 DEF NextOfPlan
  <2>2. session'[c] = reply.to /\ held' = c
    <3>1. req[p].at = "savepoint" => c = held
      BY <1>3 DEF PlanGoesOn, InTransaction
    <3> QED
      BY <1>3, <1>6, <3>1
  <2> QED
    BY <1>3, <1>6, <2>1, <2>2, FirstChange DEF PlanStepped
<1>7. CASE req[p].at # "change" /\ ~(req[p].at \in {"begin", "savepoint"} /\ reply.ok)
  <2>1. PICK answer \in {"ok", "error"} :
          /\ Proceed(p, reply.ok) = Answer(p, answer)
          /\ answer = "ok" => req[p].at \in {"commit", "release"} /\ reply.ok
    BY <1>4, <1>7 DEF NextOfPlan
  <2>2. req'[p].phase = "done" /\ req'[p].answer = answer /\ req'[p].own = req[p].own
    <3>1. /\ Answer(p, answer).phase = "done" /\ Answer(p, answer).own = req[p].own
          /\ Answer(p, answer).answer = answer
      <4>1. CASE answer = "ok"
        BY <1>1, <4>1, AnswerFields
      <4>2. CASE answer = "error"
        BY <1>1, <4>2, AnswerFields
      <4> QED
        BY <2>1, <4>1, <4>2
    <3>2. req'[p] = Answer(p, answer)
      BY <1>1, <1>3, <2>1
    <3> QED
      BY <3>1, <3>2
  <2>3. ASSUME req'[p].own, req'[p].answer = "ok" PROVE Landed(p)' = Changes(p)
    <3>1. req[p].at = "commit" /\ reply.ok
      BY <2>1, <2>2, <2>3 DEF PlanGoesOn
    <3>2. session[c].is = "open" /\ Changes(p) \subseteq session[c].work
      BY <1>3, <3>1 DEF PlanGoesOn, Tx, AtEnd
    <3>3. Commits(session[c], reply)
      BY <1>1, <3>1, RepliesAre DEF Loses, AtEnd, Framing
    <3>4. reply.kept = session[c].work
      BY <3>1, <3>2, <3>3 DEF Commits
    <3> QED
      BY <1>3, <3>2, <3>4 DEF Landed
  <2>4. PlanIsOver(p)'
    BY <1>1, <1>7, <2>3, AnswerEnds
  <2> QED
    BY <2>2, <2>4 DEF PlanStepped
<1> QED
  BY <1>5, <1>6, <1>7

LEMMA PlanSteps ==
  ASSUME TypeOK, PoolInv, NEW p \in Plans, PlanInv(p), p \in Active, Step(p)
  PROVE  PlanInv(p)'
<1>1. p \in Requests /\ Active = {p} /\ PlanGoesOn(p) /\ req \in [Requests -> RequestState]
  BY DEF PlanInv, Requests, TypeOK, RequestState
<1>2. PlanStepped(p)
  <2>1. CASE DropRunning(p)
    <3>1. req'[p].phase = "done" /\ req'[p].answer = "dropped"
      BY <1>1, <2>1, AnswerFields DEF DropRunning
    <3> QED
      BY <3>1 DEF PlanStepped
  <2> QED
    BY <1>1, <2>1, PlanIsAnswered, PlanWaits
<1>3. \A j \in Requests \ {p} : req'[j] = req[j]
  BY <1>1, OthersStay
<1>4. Active' \subseteq {p}
  BY <1>1, <1>3 DEF Active
<1>5. CASE PlanGoesOn(p)'
  <2>1. req'[p].phase \in {"call", "lock", "pool", "run"}
    BY <1>5 DEF PlanGoesOn
  <2> QED
    BY <1>4, <1>5, <2>1 DEF PlanInv
<1>6. CASE req'[p].phase = "done" /\ (req'[p].answer = "dropped" \/ PlanIsOver(p)')
  <2>1. p \notin Active'
    BY <1>6 DEF Active
  <2> QED
    BY <1>6, <2>1 DEF PlanInv
<1> QED
  BY <1>2, <1>5, <1>6 DEF PlanStepped

(* A request that is sent, seen from a plan it does not overlap.            *)
LEMMA PlanSeesSend ==
  ASSUME TypeOK, PoolInv, NEW p \in Plans, PlanInv(p), p \notin overlapped',
         NEW k \in Requests, NEW r, Send(k, r), k # p
  PROVE  PlanInv(p)'
<1>1. /\ req'[p] = req[p] /\ UNCHANGED <<session, durable>>
      /\ overlapped' = overlapped \cup (IF Active = {} THEN {} ELSE Plans \cap ({k} \cup Active))
  BY DEF Send, TypeOK, Requests
<1>2. p \notin Active
  BY <1>1
<1>3. p \notin Active'
  BY <1>1, <1>2 DEF Active
<1>4. PlanIsOver(p) => PlanIsOver(p)'
  BY <1>1 DEF PlanIsOver, Landed, LandedWhenOk
<1>5. Landed(p)' = Landed(p)
  BY <1>1 DEF Landed
<1> QED
  BY <1>1, <1>3, <1>4, <1>5 DEF PlanInv

LEMMA PlanStarts ==
  ASSUME TypeOK, PoolInv, NEW p \in Plans, PlanInv(p), p \notin overlapped', StartPlan(p)
  PROVE  PlanInv(p)'
<1>1. PICK r \in RequestState :
           /\ Send(p, r) /\ connected' = connected
           /\ r.conn = NoConn /\ r.n = 1 /\ r.own = ~txOpen /\ r.phase \in {"call", "lock"}
           /\ r.at \in {"savepoint", "begin"}
           /\ txOpen => r.at = "savepoint" /\ r.phase = "call"
           /\ ~txOpen => r.at = "begin" /\ r.phase = "lock"
  BY StartPlanMoves
<1>2. /\ p \in Requests /\ req' = [req EXCEPT ![p] = r] /\ req[p].phase = "idle"
      /\ UNCHANGED <<session, durable, held, txOpen>> /\ req \in [Requests -> RequestState]
      /\ overlapped' = overlapped \cup (IF Active = {} THEN {} ELSE Plans \cap ({p} \cup Active))
  BY <1>1 DEF Send, Requests, TypeOK, RequestState
<1>3. Active = {} /\ req'[p] = r /\ \A j \in Requests \ {p} : req'[j] = req[j]
  BY <1>2
<1>4. Active' = {p} /\ p \in Active'
  <2>1. Active' \subseteq {p}
    BY <1>3 DEF Active
  <2> QED
    BY <1>1, <1>2, <1>3, <2>1 DEF Active
<1>5. Landed(p) = {} /\ \A c \in Conns : Within({{}}, Changes(p), session[c])
  BY <1>2 DEF PlanInv
<1>6. Landed(p)' = {} /\ \A c \in Conns : Within({{}}, Changes(p), session'[c])
  BY <1>2, <1>5 DEF Landed
<1>7. \A c \in Conns : \A i \in 1 .. Len(session'[c].marks) : session'[c].marks[i] \cap Changes(p) = {}
  BY <1>6 DEF Within
<1>8. PlanGoesOn(p)'
  <2>1. CASE txOpen
    <3>1. held # NoConn /\ req'[p].at = "savepoint" /\ req'[p].phase = "call" /\ req'[p].own = FALSE
      BY <1>1, <1>3, <2>1 DEF PoolInv, FlagMirrorsTransaction
    <3> QED
      BY <1>1, <1>2, <1>3, <1>6, <1>7, <3>1 DEF PlanGoesOn, InTransaction, AtEnd
  <2>2. CASE ~txOpen
    <3>1. req'[p].at = "begin" /\ req'[p].phase = "lock" /\ req'[p].own = TRUE
      BY <1>1, <1>3, <2>2
    <3> QED
      BY <1>1, <1>3, <1>6, <1>7, <3>1 DEF PlanGoesOn, InTransaction, AtEnd
  <2> QED
    BY <2>1, <2>2
<1> QED
  BY <1>1, <1>3, <1>4, <1>8 DEF PlanInv

LEMMA BelowOrAt == \A n \in 1 .. Size : n < Size \/ n = Size
  OBVIOUS

(* A request is answered once it is done.                                   *)
LEMMA ProceedAnswers ==
  ASSUME TypeOK, NEW k \in Requests, NEW ok \in BOOLEAN, req[k].answer = ""
  PROVE  Proceed(k, ok).phase = "done" \/ Proceed(k, ok).answer = ""
<1>1. req[k] \in RequestState
  BY DEF TypeOK, RequestState
<1>2. \A at : Goto(k, at).answer = ""
  BY <1>1 DEF Goto, RequestState
<1>3. \A answer : Answer(k, answer).phase = "done"
  BY DEF Answer, NotSent
<1>4. CASE k \in Plans /\ req[k].at = "change"
  <2>1. Proceed(k, ok) = NextChange(k, ok)
    BY <1>4 DEF Proceed, NextOfPlan
  <2>2. PICK next \in RequestState : next = Goto(k, "change")
    <3>1. "change" \in Commands
      BY DEF Commands
    <3> QED
      BY <3>1, GotoFields
  <2>3. [next EXCEPT !.n = @ + 1].answer = ""
    BY <1>2, <2>2 DEF RequestState
  <2>4. req[k].n < Size \/ req[k].n = Size
    <3>1. req[k].n \in 1 .. Size
      BY <1>1 DEF RequestState
    <3> QED
      BY <3>1, BelowOrAt, Zenon
  <2> QED
    BY <1>2, <2>1, <2>2, <2>3, <2>4 DEF NextChange
<1>5. CASE k \in Plans /\ req[k].at # "change"
  <2>1. Proceed(k, ok) \in {Goto(k, "change"), Answer(k, "ok"), Answer(k, "error")}
    BY <1>5 DEF Proceed, NextOfPlan
  <2> QED
    BY <1>2, <1>3, <2>1
<1>6. CASE k \in Disconnects
  BY <1>1, <1>6 DEF Proceed, RequestState
<1>7. CASE k \notin Plans \cup Disconnects
  BY <1>3, <1>7 DEF Proceed
<1> QED
  BY <1>4, <1>5, <1>6, <1>7

LEMMA AnswersStayLast ==
  ASSUME TypeOK, PoolInv, AnswersComeLast, Next
  PROVE  AnswersComeLast'
<1>1. req \in [Requests -> RequestState]
  BY DEF TypeOK, RequestState
<1>2. \A k \in Requests : \A at : req[k].answer = "" => Goto(k, at).answer = ""
  BY <1>1 DEF Goto, RequestState
<1>3. \A k \in Requests : \A answer : Answer(k, answer).phase = "done"
  BY DEF Answer, NotSent
<1>4. ASSUME NEW k \in Requests, NEW r, req' = [req EXCEPT ![k] = r], r.phase = "done" \/ r.answer = ""
      PROVE  AnswersComeLast'
  BY <1>1, <1>4 DEF AnswersComeLast
<1>5. ASSUME NEW k \in Requests, Step(k) PROVE AnswersComeLast'
  <2>1. req[k].phase # "done" /\ req[k].answer = "" /\ req[k] \in RequestState
    BY <1>1, <1>5 DEF AnswersComeLast, Step, Call, EnterTransaction, EnterBegin, TakeTransaction, Acquire,
                AcquireFails, ReplyArrives, DropRunning, DropWaiting, ClosePool, Closed
  <2>2. ASSUME NEW phase, req' = [req EXCEPT ![k].phase = phase] PROVE AnswersComeLast'
    <3>1. [req[k] EXCEPT !.phase = phase].answer = ""
      BY <2>1 DEF RequestState
    <3> QED
      BY <1>1, <2>2, <3>1 DEF AnswersComeLast
  <2>3. ASSUME NEW c, req' = [req EXCEPT ![k] = [@ EXCEPT !.phase = "run", !.conn = c]] PROVE AnswersComeLast'
    <3>1. [req[k] EXCEPT !.phase = "run", !.conn = c].answer = ""
      BY <2>1 DEF RequestState
    <3> QED
      BY <1>1, <2>3, <3>1 DEF AnswersComeLast
  <2>4. ASSUME NEW ok \in BOOLEAN, req' = [req EXCEPT ![k] = Proceed(k, ok)] PROVE AnswersComeLast'
    BY <1>4, <2>1, <2>4, ProceedAnswers
  <2>5. ASSUME NEW answer, req' = [req EXCEPT ![k] = Answer(k, answer)] PROVE AnswersComeLast'
    BY <1>3, <1>4, <2>5
  <2>6. CASE ReplyArrives(k)
    <3>1. \E ok \in BOOLEAN : req' = [req EXCEPT ![k] = Proceed(k, ok)]
      BY <2>6, ReplyEffects
    <3> QED
      BY <2>4, <3>1
  <2>7. CASE Call(k) \/ EnterTransaction(k) \/ EnterBegin(k)
    BY <2>2, <2>3, <2>4, <2>7 DEF Call, EnterTransaction, EnterBegin
  <2>8. CASE TakeTransaction(k) \/ Acquire(k) \/ AcquireFails(k)
    BY <2>3, <2>4, <2>8 DEF TakeTransaction, Acquire, AcquireFails
  <2>9. CASE DropRunning(k) \/ DropWaiting(k) \/ ClosePool(k) \/ Closed(k)
    BY <2>2, <2>5, <2>9 DEF DropRunning, DropWaiting, ClosePool, Closed
  <2> QED
    BY <1>5, <2>6, <2>7, <2>8, <2>9 DEF Step
<1>6. ASSUME NEW k \in Requests, NEW r, Send(k, r), req[k].answer = "" => r.answer = "" \/ r.phase = "done"
      PROVE  AnswersComeLast'
  <2>1. req[k].answer = "" /\ req' = [req EXCEPT ![k] = r]
    BY <1>6, NotSentFields DEF Send, PoolInv, RequestsFit, RequestFits
  <2> QED
    BY <1>4, <1>6, <2>1
<1>7. ASSUME NEW p \in Plans, StartPlan(p) PROVE AnswersComeLast'
  <2> DEFINE next == Goto(p, IF txOpen THEN "savepoint" ELSE "begin")
             r == [next EXCEPT !.own = ~txOpen]
  <2>1. p \in Requests /\ Send(p, r)
    BY <1>7 DEF StartPlan, Requests
  <2>2. next \in RequestState
    <3>1. (IF txOpen THEN "savepoint" ELSE "begin") \in Commands
      BY DEF Commands
    <3> QED
      BY <2>1, <3>1, GotoFields
  <2>3. req[p].answer = "" => next.answer = ""
    BY <1>2, <2>1
  <2> HIDE DEF next
  <2>4. r.answer = next.answer
    BY <2>2 DEF RequestState
  <2> HIDE DEF r
  <2> QED
    BY <1>6, <2>1, <2>3, <2>4
<1>8. ASSUME NEW k \in Runs, StartRun(k) PROVE AnswersComeLast'
  BY <1>2, <1>6, <1>8 DEF StartRun, Requests
<1>9. ASSUME NEW b \in Buttons, NEW step, PressButton(b, step) PROVE AnswersComeLast'
  BY <1>2, <1>6, <1>9 DEF PressButton, Requests
<1>10. ASSUME NEW d \in Disconnects, Disconnect(d) PROVE AnswersComeLast'
  <2>1. d \in Requests /\ (Send(d, Goto(d, "rollback")) \/ Send(d, Proceed(d, TRUE)))
    BY <1>10 DEF Disconnect, Requests
  <2>2. req[d].answer = "" => Proceed(d, TRUE).phase = "done" \/ Proceed(d, TRUE).answer = ""
    BY <2>1, ProceedAnswers
  <2> QED
    BY <1>2, <1>6, <2>1, <2>2
<1> QED
  BY <1>5, <1>7, <1>8, <1>9, <1>10 DEF Next

-----------------------------------------------------------------------------
(* What a plan leaves that the guard dropped *)

(* Who opened a transaction does not change, and only who did ends it.      *)
LEMMA ProceedOwns ==
  ASSUME TypeOK, PoolInv, NEW k \in Requests, NEW ok \in BOOLEAN
  PROVE  /\ Proceed(k, ok).own = req[k].own
         /\ k \in Plans /\ Proceed(k, ok).at \in AtEnd => req[k].own
<1>1. Proceed(k, ok).own = req[k].own
  BY ProceedFields DEF PoolInv
<1>2. ASSUME k \in Plans, Proceed(k, ok).at \in AtEnd, ~req[k].own PROVE FALSE
  <2>1. Proceed(k, ok) = NextOfPlan(k, ok) /\ "change" \in Commands
    BY <1>2 DEF Proceed, Commands
  <2>2. CASE req[k].at = "change"
    <3>1. Proceed(k, ok) = NextChange(k, ok)
      BY <2>1, <2>2 DEF NextOfPlan
    <3>2. req[k].n < Size \/ req[k].n = Size
      <4>1. req[k].n \in 1 .. Size
        BY DEF TypeOK
      <4> QED
        BY <4>1
    <3>3. NextChange(k, ok).at \in {"change", "release", "undo"}
      BY <1>2, <3>2, NextChangeFields
    <3> QED
      BY <1>2, <3>1, <3>3 DEF AtEnd
  <2>3. CASE req[k].at # "change"
    <3>1. Proceed(k, ok) \in {Goto(k, "change"), Answer(k, "ok"), Answer(k, "error")}
      BY <2>1, <2>3 DEF NextOfPlan
    <3>2. /\ Goto(k, "change").at \notin AtEnd
          /\ \A answer \in {"ok", "error"} : Answer(k, answer).at \notin AtEnd
      BY <2>1, GotoFields, AnswerFields DEF AtEnd
    <3> QED
      BY <1>2, <3>1, <3>2
  <2> QED
    BY <2>2, <2>3
<1> QED
  BY <1>1, <1>2

LEMMA StepsOwn ==
  ASSUME TypeOK, PoolInv, NEW k \in Requests, Step(k)
  PROVE  /\ req'[k].own = req[k].own
         /\ k \in Plans /\ req'[k].at \in AtEnd => req[k].own \/ req'[k].at = req[k].at
<1>1. req \in [Requests -> RequestState]
  BY DEF TypeOK, RequestState
<1>2. ASSUME NEW ok \in BOOLEAN, req' = [req EXCEPT ![k] = Proceed(k, ok)]
      PROVE  /\ req'[k].own = req[k].own
             /\ k \in Plans /\ req'[k].at \in AtEnd => req[k].own
  <2>1. req'[k] = Proceed(k, ok)
    BY <1>1, <1>2
  <2> QED
    BY <2>1, ProceedOwns
<1>3. ASSUME NEW answer \in {"ok", "error", "dropped"}, req' = [req EXCEPT ![k] = Answer(k, answer)]
      PROVE  req'[k].own = req[k].own /\ req'[k].at \notin AtEnd
  <2>1. req'[k] = Answer(k, answer)
    BY <1>1, <1>3
  <2>2. Answer(k, answer).own = req[k].own /\ Answer(k, answer).at \notin AtEnd
    BY AnswerFields DEF AtEnd
  <2> QED
    BY <2>1, <2>2
<1> DEFINE Same == req'[k].own = req[k].own /\ req'[k].at = req[k].at
<1>4. ASSUME NEW phase \in {"lock", "pool", "drain"}, req' = [req EXCEPT ![k].phase = phase] PROVE Same
  <2>1. PICK r \in RequestState : Moves(k, r) /\ r.at = req[k].at /\ r.own = req[k].own
    BY <1>4, GoesTo
  <2> QED
    BY <1>1, <2>1 DEF Moves
<1>5. ASSUME NEW c \in Conns, req' = [req EXCEPT ![k] = [@ EXCEPT !.phase = "run", !.conn = c]] PROVE Same
  <2>1. PICK r \in RequestState : Moves(k, r) /\ r.at = req[k].at /\ r.own = req[k].own
    BY <1>5, RunsOn
  <2> QED
    BY <1>1, <2>1 DEF Moves
<1>9. held \in Conns \cup {NoConn} /\ idle \subseteq Conns
  BY DEF TypeOK
<1>10. CASE Call(k) \/ EnterTransaction(k) \/ Acquire(k) \/ ClosePool(k)
  <2>1. Same
    BY <1>4, <1>5, <1>9, <1>10 DEF Call, EnterTransaction, Acquire, ClosePool
  <2> QED
    BY <2>1
<1>11. CASE EnterBegin(k) \/ TakeTransaction(k)
  <2>1. Same \/ req' = [req EXCEPT ![k] = Proceed(k, FALSE)]
    BY <1>4, <1>5, <1>9, <1>11 DEF EnterBegin, TakeTransaction
  <2> HIDE DEF Same
  <2>2. CASE Same
    BY <2>2 DEF Same
  <2> QED
    BY <1>2, <2>1, <2>2
<1>6. CASE AcquireFails(k)
  BY <1>2, <1>6 DEF AcquireFails
<1>7. CASE ReplyArrives(k)
  <2>1. PICK ok \in BOOLEAN : req' = [req EXCEPT ![k] = Proceed(k, ok)]
    BY <1>7, ReplyEffects
  <2> QED
    BY <1>2, <2>1
<1>8. CASE DropWaiting(k) \/ DropRunning(k) \/ Closed(k)
  BY <1>3, <1>8 DEF DropWaiting, DropRunning, Closed
<1> QED
  BY <1>6, <1>7, <1>8, <1>10, <1>11 DEF Step

LEMMA EndsStayOwn ==
  ASSUME TypeOK, PoolInv, PlansEndTheirOwn, Next
  PROVE  PlansEndTheirOwn'
<1> SUFFICES ASSUME NEW p \in Plans, req'[p].at \in AtEnd PROVE req'[p].own
  BY DEF PlansEndTheirOwn
<1>1. p \in Requests /\ (req[p].at \in AtEnd => req[p].own)
  BY DEF PlansEndTheirOwn, Requests
<1>2. ASSUME NEW k \in Requests, Step(k) PROVE req'[p].own
  <2>1. CASE k = p
    BY <1>1, <1>2, <2>1, StepsOwn
  <2>2. CASE k # p
    BY <1>1, <1>2, <2>2, OthersStay
  <2> QED
    BY <2>1, <2>2
<1>3. ASSUME NEW k \in Requests \ {p}, NEW r, Send(k, r) PROVE req'[p].own
  BY <1>1, <1>3 DEF Send
<1>4. ~StartPlan(p)
  <2> SUFFICES ASSUME StartPlan(p) PROVE FALSE
    OBVIOUS
  <2>1. PICK r \in RequestState : Send(p, r) /\ r.at \in {"savepoint", "begin"}
    BY StartPlanMoves
  <2>2. req'[p] = r
    BY <1>1, <2>1 DEF Send, TypeOK
  <2> QED
    BY <2>1, <2>2 DEF AtEnd
<1>5. ASSUME NEW k \in Requests \ {p}, NEW step,
             StartPlan(k) \/ StartRun(k) \/ PressButton(k, step) \/ Disconnect(k)
      PROVE  req'[p].own
  BY <1>3, <1>5 DEF StartPlan, StartRun, PressButton, Disconnect
<1>6. p \notin Runs \cup Buttons \cup Disconnects
  OBVIOUS
<1> QED
  BY <1>2, <1>4, <1>5, <1>6 DEF Next, Requests

(* Where the reply of the server leaves the pinned connection.              *)
LEMMA RepliesPin ==
  ASSUME TypeOK, PoolInv, NEW k \in Requests, ReplyArrives(k) \/ DropRunning(k)
  PROVE  \/ held' = held
         \/ held' = req[k].conn /\ held = NoConn /\ req[k].at = "begin"
<1>1. req[k].phase = "run" /\ RequestFits(k)
  BY DEF ReplyArrives, DropRunning, PoolInv, RequestsFit
<1>2. held' = held \/ held' = req[k].conn
  BY DEF ReplyArrives, DropRunning, Settle
<1>3. held' # held => req[k].at = "begin"
  BY DEF ReplyArrives, DropRunning, Settle
<1> QED
  BY <1>1, <1>2, <1>3 DEF RequestFits

(* What a reply does to a session, seen from a plan p it does not work for.  *)
LEMMA RepliesSpare ==
  ASSUME TypeOK, PoolInv, NEW p \in Plans, NEW k \in Requests, ReplyArrives(k) \/ DropRunning(k),
         k # p \/ req[k].at \in Framing
  PROVE  /\ \A c \in Conns : Without(p, session[c]) => Without(p, session'[c])
         /\ \A c \in Conns : c # req[k].conn => session'[c] = session[c]
         /\ req[k].at \in AtEnd => Without(p, session'[req[k].conn])
         /\ Without(p, session[req[k].conn]) => Landed(p)' = Landed(p)
         /\ Landed(p)' # Landed(p) => req[k].at = "commit"
<1>1. PICK c \in Conns : \E reply \in Replies(session[c], k) :
           /\ c = req[k].conn /\ session[c] \in Sessions
           /\ durable' = durable \cup reply.kept
           /\ \A d \in Conns \ {c} : session'[d] = session[d]
           /\ session'[c] \in {reply.to, Returned(reply.to)}
  BY ReplyEffects
<1>2. PICK reply \in Replies(session[c], k) :
           /\ c = req[k].conn /\ session[c] \in Sessions
           /\ durable' = durable \cup reply.kept
           /\ \A d \in Conns \ {c} : session'[d] = session[d]
           /\ session'[c] \in {reply.to, Returned(reply.to)}
  BY <1>1
<1>3. req[k].at \in Framing \/ <<k, req[k].n>> \notin Changes(p)
  BY DEF Changes
<1>4. ASSUME Without(p, session[c])
      PROVE  Without(p, session'[c]) /\ reply.kept \cap Changes(p) = {}
  <2>0. PICK A : A = {{}}
    OBVIOUS
  <2>1. Within(A, Changes(p), session[c]) /\ {} \in A
    BY <1>4, <2>0 DEF Without
  <2>2. Within(A, Changes(p), reply.to) /\ Within(A, Changes(p), Returned(reply.to)) /\ reply.kept \cap Changes(p) \in A
    BY <1>2, <1>3, <2>1, StaysWithin
  <2> QED
    BY <1>2, <2>0, <2>2 DEF Without
<1>5. ASSUME req[k].at \in AtEnd PROVE Without(p, session'[c])
  <2>1. reply.to \in {Clean, Lost}
    BY <1>2, <1>5, RepliesAre DEF AtEnd, Framing, Loses, Commits, RollsBack
  <2>2. Returned(reply.to) = Clean
    BY <1>5, EndLeavesClean
  <2>3. session'[c] \in {Clean, Lost}
    BY <1>2, <2>1, <2>2
  <2>4. \A A, C : {} \in A => Within(A, C, Clean) /\ Within(A, C, Lost)
    BY NothingIsWithin
  <2> QED
    BY <2>3, <2>4 DEF Without
<1>6. reply.kept \cap Changes(p) = {} => Landed(p)' = Landed(p)
  BY <1>2 DEF Landed
<1>7. reply.kept \cap Changes(p) # {} => req[k].at = "commit"
  <2>1. reply.kept # {} => req[k].at = "commit" \/ (req[k].at \notin Framing /\ reply.kept = {<<k, req[k].n>>})
    <3> DEFINE s == session[c]
    <3>1. Loses(s, reply) \/ RollsBack(s, reply) \/ Aborts(s, reply) \/ Opens(s, reply) => reply.kept = {}
      BY DEF Loses, RollsBack, Aborts, Opens
    <3>2. Saves(s, reply) \/ Releases(s, reply) \/ Undoes(s, reply) => reply.kept = {}
      BY DEF Saves, Releases, Undoes
    <3>3. \A change : WorksInside(s, change, reply) => reply.kept = {}
      BY DEF WorksInside
    <3>4. \A change : WorksOutside(s, change, reply) => reply.kept = {change}
      BY DEF WorksOutside
    <3> HIDE DEF s
    <3>5. reply \in Replies(s, k)
      BY DEF s
    <3> QED
      BY <3>1, <3>2, <3>3, <3>4, <3>5, RepliesAre
  <2> QED
    BY <1>3, <2>1
<1> QED
  BY <1>2, <1>4, <1>5, <1>6, <1>7

(* A connection that a request runs on is with that request alone.           *)
LEMMA RunsAlone ==
  ASSUME TypeOK, PoolInv, NEW k \in Requests, req[k].phase = "run", req[k].conn # held,
         NEW j \in Requests, req[j].conn = req[k].conn
  PROVE  j = k
<1>1. PICK c \in Conns : c = req[k].conn
  BY OwnConnection
<1>2. Users(c) # {}
  BY <1>1 DEF Users
<1>3. PICK i \in Requests : Users(c) = {i}
  BY <1>1, <1>2 DEF PoolInv, OnePlace
<1> QED
  BY <1>1, <1>3 DEF Users

(* The guard drops a plan nobody overlapped: all that is left of it is in    *)
(* the pinned transaction.                                                   *)
LEMMA DropsLeave ==
  ASSUME TypeOK, PoolInv, PoolInv', NEW p \in Plans, Active = {p}, PlanGoesOn(p), Step(p),
         DropWaiting(p) \/ DropRunning(p)
  PROVE  PlanIsLeft(p)'
<1>1. p \in Requests /\ RequestFits(p) /\ req \in [Requests -> RequestState]
  BY DEF PoolInv, RequestsFit, Requests, TypeOK, RequestState
<1>2. req'[p].phase = "done"
  <2>1. req'[p] = Answer(p, "dropped")
    BY <1>1 DEF DropWaiting, DropRunning
  <2> QED
    BY <1>1, <2>1, AnswerFields
<1>3. \A q \in Requests : req'[q].phase \in {"idle", "done"}
  <2> SUFFICES ASSUME NEW q \in Requests PROVE req'[q].phase \in {"idle", "done"}
    OBVIOUS
  <2>1. CASE q = p
    BY <1>2, <2>1
  <2>2. CASE q # p
    <3>1. q \notin Active
      BY <2>2
    <3> QED
      BY <1>1, <2>2, <3>1, OthersStay DEF Active
  <2> QED
    BY <2>1, <2>2
<1>4. \A c \in Conns : Without(p, session'[c]) \/ c = held'
  <2>1. \A c \in Conns \ {Tx(p)} : Without(p, session[c])
    BY DEF PlanGoesOn, Without
  <2>2. CASE DropWaiting(p)
    <3>1. UNCHANGED <<session, held>> /\ req[p].phase # "run"
      BY <2>2 DEF DropWaiting
    <3>2. Tx(p) = held
      BY <1>1, <3>1 DEF RequestFits, Tx
    <3> QED
      BY <2>1, <3>1, <3>2
  <2>3. CASE DropRunning(p)
    <3>1. PICK c \in Conns : c = req[p].conn /\ req[p].phase = "run"
      BY <1>1, <2>3, OwnConnection DEF DropRunning
    <3>2. Tx(p) = c /\ c # NoConn
      BY <3>1, NoneIsNothing DEF Tx
    <3>3. \A d \in Conns : d # c => session'[d] = session[d]
      BY <1>1, <2>3, <3>1, ReplyEffects
    <3>4. CASE c = held
      <4>1. held' = held
        BY <2>3, <3>1, <3>4 DEF DropRunning, Settle
      <4> QED
        BY <2>1, <3>2, <3>3, <3>4, <4>1
    <3>5. CASE c # held
      <4>1. req[p].at \in AtEnd \cup {"begin"}
        BY <3>1, <3>5, PlanCommands DEF PlanGoesOn
      <4>2. CASE req[p].at \in AtEnd
        <5>1. Without(p, session'[c])
          BY <1>1, <2>3, <3>1, <4>2, RepliesSpare DEF AtEnd, Framing
        <5> QED
          BY <2>1, <3>2, <3>3, <5>1
      <4>3. CASE req[p].at = "begin"
        <5>1. Without(p, session[c])
          BY <4>3 DEF PlanGoesOn, Without
        <5>2. Without(p, session'[c])
          BY <1>1, <2>3, <4>3, <5>1, RepliesSpare DEF Framing
        <5> QED
          BY <2>1, <3>2, <3>3, <5>2
      <4> QED
        BY <4>1, <4>2, <4>3
    <3> QED
      BY <3>4, <3>5
  <2> QED
    BY <2>2, <2>3
<1>5. Plans \cap Active' = {}
  BY <1>3 DEF Active, Requests
<1>6. \A q \in Plans : req'[q].phase # "run"
  BY <1>3 DEF Requests
<1> QED
  BY <1>4, <1>5, <1>6 DEF PlanIsLeft, Without

(* After a reply a request does not run, and it comes to run only on its way  *)
(* through the mutex and the pool, with the command it had.                   *)
LEMMA RepliesEnd ==
  ASSUME TypeOK, PoolInv, NEW k \in Requests, ReplyArrives(k) \/ DropRunning(k)
  PROVE  req'[k].phase # "run"
<1>1. req \in [Requests -> RequestState]
  BY DEF TypeOK, RequestState
<1>2. CASE ReplyArrives(k)
  <2>1. PICK ok \in BOOLEAN : req' = [req EXCEPT ![k] = Proceed(k, ok)]
    BY <1>2, ReplyEffects
  <2>2. Proceed(k, ok).phase # "run"
    BY ProceedFields DEF PoolInv
  <2> QED
    BY <1>1, <2>1, <2>2
<1>3. CASE DropRunning(k)
  <2>1. req'[k] = Answer(k, "dropped")
    BY <1>1, <1>3 DEF DropRunning
  <2> QED
    BY <2>1, AnswerFields
<1> QED
  BY <1>2, <1>3

LEMMA EntersNowhere ==
  ASSUME TypeOK, PoolInv, NEW k \in Requests, req'[k].phase = "run"
  PROVE  ~(Call(k) \/ EnterBegin(k) \/ AcquireFails(k) \/ DropWaiting(k) \/ ClosePool(k) \/ Closed(k))
<1>1. req \in [Requests -> RequestState]
  BY DEF TypeOK, RequestState
<1>2. ASSUME NEW phase \in {"lock", "pool", "drain"} PROVE req' # [req EXCEPT ![k].phase = phase]
  <2> SUFFICES ASSUME req' = [req EXCEPT ![k].phase = phase] PROVE FALSE
    OBVIOUS
  <2>1. PICK r \in RequestState : Moves(k, r) /\ r.phase = phase
    BY GoesTo
  <2> QED
    BY <1>1, <2>1 DEF Moves
<1>3. req' # [req EXCEPT ![k] = Proceed(k, FALSE)]
  <2>1. Proceed(k, FALSE).phase # "run"
    BY ProceedFields DEF PoolInv
  <2> QED
    BY <1>1, <2>1
<1>4. \A answer \in {"ok", "dropped"} : req' # [req EXCEPT ![k] = Answer(k, answer)]
  <2>1. \A answer \in {"ok", "dropped"} : Answer(k, answer).phase # "run"
    BY AnswerFields
  <2> QED
    BY <1>1, <2>1
<1> QED
  BY <1>2, <1>3, <1>4 DEF Call, EnterBegin, AcquireFails, DropWaiting, ClosePool, Closed

LEMMA EntersWithCommand ==
  ASSUME TypeOK, NEW k \in Requests, EnterTransaction(k) \/ Acquire(k)
  PROVE  req'[k].at = req[k].at
<1>1. req \in [Requests -> RequestState] /\ held \in Conns \cup {NoConn} /\ idle \subseteq Conns
  BY DEF TypeOK, RequestState
<1>2. ASSUME NEW c \in Conns, req' = [req EXCEPT ![k] = [@ EXCEPT !.phase = "run", !.conn = c]]
      PROVE  req'[k].at = req[k].at
  <2>1. PICK r \in RequestState : Moves(k, r) /\ r.at = req[k].at
    BY <1>2, RunsOn
  <2> QED
    BY <1>1, <2>1 DEF Moves
<1>3. ASSUME req' = [req EXCEPT ![k].phase = "pool"] PROVE req'[k].at = req[k].at
  <2>1. PICK r \in RequestState : Moves(k, r) /\ r.at = req[k].at
    BY <1>3, GoesTo
  <2> QED
    BY <1>1, <2>1 DEF Moves
<1> QED
  BY <1>1, <1>2, <1>3 DEF EnterTransaction, Acquire

(* On its way to the server another request does not move what was left,     *)
(* but to the end of the transaction.                                        *)
LEMMA LeftWaits ==
  ASSUME TypeOK, PoolInv, PoolInv', PlansEndTheirOwn, NEW p \in Plans, PlanIsLeft(p),
         NEW k \in Requests \ {p}, Step(k), ~(ReplyArrives(k) \/ DropRunning(k))
  PROVE  PlanIsLeft(p)'
<1>1. /\ \A j \in Requests \ {k} : req'[j] = req[j]
      /\ k \in Active /\ req'[k].own = req[k].own
  BY OthersStay, StepsOwn DEF Requests
<1>0. req \in [Requests -> RequestState]
  BY DEF TypeOK, RequestState
<1>2. UNCHANGED session
  BY DEF Step, Call, EnterTransaction, EnterBegin, TakeTransaction, Acquire, AcquireFails, DropWaiting, ClosePool, Closed
<1>3. req[k].phase # "run"
  BY DEF Step, Call, EnterTransaction, EnterBegin, TakeTransaction, Acquire, AcquireFails, DropWaiting, ClosePool, Closed
<1>4. req[k].conn = NoConn
  BY <1>3 DEF PoolInv, RequestsFit, RequestFits
<1>5. \A c \in Conns : Ending(c) => Ending(c)'
  <2> SUFFICES ASSUME NEW c \in Conns, NEW j \in Requests, req[j].conn = c, req[j].at \in AtEnd PROVE Ending(c)'
    BY DEF Ending
  <2>1. j # k
    BY <1>4, NoneIsNothing
  <2> QED
    BY <1>1, <2>1 DEF Ending
<1>6. \A q \in Plans \cap Active' : q \in Active /\ req'[q].own = req[q].own
  BY <1>1 DEF Active
<1>7. Plans \subseteq Requests
  BY DEF Requests
<1>8. CASE held' = held
  <2>1. ASSUME NEW q \in Plans, req'[q].phase = "run", req'[q].at \in AtEnd PROVE Without(p, session[req'[q].conn])
    <3>1. CASE q # k
      BY <1>1, <1>7, <2>1, <3>1 DEF PlanIsLeft
    <3>2. CASE q = k
      <4>1. EnterTransaction(k) \/ Acquire(k)
        <5>1. ~TakeTransaction(k)
          <6>1. Proceed(k, FALSE).phase # "run"
            BY ProceedFields DEF PoolInv
          <6>2. req'[k] # Proceed(k, FALSE)
            BY <2>1, <3>2, <6>1
          <6> QED
            BY <1>0, <1>8, <6>2 DEF TakeTransaction
        <5> QED
          BY <2>1, <3>2, <5>1, EntersNowhere DEF Step
      <4>2. req[k].at \notin AtEnd
        BY <4>1 DEF EnterTransaction, Acquire, AtEnd, PoolInv, RequestsFit, RequestFits
      <4>3. req'[k].at = req[k].at
        BY <4>1, EntersWithCommand
      <4> QED
        BY <2>1, <3>2, <4>2, <4>3
    <3> QED
      BY <3>1, <3>2
  <2>2. \A c \in Conns : Without(p, session[c]) \/ c = held \/ Ending(c)'
    BY <1>5 DEF PlanIsLeft
  <2>3. held # NoConn /\ ~Without(p, session[held]) => \A q \in Plans \cap Active' : ~req'[q].own
    BY <1>6 DEF PlanIsLeft
  <2> QED
    BY <1>2, <1>8, <2>1, <2>2, <2>3 DEF PlanIsLeft, Without
<1>9. CASE held' # held
  <2>1. TakeTransaction(k)
    BY <1>9 DEF Step, Call, EnterTransaction, EnterBegin, Acquire, AcquireFails, DropWaiting, ClosePool, Closed
  <2>2. /\ held # NoConn /\ held' = NoConn /\ req[k].at \in AtEnd
        /\ req' = [req EXCEPT ![k] = [@ EXCEPT !.phase = "run", !.conn = held]]
    BY <1>9, <2>1 DEF TakeTransaction, AtEnd
  <2>3. PICK h \in Conns : h = held
    BY <2>2 DEF TypeOK
  <2>4. req'[k].conn = h /\ req'[k].at = req[k].at
    <3>1. req' = [req EXCEPT ![k] = [@ EXCEPT !.phase = "run", !.conn = h]]
      BY <2>2, <2>3
    <3>2. k \in Requests
      OBVIOUS
    <3>3. PICK r \in RequestState : Moves(k, r) /\ r.conn = h /\ r.at = req[k].at
      BY ONLY TypeOK, <2>3, <3>1, <3>2, RunsOn
    <3> QED
      BY <1>0, <3>3 DEF Moves
  <2>5. Ending(h)'
    BY <2>2, <2>4 DEF Ending
  <2>6. \A c \in Conns : Without(p, session[c]) \/ Ending(c)'
    BY <1>5, <2>3, <2>5 DEF PlanIsLeft
  <2>7. ASSUME NEW q \in Plans, req'[q].phase = "run", req'[q].at \in AtEnd PROVE Without(p, session[req'[q].conn])
    <3>1. CASE q # k
      BY <1>1, <1>7, <2>7, <3>1 DEF PlanIsLeft
    <3>2. CASE q = k
      <4>1. req[k].own /\ k \in Plans \cap Active
        BY <1>1, <2>2, <2>7, <3>2 DEF PlansEndTheirOwn
      <4> QED
        BY <2>2, <2>3, <2>4, <3>2, <4>1 DEF PlanIsLeft
    <3> QED
      BY <3>1, <3>2
  <2> QED
    BY <1>2, <2>2, <2>6, <2>7 DEF PlanIsLeft, Without
<1> QED
  BY <1>8, <1>9

(* The reply to another request does not move it either, but may end it.     *)
LEMMA LeftIsReplied ==
  ASSUME TypeOK, PoolInv, PoolInv', NEW p \in Plans, PlanIsLeft(p),
         NEW k \in Requests \ {p}, Step(k), ReplyArrives(k) \/ DropRunning(k)
  PROVE  PlanIsLeft(p)'
<1>1. /\ \A j \in Requests \ {k} : req'[j] = req[j]
      /\ k \in Active /\ req'[k].own = req[k].own /\ Plans \subseteq Requests
  BY OthersStay, StepsOwn DEF Requests
<1>2. PICK c \in Conns : c = req[k].conn /\ req[k].phase = "run"
  BY OwnConnection DEF ReplyArrives, DropRunning
<1>3. /\ \A d \in Conns : Without(p, session[d]) => Without(p, session'[d])
      /\ \A d \in Conns : d # c => session'[d] = session[d]
      /\ req[k].at \in AtEnd => Without(p, session'[c])
  BY <1>2, RepliesSpare
<1>4. held' = held \/ (held' = c /\ held = NoConn /\ req[k].at = "begin")
  BY <1>2, RepliesPin
<1>5. \A q \in Plans \cap Active' : q \in Active /\ req'[q].own = req[q].own
  BY <1>1 DEF Active
<1>6. \A d \in Conns : d # c /\ Ending(d) => Ending(d)'
  BY <1>1, <1>2 DEF Ending
<1>7. Without(p, session'[c]) \/ (c = held /\ held' = held)
  <2>1. CASE Without(p, session[c])
    BY <1>3, <2>1
  <2>2. CASE c = held
    BY <1>2, <1>4, <2>2, NoneIsNothing
  <2>3. CASE ~Without(p, session[c]) /\ c # held
    <3>1. PICK j \in Requests : req[j].conn = c /\ req[j].at \in AtEnd
      BY <2>3 DEF PlanIsLeft, Ending
    <3>2. j = k
      BY <1>2, <2>3, <3>1, RunsAlone
    <3> QED
      BY <1>3, <3>1, <3>2
  <2> QED
    BY <2>1, <2>2, <2>3
<1>8. \A d \in Conns : Without(p, session'[d]) \/ d = held' \/ Ending(d)'
  <2> SUFFICES ASSUME NEW d \in Conns, d # c PROVE Without(p, session'[d]) \/ d = held' \/ Ending(d)'
    BY <1>7
  <2>1. Without(p, session[d]) \/ d = held \/ Ending(d)
    BY DEF PlanIsLeft
  <2>2. d = held => held' = held
    BY <1>4, NoneIsNothing
  <2> QED
    BY <1>3, <1>6, <2>1, <2>2
<1>9. held' # NoConn /\ ~Without(p, session'[held']) => \A q \in Plans \cap Active' : ~req'[q].own
  <2>1. CASE held' = held
    <3>1. held \in Conns \cup {NoConn}
      BY DEF TypeOK
    <3>2. held \in Conns /\ ~Without(p, session'[held]) => ~Without(p, session[held])
      BY <1>3
    <3> QED
      BY <1>5, <2>1, <3>1, <3>2 DEF PlanIsLeft
  <2>2. CASE held' # held
    <3>1. held' = c /\ held = NoConn /\ c # held
      BY <1>2, <1>4, <2>2, NoneIsNothing
    <3> QED
      BY <1>7, <3>1
  <2> QED
    BY <2>1, <2>2
<1>10. ASSUME NEW q \in Plans, req'[q].phase = "run", req'[q].at \in AtEnd PROVE Without(p, session'[req'[q].conn])
  <2>1. req'[k].phase # "run"
    BY RepliesEnd
  <2>2. req'[q] = req[q]
    BY <1>1, <1>10, <2>1
  <2>3. Without(p, session[req[q].conn]) /\ req[q].conn \in Conns
    BY <1>1, <1>10, <2>2, OwnConnection DEF PlanIsLeft
  <2> QED
    BY <1>3, <2>2, <2>3
<1> QED
  BY <1>8, <1>9, <1>10 DEF PlanIsLeft, Without

(* A request that is sent leaves it where it is, and a plan that is sent      *)
(* while something is left finds the transaction open.                       *)
LEMMA LeftSeesSend ==
  ASSUME TypeOK, PoolInv, NEW p \in Plans, PlanIsLeft(p), NEW k \in Requests, NEW r, Send(k, r),
         r.phase # "run", k \in Plans => r.own = ~txOpen
  PROVE  PlanIsLeft(p)'
<1>1. /\ \A j \in Requests \ {k} : req'[j] = req[j]
      /\ req'[k] = r /\ UNCHANGED <<session, held>> /\ Plans \subseteq Requests
  BY DEF Send, TypeOK, Requests
<1>2. req[k].conn = NoConn
  BY NotSentFields DEF Send, PoolInv, RequestsFit, RequestFits
<1>3. \A c \in Conns : Ending(c) => Ending(c)'
  BY <1>1, <1>2, NoneIsNothing DEF Ending
<1>4. held # NoConn => txOpen
  BY DEF PoolInv, FlagMirrorsTransaction
<1>5. \A q \in Plans \cap Active' : (q \in Active /\ req'[q].own = req[q].own) \/ (q = k /\ req'[q].own = ~txOpen)
  BY <1>1 DEF Active
<1>6. held # NoConn /\ ~Without(p, session[held]) => \A q \in Plans \cap Active' : ~req'[q].own
  BY <1>4, <1>5 DEF PlanIsLeft
<1>7. \A q \in Plans : req'[q].phase = "run" => req'[q] = req[q]
  BY <1>1
<1> QED
  BY <1>1, <1>3, <1>6, <1>7 DEF PlanIsLeft, Without

(* What follows a reply to a plan is not the answer of the guard.             *)
LEMMA ProceedNeverDrops ==
  ASSUME TypeOK, NEW p \in Plans, NEW ok \in BOOLEAN, req[p].answer = ""
  PROVE  Proceed(p, ok).answer # "dropped"
<1>1. req[p] \in RequestState /\ p \in Requests
  BY DEF TypeOK, RequestState, Requests
<1>2. \A at : Goto(p, at).answer = req[p].answer
  BY <1>1 DEF Goto, RequestState
<1>3. \A answer \in {"ok", "error"} : Answer(p, answer).answer # "dropped"
  BY <1>1, AnswerFields
<1>4. CASE req[p].at = "change"
  <2>1. Proceed(p, ok) = NextChange(p, ok)
    BY <1>4 DEF Proceed, NextOfPlan
  <2>2. PICK next \in RequestState : next = Goto(p, "change")
    <3>1. "change" \in Commands
      BY DEF Commands
    <3> QED
      BY <1>1, <3>1, GotoFields
  <2>3. [next EXCEPT !.n = @ + 1].answer = next.answer
    BY <2>2 DEF RequestState
  <2>4. req[p].n < Size \/ req[p].n = Size
    <3>1. req[p].n \in 1 .. Size
      BY <1>1 DEF RequestState
    <3> QED
      BY <3>1, BelowOrAt, Zenon
  <2>5. \/ NextChange(p, ok) = [next EXCEPT !.n = @ + 1]
        \/ NextChange(p, ok) = Goto(p, IF req[p].own THEN "commit" ELSE "release")
        \/ NextChange(p, ok) = Goto(p, IF req[p].own THEN "rollback" ELSE "undo")
    <3>1. CASE ok /\ req[p].n < Size
      <4>1. NextChange(p, ok) = [Goto(p, "change") EXCEPT !.n = @ + 1]
        <5>1. req[p].n # Size
          <6>1. req[p].n \in 1 .. Size
            BY <1>1 DEF RequestState
          <6> QED
            BY ONLY <3>1, SizeIsPositive, <6>1
        <5> QED
          BY ONLY <3>1, <5>1 DEF NextChange
      <4> QED
        BY <2>2, <4>1
    <3>2. CASE ok /\ req[p].n = Size
      <4>1. ~(req[p].n < Size)
        BY ONLY <3>2, SizeIsPositive
      <4> QED
        BY ONLY <3>2, <4>1 DEF NextChange
    <3>3. CASE ~ok
      BY ONLY <3>3 DEF NextChange
    <3> QED
      BY <2>4, <3>1, <3>2, <3>3
  <2>6. NextChange(p, ok).answer = req[p].answer
    BY <1>2, <2>2, <2>3, <2>5
  <2> QED
    BY <2>1, <2>6
<1>5. CASE req[p].at # "change"
  <2>1. Proceed(p, ok) \in {Goto(p, "change"), Answer(p, "ok"), Answer(p, "error")}
    BY <1>5 DEF Proceed, NextOfPlan
  <2> QED
    BY <1>2, <1>3, <2>1
<1> QED
  BY <1>4, <1>5

(* The guard's drop of a plan is the only way to be "dropped".               *)
LEMMA OnlyDropsDrop ==
  ASSUME TypeOK, PoolInv, AnswersComeLast, NEW p \in Plans, Step(p), req'[p].answer = "dropped"
  PROVE  DropWaiting(p) \/ DropRunning(p)
<1>1. p \in Requests /\ req \in [Requests -> RequestState]
  BY DEF TypeOK, RequestState, Requests
<1>2. p \in Active /\ req[p].answer = ""
  <2>1. p \in Active
    BY <1>1 DEF Step, Call, EnterTransaction, EnterBegin, TakeTransaction, Acquire, AcquireFails,
                ReplyArrives, DropRunning, DropWaiting, ClosePool, Closed, Active
  <2> QED
    BY <2>1 DEF Active, AnswersComeLast
<1>3. \A ok \in BOOLEAN : Proceed(p, ok).answer # "dropped"
  BY <1>1, <1>2, ProceedNeverDrops
<1>4. CASE Call(p) \/ EnterTransaction(p) \/ Acquire(p)
  BY <1>1, <1>2, <1>4 DEF Call, EnterTransaction, Acquire, RequestState
<1>5. CASE EnterBegin(p) \/ TakeTransaction(p) \/ AcquireFails(p)
  BY <1>1, <1>2, <1>3, <1>5 DEF EnterBegin, TakeTransaction, AcquireFails, RequestState
<1>6. CASE ReplyArrives(p)
  <2>1. PICK ok \in BOOLEAN : req' = [req EXCEPT ![p] = Proceed(p, ok)]
    BY <1>1, <1>6, ReplyEffects
  <2> QED
    BY <1>1, <1>3, <2>1
<1>7. CASE ClosePool(p) \/ Closed(p)
  <2>1. Answer(p, "ok").answer # "dropped"
    BY <1>1, AnswerFields
  <2> QED
    BY <1>1, <1>2, <1>7, <2>1 DEF ClosePool, Closed, RequestState
<1> QED
  BY <1>4, <1>5, <1>6, <1>7 DEF Step

(* The invariant.                                                           *)
LEMMA PlansAreKept ==
  ASSUME Inv, [Next]_vars
  PROVE  Inv'
<1>1. TypeOK' /\ PoolInv' /\ TypeOK /\ PoolInv /\ AnswersComeLast /\ AnswersComeLast' /\ PlansEndTheirOwn /\ PlansEndTheirOwn'
  <2>1. UNCHANGED vars => AnswersComeLast' /\ PlansEndTheirOwn'
    BY DEF Inv, AnswersComeLast, PlansEndTheirOwn, vars
  <2> QED
    BY <2>1, PoolIsKept, AnswersStayLast, EndsStayOwn DEF Inv
<1>2. SUFFICES ASSUME NEW p \in Plans \ overlapped' PROVE (PlanInv(p) /\ DropInv(p))'
  BY <1>1 DEF Inv
<1>3. p \in Plans /\ p \notin overlapped' /\ p \in Requests
  BY DEF Requests
<1>4. CASE UNCHANGED vars
  <2>1. PlanInv(p) /\ DropInv(p)
    BY <1>3, <1>4 DEF Inv, vars
  <2>2. UNCHANGED <<req, held, session, durable>>
    BY <1>4 DEF vars
  <2>3. Landed(p)' = Landed(p) /\ Active' = Active /\ Tx(p)' = Tx(p)
    BY <2>2 DEF Landed, Active, Tx
  <2>4. PlanGoesOn(p) => PlanGoesOn(p)'
    BY <2>2, <2>3 DEF PlanGoesOn
  <2>5. PlanIsOver(p) => PlanIsOver(p)'
    BY <2>2, <2>3 DEF PlanIsOver, LandedWhenOk
  <2>6. DropInv(p)'
    BY <2>1, <2>2, <2>3 DEF DropInv, PlanIsLeft, Without, Ending
  <2> QED
    BY <2>1, <2>2, <2>3, <2>4, <2>5, <2>6 DEF PlanInv
<1>5. ASSUME NEW k \in Requests, Step(k) PROVE (PlanInv(p) /\ DropInv(p))'
  <2>1. overlapped' = overlapped
    BY <1>5 DEF Step, Call, EnterTransaction, EnterBegin, TakeTransaction, Acquire, AcquireFails,
                ReplyArrives, DropRunning, Settle, DropWaiting, ClosePool, Closed
  <2>2. PlanInv(p) /\ DropInv(p)
    BY <1>3, <2>1 DEF Inv
  <2>3. k \in Active
    BY <1>5 DEF Step, Call, EnterTransaction, EnterBegin, TakeTransaction, Acquire, AcquireFails,
                ReplyArrives, DropRunning, DropWaiting, ClosePool, Closed, Active
  <2>4. CASE k = p
    <3>1. DropInv(p)'
      <4>1. Active = {p} /\ PlanGoesOn(p)
        BY <2>2, <2>3, <2>4 DEF PlanInv
      <4>2. req'[p].answer = "dropped" => PlanIsLeft(p)'
        BY <1>1, <1>3, <1>5, <2>4, <4>1, OnlyDropsDrop, DropsLeave
      <4> QED
        BY <4>2 DEF DropInv
    <3> QED
      BY <1>1, <1>3, <1>5, <2>2, <2>3, <2>4, <3>1, PlanSteps
  <2>5. CASE k # p
    <3>1. p \notin Active
      BY <2>2, <2>3, <2>5 DEF PlanInv
    <3>2. DropInv(p)'
      <4>1. req'[p] = req[p]
        BY <1>1, <1>3, <1>5, <2>5, OthersStay
      <4>2. PlanIsLeft(p) => PlanIsLeft(p)'
        BY <1>1, <1>3, <1>5, <2>5, LeftWaits, LeftIsReplied
      <4> QED
        BY <2>2, <4>1, <4>2 DEF DropInv
    <3> QED
      BY <1>1, <1>3, <1>5, <2>2, <2>5, <3>1, <3>2, PlansRest
  <2> QED
    BY <2>4, <2>5
<1>6. ASSUME NEW k \in Requests, NEW r, Send(k, r) PROVE PlanInv(p) /\ DropInv(p)
  <2>1. p \notin overlapped
    BY <1>3, <1>6 DEF Send
  <2> QED
    BY <1>3, <2>1 DEF Inv
<1>7. ASSUME NEW q \in Plans, StartPlan(q) PROVE (PlanInv(p) /\ DropInv(p))'
  <2>1. PICK r \in RequestState :
           /\ Send(q, r) /\ r.own = ~txOpen /\ r.phase \in {"call", "lock"}
    BY <1>1, <1>7, StartPlanMoves
  <2>2. q \in Requests /\ PlanInv(p) /\ DropInv(p)
    BY <1>6, <2>1 DEF Requests
  <2>3. PlanInv(p)'
    BY <1>1, <1>3, <1>7, <2>1, <2>2, PlanSeesSend, PlanStarts
  <2>4. PlanIsLeft(p) => PlanIsLeft(p)'
    BY <1>1, <1>3, <2>1, <2>2, LeftSeesSend
  <2>5. req'[p].answer = "dropped" => req[p].answer = "dropped"
    <3>1. req'[p] = req[p] \/ (p = q /\ req'[p].phase \in {"call", "lock"})
      BY <1>1, <1>3, <2>1, <2>2 DEF Send, TypeOK
    <3> QED
      BY <1>1, <1>3, <3>1 DEF AnswersComeLast
  <2> QED
    BY <2>2, <2>3, <2>4, <2>5 DEF DropInv
<1>8. ASSUME NEW k \in Requests \ Plans, NEW r, Send(k, r), r.phase # "run" PROVE (PlanInv(p) /\ DropInv(p))'
  <2>1. PlanInv(p) /\ DropInv(p) /\ k # p
    BY <1>3, <1>6, <1>8
  <2>2. req'[p] = req[p]
    BY <1>3, <1>8, <2>1 DEF Send
  <2>3. PlanIsLeft(p) => PlanIsLeft(p)'
    BY <1>1, <1>3, <1>8, LeftSeesSend
  <2>4. PlanInv(p)'
    BY <1>1, <1>3, <1>8, <2>1, PlanSeesSend
  <2> QED
    BY <2>1, <2>2, <2>3, <2>4 DEF DropInv
<1>0. \A k, at : Goto(k, at).phase # "run" \/ req[k] \notin RequestState
  BY DEF Goto, RequestState
<1>9. \A k \in Requests : \A at : Goto(k, at).phase # "run"
  BY <1>0, <1>1 DEF TypeOK, RequestState
<1>10. ASSUME NEW k \in Runs, StartRun(k) PROVE (PlanInv(p) /\ DropInv(p))'
  <2>1. k \in Requests \ Plans /\ Send(k, Goto(k, "statement"))
    BY <1>10 DEF StartRun, Requests
  <2> QED
    BY <1>8, <1>9, <2>1
<1>11. ASSUME NEW b \in Buttons, NEW step, PressButton(b, step) PROVE (PlanInv(p) /\ DropInv(p))'
  <2>1. b \in Requests \ Plans /\ Send(b, Goto(b, step))
    BY <1>11 DEF PressButton, Requests
  <2> QED
    BY <1>8, <1>9, <2>1
<1>12. ASSUME NEW d \in Disconnects, Disconnect(d) PROVE (PlanInv(p) /\ DropInv(p))'
  <2>1. d \in Requests \ Plans /\ (Send(d, Goto(d, "rollback")) \/ Send(d, Proceed(d, TRUE)))
    BY <1>12 DEF Disconnect, Requests
  <2>2. Proceed(d, TRUE).phase # "run"
    BY <1>1, <2>1, ProceedFields DEF PoolInv
  <2> QED
    BY <1>8, <1>9, <2>1, <2>2
<1> QED
  BY <1>4, <1>5, <1>7, <1>10, <1>11, <1>12 DEF Next

LEMMA InitPlans == Init => Inv
<1> SUFFICES ASSUME Init PROVE Inv
  OBVIOUS
<1>1. ASSUME NEW p \in Plans PROVE PlanInv(p)
  <2>1. p \in Requests /\ req[p] = NotSent /\ durable = {} /\ \A c \in Conns : session[c] = Clean
    BY DEF Init, Requests
  <2>2. \A c \in Conns : Within({{}}, Changes(p), session[c])
    BY <2>1, NothingIsWithin
  <2>3. req[p].phase = "idle" /\ p \notin Active
    BY <2>1, NotSentFields DEF Active
  <2> QED
    BY <2>1, <2>2, <2>3 DEF PlanInv, Landed
<1>2. AnswersComeLast /\ PlansEndTheirOwn /\ \A p \in Plans : DropInv(p)
  BY NotSentFields DEF Init, AnswersComeLast, PlansEndTheirOwn, DropInv, Requests, AtEnd
<1> QED
  BY <1>1, <1>2, InitTypes, InitPool DEF Inv

(* What lands of a plan nobody overlapped lands at once, or with a Commit of *)
(* the user's after the guard dropped the plan.                              *)
LEMMA PlansLand ==
  ASSUME Inv, Next, NEW p \in Plans \ overlapped
  PROVE  Landed(p)' \in {Landed(p), Changes(p)} \/ UserCommitsAfterDrop(p)
<1>1. /\ TypeOK /\ PoolInv /\ AnswersComeLast /\ PlanInv(p) /\ DropInv(p) /\ p \in Plans /\ p \in Requests
      /\ req \in [Requests -> RequestState] /\ RequestFits(p)
  BY DEF Inv, Requests, TypeOK, RequestState, PoolInv, RequestsFit
<1>2. ASSUME NEW k \in Requests, Step(k)
      PROVE  Landed(p)' \in {Landed(p), Changes(p)} \/ UserCommitsAfterDrop(p)
  <2>1. CASE UNCHANGED durable
    BY <2>1 DEF Landed
  <2>2. CASE ReplyArrives(k) \/ DropRunning(k)
    <3>1. PICK c \in Conns : c = req[k].conn /\ req[k].phase = "run" /\ k \in Active
      BY <1>1, <2>2, OwnConnection DEF ReplyArrives, DropRunning, Active
    <3>2. Landed(p) \subseteq Landed(p)'
      BY <1>1, <2>2, ReplyEffects DEF Landed
    <3>3. CASE k = p
      <4>1. PlanGoesOn(p) /\ Landed(p) = {}
        BY <1>1, <3>1, <3>3 DEF PlanInv, PlanGoesOn
      <4>2. CASE req[p].at # "change"
        <5>1. PICK A : A = {{}, Changes(p)}
          OBVIOUS
        <5>2. req[p].at \in Framing
          BY <1>1, <4>1, <4>2, PlanCommands DEF InTransaction, AtEnd, Framing
        <5>3. {} \in A /\ \A d \in Conns : Within(A, Changes(p), session[d])
          BY <1>1, <4>1, <4>2, <5>1, WholeBetween
        <5>4. \E kept : durable' = durable \cup kept /\ kept \cap Changes(p) \in A
          BY <1>1, <1>2, <3>3, <5>2, <5>3, StepsStayWithin
        <5> QED
          BY <4>1, <5>1, <5>4 DEF Landed
      <4>3. CASE req[p].at = "change"
        <5>1. c = held /\ session[c].is = "open"
          BY <3>1, <3>3, <4>1, <4>3 DEF PlanGoesOn, InTransaction
        <5>2. PICK reply \in Replies(session[c], p) : durable' = durable \cup reply.kept
          BY <1>1, <2>2, <3>1, <3>3, ReplyEffects
        <5>3. reply.kept = {}
          <6>1. Loses(session[c], reply) \/ Aborts(session[c], reply) \/ WorksInside(session[c], <<p, req[p].n>>, reply)
            BY <1>1, <4>3, <5>1, RepliesAre DEF AtEnd, WorksOutside
          <6> QED
            BY <6>1 DEF Loses, Aborts, WorksInside
        <5> QED
          BY <5>2, <5>3 DEF Landed
      <4> QED
        BY <4>2, <4>3
    <3>4. CASE k # p
      <4>0. k \in Requests \ {p} /\ p \in Plans
        BY <1>1, <3>4
      <4>1. p \notin Active
        BY <1>1, <3>1, <3>4 DEF PlanInv
      <4>2. CASE req[p].answer = "dropped"
        <5>1. SUFFICES ASSUME Landed(p)' # Landed(p) PROVE UserCommitsAfterDrop(p)
          OBVIOUS
        <5>2. req[k].at = "commit" /\ ~Without(p, session[c])
          BY <1>1, <2>2, <3>1, <3>4, <5>1, RepliesSpare
        <5>3. k \notin Plans
          BY <1>1, <3>1, <4>2, <5>2 DEF DropInv, PlanIsLeft, AtEnd
        <5>4. k \in Buttons
          <6>1. "commit" \in CommandsOf(k)
            BY <3>1, <5>2, <1>1 DEF PoolInv, RequestsFit, RequestFits
          <6> QED
            BY <5>3, <6>1 DEF CommandsOf, Requests
        <5>5. req'[k].phase = "done"
          <6>1. \A answer \in {"ok", "error", "dropped"} : Answer(k, answer).phase = "done"
            BY <1>1, AnswerFields
          <6>2. \A ok \in BOOLEAN : Proceed(k, ok).phase = "done"
            BY <5>3, <5>4, <6>1 DEF Proceed
          <6>3. \/ \E ok \in BOOLEAN : req' = [req EXCEPT ![k] = Proceed(k, ok)]
                \/ req' = [req EXCEPT ![k] = Answer(k, "dropped")]
            BY <1>1, <2>2, ReplyEffects DEF DropRunning
          <6> QED
            BY <1>1, <6>1, <6>2, <6>3
        <5> QED
          BY <3>1, <4>2, <5>2, <5>4, <5>5 DEF UserCommitsAfterDrop
      <4>3. CASE req[p].answer # "dropped"
        <5>1. PlanInv(p)' /\ req'[p] = req[p]
          BY <1>1, <1>2, <4>0, <4>1, PlansRest, OthersStay
        <5>2. CASE req[p].phase = "idle"
          BY <1>1, <5>1, <5>2 DEF PlanInv
        <5>3. CASE req[p].phase = "done"
          <6>1. Landed(p) \in {{}, Changes(p)} /\ Landed(p)' \in {{}, Changes(p)}
            BY <1>1, <4>3, <5>1, <5>3 DEF PlanInv, PlanIsOver
          <6> QED
            BY <3>2, <6>1
        <5> QED
          BY <1>1, <4>1, <5>2, <5>3 DEF Active
      <4> QED
        BY <4>2, <4>3
    <3> QED
      BY <3>3, <3>4
  <2> QED
    BY <1>2, <2>1, <2>2 DEF Step, Call, EnterTransaction, EnterBegin, TakeTransaction, Acquire, AcquireFails,
                            DropWaiting, ClosePool, Closed
<1>3. ASSUME NEW k \in Requests, NEW r, Send(k, r) PROVE Landed(p)' = Landed(p)
  BY <1>3 DEF Send, Landed
<1> QED
  BY <1>2, <1>3 DEF Next, StartPlan, StartRun, PressButton, Disconnect, Requests

(* A commit of pending changes that no other request overlaps, and that is   *)
(* answered, lands whole or not at all, and has landed when it says so; of   *)
(* one the guard dropped a part can land, with a Commit the user presses     *)
(* later and with nothing else. For every number of changes, of other        *)
(* requests and of connections.                                              *)
THEOREM AloneIsAtomic == Spec => UndisturbedPlansLandWhole
<1>1. Inv /\ [Next]_vars => Inv'
  BY PlansAreKept
<1>2. Inv => \A p \in Plans \ overlapped : WholeOrNothing(p) /\ LandedWhenOk(p)
  <2> SUFFICES ASSUME Inv, NEW p \in Plans \ overlapped PROVE WholeOrNothing(p) /\ LandedWhenOk(p)
    OBVIOUS
  <2>1. PlanInv(p) /\ p \in Requests /\ RequestFits(p)
    BY DEF Inv, PoolInv, RequestsFit, Requests
  <2>2. CASE req[p].phase = "done"
    BY <2>1, <2>2 DEF PlanInv, PlanIsOver, WholeOrNothing, LandedWhenOk
  <2>3. CASE req[p].phase = "idle"
    BY <2>1, <2>3, NotSentFields DEF RequestFits, WholeOrNothing, LandedWhenOk
  <2>4. CASE req[p].phase \notin {"idle", "done"}
    <3>1. PlanGoesOn(p) /\ req[p].answer = ""
      BY <2>1, <2>4 DEF PlanInv, Active, Inv, AnswersComeLast
    <3> QED
      BY <3>1 DEF WholeOrNothing, LandedWhenOk
  <2> QED
    BY <2>2, <2>3, <2>4
<1>3. Inv /\ [Next]_vars =>
        [\A p \in Plans \ overlapped : Landed(p)' \in {Landed(p), Changes(p)} \/ UserCommitsAfterDrop(p)]_vars
  BY PlansLand
<1> QED
  BY <1>1, <1>2, <1>3, InitPlans, PTL DEF Spec, UndisturbedPlansLandWhole

(* A joined plan that takes its changes back, and that nobody overlaps,     *)
(* takes nothing else out of the transaction it joined.                     *)
LEMMA UndoIsOwn ==
  ASSUME Inv, Next, NEW p \in Plans \ overlapped
  PROVE  UndoTakesOnlyItsOwn(p)
<1> DEFINE c == req[p].conn
           Own == session'[c].is \in {"aborted", "lost"} \/ session[c].work \ session'[c].work \subseteq Changes(p)
<1>1. /\ TypeOK /\ PoolInv /\ PlanInv(p) /\ p \in Plans /\ p \in Requests
      /\ req \in [Requests -> RequestState]
  BY DEF Inv, Requests, TypeOK, RequestState
<1>2. SUFFICES ASSUME ~req[p].own, req[p].at \in {"undo", "rollback"}, req[p].phase = "run", req'[p].phase = "done"
               PROVE  Own
  BY DEF UndoTakesOnlyItsOwn
<1>3. PlanGoesOn(p) /\ Active = {p}
  BY <1>1, <1>2 DEF PlanInv, Active
<1>4. req[p].at = "undo" /\ c = held /\ Newer(p, session[c]) /\ session[c].is \in {"aborted", "lost"}
  BY <1>2, <1>3 DEF PlanGoesOn, InTransaction, AtEnd, Newer, Tx
<1>5. ASSUME NEW k \in Requests, Step(k) PROVE ReplyArrives(p) \/ DropRunning(p)
  <2>1. k = p
    BY <1>3, <1>5 DEF Step, Call, EnterTransaction, EnterBegin, TakeTransaction, Acquire, AcquireFails,
                ReplyArrives, DropRunning, DropWaiting, ClosePool, Closed, Active
  <2> QED
    BY <1>2, <1>5, <2>1 DEF Step, Call, EnterTransaction, EnterBegin, TakeTransaction, Acquire, AcquireFails,
                DropWaiting, ClosePool, Closed
<1>6. ASSUME NEW k \in Requests, NEW r, Send(k, r) PROVE FALSE
  BY <1>1, <1>2, <1>6 DEF Send
<1>7. ReplyArrives(p) \/ DropRunning(p)
  BY <1>5, <1>6 DEF Next, StartPlan, StartRun, PressButton, Disconnect, Requests
<1>8. PICK d \in Conns : \E reply \in Replies(session[d], p) :
           d = req[p].conn /\ session[d] \in Sessions /\ (d = held => session'[d] = reply.to)
  BY <1>1, <1>7, ReplyEffects
<1>9. PICK reply \in Replies(session[d], p) : session'[d] = reply.to
  BY <1>4, <1>8
<1>10. Loses(session[d], reply) \/ Aborts(session[d], reply) \/ Undoes(session[d], reply)
  BY <1>1, <1>4, RepliesAre DEF AtEnd, Framing
<1>11. reply.to.is \in {"aborted", "lost"} \/ session[d].work \ reply.to.work \subseteq Changes(p)
  <2>1. CASE Loses(session[d], reply)
    BY <2>1, CleanFields DEF Loses
  <2>2. CASE Aborts(session[d], reply)
    BY <1>4, <1>8, <2>2 DEF Aborts
  <2>3. CASE Undoes(session[d], reply)
    <3>1. reply.to.work = session[d].marks[Len(session[d].marks)] /\ session[d].marks # <<>>
      BY <1>8, <2>3 DEF Undoes, Sessions
    <3> QED
      BY <1>4, <1>8, <3>1 DEF Newer
  <2> QED
    BY <1>10, <2>1, <2>2, <2>3
<1> QED
  BY <1>8, <1>9, <1>11

(* The rollback to the savepoint of a plan that failed inside somebody      *)
(* else's transaction spares what was done there before the plan.           *)
THEOREM UndoSparesTheOthers == Spec => UndisturbedUndoTakesOnlyItsOwn
<1>1. Inv /\ [Next]_vars => Inv'
  BY PlansAreKept
<1>2. Inv /\ [Next]_vars => [\A p \in Plans \ overlapped : UndoTakesOnlyItsOwn(p)]_vars
  BY UndoIsOwn
<1> QED
  BY <1>1, <1>2, InitPlans, PTL DEF Spec, UndisturbedUndoTakesOnlyItsOwn

=============================================================================
