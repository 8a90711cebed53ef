----------------------- MODULE DocumentVersionsProofs -----------------------
(***************************************************************************)
(* What DocumentVersions claims, for any number of edits, commands,        *)
(* failures and kept versions: the tab says "Saved" only when it is true,  *)
(* a deleted document is not written back, what a restore or a rewrite     *)
(* replaces is in the history, and the history loses only what is old.     *)
(***************************************************************************)
EXTENDS DocumentVersions, TLAPS, FiniteSetTheorems

-----------------------------------------------------------------------------
(* The records keep their fields *)

LEMMA MaxOfTwo ==
  ASSUME NEW a \in Nat, NEW b \in Nat, a <= b
  PROVE  Max({a, b}) = b
<1> DEFINE Highest(x) == \A y \in {a, b} : x >= y
<1>1. b \in {a, b} /\ Highest(b)
  OBVIOUS
<1>2. \A x \in {a, b} : Highest(x) => x = b
  OBVIOUS
<1>3. Max({a, b}) \in {a, b} /\ Highest(Max({a, b}))
  BY <1>1 DEF Max
<1> QED
  BY <1>2, <1>3

LEMMA NoCallFields == IsCall(NoCall) /\ NoCall.at = "none"
  BY DEF IsCall, NoCall

(* A call that moves on, and one that loses its calm.                       *)
LEMMA CallPlace ==
  ASSUME NEW x, IsCall(x),
         NEW at \in {"settling", "asking", "read", "check", "keep", "write", "file", "answer", "failed"}
  PROVE  /\ IsCall([x EXCEPT !.at = at]) /\ [x EXCEPT !.at = at].at = at
         /\ [x EXCEPT !.at = at].new = x.new /\ [x EXCEPT !.at = at].gen = x.gen
<1>1. IsCall([x EXCEPT !.at = at])
  BY DEF IsCall
<1> QED
  BY <1>1 DEF IsCall

LEMMA CallCalm ==
  ASSUME NEW x, IsCall(x), NEW y, y = [x EXCEPT !.calm = FALSE]
  PROVE  IsCall(y) /\ y.at = x.at /\ y.new = x.new /\ y.gen = x.gen
  BY DEF IsCall

CallsKeepShape == call' = [c \in Commands |-> call'[c]] /\ \A c \in Commands : IsCall(call'[c])

SameCall(o) == call'[o].at = call[o].at /\ call'[o].new = call[o].new /\ call'[o].gen = call[o].gen

(* One command moves; the others lose their calm at most.                   *)
LEMMA OneMoves ==
  ASSUME Shapes, NEW c \in Commands, NEW next, IsCall(next),
         call' = [call EXCEPT ![c] = next] \/ call' = Disturbing(c, next)
  PROVE  CallsKeepShape /\ call'[c] = next /\ \A o \in Commands \ {c} : SameCall(o)
<1>1. call = [o \in Commands |-> call[o]] /\ \A o \in Commands : IsCall(call[o])
  BY DEF Shapes
<1>2. CASE call' = [call EXCEPT ![c] = next]
  BY <1>1, <1>2 DEF CallsKeepShape, SameCall
<1>3. CASE call' = Disturbing(c, next)
  <2>1. call' = [o \in Commands |-> IF o = c THEN next ELSE [call[o] EXCEPT !.calm = FALSE]]
    BY <1>3 DEF Disturbing
  <2>2. ASSUME NEW o \in Commands \ {c} PROVE IsCall(call'[o]) /\ SameCall(o)
    <3>1. call'[o] = [call[o] EXCEPT !.calm = FALSE]
      BY <2>1
    <3> QED
      BY <1>1, <3>1, CallCalm DEF SameCall
  <2> QED
    BY <2>1, <2>2 DEF CallsKeepShape
<1> QED
  BY <1>2, <1>3

LEMMA NobodyMoves ==
  ASSUME Shapes, call' = DisturbingAll \/ call' = call
  PROVE  CallsKeepShape /\ \A o \in Commands : SameCall(o)
<1>1. call = [o \in Commands |-> call[o]] /\ \A o \in Commands : IsCall(call[o])
  BY DEF Shapes
<1>2. CASE call' = call
  BY <1>1, <1>2 DEF CallsKeepShape, SameCall
<1>3. CASE call' = DisturbingAll
  <2>1. call' = [o \in Commands |-> [call[o] EXCEPT !.calm = FALSE]]
    BY <1>3 DEF DisturbingAll
  <2>2. ASSUME NEW o \in Commands PROVE IsCall(call'[o]) /\ SameCall(o)
    <3>1. call'[o] = [call[o] EXCEPT !.calm = FALSE]
      BY <2>1
    <3> QED
      BY <1>1, <3>1, CallCalm DEF SameCall
  <2> QED
    BY <2>1, <2>2 DEF CallsKeepShape
<1> QED
  BY <1>2, <1>3

-----------------------------------------------------------------------------
(* Steps that are not the save's *)

(* The tab keeps what the autosave counts, and an edit that stays on the    *)
(* screen stays typed.                                                      *)
TabStandsBy ==
  /\ IsTab(ed') /\ ed'.gen = ed.gen /\ ed'.saved = ed.saved /\ ed'.show = ed.show
  /\ typed' = Nothing \/ (typed' = typed /\ ed'.screen = ed.screen)

StoreStandsBy ==
  \/ body' = body /\ wrote' = wrote
  \/ body' = Gone /\ wrote' = wrote
  \/ wrote' \in Commands \ {"save"}

LEMMA Bystander ==
  ASSUME SaveInv, CallsKeepShape, SameCall("save"), TabStandsBy, StoreStandsBy
  PROVE  SaveInv'
<1>1. Shapes' /\ ScreenIsTyped' /\ ed'.saved <= ed'.gen
  BY DEF SaveInv, Shapes, CallsKeepShape, TabStandsBy, ScreenIsTyped
<1>2. SaveIsSound'
  BY DEF SaveInv, SaveIsSound, SameCall, TabStandsBy, StoreStandsBy, Commands
<1>3. SavedMeansStored'
  BY DEF SaveInv, SavedMeansStored, TabStandsBy, StoreStandsBy, Commands
<1> QED
  BY <1>1, <1>2, <1>3 DEF SaveInv

LEMMA TabStays ==
  ASSUME SaveInv, ed' = ed, typed' = typed
  PROVE  TabStandsBy
  BY DEF SaveInv, Shapes, TabStandsBy

(* The commands but for the save, one store call after another.             *)
LEMMA OtherCommands ==
  ASSUME SaveInv, NEW c \in Commands \ {"save"}, Backend(c) \/ StoreFails(c)
  PROVE  SaveInv'
<1>1. Shapes /\ IsCall(call[c]) /\ "save" \in Commands /\ "restore" \in Commands
  BY DEF SaveInv, Shapes, Commands
<1>2. ed' = ed /\ typed' = typed
  BY DEF Backend, Check, ReadVersion, KeepOld, Write, FileNew, StoreFails
<1>3. StoreStandsBy
  BY DEF Backend, Check, ReadVersion, KeepOld, Write, FileNew, StoreFails, StoreStandsBy
<1>4. ASSUME NEW x \in Commands \ {"save"}, NEW next, IsCall(next),
             call' = [call EXCEPT ![x] = next] \/ call' = Disturbing(x, next)
      PROVE  CallsKeepShape /\ SameCall("save")
  BY <1>1, <1>4, OneMoves
<1>5. \A x \in Commands : IsCall(Failed(x))
  <2>1. ASSUME NEW x \in Commands PROVE IsCall([call[x] EXCEPT !.at = "failed"])
    BY <1>1, CallPlace DEF Shapes
  <2> QED
    BY <2>1, NoCallFields DEF Failed
<1>6. CASE Check(c)
  <2>1. /\ IsCall([call[c] EXCEPT !.at = "write"]) /\ IsCall([call[c] EXCEPT !.at = "keep", !.old = body])
    BY <1>1 DEF IsCall
  <2>2. \E next : IsCall(next) /\ call' = [call EXCEPT ![c] = next]
    BY <1>5, <1>6, <2>1 DEF Check
  <2> QED
    BY <1>2, <1>3, <1>4, <2>2, Bystander, TabStays
<1>7. CASE ReadVersion
  <2>1. \A v : IsCall([call["restore"] EXCEPT !.at = "check", !.new = v])
    BY <1>1 DEF Shapes, IsCall
  <2>2. \E next : IsCall(next) /\ call' = [call EXCEPT !["restore"] = next]
    BY <1>1, <1>5, <1>7, <2>1 DEF ReadVersion
  <2> QED
    BY <1>1, <1>2, <1>3, <1>4, <2>2, Bystander, TabStays
<1>8. CASE KeepOld(c)
  <2>1. IsCall([call[c] EXCEPT !.at = "write"])
    BY <1>1 DEF IsCall
  <2>2. \E next : IsCall(next) /\ (call' = [call EXCEPT ![c] = next] \/ call' = Disturbing(c, next))
    BY <1>5, <1>8, <2>1 DEF KeepOld
  <2> QED
    BY <1>2, <1>3, <1>4, <2>2, Bystander, TabStays
<1>9. CASE Write(c)
  <2>1. \A at \in {"answer", "file"} : IsCall([call[c] EXCEPT !.at = at, !.stamp = stamp + 1])
    BY <1>1 DEF IsCall
  <2>2. \E next : IsCall(next) /\ call' = Disturbing(c, next)
    BY <1>9, <2>1, NoCallFields DEF Write
  <2> QED
    BY <1>2, <1>3, <1>4, <2>2, Bystander, TabStays
<1>10. CASE FileNew(c)
  <2>1. IsCall([call[c] EXCEPT !.at = "answer"])
    BY <1>1 DEF IsCall
  <2>2. \E next : IsCall(next) /\ (call' = [call EXCEPT ![c] = next] \/ call' = Disturbing(c, next))
    BY <1>5, <1>10, <2>1, NoCallFields DEF FileNew
  <2> QED
    BY <1>2, <1>3, <1>4, <2>2, Bystander, TabStays
<1>11. CASE StoreFails(c)
  <2>1. call' = [call EXCEPT ![c] = Failed(c)]
    BY <1>11 DEF StoreFails
  <2> QED
    BY <1>2, <1>3, <1>4, <1>5, <2>1, Bystander, TabStays
<1> QED
  BY <1>6, <1>7, <1>8, <1>9, <1>10, <1>11 DEF Backend

-----------------------------------------------------------------------------
(* What else happens to the document *)

(* A flush drops the timers and may close the tab.                          *)
LEMMA FlushStands ==
  ASSUME SaveInv, typed' = typed \/ typed' = Nothing,
         ed' = [ed EXCEPT !.timers = {}] \/ ed' = [[ed EXCEPT !.open = FALSE] EXCEPT !.timers = {}]
  PROVE  TabStandsBy
<1>1. IsTab(ed)
  BY DEF SaveInv, Shapes
<1> QED
  BY <1>1 DEF IsTab, TabStandsBy

(* The user and the assistant, where no edit is made.                       *)
LEMMA OthersInTheTab ==
  ASSUME SaveInv,
         \/ CloseTab \/ OpenHistory \/ Restore \/ RestoreEnds \/ Checkpoint
         \/ TakeReload \/ \E t \in {"save", "version"} : TimerFires(t)
  PROVE  SaveInv'
<1>1. Shapes /\ IsTab(ed) /\ (\A c \in Commands : IsCall(call[c]))
  BY DEF SaveInv, Shapes
<1>2. "restore" \in Commands \ {"save"} /\ "checkpoint" \in Commands \ {"save"} /\ "save" \in Commands
  BY DEF Commands
<1>3. ASSUME NEW x \in Commands \ {"save"}, NEW next, IsCall(next),
             call' = [call EXCEPT ![x] = next] \/ call' = Disturbing(x, next)
      PROVE  CallsKeepShape /\ SameCall("save")
  BY <1>1, <1>2, <1>3, OneMoves
<1>4. ASSUME call' = DisturbingAll \/ call' = call
      PROVE  CallsKeepShape /\ SameCall("save")
  BY <1>1, <1>2, <1>4, NobodyMoves
<1>5. StoreStandsBy
  BY DEF CloseTab, OpenHistory, Restore, RestoreEnds, Checkpoint, TakeReload, TimerFires, StoreStandsBy
<1>6. CASE CloseTab
  <2>1. TabStandsBy
    BY <1>6, FlushStands DEF CloseTab, Flush
  <2> QED
    BY <1>4, <1>5, <1>6, <2>1, Bystander DEF CloseTab
<1>7. CASE OpenHistory
  <2>1. TabStandsBy
    BY <1>7, FlushStands DEF OpenHistory, Flush
  <2> QED
    BY <1>4, <1>5, <1>7, <2>1, Bystander DEF OpenHistory
<1>8. CASE Restore
  <2>1. TabStandsBy
    BY <1>8, FlushStands DEF Restore, Flush
  <2>2. IsCall([call["restore"] EXCEPT !.at = "settling"])
    BY <1>1, <1>2, CallPlace
  <2>3. call' = [call EXCEPT !["restore"] = [call["restore"] EXCEPT !.at = "settling"]]
    BY <1>1, <1>8 DEF Restore, Shapes
  <2> QED
    BY <1>2, <1>3, <1>5, <2>1, <2>2, <2>3, Bystander
<1>9. CASE RestoreEnds
  <2>1. TabStandsBy
    <3>1. CASE ed' = ed /\ typed' = typed
      BY <3>1, TabStays
    <3>2. CASE typed' = Nothing /\ ed' = [ed EXCEPT !.screen = call["restore"].new, !.stamp = call["restore"].stamp]
      BY <1>1, <3>2 DEF TabStandsBy, IsTab
    <3> QED
      BY <1>9, <3>1, <3>2 DEF RestoreEnds
  <2>2. call' = [call EXCEPT !["restore"] = NoCall]
    BY <1>9 DEF RestoreEnds
  <2> QED
    BY <1>2, <1>3, <1>5, <2>1, <2>2, NoCallFields, Bystander
<1>10. CASE Checkpoint
  <2>1. ed' = ed /\ typed' = typed
    BY <1>10 DEF Checkpoint
  <2>2. IsCall([call["checkpoint"] EXCEPT !.at = "check", !.new = ed.screen])
    BY <1>1, <1>2 DEF IsCall
  <2>3. call' = [call EXCEPT !["checkpoint"] = [call["checkpoint"] EXCEPT !.at = "check", !.new = ed.screen]]
    BY <1>1, <1>10 DEF Checkpoint, Shapes
  <2> QED
    BY <1>2, <1>3, <1>5, <2>1, <2>2, <2>3, Bystander, TabStays
<1>11. CASE TakeReload
  <2>1. typed' = IF ed'.screen = ed.screen THEN typed ELSE Nothing
    BY <1>11 DEF TakeReload
  <2>2. TabStandsBy
    <3>1. CASE ed' = [[ed EXCEPT !.open = FALSE] EXCEPT !.timers = {}]
      BY <2>1, <3>1, FlushStands
    <3>2. CASE ed' = ed
      BY <2>1, <3>2, TabStays
    <3>3. ASSUME NEW screen, ed' = [ed EXCEPT !.stamp = reload.stamp, !.screen = screen]
          PROVE  TabStandsBy
      <4>1. IsTab(ed') /\ ed'.gen = ed.gen /\ ed'.saved = ed.saved /\ ed'.show = ed.show
        BY <1>1, <3>3 DEF IsTab
      <4> QED
        BY <2>1, <4>1 DEF TabStandsBy
    <3> QED
      BY <1>11, <3>1, <3>2, <3>3 DEF TakeReload, Flush
  <2> QED
    BY <1>4, <1>5, <1>11, <2>2, Bystander DEF TakeReload
<1>12. CASE \E t \in {"save", "version"} : TimerFires(t)
  <2>1. typed' = typed /\ call' = call /\ \E t \in {"save", "version"} : ed' = [ed EXCEPT !.timers = ed.timers \ {t}]
    BY <1>1, <1>12 DEF TimerFires, IsTab
  <2>2. TabStandsBy
    BY <1>1, <2>1 DEF TabStandsBy, IsTab
  <2> QED
    BY <1>4, <1>5, <2>1, <2>2, Bystander
<1> QED
  BY <1>6, <1>7, <1>8, <1>9, <1>10, <1>11, <1>12

LEMMA OthersElsewhere ==
  ASSUME SaveInv,
         ProposeRewrite \/ DecideRewrite \/ Delete \/ Rename \/ DeleteVersion \/ SendReload
  PROVE  SaveInv'
<1>1. Shapes /\ (\A c \in Commands : IsCall(call[c]))
  BY DEF SaveInv, Shapes
<1>2. "rewrite" \in Commands \ {"save"} /\ "save" \in Commands
  BY DEF Commands
<1>3. ed' = ed /\ typed' = typed
  BY DEF ProposeRewrite, DecideRewrite, Delete, Rename, DeleteVersion, SendReload
<1>4. StoreStandsBy
  BY DEF ProposeRewrite, DecideRewrite, Delete, Rename, DeleteVersion, SendReload, StoreStandsBy
<1>5. CallsKeepShape /\ SameCall("save")
  <2>1. CASE call' = DisturbingAll \/ call' = call
    BY <1>1, <1>2, <2>1, NobodyMoves
  <2>2. CASE ProposeRewrite
    <3>1. IsCall([call["rewrite"] EXCEPT !.at = "asking", !.old = body, !.new = bodies + 1, !.calm = TRUE])
      BY <1>1, <1>2 DEF IsCall
    <3>2. \E next : IsCall(next) /\ call' = [call EXCEPT !["rewrite"] = next]
      BY <2>2, <3>1 DEF ProposeRewrite
    <3> QED
      BY <1>1, <1>2, <3>2, OneMoves
  <2>3. CASE DecideRewrite
    <3>1. IsCall([call["rewrite"] EXCEPT !.at = "keep"])
      BY <1>1, <1>2, CallPlace
    <3>2. \E next : IsCall(next) /\ call' = [call EXCEPT !["rewrite"] = next]
      BY <2>3, <3>1, NoCallFields DEF DecideRewrite
    <3> QED
      BY <1>1, <1>2, <3>2, OneMoves
  <2> QED
    BY <2>1, <2>2, <2>3 DEF Delete, Rename, DeleteVersion, SendReload
<1> QED
  BY <1>3, <1>4, <1>5, Bystander, TabStays

-----------------------------------------------------------------------------
(* The edits and the autosave *)

LEMMA AnEdit ==
  ASSUME SaveInv, Edit
  PROVE  SaveInv'
<1>1. Shapes /\ IsTab(ed) /\ "save" \in Commands
  BY DEF SaveInv, Shapes, Commands
<1>2. CallsKeepShape /\ SameCall("save")
  BY <1>1, NobodyMoves DEF Edit
<1>3. ed' = [ed EXCEPT !.screen = bodies + 1, !.gen = ed.gen + 1, !.timers = {"save", "version"},
                       !.show = IF ed.show = "saving" THEN ed.show ELSE "dirty"]
  BY <1>1 DEF Edit, IsTab
<1>4. ed.gen \in Nat /\ ed.saved \in Nat /\ ed.show \in {"saved", "dirty", "saving", "error"}
  BY <1>1 DEF IsTab
<1>5. /\ IsTab(ed') /\ ed'.screen = bodies + 1 /\ ed'.gen = ed.gen + 1 /\ ed'.saved = ed.saved
      /\ ed'.show # "saved" /\ (ed.show = "saving" => ed'.show = "saving")
  <2>1. PICK show, gen : /\ show = (IF ed.show = "saving" THEN ed.show ELSE "dirty") /\ gen = ed.gen + 1
                         /\ ed' = [ed EXCEPT !.screen = bodies + 1, !.gen = gen, !.timers = {"save", "version"}, !.show = show]
    BY <1>3
  <2>2. show \in {"saving", "dirty"} /\ (ed.show = "saving" => show = "saving") /\ gen \in Nat
    BY <1>4, <2>1
  <2>3. IsTab(ed') /\ ed'.screen = bodies + 1 /\ ed'.gen = gen /\ ed'.saved = ed.saved /\ ed'.show = show
    BY <1>1, <2>1, <2>2 DEF IsTab
  <2> QED
    BY <2>1, <2>2, <2>3
<1>6. typed' = bodies + 1 /\ body' = body /\ wrote' = wrote
  BY DEF Edit
<1>7. call["save"].gen \in Nat
  BY <1>1 DEF Shapes, IsCall
<1>8. ed.saved <= ed.gen /\ ed'.saved <= ed'.gen
  BY <1>4, <1>5 DEF SaveInv
<1>9. SaveIsSound'
  <2> SUFFICES ASSUME call'["save"].at # "none"
               PROVE  /\ ed'.show = "saving"
                      /\ ed'.saved <= call'["save"].gen /\ call'["save"].gen <= ed'.gen
                      /\ call'["save"].gen # ed'.gen
                      /\ call'["save"].at \in {"file", "answer"} =>
                           wrote' # "none" /\ (wrote' = "save" => body' \in {call'["save"].new, Gone})
    BY DEF SaveIsSound
  <2>1. /\ call["save"].at # "none" /\ ed.show = "saving"
        /\ ed.saved <= call["save"].gen /\ call["save"].gen <= ed.gen
        /\ call["save"].at \in {"file", "answer"} =>
                           wrote # "none" /\ (wrote = "save" => body \in {call["save"].new, Gone})
    BY <1>2 DEF SaveInv, SaveIsSound, SameCall
  <2>2. call["save"].gen <= ed.gen + 1 /\ call["save"].gen # ed.gen + 1
    BY <1>4, <1>7, <2>1
  <2> QED
    BY <1>2, <1>5, <1>6, <2>1, <2>2 DEF SameCall
<1> QED
  BY <1>2, <1>5, <1>6, <1>8, <1>9 DEF SaveInv, Shapes, CallsKeepShape, ScreenIsTyped, SavedMeansStored

(* The head of the queue is done.                                           *)
LEMMA DoneIdles ==
  ASSUME Shapes, Done
  PROVE  CallsKeepShape /\ call'["save"].at = "none"
<1>1. \A c \in Commands : IsCall(call[c])
  BY DEF Shapes
<1>2. call' = [c \in Commands |->
        IF c = "save" THEN NoCall
        ELSE IF c = "restore" /\ Head(queue).settles THEN [call[c] EXCEPT !.at = "read", !.calm = TRUE]
        ELSE call[c]]
  BY DEF Done
<1>3. \A c \in Commands : IsCall([call[c] EXCEPT !.at = "read", !.calm = TRUE])
  BY <1>1 DEF IsCall
<1>4. ASSUME NEW c \in Commands PROVE IsCall(call'[c])
  BY <1>1, <1>2, <1>3, NoCallFields
<1> QED
  BY <1>2, <1>4, NoCallFields DEF CallsKeepShape, Commands

LEMMA ARunStarts ==
  ASSUME SaveInv, StartRun
  PROVE  SaveInv'
<1>1. Shapes /\ IsTab(ed) /\ IsCall(call["save"]) /\ "save" \in Commands
  BY DEF SaveInv, Shapes, Commands
<1>2. body' = body /\ typed' = typed /\ wrote' = wrote /\ call["save"].at = "none"
  BY DEF StartRun
<1>3. CASE Done /\ ed' = ed
  <2>1. CallsKeepShape /\ call'["save"].at = "none"
    BY <1>1, <1>3, DoneIdles
  <2> QED
    BY <1>2, <1>3, <2>1 DEF SaveInv, Shapes, CallsKeepShape, ScreenIsTyped, SaveIsSound, SavedMeansStored
<1>4. ASSUME NEW take,
             ed' = [ed EXCEPT !.show = "saving"],
             call' = [call EXCEPT !["save"] = [call["save"] EXCEPT !.at = "check", !.new = ed.screen, !.take = take, !.gen = ed.gen]]
      PROVE  SaveInv'
  <2>1. PICK next : next = [call["save"] EXCEPT !.at = "check", !.new = ed.screen, !.take = take, !.gen = ed.gen]
    OBVIOUS
  <2>2. IsCall(next) /\ next.at = "check" /\ next.new = ed.screen /\ next.gen = ed.gen
    BY <1>1, <2>1 DEF IsCall, IsTab
  <2>3. CallsKeepShape /\ call'["save"] = next
    BY <1>1, <1>4, <2>1, <2>2, OneMoves
  <2>4. /\ IsTab(ed') /\ ed'.show = "saving" /\ ed'.gen = ed.gen /\ ed'.saved = ed.saved
        /\ ed'.screen = ed.screen /\ ed.gen \in Nat
    BY <1>1, <1>4 DEF IsTab
  <2>5. SaveIsSound'
    BY <1>2, <2>2, <2>3, <2>4 DEF SaveInv, SaveIsSound, ScreenIsTyped
  <2> QED
    BY <1>2, <2>3, <2>4, <2>5 DEF SaveInv, Shapes, CallsKeepShape, ScreenIsTyped, SavedMeansStored
<1> QED
  BY <1>1, <1>3, <1>4 DEF StartRun, Shapes

LEMMA ARunEnds ==
  ASSUME SaveInv, SaveEnds \/ SaveFails
  PROVE  SaveInv'
<1>1. Shapes /\ IsTab(ed) /\ IsCall(call["save"]) /\ Done
  BY DEF SaveInv, Shapes, Commands, SaveEnds, SaveFails
<1>2. CallsKeepShape /\ call'["save"].at = "none"
  BY <1>1, DoneIdles
<1>3. body' = body /\ typed' = typed /\ wrote' = wrote
  BY DEF SaveEnds, SaveFails
<1>4. ed.gen \in Nat /\ ed.saved \in Nat /\ call["save"].gen \in Nat
  BY <1>1 DEF IsTab, IsCall
<1>5. CASE SaveFails
  <2>1. IsTab(ed') /\ ed'.show = "error" /\ ed'.gen = ed.gen /\ ed'.saved = ed.saved /\ ed'.screen = ed.screen
    BY <1>1, <1>5 DEF SaveFails, IsTab
  <2> QED
    BY <1>2, <1>3, <2>1 DEF SaveInv, Shapes, CallsKeepShape, ScreenIsTyped, SaveIsSound, SavedMeansStored
<1>6. CASE SaveEnds
  <2>1. /\ call["save"].at = "answer" /\ ed.saved <= call["save"].gen /\ call["save"].gen <= ed.gen
        /\ call["save"].gen = ed.gen => typed \in {Nothing, call["save"].new}
        /\ wrote # "none" /\ (wrote = "save" => body \in {call["save"].new, Gone})
    BY <1>6 DEF SaveInv, SaveIsSound, SaveEnds
  <2>2. Max({ed.saved, call["save"].gen}) = call["save"].gen
    BY <1>4, <2>1, MaxOfTwo
  <2>3. PICK versioned, show :
          /\ ed' = [ed EXCEPT !.saved = call["save"].gen, !.versioned = versioned, !.show = show, !.stamp = call["save"].stamp]
          /\ show = IF ed.gen > call["save"].gen THEN "dirty" ELSE "saved"
    BY <1>6, <2>2 DEF SaveEnds
  <2>4. show \in {"dirty", "saved"} /\ (show = "saved" => call["save"].gen = ed.gen)
    BY <1>4, <2>1, <2>3
  <2>5. IsTab(ed') /\ ed'.gen = ed.gen /\ ed'.saved = call["save"].gen /\ ed'.screen = ed.screen /\ ed'.show = show
    BY <1>1, <1>4, <2>3, <2>4 DEF IsTab
  <2>6. SavedMeansStored'
    BY <1>3, <2>1, <2>4, <2>5 DEF SavedMeansStored
  <2> QED
    BY <1>2, <1>3, <2>1, <2>5, <2>6 DEF SaveInv, Shapes, CallsKeepShape, ScreenIsTyped, SaveIsSound
<1> QED
  BY <1>5, <1>6

(* The save, one store call after another: the tab shows that it runs.      *)
LEMMA TheSaveRuns ==
  ASSUME SaveInv, Backend("save") \/ StoreFails("save")
  PROVE  SaveInv'
<1>1. Shapes /\ IsTab(ed) /\ IsCall(call["save"]) /\ "save" \in Commands
  BY DEF SaveInv, Shapes, Commands
<1>2. ed' = ed /\ typed' = typed /\ call["save"].at # "none"
  BY DEF Backend, Check, KeepOld, Write, FileNew, StoreFails
<1>3. PICK now : now = call["save"]
  OBVIOUS
<1>4. /\ ed.show = "saving" /\ ed.saved <= now.gen /\ now.gen <= ed.gen
      /\ now.gen = ed.gen => typed \in {Nothing, now.new}
      /\ now.at \in {"file", "answer"} => wrote # "none" /\ (wrote = "save" => body \in {now.new, Gone})
  BY <1>2, <1>3 DEF SaveInv, SaveIsSound
<1>5. ASSUME NEW next, IsCall(next), next.gen = now.gen, next.new = now.new,
             call' = [call EXCEPT !["save"] = next] \/ call' = Disturbing("save", next),
             next.at \in {"file", "answer"} => wrote' # "none" /\ (wrote' = "save" => body' \in {next.new, Gone})
      PROVE  SaveInv'
  <2>1. CallsKeepShape /\ call'["save"] = next
    BY <1>1, <1>5, OneMoves
  <2>2. SaveIsSound'
    BY <1>2, <1>4, <1>5, <2>1 DEF SaveIsSound
  <2> QED
    BY <1>2, <1>4, <2>1, <2>2 DEF SaveInv, Shapes, CallsKeepShape, ScreenIsTyped, SavedMeansStored
<1>6. PICK failed : failed = [now EXCEPT !.at = "failed"]
  OBVIOUS
<1>7. IsCall(failed) /\ failed.at = "failed" /\ failed.gen = now.gen /\ failed.new = now.new /\ Failed("save") = failed
  BY <1>1, <1>3, <1>6 DEF IsCall, Failed
<1>8. CASE call' = [call EXCEPT !["save"] = Failed("save")]
  BY <1>5, <1>7, <1>8
<1>9. CASE Check("save")
  <2>1. PICK next : next = [now EXCEPT !.at = "write"]
    OBVIOUS
  <2>2. IsCall(next) /\ next.at = "write" /\ next.gen = now.gen /\ next.new = now.new
    BY <1>1, <1>3, <2>1 DEF IsCall
  <2>3. call' = [call EXCEPT !["save"] = Failed("save")] \/ call' = [call EXCEPT !["save"] = next]
    BY <1>1, <1>3, <1>9, <2>1 DEF Check, Shapes
  <2> QED
    BY <1>5, <1>8, <2>2, <2>3
<1>10. CASE KeepOld("save")
  <2>1. PICK next : next = [now EXCEPT !.at = "write"]
    OBVIOUS
  <2>2. IsCall(next) /\ next.at = "write" /\ next.gen = now.gen /\ next.new = now.new
    BY <1>1, <1>3, <2>1 DEF IsCall
  <2>3. call' = [call EXCEPT !["save"] = Failed("save")] \/ call' = Disturbing("save", next)
    BY <1>3, <1>10, <2>1 DEF KeepOld
  <2> QED
    BY <1>5, <1>8, <2>2, <2>3
<1>11. CASE Write("save")
  <2>1. PICK next : /\ next = [now EXCEPT !.at = next.at, !.stamp = stamp + 1] /\ next.at \in {"answer", "file"}
                    /\ call' = Disturbing("save", next)
    <3>1. \A at \in {"answer", "file"} : [now EXCEPT !.at = at, !.stamp = stamp + 1].at = at
      BY <1>1, <1>3 DEF IsCall
    <3>2. \E at \in {"answer", "file"} : call' = Disturbing("save", [now EXCEPT !.at = at, !.stamp = stamp + 1])
      BY <1>3, <1>11 DEF Write
    <3> QED
      BY <3>1, <3>2
  <2>2. IsCall(next) /\ next.gen = now.gen /\ next.new = now.new
    BY <1>1, <1>3, <2>1 DEF IsCall
  <2>3. wrote' = "save" /\ body' = now.new
    BY <1>3, <1>11 DEF Write
  <2> QED
    BY <1>5, <2>1, <2>2, <2>3
<1>12. CASE FileNew("save")
  <2>1. PICK next : next = [now EXCEPT !.at = "answer"]
    OBVIOUS
  <2>2. IsCall(next) /\ next.at = "answer" /\ next.gen = now.gen /\ next.new = now.new
    BY <1>1, <1>3, <2>1 DEF IsCall
  <2>3. call' = [call EXCEPT !["save"] = Failed("save")] \/ call' = Disturbing("save", next)
    BY <1>3, <1>12, <2>1 DEF FileNew
  <2>4. now.at = "file" /\ body' = body /\ wrote' = wrote
    BY <1>3, <1>12 DEF FileNew
  <2> QED
    BY <1>4, <1>5, <1>8, <2>2, <2>3, <2>4
<1> QED
  BY <1>8, <1>9, <1>10, <1>11, <1>12 DEF Backend, StoreFails

-----------------------------------------------------------------------------
LEMMA TheInvariantStarts == Init => SaveInv
<1> SUFFICES ASSUME Init PROVE SaveInv
  OBVIOUS
<1>1. IsTab(ed) /\ ed.saved = 0 /\ ed.gen = 0 /\ ed.screen = 0
  BY DEF Init, NewTab, IsTab
<1>2. call = [c \in Commands |-> NoCall] /\ body = 0 /\ typed = 0
  BY DEF Init
<1>3. Shapes
  BY <1>1, <1>2, NoCallFields DEF Shapes
<1>4. SaveIsSound
  BY <1>2, NoCallFields DEF SaveIsSound, Commands
<1> QED
  BY <1>1, <1>2, <1>3, <1>4 DEF SaveInv, ScreenIsTyped, SavedMeansStored

LEMMA TheInvariantStays == SaveInv /\ [Next]_vars => SaveInv'
<1> SUFFICES ASSUME SaveInv, [Next]_vars PROVE SaveInv'
  OBVIOUS
<1>1. CASE UNCHANGED vars
  BY <1>1 DEF vars, SaveInv, Shapes, ScreenIsTyped, SaveIsSound, SavedMeansStored
<1>2. CASE Next
  <2>1. CASE \E c \in Commands : Backend(c) \/ StoreFails(c)
    BY <2>1, OtherCommands, TheSaveRuns
  <2> QED
    BY <1>2, <2>1, AnEdit, ARunStarts, ARunEnds, OthersInTheTab, OthersElsewhere DEF Next, Autosave
<1> QED
  BY <1>1, <1>2

(* SavedMeansStored: whatever is edited, saved, restored, rewritten, renamed, *)
(* deleted or reloaded in whatever order, and whatever fails, a tab that says *)
(* "Saved" shows what its save put into the store.                            *)
THEOREM SavedIsStored == Spec => []SavedMeansStored
<1>1. SaveInv => SavedMeansStored
  BY DEF SaveInv
<1> QED
  BY <1>1, TheInvariantStarts, TheInvariantStays, PTL DEF Spec

(* GoneStaysGone: once the document is deleted and no command is past its     *)
(* look at the document, no step writes it again.                             *)
THEOREM TheDeletedStaysDeleted == Spec => GoneStaysGone
<1> DEFINE NoneWrites == \A c \in Commands : call[c].at # "write"
           Dead == body = Gone /\ NoneWrites
<1>1. ASSUME Dead, Shapes, [Next]_vars
      PROVE  Dead'
  <2>1. /\ body = Gone /\ (\A c \in Commands : call[c].at # "write")
        /\ call = [c \in Commands |-> call[c]] /\ \A c \in Commands : IsCall(call[c])
    BY <1>1 DEF Shapes
  <2> SUFFICES body' = Gone /\ \A c \in Commands : call'[c].at # "write"
    OBVIOUS
  <2> HIDE DEF Dead, NoneWrites
  <2>3. \A c \in Commands : Failed(c).at # "write"
    BY <2>1, NoCallFields DEF Failed, IsCall
  <2>4. ASSUME NEW c \in Commands, NEW next, next.at # "write",
               call' = [call EXCEPT ![c] = next] \/ call' = Disturbing(c, next)
        PROVE  \A o \in Commands : call'[o].at # "write"
    <3>1. CASE call' = [call EXCEPT ![c] = next]
      BY <2>1, <2>4, <3>1
    <3>2. CASE call' = Disturbing(c, next)
      <4>1. ASSUME NEW o \in Commands \ {c} PROVE call'[o].at # "write"
        <5>1. call'[o] = [call[o] EXCEPT !.calm = FALSE]
          BY <3>2, <4>1 DEF Disturbing
        <5> QED
          BY <2>1, <5>1, CallCalm
      <4>2. call'[c] = next
        BY <3>2 DEF Disturbing
      <4> QED
        BY <2>4, <4>1, <4>2
    <3> QED
      BY <2>4, <3>1, <3>2
  <2>5. ASSUME call' = DisturbingAll \/ UNCHANGED call
        PROVE  \A o \in Commands : call'[o].at # "write"
    BY <1>1, <2>1, <2>5, NobodyMoves DEF SameCall
  <2>6. ASSUME Done
        PROVE  \A o \in Commands : call'[o].at # "write"
    <3>1. ASSUME NEW c \in Commands PROVE call'[c].at # "write"
      <4>1. call'[c] \in {NoCall, [call[c] EXCEPT !.at = "read", !.calm = TRUE], call[c]}
        BY <2>6 DEF Done
      <4>2. [call[c] EXCEPT !.at = "read", !.calm = TRUE].at = "read"
        BY <2>1 DEF IsCall
      <4> QED
        BY <2>1, <4>1, <4>2, NoCallFields
    <3> QED
      BY <3>1
  <2>7. \A c \in Commands :
          /\ [call[c] EXCEPT !.at = "check", !.new = ed.screen].at # "write"
          /\ [call[c] EXCEPT !.at = "settling"].at # "write"
          /\ [call[c] EXCEPT !.at = "keep"].at # "write"
          /\ \A v : [call[c] EXCEPT !.at = "check", !.new = v].at # "write"
          /\ \A v : [call[c] EXCEPT !.at = "check", !.new = ed.screen, !.take = v, !.gen = ed.gen].at # "write"
    BY <2>1 DEF IsCall
  <2>8. {"save", "checkpoint", "restore", "rewrite"} = Commands
    BY DEF Commands
  <2>9. CASE \E c \in Commands : Backend(c) \/ StoreFails(c)
    <3>1. PICK c \in Commands : Backend(c) \/ StoreFails(c)
      BY <2>9
    <3>2. body' = Gone
      BY <2>1, <3>1 DEF Backend, Check, ReadVersion, KeepOld, Write, FileNew, StoreFails
    <3>3. CASE ReadVersion
      <4>1. PICK next : next.at # "write" /\ call' = [call EXCEPT !["restore"] = next]
        BY <2>3, <2>7, <2>8, <3>3 DEF ReadVersion
      <4>2. "restore" \in Commands
        BY <2>8
      <4> QED
        BY <2>4, <3>2, <4>1, <4>2
    <3>4. CASE Check(c) \/ KeepOld(c) \/ Write(c) \/ FileNew(c) \/ StoreFails(c)
      <4>1. call' = [call EXCEPT ![c] = Failed(c)]
        BY <2>1, <3>4 DEF Check, KeepOld, Write, FileNew, StoreFails
      <4>2. PICK next : next = Failed(c)
        OBVIOUS
      <4>3. next.at # "write" /\ call' = [call EXCEPT ![c] = next]
        BY <2>3, <4>1, <4>2
      <4> QED
        BY <2>4, <3>2, <4>3
    <3> QED
      BY <3>1, <3>3, <3>4 DEF Backend
  <2>10. CASE Autosave
    <3>1. CASE StartRun
      <4>1. PICK v : Done \/ call' = [call EXCEPT !["save"] = [call["save"] EXCEPT !.at = "check", !.new = ed.screen, !.take = v, !.gen = ed.gen]]
        BY <2>1, <3>1 DEF StartRun
      <4>2. body' = Gone
        BY <2>1, <3>1 DEF StartRun
      <4>3. PICK next : next = [call["save"] EXCEPT !.at = "check", !.new = ed.screen, !.take = v, !.gen = ed.gen]
        OBVIOUS
      <4>4. next.at # "write" /\ "save" \in Commands
        BY <2>7, <2>8, <4>3
      <4>5. Done \/ call' = [call EXCEPT !["save"] = next]
        BY <4>1, <4>3
      <4> QED
        BY <2>4, <2>6, <4>2, <4>4, <4>5
    <3>2. CASE SaveEnds \/ SaveFails
      BY <2>1, <2>6, <3>2 DEF SaveEnds, SaveFails
    <3> QED
      BY <2>10, <3>1, <3>2 DEF Autosave
  <2>11. CASE Checkpoint
    BY <2>1, <2>4, <2>7, <2>8, <2>11 DEF Checkpoint
  <2>12. CASE Restore
    BY <2>1, <2>4, <2>7, <2>8, <2>12 DEF Restore
  <2>13. CASE RestoreEnds
    BY <2>1, <2>4, <2>8, <2>13, NoCallFields DEF RestoreEnds
  <2>14. CASE DecideRewrite
    <3>1. \E next : next.at # "write" /\ call' = [call EXCEPT !["rewrite"] = next]
      BY <2>7, <2>8, <2>14, NoCallFields DEF DecideRewrite
    <3> QED
      BY <2>1, <2>4, <2>8, <2>14, <3>1 DEF DecideRewrite
  <2>15. ~(ProposeRewrite \/ Delete \/ Rename)
    BY <2>1 DEF ProposeRewrite, Delete, Rename
  <2>16. CASE Edit \/ CloseTab \/ (\E t \in {"save", "version"} : TimerFires(t)) \/ OpenHistory
              \/ DeleteVersion \/ SendReload \/ TakeReload \/ UNCHANGED vars
    <3>1. body' = body /\ (call' = DisturbingAll \/ UNCHANGED call)
      BY <2>16 DEF Edit, CloseTab, TimerFires, OpenHistory, DeleteVersion, SendReload, TakeReload, vars
    <3> QED
      BY <2>1, <2>5, <3>1
  <2> QED
    BY <1>1, <2>9, <2>10, <2>11, <2>12, <2>13, <2>14, <2>15, <2>16 DEF Next
<1>2. Spec => []SaveInv
  BY TheInvariantStarts, TheInvariantStays, PTL DEF Spec
<1>3. SaveInv => Shapes
  BY DEF SaveInv
<1>4. Dead => body = Gone
  OBVIOUS
<1>5. (\A c \in Commands : call[c].at # "write") => NoneWrites
  OBVIOUS
<1>6. body = Gone /\ NoneWrites => Dead
  OBVIOUS
<1> HIDE DEF Dead, NoneWrites
<1> QED
  BY <1>1, <1>2, <1>3, <1>4, <1>5, <1>6, PTL DEF Spec, GoneStaysGone

-----------------------------------------------------------------------------
(* The ranks of a finite set of numbers are 1 up to its cardinality         *)

LEMMA RankOfOne ==
  ASSUME NEW S \in SUBSET Nat, IsFiniteSet(S), NEW i \in S
  PROVE  Rank(S, i) \in 1 .. Cardinality(S)
<1> DEFINE Below == {j \in S : j <= i}
<1>1. IsFiniteSet(Below) /\ Cardinality(Below) <= Cardinality(S)
  BY FS_Subset
<1>2. Cardinality(Below) \in Nat /\ Cardinality(S) \in Nat
  BY <1>1, FS_CardinalityType
<1>3. Cardinality(Below) # 0
  BY <1>1, FS_EmptySet
<1> QED
  BY <1>1, <1>2, <1>3 DEF Rank

LEMMA RanksGrow ==
  ASSUME NEW S \in SUBSET Nat, IsFiniteSet(S), NEW i \in S, NEW k \in S, i < k
  PROVE  Rank(S, i) < Rank(S, k)
<1> DEFINE A == {j \in S : j <= i}
           B == {j \in S : j <= k}
<1>1. IsFiniteSet(B) /\ A \in SUBSET B /\ k \in B /\ k \notin A
  <2>1. \A j \in S : j \in Nat
    OBVIOUS
  <2>2. \A j \in S : j <= i => j <= k
    BY <2>1
  <2>4. k <= k /\ ~(k <= i)
    BY <2>1
  <2>5. A \in SUBSET B /\ k \in B /\ k \notin A
    BY <2>2, <2>4
  <2>3. IsFiniteSet(B)
    BY FS_Subset
  <2> QED
    BY <2>3, <2>5
<1>2. Cardinality(A) <= Cardinality(B) /\ Cardinality(A) # Cardinality(B)
  BY <1>1, FS_Subset
<1>3. Cardinality(A) \in Nat /\ Cardinality(B) \in Nat
  BY <1>1, FS_Subset, FS_CardinalityType
<1> QED
  BY <1>2, <1>3 DEF Rank

LEMMA RanksDiffer ==
  ASSUME NEW S \in SUBSET Nat, IsFiniteSet(S), NEW i \in S, NEW k \in S, Rank(S, i) = Rank(S, k)
  PROVE  i = k
<1>1. Rank(S, i) \in Nat /\ Rank(S, k) \in Nat
  BY RankOfOne, FS_CardinalityType
<1>2. ~ (i < k) /\ ~ (k < i)
  BY <1>1, RanksGrow
<1> QED
  BY <1>2

LEMMA RanksAreTaken ==
  ASSUME NEW S \in SUBSET Nat, IsFiniteSet(S), NEW n \in 1 .. Cardinality(S)
  PROVE  \E i \in S : Rank(S, i) = n
<1> DEFINE N == 1 .. Cardinality(S)
           f == [i \in S |-> Rank(S, i)]
<1>1. Cardinality(S) \in Nat
  BY FS_CardinalityType
<1>2. IsFiniteSet(N) /\ Cardinality(N) = Cardinality(S)
  BY <1>1, FS_Interval
<1>3. f \in Injection(S, N)
  BY RankOfOne, RanksDiffer DEF Injection, IsInjective
<1>4. f \in Surjection(S, N)
  BY <1>2, <1>3, FS_Injection
<1> QED
  BY <1>4 DEF Surjection

(* Place is the inverse of Rank.                                            *)
LEMMA PlaceOfRank ==
  ASSUME NEW S \in SUBSET Nat, IsFiniteSet(S)
  PROVE  /\ \A n \in 1 .. Cardinality(S) : Place(S, n) \in S /\ Rank(S, Place(S, n)) = n
         /\ \A i \in S : Rank(S, i) \in 1 .. Cardinality(S) /\ Place(S, Rank(S, i)) = i
<1>1. ASSUME NEW n \in 1 .. Cardinality(S)
      PROVE  Place(S, n) \in S /\ Rank(S, Place(S, n)) = n
  BY RanksAreTaken DEF Place
<1>2. ASSUME NEW i \in S
      PROVE  Rank(S, i) \in 1 .. Cardinality(S) /\ Place(S, Rank(S, i)) = i
  <2>1. PICK n : n = Rank(S, i)
    OBVIOUS
  <2>2. n \in 1 .. Cardinality(S)
    BY <2>1, RankOfOne
  <2>3. Place(S, n) \in S /\ Rank(S, Place(S, n)) = Rank(S, i)
    BY <1>1, <2>1, <2>2
  <2>4. Place(S, n) = i
    <3>1. PICK k \in S : k = Place(S, n)
      BY <2>3
    <3>2. k = i
      BY <2>3, <3>1, RanksDiffer
    <3> QED
      BY <3>1, <3>2
  <2> QED
    BY <2>1, <2>2, <2>4
<1> QED
  BY <1>1, <1>2

(* How many come after, and how many before.                                *)
LEMMA RankFromTheEnd ==
  ASSUME NEW S \in SUBSET Nat, IsFiniteSet(S), NEW i \in S
  PROVE  Cardinality({j \in S : j >= i}) = Cardinality(S) - Rank(S, i) + 1
<1> DEFINE A == {j \in S : j <= i}
           B == {j \in S : j >= i}
<1>1. IsFiniteSet(A) /\ IsFiniteSet(B)
  BY FS_Subset
<1>2. A \cup B = S /\ A \cap B = {i}
  <2>1. \A j \in S : j \in Nat
    OBVIOUS
  <2>2. \A j \in S : (j \in A \/ j \in B) /\ (j \in A /\ j \in B <=> j = i)
    BY <2>1
  <2> QED
    BY <2>2
<1>3. Cardinality(S) = Cardinality(A) + Cardinality(B) - Cardinality({i})
  BY <1>1, <1>2, FS_Union
<1>4. Cardinality({i}) = 1
  BY FS_Singleton
<1>5. Cardinality(A) \in Nat /\ Cardinality(B) \in Nat /\ Cardinality(S) \in Nat
  BY <1>1, FS_CardinalityType
<1> QED
  BY <1>3, <1>4, <1>5 DEF Rank

-----------------------------------------------------------------------------
(* What is chosen, in its order *)

LEMMA ChosenFacts ==
  ASSUME NEW X, NEW vs \in Seq(X), NEW S \in SUBSET (DOMAIN vs)
  PROVE  /\ S \in SUBSET Nat /\ IsFiniteSet(S) /\ Cardinality(S) \in Nat
         /\ Chosen(vs, S) \in Seq(X) /\ Len(Chosen(vs, S)) = Cardinality(S)
         /\ DOMAIN Chosen(vs, S) = 1 .. Cardinality(S)
         /\ \A i \in S : Rank(S, i) \in DOMAIN Chosen(vs, S) /\ Chosen(vs, S)[Rank(S, i)] = vs[i]
<1>1. DOMAIN vs = 1 .. Len(vs) /\ Len(vs) \in Nat
  OBVIOUS
<1>2. S \in SUBSET Nat
  BY <1>1
<1>3. IsFiniteSet(DOMAIN vs)
  BY <1>1, FS_Interval
<1>4. IsFiniteSet(S) /\ Cardinality(S) \in Nat
  BY <1>3, FS_Subset, FS_CardinalityType
<1>5. \A n \in 1 .. Cardinality(S) : Place(S, n) \in S /\ vs[Place(S, n)] \in X
  BY <1>1, <1>2, <1>4, PlaceOfRank
<1>6. Chosen(vs, S) = [n \in 1 .. Cardinality(S) |-> vs[Place(S, n)]]
  BY DEF Chosen
<1>7. Chosen(vs, S) \in Seq(X) /\ Len(Chosen(vs, S)) = Cardinality(S)
  BY <1>4, <1>5, <1>6
<1>8. \A i \in S : Rank(S, i) \in 1 .. Cardinality(S) /\ Chosen(vs, S)[Rank(S, i)] = vs[i]
  BY <1>2, <1>4, <1>6, PlaceOfRank
<1> QED
  BY <1>2, <1>4, <1>6, <1>7, <1>8

LEMMA NewestIsChosen ==
  ASSUME NEW X, NEW vs \in Seq(X), NEW S \in SUBSET (DOMAIN vs), Len(vs) \in S
  PROVE  Chosen(vs, S) # <<>> /\ Last(Chosen(vs, S)) = Last(vs)
<1>1. /\ S \in SUBSET Nat /\ IsFiniteSet(S)
      /\ Chosen(vs, S) \in Seq(X) /\ Len(Chosen(vs, S)) = Cardinality(S)
      /\ Chosen(vs, S)[Rank(S, Len(vs))] = vs[Len(vs)]
  BY ChosenFacts
<1>2. {j \in S : j <= Len(vs)} = S
  OBVIOUS
<1>3. Rank(S, Len(vs)) = Cardinality(S) /\ Cardinality(S) \in 1 .. Cardinality(S)
  BY <1>1, <1>2, RankOfOne DEF Rank
<1> QED
  BY <1>1, <1>3 DEF Last

-----------------------------------------------------------------------------
(* Pruning *)

Unnamed(vs) == {j \in DOMAIN vs : ~vs[j].named}

Kept(vs) == {i \in DOMAIN vs : vs[i].named \/ Cardinality({j \in i .. Len(vs) : ~vs[j].named}) <= Keep}

LEMMA PruneKeeps ==
  ASSUME NEW vs \in Seq(Version)
  PROVE  /\ Prune(vs) = Chosen(vs, Kept(vs)) /\ Kept(vs) \in SUBSET (DOMAIN vs)
         /\ Prune(vs) \in Seq(Version)
         /\ \A i \in Kept(vs) : \E j \in DOMAIN Prune(vs) : Prune(vs)[j] = vs[i]
<1>1. Prune(vs) = Chosen(vs, Kept(vs)) /\ Kept(vs) \in SUBSET (DOMAIN vs)
  BY DEF Prune, Kept
<1> QED
  BY <1>1, ChosenFacts

(* The two newest versions stay, the newest in its place.                   *)
LEMMA PruneSparesTheNewest ==
  ASSUME NEW vs \in Seq(Version), vs # <<>>
  PROVE  /\ Prune(vs) # <<>> /\ Last(Prune(vs)) = Last(vs)
         /\ Len(vs) > 1 => \E j \in DOMAIN Prune(vs) : Prune(vs)[j] = vs[Len(vs) - 1]
<1>1. Len(vs) \in Nat /\ Len(vs) > 0 /\ DOMAIN vs = 1 .. Len(vs)
  OBVIOUS
<1>2. ASSUME NEW i \in DOMAIN vs, i >= Len(vs) - 1
      PROVE  i \in Kept(vs)
  <2> DEFINE After == {j \in i .. Len(vs) : ~vs[j].named}
  <2>1. IsFiniteSet(i .. Len(vs)) /\ Cardinality(i .. Len(vs)) <= 2
    BY <1>1, <1>2, FS_Interval
  <2>2. After \in SUBSET (i .. Len(vs))
    OBVIOUS
  <2>3. Cardinality(After) <= Cardinality(i .. Len(vs)) /\ IsFiniteSet(After)
    BY <2>1, <2>2, FS_Subset
  <2>4. Cardinality(After) \in Nat /\ Cardinality(i .. Len(vs)) \in Nat
    BY <2>1, <2>3, FS_CardinalityType
  <2>5. Cardinality(After) <= Keep
    BY <2>1, <2>3, <2>4, KeepIsEnough
  <2> QED
    BY <2>5 DEF Kept
<1>3. Len(vs) \in Kept(vs) /\ (Len(vs) > 1 => Len(vs) - 1 \in Kept(vs))
  BY <1>1, <1>2
<1> QED
  BY <1>3, PruneKeeps, NewestIsChosen

(* Who goes is unnamed and leaves Keep unnamed ones behind.                 *)
LEMMA PruneLeavesEnough ==
  ASSUME NEW vs \in Seq(Version), NEW i \in DOMAIN vs, i \notin Kept(vs)
  PROVE  ~vs[i].named /\ Cardinality(Unnamed(Prune(vs))) >= Keep
<1> DEFINE U == Unnamed(vs)
           K == Kept(vs)
           P == Prune(vs)
           N == Cardinality(U)
<1>1. Len(vs) \in Nat /\ DOMAIN vs = 1 .. Len(vs) /\ Keep \in Nat
  BY KeepIsEnough
<1>2. U \in SUBSET Nat /\ IsFiniteSet(U) /\ N \in Nat
  <2>1. U \in SUBSET (1 .. Len(vs)) /\ IsFiniteSet(1 .. Len(vs))
    BY <1>1, FS_Interval DEF Unnamed
  <2> QED
    BY <2>1, FS_Subset, FS_CardinalityType
<1>3. ASSUME NEW j \in U
      PROVE  /\ Rank(U, j) \in 1 .. N /\ Place(U, Rank(U, j)) = j
             /\ j \in K <=> N - Rank(U, j) + 1 <= Keep
  <2>1. {k \in j .. Len(vs) : ~vs[k].named} = {k \in U : k >= j}
    BY <1>1 DEF Unnamed
  <2>2. j \in K <=> Cardinality({k \in U : k >= j}) <= Keep
    BY <2>1 DEF Kept, Unnamed
  <2> QED
    BY <1>2, <2>2, RankFromTheEnd, PlaceOfRank
<1>4. i \in U
  BY DEF Kept, Unnamed
<1>5. N > Keep
  <2>1. N - Rank(U, i) + 1 > Keep /\ Rank(U, i) \in 1 .. N
    BY <1>1, <1>2, <1>3, <1>4
  <2> QED
    BY <1>1, <1>2, <2>1
<1> DEFINE Newest == N - Keep + 1 .. N
<1>6. IsFiniteSet(Newest) /\ Cardinality(Newest) = Keep
  <2>1. PICK low \in Int, high \in Int : low = N - Keep + 1 /\ high = N
    BY <1>1, <1>2
  <2>2. ~(low > high) /\ high - low + 1 = Keep
    BY <1>1, <1>2, <2>1, KeepIsEnough
  <2>3. IsFiniteSet(low .. high) /\ Cardinality(low .. high) = high - low + 1
    BY <2>2, FS_Interval
  <2> QED
    BY <2>1, <2>2, <2>3
<1>7. ASSUME NEW n \in Newest
      PROVE  Place(U, n) \in U /\ Rank(U, Place(U, n)) = n /\ Place(U, n) \in K
  <2>1. n \in 1 .. N
    BY <1>1, <1>2, <1>5
  <2>2. Place(U, n) \in U /\ Rank(U, Place(U, n)) = n
    BY <1>2, <2>1, PlaceOfRank
  <2> QED
    BY <1>1, <1>2, <1>3, <2>2
<1>8. /\ K \in SUBSET Nat /\ IsFiniteSet(K)
      /\ P \in Seq(Version) /\ DOMAIN P = 1 .. Cardinality(K)
      /\ \A k \in K : Rank(K, k) \in DOMAIN P /\ P[Rank(K, k)] = vs[k]
  BY PruneKeeps, ChosenFacts
<1>9. ASSUME NEW n \in Newest
      PROVE  Rank(K, Place(U, n)) \in Unnamed(P)
  BY <1>7, <1>8 DEF Unnamed
<1>10. ASSUME NEW m \in Newest, NEW n \in Newest, Rank(K, Place(U, m)) = Rank(K, Place(U, n))
       PROVE  m = n
  BY <1>7, <1>8, <1>10, RanksDiffer
<1> DEFINE f == [n \in Newest |-> Rank(K, Place(U, n))]
<1>11. f \in Injection(Newest, Unnamed(P))
  <2> HIDE DEF Newest, U, K, P
  <2> QED
    BY <1>9, <1>10 DEF Injection, IsInjective
<1>12. IsFiniteSet(Unnamed(P))
  <2>1. Unnamed(P) \in SUBSET (1 .. Cardinality(K)) /\ IsFiniteSet(1 .. Cardinality(K))
    BY <1>8, FS_Interval, FS_CardinalityType DEF Unnamed
  <2> QED
    BY <2>1, FS_Subset
<1>13. Cardinality(Newest) <= Cardinality(Unnamed(P))
  <2> HIDE DEF Newest, P, f
  <2> QED
    BY <1>11, <1>12, FS_Injection
<1>14. Cardinality(Unnamed(P)) >= Keep
  <2>1. Cardinality(Unnamed(P)) \in Nat
    BY <1>12, FS_CardinalityType
  <2> QED
    BY <1>1, <1>6, <1>13, <2>1
<1> QED
  BY <1>4, <1>14 DEF Unnamed

-----------------------------------------------------------------------------
(* The types of the parts *)

LEMMA NoCallType == NoCall \in Call
  BY DEF NoCall, Call

LEMMA FailedType ==
  ASSUME TypeOK, NEW c \in Commands
  PROVE  Failed(c) \in Call /\ Failed(c).at \in {"failed", "none"} /\ (c = "rewrite" => Failed(c).at = "none")
<1>1. PICK x \in Call : x = call[c]
  BY DEF TypeOK
<1>2. [x EXCEPT !.at = "failed"] \in Call /\ [x EXCEPT !.at = "failed"].at = "failed"
  BY DEF Call
<1>3. NoCall.at = "none"
  BY DEF NoCall
<1> QED
  BY <1>1, <1>2, <1>3, NoCallType DEF Failed

(* One command moves, or nobody; who watches may lose the calm.             *)
LEMMA OneCallMoves ==
  ASSUME TypeOK, NEW c \in Commands, NEW next \in Call,
         call' = [call EXCEPT ![c] = next] \/ call' = Disturbing(c, next)
  PROVE  /\ call' \in [Commands -> Call] /\ call'[c] = next
         /\ \A o \in Commands \ {c} :
              /\ call'[o].at = call[o].at /\ call'[o].old = call[o].old
              /\ call'[o].calm => call[o].calm /\ call' # Disturbing(c, next)
<1>1. call \in [Commands -> Call]
  BY DEF TypeOK
<1>2. \A x \in Call : [x EXCEPT !.calm = FALSE] \in Call
  BY DEF Call
<1>3. \A x \in Call : /\ [x EXCEPT !.calm = FALSE].at = x.at /\ [x EXCEPT !.calm = FALSE].old = x.old
                      /\ [x EXCEPT !.calm = FALSE].calm = FALSE
  BY DEF Call
<1>4. CASE call' = Disturbing(c, next)
  <2>1. call' = [o \in Commands |-> IF o = c THEN next ELSE [call[o] EXCEPT !.calm = FALSE]]
    BY <1>4 DEF Disturbing
  <2>2. \A o \in Commands \ {c} : call'[o] = [call[o] EXCEPT !.calm = FALSE] /\ call[o] \in Call
    BY <1>1, <2>1
  <2>3. call'[c] = next
    BY <2>1
  <2>4. \A o \in Commands : call'[o] \in Call
    BY <1>2, <2>2, <2>3
  <2> QED
    BY <1>3, <2>1, <2>2, <2>3, <2>4
<1>5. CASE call' = [call EXCEPT ![c] = next] /\ call' # Disturbing(c, next)
  BY <1>1, <1>5
<1> QED
  BY <1>4, <1>5

LEMMA NoCallMoves ==
  ASSUME TypeOK, call' = DisturbingAll \/ call' = call
  PROVE  /\ call' \in [Commands -> Call]
         /\ \A o \in Commands :
              /\ call'[o].at = call[o].at /\ call'[o].old = call[o].old
              /\ call'[o].calm => call[o].calm /\ call' # DisturbingAll
<1>1. call \in [Commands -> Call]
  BY DEF TypeOK
<1>2. \A x \in Call : [x EXCEPT !.calm = FALSE] \in Call
  BY DEF Call
<1>3. \A x \in Call : /\ [x EXCEPT !.calm = FALSE].at = x.at /\ [x EXCEPT !.calm = FALSE].old = x.old
                      /\ [x EXCEPT !.calm = FALSE].calm = FALSE
  BY DEF Call
<1>4. CASE call' = DisturbingAll
  <2>1. call' = [o \in Commands |-> [call[o] EXCEPT !.calm = FALSE]]
    BY <1>4 DEF DisturbingAll
  <2>2. \A o \in Commands : call'[o] = [call[o] EXCEPT !.calm = FALSE] /\ call[o] \in Call
    BY <1>1, <2>1
  <2> QED
    BY <1>2, <1>3, <2>1, <2>2
<1>5. CASE call' = call /\ call' # DisturbingAll
  BY <1>1, <1>5
<1> QED
  BY <1>4, <1>5

(* A snapshot: the body it files is the newest one, unless it was already;   *)
(* what was newest before is still there.                                   *)
LEMMA SnapshotFiles ==
  ASSUME NEW vs \in Seq(Version), NEW b \in Nat, NEW named \in BOOLEAN
  PROVE  /\ Snapshot(vs, b, named) \in Seq(Version)
         /\ Snapshot(vs, b, named) # <<>> /\ Last(Snapshot(vs, b, named)).body = b
         /\ vs # <<>> => \E j \in DOMAIN Snapshot(vs, b, named) : Snapshot(vs, b, named)[j] = Last(vs)
<1> DEFINE longer == Append(vs, [body |-> b, named |-> named])
<1>1. [body |-> b, named |-> named] \in Version
  BY DEF Version
<1>2. /\ longer \in Seq(Version) /\ longer # <<>> /\ Len(longer) = Len(vs) + 1 /\ Len(vs) \in Nat
      /\ longer[Len(vs) + 1] = [body |-> b, named |-> named]
      /\ \A i \in DOMAIN vs : longer[i] = vs[i]
  BY <1>1
<1>3. Last(longer) = [body |-> b, named |-> named] /\ Last(longer).body = b
  BY <1>2 DEF Last
<1>4. vs # <<>> => Len(vs) \in DOMAIN vs /\ Len(vs) \in DOMAIN longer /\ longer[Len(vs)] = Last(vs)
                   /\ Len(longer) > 1 /\ Len(longer) - 1 = Len(vs)
  <2> SUFFICES ASSUME vs # <<>>
               PROVE  Len(vs) \in DOMAIN vs /\ Len(vs) \in DOMAIN longer /\ longer[Len(vs)] = Last(vs)
                      /\ Len(longer) > 1 /\ Len(longer) - 1 = Len(vs)
    OBVIOUS
  <2>1. Len(vs) \in DOMAIN vs
    OBVIOUS
  <2> QED
    BY <1>2, <2>1 DEF Last
<1> HIDE DEF longer
<1>5. CASE Redundant(vs, b, named)
  <2>1. vs # <<>> /\ Last(vs).body = b /\ Snapshot(vs, b, named) = vs
    BY <1>5 DEF Redundant, Snapshot
  <2>2. Len(vs) \in DOMAIN vs /\ vs[Len(vs)] = Last(vs)
    BY <1>4, <2>1 DEF Last
  <2> QED
    BY <2>1, <2>2
<1>6. CASE ~Redundant(vs, b, named) /\ named
  <2>1. Snapshot(vs, b, named) = longer
    BY <1>6 DEF Snapshot, longer
  <2> QED
    BY <1>2, <1>3, <1>4, <2>1
<1>7. CASE ~Redundant(vs, b, named) /\ ~named
  <2>1. Snapshot(vs, b, named) = Prune(longer)
    BY <1>7 DEF Snapshot, longer
  <2>2. Prune(longer) \in Seq(Version) /\ Prune(longer) # <<>> /\ Last(Prune(longer)) = Last(longer)
    BY <1>2, PruneKeeps, PruneSparesTheNewest
  <2>3. vs # <<>> => \E j \in DOMAIN Prune(longer) : Prune(longer)[j] = Last(vs)
    BY <1>2, <1>4, PruneSparesTheNewest
  <2> QED
    BY <1>3, <2>1, <2>2, <2>3
<1> QED
  BY <1>5, <1>6, <1>7

(* What a snapshot drops is unnamed and leaves Keep unnamed ones behind.    *)
LEMMA SnapshotDropsOldOnes ==
  ASSUME NEW vs \in Seq(Version), NEW b \in Nat, NEW named \in BOOLEAN, NEW i \in DOMAIN vs
  PROVE  \/ \E j \in DOMAIN Snapshot(vs, b, named) : Snapshot(vs, b, named)[j] = vs[i]
         \/ ~vs[i].named /\ Cardinality(Unnamed(Snapshot(vs, b, named))) >= Keep
<1> DEFINE longer == Append(vs, [body |-> b, named |-> named])
<1>1. [body |-> b, named |-> named] \in Version
  BY DEF Version
<1>2. longer \in Seq(Version) /\ i \in DOMAIN longer /\ longer[i] = vs[i]
  BY <1>1
<1> HIDE DEF longer
<1>3. Snapshot(vs, b, named) \in {vs, longer, Prune(longer)}
  BY DEF Snapshot, longer
<1>4. CASE Snapshot(vs, b, named) \in {vs, longer}
  BY <1>2, <1>4
<1>5. CASE Snapshot(vs, b, named) = Prune(longer) /\ i \in Kept(longer)
  BY <1>2, <1>5, PruneKeeps
<1>6. CASE Snapshot(vs, b, named) = Prune(longer) /\ i \notin Kept(longer)
  BY <1>2, <1>6, PruneLeavesEnough
<1> QED
  BY <1>3, <1>4, <1>5, <1>6

Wait == [version : BOOLEAN, settles : BOOLEAN]

Replacing == {"restore", "rewrite"}

(* What ReplacedIsFiled says of one command.                                *)
FiledFor(c) ==
  call[c].calm =>
    /\ call[c].at \in {"asking", "keep", "write"} => body = call[c].old
    /\ call[c].at \in {"write", "file"} => versions # <<>> /\ Last(versions).body = call[c].old

LEMMA CommandIsOne == Commands = {"save", "checkpoint", "restore", "rewrite"} /\ Replacing \subseteq Commands
  BY DEF Commands, Replacing

(* Who does not move keeps what was filed for it: nobody touched the        *)
(* document, or the calm is over.                                           *)
LEMMA OthersKeepTheirs ==
  ASSUME HistoryInv, NEW o \in Replacing,
         call'[o].at = call[o].at, call'[o].old = call[o].old, call'[o].calm => call[o].calm,
         (body' = body /\ versions' = versions) \/ ~call'[o].calm
  PROVE  FiledFor(o)'
  BY DEF HistoryInv, ReplacedIsFiled, FiledFor, Replacing

(* A command that goes to a place where nothing is promised of it.          *)
Unbound == {"none", "settling", "read", "check", "answer", "failed"}

LEMMA UnboundIsFine ==
  ASSUME NEW o \in Replacing, call'[o].at \in Unbound
  PROVE  FiledFor(o)'
  BY DEF FiledFor, Unbound

(* The parts of the state that a command leaves alone.                      *)
TabAndQueueStay == UNCHANGED <<ed, queue, reload, typed>>

(* A step of command c: what has to be shown of it.                         *)
LEMMA CommandStep ==
  ASSUME HistoryInv, NEW c \in Commands, NEW next \in Call,
         call' = [call EXCEPT ![c] = next] \/ call' = Disturbing(c, next),
         TabAndQueueStay,
         body' \in Nat \cup {Gone}, stamp' \in Nat, bodies' \in Nat, ops' \in 0 .. MaxOps,
         versions' \in Seq(Version), wrote' \in Commands \cup {"none"},
         (body' = body /\ versions' = versions) \/ call' = Disturbing(c, next),
         c = "save" => call[c].at # "none",
         c = "rewrite" => next.at \in {"none", "asking", "keep", "write"},
         c \in Replacing => FiledFor(c)'
  PROVE  HistoryInv'
<1>1. /\ call' \in [Commands -> Call] /\ call'[c] = next
      /\ \A o \in Commands \ {c} :
              /\ call'[o].at = call[o].at /\ call'[o].old = call[o].old
              /\ call'[o].calm => call[o].calm /\ call' # Disturbing(c, next)
  BY OneCallMoves DEF HistoryInv
<1>2. TypeOK'
  BY <1>1 DEF HistoryInv, TypeOK, TabAndQueueStay
<1>3. "save" \in Commands /\ "rewrite" \in Commands /\ Replacing \subseteq Commands
  BY CommandIsOne
<1>4. SaveIsQueued'
  BY <1>1, <1>3 DEF HistoryInv, SaveIsQueued, TabAndQueueStay
<1>5. RewriteAsksFirst'
  BY <1>1, <1>3 DEF HistoryInv, RewriteAsksFirst
<1>6. ASSUME NEW o \in Replacing PROVE FiledFor(o)'
  <2>1. CASE o = c
    BY <2>1
  <2>2. CASE o # c
    BY <1>1, <1>3, <2>2, OthersKeepTheirs
  <2> QED
    BY <2>1, <2>2
<1>7. ReplacedIsFiled'
  BY <1>6 DEF ReplacedIsFiled, FiledFor, Replacing
<1> QED
  BY <1>2, <1>4, <1>5, <1>7 DEF HistoryInv

LEMMA TypedParts ==
  ASSUME HistoryInv
  PROVE  /\ body \in Nat \cup {Gone} /\ stamp \in Nat /\ bodies \in Nat /\ ops \in 0 .. MaxOps
         /\ versions \in Seq(Version) /\ wrote \in Commands \cup {"none"}
         /\ call \in [Commands -> Call] /\ \A c \in Commands : call[c] \in Call
  BY DEF HistoryInv, TypeOK

(* A command that failed.                                                   *)
LEMMA CommandFails ==
  ASSUME HistoryInv, NEW c \in Commands, call' = [call EXCEPT ![c] = Failed(c)], call[c].at # "none",
         TabAndQueueStay, UNCHANGED <<body, stamp, versions, bodies, wrote>>, ops' \in 0 .. MaxOps
  PROVE  HistoryInv'
<1>1. Failed(c) \in Call /\ Failed(c).at \in {"failed", "none"} /\ (c = "rewrite" => Failed(c).at = "none")
  BY FailedType DEF HistoryInv
<1>2. call'[c] = Failed(c)
  BY TypedParts
<1>3. c \in Replacing => FiledFor(c)'
  BY <1>1, <1>2, UnboundIsFine DEF Unbound
<1> QED
  BY <1>1, <1>3, TypedParts, CommandStep

LEMMA CheckKeeps ==
  ASSUME HistoryInv, NEW c \in Commands, Check(c)
  PROVE  HistoryInv'
<1>1. /\ call[c].at = "check" /\ TabAndQueueStay /\ UNCHANGED <<body, stamp, versions, bodies, wrote, ops>>
      /\ c # "rewrite"
  BY DEF Check, TabAndQueueStay, HistoryInv, RewriteAsksFirst
<1>2. CASE body = Gone
  BY <1>1, <1>2, TypedParts, CommandFails DEF Check
<1>3. CASE body # Gone /\ c = "restore"
  <2>1. PICK x \in Call : x = call[c]
    BY TypedParts
  <2>2. PICK next : next = [x EXCEPT !.at = "keep", !.old = body]
    OBVIOUS
  <2>3. next \in Call /\ next.at = "keep" /\ next.old = body
    BY <1>3, <2>1, <2>2, TypedParts DEF Call
  <2>4. call' = [call EXCEPT ![c] = next]
    BY <1>3, <2>1, <2>2, TypedParts DEF Check
  <2>5. FiledFor(c)'
    BY <1>1, <2>3, <2>4, TypedParts DEF FiledFor
  <2> QED
    BY <1>1, <2>3, <2>4, <2>5, TypedParts, CommandStep
<1>4. CASE body # Gone /\ c # "restore"
  <2>1. PICK x \in Call : x = call[c]
    BY TypedParts
  <2>2. PICK next : next = [x EXCEPT !.at = "write"]
    OBVIOUS
  <2>3. next \in Call
    BY <2>1, <2>2 DEF Call
  <2>4. call' = [call EXCEPT ![c] = next]
    BY <1>4, <2>1, <2>2, TypedParts DEF Check
  <2>5. c \notin Replacing
    BY <1>1, <1>4 DEF Replacing
  <2> QED
    BY <1>1, <2>3, <2>4, <2>5, TypedParts, CommandStep
<1> QED
  BY <1>2, <1>3, <1>4

LEMMA ReadVersionKeeps ==
  ASSUME HistoryInv, ReadVersion
  PROVE  HistoryInv'
<1>1. /\ call["restore"].at = "read" /\ TabAndQueueStay /\ UNCHANGED <<body, stamp, versions, bodies, wrote, ops>>
      /\ "restore" \in Commands /\ "restore" \in Replacing
  BY DEF ReadVersion, TabAndQueueStay, Replacing, Commands
<1>2. CASE call' = [call EXCEPT !["restore"] = Failed("restore")]
  BY <1>1, <1>2, TypedParts, CommandFails
<1>3. CASE \E v \in Filed : call' = [call EXCEPT !["restore"] = [@ EXCEPT !.at = "check", !.new = v]]
  <2>1. PICK v \in Filed : call' = [call EXCEPT !["restore"] = [@ EXCEPT !.at = "check", !.new = v]]
    BY <1>3
  <2>2. v \in Nat
    <3>1. PICK i \in DOMAIN versions : v = versions[i].body
      BY DEF Filed
    <3>2. versions[i] \in Version
      BY TypedParts
    <3> QED
      BY <3>1, <3>2 DEF Version
  <2>3. PICK x \in Call : x = call["restore"]
    BY <1>1, TypedParts
  <2>4. PICK next : next = [x EXCEPT !.at = "check", !.new = v]
    OBVIOUS
  <2>5. next \in Call /\ next.at = "check"
    BY <2>2, <2>3, <2>4 DEF Call
  <2>6. call' = [call EXCEPT !["restore"] = next]
    BY <1>1, <2>1, <2>3, <2>4, TypedParts
  <2>7. FiledFor("restore")'
    BY <1>1, <2>5, <2>6, TypedParts, UnboundIsFine DEF Unbound
  <2> QED
    BY <1>1, <2>5, <2>6, <2>7, TypedParts, CommandStep
<1> QED
  BY <1>2, <1>3 DEF ReadVersion

LEMMA KeepOldKeeps ==
  ASSUME HistoryInv, NEW c \in Commands, KeepOld(c)
  PROVE  HistoryInv'
<1>1. call[c].at = "keep" /\ TabAndQueueStay /\ UNCHANGED <<body, stamp, bodies, wrote, ops>>
  BY DEF KeepOld, TabAndQueueStay
<1>2. CASE body = Gone
  BY <1>1, <1>2, TypedParts, CommandFails DEF KeepOld
<1>3. CASE body # Gone
  <2>1. PICK x \in Call : x = call[c]
    BY TypedParts
  <2>2. PICK next : next = [x EXCEPT !.at = "write"]
    OBVIOUS
  <2>3. next \in Call /\ next.at = "write" /\ next.old = x.old /\ next.calm = x.calm /\ x.old \in Nat
    BY <2>1, <2>2 DEF Call
  <2>4. call' = Disturbing(c, next) /\ versions' = Snapshot(versions, x.old, FALSE)
    BY <1>3, <2>1, <2>2, TypedParts DEF KeepOld
  <2>5. versions' \in Seq(Version) /\ versions' # <<>> /\ Last(versions').body = x.old
    BY <2>3, <2>4, TypedParts, SnapshotFiles
  <2>6. call'[c] = next
    BY <2>3, <2>4, OneCallMoves DEF HistoryInv
  <2>7. ASSUME c \in Replacing PROVE FiledFor(c)'
    <3>1. x.calm => body = x.old
      BY <1>1, <2>1, <2>7 DEF HistoryInv, ReplacedIsFiled, Replacing
    <3> QED
      BY <1>1, <2>3, <2>5, <2>6, <3>1 DEF FiledFor
  <2>8. /\ body' \in Nat \cup {Gone} /\ stamp' \in Nat /\ bodies' \in Nat /\ ops' \in 0 .. MaxOps
        /\ wrote' \in Commands \cup {"none"}
    BY <1>1, TypedParts
  <2> QED
    BY <1>1, <2>3, <2>4, <2>5, <2>7, <2>8, CommandStep
<1> QED
  BY <1>2, <1>3

LEMMA WriteKeeps ==
  ASSUME HistoryInv, NEW c \in Commands, Write(c)
  PROVE  HistoryInv'
<1>1. PICK x \in Call : x = call[c]
  BY TypedParts
<1>2. /\ x.at = "write" /\ TabAndQueueStay /\ UNCHANGED <<versions, bodies, ops>>
      /\ body' = x.new /\ stamp' = stamp + 1 /\ wrote' = c
  BY <1>1 DEF Write, TabAndQueueStay
<1>3. PICK next : /\ call' = Disturbing(c, next)
                  /\ next = IF c = "rewrite" THEN NoCall
                            ELSE [x EXCEPT !.at = IF c = "save" /\ ~x.take THEN "answer" ELSE "file", !.stamp = stamp + 1]
  BY <1>1 DEF Write
<1>4. /\ \A at \in {"answer", "file"} : [x EXCEPT !.at = at, !.stamp = stamp + 1] \in Call
      /\ LET filing == [x EXCEPT !.at = "file", !.stamp = stamp + 1]
         IN  filing.at = "file" /\ filing.old = x.old /\ filing.calm = x.calm
  <2>1. PICK now \in Nat : now = stamp + 1
    BY TypedParts
  <2>2. \A at \in {"answer", "file"} : [x EXCEPT !.at = at, !.stamp = now] \in Call
    BY DEF Call
  <2>3. LET filing == [x EXCEPT !.at = "file", !.stamp = now]
        IN  filing.at = "file" /\ filing.old = x.old /\ filing.calm = x.calm
    BY DEF Call
  <2> QED
    BY <2>1, <2>2, <2>3
<1>5. /\ next \in Call
      /\ c = "rewrite" => next.at = "none"
      /\ c = "restore" => next.at = "file" /\ next.old = x.old /\ next.calm = x.calm
  BY <1>3, <1>4, NoCallType DEF NoCall
<1>6. call'[c] = next
  BY <1>3, <1>5, OneCallMoves DEF HistoryInv
<1>7. ASSUME c \in Replacing PROVE FiledFor(c)'
  <2>1. x.calm => versions # <<>> /\ Last(versions).body = x.old
    BY <1>1, <1>2, <1>7 DEF HistoryInv, ReplacedIsFiled, Replacing
  <2>2. CASE c = "rewrite"
    BY <1>5, <1>6, <1>7, <2>2, UnboundIsFine DEF Unbound
  <2>3. CASE c = "restore"
    BY <1>2, <1>5, <1>6, <2>1, <2>3 DEF FiledFor
  <2> QED
    BY <1>7, <2>2, <2>3 DEF Replacing
<1>8. /\ body' \in Nat \cup {Gone} /\ stamp' \in Nat /\ bodies' \in Nat /\ ops' \in 0 .. MaxOps
      /\ versions' \in Seq(Version) /\ wrote' \in Commands \cup {"none"}
  BY <1>1, <1>2, TypedParts DEF Call
<1> QED
  BY <1>1, <1>2, <1>3, <1>5, <1>7, <1>8, CommandStep

LEMMA FileNewKeeps ==
  ASSUME HistoryInv, NEW c \in Commands, FileNew(c)
  PROVE  HistoryInv'
<1>1. call[c].at = "file" /\ TabAndQueueStay /\ UNCHANGED <<body, stamp, bodies, wrote, ops>> /\ c # "rewrite"
  BY DEF FileNew, TabAndQueueStay, HistoryInv, RewriteAsksFirst
<1>2. CASE body = Gone
  BY <1>1, <1>2, TypedParts, CommandFails DEF FileNew
<1>3. CASE body # Gone
  <2>1. PICK x \in Call : x = call[c]
    BY TypedParts
  <2>2. PICK next : /\ call' = Disturbing(c, next)
                    /\ next = IF c = "checkpoint" THEN NoCall ELSE [x EXCEPT !.at = "answer"]
    BY <1>3, <2>1 DEF FileNew
  <2>3. [x EXCEPT !.at = "answer"] \in Call /\ [x EXCEPT !.at = "answer"].at = "answer" /\ x.new \in Nat
    BY <2>1 DEF Call
  <2>4. next \in Call /\ next.at \in {"none", "answer"}
    BY <2>2, <2>3, NoCallType DEF NoCall
  <2>5. versions' = Snapshot(versions, x.new, c = "checkpoint")
    BY <1>3, <2>1 DEF FileNew
  <2>6. versions' \in Seq(Version)
    BY <2>3, <2>5, TypedParts, SnapshotFiles
  <2>7. call'[c] = next
    BY <2>2, <2>4, OneCallMoves DEF HistoryInv
  <2>8. c \in Replacing => FiledFor(c)'
    BY <2>4, <2>7, UnboundIsFine DEF Unbound
  <2>9. /\ body' \in Nat \cup {Gone} /\ stamp' \in Nat /\ bodies' \in Nat /\ ops' \in 0 .. MaxOps
        /\ wrote' \in Commands \cup {"none"}
    BY <1>1, TypedParts
  <2> QED
    BY <1>1, <2>2, <2>4, <2>6, <2>8, <2>9, CommandStep
<1> QED
  BY <1>2, <1>3

LEMMA OpCounts ==
  ASSUME HistoryInv, Op
  PROVE  ops' \in 0 .. MaxOps
  BY BoundsAreNumbers DEF HistoryInv, TypeOK, Op

LEMMA StoreFailsKeeps ==
  ASSUME HistoryInv, NEW c \in Commands, StoreFails(c)
  PROVE  HistoryInv'
<1>1. /\ call[c].at # "none" /\ TabAndQueueStay /\ UNCHANGED <<body, stamp, versions, bodies, wrote>> /\ Op
      /\ call' = [call EXCEPT ![c] = Failed(c)]
  BY DEF StoreFails, TabAndQueueStay
<1> QED
  BY <1>1, OpCounts, CommandFails

LEMMA MaxIsOne ==
  ASSUME NEW a \in Nat, NEW b \in Nat
  PROVE  Max({a, b}) \in {a, b}
<1> DEFINE Highest(x) == \A y \in {a, b} : x >= y
<1>1. \E x \in {a, b} : Highest(x)
  OBVIOUS
<1> QED
  BY <1>1 DEF Max

-----------------------------------------------------------------------------
(* Steps of the tab, the user and the assistant *)

(* What was filed for a command is carried over the step.                   *)
Carried(o) ==
  \/ call'[o].at \in Unbound
  \/ /\ call'[o].at = call[o].at /\ call'[o].old = call[o].old
     /\ call'[o].calm => call[o].calm /\ body' = body /\ versions' = versions

LEMMA OtherStep ==
  ASSUME HistoryInv, TypeOK', SaveIsQueued',
         call'["rewrite"].at \in {"none", "asking", "keep", "write"},
         \A o \in Replacing : Carried(o)
  PROVE  HistoryInv'
<1>1. ASSUME NEW o \in Replacing PROVE FiledFor(o)'
  BY UnboundIsFine, OthersKeepTheirs DEF Carried
<1>2. ReplacedIsFiled'
  BY <1>1 DEF ReplacedIsFiled, FiledFor, Replacing
<1> QED
  BY <1>2 DEF HistoryInv, RewriteAsksFirst

(* Nobody moves; if the document changes, nobody stays calm.                *)
LEMMA AllStay ==
  ASSUME HistoryInv, TypeOK', SaveIsQueued',
         call' = DisturbingAll \/ (call' = call /\ body' = body /\ versions' = versions)
  PROVE  HistoryInv'
<1>1. /\ \A o \in Commands :
              /\ call'[o].at = call[o].at /\ call'[o].old = call[o].old
              /\ call'[o].calm => call[o].calm /\ call' # DisturbingAll
  BY NoCallMoves DEF HistoryInv
<1>2. \A o \in Replacing : Carried(o)
  BY <1>1, CommandIsOne DEF Carried
<1>3. call'["rewrite"].at \in {"none", "asking", "keep", "write"}
  BY <1>1, CommandIsOne DEF HistoryInv, RewriteAsksFirst
<1> QED
  BY <1>2, <1>3, OtherStep

(* One command moves and leaves the document alone.                         *)
LEMMA OneStarts ==
  ASSUME HistoryInv, NEW c \in Commands, NEW next \in Call, call' = [call EXCEPT ![c] = next],
         TypeOK', SaveIsQueued', UNCHANGED <<body, versions>>,
         c \in Replacing => next.at \in Unbound,
         c = "rewrite" => next.at = "none"
  PROVE  HistoryInv'
<1>1. /\ call'[c] = next
      /\ \A o \in Commands \ {c} : call'[o] = call[o]
  BY TypedParts
<1>2. \A o \in Replacing : Carried(o)
  BY <1>1, CommandIsOne DEF Carried
<1>3. call'["rewrite"].at \in {"none", "asking", "keep", "write"}
  BY <1>1, CommandIsOne DEF HistoryInv, RewriteAsksFirst
<1> QED
  BY <1>2, <1>3, OtherStep

LEMMA TypedTab ==
  ASSUME HistoryInv
  PROVE  /\ ed \in Tab /\ ed.saved <= ed.gen /\ ed.versioned <= ed.gen
         /\ queue \in Seq(Wait) /\ reload \in [sent : BOOLEAN, body : Nat \cup {Gone}, stamp : Nat]
         /\ typed \in Nat \cup {Nothing}
  BY DEF HistoryInv, TypeOK, Wait

(* A run that is queued.                                                    *)
LEMMA QueueGrows ==
  ASSUME HistoryInv, NEW w \in Wait
  PROVE  Append(queue, w) \in Seq(Wait) /\ Append(queue, w) # <<>>
  BY TypedTab

LEMMA EditKeeps ==
  ASSUME HistoryInv, Edit
  PROVE  HistoryInv'
<1>1. ed.gen < MaxEdits /\ call' = DisturbingAll /\ typed' = bodies + 1 /\ bodies' = bodies + 1
      /\ UNCHANGED <<body, stamp, versions, queue, reload, ops, wrote>>
  BY DEF Edit
<1>2. bodies + 1 \in Nat
  BY TypedParts
<1>3. PICK show, gen :
        /\ ed' = [ed EXCEPT !.screen = bodies + 1, !.gen = gen, !.timers = {"save", "version"}, !.show = show]
        /\ gen = ed.gen + 1 /\ show = (IF ed.show = "saving" THEN ed.show ELSE "dirty")
  BY TypedTab DEF Edit, Tab
<1>4. gen \in 0 .. MaxEdits /\ gen > ed.gen /\ ed.gen \in Nat /\ ed.saved \in Nat /\ ed.versioned \in Nat
      /\ show \in {"saving", "dirty"}
  BY <1>1, <1>3, TypedTab, BoundsAreNumbers DEF Tab
<1>5. PICK screen \in Nat : screen = bodies + 1
  BY <1>2
<1>6. ed' \in Tab /\ ed'.gen = gen /\ ed'.saved = ed.saved /\ ed'.versioned = ed.versioned
  BY <1>3, <1>4, <1>5, TypedTab DEF Tab
<1>7. ed'.saved <= ed'.gen /\ ed'.versioned <= ed'.gen
  BY <1>4, <1>6, TypedTab
<1>8. call' \in [Commands -> Call] /\ call'["save"].at = call["save"].at
  BY <1>1, CommandIsOne, NoCallMoves DEF HistoryInv
<1>9. TypeOK'
  BY <1>1, <1>2, <1>6, <1>7, <1>8, TypedParts, TypedTab DEF TypeOK, Wait
<1>10. SaveIsQueued'
  BY <1>1, <1>8 DEF HistoryInv, SaveIsQueued
<1> QED
  BY <1>1, <1>9, <1>10, AllStay

(* A step that changes the tab and queues a run, and what it keeps.         *)
LEMMA TabType ==
  ASSUME HistoryInv, ed' \in Tab, ed'.gen = ed.gen, ed'.saved = ed.saved, ed'.versioned = ed.versioned,
         UNCHANGED <<body, stamp, versions, bodies, wrote>>, ops' \in 0 .. MaxOps,
         typed' \in Nat \cup {Nothing}, reload' \in [sent : BOOLEAN, body : Nat \cup {Gone}, stamp : Nat],
         call' \in [Commands -> Call],
         queue' = queue \/ \E w \in Wait : queue' = Append(queue, w),
         call'["save"].at = call["save"].at
  PROVE  TypeOK' /\ SaveIsQueued'
<1>1. ed'.saved <= ed'.gen /\ ed'.versioned <= ed'.gen
  BY TypedTab
<1>2. queue' \in Seq(Wait) /\ (queue # <<>> => queue' # <<>>)
  BY TypedTab, QueueGrows
<1>3. TypeOK'
  BY <1>1, <1>2, TypedParts DEF TypeOK, Wait
<1>4. SaveIsQueued'
  BY <1>2 DEF HistoryInv, SaveIsQueued
<1> QED
  BY <1>3, <1>4

LEMMA TimerFiresKeeps ==
  ASSUME HistoryInv, NEW t \in {"save", "version"}, TimerFires(t)
  PROVE  HistoryInv'
<1>1. /\ UNCHANGED <<body, stamp, versions, bodies, call, reload, ops, typed, wrote>>
      /\ queue' = Append(queue, [version |-> t = "version", settles |-> FALSE])
      /\ ed' = [ed EXCEPT !.timers = ed.timers \ {t}]
  BY TypedTab DEF TimerFires, Tab
<1>2. [version |-> t = "version", settles |-> FALSE] \in Wait
  BY DEF Wait
<1>3. ed' \in Tab /\ ed'.gen = ed.gen /\ ed'.saved = ed.saved /\ ed'.versioned = ed.versioned
  <2>1. PICK timers \in SUBSET {"save", "version"} : timers = ed.timers \ {t}
    BY TypedTab DEF Tab
  <2> QED
    BY <1>1, <2>1, TypedTab DEF Tab
<1>4. TypeOK' /\ SaveIsQueued'
  BY <1>1, <1>2, <1>3, TypedParts, TypedTab, TabType
<1> QED
  BY <1>1, <1>4, AllStay

(* A flush, by a tab that stays or closes.                                  *)
LEMMA FlushType ==
  ASSUME HistoryInv, NEW settles \in BOOLEAN, NEW tab, Flush(tab, settles), tab = ed \/ tab = [ed EXCEPT !.open = FALSE],
         UNCHANGED <<body, stamp, versions, bodies, wrote>>, ops' \in 0 .. MaxOps,
         typed' \in Nat \cup {Nothing}, reload' \in [sent : BOOLEAN, body : Nat \cup {Gone}, stamp : Nat],
         call' \in [Commands -> Call], call'["save"].at = call["save"].at
  PROVE  TypeOK' /\ SaveIsQueued'
<1>1. tab \in Tab /\ tab.gen = ed.gen /\ tab.saved = ed.saved /\ tab.versioned = ed.versioned
  BY TypedTab DEF Tab
<1>2. ed' = [tab EXCEPT !.timers = {}] /\ queue' = Append(queue, [version |-> TRUE, settles |-> settles])
  BY DEF Flush
<1>3. ed' \in Tab /\ ed'.gen = ed.gen /\ ed'.saved = ed.saved /\ ed'.versioned = ed.versioned
  BY <1>1, <1>2 DEF Tab
<1>4. [version |-> TRUE, settles |-> settles] \in Wait
  BY DEF Wait
<1> QED
  BY <1>2, <1>3, <1>4, TabType

LEMMA CloseTabKeeps ==
  ASSUME HistoryInv, CloseTab
  PROVE  HistoryInv'
<1>1. /\ UNCHANGED <<body, stamp, versions, bodies, reload, ops, typed, wrote>> /\ call' = DisturbingAll
      /\ Flush([ed EXCEPT !.open = FALSE], FALSE)
  BY DEF CloseTab
<1>2. call' \in [Commands -> Call] /\ call'["save"].at = call["save"].at
  BY <1>1, CommandIsOne, NoCallMoves DEF HistoryInv
<1>3. TypeOK' /\ SaveIsQueued'
  BY <1>1, <1>2, TypedParts, TypedTab, FlushType
<1> QED
  BY <1>1, <1>3, AllStay

LEMMA OpenHistoryKeeps ==
  ASSUME HistoryInv, OpenHistory
  PROVE  HistoryInv'
<1>1. /\ UNCHANGED <<body, stamp, versions, bodies, call, reload, typed, wrote>> /\ Op
      /\ Flush(ed, FALSE)
  BY DEF OpenHistory
<1>2. TypeOK' /\ SaveIsQueued'
  BY <1>1, OpCounts, TypedParts, TypedTab, FlushType
<1> QED
  BY <1>1, <1>2, AllStay

LEMMA RestoreKeeps ==
  ASSUME HistoryInv, Restore
  PROVE  HistoryInv'
<1>1. /\ UNCHANGED <<body, stamp, versions, bodies, reload, typed, wrote>> /\ Op /\ Flush(ed, TRUE)
      /\ "restore" \in Commands /\ "save" \in Commands
  BY CommandIsOne DEF Restore
<1>2. PICK x \in Call : x = call["restore"]
  BY <1>1, TypedParts
<1>3. PICK next : next = [x EXCEPT !.at = "settling"]
  OBVIOUS
<1>4. next \in Call /\ next.at = "settling"
  BY <1>3 DEF Call
<1>5. call' = [call EXCEPT !["restore"] = next]
  BY <1>1, <1>2, <1>3, TypedParts DEF Restore
<1>6. call' \in [Commands -> Call] /\ call'["save"].at = call["save"].at
  BY <1>1, <1>4, <1>5, TypedParts
<1>7. TypeOK' /\ SaveIsQueued'
  BY <1>1, <1>6, OpCounts, TypedParts, TypedTab, FlushType
<1> QED
  BY <1>1, <1>4, <1>5, <1>7, OneStarts DEF Unbound

LEMMA CheckpointKeeps ==
  ASSUME HistoryInv, Checkpoint
  PROVE  HistoryInv'
<1>1. /\ UNCHANGED <<body, stamp, versions, bodies, ed, queue, reload, typed, wrote>> /\ Op
      /\ "checkpoint" \in Commands \ Replacing /\ "save" \in Commands
  BY CommandIsOne DEF Checkpoint, Replacing
<1>2. PICK x \in Call : x = call["checkpoint"]
  BY <1>1, TypedParts
<1>3. PICK next : next = [x EXCEPT !.at = "check", !.new = ed.screen]
  OBVIOUS
<1>4. next \in Call
  BY <1>3, TypedTab DEF Call, Tab
<1>5. call' = [call EXCEPT !["checkpoint"] = next]
  BY <1>1, <1>2, <1>3, TypedParts DEF Checkpoint
<1>6. call' \in [Commands -> Call] /\ call'["save"].at = call["save"].at
  BY <1>1, <1>4, <1>5, TypedParts
<1>7. TypeOK' /\ SaveIsQueued'
  BY <1>1, <1>6, OpCounts, TypedParts, TypedTab, TabType
<1> QED
  BY <1>1, <1>4, <1>5, <1>7, OneStarts

LEMMA RestoreEndsKeeps ==
  ASSUME HistoryInv, RestoreEnds
  PROVE  HistoryInv'
<1>1. /\ UNCHANGED <<body, stamp, versions, bodies, queue, reload, ops, wrote>>
      /\ "restore" \in Commands /\ "save" \in Commands /\ call' = [call EXCEPT !["restore"] = NoCall]
      /\ NoCall \in Call /\ NoCall.at = "none"
  BY CommandIsOne, NoCallType DEF RestoreEnds, NoCall
<1>2. call' \in [Commands -> Call] /\ call'["save"].at = call["save"].at
  BY <1>1, TypedParts
<1>3. /\ ed' \in Tab /\ ed'.gen = ed.gen /\ ed'.saved = ed.saved /\ ed'.versioned = ed.versioned
      /\ typed' \in Nat \cup {Nothing}
  <2>1. CASE UNCHANGED <<ed, typed>>
    BY <2>1, TypedTab
  <2>2. CASE typed' = Nothing /\ ed' = [ed EXCEPT !.screen = call["restore"].new, !.stamp = call["restore"].stamp]
    <3>1. call["restore"].new \in Nat /\ call["restore"].stamp \in Nat
      BY <1>1, TypedParts DEF Call
    <3> QED
      BY <2>2, <3>1, TypedTab DEF Tab
  <2> QED
    BY <2>1, <2>2 DEF RestoreEnds
<1>4. TypeOK' /\ SaveIsQueued'
  BY <1>1, <1>2, <1>3, TypedParts, TypedTab, TabType
<1> QED
  BY <1>1, <1>4, OneStarts DEF Unbound

LEMMA TakeReloadKeeps ==
  ASSUME HistoryInv, TakeReload
  PROVE  HistoryInv'
<1>1. /\ UNCHANGED <<body, stamp, versions, bodies, ops, wrote>> /\ call' = DisturbingAll
      /\ reload' = NoReload /\ typed' = IF ed'.screen = ed.screen THEN typed ELSE Nothing
  BY DEF TakeReload
<1>2. call' \in [Commands -> Call] /\ call'["save"].at = call["save"].at
  BY <1>1, CommandIsOne, NoCallMoves DEF HistoryInv
<1>3. typed' \in Nat \cup {Nothing} /\ reload' \in [sent : BOOLEAN, body : Nat \cup {Gone}, stamp : Nat]
  BY <1>1, TypedTab DEF NoReload
<1>4. CASE ed.open /\ reload.body = Gone
  <2>1. Flush([ed EXCEPT !.open = FALSE], FALSE)
    BY <1>4 DEF TakeReload
  <2>2. TypeOK' /\ SaveIsQueued'
    BY <1>1, <1>2, <1>3, <2>1, TypedParts, FlushType
  <2> QED
    BY <1>1, <2>2, AllStay
<1>5. CASE ~(ed.open /\ reload.body = Gone)
  <2>1. /\ queue' = queue
        /\ ed' = IF ~ed.open \/ reload.stamp = ed.stamp THEN ed
                 ELSE [ed EXCEPT !.stamp = reload.stamp,
                          !.screen = IF ed.show \in {"dirty", "saving"} THEN ed.screen ELSE reload.body]
    BY <1>5, TypedTab DEF TakeReload, Tab
  <2>2. ed' \in Tab /\ ed'.gen = ed.gen /\ ed'.saved = ed.saved /\ ed'.versioned = ed.versioned
    <3>1. CASE ed' = ed
      BY <3>1, TypedTab
    <3>2. CASE ed.open /\ ed' # ed
      <4>1. PICK screen : /\ ed' = [ed EXCEPT !.stamp = reload.stamp, !.screen = screen]
                          /\ screen = IF ed.show \in {"dirty", "saving"} THEN ed.screen ELSE reload.body
        BY <2>1, <3>2
      <4>2. screen \in Nat /\ reload.stamp \in Nat
        BY <1>5, <3>2, <4>1, TypedTab DEF Tab
      <4> QED
        BY <4>1, <4>2, TypedTab DEF Tab
    <3> QED
      BY <2>1, <3>1, <3>2
  <2>3. TypeOK' /\ SaveIsQueued'
    BY <1>1, <1>2, <1>3, <2>1, <2>2, TypedParts, TabType
  <2> QED
    BY <1>1, <2>3, AllStay
<1> QED
  BY <1>4, <1>5

-----------------------------------------------------------------------------
(* The assistant and the sidebar *)

LEMMA ProposeRewriteKeeps ==
  ASSUME HistoryInv, ProposeRewrite
  PROVE  HistoryInv'
<1>1. /\ body # Gone /\ Op /\ bodies' = bodies + 1
      /\ UNCHANGED <<body, stamp, versions, ed, queue, reload, typed, wrote>>
      /\ "rewrite" \in Commands /\ "restore" \in Commands /\ "save" \in Commands
  BY CommandIsOne DEF ProposeRewrite
<1>2. PICK x \in Call : x = call["rewrite"]
  BY <1>1, TypedParts
<1>3. PICK new \in Nat : new = bodies + 1
  BY TypedParts
<1>4. PICK next : next = [x EXCEPT !.at = "asking", !.old = body, !.new = new, !.calm = TRUE]
  OBVIOUS
<1>5. next \in Call /\ next.at = "asking" /\ next.old = body
  BY <1>1, <1>3, <1>4, TypedParts DEF Call
<1>6. call' = [call EXCEPT !["rewrite"] = next]
  BY <1>1, <1>2, <1>3, <1>4, TypedParts DEF ProposeRewrite
<1>7. call' \in [Commands -> Call] /\ call'["rewrite"] = next /\ \A o \in Commands \ {"rewrite"} : call'[o] = call[o]
  BY <1>1, <1>5, <1>6, TypedParts
<1>8. TypeOK' /\ SaveIsQueued'
  BY <1>1, <1>3, <1>7, OpCounts, TypedParts, TypedTab DEF HistoryInv, TypeOK, SaveIsQueued
<1>9. RewriteAsksFirst'
  BY <1>5, <1>7 DEF RewriteAsksFirst
<1>10. ReplacedIsFiled'
  BY <1>1, <1>5, <1>7 DEF HistoryInv, ReplacedIsFiled
<1> QED
  BY <1>8, <1>9, <1>10 DEF HistoryInv

LEMMA DecideRewriteKeeps ==
  ASSUME HistoryInv, DecideRewrite
  PROVE  HistoryInv'
<1>1. /\ call["rewrite"].at = "asking"
      /\ UNCHANGED <<body, stamp, versions, bodies, ed, queue, reload, ops, typed, wrote>>
      /\ "rewrite" \in Commands /\ "restore" \in Commands /\ "save" \in Commands
  BY CommandIsOne DEF DecideRewrite
<1>2. PICK x \in Call : x = call["rewrite"]
  BY <1>1, TypedParts
<1>3. PICK next \in {NoCall, [x EXCEPT !.at = "keep"]} : call' = [call EXCEPT !["rewrite"] = next]
  BY <1>1, <1>2, TypedParts DEF DecideRewrite
<1>4. [x EXCEPT !.at = "keep"] \in Call /\ [x EXCEPT !.at = "keep"].at = "keep"
      /\ [x EXCEPT !.at = "keep"].old = x.old /\ [x EXCEPT !.at = "keep"].calm = x.calm
  BY DEF Call
<1>5. next \in Call /\ next.at \in {"none", "keep"} /\ (next.at = "keep" => next.old = x.old /\ next.calm = x.calm)
  <2>1. NoCall \in Call /\ NoCall.at = "none"
    BY NoCallType DEF NoCall
  <2>2. CASE next = NoCall
    BY <2>1, <2>2
  <2>3. CASE next = [x EXCEPT !.at = "keep"]
    BY <1>4, <2>3
  <2> QED
    BY <1>3, <2>2, <2>3
<1>6. call' \in [Commands -> Call] /\ call'["rewrite"] = next /\ \A o \in Commands \ {"rewrite"} : call'[o] = call[o]
  BY <1>1, <1>3, <1>5, TypedParts
<1>7. TypeOK' /\ SaveIsQueued'
  BY <1>1, <1>6, TypedParts, TypedTab DEF HistoryInv, TypeOK, SaveIsQueued
<1>8. RewriteAsksFirst'
  BY <1>5, <1>6 DEF RewriteAsksFirst
<1>9. ReplacedIsFiled'
  <2>1. x.calm => body = x.old
    BY <1>1, <1>2 DEF HistoryInv, ReplacedIsFiled
  <2> QED
    BY <1>1, <1>5, <1>6, <2>1 DEF HistoryInv, ReplacedIsFiled
<1> QED
  BY <1>7, <1>8, <1>9 DEF HistoryInv

(* What changes the document disturbs whoever is about to replace it.       *)
LEMMA SidebarKeeps ==
  ASSUME HistoryInv, Delete \/ Rename \/ DeleteVersion \/ SendReload
  PROVE  HistoryInv'
<1>1. /\ Op /\ UNCHANGED <<bodies, ed, queue, typed, wrote>>
      /\ call' = DisturbingAll \/ (call' = call /\ body' = body /\ versions' = versions)
      /\ body' \in {body, Gone} /\ stamp' \in {stamp, stamp + 1}
      /\ reload' = reload \/ reload' = [sent |-> TRUE, body |-> body, stamp |-> stamp]
  BY DEF Delete, Rename, DeleteVersion, SendReload
<1>2. call' \in [Commands -> Call] /\ call'["save"].at = call["save"].at
  BY <1>1, CommandIsOne, NoCallMoves DEF HistoryInv
<1>3. versions' \in Seq(Version)
  <2>1. CASE versions' \in {versions, <<>>}
    <3>1. versions \in Seq(Version) /\ <<>> \in Seq(Version)
      BY TypedParts
    <3> QED
      BY <2>1, <3>1
  <2>2. CASE DeleteVersion
    <3>1. PICK i \in DOMAIN versions : versions' = RemoveAt(versions, i)
      BY <2>2 DEF DeleteVersion
    <3>2. versions \in Seq(Version) /\ i \in 1 .. Len(versions) /\ Len(versions) \in Nat
      BY TypedParts
    <3>3. SubSeq(versions, 1, i - 1) \in Seq(Version)
      BY <3>2
    <3>4. SubSeq(versions, i + 1, Len(versions)) \in Seq(Version)
      BY <3>2
    <3> QED
      BY <3>1, <3>3, <3>4 DEF RemoveAt
  <2> QED
    BY <2>1, <2>2 DEF Delete, Rename, SendReload
<1>4. /\ body' \in Nat \cup {Gone} /\ stamp' \in Nat /\ bodies' \in Nat /\ ops' \in 0 .. MaxOps
      /\ wrote' \in Commands \cup {"none"}
  BY <1>1, OpCounts, TypedParts
<1>5. reload' \in [sent : BOOLEAN, body : Nat \cup {Gone}, stamp : Nat]
  <2>1. [sent |-> TRUE, body |-> body, stamp |-> stamp] \in [sent : BOOLEAN, body : Nat \cup {Gone}, stamp : Nat]
    BY TypedParts
  <2> QED
    BY <1>1, <2>1, TypedTab
<1>6. /\ ed' \in Tab /\ ed'.saved <= ed'.gen /\ ed'.versioned <= ed'.gen
      /\ queue' \in Seq(Wait) /\ typed' \in Nat \cup {Nothing}
  BY <1>1, TypedTab
<1>7. TypeOK'
  BY <1>2, <1>3, <1>4, <1>5, <1>6 DEF TypeOK, Wait
<1>8. SaveIsQueued'
  BY <1>1, <1>2 DEF HistoryInv, SaveIsQueued
<1>9. call' = DisturbingAll \/ (call' = call /\ body' = body /\ versions' = versions)
  BY <1>1
<1> QED
  BY <1>7, <1>8, <1>9, AllStay

-----------------------------------------------------------------------------
(* The autosave *)

(* The head of the queue goes; the save is over and a restore may begin.    *)
LEMMA DoneKeeps ==
  ASSUME HistoryInv, Done, queue # <<>>, ed' \in Tab, ed'.saved <= ed'.gen, ed'.versioned <= ed'.gen,
         UNCHANGED <<body, stamp, versions, bodies, reload, ops, typed, wrote>>
  PROVE  HistoryInv'
<1>1. call' = [c \in Commands |->
        IF c = "save" THEN NoCall
        ELSE IF c = "restore" /\ Head(queue).settles THEN [call[c] EXCEPT !.at = "read", !.calm = TRUE]
        ELSE call[c]]
  BY DEF Done
<1>2. ASSUME NEW c \in Commands
      PROVE  /\ call'[c] \in Call /\ (c = "save" => call'[c].at = "none")
             /\ call'[c] = call[c] \/ c = "save" \/ (c = "restore" /\ call'[c].at = "read")
  <2>1. PICK x \in Call : x = call[c]
    BY TypedParts
  <2>2. [x EXCEPT !.at = "read", !.calm = TRUE] \in Call /\ [x EXCEPT !.at = "read", !.calm = TRUE].at = "read"
    BY DEF Call
  <2>3. call'[c] = IF c = "save" THEN NoCall
                   ELSE IF c = "restore" /\ Head(queue).settles THEN [x EXCEPT !.at = "read", !.calm = TRUE]
                   ELSE x
    BY <1>1, <2>1
  <2>4. NoCall \in Call /\ NoCall.at = "none"
    BY NoCallType DEF NoCall
  <2> QED
    BY <2>1, <2>2, <2>3, <2>4
<1>3. call' \in [Commands -> Call]
  BY <1>1, <1>2
<1>4. queue' \in Seq(Wait)
  <2>1. queue \in Seq(Wait) /\ queue' = Tail(queue)
    BY TypedTab DEF Done
  <2> QED
    BY <2>1
<1>5. TypeOK'
  BY <1>3, <1>4, TypedParts, TypedTab DEF TypeOK, Wait
<1>6. SaveIsQueued'
  BY <1>2, CommandIsOne DEF SaveIsQueued
<1>7. \A o \in Replacing : Carried(o)
  BY <1>2, CommandIsOne DEF Carried, Unbound, Replacing
<1>8. call'["rewrite"].at \in {"none", "asking", "keep", "write"}
  BY <1>2, CommandIsOne DEF HistoryInv, RewriteAsksFirst
<1> QED
  BY <1>5, <1>6, <1>7, <1>8, OtherStep

LEMMA StartRunKeeps ==
  ASSUME HistoryInv, StartRun
  PROVE  HistoryInv'
<1>1. queue # <<>> /\ UNCHANGED <<body, stamp, versions, bodies, reload, ops, typed, wrote>>
      /\ "save" \in Commands \ Replacing
  BY CommandIsOne DEF StartRun, Replacing
<1>2. CASE Done /\ ed' = ed
  BY <1>1, <1>2, TypedTab, DoneKeeps
<1>3. CASE ~(Done /\ ed' = ed)
  <2>1. PICK take \in BOOLEAN :
          /\ ed' = [ed EXCEPT !.show = "saving"] /\ queue' = queue
          /\ call' = [call EXCEPT !["save"] = [@ EXCEPT !.at = "check", !.new = ed.screen, !.take = take, !.gen = ed.gen]]
    BY <1>3 DEF StartRun
  <2>2. PICK x \in Call : x = call["save"]
    BY <1>1, TypedParts
  <2>3. PICK next : next = [x EXCEPT !.at = "check", !.new = ed.screen, !.take = take, !.gen = ed.gen]
    OBVIOUS
  <2>4. next \in Call
    <3>1. ed.screen \in Nat /\ ed.gen \in Nat
      BY TypedTab DEF Tab
    <3> QED
      BY <2>3, <3>1 DEF Call
  <2>5. call' = [call EXCEPT !["save"] = next]
    BY <1>1, <2>1, <2>2, <2>3, TypedParts
  <2>6. ed' \in Tab /\ ed'.gen = ed.gen /\ ed'.saved = ed.saved /\ ed'.versioned = ed.versioned
    BY <2>1, TypedTab DEF Tab
  <2>7. call' \in [Commands -> Call]
    BY <2>4, <2>5, TypedParts
  <2>8. TypeOK'
    BY <1>1, <2>1, <2>6, <2>7, TypedParts, TypedTab DEF TypeOK, Wait
  <2>9. SaveIsQueued'
    BY <1>1, <2>1 DEF SaveIsQueued
  <2> QED
    BY <1>1, <2>4, <2>5, <2>8, <2>9, OneStarts DEF Replacing
<1> QED
  BY <1>2, <1>3

LEMMA SaveEndsKeeps ==
  ASSUME HistoryInv, SaveInv, SaveEnds \/ SaveFails
  PROVE  HistoryInv'
<1>1. /\ Done /\ UNCHANGED <<body, stamp, versions, bodies, reload, ops, typed, wrote>>
      /\ call["save"].at # "none" /\ "save" \in Commands
  BY CommandIsOne DEF SaveEnds, SaveFails
<1>2. queue # <<>>
  BY <1>1 DEF HistoryInv, SaveIsQueued
<1>3. CASE SaveFails
  <2>1. ed' \in Tab /\ ed'.saved <= ed'.gen /\ ed'.versioned <= ed'.gen
    BY <1>3, TypedTab DEF SaveFails, Tab
  <2> QED
    BY <1>1, <1>2, <2>1, DoneKeeps
<1>4. CASE SaveEnds
  <2>1. PICK c \in Call : c = call["save"]
    BY <1>1, TypedParts
  <2>2. c.gen <= ed.gen /\ c.gen \in Nat /\ c.stamp \in Nat /\ c.take \in BOOLEAN
    BY <1>1, <2>1 DEF SaveInv, SaveIsSound, Call
  <2>3. ed.gen \in 0 .. MaxEdits /\ ed.saved \in Nat /\ ed.versioned \in Nat /\ ed.saved <= ed.gen /\ ed.versioned <= ed.gen
    BY TypedTab DEF Tab
  <2>4. PICK saved, versioned, show :
          /\ ed' = [ed EXCEPT !.saved = saved, !.versioned = versioned, !.show = show, !.stamp = c.stamp]
          /\ saved = Max({ed.saved, c.gen})
          /\ versioned = IF c.take THEN Max({ed.versioned, c.gen}) ELSE ed.versioned
          /\ show = IF ed.gen > saved THEN "dirty" ELSE "saved"
    BY <1>4, <2>1, TypedTab DEF SaveEnds, Tab
  <2>5. saved \in {ed.saved, c.gen} /\ versioned \in {ed.versioned, c.gen}
    BY <2>2, <2>3, <2>4, MaxIsOne
  <2>6. saved \in Nat /\ saved <= ed.gen /\ versioned \in Nat /\ versioned <= ed.gen /\ show \in {"dirty", "saved"}
    BY <2>2, <2>3, <2>4, <2>5
  <2>7. ed' \in Tab /\ ed'.gen = ed.gen /\ ed'.saved = saved /\ ed'.versioned = versioned
    BY <2>2, <2>4, <2>6, TypedTab DEF Tab
  <2> QED
    BY <1>1, <1>2, <2>6, <2>7, DoneKeeps
<1> QED
  BY <1>3, <1>4

-----------------------------------------------------------------------------
LEMMA HistoryStarts == Init => HistoryInv
<1> SUFFICES ASSUME Init PROVE HistoryInv
  OBVIOUS
<1>1. call = [c \in Commands |-> NoCall] /\ NoCall \in Call /\ NoCall.at = "none" /\ NoCall.calm = FALSE
  BY NoCallType DEF Init, NoCall
<1>2. ed \in Tab /\ ed.saved <= ed.gen /\ ed.versioned <= ed.gen
  BY BoundsAreNumbers DEF Init, NewTab, Tab
<1>3. TypeOK
  BY <1>1, <1>2, BoundsAreNumbers DEF Init, TypeOK, NoReload
<1>4. SaveIsQueued /\ RewriteAsksFirst /\ ReplacedIsFiled
  BY <1>1, CommandIsOne DEF SaveIsQueued, RewriteAsksFirst, ReplacedIsFiled
<1> QED
  BY <1>3, <1>4 DEF HistoryInv

LEMMA HistoryStays == HistoryInv /\ SaveInv /\ [Next]_vars => HistoryInv'
<1> SUFFICES ASSUME HistoryInv, SaveInv, [Next]_vars PROVE HistoryInv'
  OBVIOUS
<1>1. CASE UNCHANGED vars
  BY <1>1 DEF vars, HistoryInv, TypeOK, SaveIsQueued, RewriteAsksFirst, ReplacedIsFiled
<1>2. CASE Next
  <2>1. CASE \E c \in Commands : Backend(c) \/ StoreFails(c)
    BY <2>1, CheckKeeps, ReadVersionKeeps, KeepOldKeeps, WriteKeeps, FileNewKeeps, StoreFailsKeeps DEF Backend
  <2>2. CASE Autosave \/ Edit \/ CloseTab \/ \E t \in {"save", "version"} : TimerFires(t)
    BY <2>2, StartRunKeeps, SaveEndsKeeps, EditKeeps, CloseTabKeeps, TimerFiresKeeps DEF Autosave
  <2>3. CASE Checkpoint \/ OpenHistory \/ Restore \/ RestoreEnds \/ TakeReload
    BY <2>3, CheckpointKeeps, OpenHistoryKeeps, RestoreKeeps, RestoreEndsKeeps, TakeReloadKeeps
  <2>4. CASE ProposeRewrite \/ DecideRewrite \/ Delete \/ Rename \/ DeleteVersion \/ SendReload
    BY <2>4, ProposeRewriteKeeps, DecideRewriteKeeps, SidebarKeeps
  <2> QED
    BY <1>2, <2>1, <2>2, <2>3, <2>4 DEF Next
<1> QED
  BY <1>1, <1>2

LEMMA HistoryHolds == Spec => [](HistoryInv /\ SaveInv)
  BY HistoryStarts, HistoryStays, TheInvariantStarts, TheInvariantStays, PTL DEF Spec

(* TypeOK: only real bodies are shown, filed and written, and the autosave  *)
(* never counts a generation as saved or filed that no edit has reached.    *)
THEOREM Types == Spec => []TypeOK
<1>1. HistoryInv => TypeOK
  BY DEF HistoryInv
<1> QED
  BY <1>1, HistoryHolds, PTL

(* UndisturbedReplacementsCanBeUndone: a restore or a rewrite that nobody   *)
(* came between replaces the body it had filed, and that body is in the     *)
(* history after the write, and after its own version was filed and the     *)
(* history pruned.                                                          *)
LEMMA UndoStep ==
  ASSUME HistoryInv, NEW c \in {"restore", "rewrite"}, call[c].calm
  PROVE  /\ Write(c) => body = call[c].old
         /\ (Write(c) \/ FileNew(c)) /\ body' # Gone =>
              \E i \in DOMAIN versions' : versions'[i].body = call[c].old
<1>1. c \in Commands /\ call[c] \in Call
  BY TypedParts DEF Commands
<1>2. Write(c) => body = call[c].old
  BY DEF HistoryInv, ReplacedIsFiled, Write
<1>3. ASSUME Write(c) \/ FileNew(c)
      PROVE  versions # <<>> /\ Last(versions).body = call[c].old
  BY <1>3 DEF HistoryInv, ReplacedIsFiled, Write, FileNew
<1>4. ASSUME Write(c)
      PROVE  \E i \in DOMAIN versions' : versions'[i].body = call[c].old
  <2>1. versions' = versions /\ versions # <<>> /\ versions \in Seq(Version)
    BY <1>3, <1>4, TypedParts DEF Write
  <2>2. Len(versions) \in DOMAIN versions
    BY <2>1
  <2> QED
    BY <1>3, <1>4, <2>1, <2>2 DEF Last
<1>5. ASSUME FileNew(c), body' # Gone
      PROVE  \E i \in DOMAIN versions' : versions'[i].body = call[c].old
  <2>1. PICK b \in Nat : b = call[c].new
    BY <1>1 DEF Call
  <2>2. versions' = Snapshot(versions, b, FALSE)
    BY <1>5, <2>1 DEF FileNew
  <2>3. \E j \in DOMAIN versions' : versions'[j] = Last(versions)
    BY <1>3, <1>5, <2>2, TypedParts, SnapshotFiles
  <2> QED
    BY <1>3, <1>5, <2>3
<1> QED
  BY <1>2, <1>4, <1>5

THEOREM ReplacementsCanBeUndone == Spec => UndisturbedReplacementsCanBeUndone
<1>1. ASSUME HistoryInv, NEW c \in {"restore", "rewrite"}
      PROVE  call[c].calm =>
               /\ Write(c) => body = call[c].old
               /\ (Write(c) \/ FileNew(c)) /\ body' # Gone =>
                    \E i \in DOMAIN versions' : versions'[i].body = call[c].old
  BY <1>1, UndoStep
<1>2. HistoryInv /\ [Next]_vars =>
        [\A c \in {"restore", "rewrite"} : call[c].calm =>
           /\ Write(c) => body = call[c].old
           /\ (Write(c) \/ FileNew(c)) /\ body' # Gone =>
                \E i \in DOMAIN versions' : versions'[i].body = call[c].old]_vars
  BY <1>1
<1> QED
  BY <1>2, HistoryHolds, PTL DEF Spec, UndisturbedReplacementsCanBeUndone

LEMMA HistoryGoes ==
  ASSUME HistoryInv, Next
  PROVE  \/ versions' = versions \/ body' = Gone \/ DeleteVersion
         \/ \E b \in Nat, named \in BOOLEAN : versions' = Snapshot(versions, b, named)
<1>1. ASSUME NEW c \in Commands, Backend(c) \/ StoreFails(c)
      PROVE  \/ versions' = versions
             \/ \E b \in Nat, named \in BOOLEAN : versions' = Snapshot(versions, b, named)
  <2>1. call[c].old \in Nat /\ call[c].new \in Nat /\ (c = "checkpoint") \in BOOLEAN /\ FALSE \in BOOLEAN
    BY TypedParts DEF Call
  <2> QED
    BY <1>1, <2>1 DEF Backend, StoreFails, Check, ReadVersion, KeepOld, Write, FileNew
<1> QED
  BY <1>1 DEF Next, Edit, CloseTab, Autosave, StartRun, SaveEnds, SaveFails, TimerFires, Checkpoint,
     OpenHistory, Restore, RestoreEnds, ProposeRewrite, DecideRewrite, Delete, Rename, SendReload, TakeReload

(* OnlyOldVersionsGo: unless the user deletes it, a checkpoint stays, and an *)
(* automatic version goes only when Keep automatic ones are left.           *)
THEOREM CheckpointsStay == Spec => OnlyOldVersionsGo
<1>1. ASSUME HistoryInv, Next, body' # Gone, ~DeleteVersion, NEW i \in DOMAIN versions
      PROVE  \/ \E j \in DOMAIN versions' : versions'[j] = versions[i]
             \/ ~versions[i].named /\ Cardinality(Unnamed(versions')) >= Keep
  <2>1. CASE versions' = versions
    BY <2>1
  <2>2. CASE \E b \in Nat, named \in BOOLEAN : versions' = Snapshot(versions, b, named)
    <3>1. PICK b \in Nat, named \in BOOLEAN : versions' = Snapshot(versions, b, named)
      BY <2>2
    <3> QED
      BY <1>1, <3>1, TypedParts, SnapshotDropsOldOnes
  <2> QED
    BY <1>1, <2>1, <2>2, HistoryGoes
<1>2. Unnamed(versions') = {j \in DOMAIN versions' : ~versions'[j].named}
  BY DEF Unnamed
<1>3. HistoryInv /\ [Next]_vars =>
        [\/ body' = Gone
         \/ DeleteVersion
         \/ \A i \in DOMAIN versions :
              \/ \E j \in DOMAIN versions' : versions'[j] = versions[i]
              \/ /\ ~versions[i].named
                 /\ Cardinality({j \in DOMAIN versions' : ~versions'[j].named}) >= Keep]_vars
  BY <1>1, <1>2
<1> QED
  BY <1>3, HistoryHolds, PTL DEF Spec, OnlyOldVersionsGo

=============================================================================
