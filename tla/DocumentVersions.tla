-------------------------- MODULE DocumentVersions --------------------------
(***************************************************************************)
(* One diagram: its row in the documents table, its history                *)
(* (services/document_versions.rs over store/document_versions.rs), the    *)
(* designer tab that edits and autosaves it (useAutosave.ts,               *)
(* DesignerTab.tsx, VersionsMenu.tsx), and the assistant that rewrites it  *)
(* (services/agent/documents/mod.rs).                                      *)
(*                                                                         *)
(* A command of the backend is a sequence of store calls. Each call is     *)
(* atomic, the store being one mutex; two commands interleave between      *)
(* their calls. A body is a number: every edit and every draft makes a new *)
(* one. A version is its body and whether the user named it; its number    *)
(* is its place in the history.                                            *)
(***************************************************************************)
EXTENDS Integers, Sequences, SequencesExt, FiniteSetsExt

CONSTANTS
  Keep,        \* KEEP_AUTOMATIC: unnamed versions a document keeps
  MaxEdits,    \* bound: edits made in the tab
  MaxOps       \* bound: commands begun by anyone but the autosave, and store calls that fail

(* KEEP_AUTOMATIC is 20. Were it 1, the version of what a restore writes would *)
(* push out the version of what it replaces.                                 *)
ASSUME KeepIsEnough == Keep \in Nat \ {0, 1}
ASSUME BoundsAreNumbers == MaxEdits \in Nat /\ MaxOps \in Nat

VARIABLES
  body,      \* the body in the documents table, or Gone
  stamp,     \* updated_at of the row: it differs after every write
  versions,  \* the history, oldest first
  bodies,    \* how many bodies were made so far
  ed,        \* the designer tab (see NewTab)
  queue,     \* the runs of the autosave that wait, the running one first
  call,      \* command -> where it stands (see NoCall)
  reload,    \* a list of documents on its way to the window
  ops,       \* how much of MaxOps was used
  typed,     \* history: the body on the screen, or Nothing if no edit here made it
  wrote      \* history: the command that wrote the row last

vars == <<body, stamp, versions, bodies, ed, queue, call, reload, ops, typed, wrote>>

Gone == -1

(* No body of an edit. *)
Nothing == -1

Commands == {"save", "checkpoint", "restore", "rewrite"}

(* screen: the body shown; stamp: updated_at of the row last seen; gen, saved *)
(* and versioned: the generation counters; show: SaveState; timers: those     *)
(* that run; open: the tab is mounted.                                        *)
NewTab == [screen |-> 0, stamp |-> 0, gen |-> 0, saved |-> 0, versioned |-> 0,
           show |-> "saved", timers |-> {}, open |-> TRUE]

(* old: the body it replaces; new: the body it writes; take: it files a       *)
(* version; gen: the generation it saves; stamp: updated_at of the row it      *)
(* wrote; calm: history, nobody else touched  *)
(* the document or the tab since it was sent to the backend.                  *)
NoCall == [at |-> "none", old |-> 0, new |-> 0, take |-> FALSE, gen |-> 0, stamp |-> 0,
           calm |-> FALSE]

NoReload == [sent |-> FALSE, body |-> 0, stamp |-> 0]

Init ==
  /\ body = 0 /\ stamp = 0 /\ versions = <<>> /\ bodies = 0
  /\ ed = NewTab
  /\ queue = <<>>
  /\ call = [c \in Commands |-> NoCall]
  /\ reload = NoReload
  /\ ops = 0
  /\ typed = 0 /\ wrote = "none"

Filed == {versions[i].body : i \in DOMAIN versions}

(* Command c goes on to `next` with a step that the others may notice. *)
Disturbing(c, next) ==
  [o \in Commands |-> IF o = c THEN next ELSE [call[o] EXCEPT !.calm = FALSE]]

DisturbingAll == [o \in Commands |-> [call[o] EXCEPT !.calm = FALSE]]

(* One of the MaxOps steps that are not the autosave's. *)
Op == ops < MaxOps /\ ops' = ops + 1

-----------------------------------------------------------------------------
(* The history: one store call *)

(* The k-th of the places is the one that k of them do not come after. *)
Rank(places, i) == Cardinality({j \in places : j <= i})

Place(places, k) == CHOOSE i \in places : Rank(places, i) = k

Chosen(vs, places) == [k \in 1 .. Cardinality(places) |-> vs[Place(places, k)]]

(* Mutant: a pruning that does not spare what the user named. *)
PruneAny(vs) == Chosen(vs, {i \in DOMAIN vs : Len(vs) - i < Keep})

(* Deletes the unnamed versions beyond the newest Keep. *)
Prune(vs) ==
  Chosen(vs, {i \in DOMAIN vs :
    vs[i].named \/ Cardinality({j \in i .. Len(vs) : ~vs[j].named}) <= Keep})

(* An automatic version that repeats the newest one is not filed. *)
Redundant(vs, b, named) == ~named /\ vs # <<>> /\ Last(vs).body = b

Snapshot(vs, b, named) ==
  IF Redundant(vs, b, named) THEN vs
  ELSE LET longer == Append(vs, [body |-> b, named |-> named])
       IN  IF named THEN longer ELSE Prune(longer)

-----------------------------------------------------------------------------
(* The commands of the backend, one store call at a time *)

(* What a command that failed leaves: the tab hears of the two it waits for. *)
Failed(c) ==
  IF c \in {"save", "restore"} THEN [call[c] EXCEPT !.at = "failed"] ELSE NoCall

(* Mutant: a save does not look whether the document is there. *)
CheckRestoresOnly(c) ==
  /\ call[c].at = "check"
  /\ call' = [call EXCEPT ![c] =
       IF c # "restore" THEN [@ EXCEPT !.at = "write"]
       ELSE IF body = Gone THEN Failed(c)
       ELSE [@ EXCEPT !.at = "keep", !.old = body]]
  /\ UNCHANGED <<body, stamp, versions, bodies, ed, queue, reload, ops, typed, wrote>>

(* ensure_saved_once, and the read of the current body in restore. *)
Check(c) ==
  /\ call[c].at = "check"
  /\ call' = [call EXCEPT ![c] =
       IF body = Gone THEN Failed(c)
       ELSE IF c = "restore" THEN [@ EXCEPT !.at = "keep", !.old = body]
       ELSE [@ EXCEPT !.at = "write"]]
  /\ UNCHANGED <<body, stamp, versions, bodies, ed, queue, reload, ops, typed, wrote>>

(* restore reads the version it was asked for, which may be pruned by now. *)
ReadVersion ==
  /\ call["restore"].at = "read"
  /\ \/ \E v \in Filed : call' = [call EXCEPT !["restore"] = [@ EXCEPT !.at = "check", !.new = v]]
     \/ call' = [call EXCEPT !["restore"] = Failed("restore")]
  /\ UNCHANGED <<body, stamp, versions, bodies, ed, queue, reload, ops, typed, wrote>>

(* Mutant: what is replaced is filed only when the history is empty. *)
KeepFirst(c) ==
  /\ call[c].at = "keep"
  /\ IF body = Gone
     THEN call' = [call EXCEPT ![c] = Failed(c)] /\ UNCHANGED versions
     ELSE /\ versions' = IF versions = <<>> THEN Snapshot(versions, call[c].old, FALSE) ELSE versions
          /\ call' = Disturbing(c, [call[c] EXCEPT !.at = "write"])
  /\ UNCHANGED <<body, stamp, bodies, ed, queue, reload, ops, typed, wrote>>

(* The body that is replaced is filed as a version. The history of a deleted  *)
(* document is gone with it and takes no new row (foreign key).               *)
KeepOld(c) ==
  /\ call[c].at = "keep"
  /\ IF body = Gone
     THEN call' = [call EXCEPT ![c] = Failed(c)] /\ UNCHANGED versions
     ELSE /\ versions' = Snapshot(versions, call[c].old, FALSE)
          /\ call' = Disturbing(c, [call[c] EXCEPT !.at = "write"])
  /\ UNCHANGED <<body, stamp, bodies, ed, queue, reload, ops, typed, wrote>>

(* upsert_document: it inserts the row when there is none. *)
Write(c) ==
  /\ call[c].at = "write"
  /\ body' = call[c].new
  /\ stamp' = stamp + 1
  /\ wrote' = c
  /\ call' = Disturbing(c,
       IF c = "rewrite" THEN NoCall
       ELSE [call[c] EXCEPT !.at = IF c = "save" /\ ~call[c].take THEN "answer" ELSE "file",
                            !.stamp = stamp + 1])
  /\ UNCHANGED <<versions, bodies, ed, queue, reload, ops, typed>>

(* The body that was written is filed, by a checkpoint under a name. *)
FileNew(c) ==
  /\ call[c].at = "file"
  /\ IF body = Gone
     THEN call' = [call EXCEPT ![c] = Failed(c)] /\ UNCHANGED versions
     ELSE /\ versions' = Snapshot(versions, call[c].new, c = "checkpoint")
          /\ call' = Disturbing(c, IF c = "checkpoint" THEN NoCall ELSE [call[c] EXCEPT !.at = "answer"])
  /\ UNCHANGED <<body, stamp, bodies, ed, queue, reload, ops, typed, wrote>>

(* The store refuses a call: a full disk, a lock held too long. *)
StoreFails(c) ==
  /\ call[c].at \in {"check", "read", "keep", "write", "file"} /\ Op
  /\ call' = [call EXCEPT ![c] = Failed(c)]
  /\ UNCHANGED <<body, stamp, versions, bodies, ed, queue, reload, typed, wrote>>

Backend(c) == Check(c) \/ (c = "restore" /\ ReadVersion) \/ KeepOld(c) \/ Write(c) \/ FileNew(c)

-----------------------------------------------------------------------------
(* The autosave of the tab (useAutosave.ts) *)

(* An edit: the body changes and `touch` starts both timers anew. *)
Edit ==
  /\ ed.open /\ ed.gen < MaxEdits
  /\ bodies' = bodies + 1
  /\ typed' = bodies + 1
  /\ ed' = [ed EXCEPT !.screen = bodies + 1, !.gen = @ + 1, !.timers = {"save", "version"},
                      !.show = IF @ = "saving" THEN @ ELSE "dirty"]
  /\ call' = DisturbingAll
  /\ UNCHANGED <<body, stamp, versions, queue, reload, ops, wrote>>

(* SAVE_DELAY_MS is the shorter one: the timers of an edit fire in that order. *)
TimerFires(t) ==
  /\ t \in ed.timers
  /\ t = "version" => "save" \notin ed.timers
  /\ ed' = [ed EXCEPT !.timers = @ \ {t}]
  /\ queue' = Append(queue, [version |-> t = "version", settles |-> FALSE])
  /\ UNCHANGED <<body, stamp, versions, bodies, call, reload, ops, typed, wrote>>

(* flush({ version: true }): the timers are dropped and a run is queued. *)
Flush(tab, settles) ==
  /\ ed' = [tab EXCEPT !.timers = {}]
  /\ queue' = Append(queue, [version |-> TRUE, settles |-> settles])

(* Mutant: the tab goes without a last flush. *)
CloseQuietly ==
  /\ ed.open
  /\ ed' = [ed EXCEPT !.open = FALSE, !.timers = {}]
  /\ UNCHANGED <<body, stamp, versions, bodies, queue, call, reload, ops, typed, wrote>>

(* The tab is closed, by the user or because its document was deleted. *)
CloseTab ==
  /\ ed.open
  /\ Flush([ed EXCEPT !.open = FALSE], FALSE)
  /\ call' = DisturbingAll
  /\ UNCHANGED <<body, stamp, versions, bodies, reload, ops, typed, wrote>>

(* The head of the queue is done; a restore that waited for it is sent. *)
Done ==
  /\ queue' = Tail(queue)
  /\ call' = [c \in Commands |->
       IF c = "save" THEN NoCall
       ELSE IF c = "restore" /\ Head(queue).settles THEN [call[c] EXCEPT !.at = "read", !.calm = TRUE]
       ELSE call[c]]

(* run: the next run of the queue saves what is on the screen, if need be.    *)
StartRun ==
  /\ queue # <<>> /\ call["save"].at = "none"
  /\ LET needSave == ed.gen > ed.saved
         needVersion == Head(queue).version /\ ed.gen > ed.versioned
     IN  IF needSave \/ needVersion
         THEN /\ ed' = [ed EXCEPT !.show = "saving"]
              /\ call' = [call EXCEPT !["save"] =
                   [@ EXCEPT !.at = "check", !.new = ed.screen, !.take = needVersion, !.gen = ed.gen]]
              /\ UNCHANGED queue
         ELSE Done /\ UNCHANGED ed
  /\ UNCHANGED <<body, stamp, versions, bodies, reload, ops, typed, wrote>>

(* Mutant: a save marks what is on the screen when it ends as saved. *)
SaveEndsForAll ==
  /\ call["save"].at = "answer"
  /\ ed' = [ed EXCEPT !.saved = ed.gen, !.versioned = IF call["save"].take THEN ed.gen ELSE @,
                      !.show = "saved", !.stamp = call["save"].stamp]
  /\ Done
  /\ UNCHANGED <<body, stamp, versions, bodies, reload, ops, typed, wrote>>

(* A save finished: only the generation it started from is saved. *)
SaveEnds ==
  /\ call["save"].at = "answer"
  /\ LET c == call["save"]
         saved == Max({ed.saved, c.gen})
     IN  ed' = [ed EXCEPT !.saved = saved, !.versioned = IF c.take THEN Max({@, c.gen}) ELSE @,
                          !.show = IF ed.gen > saved THEN "dirty" ELSE "saved", !.stamp = c.stamp]
  /\ Done
  /\ UNCHANGED <<body, stamp, versions, bodies, reload, ops, typed, wrote>>

(* The error is shown and goes no further: who waits for the run goes on.     *)
SaveFails ==
  /\ call["save"].at = "failed"
  /\ ed' = [ed EXCEPT !.show = "error"]
  /\ Done
  /\ UNCHANGED <<body, stamp, versions, bodies, reload, ops, typed, wrote>>

-----------------------------------------------------------------------------
(* What else happens to the document *)

(* CheckpointPopover: it does not wait for the autosave. *)
Checkpoint ==
  /\ ed.open /\ call["checkpoint"].at = "none" /\ Op
  /\ call' = [call EXCEPT !["checkpoint"] = [@ EXCEPT !.at = "check", !.new = ed.screen]]
  /\ UNCHANGED <<body, stamp, versions, bodies, ed, queue, reload, typed, wrote>>

(* HistoryPopover, load: what waits is saved before the history is listed. *)
OpenHistory ==
  /\ ed.open /\ Op
  /\ Flush(ed, FALSE)
  /\ UNCHANGED <<body, stamp, versions, bodies, call, reload, typed, wrote>>

(* HistoryPopover, restore: what waits is saved, then the command is sent. *)
Restore ==
  /\ ed.open /\ call["restore"].at = "none" /\ Op
  /\ Flush(ed, TRUE)
  /\ call' = [call EXCEPT !["restore"] = [@ EXCEPT !.at = "settling"]]
  /\ UNCHANGED <<body, stamp, versions, bodies, reload, typed, wrote>>

(* onRestored: the tab, if it is still there, shows the restored body. *)
RestoreEnds ==
  /\ call["restore"].at \in {"answer", "failed"}
  /\ IF call["restore"].at = "answer" /\ ed.open
     THEN /\ ed' = [ed EXCEPT !.screen = call["restore"].new, !.stamp = call["restore"].stamp]
          /\ typed' = Nothing
     ELSE UNCHANGED <<ed, typed>>
  /\ call' = [call EXCEPT !["restore"] = NoCall]
  /\ UNCHANGED <<body, stamp, versions, bodies, queue, reload, ops, wrote>>

(* The assistant reads the document it is to update and asks the user.        *)
ProposeRewrite ==
  /\ body # Gone /\ call["rewrite"].at = "none" /\ Op
  /\ bodies' = bodies + 1
  /\ call' = [call EXCEPT !["rewrite"] =
       [@ EXCEPT !.at = "asking", !.old = body, !.new = bodies + 1, !.calm = TRUE]]
  /\ UNCHANGED <<body, stamp, versions, ed, queue, reload, typed, wrote>>

(* The user decides: a rewrite that is declined does nothing. *)
DecideRewrite ==
  /\ call["rewrite"].at = "asking"
  /\ \E allowed \in BOOLEAN :
       call' = [call EXCEPT !["rewrite"] = IF allowed THEN [@ EXCEPT !.at = "keep"] ELSE NoCall]
  /\ UNCHANGED <<body, stamp, versions, bodies, ed, queue, reload, ops, typed, wrote>>

(* The sidebar deletes the document; its history goes with it. *)
Delete ==
  /\ body # Gone /\ Op
  /\ body' = Gone /\ versions' = <<>>
  /\ call' = DisturbingAll
  /\ UNCHANGED <<stamp, bodies, ed, queue, reload, typed, wrote>>

(* The sidebar renames it: the row changes, its body does not. *)
Rename ==
  /\ body # Gone /\ Op
  /\ stamp' = stamp + 1
  /\ UNCHANGED <<body, versions, bodies, ed, queue, call, reload, typed, wrote>>

DeleteVersion ==
  /\ Op
  /\ \E i \in DOMAIN versions : versions' = RemoveAt(versions, i)
  /\ call' = DisturbingAll
  /\ UNCHANGED <<body, stamp, bodies, ed, queue, reload, typed, wrote>>

(* loadDocuments reads the row ... *)
SendReload ==
  /\ ~reload.sent /\ Op
  /\ reload' = [sent |-> TRUE, body |-> body, stamp |-> stamp]
  /\ UNCHANGED <<body, stamp, versions, bodies, ed, queue, call, typed, wrote>>

(* Mutant: the tab stays although its document is not in the list. *)
TakeReloadBlindly ==
  /\ reload.sent
  /\ reload' = NoReload
  /\ ed' = IF ~ed.open \/ reload.stamp = ed.stamp THEN ed
           ELSE [ed EXCEPT !.stamp = reload.stamp, !.screen = reload.body]
  /\ typed' = IF ed'.screen = ed.screen THEN typed ELSE Nothing
  /\ call' = DisturbingAll
  /\ UNCHANGED <<body, stamp, versions, bodies, queue, ops, wrote>>

(* ... and the window takes what it read: the tab shows it unless edits wait. *)
(* A document that is not in the list has its tab closed.                     *)
TakeReload ==
  /\ reload.sent
  /\ reload' = NoReload
  /\ IF ed.open /\ reload.body = Gone
     THEN Flush([ed EXCEPT !.open = FALSE], FALSE)
     ELSE /\ ed' = IF ~ed.open \/ reload.stamp = ed.stamp THEN ed
                   ELSE [ed EXCEPT !.stamp = reload.stamp,
                          !.screen = IF ed.show \in {"dirty", "saving"} THEN @ ELSE reload.body]
          /\ UNCHANGED queue
  /\ typed' = IF ed'.screen = ed.screen THEN typed ELSE Nothing
  /\ call' = DisturbingAll
  /\ UNCHANGED <<body, stamp, versions, bodies, ops, wrote>>

-----------------------------------------------------------------------------
Autosave == StartRun \/ SaveEnds \/ SaveFails

Next ==
  \/ Edit \/ CloseTab \/ Autosave
  \/ \E t \in {"save", "version"} : TimerFires(t)
  \/ \E c \in Commands : Backend(c) \/ StoreFails(c)
  \/ Checkpoint \/ OpenHistory \/ Restore \/ RestoreEnds
  \/ ProposeRewrite \/ DecideRewrite
  \/ Delete \/ Rename \/ DeleteVersion \/ SendReload \/ TakeReload

Spec == Init /\ [][Next]_vars

(* Timers fire, the promises of the autosave settle, and the command it waits *)
(* for ends. The user need do nothing.                                        *)
FairSpec ==
  /\ Spec
  /\ \A t \in {"save", "version"} : WF_vars(TimerFires(t))
  /\ WF_vars(Autosave)
  /\ WF_vars(Backend("save"))

-----------------------------------------------------------------------------
Version == [body : Nat, named : BOOLEAN]

Tab == [screen : Nat, stamp : Nat, gen : 0 .. MaxEdits, saved : Nat, versioned : Nat,
        show : {"saved", "dirty", "saving", "error"}, timers : SUBSET {"save", "version"}, open : BOOLEAN]

Call == [at : {"none", "settling", "asking", "read", "check", "keep", "write", "file", "answer", "failed"},
         old : Nat, new : Nat, take : BOOLEAN, gen : Nat, stamp : Nat, calm : BOOLEAN]

(* The type of every variable: only real bodies are shown, filed and written. *)
TypeOK ==
  /\ body \in Nat \cup {Gone} /\ stamp \in Nat /\ bodies \in Nat /\ ops \in 0 .. MaxOps
  /\ versions \in Seq(Version)
  /\ ed \in Tab /\ ed.saved <= ed.gen /\ ed.versioned <= ed.gen
  /\ queue \in Seq([version : BOOLEAN, settles : BOOLEAN])
  /\ call \in [Commands -> Call]
  /\ reload \in [sent : BOOLEAN, body : Nat \cup {Gone}, stamp : Nat]
  /\ typed \in Nat \cup {Nothing} /\ wrote \in Commands \cup {"none"}

(* A tab that says "Saved" (useAutosave.ts) tells the truth: the edit on the  *)
(* screen is what the store holds, unless another command wrote since.        *)
SavedMeansStored ==
  ed.show = "saved" /\ wrote \in {"save", "none"} => body \in {typed, Gone} \/ typed = Nothing

(* "A restore never loses work" (document_versions.rs), nor does a rewrite,   *)
(* when nobody else touches the document meanwhile: the body it overwrites is *)
(* in the history then, and still when the restored body was filed as well.   *)
UndisturbedReplacementsCanBeUndone ==
  [][\A c \in {"restore", "rewrite"} : call[c].calm =>
       /\ Write(c) => body = call[c].old
       /\ (Write(c) \/ FileNew(c)) /\ body' # Gone =>
            \E i \in DOMAIN versions' : versions'[i].body = call[c].old]_vars

(* A deleted document is not written back by a late command: only one that    *)
(* had looked before the deletion can bring it to life (ensure_saved_once).   *)
GoneStaysGone ==
  [](body = Gone /\ (\A c \in Commands : call[c].at # "write") => [](body = Gone))

(* "Checkpoints never are pruned", and of the automatic versions only those   *)
(* with Keep newer ones: the rest go only when the user deletes them.         *)
OnlyOldVersionsGo ==
  [][\/ body' = Gone
     \/ DeleteVersion
     \/ \A i \in DOMAIN versions :
          \/ \E j \in DOMAIN versions' : versions'[j] = versions[i]
          \/ /\ ~versions[i].named
             /\ Cardinality({j \in DOMAIN versions' : ~versions'[j].named}) >= Keep]_vars

(* Every edit is saved and, after a pause or when the tab closes, filed as a  *)
(* version, or the tab says that it could not be.                             *)
EditsAreSavedAndFiled ==
  []<>(ed.show = "error" \/ (ed.saved = ed.gen /\ ed.versioned = ed.gen))

(* "Keep what the user had: an AI rewrite of an open document can be undone   *)
(* from its version history" (services/agent/documents/mod.rs): what it       *)
(* overwrites is the body it filed, or is in the history anyway.              *)
RewritesKeepWhatTheUserHad ==
  [][Write("rewrite") => body \in Filed \cup {call["rewrite"].old, Gone}]_vars

-----------------------------------------------------------------------------
(* Why SavedMeansStored holds: the invariant.                                 *)

(* The records have their fields; what nothing here depends on may be anything. *)
IsTab(t) ==
  t \in [screen : {t.screen}, stamp : {t.stamp}, gen : Nat, saved : Nat, versioned : {t.versioned},
         show : {"saved", "dirty", "saving", "error"}, timers : {t.timers}, open : {t.open}]

IsCall(c) ==
  c \in [at : {"none", "settling", "asking", "read", "check", "keep", "write", "file", "answer", "failed"},
         old : {c.old}, new : {c.new}, take : {c.take}, gen : Nat, stamp : {c.stamp}, calm : {c.calm}]

Shapes == IsTab(ed) /\ call = [c \in Commands |-> call[c]] /\ \A c \in Commands : IsCall(call[c])

(* What is on the screen is the last edit, unless something replaced it.      *)
ScreenIsTyped == typed \in {Nothing, ed.screen}

(* A save that runs is announced, saves a generation between the last saved   *)
(* one and the current one, and if it is the current one the body of that     *)
(* edit; once it has written, that body is in the store, unless somebody      *)
(* wrote after it.                                                            *)
SaveIsSound ==
  LET c == call["save"] IN
    c.at # "none" =>
      /\ ed.show = "saving"
      /\ ed.saved <= c.gen /\ c.gen <= ed.gen
      /\ c.gen = ed.gen => typed \in {Nothing, c.new}
      /\ c.at \in {"file", "answer"} => wrote # "none" /\ (wrote = "save" => body \in {c.new, Gone})

SaveInv == Shapes /\ ScreenIsTyped /\ ed.saved <= ed.gen /\ SaveIsSound /\ SavedMeansStored

(* Why the history is right: the invariant.                                   *)

(* A save that runs is the one at the head of the queue. *)
SaveIsQueued == call["save"].at # "none" => queue # <<>>

(* A command that was not disturbed replaces the body it has read, and once it *)
(* has filed that body it is the newest version, until its own is filed.      *)
ReplacedIsFiled ==
  \A c \in {"restore", "rewrite"} : call[c].calm =>
    /\ call[c].at \in {"asking", "keep", "write"} => body = call[c].old
    /\ call[c].at \in {"write", "file"} => versions # <<>> /\ Last(versions).body = call[c].old

(* A rewrite asks the user, keeps what it replaces and writes. *)
RewriteAsksFirst == call["rewrite"].at \in {"none", "asking", "keep", "write"}

HistoryInv == TypeOK /\ SaveIsQueued /\ RewriteAsksFirst /\ ReplacedIsFiled

=============================================================================
