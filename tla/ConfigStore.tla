----------------------------- MODULE ConfigStore -----------------------------
(***************************************************************************)
(* One entry of the ConfigManager: a service's state in RAM, its file      *)
(* (primary) and the backup beside it (<primary>.snapshot).  The loop task *)
(* and the web task change the state and save it; what they cannot write   *)
(* at once is deferred, and the FlashWriter task writes it in two steps;   *)
(* Save Backup freezes the file in the backup; a restart flushes what is   *)
(* deferred and may wipe both files.  The power may go at every step, and  *)
(* the next boot loads what is left.                                       *)
(*                                                                         *)
(* A file is a version of the state, None, or Torn: it does not verify.  A *)
(* rename is atomic, an open for writing tears the file.  The write gate   *)
(* is its contract: at most one writer (slot), and a pass may be refused.  *)
(* FlashWriter is its contract too: a kicked job runs (again).             *)
(***************************************************************************)
EXTENDS Integers

CONSTANTS
  Loop, Web, Writer,  \* the loop, async_tcp and FlashWriter tasks
  NoTask,
  Changers,    \* bound: those that change the state, of the loop and async_tcp
  Faults,      \* those the flash may show: see Strikes
  MaxState,    \* bound: versions of the state
  MaxFaults,   \* bound: faults of the flash, of the supply and of the state lock
  MaxRequests  \* bound: Save Backup requests in a boot

Tasks == {Loop, Web, Writer}
Savers == {Loop, Web}
None == 0
Torn == -1
Good(f) == f > 0

ASSUME StoreAssumption ==
  /\ Loop # Web /\ Web # Writer /\ Loop # Writer /\ NoTask \notin Tasks
  /\ Changers \subseteq {Loop, Web}
  /\ Faults \subseteq {"cut", "copy", "write", "short", "lock", "supply"}
  /\ MaxState \in Nat \ {0} /\ MaxFaults \in Nat /\ MaxRequests \in Nat

VARIABLES
  primary, backup, btmp,  \* the files; btmp: <primary>.snapshot.tmp
  state,        \* the service's state
  saved,        \* _lastSavedCrc, None: no save or load yet
  deferred, late, stale, held,    \* _deferred, _lateSave, _primaryStale, _backupHeld
  any,          \* _anyDeferred
  pending, gen, copied, failed,   \* _snapPending, _snapGen, _snapNext, _snapFailed
  result,       \* _snapState
  kicked, again, power,  \* the FlashWriter job: its kick, what it returned, run()'s power
  lock, slot,   \* who holds the config lock, and the write gate
  closed,       \* closeForRestart
  pc, mine,     \* where each task is, the request its snapshot run is for
  val,          \* what the save under way writes
  allowed, faults,
  done,         \* the last save that succeeded, or what was loaded (history)
  asked,        \* the saved versions since a backup was asked for (history)
  spoilt,       \* a torn file was taken as saved or frozen as good (history)
  overtaken,    \* a save went between the writer's two steps (history)
  taken         \* the writer took a save that was only late (history)

flash == <<primary, backup, btmp>>
entry == <<state, saved, deferred, late, stale, held>>
snap == <<pending, gen, copied, failed, result>>
job == <<any, kicked, again, power>>
sync == <<lock, slot, closed, mine, val>>
env == <<allowed, faults>>
past == <<done, asked, spoilt, overtaken, taken>>
vars == <<flash, entry, snap, job, sync, pc, env, past>>

Rest == [t \in Tasks |-> "idle"]
Recovered == IF Good(primary) THEN primary ELSE IF Good(backup) THEN backup ELSE None

Ram ==
  /\ state = 1 /\ saved = None /\ deferred = FALSE /\ late = FALSE
  /\ stale = FALSE /\ held = FALSE /\ any = FALSE
  /\ pending = FALSE /\ gen = 0 /\ copied = FALSE /\ failed = FALSE /\ result = "none"
  /\ kicked = FALSE /\ again = "no" /\ power = FALSE
  /\ lock = NoTask /\ slot = NoTask /\ closed = FALSE
  /\ mine = [t \in Tasks |-> 0] /\ val = 1
  /\ pc = [Rest EXCEPT ![Loop] = "load", ![Web] = "off"]

Init ==
  /\ primary = None /\ backup = None /\ btmp = None
  /\ Ram /\ allowed = TRUE /\ faults = 0
  /\ done = None /\ asked = {} /\ spoilt = FALSE
  /\ overtaken = FALSE /\ taken = FALSE

Goto(t, from, to) == pc[t] = from /\ pc' = [pc EXCEPT ![t] = to]
Up == pc[Loop] # "load"
Closed(t) == closed /\ t # Loop
Strikes(f) == f \in Faults /\ faults < MaxFaults /\ faults' = faults + 1 /\ UNCHANGED allowed
Waiting == deferred \/ late

-----------------------------------------------------------------------------
(* ensureLoaded at boot. *)

\* Neither file verifies: defaults, written only if there is no file at all.
Load ==
  /\ btmp' = (IF allowed THEN None ELSE btmp)
  /\ state' = (IF Recovered = None THEN 1 ELSE Recovered)
  /\ \/ Good(primary) /\ Goto(Loop, "load", "idle") /\ saved' = primary /\ UNCHANGED <<primary, stale>>
     \/ /\ ~Good(primary) /\ Good(backup) /\ Goto(Loop, "load", "save") /\ UNCHANGED saved
        /\ \/ allowed /\ primary' = backup /\ UNCHANGED stale
           \/ stale' = TRUE /\ UNCHANGED primary
     \/ /\ ~Good(primary) /\ ~Good(backup)
        /\ Goto(Loop, "load", IF primary = None /\ backup = None THEN "save" ELSE "idle")
        /\ UNCHANGED <<saved, primary, stale>>
  /\ done' = Recovered
  /\ UNCHANGED <<backup, deferred, late, held, snap, job, sync, env, asked, spoilt>>
  /\ overtaken' = FALSE /\ taken' = FALSE

\* The web server starts after the modules' onBegin.
Serve ==
  /\ pc[Loop] = "idle" /\ Goto(Web, "off", "idle")
  /\ UNCHANGED <<flash, entry, snap, job, sync, env, past>>

-----------------------------------------------------------------------------
(* A save: saveStep and atomicWrite. *)

Change(t) ==
  /\ t \in Changers /\ Goto(t, "idle", "save")
  /\ state' \in ({state + 1} \cap 1..MaxState) \cup ({saved} \ {None, state})
  /\ UNCHANGED <<flash, saved, deferred, late, stale, held, snap, job, sync, env, past>>

Then(t) ==
  CASE t = Writer -> IF allowed THEN "snap" ELSE "end"
    [] t = Loop /\ closed -> "snap"
    [] OTHER -> "idle"

\* The caller's part is over: it lets go of the lock and of the gate.
LetGo(t, to) ==
  /\ lock' = (IF lock = t THEN NoTask ELSE lock) /\ slot' = (IF slot = t THEN NoTask ELSE slot)
  /\ val' = (IF lock = t THEN 1 ELSE val) /\ pc' = [pc EXCEPT ![t] = to]
  /\ UNCHANGED <<closed, mine>>

\* It stays deferred: the writer is kicked, its own run reports it itself.
Defer(t) ==
  /\ any' = (any \/ t \in Savers) /\ kicked' = (kicked \/ t \in Savers)
  /\ power' = (IF t = Writer THEN ~allowed ELSE power)
  /\ LetGo(t, Then(t)) /\ UNCHANGED again

SaveLate(t) ==
  /\ pc[t] = "save" /\ lock # NoTask /\ late' = TRUE /\ Defer(t)
  /\ UNCHANGED <<flash, state, saved, deferred, stale, held, snap, env, past>>

SaveClosed(t) ==
  /\ pc[t] = "save" /\ lock = NoTask /\ Closed(t) /\ LetGo(t, Then(t))
  /\ power' = (IF t = Writer THEN ~allowed ELSE power)
  /\ UNCHANGED <<flash, entry, snap, any, kicked, again, env, past>>

\* The service's state lock timed out: nothing read.
SaveUnread(t) ==
  /\ pc[t] = "save" /\ lock = NoTask /\ ~Closed(t) /\ Strikes("lock")
  /\ late' = FALSE /\ deferred' = TRUE /\ Defer(t)
  /\ UNCHANGED <<flash, state, saved, stale, held, snap, past>>

SaveUnchanged(t) ==
  /\ pc[t] = "save" /\ lock = NoTask /\ ~Closed(t) /\ state = saved
  /\ late' = FALSE /\ deferred' = FALSE /\ LetGo(t, Then(t))
  /\ power' = (IF t = Writer THEN FALSE ELSE power)
  /\ UNCHANGED <<flash, state, saved, stale, held, snap, any, kicked, again, env, past>>

\* The gate is busy, or PowerGuard paused writes.
SaveRefused(t) ==
  /\ pc[t] = "save" /\ lock = NoTask /\ ~Closed(t) /\ state # saved /\ slot # t
  /\ late' = FALSE /\ deferred' = TRUE /\ Defer(t)
  /\ UNCHANGED <<flash, state, saved, stale, held, snap, env, past>>

\* Fault: the file is copied whatever is known of it.
Copies_Stale(t) == t # Writer /\ ~held /\ primary # None
Copies(t) == t # Writer /\ ~held /\ ~stale /\ primary # None

Begin(t) ==
  /\ lock = NoTask /\ ~Closed(t) /\ state # saved /\ (slot = t \/ (slot = NoTask /\ allowed))
  /\ Goto(t, "save", IF Copies(t) THEN "copy" ELSE "open")
  /\ late' = FALSE /\ lock' = t /\ slot' = t /\ val' = state
  /\ UNCHANGED <<flash, state, saved, deferred, stale, held, snap, job, closed, mine, env, past>>

\* Fault: a failed save is not noted.
Failed_Dropped(t) ==
  Defer(t) /\ UNCHANGED <<state, saved, deferred, late, stale, snap, past>>

Failed(t) ==
  deferred' = TRUE /\ Defer(t) /\ UNCHANGED <<state, saved, late, stale, snap, past>>

\* backupForSave fails: nothing notes that the save waits.
NoBackup(t) ==
  IF t = Writer THEN LetGo(t, "snap") /\ UNCHANGED <<entry, snap, job, past>>
  ELSE Failed(t) /\ UNCHANGED held

Copy(t) ==
  /\ allowed /\ Goto(t, "copy", "copying") /\ btmp' = Torn
  /\ UNCHANGED <<primary, backup, entry, snap, job, sync, env, past>>

\* The backup is made: the writer lets go between its two steps.
CopyDone(t) ==
  /\ pc[t] = "copying" /\ allowed /\ backup' = primary /\ btmp' = None /\ held' = TRUE
  /\ IF t = Writer THEN LetGo(t, "second") ELSE Goto(t, "copying", "open") /\ UNCHANGED sync
  /\ UNCHANGED <<primary, state, saved, deferred, late, stale, snap, job, env, past>>

\* PowerGuard paused writes meanwhile (then the copy stays), or a flash error.
CopyFails(t) ==
  /\ NoBackup(t) /\ UNCHANGED <<primary, backup>>
  /\ \/ pc[t] = "copy" /\ ~allowed /\ UNCHANGED <<btmp, env>>
     \/ pc[t] = "copying" /\ ~allowed /\ btmp' = primary /\ UNCHANGED env
     \/ pc[t] = "copying" /\ Strikes("copy") /\ btmp' = (IF allowed THEN None ELSE Torn)

Open(t) ==
  /\ Goto(t, "open", "write") /\ allowed /\ primary' = Torn /\ held' = TRUE
  /\ UNCHANGED <<backup, btmp, state, saved, deferred, late, stale, snap, job, sync, env, past>>

OpenPaused(t) ==
  /\ pc[t] = "open" /\ ~allowed /\ Failed(t) /\ UNCHANGED <<flash, env>>
  /\ held' = (held \/ (t # Writer /\ ~stale))

TakenAsWritten(t) ==
  /\ saved' = val /\ deferred' = FALSE /\ stale' = FALSE /\ held' = FALSE
  /\ done' = val /\ asked' = (IF asked = {} THEN {} ELSE asked \cup {val})
  /\ overtaken' = (t # Writer /\ pc[Writer] \in {"second", "save"}) /\ taken' = FALSE
  /\ power' = (IF t = Writer THEN FALSE ELSE power)
  /\ LetGo(t, Then(t)) /\ UNCHANGED <<state, late, snap, any, kicked, again>>

Write(t) ==
  /\ pc[t] = "write" /\ primary' = val /\ TakenAsWritten(t)
  /\ UNCHANGED <<backup, btmp, env, spoilt>>

WriteFails(t) == pc[t] = "write" /\ Strikes("write") /\ Failed(t) /\ UNCHANGED <<flash, held>>

\* writeRootWithMeta looks only whether anything was written; the read-back logs.
WriteShort(t) ==
  /\ pc[t] = "write" /\ Strikes("short") /\ TakenAsWritten(t)
  /\ spoilt' = TRUE /\ UNCHANGED flash

Save(t) ==
  \/ SaveLate(t) \/ SaveClosed(t) \/ SaveUnread(t) \/ SaveUnchanged(t) \/ SaveRefused(t) \/ Begin(t)
  \/ Copy(t) \/ CopyDone(t) \/ CopyFails(t)
  \/ Open(t) \/ OpenPaused(t) \/ Write(t) \/ WriteFails(t) \/ WriteShort(t)

-----------------------------------------------------------------------------
(* writeDeferred: the FlashWriter's run. *)

Run ==
  /\ Up /\ Goto(Writer, "idle", "top")
  /\ kicked \/ again = "timed" \/ (again = "power" /\ allowed)
  /\ kicked' = FALSE /\ again' = "no" /\ power' = FALSE
  /\ UNCHANGED <<flash, entry, snap, any, sync, env, past>>

BackupDue == ~held /\ ~stale /\ primary # None

Stopped(from) ==
  /\ Goto(Writer, from, "end") /\ power' = TRUE
  /\ UNCHANGED <<flash, entry, snap, any, kicked, again, sync, env, past>>

\* Fault: a slot is granted while another holds one.
TakeSlot_Shared(t, from, to) ==
  /\ allowed /\ slot' = t /\ Goto(t, from, to)
  /\ UNCHANGED <<flash, entry, snap, job, lock, closed, mine, val, env, past>>

\* A slot, granted when the gate is free: never one that PowerGuard refused.
TakeSlot(t, from, to) ==
  /\ allowed /\ slot = NoTask /\ slot' = t /\ Goto(t, from, to)
  /\ UNCHANGED <<flash, entry, snap, job, lock, closed, mine, val, env, past>>

Top ==
  \/ ~Waiting /\ Goto(Writer, "top", "snap") /\ UNCHANGED <<flash, entry, snap, job, sync, env, past>>
  \/ Waiting /\ ~Closed(Writer) /\ BackupDue /\ TakeSlot(Writer, "top", "backup")
  \/ /\ Waiting /\ ~Closed(Writer) /\ ~BackupDue /\ Goto(Writer, "top", "second")
     /\ UNCHANGED <<flash, entry, snap, job, sync, env, past>>
  \/ Waiting /\ (Closed(Writer) \/ (BackupDue /\ ~allowed)) /\ Stopped("top")

\* backupForSave takes the late save: the state it reads has it.
Backup ==
  /\ pc[Writer] = "backup" /\ UNCHANGED <<flash, snap, any, kicked, again>>
  /\ \/ /\ lock # NoTask /\ LetGo(Writer, "snap") /\ UNCHANGED <<entry, power, env, past>>
     \/ /\ lock = NoTask /\ (~allowed \/ Closed(Writer)) /\ power' = TRUE
        /\ LetGo(Writer, "end") /\ UNCHANGED <<entry, env, past>>
     \/ /\ lock = NoTask /\ allowed /\ ~Closed(Writer)
        /\ late' = FALSE /\ taken' = (late /\ ~deferred)
        /\ UNCHANGED <<state, saved, stale, power, done, asked, spoilt, overtaken>>
        /\ \/ Strikes("lock") /\ LetGo(Writer, "snap") /\ UNCHANGED <<deferred, held>>
           \/ /\ state = saved /\ deferred' = FALSE /\ LetGo(Writer, "snap") /\ UNCHANGED <<held, env>>
           \/ /\ state # saved /\ BackupDue /\ lock' = Writer /\ Goto(Writer, "backup", "copy")
              /\ UNCHANGED <<deferred, held, slot, closed, mine, val, env>>
           \/ /\ state # saved /\ ~BackupDue /\ held' = TRUE /\ LetGo(Writer, "second")
              /\ UNCHANGED <<deferred, env>>

Second ==
  \/ TakeSlot(Writer, "second", "save")
  \/ ~allowed /\ Stopped("second")

End ==
  /\ Goto(Writer, "end", "idle") /\ any' = Waiting /\ power' = FALSE
  /\ again' = (IF ~Waiting /\ ~pending THEN "no" ELSE IF power THEN "power" ELSE "timed")
  /\ UNCHANGED <<flash, entry, snap, kicked, sync, env, past>>

WriterRuns == Run \/ Top \/ Backup \/ Second \/ End

-----------------------------------------------------------------------------
(* Save Backup: requestSnapshot on the web task, snapshotSteps on the       *)
(* writer's or the restart's.                                               *)

Ask(as, more) ==
  /\ gen' = gen + 1 /\ result' = as /\ asked' = {primary} \ {None, Torn} /\ pending' = more
  /\ UNCHANGED <<done, spoilt, overtaken, taken>>

\* Now, if nothing waits and the lock and the gate are free; else queued.
Request ==
  /\ pc[Web] = "idle" /\ gen < MaxRequests /\ UNCHANGED <<entry, env>>
  /\ \/ /\ ~any /\ ~pending /\ lock = NoTask /\ slot = NoTask /\ allowed
        /\ LET to == IF primary = None \/ stale THEN "idle" ELSE "freeze"
           IN  pc' = [pc EXCEPT ![Web] = to]
        /\ IF primary = None \/ stale THEN UNCHANGED <<lock, slot>> ELSE lock' = Web /\ slot' = Web
        /\ Ask(IF primary = None THEN "done" ELSE IF stale THEN "failed" ELSE "none", FALSE)
        /\ UNCHANGED <<flash, copied, failed, job, closed, mine, val>>
     \/ /\ Ask("queued", TRUE) /\ copied' = FALSE /\ failed' = FALSE /\ kicked' = TRUE
        /\ UNCHANGED <<flash, any, again, power, sync, pc>>

\* The backup becomes the copy, whatever that is.
Replace(file) == backup' = file /\ spoilt' = (spoilt \/ file = Torn)

Freeze ==
  /\ allowed /\ Goto(Web, "freeze", "freezing") /\ btmp' = Torn
  /\ UNCHANGED <<primary, backup, entry, snap, job, sync, env, past>>

FreezeDone ==
  /\ LetGo(Web, "idle")
  /\ \/ pc[Web] = "freezing" /\ allowed /\ Replace(primary) /\ btmp' = None /\ result' = "done" /\ UNCHANGED env
     \/ /\ result' = "failed" /\ UNCHANGED <<backup, spoilt>>
        /\ \/ pc[Web] = "freeze" /\ ~allowed /\ UNCHANGED <<btmp, env>>
           \/ pc[Web] = "freezing" /\ ~allowed /\ btmp' = primary /\ UNCHANGED env
           \/ pc[Web] = "freezing" /\ Strikes("copy") /\ btmp' = None
  /\ UNCHANGED <<primary, entry, pending, gen, copied, failed, job, done, asked, overtaken, taken>>

\* A step of the queued run: a slot, then the lock, then the restart's word.
Left(t, to) == Goto(t, "snap", to) /\ UNCHANGED <<flash, entry, snap, any, kicked, again, env, past>>
SnapEnd(t) == IF t = Loop THEN "after" ELSE "end"

Snap(t) ==
  /\ UNCHANGED <<lock, slot, closed, val>>
  /\ \/ ~pending /\ Left(t, SnapEnd(t)) /\ UNCHANGED <<mine, power>>
     \/ pending /\ ~allowed /\ Left(t, SnapEnd(t)) /\ power' = (t = Writer) /\ UNCHANGED mine
     \/ pending /\ Left(t, "snap copy") /\ mine' = [mine EXCEPT ![t] = gen] /\ UNCHANGED power

\* Not run: it stays queued.  A busy lock is tried again soon.
SnapStops(t, from) ==
  /\ pc[t] = from
  /\ \/ ~allowed /\ slot # t
     \/ slot = t /\ (lock # NoTask \/ Closed(t))
  /\ power' = (IF t = Writer THEN lock = NoTask \/ ~allowed ELSE power)
  /\ LetGo(t, SnapEnd(t))
  /\ UNCHANGED <<flash, entry, snap, any, kicked, again, env, past>>

SnapSlot(t) ==
  \/ pc[t] = "snap copy" /\ ~copied /\ primary # None /\ ~stale /\ slot # t /\ TakeSlot(t, "snap copy", "snap copy")
  \/ slot # t /\ TakeSlot(t, "snap rename", "snap rename")

\* Fault: a step that failed is not noted.
Noted_Forgiving(t, ok) ==
  copied' = (copied \/ gen = mine[t]) /\ UNCHANGED <<pending, gen, failed, result>>

\* A new request meanwhile starts the run over.
Noted(t, ok) ==
  /\ copied' = (copied \/ gen = mine[t]) /\ failed' = (failed \/ (gen = mine[t] /\ ~ok))
  /\ UNCHANGED <<pending, gen, result>>

SnapSkip(t) ==
  /\ (copied \/ primary = None) /\ Goto(t, "snap copy", "snap done") /\ slot # t
  /\ UNCHANGED <<flash, entry, snap, job, sync, env, past>>

SnapStale(t) ==
  /\ ~copied /\ primary # None /\ stale /\ Goto(t, "snap copy", "snap done") /\ slot # t
  /\ Noted(t, FALSE) /\ UNCHANGED <<flash, entry, job, sync, env, past>>

SnapCopy(t) ==
  /\ pc[t] = "snap copy" /\ slot = t /\ lock = NoTask /\ ~Closed(t)
  /\ \/ allowed /\ primary # None /\ btmp' = Torn /\ lock' = t /\ Goto(t, "snap copy", "snap copying")
        /\ UNCHANGED <<snap, slot>>
     \/ (~allowed \/ primary = None) /\ LetGo(t, "snap done") /\ Noted(t, FALSE) /\ UNCHANGED btmp
  /\ UNCHANGED <<primary, backup, entry, job, closed, mine, val, env, past>>

SnapCopied(t) ==
  /\ pc[t] = "snap copying" /\ UNCHANGED <<primary, backup, entry, job, past>>
  /\ \/ btmp' = primary /\ LetGo(t, "snap rename") /\ UNCHANGED <<snap, env>>
     \/ Strikes("copy") /\ btmp' = None /\ LetGo(t, "snap done") /\ Noted(t, FALSE)

\* The lock was free between the steps: a save may have used the same copy.
SnapRename(t) ==
  /\ pc[t] = "snap rename" /\ slot = t /\ lock = NoTask /\ ~Closed(t) /\ LetGo(t, "snap done")
  /\ \/ allowed /\ btmp # None /\ Replace(btmp) /\ btmp' = None /\ Noted(t, TRUE)
     \/ (~allowed \/ btmp = None) /\ Noted(t, FALSE)
        /\ btmp' = (IF allowed THEN None ELSE btmp) /\ UNCHANGED <<backup, spoilt>>
  /\ UNCHANGED <<primary, entry, job, env, done, asked, overtaken, taken>>

Ended(t) == gen = mine[t]

SnapDone(t) ==
  /\ Goto(t, "snap done", "snap")
  /\ IF Ended(t) THEN pending' = FALSE /\ result' = (IF failed THEN "failed" ELSE "done")
     ELSE UNCHANGED <<pending, result>>
  /\ asked' = (IF Ended(t) /\ failed THEN {} ELSE asked)
  /\ mine' = [mine EXCEPT ![t] = 0]
  /\ UNCHANGED <<flash, entry, gen, copied, failed, job, lock, slot, closed, val, env, done, spoilt, overtaken, taken>>

SnapSteps(t) ==
  \/ Snap(t) \/ SnapSlot(t) \/ SnapStops(t, "snap copy") \/ SnapStops(t, "snap rename")
  \/ SnapSkip(t) \/ SnapStale(t) \/ SnapCopy(t) \/ SnapCopied(t) \/ SnapRename(t) \/ SnapDone(t)

-----------------------------------------------------------------------------
(* The restart: flushDeferredNow on the loop task, then what the caller     *)
(* wants last (here the factory reset's wipe), then the reset.              *)

Still == UNCHANGED <<flash, entry, snap, job, env, past>>

Close ==
  Goto(Loop, "idle", "closing") /\ closed' = TRUE /\ Still /\ UNCHANGED <<lock, slot, mine, val>>

\* It waits for the step under way, which takes less than the wait's bound.
Closing == lock = NoTask /\ Goto(Loop, "closing", "flush") /\ Still /\ UNCHANGED sync

Flush ==
  \/ Waiting /\ TakeSlot(Loop, "flush", "save")
  \/ (~Waiting \/ ~allowed) /\ Goto(Loop, "flush", "snap") /\ Still /\ UNCHANGED sync

\* Its own gate slot, so no save's or Save Backup's files are under way.
Wipe ==
  \/ /\ Goto(Loop, "after", "wipe") /\ allowed /\ slot = NoTask /\ slot' = Loop
     /\ primary' = None /\ done' = None /\ asked' = {}
     /\ UNCHANGED <<backup, btmp, entry, snap, job, lock, closed, mine, val, env>>
     /\ UNCHANGED <<spoilt, overtaken, taken>>
  \/ /\ Goto(Loop, "wipe", "wiped") /\ allowed /\ backup' = None /\ btmp' = None
     /\ UNCHANGED <<primary, entry, snap, job, sync, env, past>>

\* RAM is lost; what the flash holds stays.
Reboot ==
  /\ state' = 1 /\ saved' = None /\ deferred' = FALSE /\ late' = FALSE
  /\ stale' = FALSE /\ held' = FALSE /\ any' = FALSE
  /\ pending' = FALSE /\ gen' = 0 /\ copied' = FALSE /\ failed' = FALSE /\ result' = "none"
  /\ kicked' = FALSE /\ again' = "no" /\ power' = FALSE
  /\ lock' = NoTask /\ slot' = NoTask /\ closed' = FALSE
  /\ mine' = [t \in Tasks |-> 0] /\ val' = 1
  /\ pc' = [Rest EXCEPT ![Loop] = "load", ![Web] = "off"]
  /\ asked' = {} /\ UNCHANGED <<flash, done, spoilt, overtaken, taken>>

Reset == pc[Loop] \in {"after", "wipe", "wiped"} /\ Reboot /\ UNCHANGED env

PowerCut == Strikes("cut") /\ Reboot

\* PowerGuard pauses writes, and allows them again.
SetSupply ==
  /\ UNCHANGED <<flash, entry, snap, job, sync, pc, past>>
  /\ \/ allowed /\ allowed' = FALSE /\ "supply" \in Faults /\ faults < MaxFaults /\ faults' = faults + 1
     \/ ~allowed /\ allowed' = TRUE /\ UNCHANGED faults

-----------------------------------------------------------------------------
Next ==
  \/ Load \/ Serve \/ WriterRuns \/ Request \/ Freeze \/ FreezeDone
  \/ Close \/ Closing \/ Flush \/ Wipe \/ Reset \/ PowerCut \/ SetSupply
  \/ \E t \in Tasks : Change(t) \/ Save(t)
  \/ \E t \in {Loop, Writer} : SnapSteps(t)

Spec == Init /\ [][Next]_vars

-----------------------------------------------------------------------------
Files == {None, Torn} \cup 1..MaxState
OnFlash == {"copy", "copying", "open", "write", "freeze", "freezing", "snap copying"}

\* The entry, its files and the tasks; who has a file under way holds the lock,
\* and nobody else holds the gate's slot.
TypeOK ==
  /\ {primary, backup, btmp, done} \subseteq Files /\ asked \subseteq 1..MaxState
  /\ state \in 1..MaxState /\ saved \in 0..MaxState /\ val \in 1..MaxState
  /\ {lock, slot} \subseteq Tasks \cup {NoTask}
  /\ result \in {"none", "queued", "done", "failed"} /\ again \in {"no", "timed", "power"}
  /\ \A t \in Tasks : pc[t] \in OnFlash => lock = t /\ slot \in {t, NoTask}

\* "A cut then would leave neither" (ConfigManager.cpp, atomicWrite): from the
\* first save on, one of the two files verifies at every moment.
OneVerifies == done # None => Good(primary) \/ Good(backup)

\* A save that succeeded survives: a boot now would find it.
SaveKept == done # None => spoilt \/ overtaken \/ Recovered = done

\* ConfigManager.h of backupForSave: on a failure the save "stays deferred".
\* A changed state always has somebody that will write it.
StaysDeferred ==
  Up /\ ~closed /\ state # saved /\ Recovered # None =>
    deferred \/ late \/ \E t \in Tasks : pc[t] \in {"save", "copy", "copying", "open", "write"}

\* The same, once the writer has said what it did with a late save; and while
\* nobody writes, what a boot would load is the state.
NothingForgotten ==
  /\ taken \/ StaysDeferred
  /\ Up /\ ~closed /\ state = saved /\ lock = NoTask =>
       spoilt \/ overtaken \/ Recovered = state

\* A Save Backup that is reported done has the backup hold what was on flash
\* when it was asked for, or something saved since.
BackupIsCurrent == result = "done" /\ asked # {} => spoilt \/ backup \in asked
==============================================================================
