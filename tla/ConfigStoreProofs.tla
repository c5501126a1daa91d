-------------------------- MODULE ConfigStoreProofs --------------------------
(***************************************************************************)
(* What the config store promises, for any number of versions, faults and  *)
(* requests.                                                               *)
(***************************************************************************)
EXTENDS ConfigStore, TLAPS

USE StoreAssumption DEF StoreAssumption

Saving == {"save", "copy", "copying", "open", "write"}
Snapping == {"snap", "snap copy", "snap copying", "snap rename", "snap done"}
WebAt == {"off", "idle", "freeze", "freezing"} \cup Saving
WriterAt == {"idle", "top", "backup", "second", "end"} \cup Saving \cup Snapping
Restarting == {"closing", "flush", "after", "wipe", "wiped"} \cup Snapping
LoopAt == {"load", "idle"} \cup Saving \cup Restarting
SlotKept == OnFlash \cup {"backup", "wipe", "wiped"}

\* What every variable is, and where each task can be.
FilesInv == {primary, backup, btmp, done} \subseteq Files /\ asked \subseteq 1..MaxState
VersionInv == state \in 1..MaxState /\ saved \in 0..MaxState /\ val \in 1..MaxState
HolderInv == {lock, slot} \subseteq Tasks \cup {NoTask}
RequestInv ==
  /\ result \in {"none", "queued", "done", "failed"} /\ again \in {"no", "timed", "power"}
  /\ faults \in Nat /\ gen \in Nat /\ mine \in [Tasks -> Nat]
  /\ \A t \in Tasks : mine[t] <= gen

PcInv ==
  /\ pc \in [Tasks -> WebAt \cup WriterAt \cup LoopAt]
  /\ pc[Web] \in WebAt /\ pc[Writer] \in WriterAt /\ pc[Loop] \in LoopAt

TypeInv == FilesInv /\ VersionInv /\ HolderInv /\ RequestInv /\ PcInv

\* Who holds the config lock and the gate's slot is told by where it is.
LockInv == \A t \in Tasks : lock = t <=> pc[t] \in OnFlash
SlotInv ==
  /\ \A t \in Tasks : pc[t] \in SlotKept => slot = t
  /\ pc[Writer] = "save" => slot = Writer
  /\ \A t \in Tasks : slot = t => pc[t] \in SlotKept \cup {"save", "snap copy", "snap rename"}

\* The loop task stays in the restart, and a boot starts with nobody at work.
RestartInv == pc[Loop] \in Restarting => closed
BootInv ==
  ~Up => /\ pc[Web] = "off" /\ pc[Writer] = "idle" /\ lock = NoTask /\ slot = NoTask
         /\ asked = {} /\ state = 1 /\ saved = None /\ ~deferred /\ ~late /\ ~stale /\ ~held
         /\ ~pending /\ ~copied /\ result = "none" /\ ~closed

\* What is known of the files where a task is between two steps: an open file is
\* torn, one that is copied is good to copy, one that is opened has its backup.
TornInv ==
  /\ stale => ~Good(primary)
  /\ \A t \in Tasks : pc[t] = "write" => primary = Torn
CopyInv ==
  /\ \A t \in Tasks : pc[t] \in {"copy", "copying"} => ~held /\ ~stale /\ primary # None
  /\ pc[Web] \in {"freeze", "freezing"} => primary # None
HeldInv ==
  /\ \A t \in Savers : pc[t] = "open" => held \/ stale \/ primary = None
  /\ pc[Writer] \in {"open", "second", "save"} /\ ~overtaken => held \/ stale \/ primary = None

\* What was saved last is what RAM takes for saved.
DoneInv ==
  /\ Up /\ Good(primary) => done # None
  /\ Up /\ saved # None /\ ~closed => saved = done

WipedInv == pc[Loop] \in {"wipe", "wiped"} => done = None /\ primary = None

FileInv == TornInv /\ CopyInv /\ HeldInv /\ DoneInv

\* Where the version that a boot would find is: without a backup it is in the
\* primary; the backup that is held is it, and so is what may replace the backup.
GoodInv == Up /\ ~spoilt /\ done # None /\ ~held /\ ~stale => Good(primary)
Undisturbed == done # None /\ ~spoilt /\ ~overtaken
BackupHeldInv ==
  Undisturbed /\ held /\ Good(primary) => backup = done /\ (Good(btmp) => btmp = done)
Renames(t) ==
  Undisturbed /\ pc[t] = "snap rename" /\ Good(btmp) /\ ~Good(primary) => btmp = done
RenameInv == \A t \in Tasks : Renames(t)

KeptInv == GoodInv /\ SaveKept /\ BackupHeldInv /\ RenameInv

\* Who writes what is not yet written.
OnTheWay(t) == pc[t] \in {"save", "open", "write"} \/ (t # Writer /\ pc[t] \in {"copy", "copying"})
Writing(t) == pc[t] \in {"open", "write"} \/ (t # Writer /\ pc[t] \in {"copy", "copying"})
Blank ==
  /\ saved = None /\ ~Good(primary) /\ ~Good(backup)
  /\ \A t \in Tasks : pc[t] = "snap rename" => ~Good(btmp)
Covered == deferred \/ late \/ Blank \/ \E t \in Tasks : OnTheWay(t)

Unwritten == Up /\ ~closed /\ state # saved
OwedInv == Unwritten => taken \/ Covered
TakenUpInv == Unwritten /\ pc[Writer] = "backup" => Covered
NewerInv == \A t \in Tasks : Writing(t) /\ val # state => late \/ \E u \in Tasks \ {t} : pc[u] = "save"

CoverInv == OwedInv /\ TakenUpInv /\ NewerInv

\* A copy made for the request under way, or one just to be renamed.
RunsFor(t) == mine[t] = gen
Frozen ==
  \/ result = "done"
  \/ /\ copied /\ ~failed
     /\ pending \/ \E t \in Tasks : RunsFor(t) /\ pc[t] \in {"snap copy", "snap copying", "snap rename", "snap done"}
  \/ \E t \in Tasks : pc[t] = "snap done" /\ RunsFor(t) /\ ~failed
FreshCopy ==
  Good(btmp) /\ (\E t \in {Loop, Writer} : pc[t] = "snap rename") => btmp \in asked

AskedInv ==
  asked # {} => (Good(primary) => primary \in asked) /\ primary # None /\ done # None
CopyAskedInv ==
  asked # {} => \A t \in {Loop, Writer} :
    pc[t] = "snap rename" /\ RunsFor(t) /\ Good(btmp) => btmp \in asked
FrozenInv == asked # {} /\ Frozen => spoilt \/ (backup \in asked /\ FreshCopy)

BackupInv == AskedInv /\ CopyAskedInv /\ FrozenInv

IInv ==
  /\ TypeInv /\ LockInv /\ SlotInv /\ RestartInv /\ BootInv /\ WipedInv
  /\ FileInv /\ KeptInv /\ CoverInv /\ BackupInv

\* What Save Backup's last step on the web task leaves of the backup.
LEMMA FreezeMakes ==
  ASSUME FreezeDone
  PROVE  \/ UNCHANGED <<backup, spoilt>> /\ result' = "failed"
         \/ /\ backup' = primary /\ btmp' = None /\ pc[Web] = "freezing"
            /\ (primary = Torn => spoilt') /\ (spoilt => spoilt')
  BY Zenon DEF FreezeDone, Replace

\* What the rename of the queued run leaves of it.
LEMMA RenameMakes ==
  ASSUME NEW t \in {Loop, Writer}, SnapRename(t)
  PROVE  \/ UNCHANGED <<backup, spoilt>> /\ Noted(t, FALSE)
         \/ /\ backup' = btmp /\ btmp # None /\ btmp' = None /\ Noted(t, TRUE)
            /\ (btmp = Torn => spoilt') /\ (spoilt => spoilt')
  BY Zenon DEF SnapRename, Replace

USE DEF flash, entry, snap, job, sync, env, past

\* A torn file that was taken stays noted.
LEMMA SpoiltStays ==
  /\ FreezeDone => (spoilt => spoilt')
  /\ \A t \in {Loop, Writer} : SnapRename(t) => (spoilt => spoilt')
  BY Zenon DEF FreezeDone, SnapRename, Replace

\* Where a task goes after its save.
LEMMA ThenAt ==
  ASSUME NEW t \in Tasks
  PROVE  /\ t = Web => Then(t) = "idle"
         /\ t = Loop => Then(t) = IF closed THEN "snap" ELSE "idle"
         /\ t = Writer => Then(t) \in {"snap", "end"}
  BY DEF Then, Tasks

\* What a file can hold.
LEMMA Kinds ==
  /\ ~Good(None) /\ ~Good(Torn) /\ None # Torn
  /\ \A f \in Files : Good(f) <=> f \notin {None, Torn}
  /\ \A f \in 1..MaxState : Good(f) /\ f \in Files
  BY DEF Good, None, Torn, Files

\* One task at most is in the middle of its files.
LEMMA Alone ==
  ASSUME IInv, NEW t \in Tasks, pc[t] \in OnFlash
  PROVE  \A u \in Tasks \ {t} : pc[u] \notin OnFlash
  BY DEF IInv, LockInv

\* With the gate free nobody is in the middle of anything.
LEMMA Quiet ==
  ASSUME IInv, slot = NoTask
  PROVE  \A u \in Tasks : pc[u] \notin SlotKept
  BY DEF IInv, SlotInv

\* A task that moves to one of its places leaves all where they can be.
LEMMA Moves ==
  ASSUME PcInv, NEW t \in Tasks, NEW a, pc' = [pc EXCEPT ![t] = a],
         t = Web => a \in WebAt, t = Writer => a \in WriterAt, t = Loop => a \in LoopAt
  PROVE  PcInv'
  BY DEF PcInv, Tasks

\* The files and the versions they hold.
LEMMA FilesStep ==
  ASSUME IInv, [Next]_vars
  PROVE  FilesInv'
<1>1. CASE Load \/ Serve \/ Run \/ Top \/ Backup \/ Second \/ End \/ Request \/ Freeze \/
           FreezeDone \/ Close \/ Closing
  BY <1>1 DEF IInv, TypeInv, FilesInv, VersionInv, Files, None, Torn, Load, Recovered,
    Good, Goto, Serve, Run, Top, Stopped, TakeSlot, Backup, Closed, LetGo, Strikes,
    Second, End, Request, Ask, Freeze, FreezeDone, Replace, Close, Still, Closing
<1>2. CASE Flush \/ Wipe \/ Reset \/ PowerCut \/ SetSupply
  BY <1>2 DEF IInv, TypeInv, FilesInv, VersionInv, Files, None, Torn, Flush, Still,
    TakeSlot, Goto, Wipe, Reset, PowerCut, Reboot, Rest, Strikes, SetSupply
<1>3. ASSUME NEW t \in Tasks,
             Change(t) \/ SaveLate(t) \/ SaveClosed(t) \/ SaveUnread(t) \/
             SaveUnchanged(t) \/ SaveRefused(t) \/ Begin(t) \/ Copy(t) \/ CopyDone(t) \/
             CopyFails(t) \/ Open(t) \/ OpenPaused(t)
      PROVE  FilesInv'
  BY <1>3 DEF IInv, TypeInv, FilesInv, VersionInv, Files, None, Torn, Change, Goto,
    SaveLate, Defer, LetGo, SaveClosed, SaveUnread, Strikes, SaveUnchanged, SaveRefused,
    Begin, Copy, CopyDone, CopyFails, NoBackup, Failed, Open, OpenPaused
<1>4. ASSUME NEW t \in Tasks, Write(t) \/ WriteFails(t) \/ WriteShort(t) PROVE FilesInv'
  BY <1>4 DEF IInv, TypeInv, FilesInv, VersionInv, Files, None, Torn, Write,
    TakenAsWritten, LetGo, WriteFails, Failed, Defer, Strikes, WriteShort
<1>5. ASSUME NEW t \in {Loop, Writer},
             Snap(t) \/ SnapSlot(t) \/
             SnapStops(t, "snap copy") \/ SnapStops(t, "snap rename") \/ SnapSkip(t) \/
             SnapStale(t) \/ SnapCopy(t) \/ SnapCopied(t) \/ SnapRename(t) \/
             SnapDone(t)
      PROVE  FilesInv'
  BY <1>5 DEF IInv, TypeInv, FilesInv, VersionInv, Files, None, Torn, Tasks, Snap,
    SnapEnd, Left, Goto, SnapSlot, TakeSlot, SnapStops, LetGo, SnapSkip, SnapStale,
    Noted, SnapCopy, SnapCopied, Strikes, SnapRename, Replace, SnapDone, Ended
<1>6. CASE UNCHANGED vars
  BY <1>6 DEF IInv, TypeInv, FilesInv, VersionInv, Files, None, Torn, vars
<1>. QED  BY <1>1, <1>2, <1>3, <1>4, <1>5, <1>6 DEF Next, WriterRuns, Save, SnapSteps

\* The versions in RAM.
LEMMA VersionStep ==
  ASSUME IInv, [Next]_vars
  PROVE  VersionInv'
<1>1. CASE Load \/ Serve \/ Run \/ Top \/ Backup \/ Second \/ End \/ Request \/ Freeze \/
           FreezeDone \/ Close \/ Closing
  BY <1>1 DEF IInv, TypeInv, FilesInv, VersionInv, Files, None, Torn, Load, Recovered,
    Good, Goto, Serve, Run, Top, Stopped, TakeSlot, Backup, Closed, LetGo, Strikes,
    Second, End, Request, Ask, Freeze, FreezeDone, Replace, Close, Still, Closing
<1>2. CASE Flush \/ Wipe \/ Reset \/ PowerCut \/ SetSupply
  BY <1>2 DEF IInv, TypeInv, FilesInv, VersionInv, Files, None, Torn, Flush, Still,
    TakeSlot, Goto, Wipe, Reset, PowerCut, Reboot, Rest, Strikes, SetSupply
<1>3. ASSUME NEW t \in Tasks,
             Begin(t) \/ Copy(t) \/ CopyDone(t) \/ CopyFails(t) \/ Open(t) \/
             OpenPaused(t)
      PROVE  VersionInv'
  BY <1>3 DEF IInv, TypeInv, FilesInv, VersionInv, Files, None, Torn, Begin, Goto, Copy,
    CopyDone, LetGo, CopyFails, NoBackup, Failed, Defer, Strikes, Open, OpenPaused
<1>4. ASSUME NEW t \in Tasks, WriteShort(t) PROVE VersionInv'
  BY <1>4 DEF IInv, TypeInv, FilesInv, VersionInv, Files, None, Torn, WriteShort,
    TakenAsWritten, LetGo, Strikes
<1>5. ASSUME NEW t \in Tasks,
             Change(t) \/ SaveLate(t) \/ SaveClosed(t)
      PROVE  VersionInv'
  BY <1>5 DEF IInv, TypeInv, FilesInv, VersionInv, Files, None, Torn, Change, Goto,
    SaveLate, Defer, LetGo, SaveClosed
<1>6. ASSUME NEW t \in Tasks,
             SaveUnread(t) \/ SaveUnchanged(t) \/ SaveRefused(t)
      PROVE  VersionInv'
  BY <1>6 DEF IInv, TypeInv, FilesInv, VersionInv, Files, None, Torn, SaveUnread, Defer,
    LetGo, Strikes, SaveUnchanged, SaveRefused
<1>7. ASSUME NEW t \in Tasks, Write(t) PROVE VersionInv'
  BY <1>7 DEF IInv, TypeInv, FilesInv, VersionInv, Files, None, Torn, Write,
    TakenAsWritten, LetGo
<1>8. ASSUME NEW t \in Tasks, WriteFails(t) PROVE VersionInv'
  BY <1>8 DEF IInv, TypeInv, FilesInv, VersionInv, Files, None, Torn, WriteFails,
    Failed, Defer, LetGo, Strikes
<1>9. ASSUME NEW t \in {Loop, Writer},
             Snap(t) \/ SnapSlot(t) \/ SnapSkip(t) \/ SnapStale(t) \/ SnapCopy(t) \/
             SnapRename(t) \/ SnapDone(t)
      PROVE  VersionInv'
  BY <1>9 DEF IInv, TypeInv, FilesInv, VersionInv, Files, None, Torn, Tasks, Snap,
    SnapEnd, Left, Goto, SnapSlot, TakeSlot, SnapSkip, SnapStale, Noted, SnapCopy,
    LetGo, SnapRename, Replace, SnapDone, Ended
<1>10. ASSUME NEW t \in {Loop, Writer},
              SnapStops(t, "snap copy") \/ SnapStops(t, "snap rename") \/
              SnapCopied(t)
       PROVE  VersionInv'
  <2>1. val' \in {val, 1} /\ UNCHANGED <<state, saved>>
    BY <1>10 DEF SnapStops, SnapEnd, LetGo, SnapCopied, Noted, Strikes
  <2>. QED  BY <2>1 DEF IInv, TypeInv, VersionInv
<1>11. CASE UNCHANGED vars
  BY <1>11 DEF IInv, TypeInv, FilesInv, VersionInv, Files, None, Torn, vars
<1>. QED  BY <1>1, <1>2, <1>3, <1>4, <1>5, <1>6, <1>7, <1>8, <1>9, <1>10, <1>11 DEF
  Next, WriterRuns, Save, SnapSteps

\* Who can hold the config lock and the gate.
LEMMA HolderStep ==
  ASSUME IInv, [Next]_vars
  PROVE  HolderInv'
<1>1. CASE Load \/ Serve \/ Run \/ Top \/ Backup \/ Second \/ End \/ Request \/ Freeze \/
           FreezeDone \/ Close \/ Closing
  BY <1>1 DEF IInv, TypeInv, HolderInv, Tasks, Load, Recovered, Good, Goto, Serve, Run,
    Top, Stopped, TakeSlot, Backup, Closed, LetGo, Strikes, Second, End, Request, Ask,
    Freeze, FreezeDone, Replace, Close, Still, Closing
<1>2. CASE Flush \/ Wipe \/ Reset \/ PowerCut \/ SetSupply
  BY <1>2 DEF IInv, TypeInv, HolderInv, Tasks, Flush, Still, TakeSlot, Goto, Wipe,
    Reset, PowerCut, Reboot, Rest, Strikes, SetSupply
<1>3. ASSUME NEW t \in Tasks,
             Change(t) \/ SaveLate(t) \/ SaveClosed(t) \/ SaveUnread(t) \/
             SaveUnchanged(t) \/ SaveRefused(t) \/ Begin(t) \/ Copy(t) \/ CopyDone(t) \/
             CopyFails(t) \/ Open(t) \/ OpenPaused(t)
      PROVE  HolderInv'
  BY <1>3 DEF IInv, TypeInv, HolderInv, Tasks, Change, Goto, SaveLate, Defer, LetGo,
    SaveClosed, SaveUnread, Strikes, SaveUnchanged, SaveRefused, Begin, Copy, CopyDone,
    CopyFails, NoBackup, Failed, Open, OpenPaused
<1>4. ASSUME NEW t \in Tasks,
             Write(t) \/ WriteFails(t) \/ WriteShort(t)
      PROVE  HolderInv'
  BY <1>4 DEF IInv, TypeInv, HolderInv, Tasks, Write, TakenAsWritten, LetGo, WriteFails,
    Failed, Defer, Strikes, WriteShort
<1>5. ASSUME NEW t \in {Loop, Writer},
             Snap(t) \/ SnapSlot(t) \/
             SnapStops(t, "snap copy") \/ SnapStops(t, "snap rename") \/ SnapSkip(t) \/
             SnapStale(t) \/ SnapCopy(t) \/ SnapCopied(t) \/ SnapRename(t) \/
             SnapDone(t)
      PROVE  HolderInv'
  BY <1>5 DEF IInv, TypeInv, HolderInv, Tasks, Snap, SnapEnd, Left, Goto, SnapSlot,
    TakeSlot, SnapStops, LetGo, SnapSkip, SnapStale, Noted, SnapCopy, SnapCopied,
    Strikes, SnapRename, Replace, SnapDone, Ended
<1>6. CASE UNCHANGED vars
  BY <1>6 DEF IInv, TypeInv, HolderInv, Tasks, vars
<1>. QED  BY <1>1, <1>2, <1>3, <1>4, <1>5, <1>6 DEF Next, WriterRuns, Save, SnapSteps

\* The requests: no run is for one that was not yet made.
LEMMA RequestStep ==
  ASSUME IInv, [Next]_vars
  PROVE  RequestInv'
<1>1. CASE Load \/ Serve \/ Run \/ Top \/ Backup \/ Second \/ End \/ Request \/ Freeze \/
           FreezeDone \/ Close \/ Closing
  BY <1>1 DEF IInv, TypeInv, RequestInv, Load, Recovered, Good, Goto, Serve, Run, Top,
    Stopped, TakeSlot, Backup, Closed, LetGo, Strikes, Second, End, Request, Ask,
    Freeze, FreezeDone, Replace, Close, Still, Closing
<1>2. CASE Flush \/ Wipe \/ Reset \/ PowerCut \/ SetSupply
  BY <1>2 DEF IInv, TypeInv, RequestInv, Flush, Still, TakeSlot, Goto, Wipe, Reset,
    PowerCut, Reboot, Rest, Strikes, SetSupply
<1>3. ASSUME NEW t \in Tasks,
             Begin(t) \/ Copy(t) \/ CopyDone(t) \/ CopyFails(t) \/ Open(t) \/
             OpenPaused(t)
      PROVE  RequestInv'
  BY <1>3 DEF IInv, TypeInv, RequestInv, Begin, Goto, Copy, CopyDone, LetGo, CopyFails,
    NoBackup, Failed, Defer, Strikes, Open, OpenPaused
<1>4. ASSUME NEW t \in Tasks, WriteShort(t) PROVE RequestInv'
  BY <1>4 DEF IInv, TypeInv, RequestInv, WriteShort, TakenAsWritten, LetGo, Strikes
<1>5. ASSUME NEW t \in Tasks,
             Change(t) \/ SaveLate(t) \/ SaveClosed(t)
      PROVE  RequestInv'
  BY <1>5 DEF IInv, TypeInv, RequestInv, Change, Goto, SaveLate, Defer, LetGo,
    SaveClosed
<1>6. ASSUME NEW t \in Tasks, Write(t) PROVE RequestInv'
  BY <1>6 DEF IInv, TypeInv, RequestInv, Write, TakenAsWritten, LetGo
<1>7. ASSUME NEW t \in Tasks, WriteFails(t) PROVE RequestInv'
  BY <1>7 DEF IInv, TypeInv, RequestInv, WriteFails, Failed, Defer, LetGo, Strikes
<1>8. ASSUME NEW t \in Tasks, SaveRefused(t) PROVE RequestInv'
  BY <1>8 DEF IInv, TypeInv, RequestInv, SaveRefused, Defer, LetGo
<1>9. ASSUME NEW t \in Tasks, SaveUnread(t) PROVE RequestInv'
  BY <1>9 DEF IInv, TypeInv, RequestInv, SaveUnread, Defer, LetGo, Strikes
<1>10. ASSUME NEW t \in Tasks, SaveUnchanged(t) PROVE RequestInv'
  BY <1>10 DEF IInv, TypeInv, RequestInv, SaveUnchanged, LetGo
<1>11. ASSUME NEW t \in {Loop, Writer}, Snap(t) PROVE RequestInv'
  <2>1. /\ mine' = mine \/ mine' = [mine EXCEPT ![t] = gen]
        /\ UNCHANGED <<result, again, faults, gen>>
    BY <1>11 DEF Snap, SnapEnd, Left, Goto
  <2>. QED  BY <2>1 DEF IInv, TypeInv, RequestInv, Tasks
<1>12. ASSUME NEW t \in {Loop, Writer},
              SnapSlot(t) \/ SnapStops(t, "snap copy") \/ SnapStops(t, "snap rename") \/
              SnapSkip(t) \/ SnapStale(t) \/ SnapCopy(t) \/ SnapRename(t)
       PROVE  RequestInv'
  BY <1>12 DEF IInv, TypeInv, RequestInv, Tasks, SnapSlot, TakeSlot, Goto, SnapStops,
    SnapEnd, LetGo, SnapSkip, SnapStale, Noted, SnapCopy, SnapRename, Replace
<1>13. ASSUME NEW t \in {Loop, Writer}, SnapCopied(t) PROVE RequestInv'
  <2>1. faults' \in {faults, faults + 1} /\ UNCHANGED <<result, again, gen, mine>>
    BY <1>13 DEF SnapCopied, Noted, LetGo, Strikes
  <2>. QED  BY <2>1 DEF IInv, TypeInv, RequestInv, Tasks
<1>14. ASSUME NEW t \in {Loop, Writer}, SnapDone(t) PROVE RequestInv'
  <2>1. /\ result' \in {result, "done", "failed"} /\ mine' = [mine EXCEPT ![t] = 0]
        /\ UNCHANGED <<again, gen, faults>>
    BY <1>14 DEF SnapDone, Ended, Goto
  <2>. QED  BY <2>1 DEF IInv, TypeInv, RequestInv, Tasks
<1>15. CASE UNCHANGED vars
  BY <1>15 DEF IInv, TypeInv, RequestInv, vars
<1>. QED  BY <1>1, <1>2, <1>3, <1>4, <1>5, <1>6, <1>7, <1>8, <1>9, <1>10, <1>11, <1>12,
  <1>13, <1>14, <1>15 DEF Next, WriterRuns, Save, SnapSteps

\* Each task stays at the places that are its own.
LEMMA PcStep ==
  ASSUME IInv, [Next]_vars
  PROVE  PcInv'
<1>1. CASE Load
  <2>1. \E a \in {"idle", "save"} : pc' = [pc EXCEPT ![Loop] = a]
    BY <1>1 DEF Load, Recovered, Good, Goto
  <2>. QED  BY <2>1, Moves DEF IInv, TypeInv, Tasks, WebAt, WriterAt, LoopAt, Saving,
    Snapping, Restarting, OnFlash
<1>2. CASE Serve \/ Run
  BY <1>2, ThenAt DEF IInv, TypeInv, PcInv, Tasks, WebAt, WriterAt, LoopAt, Saving,
    Snapping, Restarting, OnFlash, Serve, Goto, Run
<1>3. CASE Top
  BY ZenonT(60), <1>3, ThenAt DEF IInv, TypeInv, PcInv, Tasks, WebAt, WriterAt, LoopAt,
    Saving, Snapping, Restarting, OnFlash, Top, Stopped, TakeSlot, Goto
<1>4. CASE Close
  BY <1>4, ThenAt DEF IInv, TypeInv, PcInv, Tasks, WebAt, WriterAt, LoopAt, Saving,
    Snapping, Restarting, OnFlash, Close, Still, Goto
<1>5. CASE Freeze
  BY <1>5, ThenAt DEF IInv, TypeInv, PcInv, Tasks, WebAt, WriterAt, LoopAt, Saving,
    Snapping, Restarting, OnFlash, Freeze, Goto
<1>6. CASE FreezeDone
  BY <1>6, ThenAt DEF IInv, TypeInv, PcInv, Tasks, WebAt, WriterAt, LoopAt, Saving,
    Snapping, Restarting, OnFlash, FreezeDone, Replace, LetGo, Strikes
<1>7. CASE End
  BY <1>7, ThenAt DEF IInv, TypeInv, PcInv, Tasks, WebAt, WriterAt, LoopAt, Saving,
    Snapping, Restarting, OnFlash, End, Goto
<1>8. CASE Wipe
  BY <1>8, ThenAt DEF IInv, TypeInv, PcInv, Tasks, WebAt, WriterAt, LoopAt, Saving,
    Snapping, Restarting, OnFlash, Wipe, Goto
<1>9. CASE Backup
  BY ZenonT(60), <1>9, ThenAt DEF IInv, TypeInv, PcInv, Tasks, WebAt, WriterAt, LoopAt,
    Saving, Snapping, Restarting, OnFlash, Backup, Closed, LetGo, Goto, Strikes
<1>10. CASE Second
  BY <1>10, ThenAt DEF IInv, TypeInv, PcInv, Tasks, WebAt, WriterAt, LoopAt, Saving,
    Snapping, Restarting, OnFlash, Second, Stopped, TakeSlot, Goto
<1>11. CASE Closing
  BY <1>11, ThenAt DEF IInv, TypeInv, PcInv, Tasks, WebAt, WriterAt, LoopAt, Saving,
    Snapping, Restarting, OnFlash, Closing, Still, Goto
<1>12. CASE Flush
  BY <1>12, ThenAt DEF IInv, TypeInv, PcInv, Tasks, WebAt, WriterAt, LoopAt, Saving,
    Snapping, Restarting, OnFlash, Flush, Still, TakeSlot, Goto
<1>13. CASE Reset \/ PowerCut \/ SetSupply
  BY <1>13, ThenAt DEF IInv, TypeInv, PcInv, Tasks, WebAt, WriterAt, LoopAt, Saving,
    Snapping, Restarting, OnFlash, Reset, PowerCut, Reboot, Rest, Strikes, SetSupply
<1>14. CASE Request
  <2>1. \E a \in {"idle", "freeze", pc[Web]} : pc' = [pc EXCEPT ![Web] = a]
    BY <1>14 DEF Request, Ask, IInv, TypeInv, PcInv
  <2>2. pc[Web] \in WebAt
    BY DEF IInv, TypeInv, PcInv
  <2>. QED  BY <2>1, <2>2, Moves DEF IInv, TypeInv, Tasks, WebAt, WriterAt, LoopAt,
    Saving, Snapping, Restarting, OnFlash
<1>15. ASSUME NEW t \in Tasks, WriteShort(t) PROVE PcInv'
  BY <1>15, ThenAt DEF IInv, TypeInv, PcInv, Tasks, WebAt, WriterAt, LoopAt, Saving,
    Snapping, Restarting, OnFlash, WriteShort, TakenAsWritten, LetGo, Strikes
<1>16. ASSUME NEW t \in Tasks, Write(t) PROVE PcInv'
  BY <1>16, ThenAt DEF IInv, TypeInv, PcInv, Tasks, WebAt, WriterAt, LoopAt, Saving,
    Snapping, Restarting, OnFlash, Write, TakenAsWritten, LetGo
<1>17. ASSUME NEW t \in Tasks, WriteFails(t) PROVE PcInv'
  BY <1>17, ThenAt DEF IInv, TypeInv, PcInv, Tasks, WebAt, WriterAt, LoopAt, Saving,
    Snapping, Restarting, OnFlash, WriteFails, Failed, Defer, LetGo, Strikes
<1>18. ASSUME NEW t \in Tasks, SaveClosed(t) PROVE PcInv'
  BY <1>18, ThenAt DEF IInv, TypeInv, PcInv, Tasks, WebAt, WriterAt, LoopAt, Saving,
    Snapping, Restarting, OnFlash, SaveClosed, LetGo
<1>19. ASSUME NEW t \in Tasks, SaveRefused(t) PROVE PcInv'
  BY <1>19, ThenAt DEF IInv, TypeInv, PcInv, Tasks, WebAt, WriterAt, LoopAt, Saving,
    Snapping, Restarting, OnFlash, SaveRefused, Defer, LetGo
<1>20. ASSUME NEW t \in Tasks, CopyDone(t) PROVE PcInv'
  BY ZenonT(60), <1>20, ThenAt DEF IInv, TypeInv, PcInv, Tasks, WebAt, WriterAt, LoopAt, Saving,
    Snapping, Restarting, OnFlash, CopyDone, LetGo, Goto
<1>21. ASSUME NEW t \in Tasks, OpenPaused(t) PROVE PcInv'
  BY <1>21, ThenAt DEF IInv, TypeInv, PcInv, Tasks, WebAt, WriterAt, LoopAt, Saving,
    Snapping, Restarting, OnFlash, OpenPaused, Failed, Defer, LetGo
<1>22. ASSUME NEW t \in Tasks, Change(t) PROVE PcInv'
  BY <1>22, ThenAt DEF IInv, TypeInv, PcInv, Tasks, WebAt, WriterAt, LoopAt, Saving,
    Snapping, Restarting, OnFlash, Change, Goto
<1>23. ASSUME NEW t \in Tasks, SaveLate(t) PROVE PcInv'
  BY <1>23, ThenAt DEF IInv, TypeInv, PcInv, Tasks, WebAt, WriterAt, LoopAt, Saving,
    Snapping, Restarting, OnFlash, SaveLate, Defer, LetGo
<1>24. ASSUME NEW t \in Tasks, SaveUnread(t) PROVE PcInv'
  BY <1>24, ThenAt DEF IInv, TypeInv, PcInv, Tasks, WebAt, WriterAt, LoopAt, Saving,
    Snapping, Restarting, OnFlash, SaveUnread, Defer, LetGo, Strikes
<1>25. ASSUME NEW t \in Tasks, SaveUnchanged(t) PROVE PcInv'
  BY <1>25, ThenAt DEF IInv, TypeInv, PcInv, Tasks, WebAt, WriterAt, LoopAt, Saving,
    Snapping, Restarting, OnFlash, SaveUnchanged, LetGo
<1>26. ASSUME NEW t \in Tasks, Begin(t) PROVE PcInv'
  BY <1>26, ThenAt DEF IInv, TypeInv, PcInv, Tasks, WebAt, WriterAt, LoopAt, Saving,
    Snapping, Restarting, OnFlash, Begin, Goto
<1>27. ASSUME NEW t \in Tasks, Copy(t) PROVE PcInv'
  BY <1>27, ThenAt DEF IInv, TypeInv, PcInv, Tasks, WebAt, WriterAt, LoopAt, Saving,
    Snapping, Restarting, OnFlash, Copy, Goto
<1>28. ASSUME NEW t \in Tasks, CopyFails(t) PROVE PcInv'
  BY ZenonT(60), <1>28, ThenAt DEF IInv, TypeInv, PcInv, Tasks, WebAt, WriterAt, LoopAt,
    Saving, Snapping, Restarting, OnFlash, CopyFails, NoBackup, Failed, Defer, LetGo,
    Strikes
<1>29. ASSUME NEW t \in Tasks, Open(t) PROVE PcInv'
  BY <1>29, ThenAt DEF IInv, TypeInv, PcInv, Tasks, WebAt, WriterAt, LoopAt, Saving,
    Snapping, Restarting, OnFlash, Open, Goto
<1>30. ASSUME NEW t \in {Loop, Writer}, Snap(t) PROVE PcInv'
  <2>1. \E a \in {"snap copy", SnapEnd(t)} : pc' = [pc EXCEPT ![t] = a]
    BY <1>30 DEF Snap, SnapEnd, Left, Goto
  <2>2. CASE t = Loop
    BY <2>1, <2>2, Moves DEF SnapEnd, IInv, TypeInv, Tasks, LoopAt, Restarting, Snapping
  <2>3. CASE t = Writer
    BY <2>1, <2>3, Moves DEF SnapEnd, IInv, TypeInv, Tasks, WriterAt, Snapping
  <2>. QED  BY <2>2, <2>3
<1>31. ASSUME NEW t \in {Loop, Writer}, SnapSkip(t) PROVE PcInv'
  BY <1>31, ThenAt DEF IInv, TypeInv, PcInv, Tasks, WebAt, WriterAt, LoopAt, Saving,
    Snapping, Restarting, OnFlash, SnapSkip, Goto
<1>32. ASSUME NEW t \in {Loop, Writer}, SnapDone(t) PROVE PcInv'
  BY <1>32, ThenAt DEF IInv, TypeInv, PcInv, Tasks, WebAt, WriterAt, LoopAt, Saving,
    Snapping, Restarting, OnFlash, SnapDone, Ended, Goto
<1>33. ASSUME NEW t \in {Loop, Writer}, SnapSlot(t) PROVE PcInv'
  BY ZenonT(60), <1>33, ThenAt DEF IInv, TypeInv, PcInv, Tasks, WebAt, WriterAt, LoopAt,
    Saving, Snapping, Restarting, OnFlash, SnapSlot, TakeSlot, Goto
<1>34. ASSUME NEW t \in {Loop, Writer},
              SnapStops(t, "snap copy") \/ SnapStops(t, "snap rename")
       PROVE  PcInv'
  BY ZenonT(60), <1>34, ThenAt DEF IInv, TypeInv, PcInv, Tasks, WebAt, WriterAt, LoopAt,
    Saving, Snapping, Restarting, OnFlash, SnapStops, SnapEnd, LetGo
<1>35. ASSUME NEW t \in {Loop, Writer}, SnapStale(t) PROVE PcInv'
  BY <1>35, ThenAt DEF IInv, TypeInv, PcInv, Tasks, WebAt, WriterAt, LoopAt, Saving,
    Snapping, Restarting, OnFlash, SnapStale, Noted, Goto
<1>36. ASSUME NEW t \in {Loop, Writer}, SnapRename(t) PROVE PcInv'
  BY <1>36, ThenAt DEF IInv, TypeInv, PcInv, Tasks, WebAt, WriterAt, LoopAt, Saving,
    Snapping, Restarting, OnFlash, SnapRename, Replace, Noted, LetGo
<1>37. ASSUME NEW t \in {Loop, Writer}, SnapCopy(t) PROVE PcInv'
  <2>1. \E a \in {"snap copying", "snap done"} : pc' = [pc EXCEPT ![t] = a]
    BY <1>37 DEF SnapCopy, Noted, LetGo, Goto
  <2>. QED  BY <2>1, Moves DEF IInv, TypeInv, Tasks, WebAt, WriterAt, LoopAt, Saving,
    Snapping, Restarting, OnFlash
<1>38. ASSUME NEW t \in {Loop, Writer}, SnapCopied(t) PROVE PcInv'
  <2>1. \E a \in {"snap rename", "snap done"} : pc' = [pc EXCEPT ![t] = a]
    BY <1>38 DEF SnapCopied, Noted, LetGo, Strikes
  <2>. QED  BY <2>1, Moves DEF IInv, TypeInv, Tasks, WebAt, WriterAt, LoopAt, Saving,
    Snapping, Restarting, OnFlash
<1>39. CASE UNCHANGED vars
  BY <1>39 DEF IInv, TypeInv, PcInv, Tasks, WebAt, WriterAt, LoopAt, Saving, Snapping,
    Restarting, OnFlash, vars
<1>. QED  BY <1>1, <1>2, <1>3, <1>4, <1>5, <1>6, <1>7, <1>8, <1>9, <1>10, <1>11, <1>12,
  <1>13, <1>14, <1>15, <1>16, <1>17, <1>18, <1>19, <1>20, <1>21, <1>22, <1>23, <1>24,
  <1>25, <1>26, <1>27, <1>28, <1>29, <1>30, <1>31, <1>32, <1>33, <1>34, <1>35, <1>36,
  <1>37, <1>38, <1>39 DEF Next, WriterRuns, Save, SnapSteps

\* The config lock is held exactly while a file is under way.
LEMMA LockStep ==
  ASSUME IInv, [Next]_vars
  PROVE  LockInv'
<1>1. CASE End \/ Request \/ Freeze \/ FreezeDone \/ Close \/ Closing
  BY <1>1, ThenAt DEF IInv, TypeInv, PcInv, HolderInv, LockInv, SlotInv, Tasks, OnFlash,
    End, Goto, Request, Ask, Freeze, FreezeDone, Replace, LetGo, Strikes, Close, Still,
    Closing
<1>2. CASE Top \/ Backup \/ Second
  BY <1>2, ThenAt DEF IInv, TypeInv, PcInv, HolderInv, LockInv, SlotInv, Tasks, OnFlash,
    Top, Stopped, TakeSlot, Goto, Backup, Closed, LetGo, Strikes, Second
<1>3. CASE Run
  BY <1>3, ThenAt DEF IInv, TypeInv, PcInv, HolderInv, LockInv, SlotInv, Tasks, OnFlash,
    Run, Goto
<1>4. CASE Load
  BY <1>4, ThenAt DEF IInv, TypeInv, PcInv, HolderInv, LockInv, SlotInv, Tasks, OnFlash,
    Load, Recovered, Good, Goto
<1>5. CASE Serve
  BY <1>5, ThenAt DEF IInv, TypeInv, PcInv, HolderInv, LockInv, SlotInv, Tasks, OnFlash,
    Serve, Goto
<1>6. CASE Flush \/ Wipe \/ Reset \/ PowerCut \/ SetSupply
  BY <1>6, ThenAt DEF IInv, TypeInv, PcInv, HolderInv, LockInv, SlotInv, Tasks, OnFlash,
    Flush, Still, TakeSlot, Goto, Wipe, Reset, PowerCut, Reboot, Rest, Strikes,
    SetSupply
<1>7. ASSUME NEW t \in Tasks,
             Change(t) \/ SaveLate(t) \/ SaveClosed(t) \/ SaveUnread(t) \/
             SaveUnchanged(t) \/ SaveRefused(t)
      PROVE  LockInv'
  BY <1>7, ThenAt DEF IInv, TypeInv, PcInv, HolderInv, LockInv, SlotInv, Tasks, OnFlash,
    Change, Goto, SaveLate, Defer, LetGo, SaveClosed, SaveUnread, Strikes,
    SaveUnchanged, SaveRefused
<1>8. ASSUME NEW t \in Tasks, CopyDone(t) PROVE LockInv'
  BY <1>8, ThenAt DEF IInv, TypeInv, PcInv, HolderInv, LockInv, SlotInv, Tasks, OnFlash,
    CopyDone, LetGo, Goto
<1>9. ASSUME NEW t \in Tasks, OpenPaused(t) PROVE LockInv'
  BY <1>9, ThenAt DEF IInv, TypeInv, PcInv, HolderInv, LockInv, SlotInv, Tasks, OnFlash,
    OpenPaused, Failed, Defer, LetGo
<1>10. ASSUME NEW t \in Tasks, Begin(t) PROVE LockInv'
  BY <1>10, ThenAt DEF IInv, TypeInv, PcInv, HolderInv, LockInv, SlotInv, Tasks,
    OnFlash, Begin, Goto
<1>11. ASSUME NEW t \in Tasks, Copy(t) PROVE LockInv'
  BY <1>11, ThenAt DEF IInv, TypeInv, PcInv, HolderInv, LockInv, SlotInv, Tasks,
    OnFlash, Copy, Goto
<1>12. ASSUME NEW t \in Tasks, Open(t) PROVE LockInv'
  BY <1>12, ThenAt DEF IInv, TypeInv, PcInv, HolderInv, LockInv, SlotInv, Tasks,
    OnFlash, Open, Goto
<1>13. ASSUME NEW t \in Tasks, Write(t) \/ WriteFails(t) \/ WriteShort(t) PROVE LockInv'
  BY <1>13, ThenAt DEF IInv, TypeInv, PcInv, HolderInv, LockInv, SlotInv, Tasks,
    OnFlash, Write, TakenAsWritten, LetGo, WriteFails, Failed, Defer, Strikes,
    WriteShort
<1>14. ASSUME NEW t \in Tasks, CopyFails(t) PROVE LockInv'
  <2>1. /\ pc[t] \in {"copy", "copying"}
        /\ lock' = (IF lock = t THEN NoTask ELSE lock)
        /\ \E a \in {"snap", Then(t)} : pc' = [pc EXCEPT ![t] = a]
    BY <1>14, ThenAt DEF CopyFails, NoBackup, Failed, Defer, LetGo, Strikes
  <2>. QED  BY <2>1, ThenAt DEF IInv, TypeInv, PcInv, HolderInv, LockInv, Tasks, OnFlash
<1>15. ASSUME NEW t \in {Loop, Writer},
              Snap(t) \/ SnapSlot(t) \/
              SnapStops(t, "snap copy") \/ SnapStops(t, "snap rename") \/ SnapSkip(t) \/
              SnapStale(t)
       PROVE  LockInv'
  BY <1>15, ThenAt DEF IInv, TypeInv, PcInv, HolderInv, LockInv, SlotInv, Tasks,
    OnFlash, Snap, SnapEnd, Left, Goto, SnapSlot, TakeSlot, SnapStops, LetGo, SnapSkip,
    SnapStale, Noted
<1>16. ASSUME NEW t \in {Loop, Writer}, SnapRename(t) PROVE LockInv'
  BY <1>16, ThenAt DEF IInv, TypeInv, PcInv, HolderInv, LockInv, SlotInv, Tasks,
    OnFlash, SnapRename, Replace, Noted, LetGo
<1>17. ASSUME NEW t \in {Loop, Writer}, SnapDone(t) PROVE LockInv'
  BY <1>17, ThenAt DEF IInv, TypeInv, PcInv, HolderInv, LockInv, SlotInv, Tasks,
    OnFlash, SnapDone, Ended, Goto
<1>18. ASSUME NEW t \in {Loop, Writer}, SnapCopy(t) PROVE LockInv'
  BY <1>18, ThenAt DEF IInv, TypeInv, PcInv, HolderInv, LockInv, SlotInv, Tasks,
    OnFlash, SnapCopy, Noted, LetGo, Goto
<1>19. ASSUME NEW t \in {Loop, Writer}, SnapCopied(t) PROVE LockInv'
  BY <1>19, ThenAt DEF IInv, TypeInv, PcInv, HolderInv, LockInv, SlotInv, Tasks,
    OnFlash, SnapCopied, Noted, LetGo, Strikes
<1>20. CASE UNCHANGED vars
  BY <1>20 DEF IInv, TypeInv, PcInv, HolderInv, LockInv, SlotInv, Tasks, OnFlash, vars
<1>. QED  BY <1>1, <1>2, <1>3, <1>4, <1>5, <1>6, <1>7, <1>8, <1>9, <1>10, <1>11, <1>12,
  <1>13, <1>14, <1>15, <1>16, <1>17, <1>18, <1>19, <1>20 DEF Next, WriterRuns, Save,
  SnapSteps

\* A task that lets go of the slot as it moves on leaves it to nobody.
LEMMA Leaves ==
  ASSUME PcInv, HolderInv, SlotInv, NEW t \in Tasks, NEW a, a \notin SlotKept \cup {"save"},
         pc' = [pc EXCEPT ![t] = a], slot' = IF slot = t THEN NoTask ELSE slot
  PROVE  SlotInv'
  BY DEF PcInv, HolderInv, SlotInv, Tasks

\* The gate's slot is held from the step that takes it to the one that ends its work.
LEMMA SlotStep ==
  ASSUME IInv, [Next]_vars
  PROVE  SlotInv'
<1>1. CASE Freeze \/ FreezeDone \/ Close
  BY <1>1, ThenAt DEF IInv, TypeInv, PcInv, HolderInv, LockInv, SlotInv, Tasks,
    SlotKept, OnFlash, Freeze, Goto, FreezeDone, Replace, LetGo, Strikes, Close, Still
<1>2. CASE Run
  BY <1>2, ThenAt DEF IInv, TypeInv, PcInv, HolderInv, LockInv, SlotInv, Tasks,
    SlotKept, OnFlash, Run, Goto
<1>3. CASE End
  BY <1>3, ThenAt DEF IInv, TypeInv, PcInv, HolderInv, LockInv, SlotInv, Tasks,
    SlotKept, OnFlash, End, Goto
<1>4. CASE Wipe
  BY <1>4, ThenAt DEF IInv, TypeInv, PcInv, HolderInv, LockInv, SlotInv, Tasks,
    SlotKept, OnFlash, Wipe, Goto
<1>5. CASE Load
  BY <1>5, ThenAt DEF IInv, TypeInv, PcInv, HolderInv, LockInv, SlotInv, Tasks,
    SlotKept, OnFlash, Load, Recovered, Good, Goto
<1>6. CASE Serve
  BY <1>6, ThenAt DEF IInv, TypeInv, PcInv, HolderInv, LockInv, SlotInv, Tasks,
    SlotKept, OnFlash, Serve, Goto
<1>7. CASE Backup
  BY ZenonT(60), <1>7, ThenAt DEF IInv, TypeInv, PcInv, HolderInv, LockInv, SlotInv,
    Tasks, SlotKept, OnFlash, Backup, Closed, LetGo, Goto, Strikes
<1>8. CASE Second
  BY ZenonT(60), <1>8, ThenAt DEF IInv, TypeInv, PcInv, HolderInv, LockInv, SlotInv,
    Tasks, SlotKept, OnFlash, Second, Stopped, TakeSlot, Goto
<1>9. CASE Closing
  BY <1>9, ThenAt DEF IInv, TypeInv, PcInv, HolderInv, LockInv, SlotInv, Tasks,
    SlotKept, OnFlash, Closing, Still, Goto
<1>10. CASE Flush
  BY <1>10, ThenAt DEF IInv, TypeInv, PcInv, HolderInv, LockInv, SlotInv, Tasks,
    SlotKept, OnFlash, Flush, Still, TakeSlot, Goto
<1>11. CASE Reset \/ PowerCut \/ SetSupply
  BY <1>11, ThenAt DEF IInv, TypeInv, PcInv, HolderInv, LockInv, SlotInv, Tasks,
    SlotKept, OnFlash, Reset, PowerCut, Reboot, Rest, Strikes, SetSupply
<1>12. CASE Top
  <2>1. /\ pc[Writer] = "top"
        /\ \/ slot' = slot /\ \E a \in {"snap", "second", "end"} : pc' = [pc EXCEPT ![Writer] = a]
           \/ slot = NoTask /\ slot' = Writer /\ pc' = [pc EXCEPT ![Writer] = "backup"]
    BY <1>12 DEF Top, Stopped, TakeSlot, Goto
  <2>. QED  BY <2>1 DEF IInv, TypeInv, PcInv, HolderInv, LockInv, SlotInv, Tasks,
    SlotKept, OnFlash
<1>13. CASE Request
  <2>1. /\ pc[Web] = "idle"
        /\ \/ slot' = slot /\ \E a \in {"idle"} : pc' = [pc EXCEPT ![Web] = a]
           \/ slot = NoTask /\ slot' = Web /\ pc' = [pc EXCEPT ![Web] = "freeze"]
           \/ slot' = slot /\ pc' = pc
    BY <1>13 DEF Request, Ask
  <2>. QED  BY <2>1 DEF IInv, TypeInv, PcInv, HolderInv, LockInv, SlotInv, Tasks,
    SlotKept, OnFlash
<1>14. ASSUME NEW t \in Tasks, OpenPaused(t) \/ Write(t) \/ WriteFails(t) PROVE SlotInv'
  BY <1>14, ThenAt DEF IInv, TypeInv, PcInv, HolderInv, LockInv, SlotInv, Tasks,
    SlotKept, OnFlash, OpenPaused, Failed, Defer, LetGo, Write, TakenAsWritten,
    WriteFails, Strikes
<1>15. ASSUME NEW t \in Tasks, SaveClosed(t) PROVE SlotInv'
  BY ZenonT(60), <1>15, ThenAt DEF IInv, TypeInv, PcInv, HolderInv, LockInv, SlotInv,
    Tasks, SlotKept, OnFlash, SaveClosed, LetGo
<1>16. ASSUME NEW t \in Tasks, SaveRefused(t) PROVE SlotInv'
  BY <1>16, ThenAt DEF IInv, TypeInv, PcInv, HolderInv, LockInv, SlotInv, Tasks,
    SlotKept, OnFlash, SaveRefused, Defer, LetGo
<1>17. ASSUME NEW t \in Tasks, Open(t) PROVE SlotInv'
  BY <1>17, ThenAt DEF IInv, TypeInv, PcInv, HolderInv, LockInv, SlotInv, Tasks,
    SlotKept, OnFlash, Open, Goto
<1>18. ASSUME NEW t \in Tasks, Change(t) PROVE SlotInv'
  BY <1>18, ThenAt DEF IInv, TypeInv, PcInv, HolderInv, LockInv, SlotInv, Tasks,
    SlotKept, OnFlash, Change, Goto
<1>19. ASSUME NEW t \in Tasks, SaveLate(t) PROVE SlotInv'
  BY ZenonT(60), <1>19, ThenAt DEF IInv, TypeInv, PcInv, HolderInv, LockInv, SlotInv, Tasks,
    SlotKept, OnFlash, SaveLate, Defer, LetGo
<1>20. ASSUME NEW t \in Tasks, SaveUnread(t) PROVE SlotInv'
  BY ZenonT(60), <1>20, ThenAt DEF IInv, TypeInv, PcInv, HolderInv, LockInv, SlotInv,
    Tasks, SlotKept, OnFlash, SaveUnread, Defer, LetGo, Strikes
<1>21. ASSUME NEW t \in Tasks, SaveUnchanged(t) PROVE SlotInv'
  BY ZenonT(60), <1>21, ThenAt DEF IInv, TypeInv, PcInv, HolderInv, LockInv, SlotInv, Tasks,
    SlotKept, OnFlash, SaveUnchanged, LetGo
<1>22. ASSUME NEW t \in Tasks, Begin(t) PROVE SlotInv'
  BY <1>22, ThenAt DEF IInv, TypeInv, PcInv, HolderInv, LockInv, SlotInv, Tasks,
    SlotKept, OnFlash, Begin, Goto
<1>23. ASSUME NEW t \in Tasks, Copy(t) PROVE SlotInv'
  BY <1>23, ThenAt DEF IInv, TypeInv, PcInv, HolderInv, LockInv, SlotInv, Tasks,
    SlotKept, OnFlash, Copy, Goto
<1>24. ASSUME NEW t \in Tasks, WriteShort(t) PROVE SlotInv'
  BY <1>24, ThenAt DEF IInv, TypeInv, PcInv, HolderInv, LockInv, SlotInv, Tasks,
    SlotKept, OnFlash, WriteShort, TakenAsWritten, LetGo, Strikes
<1>25. ASSUME NEW t \in Tasks, CopyDone(t) PROVE SlotInv'
  <2>1. /\ pc[t] = "copying"
        /\ \/ /\ t # Writer /\ slot' = slot /\ pc' = [pc EXCEPT ![t] = "open"]
           \/ /\ t = Writer /\ slot' = (IF slot = t THEN NoTask ELSE slot)
              /\ pc' = [pc EXCEPT ![t] = "second"]
    BY <1>25 DEF CopyDone, LetGo, Goto
  <2>. QED  BY ZenonT(60), <2>1 DEF IInv, TypeInv, PcInv, HolderInv, LockInv, SlotInv, Tasks,
    SlotKept, OnFlash
<1>26. ASSUME NEW t \in Tasks, CopyFails(t) PROVE SlotInv'
  <2>1. /\ pc[t] \in {"copy", "copying"}
        /\ slot' = (IF slot = t THEN NoTask ELSE slot)
        /\ \E a \in {"snap", Then(t)} : pc' = [pc EXCEPT ![t] = a]
    BY <1>26, ThenAt, Leaves DEF CopyFails, NoBackup, Failed, Defer, LetGo, Strikes
  <2>. QED  BY <2>1, ThenAt, Leaves DEF IInv, TypeInv, Tasks, SlotKept, OnFlash
<1>27. ASSUME NEW t \in {Loop, Writer}, SnapCopied(t) PROVE SlotInv'
  BY ZenonT(60), <1>27, ThenAt DEF IInv, TypeInv, PcInv, HolderInv, LockInv, SlotInv,
    Tasks, SlotKept, OnFlash, SnapCopied, Noted, LetGo, Strikes
<1>28. ASSUME NEW t \in {Loop, Writer}, Snap(t) PROVE SlotInv'
  BY <1>28, ThenAt DEF IInv, TypeInv, PcInv, HolderInv, LockInv, SlotInv, Tasks,
    SlotKept, OnFlash, Snap, SnapEnd, Left, Goto
<1>29. ASSUME NEW t \in {Loop, Writer}, SnapRename(t) PROVE SlotInv'
  BY <1>29, ThenAt DEF IInv, TypeInv, PcInv, HolderInv, LockInv, SlotInv, Tasks,
    SlotKept, OnFlash, SnapRename, Replace, Noted, LetGo
<1>30. ASSUME NEW t \in {Loop, Writer}, SnapDone(t) PROVE SlotInv'
  BY <1>30, ThenAt DEF IInv, TypeInv, PcInv, HolderInv, LockInv, SlotInv, Tasks,
    SlotKept, OnFlash, SnapDone, Ended, Goto
<1>31. ASSUME NEW t \in {Loop, Writer}, SnapSlot(t) PROVE SlotInv'
  <2>1. /\ slot = NoTask /\ slot' = t
        /\ \E a \in {"snap copy", "snap rename"} : pc' = [pc EXCEPT ![t] = a]
    BY <1>31 DEF SnapSlot, TakeSlot, Goto
  <2>. QED  BY <2>1 DEF IInv, TypeInv, PcInv, HolderInv, LockInv, SlotInv, Tasks,
    SlotKept, OnFlash
<1>32. ASSUME NEW t \in {Loop, Writer},
              SnapStops(t, "snap copy") \/ SnapStops(t, "snap rename")
       PROVE  SlotInv'
  <2>1. /\ pc[t] \in {"snap copy", "snap rename"}
        /\ slot' = (IF slot = t THEN NoTask ELSE slot)
        /\ \E a \in {"after", "end"} : pc' = [pc EXCEPT ![t] = a]
    BY <1>32, Leaves DEF SnapStops, SnapEnd, LetGo
  <2>. QED  BY <2>1, Leaves DEF IInv, TypeInv, Tasks, SlotKept, OnFlash
<1>33. ASSUME NEW t \in {Loop, Writer}, SnapSkip(t) \/ SnapStale(t) PROVE SlotInv'
  <2>1. /\ slot' = (IF slot = t THEN NoTask ELSE slot)
        /\ \E a \in {"snap done"} : pc' = [pc EXCEPT ![t] = a]
    BY <1>33, Leaves DEF SnapSkip, Goto, SnapStale, Noted
  <2>. QED  BY <2>1, Leaves DEF IInv, TypeInv, Tasks, SlotKept, OnFlash
<1>34. ASSUME NEW t \in {Loop, Writer}, SnapCopy(t) PROVE SlotInv'
  <2>1. /\ pc[t] = "snap copy" /\ slot = t
        /\ \/ slot' = slot /\ pc' = [pc EXCEPT ![t] = "snap copying"]
           \/ slot' = NoTask /\ pc' = [pc EXCEPT ![t] = "snap done"]
    BY <1>34 DEF SnapCopy, Noted, LetGo, Goto
  <2>. QED  BY ZenonT(60), <2>1 DEF IInv, TypeInv, PcInv, HolderInv, LockInv, SlotInv, Tasks,
    SlotKept, OnFlash
<1>35. CASE UNCHANGED vars
  BY <1>35 DEF IInv, TypeInv, PcInv, HolderInv, LockInv, SlotInv, Tasks, SlotKept,
    OnFlash, vars
<1>. QED  BY <1>1, <1>2, <1>3, <1>4, <1>5, <1>6, <1>7, <1>8, <1>9, <1>10, <1>11, <1>12,
  <1>13, <1>14, <1>15, <1>16, <1>17, <1>18, <1>19, <1>20, <1>21, <1>22, <1>23, <1>24,
  <1>25, <1>26, <1>27, <1>28, <1>29, <1>30, <1>31, <1>32, <1>33, <1>34, <1>35 DEF Next,
  WriterRuns, Save, SnapSteps

\* A restart that has begun keeps every other task out.
LEMMA RestartStep ==
  ASSUME IInv, [Next]_vars
  PROVE  RestartInv'
<1>1. CASE Load \/ Serve \/ Run \/ Top \/ Backup \/ Second \/ End \/ Freeze \/
           FreezeDone \/ Close \/ Closing \/ Flush
  BY <1>1, ThenAt DEF IInv, TypeInv, PcInv, RestartInv, Tasks, Restarting, Snapping,
    Load, Recovered, Good, Goto, Serve, Run, Top, Stopped, TakeSlot, Backup, Closed,
    LetGo, Strikes, Second, End, Freeze, FreezeDone, Replace, Close, Still, Closing,
    Flush
<1>2. CASE Wipe \/ Reset \/ PowerCut \/ SetSupply
  BY <1>2, ThenAt DEF IInv, TypeInv, PcInv, RestartInv, Tasks, Restarting, Snapping,
    Wipe, Goto, Reset, PowerCut, Reboot, Rest, Strikes, SetSupply
<1>3. CASE Request
  <2>1. closed' = closed /\ pc'[Loop] = pc[Loop]
    BY <1>3 DEF Request, Ask, IInv, TypeInv, PcInv, Tasks
  <2>. QED  BY <2>1 DEF IInv, RestartInv
<1>4. ASSUME NEW t \in Tasks,
             Change(t) \/ SaveLate(t) \/ SaveClosed(t) \/ SaveUnread(t) \/
             SaveUnchanged(t) \/ SaveRefused(t) \/ Begin(t) \/ Copy(t) \/ CopyDone(t) \/
             CopyFails(t) \/ Open(t) \/ OpenPaused(t)
      PROVE  RestartInv'
  BY <1>4, ThenAt DEF IInv, TypeInv, PcInv, RestartInv, Tasks, Restarting, Snapping,
    Change, Goto, SaveLate, Defer, LetGo, SaveClosed, SaveUnread, Strikes,
    SaveUnchanged, SaveRefused, Begin, Copy, CopyDone, CopyFails, NoBackup, Failed,
    Open, OpenPaused
<1>5. ASSUME NEW t \in Tasks,
             Write(t) \/ WriteFails(t) \/ WriteShort(t)
      PROVE  RestartInv'
  BY <1>5, ThenAt DEF IInv, TypeInv, PcInv, RestartInv, Tasks, Restarting, Snapping,
    Write, TakenAsWritten, LetGo, WriteFails, Failed, Defer, Strikes, WriteShort
<1>6. ASSUME NEW t \in {Loop, Writer},
             Snap(t) \/ SnapSlot(t) \/
             SnapStops(t, "snap copy") \/ SnapStops(t, "snap rename") \/ SnapSkip(t) \/
             SnapStale(t) \/ SnapCopy(t) \/ SnapCopied(t) \/ SnapRename(t) \/
             SnapDone(t)
      PROVE  RestartInv'
  BY <1>6, ThenAt DEF IInv, TypeInv, PcInv, RestartInv, Tasks, Restarting, Snapping,
    Snap, SnapEnd, Left, Goto, SnapSlot, TakeSlot, SnapStops, LetGo, SnapSkip,
    SnapStale, Noted, SnapCopy, SnapCopied, Strikes, SnapRename, Replace, SnapDone,
    Ended
<1>7. CASE UNCHANGED vars
  BY <1>7 DEF IInv, TypeInv, PcInv, RestartInv, Tasks, Restarting, Snapping, vars
<1>. QED  BY <1>1, <1>2, <1>3, <1>4, <1>5, <1>6, <1>7 DEF Next, WriterRuns, Save,
  SnapSteps

\* Until the boot has loaded, nobody else is at work.
LEMMA BootStep ==
  ASSUME IInv, [Next]_vars
  PROVE  BootInv'
<1>1. CASE Load \/ Serve \/ Run \/ Top \/ Backup \/ Second \/ End \/ Request \/ Freeze \/
           FreezeDone \/ Close \/ Closing
  BY <1>1, ThenAt DEF IInv, TypeInv, PcInv, BootInv, Tasks, Up, Load, Recovered, Good,
    Goto, Serve, Run, Top, Stopped, TakeSlot, Backup, Closed, LetGo, Strikes, Second,
    End, Request, Ask, Freeze, FreezeDone, Replace, Close, Still, Closing
<1>2. CASE Flush \/ Wipe \/ Reset \/ PowerCut \/ SetSupply
  BY <1>2, ThenAt DEF IInv, TypeInv, PcInv, BootInv, Tasks, Up, Flush, Still, TakeSlot,
    Goto, Wipe, Reset, PowerCut, Reboot, Rest, Strikes, SetSupply
<1>3. ASSUME NEW t \in Tasks,
             Change(t) \/ SaveLate(t) \/ SaveClosed(t) \/ SaveUnread(t) \/
             SaveUnchanged(t) \/ SaveRefused(t) \/ Begin(t) \/ Copy(t) \/ CopyDone(t) \/
             CopyFails(t) \/ Open(t) \/ OpenPaused(t)
      PROVE  BootInv'
  BY <1>3, ThenAt DEF IInv, TypeInv, PcInv, BootInv, Tasks, Up, Change, Goto, SaveLate,
    Defer, LetGo, SaveClosed, SaveUnread, Strikes, SaveUnchanged, SaveRefused, Begin,
    Copy, CopyDone, CopyFails, NoBackup, Failed, Open, OpenPaused
<1>4. ASSUME NEW t \in Tasks, Write(t) \/ WriteFails(t) \/ WriteShort(t) PROVE BootInv'
  BY <1>4, ThenAt DEF IInv, TypeInv, PcInv, BootInv, Tasks, Up, Write, TakenAsWritten,
    LetGo, WriteFails, Failed, Defer, Strikes, WriteShort
<1>5. ASSUME NEW t \in {Loop, Writer},
             Snap(t) \/ SnapSlot(t) \/
             SnapStops(t, "snap copy") \/ SnapStops(t, "snap rename") \/ SnapSkip(t) \/
             SnapStale(t) \/ SnapCopy(t) \/ SnapCopied(t) \/ SnapRename(t) \/
             SnapDone(t)
      PROVE  BootInv'
  BY <1>5, ThenAt DEF IInv, TypeInv, PcInv, BootInv, Tasks, Up, Snap, SnapEnd, Left,
    Goto, SnapSlot, TakeSlot, SnapStops, LetGo, SnapSkip, SnapStale, Noted, SnapCopy,
    SnapCopied, Strikes, SnapRename, Replace, SnapDone, Ended
<1>6. CASE UNCHANGED vars
  BY <1>6 DEF IInv, TypeInv, PcInv, BootInv, Tasks, Up, vars
<1>. QED  BY <1>1, <1>2, <1>3, <1>4, <1>5, <1>6 DEF Next, WriterRuns, Save, SnapSteps

\* A task that moves on leaves the files of the others as they were.
LEMMA OnlyMoves ==
  ASSUME IInv, NEW t \in Tasks, NEW a, a \notin {"write", "copy", "copying", "freeze", "freezing"},
         pc' = [pc EXCEPT ![t] = a], UNCHANGED <<primary, stale, held>>
  PROVE  TornInv' /\ CopyInv'
<1>1. pc \in [Tasks -> WebAt \cup WriterAt \cup LoopAt]
  BY DEF IInv, TypeInv, PcInv
<1>2. TornInv'
  BY <1>1 DEF IInv, FileInv, TornInv
<1>3. CopyInv'
  BY <1>1 DEF IInv, FileInv, CopyInv, Tasks
<1>. QED  BY <1>2, <1>3

\* What is known of the files between two steps stays true.
LEMMA FileStep ==
  ASSUME IInv, [Next]_vars
  PROVE  FileInv'
<1>1. CASE Load
  <2>1. TornInv'
    BY <1>1, ThenAt DEF IInv, TypeInv, PcInv, Tasks, BootInv, Up, TornInv, None, Load,
      Recovered, Good, Goto
  <2>2. CopyInv'
    BY <1>1, ThenAt DEF IInv, TypeInv, PcInv, Tasks, BootInv, Up, CopyInv, Load,
      Recovered, Good, Goto
  <2>3. HeldInv'
    BY <1>1, ThenAt DEF IInv, TypeInv, PcInv, Tasks, BootInv, Up, HeldInv, Savers, Load,
      Recovered, Good, Goto
  <2>4. DoneInv'
    BY <1>1, ThenAt DEF IInv, TypeInv, PcInv, Tasks, BootInv, Up, DoneInv, FilesInv,
      Files, None, Torn, Load, Recovered, Good, Goto
  <2>. QED  BY <2>1, <2>2, <2>3, <2>4 DEF FileInv
<1>2. CASE End
  BY <1>2, ThenAt DEF IInv, TypeInv, PcInv, LockInv, SlotInv, SlotKept, OnFlash, Tasks,
    FileInv, FilesInv, VersionInv, HolderInv, BootInv, KeptInv, Files, None, Torn, Good,
    Savers, Up, TornInv, CopyInv, HeldInv, DoneInv, Recovered, Copies, BackupDue,
    Closed, End, Goto
<1>3. CASE Freeze
  BY <1>3, ThenAt DEF IInv, TypeInv, PcInv, LockInv, SlotInv, SlotKept, OnFlash, Tasks,
    FileInv, FilesInv, VersionInv, HolderInv, BootInv, KeptInv, Files, None, Torn, Good,
    Savers, Up, TornInv, CopyInv, HeldInv, DoneInv, Recovered, Copies, BackupDue,
    Closed, Freeze, Goto
<1>4. CASE FreezeDone
  BY <1>4, ThenAt DEF IInv, TypeInv, PcInv, LockInv, SlotInv, SlotKept, OnFlash, Tasks,
    FileInv, FilesInv, VersionInv, HolderInv, BootInv, KeptInv, Files, None, Torn, Good,
    Savers, Up, TornInv, CopyInv, HeldInv, DoneInv, Recovered, Copies, BackupDue,
    Closed, FreezeDone, Replace, LetGo, Strikes
<1>5. CASE Close
  BY <1>5, ThenAt DEF IInv, TypeInv, PcInv, LockInv, SlotInv, SlotKept, OnFlash, Tasks,
    FileInv, FilesInv, VersionInv, HolderInv, BootInv, KeptInv, Files, None, Torn, Good,
    Savers, Up, TornInv, CopyInv, HeldInv, DoneInv, Recovered, Copies, BackupDue,
    Closed, Close, Still, Goto
<1>6. CASE Closing
  BY <1>6, ThenAt DEF IInv, TypeInv, PcInv, LockInv, SlotInv, SlotKept, OnFlash, Tasks,
    FileInv, FilesInv, VersionInv, HolderInv, BootInv, KeptInv, Files, None, Torn, Good,
    Savers, Up, TornInv, CopyInv, HeldInv, DoneInv, Recovered, Copies, BackupDue,
    Closed, Closing, Still, Goto
<1>7. CASE Reset \/ PowerCut
  BY <1>7, ThenAt DEF IInv, TypeInv, PcInv, LockInv, SlotInv, SlotKept, OnFlash, Tasks,
    FileInv, FilesInv, VersionInv, HolderInv, BootInv, KeptInv, Files, None, Torn, Good,
    Savers, Up, TornInv, CopyInv, HeldInv, DoneInv, Recovered, Copies, BackupDue,
    Closed, Reset, PowerCut, Reboot, Rest, Strikes
<1>8. CASE SetSupply
  BY <1>8, ThenAt DEF IInv, TypeInv, PcInv, LockInv, SlotInv, SlotKept, OnFlash, Tasks,
    FileInv, FilesInv, VersionInv, HolderInv, BootInv, KeptInv, Files, None, Torn, Good,
    Savers, Up, TornInv, CopyInv, HeldInv, DoneInv, Recovered, Copies, BackupDue,
    Closed, SetSupply
<1>9. CASE Serve
  BY <1>9, ThenAt DEF IInv, TypeInv, PcInv, LockInv, SlotInv, SlotKept, OnFlash, Tasks,
    FileInv, FilesInv, VersionInv, HolderInv, BootInv, KeptInv, Files, None, Torn, Good,
    Savers, Up, TornInv, CopyInv, HeldInv, DoneInv, Recovered, Copies, BackupDue,
    Closed, Serve, Goto
<1>10. CASE Run
  BY <1>10, ThenAt DEF IInv, TypeInv, PcInv, LockInv, SlotInv, SlotKept, OnFlash, Tasks,
    FileInv, FilesInv, VersionInv, HolderInv, BootInv, KeptInv, Files, None, Torn, Good,
    Savers, Up, TornInv, CopyInv, HeldInv, DoneInv, Recovered, Copies, BackupDue,
    Closed, Run, Goto
<1>11. CASE Top \/ Second \/ Flush
  <2>1. TornInv'
    BY <1>11, ThenAt DEF IInv, TypeInv, PcInv, Tasks, FileInv, TornInv, Top, Stopped,
      TakeSlot, Goto, Second, Flush, Still
  <2>2. CopyInv'
    BY <1>11, ThenAt DEF IInv, TypeInv, PcInv, Tasks, FileInv, CopyInv, Top, Stopped,
      TakeSlot, Goto, Second, Flush, Still
  <2>3. HeldInv'
    BY <1>11, ThenAt DEF IInv, TypeInv, PcInv, LockInv, SlotInv, SlotKept, OnFlash,
      Tasks, FileInv, HeldInv, CopyInv, None, Torn, Good, Copies, BackupDue, Closed,
      Savers, Top, Stopped, TakeSlot, Goto, Second, Flush, Still
  <2>4. DoneInv'
    BY <1>11, ThenAt DEF IInv, TypeInv, PcInv, Tasks, FileInv, DoneInv, Up, Top,
      Stopped, TakeSlot, Goto, Second, Flush, Still
  <2>. QED  BY <2>1, <2>2, <2>3, <2>4 DEF FileInv
<1>12. CASE Backup
  <2>1. TornInv'
    BY <1>12, ThenAt DEF IInv, TypeInv, PcInv, Tasks, FileInv, TornInv, Backup, Closed,
      LetGo, Goto, Strikes
  <2>2. CopyInv'
    BY <1>12, ThenAt DEF IInv, TypeInv, PcInv, Tasks, FileInv, CopyInv, BackupDue,
      Backup, Closed, LetGo, Goto, Strikes
  <2>3. HeldInv'
    BY <1>12, ThenAt DEF IInv, TypeInv, PcInv, LockInv, SlotInv, SlotKept, OnFlash,
      Tasks, FileInv, HeldInv, CopyInv, None, Torn, Good, Copies, BackupDue, Closed,
      Savers, Backup, LetGo, Goto, Strikes
  <2>4. DoneInv'
    BY <1>12, ThenAt DEF IInv, TypeInv, PcInv, Tasks, FileInv, DoneInv, Up, Backup,
      Closed, LetGo, Goto, Strikes
  <2>. QED  BY <2>1, <2>2, <2>3, <2>4 DEF FileInv
<1>13. CASE Request
  <2>1. TornInv'
    BY <1>13, ThenAt DEF IInv, TypeInv, PcInv, Tasks, FileInv, TornInv, Request, Ask
  <2>2. CopyInv'
    BY <1>13, ThenAt DEF IInv, TypeInv, PcInv, Tasks, FileInv, CopyInv, Request, Ask
  <2>3. HeldInv'
    BY <1>13, ThenAt DEF IInv, TypeInv, PcInv, Tasks, FileInv, HeldInv, Savers, Request,
      Ask
  <2>4. DoneInv'
    BY <1>13, ThenAt DEF IInv, TypeInv, PcInv, Tasks, FileInv, DoneInv, Up, Request, Ask
  <2>. QED  BY <2>1, <2>2, <2>3, <2>4 DEF FileInv
<1>14. CASE Wipe
  <2>1. /\ \/ /\ primary' = None /\ pc' = [pc EXCEPT ![Loop] = "wipe"]
              /\ \A u \in Tasks : pc[u] \notin {"write", "copy", "copying", "freeze", "freezing"}
           \/ primary' = primary /\ pc' = [pc EXCEPT ![Loop] = "wiped"]
        /\ UNCHANGED <<stale, held>>
    BY <1>14, Quiet DEF Wipe, Goto, SlotKept, OnFlash
  <2>2. TornInv'
    BY <2>1 DEF IInv, TypeInv, PcInv, Tasks, FileInv, TornInv, None, Good
  <2>3. CopyInv'
    BY <2>1 DEF IInv, TypeInv, PcInv, Tasks, FileInv, CopyInv
  <2>4. HeldInv'
    BY <1>14 DEF IInv, TypeInv, PcInv, Tasks, FileInv, HeldInv, Savers, Wipe, Goto
  <2>5. DoneInv'
    BY <1>14 DEF IInv, TypeInv, PcInv, Tasks, FileInv, DoneInv, RestartInv, Restarting,
      None, Good, Up, Wipe, Goto
  <2>. QED  BY <2>2, <2>3, <2>4, <2>5 DEF FileInv
<1>15. ASSUME NEW t \in Tasks, SaveClosed(t) PROVE FileInv'
  BY <1>15, ThenAt DEF IInv, TypeInv, PcInv, LockInv, SlotInv, SlotKept, OnFlash, Tasks,
    FileInv, FilesInv, VersionInv, HolderInv, BootInv, KeptInv, Files, None, Torn, Good,
    Savers, Up, TornInv, CopyInv, HeldInv, DoneInv, Recovered, Copies, BackupDue,
    Closed, SaveClosed, LetGo
<1>16. ASSUME NEW t \in Tasks, SaveRefused(t) PROVE FileInv'
  BY <1>16, ThenAt DEF IInv, TypeInv, PcInv, LockInv, SlotInv, SlotKept, OnFlash, Tasks,
    FileInv, FilesInv, VersionInv, HolderInv, BootInv, KeptInv, Files, None, Torn, Good,
    Savers, Up, TornInv, CopyInv, HeldInv, DoneInv, Recovered, Copies, BackupDue,
    Closed, SaveRefused, Defer, LetGo
<1>17. ASSUME NEW t \in Tasks, CopyFails(t) PROVE FileInv'
  BY ZenonT(60), <1>17, ThenAt DEF IInv, TypeInv, PcInv, LockInv, SlotInv, SlotKept,
    OnFlash, Tasks, FileInv, FilesInv, VersionInv, HolderInv, BootInv, KeptInv, Files,
    None, Torn, Good, Savers, Up, TornInv, CopyInv, HeldInv, DoneInv, Recovered, Copies,
    BackupDue, Closed, CopyFails, NoBackup, Failed, Defer, LetGo, Strikes
<1>18. ASSUME NEW t \in Tasks, OpenPaused(t) PROVE FileInv'
  BY <1>18, ThenAt DEF IInv, TypeInv, PcInv, LockInv, SlotInv, SlotKept, OnFlash, Tasks,
    FileInv, FilesInv, VersionInv, HolderInv, BootInv, KeptInv, Files, None, Torn, Good,
    Savers, Up, TornInv, CopyInv, HeldInv, DoneInv, Recovered, Copies, BackupDue,
    Closed, OpenPaused, Failed, Defer, LetGo
<1>19. ASSUME NEW t \in Tasks, WriteFails(t) PROVE FileInv'
  BY <1>19, ThenAt DEF IInv, TypeInv, PcInv, LockInv, SlotInv, SlotKept, OnFlash, Tasks,
    FileInv, FilesInv, VersionInv, HolderInv, BootInv, KeptInv, Files, None, Torn, Good,
    Savers, Up, TornInv, CopyInv, HeldInv, DoneInv, Recovered, Copies, BackupDue,
    Closed, WriteFails, Failed, Defer, LetGo, Strikes
<1>20. ASSUME NEW t \in Tasks, Change(t) PROVE FileInv'
  BY <1>20, ThenAt DEF IInv, TypeInv, PcInv, LockInv, SlotInv, SlotKept, OnFlash, Tasks,
    FileInv, FilesInv, VersionInv, HolderInv, BootInv, KeptInv, Files, None, Torn, Good,
    Savers, Up, TornInv, CopyInv, HeldInv, DoneInv, Recovered, Copies, BackupDue,
    Closed, Change, Goto
<1>21. ASSUME NEW t \in Tasks, SaveLate(t) PROVE FileInv'
  BY <1>21, ThenAt DEF IInv, TypeInv, PcInv, LockInv, SlotInv, SlotKept, OnFlash, Tasks,
    FileInv, FilesInv, VersionInv, HolderInv, BootInv, KeptInv, Files, None, Torn, Good,
    Savers, Up, TornInv, CopyInv, HeldInv, DoneInv, Recovered, Copies, BackupDue,
    Closed, SaveLate, Defer, LetGo
<1>22. ASSUME NEW t \in Tasks, SaveUnread(t) PROVE FileInv'
  BY <1>22, ThenAt DEF IInv, TypeInv, PcInv, LockInv, SlotInv, SlotKept, OnFlash, Tasks,
    FileInv, FilesInv, VersionInv, HolderInv, BootInv, KeptInv, Files, None, Torn, Good,
    Savers, Up, TornInv, CopyInv, HeldInv, DoneInv, Recovered, Copies, BackupDue,
    Closed, SaveUnread, Defer, LetGo, Strikes
<1>23. ASSUME NEW t \in Tasks, SaveUnchanged(t) PROVE FileInv'
  BY <1>23, ThenAt DEF IInv, TypeInv, PcInv, LockInv, SlotInv, SlotKept, OnFlash, Tasks,
    FileInv, FilesInv, VersionInv, HolderInv, BootInv, KeptInv, Files, None, Torn, Good,
    Savers, Up, TornInv, CopyInv, HeldInv, DoneInv, Recovered, Copies, BackupDue,
    Closed, SaveUnchanged, LetGo
<1>24. ASSUME NEW t \in Tasks, Copy(t) PROVE FileInv'
  BY <1>24, ThenAt DEF IInv, TypeInv, PcInv, LockInv, SlotInv, SlotKept, OnFlash, Tasks,
    FileInv, FilesInv, VersionInv, HolderInv, BootInv, KeptInv, Files, None, Torn, Good,
    Savers, Up, TornInv, CopyInv, HeldInv, DoneInv, Recovered, Copies, BackupDue,
    Closed, Copy, Goto
<1>25. ASSUME NEW t \in Tasks, CopyDone(t) PROVE FileInv'
  BY ZenonT(60), <1>25, ThenAt DEF IInv, TypeInv, PcInv, LockInv, SlotInv, SlotKept,
    OnFlash, Tasks, FileInv, FilesInv, VersionInv, HolderInv, BootInv, KeptInv, Files,
    None, Torn, Good, Savers, Up, TornInv, CopyInv, HeldInv, DoneInv, Recovered, Copies,
    BackupDue, Closed, CopyDone, LetGo, Goto
<1>26. ASSUME NEW t \in Tasks, Begin(t) PROVE FileInv'
  <2>1. TornInv'
    BY <1>26, ThenAt DEF IInv, TypeInv, PcInv, Tasks, FileInv, TornInv, Begin, Goto
  <2>2. CopyInv'
    BY <1>26, ThenAt DEF IInv, TypeInv, PcInv, Tasks, FileInv, CopyInv, Copies, Begin,
      Goto
  <2>3. HeldInv'
    BY <1>26, ThenAt DEF IInv, TypeInv, PcInv, LockInv, SlotInv, SlotKept, OnFlash,
      Tasks, FileInv, HeldInv, CopyInv, None, Torn, Good, Copies, BackupDue, Closed,
      Savers, Begin, Goto
  <2>4. DoneInv'
    BY <1>26, ThenAt DEF IInv, TypeInv, PcInv, Tasks, FileInv, DoneInv, Up, Begin, Goto
  <2>. QED  BY <2>1, <2>2, <2>3, <2>4 DEF FileInv
<1>27. ASSUME NEW t \in Tasks, Open(t) PROVE FileInv'
  <2>1. TornInv'
    BY <1>27, ThenAt DEF IInv, TypeInv, PcInv, Tasks, FileInv, TornInv, Torn, Good,
      Open, Goto
  <2>2. CopyInv'
    BY <1>27, Alone DEF IInv, TypeInv, PcInv, Tasks, FileInv, CopyInv, None, Torn,
      OnFlash, Open, Goto
  <2>3. HeldInv'
    BY <1>27, ThenAt DEF IInv, TypeInv, PcInv, LockInv, SlotInv, SlotKept, OnFlash,
      Tasks, FileInv, HeldInv, CopyInv, None, Torn, Good, Copies, BackupDue, Closed,
      Savers, Open, Goto
  <2>4. DoneInv'
    BY <1>27, ThenAt DEF IInv, TypeInv, PcInv, Tasks, FileInv, DoneInv, Torn, Good, Up,
      Open, Goto
  <2>. QED  BY <2>1, <2>2, <2>3, <2>4 DEF FileInv
<1>28. ASSUME NEW t \in Tasks, Write(t) PROVE FileInv'
  <2>1. TornInv'
    BY <1>28, ThenAt, Alone DEF IInv, TypeInv, PcInv, Tasks, FileInv, TornInv, OnFlash,
      Write, TakenAsWritten, LetGo
  <2>2. CopyInv'
    BY <1>28, ThenAt, Alone DEF IInv, TypeInv, PcInv, Tasks, FileInv, CopyInv,
      VersionInv, None, OnFlash, Write, TakenAsWritten, LetGo
  <2>3. HeldInv'
    BY <1>28, ThenAt DEF IInv, TypeInv, PcInv, LockInv, SlotInv, SlotKept, OnFlash,
      Tasks, FileInv, HeldInv, CopyInv, None, Torn, Good, Copies, BackupDue, Closed,
      Savers, Write, TakenAsWritten, LetGo
  <2>4. DoneInv'
    BY <1>28, ThenAt DEF IInv, TypeInv, PcInv, Tasks, FileInv, DoneInv, VersionInv,
      None, Write, TakenAsWritten, LetGo
  <2>. QED  BY <2>1, <2>2, <2>3, <2>4 DEF FileInv
<1>29. ASSUME NEW t \in Tasks, WriteShort(t) PROVE FileInv'
  <2>1. TornInv'
    BY <1>29, ThenAt DEF IInv, TypeInv, PcInv, Tasks, FileInv, TornInv, WriteShort,
      TakenAsWritten, LetGo, Strikes
  <2>2. CopyInv'
    BY <1>29, ThenAt DEF IInv, TypeInv, PcInv, Tasks, FileInv, CopyInv, WriteShort,
      TakenAsWritten, LetGo, Strikes
  <2>3. HeldInv'
    BY <1>29, ThenAt DEF IInv, TypeInv, PcInv, LockInv, SlotInv, SlotKept, OnFlash,
      Tasks, FileInv, HeldInv, CopyInv, None, Torn, Good, Copies, BackupDue, Closed,
      Savers, WriteShort, TakenAsWritten, LetGo, Strikes
  <2>4. DoneInv'
    BY <1>29, ThenAt DEF IInv, TypeInv, PcInv, Tasks, FileInv, DoneInv, VersionInv,
      None, WriteShort, TakenAsWritten, LetGo, Strikes
  <2>. QED  BY <2>1, <2>2, <2>3, <2>4 DEF FileInv
<1>30. ASSUME NEW t \in {Loop, Writer},
              Snap(t) \/ SnapSlot(t) \/
              SnapStops(t, "snap copy") \/ SnapStops(t, "snap rename")
       PROVE  FileInv'
  <2>1. (\E a \in {"snap copy", "snap rename", "after", "end"} : pc' = [pc EXCEPT ![t] = a])
        /\ UNCHANGED <<primary, stale, held>>
    BY <1>30 DEF Snap, SnapEnd, Left, Goto, SnapSlot, TakeSlot, SnapStops, LetGo
  <2>2. TornInv' /\ CopyInv'
    BY <2>1, OnlyMoves DEF Tasks
  <2>3. HeldInv'
    BY <1>30 DEF IInv, TypeInv, PcInv, Tasks, FileInv, HeldInv, Savers, Snap, SnapEnd,
      Left, Goto, SnapSlot, TakeSlot, SnapStops, LetGo
  <2>4. DoneInv'
    BY <1>30 DEF IInv, TypeInv, PcInv, Tasks, FileInv, DoneInv, Up, Snap, SnapEnd, Left,
      Goto, SnapSlot, TakeSlot, SnapStops, LetGo
  <2>. QED  BY <2>2, <2>3, <2>4 DEF FileInv
<1>31. ASSUME NEW t \in {Loop, Writer}, SnapCopy(t) PROVE FileInv'
  BY <1>31, ThenAt DEF IInv, TypeInv, PcInv, LockInv, SlotInv, SlotKept, OnFlash, Tasks,
    FileInv, FilesInv, VersionInv, HolderInv, BootInv, KeptInv, Files, None, Torn, Good,
    Savers, Up, TornInv, CopyInv, HeldInv, DoneInv, Recovered, Copies, BackupDue,
    Closed, SnapCopy, Noted, LetGo, Goto
<1>32. ASSUME NEW t \in {Loop, Writer}, SnapDone(t) PROVE FileInv'
  BY <1>32, ThenAt DEF IInv, TypeInv, PcInv, LockInv, SlotInv, SlotKept, OnFlash, Tasks,
    FileInv, FilesInv, VersionInv, HolderInv, BootInv, KeptInv, Files, None, Torn, Good,
    Savers, Up, TornInv, CopyInv, HeldInv, DoneInv, Recovered, Copies, BackupDue,
    Closed, SnapDone, Ended, Goto
<1>33. ASSUME NEW t \in {Loop, Writer}, SnapSkip(t) PROVE FileInv'
  BY <1>33, ThenAt DEF IInv, TypeInv, PcInv, LockInv, SlotInv, SlotKept, OnFlash, Tasks,
    FileInv, FilesInv, VersionInv, HolderInv, BootInv, KeptInv, Files, None, Torn, Good,
    Savers, Up, TornInv, CopyInv, HeldInv, DoneInv, Recovered, Copies, BackupDue,
    Closed, SnapSkip, Goto
<1>34. ASSUME NEW t \in {Loop, Writer}, SnapStale(t) PROVE FileInv'
  BY <1>34, ThenAt DEF IInv, TypeInv, PcInv, LockInv, SlotInv, SlotKept, OnFlash, Tasks,
    FileInv, FilesInv, VersionInv, HolderInv, BootInv, KeptInv, Files, None, Torn, Good,
    Savers, Up, TornInv, CopyInv, HeldInv, DoneInv, Recovered, Copies, BackupDue,
    Closed, SnapStale, Noted, Goto
<1>35. ASSUME NEW t \in {Loop, Writer}, SnapCopied(t) PROVE FileInv'
  BY <1>35, ThenAt DEF IInv, TypeInv, PcInv, LockInv, SlotInv, SlotKept, OnFlash, Tasks,
    FileInv, FilesInv, VersionInv, HolderInv, BootInv, KeptInv, Files, None, Torn, Good,
    Savers, Up, TornInv, CopyInv, HeldInv, DoneInv, Recovered, Copies, BackupDue,
    Closed, SnapCopied, Noted, LetGo, Strikes
<1>36. ASSUME NEW t \in {Loop, Writer}, SnapRename(t) PROVE FileInv'
  BY <1>36, ThenAt DEF IInv, TypeInv, PcInv, LockInv, SlotInv, SlotKept, OnFlash, Tasks,
    FileInv, FilesInv, VersionInv, HolderInv, BootInv, KeptInv, Files, None, Torn, Good,
    Savers, Up, TornInv, CopyInv, HeldInv, DoneInv, Recovered, Copies, BackupDue,
    Closed, SnapRename, Replace, Noted, LetGo
<1>37. CASE UNCHANGED vars
  BY <1>37 DEF IInv, TypeInv, PcInv, LockInv, SlotInv, SlotKept, OnFlash, Tasks,
    FileInv, FilesInv, VersionInv, HolderInv, BootInv, KeptInv, Files, None, Torn, Good,
    Savers, Up, TornInv, CopyInv, HeldInv, DoneInv, Recovered, Copies, BackupDue,
    Closed, vars
<1>. QED  BY <1>1, <1>2, <1>3, <1>4, <1>5, <1>6, <1>7, <1>8, <1>9, <1>10, <1>11, <1>12,
  <1>13, <1>14, <1>15, <1>16, <1>17, <1>18, <1>19, <1>20, <1>21, <1>22, <1>23, <1>24,
  <1>25, <1>26, <1>27, <1>28, <1>29, <1>30, <1>31, <1>32, <1>33, <1>34, <1>35, <1>36,
  <1>37 DEF Next, WriterRuns, Save, SnapSteps

\* A wiped entry has nothing saved.
LEMMA WipedStep ==
  ASSUME IInv, [Next]_vars
  PROVE  WipedInv'
<1>1. CASE Load
  BY <1>1, ThenAt DEF IInv, TypeInv, PcInv, WipedInv, Tasks, BootInv, Up, Load,
    Recovered, Good, Goto
<1>2. CASE Serve \/ Run \/ Top \/ Backup \/ Second \/ End \/ Request \/ Freeze \/
           FreezeDone \/ Close \/ Closing \/ Flush
  BY <1>2, ThenAt DEF IInv, TypeInv, PcInv, WipedInv, Tasks, Serve, Goto, Run, Top,
    Stopped, TakeSlot, Backup, Closed, LetGo, Strikes, Second, End, Request, Ask,
    Freeze, FreezeDone, Replace, Close, Still, Closing, Flush
<1>3. CASE Wipe \/ Reset \/ PowerCut \/ SetSupply
  BY <1>3, ThenAt DEF IInv, TypeInv, PcInv, WipedInv, Tasks, Wipe, Goto, Reset,
    PowerCut, Reboot, Rest, Strikes, SetSupply
<1>4. ASSUME NEW t \in Tasks,
             Change(t) \/ SaveLate(t) \/ SaveClosed(t) \/ SaveUnread(t) \/
             SaveUnchanged(t) \/ SaveRefused(t) \/ Begin(t) \/ Copy(t) \/ CopyDone(t) \/
             CopyFails(t) \/ OpenPaused(t) \/ WriteFails(t)
      PROVE  WipedInv'
  BY <1>4, ThenAt DEF IInv, TypeInv, PcInv, WipedInv, Tasks, Change, Goto, SaveLate,
    Defer, LetGo, SaveClosed, SaveUnread, Strikes, SaveUnchanged, SaveRefused, Begin,
    Copy, CopyDone, CopyFails, NoBackup, Failed, OpenPaused, WriteFails
<1>5. ASSUME NEW t \in Tasks, Open(t) PROVE WipedInv'
  BY <1>5 DEF IInv, TypeInv, PcInv, WipedInv, Tasks, SlotInv, SlotKept, OnFlash, Open,
    Goto
<1>6. ASSUME NEW t \in Tasks, Write(t) \/ WriteShort(t) PROVE WipedInv'
  BY <1>6, ThenAt DEF IInv, TypeInv, PcInv, WipedInv, Tasks, SlotInv, SlotKept, OnFlash,
    Write, TakenAsWritten, LetGo, WriteShort, Strikes
<1>7. ASSUME NEW t \in {Loop, Writer},
             Snap(t) \/ SnapSlot(t) \/
             SnapStops(t, "snap copy") \/ SnapStops(t, "snap rename") \/ SnapSkip(t) \/
             SnapStale(t) \/ SnapCopy(t) \/ SnapCopied(t) \/ SnapRename(t) \/
             SnapDone(t)
      PROVE  WipedInv'
  BY <1>7, ThenAt DEF IInv, TypeInv, PcInv, WipedInv, Tasks, Snap, SnapEnd, Left, Goto,
    SnapSlot, TakeSlot, SnapStops, LetGo, SnapSkip, SnapStale, Noted, SnapCopy,
    SnapCopied, Strikes, SnapRename, Replace, SnapDone, Ended
<1>8. CASE UNCHANGED vars
  BY <1>8 DEF IInv, TypeInv, PcInv, WipedInv, Tasks, vars
<1>. QED  BY <1>1, <1>2, <1>3, <1>4, <1>5, <1>6, <1>7, <1>8 DEF Next, WriterRuns, Save,
  SnapSteps

\* Without a backup that is held the primary verifies.
LEMMA GoodStep ==
  ASSUME IInv, [Next]_vars
  PROVE  GoodInv'
<1>1. CASE Load \/ Serve \/ Run \/ Top \/ Backup \/ Second \/ End \/ Request \/ Freeze \/
           FreezeDone \/ Close \/ Closing
  BY <1>1, ThenAt DEF IInv, TypeInv, PcInv, Tasks, KeptInv, GoodInv, FileInv, TornInv,
    CopyInv, DoneInv, BootInv, VersionInv, FilesInv, Files, Recovered, None, Torn, Good,
    Up, Load, Goto, Serve, Run, Top, Stopped, TakeSlot, Backup, Closed, LetGo, Strikes,
    Second, End, Request, Ask, Freeze, FreezeDone, Replace, Close, Still, Closing
<1>2. CASE Flush \/ Wipe \/ Reset \/ PowerCut \/ SetSupply
  BY <1>2, ThenAt DEF IInv, TypeInv, PcInv, Tasks, KeptInv, GoodInv, FileInv, TornInv,
    CopyInv, DoneInv, BootInv, VersionInv, FilesInv, Files, Recovered, None, Torn, Good,
    Up, Flush, Still, TakeSlot, Goto, Wipe, Reset, PowerCut, Reboot, Rest, Strikes,
    SetSupply
<1>3. ASSUME NEW t \in Tasks, WriteShort(t) PROVE GoodInv'
  BY <1>3, ThenAt DEF IInv, TypeInv, PcInv, Tasks, KeptInv, GoodInv, FileInv, TornInv,
    CopyInv, DoneInv, BootInv, VersionInv, FilesInv, Files, Recovered, None, Torn, Good,
    Up, WriteShort, TakenAsWritten, LetGo, Strikes
<1>4. ASSUME NEW t \in Tasks, Write(t) PROVE GoodInv'
  BY <1>4, ThenAt DEF IInv, TypeInv, PcInv, Tasks, KeptInv, GoodInv, FileInv, TornInv,
    CopyInv, DoneInv, BootInv, VersionInv, FilesInv, Files, Recovered, None, Torn, Good,
    Up, Write, TakenAsWritten, LetGo
<1>5. ASSUME NEW t \in Tasks, WriteFails(t) PROVE GoodInv'
  BY <1>5, ThenAt DEF IInv, TypeInv, PcInv, Tasks, KeptInv, GoodInv, FileInv, TornInv,
    CopyInv, DoneInv, BootInv, VersionInv, FilesInv, Files, Recovered, None, Torn, Good,
    Up, WriteFails, Failed, Defer, LetGo, Strikes
<1>6. ASSUME NEW t \in Tasks,
             Change(t) \/ SaveLate(t) \/ SaveClosed(t) \/ SaveUnread(t) \/
             SaveUnchanged(t) \/ SaveRefused(t) \/ Begin(t) \/ Copy(t) \/ CopyDone(t) \/
             CopyFails(t) \/ Open(t) \/ OpenPaused(t)
      PROVE  GoodInv'
  BY <1>6, ThenAt DEF IInv, TypeInv, PcInv, Tasks, KeptInv, GoodInv, FileInv, TornInv,
    CopyInv, DoneInv, BootInv, VersionInv, FilesInv, Files, Recovered, None, Torn, Good,
    Up, Change, Goto, SaveLate, Defer, LetGo, SaveClosed, SaveUnread, Strikes,
    SaveUnchanged, SaveRefused, Begin, Copy, CopyDone, CopyFails, NoBackup, Failed,
    Open, OpenPaused
<1>7. ASSUME NEW t \in {Loop, Writer},
             Snap(t) \/ SnapSlot(t) \/
             SnapStops(t, "snap copy") \/ SnapStops(t, "snap rename") \/ SnapSkip(t) \/
             SnapStale(t) \/ SnapCopy(t) \/ SnapCopied(t) \/ SnapDone(t)
      PROVE  GoodInv'
  BY <1>7, ThenAt DEF IInv, TypeInv, PcInv, Tasks, KeptInv, GoodInv, FileInv, TornInv,
    CopyInv, DoneInv, BootInv, VersionInv, FilesInv, Files, Recovered, None, Torn, Good,
    Up, Snap, SnapEnd, Left, Goto, SnapSlot, TakeSlot, SnapStops, LetGo, SnapSkip,
    SnapStale, Noted, SnapCopy, SnapCopied, Strikes, SnapDone, Ended
<1>8. ASSUME NEW t \in {Loop, Writer}, SnapRename(t) PROVE GoodInv'
  <2>1. UNCHANGED <<primary, done, held, stale>> /\ (pc[Loop] = "load" => pc'[Loop] = "load")
    BY <1>8 DEF IInv, TypeInv, PcInv, Tasks, SnapRename, Replace, Noted, LetGo
  <2>2. spoilt => spoilt'
    BY <1>8 DEF Tasks, SnapRename, Replace, Noted, LetGo
  <2>. QED  BY <2>1, <2>2 DEF IInv, KeptInv, GoodInv, Up
<1>9. CASE UNCHANGED vars
  BY <1>9 DEF IInv, TypeInv, PcInv, Tasks, KeptInv, GoodInv, FileInv, TornInv, CopyInv,
    DoneInv, BootInv, VersionInv, FilesInv, Files, Recovered, None, Torn, Good, Up, vars
<1>. QED  BY <1>1, <1>2, <1>3, <1>4, <1>5, <1>6, <1>7, <1>8, <1>9 DEF Next, WriterRuns,
  Save, SnapSteps

\* The version saved last is the one that a boot would find.
LEMMA KeptStep ==
  ASSUME IInv, [Next]_vars
  PROVE  SaveKept'
<1>1. CASE Load \/ Serve \/ Run \/ Top \/ Backup \/ Second \/ End \/ Freeze \/ Close \/
           Closing \/ Flush \/ Reset \/ PowerCut
  BY <1>1 DEF IInv, TypeInv, PcInv, Tasks, KeptInv, SaveKept, GoodInv, BackupHeldInv,
    RenameInv, Renames, FileInv, TornInv, CopyInv, HeldInv, Undisturbed, Recovered,
    None, Torn, Good, Up, VersionInv, Load, Goto, Serve, Run, Top, Stopped, TakeSlot,
    Backup, Closed, LetGo, Strikes, Second, End, Freeze, Close, Still, Closing, Flush,
    Reset, PowerCut, Reboot, Rest
<1>2. CASE SetSupply
  BY <1>2 DEF IInv, TypeInv, PcInv, Tasks, KeptInv, SaveKept, GoodInv, BackupHeldInv,
    RenameInv, Renames, FileInv, TornInv, CopyInv, HeldInv, Undisturbed, Recovered,
    None, Torn, Good, Up, VersionInv, SetSupply
<1>3. CASE Request
  BY <1>3 DEF IInv, KeptInv, SaveKept, Recovered, Good, None, Request, Ask
<1>4. CASE FreezeDone
  <2>1. \/ UNCHANGED <<backup, spoilt>>
        \/ /\ backup' = primary /\ pc[Web] = "freezing"
           /\ (primary = Torn => spoilt') /\ (spoilt => spoilt')
    BY <1>4, FreezeMakes
  <2>2. UNCHANGED <<primary, done, overtaken>>
    BY <1>4 DEF FreezeDone, Replace, LetGo, Strikes
  <2>3. spoilt => spoilt'
    BY <1>4 DEF FreezeDone, Replace, LetGo, Strikes
  <2>. QED  BY <2>1, <2>2, <2>3, Kinds DEF IInv, KeptInv, SaveKept, Recovered, TypeInv,
    FilesInv, FileInv, CopyInv
<1>5. CASE Wipe
  BY <1>5 DEF IInv, KeptInv, SaveKept, Recovered, Good, None, WipedInv, Wipe, Goto
<1>6. ASSUME NEW t \in Tasks,
             Change(t) \/ SaveLate(t) \/ SaveClosed(t) \/ SaveUnread(t) \/
             SaveUnchanged(t) \/ SaveRefused(t) \/ Begin(t) \/ Copy(t) \/ CopyFails(t) \/
             OpenPaused(t) \/ WriteFails(t) \/ WriteShort(t)
      PROVE  SaveKept'
  BY <1>6 DEF IInv, TypeInv, PcInv, Tasks, KeptInv, SaveKept, GoodInv, BackupHeldInv,
    RenameInv, Renames, FileInv, TornInv, CopyInv, HeldInv, Undisturbed, Recovered,
    None, Torn, Good, Up, VersionInv, Change, Goto, SaveLate, Defer, LetGo, SaveClosed,
    SaveUnread, Strikes, SaveUnchanged, SaveRefused, Begin, Copy, CopyFails, NoBackup,
    Failed, OpenPaused, WriteFails, WriteShort, TakenAsWritten
<1>7. ASSUME NEW t \in Tasks, CopyDone(t) PROVE SaveKept'
  BY <1>7 DEF IInv, KeptInv, SaveKept, Recovered, Good, None, Torn, TypeInv, PcInv,
    GoodInv, FileInv, CopyInv, BootInv, Up, Tasks, CopyDone, LetGo, Goto
<1>8. ASSUME NEW t \in Tasks, Open(t) PROVE SaveKept'
  BY <1>8 DEF IInv, KeptInv, SaveKept, Recovered, Good, None, Torn, FileInv, HeldInv,
    TornInv, BackupHeldInv, Undisturbed, Savers, Tasks, Open, Goto
<1>9. ASSUME NEW t \in Tasks, Write(t) PROVE SaveKept'
  BY <1>9 DEF IInv, KeptInv, SaveKept, Recovered, Good, TypeInv, VersionInv, None,
    Write, TakenAsWritten, LetGo
<1>10. ASSUME NEW t \in {Loop, Writer},
              Snap(t) \/ SnapSlot(t) \/
              SnapStops(t, "snap copy") \/ SnapStops(t, "snap rename") \/ SnapSkip(t) \/
              SnapStale(t) \/ SnapCopy(t) \/ SnapCopied(t) \/ SnapDone(t)
       PROVE  SaveKept'
  BY <1>10 DEF IInv, TypeInv, PcInv, Tasks, KeptInv, SaveKept, GoodInv, BackupHeldInv,
    RenameInv, Renames, FileInv, TornInv, CopyInv, HeldInv, Undisturbed, Recovered,
    None, Torn, Good, Up, VersionInv, Snap, SnapEnd, Left, Goto, SnapSlot, TakeSlot,
    SnapStops, LetGo, SnapSkip, SnapStale, Noted, SnapCopy, SnapCopied, Strikes,
    SnapDone, Ended
<1>11. ASSUME NEW t \in {Loop, Writer}, SnapRename(t) PROVE SaveKept'
  <2>1. \/ UNCHANGED <<backup, spoilt>>
        \/ /\ backup' = btmp /\ btmp # None /\ btmp' = None
           /\ (btmp = Torn => spoilt') /\ (spoilt => spoilt')
    BY <1>11, RenameMakes
  <2>2. UNCHANGED <<primary, done, overtaken>> /\ pc[t] = "snap rename"
    BY <1>11 DEF Tasks, SnapRename, Replace, Noted, LetGo
  <2>3. spoilt => spoilt'
    BY <1>11, SpoiltStays
  <2>4. Undisturbed' /\ Undisturbed /\ backup' = btmp /\ btmp \notin {None, Torn} /\ ~Good(primary) => btmp = done
    BY <2>2, Kinds DEF IInv, KeptInv, RenameInv, Renames, TypeInv, FilesInv, Tasks
  <2>5. Undisturbed' => Undisturbed
    BY <2>2, <2>3 DEF Undisturbed
  <2>6. Undisturbed => Recovered = done
    BY DEF IInv, KeptInv, SaveKept, Undisturbed
  <2>7. Undisturbed' => backup' = backup \/ (backup' = btmp /\ btmp \notin {None, Torn})
    BY <2>1, Kinds DEF Undisturbed
  <2>8. Undisturbed' => Recovered' = done'
    <3>1. CASE Good(primary)
      BY <3>1, <2>2, <2>5, <2>6 DEF Recovered
    <3>2. CASE ~Good(primary)
      <4>1. CASE UNCHANGED backup
        BY <4>1, <2>2, <2>5, <2>6 DEF Recovered
      <4>2. CASE backup' = btmp /\ btmp \notin {None, Torn}
        <5>1. Good(btmp)
          BY <4>2, Kinds DEF IInv, TypeInv, FilesInv
        <5>. QED  BY <5>1, <3>2, <4>2, <2>2, <2>4, <2>5 DEF Recovered
      <4>. QED  BY <4>1, <4>2, <2>7
    <3>. QED  BY <3>1, <3>2
  <2>. QED  BY <2>1, <2>2, <2>3, <2>4, <2>5, <2>6, <2>7, <2>8 DEF SaveKept, Undisturbed
<1>12. CASE UNCHANGED vars
  BY <1>12 DEF IInv, TypeInv, PcInv, Tasks, KeptInv, SaveKept, GoodInv, BackupHeldInv,
    RenameInv, Renames, FileInv, TornInv, CopyInv, HeldInv, Undisturbed, Recovered,
    None, Torn, Good, Up, VersionInv, vars
<1>. QED  BY <1>1, <1>2, <1>3, <1>4, <1>5, <1>6, <1>7, <1>8, <1>9, <1>10, <1>11, <1>12
  DEF Next, WriterRuns, Save, SnapSteps

\* The backup that is held stays what it is, and what may replace it is the primary's copy.
LEMMA BackupHeldStays ==
  ASSUME IInv, UNCHANGED <<primary, backup, done, overtaken>>, spoilt => spoilt',
         held' /\ Good(primary) => held, btmp' \in {btmp, primary, None, Torn}
  PROVE  BackupHeldInv'
<1>1. CASE btmp' = btmp
  BY <1>1 DEF IInv, KeptInv, BackupHeldInv, Undisturbed
<1>2. CASE btmp' = primary
  BY <1>2 DEF IInv, KeptInv, BackupHeldInv, SaveKept, Recovered, Undisturbed
<1>3. CASE btmp' \in {None, Torn}
  BY <1>3, Kinds DEF IInv, KeptInv, BackupHeldInv, Undisturbed
<1>. QED  BY <1>1, <1>2, <1>3

\* The backup of a save under way is the version saved last.
LEMMA BackupHeldStep ==
  ASSUME IInv, [Next]_vars
  PROVE  BackupHeldInv'
<1>1. CASE Load
  BY <1>1 DEF IInv, KeptInv, BackupHeldInv, Undisturbed, Good, BootInv, Up, Load,
    Recovered, Goto
<1>2. CASE Serve \/ Run \/ Top \/ Second \/ End \/ Request \/ Close \/ Closing \/
           Flush \/ Reset \/ PowerCut \/ SetSupply
  BY <1>2 DEF IInv, KeptInv, BackupHeldInv, Undisturbed, Good, Serve, Goto, Run, Top,
    Stopped, TakeSlot, Second, End, Request, Ask, Close, Still, Closing, Flush, Reset,
    PowerCut, Reboot, Rest, Strikes, SetSupply
<1>3. CASE Backup
  <2>1. UNCHANGED <<primary, backup, done, overtaken>> /\ btmp' = btmp
    BY <1>3 DEF Backup, Closed, LetGo, Goto, Strikes
  <2>2. spoilt => spoilt'
    BY <1>3 DEF Backup, Closed, LetGo, Goto, Strikes
  <2>3. held' /\ Good(primary) => held
    BY <1>3, Kinds DEF IInv, FileInv, TornInv, BackupDue, Backup, Closed, LetGo, Goto,
      Strikes
  <2>. QED  BY <2>1, <2>2, <2>3, BackupHeldStays
<1>4. CASE Freeze
  BY <1>4 DEF IInv, KeptInv, BackupHeldInv, Undisturbed, Good, Torn, Freeze, Goto
<1>5. CASE FreezeDone
  <2>1. \/ UNCHANGED <<backup, spoilt>>
        \/ /\ backup' = primary /\ pc[Web] = "freezing"
           /\ (primary = Torn => spoilt') /\ (spoilt => spoilt')
    BY <1>5, FreezeMakes
  <2>2. btmp' \in {btmp, primary, None} /\ UNCHANGED <<primary, done, overtaken, held>>
    BY <1>5 DEF FreezeDone, Replace, LetGo, Strikes
  <2>3. spoilt => spoilt'
    BY <1>5 DEF FreezeDone, Replace, LetGo, Strikes
  <2>. QED  BY <2>1, <2>2, <2>3, Kinds DEF IInv, KeptInv, BackupHeldInv, SaveKept,
    Recovered, Undisturbed
<1>6. CASE Wipe
  BY <1>6 DEF IInv, KeptInv, BackupHeldInv, Undisturbed, Good, None, WipedInv, Wipe,
    Goto
<1>7. ASSUME NEW t \in Tasks,
             Change(t) \/ SaveLate(t) \/ SaveClosed(t) \/ SaveUnread(t) \/
             SaveUnchanged(t) \/ SaveRefused(t) \/ Begin(t) \/ Write(t) \/
             WriteFails(t) \/ WriteShort(t)
      PROVE  BackupHeldInv'
  BY <1>7 DEF IInv, KeptInv, BackupHeldInv, Undisturbed, Good, Change, Goto, SaveLate,
    Defer, LetGo, SaveClosed, SaveUnread, Strikes, SaveUnchanged, SaveRefused, Begin,
    Write, TakenAsWritten, WriteFails, Failed, WriteShort
<1>8. ASSUME NEW t \in Tasks, Copy(t) PROVE BackupHeldInv'
  BY <1>8 DEF IInv, KeptInv, BackupHeldInv, Undisturbed, Good, Torn, Copy, Goto
<1>9. ASSUME NEW t \in Tasks, Open(t) PROVE BackupHeldInv'
  BY <1>9 DEF IInv, KeptInv, BackupHeldInv, Undisturbed, Good, Torn, Open, Goto
<1>10. ASSUME NEW t \in Tasks, CopyDone(t) PROVE BackupHeldInv'
  BY <1>10 DEF IInv, KeptInv, BackupHeldInv, Undisturbed, Good, SaveKept, Recovered,
    None, Torn, CopyDone, LetGo, Goto
<1>11. ASSUME NEW t \in Tasks, CopyFails(t) PROVE BackupHeldInv'
  <2>1. UNCHANGED <<primary, backup, done, overtaken>> /\ btmp' \in {btmp, primary, None, Torn}
    BY <1>11 DEF CopyFails, NoBackup, Failed, Defer, LetGo, Strikes
  <2>2. spoilt => spoilt'
    BY <1>11 DEF CopyFails, NoBackup, Failed, Defer, LetGo, Strikes
  <2>3. held' = held
    BY <1>11 DEF CopyFails, NoBackup, Failed, Defer, LetGo, Strikes
  <2>. QED  BY <2>1, <2>2, <2>3, BackupHeldStays
<1>12. ASSUME NEW t \in Tasks, OpenPaused(t) PROVE BackupHeldInv'
  <2>1. UNCHANGED <<primary, backup, done, overtaken>> /\ btmp' = btmp
    BY <1>12 DEF OpenPaused, Failed, Defer, LetGo
  <2>2. spoilt => spoilt'
    BY <1>12 DEF OpenPaused, Failed, Defer, LetGo
  <2>3. held' /\ Good(primary) => held
    BY <1>12, Kinds DEF IInv, FileInv, HeldInv, TornInv, Savers, Tasks, OpenPaused,
      Failed, Defer, LetGo
  <2>. QED  BY <2>1, <2>2, <2>3, BackupHeldStays
<1>13. ASSUME NEW t \in {Loop, Writer},
              Snap(t) \/ SnapSlot(t) \/
              SnapStops(t, "snap copy") \/ SnapStops(t, "snap rename") \/ SnapSkip(t) \/
              SnapStale(t) \/ SnapDone(t)
       PROVE  BackupHeldInv'
  BY <1>13 DEF IInv, KeptInv, BackupHeldInv, Undisturbed, Good, Tasks, Snap, SnapEnd,
    Left, Goto, SnapSlot, TakeSlot, SnapStops, LetGo, SnapSkip, SnapStale, Noted,
    SnapDone, Ended
<1>14. ASSUME NEW t \in {Loop, Writer}, SnapCopy(t) PROVE BackupHeldInv'
  <2>1. UNCHANGED <<primary, backup, done, overtaken>> /\ btmp' \in {btmp, Torn}
    BY <1>14 DEF Tasks, SnapCopy, Noted, LetGo, Goto
  <2>2. spoilt => spoilt'
    BY <1>14 DEF Tasks, SnapCopy, Noted, LetGo, Goto
  <2>3. held' = held
    BY <1>14 DEF Tasks, SnapCopy, Noted, LetGo, Goto
  <2>. QED  BY <2>1, <2>2, <2>3, BackupHeldStays
<1>15. ASSUME NEW t \in {Loop, Writer}, SnapCopied(t) PROVE BackupHeldInv'
  <2>1. UNCHANGED <<primary, backup, done, overtaken>> /\ btmp' \in {primary, None}
    BY <1>15 DEF Tasks, SnapCopied, Noted, LetGo, Strikes
  <2>2. spoilt => spoilt'
    BY <1>15 DEF Tasks, SnapCopied, Noted, LetGo, Strikes
  <2>3. held' = held
    BY <1>15 DEF Tasks, SnapCopied, Noted, LetGo, Strikes
  <2>. QED  BY <2>1, <2>2, <2>3, BackupHeldStays
<1>16. ASSUME NEW t \in {Loop, Writer}, SnapRename(t) PROVE BackupHeldInv'
  <2>1. \/ UNCHANGED <<backup, spoilt>>
        \/ /\ backup' = btmp /\ btmp # None /\ btmp' = None
           /\ (btmp = Torn => spoilt') /\ (spoilt => spoilt')
    BY <1>16, RenameMakes
  <2>2. btmp' \in {btmp, None} /\ UNCHANGED <<primary, done, overtaken, held>>
    BY <1>16 DEF Tasks, SnapRename, Replace, Noted, LetGo
  <2>3. spoilt => spoilt'
    BY <1>16 DEF Tasks, SnapRename, Replace, Noted, LetGo
  <2>. QED  BY <2>1, <2>2, <2>3, Kinds DEF IInv, KeptInv, BackupHeldInv, Undisturbed,
    TypeInv, FilesInv
<1>17. CASE UNCHANGED vars
  BY <1>17 DEF IInv, KeptInv, BackupHeldInv, Undisturbed, Good, vars
<1>. QED  BY <1>1, <1>2, <1>3, <1>4, <1>5, <1>6, <1>7, <1>8, <1>9, <1>10, <1>11, <1>12,
  <1>13, <1>14, <1>15, <1>16, <1>17 DEF Next, WriterRuns, Save, SnapSteps

\* Nobody comes to the second step, and the copy is the one there was or no use.
LEMMA RenameStays ==
  ASSUME IInv, btmp' \in {btmp, primary', None, Torn}, UNCHANGED <<primary, done, overtaken>>,
         spoilt => spoilt',
         \A u \in Tasks : pc'[u] = "snap rename" => pc[u] = "snap rename"
  PROVE  RenameInv'
<1>1. CASE btmp' = btmp
  BY <1>1 DEF IInv, KeptInv, RenameInv, Renames, Undisturbed
<1>2. CASE btmp' = primary'
  BY <1>2 DEF RenameInv, Renames
<1>3. CASE btmp' \in {None, Torn}
  BY <1>3, Kinds DEF RenameInv, Renames
<1>. QED  BY <1>1, <1>2, <1>3

\* What the queued run is about to rename is no older than the file.
LEMMA RenameStep ==
  ASSUME IInv, [Next]_vars
  PROVE  RenameInv'
<1>1. CASE Load
  <2>1. \A u \in Tasks : pc'[u] # "snap rename"
    BY <1>1 DEF IInv, TypeInv, PcInv, Tasks, BootInv, Up, Load, Recovered, Good, Goto
  <2>. QED  BY <2>1, Kinds DEF IInv, KeptInv, RenameInv, Renames, Undisturbed
<1>2. CASE Serve \/ Run \/ Top \/ Backup \/ Second \/ End \/ Request \/ Close \/
           Closing \/ Flush \/ Reset \/ PowerCut \/ SetSupply
  <2>1. UNCHANGED <<primary, btmp, done, spoilt, overtaken>>
    BY <1>2 DEF Serve, Goto, Run, Top, Stopped, TakeSlot, Backup, Closed, LetGo,
      Strikes, Second, End, Request, Ask, Close, Still, Closing, Flush, Reset, PowerCut,
      Reboot, Rest, SetSupply
  <2>2. \A u \in Tasks : pc'[u] = "snap rename" => pc[u] = "snap rename"
    BY <1>2, ThenAt DEF IInv, TypeInv, PcInv, Tasks, Serve, Goto, Run, Top, Stopped,
      TakeSlot, Backup, Closed, LetGo, Strikes, Second, End, Request, Ask, Close, Still,
      Closing, Flush, Reset, PowerCut, Reboot, Rest, SetSupply
  <2>. QED  BY <2>1, <2>2, RenameStays
<1>3. CASE Freeze
  <2>1. btmp' = Torn
    BY <1>3 DEF Freeze, Goto
  <2>. QED  BY <2>1, Kinds DEF IInv, KeptInv, RenameInv, Renames, Undisturbed
<1>4. CASE FreezeDone
  <2>1. btmp' \in {btmp, primary', None} /\ UNCHANGED <<primary, done, overtaken>>
    BY <1>4 DEF FreezeDone, Replace, LetGo, Strikes
  <2>2. spoilt => spoilt'
    BY <1>4 DEF FreezeDone, Replace, LetGo, Strikes
  <2>3. \A u \in Tasks : pc'[u] = "snap rename" => pc[u] = "snap rename"
    BY <1>4, ThenAt DEF IInv, TypeInv, PcInv, Tasks, FreezeDone, Replace, LetGo, Strikes
  <2>. QED  BY <2>1, <2>2, <2>3, RenameStays
<1>5. CASE Wipe
  <2>1. done' = None \/ btmp' = None
    BY <1>5 DEF Wipe, Goto
  <2>. QED  BY <2>1, Kinds DEF IInv, KeptInv, RenameInv, Renames, Undisturbed
<1>6. ASSUME NEW t \in Tasks,
             Change(t) \/ SaveLate(t) \/ SaveClosed(t) \/ SaveUnread(t) \/
             SaveUnchanged(t) \/ SaveRefused(t) \/ Begin(t) \/ OpenPaused(t) \/
             WriteFails(t)
      PROVE  RenameInv'
  <2>1. UNCHANGED <<primary, btmp, done, spoilt, overtaken>>
    BY <1>6 DEF Change, Goto, SaveLate, Defer, LetGo, SaveClosed, SaveUnread, Strikes,
      SaveUnchanged, SaveRefused, Begin, OpenPaused, Failed, WriteFails
  <2>2. \A u \in Tasks : pc'[u] = "snap rename" => pc[u] = "snap rename"
    BY <1>6, ThenAt DEF IInv, TypeInv, PcInv, Tasks, Change, Goto, SaveLate, Defer,
      LetGo, SaveClosed, SaveUnread, Strikes, SaveUnchanged, SaveRefused, Begin,
      OpenPaused, Failed, WriteFails
  <2>. QED  BY <2>1, <2>2, RenameStays
<1>7. ASSUME NEW t \in Tasks, Copy(t) PROVE RenameInv'
  <2>1. btmp' = Torn
    BY <1>7 DEF Copy, Goto
  <2>. QED  BY <2>1, Kinds DEF IInv, KeptInv, RenameInv, Renames, Undisturbed
<1>8. ASSUME NEW t \in Tasks, CopyDone(t) PROVE RenameInv'
  <2>1. btmp' = None
    BY <1>8 DEF CopyDone, LetGo, Goto
  <2>. QED  BY <2>1, Kinds DEF IInv, KeptInv, RenameInv, Renames, Undisturbed
<1>9. ASSUME NEW t \in Tasks, CopyFails(t) PROVE RenameInv'
  <2>1. btmp' \in {btmp, primary', None, Torn} /\ UNCHANGED <<primary, done, overtaken>>
    BY <1>9 DEF CopyFails, NoBackup, Failed, Defer, LetGo, Strikes
  <2>2. spoilt => spoilt'
    BY <1>9 DEF CopyFails, NoBackup, Failed, Defer, LetGo, Strikes
  <2>3. \A u \in Tasks : pc'[u] = "snap rename" => pc[u] = "snap rename"
    BY <1>9, ThenAt DEF IInv, TypeInv, PcInv, Tasks, CopyFails, NoBackup, Failed, Defer,
      LetGo, Strikes
  <2>. QED  BY <2>1, <2>2, <2>3, RenameStays
<1>10. ASSUME NEW t \in Tasks, Open(t) PROVE RenameInv'
  <2>1. /\ primary' = Torn /\ UNCHANGED <<btmp, done, spoilt, overtaken>>
        /\ pc[t] = "open"
    BY <1>10 DEF Open, Goto
  <2>2. \A u \in Tasks : pc'[u] = "snap rename" => pc[u] = "snap rename"
    BY <1>10, ThenAt DEF IInv, TypeInv, PcInv, Tasks, Open, Goto
  <2>. QED  BY <2>1, <2>2, Kinds DEF IInv, KeptInv, RenameInv, Renames, Undisturbed,
    FileInv, HeldInv, TornInv, BackupHeldInv, Savers, Tasks
<1>11. ASSUME NEW t \in Tasks, Write(t) PROVE RenameInv'
  <2>1. Good(primary')
    BY <1>11, Kinds DEF IInv, TypeInv, VersionInv, Write, TakenAsWritten, LetGo
  <2>. QED  BY <2>1, Kinds DEF IInv, KeptInv, RenameInv, Renames, Undisturbed
<1>12. ASSUME NEW t \in Tasks, WriteShort(t) PROVE RenameInv'
  <2>1. spoilt'
    BY <1>12 DEF WriteShort, TakenAsWritten, LetGo, Strikes
  <2>. QED  BY <2>1, Kinds DEF IInv, KeptInv, RenameInv, Renames, Undisturbed
<1>13. ASSUME NEW t \in {Loop, Writer},
              Snap(t) \/ SnapSlot(t) \/
              SnapStops(t, "snap copy") \/ SnapStops(t, "snap rename") \/ SnapSkip(t) \/
              SnapStale(t) \/ SnapDone(t)
       PROVE  RenameInv'
  <2>1. UNCHANGED <<primary, btmp, done, spoilt, overtaken>>
    BY <1>13 DEF Tasks, Snap, SnapEnd, Left, Goto, SnapSlot, TakeSlot, SnapStops, LetGo,
      SnapSkip, SnapStale, Noted, SnapDone, Ended
  <2>2. \A u \in Tasks : pc'[u] = "snap rename" => pc[u] = "snap rename"
    BY <1>13, ThenAt DEF IInv, TypeInv, PcInv, Tasks, Snap, SnapEnd, Left, Goto,
      SnapSlot, TakeSlot, SnapStops, LetGo, SnapSkip, SnapStale, Noted, SnapDone, Ended
  <2>. QED  BY <2>1, <2>2, RenameStays
<1>14. ASSUME NEW t \in {Loop, Writer}, SnapCopy(t) PROVE RenameInv'
  <2>1. btmp' \in {btmp, Torn} /\ UNCHANGED <<primary, done, overtaken>>
    BY <1>14 DEF Tasks, SnapCopy, Noted, LetGo, Goto
  <2>2. spoilt => spoilt'
    BY <1>14 DEF Tasks, SnapCopy, Noted, LetGo, Goto
  <2>3. \A u \in Tasks : pc'[u] = "snap rename" => pc[u] = "snap rename"
    BY <1>14, ThenAt DEF IInv, TypeInv, PcInv, Tasks, SnapCopy, Noted, LetGo, Goto
  <2>. QED  BY <2>1, <2>2, <2>3, RenameStays
<1>15. ASSUME NEW t \in {Loop, Writer}, SnapCopied(t) PROVE RenameInv'
  <2>1. btmp' \in {primary', None}
    BY <1>15 DEF Tasks, SnapCopied, Noted, LetGo, Strikes
  <2>. QED  BY <2>1, Kinds DEF IInv, KeptInv, RenameInv, Renames, Undisturbed
<1>16. ASSUME NEW t \in {Loop, Writer}, SnapRename(t) PROVE RenameInv'
  <2>1. btmp' \in {btmp, None} /\ UNCHANGED <<primary, done, overtaken>>
    BY <1>16 DEF Tasks, SnapRename, Replace, Noted, LetGo
  <2>2. spoilt => spoilt'
    BY <1>16 DEF Tasks, SnapRename, Replace, Noted, LetGo
  <2>3. \A u \in Tasks : pc'[u] = "snap rename" => pc[u] = "snap rename"
    BY <1>16, ThenAt DEF IInv, TypeInv, PcInv, Tasks, SnapRename, Replace, Noted, LetGo
  <2>. QED  BY <2>1, <2>2, <2>3, RenameStays
<1>17. CASE UNCHANGED vars
  BY <1>17 DEF IInv, KeptInv, RenameInv, Renames, Undisturbed, vars
<1>. QED  BY <1>1, <1>2, <1>3, <1>4, <1>5, <1>6, <1>7, <1>8, <1>9, <1>10, <1>11, <1>12,
  <1>13, <1>14, <1>15, <1>16, <1>17 DEF Next, WriterRuns, Save, SnapSteps

\* A step that starts no write and takes no save back keeps what is newer covered.
LEMMA NewerStays ==
  ASSUME IInv, UNCHANGED <<state, val, late>>, \A u \in Tasks : Writing(u)' => Writing(u),
         \A u \in Tasks : pc[u] = "save" => pc'[u] = "save"
  PROVE  NewerInv'
  BY DEF IInv, CoverInv, NewerInv

\* A state newer than the one that is being written has its own save.
LEMMA NewerStep ==
  ASSUME IInv, [Next]_vars
  PROVE  NewerInv'
<1>1. CASE Load
  <2>1. \A u \in Tasks : ~Writing(u)'
    BY <1>1 DEF IInv, TypeInv, PcInv, Tasks, BootInv, Up, Writing, Load, Recovered,
      Good, Goto
  <2>. QED  BY <2>1 DEF NewerInv
<1>2. CASE End
  BY <1>2, ThenAt, Alone DEF IInv, TypeInv, PcInv, Tasks, CoverInv, NewerInv, Writing,
    LockInv, OnFlash, End, Goto
<1>3. CASE Request
  BY ZenonT(60), <1>3, ThenAt, Alone DEF IInv, TypeInv, PcInv, Tasks, CoverInv, NewerInv, Writing,
    LockInv, OnFlash, Request, Ask
<1>4. CASE Freeze
  BY <1>4, ThenAt, Alone DEF IInv, TypeInv, PcInv, Tasks, CoverInv, NewerInv, Writing,
    LockInv, OnFlash, Freeze, Goto
<1>5. CASE Closing
  BY <1>5, ThenAt, Alone DEF IInv, TypeInv, PcInv, Tasks, CoverInv, NewerInv, Writing,
    LockInv, OnFlash, Closing, Still, Goto
<1>6. CASE Reset \/ PowerCut
  BY <1>6, ThenAt, Alone DEF IInv, TypeInv, PcInv, Tasks, CoverInv, NewerInv, Writing,
    LockInv, OnFlash, Reset, PowerCut, Reboot, Rest, Strikes
<1>7. CASE SetSupply
  BY <1>7, ThenAt, Alone DEF IInv, TypeInv, PcInv, Tasks, CoverInv, NewerInv, Writing,
    LockInv, OnFlash, SetSupply
<1>8. CASE Serve
  BY <1>8, ThenAt, Alone DEF IInv, TypeInv, PcInv, Tasks, CoverInv, NewerInv, Writing,
    LockInv, OnFlash, Serve, Goto
<1>9. CASE Run
  BY <1>9, ThenAt, Alone DEF IInv, TypeInv, PcInv, Tasks, CoverInv, NewerInv, Writing,
    LockInv, OnFlash, Run, Goto
<1>10. CASE FreezeDone
  BY <1>10, ThenAt, Alone DEF IInv, TypeInv, PcInv, Tasks, CoverInv, NewerInv, Writing,
    LockInv, OnFlash, FreezeDone, Replace, LetGo, Strikes
<1>11. CASE Close
  BY <1>11, ThenAt, Alone DEF IInv, TypeInv, PcInv, Tasks, CoverInv, NewerInv, Writing,
    LockInv, OnFlash, Close, Still, Goto
<1>12. CASE Top \/ Second \/ Flush \/ Wipe
  <2>1. UNCHANGED <<state, val, late>>
    BY <1>12 DEF Top, Stopped, TakeSlot, Goto, Second, Flush, Still, Wipe
  <2>2. \A u \in Tasks : Writing(u)' => Writing(u)
    BY <1>12, ThenAt DEF IInv, TypeInv, PcInv, Tasks, Writing, Top, Stopped, TakeSlot,
      Goto, Second, Flush, Still, Wipe
  <2>3. \A u \in Tasks : pc[u] = "save" => pc'[u] = "save"
    BY <1>12 DEF IInv, TypeInv, PcInv, Tasks, Top, Stopped, TakeSlot, Goto, Second,
      Flush, Still, Wipe
  <2>. QED  BY <2>1, <2>2, <2>3, NewerStays
<1>13. CASE Backup
  <2>1. lock = NoTask => \A u \in Tasks : ~Writing(u)'
    BY <1>13 DEF IInv, TypeInv, PcInv, LockInv, OnFlash, Tasks, Writing, Backup, Closed,
      LetGo, Goto, Strikes
  <2>2. lock # NoTask => UNCHANGED <<state, val, late>>
    BY <1>13 DEF IInv, TypeInv, PcInv, LockInv, OnFlash, Tasks, Backup, Closed, LetGo,
      Goto, Strikes
  <2>3. lock # NoTask => (\A u \in Tasks : Writing(u)' => Writing(u))
    BY <1>13 DEF IInv, TypeInv, PcInv, LockInv, OnFlash, Tasks, Writing, Backup, Closed,
      LetGo, Goto, Strikes
  <2>4. \A u \in Tasks : pc[u] = "save" => pc'[u] = "save"
    BY <1>13 DEF IInv, TypeInv, PcInv, LockInv, OnFlash, Tasks, Backup, Closed, LetGo,
      Goto, Strikes
  <2>5. lock # NoTask => NewerInv'
    BY <2>2, <2>3, <2>4, NewerStays
  <2>. QED  BY <2>1, <2>2, <2>3, <2>4, <2>5 DEF NewerInv
<1>14. ASSUME NEW t \in Tasks, Change(t) \/ SaveLate(t) PROVE NewerInv'
  BY ZenonT(60), <1>14, ThenAt, Alone DEF IInv, TypeInv, PcInv, Tasks, CoverInv, NewerInv, Writing,
    LockInv, OnFlash, Change, Goto, SaveLate, Defer, LetGo
<1>15. ASSUME NEW t \in Tasks, SaveClosed(t) PROVE NewerInv'
  BY <1>15, ThenAt, Alone DEF IInv, TypeInv, PcInv, Tasks, CoverInv, NewerInv, Writing,
    LockInv, OnFlash, SaveClosed, LetGo
<1>16. ASSUME NEW t \in Tasks, Open(t) PROVE NewerInv'
  BY <1>16, ThenAt, Alone DEF IInv, TypeInv, PcInv, Tasks, CoverInv, NewerInv, Writing,
    LockInv, OnFlash, Open, Goto
<1>17. ASSUME NEW t \in Tasks, Begin(t) PROVE NewerInv'
  BY <1>17, ThenAt, Alone DEF IInv, TypeInv, PcInv, Tasks, CoverInv, NewerInv, Writing,
    LockInv, OnFlash, Begin, Goto
<1>18. ASSUME NEW t \in Tasks, Copy(t) PROVE NewerInv'
  BY <1>18, ThenAt, Alone DEF IInv, TypeInv, PcInv, Tasks, CoverInv, NewerInv, Writing,
    LockInv, OnFlash, Copy, Goto
<1>19. ASSUME NEW t \in Tasks, SaveRefused(t) PROVE NewerInv'
  BY <1>19, ThenAt, Alone DEF IInv, TypeInv, PcInv, Tasks, CoverInv, NewerInv, Writing,
    LockInv, OnFlash, SaveRefused, Defer, LetGo
<1>20. ASSUME NEW t \in Tasks, OpenPaused(t) \/ Write(t) PROVE NewerInv'
  BY ZenonT(60), <1>20, ThenAt, Alone DEF IInv, TypeInv, PcInv, Tasks, CoverInv, NewerInv, Writing,
    LockInv, OnFlash, OpenPaused, Failed, Defer, LetGo, Write, TakenAsWritten
<1>21. ASSUME NEW t \in Tasks, WriteFails(t) PROVE NewerInv'
  BY <1>21, ThenAt, Alone DEF IInv, TypeInv, PcInv, Tasks, CoverInv, NewerInv, Writing,
    LockInv, OnFlash, WriteFails, Failed, Defer, LetGo, Strikes
<1>22. ASSUME NEW t \in Tasks, SaveUnread(t) PROVE NewerInv'
  BY <1>22, ThenAt, Alone DEF IInv, TypeInv, PcInv, Tasks, CoverInv, NewerInv, Writing,
    LockInv, OnFlash, SaveUnread, Defer, LetGo, Strikes
<1>23. ASSUME NEW t \in Tasks, SaveUnchanged(t) PROVE NewerInv'
  BY <1>23, ThenAt, Alone DEF IInv, TypeInv, PcInv, Tasks, CoverInv, NewerInv, Writing,
    LockInv, OnFlash, SaveUnchanged, LetGo
<1>24. ASSUME NEW t \in Tasks, WriteShort(t) PROVE NewerInv'
  BY <1>24, ThenAt, Alone DEF IInv, TypeInv, PcInv, Tasks, CoverInv, NewerInv, Writing,
    LockInv, OnFlash, WriteShort, TakenAsWritten, LetGo, Strikes
<1>25. ASSUME NEW t \in Tasks, CopyDone(t) PROVE NewerInv'
  <2>1. t = Writer => \A u \in Tasks : ~Writing(u)'
    BY <1>25, Alone DEF IInv, TypeInv, PcInv, LockInv, OnFlash, Tasks, Writing,
      CopyDone, LetGo, Goto
  <2>2. t # Writer => UNCHANGED <<state, val, late>>
    BY <1>25 DEF IInv, TypeInv, PcInv, LockInv, OnFlash, Tasks, CopyDone, LetGo, Goto
  <2>3. t # Writer => (\A u \in Tasks : Writing(u)' => Writing(u))
    BY <1>25 DEF IInv, TypeInv, PcInv, LockInv, OnFlash, Tasks, Writing, CopyDone,
      LetGo, Goto
  <2>4. \A u \in Tasks : pc[u] = "save" => pc'[u] = "save"
    BY <1>25 DEF IInv, TypeInv, PcInv, LockInv, OnFlash, Tasks, CopyDone, LetGo, Goto
  <2>5. t # Writer => NewerInv'
    BY <2>2, <2>3, <2>4, NewerStays
  <2>. QED  BY <2>1, <2>2, <2>3, <2>4, <2>5 DEF NewerInv
<1>26. ASSUME NEW t \in Tasks, CopyFails(t) PROVE NewerInv'
  <2>1. \A u \in Tasks : ~Writing(u)'
    BY <1>26, ThenAt, Alone DEF IInv, TypeInv, PcInv, Tasks, LockInv, OnFlash, Writing,
      CopyFails, NoBackup, Failed, Defer, LetGo, Strikes
  <2>. QED  BY <2>1 DEF NewerInv
<1>27. ASSUME NEW t \in {Loop, Writer}, Snap(t) \/ SnapSlot(t) PROVE NewerInv'
  <2>1. UNCHANGED <<state, val, late>>
    BY <1>27 DEF Tasks, Snap, SnapEnd, Left, Goto, SnapSlot, TakeSlot
  <2>2. \A u \in Tasks : Writing(u)' => Writing(u)
    BY <1>27, ThenAt DEF IInv, TypeInv, PcInv, Tasks, Writing, Snap, SnapEnd, Left,
      Goto, SnapSlot, TakeSlot
  <2>3. \A u \in Tasks : pc[u] = "save" => pc'[u] = "save"
    BY <1>27 DEF IInv, TypeInv, PcInv, Tasks, Snap, SnapEnd, Left, Goto, SnapSlot,
      TakeSlot
  <2>. QED  BY <2>1, <2>2, <2>3, NewerStays
<1>28. ASSUME NEW t \in {Loop, Writer},
              SnapStops(t, "snap copy") \/ SnapStops(t, "snap rename")
       PROVE  NewerInv'
  <2>1. UNCHANGED <<state, val, late>>
    BY <1>28 DEF IInv, TypeInv, PcInv, LockInv, OnFlash, Tasks, SnapStops, SnapEnd,
      LetGo
  <2>2. \A u \in Tasks : Writing(u)' => Writing(u)
    BY <1>28, ThenAt DEF IInv, TypeInv, PcInv, Tasks, Writing, SnapStops, SnapEnd, LetGo
  <2>3. \A u \in Tasks : pc[u] = "save" => pc'[u] = "save"
    BY <1>28 DEF IInv, TypeInv, PcInv, Tasks, SnapStops, SnapEnd, LetGo
  <2>. QED  BY <2>1, <2>2, <2>3, NewerStays
<1>29. ASSUME NEW t \in {Loop, Writer}, SnapCopy(t) PROVE NewerInv'
  BY ZenonT(60), <1>29, ThenAt, Alone DEF IInv, TypeInv, PcInv, Tasks, CoverInv, NewerInv, Writing,
    LockInv, OnFlash, SnapCopy, Noted, LetGo, Goto
<1>30. ASSUME NEW t \in {Loop, Writer}, SnapDone(t) PROVE NewerInv'
  BY <1>30, ThenAt, Alone DEF IInv, TypeInv, PcInv, Tasks, CoverInv, NewerInv, Writing,
    LockInv, OnFlash, SnapDone, Ended, Goto
<1>31. ASSUME NEW t \in {Loop, Writer}, SnapSkip(t) PROVE NewerInv'
  BY <1>31, ThenAt, Alone DEF IInv, TypeInv, PcInv, Tasks, CoverInv, NewerInv, Writing,
    LockInv, OnFlash, SnapSkip, Goto
<1>32. ASSUME NEW t \in {Loop, Writer}, SnapStale(t) PROVE NewerInv'
  BY <1>32, ThenAt, Alone DEF IInv, TypeInv, PcInv, Tasks, CoverInv, NewerInv, Writing,
    LockInv, OnFlash, SnapStale, Noted, Goto
<1>33. ASSUME NEW t \in {Loop, Writer}, SnapCopied(t) PROVE NewerInv'
  BY ZenonT(60), <1>33, ThenAt, Alone DEF IInv, TypeInv, PcInv, Tasks, CoverInv,
    NewerInv, Writing, LockInv, OnFlash, SnapCopied, Noted, LetGo, Strikes
<1>34. ASSUME NEW t \in {Loop, Writer}, SnapRename(t) PROVE NewerInv'
  BY <1>34, ThenAt, Alone DEF IInv, TypeInv, PcInv, Tasks, CoverInv, NewerInv, Writing,
    LockInv, OnFlash, SnapRename, Replace, Noted, LetGo
<1>35. CASE UNCHANGED vars
  BY <1>35 DEF IInv, TypeInv, PcInv, Tasks, CoverInv, NewerInv, Writing, LockInv,
    OnFlash, vars
<1>. QED  BY <1>1, <1>2, <1>3, <1>4, <1>5, <1>6, <1>7, <1>8, <1>9, <1>10, <1>11, <1>12,
  <1>13, <1>14, <1>15, <1>16, <1>17, <1>18, <1>19, <1>20, <1>21, <1>22, <1>23, <1>24,
  <1>25, <1>26, <1>27, <1>28, <1>29, <1>30, <1>31, <1>32, <1>33, <1>34, <1>35 DEF Next,
  WriterRuns, Save, SnapSteps

\* What is covered stays so in a step that drops no note of it and stops no save.
LEMMA CoveredStays ==
  ASSUME UNCHANGED <<deferred, late>>, \A u \in Tasks : OnTheWay(u) => OnTheWay(u)', Blank => Blank'
  PROVE  Covered => Covered'
  BY DEF Covered

\* In a step that starts nothing new what is owed stays owed.
LEMMA OwedStays ==
  ASSUME IInv, Covered => Covered', Unwritten' => Unwritten, UNCHANGED taken,
         pc'[Writer] = "backup" => pc[Writer] = "backup"
  PROVE  OwedInv' /\ TakenUpInv'
  BY DEF IInv, CoverInv, OwedInv, TakenUpInv

\* The files of a blank entry: no step makes a good one of them but a save.
LEMMA BlankStays ==
  ASSUME UNCHANGED saved, Good(primary)' => Good(primary),
         Good(backup)' => Good(primary) \/ Good(backup),
         \A u \in Tasks : pc'[u] = "snap rename" =>
           (Good(btmp)' => Good(primary) \/ (pc[u] = "snap rename" /\ Good(btmp)))
  PROVE  Blank => Blank'
  BY DEF Blank

\* A change that is not written yet is deferred, late, or on its way.
LEMMA OwedStep ==
  ASSUME IInv, [Next]_vars
  PROVE  OwedInv' /\ TakenUpInv'
<1>1. CASE Load
  <2>1. \A u \in Tasks : pc'[u] # "snap rename"
    BY <1>1 DEF IInv, TypeInv, PcInv, Tasks, BootInv, Up, Load, Recovered, Good, Goto
  <2>2. saved = None
    BY <1>1 DEF IInv, TypeInv, PcInv, Tasks, BootInv, Up, Load, Recovered, Good, Goto
  <2>3. CASE Good(primary)
    <3>1. state' = primary /\ saved' = primary
      BY <1>1, <2>3, Kinds DEF Load, Recovered
    <3>. QED  BY <3>1 DEF Unwritten, OwedInv, TakenUpInv
  <2>4. ASSUME pc' = [pc EXCEPT ![Loop] = "save"] PROVE OwedInv' /\ TakenUpInv'
    BY <2>4 DEF IInv, TypeInv, PcInv, Covered, OnTheWay, Tasks, OwedInv, TakenUpInv
  <2>5. CASE ~Good(primary) /\ ~Good(backup) /\ UNCHANGED <<primary, backup, saved>>
    BY <2>1, <2>2, <2>5 DEF Blank, Covered, OwedInv, TakenUpInv
  <2>6. \/ Good(primary)
        \/ pc' = [pc EXCEPT ![Loop] = "save"]
        \/ ~Good(primary) /\ ~Good(backup) /\ UNCHANGED <<primary, backup, saved>>
    <3>1. CASE Good(primary)
      BY <3>1
    <3>2. CASE ~Good(primary) /\ Good(backup)
      BY <1>1, <3>2 DEF Load, Goto
    <3>3. CASE ~Good(primary) /\ ~Good(backup)
      <4>1. UNCHANGED <<primary, backup, saved>>
        BY <1>1, <3>3 DEF Load, snap, job, sync, env
      <4>. QED  BY <3>3, <4>1
    <3>. QED  BY <3>1, <3>2, <3>3
  <2>. QED  BY <2>1, <2>2, <2>3, <2>4, <2>5, <2>6
<1>2. CASE Serve \/ Run \/ Second \/ End \/ Request \/ Close \/ Closing \/ Flush \/
           SetSupply
  <2>1. UNCHANGED <<deferred, late>>
    BY <1>2 DEF Serve, Goto, Run, Second, Stopped, TakeSlot, End, Request, Ask, Close,
      Still, Closing, Flush, SetSupply
  <2>2. \A u \in Tasks : OnTheWay(u) => OnTheWay(u)'
    BY <1>2, ThenAt DEF IInv, TypeInv, PcInv, Tasks, OnTheWay, Serve, Goto, Run, Second,
      Stopped, TakeSlot, End, Request, Ask, Close, Still, Closing, Flush, SetSupply
  <2>3. Blank => Blank'
    BY <1>2, ThenAt DEF IInv, TypeInv, PcInv, Tasks, Blank, Good, Serve, Goto, Run,
      Second, Stopped, TakeSlot, End, Request, Ask, Close, Still, Closing, Flush,
      SetSupply
  <2>4. UNCHANGED taken
    BY <1>2 DEF Serve, Goto, Run, Second, Stopped, TakeSlot, End, Request, Ask, Close,
      Still, Closing, Flush, SetSupply
  <2>5. Unwritten' => Unwritten
    BY <1>2 DEF IInv, TypeInv, PcInv, Tasks, Unwritten, Up, BootInv, Serve, Goto, Run,
      Second, Stopped, TakeSlot, End, Request, Ask, Close, Still, Closing, Flush,
      SetSupply
  <2>6. pc'[Writer] = "backup" => pc[Writer] = "backup"
    BY <1>2, ThenAt DEF IInv, TypeInv, PcInv, Tasks, Serve, Goto, Run, Second, Stopped,
      TakeSlot, End, Request, Ask, Close, Still, Closing, Flush, SetSupply
  <2>7. Covered => Covered'
    BY <2>1, <2>2, <2>3, CoveredStays
  <2>. QED  BY <2>1, <2>2, <2>3, <2>4, <2>5, <2>6, <2>7, OwedStays
<1>3. CASE Top
  <2>1. UNCHANGED <<deferred, late>>
    BY <1>3 DEF Top, Stopped, TakeSlot, Goto
  <2>2. \A u \in Tasks : OnTheWay(u) => OnTheWay(u)'
    BY <1>3, ThenAt DEF IInv, TypeInv, PcInv, Tasks, OnTheWay, Top, Stopped, TakeSlot,
      Goto
  <2>3. Blank => Blank'
    BY <1>3, ThenAt DEF IInv, TypeInv, PcInv, Tasks, Blank, Good, Top, Stopped,
      TakeSlot, Goto
  <2>4. UNCHANGED taken
    BY <1>3 DEF Top, Stopped, TakeSlot, Goto
  <2>5. Unwritten' => Unwritten
    BY <1>3 DEF IInv, TypeInv, PcInv, Tasks, Unwritten, Up, BootInv, Top, Stopped,
      TakeSlot, Goto
  <2>6. pc'[Writer] = "backup" => deferred' \/ late'
    BY <1>3 DEF IInv, TypeInv, PcInv, Tasks, Waiting, Top, Stopped, TakeSlot, Goto
  <2>7. Covered => Covered'
    BY <2>1, <2>2, <2>3, CoveredStays
  <2>8. OwedInv'
    BY <2>4, <2>5, <2>7 DEF IInv, CoverInv, OwedInv
  <2>. QED  BY <2>1, <2>2, <2>3, <2>4, <2>5, <2>6, <2>7, <2>8 DEF TakenUpInv, Covered
<1>4. CASE Backup
  <2>1. pc'[Writer] # "backup"
    BY <1>4 DEF IInv, TypeInv, PcInv, Tasks, Backup, Closed, LetGo, Goto, Strikes
  <2>2. UNCHANGED <<saved, primary, backup, btmp, state, closed>>
    BY <1>4 DEF Backup, Closed, LetGo, Goto, Strikes
  <2>3. pc[Writer] = "backup"
    BY <1>4 DEF Backup, Closed, LetGo, Goto, Strikes
  <2>4. \A u \in Tasks : pc'[u] = "snap rename" => pc[u] = "snap rename"
    BY <1>4 DEF IInv, TypeInv, PcInv, Tasks, Backup, Closed, LetGo, Goto, Strikes
  <2>5. \A u \in Tasks : OnTheWay(u) => OnTheWay(u)'
    BY <1>4, ThenAt DEF IInv, TypeInv, PcInv, Tasks, OnTheWay, Backup, Closed, LetGo,
      Goto, Strikes
  <2>6. Blank => Blank'
    BY <2>2, <2>4 DEF Blank
  <2>7. \/ UNCHANGED <<deferred, late, taken>>
        \/ taken' = (late /\ ~deferred) /\ (UNCHANGED deferred \/ state = saved)
    BY <1>4 DEF Backup, Closed, LetGo, Goto, Strikes
  <2>8. Unwritten' => Unwritten
    BY <1>4 DEF IInv, TypeInv, PcInv, Tasks, Unwritten, Up, BootInv, Backup, Closed,
      LetGo, Goto, Strikes
  <2>9. CASE UNCHANGED <<deferred, late, taken>>
    BY <2>1, <2>5, <2>6, <2>8, <2>9, CoveredStays, OwedStays
  <2>10. CASE state = saved
    BY <2>1, <2>2, <2>10 DEF OwedInv, TakenUpInv, Unwritten
  <2>11. CASE taken' = (late /\ ~deferred) /\ UNCHANGED deferred
    <3>1. Unwritten' => Covered
      BY <2>3, <2>8 DEF IInv, CoverInv, TakenUpInv
    <3>2. Covered => taken' \/ Covered'
      BY <2>5, <2>6, <2>11 DEF Covered
    <3>. QED  BY <3>1, <3>2, <2>1 DEF OwedInv, TakenUpInv
  <2>. QED  BY <2>1, <2>2, <2>3, <2>4, <2>5, <2>6, <2>7, <2>8, <2>9, <2>10, <2>11
<1>5. CASE Freeze
  <2>1. UNCHANGED <<deferred, late>>
    BY <1>5 DEF Freeze, Goto
  <2>2. \A u \in Tasks : OnTheWay(u) => OnTheWay(u)'
    BY <1>5, ThenAt DEF IInv, TypeInv, PcInv, Tasks, OnTheWay, Freeze, Goto
  <2>3. UNCHANGED <<saved, primary, backup>> /\ btmp' \in {btmp, Torn}
    BY <1>5 DEF Freeze, Goto
  <2>4. \A u \in Tasks : pc'[u] = "snap rename" => pc[u] = "snap rename"
    BY <1>5, ThenAt DEF IInv, TypeInv, PcInv, Tasks, Freeze, Goto
  <2>5. Blank => Blank'
    BY <2>3, <2>4, Kinds DEF Blank
  <2>6. UNCHANGED taken
    BY <1>5 DEF Freeze, Goto
  <2>7. Unwritten' => Unwritten
    BY <1>5 DEF IInv, TypeInv, PcInv, Tasks, Unwritten, Up, BootInv, Freeze, Goto
  <2>8. pc'[Writer] = "backup" => pc[Writer] = "backup"
    BY <1>5, ThenAt DEF IInv, TypeInv, PcInv, Tasks, Freeze, Goto
  <2>9. Covered => Covered'
    BY <2>1, <2>2, <2>5, CoveredStays
  <2>. QED  BY <2>1, <2>2, <2>3, <2>4, <2>5, <2>6, <2>7, <2>8, <2>9, OwedStays
<1>6. CASE FreezeDone
  <2>1. UNCHANGED <<deferred, late>>
    BY <1>6 DEF FreezeDone, Replace, LetGo, Strikes
  <2>2. \A u \in Tasks : OnTheWay(u) => OnTheWay(u)'
    BY <1>6, ThenAt DEF IInv, TypeInv, PcInv, Tasks, OnTheWay, FreezeDone, Replace,
      LetGo, Strikes
  <2>3. UNCHANGED <<saved, primary>> /\ backup' \in {backup, primary} /\ btmp' \in {btmp, primary, None}
    BY <1>6 DEF FreezeDone, Replace, LetGo, Strikes
  <2>4. \A u \in Tasks : pc'[u] = "snap rename" => pc[u] = "snap rename" \/ btmp' = primary
    BY <1>6, ThenAt DEF IInv, TypeInv, PcInv, Tasks, FreezeDone, Replace, LetGo, Strikes
  <2>5. Blank => Blank'
    BY <2>3, <2>4, Kinds DEF Blank, IInv, TypeInv, FilesInv
  <2>6. UNCHANGED taken
    BY <1>6 DEF FreezeDone, Replace, LetGo, Strikes
  <2>7. Unwritten' => Unwritten
    BY <1>6 DEF IInv, TypeInv, PcInv, Tasks, Unwritten, Up, BootInv, FreezeDone,
      Replace, LetGo, Strikes
  <2>8. pc'[Writer] = "backup" => pc[Writer] = "backup"
    BY <1>6, ThenAt DEF IInv, TypeInv, PcInv, Tasks, FreezeDone, Replace, LetGo, Strikes
  <2>9. Covered => Covered'
    BY <2>1, <2>2, <2>5, CoveredStays
  <2>. QED  BY <2>1, <2>2, <2>3, <2>4, <2>5, <2>6, <2>7, <2>8, <2>9, OwedStays
<1>7. CASE Wipe
  <2>1. ~Unwritten'
    BY <1>7 DEF IInv, TypeInv, PcInv, Tasks, RestartInv, Restarting, Unwritten, Up,
      Wipe, Goto
  <2>. QED  BY <2>1 DEF OwedInv, TakenUpInv
<1>8. CASE Reset \/ PowerCut
  <2>1. ~Unwritten'
    BY <1>8 DEF IInv, TypeInv, PcInv, Tasks, Unwritten, Up, Reset, PowerCut, Reboot,
      Rest, Strikes
  <2>. QED  BY <2>1 DEF OwedInv, TakenUpInv
<1>9. ASSUME NEW t \in Tasks, Change(t) PROVE OwedInv' /\ TakenUpInv'
  <2>1. Covered'
    BY <1>9 DEF IInv, TypeInv, PcInv, Tasks, Covered, OnTheWay, Change, Goto
  <2>. QED  BY <2>1 DEF OwedInv, TakenUpInv
<1>10. ASSUME NEW t \in Tasks, SaveLate(t) PROVE OwedInv' /\ TakenUpInv'
  <2>1. late'
    BY <1>10 DEF SaveLate, Defer, LetGo
  <2>. QED  BY <2>1 DEF OwedInv, TakenUpInv, Covered
<1>11. ASSUME NEW t \in Tasks, SaveClosed(t) PROVE OwedInv' /\ TakenUpInv'
  <2>1. closed'
    BY <1>11 DEF Closed, SaveClosed, LetGo
  <2>. QED  BY <2>1 DEF OwedInv, TakenUpInv, Unwritten
<1>12. ASSUME NEW t \in Tasks,
              SaveUnread(t) \/ SaveRefused(t) \/ OpenPaused(t) \/ WriteFails(t)
       PROVE  OwedInv' /\ TakenUpInv'
  <2>1. deferred'
    BY <1>12 DEF SaveUnread, Defer, LetGo, Strikes, SaveRefused, OpenPaused, Failed,
      WriteFails
  <2>. QED  BY <2>1 DEF OwedInv, TakenUpInv, Covered
<1>13. ASSUME NEW t \in Tasks, SaveUnchanged(t) PROVE OwedInv' /\ TakenUpInv'
  <2>1. state' = saved'
    BY <1>13 DEF SaveUnchanged, LetGo
  <2>. QED  BY <2>1 DEF OwedInv, TakenUpInv, Unwritten
<1>14. ASSUME NEW t \in Tasks, Begin(t) PROVE OwedInv' /\ TakenUpInv'
  <2>1. Covered'
    BY <1>14 DEF IInv, TypeInv, PcInv, Tasks, Copies, Covered, OnTheWay, Begin, Goto
  <2>. QED  BY <2>1 DEF OwedInv, TakenUpInv
<1>15. ASSUME NEW t \in Tasks, Copy(t) PROVE OwedInv' /\ TakenUpInv'
  <2>1. UNCHANGED <<deferred, late>>
    BY <1>15 DEF Copy, Goto
  <2>2. \A u \in Tasks : OnTheWay(u) => OnTheWay(u)'
    BY <1>15, ThenAt DEF IInv, TypeInv, PcInv, Tasks, OnTheWay, Copy, Goto
  <2>3. UNCHANGED <<saved, primary, backup>> /\ btmp' \in {btmp, Torn}
    BY <1>15 DEF Copy, Goto
  <2>4. \A u \in Tasks : pc'[u] = "snap rename" => pc[u] = "snap rename"
    BY <1>15, ThenAt DEF IInv, TypeInv, PcInv, Tasks, Copy, Goto
  <2>5. Blank => Blank'
    BY <2>3, <2>4, Kinds DEF Blank
  <2>6. UNCHANGED taken
    BY <1>15 DEF Copy, Goto
  <2>7. Unwritten' => Unwritten
    BY <1>15 DEF IInv, TypeInv, PcInv, Tasks, Unwritten, Up, BootInv, Copy, Goto
  <2>8. pc'[Writer] = "backup" => pc[Writer] = "backup"
    BY <1>15, ThenAt DEF IInv, TypeInv, PcInv, Tasks, Copy, Goto
  <2>9. Covered => Covered'
    BY <2>1, <2>2, <2>5, CoveredStays
  <2>. QED  BY <2>1, <2>2, <2>3, <2>4, <2>5, <2>6, <2>7, <2>8, <2>9, OwedStays
<1>16. ASSUME NEW t \in Tasks, CopyDone(t) PROVE OwedInv' /\ TakenUpInv'
  <2>1. UNCHANGED <<deferred, late>>
    BY <1>16 DEF CopyDone, LetGo, Goto
  <2>2. \A u \in Tasks : OnTheWay(u) => OnTheWay(u)'
    BY <1>16, ThenAt DEF IInv, TypeInv, PcInv, Tasks, OnTheWay, CopyDone, LetGo, Goto
  <2>3. UNCHANGED <<saved, primary>> /\ backup' = primary /\ btmp' = None
    BY <1>16 DEF CopyDone, LetGo, Goto
  <2>4. \A u \in Tasks : pc'[u] = "snap rename" => pc[u] = "snap rename"
    BY <1>16, ThenAt DEF IInv, TypeInv, PcInv, Tasks, CopyDone, LetGo, Goto
  <2>5. Blank => Blank'
    BY <2>3, <2>4, Kinds DEF Blank
  <2>6. UNCHANGED taken
    BY <1>16 DEF CopyDone, LetGo, Goto
  <2>7. Unwritten' => Unwritten
    BY <1>16 DEF IInv, TypeInv, PcInv, Tasks, Unwritten, Up, BootInv, CopyDone, LetGo,
      Goto
  <2>8. pc'[Writer] = "backup" => pc[Writer] = "backup"
    BY <1>16, ThenAt DEF IInv, TypeInv, PcInv, Tasks, CopyDone, LetGo, Goto
  <2>9. Covered => Covered'
    BY <2>1, <2>2, <2>5, CoveredStays
  <2>. QED  BY <2>1, <2>2, <2>3, <2>4, <2>5, <2>6, <2>7, <2>8, <2>9, OwedStays
<1>17. ASSUME NEW t \in Tasks, CopyFails(t) PROVE OwedInv' /\ TakenUpInv'
  <2>1. deferred' \/ (UNCHANGED <<deferred, late, taken, saved, primary, backup>> /\ t = Writer)
    BY <1>17 DEF CopyFails, NoBackup, Failed, Defer, LetGo, Strikes
  <2>2. btmp' \in {btmp, primary, None, Torn}
    BY <1>17 DEF CopyFails, NoBackup, Failed, Defer, LetGo, Strikes
  <2>3. \A u \in Tasks : pc'[u] = "snap rename" => pc[u] = "snap rename"
    BY <1>17, ThenAt DEF IInv, TypeInv, PcInv, Tasks, CopyFails, NoBackup, Failed,
      Defer, LetGo, Strikes
  <2>4. UNCHANGED <<saved, primary, backup>> => (Blank => Blank')
    BY <2>2, <2>3, Kinds DEF Blank, IInv, TypeInv, FilesInv
  <2>5. t = Writer => \A u \in Tasks : OnTheWay(u) => OnTheWay(u)'
    BY <1>17, ThenAt DEF IInv, TypeInv, PcInv, Tasks, OnTheWay, CopyFails, NoBackup,
      Failed, Defer, LetGo, Strikes
  <2>6. Unwritten' => Unwritten
    BY <1>17 DEF IInv, TypeInv, PcInv, Tasks, Unwritten, Up, BootInv, CopyFails,
      NoBackup, Failed, Defer, LetGo, Strikes
  <2>7. pc'[Writer] = "backup" => pc[Writer] = "backup"
    BY <1>17, ThenAt DEF IInv, TypeInv, PcInv, Tasks, CopyFails, NoBackup, Failed,
      Defer, LetGo, Strikes
  <2>8. deferred' \/ (Covered => Covered')
    BY <2>1, <2>4, <2>5, CoveredStays
  <2>9. deferred' => OwedInv' /\ TakenUpInv'
    BY DEF OwedInv, TakenUpInv, Covered
  <2>. QED  BY <2>1, <2>2, <2>3, <2>4, <2>5, <2>6, <2>7, <2>8, <2>9, OwedStays
<1>18. ASSUME NEW t \in Tasks, Open(t) PROVE OwedInv' /\ TakenUpInv'
  <2>1. UNCHANGED <<deferred, late>>
    BY <1>18 DEF Open, Goto
  <2>2. \A u \in Tasks : OnTheWay(u) => OnTheWay(u)'
    BY <1>18, ThenAt DEF IInv, TypeInv, PcInv, Tasks, OnTheWay, Open, Goto
  <2>3. UNCHANGED <<saved, backup, btmp>> /\ primary' = Torn
    BY <1>18 DEF Open, Goto
  <2>4. \A u \in Tasks : pc'[u] = "snap rename" => pc[u] = "snap rename"
    BY <1>18, ThenAt DEF IInv, TypeInv, PcInv, Tasks, Open, Goto
  <2>5. Blank => Blank'
    BY <2>3, <2>4, Kinds DEF Blank
  <2>6. UNCHANGED taken
    BY <1>18 DEF Open, Goto
  <2>7. Unwritten' => Unwritten
    BY <1>18 DEF IInv, TypeInv, PcInv, Tasks, Unwritten, Up, BootInv, Open, Goto
  <2>8. pc'[Writer] = "backup" => pc[Writer] = "backup"
    BY <1>18, ThenAt DEF IInv, TypeInv, PcInv, Tasks, Open, Goto
  <2>9. Covered => Covered'
    BY <2>1, <2>2, <2>5, CoveredStays
  <2>. QED  BY <2>1, <2>2, <2>3, <2>4, <2>5, <2>6, <2>7, <2>8, <2>9, OwedStays
<1>19. ASSUME NEW t \in Tasks, Write(t) \/ WriteShort(t) PROVE OwedInv' /\ TakenUpInv'
  <2>1. UNCHANGED <<state, late>> /\ saved' = val
    BY <1>19 DEF Write, TakenAsWritten, LetGo, WriteShort, Strikes
  <2>2. \A u \in Tasks \ {t} : pc[u] = "save" => OnTheWay(u)'
    BY <1>19 DEF IInv, TypeInv, PcInv, Tasks, OnTheWay, Write, TakenAsWritten, LetGo,
      WriteShort, Strikes
  <2>3. Writing(t)
    BY <1>19 DEF Writing, Write, TakenAsWritten, LetGo, WriteShort, Strikes
  <2>4. state' # saved' => late \/ \E u \in Tasks \ {t} : pc[u] = "save"
    BY <2>1, <2>3 DEF IInv, CoverInv, NewerInv
  <2>5. state' # saved' => Covered'
    BY <2>1, <2>2, <2>4 DEF Covered
  <2>. QED  BY <2>1, <2>2, <2>3, <2>4, <2>5 DEF OwedInv, TakenUpInv, Unwritten
<1>20. ASSUME NEW t \in {Loop, Writer},
              Snap(t) \/ SnapSlot(t) \/
              SnapStops(t, "snap copy") \/ SnapStops(t, "snap rename") \/ SnapSkip(t) \/
              SnapStale(t) \/ SnapDone(t)
       PROVE  OwedInv' /\ TakenUpInv'
  <2>1. UNCHANGED <<deferred, late>>
    BY <1>20 DEF Tasks, Snap, SnapEnd, Left, Goto, SnapSlot, TakeSlot, SnapStops, LetGo,
      SnapSkip, SnapStale, Noted, SnapDone, Ended
  <2>2. \A u \in Tasks : OnTheWay(u) => OnTheWay(u)'
    BY <1>20, ThenAt DEF IInv, TypeInv, PcInv, Tasks, OnTheWay, Snap, SnapEnd, Left,
      Goto, SnapSlot, TakeSlot, SnapStops, LetGo, SnapSkip, SnapStale, Noted, SnapDone,
      Ended
  <2>3. Blank => Blank'
    BY <1>20, ThenAt DEF IInv, TypeInv, PcInv, Tasks, Blank, Good, Snap, SnapEnd, Left,
      Goto, SnapSlot, TakeSlot, SnapStops, LetGo, SnapSkip, SnapStale, Noted, SnapDone,
      Ended
  <2>4. UNCHANGED taken
    BY <1>20 DEF Tasks, Snap, SnapEnd, Left, Goto, SnapSlot, TakeSlot, SnapStops, LetGo,
      SnapSkip, SnapStale, Noted, SnapDone, Ended
  <2>5. Unwritten' => Unwritten
    BY <1>20 DEF IInv, TypeInv, PcInv, Tasks, Unwritten, Up, BootInv, Snap, SnapEnd,
      Left, Goto, SnapSlot, TakeSlot, SnapStops, LetGo, SnapSkip, SnapStale, Noted,
      SnapDone, Ended
  <2>6. pc'[Writer] = "backup" => pc[Writer] = "backup"
    BY <1>20, ThenAt DEF IInv, TypeInv, PcInv, Tasks, Snap, SnapEnd, Left, Goto,
      SnapSlot, TakeSlot, SnapStops, LetGo, SnapSkip, SnapStale, Noted, SnapDone, Ended
  <2>7. Covered => Covered'
    BY <2>1, <2>2, <2>3, CoveredStays
  <2>. QED  BY <2>1, <2>2, <2>3, <2>4, <2>5, <2>6, <2>7, OwedStays
<1>21. ASSUME NEW t \in {Loop, Writer}, SnapCopy(t) PROVE OwedInv' /\ TakenUpInv'
  <2>1. UNCHANGED <<deferred, late>>
    BY <1>21 DEF Tasks, SnapCopy, Noted, LetGo, Goto
  <2>2. \A u \in Tasks : OnTheWay(u) => OnTheWay(u)'
    BY <1>21, ThenAt DEF IInv, TypeInv, PcInv, Tasks, OnTheWay, SnapCopy, Noted, LetGo,
      Goto
  <2>3. UNCHANGED <<saved, primary, backup>> /\ btmp' \in {btmp, Torn}
    BY <1>21 DEF Tasks, SnapCopy, Noted, LetGo, Goto
  <2>4. \A u \in Tasks : pc'[u] = "snap rename" => pc[u] = "snap rename"
    BY <1>21, ThenAt DEF IInv, TypeInv, PcInv, Tasks, SnapCopy, Noted, LetGo, Goto
  <2>5. Blank => Blank'
    BY <2>3, <2>4, Kinds DEF Blank
  <2>6. UNCHANGED taken
    BY <1>21 DEF Tasks, SnapCopy, Noted, LetGo, Goto
  <2>7. Unwritten' => Unwritten
    BY <1>21 DEF IInv, TypeInv, PcInv, Tasks, Unwritten, Up, BootInv, SnapCopy, Noted,
      LetGo, Goto
  <2>8. pc'[Writer] = "backup" => pc[Writer] = "backup"
    BY <1>21, ThenAt DEF IInv, TypeInv, PcInv, Tasks, SnapCopy, Noted, LetGo, Goto
  <2>9. Covered => Covered'
    BY <2>1, <2>2, <2>5, CoveredStays
  <2>. QED  BY <2>1, <2>2, <2>3, <2>4, <2>5, <2>6, <2>7, <2>8, <2>9, OwedStays
<1>22. ASSUME NEW t \in {Loop, Writer}, SnapCopied(t) PROVE OwedInv' /\ TakenUpInv'
  <2>1. UNCHANGED <<deferred, late>>
    BY <1>22 DEF Tasks, SnapCopied, Noted, LetGo, Strikes
  <2>2. \A u \in Tasks : OnTheWay(u) => OnTheWay(u)'
    BY <1>22, ThenAt DEF IInv, TypeInv, PcInv, Tasks, OnTheWay, SnapCopied, Noted,
      LetGo, Strikes
  <2>3. UNCHANGED <<saved, primary>> /\ backup' \in {backup, backup} /\ btmp' \in {btmp, primary, None}
    BY <1>22 DEF Tasks, SnapCopied, Noted, LetGo, Strikes
  <2>4. \A u \in Tasks : pc'[u] = "snap rename" => pc[u] = "snap rename" \/ btmp' = primary
    BY <1>22, ThenAt DEF IInv, TypeInv, PcInv, Tasks, SnapCopied, Noted, LetGo, Strikes
  <2>5. Blank => Blank'
    BY <2>3, <2>4, Kinds DEF Blank, IInv, TypeInv, FilesInv
  <2>6. UNCHANGED taken
    BY <1>22 DEF Tasks, SnapCopied, Noted, LetGo, Strikes
  <2>7. Unwritten' => Unwritten
    BY <1>22 DEF IInv, TypeInv, PcInv, Tasks, Unwritten, Up, BootInv, SnapCopied, Noted,
      LetGo, Strikes
  <2>8. pc'[Writer] = "backup" => pc[Writer] = "backup"
    BY <1>22, ThenAt DEF IInv, TypeInv, PcInv, Tasks, SnapCopied, Noted, LetGo, Strikes
  <2>9. Covered => Covered'
    BY <2>1, <2>2, <2>5, CoveredStays
  <2>. QED  BY <2>1, <2>2, <2>3, <2>4, <2>5, <2>6, <2>7, <2>8, <2>9, OwedStays
<1>23. ASSUME NEW t \in {Loop, Writer}, SnapRename(t) PROVE OwedInv' /\ TakenUpInv'
  <2>1. UNCHANGED <<deferred, late>>
    BY <1>23 DEF Tasks, SnapRename, Replace, Noted, LetGo
  <2>2. \A u \in Tasks : OnTheWay(u) => OnTheWay(u)'
    BY <1>23, ThenAt DEF IInv, TypeInv, PcInv, Tasks, OnTheWay, SnapRename, Replace,
      Noted, LetGo
  <2>3. UNCHANGED <<saved, primary>> /\ backup' \in {backup, btmp} /\ btmp' \in {btmp, None} /\ pc[t] = "snap rename"
    BY <1>23 DEF Tasks, SnapRename, Replace, Noted, LetGo
  <2>4. \A u \in Tasks : pc'[u] = "snap rename" => pc[u] = "snap rename"
    BY <1>23, ThenAt DEF IInv, TypeInv, PcInv, Tasks, SnapRename, Replace, Noted, LetGo
  <2>5. Blank => Blank'
    BY <2>3, <2>4, Kinds DEF Blank, IInv, TypeInv, FilesInv, Tasks
  <2>6. UNCHANGED taken
    BY <1>23 DEF Tasks, SnapRename, Replace, Noted, LetGo
  <2>7. Unwritten' => Unwritten
    BY <1>23 DEF IInv, TypeInv, PcInv, Tasks, Unwritten, Up, BootInv, SnapRename,
      Replace, Noted, LetGo
  <2>8. pc'[Writer] = "backup" => pc[Writer] = "backup"
    BY <1>23, ThenAt DEF IInv, TypeInv, PcInv, Tasks, SnapRename, Replace, Noted, LetGo
  <2>9. Covered => Covered'
    BY <2>1, <2>2, <2>5, CoveredStays
  <2>. QED  BY <2>1, <2>2, <2>3, <2>4, <2>5, <2>6, <2>7, <2>8, <2>9, OwedStays
<1>24. CASE UNCHANGED vars
  BY <1>24 DEF IInv, TypeInv, PcInv, Tasks, CoverInv, OwedInv, TakenUpInv, Covered,
    Unwritten, OnTheWay, Blank, Up, vars
<1>. QED  BY <1>1, <1>2, <1>3, <1>4, <1>5, <1>6, <1>7, <1>8, <1>9, <1>10, <1>11, <1>12,
  <1>13, <1>14, <1>15, <1>16, <1>17, <1>18, <1>19, <1>20, <1>21, <1>22, <1>23, <1>24 DEF
  Next, WriterRuns, Save, SnapSteps

\* The file holds what was asked for, or something saved since.
LEMMA AskedStep ==
  ASSUME IInv, [Next]_vars
  PROVE  AskedInv'
<1>1. CASE Load
  BY <1>1, Kinds DEF IInv, BackupInv, AskedInv, BootInv, Up, Load, Recovered, Good, Goto
<1>2. CASE Serve \/ Run \/ Top \/ Backup \/ Second \/ End \/ Freeze \/ FreezeDone \/
           Close \/ Closing \/ Flush \/ Wipe
  BY <1>2, Kinds DEF IInv, BackupInv, AskedInv, Serve, Goto, Run, Top, Stopped,
    TakeSlot, Backup, Closed, LetGo, Strikes, Second, End, Freeze, FreezeDone, Replace,
    Close, Still, Closing, Flush, Wipe
<1>3. CASE Reset \/ PowerCut \/ SetSupply
  BY <1>3, Kinds DEF IInv, BackupInv, AskedInv, Reset, PowerCut, Reboot, Rest, Strikes,
    SetSupply
<1>4. CASE Request
  <2>1. UNCHANGED <<primary, done>>
    BY <1>4 DEF Ask, Request
  <2>2. asked' = {primary} \ {None, Torn}
    BY <1>4 DEF Ask, Request
  <2>3. Up
    BY <1>4 DEF IInv, TypeInv, PcInv, Tasks, BootInv, Up, Request, Ask
  <2>4. primary # Torn => (primary = None \/ Good(primary))
    BY Kinds DEF IInv, TypeInv, FilesInv
  <2>. QED  BY <2>1, <2>2, <2>3, <2>4, Kinds DEF IInv, FileInv, DoneInv, AskedInv
<1>5. ASSUME NEW t \in Tasks,
             Begin(t) \/ Copy(t) \/ CopyDone(t) \/ CopyFails(t) \/ Open(t) \/
             OpenPaused(t)
      PROVE  AskedInv'
  BY <1>5, Kinds DEF IInv, BackupInv, AskedInv, Begin, Goto, Copy, CopyDone, LetGo,
    CopyFails, NoBackup, Failed, Defer, Strikes, Open, OpenPaused
<1>6. ASSUME NEW t \in Tasks, Change(t) \/ SaveLate(t) \/ SaveClosed(t) PROVE AskedInv'
  BY <1>6, Kinds DEF IInv, BackupInv, AskedInv, Change, Goto, SaveLate, Defer, LetGo,
    SaveClosed
<1>7. ASSUME NEW t \in Tasks, SaveRefused(t) PROVE AskedInv'
  BY <1>7, Kinds DEF IInv, BackupInv, AskedInv, SaveRefused, Defer, LetGo
<1>8. ASSUME NEW t \in Tasks, SaveUnread(t) PROVE AskedInv'
  BY <1>8, Kinds DEF IInv, BackupInv, AskedInv, SaveUnread, Defer, LetGo, Strikes
<1>9. ASSUME NEW t \in Tasks, SaveUnchanged(t) PROVE AskedInv'
  BY <1>9, Kinds DEF IInv, BackupInv, AskedInv, SaveUnchanged, LetGo
<1>10. ASSUME NEW t \in Tasks, WriteFails(t) PROVE AskedInv'
  BY <1>10, Kinds DEF IInv, BackupInv, AskedInv, WriteFails, Failed, Defer, LetGo,
    Strikes
<1>11. ASSUME NEW t \in Tasks, Write(t) PROVE AskedInv'
  BY <1>11, Kinds DEF IInv, BackupInv, AskedInv, TypeInv, VersionInv, Write,
    TakenAsWritten, LetGo
<1>12. ASSUME NEW t \in Tasks, WriteShort(t) PROVE AskedInv'
  BY <1>12, Kinds DEF IInv, BackupInv, AskedInv, TypeInv, VersionInv, FileInv, TornInv,
    WriteShort, TakenAsWritten, LetGo, Strikes
<1>13. ASSUME NEW t \in {Loop, Writer},
              Snap(t) \/ SnapSlot(t) \/
              SnapStops(t, "snap copy") \/ SnapStops(t, "snap rename")
       PROVE  AskedInv'
  <2>1. UNCHANGED <<primary, asked, done>>
    BY <1>13 DEF Tasks, Snap, SnapEnd, Left, Goto, SnapSlot, TakeSlot, SnapStops, LetGo
  <2>. QED  BY <2>1 DEF IInv, BackupInv, AskedInv
<1>14. ASSUME NEW t \in {Loop, Writer}, SnapCopy(t) PROVE AskedInv'
  BY <1>14, Kinds DEF IInv, BackupInv, AskedInv, Tasks, SnapCopy, Noted, LetGo, Goto
<1>15. ASSUME NEW t \in {Loop, Writer}, SnapDone(t) PROVE AskedInv'
  BY <1>15, Kinds DEF IInv, BackupInv, AskedInv, Tasks, SnapDone, Ended, Goto
<1>16. ASSUME NEW t \in {Loop, Writer}, SnapSkip(t) PROVE AskedInv'
  BY <1>16, Kinds DEF IInv, BackupInv, AskedInv, Tasks, SnapSkip, Goto
<1>17. ASSUME NEW t \in {Loop, Writer}, SnapStale(t) PROVE AskedInv'
  BY <1>17, Kinds DEF IInv, BackupInv, AskedInv, Tasks, SnapStale, Noted, Goto
<1>18. ASSUME NEW t \in {Loop, Writer}, SnapCopied(t) PROVE AskedInv'
  BY <1>18, Kinds DEF IInv, BackupInv, AskedInv, Tasks, SnapCopied, Noted, LetGo,
    Strikes
<1>19. ASSUME NEW t \in {Loop, Writer}, SnapRename(t) PROVE AskedInv'
  BY <1>19, Kinds DEF IInv, BackupInv, AskedInv, Tasks, SnapRename, Replace, Noted,
    LetGo
<1>20. CASE UNCHANGED vars
  BY <1>20 DEF IInv, BackupInv, AskedInv, vars
<1>. QED  BY <1>1, <1>2, <1>3, <1>4, <1>5, <1>6, <1>7, <1>8, <1>9, <1>10, <1>11, <1>12,
  <1>13, <1>14, <1>15, <1>16, <1>17, <1>18, <1>19, <1>20 DEF Next, WriterRuns, Save,
  SnapSteps

\* A copy was asked for if it is the one there was or one of the file.
LEMMA CopyAskedStays ==
  ASSUME IInv, asked' \in {asked, {}}, btmp' \in {btmp, primary, None, Torn},
         \A u \in {Loop, Writer} : pc'[u] = "snap rename" /\ RunsFor(u)' =>
           RunsFor(u) /\ (pc[u] = "snap rename" \/ btmp' = primary)
  PROVE  CopyAskedInv'
<1>. SUFFICES ASSUME asked' = asked, asked # {}, NEW u \in {Loop, Writer},
              pc'[u] = "snap rename", RunsFor(u)', Good(btmp)'
     PROVE  btmp' \in asked
  BY DEF CopyAskedInv
<1>1. btmp' \notin {None, Torn}
  BY Kinds
<1>2. CASE btmp' = primary
  BY <1>2 DEF IInv, BackupInv, AskedInv
<1>3. CASE btmp' = btmp /\ btmp # primary
  BY <1>3 DEF IInv, BackupInv, CopyAskedInv
<1>. QED  BY <1>1, <1>2, <1>3

\* The copy made for the request under way was asked for.
LEMMA CopyAskedStep ==
  ASSUME IInv, [Next]_vars
  PROVE  CopyAskedInv'
<1>1. CASE Load
  BY <1>1, Kinds, ThenAt DEF IInv, BackupInv, CopyAskedInv, AskedInv, RunsFor, TypeInv,
    PcInv, Tasks, BootInv, Up, Load, Recovered, Good, Goto
<1>2. CASE Serve \/ Run \/ Top \/ Backup \/ Second \/ End
  BY <1>2, Kinds, ThenAt DEF IInv, BackupInv, CopyAskedInv, AskedInv, RunsFor, TypeInv,
    PcInv, Tasks, Serve, Goto, Run, Top, Stopped, TakeSlot, Backup, Closed, LetGo,
    Strikes, Second, End
<1>3. CASE Closing \/ Flush \/ Wipe
  BY <1>3, Kinds, ThenAt DEF IInv, BackupInv, CopyAskedInv, AskedInv, RunsFor, TypeInv,
    PcInv, Tasks, Closing, Still, Goto, Flush, TakeSlot, Wipe
<1>4. CASE Close
  BY <1>4, Kinds, ThenAt DEF IInv, BackupInv, CopyAskedInv, AskedInv, RunsFor, TypeInv,
    PcInv, Tasks, Close, Still, Goto
<1>5. CASE Freeze
  BY <1>5, Kinds, ThenAt DEF IInv, BackupInv, CopyAskedInv, AskedInv, RunsFor, TypeInv,
    PcInv, Tasks, Freeze, Goto
<1>6. CASE FreezeDone
  BY <1>6, Kinds, ThenAt DEF IInv, BackupInv, CopyAskedInv, AskedInv, RunsFor, TypeInv,
    PcInv, Tasks, FreezeDone, Replace, LetGo, Strikes
<1>7. CASE Reset \/ PowerCut \/ SetSupply
  BY <1>7, Kinds, ThenAt DEF IInv, BackupInv, CopyAskedInv, AskedInv, RunsFor, TypeInv,
    PcInv, Tasks, Reset, PowerCut, Reboot, Rest, Strikes, SetSupply
<1>8. CASE Request
  <2>1. \A u \in Tasks : ~RunsFor(u)'
    BY <1>8 DEF IInv, TypeInv, PcInv, Tasks, RequestInv, RunsFor, Ask, Request
  <2>. QED  BY <2>1 DEF CopyAskedInv, Tasks
<1>9. ASSUME NEW t \in Tasks,
             Change(t) \/ SaveLate(t) \/ SaveClosed(t) \/ SaveUnread(t) \/
             SaveUnchanged(t) \/ SaveRefused(t)
      PROVE  CopyAskedInv'
  BY <1>9, Kinds, ThenAt DEF IInv, BackupInv, CopyAskedInv, AskedInv, RunsFor, TypeInv,
    PcInv, Tasks, Change, Goto, SaveLate, Defer, LetGo, SaveClosed, SaveUnread, Strikes,
    SaveUnchanged, SaveRefused
<1>10. ASSUME NEW t \in Tasks, WriteFails(t) PROVE CopyAskedInv'
  BY <1>10, Kinds, ThenAt DEF IInv, BackupInv, CopyAskedInv, AskedInv, RunsFor, TypeInv,
    PcInv, Tasks, WriteFails, Failed, Defer, LetGo, Strikes
<1>11. ASSUME NEW t \in Tasks, WriteShort(t) PROVE CopyAskedInv'
  BY <1>11, Kinds, ThenAt DEF IInv, BackupInv, CopyAskedInv, AskedInv, RunsFor, TypeInv,
    PcInv, Tasks, WriteShort, TakenAsWritten, LetGo, Strikes
<1>12. ASSUME NEW t \in Tasks, Begin(t) \/ Copy(t) \/ CopyDone(t) PROVE CopyAskedInv'
  BY <1>12, Kinds, ThenAt DEF IInv, BackupInv, CopyAskedInv, AskedInv, RunsFor, TypeInv,
    PcInv, Tasks, Begin, Goto, Copy, CopyDone, LetGo
<1>13. ASSUME NEW t \in Tasks, Open(t) \/ OpenPaused(t) PROVE CopyAskedInv'
  BY <1>13, Kinds, ThenAt DEF IInv, BackupInv, CopyAskedInv, AskedInv, RunsFor, TypeInv,
    PcInv, Tasks, Open, Goto, OpenPaused, Failed, Defer, LetGo
<1>14. ASSUME NEW t \in Tasks, Write(t) PROVE CopyAskedInv'
  BY <1>14, Kinds, ThenAt DEF IInv, BackupInv, CopyAskedInv, AskedInv, RunsFor, TypeInv,
    PcInv, Tasks, Write, TakenAsWritten, LetGo
<1>15. ASSUME NEW t \in Tasks, CopyFails(t) PROVE CopyAskedInv'
  <2>1. asked' \in {asked, {}}
    BY <1>15 DEF CopyFails, NoBackup, Failed, Defer, LetGo, Strikes
  <2>2. btmp' \in {btmp, primary, None, Torn}
    BY <1>15 DEF CopyFails, NoBackup, Failed, Defer, LetGo, Strikes
  <2>3. \A u \in {Loop, Writer} : pc'[u] = "snap rename" /\ RunsFor(u)' =>
          RunsFor(u) /\ (pc[u] = "snap rename" \/ btmp' = primary)
    BY <1>15, ThenAt DEF IInv, TypeInv, PcInv, Tasks, RequestInv, RunsFor, CopyFails,
      NoBackup, Failed, Defer, LetGo, Strikes
  <2>. QED  BY <2>1, <2>2, <2>3, CopyAskedStays
<1>16. ASSUME NEW t \in {Loop, Writer}, Snap(t) \/ SnapDone(t) PROVE CopyAskedInv'
  <2>1. asked' \in {asked, {}}
    BY <1>16 DEF Tasks, Snap, SnapEnd, Left, Goto, SnapDone, Ended
  <2>2. btmp' \in {btmp, primary, None, Torn}
    BY <1>16 DEF Tasks, Snap, SnapEnd, Left, Goto, SnapDone, Ended
  <2>3. \A u \in {Loop, Writer} : pc'[u] = "snap rename" /\ RunsFor(u)' =>
          RunsFor(u) /\ (pc[u] = "snap rename" \/ btmp' = primary)
    BY <1>16, ThenAt DEF IInv, TypeInv, PcInv, Tasks, RequestInv, RunsFor, Snap,
      SnapEnd, Left, Goto, SnapDone, Ended
  <2>. QED  BY <2>1, <2>2, <2>3, CopyAskedStays
<1>17. ASSUME NEW t \in {Loop, Writer},
              SnapSlot(t) \/ SnapStops(t, "snap copy") \/ SnapStops(t, "snap rename") \/
              SnapSkip(t) \/ SnapStale(t)
       PROVE  CopyAskedInv'
  BY <1>17, Kinds, ThenAt DEF IInv, BackupInv, CopyAskedInv, AskedInv, RunsFor, TypeInv,
    PcInv, Tasks, SnapSlot, TakeSlot, Goto, SnapStops, SnapEnd, LetGo, SnapSkip,
    SnapStale, Noted
<1>18. ASSUME NEW t \in {Loop, Writer}, SnapRename(t) PROVE CopyAskedInv'
  BY <1>18, Kinds, ThenAt DEF IInv, BackupInv, CopyAskedInv, AskedInv, RunsFor, TypeInv,
    PcInv, Tasks, SnapRename, Replace, Noted, LetGo
<1>19. ASSUME NEW t \in {Loop, Writer}, SnapCopy(t) PROVE CopyAskedInv'
  BY <1>19, Kinds, ThenAt DEF IInv, BackupInv, CopyAskedInv, AskedInv, RunsFor, TypeInv,
    PcInv, Tasks, SnapCopy, Noted, LetGo, Goto
<1>20. ASSUME NEW t \in {Loop, Writer}, SnapCopied(t) PROVE CopyAskedInv'
  BY <1>20, Kinds, ThenAt DEF IInv, BackupInv, CopyAskedInv, AskedInv, RunsFor, TypeInv,
    PcInv, Tasks, SnapCopied, Noted, LetGo, Strikes
<1>21. CASE UNCHANGED vars
  BY <1>21 DEF IInv, BackupInv, CopyAskedInv, AskedInv, RunsFor, TypeInv, PcInv, Tasks,
    vars
<1>. QED  BY <1>1, <1>2, <1>3, <1>4, <1>5, <1>6, <1>7, <1>8, <1>9, <1>10, <1>11, <1>12,
  <1>13, <1>14, <1>15, <1>16, <1>17, <1>18, <1>19, <1>20, <1>21 DEF Next, WriterRuns,
  Save, SnapSteps

\* A copy that is made for the request under way stays so while the backup does.
LEMMA FrozenStays ==
  ASSUME IInv, asked' = {} \/ (asked # {} /\ asked \subseteq asked'), Frozen' => Frozen,
         UNCHANGED backup, spoilt => spoilt', FreshCopy => FreshCopy'
  PROVE  FrozenInv'
  BY DEF IInv, BackupInv, FrozenInv

\* The copy stays one asked for if it is the one there was, or one of the file.
LEMMA FreshStays ==
  ASSUME IInv, asked # {}, asked \subseteq asked', btmp' \in {btmp, primary, None, Torn},
         \A u \in {Loop, Writer} : pc'[u] = "snap rename" => pc[u] = "snap rename" \/ btmp' = primary
  PROVE  FreshCopy => FreshCopy'
<1>1. CASE btmp' = primary
  BY <1>1 DEF IInv, BackupInv, AskedInv, FreshCopy
<1>2. CASE btmp' = btmp /\ btmp # primary
  BY <1>2 DEF FreshCopy
<1>3. CASE btmp' \in {None, Torn}
  BY <1>3, Kinds DEF FreshCopy
<1>. QED  BY <1>1, <1>2, <1>3

\* A backup that is made of the file now is one that was asked for.
LEMMA FrozenNow ==
  ASSUME IInv, asked' = asked, backup' = primary, btmp' = None, Good(primary) \/ spoilt' \/ asked = {}
  PROVE  FrozenInv'
  BY Kinds DEF IInv, BackupInv, AskedInv, FrozenInv, FreshCopy

\* Once the copy for a request is the backup, the backup stays one that was asked for.
LEMMA FrozenStep ==
  ASSUME IInv, [Next]_vars
  PROVE  FrozenInv'
<1>1. CASE Load \/ Serve \/ Run \/ Top \/ Backup \/ Second
  <2>1. asked' = {} \/ asked' = asked
    BY <1>1 DEF Load, Recovered, Good, Goto, Serve, Run, Top, Stopped, TakeSlot, Backup,
      Closed, LetGo, Strikes, Second
  <2>2. Frozen' => Frozen
    BY ZenonT(60), <1>1, ThenAt DEF IInv, TypeInv, PcInv, Tasks, RequestInv, Frozen, RunsFor, Load,
      Recovered, Good, Goto, Serve, Run, Top, Stopped, TakeSlot, Backup, Closed, LetGo,
      Strikes, Second
  <2>3. UNCHANGED backup
    BY <1>1 DEF Load, Recovered, Good, Goto, Serve, Run, Top, Stopped, TakeSlot, Backup,
      Closed, LetGo, Strikes, Second
  <2>4. spoilt => spoilt'
    BY <1>1 DEF Load, Recovered, Good, Goto, Serve, Run, Top, Stopped, TakeSlot, Backup,
      Closed, LetGo, Strikes, Second
  <2>5. btmp' \in {btmp, primary, None, Torn}
    BY <1>1 DEF Load, Recovered, Good, Goto, Serve, Run, Top, Stopped, TakeSlot, Backup,
      Closed, LetGo, Strikes, Second
  <2>6. \A u \in {Loop, Writer} : pc'[u] = "snap rename" =>
          pc[u] = "snap rename" \/ btmp' = primary
    BY <1>1, ThenAt DEF IInv, TypeInv, PcInv, Tasks, Load, Recovered, Good, Goto, Serve,
      Run, Top, Stopped, TakeSlot, Backup, Closed, LetGo, Strikes, Second
  <2>7. asked' # {} => (FreshCopy => FreshCopy')
    BY <2>1, <2>5, <2>6, FreshStays
  <2>8. CASE asked' # {}
    BY <2>1, <2>2, <2>3, <2>4, <2>7, <2>8, FrozenStays
  <2>9. CASE asked' = {}
    BY <2>9 DEF FrozenInv
  <2>. QED  BY <2>1, <2>2, <2>3, <2>4, <2>5, <2>6, <2>7, <2>8, <2>9
<1>2. CASE End \/ Freeze \/ Close \/ Closing \/ Flush \/ Reset \/ PowerCut
  <2>1. asked' = {} \/ asked' = asked
    BY <1>2 DEF End, Goto, Freeze, Close, Still, Closing, Flush, TakeSlot, Reset,
      PowerCut, Reboot, Rest, Strikes
  <2>2. Frozen' => Frozen
    BY <1>2, ThenAt DEF IInv, TypeInv, PcInv, Tasks, RequestInv, Frozen, RunsFor, End,
      Goto, Freeze, Close, Still, Closing, Flush, TakeSlot, Reset, PowerCut, Reboot,
      Rest, Strikes
  <2>3. UNCHANGED backup
    BY <1>2 DEF End, Goto, Freeze, Close, Still, Closing, Flush, TakeSlot, Reset,
      PowerCut, Reboot, Rest, Strikes
  <2>4. spoilt => spoilt'
    BY <1>2 DEF End, Goto, Freeze, Close, Still, Closing, Flush, TakeSlot, Reset,
      PowerCut, Reboot, Rest, Strikes
  <2>5. btmp' \in {btmp, primary, None, Torn}
    BY <1>2 DEF End, Goto, Freeze, Close, Still, Closing, Flush, TakeSlot, Reset,
      PowerCut, Reboot, Rest, Strikes
  <2>6. \A u \in {Loop, Writer} : pc'[u] = "snap rename" =>
          pc[u] = "snap rename" \/ btmp' = primary
    BY <1>2, ThenAt DEF IInv, TypeInv, PcInv, Tasks, End, Goto, Freeze, Close, Still,
      Closing, Flush, TakeSlot, Reset, PowerCut, Reboot, Rest, Strikes
  <2>7. asked' # {} => (FreshCopy => FreshCopy')
    BY <2>1, <2>5, <2>6, FreshStays
  <2>8. CASE asked' # {}
    BY <2>1, <2>2, <2>3, <2>4, <2>7, <2>8, FrozenStays
  <2>9. CASE asked' = {}
    BY <2>9 DEF FrozenInv
  <2>. QED  BY <2>1, <2>2, <2>3, <2>4, <2>5, <2>6, <2>7, <2>8, <2>9
<1>3. CASE SetSupply
  <2>1. asked' = {} \/ asked' = asked
    BY <1>3 DEF SetSupply
  <2>2. Frozen' => Frozen
    BY <1>3, ThenAt DEF IInv, TypeInv, PcInv, Tasks, RequestInv, Frozen, RunsFor,
      SetSupply
  <2>3. UNCHANGED backup
    BY <1>3 DEF SetSupply
  <2>4. spoilt => spoilt'
    BY <1>3 DEF SetSupply
  <2>5. btmp' \in {btmp, primary, None, Torn}
    BY <1>3 DEF SetSupply
  <2>6. \A u \in {Loop, Writer} : pc'[u] = "snap rename" =>
          pc[u] = "snap rename" \/ btmp' = primary
    BY <1>3, ThenAt DEF IInv, TypeInv, PcInv, Tasks, SetSupply
  <2>7. asked' # {} => (FreshCopy => FreshCopy')
    BY <2>1, <2>5, <2>6, FreshStays
  <2>8. CASE asked' # {}
    BY <2>1, <2>2, <2>3, <2>4, <2>7, <2>8, FrozenStays
  <2>9. CASE asked' = {}
    BY <2>9 DEF FrozenInv
  <2>. QED  BY <2>1, <2>2, <2>3, <2>4, <2>5, <2>6, <2>7, <2>8, <2>9
<1>4. CASE Request
  <2>1. asked' = {} \/ result' # "done"
    BY <1>4 DEF Ask, Request
  <2>2. pending' => ~copied'
    BY <1>4, Zenon DEF Request, Ask
  <2>3. \A u \in Tasks : ~RunsFor(u)'
    BY <1>4 DEF IInv, TypeInv, PcInv, Tasks, RequestInv, RunsFor, Ask, Request
  <2>. QED  BY <2>1, <2>2, <2>3 DEF FrozenInv, Frozen, Tasks
<1>5. CASE FreezeDone
  <2>1. UNCHANGED <<asked, primary>>
    BY <1>5 DEF FreezeDone, Replace, LetGo, Strikes
  <2>2. \/ UNCHANGED <<backup, spoilt>> /\ result' = "failed"
        \/ /\ backup' = primary /\ btmp' = None
           /\ (primary = Torn => spoilt')
    BY <1>5, FreezeMakes
  <2>3. CASE UNCHANGED <<backup, spoilt>> /\ result' = "failed"
    <3>1. Frozen' => Frozen
      BY <1>5, <2>3, ThenAt DEF IInv, TypeInv, PcInv, Tasks, Frozen, RunsFor,
        FreezeDone, LetGo
    <3>2. \A u \in {Loop, Writer} : pc'[u] = "snap rename" =>
          pc[u] = "snap rename" \/ btmp' = primary
      BY <1>5 DEF IInv, TypeInv, PcInv, Tasks, FreezeDone, LetGo
    <3>3. btmp' \in {btmp, primary, None, Torn}
      BY <1>5 DEF FreezeDone
    <3>4. asked # {} => (FreshCopy => FreshCopy')
      BY <2>1, <3>2, <3>3, FreshStays
    <3>. QED  BY <2>1, <2>3, <3>1, <3>4 DEF IInv, BackupInv, FrozenInv
  <2>4. CASE backup' = primary /\ btmp' = None /\ (primary = Torn => spoilt')
    <3>1. Good(primary) \/ spoilt' \/ asked = {}
      BY <2>4, Kinds DEF IInv, TypeInv, FilesInv, BackupInv, AskedInv
    <3>. QED  BY <2>1, <2>4, <3>1, FrozenNow
  <2>. QED  BY <2>1, <2>2, <2>3, <2>4
<1>6. CASE Wipe
  <2>1. asked' = {}
    BY <1>6 DEF IInv, WipedInv, BackupInv, AskedInv, Wipe, Goto
  <2>. QED  BY <2>1 DEF FrozenInv
<1>7. ASSUME NEW t \in Tasks,
             Change(t) \/ SaveLate(t) \/ SaveClosed(t) \/ SaveUnread(t) \/
             SaveUnchanged(t) \/ SaveRefused(t)
      PROVE  FrozenInv'
  <2>1. asked' = {} \/ asked' = asked
    BY <1>7 DEF Change, Goto, SaveLate, Defer, LetGo, SaveClosed, SaveUnread, Strikes,
      SaveUnchanged, SaveRefused
  <2>2. Frozen' => Frozen
    BY <1>7, ThenAt DEF IInv, TypeInv, PcInv, Tasks, RequestInv, Frozen, RunsFor,
      Change, Goto, SaveLate, Defer, LetGo, SaveClosed, SaveUnread, Strikes,
      SaveUnchanged, SaveRefused
  <2>3. UNCHANGED backup
    BY <1>7 DEF Change, Goto, SaveLate, Defer, LetGo, SaveClosed, SaveUnread, Strikes,
      SaveUnchanged, SaveRefused
  <2>4. spoilt => spoilt'
    BY <1>7 DEF Change, Goto, SaveLate, Defer, LetGo, SaveClosed, SaveUnread, Strikes,
      SaveUnchanged, SaveRefused
  <2>5. btmp' \in {btmp, primary, None, Torn}
    BY <1>7 DEF Change, Goto, SaveLate, Defer, LetGo, SaveClosed, SaveUnread, Strikes,
      SaveUnchanged, SaveRefused
  <2>6. \A u \in {Loop, Writer} : pc'[u] = "snap rename" =>
          pc[u] = "snap rename" \/ btmp' = primary
    BY <1>7, ThenAt DEF IInv, TypeInv, PcInv, Tasks, Change, Goto, SaveLate, Defer,
      LetGo, SaveClosed, SaveUnread, Strikes, SaveUnchanged, SaveRefused
  <2>7. asked' # {} => (FreshCopy => FreshCopy')
    BY <2>1, <2>5, <2>6, FreshStays
  <2>8. CASE asked' # {}
    BY <2>1, <2>2, <2>3, <2>4, <2>7, <2>8, FrozenStays
  <2>9. CASE asked' = {}
    BY <2>9 DEF FrozenInv
  <2>. QED  BY <2>1, <2>2, <2>3, <2>4, <2>5, <2>6, <2>7, <2>8, <2>9
<1>8. ASSUME NEW t \in Tasks,
             Begin(t) \/ Copy(t) \/ CopyFails(t) \/ Open(t) \/ OpenPaused(t) \/
             WriteFails(t)
      PROVE  FrozenInv'
  <2>1. asked' = {} \/ asked' = asked
    BY <1>8 DEF Begin, Goto, Copy, CopyFails, NoBackup, Failed, Defer, LetGo, Strikes,
      Open, OpenPaused, WriteFails
  <2>2. Frozen' => Frozen
    BY <1>8, ThenAt DEF IInv, TypeInv, PcInv, Tasks, RequestInv, Frozen, RunsFor, Begin,
      Goto, Copy, CopyFails, NoBackup, Failed, Defer, LetGo, Strikes, Open, OpenPaused,
      WriteFails
  <2>3. UNCHANGED backup
    BY <1>8 DEF Begin, Goto, Copy, CopyFails, NoBackup, Failed, Defer, LetGo, Strikes,
      Open, OpenPaused, WriteFails
  <2>4. spoilt => spoilt'
    BY <1>8 DEF Begin, Goto, Copy, CopyFails, NoBackup, Failed, Defer, LetGo, Strikes,
      Open, OpenPaused, WriteFails
  <2>5. btmp' \in {btmp, primary, None, Torn}
    BY <1>8 DEF Begin, Goto, Copy, CopyFails, NoBackup, Failed, Defer, LetGo, Strikes,
      Open, OpenPaused, WriteFails
  <2>6. \A u \in {Loop, Writer} : pc'[u] = "snap rename" =>
          pc[u] = "snap rename" \/ btmp' = primary
    BY <1>8, ThenAt DEF IInv, TypeInv, PcInv, Tasks, Begin, Goto, Copy, CopyFails,
      NoBackup, Failed, Defer, LetGo, Strikes, Open, OpenPaused, WriteFails
  <2>7. asked' # {} => (FreshCopy => FreshCopy')
    BY <2>1, <2>5, <2>6, FreshStays
  <2>8. CASE asked' # {}
    BY <2>1, <2>2, <2>3, <2>4, <2>7, <2>8, FrozenStays
  <2>9. CASE asked' = {}
    BY <2>9 DEF FrozenInv
  <2>. QED  BY <2>1, <2>2, <2>3, <2>4, <2>5, <2>6, <2>7, <2>8, <2>9
<1>9. ASSUME NEW t \in Tasks, CopyDone(t) PROVE FrozenInv'
  <2>1. asked' = asked /\ backup' = primary /\ btmp' = None
    BY <1>9 DEF CopyDone, LetGo, Goto
  <2>2. Up /\ ~held /\ ~stale
    BY <1>9 DEF IInv, TypeInv, PcInv, Tasks, FileInv, CopyInv, Up, BootInv, CopyDone,
      LetGo, Goto
  <2>3. spoilt => spoilt'
    BY <1>9 DEF CopyDone, LetGo, Goto
  <2>4. Good(primary) \/ spoilt' \/ asked = {}
    BY <2>2, <2>3 DEF IInv, KeptInv, GoodInv, BackupInv, AskedInv
  <2>. QED  BY <2>1, <2>2, <2>3, <2>4, FrozenNow
<1>10. ASSUME NEW t \in Tasks, Write(t) \/ WriteShort(t) PROVE FrozenInv'
  <2>1. (asked = {} /\ asked' = {}) \/ (asked # {} /\ asked \subseteq asked')
    BY <1>10 DEF Write, TakenAsWritten, LetGo, WriteShort, Strikes
  <2>2. Frozen' => Frozen
    BY <1>10, ThenAt DEF IInv, TypeInv, PcInv, Tasks, RequestInv, Frozen, RunsFor,
      Write, TakenAsWritten, LetGo, WriteShort, Strikes
  <2>3. UNCHANGED backup
    BY <1>10 DEF Write, TakenAsWritten, LetGo, WriteShort, Strikes
  <2>4. spoilt => spoilt'
    BY <1>10 DEF Write, TakenAsWritten, LetGo, WriteShort, Strikes
  <2>5. btmp' \in {btmp, primary, None, Torn}
    BY <1>10 DEF Write, TakenAsWritten, LetGo, WriteShort, Strikes
  <2>6. \A u \in {Loop, Writer} : pc'[u] = "snap rename" =>
          pc[u] = "snap rename" \/ btmp' = primary
    BY <1>10, ThenAt DEF IInv, TypeInv, PcInv, Tasks, Write, TakenAsWritten, LetGo,
      WriteShort, Strikes
  <2>7. asked' # {} => (FreshCopy => FreshCopy')
    BY <2>1, <2>5, <2>6, FreshStays
  <2>8. CASE asked' # {}
    BY <2>1, <2>2, <2>3, <2>4, <2>7, <2>8, FrozenStays
  <2>9. CASE asked' = {}
    BY <2>9 DEF FrozenInv
  <2>. QED  BY <2>1, <2>2, <2>3, <2>4, <2>5, <2>6, <2>7, <2>8, <2>9
<1>11. ASSUME NEW t \in {Loop, Writer},
              Snap(t) \/ SnapSlot(t) \/
              SnapStops(t, "snap copy") \/ SnapStops(t, "snap rename") \/ SnapStale(t)
       PROVE  FrozenInv'
  <2>1. asked' = {} \/ asked' = asked
    BY <1>11 DEF Tasks, Snap, SnapEnd, Left, Goto, SnapSlot, TakeSlot, SnapStops, LetGo,
      SnapStale, Noted
  <2>2. Frozen' => Frozen
    BY <1>11, ThenAt DEF IInv, TypeInv, PcInv, Tasks, RequestInv, Frozen, RunsFor, Snap,
      SnapEnd, Left, Goto, SnapSlot, TakeSlot, SnapStops, LetGo, SnapStale, Noted
  <2>3. UNCHANGED backup
    BY <1>11 DEF Tasks, Snap, SnapEnd, Left, Goto, SnapSlot, TakeSlot, SnapStops, LetGo,
      SnapStale, Noted
  <2>4. spoilt => spoilt'
    BY <1>11 DEF Tasks, Snap, SnapEnd, Left, Goto, SnapSlot, TakeSlot, SnapStops, LetGo,
      SnapStale, Noted
  <2>5. btmp' \in {btmp, primary, None, Torn}
    BY <1>11 DEF Tasks, Snap, SnapEnd, Left, Goto, SnapSlot, TakeSlot, SnapStops, LetGo,
      SnapStale, Noted
  <2>6. \A u \in {Loop, Writer} : pc'[u] = "snap rename" =>
          pc[u] = "snap rename" \/ btmp' = primary
    BY <1>11, ThenAt DEF IInv, TypeInv, PcInv, Tasks, Snap, SnapEnd, Left, Goto,
      SnapSlot, TakeSlot, SnapStops, LetGo, SnapStale, Noted
  <2>7. asked' # {} => (FreshCopy => FreshCopy')
    BY <2>1, <2>5, <2>6, FreshStays
  <2>8. CASE asked' # {}
    BY <2>1, <2>2, <2>3, <2>4, <2>7, <2>8, FrozenStays
  <2>9. CASE asked' = {}
    BY <2>9 DEF FrozenInv
  <2>. QED  BY <2>1, <2>2, <2>3, <2>4, <2>5, <2>6, <2>7, <2>8, <2>9
<1>12. ASSUME NEW t \in {Loop, Writer},
              SnapCopy(t) \/ SnapCopied(t) \/ SnapDone(t)
       PROVE  FrozenInv'
  <2>1. asked' = {} \/ asked' = asked
    BY <1>12 DEF Tasks, SnapCopy, Noted, LetGo, Goto, SnapCopied, Strikes, SnapDone,
      Ended
  <2>2. Frozen' => Frozen
    BY <1>12, ThenAt DEF IInv, TypeInv, PcInv, Tasks, RequestInv, Frozen, RunsFor,
      SnapCopy, Noted, LetGo, Goto, SnapCopied, Strikes, SnapDone, Ended
  <2>3. UNCHANGED backup
    BY <1>12 DEF Tasks, SnapCopy, Noted, LetGo, Goto, SnapCopied, Strikes, SnapDone,
      Ended
  <2>4. spoilt => spoilt'
    BY <1>12 DEF Tasks, SnapCopy, Noted, LetGo, Goto, SnapCopied, Strikes, SnapDone,
      Ended
  <2>5. btmp' \in {btmp, primary, None, Torn}
    BY <1>12 DEF Tasks, SnapCopy, Noted, LetGo, Goto, SnapCopied, Strikes, SnapDone,
      Ended
  <2>6. \A u \in {Loop, Writer} : pc'[u] = "snap rename" =>
          pc[u] = "snap rename" \/ btmp' = primary
    BY <1>12, ThenAt DEF IInv, TypeInv, PcInv, Tasks, SnapCopy, Noted, LetGo, Goto,
      SnapCopied, Strikes, SnapDone, Ended
  <2>7. asked' # {} => (FreshCopy => FreshCopy')
    BY <2>1, <2>5, <2>6, FreshStays
  <2>8. CASE asked' # {}
    BY <2>1, <2>2, <2>3, <2>4, <2>7, <2>8, FrozenStays
  <2>9. CASE asked' = {}
    BY <2>9 DEF FrozenInv
  <2>. QED  BY <2>1, <2>2, <2>3, <2>4, <2>5, <2>6, <2>7, <2>8, <2>9
<1>13. ASSUME NEW t \in {Loop, Writer}, SnapSkip(t) PROVE FrozenInv'
  <2>1. UNCHANGED <<asked, backup, spoilt, btmp, copied>>
    BY <1>13 DEF Tasks, SnapSkip, Goto
  <2>2. \A u \in {Loop, Writer} : pc'[u] = "snap rename" =>
          pc[u] = "snap rename" \/ btmp' = primary
    BY <1>13, ThenAt DEF IInv, TypeInv, PcInv, Tasks, SnapSkip, Goto
  <2>3. CASE primary = None
    BY <2>1, <2>3 DEF IInv, BackupInv, AskedInv, FrozenInv
  <2>4. CASE primary # None
    <3>1. Frozen' => Frozen
      BY <1>13, <2>4 DEF IInv, TypeInv, PcInv, Tasks, Frozen, RunsFor, SnapSkip, Goto
    <3>2. asked # {} => (FreshCopy => FreshCopy')
      BY <2>1, <2>2, FreshStays
    <3>. QED  BY <2>1, <3>1, <3>2 DEF IInv, BackupInv, FrozenInv
  <2>. QED  BY <2>1, <2>2, <2>3, <2>4
<1>14. ASSUME NEW t \in {Loop, Writer}, SnapRename(t) PROVE FrozenInv'
  <2>1. UNCHANGED <<asked, primary>> /\ pc[t] = "snap rename" /\ btmp' \in {btmp, None}
    BY <1>14 DEF Tasks, SnapRename, Replace, Noted, LetGo
  <2>2. \A u \in {Loop, Writer} : pc'[u] = "snap rename" =>
          pc[u] = "snap rename" \/ btmp' = primary
    BY <1>14, ThenAt DEF IInv, TypeInv, PcInv, Tasks, SnapRename, Replace, Noted, LetGo
  <2>3. \/ UNCHANGED <<backup, spoilt>> /\ Noted(t, FALSE)
        \/ /\ backup' = btmp /\ btmp # None /\ btmp' = None
           /\ Noted(t, TRUE) /\ (btmp = Torn => spoilt') /\ (spoilt => spoilt')
    BY <1>14, RenameMakes
  <2>4. CASE UNCHANGED <<backup, spoilt>> /\ Noted(t, FALSE)
    <3>1. Frozen' => Frozen
      BY <1>14, <2>4, ThenAt DEF IInv, TypeInv, PcInv, Tasks, Frozen, RunsFor,
        SnapRename, Noted, LetGo
    <3>2. asked # {} => (FreshCopy => FreshCopy')
      BY <2>1, <2>2, FreshStays
    <3>. QED  BY <2>1, <2>4, <3>1, <3>2 DEF IInv, BackupInv, FrozenInv
  <2>5. CASE /\ backup' = btmp /\ btmp # None /\ btmp' = None
             /\ Noted(t, TRUE) /\ (btmp = Torn => spoilt') /\ (spoilt => spoilt')
    <3>1. CASE btmp = Torn
      BY <2>5, <3>1 DEF FrozenInv
    <3>2. CASE Good(btmp) /\ RunsFor(t)
      BY <2>1, <2>5, <3>2, Kinds DEF IInv, BackupInv, CopyAskedInv, FrozenInv, FreshCopy
    <3>3. CASE Good(btmp) /\ ~RunsFor(t)
      <4>1. Frozen' => Frozen
        BY <1>14, <2>5, <3>3 DEF IInv, TypeInv, PcInv, Tasks, RequestInv, Frozen,
          RunsFor, SnapRename, Noted, LetGo
      <4>2. Frozen' /\ asked # {} => spoilt \/ btmp \in asked
        BY <2>1, <3>3, <4>1 DEF IInv, BackupInv, FrozenInv, FreshCopy
      <4>. QED  BY <2>1, <2>5, <4>2, Kinds DEF FrozenInv, FreshCopy
    <3>4. btmp = Torn \/ Good(btmp)
      BY <2>5, Kinds DEF IInv, TypeInv, FilesInv
    <3>. QED  BY <3>1, <3>2, <3>3, <3>4
  <2>. QED  BY <2>1, <2>2, <2>3, <2>4, <2>5
<1>15. CASE UNCHANGED vars
  BY <1>15 DEF IInv, BackupInv, FrozenInv, Frozen, FreshCopy, RunsFor, vars
<1>. QED  BY <1>1, <1>2, <1>3, <1>4, <1>5, <1>6, <1>7, <1>8, <1>9, <1>10, <1>11, <1>12,
  <1>13, <1>14, <1>15 DEF Next, WriterRuns, Save, SnapSteps

-----------------------------------------------------------------------------
\* A device that was never started has all of it.
LEMMA InvInit == Init => IInv
<1>. SUFFICES ASSUME Init PROVE IInv
  OBVIOUS
<1>1. TypeInv
  <2>1. FilesInv /\ VersionInv /\ HolderInv
    BY DEF Init, Ram, FilesInv, VersionInv, HolderInv, Files, None
  <2>2. RequestInv
    BY DEF Init, Ram, RequestInv
  <2>3. PcInv
    BY DEF Init, Ram, PcInv, Rest, Tasks, WebAt, WriterAt, LoopAt
  <2>. QED  BY <2>1, <2>2, <2>3 DEF TypeInv
<1>2. LockInv /\ SlotInv /\ RestartInv /\ BootInv /\ WipedInv
  BY DEF Init, Ram, LockInv, SlotInv, RestartInv, BootInv, WipedInv, Rest, Tasks, OnFlash,
    SlotKept, Restarting, Snapping, Up
<1>3. FileInv /\ KeptInv
  BY DEF Init, Ram, FileInv, TornInv, CopyInv, HeldInv, DoneInv, KeptInv, GoodInv, SaveKept,
    BackupHeldInv, RenameInv, Renames, Undisturbed, Rest, Tasks, Savers, Good, None, Up
<1>4. CoverInv /\ BackupInv
  BY DEF Init, Ram, CoverInv, OwedInv, TakenUpInv, NewerInv, Unwritten, Writing, Rest, Tasks,
    Up, BackupInv, AskedInv, CopyAskedInv, FrozenInv
<1>. QED  BY <1>1, <1>2, <1>3, <1>4 DEF IInv

\* Every step of every task keeps it, and so do the faults.
LEMMA InvNext == IInv /\ [Next]_vars => IInv'
<1>. SUFFICES ASSUME IInv, [Next]_vars PROVE IInv'
  OBVIOUS
<1>1. TypeInv'
  BY FilesStep, VersionStep, HolderStep, RequestStep, PcStep DEF TypeInv
<1>2. LockInv' /\ SlotInv' /\ RestartInv' /\ BootInv' /\ WipedInv' /\ FileInv'
  BY LockStep, SlotStep, RestartStep, BootStep, WipedStep, FileStep
<1>3. KeptInv'
  BY GoodStep, KeptStep, BackupHeldStep, RenameStep DEF KeptInv
<1>4. CoverInv'
  BY OwedStep, NewerStep DEF CoverInv
<1>5. BackupInv'
  BY AskedStep, CopyAskedStep, FrozenStep DEF BackupInv
<1>. QED  BY <1>1, <1>2, <1>3, <1>4, <1>5 DEF IInv

\* The invariant of the store: where each task is tells what it holds, what is
\* known of the files, and who owes the write of what is not on flash.
THEOREM StoreInvariant == Spec => []IInv
<1>. QED  BY InvInit, InvNext, PTL DEF Spec

\* The entry, its files and the tasks; who has a file under way holds the config
\* lock, and nobody else holds the gate's slot (atomicWrite, backupForSave, freezeBackup).
THEOREM StoreTypeOK == Spec => []TypeOK
<1>1. IInv => TypeOK
  BY DEF IInv, TypeInv, FilesInv, VersionInv, HolderInv, RequestInv, LockInv, SlotInv, TypeOK,
    SlotKept
<1>. QED  BY <1>1, StoreInvariant, PTL

\* A save that was reported as done is what the next boot finds, wherever the power
\* goes, unless a torn file was taken as written or a save went between the writer's
\* two steps.
THEOREM StoreSaveKept == Spec => []SaveKept
<1>1. IInv => SaveKept
  BY DEF IInv, KeptInv
<1>. QED  BY <1>1, StoreInvariant, PTL

\* A changed state always has somebody that will write it, and what is written is
\* what a boot would load.
THEOREM StoreNothingForgotten == Spec => []NothingForgotten
<1>1. ASSUME IInv PROVE taken \/ StaysDeferred
  <2>. SUFFICES ASSUME Unwritten, Recovered # None, ~taken
       PROVE  deferred \/ late \/ \E t \in Tasks : pc[t] \in Saving
    BY DEF StaysDeferred, Unwritten, Saving
  <2>1. Covered
    BY <1>1 DEF IInv, CoverInv, OwedInv
  <2>2. ~Blank
    BY DEF Blank, Recovered
  <2>3. \A t \in Tasks : OnTheWay(t) => pc[t] \in Saving
    BY DEF OnTheWay, Saving
  <2>. QED  BY <2>1, <2>2, <2>3 DEF Covered
<1>2. ASSUME IInv, Up, ~closed, state = saved
      PROVE  spoilt \/ overtaken \/ Recovered = state
  <2>1. saved # None /\ done = saved
    BY <1>2 DEF IInv, TypeInv, VersionInv, FileInv, DoneInv, None
  <2>. QED  BY <1>2, <2>1 DEF IInv, KeptInv, SaveKept
<1>3. IInv => NothingForgotten
  BY <1>1, <1>2 DEF NothingForgotten
<1>. QED  BY <1>3, StoreInvariant, PTL

\* A Save Backup that is reported as done has the backup hold what was on flash when
\* it was asked for, or something saved since: also when a save of another task
\* used the same copy in between, and when a newer request replaced the run.
THEOREM StoreBackupIsCurrent == Spec => []BackupIsCurrent
<1>1. IInv => BackupIsCurrent
  BY DEF IInv, BackupInv, FrozenInv, Frozen, BackupIsCurrent
<1>. QED  BY <1>1, StoreInvariant, PTL
==============================================================================
