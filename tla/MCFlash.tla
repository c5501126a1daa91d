-------------------------------- MODULE MCFlash --------------------------------
(***************************************************************************)
(* What goes to flash and what boots: the writer task, the update loader,   *)
(* the restart, the firmware slot, the boot guard and the file manager's    *)
(* writes.  One of them is at work in a behaviour, the initial state says   *)
(* which; the variables of the others are "-".                              *)
(***************************************************************************)
EXTENDS Integers, TLAPS

CONSTANTS
  MaxUploads, MaxResets, MaxFails,  \* of FilePromote
  Limit, MaxBoots, MaxGen           \* of BootGuard

ASSUME UploadsAssumption == MaxUploads \in Nat
ASSUME BootsAssumption == Limit \in Nat \ {0} /\ MaxBoots \in Nat /\ MaxGen \in Nat

VARIABLES
  part,   \* the component at work
  dirty, kicked, onPower, timed, due, powerKick, listening, creating, task, made,
  notified, wpc, cur, power, ret, allowed, spc, pc, head, body, boot, handoff,
  result, seen, crashed, nvs, mode, appValid, out, then, serving, uploading,
  events, imageIn, activating, web, hpc, writer, stage, image, at, touched,
  wanted, fresh, raced, updates, faults, begun, claimed, requested, shutdownDone,
  hooksDone, abandon, left, ran, flush, after, step, armed, timer, slow, direct,
  chip, owner, update, slot, loop, au, clock, loader, restart, rec, now, saved,
  landed, held, hasJob, flushing, stable, crashes, boots, op, next, job, closed,
  locked, answered, ended, replaces, target, partial, aside, corrupt, up, purge,
  deleted, overlap, failed, resets

FlashWriter == INSTANCE FlashWriter WITH
  Loop <- "loop", Kickers <- {"k1"}, JobCount <- 2, JobsOf <- [t \in {"k1"} |-> {1, 2}],
  AttachAnytime <- FALSE
OtaLoader == INSTANCE OtaLoader WITH
  Good <- "good", Bad <- "bad", Old <- "old", Sectors <- 2, MaxUpdates <- 1,
  MaxFaults <- 2, Faults <- {"nvs", "wifi", "flash"}
AppRestart == INSTANCE AppRestart WITH
  Loop <- "loop", Callers <- {"c1", "c2"}, Library <- "library", Modules <- 2,
  MaxFaults <- 2
Slot == INSTANCE FirmwareSlot
Guard == INSTANCE BootGuard
FileWrites == INSTANCE FileWrites WITH
  Slots <- {1, 2}, FreeSteps <- 1, TreeSize <- 3, MaxOps <- 3
Upload == INSTANCE FilePromote

\* What is not of a component.
NotFlashWriter == <<head, body, boot, handoff, result, seen, crashed, nvs, mode,
                    appValid, out, then, serving, uploading, events, imageIn,
                    activating, web, hpc, writer, stage, image, at, touched,
                    wanted, fresh, raced, updates, faults, begun, claimed,
                    requested, shutdownDone, hooksDone, abandon, left, ran, flush,
                    after, step, armed, timer, slow, direct, chip, owner, update,
                    slot, loop, au, clock, loader, restart, rec, now, saved,
                    landed, held, hasJob, flushing, stable, crashes, boots, op,
                    next, job, closed, locked, answered, ended, replaces, target,
                    partial, aside, corrupt, up, purge, deleted, overlap, failed,
                    resets>>
NotOtaLoader == <<dirty, kicked, onPower, timed, due, powerKick, listening,
                  creating, task, made, notified, wpc, cur, power, ret, allowed,
                  spc, begun, claimed, requested, shutdownDone, hooksDone,
                  abandon, left, ran, flush, after, step, armed, timer, slow,
                  direct, chip, owner, update, slot, loop, au, clock, loader,
                  restart, rec, now, saved, landed, held, hasJob, flushing,
                  stable, crashes, boots, op, next, job, closed, locked, answered,
                  ended, replaces, target, partial, aside, corrupt, up, purge,
                  deleted, overlap, failed, resets>>
NotAppRestart == <<dirty, kicked, onPower, timed, due, powerKick, listening,
                   creating, task, made, notified, wpc, cur, power, ret, allowed,
                   spc, head, body, boot, handoff, result, seen, crashed, nvs,
                   mode, appValid, out, then, serving, uploading, events, imageIn,
                   activating, web, hpc, writer, stage, image, at, touched,
                   wanted, fresh, raced, updates, faults, owner, update, slot,
                   loop, au, clock, loader, restart, rec, now, saved, landed,
                   held, hasJob, flushing, stable, crashes, boots, op, next, job,
                   closed, locked, answered, ended, replaces, target, partial,
                   aside, corrupt, up, purge, deleted, overlap, failed, resets>>
NotSlot == <<dirty, kicked, onPower, timed, powerKick, listening, creating, made,
             notified, wpc, cur, power, ret, allowed, spc, pc, head, body,
             handoff, result, seen, crashed, nvs, mode, appValid, out, then,
             serving, uploading, events, imageIn, activating, web, hpc, writer,
             stage, at, touched, wanted, raced, updates, faults, begun, claimed,
             requested, shutdownDone, hooksDone, abandon, left, ran, flush, after,
             step, armed, timer, slow, direct, chip, rec, now, saved, landed,
             held, hasJob, flushing, stable, crashes, boots, op, next, job,
             closed, locked, answered, ended, replaces, target, partial, aside,
             corrupt, up, purge, deleted, overlap, failed, resets>>
NotGuard == <<dirty, onPower, timed, due, powerKick, listening, creating, task,
              made, notified, wpc, cur, power, ret, allowed, spc, pc, head, body,
              boot, handoff, result, seen, crashed, mode, appValid, out, then,
              serving, uploading, events, imageIn, activating, web, hpc, writer,
              stage, image, touched, wanted, fresh, raced, updates, faults, begun,
              claimed, requested, shutdownDone, hooksDone, abandon, left, ran,
              flush, after, step, armed, timer, slow, direct, owner, update, slot,
              loop, au, clock, loader, restart, op, next, job, closed, locked,
              answered, ended, replaces, target, partial, aside, corrupt, up,
              purge, deleted, overlap, failed, resets>>
NotFileWrites == <<dirty, onPower, timed, due, powerKick, listening, creating,
                   task, made, notified, wpc, cur, ret, allowed, spc, pc, head,
                   body, boot, handoff, result, seen, crashed, nvs, mode,
                   appValid, out, then, serving, uploading, events, imageIn,
                   activating, hpc, writer, stage, image, at, touched, wanted,
                   fresh, raced, updates, faults, begun, claimed, requested,
                   shutdownDone, hooksDone, abandon, ran, after, step, armed,
                   timer, slow, direct, chip, owner, update, slot, loop, au,
                   clock, loader, restart, rec, now, saved, landed, held, hasJob,
                   flushing, stable, crashes, boots, replaces, target, partial,
                   aside, corrupt, up, purge, deleted, overlap, failed, resets>>
NotUpload == <<dirty, kicked, onPower, timed, due, powerKick, listening, creating,
               task, made, notified, wpc, cur, power, ret, allowed, spc, pc, head,
               body, boot, handoff, result, seen, crashed, nvs, mode, appValid,
               out, then, serving, uploading, events, imageIn, activating, web,
               hpc, writer, stage, image, at, touched, wanted, fresh, raced,
               updates, faults, begun, claimed, requested, shutdownDone,
               hooksDone, abandon, left, ran, flush, after, step, armed, timer,
               slow, direct, chip, owner, update, slot, loop, au, clock, loader,
               restart, rec, now, landed, held, hasJob, flushing, stable, crashes,
               boots, op, next, job, closed, locked, answered, ended>>

Init ==
  /\ part \in {"FlashWriter", "OtaLoader", "AppRestart", "Slot", "Guard",
               "FileWrites", "Upload"}
  /\ part = "FlashWriter" => FlashWriter!Init
  /\ part = "OtaLoader" => OtaLoader!Init
  /\ part = "AppRestart" => AppRestart!Init
  /\ part = "Slot" => Slot!Init
  /\ part = "Guard" => Guard!Init
  /\ part = "FileWrites" => FileWrites!Init
  /\ part = "Upload" => Upload!Init
  /\ part # "FlashWriter" =>
       dirty = "-" /\ onPower = "-" /\ timed = "-" /\ powerKick = "-"
       /\ listening = "-" /\ creating = "-" /\ made = "-" /\ notified = "-"
       /\ wpc = "-" /\ cur = "-" /\ ret = "-" /\ allowed = "-" /\ spc = "-"
  /\ part \notin {"FlashWriter", "Guard", "FileWrites"} =>
       kicked = "-"
  /\ part \notin {"FlashWriter", "Slot"} =>
       due = "-" /\ task = "-"
  /\ part \notin {"FlashWriter", "FileWrites"} =>
       power = "-"
  /\ part \notin {"FlashWriter", "OtaLoader", "AppRestart"} =>
       pc = "-"
  /\ part # "OtaLoader" =>
       head = "-" /\ body = "-" /\ handoff = "-" /\ result = "-" /\ seen = "-"
       /\ crashed = "-" /\ mode = "-" /\ appValid = "-" /\ out = "-" /\ then = "-"
       /\ serving = "-" /\ uploading = "-" /\ events = "-" /\ imageIn = "-"
       /\ activating = "-" /\ hpc = "-" /\ writer = "-" /\ stage = "-"
       /\ touched = "-" /\ wanted = "-" /\ raced = "-" /\ updates = "-"
       /\ faults = "-"
  /\ part \notin {"OtaLoader", "Slot"} =>
       boot = "-" /\ image = "-" /\ fresh = "-"
  /\ part \notin {"OtaLoader", "Guard"} =>
       nvs = "-" /\ at = "-"
  /\ part \notin {"OtaLoader", "FileWrites"} =>
       web = "-"
  /\ part # "AppRestart" =>
       begun = "-" /\ claimed = "-" /\ requested = "-" /\ shutdownDone = "-"
       /\ hooksDone = "-" /\ abandon = "-" /\ ran = "-" /\ after = "-"
       /\ step = "-" /\ armed = "-" /\ timer = "-" /\ slow = "-" /\ direct = "-"
  /\ part \notin {"AppRestart", "FileWrites"} =>
       left = "-" /\ flush = "-"
  /\ part \notin {"AppRestart", "Guard"} =>
       chip = "-"
  /\ part # "Slot" =>
       owner = "-" /\ update = "-" /\ slot = "-" /\ loop = "-" /\ au = "-"
       /\ clock = "-" /\ loader = "-" /\ restart = "-"
  /\ part # "Guard" =>
       rec = "-" /\ now = "-" /\ landed = "-" /\ held = "-" /\ hasJob = "-"
       /\ flushing = "-" /\ stable = "-" /\ crashes = "-" /\ boots = "-"
  /\ part \notin {"Guard", "Upload"} =>
       saved = "-"
  /\ part # "FileWrites" =>
       op = "-" /\ next = "-" /\ job = "-" /\ closed = "-" /\ locked = "-"
       /\ answered = "-" /\ ended = "-"
  /\ part # "Upload" =>
       replaces = "-" /\ target = "-" /\ partial = "-" /\ aside = "-"
       /\ corrupt = "-" /\ up = "-" /\ purge = "-" /\ deleted = "-"
       /\ overlap = "-" /\ failed = "-" /\ resets = "-"

\* A step of a component, the one at work.
FlashWriterDoes(A) == part = "FlashWriter" /\ A /\ UNCHANGED <<part, NotFlashWriter>>
OtaLoaderDoes(A) == part = "OtaLoader" /\ A /\ UNCHANGED <<part, NotOtaLoader>>
AppRestartDoes(A) == part = "AppRestart" /\ A /\ UNCHANGED <<part, NotAppRestart>>
SlotDoes(A) == part = "Slot" /\ A /\ UNCHANGED <<part, NotSlot>>
GuardDoes(A) == part = "Guard" /\ A /\ UNCHANGED <<part, NotGuard>>
FileWritesDoes(A) == part = "FileWrites" /\ A /\ UNCHANGED <<part, NotFileWrites>>
UploadDoes(A) == part = "Upload" /\ A /\ UNCHANGED <<part, NotUpload>>

Next ==
  \/ FlashWriterDoes(FlashWriter!Next)
  \/ OtaLoaderDoes(OtaLoader!Next)
  \/ AppRestartDoes(AppRestart!Next)
  \/ SlotDoes(Slot!Next)
  \/ GuardDoes(Guard!Next)
  \/ FileWritesDoes(FileWrites!Next)
  \/ UploadDoes(Upload!Next)

vars == <<part, dirty, kicked, onPower, timed, due, powerKick, listening,
          creating, task, made, notified, wpc, cur, power, ret, allowed, spc, pc,
          head, body, boot, handoff, result, seen, crashed, nvs, mode, appValid,
          out, then, serving, uploading, events, imageIn, activating, web, hpc,
          writer, stage, image, at, touched, wanted, fresh, raced, updates,
          faults, begun, claimed, requested, shutdownDone, hooksDone, abandon,
          left, ran, flush, after, step, armed, timer, slow, direct, chip, owner,
          update, slot, loop, au, clock, loader, restart, rec, now, saved, landed,
          held, hasJob, flushing, stable, crashes, boots, op, next, job, closed,
          locked, answered, ended, replaces, target, partial, aside, corrupt, up,
          purge, deleted, overlap, failed, resets>>

Spec == Init /\ [][Next]_vars

-----------------------------------------------------------------------------
Of(p, P) == part = p => P       \* an invariant of one of them
In(p, P) == part = p /\ P

\* The type invariant of each.
TypesOK ==
  /\ Of("FlashWriter", FlashWriter!TypeOK)
  /\ Of("OtaLoader", OtaLoader!TypeOK)
  /\ Of("AppRestart", AppRestart!TypeOK)
  /\ Of("Slot", Slot!TypeOK)
  /\ Of("Guard", Guard!TypeOK)
  /\ Of("FileWrites", FileWrites!TypeOK)
  /\ Of("Upload", Upload!TypeOK)

\* A deferred write is never lost between its kick, the supply's return and the
\* writer task's sleep (FlashWriter.cpp: kick, run).
WritesComeUp == Of("FlashWriter", FlashWriter!NoLostWake /\ FlashWriter!NothingForgotten)

\* Whatever cuts an update short, the loader boots only an image that was checked,
\* and says ok only of one that is in (loader_main.cpp, image_writer.cpp).
LoaderHonest == Of("OtaLoader", OtaLoader!OnlyCheckedBoots /\ OtaLoader!OkIsTrue)

\* ... and neither an image that is in nor the handoff that lets it try again goes.
LoaderKeeps == Of("OtaLoader", OtaLoader!ImageKept /\ OtaLoader!HandoffKept)

\* The tasks that meet in a restart run the shutdown hooks once, apart from a module's
\* loop, the last step after every flush, and nobody resets under it (App.cpp).
RestartInOrder ==
  Of("AppRestart", AppRestart!HooksOnce /\ AppRestart!LoopApart
                   /\ AppRestart!StepLast /\ AppRestart!StepKept)

\* One writer at a time has the firmware slot, a slot that boots holds a whole image,
\* and the crash run across boots is not lost to a write the gate put off
\* (OtaWriter.cpp, FirmwareUpdate.cpp, BootGuard.cpp).
BootKept ==
  /\ Of("Slot", Slot!OneImage /\ Slot!BootsWhole /\ Slot!NothingHeld)
  /\ Of("Guard", Guard!CrashRunKept /\ Guard!PendingHasWriter)

\* The file manager keeps what it answered for until it is done, and an upload that
\* replaces a file leaves the old one or the new one (FsWriteQueue.h, FileSystemService.cpp).
FilesKept ==
  /\ Of("FileWrites", FileWrites!QueuedKept)
  /\ Of("Upload", Upload!NeverNeither /\ Upload!TargetWhole /\ Upload!Settled)

\* Steps: a queued file write never overtakes an older one, and a record of the boot
\* guard is never written back over a newer one.
NeverOvertaken ==
  [][/\ part = "FileWrites" => FileWrites!InOrder
     /\ part = "Guard" => Guard!NeverOlder]_vars

-----------------------------------------------------------------------------
(* An upload that replaces a file (FilePromote), for any bounds: its        *)
(* invariant, one lemma for each of its parts.                              *)

\* An upload's number is the name of a file, and of a whole one.
LEMMA FileNumbers ==
  ASSUME Upload!PromoteAssumption, Upload!TypeInv
  PROVE  up.n \in Upload!Files /\ up.n # Upload!Part /\ up.n # Upload!No /\ up.n \in Int
  BY DEF Upload!PromoteAssumption, Upload!TypeInv, Upload!Files, Upload!No, Upload!Part

\* An upload that begins while the debris is settled is noted.
LEMMA UploadOpened ==
  ASSUME Upload!PromoteAssumption, Upload!TypeInv, Upload!Open
  PROVE  /\ up' \in [at : {"none", "write", "promote", "swap", "tidy"},
                     n : 0..MaxUploads, hashOk : BOOLEAN]
         /\ up.at = "none" /\ up'.at = "write" /\ partial' = Upload!Part /\ overlap' \in BOOLEAN
         /\ (overlap => overlap') /\ (purge.at = "none" \/ overlap')
<1>1. /\ up.at = "none" /\ up.n < MaxUploads /\ partial' = Upload!Part
      /\ \E ok \in BOOLEAN : up' = [at |-> "write", n |-> up.n + 1, hashOk |-> ok]
      /\ overlap' = (overlap \/ purge.at # "none")
  BY DEF Upload!Open
<1>2. overlap' \in BOOLEAN /\ (overlap => overlap') /\ (purge.at = "none" \/ overlap')
  BY <1>1 DEF Upload!TypeInv
<1>3. up.n \in Nat /\ up.n + 1 \in 0..MaxUploads
  BY <1>1 DEF Upload!TypeInv, Upload!PromoteAssumption
<1>. QED  BY <1>1, <1>2, <1>3

\* What the settling saw.
LEMMA DebrisScanned ==
  ASSUME Upload!TypeInv, Upload!Scan
  PROVE  /\ purge' \in [at : {"none", "scan", "victims", "look", "settle"},
                        victim : BOOLEAN, old : BOOLEAN, there : BOOLEAN]
         /\ purge'.at = "victims" /\ (aside # Upload!No => purge'.old) /\ purge.at = "scan"
         /\ UNCHANGED <<Upload!files, up, failed, replaces, deleted, overlap, saved, resets>>
<1>. DEFINE victim == partial # Upload!No
            old == aside # Upload!No
<1>1. victim \in BOOLEAN /\ old \in BOOLEAN
  OBVIOUS
<1>2. /\ purge' = [at |-> "victims", victim |-> victim, old |-> old, there |-> FALSE]
      /\ purge.at = "scan"
      /\ UNCHANGED <<Upload!files, up, failed, replaces, deleted, overlap, saved, resets>>
  BY DEF Upload!Scan, Upload!Rest
<1>3. aside # Upload!No => old
  OBVIOUS
<1>. HIDE DEF victim, old
<1>. QED  BY <1>1, <1>2, <1>3

\* The settling sees the name last, after it moved the victims.
LEMMA DebrisLooked ==
  ASSUME Upload!TypeInv, Upload!Look
  PROVE  /\ purge' \in [at : {"none", "scan", "victims", "look", "settle"},
                        victim : BOOLEAN, old : BOOLEAN, there : BOOLEAN]
         /\ purge'.at = "settle" /\ (purge'.there <=> target # Upload!No) /\ purge.at = "look"
         /\ UNCHANGED <<Upload!files, up, failed, replaces, deleted, overlap, saved, resets>>
<1>. DEFINE there == target # Upload!No
<1>1. there \in BOOLEAN
  OBVIOUS
<1>2. /\ purge' = [purge EXCEPT !.at = "settle", !.there = there]
      /\ purge.at = "look"
      /\ UNCHANGED <<Upload!files, up, failed, replaces, deleted, overlap, saved, resets>>
  BY DEF Upload!Look, Upload!Rest
<1>3. there <=> target # Upload!No
  OBVIOUS
<1>. HIDE DEF there
<1>. QED  BY <1>1, <1>2, <1>3 DEF Upload!TypeInv

\* The state keeps its types.
LEMMA FileTypes ==
  ASSUME Upload!PromoteAssumption, Upload!IInv, [Upload!Next]_(Upload!vars)
  PROVE  Upload!TypeInv'
<1>1. CASE Upload!Open
  BY <1>1, UploadOpened DEF Upload!IInv, Upload!TypeInv, Upload!Open, Upload!Files
<1>2. CASE Upload!Interrupted
  BY <1>2, FileNumbers DEF Upload!IInv, Upload!TypeInv, Upload!PromoteAssumption, Upload!Files,
    Upload!Interrupted, Upload!At, Upload!Works, Upload!Fails, Upload!Rest, Upload!files,
    Upload!No, Upload!Part
<1>3. CASE Upload!Mismatch
  BY <1>3, FileNumbers DEF Upload!IInv, Upload!TypeInv, Upload!PromoteAssumption, Upload!Files,
    Upload!Mismatch, Upload!Renames, Upload!Over, Upload!At, Upload!Works, Upload!Fails,
    Upload!Rest, Upload!files, Upload!No, Upload!Part
<1>4. CASE Upload!Stale \/ Upload!StepAside
  BY <1>4, FileNumbers DEF Upload!IInv, Upload!TypeInv, Upload!PromoteAssumption, Upload!Files,
    Upload!Stale, Upload!At, Upload!Works, Upload!Fails, Upload!Rest, Upload!StepAside,
    Upload!Over, Upload!files, Upload!No, Upload!Part
<1>5. CASE Upload!Tidy
  BY <1>5, FileNumbers DEF Upload!IInv, Upload!TypeInv, Upload!PromoteAssumption, Upload!Files,
    Upload!Tidy, Upload!Over, Upload!At, Upload!Works, Upload!Fails, Upload!Rest, Upload!files,
    Upload!No, Upload!Part
<1>6. CASE Upload!Delete
  BY <1>6, FileNumbers DEF Upload!IInv, Upload!TypeInv, Upload!PromoteAssumption, Upload!Files,
    Upload!Delete, Upload!files, Upload!No, Upload!Part
<1>7. CASE Upload!Victims
  BY <1>7, FileNumbers DEF Upload!IInv, Upload!TypeInv, Upload!PromoteAssumption, Upload!Files,
    Upload!Victims, Upload!At, Upload!Works, Upload!Fails, Upload!Rest, Upload!files, Upload!No,
    Upload!Part
<1>8. CASE Upload!Settle
  BY <1>8, FileNumbers DEF Upload!IInv, Upload!TypeInv, Upload!PromoteAssumption, Upload!Files,
    Upload!Settle, Upload!NoPurge, Upload!At, Upload!Works, Upload!Fails, Upload!Rest,
    Upload!files, Upload!No, Upload!Part
<1>9. CASE Upload!Written
  BY <1>9, FileNumbers DEF Upload!IInv, Upload!TypeInv, Upload!PromoteAssumption, Upload!Files,
    Upload!Written, Upload!At, Upload!Works, Upload!Fails, Upload!Rest, Upload!files, Upload!No,
    Upload!Part
<1>10. CASE Upload!Reset
  BY ZenonT(60), <1>10, FileNumbers DEF Upload!IInv, Upload!TypeInv, Upload!PromoteAssumption,
    Upload!Files, Upload!Reset, Upload!NoUp, Upload!NoPurge, Upload!files, Upload!No,
    Upload!Part
<1>11. CASE Upload!Direct
  <2>1. /\ up.n \in Upload!Files /\ up.n # Upload!Part
        /\ up' \in [at : {"none", "write", "promote", "swap", "tidy"},
                   n : 0..MaxUploads, hashOk : BOOLEAN]
    BY <1>11, FileNumbers DEF Upload!IInv, Upload!TypeInv, Upload!Direct, Upload!Swap,
      Upload!At, Upload!Arrives, Upload!Over
  <2>2. /\ target' \in Upload!Files /\ partial' \in Upload!Files
        /\ aside' \in Upload!Files /\ corrupt' \in Upload!Files
    BY <1>11 DEF Upload!IInv, Upload!TypeInv, Upload!Direct, Upload!Swap, Upload!Renames,
      Upload!No, Upload!Files
  <2>3. saved' \in Upload!Files /\ saved' # Upload!Part
    BY <1>11, <2>1 DEF Upload!IInv, Upload!TypeInv, Upload!Direct, Upload!Swap, Upload!Arrives,
      Upload!Over, Upload!Rest
  <2>4. failed' \in Nat /\ UNCHANGED <<replaces, overlap, purge>>
    BY <1>11 DEF Upload!IInv, Upload!TypeInv, Upload!Direct, Upload!Swap, Upload!Arrives,
      Upload!Over, Upload!Rest, Upload!Works, Upload!Fails
  <2>5. deleted' = FALSE \/ deleted' = deleted
    BY <1>11 DEF Upload!Direct, Upload!Swap, Upload!Arrives, Upload!Over, Upload!Rest
  <2>6. deleted' \in BOOLEAN
    BY <2>5, Zenon DEF Upload!IInv, Upload!TypeInv
  <2>. QED  BY <2>1, <2>2, <2>3, <2>4, <2>6 DEF Upload!IInv, Upload!TypeInv
<1>12. CASE Upload!Swap
  <2>1. /\ up.n \in Upload!Files /\ up.n # Upload!Part
        /\ up' \in [at : {"none", "write", "promote", "swap", "tidy"},
                   n : 0..MaxUploads, hashOk : BOOLEAN]
    BY <1>12, FileNumbers DEF Upload!IInv, Upload!TypeInv, Upload!Direct, Upload!Swap,
      Upload!At, Upload!Arrives, Upload!Over
  <2>2. /\ target' \in Upload!Files /\ partial' \in Upload!Files
        /\ aside' \in Upload!Files /\ corrupt' \in Upload!Files
    BY <1>12 DEF Upload!IInv, Upload!TypeInv, Upload!Direct, Upload!Swap, Upload!Renames,
      Upload!No, Upload!Files
  <2>3. saved' \in Upload!Files /\ saved' # Upload!Part
    BY <1>12, <2>1 DEF Upload!IInv, Upload!TypeInv, Upload!Direct, Upload!Swap, Upload!Arrives,
      Upload!Over, Upload!Rest
  <2>4. failed' \in Nat /\ UNCHANGED <<replaces, overlap, purge>>
    BY <1>12 DEF Upload!IInv, Upload!TypeInv, Upload!Direct, Upload!Swap, Upload!Arrives,
      Upload!Over, Upload!Rest, Upload!Works, Upload!Fails
  <2>5. deleted' = FALSE \/ deleted' = deleted
    BY <1>12 DEF Upload!Direct, Upload!Swap, Upload!Arrives, Upload!Over, Upload!Rest
  <2>6. deleted' \in BOOLEAN
    BY <2>5, Zenon DEF Upload!IInv, Upload!TypeInv
  <2>. QED  BY <2>1, <2>2, <2>3, <2>4, <2>6 DEF Upload!IInv, Upload!TypeInv
<1>13. CASE Upload!Scan
  BY <1>13, DebrisScanned DEF Upload!IInv, Upload!TypeInv, Upload!files
<1>14. CASE Upload!Look
  BY <1>14, DebrisLooked DEF Upload!IInv, Upload!TypeInv, Upload!files
<1>15. CASE UNCHANGED Upload!vars
  BY <1>15 DEF Upload!IInv, Upload!TypeInv, Upload!PromoteAssumption, Upload!Files, Upload!vars,
    Upload!files, Upload!No, Upload!Part
<1>. QED  BY <1>1, <1>2, <1>3, <1>4, <1>5, <1>6, <1>7, <1>8, <1>9, <1>10, <1>11, <1>12, <1>13,
  <1>14, <1>15 DEF Upload!Next

\* What is on the volume under those names stays whole.
LEMMA FileWhole ==
  ASSUME Upload!PromoteAssumption, Upload!IInv, [Upload!Next]_(Upload!vars)
  PROVE  Upload!WholeInv'
<1>1. CASE Upload!Open
  BY <1>1, UploadOpened DEF Upload!IInv, Upload!WholeInv, Upload!Open
<1>2. CASE Upload!Written \/ Upload!Interrupted \/ Upload!Mismatch \/ Upload!Direct \/ Upload!Stale
  BY <1>2, FileNumbers DEF Upload!IInv, Upload!TypeInv, Upload!PromoteAssumption,
    Upload!WholeInv, Upload!Written, Upload!At, Upload!Works, Upload!Fails, Upload!Rest,
    Upload!Interrupted, Upload!Mismatch, Upload!Renames, Upload!Over, Upload!Direct,
    Upload!Arrives, Upload!Stale, Upload!files, Upload!No, Upload!Part
<1>3. CASE Upload!StepAside \/ Upload!Swap \/ Upload!Tidy \/ Upload!Delete \/ Upload!Reset
  BY <1>3, FileNumbers DEF Upload!IInv, Upload!TypeInv, Upload!PromoteAssumption,
    Upload!WholeInv, Upload!StepAside, Upload!Over, Upload!At, Upload!Works, Upload!Fails,
    Upload!Rest, Upload!Swap, Upload!Renames, Upload!Arrives, Upload!Tidy, Upload!Delete,
    Upload!Reset, Upload!NoUp, Upload!NoPurge, Upload!files, Upload!No, Upload!Part
<1>4. CASE Upload!Victims \/ Upload!Settle
  BY <1>4, FileNumbers DEF Upload!IInv, Upload!TypeInv, Upload!PromoteAssumption,
    Upload!WholeInv, Upload!Victims, Upload!At, Upload!Works, Upload!Fails, Upload!Rest,
    Upload!Settle, Upload!NoPurge, Upload!files, Upload!No, Upload!Part
<1>5. CASE Upload!Scan
  BY <1>5, DebrisScanned DEF Upload!IInv, Upload!WholeInv, Upload!files
<1>6. CASE Upload!Look
  BY <1>6, DebrisLooked DEF Upload!IInv, Upload!WholeInv, Upload!files
<1>7. CASE UNCHANGED Upload!vars
  BY <1>7 DEF Upload!IInv, Upload!TypeInv, Upload!PromoteAssumption, Upload!WholeInv,
    Upload!vars, Upload!files, Upload!No, Upload!Part
<1>. QED  BY <1>1, <1>2, <1>3, <1>4, <1>5, <1>6, <1>7 DEF Upload!Next

\* The debris is settled apart from an upload.
LEMMA FileDebris ==
  ASSUME Upload!PromoteAssumption, Upload!IInv, [Upload!Next]_(Upload!vars)
  PROVE  Upload!DebrisInv'
<1>1. CASE Upload!Open
  BY <1>1, UploadOpened DEF Upload!IInv, Upload!DebrisInv, Upload!Open
<1>2. CASE Upload!Mismatch \/ Upload!Direct
  BY <1>2, FileNumbers DEF Upload!IInv, Upload!TypeInv, Upload!PromoteAssumption,
    Upload!WholeInv, Upload!DebrisInv, Upload!Mismatch, Upload!Renames, Upload!Over, Upload!At,
    Upload!Works, Upload!Fails, Upload!Rest, Upload!Direct, Upload!Arrives, Upload!files,
    Upload!No, Upload!Part
<1>3. CASE Upload!Reset \/ Upload!Victims
  BY <1>3, FileNumbers DEF Upload!IInv, Upload!TypeInv, Upload!PromoteAssumption,
    Upload!WholeInv, Upload!DebrisInv, Upload!Reset, Upload!NoUp, Upload!NoPurge,
    Upload!Victims, Upload!At, Upload!Works, Upload!Fails, Upload!Rest, Upload!files, Upload!No,
    Upload!Part
<1>4. CASE Upload!Interrupted
  BY <1>4, FileNumbers DEF Upload!IInv, Upload!TypeInv, Upload!PromoteAssumption,
    Upload!WholeInv, Upload!DebrisInv, Upload!Interrupted, Upload!At, Upload!Works,
    Upload!Fails, Upload!Rest, Upload!files, Upload!No, Upload!Part
<1>5. CASE Upload!Settle
  BY <1>5, FileNumbers DEF Upload!IInv, Upload!TypeInv, Upload!PromoteAssumption,
    Upload!WholeInv, Upload!DebrisInv, Upload!Settle, Upload!NoPurge, Upload!At, Upload!Works,
    Upload!Fails, Upload!Rest, Upload!files, Upload!No, Upload!Part
<1>6. CASE Upload!Written
  BY <1>6, FileNumbers DEF Upload!IInv, Upload!TypeInv, Upload!PromoteAssumption,
    Upload!WholeInv, Upload!DebrisInv, Upload!Written, Upload!At, Upload!Works, Upload!Fails,
    Upload!Rest, Upload!files, Upload!No, Upload!Part
<1>7. CASE Upload!Stale \/ Upload!StepAside \/ Upload!Swap \/ Upload!Tidy \/ Upload!Delete
  BY <1>7, FileNumbers DEF Upload!IInv, Upload!TypeInv, Upload!PromoteAssumption,
    Upload!WholeInv, Upload!DebrisInv, Upload!Stale, Upload!At, Upload!Works, Upload!Fails,
    Upload!Rest, Upload!StepAside, Upload!Over, Upload!Swap, Upload!Renames, Upload!Arrives,
    Upload!Tidy, Upload!Delete, Upload!files, Upload!No, Upload!Part
<1>8. CASE Upload!Scan
  BY <1>8, DebrisScanned DEF Upload!IInv, Upload!DebrisInv, Upload!files
<1>9. CASE Upload!Look
  BY <1>9, DebrisLooked DEF Upload!IInv, Upload!DebrisInv, Upload!files
<1>10. CASE UNCHANGED Upload!vars
  BY <1>10 DEF Upload!IInv, Upload!TypeInv, Upload!PromoteAssumption, Upload!WholeInv,
    Upload!DebrisInv, Upload!vars, Upload!files, Upload!No, Upload!Part
<1>. QED  BY <1>1, <1>2, <1>3, <1>4, <1>5, <1>6, <1>7, <1>8, <1>9, <1>10 DEF Upload!Next

\* The file that arrived is kept.
LEMMA FileKept ==
  ASSUME Upload!PromoteAssumption, Upload!IInv, [Upload!Next]_(Upload!vars)
  PROVE  Upload!KeptInv'
<1>1. CASE Upload!Open
  BY <1>1, UploadOpened DEF Upload!IInv, Upload!KeptInv, Upload!Open
<1>2. CASE Upload!Written \/ Upload!Interrupted \/ Upload!Mismatch \/ Upload!Direct \/ Upload!Stale
  BY <1>2, FileNumbers DEF Upload!IInv, Upload!TypeInv, Upload!PromoteAssumption, Upload!Files,
    Upload!WholeInv, Upload!DebrisInv, Upload!KeptInv, Upload!Written, Upload!At, Upload!Works,
    Upload!Fails, Upload!Rest, Upload!Interrupted, Upload!Mismatch, Upload!Renames, Upload!Over,
    Upload!Direct, Upload!Arrives, Upload!Stale, Upload!files, Upload!No, Upload!Part
<1>3. CASE Upload!StepAside \/ Upload!Swap \/ Upload!Tidy \/ Upload!Delete \/ Upload!Reset
  BY <1>3, FileNumbers DEF Upload!IInv, Upload!TypeInv, Upload!PromoteAssumption, Upload!Files,
    Upload!WholeInv, Upload!DebrisInv, Upload!KeptInv, Upload!StepAside, Upload!Over, Upload!At,
    Upload!Works, Upload!Fails, Upload!Rest, Upload!Swap, Upload!Renames, Upload!Arrives,
    Upload!Tidy, Upload!Delete, Upload!Reset, Upload!NoUp, Upload!NoPurge, Upload!files,
    Upload!No, Upload!Part
<1>4. CASE Upload!Victims \/ Upload!Settle
  BY <1>4, FileNumbers DEF Upload!IInv, Upload!TypeInv, Upload!PromoteAssumption, Upload!Files,
    Upload!WholeInv, Upload!DebrisInv, Upload!KeptInv, Upload!Victims, Upload!At, Upload!Works,
    Upload!Fails, Upload!Rest, Upload!Settle, Upload!NoPurge, Upload!files, Upload!No,
    Upload!Part
<1>5. CASE Upload!Scan
  BY <1>5, DebrisScanned DEF Upload!IInv, Upload!KeptInv, Upload!files
<1>6. CASE Upload!Look
  BY <1>6, DebrisLooked DEF Upload!IInv, Upload!KeptInv, Upload!files
<1>7. CASE UNCHANGED Upload!vars
  BY <1>7 DEF Upload!IInv, Upload!TypeInv, Upload!PromoteAssumption, Upload!Files,
    Upload!WholeInv, Upload!DebrisInv, Upload!KeptInv, Upload!vars, Upload!files, Upload!No,
    Upload!Part
<1>. QED  BY <1>1, <1>2, <1>3, <1>4, <1>5, <1>6, <1>7 DEF Upload!Next

\* The name gets its file back.
LEMMA FileBack ==
  ASSUME Upload!PromoteAssumption, Upload!IInv, [Upload!Next]_(Upload!vars)
  PROVE  Upload!BackInv'
<1>1. CASE Upload!Open
  BY <1>1, UploadOpened DEF Upload!IInv, Upload!TypeInv, Upload!KeptInv, Upload!BackInv,
    Upload!No, Upload!Open
<1>2. CASE Upload!Victims
  BY <1>2, FileNumbers DEF Upload!IInv, Upload!TypeInv, Upload!PromoteAssumption, Upload!Files,
    Upload!WholeInv, Upload!DebrisInv, Upload!KeptInv, Upload!BackInv, Upload!Victims,
    Upload!At, Upload!Works, Upload!Fails, Upload!Rest, Upload!files, Upload!No, Upload!Part
<1>3. CASE Upload!Settle
  BY <1>3, FileNumbers DEF Upload!IInv, Upload!TypeInv, Upload!PromoteAssumption, Upload!Files,
    Upload!WholeInv, Upload!DebrisInv, Upload!KeptInv, Upload!BackInv, Upload!Settle,
    Upload!NoPurge, Upload!At, Upload!Works, Upload!Fails, Upload!Rest, Upload!files, Upload!No,
    Upload!Part
<1>4. CASE Upload!Reset
  BY <1>4, FileNumbers DEF Upload!IInv, Upload!TypeInv, Upload!PromoteAssumption, Upload!Files,
    Upload!WholeInv, Upload!DebrisInv, Upload!KeptInv, Upload!BackInv, Upload!Reset,
    Upload!NoUp, Upload!NoPurge, Upload!files, Upload!No, Upload!Part
<1>5. CASE Upload!Written \/ Upload!Interrupted \/ Upload!Mismatch \/ Upload!Direct \/ Upload!Stale
  BY <1>5, FileNumbers DEF Upload!IInv, Upload!TypeInv, Upload!PromoteAssumption, Upload!Files,
    Upload!WholeInv, Upload!DebrisInv, Upload!KeptInv, Upload!BackInv, Upload!Written,
    Upload!At, Upload!Works, Upload!Fails, Upload!Rest, Upload!Interrupted, Upload!Mismatch,
    Upload!Renames, Upload!Over, Upload!Direct, Upload!Arrives, Upload!Stale, Upload!files,
    Upload!No, Upload!Part
<1>6. CASE Upload!StepAside \/ Upload!Swap \/ Upload!Tidy \/ Upload!Delete
  BY <1>6, FileNumbers DEF Upload!IInv, Upload!TypeInv, Upload!PromoteAssumption, Upload!Files,
    Upload!WholeInv, Upload!DebrisInv, Upload!KeptInv, Upload!BackInv, Upload!StepAside,
    Upload!Over, Upload!At, Upload!Works, Upload!Fails, Upload!Rest, Upload!Swap,
    Upload!Renames, Upload!Arrives, Upload!Tidy, Upload!Delete, Upload!files, Upload!No,
    Upload!Part
<1>7. CASE Upload!Scan
  <2>1. /\ purge'.at = "victims" /\ (aside # Upload!No => purge'.old)
        /\ UNCHANGED <<target, aside, up, failed, deleted, overlap, saved>>
    BY <1>7, DebrisScanned DEF Upload!IInv, Upload!files
  <2>2. ASSUME ~overlap, ~deleted, saved # Upload!No, target = Upload!No PROVE aside # Upload!No
    BY <2>2 DEF Upload!IInv, Upload!TypeInv, Upload!KeptInv, Upload!Files, Upload!No,
      Upload!Part, Upload!PromoteAssumption
  <2>. QED  BY <2>1, <2>2 DEF Upload!BackInv
<1>8. CASE Upload!Look
  BY <1>8, DebrisLooked DEF Upload!IInv, Upload!TypeInv, Upload!KeptInv, Upload!BackInv,
    Upload!No, Upload!files
<1>9. CASE UNCHANGED Upload!vars
  BY <1>9 DEF Upload!IInv, Upload!TypeInv, Upload!PromoteAssumption, Upload!Files,
    Upload!WholeInv, Upload!DebrisInv, Upload!KeptInv, Upload!BackInv, Upload!vars,
    Upload!files, Upload!No, Upload!Part
<1>. QED  BY <1>1, <1>2, <1>3, <1>4, <1>5, <1>6, <1>7, <1>8, <1>9 DEF Upload!Next

\* The invariant holds on a volume as it is first mounted,
LEMMA PromoteInit ==
  ASSUME Upload!PromoteAssumption, Upload!Init
  PROVE  Upload!IInv
<1>1. Upload!TypeInv
  <2>1. up \in [at : {"none", "write", "promote", "swap", "tidy"},
                   n : 0..MaxUploads, hashOk : BOOLEAN]
    BY DEF Upload!Init, Upload!PromoteAssumption, Upload!NoUp
  <2>2. purge \in [at : {"none", "scan", "victims", "look", "settle"},
                   victim : BOOLEAN, old : BOOLEAN, there : BOOLEAN]
    BY DEF Upload!Init, Upload!NoPurge
  <2>3. /\ target \in Upload!Files /\ partial \in Upload!Files
        /\ aside \in Upload!Files /\ corrupt \in Upload!Files
        /\ saved \in Upload!Files /\ saved # Upload!Part
    BY DEF Upload!Init, Upload!PromoteAssumption, Upload!Files, Upload!No, Upload!Part
  <2>4. replaces \in BOOLEAN /\ deleted \in BOOLEAN /\ overlap \in BOOLEAN
    BY Zenon DEF Upload!Init
  <2>5. failed \in Nat
    BY DEF Upload!Init
  <2>. QED  BY <2>1, <2>2, <2>3, <2>4, <2>5 DEF Upload!TypeInv
<1>2. Upload!WholeInv /\ Upload!DebrisInv
  BY DEF Upload!Init, Upload!WholeInv, Upload!DebrisInv, Upload!NoUp, Upload!NoPurge, Upload!No,
    Upload!Part
<1>3. Upload!KeptInv /\ Upload!BackInv
  BY DEF Upload!Init, Upload!KeptInv, Upload!BackInv, Upload!No
<1>. QED  BY <1>1, <1>2, <1>3 DEF Upload!IInv

\* is kept by every operation, failed or not, by a reset and by the settling,
LEMMA PromoteNext ==
  ASSUME Upload!PromoteAssumption, Upload!IInv, [Upload!Next]_(Upload!vars)
  PROVE  Upload!IInv'
<1>. QED  BY FileTypes, FileWhole, FileDebris, FileKept, FileBack DEF Upload!IInv

\* and says that the file is there.
LEMMA PromoteGives ==
  ASSUME Upload!PromoteAssumption, Upload!IInv
  PROVE  Upload!TypeOK /\ Upload!NeverNeither /\ Upload!TargetWhole /\ Upload!Settled
<1>1. Upload!TypeOK
  BY DEF Upload!IInv, Upload!TypeInv, Upload!TypeOK
<1>2. Upload!NeverNeither
  BY DEF Upload!IInv, Upload!KeptInv, Upload!NeverNeither, Upload!Somewhere
<1>3. Upload!TargetWhole
  BY DEF Upload!IInv, Upload!WholeInv, Upload!TargetWhole
<1>4. Upload!Settled
  BY DEF Upload!IInv, Upload!TypeInv, Upload!KeptInv, Upload!BackInv, Upload!Settled
<1>. QED  BY <1>1, <1>2, <1>3, <1>4

\* However many uploads, deletions, resets and failed operations there are: the file that
\* arrived last is under its name or put aside, never part of one under the name, and it
\* has its name back once the debris is settled (FsPromote, purgeUploadDebris).
THEOREM UploadSurvives ==
  ASSUME Upload!PromoteAssumption
  PROVE  Upload!Spec =>
           [](Upload!TypeOK /\ Upload!NeverNeither /\ Upload!TargetWhole /\ Upload!Settled)
<1>1. Upload!Init => Upload!IInv
  BY PromoteInit
<1>2. Upload!IInv /\ [Upload!Next]_(Upload!vars) => Upload!IInv'
  BY PromoteNext
<1>3. Upload!IInv => Upload!TypeOK /\ Upload!NeverNeither /\ Upload!TargetWhole /\ Upload!Settled
  BY PromoteGives
<1>. QED  BY <1>1, <1>2, <1>3, PTL DEF Upload!Spec

-----------------------------------------------------------------------------
(* The firmware slot (FirmwareSlot): its invariant, one lemma for each of   *)
(* its parts.                                                               *)

\* The state keeps its types.
LEMMA SlotFlags ==
  ASSUME Slot!IInv, [Slot!Next]_(Slot!vars)
  PROVE  Slot!FlagsInv'
<1>1. ASSUME NEW w \in Slot!Writers, Slot!Begin(w) PROVE Slot!FlagsInv'
  BY <1>1 DEF Slot!IInv, Slot!FlagsInv, Slot!Granted, Slot!Transferring, Slot!Begin,
    Slot!Progress, Slot!Quiet, Slot!At, Slot!On, Slot!lock, Slot!flash, Slot!auto,
    Slot!None, Slot!Ota, Slot!Writers
<1>2. ASSUME NEW w \in Slot!Writers, Slot!Abort(w) PROVE Slot!FlagsInv'
  BY <1>2 DEF Slot!IInv, Slot!FlagsInv, Slot!Granted, Slot!Transferring, Slot!Abort,
    Slot!EndOf, Slot!Quiet, Slot!At, Slot!On, Slot!lock, Slot!flash, Slot!auto, Slot!None,
    Slot!Ota, Slot!Writers
<1>3. ASSUME NEW w \in Slot!Writers, Slot!Claim(w) PROVE Slot!FlagsInv'
  BY <1>3 DEF Slot!IInv, Slot!FlagsInv, Slot!Granted, Slot!Transferring, Slot!Claim,
    Slot!Own, Slot!Asks, Slot!Reads, Slot!Quiet, Slot!At, Slot!On, Slot!lock, Slot!flash,
    Slot!auto, Slot!None, Slot!Ota, Slot!Writers
<1>4. ASSUME NEW w \in Slot!Writers, Slot!Claimed(w) PROVE Slot!FlagsInv'
  BY ZenonT(60), <1>4 DEF Slot!IInv, Slot!FlagsInv, Slot!Granted, Slot!Transferring,
    Slot!Claimed, Slot!TryBegin, Slot!Active, Slot!Quiet, Slot!At, Slot!On, Slot!lock,
    Slot!flash, Slot!auto, Slot!None, Slot!Ota, Slot!Writers
<1>5. ASSUME NEW w \in Slot!Writers, Slot!Write(w) PROVE Slot!FlagsInv'
  BY <1>5 DEF Slot!IInv, Slot!FlagsInv, Slot!Granted, Slot!Transferring, Slot!Write,
    Slot!Put, Slot!Progress, Slot!At, Slot!On, Slot!lock, Slot!flash, Slot!auto, Slot!None,
    Slot!Ota, Slot!Writers
<1>6. ASSUME NEW w \in Slot!Writers, Slot!End(w) PROVE Slot!FlagsInv'
  BY <1>6 DEF Slot!IInv, Slot!FlagsInv, Slot!Granted, Slot!Transferring, Slot!End,
    Slot!Quiet, Slot!At, Slot!On, Slot!lock, Slot!flash, Slot!auto, Slot!None, Slot!Ota,
    Slot!Writers
<1>7. ASSUME NEW w \in Slot!Writers, Slot!Unclaim(w) \/ Slot!RestartInto(w) PROVE Slot!FlagsInv'
  BY <1>7 DEF Slot!IInv, Slot!FlagsInv, Slot!Granted, Slot!Transferring, Slot!Unclaim,
    Slot!Quiet, Slot!At, Slot!On, Slot!RestartInto, Slot!UploadAnswered, Slot!Success,
    Slot!lock, Slot!flash, Slot!auto, Slot!None, Slot!Ota, Slot!Writers
<1>8. CASE Slot!Finished \/ Slot!OnEnd \/ Slot!OnError
  BY <1>8 DEF Slot!IInv, Slot!FlagsInv, Slot!Granted, Slot!Transferring, Slot!Finished,
    Slot!InLoop, Slot!OtaOnly, Slot!On, Slot!OnEnd, Slot!EndOf, Slot!OnError, Slot!lock,
    Slot!flash, Slot!auto, Slot!None, Slot!Ota, Slot!Writers
<1>9. CASE Slot!Kill \/ Slot!TimeoutRestart \/ Slot!Settle \/ Slot!Schedule
  BY <1>9 DEF Slot!IInv, Slot!FlagsInv, Slot!Granted, Slot!Transferring, Slot!Kill, Slot!TimeoutRestart,
    Slot!Pass, Slot!AutoOnly, Slot!On, Slot!Settle, Slot!Schedule, Slot!Active, Slot!Busy,
    Slot!lock, Slot!flash, Slot!auto, Slot!None, Slot!Ota, Slot!Writers
<1>10. CASE Slot!Primary \/ Slot!Fallback \/ Slot!Answer
  BY <1>10 DEF Slot!IInv, Slot!FlagsInv, Slot!Granted, Slot!Transferring, Slot!Primary,
    Slot!Go, Slot!On, Slot!Fallback, Slot!Answer, Slot!Active, Slot!Busy, Slot!lock,
    Slot!flash, Slot!auto, Slot!None, Slot!Ota, Slot!Writers
<1>11. CASE Slot!HandOff \/ Slot!ReadFails \/ Slot!Passed
  BY <1>11 DEF Slot!IInv, Slot!FlagsInv, Slot!Granted, Slot!Transferring, Slot!HandOff,
    Slot!Active, Slot!Busy, Slot!Go, Slot!On, Slot!ReadFails, Slot!Passed, Slot!lock,
    Slot!flash, Slot!auto, Slot!None, Slot!Ota, Slot!Writers
<1>12. CASE Slot!OnStart \/ Slot!Take
  BY <1>12 DEF Slot!IInv, Slot!FlagsInv, Slot!Granted, Slot!Transferring, Slot!OnStart,
    Slot!InLoop, Slot!Clear, Slot!Busy, Slot!OtaOnly, Slot!On, Slot!Take, Slot!TryBegin,
    Slot!Active, Slot!lock, Slot!flash, Slot!auto, Slot!None, Slot!Ota, Slot!Writers
<1>13. CASE Slot!Transfer
  BY <1>13 DEF Slot!IInv, Slot!FlagsInv, Slot!Granted, Slot!Transferring, Slot!Transfer,
    Slot!InLoop, Slot!Put, Slot!Progress, Slot!OtaOnly, Slot!On, Slot!lock, Slot!flash,
    Slot!auto, Slot!None, Slot!Ota, Slot!Writers
<1>14. CASE Slot!TaskEnds \/ Slot!Stall
  BY <1>14 DEF Slot!IInv, Slot!FlagsInv, Slot!Granted, Slot!Transferring, Slot!TaskEnds,
    Slot!Go, Slot!On, Slot!Stall, Slot!Active, Slot!lock, Slot!flash, Slot!auto, Slot!None,
    Slot!Ota, Slot!Writers
<1>15. CASE Slot!Due
  BY <1>15 DEF Slot!IInv, Slot!FlagsInv, Slot!Granted, Slot!Transferring, Slot!Due,
    Slot!On, Slot!lock, Slot!flash, Slot!auto, Slot!None, Slot!Ota, Slot!Writers
<1>16. CASE Slot!Time \/ Slot!Reset \/ Slot!Over
  BY <1>16 DEF Slot!IInv, Slot!FlagsInv, Slot!Granted, Slot!Transferring, Slot!Time,
    Slot!On, Slot!Reset, Slot!Over, Slot!vars, Slot!lock, Slot!flash, Slot!auto, Slot!None,
    Slot!Ota, Slot!Writers
<1>17. CASE UNCHANGED Slot!vars
  BY <1>17 DEF Slot!IInv, Slot!FlagsInv, Slot!Granted, Slot!Transferring, Slot!vars,
    Slot!lock, Slot!flash, Slot!auto, Slot!None, Slot!Ota, Slot!Writers
<1>. QED  BY <1>1, <1>2, <1>3, <1>4, <1>5, <1>6, <1>7, <1>8, <1>9, <1>10, <1>11, <1>12,
  <1>13, <1>14, <1>15, <1>16, <1>17 DEF Slot!Next, Slot!Writer, Slot!ArduinoOTA, Slot!Loop,
  Slot!Task

\* The owner stays the writer with an image.
LEMMA SlotOwner ==
  ASSUME Slot!IInv, [Slot!Next]_(Slot!vars)
  PROVE  Slot!OwnerInv'
<1>1. ASSUME NEW w \in Slot!Writers,
             Slot!Claim(w) \/ Slot!Claimed(w) \/ Slot!Begin(w) \/ Slot!Write(w) \/
             Slot!End(w) \/ Slot!Abort(w)
      PROVE  Slot!OwnerInv'
  BY <1>1 DEF Slot!IInv, Slot!FlagsInv, Slot!OwnerInv, Slot!Granted, Slot!Transferring,
    Slot!Claim, Slot!Own, Slot!Asks, Slot!Reads, Slot!Quiet, Slot!At, Slot!On, Slot!Claimed,
    Slot!TryBegin, Slot!Active, Slot!Begin, Slot!Progress, Slot!Write, Slot!Put, Slot!End,
    Slot!Abort, Slot!EndOf, Slot!lock, Slot!flash, Slot!auto, Slot!None, Slot!Ota,
    Slot!Writers
<1>2. ASSUME NEW w \in Slot!Writers, Slot!Unclaim(w) \/ Slot!RestartInto(w) PROVE Slot!OwnerInv'
  BY <1>2 DEF Slot!IInv, Slot!FlagsInv, Slot!OwnerInv, Slot!Granted, Slot!Transferring,
    Slot!Unclaim, Slot!Quiet, Slot!At, Slot!On, Slot!RestartInto, Slot!UploadAnswered,
    Slot!Success, Slot!lock, Slot!flash, Slot!auto, Slot!None, Slot!Ota, Slot!Writers
<1>3. CASE Slot!OnStart \/ Slot!Take \/ Slot!Transfer \/ Slot!Finished \/ Slot!OnEnd \/
           Slot!OnError
  BY <1>3 DEF Slot!IInv, Slot!FlagsInv, Slot!OwnerInv, Slot!Granted, Slot!Transferring,
    Slot!OnStart, Slot!InLoop, Slot!Clear, Slot!Busy, Slot!OtaOnly, Slot!On, Slot!Take,
    Slot!TryBegin, Slot!Active, Slot!Transfer, Slot!Put, Slot!Progress, Slot!Finished,
    Slot!OnEnd, Slot!EndOf, Slot!OnError, Slot!lock, Slot!flash, Slot!auto, Slot!None,
    Slot!Ota, Slot!Writers
<1>4. CASE Slot!Kill \/ Slot!TimeoutRestart \/ Slot!Settle \/ Slot!Schedule \/ Slot!Primary \/ Slot!Fallback \/
           Slot!Answer
  BY <1>4 DEF Slot!IInv, Slot!FlagsInv, Slot!OwnerInv, Slot!Granted, Slot!Transferring,
    Slot!Kill, Slot!TimeoutRestart, Slot!Pass, Slot!AutoOnly, Slot!On, Slot!Settle, Slot!Schedule, Slot!Active,
    Slot!Busy, Slot!Primary, Slot!Go, Slot!Fallback, Slot!Answer, Slot!lock, Slot!flash,
    Slot!auto, Slot!None, Slot!Ota, Slot!Writers
<1>5. CASE Slot!HandOff \/ Slot!ReadFails \/ Slot!Passed \/ Slot!TaskEnds \/ Slot!Stall \/
           Slot!Due
  BY <1>5 DEF Slot!IInv, Slot!FlagsInv, Slot!OwnerInv, Slot!Granted, Slot!Transferring,
    Slot!HandOff, Slot!Active, Slot!Busy, Slot!Go, Slot!On, Slot!ReadFails, Slot!Passed,
    Slot!TaskEnds, Slot!Stall, Slot!Due, Slot!lock, Slot!flash, Slot!auto, Slot!None,
    Slot!Ota, Slot!Writers
<1>6. CASE Slot!Time \/ Slot!Reset \/ Slot!Over
  BY <1>6 DEF Slot!IInv, Slot!FlagsInv, Slot!OwnerInv, Slot!Granted, Slot!Transferring,
    Slot!Time, Slot!On, Slot!Reset, Slot!Over, Slot!vars, Slot!lock, Slot!flash, Slot!auto,
    Slot!None, Slot!Ota, Slot!Writers
<1>7. CASE UNCHANGED Slot!vars
  BY <1>7 DEF Slot!IInv, Slot!FlagsInv, Slot!OwnerInv, Slot!Granted, Slot!Transferring,
    Slot!vars, Slot!lock, Slot!flash, Slot!auto, Slot!None, Slot!Ota, Slot!Writers
<1>. QED  BY <1>1, <1>2, <1>3, <1>4, <1>5, <1>6, <1>7 DEF Slot!Next, Slot!Writer,
  Slot!ArduinoOTA, Slot!Loop, Slot!Task

\* A granted update stays one writer's.
LEMMA SlotGranted ==
  ASSUME Slot!IInv, [Slot!Next]_(Slot!vars)
  PROVE  Slot!GrantInv'
<1>1. ASSUME NEW w \in Slot!Writers,
             Slot!Claim(w) \/ Slot!Claimed(w) \/ Slot!Begin(w) \/ Slot!Write(w) \/
             Slot!End(w) \/ Slot!Abort(w)
      PROVE  Slot!GrantInv'
  BY <1>1 DEF Slot!IInv, Slot!FlagsInv, Slot!OwnerInv, Slot!GrantInv, Slot!Granted,
    Slot!Transferring, Slot!Claim, Slot!Own, Slot!Asks, Slot!Reads, Slot!Quiet, Slot!At,
    Slot!On, Slot!Claimed, Slot!TryBegin, Slot!Active, Slot!Begin, Slot!Progress,
    Slot!Write, Slot!Put, Slot!End, Slot!Abort, Slot!EndOf, Slot!lock, Slot!flash,
    Slot!auto, Slot!None, Slot!Ota, Slot!Writers
<1>2. ASSUME NEW w \in Slot!Writers, Slot!Unclaim(w) \/ Slot!RestartInto(w) PROVE Slot!GrantInv'
  BY <1>2 DEF Slot!IInv, Slot!FlagsInv, Slot!OwnerInv, Slot!GrantInv, Slot!Granted,
    Slot!Transferring, Slot!Unclaim, Slot!Quiet, Slot!At, Slot!On, Slot!RestartInto,
    Slot!UploadAnswered, Slot!Success, Slot!lock, Slot!flash, Slot!auto, Slot!None,
    Slot!Ota, Slot!Writers
<1>3. CASE Slot!OnStart \/ Slot!Take \/ Slot!Transfer \/ Slot!Finished \/ Slot!OnEnd \/
           Slot!OnError
  BY <1>3 DEF Slot!IInv, Slot!FlagsInv, Slot!OwnerInv, Slot!GrantInv, Slot!Granted,
    Slot!Transferring, Slot!OnStart, Slot!InLoop, Slot!Clear, Slot!Busy, Slot!OtaOnly,
    Slot!On, Slot!Take, Slot!TryBegin, Slot!Active, Slot!Transfer, Slot!Put, Slot!Progress,
    Slot!Finished, Slot!OnEnd, Slot!EndOf, Slot!OnError, Slot!lock, Slot!flash, Slot!auto,
    Slot!None, Slot!Ota, Slot!Writers
<1>4. CASE Slot!Kill \/ Slot!TimeoutRestart \/ Slot!Settle \/ Slot!Schedule \/ Slot!Primary \/ Slot!Fallback \/
           Slot!Answer
  BY <1>4 DEF Slot!IInv, Slot!FlagsInv, Slot!OwnerInv, Slot!GrantInv, Slot!Granted,
    Slot!Transferring, Slot!Kill, Slot!TimeoutRestart, Slot!Pass, Slot!AutoOnly, Slot!On, Slot!Settle,
    Slot!Schedule, Slot!Active, Slot!Busy, Slot!Primary, Slot!Go, Slot!Fallback,
    Slot!Answer, Slot!lock, Slot!flash, Slot!auto, Slot!None, Slot!Ota, Slot!Writers
<1>5. CASE Slot!HandOff \/ Slot!ReadFails \/ Slot!Passed \/ Slot!TaskEnds \/ Slot!Stall \/
           Slot!Due
  BY <1>5 DEF Slot!IInv, Slot!FlagsInv, Slot!OwnerInv, Slot!GrantInv, Slot!Granted,
    Slot!Transferring, Slot!HandOff, Slot!Active, Slot!Busy, Slot!Go, Slot!On,
    Slot!ReadFails, Slot!Passed, Slot!TaskEnds, Slot!Stall, Slot!Due, Slot!lock, Slot!flash,
    Slot!auto, Slot!None, Slot!Ota, Slot!Writers
<1>6. CASE Slot!Time \/ Slot!Reset \/ Slot!Over
  BY <1>6 DEF Slot!IInv, Slot!FlagsInv, Slot!OwnerInv, Slot!GrantInv, Slot!Granted,
    Slot!Transferring, Slot!Time, Slot!On, Slot!Reset, Slot!Over, Slot!vars, Slot!lock,
    Slot!flash, Slot!auto, Slot!None, Slot!Ota, Slot!Writers
<1>7. CASE UNCHANGED Slot!vars
  BY <1>7 DEF Slot!IInv, Slot!FlagsInv, Slot!OwnerInv, Slot!GrantInv, Slot!Granted,
    Slot!Transferring, Slot!vars, Slot!lock, Slot!flash, Slot!auto, Slot!None, Slot!Ota,
    Slot!Writers
<1>. QED  BY <1>1, <1>2, <1>3, <1>4, <1>5, <1>6, <1>7 DEF Slot!Next, Slot!Writer,
  Slot!ArduinoOTA, Slot!Loop, Slot!Task

\* The slot is written by one writer at a time.
LEMMA SlotWritten ==
  ASSUME Slot!IInv, [Slot!Next]_(Slot!vars)
  PROVE  Slot!SlotInv'
<1>1. ASSUME NEW w \in Slot!Writers,
             Slot!Claim(w) \/ Slot!Claimed(w) \/ Slot!Begin(w) \/ Slot!Write(w) \/
             Slot!End(w) \/ Slot!Abort(w)
      PROVE  Slot!SlotInv'
  BY <1>1 DEF Slot!IInv, Slot!FlagsInv, Slot!OwnerInv, Slot!GrantInv, Slot!SlotInv,
    Slot!Granted, Slot!Transferring, Slot!Claim, Slot!Own, Slot!Asks, Slot!Reads,
    Slot!Quiet, Slot!At, Slot!On, Slot!Claimed, Slot!TryBegin, Slot!Active, Slot!Begin,
    Slot!Progress, Slot!Write, Slot!Put, Slot!End, Slot!Abort, Slot!EndOf, Slot!lock,
    Slot!flash, Slot!auto, Slot!None, Slot!Ota, Slot!Writers
<1>2. ASSUME NEW w \in Slot!Writers, Slot!Unclaim(w) \/ Slot!RestartInto(w) PROVE Slot!SlotInv'
  BY <1>2 DEF Slot!IInv, Slot!FlagsInv, Slot!OwnerInv, Slot!GrantInv, Slot!SlotInv,
    Slot!Granted, Slot!Transferring, Slot!Unclaim, Slot!Quiet, Slot!At, Slot!On,
    Slot!RestartInto, Slot!UploadAnswered, Slot!Success, Slot!lock, Slot!flash, Slot!auto,
    Slot!None, Slot!Ota, Slot!Writers
<1>3. CASE Slot!OnStart \/ Slot!Take \/ Slot!Transfer \/ Slot!Finished \/ Slot!OnEnd \/
           Slot!OnError
  BY <1>3 DEF Slot!IInv, Slot!FlagsInv, Slot!OwnerInv, Slot!GrantInv, Slot!SlotInv,
    Slot!Granted, Slot!Transferring, Slot!OnStart, Slot!InLoop, Slot!Clear, Slot!Busy,
    Slot!OtaOnly, Slot!On, Slot!Take, Slot!TryBegin, Slot!Active, Slot!Transfer, Slot!Put,
    Slot!Progress, Slot!Finished, Slot!OnEnd, Slot!EndOf, Slot!OnError, Slot!lock,
    Slot!flash, Slot!auto, Slot!None, Slot!Ota, Slot!Writers
<1>4. CASE Slot!Kill \/ Slot!TimeoutRestart \/ Slot!Settle \/ Slot!Schedule \/ Slot!Primary \/ Slot!Fallback \/
           Slot!Answer
  BY <1>4 DEF Slot!IInv, Slot!FlagsInv, Slot!OwnerInv, Slot!GrantInv, Slot!SlotInv,
    Slot!Granted, Slot!Transferring, Slot!Kill, Slot!TimeoutRestart, Slot!Pass, Slot!AutoOnly, Slot!On,
    Slot!Settle, Slot!Schedule, Slot!Active, Slot!Busy, Slot!Primary, Slot!Go,
    Slot!Fallback, Slot!Answer, Slot!lock, Slot!flash, Slot!auto, Slot!None, Slot!Ota,
    Slot!Writers
<1>5. CASE Slot!HandOff \/ Slot!ReadFails \/ Slot!Passed \/ Slot!TaskEnds \/ Slot!Stall \/
           Slot!Due
  BY <1>5 DEF Slot!IInv, Slot!FlagsInv, Slot!OwnerInv, Slot!GrantInv, Slot!SlotInv,
    Slot!Granted, Slot!Transferring, Slot!HandOff, Slot!Active, Slot!Busy, Slot!Go, Slot!On,
    Slot!ReadFails, Slot!Passed, Slot!TaskEnds, Slot!Stall, Slot!Due, Slot!lock, Slot!flash,
    Slot!auto, Slot!None, Slot!Ota, Slot!Writers
<1>6. CASE Slot!Time \/ Slot!Reset \/ Slot!Over
  BY <1>6 DEF Slot!IInv, Slot!FlagsInv, Slot!OwnerInv, Slot!GrantInv, Slot!SlotInv,
    Slot!Granted, Slot!Transferring, Slot!Time, Slot!On, Slot!Reset, Slot!Over, Slot!vars,
    Slot!lock, Slot!flash, Slot!auto, Slot!None, Slot!Ota, Slot!Writers
<1>7. CASE UNCHANGED Slot!vars
  BY <1>7 DEF Slot!IInv, Slot!FlagsInv, Slot!OwnerInv, Slot!GrantInv, Slot!SlotInv,
    Slot!Granted, Slot!Transferring, Slot!vars, Slot!lock, Slot!flash, Slot!auto, Slot!None,
    Slot!Ota, Slot!Writers
<1>. QED  BY <1>1, <1>2, <1>3, <1>4, <1>5, <1>6, <1>7 DEF Slot!Next, Slot!Writer,
  Slot!ArduinoOTA, Slot!Loop, Slot!Task

\* What boots is not written any more.
LEMMA SlotBoots ==
  ASSUME Slot!IInv, [Slot!Next]_(Slot!vars)
  PROVE  Slot!BootInv'
<1>1. ASSUME NEW w \in Slot!Writers,
             Slot!Claim(w) \/ Slot!Claimed(w) \/ Slot!Begin(w) \/ Slot!Write(w) \/
             Slot!End(w) \/ Slot!Abort(w)
      PROVE  Slot!BootInv'
  BY <1>1 DEF Slot!IInv, Slot!FlagsInv, Slot!OwnerInv, Slot!GrantInv, Slot!SlotInv,
    Slot!BootInv, Slot!Granted, Slot!Transferring, Slot!Claim, Slot!Own, Slot!Asks,
    Slot!Reads, Slot!Quiet, Slot!At, Slot!On, Slot!Claimed, Slot!TryBegin, Slot!Active,
    Slot!Begin, Slot!Progress, Slot!Write, Slot!Put, Slot!End, Slot!Abort, Slot!EndOf,
    Slot!lock, Slot!flash, Slot!auto, Slot!None, Slot!Ota, Slot!Writers
<1>2. ASSUME NEW w \in Slot!Writers, Slot!Unclaim(w) \/ Slot!RestartInto(w) PROVE Slot!BootInv'
  BY <1>2 DEF Slot!IInv, Slot!FlagsInv, Slot!OwnerInv, Slot!GrantInv, Slot!SlotInv,
    Slot!BootInv, Slot!Granted, Slot!Transferring, Slot!Unclaim, Slot!Quiet, Slot!At,
    Slot!On, Slot!RestartInto, Slot!UploadAnswered, Slot!Success, Slot!lock, Slot!flash,
    Slot!auto, Slot!None, Slot!Ota, Slot!Writers
<1>3. CASE Slot!OnStart \/ Slot!Take \/ Slot!Transfer \/ Slot!Finished \/ Slot!OnEnd \/
           Slot!OnError
  BY <1>3 DEF Slot!IInv, Slot!FlagsInv, Slot!OwnerInv, Slot!GrantInv, Slot!SlotInv,
    Slot!BootInv, Slot!Granted, Slot!Transferring, Slot!OnStart, Slot!InLoop, Slot!Clear,
    Slot!Busy, Slot!OtaOnly, Slot!On, Slot!Take, Slot!TryBegin, Slot!Active, Slot!Transfer,
    Slot!Put, Slot!Progress, Slot!Finished, Slot!OnEnd, Slot!EndOf, Slot!OnError, Slot!lock,
    Slot!flash, Slot!auto, Slot!None, Slot!Ota, Slot!Writers
<1>4. CASE Slot!Kill \/ Slot!TimeoutRestart \/ Slot!Settle \/ Slot!Schedule \/ Slot!Primary \/ Slot!Fallback \/
           Slot!Answer
  BY <1>4 DEF Slot!IInv, Slot!FlagsInv, Slot!OwnerInv, Slot!GrantInv, Slot!SlotInv,
    Slot!BootInv, Slot!Granted, Slot!Transferring, Slot!Kill, Slot!TimeoutRestart, Slot!Pass, Slot!AutoOnly,
    Slot!On, Slot!Settle, Slot!Schedule, Slot!Active, Slot!Busy, Slot!Primary, Slot!Go,
    Slot!Fallback, Slot!Answer, Slot!lock, Slot!flash, Slot!auto, Slot!None, Slot!Ota,
    Slot!Writers
<1>5. CASE Slot!HandOff \/ Slot!ReadFails \/ Slot!Passed \/ Slot!TaskEnds \/ Slot!Stall \/
           Slot!Due
  BY <1>5 DEF Slot!IInv, Slot!FlagsInv, Slot!OwnerInv, Slot!GrantInv, Slot!SlotInv,
    Slot!BootInv, Slot!Granted, Slot!Transferring, Slot!HandOff, Slot!Active, Slot!Busy,
    Slot!Go, Slot!On, Slot!ReadFails, Slot!Passed, Slot!TaskEnds, Slot!Stall, Slot!Due,
    Slot!lock, Slot!flash, Slot!auto, Slot!None, Slot!Ota, Slot!Writers
<1>6. CASE Slot!Time \/ Slot!Reset \/ Slot!Over
  BY <1>6 DEF Slot!IInv, Slot!FlagsInv, Slot!OwnerInv, Slot!GrantInv, Slot!SlotInv,
    Slot!BootInv, Slot!Granted, Slot!Transferring, Slot!Time, Slot!On, Slot!Reset,
    Slot!Over, Slot!vars, Slot!lock, Slot!flash, Slot!auto, Slot!None, Slot!Ota,
    Slot!Writers
<1>7. CASE UNCHANGED Slot!vars
  BY <1>7 DEF Slot!IInv, Slot!BootInv, Slot!On, Slot!vars, Slot!lock, Slot!flash,
    Slot!auto, Slot!None, Slot!Ota, Slot!Writers
<1>. QED  BY <1>1, <1>2, <1>3, <1>4, <1>5, <1>6, <1>7 DEF Slot!Next, Slot!Writer,
  Slot!ArduinoOTA, Slot!Loop, Slot!Task

\* The update task does not go before its writer.
LEMMA SlotTask ==
  ASSUME Slot!IInv, [Slot!Next]_(Slot!vars)
  PROVE  Slot!TaskInv'
<1>1. ASSUME NEW w \in Slot!Writers,
             Slot!Write(w) \/ Slot!End(w) \/ Slot!Abort(w)
      PROVE  Slot!TaskInv'
  BY <1>1 DEF Slot!IInv, Slot!FlagsInv, Slot!OwnerInv, Slot!TaskInv, Slot!Granted,
    Slot!Transferring, Slot!Write, Slot!Put, Slot!Progress, Slot!At, Slot!Lives, Slot!On, Slot!End,
    Slot!Quiet, Slot!Abort, Slot!EndOf, Slot!lock, Slot!flash, Slot!auto, Slot!None,
    Slot!Ota, Slot!Writers
<1>2. ASSUME NEW w \in Slot!Writers, Slot!Begin(w) PROVE Slot!TaskInv'
  BY <1>2 DEF Slot!IInv, Slot!FlagsInv, Slot!OwnerInv, Slot!TaskInv, Slot!Granted,
    Slot!Transferring, Slot!Begin, Slot!Progress, Slot!Quiet, Slot!At, Slot!Lives, Slot!On, Slot!lock,
    Slot!flash, Slot!auto, Slot!None, Slot!Ota, Slot!Writers
<1>3. ASSUME NEW w \in Slot!Writers, Slot!Claim(w) PROVE Slot!TaskInv'
  BY <1>3 DEF Slot!IInv, Slot!FlagsInv, Slot!OwnerInv, Slot!TaskInv, Slot!Granted,
    Slot!Transferring, Slot!Claim, Slot!Own, Slot!Asks, Slot!Reads, Slot!Quiet, Slot!At, Slot!Lives,
    Slot!On, Slot!lock, Slot!flash, Slot!auto, Slot!None, Slot!Ota, Slot!Writers
<1>4. ASSUME NEW w \in Slot!Writers, Slot!Claimed(w) PROVE Slot!TaskInv'
  BY <1>4 DEF Slot!IInv, Slot!FlagsInv, Slot!OwnerInv, Slot!TaskInv, Slot!Granted,
    Slot!Transferring, Slot!Claimed, Slot!TryBegin, Slot!Active, Slot!Quiet, Slot!At, Slot!Lives,
    Slot!On, Slot!lock, Slot!flash, Slot!auto, Slot!None, Slot!Ota, Slot!Writers
<1>5. ASSUME NEW w \in Slot!Writers, Slot!Unclaim(w) \/ Slot!RestartInto(w) PROVE Slot!TaskInv'
  BY <1>5 DEF Slot!IInv, Slot!FlagsInv, Slot!OwnerInv, Slot!TaskInv, Slot!Granted,
    Slot!Transferring, Slot!Unclaim, Slot!Quiet, Slot!At, Slot!Lives, Slot!On, Slot!RestartInto,
    Slot!UploadAnswered, Slot!Success, Slot!lock, Slot!flash, Slot!auto, Slot!None,
    Slot!Ota, Slot!Writers
<1>6. CASE Slot!OnStart \/ Slot!Take \/ Slot!Transfer \/ Slot!Finished \/ Slot!OnEnd \/
           Slot!OnError
  BY <1>6 DEF Slot!IInv, Slot!FlagsInv, Slot!OwnerInv, Slot!TaskInv, Slot!Granted,
    Slot!Transferring, Slot!OnStart, Slot!InLoop, Slot!Clear, Slot!Busy, Slot!OtaOnly,
    Slot!On, Slot!Take, Slot!TryBegin, Slot!Active, Slot!Transfer, Slot!Put, Slot!Progress,
    Slot!Finished, Slot!OnEnd, Slot!EndOf, Slot!OnError, Slot!lock, Slot!flash, Slot!auto,
    Slot!None, Slot!Ota, Slot!Writers
<1>7. CASE Slot!Kill \/ Slot!TimeoutRestart \/ Slot!Settle \/ Slot!Schedule \/ Slot!Primary \/ Slot!Fallback \/
           Slot!Answer
  BY <1>7 DEF Slot!IInv, Slot!FlagsInv, Slot!OwnerInv, Slot!TaskInv, Slot!Granted,
    Slot!Transferring, Slot!Kill, Slot!TimeoutRestart, Slot!Pass, Slot!AutoOnly, Slot!On, Slot!Settle,
    Slot!Schedule, Slot!Active, Slot!Busy, Slot!Primary, Slot!Go, Slot!Fallback,
    Slot!Answer, Slot!lock, Slot!flash, Slot!auto, Slot!None, Slot!Ota, Slot!Writers
<1>8. CASE Slot!HandOff \/ Slot!ReadFails \/ Slot!Passed \/ Slot!TaskEnds \/ Slot!Stall \/
           Slot!Due
  BY <1>8 DEF Slot!IInv, Slot!FlagsInv, Slot!OwnerInv, Slot!TaskInv, Slot!Granted,
    Slot!Transferring, Slot!HandOff, Slot!Active, Slot!Busy, Slot!Go, Slot!On,
    Slot!ReadFails, Slot!Passed, Slot!TaskEnds, Slot!Stall, Slot!Due, Slot!lock, Slot!flash,
    Slot!auto, Slot!None, Slot!Ota, Slot!Writers
<1>9. CASE Slot!Time \/ Slot!Reset \/ Slot!Over
  BY <1>9 DEF Slot!IInv, Slot!FlagsInv, Slot!OwnerInv, Slot!TaskInv, Slot!Granted,
    Slot!Transferring, Slot!Time, Slot!On, Slot!Reset, Slot!Over, Slot!vars, Slot!lock,
    Slot!flash, Slot!auto, Slot!None, Slot!Ota, Slot!Writers
<1>10. CASE UNCHANGED Slot!vars
  BY <1>10 DEF Slot!IInv, Slot!FlagsInv, Slot!OwnerInv, Slot!TaskInv, Slot!Granted,
    Slot!Transferring, Slot!vars, Slot!lock, Slot!flash, Slot!auto, Slot!None, Slot!Ota,
    Slot!Writers
<1>. QED  BY <1>1, <1>2, <1>3, <1>4, <1>5, <1>6, <1>7, <1>8, <1>9, <1>10 DEF Slot!Next,
  Slot!Writer, Slot!ArduinoOTA, Slot!Loop, Slot!Task

\* The invariant holds at power-up,
LEMMA SlotInit == Slot!Init => Slot!IInv
<1>. SUFFICES ASSUME Slot!Init PROVE Slot!IInv
  OBVIOUS
<1>1. Slot!FlagsInv
  BY DEF Slot!Init, Slot!FlagsInv, Slot!Granted, Slot!Transferring, Slot!None, Slot!Ota,
    Slot!Writers
<1>2. Slot!OwnerInv /\ Slot!GrantInv /\ Slot!SlotInv
  BY DEF Slot!Init, Slot!OwnerInv, Slot!GrantInv, Slot!SlotInv, Slot!Granted,
    Slot!Transferring, Slot!None, Slot!Ota, Slot!Writers
<1>3. Slot!BootInv /\ Slot!TaskInv
  BY DEF Slot!Init, Slot!BootInv, Slot!TaskInv, Slot!None
<1>. QED  BY <1>1, <1>2, <1>3 DEF Slot!IInv

\* is kept by every step of the writers, ArduinoOTA, the loop and the update task,
LEMMA SlotNext ==
  ASSUME Slot!IInv, [Slot!Next]_(Slot!vars)
  PROVE  Slot!IInv'
<1>. QED  BY SlotFlags, SlotOwner, SlotGranted, SlotWritten, SlotBoots, SlotTask DEF
  Slot!IInv

\* and says that the slot is one writer's.
LEMMA SlotGives == Slot!IInv => Slot!TypeOK /\ Slot!OneImage /\ Slot!BootsWhole /\ Slot!NothingHeld
<1>. SUFFICES ASSUME Slot!IInv
              PROVE  Slot!TypeOK /\ Slot!OneImage /\ Slot!BootsWhole /\ Slot!NothingHeld
  OBVIOUS
<1>1. Slot!TypeOK
  BY DEF Slot!IInv, Slot!FlagsInv, Slot!OwnerInv, Slot!TypeOK, Slot!Granted
<1>2. Slot!OneImage
  <2>1. ASSUME NEW w \in Slot!Writers, image[w] \in {"begun", "some", "all", "ended"}
        PROVE  owner = w
    BY <2>1 DEF Slot!IInv, Slot!OwnerInv
  <2>2. ASSUME NEW w \in Slot!Writers, loop \in {"begun", "some", "all"}
        PROVE  image[w] \in {"idle", "claiming", "giving"}
    BY <2>2 DEF Slot!IInv, Slot!FlagsInv, Slot!GrantInv, Slot!Granted, Slot!Transferring
  <2>. QED  BY <2>1, <2>2 DEF Slot!IInv, Slot!SlotInv, Slot!OneImage
<1>3. Slot!BootsWhole
  BY DEF Slot!IInv, Slot!FlagsInv, Slot!SlotInv, Slot!BootInv, Slot!BootsWhole
<1>4. Slot!NothingHeld
  BY DEF Slot!IInv, Slot!TaskInv, Slot!NothingHeld, Slot!None
<1>. QED  BY <1>1, <1>2, <1>3, <1>4

\* However the claims, the transfers, the timeouts and the restarts interleave: one image
\* at a time goes into the slot, what boots is a whole image, and the update task does not
\* leave the update taken (OtaWriter.cpp, FirmwareUpdate.cpp, AutoUpdateService.cpp).
THEOREM SlotIsOnes ==
  Slot!Spec => [](Slot!TypeOK /\ Slot!OneImage /\ Slot!BootsWhole /\ Slot!NothingHeld)
<1>. QED  BY SlotInit, SlotNext, SlotGives, PTL DEF Slot!Spec

-----------------------------------------------------------------------------
(* The boot guard (BootGuard), for any limit and bounds: its invariant, one *)
(* lemma for each of its parts.                                             *)

\* What the parts of a record are made of.
LEMMA BootTypes ==
  ASSUME Guard!GuardAssumption
  PROVE  /\ Guard!Fresh \in Guard!Record /\ Guard!Nothing \in Guard!Copies
         /\ Guard!Zero \in [Guard!Blobs -> 0..MaxGen] /\ Guard!Zero \in [Guard!Blobs -> Nat]
  BY DEF Guard!GuardAssumption, Guard!Fresh, Guard!Record, Guard!Nothing,
    Guard!Copies, Guard!Zero, Guard!Blobs

\* A record's parts, and a record begun anew.
LEMMA BootFields ==
  ASSUME NEW r \in Guard!Record
  PROVE  /\ r.quick \in Nat /\ r.safe \in BOOLEAN
         /\ [r EXCEPT !.quick = 0] \in Guard!Record /\ [r EXCEPT !.quick = 0].quick = 0
         /\ [r EXCEPT !.quick = 0].safe = r.safe
         /\ [r EXCEPT !.quick = 0, !.safe = FALSE] \in Guard!Record
         /\ [r EXCEPT !.quick = 0, !.safe = FALSE].quick = 0
         /\ [r EXCEPT !.quick = 0, !.safe = FALSE].safe = FALSE
  BY DEF Guard!Record

\* A boot's count: one more after a crash, none left after a new chance.
LEMMA BootCounts ==
  ASSUME Guard!GuardAssumption, nvs.rec \in Guard!Record, NEW class, NEW newFw \in BOOLEAN
  PROVE  LET anew == newFw \/ class = "factory reset"
             r == Guard!Counted(class, newFw)
         IN /\ r \in Guard!Record
            /\ r.quick = (IF anew THEN 0 ELSE nvs.rec.quick) + (IF class = "crash" THEN 1 ELSE 0)
            /\ r.safe <=> (~anew /\ nvs.rec.safe) \/ r.quick >= Limit
<1>. DEFINE anew == newFw \/ class = "factory reset"
            c == Guard!Chance(class, newFw)
            n == c.quick + (IF class = "crash" THEN 1 ELSE 0)
            safe == c.safe \/ n >= Limit
<1>1. /\ c \in Guard!Record /\ c.quick = (IF anew THEN 0 ELSE nvs.rec.quick)
      /\ c.safe <=> ~anew /\ nvs.rec.safe
  <2>1. CASE anew
    <3>1. c = [nvs.rec EXCEPT !.quick = 0, !.safe = FALSE]
      BY <2>1 DEF Guard!Chance
    <3>. QED  BY <2>1, <3>1, BootFields
  <2>2. CASE ~anew
    <3>1. c = nvs.rec
      BY <2>2 DEF Guard!Chance
    <3>. QED  BY <2>2, <3>1, BootFields
  <2>. QED  BY <2>1, <2>2
<1>2. Guard!Counted(class, newFw) = [quick |-> n, safe |-> safe]
  BY DEF Guard!Counted
<1>. HIDE DEF c
<1>c. c \in Guard!Record
  BY <1>1
<1>d. c.quick \in Nat /\ c.safe \in BOOLEAN
  BY <1>c, BootFields
<1>3. n \in Nat /\ safe \in BOOLEAN
  BY <1>d
<1>. HIDE DEF n, safe, anew
<1>4. /\ Guard!Counted(class, newFw) \in Guard!Record
      /\ Guard!Counted(class, newFw).quick = n /\ Guard!Counted(class, newFw).safe = safe
  BY <1>2, <1>3 DEF Guard!Record
<1>. QED  BY <1>1, <1>3, <1>4 DEF n, safe, anew

\* A boot reads the stored record, counts itself and writes it back.
LEMMA BootBegun ==
  ASSUME Guard!GuardAssumption, Guard!TypeInv, Guard!Boot
  PROVE  /\ rec' \in Guard!Record /\ nvs' \in [rec : Guard!Record, failed : BOOLEAN]
         /\ crashes' \in Nat /\ boots' \in 0..MaxBoots /\ boots' = boots + 1
         /\ chip # "on" /\ chip' \in {"on", "loader"}
         /\ nvs.failed => nvs'.failed
         /\ ~nvs'.failed => nvs'.rec = rec'
         /\ nvs'.rec = rec' \/ nvs'.rec = nvs.rec
         /\ rec'.quick <= nvs.rec.quick + 1 /\ crashes' <= crashes + 1
         /\ Guard!Covers(nvs.rec) => Guard!Covers(rec)'
         /\ UNCHANGED <<now, saved, landed, held, at, kicked, flushing, hasJob, stable>>
<1>1. /\ nvs \in [rec : Guard!Record, failed : BOOLEAN] /\ nvs.rec \in Guard!Record
      /\ crashes \in Nat
      /\ boots \in Nat /\ MaxBoots \in Nat /\ Limit \in Nat /\ Limit > 0
      /\ nvs.rec.quick \in Nat /\ nvs.failed \in BOOLEAN
  BY DEF Guard!TypeInv, Guard!GuardAssumption, Guard!Record
<1>2. PICK class, newFw, ok, parked :
        /\ newFw \in BOOLEAN /\ ok \in BOOLEAN /\ parked \in BOOLEAN
        /\ rec' = Guard!Counted(class, newFw)
        /\ nvs' = (IF ok THEN [nvs EXCEPT !.rec = rec'] ELSE [nvs EXCEPT !.failed = TRUE])
        /\ crashes' = (IF newFw \/ class = "factory reset" THEN 0 ELSE crashes)
                      + (IF class = "crash" THEN 1 ELSE 0)
        /\ chip' = (IF parked /\ Guard!IntoLoader(class, rec') THEN "loader" ELSE "on")
  BY Zenon DEF Guard!Boot
<1>3. /\ chip # "on" /\ boots < MaxBoots /\ boots' = boots + 1
      /\ UNCHANGED <<now, saved, landed, held, at, kicked, flushing, hasJob, stable>>
  BY DEF Guard!Boot, Guard!gens, Guard!pump
<1>. DEFINE anew == newFw \/ class = "factory reset"
            one == IF class = "crash" THEN 1 ELSE 0
<1>c. /\ rec' \in Guard!Record /\ rec'.quick = (IF anew THEN 0 ELSE nvs.rec.quick) + one
      /\ rec'.safe <=> (~anew /\ nvs.rec.safe) \/ rec'.quick >= Limit
      /\ crashes' = (IF anew THEN 0 ELSE crashes) + one
  BY <1>1, <1>2, BootCounts
<1>d. anew \in BOOLEAN /\ one \in {0, 1}
  BY <1>2
<1>. HIDE DEF anew, one
<1>4. rec'.quick <= nvs.rec.quick + 1 /\ crashes' \in Nat /\ crashes' <= crashes + 1
  BY <1>1, <1>c, <1>d
<1>5. /\ nvs' \in [rec : Guard!Record, failed : BOOLEAN] /\ (nvs.failed => nvs'.failed)
      /\ (~nvs'.failed => nvs'.rec = rec') /\ (nvs'.rec = rec' \/ nvs'.rec = nvs.rec)
  <2>1. CASE ok
    BY <1>1, <1>2, <1>c, <2>1
  <2>2. CASE ~ok
    BY <1>1, <1>2, <1>c, <2>2
  <2>. QED  BY <2>1, <2>2
<1>6. ASSUME nvs.rec.quick >= crashes, crashes >= Limit => nvs.rec.safe
      PROVE  rec'.quick >= crashes' /\ (crashes' >= Limit => rec'.safe)
  <2>1. nvs.rec.safe \in BOOLEAN /\ rec'.safe \in BOOLEAN
    BY <1>1, <1>c, BootFields
  <2>2. CASE anew
    BY <1>1, <1>c, <1>d, <2>1, <2>2
  <2>3. CASE ~anew
    BY <1>1, <1>6, <1>c, <1>d, <2>1, <2>3
  <2>. QED  BY <2>2, <2>3
<1>7. Guard!Covers(nvs.rec) => Guard!Covers(rec)'
  BY <1>6 DEF Guard!Covers
<1>8. chip' \in {"on", "loader"}
  BY <1>2
<1>9. boots' \in 0..MaxBoots
  BY <1>1, <1>3
<1>. QED  BY <1>3, <1>4, <1>5, <1>7, <1>8, <1>9, <1>c

\* A change of a blob, on a shared task.
LEMMA BootChanged ==
  ASSUME Guard!GuardAssumption, Guard!TypeInv, NEW t \in Guard!Tasks, NEW b \in Guard!Blobs,
         Guard!Change(t, b)
  PROVE  /\ chip = "on" /\ at[t] = "idle" /\ at'[t] = "pass"
         /\ at' \in [Guard!Tasks -> Guard!Places]
         /\ \A u \in Guard!Tasks \ {t} : at'[u] = at[u]
         /\ now' \in [Guard!Blobs -> 0..MaxGen] /\ now'[b] = now[b] + 1
         /\ \A c \in Guard!Blobs \ {b} : now'[c] = now[c]
         /\ UNCHANGED <<nvs, saved, landed, held, kicked, flushing, hasJob, chip, boots>>
<1>1. /\ chip = "on" /\ at[t] = "idle" /\ at' = [at EXCEPT ![t] = "pass"]
      /\ UNCHANGED <<nvs, saved, landed, held, kicked, flushing, hasJob, chip, boots>>
  BY DEF Guard!Change, Guard!Goto, Guard!Still
<1>2. now[b] < MaxGen /\ now' = [now EXCEPT ![b] = now[b] + 1]
  BY DEF Guard!Change
<1>3. /\ at' \in [Guard!Tasks -> Guard!Places] /\ at'[t] = "pass"
      /\ \A u \in Guard!Tasks \ {t} : at'[u] = at[u]
  BY <1>1 DEF Guard!TypeInv, Guard!Places
<1>4. now[b] \in 0..MaxGen /\ now \in [Guard!Blobs -> 0..MaxGen] /\ MaxGen \in Nat
  BY DEF Guard!TypeInv, Guard!GuardAssumption
<1>5. now[b] + 1 \in 0..MaxGen
  BY <1>2, <1>4
<1>6. /\ now' \in [Guard!Blobs -> 0..MaxGen] /\ now'[b] = now[b] + 1
      /\ \A c \in Guard!Blobs \ {b} : now'[c] = now[c]
  BY <1>2, <1>4, <1>5
<1>. QED  BY <1>1, <1>3, <1>6

\* A task takes a copy of what changed, when no other has one.
LEMMA BootFetched ==
  ASSUME Guard!TypeInv, Guard!GuardAssumption, NEW t \in Guard!Tasks, Guard!Fetches(t)
  PROVE  /\ chip = "on" /\ at[t] # "writing" /\ at' \in [Guard!Tasks -> Guard!Places]
         /\ at'[t] = "writing"
         /\ \A u \in Guard!Tasks \ {t} : at'[u] = at[u] /\ held'[u] = held[u]
         /\ \A u \in Guard!Tasks : held[u] = Guard!Nothing
         /\ held' \in [Guard!Tasks -> Guard!Copies] /\ held'[t].blob \in Guard!Blobs
         /\ held'[t].gen = now[held'[t].blob]
         /\ held'[t].blob = "rec" => held'[t].rec = rec
         /\ held'[t].rec = rec \/ held'[t].rec = Guard!Fresh
         /\ UNCHANGED <<Guard!gens, nvs, rec, stable, crashes, hasJob, chip, boots>>
<1>1. PICK from \in Guard!Places \ {"writing"} : Guard!Copy(t, from, "writing")
  BY DEF Guard!Fetches
<1>2. /\ chip = "on" /\ at[t] # "writing" /\ at' = [at EXCEPT ![t] = "writing"]
      /\ \A u \in Guard!Tasks : held[u] = Guard!Nothing
      /\ held' = [held EXCEPT ![t] = [blob |-> Guard!Next1, gen |-> now[Guard!Next1],
                                       rec |-> IF Guard!Next1 = "rec" THEN rec ELSE Guard!Fresh]]
      /\ UNCHANGED <<Guard!gens, nvs, rec, stable, crashes, hasJob, chip, boots>>
  BY <1>1 DEF Guard!Copy, Guard!Goto, Guard!Free, Guard!Quiet,
    Guard!Still
<1>3. /\ at' \in [Guard!Tasks -> Guard!Places] /\ at'[t] = "writing"
      /\ \A u \in Guard!Tasks \ {t} : at'[u] = at[u]
  BY <1>2 DEF Guard!TypeInv, Guard!Places
<1>4. /\ Guard!Next1 \in Guard!Blobs /\ now[Guard!Next1] \in Nat /\ rec \in Guard!Record
      /\ Guard!Fresh \in Guard!Record
  BY BootTypes DEF Guard!Next1, Guard!Blobs, Guard!TypeInv,
    Guard!GuardAssumption
<1>5. [blob |-> Guard!Next1, gen |-> now[Guard!Next1],
       rec |-> IF Guard!Next1 = "rec" THEN rec ELSE Guard!Fresh] \in Guard!Copies
  BY <1>4 DEF Guard!Copies
<1>. QED  BY <1>2, <1>3, <1>4, <1>5 DEF Guard!TypeInv

\* A copy is written, or given up.
LEMMA BootLanded ==
  ASSUME Guard!TypeInv, Guard!HeldInv, NEW t \in Guard!Tasks, Guard!Lands(t)
  PROVE  /\ chip = "on" /\ at[t] = "writing" /\ at' \in [Guard!Tasks -> Guard!Places]
         /\ at'[t] # "writing"
         /\ \A u \in Guard!Tasks \ {t} : at'[u] = at[u] /\ held'[u] = held[u]
         /\ held' \in [Guard!Tasks -> Guard!Copies] /\ held'[t] = Guard!Nothing
         /\ held[t].blob \in Guard!Blobs
         /\ saved' = [saved EXCEPT ![held[t].blob] = held[t].gen]
         /\ landed' = [landed EXCEPT ![held[t].blob] = held[t].gen] \/ landed' = landed
         /\ nvs' \in [rec : Guard!Record, failed : BOOLEAN] /\ (nvs.failed => nvs'.failed)
         /\ nvs'.rec = nvs.rec \/ (held[t].blob = "rec" /\ nvs'.rec = held[t].rec)
         /\ UNCHANGED <<now, rec, stable, crashes, hasJob, chip, boots>>
<1>1. PICK to \in Guard!Places \ {"writing"} : Guard!Written(t, "writing", to)
  BY DEF Guard!Lands
<1>2. /\ chip = "on" /\ at[t] = "writing" /\ at' = [at EXCEPT ![t] = to]
      /\ held' = [held EXCEPT ![t] = Guard!Nothing]
      /\ saved' = [saved EXCEPT ![held[t].blob] = held[t].gen]
      /\ UNCHANGED <<now, rec, stable, crashes, hasJob, chip, boots>>
  BY <1>1 DEF Guard!Written, Guard!Goto, Guard!Still
<1>3. /\ at' \in [Guard!Tasks -> Guard!Places] /\ at'[t] # "writing"
      /\ \A u \in Guard!Tasks \ {t} : at'[u] = at[u]
  BY <1>2 DEF Guard!TypeInv, Guard!Places
<1>4. /\ held[t] \in Guard!Copies /\ held[t].blob \in Guard!Blobs
      /\ held[t].rec \in Guard!Record
  BY <1>2 DEF Guard!TypeInv, Guard!HeldInv, Guard!Copies
<1>5. Guard!Nothing \in Guard!Copies
  BY DEF Guard!Nothing, Guard!Copies, Guard!Fresh, Guard!Record
<1>6. /\ held' \in [Guard!Tasks -> Guard!Copies] /\ held'[t] = Guard!Nothing
      /\ \A u \in Guard!Tasks \ {t} : held'[u] = held[u]
  BY <1>2, <1>5 DEF Guard!TypeInv
<1>7. /\ landed' = [landed EXCEPT ![held[t].blob] = held[t].gen] \/ landed' = landed
      /\ nvs' \in [rec : Guard!Record, failed : BOOLEAN] /\ (nvs.failed => nvs'.failed)
      /\ nvs'.rec = nvs.rec \/ (held[t].blob = "rec" /\ nvs'.rec = held[t].rec)
  <2>1. nvs \in [rec : Guard!Record, failed : BOOLEAN]
    BY DEF Guard!TypeInv
  <2>2. CASE landed' = landed /\ nvs' = [nvs EXCEPT !.failed = TRUE]
    BY <2>1, <2>2
  <2>3. CASE /\ landed' = [landed EXCEPT ![held[t].blob] = held[t].gen]
             /\ nvs' = IF held[t].blob = "rec" THEN [nvs EXCEPT !.rec = held[t].rec] ELSE nvs
    BY <1>4, <2>1, <2>3
  <2>. QED  BY <1>1, <2>2, <2>3 DEF Guard!Written
<1>. QED  BY <1>2, <1>3, <1>4, <1>6, <1>7


\* A change of the record is a new run: no quick boot.
LEMMA BootRenewed ==
  ASSUME Guard!GuardAssumption, Guard!TypeInv, Guard!MarkStable \/ Guard!ClearSafe
  PROVE  /\ rec' \in Guard!Record /\ rec'.quick = 0 /\ crashes' = 0 /\ stable' \in BOOLEAN
         /\ \E t \in Guard!Shared : Guard!Change(t, "rec")
<1>1. rec \in Guard!Record /\ stable \in BOOLEAN
  BY DEF Guard!TypeInv
<1>2. /\ rec' = [rec EXCEPT !.quick = 0] \/ rec' = [rec EXCEPT !.quick = 0, !.safe = FALSE]
      /\ crashes' = 0 /\ (stable' = TRUE \/ stable' = stable)
      /\ Guard!Change("loop", "rec") \/ Guard!Change("web", "rec")
  BY DEF Guard!MarkStable, Guard!ClearSafe
<1>3. rec' \in Guard!Record /\ rec'.quick = 0
  BY <1>1, <1>2, BootFields
<1>. QED  BY <1>1, <1>2, <1>3 DEF Guard!Shared

\* A reset leaves what is in NVS.
LEMMA BootRestarted ==
  ASSUME Guard!GuardAssumption, Guard!TypeInv, Guard!Reset
  PROVE  /\ chip' = "reset" /\ rec' \in Guard!Record /\ rec'.quick = 0
         /\ stable' \in BOOLEAN
         /\ now' = Guard!Zero /\ saved' = Guard!Zero /\ landed' = Guard!Zero
         /\ at' \in [Guard!Tasks -> Guard!Places]
         /\ held' \in [Guard!Tasks -> Guard!Copies]
         /\ \A t \in Guard!Tasks : held'[t] = Guard!Nothing /\ at'[t] = "idle"
         /\ kicked' = FALSE /\ flushing' = FALSE
         /\ UNCHANGED <<nvs, hasJob, crashes, boots>>
<1>1. /\ held' = [t \in Guard!Tasks |-> Guard!Nothing]
      /\ at' = [t \in Guard!Tasks |-> "idle"] /\ rec' = Guard!Fresh
  BY DEF Guard!Reset
<1>2. Guard!Fresh \in Guard!Record /\ Guard!Fresh.quick = 0
  BY DEF Guard!Fresh, Guard!Record
<1>. QED  BY <1>1, <1>2, BootTypes DEF Guard!Reset, Guard!Places

\* The other steps of a task.
LEMMA BootWalked ==
  ASSUME Guard!TypeInv, NEW t \in Guard!Tasks, Guard!Walks(t)
  PROVE  /\ chip = "on" /\ at[t] # "writing" /\ at' \in [Guard!Tasks -> Guard!Places]
         /\ at'[t] # "writing"
         /\ \A u \in Guard!Tasks \ {t} : at'[u] = at[u]
         /\ UNCHANGED <<Guard!gens, held, nvs, rec, stable, crashes, hasJob, chip, boots>>
<1>1. PICK from, to \in Guard!Places \ {"writing"} :
        /\ chip = "on" /\ at[t] = from /\ at' = [at EXCEPT ![t] = to]
        /\ UNCHANGED <<Guard!gens, held, nvs, rec, stable, crashes, hasJob, chip, boots>>
  BY DEF Guard!Walks, Guard!Goto, Guard!Quiet, Guard!Still
<1>. QED  BY <1>1 DEF Guard!TypeInv, Guard!Places


\* What a step can be.
LEMMA BootKinds ==
  ASSUME [Guard!Next]_(Guard!vars)
  PROVE  \/ Guard!Boot \/ Guard!Reset \/ Guard!MarkStable \/ Guard!TimeKnown
         \/ Guard!ClearSafe \/ UNCHANGED Guard!vars
         \/ \E t \in Guard!Tasks : Guard!Fetches(t) \/ Guard!Lands(t) \/ Guard!Walks(t)
<1>1. CASE Guard!Boot \/ Guard!Reset \/ Guard!MarkStable \/ Guard!TimeKnown
           \/ Guard!ClearSafe \/ Guard!Retry
  BY <1>1 DEF Guard!Fetches, Guard!Lands, Guard!Walks, Guard!Places,
    Guard!Shared, Guard!Tasks, Guard!Boot, Guard!Counted, Guard!Chance,
    Guard!Reset, Guard!MarkStable, Guard!Change, Guard!Goto,
    Guard!TimeKnown, Guard!ClearSafe, Guard!Retry, Guard!Move,
    Guard!gens, Guard!pump, Guard!mode, Guard!Still, Guard!Quiet
<1>2. CASE Guard!JobWakes \/ Guard!Look \/ Guard!Slot \/ Guard!JobDone \/
           Guard!Flush \/ Guard!FlushNext
  BY <1>2 DEF Guard!Fetches, Guard!Lands, Guard!Walks, Guard!Places,
    Guard!Shared, Guard!Tasks, Guard!JobWakes, Guard!Goto, Guard!Look,
    Guard!Move, Guard!Slot, Guard!Copy, Guard!JobDone, Guard!Written,
    Guard!Flush, Guard!FlushNext, Guard!gens, Guard!pump, Guard!mode,
    Guard!Still, Guard!Quiet
<1>3. CASE Guard!FlushDone \/ Guard!Flushed \/ Guard!Over
  BY <1>3 DEF Guard!Fetches, Guard!Lands, Guard!Walks, Guard!Places,
    Guard!Shared, Guard!Tasks, Guard!FlushDone, Guard!Written,
    Guard!Goto, Guard!Flushed, Guard!Rest, Guard!Over, Guard!vars,
    Guard!gens, Guard!pump, Guard!mode, Guard!Still, Guard!Quiet
<1>4. ASSUME NEW t \in Guard!Shared,
             Guard!Pass(t) \/ Guard!PassDone(t) \/ Guard!Saved(t)
      PROVE  \/ Guard!Boot \/ Guard!Reset \/ Guard!MarkStable \/ Guard!TimeKnown
             \/ Guard!ClearSafe \/ UNCHANGED Guard!vars
         \/ \E v \in Guard!Tasks : Guard!Fetches(v) \/ Guard!Lands(v) \/ Guard!Walks(v)
  BY <1>4 DEF Guard!Fetches, Guard!Lands, Guard!Walks, Guard!Places,
    Guard!Shared, Guard!Tasks, Guard!Pass, Guard!Copy, Guard!Goto,
    Guard!Move, Guard!PassDone, Guard!Written, Guard!Saved, Guard!Kicks,
    Guard!Pending, Guard!gens, Guard!pump, Guard!mode, Guard!Still,
    Guard!Quiet
<1>5. CASE UNCHANGED Guard!vars
  BY <1>5 DEF Guard!vars, Guard!gens, Guard!pump, Guard!mode,
    Guard!Still, Guard!Quiet
<1>. QED  BY <1>1, <1>2, <1>3, <1>4, <1>5 DEF Guard!Next

\* The state keeps its types.
LEMMA BootTypeStep ==
  ASSUME Guard!GuardAssumption, Guard!IInv, [Guard!Next]_(Guard!vars)
  PROVE  Guard!TypeInv'
<1>1. CASE Guard!Boot
  BY <1>1, BootBegun DEF Guard!IInv, Guard!TypeInv, Guard!GuardAssumption,
    Guard!gens
<1>2. CASE Guard!Reset
  BY <1>2, BootRestarted, BootTypes DEF Guard!IInv, Guard!TypeInv,
    Guard!GuardAssumption, Guard!gens
<1>3. CASE Guard!MarkStable
  BY <1>3, BootRenewed, BootChanged DEF Guard!IInv, Guard!TypeInv,
    Guard!GuardAssumption, Guard!MarkStable, Guard!Shared, Guard!Tasks,
    Guard!Blobs, Guard!gens
<1>4. CASE Guard!TimeKnown
  BY <1>4, BootChanged DEF Guard!IInv, Guard!TypeInv, Guard!GuardAssumption,
    Guard!TimeKnown, Guard!Shared, Guard!Tasks, Guard!Blobs, Guard!gens
<1>5. CASE Guard!ClearSafe
  BY <1>5, BootRenewed, BootChanged DEF Guard!IInv, Guard!TypeInv,
    Guard!GuardAssumption, Guard!ClearSafe, Guard!Shared, Guard!Tasks,
    Guard!Blobs, Guard!gens
<1>6. ASSUME NEW t \in Guard!Tasks, Guard!Fetches(t) PROVE Guard!TypeInv'
  BY <1>6, BootFetched DEF Guard!IInv, Guard!TypeInv, Guard!GuardAssumption,
    Guard!Copies, Guard!gens
<1>7. ASSUME NEW t \in Guard!Tasks, Guard!Lands(t) PROVE Guard!TypeInv'
  BY <1>7, BootLanded DEF Guard!IInv, Guard!TypeInv, Guard!GuardAssumption,
    Guard!Copies, Guard!gens
<1>8. ASSUME NEW t \in Guard!Tasks, Guard!Walks(t) PROVE Guard!TypeInv'
  BY <1>8, BootWalked DEF Guard!IInv, Guard!TypeInv, Guard!GuardAssumption,
    Guard!gens
<1>9. CASE UNCHANGED Guard!vars
  BY <1>9 DEF Guard!IInv, Guard!TypeInv, Guard!GuardAssumption,
    Guard!pump, Guard!mode, Guard!vars, Guard!gens
<1>. QED  BY BootKinds, <1>1, <1>2, <1>3, <1>4, <1>5, <1>6, <1>7, <1>8, <1>9

\* One task at a time holds a copy.
LEMMA BootHeldStep ==
  ASSUME Guard!GuardAssumption, Guard!IInv, [Guard!Next]_(Guard!vars)
  PROVE  Guard!HeldInv'
<1>1. CASE Guard!Boot
  BY <1>1, BootBegun DEF Guard!IInv, Guard!TypeInv, Guard!HeldInv,
    Guard!Nothing, Guard!gens
<1>2. CASE Guard!Reset
  BY <1>2, BootRestarted, BootTypes DEF Guard!IInv, Guard!TypeInv,
    Guard!HeldInv, Guard!Nothing, Guard!gens
<1>3. CASE Guard!MarkStable
  BY <1>3, BootRenewed, BootChanged DEF Guard!IInv, Guard!TypeInv,
    Guard!HeldInv, Guard!MarkStable, Guard!Shared, Guard!Tasks,
    Guard!Blobs, Guard!Nothing, Guard!gens
<1>4. CASE Guard!TimeKnown
  BY <1>4, BootChanged DEF Guard!IInv, Guard!TypeInv, Guard!HeldInv,
    Guard!TimeKnown, Guard!Shared, Guard!Tasks, Guard!Blobs,
    Guard!Nothing, Guard!gens
<1>5. CASE Guard!ClearSafe
  BY <1>5, BootRenewed, BootChanged DEF Guard!IInv, Guard!TypeInv,
    Guard!HeldInv, Guard!ClearSafe, Guard!Shared, Guard!Tasks,
    Guard!Blobs, Guard!Nothing, Guard!gens
<1>6. ASSUME NEW t \in Guard!Tasks, Guard!Fetches(t) PROVE Guard!HeldInv'
  <2>1. /\ \A u \in Guard!Tasks \ {t} : at'[u] = at[u] /\ held'[u] = held[u]
        /\ \A u \in Guard!Tasks : held[u] = Guard!Nothing
        /\ at'[t] = "writing" /\ held'[t].blob \in Guard!Blobs
    BY <1>6, BootFetched DEF Guard!IInv
  <2>2. \A u \in Guard!Tasks : at[u] # "writing"
    BY <2>1 DEF Guard!IInv, Guard!HeldInv, Guard!Nothing
  <2>3. held'[t].blob # "none"
    BY <2>1 DEF Guard!Blobs
  <2>. QED  BY <2>1, <2>2, <2>3 DEF Guard!HeldInv
<1>7. ASSUME NEW t \in Guard!Tasks, Guard!Lands(t) PROVE Guard!HeldInv'
  BY <1>7, BootLanded DEF Guard!IInv, Guard!TypeInv, Guard!HeldInv,
    Guard!Nothing, Guard!gens
<1>8. ASSUME NEW t \in Guard!Tasks, Guard!Walks(t) PROVE Guard!HeldInv'
  BY <1>8, BootWalked DEF Guard!IInv, Guard!TypeInv, Guard!HeldInv,
    Guard!Nothing, Guard!gens
<1>9. CASE UNCHANGED Guard!vars
  BY <1>9 DEF Guard!IInv, Guard!TypeInv, Guard!HeldInv, Guard!pump,
    Guard!mode, Guard!vars, Guard!gens
<1>. QED  BY BootKinds, <1>1, <1>2, <1>3, <1>4, <1>5, <1>6, <1>7, <1>8, <1>9

\* Copies land in their order.
LEMMA BootGenStep ==
  ASSUME Guard!GuardAssumption, Guard!IInv, [Guard!Next]_(Guard!vars)
  PROVE  Guard!GenInv'
<1>1. CASE Guard!Boot
  BY <1>1, BootBegun DEF Guard!IInv, Guard!TypeInv, Guard!GuardAssumption,
    Guard!HeldInv, Guard!GenInv, Guard!gens
<1>2. CASE Guard!Reset
  <2>. USE <1>2
  <2>1. /\ chip' = "reset" /\ UNCHANGED <<nvs, crashes, boots>> /\ rec'.quick = 0
        /\ now' = Guard!Zero /\ saved' = Guard!Zero /\ landed' = Guard!Zero
        /\ \A t \in Guard!Tasks : held'[t] = Guard!Nothing /\ at'[t] = "idle"
    BY BootRestarted DEF Guard!IInv
  <2>. QED  BY <1>2, <2>1 DEF Guard!GenInv, Guard!Zero
<1>3. CASE Guard!MarkStable \/ Guard!ClearSafe
  <2>1. PICK t \in Guard!Shared : Guard!Change(t, "rec")
    BY <1>3, BootRenewed DEF Guard!IInv
  <2>2. /\ rec'.quick = 0 /\ crashes' = 0
        /\ now' \in [Guard!Blobs -> 0..MaxGen] /\ now'["rec"] = now["rec"] + 1
        /\ now'["hist"] = now["hist"]
        /\ at'[t] = "pass" /\ \A u \in Guard!Tasks \ {t} : at'[u] = at[u]
        /\ UNCHANGED <<nvs, saved, landed, held, chip, boots>>
    BY <1>3, <2>1, BootRenewed, BootChanged DEF Guard!IInv, Guard!Shared,
      Guard!Tasks, Guard!Blobs
  <2>9. /\ now \in [Guard!Blobs -> Nat] /\ saved \in [Guard!Blobs -> Nat]
        /\ landed \in [Guard!Blobs -> Nat]
        /\ \A u \in Guard!Tasks : held[u].gen \in Nat /\ held[u].blob \in Guard!Blobs \cup {"none"}
    BY DEF Guard!IInv, Guard!TypeInv, Guard!Copies, Guard!GuardAssumption
  <2>. QED  BY <1>3, <2>1, <2>2, <2>9 DEF Guard!IInv, Guard!GenInv,
    Guard!HeldInv, Guard!Blobs
<1>4. CASE Guard!TimeKnown
  <2>1. /\ now'["hist"] = now["hist"] + 1 /\ now'["rec"] = now["rec"]
        /\ at'["loop"] = "pass" /\ \A u \in Guard!Tasks \ {"loop"} : at'[u] = at[u]
        /\ UNCHANGED <<nvs, saved, landed, held, chip, boots, rec, crashes>>
    BY <1>4, BootChanged DEF Guard!IInv, Guard!TimeKnown, Guard!Shared,
      Guard!Tasks, Guard!Blobs
  <2>9. /\ now \in [Guard!Blobs -> Nat] /\ saved \in [Guard!Blobs -> Nat]
        /\ landed \in [Guard!Blobs -> Nat]
        /\ \A u \in Guard!Tasks : held[u].gen \in Nat /\ held[u].blob \in Guard!Blobs \cup {"none"}
    BY DEF Guard!IInv, Guard!TypeInv, Guard!Copies, Guard!GuardAssumption
  <2>. QED  BY <1>4, <2>1, <2>9 DEF Guard!IInv, Guard!GenInv, Guard!HeldInv,
    Guard!Blobs
<1>5. ASSUME NEW t \in Guard!Tasks, Guard!Fetches(t) PROVE Guard!GenInv'
  BY <1>5, BootFetched DEF Guard!IInv, Guard!TypeInv, Guard!GuardAssumption,
    Guard!HeldInv, Guard!GenInv, Guard!Copies, Guard!gens
<1>6. ASSUME NEW t \in Guard!Tasks, Guard!Lands(t) PROVE Guard!GenInv'
  <2>1. /\ at[t] = "writing" /\ at'[t] # "writing"
        /\ \A u \in Guard!Tasks \ {t} : at'[u] = at[u] /\ held'[u] = held[u]
        /\ held[t].blob \in Guard!Blobs
        /\ saved' = [saved EXCEPT ![held[t].blob] = held[t].gen]
        /\ landed' = [landed EXCEPT ![held[t].blob] = held[t].gen] \/ landed' = landed
        /\ UNCHANGED now
    BY <1>6, BootLanded DEF Guard!IInv
  <2>9. /\ now \in [Guard!Blobs -> Nat] /\ saved \in [Guard!Blobs -> Nat]
        /\ landed \in [Guard!Blobs -> Nat]
        /\ \A u \in Guard!Tasks : held[u].gen \in Nat /\ held[u].blob \in Guard!Blobs \cup {"none"}
    BY DEF Guard!IInv, Guard!TypeInv, Guard!Copies, Guard!GuardAssumption
  <2>2. \A u \in Guard!Tasks : at'[u] # "writing"
    BY <2>1 DEF Guard!IInv, Guard!HeldInv
  <2>. QED  BY <1>6, <2>1, <2>2, <2>9 DEF Guard!IInv, Guard!GenInv
<1>7. ASSUME NEW t \in Guard!Tasks, Guard!Walks(t) PROVE Guard!GenInv'
  BY <1>7, BootWalked DEF Guard!IInv, Guard!TypeInv, Guard!GuardAssumption,
    Guard!HeldInv, Guard!GenInv, Guard!gens
<1>8. CASE UNCHANGED Guard!vars
  BY <1>8 DEF Guard!IInv, Guard!TypeInv, Guard!GuardAssumption,
    Guard!HeldInv, Guard!GenInv, Guard!pump, Guard!mode, Guard!vars,
    Guard!gens
<1>. QED  BY BootKinds, <1>1, <1>2, <1>3, <1>4, <1>5, <1>6, <1>7, <1>8

\* The crash run stays in every copy.
LEMMA BootRunStep ==
  ASSUME Guard!GuardAssumption, Guard!IInv, [Guard!Next]_(Guard!vars)
  PROVE  Guard!RunInv'
<1>1. CASE Guard!Boot
  BY <1>1, BootBegun DEF Guard!IInv, Guard!TypeInv, Guard!GuardAssumption,
    Guard!HeldInv, Guard!RunInv, Guard!Covers, Guard!Nothing,
    Guard!OffInv, Guard!gens
<1>2. CASE Guard!Reset
  <2>. USE <1>2
  <2>1. /\ chip' = "reset" /\ UNCHANGED <<nvs, crashes, boots>> /\ rec'.quick = 0
        /\ now' = Guard!Zero /\ saved' = Guard!Zero /\ landed' = Guard!Zero
        /\ \A t \in Guard!Tasks : held'[t] = Guard!Nothing /\ at'[t] = "idle"
    BY BootRestarted DEF Guard!IInv
  <2>. QED  BY <1>2, <2>1 DEF Guard!IInv, Guard!RunInv, Guard!Covers,
    Guard!Nothing
<1>3. CASE Guard!MarkStable \/ Guard!ClearSafe
  <2>1. PICK t \in Guard!Shared : Guard!Change(t, "rec")
    BY <1>3, BootRenewed DEF Guard!IInv
  <2>2. /\ rec'.quick = 0 /\ crashes' = 0
        /\ now' \in [Guard!Blobs -> 0..MaxGen] /\ now'["rec"] = now["rec"] + 1
        /\ now'["hist"] = now["hist"]
        /\ at'[t] = "pass" /\ \A u \in Guard!Tasks \ {t} : at'[u] = at[u]
        /\ UNCHANGED <<nvs, saved, landed, held, chip, boots>>
    BY <1>3, <2>1, BootRenewed, BootChanged DEF Guard!IInv, Guard!Shared,
      Guard!Tasks, Guard!Blobs
  <2>8. \A r \in Guard!Record : r.quick \in Nat
    BY DEF Guard!Record
  <2>9. /\ nvs.rec.quick \in Nat /\ rec.quick \in Nat /\ boots \in Nat /\ crashes \in Nat
        /\ Limit \in Nat /\ Limit > 0
        /\ \A u \in Guard!Tasks : held[u].rec.quick \in Nat
    BY <2>8 DEF Guard!IInv, Guard!TypeInv, Guard!Copies,
      Guard!GuardAssumption
  <2>. QED  BY <1>3, <2>2, <2>9 DEF Guard!RunInv, Guard!Covers
<1>4. CASE Guard!TimeKnown
  <2>1. /\ now'["hist"] = now["hist"] + 1 /\ now'["rec"] = now["rec"]
        /\ at'["loop"] = "pass" /\ \A u \in Guard!Tasks \ {"loop"} : at'[u] = at[u]
        /\ UNCHANGED <<nvs, saved, landed, held, chip, boots, rec, crashes>>
    BY <1>4, BootChanged DEF Guard!IInv, Guard!TimeKnown, Guard!Shared,
      Guard!Tasks, Guard!Blobs
  <2>. QED  BY <1>4, <2>1 DEF Guard!IInv, Guard!RunInv, Guard!Covers
<1>5. ASSUME NEW t \in Guard!Tasks, Guard!Fetches(t) PROVE Guard!RunInv'
  BY <1>5, BootFetched DEF Guard!IInv, Guard!TypeInv, Guard!GuardAssumption,
    Guard!HeldInv, Guard!RunInv, Guard!Covers, Guard!Nothing, Guard!gens
<1>6. ASSUME NEW t \in Guard!Tasks, Guard!Lands(t) PROVE Guard!RunInv'
  BY <1>6, BootLanded DEF Guard!IInv, Guard!TypeInv, Guard!GuardAssumption,
    Guard!HeldInv, Guard!RunInv, Guard!Covers, Guard!Nothing, Guard!gens
<1>7. ASSUME NEW t \in Guard!Tasks, Guard!Walks(t) PROVE Guard!RunInv'
  BY <1>7, BootWalked DEF Guard!IInv, Guard!TypeInv, Guard!GuardAssumption,
    Guard!HeldInv, Guard!RunInv, Guard!Covers, Guard!Nothing, Guard!gens
<1>8. CASE UNCHANGED Guard!vars
  BY <1>8 DEF Guard!IInv, Guard!TypeInv, Guard!GuardAssumption,
    Guard!HeldInv, Guard!RunInv, Guard!Covers, Guard!pump, Guard!mode,
    Guard!vars, Guard!gens
<1>. QED  BY BootKinds, <1>1, <1>2, <1>3, <1>4, <1>5, <1>6, <1>7, <1>8

\* The run is no longer than the boots.
LEMMA BootCountStep ==
  ASSUME Guard!GuardAssumption, Guard!IInv, [Guard!Next]_(Guard!vars)
  PROVE  Guard!CountInv'
<1>1. CASE Guard!Boot
  BY <1>1, BootBegun DEF Guard!IInv, Guard!TypeInv, Guard!GuardAssumption,
    Guard!HeldInv, Guard!CountInv, Guard!OffInv, Guard!Copies,
    Guard!Record, Guard!gens
<1>2. CASE Guard!Reset
  <2>. USE <1>2
  <2>1. /\ chip' = "reset" /\ UNCHANGED <<nvs, crashes, boots>> /\ rec'.quick = 0
        /\ now' = Guard!Zero /\ saved' = Guard!Zero /\ landed' = Guard!Zero
        /\ \A t \in Guard!Tasks : held'[t] = Guard!Nothing /\ at'[t] = "idle"
    BY BootRestarted DEF Guard!IInv
  <2>8. \A r \in Guard!Record : r.quick \in Nat
    BY DEF Guard!Record
  <2>9. /\ nvs.rec.quick \in Nat /\ rec.quick \in Nat /\ boots \in Nat /\ crashes \in Nat
        /\ Limit \in Nat /\ Limit > 0
        /\ \A u \in Guard!Tasks : held[u].rec.quick \in Nat
    BY <2>8 DEF Guard!IInv, Guard!TypeInv, Guard!Copies,
      Guard!GuardAssumption
  <2>. QED  BY <1>2, <2>1, <2>9 DEF Guard!IInv, Guard!CountInv, Guard!Nothing,
    Guard!Fresh
<1>3. CASE Guard!MarkStable
  BY <1>3, BootRenewed, BootChanged DEF Guard!IInv, Guard!TypeInv,
    Guard!GuardAssumption, Guard!HeldInv, Guard!CountInv, Guard!MarkStable,
    Guard!Shared, Guard!Tasks, Guard!Blobs, Guard!gens
<1>4. CASE Guard!TimeKnown
  <2>1. /\ now'["hist"] = now["hist"] + 1 /\ now'["rec"] = now["rec"]
        /\ at'["loop"] = "pass" /\ \A u \in Guard!Tasks \ {"loop"} : at'[u] = at[u]
        /\ UNCHANGED <<nvs, saved, landed, held, chip, boots, rec, crashes>>
    BY <1>4, BootChanged DEF Guard!IInv, Guard!TimeKnown, Guard!Shared,
      Guard!Tasks, Guard!Blobs
  <2>. QED  BY <1>4, <2>1 DEF Guard!IInv, Guard!CountInv
<1>5. CASE Guard!ClearSafe
  BY <1>5, BootRenewed, BootChanged DEF Guard!IInv, Guard!TypeInv,
    Guard!GuardAssumption, Guard!HeldInv, Guard!CountInv, Guard!ClearSafe,
    Guard!Shared, Guard!Tasks, Guard!Blobs, Guard!gens
<1>6. ASSUME NEW t \in Guard!Tasks, Guard!Fetches(t) PROVE Guard!CountInv'
  <2>1. /\ UNCHANGED <<nvs, rec, crashes, boots>>
        /\ \A u \in Guard!Tasks \ {t} : held'[u] = held[u]
        /\ held'[t].rec = rec \/ held'[t].rec = Guard!Fresh
    BY <1>6, BootFetched DEF Guard!IInv
  <2>8. \A r \in Guard!Record : r.quick \in Nat
    BY DEF Guard!Record
  <2>9. /\ nvs.rec.quick \in Nat /\ rec.quick \in Nat /\ boots \in Nat /\ crashes \in Nat
        /\ Limit \in Nat /\ Limit > 0
        /\ \A u \in Guard!Tasks : held[u].rec.quick \in Nat
    BY <2>8 DEF Guard!IInv, Guard!TypeInv, Guard!Copies,
      Guard!GuardAssumption
  <2>. QED  BY <1>6, <2>1, <2>9 DEF Guard!IInv, Guard!CountInv, Guard!Fresh
<1>7. ASSUME NEW t \in Guard!Tasks, Guard!Lands(t) PROVE Guard!CountInv'
  <2>1. /\ UNCHANGED <<rec, crashes, boots>>
        /\ \A u \in Guard!Tasks \ {t} : held'[u] = held[u]
        /\ held'[t] = Guard!Nothing /\ (nvs'.rec = nvs.rec \/ nvs'.rec = held[t].rec)
    BY <1>7, BootLanded DEF Guard!IInv
  <2>8. \A r \in Guard!Record : r.quick \in Nat
    BY DEF Guard!Record
  <2>9. /\ nvs.rec.quick \in Nat /\ rec.quick \in Nat /\ boots \in Nat /\ crashes \in Nat
        /\ Limit \in Nat /\ Limit > 0
        /\ \A u \in Guard!Tasks : held[u].rec.quick \in Nat
    BY <2>8 DEF Guard!IInv, Guard!TypeInv, Guard!Copies,
      Guard!GuardAssumption
  <2>. QED  BY <1>7, <2>1, <2>9 DEF Guard!IInv, Guard!CountInv, Guard!Nothing,
    Guard!Fresh
<1>8. ASSUME NEW t \in Guard!Tasks, Guard!Walks(t) PROVE Guard!CountInv'
  BY <1>8, BootWalked DEF Guard!IInv, Guard!TypeInv, Guard!GuardAssumption,
    Guard!HeldInv, Guard!CountInv, Guard!gens
<1>9. CASE UNCHANGED Guard!vars
  BY <1>9 DEF Guard!IInv, Guard!TypeInv, Guard!GuardAssumption,
    Guard!HeldInv, Guard!CountInv, Guard!pump, Guard!mode, Guard!vars,
    Guard!gens
<1>. QED  BY BootKinds, <1>1, <1>2, <1>3, <1>4, <1>5, <1>6, <1>7, <1>8, <1>9

\* Nothing is under way in a chip that is off.
LEMMA BootOffStep ==
  ASSUME Guard!GuardAssumption, Guard!IInv, [Guard!Next]_(Guard!vars)
  PROVE  Guard!OffInv'
<1>1. CASE Guard!Boot
  BY <1>1, BootBegun DEF Guard!IInv, Guard!TypeInv, Guard!OffInv,
    Guard!gens
<1>2. CASE Guard!Reset
  BY <1>2, BootRestarted, BootTypes DEF Guard!IInv, Guard!TypeInv,
    Guard!OffInv, Guard!gens
<1>3. CASE Guard!MarkStable
  BY <1>3, BootRenewed, BootChanged DEF Guard!IInv, Guard!TypeInv,
    Guard!OffInv, Guard!MarkStable, Guard!Shared, Guard!Tasks,
    Guard!Blobs, Guard!gens
<1>4. CASE Guard!TimeKnown
  BY <1>4, BootChanged DEF Guard!IInv, Guard!TypeInv, Guard!OffInv,
    Guard!TimeKnown, Guard!Shared, Guard!Tasks, Guard!Blobs, Guard!gens
<1>5. CASE Guard!ClearSafe
  BY <1>5, BootRenewed, BootChanged DEF Guard!IInv, Guard!TypeInv,
    Guard!OffInv, Guard!ClearSafe, Guard!Shared, Guard!Tasks,
    Guard!Blobs, Guard!gens
<1>6. ASSUME NEW t \in Guard!Tasks, Guard!Fetches(t) PROVE Guard!OffInv'
  BY <1>6, BootFetched DEF Guard!IInv, Guard!TypeInv, Guard!OffInv,
    Guard!gens
<1>7. ASSUME NEW t \in Guard!Tasks, Guard!Lands(t) PROVE Guard!OffInv'
  BY <1>7, BootLanded DEF Guard!IInv, Guard!TypeInv, Guard!OffInv,
    Guard!gens
<1>8. ASSUME NEW t \in Guard!Tasks, Guard!Walks(t) PROVE Guard!OffInv'
  BY <1>8, BootWalked DEF Guard!IInv, Guard!TypeInv, Guard!OffInv,
    Guard!gens
<1>9. CASE UNCHANGED Guard!vars
  BY <1>9 DEF Guard!IInv, Guard!TypeInv, Guard!OffInv, Guard!pump,
    Guard!mode, Guard!vars, Guard!gens
<1>. QED  BY BootKinds, <1>1, <1>2, <1>3, <1>4, <1>5, <1>6, <1>7, <1>8, <1>9

\* A change keeps somebody to write it.
LEMMA BootWriterStep ==
  ASSUME Guard!GuardAssumption, Guard!IInv, [Guard!Next]_(Guard!vars)
  PROVE  Guard!WriterInv'
<1>1. CASE Guard!TimeKnown \/ Guard!ClearSafe \/ Guard!Retry
  BY <1>1 DEF Guard!IInv, Guard!TypeInv, Guard!GuardAssumption,
    Guard!WriterInv, Guard!HeldInv, Guard!PendingHasWriter, Guard!Pending,
    Guard!Dirty, Guard!OffInv, Guard!Zero, Guard!Places, Guard!Shared,
    Guard!Tasks, Guard!TimeKnown, Guard!Change, Guard!Goto,
    Guard!ClearSafe, Guard!Retry, Guard!Move, Guard!gens, Guard!pump,
    Guard!mode, Guard!Still, Guard!Quiet
<1>2. CASE Guard!Over
  BY <1>2 DEF Guard!IInv, Guard!TypeInv, Guard!GuardAssumption,
    Guard!WriterInv, Guard!HeldInv, Guard!PendingHasWriter, Guard!Pending,
    Guard!Dirty, Guard!OffInv, Guard!Zero, Guard!Places, Guard!Shared,
    Guard!Tasks, Guard!Over, Guard!vars, Guard!gens, Guard!pump,
    Guard!mode, Guard!Still, Guard!Quiet
<1>3. CASE Guard!MarkStable
  BY <1>3 DEF Guard!IInv, Guard!TypeInv, Guard!GuardAssumption,
    Guard!WriterInv, Guard!HeldInv, Guard!PendingHasWriter, Guard!Pending,
    Guard!Dirty, Guard!OffInv, Guard!Zero, Guard!Places, Guard!Shared,
    Guard!Tasks, Guard!MarkStable, Guard!Change, Guard!Goto, Guard!gens,
    Guard!pump, Guard!mode, Guard!Still, Guard!Quiet
<1>4. CASE Guard!FlushNext
  BY <1>4 DEF Guard!IInv, Guard!TypeInv, Guard!GuardAssumption,
    Guard!WriterInv, Guard!HeldInv, Guard!PendingHasWriter, Guard!Pending,
    Guard!Dirty, Guard!OffInv, Guard!Zero, Guard!Places, Guard!Shared,
    Guard!Tasks, Guard!FlushNext, Guard!Copy, Guard!Goto, Guard!Move,
    Guard!gens, Guard!pump, Guard!mode, Guard!Still, Guard!Quiet
<1>5. CASE Guard!FlushDone
  BY <1>5 DEF Guard!IInv, Guard!TypeInv, Guard!GuardAssumption,
    Guard!WriterInv, Guard!HeldInv, Guard!PendingHasWriter, Guard!Pending,
    Guard!Dirty, Guard!OffInv, Guard!Zero, Guard!Places, Guard!Shared,
    Guard!Tasks, Guard!FlushDone, Guard!Written, Guard!Goto, Guard!gens,
    Guard!pump, Guard!mode, Guard!Still, Guard!Quiet
<1>6. CASE Guard!Flushed
  BY <1>6 DEF Guard!IInv, Guard!TypeInv, Guard!GuardAssumption,
    Guard!WriterInv, Guard!HeldInv, Guard!PendingHasWriter, Guard!Pending,
    Guard!Dirty, Guard!OffInv, Guard!Zero, Guard!Places, Guard!Shared,
    Guard!Tasks, Guard!Flushed, Guard!Rest, Guard!Goto, Guard!gens,
    Guard!pump, Guard!mode, Guard!Still, Guard!Quiet
<1>7. CASE Guard!Boot
  BY <1>7 DEF Guard!IInv, Guard!TypeInv, Guard!GuardAssumption,
    Guard!WriterInv, Guard!HeldInv, Guard!PendingHasWriter, Guard!Pending,
    Guard!Dirty, Guard!OffInv, Guard!Zero, Guard!Places, Guard!Shared,
    Guard!Tasks, Guard!Boot, Guard!Counted, Guard!Chance, Guard!gens,
    Guard!pump, Guard!mode, Guard!Still, Guard!Quiet
<1>8. CASE Guard!Reset
  BY <1>8 DEF Guard!IInv, Guard!TypeInv, Guard!GuardAssumption,
    Guard!WriterInv, Guard!HeldInv, Guard!PendingHasWriter, Guard!Pending,
    Guard!Dirty, Guard!OffInv, Guard!Zero, Guard!Places, Guard!Shared,
    Guard!Tasks, Guard!Reset, Guard!gens, Guard!pump, Guard!mode,
    Guard!Still, Guard!Quiet
<1>9. CASE Guard!JobWakes
  BY <1>9 DEF Guard!IInv, Guard!TypeInv, Guard!GuardAssumption,
    Guard!WriterInv, Guard!HeldInv, Guard!PendingHasWriter, Guard!Pending,
    Guard!Dirty, Guard!OffInv, Guard!Zero, Guard!Places, Guard!Shared,
    Guard!Tasks, Guard!JobWakes, Guard!Goto, Guard!gens, Guard!pump,
    Guard!mode, Guard!Still, Guard!Quiet
<1>10. CASE Guard!Look
  BY <1>10 DEF Guard!IInv, Guard!TypeInv, Guard!GuardAssumption,
    Guard!WriterInv, Guard!HeldInv, Guard!PendingHasWriter, Guard!Pending,
    Guard!Dirty, Guard!OffInv, Guard!Zero, Guard!Places, Guard!Shared,
    Guard!Tasks, Guard!Look, Guard!Move, Guard!Goto, Guard!gens,
    Guard!pump, Guard!mode, Guard!Still, Guard!Quiet
<1>11. CASE Guard!JobDone
  BY <1>11 DEF Guard!IInv, Guard!TypeInv, Guard!GuardAssumption,
    Guard!WriterInv, Guard!HeldInv, Guard!PendingHasWriter, Guard!Pending,
    Guard!Dirty, Guard!OffInv, Guard!Zero, Guard!Places, Guard!Shared,
    Guard!Tasks, Guard!JobDone, Guard!Written, Guard!Goto, Guard!gens,
    Guard!pump, Guard!mode, Guard!Still, Guard!Quiet
<1>12. CASE Guard!Flush
  BY <1>12 DEF Guard!IInv, Guard!TypeInv, Guard!GuardAssumption,
    Guard!WriterInv, Guard!HeldInv, Guard!PendingHasWriter, Guard!Pending,
    Guard!Dirty, Guard!OffInv, Guard!Zero, Guard!Places, Guard!Shared,
    Guard!Tasks, Guard!Flush, Guard!Goto, Guard!gens, Guard!pump,
    Guard!mode, Guard!Still, Guard!Quiet
<1>13. ASSUME NEW t \in Guard!Shared,
              Guard!Pass(t) \/ Guard!PassDone(t) \/ Guard!Saved(t)
       PROVE  Guard!WriterInv'
  BY <1>13 DEF Guard!IInv, Guard!TypeInv, Guard!GuardAssumption,
    Guard!WriterInv, Guard!HeldInv, Guard!PendingHasWriter, Guard!Pending,
    Guard!Dirty, Guard!OffInv, Guard!Zero, Guard!Places, Guard!Shared,
    Guard!Tasks, Guard!Pass, Guard!Copy, Guard!Goto, Guard!Move,
    Guard!PassDone, Guard!Written, Guard!Saved, Guard!Kicks, Guard!gens,
    Guard!pump, Guard!mode, Guard!Still, Guard!Quiet
<1>14. CASE Guard!Slot
  <2>1. CASE Guard!Copy("job", "slot", "writing")
    BY <2>1 DEF Guard!Copy, Guard!Goto, Guard!IInv, Guard!TypeInv,
      Guard!WriterInv, Guard!PendingHasWriter, Guard!Places, Guard!Tasks,
      Guard!Still, Guard!Quiet, Guard!gens
  <2>2. CASE ~Guard!Pending /\ Guard!Move("job", "slot", "idle")
    BY <2>2 DEF Guard!Move, Guard!Goto, Guard!IInv, Guard!TypeInv,
      Guard!WriterInv, Guard!PendingHasWriter, Guard!Pending, Guard!Dirty,
      Guard!Places, Guard!Tasks, Guard!Still, Guard!Quiet, Guard!gens
  <2>3. CASE /\ Guard!Goto("job", "slot", "idle") /\ kicked' = TRUE
             /\ UNCHANGED <<Guard!gens, held, flushing>> /\ Guard!Quiet
    BY <2>3 DEF Guard!Goto, Guard!IInv, Guard!TypeInv, Guard!WriterInv,
      Guard!PendingHasWriter, Guard!Places, Guard!Tasks
  <2>. QED  BY <1>14, <2>1, <2>2, <2>3 DEF Guard!Slot
<1>15. CASE UNCHANGED Guard!vars
  BY <1>15 DEF Guard!IInv, Guard!TypeInv, Guard!GuardAssumption,
    Guard!WriterInv, Guard!HeldInv, Guard!PendingHasWriter, Guard!Pending,
    Guard!Dirty, Guard!OffInv, Guard!Zero, Guard!Places, Guard!Shared,
    Guard!Tasks, Guard!vars, Guard!gens, Guard!pump, Guard!mode,
    Guard!Still, Guard!Quiet
<1>. QED  BY <1>1, <1>2, <1>3, <1>4, <1>5, <1>6, <1>7, <1>8, <1>9, <1>10, <1>11, <1>12,
  <1>13, <1>14, <1>15 DEF Guard!Next

\* The invariant holds before the first boot,
LEMMA BootInit ==
  ASSUME Guard!GuardAssumption, Guard!Init
  PROVE  Guard!IInv
<1>1. nvs \in [rec : Guard!Record, failed : BOOLEAN] /\ rec \in Guard!Record
  BY BootTypes DEF Guard!Init
<1>2. held \in [Guard!Tasks -> Guard!Copies] /\ at \in [Guard!Tasks -> Guard!Places]
  BY BootTypes DEF Guard!Init, Guard!Places
<1>3. /\ now \in [Guard!Blobs -> 0..MaxGen] /\ saved \in [Guard!Blobs -> Nat]
      /\ landed \in [Guard!Blobs -> Nat]
  BY BootTypes DEF Guard!Init
<1>4. Guard!TypeInv
  <2>1. hasJob \in BOOLEAN /\ stable \in BOOLEAN
    BY Zenon DEF Guard!Init
  <2>2. chip \in {"on", "loader", "reset"} /\ crashes \in Nat
    BY DEF Guard!Init
  <2>3. boots \in 0..MaxBoots
    BY DEF Guard!Init, Guard!GuardAssumption
  <2>. QED  BY <1>1, <1>2, <1>3, <2>1, <2>2, <2>3 DEF Guard!TypeInv
<1>5. Guard!HeldInv /\ Guard!GenInv
  BY DEF Guard!Init, Guard!HeldInv, Guard!GenInv, Guard!Nothing,
    Guard!Zero
<1>6. Guard!RunInv /\ Guard!CountInv
  BY DEF Guard!Init, Guard!GuardAssumption, Guard!RunInv, Guard!Covers,
    Guard!CountInv, Guard!Nothing, Guard!Fresh
<1>7. Guard!OffInv /\ Guard!WriterInv
  BY DEF Guard!Init, Guard!OffInv, Guard!WriterInv, Guard!PendingHasWriter
<1>. QED  BY <1>4, <1>5, <1>6, <1>7 DEF Guard!IInv

\* is kept by every boot, reset and step of a task,
LEMMA BootNext ==
  ASSUME Guard!GuardAssumption, Guard!IInv, [Guard!Next]_(Guard!vars)
  PROVE  Guard!IInv'
<1>. QED  BY BootTypeStep, BootHeldStep, BootGenStep, BootRunStep, BootCountStep,
  BootOffStep, BootWriterStep DEF Guard!IInv

\* and says that the crash run is kept,
LEMMA BootGives ==
  ASSUME Guard!GuardAssumption, Guard!IInv
  PROVE  Guard!TypeOK /\ Guard!CrashRunKept /\ Guard!PendingHasWriter
<1>1. Guard!TypeOK
  BY DEF Guard!IInv, Guard!TypeInv, Guard!HeldInv, Guard!GenInv,
    Guard!CountInv, Guard!TypeOK, Guard!Record, Guard!Places,
    Guard!Nothing, Guard!GuardAssumption
<1>2. Guard!CrashRunKept
  BY DEF Guard!IInv, Guard!RunInv, Guard!Covers, Guard!CrashRunKept
<1>. QED  BY <1>1, <1>2 DEF Guard!IInv, Guard!WriterInv

\* and that no step lands an older copy.
LEMMA BootOrders ==
  ASSUME Guard!GuardAssumption, Guard!IInv, [Guard!Next]_(Guard!vars)
  PROVE  Guard!NeverOlder
<1>1. CASE Guard!Boot
  BY <1>1, BootBegun DEF Guard!IInv, Guard!TypeInv, Guard!NeverOlder,
    Guard!gens
<1>2. CASE Guard!Reset
  BY <1>2, BootRestarted, BootTypes DEF Guard!IInv, Guard!NeverOlder,
    Guard!gens
<1>3. CASE Guard!MarkStable \/ Guard!ClearSafe
  BY <1>3, BootRenewed, BootChanged DEF Guard!IInv, Guard!TypeInv,
    Guard!NeverOlder, Guard!Blobs, Guard!Shared, Guard!Tasks, Guard!gens
<1>4. CASE Guard!TimeKnown
  BY <1>4, BootChanged DEF Guard!IInv, Guard!TypeInv, Guard!NeverOlder,
    Guard!Blobs, Guard!Shared, Guard!Tasks, Guard!TimeKnown, Guard!gens
<1>5. ASSUME NEW t \in Guard!Tasks, Guard!Fetches(t) PROVE Guard!NeverOlder
  BY <1>5, BootFetched DEF Guard!IInv, Guard!TypeInv, Guard!NeverOlder,
    Guard!gens
<1>6. ASSUME NEW t \in Guard!Tasks, Guard!Lands(t) PROVE Guard!NeverOlder
  BY <1>6, BootLanded DEF Guard!IInv, Guard!TypeInv, Guard!HeldInv,
    Guard!GenInv, Guard!NeverOlder, Guard!Copies, Guard!gens
<1>7. ASSUME NEW t \in Guard!Tasks, Guard!Walks(t) PROVE Guard!NeverOlder
  BY <1>7, BootWalked DEF Guard!IInv, Guard!TypeInv, Guard!NeverOlder,
    Guard!gens
<1>8. CASE UNCHANGED Guard!vars
  BY <1>8 DEF Guard!NeverOlder, Guard!IInv, Guard!TypeInv, Guard!vars,
    Guard!gens
<1>. QED  BY BootKinds, <1>1, <1>2, <1>3, <1>4, <1>5, <1>6, <1>7, <1>8

\* For any number of boots and of changes: the crash run survives every reset that comes
\* before a write the gate put off, and such a write keeps a writer (BootGuard.cpp).
THEOREM CrashRunSurvives ==
  ASSUME Guard!GuardAssumption
  PROVE  Guard!Spec => [](Guard!TypeOK /\ Guard!CrashRunKept /\ Guard!PendingHasWriter)
<1>1. Guard!Init => Guard!IInv
  BY BootInit
<1>2. Guard!IInv /\ [Guard!Next]_(Guard!vars) => Guard!IInv'
  BY BootNext
<1>3. Guard!IInv => Guard!TypeOK /\ Guard!CrashRunKept /\ Guard!PendingHasWriter
  BY BootGives
<1>. QED  BY <1>1, <1>2, <1>3, PTL DEF Guard!Spec

\* ... and no copy of a blob lands over a newer one: every step, of any task, keeps the
\* order of the copies (writeOne).
THEOREM CopiesInOrder ==
  ASSUME Guard!GuardAssumption
  PROVE  Guard!Spec => [][Guard!NeverOlder]_(Guard!vars)
<1>1. Guard!Init => Guard!IInv
  BY BootInit
<1>2. Guard!IInv /\ [Guard!Next]_(Guard!vars) => Guard!IInv'
  BY BootNext
<1>3. Guard!IInv /\ [Guard!Next]_(Guard!vars) => [Guard!NeverOlder]_(Guard!vars)
  BY BootOrders
<1>. QED  BY <1>1, <1>2, <1>3, PTL DEF Guard!Spec

-----------------------------------------------------------------------------
(* The parts together: the invariant of the component at work holds         *)
(* throughout, and says what the runs check of it.                          *)

PartsInv ==
  /\ Of("FlashWriter", FlashWriter!IInv)
  /\ Of("OtaLoader", OtaLoader!IInv)
  /\ Of("AppRestart", AppRestart!IInv)
  /\ Of("Slot", Slot!IInv)
  /\ Of("Guard", Guard!IInv)
  /\ Of("FileWrites", FileWrites!IInv)
  /\ Of("Upload", Upload!IInv)

\* What is run here is what the components' proofs assume.
LEMMA Constants ==
  /\ AppRestart!AppAssumption /\ FlashWriter!WriterAssumption /\ OtaLoader!LoaderAssumption
  /\ Guard!GuardAssumption /\ FileWrites!WritesAssumption /\ Upload!PromoteAssumption
<1>1. AppRestart!AppAssumption
  BY DEF AppRestart!AppAssumption
<1>2. FlashWriter!WriterAssumption
  BY DEF FlashWriter!WriterAssumption, FlashWriter!Jobs
<1>3. Guard!GuardAssumption /\ FileWrites!WritesAssumption /\ OtaLoader!LoaderAssumption
  BY BootsAssumption
  DEF Guard!GuardAssumption, FileWrites!WritesAssumption, OtaLoader!LoaderAssumption
<1>4. Upload!PromoteAssumption
  BY UploadsAssumption DEF Upload!PromoteAssumption
<1>. QED  BY <1>1, <1>2, <1>3, <1>4

\* A step is one of the component at work, which stays at work.
LEMMA AtWork ==
  ASSUME [Next]_vars
  PROVE  /\ part' = part
         /\ part = "FlashWriter" => [FlashWriter!Next]_(FlashWriter!vars)
         /\ part = "OtaLoader" => [OtaLoader!Next]_(OtaLoader!vars)
         /\ part = "AppRestart" => [AppRestart!Next]_(AppRestart!vars)
         /\ part = "Slot" => [Slot!Next]_(Slot!vars)
         /\ part = "Guard" => [Guard!Next]_(Guard!vars)
         /\ part = "FileWrites" => [FileWrites!Next]_(FileWrites!vars)
         /\ part = "Upload" => [Upload!Next]_(Upload!vars)
<1>. USE DEF Next, FlashWriterDoes, OtaLoaderDoes, AppRestartDoes, SlotDoes,
       GuardDoes, FileWritesDoes, UploadDoes, vars
<1>1. part' = part
  OBVIOUS
<1>2. ASSUME part = "FlashWriter" PROVE [FlashWriter!Next]_(FlashWriter!vars)
  BY <1>2 DEF FlashWriter!vars, FlashWriter!slots, FlashWriter!writer, FlashWriter!supply
<1>3. ASSUME part = "OtaLoader" PROVE [OtaLoader!Next]_(OtaLoader!vars)
  BY <1>3 DEF OtaLoader!vars, OtaLoader!slot, OtaLoader!stored, OtaLoader!session,
    OtaLoader!page, OtaLoader!shared, OtaLoader!imageWriter, OtaLoader!counts,
    OtaLoader!history
<1>4. ASSUME part = "AppRestart" PROVE [AppRestart!Next]_(AppRestart!vars)
  BY <1>4 DEF AppRestart!vars, AppRestart!flags, AppRestart!steps, AppRestart!boot
<1>5. ASSUME part = "Slot" PROVE [Slot!Next]_(Slot!vars)
  BY <1>5 DEF Slot!vars, Slot!lock, Slot!flash, Slot!auto
<1>6. ASSUME part = "Guard" PROVE [Guard!Next]_(Guard!vars)
  BY <1>6 DEF Guard!vars, Guard!gens, Guard!pump, Guard!mode
<1>7. ASSUME part = "FileWrites" PROVE [FileWrites!Next]_(FileWrites!vars)
  BY <1>7 DEF FileWrites!vars
<1>8. ASSUME part = "Upload" PROVE [Upload!Next]_(Upload!vars)
  BY <1>8 DEF Upload!vars, Upload!files
<1>. QED  BY <1>1, <1>2, <1>3, <1>4, <1>5, <1>6, <1>7, <1>8

\* The invariant of the component at work holds at first,
LEMMA PartsInit ==
  ASSUME Init
  PROVE  PartsInv
<1>1. Of("FlashWriter", FlashWriter!IInv)
  BY Constants, FlashWriter!InvInit DEF Init, Of
<1>2. Of("OtaLoader", OtaLoader!IInv)
  BY Constants, OtaLoader!LoaderInit DEF Init, Of
<1>3. Of("AppRestart", AppRestart!IInv)
  BY Constants, AppRestart!InvInit DEF Init, Of
<1>4. Of("Slot", Slot!IInv)
  BY SlotInit DEF Init, Of
<1>5. Of("Guard", Guard!IInv)
  BY Constants, BootInit DEF Init, Of
<1>6. Of("FileWrites", FileWrites!IInv)
  BY Constants, FileWrites!InvInit DEF Init, Of
<1>7. Of("Upload", Upload!IInv)
  BY Constants, PromoteInit DEF Init, Of
<1>. QED  BY <1>1, <1>2, <1>3, <1>4, <1>5, <1>6, <1>7 DEF PartsInv

\* and is kept by each of its steps.
LEMMA PartsNext ==
  ASSUME PartsInv, [Next]_vars
  PROVE  PartsInv'
<1>1. ASSUME part = "FlashWriter" PROVE FlashWriter!IInv'
  BY <1>1, AtWork, Constants, FlashWriter!InTime, FlashWriter!InvNext DEF PartsInv, Of
<1>2. ASSUME part = "OtaLoader" PROVE OtaLoader!IInv'
  BY <1>2, AtWork, Constants, OtaLoader!LoaderNext DEF PartsInv, Of
<1>3. ASSUME part = "AppRestart" PROVE AppRestart!IInv'
  BY <1>3, AtWork, Constants, AppRestart!InvNext DEF PartsInv, Of
<1>4. ASSUME part = "Slot" PROVE Slot!IInv'
  BY <1>4, AtWork, SlotNext DEF PartsInv, Of
<1>5. ASSUME part = "Guard" PROVE Guard!IInv'
  BY <1>5, AtWork, Constants, BootNext DEF PartsInv, Of
<1>6. ASSUME part = "FileWrites" PROVE FileWrites!IInv'
  BY <1>6, AtWork, Constants, FileWrites!InvNext DEF PartsInv, Of
<1>7. ASSUME part = "Upload" PROVE Upload!IInv'
  BY <1>7, AtWork, Constants, PromoteNext DEF PartsInv, Of
<1>8. part' = part
  BY AtWork
<1>. QED  BY <1>1, <1>2, <1>3, <1>4, <1>5, <1>6, <1>7, <1>8 DEF PartsInv, Of

\* The state of the component at work keeps its types.
THEOREM TypesOKHolds == Spec => []TypesOK
<1>1. PartsInv => TypesOK
  <2>. SUFFICES ASSUME PartsInv PROVE TypesOK
    OBVIOUS
  <2>1. part = "FlashWriter" => FlashWriter!TypeOK
    BY Constants, FlashWriter!InvGives DEF PartsInv, Of
  <2>2. part = "OtaLoader" => OtaLoader!TypeOK
    BY Constants, OtaLoader!LoaderGives DEF PartsInv, Of
  <2>3. part = "AppRestart" => AppRestart!TypeOK
    BY Constants, AppRestart!InvGives DEF PartsInv, Of
  <2>4. part = "Slot" => Slot!TypeOK
    BY SlotGives DEF PartsInv, Of
  <2>5. part = "Guard" => Guard!TypeOK
    BY Constants, BootGives DEF PartsInv, Of
  <2>6. part = "FileWrites" => FileWrites!TypeOK
    BY Constants, FileWrites!InvTypes DEF PartsInv, Of
  <2>7. part = "Upload" => Upload!TypeOK
    BY Constants, PromoteGives DEF PartsInv, Of
  <2>. QED  BY <2>1, <2>2, <2>3, <2>4, <2>5, <2>6, <2>7 DEF TypesOK, Of
<1>. QED  BY PartsInit, PartsNext, <1>1, PTL DEF Spec

\* Nobody ever has to ask twice for a write (FlashWriter!NoWakeLost says it for any
\* tasks and jobs): here as the run checks it.
THEOREM WritesComeUpHolds == Spec => []WritesComeUp
<1>1. PartsInv => WritesComeUp
  <2>. SUFFICES ASSUME PartsInv PROVE WritesComeUp
    OBVIOUS
  <2>1. part = "FlashWriter" => FlashWriter!NoLostWake /\ FlashWriter!NothingForgotten
    BY Constants, FlashWriter!InvGives DEF PartsInv, Of
  <2>. QED  BY <2>1 DEF WritesComeUp, Of
<1>. QED  BY PartsInit, PartsNext, <1>1, PTL DEF Spec

\* The loader boots what it checked and tells the truth (OtaLoader!UpdateHonest says it for
\* any sectors, updates and faults): here as the run checks it,
THEOREM LoaderHonestHolds == Spec => []LoaderHonest
<1>1. PartsInv => LoaderHonest
  <2>. SUFFICES ASSUME PartsInv PROVE LoaderHonest
    OBVIOUS
  <2>1. part = "OtaLoader" => OtaLoader!OnlyCheckedBoots /\ OtaLoader!OkIsTrue
    BY Constants, OtaLoader!LoaderGives DEF PartsInv, Of
  <2>. QED  BY <2>1 DEF LoaderHonest, Of
<1>. QED  BY PartsInit, PartsNext, <1>1, PTL DEF Spec

\* as that it keeps the image and the handoff.
THEOREM LoaderKeepsHolds == Spec => []LoaderKeeps
<1>1. PartsInv => LoaderKeeps
  <2>. SUFFICES ASSUME PartsInv PROVE LoaderKeeps
    OBVIOUS
  <2>1. part = "OtaLoader" => OtaLoader!ImageKept /\ OtaLoader!HandoffKept
    BY Constants, OtaLoader!LoaderGives DEF PartsInv, Of
  <2>. QED  BY <2>1 DEF LoaderKeeps, Of
<1>. QED  BY PartsInit, PartsNext, <1>1, PTL DEF Spec

\* The restart is in order (AppRestart!RestartOrdered says it for any callers and modules):
\* here as the run checks it.
THEOREM RestartInOrderHolds == Spec => []RestartInOrder
<1>1. PartsInv => RestartInOrder
  <2>. SUFFICES ASSUME PartsInv PROVE RestartInOrder
    OBVIOUS
  <2>1. part = "AppRestart" => /\ AppRestart!HooksOnce /\ AppRestart!LoopApart
                            /\ AppRestart!StepLast /\ AppRestart!StepKept
    BY Constants, AppRestart!InvGives DEF PartsInv, Of
  <2>. QED  BY <2>1 DEF RestartInOrder, Of
<1>. QED  BY PartsInit, PartsNext, <1>1, PTL DEF Spec

\* The firmware slot has one writer and boots whole images, and the crash run is kept
\* (SlotIsOnes, CrashRunSurvives): here as the run checks it.
THEOREM BootKeptHolds == Spec => []BootKept
<1>1. PartsInv => BootKept
  <2>. SUFFICES ASSUME PartsInv PROVE BootKept
    OBVIOUS
  <2>1. part = "Slot" => Slot!OneImage /\ Slot!BootsWhole /\ Slot!NothingHeld
    BY SlotGives DEF PartsInv, Of
  <2>2. part = "Guard" => Guard!CrashRunKept /\ Guard!PendingHasWriter
    BY Constants, BootGives DEF PartsInv, Of
  <2>. QED  BY <2>1, <2>2 DEF BootKept, Of
<1>. QED  BY PartsInit, PartsNext, <1>1, PTL DEF Spec

\* The file manager keeps the writes it answered for and the file an upload replaces
\* (FileWrites!WritesKept, UploadSurvives): here as the run checks it.
THEOREM FilesKeptHolds == Spec => []FilesKept
<1>1. PartsInv => FilesKept
  <2>. SUFFICES ASSUME PartsInv PROVE FilesKept
    OBVIOUS
  <2>1. part = "FileWrites" => FileWrites!QueuedKept
    BY DEF PartsInv, Of, FileWrites!IInv
  <2>2. part = "Upload" => Upload!NeverNeither /\ Upload!TargetWhole /\ Upload!Settled
    BY Constants, PromoteGives DEF PartsInv, Of
  <2>. QED  BY <2>1, <2>2 DEF FilesKept, Of
<1>. QED  BY PartsInit, PartsNext, <1>1, PTL DEF Spec

\* A step of a queued write is of the oldest one, and a copy of the boot record never goes
\* over a newer one (FileWrites!WritesInOrder, CopiesInOrder).
THEOREM NeverOvertakenHolds == Spec => NeverOvertaken
<1>1. PartsInv /\ [Next]_vars =>
        [/\ part = "FileWrites" => FileWrites!InOrder
         /\ part = "Guard" => Guard!NeverOlder]_vars
  <2>. SUFFICES ASSUME PartsInv, [Next]_vars
                PROVE  /\ part = "FileWrites" => FileWrites!InOrder
                       /\ part = "Guard" => Guard!NeverOlder
    OBVIOUS
  <2>1. part = "FileWrites" => FileWrites!InOrder
    BY AtWork, Constants, FileWrites!OrderStep DEF PartsInv, Of
  <2>2. part = "Guard" => Guard!NeverOlder
    BY AtWork, Constants, BootOrders DEF PartsInv, Of
  <2>. QED  BY <2>1, <2>2
<1>. QED  BY PartsInit, PartsNext, <1>1, PTL DEF Spec, NeverOvertaken
==============================================================================
