---------------------------- MODULE FirmwareSlot ----------------------------
(***************************************************************************)
(* The next OTA slot and those who write it: the upload page and the       *)
(* auto-update task through an OtaWriter each, and ArduinoOTA on the loop  *)
(* task by itself.  An OtaWriter first becomes the one owner (s_owner),    *)
(* then takes the FirmwareUpdate, which lapses after a stall; an image     *)
(* that passed its check keeps both up to the restart that boots it.       *)
(*                                                                         *)
(* An image is two writes, the first and the last; a check of the image    *)
(* (esp_ota_end, esp_ota_set_boot_partition) reads the slot.  What the     *)
(* network answers is chosen freely, and a network or a slot wait of the   *)
(* update task may last for ever: the loop then deletes it.                *)
(***************************************************************************)

None == "none"
Writers == {"upload", "auto"}   \* the OtaWriters
Ota == "ota"                    \* ArduinoOTA

VARIABLES
  owner,   \* s_owner
  update,  \* FirmwareUpdate's source
  fresh,   \* its last progress is within the stall time
  image,   \* each OtaWriter's image
  slot,    \* who wrote the slot last, and how much of its image is there
  boot,    \* what the boot loader starts: "running" or "slot"
  loop,    \* the loop task in ArduinoOTA: "top" outside a transfer
  au,      \* _otaState
  task,    \* the update task, "none" when _otaTaskHandle is null
  clock,   \* its time: "in", "past" the deadline, to be deleted ("kill"), "killed"
  due,     \* the interval has passed
  loader,  \* one app slot: the update loader writes it
  restart  \* who restarts the device; "done" at the reset

lock == <<owner, update, fresh>>
flash == <<image, slot, boot>>
auto == <<au, task, clock, due>>
vars == <<lock, flash, loop, auto, loader, restart>>

Init ==
  /\ owner = None /\ update = None /\ fresh = FALSE
  /\ image = [w \in Writers |-> "idle"]
  /\ slot = [by |-> None, at |-> "whole"] /\ boot = "running" /\ loop = "top"
  /\ au = "idle" /\ task = None /\ clock = "in" /\ due = FALSE
  /\ loader \in BOOLEAN /\ restart = None

On == restart # "done"

-----------------------------------------------------------------------------
(* FirmwareUpdate. *)

Active == update # None /\ fresh
Busy == owner # None

\* Fault: a writer never lapses into another's hands, and never asks.
TryBegin_Unasked(who) == update' = who /\ fresh' = TRUE
TryBegin(who) == ~Active /\ update' = who /\ fresh' = TRUE

Progress == fresh' = (update # None)

\* Only a writer's own update is ended: a stale one may be another's by now.
EndOf(who) == update' = (IF update = who THEN None ELSE update) /\ UNCHANGED fresh

\* 60 s without progress: a supervisor may restart, another writer may take it.
\* (ArduinoOTA gives up on a silent peer long before, and its takeUpdate is two
\* looks one after the other, not 60 s apart.)
Stall == On /\ Active /\ update # Ota /\ loop # "asked" /\ fresh' = FALSE
         /\ UNCHANGED <<owner, update, flash, loop, auto, loader, restart>>

-----------------------------------------------------------------------------
(* OtaWriter. *)

\* A deleted task does nothing more: what it held stays held.
Lives(w) == w = "auto" => task # None
At(w, from, to) == On /\ Lives(w) /\ image[w] = from /\ image' = [image EXCEPT ![w] = to]
Quiet == UNCHANGED <<slot, boot, loop, loader, restart>>

\* An upload begins, unless the loader takes images; its answer (its client has gone).
Uploads == ~loader
UploadAnswered == image["upload"] = "ended"
\* The update task has shown "success" for a second.
Success == task = "success" /\ image["auto"] = "ended"

\* The update task has the first bytes of the body.
Reads == task = "download"

Asks(w) == IF w = "upload" THEN Uploads ELSE Reads

\* claim(): the owner, then the update; a taken update gives the owner back.
\* Fault: no look at who holds it.
Own_Anyway(w) == owner' = w
Own(w) == owner = None /\ owner' = w

Claim(w) ==
  /\ Asks(w) /\ At(w, "idle", "claiming") /\ Own(w)
  /\ UNCHANGED <<update, fresh, auto>> /\ Quiet

Claimed(w) ==
  \/ At(w, "claiming", "held") /\ TryBegin(w) /\ UNCHANGED owner /\ UNCHANGED auto /\ Quiet
  \/ /\ Active /\ At(w, "claiming", "idle") /\ owner' = None
     /\ IF w = "auto" THEN au' = "failed" /\ task' = "ending" /\ UNCHANGED <<clock, due>>
                      ELSE UNCHANGED auto
     /\ UNCHANGED <<update, fresh>> /\ Quiet

\* begin(): nothing of the slot is erased yet.
Begin(w) == At(w, "held", "begun") /\ Progress /\ UNCHANGED <<owner, update, auto>> /\ Quiet

\* The slot after a write by who, the first or the last of its image.
Put(who, first) ==
  slot' = IF first THEN [by |-> who, at |-> "part"]
          ELSE [by |-> who, at |-> IF slot = [by |-> who, at |-> "part"] THEN "whole" ELSE "mixed"]

Write(w) ==
  /\ w = "auto" => clock = "in"
  /\ \/ At(w, "begun", "some") /\ Put(w, TRUE)
     \/ At(w, "some", "all") /\ Put(w, FALSE)
  /\ Progress /\ UNCHANGED <<owner, update, auto, boot, loop, loader, restart>>

\* end(): the image is checked; what passed stays this writer's.
End(w) ==
  /\ slot = [by |-> w, at |-> "whole"] /\ (w = "auto" => clock = "in")
  /\ At(w, "all", "ended") /\ UNCHANGED <<lock, auto>> /\ Quiet

\* abort(), and a call that fails: the update is given back, then the owner.
\* A checked image of the update task is never dropped by it.
Abort(w) ==
  /\ \E from \in {"held", "begun", "some", "all", "ended"} :
       (from = "ended" => w = "upload" /\ restart # w) /\ At(w, from, "giving")
  /\ EndOf(w) /\ UNCHANGED owner /\ Quiet
  /\ IF w = "auto"
     THEN /\ task' = "ending" /\ au' = (IF clock = "in" THEN "failed" ELSE "timeout")
          /\ UNCHANGED <<clock, due>>
     ELSE UNCHANGED auto

\* Fault: the owner is kept by an image that is dropped.
Unclaim_Kept(w) == At(w, "giving", "idle") /\ UNCHANGED <<lock, auto>> /\ Quiet
Unclaim(w) ==
  At(w, "giving", "idle") /\ owner' = None /\ UNCHANGED <<update, fresh, auto>> /\ Quiet

\* restartInto(): one restart of the device at a time; a later caller waits for it.
RestartInto(w) ==
  /\ On /\ restart = None /\ restart' = w
  /\ IF w = "upload" THEN UploadAnswered ELSE Success
  /\ UNCHANGED <<lock, flash, loop, auto, loader>>

\* The end of restartDevice; an OtaWriter's image is set to boot by its last step,
\* which PowerGuard may skip, and which reads the image once more.
Reset ==
  /\ On /\ restart # None /\ restart' = "done"
  /\ \/ /\ restart \in Writers /\ image[restart] = "ended"
        /\ slot = [by |-> restart, at |-> "whole"] /\ boot' = "slot"
     \/ UNCHANGED boot
  /\ UNCHANGED <<lock, image, slot, loop, auto, loader>>

-----------------------------------------------------------------------------
(* ArduinoOTA: the loop task is in handle() for the whole transfer. *)

InLoop(from, to) == On /\ restart = None /\ loop = from /\ loop' = to
OtaOnly == UNCHANGED <<owner, image, auto, loader>>

\* takeUpdate(): no OtaWriter, then the update.
\* Fault: FirmwareUpdate alone is asked.
Clear_Unasked == ~loader
Clear == ~loader /\ ~Busy

OnStart ==
  /\ InLoop("top", "asked") /\ Clear
  /\ UNCHANGED <<update, fresh, slot, boot, restart>> /\ OtaOnly

Take ==
  \/ InLoop("asked", "begun") /\ TryBegin(Ota) /\ UNCHANGED <<slot, boot, restart>> /\ OtaOnly
  \/ InLoop("asked", "top") /\ Active /\ UNCHANGED <<update, fresh, slot, boot, restart>> /\ OtaOnly

Transfer ==
  /\ \/ InLoop("begun", "some") /\ Put(Ota, TRUE)
     \/ InLoop("some", "all") /\ Put(Ota, FALSE)
  /\ Progress /\ UNCHANGED <<update, boot, restart>> /\ OtaOnly

\* The library sets the image to boot; onEnd gives the update back, then restarts.
Finished ==
  /\ InLoop("all", "over") /\ slot = [by |-> Ota, at |-> "whole"] /\ boot' = "slot"
  /\ UNCHANGED <<update, fresh, slot, restart>> /\ OtaOnly

OnEnd ==
  \/ /\ InLoop("over", "gave") /\ EndOf(Ota) /\ UNCHANGED <<slot, boot, restart>> /\ OtaOnly
  \/ /\ InLoop("gave", "gave") /\ restart' = Ota
     /\ UNCHANGED <<update, fresh, slot, boot>> /\ OtaOnly

OnError ==
  /\ \E from \in {"begun", "some", "all"} : InLoop(from, "top")
  /\ EndOf(Ota) /\ UNCHANGED <<slot, boot, restart>> /\ OtaOnly

-----------------------------------------------------------------------------
(* AutoUpdateService: its part of the loop. *)

AutoOnly == UNCHANGED <<lock, flash, loader>>
Pass == On /\ loop = "top" /\ restart = None /\ UNCHANGED loop /\ AutoOnly
Checking == au \in {"checking", "downloading"}

\* Long past the deadline the task is deleted, wherever it is, and the device restarts
\* a little later (kTimeoutRestartMs): till then this loop does nothing else.
\* Fault: the task is trusted to stop by itself.
Overdue_Trusted == FALSE
Overdue == Checking /\ clock = "kill"

Kill ==
  /\ Pass /\ Overdue /\ au' = "timeout" /\ task' = None /\ clock' = "killed"
  /\ UNCHANGED <<due, restart>>

TimeoutRestart ==
  /\ Pass /\ clock = "killed" /\ restart' = "timeout"
  /\ UNCHANGED <<au, task, clock, due>>

\* A failed state is over once the task is.
Settle ==
  /\ Pass /\ clock # "killed" /\ task = None /\ au \in {"failed", "timeout"}
  /\ au' = "idle" /\ UNCHANGED <<task, clock, due, restart>>

\* Not while another image is under way.
Schedule ==
  /\ Pass /\ clock # "killed" /\ au = "idle" /\ due /\ ~Active /\ ~Busy /\ due' = FALSE
  /\ \/ au' = "checking" /\ task' = "primary" /\ clock' = "in"
     \/ au' = "failed" /\ UNCHANGED <<task, clock>>     \* no memory for the task
  /\ UNCHANGED restart

\* The interval, or the first address of the station.
Due ==
  /\ On /\ ~due /\ task = None /\ due' = TRUE
  /\ UNCHANGED <<lock, flash, loop, au, task, clock, loader, restart>>

Time ==
  /\ On /\ Checking
  /\ \/ clock = "in" /\ clock' = "past"
     \/ clock = "past" /\ clock' = "kill"
  /\ UNCHANGED <<lock, flash, loop, au, task, due, loader, restart>>

-----------------------------------------------------------------------------
(* The update task. *)

Go(from, to, state) ==
  /\ On /\ task = from /\ task' = to /\ au' = state
  /\ UNCHANGED <<lock, flash, loop, clock, due, loader>>

\* What a server says: an image, none (or a refusal), an error, or nothing at all.
\* Switched off or offline, the task ends as with none.
Preflight == {"update", "none", "error"}

\* After an error of the first server the second one is asked, within the time.
Primary ==
  /\ UNCHANGED restart
  /\ \E code \in Preflight :
       \/ code = "update" /\ Go("primary", "answer", "downloading")
       \/ code = "none" /\ Go("primary", "ending", "idle")
       \/ code = "error" /\ clock = "in" /\ Go("primary", "fallback", au)
       \/ code = "error" /\ clock # "in" /\ Go("primary", "ending", "timeout")

Fallback ==
  /\ UNCHANGED restart
  /\ \E code \in Preflight :
       Go("fallback", IF code = "update" THEN "answer" ELSE "ending",
          IF code = "update" THEN "downloading" ELSE "idle")

\* The image's answer: a body, no update, or a failure.
CheckImage == {"ok", "none", "failed"}

Answer ==
  /\ ~loader /\ UNCHANGED restart
  /\ \E code \in CheckImage :
       \/ code = "ok" /\ ~Active /\ ~Busy /\ Go("answer", "download", au)
       \/ code = "none" /\ ~Active /\ ~Busy /\ Go("answer", "ending", "idle")
       \/ code = "failed" /\ Go("answer", "ending", "failed")

\* One app slot: the loader downloads it after a restart, unless it is not ready.
HandOff ==
  /\ loader
  /\ \E code \in CheckImage :
       \/ /\ code = "ok" /\ restart = None /\ ~Active /\ ~Busy
          /\ restart' = "loader" /\ Go("answer", "success", "success")
       \/ code = "none" /\ UNCHANGED restart /\ Go("answer", "ending", "idle")
       \/ code = "failed" /\ UNCHANGED restart /\ Go("answer", "ending", "failed")

\* A read that fails before the writer was asked.
ReadFails ==
  /\ image["auto"] = "idle" /\ UNCHANGED restart
  /\ Go("download", "ending", IF clock = "in" THEN "failed" ELSE "timeout")

Passed == image["auto"] = "ended" /\ Go("download", "success", "success") /\ UNCHANGED restart

\* The handle is cleared last.
TaskEnds == image["auto"] = "idle" /\ Go("ending", None, au) /\ UNCHANGED restart

Over == ~On /\ UNCHANGED vars

-----------------------------------------------------------------------------
Writer(w) ==
  \/ Claim(w) \/ Claimed(w) \/ Begin(w) \/ Write(w) \/ End(w) \/ Abort(w) \/ Unclaim(w)
  \/ RestartInto(w)
ArduinoOTA == OnStart \/ Take \/ Transfer \/ Finished \/ OnEnd \/ OnError
Loop == Kill \/ TimeoutRestart \/ Settle \/ Schedule
Task == Primary \/ Fallback \/ Answer \/ HandOff \/ ReadFails \/ Passed \/ TaskEnds
Next ==
  \/ \E w \in Writers : Writer(w)
  \/ ArduinoOTA \/ Loop \/ Task \/ Stall \/ Due \/ Time \/ Reset \/ Over

Spec == Init /\ [][Next]_vars

\* The loop comes round, a transfer ends, time passes, a restart ends in a reset
\* and a task that is at its end ends.  The update task's waits may not.
InTransfer == loop # "top" /\ ArduinoOTA
AtItsEnd == Unclaim("auto") \/ TaskEnds \/ RestartInto("auto")

-----------------------------------------------------------------------------
TypeOK ==
  /\ owner \in Writers \cup {None} /\ update \in Writers \cup {Ota, None}
  /\ image \in [Writers -> {"idle", "claiming", "held", "begun", "some", "all", "ended", "giving"}]
  /\ slot.at \in {"part", "whole", "mixed"}
  /\ \A w \in Writers : owner = w <=> image[w] # "idle"

\* Only one image at a time goes into the slot: no two writers erase each other's
\* sectors, ArduinoOTA included, however their claims interleave.
OneImage ==
  /\ \A w \in Writers : image[w] \in {"begun", "some", "all", "ended"} => owner = w
  /\ loop \in {"begun", "some", "all"} => \A w \in Writers : image[w] \in {"idle", "claiming", "giving"}
  /\ slot.at # "mixed"

\* What is set to boot is a whole image that nobody touched since its check, unless
\* ArduinoOTA gave the update back before its restart was over.
BootsWhole == boot = "slot" => slot.at = "whole" \/ loop = "gave"

\* The update task never leaves the update taken: without it the upload page and
\* ArduinoOTA would be refused until a reset, and that reset is then on its way.
NothingHeld ==
  owner = "auto" /\ task = None => clock = "killed" \/ restart # None

-----------------------------------------------------------------------------
(* What the promises rest on. *)

Transferring == {"begun", "some", "all", "over"}
Granted == {"held", "begun", "some", "all", "ended"}

FlagsInv ==
  /\ owner \in Writers \cup {None} /\ update \in Writers \cup {Ota, None} /\ fresh \in BOOLEAN
  /\ image \in [Writers -> Granted \cup {"idle", "claiming", "giving"}]
  /\ slot \in [by : Writers \cup {Ota, None}, at : {"part", "whole", "mixed"}]
  /\ boot \in {"running", "slot"} /\ loop \in Transferring \cup {"top", "asked", "gave"}
  /\ clock \in {"in", "past", "kill", "killed"} /\ {due, loader} \subseteq BOOLEAN

\* The owner is the writer with an image.
OwnerInv == \A w \in Writers : owner = w <=> image[w] # "idle"

\* A granted update is not ArduinoOTA's: while that asks, a grant made meanwhile is
\* fresh, so it is refused; in its transfer the update is its own and does not lapse.
GrantInv ==
  /\ \A w \in Writers : image[w] \in Granted => loop \notin Transferring
  /\ \A w \in Writers : image[w] \in Granted /\ loop = "asked" => update = w /\ fresh
  /\ loop \in Transferring => update = Ota /\ fresh

\* The slot holds what the one writer at it has written.
SlotInv ==
  /\ slot.at # "mixed"
  /\ \A w \in Writers : image[w] = "some" => slot = [by |-> w, at |-> "part"]
  /\ \A w \in Writers : image[w] \in {"all", "ended"} => slot = [by |-> w, at |-> "whole"]
  /\ loop = "some" => slot = [by |-> Ota, at |-> "part"]
  /\ loop \in {"all", "over"} => slot = [by |-> Ota, at |-> "whole"]

BootInv ==
  boot = "slot" => \/ ~On /\ (slot.at = "whole" \/ loop = "gave")
                   \/ loop \in {"over", "gave"}

\* The update task is there while it has the writer, unless it was deleted.
TaskInv ==
  /\ owner = "auto" => task \in {"download", "success", "ending"} \/ clock = "killed" \/ restart # None
  /\ clock = "killed" => task = None /\ au = "timeout"

IInv == FlagsInv /\ OwnerInv /\ GrantInv /\ SlotInv /\ BootInv /\ TaskInv
==============================================================================
