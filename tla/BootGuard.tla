----------------------------- MODULE BootGuard ------------------------------
(***************************************************************************)
(* The boot record: how many crash boots in a row, safe mode, and the last *)
(* boots.  A boot counts itself and writes both blobs at once; later       *)
(* changes go through the flash write gate: a pass on the shared tasks     *)
(* (the loop, the web task), else the FlashWriter job, else the flush of a *)
(* restart.  What the gate answers is chosen freely; a write may fail, and *)
(* a reset may come between any two steps.                                 *)
(***************************************************************************)
EXTENDS Naturals

CONSTANTS
  Limit,     \* crash boots in a row that start safe mode
  MaxBoots,  \* bound: boots
  MaxGen     \* bound: changes of a blob in a boot

Blobs == {"rec", "hist"}
Shared == {"loop", "web"}
Tasks == Shared \cup {"job", "flush"}

VARIABLES
  nvs,      \* the stored record, and whether a write of it failed
  rec,      \* s_rec: [quick, safe]
  now,      \* each blob's generation (Gen::now)
  saved,    \* the generation last written or given up (Gen::saved)
  landed,   \* the newest generation in NVS (history)
  held,     \* the copy a task is writing (s_writing: one task at a time)
  at,       \* where each task is
  kicked,   \* the job is to run, or waits for the power
  hasJob,   \* FlashWriter had room for it
  flushing, \* s_flushing
  stable,   \* this boot was marked stable
  chip,     \* "on", "loader" (the update loader runs), "reset"
  crashes,  \* crash boots since a stable run, an admin's clear or a new firmware (history)
  boots

gens == <<now, saved, landed>>
pump == <<held, at, kicked, flushing>>
mode == <<hasJob, stable, chip>>
vars == <<nvs, rec, gens, pump, mode, crashes, boots>>


Zero == [b \in Blobs |-> 0]
Fresh == [quick |-> 0, safe |-> FALSE]
Nothing == [blob |-> "none", gen |-> 0, rec |-> Fresh]

Init ==
  /\ nvs = [rec |-> Fresh, failed |-> FALSE] /\ rec = Fresh
  /\ now = Zero /\ saved = Zero /\ landed = Zero
  /\ held = [t \in Tasks |-> Nothing] /\ at = [t \in Tasks |-> "idle"]
  /\ kicked = FALSE /\ flushing = FALSE /\ hasJob \in BOOLEAN
  /\ stable = FALSE /\ chip = "reset" /\ crashes = 0 /\ boots = 0

Dirty == {b \in Blobs : now[b] # saved[b]}
Pending == Dirty # {}

-----------------------------------------------------------------------------
(* A boot: one task, before anything else runs. *)

\* Why the chip was reset: the update loader's restart is an intended one.
Classes == {"crash", "intended", "factory reset"}

\* A new firmware or a factory reset is a new chance.
\* Fault: an intended boot ends the crash run.
Chance_Intended(class, newFw) ==
  IF newFw \/ class # "crash" THEN [nvs.rec EXCEPT !.quick = 0, !.safe = FALSE] ELSE nvs.rec
Chance(class, newFw) ==
  IF newFw \/ class = "factory reset" THEN [nvs.rec EXCEPT !.quick = 0, !.safe = FALSE]
  ELSE nvs.rec

Counted(class, newFw) ==
  LET r == Chance(class, newFw)
      n == r.quick + (IF class = "crash" THEN 1 ELSE 0)
  IN [quick |-> n, safe |-> r.safe \/ n >= Limit]

\* With an update loader, a crash run that outlives safe mode by two ends there.
IntoLoader(class, r) == class = "crash" /\ r.quick >= Limit + 2

Boot ==
  /\ chip # "on" /\ boots < MaxBoots /\ boots' = boots + 1
  /\ \E class \in (IF chip = "loader" THEN {"intended"} ELSE Classes), newFw, ok, loader \in BOOLEAN :
       /\ rec' = Counted(class, newFw)
       /\ nvs' = IF ok THEN [nvs EXCEPT !.rec = rec'] ELSE [nvs EXCEPT !.failed = TRUE]
       /\ crashes' = (IF newFw \/ class = "factory reset" THEN 0 ELSE crashes)
                     + (IF class = "crash" THEN 1 ELSE 0)
       /\ chip' = IF loader /\ IntoLoader(class, rec') THEN "loader" ELSE "on"
  /\ UNCHANGED <<gens, pump, hasJob, stable>>

\* A crash, a power cut or a restart, between any two steps.
Reset ==
  /\ chip = "on" /\ chip' = "reset" /\ rec' = Fresh /\ stable' = FALSE
  /\ now' = Zero /\ saved' = Zero /\ landed' = Zero
  /\ held' = [t \in Tasks |-> Nothing] /\ at' = [t \in Tasks |-> "idle"]
  /\ kicked' = FALSE /\ flushing' = FALSE
  /\ UNCHANGED <<nvs, hasJob, crashes, boots>>

-----------------------------------------------------------------------------
(* The changes: each on a shared task, which then saves. *)

Goto(t, from, to) == chip = "on" /\ at[t] = from /\ at' = [at EXCEPT ![t] = to]
Still == UNCHANGED <<hasJob, chip, boots>>
Change(t, b) ==
  /\ Goto(t, "idle", "pass") /\ now[b] < MaxGen /\ now' = [now EXCEPT ![b] = @ + 1]
  /\ UNCHANGED <<nvs, saved, landed, held, kicked, flushing>> /\ Still

MarkStable ==
  /\ ~stable /\ stable' = TRUE /\ Change("loop", "rec")
  /\ rec' = [rec EXCEPT !.quick = 0] /\ crashes' = 0

\* The clock is valid: this boot's time goes into the history.
TimeKnown == now["hist"] = 0 /\ Change("loop", "hist") /\ UNCHANGED <<rec, stable, crashes>>

ClearSafe ==
  /\ Change("web", "rec") /\ rec' = [rec EXCEPT !.quick = 0, !.safe = FALSE]
  /\ crashes' = 0 /\ UNCHANGED stable

-----------------------------------------------------------------------------
(* writeOne: a blob that changed is copied under the lock, written outside it. *)

\* Fault: two writers at a time.
Free_Shared == TRUE
Free == \A t \in Tasks : held[t] = Nothing

Next1 == IF "rec" \in Dirty THEN "rec" ELSE "hist"

Quiet == UNCHANGED <<nvs, rec, stable, crashes>> /\ Still

Copy(t, from, to) ==
  /\ Free /\ Pending /\ Goto(t, from, to)
  /\ held' = [held EXCEPT ![t] = [blob |-> Next1, gen |-> now[Next1],
                                   rec |-> IF Next1 = "rec" THEN rec ELSE Fresh]]
  /\ UNCHANGED <<gens, kicked, flushing>> /\ Quiet

\* The write is over: that generation is saved, or given up.
Written(t, from, to) ==
  LET c == held[t]
  IN /\ Goto(t, from, to) /\ held' = [held EXCEPT ![t] = Nothing]
     /\ saved' = [saved EXCEPT ![c.blob] = c.gen]
     /\ \/ /\ landed' = [landed EXCEPT ![c.blob] = c.gen]
           /\ nvs' = IF c.blob = "rec" THEN [nvs EXCEPT !.rec = c.rec] ELSE nvs
        \/ landed' = landed /\ nvs' = [nvs EXCEPT !.failed = TRUE]
     /\ UNCHANGED <<now, rec, kicked, flushing, stable, crashes>> /\ Still

Move(t, from, to) == Goto(t, from, to) /\ UNCHANGED <<gens, held, kicked, flushing>> /\ Quiet

-----------------------------------------------------------------------------
(* save(): passes on a shared task, never a wait. *)

\* A second pass only where there is no job.
Pass(t) ==
  \/ Copy(t, "pass", "writing")
  \/ Move(t, "pass", "end")
PassDone(t) == Written(t, "writing", IF hasJob THEN "end" ELSE "pass")

\* What is left, the write refused or not, is the job's.
Kicks == hasJob /\ Pending

Saved(t) ==
  /\ Goto(t, "end", "idle") /\ kicked' = (kicked \/ Kicks)
  /\ UNCHANGED <<gens, held, flushing>> /\ Quiet

\* Without a job the loop tries again.
Retry == ~hasJob /\ Pending /\ Move("loop", "idle", "pass")

-----------------------------------------------------------------------------
(* writeJob on the FlashWriter task. *)

JobWakes ==
  /\ kicked /\ Goto("job", "idle", "look") /\ kicked' = FALSE
  /\ UNCHANGED <<gens, held, flushing>> /\ Quiet

\* Nothing left, or the flush of a restart writes it; else a slot, unless PowerGuard
\* holds writes: the job then runs again once it does not.
Look ==
  \/ (flushing \/ ~Pending) /\ Move("job", "look", "idle")
  \/ ~flushing /\ Pending /\ Move("job", "look", "slot")
Slot ==
  \/ Copy("job", "slot", "writing")
  \/ ~Pending /\ Move("job", "slot", "idle")
  \/ /\ Goto("job", "slot", "idle") /\ kicked' = TRUE   \* no power, or another task is at it
     /\ UNCHANGED <<gens, held, flushing>> /\ Quiet
JobDone == Written("job", "writing", "look")

-----------------------------------------------------------------------------
(* flush(): before a restart. *)

Flush ==
  /\ Goto("flush", "idle", "next") /\ flushing' = TRUE
  /\ UNCHANGED <<gens, held, kicked>> /\ Quiet

\* A slot in time, or not; a writer at it is waited for.
FlushNext ==
  \/ Copy("flush", "next", "writing")
  \/ Move("flush", "next", "end")
FlushDone == Written("flush", "writing", "next")

\* Fault: nobody is told what the flush left.
Rest_Left == FALSE
Rest == hasJob /\ Pending

Flushed ==
  /\ Goto("flush", "end", "idle") /\ flushing' = FALSE /\ kicked' = (kicked \/ Rest)
  /\ UNCHANGED <<gens, held>> /\ Quiet

Over == boots = MaxBoots /\ chip # "on" /\ UNCHANGED vars

-----------------------------------------------------------------------------
Next ==
  \/ Boot \/ Reset \/ MarkStable \/ TimeKnown \/ ClearSafe
  \/ \E t \in Shared : Pass(t) \/ PassDone(t) \/ Saved(t)
  \/ Retry \/ JobWakes \/ Look \/ Slot \/ JobDone
  \/ Flush \/ FlushNext \/ FlushDone \/ Flushed \/ Over

Spec == Init /\ [][Next]_vars

-----------------------------------------------------------------------------
TypeOK ==
  /\ rec.quick \in 0..MaxBoots /\ rec.safe \in BOOLEAN
  /\ now \in [Blobs -> 0..MaxGen] /\ \A b \in Blobs : saved[b] <= now[b]
  /\ \A t \in Tasks : (held[t] # Nothing) <=> (at[t] = "writing")
  /\ crashes \in 0..MaxBoots
  /\ \A t \in Tasks : at[t] \in {"idle", "pass", "writing", "end", "look", "slot", "next"}

\* Crash boots in a row are never lost, whatever resets come before a put-off write:
\* after Limit of them the device is in safe mode, unless an NVS write failed.
CrashRunKept ==
  chip = "on" /\ ~nvs.failed => rec.quick >= crashes /\ (crashes >= Limit => rec.safe)

\* A change the gate put off has somebody to write it: the job, a task on its way
\* through save() or flush(), or the loop where there is no job.
PendingHasWriter ==
  chip = "on" /\ Pending /\ hasJob => kicked \/ \E t \in Tasks : at[t] # "idle"

\* An older copy never lands after a newer one.
NeverOlder == chip' = "on" => \A b \in Blobs : landed'[b] >= landed[b]

-----------------------------------------------------------------------------
(* What the promises rest on. *)

GuardAssumption == Limit \in Nat \ {0} /\ MaxBoots \in Nat /\ MaxGen \in Nat

Record == [quick : Nat, safe : BOOLEAN]
Copies == [blob : Blobs \cup {"none"}, gen : Nat, rec : Record]
Places == {"idle", "pass", "writing", "end", "look", "slot", "next"}

TypeInv ==
  /\ nvs \in [rec : Record, failed : BOOLEAN] /\ rec \in Record
  /\ now \in [Blobs -> 0..MaxGen] /\ saved \in [Blobs -> Nat] /\ landed \in [Blobs -> Nat]
  /\ held \in [Tasks -> Copies]
  /\ at \in [Tasks -> Places]
  /\ hasJob \in BOOLEAN /\ stable \in BOOLEAN /\ chip \in {"on", "loader", "reset"}
  /\ crashes \in Nat /\ boots \in 0..MaxBoots

\* A copy is held while its write is under way, by one task.
HeldInv ==
  /\ \A t \in Tasks : (at[t] = "writing" => held[t].blob # "none")
                     /\ (at[t] # "writing" => held[t] = Nothing)
  /\ \A t, u \in Tasks : at[t] = "writing" /\ at[u] = "writing" => t = u

\* What was written is no newer than what there is, and the copy under way no older
\* than what was written.
GenInv ==
  /\ \A b \in Blobs : landed[b] <= saved[b] /\ saved[b] <= now[b]
  /\ \A t \in Tasks : at[t] = "writing" =>
       saved[held[t].blob] <= held[t].gen /\ held[t].gen <= now[held[t].blob]

\* The crash run is in NVS, in RAM, and in every copy on its way to NVS.
Covers(r) == r.quick >= crashes /\ (crashes >= Limit => r.safe)
RunInv ==
  ~nvs.failed => /\ Covers(nvs.rec) /\ (chip = "on" => Covers(rec))
                 /\ \A t \in Tasks : held[t].blob = "rec" => Covers(held[t].rec)

\* No more of it than there were boots.
CountInv ==
  /\ nvs.rec.quick <= boots /\ rec.quick <= boots /\ crashes <= boots
  /\ \A t \in Tasks : held[t].rec.quick <= boots

OffInv == chip # "on" => now = Zero /\ saved = Zero /\ \A t \in Tasks : at[t] = "idle"

WriterInv ==
  {kicked, flushing} \subseteq BOOLEAN /\ (flushing => at["flush"] # "idle") /\ PendingHasWriter

IInv == TypeInv /\ HeldInv /\ GenInv /\ RunInv /\ CountInv /\ OffInv /\ WriterInv

\* A task copies a blob, lands it, or moves on without either.
Fetches(t) == \E from \in Places \ {"writing"} : Copy(t, from, "writing")
Lands(t) == \E to \in Places \ {"writing"} : Written(t, "writing", to)
Walks(t) ==
  \E from, to \in Places \ {"writing"} : Goto(t, from, to) /\ UNCHANGED <<gens, held>> /\ Quiet
==============================================================================
