---------------------------- MODULE AppRestart ----------------------------
(***************************************************************************)
(* restartDevice(): however many tasks ask for a restart at once, the      *)
(* modules' onShutdown hooks run once, on the loop task where that still   *)
(* answers; then the writes the gate put off go (the flush); then the one  *)
(* step the caller wants last (a factory reset's wipe); then the chip      *)
(* resets.  Every wait for another task is bounded, and a timer resets the *)
(* chip when a step hangs.                                                 *)
(*                                                                         *)
(* Time is not counted: slow says which steps overrun their bounds in this *)
(* boot (and may never end), and a bounded wait ends without its event     *)
(* only if what it waits for is slow.                                      *)
(***************************************************************************)
EXTENDS Naturals, Sequences, FiniteSets, TLAPS

CONSTANTS
  Loop,      \* the loop task
  Callers,   \* other tasks that call restartDevice
  Library,   \* a task that calls esp_restart() past it, or none
  Modules,   \* how many, in install order
  MaxFaults  \* bound: steps that overrun, and a missing timer, in one boot

Tasks == {Loop, Library} \cup Callers
Steps == {"loop", "hook", "flush", "after"}

VARIABLES
  pc,           \* where each task is
  begun,        \* begun_: App::loop runs the modules
  claimed,      \* restartClaimed_: the caller that got it
  requested,    \* restartRequested_
  shutdownDone, \* the hooks have been claimed
  hooksDone,    \* ... and have finished
  abandon,      \* abandonHooks_
  left,         \* modules whose hook has not run
  ran,          \* the hooks begun, in order (history)
  flush, after, \* flushState_, afterState_: "no", "under way", "done"
  step,         \* the caller's last step: "none", "kept", "running", "done", "skipped"
  armed, timer, \* the deadline is armed; there is a timer for it
  slow,         \* the steps that overrun
  direct,       \* a library reset past restartDevice (history)
  chip          \* "on" or "reset"

flags == <<begun, claimed, requested, shutdownDone, hooksDone, abandon>>
steps == <<left, ran, flush, after, step>>
boot == <<armed, timer, slow, direct, chip>>
vars == <<pc, flags, steps, boot>>

Init ==
  /\ pc = [t \in Tasks |-> IF t = Loop THEN "top" ELSE "idle"]
  /\ begun = TRUE /\ claimed = {} /\ requested = FALSE
  /\ shutdownDone = FALSE /\ hooksDone = FALSE /\ abandon = FALSE
  /\ left = Modules /\ ran = <<>> /\ flush = "no" /\ after = "no" /\ step = "none"
  /\ armed = FALSE /\ timer \in BOOLEAN /\ slow \in SUBSET Steps
  /\ Cardinality(slow) + Cardinality({TRUE} \ {timer}) <= MaxFaults
  /\ direct = FALSE /\ chip = "on"

Goto(t, from, to) == chip = "on" /\ pc[t] = from /\ pc' = [pc EXCEPT ![t] = to]
Flags(t, from, to) == Goto(t, from, to) /\ UNCHANGED <<steps, boot>>
Only(t, from, to) == Flags(t, from, to) /\ UNCHANGED flags

-----------------------------------------------------------------------------
(* The loop task, and those who want a restart. *)

\* A restart another task asked for is done here, between two passes.
LoopPass == begun /\ Only(Loop, "top", IF requested THEN "finish" ELSE "modules")
ModulesDone == Only(Loop, "modules", "top")

Call(t) ==
  \/ t = Loop /\ Only(t, "modules", "claim")
  \/ t \in Callers /\ Only(t, "idle", "claim")

\* Fault: every caller runs the hooks itself.
FinishesHere_Always(t) == TRUE
FinishesHere(t) == ~begun \/ t = Loop

\* Fault: looked up, then set, in two steps.
Unclaimed_Racy(t) == t \notin claimed
Unclaimed(t) == claimed = {}

\* The first caller wins; a later one waits for the reset under way.
Claim(t) ==
  \/ /\ Unclaimed(t) /\ claimed' = claimed \cup {t} /\ armed' = TRUE
     /\ Goto(t, "claim", IF FinishesHere(t) THEN "finish" ELSE "handoff")
     /\ step' \in {"none", "kept"}
     /\ UNCHANGED <<begun, requested, shutdownDone, hooksDone, abandon, left, ran, flush, after>>
     /\ UNCHANGED <<timer, slow, direct, chip>>
  \/ ~Unclaimed(t) /\ Only(t, "claim", "parked")

HandOff(t) ==
  /\ Flags(t, "handoff", "answer") /\ requested' = TRUE
  /\ UNCHANGED <<begun, claimed, shutdownDone, hooksDone, abandon>>

\* The loop may be waiting for the reset itself, inside a module's onLoop.
\* Fault: the caller waits for the loop for ever.
Unanswered_Never == FALSE
Unanswered == "loop" \in slow \/ pc[Loop] = "parked"

Answer(t) ==
  \/ shutdownDone /\ Only(t, "answer", "await hooks")
  \/ ~shutdownDone /\ Unanswered /\ Only(t, "answer", "finish")

-----------------------------------------------------------------------------
(* runShutdownOnce, waitHooks. *)

\* Fault: the hooks go to whoever finds them not finished.
HooksFree_Unfinished == ~hooksDone
HooksFree == ~shutdownDone

ClaimHooks(t, from) ==
  /\ HooksFree /\ Goto(t, from, "hooks")
  /\ shutdownDone' = TRUE /\ begun' = FALSE
  /\ UNCHANGED <<claimed, requested, hooksDone, abandon>>

Finish(t) ==
  \/ ClaimHooks(t, "finish") /\ UNCHANGED <<steps, boot>>
  \/ ~HooksFree /\ Only(t, "finish", "await hooks")

\* Reverse install order; a caller that gave up stops them between two.
Hook(t) ==
  \/ /\ left > 0 /\ ~abandon /\ Goto(t, "hooks", "hook") /\ ran' = Append(ran, left)
     /\ UNCHANGED <<flags, boot, left, flush, after, step>>
  \/ (left = 0 \/ abandon) /\ Only(t, "hooks", "flush for hooks")

HookDone(t) ==
  /\ Goto(t, "hook", "hooks") /\ left' = left - 1
  /\ UNCHANGED <<flags, boot, ran, flush, after, step>>

\* What follows the hooks of a library's reset is that reset.
HooksDone(t) ==
  /\ Flags(t, "flushed for hooks", IF t = Library THEN "reset" ELSE "after")
  /\ hooksDone' = TRUE
  /\ UNCHANGED <<begun, claimed, requested, shutdownDone, abandon>>

HooksOverrun == slow \cap {"hook", "flush"} # {}
\* Fault: a caller that gives up on the hooks resets at once.
Next_Reset == "reset"
NextStep == "after"

AwaitHooks(t) ==
  \/ hooksDone /\ Only(t, "await hooks", "after")
  \/ /\ ~hooksDone /\ HooksOverrun
     /\ Flags(t, "await hooks", NextStep) /\ abandon' = TRUE
     /\ UNCHANGED <<begun, claimed, requested, shutdownDone, hooksDone>>

-----------------------------------------------------------------------------
(* runFlushOnce: after the hooks, or before the last step. *)

\* Fault: nobody waits for another task's flush.
FlushOver_Unawaited == TRUE
FlushOver == flush = "done" \/ "flush" \in slow

For == {"hooks", "step"}
FlushAt == [hooks |-> "flush for hooks", step |-> "flush for step"]
FlushingAt == [hooks |-> "flushing for hooks", step |-> "flushing for step"]
FlushedAt == [hooks |-> "flushed for hooks", step |-> "flushed for step"]

Flush(t, for) ==
  \/ /\ flush = "no" /\ flush' = "under way"
     /\ Goto(t, FlushAt[for], FlushingAt[for])
     /\ UNCHANGED <<flags, boot, left, ran, after, step>>
  \/ flush # "no" /\ FlushOver /\ Only(t, FlushAt[for], FlushedAt[for])

FlushDone(t, for) ==
  /\ Goto(t, FlushingAt[for], FlushedAt[for]) /\ flush' = "done"
  /\ UNCHANGED <<flags, boot, left, ran, after, step>>

-----------------------------------------------------------------------------
(* runAfterShutdownOnce. *)

AfterOnly(t, from, to) == Goto(t, from, to) /\ UNCHANGED <<flags, boot, left, ran, flush>>

\* Not under another task that is in it, for five seconds at least.
\* Fault: the wait is left out.
AfterOver_Unawaited == TRUE
AfterOver == after = "done" \/ slow \cap {"after", "flush"} # {}

After(t) ==
  \/ /\ after = "no" /\ after' = "under way"
     /\ AfterOnly(t, "after", "flush for step") /\ UNCHANGED step
  \/ after # "no" /\ AfterOver /\ Only(t, "after", "reset")

\* Skipped when PowerGuard holds writes.
Step(t) ==
  \/ /\ step = "kept" /\ step' = "running"
     /\ AfterOnly(t, "flushed for step", "stepping") /\ UNCHANGED after
  \/ /\ step' = (IF step = "kept" THEN "skipped" ELSE step) /\ after' = "done"
     /\ AfterOnly(t, "flushed for step", "reset")

StepDone(t) ==
  step' = "done" /\ after' = "done" /\ AfterOnly(t, "stepping", "reset")

-----------------------------------------------------------------------------
(* The reset. *)

Resets == chip' = "reset" /\ UNCHANGED <<pc, flags, steps, armed, timer, slow, direct>>

\* esp_restart() runs the hooks first if nobody did.
EspRestart(t) == chip = "on" /\ pc[t] = "reset" /\ shutdownDone /\ Resets

LibraryRestart ==
  /\ direct' = TRUE /\ UNCHANGED <<steps, timer, slow, chip>>
  /\ \/ ClaimHooks(Library, "idle") /\ armed' = TRUE
     \/ ~HooksFree /\ Goto(Library, "idle", "reset") /\ UNCHANGED <<flags, armed>>

\* No task moves on by itself.
Hangs(t) ==
  \/ pc[t] \in {"idle", "parked"} \/ (pc[t] = "top" /\ ~begun)
  \/ pc[t] = "modules" /\ "loop" \in slow
  \/ pc[t] = "hook" /\ "hook" \in slow
  \/ pc[t] \in {FlushingAt[for] : for \in For} /\ "flush" \in slow
  \/ pc[t] = "stepping" /\ "after" \in slow
Stuck == \A t \in Tasks : Hangs(t)

\* The deadline is longer than what an orderly takeover takes.
Deadline == chip = "on" /\ armed /\ timer /\ Stuck /\ Resets

\* Without a timer a second caller resets in the end.
ParkedResets == chip = "on" /\ ~timer /\ Stuck /\ (\E t \in Tasks : pc[t] = "parked") /\ Resets

\* Nothing of this survives the reset: the next boot is a behaviour of its own.
Over == chip = "reset" /\ UNCHANGED vars

-----------------------------------------------------------------------------
Caller(t) ==
  Claim(t) \/ HandOff(t) \/ Answer(t) \/ Finish(t) \/ AwaitHooks(t) \/ After(t) \/ Step(t)
Hooks(t) == Hook(t) \/ HooksDone(t) \/ \E for \in For : Flush(t, for)

Next ==
  \/ LoopPass \/ ModulesDone \/ LibraryRestart \/ Deadline \/ ParkedResets \/ Over
  \/ \E t \in Tasks :
       \/ Call(t) \/ Caller(t) \/ Hooks(t) \/ HookDone(t) \/ StepDone(t) \/ EspRestart(t)
       \/ \E for \in For : FlushDone(t, for)

\* Every task is scheduled; a step that is not slow ends.
Fairness ==
  /\ WF_vars(LoopPass) /\ WF_vars("loop" \notin slow /\ ModulesDone)
  /\ WF_vars(Deadline) /\ WF_vars(ParkedResets)
  /\ \A t \in Tasks :
       /\ WF_vars(Caller(t) \/ Hooks(t) \/ EspRestart(t))
       /\ WF_vars("hook" \notin slow /\ HookDone(t))
       /\ WF_vars("after" \notin slow /\ StepDone(t))
       /\ \A for \in For : WF_vars("flush" \notin slow /\ FlushDone(t, for))

Spec == Init /\ [][Next]_vars /\ Fairness

-----------------------------------------------------------------------------
InHooks(t) == pc[t] \in {"hooks", "hook"}
OnTheWay == {"no", "under way", "done"}
HookPlaces == {"hooks", "hook", "flush for hooks", "flushing for hooks", "flushed for hooks"}
StepPlaces == {"flush for step", "flushing for step", "flushed for step", "stepping"}
Places == HookPlaces \cup StepPlaces \cup
  {"top", "modules", "idle", "claim", "parked", "handoff", "answer", "finish", "await hooks",
   "after", "reset"}

\* Where each task is; one task at most claims the restart (restartDevice).
TypeOK ==
  /\ pc \in [Tasks -> Places]
  /\ claimed \subseteq Tasks /\ (\A t, u \in claimed : t = u) /\ left \in 0..Modules
  /\ flush \in OnTheWay /\ after \in OnTheWay
  /\ step \in {"none", "kept", "running", "done", "skipped"}

\* Each module's hook runs at most once in a boot, after those installed later,
\* and no two hooks run together.
HooksOnce ==
  /\ \A i \in DOMAIN ran : ran[i] = Modules + 1 - i
  /\ \A t, u \in Tasks : InHooks(t) /\ InHooks(u) => t = u

\* A hook never races an onLoop, unless the loop did not answer the hand-off or
\* a library resets.
LoopApart ==
  \A t \in Tasks : pc[t] = "hook" /\ pc[Loop] = "modules" => "loop" \in slow \/ direct

\* The last step runs once the hooks and the flush are over, or one of them
\* overran: no deferred save lands after a factory reset's wipe.
StepLast ==
  step = "running" =>
    /\ flush = "done" \/ "flush" \in slow
    /\ hooksDone \/ HooksOverrun

\* A step that was accepted is not lost, nor cut short by another task's reset:
\* not even when the loop or a hook hangs, as long as its caller does not.
StepKept ==
  chip = "reset" /\ ~direct /\ slow \in {{}, {"loop"}, {"hook"}} /\ Loop \notin claimed =>
    step \in {"none", "done", "skipped"} \/ (slow = {"hook"} /\ pc[Loop] = "parked")

\* The chip resets, whatever hangs.
RestartHappens ==
  claimed # {} /\ (timer \/ slow \subseteq {"loop"}) ~> chip = "reset"

-----------------------------------------------------------------------------
(* Every invariant above for any callers and any number of modules. *)

AppAssumption ==
  /\ Loop # Library /\ Loop \notin Callers /\ Library \notin Callers
  /\ Modules \in Nat

AtHooks(t) == pc[t] \in HookPlaces

PcInv ==
  /\ pc \in [Tasks -> Places]
  /\ pc[Library] \in {"idle", "reset"} \cup HookPlaces

FlagsInv ==
  /\ claimed \subseteq Tasks /\ (\A t, u \in claimed : t = u)
  /\ left \in 0..Modules /\ ran \in Seq(Nat)
  /\ flush \in OnTheWay /\ after \in OnTheWay
  /\ step \in {"none", "kept", "running", "done", "skipped"}
  /\ begun \in BOOLEAN /\ shutdownDone \in BOOLEAN /\ hooksDone \in BOOLEAN
  /\ requested \in BOOLEAN /\ direct \in BOOLEAN

TypeInv == PcInv /\ FlagsInv

\* The hooks are one task's, from their claim to their end.
HooksInv ==
  /\ begun = ~shutdownDone
  /\ ~shutdownDone => \A t \in Tasks : ~AtHooks(t)
  /\ \A t, u \in Tasks : AtHooks(t) /\ AtHooks(u) => t = u

\* The hooks run so far are those of the modules installed last.
RanInv ==
  /\ \A i \in DOMAIN ran : ran[i] = Modules + 1 - i
  /\ (\A t \in Tasks : pc[t] # "hook") => Len(ran) = Modules - left
  /\ \A t \in Tasks : pc[t] = "hook" => left > 0 /\ Len(ran) = Modules + 1 - left

\* Another task takes the hooks only from a loop that does not run its modules.
ApartInv ==
  \A t \in Tasks \ {Loop} :
    /\ AtHooks(t) => direct \/ Unanswered
    /\ pc[t] = "finish" /\ ~shutdownDone => Unanswered

\* Whoever is past the hooks found them over.
LastInv ==
  /\ \A t \in Tasks : pc[t] \in {"after"} \cup StepPlaces => hooksDone \/ HooksOverrun
  /\ \A t \in Tasks : pc[t] \in {"flushed for step", "stepping"} => FlushOver
  /\ StepLast

\* Only the claim's caller gets to the last step, and it does not turn back.
ClaimInv ==
  /\ \A t \in claimed : pc[t] \notin {"idle", "claim", "parked", "top", "modules"}
  /\ \A t \in Tasks \ {Library} :
       pc[t] \notin {"idle", "claim", "parked", "top", "modules"} => claimed # {}
  /\ requested => claimed # {}
  /\ claimed = {} => step = "none" /\ after = "no"

\* One task is at the last step, and the step is kept until then.
StepInv ==
  /\ \A t \in Tasks : pc[t] \in StepPlaces => after = "under way"
  /\ \A t, u \in Tasks : pc[t] \in StepPlaces /\ pc[u] \in StepPlaces => t = u
  /\ step = "running" => \E t \in Tasks : pc[t] = "stepping"
  /\ after = "done" => step \notin {"kept", "running"}

\* A task about to reset has seen the last step over.
EndInv ==
  /\ pc[Library] # "idle" => direct
  /\ \A t \in Tasks :
       pc[t] = "reset" /\ ~direct /\ slow \cap {"after", "flush"} = {} => after = "done"
  /\ StepKept

IInv ==
  TypeInv /\ HooksInv /\ RanInv /\ ApartInv /\ LastInv /\ ClaimInv /\ StepInv /\ EndInv

\* Where the flush is called from.
LEMMA FlushPlaces ==
  ASSUME NEW for \in For
  PROVE  \/ /\ FlushAt[for] = "flush for hooks" /\ FlushingAt[for] = "flushing for hooks"
            /\ FlushedAt[for] = "flushed for hooks"
         \/ /\ FlushAt[for] = "flush for step" /\ FlushingAt[for] = "flushing for step"
            /\ FlushedAt[for] = "flushed for step"
<1>1. CASE for = "hooks"
  BY <1>1 DEF FlushAt, FlushingAt, FlushedAt
<1>2. CASE for = "step"
  BY <1>2 DEF FlushAt, FlushingAt, FlushedAt
<1>. QED  BY <1>1, <1>2 DEF For

\* A step moves one task, if any.
LEMMA Moves ==
  ASSUME [Next]_vars
  PROVE  pc' = pc \/ \E u \in Tasks, to \in Places : pc' = [pc EXCEPT ![u] = to]
<1>1. CASE LoopPass \/ ModulesDone \/ LibraryRestart \/ Deadline \/ ParkedResets
  BY <1>1 DEF Tasks, Places, HookPlaces, StepPlaces, LoopPass, Only, Flags, Goto,
    ModulesDone, LibraryRestart, ClaimHooks, HooksFree, Deadline, Resets, ParkedResets,
    flags, steps, boot
<1>2. CASE Over
  BY <1>2 DEF Tasks, Places, HookPlaces, StepPlaces, Over, vars, flags, steps, boot
<1>3. ASSUME NEW t \in Tasks,
             Call(t) \/ Claim(t) \/ HandOff(t) \/ Answer(t) \/ Finish(t)
      PROVE  pc' = pc \/ \E u \in Tasks, to \in Places : pc' = [pc EXCEPT ![u] = to]
  BY <1>3 DEF Tasks, Places, HookPlaces, StepPlaces, Call, Only, Flags, Goto, Claim,
    Unclaimed, FinishesHere, HandOff, Answer, Finish, ClaimHooks, HooksFree, flags,
    steps, boot
<1>4. ASSUME NEW t \in Tasks,
             AwaitHooks(t) \/ After(t) \/ Step(t) \/ StepDone(t) \/ Hook(t)
      PROVE  pc' = pc \/ \E u \in Tasks, to \in Places : pc' = [pc EXCEPT ![u] = to]
  BY <1>4 DEF Tasks, Places, HookPlaces, StepPlaces, AwaitHooks, NextStep, Only, Flags,
    Goto, After, AfterOnly, Step, StepDone, Hook, flags, steps, boot
<1>5. ASSUME NEW t \in Tasks,
             HookDone(t) \/ HooksDone(t) \/ EspRestart(t)
      PROVE  pc' = pc \/ \E u \in Tasks, to \in Places : pc' = [pc EXCEPT ![u] = to]
  BY <1>5 DEF Tasks, Places, HookPlaces, StepPlaces, HookDone, Goto, HooksDone, Flags,
    EspRestart, Resets, flags, steps, boot
<1>6. ASSUME NEW t \in Tasks, NEW for \in For,
             Flush(t, for) \/ FlushDone(t, for)
      PROVE  pc' = pc \/ \E u \in Tasks, to \in Places : pc' = [pc EXCEPT ![u] = to]
  BY <1>6, FlushPlaces DEF Tasks, Places, HookPlaces, StepPlaces, Flush, Only, Flags,
    Goto, FlushDone, flags, steps, boot
<1>7. CASE UNCHANGED vars
  BY <1>7 DEF Tasks, Places, HookPlaces, StepPlaces, vars, flags, steps, boot
<1>. QED  BY <1>1, <1>2, <1>3, <1>4, <1>5, <1>6, <1>7 DEF Next, Caller, Hooks

\* A library reset does not claim.
LEMMA LibraryStep ==
  ASSUME AppAssumption, IInv, [Next]_vars
  PROVE  pc'[Library] \in {"idle", "reset"} \cup HookPlaces
<1>1. CASE LoopPass \/ ModulesDone \/ LibraryRestart \/ Deadline \/ ParkedResets
  BY <1>1 DEF IInv, TypeInv, PcInv, Tasks, AppAssumption, HookPlaces, LoopPass, Only,
    Flags, Goto, ModulesDone, LibraryRestart, ClaimHooks, HooksFree, Deadline, Resets,
    ParkedResets, flags, steps, boot
<1>2. CASE Over
  BY <1>2 DEF IInv, TypeInv, PcInv, Tasks, AppAssumption, HookPlaces, Over, vars, flags,
    steps, boot
<1>3. ASSUME NEW t \in Tasks,
             Call(t) \/ Claim(t) \/ HandOff(t) \/ Answer(t) \/ Finish(t)
      PROVE  pc'[Library] \in {"idle", "reset"} \cup HookPlaces
  BY <1>3 DEF IInv, TypeInv, PcInv, Tasks, AppAssumption, HookPlaces, Call, Only, Flags,
    Goto, Claim, Unclaimed, FinishesHere, HandOff, Answer, Finish, ClaimHooks,
    HooksFree, flags, steps, boot
<1>4. ASSUME NEW t \in Tasks,
             AwaitHooks(t) \/ After(t) \/ Step(t) \/ StepDone(t) \/ Hook(t)
      PROVE  pc'[Library] \in {"idle", "reset"} \cup HookPlaces
  BY <1>4 DEF IInv, TypeInv, PcInv, Tasks, AppAssumption, HookPlaces, AwaitHooks,
    NextStep, Only, Flags, Goto, After, AfterOnly, Step, StepDone, Hook, flags, steps,
    boot
<1>5. ASSUME NEW t \in Tasks,
             HookDone(t) \/ HooksDone(t) \/ EspRestart(t)
      PROVE  pc'[Library] \in {"idle", "reset"} \cup HookPlaces
  BY <1>5 DEF IInv, TypeInv, PcInv, Tasks, AppAssumption, HookPlaces, HookDone, Goto,
    HooksDone, Flags, EspRestart, Resets, flags, steps, boot
<1>6. ASSUME NEW t \in Tasks, NEW for \in For,
             Flush(t, for) \/ FlushDone(t, for)
      PROVE  pc'[Library] \in {"idle", "reset"} \cup HookPlaces
  BY <1>6, FlushPlaces DEF IInv, TypeInv, PcInv, Tasks, AppAssumption, HookPlaces,
    Flush, Only, Flags, Goto, FlushDone, flags, steps, boot
<1>7. CASE UNCHANGED vars
  BY <1>7 DEF IInv, TypeInv, PcInv, Tasks, AppAssumption, HookPlaces, vars, flags,
    steps, boot
<1>. QED  BY <1>1, <1>2, <1>3, <1>4, <1>5, <1>6, <1>7 DEF Next, Caller, Hooks

\* Every task stays at a place of restartDevice, or of the loop.
LEMMA PcStep ==
  ASSUME AppAssumption, IInv, [Next]_vars
  PROVE  PcInv'
<1>1. pc' \in [Tasks -> Places]
  BY Moves DEF IInv, TypeInv, PcInv
<1>. QED  BY <1>1, LibraryStep DEF PcInv

\* The hook begun is that of the module installed last among those left.
LEMMA Begins ==
  ASSUME AppAssumption, IInv, NEW t \in Tasks, pc[t] = "hooks", left > 0,
         ran' = Append(ran, left)
  PROVE  /\ ran' \in Seq(Nat) /\ Len(ran') = Modules + 1 - left
         /\ \A i \in DOMAIN ran' : ran'[i] = Modules + 1 - i
<1>1. left \in Nat /\ left <= Modules /\ ran \in Seq(Nat) /\ Modules \in Nat
  BY DEF AppAssumption, IInv, TypeInv, FlagsInv
<1>2. Len(ran) = Modules - left
  BY DEF IInv, RanInv, HooksInv, AtHooks, HookPlaces
<1>3. \A i \in 1..Len(ran) : ran[i] = Modules + 1 - i
  BY <1>1 DEF IInv, RanInv
<1>4. ran' \in Seq(Nat) /\ Len(ran') = Len(ran) + 1
  BY <1>1
<1>5. ASSUME NEW i \in 1..Len(ran') PROVE ran'[i] = Modules + 1 - i
  <2>1. CASE i \in 1..Len(ran)
    BY <1>1, <1>3, <2>1
  <2>2. CASE i = Len(ran) + 1
    BY <1>1, <1>2, <2>2
  <2>. QED  BY <1>1, <1>4, <1>5, <2>1, <2>2
<1>. QED  BY <1>1, <1>2, <1>4, <1>5

\* Types, and one claim.
LEMMA FlagsStep ==
  ASSUME AppAssumption, IInv, [Next]_vars
  PROVE  FlagsInv'
<1>1. CASE Deadline \/ ParkedResets
  BY ZenonT(60), <1>1 DEF IInv, TypeInv, PcInv, FlagsInv, Tasks, OnTheWay, AppAssumption, Deadline,
    Resets, ParkedResets, flags, steps, boot
<1>2. CASE LoopPass \/ ModulesDone
  BY ZenonT(60), <1>2 DEF IInv, TypeInv, PcInv, FlagsInv, Tasks, OnTheWay, AppAssumption, LoopPass,
    Only, Flags, Goto, ModulesDone, flags, steps, boot
<1>3. CASE LibraryRestart
  BY <1>3 DEF IInv, TypeInv, PcInv, FlagsInv, Tasks, OnTheWay, AppAssumption,
    LibraryRestart, ClaimHooks, HooksFree, Goto, flags, steps, boot
<1>4. CASE Over
  BY <1>4 DEF IInv, TypeInv, PcInv, FlagsInv, Tasks, OnTheWay, AppAssumption, Over,
    vars, flags, steps, boot
<1>5. ASSUME NEW t \in Tasks, Call(t) PROVE FlagsInv'
  BY <1>5 DEF IInv, TypeInv, FlagsInv, Call, Only, Flags, Goto, flags, steps, boot
<1>6. ASSUME NEW t \in Tasks, EspRestart(t) PROVE FlagsInv'
  BY <1>6 DEF IInv, TypeInv, PcInv, FlagsInv, Tasks, OnTheWay, AppAssumption,
    EspRestart, Resets, flags, steps, boot
<1>7. ASSUME NEW t \in Tasks, HandOff(t) PROVE FlagsInv'
  BY <1>7 DEF IInv, TypeInv, PcInv, FlagsInv, Tasks, OnTheWay, AppAssumption, HandOff,
    Flags, Goto, flags, steps, boot
<1>8. ASSUME NEW t \in Tasks, Step(t) PROVE FlagsInv'
  BY <1>8 DEF IInv, TypeInv, PcInv, FlagsInv, Tasks, OnTheWay, AppAssumption, Step,
    AfterOnly, Goto, flags, steps, boot
<1>9. ASSUME NEW t \in Tasks, StepDone(t) PROVE FlagsInv'
  BY <1>9 DEF IInv, TypeInv, PcInv, FlagsInv, Tasks, OnTheWay, AppAssumption, StepDone,
    AfterOnly, Goto, flags, steps, boot
<1>10. ASSUME NEW t \in Tasks, HooksDone(t) PROVE FlagsInv'
  BY <1>10 DEF IInv, TypeInv, PcInv, FlagsInv, Tasks, OnTheWay, AppAssumption,
    HooksDone, Flags, Goto, flags, steps, boot
<1>11. ASSUME NEW t \in Tasks, Claim(t) PROVE FlagsInv'
  BY ZenonT(60), <1>11 DEF IInv, TypeInv, PcInv, FlagsInv, Tasks, OnTheWay, AppAssumption, Claim,
    Unclaimed, FinishesHere, Only, Flags, Goto, flags, steps, boot
<1>12. ASSUME NEW t \in Tasks, AwaitHooks(t) PROVE FlagsInv'
  BY ZenonT(60), <1>12 DEF IInv, TypeInv, PcInv, FlagsInv, Tasks, OnTheWay, AppAssumption,
    AwaitHooks, NextStep, Only, Flags, Goto, flags, steps, boot
<1>13. ASSUME NEW t \in Tasks, After(t) PROVE FlagsInv'
  BY ZenonT(60), <1>13 DEF IInv, TypeInv, PcInv, FlagsInv, Tasks, OnTheWay, AppAssumption, After,
    AfterOnly, Only, Flags, Goto, flags, steps, boot
<1>14. ASSUME NEW t \in Tasks, Answer(t) PROVE FlagsInv'
  BY ZenonT(60), <1>14 DEF IInv, TypeInv, PcInv, FlagsInv, Tasks, OnTheWay, AppAssumption, Answer,
    Only, Flags, Goto, flags, steps, boot
<1>15. ASSUME NEW t \in Tasks, Finish(t) PROVE FlagsInv'
  BY <1>15 DEF IInv, TypeInv, PcInv, FlagsInv, Tasks, OnTheWay, AppAssumption, Finish,
    ClaimHooks, HooksFree, Only, Flags, Goto, flags, steps, boot
<1>16. ASSUME NEW t \in Tasks, Hook(t) PROVE FlagsInv'
  <2>1. ASSUME left > 0, ran' = Append(ran, left), pc[t] = "hooks",
               pc' = [pc EXCEPT ![t] = "hook"], UNCHANGED <<flags, boot, left, flush, after, step>>
        PROVE  FlagsInv'
    BY <2>1, Begins DEF IInv, TypeInv, FlagsInv, flags, boot
  <2>2. ASSUME Only(t, "hooks", "flush for hooks") PROVE FlagsInv'
    BY <2>2 DEF IInv, TypeInv, FlagsInv, Only, Flags, flags, steps, boot
  <2>. QED  BY <1>16, <2>1, <2>2 DEF Hook, Goto
<1>17. ASSUME NEW t \in Tasks, HookDone(t) PROVE FlagsInv'
  BY <1>17 DEF IInv, TypeInv, FlagsInv, RanInv, AppAssumption, HookDone, Goto, flags,
    steps, boot
<1>18. ASSUME NEW t \in Tasks, NEW for \in For, Flush(t, for) PROVE FlagsInv'
  BY ZenonT(60), <1>18, FlushPlaces DEF IInv, TypeInv, PcInv, FlagsInv, Tasks, OnTheWay,
    AppAssumption, Flush, Only, Flags, Goto, flags, steps, boot
<1>19. ASSUME NEW t \in Tasks, NEW for \in For, FlushDone(t, for) PROVE FlagsInv'
  BY <1>19, FlushPlaces DEF IInv, TypeInv, PcInv, FlagsInv, Tasks, OnTheWay,
    AppAssumption, FlushDone, Goto, flags, steps, boot
<1>20. CASE UNCHANGED vars
  BY <1>20 DEF IInv, TypeInv, PcInv, FlagsInv, Tasks, OnTheWay, AppAssumption, vars,
    flags, steps, boot
<1>. QED  BY <1>1, <1>2, <1>3, <1>4, <1>5, <1>6, <1>7, <1>8, <1>9, <1>10, <1>11, <1>12,
  <1>13, <1>14, <1>15, <1>16, <1>17, <1>18, <1>19, <1>20 DEF Next, Caller, Hooks

\* The hooks stay one task's.
LEMMA HooksStep ==
  ASSUME AppAssumption, IInv, [Next]_vars
  PROVE  HooksInv'
<1>1. CASE LoopPass \/ ModulesDone \/ LibraryRestart \/ Deadline \/ ParkedResets
  BY <1>1 DEF IInv, TypeInv, PcInv, FlagsInv, Tasks, HooksInv, AtHooks, HookPlaces,
    LoopPass, Only, Flags, Goto, ModulesDone, LibraryRestart, ClaimHooks, HooksFree,
    Deadline, Resets, ParkedResets, flags, steps, boot
<1>2. CASE Over
  BY <1>2 DEF IInv, TypeInv, PcInv, FlagsInv, Tasks, HooksInv, AtHooks, HookPlaces,
    Over, vars, flags, steps, boot
<1>3. ASSUME NEW t \in Tasks,
             Call(t) \/ Claim(t) \/ HandOff(t) \/ Answer(t) \/ Finish(t)
      PROVE  HooksInv'
  BY ZenonT(60), <1>3 DEF IInv, TypeInv, PcInv, FlagsInv, Tasks, HooksInv, AtHooks, HookPlaces,
    Call, Only, Flags, Goto, Claim, Unclaimed, FinishesHere, HandOff, Answer, Finish,
    ClaimHooks, HooksFree, flags, steps, boot
<1>4. ASSUME NEW t \in Tasks,
             AwaitHooks(t) \/ After(t) \/ Step(t) \/ StepDone(t) \/ Hook(t)
      PROVE  HooksInv'
  BY ZenonT(60), <1>4 DEF IInv, TypeInv, PcInv, FlagsInv, Tasks, HooksInv, AtHooks, HookPlaces,
    AwaitHooks, NextStep, Only, Flags, Goto, After, AfterOnly, Step, StepDone, Hook,
    flags, steps, boot
<1>5. ASSUME NEW t \in Tasks,
             HookDone(t) \/ HooksDone(t) \/ EspRestart(t)
      PROVE  HooksInv'
  BY <1>5 DEF IInv, TypeInv, PcInv, FlagsInv, Tasks, HooksInv, AtHooks, HookPlaces,
    HookDone, Goto, HooksDone, Flags, EspRestart, Resets, flags, steps, boot
<1>6. ASSUME NEW t \in Tasks, NEW for \in For, Flush(t, for) PROVE HooksInv'
  BY ZenonT(60), <1>6, FlushPlaces DEF IInv, TypeInv, PcInv, FlagsInv, Tasks, HooksInv, AtHooks,
    HookPlaces, Flush, Only, Flags, Goto, flags, steps, boot
<1>7. ASSUME NEW t \in Tasks, NEW for \in For, FlushDone(t, for) PROVE HooksInv'
  BY <1>7, FlushPlaces DEF IInv, TypeInv, PcInv, FlagsInv, Tasks, HooksInv, AtHooks,
    HookPlaces, FlushDone, Goto, flags, steps, boot
<1>8. CASE UNCHANGED vars
  BY <1>8 DEF IInv, TypeInv, PcInv, FlagsInv, Tasks, HooksInv, AtHooks, HookPlaces,
    vars, flags, steps, boot
<1>. QED  BY <1>1, <1>2, <1>3, <1>4, <1>5, <1>6, <1>7, <1>8 DEF Next, Caller, Hooks

\* The hooks run from the last module to the first.
LEMMA RanStep ==
  ASSUME AppAssumption, IInv, [Next]_vars
  PROVE  RanInv'
<1>1. CASE LoopPass \/ ModulesDone \/ LibraryRestart \/ Deadline \/ ParkedResets
  BY <1>1 DEF IInv, TypeInv, PcInv, FlagsInv, Tasks, HooksInv, AtHooks, HookPlaces,
    RanInv, AppAssumption, LoopPass, Only, Flags, Goto, ModulesDone, LibraryRestart,
    ClaimHooks, HooksFree, Deadline, Resets, ParkedResets, flags, steps, boot
<1>2. CASE Over
  BY <1>2 DEF IInv, TypeInv, PcInv, FlagsInv, Tasks, HooksInv, AtHooks, HookPlaces,
    RanInv, AppAssumption, Over, vars, flags, steps, boot
<1>3. ASSUME NEW t \in Tasks, AwaitHooks(t) \/ After(t) \/ Step(t) PROVE RanInv'
  BY <1>3 DEF IInv, TypeInv, PcInv, FlagsInv, Tasks, HooksInv, AtHooks, HookPlaces,
    RanInv, AppAssumption, AwaitHooks, NextStep, Only, Flags, Goto, After, AfterOnly,
    Step, flags, steps, boot
<1>4. ASSUME NEW t \in Tasks, EspRestart(t) PROVE RanInv'
  BY <1>4 DEF IInv, TypeInv, PcInv, FlagsInv, Tasks, HooksInv, AtHooks, HookPlaces,
    RanInv, AppAssumption, EspRestart, Resets, flags, steps, boot
<1>5. ASSUME NEW t \in Tasks, StepDone(t) PROVE RanInv'
  BY <1>5 DEF IInv, TypeInv, PcInv, FlagsInv, Tasks, HooksInv, AtHooks, HookPlaces,
    RanInv, AppAssumption, StepDone, AfterOnly, Goto, flags, steps, boot
<1>6. ASSUME NEW t \in Tasks, HooksDone(t) PROVE RanInv'
  BY <1>6 DEF IInv, TypeInv, PcInv, FlagsInv, Tasks, HooksInv, AtHooks, HookPlaces,
    RanInv, AppAssumption, HooksDone, Flags, Goto, flags, steps, boot
<1>7. ASSUME NEW t \in Tasks,
             Call(t) \/ Claim(t) \/ HandOff(t) \/ Answer(t) \/ Finish(t)
      PROVE  RanInv'
  BY <1>7 DEF IInv, TypeInv, PcInv, FlagsInv, Tasks, HooksInv, AtHooks, HookPlaces,
    RanInv, AppAssumption, Call, Only, Flags, Goto, Claim, Unclaimed, FinishesHere,
    HandOff, Answer, Finish, ClaimHooks, HooksFree, flags, steps, boot
<1>8. ASSUME NEW t \in Tasks, Hook(t) PROVE RanInv'
  <2>1. ASSUME left > 0, ran' = Append(ran, left), pc[t] = "hooks",
               pc' = [pc EXCEPT ![t] = "hook"], UNCHANGED <<flags, boot, left, flush, after, step>>
        PROVE  RanInv'
    <3>1. \A u \in Tasks \ {t} : pc[u] # "hook"
      BY <2>1 DEF IInv, HooksInv, AtHooks, HookPlaces
    <3>. QED  BY <2>1, <3>1, Begins DEF IInv, TypeInv, PcInv, RanInv
  <2>2. ASSUME Only(t, "hooks", "flush for hooks") PROVE RanInv'
    <3>1. Len(ran) = Modules - left
      BY <2>2 DEF IInv, RanInv, HooksInv, AtHooks, HookPlaces, Only, Flags, Goto
    <3>. QED  BY <2>2, <3>1 DEF IInv, TypeInv, PcInv, RanInv, Only, Flags, Goto, flags, steps
  <2>. QED  BY <1>8, <2>1, <2>2 DEF Hook, Goto
<1>9. ASSUME NEW t \in Tasks, HookDone(t) PROVE RanInv'
  <2>1. /\ left > 0 /\ Len(ran) = Modules + 1 - left /\ left' = left - 1 /\ ran' = ran
        /\ pc' = [pc EXCEPT ![t] = "hooks"]
    BY <1>9 DEF HookDone, Goto, IInv, RanInv
  <2>2. \A u \in Tasks \ {t} : pc[u] # "hook"
    BY <1>9 DEF IInv, HooksInv, AtHooks, HookPlaces, HookDone, Goto
  <2>. QED  BY <2>1, <2>2 DEF IInv, TypeInv, PcInv, FlagsInv, RanInv, AppAssumption
<1>10. ASSUME NEW t \in Tasks, NEW for \in For,
              Flush(t, for) \/ FlushDone(t, for)
       PROVE  RanInv'
  BY <1>10, FlushPlaces DEF IInv, TypeInv, PcInv, FlagsInv, Tasks, HooksInv, AtHooks,
    HookPlaces, RanInv, AppAssumption, Flush, Only, Flags, Goto, FlushDone, flags,
    steps, boot
<1>11. CASE UNCHANGED vars
  BY <1>11 DEF IInv, TypeInv, PcInv, FlagsInv, Tasks, HooksInv, AtHooks, HookPlaces,
    RanInv, AppAssumption, vars, flags, steps, boot
<1>. QED  BY <1>1, <1>2, <1>3, <1>4, <1>5, <1>6, <1>7, <1>8, <1>9, <1>10, <1>11 DEF
  Next, Caller, Hooks

\* No task takes the hooks from a loop at work.
LEMMA ApartStep ==
  ASSUME AppAssumption, IInv, [Next]_vars
  PROVE  ApartInv'
<1>1. CASE LoopPass \/ ModulesDone \/ LibraryRestart \/ Deadline \/ ParkedResets
  BY <1>1 DEF IInv, TypeInv, PcInv, FlagsInv, Tasks, HooksInv, AtHooks, HookPlaces,
    ApartInv, Unanswered, AppAssumption, LoopPass, Only, Flags, Goto, ModulesDone,
    LibraryRestart, ClaimHooks, HooksFree, Deadline, Resets, ParkedResets, flags, steps,
    boot
<1>2. CASE Over
  BY <1>2 DEF IInv, TypeInv, PcInv, FlagsInv, Tasks, HooksInv, AtHooks, HookPlaces,
    ApartInv, Unanswered, AppAssumption, Over, vars, flags, steps, boot
<1>3. ASSUME NEW t \in Tasks,
             Call(t) \/ Claim(t) \/ HandOff(t) \/ Answer(t) \/ Finish(t)
      PROVE  ApartInv'
  BY <1>3 DEF IInv, TypeInv, PcInv, FlagsInv, Tasks, HooksInv, AtHooks, HookPlaces,
    ApartInv, Unanswered, AppAssumption, Call, Only, Flags, Goto, Claim, Unclaimed,
    FinishesHere, HandOff, Answer, Finish, ClaimHooks, HooksFree, flags, steps, boot
<1>4. ASSUME NEW t \in Tasks,
             AwaitHooks(t) \/ After(t) \/ Step(t) \/ StepDone(t) \/ Hook(t)
      PROVE  ApartInv'
  BY ZenonT(60), <1>4 DEF IInv, TypeInv, PcInv, FlagsInv, Tasks, HooksInv, AtHooks, HookPlaces,
    ApartInv, Unanswered, AppAssumption, AwaitHooks, NextStep, Only, Flags, Goto, After,
    AfterOnly, Step, StepDone, Hook, flags, steps, boot
<1>5. ASSUME NEW t \in Tasks,
             HookDone(t) \/ HooksDone(t) \/ EspRestart(t)
      PROVE  ApartInv'
  BY <1>5 DEF IInv, TypeInv, PcInv, FlagsInv, Tasks, HooksInv, AtHooks, HookPlaces,
    ApartInv, Unanswered, AppAssumption, HookDone, Goto, HooksDone, Flags, EspRestart,
    Resets, flags, steps, boot
<1>6. ASSUME NEW t \in Tasks, NEW for \in For, Flush(t, for) PROVE ApartInv'
  BY ZenonT(60), <1>6, FlushPlaces DEF IInv, TypeInv, PcInv, FlagsInv, Tasks, HooksInv, AtHooks,
    HookPlaces, ApartInv, Unanswered, AppAssumption, Flush, Only, Flags, Goto, flags,
    steps, boot
<1>7. ASSUME NEW t \in Tasks, NEW for \in For, FlushDone(t, for) PROVE ApartInv'
  BY <1>7, FlushPlaces DEF IInv, TypeInv, PcInv, FlagsInv, Tasks, HooksInv, AtHooks,
    HookPlaces, ApartInv, Unanswered, AppAssumption, FlushDone, Goto, flags, steps, boot
<1>8. CASE UNCHANGED vars
  BY <1>8 DEF IInv, TypeInv, PcInv, FlagsInv, Tasks, HooksInv, AtHooks, HookPlaces,
    ApartInv, Unanswered, AppAssumption, vars, flags, steps, boot
<1>. QED  BY <1>1, <1>2, <1>3, <1>4, <1>5, <1>6, <1>7, <1>8 DEF Next, Caller, Hooks

\* The hooks and the flush stay over.
LEMMA LastStep ==
  ASSUME AppAssumption, IInv, [Next]_vars
  PROVE  LastInv'
<1>1. CASE LoopPass \/ ModulesDone \/ LibraryRestart \/ Deadline \/ ParkedResets
  BY <1>1 DEF IInv, TypeInv, PcInv, FlagsInv, Tasks, LastInv, StepPlaces, StepLast,
    HooksOverrun, FlushOver, LoopPass, Only, Flags, Goto, ModulesDone, LibraryRestart,
    ClaimHooks, HooksFree, Deadline, Resets, ParkedResets, flags, steps, boot
<1>2. CASE Over
  BY <1>2 DEF IInv, TypeInv, PcInv, FlagsInv, Tasks, LastInv, StepPlaces, StepLast,
    HooksOverrun, FlushOver, Over, vars, flags, steps, boot
<1>3. ASSUME NEW t \in Tasks,
             Call(t) \/ Claim(t) \/ HandOff(t) \/ Answer(t) \/ Finish(t)
      PROVE  LastInv'
  BY <1>3 DEF IInv, TypeInv, PcInv, FlagsInv, Tasks, LastInv, StepPlaces, StepLast,
    HooksOverrun, FlushOver, Call, Only, Flags, Goto, Claim, Unclaimed, FinishesHere,
    HandOff, Answer, Finish, ClaimHooks, HooksFree, flags, steps, boot
<1>4. ASSUME NEW t \in Tasks,
             AwaitHooks(t) \/ After(t) \/ Step(t) \/ StepDone(t) \/ Hook(t)
      PROVE  LastInv'
  BY <1>4 DEF IInv, TypeInv, PcInv, FlagsInv, Tasks, LastInv, StepPlaces, StepLast,
    HooksOverrun, FlushOver, AwaitHooks, NextStep, Only, Flags, Goto, After, AfterOnly,
    Step, StepDone, Hook, flags, steps, boot
<1>5. ASSUME NEW t \in Tasks,
             HookDone(t) \/ HooksDone(t) \/ EspRestart(t)
      PROVE  LastInv'
  BY <1>5 DEF IInv, TypeInv, PcInv, FlagsInv, Tasks, LastInv, StepPlaces, StepLast,
    HooksOverrun, FlushOver, HookDone, Goto, HooksDone, Flags, EspRestart, Resets,
    flags, steps, boot
<1>6. ASSUME NEW t \in Tasks, NEW for \in For,
             Flush(t, for) \/ FlushDone(t, for)
      PROVE  LastInv'
  BY <1>6, FlushPlaces DEF IInv, TypeInv, PcInv, FlagsInv, Tasks, LastInv, StepPlaces,
    StepLast, HooksOverrun, FlushOver, Flush, Only, Flags, Goto, FlushDone, flags,
    steps, boot
<1>7. CASE UNCHANGED vars
  BY <1>7 DEF IInv, TypeInv, PcInv, FlagsInv, Tasks, LastInv, StepPlaces, StepLast,
    HooksOverrun, FlushOver, vars, flags, steps, boot
<1>. QED  BY <1>1, <1>2, <1>3, <1>4, <1>5, <1>6, <1>7 DEF Next, Caller, Hooks

\* A task past its claim that moves on keeps the claim as it is.
LEMMA Onward ==
  ASSUME IInv, NEW t \in Tasks, NEW to,
         to \notin {"idle", "claim", "parked", "top", "modules"},
         \/ t = Library /\ pc[t] = "idle"
         \/ pc[t] \notin {"idle", "claim", "parked", "top", "modules"},
         pc' = [pc EXCEPT ![t] = to], UNCHANGED <<claimed, requested, step, after>>
  PROVE  ClaimInv'
<1>1. pc \in [Tasks -> Places] /\ claimed \subseteq Tasks /\ requested \in BOOLEAN
  BY DEF IInv, TypeInv, PcInv, FlagsInv
<1>. QED  BY <1>1 DEF IInv, ClaimInv

\* The claim stays its caller's.
LEMMA ClaimStep ==
  ASSUME AppAssumption, IInv, [Next]_vars
  PROVE  ClaimInv'
<1>1. CASE Deadline
  BY <1>1 DEF IInv, TypeInv, PcInv, FlagsInv, ClaimInv, HookPlaces, Deadline, Resets,
    flags, steps, boot
<1>2. CASE ParkedResets
  BY <1>2 DEF IInv, TypeInv, PcInv, FlagsInv, ClaimInv, HookPlaces, ParkedResets,
    Resets, flags, steps, boot
<1>3. CASE LoopPass
  BY <1>3 DEF IInv, TypeInv, PcInv, FlagsInv, ClaimInv, HookPlaces, LoopPass, Only,
    Flags, Goto, flags, steps, boot
<1>4. CASE ModulesDone
  BY <1>4 DEF IInv, TypeInv, PcInv, FlagsInv, ClaimInv, HookPlaces, ModulesDone, Only,
    Flags, Goto, flags, steps, boot
<1>5. CASE Over
  BY <1>5 DEF IInv, TypeInv, PcInv, FlagsInv, ClaimInv, HookPlaces, Over, vars, flags,
    steps, boot
<1>6. CASE LibraryRestart
  <2>1. \E to \in {"hooks", "reset"} : pc' = [pc EXCEPT ![Library] = to]
    BY <1>6 DEF LibraryRestart, ClaimHooks, Goto
  <2>2. UNCHANGED <<claimed, requested, step, after>>
    BY <1>6 DEF LibraryRestart, ClaimHooks, Goto, flags, steps
  <2>3. \/ Library = Library /\ pc[Library] = "idle"
        \/ pc[Library] \notin {"idle", "claim", "parked", "top", "modules"}
    BY <1>6 DEF LibraryRestart, ClaimHooks, Goto
  <2>. QED  BY <2>1, <2>2, <2>3, Onward DEF Tasks
<1>7. ASSUME NEW t \in Tasks, Call(t) PROVE ClaimInv'
  BY <1>7 DEF IInv, TypeInv, PcInv, FlagsInv, ClaimInv, Call, Only, Flags, Goto, flags,
    steps, boot
<1>8. ASSUME NEW t \in Tasks, Claim(t) PROVE ClaimInv'
  BY <1>8 DEF IInv, TypeInv, PcInv, FlagsInv, ClaimInv, HookPlaces, AppAssumption,
    Tasks, Claim, Unclaimed, FinishesHere, Only, Flags, Goto, flags, steps, boot
<1>9. ASSUME NEW t \in Tasks, EspRestart(t) PROVE ClaimInv'
  BY <1>9 DEF IInv, TypeInv, PcInv, FlagsInv, ClaimInv, HookPlaces, EspRestart, Resets,
    flags, steps, boot
<1>10. ASSUME NEW t \in Tasks, HandOff(t) PROVE ClaimInv'
  BY <1>10 DEF IInv, TypeInv, PcInv, FlagsInv, ClaimInv, HookPlaces, HandOff, Flags,
    Goto, flags, steps, boot
<1>11. ASSUME NEW t \in Tasks, StepDone(t) PROVE ClaimInv'
  BY <1>11 DEF IInv, TypeInv, PcInv, FlagsInv, ClaimInv, HookPlaces, StepDone,
    AfterOnly, Goto, flags, steps, boot
<1>12. ASSUME NEW t \in Tasks, HookDone(t) PROVE ClaimInv'
  BY <1>12 DEF IInv, TypeInv, PcInv, FlagsInv, ClaimInv, HookPlaces, HookDone, Goto,
    flags, steps, boot
<1>13. ASSUME NEW t \in Tasks, HooksDone(t) PROVE ClaimInv'
  BY <1>13 DEF IInv, TypeInv, PcInv, FlagsInv, ClaimInv, HookPlaces, HooksDone, Flags,
    Goto, flags, steps, boot
<1>14. ASSUME NEW t \in Tasks, Answer(t) PROVE ClaimInv'
  BY <1>14 DEF IInv, TypeInv, PcInv, FlagsInv, ClaimInv, HookPlaces, Answer, Only,
    Flags, Goto, flags, steps, boot
<1>15. ASSUME NEW t \in Tasks, Finish(t) PROVE ClaimInv'
  BY <1>15 DEF IInv, TypeInv, PcInv, FlagsInv, ClaimInv, HookPlaces, Finish, ClaimHooks,
    HooksFree, Only, Flags, Goto, flags, steps, boot
<1>16. ASSUME NEW t \in Tasks, Step(t) PROVE ClaimInv'
  BY <1>16 DEF IInv, TypeInv, PcInv, FlagsInv, ClaimInv, HookPlaces, Step, AfterOnly,
    Goto, flags, steps, boot
<1>17. ASSUME NEW t \in Tasks, AwaitHooks(t) PROVE ClaimInv'
  BY <1>17 DEF IInv, TypeInv, PcInv, FlagsInv, ClaimInv, HookPlaces, AwaitHooks,
    NextStep, Only, Flags, Goto, flags, steps, boot
<1>18. ASSUME NEW t \in Tasks, After(t) PROVE ClaimInv'
  BY <1>18 DEF IInv, TypeInv, PcInv, FlagsInv, ClaimInv, HookPlaces, After, AfterOnly,
    Only, Flags, Goto, flags, steps, boot
<1>19. ASSUME NEW t \in Tasks, Hook(t) PROVE ClaimInv'
  <2>1. \E to \in {"hook", "flush for hooks"} : pc' = [pc EXCEPT ![t] = to]
    BY <1>19 DEF Hook, Only, Flags, Goto
  <2>2. UNCHANGED <<claimed, requested, step, after>>
    BY <1>19 DEF Hook, Only, Flags, Goto, flags, steps
  <2>3. \/ t = Library /\ pc[t] = "idle"
        \/ pc[t] \notin {"idle", "claim", "parked", "top", "modules"}
    BY <1>19 DEF Hook, Only, Flags, Goto
  <2>. QED  BY <2>1, <2>2, <2>3, Onward DEF Tasks
<1>20. ASSUME NEW t \in Tasks, NEW for \in For, Flush(t, for) PROVE ClaimInv'
  <2>1. \E to \in {"flushing for hooks", "flushing for step", "flushed for hooks", "flushed for step"} : pc' = [pc EXCEPT ![t] = to]
    BY <1>20, FlushPlaces DEF Flush, Only, Flags, Goto
  <2>2. UNCHANGED <<claimed, requested, step, after>>
    BY <1>20, FlushPlaces DEF Flush, Only, Flags, Goto, flags, steps
  <2>3. \/ t = Library /\ pc[t] = "idle"
        \/ pc[t] \notin {"idle", "claim", "parked", "top", "modules"}
    BY <1>20, FlushPlaces DEF Flush, Only, Flags, Goto
  <2>. QED  BY <2>1, <2>2, <2>3, Onward DEF Tasks
<1>21. ASSUME NEW t \in Tasks, NEW for \in For, FlushDone(t, for) PROVE ClaimInv'
  BY <1>21, FlushPlaces DEF IInv, TypeInv, PcInv, FlagsInv, ClaimInv, HookPlaces,
    FlushDone, Goto, flags, steps, boot
<1>22. CASE UNCHANGED vars
  BY <1>22 DEF IInv, TypeInv, PcInv, FlagsInv, ClaimInv, HookPlaces, vars, flags, steps,
    boot
<1>. QED  BY <1>1, <1>2, <1>3, <1>4, <1>5, <1>6, <1>7, <1>8, <1>9, <1>10, <1>11, <1>12,
  <1>13, <1>14, <1>15, <1>16, <1>17, <1>18, <1>19, <1>20, <1>21, <1>22 DEF Next, Caller,
  Hooks

\* The last step stays one task's.
LEMMA StepStep ==
  ASSUME AppAssumption, IInv, [Next]_vars
  PROVE  StepInv'
<1>1. CASE LoopPass \/ ModulesDone \/ LibraryRestart \/ Deadline \/ ParkedResets
  BY ZenonT(60), <1>1 DEF IInv, TypeInv, PcInv, FlagsInv, Tasks, StepInv, StepPlaces, ClaimInv,
    LoopPass, Only, Flags, Goto, ModulesDone, LibraryRestart, ClaimHooks, HooksFree,
    Deadline, Resets, ParkedResets, flags, steps, boot
<1>2. CASE Over
  BY <1>2 DEF IInv, TypeInv, PcInv, FlagsInv, Tasks, StepInv, StepPlaces, ClaimInv,
    Over, vars, flags, steps, boot
<1>3. ASSUME NEW t \in Tasks,
             Call(t) \/ Claim(t) \/ HandOff(t) \/ Answer(t) \/ Finish(t)
      PROVE  StepInv'
  BY ZenonT(60), <1>3 DEF IInv, TypeInv, PcInv, FlagsInv, Tasks, StepInv, StepPlaces, ClaimInv,
    Call, Only, Flags, Goto, Claim, Unclaimed, FinishesHere, HandOff, Answer, Finish,
    ClaimHooks, HooksFree, flags, steps, boot
<1>4. ASSUME NEW t \in Tasks,
             AwaitHooks(t) \/ After(t) \/ Step(t) \/ StepDone(t) \/ Hook(t)
      PROVE  StepInv'
  BY ZenonT(60), <1>4 DEF IInv, TypeInv, PcInv, FlagsInv, Tasks, StepInv, StepPlaces, ClaimInv,
    AwaitHooks, NextStep, Only, Flags, Goto, After, AfterOnly, Step, StepDone, Hook,
    flags, steps, boot
<1>5. ASSUME NEW t \in Tasks,
             HookDone(t) \/ HooksDone(t) \/ EspRestart(t)
      PROVE  StepInv'
  BY <1>5 DEF IInv, TypeInv, PcInv, FlagsInv, Tasks, StepInv, StepPlaces, ClaimInv,
    HookDone, Goto, HooksDone, Flags, EspRestart, Resets, flags, steps, boot
<1>6. ASSUME NEW t \in Tasks, NEW for \in For,
             Flush(t, for) \/ FlushDone(t, for)
      PROVE  StepInv'
  BY ZenonT(60), <1>6, FlushPlaces DEF IInv, TypeInv, PcInv, FlagsInv, Tasks, StepInv, StepPlaces,
    ClaimInv, Flush, Only, Flags, Goto, FlushDone, flags, steps, boot
<1>7. CASE UNCHANGED vars
  BY <1>7 DEF IInv, TypeInv, PcInv, FlagsInv, Tasks, StepInv, StepPlaces, ClaimInv,
    vars, flags, steps, boot
<1>. QED  BY <1>1, <1>2, <1>3, <1>4, <1>5, <1>6, <1>7 DEF Next, Caller, Hooks

\* When every task is stuck, an accepted step is over: its caller is not at the
\* step, so it hangs in a hook, and then the loop waits for the reset.
LEMMA StuckKeeps ==
  ASSUME AppAssumption, IInv, Stuck, chip = "on", slow \in {{}, {"loop"}, {"hook"}},
         Loop \notin claimed, ~direct
  PROVE  step \in {"none", "done", "skipped"} \/ (slow = {"hook"} /\ pc[Loop] = "parked")
<1>. SUFFICES ASSUME step \notin {"none", "done", "skipped"}
     PROVE  slow = {"hook"} /\ pc[Loop] = "parked"
  OBVIOUS
<1>1. PICK c \in Tasks : c \in claimed /\ c # Loop
  BY DEF IInv, TypeInv, FlagsInv, ClaimInv
<1>2. Hangs(c) /\ Hangs(Loop)
  BY DEF Stuck, Tasks
<1>3. pc[c] \notin {"idle", "parked", "top", "modules"}
  BY <1>1 DEF IInv, ClaimInv
<1>4. "flush" \notin slow /\ "after" \notin slow
  OBVIOUS
<1>5. pc[c] = "hook" /\ "hook" \in slow
  BY <1>2, <1>3, <1>4 DEF Hangs
<1>6. pc[Loop] = "parked"
  <2>1. Unanswered
    BY <1>1, <1>5 DEF IInv, ApartInv, AtHooks, HookPlaces
  <2>. QED  BY <1>5, <2>1 DEF Unanswered
<1>. QED  BY <1>5, <1>6

\* A reset finds the last step over.
LEMMA EndStep ==
  ASSUME AppAssumption, IInv, [Next]_vars
  PROVE  EndInv'
<1>1. CASE LoopPass \/ ModulesDone \/ LibraryRestart
  BY <1>1 DEF IInv, TypeInv, PcInv, FlagsInv, EndInv, StepKept, AppAssumption,
    HookPlaces, Tasks, LoopPass, Only, Flags, Goto, ModulesDone, LibraryRestart,
    ClaimHooks, HooksFree, flags, steps, boot
<1>2. CASE Over
  BY <1>2 DEF IInv, TypeInv, PcInv, FlagsInv, EndInv, StepKept, AppAssumption,
    HookPlaces, Tasks, Over, vars, flags, steps, boot
<1>3. CASE Deadline
  <2>1. StepKept'
    BY <1>3, StuckKeeps DEF StepKept, Deadline, ParkedResets, Resets, flags, steps
  <2>. QED  BY <1>3, <2>1 DEF IInv, EndInv, Deadline, ParkedResets, Resets, flags, steps
<1>4. CASE ParkedResets
  <2>1. StepKept'
    BY <1>4, StuckKeeps DEF StepKept, Deadline, ParkedResets, Resets, flags, steps
  <2>. QED  BY <1>4, <2>1 DEF IInv, EndInv, Deadline, ParkedResets, Resets, flags, steps
<1>5. ASSUME NEW t \in Tasks, StepDone(t) \/ Hook(t) PROVE EndInv'
  BY <1>5 DEF IInv, TypeInv, PcInv, FlagsInv, EndInv, StepKept, AppAssumption,
    HookPlaces, Tasks, StepDone, AfterOnly, Goto, Hook, Only, Flags, flags, steps, boot
<1>6. ASSUME NEW t \in Tasks, Step(t) PROVE EndInv'
  BY <1>6 DEF IInv, TypeInv, PcInv, FlagsInv, EndInv, StepKept, AppAssumption,
    HookPlaces, Tasks, Step, AfterOnly, Goto, flags, steps, boot
<1>7. ASSUME NEW t \in Tasks, AwaitHooks(t) PROVE EndInv'
  BY <1>7 DEF IInv, TypeInv, PcInv, FlagsInv, EndInv, StepKept, AppAssumption,
    HookPlaces, Tasks, AwaitHooks, NextStep, Only, Flags, Goto, flags, steps, boot
<1>8. ASSUME NEW t \in Tasks,
             Call(t) \/ Claim(t) \/ HandOff(t) \/ Answer(t) \/ Finish(t)
      PROVE  EndInv'
  BY <1>8 DEF IInv, TypeInv, PcInv, FlagsInv, EndInv, StepKept, AppAssumption,
    HookPlaces, Tasks, Call, Only, Flags, Goto, Claim, Unclaimed, FinishesHere, HandOff,
    Answer, Finish, ClaimHooks, HooksFree, flags, steps, boot
<1>9. ASSUME NEW t \in Tasks, HookDone(t) \/ HooksDone(t) PROVE EndInv'
  BY <1>9 DEF IInv, TypeInv, PcInv, FlagsInv, EndInv, StepKept, AppAssumption,
    HookPlaces, Tasks, HookDone, Goto, HooksDone, Flags, flags, steps, boot
<1>10. ASSUME NEW t \in Tasks, After(t) PROVE EndInv'
  <2>1. t # Library
    BY <1>10 DEF IInv, TypeInv, PcInv, HookPlaces, After, AfterOnly, Only, Flags, Goto
  <2>2. ASSUME after = "no", after' = "under way", AfterOnly(t, "after", "flush for step"),
               UNCHANGED step
        PROVE  EndInv'
    <3>1. pc' = [pc EXCEPT ![t] = "flush for step"] /\ after # "done" /\ chip = "on"
          /\ UNCHANGED <<slow, direct, chip>>
      BY <2>2 DEF AfterOnly, Goto, boot
    <3>2. StepKept'
      BY <3>1 DEF StepKept
    <3>. QED  BY <2>1, <3>1, <3>2 DEF IInv, TypeInv, PcInv, FlagsInv, EndInv, Tasks
  <2>3. ASSUME AfterOver, Only(t, "after", "reset") PROVE EndInv'
    <3>1. slow \cap {"after", "flush"} = {} => after = "done"
      BY <2>3 DEF AfterOver
    <3>. QED  BY <2>1, <2>3, <3>1 DEF IInv, TypeInv, PcInv, EndInv, StepKept, Only, Flags,
           Goto, flags, steps, boot
  <2>. QED  BY <1>10, <2>2, <2>3 DEF After
<1>11. ASSUME NEW t \in Tasks, EspRestart(t) PROVE EndInv'
  BY <1>11 DEF IInv, TypeInv, PcInv, FlagsInv, EndInv, StepKept, StepInv, Tasks,
    EspRestart, Resets, flags, steps, boot
<1>12. ASSUME NEW t \in Tasks, NEW for \in For, Flush(t, for) PROVE EndInv'
  BY <1>12, FlushPlaces DEF IInv, TypeInv, PcInv, FlagsInv, EndInv, StepKept,
    AppAssumption, HookPlaces, Tasks, Flush, Only, Flags, Goto, flags, steps, boot
<1>13. ASSUME NEW t \in Tasks, NEW for \in For, FlushDone(t, for) PROVE EndInv'
  BY <1>13, FlushPlaces DEF IInv, TypeInv, PcInv, FlagsInv, EndInv, StepKept,
    AppAssumption, HookPlaces, Tasks, FlushDone, Goto, flags, steps, boot
<1>14. CASE UNCHANGED vars
  BY <1>14 DEF IInv, TypeInv, PcInv, FlagsInv, EndInv, StepKept, AppAssumption,
    HookPlaces, Tasks, vars, flags, steps, boot
<1>. QED  BY <1>1, <1>2, <1>3, <1>4, <1>5, <1>6, <1>7, <1>8, <1>9, <1>10, <1>11, <1>12,
  <1>13, <1>14 DEF Next, Caller, Hooks

\* No hook has begun at power-up.
LEMMA EmptyRun == <<>> \in Seq(Nat) /\ Len(<<>>) = 0 /\ DOMAIN <<>> = {}
  OBVIOUS

\* The invariant holds at power-up,
LEMMA InvInit ==
  ASSUME AppAssumption, Init
  PROVE  IInv
<1>1. /\ pc = [t \in Tasks |-> IF t = Loop THEN "top" ELSE "idle"]
      /\ begun = TRUE /\ claimed = {} /\ requested = FALSE /\ shutdownDone = FALSE
      /\ hooksDone = FALSE /\ left = Modules /\ flush = "no" /\ after = "no" /\ step = "none"
      /\ direct = FALSE /\ chip = "on"
  BY DEF Init
<1>2. ran \in Seq(Nat) /\ Len(ran) = 0 /\ DOMAIN ran = {}
  BY EmptyRun DEF Init
<1>3. PcInv
  BY <1>1 DEF PcInv, AppAssumption, Tasks, Places
<1>4. FlagsInv
  <2>1. left \in 0..Modules
    BY <1>1 DEF AppAssumption
  <2>2. flush \in OnTheWay /\ after \in OnTheWay
    BY <1>1 DEF OnTheWay
  <2>. QED  BY <1>1, <1>2, <2>1, <2>2 DEF FlagsInv
<1>5. HooksInv /\ ApartInv
  BY <1>1 DEF HooksInv, ApartInv, AtHooks, HookPlaces
<1>6. RanInv
  BY <1>1, <1>2 DEF RanInv, AppAssumption
<1>7. LastInv /\ ClaimInv /\ StepInv
  BY <1>1 DEF LastInv, StepPlaces, StepLast, ClaimInv, StepInv
<1>8. EndInv
  BY <1>1 DEF EndInv, StepKept, AppAssumption, Tasks
<1>. QED  BY <1>3, <1>4, <1>5, <1>6, <1>7, <1>8 DEF IInv, TypeInv

\* is kept by every step of every task and of the timer,
LEMMA InvNext ==
  ASSUME AppAssumption, IInv, [Next]_vars
  PROVE  IInv'
<1>. QED  BY PcStep, FlagsStep, HooksStep, RanStep, ApartStep, LastStep, ClaimStep, StepStep,
       EndStep DEF IInv, TypeInv

\* and says that the restart is in order.
LEMMA InvGives ==
  ASSUME AppAssumption, IInv
  PROVE  TypeOK /\ HooksOnce /\ LoopApart /\ StepLast /\ StepKept
<1>1. TypeOK
  BY DEF IInv, TypeInv, PcInv, FlagsInv, TypeOK
<1>2. HooksOnce
  BY DEF IInv, HooksInv, RanInv, HooksOnce, InHooks, AtHooks, HookPlaces
<1>3. LoopApart
  BY DEF IInv, HooksInv, ApartInv, LoopApart, AtHooks, HookPlaces, Unanswered
<1>. QED  BY <1>1, <1>2, <1>3 DEF IInv, LastInv, EndInv

\* For any callers and any number of modules: the hooks run once and in order, apart
\* from a loop that answers, the last step runs after the hooks and the flush, and no
\* reset takes an accepted step away (App::restartDevice, App::restartNow).
THEOREM RestartOrdered ==
  ASSUME AppAssumption
  PROVE  Spec => [](TypeOK /\ HooksOnce /\ LoopApart /\ StepLast /\ StepKept)
<1>1. Init => IInv
  BY InvInit
<1>2. IInv /\ [Next]_vars => IInv'
  BY InvNext
<1>3. IInv => TypeOK /\ HooksOnce /\ LoopApart /\ StepLast /\ StepKept
  BY InvGives
<1>. QED  BY <1>1, <1>2, <1>3, PTL DEF Spec
==============================================================================
