----------------------------- MODULE LoopTurn ------------------------------
(* The turn of the loop task (App::loop, lib/ESPRack/src/App.cpp): it does what   *)
(* other tasks asked for and what is due, then waits for the nearest deadline or  *)
(* for a wakeLoop(). The loop watchdog (system/LoopWdt.cpp) watches it unless one *)
(* of the tasks has paused it; who changes that brings the watchdog in line       *)
(* outside the lock, and who finds another at it leaves it to that one.           *)
EXTENDS Integers

CONSTANTS
    Tasks,      \* the other tasks
    Period,     \* of the module's timer, in units of time
    MaxWait,    \* ESPRACK_LOOP_MAX_WAIT_MS
    Timeout,    \* of the watchdog
    MaxPauses   \* pauses in force at once (bound)

VARIABLES
    asked,      \* a flag other tasks set and the loop serves
    sem,        \* s_wake: 0 or 1
    loop,       \* at "pass", "look" or "wait"
    wait,       \* what is left of its wait
    timer,      \* until the module's timer is due
    task,       \* what each other task is at
    st,         \* Settle: armed, paused, on, busy, dirty
    dog,        \* the loop task is on the task watchdog
    age         \* since the watchdog was fed

vars == <<asked, sem, loop, wait, timer, task, st, dog, age>>

Least(a, b) == IF a < b THEN a ELSE b

Init ==
    /\ asked = FALSE /\ sem = 0
    /\ loop = "pass" /\ wait = 0 /\ timer = Period
    /\ task = [t \in Tasks |-> "idle"]
    /\ st = [armed |-> FALSE, paused |-> 0, on |-> FALSE, busy |-> FALSE, dirty |-> FALSE]
    /\ dog = FALSE /\ age = 0

Goes(t, from, to) == task[t] = from /\ task' = [task EXCEPT ![t] = to]

-----------------------------------------------------------------------------
(* The loop.                                                                      *)

\* Arduino feeds the watchdog once a turn; the flags are looked at, then the modules
Pass ==
    /\ loop = "pass" /\ loop' = "look"
    /\ age' = 0 /\ asked' = FALSE
    /\ timer' = IF timer = 0 THEN Period ELSE timer
    /\ UNCHANGED <<sem, wait, task, st, dog>>

Watched == st.armed /\ st.paused = 0

Bound == LET w == Least(timer, MaxWait)
         IN  IF Watched THEN Least(w, Timeout \div 2) ELSE w

\* Mutant of Look: what was given during the turn is taken for served.
Look_Drained ==
    /\ loop = "look" /\ wait' = Bound
    /\ loop' = IF wait' = 0 THEN "pass" ELSE "wait"
    /\ sem' = 0
    /\ UNCHANGED <<asked, timer, task, st, dog, age>>

\* loopWaitMs(); a wait of nothing is none
Look ==
    /\ loop = "look" /\ wait' = Bound
    /\ loop' = IF wait' = 0 THEN "pass" ELSE "wait"
    /\ UNCHANGED <<asked, sem, timer, task, st, dog, age>>

Woken ==
    /\ loop = "wait" /\ (sem = 1 \/ wait = 0)
    /\ loop' = "pass" /\ sem' = 0
    /\ UNCHANGED <<asked, wait, timer, task, st, dog, age>>

\* a turn takes no time worth counting: one that blocks is what the watchdog is for
Tick ==
    /\ loop = "wait" /\ sem = 0 /\ wait > 0
    /\ wait' = wait - 1 /\ timer' = IF timer = 0 THEN 0 ELSE timer - 1
    /\ age' = IF dog THEN age + 1 ELSE age
    /\ UNCHANGED <<asked, sem, loop, task, st, dog>>

-----------------------------------------------------------------------------
(* Other tasks ask for something: the flag, then wakeLoop().                      *)

Ask(t) ==
    /\ Goes(t, "idle", "asked")
    /\ asked' = TRUE
    /\ UNCHANGED <<sem, loop, wait, timer, st, dog, age>>

\* Mutant of Give: the flag alone.
Give_Unwoken(t) ==
    /\ Goes(t, "asked", "idle")
    /\ UNCHANGED <<asked, sem, loop, wait, timer, st, dog, age>>

Give(t) ==
    /\ Goes(t, "asked", "idle")
    /\ sem' = 1
    /\ UNCHANGED <<asked, loop, wait, timer, st, dog, age>>

-----------------------------------------------------------------------------
(* LoopWdt.                                                                       *)

Changes(t, s) ==
    /\ Goes(t, "idle", "changed")
    /\ st' = s
    /\ UNCHANGED <<asked, sem, loop, wait, timer, dog, age>>

Arm(t) == ~st.armed /\ Changes(t, [st EXCEPT !.armed = TRUE])

Pause(t) == st.paused < MaxPauses /\ Changes(t, [st EXCEPT !.paused = @ + 1])

\* one without a pause is ignored
Resume(t) == st.paused > 0 /\ Changes(t, [st EXCEPT !.paused = @ - 1])

\* Mutant of Leave: a change another task is at is not noted.
Leave_Unnoted(t) ==
    /\ Goes(t, "changed", "idle") /\ (st.busy \/ Watched = st.on)
    /\ UNCHANGED <<asked, sem, loop, wait, timer, st, dog, age>>

\* begin(), 0: another task is at it and looks again, or nothing is to be done
Leave(t) ==
    /\ Goes(t, "changed", "idle") /\ (st.busy \/ Watched = st.on)
    /\ st' = [st EXCEPT !.dirty = @ \/ st.busy]
    /\ UNCHANGED <<asked, sem, loop, wait, timer, dog, age>>

\* Mutant of Begin: two tasks may be at it at once.
Begin_Shared(t) ==
    /\ Watched # st.on
    /\ Goes(t, "changed", IF Watched THEN "enable" ELSE "disable")
    /\ st' = [st EXCEPT !.on = Watched, !.busy = TRUE, !.dirty = FALSE]
    /\ UNCHANGED <<asked, sem, loop, wait, timer, dog, age>>

\* begin(), +1 or -1
Begin(t) ==
    /\ ~st.busy /\ Watched # st.on
    /\ Goes(t, "changed", IF Watched THEN "enable" ELSE "disable")
    /\ st' = [st EXCEPT !.on = Watched, !.busy = TRUE, !.dirty = FALSE]
    /\ UNCHANGED <<asked, sem, loop, wait, timer, dog, age>>

\* enableLoopWDT() / disableLoopWDT(), no lock held
Switch(t) ==
    /\ task[t] \in {"enable", "disable"}
    /\ task' = [task EXCEPT ![t] = "switched"]
    /\ dog' = (task[t] = "enable") /\ age' = 0
    /\ UNCHANGED <<asked, sem, loop, wait, timer, st>>

\* end(): again when something changed meanwhile
End(t) ==
    /\ Goes(t, "switched", IF st.dirty THEN "changed" ELSE "idle")
    /\ st' = [st EXCEPT !.busy = FALSE, !.dirty = FALSE]
    /\ UNCHANGED <<asked, sem, loop, wait, timer, dog, age>>

-----------------------------------------------------------------------------

Turn == Pass \/ Look \/ Woken

Next ==
    \/ Pass \/ Look \/ Woken \/ Tick
    \/ \E t \in Tasks :
          \/ Ask(t) \/ Give(t) \/ Arm(t) \/ Pause(t) \/ Resume(t)
          \/ Leave(t) \/ Begin(t) \/ Switch(t) \/ End(t)

Spec == Init /\ [][Next]_vars

-----------------------------------------------------------------------------

TypeOK ==
    /\ asked \in BOOLEAN /\ sem \in 0 .. 1 /\ loop \in {"pass", "look", "wait"}
    /\ wait \in 0 .. MaxWait /\ timer \in 0 .. Period
    /\ task \in [Tasks -> {"idle", "asked", "changed", "enable", "disable", "switched"}]
    /\ st \in [armed : BOOLEAN, paused : 0 .. MaxPauses, on : BOOLEAN, busy : BOOLEAN, dirty : BOOLEAN]
    /\ dog \in BOOLEAN /\ age \in 0 .. MaxWait

\* What a task asked for never waits for the loop's deadline: once its wakeLoop() is
\* out, the loop is in a turn or has a wake to take, whenever in its turn the flag was set.
NoLateWake ==
    asked /\ (\A t \in Tasks : task[t] # "asked") => loop # "wait" \/ sem = 1

\* However arm, pauses and resumes of several tasks overlap, the watchdog ends up on the
\* loop just when it is armed and nobody has it paused: none is skipped, none lands late.
InLine ==
    (\A t \in Tasks : task[t] \in {"idle", "asked"}) => dog = Watched

\* A loop that only waits is fed in time (LoopWdt.h: "App::loop waits half the timeout
\* at most"): the bound is taken when the wait begins, the watchdog may come on during it.
FedInTime == age < Timeout
=============================================================================
