------------------------------ MODULE WriteGate ------------------------------
(***************************************************************************)
(* The flash write gate: WriteGateCore (the rules) and WriteGate (blocking *)
(* writers that queue for them).  A flash write stalls every task that     *)
(* runs from flash, so time-critical parts (the holders) open a window     *)
(* while they need the CPU, and writers go in the pauses between windows.  *)
(*                                                                         *)
(* Time is a tick, and every time stamp of the core is kept as its age at  *)
(* the present tick (now - openedAt, now - _lastEnd, now - since) or, for  *)
(* a forecast, as the time left (nextAt - now).  An age stops growing once *)
(* no rule can tell it from a larger one, so the model has finitely many   *)
(* states without a bound on the length of a run.  Statistics and the      *)
(* retry hint of a Wait verdict are left out: a blocked writer asks again  *)
(* whenever it is woken, and after a second at the latest.                 *)
(***************************************************************************)
EXTENDS Integers, Sequences, FiniteSets

CONSTANTS
  Holders,    \* the parts that open windows
  Blockers,   \* writers that block in WriteGate::enter, queued by ticket
  Triers,     \* writers that only try (WriteGate::tryEnter), never queued
  OnlyFree,   \* the triers whose write fits no pause (onlyFree)
  Hurried,    \* the blockers whose wait is bounded (boundMs, or a hurry flag)
  MinPause,   \* minPauseMs, in ticks
  MaxWindow,  \* maxWindowMs
  Idle,       \* idleMs
  MaxWait,    \* maxWaitMs
  Pauses,     \* the forecasts a holder gives when it closes its window
  MaxQueue    \* kMaxQueue: places in the queue

Writers == Blockers \cup Triers

ASSUME GateAssumption ==
  /\ IsFiniteSet(Holders) /\ IsFiniteSet(Writers)
  /\ Blockers \cap Triers = {}
  /\ OnlyFree \subseteq Triers /\ Hurried \subseteq Blockers
  /\ MinPause \in Nat \ {0} /\ MaxWindow \in Nat \ {0}
  /\ Idle \in Nat \ {0} /\ MaxWait \in Nat \ {0} /\ MaxQueue \in Nat
  /\ Pauses \subseteq Nat /\ IsFiniteSet(Pauses)

GiveUp == MaxWait + MaxWindow
Lesser(a, b) == IF a < b THEN a ELSE b
HowSet == {"none", "early", "free", "pause", "late", "window", "forced"}

VARIABLES
  open,       \* Holder::open, per holder
  age,        \* ticks since the holder's window opened (0 when closed)
  forecast,   \* Holder::forecast: the last close said when the next window comes
  nextIn,     \* ... ticks until then (0 without a forecast)
  used,       \* _used: a window was ever opened
  pause,      \* _pause: between windows
  taken,      \* _pauseTaken: a writer went in this pause
  sinceEnd,   \* ticks since the last window ended (_lastEnd)
  writing,    \* _writing
  queue,      \* _queue: the blocked writers' tickets, first come first
  pc,         \* what each writer is doing
  waited,     \* ticks since the writer's `since`
  how,        \* how the write under way was let through (history)
  gated,      \* writes let through between windows in this pause (history, up to 2)
  promised,   \* ticks left of the room a write was given before h's window (history)
  power       \* PowerGuard: "ok", "fail" (the supply), or "latched" until restart

core == <<open, age, forecast, nextIn, used, pause, taken, sinceEnd, writing>>
vars == <<core, queue, pc, waited, how, gated, promised, power>>

Init ==
  /\ open = [h \in Holders |-> FALSE] /\ age = [h \in Holders |-> 0]
  /\ forecast = [h \in Holders |-> FALSE] /\ nextIn = [h \in Holders |-> 0]
  /\ used = FALSE /\ pause = FALSE /\ taken = FALSE /\ sinceEnd = 0
  /\ writing = 0 /\ queue = <<>>
  /\ pc = [w \in Writers |-> "idle"] /\ waited = [w \in Writers |-> 0]
  /\ how = [w \in Writers |-> "none"]
  /\ gated = 0 /\ promised = [h \in Holders |-> 0]
  /\ power = "ok"

-----------------------------------------------------------------------------
(* windowOpen(now): windows at their limit end first, at the moment they   *)
(* reached it.  The operators ending in Now are the core's fields after it *)
(* ran; every call of the core runs it before it decides anything.         *)

Expired(h) == open[h] /\ age[h] >= MaxWindow
OpenNow == [h \in Holders |-> open[h] /\ ~Expired(h)]
WindowNow == \E h \in Holders : OpenNow[h]
AllLapsed == ~WindowNow /\ \E h \in Holders : Expired(h)
PauseNow == pause \/ AllLapsed
TakenNow == taken /\ ~AllLapsed

\* Ticks since the last window ended: the youngest of those that lapsed last.
LastLapsed == {h \in Holders : Expired(h) /\ \A o \in Holders : Expired(o) => age[h] <= age[o]}
SinceEndNow == IF AllLapsed THEN {age[h] - MaxWindow : h \in LastLapsed} ELSE {sinceEnd}

GatedNow == IF AllLapsed THEN 0 ELSE gated
AgeNow == [h \in Holders |-> IF OpenNow[h] THEN age[h] ELSE 0]

\* The core after windowOpen, when the call changes nothing else of it.
Lapse ==
  /\ open' = OpenNow /\ age' = AgeNow
  /\ pause' = PauseNow /\ sinceEnd' \in SinceEndNow
  /\ UNCHANGED <<forecast, nextIn, used>>

-----------------------------------------------------------------------------
(* Holders. *)

\* A holder keeps its word: no window before its forecast.
Open(h) ==
  /\ ~OpenNow[h]
  /\ forecast[h] => nextIn[h] <= 0
  /\ open' = [OpenNow EXCEPT ![h] = TRUE]
  /\ age' = [AgeNow EXCEPT ![h] = 0]
  /\ forecast' = [forecast EXCEPT ![h] = FALSE]
  /\ nextIn' = [nextIn EXCEPT ![h] = 0]
  /\ used' = TRUE /\ pause' = FALSE
  /\ taken' = TakenNow /\ sinceEnd' \in SinceEndNow /\ gated' = GatedNow
  /\ UNCHANGED <<writing, queue, pc, waited, how, promised, power>>

\* Only the last open window's end starts a pause; a holder that closes while
\* another is open still leaves its forecast.
EndWindow(h) == ~\E o \in Holders \ {h} : OpenNow[o]

Close(h) ==
  /\ OpenNow[h]
  /\ open' = [OpenNow EXCEPT ![h] = FALSE]
  /\ age' = [AgeNow EXCEPT ![h] = 0]
  /\ \/ UNCHANGED <<forecast, nextIn>>
     \/ \E p \in Pauses : /\ forecast' = [forecast EXCEPT ![h] = TRUE]
                          /\ nextIn' = [nextIn EXCEPT ![h] = p]
  /\ IF EndWindow(h) THEN pause' = TRUE /\ taken' = FALSE /\ sinceEnd' = 0 /\ gated' = 0
                     ELSE UNCHANGED <<pause, taken, sinceEnd, gated>>
  /\ UNCHANGED <<used, writing, queue, pc, waited, how, promised, power>>

-----------------------------------------------------------------------------
(* The decision. *)

\* A holder idleMs past its own forecast no longer counts.
Counting(h) == forecast[h] /\ nextIn[h] > -Idle
\* Fault: the last forecast counts instead of the earliest.
WindowWithin_Latest(n) ==
  /\ \E h \in Holders : Counting(h)
  /\ \A h \in Holders : Counting(h) => nextIn[h] < n
WindowWithin(n) == \E h \in Holders : Counting(h) /\ nextIn[h] < n
Quiet == ~used \/ \A n \in SinceEndNow : n >= Idle
Free == ~WindowNow /\ Quiet /\ ~WindowWithin(MaxWindow)

HeadOf(w) == queue = <<>> \/ (w \in Blockers /\ Head(queue) = w)
WritesAllowed == power = "ok"

\* Fault: several at once while free, as before the first window.
GoFree_Several == Free
GoFree == Free /\ ~(used /\ writing > 0)

GoInWindow(w) ==
  /\ WindowNow /\ w \notin OnlyFree /\ HeadOf(w)
  /\ writing = 0 /\ waited[w] >= GiveUp

Roomy == ~WindowWithin(MinPause)

GoBetween(w) ==
  /\ ~WindowNow /\ ~Free /\ w \notin OnlyFree
  /\ PauseNow \/ Quiet
  /\ ~TakenNow /\ writing = 0 /\ HeadOf(w)
  /\ \/ Roomy
     \/ waited[w] >= MaxWait /\ ~WindowWithin(1)
     \/ waited[w] >= GiveUp

Go(w) == GoFree \/ GoInWindow(w) \/ GoBetween(w)

\* Which rule let the writer through.
Reason(w) ==
  CASE GoFree -> IF used THEN "free" ELSE "early"
    [] GoInWindow(w) -> "window"
    [] OTHER -> IF Roomy THEN "pause" ELSE "late"

\* The room the writer may count on before each window that was forecast.
Room == IF Free THEN MaxWindow ELSE IF ~WindowNow /\ Roomy THEN MinPause ELSE 0
Promise == [h \in Holders |-> IF Counting(h) /\ Room > promised[h] THEN Room ELSE promised[h]]

Grant(w, reason) ==
  /\ writing' = writing + 1
  /\ pc' = [pc EXCEPT ![w] = "writing"]
  /\ how' = [how EXCEPT ![w] = reason]
  /\ waited' = [waited EXCEPT ![w] = 0]

\* A pause serves one writer.
\* Fault: the pause is not marked as used.
PauseUsed_Unmarked(w) == TakenNow
PauseUsed(w) == TakenNow \/ (GoBetween(w) /\ PauseNow)

\* enter() lets the writer through.
Enter(w) ==
  /\ WritesAllowed /\ Go(w)
  /\ Lapse
  /\ taken' = PauseUsed(w)
  /\ Grant(w, Reason(w))
  /\ gated' = IF GoBetween(w) THEN Lesser(GatedNow + 1, 2) ELSE GatedNow
  /\ promised' = Promise

\* enter() says Wait.
Wait(w) == WritesAllowed /\ ~Go(w)

\* force(): whatever the windows and the queue, unless the power fails.
ForceWrite(w) ==
  /\ Lapse
  /\ taken' = (TakenNow \/ PauseNow)
  /\ Grant(w, "forced")
  /\ gated' = IF PauseNow /\ GatedNow = 0 THEN 1 ELSE GatedNow
  /\ UNCHANGED promised

-----------------------------------------------------------------------------
(* Writers. *)

\* quit(): the writer's ticket leaves the queue.
\* Fault: it stays there.
Others_Kept(w) == queue
Others(w) ==
  IF \E i \in DOMAIN queue : queue[i] = w
  THEN LET i == CHOOSE j \in DOMAIN queue : queue[j] = w
       IN  SubSeq(queue, 1, i - 1) \o SubSeq(queue, i + 1, Len(queue))
  ELSE queue

\* A blocking writer starts to wait: WriteGate::enter up to its loop.  Its
\* `since` may be older than this call.
Join(w) ==
  /\ pc[w] = "idle"
  /\ pc' = [pc EXCEPT ![w] = "waiting"]
  /\ queue' = IF Len(queue) < MaxQueue THEN Append(queue, w) ELSE queue
  /\ \E since \in {0, MaxWait} : waited' = [waited EXCEPT ![w] = since]
  /\ UNCHANGED <<core, how, gated, promised, power>>

\* One turn of the loop, when it ends the wait.
Admit(w) ==
  /\ pc[w] = "waiting" /\ Enter(w)
  /\ queue' = Others(w)
  /\ UNCHANGED power

\* ... when the writer's own bound has run out, or it is told to hurry.
AdmitLate(w) ==
  /\ pc[w] = "waiting" /\ w \in Hurried /\ Wait(w)
  /\ ForceWrite(w)
  /\ queue' = Others(w)
  /\ UNCHANGED power

\* ... when the power fails: the caller gets false and keeps its data.
Refuse(w) ==
  /\ pc[w] = "waiting" /\ ~WritesAllowed
  /\ pc' = [pc EXCEPT ![w] = "idle"]
  /\ waited' = [waited EXCEPT ![w] = 0]
  /\ queue' = Others(w)
  /\ UNCHANGED <<core, how, gated, promised, power>>

\* ... when the verdict is Wait: only the core's expiry shows.
AskAgain(w) ==
  /\ pc[w] = "waiting" /\ Wait(w)
  /\ Lapse /\ taken' = TakenNow /\ gated' = GatedNow
  /\ UNCHANGED <<writing, queue, pc, waited, how, promised, power>>

\* A job of the FlashWriter has something to write (its since starts here).
Want(w) ==
  /\ pc[w] = "idle"
  /\ pc' = [pc EXCEPT ![w] = "wanting"]
  /\ UNCHANGED <<core, queue, waited, how, gated, promised, power>>

TryEnter(w) ==
  /\ pc[w] = "wanting" /\ Enter(w)
  /\ UNCHANGED <<queue, power>>

\* Fault: the write under way is never taken off the count.
Leave_Uncounted(w) ==
  /\ pc[w] = "writing"
  /\ pc' = [pc EXCEPT ![w] = "idle"] /\ how' = [how EXCEPT ![w] = "none"]
  /\ UNCHANGED <<core, queue, waited, gated, promised, power>>

Leave(w) ==
  /\ pc[w] = "writing"
  /\ writing' = writing - 1
  /\ pc' = [pc EXCEPT ![w] = "idle"]
  /\ UNCHANGED <<open, age, forecast, nextIn, used, pause, taken, sinceEnd>>
  /\ how' = [how EXCEPT ![w] = "none"]
  /\ UNCHANGED <<queue, waited, gated, promised, power>>

-----------------------------------------------------------------------------
(* Time and power. *)

Tick ==
  /\ age' = [h \in Holders |->
               IF open[h] THEN Lesser(age[h] + 1, MaxWindow + Idle) ELSE 0]
  /\ nextIn' = [h \in Holders |->
                  IF forecast[h] /\ nextIn[h] > -Idle THEN nextIn[h] - 1 ELSE nextIn[h]]
  /\ sinceEnd' = IF used THEN Lesser(sinceEnd + 1, Idle) ELSE sinceEnd
  /\ waited' = [w \in Writers |->
                  IF pc[w] \in {"waiting", "wanting"} THEN Lesser(waited[w] + 1, GiveUp)
                                                      ELSE waited[w]]
  /\ promised' = [h \in Holders |-> IF promised[h] > 0 THEN promised[h] - 1 ELSE 0]
  /\ UNCHANGED <<open, forecast, used, pause, taken, writing, queue, pc, how, gated, power>>

Power(from, to) ==
  /\ power \in from /\ power' = to
  /\ UNCHANGED <<core, queue, pc, waited, how, gated, promised>>

SetSupply == Power({"ok"}, "fail") \/ Power({"fail"}, "ok")
LatchWritesOff == Power({"ok", "fail"}, "latched")

Next ==
  \/ \E h \in Holders : Open(h) \/ Close(h)
  \/ \E w \in Blockers : Join(w) \/ Admit(w) \/ AdmitLate(w) \/ Refuse(w) \/ AskAgain(w)
  \/ \E w \in Triers : Want(w) \/ TryEnter(w)
  \/ \E w \in Writers : Leave(w)
  \/ Tick \/ SetSupply \/ LatchWritesOff

(* A write ends and the clock runs.  A blocked writer asks again at least  *)
(* every second, and each step that turns its verdict into Go (a close, a  *)
(* leave) also wakes it: only losing that race for ever could starve it,   *)
(* which strong fairness rules out.                                        *)
Fairness ==
  /\ WF_vars(Tick)
  /\ \A w \in Writers : WF_vars(Leave(w))
  /\ \A w \in Blockers : SF_vars(Admit(w)) /\ WF_vars(Refuse(w))

Spec == Init /\ [][Next]_vars /\ Fairness

-----------------------------------------------------------------------------
\* The core's fields stay in their ranges: as many writes under way as were let
\* in and not yet ended, never more than the writers there are, ages bounded.
TypeOK ==
  /\ open \in [Holders -> BOOLEAN] /\ age \in [Holders -> 0..(MaxWindow + Idle)]
  /\ forecast \in [Holders -> BOOLEAN] /\ nextIn \in [Holders -> Int]
  /\ used \in BOOLEAN /\ pause \in BOOLEAN /\ taken \in BOOLEAN
  /\ sinceEnd \in 0..Idle /\ writing \in 0..Cardinality(Writers)
  /\ queue \in Seq(Blockers)
  /\ pc \in [Writers -> {"idle", "waiting", "wanting", "writing"}]
  /\ waited \in [Writers -> 0..GiveUp] /\ how \in [Writers -> HowSet]
  /\ gated \in 0..2 /\ promised \in [Holders -> Nat]
  /\ power \in {"ok", "fail", "latched"}

Writing == {w \in Writers : pc[w] = "writing"}

\* Once a holder has opened a window, writes go one at a time: two under way
\* together means that one was forced, or that both began before any window.
Exclusive ==
  \A v, w \in Writing :
    v # w => \/ "forced" \in {how[v], how[w]}
             \/ how[v] = "early" /\ how[w] = "early"

\* At most one write goes between two windows, and none after a forced one.
OnePerPause == gated <= 1

\* A write let through with room before a forecast window meets no window of
\* that holder while its room lasts.
ForecastHonoured == \A h \in Holders : promised[h] > 0 => ~open[h]

\* A blocked writer gets its answer, however busy the holders are.
Answered == \A w \in Blockers : pc[w] = "waiting" ~> pc[w] # "waiting"
==============================================================================
