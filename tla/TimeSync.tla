------------------------------ MODULE TimeSync ------------------------------
(* TimeSync and TimeArbiter (lib/ESPRack/src/time/): which sample may step the   *)
(* wall clock, for how long the clock is taken for valid, and what of that a     *)
(* soft reset keeps. The clock is modelled by its error against true time, so    *)
(* that "valid" can be held against what the clock shows. The clock's rate is    *)
(* off by at most one unit of error a tick (30 ppm).  Nobody steps the clock but *)
(* TimeSync (loop() only reports such a step, it judges no sample by it), and    *)
(* disputed() is left out: it is reported, no sample is judged by it either.     *)
EXTENDS Integers, FiniteSets

CONSTANTS
    Sources,    \* of {"ntp", "gps", "rtc", "man"}
    Fresh,      \* freshMs of a source, in ticks
    StepMin,    \* stepMinMs of a source
    Acc,        \* the accuracy its samples come with
    MaxUnc,     \* maxUncertaintyMs
    StaleAfter, \* staleAfterMs, in ticks
    BigJump, Confirm, Spread, CrossCheck,   \* of a big jump (Spread in ticks)
    SampleAge,  \* kMaxSampleAgeMs, in ticks
    HoldAge,    \* kHoldMaxAgeS, in ticks
    Wild,       \* the error of a wild GPS fix
    Burst,      \* wild fixes, all in one tick (bound)
    Rate,       \* a tick, in units of error
    MaxT,       \* ticks (bound)
    MaxResets   \* restarts (bound)

VARIABLES
    t,          \* true time
    off,        \* the clock's error; Lost: it shows 1970
    arb,        \* the arbiter
    slot,       \* samples handed over by other tasks: SNTP's, the operator's
    told,       \* _prevValid
    ever,       \* _everValid
    hold,       \* the record in RTC memory
    burst,      \* wild fixes so far and their tick
    resets

vars == <<t, off, arb, slot, told, ever, hold, burst, resets>>

Rank == [none |-> 0, hold |-> 1, man |-> 2, rtc |-> 3, gps |-> 4, ntp |-> 5]
Lost == -1000
None == [at |-> -1]
Abs(n) == IF n < 0 THEN -n ELSE n
NoPend == [n |-> 0, base |-> 0, first |-> 0]

Fresh0 == [at |-> [s \in Sources |-> -1], ref |-> None, sync |-> None,
           pend |-> [s \in Sources |-> NoPend], src |-> "none", acc |-> 0, last |-> 0]

\* what the clock shows, in units of error
Shows(o) == Rate * t + o

Unc(a) == a.ref.acc + (t - a.ref.at)
Valid(a, o) == a.ref # None /\ Unc(a) < MaxUnc /\ o # Lost
Stale(a) == a.sync = None \/ (t - a.sync.at) + a.sync.bias > StaleAfter

Authority(a) ==
    LET fresh == {s \in Sources : a.at[s] >= 0 /\ t - a.at[s] < Fresh[s]}
    IN IF fresh = {} THEN "none"
       ELSE CHOOSE s \in fresh : \A u \in fresh : Rank[u] <= Rank[s]

Eligible(a, o, smp) ==
    \/ ~Valid(a, o)
    \/ Rank[smp.src] >= Rank[Authority(a)]
    \/ Stale(a)
    \/ smp.src = "man" /\ Authority(a) \notin {"gps", "ntp"}

Applied_AsTaken(smp) == smp.err - Rate * (t - smp.at)
\* the clock's error once it shows what the sample says, carried to now
Applied(smp) == smp.err
Delta(o, smp) == Applied(smp) - o

Jump(a, o, smp) ==
    Valid(a, o) /\ Abs(Delta(o, smp)) > BigJump /\ smp.src \notin {"ntp", "man"}

\* the pending set of a source after one more sample of a big jump
Pended(p, smp) ==
    IF p.n = 0 \/ Abs(smp.err - p.base) > CrossCheck
    THEN [n |-> 1, base |-> smp.err, first |-> smp.at]
    ELSE [p EXCEPT !.n = IF @ < Confirm THEN @ + 1 ELSE @]   \* more tell nothing

Confirmed_Count(p, smp) == p.n >= Confirm
Confirmed(p, smp) == p.n >= Confirm /\ smp.at - p.first >= Spread

Accept(a, smp) ==
    [a EXCEPT !.at[smp.src] = t, !.ref = [at |-> t, acc |-> Acc[smp.src]],
              !.sync = IF smp.src \in {"ntp", "gps"} THEN [at |-> t, bias |-> 0] ELSE @,
              !.pend[smp.src] = NoPend,
              !.src = smp.src, !.acc = Acc[smp.src]]

Saved(a, o) == [ok |-> TRUE, src |-> a.src, sync |-> a.last, valid |-> Shows(o), acc |-> a.acc]

\* submitInternal() of one sample: [arb, off, hold] after it
Submit(s, smp) ==
    LET p == Pended(s.arb.pend[smp.src], smp)
        steps == Abs(Delta(s.off, smp)) >= StepMin[smp.src]
        o == IF steps THEN Applied(smp) ELSE s.off
        a == [Accept(s.arb, smp) EXCEPT !.last = Shows(o)]
    IN IF t - smp.at > SampleAge \/ ~Eligible(s.arb, s.off, smp) THEN s
       ELSE IF Jump(s.arb, s.off, smp) /\ ~Confirmed(p, smp)
            THEN [s EXCEPT !.arb.pend[smp.src] = p]
            ELSE [arb |-> a, off |-> o, hold |-> Saved(a, o)]

Now == [arb |-> arb, off |-> off, hold |-> hold]
Then(s) == arb' = s.arb /\ off' = s.off /\ hold' = s.hold

Init ==
    /\ t = 0 /\ off = Lost /\ arb = Fresh0
    /\ slot = [ntp |-> None, man |-> None] /\ told = FALSE /\ ever = FALSE
    /\ hold = [ok |-> FALSE] /\ burst = [n |-> 0, at |-> 0] /\ resets = 0

\* the worst of one sign (the clock drifts both ways)
Errors(s) == {Acc[s]}

\* lwIP's thread, the web server's task: one slot each, the newest is kept
Hand(s) ==
    /\ \E e \in Errors(s) : slot' = [slot EXCEPT ![s] = [src |-> s, err |-> e, at |-> t]]
    /\ UNCHANGED <<t, off, arb, told, ever, hold, burst, resets>>

\* a module offers a sample from its onLoop()
Offer(s) ==
    /\ \E e \in Errors(s) : Then(Submit(Now, [src |-> s, err |-> e, at |-> t]))
    /\ UNCHANGED <<t, slot, told, ever, burst, resets>>

\* a burst of wild fixes, shorter than the spread a big jump needs, while there is a
\* valid clock to hold them against
OfferWild ==
    /\ "gps" \in Sources /\ Valid(arb, off) /\ burst.n < Burst /\ (burst.n > 0 => burst.at = t)
    /\ burst' = [n |-> burst.n + 1, at |-> t]
    /\ Then(Submit(Now, [src |-> "gps", err |-> Wild, at |-> t]))
    /\ UNCHANGED <<t, slot, told, ever, resets>>

\* loop(): what other tasks handed over, then the edge, then the hold record
Taken(s, smp) == IF smp = None THEN s ELSE Submit(s, smp)
Loop ==
    /\ told # Valid(arb, off) \/ slot.ntp # None \/ slot.man # None
    /\ LET s == Taken(Taken(Now, slot.ntp), slot.man)
           valid == Valid(s.arb, s.off)
       IN /\ arb' = s.arb /\ off' = s.off
          /\ hold' = s.hold
          /\ told' = valid /\ ever' = (ever \/ valid)
    /\ slot' = [ntp |-> None, man |-> None]
    /\ UNCHANGED <<t, burst, resets>>

\* a tick: the clock drifts; the loop has seen the last edge long before it ends,
\* and while the clock is valid it has the hold record fresh
Tick ==
    /\ t < MaxT /\ told = Valid(arb, off)
    /\ t' = t + 1
    /\ \E d \in {-1, 1} : off' = IF off = Lost THEN Lost ELSE off + d
    /\ hold' = IF told THEN Saved(arb, off) ELSE hold
    /\ UNCHANGED <<arb, slot, told, ever, burst, resets>>

Usable_Any(soft) == hold.ok /\ Shows(off) >= hold.valid /\ Shows(off) < hold.valid + Rate * HoldAge
\* restoreHoldAtBoot() of a record that is whole
Usable(soft) == soft /\ hold.ok /\ Shows(off) >= hold.valid /\ Shows(off) < hold.valid + Rate * HoldAge
\* to the nearest tick: a clock that is off by parts of a million tells ages well
Age == IF Shows(off) > hold.sync THEN (Shows(off) - hold.sync + Rate \div 2) \div Rate ELSE 0
HoldUnc_Bare == hold.acc
HoldUnc == hold.acc + Age
Restored ==
    [Fresh0 EXCEPT !.ref = [at |-> t, acc |-> HoldUnc],
                   !.sync = IF hold.src \in {"ntp", "gps"} THEN [at |-> t, bias |-> Age] ELSE None,
                   !.src = hold.src, !.acc = hold.acc, !.last = hold.sync]

\* kind: a soft reset; another one that leaves the clock running, but not well (deep
\* sleep); the power goes
Restart(kind) ==
    /\ resets < MaxResets /\ resets' = resets + 1
    /\ off' = CASE kind = "power" -> Lost
                [] kind = "sleep" /\ off # Lost -> off + MaxUnc
                [] OTHER -> off
    /\ LET soft == kind = "soft"
       IN IF kind # "power" /\ off # Lost /\ Usable(soft)
          THEN arb' = Restored /\ hold' = hold
          ELSE arb' = Fresh0 /\ hold' = [ok |-> FALSE]
    /\ slot' = [ntp |-> None, man |-> None] /\ told' = FALSE /\ ever' = FALSE
    /\ UNCHANGED <<t, burst>>

Next ==
    \/ \E s \in Sources \cap {"ntp", "man"} : Hand(s)
    \/ \E s \in Sources \ {"ntp", "man"} : Offer(s)
    \/ OfferWild \/ Loop \/ Tick
    \/ \E kind \in {"soft", "sleep", "power"} : Restart(kind)

Spec == Init /\ [][Next]_vars

TypeOK ==
    /\ t \in 0..MaxT /\ off \in Int
    /\ \A s \in Sources : arb.at[s] \in -1..MaxT /\ arb.pend[s].n \in 0..Confirm
    /\ arb.src \in {"none"} \cup Sources
    /\ told \in BOOLEAN /\ ever \in BOOLEAN /\ hold.ok \in BOOLEAN /\ burst.n \in 0..Burst

\* A clock that claims to be valid is off by no more than the uncertainty it
\* states and the smallest step its sources make, whatever the samples waited,
\* the clock drifted and the restarts in between: a restored hold counts the
\* drift since the last sync, and a burst of wild fixes never steps a valid clock.
WorstStep == LET S == {StepMin[s] : s \in Sources} IN CHOOSE n \in S : \A m \in S : m <= n
Honest == Valid(arb, off) => Abs(off) <= Unc(arb) + WorstStep

Sane_Now == Valid(arb, off)
\* clockSane(): valid, or valid earlier this boot and the clock is plausible
Sane == Valid(arb, off) \/ (ever /\ off # Lost)

\* Once the loop has found the clock good it is to be trusted until the device restarts:
\* the expiry checks of tokens and certificates never fall back in the middle.
SaneStays == ever => Sane
=============================================================================
