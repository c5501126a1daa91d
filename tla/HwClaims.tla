------------------------------ MODULE HwClaims ------------------------------
(***************************************************************************)
(* Hardware claims of external hardware modules.  The registry keeps who   *)
(* holds which pin or channel; an instance that gives hardware up keeps it *)
(* as "releasing" until it says released().  A settings change on the web  *)
(* task asks, commits, claims and marks the pins to be switched; the loop  *)
(* task switches them, from a copy of the settings.  The registry's lock   *)
(* is taken with a timeout, and every caller has an answer for not having  *)
(* it.                                                                     *)
(***************************************************************************)
EXTENDS Naturals, Sequences, FiniteSets

CONSTANT MaxMiss  \* bound: registry locks not had in time

Instances == {1, 2}        \* in install order
Tasks == {"web", "loop"}   \* who changes settings: a button press is the loop's

NotSet == 98
Any == 99
Res(k, n) == [kind |-> k, index |-> n]
Gpio(n) == Res("gpio", n)
Sda(n) == Res("sda", n)    \* the data pin of the shared I2C bus
Ledc(n) == Res("ledc", n)

\* Settings that clash in each way the check knows.
Off == [off |-> TRUE, res |-> <<>>]
On(s) == [off |-> FALSE, res |-> s]
Asked(i) == IF i = 1 THEN {On(<<Gpio(4)>>), On(<<Gpio(5)>>)} ELSE {Off, On(<<Gpio(4)>>)}
Given(i) == Asked(i) \cup {On(s) : s \in
  IF i = 1 THEN {<<Gpio(4), Gpio(4)>>, <<Sda(5)>>, <<Ledc(0)>>}
           ELSE {<<Gpio(NotSet)>>, <<Gpio(1)>>, <<Sda(4)>>, <<Ledc(Any), Gpio(5)>>}}
NoteReserved == {1}
LedcBudget == 1

States == {"Ok", "NotConfigured", "Conflict", "Disabled"}
IsPin(r) == r.kind \in {"gpio", "sda"}
Shared(r) == r.kind = "sda"
RangeOf(s) == {s[k] : k \in DOMAIN s}
Fixed(r) == r.index \notin {NotSet, Any}

\* One piece of hardware; and both may hold it.
SameThing(a, b) == (a.kind = b.kind \/ (IsPin(a) /\ IsPin(b))) /\ a.index = b.index
Sharable(a, b) == Shared(a) /\ Shared(b)
Clash(a, b) ==
  /\ Fixed(a) /\ Fixed(b)
  /\ \/ SameThing(a, b) /\ ~Sharable(a, b)
     \/ Shared(a) /\ Shared(b) /\ a.index # b.index  \* one set of pins for a bus

VARIABLES
  cfg,      \* each instance's settings (its file and its state)
  shown,    \* the registry's answer as the instance last noted it
  pending,  \* _applyPending
  driven,   \* the hardware the instance has set up
  state,    \* Inst::state
  claims,   \* _claims: [owner, res, releasing]
  job,      \* a task on its way through a settings change
  pass,     \* the loop on its way through applyPins(): instance, copy, step
  loose,    \* a claim was not had, or released() was said from an older copy (history)
  missed

inst == <<cfg, shown, pending>>
reg == <<state, claims>>
vars == <<inst, driven, reg, job, pass, loose, missed>>

Claim(i, r, rel) == [owner |-> i, res |-> r, releasing |-> rel]
ClaimsOf(i) == {c \in claims : c.owner = i}
None == [at |-> "none", inst |-> 1, to |-> Off, got |-> "Ok"]
NoPass == [at |-> "none", inst |-> 1, res |-> {}, fresh |-> TRUE]

-----------------------------------------------------------------------------
(* The check and the claims: each under the registry's lock. *)

\* Fault: hardware being released is free.
Others_Active(cs, i) == {c.res : c \in {x \in cs : x.owner # i /\ ~x.releasing}}
Others(cs, i) == {c.res : c \in {x \in cs : x.owner # i}}

\* Channels in use by others, whatever their index, with this one's own.
Channels(cs, i, d) ==
  Cardinality({c \in cs : c.owner # i /\ c.res.kind = "ledc"}) +
  Cardinality({k \in DOMAIN d.res : d.res[k].kind = "ledc"})

Check(cs, i, d) ==
  \A k \in DOMAIN d.res : LET r == d.res[k] IN r.index # NotSet =>
    /\ IsPin(r) => r.index \notin NoteReserved
    /\ r.kind = "ledc" => Channels(cs, i, d) <= LedcBudget
    /\ \A j \in 1..(k - 1) : ~(Fixed(r) /\ SameThing(r, d.res[j]) /\ ~Sharable(r, d.res[j]))
    /\ \A o \in Others(cs, i) : ~Clash(r, o)

Verdict(cs, i, d) ==
  CASE d.off -> "Disabled"
    [] ~d.off /\ ~Check(cs, i, d) -> "Conflict"
    [] ~d.off /\ Check(cs, i, d) /\ \E r \in RangeOf(d.res) : r.index = NotSet -> "NotConfigured"
    [] OTHER -> "Ok"

\* What was set up stays claimed until released(); what was never, goes.
Dropped(cs, i, applied, keep) ==
  {[c EXCEPT !.releasing = TRUE] :
     c \in {x \in cs : x.owner = i /\ (x.releasing \/ applied) /\ x.res \notin keep}}
ReleaseAll(cs, i, applied) == {c \in cs : c.owner # i} \cup Dropped(cs, i, applied, {})
Replace(cs, i, d, applied) ==
  LET new == RangeOf(d.res)
  IN  {c \in cs : c.owner # i} \cup Dropped(cs, i, applied, new)
        \cup {Claim(i, r, FALSE) : r \in new}

\* Fault: an instance that moves gives its old hardware up at once.
After_Freed(cs, i, v, d, was) ==
  IF v = "Ok" THEN Replace(cs, i, d, FALSE) ELSE ReleaseAll(cs, i, was = "Ok")
After(cs, i, v, d, was) ==
  IF v = "Ok" THEN Replace(cs, i, d, was = "Ok") ELSE ReleaseAll(cs, i, was = "Ok")

Evaluate(i) ==
  LET v == Verdict(claims, i, cfg[i]) IN
  /\ state' = [state EXCEPT ![i] = v]
  /\ claims' = After(claims, i, v, cfg[i], state[i])

\* Fault: what another instance still has set up may go as well.
Free_All(i) == {c \in claims : ~c.releasing}
Free(i) == {c \in claims : ~(c.owner = i /\ c.releasing)}

-----------------------------------------------------------------------------
(* The boot pass, in install order: all of it runs before any task.  The   *)
(* first to claim wins, and an instance drives what it was given.          *)

FirstPass(c) ==
  LET v1 == Verdict({}, 1, c[1])
      k1 == After({}, 1, v1, c[1], "NotConfigured")
      v2 == Verdict(k1, 2, c[2])
  IN  [state |-> <<v1, v2>>, claims |-> After(k1, 2, v2, c[2], "NotConfigured")]

Wanted(i, c, s) == IF s[i] = "Ok" THEN RangeOf(c[i].res) ELSE {}

Init ==
  /\ cfg \in {c \in [Instances -> Given(1) \cup Given(2)] : \A i \in Instances : c[i] \in Given(i)}
  /\ LET b == FirstPass(cfg) IN
     /\ state = b.state /\ claims = b.claims /\ shown = b.state
     /\ driven = [i \in Instances |-> Wanted(i, cfg, b.state)]
  /\ pending = [i \in Instances |-> FALSE]
  /\ job = [t \in Tasks |-> None]
  /\ pass = NoPass /\ loose = FALSE /\ missed = 0

\* Restore factory pins: written without a claim, then the restart's boot pass.
RestoreFactory ==
  /\ pass.at = "none" /\ job["loop"].at = "none"
  /\ LET c == <<On(<<Gpio(5)>>), On(<<Gpio(4)>>)>>  \* the constructors' pins
         b == FirstPass(c)
     IN  /\ cfg' = c /\ state' = b.state /\ claims' = b.claims /\ shown' = b.state
         /\ driven' = [i \in Instances |-> Wanted(i, c, b.state)]
  /\ pending' = [i \in Instances |-> FALSE]
  /\ job' = [t \in Tasks |-> None]
  /\ loose' = FALSE
  /\ UNCHANGED <<pass, missed>>

-----------------------------------------------------------------------------
(* A settings change.  On the web it is asked first; the commit, the claim,*)
(* the noting of the answer and the mark for the loop are steps of their   *)
(* own.                                                                    *)

Misses == missed < MaxMiss /\ missed' = missed + 1
Had == missed' = missed
Step(t, at) == job' = [job EXCEPT ![t].at = at]
Stale(i) == pass' = IF pass.at # "none" /\ pass.inst = i THEN [pass EXCEPT !.fresh = FALSE] ELSE pass

\* validate(): a web write with pins that are not free is refused.
Ask(i, d) ==
  /\ job["web"].at = "none"
  /\ d # cfg[i] /\ (d.off \/ Check(claims, i, d))
  /\ job' = [job EXCEPT !["web"] = [None EXCEPT !.at = "commit", !.inst = i, !.to = d]]
  /\ UNCHANGED <<inst, driven, reg, pass, loose, missed>>

\* The button: setOutput(), in the state the instance noted; same pins.
Toggle(i) ==
  /\ pass.at = "none" /\ job["loop"].at = "none" /\ shown[i] = "Ok" /\ driven[i] # {}
  /\ job' = [job EXCEPT !["loop"] = [None EXCEPT !.at = "claim", !.inst = i]]
  /\ UNCHANGED <<inst, driven, reg, pass, loose, missed>>

Commit ==
  LET i == job["web"].inst IN
  /\ job["web"].at = "commit"
  /\ cfg' = [cfg EXCEPT ![i] = job["web"].to]
  /\ job' = [job EXCEPT !["web"] = [None EXCEPT !.at = "claim", !.inst = i]]
  /\ Stale(i)
  /\ UNCHANGED <<shown, pending, driven, reg, loose, missed>>

\* update(): not having the lock leaves claims and state as they are.
Update(t) ==
  LET i == job[t].inst IN
  /\ job[t].at = "claim" /\ Step(t, "state")
  /\ \/ Evaluate(i) /\ Had /\ UNCHANGED loose
     \/ Misses /\ loose' = TRUE /\ UNCHANGED reg
  /\ UNCHANGED <<inst, driven, pass>>

\* refreshHwState(): read under the registry's lock (lastState() needs none), noted after it.
ReadState(t) ==
  /\ job[t].at = "state"
  /\ job' = [job EXCEPT ![t].at = "note", ![t].got = state[job[t].inst]]
  /\ UNCHANGED <<inst, driven, reg, pass, loose, missed>>

Note(t) ==
  LET i == job[t].inst IN
  /\ job[t].at = "note"
  /\ shown' = [shown EXCEPT ![i] = job[t].got]
  /\ pending' = [pending EXCEPT ![i] = TRUE]
  /\ job' = [job EXCEPT ![t] = None]
  /\ Stale(i)
  /\ UNCHANGED <<cfg, driven, reg, loose, missed>>

-----------------------------------------------------------------------------
(* applyPins() on the loop, one instance after the other. *)

Copy(i) ==
  /\ pass.at = "none" /\ job["loop"].at = "none" /\ pending[i]
  /\ pass' = [at |-> "apply", inst |-> i, res |-> Wanted(i, cfg, shown), fresh |-> TRUE]
  /\ pending' = [pending EXCEPT ![i] = FALSE]
  /\ UNCHANGED <<cfg, shown, driven, reg, job, loose, missed>>

\* Let go of what is no longer wanted, tell the registry, set up the rest.  Only the loop
\* touches the hardware: what the web task does in between changes nothing of it.
Apply ==
  LET i == pass.inst IN
  /\ pass.at = "apply"
  /\ \/ Had /\ claims' = Free(i) /\ loose' = (loose \/ ~pass.fresh)
     \/ Misses /\ UNCHANGED <<claims, loose>>
  /\ driven' = [driven EXCEPT ![i] = pass.res]
  /\ pass' = NoPass
  /\ UNCHANGED <<inst, state, job>>

-----------------------------------------------------------------------------
Next ==
  \/ \E i \in Instances : \E d \in Asked(i) : Ask(i, d)
  \/ \E i \in Instances : Toggle(i) \/ Copy(i)
  \/ \E t \in Tasks : Update(t) \/ ReadState(t) \/ Note(t)
  \/ Commit \/ Apply \/ RestoreFactory

Spec == Init /\ [][Next]_vars

TypeOK ==
  /\ \A i \in Instances : cfg[i] \in Given(i)
  /\ shown \in [Instances -> States]
  /\ state \in [Instances -> States] /\ pending \in [Instances -> BOOLEAN]
  /\ \A c \in claims : c.owner \in Instances
  /\ pass.at \in {"none", "apply"}
  /\ loose \in BOOLEAN

\* Claims of two instances, those being released included, never name one piece of hardware
\* twice, two sets of pins for a bus, or more channels than the chip has (HwClaims::check).
ClaimsApart ==
  /\ \A c, o \in claims : c.owner # o.owner => ~Clash(c.res, o.res)
  /\ Cardinality({c.owner : c \in {x \in claims : x.res.kind = "ledc"}}) <= LedcBudget

\* No hardware is driven by two instances (applyPins: "no other instance can have started
\* driving them yet"), unless one of them drives what the registry could not be asked for, or
\* said released() from a copy older than its settings.
OneDriver ==
  ~loose =>
    \A a \in driven[1], b \in driven[2] : ~Clash(a, b)

\* What the comment in applyPins says, without the exceptions.
NeverTwoDrive == \A a \in driven[1], b \in driven[2] : ~Clash(a, b)
=============================================================================
