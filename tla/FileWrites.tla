----------------------------- MODULE FileWrites -----------------------------
(***************************************************************************)
(* The file manager's writes (FsWriteQueue): what the flash write gate     *)
(* lets in goes at once on the web task; the rest is kept in a few slots   *)
(* and done by the FlashWriter job, one bounded step in a gate slot at a   *)
(* time, in the order asked; a restart closes the queue and finishes what  *)
(* it has time for.  What the gate answers is chosen freely.  The volume   *)
(* is two directories and how many entries are left of each, itself        *)
(* included; the slots' lock is held for copies only, so a task's use of   *)
(* it is one step.                                                         *)
(***************************************************************************)
EXTENDS Naturals, TLAPS

CONSTANTS
  Slots,      \* kSlots
  FreeSteps,  \* kFreeSteps: steps of a tree at once, while a module holds windows
  TreeSize,   \* entries of the directory the volume starts with
  MaxOps      \* bound: writes asked for

Kinds == {"mkdir", "remove", "tree", "rename"}  \* all of "a"; a rename to "b"
Tasks == {"web", "job", "flush"}

VARIABLES
  left,     \* entries of each directory, itself included: 0 = there is none
  op,       \* _ops: [id, kind, state, steps] per slot
  next,     \* _next: the last number given
  web,      \* the asker: [at, slot, n]
  job,      \* the FlashWriter job: [at, slot]
  kicked,   \* the job is to run
  power,    \* PowerGuard: the supply fails once, and comes back
  closed,   \* _closed
  flush,    \* the restart's flush: [at, slot]
  locked,   \* who holds the step lock
  answered, \* numbers answered QUEUED (history)
  ended     \* numbers of finished writes (history)

vars == <<left, op, next, web, job, kicked, power, closed, flush, locked, answered, ended>>

Empty == [id |-> 0, kind |-> "mkdir", state |-> "none", steps |-> 0]
At(a, s) == [at |-> a, slot |-> s]

Init ==
  /\ left = [a |-> TreeSize, b |-> 0]
  /\ op = [s \in Slots |-> Empty] /\ next = 0
  /\ web = [at |-> "idle", slot |-> 0, n |-> 0]
  /\ job = At("idle", 0) /\ kicked = FALSE /\ power = "ok"
  /\ closed = FALSE /\ flush = At("none", 0) /\ locked = "none"
  /\ answered = {} /\ ended = {}

Powered == power # "fail"
Live(s) == op[s].state \in {"now", "queued", "running"}
Pending == {s \in Slots : Live(s)}

-----------------------------------------------------------------------------
(* One step of a write: one flash operation at most. *)

\* The directories after it, how it went, and whether there is another step.
StepOf(kind, done, l) ==
  CASE kind = "mkdir" -> IF l.a > 0 THEN [l |-> l, r |-> "exists", more |-> FALSE]
                         ELSE [l |-> [l EXCEPT !.a = 1], r |-> "ok", more |-> FALSE]
    [] kind = "rename" -> IF l.a = 0 THEN [l |-> l, r |-> "not found", more |-> FALSE]
                          ELSE IF l.b > 0 THEN [l |-> l, r |-> "exists", more |-> FALSE]
                          ELSE [l |-> [a |-> 0, b |-> l.a], r |-> "ok", more |-> FALSE]
    [] kind = "remove" -> IF l.a = 0 THEN [l |-> l, r |-> "not found", more |-> FALSE]
                          ELSE IF l.a > 1 THEN [l |-> l, r |-> "io error", more |-> FALSE]
                          ELSE [l |-> [l EXCEPT !.a = 0], r |-> "ok", more |-> FALSE]
    [] kind = "tree" -> IF l.a = 0
                        THEN [l |-> l, r |-> IF done > 0 THEN "ok" ELSE "not found", more |-> FALSE]
                        ELSE [l |-> [l EXCEPT !.a = @ - 1], r |-> "ok", more |-> l.a > 1]

\* advance(): the step lock is held.
Advance(s) ==
  LET e == StepOf(op[s].kind, op[s].steps, left) IN
  /\ left' = e.l
  /\ op' = [op EXCEPT ![s].steps = IF e.r = "ok" THEN @ + 1 ELSE @,
                      ![s].state = IF e.r = "ok" /\ e.more THEN @
                                   ELSE IF e.r = "ok" THEN "done" ELSE "failed"]
  /\ ended' = IF e.r = "ok" /\ e.more THEN ended ELSE ended \cup {op[s].id}
More(s) == LET e == StepOf(op[s].kind, op[s].steps, left) IN e.r = "ok" /\ e.more

-----------------------------------------------------------------------------
(* submit(), on the asker's task. *)

\* A free slot, else the oldest finished one.
\* Fault: a kept write's slot is given away.
Room_Any == {s \in Slots : op[s].state = "none" \/ \A o \in Slots : op[s].id <= op[o].id}
Room ==
  LET free == {s \in Slots : op[s].state = "none"} IN
  IF free # {} THEN free
  ELSE {s \in Slots : ~Live(s) /\ \A o \in Slots : ~Live(o) => op[s].id <= op[o].id}

\* Fault: a write goes at once although another is kept.
MayGo_Anyway == Powered
MayGo == Powered /\ Pending = {}

Submit(kind) ==
  /\ web.at = "idle" /\ ~closed /\ next < MaxOps
  /\ \E s \in Room, pass \in BOOLEAN :
       /\ pass => MayGo
       /\ next' = next + 1
       /\ op' = [op EXCEPT ![s] = [id |-> next + 1, kind |-> kind, steps |-> 0,
                                  state |-> IF pass THEN "now" ELSE "queued"]]
       /\ IF pass
          THEN web' = [at |-> "now", slot |-> s, n |-> 0] /\ UNCHANGED <<kicked, answered>>
          ELSE kicked' = TRUE /\ answered' = answered \cup {next + 1} /\ UNCHANGED web
  /\ UNCHANGED <<left, job, power, closed, flush, locked, ended>>

\* At once: the step lock for the whole of it.  A restart holds it: nothing is written.
NowLock ==
  /\ web.at = "now" /\ locked = "none" /\ locked' = "web"
  /\ web' = [web EXCEPT !.at = "step"]
  /\ UNCHANGED <<left, op, next, job, kicked, power, closed, flush, answered, ended>>
NowBusy ==
  /\ web.at = "now" /\ locked # "none"
  /\ op' = [op EXCEPT ![web.slot].state = "none"]
  /\ web' = [web EXCEPT !.at = "idle", !.slot = 0]
  /\ UNCHANGED <<left, next, job, kicked, power, closed, flush, locked, answered, ended>>

\* A tree stops after FreeSteps, if a module holds windows.
NowStep ==
  /\ web.at = "step"
  /\ Advance(web.slot)
  /\ \E holders \in BOOLEAN :
       LET stop == holders /\ op[web.slot].kind = "tree" /\ web.n + 1 >= FreeSteps IN
       IF ~More(web.slot) THEN web' = [at |-> "idle", slot |-> 0, n |-> 0] /\ locked' = "none"
       ELSE IF stop THEN web' = [web EXCEPT !.at = "rest"] /\ locked' = "none"
       ELSE web' = [web EXCEPT !.n = IF @ < FreeSteps THEN @ + 1 ELSE @] /\ UNCHANGED locked
  /\ UNCHANGED <<next, job, kicked, power, closed, flush, answered>>

\* The rest of a tree is kept; the pass is given back before.
\* Fault: nobody is told to do the rest.
NowRest_Quiet ==
  /\ web.at = "rest"
  /\ op' = [op EXCEPT ![web.slot].state = "queued"]
  /\ answered' = answered \cup {op[web.slot].id}
  /\ web' = [at |-> "idle", slot |-> 0, n |-> 0]
  /\ UNCHANGED <<left, next, job, kicked, power, closed, flush, locked, ended>>
NowRest ==
  /\ web.at = "rest"
  /\ op' = [op EXCEPT ![web.slot].state = "queued"]
  /\ answered' = answered \cup {op[web.slot].id}
  /\ kicked' = TRUE
  /\ web' = [at |-> "idle", slot |-> 0, n |-> 0]
  /\ UNCHANGED <<left, next, job, power, closed, flush, locked, ended>>

-----------------------------------------------------------------------------
(* run(), the FlashWriter job: one step, then back. *)

\* take(): the oldest kept write.
Kept == {s \in Slots : op[s].state \in {"queued", "running"}}
\* Fault: the newest first.
Take_Newest == {s \in Kept : \A o \in Kept : op[s].id >= op[o].id}
Take == {s \in Kept : \A o \in Kept : op[s].id <= op[o].id}

Run ==
  /\ job.at = "idle" /\ kicked
  /\ IF closed \/ Take = {} THEN kicked' = FALSE /\ UNCHANGED <<op, job>>
     ELSE \E s \in Take :
            /\ op' = [op EXCEPT ![s].state = "running"]
            /\ job' = At("slot", s) /\ UNCHANGED kicked
  /\ UNCHANGED <<left, next, web, power, closed, flush, locked, answered, ended>>

\* The gate's slot, then the step lock; PowerGuard keeps the job for later.
RunLock ==
  /\ job.at = "slot" /\ Powered /\ locked = "none"
  /\ locked' = "job" /\ job' = [job EXCEPT !.at = "step"]
  /\ UNCHANGED <<left, op, next, web, kicked, power, closed, flush, answered, ended>>
RunLater ==
  /\ job.at = "slot" /\ (~Powered \/ locked # "none")
  /\ job' = At("idle", 0)
  /\ UNCHANGED <<left, op, next, web, kicked, power, closed, flush, locked, answered, ended>>

RunStep ==
  /\ job.at = "step"
  /\ IF closed THEN UNCHANGED <<left, op, ended>> ELSE Advance(job.slot)
  /\ locked' = "none" /\ job' = At("idle", 0)
  /\ UNCHANGED <<next, web, kicked, power, closed, flush, answered>>

PowerFails == power = "ok" /\ power' = "fail" /\ UNCHANGED <<left, op, next, web, job, kicked, closed, flush, locked, answered, ended>>
PowerBack == power = "fail" /\ power' = "back" /\ UNCHANGED <<left, op, next, web, job, kicked, closed, flush, locked, answered, ended>>

-----------------------------------------------------------------------------
(* A restart: close() from the module's hook, then the flush. *)

Close ==
  /\ ~closed /\ closed' = TRUE
  /\ UNCHANGED <<left, op, next, web, job, kicked, power, flush, locked, answered, ended>>

\* The step under way ends first; it may outlast the bound.
Shutdown ==
  /\ closed /\ flush.at = "none"
  /\ IF locked = "none" THEN locked' = "flush" /\ flush' = At("take", 0)
     ELSE UNCHANGED locked /\ flush' = At("over", 0)
  /\ UNCHANGED <<left, op, next, web, job, kicked, power, closed, answered, ended>>

FlushTake ==
  /\ flush.at = "take" /\ Powered
  /\ \E s \in Take : op' = [op EXCEPT ![s].state = "running"] /\ flush' = At("step", s)
  /\ UNCHANGED <<left, next, web, job, kicked, power, closed, locked, answered, ended>>
FlushStep ==
  /\ flush.at = "step" /\ Advance(flush.slot) /\ flush' = At("take", 0)
  /\ UNCHANGED <<next, web, job, kicked, power, closed, locked, answered>>
\* Nothing left, no time left, or PowerGuard: the step lock stays taken.
FlushEnds ==
  /\ flush.at = "take" /\ flush' = At("over", 0)
  /\ UNCHANGED <<left, op, next, web, job, kicked, power, closed, locked, answered, ended>>

-----------------------------------------------------------------------------
RunOn == Run \/ RunLock \/ RunLater \/ RunStep
NowOn == NowLock \/ NowBusy \/ NowStep \/ NowRest
Next ==
  \/ \E k \in Kinds : Submit(k)
  \/ RunOn \/ NowOn \/ PowerFails \/ PowerBack \/ Close \/ Shutdown \/ FlushTake \/ FlushStep \/ FlushEnds

Spec == Init /\ [][Next]_vars

TypeOK ==
  /\ left \in [a : 0..TreeSize, b : 0..TreeSize]
  /\ \A s \in Slots : op[s].kind \in Kinds /\ op[s].id \in 0..MaxOps
  /\ next \in 0..MaxOps /\ power \in {"ok", "fail", "back"} /\ {kicked, closed} \subseteq BOOLEAN
  /\ web.at \in {"idle", "now", "step", "rest"} /\ job.at \in {"idle", "slot", "step"}
  /\ flush.at \in {"none", "take", "step", "over"} /\ locked \in Tasks \cup {"none"}

\* A write answered QUEUED is never lost: it is kept, or it ended (submit(), freeSlot()).
QueuedKept == \A n \in answered : n \in ended \/ \E s \in Pending : op[s].id = n

\* No step of a write while an older one is not finished ("Nothing goes ahead of a write kept
\* here"), whoever does the steps: the asker, the job or the restart's flush.
Stepped(s) == op'[s].id = op[s].id /\ (op'[s].steps # op[s].steps \/ (Live(s) /\ op'[s].state \in {"done", "failed"}))
InOrder == \A s \in Slots : Stepped(s) => \A o \in Pending : op[o].id >= op[s].id

\* A kept write is finished, unless a restart closes the queue first.
QueueServed == \A n \in 1..MaxOps : n \in answered ~> (n \in ended \/ closed)
-----------------------------------------------------------------------------
(* What the promises rest on. *)

WritesAssumption == TreeSize \in Nat \ {0} /\ MaxOps \in Nat

Volume == [a : 0..TreeSize, b : 0..TreeSize]
States == {"none", "now", "queued", "running", "done", "failed"}
WebStates == [at : {"idle", "now", "step", "rest"}, slot : Slots \cup {0}, n : Nat]
Ops == [id : Nat, kind : Kinds, state : States, steps : Nat]

TypeInv ==
  /\ left \in Volume /\ op \in [Slots -> Ops] /\ next \in 0..MaxOps
  /\ web \in WebStates
  /\ job \in [at : {"idle", "slot", "step"}, slot : Slots \cup {0}]
  /\ flush \in [at : {"none", "take", "step", "over"}, slot : Slots \cup {0}]
  /\ kicked \in BOOLEAN /\ closed \in BOOLEAN /\ power \in {"ok", "fail", "back"}
  /\ locked \in Tasks \cup {"none"}

\* Numbers are given once.
NumberInv ==
  /\ \A s \in Slots : op[s].id <= next /\ (Live(s) => op[s].id > 0)
  /\ answered \subseteq 1..next

\* A write done at once is the only one there is, and was not answered yet.
NowInv ==
  /\ \A s \in Slots : op[s].state = "now" => web.at # "idle"
  /\ web.at # "idle" => /\ web.slot \in Slots /\ op[web.slot].state = "now"
                        /\ \A o \in Slots : Live(o) => o = web.slot
                        /\ op[web.slot].id \notin answered

Oldest(s) == op[s].state = "running" /\ \A o \in Slots : Live(o) => op[o].id >= op[s].id

\* The job's write is the oldest, until a restart takes over.
JobInv == job.at # "idle" => job.slot \in Slots /\ (~closed => Oldest(job.slot))

\* So is that of the restart's flush.
FlushInv ==
  /\ flush.at # "none" => closed
  /\ flush.at = "step" => flush.slot \in Slots /\ Oldest(flush.slot)

IInv == TypeInv /\ NumberInv /\ NowInv /\ JobInv /\ FlushInv /\ QueuedKept

\* What a step may rely on: the other slots and this one's number stay;
Same(s) ==
  /\ op'[s].id = op[s].id /\ op'[s].steps = op[s].steps
  /\ \A o \in Slots : o # s => op'[o] = op[o]
\* a step of the write in a slot changes no other, and if it ends its number is noted;
StepDone(s) ==
  /\ left' \in Volume /\ op' \in [Slots -> Ops] /\ ended \subseteq ended'
  /\ op'[s].id = op[s].id /\ \A o \in Slots : o # s => op'[o] = op[o]
  /\ \/ op'[s].state = op[s].state
     \/ op'[s].state \in {"done", "failed"} /\ op[s].id \in ended'
\* the write taken is the oldest;
TakenOver(s) ==
  /\ op' \in [Slots -> Ops] /\ op'[s].state = "running" /\ Same(s)
  /\ Live(s) /\ op[s].state # "now" /\ \A o \in Slots : Live(o) => op[o].id >= op[s].id
\* and the asker's own is the only one.
Alone ==
  /\ web.slot \in Slots /\ op[web.slot].state = "now" /\ op[web.slot].id \notin answered
  /\ \A o \in Slots : Live(o) => o = web.slot
  /\ (~closed => job.at = "idle") /\ flush.at # "step"

\* So each step comes to this.
SubmitDoes ==
  /\ next' = next + 1 /\ next < MaxOps /\ ~closed /\ web.at = "idle"
  /\ UNCHANGED <<left, job, power, closed, flush, locked, ended>>
  /\ op' \in [Slots -> Ops]
  /\ \E s \in Slots :
       /\ ~Live(s) /\ op'[s].id = next + 1 /\ \A o \in Slots : o # s => op'[o] = op[o]
       /\ \/ /\ op'[s].state = "now" /\ \A o \in Slots : ~Live(o)
             /\ web' = [at |-> "now", slot |-> s, n |-> 0] /\ UNCHANGED <<kicked, answered>>
          \/ /\ op'[s].state = "queued" /\ kicked' = TRUE
             /\ answered' = answered \cup {next + 1} /\ UNCHANGED web

RunDoes ==
  /\ job.at = "idle" /\ UNCHANGED <<left, next, web, power, closed, flush, locked, answered, ended>>
  /\ \/ kicked' = FALSE /\ UNCHANGED <<op, job>>
     \/ /\ ~closed /\ web.at = "idle" /\ UNCHANGED kicked
        /\ \E s \in Slots :
             /\ job' = [at |-> "slot", slot |-> s] /\ TakenOver(s)

FlushTakeDoes ==
  /\ flush.at = "take" /\ web.at = "idle"
  /\ UNCHANGED <<left, next, web, job, kicked, power, closed, locked, answered, ended>>
  /\ \E s \in Slots : flush' = [at |-> "step", slot |-> s] /\ TakenOver(s)

RunStepDoes ==
  /\ job.at = "step" /\ job' = [at |-> "idle", slot |-> 0] /\ locked' = "none"
  /\ UNCHANGED <<next, web, kicked, power, closed, flush, answered>>
  /\ \/ closed /\ UNCHANGED <<left, op, ended>>
     \/ /\ ~closed /\ web.at = "idle" /\ job.slot \in Slots /\ Oldest(job.slot)
        /\ StepDone(job.slot)

FlushStepDoes ==
  /\ closed /\ flush.at = "step" /\ flush' = [at |-> "take", slot |-> 0]
  /\ UNCHANGED <<next, web, job, kicked, power, closed, locked, answered>>
  /\ web.at = "idle" /\ flush.slot \in Slots /\ Oldest(flush.slot) /\ StepDone(flush.slot)

NowStepDoes ==
  /\ web.at = "step" /\ Alone /\ StepDone(web.slot)
  /\ web' \in WebStates /\ locked' \in {"none", locked}
  /\ \/ web' = [at |-> "idle", slot |-> 0, n |-> 0] /\ op'[web.slot].state # "now"
     \/ web'.at # "idle" /\ web'.slot = web.slot /\ op'[web.slot].state = "now"
  /\ UNCHANGED <<next, job, kicked, power, closed, flush, answered>>

NowRestDoes ==
  /\ Alone /\ web' = [at |-> "idle", slot |-> 0, n |-> 0] /\ kicked' = TRUE
  /\ op' \in [Slots -> Ops] /\ op'[web.slot].state = "queued" /\ Same(web.slot)
  /\ answered' = answered \cup {op[web.slot].id}
  /\ UNCHANGED <<left, next, job, power, closed, flush, locked, ended>>

NowBusyDoes ==
  /\ Alone /\ web' = [web EXCEPT !.at = "idle", !.slot = 0]
  /\ op' \in [Slots -> Ops] /\ op'[web.slot].state = "none" /\ Same(web.slot)
  /\ UNCHANGED <<left, next, job, kicked, power, closed, flush, locked, answered, ended>>


\* One step of a write leaves a volume of the same size or a smaller one.
LEMMA StepTypes ==
  ASSUME WritesAssumption, NEW kind \in Kinds, NEW done \in Nat, NEW l \in Volume
  PROVE  StepOf(kind, done, l).l \in Volume
<1>1. CASE kind = "mkdir"
  BY <1>1, SMT DEF StepOf, Volume, WritesAssumption
<1>2. CASE kind = "rename"
  BY <1>2, SMT DEF StepOf, Volume, WritesAssumption
<1>3. CASE kind = "remove"
  BY <1>3, SMT DEF StepOf, Volume, WritesAssumption
<1>4. CASE kind = "tree"
  BY <1>4, SMT DEF StepOf, Volume, WritesAssumption
<1>. QED  BY <1>1, <1>2, <1>3, <1>4 DEF Kinds

\* What a step changes of the slots: the write at work only, its number never; when it is
\* over its number is among the ended ones.
LEMMA Advanced ==
  ASSUME WritesAssumption, TypeInv, NEW s \in Slots, Advance(s)
  PROVE  StepDone(s)
<1>. DEFINE e == StepOf(op[s].kind, op[s].steps, left)
            ok == e.r = "ok"
            more == e.r = "ok" /\ e.more
            after == IF more THEN op[s].state ELSE IF ok THEN "done" ELSE "failed"
            count == IF ok THEN op[s].steps + 1 ELSE op[s].steps
<1>1. op[s] \in Ops
  BY DEF TypeInv
<1>2. left' \in Volume
  BY <1>1, StepTypes DEF Advance, TypeInv, Ops
<1>3. /\ op' = [op EXCEPT ![s].steps = count, ![s].state = after]
      /\ ended' = IF more THEN ended ELSE ended \cup {op[s].id}
  BY DEF Advance
<1>4. count \in Nat
  BY <1>1 DEF Ops
<1>5. after = op[s].state \/ (after \in {"done", "failed"} /\ ~more)
  <2>1. CASE more
    BY <2>1
  <2>2. CASE ~more
    BY <2>2
  <2>. QED  BY <2>1, <2>2
<1>. HIDE DEF e, ok, more, after, count
<1>9. after \in States
  BY <1>1, <1>5 DEF Ops, States
<1>6. op'[s] = [op[s] EXCEPT !.steps = count, !.state = after] /\ \A o \in Slots : o # s => op'[o] = op[o]
  BY <1>3 DEF TypeInv
<1>7. op'[s] \in Ops /\ op'[s].id = op[s].id /\ op'[s].state = after
  BY <1>1, <1>4, <1>6, <1>9 DEF Ops
<1>8. op' \in [Slots -> Ops]
  BY <1>3, <1>6, <1>7 DEF TypeInv
<1>. QED  BY <1>2, <1>3, <1>5, <1>6, <1>7, <1>8 DEF StepDone

\* A new write takes a slot no write of the queue is in.
LEMMA RoomFree ==
  ASSUME TypeInv, NEW s \in Room
  PROVE  s \in Slots /\ ~Live(s)
<1>1. CASE {t \in Slots : op[t].state = "none"} # {}
  BY <1>1 DEF Room, Live
<1>2. CASE {t \in Slots : op[t].state = "none"} = {}
  BY <1>2 DEF Room
<1>. QED  BY <1>1, <1>2

\* What a new write changes: it gets the next number, and goes at once only alone.
LEMMA Asked ==
  ASSUME WritesAssumption, IInv, NEW k \in Kinds, Submit(k)
  PROVE  SubmitDoes
<1>1. PICK s \in Room, pass \in BOOLEAN :
        /\ pass => MayGo
        /\ op' = [op EXCEPT ![s] = [id |-> next + 1, kind |-> k, steps |-> 0,
                                    state |-> IF pass THEN "now" ELSE "queued"]]
        /\ IF pass
           THEN web' = [at |-> "now", slot |-> s, n |-> 0] /\ UNCHANGED <<kicked, answered>>
           ELSE kicked' = TRUE /\ answered' = answered \cup {next + 1} /\ UNCHANGED web
  BY DEF Submit
<1>2. s \in Slots /\ ~Live(s)
  BY RoomFree DEF IInv
<1>. DEFINE new == [id |-> next + 1, kind |-> k, steps |-> 0,
                    state |-> IF pass THEN "now" ELSE "queued"]
<1>3. new \in Ops /\ new.id = next + 1 /\ (pass => new.state = "now") /\ (~pass => new.state = "queued")
  BY DEF IInv, TypeInv, Ops, States, WritesAssumption
<1>4. op' = [op EXCEPT ![s] = new]
  BY <1>1
<1>. HIDE DEF new
<1>5. op' \in [Slots -> Ops] /\ op'[s] = new /\ \A o \in Slots : o # s => op'[o] = op[o]
  BY <1>2, <1>3, <1>4 DEF IInv, TypeInv
<1>6. pass => \A o \in Slots : ~Live(o)
  BY <1>1 DEF MayGo, Pending
<1>. QED  BY <1>1, <1>2, <1>3, <1>5, <1>6 DEF Submit, SubmitDoes

\* Only the state of one write changes.
LEMMA Marked ==
  ASSUME TypeInv, NEW s \in Slots, NEW x \in States, op' = [op EXCEPT ![s].state = x]
  PROVE  op' \in [Slots -> Ops] /\ op'[s].state = x /\ Same(s)
<1>1. op[s] \in Ops
  BY DEF TypeInv
<1>2. op'[s] = [op[s] EXCEPT !.state = x] /\ \A o \in Slots : o # s => op'[o] = op[o]
  BY DEF TypeInv
<1>3. op'[s] \in Ops
  BY <1>1, <1>2 DEF Ops
<1>. QED  BY <1>1, <1>2, <1>3 DEF TypeInv, Ops, Same

\* The write of the asker is the only one.
LEMMA WebAlone ==
  ASSUME IInv, web.at # "idle"
  PROVE  Alone /\ Take = {}
<1>1. /\ web.slot \in Slots /\ op[web.slot].state = "now" /\ op[web.slot].id \notin answered
      /\ \A o \in Slots : Live(o) => o = web.slot
  BY DEF IInv, NowInv
<1>2. \A o \in Slots : op[o].state # "queued" /\ op[o].state # "running"
  BY <1>1 DEF Live
<1>. QED  BY <1>1, <1>2 DEF Alone, IInv, JobInv, FlushInv, Oldest, Take, Kept

\* The write a task takes is the oldest kept one.
LEMMA Taken ==
  ASSUME IInv, web.at = "idle", NEW s \in Take, op' = [op EXCEPT ![s].state = "running"]
  PROVE  s \in Slots /\ TakenOver(s)
<1>1. s \in Slots /\ op[s].state \in {"queued", "running"}
  BY DEF Take, Kept
<1>2. op' \in [Slots -> Ops] /\ op'[s].state = "running" /\ Same(s)
  BY <1>1, Marked DEF IInv, States
<1>3. \A o \in Slots : Live(o) => op[o].id >= op[s].id
  BY DEF Take, Kept, Live, IInv, NowInv
<1>. QED  BY <1>1, <1>2, <1>3 DEF Live, TakenOver

\* A run of the job stops, or takes the oldest kept write while nothing is done at once.
LEMMA Ran ==
  ASSUME IInv, Run
  PROVE  RunDoes
<1>1. CASE closed \/ Take = {}
  BY <1>1 DEF Run, RunDoes
<1>2. CASE ~closed /\ Take # {}
  <2>1. web.at = "idle"
    BY <1>2, WebAlone
  <2>2. PICK s \in Take : op' = [op EXCEPT ![s].state = "running"] /\ job' = At("slot", s)
    BY <1>2 DEF Run
  <2>. QED  BY <1>2, <2>1, <2>2, Taken DEF Run, At, RunDoes
<1>. QED  BY <1>1, <1>2 DEF RunDoes

\* So does a restart's flush.
LEMMA FlushTook ==
  ASSUME IInv, FlushTake
  PROVE  FlushTakeDoes
<1>1. PICK s \in Take : op' = [op EXCEPT ![s].state = "running"] /\ flush' = At("step", s)
  BY DEF FlushTake
<1>2. web.at = "idle"
  BY <1>1, WebAlone
<1>. QED  BY <1>1, <1>2, Taken DEF FlushTake, At, FlushTakeDoes

\* The job's step is of the oldest write, and of none once the queue is closed.
LEMMA RunStepped ==
  ASSUME WritesAssumption, IInv, RunStep
  PROVE  RunStepDoes
<1>1. CASE closed
  BY <1>1 DEF RunStep, At, RunStepDoes
<1>2. CASE ~closed
  <2>1. job.slot \in Slots /\ Oldest(job.slot) /\ Advance(job.slot) /\ web.at = "idle"
    BY <1>2, WebAlone DEF IInv, JobInv, RunStep, Alone
  <2>. QED  BY <1>2, <2>1, Advanced DEF IInv, RunStep, At, RunStepDoes
<1>. QED  BY <1>1, <1>2 DEF RunStepDoes

\* The flush's step is of the oldest write too.
LEMMA FlushStepped ==
  ASSUME WritesAssumption, IInv, FlushStep
  PROVE  FlushStepDoes
<1>1. /\ closed /\ flush.slot \in Slots /\ Oldest(flush.slot) /\ Advance(flush.slot)
      /\ web.at = "idle"
  BY WebAlone DEF IInv, FlushInv, FlushStep, Alone
<1>. QED  BY <1>1, Advanced DEF IInv, FlushStep, At, FlushStepDoes

\* A step of the asker's own is of the only write; it goes on, or the write is over.
LEMMA NowStepped ==
  ASSUME WritesAssumption, IInv, NowStep
  PROVE  NowStepDoes
<1>1. web \in WebStates /\ web.at = "step" /\ Alone
  BY WebAlone DEF IInv, TypeInv, NowStep
<1>2. op'[web.slot].state = "now" <=> More(web.slot)
  BY <1>1 DEF NowStep, Advance, More, Alone, IInv, TypeInv, Ops
<1>6. StepDone(web.slot)
  BY <1>1, Advanced DEF NowStep, Alone, IInv
<1>3. CASE ~More(web.slot) /\ web' = [at |-> "idle", slot |-> 0, n |-> 0] /\ locked' = "none"
  BY <1>1, <1>2, <1>3, <1>6 DEF NowStep, WebStates, NowStepDoes
<1>4. CASE More(web.slot) /\ web' = [web EXCEPT !.at = "rest"] /\ locked' = "none"
  BY <1>1, <1>2, <1>4, <1>6 DEF NowStep, WebStates, NowStepDoes
<1>5. CASE /\ More(web.slot) /\ locked' = locked
           /\ web' = [web EXCEPT !.n = IF @ < FreeSteps THEN @ + 1 ELSE @]
  <2>. DEFINE n == IF web.n < FreeSteps THEN web.n + 1 ELSE web.n
  <2>1. n \in Nat /\ web' = [web EXCEPT !.n = n]
    BY <1>1, <1>5 DEF WebStates
  <2>. HIDE DEF n
  <2>2. web' \in WebStates /\ web'.at = "step" /\ web'.slot = web.slot
    BY <1>1, <2>1 DEF WebStates
  <2>. QED  BY <1>1, <1>2, <1>5, <1>6, <2>2 DEF NowStep, NowStepDoes
<1>. QED  BY <1>3, <1>4, <1>5 DEF NowStep

\* What the asker leaves is kept and answered,
LEMMA NowKept ==
  ASSUME WritesAssumption, IInv, NowRest
  PROVE  NowRestDoes
<1>1. Alone
  BY WebAlone DEF NowRest
<1>. QED  BY <1>1, Marked DEF NowRest, Alone, IInv, States, Same, NowRestDoes

\* and what it cannot begin is refused.
LEMMA NowRefused ==
  ASSUME WritesAssumption, IInv, NowBusy
  PROVE  NowBusyDoes
<1>1. Alone
  BY WebAlone DEF NowBusy
<1>. QED  BY <1>1, Marked DEF NowBusy, Alone, IInv, States, Same, NowBusyDoes


\* The state keeps its types.
LEMMA TypeStep ==
  ASSUME WritesAssumption, IInv, [Next]_vars
  PROVE  TypeInv'
<1>1. ASSUME NEW k \in Kinds, Submit(k) PROVE TypeInv'
  <2>1. SubmitDoes
    BY <1>1, Asked
  <2>2. kicked' = TRUE \/ kicked' = kicked
    BY <2>1 DEF SubmitDoes
  <2>3. kicked' \in BOOLEAN
    BY <2>2, Zenon DEF IInv, TypeInv
  <2>4. next' \in 0..MaxOps /\ web' \in WebStates
    BY <2>1 DEF SubmitDoes, IInv, TypeInv, WebStates, WritesAssumption
  <2>. QED  BY <2>1, <2>3, <2>4 DEF SubmitDoes, IInv, TypeInv
<1>2. CASE Run
  <2>1. RunDoes
    BY <1>2, Ran
  <2>2. kicked' = FALSE \/ kicked' = kicked
    BY <2>1 DEF RunDoes
  <2>3. kicked' \in BOOLEAN
    BY <2>2, Zenon DEF IInv, TypeInv
  <2>. QED  BY <2>1, <2>3 DEF RunDoes, IInv, TypeInv, TakenOver
<1>3. CASE PowerBack \/ Close
  BY <1>3 DEF IInv, TypeInv, WebStates, Tasks, PowerBack, Close
<1>4. CASE Shutdown \/ FlushEnds
  BY <1>4 DEF IInv, TypeInv, WebStates, Tasks, Shutdown, At, FlushEnds
<1>5. CASE RunLock \/ RunLater \/ NowLock \/ PowerFails
  BY <1>5 DEF IInv, TypeInv, WebStates, Tasks, RunLock, At, RunLater, NowLock,
    PowerFails
<1>6. CASE RunStep
  <2>1. RunStepDoes
    BY <1>6, RunStepped
  <2>. QED  BY <2>1 DEF RunStepDoes, IInv, TypeInv, WebStates, Tasks, WritesAssumption,
    Same, StepDone, TakenOver, Alone
<1>7. CASE NowBusy
  <2>1. NowBusyDoes
    BY <1>7, NowRefused
  <2>. QED  BY <2>1 DEF NowBusyDoes, IInv, TypeInv, WebStates, Tasks, WritesAssumption,
    Same, StepDone, TakenOver, Alone
<1>8. CASE NowStep
  <2>1. NowStepDoes
    BY <1>8, NowStepped
  <2>. QED  BY <2>1 DEF NowStepDoes, IInv, TypeInv, WebStates, Tasks, WritesAssumption,
    Same, StepDone, TakenOver, Alone
<1>9. CASE NowRest
  <2>1. NowRestDoes
    BY <1>9, NowKept
  <2>. QED  BY <2>1 DEF NowRestDoes, IInv, TypeInv, WebStates, Tasks, WritesAssumption,
    Same, StepDone, TakenOver, Alone
<1>10. CASE FlushTake
  <2>1. FlushTakeDoes
    BY <1>10, FlushTook
  <2>. QED  BY <2>1 DEF FlushTakeDoes, IInv, TypeInv, WebStates, Tasks,
    WritesAssumption, Same, StepDone, TakenOver, Alone
<1>11. CASE FlushStep
  <2>1. FlushStepDoes
    BY <1>11, FlushStepped
  <2>. QED  BY <2>1 DEF FlushStepDoes, IInv, TypeInv, WebStates, Tasks,
    WritesAssumption, Same, StepDone, TakenOver, Alone
<1>12. CASE UNCHANGED vars
  BY <1>12 DEF IInv, TypeInv, WebStates, Tasks, vars
<1>. QED  BY <1>1, <1>2, <1>3, <1>4, <1>5, <1>6, <1>7, <1>8, <1>9, <1>10, <1>11, <1>12
  DEF Next, RunOn, NowOn

\* A number is given once.
LEMMA NumberStep ==
  ASSUME WritesAssumption, IInv, [Next]_vars
  PROVE  NumberInv'
<1>1. ASSUME NEW k \in Kinds, Submit(k) PROVE NumberInv'
  <2>1. SubmitDoes
    BY <1>1, Asked
  <2>2. next \in Nat /\ next' = next + 1 /\ \A o \in Slots : op[o].id \in Nat
    BY <2>1 DEF SubmitDoes, IInv, TypeInv, Ops, WritesAssumption
  <2>3. \A o \in Slots : op'[o].id <= next' /\ (Live(o)' => op'[o].id > 0)
    BY <2>1, <2>2 DEF SubmitDoes, IInv, NumberInv, Live
  <2>4. answered' \subseteq answered \cup {next'} /\ answered \subseteq 1..next
    BY <2>1 DEF SubmitDoes, IInv, NumberInv
  <2>5. answered' \subseteq 1..next'
    BY <2>2, <2>4
  <2>. QED  BY <2>3, <2>5 DEF NumberInv
<1>2. CASE Run
  <2>1. RunDoes
    BY <1>2, Ran
  <2>. QED  BY <2>1 DEF RunDoes, IInv, NumberInv, Live, TypeInv, Ops, Oldest, Same,
    StepDone, TakenOver, Alone
<1>3. CASE RunLock \/ RunLater \/ NowLock \/ PowerFails
  BY <1>3 DEF IInv, NumberInv, Live, RunLock, At, RunLater, NowLock, PowerFails
<1>4. CASE PowerBack \/ Close \/ Shutdown \/ FlushEnds
  BY <1>4 DEF IInv, NumberInv, Live, PowerBack, Close, Shutdown, At, FlushEnds
<1>5. CASE RunStep
  <2>1. RunStepDoes
    BY <1>5, RunStepped
  <2>. QED  BY <2>1 DEF RunStepDoes, IInv, NumberInv, Live, TypeInv, Ops, Oldest, Same,
    StepDone, TakenOver, Alone
<1>6. CASE NowBusy
  <2>1. NowBusyDoes
    BY <1>6, NowRefused
  <2>. QED  BY <2>1 DEF NowBusyDoes, IInv, NumberInv, Live, TypeInv, Ops, Oldest, Same,
    StepDone, TakenOver, Alone
<1>7. CASE NowStep
  <2>1. NowStepDoes
    BY <1>7, NowStepped
  <2>. QED  BY <2>1 DEF NowStepDoes, IInv, NumberInv, Live, TypeInv, Ops, Oldest, Same,
    StepDone, TakenOver, Alone
<1>8. CASE NowRest
  <2>1. NowRestDoes
    BY <1>8, NowKept
  <2>2. op[web.slot].id \in 1..next /\ next \in Nat
    BY <2>1 DEF NowRestDoes, Alone, Live, IInv, NumberInv, TypeInv, Ops
  <2>3. \A o \in Slots : op'[o].id <= next' /\ (Live(o)' => op'[o].id > 0)
    BY <2>1, <2>2 DEF NowRestDoes, Same, IInv, NumberInv, Live
  <2>. QED  BY <2>1, <2>2, <2>3 DEF NowRestDoes, IInv, NumberInv
<1>9. CASE FlushTake
  <2>1. FlushTakeDoes
    BY <1>9, FlushTook
  <2>. QED  BY <2>1 DEF FlushTakeDoes, IInv, NumberInv, Live, TypeInv, Ops, Oldest,
    Same, StepDone, TakenOver, Alone
<1>10. CASE FlushStep
  <2>1. FlushStepDoes
    BY <1>10, FlushStepped
  <2>. QED  BY <2>1 DEF FlushStepDoes, IInv, NumberInv, Live, TypeInv, Ops, Oldest,
    Same, StepDone, TakenOver, Alone
<1>11. CASE UNCHANGED vars
  BY <1>11 DEF IInv, NumberInv, Live, vars
<1>. QED  BY <1>1, <1>2, <1>3, <1>4, <1>5, <1>6, <1>7, <1>8, <1>9, <1>10, <1>11 DEF
  Next, RunOn, NowOn

\* A write done at once is alone.
LEMMA NowStays ==
  ASSUME WritesAssumption, IInv, [Next]_vars
  PROVE  NowInv'
<1>1. ASSUME NEW k \in Kinds, Submit(k) PROVE NowInv'
  <2>1. SubmitDoes
    BY <1>1, Asked
  <2>. QED  BY <2>1 DEF SubmitDoes, IInv, NowInv, Live, TypeInv, WebStates, NumberInv,
    TypeInv, Ops, Oldest, Same, StepDone, TakenOver, Alone
<1>2. CASE Run
  <2>1. RunDoes
    BY <1>2, Ran
  <2>. QED  BY <2>1 DEF RunDoes, IInv, NowInv, Live, TypeInv, WebStates, NumberInv,
    TypeInv, Ops, Oldest, Same, StepDone, TakenOver, Alone
<1>3. CASE RunLock \/ RunLater \/ NowLock \/ PowerFails
  BY <1>3 DEF IInv, NowInv, Live, TypeInv, WebStates, RunLock, At, RunLater, NowLock,
    PowerFails
<1>4. CASE PowerBack \/ Close \/ Shutdown \/ FlushEnds
  BY <1>4 DEF IInv, NowInv, Live, TypeInv, WebStates, PowerBack, Close, Shutdown, At,
    FlushEnds
<1>5. CASE RunStep
  <2>1. RunStepDoes
    BY <1>5, RunStepped
  <2>. QED  BY <2>1 DEF RunStepDoes, IInv, NowInv, Live, TypeInv, WebStates, NumberInv,
    TypeInv, Ops, Oldest, Same, StepDone, TakenOver, Alone
<1>6. CASE NowBusy
  <2>1. NowBusyDoes
    BY <1>6, NowRefused
  <2>. QED  BY <2>1 DEF NowBusyDoes, IInv, NowInv, Live, TypeInv, WebStates, NumberInv,
    TypeInv, Ops, Oldest, Same, StepDone, TakenOver, Alone
<1>7. CASE NowStep
  <2>1. NowStepDoes
    BY <1>7, NowStepped
  <2>. QED  BY <2>1 DEF NowStepDoes, IInv, NowInv, Live, TypeInv, WebStates, NumberInv,
    TypeInv, Ops, Oldest, Same, StepDone, TakenOver, Alone
<1>8. CASE NowRest
  <2>1. NowRestDoes
    BY <1>8, NowKept
  <2>. QED  BY <2>1 DEF NowRestDoes, IInv, NowInv, Live, TypeInv, WebStates, NumberInv,
    TypeInv, Ops, Oldest, Same, StepDone, TakenOver, Alone
<1>9. CASE FlushTake
  <2>1. FlushTakeDoes
    BY <1>9, FlushTook
  <2>. QED  BY <2>1 DEF FlushTakeDoes, IInv, NowInv, Live, TypeInv, WebStates,
    NumberInv, TypeInv, Ops, Oldest, Same, StepDone, TakenOver, Alone
<1>10. CASE FlushStep
  <2>1. FlushStepDoes
    BY <1>10, FlushStepped
  <2>. QED  BY <2>1 DEF FlushStepDoes, IInv, NowInv, Live, TypeInv, WebStates,
    NumberInv, TypeInv, Ops, Oldest, Same, StepDone, TakenOver, Alone
<1>11. CASE UNCHANGED vars
  BY <1>11 DEF IInv, NowInv, Live, TypeInv, WebStates, vars
<1>. QED  BY <1>1, <1>2, <1>3, <1>4, <1>5, <1>6, <1>7, <1>8, <1>9, <1>10, <1>11 DEF
  Next, RunOn, NowOn

\* The job's write is the oldest.
LEMMA JobStep ==
  ASSUME WritesAssumption, IInv, [Next]_vars
  PROVE  JobInv'
<1>1. ASSUME NEW k \in Kinds, Submit(k) PROVE JobInv'
  <2>1. SubmitDoes
    BY <1>1, Asked
  <2>. QED  BY <2>1 DEF SubmitDoes, IInv, TypeInv, JobInv, Oldest, Live, NowInv,
    NumberInv, TypeInv, Ops, Same, StepDone, TakenOver, Alone
<1>2. CASE Run
  <2>1. RunDoes
    BY <1>2, Ran
  <2>. QED  BY <2>1 DEF RunDoes, IInv, TypeInv, JobInv, Oldest, Live, NowInv, NumberInv,
    TypeInv, Ops, Same, StepDone, TakenOver, Alone
<1>3. CASE RunLock \/ RunLater \/ NowLock \/ PowerFails
  BY <1>3 DEF IInv, TypeInv, JobInv, Oldest, Live, RunLock, At, RunLater, NowLock,
    PowerFails
<1>4. CASE PowerBack \/ Close \/ Shutdown \/ FlushEnds
  BY <1>4 DEF IInv, TypeInv, JobInv, Oldest, Live, PowerBack, Close, Shutdown, At,
    FlushEnds
<1>5. CASE RunStep
  <2>1. RunStepDoes
    BY <1>5, RunStepped
  <2>. QED  BY <2>1 DEF RunStepDoes, IInv, TypeInv, JobInv, Oldest, Live, NowInv,
    NumberInv, TypeInv, Ops, Same, StepDone, TakenOver, Alone
<1>6. CASE NowBusy
  <2>1. NowBusyDoes
    BY <1>6, NowRefused
  <2>. QED  BY <2>1 DEF NowBusyDoes, IInv, TypeInv, JobInv, Oldest, Live, NowInv,
    NumberInv, TypeInv, Ops, Same, StepDone, TakenOver, Alone
<1>7. CASE NowStep
  <2>1. NowStepDoes
    BY <1>7, NowStepped
  <2>. QED  BY <2>1 DEF NowStepDoes, IInv, TypeInv, JobInv, Oldest, Live, NowInv,
    NumberInv, TypeInv, Ops, Same, StepDone, TakenOver, Alone
<1>8. CASE NowRest
  <2>1. NowRestDoes
    BY <1>8, NowKept
  <2>. QED  BY <2>1 DEF NowRestDoes, IInv, TypeInv, JobInv, Oldest, Live, NowInv,
    NumberInv, TypeInv, Ops, Same, StepDone, TakenOver, Alone
<1>9. CASE FlushTake
  <2>1. FlushTakeDoes
    BY <1>9, FlushTook
  <2>. QED  BY <2>1 DEF FlushTakeDoes, IInv, TypeInv, JobInv, Oldest, Live, NowInv,
    NumberInv, TypeInv, Ops, Same, StepDone, TakenOver, Alone
<1>10. CASE FlushStep
  <2>1. FlushStepDoes
    BY <1>10, FlushStepped
  <2>. QED  BY <2>1 DEF FlushStepDoes, IInv, TypeInv, JobInv, Oldest, Live, NowInv,
    NumberInv, TypeInv, Ops, Same, StepDone, TakenOver, Alone
<1>11. CASE UNCHANGED vars
  BY <1>11 DEF IInv, TypeInv, JobInv, Oldest, Live, vars
<1>. QED  BY <1>1, <1>2, <1>3, <1>4, <1>5, <1>6, <1>7, <1>8, <1>9, <1>10, <1>11 DEF
  Next, RunOn, NowOn

\* The write of a restart's flush is the oldest.
LEMMA FlushStays ==
  ASSUME WritesAssumption, IInv, [Next]_vars
  PROVE  FlushInv'
<1>1. ASSUME NEW k \in Kinds, Submit(k) PROVE FlushInv'
  <2>1. SubmitDoes
    BY <1>1, Asked
  <2>. QED  BY <2>1 DEF SubmitDoes, IInv, FlushInv, Oldest, Live, NowInv, NumberInv,
    TypeInv, Ops, Same, StepDone, TakenOver, Alone
<1>2. CASE Run
  <2>1. RunDoes
    BY <1>2, Ran
  <2>. QED  BY <2>1 DEF RunDoes, IInv, FlushInv, Oldest, Live, NowInv, NumberInv,
    TypeInv, Ops, Same, StepDone, TakenOver, Alone
<1>3. CASE RunLock \/ RunLater \/ NowLock \/ PowerFails
  BY <1>3 DEF IInv, FlushInv, Oldest, Live, RunLock, At, RunLater, NowLock, PowerFails
<1>4. CASE PowerBack \/ Close \/ Shutdown \/ FlushEnds
  BY <1>4 DEF IInv, FlushInv, Oldest, Live, PowerBack, Close, Shutdown, At, FlushEnds
<1>5. CASE RunStep
  <2>1. RunStepDoes
    BY <1>5, RunStepped
  <2>. QED  BY <2>1 DEF RunStepDoes, IInv, FlushInv, Oldest, Live, NowInv, NumberInv,
    TypeInv, Ops, Same, StepDone, TakenOver, Alone
<1>6. CASE NowBusy
  <2>1. NowBusyDoes
    BY <1>6, NowRefused
  <2>. QED  BY <2>1 DEF NowBusyDoes, IInv, FlushInv, Oldest, Live, NowInv, NumberInv,
    TypeInv, Ops, Same, StepDone, TakenOver, Alone
<1>7. CASE NowStep
  <2>1. NowStepDoes
    BY <1>7, NowStepped
  <2>. QED  BY <2>1 DEF NowStepDoes, IInv, FlushInv, Oldest, Live, NowInv, NumberInv,
    TypeInv, Ops, Same, StepDone, TakenOver, Alone
<1>8. CASE NowRest
  <2>1. NowRestDoes
    BY <1>8, NowKept
  <2>. QED  BY <2>1 DEF NowRestDoes, IInv, FlushInv, Oldest, Live, NowInv, NumberInv,
    TypeInv, Ops, Same, StepDone, TakenOver, Alone
<1>9. CASE FlushTake
  <2>1. FlushTakeDoes
    BY <1>9, FlushTook
  <2>. QED  BY <2>1 DEF FlushTakeDoes, IInv, FlushInv, Oldest, Live, NowInv, NumberInv,
    TypeInv, Ops, Same, StepDone, TakenOver, Alone
<1>10. CASE FlushStep
  <2>1. FlushStepDoes
    BY <1>10, FlushStepped
  <2>. QED  BY <2>1 DEF FlushStepDoes, IInv, FlushInv, Oldest, Live, NowInv, NumberInv,
    TypeInv, Ops, Same, StepDone, TakenOver, Alone
<1>11. CASE UNCHANGED vars
  BY <1>11 DEF IInv, FlushInv, Oldest, Live, vars
<1>. QED  BY <1>1, <1>2, <1>3, <1>4, <1>5, <1>6, <1>7, <1>8, <1>9, <1>10, <1>11 DEF
  Next, RunOn, NowOn

\* A write answered QUEUED is kept.
LEMMA KeptStep ==
  ASSUME WritesAssumption, IInv, [Next]_vars
  PROVE  QueuedKept'
<1>1. ASSUME NEW k \in Kinds, Submit(k) PROVE QueuedKept'
  <2>1. SubmitDoes
    BY <1>1, Asked
  <2>2. PICK s \in Slots :
          /\ ~Live(s) /\ op'[s].id = next + 1 /\ \A o \in Slots : o # s => op'[o] = op[o]
          /\ \/ op'[s].state = "now" /\ answered' = answered
             \/ op'[s].state = "queued" /\ answered' = answered \cup {next + 1}
    BY <2>1 DEF SubmitDoes
  <2>3. ended' = ended /\ \A o \in Slots : Live(o) => Live(o)' /\ op'[o].id = op[o].id
    BY <2>1, <2>2 DEF SubmitDoes, Live
  <2>4. op'[s].state = "queued" => Live(s)'
    BY DEF Live
  <2>. QED  BY <2>2, <2>3, <2>4 DEF IInv, QueuedKept, Pending
<1>2. CASE Run
  <2>1. RunDoes
    BY <1>2, Ran
  <2>. QED  BY <2>1 DEF RunDoes, IInv, QueuedKept, Pending, Live, NumberInv, Oldest,
    Same, StepDone, TakenOver, Alone
<1>3. CASE RunLock \/ RunLater \/ NowLock \/ PowerFails
  BY <1>3 DEF IInv, QueuedKept, Pending, Live, RunLock, At, RunLater, NowLock,
    PowerFails
<1>4. CASE PowerBack \/ Close \/ Shutdown \/ FlushEnds
  BY <1>4 DEF IInv, QueuedKept, Pending, Live, PowerBack, Close, Shutdown, At, FlushEnds
<1>5. CASE RunStep
  <2>1. RunStepDoes
    BY <1>5, RunStepped
  <2>. QED  BY <2>1 DEF RunStepDoes, IInv, QueuedKept, Pending, Live, NumberInv, Oldest,
    Same, StepDone, TakenOver, Alone
<1>6. CASE NowBusy
  <2>1. NowBusyDoes
    BY <1>6, NowRefused
  <2>. QED  BY <2>1 DEF NowBusyDoes, IInv, QueuedKept, Pending, Live, NumberInv, Oldest,
    Same, StepDone, TakenOver, Alone
<1>7. CASE NowStep
  <2>1. NowStepDoes
    BY <1>7, NowStepped
  <2>. QED  BY <2>1 DEF NowStepDoes, IInv, QueuedKept, Pending, Live, NumberInv, Oldest,
    Same, StepDone, TakenOver, Alone
<1>8. CASE NowRest
  <2>1. NowRestDoes
    BY <1>8, NowKept
  <2>. QED  BY <2>1 DEF NowRestDoes, IInv, QueuedKept, Pending, Live, NumberInv, Oldest,
    Same, StepDone, TakenOver, Alone
<1>9. CASE FlushTake
  <2>1. FlushTakeDoes
    BY <1>9, FlushTook
  <2>. QED  BY <2>1 DEF FlushTakeDoes, IInv, QueuedKept, Pending, Live, NumberInv,
    Oldest, Same, StepDone, TakenOver, Alone
<1>10. CASE FlushStep
  <2>1. FlushStepDoes
    BY <1>10, FlushStepped
  <2>. QED  BY <2>1 DEF FlushStepDoes, IInv, QueuedKept, Pending, Live, NumberInv,
    Oldest, Same, StepDone, TakenOver, Alone
<1>11. CASE UNCHANGED vars
  BY <1>11 DEF IInv, QueuedKept, Pending, Live, vars
<1>. QED  BY <1>1, <1>2, <1>3, <1>4, <1>5, <1>6, <1>7, <1>8, <1>9, <1>10, <1>11 DEF
  Next, RunOn, NowOn

\* Nothing goes ahead of an older write.
LEMMA OrderStep ==
  ASSUME WritesAssumption, IInv, [Next]_vars
  PROVE  InOrder
<1>1. ASSUME NEW k \in Kinds, Submit(k) PROVE InOrder
  <2>1. SubmitDoes
    BY <1>1, Asked
  <2>. QED  BY <2>1 DEF SubmitDoes, InOrder, Stepped, Pending, Live, IInv, NumberInv,
    TypeInv, Ops, Oldest, Same, StepDone, TakenOver, Alone
<1>2. CASE Run
  <2>1. RunDoes
    BY <1>2, Ran
  <2>. QED  BY <2>1 DEF RunDoes, InOrder, Stepped, Pending, Live, IInv, NumberInv,
    TypeInv, Ops, Oldest, Same, StepDone, TakenOver, Alone
<1>3. CASE RunLock \/ RunLater \/ NowLock \/ PowerFails
  BY <1>3 DEF InOrder, Stepped, Pending, Live, RunLock, At, RunLater, NowLock,
    PowerFails
<1>4. CASE PowerBack \/ Close \/ Shutdown \/ FlushEnds
  BY <1>4 DEF InOrder, Stepped, Pending, Live, PowerBack, Close, Shutdown, At, FlushEnds
<1>5. CASE RunStep
  <2>1. RunStepDoes
    BY <1>5, RunStepped
  <2>. QED  BY <2>1 DEF RunStepDoes, InOrder, Stepped, Pending, Live, IInv, NumberInv,
    TypeInv, Ops, Oldest, Same, StepDone, TakenOver, Alone
<1>6. CASE NowBusy
  <2>1. NowBusyDoes
    BY <1>6, NowRefused
  <2>. QED  BY <2>1 DEF NowBusyDoes, InOrder, Stepped, Pending, Live, IInv, NumberInv,
    TypeInv, Ops, Oldest, Same, StepDone, TakenOver, Alone
<1>7. CASE NowStep
  <2>1. NowStepDoes
    BY <1>7, NowStepped
  <2>. QED  BY <2>1 DEF NowStepDoes, InOrder, Stepped, Pending, Live, IInv, NumberInv,
    TypeInv, Ops, Oldest, Same, StepDone, TakenOver, Alone
<1>8. CASE NowRest
  <2>1. NowRestDoes
    BY <1>8, NowKept
  <2>. QED  BY <2>1 DEF NowRestDoes, InOrder, Stepped, Pending, Live, IInv, NumberInv,
    TypeInv, Ops, Oldest, Same, StepDone, TakenOver, Alone
<1>9. CASE FlushTake
  <2>1. FlushTakeDoes
    BY <1>9, FlushTook
  <2>. QED  BY <2>1 DEF FlushTakeDoes, InOrder, Stepped, Pending, Live, IInv, NumberInv,
    TypeInv, Ops, Oldest, Same, StepDone, TakenOver, Alone
<1>10. CASE FlushStep
  <2>1. FlushStepDoes
    BY <1>10, FlushStepped
  <2>. QED  BY <2>1 DEF FlushStepDoes, InOrder, Stepped, Pending, Live, IInv, NumberInv,
    TypeInv, Ops, Oldest, Same, StepDone, TakenOver, Alone
<1>11. CASE UNCHANGED vars
  BY <1>11 DEF InOrder, Stepped, Pending, Live, vars
<1>. QED  BY <1>1, <1>2, <1>3, <1>4, <1>5, <1>6, <1>7, <1>8, <1>9, <1>10, <1>11 DEF
  Next, RunOn, NowOn

\* The invariant holds with no write asked for,
LEMMA InvInit ==
  ASSUME WritesAssumption, Init
  PROVE  IInv
<1>1. op \in [Slots -> Ops] /\ \A s \in Slots : op[s].state = "none" /\ op[s].id = 0
  BY DEF Init, Empty, Ops, States, Kinds
<1>2. TypeInv
  <2>1. kicked \in BOOLEAN /\ closed \in BOOLEAN
    BY Zenon DEF Init
  <2>. QED  BY <1>1, <2>1 DEF Init, At, TypeInv, Volume, WebStates, WritesAssumption, Tasks
<1>3. NumberInv /\ NowInv /\ JobInv /\ FlushInv /\ QueuedKept
  BY <1>1 DEF Init, At, Live, NumberInv, NowInv, JobInv, FlushInv, QueuedKept
<1>. QED  BY <1>2, <1>3 DEF IInv

\* is kept by every step of the asker, the job, the power and a restart,
LEMMA InvNext ==
  ASSUME WritesAssumption, IInv, [Next]_vars
  PROVE  IInv'
<1>. QED  BY TypeStep, NumberStep, NowStays, JobStep, FlushStays, KeptStep DEF IInv

\* and its writes have ids in the range given.
LEMMA InvTypes ==
  ASSUME WritesAssumption, IInv
  PROVE  TypeOK
<1>1. \A s \in Slots : op[s].kind \in Kinds /\ op[s].id \in 0..MaxOps
  BY DEF IInv, TypeInv, NumberInv, Ops, WritesAssumption
<1>. QED  BY <1>1 DEF IInv, TypeInv, TypeOK, Volume, WebStates

\* For every number of slots, every size of the tree and every number of writes: a write
\* answered QUEUED is kept until it is over, whatever the power, the job and a restart do
\* (FsWriteQueue::submit(), run(), close()).
THEOREM WritesKept ==
  ASSUME WritesAssumption
  PROVE  Spec => [](TypeOK /\ QueuedKept)
<1>1. Init => IInv
  BY InvInit
<1>2. IInv /\ [Next]_vars => IInv'
  BY InvNext
<1>3. IInv => TypeOK /\ QueuedKept
  BY InvTypes DEF IInv
<1>. QED  BY <1>1, <1>2, <1>3, PTL DEF Spec

\* No step of a write is done while an older one is not over, by the asker, the FlashWriter
\* job or the flush of a restart (advance(), take()).
THEOREM WritesInOrder ==
  ASSUME WritesAssumption
  PROVE  Spec => [][InOrder]_vars
<1>1. Init => IInv
  BY InvInit
<1>2. IInv /\ [Next]_vars => IInv'
  BY InvNext
<1>3. IInv /\ [Next]_vars => [InOrder]_vars
  BY OrderStep
<1>. QED  BY <1>1, <1>2, <1>3, PTL DEF Spec
=============================================================================
