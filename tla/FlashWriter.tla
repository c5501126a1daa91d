---------------------------- MODULE FlashWriter ----------------------------
(***************************************************************************)
(* FlashWriter: one task runs the deferred flash writes of the framework   *)
(* and its modules.  Any task kicks a job (a flag, then a notification);   *)
(* the first kick creates the task; a job that PowerGuard held runs again  *)
(* when the supply is back, one that has to wait runs again after its      *)
(* delay.  Every step here is one access to shared state (the flags are    *)
(* atomics), so the kicks, the task's own passes, its creation, the        *)
(* supply's listener and App::loop's retry interleave freely.              *)
(*                                                                         *)
(* A job is its contract: it writes what its owner keeps (dirty) if the    *)
(* supply allows it, or asks to be run later.                              *)
(***************************************************************************)
EXTENDS Naturals, FiniteSets, TLAPS

CONSTANTS
  Kickers,  \* tasks that kick jobs
  Loop,     \* the loop task: FlashWriter::retry and start
  JobsOf,   \* the jobs each of them kicks
  JobCount, \* registered jobs (add)
  AttachAnytime  \* App::begin may attach while a job's result is being noted

Jobs == 1..JobCount
Tasks == Kickers \cup {Loop}

VARIABLES
  dirty,      \* the job's owner has something to write
  kicked,     \* JobSlot::kicked
  onPower,    \* JobSlot::onPower
  timed,      \* JobSlot::timed
  due,        \* ... and its delay is over
  powerKick,  \* s_powerKick
  listening,  \* s_listening
  creating,   \* s_creating
  task,       \* s_task is set
  made,       \* writer tasks created (history)
  notified,   \* the task's notification
  wpc, cur,   \* where the task is in run(), and at which job
  power,      \* run()'s local of the same name
  ret,        \* what the job returned
  allowed,    \* PowerGuard::writesAllowed
  spc,        \* the supply's task in PowerGuard::setSupply
  pc          \* where each task is in kick, retry and ensureTask

slots == <<dirty, kicked, onPower, timed, due>>
writer == <<wpc, cur, power, ret>>
supply == <<allowed, spc, listening>>
vars == <<slots, powerKick, creating, task, made, notified, writer, supply, pc>>

Init ==
  /\ dirty = [j \in Jobs |-> FALSE] /\ kicked = [j \in Jobs |-> FALSE]
  /\ onPower = [j \in Jobs |-> FALSE] /\ timed = [j \in Jobs |-> FALSE]
  /\ due = [j \in Jobs |-> FALSE]
  /\ powerKick = FALSE /\ listening = FALSE
  /\ creating = FALSE /\ task = FALSE /\ made = 0 /\ notified = FALSE
  /\ wpc = "none" /\ cur = 1 /\ power = FALSE /\ ret = "done"
  /\ allowed = TRUE /\ spc = "idle"
  /\ pc = [t \in Tasks |-> "idle"]

Notify == notified' = (notified \/ task)

-----------------------------------------------------------------------------
(* Tasks that kick, and ensureTask. *)

Goto(t, to) == pc' = [pc EXCEPT ![t] = to]

\* The owner has something to write and kicks its job: the flag comes first.
Kick(t) ==
  /\ t \in Kickers /\ pc[t] = "idle"
  /\ \E j \in JobsOf[t] :
       dirty' = [dirty EXCEPT ![j] = TRUE] /\ kicked' = [kicked EXCEPT ![j] = TRUE]
  /\ Goto(t, "ensure")
  /\ UNCHANGED <<onPower, timed, due, powerKick, creating, task, made, notified, writer, supply>>

\* App::loop: only while no task runs or starts, and a job waits.
Retry ==
  /\ pc[Loop] = "idle" /\ ~task /\ ~creating
  /\ \E j \in Jobs : kicked[j]
  /\ Goto(Loop, "ensure")
  /\ UNCHANGED <<slots, powerKick, creating, task, made, notified, writer, supply>>

\* WriteGate::addHolder wants the task at setup.
Start ==
  /\ pc[Loop] = "idle" /\ ~task /\ made = 0
  /\ Goto(Loop, "ensure")
  /\ UNCHANGED <<slots, powerKick, creating, task, made, notified, writer, supply>>

After(t) == IF t = Loop THEN "idle" ELSE "notify"

EnsureTask(t) ==
  /\ pc[t] = "ensure"
  /\ Goto(t, IF task THEN After(t) ELSE "claim")
  /\ UNCHANGED <<slots, powerKick, creating, task, made, notified, writer, supply>>

\* Fault: it does not look whether another kick is creating the task.
Claim_Unchecked(t) ==
  /\ pc[t] = "claim"
  /\ Goto(t, "create")
  /\ creating' = TRUE
  /\ UNCHANGED <<slots, powerKick, task, made, notified, writer, supply>>

Claim(t) ==
  /\ pc[t] = "claim"
  /\ Goto(t, IF creating THEN After(t) ELSE "create")
  /\ creating' = TRUE
  /\ UNCHANGED <<slots, powerKick, task, made, notified, writer, supply>>

Create(t) ==
  /\ pc[t] = "create"
  /\ Goto(t, After(t))
  /\ \/ /\ made' = made + 1
        /\ wpc' = "born"
        /\ UNCHANGED <<creating, cur, power, ret>>
     \/ /\ creating' = FALSE
        /\ UNCHANGED <<made, writer>>
  /\ UNCHANGED <<slots, powerKick, task, notified, supply>>

NotifyTask(t) ==
  /\ pc[t] = "notify"
  /\ Goto(t, "idle")
  /\ Notify
  /\ UNCHANGED <<slots, powerKick, creating, task, made, writer, supply>>

-----------------------------------------------------------------------------
(* The writer task. *)

WriterStep(from) == wpc = from /\ UNCHANGED <<creating, made, supply, pc>>

Born ==
  /\ WriterStep("born")
  /\ task' = TRUE /\ wpc' = "pass"
  /\ UNCHANGED <<slots, powerKick, notified, cur, power, ret>>

Pass ==
  /\ WriterStep("pass")
  /\ power' = powerKick /\ powerKick' = FALSE
  /\ cur' = 1 /\ wpc' = "scan"
  /\ UNCHANGED <<slots, task, notified, ret>>

Runs(j) == kicked[j] \/ (onPower[j] /\ power) \/ (timed[j] /\ due[j])

Scan ==
  /\ WriterStep("scan") /\ cur <= JobCount
  /\ kicked' = [kicked EXCEPT ![cur] = FALSE]
  /\ IF Runs(cur)
     THEN /\ onPower' = [onPower EXCEPT ![cur] = FALSE]
          /\ timed' = [timed EXCEPT ![cur] = FALSE]
          /\ due' = [due EXCEPT ![cur] = FALSE]
          /\ wpc' = "job" /\ UNCHANGED cur
     ELSE cur' = cur + 1 /\ UNCHANGED <<wpc, onPower, timed, due>>
  /\ UNCHANGED <<dirty, powerKick, task, notified, power, ret>>

\* The job looks at the supply and at what its owner keeps; the gate may make
\* it wait (later).
Job ==
  /\ WriterStep("job")
  /\ \/ ~dirty[cur] /\ ret' = "done" /\ UNCHANGED dirty
     \/ dirty[cur] /\ ~allowed /\ ret' = "onPower" /\ UNCHANGED dirty
     \/ dirty[cur] /\ allowed /\ ret' = "later" /\ UNCHANGED dirty
     \/ dirty[cur] /\ allowed /\ ret' = "done" /\ dirty' = [dirty EXCEPT ![cur] = FALSE]
  /\ wpc' = "ret"
  /\ UNCHANGED <<kicked, onPower, timed, due, powerKick, task, notified, cur, power>>

\* Fault: the kick is taken when the job is over, not before it runs.
Return_ClearsKick ==
  /\ WriterStep("ret")
  /\ kicked' = [kicked EXCEPT ![cur] = FALSE]
  /\ onPower' = [onPower EXCEPT ![cur] = ret = "onPower" /\ listening]
  /\ timed' = [timed EXCEPT ![cur] = ret = "later" \/ (ret = "onPower" /\ ~listening)]
  /\ cur' = cur + 1 /\ wpc' = "scan" /\ ret' = "done"
  /\ UNCHANGED <<dirty, due, powerKick, task, notified, power>>

\* Fault: the job is held for a listener that does not exist.
Return_NoListener ==
  /\ WriterStep("ret")
  /\ onPower' = [onPower EXCEPT ![cur] = ret = "onPower"]
  /\ timed' = [timed EXCEPT ![cur] = ret = "later"]
  /\ cur' = cur + 1 /\ wpc' = "scan" /\ ret' = "done"
  /\ UNCHANGED <<dirty, kicked, due, powerKick, task, notified, power>>

\* Without a listener a held job looks again after a while.
Return ==
  /\ WriterStep("ret")
  /\ onPower' = [onPower EXCEPT ![cur] = ret = "onPower" /\ listening]
  /\ timed' = [timed EXCEPT ![cur] = ret = "later" \/ (ret = "onPower" /\ ~listening)]
  /\ cur' = cur + 1 /\ wpc' = "scan" /\ ret' = "done"
  /\ UNCHANGED <<dirty, kicked, due, powerKick, task, notified, power>>

Sleep ==
  /\ WriterStep("scan") /\ cur > JobCount
  /\ wpc' = "wait" /\ cur' = 1 /\ power' = FALSE
  /\ UNCHANGED <<slots, powerKick, task, notified, ret>>

\* ulTaskNotifyTake clears the notification; a retry that is due ends the wait.
Wake ==
  /\ WriterStep("wait")
  /\ \/ notified /\ notified' = FALSE
     \/ ~notified /\ (\E j \in Jobs : timed[j] /\ due[j]) /\ UNCHANGED notified
  /\ wpc' = "pass"
  /\ UNCHANGED <<slots, powerKick, task, cur, power, ret>>

Elapse(j) ==
  /\ timed[j] /\ ~due[j]
  /\ due' = [due EXCEPT ![j] = TRUE]
  /\ UNCHANGED <<dirty, kicked, onPower, timed, powerKick, creating, task, made, notified>>
  /\ UNCHANGED <<writer, supply, pc>>

-----------------------------------------------------------------------------
(* The supply. *)

SupplyStep == UNCHANGED <<slots, creating, task, made, writer, pc>>

\* App::begin; every listener slot may be taken already, so it may never come.
Attach ==
  /\ ~listening /\ spc = "idle"
  /\ AttachAnytime \/ wpc # "ret"
  /\ listening' = TRUE
  /\ SupplyStep /\ UNCHANGED <<powerKick, notified, allowed, spc>>

SetSupply ==
  /\ spc = "idle"
  /\ allowed' = ~allowed
  /\ spc' = IF listening THEN "listener" ELSE "idle"
  /\ SupplyStep /\ UNCHANGED <<powerKick, notified, listening>>

\* The listener sets the flag, then notifies: nothing while writes are off.
\* Fault: the notification comes first.
Listener_Late ==
  \/ /\ spc = "listener" /\ allowed
     /\ Notify /\ spc' = "notify"
     /\ SupplyStep /\ UNCHANGED <<allowed, listening, powerKick>>
  \/ /\ spc = "listener" /\ ~allowed
     /\ spc' = "idle"
     /\ SupplyStep /\ UNCHANGED <<allowed, listening, powerKick, notified>>
  \/ /\ spc = "notify"
     /\ powerKick' = TRUE /\ spc' = "idle"
     /\ SupplyStep /\ UNCHANGED <<allowed, listening, notified>>

Listener ==
  \/ /\ spc = "listener" /\ allowed
     /\ powerKick' = TRUE /\ spc' = "notify"
     /\ SupplyStep /\ UNCHANGED <<allowed, listening, notified>>
  \/ /\ spc = "listener" /\ ~allowed
     /\ spc' = "idle"
     /\ SupplyStep /\ UNCHANGED <<allowed, listening, powerKick, notified>>
  \/ /\ spc = "notify"
     /\ Notify /\ spc' = "idle"
     /\ SupplyStep /\ UNCHANGED <<allowed, listening, powerKick>>

-----------------------------------------------------------------------------
Ensure(t) == EnsureTask(t) \/ Claim(t) \/ Create(t) \/ NotifyTask(t)
Run == Born \/ Pass \/ Scan \/ Job \/ Return \/ Sleep \/ Wake

Next ==
  \/ \E t \in Tasks : Kick(t) \/ Ensure(t)
  \/ Retry \/ Start
  \/ Run
  \/ \E j \in Jobs : Elapse(j)
  \/ Attach \/ SetSupply \/ Listener

\* Internal RAM is short for a while, not for ever; a gate is busy for a while.
Starts == \E t \in Tasks : Create(t) /\ wpc' = "born"
Writes == Job /\ ret' = "done"

Fairness ==
  /\ \A t \in Tasks : WF_vars(Ensure(t))
  /\ WF_vars(Retry) /\ WF_vars(Run) /\ WF_vars(Listener)
  /\ \A j \in Jobs : WF_vars(Elapse(j)) /\ SF_vars(Writes /\ cur = j)
  /\ SF_vars(Starts)

Spec == Init /\ [][Next]_vars /\ Fairness

-----------------------------------------------------------------------------
\* The FlashWriter's state: one task at most, whoever kicks it first.
TypeOK ==
  /\ dirty \in [Jobs -> BOOLEAN] /\ kicked \in [Jobs -> BOOLEAN]
  /\ onPower \in [Jobs -> BOOLEAN] /\ timed \in [Jobs -> BOOLEAN]
  /\ due \in [Jobs -> BOOLEAN]
  /\ powerKick \in BOOLEAN /\ listening \in BOOLEAN
  /\ creating \in BOOLEAN /\ task \in BOOLEAN /\ made \in 0..1 /\ notified \in BOOLEAN
  /\ wpc \in {"none", "born", "pass", "scan", "job", "ret", "wait"}
  /\ cur \in 1..(JobCount + 1) /\ power \in BOOLEAN /\ ret \in {"done", "later", "onPower"}
  /\ allowed \in BOOLEAN /\ spc \in {"idle", "listener", "notify"}
  /\ pc \in [Tasks -> {"idle", "ensure", "claim", "create", "notify"}]

Asleep == wpc = "wait" /\ ~notified

\* The task blocks for good only with nothing to do.  A job that was kicked has a
\* kicker still on its way to notify.
KicksHeard ==
  Asleep => \A j \in Jobs : kicked[j] => \E t \in Kickers : j \in JobsOf[t] /\ pc[t] # "idle"
\* And a job that PowerGuard held has the supply off or its listener still on its way,
\* and no power kick is left over.
NoLostWake ==
  /\ KicksHeard
  /\ Asleep =>
    /\ \A j \in Jobs : onPower[j] => ~allowed \/ spc # "idle"
    /\ powerKick => spc = "notify"

\* FlashWriter.h of attach: it "runs the jobs PowerGuard held once it allows
\* writes again".  The task does not block on a held job while writes are
\* allowed and nobody is about to wake it.
HeldRunAgain ==
  \A j \in Jobs : Asleep /\ onPower[j] /\ allowed /\ spc = "idle" =>
    \E t \in Tasks : pc[t] # "idle"

\* Data that waits to be written has someone that will see to it.
NothingForgotten ==
  \A j \in Jobs : dirty[j] =>
    \/ kicked[j] \/ onPower[j] \/ timed[j]
    \/ cur = j /\ wpc \in {"job", "ret"}

\* With the supply on for good, whatever is kept is written in the end.
Written == <>[]allowed => \A j \in Jobs : dirty[j] ~> ~dirty[j]

-----------------------------------------------------------------------------
(* No kick is lost and nothing is forgotten, for any tasks and jobs and      *)
(* whenever attach comes; no held job misses the supply's return either,     *)
(* unless attach comes between that job's refusal and its note.              *)

WriterAssumption ==
  /\ JobCount \in Nat /\ Loop \notin Kickers /\ AttachAnytime \in BOOLEAN
  /\ JobsOf \in [Kickers -> SUBSET Jobs]

SlotsInv ==
  /\ dirty \in [Jobs -> BOOLEAN] /\ kicked \in [Jobs -> BOOLEAN]
  /\ onPower \in [Jobs -> BOOLEAN] /\ timed \in [Jobs -> BOOLEAN]
  /\ due \in [Jobs -> BOOLEAN]

FlagsInv ==
  /\ powerKick \in BOOLEAN /\ listening \in BOOLEAN
  /\ creating \in BOOLEAN /\ task \in BOOLEAN /\ notified \in BOOLEAN
  /\ power \in BOOLEAN /\ ret \in {"done", "later", "onPower"}
  /\ allowed \in BOOLEAN /\ spc \in {"idle", "listener", "notify"}

\* One task at a time creates the writer, and only once.
CreateInv ==
  /\ pc \in [Tasks -> {"idle", "ensure", "claim", "create", "notify"}]
  /\ \A t, u \in Tasks : pc[t] = "create" /\ pc[u] = "create" => t = u
  /\ \A t \in Tasks : pc[t] = "create" => creating /\ made = 0
  /\ made \in {0, 1} /\ (made = 1 => creating)

\* The writer: which job it is at, and that it is known once it runs.
WriterInv ==
  /\ wpc \in {"none", "born", "pass", "scan", "job", "ret", "wait"}
  /\ wpc = "none" <=> made = 0
  /\ task <=> wpc \notin {"none", "born"}
  /\ cur \in 1..(JobCount + 1)
  /\ wpc \in {"job", "ret"} => cur \in Jobs

\* The writer's pass comes to this job yet; it is past it.
Ahead(j) == wpc \in {"scan", "job", "ret"} /\ (j > cur \/ (j = cur /\ wpc = "scan"))
Past(j) == wpc \in {"scan", "job", "ret", "wait"} /\ ~Ahead(j)

\* A job kicked behind the writer's back has a notification there or on its way.
KickInv ==
  \A j \in Jobs : kicked[j] /\ Past(j) =>
    notified \/ \E t \in Kickers : j \in JobsOf[t] /\ pc[t] # "idle"

\* The supply's return is noted where the writer looks next.
Returning ==
  \/ ~allowed \/ spc = "listener"
  \/ powerKick /\ (spc = "notify" \/ notified \/ wpc = "pass")

\* A job held for the supply runs in this pass, or the supply's return reaches it.
HeldInv ==
  /\ \A j \in Jobs : onPower[j] => listening /\ task /\ (Returning \/ (power /\ Ahead(j)))
  /\ wpc = "ret" /\ ret = "onPower" /\ listening => Returning
  /\ powerKick => spc = "notify" \/ notified \/ wpc \in {"none", "born", "pass"}

\* What the job did not write is kept for a later run.
OwedInv ==
  /\ NothingForgotten
  /\ wpc = "ret" /\ ret = "done" /\ dirty[cur] => kicked[cur]

\* Whenever attach comes; and while it keeps away from the window.
AnyInv == SlotsInv /\ FlagsInv /\ CreateInv /\ WriterInv /\ KickInv /\ OwedInv
IInv == AnyInv /\ HeldInv

\* The step does not attach between a job's refusal and its note.
AttachedInTime == listening' # listening => wpc # "ret"

\* The slots keep their types.
LEMMA SlotsStep ==
  ASSUME WriterAssumption, AnyInv, [Next]_vars
  PROVE  SlotsInv'
<1>1. ASSUME NEW t \in Tasks,
             Kick(t) \/ EnsureTask(t) \/ Claim(t) \/ Create(t) \/ NotifyTask(t)
      PROVE  SlotsInv'
  BY <1>1 DEF AnyInv, SlotsInv, FlagsInv, WriterInv, WriterAssumption, Kick, Goto,
    EnsureTask, After, Claim, Create, NotifyTask, Notify, slots, writer, supply
<1>2. CASE Retry \/ Start \/ Born \/ Pass \/ Scan
  BY <1>2 DEF AnyInv, SlotsInv, FlagsInv, WriterInv, WriterAssumption, Retry, Goto, Start,
    Born, WriterStep, Pass, Scan, Runs, slots, writer, supply
<1>3. CASE Job \/ Return \/ Sleep \/ Wake \/ Attach
  BY <1>3 DEF AnyInv, SlotsInv, FlagsInv, WriterInv, WriterAssumption, Job, WriterStep,
    Return, Sleep, Wake, Attach, SupplyStep, slots, writer, supply
<1>4. CASE SetSupply \/ Listener
  BY <1>4 DEF AnyInv, SlotsInv, FlagsInv, WriterInv, WriterAssumption, SetSupply,
    SupplyStep, Listener, Notify, slots, writer, supply
<1>5. ASSUME NEW j \in Jobs, Elapse(j) PROVE SlotsInv'
  BY <1>5 DEF AnyInv, SlotsInv, FlagsInv, WriterInv, WriterAssumption, Elapse, slots,
    writer, supply
<1>6. CASE UNCHANGED vars
  BY <1>6 DEF AnyInv, SlotsInv, FlagsInv, WriterInv, WriterAssumption, vars, slots,
    writer, supply
<1>. QED  BY <1>1, <1>2, <1>3, <1>4, <1>5, <1>6 DEF Next, Ensure, Run

\* The flags keep their types.
LEMMA FlagsStep ==
  ASSUME WriterAssumption, AnyInv, [Next]_vars
  PROVE  FlagsInv'
<1>1. ASSUME NEW t \in Tasks, Kick(t) \/ EnsureTask(t) \/ Claim(t) PROVE FlagsInv'
  BY ZenonT(60), <1>1 DEF AnyInv, SlotsInv, FlagsInv, WriterAssumption, Kick, Goto, EnsureTask, After,
    Claim, slots, writer, supply
<1>2. ASSUME NEW t \in Tasks, Create(t) \/ NotifyTask(t) PROVE FlagsInv'
  BY ZenonT(60), <1>2 DEF AnyInv, SlotsInv, FlagsInv, WriterAssumption, Create, Goto, After,
    NotifyTask, Notify, slots, writer, supply
<1>3. CASE Retry \/ Start \/ Born
  BY <1>3 DEF AnyInv, SlotsInv, FlagsInv, WriterAssumption, Retry, Goto, Start, Born,
    WriterStep, slots, writer, supply
<1>4. CASE Pass \/ Scan
  BY <1>4 DEF AnyInv, SlotsInv, FlagsInv, WriterAssumption, Pass, WriterStep, Scan, Runs,
    slots, writer, supply
<1>5. CASE Job \/ Return \/ Sleep
  BY ZenonT(60), <1>5 DEF AnyInv, SlotsInv, FlagsInv, WriterAssumption, Job, WriterStep, Return,
    Sleep, slots, writer, supply
<1>6. CASE Wake \/ Attach
  BY <1>6 DEF AnyInv, SlotsInv, FlagsInv, WriterAssumption, Wake, WriterStep, Attach,
    SupplyStep, slots, writer, supply
<1>7. CASE SetSupply \/ Listener
  BY <1>7 DEF AnyInv, SlotsInv, FlagsInv, WriterAssumption, SetSupply, SupplyStep,
    Listener, Notify, slots, writer, supply
<1>8. ASSUME NEW j \in Jobs, Elapse(j) PROVE FlagsInv'
  BY <1>8 DEF AnyInv, SlotsInv, FlagsInv, WriterAssumption, Elapse, slots, writer, supply
<1>9. CASE UNCHANGED vars
  BY <1>9 DEF AnyInv, SlotsInv, FlagsInv, WriterAssumption, vars, slots, writer, supply
<1>. QED  BY <1>1, <1>2, <1>3, <1>4, <1>5, <1>6, <1>7, <1>8, <1>9 DEF Next, Ensure, Run

\* The writer is created once.
LEMMA CreateStep ==
  ASSUME WriterAssumption, AnyInv, [Next]_vars
  PROVE  CreateInv'
<1>1. ASSUME NEW t \in Tasks,
             Kick(t) \/ EnsureTask(t) \/ Claim(t) \/ Create(t) \/ NotifyTask(t)
      PROVE  CreateInv'
  BY <1>1 DEF AnyInv, SlotsInv, FlagsInv, CreateInv, WriterInv, WriterAssumption, Tasks,
    Kick, Goto, EnsureTask, After, Claim, Create, NotifyTask, Notify, slots, writer,
    supply
<1>2. CASE Retry \/ Start \/ Born \/ Pass \/ Scan
  BY <1>2 DEF AnyInv, SlotsInv, FlagsInv, CreateInv, WriterInv, WriterAssumption, Tasks,
    Retry, Goto, Start, Born, WriterStep, Pass, Scan, Runs, slots, writer, supply
<1>3. CASE Job \/ Return \/ Sleep \/ Wake \/ Attach
  BY <1>3 DEF AnyInv, SlotsInv, FlagsInv, CreateInv, WriterInv, WriterAssumption, Tasks,
    Job, WriterStep, Return, Sleep, Wake, Attach, SupplyStep, slots, writer, supply
<1>4. CASE SetSupply \/ Listener
  BY <1>4 DEF AnyInv, SlotsInv, FlagsInv, CreateInv, WriterInv, WriterAssumption, Tasks,
    SetSupply, SupplyStep, Listener, Notify, slots, writer, supply
<1>5. ASSUME NEW j \in Jobs, Elapse(j) PROVE CreateInv'
  BY <1>5 DEF AnyInv, SlotsInv, FlagsInv, CreateInv, WriterInv, WriterAssumption, Tasks,
    Elapse, slots, writer, supply
<1>6. CASE UNCHANGED vars
  BY <1>6 DEF AnyInv, SlotsInv, FlagsInv, CreateInv, WriterInv, WriterAssumption, Tasks,
    vars, slots, writer, supply
<1>. QED  BY <1>1, <1>2, <1>3, <1>4, <1>5, <1>6 DEF Next, Ensure, Run

\* The writer keeps its place.
LEMMA WriterStays ==
  ASSUME WriterAssumption, AnyInv, [Next]_vars
  PROVE  WriterInv'
<1>1. ASSUME NEW t \in Tasks,
             Kick(t) \/ EnsureTask(t) \/ Claim(t) \/ Create(t) \/ NotifyTask(t)
      PROVE  WriterInv'
  BY <1>1 DEF AnyInv, SlotsInv, FlagsInv, CreateInv, WriterInv, WriterAssumption, Jobs,
    Kick, Goto, EnsureTask, After, Claim, Create, NotifyTask, Notify, slots, writer,
    supply
<1>2. CASE Retry \/ Start \/ Born \/ Pass \/ Scan
  BY <1>2 DEF AnyInv, SlotsInv, FlagsInv, CreateInv, WriterInv, WriterAssumption, Jobs,
    Retry, Goto, Start, Born, WriterStep, Pass, Scan, Runs, slots, writer, supply
<1>3. CASE Job \/ Return \/ Sleep \/ Wake \/ Attach
  BY <1>3 DEF AnyInv, SlotsInv, FlagsInv, CreateInv, WriterInv, WriterAssumption, Jobs,
    Job, WriterStep, Return, Sleep, Wake, Attach, SupplyStep, slots, writer, supply
<1>4. CASE SetSupply \/ Listener
  BY <1>4 DEF AnyInv, SlotsInv, FlagsInv, CreateInv, WriterInv, WriterAssumption, Jobs,
    SetSupply, SupplyStep, Listener, Notify, slots, writer, supply
<1>5. ASSUME NEW j \in Jobs, Elapse(j) PROVE WriterInv'
  BY <1>5 DEF AnyInv, SlotsInv, FlagsInv, CreateInv, WriterInv, WriterAssumption, Jobs,
    Elapse, slots, writer, supply
<1>6. CASE UNCHANGED vars
  BY <1>6 DEF AnyInv, SlotsInv, FlagsInv, CreateInv, WriterInv, WriterAssumption, Jobs,
    vars, slots, writer, supply
<1>. QED  BY <1>1, <1>2, <1>3, <1>4, <1>5, <1>6 DEF Next, Ensure, Run

\* A kick behind the writer is notified.
LEMMA KickStep ==
  ASSUME WriterAssumption, AnyInv, [Next]_vars
  PROVE  KickInv'
<1>1. ASSUME NEW t \in Tasks, Kick(t) \/ EnsureTask(t) \/ Claim(t) PROVE KickInv'
  BY <1>1 DEF AnyInv, SlotsInv, FlagsInv, CreateInv, WriterInv, KickInv, Ahead, Past,
    WriterAssumption, Tasks, Jobs, Kick, Goto, EnsureTask, After, Claim, slots, writer,
    supply
<1>2. ASSUME NEW t \in Tasks, Create(t) \/ NotifyTask(t) PROVE KickInv'
  BY <1>2 DEF AnyInv, SlotsInv, FlagsInv, CreateInv, WriterInv, KickInv, Ahead, Past,
    WriterAssumption, Tasks, Jobs, Create, Goto, After, NotifyTask, Notify, slots,
    writer, supply
<1>3. CASE Retry \/ Start \/ Born
  BY <1>3 DEF AnyInv, SlotsInv, FlagsInv, CreateInv, WriterInv, KickInv, Ahead, Past,
    WriterAssumption, Tasks, Jobs, Retry, Goto, Start, Born, WriterStep, slots,
    writer, supply
<1>4. CASE Pass
  BY <1>4 DEF AnyInv, SlotsInv, FlagsInv, CreateInv, WriterInv, KickInv, Ahead, Past,
    WriterAssumption, Tasks, Jobs, Pass, WriterStep, slots,
    writer, supply
<1>5. CASE Scan
  BY <1>5 DEF AnyInv, SlotsInv, FlagsInv, CreateInv, WriterInv, KickInv, Ahead, Past,
    WriterAssumption, Tasks, Jobs, Scan, Runs, WriterStep, slots,
    writer, supply
<1>6. CASE Job \/ Return \/ Sleep \/ Wake \/ Attach
  BY <1>6 DEF AnyInv, SlotsInv, FlagsInv, CreateInv, WriterInv, KickInv, Ahead, Past,
    WriterAssumption, Tasks, Jobs, Job, WriterStep, Return, Sleep, Wake, Attach,
    SupplyStep, slots, writer, supply
<1>7. CASE SetSupply \/ Listener
  BY <1>7 DEF AnyInv, SlotsInv, FlagsInv, CreateInv, WriterInv, KickInv, Ahead, Past,
    WriterAssumption, Tasks, Jobs, SetSupply, SupplyStep, Listener, Notify, slots,
    writer, supply
<1>8. ASSUME NEW j \in Jobs, Elapse(j) PROVE KickInv'
  BY <1>8 DEF AnyInv, SlotsInv, FlagsInv, CreateInv, WriterInv, KickInv, Ahead, Past,
    WriterAssumption, Tasks, Jobs, Elapse, slots, writer, supply
<1>9. CASE UNCHANGED vars
  BY <1>9 DEF AnyInv, SlotsInv, FlagsInv, CreateInv, WriterInv, KickInv, Ahead, Past,
    WriterAssumption, Tasks, Jobs, vars, slots, writer, supply
<1>. QED  BY <1>1, <1>2, <1>3, <1>4, <1>5, <1>6, <1>7, <1>8, <1>9 DEF Next, Ensure, Run

\* A job held for the supply comes up.
LEMMA HeldStep ==
  ASSUME WriterAssumption, IInv, [Next]_vars, AttachedInTime
  PROVE  HeldInv'
<1>1. ASSUME NEW t \in Tasks,
             Kick(t) \/ EnsureTask(t) \/ Claim(t) \/ Create(t) \/ NotifyTask(t)
      PROVE  HeldInv'
  BY <1>1 DEF IInv, AnyInv, SlotsInv, FlagsInv, CreateInv, WriterInv, HeldInv, Returning, Ahead,
    WriterAssumption, Jobs, Kick, Goto, EnsureTask, After, Claim, Create, NotifyTask,
    Notify, slots, writer, supply
<1>2. CASE Retry \/ Start \/ Born \/ Pass \/ Scan
  BY <1>2 DEF IInv, AnyInv, SlotsInv, FlagsInv, CreateInv, WriterInv, HeldInv, Returning, Ahead,
    WriterAssumption, Jobs, Retry, Goto, Start, Born, WriterStep, Pass, Scan, Runs,
    slots, writer, supply
<1>3. CASE Job \/ Return \/ Sleep \/ Wake \/ Attach
  BY <1>3, AttachedInTime DEF IInv, AnyInv, AttachedInTime, SlotsInv, FlagsInv, CreateInv, WriterInv, HeldInv, Returning, Ahead,
    WriterAssumption, Jobs, Job, WriterStep, Return, Sleep, Wake, Attach, SupplyStep,
    slots, writer, supply
<1>4. CASE SetSupply \/ Listener
  BY <1>4 DEF IInv, AnyInv, SlotsInv, FlagsInv, CreateInv, WriterInv, HeldInv, Returning, Ahead,
    WriterAssumption, Jobs, SetSupply, SupplyStep, Listener, Notify, slots, writer,
    supply
<1>5. ASSUME NEW j \in Jobs, Elapse(j) PROVE HeldInv'
  BY <1>5 DEF IInv, AnyInv, SlotsInv, FlagsInv, CreateInv, WriterInv, HeldInv, Returning, Ahead,
    WriterAssumption, Jobs, Elapse, slots, writer, supply
<1>6. CASE UNCHANGED vars
  BY <1>6 DEF IInv, AnyInv, SlotsInv, FlagsInv, CreateInv, WriterInv, HeldInv, Returning, Ahead,
    WriterAssumption, Jobs, vars, slots, writer, supply
<1>. QED  BY <1>1, <1>2, <1>3, <1>4, <1>5, <1>6 DEF Next, Ensure, Run

\* What is not written is kept.
LEMMA OwedStep ==
  ASSUME WriterAssumption, AnyInv, [Next]_vars
  PROVE  OwedInv'
<1>1. ASSUME NEW t \in Tasks, Kick(t) \/ EnsureTask(t) \/ Claim(t) PROVE OwedInv'
  BY <1>1 DEF AnyInv, SlotsInv, FlagsInv, WriterInv, OwedInv, NothingForgotten,
    WriterAssumption, Kick, Goto, EnsureTask, After, Claim, slots, writer, supply
<1>2. ASSUME NEW t \in Tasks, NotifyTask(t) PROVE OwedInv'
  BY <1>2 DEF AnyInv, SlotsInv, FlagsInv, WriterInv, OwedInv, NothingForgotten,
    WriterAssumption, NotifyTask, Goto, Notify, slots, writer, supply
<1>3. ASSUME NEW t \in Tasks, Create(t) PROVE OwedInv'
  BY <1>3 DEF AnyInv, SlotsInv, FlagsInv, CreateInv, WriterInv, OwedInv, NothingForgotten,
    Create, Goto, After, slots, writer, supply
<1>4. CASE Retry \/ Start \/ Born \/ Pass \/ Scan
  BY <1>4 DEF AnyInv, SlotsInv, FlagsInv, WriterInv, OwedInv, NothingForgotten,
    WriterAssumption, Retry, Goto, Start, Born, WriterStep, Pass, Scan, Runs, slots,
    writer, supply
<1>5. CASE Job \/ Return \/ Sleep \/ Wake \/ Attach
  BY <1>5 DEF AnyInv, SlotsInv, FlagsInv, WriterInv, OwedInv, NothingForgotten,
    WriterAssumption, Job, WriterStep, Return, Sleep, Wake, Attach, SupplyStep, slots,
    writer, supply
<1>6. CASE SetSupply \/ Listener
  BY <1>6 DEF AnyInv, SlotsInv, FlagsInv, WriterInv, OwedInv, NothingForgotten,
    WriterAssumption, SetSupply, SupplyStep, Listener, Notify, slots, writer, supply
<1>7. ASSUME NEW j \in Jobs, Elapse(j) PROVE OwedInv'
  BY <1>7 DEF AnyInv, SlotsInv, FlagsInv, WriterInv, OwedInv, NothingForgotten,
    WriterAssumption, Elapse, slots, writer, supply
<1>8. CASE UNCHANGED vars
  BY <1>8 DEF AnyInv, SlotsInv, FlagsInv, WriterInv, OwedInv, NothingForgotten,
    WriterAssumption, vars, slots, writer, supply
<1>. QED  BY <1>1, <1>2, <1>3, <1>4, <1>5, <1>6, <1>7, <1>8 DEF Next, Ensure, Run

\* It holds at the start.
LEMMA InvInit ==
  ASSUME WriterAssumption, Init
  PROVE  IInv
<1>1. SlotsInv /\ FlagsInv
  BY DEF Init, SlotsInv, FlagsInv
<1>2. CreateInv /\ WriterInv
  BY DEF Init, CreateInv, WriterInv, WriterAssumption
<1>3. KickInv /\ HeldInv /\ OwedInv
  BY DEF Init, KickInv, Past, HeldInv, Returning, OwedInv, NothingForgotten
<1>. QED  BY <1>1, <1>2, <1>3 DEF IInv, AnyInv

\* Every step keeps what does not depend on attach.
LEMMA AnyNext ==
  ASSUME WriterAssumption, AnyInv, [Next]_vars
  PROVE  AnyInv'
<1>. QED  BY SlotsStep, FlagsStep, CreateStep, WriterStays, KickStep, OwedStep DEF AnyInv

\* A step outside the window keeps all of it.
LEMMA InvNext ==
  ASSUME WriterAssumption, IInv, [Next]_vars, AttachedInTime
  PROVE  IInv'
<1>. QED  BY AnyNext, HeldStep DEF IInv

\* Attach is the only step that attaches, so a build that calls it before any job can be
\* refused has no step in the window.
LEMMA InTime ==
  ASSUME ~AttachAnytime, [Next]_vars
  PROVE  AttachedInTime
<1>1. ASSUME NEW t \in Tasks,
             Kick(t) \/ EnsureTask(t) \/ Claim(t) \/ Create(t) \/ NotifyTask(t)
      PROVE  AttachedInTime
  BY <1>1 DEF AttachedInTime, Kick, EnsureTask, Claim, Create, NotifyTask, supply
<1>2. CASE Retry \/ Start \/ Run
  BY <1>2 DEF AttachedInTime, Retry, Start, Run, Born, Pass, Scan, Job, Return, Sleep, Wake,
    WriterStep, supply
<1>3. CASE Attach \/ SetSupply \/ Listener
  BY <1>3 DEF AttachedInTime, Attach, SetSupply, Listener, SupplyStep
<1>4. ASSUME NEW j \in Jobs, Elapse(j) PROVE AttachedInTime
  BY <1>4 DEF AttachedInTime, Elapse, supply
<1>5. CASE UNCHANGED vars
  BY <1>5 DEF AttachedInTime, vars, supply
<1>. QED  BY <1>1, <1>2, <1>3, <1>4, <1>5 DEF Next, Ensure

\* What it says of the promises above.
LEMMA AnyGives ==
  ASSUME WriterAssumption, AnyInv
  PROVE  TypeOK /\ KicksHeard /\ NothingForgotten
<1>1. TypeOK
  BY DEF AnyInv, SlotsInv, FlagsInv, CreateInv, WriterInv, TypeOK
<1>2. KicksHeard
  BY DEF AnyInv, KickInv, Past, Ahead, KicksHeard, Asleep
<1>. QED  BY <1>1, <1>2 DEF AnyInv, OwedInv

LEMMA InvGives ==
  ASSUME WriterAssumption, IInv
  PROVE  TypeOK /\ NoLostWake /\ NothingForgotten
<1>1. TypeOK /\ KicksHeard /\ NothingForgotten
  BY AnyGives DEF IInv
<1>2. NoLostWake
  BY <1>1 DEF IInv, AnyInv, FlagsInv, HeldInv, Past, Ahead, Returning, NoLostWake, KicksHeard, Asleep
<1>. QED  BY <1>1, <1>2

\* For any tasks and jobs, and whenever App::begin attaches the listener: one writer task,
\* no kick lost between its flag and the writer's sleep, and what waits to be written is
\* kicked, held or timed (FlashWriter::kick, run, ensureTask).
THEOREM NoKickLost ==
  ASSUME WriterAssumption
  PROVE  Spec => [](TypeOK /\ KicksHeard /\ NothingForgotten)
<1>1. Init => AnyInv
  BY InvInit DEF IInv
<1>2. AnyInv /\ [Next]_vars => AnyInv'
  BY AnyNext
<1>3. AnyInv => TypeOK /\ KicksHeard /\ NothingForgotten
  BY AnyGives
<1>. QED  BY <1>1, <1>2, <1>3, PTL DEF Spec

\* If attach never comes between a job's refusal and its note (the one thing the code does
\* not see to: FlashWriter.cpp:61-63), no job held for the supply misses its return either
\* (the PowerGuard listener against run's pass and sleep).
THEOREM NoWakeLost ==
  ASSUME WriterAssumption
  PROVE  Spec /\ [][AttachedInTime]_vars => [](TypeOK /\ NoLostWake /\ NothingForgotten)
<1>1. Init => IInv
  BY InvInit
<1>2. IInv /\ [Next]_vars /\ [AttachedInTime]_vars => IInv'
  <2>1. AttachedInTime \/ UNCHANGED vars => (UNCHANGED vars => AttachedInTime)
    BY DEF AttachedInTime, vars, supply
  <2>. QED  BY <2>1, InvNext
<1>3. IInv => TypeOK /\ NoLostWake /\ NothingForgotten
  BY InvGives
<1>. QED  BY <1>1, <1>2, <1>3, PTL DEF Spec
==============================================================================
