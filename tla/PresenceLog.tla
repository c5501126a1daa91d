----------------------------- MODULE PresenceLog -----------------------------
(***************************************************************************)
(* The presence log's writes (PresenceLogWriter.h, PresenceLogQueue.h and   *)
(* its Io in PresenceService.cpp): async_tcp appends a line with a gate     *)
(* pass or queues it, the FlashWriter job writes the queue a batch per run, *)
(* the shutdown flushes what is left. The write gate (its own module) is    *)
(* taken here as it is to this code: a pass or a slot is had or not, and a  *)
(* free gate lets several writers in at once.                               *)
(***************************************************************************)
EXTENDS Naturals, Sequences

CONSTANTS
  MaxLines,    \* lines of the run
  Lines,       \* LOG_QUEUE_LINES (and bytes): what the queue holds
  Batch,       \* LOG_BATCH_BYTES, in lines
  FileCap,     \* the file's cap, in lines
  FlushSteps,  \* kFlushSteps
  MaxMiss,     \* lock misses
  MaxFails,    \* failed appends
  MaxPower     \* changes of the supply

VARIABLES
  n,           \* lines so far; the newest is async_tcp's while web # "idle"
  hasJob,      \* canDefer(): the FlashWriter gave a job
  q, lost,     \* the queue; the lines counted as lost (dropped ones too)
  file, size,  \* every line ever written, in order; lines since the last roll-over
  writing, waits, done,  \* _logWriting, _logWaits, _logDone
  power,       \* PowerGuard::writesAllowed()
  web,         \* append() on async_tcp
  pc, batch,   \* drainOne() of the job and of the shutdown
  due,         \* the FlashWriter runs the job: "no" | "yes" | "power" (once writes go again)
  left, upTo,  \* flush(): steps left; the lines there were when it began
  said,        \* ... and the lines it says were left, or -1
  misses, fails, moves

vars == <<n, hasJob, q, lost, file, size, writing, waits, done, power, web, pc, batch, due, left, upTo, said,
          misses, fails, moves>>

Writers == {"job", "shut"}
Nobody == 0 - 1

TypeOK ==
  /\ n \in 0..MaxLines /\ hasJob \in BOOLEAN
  /\ q \in Seq(1..MaxLines) /\ Len(q) <= Lines
  /\ lost \in 0..MaxLines
  /\ file \in Seq(1..MaxLines) /\ size \in 0..FileCap + Batch
  /\ writing \in BOOLEAN /\ waits \in BOOLEAN /\ done \in BOOLEAN /\ power \in BOOLEAN
  /\ web \in {"idle", "look", "pass", "claim", "write", "free", "freeq", "queue", "kick", "direct", "again"}
  /\ pc \in [Writers -> {"idle", "look", "slot", "claim", "at", "write", "free", "check", "more", "wait"}]
  /\ batch \in [Writers -> Seq(1..MaxLines)]
  /\ due \in {"no", "yes", "power"}
  /\ left \in 0..FlushSteps /\ upTo \in 0..MaxLines /\ said \in Nobody..Lines
  /\ misses \in 0..MaxMiss /\ fails \in 0..MaxFails /\ moves \in 0..MaxPower

Init ==
  /\ n = 0 /\ hasJob \in BOOLEAN
  /\ q = <<>> /\ lost = 0 /\ file = <<>> /\ size = 0
  /\ writing = FALSE /\ waits = FALSE /\ done = FALSE /\ power = TRUE
  /\ web = "idle"
  /\ pc = [w \in Writers |-> "idle"] /\ batch = [w \in Writers |-> <<>>]
  /\ due = "no" /\ left = 0 /\ upTo = 0 /\ said = Nobody
  /\ misses = 0 /\ fails = 0 /\ moves = 0

queue == <<q, lost>>
disk == <<file, size, fails>>
claims == <<writing, waits, done>>
drains == <<pc, batch, due>>
flushing == <<left, upTo, said>>
env == <<power, moves>>

(* The queue lock: had, or missed within 50 ms. *)
Locks == misses' = misses
Misses == misses < MaxMiss /\ misses' = misses + 1

Push_Grows == q' = Append(q, n) /\ UNCHANGED lost
(* push: the newest stays, the oldest go, counted. *)
Push ==
  /\ q' = IF Len(q) = Lines THEN Append(Tail(q), n) ELSE Append(q, n)
  /\ lost' = IF Len(q) = Lines THEN lost + 1 ELSE lost
LoseLine == lost' = lost + 1 /\ UNCHANGED q

(* logAppend of some lines: written whole, or failed and counted. *)
Writes(lines) ==
  \/ file' = file \o lines /\ size' = size + Len(lines) /\ UNCHANGED <<lost, fails>>
  \/ fails < MaxFails /\ fails' = fails + 1 /\ lost' = lost + Len(lines) /\ UNCHANGED <<file, size>>

OverCap == size >= FileCap
Roll == size' = 0 /\ UNCHANGED <<file, fails, lost>>

(* release(): whoever waits for the writer is signalled. *)
Release ==
  /\ writing' = FALSE /\ waits' = FALSE
  /\ done' = (done \/ waits)

Kick == due' = "yes"

(***************************************************************************)
(* append(row) on async_tcp                                                *)
(***************************************************************************)
WebLine ==
  /\ web = "idle" /\ n < MaxLines
  /\ n' = n + 1
  /\ web' = IF hasJob THEN "look" ELSE "direct"
  /\ UNCHANGED <<hasJob, queue, disk, claims, drains, flushing, env, misses>>

(* No job: two gate passes at most (a roll-over takes one), else lost. *)
WebDirect ==
  /\ web \in {"direct", "again"}
  /\ \/ LoseLine /\ web' = "idle" /\ UNCHANGED disk
     \/ /\ power
        /\ IF OverCap
             THEN IF web = "again" THEN LoseLine /\ web' = "idle" /\ size' = 0 /\ UNCHANGED <<file, fails>>
                  ELSE Roll /\ web' = "again" /\ UNCHANGED q
             ELSE Writes(<<n>>) /\ web' = "idle" /\ UNCHANGED q
  /\ UNCHANGED <<n, hasJob, claims, drains, flushing, env, misses>>

(* Behind the queued lines, else at once. *)
WebLook ==
  /\ web = "look"
  /\ \/ Misses /\ LoseLine /\ web' = "idle"
     \/ /\ Locks
        /\ IF q # <<>> THEN Push /\ web' = "kick" ELSE web' = "pass" /\ UNCHANGED queue
  /\ UNCHANGED <<n, hasJob, disk, claims, drains, flushing, env>>

WebPass ==
  /\ web = "pass"
  /\ \/ power /\ web' = "claim"
     \/ web' = "queue"
  /\ UNCHANGED <<n, hasJob, queue, disk, claims, drains, flushing, env, misses>>

WebClaim_Regardless ==
  /\ web = "claim"
  /\ web' = "write"
  /\ writing' = TRUE
  /\ UNCHANGED <<n, hasJob, queue, disk, waits, done, drains, flushing, env, misses>>
WebClaim ==
  /\ web = "claim"
  /\ web' = IF writing THEN "queue" ELSE "write"
  /\ writing' = TRUE
  /\ UNCHANGED <<n, hasJob, queue, disk, waits, done, drains, flushing, env, misses>>

WebWrite ==
  /\ web = "write"
  /\ IF OverCap THEN Roll /\ web' = "freeq" ELSE Writes(<<n>>) /\ web' = "free"
  /\ UNCHANGED <<n, hasJob, q, claims, drains, flushing, env, misses>>

WebFree ==
  /\ web \in {"free", "freeq"}
  /\ Release
  /\ web' = IF web = "free" THEN "idle" ELSE "queue"
  /\ UNCHANGED <<n, hasJob, queue, disk, drains, flushing, env, misses>>

WebQueue_Quiet ==
  /\ web = "queue"
  /\ \/ Misses /\ LoseLine
     \/ Locks /\ Push
  /\ web' = "idle"
  /\ UNCHANGED <<n, hasJob, disk, claims, drains, flushing, env>>
WebQueue ==
  /\ web = "queue"
  /\ \/ Misses /\ LoseLine /\ web' = "idle"
     \/ Locks /\ Push /\ web' = "kick"
  /\ UNCHANGED <<n, hasJob, disk, claims, drains, flushing, env>>

WebKick ==
  /\ web = "kick"
  /\ Kick /\ web' = "idle"
  /\ UNCHANGED <<n, hasJob, queue, disk, claims, pc, batch, flushing, env, misses>>

(***************************************************************************)
(* The FlashWriter's run of the job, and the shutdown's flush              *)
(***************************************************************************)
JobStart ==
  /\ hasJob /\ pc["job"] = "idle" /\ due = "yes"
  /\ due' = "no"
  /\ pc' = [pc EXCEPT !["job"] = "look"]
  /\ UNCHANGED <<n, hasJob, queue, disk, claims, web, batch, flushing, env, misses>>

FlushStart ==
  /\ hasJob /\ pc["shut"] = "idle" /\ upTo = 0 /\ n > 0
  /\ upTo' = n /\ left' = FlushSteps
  /\ pc' = [pc EXCEPT !["shut"] = "look"]
  /\ UNCHANGED <<n, hasJob, queue, disk, claims, web, batch, due, said, env, misses>>

(* flush() ends: the lines in the queue, 0 when the lock is missed. *)
FlushEnds(lines) == pc' = [pc EXCEPT !["shut"] = "idle"] /\ said' = lines /\ left' = 0 /\ UNCHANGED <<upTo, due>>

(* What drainOne's answer makes of the job (its return value) and the flush. *)
JobSays(r) ==
  /\ pc' = [pc EXCEPT !["job"] = "idle"]
  /\ due' = IF due = "yes" THEN "yes"
            ELSE CASE r = "Empty" -> "no"
                   [] r = "OnPower" -> IF power THEN "yes" ELSE "power"
                   [] OTHER -> "yes"
  /\ UNCHANGED flushing

FlushSays(r) ==
  IF r = "Empty" THEN FlushEnds(0)
  ELSE IF r \in {"OnPower", "NoLock"} \/ (r = "More" /\ left = 1) THEN FlushEnds(Len(q'))
  ELSE /\ pc' = [pc EXCEPT !["shut"] = IF r = "Busy" THEN "wait" ELSE "look"]
       /\ left' = IF r = "Busy" THEN left ELSE left - 1
       /\ UNCHANGED <<upTo, said, due>>

Says(w, r) == IF w = "job" THEN JobSays(r) ELSE FlushSays(r)
Goes(w, to) == pc' = [pc EXCEPT ![w] = to] /\ UNCHANGED <<due, flushing>>

DrainLook(w) ==
  /\ pc[w] = "look"
  /\ UNCHANGED queue
  /\ \/ Misses /\ Says(w, "NoLock")
     \/ Locks /\ IF q = <<>> THEN Says(w, "Empty") ELSE Goes(w, "slot")
  /\ UNCHANGED <<n, hasJob, disk, claims, web, batch, env>>

DrainSlot(w) ==
  /\ pc[w] = "slot"
  /\ UNCHANGED queue
  /\ IF power THEN Goes(w, "claim") ELSE Says(w, "OnPower")
  /\ UNCHANGED <<n, hasJob, disk, claims, web, batch, env, misses>>

(* claim(wait): the flush asks the writer at it for a signal. *)
DrainClaim(w) ==
  /\ pc[w] = "claim"
  /\ UNCHANGED queue
  /\ writing' = TRUE
  /\ waits' = (waits \/ (writing /\ w = "shut"))
  /\ IF writing THEN Says(w, "Busy") ELSE Goes(w, "at")
  /\ UNCHANGED <<n, hasJob, disk, done, web, batch, env, misses>>

(* The roll-over, a step of its own; or the batch, taken now. *)
DrainTake(w) ==
  /\ pc[w] = "at"
  /\ \/ OverCap /\ Roll /\ Goes(w, "more") /\ Locks /\ UNCHANGED <<q, batch>>
     \/ ~OverCap /\ Misses /\ Goes(w, "free") /\ UNCHANGED <<queue, disk, batch>>
     \/ LET k == IF Len(q) < Batch THEN Len(q) ELSE Batch IN
          /\ ~OverCap /\ Locks
          /\ batch' = [batch EXCEPT ![w] = SubSeq(q, 1, k)]
          /\ q' = SubSeq(q, k + 1, Len(q))
          /\ Goes(w, IF k = 0 THEN "more" ELSE "write")
          /\ UNCHANGED <<lost, disk>>
  /\ UNCHANGED <<n, hasJob, claims, web, env>>

DrainWrite(w) ==
  /\ pc[w] = "write"
  /\ Writes(batch[w]) /\ UNCHANGED q
  /\ batch' = [batch EXCEPT ![w] = <<>>]
  /\ Goes(w, "more")
  /\ UNCHANGED <<n, hasJob, claims, web, env, misses>>

(* release(), then the queue looked at again unless the lock was missed.    *)
DrainFree(w) ==
  /\ pc[w] \in {"more", "free"}
  /\ Release /\ UNCHANGED queue
  /\ IF pc[w] = "free" THEN Says(w, "NoLock") ELSE Goes(w, "check")
  /\ UNCHANGED <<n, hasJob, disk, web, batch, env, misses>>

DrainCheck(w) ==
  /\ pc[w] = "check"
  /\ UNCHANGED queue
  /\ \/ Misses /\ Says(w, "More")
     \/ Locks /\ Says(w, IF q = <<>> THEN "Empty" ELSE "More")
  /\ UNCHANGED <<n, hasJob, disk, claims, web, batch, env>>

(* waitWriter: the signal, or the time is up. *)
FlushWait ==
  /\ pc["shut"] = "wait"
  /\ UNCHANGED queue
  /\ \/ /\ done /\ done' = FALSE
        /\ IF left = 1 THEN FlushEnds(Len(q))
           ELSE pc' = [pc EXCEPT !["shut"] = "look"] /\ left' = left - 1 /\ UNCHANGED <<upTo, said, due>>
     \/ FlushEnds(Len(q)) /\ UNCHANGED done
  /\ UNCHANGED <<n, hasJob, disk, writing, waits, web, batch, env, misses>>

(* PowerGuard pauses and allows writes; the jobs that wait for it go again. *)
SetPower ==
  /\ moves < MaxPower /\ moves' = moves + 1
  /\ power' = ~power
  /\ due' = IF power' /\ due = "power" THEN "yes" ELSE due
  /\ UNCHANGED <<n, hasJob, queue, disk, claims, web, pc, batch, flushing, misses>>

Next ==
  \/ WebLine \/ WebDirect \/ WebLook \/ WebPass \/ WebClaim \/ WebWrite \/ WebFree \/ WebQueue \/ WebKick
  \/ JobStart \/ FlushStart \/ FlushWait \/ SetPower
  \/ \E w \in Writers :
       DrainLook(w) \/ DrainSlot(w) \/ DrainClaim(w) \/ DrainTake(w) \/ DrainWrite(w) \/ DrainFree(w) \/ DrainCheck(w)

Spec == Init /\ [][Next]_vars

(***************************************************************************)
(* Properties                                                              *)
(***************************************************************************)

(* Whoever writes them, the lines are in the file in the order they came,   *)
(* each once, and one that is not there is waiting or counted.              *)
InHand == (IF web \in {"idle", "kick", "free"} THEN 0 ELSE 1) + Len(batch["job"]) + Len(batch["shut"])
InOrder ==
  /\ \A i, j \in 1..Len(file) : i < j => file[i] < file[j]
  /\ n = Len(file) + Len(q) + lost + InHand

(* A queued line never waits for a run of the job nobody asked for. *)
JobComes == q # <<>> => due # "no" \/ pc["job"] # "idle" \/ web = "kick"

(* "a write under way on another task, whose end it waits for": when the    *)
(* flush says nothing is left, no line it found is still in the job's hand. *)
FlushedWhole == said = 0 => \A i \in 1..Len(batch["job"]) : batch["job"][i] > upTo
=============================================================================
