-------------------------------- MODULE CheckIn --------------------------------
(* The check-in of modules/mothership (MothershipService.cpp): one task that     *)
(* posts to the server whenever the gates are open and the time has come, hands  *)
(* over the results of earlier actions in chunks of a bounded ring, dispatches   *)
(* the actions of the answer, and sets its own pace (the interval, a burst after *)
(* actions, the override of an open panel). The server is external: it queues    *)
(* actions, hands all of them out with one answer and collects the chunks.       *)
EXTENDS Naturals, Sequences, SequencesExt, FiniteSets

CONSTANTS
    Ring,       \* RESULT_RING_CAP
    PerCheckin, \* MAX_CHUNKS_PER_CHECKIN
    Chunks,     \* chunks of a large result
    Base,       \* interval_s
    Burst,      \* the follow-up after actions, 10 s
    MaxNow, MaxActions, MaxLost, MaxBoots   \* bounds: time, actions queued, calls lost, restarts

VARIABLES
    gate,       \* a valid certificate, Wi-Fi, a profile with a URL
    task,       \* the check-in task: where, its start, its base interval
    next,       \* next_checkin_at_s
    over,       \* cadence override: until, period
    ring,       \* _resultRing
    failures,   \* s_consec_failures
    loader,     \* the loader's result of this boot, and s_loaderResultSent
    now,
    queue,      \* server: actions not handed out yet
    got,        \* server: chunks taken
    told,       \* server: it has the loader's result of this boot
    made,       \* history: chunks of the results of dispatched actions
    dropped,    \* history: chunks the full ring let go
    lost, actions, boots

vars == <<gate, task, next, over, ring, failures, loader, now, queue, got, told, made,
          dropped, lost, actions, boots>>

Waiting == [at |-> "wait"]
Calm == [until |-> 0, period |-> 0]
Small(a) == <<[req |-> a, idx |-> 1, of |-> 1]>>
Large(a) == [i \in 1..Chunks |-> [req |-> a, idx |-> i, of |-> Chunks]]
Kinds == {"small", "large", "panel", "close", "reboot"}

Init ==
    /\ gate = [cert |-> FALSE, wifi |-> FALSE, url |-> TRUE]
    /\ task = Waiting /\ next = 0 /\ over = Calm /\ ring = <<>> /\ failures = 0
    /\ loader \in {[have |-> h, sent |-> FALSE] : h \in BOOLEAN}
    /\ now = 1 /\ queue = <<>> /\ got = {} /\ told = FALSE
    /\ made = {} /\ dropped = {} /\ lost = 0 /\ actions = 0 /\ boots = 0

world == <<now, queue, actions>>
seen == <<got, told>>
history == <<made, dropped, lost, boots>>

-----------------------------------------------------------------------------
(* The surroundings                                                           *)

Gates ==
    /\ \E g \in {"cert", "wifi", "url"} : gate' = [gate EXCEPT ![g] = ~@]
    /\ UNCHANGED <<task, next, over, ring, failures, loader, world, seen, history>>

Tick ==
    /\ now < MaxNow /\ now' = now + 1
    /\ UNCHANGED <<gate, task, next, over, ring, failures, loader, queue, actions, seen,
                   history>>

Operator ==
    /\ actions < MaxActions /\ actions' = actions + 1
    /\ \E k \in Kinds : queue' = Append(queue, [id |-> actions + 1, kind |-> k])
    /\ UNCHANGED <<gate, task, next, over, ring, failures, loader, now, seen, history>>

\* Everything in RAM is new; the loader's result is of this boot only.
Booted ==
    /\ task' = Waiting /\ next' = 0 /\ over' = Calm /\ ring' = <<>> /\ failures' = 0
    /\ loader' \in {[have |-> h, sent |-> FALSE] : h \in BOOLEAN}
    /\ told' = FALSE
    /\ boots' = boots + 1
    /\ made' = got

Restart ==
    /\ boots < MaxBoots
    /\ Booted
    /\ UNCHANGED <<gate, world, got, dropped, lost>>

-----------------------------------------------------------------------------
(* The results ring                                                           *)

\* pushActionResult: each chunk goes in, at a full ring in place of the head
PushOne(s, c) == Append(IF Len(s) >= Ring THEN Tail(s) ELSE s, c)
Push(chunks) ==
    /\ ring' = FoldLeft(PushOne, ring, chunks)
    /\ made' = made \cup Range(chunks)
    /\ dropped' = dropped \cup ((Range(ring) \cup Range(chunks)) \ Range(ring'))

\* the head of the ring, up to the cap, goes into the body
Body(s) == SubSeq(s, 1, IF Len(s) < PerCheckin THEN Len(s) ELSE PerCheckin)
\* Mutant of Drained: what does not fit this check-in is not kept.
Drained_All(s) == <<>>
\* the rest goes next time
Drained(s) == SubSeq(s, Len(Body(s)) + 1, Len(s))

-----------------------------------------------------------------------------
(* The task                                                                   *)

Due == gate.cert /\ gate.wifi /\ (next = 0 \/ now >= next)
Overridden(at) == over.until > at /\ over.period > 0

\* tick-start: the next one is due an interval from now already
Start ==
    /\ task = Waiting /\ Due
    /\ LET base == IF Overridden(now) THEN over.period ELSE Base IN
       /\ task' = [at |-> "build", start |-> now, base |-> base, burst |-> FALSE]
       /\ next' = now + base
    /\ UNCHANGED <<gate, over, ring, failures, loader, world, seen, history>>

\* no profile: the check-in fails before anything is sent
NoUrl ==
    /\ task.at = "build" /\ ~gate.url
    /\ task' = [task EXCEPT !.at = "end"]
    /\ UNCHANGED <<gate, next, over, ring, failures, loader, world, seen, history>>

\* Mutant of Build: the loader's result counts as told once it is in the body.
Build_Told ==
    /\ task.at = "build" /\ gate.url
    /\ task' = [at |-> "post", start |-> task.start, base |-> task.base, burst |-> FALSE,
                body |-> Body(ring), loader |-> loader.have /\ ~loader.sent]
    /\ ring' = Drained(ring)
    /\ loader' = [loader EXCEPT !.sent = loader.have]
    /\ UNCHANGED <<gate, next, over, failures, world, seen, history>>

Build ==
    /\ task.at = "build" /\ gate.url
    /\ task' = [at |-> "post", start |-> task.start, base |-> task.base, burst |-> FALSE,
                body |-> Body(ring), loader |-> loader.have /\ ~loader.sent]
    /\ ring' = Drained(ring)
    /\ UNCHANGED <<gate, next, over, failures, loader, world, seen, history>>

Done(burst) == [at |-> "end", start |-> task.start, base |-> task.base, burst |-> burst]

\* the server took the body
Take ==
    /\ got' = got \cup Range(task.body)
    /\ told' = (told \/ task.loader)

\* hardReset() of the TLS client at the second failure in a row
CountFailure == failures' = IF failures + 1 >= 2 THEN 0 ELSE failures + 1

\* no answer or a status outside 2xx; the server may have taken the body, and
\* given its queue away, all the same
PostFails ==
    /\ task.at = "post" /\ lost < MaxLost
    /\ lost' = lost + 1
    /\ CountFailure
    /\ task' = Done(FALSE)
    /\ \/ UNCHANGED <<got, told, queue>>
       \/ (Take /\ queue' = <<>>)
    /\ UNCHANGED <<gate, next, over, ring, loader, now, actions, made, dropped, boots>>

\* 2xx; an answer too large for _respDoc is an error and its actions are gone
PostOk ==
    /\ task.at = "post"
    /\ Take
    /\ queue' = <<>> /\ failures' = 0
    /\ \/ task' = [at |-> "dispatch", start |-> task.start, base |-> task.base,
                   burst |-> FALSE, todo |-> queue]
       \/ (queue # <<>> /\ task' = Done(FALSE))
    /\ loader' = [loader EXCEPT !.sent = @ \/ task.loader]
    /\ UNCHANGED <<gate, next, over, ring, now, actions, history>>

-----------------------------------------------------------------------------
(* dispatchActions                                                            *)

Head1 == Head(task.todo)
At(kind) == task.at = "dispatch" /\ task.todo # <<>> /\ Head1.kind = kind
Dispatched == task' = [task EXCEPT !.todo = Tail(@), !.burst = TRUE]

\* update, renewCert, openTunnel, closeTunnel, setConfig, log, an unknown type:
\* one result
DoSmall ==
    /\ At("small") /\ Dispatched
    /\ Push(Small(Head1.id))
    /\ UNCHANGED <<gate, next, over, failures, loader, world, seen, lost, boots>>

\* no heap for the document, a file that can't be read: one small result
Refuse == Push(Small(Head1.id))

\* rest.proxy, config.dump: the body in chunks
DoLarge ==
    /\ At("large") /\ Dispatched
    /\ Push(Large(Head1.id)) \/ Refuse
    /\ UNCHANGED <<gate, next, over, failures, loader, world, seen, lost, boots>>

\* setCadence{period, ttl}: no result
DoPanel ==
    /\ At("panel") /\ Dispatched
    /\ \E ttl \in {0, 3} :
          over' = [until |-> now + ttl, period |-> 1]
    /\ next' = IF next > now + 1 THEN now + 1 ELSE next
    /\ UNCHANGED <<gate, ring, failures, loader, world, seen, history>>

\* setCadence{0}
DoClose ==
    /\ At("close") /\ Dispatched
    /\ over' = Calm
    /\ UNCHANGED <<gate, next, ring, failures, loader, world, seen, history>>

\* reboot, config.restore, an update by the loader: restartDevice() does not return
DoReboot ==
    /\ At("reboot") /\ boots < MaxBoots
    /\ Booted
    /\ UNCHANGED <<gate, world, got, dropped, lost>>

\* nothing to restore, flash writes paused, the loader not ready: a result, no restart
DoRefused ==
    /\ At("reboot") /\ Dispatched
    /\ Refuse
    /\ UNCHANGED <<gate, next, over, failures, loader, world, seen, lost, boots>>

AllDone ==
    /\ task.at = "dispatch" /\ task.todo = <<>>
    /\ task' = Done(task.burst)
    /\ UNCHANGED <<gate, next, over, ring, failures, loader, world, seen, history>>

\* Mutant of Pace: a burst after actions whatever the panel asked for.
Pace_Burst == IF task.burst THEN Burst ELSE task.base
\* tick-end: the interval, a burst after actions, no longer than the panel's
Pace ==
    LET interval == IF task.burst THEN Burst ELSE task.base IN
    IF Overridden(task.start) /\ interval > over.period THEN over.period ELSE interval

End ==
    /\ task.at = "end"
    /\ next' = task.start + Pace
    /\ task' = Waiting
    /\ UNCHANGED <<gate, over, ring, failures, loader, world, seen, history>>

Next ==
    \/ Gates \/ Tick \/ Operator \/ Restart
    \/ Start \/ NoUrl \/ Build \/ PostFails \/ PostOk
    \/ DoSmall \/ DoLarge \/ DoPanel \/ DoClose \/ DoReboot \/ DoRefused \/ AllDone \/ End

Spec == Init /\ [][Next]_vars
-----------------------------------------------------------------------------
TypeOK ==
    /\ task.at \in {"wait", "build", "post", "dispatch", "end"}
    /\ Len(ring) <= Ring /\ failures \in 0..1 /\ over.period \in 0..1

\* What is not handed over yet stays: until a call fails, every chunk of a result
\* is at the server, in the body under way or in the ring, or was pushed out of
\* the full ring ("Anything left over goes next time", MothershipService.cpp:667).
RestKept ==
    lost = 0 =>
        made \subseteq got \cup dropped \cup Range(ring)
                        \cup (IF task.at = "post" THEN Range(task.body) ELSE {})

\* The loader's result is not taken for told before the server has it ("the
\* first check-in the server takes after a boot from the loader carries it",
\* MothershipService.cpp:693-695), answers lost on the way included.
LoaderTold == loader.sent => told

\* While a panel is open the device is never more than the panel's period away
\* from its next check-in, bursts included ("burst can't extend the panel
\* session past its TTL, and a short panel period overrides any default-burst
\* 10s pick", MothershipService.cpp:489-493).
PanelPace == task = Waiting /\ Overridden(now) => next <= now + over.period

\* A result in chunks arrives whole when no call fails: false as soon as the
\* result has more chunks than the ring.
LargeArrives ==
    lost = 0 /\ boots = 0 /\ ring = <<>> /\ task = Waiting =>
        \A c \in made : c \in got
=============================================================================
