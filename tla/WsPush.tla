------------------------------- MODULE WsPush -------------------------------
(***************************************************************************)
(* One channel of the multiplexed WebSocket (WsManager): a service's state *)
(* pushed to the pages that subscribed, and the pages' frames to it.  Any  *)
(* task that changes the state builds a frame of it and queues the frame;  *)
(* the loop task takes both queues, and sends.  A state is its version,    *)
(* and so is a frame.  The clients' connections are WsRoster's.            *)
(***************************************************************************)
EXTENDS Integers, Sequences, FiniteSets, SequencesExt

CONSTANTS Tasks, Clients, Cap,   \* tasks that change the state; pages; both queues' capacity
          MaxState, MaxOps       \* bounds: changes of the state, what the pages do

Nobody == "nobody"
NoFrame == -1
ToBuild == 0       \* changed, the update handler is to build the frame

VARIABLES
  state,       \* the version of the service's state
  job,         \* per task: NoFrame, ToBuild, or the frame built and not queued yet
  txq, rxq,    \* _txQ: frames; _rxQ: [c, kind]
  resend,      \* ChannelBase::resend
  rostered, subs,  \* the roster's clients, those subscribed to the channel
  slow,        \* clients at the back-pressure threshold
  page,        \* per client: the last frame that came
  lp, whom,    \* where the loop task is; the client a snapshot is for
  best,        \* per client: the newest state sent to it, or lost on the way (history)
  ops

queues == <<txq, rxq, resend>>
roster == <<rostered, subs, slow>>
seen == <<page, best>>
loop == <<lp, whom>>
vars == <<state, job, queues, roster, seen, loop, ops>>

All == Tasks \cup {"loop"}

Init ==
  /\ state = 1 /\ job = [t \in All |-> NoFrame]
  /\ txq = <<>> /\ rxq = <<>> /\ resend = FALSE
  /\ rostered = {} /\ subs = {} /\ slow = {}
  /\ page = [c \in Clients |-> 0]
  /\ lp = "rx" /\ whom = Nobody
  /\ best = page /\ ops = 0

-----------------------------------------------------------------------------
(* broadcastCurrentState, by any task. *)

\* StatefulService::update: changed under the state lock, the handlers after it.
Update(t) ==
  /\ job[t] = NoFrame /\ state < MaxState
  /\ state' = state + 1 /\ job' = [job EXCEPT ![t] = ToBuild]
  /\ UNCHANGED <<queues, roster, seen, loop, ops>>

Newest(cs, v) == [c \in Clients |-> IF c \in cs /\ v > best[c] THEN v ELSE best[c]]
\* A state that a busy lock keeps from the pages cs, which nothing sends again.
Lost(cs, v) == best' = Newest(cs, v) /\ UNCHANGED page

\* Nobody subscribed: no frame.  The document's lock or the state's busy: none either.
Build(t) ==
  /\ job[t] = ToBuild
  /\ \/ job' = [job EXCEPT ![t] = IF subs = {} THEN NoFrame ELSE state] /\ UNCHANGED seen
     \/ subs # {} /\ job' = [job EXCEPT ![t] = NoFrame] /\ Lost(subs, state)
  /\ UNCHANGED <<state, queues, roster, loop, ops>>

\* enqueueTx: a broadcast that finds the queue full is sent again as the channel's state.
\* Fault: it is only counted.
Put_Dropped(t) ==
  /\ job[t] > 0 /\ job' = [job EXCEPT ![t] = NoFrame]
  /\ IF Len(txq) < Cap THEN txq' = Append(txq, job[t]) ELSE UNCHANGED txq
  /\ UNCHANGED <<state, rxq, resend, roster, seen, loop, ops>>
Put(t) ==
  /\ job[t] > 0 /\ job' = [job EXCEPT ![t] = NoFrame]
  /\ \/ Len(txq) < Cap /\ txq' = Append(txq, job[t]) /\ UNCHANGED resend
     \/ Len(txq) >= Cap /\ resend' = TRUE /\ UNCHANGED txq
  /\ UNCHANGED <<state, rxq, roster, seen, loop, ops>>

-----------------------------------------------------------------------------
(* The pages, and the events on async_tcp. *)

Op == ops < MaxOps /\ ops' = ops + 1
Of(c) == SelectSeq(rxq, LAMBDA i : i.c = c)
Forget(c) == rostered' = rostered \ {c} /\ subs' = subs \ {c} /\ slow' = slow \ {c}

Enter(c) ==
  /\ Op /\ c \notin rostered /\ Of(c) = <<>> /\ whom # c
  /\ rostered' = rostered \cup {c}
  /\ page' = [page EXCEPT ![c] = 0]
  /\ best' = [best EXCEPT ![c] = 0]
  /\ UNCHANGED <<state, job, queues, subs, slow, loop>>

Leave(c) ==
  /\ Op /\ c \in rostered /\ Forget(c)
  /\ UNCHANGED <<state, job, queues, seen, loop>>

\* enqueueRx: a full queue closes the client.
Frame(c, kind) ==
  /\ Op /\ c \in rostered
  /\ IF Len(rxq) < Cap
     THEN rxq' = Append(rxq, [c |-> c, kind |-> kind]) /\ UNCHANGED roster
     ELSE Forget(c) /\ UNCHANGED rxq
  /\ UNCHANGED <<state, job, txq, resend, seen, loop>>

\* The page takes its frames in, or does not.
Stall(c) ==
  /\ Op /\ c \in rostered
  /\ slow' = IF c \in slow THEN slow \ {c} ELSE slow \cup {c}
  /\ UNCHANGED <<state, job, queues, rostered, subs, seen, loop>>

-----------------------------------------------------------------------------
(* The loop task: processAllQueues. *)

\* sendFrame, to each of cs: skipped under back-pressure.
Send(cs, v) ==
  /\ page' = [c \in Clients |-> IF c \in cs \ slow THEN v ELSE page[c]]
  /\ best' = Newest(cs, v)

\* processRx.  The rights and the caps are WsRoster's matter: a frame of a client that is
\* gone or has no right to it, or that finds the roster's lock busy, does nothing, and the
\* page is not told; a subscription over the channel's cap may have its own client closed;
\* a write is taken, or refused by the service and the writer told the state.
Rx ==
  /\ lp = "rx" /\ rxq # <<>> /\ rxq' = Tail(rxq)
  /\ LET i == Head(rxq) IN
     \/ UNCHANGED <<state, job, roster, loop>>
     \/ /\ i.c \in rostered /\ i.kind = "sub"
        /\ subs' = subs \cup {i.c} /\ lp' = "snap" /\ whom' = i.c
        /\ UNCHANGED <<state, job, rostered, slow>>
     \/ /\ i.c \in rostered /\ i.kind = "sub"
        /\ Forget(i.c) /\ UNCHANGED <<state, job, loop>>
     \/ /\ i.c \in rostered /\ i.kind = "unsub"
        /\ subs' = subs \ {i.c} /\ UNCHANGED <<state, job, rostered, slow, loop>>
     \/ /\ i.c \in rostered /\ i.kind = "write" /\ state < MaxState
        /\ state' = state + 1 /\ job' = [job EXCEPT !["loop"] = ToBuild]
        /\ lp' = "apply" /\ UNCHANGED <<roster, whom>>
     \/ /\ i.c \in rostered /\ i.kind = "write"
        /\ lp' = "snap" /\ whom' = i.c /\ UNCHANGED <<state, job, roster>>
  /\ UNCHANGED <<txq, resend, seen, ops>>

\* The update handlers of a write have run.
Applied ==
  /\ lp \in {"apply", "again"} /\ job["loop"] = NoFrame
  /\ lp' = IF lp = "apply" THEN "rx" ELSE "beat"
  /\ UNCHANGED <<state, job, queues, roster, seen, whom, ops>>

\* pushSnapshot: built, then what is queued, then sent, so that no older state follows it.
Snapshot ==
  /\ lp = "snap"
  /\ \/ job' = [job EXCEPT !["loop"] = state] /\ lp' = "flush" /\ UNCHANGED <<whom, seen>>
     \/ lp' = "rx" /\ whom' = Nobody /\ Lost({whom}, state) /\ UNCHANGED job
  /\ UNCHANGED <<state, queues, roster, ops>>

\* processTx: the next frame to all that are subscribed; to nobody, for good, when the
\* roster's lock is busy.
Tx ==
  /\ lp \in {"tx", "flush"} /\ txq # <<>>
  /\ txq' = Tail(txq)
  /\ Send(subs, Head(txq)) \/ Lost(subs, Head(txq))
  /\ UNCHANGED <<state, job, rxq, resend, roster, loop, ops>>

Flushed ==
  /\ lp = "flush" /\ txq = <<>>
  /\ Send({whom} \cap rostered, job["loop"])
  /\ job' = [job EXCEPT !["loop"] = NoFrame] /\ lp' = "rx" /\ whom' = Nobody
  /\ UNCHANGED <<state, queues, roster, ops>>

\* resendDropped: the flag first, then the state.
Resend ==
  /\ lp = "resend"
  /\ IF resend THEN job' = [job EXCEPT !["loop"] = ToBuild] /\ lp' = "again" ELSE lp' = "beat" /\ UNCHANGED job
  /\ resend' = FALSE
  /\ UNCHANGED <<state, txq, rxq, roster, seen, whom, ops>>

\* The next stage of the pass; the heartbeats, and around again when woken.
Stage ==
  /\ \/ lp = "rx" /\ rxq = <<>> /\ lp' = "tx"
     \/ lp = "tx" /\ txq = <<>> /\ lp' = "resend"
     \/ lp = "beat" /\ lp' = "rx" /\ (rxq # <<>> \/ txq # <<>> \/ resend)
  /\ UNCHANGED <<state, job, queues, roster, seen, whom, ops>>

Loop == Rx \/ Applied \/ Snapshot \/ Tx \/ Flushed \/ Resend \/ Stage
Next ==
  \/ \E t \in Tasks : Update(t)
  \/ \E t \in Tasks : Build(t) \/ Put(t)
  \/ lp \in {"apply", "again"} /\ (Build("loop") \/ Put("loop"))
  \/ \E c \in Clients : Enter(c) \/ Leave(c) \/ Stall(c)
  \/ \E c \in Clients, k \in {"sub", "unsub", "write"} : Frame(c, k)
  \/ Loop

Spec == Init /\ [][Next]_vars

-----------------------------------------------------------------------------
TypeOK ==
  /\ state \in 1..MaxState /\ job \in [All -> NoFrame..MaxState]
  /\ Len(txq) <= Cap /\ Len(rxq) <= Cap /\ ToSet(txq) \subseteq 1..MaxState
  /\ resend \in BOOLEAN
  /\ subs \subseteq rostered /\ slow \subseteq rostered /\ rostered \subseteq Clients
  /\ page \in [Clients -> 0..MaxState] /\ best \in [Clients -> 0..MaxState]
  /\ lp \in {"rx", "apply", "snap", "flush", "tx", "resend", "again", "beat"}
  /\ whom \in Clients \cup {Nobody} /\ ops \in 0..MaxOps

\* With no frame on its way and nothing for the loop task to do, a page the device has
\* subscribed shows the state, whatever queue was full meanwhile, unless a newer state
\* than it shows was lost to a busy lock or to back-pressure since it last caught up, or
\* reached it before an older one.
Caught ==
  (/\ lp = "beat" /\ ~resend /\ txq = <<>> /\ rxq = <<>>
   /\ \A t \in All : job[t] = NoFrame) =>
    \A c \in subs : page[c] = state \/ page[c] < best[c]

\* A page never goes back to an older state.
NoOlder == [][\A c \in Clients : page'[c] # 0 => page'[c] >= page[c]]_vars
=============================================================================
