------------------------------ MODULE Telegram ------------------------------
(* The Telegram module (modules/telegram/src/TelegramService.cpp): services queue *)
(* messages, the worker task sends them one at a time and asks the bot's server   *)
(* for commands, loop() runs the handlers. The server keeps an update until a     *)
(* request names a later offset; offset -1 answers the newest one and forgets     *)
(* the rest. Nothing here survives a restart but the server's side.               *)
EXTENDS Integers, Sequences, SequencesExt

CONSTANTS
    Cap,        \* QUEUE_LEN
    InCap,      \* length of the inbound queue
    Limit,      \* updates in one answer
    Tries,      \* kSendTries
    Quota,      \* maxMessagesPerMinute
    Kinds,      \* of commands: "run", "admin" (from someone else), "other"
    MaxMsgs,    \* messages queued (bound)
    MaxCmds,    \* commands users send (bound)
    MaxRev,     \* commands registered (bound)
    MaxBoots,   \* restarts (bound)
    MaxDrops    \* times the link goes down (bound)

VARIABLES
    q, nextId,      \* outbound queue of [id, tries]; the next message
    worker,         \* the task
    up,             \* WiFi.isConnected()
    sub,            \* messages this minute, "Admin only." sent this minute
    offset, primed, \* _updOffset, _primed
    rev, published, \* _cmdsRev, _cmdsPublished
    inQ,            \* commands for loop()
    srv,            \* the server: updates kept, the message delivered last
    ran,            \* the commands run, in order
    asked,          \* commands users sent, boots, drops (bounds)
    since           \* the first command sent after this boot's first answer

vars == <<q, nextId, worker, up, sub, offset, primed, rev, published, inQ, srv, ran,
          asked, since>>
send == <<q, nextId, sub>>
poll == <<offset, primed, rev, published, inQ, since>>

Msg == [id : 1..MaxMsgs, tries : 0..Tries]
Top == [at |-> "top"]

Init ==
    /\ q = <<>> /\ nextId = 1 /\ worker = Top /\ up = FALSE
    /\ sub = [sent |-> 0, nagged |-> FALSE]
    /\ offset = 0 /\ primed = FALSE /\ rev = 0 /\ published = 0
    /\ inQ = <<>>
    /\ srv = [kept |-> <<>>, got |-> 0]
    /\ ran = <<>> /\ asked = [cmds |-> 0, boots |-> 0, drops |-> 0] /\ since = 0

-----------------------------------------------------------------------------
(* Outside: the link, the users, a restart                                    *)

LinkUp ==
    /\ ~up /\ up' = TRUE
    /\ UNCHANGED <<send, worker, poll, srv, ran, asked>>

LinkDown ==
    /\ up /\ asked.drops < MaxDrops
    /\ up' = FALSE /\ asked' = [asked EXCEPT !.drops = @ + 1]
    /\ UNCHANGED <<send, worker, poll, srv, ran>>

User ==
    /\ asked.cmds < MaxCmds
    /\ \E k \in Kinds :
          srv' = [srv EXCEPT !.kept = Append(@, [id |-> asked.cmds + 1, kind |-> k])]
    /\ asked' = [asked EXCEPT !.cmds = @ + 1]
    /\ since' = IF primed /\ since = 0 THEN asked.cmds + 1 ELSE since
    /\ UNCHANGED <<send, worker, up, offset, primed, rev, published, inQ, ran>>

Minute ==
    /\ sub # [sent |-> 0, nagged |-> FALSE]
    /\ sub' = [sent |-> 0, nagged |-> FALSE]
    /\ UNCHANGED <<q, nextId, worker, up, poll, srv, ran, asked>>

Restart ==
    /\ asked.boots < MaxBoots
    /\ asked' = [asked EXCEPT !.boots = @ + 1]
    /\ q' = <<>> /\ inQ' = <<>> /\ worker' = Top /\ up' = FALSE
    /\ sub' = [sent |-> 0, nagged |-> FALSE]
    /\ offset' = 0 /\ primed' = FALSE /\ rev' = 0 /\ published' = 0 /\ since' = 0
    /\ UNCHANGED <<nextId, srv, ran>>

-----------------------------------------------------------------------------
(* The services                                                               *)

\* xQueueSend with no wait: a full queue drops it
Enqueue(id) == IF Len(q) < Cap THEN Append(q, [id |-> id, tries |-> 0]) ELSE q

\* doSend: the quota is spent even on a message a full queue drops
Send ==
    /\ nextId <= MaxMsgs /\ sub.sent < Quota
    /\ sub' = [sub EXCEPT !.sent = @ + 1]
    /\ q' = Enqueue(nextId) /\ nextId' = nextId + 1
    /\ UNCHANGED <<worker, up, poll, srv, ran, asked>>

\* onCommand: no command, no poll
Register ==
    /\ rev < MaxRev /\ rev' = rev + 1
    /\ UNCHANGED <<send, worker, up, offset, primed, published, inQ, srv, ran, asked, since>>

\* loop(): the handler, whose answer is queued
Loop ==
    /\ inQ # <<>>
    /\ inQ' = Tail(inQ) /\ ran' = Append(ran, Head(inQ))
    /\ IF nextId <= MaxMsgs
       THEN q' = Enqueue(nextId) /\ nextId' = nextId + 1
       ELSE UNCHANGED <<q, nextId>>
    /\ UNCHANGED <<worker, up, sub, offset, primed, rev, published, srv, asked, since>>

-----------------------------------------------------------------------------
(* The worker: commands                                                       *)

At(at) == worker.at = at
Go(at) == worker' = [worker EXCEPT !.at = at]

\* the server: what is older than the offset is forgotten
Kept == IF offset # 0 THEN SelectSeq(srv.kept, LAMBDA u : u.id >= offset)
        ELSE IF srv.kept = <<>> THEN <<>> ELSE <<Last(srv.kept)>>

Answer == SubSeq(Kept, 1, IF Len(Kept) < Limit THEN Len(Kept) ELSE Limit)

\* getUpdates; its answer may be lost or unreadable
Poll ==
    /\ At("top") /\ up /\ rev # 0
    /\ srv' = [srv EXCEPT !.kept = Kept]
    /\ \/ worker' = [at |-> "take", reply |-> Answer, old |-> ~primed]
          /\ primed' = TRUE
       \/ Go("queue") /\ UNCHANGED primed
    /\ UNCHANGED <<send, up, offset, rev, published, inQ, ran, asked, since>>

\* Mutant of Backlog: the first answer after a boot is taken like any other.
Backlog_Taken == FALSE
\* the first answer after a boot only says where to go on
Backlog == worker.old

\* tgcmd::decide, and "Admin only." once a minute
Take ==
    /\ At("take") /\ worker.reply # <<>>
    /\ LET u == Head(worker.reply) IN
       /\ offset' = IF u.id + 1 > offset THEN u.id + 1 ELSE offset
       /\ IF Backlog \/ u.kind = "other" THEN UNCHANGED <<send, inQ>>
          ELSE IF u.kind = "run"
               THEN /\ inQ' = IF Len(inQ) < InCap THEN Append(inQ, u.id) ELSE inQ
                    /\ UNCHANGED send
               ELSE /\ UNCHANGED inQ
                    /\ IF sub.nagged \/ nextId > MaxMsgs THEN UNCHANGED send
                       ELSE /\ sub' = [sub EXCEPT !.nagged = TRUE]
                            /\ q' = Enqueue(nextId) /\ nextId' = nextId + 1
    /\ worker' = [worker EXCEPT !.reply = Tail(@)]
    /\ UNCHANGED <<up, primed, rev, published, srv, ran, asked, since>>

\* publishCommands: the table as it was under the lock
Publish ==
    /\ At("take") /\ worker.reply = <<>>
    /\ worker' = IF published # rev THEN [at |-> "publish", rev |-> rev]
                                    ELSE [at |-> "queue"]
    /\ UNCHANGED <<send, up, poll, srv, ran, asked>>

Published ==
    /\ At("publish")
    /\ \/ up /\ published' = worker.rev
       \/ UNCHANGED published
    /\ worker' = [at |-> "queue"]
    /\ UNCHANGED <<send, up, offset, primed, rev, inQ, srv, ran, asked, since>>

-----------------------------------------------------------------------------
(* The worker: messages                                                       *)

\* offline: the queue is left alone; online, no poll due
Turn ==
    /\ \/ At("top") /\ up
       \/ At("queue") /\ (~up \/ q = <<>>)
    /\ worker' = IF At("top") THEN [at |-> "queue"] ELSE Top
    /\ UNCHANGED <<send, up, poll, srv, ran, asked>>

\* the link is looked at before the wait for a message and again after it
Receive ==
    /\ At("queue") /\ q # <<>>
    /\ worker' = [at |-> "hand", m |-> Head(q)] /\ q' = Tail(q)
    /\ UNCHANGED <<nextId, up, sub, poll, srv, ran, asked>>

\* xQueueSendToFront
HandBack(m) == <<m>> \o q
Room == Len(q) < Cap

PutBack ==
    /\ At("hand") /\ ~up /\ Room
    /\ q' = HandBack(worker.m) /\ worker' = Top
    /\ UNCHANGED <<nextId, up, sub, poll, srv, ran, asked>>

Start ==
    /\ At("hand") /\ (up \/ ~Room)
    /\ worker' = [worker EXCEPT !.at = "direct"]
    /\ UNCHANGED <<send, up, poll, srv, ran, asked>>

\* sendDirect, then the library's own path: a message may arrive and its answer not
Post(next) ==
    \/ /\ up /\ srv' = [srv EXCEPT !.got = worker.m.id]
       /\ \E answered \in BOOLEAN : worker' = IF answered THEN Top
                                              ELSE [worker EXCEPT !.at = next]
    \/ Go(next) /\ UNCHANGED srv

Direct ==
    /\ At("direct") /\ Post("utb")
    /\ UNCHANGED <<send, up, poll, ran, asked>>

Utb ==
    /\ At("utb") /\ Post("failed")
    /\ UNCHANGED <<send, up, poll, ran, asked>>

\* Mutant of Failed: the message that failed goes to the end of the queue.
Failed_Behind ==
    /\ At("failed")
    /\ LET m == [worker.m EXCEPT !.tries = @ + 1] IN
       q' = IF m.tries < Tries /\ Room THEN Append(q, m) ELSE q
    /\ worker' = Top
    /\ UNCHANGED <<nextId, up, sub, poll, srv, ran, asked>>

\* back to the head of the queue; after the last try, or with no room, dropped
Failed ==
    /\ At("failed")
    /\ LET m == [worker.m EXCEPT !.tries = @ + 1] IN
       q' = IF m.tries < Tries /\ Room THEN HandBack(m) ELSE q
    /\ worker' = Top
    /\ UNCHANGED <<nextId, up, sub, poll, srv, ran, asked>>

Next ==
    \/ LinkUp \/ LinkDown \/ User \/ Minute \/ Restart
    \/ Send \/ Register \/ Loop
    \/ Poll \/ Take \/ Publish \/ Published
    \/ Turn \/ Receive \/ PutBack \/ Start \/ Direct \/ Utb \/ Failed

Spec == Init /\ [][Next]_vars
-----------------------------------------------------------------------------
TypeOK ==
    /\ \A m \in ToSet(q) : m \in Msg
    /\ nextId \in 1..(MaxMsgs + 1) /\ Len(q) <= Cap /\ Len(inQ) <= InCap
    /\ offset \in 0..(MaxCmds + 1) /\ primed \in BOOLEAN /\ published \in 0..MaxRev
    /\ worker.at \in {"top", "take", "publish", "queue", "hand", "direct", "utb", "failed"}

\* Messages reach the chat in the order they were queued, through every retry and
\* every loss of the link (_q, xQueueSendToFront: TelegramService.cpp:699-732).
InOrder == srv'.got >= srv.got

\* A command runs once, also when the device restarts before the server learned
\* that it was taken: a command that restarts the device does not do so again and
\* again (_primed, _updOffset: TelegramService.cpp:894-902).
RunsOnce == IsInjective(ran)

\* "An empty first reply primes too: otherwise the first command after a quiet boot
\* was taken for backlog" (TelegramService.cpp:894-895): the first command sent
\* after the first answer is never forgotten by the server before it was taken.
FirstTaken ==
    since # 0 /\ offset <= since
    => \/ \E u \in ToSet(srv.kept) : u.id = since
       \/ worker.at = "take" /\ \E u \in ToSet(worker.reply) : u.id = since
=============================================================================
