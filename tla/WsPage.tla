------------------------------- MODULE WsPage -------------------------------
(* The page's one WebSocket (ui/src/contexts/ws/WsProvider.tsx): channels that    *)
(* come and go with the components, a socket that is refused, evicted, lost,      *)
(* silent or put away with a hidden tab, and the subscriptions each new socket    *)
(* has to be told of. Sockette opens a closed socket again by itself, but not     *)
(* after a close with 1000, 1001 or 1005.                                         *)
EXTENDS Naturals, Sequences, FiniteSets

CONSTANTS
    Chans,      \* channels
    MaxMounts,  \* components that come or go (bound)
    MaxHides,   \* times the tab is hidden (bound)
    MaxBad,     \* times the socket goes bad, of each kind (bound)
    MaxPong     \* sockets the device closes for a missing pong (bound)

VARIABLES
    want,       \* subs: channels with a subscriber
    timers,     \* resubscriptions put off (the stagger)
    inst,       \* ws.current: none, opening, open, retry (Sockette's wait), dead
    conn,       \* connected
    busy,       \* busyCount: 0, or refused
    armed,      \* the backoff's timer
    shown,      \* the tab is in view
    active,     \* usePageActive(): not hidden for long
    silent,     \* the socket is open and nothing comes
    room,       \* the device takes this client
    wire,       \* frames on their way to the device
    subs,       \* what the device has this socket subscribed to
    lost,       \* history: subscriptions of this socket the device did not take in
    mounts, hides, bad, pongs

page == <<inst, conn, busy, armed>>
env == <<mounts, hides, bad, pongs>>
device == <<subs, lost>>
vars == <<want, timers, page, shown, active, silent, room, wire, device, env>>

Init ==
    /\ want = {} /\ timers = {} /\ inst = "opening" /\ conn = FALSE /\ busy = FALSE /\ armed = FALSE
    /\ shown = TRUE /\ active = TRUE /\ silent = FALSE /\ room \in BOOLEAN
    /\ wire = <<>> /\ subs = {} /\ lost = {}
    /\ mounts = 0 /\ hides = 0 /\ bad = 0 /\ pongs = 0

\* sendRaw(): lost unless the socket is open
Sends(m) == wire' = IF inst = "open" THEN Append(wire, m) ELSE wire

\* the busy effect: its timer starts over when what it depends on changes
Rearm(b, a, c) == armed' = IF <<b, a, c>> = <<busy, active, conn>> THEN armed ELSE b /\ a /\ ~c

\* the socket is gone, for the device too
Gone == wire' = <<>> /\ subs' = {} /\ lost' = {} /\ silent' = FALSE

\* the effect of a new generation: the old instance is closed, a fresh one opens
Fresh == inst' = "opening" /\ conn' = FALSE /\ Gone

Subscribe(c) ==
    /\ mounts < MaxMounts /\ mounts' = mounts + 1
    /\ c \notin want /\ want' = want \cup {c}
    /\ IF busy /\ ~conn /\ shown /\ inst # "none"
       THEN Fresh /\ Rearm(busy, active, FALSE)
       ELSE Sends([type |-> "sub", ch |-> c]) /\ UNCHANGED <<inst, conn, armed, device, silent>>
    /\ UNCHANGED <<timers, busy, shown, active, room, hides, bad, pongs>>

Unsubscribe(c) ==
    /\ mounts < MaxMounts /\ mounts' = mounts + 1
    /\ c \in want /\ want' = want \ {c}
    /\ Sends([type |-> "unsub", ch |-> c])
    /\ UNCHANGED <<timers, page, shown, active, silent, room, device, hides, bad, pongs>>

\* onopen: every channel with a subscriber, one after another
Resubscribed_None == timers
Resubscribed == timers \cup want
Open ==
    /\ inst = "opening" /\ room
    /\ inst' = "open" /\ conn' = TRUE /\ Rearm(busy, active, TRUE)
    /\ timers' = Resubscribed
    /\ UNCHANGED <<want, busy, shown, active, silent, room, wire, device, env>>

Stagger(c) ==
    /\ c \in timers /\ timers' = timers \ {c}
    /\ Sends([type |-> "sub", ch |-> c])
    /\ UNCHANGED <<want, page, shown, active, silent, room, device, env>>

\* processRx: a subscription is taken, or not: the page has no right to the channel, or
\* the roster's lock is busy, and the page is not told
HearsSub(c) ==
    \/ subs' = subs \cup {c} /\ lost' = lost \ {c}
    \/ subs' = subs /\ lost' = lost \cup ({c} \ subs)

\* an unsubscription is lost to the busy lock only
HearsUnsub(c) == subs' \in {subs \ {c}, subs} /\ lost' = lost \ {c}

\* the device reads a frame
Hears ==
    /\ wire # <<>> /\ ~silent
    /\ LET m == Head(wire)
       IN IF m.type = "sub" THEN HearsSub(m.ch) ELSE HearsUnsub(m.ch)
    /\ wire' = Tail(wire)
    /\ UNCHANGED <<want, timers, page, shown, active, silent, room, env>>

\* onclose: as busy or evicted, which Sockette leaves alone; else it tries again
Closed(refused, next) ==
    /\ inst' = next /\ conn' = FALSE /\ busy' = refused /\ Gone
    /\ Rearm(refused, active, FALSE)

\* a subscription over the channel's cap, and no other client to close for it
OverCap ==
    /\ bad < MaxBad /\ bad' = bad + 1
    /\ wire # <<>> /\ ~silent /\ Head(wire).type = "sub"
    /\ Closed(TRUE, "dead")
    /\ UNCHANGED <<want, timers, shown, active, room, mounts, hides, pongs>>

\* the handshake is done before the device turns the client down
Refuse ==
    /\ inst = "opening" /\ ~room
    /\ inst' = "dead" /\ conn' = FALSE /\ busy' = TRUE /\ Gone
    /\ armed' = active      \* connected came and went
    /\ UNCHANGED <<want, timers, shown, active, room, env>>

Evict ==
    /\ inst = "open" /\ ~shown /\ room /\ room' = FALSE
    /\ Closed(TRUE, "dead")
    /\ UNCHANGED <<want, timers, shown, active, env>>

Lose ==
    /\ bad < MaxBad /\ bad' = bad + 1
    /\ inst \in {"opening", "open"} /\ Closed(FALSE, "retry")
    /\ UNCHANGED <<want, timers, shown, active, room, mounts, hides, pongs>>

\* the device's close without a code reaches the page as 1005
PongMissed ==
    /\ pongs < MaxPong /\ pongs' = pongs + 1
    /\ inst = "open" /\ Closed(FALSE, "dead")
    /\ UNCHANGED <<want, timers, shown, active, room, mounts, hides, bad>>

\* the socket is dead or stuck, and nobody says so
Silence ==
    /\ bad < MaxBad /\ bad' = bad + 1
    /\ inst = "open" /\ ~silent /\ silent' = TRUE
    /\ UNCHANGED <<want, timers, page, shown, active, room, wire, device, mounts, hides, pongs>>

Retry ==
    /\ inst = "retry" /\ inst' = "opening"
    /\ UNCHANGED <<want, timers, conn, busy, armed, shown, active, silent, room, wire, device, env>>

\* no heartbeat for 15 s (for ten minutes, from older firmware)
Watchdog ==
    /\ conn /\ silent
    /\ Fresh /\ Rearm(busy, active, FALSE)
    /\ UNCHANGED <<want, timers, busy, shown, active, room, env>>

Backoff ==
    /\ armed /\ active /\ ~conn
    /\ IF shown /\ inst # "none" THEN Fresh ELSE UNCHANGED <<inst, conn, wire, device, silent>>
    /\ armed' = FALSE
    /\ UNCHANGED <<want, timers, busy, shown, active, room, env>>

Hide ==
    /\ hides < MaxHides /\ hides' = hides + 1
    /\ shown /\ shown' = FALSE
    /\ UNCHANGED <<want, timers, page, active, silent, room, wire, device, mounts, bad, pongs>>

\* hidden for 30 s: the socket is put away
Idle ==
    /\ ~shown /\ active /\ active' = FALSE
    /\ inst' = "none" /\ conn' = FALSE /\ Gone /\ Rearm(busy, FALSE, FALSE)
    /\ UNCHANGED <<want, timers, busy, shown, room, env>>

\* shown again: a paused page opens a socket, one whose socket is down a fresh one
Reopens_Paused == ~active
Reopens == ~active \/ ~conn
Show ==
    /\ ~shown /\ shown' = TRUE /\ active' = TRUE
    /\ IF Reopens THEN Fresh /\ Rearm(busy, TRUE, FALSE)
       ELSE UNCHANGED <<inst, conn, armed, wire, device, silent>>
    /\ UNCHANGED <<want, timers, busy, room, env>>

\* other clients come and go; a page that is in view is not closed for them
Room ==
    /\ inst # "open" /\ bad < MaxBad /\ bad' = bad + 1 /\ room' = ~room
    /\ UNCHANGED <<want, timers, page, shown, active, silent, wire, device, mounts, hides, pongs>>

Next ==
    \/ \E c \in Chans : Subscribe(c) \/ Unsubscribe(c) \/ Stagger(c)
    \/ Open \/ Hears \/ OverCap \/ Refuse \/ Evict \/ Lose \/ PongMissed \/ Silence
    \/ Retry \/ Watchdog \/ Backoff \/ Hide \/ Idle \/ Show \/ Room

\* timers and the network's events come in time
Fairness ==
    /\ WF_vars(Open) /\ WF_vars(Refuse) /\ WF_vars(Retry)
    /\ WF_vars(Watchdog) /\ WF_vars(Backoff)

Spec == Init /\ [][Next]_vars /\ Fairness

TypeOK ==
    /\ want \subseteq Chans /\ timers \subseteq Chans /\ subs \subseteq Chans
    /\ lost \subseteq Chans
    /\ inst \in {"none", "opening", "open", "retry", "dead"}
    /\ conn = (inst = "open") /\ busy \in BOOLEAN /\ armed \in BOOLEAN
    /\ wire \in Seq([type : {"sub", "unsub"}, ch : Chans])

\* Once a page's socket is open and what it had to say is heard, the device has it
\* subscribed to every channel a component of the page is on, whatever sockets came and
\* went and in whatever order components did meanwhile, but for those it did not take
\* this socket's subscription to; those the next socket asks for again ("the page
\* subscribes again on its next reconnect", WsManager.h:1273).
Served == conn /\ timers = {} /\ wire = <<>> => want \subseteq subs \cup lost

\* A page in view whose socket is down is connected again, once the device has
\* room for it: refused or evicted, lost or stuck, hidden and shown again.
ComesBack == shown /\ (~conn \/ silent) ~> ~shown \/ ~room \/ (conn /\ ~silent)
=============================================================================
