------------------------------ MODULE Discovery ------------------------------
(* The devices on the network (modules/discovery/src/DiscoveryService.cpp): every  *)
(* device multicasts its announcement, a task keeps who was heard in a fixed table *)
(* and the web page reads it. Time is in seconds of the task's wait, and a turn of *)
(* the task takes none.                                                            *)
EXTENDS Naturals, FiniteSets

CONSTANTS
    Peers,      \* the other devices
    Long,       \* those whose id does not fit in PeerRow.deviceId
    Slots,      \* DISCOVERY_MAX_PEERS
    Interval,   \* ANNOUNCE_INTERVAL_MS
    Timeout,    \* PEER_TIMEOUT_MS
    MaxMoves,   \* times the network goes or comes (bound)
    MaxMiss     \* misses of the table's lock (bound)

VARIABLES
    linked,     \* the station has an address
    sock,       \* _sock is open
    ago,        \* since _lastAnnounceMs
    turn,       \* the task has had its turn at this time
    inbox,      \* packets the socket holds: who sent them
    rows,       \* s_peers
    open,       \* time since the socket was opened (kept to what the properties need)
    moves, misses

vars == <<linked, sock, ago, turn, inbox, rows, open, moves, misses>>

Others == {"self", "bad"}   \* our own announcement comes back; packets of no peer
None == [used |-> FALSE]
Longest == Timeout + (1 + MaxMiss) * Interval + 1

\* strlcpy: a long id is stored cut off, and is then no device's id
Row(p) == [used |-> TRUE, of |-> p, id |-> IF p \in Long THEN "cut" ELSE p, age |-> 0]
Init ==
    /\ linked \in BOOLEAN /\ sock = FALSE /\ ago = 0 /\ turn = FALSE /\ inbox = {}
    /\ rows = [s \in 1..Slots |-> None]
    /\ open = 0 /\ moves = 0 /\ misses = 0

Link ==
    /\ moves < MaxMoves /\ moves' = moves + 1
    /\ linked' = ~linked /\ inbox' = {}
    /\ turn' = (turn /\ ~linked')        \* GOT_IP wakes the task
    /\ UNCHANGED <<sock, ago, rows, open, misses>>

\* a device announces, and whoever joined hears it
Announce(p) ==
    /\ linked /\ sock /\ p \notin inbox
    /\ inbox' = inbox \cup {p} /\ turn' = FALSE
    /\ UNCHANGED <<linked, sock, ago, rows, open, moves, misses>>

LeastOf(S) == CHOOSE s \in S : \A t \in S : s <= t
Taken(t, p) == {s \in 1..Slots : t[s].used /\ t[s].id = p}
Spare(t) == {s \in 1..Slots : ~t[s].used}
\* the row of the device, else the first free one; with neither it is dropped
Found_Free(t, p) == IF Spare(t) # {} THEN {LeastOf(Spare(t))} ELSE Taken(t, p)
Found(t, p) ==
    IF Taken(t, p) # {} THEN {LeastOf(Taken(t, p))}
    ELSE IF Spare(t) # {} THEN {LeastOf(Spare(t))} ELSE {}
Stored(t, p) == [s \in 1..Slots |-> IF s \in Found(t, p) THEN Row(p) ELSE t[s]]

\* processPacket
Heard(t, p) == IF p \in Others THEN t ELSE Stored(t, p)

Stale(t) == {s \in 1..Slots : t[s].used /\ t[s].age > Timeout}
Freed_First(t) == IF Stale(t) = {} THEN {} ELSE {LeastOf(Stale(t))}
Freed(t) == Stale(t)
\* pruneStale
Pruned(t) == [s \in 1..Slots |-> IF s \in Freed(t) THEN None ELSE t[s]]

NoLink ==
    /\ ~turn /\ ~linked
    /\ sock' = FALSE /\ inbox' = {} /\ open' = 0 /\ turn' = TRUE
    /\ UNCHANGED <<linked, ago, rows, moves, misses>>

Open ==
    /\ ~turn /\ linked /\ ~sock
    /\ \/ sock' = TRUE /\ ago' = 0 /\ inbox' = {"self"}
       \/ turn' = TRUE /\ UNCHANGED <<sock, ago, inbox>>         \* socket() or the join failed
    /\ (sock' => UNCHANGED turn)
    /\ UNCHANGED <<linked, rows, open, moves, misses>>

\* announceSelf and pruneStale, when it is time; the lock of the table may be missed
Due == ago >= Interval
Missed(locks) == IF locks THEN 0 ELSE 1
Round(t, held) ==
    /\ rows' = IF Due /\ held THEN Pruned(t) ELSE t
    /\ ago' = IF Due THEN 0 ELSE ago
    /\ (Due \/ held)

\* select() has a packet: one a turn
Receive(p) ==
    /\ ~turn /\ linked /\ sock /\ p \in inbox
    /\ \E got, held \in BOOLEAN :
         /\ misses' = misses + Missed(got) + Missed(held) /\ misses' <= MaxMiss
         /\ (got \/ p \in Peers)
         /\ Round(IF got THEN Heard(rows, p) ELSE rows, held)
    /\ inbox' = (inbox \ {p}) \cup (IF Due THEN {"self"} ELSE {})
    /\ UNCHANGED <<linked, sock, turn, open, moves>>

Quiet ==
    /\ ~turn /\ linked /\ sock /\ inbox = {}
    /\ \E held \in BOOLEAN :
         /\ misses' = misses + Missed(held) /\ misses' <= MaxMiss
         /\ Round(rows, held)
    /\ inbox' = (IF Due THEN {"self"} ELSE {}) /\ turn' = ~Due
    /\ UNCHANGED <<linked, sock, open, moves>>

\* select() fails: the socket is opened again in the next turn
SelectFails ==
    /\ ~turn /\ linked /\ sock /\ moves < MaxMoves /\ moves' = moves + 1
    /\ sock' = FALSE /\ inbox' = {} /\ open' = 0 /\ turn' = TRUE
    /\ UNCHANGED <<linked, ago, rows, misses>>

Aged(r) == IF r.used THEN [r EXCEPT !.age = IF @ < Longest THEN @ + 1 ELSE @] ELSE r
Tick ==
    /\ turn
    /\ rows' = [s \in 1..Slots |-> Aged(rows[s])]
    /\ ago' = IF ago < Interval THEN ago + 1 ELSE ago
    /\ open' = IF sock /\ open < Longest THEN open + 1 ELSE open
    /\ turn' = FALSE
    /\ UNCHANGED <<linked, sock, inbox, moves, misses>>

\* what the page is shown
servePeers == {rows[s] : s \in {s \in 1..Slots : rows[s].used}}

Next ==
    \/ Link \/ NoLink \/ Open \/ Quiet \/ SelectFails \/ Tick
    \/ \E p \in Peers \cup {"bad"} : Announce(p)
    \/ \E p \in Peers \cup Others : Receive(p)

Spec == Init /\ [][Next]_vars

TypeOK ==
    /\ linked \in BOOLEAN /\ sock \in BOOLEAN /\ turn \in BOOLEAN
    /\ ago \in 0..Interval /\ open \in 0..Longest
    /\ inbox \subseteq Peers \cup Others
    /\ \A s \in 1..Slots : rows[s] \in {None} \cup
         [used : {TRUE}, of : Peers, id : Peers \cup {"cut"}, age : 0..Longest]
    /\ moves \in 0..MaxMoves /\ misses \in 0..MaxMiss

(* A device is one row, whatever freed slots and lost packets came between.  *)
OneRow == \A s, t \in 1..Slots : rows[s].used /\ rows[t].used /\ rows[s].of = rows[t].of => s = t

(* "Peers that stop announcing age out" (DiscoveryService.h): with the socket *)
(* open all that time, a row outlives its last announcement by the timeout    *)
(* and one announcement interval, and an interval more per miss of the lock.  *)
AgesOut ==
    (turn /\ sock /\ open >= Timeout + (1 + misses) * Interval) =>
        \A r \in servePeers : r.age < Timeout + 1 + (1 + misses) * Interval
==============================================================================
