---------------------------- MODULE PresenceRoster ----------------------------
(* Who is on the web pages (PresenceService.cpp, PresenceProvider.tsx): every tab    *)
(* keeps a socket on which it says hello and the page it is on, its REST requests    *)
(* say it too; the loop task forgets the silent ones. The roster has no lock.        *)
EXTENDS Naturals, Sequences

CONSTANTS
    Tabs, Pages,
    None,
    MaxConns,   \* connections (bound)
    MaxNavs,    \* navigations (bound)
    MaxHides,   \* times a tab is left in the background (bound)
    MaxRests,   \* REST requests (bound)
    MaxLate,    \* navigations a REST request is overtaken by (bound)
    MaxDrops,   \* connections lost (bound)
    MaxPurges   \* clients purged (bound)

VARIABLES
    page, active,   \* per tab: where it is, and it is in use
    ref,            \* wsRef: the Sockette of the tab, by the connection it began with, or 0
    on,             \* connectedRef
    pending,        \* pendingPageRef
    conns,          \* per connection: tab, its Sockette, both ends, the frames on their way
    rests,          \* REST requests on their way
    roster,         \* _clients, by key
    hand,           \* the handler async_tcp is in
    said,           \* connections whose hello has been handled, in order
    raced,          \* a client was erased under the handler that has it in its hand
    n               \* counters of the bounds

vars == <<page, active, ref, on, pending, conns, rests, roster, hand, said, raced, n>>
tabs == <<page, active, ref, on, pending>>
device == <<roster, hand, said, raced>>

Ids == 1..MaxConns
Keys == Tabs        \* getClientKey: a tab keeps its key
Idle == [op |-> "idle"]
NoConn == [tab |-> None, of |-> 0, tabEnd |-> "none", end |-> "none", q |-> <<>>]
New == [bound |-> 0, zombie |-> FALSE, rest |-> "never", page |-> None]
Limits == [navs |-> MaxNavs, hides |-> MaxHides, rests |-> MaxRests, late |-> MaxLate, drops |-> MaxDrops, purges |-> MaxPurges]
Counts(c) == n[c] < Limits[c] /\ n' = [n EXCEPT ![c] = @ + 1]

Init ==
    /\ page \in [Tabs -> Pages] /\ active = [t \in Tabs |-> FALSE]
    /\ ref = [t \in Tabs |-> 0] /\ on = [t \in Tabs |-> FALSE]
    /\ pending = page               \* the effect on the location runs at the mount too
    /\ conns = [c \in Ids |-> NoConn] /\ rests = {}
    /\ roster = [k \in Keys |-> None]
    /\ hand = Idle /\ said = <<>> /\ raced = FALSE
    /\ n = [c \in DOMAIN Limits |-> 0]

(* The page: PresenceProvider *)
Unused == {c \in Ids : conns[c].tab = None}
NextId == CHOOSE c \in Unused : \A d \in Unused : c <= d
Opening(t, s) == [tab |-> t, of |-> s, tabEnd |-> "opening", end |-> "none", q |-> <<>>]

Show(t) ==
    /\ ~active[t] /\ Unused # {}
    /\ active' = [active EXCEPT ![t] = TRUE]
    /\ ref' = [ref EXCEPT ![t] = NextId]
    /\ conns' = [conns EXCEPT ![NextId] = Opening(t, NextId)]
    /\ UNCHANGED <<page, on, pending, rests, device, n>>

\* the effect's cleanup: the socket is closed with a code, its end is told later
Hide(t) ==
    /\ active[t] /\ Counts("hides")
    /\ active' = [active EXCEPT ![t] = FALSE]
    /\ ref' = [ref EXCEPT ![t] = 0] /\ on' = [on EXCEPT ![t] = FALSE]
    /\ conns' = [c \in Ids |-> IF conns[c].tab = t /\ conns[c].tabEnd \in {"opening", "open"}
                   THEN [conns[c] EXCEPT !.tabEnd = "closing", !.q = Append(@, [op |-> "bye", page |-> None])]
                   ELSE conns[c]]
    /\ UNCHANGED <<page, pending, rests, device>>

\* onopen: hello, and the page that changed meanwhile
Opened(c) ==
    /\ conns[c].tabEnd = "opening"
    /\ LET t == conns[c].tab
           hello == <<[op |-> "hello", page |-> page[t]]>>
           later == IF pending[t] = None THEN <<>> ELSE <<[op |-> "page", page |-> pending[t]]>>
       IN  /\ conns' = [conns EXCEPT ![c].tabEnd = "open", ![c].end = "open", ![c].q = hello \o later]
           /\ on' = [on EXCEPT ![t] = TRUE] /\ pending' = [pending EXCEPT ![t] = None]
    /\ UNCHANGED <<page, active, ref, rests, device, n>>

\* onclose: of the Sockette the tab has, or of one it has replaced
Disowned_Never(c) == FALSE
Disowned(c) == ref[conns[c].tab] # conns[c].of
Closed(c) ==
    /\ conns[c].tabEnd = "closing"
    /\ conns' = [conns EXCEPT ![c].tabEnd = "closed"]
    /\ on' = IF Disowned(c) THEN on ELSE [on EXCEPT ![conns[c].tab] = FALSE]
    /\ UNCHANGED <<page, active, ref, pending, rests, device, n>>

\* Sockette's next attempt, 5 s later
Retry(t) ==
    /\ active[t] /\ Unused # {}
    /\ \A c \in Ids : conns[c].of = ref[t] => conns[c].tabEnd = "closed"
    /\ conns' = [conns EXCEPT ![NextId] = Opening(t, ref[t])]
    /\ UNCHANGED <<tabs, rests, device, n>>

\* what is sent on a socket that is closing goes nowhere
Sent(c, p) == IF conns[c].tabEnd = "open" THEN [conns EXCEPT ![c].q = Append(@, [op |-> "page", page |-> p])] ELSE conns
Newest(t) == CHOOSE c \in Ids : conns[c].of = ref[t] /\ \A d \in Ids : conns[d].of = ref[t] => d <= c
Navigate(t, p) ==
    /\ p # page[t]
    /\ IF \E r \in rests : r.tab = t
         THEN /\ n.navs < MaxNavs /\ n.late < MaxLate
              /\ n' = [n EXCEPT !.navs = @ + 1, !.late = @ + 1]
         ELSE Counts("navs")
    /\ page' = [page EXCEPT ![t] = p]
    /\ IF ref[t] # 0 /\ on[t]
         THEN conns' = Sent(Newest(t), p) /\ UNCHANGED pending
         ELSE pending' = [pending EXCEPT ![t] = p] /\ UNCHANGED conns
    /\ UNCHANGED <<active, ref, on, rests, device>>

Request(t) ==
    /\ Counts("rests")
    /\ rests' = rests \cup {[tab |-> t, page |-> page[t]]}
    /\ UNCHANGED <<tabs, conns, device>>

\* the connection is lost: neither end has been told
Lost(c) ==
    /\ conns[c].tabEnd \in {"opening", "open"} /\ Counts("drops")
    /\ conns' = [conns EXCEPT ![c].tabEnd = "closing", ![c].end = IF @ = "none" THEN @ ELSE "broken"]
    /\ UNCHANGED <<tabs, rests, device>>

(* The device, async_tcp: the events of a connection in order *)
Frame(c) == Head(conns[c].q)
TakesFrame(c, op) ==
    /\ hand = Idle /\ conns[c].end \in {"open", "broken"} /\ conns[c].q # <<>> /\ Frame(c).op = op
    /\ conns' = [conns EXCEPT ![c].q = Tail(@)]
    /\ UNCHANGED <<tabs, rests, n>>

Hello(c) ==
    /\ TakesFrame(c, "hello")
    /\ hand' = [op |-> "upsert", key |-> conns[c].tab, page |-> Frame(c).page, conn |-> c]
    /\ UNCHANGED <<roster, said, raced>>

Rest(r) ==
    /\ hand = Idle /\ r \in rests /\ rests' = rests \ {r}
    /\ hand' = [op |-> "upsert", key |-> r.tab, page |-> r.page, conn |-> 0]
    /\ UNCHANGED <<tabs, conns, roster, said, raced, n>>

\* upsertLocked
Upsert ==
    /\ hand.op = "upsert"
    /\ roster' = IF roster[hand.key] = None THEN [roster EXCEPT ![hand.key] = New] ELSE roster
    /\ hand' = [hand EXCEPT !.op = "touch"]
    /\ UNCHANGED <<tabs, conns, rests, said, raced, n>>

Touched(r) == IF hand.conn = 0 THEN [r EXCEPT !.rest = "fresh", !.page = hand.page]
                               ELSE [r EXCEPT !.zombie = FALSE, !.page = hand.page]
\* touch: the rest of it, through the reference upsertLocked gave
Touch ==
    /\ hand.op = "touch"
    /\ roster' = IF roster[hand.key] = None THEN roster ELSE [roster EXCEPT ![hand.key] = Touched(@)]
    /\ hand' = IF hand.conn = 0 THEN Idle ELSE [hand EXCEPT !.op = "bind"]
    /\ UNCHANGED <<tabs, conns, rests, said, raced, n>>

\* bindWsTransport
Bind ==
    /\ hand.op = "bind"
    /\ roster' = IF roster[hand.key] = None THEN roster
                 ELSE [roster EXCEPT ![hand.key].bound = hand.conn, ![hand.key].zombie = FALSE]
    /\ said' = Append(said, hand.conn) /\ hand' = Idle
    /\ UNCHANGED <<tabs, conns, rests, raced, n>>

\* a page frame: the client is found by the connection
Page(c) ==
    /\ TakesFrame(c, "page")
    /\ roster' = [k \in Keys |-> IF roster[k] # None /\ roster[k].bound = c
                                   THEN [roster[k] EXCEPT !.page = Frame(c).page] ELSE roster[k]]
    /\ UNCHANGED <<hand, said, raced>>

\* unbindWsTransport: of this connection only; it may have been replaced
Unbound_Key(c) == {k \in Keys : roster[k] # None /\ k = conns[c].tab}
Unbound(c) == {k \in Keys : roster[k] # None /\ roster[k].bound = c}
Disconnect(c) ==
    /\ hand = Idle /\ conns[c].end # "none" /\ conns[c].end # "ended"
    /\ conns[c].end = "broken" \/ (conns[c].q # <<>> /\ Frame(c).op = "bye")
    /\ conns' = [conns EXCEPT ![c].end = "ended", ![c].q = <<>>, ![c].tabEnd = IF @ = "open" THEN "closing" ELSE @]
    /\ roster' = [k \in Keys |-> IF k \in Unbound(c) THEN [roster[k] EXCEPT !.bound = 0, !.zombie = TRUE] ELSE roster[k]]
    /\ UNCHANGED <<tabs, rests, hand, said, raced, n>>

(* Time, and the loop task *)
ZombieOver(k) ==
    /\ roster[k] # None /\ roster[k].zombie
    /\ roster' = [roster EXCEPT ![k].zombie = FALSE]
    /\ UNCHANGED <<tabs, conns, rests, hand, said, raced, n>>
RestOld(k) ==
    /\ roster[k] # None /\ roster[k].rest = "fresh"
    /\ roster' = [roster EXCEPT ![k].rest = "old"]
    /\ UNCHANGED <<tabs, conns, rests, hand, said, raced, n>>

\* purgeStale, a client
Kept_Rest(r) == r.zombie \/ r.rest = "fresh"
Kept(r) == r.bound # 0 \/ r.zombie \/ r.rest = "fresh"
Purge(k) ==
    /\ roster[k] # None /\ ~Kept(roster[k]) /\ Counts("purges")
    /\ roster' = [roster EXCEPT ![k] = None]
    /\ raced' = (raced \/ (hand # Idle /\ hand.key = k /\ hand.op # "upsert"))
    /\ UNCHANGED <<tabs, conns, rests, hand, said>>

Next ==
    \/ Upsert \/ Touch \/ Bind
    \/ \E t \in Tabs : Show(t) \/ Hide(t) \/ Retry(t) \/ Request(t) \/ \E p \in Pages : Navigate(t, p)
    \/ \E c \in Ids : Opened(c) \/ Closed(c) \/ Lost(c) \/ Hello(c) \/ Page(c) \/ Disconnect(c)
    \/ \E r \in rests : Rest(r)
    \/ \E k \in Keys : ZombieOver(k) \/ RestOld(k) \/ Purge(k)

Spec == Init /\ [][Next]_vars

TypeOK ==
    /\ page \in [Tabs -> Pages] /\ active \in [Tabs -> BOOLEAN] /\ on \in [Tabs -> BOOLEAN]
    /\ ref \in [Tabs -> 0..MaxConns] /\ pending \in [Tabs -> Pages \cup {None}]
    /\ \A c \in Ids : conns[c].end \in {"none", "open", "broken", "ended"}
    /\ \A k \in Keys : roster[k] = None \/ roster[k].bound \in 0..MaxConns
    /\ raced \in BOOLEAN

(* A client's last connection that has said hello is the one it is shown      *)
(* online by, however the ends of older ones come in, and no ended one is.    *)
Last(k) == {i \in 1..Len(said) : conns[said[i]].tab = k
              /\ \A j \in 1..Len(said) : conns[said[j]].tab = k => j <= i}
Shows(k) ==
    /\ \A i \in Last(k) : conns[said[i]].end # "ended" => roster[k] # None /\ roster[k].bound = said[i]
    /\ roster[k] # None /\ roster[k].bound # 0 => conns[roster[k].bound].end # "ended"
Online == hand.op # "bind" /\ ~raced => \A k \in Keys : Shows(k)

(* ... whatever the loop task erases meanwhile: the roster has no lock.       *)
OnlineListed == hand.op # "bind" => \A k \in Keys : Shows(k)

(* A tab that is online and has nothing on its way is shown on its page.      *)
Settled(t, c) ==
    /\ ref[t] # 0 /\ conns[c].tab = t /\ conns[c].of = ref[t]
    /\ conns[c].tabEnd = "open" /\ conns[c].end = "open" /\ conns[c].q = <<>>
    /\ \A r \in rests : r.tab # t
PageRight == hand = Idle /\ ~raced =>
    \A t \in Tabs, c \in Ids :
        Settled(t, c) /\ roster[t] # None /\ roster[t].bound = c => roster[t].page = page[t]
===============================================================================
