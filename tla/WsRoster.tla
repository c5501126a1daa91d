------------------------------ MODULE WsRoster ------------------------------
(***************************************************************************)
(* The clients of the WebSocket (WsManager): the identity a connection     *)
(* brings from its handshake, the caps and who is closed for them, and the *)
(* life of a client that async_tcp frees while the loop task may be        *)
(* sending to it (PinTable).  A connection's address is that of its        *)
(* AsyncClient, which a later connection may get again.  The library       *)
(* (external) opens, closes and frees the clients.                         *)
(***************************************************************************)
EXTENDS Naturals, FiniteSets, Sequences, SequencesExt

CONSTANTS MaxIds, Addrs, Tabs,   \* connections there ever are, addresses, pages' tabs
          Cap, ChannelCap,       \* ESPRACK_WS_MAX_CLIENTS, _PER_CHANNEL
          Slots,                 \* kPendingIdentities
          MaxBusy                \* bound: roster lock timeouts, and connections with no pin slot

Ids == 1..MaxIds
None == 0
NoTab == "no tab"
Rights == {"public", "user"}   \* an admin's are one more of the same
NoClient == [level |-> "public", tab |-> NoTab, evicting |-> FALSE, view |-> "unknown",
             quiet |-> FALSE, sub |-> FALSE]

VARIABLES
  conn,    \* per id: "none", "shaken" (handshake done), "open", "closing", "freeing", "freed"
  addr, proved,   \* per id: its connection, what its handshake proved (history)
  stash,   \* _pendingIds: [addr, level, tab, old], the oldest first
  roster,  \* _clients: per id a record, or absent
  pins,    \* PinTable: per id [open, users], or absent
  tcp,     \* the client async_tcp is waiting to free, or None
  sending, \* the client the loop task has pinned, or None
  overdue, \* WS_SEND_WAIT_MS went by with a send in flight (history)
  busy,    \* of those so far
  bare     \* connections whose handshake found the lock busy: nothing stashed, nothing to drop

vars == <<conn, addr, proved, stash, roster, pins, tcp, sending, overdue, busy, bare>>

Init ==
  /\ conn = [i \in Ids |-> "none"]
  /\ addr = [i \in Ids |-> None] /\ proved = [i \in Ids |-> "public"]
  /\ stash = <<>> /\ roster = <<>> /\ pins = <<>>
  /\ tcp = None /\ sending = None /\ overdue = FALSE /\ busy = 0 /\ bare = {}

Busy == busy < MaxBusy /\ busy' = busy + 1
Free == UNCHANGED busy
With(f, i, v) == [x \in DOMAIN f \cup {i} |-> IF x = i THEN v ELSE f[x]]
Without(f, i) == [x \in DOMAIN f \ {i} |-> f[x]]

-----------------------------------------------------------------------------
(* The handshake: async_tcp, while the upgrade request is there. *)

\* stashIdentity: one entry per connection, expired ones dropped, the oldest given up.
\* Fault: the older entry of the connection stays.
Stash_Second(a, level, t) ==
  LET kept == SelectSeq(stash, LAMBDA e : ~e.old) IN
  Append(IF Len(kept) >= Slots THEN Tail(kept) ELSE kept,
         [addr |-> a, level |-> level, tab |-> t, old |-> FALSE])
\* Fault: nothing goes to make room.
Stash_Grows(a, level, t) ==
  Append(SelectSeq(stash, LAMBDA e : e.addr # a /\ ~e.old),
         [addr |-> a, level |-> level, tab |-> t, old |-> FALSE])
Stash(a, level, t) ==
  LET kept == SelectSeq(stash, LAMBDA e : e.addr # a /\ ~e.old) IN
  Append(IF Len(kept) >= Slots THEN Tail(kept) ELSE kept,
         [addr |-> a, level |-> level, tab |-> t, old |-> FALSE])

Handshake(i) ==
  /\ tcp = None /\ conn[i] = "none" /\ \A j \in Ids : j < i => conn[j] # "none"
  /\ \E a \in Addrs, level \in Rights, t \in Tabs \cup {NoTab} :
       /\ \A j \in Ids : conn[j] \in {"shaken", "open", "closing", "freeing"} => addr[j] # a
       /\ addr' = [addr EXCEPT ![i] = a] /\ proved' = [proved EXCEPT ![i] = level]
       /\ \/ Free /\ stash' = Stash(a, level, t) /\ UNCHANGED bare
          \/ Busy /\ UNCHANGED stash /\ bare' = bare \cup {i}
  /\ conn' = [conn EXCEPT ![i] = "shaken"]
  /\ UNCHANGED <<roster, pins, tcp, sending, overdue>>

Gone(i) == conn' = [conn EXCEPT ![i] = "freed"] /\ addr' = [addr EXCEPT ![i] = None]

\* The upgrade fails: dropIdentity.
Abort(i) ==
  /\ tcp = None /\ conn[i] = "shaken" /\ Gone(i)
  /\ \/ Free /\ stash' = IF i \in bare THEN stash ELSE SelectSeq(stash, LAMBDA e : e.addr # addr[i])
     \/ Busy /\ UNCHANGED stash
  /\ UNCHANGED <<proved, roster, pins, tcp, sending, overdue, bare>>

\* kPendingIdentityTtlMs go by.
Age ==
  /\ \E n \in DOMAIN stash :
       /\ ~stash[n].old
       /\ stash' = [m \in DOMAIN stash |-> IF m <= n THEN [stash[m] EXCEPT !.old = TRUE] ELSE stash[m]]
  /\ UNCHANGED <<conn, addr, proved, roster, pins, tcp, sending, overdue, busy, bare>>

-----------------------------------------------------------------------------
(* The caps. *)

\* isLive: not closed by a cap, and connected for the library.
Live(r) == {i \in DOMAIN r : ~r[i].evicting /\ conn[i] = "open"}

\* pickEviction among cs: one that missed its pong, else a hidden one, else one that never
\* said; the oldest of its kind, which the model leaves open.  None of them: `keep` itself.
\* Fault: a page in view counts as one that never said.
Victims_Shown(r, cs, keep) ==
  LET others == cs \ {keep}
      quiet == {i \in others : r[i].quiet}
      hidden == {i \in others : r[i].view = "hidden"} IN
  IF quiet # {} THEN quiet ELSE IF hidden # {} THEN hidden
  ELSE IF others # {} THEN others ELSE {keep}
Victims(r, cs, keep) ==
  LET others == cs \ {keep}
      quiet == {i \in others : r[i].quiet}
      hidden == {i \in others : r[i].view = "hidden"}
      unknown == {i \in others : r[i].view = "unknown"} IN
  IF quiet # {} THEN quiet ELSE IF hidden # {} THEN hidden
  ELSE IF unknown # {} THEN unknown ELSE {keep}

\* evict: the pinned client is closed; its disconnect comes later.
Closes(ids) == [i \in Ids |-> IF i \in ids /\ conn[i] \in {"open", "shaken"} THEN "closing" ELSE conn[i]]

-----------------------------------------------------------------------------
(* The events of a client: async_tcp. *)

Entry(a) == SelectSeq(stash, LAMBDA e : e.addr = a)
\* takeIdentity: an unknown or expired one is Public.
Identity(a) ==
  IF Entry(a) = <<>> \/ Entry(a)[1].old THEN [level |-> "public", tab |-> NoTab]
  ELSE [level |-> Entry(a)[1].level, tab |-> Entry(a)[1].tab]

\* onConnect with no pin slot left, which take sockets still to be freed, or none of the
\* roster because its lock is busy: refused, and its identity is not taken.
Turned(i) ==
  /\ tcp = None /\ conn[i] = "shaken" /\ Busy
  /\ pins' \in {pins, With(pins, i, [open |-> TRUE, users |-> {}])}
  /\ conn' = [conn EXCEPT ![i] = "closing"]
  /\ UNCHANGED <<addr, proved, stash, roster, tcp, sending, overdue, bare>>

\* onConnect: a pin slot, a roster entry, the identity; its tab's older sockets go, and over
\* the cap one more.
Connect(i) ==
  /\ tcp = None /\ conn[i] = "shaken"
  /\ pins' = With(pins, i, [open |-> TRUE, users |-> {}])
  /\ LET id == Identity(addr[i])
         older == {j \in Live(roster) : id.tab # NoTab /\ roster[j].tab = id.tab}
         r == With([j \in DOMAIN roster |-> [roster[j] EXCEPT !.evicting = @ \/ j \in older]],
                   i, [NoClient EXCEPT !.level = id.level, !.tab = id.tab])
         live == Live(r) \cup {i} IN
     /\ stash' = SelectSeq(stash, LAMBDA e : e.addr # addr[i])
     /\ \E v \in IF Cardinality(live) > Cap THEN Victims(r, live, i) ELSE {None} :
          /\ roster' = [j \in DOMAIN r |-> [r[j] EXCEPT !.evicting = @ \/ j = v]]
          /\ conn' = [Closes(older \cup {v}) EXCEPT ![i] = IF v = i THEN "closing" ELSE "open"]
  /\ UNCHANGED <<addr, proved, tcp, sending, overdue, busy, bare>>

\* A frame or a pong.
Hear(i) ==
  /\ tcp = None /\ conn[i] = "open" /\ i \in DOMAIN roster /\ roster[i].quiet
  /\ roster' = [roster EXCEPT ![i].quiet = FALSE]
  /\ UNCHANGED <<conn, addr, proved, stash, pins, tcp, sending, overdue, busy, bare>>

\* It is silent past one ping and a margin.
Silent(i) ==
  /\ conn[i] = "open" /\ i \in DOMAIN roster /\ ~roster[i].quiet
  /\ roster' = [roster EXCEPT ![i].quiet = TRUE]
  /\ UNCHANGED <<conn, addr, proved, stash, pins, tcp, sending, overdue, busy, bare>>

\* The page or the network closes it; a close of ours is answered.
Hangup(i) ==
  /\ conn[i] = "open" /\ conn' = [conn EXCEPT ![i] = "closing"]
  /\ UNCHANGED <<addr, proved, stash, roster, pins, tcp, sending, overdue, busy, bare>>

Others(i) == IF i \in DOMAIN pins THEN pins[i].users \ {"async_tcp"} ELSE {}
\* forget: the entry stays for purgeGone when the lock is busy.
Forget(i) == (Free /\ roster' = Without(roster, i)) \/ (Busy /\ UNCHANGED roster)

\* WS_EVT_DISCONNECT, in the client's destructor: no new pins, and a wait for a send.
\* Fault: no wait.
Disconnect_Now(i) ==
  /\ tcp = None /\ conn[i] = "closing"
  /\ pins' = Without(pins, i) /\ Gone(i) /\ Forget(i)
  /\ UNCHANGED <<proved, stash, tcp, sending, overdue, bare>>
Disconnect(i) ==
  /\ tcp = None /\ conn[i] = "closing"
  /\ IF Others(i) = {}
     THEN /\ pins' = Without(pins, i) /\ Gone(i)
          /\ Forget(i) /\ UNCHANGED tcp
     ELSE /\ pins' = [pins EXCEPT ![i].open = FALSE]
          /\ conn' = [conn EXCEPT ![i] = "freeing"] /\ tcp' = i
          /\ UNCHANGED <<addr, roster, busy>>
  /\ UNCHANGED <<proved, stash, sending, overdue, bare>>

Released ==
  /\ tcp # None
  /\ overdue' = (overdue \/ Others(tcp) # {})
  /\ pins' = Without(pins, tcp) /\ Gone(tcp)
  /\ Forget(tcp) /\ tcp' = None
  /\ UNCHANGED <<proved, stash, sending, bare>>

\* WS_EVT_ERROR: forgotten, and alive until its disconnect.
Error(i) ==
  /\ tcp = None /\ conn[i] = "open" /\ i \in DOMAIN roster /\ Forget(i)
  /\ UNCHANGED <<conn, addr, proved, stash, pins, tcp, sending, overdue, bare>>

-----------------------------------------------------------------------------
(* The loop task. *)

Pin(i) ==
  /\ sending = None /\ i \in DOMAIN pins /\ pins[i].open
  /\ sending' = i /\ pins' = [pins EXCEPT ![i].users = @ \cup {"loop"}]
  /\ UNCHANGED <<conn, addr, proved, stash, roster, tcp, overdue, busy, bare>>

Unpinned == IF sending \in DOMAIN pins THEN [pins EXCEPT ![sending].users = @ \ {"loop"}] ELSE pins
Unpin ==
  /\ sending # None /\ sending' = None /\ pins' = Unpinned
  /\ UNCHANGED <<conn, addr, proved, stash, roster, tcp, overdue, busy, bare>>

\* checkInactive closes a client with no pong, the heartbeat one whose queue is stuck.
UnpinClosed ==
  /\ sending # None /\ sending' = None /\ pins' = Unpinned
  /\ conn' = Closes({sending})
  /\ UNCHANGED <<addr, proved, stash, roster, tcp, overdue, busy, bare>>

\* purgeGone.
Purge ==
  /\ sending = None
  /\ \E i \in DOMAIN roster : i \notin DOMAIN pins
  /\ roster' = [i \in DOMAIN roster \cap DOMAIN pins |-> roster[i]]
  /\ UNCHANGED <<conn, addr, proved, stash, pins, tcp, sending, overdue, busy, bare>>

\* A "vis" frame.
View(i) ==
  /\ sending = None /\ i \in DOMAIN roster
  /\ \E v \in {"shown", "hidden"} : roster[i].view # v /\ roster' = [roster EXCEPT ![i].view = v]
  /\ UNCHANGED <<conn, addr, proved, stash, pins, tcp, sending, overdue, busy, bare>>

\* A "sub" of one that may: over the channel's cap one goes, or the newcomer does not get in.
Subscribe(i) ==
  /\ sending = None /\ i \in DOMAIN roster /\ roster[i].level # "public" /\ ~roster[i].sub
  /\ LET r == [roster EXCEPT ![i].sub = TRUE]
         on == {j \in Live(r) : r[j].sub} IN
     \E v \in IF Cardinality(on) > ChannelCap THEN Victims(r, on, i) ELSE {None} :
       /\ roster' = [j \in DOMAIN r |-> [r[j] EXCEPT !.evicting = @ \/ j = v,
                                                     !.sub = @ /\ ~(j = i /\ v = i)]]
       /\ conn' = Closes({v})
  /\ UNCHANGED <<addr, proved, stash, pins, tcp, sending, overdue, busy, bare>>

Next ==
  \/ Age \/ Released \/ Unpin \/ UnpinClosed \/ Purge
  \/ \E i \in Ids :
       Handshake(i) \/ Abort(i) \/ Turned(i) \/ Connect(i) \/ Hear(i) \/ Silent(i) \/ Hangup(i)
       \/ Disconnect(i) \/ Error(i) \/ Pin(i) \/ View(i) \/ Subscribe(i)

Spec == Init /\ [][Next]_vars

-----------------------------------------------------------------------------
TypeOK ==
  /\ \A i \in Ids : conn[i] \in {"none", "shaken", "open", "closing", "freeing", "freed"}
  /\ DOMAIN roster \subseteq Ids /\ DOMAIN pins \subseteq Ids
  /\ \A i \in DOMAIN pins : pins[i] \in [open : BOOLEAN, users : SUBSET {"loop", "async_tcp"}]
  /\ \A i \in DOMAIN roster : roster[i].level \in Rights
  /\ Len(stash) <= Slots /\ tcp \in Ids \cup {None} /\ sending \in Ids \cup {None}
  /\ overdue \in BOOLEAN /\ busy \in 0..MaxBusy /\ bare \subseteq Ids

\* The loop task never sends to a client that is freed, unless the wait for it was over.
SendsToTheLiving == sending # None /\ ~overdue => conn[sending] # "freed"

\* A client has the rights its own handshake proved, or none: never those of an earlier
\* connection at the same address ("so a later connection whose AsyncClient reuses this
\* address can't inherit it", WsManager.h:750-751). The exception is a connection whose own
\* handshake found the lock busy: when an earlier one's drop or connect failed too, its
\* entry is still there within its time, and the connect takes it, although "the connect
\* finds no identity: Public, no write" is meant (WsManager.h:732).
OwnRights == \A i \in DOMAIN roster \ bare : roster[i].level \in {proved[i], "public"}

\* No more clients than the caps allow.
CapsKept == Cardinality(Live(roster)) <= Cap /\ Cardinality({i \in Live(roster) : roster[i].sub}) <= ChannelCap

\* A cap closes no page that is in view and answers, but the one that asks for more; a
\* page's own newer socket closes it.
InView(i) == i \in Live(roster) /\ roster[i].view = "shown" /\ ~roster[i].quiet
SparesShown ==
  \A i \in DOMAIN roster \cap DOMAIN roster' :
     InView(i) /\ roster'[i].evicting =>
       \/ roster[i].tab # NoTab /\ \E j \in DOMAIN roster' \ DOMAIN roster : roster'[j].tab = roster[i].tab
       \/ DOMAIN roster' = DOMAIN roster /\ ~roster[i].sub
=============================================================================
