----------------------------- MODULE MqttTopics -----------------------------
(***************************************************************************)
(* What the device has the broker deliver: the patterns of the services'   *)
(* subscriptions, the topics the operator attached, the sniffer; and the   *)
(* table of seen topics with the rows still to be pushed to the browsers.  *)
(* The broker (external) keeps one subscription per pattern, whoever asked *)
(* for it, and forgets them with a session that is not persistent.  The    *)
(* connection and its availability are MqttLink's.                         *)
(***************************************************************************)
EXTENDS Naturals, FiniteSets, Sequences, SequencesExt

CONSTANTS Topics, MaxAttached, MaxSeen, MaxPending, \* MQTT_ATTACHED_TOPICS_MAX, MQTT_TOPICS_LOG_MAX, SNIFFER_BURST_MAX
          MaxOps, MaxMessages                       \* bounds

Off == "off"
All == "#"                       \* what an empty sniffer pattern means
Patterns == Topics \cup {All}

VARIABLES
  clean,    \* cleanSession
  online, broker,  \* connected(); [session, subs]: what the broker has of us
  listeners,       \* patterns of the subscriptions that are not released
  asked,    \* _brokerSubscribed
  attached, applied,     \* attachedTopics, _attachedApplied
  sniff, active,         \* the sniffer's pattern or Off: wanted, and _snifferActivePattern
  lost,     \* patterns a hand took away from another, or never asked for (history)
  seen, pending,   \* seenTopics: [topic, n]; pendingSeenTopics
  pusher,   \* who is between the frame and the clearing: its rows
  shown, missed,   \* the count of the last row pushed; topics whose row was given up (history)
  ops, messages

hands == <<listeners, asked, attached, applied, sniff, active, lost>>
table == <<seen, pending, pusher, shown, missed>>
vars == <<clean, online, broker, hands, table, ops, messages>>

Pushers == {"async_tcp", "loop"}
None == {}
Idle == [p \in Pushers |-> [on |-> FALSE, rows |-> None]]

Init ==
  /\ clean \in BOOLEAN
  /\ online = FALSE /\ broker = [session |-> FALSE, subs |-> {}]
  /\ listeners = {} /\ asked = {} /\ attached = {} /\ applied = {}
  /\ sniff = Off /\ active = Off /\ lost = {}
  /\ seen = <<>> /\ pending = <<>> /\ pusher = Idle
  /\ shown = [t \in Topics |-> 0] /\ missed = {}
  /\ ops = 0 /\ messages = 0

Op == ops < MaxOps /\ ops' = ops + 1
Wanted(l, a, s) == l \cup a \cup ({s} \ {Off})

-----------------------------------------------------------------------------
(* The three hands on the broker's subscriptions. *)

\* applyAttachedTopicsDiff, of what the next attachedTopics are.
AttachedDrops(next) == IF online THEN applied \ next ELSE {}
AttachedTakes(next) == IF online THEN next \ applied ELSE {}

\* The broker, and what somebody still needs of what was dropped.
Subscriptions(takes, drops, needed) ==
  /\ broker' = [broker EXCEPT !.subs = (@ \cup takes) \ drops]
  /\ lost' = (lost \ takes) \cup (drops \cap needed)

\* attachTopic, detachTopic: the update handler applies the sniffer's diff (nothing new)
\* and then theirs.
Attach(t) ==
  /\ Op /\ t \notin attached /\ Cardinality(attached) < MaxAttached
  /\ attached' = attached \cup {t}
  /\ Subscriptions(AttachedTakes(attached'), {}, {})
  /\ applied' = IF online THEN attached' ELSE applied
  /\ UNCHANGED <<clean, online, listeners, asked, sniff, active, table, messages>>

Detach(t) ==
  /\ Op /\ t \in attached
  /\ attached' = attached \ {t}
  /\ Subscriptions({}, AttachedDrops(attached'), Wanted(listeners, attached', active))
  /\ applied' = IF online THEN attached' ELSE applied
  /\ UNCHANGED <<clean, online, listeners, asked, sniff, active, table, messages>>

\* The settings: the sniffer's switch and pattern.  A sniffer that stops or turns takes the
\* table of seen topics with it.
SetSniffer ==
  /\ Op
  /\ \E s \in Patterns \cup {Off} :
       /\ s # sniff /\ sniff' = s
       /\ LET drops == IF online /\ active # Off /\ s # active THEN {active} ELSE {}
              takes == IF online /\ s # Off /\ s # active THEN {s} ELSE {} IN
          /\ broker' = [broker EXCEPT !.subs = (@ \ drops) \cup takes]
          /\ lost' = (lost \cup (drops \cap Wanted(listeners, attached, Off))) \ takes
          /\ active' = IF online THEN s ELSE Off
          /\ IF drops # {} THEN seen' = <<>> /\ pending' = <<>>
             ELSE UNCHANGED <<seen, pending>>
  /\ UNCHANGED <<clean, online, listeners, asked, attached, applied, pusher, shown, missed, messages>>

\* doSubscribeTopic and brokerSubscribeIfNew.
Listen(p) ==
  /\ Op
  /\ listeners' = listeners \cup {p} /\ asked' = asked \cup {p}
  /\ LET sent == online /\ p \notin asked IN
     /\ broker' = IF sent THEN [broker EXCEPT !.subs = @ \cup {p}] ELSE broker
     /\ lost' = IF sent THEN lost \ {p}
                ELSE IF p \in broker.subs \/ (clean /\ ~online) THEN lost
                ELSE lost \cup {p}
  /\ UNCHANGED <<clean, online, attached, applied, sniff, active, table, messages>>

\* releaseSubscription: the broker goes on delivering.
Release(p) ==
  /\ Op /\ p \in listeners /\ listeners' = listeners \ {p}
  /\ UNCHANGED <<clean, online, broker, asked, attached, applied, sniff, active, lost, table, messages>>

-----------------------------------------------------------------------------
(* onMqttConnect and onMqttDisconnect. *)

\* Fault: the services' patterns are taken to be at the broker still.
Connect_Trusting ==
  /\ Op /\ ~online /\ online' = TRUE
  /\ LET had == IF clean THEN {} ELSE broker.subs IN
     broker' = [session |-> ~clean, subs |-> had \cup Wanted({}, attached, sniff)]
  /\ lost' = lost \ Wanted({}, attached, sniff)
  /\ applied' = attached /\ active' = sniff
  /\ UNCHANGED <<clean, listeners, asked, attached, sniff, table, messages>>

\* Unless the broker kept the session, the services' patterns again; the attached topics
\* and the sniffer in any case, from what is wanted.
Connect ==
  /\ Op /\ ~online /\ online' = TRUE
  /\ LET present == ~clean /\ broker.session
         takes == Wanted(IF present THEN {} ELSE listeners, attached, sniff) IN
     /\ broker' = [session |-> ~clean, subs |-> (IF present THEN broker.subs ELSE {}) \cup takes]
     /\ lost' = lost \ takes
  /\ applied' = attached /\ active' = sniff
  /\ UNCHANGED <<clean, listeners, asked, attached, sniff, table, messages>>

Disconnect ==
  /\ Op /\ online /\ online' = FALSE
  /\ broker' = IF clean THEN [session |-> FALSE, subs |-> {}] ELSE broker
  /\ lost' = IF clean THEN {} ELSE lost
  /\ active' = Off /\ applied' = {} /\ asked' = {}
  /\ UNCHANGED <<clean, listeners, attached, sniff, table, messages>>

-----------------------------------------------------------------------------
(* onMqttMessage and the rows. *)

Row(t) == {i \in DOMAIN seen : seen[i].topic = t}
Evict ==
  IF Len(seen) >= MaxSeen
  THEN [seen |-> Tail(seen), pending |-> SelectSeq(pending, LAMBDA t : t # Head(seen).topic)]
  ELSE [seen |-> seen, pending |-> pending]

\* markPendingSeen, on a list p: at the limit the oldest is given up.
\* Fault: the newest is.
Mark_Full(p, t) ==
  IF t \in ToSet(p) \/ Len(p) >= MaxPending THEN p ELSE Append(p, t)
\* Fault: nothing goes to make room.
Mark_Grows(p, t) == IF t \in ToSet(p) THEN p ELSE Append(p, t)
Mark(p, t) ==
  IF t \in ToSet(p) THEN p
  ELSE Append(IF Len(p) >= MaxPending THEN Tail(p) ELSE p, t)

\* upsertSeenTopic under the service's lock; a busy lock drops the update.
Message(t) ==
  /\ online /\ messages < MaxMessages /\ messages' = messages + 1
  /\ t \in broker.subs \/ All \in broker.subs
  /\ ~pusher["async_tcp"].on
  /\ \/ LET kept == IF Row(t) # {} THEN [seen |-> seen, pending |-> pending] ELSE Evict IN
        /\ seen' = IF Row(t) # {}
                   THEN [i \in DOMAIN seen |-> IF seen[i].topic = t THEN [seen[i] EXCEPT !.n = messages'] ELSE seen[i]]
                   ELSE Append(kept.seen, [topic |-> t, n |-> messages'])
        /\ pending' = Mark(kept.pending, t)
        /\ missed' = (missed \ {t}) \cup (ToSet(kept.pending) \ ToSet(pending'))
     \/ UNCHANGED <<seen, pending, missed>>
  /\ UNCHANGED <<clean, online, broker, hands, pusher, shown, ops>>

\* pushLive, of the message's task or of the loop task: the frame, built of the pending
\* rows the table has; ...
Frame(p) ==
  /\ ~pusher[p].on /\ pending # <<>>
  /\ pusher' = [pusher EXCEPT ![p] = [on |-> TRUE, rows |-> ToSet(pending)]]
  /\ shown' = [t \in Topics |-> IF t \in ToSet(pending) /\ Row(t) # {}
                               THEN seen[CHOOSE i \in Row(t) : TRUE].n ELSE shown[t]]
  /\ UNCHANGED <<clean, online, broker, hands, seen, pending, missed, ops, messages>>

\* ... then the pending rows are dropped, all of them.
Clear(p) ==
  /\ pusher[p].on /\ pusher' = [pusher EXCEPT ![p] = Idle[p]]
  /\ pending' = <<>>
  /\ missed' = missed \cup {t \in ToSet(pending) :
                              \A i \in Row(t) : seen[i].n # shown[t]}
  /\ UNCHANGED <<clean, online, broker, hands, seen, shown, ops, messages>>

Next ==
  \/ \E t \in Topics : Attach(t) \/ Detach(t) \/ Message(t)
  \/ \E p \in Patterns : Listen(p) \/ Release(p)
  \/ SetSniffer \/ Connect \/ Disconnect
  \/ \E p \in Pushers : Frame(p) \/ Clear(p)

Spec == Init /\ [][Next]_vars

-----------------------------------------------------------------------------
TypeOK ==
  /\ {clean, online} \subseteq BOOLEAN
  /\ broker \in [session : BOOLEAN, subs : SUBSET Patterns]
  /\ listeners \subseteq Patterns /\ asked \subseteq Patterns /\ lost \subseteq Patterns
  /\ attached \subseteq Topics /\ applied \subseteq Topics
  /\ sniff \in Patterns \cup {Off} /\ active \in Patterns \cup {Off}
  /\ Len(seen) <= MaxSeen /\ Len(pending) <= MaxPending
  /\ \A i \in DOMAIN seen : seen[i] \in [topic : Topics, n : 1..MaxMessages]
  /\ ToSet(pending) \subseteq Topics /\ missed \subseteq Topics

\* While connected the broker delivers all that is wanted, but for a pattern one hand
\* dropped while another needed it, and one asked for while a kept session was away.
Served == online => Wanted(listeners, attached, sniff) \ lost \subseteq broker.subs

\* Attached topics stay subscribed whatever the sniffer and the services do.
AttachedStay == online => attached \subseteq broker.subs

\* A pending row is in the table once, and a row that is not pending has been shown with
\* its last count, unless it was given up.
RowsShown ==
  /\ \A t \in ToSet(pending) : Cardinality(Row(t)) = 1
  /\ \A i \in DOMAIN seen :
       seen[i].topic \in ToSet(pending) \cup missed \/ shown[seen[i].topic] = seen[i].n
=============================================================================
