------------------------------ MODULE MqttLink ------------------------------
(***************************************************************************)
(* The MQTT connection and the availability the device keeps at the        *)
(* broker: a retained "online" while it is there, a retained "offline"     *)
(* when it is not.  loop() (the loop task) makes and unmakes the           *)
(* connection, the settings handler and the Wi-Fi events (tasks of their   *)
(* own) ask it to, and the client's callbacks come on async_tcp.  The      *)
(* client library and the broker are external: the client's connect() does *)
(* nothing unless it is "off", its disconnect() sends DISCONNECT behind    *)
(* what is queued, or drops the connection at once when forced.            *)
(***************************************************************************)
EXTENDS Naturals, Sequences

CONSTANTS MaxGen, MaxRefused, MaxBlips  \* bounds: settings saved, publishes refused, Wi-Fi changes and drops

VARIABLES
  want,     \* the transport settings: [enabled, will, gen]
  snap,     \* _lastTransport: what the last connectMqtt applied
  wifi, event,   \* WiFi.isConnected(); its event is still to be handled
  client,   \* AsyncMqttClient: "off", "connecting", "on", "leaving"
  will,     \* _willActive
  waiting,  \* _offlineWaiting: "no", "yes", "late" (kOfflineAckMs are over)
  id, acked,     \* _offlineId is stored; _offlineAcked
  reconf,   \* _reconfigureMqtt
  backoff,  \* _disconnectedAt: "none", "running", "due"
  lp,       \* where the loop task is
  hello,    \* onMqttConnect has still to publish "online"
  net,      \* from the client to the broker
  acks,     \* a PUBACK of "offline" on its way back
  broker,   \* [session, will, kept]: a session is open, its will, the retained message
  refused, blips, \* bounded
  raced,    \* a request came while the loop task configured (history)
  slipped   \* DISCONNECT went on a connection with the will and no "offline" before it, or
            \* onMqttConnect was so late that its "online" came after the "offline" (history)

settings == <<want, snap>>
radio == <<wifi, event>>
ack == <<id, acked, acks>>
asked == <<reconf, backoff>>
vars == <<settings, radio, client, will, waiting, ack, asked, lp, hello, net, broker,
          refused, blips, raced, slipped>>

Fresh == [enabled |-> FALSE, will |-> FALSE, gen |-> 0]

Init ==
  /\ want = Fresh /\ snap = Fresh
  /\ wifi = FALSE /\ event = FALSE
  /\ client = "off" /\ will = FALSE
  /\ waiting = "no" /\ id = FALSE /\ acked = FALSE
  /\ reconf = FALSE /\ backoff = "none"
  /\ lp = "idle" /\ hello = FALSE
  /\ net = <<>> /\ acks = FALSE
  /\ broker = [session |-> FALSE, will |-> FALSE, kept |-> "none"]
  /\ refused = 0 /\ blips = 0 /\ raced = FALSE /\ slipped = FALSE

-----------------------------------------------------------------------------
(* The library and the broker. *)

\* A session that ends without DISCONNECT: its will is published.
Severed == [session |-> FALSE, will |-> FALSE,
            kept |-> IF broker.session /\ broker.will THEN "offline" ELSE broker.kept]

\* The connection is gone, and what was on it.
Gone == net' = <<>> /\ acks' = FALSE /\ broker' = Severed /\ hello' = FALSE

\* publish(): queued, or refused (no memory, or no connection).
Publish(m) ==
  \/ client = "on" /\ net' = Append(net, m) /\ UNCHANGED refused
  \/ /\ client # "on" \/ refused < MaxRefused
     /\ refused' = refused + (IF client = "on" THEN 1 ELSE 0) /\ UNCHANGED net

\* disconnect(force): DISCONNECT follows what is queued, or the connection is dropped at
\* once and onMqttDisconnect runs here, which starts the reconnect backoff.
Disconnect(force) ==
  \/ client = "off" /\ UNCHANGED <<client, net, acks, broker, hello, backoff>>
  \/ client # "off" /\ force /\ client' = "off" /\ Gone /\ backoff' = "running"
  \/ /\ client # "off" /\ ~force /\ client' = "leaving"
     /\ net' = IF client = "leaving" THEN net ELSE Append(net, "bye")
     /\ UNCHANGED <<acks, broker, hello, backoff>>

\* The broker accepts the connection; it knows the will from CONNECT.
Accept ==
  /\ client = "connecting" /\ wifi
  /\ client' = "on" /\ hello' = TRUE
  /\ broker' = [broker EXCEPT !.session = TRUE, !.will = snap.will]
  /\ UNCHANGED <<settings, radio, will, waiting, ack, asked, lp, net, refused, blips, raced, slipped>>

Receive ==
  /\ net # <<>> /\ wifi
  /\ \/ /\ Head(net) \in {"online", "offline"}
        /\ net' = Tail(net) /\ broker' = [broker EXCEPT !.kept = Head(net)]
        /\ acks' = (acks \/ Head(net) = "offline")
        /\ UNCHANGED <<client, hello, asked>>
     \/ /\ Head(net) = "bye"
        /\ broker' = [broker EXCEPT !.session = FALSE, !.will = FALSE]
        /\ client' = "off" /\ net' = <<>> /\ acks' = FALSE /\ hello' = FALSE
        /\ backoff' = "running" /\ UNCHANGED reconf     \* onMqttDisconnect
  /\ raced' = (raced \/ (Head(net) = "bye" /\ lp # "idle"))
  /\ UNCHANGED <<settings, radio, will, waiting, id, acked, lp, refused, blips, slipped>>

\* The connection drops, or is not made: onMqttDisconnect.
Drop ==
  /\ client # "off" /\ blips < MaxBlips /\ blips' = blips + 1
  /\ client' = "off" /\ Gone
  /\ backoff' = "running" /\ UNCHANGED reconf
  /\ raced' = (raced \/ lp # "idle")
  /\ UNCHANGED <<settings, radio, will, waiting, id, acked, lp, refused, slipped>>

-----------------------------------------------------------------------------
(* async_tcp. *)

\* onMqttConnect: "online" before whatever the listeners publish.
Greet ==
  /\ hello /\ hello' = FALSE
  /\ IF will THEN Publish("online") ELSE UNCHANGED <<net, refused>>
  /\ slipped' = (slipped \/ id \/ lp = "store")
  /\ UNCHANGED <<settings, radio, client, will, waiting, ack, asked, lp, broker, blips, raced>>

\* onPublish: only the id of our "offline" counts.
Acknowledge ==
  /\ acks /\ acks' = FALSE /\ acked' = (acked \/ id)
  /\ UNCHANGED <<settings, radio, client, will, waiting, id, asked, lp, hello, net, broker,
                 refused, blips, raced, slipped>>

-----------------------------------------------------------------------------
(* Those who ask: the settings, the Wi-Fi, the clock. *)

\* onConfigUpdated.
Ask == reconf' = TRUE /\ backoff' = "none" /\ raced' = (raced \/ lp # "idle")

\* The update handler: only what is in the transport is worth a new connection.
Save ==
  /\ want.gen < MaxGen
  /\ \E e, w \in BOOLEAN : want' = [enabled |-> e, will |-> w, gen |-> want.gen + 1]
  /\ IF want' # snap THEN Ask ELSE UNCHANGED <<asked, raced>>
  /\ UNCHANGED <<snap, radio, client, will, waiting, ack, lp, hello, net, broker, refused, blips, slipped>>

WifiChanges ==
  /\ ~event /\ blips < MaxBlips /\ blips' = blips + 1
  /\ wifi' = ~wifi /\ event' = TRUE
  /\ UNCHANGED <<settings, client, will, waiting, ack, asked, lp, hello, net, broker, refused, raced, slipped>>

WifiEvent ==
  /\ event /\ event' = FALSE
  /\ IF want.enabled THEN Ask ELSE UNCHANGED <<asked, raced>>
  /\ UNCHANGED <<settings, wifi, client, will, waiting, ack, lp, hello, net, broker, refused, blips, slipped>>

Clock ==
  /\ \/ waiting = "yes" /\ waiting' = "late" /\ UNCHANGED backoff
     \/ backoff = "running" /\ backoff' = "due" /\ UNCHANGED waiting
  /\ UNCHANGED <<settings, radio, client, will, ack, reconf, lp, hello, net, broker,
                 refused, blips, raced, slipped>>

-----------------------------------------------------------------------------
(* The loop task. *)

\* publishOffline, up to the store of the packet's id.  A stale ack is taken away first.
CanSayOffline == will /\ client = "on"
SayOffline ==
  /\ CanSayOffline /\ acked' = FALSE /\ Publish("offline")
  /\ lp' = IF net' # net THEN "store" ELSE "bye"

\* configureMqtt: a connection with the will goes offline in two steps.
Configure ==
  /\ lp = "idle" /\ waiting = "no" /\ (reconf \/ backoff = "due")
  /\ \/ SayOffline
     \/ ~CanSayOffline /\ lp' = "bye" /\ UNCHANGED <<acked, net, refused>>
  /\ UNCHANGED <<settings, radio, client, will, waiting, id, acks, asked, hello, broker, blips, raced, slipped>>

\* startGoingOffline has queued it: the id is known, the wait begins.
Store ==
  /\ lp = "store" /\ lp' = "clear" /\ id' = TRUE /\ waiting' = "yes"
  /\ UNCHANGED <<settings, radio, client, will, acked, acks, asked, hello, net, broker, refused, blips, raced, slipped>>

Bye ==
  /\ lp = "bye" /\ lp' = "connect"
  /\ Disconnect(FALSE) /\ slipped' = (slipped \/ CanSayOffline)
  /\ UNCHANGED <<settings, radio, will, waiting, id, acked, reconf, refused, blips, raced>>

\* finishGoingOffline: acked, a clean DISCONNECT; not acked, the connection is dropped
\* and the broker publishes the will.
Finish ==
  /\ lp = "idle" /\ (waiting = "late" \/ (waiting = "yes" /\ acked))
  /\ waiting' = "no" /\ id' = FALSE /\ will' = FALSE /\ lp' = "reconnect"
  /\ Disconnect(~acked)
  /\ UNCHANGED <<settings, radio, acked, reconf, refused, blips, raced, slipped>>

\* connectMqtt: the client takes the settings, the will among them; then the snapshot.
Connect ==
  /\ lp \in {"connect", "reconnect"}
  /\ lp' = IF lp = "connect" THEN "clear" ELSE "idle"
  /\ will' = (want.enabled /\ wifi /\ want.will)
  /\ client' = IF want.enabled /\ wifi /\ client = "off" THEN "connecting" ELSE client
  /\ snap' = want
  /\ UNCHANGED <<want, radio, waiting, ack, asked, hello, net, broker, refused, blips, raced, slipped>>

\* Fault: nothing is owed after the reconfiguration, whatever came in between.
Clear_Waiting ==
  /\ lp = "clear" /\ lp' = "idle"
  /\ reconf' = FALSE /\ backoff' = "none" /\ waiting' = "no"
  /\ UNCHANGED <<settings, radio, client, will, ack, hello, net, broker, refused, blips, raced, slipped>>
Clear ==
  /\ lp = "clear" /\ lp' = "idle"
  /\ reconf' = FALSE /\ backoff' = "none"
  /\ UNCHANGED <<settings, radio, client, will, waiting, ack, hello, net, broker, refused, blips, raced, slipped>>

-----------------------------------------------------------------------------
(* A restart: end() on the task that restarts, then the reset. *)

\* Fault: only the DISCONNECT.
End_Bare ==
  /\ lp = "idle" /\ Disconnect(FALSE) /\ lp' = "reset" /\ id' = FALSE
  /\ UNCHANGED <<settings, radio, will, waiting, acked, reconf, refused, blips, raced, slipped>>
End ==
  /\ lp = "idle"
  /\ \/ ~CanSayOffline /\ Disconnect(FALSE) /\ lp' = "reset" /\ UNCHANGED <<acked, refused>>
     \/ /\ CanSayOffline /\ acked' = FALSE /\ Publish("offline")
        /\ lp' = IF net' # net THEN "end" ELSE "reset"
        /\ UNCHANGED <<client, acks, broker, hello, backoff>>
     \/ CanSayOffline /\ lp' = "reset"      \* on async_tcp: the reset drops the connection
        /\ UNCHANGED <<client, net, acked, acks, broker, hello, backoff, refused>>
  /\ id' = (lp' = "end")
  /\ UNCHANGED <<settings, radio, will, waiting, reconf, blips, raced, slipped>>

\* The ack came, or kOfflineAckShutdownMs went by.
Ended ==
  /\ lp = "end" /\ lp' = "reset" /\ id' = FALSE /\ will' = FALSE
  /\ Disconnect(~acked)
  /\ UNCHANGED <<settings, radio, waiting, acked, reconf, refused, blips, raced, slipped>>

\* The reset, wanted or not: the connection drops; begin() configures when it is enabled,
\* and no Wi-Fi is there yet.
Reset ==
  /\ blips < MaxBlips /\ blips' = blips + 1
  /\ Gone /\ client' = "off" /\ will' = FALSE /\ waiting' = "no" /\ id' = FALSE /\ acked' = FALSE
  /\ reconf' = FALSE /\ backoff' = "none" /\ lp' = "idle" /\ raced' = FALSE
  /\ wifi' = FALSE /\ event' = FALSE
  /\ snap' = IF want.enabled THEN want ELSE Fresh
  /\ UNCHANGED <<want, refused, slipped>>

Loop == Configure \/ Store \/ Bye \/ Finish \/ Connect \/ Clear
Next ==
  \/ Accept \/ Receive \/ Drop \/ Greet \/ Acknowledge
  \/ Save \/ WifiChanges \/ WifiEvent \/ Clock
  \/ Loop \/ End \/ Ended \/ Reset

Spec == Init /\ [][Next]_vars

-----------------------------------------------------------------------------
TypeOK ==
  /\ want \in [enabled : BOOLEAN, will : BOOLEAN, gen : 0..MaxGen]
  /\ snap \in [enabled : BOOLEAN, will : BOOLEAN, gen : 0..MaxGen]
  /\ {wifi, event, will, id, acked, reconf, hello, acks, raced, slipped} \subseteq BOOLEAN
  /\ client \in {"off", "connecting", "on", "leaving"}
  /\ waiting \in {"no", "yes", "late"} /\ backoff \in {"none", "running", "due"}
  /\ lp \in {"idle", "store", "bye", "connect", "reconnect", "clear", "end", "reset"}
  /\ \A i \in DOMAIN net : net[i] \in {"online", "offline", "bye"}
  /\ broker \in [session : BOOLEAN, will : BOOLEAN, kept : {"none", "online", "offline"}]
  /\ refused \in 0..MaxRefused /\ blips \in 0..MaxBlips

\* The broker says "online" only of a device whose session takes it back when it ends.
NeverGhost == broker.kept = "online" => broker.session /\ broker.will

\* The same, but where configureMqtt sends DISCONNECT at once, because there was no
\* connection when it looked or because "offline" could not be queued, and where a late
\* "online" follows the "offline".
Honest == ~slipped => NeverGhost

\* With nothing asked of the loop task and nothing under way, the connection is what the
\* settings ask for: it is never left down with no backoff running, nor on old settings.
AsAsked ==
  (/\ lp = "idle" /\ waiting = "no" /\ ~reconf /\ ~event /\ backoff = "none"
   /\ client # "leaving" /\ ~raced) =>
    /\ want.enabled /\ wifi => client \in {"connecting", "on"} /\ snap = want
    /\ ~want.enabled => client = "off"
=============================================================================
