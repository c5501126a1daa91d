------------------------------- MODULE Tunnel ------------------------------
(* The tunnel to the mothership (modules/wireguard): its key pair, made at the    *)
(* first boot and kept encrypted; the triplet the server sends with openTunnel;   *)
(* the vendor library up() and down() drive on the mothership's task; and loop(), *)
(* which copies the library's state into what the page and the check-in report.   *)
EXTENDS Naturals

CONSTANTS
    Trips,      \* triplets the server sends (server key, endpoint, address)
    Bad,        \* the ones of them whose endpoint or address cannot be parsed
    None,       \* no triplet
    MaxOps,     \* openTunnel and closeTunnel actions (bound)
    MaxBoots,   \* restarts (bound)
    MaxLost     \* boots at which the private key cannot be decrypted (bound)

VARIABLES
    key,        \* priv_key, pub_key: the pair's number, 0 none
    trip,       \* server_pub_key, endpoint, assigned_ip
    file,       \* /config/wireguard.json
    isUp,       \* state.is_up
    lib,        \* g_wg: initialized, the key and the triplet it has
    ship,       \* the mothership's task
    loop,       \* the loop
    failed,     \* no pair could be made at this boot
    made,       \* pairs made so far
    worked,     \* an openTunnel has succeeded
    fresh,      \* a triplet was sent since the last closeTunnel
    ops, boots, lost

vars == <<key, trip, file, isUp, lib, ship, loop, failed, made, worked, fresh, ops, boots, lost>>
bounds == <<made, ops, boots, lost>>

Idle == [at |-> "idle"]
Down == [up |-> FALSE, key |-> 0, trip |-> None]
Fresh == [priv |-> 0, pub |-> 0]

Init ==
    /\ key = Fresh /\ trip = None /\ file = [priv |-> 0, pub |-> 0, trip |-> None]
    /\ isUp = FALSE /\ lib = Down
    /\ ship = [at |-> "boot"] /\ loop = Idle
    /\ failed = FALSE /\ made = 0 /\ worked = FALSE /\ fresh = FALSE /\ ops = 0 /\ boots = 0 /\ lost = 0

-----------------------------------------------------------------------------
(* Boot.                                                                          *)

\* update() takes a private key that is not empty, the rest as it is
Loaded(f, readable) ==
    /\ key' = [priv |-> IF readable THEN f.priv ELSE 0, pub |-> f.pub]
    /\ trip' = f.trip

\* ensureLoaded()
Load ==
    /\ ship.at = "boot" /\ ship' = [at |-> "key"]
    /\ \/ Loaded(file, TRUE) /\ UNCHANGED lost
       \/ /\ file.priv # 0 /\ lost < MaxLost /\ lost' = lost + 1
          /\ Loaded(file, FALSE)
    /\ UNCHANGED <<file, isUp, lib, loop, failed, made, worked, fresh, ops, boots>>

\* Mutant of Pair: half of the pair is enough.
Pair_Half == key.priv # 0 \/ key.pub # 0

Pair == key.priv # 0 /\ key.pub # 0

\* ensureKeypair(); what it makes is saved by the update handler
EnsureKeypair ==
    /\ ship.at = "key" /\ ship' = Idle
    /\ IF Pair
       THEN UNCHANGED <<key, file, made>>
       ELSE /\ made' = made + 1
            /\ key' = [priv |-> made', pub |-> made']
            /\ file' = [file EXCEPT !.priv = made', !.pub = made']
    /\ UNCHANGED <<trip, isUp, lib, loop, failed, worked, fresh, ops, boots, lost>>

\* generateKeypair() fails: no tunnel until the next boot
KeyFails ==
    /\ ship.at = "key" /\ ~Pair /\ ship' = Idle /\ failed' = TRUE
    /\ UNCHANGED <<key, trip, file, isUp, lib, loop, worked, fresh>> /\ UNCHANGED bounds

Reboot ==
    /\ boots < MaxBoots /\ boots' = boots + 1
    /\ ship' = [at |-> "boot"] /\ loop' = Idle
    /\ isUp' = FALSE /\ lib' = Down /\ key' = Fresh /\ trip' = None /\ failed' = FALSE
    /\ UNCHANGED <<file, made, worked, fresh, ops, lost>>

-----------------------------------------------------------------------------
(* openTunnel, on the mothership's task.                                          *)

\* the triplet sent, or the one of the last time; kept before anything is tried
Open(p) ==
    /\ ship = Idle /\ ops < MaxOps /\ ops' = ops + 1
    /\ fresh' = (fresh \/ p # None)
    /\ LET t == IF p = None THEN trip ELSE p
       IN  IF key.priv = 0 \/ t = None
           THEN UNCHANGED <<trip, file, ship>>
           ELSE /\ trip' = t /\ file' = [file EXCEPT !.trip = t]
                /\ ship' = [at |-> "dial"]
    /\ UNCHANGED <<key, isUp, lib, loop, failed, made, worked, boots, lost>>

\* one that is up is taken down first
Dial ==
    /\ ship.at = "dial"
    /\ IF trip \in Bad
       THEN ship' = Idle /\ UNCHANGED lib
       ELSE ship' = [at |-> "begin"] /\ lib' = Down
    /\ UNCHANGED <<key, trip, file, isUp, loop, failed, worked, fresh>> /\ UNCHANGED bounds

\* begin(): initialized from here on
Begin ==
    /\ ship.at = "begin"
    /\ \/ ship' = [at |-> "peer"] /\ lib' = [up |-> TRUE, key |-> key.priv, trip |-> None]
       \/ ship' = Idle /\ UNCHANGED lib
    /\ UNCHANGED <<key, trip, file, isUp, loop, failed, worked, fresh>> /\ UNCHANGED bounds

\* addPeer(); without it the library is ended again
AddPeer ==
    /\ ship.at = "peer"
    /\ \/ ship' = [at |-> "opened"] /\ lib' = [lib EXCEPT !.trip = trip]
       \/ ship' = Idle /\ lib' = Down
    /\ UNCHANGED <<key, trip, file, isUp, loop, failed, worked, fresh>> /\ UNCHANGED bounds

Opened ==
    /\ ship.at = "opened" /\ ship' = Idle
    /\ isUp' = TRUE /\ worked' = TRUE
    /\ UNCHANGED <<key, trip, file, lib, loop, failed, fresh>> /\ UNCHANGED bounds

\* closeTunnel: the triplet stays
Close ==
    /\ ship = Idle /\ ops < MaxOps /\ ops' = ops + 1
    /\ lib' = Down /\ ship' = [at |-> "closed"] /\ fresh' = FALSE
    /\ UNCHANGED <<key, trip, file, isUp, loop, failed, made, worked, boots, lost>>

Closed ==
    /\ ship.at = "closed" /\ ship' = Idle /\ isUp' = FALSE
    /\ UNCHANGED <<key, trip, file, lib, loop, failed, worked, fresh>> /\ UNCHANGED bounds

-----------------------------------------------------------------------------
(* loop(): the library's state is read, the report is updated after.              *)

\* Mutant of Differs: only a tunnel that went down is reported.
Differs_Down == isUp /\ ~lib.up

Differs == lib.up # isUp

Look ==
    /\ ship.at \notin {"boot", "key"} /\ loop = Idle /\ Differs
    /\ loop' = [at |-> "flip", up |-> lib.up]
    /\ UNCHANGED <<key, trip, file, isUp, lib, ship, failed, worked, fresh>> /\ UNCHANGED bounds

Flip ==
    /\ loop.at = "flip" /\ loop' = Idle /\ isUp' = loop.up
    /\ UNCHANGED <<key, trip, file, lib, ship, failed, worked, fresh>> /\ UNCHANGED bounds

-----------------------------------------------------------------------------

Loop == Look \/ Flip

Next ==
    \/ Load \/ EnsureKeypair \/ KeyFails \/ Reboot
    \/ \E p \in Trips \union {None} : Open(p)
    \/ Dial \/ Begin \/ AddPeer \/ Opened \/ Close \/ Closed
    \/ Look \/ Flip

Spec == Init /\ [][Next]_vars

-----------------------------------------------------------------------------

TypeOK ==
    /\ key \in [priv : Nat, pub : Nat] /\ trip \in Trips \union {None}
    /\ file \in [priv : Nat, pub : Nat, trip : Trips \union {None}]
    /\ isUp \in BOOLEAN /\ failed \in BOOLEAN /\ lib \in [up : BOOLEAN, key : Nat, trip : Trips \union {None}]
    /\ ship.at \in {"boot", "key", "idle", "dial", "begin", "peer", "opened", "closed"}
    /\ loop.at \in {"idle", "flip"}

\* The public key the check-in reports is that of the private key the library works with
\* and that the file holds, across boots, also after one at which the private key was lost
\* (unless no new pair could be made).
KeyWhole ==
    /\ lib.up => lib.key = key.pub
    /\ ship.at \notin {"boot", "key"} /\ ~failed =>
          key.priv # 0 /\ key.pub = key.priv /\ file.priv = key.priv
    /\ file.priv = file.pub

\* What is reported of the tunnel never stays wrong: whatever up(), down() and loop()
\* overtake, the report and the library agree again.
Disagree == isUp # lib.up

\* A triplet the device reports as known once worked (IWireguardProvider.h: "False until
\* the first successful enrollment+openTunnel cycle").
TripletWorked == trip # None => worked \/ ship # Idle

\* down() forgets the triplet (WireguardService.h: "next up() requires a fresh openTunnel").
FreshDialled == ship.at = "dial" => fresh
=============================================================================
