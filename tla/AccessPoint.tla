---------------------------- MODULE AccessPoint ----------------------------
(* The access point (modules/ap/src/APSettingsService.cpp): the way in to a       *)
(* device whose own network is gone. loop() starts and stops it, at a save and    *)
(* every 10 s, from the station's state and the stations that are on it.          *)
EXTENDS Naturals

CONSTANTS
    MaxSaves,   \* saves (bound)
    MaxMoves    \* times the station's link changes (bound)

VARIABLES
    mode,       \* provisionMode
    ver,        \* of the settings
    ap,         \* on, the version it was started with, stations on it
    dns,        \* _dnsServer: 0, or the version whose address it answers with
    asked,      \* _reconfigureAp
    due,        \* 10 s since the last time
    linked,     \* the station is connected
    loop,       \* where manageAP() is
    saves, moves

vars == <<mode, ver, ap, dns, asked, due, linked, loop, saves, moves>>

Modes == {"always", "disconnected", "never"}
Off == [on |-> FALSE, ver |-> 0, guests |-> FALSE]
Idle == [at |-> "idle"]

Init ==
    /\ mode \in Modes /\ ver = 1
    /\ ap = Off /\ dns = 0 /\ asked = TRUE /\ due = TRUE
    /\ linked \in BOOLEAN /\ loop = Idle
    /\ saves = 0 /\ moves = 0

Save ==
    /\ saves < MaxSaves /\ saves' = saves + 1
    /\ mode' \in Modes /\ ver' = ver + 1
    /\ asked' = TRUE /\ due' = TRUE
    /\ UNCHANGED <<ap, dns, linked, loop, moves>>

Link ==
    /\ moves < MaxMoves /\ moves' = moves + 1
    /\ linked' = ~linked
    /\ UNCHANGED <<mode, ver, ap, dns, asked, due, loop, saves>>

Guest ==
    /\ ap.on /\ ap' = [ap EXCEPT !.guests = ~@]
    /\ UNCHANGED <<mode, ver, dns, asked, due, linked, loop, saves, moves>>

Period ==
    /\ ~due /\ due' = TRUE
    /\ UNCHANGED <<mode, ver, ap, dns, asked, linked, loop, saves, moves>>

\* the request is taken before the work
Take ==
    /\ loop = Idle /\ (due \/ asked)
    /\ due' = FALSE /\ asked' = FALSE
    /\ loop' = [at |-> "manage", asked |-> asked]
    /\ UNCHANGED <<mode, ver, ap, dns, linked, saves, moves>>

\* the mode and the link are read one after another
Wanted ==
    /\ loop.at = "manage"
    /\ loop' = [loop EXCEPT !.at = IF mode = "always" \/ (mode = "disconnected" /\ ~linked)
                                   THEN "start" ELSE "stop"]
    /\ UNCHANGED <<mode, ver, ap, dns, asked, due, linked, saves, moves>>

\* Mutant of Start: only a save starts it.
Start_Asked ==
    /\ loop.at = "start" /\ loop' = [loop EXCEPT !.at = "done"]
    /\ IF loop.asked
       THEN /\ ap' = [on |-> TRUE, ver |-> ver, guests |-> FALSE]
            /\ dns' = IF dns = 0 THEN ver ELSE dns
       ELSE UNCHANGED <<ap, dns>>
    /\ UNCHANGED <<mode, ver, asked, due, linked, saves, moves>>

\* startAP: one that is on stays as it is, unless a save asked for it; the captive
\* portal's DNS is started once
Start ==
    /\ loop.at = "start" /\ loop' = [loop EXCEPT !.at = "done"]
    /\ IF loop.asked \/ ~ap.on
       THEN /\ ap' = [on |-> TRUE, ver |-> ver, guests |-> FALSE]
            /\ dns' = IF dns = 0 THEN ver ELSE dns
       ELSE UNCHANGED <<ap, dns>>
    /\ UNCHANGED <<mode, ver, asked, due, linked, saves, moves>>

\* stopAP: never under its guests, unless a save asked for it
Stop ==
    /\ loop.at = "stop" /\ loop' = [loop EXCEPT !.at = "done"]
    /\ IF ap.on /\ (loop.asked \/ ~ap.guests)
       THEN ap' = Off /\ dns' = 0
       ELSE UNCHANGED <<ap, dns>>
    /\ UNCHANGED <<mode, ver, asked, due, linked, saves, moves>>

\* Mutant of Done: the request is cleared once it was served.
Done_Clears ==
    /\ loop.at = "done" /\ loop' = Idle
    /\ asked' = FALSE
    /\ UNCHANGED <<mode, ver, ap, dns, due, linked, saves, moves>>

\* handleDNS, the next pass
Done ==
    /\ loop.at = "done" /\ loop' = Idle
    /\ UNCHANGED <<mode, ver, ap, dns, asked, due, linked, saves, moves>>

Loop == Take \/ Wanted \/ Start \/ Stop \/ Done
Next == Save \/ Link \/ Guest \/ Period \/ Take \/ Wanted \/ Start \/ Stop \/ Done

Spec == Init /\ [][Next]_vars
-----------------------------------------------------------------------------
TypeOK ==
    /\ mode \in Modes /\ ver \in 1..(MaxSaves + 1) /\ dns \in 0..(MaxSaves + 1)
    /\ ap.on \in BOOLEAN /\ (dns # 0) = ap.on
    /\ loop.at \in {"idle", "manage", "start", "stop", "done"}

\* A save is never lost: an access point that is on was started with the settings
\* as they are, or a request waits or is being served (_reconfigureAp: "a request
\* set meanwhile stays for the next pass", APSettingsService.cpp:216-222).
SaveApplied ==
    ap.on /\ ap.ver # ver
    => asked \/ (loop.at \in {"manage", "start", "stop"} /\ loop.asked)

\* The rescue path: a device without its network gets its access point
\* (APSettingsService.cpp:223-228, 239-246).
Stranded == mode # "never" /\ ~linked

\* The captive portal sends its guests to the address of the access point they are
\* on (APSettingsService.cpp:258-264).
PortalHere == ap.on /\ loop = Idle /\ ~asked => dns = ap.ver
=============================================================================
