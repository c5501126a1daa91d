---------------------------- MODULE WifiStation ----------------------------
(* The station side of the Wi-Fi module (modules/wifi/src/WiFiSettingsService.cpp) *)
(* loop() applies a save and begins a connection every 30 s while there is none;  *)
(* the driver's events, on their own task, count misses and change the network;   *)
(* saves and scans come from the web server's task.                               *)
EXTENDS Naturals, FiniteSets

CONSTANTS
    SwapAfter,  \* WIFI_AP_SWAP_AFTER_FAILS
    MaxSaves,   \* saves (bound)
    MaxScans,   \* scans (bound)
    MaxMoves    \* networks that come or go, links that drop (bound)

VARIABLES
    cfg,        \* the two slots and the version of the settings
    disk,       \* the version saved
    pend,       \* _pendingReconfigure, _pendingSave
    active,     \* _activeAp
    misses,     \* _apAttempts
    radio,      \* the driver: state, slot and version it was begun with
    event,      \* a DISCONNECTED event not delivered yet
    scan,       \* the driver's scan, _scanInProgress, its 30 s over
    due,        \* the next 30 s cycle (or _lastConnectionAttempt = 0)
    loop,       \* where loop() is, and the credentials it took
    range,      \* slots whose network is there
    saves, scans, moves

vars == <<cfg, disk, pend, active, misses, radio, event, scan, due, loop, range,
          saves, scans, moves>>
bounds == <<saves, scans, moves>>

Slots == {1, 2}
Other(s) == 3 - s
\* no SSID; a passphrase the driver would refuse; one it takes
Contents == {"none", "bad", "good"}
Down == [st |-> "down", slot |-> 0, ver |-> 0]

Set(c) == {s \in Slots : c[s] # "none"}
\* staSlotUsable
Usable(c) == {s \in Slots : c[s] = "good"}
\* the first slot, unless only the second has a network
Preferred(c) == IF Set(c) = {2} THEN 2 ELSE 1

Init ==
    /\ cfg \in [c : [Slots -> Contents], ver : {1}]
    /\ disk = 1
    /\ pend = [reconf |-> FALSE, save |-> FALSE]
    /\ active = Preferred(cfg.c) /\ misses = 0
    /\ radio = Down /\ event = FALSE
    /\ scan = [radio |-> "idle", guard |-> FALSE, over |-> FALSE]
    /\ due = TRUE /\ loop = [at |-> "reconf"]
    /\ range \in SUBSET Slots
    /\ saves = 0 /\ scans = 0 /\ moves = 0

-----------------------------------------------------------------------------
(* The web server's task, the networks, time                                  *)

\* update(): what the driver would refuse is not taken
Save ==
    /\ saves < MaxSaves /\ saves' = saves + 1
    /\ \E c \in [Slots -> Contents \ {"bad"}] :
          c # cfg.c /\ cfg' = [c |-> c, ver |-> cfg.ver + 1]
    /\ pend' = [reconf |-> TRUE, save |-> TRUE]
    /\ UNCHANGED <<disk, active, misses, radio, event, scan, due, loop, range, scans, moves>>

\* kickScan: a scan that runs is left alone
KickScan ==
    /\ scans < MaxScans /\ scans' = scans + 1
    /\ scan' = [radio |-> "running", guard |-> TRUE, over |-> FALSE]
    /\ UNCHANGED <<cfg, disk, pend, active, misses, radio, event, due, loop, range,
                   saves, moves>>

ScanEnds ==
    /\ scan.radio = "running"
    /\ \E r \in {"done", "failed"} : scan' = [scan EXCEPT !.radio = r]
    /\ UNCHANGED <<cfg, disk, pend, active, misses, radio, event, due, loop, range, bounds>>

ScanOver ==
    /\ scan.guard /\ ~scan.over
    /\ scan' = [scan EXCEPT !.over = TRUE]
    /\ UNCHANGED <<cfg, disk, pend, active, misses, radio, event, due, loop, range, bounds>>

Period ==
    /\ ~due /\ due' = TRUE
    /\ UNCHANGED <<cfg, disk, pend, active, misses, radio, event, scan, loop, range, bounds>>

Move ==
    /\ moves < MaxMoves /\ moves' = moves + 1
    /\ range' \in SUBSET Slots /\ range' # range
    /\ UNCHANGED <<cfg, disk, pend, active, misses, radio, event, scan, due, loop, saves, scans>>

-----------------------------------------------------------------------------
(* The driver and its events                                                  *)

\* onStationModeConnected
Connected ==
    /\ radio.st = "trying" /\ radio.slot \in range
    /\ radio' = [radio EXCEPT !.st = "up"] /\ misses' = 0
    /\ UNCHANGED <<cfg, disk, pend, active, event, scan, due, loop, range, bounds>>

\* no such network, or the link is lost
Lost ==
    /\ radio.st # "down" /\ radio.slot \notin range
    /\ radio' = Down /\ event' = TRUE
    /\ UNCHANGED <<cfg, disk, pend, active, misses, scan, due, loop, range, bounds>>

\* Mutant of Swap: the other slot only counts while it is the second.
Swap_Once == IF active = 1 /\ Set(cfg.c) = Slots THEN 2 ELSE active
\* any network configured, usable or not
Swap == IF Set(cfg.c) = Slots THEN Other(active) ELSE active

\* Mutant of SwapsNow: one miss more.
SwapsNow_Late == misses >= SwapAfter
SwapsNow == misses + 1 >= SwapAfter

\* onStationModeDisconnected
Disconnected ==
    /\ event /\ event' = FALSE
    /\ IF SwapsNow THEN misses' = 0 /\ active' = Swap
                   ELSE misses' = misses + 1 /\ UNCHANGED active
    /\ radio' = Down
    /\ UNCHANGED <<cfg, disk, pend, scan, due, loop, range, bounds>>

-----------------------------------------------------------------------------
(* loop()                                                                     *)

\* Mutant of ScanHeld: a scan that failed never lets go.
ScanHeld_Forever == scan.guard
\* isScanInProgress
ScanHeld == scan.guard /\ ~scan.over

At(at) == loop.at = at
Go(at) == loop' = [at |-> at]

LoopTake ==
    /\ At("reconf")
    /\ Go(IF pend.reconf THEN "apply" ELSE "save")
    /\ pend' = [pend EXCEPT !.reconf = FALSE]
    /\ UNCHANGED <<cfg, disk, active, misses, radio, event, scan, due, range, bounds>>

\* Mutant of Reconfigure: a request that meets a scan is forgotten.
Reconfigure_Dropped ==
    /\ At("apply") /\ Go("save")
    /\ IF ScanHeld THEN UNCHANGED <<active, misses, radio, event, due>>
       ELSE /\ active' = Preferred(cfg.c) /\ misses' = 0 /\ due' = TRUE
            /\ event' = (event \/ radio.st # "down") /\ radio' = Down
    /\ UNCHANGED <<cfg, disk, pend, scan, range, bounds>>

\* reconfigureWiFiConnection: put off while a scan runs
Reconfigure ==
    /\ At("apply") /\ Go("save")
    /\ IF ScanHeld
       THEN pend' = [pend EXCEPT !.reconf = TRUE]
            /\ UNCHANGED <<active, misses, radio, event, due>>
       ELSE /\ active' = Preferred(cfg.c) /\ misses' = 0 /\ due' = TRUE
            /\ event' = (event \/ radio.st # "down") /\ radio' = Down
            /\ UNCHANGED pend
    /\ UNCHANGED <<cfg, disk, scan, range, bounds>>

LoopSave ==
    /\ At("save") /\ Go("manage")
    /\ IF pend.save THEN pend' = [pend EXCEPT !.save = FALSE] /\ disk' = cfg.ver
                    ELSE UNCHANGED <<pend, disk>>
    /\ UNCHANGED <<cfg, active, misses, radio, event, scan, due, range, bounds>>

\* pickActiveCreds
Picked == IF active \in Usable(cfg.c) THEN active ELSE Other(active)
\* connected, a scan, no usable network: the next cycle
Skips == radio.st = "up" \/ ScanHeld \/ Usable(cfg.c) = {}

Manage ==
    /\ At("manage")
    /\ due' = FALSE
    /\ IF ~due \/ Skips THEN Go("scan") /\ UNCHANGED active
       ELSE /\ active' = Picked
            /\ IF radio.st = "trying" THEN Go("scan")   \* WL_IDLE_STATUS: picked, not begun
               ELSE loop' = [at |-> "begin", slot |-> Picked, ver |-> cfg.ver]
    /\ UNCHANGED <<cfg, disk, pend, misses, radio, event, scan, range, bounds>>

\* WiFi.begin with the credentials copied before
Begin ==
    /\ At("begin") /\ Go("scan")
    /\ radio' = [st |-> "trying", slot |-> loop.slot, ver |-> loop.ver]
    /\ UNCHANGED <<cfg, disk, pend, active, misses, event, scan, due, range, bounds>>

LoopScan ==
    /\ At("scan") /\ Go("reconf")
    /\ scan' = IF scan.guard /\ scan.radio = "done" THEN [scan EXCEPT !.guard = FALSE] ELSE scan
    /\ UNCHANGED <<cfg, disk, pend, active, misses, radio, event, due, range, bounds>>

Loop == LoopTake \/ Reconfigure \/ LoopSave \/ Manage \/ Begin \/ LoopScan
Driver == Connected \/ Lost \/ Disconnected
Next ==
    \/ Save \/ KickScan \/ ScanEnds \/ ScanOver \/ Period \/ Move
    \/ Connected \/ Lost \/ Disconnected
    \/ LoopTake \/ Reconfigure \/ LoopSave \/ Manage \/ Begin \/ LoopScan

Spec == Init /\ [][Next]_vars
-----------------------------------------------------------------------------
TypeOK ==
    /\ cfg.ver \in 1..(MaxSaves + 1) /\ disk \in 1..(MaxSaves + 1)
    /\ active \in Slots /\ misses \in 0..(SwapAfter - 1)
    /\ radio.st \in {"down", "trying", "up"} /\ radio.slot \in 0..2
    /\ scan.radio \in {"idle", "running", "done", "failed"}

\* A save is applied and written, whatever runs meanwhile: the radio is not left on
\* the credentials before it, and the file is not left behind, once no request
\* waits (_pendingReconfigure, _pendingSave: WiFiSettingsService.cpp:415-420, 532-541).
SaveApplied ==
    /\ radio.st # "down" /\ radio.ver # cfg.ver => pend.reconf \/ At("apply")
    /\ disk # cfg.ver => pend.save

\* With a usable network there, the device gets onto it: failover, a scan that
\* failed and saves in between do not leave it without one
\* (WiFiSettingsService.cpp:543-563, 606-649, 707-732).
Reachable == Usable(cfg.c) \cap range # {}
=============================================================================
