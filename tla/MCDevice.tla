------------------------------- MODULE MCDevice -------------------------------
(***************************************************************************)
(* What the device is made of and where it is: the hardware claims, the     *)
(* card, the secrets, the order of the modules, the loop, the clock and     *)
(* the ways onto a network.  One of them is at work in a behaviour, the     *)
(* initial state says which; the variables of the others are "-".           *)
(***************************************************************************)
EXTENDS Naturals

CONSTANT Nil

VARIABLES
  part,   \* the component at work
  cfg, shown, pending, driven, state, claims, job, pass, loose, missed, mounted,
  watcher, owed, format, said, onCard, cancel, tasks, tails, stream, filling,
  started, boot, phase, primary, snapshot, dump, ram, saved, deferred, asked,
  cleared, unfit, ops, boots, mods, degree, ready, order, done, installed,
  security, given, sem, loop, wait, timer, task, st, dog, age, t, off, arb, slot,
  told, ever, hold, burst, resets, disk, pend, active, misses, radio, event, scan,
  due, range, saves, scans, moves, mode, ver, ap, dns, linked, key, trip, file,
  isUp, lib, ship, failed, made, worked, fresh, lost

HwClaims == INSTANCE HwClaims WITH
  MaxMiss <- 1
SdVolume == INSTANCE SdVolume WITH
  Tries <- 2, Entries <- 1, MaxJobs <- 2, MaxFormats <- 2
SecretLife == INSTANCE SecretLife WITH
  Fields <- {"s", "p"}, Secret <- {"s"}, Values <- {"x"}, Chips <- {"c1", "c2"},
  None <- Nil, MaxOps <- 3, MaxBoots <- 3
InstallOrder == INSTANCE InstallOrder WITH
  Ids <- {1, 2, 3}, Prio <- <<1, 0, 0>>, Provider <- 2, MaxModules <- 3, MaxReqs <- 2, MaxOdd <- 1
LoopTurn == INSTANCE LoopTurn WITH
  Tasks <- {"t1", "t2"}, Period <- 3, MaxWait <- 2, Timeout <- 5, MaxPauses <- 2
TimeSync == INSTANCE TimeSync WITH
  Sources <- {"ntp", "gps", "man"},
  Fresh <- [ntp |-> 2, gps |-> 1, rtc |-> 4, man |-> 0],
  StepMin <- [ntp |-> 0, gps |-> 2, rtc |-> 3, man |-> 2],
  Acc <- [ntp |-> 0, gps |-> 1, rtc |-> 2, man |-> 3],
  MaxUnc <- 6, StaleAfter <- 2, BigJump <- 20, Confirm <- 2, Spread <- 1, CrossCheck <- 3,
  SampleAge <- 1, HoldAge <- 4, Wild <- 40, Burst <- 2, MaxT <- 3, Rate <- 40, MaxResets <- 1
WifiStation == INSTANCE WifiStation WITH
  SwapAfter <- 2, MaxSaves <- 2, MaxScans <- 1, MaxMoves <- 1
AccessPoint == INSTANCE AccessPoint WITH
  MaxSaves <- 2, MaxMoves <- 2
Tunnel == INSTANCE Tunnel WITH
  Trips <- {"a", "b", "x"}, Bad <- {"x"}, None <- "none", MaxOps <- 3, MaxBoots <- 2,
  MaxLost <- 1

\* What is not of a component.
NotHwClaims == <<mounted, watcher, owed, format, said, onCard, cancel, tasks,
                 tails, stream, filling, started, boot, phase, primary, snapshot,
                 dump, ram, saved, deferred, asked, cleared, unfit, ops, boots,
                 mods, degree, ready, order, done, installed, security, given,
                 sem, loop, wait, timer, task, st, dog, age, t, off, arb, slot,
                 told, ever, hold, burst, resets, disk, pend, active, misses,
                 radio, event, scan, due, range, saves, scans, moves, mode, ver,
                 ap, dns, linked, key, trip, file, isUp, lib, ship, failed, made,
                 worked, fresh, lost>>
NotSdVolume == <<cfg, shown, pending, driven, claims, job, pass, loose, missed,
                 boot, phase, primary, snapshot, dump, ram, saved, deferred,
                 asked, cleared, unfit, ops, boots, mods, degree, ready, order,
                 done, installed, security, given, sem, loop, wait, timer, task,
                 st, dog, age, t, off, arb, slot, told, ever, hold, burst, resets,
                 disk, pend, active, misses, radio, event, scan, due, range,
                 saves, scans, moves, mode, ver, ap, dns, linked, key, trip, file,
                 isUp, lib, ship, failed, made, worked, fresh, lost>>
NotSecretLife == <<cfg, shown, pending, driven, state, claims, job, pass, loose,
                   missed, mounted, watcher, owed, format, said, onCard, cancel,
                   tasks, tails, stream, filling, started, mods, degree, ready,
                   order, done, installed, security, given, sem, loop, wait,
                   timer, task, st, dog, age, t, off, arb, slot, told, ever, hold,
                   burst, resets, disk, pend, active, misses, radio, event, scan,
                   due, range, saves, scans, moves, mode, ver, ap, dns, linked,
                   key, trip, file, isUp, lib, ship, failed, made, worked, fresh,
                   lost>>
NotInstallOrder == <<cfg, shown, pending, driven, state, claims, job, pass, loose,
                     missed, mounted, watcher, owed, format, said, onCard, cancel,
                     tasks, tails, stream, filling, started, boot, primary,
                     snapshot, dump, ram, saved, deferred, asked, cleared, unfit,
                     ops, boots, sem, loop, wait, timer, task, st, dog, age, t,
                     off, arb, slot, told, ever, hold, burst, resets, disk, pend,
                     active, misses, radio, event, scan, due, range, saves, scans,
                     moves, mode, ver, ap, dns, linked, key, trip, file, isUp,
                     lib, ship, failed, made, worked, fresh, lost>>
NotLoopTurn == <<cfg, shown, pending, driven, state, claims, job, pass, loose,
                 missed, mounted, watcher, owed, format, said, onCard, cancel,
                 tasks, tails, stream, filling, started, boot, phase, primary,
                 snapshot, dump, ram, saved, deferred, cleared, unfit, ops, boots,
                 mods, degree, ready, order, done, installed, security, given, t,
                 off, arb, slot, told, ever, hold, burst, resets, disk, pend,
                 active, misses, radio, event, scan, due, range, saves, scans,
                 moves, mode, ver, ap, dns, linked, key, trip, file, isUp, lib,
                 ship, failed, made, worked, fresh, lost>>
NotTimeSync == <<cfg, shown, pending, driven, state, claims, job, pass, loose,
                 missed, mounted, watcher, owed, format, said, onCard, cancel,
                 tasks, tails, stream, filling, started, boot, phase, primary,
                 snapshot, dump, ram, saved, deferred, asked, cleared, unfit, ops,
                 boots, mods, degree, ready, order, done, installed, security,
                 given, sem, loop, wait, timer, task, st, dog, age, disk, pend,
                 active, misses, radio, event, scan, due, range, saves, scans,
                 moves, mode, ver, ap, dns, linked, key, trip, file, isUp, lib,
                 ship, failed, made, worked, fresh, lost>>
NotWifiStation == <<shown, pending, driven, state, claims, job, pass, loose,
                    missed, mounted, watcher, owed, format, said, onCard, cancel,
                    tasks, tails, stream, filling, started, boot, phase, primary,
                    snapshot, dump, ram, saved, deferred, asked, cleared, unfit,
                    ops, boots, mods, degree, ready, order, done, installed,
                    security, given, sem, wait, timer, task, st, dog, age, t, off,
                    arb, slot, told, ever, hold, burst, resets, mode, ver, ap,
                    dns, linked, key, trip, file, isUp, lib, ship, failed, made,
                    worked, fresh, lost>>
NotAccessPoint == <<cfg, shown, pending, driven, state, claims, job, pass, loose,
                    missed, mounted, watcher, owed, format, said, onCard, cancel,
                    tasks, tails, stream, filling, started, boot, phase, primary,
                    snapshot, dump, ram, saved, deferred, cleared, unfit, ops,
                    boots, mods, degree, ready, order, done, installed, security,
                    given, sem, wait, timer, task, st, dog, age, t, off, arb,
                    slot, told, ever, hold, burst, resets, disk, pend, active,
                    misses, radio, event, scan, range, scans, key, trip, file,
                    isUp, lib, ship, failed, made, worked, fresh, lost>>
NotTunnel == <<cfg, shown, pending, driven, state, claims, job, pass, loose,
               missed, mounted, watcher, owed, format, said, onCard, cancel,
               tasks, tails, stream, filling, started, boot, phase, primary,
               snapshot, dump, ram, saved, deferred, asked, cleared, unfit, mods,
               degree, ready, order, done, installed, security, given, sem, wait,
               timer, task, st, dog, age, t, off, arb, slot, told, ever, hold,
               burst, resets, disk, pend, active, misses, radio, event, scan, due,
               range, saves, scans, moves, mode, ver, ap, dns, linked>>

Init ==
  /\ part \in {"HwClaims", "SdVolume", "SecretLife", "InstallOrder", "LoopTurn",
               "TimeSync", "WifiStation", "AccessPoint", "Tunnel"}
  /\ part = "HwClaims" => HwClaims!Init
  /\ part = "SdVolume" => SdVolume!Init
  /\ part = "SecretLife" => SecretLife!Init
  /\ part = "InstallOrder" => InstallOrder!Init
  /\ part = "LoopTurn" => LoopTurn!Init
  /\ part = "TimeSync" => TimeSync!Init
  /\ part = "WifiStation" => WifiStation!Init
  /\ part = "AccessPoint" => AccessPoint!Init
  /\ part = "Tunnel" => Tunnel!Init
  /\ part \notin {"HwClaims", "WifiStation"} =>
       cfg = "-"
  /\ part # "HwClaims" =>
       shown = "-" /\ pending = "-" /\ driven = "-" /\ claims = "-" /\ job = "-"
       /\ pass = "-" /\ loose = "-" /\ missed = "-"
  /\ part \notin {"HwClaims", "SdVolume"} =>
       state = "-"
  /\ part # "SdVolume" =>
       mounted = "-" /\ watcher = "-" /\ owed = "-" /\ format = "-" /\ said = "-"
       /\ onCard = "-" /\ cancel = "-" /\ tasks = "-" /\ tails = "-"
       /\ stream = "-" /\ filling = "-" /\ started = "-"
  /\ part # "SecretLife" =>
       boot = "-" /\ primary = "-" /\ snapshot = "-" /\ dump = "-" /\ ram = "-"
       /\ saved = "-" /\ deferred = "-" /\ cleared = "-" /\ unfit = "-"
  /\ part \notin {"SecretLife", "InstallOrder"} =>
       phase = "-"
  /\ part \notin {"SecretLife", "LoopTurn", "AccessPoint"} =>
       asked = "-"
  /\ part \notin {"SecretLife", "Tunnel"} =>
       ops = "-" /\ boots = "-"
  /\ part # "InstallOrder" =>
       mods = "-" /\ degree = "-" /\ ready = "-" /\ order = "-" /\ done = "-"
       /\ installed = "-" /\ security = "-" /\ given = "-"
  /\ part # "LoopTurn" =>
       sem = "-" /\ wait = "-" /\ timer = "-" /\ task = "-" /\ st = "-"
       /\ dog = "-" /\ age = "-"
  /\ part \notin {"LoopTurn", "WifiStation", "AccessPoint", "Tunnel"} =>
       loop = "-"
  /\ part # "TimeSync" =>
       t = "-" /\ off = "-" /\ arb = "-" /\ slot = "-" /\ told = "-" /\ ever = "-"
       /\ hold = "-" /\ burst = "-" /\ resets = "-"
  /\ part # "WifiStation" =>
       disk = "-" /\ pend = "-" /\ active = "-" /\ misses = "-" /\ radio = "-"
       /\ event = "-" /\ scan = "-" /\ range = "-" /\ scans = "-"
  /\ part \notin {"WifiStation", "AccessPoint"} =>
       due = "-" /\ saves = "-" /\ moves = "-"
  /\ part # "AccessPoint" =>
       mode = "-" /\ ver = "-" /\ ap = "-" /\ dns = "-" /\ linked = "-"
  /\ part # "Tunnel" =>
       key = "-" /\ trip = "-" /\ file = "-" /\ isUp = "-" /\ lib = "-"
       /\ ship = "-" /\ failed = "-" /\ made = "-" /\ worked = "-" /\ fresh = "-"
       /\ lost = "-"

\* A step of a component, the one at work.
HwClaimsDoes(A) == part = "HwClaims" /\ A /\ UNCHANGED <<part, NotHwClaims>>
SdVolumeDoes(A) == part = "SdVolume" /\ A /\ UNCHANGED <<part, NotSdVolume>>
SecretLifeDoes(A) == part = "SecretLife" /\ A /\ UNCHANGED <<part, NotSecretLife>>
InstallOrderDoes(A) == part = "InstallOrder" /\ A /\ UNCHANGED <<part, NotInstallOrder>>
LoopTurnDoes(A) == part = "LoopTurn" /\ A /\ UNCHANGED <<part, NotLoopTurn>>
TimeSyncDoes(A) == part = "TimeSync" /\ A /\ UNCHANGED <<part, NotTimeSync>>
WifiStationDoes(A) == part = "WifiStation" /\ A /\ UNCHANGED <<part, NotWifiStation>>
AccessPointDoes(A) == part = "AccessPoint" /\ A /\ UNCHANGED <<part, NotAccessPoint>>
TunnelDoes(A) == part = "Tunnel" /\ A /\ UNCHANGED <<part, NotTunnel>>

Next ==
  \/ HwClaimsDoes(HwClaims!Next)
  \/ SdVolumeDoes(SdVolume!Next)
  \/ SecretLifeDoes(SecretLife!Next)
  \/ InstallOrderDoes(InstallOrder!Next)
  \/ LoopTurnDoes(LoopTurn!Next)
  \/ TimeSyncDoes(TimeSync!Next)
  \/ WifiStationDoes(WifiStation!Next)
  \/ AccessPointDoes(AccessPoint!Next)
  \/ TunnelDoes(Tunnel!Next)

vars == <<part, cfg, shown, pending, driven, state, claims, job, pass, loose,
          missed, mounted, watcher, owed, format, said, onCard, cancel, tasks,
          tails, stream, filling, started, boot, phase, primary, snapshot, dump,
          ram, saved, deferred, asked, cleared, unfit, ops, boots, mods, degree,
          ready, order, done, installed, security, given, sem, loop, wait, timer,
          task, st, dog, age, t, off, arb, slot, told, ever, hold, burst, resets,
          disk, pend, active, misses, radio, event, scan, due, range, saves,
          scans, moves, mode, ver, ap, dns, linked, key, trip, file, isUp, lib,
          ship, failed, made, worked, fresh, lost>>

Spec == Init /\ [][Next]_vars

-----------------------------------------------------------------------------
Of(p, P) == part = p => P       \* an invariant of one of them
In(p, P) == part = p /\ P

\* The type invariant of each.
TypesOK ==
  /\ Of("HwClaims", HwClaims!TypeOK) /\ Of("SdVolume", SdVolume!TypeOK)
  /\ Of("SecretLife", SecretLife!TypeOK) /\ Of("InstallOrder", InstallOrder!TypeOK)
  /\ Of("LoopTurn", LoopTurn!TypeOK) /\ Of("TimeSync", TimeSync!TypeOK)
  /\ Of("WifiStation", WifiStation!TypeOK) /\ Of("AccessPoint", AccessPoint!TypeOK)
  /\ Of("Tunnel", Tunnel!TypeOK)

\* No pin, bus or channel is claimed by two, those being let go of included, nor driven by
\* two (HwClaims.cpp, HwRegistry.cpp); a card's job is worked on by one task, and an
\* archive's stream stays for as long as the response reads it (FileSystemService.cpp).
OneUser ==
  /\ Of("HwClaims", HwClaims!ClaimsApart /\ HwClaims!OneDriver)
  /\ Of("SdVolume", SdVolume!OneTask /\ SdVolume!StreamKept)

\* No service takes an encrypted record for a value, and under a firmware with the vault
\* a secret is plain in flash only while the save that seals it waits (ConfigManager.cpp,
\* SecretsVault.h).
SecretsSealed == Of("SecretLife", SecretLife!NeverLiteral /\ SecretLife!SealedAtRest)

\* Modules are installed in the order their requirements and priorities mean, and each
\* that asks is handed the manager (Builder.cpp); what a task woke the loop for does not
\* wait for its deadline, and the loop's watchdog is on it just when it is armed and
\* nobody has it paused (App.cpp, LoopWdt.cpp).
TurnsKept ==
  /\ Of("InstallOrder", InstallOrder!OrderMeant /\ InstallOrder!ManagerGiven)
  /\ Of("LoopTurn", LoopTurn!NoLateWake /\ LoopTurn!InLine)

\* A network save is applied and written whatever runs meanwhile (WiFiSettingsService.cpp,
\* APSettingsService.cpp), and the tunnel reports the key it works with (WireguardService.cpp).
NetApplied ==
  /\ Of("WifiStation", WifiStation!SaveApplied)
  /\ Of("AccessPoint", AccessPoint!SaveApplied)
  /\ Of("Tunnel", Tunnel!KeyWhole)

\* A clock that claims to be valid is off by no more than the uncertainty it states, and
\* one that passed for valid stays sane until a restart (TimeArbiter.cpp, TimeSync.cpp).
TimeHonest == Of("TimeSync", TimeSync!Honest /\ TimeSync!SaneStays)
==============================================================================
