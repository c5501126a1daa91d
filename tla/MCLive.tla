-------------------------------- MODULE MCLive --------------------------------
(***************************************************************************)
(* What must happen in the end, in the parts of which something must.  One   *)
(* of them is at work in a behaviour, the initial state says which; the      *)
(* variables of the others are "-".                                          *)
(***************************************************************************)
EXTENDS Naturals

CONSTANT Nil

VARIABLES
  part,   \* the component at work
  open, age, forecast, nextIn, used, pause, taken, sinceEnd, writing, queue, pc,
  waited, how, gated, promised, power, dirty, kicked, onPower, timed, due,
  powerKick, listening, creating, task, made, notified, wpc, cur, ret, allowed,
  spc, core, ring, sink, noFlash, image, hasJob, jpc, jcall, npc, back, ncall,
  steps, pass, chunk, req, answer, watching, rxOff, length, sent, parsed, unacked,
  stale, gate, uploads, head, body, boot, handoff, result, seen, crashed, nvs,
  mode, appValid, out, then, serving, uploading, events, imageIn, activating, web,
  hpc, writer, stage, at, touched, wanted, fresh, raced, updates, faults, begun,
  claimed, requested, shutdownDone, hooksDone, abandon, left, ran, flush, after,
  step, armed, timer, slow, direct, chip, owner, update, slot, loop, au, clock,
  loader, restart, op, next, job, closed, locked, answered, ended, cfg, disk,
  pend, active, misses, radio, event, scan, range, saves, scans, moves, ver, ap,
  dns, asked, linked, want, timers, inst, conn, busy, shown, silent, room, wire,
  subs, lost, mounts, hides, bad, pongs, key, trip, file, isUp, lib, ship, failed,
  worked, ops, boots, token, has, run, manifest, loaded, error, reveal, probe,
  done, retried, pending, fetches, names, turns

WriteGate == INSTANCE WriteGate WITH
  Holders <- {"h1"}, Blockers <- {"w1", "w2"}, Triers <- {}, OnlyFree <- {},
  Hurried <- {"w2"}, MinPause <- 2, MaxWindow <- 2, Idle <- 2, MaxWait <- 1,
  Pauses <- {0, 3}, MaxQueue <- 2
FlashWriter == INSTANCE FlashWriter WITH
  Loop <- "loop", Kickers <- {"k1"}, JobCount <- 2, JobsOf <- [t \in {"k1"} |-> {1}],
  AttachAnytime <- FALSE
UploadPump == INSTANCE UploadPump WITH
  Sector <- 2, TcpWindow <- 2, HoldBelow <- 4, RingSize <- 6, Lengths <- {2},
  Sinks <- {"image"}, MaxSteps <- 1, MaxUploads <- 1
OtaLoader == INSTANCE OtaLoader WITH
  Good <- "good", Bad <- "bad", Old <- "old", Sectors <- 1, MaxUpdates <- 1,
  MaxFaults <- 1, Faults <- {"wifi", "flash"}
AppRestart == INSTANCE AppRestart WITH
  Loop <- "loop", Callers <- {"c1"}, Library <- "library", Modules <- 1, MaxFaults <- 1
FirmwareSlot == INSTANCE FirmwareSlot
FileWrites == INSTANCE FileWrites WITH
  Slots <- {1, 2}, FreeSteps <- 1, TreeSize <- 3, MaxOps <- 2
WifiStation == INSTANCE WifiStation WITH
  SwapAfter <- 2, MaxSaves <- 0, MaxScans <- 0, MaxMoves <- 2
AccessPoint == INSTANCE AccessPoint WITH
  MaxSaves <- 2, MaxMoves <- 2
WsPage == INSTANCE WsPage WITH
  Chans <- {"a", "b"}, MaxMounts <- 3, MaxHides <- 1, MaxBad <- 2, MaxPong <- 0
Tunnel == INSTANCE Tunnel WITH
  Trips <- {"a", "b", "x"}, Bad <- {"x"}, None <- "none", MaxOps <- 3, MaxBoots <- 2,
  MaxLost <- 1
ManifestPage == INSTANCE ManifestPage WITH
  Refs <- {"a", "b"}, Delays <- 2, None <- Nil, MaxTurns <- 1, MaxBad <- 3

\* What is not of a component.
NotWriteGate == <<dirty, kicked, onPower, timed, due, powerKick, listening,
                  creating, task, made, notified, wpc, cur, ret, allowed, spc,
                  core, ring, sink, noFlash, image, hasJob, jpc, jcall, npc, back,
                  ncall, steps, pass, chunk, req, answer, watching, rxOff, length,
                  sent, parsed, unacked, stale, gate, uploads, head, body, boot,
                  handoff, result, seen, crashed, nvs, mode, appValid, out, then,
                  serving, uploading, events, imageIn, activating, web, hpc,
                  writer, stage, at, touched, wanted, fresh, raced, updates,
                  faults, begun, claimed, requested, shutdownDone, hooksDone,
                  abandon, left, ran, flush, after, step, armed, timer, slow,
                  direct, chip, owner, update, slot, loop, au, clock, loader,
                  restart, op, next, job, closed, locked, answered, ended, cfg,
                  disk, pend, active, misses, radio, event, scan, range, saves,
                  scans, moves, ver, ap, dns, asked, linked, want, timers, inst,
                  conn, busy, shown, silent, room, wire, subs, lost, mounts,
                  hides, bad, pongs, key, trip, file, isUp, lib, ship, failed,
                  worked, ops, boots, token, has, run, manifest, loaded, error,
                  reveal, probe, done, retried, pending, fetches, names, turns>>
NotFlashWriter == <<open, age, forecast, nextIn, used, pause, taken, sinceEnd,
                    writing, queue, waited, how, gated, promised, core, ring,
                    sink, noFlash, image, hasJob, jpc, jcall, npc, back, ncall,
                    steps, pass, chunk, req, answer, watching, rxOff, length,
                    sent, parsed, unacked, stale, gate, uploads, head, body, boot,
                    handoff, result, seen, crashed, nvs, mode, appValid, out,
                    then, serving, uploading, events, imageIn, activating, web,
                    hpc, writer, stage, at, touched, wanted, fresh, raced,
                    updates, faults, begun, claimed, requested, shutdownDone,
                    hooksDone, abandon, left, ran, flush, after, step, armed,
                    timer, slow, direct, chip, owner, update, slot, loop, au,
                    clock, loader, restart, op, next, job, closed, locked,
                    answered, ended, cfg, disk, pend, active, misses, radio,
                    event, scan, range, saves, scans, moves, ver, ap, dns, asked,
                    linked, want, timers, inst, conn, busy, shown, silent, room,
                    wire, subs, lost, mounts, hides, bad, pongs, key, trip, file,
                    isUp, lib, ship, failed, worked, ops, boots, token, has, run,
                    manifest, loaded, error, reveal, probe, done, retried,
                    pending, fetches, names, turns>>
NotUploadPump == <<open, age, forecast, nextIn, used, pause, taken, sinceEnd,
                   writing, queue, pc, waited, how, gated, promised, power, dirty,
                   kicked, timed, powerKick, listening, creating, task, made,
                   notified, wpc, cur, ret, spc, head, body, boot, handoff,
                   result, seen, crashed, nvs, mode, appValid, out, then, serving,
                   uploading, events, imageIn, activating, web, hpc, writer,
                   stage, at, touched, wanted, fresh, raced, updates, faults,
                   begun, claimed, requested, shutdownDone, hooksDone, abandon,
                   left, ran, flush, after, step, armed, timer, slow, direct,
                   chip, owner, update, slot, loop, au, clock, loader, restart,
                   op, next, job, closed, locked, answered, ended, cfg, disk,
                   pend, active, misses, radio, event, scan, range, saves, scans,
                   moves, ver, ap, dns, asked, linked, want, timers, inst, conn,
                   busy, shown, silent, room, wire, subs, lost, mounts, hides,
                   bad, pongs, key, trip, file, isUp, lib, ship, failed, worked,
                   ops, boots, token, has, run, manifest, loaded, error, reveal,
                   probe, done, retried, pending, fetches, names, turns>>
NotOtaLoader == <<open, age, forecast, nextIn, used, pause, taken, sinceEnd,
                  writing, queue, waited, how, gated, promised, power, dirty,
                  kicked, onPower, timed, due, powerKick, listening, creating,
                  task, made, notified, wpc, cur, ret, allowed, spc, core, ring,
                  sink, noFlash, hasJob, jpc, jcall, npc, back, ncall, steps,
                  pass, chunk, req, answer, watching, rxOff, length, sent, parsed,
                  unacked, stale, gate, uploads, begun, claimed, requested,
                  shutdownDone, hooksDone, abandon, left, ran, flush, after, step,
                  armed, timer, slow, direct, chip, owner, update, slot, loop, au,
                  clock, loader, restart, op, next, job, closed, locked, answered,
                  ended, cfg, disk, pend, active, misses, radio, event, scan,
                  range, saves, scans, moves, ver, ap, dns, asked, linked, want,
                  timers, inst, conn, busy, shown, silent, room, wire, subs, lost,
                  mounts, hides, bad, pongs, key, trip, file, isUp, lib, ship,
                  failed, worked, ops, boots, token, has, run, manifest, loaded,
                  error, reveal, probe, done, retried, pending, fetches, names,
                  turns>>
NotAppRestart == <<open, age, forecast, nextIn, used, pause, taken, sinceEnd,
                   writing, queue, waited, how, gated, promised, power, dirty,
                   kicked, onPower, timed, due, powerKick, listening, creating,
                   task, made, notified, wpc, cur, ret, allowed, spc, core, ring,
                   sink, noFlash, image, hasJob, jpc, jcall, npc, back, ncall,
                   steps, pass, chunk, req, answer, watching, rxOff, length, sent,
                   parsed, unacked, stale, gate, uploads, head, body, boot,
                   handoff, result, seen, crashed, nvs, mode, appValid, out, then,
                   serving, uploading, events, imageIn, activating, web, hpc,
                   writer, stage, at, touched, wanted, fresh, raced, updates,
                   faults, owner, update, slot, loop, au, clock, loader, restart,
                   op, next, job, closed, locked, answered, ended, cfg, disk,
                   pend, active, misses, radio, event, scan, range, saves, scans,
                   moves, ver, ap, dns, asked, linked, want, timers, inst, conn,
                   busy, shown, silent, room, wire, subs, lost, mounts, hides,
                   bad, pongs, key, trip, file, isUp, lib, ship, failed, worked,
                   ops, boots, token, has, run, manifest, loaded, error, reveal,
                   probe, done, retried, pending, fetches, names, turns>>
NotFirmwareSlot == <<open, age, forecast, nextIn, used, pause, taken, sinceEnd,
                     writing, queue, pc, waited, how, gated, promised, power,
                     dirty, kicked, onPower, timed, powerKick, listening,
                     creating, made, notified, wpc, cur, ret, allowed, spc, core,
                     ring, sink, noFlash, hasJob, jpc, jcall, npc, back, ncall,
                     steps, pass, chunk, req, answer, watching, rxOff, length,
                     sent, parsed, unacked, stale, gate, uploads, head, body,
                     handoff, result, seen, crashed, nvs, mode, appValid, out,
                     then, serving, uploading, events, imageIn, activating, web,
                     hpc, writer, stage, at, touched, wanted, raced, updates,
                     faults, begun, claimed, requested, shutdownDone, hooksDone,
                     abandon, left, ran, flush, after, step, armed, timer, slow,
                     direct, chip, op, next, job, closed, locked, answered, ended,
                     cfg, disk, pend, active, misses, radio, event, scan, range,
                     saves, scans, moves, ver, ap, dns, asked, linked, want,
                     timers, inst, conn, busy, shown, silent, room, wire, subs,
                     lost, mounts, hides, bad, pongs, key, trip, file, isUp, lib,
                     ship, failed, worked, ops, boots, token, has, run, manifest,
                     loaded, error, reveal, probe, done, retried, pending,
                     fetches, names, turns>>
NotFileWrites == <<open, age, forecast, nextIn, used, pause, taken, sinceEnd,
                   writing, queue, pc, waited, how, gated, promised, dirty,
                   onPower, timed, due, powerKick, listening, creating, task,
                   made, notified, wpc, cur, ret, allowed, spc, core, ring, sink,
                   noFlash, image, hasJob, jpc, jcall, npc, back, ncall, steps,
                   pass, chunk, req, answer, watching, rxOff, length, sent,
                   parsed, unacked, stale, gate, uploads, head, body, boot,
                   handoff, result, seen, crashed, nvs, mode, appValid, out, then,
                   serving, uploading, events, imageIn, activating, hpc, writer,
                   stage, at, touched, wanted, fresh, raced, updates, faults,
                   begun, claimed, requested, shutdownDone, hooksDone, abandon,
                   ran, after, step, armed, timer, slow, direct, chip, owner,
                   update, slot, loop, au, clock, loader, restart, cfg, disk,
                   pend, active, misses, radio, event, scan, range, saves, scans,
                   moves, ver, ap, dns, asked, linked, want, timers, inst, conn,
                   busy, shown, silent, room, wire, subs, lost, mounts, hides,
                   bad, pongs, key, trip, file, isUp, lib, ship, failed, worked,
                   ops, boots, token, has, run, manifest, loaded, error, reveal,
                   probe, done, retried, pending, fetches, names, turns>>
NotWifiStation == <<open, age, forecast, nextIn, used, pause, taken, sinceEnd,
                    writing, queue, pc, waited, how, gated, promised, power,
                    dirty, kicked, onPower, timed, powerKick, listening, creating,
                    task, made, notified, wpc, cur, ret, allowed, spc, core, ring,
                    sink, noFlash, image, hasJob, jpc, jcall, npc, back, ncall,
                    steps, pass, chunk, req, answer, watching, rxOff, length,
                    sent, parsed, unacked, stale, gate, uploads, head, body, boot,
                    handoff, result, seen, crashed, nvs, mode, appValid, out,
                    then, serving, uploading, events, imageIn, activating, web,
                    hpc, writer, stage, at, touched, wanted, fresh, raced,
                    updates, faults, begun, claimed, requested, shutdownDone,
                    hooksDone, abandon, left, ran, flush, after, step, armed,
                    timer, slow, direct, chip, owner, update, slot, au, clock,
                    loader, restart, op, next, job, closed, locked, answered,
                    ended, ver, ap, dns, asked, linked, want, timers, inst, conn,
                    busy, shown, silent, room, wire, subs, lost, mounts, hides,
                    bad, pongs, key, trip, file, isUp, lib, ship, failed, worked,
                    ops, boots, token, has, run, manifest, loaded, error, reveal,
                    probe, done, retried, pending, fetches, names, turns>>
NotAccessPoint == <<open, age, forecast, nextIn, used, pause, taken, sinceEnd,
                    writing, queue, pc, waited, how, gated, promised, power,
                    dirty, kicked, onPower, timed, powerKick, listening, creating,
                    task, made, notified, wpc, cur, ret, allowed, spc, core, ring,
                    sink, noFlash, image, hasJob, jpc, jcall, npc, back, ncall,
                    steps, pass, chunk, req, answer, watching, rxOff, length,
                    sent, parsed, unacked, stale, gate, uploads, head, body, boot,
                    handoff, result, seen, crashed, nvs, appValid, out, then,
                    serving, uploading, events, imageIn, activating, web, hpc,
                    writer, stage, at, touched, wanted, fresh, raced, updates,
                    faults, begun, claimed, requested, shutdownDone, hooksDone,
                    abandon, left, ran, flush, after, step, armed, timer, slow,
                    direct, chip, owner, update, slot, au, clock, loader, restart,
                    op, next, job, closed, locked, answered, ended, cfg, disk,
                    pend, active, misses, radio, event, scan, range, scans, want,
                    timers, inst, conn, busy, shown, silent, room, wire, subs,
                    lost, mounts, hides, bad, pongs, key, trip, file, isUp, lib,
                    ship, failed, worked, ops, boots, token, has, run, manifest,
                    loaded, error, reveal, probe, done, retried, pending, fetches,
                    names, turns>>
NotWsPage == <<open, age, forecast, nextIn, used, pause, taken, sinceEnd, writing,
               queue, pc, waited, how, gated, promised, power, dirty, kicked,
               onPower, timed, due, powerKick, listening, creating, task, made,
               notified, wpc, cur, ret, allowed, spc, core, ring, sink, noFlash,
               image, hasJob, jpc, jcall, npc, back, ncall, steps, pass, chunk,
               req, answer, watching, rxOff, length, sent, parsed, unacked, stale,
               gate, uploads, head, body, boot, handoff, result, seen, crashed,
               nvs, mode, appValid, out, then, serving, uploading, events,
               imageIn, activating, web, hpc, writer, stage, at, touched, wanted,
               fresh, raced, updates, faults, begun, claimed, requested,
               shutdownDone, hooksDone, abandon, left, ran, flush, after, step,
               timer, slow, direct, chip, owner, update, slot, loop, au, clock,
               loader, restart, op, next, job, closed, locked, answered, ended,
               cfg, disk, pend, misses, radio, event, scan, range, saves, scans,
               moves, ver, ap, dns, asked, linked, key, trip, file, isUp, lib,
               ship, failed, worked, ops, boots, token, has, run, manifest,
               loaded, error, reveal, probe, done, retried, pending, fetches,
               names, turns>>
NotTunnel == <<open, age, forecast, nextIn, used, pause, taken, sinceEnd, writing,
               queue, pc, waited, how, gated, promised, power, dirty, kicked,
               onPower, timed, due, powerKick, listening, creating, task,
               notified, wpc, cur, ret, allowed, spc, core, ring, sink, noFlash,
               image, hasJob, jpc, jcall, npc, back, ncall, steps, pass, chunk,
               req, answer, watching, rxOff, length, sent, parsed, unacked, stale,
               gate, uploads, head, body, boot, handoff, result, seen, crashed,
               nvs, mode, appValid, out, then, serving, uploading, events,
               imageIn, activating, web, hpc, writer, stage, at, touched, wanted,
               raced, updates, faults, begun, claimed, requested, shutdownDone,
               hooksDone, abandon, left, ran, flush, after, step, armed, timer,
               slow, direct, chip, owner, update, slot, au, clock, loader,
               restart, op, next, job, closed, locked, answered, ended, cfg, disk,
               pend, active, misses, radio, event, scan, range, saves, scans,
               moves, ver, ap, dns, asked, linked, want, timers, inst, conn, busy,
               shown, silent, room, wire, subs, mounts, hides, bad, pongs, token,
               has, run, manifest, loaded, error, reveal, probe, done, retried,
               pending, fetches, names, turns>>
NotManifestPage == <<open, age, forecast, nextIn, used, pause, taken, sinceEnd,
                     writing, queue, pc, waited, how, gated, promised, power,
                     dirty, kicked, onPower, timed, due, powerKick, listening,
                     creating, task, made, notified, wpc, cur, ret, allowed, spc,
                     core, ring, sink, noFlash, image, hasJob, jpc, jcall, npc,
                     back, ncall, steps, pass, chunk, req, answer, watching,
                     rxOff, length, sent, parsed, unacked, stale, gate, uploads,
                     head, body, boot, handoff, result, seen, crashed, nvs, mode,
                     appValid, out, then, serving, uploading, events, imageIn,
                     activating, web, hpc, writer, stage, at, touched, wanted,
                     fresh, raced, updates, faults, begun, claimed, shutdownDone,
                     hooksDone, abandon, left, ran, flush, after, step, armed,
                     timer, slow, direct, chip, owner, update, slot, loop, au,
                     clock, loader, restart, op, next, job, closed, locked,
                     answered, ended, cfg, disk, pend, active, misses, radio,
                     event, scan, range, saves, scans, moves, ver, ap, dns, asked,
                     linked, want, timers, inst, conn, busy, shown, silent, room,
                     wire, subs, lost, mounts, hides, pongs, key, trip, file,
                     isUp, lib, ship, failed, worked, ops, boots>>

Init ==
  /\ part \in {"WriteGate", "FlashWriter", "UploadPump", "OtaLoader",
               "AppRestart", "FirmwareSlot", "FileWrites", "WifiStation",
               "AccessPoint", "WsPage", "Tunnel", "ManifestPage"}
  /\ part = "WriteGate" => WriteGate!Init
  /\ part = "FlashWriter" => FlashWriter!Init
  /\ part = "UploadPump" => UploadPump!Init
  /\ part = "OtaLoader" => OtaLoader!Init
  /\ part = "AppRestart" => AppRestart!Init
  /\ part = "FirmwareSlot" => FirmwareSlot!Init
  /\ part = "FileWrites" => FileWrites!Init
  /\ part = "WifiStation" => WifiStation!Init
  /\ part = "AccessPoint" => AccessPoint!Init
  /\ part = "WsPage" => WsPage!Init
  /\ part = "Tunnel" => Tunnel!Init
  /\ part = "ManifestPage" => ManifestPage!Init
  /\ part # "WriteGate" =>
       open = "-" /\ age = "-" /\ forecast = "-" /\ nextIn = "-" /\ used = "-"
       /\ pause = "-" /\ taken = "-" /\ sinceEnd = "-" /\ writing = "-"
       /\ queue = "-" /\ waited = "-" /\ how = "-" /\ gated = "-"
       /\ promised = "-"
  /\ part \notin {"WriteGate", "FlashWriter", "OtaLoader", "AppRestart"} =>
       pc = "-"
  /\ part \notin {"WriteGate", "FlashWriter", "FileWrites"} =>
       power = "-"
  /\ part # "FlashWriter" =>
       dirty = "-" /\ timed = "-" /\ powerKick = "-" /\ listening = "-"
       /\ creating = "-" /\ notified = "-" /\ wpc = "-" /\ cur = "-" /\ ret = "-"
       /\ spc = "-"
  /\ part \notin {"FlashWriter", "FileWrites"} =>
       kicked = "-"
  /\ part \notin {"FlashWriter", "UploadPump"} =>
       onPower = "-" /\ allowed = "-"
  /\ part \notin {"FlashWriter", "UploadPump", "FirmwareSlot", "WifiStation",
                  "AccessPoint"} =>
       due = "-"
  /\ part \notin {"FlashWriter", "FirmwareSlot"} =>
       task = "-"
  /\ part \notin {"FlashWriter", "Tunnel"} =>
       made = "-"
  /\ part # "UploadPump" =>
       core = "-" /\ ring = "-" /\ sink = "-" /\ noFlash = "-" /\ hasJob = "-"
       /\ jpc = "-" /\ jcall = "-" /\ npc = "-" /\ back = "-" /\ ncall = "-"
       /\ steps = "-" /\ pass = "-" /\ chunk = "-" /\ req = "-" /\ answer = "-"
       /\ watching = "-" /\ rxOff = "-" /\ length = "-" /\ sent = "-"
       /\ parsed = "-" /\ unacked = "-" /\ stale = "-" /\ gate = "-"
       /\ uploads = "-"
  /\ part \notin {"UploadPump", "OtaLoader", "FirmwareSlot"} =>
       image = "-"
  /\ part # "OtaLoader" =>
       head = "-" /\ body = "-" /\ handoff = "-" /\ result = "-" /\ seen = "-"
       /\ crashed = "-" /\ nvs = "-" /\ appValid = "-" /\ out = "-" /\ then = "-"
       /\ serving = "-" /\ uploading = "-" /\ events = "-" /\ imageIn = "-"
       /\ activating = "-" /\ hpc = "-" /\ writer = "-" /\ stage = "-" /\ at = "-"
       /\ touched = "-" /\ wanted = "-" /\ raced = "-" /\ updates = "-"
       /\ faults = "-"
  /\ part \notin {"OtaLoader", "FirmwareSlot"} =>
       boot = "-"
  /\ part \notin {"OtaLoader", "AccessPoint"} =>
       mode = "-"
  /\ part \notin {"OtaLoader", "FileWrites"} =>
       web = "-"
  /\ part \notin {"OtaLoader", "FirmwareSlot", "Tunnel"} =>
       fresh = "-"
  /\ part # "AppRestart" =>
       begun = "-" /\ claimed = "-" /\ shutdownDone = "-" /\ hooksDone = "-"
       /\ abandon = "-" /\ ran = "-" /\ after = "-" /\ step = "-" /\ timer = "-"
       /\ slow = "-" /\ direct = "-" /\ chip = "-"
  /\ part \notin {"AppRestart", "ManifestPage"} =>
       requested = "-"
  /\ part \notin {"AppRestart", "FileWrites"} =>
       left = "-" /\ flush = "-"
  /\ part \notin {"AppRestart", "WsPage"} =>
       armed = "-"
  /\ part # "FirmwareSlot" =>
       owner = "-" /\ update = "-" /\ slot = "-" /\ au = "-" /\ clock = "-"
       /\ loader = "-" /\ restart = "-"
  /\ part \notin {"FirmwareSlot", "WifiStation", "AccessPoint", "Tunnel"} =>
       loop = "-"
  /\ part # "FileWrites" =>
       op = "-" /\ next = "-" /\ job = "-" /\ closed = "-" /\ locked = "-"
       /\ answered = "-" /\ ended = "-"
  /\ part # "WifiStation" =>
       cfg = "-" /\ disk = "-" /\ pend = "-" /\ misses = "-" /\ radio = "-"
       /\ event = "-" /\ scan = "-" /\ range = "-" /\ scans = "-"
  /\ part \notin {"WifiStation", "WsPage"} =>
       active = "-"
  /\ part \notin {"WifiStation", "AccessPoint"} =>
       saves = "-" /\ moves = "-"
  /\ part # "AccessPoint" =>
       ver = "-" /\ ap = "-" /\ dns = "-" /\ asked = "-" /\ linked = "-"
  /\ part # "WsPage" =>
       want = "-" /\ timers = "-" /\ inst = "-" /\ conn = "-" /\ busy = "-"
       /\ shown = "-" /\ silent = "-" /\ room = "-" /\ wire = "-" /\ subs = "-"
       /\ mounts = "-" /\ hides = "-" /\ pongs = "-"
  /\ part \notin {"WsPage", "Tunnel"} =>
       lost = "-"
  /\ part \notin {"WsPage", "ManifestPage"} =>
       bad = "-"
  /\ part # "Tunnel" =>
       key = "-" /\ trip = "-" /\ file = "-" /\ isUp = "-" /\ lib = "-"
       /\ ship = "-" /\ failed = "-" /\ worked = "-" /\ ops = "-" /\ boots = "-"
  /\ part # "ManifestPage" =>
       token = "-" /\ has = "-" /\ run = "-" /\ manifest = "-" /\ loaded = "-"
       /\ error = "-" /\ reveal = "-" /\ probe = "-" /\ done = "-"
       /\ retried = "-" /\ pending = "-" /\ fetches = "-" /\ names = "-"
       /\ turns = "-"

\* A step of a component, the one at work.
WriteGateDoes(A) == part = "WriteGate" /\ A /\ UNCHANGED <<part, NotWriteGate>>
FlashWriterDoes(A) == part = "FlashWriter" /\ A /\ UNCHANGED <<part, NotFlashWriter>>
UploadPumpDoes(A) == part = "UploadPump" /\ A /\ UNCHANGED <<part, NotUploadPump>>
OtaLoaderDoes(A) == part = "OtaLoader" /\ A /\ UNCHANGED <<part, NotOtaLoader>>
AppRestartDoes(A) == part = "AppRestart" /\ A /\ UNCHANGED <<part, NotAppRestart>>
FirmwareSlotDoes(A) == part = "FirmwareSlot" /\ A /\ UNCHANGED <<part, NotFirmwareSlot>>
FileWritesDoes(A) == part = "FileWrites" /\ A /\ UNCHANGED <<part, NotFileWrites>>
WifiStationDoes(A) == part = "WifiStation" /\ A /\ UNCHANGED <<part, NotWifiStation>>
AccessPointDoes(A) == part = "AccessPoint" /\ A /\ UNCHANGED <<part, NotAccessPoint>>
WsPageDoes(A) == part = "WsPage" /\ A /\ UNCHANGED <<part, NotWsPage>>
TunnelDoes(A) == part = "Tunnel" /\ A /\ UNCHANGED <<part, NotTunnel>>
ManifestPageDoes(A) == part = "ManifestPage" /\ A /\ UNCHANGED <<part, NotManifestPage>>

Next ==
  \/ WriteGateDoes(WriteGate!Next)
  \/ FlashWriterDoes(FlashWriter!Next)
  \/ UploadPumpDoes(UploadPump!Next)
  \/ OtaLoaderDoes(OtaLoader!Next)
  \/ AppRestartDoes(AppRestart!Next)
  \/ FirmwareSlotDoes(FirmwareSlot!Next)
  \/ FileWritesDoes(FileWrites!Next)
  \/ WifiStationDoes(WifiStation!Next)
  \/ AccessPointDoes(AccessPoint!Next)
  \/ WsPageDoes(WsPage!Next)
  \/ TunnelDoes(Tunnel!Next)
  \/ ManifestPageDoes(ManifestPage!Next)

vars == <<part, open, age, forecast, nextIn, used, pause, taken, sinceEnd,
          writing, queue, pc, waited, how, gated, promised, power, dirty, kicked,
          onPower, timed, due, powerKick, listening, creating, task, made,
          notified, wpc, cur, ret, allowed, spc, core, ring, sink, noFlash, image,
          hasJob, jpc, jcall, npc, back, ncall, steps, pass, chunk, req, answer,
          watching, rxOff, length, sent, parsed, unacked, stale, gate, uploads,
          head, body, boot, handoff, result, seen, crashed, nvs, mode, appValid,
          out, then, serving, uploading, events, imageIn, activating, web, hpc,
          writer, stage, at, touched, wanted, fresh, raced, updates, faults,
          begun, claimed, requested, shutdownDone, hooksDone, abandon, left, ran,
          flush, after, step, armed, timer, slow, direct, chip, owner, update,
          slot, loop, au, clock, loader, restart, op, next, job, closed, locked,
          answered, ended, cfg, disk, pend, active, misses, radio, event, scan,
          range, saves, scans, moves, ver, ap, dns, asked, linked, want, timers,
          inst, conn, busy, shown, silent, room, wire, subs, lost, mounts, hides,
          bad, pongs, key, trip, file, isUp, lib, ship, failed, worked, ops,
          boots, token, has, run, manifest, loaded, error, reveal, probe, done,
          retried, pending, fetches, names, turns>>



\* The variables of the component at work.
At(p, A) == part = p /\ part' = part /\ A
mine ==
  CASE part = "WriteGate" -> WriteGate!vars
    [] part = "FlashWriter" -> FlashWriter!vars
    [] part = "UploadPump" -> UploadPump!vars
    [] part = "OtaLoader" -> OtaLoader!vars
    [] part = "AppRestart" -> AppRestart!vars
    [] part = "FirmwareSlot" -> FirmwareSlot!vars
    [] part = "FileWrites" -> FileWrites!vars
    [] part = "WifiStation" -> WifiStation!vars
    [] part = "AccessPoint" -> AccessPoint!vars
    [] part = "WsPage" -> WsPage!vars
    [] part = "Tunnel" -> Tunnel!vars
    [] part = "ManifestPage" -> ManifestPage!vars

\* The actions that the scheduling of a component lets happen, numbered: two of one
\* component are fair each for itself, and of two components only one is at work.
Weak(i) ==
  \/ At("WriteGate",
       \/ i = 1 /\ WriteGate!Tick
       \/ i = 2 /\ WriteGate!Leave("w1")
       \/ i = 3 /\ WriteGate!Leave("w2")
       \/ i = 4 /\ WriteGate!Refuse("w1")
       \/ i = 5 /\ WriteGate!Refuse("w2"))
  \/ At("FlashWriter",
       \/ i = 1 /\ FlashWriter!Ensure("k1")
       \/ i = 2 /\ FlashWriter!Ensure("loop")
       \/ i = 3 /\ FlashWriter!Retry
       \/ i = 4 /\ FlashWriter!Run
       \/ i = 5 /\ FlashWriter!Listener
       \/ i = 6 /\ FlashWriter!Elapse(1)
       \/ i = 7 /\ FlashWriter!Elapse(2))
  \/ At("UploadPump",
       \/ i = 1 /\ UploadPump!Handler
       \/ i = 2 /\ UploadPump!Poll
       \/ i = 3 /\ UploadPump!Run
       \/ i = 4 /\ UploadPump!Stall)
  \/ At("OtaLoader",
       \/ i = 1 /\ OtaLoader!App
       \/ i = 2 /\ OtaLoader!Session
       \/ i = 3 /\ OtaLoader!UploadTaken
       \/ i = 4 /\ OtaLoader!Write /\ UNCHANGED faults)
  \/ At("FirmwareSlot",
       \/ i = 1 /\ FirmwareSlot!InTransfer
       \/ i = 2 /\ FirmwareSlot!Time
       \/ i = 3 /\ FirmwareSlot!Reset
       \/ i = 4 /\ FirmwareSlot!AtItsEnd)
  \/ At("FileWrites",
       \/ i = 1 /\ FileWrites!Run
       \/ i = 2 /\ FileWrites!RunLater
       \/ i = 3 /\ FileWrites!RunStep
       \/ i = 4 /\ FileWrites!NowOn
       \/ i = 5 /\ FileWrites!PowerBack)
  \/ At("WifiStation",
       \/ i = 1 /\ WifiStation!Loop
       \/ i = 2 /\ WifiStation!Connected
       \/ i = 3 /\ WifiStation!Lost
       \/ i = 4 /\ WifiStation!Disconnected
       \/ i = 5 /\ WifiStation!Period
       \/ i = 6 /\ WifiStation!ScanEnds
       \/ i = 7 /\ WifiStation!ScanOver)
  \/ At("AccessPoint",
       \/ i = 1 /\ AccessPoint!Loop
       \/ i = 2 /\ AccessPoint!Period)
  \/ At("WsPage",
       \/ i = 1 /\ WsPage!Open
       \/ i = 2 /\ WsPage!Refuse
       \/ i = 3 /\ WsPage!Retry
       \/ i = 4 /\ WsPage!Watchdog
       \/ i = 5 /\ WsPage!Backoff)
  \/ At("Tunnel",
       \/ i = 1 /\ Tunnel!Look
       \/ i = 2 /\ Tunnel!Flip)
  \/ At("ManifestPage",
       \/ i = 1 /\ ManifestPage!Ask
       \/ i = 2 /\ ManifestPage!Answered
       \/ i = 3 /\ ManifestPage!Again
       \/ i = 4 /\ ManifestPage!Probed
       \/ i = 5 /\ ManifestPage!Reveal)
  \/ At("AppRestart",
       \/ i = 1 /\ AppRestart!LoopPass
       \/ i = 2 /\ "loop" \notin slow /\ AppRestart!ModulesDone
       \/ i = 3 /\ AppRestart!Deadline
       \/ i = 4 /\ AppRestart!ParkedResets
       \/ \E t \in {"loop", "library", "c1"} :
            LET n == IF t = "loop" THEN 5 ELSE IF t = "c1" THEN 9 ELSE 13 IN
            \/ i = n /\ (AppRestart!Caller(t) \/ AppRestart!Hooks(t) \/ AppRestart!EspRestart(t))
            \/ i = n + 1 /\ "hook" \notin slow /\ AppRestart!HookDone(t)
            \/ i = n + 2 /\ "after" \notin slow /\ AppRestart!StepDone(t)
            \/ \E for \in AppRestart!For :
                 i = n + 3 /\ "flush" \notin slow /\ AppRestart!FlushDone(t, for))

Strong(i) ==
  \/ At("WriteGate",
       \/ i = 1 /\ WriteGate!Admit("w1")
       \/ i = 2 /\ WriteGate!Admit("w2"))
  \/ At("FlashWriter",
       \/ i = 1 /\ FlashWriter!Starts
       \/ i = 2 /\ FlashWriter!Writes /\ cur = 1
       \/ i = 3 /\ FlashWriter!Writes /\ cur = 2)
  \/ At("UploadPump",
       \/ i = 1 /\ UploadPump!JobSlot /\ jpc' = "act"
       \/ i = 2 /\ UploadPump!Closed)
  \/ At("OtaLoader",
       \/ i = 1 /\ OtaLoader!ServeReturns
       \/ i = 2 /\ OtaLoader!Net /\ pc' = "lock"
       \/ i = 3 /\ OtaLoader!PullLock /\ image' = "good")
  \/ At("FirmwareSlot",
       \/ i = 1 /\ (FirmwareSlot!Kill \/ FirmwareSlot!TimeoutRestart)
       \/ i = 2 /\ FirmwareSlot!Settle)
  \/ At("FileWrites",
       \/ i = 1 /\ FileWrites!RunLock)

Fairness == (\A i \in 1..16 : WF_mine(Weak(i))) /\ (\A i \in 1..3 : SF_mine(Strong(i)))

Spec == Init /\ [][Next]_vars /\ Fairness

-----------------------------------------------------------------------------
Of(p, P) == part = p => P       \* an invariant of one of them
In(p, P) == part = p /\ P

\* What was asked of the device is done.  A writer that may wait as long as it takes
\* goes, however busy the holders; an update task past its deadline is settled or the
\* device restarts; a file write that was kept is finished unless a restart closes
\* the queue; and with the supply on for good what a job keeps is written and an
\* upload comes to its end.
Asked ==
  \/ In("WriteGate", pc["w1"] = "waiting")
  \/ In("FlashWriter", dirty[1])
  \/ In("UploadPump", hasJob /\ UploadPump!Running(core))
  \/ In("FirmwareSlot", au # "idle")
  \/ In("FileWrites", 1 \in answered)
Done ==
  /\ Of("WriteGate", pc["w1"] # "waiting")
  /\ Of("FlashWriter", ~dirty[1])
  /\ Of("UploadPump", ~UploadPump!Running(core))
  /\ Of("FirmwareSlot", au = "idle" \/ restart = "done")
  /\ Of("FileWrites", 1 \in ended \/ closed)
Supplied == part \in {"FlashWriter", "UploadPump"} => allowed
AskedIsDone == <>[]Supplied => (Asked ~> Done)

\* Nobody waits for ever.  The writer that is in a hurry is let in or refused, and a
\* client hears how its upload went, supply or not; a pulled update ends in an app
\* (or with a loader that has no Wi-Fi, or in the race of OtaLoader's raced);
\* a restart that was claimed resets the chip; the station gets on a network it can
\* reach; the access point comes up when there is none; a page in view gets its
\* socket again; the tunnel agrees with the library; the page's overlay goes.
Waiting ==
  \/ In("WriteGate", pc["w2"] = "waiting")
  \/ In("UploadPump", req = "paused")
  \/ In("FileWrites", 2 \in answered)
  \/ In("OtaLoader", wanted = "pull" /\ pc = "load")
  \/ In("AppRestart", claimed # {} /\ (timer \/ slow \subseteq {"loop"}))
  \/ In("WifiStation", WifiStation!Reachable)
  \/ In("AccessPoint", AccessPoint!Stranded)
  \/ In("WsPage", shown /\ (~conn \/ silent))
  \/ In("Tunnel", Tunnel!Disagree)
  \/ In("ManifestPage", ~reveal)
Served ==
  /\ Of("WriteGate", pc["w2"] # "waiting")
  /\ Of("UploadPump", req # "paused")
  /\ Of("FileWrites", 2 \in ended \/ closed)
  /\ Of("OtaLoader", pc = "app" \/ pc = "stopped" \/ raced)
  /\ Of("AppRestart", chip = "reset")
  /\ Of("WifiStation", radio.st = "up" \/ ~WifiStation!Reachable)
  /\ Of("AccessPoint", ap.on \/ ~AccessPoint!Stranded)
  /\ Of("WsPage", ~shown \/ ~room \/ (conn /\ ~silent))
  /\ Of("Tunnel", ~Tunnel!Disagree)
  /\ Of("ManifestPage", reveal)
NobodyWaits == Waiting ~> Served
==============================================================================
