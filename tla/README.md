# TLA+ specifications of esp-rack

esp-rack is a framework for ESP32 firmware: a base library (`src/lib/ESPRack`),
feature modules (`src/modules`), an update loader that lives in a partition of
its own (`src/loader`) and a web UI (`src/ui`). Its hard part is not any single
algorithm but that several FreeRTOS tasks share one flash chip, one web server,
one radio and one supply that may fail at any moment, and that a browser sees all
of it through answers that come in any order. These modules specify that part:
who may write flash and when, what a power cut leaves behind, what a restart
still owes, what the device tells the broker, the mothership and the chat of
itself, and whether a page shows what the device has.

All definitions are translated from the source. `PROJECT.json` maps each one to
its lines, lists the runs, a mutation of the code per property, the hazards the
properties are for, the findings and the theorems.

Contents: 1 the system; 2 modules and code; 3 runs and bounds; 4 fairness;
5 what is proved; 6 findings and further disagreements; 7 only model-checked, not
modelled; 8 plan.

## 1. The system

### Tasks

| task | what it does | where |
|------|--------------|-------|
| loop | `App::loop`: the modules' `onLoop`, retries, restarts | `src/App.cpp` |
| async_tcp | every web handler and TCP event; must not block | `src/net`, `src/WebManager.cpp` |
| FlashWriter | the one task for deferred flash writes, created by need | `src/power/FlashWriter.cpp` |
| module tasks | e.g. a blocking writer, a fetch, a driver | modules |
| event tasks | Wi-Fi, time, the supply monitor; they call PowerGuard | `src/power/PowerGuard.cpp` |
| loader tasks | `app_main`'s session and the HTTP server's task | `src/loader/main` |

### Components

For each: the state it keeps, its operations, whom it talks to, what is hard,
and what makes it correct.

**Flash write gate** (`WriteGateCore`, `WriteGate`). State: per holder whether
its window is open, since when, and its forecast of the next one; whether a
pause is on and was used; writes under way; the ticket queue. Operations: open
and close a window, `enter` (blocking, queued), `tryEnter` (never queued),
`force`, `leave`. Consulted by ConfigManager, UploadPump, the history module and
the record stores; asks PowerGuard. Hard: windows lapse lazily, only when some
call looks; three rules let a write through and must not add up to two. Correct:
one write at a time, one per pause, none into a forecast window, and no writer
starves.

**PowerGuard**. State: the supply state, the latch that stops writes until
restart, listeners. Operations: `setSupply`, `latchWritesOff`, `writesAllowed`.
It calls listeners on the caller's task. It appears as an actor in every module.

**FlashWriter**. State: registered jobs and their flags (kicked, held for power,
timed), the notification, the lazily created task. Operations: `kick` from any
task, `retry` from the loop, `start`, `attach`, the task's `run`. Hard: flags and
notifications are separate steps on separate tasks. Correct: one task; no kick
and no held job is lost; what is kept is written.

**Upload pump** (`UploadPumpCore`, `UploadPump`). State: the session (phase,
result), the ring, the sink taken or not, the held TCP window, the request's
answer. Operations: `begin`, `push`, `finish`, `poll`, `gone` on async_tcp and
`run` on the FlashWriter. Hard: the sink is driven from two tasks, a chunk may
pass straight through or wait, data are copied outside the lock, the client may
go at any moment. Correct: the sink gets the bytes in order and the calls in
their order, the ring never overflows, an upload ends and its client is told the
truth.

**Update loader** (`src/loader`, with `OtaLoader.cpp` in the app). State: the app
slot, the boot partition, the handoff and the result in NVS; in RAM the session
and the image writer. Operations: enter the loader, pull or accept an upload,
return to the app. Hard: every step may be the last before power fails; the
session and the HTTP task both decide. Correct: only a checked image boots, an
image that is in stays in, the handoff lives until it is no longer needed, the
device gets back into an app.

**App restart** (`App::restartDevice` and what it calls). State: who claimed the
restart, whether hooks, flush and last step have run. Hard: any task may call
it, several at once, each wait is bounded, and a library may call `esp_restart`
past it. Correct: hooks run once and in order, not against the loop; the last
step runs last and is not cut off; the chip does reset.

**Config store** (`ConfigManager`, with the wipe of `FactoryResetService`).
State per entry: the service's state in RAM, the CRC last saved, the file, its
backup, flags for deferred and late saves and for what the two files are worth.
Operations: load with recovery, save, the FlashWriter's two-step deferred save,
Save Backup at once and queued, the flush of a restart, the wipe. Hard: the
file is rewritten in place, so at each step some other file has to be good;
three tasks take turns between steps. Correct: a save that succeeded survives a
cut; a change is never forgotten; a backup reported done is one.

**Firmware slot** (`OtaWriter`, `FirmwareUpdate`, and their users: the upload page,
the auto-update task, ArduinoOTA). State: the one owner, the update lock with its
stall limit, the slot and what boots. Hard: a lock lapses while its owner may still
write; the loop deletes an update task that is late. Correct: one image at a time,
what boots is whole, nothing stays held.

**Boot guard**. State: crash run, safe mode and boot history, in RAM and in NVS.
Hard: the gate may put a write off, and any step may be the last. Correct: the crash
run counted is the one stored, and who has something to write has a writer.

**File manager** (`FsWriteQueue`, `FsPromote`, the SD card's tasks, the page). State: the
slots of kept writes, the files of an upload, the card's watcher, format and archive
jobs, the page's listing. Correct: writes go in the order asked; an upload leaves the
old file or the new one; a stream outlives its reader; the listing is of the folder named.

**Hardware claims**, **module builder**, **loop and watchdog**, **time**, **secrets**. Each is a
registry or a rule that others rely on: no pin has two users, requirements come first,
a wake is not lost, the clock is as good as it says, a secret is sealed at rest.

**Networks**: Wi-Fi station and access point, tunnel, MQTT (connection and
subscriptions), device certificate, mothership check-in over a kept TLS connection,
Bluetooth links, Telegram, discovery. State: what the operator asked for, what the
vendor stack does, what the other side believes. Hard: callbacks on other tasks, lost and
late answers, restarts in the middle. Correct: the last save is the one applied, what the
other side is told is true, nothing runs twice.

**Web**: the WebSocket manager (push queues, clients), presence (roster and log), the
pages (socket, forms, manifest, files, charts), the history (series, queries). Hard: async_tcp
frees what the loop uses; pages come, go and hide; answers land in any order. Correct:
a page ends up with the state, a client has its own rights, a record taken is kept.

The parts that are not modelled, with the reason, are in section 7 and in the
component list of `PROJECT.json`.

### How they interact

    async_tcp --push--> UploadPump --tryEnter--> WriteGate <--windows-- modules
        |                   |  kick                  ^  ^
        |                   v                        |  |
        +--save--> ConfigManager --kick--> FlashWriter  |
    loop --save--/      ^                               |
        |               | flushDeferredNow          PowerGuard --listener--> FlashWriter
        +--restartDevice: hooks, flush, last step (wipe, OtaLoader::enter) --> reset
                                                         |
                     bootloader --> app or update loader <-- handoff, result in NVS

    pages --REST, frames--> WsManager, file manager, history --kick--> FlashWriter
      ^                        |  (async_tcp; the loop sends)
      +------- push -----------+
    server <--check-in over the kept TLS connection-- mothership task --actions--> tunnel,
      certificate, restart;   broker <--> MQTT (loop, async_tcp);   chat <--> Telegram task

## 2. Modules and code

`WriteGate`, `UploadPump`, `ConfigStore`, `OtaLoader` and `HwClaims` are run as they
are. The others are run in suites, because their instances are small: a module
`MCFlash`, `MCDevice`, `MCNetwork`, `MCWeb` or `MCLive` declares the variables of its
components, instantiates each of them, and lets the variable `part` say which one is at
work. Init chooses the part; the variables of the others are "-" and stay so. `XDoes` is
a step of component X; `Of(x, P)` is P said of x, and `In(x, P)` that x is at work and P
holds. So one run explores the union of its components' state spaces, not the product.
`Parts` in `MCWeb` selects what a run takes: `MCWeb.cfg` the sockets, the roster and the
log, `MCPages.cfg` the pages and the history. In `MCFlash` the instances of
`FilePromote`, `FirmwareSlot` and `BootGuard` are named `Upload`, `Slot` and `Guard`.

`WriteGateProofs` extends `WriteGate` and `ConfigStoreProofs` extends `ConfigStore`. The
other proofs stand at the end of the module they are about, and those on `FilePromote`,
`FirmwareSlot`, `BootGuard` and the run's own properties in `MCFlash`. `UploadPump`
instantiates `UploadSession`, the abstract specification it implements.

Where a component uses another, it uses the other's contract, and the contract is what
the other's properties state: UploadPump, ConfigStore, FileWrites and the logs take a
gate with at most one slot (Exclusive) that may refuse, and a FlashWriter whose kicked
job runs, and runs again when the supply is back (WritesComeUp, AskedIsDone).

An operator named `X_Something` with a comment "Fault:" is a wrong version of the
definition after it. It is used by no specification; it shows, swapped in for the
definition, that a property can fail.

### WriteGate

One action per call: `Open`, `Close`; `Join` is `WriteGate::enter` up to its loop, and
`Admit`, `AdmitLate`, `Refuse`, `AskAgain` are one turn of the loop by how it ends (Go,
the writer's own bound, the power, Wait); `Want` and `TryEnter` a writer that tries;
`Leave`; `Tick`; `SetSupply`, `LatchWritesOff`. Operators that end in `Now` are the
core's fields after `windowOpen(now)` ran, which every call of the core does first. Time
stamps are kept as ages, cut off where no rule can tell two of them apart, so runs of
any length have finitely many states. Left out: statistics; the retry hint (a blocked
writer waits for a notification and at most 1000 ms, so it may ask again at any time);
`millis()` wrapping around. A writer that finds the queue full waits without a ticket,
as in the code. A holder opens no window before its own forecast: that is the contract
of `close`, and `ForecastHonoured` is what it buys.

### FlashWriter

Steps are single accesses to shared state. `Kick` sets the flag; `EnsureTask`, `Claim`,
`Create`, `NotifyTask` are `ensureTask` and `xTaskNotifyGive`; `Born`, `Pass`, `Scan`,
`Job`, `Return`, `Sleep`, `Wake` are `run`; `Listener` is the power listener's two
steps. A job is its contract: it writes what its owner keeps, or returns "later" or "on
power". `AttachAnytime` is about the attach race (section 6): with FALSE, as in the runs,
the listener is not attached between a job's return and the note of it; the proofs leave
it open. The restart flush table is not modelled here (its effect is in AppRestart and ConfigStore). Properties: NoLostWake,
NothingForgotten.

### UploadPump, UploadSession

`UploadPump` has an operator per method of `UploadPumpCore`, from the fields to the
fields, and an action per section under the pump's lock, per sink call and for the copy
into the ring, named after the function (`DriveStart`... for `driveFree`,
`Push`...`PushEnd` for `push`, `JobNext`... `JobOut` for the job). A sink call and the
section that notes its result are one step, as only the task that set `busy` touches the
sink. A drained cell is set to 0; the code leaves its bytes, and `RingKept` is about
exactly that difference. `UploadSession` is the promise, without ring, tasks, gate or
TCP; `Promised` says that `UploadPump` implements it, with `sink` and `image` (what the
sink was told), `core.revocable` and the answer as the refinement mapping. Data count
segments: a unit is a TCP segment. The multipart parser is external and may keep a
segment back. Left out: `gone(gen)` for an older request. If no job could be had, the
abort after a client has gone waits for the next `begin`, in the model as in the code;
liveness speaks of uploads with a job.

### OtaLoader

The app's part (`EnterUpdate`, `EnterLoader`, `AppBegin`, `AppBegun`), the session
(`Load`, `NetInit`, `Push*`, `Pull*`, `Net*`, `Serve*`, and `Leaving`, `Store`, `Drop`,
`Restart` for `returnToApp`), the HTTP task (`UploadAsked`, `UploadTaken`, `Back`) and
the image writer (`Flush`, `Cut`, `Checked`, `Verified`, `Undone`). The slot is its
sectors and, apart, its first bytes: `image_writer.cpp` writes those last. Setting the
boot partition fails for a slot that does not boot, and may fail for a whole one
(otadata that cannot be written). Bootloader,
`esp_image_verify`, NVS and power are external, modelled by what the code relies on.
Left out: the page, access point and station details, HTTP and redirects; how many
attempts were made. `raced` is history: an upload was past its first check when the
session set the app to boot. Properties: OnlyCheckedBoots and OkIsTrue (LoaderHonest),
ImageKept and HandoffKept (LoaderKeeps).

### AppRestart

One action per step of `restartDevice`, `runShutdownOnce`, `waitHooks`, `runFlushOnce`,
`runAfterShutdownOnce` and the esp_restart handler. Time is not counted: `slow`, chosen
at boot, says which of loop, hook, flush and last step overrun, and a bounded wait ends
without its event only if what it waits for is slow. After the reset the behaviour
stutters (`Over`); the next boot is a behaviour of its own. Properties: HooksOnce,
LoopApart, StepLast, StepKept.

### ConfigStore

One entry. A file is a version of the state, `None`, or `Torn`. `Load` is
`ensureLoaded`; the `Save*` actions are `saveStep` and `atomicWrite` by how they end,
`Begin`, `Copy`, `CopyDone`, `Open`, `Write` the steps of one that goes through; `Run`,
`Top`, `Backup`, `Second`, `End` are `writeDeferred`; `Request` and `Freeze` are
`requestSnapshot`, `Snap*` `snapshotSteps`; `Close`, `Closing`, `Flush` are
`flushDeferredNow`; `Wipe` the factory reset's step. The faults are named: `cut`
(power), `copy` and `write` (flash errors), `short` (a short write), `lock` (the
service's state lock times out), `supply` (PowerGuard pauses writes). Left out:
validation, encryption and JSON, the snapshot marker, several entries at once, the path
without a FlashWriter, `restoreAll`, `dumpAll`, restoring one entry from its backup; the
repair of a primary at load is one atomic step. History variables: `done` the last save
that succeeded, `asked` what a backup asked for may hold, `spoilt`, `overtaken`, `taken`
mark three known weaknesses (section 6), which the properties name as exceptions.

### The parts of the flash suite (`MCFlash`)

| module | models | properties | left out |
|--------|--------|------------|----------|
| `FirmwareSlot` | `OtaWriter` and `FirmwareUpdate` under the upload page, the auto-update task and ArduinoOTA: the owner, the lock that lapses after a stall, begin to activate, the loop that kills a late task and restarts a while after (`Kill`, `TimeoutRestart`) | OneImage, BootsWhole, NothingHeld | MD5, size of the slot, version comparison, texts |
| `BootGuard` | the record of a boot in its two blobs, counted at once, then written through the gate: a pass, the FlashWriter's job, the flush of a restart; a reset between any two steps | CrashRunKept, PendingHasWriter, NeverOlder | the uptime record, the manifest |
| `FileWrites` | `FsWriteQueue`: a write done at once, kept in a slot, run by bounded steps; the tree walk; close and flush at a restart | QueuedKept, InOrder | contents of files |
| `FilePromote` | an upload to `<target>.partial` and `FsPromote` on volumes that rename over a file and on FAT; what a mount settles; each rename and remove may fail | NeverNeither, TargetWhole, Settled | the hash, reading, listing |

### The parts of the device suite (`MCDevice`)

| module | models | properties | left out |
|--------|--------|------------|----------|
| `HwClaims` | the registry of pins and channels, releases in progress, an instance whose pins are switched by the loop from a copy | ClaimsApart, OneDriver | pins reserved at run time, notes |
| `SdVolume` | the watcher that mounts, the format task, a background job with its record and what its task still does after the record says ready or done, the archive's stream | OneTask, StreamKept | TAR encoding |
| `SecretLife` | a file's values over boots, firmwares and chips: seal, open, probe, backup, restore, dump; a value or a ciphertext that does not fit its field | NeverLiteral, SealedAtRest | steps of one save (ConfigStore), cryptography |
| `InstallOrder` | `Builder::build`: requirements, priorities, the order, install and the manager handed on | OrderMeant, ManagerGiven | menus, pages |
| `LoopTurn` | one turn of `App::loop`, the wait and `wakeLoop`; the watchdog's arm, pause, resume | NoLateWake, InLine | the modules' own loops |
| `TimeSync` | which sample steps the clock, confirmation, uncertainty, the hold over a soft reset | Honest, SaneStays | zones, listeners, somebody else who steps the clock and a dispute between sources (the code reports both and judges no sample by them) |
| `WifiStation` | saves applied by the loop, two networks (the choice between them made anew in each pass, an attempt under way or not), scans, the driver's events | SaveApplied | static addresses |
| `AccessPoint` | start, stop, the mode, a save, the captive DNS | SaveApplied | the form |
| `Tunnel` | the key pair over boots, the triplet, up and down, the loop's copy of the library's state | KeyWhole | counters |

### The parts of the network suite (`MCNetwork`)

| module | models | properties | left out |
|--------|--------|------------|----------|
| `MqttLink` | connect, reconfigure, go offline with or without an acknowledgement, the end at a restart, the client's callbacks | Honest, AsAsked | TLS, back-off times |
| `MqttTopics` | services' subscriptions, attached topics and the sniffer over one broker; rows pushed to pages | Served, RowsShown | quotas, wildcards |
| `CertLifecycle` | enrollment, rotation, recovery; what is saved, at once or put off, and what TLS presents; tokens | PairKept, TokenOnce, TlsCurrent | X.509, transport |
| `CheckIn` | gates, pace and its overrides, the ring of results, dispatch, the loader's result | RestKept, LoaderTold, PanelPace | the actions |
| `TlsClient` | POSTs over a kept connection, each with a deadline, and what a call leaves in the stream | OwnAnswer | chunked bodies |
| `BleLinks` | the task, discovery by scan, connect and drop, aim, release, writes | Aimed, WriterLives | the scan page, radio parameters |
| `Telegram` | the queue with retries, polling and the backlog, commands handed to the loop | InOrder, RunsOnce | formatting, authorisation |
| `Discovery` | announcements, the table of peers, ages, a lost lock | OneRow, AgesOut | the trust tag |

### The parts of the web suite (`MCWeb`)

| module | models | properties | left out |
|--------|--------|------------|----------|
| `WsPush` | the two queues of a channel, fan-out, snapshots, the resend of dropped frames, what a busy lock loses | Caught | the registry of channels |
| `WsRoster` | identity of a handshake, caps, evictions, pins against a freed client, lock timeouts | SendsToTheLiving, OwnRights, CapsKept, SparesShown | ping times |
| `WsPage` | the page's socket: losses, retries, subscriptions taken, refused or lost, hidden tabs, the watchdog | Served | other frames |
| `PresenceRoster` | hello, pages, REST touches, ends in any order, the loop's purge | Online, PageRight | user agents |
| `PresenceLog` | append with a pass or queued, the job, the flush | InOrder, JobComes | the reader |
| `FilePage` | the listing, queued writes, an upload into a new folder; failed listings, lost answers and polls | ListFresh, NotTooSoon | preview, selection |
| `FormTab` | reads in any order, edits, prefill, saves, the shared cache | NothingPhantom, SavedShown | field types |
| `ManifestPage` | the manifest and its retries, the overlay, actions on demand, sign in and out | MissingIsTrue, OwnManifest | its content |
| `HistPanel` | which tier and resolution a period reads, page by page | PlanHeld, RowsAreThePlans | drawing |
| `HistSeries` | buckets, the roll-up, rings, segment files, torn tails, flush with its failures (seen, or only at the unchecked close), retention, erase, resets | RollupWhole, TakenKept | retention by bytes, encoding |
| `HistQuery` | pages, CSV chunks, the downsampler, files then ring during a flush | RowsOnce, AnswerWhole | selection of columns |

## 3. Runs and bounds

State counts are distinct states.

| run | configuration | shows | instance, states |
|-----|---------------|-------|------------------|
| `gate` | `WriteGate.cfg` | Exclusive, OnePerPause, ForecastHonoured | 2 holders, 2 blocking writers (one bounded), 1 trier with onlyFree; 1.08M |
| `upload` | `UploadPump.cfg` | RingKept, NoOverflow, Promised | 1 upload of 7 units (any number of uploads: `PumpImplementsSession`), ring of 6, an image or a file; 1.55M |
| `config` | `ConfigStore.cfg` | SaveKept, NothingForgotten, BackupIsCurrent | 2 versions, any one fault, 1 request; 1.91M |
| `flash` | `MCFlash.cfg` | WritesComeUp, LoaderHonest, LoaderKeeps, RestartInOrder, BootKept, FilesKept, NeverOvertaken | the loader and the four parts of section 2, FlashWriter, AppRestart; 1.36M |
| `device` | `MCDevice.cfg` | OneUser, SecretsSealed, TurnsKept, NetApplied, TimeHonest | nine parts; 1.88M |
| `network` | `MCNetwork.cfg` | MqttKept, CertKept, CheckInKept, PeersRight, ChatInOrder | eight parts; 1.77M |
| `web` | `MCWeb.cfg` | NothingMissed, ClientsRight | sockets, roster, log; 1.71M |
| `pages` | `MCPages.cfg` on `MCWeb` | PagesTrue, HistoryKept | pages, series, queries; 1.48M |
| `live` | `MCLive.cfg` | AskedIsDone, NobodyWaits | twelve parts, smaller instances; 145k |
| `ota_loader_race` | `OtaLoaderRace.cfg` on `OtaLoader` | finding: NeverGivenUp fails | 2 sectors, 1 update, 2 faults |
| `config_torn` | `ConfigStoreTorn.cfg` on `ConfigStore` | finding: OneVerifies fails | fault `write` only |
| `hw_two_drive` | `HwClaims.cfg` on `HwClaims` | finding: NeverTwoDrive fails | no missed lock |

Every passing run but `live` also checks the types (`TypeOK`, in the suites `TypesOK`).
A property of a suite is the conjunction of the properties of section 2, each said of
its part; which ones, its definition in the MC module tells.

The bounds are constants: those of the suites stand in the `WITH` clauses of the MC
modules (for file uploads and the boot guard in `MCFlash.cfg`), those of the others in
their configurations. Names with Max, but for MaxSteps and MaxWindow, which are the
code's, are bounds of the model on how often something happens (saves, resets, faults,
operations, lost packets); they are in the guards of the actions and nowhere else.
Topics of MqttTopics and addresses of WsRoster are symmetric; no run that checks
liveness uses symmetry.

Why the bounds are enough to be interesting:

- *gate*: a second holder is what makes the earliest forecast, the last window to lapse
  and a close under another's window differ from the simple case. Two queued writers and
  one that tries cover head of queue, behind it, and outside. `MaxWindow`, `MinPause`,
  `Idle` are 2 or 3 ticks, so every comparison of the rules is met from both sides;
  forecasts are 0 (at once) and 3 (past both).
- *upload*: the ring is exactly as small as the code's static assertion permits (a step
  of 2 and `HoldBelow` 4, which is the TCP window of 2 plus 2). Seven units fill it,
  wrap it, and stop the client. `MaxSteps` 1 makes `driveFree` give back its pass most
  often.
- *loader*: two faults are a failed write and a cut during its repair, or a cut in the
  loader twice. Two sectors tell first from later ones.
- *restart*: two callers besides the loop are one that runs the restart and one that
  races it; a fault is a step that overruns or a missing timer.
- *config*: two versions and reversals of a change; one fault. The safety properties ask
  what a boot *would* load in every state (`Recovered`), so a cut after the fault is
  covered too.
- *firmware slot*: three writers of different kinds are all there are; an image is two
  writes, so that an interleaving can mix two images.
- *boot guard*: four boots reach the limit of 2 and go on in safe mode; two changes
  after it (`MaxGen`) are one that is overtaken and one that overtakes.
- *file writes*: two slots and three writes fill the queue and refuse one; a tree of
  three entries has a directory walked in more than one step.
- *uploads*: two, so that the second replaces the first one's file, and two resets, so
  that the repair after the first is itself cut.
- *pages and sockets*: two channels, forms or series tell "the one shown" from another;
  one refusal or loss each gives a late answer to overtake. Two lock timeouts are what a
  handshake needs to find an older identity. The file page opens on a folder (`First`)
  and the user leaves it once, with two writes under way. Three tiers of the history
  are the least in which a period may read any but the finest or the coarsest.
- *station*: two saves are one that comes while the other is being applied.
- *live*: an upload of one full sector; a longer one, with the window held, is only
  checked for safety.
- *network*: two peers, links or keys, with one message or packet lost; restarts where
  the code keeps something over them.

Deadlock is checked for the gate, the upload and the config store. In the suites it is
not: bounds end behaviours, and a loader without Wi-Fi and without an app stops, as in
the code (`stopped`).

## 4. Fairness

Only `live` checks liveness. Its fairness is `MCLive!Fairness`: weak fairness of each
`Weak(i)`, strong fairness of each `Strong(i)`, the actions being those of the part at
work.

- *WriteGate*: a write ends, the clock runs, a blocked writer is refused when writes are
  off. `Admit` is strongly fair: each change that makes a verdict Go (close, leave)
  notifies the waiting writers, and each asks again after 1000 ms at most; only losing
  that race for ever could starve it. Holders have no fairness: they may keep a window
  open or reopen it for ever.
- *FlashWriter*: tasks run; time passes; creating the task succeeds some time if tried
  for ever (RAM is short for a while), and so does a job (a gate is busy for a while).
  That a kept write is done supposes that the supply is on for good from some time on
  (`Supplied`); kickers and the supply have no fairness.
- *UploadPump*: async_tcp, its poll and the job run; a job that waits for a slot gets it
  in the end, which is the gate's liveness; a silent client is closed by its rx timeout
  unless the pump took that off, an answered one by the server. A client owes nothing.
- *OtaLoader*: tasks run, waits end, and if the loader tries for ever the network is
  there some time and the server sends a good image. Faults are never fair and are
  finitely many.
- *AppRestart*: each task is scheduled; a step that is not slow ends; the deadline timer
  fires. Nothing slow is assumed to end.
- *FirmwareSlot*: a transfer ends, time passes, a reset that was asked for comes, a task
  at its end returns. The loop's look at a late task (`Kill`, `Settle`) is strongly
  fair: it comes every turn of the loop, while what it looks at may change in between.
  The restart after a kill (`TimeoutRestart`) comes when its time has passed.
- *FileWrites*: the job runs and the supply comes back. `RunLock` is strongly fair: the
  job asks again until it has the lock.
- *WifiStation*, *AccessPoint*: the loop runs, its periods pass, the driver reports what
  it did. *Tunnel*: the loop looks, and the library's state settles.
- *WsPage*, *ManifestPage*: the browser's timers fire and a request is answered or
  fails; refusals and losses are finitely many.

The other modules have safety properties only, and no fairness.

## 5. What is proved

All proofs are checked by TLAPS. The theorems on a module hold for every value of its
constants, under the assumptions the module names and no others. `MCFlash` takes the
constants of `FilePromote` and `BootGuard` as its own and leaves them arbitrary; its
last eight theorems are about the instances of the `flash` run, whose other constants
are fixed.

Each safety proof has the same shape: an invariant made of named parts, a lemma per part
that a step keeps it (under it a case per action), and the property from the parts. TLC
checked each invariant on its run's instances before it was proved.

**The gate** (`WriteGateProofs`), for every finite set of holders and writers and all
positive times (`GateAssumption`): `GateTypeOK`, `GateExclusive`, `GateOnePerPause`,
`GateForecastHonoured`, from `GateInvariant`, `Spec => []IInv`. `IInv` joins to `TypeOK`
what the properties silently rest on:

- `CountInv`: `writing` is the number of writers under way. Without it "writing = 0"
  would say nothing about the writers (and `TypeOK`'s upper bound on `writing` would not
  be inductive).
- `WindowInv`: once a window was opened, either one is open or a pause is on; a pause
  excludes an open window; an open holder has no forecast. The rule for a write between
  windows looks at `pause`, `Exclusive` and `OnePerPause` at windows.
- `EarlyInv`: before the first window all writes are early or forced, so when the first
  window opens, those under way together are the exception `Exclusive` names.
- `GatedInv`: a write let through in a pause has marked it (`taken`).
- `RoomInv`: room is only given before a forecast at least as far off, and both count
  down together.

The proof has a lemma for each kind of step (holder, grant, wait, leave, time, power)
and lemmas on the operators: what `windowOpen` leaves (`LapseType`, `WindowOrPause`),
that a grant adds exactly one writer (`GrantCounts`), that a ticket taken out leaves a
queue (`QueueType`).

**The config store** (`ConfigStoreProofs`), for any number of versions, of faults of any
kind and of requests (`StoreAssumption`): `StoreTypeOK`, `StoreSaveKept`,
`StoreNothingForgotten` and `StoreBackupIsCurrent`, from `StoreInvariant`, `Spec =>
[]IInv`. The parts answer one question each:

- *Who is where.* `LockInv`, `SlotInv`: who holds the store's lock or the gate's slot is
  told by where it stands, so two that both stand inside are one. `RestartInv`,
  `BootInv`, `WipedInv`: what a restart, a boot and a wipe exclude.
- *What the files are worth between two steps.* `FileInv`: a file that is open for
  writing is torn and a stale one is not good (`TornInv`); what is copied is good to
  copy (`CopyInv`); what is opened has its backup or needs none (`HeldInv`); what RAM
  takes for saved is what was saved last (`DoneInv`).
- *Where the version is that a boot would find.* `KeptInv`: in the primary while no
  backup is held (`GoodInv`), in the backup that is held (`BackupHeldInv`), and in what
  may replace that backup (`RenameInv`). SaveKept alone is not inductive: it says that a
  good file exists, the next step needs to know which.
- *Who writes what is not yet written.* `CoverInv`: a change is on flash, or has a flag
  whose owner will look at it, or is in the hands of one that writes it (`OwedInv`,
  `TakenUpInv`, `NewerInv`). NothingForgotten is this at rest.
- *What a backup asked for may hold.* `BackupInv` (`AskedInv`, `CopyAskedInv`,
  `FrozenInv`).

**The upload pump** (`UploadPump`), for any sector, TCP window, ring, lengths, number of
steps and of uploads that meet the code's static assertions (`CoreAssumption`,
`PumpAssumption`): `UploadTypeOK`, `RingKeptHolds`, `NoOverflowHolds`. What the code
argues in comments is here the invariant:

- `CallInv` and `SinkInv`: the sink is with the one that set `busy`, whoever comes
  meanwhile finds it taken; the calls it had are those of one session, in their order.
- `SentInv`: each unit the client sent is in exactly one place, written, in the ring, in
  the chunk at hand or still under way. `ImageInv` follows: what is in the image is the
  stream.
- `WindowInv`: what may still arrive before the held window bites is less than the ring
  has free (`Needed` against `Spare`). This is why `HoldBelow` is a window and two
  segments, and NoOverflow is not inductive without it: the client may have a whole
  window under way when it is held.
- `CellsInv`, `CopyInv`: the ring's cells, counted from the writer's place, hold the
  stream's units in order, the ones copied outside the lock included.
- `BoundInv`: what was written and what waits is never more than the client has in all.

`PumpImplementsSession` is the refinement: `Spec => Promised`, every step of the pump is
a step of `UploadSession` or leaves its variables alone. A call to the sink, from either
task, is the session's call (`CallsFit`), a chunk that passes straight through
(`StraightFits`), the begin (`BeginsFit`), the answer (`AnswersFit`); the rest stutters
(`SessionStep`).

**The restart** (`AppRestart`, `RestartOrdered`), for any callers, number of modules and
faults: hooks run once and apart from the loop, the last step is last, nobody resets
under it. The invariant says, for each stage, who may be in it: the one that made its
claim; that claims are taken in the order of the stages; and that a waiter that was let
go early was let go by something slow.

**The writer task** (`FlashWriter`), for any kickers and jobs and whenever the listener
is attached: `NoKickLost`, that a kick is never lost between the flag and the
notification (KicksHeard), the task is made once, and what waits to be written is
kicked, held or timed (NothingForgotten), from `AnyInv`. `NoWakeLost` is about a job held
for the supply as well, and cannot be had without more: attached in the middle of a job's
refusal, the listener does lose the wake (HeldRunAgain, section 6). So its statement has
a hypothesis on the behaviour, `[][AttachedInTime]_vars`: no step attaches the listener
between a job's refusal and its note. Nothing in `FlashWriter.cpp:61`–`63` sees to that;
with `AttachAnytime` FALSE, as in the runs, it holds (`InTime`).

**The firmware slot** (`FirmwareSlot`, proved in `MCFlash` as `SlotIsOnes`; the module
has no constants): `OwnerInv` and `GrantInv` tie the owner, the lock and its lapse to
where each user is in its transfer; `SlotInv` says what the slot can hold then;
`BootInv` that only a whole image was activated; `TaskInv` that a task that was killed
does nothing more, and that the loop that killed it gives back what it held, in the time
until the restart too.

**The boot guard** (`BootGuard`, proved in `MCFlash`), for any limit, number of boots
and changes: `CrashRunSurvives` (CrashRunKept and PendingHasWriter) and `CopiesInOrder`
(NeverOlder). A copy of the record handed to a writer is never older than what is on
flash, and a lemma for each hand-over (pass, job, flush) says who owns the pending
change next.

**Queued file writes** (`FileWrites`), for any slots, step bound, tree size and number
of writes: `WritesKept` (QueuedKept) and `WritesInOrder` (InOrder, an action property).
The heart is that the asker does a write itself only while nothing else is kept, and
that what the job or the flush has in hand is the oldest kept one (`NowInv`, `JobInv`,
`FlushInv`), which needs that numbers are given in the order asked (`NumberInv`).

**File uploads** (`FilePromote`, proved in `MCFlash` as `UploadSurvives`), for any
number of uploads, resets and failures: NeverNeither, TargetWhole, Settled. `WholeInv`
says where a part may be, `DebrisInv` what a mount finds set aside, `KeptInv` that at
each step of the promotion the old file or the new one has a name, and `BackInv` that
the settling of a mount has not yet passed the target while it owes it its name.

**The loader** (`OtaLoader`, `UpdateHonest`), for any number of sectors, of updates and
of faults (`LoaderAssumption`): OnlyCheckedBoots, OkIsTrue, ImageKept and HandoffKept.
It does not say that a failed update leaves an image to boot: the single slot is erased
at the point of no return. It says that the handoff is then still there.
`OwnerInv` says that the image writer is at work for the one that has it and nobody
else; `ImageInv` that the first bytes go in once the image was checked, and that from
then on nobody has the writer; `DoneInv` and `ResultInv` that "ok" is said, stored and
read only of an image that is in; `GoingInv` that the slot a session leaves with stays
as it was found, but for an upload that was past its first check (`raced`, section 6);
`HandoffInv` that a handoff dropped before its update ended left an app.

**The suite** (`MCFlash`): `TypesOKHolds`, `WritesComeUpHolds`, `LoaderHonestHolds`,
`LoaderKeepsHolds`, `RestartInOrderHolds`, `BootKeptHolds`, `FilesKeptHolds` and
`NeverOvertakenHolds` carry these to the run's own properties: the part at work stays
the same (`AtWork`), each part's invariant holds at first and is kept by every step
(`PartsInit`, `PartsNext`), and what it shows is the conjunct of the property.
`Constants` says that the instances' constants meet the modules' assumptions.

Out of the prover's reach, and left to TLC: liveness (AskedIsDone, NobodyWaits) and
whatever needs ENABLED; and induction over data: what a recursive function of a module
computes for every input. Proofs use no RECURSIVE operator.

## 6. Findings

Each is a run that is expected to find the violation.

1. `ota_loader_race`: an upload past its first check takes the writer as the session
   leaves with a whole slot (`loader_main.cpp:119`); the session drops the handoff, the
   upload erases the slot and may fail. `loader_main.cpp:247` says "Past the point of no
   return a pull is never given up".
2. `config_torn`: after a failed write the file may be torn while `primaryStale()` is
   false (`ConfigManager.cpp:766`); a queued Save Backup copies it over the one good
   backup, where `ConfigManager.cpp:1429` says a cut must not leave neither and
   `ConfigManager.h:811` "no retry copies it over the backup".
3. `hw_two_drive`: the pins are switched from a copy of the settings; when a save comes
   between the copy and `released()` (`TemplateExtHwService.cpp:263`), the old pin is
   let go while it is still driven, where line 258 says no other instance can have
   started driving it.

### Further disagreements

These came up while modelling. Each is an operator of its module that TLC finds violated
(where a constant is named, with that value); they are not among the runs.

| operator | the code | what it is held against |
|----------|----------|-------------------------|
| FlashWriter `HeldRunAgain` | `FlashWriter.cpp:63` looks at the listener after the job returned | `FlashWriter.h:44` |
| ConfigStore `StaysDeferred` | `ConfigManager.h:551` forgets a late save when the lock times out | `ConfigManager.h:155` |
| FilePromote `NeitherAtAll` | two uploads of one target overlap | `FileSystemService.cpp:614`–`616` |
| SdVolume `MountTried` | a mount answered "starting" with a watcher on its way out | `FileSystemService.cpp`, about line 936 |
| SecretLife `RecordStays` | a save of another field rewrites a record that could not be opened | `ConfigManager.cpp:1091`–`1094` |
| SecretLife `BackupRestored` | the restart saves over what was restored | `ConfigManagerService.cpp:116`–`118` |
| InstallOrder `FailsFast` | a mistake is logged, the rest installed (`Builder.cpp:194`–`201`) | `Builder.h:132`–`134` |
| AccessPoint `PortalHere` | DNS answers the address before the save | `APSettingsService.cpp:258`–`264` |
| Tunnel `TripletWorked`, `FreshDialled` | the triplet is kept before it worked, and after `down()` | `IWireguardProvider.h`, `WireguardService.h` |
| MqttLink `NeverGhost` | a session ended without its will | `MqttSettingsService.h:579`–`582` |
| MqttLink (a save during configure) | the flag is cleared after the settings were read | `MqttSettingsService.cpp:376`–`381` |
| MqttTopics `AttachedStay` | the sniffer's end drops a pattern others need | `MqttSettingsService.cpp:941`–`944` |
| CertLifecycle `PairMatches` | key and certificate of two attempts | `CertManagerService.h:362`–`368` |
| CheckIn `LargeArrives` | more chunks than the ring drop the first ones | `MothershipService.cpp:1338`–`1340` |
| TlsClient `OwnAnswer`, MaxLateHead 1 | a head that comes after its deadline | `PersistentTlsClient.cpp:393`–`395` |
| BleLinks `PeersApart` | two scans under way find one peer | `BleService.cpp:326` |
| Telegram `FirstTaken` | the first command after a failed first poll | `TelegramService.cpp:894`–`895` |
| Discovery `OneRow`, Long {"p"} | an id that was cut is compared whole | `DiscoveryService.cpp:58`–`59`, `277`, `285` |
| WsPush `NoOlder` | two tasks queue their frames in the other order | `WsManager.h:1095`–`1098` |
| WsPage `ComesBack`, MaxPong 1 | a socket that the server thinks alive | `WsManager.h:1476`–`1542`; `useWs.ts:53`–`58` |
| PresenceRoster `OnlineListed` | the loop erases without a lock | `docs/module-catalog.md:954` |
| PresenceLog `FlushedWhole` | a line still in the job's hand | `PresenceLogWriter.h:103`–`106`; `PresenceService.h:95`–`97` |
| FormTab `TabLoads` | an answer dropped with nothing asked again | `useRest.ts:29`–`37` |
| FormTab `DeviceShown`, `SentIsShown` | the cache wins over what was read | `DynamicSettings.tsx:99`–`101`, `287` against `292`–`294` |
| ManifestPage `MissingIsTrue`, MaxTurns 2 | the list of an earlier sign-in | `ManifestLoader.tsx:133`–`135` |
| HistPanel `LoadingEnds` | the flag outlives the job | `useHistoryData.ts:174`–`184`, `253` |
| HistSeries `FlushedStays` | the segment is removed before its copy is renamed, `HistSeriesImpl.cpp:361` | `IHistory.h:37`–`38` |
| HistQuery `RowsOnce`, Midnights {1, 3, 6} | a bucket across a chunk's midnight | `docs/plans/history.md:154` |

The weaknesses below are exceptions that the properties name: they do happen, and the
property says what holds but for them.

- `BootsWhole` (`gave`): ArduinoOTA gives the update back before it restarts
  (`OTASettingsService.cpp:229`), so an upload that begins in between writes the slot
  that is set to boot.
- `SaveKept`, both listed as hazards: a save that goes between the writer's two steps
  makes its backup older than the last save (`overtaken`), and a short write is taken as
  written (`spoilt`).
- `TokenOnce` (`spent = "lost"`): the wipe of a spent bootstrap token is saved like any
  other change, and put off when the gate, the supply or the lock say no
  (`CertManagerService.cpp:356`–`359`, `ConfigManager.h:763`–`777`). A reset before that
  write brings the token back, and the next enrollment sends it, against
  `CertManagerService.h:94`–`95`.
- `Caught` (`Lost`): a frame that `processTx` took from the queue when the roster's lock
  was busy goes to nobody (`WsManager.h:1183`–`1187`), and one that could not be built is
  not built again; the pages show the older state until the next change.
- `WsPage` `Served` (`lost`): the page is not told of a subscription that the device did
  not take in, for want of the right or of the lock (`WsManager.h:1265`–`1273`).
- `OwnRights` (`bare`): when an old identity's drop and the new one's stash both time out
  on the roster's lock within the life of an entry (`WsManager.h:729`–`735`,
  `758`–`763`), the connection takes the older identity, against lines 732 and 748–752.
- `ListFresh`, `NotTooSoon` (`"lost"`): a poll that fails otherwise than with 503 or 404
  ends the wait for a write that is still queued (`fs.ts:214`–`219`); a folder's upload
  goes on without its folder (`FilesField.tsx:397`–`399`, against 394–395), and a write
  that lands later, or whose answer was lost, is not listed.
- `SealedAtRest` (`unfit`): a save is dropped when a sealed secret does not fit its field
  (`ConfigManager.h:784`–`789`), and what was plain in the file stays so.
- `TakenKept`: a second reset in the middle of a cut (`FlushedStays` above), and rows
  whose write fails only at the unchecked `f.close()` (`HistSeriesImpl.cpp:492`–`493`):
  they are taken off the ring as written (`CloseFails`, `held`).

## 7. Only model-checked; left out

Only model-checked:

- the device, network, web and pages runs: their modules have no theorem yet, so what
  they show is shown for the bounds of section 3;
- liveness, `AskedIsDone` and `NobodyWaits`, for the reason in section 5;
- that the three findings happen: a trace of TLC.

Not modelled: the web manager and the rendering of forms (data, no concurrency of their
own); the NVS and RTC records beneath BootGuard, TimeSync and OtaLoader, which take a
record as written whole or not at all; diagnostics (reads); sign-in on the device (each
answered within one request); the RS485 framer and the board tables; small modules that
hand a request on to a modelled part; the widgets and themes of the web UI; host tests
and build tools. What each modelled part leaves out is in section 2 and in the component
list of `PROJECT.json`.

Hazards that no property covers carry a note in `PROJECT.json`.

## 8. Plan

Done: the modules of section 2, their suites, and the proofs of section 5.

Next, to model: the two RTC slots and a cut between them, under BootGuard and TimeSync;
`HistoryService::end` at a restart; several configuration entries in one run (a Save
Backup over all of them).

Next, to prove: of the device suite LoopTurn (a wake is not late, the watchdog's order)
and SecretLife (no secret at rest in the clear), which have few actions and no bound but
the number of boots; of the network suite CertLifecycle and CheckIn, where what is kept
over a restart needs an invariant like the config store's; of the web suite WsPush (a
page ends up with the last frame), with an abstract channel that it refines.

To run: `tlc -config MCFlash.cfg MCFlash`, `tlc -config MCPages.cfg MCWeb`, and the like
for the other configurations of section 3. To prove: `tlapm WriteGateProofs.tla`, and
the same for `UploadPump`, `ConfigStoreProofs`, `AppRestart`, `FlashWriter`,
`OtaLoader`, `FileWrites` and `MCFlash`.
