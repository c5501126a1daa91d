----------------------------- MODULE UploadPump -----------------------------
(***************************************************************************)
(* UploadPump: an upload received on async_tcp (net) and written into      *)
(* flash through the write gate, straight from net while the gate is free, *)
(* else through a ring by a FlashWriter job (job).  A step is one section  *)
(* under the pump's lock, or one call of the sink, or the copy into the    *)
(* ring; the client, the request's events, the gate and the supply come in *)
(* between as they like.                                                   *)
(*                                                                         *)
(* The core (UploadPumpCore) is the bookkeeping of one upload, without     *)
(* locks, tasks or TCP: the producer fills a ring, the writer drains it in *)
(* steps that end on a sector boundary, and the sink's calls come one at a *)
(* time: open, the writes, finish (as often as the sink asks), or the      *)
(* abort.  Each of its methods is an operator from its fields to its       *)
(* fields.  A unit of data stands for a TCP segment; Sector, HoldBelow and *)
(* RingSize are counted in it.                                             *)
(*                                                                         *)
(* The client sends one segment per unit of data and a closing one; the    *)
(* multipart parser (not in this repository) may keep a segment back.      *)
(***************************************************************************)
EXTENDS Integers, Sequences, TLAPS

CONSTANTS
  Sector,      \* FlashSteps::kSector
  HoldBelow,   \* free ring space under which the TCP window is held
  RingSize,    \* UploadPump::kRingMin
  TcpWindow,   \* segments a client may have unacknowledged (TCP_WND)
  Lengths,     \* how long an upload may be
  Sinks,       \* the kinds of sink: "image" (OtaWriter), "file"
  MaxSteps,    \* driveFree: calls of the sink per turn (kMaxSteps)
  MaxUploads   \* bound: uploads begun

\* static_assert: a ring holds a step and what may come once the window is held.
ASSUME CoreAssumption ==
  /\ Sector \in Nat \ {0} /\ HoldBelow \in Nat \ {0}
  /\ RingSize \in Nat /\ RingSize >= Sector + HoldBelow

\* holdBelow is TCP_WND + 2 TCP_MSS.
ASSUME PumpAssumption ==
  /\ TcpWindow \in Nat \ {0} /\ HoldBelow = TcpWindow + 2
  /\ Lengths \subseteq Nat /\ MaxSteps \in Nat \ {0} /\ MaxUploads \in Nat
  /\ Sinks \subseteq {"image", "file"}

-----------------------------------------------------------------------------
(* UploadPumpCore. *)

Results == {"Ok", "SinkFailed", "Overflow", "NoMemory", "NoWriter", "Stalled", "Aborted"}
Acts == {"None", "Open", "Write", "Finish", "Abort"}

Core ==
  [phase : {"Idle", "Running", "Settled"}, result : Results,
   busy : BOOLEAN, copying : BOOLEAN, open : BOOLEAN, live : BOOLEAN,
   finishing : BOOLEAN, revocable : BOOLEAN, final : BOOLEAN, held : BOOLEAN,
   size : {0, RingSize}, rd : 0..RingSize, used : 0..RingSize, written : Nat]

NewCore ==
  [phase |-> "Idle", result |-> "Ok", busy |-> FALSE, copying |-> FALSE,
   open |-> FALSE, live |-> FALSE, finishing |-> FALSE, revocable |-> FALSE,
   final |-> FALSE, held |-> FALSE, size |-> 0, rd |-> 0, used |-> 0, written |-> 0]

Running(c) == c.phase = "Running"
Failed(c) == c.result # "Ok"
Accepting(c) == Running(c) /\ ~Failed(c) /\ ~c.final
Room(c) == c.size - c.used

-----------------------------------------------------------------------------
(* The session. *)

\* Fault: a new session begins while the last sink is still being aborted.
CanBegin_StillBusy(c) == ~Running(c) \/ Failed(c)
CanBegin(c) == ~Running(c) /\ ~c.busy /\ ~c.copying

\* A ring that nobody took back stays for the new session.
BeginCore(c, revocable) ==
  [NewCore EXCEPT !.phase = "Running", !.live = TRUE, !.revocable = revocable, !.size = c.size]

SetRing(c) == [c EXCEPT !.size = RingSize, !.rd = 0, !.used = 0]

\* Fault: the ring is freed under the producer's copy.
Takeable_WhileCopied(c) == c.size > 0 /\ ~c.busy /\ ~(Running(c) /\ ~Failed(c))
Takeable(c) == c.size > 0 /\ ~c.copying /\ ~c.busy /\ ~(Running(c) /\ ~Failed(c))
TakeRing(c) == IF Takeable(c) THEN [c EXCEPT !.size = 0, !.rd = 0, !.used = 0] ELSE c

FinalCore(c) == IF Running(c) THEN [c EXCEPT !.final = TRUE] ELSE c

\* The first failure counts; with nothing to abort the session is over.
FailCore(c, r) ==
  IF ~Running(c) THEN c
  ELSE [c EXCEPT !.result = IF Failed(c) THEN @ ELSE r,
                 !.phase = IF ~c.live /\ ~c.busy THEN "Settled" ELSE @]

-----------------------------------------------------------------------------
(* The producer. *)

Keeps(c, len) == Accepting(c) /\ c.size > 0 /\ len <= Room(c)
ReserveCore(c, len) ==
  IF Accepting(c) /\ c.size > 0 /\ len > Room(c) THEN FailCore(c, "Overflow")
  ELSE [c EXCEPT !.copying = Keeps(c, len) /\ len > 0]
CommitCore(c, len) ==
  [c EXCEPT !.used = IF c.copying /\ Running(c) THEN @ + len ELSE @, !.copying = FALSE]

\* What to do with the TCP window; a session that keeps nothing lets it flow.
\* Fault: the window is held only once less than a window is free.
Full_Late(c) == Accepting(c) /\ c.size > 0 /\ Room(c) < HoldBelow - 2
Full(c) == Accepting(c) /\ c.size > 0 /\ Room(c) < HoldBelow
HoldWindow(c) == Full(c)
Reopens(c) == c.held /\ ~Full(c)
WindowCore(c) == [c EXCEPT !.held = HoldWindow(c)]

-----------------------------------------------------------------------------
(* The writer. *)

StepRoom(written) == Sector - (written % Sector)
StepLen(c) == IF c.used < StepRoom(c.written) THEN c.used ELSE StepRoom(c.written)
MustFinish(c) == c.finishing /\ ~(Failed(c) /\ c.revocable)

Pending(c) ==
  /\ Running(c) /\ ~c.busy
  /\ \/ MustFinish(c)
     \/ Failed(c) /\ c.live
     \/ ~Failed(c) /\ (~c.open \/ c.final \/ c.used >= StepRoom(c.written))

Peek(c) ==
  IF ~Pending(c) THEN "None"
  ELSE IF MustFinish(c) THEN "Finish"
  ELSE IF Failed(c) THEN "Abort"
  ELSE IF ~c.open THEN "Open"
  ELSE IF c.used = 0 THEN "Finish" ELSE "Write"

\* next(): the call to make, its data, and the sink taken until done().
NextCall(c) == [act |-> Peek(c), at |-> c.rd, len |-> IF Peek(c) = "Write" THEN StepLen(c) ELSE 0]
NextCore(c) ==
  [c EXCEPT !.busy = @ \/ Peek(c) # "None", !.finishing = @ \/ Peek(c) = "Finish"]

\* After the wait for a slot: no step for a session that is over.
Confirm(c, a) ==
  IF Failed(c) /\ Running(c) /\ (a \in {"Open", "Write"} \/ (a = "Finish" /\ c.revocable))
  THEN "Abort" ELSE a

\* Fault: a straight write goes past what waits in the ring.
CanClaim_PastRing(c) == Running(c) /\ ~Failed(c) /\ ~c.busy /\ ~c.copying
CanClaim(c) == Running(c) /\ ~Failed(c) /\ ~c.busy /\ ~c.copying /\ c.used = 0
ClaimCore(c) == [c EXCEPT !.busy = TRUE]

OpenedCore(c, ok) == IF ok THEN [c EXCEPT !.open = TRUE] ELSE FailCore(c, "SinkFailed")

\* Fault: the writer's place runs past the ring's end.
WroteCore_NoWrap(c, n, ok, fromRing) ==
  IF ~ok THEN FailCore(c, "SinkFailed")
  ELSE [c EXCEPT !.written = @ + n, !.used = IF fromRing THEN @ - n ELSE @,
                 !.rd = IF fromRing THEN @ + n ELSE @]

WroteCore(c, n, ok, fromRing) ==
  IF ~ok THEN FailCore(c, "SinkFailed")
  ELSE LET taken == IF ~fromRing \/ c.size = 0 THEN 0 ELSE IF n > c.used THEN c.used ELSE n
       IN [c EXCEPT !.written = @ + n, !.used = @ - taken,
                    !.rd = IF c.size = 0 THEN @ ELSE (@ + taken) % c.size]

\* A revocable sink that is done after a failure is not committed: the abort follows.
FinishedCore(c, r) ==
  LET d == [c EXCEPT !.finishing = FALSE]
  IN CASE r = "more"   -> c
       [] r = "failed" -> FailCore(d, "SinkFailed")
       [] r = "done" /\ Failed(c) /\ c.revocable -> d
       [] OTHER        -> [d EXCEPT !.open = FALSE, !.live = FALSE, !.phase = "Settled"]

AbortedCore(c) ==
  [c EXCEPT !.open = FALSE, !.live = FALSE, !.finishing = FALSE, !.phase = "Settled"]

DoneCore(c) ==
  [c EXCEPT !.busy = FALSE,
            !.phase = IF Running(c) /\ Failed(c) /\ ~c.live THEN "Settled" ELSE @]

-----------------------------------------------------------------------------
(* UploadPump. *)

\* An image's abort writes no flash, and its finish can be taken back.
NoFlashOf(k) == IF k = "image" THEN {"Abort"} ELSE {}
Revocable(k) == k = "image"

VARIABLES
  core,      \* _core
  ring,      \* the ring's cells; 0 is a cell that holds nothing of the stream
  sink,      \* what became of _sink: see UploadSession
  noFlash,   \* _sink.noFlash
  image,     \* what the sink was given
  hasJob,    \* attach() got a FlashWriter job
  due,       \* the job was kicked or asked for another turn
  onPower,   \* the job returned kOnPower
  jpc, jcall,\* the job: where it is in run(), its call of the sink
  npc, back, \* async_tcp: where it is in a handler, where driveFree returns
  ncall,     \* its call of the sink
  steps,     \* driveFree: calls made this turn
  pass,      \* driveFree got a pass
  chunk,     \* push: its data (where it goes in the ring) and whether it is the last
  req,       \* the request: "none", its "body", "paused" by finish, "answered"
  answer,    \* what it was answered
  watching,  \* the pump's poll and packet handlers are set
  rxOff,     \* the client's rx timeout is off
  length, sent,  \* of the client's upload; units it has sent
  parsed,    \* units the parser keeps back
  unacked,   \* segments not acknowledged
  stale,     \* no progress for the stall time
  gate,      \* who writes flash now: "free", "net", "job"
  allowed,   \* PowerGuard::writesAllowed
  uploads    \* uploads begun

flash == <<gate, allowed>>
job == <<due, onPower, jpc, jcall>>
tcp == <<req, answer, watching, rxOff, length, sent, parsed, unacked>>
net == <<npc, back, ncall, steps, pass, chunk>>
data == <<ring, sink, noFlash, image>>
vars == <<core, data, hasJob, job, net, tcp, stale, flash, uploads>>

NoCall == [act |-> "None", at |-> 0, len |-> 0]
NoChunk == [len |-> 0, last |-> FALSE, at |-> 0, keep |-> FALSE, kept |-> FALSE]
Cells == 0..(RingSize - 1)

Init ==
  /\ core = NewCore /\ ring = [i \in Cells |-> 0]
  /\ sink = "none" /\ noFlash = {} /\ image = <<>>
  /\ hasJob \in BOOLEAN /\ due = FALSE /\ onPower = FALSE /\ jpc = "idle" /\ jcall = NoCall
  /\ npc = "idle" /\ back = "idle" /\ ncall = NoCall /\ steps = 0 /\ pass = FALSE
  /\ chunk = NoChunk /\ req = "none" /\ answer = "none" /\ watching = FALSE /\ rxOff = FALSE
  /\ length = 0 /\ sent = 0 /\ parsed = 0 /\ unacked = 0 /\ stale = FALSE
  /\ gate = "free" /\ allowed = TRUE /\ uploads = 0

NetIdle == npc = "idle"
NetStep(from, to) == npc = from /\ npc' = to
Drive(then) == npc' = "drive" /\ back' = then
Progress == stale' = FALSE

-----------------------------------------------------------------------------
(* A call of the sink, by whoever has it (act).  The call and the section   *)
(* that notes its result are one step: only the holder touches the sink.    *)

Stream(at, len) == [i \in 1..len |-> ring[(at + i - 1) % RingSize]]
Drained(at, len) == [i \in Cells |-> IF (i - at) % RingSize < len THEN 0 ELSE ring[i]]

Act(call) ==
  \/ /\ call.act = "Open"
     /\ \E ok \in BOOLEAN : core' = OpenedCore(core, ok) /\ sink' = IF ok THEN "open" ELSE "failed"
     /\ UNCHANGED <<ring, image>>
  \/ /\ call.act = "Write"
     /\ \/ /\ image' = image \o Stream(call.at, call.len)
           /\ core' = WroteCore(core, call.len, TRUE, TRUE)
           /\ ring' = Drained(call.at, call.len) /\ UNCHANGED sink
        \/ /\ core' = WroteCore(core, call.len, FALSE, TRUE) /\ sink' = "failed"
           /\ UNCHANGED <<ring, image>>
  \/ /\ call.act = "Finish"
     /\ \/ sink = "open" /\ sink' = "finishing" /\ core' = FinishedCore(core, "more")
        \/ /\ core' = FinishedCore(core, "done")
           /\ sink' = IF Running(core') THEN "done" ELSE "committed"
        \/ core' = FinishedCore(core, "failed") /\ sink' = "failed"
     /\ UNCHANGED <<ring, image>>
  \/ /\ call.act = "Abort"
     /\ core' = AbortedCore(core) /\ sink' = "aborted"
     /\ UNCHANGED <<ring, image>>

NeedsSlot(a) == a = "Write" \/ a \notin noFlash
Empty(c) == [i \in Cells |-> IF c.size = 0 THEN 0 ELSE ring[i]]

-----------------------------------------------------------------------------
(* async_tcp: driveFree, a few calls in a pass while the gate is free.      *)

NetOnly == UNCHANGED <<hasJob, uploads, noFlash, allowed, jpc, jcall, onPower>>
SameRequest == UNCHANGED <<tcp, chunk>>

DriveStart ==
  /\ npc = "drive"
  /\ IF ~Pending(core) THEN npc' = "driven" /\ UNCHANGED <<gate, pass, steps>>
     ELSE /\ npc' = "steps" /\ steps' = 0
          /\ \/ gate = "free" /\ allowed /\ gate' = "net" /\ pass' = TRUE
             \/ pass' = FALSE /\ UNCHANGED gate
  /\ NetOnly /\ SameRequest /\ UNCHANGED <<core, ring, sink, image, due, back, ncall, stale>>

MayCall(a) == a # "None" /\ (pass \/ (~hasJob /\ ~NeedsSlot(a)))

DriveNext ==
  /\ npc = "steps"
  /\ IF steps < MaxSteps /\ MayCall(Peek(core))
     THEN /\ npc' = "act" /\ ncall' = NextCall(core) /\ core' = NextCore(core)
          /\ UNCHANGED <<gate, pass, steps>>
     ELSE /\ npc' = "driven" /\ pass' = FALSE /\ steps' = 0
          /\ gate' = (IF pass THEN "free" ELSE gate) /\ UNCHANGED <<core, ncall>>
  /\ NetOnly /\ SameRequest /\ UNCHANGED <<ring, sink, image, due, back, stale>>

DriveAct ==
  /\ NetStep("act", "acted") /\ Act(ncall)
  /\ NetOnly /\ SameRequest /\ UNCHANGED <<due, back, ncall, steps, pass, stale, gate>>

DriveDone ==
  /\ NetStep("acted", "steps")
  /\ core' = DoneCore(core) /\ steps' = steps + 1 /\ ncall' = NoCall /\ Progress
  /\ NetOnly /\ SameRequest /\ UNCHANGED <<ring, sink, image, due, back, pass, gate>>

\* The rest is the job's; without one the kick is lost.
DriveEnd ==
  /\ npc = "driven" /\ npc' = back /\ back' = "idle"
  /\ core' = TakeRing(core) /\ ring' = Empty(core')
  /\ due' = (due \/ (hasJob /\ Pending(core)))
  /\ NetOnly /\ SameRequest /\ UNCHANGED <<sink, image, ncall, steps, pass, stale, gate>>

DriveFree == DriveStart \/ DriveNext \/ DriveAct \/ DriveDone \/ DriveEnd

-----------------------------------------------------------------------------
(* async_tcp: begin and push. *)

NoSink == UNCHANGED <<sink, image>>
NoGate == UNCHANGED <<pass, gate, steps, ncall>>

\* The first chunk of a request: the last upload's abort is tried first
\* where no job will do it.
Begin ==
  /\ NetIdle /\ req = "none" /\ uploads < MaxUploads
  /\ IF hasJob THEN npc' = "begin" /\ UNCHANGED back ELSE Drive("begin")
  /\ UNCHANGED <<core, data, hasJob, job, tcp, ncall, steps, pass, chunk, stale, flash, uploads>>

Begun ==
  /\ npc = "begin"
  /\ IF ~CanBegin(core)
     THEN /\ npc' = "idle"
          /\ UNCHANGED <<core, ring, sink, image, noFlash, tcp, chunk, stale, uploads>>
     ELSE \E k \in Sinks, n \in Lengths :
       /\ core' = BeginCore(TakeRing(core), Revocable(k)) /\ ring' = Empty(core')
       /\ noFlash' = NoFlashOf(k) /\ sink' = "fresh" /\ image' = <<>>
       /\ req' = "body" /\ answer' = "none" /\ watching' = FALSE /\ rxOff' = FALSE
       /\ length' = n /\ sent' = (IF n = 0 THEN 0 ELSE 1) /\ parsed' = 0 /\ unacked' = 0
       /\ chunk' = [NoChunk EXCEPT !.len = sent', !.last = n = 0]
       /\ npc' = "push" /\ uploads' = uploads + 1 /\ Progress
  /\ NoGate /\ UNCHANGED <<hasJob, job, back, allowed>>

\* A later segment: the parser pushes what it has or keeps this one.
Segment ==
  /\ NetIdle /\ req = "body" /\ sent < length /\ unacked < TcpWindow
  /\ sent' = sent + 1
  /\ \/ /\ npc' = "push" /\ parsed' = 0 /\ UNCHANGED unacked
        /\ chunk' = [NoChunk EXCEPT !.len = parsed + 1]
     \/ /\ parsed = 0 /\ parsed' = 1
        /\ unacked' = IF core.held THEN unacked + 1 ELSE unacked
        /\ UNCHANGED <<npc, chunk>>
  /\ NetOnly /\ NoGate /\ NoSink
  /\ UNCHANGED <<core, ring, due, back, req, answer, watching, rxOff, length, stale>>

\* The closing one: a body cut short never gets its last chunk.
LastSegment ==
  /\ NetIdle /\ req = "body" /\ sent = length /\ unacked < TcpWindow
  /\ \/ npc' = "push" /\ chunk' = [NoChunk EXCEPT !.len = parsed, !.last = TRUE]
     \/ npc' = "finish" /\ UNCHANGED chunk
  /\ parsed' = 0
  /\ NetOnly /\ NoGate /\ NoSink
  /\ UNCHANGED <<core, ring, due, back, req, answer, watching, rxOff, length, sent, unacked, stale>>

AfterPush == IF chunk.last THEN "finish" ELSE "idle"
PushOnly == NetOnly /\ UNCHANGED <<sent, parsed, length, req, answer>>
SameTcp == UNCHANGED <<unacked, watching, rxOff>>

\* One bounded write may go straight through, past an empty ring.
Push ==
  /\ npc = "push"
  /\ LET keep == Accepting(core)
         direct == keep /\ chunk.len <= Sector /\ CanClaim(core)
     IN /\ core' = (IF direct THEN ClaimCore(core) ELSE core)
        /\ stale' = (stale /\ ~(keep /\ chunk.len > 0))
        /\ npc' = CASE direct -> "pass" [] keep /\ ~direct -> "ring" [] OTHER -> "window"
        /\ chunk' = [chunk EXCEPT !.keep = keep]
  /\ PushOnly /\ NoGate /\ NoSink /\ SameTcp /\ UNCHANGED <<ring, due, back>>

DirectPass ==
  /\ npc = "pass"
  /\ \/ /\ gate = "free" /\ allowed /\ gate' = "net" /\ UNCHANGED core
        /\ npc' = IF core.open THEN "write" ELSE "open"
     \/ npc' = "ring" /\ core' = DoneCore(core) /\ UNCHANGED gate
  /\ PushOnly /\ NoSink /\ SameTcp /\ UNCHANGED <<ring, due, back, ncall, steps, pass, chunk, stale>>

DirectOpen ==
  /\ npc = "open"
  /\ Act([NoCall EXCEPT !.act = "Open"])
  /\ npc' = IF core'.open THEN "write" ELSE "written"
  /\ PushOnly /\ NoGate /\ SameTcp /\ UNCHANGED <<due, back, chunk, stale>>

DirectWrite ==
  /\ NetStep("write", "written")
  /\ \/ chunk.len = 0 /\ UNCHANGED <<core, sink, image>>
     \/ /\ chunk.len > 0
        /\ core' = WroteCore(core, chunk.len, TRUE, FALSE) /\ UNCHANGED sink
        /\ image' = image \o [k \in 1..chunk.len |-> sent - chunk.len + k]
     \/ /\ chunk.len > 0 /\ sink' = "failed"
        /\ core' = WroteCore(core, chunk.len, FALSE, FALSE) /\ UNCHANGED image
  /\ PushOnly /\ NoGate /\ SameTcp /\ UNCHANGED <<ring, due, back, chunk, stale>>

DirectDone ==
  /\ npc = "written" /\ Drive(AfterPush)
  /\ core' = DoneCore(IF chunk.last THEN FinalCore(core) ELSE core)
  /\ gate' = "free" /\ Progress /\ chunk' = NoChunk
  /\ unacked' = IF core.held THEN unacked + 1 ELSE unacked
  /\ PushOnly /\ NoSink /\ UNCHANGED <<ring, due, ncall, steps, pass, watching, rxOff>>

\* ensureRing, when the chunk has to wait.
EnsureRing ==
  /\ npc = "ring"
  /\ \/ /\ chunk.len = 0
        /\ chunk' = [chunk EXCEPT !.kept = TRUE] /\ npc' = "window" /\ UNCHANGED core
     \/ /\ chunk.len > 0 /\ ~hasJob
        /\ core' = FailCore(core, "NoWriter") /\ npc' = "window" /\ UNCHANGED chunk
     \/ /\ chunk.len > 0 /\ hasJob /\ UNCHANGED chunk
        /\ \/ core.size > 0 /\ npc' = "reserve" /\ UNCHANGED core
           \/ core.size = 0 /\ npc' = "reserve" /\ core' = SetRing(core)
           \/ core.size = 0 /\ npc' = "window" /\ core' = FailCore(core, "NoMemory")
  /\ PushOnly /\ NoGate /\ NoSink /\ SameTcp /\ UNCHANGED <<ring, due, back, stale>>

Reserve ==
  /\ npc = "reserve"
  /\ core' = ReserveCore(core, chunk.len)
  /\ IF Keeps(core, chunk.len)
     THEN /\ npc' = "copy"
          /\ chunk' = [chunk EXCEPT !.kept = TRUE, !.at = (core.rd + core.used) % core.size]
     ELSE npc' = "window" /\ UNCHANGED chunk
  /\ PushOnly /\ NoGate /\ NoSink /\ SameTcp /\ UNCHANGED <<ring, due, back, stale>>

\* Outside the lock: the writer only reads what is committed.
Copy ==
  /\ NetStep("copy", "commit")
  /\ ring' = [i \in Cells |->
       LET k == (i - chunk.at) % RingSize
       IN IF k < chunk.len THEN sent - chunk.len + k + 1 ELSE ring[i]]
  /\ PushOnly /\ NoGate /\ NoSink /\ SameTcp /\ UNCHANGED <<core, chunk, due, back, stale>>

Commit ==
  /\ NetStep("commit", "window")
  /\ core' = CommitCore(core, chunk.len)
  /\ PushOnly /\ NoGate /\ NoSink /\ SameTcp /\ UNCHANGED <<ring, chunk, due, back, stale>>

\* The window is held, kept held, or opened for everything held.
PushEnd ==
  /\ npc = "window"
  /\ LET c == IF chunk.kept /\ chunk.last THEN FinalCore(core) ELSE core
     IN /\ core' = WindowCore(c)
        /\ unacked' = CASE HoldWindow(c) -> unacked + 1 [] Reopens(c) -> 0 [] OTHER -> unacked
        /\ watching' = (watching \/ HoldWindow(c))
        /\ rxOff' = (rxOff \/ (HoldWindow(c) /\ ~watching))
  /\ IF chunk.keep THEN Drive(AfterPush) ELSE npc' = AfterPush /\ UNCHANGED back
  /\ chunk' = NoChunk
  /\ PushOnly /\ NoGate /\ NoSink /\ UNCHANGED <<ring, due, stale>>

DirectPush == DirectPass \/ DirectOpen \/ DirectWrite \/ DirectDone
RingPush == EnsureRing \/ Reserve \/ Copy \/ Commit

-----------------------------------------------------------------------------
(* async_tcp: finish, the poll, the client that goes.                       *)

EventOnly == NetOnly /\ NoGate /\ NoSink /\ UNCHANGED <<ring, due, chunk, length>>

\* The request ended: without its last chunk the upload failed.
Finish ==
  /\ npc = "finish" /\ Drive("respond")
  /\ core' = IF Accepting(core) THEN FailCore(core, "Aborted") ELSE core
  /\ EventOnly /\ UNCHANGED <<req, answer, watching, rxOff, sent, parsed, unacked, stale>>

Known == core.phase = "Settled" \/ Failed(core)
Respond == req' = "answered" /\ answer' = core.result

\* Not known yet: the request is paused, the poll answers.
FinishAnswer ==
  /\ NetStep("respond", "idle")
  /\ IF Known THEN Respond /\ UNCHANGED <<watching, rxOff>>
     ELSE req' = "paused" /\ watching' = TRUE /\ rxOff' = TRUE /\ UNCHANGED answer
  /\ EventOnly /\ UNCHANGED <<core, back, sent, parsed, unacked, stale>>

Poll ==
  /\ NetIdle /\ watching
  /\ LET stalled == stale /\ Running(core) /\ ~Failed(core)
         c == IF stalled THEN FailCore(core, "Stalled") ELSE core
     IN /\ core' = WindowCore(c)
        /\ unacked' = IF Reopens(c) THEN 0 ELSE unacked
        /\ rxOff' = (rxOff /\ (Accepting(c) \/ req # "body"))
        /\ IF stalled THEN Drive("poll")
           ELSE IF hasJob THEN npc' = "answer" /\ UNCHANGED back ELSE Drive("answer")
  /\ EventOnly /\ UNCHANGED <<req, answer, watching, sent, parsed, stale>>

PollAgain ==
  /\ npc = "poll"
  /\ IF hasJob THEN npc' = "answer" /\ UNCHANGED back ELSE Drive("answer")
  /\ EventOnly /\ UNCHANGED <<core, req, answer, watching, rxOff, sent, parsed, unacked, stale>>

PollAnswer ==
  /\ NetStep("answer", "idle")
  /\ IF req = "paused" /\ Known THEN Respond ELSE UNCHANGED <<req, answer>>
  /\ EventOnly /\ UNCHANGED <<core, back, watching, rxOff, sent, parsed, unacked, stale>>

Gone ==
  /\ NetIdle /\ req # "none" /\ Drive("idle")
  /\ core' = FailCore(core, "Aborted")
  /\ req' = "none" /\ watching' = FALSE /\ rxOff' = FALSE
  /\ sent' = 0 /\ parsed' = 0 /\ unacked' = 0
  /\ EventOnly /\ UNCHANGED <<answer, stale>>

-----------------------------------------------------------------------------
(* The FlashWriter job: one call per turn, in a slot if it writes flash.    *)

JobOnly == UNCHANGED <<net, tcp, hasJob, noFlash, uploads, allowed>>

JobNext ==
  /\ jpc = "idle" /\ due /\ due' = FALSE
  /\ jcall' = NextCall(core) /\ core' = NextCore(core)
  /\ jpc' = IF Peek(core) = "None" THEN "out" ELSE IF NeedsSlot(Peek(core)) THEN "slot" ELSE "act"
  /\ JobOnly /\ UNCHANGED <<ring, sink, image, onPower, stale, gate>>

\* In its slot, unless PowerGuard holds writes.
JobSlot ==
  /\ jpc = "slot"
  /\ \/ /\ allowed /\ gate = "free" /\ gate' = "job"
        /\ jpc' = "act" /\ jcall' = [jcall EXCEPT !.act = Confirm(core, @)]
        /\ UNCHANGED <<core, onPower>>
     \/ /\ ~allowed /\ core' = DoneCore(core)
        /\ jpc' = "idle" /\ onPower' = TRUE /\ jcall' = NoCall /\ UNCHANGED gate
  /\ JobOnly /\ UNCHANGED <<ring, sink, image, due, stale>>

JobAct ==
  /\ jpc = "act" /\ jpc' = "acted" /\ Act(jcall)
  /\ JobOnly /\ UNCHANGED <<due, onPower, jcall, stale, gate>>

JobDone ==
  /\ jpc = "acted" /\ jpc' = "out"
  /\ core' = DoneCore(core) /\ jcall' = NoCall /\ Progress
  /\ gate' = (IF gate = "job" THEN "free" ELSE gate)
  /\ JobOnly /\ UNCHANGED <<ring, sink, image, due, onPower>>

\* Fault: the job asks for no further turn.
JobOut_OneTurn ==
  /\ jpc = "out" /\ jpc' = "idle"
  /\ core' = TakeRing(core) /\ ring' = Empty(core')
  /\ JobOnly /\ UNCHANGED <<due, sink, image, onPower, jcall, stale, gate>>

JobOut ==
  /\ jpc = "out" /\ jpc' = "idle"
  /\ core' = TakeRing(core) /\ ring' = Empty(core')
  /\ due' = (due \/ Pending(core))
  /\ JobOnly /\ UNCHANGED <<sink, image, onPower, jcall, stale, gate>>

-----------------------------------------------------------------------------
(* Time and the supply.                                                     *)

Stall ==
  /\ ~stale /\ watching /\ stale' = TRUE
  /\ UNCHANGED <<core, data, hasJob, job, net, tcp, flash, uploads>>

\* The job that PowerGuard held runs again once it allows writes (FlashWriter).
SetSupply ==
  /\ allowed' = ~allowed
  /\ due' = (due \/ (allowed' /\ onPower)) /\ onPower' = (onPower /\ ~allowed')
  /\ UNCHANGED <<core, data, hasJob, jpc, jcall, net, tcp, stale, gate, uploads>>

-----------------------------------------------------------------------------
Handler == Begun \/ Push \/ DirectPush \/ RingPush \/ PushEnd \/ Finish \/ FinishAnswer
           \/ PollAgain \/ PollAnswer \/ DriveFree
Client == Begin \/ Segment \/ LastSegment \/ Gone
Run == JobNext \/ JobSlot \/ JobAct \/ JobDone \/ JobOut

Next == Client \/ Handler \/ Poll \/ Run \/ Stall \/ SetSupply

\* async_tcp and the job run on; a slot is given in the end; a silent client is closed by
\* its rx timeout, an answered one by the server.
Closed == Gone /\ ((req = "body" /\ ~rxOff) \/ req = "answered")

Fairness ==
  /\ WF_vars(Handler) /\ WF_vars(Poll) /\ WF_vars(Run) /\ WF_vars(Stall)
  /\ SF_vars(JobSlot /\ jpc' = "act") /\ SF_vars(Closed)

Spec == Init /\ [][Next]_vars /\ Fairness

-----------------------------------------------------------------------------
Call == [act : Acts, at : 0..RingSize, len : 0..Sector]

\* The pump's and the core's state: the ring's fill stays within the ring.
TypeOK ==
  /\ core \in Core /\ core.used <= core.size /\ core.held \in BOOLEAN
  /\ ring \in [Cells -> Nat] /\ noFlash \subseteq Acts
  /\ jcall \in Call /\ ncall \in Call /\ steps \in 0..MaxSteps
  /\ jpc \in {"idle", "slot", "act", "acted", "out"}
  /\ unacked \in 0..TcpWindow /\ sent \in 0..length /\ parsed \in 0..1
  /\ gate \in {"free", "net", "job"} /\ req \in {"none", "body", "paused", "answered"}

InStream(call) ==
  call.act = "Write" =>
    /\ core.size > 0 /\ core.busy
    /\ \A i \in 1..call.len : Stream(call.at, call.len)[i] = Len(image) + i

\* The producer copies into cells of a live ring that hold nothing, while a
\* writer's step is the stream's next bytes, whatever came between.
RingKept ==
  /\ npc = "copy" =>
       /\ core.size > 0 /\ core.copying
       /\ \A i \in 1..chunk.len : Stream(chunk.at, chunk.len)[i] = 0
  /\ jpc \in {"slot", "act"} => InStream(jcall)
  /\ npc = "act" => InStream(ncall)

\* Holding the window in time, the ring always has room for what may still
\* come: no upload fails for want of it.
NoOverflow == core.result # "Overflow"

Session == INSTANCE UploadSession WITH
  revocable <- core.revocable,
  answer <- IF answer \in {"none", "Ok"} THEN answer ELSE "failed"

\* The sink's calls come in their order, with the client's bytes, from
\* whichever task makes them, and the answer is true.
Promised == Session!SessionSpec

\* With the supply on for good an upload comes to its end; a client that
\* waits for its answer gets it, supply or not.
Concluded ==
  /\ <>[]allowed => ((hasJob /\ Running(core)) ~> ~Running(core))
  /\ req = "paused" ~> req # "paused"

-----------------------------------------------------------------------------
(* What the promises rest on.                                               *)

\* Where async_tcp is: in driveFree, in push, with the writer's place; and the job with it.
Driving == {"drive", "steps", "act", "acted", "driven"}
Direct == {"pass", "open", "write", "written"}
Ringing == {"ring", "reserve", "copy", "commit"}
Pushing == Direct \cup Ringing \cup {"push", "window"}
NetPlaces == Driving \cup Pushing \cup {"idle", "begin", "finish", "respond", "poll", "answer"}
Backs == {"idle", "begin", "finish", "respond", "poll", "answer"}
NetBusy == npc \in Direct \cup {"act", "acted"}
JobBusy == jpc \in {"slot", "act", "acted"}
Copying == npc \in {"copy", "commit"}

\* ... and where its handler will be after driveFree.
Towards(place) == npc = place \/ (npc \in Driving /\ back = place)

RingFits(c) ==
  c.used <= c.size /\ (c.size = 0 => c.rd = 0) /\ (c.size # 0 => c.rd < RingSize)

CoreTypes ==
  /\ core \in Core /\ RingFits(core)
  /\ core.busy <=> NetBusy \/ JobBusy
  /\ ~(NetBusy /\ JobBusy)
  /\ core.copying <=> Copying

PlaceTypes ==
  /\ npc \in NetPlaces /\ back \in Backs
  /\ jpc \in {"idle", "slot", "act", "acted", "out"}
  /\ ring \in [Cells -> Nat] /\ noFlash \subseteq Acts
  /\ jcall \in Call /\ ncall \in Call /\ steps \in 0..MaxSteps
  /\ npc \in {"act", "acted"} => steps < MaxSteps
  /\ gate \in {"free", "net", "job"}

Chunk == [len : 0..2, last : BOOLEAN, at : 0..RingSize, keep : BOOLEAN, kept : BOOLEAN]
ChunkTypes == chunk \in Chunk

\* The request: what the client sent, and whether it was answered.
RequestInv ==
  /\ req \in {"none", "body", "paused", "answered"} /\ answer \in Results \cup {"none"}
  /\ length \in Nat /\ sent \in 0..length /\ parsed \in 0..1 /\ parsed <= sent
  /\ unacked \in 0..TcpWindow
  /\ req \in {"body", "paused"} => answer = "none"
  /\ npc \in Pushing \/ Towards("finish") \/ Towards("respond") => req = "body"
  /\ npc \in Pushing =>
       /\ unacked < TcpWindow /\ parsed = 0 /\ chunk.len <= sent
       /\ chunk.last => sent = length
  /\ npc \in {"reserve", "copy", "commit"} => chunk.len > 0

\* The sink, by what the core knows of it.
SinkInv ==
  /\ core.phase = "Idle" => sink = "none" /\ core.result = "Ok"
  /\ core.phase = "Settled" =>
       sink \in {"committed", "aborted"} /\ (core.result = "Ok" => sink = "committed")
  /\ core.live <=> core.phase = "Running"
  /\ Running(core) =>
       /\ sink \in (IF core.open THEN {"open", "failed", "finishing", "done"} ELSE {"fresh", "failed"})
       /\ sink \in {"failed", "done"} => Failed(core)
       /\ sink = "done" => core.revocable
       /\ sink = "finishing" => core.finishing
       /\ core.finishing => sink \in {"open", "finishing"}

\* A call in hand fits what the sink has had.
Fits(call) ==
  /\ Running(core) /\ call.act # "None"
  /\ call.act = "Open" => sink = "fresh" /\ ~core.open
  /\ call.act = "Write" =>
       /\ sink = "open" /\ ~core.finishing /\ core.size # 0 /\ core.open
       /\ call.at = core.rd /\ call.len \in 1..core.used
  /\ call.act = "Finish" => core.finishing
  /\ call.act = "Abort" => Failed(core) /\ (core.finishing => core.revocable)

CallInv ==
  /\ jpc \in {"slot", "act"} => Fits(jcall)
  /\ npc = "act" => Fits(ncall)
  /\ npc \in {"pass", "open", "write"} =>
       /\ Running(core) /\ ~Failed(core) /\ ~core.final /\ ~core.finishing /\ core.used = 0
       /\ npc = "open" => ~core.open
       /\ npc = "write" => core.open

\* Where a unit that was sent is: written, in the ring, in the push, or with the parser.
Waiting == IF npc \in {"push", "pass", "open", "write"} \cup Ringing THEN chunk.len ELSE 0

SentInv ==
  /\ Running(core) /\ (Copying \/ (~Failed(core) /\ (Towards("finish") => core.final))) =>
       core.written + core.used + Waiting + parsed = sent
  /\ Running(core) /\ ~Failed(core) =>
       /\ req # "none"
       /\ core.final => sent = length /\ parsed = 0
       /\ ~core.final => req = "body" /\ ~Towards("respond")
       /\ npc = "window" => chunk.kept
  /\ Running(core) /\ core.final /\ req = "body" => Towards("finish") \/ Towards("respond")
  /\ core.finishing => core.written = length /\ core.used = 0 /\ core.final

\* The window is held in time: there is room for what the client may still send.
Needed == IF npc \in Pushing THEN Waiting ELSE 1 + parsed
Spare == IF npc = "window" THEN HoldBelow - 2 ELSE HoldBelow
WindowInv ==
  Accepting(core) =>
    /\ core.held => core.size # 0 /\ Room(core) >= TcpWindow - unacked + Needed
    /\ ~core.held => unacked = 0 /\ (core.size # 0 => Room(core) >= Spare)

\* The ring's cells, counted from the writer's place: the stream, then nothing but a copy
\* under way.
Place(i) == (i - core.rd) % RingSize
CellInv(i) ==
  IF core.size # 0 /\ Place(i) < core.used THEN ring[i] = core.written + Place(i) + 1
  ELSE IF npc = "commit" /\ Place(i) < core.used + chunk.len
       THEN ring[i] = sent - chunk.len + Place(i) - core.used + 1
       ELSE core.size = 0 \/ Running(core) \/ Copying => ring[i] = 0

CellsInv == \A i \in Cells : CellInv(i)
CopyInv ==
  /\ npc = "reserve" /\ Running(core) /\ ~Failed(core) => core.size # 0
  /\ Copying =>
       /\ core.size # 0 /\ core.used + chunk.len <= RingSize
       /\ chunk.at = (core.rd + core.used) % RingSize
       /\ chunk.kept
RingInv == CellsInv /\ CopyInv

ImageInv == image = [i \in 1..core.written |-> i]

\* ... and never more than the client has, whatever came of the session since.
BoundInv == Running(core) => core.written + core.used <= length

TypeInv == CoreTypes /\ PlaceTypes /\ ChunkTypes
IInv ==
  /\ TypeInv /\ RequestInv /\ SinkInv /\ CallInv /\ SentInv /\ WindowInv /\ RingInv /\ ImageInv
  /\ BoundInv /\ NoOverflow

-----------------------------------------------------------------------------
(* The core's methods, by what they leave and change.                       *)

SameRing(c, d) == d.size = c.size /\ d.rd = c.rd /\ d.used = c.used /\ d.written = c.written
SameSink(c, d) ==
  /\ d.phase = c.phase /\ d.result = c.result /\ d.open = c.open /\ d.live = c.live
  /\ d.finishing = c.finishing /\ d.revocable = c.revocable
SameUse(c, d) == d.busy = c.busy /\ d.copying = c.copying
SameWindow(c, d) == d.final = c.final /\ d.held = c.held

\* A failure changes the result alone.
OnlyFails(c, d) ==
  /\ SameRing(c, d) /\ SameUse(c, d) /\ SameWindow(c, d)
  /\ d.phase = c.phase /\ d.open = c.open /\ d.live = c.live
  /\ d.finishing = c.finishing /\ d.revocable = c.revocable

\* A call that takes from the ring; one that leaves the stream as it is.
Drains(call) ==
  /\ call.act = "Write" /\ sink' = sink /\ SameSink(core, core')
  /\ image' = image \o Stream(call.at, call.len) /\ ring' = Drained(call.at, call.len)
  /\ core'.written = core.written + call.len /\ core'.used = core.used - call.len
  /\ core'.rd = IF core.rd + call.len < RingSize THEN core.rd + call.len
                ELSE core.rd + call.len - RingSize
LeavesStream == SameRing(core, core') /\ UNCHANGED <<ring, image>>

\* The session does not come back, nor does its success.
GoesOn(c, d) ==
  /\ Running(d) => Running(c)
  /\ Failed(c) => Failed(d)
  /\ d.result \in {c.result, "SinkFailed"}
  /\ d.finishing => c.finishing
  /\ d.revocable = c.revocable /\ d.size = c.size

\* What a call of the sink does.
Effect(call) ==
  /\ Fits(call) /\ core' \in Core /\ RingFits(core') /\ SameUse(core, core') /\ SameWindow(core, core')
  /\ GoesOn(core, core') /\ (Drains(call) \/ LeavesStream)

\* What a straight write does.
Straight ==
  /\ core' \in Core /\ RingFits(core') /\ SameUse(core, core') /\ SameWindow(core, core')
  /\ core'.size = core.size /\ core'.rd = core.rd /\ core'.used = core.used
  /\ GoesOn(core, core') /\ UNCHANGED ring
  /\ \/ /\ core'.written = core.written + chunk.len /\ SameSink(core, core') /\ sink' = sink
        /\ image' = image \o [k \in 1..chunk.len |-> sent - chunk.len + k]
     \/ Failed(core') /\ LeavesStream
     \/ chunk.len = 0 /\ UNCHANGED <<core, sink, image>>

\* A place in the ring, and the distance between two.
LEMMA RingAdd ==
  ASSUME NEW R \in Nat \ {0}, NEW a \in 0..(R - 1), NEW n \in 0..R
  PROVE  (a + n) % R = IF a + n < R THEN a + n ELSE a + n - R
  OBVIOUS

\* ... and the way from one place to another.
LEMMA RingSub ==
  ASSUME NEW R \in Nat \ {0}, NEW a \in 0..(R - 1), NEW b \in 0..(R - 1)
  PROVE  (a - b) % R = IF a >= b THEN a - b ELSE a - b + R
<1>1. CASE a >= b
  BY <1>1
<1>2. CASE a < b
  BY <1>2
<1>. QED  BY <1>1, <1>2

\* What the sink has and the next units of the stream.
LEMMA StreamGoesOn ==
  ASSUME NEW w \in Nat, NEW n \in Nat, NEW s, s = [i \in 1..n |-> w + i]
  PROVE  [i \in 1..w |-> i] \o s = [i \in 1..(w + n) |-> i]
  OBVIOUS

\* A new session has its ring and nothing else.
LEMMA BeginIs ==
  ASSUME NEW c \in Core, NEW revocable \in BOOLEAN
  PROVE  /\ BeginCore(c, revocable) \in Core
         /\ BeginCore(c, revocable).phase = "Running"
         /\ BeginCore(c, revocable).result = "Ok"
         /\ BeginCore(c, revocable).live
         /\ BeginCore(c, revocable).revocable = revocable
         /\ ~BeginCore(c, revocable).busy /\ ~BeginCore(c, revocable).copying
         /\ ~BeginCore(c, revocable).open /\ ~BeginCore(c, revocable).finishing
         /\ ~BeginCore(c, revocable).final /\ ~BeginCore(c, revocable).held
         /\ BeginCore(c, revocable).size = c.size
         /\ BeginCore(c, revocable).rd = 0 /\ BeginCore(c, revocable).used = 0
         /\ BeginCore(c, revocable).written = 0
<1>1. NewCore \in Core
  BY CoreAssumption DEF NewCore, Core, Results
<1>2. /\ NewCore.result = "Ok" /\ NewCore.rd = 0 /\ NewCore.used = 0
      /\ NewCore.written = 0
  BY DEF NewCore
<1>3. /\ ~NewCore.busy /\ ~NewCore.copying /\ ~NewCore.open
      /\ ~NewCore.finishing /\ ~NewCore.final /\ ~NewCore.held
  BY DEF NewCore
<1>4. c.size \in {0, RingSize}
  BY DEF Core
<1>5. /\ BeginCore(c, revocable) \in Core
      /\ BeginCore(c, revocable).phase = "Running"
      /\ BeginCore(c, revocable).live
      /\ BeginCore(c, revocable).revocable = revocable
      /\ BeginCore(c, revocable).size = c.size
  BY <1>1, <1>4 DEF BeginCore, Core
<1>6. /\ BeginCore(c, revocable).result = "Ok" /\ BeginCore(c, revocable).rd = 0
      /\ BeginCore(c, revocable).used = 0 /\ BeginCore(c, revocable).written = 0
  BY <1>1, <1>2 DEF BeginCore, Core
<1>7. ~BeginCore(c, revocable).busy /\ ~BeginCore(c, revocable).copying
  BY <1>1, <1>3 DEF BeginCore, Core
<1>8. ~BeginCore(c, revocable).open /\ ~BeginCore(c, revocable).finishing
  BY <1>1, <1>3 DEF BeginCore, Core
<1>9. ~BeginCore(c, revocable).final /\ ~BeginCore(c, revocable).held
  BY <1>1, <1>3 DEF BeginCore, Core
<1>. QED  BY <1>5, <1>6, <1>7, <1>8, <1>9

\* A session gets its ring.
LEMMA SetRingIs ==
  ASSUME NEW c \in Core
  PROVE  /\ SetRing(c) \in Core
         /\ SetRing(c).size = RingSize /\ SetRing(c).rd = 0 /\ SetRing(c).used = 0
         /\ SetRing(c).written = c.written
         /\ SameSink(c, SetRing(c)) /\ SameUse(c, SetRing(c)) /\ SameWindow(c, SetRing(c))
<1>1. 0 \in 0..RingSize
  BY CoreAssumption
<1>2. SetRing(c) \in Core
  BY <1>1 DEF SetRing, Core
<1>3. SetRing(c).size = RingSize /\ SetRing(c).rd = 0 /\ SetRing(c).used = 0
  BY DEF SetRing, Core
<1>4. SetRing(c).written = c.written /\ SameSink(c, SetRing(c))
  BY DEF SetRing, Core, SameSink
<1>5. SameUse(c, SetRing(c)) /\ SameWindow(c, SetRing(c))
  BY DEF SetRing, Core, SameUse, SameWindow
<1>. QED  BY <1>2, <1>3, <1>4, <1>5

\* A ring nobody is at is taken back.
LEMMA TakeIs ==
  ASSUME NEW c \in Core
  PROVE  /\ TakeRing(c) \in Core
         /\ TakeRing(c).written = c.written
         /\ SameSink(c, TakeRing(c)) /\ SameUse(c, TakeRing(c)) /\ SameWindow(c, TakeRing(c))
         /\ Takeable(c) => TakeRing(c).size = 0 /\ TakeRing(c).rd = 0 /\ TakeRing(c).used = 0
         /\ ~Takeable(c) => TakeRing(c) = c
<1>1. CASE ~Takeable(c)
  BY <1>1 DEF TakeRing, SameSink, SameUse, SameWindow
<1>2. CASE Takeable(c)
  <2>1. TakeRing(c) = [c EXCEPT !.size = 0, !.rd = 0, !.used = 0]
    BY <1>2 DEF TakeRing
  <2>2. 0 \in 0..RingSize
    BY CoreAssumption
  <2>3. TakeRing(c) \in Core
    BY <2>1, <2>2 DEF Core
  <2>4. TakeRing(c).size = 0 /\ TakeRing(c).rd = 0 /\ TakeRing(c).used = 0
    BY <2>1 DEF Core
  <2>5. TakeRing(c).written = c.written /\ SameSink(c, TakeRing(c))
    BY <2>1 DEF Core, SameSink
  <2>6. SameUse(c, TakeRing(c)) /\ SameWindow(c, TakeRing(c))
    BY <2>1 DEF Core, SameUse, SameWindow
  <2>. QED  BY <1>2, <2>3, <2>4, <2>5, <2>6
<1>. QED  BY <1>1, <1>2

\* The last chunk is in.
LEMMA FinalIs ==
  ASSUME NEW c \in Core
  PROVE  /\ FinalCore(c) \in Core
         /\ SameRing(c, FinalCore(c)) /\ SameSink(c, FinalCore(c)) /\ SameUse(c, FinalCore(c))
         /\ FinalCore(c).held = c.held
         /\ FinalCore(c).final <=> c.final \/ Running(c)
  BY DEF FinalCore, Running, Core, SameRing, SameSink, SameUse, SameWindow

\* The first failure counts.
LEMMA FailIs ==
  ASSUME NEW c \in Core, NEW r \in Results \ {"Ok"}, Running(c) => c.live
  PROVE  /\ FailCore(c, r) \in Core /\ OnlyFails(c, FailCore(c, r))
         /\ ~Running(c) => FailCore(c, r).result = c.result
         /\ Running(c) => FailCore(c, r).result # "Ok"
         /\ FailCore(c, r).result \in {r, c.result}
<1>1. CASE ~Running(c)
  BY <1>1 DEF FailCore, OnlyFails, SameRing, SameUse, SameWindow
<1>2. CASE Running(c)
  <2>. DEFINE result == IF Failed(c) THEN c.result ELSE r
  <2>1. result \in Results \ {"Ok"} /\ result \in {r, c.result}
    BY DEF Failed, Core
  <2>2. FailCore(c, r) = [c EXCEPT !.result = result, !.phase = c.phase]
    BY <1>2 DEF FailCore
  <2>. HIDE DEF result
  <2>3. FailCore(c, r) \in Core
    BY <2>1, <2>2 DEF Core
  <2>4. FailCore(c, r).result = result
    BY <2>2 DEF Core
  <2>5. FailCore(c, r).phase = c.phase /\ SameRing(c, FailCore(c, r))
    BY <2>2 DEF Core, SameRing
  <2>6. SameUse(c, FailCore(c, r)) /\ SameWindow(c, FailCore(c, r))
    BY <2>2 DEF Core, SameUse, SameWindow
  <2>7. /\ FailCore(c, r).open = c.open /\ FailCore(c, r).live = c.live
        /\ FailCore(c, r).finishing = c.finishing
        /\ FailCore(c, r).revocable = c.revocable
    BY <2>2 DEF Core
  <2>. QED  BY <1>2, <2>1, <2>3, <2>4, <2>5, <2>6, <2>7 DEF OnlyFails
<1>. QED  BY <1>1, <1>2

\* Room enough is reserved for the copy.
LEMMA ReserveIs ==
  ASSUME NEW c \in Core, NEW len \in Nat \ {0},
         Accepting(c) /\ c.size > 0 => len <= Room(c)
  PROVE  /\ ReserveCore(c, len) \in Core
         /\ SameRing(c, ReserveCore(c, len)) /\ SameSink(c, ReserveCore(c, len))
         /\ SameWindow(c, ReserveCore(c, len)) /\ ReserveCore(c, len).busy = c.busy
         /\ ReserveCore(c, len).copying <=> Keeps(c, len)
<1>. DEFINE copying == Keeps(c, len) /\ len > 0
<1>1. copying \in BOOLEAN
  OBVIOUS
<1>2. ReserveCore(c, len) = [c EXCEPT !.copying = copying]
  BY CoreAssumption DEF ReserveCore, Accepting, Room, Core
<1>3. copying <=> Keeps(c, len)
  OBVIOUS
<1>. HIDE DEF copying
<1>. QED  BY <1>1, <1>2, <1>3 DEF Running, Core, SameRing, SameSink, SameUse, SameWindow

\* What was copied is in the ring.
LEMMA CommitIs ==
  ASSUME NEW c \in Core, NEW len \in Nat, c.used + len <= RingSize
  PROVE  /\ CommitCore(c, len) \in Core
         /\ CommitCore(c, len).size = c.size /\ CommitCore(c, len).rd = c.rd
         /\ CommitCore(c, len).written = c.written
         /\ SameSink(c, CommitCore(c, len)) /\ SameWindow(c, CommitCore(c, len))
         /\ CommitCore(c, len).busy = c.busy /\ ~CommitCore(c, len).copying
         /\ c.copying /\ Running(c) => CommitCore(c, len).used = c.used + len
         /\ ~Running(c) => CommitCore(c, len).used = c.used
<1>. DEFINE used == IF c.copying /\ Running(c) THEN c.used + len ELSE c.used
<1>1. used \in 0..RingSize
  BY CoreAssumption DEF Core
<1>2. CommitCore(c, len) = [c EXCEPT !.used = used, !.copying = FALSE]
  BY DEF CommitCore
<1>3. /\ c.copying /\ Running(c) => used = c.used + len
      /\ ~Running(c) => used = c.used
  OBVIOUS
<1>. HIDE DEF used
<1>4. CommitCore(c, len) \in Core /\ CommitCore(c, len).used = used
  BY <1>1, <1>2 DEF Core
<1>5. /\ CommitCore(c, len).size = c.size /\ CommitCore(c, len).rd = c.rd
      /\ CommitCore(c, len).written = c.written
  BY <1>2 DEF Core
<1>6. SameSink(c, CommitCore(c, len)) /\ SameWindow(c, CommitCore(c, len))
  BY <1>2 DEF Core, SameSink, SameWindow
<1>7. CommitCore(c, len).busy = c.busy /\ ~CommitCore(c, len).copying
  BY <1>2 DEF Core
<1>. QED  BY <1>3, <1>4, <1>5, <1>6, <1>7

\* The window is held while the ring is full.
LEMMA WindowIs ==
  ASSUME NEW c \in Core
  PROVE  /\ WindowCore(c) \in Core
         /\ SameRing(c, WindowCore(c)) /\ SameSink(c, WindowCore(c)) /\ SameUse(c, WindowCore(c))
         /\ WindowCore(c).final = c.final
         /\ WindowCore(c).held <=> Full(c)
<1>. DEFINE held == Full(c)
<1>1. held \in BOOLEAN
  BY DEF Full
<1>2. WindowCore(c) = [c EXCEPT !.held = held]
  BY DEF WindowCore, HoldWindow
<1>3. held <=> Full(c)
  OBVIOUS
<1>. HIDE DEF held
<1>. QED  BY <1>1, <1>2, <1>3 DEF Running, Core, SameRing, SameSink, SameUse, SameWindow

\* A step takes what is in the ring, up to the next sector.
LEMMA StepIs ==
  ASSUME NEW c \in Core, c.used # 0
  PROVE  StepLen(c) \in 1..c.used /\ StepLen(c) <= Sector
<1>1. c.written \in Nat /\ c.used \in Nat /\ Sector \in Nat \ {0}
  BY CoreAssumption DEF Core
<1>2. c.written % Sector \in 0..(Sector - 1)
  BY <1>1
<1>. QED  BY <1>1, <1>2 DEF StepLen, StepRoom

\* What the next call is tells what the session has had.
LEMMA PeekIs ==
  ASSUME NEW c \in Core
  PROVE  /\ Peek(c) \in Acts
         /\ Peek(c) # "None" => Running(c) /\ ~c.busy
         /\ Peek(c) = "Open" => ~Failed(c) /\ ~c.open
         /\ Peek(c) = "Write" => ~Failed(c) /\ c.open /\ ~c.finishing /\ c.used # 0
         /\ Peek(c) = "Finish" => c.finishing \/ (~Failed(c) /\ c.open /\ c.used = 0 /\ c.final)
         /\ Peek(c) = "Abort" => Failed(c) /\ (c.finishing => c.revocable)
<1>1. c.used = 0 => ~(c.used >= StepRoom(c.written))
  <2>1. c.written \in Nat /\ Sector \in Nat \ {0}
    BY CoreAssumption DEF Core
  <2>2. c.written % Sector \in 0..(Sector - 1)
    BY <2>1
  <2>. QED  BY <2>1, <2>2 DEF StepRoom
<1>2. CASE ~Pending(c)
  BY <1>2 DEF Peek, Acts
<1>3. CASE Pending(c) /\ MustFinish(c)
  BY <1>3 DEF Peek, Acts, Pending, MustFinish
<1>4. CASE Pending(c) /\ ~MustFinish(c) /\ Failed(c)
  BY <1>4 DEF Peek, Acts, Pending, MustFinish
<1>5. CASE Pending(c) /\ ~MustFinish(c) /\ ~Failed(c)
  BY <1>1, <1>5 DEF Peek, Acts, Pending, MustFinish
<1>. QED  BY <1>2, <1>3, <1>4, <1>5

\* Whoever has a call has the sink.
LEMMA NextIs ==
  ASSUME NEW c \in Core
  PROVE  /\ NextCore(c) \in Core
         /\ SameRing(c, NextCore(c)) /\ SameWindow(c, NextCore(c))
         /\ NextCore(c).phase = c.phase /\ NextCore(c).result = c.result
         /\ NextCore(c).open = c.open /\ NextCore(c).live = c.live
         /\ NextCore(c).revocable = c.revocable /\ NextCore(c).copying = c.copying
         /\ NextCore(c).busy <=> c.busy \/ Peek(c) # "None"
         /\ NextCore(c).finishing <=> c.finishing \/ Peek(c) = "Finish"
<1>. DEFINE busy == c.busy \/ Peek(c) # "None"
            finishing == c.finishing \/ Peek(c) = "Finish"
<1>1. busy \in BOOLEAN /\ finishing \in BOOLEAN
  OBVIOUS
<1>2. NextCore(c) = [c EXCEPT !.busy = busy, !.finishing = finishing]
  BY DEF NextCore
<1>3. /\ busy <=> c.busy \/ Peek(c) # "None"
      /\ finishing <=> c.finishing \/ Peek(c) = "Finish"
  OBVIOUS
<1>. HIDE DEF busy, finishing
<1>. QED  BY <1>1, <1>2, <1>3 DEF Running, Core, SameRing, SameSink, SameUse, SameWindow

\* A straight write has the sink.
LEMMA ClaimIs ==
  ASSUME NEW c \in Core
  PROVE  /\ ClaimCore(c) \in Core
         /\ SameRing(c, ClaimCore(c)) /\ SameSink(c, ClaimCore(c)) /\ SameWindow(c, ClaimCore(c))
         /\ ClaimCore(c).busy /\ ClaimCore(c).copying = c.copying
  BY DEF ClaimCore, Running, Core, SameRing, SameSink, SameUse, SameWindow

\* The sink is given back; with something to abort the session goes on.
LEMMA DoneIs ==
  ASSUME NEW c \in Core, Running(c) => c.live
  PROVE  /\ DoneCore(c) \in Core
         /\ SameRing(c, DoneCore(c)) /\ SameSink(c, DoneCore(c)) /\ SameWindow(c, DoneCore(c))
         /\ ~DoneCore(c).busy /\ DoneCore(c).copying = c.copying
  BY DEF DoneCore, Running, Core, SameRing, SameSink, SameUse, SameWindow

\* The sink opened or failed.
LEMMA OpenedIs ==
  ASSUME NEW c \in Core, NEW ok \in BOOLEAN, Running(c), c.live
  PROVE  /\ OpenedCore(c, ok) \in Core
         /\ SameRing(c, OpenedCore(c, ok)) /\ SameUse(c, OpenedCore(c, ok))
         /\ SameWindow(c, OpenedCore(c, ok)) /\ OpenedCore(c, ok).phase = "Running"
         /\ OpenedCore(c, ok).live /\ OpenedCore(c, ok).finishing = c.finishing
         /\ OpenedCore(c, ok).revocable = c.revocable
         /\ ok => OpenedCore(c, ok).open /\ OpenedCore(c, ok).result = c.result
         /\ ~ok => /\ OpenedCore(c, ok).open = c.open /\ OpenedCore(c, ok).result # "Ok"
                   /\ OpenedCore(c, ok).result \in {c.result, "SinkFailed"}
<1>1. CASE ok
  <2>1. OpenedCore(c, ok) = [c EXCEPT !.open = TRUE]
    BY <1>1 DEF OpenedCore
  <2>2. OpenedCore(c, ok) \in Core
    BY <2>1 DEF Core
  <2>3. /\ SameRing(c, OpenedCore(c, ok)) /\ SameUse(c, OpenedCore(c, ok))
        /\ SameWindow(c, OpenedCore(c, ok))
    BY <2>1 DEF Core, SameRing, SameUse, SameWindow
  <2>4. /\ OpenedCore(c, ok).phase = c.phase /\ OpenedCore(c, ok).live = c.live
        /\ OpenedCore(c, ok).finishing = c.finishing
        /\ OpenedCore(c, ok).revocable = c.revocable
        /\ OpenedCore(c, ok).open /\ OpenedCore(c, ok).result = c.result
    BY <2>1 DEF Core
  <2>. QED  BY <1>1, <2>2, <2>3, <2>4 DEF Running
<1>2. CASE ~ok
  <2>1. OpenedCore(c, ok) = FailCore(c, "SinkFailed")
    BY <1>2 DEF OpenedCore
  <2>2. "SinkFailed" \in Results \ {"Ok"}
    BY DEF Results
  <2>. QED  BY <1>2, <2>1, <2>2, FailIs DEF OnlyFails, Running
<1>. QED  BY <1>1, <1>2

\* A straight write goes past the ring.
LEMMA WroteIs ==
  ASSUME NEW c \in Core, NEW n \in Nat, c.used <= c.size
  PROVE  /\ WroteCore(c, n, TRUE, FALSE) \in Core
         /\ WroteCore(c, n, TRUE, FALSE).size = c.size /\ WroteCore(c, n, TRUE, FALSE).used = c.used
         /\ c.size # 0 /\ c.rd < RingSize => WroteCore(c, n, TRUE, FALSE).rd = c.rd
         /\ c.size = 0 => WroteCore(c, n, TRUE, FALSE).rd = c.rd
         /\ WroteCore(c, n, TRUE, FALSE).written = c.written + n
         /\ SameSink(c, WroteCore(c, n, TRUE, FALSE)) /\ SameUse(c, WroteCore(c, n, TRUE, FALSE))
         /\ SameWindow(c, WroteCore(c, n, TRUE, FALSE))
<1>. DEFINE rd == IF c.size = 0 THEN c.rd ELSE (c.rd + 0) % c.size
<1>1. c.size # 0 => c.size = RingSize /\ RingSize \in Nat \ {0}
  BY CoreAssumption DEF Core
<1>2. c.rd \in 0..RingSize /\ c.used \in 0..RingSize /\ c.written \in Nat
  BY DEF Core
<1>3. rd \in 0..RingSize /\ (c.size = 0 => rd = c.rd) /\ (c.size # 0 /\ c.rd < RingSize => rd = c.rd)
  BY <1>1, <1>2
<1>4. WroteCore(c, n, TRUE, FALSE) = [c EXCEPT !.written = c.written + n, !.used = c.used - 0, !.rd = rd]
  BY DEF WroteCore
<1>5. c.used - 0 = c.used
  BY <1>2
<1>. HIDE DEF rd
<1>6. /\ c.written + n \in Nat /\ c.used - 0 \in 0..RingSize /\ rd \in 0..RingSize
  BY <1>1, <1>2, <1>3, <1>4, <1>5
<1>7. WroteCore(c, n, TRUE, FALSE) \in Core
  BY <1>4, <1>6 DEF Core
<1>. QED  BY <1>1, <1>2, <1>3, <1>4, <1>5, <1>7 DEF Running, Core, SameRing, SameSink,
  SameUse, SameWindow

\* A step from the ring moves the writer's place on, around the end.
LEMMA DrainIs ==
  ASSUME NEW c \in Core, c.size # 0, c.rd < RingSize, NEW n \in 1..c.used
  PROVE  /\ WroteCore(c, n, TRUE, TRUE) \in Core
         /\ WroteCore(c, n, TRUE, TRUE).size = c.size
         /\ WroteCore(c, n, TRUE, TRUE).used = c.used - n
         /\ WroteCore(c, n, TRUE, TRUE).rd =
           (IF c.rd + n < RingSize THEN c.rd + n ELSE c.rd + n - RingSize)
         /\ WroteCore(c, n, TRUE, TRUE).written = c.written + n
         /\ SameSink(c, WroteCore(c, n, TRUE, TRUE)) /\ SameUse(c, WroteCore(c, n, TRUE, TRUE))
         /\ SameWindow(c, WroteCore(c, n, TRUE, TRUE))
<1>. DEFINE rd == (c.rd + n) % c.size
<1>1. c.size = RingSize /\ RingSize \in Nat \ {0}
  BY CoreAssumption DEF Core
<1>2. c.rd \in 0..(RingSize - 1) /\ c.used \in 0..RingSize /\ c.written \in Nat /\ n \in 0..RingSize
  BY <1>1 DEF Core
<1>3. rd = (IF c.rd + n < RingSize THEN c.rd + n ELSE c.rd + n - RingSize)
  BY <1>1, <1>2, RingAdd
<1>4. rd \in 0..RingSize
  BY <1>1, <1>2, <1>3
<1>5. c.used \in Nat /\ ~(n > c.used)
  BY <1>2
<1>6. WroteCore(c, n, TRUE, TRUE) = [c EXCEPT !.written = c.written + n, !.used = c.used - n, !.rd = rd]
  BY <1>5 DEF WroteCore
<1>. HIDE DEF rd
<1>7. /\ c.written + n \in Nat /\ c.used - n \in 0..RingSize /\ rd \in 0..RingSize
  BY <1>1, <1>2, <1>3, <1>4, <1>5, <1>6
<1>8. WroteCore(c, n, TRUE, TRUE) \in Core
  BY <1>6, <1>7 DEF Core
<1>. QED  BY <1>1, <1>2, <1>3, <1>4, <1>5, <1>6, <1>8 DEF Running, Core, SameRing,
  SameSink, SameUse, SameWindow

\* A write that failed leaves the ring as it is.
LEMMA WriteFailIs ==
  ASSUME NEW c \in Core, NEW n, NEW fromRing, Running(c), c.live
  PROVE  /\ WroteCore(c, n, FALSE, fromRing) \in Core
         /\ OnlyFails(c, WroteCore(c, n, FALSE, fromRing))
         /\ WroteCore(c, n, FALSE, fromRing).result # "Ok"
         /\ WroteCore(c, n, FALSE, fromRing).result \in {c.result, "SinkFailed"}
<1>1. WroteCore(c, n, FALSE, fromRing) = FailCore(c, "SinkFailed")
  BY DEF WroteCore
<1>2. "SinkFailed" \in Results \ {"Ok"}
  BY DEF Results
<1>. QED  BY <1>1, <1>2, FailIs

\* A finish goes on, ends the session or fails.
LEMMA FinishedIs ==
  ASSUME NEW c \in Core, Running(c), c.live
  PROVE  /\ FinishedCore(c, "more") = c
         /\ \A r \in {"done", "failed"} :
              /\ FinishedCore(c, r) \in Core /\ ~FinishedCore(c, r).finishing
              /\ SameRing(c, FinishedCore(c, r)) /\ SameUse(c, FinishedCore(c, r))
              /\ SameWindow(c, FinishedCore(c, r))
              /\ FinishedCore(c, r).revocable = c.revocable
              /\ FinishedCore(c, r).result \in {c.result, "SinkFailed"}
         /\ FinishedCore(c, "failed").phase = "Running" /\ FinishedCore(c, "failed").live
         /\ FinishedCore(c, "failed").result # "Ok" /\ FinishedCore(c, "failed").open = c.open
         /\ FinishedCore(c, "done").result = c.result
         /\ IF Failed(c) /\ c.revocable
            THEN /\ FinishedCore(c, "done").phase = "Running" /\ FinishedCore(c, "done").live
                 /\ FinishedCore(c, "done").open = c.open
            ELSE /\ FinishedCore(c, "done").phase = "Settled" /\ ~FinishedCore(c, "done").live
                 /\ ~FinishedCore(c, "done").open
<1>. DEFINE d == [c EXCEPT !.finishing = FALSE]
<1>1. d \in Core /\ ~d.finishing /\ SameRing(c, d)
  BY DEF Core, SameRing
<1>2. SameUse(c, d) /\ SameWindow(c, d)
  BY DEF Core, SameUse, SameWindow
<1>3. /\ d.phase = c.phase /\ d.result = c.result /\ d.open = c.open
      /\ d.live = c.live /\ d.revocable = c.revocable
  BY DEF Core
<1>4. FinishedCore(c, "more") = c
  BY DEF FinishedCore
<1>5. FinishedCore(c, "failed") = FailCore(d, "SinkFailed")
  BY DEF FinishedCore
<1>6. FinishedCore(c, "done") =
        IF Failed(c) /\ c.revocable THEN d
        ELSE [d EXCEPT !.open = FALSE, !.live = FALSE, !.phase = "Settled"]
  BY DEF FinishedCore
<1>. HIDE DEF d
<1>7. Running(d) /\ d.live
  BY <1>3 DEF Running
<1>8. "SinkFailed" \in Results \ {"Ok"}
  BY DEF Results
<1>9. /\ FinishedCore(c, "failed") \in Core
      /\ OnlyFails(d, FinishedCore(c, "failed"))
      /\ FinishedCore(c, "failed").result # "Ok"
      /\ FinishedCore(c, "failed").result \in {"SinkFailed", d.result}
  BY <1>1, <1>5, <1>7, <1>8, FailIs
<1>10. ASSUME NEW e \in Core, SameRing(d, e), SameUse(d, e), SameWindow(d, e),
              e.finishing = d.finishing, e.revocable = d.revocable,
              e.result \in {c.result, "SinkFailed"}
       PROVE  /\ ~e.finishing /\ SameRing(c, e) /\ SameUse(c, e)
              /\ SameWindow(c, e) /\ e.revocable = c.revocable
  <2>1. ~e.finishing /\ e.revocable = c.revocable
    BY <1>1, <1>3, <1>10
  <2>2. SameRing(c, e)
    BY <1>1, <1>10 DEF SameRing
  <2>3. SameUse(c, e)
    BY <1>2, <1>10 DEF SameUse
  <2>4. SameWindow(c, e)
    BY <1>2, <1>10 DEF SameWindow
  <2>. QED  BY <2>1, <2>2, <2>3, <2>4
<1>. DEFINE Kept(e) == /\ e \in Core /\ ~e.finishing
                       /\ SameRing(c, e) /\ SameUse(c, e)
                       /\ SameWindow(c, e)
                       /\ e.revocable = c.revocable
                       /\ e.result \in {c.result, "SinkFailed"}
<1>11. /\ Kept(FinishedCore(c, "failed"))
       /\ FinishedCore(c, "failed").phase = "Running"
       /\ FinishedCore(c, "failed").live
       /\ FinishedCore(c, "failed").open = c.open
  BY <1>3, <1>7, <1>9, <1>10 DEF OnlyFails, Running
<1>12. /\ Kept(FinishedCore(c, "done"))
       /\ FinishedCore(c, "done").result = c.result
       /\ IF Failed(c) /\ c.revocable
          THEN /\ FinishedCore(c, "done").phase = "Running" /\ FinishedCore(c, "done").live
               /\ FinishedCore(c, "done").open = c.open
          ELSE /\ FinishedCore(c, "done").phase = "Settled"
               /\ ~FinishedCore(c, "done").live
               /\ ~FinishedCore(c, "done").open
  <2>1. CASE Failed(c) /\ c.revocable
    <3>1. FinishedCore(c, "done") = d
      BY <1>6, <2>1
    <3>2. Kept(d)
      BY <1>1, <1>2, <1>3
    <3>. QED  BY <1>3, <1>7, <2>1, <3>1, <3>2 DEF Running
  <2>2. CASE ~(Failed(c) /\ c.revocable)
    <3>. DEFINE e == [d EXCEPT !.open = FALSE, !.live = FALSE, !.phase = "Settled"]
    <3>1. FinishedCore(c, "done") = e
      BY <1>6, <2>2
    <3>2. e \in Core /\ ~e.open /\ ~e.live /\ e.phase = "Settled"
      BY <1>1 DEF Core
    <3>3. SameRing(d, e) /\ SameUse(d, e) /\ SameWindow(d, e)
      BY <1>1 DEF Core, SameRing, SameUse, SameWindow
    <3>4. /\ e.finishing = d.finishing /\ e.revocable = d.revocable
          /\ e.result = d.result
      BY <1>1 DEF Core
    <3>. HIDE DEF e
    <3>5. e.result = c.result
      BY <1>3, <3>4
    <3>6. Kept(e)
      BY <1>10, <3>2, <3>3, <3>4, <3>5
    <3>. QED  BY <2>2, <3>1, <3>2, <3>5, <3>6
  <2>. QED  BY <2>1, <2>2
<1>. QED  BY <1>4, <1>9, <1>11, <1>12

\* An abort ends the session.
LEMMA AbortedIs ==
  ASSUME NEW c \in Core
  PROVE  /\ AbortedCore(c) \in Core
         /\ SameRing(c, AbortedCore(c)) /\ SameUse(c, AbortedCore(c)) /\ SameWindow(c, AbortedCore(c))
         /\ AbortedCore(c).phase = "Settled" /\ AbortedCore(c).result = c.result
         /\ ~AbortedCore(c).open /\ ~AbortedCore(c).live /\ ~AbortedCore(c).finishing
         /\ AbortedCore(c).revocable = c.revocable
  BY DEF AbortedCore, Running, Core, SameRing, SameSink, SameUse, SameWindow

\* A call of the sink, whoever makes it: what it does to the core,
LEMMA ActDoes ==
  ASSUME IInv, NEW call \in Call, Fits(call), Act(call)
  PROVE  Effect(call)
<1>1. core \in Core /\ Running(core) /\ core.live /\ RingFits(core)
  BY DEF IInv, TypeInv, CoreTypes, SinkInv, Fits, Running
<1>2. CASE call.act = "Open"
  BY <1>1, <1>2, OpenedIs DEF Act, Effect, RingFits, GoesOn, LeavesStream, Running,
    Failed, SameRing, SameSink, SameUse, SameWindow
<1>3. CASE call.act = "Write"
  <2>1. core.size # 0 /\ core.rd < RingSize /\ call.len \in 1..core.used /\ call.len \in Nat
        /\ core.size = RingSize /\ core.used \in Nat /\ core.rd \in Nat /\ core.used <= core.size
    BY <1>3 DEF IInv, TypeInv, CoreTypes, RingFits, Core, Fits, Call
  <2>2. CASE /\ image' = image \o Stream(call.at, call.len)
             /\ core' = WroteCore(core, call.len, TRUE, TRUE)
             /\ ring' = Drained(call.at, call.len) /\ UNCHANGED sink
    <3>. DEFINE d == WroteCore(core, call.len, TRUE, TRUE)
    <3>1. /\ d \in Core /\ d.size = core.size /\ d.used = core.used - call.len
          /\ d.rd = IF core.rd + call.len < RingSize THEN core.rd + call.len
                    ELSE core.rd + call.len - RingSize
          /\ d.written = core.written + call.len
          /\ SameSink(core, d) /\ SameUse(core, d) /\ SameWindow(core, d)
      BY <1>1, <2>1, DrainIs
    <3>. HIDE DEF d
    <3>2. RingFits(d)
      BY <2>1, <3>1, CoreAssumption DEF RingFits
    <3>3. GoesOn(core, d)
      BY <3>1 DEF GoesOn, SameSink, Running, Failed
    <3>. QED  BY <1>3, <2>2, <3>1, <3>2, <3>3 DEF Effect, Drains, d
  <2>3. CASE /\ core' = WroteCore(core, call.len, FALSE, TRUE) /\ sink' = "failed"
             /\ UNCHANGED <<ring, image>>
    <3>1. core' \in Core /\ OnlyFails(core, core') /\ Failed(core')
        /\ core'.result \in {core.result, "SinkFailed"}
      BY <1>1, <2>3, WriteFailIs DEF Failed
    <3>. QED
      BY <1>1, <2>3, <3>1 DEF Effect, RingFits, LeavesStream, GoesOn, OnlyFails, SameRing,
        Running, Failed
  <2>. QED  BY <1>3, <2>2, <2>3 DEF Act
<1>4. CASE call.act = "Finish"
  <2>1. core' \in {FinishedCore(core, "more"), FinishedCore(core, "done"), FinishedCore(core, "failed")}
        /\ UNCHANGED <<ring, image>>
    BY <1>4 DEF Act
  <2>. QED  BY <1>1, <2>1, FinishedIs DEF Effect, RingFits, GoesOn, LeavesStream, Running,
    Failed, SameRing, SameSink, SameUse, SameWindow
<1>5. CASE call.act = "Abort"
  BY <1>1, <1>5, AbortedIs DEF Act, Effect, RingFits, GoesOn, LeavesStream, Running,
    Failed, SameRing, SameSink, SameUse, SameWindow
<1>. QED  BY <1>2, <1>3, <1>4, <1>5 DEF Act

\* and that it leaves the sink where the core says.
LEMMA ActKeepsSink ==
  ASSUME IInv, NEW call \in Call, Fits(call), Act(call)
  PROVE  SinkInv'
<1>1. core \in Core /\ Running(core) /\ core.live /\ RingFits(core)
  BY DEF IInv, TypeInv, CoreTypes, SinkInv, Fits, Running
<1>2. CASE call.act = "Open"
  BY <1>1, <1>2, OpenedIs DEF Act, IInv, SinkInv, Fits, Running, Failed
<1>3. CASE call.act = "Write"
  <2>1. core.size # 0 /\ core.rd < RingSize /\ call.len \in 1..core.used /\ call.len \in Nat
    BY <1>3 DEF IInv, TypeInv, CoreTypes, RingFits, Fits, Call
  <2>2. CASE core' = WroteCore(core, call.len, TRUE, TRUE) /\ UNCHANGED sink
    BY <1>1, <1>3, <2>1, <2>2, DrainIs DEF IInv, SinkInv, Fits, Running, Failed, SameSink
  <2>3. CASE core' = WroteCore(core, call.len, FALSE, TRUE) /\ sink' = "failed"
    <3>1. OnlyFails(core, core') /\ Failed(core')
        /\ core'.result \in {core.result, "SinkFailed"}
      BY <1>1, <2>3, WriteFailIs DEF Failed
    <3>. QED  BY <1>1, <1>3, <2>3, <3>1 DEF IInv, SinkInv, Fits, OnlyFails, Running, Failed
  <2>. QED  BY <1>3, <2>2, <2>3 DEF Act
<1>4. CASE call.act = "Finish"
  <2>1. core.finishing /\ sink \in {"open", "finishing"} /\ core.open
    BY <1>1, <1>4 DEF IInv, SinkInv, Fits
  <2>2. CASE sink' = "finishing" /\ core' = FinishedCore(core, "more")
    BY <1>1, <2>1, <2>2, FinishedIs DEF IInv, SinkInv, Running, Failed
  <2>3. CASE /\ core' = FinishedCore(core, "done")
             /\ sink' = IF Running(core') THEN "done" ELSE "committed"
    BY <1>1, <2>1, <2>3, FinishedIs DEF IInv, SinkInv, Running, Failed
  <2>4. CASE core' = FinishedCore(core, "failed") /\ sink' = "failed"
    BY <1>1, <2>1, <2>4, FinishedIs DEF IInv, SinkInv, Running, Failed
  <2>. QED  BY <1>4, <2>2, <2>3, <2>4 DEF Act
<1>5. CASE call.act = "Abort"
  BY <1>1, <1>5, AbortedIs DEF Act, IInv, SinkInv, Fits, Running, Failed
<1>. QED  BY <1>2, <1>3, <1>4, <1>5 DEF Act

\* The calls of the driver, of the job and of a straight write's open are such calls.
LEMMA ActStep ==
  ASSUME IInv, DriveAct \/ JobAct \/ DirectOpen
  PROVE  (\E call \in Call : Effect(call)) /\ SinkInv'
<1>1. CASE DriveAct
  <2>1. ncall \in Call /\ Fits(ncall) /\ Act(ncall)
    BY <1>1 DEF IInv, TypeInv, PlaceTypes, CallInv, DriveAct, NetStep
  <2>. QED  BY <2>1, ActDoes, ActKeepsSink
<1>2. CASE JobAct
  <2>1. jcall \in Call /\ Fits(jcall) /\ Act(jcall)
    BY <1>2 DEF IInv, TypeInv, PlaceTypes, CallInv, JobAct
  <2>. QED  BY <2>1, ActDoes, ActKeepsSink
<1>3. CASE DirectOpen
  <2>. DEFINE call == [NoCall EXCEPT !.act = "Open"]
  <2>1. call.act = "Open" /\ call \in Call
    BY CoreAssumption DEF NoCall, Call, Acts
  <2>2. Act(call)
    BY <1>3 DEF DirectOpen
  <2>. HIDE DEF call
  <2>3. Running(core) /\ ~Failed(core) /\ ~core.open
    BY <1>3 DEF IInv, CallInv, DirectOpen
  <2>4. sink = "fresh"
    BY <2>3 DEF IInv, SinkInv
  <2>5. Fits(call)
    BY <2>1, <2>3, <2>4 DEF Fits
  <2>. QED  BY <2>1, <2>2, <2>5, ActDoes, ActKeepsSink
<1>. QED  BY <1>1, <1>2, <1>3

\* A straight write, done or failed.
LEMMA StraightStep ==
  ASSUME IInv, DirectWrite
  PROVE  Straight /\ SinkInv'
<1>1. core \in Core /\ RingFits(core) /\ core.used <= core.size
      /\ (core.size # 0 => core.rd < RingSize) /\ (core.size = 0 => core.rd = 0)
      /\ chunk.len \in Nat /\ UNCHANGED ring
  BY DEF IInv, TypeInv, CoreTypes, RingFits, ChunkTypes, Chunk, DirectWrite, PushOnly,
    NetOnly
<1>2. Running(core) /\ ~Failed(core) /\ core.open /\ ~core.finishing
  BY DEF IInv, CallInv, DirectWrite, NetStep
<1>3. core.live /\ sink = "open"
  BY <1>2 DEF IInv, SinkInv, Running
<1>4. CASE chunk.len = 0 /\ UNCHANGED <<core, sink, image>>
  BY <1>1, <1>2, <1>3, <1>4 DEF Straight, RingFits, GoesOn, SameUse, SameWindow, Running,
    Failed, IInv, TypeInv, CoreTypes, SinkInv
<1>5. CASE /\ core' = WroteCore(core, chunk.len, TRUE, FALSE) /\ UNCHANGED sink
           /\ image' = image \o [k \in 1..chunk.len |-> sent - chunk.len + k]
  <2>. DEFINE d == WroteCore(core, chunk.len, TRUE, FALSE)
  <2>1. /\ d \in Core /\ d.size = core.size /\ d.rd = core.rd /\ d.used = core.used
        /\ d.written = core.written + chunk.len
        /\ SameSink(core, d) /\ SameUse(core, d) /\ SameWindow(core, d)
    BY <1>1, WroteIs
  <2>. HIDE DEF d
  <2>2. Straight
    BY <1>1, <1>5, <2>1 DEF Straight, RingFits, GoesOn, SameSink, Running, Failed, d
  <2>3. SinkInv'
    BY <1>2, <1>3, <1>5, <2>1 DEF IInv, SinkInv, SameSink, Running, Failed, d
  <2>. QED  BY <2>2, <2>3
<1>6. CASE /\ sink' = "failed" /\ core' = WroteCore(core, chunk.len, FALSE, FALSE)
           /\ UNCHANGED image
  <2>1. core' \in Core /\ OnlyFails(core, core') /\ Failed(core')
        /\ core'.result \in {core.result, "SinkFailed"}
    BY <1>1, <1>2, <1>3, <1>6, WriteFailIs DEF Failed
  <2>2. Straight
    BY <1>1, <1>6, <2>1
    DEF Straight, RingFits, GoesOn, LeavesStream, OnlyFails, SameRing, Running, Failed
  <2>3. SinkInv'
    BY <1>2, <1>3, <1>6, <2>1 DEF IInv, SinkInv, OnlyFails, Running, Failed
  <2>. QED  BY <2>2, <2>3
<1>. QED  BY <1>4, <1>5, <1>6 DEF DirectWrite

\* What the window was held for: the chunk fits.
LEMMA ChunkFits ==
  ASSUME IInv, npc = "reserve", Accepting(core), core.size > 0
  PROVE  chunk.len <= Room(core)
<1>1. core.size = RingSize /\ core.used \in Nat /\ chunk.len \in 0..2 /\ RingSize \in Nat
  BY CoreAssumption DEF IInv, TypeInv, CoreTypes, RingFits, ChunkTypes, Chunk, Core
<1>2. HoldBelow >= 3 /\ HoldBelow \in Nat /\ TcpWindow \in Nat /\ unacked \in 0..TcpWindow
  BY PumpAssumption DEF IInv, TypeInv, RequestInv
<1>3. unacked < TcpWindow /\ Needed = chunk.len /\ Spare = HoldBelow
  BY <1>1 DEF IInv, RequestInv, Waiting, Needed, Spare, Pushing, Ringing
<1>4. Room(core) \in Int
  BY <1>1 DEF Room
<1>5. CASE core.held
  BY <1>1, <1>2, <1>3, <1>4, <1>5 DEF IInv, WindowInv
<1>6. CASE ~core.held
  BY <1>1, <1>2, <1>3, <1>4, <1>6 DEF IInv, WindowInv
<1>. QED  BY <1>5, <1>6

\* The kind of sink tells whether its finish can be taken back.
LEMMA KindOf == \A k : Revocable(k) \in BOOLEAN
  BY Zenon DEF Revocable

\* A new upload's core is new: a ring that the last one left is taken back.
LEMMA BegunStep ==
  ASSUME IInv, Begun, CanBegin(core)
  PROVE  /\ core' \in Core /\ core'.phase = "Running" /\ core'.result = "Ok" /\ core'.live
         /\ ~core'.busy /\ ~core'.copying /\ ~core'.open /\ ~core'.finishing
         /\ ~core'.final /\ ~core'.held
         /\ core'.size = 0 /\ core'.rd = 0 /\ core'.used = 0 /\ core'.written = 0
         /\ ring' = [i \in Cells |-> 0]
<1>1. PICK k : core' = BeginCore(TakeRing(core), Revocable(k)) /\ ring' = Empty(core')
  BY DEF Begun
<1>2. core \in Core /\ core.size \in {0, RingSize} /\ RingSize \in Nat
  BY CoreAssumption DEF IInv, TypeInv, CoreTypes, Core
<1>3. TakeRing(core).size = 0 /\ TakeRing(core) \in Core
  BY <1>2, TakeIs DEF CanBegin, Takeable
<1>4. Revocable(k) \in BOOLEAN
  BY KindOf
<1>5. core'.size = 0
  BY <1>1, <1>3, <1>4, BeginIs
<1>. QED  BY <1>1, <1>3, <1>4, <1>5, BeginIs DEF Empty

\* While data is copied the ring is there, with room for it.
LEMMA AtCopy ==
  ASSUME IInv, npc \in {"copy", "commit"}
  PROVE  /\ core.size = RingSize /\ RingSize \in Nat \ {0} /\ core.copying
         /\ core.used \in Nat /\ chunk.len \in Nat /\ core.used + chunk.len <= RingSize
         /\ core.rd \in 0..(RingSize - 1) /\ chunk.at = (core.rd + core.used) % RingSize
  BY CoreAssumption
  DEF IInv, TypeInv, CoreTypes, RingFits, Core, ChunkTypes, Chunk, RingInv, CopyInv, Copying

\* What next() gives is a call.
LEMMA NextIsCall ==
  ASSUME core \in Core
  PROVE  NextCall(core) \in Call
<1>1. CoreAssumption /\ core.rd \in 0..RingSize /\ core.used \in Nat /\ Sector \in Nat
  BY CoreAssumption DEF CoreAssumption, Core
<1>2. Peek(core) \in Acts
  BY PeekIs
<1>3. CASE Peek(core) = "Write"
  <2>1. StepLen(core) \in 0..Sector
    BY <1>1, <1>3, PeekIs, StepIs
  <2>. QED  BY <1>1, <1>2, <1>3, <2>1 DEF NextCall, Call
<1>4. CASE Peek(core) # "Write"
  BY <1>1, <1>2, <1>4 DEF NextCall, Call
<1>. QED  BY <1>3, <1>4

\* What writes the ring writes naturals.
LEMMA RingTypes ==
  ASSUME IInv
  PROVE  /\ \A c : Empty(c) \in [Cells -> Nat]
         /\ \A at, len : Drained(at, len) \in [Cells -> Nat]
         /\ Copy => ring' \in [Cells -> Nat]
<1>1. ring \in [Cells -> Nat]
  BY DEF IInv, TypeInv, PlaceTypes
<1>2. (\A c : Empty(c) \in [Cells -> Nat]) /\ (\A at, len : Drained(at, len) \in [Cells -> Nat])
  BY <1>1 DEF Empty, Drained
<1>3. ASSUME Copy PROVE ring' \in [Cells -> Nat]
  <2>1. sent - chunk.len \in Nat
    BY <1>3 DEF IInv, TypeInv, ChunkTypes, Chunk, RequestInv, Copy, NetStep, Pushing,
      Ringing
  <2>2. RingSize \in Nat \ {0} /\ chunk.at \in Int
    BY CoreAssumption DEF IInv, TypeInv, ChunkTypes, Chunk
  <2>3. \A i \in Cells : (i - chunk.at) % RingSize \in Nat
    BY <2>2 DEF Cells
  <2>. QED  BY <1>1, <1>3, <2>1, <2>3 DEF Copy
<1>. QED  BY <1>2, <1>3

\* What is to be reserved has data.
LEMMA AtReserve ==
  ASSUME IInv, npc = "reserve"
  PROVE  core \in Core /\ chunk.len \in Nat \ {0} /\ (core.size > 0 <=> core.size # 0)
  BY CoreAssumption
  DEF IInv, TypeInv, CoreTypes, Core, ChunkTypes, Chunk, RequestInv

\* The window stays in time while no more is needed.
LEMMA WindowStays ==
  ASSUME IInv, core' \in Core, unacked' = unacked, Needed' \in Int, Needed' <= Needed,
         npc # "window" \/ npc' = "window",
         Accepting(core') => /\ Accepting(core) /\ core'.held = core.held
                             /\ core'.size = core.size /\ core'.used <= core.used
  PROVE  WindowInv'
<1>1. /\ unacked \in Nat /\ TcpWindow \in Nat /\ HoldBelow \in Nat /\ Needed \in Int
      /\ Spare \in Int /\ Spare' \in Int
  BY PumpAssumption
  DEF IInv, TypeInv, ChunkTypes, Chunk, RequestInv, Needed, Spare, Waiting
<1>2. Spare' <= Spare
  BY <1>1 DEF Spare
<1>3. CASE Accepting(core') /\ core.size # 0
  <2>1. Room(core) \in Int /\ Room(core') \in Int /\ Room(core') >= Room(core)
    BY <1>3, CoreAssumption DEF Room, IInv, TypeInv, CoreTypes, Core
  <2>. QED  BY <1>1, <1>2, <1>3, <2>1 DEF IInv, WindowInv
<1>4. CASE Accepting(core') /\ core.size = 0
  BY <1>4 DEF IInv, WindowInv
<1>5. CASE ~Accepting(core')
  BY <1>5 DEF WindowInv
<1>. QED  BY <1>3, <1>4, <1>5

\* The numbers of the window and the room.
LEMMA PumpNumbers ==
  ASSUME IInv
  PROVE  /\ core \in Core /\ core.used \in Nat /\ core.size \in {0, RingSize} /\ core.used <= core.size
         /\ RingSize \in Nat /\ TcpWindow \in Nat \ {0}
         /\ HoldBelow = TcpWindow + 2 /\ RingSize >= HoldBelow
         /\ unacked \in 0..TcpWindow /\ parsed \in 0..1 /\ chunk.len \in 0..2
         /\ Room(core) \in Int /\ Waiting \in 0..2
  BY CoreAssumption, PumpAssumption
  DEF IInv, TypeInv, CoreTypes, RingFits, Core, ChunkTypes, Chunk, RequestInv, Room, Waiting

\* The core keeps its types.
LEMMA CoreStep ==
  ASSUME IInv, [Next]_vars
  PROVE  CoreTypes'
<1>. USE DEF IInv, TypeInv, CoreTypes, RingFits, PlaceTypes, ChunkTypes, Chunk,
  RequestInv, SinkInv, CallInv, SentInv, Fits, Running, Failed, Accepting, Room,
  SameRing, SameSink, SameUse, SameWindow, OnlyFails, NetPlaces, Backs, Driving, Direct,
  Ringing, Pushing, NetBusy, JobBusy, Copying, Towards, flash, job, tcp, net, data
<1>1. CASE Begin
  BY <1>1, CoreAssumption DEF Begin, NetIdle, Drive
<1>2. CASE Segment
  BY <1>2, CoreAssumption DEF Segment, NetIdle, NoChunk, EventOnly, NetOnly, NoGate,
    NoSink
<1>3. CASE LastSegment
  BY <1>3, CoreAssumption DEF LastSegment, NetIdle, NoChunk, EventOnly, NetOnly, NoGate,
    NoSink
<1>4. CASE Copy
  BY <1>4, CoreAssumption DEF Copy, NetStep, PushOnly, NetOnly, NoGate, NoSink, SameTcp
<1>5. CASE FinishAnswer
  BY <1>5, CoreAssumption DEF FinishAnswer, NetStep, Known, Respond, EventOnly, NetOnly,
    NoGate, NoSink
<1>6. CASE PollAgain
  BY <1>6, CoreAssumption DEF PollAgain, Drive, EventOnly, NetOnly, NoGate, NoSink
<1>7. CASE PollAnswer
  BY <1>7, CoreAssumption DEF PollAnswer, NetStep, Known, Respond, EventOnly, NetOnly,
    NoGate, NoSink
<1>8. CASE DriveStart
  BY <1>8, CoreAssumption DEF DriveStart, NetOnly, SameRequest
<1>9. CASE Stall
  BY <1>9, CoreAssumption DEF Stall
<1>10. CASE SetSupply
  BY <1>10, CoreAssumption DEF SetSupply
<1>11. CASE Gone
  BY <1>11, FailIs, CoreAssumption DEF Results, Gone, NetIdle, Drive, EventOnly,
    NetOnly, NoGate, NoSink
<1>12. CASE Finish
  BY <1>12, FailIs, CoreAssumption DEF Results, Finish, Drive, EventOnly, NetOnly,
    NoGate, NoSink
<1>13. CASE Begun
  <2>1. CASE ~CanBegin(core)
    BY <1>13, <2>1 DEF Begun, NoGate
  <2>2. CASE CanBegin(core)
    <3>1. npc = "begin" /\ npc' = "push" /\ UNCHANGED jpc
      BY <1>13, <2>2 DEF Begun, NoGate
    <3>. QED  BY <1>13, <2>2, <3>1, BegunStep DEF CanBegin
  <2>. QED  BY <2>1, <2>2
<1>14. CASE Push
  BY <1>14, ClaimIs, CoreAssumption DEF Push, CanClaim, PushOnly, NetOnly, NoGate,
    NoSink, SameTcp
<1>15. CASE DirectPass
  BY <1>15, DoneIs, CoreAssumption DEF DirectPass, PushOnly, NetOnly, NoGate, NoSink,
    SameTcp
<1>16. CASE DriveDone
  BY <1>16, DoneIs, CoreAssumption DEF DriveDone, NetStep, NoCall, Progress, NetOnly,
    SameRequest
<1>17. CASE JobSlot
  BY <1>17, DoneIs, CoreAssumption DEF JobSlot, Confirm, NoCall, JobOnly
<1>18. CASE JobDone
  BY <1>18, DoneIs, CoreAssumption DEF JobDone, NoCall, Progress, JobOnly
<1>19. CASE DirectOpen
  BY <1>19, ActStep, CoreAssumption DEF DirectOpen, Effect, GoesOn, Drains,
    LeavesStream, PushOnly, NetOnly, NoGate, NoSink, SameTcp
<1>20. CASE DriveAct
  BY <1>20, ActStep, CoreAssumption DEF DriveAct, NetStep, Effect, GoesOn, Drains,
    LeavesStream, NetOnly, SameRequest
<1>21. CASE JobAct
  BY <1>21, ActStep, CoreAssumption DEF JobAct, Effect, GoesOn, Drains, LeavesStream,
    JobOnly
<1>22. CASE DirectWrite
  BY <1>22, StraightStep, CoreAssumption DEF DirectWrite, NetStep, Straight, GoesOn,
    LeavesStream, PushOnly, NetOnly, NoGate, NoSink, SameTcp
<1>23. CASE DirectDone
  BY <1>23, DoneIs, FinalIs, CoreAssumption DEF DirectDone, Drive, AfterPush, NoChunk,
    Progress, PushOnly, NetOnly, NoGate, NoSink, SameTcp
<1>24. CASE EnsureRing
  BY <1>24, FailIs, SetRingIs, CoreAssumption DEF Results, EnsureRing, PushOnly,
    NetOnly, NoGate, NoSink, SameTcp
<1>25. CASE Reserve
  BY <1>25, ReserveIs, CoreAssumption, ChunkFits DEF Reserve, PushOnly, NetOnly, NoGate,
    NoSink, SameTcp
<1>26. CASE Commit
  <2>1. /\ core.used + chunk.len <= RingSize /\ core.size = RingSize
        /\ chunk.len \in Nat /\ core.used \in Nat
    BY <1>26, AtCopy DEF Commit, NetStep
  <2>2. core' = CommitCore(core, chunk.len) /\ npc = "commit" /\ npc' = "window" /\ UNCHANGED jpc
    BY <1>26 DEF Commit, NetStep, PushOnly, NetOnly
  <2>3. core' \in Core /\ core'.size = core.size /\ core'.rd = core.rd
        /\ core'.used \in {core.used, core.used + chunk.len}
        /\ core'.busy = core.busy /\ ~core'.copying
    BY <2>1, <2>2, CommitIs
  <2>. QED  BY <2>1, <2>2, <2>3
<1>27. CASE PushEnd
  BY <1>27, FinalIs, WindowIs, CoreAssumption DEF PushEnd, HoldWindow, Reopens, Drive,
    AfterPush, NoChunk, PushOnly, NetOnly, NoGate, NoSink, SameTcp
<1>28. CASE DriveNext
  BY <1>28, NextIs, PeekIs, StepIs, CoreAssumption DEF DriveNext, MayCall, NextCall,
    NetOnly, SameRequest
<1>29. CASE JobNext
  BY <1>29, NextIs, PeekIs, StepIs, CoreAssumption DEF JobNext, NeedsSlot, NextCall,
    JobOnly
<1>30. CASE DriveEnd
  BY <1>30, TakeIs, CoreAssumption DEF DriveEnd, Takeable, Empty, NetOnly, SameRequest
<1>31. CASE JobOut
  BY <1>31, TakeIs, CoreAssumption DEF JobOut, Takeable, Empty, JobOnly
<1>32. CASE Poll
  BY <1>32, FailIs, WindowIs, CoreAssumption DEF Results, Poll, NetIdle, Reopens, Drive,
    EventOnly, NetOnly, NoGate, NoSink
<1>33. CASE UNCHANGED vars
  BY <1>33, CoreAssumption DEF vars
<1>. QED  BY <1>1, <1>2, <1>3, <1>4, <1>5, <1>6, <1>7, <1>8, <1>9, <1>10, <1>11, <1>12,
  <1>13, <1>14, <1>15, <1>16, <1>17, <1>18, <1>19, <1>20, <1>21, <1>22, <1>23, <1>24,
  <1>25, <1>26, <1>27, <1>28, <1>29, <1>30, <1>31, <1>32, <1>33 DEF Next, Client,
  Handler, DirectPush, RingPush, DriveFree, Run

\* The places and calls keep their types.
LEMMA PlaceStep ==
  ASSUME IInv, [Next]_vars
  PROVE  PlaceTypes'
<1>. USE DEF IInv, TypeInv, CoreTypes, PlaceTypes, NetPlaces, Backs, Driving, Direct,
  Ringing, Pushing, NetBusy, JobBusy, Copying, Towards, flash, job, tcp, net, data
<1>1. CASE Begin
  BY <1>1, RingTypes DEF Begin, NetIdle, Drive
<1>2. CASE Segment
  BY <1>2, RingTypes DEF Segment, NetIdle, NoChunk, EventOnly, NetOnly, NoGate, NoSink
<1>3. CASE LastSegment
  BY <1>3, RingTypes DEF LastSegment, NetIdle, NoChunk, EventOnly, NetOnly, NoGate,
    NoSink
<1>4. CASE Copy
  BY <1>4, RingTypes DEF Copy, NetStep, PushOnly, NetOnly, NoGate, NoSink, SameTcp
<1>5. CASE FinishAnswer
  BY <1>5, RingTypes DEF FinishAnswer, NetStep, Known, Respond, EventOnly, NetOnly,
    NoGate, NoSink
<1>6. CASE PollAgain
  BY <1>6, RingTypes DEF PollAgain, Drive, EventOnly, NetOnly, NoGate, NoSink
<1>7. CASE PollAnswer
  BY <1>7, RingTypes DEF PollAnswer, NetStep, Known, Respond, EventOnly, NetOnly,
    NoGate, NoSink
<1>8. CASE Stall
  BY <1>8, RingTypes DEF Stall
<1>9. CASE SetSupply
  BY <1>9, RingTypes DEF SetSupply
<1>10. CASE Gone
  BY <1>10, FailIs, RingTypes DEF Gone, NetIdle, Drive, EventOnly, NetOnly, NoGate,
    NoSink
<1>11. CASE Finish
  BY <1>11, FailIs, RingTypes DEF Finish, Drive, EventOnly, NetOnly, NoGate, NoSink
<1>12. CASE Begun
  <2>1. CASE CanBegin(core)
    <3>1. ring' \in [Cells -> Nat]
      BY <1>12, <2>1, BegunStep
    <3>. QED  BY <1>12, <2>1, <3>1 DEF Begun, NoGate, NoFlashOf, Acts
  <2>2. CASE ~CanBegin(core)
    BY <1>12, <2>2 DEF Begun, NoGate
  <2>. QED  BY <2>1, <2>2
<1>13. CASE Push
  BY <1>13, ClaimIs, RingTypes DEF Push, CanClaim, PushOnly, NetOnly, NoGate, NoSink,
    SameTcp
<1>14. CASE DirectPass
  BY <1>14, DoneIs, RingTypes DEF DirectPass, PushOnly, NetOnly, NoGate, NoSink, SameTcp
<1>15. CASE DirectOpen
  BY <1>15, ActStep, RingTypes DEF DirectOpen, Effect, GoesOn, Drains, LeavesStream,
    PushOnly, NetOnly, NoGate, NoSink, SameTcp
<1>16. CASE DriveAct
  BY <1>16, ActStep, RingTypes DEF DriveAct, NetStep, Effect, GoesOn, Drains,
    LeavesStream, NetOnly, SameRequest
<1>17. CASE JobAct
  BY <1>17, ActStep, RingTypes DEF JobAct, Effect, GoesOn, Drains, LeavesStream, JobOnly
<1>18. CASE DirectWrite
  BY <1>18, StraightStep, RingTypes DEF DirectWrite, NetStep, Straight, GoesOn,
    LeavesStream, PushOnly, NetOnly, NoGate, NoSink, SameTcp
<1>19. CASE DirectDone
  BY <1>19, DoneIs, FinalIs, RingTypes DEF DirectDone, Drive, AfterPush, NoChunk,
    Progress, PushOnly, NetOnly, NoGate, NoSink, SameTcp
<1>20. CASE EnsureRing
  BY <1>20, FailIs, SetRingIs, RingTypes DEF EnsureRing, PushOnly, NetOnly, NoGate,
    NoSink, SameTcp
<1>21. CASE Reserve
  BY <1>21, ReserveIs, RingTypes DEF Reserve, PushOnly, NetOnly, NoGate, NoSink, SameTcp
<1>22. CASE Commit
  BY <1>22, CommitIs, RingTypes DEF Commit, NetStep, PushOnly, NetOnly, NoGate, NoSink,
    SameTcp
<1>23. CASE PushEnd
  BY <1>23, FinalIs, WindowIs, RingTypes DEF PushEnd, HoldWindow, Reopens, Drive,
    AfterPush, NoChunk, PushOnly, NetOnly, NoGate, NoSink, SameTcp
<1>24. CASE DriveStart
  BY <1>24, RingTypes, PumpAssumption DEF DriveStart, NetOnly, SameRequest
<1>25. CASE DriveNext
  BY <1>25, NextIs, PeekIs, StepIs, RingTypes, NextIsCall, PumpAssumption DEF DriveNext,
    MayCall, NextCall, NetOnly, SameRequest
<1>26. CASE DriveDone
  BY <1>26, DoneIs, RingTypes, CoreAssumption, PumpAssumption DEF Call, Acts, DriveDone,
    NetStep, NoCall, Progress, NetOnly, SameRequest
<1>27. CASE DriveEnd
  BY <1>27, TakeIs, RingTypes DEF DriveEnd, Takeable, Empty, NetOnly, SameRequest
<1>28. CASE JobOut
  BY <1>28, TakeIs, RingTypes DEF JobOut, Takeable, Empty, JobOnly
<1>29. CASE Poll
  BY <1>29, FailIs, WindowIs, RingTypes DEF Poll, NetIdle, Reopens, Drive, EventOnly,
    NetOnly, NoGate, NoSink
<1>30. CASE JobNext
  BY <1>30, NextIs, PeekIs, StepIs, RingTypes, NextIsCall DEF JobNext, NeedsSlot,
    NextCall, JobOnly
<1>31. CASE JobSlot
  <2>1. \A a \in Acts : Confirm(core, a) \in Acts
    BY DEF Confirm, Acts
  <2>2. jcall' \in Call
    BY <1>31, <2>1, CoreAssumption DEF JobSlot, Call, NoCall, Acts
  <2>. QED  BY <1>31, <2>2 DEF JobSlot, JobOnly
<1>32. CASE JobDone
  BY <1>32, DoneIs, RingTypes, CoreAssumption DEF Call, Acts, JobDone, NoCall, Progress,
    JobOnly
<1>33. CASE UNCHANGED vars
  BY <1>33, RingTypes DEF vars
<1>. QED  BY <1>1, <1>2, <1>3, <1>4, <1>5, <1>6, <1>7, <1>8, <1>9, <1>10, <1>11, <1>12,
  <1>13, <1>14, <1>15, <1>16, <1>17, <1>18, <1>19, <1>20, <1>21, <1>22, <1>23, <1>24,
  <1>25, <1>26, <1>27, <1>28, <1>29, <1>30, <1>31, <1>32, <1>33 DEF Next, Client,
  Handler, DirectPush, RingPush, DriveFree, Run

\* A chunk of a segment is a chunk.
LEMMA NewChunk ==
  /\ NoChunk \in Chunk
  /\ \A n \in 0..2, last \in BOOLEAN :
       [NoChunk EXCEPT !.len = n] \in Chunk /\ [NoChunk EXCEPT !.len = n, !.last = last] \in Chunk
<1>1. NoChunk \in Chunk
  BY CoreAssumption DEF NoChunk, Chunk
<1>. QED  BY <1>1 DEF Chunk

\* The data pushed keeps its type.
LEMMA ChunkStep ==
  ASSUME IInv, [Next]_vars
  PROVE  ChunkTypes'
<1>. USE DEF IInv, TypeInv, ChunkTypes, flash, job, tcp, net, data
<1>1. CASE Begin
  BY <1>1, NewChunk DEF Begin, NetIdle, Drive
<1>2. CASE Copy
  BY <1>2, NewChunk DEF Copy, NetStep, PushOnly, NetOnly, NoGate, NoSink, SameTcp
<1>3. CASE FinishAnswer
  BY <1>3, NewChunk DEF FinishAnswer, NetStep, Known, Respond, EventOnly, NetOnly,
    NoGate, NoSink
<1>4. CASE PollAgain
  BY <1>4, NewChunk DEF PollAgain, Drive, EventOnly, NetOnly, NoGate, NoSink
<1>5. CASE PollAnswer
  BY <1>5, NewChunk DEF PollAnswer, NetStep, Known, Respond, EventOnly, NetOnly, NoGate,
    NoSink
<1>6. CASE DriveStart
  BY <1>6, NewChunk DEF DriveStart, NetOnly, SameRequest
<1>7. CASE Stall
  BY <1>7, NewChunk DEF Stall
<1>8. CASE SetSupply
  BY <1>8, NewChunk DEF SetSupply
<1>9. CASE Segment
  <2>1. parsed + 1 \in 0..2
    BY DEF RequestInv
  <2>. QED  BY <1>9, <2>1, NewChunk DEF Segment
<1>10. CASE LastSegment
  <2>1. parsed \in 0..2
    BY DEF RequestInv
  <2>. QED  BY <1>10, <2>1, NewChunk DEF LastSegment
<1>11. CASE Gone
  BY <1>11, FailIs, NewChunk DEF Gone, NetIdle, Drive, EventOnly, NetOnly, NoGate,
    NoSink
<1>12. CASE Finish
  BY <1>12, FailIs, NewChunk DEF Finish, Drive, EventOnly, NetOnly, NoGate, NoSink
<1>13. CASE Begun
  <2>1. CASE ~CanBegin(core)
    BY <1>13, <2>1 DEF Begun
  <2>2. CASE CanBegin(core)
    <3>1. PICK n \in Lengths : sent' = (IF n = 0 THEN 0 ELSE 1)
                               /\ chunk' = [NoChunk EXCEPT !.len = sent', !.last = n = 0]
      BY <1>13, <2>2 DEF Begun
    <3>. DEFINE last == n = 0
    <3>2. last \in BOOLEAN /\ sent' \in 0..2
      BY <3>1
    <3>. QED  BY <3>1, <3>2, NewChunk
  <2>. QED  BY <2>1, <2>2
<1>14. CASE Push
  <2>1. Accepting(core) \in BOOLEAN
    BY DEF Accepting
  <2>. QED  BY <1>14, <2>1 DEF Push, Chunk
<1>15. CASE DirectPass
  BY <1>15, DoneIs, NewChunk DEF DirectPass, PushOnly, NetOnly, NoGate, NoSink, SameTcp
<1>16. CASE DriveDone
  BY <1>16, DoneIs, NewChunk DEF DriveDone, NetStep, NoCall, Progress, NetOnly,
    SameRequest
<1>17. CASE JobSlot
  BY <1>17, DoneIs, NewChunk DEF JobSlot, Confirm, NoCall, JobOnly
<1>18. CASE JobDone
  BY <1>18, DoneIs, NewChunk DEF JobDone, NoCall, Progress, JobOnly
<1>19. CASE DirectOpen
  BY <1>19, ActStep, NewChunk DEF DirectOpen, Effect, GoesOn, Drains, LeavesStream,
    PushOnly, NetOnly, NoGate, NoSink, SameTcp
<1>20. CASE DriveAct
  BY <1>20, ActStep, NewChunk DEF DriveAct, NetStep, Effect, GoesOn, Drains,
    LeavesStream, NetOnly, SameRequest
<1>21. CASE JobAct
  BY <1>21, ActStep, NewChunk DEF JobAct, Effect, GoesOn, Drains, LeavesStream, JobOnly
<1>22. CASE DirectWrite
  BY <1>22, StraightStep, NewChunk DEF DirectWrite, NetStep, Straight, GoesOn,
    LeavesStream, PushOnly, NetOnly, NoGate, NoSink, SameTcp
<1>23. CASE DirectDone
  BY <1>23, DoneIs, FinalIs, NewChunk DEF DirectDone, Drive, AfterPush, NoChunk,
    Progress, PushOnly, NetOnly, NoGate, NoSink, SameTcp
<1>24. CASE EnsureRing
  BY <1>24 DEF Chunk, EnsureRing
<1>25. CASE Reserve
  <2>1. core.size # 0 => (core.rd + core.used) % core.size \in 0..RingSize
    <3>1. core.size \in {0, RingSize} /\ RingSize \in Nat \ {0} /\ core.rd + core.used \in Nat
      BY CoreAssumption DEF CoreTypes, Core
    <3>. QED  BY <3>1
  <2>2. Keeps(core, chunk.len) => core.size # 0
    BY <2>1 DEF Keeps, CoreTypes, Core
  <2>. QED  BY <1>25, <2>1, <2>2 DEF Chunk, Reserve, PushOnly, NetOnly
<1>26. CASE Commit
  BY <1>26, CommitIs, NewChunk DEF Commit, NetStep, PushOnly, NetOnly, NoGate, NoSink,
    SameTcp
<1>27. CASE PushEnd
  BY <1>27, FinalIs, WindowIs, NewChunk DEF PushEnd, HoldWindow, Reopens, Drive,
    AfterPush, NoChunk, PushOnly, NetOnly, NoGate, NoSink, SameTcp
<1>28. CASE DriveNext
  BY <1>28, NextIs, PeekIs, StepIs, NewChunk DEF DriveNext, MayCall, NextCall, NetOnly,
    SameRequest
<1>29. CASE JobNext
  BY <1>29, NextIs, PeekIs, StepIs, NewChunk DEF JobNext, NeedsSlot, NextCall, JobOnly
<1>30. CASE DriveEnd
  BY <1>30, TakeIs, NewChunk DEF DriveEnd, Takeable, Empty, NetOnly, SameRequest
<1>31. CASE JobOut
  BY <1>31, TakeIs, NewChunk DEF JobOut, Takeable, Empty, JobOnly
<1>32. CASE Poll
  BY <1>32, FailIs, WindowIs, NewChunk DEF Poll, NetIdle, Reopens, Drive, EventOnly,
    NetOnly, NoGate, NoSink
<1>33. CASE UNCHANGED vars
  BY <1>33, NewChunk DEF vars
<1>. QED  BY <1>1, <1>2, <1>3, <1>4, <1>5, <1>6, <1>7, <1>8, <1>9, <1>10, <1>11, <1>12,
  <1>13, <1>14, <1>15, <1>16, <1>17, <1>18, <1>19, <1>20, <1>21, <1>22, <1>23, <1>24,
  <1>25, <1>26, <1>27, <1>28, <1>29, <1>30, <1>31, <1>32, <1>33 DEF Next, Client,
  Handler, DirectPush, RingPush, DriveFree, Run

\* The request goes as its client and its handler take it.
LEMMA RequestStep ==
  ASSUME IInv, [Next]_vars
  PROVE  RequestInv'
<1>. USE DEF IInv, TypeInv, CoreTypes, Core, PlaceTypes, ChunkTypes, Chunk, RequestInv,
  NetPlaces, Backs, Driving, Direct, Ringing, Pushing, NetBusy, JobBusy, Copying,
  Towards, flash, job, tcp, net, data
<1>1. CASE Begin
  BY <1>1, PumpAssumption DEF Begin, NetIdle, Drive
<1>2. CASE Segment
  BY <1>2, PumpAssumption DEF Segment, NetIdle, NoChunk, EventOnly, NetOnly, NoGate,
    NoSink
<1>3. CASE Copy
  BY <1>3, PumpAssumption DEF Copy, NetStep, PushOnly, NetOnly, NoGate, NoSink, SameTcp
<1>4. CASE FinishAnswer
  BY <1>4, PumpAssumption DEF FinishAnswer, NetStep, Known, Respond, EventOnly, NetOnly,
    NoGate, NoSink
<1>5. CASE PollAgain
  BY <1>5, PumpAssumption DEF PollAgain, Drive, EventOnly, NetOnly, NoGate, NoSink
<1>6. CASE PollAnswer
  BY <1>6, PumpAssumption DEF PollAnswer, NetStep, Known, Respond, EventOnly, NetOnly,
    NoGate, NoSink
<1>7. CASE DriveStart
  BY <1>7, PumpAssumption DEF DriveStart, NetOnly, SameRequest
<1>8. CASE Stall
  BY <1>8, PumpAssumption DEF Stall
<1>9. CASE SetSupply
  BY <1>9, PumpAssumption DEF SetSupply
<1>10. CASE LastSegment
  <2>1. CASE npc' = "push" /\ chunk' = [NoChunk EXCEPT !.len = parsed, !.last = TRUE]
    <3>1. chunk'.len = parsed /\ chunk'.last
      BY <2>1 DEF NoChunk
    <3>. QED  BY <1>10, <2>1, <3>1 DEF LastSegment, NetIdle, EventOnly, NetOnly, NoGate
  <2>2. CASE npc' = "finish" /\ UNCHANGED chunk
    BY <1>10, <2>2 DEF LastSegment, NetIdle, NetOnly, NoGate
  <2>. QED  BY <1>10, <2>1, <2>2 DEF LastSegment
<1>11. CASE Gone
  BY <1>11, FailIs, PumpAssumption DEF Gone, NetIdle, Drive, EventOnly, NetOnly, NoGate,
    NoSink
<1>12. CASE Finish
  BY <1>12, FailIs, PumpAssumption DEF Finish, Drive, EventOnly, NetOnly, NoGate, NoSink
<1>13. CASE Begun
  <2>1. CASE ~CanBegin(core)
    BY <1>13, <2>1 DEF Begun
  <2>2. CASE CanBegin(core)
    <3>1. PICK n \in Lengths :
            /\ length' = n /\ sent' = (IF n = 0 THEN 0 ELSE 1)
            /\ chunk' = [NoChunk EXCEPT !.len = sent', !.last = n = 0]
      BY <1>13, <2>2 DEF Begun
    <3>. DEFINE last == n = 0
    <3>2. chunk' = [NoChunk EXCEPT !.len = sent', !.last = last]
      BY <3>1
    <3>3. last => n = 0
      OBVIOUS
    <3>. HIDE DEF last
    <3>4. chunk'.len = sent' /\ chunk'.last = last
      BY <3>2 DEF NoChunk
    <3>5. n \in Nat /\ sent' \in 0..n
      BY <3>1, PumpAssumption
    <3>6. chunk'.last => sent' = length'
      BY <3>1, <3>3, <3>4, <3>5
    <3>7. npc' = "push" /\ req' = "body" /\ answer' = "none" /\ parsed' = 0 /\ unacked' = 0
      BY <1>13, <2>2 DEF Begun
    <3>. QED  BY <3>1, <3>4, <3>5, <3>6, <3>7, PumpAssumption
  <2>. QED  BY <2>1, <2>2
<1>14. CASE Push
  <2>1. chunk'.len = chunk.len /\ chunk'.last = chunk.last
    BY <1>14 DEF Push
  <2>. QED  BY <1>14, <2>1 DEF Push, PushOnly, NetOnly, SameTcp
<1>15. CASE DirectPass
  BY <1>15, DoneIs, PumpAssumption DEF DirectPass, PushOnly, NetOnly, NoGate, NoSink,
    SameTcp
<1>16. CASE DriveDone
  BY <1>16, DoneIs, PumpAssumption DEF DriveDone, NetStep, NoCall, Progress, NetOnly,
    SameRequest
<1>17. CASE JobSlot
  BY <1>17, DoneIs, PumpAssumption DEF JobSlot, Confirm, NoCall, JobOnly
<1>18. CASE JobDone
  BY <1>18, DoneIs, PumpAssumption DEF JobDone, NoCall, Progress, JobOnly
<1>19. CASE DirectOpen
  BY <1>19, ActStep, PumpAssumption DEF DirectOpen, Effect, GoesOn, Drains,
    LeavesStream, PushOnly, NetOnly, NoGate, NoSink, SameTcp
<1>20. CASE DriveAct
  BY <1>20, ActStep, PumpAssumption DEF DriveAct, NetStep, Effect, GoesOn, Drains,
    LeavesStream, NetOnly, SameRequest
<1>21. CASE JobAct
  BY <1>21, ActStep, PumpAssumption DEF JobAct, Effect, GoesOn, Drains, LeavesStream,
    JobOnly
<1>22. CASE DirectWrite
  BY <1>22, StraightStep, PumpAssumption DEF DirectWrite, NetStep, Straight, GoesOn,
    LeavesStream, PushOnly, NetOnly, NoGate, NoSink, SameTcp
<1>23. CASE DirectDone
  BY <1>23, DoneIs, FinalIs, PumpAssumption DEF DirectDone, Drive, AfterPush, NoChunk,
    Progress, PushOnly, NetOnly, NoGate, NoSink, SameTcp
<1>24. CASE EnsureRing
  BY <1>24, FailIs, SetRingIs, PumpAssumption DEF EnsureRing, PushOnly, NetOnly, NoGate,
    NoSink, SameTcp
<1>25. CASE Reserve
  <2>1. chunk'.len = chunk.len /\ chunk'.last = chunk.last
    BY <1>25 DEF Reserve
  <2>. QED  BY <1>25, <2>1 DEF Reserve, PushOnly, NetOnly, SameTcp
<1>26. CASE Commit
  BY <1>26, CommitIs, PumpAssumption DEF Commit, NetStep, PushOnly, NetOnly, NoGate,
    NoSink, SameTcp
<1>27. CASE PushEnd
  BY <1>27, FinalIs, WindowIs, PumpAssumption DEF PushEnd, HoldWindow, Reopens, Drive,
    AfterPush, NoChunk, PushOnly, NetOnly, NoGate, NoSink, SameTcp
<1>28. CASE DriveNext
  BY <1>28, NextIs, PeekIs, StepIs, PumpAssumption DEF DriveNext, MayCall, NextCall,
    NetOnly, SameRequest
<1>29. CASE JobNext
  BY <1>29, NextIs, PeekIs, StepIs, PumpAssumption DEF JobNext, NeedsSlot, NextCall,
    JobOnly
<1>30. CASE DriveEnd
  BY <1>30, TakeIs, PumpAssumption DEF DriveEnd, Takeable, Empty, NetOnly, SameRequest
<1>31. CASE JobOut
  BY <1>31, TakeIs, PumpAssumption DEF JobOut, Takeable, Empty, JobOnly
<1>32. CASE Poll
  BY <1>32, FailIs, WindowIs, PumpAssumption DEF Poll, NetIdle, Reopens, Drive,
    EventOnly, NetOnly, NoGate, NoSink
<1>33. CASE UNCHANGED vars
  BY <1>33, PumpAssumption DEF vars
<1>. QED  BY <1>1, <1>2, <1>3, <1>4, <1>5, <1>6, <1>7, <1>8, <1>9, <1>10, <1>11, <1>12,
  <1>13, <1>14, <1>15, <1>16, <1>17, <1>18, <1>19, <1>20, <1>21, <1>22, <1>23, <1>24,
  <1>25, <1>26, <1>27, <1>28, <1>29, <1>30, <1>31, <1>32, <1>33 DEF Next, Client,
  Handler, DirectPush, RingPush, DriveFree, Run

\* The sink is where the core takes it to be.
LEMMA SinkStep ==
  ASSUME IInv, [Next]_vars
  PROVE  SinkInv'
<1>. USE DEF IInv, TypeInv, CoreTypes, SinkInv, Results, Accepting, Running, Failed,
  SameRing, SameSink, SameUse, SameWindow, OnlyFails, flash, job, tcp, net, data
<1>1. CASE Begin
  BY <1>1 DEF Begin, NetIdle, Drive
<1>2. CASE Segment
  BY <1>2 DEF Segment, NetIdle, NoChunk, EventOnly, NetOnly, NoGate, NoSink
<1>3. CASE LastSegment
  BY <1>3 DEF LastSegment, NetIdle, NoChunk, EventOnly, NetOnly, NoGate, NoSink
<1>4. CASE Copy
  BY <1>4 DEF Copy, NetStep, PushOnly, NetOnly, NoGate, NoSink, SameTcp
<1>5. CASE FinishAnswer
  BY <1>5 DEF FinishAnswer, NetStep, Known, Respond, EventOnly, NetOnly, NoGate, NoSink
<1>6. CASE PollAgain
  BY <1>6 DEF PollAgain, Drive, EventOnly, NetOnly, NoGate, NoSink
<1>7. CASE PollAnswer
  BY <1>7 DEF PollAnswer, NetStep, Known, Respond, EventOnly, NetOnly, NoGate, NoSink
<1>8. CASE DriveStart
  BY <1>8 DEF DriveStart, NetOnly, SameRequest
<1>9. CASE Stall
  BY <1>9 DEF Stall
<1>10. CASE SetSupply
  BY <1>10 DEF SetSupply
<1>11. CASE Gone
  BY <1>11, FailIs DEF Gone, NetIdle, Drive, EventOnly, NetOnly, NoGate, NoSink
<1>12. CASE Finish
  BY <1>12, FailIs DEF Finish, Drive, EventOnly, NetOnly, NoGate, NoSink
<1>13. CASE Begun
  <2>1. CASE ~CanBegin(core)
    BY <1>13, <2>1 DEF Begun
  <2>2. CASE CanBegin(core)
    BY <1>13, <2>2, BegunStep DEF Begun
  <2>. QED  BY <2>1, <2>2
<1>14. CASE Push
  BY <1>14, ClaimIs DEF Push, CanClaim, PushOnly, NetOnly, NoGate, NoSink, SameTcp
<1>15. CASE DirectPass
  BY <1>15, DoneIs DEF DirectPass, PushOnly, NetOnly, NoGate, NoSink, SameTcp
<1>16. CASE DriveDone
  BY <1>16, DoneIs DEF DriveDone, NetStep, NoCall, Progress, NetOnly, SameRequest
<1>17. CASE JobSlot
  BY <1>17, DoneIs DEF JobSlot, Confirm, NoCall, JobOnly
<1>18. CASE JobDone
  BY <1>18, DoneIs DEF JobDone, NoCall, Progress, JobOnly
<1>19. CASE DirectOpen
  BY <1>19, ActStep
<1>20. CASE DriveAct
  BY <1>20, ActStep
<1>21. CASE JobAct
  BY <1>21, ActStep
<1>22. CASE DirectWrite
  BY <1>22, StraightStep
<1>23. CASE DirectDone
  BY <1>23, DoneIs, FinalIs DEF DirectDone, Drive, AfterPush, NoChunk, Progress,
    PushOnly, NetOnly, NoGate, NoSink, SameTcp
<1>24. CASE EnsureRing
  BY <1>24, FailIs, SetRingIs DEF EnsureRing, PushOnly, NetOnly, NoGate, NoSink, SameTcp
<1>25. CASE Reserve
  BY <1>25, ReserveIs, ChunkFits, AtReserve DEF Reserve, PushOnly, NetOnly, NoGate,
    NoSink, SameTcp
<1>26. CASE Commit
  <2>1. core \in Core /\ chunk.len \in Nat /\ core.used + chunk.len <= RingSize
    BY <1>26, AtCopy DEF Commit, NetStep
  <2>2. core' = CommitCore(core, chunk.len) /\ UNCHANGED sink
    BY <1>26 DEF Commit, NoSink
  <2>. QED  BY <2>1, <2>2, CommitIs
<1>27. CASE PushEnd
  BY <1>27, FinalIs, WindowIs DEF PushEnd, HoldWindow, Reopens, Drive, AfterPush,
    NoChunk, PushOnly, NetOnly, NoGate, NoSink, SameTcp
<1>28. CASE DriveNext
  BY <1>28, NextIs, PeekIs, StepIs DEF DriveNext, MayCall, NextCall, NetOnly,
    SameRequest
<1>29. CASE JobNext
  BY <1>29, NextIs, PeekIs, StepIs DEF JobNext, NeedsSlot, NextCall, JobOnly
<1>30. CASE DriveEnd
  BY <1>30, TakeIs DEF DriveEnd, Takeable, Empty, NetOnly, SameRequest
<1>31. CASE JobOut
  BY <1>31, TakeIs DEF JobOut, Takeable, Empty, JobOnly
<1>32. CASE Poll
  BY <1>32, FailIs, WindowIs DEF Poll, NetIdle, Reopens, Drive, EventOnly, NetOnly,
    NoGate, NoSink
<1>33. CASE UNCHANGED vars
  BY <1>33 DEF vars
<1>. QED  BY <1>1, <1>2, <1>3, <1>4, <1>5, <1>6, <1>7, <1>8, <1>9, <1>10, <1>11, <1>12,
  <1>13, <1>14, <1>15, <1>16, <1>17, <1>18, <1>19, <1>20, <1>21, <1>22, <1>23, <1>24,
  <1>25, <1>26, <1>27, <1>28, <1>29, <1>30, <1>31, <1>32, <1>33 DEF Next, Client,
  Handler, DirectPush, RingPush, DriveFree, Run

\* A call in hand fits, whatever comes between.
LEMMA CallStep ==
  ASSUME IInv, [Next]_vars
  PROVE  CallInv'
<1>. USE DEF IInv, TypeInv, CoreTypes, Core, RingFits, PlaceTypes, ChunkTypes, Chunk,
  Call, SinkInv, CallInv, Fits, Results, Running, Failed, Accepting, Room, SameRing,
  SameSink, SameUse, SameWindow, OnlyFails, NetPlaces, Backs, Driving, Direct, Ringing,
  Pushing, NetBusy, JobBusy, Copying, Towards, flash, job, tcp, net, data
<1>1. CASE Begin
  BY <1>1 DEF Begin, NetIdle, Drive
<1>2. CASE Segment
  BY <1>2 DEF Segment, NetIdle, NoChunk, EventOnly, NetOnly, NoGate, NoSink
<1>3. CASE LastSegment
  BY <1>3 DEF LastSegment, NetIdle, NoChunk, EventOnly, NetOnly, NoGate, NoSink
<1>4. CASE Copy
  BY <1>4 DEF Copy, NetStep, PushOnly, NetOnly, NoGate, NoSink, SameTcp
<1>5. CASE FinishAnswer
  BY <1>5 DEF FinishAnswer, NetStep, Known, Respond, EventOnly, NetOnly, NoGate, NoSink
<1>6. CASE PollAgain
  BY <1>6 DEF PollAgain, Drive, EventOnly, NetOnly, NoGate, NoSink
<1>7. CASE PollAnswer
  BY <1>7 DEF PollAnswer, NetStep, Known, Respond, EventOnly, NetOnly, NoGate, NoSink
<1>8. CASE DriveStart
  BY <1>8 DEF DriveStart, NetOnly, SameRequest
<1>9. CASE Stall
  BY <1>9 DEF Stall
<1>10. CASE SetSupply
  BY <1>10 DEF SetSupply
<1>11. CASE Gone
  BY <1>11, FailIs DEF Gone, NetIdle, Drive, EventOnly, NetOnly, NoGate, NoSink
<1>12. CASE Finish
  BY <1>12, FailIs DEF Finish, Drive, EventOnly, NetOnly, NoGate, NoSink
<1>13. CASE Begun
  <2>1. CASE ~CanBegin(core)
    BY <1>13, <2>1 DEF Begun, NoGate
  <2>2. CASE CanBegin(core)
    <3>1. npc' = "push" /\ UNCHANGED <<jpc, ncall, jcall>> /\ ~JobBusy
      BY <1>13, <2>2 DEF Begun, NoGate, CanBegin
    <3>. QED  BY <3>1
  <2>. QED  BY <2>1, <2>2
<1>14. CASE Push
  BY <1>14, ClaimIs DEF SentInv, Push, CanClaim, PushOnly, NetOnly, NoGate, NoSink,
    SameTcp
<1>15. CASE DirectPass
  BY <1>15, DoneIs DEF DirectPass, PushOnly, NetOnly, NoGate, NoSink, SameTcp
<1>16. CASE DriveDone
  BY <1>16, DoneIs DEF DriveDone, NetStep, NoCall, Progress, NetOnly, SameRequest
<1>17. CASE JobSlot
  BY <1>17, DoneIs DEF JobSlot, Confirm, NoCall, JobOnly
<1>18. CASE JobDone
  BY <1>18, DoneIs DEF JobDone, NoCall, Progress, JobOnly
<1>19. CASE DirectOpen
  <2>1. PICK ok \in BOOLEAN : core' = OpenedCore(core, ok)
    BY <1>19 DEF DirectOpen, Act, NoCall
  <2>2. core.live
    BY <1>19 DEF DirectOpen
  <2>3. /\ core'.phase = "Running" /\ core'.finishing = core.finishing
        /\ core'.open => core'.result = core.result
        /\ SameRing(core, core') /\ SameUse(core, core') /\ SameWindow(core, core')
    BY <1>19, <2>1, <2>2, OpenedIs DEF DirectOpen
  <2>4. npc = "open" /\ npc' = (IF core'.open THEN "write" ELSE "written") /\ ~JobBusy /\ UNCHANGED jpc
    BY <1>19 DEF DirectOpen, PushOnly, NetOnly
  <2>. QED  BY <2>3, <2>4
<1>20. CASE DirectWrite
  BY <1>20, StraightStep DEF DirectWrite, NetStep, Straight, GoesOn, LeavesStream,
    PushOnly, NetOnly, NoGate, NoSink, SameTcp
<1>21. CASE DirectDone
  BY <1>21, DoneIs, FinalIs DEF DirectDone, Drive, AfterPush, NoChunk, Progress,
    PushOnly, NetOnly, NoGate, NoSink, SameTcp
<1>22. CASE EnsureRing
  BY <1>22, FailIs, SetRingIs DEF EnsureRing, PushOnly, NetOnly, NoGate, NoSink, SameTcp
<1>23. CASE Reserve
  BY <1>23, ReserveIs, ChunkFits, AtReserve DEF Reserve, PushOnly, NetOnly, NoGate,
    NoSink, SameTcp
<1>24. CASE Commit
  BY <1>24, CommitIs, AtCopy DEF Commit, NetStep, PushOnly, NetOnly, NoGate, NoSink,
    SameTcp
<1>25. CASE PushEnd
  BY <1>25, FinalIs, WindowIs DEF PushEnd, HoldWindow, Reopens, Drive, AfterPush,
    NoChunk, PushOnly, NetOnly, NoGate, NoSink, SameTcp
<1>26. CASE DriveNext
  BY <1>26, NextIs, PeekIs, StepIs DEF DriveNext, MayCall, NextCall, NetOnly,
    SameRequest
<1>27. CASE JobNext
  BY <1>27, NextIs, PeekIs, StepIs DEF JobNext, NeedsSlot, NextCall, JobOnly
<1>28. CASE DriveAct
  BY <1>28, ActStep DEF DriveAct, NetStep, Effect, GoesOn, Drains, LeavesStream,
    NetOnly, SameRequest
<1>29. CASE JobAct
  BY <1>29, ActStep DEF JobAct, Effect, GoesOn, Drains, LeavesStream, JobOnly
<1>30. CASE DriveEnd
  BY <1>30, TakeIs DEF DriveEnd, Takeable, Empty, NetOnly, SameRequest
<1>31. CASE JobOut
  BY <1>31, TakeIs DEF JobOut, Takeable, Empty, JobOnly
<1>32. CASE Poll
  BY <1>32, FailIs, WindowIs DEF Poll, NetIdle, Reopens, Drive, EventOnly, NetOnly,
    NoGate, NoSink
<1>33. CASE UNCHANGED vars
  BY <1>33 DEF vars
<1>. QED  BY <1>1, <1>2, <1>3, <1>4, <1>5, <1>6, <1>7, <1>8, <1>9, <1>10, <1>11, <1>12,
  <1>13, <1>14, <1>15, <1>16, <1>17, <1>18, <1>19, <1>20, <1>21, <1>22, <1>23, <1>24,
  <1>25, <1>26, <1>27, <1>28, <1>29, <1>30, <1>31, <1>32, <1>33 DEF Next, Client,
  Handler, DirectPush, RingPush, DriveFree, Run

\* The handler pushes while the last chunk is out.
LEMMA NotFinal ==
  ASSUME IInv, npc \in Pushing, Running(core)
  PROVE  ~core.final /\ ~core.finishing
  BY DEF IInv, RequestInv, SentInv, Towards, Pushing, Direct, Ringing, Driving, Running

\* The stream is where it was left.
LEMMA SentStep ==
  ASSUME IInv, [Next]_vars
  PROVE  SentInv'
<1>. USE DEF IInv, TypeInv, CoreTypes, Core, RingFits, PlaceTypes, ChunkTypes, Chunk,
  RequestInv, SinkInv, CallInv, SentInv, Fits, Waiting, Results, Running, Failed,
  Accepting, Room, SameRing, SameSink, SameUse, SameWindow, OnlyFails, NetPlaces, Backs,
  Driving, Direct, Ringing, Pushing, NetBusy, JobBusy, Copying, Towards, flash, job,
  tcp, net, data
<1>1. CASE Begin
  BY <1>1 DEF Begin, NetIdle, Drive
<1>2. CASE Segment
  BY <1>2 DEF Segment, NetIdle, NoChunk, EventOnly, NetOnly, NoGate, NoSink
<1>3. CASE Copy
  BY <1>3 DEF Copy, NetStep, PushOnly, NetOnly, NoGate, NoSink, SameTcp
<1>4. CASE FinishAnswer
  BY <1>4 DEF FinishAnswer, NetStep, Known, Respond, EventOnly, NetOnly, NoGate, NoSink
<1>5. CASE PollAgain
  BY <1>5 DEF PollAgain, Drive, EventOnly, NetOnly, NoGate, NoSink
<1>6. CASE PollAnswer
  BY <1>6 DEF PollAnswer, NetStep, Known, Respond, EventOnly, NetOnly, NoGate, NoSink
<1>7. CASE DriveStart
  BY <1>7 DEF DriveStart, NetOnly, SameRequest
<1>8. CASE Stall
  BY <1>8 DEF Stall
<1>9. CASE SetSupply
  BY <1>9 DEF SetSupply
<1>10. CASE LastSegment
  <2>1. CASE npc' = "push" /\ chunk' = [NoChunk EXCEPT !.len = parsed, !.last = TRUE]
    <3>1. chunk'.len = parsed /\ chunk'.last
      BY <2>1 DEF NoChunk
    <3>. QED  BY <1>10, <2>1, <3>1 DEF LastSegment, NetIdle, EventOnly, NetOnly, NoGate
  <2>2. CASE npc' = "finish" /\ UNCHANGED chunk
    BY <1>10, <2>2 DEF LastSegment, NetIdle, NetOnly, NoGate
  <2>. QED  BY <1>10, <2>1, <2>2 DEF LastSegment
<1>11. CASE Gone
  BY <1>11, FailIs DEF Gone, NetIdle, Drive, EventOnly, NetOnly, NoGate, NoSink
<1>12. CASE Finish
  BY <1>12, FailIs DEF Finish, Drive, EventOnly, NetOnly, NoGate, NoSink
<1>13. CASE Begun
  <2>1. CASE ~CanBegin(core)
    BY <1>13, <2>1 DEF Begun
  <2>2. CASE CanBegin(core)
    <3>1. PICK n \in Lengths :
            /\ length' = n /\ sent' = (IF n = 0 THEN 0 ELSE 1)
            /\ chunk' = [NoChunk EXCEPT !.len = sent', !.last = n = 0]
      BY <1>13, <2>2 DEF Begun
    <3>2. chunk'.len = sent' /\ sent' \in Nat
      BY <3>1 DEF NoChunk
    <3>3. npc' = "push" /\ req' = "body" /\ parsed' = 0
      BY <1>13, <2>2 DEF Begun
    <3>. QED  BY <1>13, <2>2, <3>2, <3>3, BegunStep
  <2>. QED  BY <2>1, <2>2
<1>14. CASE Push
  BY <1>14, ClaimIs DEF Push, CanClaim, PushOnly, NetOnly, NoGate, NoSink, SameTcp
<1>15. CASE DirectPass
  BY <1>15, DoneIs DEF DirectPass, PushOnly, NetOnly, NoGate, NoSink, SameTcp
<1>16. CASE DriveDone
  BY <1>16, DoneIs DEF DriveDone, NetStep, NoCall, Progress, NetOnly, SameRequest
<1>17. CASE JobSlot
  BY <1>17, DoneIs DEF JobSlot, Confirm, NoCall, JobOnly
<1>18. CASE JobDone
  BY <1>18, DoneIs DEF JobDone, NoCall, Progress, JobOnly
<1>19. CASE DirectOpen
  <2>1. PICK ok \in BOOLEAN : core' = OpenedCore(core, ok)
    BY <1>19 DEF DirectOpen, Act, NoCall
  <2>2. Running(core) /\ core.live
    BY <1>19 DEF DirectOpen
  <2>3. /\ core'.finishing = core.finishing /\ (core'.open \/ Failed(core'))
        /\ SameRing(core, core') /\ SameWindow(core, core')
    BY <1>19, <2>1, <2>2, OpenedIs
  <2>. QED  BY <1>19, <2>2, <2>3 DEF DirectOpen, PushOnly, NetOnly
<1>20. CASE DirectWrite
  <2>1. Straight
    BY <1>20, StraightStep
  <2>2. Running(core) /\ ~core.finishing /\ npc = "write" /\ npc' = "written"
    BY <1>20 DEF DirectWrite, NetStep
  <2>3. CASE Failed(core')
    BY <1>20, <2>1, <2>2, <2>3 DEF Straight, GoesOn, DirectWrite, PushOnly, NetOnly
  <2>4. CASE core'.written = core.written + chunk.len /\ SameSink(core, core')
    BY <1>20, <2>1, <2>2, <2>4 DEF Straight, GoesOn, DirectWrite, PushOnly, NetOnly
  <2>5. CASE chunk.len = 0 /\ UNCHANGED core
    BY <1>20, <2>1, <2>2, <2>5 DEF DirectWrite, PushOnly, NetOnly
  <2>. QED  BY <2>1, <2>3, <2>4, <2>5 DEF Straight
<1>21. CASE DirectDone
  BY <1>21, DoneIs, FinalIs DEF DirectDone, Drive, AfterPush, NoChunk, Progress,
    PushOnly, NetOnly, NoGate, NoSink, SameTcp
<1>22. CASE EnsureRing
  BY <1>22, FailIs, SetRingIs DEF EnsureRing, PushOnly, NetOnly, NoGate, NoSink, SameTcp
<1>23. CASE Reserve
  <2>1. /\ npc = "reserve" /\ npc' = (IF Keeps(core, chunk.len) THEN "copy" ELSE "window")
        /\ core' = ReserveCore(core, chunk.len) /\ chunk'.len = chunk.len
        /\ UNCHANGED <<req, sent, parsed, length, back>>
    BY <1>23 DEF Reserve, PushOnly, NetOnly
  <2>2. Running(core) => ~core.final /\ ~core.finishing
    BY <2>1, NotFinal
  <2>3. Running(core) /\ ~Failed(core) => Keeps(core, chunk.len)
    BY <2>1, <2>2, ChunkFits, AtReserve DEF Keeps, RingInv, CopyInv
  <2>4. /\ SameRing(core, core') /\ SameSink(core, core') /\ SameWindow(core, core')
    BY <2>1, ReserveIs, ChunkFits, AtReserve
  <2>5. Keeps(core, chunk.len) => Running(core) /\ ~Failed(core)
    BY DEF Keeps
  <2>. QED  BY <2>1, <2>2, <2>3, <2>4, <2>5
<1>24. CASE Commit
  <2>1. /\ npc = "commit" /\ npc' = "window" /\ core' = CommitCore(core, chunk.len)
        /\ UNCHANGED <<req, sent, parsed, length, back, chunk>>
    BY <1>24 DEF Commit, NetStep, PushOnly, NetOnly
  <2>2. /\ core'.written = core.written /\ SameSink(core, core') /\ SameWindow(core, core')
        /\ (Running(core) => core'.used = core.used + chunk.len)
        /\ (~Running(core) => core'.used = core.used)
    BY <2>1, AtCopy, CommitIs
  <2>3. chunk.kept /\ (Running(core) => ~core.final /\ ~core.finishing)
    BY <2>1, NotFinal DEF RingInv, CopyInv
  <2>. QED  BY <2>1, <2>2, <2>3
<1>25. CASE PushEnd
  BY <1>25, FinalIs, WindowIs DEF PushEnd, HoldWindow, Reopens, Drive, AfterPush,
    NoChunk, PushOnly, NetOnly, NoGate, NoSink, SameTcp
<1>26. CASE DriveNext
  BY <1>26, NextIs, PeekIs, StepIs DEF DriveNext, MayCall, NextCall, NetOnly,
    SameRequest
<1>27. CASE JobNext
  BY <1>27, NextIs, PeekIs, StepIs DEF JobNext, NeedsSlot, NextCall, JobOnly
<1>28. CASE DriveAct
  <2>1. PICK call \in Call : Effect(call)
    BY <1>28, ActStep
  <2>2. /\ core'.written + core'.used = core.written + core.used
        /\ core.finishing => core'.written = core.written /\ core'.used = core.used
    <3>1. CASE Drains(call)
      BY <2>1, <3>1 DEF Effect, Drains, Call
    <3>2. CASE LeavesStream
      BY <3>2 DEF LeavesStream
    <3>. QED  BY <2>1, <3>1, <3>2 DEF Effect
  <2>. QED  BY <1>28, <2>1, <2>2 DEF Effect, GoesOn, DriveAct, NetStep, NetOnly, SameRequest
<1>29. CASE DriveEnd
  BY <1>29, TakeIs DEF DriveEnd, Takeable, Empty, NetOnly, SameRequest
<1>30. CASE JobOut
  BY <1>30, TakeIs DEF JobOut, Takeable, Empty, JobOnly
<1>31. CASE Poll
  BY <1>31, FailIs, WindowIs DEF Poll, NetIdle, Reopens, Drive, EventOnly, NetOnly,
    NoGate, NoSink
<1>32. CASE JobAct
  <2>1. PICK call \in Call : Effect(call)
    BY <1>32, ActStep
  <2>2. /\ core'.written + core'.used = core.written + core.used
        /\ core.finishing => core'.written = core.written /\ core'.used = core.used
    <3>1. CASE Drains(call)
      BY <2>1, <3>1 DEF Effect, Drains, Call
    <3>2. CASE LeavesStream
      BY <3>2 DEF LeavesStream
    <3>. QED  BY <2>1, <3>1, <3>2 DEF Effect
  <2>. QED  BY <1>32, <2>1, <2>2 DEF Effect, GoesOn, JobAct, JobOnly
<1>33. CASE UNCHANGED vars
  BY <1>33 DEF vars
<1>. QED  BY <1>1, <1>2, <1>3, <1>4, <1>5, <1>6, <1>7, <1>8, <1>9, <1>10, <1>11, <1>12,
  <1>13, <1>14, <1>15, <1>16, <1>17, <1>18, <1>19, <1>20, <1>21, <1>22, <1>23, <1>24,
  <1>25, <1>26, <1>27, <1>28, <1>29, <1>30, <1>31, <1>32, <1>33 DEF Next, Client,
  Handler, DirectPush, RingPush, DriveFree, Run

\* Most steps fill no ring and acknowledge nothing.
LEMMA CalmSteps ==
  ASSUME IInv,
         Begin \/ Push \/ DirectPass \/ DirectOpen \/ DirectWrite \/ Copy \/ FinishAnswer \/
         PollAgain \/ PollAnswer \/ DriveStart \/ DriveNext \/ DriveAct \/ DriveDone \/
         DriveEnd \/ JobNext \/ JobSlot \/ JobAct \/ JobDone \/ JobOut \/ Stall \/ SetSupply
  PROVE  /\ core' \in Core /\ unacked' = unacked
         /\ Accepting(core') => /\ Accepting(core) /\ core'.held = core.held
                                /\ core'.size = core.size /\ core'.used <= core.used
<1>. USE DEF IInv, TypeInv, CoreTypes, Core, RingFits, ChunkTypes, Chunk, SinkInv,
  Running, Failed, Accepting, Room, SameRing, SameSink, SameUse, SameWindow, OnlyFails,
  flash, job, tcp, net, data
<1>1. CASE Begin
  BY <1>1 DEF Begin, NetIdle, Drive
<1>2. CASE Copy
  BY <1>2 DEF Copy, NetStep, PushOnly, NetOnly, NoGate, NoSink, SameTcp
<1>3. CASE FinishAnswer
  BY <1>3 DEF FinishAnswer, NetStep, Known, Respond, EventOnly, NetOnly, NoGate, NoSink
<1>4. CASE PollAgain
  BY <1>4 DEF PollAgain, Drive, EventOnly, NetOnly, NoGate, NoSink
<1>5. CASE PollAnswer
  BY <1>5 DEF PollAnswer, NetStep, Known, Respond, EventOnly, NetOnly, NoGate, NoSink
<1>6. CASE DriveStart
  BY <1>6 DEF DriveStart, NetOnly, SameRequest
<1>7. CASE Stall
  BY <1>7 DEF Stall
<1>8. CASE SetSupply
  BY <1>8 DEF SetSupply
<1>9. CASE Push
  BY <1>9, ClaimIs DEF Push, CanClaim, PushOnly, NetOnly, NoGate, NoSink, SameTcp
<1>10. CASE DirectPass
  BY <1>10, DoneIs DEF DirectPass, PushOnly, NetOnly, NoGate, NoSink, SameTcp
<1>11. CASE DriveDone
  BY <1>11, DoneIs DEF DriveDone, NetStep, NoCall, Progress, NetOnly, SameRequest
<1>12. CASE JobSlot
  BY <1>12, DoneIs DEF JobSlot, Confirm, NoCall, JobOnly
<1>13. CASE JobDone
  BY <1>13, DoneIs DEF JobDone, NoCall, Progress, JobOnly
<1>14. CASE DirectOpen
  BY <1>14, ActStep DEF Call, DirectOpen, Effect, GoesOn, Drains, LeavesStream,
    PushOnly, NetOnly, NoGate, NoSink, SameTcp
<1>15. CASE DriveAct
  BY <1>15, ActStep DEF Call, DriveAct, NetStep, Effect, GoesOn, Drains, LeavesStream,
    NetOnly, SameRequest
<1>16. CASE JobAct
  BY <1>16, ActStep DEF Call, JobAct, Effect, GoesOn, Drains, LeavesStream, JobOnly
<1>17. CASE DirectWrite
  <2>1. Straight /\ unacked' = unacked
    BY <1>17, StraightStep DEF DirectWrite, SameTcp
  <2>2. core' \in Core /\ core'.size = core.size /\ core'.used = core.used
        /\ core'.held = core.held /\ core'.final = core.final
    BY <2>1 DEF Straight
  <2>3. (Running(core') => Running(core)) /\ (~Failed(core') => ~Failed(core))
    BY <2>1 DEF Straight, GoesOn
  <2>. QED  BY <2>1, <2>2, <2>3
<1>18. CASE DriveNext
  BY <1>18, NextIs, PeekIs, StepIs DEF DriveNext, MayCall, NextCall, NetOnly,
    SameRequest
<1>19. CASE JobNext
  BY <1>19, NextIs, PeekIs, StepIs DEF JobNext, NeedsSlot, NextCall, JobOnly
<1>20. CASE DriveEnd
  BY <1>20, TakeIs DEF DriveEnd, Takeable, Empty, NetOnly, SameRequest
<1>21. CASE JobOut
  BY <1>21, TakeIs DEF JobOut, Takeable, Empty, JobOnly
<1>. QED  BY <1>1, <1>2, <1>3, <1>4, <1>5, <1>6, <1>7, <1>8, <1>9, <1>10, <1>11, <1>12,
  <1>13, <1>14, <1>15, <1>16, <1>17, <1>18, <1>19, <1>20, <1>21

\* Most steps need no more of the window.
LEMMA NeedsNoMore ==
  ASSUME IInv,
         Begin \/ Push \/ DirectPass \/ DirectOpen \/ DirectWrite \/ Copy \/ FinishAnswer \/
         PollAgain \/ PollAnswer \/ DriveStart \/ DriveNext \/ DriveAct \/ DriveDone \/
         DriveEnd \/ JobNext \/ JobSlot \/ JobAct \/ JobDone \/ JobOut \/ Stall \/ SetSupply
  PROVE  /\ Needed' \in Int /\ Needed' <= Needed
         /\ npc # "window" \/ npc' = "window"
<1>. USE DEF IInv, TypeInv, PlaceTypes, ChunkTypes, Chunk, RequestInv, Needed, Waiting,
  NetPlaces, Backs, Driving, Direct, Ringing, Pushing, NetBusy, JobBusy, Copying,
  Towards, flash, job, tcp, net, data
<1>1. CASE Begin
  BY <1>1 DEF Begin, NetIdle, Drive
<1>2. CASE Copy
  BY <1>2 DEF Copy, NetStep, PushOnly, NetOnly, NoGate, NoSink, SameTcp
<1>3. CASE FinishAnswer
  BY <1>3 DEF FinishAnswer, NetStep, Known, Respond, EventOnly, NetOnly, NoGate, NoSink
<1>4. CASE PollAgain
  BY <1>4 DEF PollAgain, Drive, EventOnly, NetOnly, NoGate, NoSink
<1>5. CASE PollAnswer
  BY <1>5 DEF PollAnswer, NetStep, Known, Respond, EventOnly, NetOnly, NoGate, NoSink
<1>6. CASE DriveStart
  BY <1>6 DEF DriveStart, NetOnly, SameRequest
<1>7. CASE Stall
  BY <1>7 DEF Stall
<1>8. CASE SetSupply
  BY <1>8 DEF SetSupply
<1>9. CASE Push
  BY <1>9, ClaimIs DEF Push, CanClaim, PushOnly, NetOnly, NoGate, NoSink, SameTcp
<1>10. CASE DirectPass
  BY <1>10, DoneIs DEF DirectPass, PushOnly, NetOnly, NoGate, NoSink, SameTcp
<1>11. CASE DriveDone
  BY <1>11, DoneIs DEF DriveDone, NetStep, NoCall, Progress, NetOnly, SameRequest
<1>12. CASE JobSlot
  BY <1>12, DoneIs DEF JobSlot, Confirm, NoCall, JobOnly
<1>13. CASE JobDone
  BY <1>13, DoneIs DEF JobDone, NoCall, Progress, JobOnly
<1>14. CASE DirectOpen
  BY <1>14, ActStep DEF DirectOpen, Effect, GoesOn, Drains, LeavesStream, PushOnly,
    NetOnly, NoGate, NoSink, SameTcp
<1>15. CASE DriveAct
  BY <1>15, ActStep DEF DriveAct, NetStep, Effect, GoesOn, Drains, LeavesStream,
    NetOnly, SameRequest
<1>16. CASE JobAct
  BY <1>16, ActStep DEF JobAct, Effect, GoesOn, Drains, LeavesStream, JobOnly
<1>17. CASE DirectWrite
  BY <1>17, StraightStep DEF DirectWrite, NetStep, Straight, GoesOn, LeavesStream,
    PushOnly, NetOnly, NoGate, NoSink, SameTcp
<1>18. CASE DriveNext
  BY <1>18, NextIs, PeekIs, StepIs DEF DriveNext, MayCall, NextCall, NetOnly,
    SameRequest
<1>19. CASE JobNext
  BY <1>19, NextIs, PeekIs, StepIs DEF JobNext, NeedsSlot, NextCall, JobOnly
<1>20. CASE DriveEnd
  BY <1>20, TakeIs DEF DriveEnd, Takeable, Empty, NetOnly, SameRequest
<1>21. CASE JobOut
  BY <1>21, TakeIs DEF JobOut, Takeable, Empty, JobOnly
<1>. QED  BY <1>1, <1>2, <1>3, <1>4, <1>5, <1>6, <1>7, <1>8, <1>9, <1>10, <1>11, <1>12,
  <1>13, <1>14, <1>15, <1>16, <1>17, <1>18, <1>19, <1>20, <1>21

\* The window is held in time.
LEMMA WindowStep ==
  ASSUME IInv, [Next]_vars
  PROVE  WindowInv'
<1>1. CASE Begin
  BY <1>1, CalmSteps, NeedsNoMore, WindowStays
<1>2. CASE Push
  BY <1>2, CalmSteps, NeedsNoMore, WindowStays
<1>3. CASE DirectPass
  BY <1>3, CalmSteps, NeedsNoMore, WindowStays
<1>4. CASE DirectOpen
  BY <1>4, CalmSteps, NeedsNoMore, WindowStays
<1>5. CASE DirectWrite
  BY <1>5, CalmSteps, NeedsNoMore, WindowStays
<1>6. CASE Copy
  BY <1>6, CalmSteps, NeedsNoMore, WindowStays
<1>7. CASE FinishAnswer
  BY <1>7, CalmSteps, NeedsNoMore, WindowStays
<1>8. CASE PollAgain
  BY <1>8, CalmSteps, NeedsNoMore, WindowStays
<1>9. CASE PollAnswer
  BY <1>9, CalmSteps, NeedsNoMore, WindowStays
<1>10. CASE DriveStart
  BY <1>10, CalmSteps, NeedsNoMore, WindowStays
<1>11. CASE DriveNext
  BY <1>11, CalmSteps, NeedsNoMore, WindowStays
<1>12. CASE DriveAct
  BY <1>12, CalmSteps, NeedsNoMore, WindowStays
<1>13. CASE DriveDone
  BY <1>13, CalmSteps, NeedsNoMore, WindowStays
<1>14. CASE DriveEnd
  BY <1>14, CalmSteps, NeedsNoMore, WindowStays
<1>15. CASE JobNext
  BY <1>15, CalmSteps, NeedsNoMore, WindowStays
<1>16. CASE JobSlot
  BY <1>16, CalmSteps, NeedsNoMore, WindowStays
<1>17. CASE JobAct
  BY <1>17, CalmSteps, NeedsNoMore, WindowStays
<1>18. CASE JobDone
  BY <1>18, CalmSteps, NeedsNoMore, WindowStays
<1>19. CASE JobOut
  BY <1>19, CalmSteps, NeedsNoMore, WindowStays
<1>20. CASE Stall
  BY <1>20, CalmSteps, NeedsNoMore, WindowStays
<1>21. CASE SetSupply
  BY <1>21, CalmSteps, NeedsNoMore, WindowStays
<1>22. CASE Segment
  BY <1>22, PumpNumbers DEF IInv, WindowInv, Needed, Spare, Waiting, NetPlaces, Backs,
    Driving, Direct, Ringing, Pushing, NetBusy, JobBusy, Copying, Towards, Accepting,
    Room, Full, SameRing, SameSink, SameUse, SameWindow, Running, Failed, Segment,
    NetIdle, NoChunk, EventOnly, NetOnly, NoGate, NoSink, flash, job, tcp, net, data
<1>23. CASE LastSegment
  <2>1. CASE npc' = "push" /\ chunk' = [NoChunk EXCEPT !.len = parsed, !.last = TRUE]
    <3>1. chunk'.len = parsed
      BY <2>1 DEF NoChunk
    <3>2. npc = "idle" /\ UNCHANGED <<core, unacked>>
      BY <1>23 DEF LastSegment, NetIdle, EventOnly, NetOnly
    <3>. QED  BY <2>1, <3>1, <3>2, PumpNumbers DEF IInv, WindowInv, Needed, Spare,
      Waiting, Room, Pushing, Direct, Ringing, Driving
  <2>2. CASE npc' = "finish" /\ UNCHANGED chunk
    <3>1. npc = "idle" /\ parsed' = 0 /\ UNCHANGED <<core, unacked>>
      BY <1>23 DEF LastSegment, NetIdle
    <3>. QED  BY <2>2, <3>1, PumpNumbers DEF IInv, WindowInv, Needed, Spare, Waiting,
      Room, Pushing, Direct, Ringing, Driving
  <2>. QED  BY <1>23, <2>1, <2>2 DEF LastSegment
<1>24. CASE Gone
  <2>1. ~Running(core') \/ Failed(core')
    BY <1>24, FailIs DEF IInv, TypeInv, CoreTypes, SinkInv, Gone, Results, OnlyFails,
      Running, Failed
  <2>. QED  BY <2>1 DEF WindowInv, Accepting
<1>25. CASE Begun
  <2>1. CASE ~CanBegin(core)
    <3>1. UNCHANGED <<core, unacked, chunk, parsed>> /\ npc = "begin" /\ npc' = "idle"
      BY <1>25, <2>1 DEF Begun, tcp
    <3>. QED  BY <3>1 DEF IInv, WindowInv, Needed, Spare, Waiting, Room, Pushing, Direct,
      Ringing
  <2>2. CASE CanBegin(core)
    <3>1. unacked' = 0
      BY <1>25, <2>2 DEF Begun
    <3>. QED  BY <1>25, <2>2, <3>1, BegunStep DEF WindowInv
  <2>. QED  BY <2>1, <2>2
<1>26. CASE DirectDone
  <2>1. /\ npc = "written" /\ npc' = "drive" /\ parsed' = parsed
        /\ unacked' = IF core.held THEN unacked + 1 ELSE unacked
    BY <1>26 DEF DirectDone, Drive, PushOnly
  <2>2. unacked < TcpWindow /\ parsed = 0
    BY <2>1 DEF IInv, RequestInv, Pushing, Direct
  <2>3. PICK c \in {core, FinalCore(core)} : core' = DoneCore(c)
    BY <1>26 DEF DirectDone
  <2>4. /\ c \in Core /\ SameRing(core, c) /\ SameSink(core, c) /\ c.held = core.held
        /\ core.final => c.final
    BY <2>3, PumpNumbers, FinalIs DEF SameRing, SameSink
  <2>5. Running(c) => c.live
    BY <2>4 DEF IInv, SinkInv, SameSink, Running
  <2>6. SameRing(c, core') /\ SameSink(c, core') /\ SameWindow(c, core')
    BY <2>3, <2>4, <2>5, DoneIs
  <2>7. /\ core'.size = core.size /\ core'.used = core.used /\ core'.held = core.held
        /\ Accepting(core') => Accepting(core)
    BY <2>4, <2>6 DEF SameRing, SameSink, SameWindow, Accepting, Running, Failed
  <2>. QED  BY <2>1, <2>2, <2>7, PumpNumbers DEF IInv, WindowInv, Needed, Spare, Waiting,
    Room, Pushing, Direct, Ringing, Driving
<1>27. CASE EnsureRing
  <2>1. npc = "ring" /\ UNCHANGED <<unacked, parsed>>
    BY <1>27 DEF EnsureRing, PushOnly, SameTcp
  <2>2. CASE UNCHANGED core /\ chunk'.len = chunk.len
             /\ (npc' = "reserve" \/ (npc' = "window" /\ chunk.len = 0))
    BY <2>1, <2>2, PumpNumbers DEF IInv, WindowInv, Needed, Spare, Waiting, Room, Pushing,
      Direct, Ringing, Driving
  <2>3. CASE core.size = 0 /\ npc' = "reserve" /\ core' = SetRing(core) /\ UNCHANGED chunk
    <3>1. core'.size = RingSize /\ core'.used = 0 /\ core'.held = core.held
          /\ (Accepting(core') => Accepting(core))
      BY <2>3, SetRingIs, PumpNumbers DEF SameSink, SameWindow, Accepting, Running, Failed
    <3>. QED  BY <2>1, <2>3, <3>1, PumpNumbers DEF IInv, WindowInv, Needed, Spare,
      Waiting, Room, Pushing, Direct, Ringing, Driving
  <2>4. CASE core' \in {FailCore(core, "NoWriter"), FailCore(core, "NoMemory")}
    <3>1. ~Accepting(core')
      BY <2>4, FailIs, PumpNumbers DEF IInv, SinkInv, OnlyFails, Results, Accepting,
        Running, Failed
    <3>. QED  BY <3>1 DEF WindowInv
  <2>. QED  BY <1>27, <2>2, <2>3, <2>4, PumpNumbers
            DEF EnsureRing, IInv, TypeInv, ChunkTypes, Chunk
<1>28. CASE Reserve
  <2>1. /\ npc = "reserve" /\ npc' = (IF Keeps(core, chunk.len) THEN "copy" ELSE "window")
        /\ core' = ReserveCore(core, chunk.len) /\ chunk'.len = chunk.len
        /\ UNCHANGED <<unacked, parsed>>
    BY <1>28 DEF Reserve, PushOnly, SameTcp, IInv, TypeInv, ChunkTypes, Chunk
  <2>2. /\ SameRing(core, core') /\ SameSink(core, core') /\ SameWindow(core, core')
    BY <2>1, ReserveIs, ChunkFits, AtReserve
  <2>3. Accepting(core) => Keeps(core, chunk.len)
    BY <2>1, ChunkFits, AtReserve DEF Keeps, IInv, RingInv, CopyInv, Accepting
  <2>4. /\ core'.size = core.size /\ core'.used = core.used /\ core'.held = core.held
        /\ Accepting(core') => Accepting(core)
    BY <2>2 DEF SameRing, SameSink, SameWindow, Accepting, Running, Failed
  <2>. QED  BY <2>1, <2>3, <2>4, PumpNumbers DEF IInv, WindowInv, Needed, Spare, Waiting,
    Room, Pushing, Direct, Ringing, Driving
<1>29. CASE Commit
  <2>1. /\ npc = "commit" /\ npc' = "window" /\ core' = CommitCore(core, chunk.len)
        /\ UNCHANGED <<unacked, parsed>>
    BY <1>29 DEF Commit, NetStep, PushOnly, SameTcp
  <2>2. /\ core'.size = core.size /\ core'.used \in {core.used, core.used + chunk.len}
        /\ SameSink(core, core') /\ SameWindow(core, core')
    BY <2>1, AtCopy, PumpNumbers, CommitIs
  <2>3. core'.held = core.held /\ (Accepting(core') => Accepting(core))
    BY <2>2 DEF SameSink, SameWindow, Accepting, Running, Failed
  <2>. QED  BY <2>1, <2>2, <2>3, PumpNumbers DEF IInv, WindowInv, Needed, Spare, Waiting,
    Room, Pushing, Direct, Ringing, Driving
<1>30. CASE PushEnd
  <2>1. PICK c \in {core, FinalCore(core)} :
          /\ core' = WindowCore(c)
          /\ unacked' = CASE HoldWindow(c) -> unacked + 1 [] Reopens(c) -> 0 [] OTHER -> unacked
    BY <1>30 DEF PushEnd
  <2>2. /\ npc = "window" /\ npc' \notin Pushing \cup {"window"} /\ parsed' = parsed
    BY <1>30 DEF PushEnd, PushOnly, Drive, AfterPush, Pushing, Direct, Ringing
  <2>3. unacked < TcpWindow /\ parsed = 0
    BY <2>2 DEF IInv, RequestInv, Pushing
  <2>4. /\ c \in Core /\ c.size = core.size /\ c.used = core.used /\ c.held = core.held
        /\ Accepting(c) => Accepting(core)
    BY <2>1, PumpNumbers, FinalIs DEF SameRing, SameSink, Accepting, Running, Failed
  <2>5. /\ core'.size = core.size /\ core'.used = core.used /\ (core'.held <=> Full(c))
        /\ Accepting(core') => Accepting(c)
    BY <2>1, <2>4, WindowIs DEF SameRing, SameSink, Accepting, Running, Failed
  <2>6. unacked' = IF Full(c) THEN unacked + 1 ELSE IF core.held THEN 0 ELSE unacked
    BY <2>1, <2>4 DEF HoldWindow, Reopens
  <2>. QED  BY <2>2, <2>3, <2>4, <2>5, <2>6, PumpNumbers DEF IInv, Full, WindowInv,
    Needed, Spare, Waiting, Room, Pushing, Direct, Ringing, Driving
<1>31. CASE Finish
  <2>1. ~Accepting(core')
    BY <1>31, FailIs DEF IInv, TypeInv, CoreTypes, SinkInv, Finish, Results, OnlyFails,
      Running, Failed, Accepting
  <2>. QED  BY <2>1 DEF WindowInv
<1>32. CASE Poll
  <2>1. PICK c \in {core, FailCore(core, "Stalled")} :
          /\ core' = WindowCore(c) /\ unacked' = IF Reopens(c) THEN 0 ELSE unacked
    BY <1>32 DEF Poll
  <2>2. npc = "idle" /\ npc' \in {"drive", "answer"} /\ parsed' = parsed
    BY <1>32 DEF Poll, NetIdle, Drive
  <2>3. /\ c \in Core /\ c.size = core.size /\ c.used = core.used /\ c.held = core.held
        /\ Accepting(c) => Accepting(core)
    BY <2>1, PumpNumbers, FailIs
    DEF IInv, SinkInv, Results, OnlyFails, SameRing, SameWindow, Accepting, Running, Failed
  <2>4. /\ core'.size = core.size /\ core'.used = core.used /\ (core'.held <=> Full(c))
        /\ Accepting(core') => Accepting(c)
    BY <2>1, <2>3, WindowIs DEF SameRing, SameSink, Accepting, Running, Failed
  <2>5. unacked' = IF core.held /\ ~Full(c) THEN 0 ELSE unacked
    BY <2>1, <2>3 DEF Reopens
  <2>. QED  BY <2>2, <2>3, <2>4, <2>5, PumpNumbers DEF IInv, Full, WindowInv, Needed,
    Spare, Waiting, Room, Pushing, Direct, Ringing, Driving
<1>33. CASE UNCHANGED vars
  BY <1>33, PumpNumbers DEF IInv, WindowInv, Needed, Spare, Waiting, NetPlaces, Backs,
    Driving, Direct, Ringing, Pushing, NetBusy, JobBusy, Copying, Towards, Accepting,
    Room, Full, SameRing, SameSink, SameUse, SameWindow, Running, Failed, vars, flash,
    job, tcp, net, data
<1>. QED  BY <1>1, <1>2, <1>3, <1>4, <1>5, <1>6, <1>7, <1>8, <1>9, <1>10, <1>11, <1>12,
  <1>13, <1>14, <1>15, <1>16, <1>17, <1>18, <1>19, <1>20, <1>21, <1>22, <1>23, <1>24,
  <1>25, <1>26, <1>27, <1>28, <1>29, <1>30, <1>31, <1>32, <1>33 DEF Next, Client,
  Handler, DirectPush, RingPush, DriveFree, Run

\* No upload fails for want of room in the ring.
LEMMA OverflowStep ==
  ASSUME IInv, [Next]_vars
  PROVE  NoOverflow'
<1>. USE DEF IInv, TypeInv, CoreTypes, SinkInv, NoOverflow, Results, Running, SameSink,
  OnlyFails, flash, job, tcp, net, data
<1>1. CASE Begin
  BY <1>1 DEF Begin, NetIdle, Drive
<1>2. CASE Segment
  BY <1>2 DEF Segment, NetIdle, NoChunk, EventOnly, NetOnly, NoGate, NoSink
<1>3. CASE LastSegment
  BY <1>3 DEF LastSegment, NetIdle, NoChunk, EventOnly, NetOnly, NoGate, NoSink
<1>4. CASE Copy
  BY <1>4 DEF Copy, NetStep, PushOnly, NetOnly, NoGate, NoSink, SameTcp
<1>5. CASE FinishAnswer
  BY <1>5 DEF FinishAnswer, NetStep, Known, Respond, EventOnly, NetOnly, NoGate, NoSink
<1>6. CASE PollAgain
  BY <1>6 DEF PollAgain, Drive, EventOnly, NetOnly, NoGate, NoSink
<1>7. CASE PollAnswer
  BY <1>7 DEF PollAnswer, NetStep, Known, Respond, EventOnly, NetOnly, NoGate, NoSink
<1>8. CASE DriveStart
  BY <1>8 DEF DriveStart, NetOnly, SameRequest
<1>9. CASE Stall
  BY <1>9 DEF Stall
<1>10. CASE SetSupply
  BY <1>10 DEF SetSupply
<1>11. CASE Gone
  BY <1>11, FailIs DEF Gone, NetIdle, Drive, EventOnly, NetOnly, NoGate, NoSink
<1>12. CASE Finish
  BY <1>12, FailIs DEF Finish, Drive, EventOnly, NetOnly, NoGate, NoSink
<1>13. CASE Begun
  <2>1. CASE ~CanBegin(core)
    BY <1>13, <2>1 DEF Begun
  <2>2. CASE CanBegin(core)
    BY <1>13, <2>2, BegunStep DEF Begun
  <2>. QED  BY <2>1, <2>2
<1>14. CASE Push
  BY <1>14, ClaimIs DEF Push, CanClaim, PushOnly, NetOnly, NoGate, NoSink, SameTcp
<1>15. CASE DirectPass
  BY <1>15, DoneIs DEF DirectPass, PushOnly, NetOnly, NoGate, NoSink, SameTcp
<1>16. CASE DriveDone
  BY <1>16, DoneIs DEF DriveDone, NetStep, NoCall, Progress, NetOnly, SameRequest
<1>17. CASE JobSlot
  BY <1>17, DoneIs DEF JobSlot, Confirm, NoCall, JobOnly
<1>18. CASE JobDone
  BY <1>18, DoneIs DEF JobDone, NoCall, Progress, JobOnly
<1>19. CASE DirectOpen
  BY <1>19, ActStep DEF Effect, GoesOn
<1>20. CASE DriveAct
  BY <1>20, ActStep DEF Effect, GoesOn
<1>21. CASE JobAct
  BY <1>21, ActStep DEF Effect, GoesOn
<1>22. CASE DirectWrite
  BY <1>22, StraightStep DEF Straight, GoesOn, SameSink
<1>23. CASE DirectDone
  BY <1>23, DoneIs, FinalIs DEF DirectDone, Drive, AfterPush, NoChunk, Progress,
    PushOnly, NetOnly, NoGate, NoSink, SameTcp
<1>24. CASE EnsureRing
  BY <1>24, FailIs, SetRingIs DEF EnsureRing, PushOnly, NetOnly, NoGate, NoSink, SameTcp
<1>25. CASE Reserve
  BY <1>25, ReserveIs, ChunkFits, AtReserve DEF Reserve, PushOnly, NetOnly, NoGate,
    NoSink, SameTcp
<1>26. CASE Commit
  BY <1>26, CommitIs, AtCopy DEF Commit, NetStep
<1>27. CASE PushEnd
  BY <1>27, FinalIs, WindowIs DEF PushEnd, HoldWindow, Reopens, Drive, AfterPush,
    NoChunk, PushOnly, NetOnly, NoGate, NoSink, SameTcp
<1>28. CASE DriveNext
  BY <1>28, NextIs, PeekIs, StepIs DEF DriveNext, MayCall, NextCall, NetOnly,
    SameRequest
<1>29. CASE JobNext
  BY <1>29, NextIs, PeekIs, StepIs DEF JobNext, NeedsSlot, NextCall, JobOnly
<1>30. CASE DriveEnd
  BY <1>30, TakeIs DEF DriveEnd, Takeable, Empty, NetOnly, SameRequest
<1>31. CASE JobOut
  BY <1>31, TakeIs DEF JobOut, Takeable, Empty, JobOnly
<1>32. CASE Poll
  BY <1>32, FailIs, WindowIs DEF Poll, NetIdle, Reopens, Drive, EventOnly, NetOnly,
    NoGate, NoSink
<1>33. CASE UNCHANGED vars
  BY <1>33 DEF vars
<1>. QED  BY <1>1, <1>2, <1>3, <1>4, <1>5, <1>6, <1>7, <1>8, <1>9, <1>10, <1>11, <1>12,
  <1>13, <1>14, <1>15, <1>16, <1>17, <1>18, <1>19, <1>20, <1>21, <1>22, <1>23, <1>24,
  <1>25, <1>26, <1>27, <1>28, <1>29, <1>30, <1>31, <1>32, <1>33 DEF Next, Client,
  Handler, DirectPush, RingPush, DriveFree, Run

\* A cell's place counted from the writer's.
LEMMA PlaceIs ==
  ASSUME IInv
  PROVE  /\ RingSize \in Nat \ {0} /\ core.rd \in 0..(RingSize - 1)
         /\ core.used \in Nat /\ core.used <= RingSize /\ core.written \in Nat
         /\ \A i \in Cells : /\ i \in 0..(RingSize - 1)
                             /\ Place(i) = IF i >= core.rd THEN i - core.rd ELSE i - core.rd + RingSize
                             /\ Place(i) \in 0..(RingSize - 1)
<1>1. /\ RingSize \in Nat \ {0} /\ core.rd \in 0..(RingSize - 1)
      /\ core.used \in Nat /\ core.used <= RingSize /\ core.written \in Nat
  BY CoreAssumption DEF IInv, TypeInv, CoreTypes, RingFits, Core
<1>2. ASSUME NEW i \in Cells
      PROVE  /\ i \in 0..(RingSize - 1)
             /\ Place(i) = IF i >= core.rd THEN i - core.rd ELSE i - core.rd + RingSize
             /\ Place(i) \in 0..(RingSize - 1)
  <2>1. i \in 0..(RingSize - 1)
    BY <1>2 DEF Cells
  <2>2. Place(i) = IF i >= core.rd THEN i - core.rd ELSE i - core.rd + RingSize
    BY <1>1, <2>1, RingSub DEF Place
  <2>. QED  BY <1>1, <2>1, <2>2
<1>. QED  BY <1>1, <1>2

\* A write from the ring is the stream's next units.
LEMMA StreamIs ==
  ASSUME IInv, NEW call \in Call, Fits(call), call.act = "Write"
  PROVE  Stream(call.at, call.len) = [i \in 1..call.len |-> core.written + i]
<1>1. call.at = core.rd /\ call.len \in 1..core.used /\ core.size # 0
  BY DEF Fits
<1>2. ASSUME NEW i \in 1..call.len
      PROVE  ring[(call.at + i - 1) % RingSize] = core.written + i
  <2>. DEFINE cell == (core.rd + (i - 1)) % RingSize
  <2>1. i - 1 \in 0..RingSize /\ i - 1 < core.used /\ i \in Nat /\ core.rd + (i - 1) = call.at + i - 1
    BY <1>1, PlaceIs
  <2>2. cell = IF core.rd + (i - 1) < RingSize THEN core.rd + (i - 1)
               ELSE core.rd + (i - 1) - RingSize
    BY <2>1, PlaceIs, RingAdd
  <2>3. cell \in Cells
    BY <2>1, <2>2, PlaceIs DEF Cells
  <2>. HIDE DEF cell
  <2>4. Place(cell) = i - 1
    <3>1. /\ Place(cell) = IF cell >= core.rd THEN cell - core.rd ELSE cell - core.rd + RingSize
          /\ RingSize \in Nat /\ core.rd \in 0..(RingSize - 1)
          /\ core.used \in Nat /\ core.used <= RingSize
      BY <2>3, PlaceIs
    <3>. QED  BY <2>1, <2>2, <3>1
  <2>5. ring[cell] = core.written + (i - 1) + 1
    BY <1>1, <2>1, <2>3, <2>4 DEF IInv, RingInv, CellsInv, CellInv
  <2>. QED  BY <2>1, <2>5, PlaceIs DEF cell
<1>. QED  BY <1>2 DEF Stream

\* The sink was given the stream.
LEMMA ImageStep ==
  ASSUME IInv, [Next]_vars
  PROVE  ImageInv'
<1>1. CASE Begin
  BY <1>1 DEF IInv, TypeInv, CoreTypes, SinkInv, ImageInv, SameRing, OnlyFails, Results,
    Running, Begin, NetIdle, Drive, flash, job, tcp, net, data
<1>2. CASE Segment
  BY <1>2 DEF IInv, TypeInv, CoreTypes, SinkInv, ImageInv, SameRing, OnlyFails, Results,
    Running, Segment, NetIdle, NoChunk, EventOnly, NetOnly, NoGate, NoSink, flash, job,
    tcp, net, data
<1>3. CASE LastSegment
  BY <1>3 DEF IInv, TypeInv, CoreTypes, SinkInv, ImageInv, SameRing, OnlyFails, Results,
    Running, LastSegment, NetIdle, NoChunk, EventOnly, NetOnly, NoGate, NoSink, flash,
    job, tcp, net, data
<1>4. CASE Copy
  BY <1>4 DEF IInv, TypeInv, CoreTypes, SinkInv, ImageInv, SameRing, OnlyFails, Results,
    Running, Copy, NetStep, PushOnly, NetOnly, NoGate, NoSink, SameTcp, flash, job, tcp,
    net, data
<1>5. CASE FinishAnswer
  BY <1>5 DEF IInv, TypeInv, CoreTypes, SinkInv, ImageInv, SameRing, OnlyFails, Results,
    Running, FinishAnswer, NetStep, Known, Respond, EventOnly, NetOnly, NoGate, NoSink,
    flash, job, tcp, net, data
<1>6. CASE PollAgain
  BY <1>6 DEF IInv, TypeInv, CoreTypes, SinkInv, ImageInv, SameRing, OnlyFails, Results,
    Running, PollAgain, Drive, EventOnly, NetOnly, NoGate, NoSink, flash, job, tcp, net,
    data
<1>7. CASE PollAnswer
  BY <1>7 DEF IInv, TypeInv, CoreTypes, SinkInv, ImageInv, SameRing, OnlyFails, Results,
    Running, PollAnswer, NetStep, Known, Respond, EventOnly, NetOnly, NoGate, NoSink,
    flash, job, tcp, net, data
<1>8. CASE DriveStart
  BY <1>8 DEF IInv, TypeInv, CoreTypes, SinkInv, ImageInv, SameRing, OnlyFails, Results,
    Running, DriveStart, NetOnly, SameRequest, flash, job, tcp, net, data
<1>9. CASE Stall
  BY <1>9 DEF IInv, TypeInv, CoreTypes, SinkInv, ImageInv, SameRing, OnlyFails, Results,
    Running, Stall, flash, job, tcp, net, data
<1>10. CASE SetSupply
  BY <1>10 DEF IInv, TypeInv, CoreTypes, SinkInv, ImageInv, SameRing, OnlyFails,
    Results, Running, SetSupply, flash, job, tcp, net, data
<1>11. CASE Gone
  BY <1>11, FailIs DEF IInv, TypeInv, CoreTypes, SinkInv, ImageInv, SameRing, OnlyFails,
    Results, Running, Gone, NetIdle, Drive, EventOnly, NetOnly, NoGate, NoSink, flash,
    job, tcp, net, data
<1>12. CASE Finish
  BY <1>12, FailIs DEF IInv, TypeInv, CoreTypes, SinkInv, ImageInv, SameRing, OnlyFails,
    Results, Running, Finish, Drive, EventOnly, NetOnly, NoGate, NoSink, flash, job,
    tcp, net, data
<1>13. CASE Begun
  <2>1. CASE ~CanBegin(core)
    BY <1>13, <2>1 DEF Begun, IInv, ImageInv
  <2>2. CASE CanBegin(core)
    <3>1. image' = <<>> /\ core'.written = 0
      BY <1>13, <2>2, BegunStep DEF Begun
    <3>. QED  BY <3>1 DEF ImageInv
  <2>. QED  BY <2>1, <2>2
<1>14. CASE Push
  BY <1>14, ClaimIs DEF IInv, TypeInv, CoreTypes, SinkInv, ImageInv, SameRing,
    OnlyFails, Results, Running, Push, CanClaim, PushOnly, NetOnly, NoGate, NoSink,
    SameTcp, flash, job, tcp, net, data
<1>15. CASE DirectPass
  BY <1>15, DoneIs DEF IInv, TypeInv, CoreTypes, SinkInv, ImageInv, SameRing, OnlyFails,
    Results, Running, DirectPass, PushOnly, NetOnly, NoGate, NoSink, SameTcp, flash,
    job, tcp, net, data
<1>16. CASE DriveDone
  BY <1>16, DoneIs DEF IInv, TypeInv, CoreTypes, SinkInv, ImageInv, SameRing, OnlyFails,
    Results, Running, DriveDone, NetStep, NoCall, Progress, NetOnly, SameRequest, flash,
    job, tcp, net, data
<1>17. CASE JobSlot
  BY <1>17, DoneIs DEF IInv, TypeInv, CoreTypes, SinkInv, ImageInv, SameRing, OnlyFails,
    Results, Running, JobSlot, Confirm, NoCall, JobOnly, flash, job, tcp, net, data
<1>18. CASE JobDone
  BY <1>18, DoneIs DEF IInv, TypeInv, CoreTypes, SinkInv, ImageInv, SameRing, OnlyFails,
    Results, Running, JobDone, NoCall, Progress, JobOnly, flash, job, tcp, net, data
<1>19. CASE DirectOpen
  <2>1. PICK call \in Call : Effect(call)
    BY <1>19, ActStep
  <2>2. CASE Drains(call)
    <3>1. Fits(call) /\ call.act = "Write" /\ call.len \in Nat /\ core.written \in Nat
      BY <2>1, <2>2, PlaceIs DEF Effect, Drains, Call
    <3>2. Stream(call.at, call.len) = [i \in 1..call.len |-> core.written + i]
      BY <3>1, StreamIs
    <3>. QED  BY <2>2, <3>1, <3>2, StreamGoesOn DEF IInv, ImageInv, Drains
  <2>3. CASE LeavesStream
    BY <2>3 DEF IInv, ImageInv, LeavesStream, SameRing
  <2>. QED  BY <2>1, <2>2, <2>3 DEF Effect
<1>20. CASE DriveAct
  <2>1. PICK call \in Call : Effect(call)
    BY <1>20, ActStep
  <2>2. CASE Drains(call)
    <3>1. Fits(call) /\ call.act = "Write" /\ call.len \in Nat /\ core.written \in Nat
      BY <2>1, <2>2, PlaceIs DEF Effect, Drains, Call
    <3>2. Stream(call.at, call.len) = [i \in 1..call.len |-> core.written + i]
      BY <3>1, StreamIs
    <3>. QED  BY <2>2, <3>1, <3>2, StreamGoesOn DEF IInv, ImageInv, Drains
  <2>3. CASE LeavesStream
    BY <2>3 DEF IInv, ImageInv, LeavesStream, SameRing
  <2>. QED  BY <2>1, <2>2, <2>3 DEF Effect
<1>21. CASE JobAct
  <2>1. PICK call \in Call : Effect(call)
    BY <1>21, ActStep
  <2>2. CASE Drains(call)
    <3>1. Fits(call) /\ call.act = "Write" /\ call.len \in Nat /\ core.written \in Nat
      BY <2>1, <2>2, PlaceIs DEF Effect, Drains, Call
    <3>2. Stream(call.at, call.len) = [i \in 1..call.len |-> core.written + i]
      BY <3>1, StreamIs
    <3>. QED  BY <2>2, <3>1, <3>2, StreamGoesOn DEF IInv, ImageInv, Drains
  <2>3. CASE LeavesStream
    BY <2>3 DEF IInv, ImageInv, LeavesStream, SameRing
  <2>. QED  BY <2>1, <2>2, <2>3 DEF Effect
<1>22. CASE DirectWrite
  <2>1. Straight
    BY <1>22, StraightStep
  <2>2. CASE /\ core'.written = core.written + chunk.len
             /\ image' = image \o [k \in 1..chunk.len |-> sent - chunk.len + k]
    <3>1. npc = "write" /\ Running(core) /\ ~Failed(core) /\ core.used = 0 /\ parsed = 0
      BY <1>22 DEF DirectWrite, NetStep, IInv, CallInv, RequestInv, Pushing, Direct
    <3>2. core.written + core.used + Waiting + parsed = sent /\ Waiting = chunk.len
      BY <3>1 DEF IInv, SentInv, Waiting, Towards, Driving
    <3>3. sent - chunk.len = core.written /\ chunk.len \in Nat /\ core.written \in Nat
      BY <3>1, <3>2, PlaceIs, PumpNumbers
    <3>4. [k \in 1..chunk.len |-> sent - chunk.len + k] = [k \in 1..chunk.len |-> core.written + k]
      BY <3>3
    <3>. QED  BY <2>2, <3>3, <3>4, StreamGoesOn DEF IInv, ImageInv
  <2>3. CASE LeavesStream \/ UNCHANGED <<core, image>>
    BY <2>3 DEF IInv, ImageInv, LeavesStream, SameRing
  <2>. QED  BY <2>1, <2>2, <2>3 DEF Straight
<1>23. CASE DirectDone
  <2>1. PICK c \in {core, FinalCore(core)} : core' = DoneCore(c) /\ UNCHANGED image
    BY <1>23 DEF DirectDone, NoSink
  <2>2. c \in Core /\ c.written = core.written /\ SameSink(core, c)
    BY <2>1, PumpNumbers, FinalIs DEF SameRing, SameSink
  <2>3. Running(c) => c.live
    BY <2>2 DEF IInv, SinkInv, SameSink, Running
  <2>4. core'.written = core.written
    BY <2>1, <2>2, <2>3, DoneIs DEF SameRing
  <2>. QED  BY <2>1, <2>4 DEF IInv, ImageInv
<1>24. CASE EnsureRing
  BY <1>24, FailIs, SetRingIs DEF IInv, TypeInv, CoreTypes, SinkInv, ImageInv, SameRing,
    OnlyFails, Results, Running, EnsureRing, PushOnly, NetOnly, NoGate, NoSink, SameTcp,
    flash, job, tcp, net, data
<1>25. CASE Reserve
  BY <1>25, ReserveIs, ChunkFits, AtReserve DEF IInv, TypeInv, CoreTypes, SinkInv,
    ImageInv, SameRing, OnlyFails, Results, Running, Reserve, PushOnly, NetOnly, NoGate,
    NoSink, SameTcp, flash, job, tcp, net, data
<1>26. CASE Commit
  <2>1. core' = CommitCore(core, chunk.len) /\ npc = "commit" /\ UNCHANGED image
    BY <1>26 DEF Commit, NetStep, NoSink
  <2>2. core'.written = core.written
    BY <2>1, PumpNumbers, AtCopy, CommitIs
  <2>. QED  BY <2>1, <2>2 DEF IInv, ImageInv
<1>27. CASE PushEnd
  BY <1>27, FinalIs, WindowIs DEF IInv, TypeInv, CoreTypes, SinkInv, ImageInv, SameRing,
    OnlyFails, Results, Running, PushEnd, HoldWindow, Reopens, Drive, AfterPush,
    NoChunk, PushOnly, NetOnly, NoGate, NoSink, SameTcp, flash, job, tcp, net, data
<1>28. CASE DriveNext
  BY <1>28, NextIs, PeekIs, StepIs DEF IInv, TypeInv, CoreTypes, SinkInv, ImageInv,
    SameRing, OnlyFails, Results, Running, DriveNext, MayCall, NextCall, NetOnly,
    SameRequest, flash, job, tcp, net, data
<1>29. CASE JobNext
  BY <1>29, NextIs, PeekIs, StepIs DEF IInv, TypeInv, CoreTypes, SinkInv, ImageInv,
    SameRing, OnlyFails, Results, Running, JobNext, NeedsSlot, NextCall, JobOnly, flash,
    job, tcp, net, data
<1>30. CASE DriveEnd
  BY <1>30, TakeIs DEF IInv, TypeInv, CoreTypes, SinkInv, ImageInv, SameRing, OnlyFails,
    Results, Running, DriveEnd, Takeable, Empty, NetOnly, SameRequest, flash, job, tcp,
    net, data
<1>31. CASE JobOut
  BY <1>31, TakeIs DEF IInv, TypeInv, CoreTypes, SinkInv, ImageInv, SameRing, OnlyFails,
    Results, Running, JobOut, Takeable, Empty, JobOnly, flash, job, tcp, net, data
<1>32. CASE Poll
  BY <1>32, FailIs, WindowIs DEF IInv, TypeInv, CoreTypes, SinkInv, ImageInv, SameRing,
    OnlyFails, Results, Running, Poll, NetIdle, Reopens, Drive, EventOnly, NetOnly,
    NoGate, NoSink, flash, job, tcp, net, data
<1>33. CASE UNCHANGED vars
  BY <1>33 DEF IInv, TypeInv, CoreTypes, SinkInv, ImageInv, SameRing, OnlyFails,
    Results, Running, vars, flash, job, tcp, net, data
<1>. QED  BY <1>1, <1>2, <1>3, <1>4, <1>5, <1>6, <1>7, <1>8, <1>9, <1>10, <1>11, <1>12,
  <1>13, <1>14, <1>15, <1>16, <1>17, <1>18, <1>19, <1>20, <1>21, <1>22, <1>23, <1>24,
  <1>25, <1>26, <1>27, <1>28, <1>29, <1>30, <1>31, <1>32, <1>33 DEF Next, Client,
  Handler, DirectPush, RingPush, DriveFree, Run

\* The ring stays as it is counted while it and the writer's place are left alone.
LEMMA CellsStay ==
  ASSUME IInv, ring' = ring, core'.size = core.size, core'.rd = core.rd, core'.used = core.used,
         core'.written = core.written \/ core.used = 0,
         npc = "commit" <=> npc' = "commit",
         npc = "commit" => UNCHANGED <<chunk, sent>>,
         Running(core') \/ Copying' => Running(core) \/ Copying
  PROVE  CellsInv'
<1>. SUFFICES ASSUME NEW i \in Cells PROVE CellInv(i)'
  BY DEF CellsInv, Cells
<1>1. CellInv(i) /\ Place(i)' = Place(i)
  BY DEF IInv, RingInv, CellsInv, Place
<1>2. Place(i) \in Nat /\ core.used \in Nat /\ (core.used = 0 => ~(Place(i) < core.used))
  BY PlaceIs
<1>. QED  BY <1>1, <1>2 DEF CellInv

\* A step takes the first cells: they hold nothing, the others move up.
LEMMA CellsDrain ==
  ASSUME IInv, NEW call \in Call, Effect(call), Drains(call),
         npc = "commit" <=> npc' = "commit", UNCHANGED <<chunk, sent>>
  PROVE  CellsInv'
<1>. DEFINE n == call.len
<1>1. call.at = core.rd /\ n \in 1..core.used /\ core.size # 0 /\ Running(core)
  BY DEF Effect, Fits, Drains
<1>2. /\ core'.rd = IF core.rd + n < RingSize THEN core.rd + n ELSE core.rd + n - RingSize
      /\ core'.used = core.used - n /\ core'.written = core.written + n /\ core'.size = core.size
  BY DEF Effect, GoesOn, Drains
<1>3. n \in Nat /\ chunk.len \in Nat /\ (npc = "commit" => core.used + chunk.len <= RingSize)
  BY <1>1, PlaceIs, PumpNumbers DEF IInv, RingInv, CopyInv, Copying
<1>. HIDE DEF n
<1>. SUFFICES ASSUME NEW i \in Cells PROVE CellInv(i)'
  BY DEF CellsInv, Cells
<1>4. CellInv(i) /\ core.size # 0 /\ ring' = Drained(core.rd, n)
  BY <1>1 DEF IInv, RingInv, CellsInv, Drains, n
<1>5. /\ i \in 0..(RingSize - 1) /\ Place(i) \in 0..(RingSize - 1)
      /\ Place(i) = IF i >= core.rd THEN i - core.rd ELSE i - core.rd + RingSize
  BY PlaceIs
<1>6. /\ core'.rd \in 0..(RingSize - 1)
      /\ Place(i)' = IF i >= core'.rd THEN i - core'.rd ELSE i - core'.rd + RingSize
  <2>1. core'.rd \in 0..(RingSize - 1)
    BY <1>1, <1>2, <1>3, PlaceIs
  <2>. QED  BY <1>5, <2>1, PlaceIs, RingSub DEF Place
<1>7. ring'[i] = IF Place(i) < n THEN 0 ELSE ring[i]
  BY <1>4 DEF Drained, Place
<1>8. CASE Place(i) < n
  <2>1. Place(i)' = Place(i) - n + RingSize
    BY <1>1, <1>2, <1>3, <1>5, <1>6, <1>8, PlaceIs
  <2>2. ~(Place(i)' < core'.used) /\ (npc = "commit" => ~(Place(i)' < core'.used + chunk.len))
    BY <1>1, <1>2, <1>3, <1>5, <2>1, PlaceIs
  <2>. QED  BY <1>7, <1>8, <2>2 DEF CellInv
<1>9. CASE ~(Place(i) < n)
  <2>1. Place(i)' = Place(i) - n
    BY <1>1, <1>2, <1>3, <1>5, <1>6, <1>9, PlaceIs
  <2>2. /\ Place(i)' < core'.used <=> Place(i) < core.used
        /\ Place(i)' < core'.used + chunk.len <=> Place(i) < core.used + chunk.len
        /\ core'.written + Place(i)' + 1 = core.written + Place(i) + 1
        /\ sent - chunk.len + Place(i)' - core'.used + 1 = sent - chunk.len + Place(i) - core.used + 1
    <3>1. sent \in Nat
      BY DEF IInv, RequestInv
    <3>. QED  BY <1>1, <1>2, <1>3, <1>5, <2>1, <3>1, PlaceIs
  <2>3. ring'[i] = ring[i] /\ core'.size # 0
    BY <1>2, <1>4, <1>7, <1>9
  <2>. QED  BY <1>1, <1>4, <2>2, <2>3 DEF CellInv
<1>. QED  BY <1>8, <1>9

\* The copy goes into the cells after the last that is used.
LEMMA CellsCopied ==
  ASSUME IInv, Copy
  PROVE  CellsInv'
<1>1. /\ npc = "copy" /\ npc' = "commit" /\ UNCHANGED <<core, chunk, sent>>
      /\ ring' = [i \in Cells |-> LET k == (i - chunk.at) % RingSize
                                 IN IF k < chunk.len THEN sent - chunk.len + k + 1 ELSE ring[i]]
  BY DEF Copy, NetStep, PushOnly
<1>2. /\ RingSize \in Nat \ {0} /\ core.rd \in 0..(RingSize - 1) /\ core.used \in Nat
      /\ chunk.len \in Nat \ {0} /\ core.used + chunk.len <= RingSize /\ core.size # 0
      /\ chunk.at = (core.rd + core.used) % RingSize /\ sent \in Nat
  BY <1>1, AtCopy DEF IInv, RequestInv
<1>3. chunk.at = IF core.rd + core.used < RingSize THEN core.rd + core.used
                 ELSE core.rd + core.used - RingSize
  <2>1. core.used \in 0..RingSize
    BY <1>2
  <2>. QED  BY <1>2, <2>1, RingAdd
<1>. SUFFICES ASSUME NEW i \in Cells PROVE CellInv(i)'
  BY DEF CellsInv, Cells
<1>4. CellInv(i) /\ Place(i)' = Place(i)
  BY <1>1 DEF IInv, RingInv, CellsInv, Place
<1>5. /\ i \in 0..(RingSize - 1) /\ Place(i) \in 0..(RingSize - 1)
      /\ Place(i) = IF i >= core.rd THEN i - core.rd ELSE i - core.rd + RingSize
  BY PlaceIs
<1>. DEFINE k == (i - chunk.at) % RingSize
<1>6. k = IF i >= chunk.at THEN i - chunk.at ELSE i - chunk.at + RingSize
  <2>1. chunk.at \in 0..(RingSize - 1)
    BY <1>2, <1>3
  <2>. QED  BY <1>2, <1>5, <2>1, RingSub
<1>7. ring'[i] = IF k < chunk.len THEN sent - chunk.len + k + 1 ELSE ring[i]
  BY <1>1
<1>. HIDE DEF k
<1>8. CASE Place(i) < core.used
  <2>1. ~(k < chunk.len)
    BY <1>2, <1>3, <1>5, <1>6, <1>8
  <2>. QED  BY <1>1, <1>2, <1>4, <1>7, <1>8, <2>1 DEF CellInv
<1>9. CASE ~(Place(i) < core.used)
  <2>1. k = Place(i) - core.used
    <3>1. core.used <= Place(i) /\ core.used \in 0..(RingSize - 1) /\ Place(i) \in 0..(RingSize - 1)
      BY <1>2, <1>5, <1>9
    <3>2. CASE core.rd + core.used < RingSize
      BY <1>2, <1>3, <1>5, <1>6, <3>1, <3>2
    <3>3. CASE ~(core.rd + core.used < RingSize)
      BY <1>2, <1>3, <1>5, <1>6, <3>1, <3>3
    <3>. QED  BY <3>2, <3>3
  <2>2. /\ k < chunk.len <=> Place(i) < core.used + chunk.len
        /\ sent - chunk.len + k + 1 = sent - chunk.len + Place(i) - core.used + 1
    BY <1>2, <1>5, <2>1
  <2>. QED  BY <1>1, <1>4, <1>7, <1>9, <2>2 DEF CellInv, Copying
<1>. QED  BY <1>8, <1>9

\* What was copied is the stream, where the session goes on.
LEMMA CellsCommitted ==
  ASSUME IInv, Commit
  PROVE  CellsInv'
<1>1. /\ npc = "commit" /\ npc' = "window" /\ core' = CommitCore(core, chunk.len)
      /\ UNCHANGED <<ring, chunk, sent>>
  BY DEF Commit, NetStep, PushOnly
<1>2. /\ core.size = RingSize /\ core.size # 0 /\ core.copying /\ chunk.len \in Nat
      /\ core.used + chunk.len <= RingSize
  BY <1>1, AtCopy
<1>3. /\ core'.size = core.size /\ core'.rd = core.rd /\ core'.written = core.written
      /\ core'.used = IF Running(core) THEN core.used + chunk.len ELSE core.used
      /\ Running(core') <=> Running(core)
  BY <1>1, <1>2, PumpNumbers, CommitIs DEF SameSink, Running
<1>4. Running(core) => sent - chunk.len - core.used = core.written
  <2>1. Running(core) => core.written + core.used + Waiting + parsed = sent
    BY <1>1 DEF IInv, SentInv, Copying
  <2>2. Waiting = chunk.len /\ parsed = 0
    BY <1>1 DEF Waiting, Ringing, Pushing, IInv, RequestInv
  <2>. QED  BY <1>2, <2>1, <2>2, PlaceIs
<1>. SUFFICES ASSUME NEW i \in Cells PROVE CellInv(i)'
  BY DEF CellsInv, Cells
<1>5. CellInv(i) /\ Place(i)' = Place(i)
  BY <1>3 DEF IInv, RingInv, CellsInv, Place
<1>6. Place(i) \in Nat /\ core.used \in Nat /\ sent \in Nat /\ core.written \in Nat
  BY PlaceIs DEF IInv, RequestInv
<1>7. CASE Running(core)
  BY <1>1, <1>2, <1>3, <1>4, <1>5, <1>6, <1>7 DEF CellInv
<1>8. CASE ~Running(core)
  BY <1>1, <1>2, <1>3, <1>5, <1>6, <1>8 DEF CellInv, Copying
<1>. QED  BY <1>7, <1>8

\* A ring that is taken back holds nothing.
LEMMA CellsTaken ==
  ASSUME IInv, DriveEnd \/ JobOut
  PROVE  CellsInv'
<1>1. /\ core' = TakeRing(core) /\ ring' = Empty(core') /\ core \in Core /\ UNCHANGED <<chunk, sent>>
      /\ npc # "copy" \/ npc' = "copy"
      /\ npc = "commit" <=> npc' = "commit"
  BY PumpNumbers DEF DriveEnd, JobOut, SameRequest, JobOnly, net, tcp, IInv, TypeInv,
    PlaceTypes, Backs
<1>2. CASE Takeable(core)
  <2>1. core'.size = 0 /\ ring' = [i \in Cells |-> 0] /\ ~Copying
    BY <1>1, <1>2, TakeIs DEF Empty, Takeable, IInv, TypeInv, CoreTypes
  <2>. QED  BY <1>1, <2>1 DEF CellsInv, CellInv, Cells, Copying
<1>3. CASE ~Takeable(core)
  <2>1. core' = core
    BY <1>1, <1>3, TakeIs
  <2>2. ASSUME NEW i \in Cells PROVE ring'[i] = ring[i]
    BY <1>1, <2>1 DEF Empty, IInv, RingInv, CellsInv, CellInv, CopyInv, Copying
  <2>3. ASSUME NEW i \in Cells PROVE CellInv(i)'
    BY <1>1, <2>1, <2>2 DEF IInv, RingInv, CellsInv, CellInv, Place, Copying, DriveEnd,
      JobOut, JobOnly, net, TypeInv, PlaceTypes, Backs
  <2>. QED  BY <2>3 DEF CellsInv, Cells
<1>. QED  BY <1>2, <1>3

\* Most steps leave the ring alone.
LEMMA RingLeft ==
  ASSUME IInv,
         Begin \/ Segment \/ LastSegment \/ Gone \/ Push \/ DirectPass \/ DirectDone \/ PushEnd
         \/ Finish \/ FinishAnswer \/ PollAgain \/ PollAnswer \/ DriveStart \/ DriveNext \/
         DriveDone \/ Poll \/ JobNext \/ JobSlot \/ JobDone \/ Stall \/ SetSupply
  PROVE  /\ ring' = ring /\ SameRing(core, core') /\ (Running(core') => Running(core))
         /\ npc = "commit" <=> npc' = "commit"
         /\ npc' = "copy" => npc = "copy"
         /\ npc = "commit" => UNCHANGED <<chunk, sent>>
<1>. USE DEF IInv, TypeInv, CoreTypes, PlaceTypes, NetPlaces, Backs, SinkInv, SameRing,
  SameSink, OnlyFails, Results, Running, flash, job, tcp, net, data
<1>1. CASE Begin
  BY <1>1 DEF Begin, NetIdle, Drive
<1>2. CASE Segment
  BY <1>2 DEF Segment, NetIdle, NoChunk, EventOnly, NetOnly, NoGate, NoSink
<1>3. CASE LastSegment
  BY <1>3 DEF LastSegment, NetIdle, NoChunk, EventOnly, NetOnly, NoGate, NoSink
<1>4. CASE FinishAnswer
  BY <1>4 DEF FinishAnswer, NetStep, Known, Respond, EventOnly, NetOnly, NoGate, NoSink
<1>5. CASE PollAgain
  BY <1>5 DEF PollAgain, Drive, EventOnly, NetOnly, NoGate, NoSink
<1>6. CASE PollAnswer
  BY <1>6 DEF PollAnswer, NetStep, Known, Respond, EventOnly, NetOnly, NoGate, NoSink
<1>7. CASE DriveStart
  BY <1>7 DEF DriveStart, NetOnly, SameRequest
<1>8. CASE Stall
  BY <1>8 DEF Stall
<1>9. CASE SetSupply
  BY <1>9 DEF SetSupply
<1>10. CASE Gone
  BY <1>10, FailIs DEF Gone, NetIdle, Drive, EventOnly, NetOnly, NoGate, NoSink
<1>11. CASE Finish
  BY <1>11, FailIs DEF Finish, Drive, EventOnly, NetOnly, NoGate, NoSink
<1>12. CASE Push
  BY <1>12, ClaimIs DEF Push, CanClaim, PushOnly, NetOnly, NoGate, NoSink, SameTcp
<1>13. CASE DirectPass
  BY <1>13, DoneIs DEF DirectPass, PushOnly, NetOnly, NoGate, NoSink, SameTcp
<1>14. CASE DriveDone
  BY <1>14, DoneIs DEF DriveDone, NetStep, NoCall, Progress, NetOnly, SameRequest
<1>15. CASE JobSlot
  BY <1>15, DoneIs DEF JobSlot, Confirm, NoCall, JobOnly
<1>16. CASE JobDone
  BY <1>16, DoneIs DEF JobDone, NoCall, Progress, JobOnly
<1>17. CASE DirectDone
  BY <1>17, DoneIs, FinalIs DEF DirectDone, Drive, AfterPush, NoChunk, Progress,
    PushOnly, NetOnly, NoGate, NoSink, SameTcp
<1>18. CASE PushEnd
  BY <1>18, FinalIs, WindowIs DEF PushEnd, HoldWindow, Reopens, Drive, AfterPush,
    NoChunk, PushOnly, NetOnly, NoGate, NoSink, SameTcp
<1>19. CASE DriveNext
  BY <1>19, NextIs, PeekIs, StepIs DEF DriveNext, MayCall, NextCall, NetOnly,
    SameRequest
<1>20. CASE JobNext
  BY <1>20, NextIs, PeekIs, StepIs DEF JobNext, NeedsSlot, NextCall, JobOnly
<1>21. CASE Poll
  BY <1>21, FailIs, WindowIs DEF Poll, NetIdle, Reopens, Drive, EventOnly, NetOnly,
    NoGate, NoSink
<1>. QED  BY <1>1, <1>2, <1>3, <1>4, <1>5, <1>6, <1>7, <1>8, <1>9, <1>10, <1>11, <1>12,
  <1>13, <1>14, <1>15, <1>16, <1>17, <1>18, <1>19, <1>20, <1>21

\* The ring holds the stream, then nothing.
LEMMA CellsStep ==
  ASSUME IInv, [Next]_vars
  PROVE  CellsInv'
<1>1. CASE Begin \/ Segment \/ LastSegment \/ Gone \/ Push \/ DirectPass \/
           DirectDone \/ PushEnd \/ Finish \/ FinishAnswer \/ PollAgain \/ PollAnswer \/
           DriveStart \/ DriveNext \/ DriveDone \/ Poll \/ JobNext \/ JobSlot \/
           JobDone \/ Stall \/ SetSupply
  BY <1>1, RingLeft, CellsStay DEF SameRing, Copying
<1>2. CASE Begun
  <2>1. CASE ~CanBegin(core)
    BY <1>2, <2>1, CellsStay DEF Begun, Copying, NoGate
  <2>2. CASE CanBegin(core)
    <3>1. core'.size = 0 /\ ring' = [i \in Cells |-> 0] /\ npc' = "push"
      BY <1>2, <2>2, BegunStep DEF Begun
    <3>. QED  BY <3>1 DEF CellsInv, CellInv, Cells
  <2>. QED  BY <2>1, <2>2
<1>3. CASE DirectOpen
  <2>1. PICK call \in Call : Effect(call)
    BY <1>3, ActStep
  <2>2. npc = "open" /\ npc' \in {"write", "written"} /\ UNCHANGED ring
    BY <1>3 DEF DirectOpen, Act, NoCall
  <2>3. SameRing(core, core') /\ (Running(core') => Running(core))
    <3>1. PICK ok \in BOOLEAN : core' = OpenedCore(core, ok)
      BY <1>3 DEF DirectOpen, Act, NoCall
    <3>2. Running(core) /\ core.live
      BY <2>2 DEF IInv, CallInv, SinkInv, Running
    <3>. QED  BY <3>1, <3>2, PumpNumbers, OpenedIs DEF Running
  <2>. QED  BY <2>2, <2>3, CellsStay DEF SameRing, Copying
<1>4. CASE DirectWrite
  <2>1. Straight /\ npc = "write" /\ npc' = "written"
    BY <1>4, StraightStep DEF DirectWrite, NetStep
  <2>2. core.used = 0
    BY <2>1 DEF IInv, CallInv
  <2>. QED  BY <2>1, <2>2, CellsStay DEF Straight, GoesOn, Copying
<1>5. CASE EnsureRing
  <2>1. npc = "ring" /\ npc' \in {"reserve", "window"} /\ ring' = ring
    BY <1>5 DEF EnsureRing, PushOnly
  <2>2. CASE core' \in {core, FailCore(core, "NoWriter"), FailCore(core, "NoMemory")}
    <3>1. SameRing(core, core') /\ (Running(core') => Running(core))
      BY <2>2, FailIs, PumpNumbers DEF IInv, SinkInv, OnlyFails, SameRing, Results, Running
    <3>. QED  BY <2>1, <3>1, CellsStay DEF SameRing, Copying
  <2>3. CASE core.size = 0 /\ core' = SetRing(core)
    <3>1. core'.size = RingSize /\ core'.used = 0
      BY <2>3, SetRingIs, PumpNumbers
    <3>. SUFFICES ASSUME NEW i \in Cells PROVE CellInv(i)'
      BY DEF CellsInv, Cells
    <3>2. ring'[i] = 0
      BY <2>1, <2>3 DEF IInv, RingInv, CellsInv, CellInv
    <3>3. core'.rd = 0 /\ RingSize \in Nat \ {0} /\ i \in Int
      BY <2>3, SetRingIs, PumpNumbers, PlaceIs
    <3>4. ~(Place(i)' < core'.used)
      BY <3>1, <3>3 DEF Place
    <3>. QED  BY <2>1, <3>2, <3>4 DEF CellInv
  <2>. QED  BY <1>5, <2>2, <2>3 DEF EnsureRing
<1>6. CASE Reserve
  <2>1. /\ npc = "reserve" /\ npc' = (IF Keeps(core, chunk.len) THEN "copy" ELSE "window")
        /\ core' = ReserveCore(core, chunk.len) /\ ring' = ring
    BY <1>6 DEF Reserve, PushOnly
  <2>2. SameRing(core, core') /\ (Running(core') => Running(core))
    BY <2>1, ReserveIs, ChunkFits, AtReserve DEF SameSink, Running
  <2>3. Keeps(core, chunk.len) => Running(core)
    BY DEF Keeps, Accepting
  <2>. QED  BY <2>1, <2>2, <2>3, CellsStay DEF SameRing, Copying
<1>7. CASE Copy
  BY <1>7, CellsCopied
<1>8. CASE Commit
  BY <1>8, CellsCommitted
<1>9. CASE DriveAct
  <2>1. PICK call \in Call : Effect(call)
    BY <1>9, ActStep
  <2>2. npc = "act" /\ npc' = "acted" /\ UNCHANGED <<chunk, sent>>
    BY <1>9 DEF DriveAct, NetStep, SameRequest, tcp
  <2>3. CASE Drains(call)
    BY <2>1, <2>2, <2>3, CellsDrain
  <2>4. CASE LeavesStream
    BY <2>1, <2>2, <2>4, CellsStay DEF Effect, GoesOn, LeavesStream, SameRing, Copying
  <2>. QED  BY <2>1, <2>3, <2>4 DEF Effect
<1>10. CASE DriveEnd \/ JobOut
  BY <1>10, CellsTaken
<1>11. CASE JobAct
  <2>1. PICK call \in Call : Effect(call)
    BY <1>11, ActStep
  <2>2. UNCHANGED <<npc, chunk, sent>>
    BY <1>11 DEF JobAct, JobOnly, net, tcp
  <2>4. CASE Drains(call)
    BY <2>1, <2>2, <2>4, CellsDrain
  <2>5. CASE LeavesStream
    BY <2>1, <2>2, <2>5, CellsStay DEF Effect, GoesOn, LeavesStream, SameRing, Copying
  <2>. QED  BY <2>1, <2>4, <2>5 DEF Effect
<1>12. CASE UNCHANGED vars
  BY <1>12, CellsStay DEF Copying, vars, flash, job, tcp, net, data
<1>. QED  BY <1>1, <1>2, <1>3, <1>4, <1>5, <1>6, <1>7, <1>8, <1>9, <1>10, <1>11, <1>12
  DEF Next, Client, Handler, DirectPush, RingPush, DriveFree, Run

\* Around the ring's end the place after the last cell used stays.
LEMMA RingTurns ==
  ASSUME NEW R \in Nat \ {0}, NEW rd \in 0..(R - 1), NEW used \in 0..R, NEW n \in 0..used
  PROVE  ((IF rd + n < R THEN rd + n ELSE rd + n - R) + (used - n)) % R = (rd + used) % R
<1>1. CASE rd + n < R
  <2>1. (rd + n) + (used - n) = rd + used
    OBVIOUS
  <2>. QED  BY <1>1, <2>1
<1>2. CASE ~(rd + n < R)
  <2>1. (rd + n - R) + (used - n) = rd + used - R /\ rd + used >= R
    BY <1>2
  <2>2. rd + used - R \in 0..(R - 1) /\ rd + used \in Nat
    BY <2>1
  <2>3. (rd + used) % R = IF rd + used < R THEN rd + used ELSE rd + used - R
    BY RingAdd
  <2>. QED  BY <1>2, <2>1, <2>2, <2>3
<1>. QED  BY <1>1, <1>2

\* A step that leaves the ring and a session alone leaves the copy its place.
LEMMA CopyStays ==
  ASSUME IInv, SameRing(core, core'), Running(core') /\ ~Failed(core') => Running(core) /\ ~Failed(core),
         npc' \in {"copy", "commit"} => npc' = npc /\ UNCHANGED chunk,
         npc' = "reserve" => npc' = npc
  PROVE  CopyInv'
  BY DEF IInv, RingInv, CopyInv, Copying, SameRing

\* Most steps leave the copy alone.
LEMMA CopyLeft ==
  ASSUME IInv,
         Begin \/ Segment \/ LastSegment \/ Gone \/ Push \/ DirectPass \/ DirectDone \/ PushEnd
         \/ Finish \/ FinishAnswer \/ PollAgain \/ PollAnswer \/ DriveStart \/ DriveNext \/
         DriveDone \/ Poll \/ JobNext \/ JobSlot \/ JobDone \/ Stall \/ SetSupply
  PROVE  /\ SameRing(core, core')
         /\ Running(core') /\ ~Failed(core') => Running(core) /\ ~Failed(core)
         /\ npc' \in {"copy", "commit"} => npc' = npc /\ UNCHANGED chunk
         /\ npc' = "reserve" => npc' = npc
<1>. USE DEF IInv, TypeInv, CoreTypes, PlaceTypes, NetPlaces, Backs, SinkInv, SameRing,
  SameSink, OnlyFails, Results, Running, Failed, flash, job, tcp, net, data
<1>1. CASE Begin
  BY <1>1 DEF Begin, NetIdle, Drive
<1>2. CASE Segment
  BY <1>2 DEF Segment, NetIdle, NoChunk, EventOnly, NetOnly, NoGate, NoSink
<1>3. CASE LastSegment
  BY <1>3 DEF LastSegment, NetIdle, NoChunk, EventOnly, NetOnly, NoGate, NoSink
<1>4. CASE FinishAnswer
  BY <1>4 DEF FinishAnswer, NetStep, Known, Respond, EventOnly, NetOnly, NoGate, NoSink
<1>5. CASE PollAgain
  BY <1>5 DEF PollAgain, Drive, EventOnly, NetOnly, NoGate, NoSink
<1>6. CASE PollAnswer
  BY <1>6 DEF PollAnswer, NetStep, Known, Respond, EventOnly, NetOnly, NoGate, NoSink
<1>7. CASE DriveStart
  BY <1>7 DEF DriveStart, NetOnly, SameRequest
<1>8. CASE Stall
  BY <1>8 DEF Stall
<1>9. CASE SetSupply
  BY <1>9 DEF SetSupply
<1>10. CASE Gone
  BY <1>10, FailIs DEF Gone, NetIdle, Drive, EventOnly, NetOnly, NoGate, NoSink
<1>11. CASE Finish
  BY <1>11, FailIs DEF Finish, Drive, EventOnly, NetOnly, NoGate, NoSink
<1>12. CASE Push
  BY <1>12, ClaimIs DEF Push, CanClaim, PushOnly, NetOnly, NoGate, NoSink, SameTcp
<1>13. CASE DirectPass
  BY <1>13, DoneIs DEF DirectPass, PushOnly, NetOnly, NoGate, NoSink, SameTcp
<1>14. CASE DriveDone
  BY <1>14, DoneIs DEF DriveDone, NetStep, NoCall, Progress, NetOnly, SameRequest
<1>15. CASE JobSlot
  BY <1>15, DoneIs DEF JobSlot, Confirm, NoCall, JobOnly
<1>16. CASE JobDone
  BY <1>16, DoneIs DEF JobDone, NoCall, Progress, JobOnly
<1>17. CASE DirectDone
  BY <1>17, DoneIs, FinalIs DEF DirectDone, Drive, AfterPush, NoChunk, Progress,
    PushOnly, NetOnly, NoGate, NoSink, SameTcp
<1>18. CASE PushEnd
  BY <1>18, FinalIs, WindowIs DEF PushEnd, HoldWindow, Reopens, Drive, AfterPush,
    NoChunk, PushOnly, NetOnly, NoGate, NoSink, SameTcp
<1>19. CASE DriveNext
  BY <1>19, NextIs, PeekIs, StepIs DEF DriveNext, MayCall, NextCall, NetOnly,
    SameRequest
<1>20. CASE JobNext
  BY <1>20, NextIs, PeekIs, StepIs DEF JobNext, NeedsSlot, NextCall, JobOnly
<1>21. CASE Poll
  BY <1>21, FailIs, WindowIs DEF Poll, NetIdle, Reopens, Drive, EventOnly, NetOnly,
    NoGate, NoSink
<1>. QED  BY <1>1, <1>2, <1>3, <1>4, <1>5, <1>6, <1>7, <1>8, <1>9, <1>10, <1>11, <1>12,
  <1>13, <1>14, <1>15, <1>16, <1>17, <1>18, <1>19, <1>20, <1>21

\* The copy keeps its place.
LEMMA CopyStep ==
  ASSUME IInv, [Next]_vars
  PROVE  CopyInv'
<1>1. CASE Begin \/ Segment \/ LastSegment \/ Gone \/ Push \/ DirectPass \/
           DirectDone \/ PushEnd \/ Finish \/ FinishAnswer \/ PollAgain \/ PollAnswer \/
           DriveStart \/ DriveNext \/ DriveDone \/ Poll \/ JobNext \/ JobSlot \/
           JobDone \/ Stall \/ SetSupply
  BY <1>1, CopyLeft, CopyStays
<1>2. CASE Begun
  <2>1. npc' \in {"idle", "push"}
    BY <1>2 DEF Begun
  <2>. QED  BY <2>1 DEF CopyInv, Copying
<1>3. CASE DirectOpen
  <2>1. npc' \in {"write", "written"}
    BY <1>3 DEF DirectOpen
  <2>. QED  BY <2>1 DEF CopyInv, Copying
<1>4. CASE DirectWrite
  <2>1. npc' = "written"
    BY <1>4 DEF DirectWrite, NetStep
  <2>. QED  BY <2>1 DEF CopyInv, Copying
<1>5. CASE EnsureRing
  <2>1. npc = "ring" /\ npc' \in {"reserve", "window"}
    BY <1>5 DEF EnsureRing
  <2>2. npc' = "reserve" => core.size > 0 \/ core' = SetRing(core)
    BY <1>5 DEF EnsureRing
  <2>3. core.size > 0 /\ npc' = "reserve" => core'.size # 0
    BY <1>5, PumpNumbers, SetRingIs, CoreAssumption DEF EnsureRing
  <2>4. core' = SetRing(core) => core'.size # 0
    BY PumpNumbers, PlaceIs, SetRingIs
  <2>. QED  BY <2>1, <2>2, <2>3, <2>4 DEF CopyInv, Copying
<1>6. CASE Reserve
  <2>1. /\ npc = "reserve" /\ npc' = (IF Keeps(core, chunk.len) THEN "copy" ELSE "window")
        /\ core' = ReserveCore(core, chunk.len)
        /\ Keeps(core, chunk.len) =>
             chunk' = [chunk EXCEPT !.kept = TRUE, !.at = (core.rd + core.used) % core.size]
    BY <1>6 DEF Reserve
  <2>2. SameRing(core, core')
    BY <2>1, ReserveIs, ChunkFits, AtReserve
  <2>3. CASE Keeps(core, chunk.len)
    <3>1. /\ chunk'.len = chunk.len /\ chunk'.kept
          /\ chunk'.at = (core.rd + core.used) % core.size
      BY <2>1, <2>3 DEF IInv, TypeInv, ChunkTypes, Chunk
    <3>2. core.size = RingSize /\ core.size # 0 /\ core.used + chunk.len <= RingSize
      BY <2>3, PumpNumbers DEF Keeps, Room
    <3>. QED  BY <2>1, <2>2, <2>3, <3>1, <3>2 DEF CopyInv, SameRing, Copying
  <2>4. CASE ~Keeps(core, chunk.len)
    BY <2>1, <2>4 DEF CopyInv, Copying
  <2>. QED  BY <2>3, <2>4
<1>7. CASE Copy
  <2>1. npc = "copy" /\ npc' = "commit" /\ UNCHANGED <<core, chunk>>
    BY <1>7 DEF Copy, NetStep
  <2>. QED  BY <2>1 DEF IInv, RingInv, CopyInv, Copying
<1>8. CASE Commit
  <2>1. npc' = "window"
    BY <1>8 DEF Commit, NetStep
  <2>. QED  BY <2>1 DEF CopyInv, Copying
<1>9. CASE DriveAct
  <2>1. npc' = "acted"
    BY <1>9 DEF DriveAct, NetStep
  <2>. QED  BY <2>1 DEF CopyInv, Copying
<1>10. CASE DriveEnd
  <2>1. npc' \in Backs
    BY <1>10 DEF DriveEnd, IInv, TypeInv, PlaceTypes
  <2>. QED  BY <2>1 DEF CopyInv, Copying, Backs
<1>11. CASE JobAct
  <2>1. PICK call \in Call : Effect(call)
    BY <1>11, ActStep
  <2>2. UNCHANGED <<npc, chunk>>
    BY <1>11 DEF JobAct, JobOnly, net
  <2>3. /\ core'.size = core.size /\ (Running(core') => Running(core))
        /\ Failed(core) => Failed(core')
    BY <2>1 DEF Effect, GoesOn
  <2>4. CASE LeavesStream
    BY <2>2, <2>3, <2>4 DEF IInv, RingInv, CopyInv, Copying, LeavesStream, SameRing
  <2>5. CASE Drains(call)
    <3>1. /\ call.at = core.rd /\ call.len \in 1..core.used
          /\ core'.rd = IF core.rd + call.len < RingSize THEN core.rd + call.len
                        ELSE core.rd + call.len - RingSize
          /\ core'.used = core.used - call.len
      BY <2>1, <2>5 DEF Effect, Fits, Drains
    <3>2. (core'.rd + core'.used) % RingSize = (core.rd + core.used) % RingSize
      <4>1. /\ RingSize \in Nat \ {0} /\ core.rd \in 0..(RingSize - 1) /\ core.used \in 0..RingSize
            /\ call.len \in 0..core.used
        BY <3>1, PlaceIs
      <4>. QED  BY <3>1, <4>1, RingTurns
    <3>3. core'.used <= core.used /\ core'.used \in Nat
      BY <3>1, PlaceIs
    <3>4. Copying => core'.used + chunk.len <= RingSize
      BY <3>3, PlaceIs, PumpNumbers DEF IInv, RingInv, CopyInv
    <3>. QED  BY <2>2, <2>3, <3>2, <3>4 DEF IInv, RingInv, CopyInv, Copying
  <2>. QED  BY <2>1, <2>4, <2>5 DEF Effect
<1>12. CASE JobOut
  <2>1. core' = TakeRing(core) /\ UNCHANGED <<npc, chunk>>
    BY <1>12 DEF JobOut, JobOnly, net
  <2>2. Copying \/ (Running(core) /\ ~Failed(core)) => core' = core
    BY <2>1, PumpNumbers, TakeIs DEF Takeable, IInv, TypeInv, CoreTypes
  <2>3. Running(core') => Running(core)
    BY <2>1, PumpNumbers, TakeIs DEF SameSink, Running
  <2>4. Failed(core') <=> Failed(core)
    BY <2>1, PumpNumbers, TakeIs DEF SameSink, Failed
  <2>. QED  BY <2>1, <2>2, <2>3, <2>4 DEF IInv, RingInv, CopyInv, Copying
<1>13. CASE UNCHANGED vars
  BY <1>13, CopyStays DEF SameRing, vars, flash, job, tcp, net, data
<1>. QED  BY <1>1, <1>2, <1>3, <1>4, <1>5, <1>6, <1>7, <1>8, <1>9, <1>10, <1>11, <1>12,
  <1>13 DEF Next, Client, Handler, DirectPush, RingPush, DriveFree, Run

\* Most steps are none of the session.
LEMMA SessionLeft ==
  ASSUME IInv,
         Begin \/ Segment \/ LastSegment \/ Gone \/ Push \/ DirectPass \/ DirectDone \/
         EnsureRing \/ Reserve \/ Copy \/ Commit \/ PushEnd \/ Finish \/ FinishAnswer \/
         PollAgain \/ PollAnswer \/ DriveStart \/ DriveNext \/ DriveDone \/ DriveEnd \/ Poll \/
         JobNext \/ JobSlot \/ JobDone \/ JobOut \/ Stall \/ SetSupply
  PROVE  core'.revocable = core.revocable /\ UNCHANGED <<sink, image, length>>
<1>. USE DEF IInv, TypeInv, CoreTypes, PlaceTypes, NetPlaces, Backs, SinkInv, SameSink,
  OnlyFails, Results, Running, flash, job, tcp, net, data
<1>1. CASE Begin
  BY <1>1 DEF Begin, NetIdle, Drive
<1>2. CASE Segment
  BY <1>2 DEF Segment, NetIdle, NoChunk, EventOnly, NetOnly, NoGate, NoSink
<1>3. CASE LastSegment
  BY <1>3 DEF LastSegment, NetIdle, NoChunk, EventOnly, NetOnly, NoGate, NoSink
<1>4. CASE Copy
  BY <1>4 DEF Copy, NetStep, PushOnly, NetOnly, NoGate, NoSink, SameTcp
<1>5. CASE FinishAnswer
  BY <1>5 DEF FinishAnswer, NetStep, Known, Respond, EventOnly, NetOnly, NoGate, NoSink
<1>6. CASE PollAgain
  BY <1>6 DEF PollAgain, Drive, EventOnly, NetOnly, NoGate, NoSink
<1>7. CASE PollAnswer
  BY <1>7 DEF PollAnswer, NetStep, Known, Respond, EventOnly, NetOnly, NoGate, NoSink
<1>8. CASE DriveStart
  BY <1>8 DEF DriveStart, NetOnly, SameRequest
<1>9. CASE Stall
  BY <1>9 DEF Stall
<1>10. CASE SetSupply
  BY <1>10 DEF SetSupply
<1>11. CASE Gone
  BY <1>11, FailIs DEF Gone, NetIdle, Drive, EventOnly, NetOnly, NoGate, NoSink
<1>12. CASE Finish
  BY <1>12, FailIs DEF Finish, Drive, EventOnly, NetOnly, NoGate, NoSink
<1>13. CASE Push
  BY <1>13, ClaimIs DEF Push, CanClaim, PushOnly, NetOnly, NoGate, NoSink, SameTcp
<1>14. CASE DirectPass
  BY <1>14, DoneIs DEF DirectPass, PushOnly, NetOnly, NoGate, NoSink, SameTcp
<1>15. CASE DriveDone
  BY <1>15, DoneIs DEF DriveDone, NetStep, NoCall, Progress, NetOnly, SameRequest
<1>16. CASE JobSlot
  BY <1>16, DoneIs DEF JobSlot, Confirm, NoCall, JobOnly
<1>17. CASE JobDone
  BY <1>17, DoneIs DEF JobDone, NoCall, Progress, JobOnly
<1>18. CASE DirectDone
  BY <1>18, DoneIs, FinalIs DEF DirectDone, Drive, AfterPush, NoChunk, Progress,
    PushOnly, NetOnly, NoGate, NoSink, SameTcp
<1>19. CASE EnsureRing
  <2>1. UNCHANGED <<sink, image, length>>
    BY <1>19 DEF EnsureRing, PushOnly, NoSink
  <2>2. CASE core' \in {core, FailCore(core, "NoWriter"), FailCore(core, "NoMemory")}
    BY <2>1, <2>2, FailIs, PumpNumbers
  <2>3. CASE core' = SetRing(core)
    BY <2>1, <2>3, SetRingIs, PumpNumbers
  <2>. QED  BY <1>19, <2>2, <2>3 DEF EnsureRing
<1>20. CASE Reserve
  <2>1. core' = ReserveCore(core, chunk.len) /\ npc = "reserve" /\ UNCHANGED <<sink, image, length>>
    BY <1>20 DEF Reserve, PushOnly, NoSink
  <2>. QED  BY <2>1, ReserveIs, ChunkFits, AtReserve DEF SameSink
<1>21. CASE Commit
  BY <1>21, AtCopy, CommitIs DEF Commit, NetStep, PushOnly, NetOnly, NoSink, SameSink
<1>22. CASE PushEnd
  BY <1>22, FinalIs, WindowIs DEF PushEnd, HoldWindow, Reopens, Drive, AfterPush,
    NoChunk, PushOnly, NetOnly, NoGate, NoSink, SameTcp
<1>23. CASE DriveNext
  BY <1>23, NextIs, PeekIs, StepIs DEF DriveNext, MayCall, NextCall, NetOnly,
    SameRequest
<1>24. CASE JobNext
  BY <1>24, NextIs, PeekIs, StepIs DEF JobNext, NeedsSlot, NextCall, JobOnly
<1>25. CASE DriveEnd
  BY <1>25, TakeIs DEF DriveEnd, Takeable, Empty, NetOnly, SameRequest
<1>26. CASE JobOut
  BY <1>26, TakeIs DEF JobOut, Takeable, Empty, JobOnly
<1>27. CASE Poll
  BY <1>27, FailIs, WindowIs DEF Poll, NetIdle, Reopens, Drive, EventOnly, NetOnly,
    NoGate, NoSink
<1>. QED  BY <1>1, <1>2, <1>3, <1>4, <1>5, <1>6, <1>7, <1>8, <1>9, <1>10, <1>11, <1>12,
  <1>13, <1>14, <1>15, <1>16, <1>17, <1>18, <1>19, <1>20, <1>21, <1>22, <1>23, <1>24,
  <1>25, <1>26, <1>27

\* The sink is never owed more than the client has.
LEMMA BoundStep ==
  ASSUME IInv, [Next]_vars
  PROVE  BoundInv'
<1>1. CASE Begin \/ Segment \/ LastSegment \/ Gone \/ Push \/ DirectPass \/
           DirectDone \/ PushEnd \/ Finish \/ FinishAnswer \/ PollAgain \/ PollAnswer \/
           DriveStart \/ DriveNext \/ DriveDone \/ Poll \/ JobNext \/ JobSlot \/
           JobDone \/ Stall \/ SetSupply
  BY <1>1, RingLeft, SessionLeft DEF IInv, BoundInv, SameRing
<1>2. CASE Begun
  <2>1. CASE CanBegin(core)
    <3>1. core'.written = 0 /\ core'.used = 0 /\ length' \in Nat
      BY <1>2, <2>1, BegunStep, PumpAssumption DEF Begun
    <3>. QED  BY <3>1 DEF BoundInv
  <2>2. CASE ~CanBegin(core)
    BY <1>2, <2>2 DEF Begun, tcp, IInv, BoundInv
  <2>. QED  BY <2>1, <2>2
<1>3. CASE DirectOpen
  <2>1. PICK call \in Call : Effect(call)
    BY <1>3, ActStep
  <2>2. UNCHANGED length
    BY <1>3 DEF DirectOpen, PushOnly
  <2>3. core'.written + core'.used = core.written + core.used
    <3>1. CASE Drains(call)
      BY <2>1, <3>1, PlaceIs DEF Effect, Drains, Call
    <3>2. CASE LeavesStream
      BY <3>2 DEF LeavesStream, SameRing
    <3>. QED  BY <2>1, <3>1, <3>2 DEF Effect
  <2>. QED  BY <2>1, <2>2, <2>3 DEF IInv, BoundInv, Effect, GoesOn
<1>4. CASE DirectWrite
  <2>1. Straight /\ npc = "write" /\ UNCHANGED length
    BY <1>4, StraightStep DEF DirectWrite, NetStep, PushOnly
  <2>2. /\ Running(core) /\ ~Failed(core) /\ core.used = 0 /\ Waiting = chunk.len
        /\ ~Towards("finish") /\ parsed \in 0..1 /\ sent \in 0..length /\ length \in Nat
        /\ core.written \in Nat /\ chunk.len \in 0..2
    BY <2>1, PumpNumbers, PlaceIs DEF IInv, CallInv, RequestInv, Waiting, Towards, Driving
  <2>3. core.written + core.used + Waiting + parsed = sent
    BY <2>2 DEF IInv, SentInv
  <2>4. /\ core'.written \in {core.written, core.written + chunk.len}
        /\ core'.used = 0
    BY <2>1, <2>2 DEF Straight, LeavesStream, SameRing
  <2>. QED  BY <2>1, <2>2, <2>3, <2>4 DEF BoundInv
<1>5. CASE EnsureRing
  <2>1. UNCHANGED length
    BY <1>5 DEF EnsureRing, PushOnly
  <2>2. CASE core' \in {core, FailCore(core, "NoWriter"), FailCore(core, "NoMemory")}
    BY <2>1, <2>2, FailIs, PumpNumbers DEF IInv, BoundInv, SinkInv, OnlyFails, SameRing,
      Results, Running
  <2>3. CASE core.size = 0 /\ core' = SetRing(core)
    <3>1. core'.used = core.used /\ core'.written = core.written /\ (Running(core') => Running(core))
      BY <2>3, SetRingIs, PumpNumbers DEF SameSink, Running
    <3>. QED  BY <2>1, <3>1 DEF IInv, BoundInv
  <2>. QED  BY <1>5, <2>2, <2>3 DEF EnsureRing
<1>6. CASE Reserve
  <2>1. core' = ReserveCore(core, chunk.len) /\ npc = "reserve" /\ UNCHANGED length
    BY <1>6 DEF Reserve, PushOnly
  <2>2. SameRing(core, core') /\ (Running(core') => Running(core))
    BY <2>1, ReserveIs, ChunkFits, AtReserve DEF SameSink, Running
  <2>. QED  BY <2>1, <2>2 DEF IInv, BoundInv, SameRing
<1>7. CASE Copy
  BY <1>7 DEF Copy, PushOnly, IInv, BoundInv
<1>8. CASE Commit
  <2>1. core' = CommitCore(core, chunk.len) /\ npc = "commit" /\ UNCHANGED length
    BY <1>8 DEF Commit, NetStep, PushOnly
  <2>2. /\ core'.written = core.written /\ (Running(core') => Running(core))
        /\ Running(core) => core'.used = core.used + chunk.len
    BY <2>1, AtCopy, CommitIs, PumpNumbers DEF SameSink, Running
  <2>3. Running(core) => core.written + core.used + chunk.len + parsed = sent
    BY <2>1 DEF IInv, SentInv, Copying, Waiting, Ringing
  <2>. QED  BY <2>1, <2>2, <2>3, PumpNumbers, PlaceIs DEF IInv, BoundInv, RequestInv
<1>9. CASE DriveAct
  <2>1. PICK call \in Call : Effect(call)
    BY <1>9, ActStep
  <2>2. UNCHANGED length
    BY <1>9 DEF DriveAct, SameRequest, tcp
  <2>3. core'.written + core'.used = core.written + core.used
    <3>1. CASE Drains(call)
      BY <2>1, <3>1, PlaceIs DEF Effect, Drains, Call
    <3>2. CASE LeavesStream
      BY <3>2 DEF LeavesStream, SameRing
    <3>. QED  BY <2>1, <3>1, <3>2 DEF Effect
  <2>. QED  BY <2>1, <2>2, <2>3 DEF IInv, BoundInv, Effect, GoesOn
<1>10. CASE DriveEnd \/ JobOut
  <2>1. core' = TakeRing(core) /\ UNCHANGED length
    BY <1>10 DEF DriveEnd, JobOut, SameRequest, JobOnly, tcp
  <2>2. /\ core'.written = core.written /\ core'.used \in {0, core.used}
        /\ Running(core') => Running(core)
    BY <2>1, PumpNumbers, TakeIs DEF SameSink, Running
  <2>. QED  BY <2>1, <2>2, PlaceIs DEF IInv, BoundInv, RequestInv
<1>11. CASE JobAct
  <2>1. PICK call \in Call : Effect(call)
    BY <1>11, ActStep
  <2>2. UNCHANGED length
    BY <1>11 DEF JobAct, JobOnly, tcp
  <2>3. core'.written + core'.used = core.written + core.used
    <3>1. CASE Drains(call)
      BY <2>1, <3>1, PlaceIs DEF Effect, Drains, Call
    <3>2. CASE LeavesStream
      BY <3>2 DEF LeavesStream, SameRing
    <3>. QED  BY <2>1, <3>1, <3>2 DEF Effect
  <2>. QED  BY <2>1, <2>2, <2>3 DEF IInv, BoundInv, Effect, GoesOn
<1>12. CASE UNCHANGED vars
  BY <1>12 DEF tcp, IInv, BoundInv, vars, flash, job, tcp, net, data
<1>. QED  BY <1>1, <1>2, <1>3, <1>4, <1>5, <1>6, <1>7, <1>8, <1>9, <1>10, <1>11, <1>12
  DEF Next, Client, Handler, DirectPush, RingPush, DriveFree, Run

-----------------------------------------------------------------------------
(* The invariant, and what it gives.                                        *)

\* The pump starts idle, with an empty ring.
LEMMA PumpInit == Init => IInv
<1>. SUFFICES ASSUME Init PROVE IInv
  OBVIOUS
<1>1. /\ NewCore \in Core /\ RingFits(NewCore) /\ NewCore.size = 0 /\ NewCore.used = 0
      /\ NewCore.phase = "Idle" /\ NewCore.result = "Ok" /\ NewCore.written = 0
      /\ ~NewCore.busy /\ ~NewCore.copying /\ ~NewCore.live /\ ~NewCore.finishing
  BY CoreAssumption DEF NewCore, Core, RingFits, Results
<1>2. /\ core = NewCore /\ ring = [i \in Cells |-> 0] /\ sink = "none" /\ noFlash = {}
      /\ image = <<>> /\ jpc = "idle" /\ jcall = NoCall /\ npc = "idle" /\ back = "idle"
      /\ ncall = NoCall /\ steps = 0 /\ chunk = NoChunk /\ req = "none" /\ answer = "none"
      /\ length = 0 /\ sent = 0 /\ parsed = 0 /\ unacked = 0 /\ gate = "free"
  BY DEF Init
<1>3. CoreTypes
  BY <1>1, <1>2 DEF CoreTypes, NetBusy, JobBusy, Direct, Copying
<1>4. PlaceTypes
  <2>1. NoCall \in Call /\ 0 \in 0..MaxSteps /\ ring \in [Cells -> Nat]
    BY <1>2, CoreAssumption, PumpAssumption DEF NoCall, Call, Acts
  <2>. QED  BY <1>2, <2>1 DEF PlaceTypes, NetPlaces, Backs
<1>5. ChunkTypes
  BY <1>2, CoreAssumption DEF ChunkTypes, Chunk, NoChunk
<1>6. RequestInv
  BY <1>2, PumpAssumption DEF RequestInv, Pushing, Direct, Ringing, Towards, Driving
<1>7. SinkInv /\ CallInv /\ SentInv /\ WindowInv /\ BoundInv /\ NoOverflow
  BY <1>1, <1>2 DEF SinkInv, CallInv, SentInv, WindowInv, BoundInv, NoOverflow,
    Running, Accepting,
    Copying
<1>8. RingInv
  BY <1>1, <1>2 DEF RingInv, CellsInv, CellInv, CopyInv, Copying
<1>9. ImageInv
  BY <1>1, <1>2 DEF ImageInv
<1>. QED  BY <1>3, <1>4, <1>5, <1>6, <1>7, <1>8, <1>9 DEF IInv, TypeInv

\* Every step keeps it.
LEMMA PumpNext == IInv /\ [Next]_vars => IInv'
<1>. SUFFICES ASSUME IInv, [Next]_vars PROVE IInv'
  OBVIOUS
<1>1. CoreTypes' /\ PlaceTypes' /\ ChunkTypes' /\ RequestInv' /\ SinkInv' /\ CallInv'
  BY CoreStep, PlaceStep, ChunkStep, RequestStep, SinkStep, CallStep
<1>2. SentInv' /\ WindowInv' /\ CellsInv' /\ CopyInv' /\ ImageInv' /\ BoundInv'
  BY SentStep, WindowStep, CellsStep, CopyStep, ImageStep, BoundStep
<1>3. NoOverflow'
  BY OverflowStep
<1>. QED  BY <1>1, <1>2, <1>3 DEF IInv, TypeInv, RingInv

\* The producer's cells hold nothing.
LEMMA CopyIsFree ==
  ASSUME IInv, npc = "copy", NEW i \in 1..chunk.len
  PROVE  Stream(chunk.at, chunk.len)[i] = 0
<1>1. /\ core.size = RingSize /\ RingSize \in Nat \ {0} /\ core.used \in Nat
      /\ chunk.len \in Nat /\ core.used + chunk.len <= RingSize
      /\ core.rd \in 0..(RingSize - 1) /\ chunk.at = (core.rd + core.used) % RingSize
  BY AtCopy
<1>2. core.used \in 0..RingSize /\ i - 1 \in 0..RingSize /\ i \in Int
  BY <1>1
<1>3. chunk.at = IF core.rd + core.used < RingSize THEN core.rd + core.used
                 ELSE core.rd + core.used - RingSize
  BY <1>1, <1>2, RingAdd
<1>4. chunk.at \in 0..(RingSize - 1) /\ chunk.at + (i - 1) = chunk.at + i - 1
  <2>1. CASE core.rd + core.used < RingSize
    <3>1. chunk.at = core.rd + core.used
      BY <1>3, <2>1
    <3>2. core.rd + core.used \in 0..(RingSize - 1)
      BY <1>1, <2>1
    <3>. QED  BY <1>2, <3>1, <3>2
  <2>2. CASE ~(core.rd + core.used < RingSize)
    <3>1. chunk.at = core.rd + core.used - RingSize
      BY <1>3, <2>2
    <3>2. core.rd + core.used - RingSize \in 0..(RingSize - 1)
      BY <1>1, <1>2, <2>2
    <3>. QED  BY <1>2, <3>1, <3>2
  <2>. QED  BY <2>1, <2>2
<1>. DEFINE cell == (chunk.at + (i - 1)) % RingSize
<1>5. cell = IF chunk.at + (i - 1) < RingSize THEN chunk.at + (i - 1)
             ELSE chunk.at + (i - 1) - RingSize
  BY <1>1, <1>2, <1>4, RingAdd
<1>6. cell \in Cells
  BY <1>1, <1>2, <1>4, <1>5 DEF Cells
<1>. HIDE DEF cell
<1>7. Place(cell) = core.used + (i - 1)
  <2>1. Place(cell) = IF cell >= core.rd THEN cell - core.rd ELSE cell - core.rd + RingSize
    BY <1>6, PlaceIs
  <2>. QED  BY <1>1, <1>2, <1>3, <1>5, <2>1
<1>8. ring[cell] = 0
  <2>1. ~(Place(cell) < core.used) /\ Copying /\ npc # "commit"
    BY <1>1, <1>2, <1>7 DEF Copying
  <2>. QED  BY <1>6, <2>1 DEF IInv, RingInv, CellsInv, CellInv
<1>. QED  BY <1>4, <1>8 DEF Stream, cell

\* The writer's data are the stream's next.
LEMMA CallInStream ==
  ASSUME IInv, NEW call \in Call, Fits(call), core.busy
  PROVE  InStream(call)
<1>. SUFFICES ASSUME call.act = "Write" PROVE InStream(call)
  BY DEF InStream
<1>1. Stream(call.at, call.len) = [i \in 1..call.len |-> core.written + i]
  BY StreamIs
<1>2. core.size > 0 /\ Len(image) = core.written
  <2>1. core.written \in Nat /\ core.size # 0 /\ core.size \in {0, RingSize} /\ RingSize \in Nat
    BY PlaceIs, PumpNumbers DEF Fits
  <2>. QED  BY <2>1 DEF IInv, ImageInv
<1>. QED  BY <1>1, <1>2 DEF InStream

\* What the runs check follows from the invariant.
LEMMA PumpGives == IInv => TypeOK /\ RingKept /\ NoOverflow
<1>. SUFFICES ASSUME IInv PROVE TypeOK /\ RingKept /\ NoOverflow
  OBVIOUS
<1>1. TypeOK
  <2>1. core.held \in BOOLEAN
    BY PumpNumbers DEF Core
  <2>. QED  BY <2>1 DEF IInv, TypeInv, CoreTypes, PlaceTypes, RequestInv, RingFits, TypeOK
<1>2. npc = "copy" => core.size > 0 /\ core.copying
  <2>1. npc = "copy" => core.size = RingSize /\ RingSize \in Nat \ {0} /\ core.copying
    BY AtCopy
  <2>. QED  BY <2>1
<1>3. jpc \in {"slot", "act"} => InStream(jcall)
  BY CallInStream DEF IInv, TypeInv, CoreTypes, PlaceTypes, CallInv, JobBusy
<1>4. npc = "act" => InStream(ncall)
  BY CallInStream DEF IInv, TypeInv, CoreTypes, PlaceTypes, CallInv, NetBusy
<1>. QED  BY <1>1, <1>2, <1>3, <1>4, CopyIsFree DEF RingKept, IInv

\* Type correctness, for every window, sector, ring and number of uploads.
THEOREM UploadTypeOK == Spec => []TypeOK
<1>. QED  BY PumpInit, PumpNext, PumpGives, PTL DEF Spec

\* The producer copies into cells that hold nothing of a ring that is there, and the writer
\* gets the stream's next bytes, whoever takes the sink's calls in what order.
THEOREM RingKeptHolds == Spec => []RingKept
<1>. QED  BY PumpInit, PumpNext, PumpGives, PTL DEF Spec

\* The window is held in time: no upload fails for want of room.
THEOREM NoOverflowHolds == Spec => []NoOverflow
<1>. QED  BY PumpInit, PumpNext, PumpGives, PTL DEF Spec

-----------------------------------------------------------------------------
(* The pump does what UploadSession promises.                               *)

Told(a) == IF a \in {"none", "Ok"} THEN a ELSE "failed"
SameSession == core'.revocable = core.revocable /\ UNCHANGED <<sink, length, image, answer>>

\* A step that is none of the session's.
LEMMA SessionStays == SameSession => UNCHANGED Session!session
  BY DEF SameSession, Session!session

\* The bytes the sink has had, and those still to come.
LEMMA GivenBytes ==
  ASSUME IInv
  PROVE  Len(image) = core.written /\ core.written \in Nat
  BY PlaceIs DEF IInv, ImageInv

\* A call of the sink, whoever makes it, is the session's.
LEMMA CallsFit ==
  ASSUME IInv, NEW call \in Call, Fits(call), Act(call), UNCHANGED <<length, answer>>
  PROVE  Session!SessionNext
<1>1. core'.revocable = core.revocable
  BY ActDoes DEF Effect, GoesOn
<1>2. /\ core \in Core /\ Running(core) /\ core.live
      /\ sink \in (IF core.open THEN {"open", "failed", "finishing", "done"}
                   ELSE {"fresh", "failed"})
      /\ sink = "done" => core.revocable
      /\ sink = "finishing" => core.finishing
      /\ core.finishing => sink \in {"open", "finishing"}
  BY PumpNumbers DEF Fits, IInv, SinkInv, Running
<1>3. CASE call.act = "Open"
  <2>1. sink = "fresh" /\ sink' \in {"open", "failed"} /\ UNCHANGED image
    BY <1>3 DEF Fits, Act
  <2>. QED  BY <1>1, <2>1 DEF Session!SessionNext, Session!SessionOpen, Session!Call
<1>4. CASE call.act = "Write"
  <2>1. sink = "open" /\ call.len \in 1..core.used
    BY <1>4 DEF Fits
  <2>2. CASE image' = image \o Stream(call.at, call.len) /\ UNCHANGED sink
    <3>1. Stream(call.at, call.len) = [i \in 1..call.len |-> core.written + i]
      BY <1>4, StreamIs
    <3>2. call.len \in 1..(length - Len(image))
      BY <1>2, <2>1, GivenBytes, PumpNumbers DEF IInv, BoundInv, RequestInv
    <3>3. Session!Bytes(Len(image), Len(image) + call.len) = [i \in 1..call.len |-> core.written + i]
      <4>1. /\ core.written + call.len - core.written = call.len
            /\ core.written \in Nat /\ call.len \in Nat
        BY <2>1, GivenBytes, PumpNumbers
      <4>. QED  BY <4>1, GivenBytes DEF Session!Bytes
    <3>4. \E n \in 1..(length - Len(image)) :
            image' = image \o Session!Bytes(Len(image), Len(image) + n)
      BY <2>2, <3>1, <3>2, <3>3
    <3>5. Session!SessionWrite
      BY <1>1, <2>1, <2>2, <3>4 DEF Session!SessionWrite, Session!Call
    <3>. QED  BY <3>5 DEF Session!SessionNext
  <2>3. CASE sink' = "failed" /\ UNCHANGED image
    <3>1. Session!SessionWrite
      BY <1>1, <2>1, <2>3 DEF Session!SessionWrite, Session!Call
    <3>. QED  BY <3>1 DEF Session!SessionNext
  <2>. QED  BY <1>4, <2>2, <2>3 DEF Act
<1>5. CASE call.act = "Finish"
  <2>1. sink \in {"open", "finishing"} /\ UNCHANGED image
    BY <1>2, <1>5 DEF Fits, Act
  <2>2. Len(image) = length
    BY <1>2, <1>5, GivenBytes DEF Fits, IInv, SentInv
  <2>3. sink' \in {"finishing", "done", "committed", "failed"}
    BY <1>5 DEF Act
  <2>4. sink' = "done" => core.revocable
    <3>1. sink' = "done" => core' = FinishedCore(core, "done") /\ Running(core')
      BY <1>5 DEF Act
    <3>. QED  BY <1>2, <3>1, FinishedIs DEF Running
  <2>5. Session!SessionFinish
    BY <1>1, <2>1, <2>2, <2>3, <2>4 DEF Session!SessionFinish, Session!Call
  <2>. QED  BY <2>5 DEF Session!SessionNext
<1>6. CASE call.act = "Abort"
  <2>1. sink' = "aborted" /\ UNCHANGED image
    BY <1>6 DEF Act
  <2>2. sink \in {"fresh", "open", "failed"} \cup (IF core.revocable THEN {"finishing", "done"} ELSE {})
    BY <1>2, <1>6 DEF Fits
  <2>3. Session!SessionAbort
    BY <1>1, <2>1, <2>2 DEF Session!SessionAbort, Session!Call
  <2>. QED  BY <2>3 DEF Session!SessionNext
<1>. QED  BY <1>3, <1>4, <1>5, <1>6 DEF Fits, Act

\* The straight write too.
LEMMA StraightFits ==
  ASSUME IInv, DirectWrite
  PROVE  [Session!SessionNext]_(Session!session)
<1>1. /\ npc = "write" /\ UNCHANGED <<length, answer>>
      /\ Straight
  BY StraightStep DEF DirectWrite, NetStep, PushOnly
<1>2. core'.revocable = core.revocable
  BY <1>1 DEF Straight, GoesOn
<1>3. Running(core) /\ ~Failed(core) /\ core.open /\ ~core.finishing /\ core.used = 0
  BY <1>1 DEF IInv, CallInv
<1>4. sink = "open"
  BY <1>3 DEF IInv, SinkInv
<1>5. CASE chunk.len = 0 /\ UNCHANGED <<core, sink, image>>
  BY <1>1, <1>2, <1>5, SessionStays DEF SameSession
<1>6. CASE /\ chunk.len > 0 /\ UNCHANGED sink
           /\ image' = image \o [k \in 1..chunk.len |-> sent - chunk.len + k]
  <2>1. /\ Waiting = chunk.len /\ ~Towards("finish") /\ parsed = 0
        /\ sent \in 0..length /\ length \in Nat /\ chunk.len \in 0..2
    BY <1>1, PumpNumbers DEF Waiting, Towards, Driving, IInv, RequestInv, Pushing, Direct
  <2>2. core.written + chunk.len = sent
    <3>1. core.written + core.used + Waiting + parsed = sent
      BY <1>3, <2>1 DEF IInv, SentInv
    <3>. QED  BY <1>3, <2>1, <3>1, GivenBytes
  <2>3. chunk.len \in 1..(length - Len(image)) /\ sent - chunk.len = core.written
    BY <1>6, <2>1, <2>2, GivenBytes
  <2>4. Session!Bytes(Len(image), Len(image) + chunk.len)
          = [k \in 1..chunk.len |-> sent - chunk.len + k]
    <3>1. Len(image) + chunk.len - Len(image) = chunk.len
      BY <2>1, GivenBytes
    <3>. QED  BY <2>3, <3>1, GivenBytes DEF Session!Bytes
  <2>5. \E n \in 1..(length - Len(image)) :
          image' = image \o Session!Bytes(Len(image), Len(image) + n)
    BY <1>6, <2>3, <2>4
  <2>6. Session!SessionWrite
    BY <1>1, <1>2, <1>4, <1>6, <2>5 DEF Session!SessionWrite, Session!Call
  <2>. QED  BY <2>6 DEF Session!SessionNext
<1>7. CASE sink' = "failed" /\ UNCHANGED image
  <2>1. Session!SessionWrite
    BY <1>1, <1>2, <1>4, <1>7 DEF Session!SessionWrite, Session!Call
  <2>. QED  BY <2>1 DEF Session!SessionNext
<1>. QED  BY <1>5, <1>6, <1>7 DEF DirectWrite

\* A new upload waits for the last one's sink.
LEMMA BeginsFit ==
  ASSUME IInv, Begun
  PROVE  [Session!SessionNext]_(Session!session)
<1>1. CASE ~CanBegin(core)
  BY <1>1, SessionStays DEF SameSession, Begun, tcp
<1>2. CASE CanBegin(core)
  <2>1. sink \in Session!Over
    <3>1. core.phase \in {"Idle", "Settled"}
      BY <1>2, PumpNumbers DEF CanBegin, Running, Core
    <3>. QED  BY <3>1 DEF IInv, SinkInv, Session!Over
  <2>2. PICK k \in Sinks, n \in Lengths :
          /\ core' = BeginCore(TakeRing(core), Revocable(k)) /\ length' = n
          /\ sink' = "fresh" /\ image' = <<>> /\ answer' = "none"
    BY <1>2 DEF Begun
  <2>3. core'.revocable \in BOOLEAN
    BY <2>2, BeginIs, TakeIs, PumpNumbers, KindOf
  <2>4. Session!SessionBegin
    BY <2>1, <2>2, <2>3 DEF Session!SessionBegin
  <2>. QED  BY <2>4 DEF Session!SessionNext
<1>. QED  BY <1>1, <1>2

\* The client hears how it ended, once.
LEMMA AnswersFit ==
  ASSUME IInv, FinishAnswer \/ PollAnswer
  PROVE  [Session!SessionNext]_(Session!session)
<1>1. core'.revocable = core.revocable /\ UNCHANGED <<sink, image, length>>
  BY DEF FinishAnswer, PollAnswer, EventOnly, NoSink
<1>2. CASE UNCHANGED answer
  BY <1>1, <1>2, SessionStays DEF SameSession
<1>3. CASE Known /\ Respond /\ req \in {"body", "paused"}
  <2>1. answer = "none"
    BY <1>3 DEF IInv, RequestInv
  <2>2. answer' \in Results /\ (answer' = "Ok" => core.phase = "Settled" /\ core.result = "Ok")
    BY <1>3, PumpNumbers DEF Known, Respond, Failed, Core
  <2>3. Told(answer') \in {"Ok", "failed"} /\ (Told(answer') = "Ok" => answer' = "Ok")
    BY <2>2 DEF Told, Results
  <2>4. Told(answer') = "Ok" => sink = "committed"
    BY <2>2, <2>3 DEF IInv, SinkInv
  <2>5. sink # "none"
    BY <1>3, PumpNumbers DEF Known, Core, Failed, Running, IInv, SinkInv
  <2>6. Session!SessionAnswer
    BY <1>1, <2>1, <2>3, <2>4, <2>5 DEF Session!SessionAnswer, Told
  <2>. QED  BY <2>6 DEF Session!SessionNext
<1>4. CASE FinishAnswer
  <2>1. req = "body"
    BY <1>4 DEF FinishAnswer, NetStep, IInv, RequestInv, Towards
  <2>. QED  BY <1>2, <1>3, <1>4, <2>1 DEF FinishAnswer
<1>5. CASE PollAnswer
  BY <1>2, <1>3, <1>5 DEF PollAnswer
<1>. QED  BY <1>4, <1>5

\* It starts and goes on as the session does.
LEMMA SessionStart == Init => Session!SessionInit
  BY DEF Init, NewCore, Session!SessionInit

\* ... each step being one of the session's or none.
LEMMA SessionStep == IInv /\ [Next]_vars => [Session!SessionNext]_(Session!session)
<1>. SUFFICES ASSUME IInv, [Next]_vars PROVE [Session!SessionNext]_(Session!session)
  OBVIOUS
<1>1. CASE DriveAct
  <2>1. ncall \in Call /\ Fits(ncall) /\ Act(ncall) /\ UNCHANGED <<length, answer>>
    BY <1>1 DEF IInv, TypeInv, PlaceTypes, CallInv, DriveAct, NetStep, SameRequest, tcp
  <2>. QED  BY <2>1, CallsFit
<1>2. CASE JobAct
  <2>1. jcall \in Call /\ Fits(jcall) /\ Act(jcall) /\ UNCHANGED <<length, answer>>
    BY <1>2 DEF IInv, TypeInv, PlaceTypes, CallInv, JobAct, JobOnly, tcp
  <2>. QED  BY <2>1, CallsFit
<1>3. CASE DirectOpen
  <2>. DEFINE call == [NoCall EXCEPT !.act = "Open"]
  <2>1. /\ call.act = "Open" /\ call \in Call /\ Act(call)
        /\ UNCHANGED <<length, answer>>
    BY <1>3, CoreAssumption DEF DirectOpen, PushOnly, NoCall, Call, Acts
  <2>2. Running(core) /\ ~core.open /\ sink = "fresh"
    BY <1>3 DEF IInv, CallInv, SinkInv, DirectOpen
  <2>. HIDE DEF call
  <2>. QED  BY <2>1, <2>2, CallsFit DEF Fits
<1>4. CASE DirectWrite
  BY <1>4, StraightFits
<1>5. CASE Begun
  BY <1>5, BeginsFit
<1>6. CASE FinishAnswer \/ PollAnswer
  BY <1>6, AnswersFit
<1>7. CASE Begin \/ Segment \/ LastSegment \/ Gone \/ Finish \/ PollAgain \/ Poll \/
           Stall \/ SetSupply
  <2>1. UNCHANGED answer
    BY <1>7 DEF Begin, Segment, LastSegment, Gone, Finish, PollAgain,
      Poll, Stall, SetSupply, tcp
  <2>. QED  BY <1>7, <2>1, SessionLeft, SessionStays DEF SameSession
<1>8. CASE Push \/ DirectPass \/ DirectDone \/ EnsureRing \/ Reserve \/ Copy \/
           Commit \/ PushEnd \/ DriveStart \/ DriveNext \/ DriveDone \/ DriveEnd \/
           JobNext \/ JobSlot \/ JobDone \/ JobOut
  <2>1. UNCHANGED answer
    BY <1>8 DEF Push, DirectPass, DirectDone, EnsureRing, Reserve, Copy, Commit, PushEnd,
      DriveStart, DriveNext, DriveDone, DriveEnd, JobNext, JobSlot, JobDone, JobOut,
      PushOnly, JobOnly, SameRequest, tcp
  <2>. QED  BY <1>8, <2>1, SessionLeft, SessionStays DEF SameSession
<1>9. CASE UNCHANGED vars
  BY <1>9, SessionStays DEF SameSession, vars, data, tcp
<1>. QED  BY <1>1, <1>2, <1>3, <1>4, <1>5, <1>6, <1>7, <1>8, <1>9
     DEF Next, Client, Handler, DirectPush, RingPush, DriveFree, Run

\* The pump's behaviours are the session's: the sink's calls come in order, from either task,
\* with the client's bytes, and the answer is true.
THEOREM PumpImplementsSession == Spec => Promised
<1>. QED  BY PumpInit, PumpNext, SessionStart, SessionStep, PTL DEF Spec, Promised,
  Session!SessionSpec
==============================================================================
