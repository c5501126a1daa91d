------------------------------ MODULE OtaLoader ------------------------------
(***************************************************************************)
(* A firmware update on a board with one app slot: the app leaves a        *)
(* handoff in NVS, sets the update loader to boot and restarts; the loader *)
(* pulls the image or takes an upload, writes it over the app, and boots   *)
(* it.  In the loader two tasks work: the session (app_main) and the HTTP  *)
(* server's, which takes uploads; Session::writer lets one image in at a   *)
(* time.  Power may go at any step, and the loader may crash.              *)
(*                                                                         *)
(* The slot is its sectors and, apart, the image's first bytes (head),     *)
(* which go in last.  Whatever is not named here (a power cut's time, the  *)
(* network, what a client sends) is a choice.                              *)
(***************************************************************************)
EXTENDS Naturals, FiniteSets, TLAPS

CONSTANTS
  Good, Bad,     \* what a server or a client may send: passes finish()'s checks, or not
  Old,           \* the app that was there
  Sectors,       \* of an image
  MaxUpdates,    \* bound: updates entered
  MaxFaults,     \* bound: power cuts, crashes, streams cut short, worn sectors
  Faults         \* what else may go wrong: "nvs", "wifi", "flash"

Modes == {"push", "pull", "badpull"}

VARIABLES
  \* in flash
  head, body,  \* the app slot: the image's first bytes, the sectors
  boot,        \* the partition set to boot: "app" or "loader"
  handoff,     \* NVS: the mode of the handoff, or "none"
  result,      \* NVS: the loader's outcome, or "none"
  \* the task that runs: the app's, or the loader's session
  pc,
  seen,        \* OtaLoader::lastResult of the running app
  crashed,     \* the last reset was a panic or a watchdog
  nvs,         \* the loader's NVS is up
  mode,        \* the handoff the loader found
  appValid,    \* Session::appValid
  out, then,   \* the outcome it leaves with, and where it goes on if the app does not boot
  serving,     \* serve(): with a time-out, until the station is up, where it returns
  uploading,   \* serve(): an upload holds the clock
  \* shared by the loader's tasks
  events,      \* Session::events
  imageIn,     \* Session::imageIn
  activating,  \* Session::phase is Activating
  web,         \* the HTTP server runs
  hpc,         \* its task: "idle", "asked", "upload"
  writer,      \* who has Session::writer: "free", "pull", "upload"
  \* the image writer
  stage, image, at, touched,
  \* history and bounds
  wanted,      \* the handoff of the update under way
  fresh,       \* the slot holds the image that went in in this update
  raced,       \* an upload was under way when the session set the app to boot
  updates, faults

slot == <<head, body>>
stored == <<slot, boot, handoff, result>>
session == <<nvs, mode, appValid, out, then, serving, uploading>>
page == <<web, hpc>>
shared == <<events, imageIn, activating>>
imageWriter == <<stage, image, at, touched>>
counts == <<updates, faults>>
history == <<wanted, fresh, raced>>
vars == <<stored, pc, seen, crashed, session, page, shared, writer, imageWriter, history, counts>>

Boots(h, b) == h # "blank" /\ \A i \in 1..Sectors : b[i] = h
SlotBoots == Boots(head, body)

NotServing == [timeout |-> FALSE, net |-> FALSE, then |-> "net"]

RamInit ==
  /\ nvs = TRUE /\ mode = "none" /\ appValid = FALSE /\ out = "none" /\ then = "stopped"
  /\ serving = NotServing /\ uploading = FALSE
  /\ web = FALSE /\ hpc = "idle" /\ events = {} /\ imageIn = FALSE /\ activating = FALSE
  /\ writer = "free" /\ stage = "none" /\ image = Good /\ at = 0 /\ touched = FALSE

Init ==
  /\ head = Old /\ body = [i \in 1..Sectors |-> Old]
  /\ boot = "app" /\ handoff = "none" /\ result = "none"
  /\ pc = "app" /\ seen = "none" /\ crashed = FALSE /\ RamInit
  /\ wanted = "none" /\ fresh = FALSE /\ raced = FALSE
  /\ updates = 0 /\ faults = 0

\* A reset: nothing but the flash stays.
RamLost ==
  /\ nvs' = TRUE /\ mode' = "none" /\ appValid' = FALSE /\ out' = "none" /\ then' = "stopped"
  /\ serving' = NotServing /\ uploading' = FALSE
  /\ web' = FALSE /\ hpc' = "idle" /\ events' = {} /\ imageIn' = FALSE /\ activating' = FALSE
  /\ writer' = "free" /\ stage' = "none" /\ image' = Good /\ at' = 0 /\ touched' = FALSE

Step(from, to) == pc = from /\ pc' = to
NoRam == UNCHANGED <<session, page, shared, writer, imageWriter>>
NoTask == UNCHANGED <<page, writer, imageWriter, counts, wanted, fresh, seen, crashed>>
Spend == faults < MaxFaults /\ faults' = faults + 1

-----------------------------------------------------------------------------
(* The bootloader, and the app's part (OtaLoader.cpp).                      *)

\* An app slot that does not boot falls back to the factory partition.
Bootloader ==
  /\ pc = "reset"
  /\ pc' = IF boot = "app" /\ SlotBoots THEN "begin" ELSE "load"
  /\ seen' = "none"
  /\ NoRam /\ UNCHANGED <<stored, crashed, history, counts>>

\* The loader's result is read once; a handoff left behind is not kept.
AppBegin ==
  /\ Step("begin", "begun")
  /\ seen' = result /\ result' = "none" /\ wanted' = "none" /\ crashed' = FALSE
  /\ NoRam /\ UNCHANGED <<slot, boot, handoff, fresh, raced, counts>>

AppBegun ==
  /\ Step("begun", "app") /\ handoff' = "none"
  /\ NoRam /\ UNCHANGED <<slot, boot, result, seen, crashed, history, counts>>

\* enter(): both in the restart's last step; refused while PowerGuard holds writes.
EnterUpdate ==
  /\ pc = "app" /\ updates < MaxUpdates /\ updates' = updates + 1
  /\ \E m \in Modes :
       \/ handoff' = m /\ pc' = "setboot"
       \/ UNCHANGED handoff /\ pc' = "reset"
  /\ fresh' = FALSE /\ raced' = FALSE
  /\ NoRam /\ UNCHANGED <<slot, boot, result, seen, crashed, wanted, faults>>

EnterLoader ==
  /\ Step("setboot", "reset")
  /\ \/ boot' = "loader" /\ wanted' = handoff /\ UNCHANGED handoff
     \/ handoff' = "none" /\ UNCHANGED <<boot, wanted>>
  /\ NoRam /\ UNCHANGED <<slot, result, seen, crashed, fresh, raced, counts>>

-----------------------------------------------------------------------------
(* The loader's session: start, and leaving it.                             *)

Leave(o, failing) == pc' = "leave" /\ out' = o /\ then' = failing
Stay(to) == pc' = to /\ UNCHANGED <<out, then>>

Load ==
  /\ pc = "load"
  /\ nvs' \in IF "nvs" \in Faults THEN BOOLEAN ELSE {TRUE}
  /\ mode' = (IF nvs' THEN handoff ELSE "none") /\ appValid' = SlotBoots
  /\ IF crashed /\ SlotBoots THEN Leave("before", "init") ELSE Stay("init")
  /\ crashed' = FALSE
  /\ UNCHANGED <<stored, seen, serving, uploading, page, shared, writer, imageWriter, history, counts>>

NetInit ==
  /\ pc = "init"
  /\ \/ Stay(IF mode \in {"pull", "badpull"} THEN "pull" ELSE "push")
     \/ "wifi" \in Faults /\ IF appValid THEN Leave("before", "stopped") ELSE Stay("stopped")
  /\ NoTask /\ UNCHANGED <<stored, nvs, mode, appValid, serving, uploading, shared, raced>>

\* returnToApp and activate: the slot is looked at once more, and otadata written,
\* which worn flash may not take.
LeavingWith(left) ==
  /\ pc = "leave" /\ handoff' = left
  /\ \/ /\ SlotBoots /\ pc' = "store" /\ boot' = "app" /\ activating' = TRUE
        /\ raced' = (raced \/ hpc # "idle") /\ UNCHANGED <<appValid, imageIn, faults>>
     \/ /\ IF SlotBoots THEN "flash" \in Faults /\ Spend ELSE UNCHANGED faults
        /\ pc' = then /\ appValid' = FALSE /\ activating' = (then # "serve")
        /\ imageIn' = (imageIn /\ out # "ok") /\ UNCHANGED <<boot, raced>>
  /\ UNCHANGED <<page, writer, imageWriter, updates, wanted, fresh, seen, crashed>>
  /\ UNCHANGED <<slot, result, nvs, mode, out, then, serving, uploading, events>>
\* Fault: the handoff is dropped before the slot is looked at.
Leaving_DropFirst == LeavingWith("none")
Leaving == LeavingWith(handoff)

StoreResult(o) == result' = IF nvs THEN o ELSE result

Store ==
  /\ Step("store", "drop") /\ StoreResult(out)
  /\ NoTask /\ UNCHANGED <<slot, boot, handoff, session, shared, raced>>

\* The handoff holds a Wi-Fi password and a token.
Drop ==
  /\ Step("drop", "restart")
  /\ handoff' = IF nvs /\ mode # "none" THEN "none" ELSE handoff
  /\ NoTask /\ UNCHANGED <<slot, boot, result, session, shared, raced>>

\* webStop waits for the server's task.
Restart ==
  /\ Step("restart", "reset") /\ hpc = "idle" /\ RamLost
  /\ UNCHANGED <<stored, seen, crashed, history, counts>>

-----------------------------------------------------------------------------
(* The session: waiting for events (serve).                                 *)

Serve(timeout, net, to) ==
  /\ pc' = "serve" /\ UNCHANGED <<out, then>> /\ uploading' = FALSE /\ activating' = FALSE
  /\ serving' = [timeout |-> timeout, net |-> net, then |-> to]

ServeOnly == NoTask /\ UNCHANGED <<stored, nvs, mode, appValid, imageIn, raced>>

\* The bits are taken together: done first, then back.
ServeEvents ==
  /\ pc = "serve" /\ events # {}
  /\ IF "done" \in events THEN events' = events \ {"done", "start", "end"} /\ Leave("ok", "serve")
     ELSE IF "back" \in events THEN events' = {} /\ Leave("aborted", "serve")
     ELSE events' = {} /\ Stay("serve")
  /\ uploading' = ((uploading \/ "start" \in events) /\ events \cap {"end", "done"} = {})
  /\ activating' = FALSE
  /\ ServeOnly /\ UNCHANGED serving

ServeReturns ==
  /\ pc = "serve" /\ ~uploading /\ (serving.timeout \/ serving.net)
  /\ serving.timeout => events = {}
  /\ pc' = serving.then /\ activating' = FALSE
  /\ ServeOnly /\ UNCHANGED <<out, then, serving, uploading, events>>

-----------------------------------------------------------------------------
(* The session: push, and pull up to an attempt.                            *)

SessionOnly == UNCHANGED <<hpc, writer, imageWriter, counts, history, seen, crashed, nvs, mode, appValid>>
Quiet == UNCHANGED <<slot, boot, handoff, events, imageIn>>

\* The page, and after ten minutes without an upload the app again.
Push ==
  /\ pc = "push" /\ web' = TRUE /\ Serve(appValid, FALSE, "idle")
  /\ SessionOnly /\ Quiet /\ UNCHANGED result

PushIdle ==
  /\ pc = "idle"
  /\ IF appValid THEN Leave("aborted", "push") ELSE Stay("push")
  /\ SessionOnly /\ Quiet /\ UNCHANGED <<result, activating, web, serving, uploading>>

\* What the handoff alone tells, and whether the station joins.
Pull ==
  /\ pc = "pull"
  /\ IF mode = "badpull"
     THEN IF appValid THEN Leave("before", "refused") ELSE Stay("refused")
     ELSE \/ Stay("ready")
          \/ IF appValid THEN Leave("before", "ready") ELSE Stay("ready")
  /\ SessionOnly /\ Quiet /\ UNCHANGED <<result, activating, web, serving, uploading>>

\* Nothing to fetch: the upload page, for good.
PullRefused ==
  /\ pc = "refused" /\ StoreResult("after") /\ web' = TRUE /\ Serve(FALSE, FALSE, "refused")
  /\ SessionOnly /\ Quiet

PullReady ==
  /\ Step("ready", "net") /\ web' = TRUE
  /\ SessionOnly /\ Quiet /\ UNCHANGED <<result, activating, out, then, serving, uploading>>

\* Without a station no attempt is made: uploads meanwhile.
Net ==
  /\ pc = "net"
  /\ \/ Stay("lock") /\ UNCHANGED <<activating, serving, uploading>>
     \/ appValid /\ Leave("before", "down") /\ UNCHANGED <<activating, serving, uploading>>
     \/ ~appValid /\ Serve(FALSE, TRUE, "net")
  /\ SessionOnly /\ Quiet /\ UNCHANGED <<result, web>>

NetDown ==
  /\ pc = "down" /\ Serve(FALSE, TRUE, "net")
  /\ SessionOnly /\ Quiet /\ UNCHANGED <<result, web>>

\* Only once the writer is free; an upload may have put an image in meanwhile.
PullLock ==
  /\ pc = "lock" /\ writer = "free"
  /\ IF imageIn
     THEN /\ events' = events \ {"done", "start"} /\ Leave("ok", "failed")
          /\ UNCHANGED <<writer, imageWriter, activating>>
     ELSE /\ pc' = "pulling" /\ writer' = "pull" /\ UNCHANGED <<out, then, events>>
          /\ stage' = "stream" /\ image' \in {Good, Bad} /\ at' = 0 /\ touched' = FALSE
          /\ activating' = FALSE
  /\ UNCHANGED <<stored, seen, crashed, nvs, mode, appValid, serving, uploading, page, imageIn, history, counts>>

\* Nothing written and the old app still there: back to it.
PullBefore ==
  /\ pc = "before"
  /\ IF appValid THEN Leave("before", "failed") ELSE Stay("failed")
  /\ SessionOnly /\ Quiet /\ UNCHANGED <<result, activating, web, serving, uploading>>

\* Past the point of no return: it keeps trying, after a pause.
\* Fault: it leaves the rest to an upload.
NextTry_Upload == Serve(FALSE, FALSE, "refused")
NextTry == Serve(TRUE, FALSE, "net")

PullFailed ==
  /\ pc = "failed" /\ StoreResult("after") /\ NextTry
  /\ SessionOnly /\ Quiet /\ UNCHANGED web

-----------------------------------------------------------------------------
(* The HTTP server's task.                                                  *)

PageOnly == UNCHANGED <<stored, pc, seen, crashed, session, web, imageIn, history, counts>>

Listens == web /\ hpc = "idle" /\ pc # "restart"

UploadAsked ==
  /\ Listens /\ ~imageIn /\ ~activating
  /\ hpc' = "asked"
  /\ PageOnly /\ UNCHANGED <<shared, writer, imageWriter>>

\* Faults: the writer's mutex, or the second look at imageIn, left out.
UploadRefused_Unlocked == imageIn
UploadRefused_OneLook == writer # "free"
\* A download under way, or an image that went in just before: 409.
UploadRefused == writer # "free" \/ imageIn

UploadTaken ==
  /\ hpc = "asked"
  /\ IF UploadRefused
     THEN hpc' = "idle" /\ UNCHANGED <<writer, events, activating, imageWriter>>
     ELSE /\ hpc' = "upload" /\ writer' = "upload" /\ events' = events \cup {"start"}
          /\ stage' = "stream" /\ image' \in {Good, Bad} /\ at' = 0 /\ touched' = FALSE
          /\ activating' = FALSE
  /\ PageOnly

Back ==
  /\ Listens /\ appValid /\ "back" \notin events
  /\ events' = events \cup {"back"}
  /\ PageOnly /\ UNCHANGED <<hpc, imageIn, activating, writer, imageWriter>>

-----------------------------------------------------------------------------
(* The image writer, run by whoever has Session::writer.                    *)

WriterOnly ==
  /\ writer # "free"
  /\ UNCHANGED <<boot, handoff, result, seen, crashed, nvs, mode, out, then, serving, uploading>>
  /\ UNCHANGED <<web, activating, image, wanted, raced, updates>>
NoEnd == UNCHANGED <<pc, appValid, events, imageIn, hpc, writer>>

\* A sector: the first is checked before anything is touched, and leaves the
\* head erased; worn flash may keep something else than what was written.
Flush ==
  /\ stage = "stream" /\ at < Sectors
  /\ touched' = TRUE /\ at' = at + 1 /\ fresh' = FALSE
  /\ \/ body' = [body EXCEPT ![at + 1] = image] /\ UNCHANGED faults
     \/ "flash" \in Faults /\ body' = [body EXCEPT ![at + 1] = "junk"] /\ Spend
  /\ head' = (IF at = 0 THEN "blank" ELSE head)
  /\ WriterOnly /\ NoEnd /\ UNCHANGED stage

\* A stream cut short, a head that is no image's, a flash write that fails.
Cut ==
  /\ stage = "stream" /\ stage' = "undo" /\ Spend
  /\ WriterOnly /\ NoEnd /\ UNCHANGED <<slot, at, touched, fresh>>

\* Size, SHA-256 and signature, then the head.
\* Fault: the head goes in before the checks.
Checked_HeadFirst ==
  /\ stage = "stream" /\ at = Sectors
  /\ stage' = "verify" /\ head' = image
  /\ WriterOnly /\ NoEnd /\ UNCHANGED <<faults, body, at, touched, fresh>>

Checked ==
  /\ stage = "stream" /\ at = Sectors
  /\ IF image = Good THEN stage' = "verify" /\ head' = image
     ELSE stage' = "undo" /\ UNCHANGED head
  /\ WriterOnly /\ NoEnd /\ UNCHANGED <<faults, body, at, touched, fresh>>

\* The image as the bootloader will see it: in, and kept by whoever comes next.
Verified ==
  /\ stage = "verify"
  /\ IF ~SlotBoots
     THEN stage' = "undo" /\ NoEnd /\ UNCHANGED <<touched, fresh>>
     ELSE /\ stage' = "none" /\ touched' = FALSE /\ fresh' = TRUE
          /\ appValid' = FALSE /\ imageIn' = TRUE /\ writer' = "free"
          /\ IF writer = "pull"
             THEN pc' = "pulled" /\ UNCHANGED <<events, hpc>>
             ELSE events' = events \cup {"done"} /\ hpc' = "idle" /\ UNCHANGED pc
  /\ WriterOnly /\ UNCHANGED <<faults, slot, at>>

\* abandon(): once touched the first sector is erased.
UndoneWith(event) ==
  /\ stage = "undo" /\ stage' = "none" /\ touched' = FALSE /\ writer' = "free"
  /\ head' = (IF touched THEN "blank" ELSE head)
  /\ body' = IF touched THEN [body EXCEPT ![1] = "blank"] ELSE body
  /\ appValid' = (appValid /\ ~touched)
  /\ IF writer = "pull"
     THEN pc' = (IF touched THEN "failed" ELSE "before") /\ UNCHANGED <<events, hpc>>
     ELSE events' = events \cup {event} /\ hpc' = "idle" /\ UNCHANGED pc
  /\ WriterOnly /\ UNCHANGED <<faults, at, imageIn, fresh>>
\* Fault: the session hears of every upload's end as of an image that is in.
Undone_Done == UndoneWith("done")
Undone == UndoneWith("end")

PullDone ==
  /\ pc = "pulled" /\ Leave("ok", "failed")
  /\ SessionOnly /\ Quiet /\ UNCHANGED <<result, activating, web, serving, uploading>>

Write == Flush \/ Cut \/ Checked \/ Verified \/ Undone

-----------------------------------------------------------------------------
\* Power goes, or (panic) a watchdog or a panic resets the chip.
PowerCut ==
  /\ pc # "reset" /\ Spend
  /\ pc' = "reset" /\ crashed' \in BOOLEAN /\ RamLost
  /\ UNCHANGED <<stored, seen, history, updates>>

-----------------------------------------------------------------------------
App == Bootloader \/ AppBegin \/ AppBegun \/ EnterLoader
Session == Load \/ NetInit \/ Leaving \/ Store \/ Drop \/ Restart \/ ServeEvents
           \/ Push \/ PushIdle \/ Pull \/ PullRefused \/ PullReady \/ Net \/ NetDown
           \/ PullLock \/ PullBefore \/ PullFailed \/ PullDone
Page == UploadAsked \/ UploadTaken \/ Back

Next == App \/ EnterUpdate \/ Session \/ ServeReturns \/ Page \/ Write \/ PowerCut

\* The tasks run on, waits end, and in the end the network is there and a good
\* image on the server.
Fairness ==
  /\ WF_vars(App) /\ WF_vars(Session) /\ WF_vars(UploadTaken) /\ WF_vars(Write /\ UNCHANGED faults)
  /\ SF_vars(ServeReturns) /\ SF_vars(Net /\ pc' = "lock") /\ SF_vars(PullLock /\ image' = Good)

Spec == Init /\ [][Next]_vars /\ Fairness

-----------------------------------------------------------------------------
Outcomes == {"none", "ok", "before", "after", "aborted"}

\* The slot, the NVS and the loader's tasks; the image writer has one owner,
\* who is at work with it (image_writer.cpp, s_busy).
TypeOK ==
  /\ head \in {Old, Good, Bad, "blank"}
  /\ body \in [1..Sectors -> {Old, Good, Bad, "blank", "junk"}]
  /\ boot \in {"app", "loader"} /\ handoff \in Modes \cup {"none"}
  /\ result \in Outcomes /\ seen \in Outcomes /\ at \in 0..Sectors
  /\ writer = "free" <=> stage = "none"
  /\ writer = "upload" <=> hpc = "upload"
  /\ writer = "pull" <=> pc = "pulling"

\* image_writer.h: only a checked image ever boots, whatever stops the writer.
OnlyCheckedBoots == SlotBoots => head \in {Old, Good}

\* An image that is in stays whole until it boots: nobody writes over it.
ImageKept == imageIn => SlotBoots /\ head = Good /\ writer = "free"

\* For as long as the slot boots nothing the update's handoff is there to go on
\* with, unless an upload got past its checks just as the session was leaving.
HandoffKept == ~raced /\ wanted # "none" /\ ~SlotBoots => handoff = wanted

\* loader_main.cpp:247: past the point of no return a pull is never given up, so
\* its handoff outlives every slot that does not boot.
NeverGivenUp == wanted = "pull" /\ ~SlotBoots => handoff = wanted

\* The app hears "ok" only of an image that went in, whole, in its update.
OkIsTrue == pc \in {"begun", "app"} /\ seen = "ok" => fresh

\* A pull is never given up: the device ends up in an app again, unless the loader
\* has no NVS (no handoff is read) or no Wi-Fi at all.
BackInAnApp ==
  (wanted = "pull" /\ pc = "load") ~> (pc = "app" \/ pc = "stopped" \/ ~nvs \/ raced)

-----------------------------------------------------------------------------
(* What the promises rest on.                                               *)

LoaderAssumption == Sectors \in Nat

\* The chip is not in the loader yet; the session is on its way out of it.
Outside == {"reset", "begin", "begun", "app", "setboot", "load"}
Going == {"store", "drop", "restart"}
InSession == {"init", "leave", "push", "idle", "pull", "refused", "ready", "net", "lock",
              "pulling", "pulled", "before", "failed", "down", "serve", "stopped"}

SlotTypes ==
  /\ head \in {Old, Good, "blank"}
  /\ body \in [1..Sectors -> {Old, Good, Bad, "blank", "junk"}]
  /\ image \in {Good, Bad} /\ at \in 0..Sectors

NvsTypes ==
  /\ boot \in {"app", "loader"} /\ handoff \in Modes \cup {"none"} /\ wanted \in Modes \cup {"none"}
  /\ {result, seen, out} \subseteq Outcomes

PlaceTypes ==
  /\ pc \in Outside \cup InSession \cup Going
  /\ then \in InSession /\ serving.then \in InSession \ {"pulling", "pulled", "leave"}
  /\ then \notin {"pulling", "pulled", "leave"}
  /\ hpc \in {"idle", "asked", "upload"} /\ writer \in {"free", "pull", "upload"}
  /\ stage \in {"none", "stream", "verify", "undo"}

TypeInv == SlotTypes /\ NvsTypes /\ PlaceTypes

\* The image writer is at work for whoever has it, and outside the loader for nobody.
OwnerInv ==
  /\ writer = "free" <=> stage = "none"
  /\ writer = "upload" <=> hpc = "upload"
  /\ writer = "pull" <=> pc = "pulling"
  /\ pc \in Outside => ~web /\ hpc = "idle" /\ ~imageIn /\ events = {}

\* An image's first bytes go in once it is checked, and it is let in once it boots:
\* from then on nobody has the writer.
ImageInv ==
  /\ stage = "verify" => head = Good
  /\ imageIn => SlotBoots /\ head = Good /\ writer = "free" /\ fresh

\* The session hears "done" and leaves with "ok" only once an image is in, and then
\* has heard it.
DoneInv ==
  /\ pc = "pulled" \/ (pc = "leave" /\ out = "ok") => "done" \notin events
  /\ "done" \in events => imageIn
  /\ pc = "pulled" => imageIn
  /\ pc \in {"leave", "store"} /\ out = "ok" => imageIn

\* "ok" is stored of an image that is in, and the app boots and reads it next.
ResultInv ==
  /\ result = "ok" => /\ pc \in {"drop", "restart", "reset", "begin"}
                      /\ boot = "app" /\ SlotBoots /\ fresh
                      /\ pc \in {"drop", "restart"} => imageIn
  /\ pc \in {"begun", "app"} /\ seen = "ok" => fresh

\* The slot the session leaves with stays as it was found, but for an upload that had
\* asked before.
GoingInv ==
  pc \in Going => boot = "app" /\ (~raced => SlotBoots /\ activating /\ hpc = "idle")

\* No update is under way while the app runs; a handoff that was dropped left an app.
HandoffInv ==
  /\ pc \in {"begun", "app", "setboot"} => wanted = "none"
  /\ ~raced /\ wanted # "none" /\ handoff # wanted =>
       boot = "app" /\ SlotBoots /\ pc \in {"restart", "reset", "begin"}

IInv == TypeInv /\ OwnerInv /\ ImageInv /\ DoneInv /\ ResultInv /\ GoingInv /\ HandoffInv


\* Whether the slot boots is told by the slot alone.
LEMMA SlotSame ==
  ASSUME UNCHANGED slot
  PROVE  SlotBoots' <=> SlotBoots
<1>. QED  BY DEF slot, SlotBoots, Boots

\* The slot and the image writer keep their types: nothing but the good image gets a head.
LEMMA SlotTypesStep ==
  ASSUME LoaderAssumption, IInv, [Next]_vars
  PROVE  SlotTypes'
<1>1. CASE Bootloader \/ AppBegin \/ AppBegun \/ EnterLoader \/ EnterUpdate \/ Load \/
           NetInit \/ Leaving
  BY <1>1 DEF LoaderAssumption, IInv, TypeInv, SlotTypes, OwnerInv, ImageInv,
    Bootloader, NoRam, AppBegin, Step, AppBegun, EnterLoader, EnterUpdate, Load, Leave,
    Stay, NetInit, NoTask, Leaving, LeavingWith, slot, stored, session, page, shared,
    imageWriter, counts, history
<1>2. CASE Store \/ Drop \/ Restart \/ ServeEvents \/ ServeReturns \/ Push \/
           PushIdle \/ Pull
  BY <1>2 DEF LoaderAssumption, IInv, TypeInv, SlotTypes, OwnerInv, ImageInv, Store,
    Step, StoreResult, NoTask, Drop, Restart, RamLost, NotServing, ServeEvents,
    ServeOnly, Leave, Stay, ServeReturns, Push, Serve, SessionOnly, Quiet, PushIdle,
    Pull, slot, stored, session, page, shared, imageWriter, counts, history
<1>3. CASE PullRefused \/ PullReady \/ Net \/ NetDown \/ PullLock \/ PullBefore \/
           PullFailed \/ PullDone
  BY <1>3 DEF LoaderAssumption, IInv, TypeInv, SlotTypes, OwnerInv, ImageInv,
    PullRefused, StoreResult, Serve, SessionOnly, Quiet, PullReady, Step, Net, Leave,
    Stay, NetDown, PullLock, PullBefore, PullFailed, NextTry, PullDone, slot, stored,
    session, page, shared, imageWriter, counts, history
<1>4. CASE UploadAsked \/ UploadTaken \/ Back \/ Flush \/ Cut \/ Checked \/ Verified \/
           Undone
  BY <1>4 DEF LoaderAssumption, IInv, TypeInv, SlotTypes, OwnerInv, ImageInv,
    UploadAsked, Listens, PageOnly, UploadTaken, UploadRefused, Back, Flush, WriterOnly,
    NoEnd, Spend, Cut, Checked, Verified, Undone, UndoneWith, slot, stored, session,
    page, shared, imageWriter, counts, history
<1>5. CASE PowerCut
  BY <1>5 DEF LoaderAssumption, IInv, TypeInv, SlotTypes, OwnerInv, ImageInv, PowerCut,
    RamLost, NotServing, Spend, slot, stored, session, page, shared, imageWriter,
    counts, history
<1>6. CASE UNCHANGED vars
  BY <1>6 DEF LoaderAssumption, IInv, TypeInv, SlotTypes, OwnerInv, ImageInv, vars,
    slot, stored, session, page, shared, imageWriter, counts, history
<1>. QED  BY <1>1, <1>2, <1>3, <1>4, <1>5, <1>6 DEF Next, App, Session, Page, Write

\* The records keep their types.
LEMMA NvsTypesStep ==
  ASSUME LoaderAssumption, IInv, [Next]_vars
  PROVE  NvsTypes'
<1>1. CASE Bootloader \/ AppBegin \/ AppBegun \/ EnterLoader \/ EnterUpdate \/ Load \/
           NetInit \/ Leaving
  BY <1>1 DEF IInv, TypeInv, NvsTypes, Modes, Outcomes, Bootloader, NoRam, AppBegin,
    Step, AppBegun, EnterLoader, EnterUpdate, Load, Leave, Stay, NetInit, NoTask,
    Leaving, LeavingWith, slot, stored, session, page, shared, imageWriter, counts,
    history
<1>2. CASE Store \/ Drop \/ Restart \/ ServeEvents \/ ServeReturns \/ Push \/
           PushIdle \/ Pull
  BY <1>2 DEF IInv, TypeInv, NvsTypes, Modes, Outcomes, Store, Step, StoreResult,
    NoTask, Drop, Restart, RamLost, NotServing, ServeEvents, ServeOnly, Leave, Stay,
    ServeReturns, Push, Serve, SessionOnly, Quiet, PushIdle, Pull, slot, stored,
    session, page, shared, imageWriter, counts, history
<1>3. CASE PullRefused \/ PullReady \/ Net \/ NetDown \/ PullLock \/ PullBefore \/
           PullFailed \/ PullDone
  BY <1>3 DEF IInv, TypeInv, NvsTypes, Modes, Outcomes, PullRefused, StoreResult, Serve,
    SessionOnly, Quiet, PullReady, Step, Net, Leave, Stay, NetDown, PullLock,
    PullBefore, PullFailed, NextTry, PullDone, slot, stored, session, page, shared,
    imageWriter, counts, history
<1>4. CASE UploadAsked \/ UploadTaken \/ Back \/ Flush \/ Cut \/ Checked \/ Verified \/
           Undone
  BY <1>4 DEF IInv, TypeInv, NvsTypes, Modes, Outcomes, UploadAsked, Listens, PageOnly,
    UploadTaken, UploadRefused, Back, Flush, WriterOnly, NoEnd, Spend, Cut, Checked,
    Verified, Undone, UndoneWith, slot, stored, session, page, shared, imageWriter,
    counts, history
<1>5. CASE PowerCut
  BY <1>5 DEF IInv, TypeInv, NvsTypes, Modes, Outcomes, PowerCut, RamLost, NotServing,
    Spend, slot, stored, session, page, shared, imageWriter, counts, history
<1>6. CASE UNCHANGED vars
  BY <1>6 DEF IInv, TypeInv, NvsTypes, Modes, Outcomes, vars, slot, stored, session,
    page, shared, imageWriter, counts, history
<1>. QED  BY <1>1, <1>2, <1>3, <1>4, <1>5, <1>6 DEF Next, App, Session, Page, Write

\* The tasks stay at the places they can be at.
LEMMA PlaceTypesStep ==
  ASSUME LoaderAssumption, IInv, [Next]_vars
  PROVE  PlaceTypes'
<1>1. CASE Bootloader \/ AppBegin \/ AppBegun \/ EnterLoader
  BY <1>1 DEF IInv, TypeInv, PlaceTypes, Outside, InSession, Going, Bootloader, NoRam,
    AppBegin, Step, AppBegun, EnterLoader, slot, stored, session, page, shared,
    imageWriter, counts, history
<1>2. CASE NetInit \/ Leaving
  BY <1>2 DEF IInv, TypeInv, PlaceTypes, Outside, InSession, Going, NetInit, NoTask,
    Leave, Stay, Leaving, LeavingWith, slot, stored, session, page, shared, imageWriter,
    counts, history
<1>3. CASE EnterUpdate
  BY <1>3 DEF IInv, TypeInv, PlaceTypes, Outside, InSession, Going, EnterUpdate, NoRam,
    slot, stored, session, page, shared, imageWriter, counts, history
<1>4. CASE Load
  BY <1>4 DEF IInv, TypeInv, PlaceTypes, Outside, InSession, Going, Load, Leave, Stay,
    slot, stored, session, page, shared, imageWriter, counts, history
<1>5. CASE Store \/ Drop \/ Restart \/ ServeEvents \/ ServeReturns \/ Push \/
           PushIdle \/ Pull
  BY <1>5 DEF IInv, TypeInv, PlaceTypes, Outside, InSession, Going, Store, Step,
    StoreResult, NoTask, Drop, Restart, RamLost, NotServing, ServeEvents, ServeOnly,
    Leave, Stay, ServeReturns, Push, Serve, SessionOnly, Quiet, PushIdle, Pull, slot,
    stored, session, page, shared, imageWriter, counts, history
<1>6. CASE PullRefused \/ PullReady \/ Net \/ NetDown \/ PullLock \/ PullBefore \/
           PullFailed \/ PullDone
  BY <1>6 DEF IInv, TypeInv, PlaceTypes, Outside, InSession, Going, PullRefused,
    StoreResult, Serve, SessionOnly, Quiet, PullReady, Step, Net, Leave, Stay, NetDown,
    PullLock, PullBefore, PullFailed, NextTry, PullDone, slot, stored, session, page,
    shared, imageWriter, counts, history
<1>7. CASE UploadAsked \/ UploadTaken \/ Back \/ Flush \/ Cut \/ Checked \/ Verified \/
           Undone
  BY <1>7 DEF IInv, TypeInv, PlaceTypes, Outside, InSession, Going, UploadAsked,
    Listens, PageOnly, UploadTaken, UploadRefused, Back, Flush, WriterOnly, NoEnd,
    Spend, Cut, Checked, Verified, Undone, UndoneWith, slot, stored, session, page,
    shared, imageWriter, counts, history
<1>8. CASE PowerCut
  BY <1>8 DEF IInv, TypeInv, PlaceTypes, Outside, InSession, Going, PowerCut, RamLost,
    NotServing, Spend, slot, stored, session, page, shared, imageWriter, counts, history
<1>9. CASE UNCHANGED vars
  BY <1>9 DEF IInv, TypeInv, PlaceTypes, Outside, InSession, Going, vars, slot, stored,
    session, page, shared, imageWriter, counts, history
<1>. QED  BY <1>1, <1>2, <1>3, <1>4, <1>5, <1>6, <1>7, <1>8, <1>9 DEF Next, App,
  Session, Page, Write

\* The image writer has one owner.
LEMMA OwnerStep ==
  ASSUME LoaderAssumption, IInv, [Next]_vars
  PROVE  OwnerInv'
<1>1. CASE Bootloader \/ AppBegin \/ AppBegun \/ EnterLoader
  BY <1>1 DEF IInv, TypeInv, PlaceTypes, OwnerInv, ImageInv, Outside, InSession, Going,
    Bootloader, NoRam, AppBegin, Step, AppBegun, EnterLoader, slot, stored, session,
    page, shared, imageWriter, counts, history
<1>2. CASE Cut \/ Checked \/ Verified \/ Undone
  BY <1>2 DEF IInv, TypeInv, PlaceTypes, OwnerInv, ImageInv, Outside, InSession, Going,
    Cut, WriterOnly, NoEnd, Spend, Checked, Verified, Undone, UndoneWith, slot, stored,
    session, page, shared, imageWriter, counts, history
<1>3. CASE NetInit \/ Leaving
  BY <1>3 DEF IInv, TypeInv, PlaceTypes, OwnerInv, ImageInv, Outside, InSession, Going,
    NetInit, NoTask, Leave, Stay, Leaving, LeavingWith, slot, stored, session, page,
    shared, imageWriter, counts, history
<1>4. CASE EnterUpdate
  BY <1>4 DEF IInv, TypeInv, PlaceTypes, OwnerInv, ImageInv, Outside, InSession, Going,
    EnterUpdate, NoRam, slot, stored, session, page, shared, imageWriter, counts,
    history
<1>5. CASE Load
  BY <1>5 DEF IInv, TypeInv, PlaceTypes, OwnerInv, ImageInv, Outside, InSession, Going,
    Load, Leave, Stay, slot, stored, session, page, shared, imageWriter, counts, history
<1>6. CASE UploadAsked
  BY <1>6 DEF IInv, TypeInv, PlaceTypes, OwnerInv, ImageInv, Outside, InSession, Going,
    UploadAsked, Listens, PageOnly, slot, stored, session, page, shared, imageWriter,
    counts, history
<1>7. CASE UploadTaken
  BY <1>7 DEF IInv, TypeInv, PlaceTypes, OwnerInv, ImageInv, Outside, InSession, Going,
    UploadTaken, UploadRefused, PageOnly, slot, stored, session, page, shared,
    imageWriter, counts, history
<1>8. CASE Back
  BY <1>8 DEF IInv, TypeInv, PlaceTypes, OwnerInv, ImageInv, Outside, InSession, Going,
    Back, Listens, PageOnly, slot, stored, session, page, shared, imageWriter, counts,
    history
<1>9. CASE Flush
  BY <1>9 DEF IInv, TypeInv, PlaceTypes, OwnerInv, ImageInv, Outside, InSession, Going,
    Flush, WriterOnly, NoEnd, Spend, slot, stored, session, page, shared, imageWriter,
    counts, history
<1>10. CASE Store \/ Drop \/ Restart \/ ServeEvents \/ ServeReturns \/ Push \/
            PushIdle \/ Pull
  BY <1>10 DEF IInv, TypeInv, PlaceTypes, OwnerInv, ImageInv, Outside, InSession, Going,
    Store, Step, StoreResult, NoTask, Drop, Restart, RamLost, NotServing, ServeEvents,
    ServeOnly, Leave, Stay, ServeReturns, Push, Serve, SessionOnly, Quiet, PushIdle,
    Pull, slot, stored, session, page, shared, imageWriter, counts, history
<1>11. CASE PullRefused \/ PullReady \/ Net \/ NetDown \/ PullLock \/ PullBefore \/
            PullFailed \/ PullDone
  BY <1>11 DEF IInv, TypeInv, PlaceTypes, OwnerInv, ImageInv, Outside, InSession, Going,
    PullRefused, StoreResult, Serve, SessionOnly, Quiet, PullReady, Step, Net, Leave,
    Stay, NetDown, PullLock, PullBefore, PullFailed, NextTry, PullDone, slot, stored,
    session, page, shared, imageWriter, counts, history
<1>12. CASE PowerCut
  BY <1>12 DEF IInv, TypeInv, PlaceTypes, OwnerInv, ImageInv, Outside, InSession, Going,
    PowerCut, RamLost, NotServing, Spend, slot, stored, session, page, shared,
    imageWriter, counts, history
<1>13. CASE UNCHANGED vars
  BY <1>13 DEF IInv, TypeInv, PlaceTypes, OwnerInv, ImageInv, Outside, InSession, Going,
    vars, slot, stored, session, page, shared, imageWriter, counts, history
<1>. QED  BY <1>1, <1>2, <1>3, <1>4, <1>5, <1>6, <1>7, <1>8, <1>9, <1>10, <1>11, <1>12,
  <1>13 DEF Next, App, Session, Page, Write

\* An image that is in stays in.
LEMMA ImageStep ==
  ASSUME LoaderAssumption, IInv, [Next]_vars
  PROVE  ImageInv'
<1>1. CASE Bootloader \/ AppBegin \/ AppBegun \/ EnterLoader \/ EnterUpdate
  BY <1>1, SlotSame DEF IInv, TypeInv, SlotTypes, PlaceTypes, OwnerInv, ImageInv, Outside,
    InSession, Going, Bootloader, NoRam, AppBegin, Step, AppBegun, EnterLoader,
    EnterUpdate, slot, stored, session, page, shared, imageWriter, counts, history
<1>8. CASE Load \/ NetInit
  <2>1. UNCHANGED <<slot, stage, writer, fresh, imageIn>>
    BY <1>8 DEF Load, NetInit, NoTask, stored, shared, imageWriter, history
  <2>. QED  BY <2>1, SlotSame DEF IInv, ImageInv, slot
<1>2. CASE Store \/ Drop \/ Restart \/ ServeEvents \/ ServeReturns \/ Push \/
           PushIdle \/ Pull
  BY <1>2, SlotSame DEF IInv, TypeInv, SlotTypes, PlaceTypes, OwnerInv, ImageInv,
    Outside, InSession, Going, Store, Step, StoreResult, NoTask, Drop, Restart, RamLost,
    NotServing, ServeEvents, ServeOnly, Leave, Stay, ServeReturns, Push, Serve,
    SessionOnly, Quiet, PushIdle, Pull, slot, stored, session, page, shared,
    imageWriter, counts, history
<1>3. CASE PullRefused \/ PullReady \/ Net \/ NetDown \/ PullLock \/ PullBefore \/
           PullFailed \/ PullDone
  BY <1>3, SlotSame DEF IInv, TypeInv, SlotTypes, PlaceTypes, OwnerInv, ImageInv,
    Outside, InSession, Going, PullRefused, StoreResult, Serve, SessionOnly, Quiet,
    PullReady, Step, Net, Leave, Stay, NetDown, PullLock, PullBefore, PullFailed,
    NextTry, PullDone, slot, stored, session, page, shared, imageWriter, counts, history
<1>4. CASE UploadAsked \/ UploadTaken \/ Back \/ Flush \/ Cut \/ Checked \/ Verified \/
           Undone
  BY <1>4, SlotSame DEF IInv, TypeInv, SlotTypes, PlaceTypes, OwnerInv, ImageInv,
    Outside, InSession, Going, UploadAsked, Listens, PageOnly, UploadTaken,
    UploadRefused, Back, Flush, WriterOnly, NoEnd, Spend, Cut, Checked, Verified,
    Undone, UndoneWith, slot, stored, session, page, shared, imageWriter, counts,
    history
<1>5. CASE PowerCut
  BY <1>5, SlotSame DEF IInv, TypeInv, SlotTypes, PlaceTypes, OwnerInv, ImageInv,
    Outside, InSession, Going, PowerCut, RamLost, NotServing, Spend, slot, stored,
    session, page, shared, imageWriter, counts, history
<1>6. CASE UNCHANGED vars
  BY <1>6, SlotSame DEF IInv, TypeInv, SlotTypes, PlaceTypes, OwnerInv, ImageInv,
    Outside, InSession, Going, vars, slot, stored, session, page, shared, imageWriter,
    counts, history
<1>7. CASE Leaving
  <2>1. UNCHANGED <<page, writer, imageWriter, updates, wanted, fresh, seen, crashed>>
    BY <1>7 DEF Leaving, LeavingWith
  <2>2. UNCHANGED slot
    BY <1>7 DEF Leaving, LeavingWith
  <2>3. imageIn' => imageIn
    BY Zenon, <1>7 DEF Leaving, LeavingWith
  <2>. QED  BY <2>1, <2>2, <2>3, SlotSame DEF IInv, ImageInv, slot, imageWriter
<1>. QED  BY <1>1, <1>2, <1>3, <1>4, <1>5, <1>6, <1>7, <1>8 DEF Next, App, Session, Page, Write

\* The session hears of no image that is not in.
LEMMA DoneStep ==
  ASSUME LoaderAssumption, IInv, [Next]_vars
  PROVE  DoneInv'
<1>1. CASE Bootloader \/ AppBegin \/ AppBegun \/ EnterLoader \/ EnterUpdate
  BY <1>1, SlotSame DEF IInv, TypeInv, PlaceTypes, OwnerInv, ImageInv, DoneInv, Outside,
    InSession, Going, Bootloader, NoRam, AppBegin, Step, AppBegun, EnterLoader,
    EnterUpdate, slot, stored, session, page, shared, imageWriter, counts, history
<1>8. CASE Load \/ NetInit
  BY <1>8, SlotSame DEF IInv, TypeInv, PlaceTypes, OwnerInv, ImageInv, DoneInv, Outside,
    InSession, Going, Load, Leave, Stay, NetInit, NoTask, slot, stored, page, shared,
    imageWriter, counts, history
<1>2. CASE Store \/ Drop \/ Restart \/ ServeEvents \/ ServeReturns \/ Push \/
           PushIdle \/ Pull
  BY <1>2 DEF IInv, TypeInv, PlaceTypes, OwnerInv, ImageInv, DoneInv, Outside,
    InSession, Going, Store, Step, StoreResult, NoTask, Drop, Restart, RamLost,
    NotServing, ServeEvents, ServeOnly, Leave, Stay, ServeReturns, Push, Serve,
    SessionOnly, Quiet, PushIdle, Pull, slot, stored, session, page, shared,
    imageWriter, counts, history
<1>3. CASE PullRefused \/ PullReady \/ Net \/ NetDown \/ PullLock \/ PullBefore \/
           PullFailed \/ PullDone
  BY <1>3 DEF IInv, TypeInv, PlaceTypes, OwnerInv, ImageInv, DoneInv, Outside,
    InSession, Going, PullRefused, StoreResult, Serve, SessionOnly, Quiet, PullReady,
    Step, Net, Leave, Stay, NetDown, PullLock, PullBefore, PullFailed, NextTry,
    PullDone, slot, stored, session, page, shared, imageWriter, counts, history
<1>4. CASE UploadAsked \/ UploadTaken \/ Back \/ Flush \/ Cut \/ Checked \/ Verified \/
           Undone
  BY <1>4 DEF IInv, TypeInv, PlaceTypes, OwnerInv, ImageInv, DoneInv, Outside,
    InSession, Going, UploadAsked, Listens, PageOnly, UploadTaken, UploadRefused, Back,
    Flush, WriterOnly, NoEnd, Spend, Cut, Checked, Verified, Undone, UndoneWith, slot,
    stored, session, page, shared, imageWriter, counts, history
<1>5. CASE PowerCut
  BY <1>5 DEF IInv, TypeInv, PlaceTypes, OwnerInv, ImageInv, DoneInv, Outside,
    InSession, Going, PowerCut, RamLost, NotServing, Spend, slot, stored, session, page,
    shared, imageWriter, counts, history
<1>6. CASE UNCHANGED vars
  BY <1>6 DEF IInv, TypeInv, PlaceTypes, OwnerInv, ImageInv, DoneInv, Outside,
    InSession, Going, vars, slot, stored, session, page, shared, imageWriter, counts,
    history
<1>7. CASE Leaving
  <2>1. pc = "leave" /\ (pc' = "store" \/ pc' = then)
    BY <1>7 DEF Leaving, LeavingWith
  <2>2. events' = events /\ out' = out
    BY <1>7 DEF Leaving, LeavingWith
  <2>3. imageIn /\ ~imageIn' => out = "ok" /\ pc' = then
    BY Zenon, <1>7 DEF Leaving, LeavingWith
  <2>4. then # "pulled" /\ then # "leave" /\ then # "store"
    BY DEF IInv, TypeInv, PlaceTypes, InSession
  <2>. QED  BY ZenonT(30), <2>1, <2>2, <2>3, <2>4 DEF IInv, DoneInv
<1>. QED  BY <1>1, <1>2, <1>3, <1>4, <1>5, <1>6, <1>7, <1>8 DEF Next, App, Session, Page, Write

\* "ok" reaches the app that went in.
LEMMA ResultStep ==
  ASSUME LoaderAssumption, IInv, [Next]_vars
  PROVE  ResultInv'
<1>1. CASE Bootloader \/ AppBegin \/ AppBegun \/ EnterLoader \/ EnterUpdate \/ Load \/
           NetInit \/ Leaving
  BY ZenonT(60), <1>1, SlotSame DEF IInv, TypeInv, PlaceTypes, OwnerInv, ImageInv, DoneInv,
    ResultInv, GoingInv, Outside, InSession, Going, Bootloader, NoRam, AppBegin, Step,
    AppBegun, EnterLoader, EnterUpdate, Load, Leave, Stay, NetInit, NoTask, Leaving,
    LeavingWith, slot, stored, session, page, shared, imageWriter, counts, history
<1>2. CASE Store \/ Drop \/ Restart \/ ServeEvents \/ ServeReturns \/ Push \/
           PushIdle \/ Pull
  BY <1>2, SlotSame DEF IInv, TypeInv, PlaceTypes, OwnerInv, ImageInv, DoneInv,
    ResultInv, GoingInv, Outside, InSession, Going, Store, Step, StoreResult, NoTask,
    Drop, Restart, RamLost, NotServing, ServeEvents, ServeOnly, Leave, Stay,
    ServeReturns, Push, Serve, SessionOnly, Quiet, PushIdle, Pull, slot, stored,
    session, page, shared, imageWriter, counts, history
<1>3. CASE PullRefused \/ PullReady \/ Net \/ NetDown \/ PullLock \/ PullBefore \/
           PullFailed \/ PullDone
  BY <1>3, SlotSame DEF IInv, TypeInv, PlaceTypes, OwnerInv, ImageInv, DoneInv,
    ResultInv, GoingInv, Outside, InSession, Going, PullRefused, StoreResult, Serve,
    SessionOnly, Quiet, PullReady, Step, Net, Leave, Stay, NetDown, PullLock,
    PullBefore, PullFailed, NextTry, PullDone, slot, stored, session, page, shared,
    imageWriter, counts, history
<1>4. CASE UploadAsked \/ UploadTaken \/ Back \/ Flush \/ Cut \/ Checked \/ Verified \/
           Undone
  BY <1>4, SlotSame DEF IInv, TypeInv, PlaceTypes, OwnerInv, ImageInv, DoneInv,
    ResultInv, GoingInv, Outside, InSession, Going, UploadAsked, Listens, PageOnly,
    UploadTaken, UploadRefused, Back, Flush, WriterOnly, NoEnd, Spend, Cut, Checked,
    Verified, Undone, UndoneWith, slot, stored, session, page, shared, imageWriter,
    counts, history
<1>5. CASE PowerCut
  BY <1>5, SlotSame DEF IInv, TypeInv, PlaceTypes, OwnerInv, ImageInv, DoneInv,
    ResultInv, GoingInv, Outside, InSession, Going, PowerCut, RamLost, NotServing,
    Spend, slot, stored, session, page, shared, imageWriter, counts, history
<1>6. CASE UNCHANGED vars
  BY <1>6, SlotSame DEF IInv, TypeInv, PlaceTypes, OwnerInv, ImageInv, DoneInv,
    ResultInv, GoingInv, Outside, InSession, Going, vars, slot, stored, session, page,
    shared, imageWriter, counts, history
<1>. QED  BY <1>1, <1>2, <1>3, <1>4, <1>5, <1>6 DEF Next, App, Session, Page, Write

\* A session on its way out leaves a slot that boots.
LEMMA GoingStep ==
  ASSUME LoaderAssumption, IInv, [Next]_vars
  PROVE  GoingInv'
<1>1. CASE Bootloader \/ AppBegin \/ AppBegun \/ EnterLoader \/ EnterUpdate \/ Load \/
           NetInit \/ Leaving
  BY <1>1, SlotSame DEF IInv, TypeInv, PlaceTypes, OwnerInv, ImageInv, GoingInv,
    Outside, InSession, Going, Bootloader, NoRam, AppBegin, Step, AppBegun, EnterLoader,
    EnterUpdate, Load, Leave, Stay, NetInit, NoTask, Leaving, LeavingWith, slot, stored,
    session, page, shared, imageWriter, counts, history
<1>2. CASE Store \/ Drop \/ Restart \/ ServeEvents \/ ServeReturns \/ Push \/
           PushIdle \/ Pull
  BY <1>2, SlotSame DEF IInv, TypeInv, PlaceTypes, OwnerInv, ImageInv, GoingInv,
    Outside, InSession, Going, Store, Step, StoreResult, NoTask, Drop, Restart, RamLost,
    NotServing, ServeEvents, ServeOnly, Leave, Stay, ServeReturns, Push, Serve,
    SessionOnly, Quiet, PushIdle, Pull, slot, stored, session, page, shared,
    imageWriter, counts, history
<1>3. CASE PullRefused \/ PullReady \/ Net \/ NetDown \/ PullLock \/ PullBefore \/
           PullFailed \/ PullDone
  BY <1>3, SlotSame DEF IInv, TypeInv, PlaceTypes, OwnerInv, ImageInv, GoingInv,
    Outside, InSession, Going, PullRefused, StoreResult, Serve, SessionOnly, Quiet,
    PullReady, Step, Net, Leave, Stay, NetDown, PullLock, PullBefore, PullFailed,
    NextTry, PullDone, slot, stored, session, page, shared, imageWriter, counts, history
<1>4. CASE UploadAsked \/ UploadTaken \/ Back \/ Flush \/ Cut \/ Checked \/ Verified \/
           Undone
  BY <1>4, SlotSame DEF IInv, TypeInv, PlaceTypes, OwnerInv, ImageInv, GoingInv,
    Outside, InSession, Going, UploadAsked, Listens, PageOnly, UploadTaken,
    UploadRefused, Back, Flush, WriterOnly, NoEnd, Spend, Cut, Checked, Verified,
    Undone, UndoneWith, slot, stored, session, page, shared, imageWriter, counts,
    history
<1>5. CASE PowerCut
  BY <1>5, SlotSame DEF IInv, TypeInv, PlaceTypes, OwnerInv, ImageInv, GoingInv,
    Outside, InSession, Going, PowerCut, RamLost, NotServing, Spend, slot, stored,
    session, page, shared, imageWriter, counts, history
<1>6. CASE UNCHANGED vars
  BY <1>6, SlotSame DEF IInv, TypeInv, PlaceTypes, OwnerInv, ImageInv, GoingInv,
    Outside, InSession, Going, vars, slot, stored, session, page, shared, imageWriter,
    counts, history
<1>. QED  BY <1>1, <1>2, <1>3, <1>4, <1>5, <1>6 DEF Next, App, Session, Page, Write

\* The handoff is dropped only for an app.
LEMMA HandoffStep ==
  ASSUME LoaderAssumption, IInv, [Next]_vars
  PROVE  HandoffInv'
<1>1. CASE Bootloader \/ AppBegin \/ AppBegun \/ EnterLoader \/ EnterUpdate \/ Load \/
           NetInit \/ Leaving
  BY ZenonT(60), <1>1, SlotSame DEF IInv, TypeInv, NvsTypes, PlaceTypes, OwnerInv, ImageInv,
    GoingInv, HandoffInv, Outside, InSession, Going, Bootloader, NoRam, AppBegin, Step,
    AppBegun, EnterLoader, EnterUpdate, Load, Leave, Stay, NetInit, NoTask, Leaving,
    LeavingWith, slot, stored, session, page, shared, imageWriter, counts, history
<1>2. CASE Store \/ Drop \/ Restart \/ ServeEvents \/ ServeReturns \/ Push \/
           PushIdle \/ Pull
  BY <1>2, SlotSame DEF IInv, TypeInv, NvsTypes, PlaceTypes, OwnerInv, ImageInv,
    GoingInv, HandoffInv, Outside, InSession, Going, Store, Step, StoreResult, NoTask,
    Drop, Restart, RamLost, NotServing, ServeEvents, ServeOnly, Leave, Stay,
    ServeReturns, Push, Serve, SessionOnly, Quiet, PushIdle, Pull, slot, stored,
    session, page, shared, imageWriter, counts, history
<1>3. CASE PullRefused \/ PullReady \/ Net \/ NetDown \/ PullLock \/ PullBefore \/
           PullFailed \/ PullDone
  BY <1>3, SlotSame DEF IInv, TypeInv, NvsTypes, PlaceTypes, OwnerInv, ImageInv,
    GoingInv, HandoffInv, Outside, InSession, Going, PullRefused, StoreResult, Serve,
    SessionOnly, Quiet, PullReady, Step, Net, Leave, Stay, NetDown, PullLock,
    PullBefore, PullFailed, NextTry, PullDone, slot, stored, session, page, shared,
    imageWriter, counts, history
<1>4. CASE UploadAsked \/ UploadTaken \/ Back \/ Flush \/ Cut \/ Checked \/ Verified \/
           Undone
  BY <1>4, SlotSame DEF IInv, TypeInv, NvsTypes, PlaceTypes, OwnerInv, ImageInv,
    GoingInv, HandoffInv, Outside, InSession, Going, UploadAsked, Listens, PageOnly,
    UploadTaken, UploadRefused, Back, Flush, WriterOnly, NoEnd, Spend, Cut, Checked,
    Verified, Undone, UndoneWith, slot, stored, session, page, shared, imageWriter,
    counts, history
<1>5. CASE PowerCut
  BY <1>5, SlotSame DEF IInv, TypeInv, NvsTypes, PlaceTypes, OwnerInv, ImageInv,
    GoingInv, HandoffInv, Outside, InSession, Going, PowerCut, RamLost, NotServing,
    Spend, slot, stored, session, page, shared, imageWriter, counts, history
<1>6. CASE UNCHANGED vars
  BY <1>6, SlotSame DEF IInv, TypeInv, NvsTypes, PlaceTypes, OwnerInv, ImageInv,
    GoingInv, HandoffInv, Outside, InSession, Going, vars, slot, stored, session, page,
    shared, imageWriter, counts, history
<1>. QED  BY <1>1, <1>2, <1>3, <1>4, <1>5, <1>6 DEF Next, App, Session, Page, Write


\* The invariant holds on a device with its first app,
LEMMA LoaderInit ==
  ASSUME LoaderAssumption, Init
  PROVE  IInv
<1>1. TypeInv
  BY DEF LoaderAssumption, Init, RamInit, NotServing, TypeInv, SlotTypes, NvsTypes, PlaceTypes,
    Outcomes, Outside, InSession
<1>2. OwnerInv /\ ImageInv /\ DoneInv
  BY DEF Init, RamInit, OwnerInv, ImageInv, DoneInv
<1>3. ResultInv /\ GoingInv /\ HandoffInv
  BY DEF Init, RamInit, ResultInv, GoingInv, HandoffInv, Going
<1>. QED  BY <1>1, <1>2, <1>3 DEF IInv

\* is kept by every step of the app, the session, the page and the power,
LEMMA LoaderNext ==
  ASSUME LoaderAssumption, IInv, [Next]_vars
  PROVE  IInv'
<1>. QED  BY SlotTypesStep, NvsTypesStep, PlaceTypesStep, OwnerStep, ImageStep, DoneStep,
  ResultStep, GoingStep, HandoffStep DEF IInv, TypeInv

\* and says what the update promises.
LEMMA LoaderGives ==
  ASSUME IInv
  PROVE  TypeOK /\ OnlyCheckedBoots /\ ImageKept /\ HandoffKept /\ OkIsTrue
<1>1. TypeOK
  BY DEF IInv, TypeInv, SlotTypes, NvsTypes, OwnerInv, TypeOK
<1>2. OnlyCheckedBoots
  BY DEF IInv, TypeInv, SlotTypes, SlotBoots, Boots, OnlyCheckedBoots
<1>3. ImageKept
  BY DEF IInv, ImageInv, ImageKept
<1>4. HandoffKept
  BY DEF IInv, HandoffInv, HandoffKept
<1>5. OkIsTrue
  BY DEF IInv, ResultInv, OkIsTrue
<1>. QED  BY <1>1, <1>2, <1>3, <1>4, <1>5

THEOREM UpdateHonest ==
  ASSUME LoaderAssumption
  PROVE  Spec => [](TypeOK /\ OnlyCheckedBoots /\ ImageKept /\ HandoffKept /\ OkIsTrue)
<1>1. Init => IInv
  BY LoaderInit
<1>2. IInv /\ [Next]_vars => IInv'
  BY LoaderNext
<1>3. IInv => TypeOK /\ OnlyCheckedBoots /\ ImageKept /\ HandoffKept /\ OkIsTrue
  BY LoaderGives
<1>. QED  BY <1>1, <1>2, <1>3, PTL DEF Spec
==============================================================================
