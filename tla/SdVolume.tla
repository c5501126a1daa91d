------------------------------ MODULE SdVolume ------------------------------
(***************************************************************************)
(* The SD card under the file manager: a task that tries to mount it, the  *)
(* format task, and the two background jobs (the archive's walk and the    *)
(* hash), each with one job record that the web task sets up, asks about   *)
(* and cancels while the job's own task works on it.                       *)
(***************************************************************************)
EXTENDS Naturals, FiniteSets

CONSTANTS
  Tries,     \* mount attempts of a watcher (5)
  Entries,   \* entries on the card
  MaxJobs,   \* bound: archive and hash jobs started
  MaxFormats \* bound: formats asked for

Jobs == {"archive", "hash"}

VARIABLES
  mounted,   \* _mounted
  watcher,   \* the mount task: [at, tries]
  owed,      \* a mount was answered "starting" and not tried since (history)
  format,    \* the format tasks: [at, left] per task
  said,      \* _formatState
  onCard,    \* entries left on the card
  state,     \* each job's state
  cancel,    \* cancelRequested
  tasks,     \* tasks still at work on each job's record
  tails,     \* those that have set the state and log what the record says of it
  stream,    \* the TarStream is there
  filling,   \* responses that read from it
  started    \* jobs started

sd == <<mounted, watcher, owed>>
fmt == <<format, said, onCard>>
job == <<state, cancel, tasks, tails, stream, filling, started>>
vars == <<sd, fmt, job>>

Formats == 1..MaxFormats
NoTask == [at |-> "none", left |-> 0]

Init ==
  /\ mounted = FALSE /\ watcher = [at |-> "try", tries |-> 1] /\ owed = TRUE
  /\ format = [f \in Formats |-> NoTask] /\ said = "idle" /\ onCard = Entries
  /\ state = [j \in Jobs |-> "idle"] /\ cancel = [j \in Jobs |-> FALSE]
  /\ tasks = [j \in Jobs |-> 0] /\ tails = [j \in Jobs |-> 0]
  /\ stream = FALSE /\ filling = 0 /\ started = 0

-----------------------------------------------------------------------------
(* Mount and unmount. *)

\* mountAsync(): one watcher; while one runs a further ask is its business.
Mount ==
  /\ ~mounted
  /\ IF watcher.at = "none" THEN watcher' = [at |-> "try", tries |-> 1] ELSE UNCHANGED watcher
  /\ owed' = TRUE
  /\ UNCHANGED <<mounted, fmt, job>>

Try ==
  /\ watcher.at = "try"
  /\ owed' = FALSE
  /\ \/ mounted' = TRUE /\ watcher' = [watcher EXCEPT !.at = "debris"]
     \/ ~mounted /\ UNCHANGED mounted
        /\ watcher' = IF watcher.tries < Tries THEN [watcher EXCEPT !.tries = @ + 1]
                      ELSE [watcher EXCEPT !.at = "none"]
  /\ UNCHANGED <<fmt, job>>

\* purgeUploadDebris() takes as long as the card has files.
Watched ==
  /\ watcher.at = "debris" /\ watcher' = [at |-> "none", tries |-> 1]
  /\ UNCHANGED <<mounted, owed, fmt, job>>

Unmount == mounted /\ mounted' = FALSE /\ owed' = FALSE /\ UNCHANGED <<watcher, fmt, job>>

-----------------------------------------------------------------------------
(* Format: all entries are counted, listed and removed, on a task per ask. *)

Format(f) ==
  /\ mounted /\ format[f].at = "none" /\ (f > 1 => format[f - 1].at # "none")
  /\ format' = [format EXCEPT ![f].at = "count"]
  /\ UNCHANGED <<said, onCard, sd, job>>

Count(f) ==
  /\ format[f].at = "count"
  /\ IF mounted THEN said' = "counting" /\ format' = [format EXCEPT ![f].at = "list"]
     ELSE said' = "error" /\ format' = [format EXCEPT ![f].at = "over"]
  /\ UNCHANGED <<onCard, sd, job>>

\* A card taken out meanwhile has no root: nothing to remove.
List(f) ==
  /\ format[f].at = "list"
  /\ format' = [format EXCEPT ![f] = [at |-> "remove", left |-> IF mounted THEN onCard ELSE 0]]
  /\ said' = "running"
  /\ UNCHANGED <<onCard, sd, job>>

RemoveEntry(f) ==
  /\ format[f].at = "remove"
  /\ IF format[f].left = 0
     THEN said' = "done" /\ format' = [format EXCEPT ![f].at = "over"] /\ UNCHANGED onCard
     ELSE /\ format' = [format EXCEPT ![f].left = @ - 1]
          /\ onCard' = IF mounted /\ onCard > 0 THEN onCard - 1 ELSE onCard
          /\ UNCHANGED said
  /\ UNCHANGED <<sd, job>>

-----------------------------------------------------------------------------
(* The jobs. *)

\* Fault: an archive may be prepared again while one is sent.
Busy_Sending(j) == state[j] = "running"
Busy(j) == state[j] \in {"running", "streaming"}

Start(j) ==
  /\ mounted /\ ~Busy(j) /\ started < MaxJobs /\ started' = started + 1
  /\ cancel' = [cancel EXCEPT ![j] = FALSE]
  /\ stream' = IF j = "archive" THEN FALSE ELSE stream
  /\ \/ state' = [state EXCEPT ![j] = "running"] /\ tasks' = [tasks EXCEPT ![j] = @ + 1]
     \/ state' = [state EXCEPT ![j] = "error"] /\ UNCHANGED tasks   \* no task to be had
  /\ UNCHANGED <<tails, filling, sd, fmt>>

\* The job's task sees the cancel between two entries; its last step is its state.  (So
\* it is after a failure; a job that is done logs what it found once that is set.)
Cancelled(j) ==
  /\ tasks[j] > 0 /\ cancel[j]
  /\ state' = [state EXCEPT ![j] = IF j = "archive" THEN "error" ELSE "idle"]
  /\ tasks' = [tasks EXCEPT ![j] = @ - 1]
  /\ UNCHANGED <<cancel, tails, stream, filling, started, sd, fmt>>

Finish(j) ==
  /\ tasks[j] > 0
  /\ tasks' = [tasks EXCEPT ![j] = @ - 1]
  /\ \/ /\ state' = [state EXCEPT ![j] = IF j = "archive" THEN "ready" ELSE "done"]
        /\ tails' = [tails EXCEPT ![j] = @ + 1]
     \/ state' = [state EXCEPT ![j] = "error"] /\ UNCHANGED tails
  /\ UNCHANGED <<cancel, stream, filling, started, sd, fmt>>

TailEnds(j) ==
  /\ tails[j] > 0 /\ tails' = [tails EXCEPT ![j] = @ - 1]
  /\ UNCHANGED <<state, cancel, tasks, stream, filling, started, sd, fmt>>

\* A cancel only asks the task; an archive that is ready is dropped.
\* Fault: the job is given up while its task still works.
Cancel_Idle(j) ==
  /\ state[j] \in {"running", "ready"}
  /\ state' = [state EXCEPT ![j] = "idle"] /\ cancel' = [cancel EXCEPT ![j] = TRUE]
  /\ UNCHANGED <<tasks, tails, stream, filling, started, sd, fmt>>
Cancel(j) ==
  /\ \/ state[j] = "running" /\ cancel' = [cancel EXCEPT ![j] = TRUE] /\ UNCHANGED state
     \/ state[j] = "ready" /\ state' = [state EXCEPT ![j] = "idle"] /\ UNCHANGED cancel
  /\ UNCHANGED <<tasks, tails, stream, filling, started, sd, fmt>>

Download ==
  /\ state["archive"] = "ready"
  /\ state' = [state EXCEPT !["archive"] = "streaming"]
  /\ stream' = TRUE /\ filling' = filling + 1
  /\ UNCHANGED <<cancel, tasks, tails, started, sd, fmt>>

\* onDisconnect of the download: the stream goes with it.
Disconnect ==
  /\ filling > 0 /\ filling' = filling - 1
  /\ stream' = FALSE /\ state' = [state EXCEPT !["archive"] = "idle"]
  /\ UNCHANGED <<cancel, tasks, tails, started, sd, fmt>>

Next ==
  \/ Mount \/ Try \/ Watched \/ Unmount \/ Download \/ Disconnect
  \/ \E f \in Formats : Format(f) \/ Count(f) \/ List(f) \/ RemoveEntry(f)
  \/ \E j \in Jobs : Start(j) \/ Cancelled(j) \/ Finish(j) \/ TailEnds(j) \/ Cancel(j)

Spec == Init /\ [][Next]_vars

TypeOK ==
  /\ {mounted, owed, stream} \subseteq BOOLEAN /\ watcher.at \in {"none", "try", "debris"}
  /\ onCard \in 0..Entries /\ said \in {"idle", "counting", "running", "done", "error"}
  /\ \A j \in Jobs : tails[j] \in 0..MaxJobs
  /\ \A j \in Jobs : state[j] \in {"idle", "running", "ready", "streaming", "done", "error"}

\* One task works on a job's record: a cancel, a new start and a finish in any order never
\* leave two of them on it (handleArchivePrepare and hashTask's "single hash job at a time").
\* A task that has set "ready" or "done" only reads on, for its last log line: a new start
\* may come before that (FileSystemService.cpp:1053-1055, 1268-1269).
OneTask == \A j \in Jobs : tasks[j] <= 1 /\ (tasks[j] = 1 => state[j] = "running")

\* The response that sends the archive reads from the stream until it goes (the fill callback
\* keeps the bare pointer).
StreamKept == filling > 0 => stream /\ filling = 1

\* "UI re-checks /volumes and will see mounted: true once the watcher succeeds": a mount
\* that was answered "starting" has a watcher that will try it.
MountTried == owed => watcher.at = "try"
=============================================================================
