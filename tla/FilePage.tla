------------------------------ MODULE FilePage ------------------------------
(* The file manager's page (ui/src/components/dynamic-component/elements/        *)
(* FilesField.tsx, ui/src/api/fs.ts): the listing of the folder shown, changed    *)
(* by writes that the device may queue, and an upload into a folder it makes.     *)
(* Answers come in any order and the user goes elsewhere meanwhile.               *)
EXTENDS Naturals, FiniteSets

CONSTANTS
    Dirs, First, \* folders, and the one the page opens on
    MaxOps,     \* writes (bound)
    MaxMoves,   \* times the user goes to another folder (bound)
    MaxForgets  \* restarts of the device, which forget its writes (bound)

VARIABLES
    path,       \* currentPathRef: the folder shown
    rows,       \* entries: the folder they are of and its revision then
    seq,        \* reloadSeqRef
    asks,       \* listings under way: folder, number, revision read (0: not yet)
    rev,        \* on the device: a folder's revision
    ops,        \* writes: kind, folder, where the device and the page are with each
    up,         \* bulkUpload(): where it is, its write
    moves, forgets

vars == <<path, rows, seq, asks, rev, ops, up, moves, forgets>>

Root == "/"
Id == 1..MaxOps
Free == [kind |-> "none"]
Idle == [at |-> "idle"]
\* "over": the page knows how the write ended; "lost": it gave up on it
Waiting(o) == ops[o] # Free /\ ops[o].page \notin {"over", "lost"}

Init ==
    /\ path = First /\ rev = [d \in Dirs |-> 1]
    /\ rows = [dir |-> Root, rev |-> 0]
    /\ seq = 1 /\ asks = {[dir |-> path, seq |-> 1, rev |-> 0]}
    /\ ops = [o \in Id |-> Free] /\ up = Idle
    /\ moves = 0 /\ forgets = 0

\* reloadDir(d) with p the folder shown
Reload(d) ==
    /\ seq' = seq + 1
    /\ IF d = Root THEN rows' = [dir |-> Root, rev |-> 0] /\ asks' = asks
       ELSE rows' = rows /\ asks' = asks \cup {[dir |-> d, seq |-> seq + 1, rev |-> 0]}

Current_Started(o) == ops[o].dir
Current(o) == path

Navigate(d) ==
    /\ moves < MaxMoves /\ d # path /\ moves' = moves + 1
    /\ path' = d /\ Reload(d)
    /\ UNCHANGED <<rev, ops, up, forgets>>

\* the device reads the folder
Listed(a) ==
    /\ a.rev = 0
    /\ asks' = (asks \ {a}) \cup {[a EXCEPT !.rev = rev[a.dir]]}
    /\ UNCHANGED <<path, rows, seq, rev, ops, up, moves, forgets>>

StillWanted_Any(a) == TRUE
StillWanted(a) == a.seq = seq /\ a.dir = path

\* it fails: an error, and no rows (revision 0)
Fails(a) ==
    /\ asks' = asks \ {a}
    /\ rows' = IF StillWanted(a) THEN [dir |-> a.dir, rev |-> 0] ELSE rows
    /\ UNCHANGED <<path, seq, rev, ops, up, moves, forgets>>

Lands(a) ==
    /\ a.rev # 0 /\ asks' = asks \ {a}
    /\ rows' = IF StillWanted(a) THEN [dir |-> a.dir, rev |-> a.rev] ELSE rows
    /\ UNCHANGED <<path, seq, rev, ops, up, moves, forgets>>

New(o) == ops[o] = Free /\ \A p \in 1..(o - 1) : ops[p] # Free

\* doMkdir(), doRename(), doDelete(): in the folder shown
Write(o) ==
    /\ New(o) /\ path # Root
    /\ ops' = [ops EXCEPT ![o] = [kind |-> "row", dir |-> path, device |-> "asked", page |-> "asks"]]
    /\ UNCHANGED <<path, rows, seq, asks, rev, up, moves, forgets>>

\* bulkUpload(): the folder first, the files into it once the write has settled
Upload(o) ==
    /\ New(o) /\ path # Root /\ up = Idle
    /\ ops' = [ops EXCEPT ![o] = [kind |-> "bulk", dir |-> path, device |-> "asked", page |-> "asks"]]
    /\ up' = [at |-> "mkdir", op |-> o]
    /\ UNCHANGED <<path, rows, seq, asks, rev, moves, forgets>>

Changes(o) == rev' = [rev EXCEPT ![ops[o].dir] = @ + 1]

\* settleWrite() returns or throws; what its caller does next
Leaves(o, page, device, again) ==
    /\ ops' = [ops EXCEPT ![o].page = page, ![o].device = device]
    /\ IF ops[o].kind = "bulk"
       THEN up' = [up EXCEPT !.at = "send"] /\ UNCHANGED <<seq, rows, asks>>
       ELSE /\ up' = up
            /\ IF again THEN Reload(Current(o)) ELSE UNCHANGED <<seq, rows, asks>>
Settled(o, device, again) == Leaves(o, "over", device, again)

\* the device answers: done, refused, or queued (its flash is busy)
Asked(o) == ops[o] # Free /\ ops[o].device = "asked"

Done(o) ==
    /\ Asked(o) /\ Changes(o) /\ Settled(o, "ended", TRUE)
    /\ UNCHANGED <<path, moves, forgets>>

Refused(o) ==
    /\ Asked(o) /\ Settled(o, "ended", FALSE)
    /\ UNCHANGED <<path, rev, moves, forgets>>

\* the answer is lost, with the write done or queued: an error to the page
AnswerLost(o) ==
    /\ Asked(o)
    /\ \/ Changes(o) /\ Leaves(o, "lost", "done", FALSE)
       \/ rev' = rev /\ Leaves(o, "lost", "queued", FALSE)
    /\ UNCHANGED <<path, moves, forgets>>

Queued_Done(o) ==
    /\ Asked(o) /\ Settled(o, "queued", TRUE)
    /\ UNCHANGED <<path, rev, moves, forgets>>
Queued(o) ==
    /\ Asked(o)
    /\ ops' = [ops EXCEPT ![o].device = "queued", ![o].page = "polls"]
    /\ UNCHANGED <<path, rows, seq, asks, rev, up, moves, forgets>>

\* the device's flash writer gets to it, or it fails there
Run(o) ==
    /\ ops[o] # Free /\ ops[o].device = "queued"
    /\ \/ Changes(o) /\ ops' = [ops EXCEPT ![o].device = "done"]
       \/ rev' = rev /\ ops' = [ops EXCEPT ![o].device = "failed"]
    /\ UNCHANGED <<path, rows, seq, asks, up, moves, forgets>>

Held(o) == ops[o] # Free /\ (ops[o].page = "polls" \/ ops[o].device = "queued")
Forget ==
    /\ forgets < MaxForgets /\ forgets' = forgets + 1
    /\ \E o \in Id : Held(o)
    /\ ops' = [o \in Id |-> IF Held(o) THEN [ops[o] EXCEPT !.device = "unknown"] ELSE ops[o]]
    /\ UNCHANGED <<path, rows, seq, asks, rev, up, moves>>

\* a poll of the write's status that tells its end
Poll(o) ==
    /\ ops[o] # Free /\ ops[o].page = "polls" /\ ops[o].device # "queued"
    /\ Settled(o, "ended", ops[o].device \in {"done", "unknown"})
    /\ UNCHANGED <<path, rev, moves, forgets>>

\* a poll fails otherwise than with 503 (asked again) or 404 (forgotten): settleWrite()
\* throws, with the write still on the device's hands; a row's is not listed again, and
\* a folder's is ignored
PollFails(o) ==
    /\ ops[o] # Free /\ ops[o].page = "polls"
    /\ Leaves(o, "lost", ops[o].device, FALSE)
    /\ UNCHANGED <<path, rev, moves, forgets>>

\* the files are sent (one that fails changes nothing), the listing is read again
Sent ==
    /\ up.at = "send"
    /\ rev' = [rev EXCEPT ![ops[up.op].dir] = @ + 1]
    /\ up' = Idle /\ Reload(Current(up.op))
    /\ UNCHANGED <<path, ops, moves, forgets>>

Next ==
    \/ \E d \in Dirs \cup {Root} : Navigate(d)
    \/ \E a \in asks : Listed(a) \/ Fails(a) \/ Lands(a)
    \/ \E o \in Id : Write(o) \/ Upload(o)
    \/ \E o \in Id : Done(o) \/ Refused(o) \/ AnswerLost(o) \/ Queued(o) \/ Run(o)
    \/ \E o \in Id : Poll(o) \/ PollFails(o)
    \/ Forget \/ Sent

Spec == Init /\ [][Next]_vars

TypeOK ==
    /\ path \in Dirs \cup {Root} /\ rows.dir \in Dirs \cup {Root}
    /\ \A a \in asks : a.dir \in Dirs /\ a.seq \in 1..seq
    /\ \A o \in Id : ops[o].kind \in {"none", "row", "bulk"}
    /\ up.at \in {"idle", "mkdir", "send"}

\* Once nothing is under way the page shows the folder it names, and, unless its last
\* listing failed, all that happened there but for the writes it lost track of: wherever
\* the user was when a write was started, queued or done, a late listing never lands on
\* another folder and the last one is never thrown away.
LostIn(d) == {o \in Id : ops[o] # Free /\ ops[o].page = "lost" /\ ops[o].dir = d
                            /\ ops[o].device \in {"done", "unknown"}}
ListFresh ==
    asks = {} /\ up = Idle /\ (\A o \in Id : ~Waiting(o)) =>
        /\ rows.dir = path
        /\ rows.rev # 0 => rev[path] - rows.rev \in 0..Cardinality(LostIn(path))

\* Files are sent into a folder only after the device has done with making it ("A mkdir
\* the device queued (flash busy) is waited for", FilesField.tsx:394-395), but for one
\* whose answer or whose poll was lost: its end is not waited for.
NotTooSoon ==
    up.at = "send" =>
        ops[up.op].device = "ended" \/ ops[up.op].page = "lost"
=============================================================================
