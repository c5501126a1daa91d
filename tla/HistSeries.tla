------------------------------ MODULE HistSeries ------------------------------
(* One series of modules/history (HistSeriesImpl.cpp) with two tiers: the open *)
(* buckets, the rings of closed records, and the segment files; add() of the   *)
(* recording task, and mount / flush / retention / erase of the "hist" task,   *)
(* with PowerGuard refusing a step and the power going at any time.            *)
(*                                                                             *)
(* A record is its time and what went into it: tier 1 rolls up the times of    *)
(* tier 0.  A tier-0 bucket is one tick long.                                  *)
EXTENDS Naturals, Sequences, FiniteSets, SequencesExt

CONSTANTS
    MaxT,       \* ticks of the clock (bound of the model)
    Span,       \* ticks per segment file of each tier (hist::segmentKey)
    Bucket1,    \* ticks of a tier-1 bucket (tiers_[1].bucketS)
    Cap,        \* records each tier's ring holds (qCap)
    Keep,       \* ticks each tier keeps (keepS)
    MaxCuts,    \* power cuts (bound)
    MaxFails,   \* failed writes (bound)
    MaxCutFails, \* failed cuts of a torn tail (bound)
    MaxErases   \* DELETE requests (bound)

VARIABLES
    clock,      \* the device's time
    mounted,    \* Series::mounted_
    open0,      \* the bucket add() fills: its tick, 0 when empty
    open1,      \* the rollup's bucket: its start and the times in it
    ring,       \* z.q: closed records waiting for a flush, per tier
    newest,     \* z.queuedNewest
    onFile,     \* z.fileNewest
    seg,        \* the segment files of each tier by key; Torn ends a torn one
    task,       \* where the hist task is
    erasing,    \* Series::erasing_
    asked,      \* HistoryService::_eraseIds holds this series
    from,       \* flushFrom_
    power,      \* PowerGuard::writesAllowed
    cuts, fails, cutFails, erases,
    held,       \* history: times tier 0 took, till erased, retired, lost unflushed or at a close
    amid        \* history: samples taken between an erase's two clears

vars == <<clock, mounted, open0, open1, ring, newest, onFile, seg, task, erasing,
          asked, from, power, cuts, fails, cutFails, erases, held, amid>>

Tiers == {0, 1}
Torn == [t |-> 0, of |-> {}]
Idle == [at |-> "idle"]
None == [start |-> 0, of |-> {}]

SegmentKey(k, t) == (t - 1) \div Span[k]
TierStart(t) == t - ((t - 1) % Bucket1)
Keys(k) == DOMAIN seg[k]
NewestKey(k) == CHOOSE i \in Keys(k) : \A j \in Keys(k) : j <= i

\* read() and scanTier(): the whole records before a torn one
Whole(s) == IF Contains(s, Torn) THEN SubSeq(s, 1, SelectInSeq(s, LAMBDA r : r = Torn) - 1)
            ELSE s
FileRows(k) ==
    FoldLeft(LAMBDA acc, i : IF i \in Keys(k) THEN acc \o Whole(seg[k][i]) ELSE acc,
             <<>>, [i \in 1..(MaxT + 1) |-> i - 1])
Times(rows) == {rows[i].t : i \in DOMAIN rows}
BeingCut == IF task.at = "rename" /\ task.k = 0 THEN Times(task.rows) ELSE {}

Init ==
    /\ clock = 1 /\ mounted = FALSE /\ open0 = 0 /\ open1 = None
    /\ ring = [k \in Tiers |-> <<>>]
    /\ newest = [k \in Tiers |-> 0] /\ onFile = [k \in Tiers |-> 0]
    /\ seg = [k \in Tiers |-> <<>>]
    /\ task = Idle /\ erasing = FALSE /\ asked = FALSE /\ from = 0 /\ power = TRUE
    /\ cuts = 0 /\ fails = 0 /\ cutFails = 0 /\ erases = 0 /\ held = {} /\ amid = {}

-----------------------------------------------------------------------------
(* RAM: open buckets and rings (under mx_)                                    *)

\* Mutant of Closed: nobody looks whether there is room.
Closed_Grows(st, k, r) == [st EXCEPT !.ring[k] = Append(@, r), !.newest[k] = r.t]

\* closedLocked of a tier's record: a full ring drops it (++full_)
Closed(st, k, r) ==
    IF Len(st.ring[k]) < Cap[k]
    THEN [st EXCEPT !.ring[k] = Append(@, r), !.newest[k] = r.t]
    ELSE st

\* rollupLocked of tier 0's record t into tier 1's bucket
Rollup(st, t) ==
    LET bs == TierStart(t)
        b  == st.open1
        into(s) == [s EXCEPT !.open1 = [start |-> bs, of |-> {t}]] IN
    IF st.newest[1] # 0 /\ bs <= st.newest[1] THEN st
    ELSE IF b.of # {} /\ b.start # bs
         THEN IF bs < b.start THEN st
              ELSE into(Closed(st, 1, [t |-> b.start, of |-> b.of]))
    ELSE IF b.of = {} THEN into(st)
    ELSE [st EXCEPT !.open1.of = @ \cup {t}]

Ram == [ring |-> ring, newest |-> newest, open1 |-> open1]
Close0(st, t) == Rollup(Closed(st, 0, [t |-> t, of |-> {t}]), t)

\* add(): a sample at the clock.  Its bucket is the open one, or closes it.
Add ==
    /\ mounted
    /\ ~(newest[0] # 0 /\ clock <= newest[0])                      \* Stale
    /\ ~(open0 # 0 /\ clock < open0)
    /\ open0 # clock
    /\ LET st == IF open0 # 0 THEN Close0(Ram, open0) ELSE Ram IN
       ring' = st.ring /\ newest' = st.newest /\ open1' = st.open1
    /\ open0' = clock
    /\ held' = held \cup (Times(ring'[0]) \ Times(ring[0]))
    /\ amid' = IF task.at = "clear" THEN amid \cup {clock} ELSE amid
    /\ UNCHANGED <<clock, mounted, onFile, seg, task, erasing, asked, from, power,
                   cuts, fails, cutFails, erases>>

Tick ==
    /\ clock < MaxT
    /\ clock' = clock + 1
    /\ UNCHANGED <<mounted, open0, open1, ring, newest, onFile, seg, task, erasing,
                   asked, from, power, cuts, fails, cutFails, erases, held, amid>>

PowerChanges ==
    /\ power' = ~power
    /\ UNCHANGED <<clock, mounted, open0, open1, ring, newest, onFile, seg, task,
                   erasing, asked, from, cuts, fails, cutFails, erases, held, amid>>

\* DELETE /api/v1/history/<id>: the id waits for the task
Delete ==
    /\ erases < MaxErases
    /\ asked' = TRUE /\ erases' = erases + 1
    /\ UNCHANGED <<clock, mounted, open0, open1, ring, newest, onFile, seg, task,
                   erasing, from, power, cuts, fails, cutFails, held, amid>>

-----------------------------------------------------------------------------
(* The hist task: mount                                                       *)

ramVars == <<open0, open1, ring, newest>>
kept == <<clock, power, erases, amid, cutFails>>

\* scanTier of tier k: the newest whole record of its newest segment
Found(k) ==
    LET rows == IF Keys(k) = {} THEN <<>> ELSE Whole(seg[k][NewestKey(k)]) IN
    IF rows = <<>> THEN 0 ELSE Last(rows).t
TornAt(k) == Keys(k) # {} /\ Contains(seg[k][NewestKey(k)], Torn)

StartMount ==
    /\ task = Idle /\ ~mounted
    /\ task' = [at |-> "scan", k |-> 0, then |-> "mount"]
    /\ UNCHANGED <<kept, mounted, ramVars, onFile, seg, erasing, asked, from, cuts,
                   fails, held>>

ScanNext(k, then) ==
    IF then = "mount" THEN IF k = 0 THEN [at |-> "scan", k |-> 1, then |-> then]
                           ELSE [at |-> "rebuild"]
    ELSE [at |-> "retain", k |-> k + 1]

Scan ==
    /\ task.at = "scan" /\ ~TornAt(task.k)
    /\ onFile' = [onFile EXCEPT ![task.k] = Found(task.k)]
    /\ newest' = [newest EXCEPT ![task.k] = IF Found(task.k) > @ THEN Found(task.k) ELSE @]
    /\ task' = ScanNext(task.k, task.then)
    /\ UNCHANGED <<kept, mounted, open0, open1, ring, seg, erasing, asked, from, cuts,
                   fails, held>>

\* a torn tail, but PowerGuard refuses the step: not mounted, again next pass
ScanRefused ==
    /\ task.at = "scan" /\ TornAt(task.k) /\ ~power
    /\ task' = IF task.then = "mount" THEN Idle ELSE [at |-> "retain", k |-> task.k + 1]
    /\ UNCHANGED <<kept, mounted, ramVars, onFile, seg, erasing, asked, from, cuts,
                   fails, held>>

\* The whole records are copied to <path>.tmp; then path is removed ...
CutRemove ==
    /\ task.at = "scan" /\ TornAt(task.k) /\ power
    /\ LET k == task.k
           i == NewestKey(k) IN
       /\ task' = [at |-> "rename", k |-> k, then |-> task.then, key |-> i,
                   rows |-> Whole(seg[k][i])]
       /\ seg' = [seg EXCEPT ![k] = [j \in Keys(k) \ {i} |-> seg[k][j]]]
    /\ UNCHANGED <<kept, mounted, ramVars, onFile, erasing, asked, from, cuts, fails,
                   held>>

\* ... and the copy renamed to it
CutRename ==
    /\ task.at = "rename"
    /\ LET k == task.k
           files == [j \in Keys(k) \cup {task.key} |->
                        IF j = task.key THEN task.rows ELSE seg[k][j]] IN
       seg' = [seg EXCEPT ![k] = files]
    /\ task' = [at |-> "scan", k |-> task.k, then |-> task.then]
    /\ UNCHANGED <<kept, mounted, ramVars, onFile, erasing, asked, from, cuts, fails,
                   held>>

\* The copy can't be written: path stays torn ...; or it can't be renamed: the
\* else branch removes it too, and path is gone already.  Either way the scan
\* goes on with what is there.
CutFails ==
    /\ task.at \in {"scan", "rename"} /\ cutFails < MaxCutFails
    /\ task.at = "scan" => TornAt(task.k) /\ power
    /\ cutFails' = cutFails + 1
    /\ onFile' = [onFile EXCEPT ![task.k] = IF task.at = "scan" THEN Found(task.k) ELSE 0]
    /\ newest' = [newest EXCEPT ![task.k] = IF onFile'[task.k] > @ THEN onFile'[task.k] ELSE @]
    /\ task' = ScanNext(task.k, task.then)
    /\ UNCHANGED <<clock, power, erases, amid, mounted, open0, open1, ring, seg, erasing,
                   asked, from, cuts, fails, held>>

\* Mutant of Rebuild: the rollup's bucket starts empty after a reset.
Rebuild_Empty ==
    /\ task.at = "rebuild"
    /\ mounted' = TRUE /\ task' = Idle
    /\ UNCHANGED <<kept, ramVars, onFile, seg, erasing, asked, from, cuts, fails, held>>

\* rebuildRollup(1): tier-0 records newer than tier 1's newest one, one by one
Rebuild ==
    /\ task.at = "rebuild"
    /\ LET rows == SelectSeq(FileRows(0), LAMBDA r : onFile[1] = 0 \/ r.t >= onFile[1] + 1)
           st == FoldLeft(LAMBDA s, r : Rollup(s, r.t), Ram, rows) IN
       ring' = st.ring /\ newest' = st.newest /\ open1' = st.open1
    /\ mounted' = TRUE /\ task' = Idle
    /\ UNCHANGED <<kept, open0, onFile, seg, erasing, asked, from, cuts, fails, held>>

-----------------------------------------------------------------------------
(* flush: a chunk of one tier under a slot of the write gate                  *)

StartFlush ==
    /\ task = Idle /\ mounted /\ ~erasing /\ power
    /\ \E k \in Tiers :
          /\ ring[k] # <<>>
          /\ k = from \/ ring[from] = <<>>
          /\ task' = [at |-> "run", k |-> k, chunk |-> ring[k], done |-> 0]
    /\ UNCHANGED <<kept, mounted, ramVars, onFile, seg, erasing, asked, from, cuts,
                   fails, held>>

\* the records from `done` on that share one segment key
Run ==
    LET same(i) == \A j \in (task.done + 1)..i :
            SegmentKey(task.k, task.chunk[j].t) = SegmentKey(task.k, task.chunk[task.done + 1].t)
    IN  CHOOSE n \in (task.done + 1)..Len(task.chunk) :
            same(n) /\ (n = Len(task.chunk) \/ ~same(n + 1))
RunKey == SegmentKey(task.k, task.chunk[task.done + 1].t)
RunRows == SelectSeq(SubSeq(task.chunk, task.done + 1, Run), LAMBDA r : r.t > onFile[task.k])

Appended(k, key, rows) ==
    [seg EXCEPT ![k] = [j \in Keys(k) \cup {key} |->
        IF j # key THEN seg[k][j]
        ELSE IF key \in Keys(k) THEN seg[k][key] \o rows ELSE rows]]

\* one file opened, appended to and closed
WriteRun ==
    /\ task.at = "run" /\ task.done < Len(task.chunk)
    /\ seg' = IF RunRows = <<>> THEN seg ELSE Appended(task.k, RunKey, RunRows)
    /\ onFile' = IF RunRows = <<>> THEN onFile ELSE [onFile EXCEPT ![task.k] = Last(RunRows).t]
    /\ task' = [task EXCEPT !.done = Run]
    /\ UNCHANGED <<kept, mounted, ramVars, erasing, asked, from, cuts, fails, held>>

\* Mutant of Dequeue: a failed flush gives up its whole chunk.
Dequeue_Chunk(k, n) == ring' = [ring EXCEPT ![k] = SubSeq(@, Len(task.chunk) + 1, Len(@))]

Dequeue(k, n) == ring' = [ring EXCEPT ![k] = SubSeq(@, n + 1, Len(@))]

FlushDone ==
    /\ task.at = "run" /\ task.done = Len(task.chunk)
    /\ Dequeue(task.k, task.done)
    /\ from' = (task.k + 1) % 2
    /\ task' = Idle
    /\ UNCHANGED <<kept, mounted, open0, open1, newest, onFile, seg, erasing, asked,
                   cuts, fails, held>>

\* A small append is written at the close, which nobody looks at: one that fails there
\* counts as written, and is gone
CloseFails ==
    /\ task.at = "run" /\ task.done < Len(task.chunk) /\ fails < MaxFails
    /\ RunRows # <<>>
    /\ fails' = fails + 1
    /\ onFile' = [onFile EXCEPT ![task.k] = Last(RunRows).t]
    /\ task' = [task EXCEPT !.done = Run]
    /\ held' = IF task.k = 0 THEN held \ Times(RunRows) ELSE held
    /\ UNCHANGED <<kept, mounted, ramVars, seg, erasing, asked, from, cuts>>

\* "write failed, kept in RAM": LittleFS does not commit a file after a failed write, so
\* it keeps the old one
FlushFails ==
    /\ task.at = "run" /\ task.done < Len(task.chunk) /\ fails < MaxFails
    /\ RunRows # <<>>
    /\ fails' = fails + 1
    /\ Dequeue(task.k, task.done)
    /\ task' = Idle
    /\ UNCHANGED <<kept, mounted, open0, open1, newest, onFile, seg, erasing, asked,
                   from, cuts, held>>

-----------------------------------------------------------------------------
(* retention (by time), and erase                                             *)

Horizon(k) == IF clock > Keep[k] THEN clock - Keep[k] ELSE 0
Drop(k) ==
    {i \in {j \in Keys(k) : \E n \in Keys(k) : n > j} :
        (IF Whole(seg[k][i]) = <<>> THEN 0 ELSE Last(Whole(seg[k][i])).t) < Horizon(k)}

\* once an hour: only when there is a file to remove, the step granted
StartRetention ==
    /\ task = Idle /\ mounted /\ power
    /\ \E k \in Tiers : Drop(k) # {}
    /\ task' = [at |-> "retain", k |-> 0]
    /\ UNCHANGED <<kept, mounted, ramVars, onFile, seg, erasing, asked, from, cuts,
                   fails, held>>

Gone(k, i) ==
    /\ seg' = [seg EXCEPT ![k] = [j \in Keys(k) \ {i} |-> seg[k][j]]]
    /\ held' = IF k = 0 THEN held \ Times(seg[0][i]) ELSE held

RetainOne ==
    /\ task.at = "retain" /\ task.k \in Tiers /\ power
    /\ Drop(task.k) # {}
    /\ Gone(task.k, CHOOSE i \in Drop(task.k) : \A j \in Drop(task.k) : i <= j)
    /\ UNCHANGED <<kept, mounted, ramVars, onFile, task, erasing, asked, from, cuts,
                   fails>>

RetainNext ==
    /\ task.at = "retain"
    /\ task' = IF task.k \notin Tiers \/ ~power THEN Idle
               ELSE [at |-> "scan", k |-> task.k, then |-> "retain"]
    /\ (task.k \in Tiers /\ power) => (Drop(task.k) = {})
    /\ UNCHANGED <<kept, mounted, ramVars, onFile, seg, erasing, asked, from, cuts,
                   fails, held>>

\* the ids are taken; the RAM state goes, tier by tier, at the first call only
StartErase ==
    /\ task = Idle /\ asked
    /\ asked' = FALSE
    /\ task' = IF erasing THEN [at |-> "erase"] ELSE [at |-> "clear", k |-> 0]
    /\ UNCHANGED <<kept, mounted, ramVars, onFile, seg, erasing, from, cuts, fails,
                   held>>

Clear ==
    /\ task.at = "clear"
    /\ LET k == task.k IN
       /\ ring' = [ring EXCEPT ![k] = <<>>]
       /\ newest' = [newest EXCEPT ![k] = 0]
       /\ onFile' = [onFile EXCEPT ![k] = 0]
       /\ open0' = IF k = 0 THEN 0 ELSE open0
       /\ open1' = IF k = 1 THEN None ELSE open1
       /\ task' = IF k = 0 THEN [at |-> "clear", k |-> 1] ELSE [at |-> "erase"]
       /\ erasing' = (k = 1)
       /\ held' = IF k = 0 THEN {} ELSE held
    /\ UNCHANGED <<kept, mounted, seg, asked, from, cuts, fails>>

\* a file per step; refused: the rest next pass
EraseOne ==
    /\ task.at = "erase" /\ power
    /\ \E k \in Tiers : Keys(k) # {} /\ (k = 1 => Keys(0) = {})
         /\ Gone(k, CHOOSE i \in Keys(k) : \A j \in Keys(k) : i <= j)
    /\ UNCHANGED <<kept, mounted, ramVars, onFile, task, erasing, asked, from, cuts,
                   fails>>
EraseRefused ==
    /\ task.at = "erase" /\ ~power
    /\ asked' = TRUE /\ task' = Idle
    /\ UNCHANGED <<kept, mounted, ramVars, onFile, seg, erasing, from, cuts, fails,
                   held>>
EraseDone ==
    /\ task.at = "erase" /\ \A k \in Tiers : Keys(k) = {}
    /\ erasing' = FALSE /\ task' = Idle
    /\ UNCHANGED <<kept, mounted, ramVars, onFile, seg, asked, from, cuts, fails, held>>

-----------------------------------------------------------------------------
(* The power goes: RAM is lost; an append under way leaves a prefix of what    *)
(* it wrote, and a torn record after it.                                      *)

PowerCut ==
    /\ cuts < MaxCuts
    /\ cuts' = cuts + 1
    /\ \/ seg' = seg
       \/ /\ task.at = "run" /\ task.done < Len(task.chunk) /\ RunRows # <<>>
          /\ \E n \in 0..(Len(RunRows) - 1) :
                seg' = Appended(task.k, RunKey, Append(SubSeq(RunRows, 1, n), Torn))
    /\ mounted' = FALSE /\ open0' = 0 /\ open1' = None
    /\ ring' = [k \in Tiers |-> <<>>]
    /\ newest' = [k \in Tiers |-> 0] /\ onFile' = [k \in Tiers |-> 0]
    /\ task' = Idle /\ erasing' = FALSE /\ asked' = FALSE /\ from' = 0
    /\ held' = held \cap (Times(FileRows(0)) \cup BeingCut)
    /\ UNCHANGED <<kept, fails>>

Next ==
    \/ Add \/ Tick \/ PowerChanges \/ Delete
    \/ StartMount \/ Scan \/ ScanRefused \/ CutRemove \/ CutRename \/ CutFails
    \/ Rebuild
    \/ StartFlush \/ WriteRun \/ CloseFails \/ FlushDone \/ FlushFails
    \/ StartRetention \/ RetainOne \/ RetainNext
    \/ StartErase \/ Clear \/ EraseOne \/ EraseRefused \/ EraseDone
    \/ PowerCut

Spec == Init /\ [][Next]_vars
-----------------------------------------------------------------------------
TypeOK ==
    /\ clock \in 1..MaxT /\ open0 \in 0..MaxT
    /\ {mounted, erasing, asked, power} \subseteq BOOLEAN
    /\ \A k \in Tiers : Len(ring[k]) <= Cap[k] /\ newest[k] \in 0..MaxT
    /\ from \in Tiers /\ held \subseteq 1..MaxT

\* What read() gives for tier k: the files, then the ring past the last of them.
Rows(k) ==
    LET f == FileRows(k)
        last == IF f = <<>> THEN 0 ELSE Last(f).t IN
    f \o SelectSeq(ring[k], LAMBDA r : r.t > last)

\* A row of tier 1 holds every row of tier 0 inside its bucket that is still
\* there: a reset, which loses the open bucket and the rings, never leaves a
\* rollup made of a part of what the finer tier has (rebuildRollup).  Samples
\* taken between the two clears of an erase are left out: tier 0 keeps them and
\* tier 1's clear forgets them (HistSeriesImpl.cpp:585-593).
RollupWhole ==
    mounted /\ ~erasing /\ task.at # "clear" =>
        \A r \in ToSet(Rows(1)) : \A t \in Times(Rows(0)) :
            TierStart(t) = r.t /\ t \notin amid => t \in r.of

\* What tier 0 took is on file or waits in the ring, until an erase, retention, a
\* failure of a close (HistSeriesImpl.cpp:493) or a reset that finds it unflushed: "An unexpected reset loses at most what
\* was not flushed yet (flush interval) and the open buckets" (IHistory.h:37-38).
FlushedStays == held \subseteq Times(FileRows(0)) \cup Times(ring[0]) \cup BeingCut

\* The same while no torn tail met a failure or a second reset: a failed write
\* is kept in RAM, a cut keeps every whole record, a flush in the middle of
\* which new records come dequeues what it wrote and no more.
TakenKept == cuts <= 1 /\ cutFails = 0 => FlushedStays
=============================================================================
