------------------------------- MODULE HistQuery -------------------------------
(* A query of a history series: HistoryService.cpp answers it in JSON pages or  *)
(* CSV chunks, each of which reads on from where the last one ended             *)
(* (Series::read: the files, then the ring, a record at a time), raw or through *)
(* the Downsampler, while the "hist" task flushes the ring into the files.      *)
(*                                                                              *)
(* Rows have consecutive times; the first `onFile` of them are on file, the     *)
(* rest in the ring.  What a page or chunk holds is a number of rows.           *)
EXTENDS Naturals, Sequences, FiniteSets, SequencesExt

CONSTANTS
    MaxRow,     \* rows the series ever has (bound)
    Page,       \* rows a page or chunk holds
    Res,        \* the nominal length of a day bucket (res=86400)
    Midnights,  \* local midnights: a DST day is longer or shorter than Res
    Kinds,      \* the answers asked for: "json", "csv"
    MaxQueries  \* (bound)

VARIABLES
    rows,       \* rows 1..rows were taken
    onFile,     \* rows 1..onFile are on file, the rest in the ring
    chunk,      \* rows the flush under way copied out (up to this one), or 0
    wrote,      \* ... and they are written, not dequeued yet
    q,          \* the query
    queries

vars == <<rows, onFile, chunk, wrote, q, queries>>

NoGroup == [start |-> 0, of |-> {}]
Never == MaxRow + Res + 1        \* 0xFFFFFFFF
Off == [at |-> "off"]
\* raw rows, one group for the whole period (res=0), a group per local day
Resolutions == {"raw", "whole", "day"}

\* localBucketStart, for the days and for res 0
GroupOf(res, t, open) ==
    IF res = "whole" THEN IF open.of = {} THEN t ELSE open.start
    ELSE CHOOSE m \in Midnights : m <= t /\ \A n \in Midnights : n <= t => n <= m

Init ==
    /\ rows = 1 /\ onFile = 0 /\ chunk = 0 /\ wrote = FALSE
    /\ q = Off /\ queries = 0

-----------------------------------------------------------------------------
(* The hist task and the recording one                                        *)

Put ==
    /\ rows < MaxRow
    /\ rows' = rows + 1
    /\ UNCHANGED <<onFile, chunk, wrote, q, queries>>

\* Series::flush: copy out, append to the file without mx_, dequeue
FlushCopy ==
    /\ chunk = 0 /\ rows > onFile
    /\ chunk' = rows
    /\ UNCHANGED <<rows, onFile, wrote, q, queries>>
FlushWrite ==
    /\ chunk # 0 /\ ~wrote
    /\ wrote' = TRUE
    /\ UNCHANGED <<rows, onFile, chunk, q, queries>>
FlushDequeue ==
    /\ chunk # 0 /\ wrote
    /\ onFile' = chunk /\ chunk' = 0 /\ wrote' = FALSE
    /\ q' = IF q.at = "ram" THEN [q EXCEPT !.raced = TRUE] ELSE q
    /\ UNCHANGED <<rows, queries>>

-----------------------------------------------------------------------------
(* A row or a group into the answer                                           *)

\* Mutant of JsonEmit: the next page begins past the row that didn't fit.
JsonEmit_Past(s, g) ==
    IF s.stop THEN s
    ELSE IF s.count = Page THEN [s EXCEPT !.stop = TRUE, !.next = g.start + 1]
    ELSE [s EXCEPT !.out = Append(@, g), !.count = @ + 1]

\* emitRow: a full page keeps the time of what didn't fit
JsonEmit(s, g) ==
    IF s.stop THEN s
    ELSE IF s.count = Page THEN [s EXCEPT !.stop = TRUE, !.next = g.start]
    ELSE [s EXCEPT !.out = Append(@, g), !.count = @ + 1]

\* Mutant of CsvEmit: the next chunk begins at the row that filled this one.
CsvEmit_Again(s, g) ==
    IF s.stop THEN s
    ELSE [s EXCEPT !.out = Append(@, g), !.count = @ + 1, !.next = g.start,
             !.stop = (s.count + 1 >= Page)]

\* CsvJob::row: the next chunk reads on after this row, or its bucket
CsvEmit(s, g) ==
    IF s.stop THEN s
    ELSE [s EXCEPT !.out = Append(@, g), !.count = @ + 1,
             !.next = IF s.res = "raw" THEN g.start + 1
                      ELSE IF s.res = "day" THEN g.start + Res ELSE Never,
             !.stop = (s.count + 1 >= Page)]

Emit(s, g) == IF s.kind = "json" THEN JsonEmit(s, g) ELSE CsvEmit(s, g)

\* Downsampler::flush, feed
Flushed(s) == IF s.open.of = {} THEN s ELSE [Emit(s, s.open) EXCEPT !.open = NoGroup]
Feed(s, t) ==
    LET g == GroupOf(s.res, t, s.open)
        u == IF s.open.of # {} /\ s.open.start # g THEN Flushed(s) ELSE s IN
    [u EXCEPT !.open = [start |-> g, of |-> @.of \cup {t}]]

\* onRow; read() goes on until it returns false
OnRow(s, t) ==
    IF s.res = "raw" THEN Emit(s, [start |-> t, of |-> {t}]) ELSE Feed(s, t)

-----------------------------------------------------------------------------
(* GET /api/v1/history/<id>                                                   *)

Ask(kind, res) ==
    /\ q = Off /\ queries < MaxQueries
    /\ q' = [at |-> "files", kind |-> kind, res |-> res, cursor |-> 1, next |-> 1,
             out |-> <<>>, count |-> 0, stop |-> FALSE, open |-> NoGroup,
             last |-> 0, ram |-> 0, had |-> rows, raced |-> FALSE]
    /\ queries' = queries + 1
    /\ UNCHANGED <<rows, onFile, chunk, wrote>>

\* the segment files, up to what the writer got to
ReadFiles ==
    /\ q.at = "files"
    /\ LET end == IF wrote THEN chunk ELSE onFile
           ts  == [i \in 1..end |-> i]
           s   == FoldLeft(LAMBDA x, t : IF x.stop \/ t < x.cursor THEN x ELSE OnRow(x, t),
                           q, ts) IN
       q' = [s EXCEPT !.at = IF s.stop THEN "end" ELSE "ram", !.last = end, !.ram = 0]
    /\ UNCHANGED <<rows, onFile, chunk, wrote, queries>>

\* "Records still waiting in RAM, one at a time under the lock"
ReadRam ==
    /\ q.at = "ram"
    /\ LET t == onFile + q.ram + 1 IN
       IF t > rows THEN q' = [q EXCEPT !.at = "end"]
       ELSE IF t <= q.last \/ t < q.cursor THEN q' = [q EXCEPT !.ram = @ + 1]
       ELSE LET s == OnRow(q, t) IN
            q' = [s EXCEPT !.ram = @ + 1, !.at = IF s.stop THEN "end" ELSE "ram"]
    /\ UNCHANGED <<rows, onFile, chunk, wrote, queries>>

\* sendRows: ds.finish(), and "next" when the page was full
PageEnd ==
    /\ q.at = "end" /\ q.kind = "json"
    /\ LET s == Flushed(q) IN
       q' = IF s.stop THEN [s EXCEPT !.at = "wait", !.cursor = s.next]
            ELSE [s EXCEPT !.at = "done"]
    /\ UNCHANGED <<rows, onFile, chunk, wrote, queries>>

\* CsvJob::fill: stopped, the group under way is dropped and read again
ChunkEnd ==
    /\ q.at = "end" /\ q.kind = "csv"
    /\ q' = IF q.stop THEN [q EXCEPT !.at = "wait", !.cursor = q.next, !.open = NoGroup]
            ELSE [Flushed(q) EXCEPT !.at = "done"]
    /\ UNCHANGED <<rows, onFile, chunk, wrote, queries>>

\* the client asks for the next page; the socket takes the next chunk
GoOn ==
    /\ q.at = "wait"
    /\ q' = IF q.kind = "csv" /\ q.cursor > MaxRow THEN [q EXCEPT !.at = "done"]
            ELSE [q EXCEPT !.at = "files", !.count = 0, !.stop = FALSE, !.open = NoGroup]
    /\ UNCHANGED <<rows, onFile, chunk, wrote, queries>>

Close ==
    /\ q.at = "done" /\ q' = Off
    /\ UNCHANGED <<rows, onFile, chunk, wrote, queries>>

Next ==
    \/ Put \/ FlushCopy \/ FlushWrite \/ FlushDequeue
    \/ \E kind \in Kinds, res \in Resolutions : Ask(kind, res)
    \/ ReadFiles \/ ReadRam \/ PageEnd \/ ChunkEnd \/ GoOn \/ Close

Spec == Init /\ [][Next]_vars
-----------------------------------------------------------------------------
TypeOK ==
    /\ onFile \in 0..rows /\ rows \in 1..MaxRow /\ chunk \in 0..rows /\ wrote \in BOOLEAN
    /\ q # Off => /\ q.kind \in Kinds /\ q.res \in Resolutions
                  /\ q.count <= Page /\ q.had <= rows

Times(out) == UNION {out[i].of : i \in DOMAIN out}

\* No row of an answer is earlier than the one before it or comes again, and no
\* record is counted in two of them, however its pages or chunks fall ("Rows ...
\* ascending", HistSeriesImpl.h:90; "the same rows as CSV", history.md:154).
RowsOnce ==
    q # Off => \A i, j \in DOMAIN q.out : i < j =>
        /\ q.out[i].start < q.out[j].start
        /\ q.out[i].of \cap q.out[j].of = {}

\* A finished answer holds every record there was when it was asked for, unless
\* a flush took records off the ring while it read them there.
AnswerWhole ==
    q # Off /\ q.at = "done" /\ ~q.raced => 1..q.had \subseteq Times(q.out)
=============================================================================
