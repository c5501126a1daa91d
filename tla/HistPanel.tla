------------------------------ MODULE HistPanel ------------------------------
(* A chart in its history mode (useHistoryData.ts, historyPlan.ts,                 *)
(* historyClient.ts): which records of which tier a period reads, on the device's  *)
(* clock, and the reading of them, page by page, while the user picks other        *)
(* periods and the list of series is read again.                                   *)
EXTENDS Naturals, Sequences

CONSTANTS
    Tiers,      \* of the series: bucket and keep, the finest first
    Spans,      \* PERIOD_SPAN: period -> length
    Ladder,     \* RES_LADDER
    Points,     \* rows a chart wants at most
    Day,        \* length of a day
    MaxPages,   \* MAX_PAGES
    None,
    MaxNow,     \* time (bound)
    MaxPicks,   \* choices of the user (bound)
    MaxReloads, \* presses of Reload (bound)
    MaxBad      \* reads that fail (bound)

VARIABLES
    now, first, \* the device: its clock, its first record (0: none)
    period, day,\* what the user chose; None: today
    info,       \* the series as the list has it, or None: not read, or not there
    listJob,    \* the list is being read
    seen,       \* pickedDay at the effect's last run
    plan,       \* what is read, or None
    job,        \* fetchRows: pages read, pages there are; or None
    late,       \* the read before it, its answer still to come, or None
    rows,       \* shown: of which plan, and whether all of it; or None
    loading, error,
    picks, reloads, bad

vars == <<now, first, period, day, info, listJob, seen, plan, job, late, rows, loading, error, picks, reloads, bad>>
device == <<now, first>>
chosen == <<period, day>>
bounds == <<picks, reloads, bad>>

Larger(a, b) == IF a < b THEN b ELSE a
Smaller(a, b) == IF a < b THEN a ELSE b
Back(a, b) == IF a > b THEN a - b ELSE 0
Least(S) == CHOOSE x \in S : \A y \in S : x <= y
Coarsest == Len(Tiers)
Periods == DOMAIN Spans \cup {"live", "date"}

(* planWindow *)
dayStart(t) == t - (t % Day)
nextDay(d) == dayStart(d + Day + Day \div 2)
bucketStart(t, bucket) == t - (t % bucket)
covers(k, t, at) == t + Tiers[k].keep >= at + Tiers[k].bucket

Start(p) == IF p.period = "date" THEN p.day ELSE Back(p.now, Spans[p.period])
End(k, p) == LET open == bucketStart(p.now, Tiers[k].bucket) IN
             IF p.period = "date" THEN Smaller(nextDay(p.day), open) ELSE open
From(k, p) == IF p.period = "date" THEN p.day
              ELSE bucketStart(Back(End(k, p), Spans[p.period]), Tiers[k].bucket)
FromEff(k, p) == bucketStart(Larger(From(k, p), p.oldest), Tiers[k].bucket)

\* the first tier from k on that has the start; looked at again once the start is at a bucket
Reach(k, p) == Least({j \in k..Coarsest : j = Coarsest \/ covers(j, Larger(Start(p), p.oldest), p.now)})
Tier_Once(k, p) == Reach(k, p)
Tier(k, p) == Least({j \in Reach(k, p)..Coarsest : j = Coarsest \/ covers(j, FromEff(j, p), p.now)})

Empty(k, p) ==
    IF p.oldest = 0 THEN "none"
    ELSE IF (IF p.period = "date" THEN nextDay(p.day) ELSE End(k, p)) <= p.oldest THEN "before"
    ELSE IF FromEff(k, p) >= End(k, p) THEN "noClosed" ELSE None

planWindow(p, k0) ==
    LET k == Tier(k0, p) IN
    [tier |-> k, from |-> FromEff(k, p), to |-> End(k, p), empty |-> Empty(k, p), at |-> p.now, res |-> Tiers[k].bucket]

(* planSeries: a resolution of at most Points rows, from the coarsest tier that has it *)
Res(f) == LET want == {i \in DOMAIN Ladder : Ladder[i] >= Tiers[f.tier].bucket /\ Ladder[i] * Points >= f.to - f.from} IN
          IF want = {} THEN Ladder[Len(Ladder)] ELSE Ladder[Least(want)]
Coarser(f, res, at) ==
    {j \in f.tier + 1..Coarsest : res % Tiers[j].bucket = 0 /\ covers(j, f.from, at)}
planSeries(p) ==
    LET f == planWindow(p, 1) IN
    IF f.empty # None THEN f
    ELSE LET res == Res(f)
             up == Coarser(f, res, p.now)
             g == IF up = {} THEN f
                  ELSE planWindow(p, CHOOSE j \in up : \A i \in up : i <= j)
         IN  [g EXCEPT !.res = Larger(res, Tiers[g.tier].bucket)]

Init ==
    /\ now = 1 /\ first = 0
    /\ period = "live" /\ day = None
    /\ info = None /\ listJob = TRUE /\ seen = 0
    /\ plan = None /\ job = None /\ late = None /\ rows = None
    /\ loading = FALSE /\ error = FALSE
    /\ picks = 0 /\ reloads = 0 /\ bad = 0

Picked(d, at) == IF d # None /\ d <= dayStart(at) THEN d ELSE dayStart(at)
Active(inf, per) == inf # None /\ per # "live"

(* The effect on what is chosen, the series and the day: the read under way is     *)
(* aborted, the plan made anew.                                                    *)
Aborted_Not(j) == j
Aborted(j) == [j EXCEPT !.aborted = TRUE]
Effect(inf, per, d) ==
    LET picked == Picked(d, now)
        p == planSeries([period |-> per, day |-> picked, now |-> now, oldest |-> inf.oldest])
    IN  /\ seen' = picked
        /\ late' = IF job = None THEN late ELSE Aborted([job EXCEPT !.read = 0])
        /\ IF ~Active(inf, per)
             THEN /\ plan' = None /\ rows' = None /\ job' = None
                  /\ UNCHANGED <<loading, error>>
             ELSE /\ plan' = p /\ error' = FALSE
                  /\ IF p.empty # None
                       THEN rows' = None /\ job' = None /\ UNCHANGED loading
                       ELSE /\ loading' = TRUE /\ UNCHANGED rows
                            /\ \E pages \in 1..MaxPages + 1 : job' = [q |-> p, read |-> 0, pages |-> pages, aborted |-> FALSE]

Choose(per) ==
    /\ per # period /\ picks < MaxPicks /\ picks' = picks + 1
    /\ period' = per /\ UNCHANGED day
    /\ Effect(info, per, day)
    /\ UNCHANGED <<device, info, listJob, reloads, bad>>

ChooseDay(d) ==
    /\ d # day /\ period = "date" /\ picks < MaxPicks /\ picks' = picks + 1
    /\ day' = d /\ UNCHANGED period
    /\ Effect(info, period, d)
    /\ UNCHANGED <<device, info, listJob, reloads, bad>>

\* the next render finds another day
Rerender ==
    /\ info # None /\ Picked(day, now) # seen
    /\ Effect(info, period, day)
    /\ UNCHANGED <<device, chosen, info, listJob, bounds>>

\* Reload reads the list again; its answer makes the plan anew
Reload ==
    /\ Active(info, period) /\ reloads < MaxReloads /\ reloads' = reloads + 1
    /\ listJob' = TRUE
    /\ UNCHANGED <<device, chosen, info, seen, plan, job, late, rows, loading, error, picks, bad>>

Oldest == IF first = 0 THEN 0 ELSE Larger(first, Back(now, Tiers[Coarsest].keep))
ListRead ==
    /\ listJob /\ listJob' = FALSE
    /\ info' = [oldest |-> Oldest, read |-> reloads]
    /\ Effect(info', period, day)
    /\ UNCHANGED <<device, chosen, bounds>>

ListFails ==
    /\ listJob /\ listJob' = FALSE
    /\ bad < MaxBad /\ bad' = bad + 1
    /\ info' = None
    /\ Effect(None, period, day)
    /\ UNCHANGED <<device, chosen, picks, reloads>>

\* fetchRows: the pages one after another, MAX_PAGES at most
PageRead ==
    /\ job # None /\ job.read + 1 < Smaller(job.pages, MaxPages)
    /\ job' = [job EXCEPT !.read = @ + 1]
    /\ UNCHANGED <<device, chosen, info, listJob, seen, plan, late, rows, loading, error, bounds>>

Answered(j) ==
    IF j.aborted THEN UNCHANGED <<rows, loading>>
    ELSE rows' = [q |-> j.q, whole |-> j.pages <= MaxPages] /\ loading' = FALSE
LastRead ==
    /\ job # None /\ job.read + 1 = Smaller(job.pages, MaxPages)
    /\ Answered(job) /\ job' = None
    /\ UNCHANGED <<device, chosen, info, listJob, seen, plan, late, error, bounds>>

LateRead ==
    /\ late # None /\ Answered(late) /\ late' = None
    /\ UNCHANGED <<device, chosen, info, listJob, seen, plan, job, error, bounds>>

FetchFails ==
    /\ job # None /\ bad < MaxBad /\ bad' = bad + 1
    /\ rows' = None /\ error' = TRUE /\ job' = None /\ loading' = FALSE
    /\ UNCHANGED <<device, chosen, info, listJob, seen, plan, late, picks, reloads>>

\* the device
Tick ==
    /\ now < MaxNow /\ now' = now + 1
    /\ UNCHANGED <<first, chosen, info, listJob, seen, plan, job, late, rows, loading, error, bounds>>
Record ==
    /\ first = 0 /\ first' = now
    /\ UNCHANGED <<now, chosen, info, listJob, seen, plan, job, late, rows, loading, error, bounds>>

Next ==
    \/ \E per \in Periods : Choose(per)
    \/ \E d \in {dayStart(t) : t \in 1..MaxNow} : ChooseDay(d)
    \/ Rerender \/ Reload \/ ListRead \/ ListFails \/ PageRead \/ LastRead \/ LateRead \/ FetchFails \/ Tick \/ Record

Spec == Init /\ [][Next]_vars

TypeOK ==
    /\ now \in 1..MaxNow /\ first \in 0..MaxNow /\ period \in Periods
    /\ listJob \in BOOLEAN /\ loading \in BOOLEAN /\ error \in BOOLEAN
    /\ info = None \/ info.oldest \in 0..MaxNow
    /\ plan = None \/ plan.tier \in 1..Coarsest
    /\ job = None \/ job.read < job.pages

(* "A tier holds t safely when t is a bucket inside its retention": what is   *)
(* read begins where the tier still has it, unless no tier does, ends at a    *)
(* closed bucket, and its rows are whole buckets of that tier.                *)
PlanHeld ==
    plan # None /\ plan.empty = None =>
        /\ plan.tier < Coarsest => covers(plan.tier, plan.from, plan.at)
        /\ plan.from < plan.to /\ plan.to <= plan.at
        /\ plan.res % Tiers[plan.tier].bucket = 0

(* Nothing is being read: the rows shown are those of the period chosen.      *)
RowsAreThePlans == rows # None /\ job = None /\ late = None => rows.q = plan

(* The chart is shown loading while something is read, and not after.         *)
LoadingEnds == loading /\ Active(info, period) => job # None
==============================================================================
