--------------------------------- MODULE MCWeb ---------------------------------
(***************************************************************************)
(* The web side: the sockets and who is on them, the presence log, the      *)
(* pages in the browser, and the history.  One of them is at work in a      *)
(* behaviour, the initial state says which; the variables of the others     *)
(* are "-".                                                                  *)
(***************************************************************************)
EXTENDS Naturals, TLC

CONSTANTS Nil, Addrs, a1, a2,
  Parts   \* the components of the run

VARIABLES
  part,   \* the component at work
  state, job, txq, rxq, resend, rostered, subs, slow, page, lp, whom, best, ops,
  conn, addr, proved, stash, roster, pins, tcp, sending, overdue, busy, bare,
  want, timers, inst, armed, shown, active, silent, room, wire, lost, mounts,
  hides, bad, pongs, ref, on, pending, conns, rests, hand, said, raced, n, hasJob,
  q, file, size, writing, waits, done, power, web, pc, batch, due, left, upTo,
  misses, fails, moves, path, rows, seq, asks, rev, up, forgets, dev, tab,
  brought, applied, reads, data, changed, pend, dialog, focus, cache, posts,
  frame, nreads, edits, others, opens, token, has, run, manifest, loaded, error,
  reveal, probe, requested, retried, fetches, names, turns, now, first, period,
  day, info, listJob, seen, plan, late, loading, picks, reloads, clock, mounted,
  open0, open1, ring, newest, onFile, seg, task, erasing, asked, from, cuts,
  cutFails, erases, held, amid, chunk, wrote, queries

WsPush == INSTANCE WsPush WITH
  Tasks <- {"web", "svc"}, Clients <- {"c"}, Cap <- 1, MaxState <- 4, MaxOps <- 4
WsRoster == INSTANCE WsRoster WITH
  MaxIds <- 2, Addrs <- Addrs, Tabs <- {"t"}, Cap <- 1, ChannelCap <- 1, Slots <- 2,
  MaxBusy <- 2
WsPage == INSTANCE WsPage WITH
  Chans <- {"a", "b"}, MaxMounts <- 3, MaxHides <- 1, MaxBad <- 2, MaxPong <- 1
PresenceRoster == INSTANCE PresenceRoster WITH
  Tabs <- {"t"}, Pages <- {"a", "b"}, None <- Nil, MaxConns <- 3, MaxNavs <- 1,
  MaxHides <- 1, MaxRests <- 1, MaxLate <- 0, MaxDrops <- 1, MaxPurges <- 1
PresenceLog == INSTANCE PresenceLog WITH
  MaxLines <- 3, Lines <- 2, Batch <- 1, FileCap <- 2, FlushSteps <- 2, MaxMiss <- 1,
  MaxFails <- 1, MaxPower <- 1
FilePage == INSTANCE FilePage WITH
  Dirs <- {"a", "b"}, First <- "a", MaxOps <- 2, MaxMoves <- 1, MaxForgets <- 1
FormTab == INSTANCE FormTab WITH
  Labels <- {"p", "s"}, Primary <- "p", Fallback <- "s", Values <- {0, 1}, None <- Nil,
  MaxReads <- 1, MaxEdits <- 1, MaxOthers <- 1, MaxOpens <- 1, MaxBad <- 1
ManifestPage == INSTANCE ManifestPage WITH
  Refs <- {"a", "b"}, Delays <- 2, None <- Nil, MaxTurns <- 1, MaxBad <- 3
HistPanel == INSTANCE HistPanel WITH
  Tiers <- <<[bucket |-> 1, keep |-> 2], [bucket |-> 2, keep |-> 4],
  [bucket |-> 4, keep |-> 12]>>,
  Spans <- [short |-> 2, long |-> 5], Ladder <- <<1, 2, 4>>, Points <- 2, Day <- 3,
  MaxPages <- 2, None <- Nil, MaxNow <- 6, MaxPicks <- 2, MaxReloads <- 1, MaxBad <- 1
HistSeries == INSTANCE HistSeries WITH
  MaxT <- 5, Span <- 0 :> 3 @@ 1 :> 6, Bucket1 <- 2, Cap <- 0 :> 2 @@ 1 :> 2,
  Keep <- 0 :> 2 @@ 1 :> 9, MaxCuts <- 1, MaxFails <- 1, MaxErases <- 1, MaxCutFails <- 1
HistQuery == INSTANCE HistQuery WITH
  MaxRow <- 5, Page <- 2, Res <- 2, Midnights <- {1, 3, 5}, Kinds <- {"json", "csv"},
  MaxQueries <- 1

\* What is not of a component.
NotWsPush == <<conn, addr, proved, stash, roster, pins, tcp, sending, overdue,
               busy, bare, want, timers, inst, armed, shown, active, silent, room,
               wire, lost, mounts, hides, bad, pongs, ref, on, pending, conns,
               rests, hand, said, raced, n, hasJob, q, file, size, writing, waits,
               done, power, web, pc, batch, due, left, upTo, misses, fails, moves,
               path, rows, seq, asks, rev, up, forgets, dev, tab, brought,
               applied, reads, data, changed, pend, dialog, focus, cache, posts,
               frame, nreads, edits, others, opens, token, has, run, manifest,
               loaded, error, reveal, probe, requested, retried, fetches, names,
               turns, now, first, period, day, info, listJob, seen, plan, late,
               loading, picks, reloads, clock, mounted, open0, open1, ring,
               newest, onFile, seg, task, erasing, asked, from, cuts, cutFails,
               erases, held, amid, chunk, wrote, queries>>
NotWsRoster == <<state, job, txq, rxq, resend, rostered, subs, slow, page, lp,
                 whom, best, ops, want, timers, inst, armed, shown, active,
                 silent, room, wire, lost, mounts, hides, bad, pongs, ref, on,
                 pending, conns, rests, hand, said, raced, n, hasJob, q, file,
                 size, writing, waits, done, power, web, pc, batch, due, left,
                 upTo, misses, fails, moves, path, rows, seq, asks, rev, up,
                 forgets, dev, tab, brought, applied, reads, data, changed, pend,
                 dialog, focus, cache, posts, frame, nreads, edits, others, opens,
                 token, has, run, manifest, loaded, error, reveal, probe,
                 requested, retried, fetches, names, turns, now, first, period,
                 day, info, listJob, seen, plan, late, loading, picks, reloads,
                 clock, mounted, open0, open1, ring, newest, onFile, seg, task,
                 erasing, asked, from, cuts, cutFails, erases, held, amid, chunk,
                 wrote, queries>>
NotWsPage == <<state, job, txq, rxq, resend, rostered, slow, page, lp, whom, best,
               ops, addr, proved, stash, roster, pins, tcp, sending, overdue,
               bare, ref, on, pending, conns, rests, hand, said, raced, n, hasJob,
               q, file, size, writing, waits, done, power, web, pc, batch, due,
               left, upTo, misses, fails, moves, path, rows, seq, asks, rev, up,
               forgets, dev, tab, brought, applied, reads, data, changed, pend,
               dialog, focus, cache, posts, frame, nreads, edits, others, opens,
               token, has, run, manifest, loaded, error, reveal, probe, requested,
               retried, fetches, names, turns, now, first, period, day, info,
               listJob, seen, plan, late, loading, picks, reloads, clock, mounted,
               open0, open1, ring, newest, onFile, seg, task, erasing, asked,
               from, cuts, cutFails, erases, held, amid, chunk, wrote, queries>>
NotPresenceRoster == <<state, job, txq, rxq, resend, rostered, subs, slow, lp,
                       whom, best, ops, conn, addr, proved, stash, pins, tcp,
                       sending, overdue, busy, bare, want, timers, inst, armed,
                       shown, silent, room, wire, lost, mounts, hides, bad, pongs,
                       hasJob, q, file, size, writing, waits, done, power, web,
                       pc, batch, due, left, upTo, misses, fails, moves, path,
                       rows, seq, asks, rev, up, forgets, dev, tab, brought,
                       applied, reads, data, changed, pend, dialog, focus, cache,
                       posts, frame, nreads, edits, others, opens, token, has,
                       run, manifest, loaded, error, reveal, probe, requested,
                       retried, fetches, names, turns, now, first, period, day,
                       info, listJob, seen, plan, late, loading, picks, reloads,
                       clock, mounted, open0, open1, ring, newest, onFile, seg,
                       task, erasing, asked, from, cuts, cutFails, erases, held,
                       amid, chunk, wrote, queries>>
NotPresenceLog == <<state, job, txq, rxq, resend, rostered, subs, slow, page, lp,
                    whom, best, ops, conn, addr, proved, stash, roster, pins, tcp,
                    sending, overdue, busy, bare, want, timers, inst, armed,
                    shown, active, silent, room, wire, mounts, hides, bad, pongs,
                    ref, on, pending, conns, rests, hand, raced, path, rows, seq,
                    asks, rev, up, forgets, dev, tab, brought, applied, reads,
                    data, changed, pend, dialog, focus, cache, posts, frame,
                    nreads, edits, others, opens, token, has, run, manifest,
                    loaded, error, reveal, probe, requested, retried, fetches,
                    names, turns, now, first, period, day, info, listJob, seen,
                    plan, late, loading, picks, reloads, clock, mounted, open0,
                    open1, ring, newest, onFile, seg, task, erasing, asked, from,
                    cuts, cutFails, erases, held, amid, chunk, wrote, queries>>
NotFilePage == <<state, job, txq, rxq, resend, rostered, subs, slow, page, lp,
                 whom, best, conn, addr, proved, stash, roster, pins, tcp,
                 sending, overdue, busy, bare, want, timers, inst, armed, shown,
                 active, silent, room, wire, lost, mounts, hides, bad, pongs, ref,
                 on, pending, conns, rests, hand, said, raced, n, hasJob, q, file,
                 size, writing, waits, done, power, web, pc, batch, due, left,
                 upTo, misses, fails, dev, tab, brought, applied, reads, data,
                 changed, pend, dialog, focus, cache, posts, frame, nreads, edits,
                 others, opens, token, has, run, manifest, loaded, error, reveal,
                 probe, requested, retried, fetches, names, turns, now, first,
                 period, day, info, listJob, seen, plan, late, loading, picks,
                 reloads, clock, mounted, open0, open1, ring, newest, onFile, seg,
                 task, erasing, asked, from, cuts, cutFails, erases, held, amid,
                 chunk, wrote, queries>>
NotFormTab == <<state, job, txq, rxq, resend, rostered, subs, slow, page, lp,
                whom, best, ops, conn, addr, proved, stash, roster, pins, tcp,
                sending, overdue, busy, bare, want, timers, inst, armed, active,
                silent, room, wire, lost, mounts, hides, pongs, ref, on, pending,
                conns, rests, hand, said, raced, n, hasJob, q, file, size,
                writing, waits, done, power, web, pc, batch, due, left, upTo,
                misses, fails, moves, path, rows, seq, asks, rev, up, forgets,
                token, has, run, manifest, loaded, error, reveal, probe,
                requested, retried, fetches, names, turns, now, first, period,
                day, info, listJob, seen, plan, late, loading, picks, reloads,
                clock, mounted, open0, open1, ring, newest, onFile, seg, task,
                erasing, asked, from, cuts, cutFails, erases, held, amid, chunk,
                wrote, queries>>
NotManifestPage == <<state, job, txq, rxq, resend, rostered, subs, slow, page, lp,
                     whom, best, ops, conn, addr, proved, stash, roster, pins,
                     tcp, sending, overdue, busy, bare, want, timers, inst, armed,
                     shown, active, silent, room, wire, lost, mounts, hides,
                     pongs, ref, on, conns, rests, hand, said, raced, n, hasJob,
                     q, file, size, writing, waits, power, web, pc, batch, due,
                     left, upTo, misses, fails, moves, path, rows, seq, asks, rev,
                     up, forgets, dev, tab, brought, applied, reads, data,
                     changed, pend, dialog, focus, cache, posts, frame, nreads,
                     edits, others, opens, now, first, period, day, info, listJob,
                     seen, plan, late, loading, picks, reloads, clock, mounted,
                     open0, open1, ring, newest, onFile, seg, task, erasing,
                     asked, from, cuts, cutFails, erases, held, amid, chunk,
                     wrote, queries>>
NotHistPanel == <<state, txq, rxq, resend, rostered, subs, slow, page, lp, whom,
                  best, ops, conn, addr, proved, stash, roster, pins, tcp,
                  sending, overdue, busy, bare, want, timers, inst, armed, shown,
                  active, silent, room, wire, lost, mounts, hides, pongs, ref, on,
                  pending, conns, rests, hand, said, raced, n, hasJob, q, file,
                  size, writing, waits, done, power, web, pc, batch, due, left,
                  upTo, misses, fails, moves, path, seq, asks, rev, up, forgets,
                  dev, tab, brought, applied, reads, data, changed, pend, dialog,
                  focus, cache, posts, frame, nreads, edits, others, opens, token,
                  has, run, manifest, loaded, reveal, probe, requested, retried,
                  fetches, names, turns, clock, mounted, open0, open1, ring,
                  newest, onFile, seg, task, erasing, asked, from, cuts, cutFails,
                  erases, held, amid, chunk, wrote, queries>>
NotHistSeries == <<state, job, txq, rxq, resend, rostered, subs, slow, page, lp,
                   whom, best, ops, conn, addr, proved, stash, roster, pins, tcp,
                   sending, overdue, busy, bare, want, timers, inst, armed, shown,
                   active, silent, room, wire, lost, mounts, hides, bad, pongs,
                   ref, on, pending, conns, rests, hand, said, raced, n, hasJob,
                   q, file, size, writing, waits, done, web, pc, batch, due, left,
                   upTo, misses, moves, path, rows, seq, asks, rev, up, forgets,
                   dev, tab, brought, applied, reads, data, changed, pend, dialog,
                   focus, cache, posts, frame, nreads, edits, others, opens,
                   token, has, run, manifest, loaded, error, reveal, probe,
                   requested, retried, fetches, names, turns, now, first, period,
                   day, info, listJob, seen, plan, late, loading, picks, reloads,
                   chunk, wrote, queries>>
NotHistQuery == <<state, job, txq, rxq, resend, rostered, subs, slow, page, lp,
                  whom, best, ops, conn, addr, proved, stash, roster, pins, tcp,
                  sending, overdue, busy, bare, want, timers, inst, armed, shown,
                  active, silent, room, wire, lost, mounts, hides, bad, pongs,
                  ref, on, pending, conns, rests, hand, said, raced, n, hasJob,
                  file, size, writing, waits, done, power, web, pc, batch, due,
                  left, upTo, misses, fails, moves, path, seq, asks, rev, up,
                  forgets, dev, tab, brought, applied, reads, data, changed, pend,
                  dialog, focus, cache, posts, frame, nreads, edits, others,
                  opens, token, has, run, manifest, loaded, error, reveal, probe,
                  requested, retried, fetches, names, turns, now, first, period,
                  day, info, listJob, seen, plan, late, loading, picks, reloads,
                  clock, mounted, open0, open1, ring, newest, seg, task, erasing,
                  asked, from, cuts, cutFails, erases, held, amid>>

Init ==
  /\ part \in Parts
  /\ part = "WsPush" => WsPush!Init
  /\ part = "WsRoster" => WsRoster!Init
  /\ part = "WsPage" => WsPage!Init
  /\ part = "PresenceRoster" => PresenceRoster!Init
  /\ part = "PresenceLog" => PresenceLog!Init
  /\ part = "FilePage" => FilePage!Init
  /\ part = "FormTab" => FormTab!Init
  /\ part = "ManifestPage" => ManifestPage!Init
  /\ part = "HistPanel" => HistPanel!Init
  /\ part = "HistSeries" => HistSeries!Init
  /\ part = "HistQuery" => HistQuery!Init
  /\ part # "WsPush" =>
       state = "-" /\ txq = "-" /\ rxq = "-" /\ resend = "-" /\ rostered = "-"
       /\ slow = "-" /\ lp = "-" /\ whom = "-" /\ best = "-"
  /\ part \notin {"WsPush", "HistPanel"} =>
       job = "-"
  /\ part \notin {"WsPush", "WsPage"} =>
       subs = "-"
  /\ part \notin {"WsPush", "PresenceRoster"} =>
       page = "-"
  /\ part \notin {"WsPush", "FilePage"} =>
       ops = "-"
  /\ part \notin {"WsRoster", "WsPage"} =>
       conn = "-" /\ busy = "-"
  /\ part # "WsRoster" =>
       addr = "-" /\ proved = "-" /\ stash = "-" /\ pins = "-" /\ tcp = "-"
       /\ sending = "-" /\ overdue = "-" /\ bare = "-"
  /\ part \notin {"WsRoster", "PresenceRoster"} =>
       roster = "-"
  /\ part # "WsPage" =>
       want = "-" /\ timers = "-" /\ inst = "-" /\ armed = "-" /\ silent = "-"
       /\ room = "-" /\ wire = "-" /\ mounts = "-" /\ hides = "-" /\ pongs = "-"
  /\ part \notin {"WsPage", "FormTab"} =>
       shown = "-"
  /\ part \notin {"WsPage", "PresenceRoster"} =>
       active = "-"
  /\ part \notin {"WsPage", "PresenceLog"} =>
       lost = "-"
  /\ part \notin {"WsPage", "FormTab", "ManifestPage", "HistPanel"} =>
       bad = "-"
  /\ part # "PresenceRoster" =>
       ref = "-" /\ on = "-" /\ conns = "-" /\ rests = "-" /\ hand = "-"
       /\ raced = "-"
  /\ part \notin {"PresenceRoster", "ManifestPage"} =>
       pending = "-"
  /\ part \notin {"PresenceRoster", "PresenceLog"} =>
       said = "-" /\ n = "-"
  /\ part # "PresenceLog" =>
       hasJob = "-" /\ file = "-" /\ size = "-" /\ writing = "-" /\ waits = "-"
       /\ web = "-" /\ pc = "-" /\ batch = "-" /\ due = "-" /\ left = "-"
       /\ upTo = "-" /\ misses = "-"
  /\ part \notin {"PresenceLog", "HistQuery"} =>
       q = "-"
  /\ part \notin {"PresenceLog", "ManifestPage"} =>
       done = "-"
  /\ part \notin {"PresenceLog", "HistSeries"} =>
       power = "-" /\ fails = "-"
  /\ part \notin {"PresenceLog", "FilePage"} =>
       moves = "-"
  /\ part # "FilePage" =>
       path = "-" /\ seq = "-" /\ asks = "-" /\ rev = "-" /\ up = "-"
       /\ forgets = "-"
  /\ part \notin {"FilePage", "HistPanel", "HistQuery"} =>
       rows = "-"
  /\ part # "FormTab" =>
       dev = "-" /\ tab = "-" /\ brought = "-" /\ applied = "-" /\ reads = "-"
       /\ data = "-" /\ changed = "-" /\ pend = "-" /\ dialog = "-" /\ focus = "-"
       /\ cache = "-" /\ posts = "-" /\ frame = "-" /\ nreads = "-" /\ edits = "-"
       /\ others = "-" /\ opens = "-"
  /\ part # "ManifestPage" =>
       token = "-" /\ has = "-" /\ run = "-" /\ manifest = "-" /\ loaded = "-"
       /\ reveal = "-" /\ probe = "-" /\ requested = "-" /\ retried = "-"
       /\ fetches = "-" /\ names = "-" /\ turns = "-"
  /\ part \notin {"ManifestPage", "HistPanel"} =>
       error = "-"
  /\ part # "HistPanel" =>
       now = "-" /\ first = "-" /\ period = "-" /\ day = "-" /\ info = "-"
       /\ listJob = "-" /\ seen = "-" /\ plan = "-" /\ late = "-" /\ loading = "-"
       /\ picks = "-" /\ reloads = "-"
  /\ part # "HistSeries" =>
       clock = "-" /\ mounted = "-" /\ open0 = "-" /\ open1 = "-" /\ ring = "-"
       /\ newest = "-" /\ seg = "-" /\ task = "-" /\ erasing = "-" /\ asked = "-"
       /\ from = "-" /\ cuts = "-" /\ cutFails = "-" /\ erases = "-" /\ held = "-"
       /\ amid = "-"
  /\ part \notin {"HistSeries", "HistQuery"} =>
       onFile = "-"
  /\ part # "HistQuery" =>
       chunk = "-" /\ wrote = "-" /\ queries = "-"

\* A step of a component, the one at work.
WsPushDoes(A) == part = "WsPush" /\ A /\ UNCHANGED <<part, NotWsPush>>
WsRosterDoes(A) == part = "WsRoster" /\ A /\ UNCHANGED <<part, NotWsRoster>>
WsPageDoes(A) == part = "WsPage" /\ A /\ UNCHANGED <<part, NotWsPage>>
PresenceRosterDoes(A) == part = "PresenceRoster" /\ A /\ UNCHANGED <<part, NotPresenceRoster>>
PresenceLogDoes(A) == part = "PresenceLog" /\ A /\ UNCHANGED <<part, NotPresenceLog>>
FilePageDoes(A) == part = "FilePage" /\ A /\ UNCHANGED <<part, NotFilePage>>
FormTabDoes(A) == part = "FormTab" /\ A /\ UNCHANGED <<part, NotFormTab>>
ManifestPageDoes(A) == part = "ManifestPage" /\ A /\ UNCHANGED <<part, NotManifestPage>>
HistPanelDoes(A) == part = "HistPanel" /\ A /\ UNCHANGED <<part, NotHistPanel>>
HistSeriesDoes(A) == part = "HistSeries" /\ A /\ UNCHANGED <<part, NotHistSeries>>
HistQueryDoes(A) == part = "HistQuery" /\ A /\ UNCHANGED <<part, NotHistQuery>>

Next ==
  \/ WsPushDoes(WsPush!Next)
  \/ WsRosterDoes(WsRoster!Next)
  \/ WsPageDoes(WsPage!Next)
  \/ PresenceRosterDoes(PresenceRoster!Next)
  \/ PresenceLogDoes(PresenceLog!Next)
  \/ FilePageDoes(FilePage!Next)
  \/ FormTabDoes(FormTab!Next)
  \/ ManifestPageDoes(ManifestPage!Next)
  \/ HistPanelDoes(HistPanel!Next)
  \/ HistSeriesDoes(HistSeries!Next)
  \/ HistQueryDoes(HistQuery!Next)

vars == <<part, state, job, txq, rxq, resend, rostered, subs, slow, page, lp,
          whom, best, ops, conn, addr, proved, stash, roster, pins, tcp, sending,
          overdue, busy, bare, want, timers, inst, armed, shown, active, silent,
          room, wire, lost, mounts, hides, bad, pongs, ref, on, pending, conns,
          rests, hand, said, raced, n, hasJob, q, file, size, writing, waits,
          done, power, web, pc, batch, due, left, upTo, misses, fails, moves,
          path, rows, seq, asks, rev, up, forgets, dev, tab, brought, applied,
          reads, data, changed, pend, dialog, focus, cache, posts, frame, nreads,
          edits, others, opens, token, has, run, manifest, loaded, error, reveal,
          probe, requested, retried, fetches, names, turns, now, first, period,
          day, info, listJob, seen, plan, late, loading, picks, reloads, clock,
          mounted, open0, open1, ring, newest, onFile, seg, task, erasing, asked,
          from, cuts, cutFails, erases, held, amid, chunk, wrote, queries>>

Spec == Init /\ [][Next]_vars

-----------------------------------------------------------------------------
Of(p, P) == part = p => P       \* an invariant of one of them
In(p, P) == part = p /\ P

AddrsAlike == Permutations(Addrs)

\* The type invariant of each.
TypesOK ==
  /\ Of("WsPush", WsPush!TypeOK) /\ Of("WsRoster", WsRoster!TypeOK) /\ Of("WsPage", WsPage!TypeOK)
  /\ Of("PresenceRoster", PresenceRoster!TypeOK) /\ Of("PresenceLog", PresenceLog!TypeOK)
  /\ Of("FilePage", FilePage!TypeOK) /\ Of("FormTab", FormTab!TypeOK)
  /\ Of("ManifestPage", ManifestPage!TypeOK) /\ Of("HistPanel", HistPanel!TypeOK)
  /\ Of("HistSeries", HistSeries!TypeOK) /\ Of("HistQuery", HistQuery!TypeOK)

\* With nothing on its way a subscribed page shows the state, a page whose socket is open
\* again is subscribed to all its components are on (WsManager.h, useWs.ts), and the
\* presence log has every line once and in order, has it waiting with a run of the job to
\* come, or counts it as lost (PresenceLogWriter.h).
NothingMissed ==
  /\ Of("WsPush", WsPush!Caught) /\ Of("WsPage", WsPage!Served)
  /\ Of("PresenceLog", PresenceLog!InOrder /\ PresenceLog!JobComes)

\* The loop task sends to living clients only, a client has the rights its own handshake
\* proved, within the caps, and a cap closes no page in view that answers (WsManager.h);
\* a tab is online by its last connection and shown on its page (PresenceService.cpp).
ClientsRight ==
  [][/\ part = "WsRoster" =>
          /\ WsRoster!SendsToTheLiving' /\ WsRoster!OwnRights' /\ WsRoster!CapsKept'
          /\ WsRoster!SparesShown
     /\ part = "PresenceRoster" => PresenceRoster!Online' /\ PresenceRoster!PageRight']_vars

\* What the pages show is what the device has: the folder it names, the values that are
\* stored, the ref's own manifest, the period chosen (FilesField.tsx, DynamicSettings.tsx,
\* ManifestLoader.tsx, useHistoryData.ts).
PagesTrue ==
  /\ Of("FilePage", FilePage!ListFresh /\ FilePage!NotTooSoon)
  /\ Of("FormTab", FormTab!NothingPhantom /\ FormTab!SavedShown)
  /\ Of("ManifestPage", ManifestPage!MissingIsTrue /\ ManifestPage!OwnManifest)
  /\ Of("HistPanel", HistPanel!PlanHeld /\ HistPanel!RowsAreThePlans)

\* The history keeps what it took and rolls up all of it, across resets, cuts and failed
\* writes, and an answer has each row once and every record (HistSeriesImpl.cpp,
\* HistoryService.cpp).
HistoryKept ==
  /\ Of("HistSeries", HistSeries!RollupWhole /\ HistSeries!TakenKept)
  /\ Of("HistQuery", HistQuery!RowsOnce /\ HistQuery!AnswerWhole)
==============================================================================
