------------------------------- MODULE MCNetwork -------------------------------
(***************************************************************************)
(* Who the device talks to: the MQTT broker, the certificate authority, the *)
(* mothership, Bluetooth peers, Telegram and the devices around.  One of    *)
(* them is at work in a behaviour, the initial state says which; the        *)
(* variables of the others are "-".                                         *)
(***************************************************************************)
EXTENDS Naturals, TLC

CONSTANTS Nil, Topics, a, b, c

VARIABLES
  part,   \* the component at work
  want, snap, wifi, event, client, will, waiting, id, acked, reconf, backoff, lp,
  hello, net, acks, broker, refused, blips, raced, slipped, clean, online,
  listeners, asked, attached, applied, sniff, active, lost, seen, pending, pusher,
  shown, missed, ops, messages, st, disk, tls, enroll, rotate, recover, candidate,
  now, sane, server, keys, boots, spent, crossed, gate, task, next, over, ring,
  failures, loader, queue, got, told, made, dropped, actions, call, live, open,
  stream, unsent, host, provider, loaded, posts, lates, lateHeads, closes,
  answers, link, scan, writing, drops, q, nextId, worker, up, sub, offset, primed,
  rev, published, inQ, srv, ran, since, linked, sock, ago, turn, inbox, rows,
  moves, misses

MqttLink == INSTANCE MqttLink WITH
  MaxGen <- 2, MaxRefused <- 1, MaxBlips <- 3
MqttTopics == INSTANCE MqttTopics WITH
  Topics <- Topics, MaxAttached <- 1, MaxSeen <- 2, MaxPending <- 1, MaxOps <- 4,
  MaxMessages <- 3
CertLifecycle == INSTANCE CertLifecycle WITH
  Factory <- FALSE, MaxKey <- 3, MaxNow <- 2, MaxBoots <- 1
CheckIn == INSTANCE CheckIn WITH
  Ring <- 3, PerCheckin <- 2, Chunks <- 3, Base <- 2, Burst <- 3, MaxNow <- 3,
  MaxActions <- 2, MaxLost <- 1, MaxBoots <- 1
TlsClient == INSTANCE TlsClient WITH
  Insecure <- FALSE, MaxPosts <- 4, MaxLate <- 1, MaxLateHead <- 0, MaxCloses <- 2,
  MaxRotations <- 2
BleLinks == INSTANCE BleLinks WITH
  Links <- {1, 2}, Peers <- {"p", "q"}, None <- Nil, Forget <- 1, MaxGen <- 1,
  MaxOps <- 2, MaxDrops <- 1
Telegram == INSTANCE Telegram WITH
  Cap <- 2, InCap <- 1, Limit <- 2, MaxRev <- 1, Kinds <- {"run"}, Tries <- 2, Quota <- 1,
  MaxMsgs <- 3, MaxCmds <- 2, MaxBoots <- 1, MaxDrops <- 1
Discovery == INSTANCE Discovery WITH
  Peers <- {"p", "q"}, Long <- {}, Slots <- 2, Interval <- 2, Timeout <- 3, MaxMoves <- 2,
  MaxMiss <- 1

\* What is not of a component.
NotMqttLink == <<clean, online, listeners, asked, attached, applied, sniff,
                 active, lost, seen, pending, pusher, shown, missed, ops,
                 messages, st, disk, tls, enroll, rotate, recover, candidate, now,
                 sane, server, keys, boots, spent, crossed, gate, task, next,
                 over, ring, failures, loader, queue, got, told, made, dropped,
                 actions, call, live, open, stream, unsent, host, provider,
                 loaded, posts, lates, lateHeads, closes, answers, link, scan,
                 writing, drops, q, nextId, worker, up, sub, offset, primed, rev,
                 published, inQ, srv, ran, since, linked, sock, ago, turn, inbox,
                 rows, moves, misses>>
NotMqttTopics == <<want, snap, wifi, event, client, will, waiting, id, acked,
                   reconf, backoff, lp, hello, net, acks, refused, blips, raced,
                   slipped, st, disk, tls, enroll, rotate, recover, candidate,
                   now, sane, server, keys, boots, spent, crossed, gate, task,
                   next, over, ring, failures, loader, queue, got, told, made,
                   dropped, actions, call, live, open, stream, unsent, host,
                   provider, loaded, posts, lates, lateHeads, closes, answers,
                   link, scan, writing, drops, q, nextId, worker, up, sub, offset,
                   primed, rev, published, inQ, srv, ran, since, linked, sock,
                   ago, turn, inbox, rows, moves, misses>>
NotCertLifecycle == <<want, snap, wifi, event, client, will, waiting, id, acked,
                      reconf, backoff, lp, hello, acks, broker, refused, blips,
                      raced, slipped, clean, online, listeners, asked, attached,
                      applied, sniff, active, lost, seen, pending, pusher, shown,
                      missed, ops, messages, gate, task, next, over, ring,
                      failures, loader, queue, got, told, made, dropped, actions,
                      call, live, open, stream, unsent, host, provider, loaded,
                      posts, lates, lateHeads, closes, answers, link, scan,
                      writing, drops, q, nextId, worker, up, sub, offset, primed,
                      rev, published, inQ, srv, ran, since, linked, sock, ago,
                      turn, inbox, rows, moves, misses>>
NotCheckIn == <<want, snap, wifi, event, client, will, waiting, id, acked, reconf,
                backoff, lp, hello, net, acks, broker, refused, blips, raced,
                slipped, clean, online, listeners, asked, attached, applied,
                sniff, active, seen, pending, pusher, shown, missed, ops,
                messages, st, disk, tls, enroll, rotate, recover, candidate, sane,
                server, keys, spent, crossed, call, live, open, stream, unsent,
                host, provider, loaded, posts, lates, lateHeads, closes, answers,
                link, scan, writing, drops, q, nextId, worker, up, sub, offset,
                primed, rev, published, inQ, srv, ran, since, linked, sock, ago,
                turn, inbox, rows, moves, misses>>
NotTlsClient == <<want, snap, wifi, event, client, will, waiting, id, acked,
                  reconf, backoff, lp, hello, net, acks, broker, refused, blips,
                  raced, slipped, clean, online, listeners, asked, attached,
                  applied, sniff, active, lost, seen, pending, pusher, shown,
                  missed, ops, messages, st, disk, tls, enroll, rotate, recover,
                  candidate, now, server, keys, boots, spent, crossed, gate, task,
                  next, over, ring, failures, loader, queue, got, told, made,
                  dropped, actions, link, scan, writing, drops, q, nextId, worker,
                  up, sub, offset, primed, rev, published, inQ, srv, ran, since,
                  linked, sock, ago, turn, inbox, rows, moves, misses>>
NotBleLinks == <<want, snap, wifi, event, client, will, waiting, id, acked,
                 reconf, backoff, lp, hello, net, acks, broker, refused, blips,
                 raced, slipped, clean, online, listeners, asked, attached,
                 applied, sniff, active, lost, seen, pending, pusher, shown,
                 missed, messages, st, disk, tls, enroll, rotate, recover,
                 candidate, now, sane, server, keys, boots, spent, crossed, gate,
                 next, over, ring, failures, loader, queue, got, told, made,
                 dropped, actions, call, live, open, stream, unsent, provider,
                 loaded, posts, lates, lateHeads, closes, answers, q, nextId,
                 worker, up, sub, offset, primed, rev, published, inQ, srv, ran,
                 since, linked, sock, ago, turn, inbox, rows, moves, misses>>
NotTelegram == <<want, snap, wifi, event, client, will, waiting, id, acked,
                 reconf, backoff, lp, hello, net, acks, broker, refused, blips,
                 raced, slipped, clean, online, listeners, attached, applied,
                 sniff, active, lost, seen, pending, pusher, shown, missed, ops,
                 messages, st, disk, tls, enroll, rotate, recover, candidate, now,
                 sane, server, keys, boots, spent, crossed, gate, task, next,
                 over, ring, failures, loader, queue, got, told, made, dropped,
                 actions, call, live, open, stream, unsent, host, provider,
                 loaded, posts, lates, lateHeads, closes, answers, link, scan,
                 writing, drops, linked, sock, ago, turn, inbox, rows, moves,
                 misses>>
NotDiscovery == <<want, snap, wifi, event, client, will, waiting, id, acked,
                  reconf, backoff, lp, hello, net, acks, broker, refused, blips,
                  raced, slipped, clean, online, listeners, asked, attached,
                  applied, sniff, active, lost, seen, pending, pusher, shown,
                  missed, ops, messages, st, disk, tls, enroll, rotate, recover,
                  candidate, now, sane, server, keys, boots, spent, crossed, gate,
                  task, next, over, ring, failures, loader, queue, got, told,
                  made, dropped, actions, call, live, stream, unsent, host,
                  provider, loaded, posts, lates, lateHeads, closes, answers,
                  link, scan, writing, drops, q, nextId, worker, up, sub, offset,
                  primed, rev, published, inQ, srv, ran, since>>

Init ==
  /\ part \in {"MqttLink", "MqttTopics", "CertLifecycle", "CheckIn", "TlsClient",
               "BleLinks", "Telegram", "Discovery"}
  /\ part = "MqttLink" => MqttLink!Init
  /\ part = "MqttTopics" => MqttTopics!Init
  /\ part = "CertLifecycle" => CertLifecycle!Init
  /\ part = "CheckIn" => CheckIn!Init
  /\ part = "TlsClient" => TlsClient!Init
  /\ part = "BleLinks" => BleLinks!Init
  /\ part = "Telegram" => Telegram!Init
  /\ part = "Discovery" => Discovery!Init
  /\ part # "MqttLink" =>
       want = "-" /\ snap = "-" /\ wifi = "-" /\ event = "-" /\ client = "-"
       /\ will = "-" /\ waiting = "-" /\ id = "-" /\ acked = "-" /\ reconf = "-"
       /\ backoff = "-" /\ lp = "-" /\ hello = "-" /\ acks = "-" /\ refused = "-"
       /\ blips = "-" /\ raced = "-" /\ slipped = "-"
  /\ part \notin {"MqttLink", "CertLifecycle"} =>
       net = "-"
  /\ part \notin {"MqttLink", "MqttTopics"} =>
       broker = "-"
  /\ part # "MqttTopics" =>
       clean = "-" /\ online = "-" /\ listeners = "-" /\ attached = "-"
       /\ applied = "-" /\ sniff = "-" /\ active = "-" /\ seen = "-"
       /\ pending = "-" /\ pusher = "-" /\ shown = "-" /\ missed = "-"
       /\ messages = "-"
  /\ part \notin {"MqttTopics", "Telegram"} =>
       asked = "-"
  /\ part \notin {"MqttTopics", "CheckIn"} =>
       lost = "-"
  /\ part \notin {"MqttTopics", "BleLinks"} =>
       ops = "-"
  /\ part # "CertLifecycle" =>
       st = "-" /\ disk = "-" /\ tls = "-" /\ enroll = "-" /\ rotate = "-"
       /\ recover = "-" /\ candidate = "-" /\ server = "-" /\ keys = "-"
       /\ spent = "-" /\ crossed = "-"
  /\ part \notin {"CertLifecycle", "CheckIn"} =>
       now = "-" /\ boots = "-"
  /\ part \notin {"CertLifecycle", "TlsClient"} =>
       sane = "-"
  /\ part # "CheckIn" =>
       gate = "-" /\ next = "-" /\ over = "-" /\ ring = "-" /\ failures = "-"
       /\ loader = "-" /\ queue = "-" /\ got = "-" /\ told = "-" /\ made = "-"
       /\ dropped = "-" /\ actions = "-"
  /\ part \notin {"CheckIn", "BleLinks"} =>
       task = "-"
  /\ part # "TlsClient" =>
       call = "-" /\ live = "-" /\ stream = "-" /\ unsent = "-" /\ provider = "-"
       /\ loaded = "-" /\ posts = "-" /\ lates = "-" /\ lateHeads = "-"
       /\ closes = "-" /\ answers = "-"
  /\ part \notin {"TlsClient", "Discovery"} =>
       open = "-"
  /\ part \notin {"TlsClient", "BleLinks"} =>
       host = "-"
  /\ part # "BleLinks" =>
       link = "-" /\ scan = "-" /\ writing = "-" /\ drops = "-"
  /\ part # "Telegram" =>
       q = "-" /\ nextId = "-" /\ worker = "-" /\ up = "-" /\ sub = "-"
       /\ offset = "-" /\ primed = "-" /\ rev = "-" /\ published = "-"
       /\ inQ = "-" /\ srv = "-" /\ ran = "-" /\ since = "-"
  /\ part # "Discovery" =>
       linked = "-" /\ sock = "-" /\ ago = "-" /\ turn = "-" /\ inbox = "-"
       /\ rows = "-" /\ moves = "-" /\ misses = "-"

\* A step of a component, the one at work.
MqttLinkDoes(A) == part = "MqttLink" /\ A /\ UNCHANGED <<part, NotMqttLink>>
MqttTopicsDoes(A) == part = "MqttTopics" /\ A /\ UNCHANGED <<part, NotMqttTopics>>
CertLifecycleDoes(A) == part = "CertLifecycle" /\ A /\ UNCHANGED <<part, NotCertLifecycle>>
CheckInDoes(A) == part = "CheckIn" /\ A /\ UNCHANGED <<part, NotCheckIn>>
TlsClientDoes(A) == part = "TlsClient" /\ A /\ UNCHANGED <<part, NotTlsClient>>
BleLinksDoes(A) == part = "BleLinks" /\ A /\ UNCHANGED <<part, NotBleLinks>>
TelegramDoes(A) == part = "Telegram" /\ A /\ UNCHANGED <<part, NotTelegram>>
DiscoveryDoes(A) == part = "Discovery" /\ A /\ UNCHANGED <<part, NotDiscovery>>

Next ==
  \/ MqttLinkDoes(MqttLink!Next)
  \/ MqttTopicsDoes(MqttTopics!Next)
  \/ CertLifecycleDoes(CertLifecycle!Next)
  \/ CheckInDoes(CheckIn!Next)
  \/ TlsClientDoes(TlsClient!Next)
  \/ BleLinksDoes(BleLinks!Next)
  \/ TelegramDoes(Telegram!Next)
  \/ DiscoveryDoes(Discovery!Next)

vars == <<part, want, snap, wifi, event, client, will, waiting, id, acked, reconf,
          backoff, lp, hello, net, acks, broker, refused, blips, raced, slipped,
          clean, online, listeners, asked, attached, applied, sniff, active, lost,
          seen, pending, pusher, shown, missed, ops, messages, st, disk, tls,
          enroll, rotate, recover, candidate, now, sane, server, keys, boots,
          spent, crossed, gate, task, next, over, ring, failures, loader, queue,
          got, told, made, dropped, actions, call, live, open, stream, unsent,
          host, provider, loaded, posts, lates, lateHeads, closes, answers, link,
          scan, writing, drops, q, nextId, worker, up, sub, offset, primed, rev,
          published, inQ, srv, ran, since, linked, sock, ago, turn, inbox, rows,
          moves, misses>>

Spec == Init /\ [][Next]_vars

-----------------------------------------------------------------------------
Of(p, P) == part = p => P       \* an invariant of one of them
In(p, P) == part = p /\ P

TopicsAlike == Permutations(Topics)

\* The type invariant of each.
TypesOK ==
  /\ Of("MqttLink", MqttLink!TypeOK) /\ Of("MqttTopics", MqttTopics!TypeOK)
  /\ Of("CertLifecycle", CertLifecycle!TypeOK) /\ Of("CheckIn", CheckIn!TypeOK)
  /\ Of("TlsClient", TlsClient!TypeOK) /\ Of("BleLinks", BleLinks!TypeOK)
  /\ Of("Telegram", Telegram!TypeOK) /\ Of("Discovery", Discovery!TypeOK)

\* The broker says online only of a device that takes it back, and the connection ends
\* up as the settings ask; it delivers all that is wanted, and the browsers are shown
\* each topic's last count (MqttSettingsService.cpp).
MqttKept ==
  /\ Of("MqttLink", MqttLink!Honest /\ MqttLink!AsAsked)
  /\ Of("MqttTopics", MqttTopics!Served /\ MqttTopics!RowsShown)

\* The key and the certificate a device keeps belong together, a token that was spent is
\* not sent again, and TLS presents the pair that is saved (CertManagerService.cpp).
CertKept ==
  Of("CertLifecycle", CertLifecycle!PairKept /\ CertLifecycle!TokenOnce /\ CertLifecycle!TlsCurrent)

\* The rest of a result is not lost between check-ins, the loader's outcome is not taken
\* for told before it is, an open panel is never far from a check-in (MothershipService.cpp);
\* and a call on the kept connection returns the answer to its own request
\* (PersistentTlsClient.cpp).
CheckInKept ==
  /\ Of("CheckIn", CheckIn!RestKept /\ CheckIn!LoaderTold /\ CheckIn!PanelPace)
  /\ Of("TlsClient", TlsClient!OwnAnswer)

\* A Bluetooth link is on the address its owner aimed it at last, and a write is on a
\* client that exists (BleService.cpp); a peer is one row, and ages out
\* (DiscoveryService.cpp).
PeersRight ==
  /\ Of("BleLinks", BleLinks!Aimed /\ BleLinks!WriterLives)
  /\ Of("Discovery", Discovery!OneRow /\ Discovery!AgesOut)

\* Telegram messages reach the chat in the order they were queued, and a command runs
\* once, across retries, lost links and restarts (TelegramService.cpp).
ChatInOrder ==
  [][part = "Telegram" => Telegram!InOrder /\ Telegram!RunsOnce']_vars
==============================================================================
