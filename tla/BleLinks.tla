-------------------------------- MODULE BleLinks --------------------------------
(* Bluetooth links (modules/ble/src/BleService.cpp): the ble task goes over the   *)
(* host, the scan and the links, one link after another; the host's callbacks     *)
(* report advertisements, the end of a scan and a lost connection; the owners of  *)
(* the links aim, enable, write to and release them at any time. A link without   *)
(* an address of its own looks for a peer by scanning.                            *)
EXTENDS Naturals, FiniteSets

CONSTANTS
    Links,      \* the slots, 1..kMaxLinks
    Peers,      \* addresses
    None,
    Forget,     \* kForgetDiscoveredAfter
    MaxGen,     \* ends of scans (bound)
    MaxOps,     \* calls of the owners and the page (bound)
    MaxDrops    \* connections lost (bound)

VARIABLES
    link,       \* the slots
    task,       \* the ble task
    host,       \* up, wanted, shutting down
    scan,       \* on, generation, requested
    writing,    \* the link an owner is in writeValue() of, holding its writeMx
    ops, drops

vars == <<link, task, host, scan, writing, ops, drops>>

Empty == [used |-> FALSE, rel |-> FALSE, dirty |-> FALSE, on |-> FALSE, target |-> None,
          peer |-> None, found |-> FALSE, fails |-> 0, cand |-> None, gen |-> 0,
          st |-> "off", client |-> None, conn |-> FALSE, writer |-> FALSE,
          dropped |-> FALSE]
Pass == [at |-> "pass"]

Init ==
    /\ link = [l \in Links |-> Empty]
    /\ task = Pass
    /\ host = [up |-> FALSE, want |-> TRUE, shut |-> FALSE]
    /\ scan = [on |-> FALSE, gen |-> 0, asked |-> FALSE]
    /\ writing = None /\ ops = 0 /\ drops = 0

bounds == <<ops, drops>>

-----------------------------------------------------------------------------
(* The owners of the links and the page                                       *)

Op == ops < MaxOps /\ ops' = ops + 1
Edit(l, r) == link' = [link EXCEPT ![l] = r]

\* registerLink: the first free slot; an address, or found by its name
Register ==
    /\ Op
    /\ \E l \in Links, t \in Peers \cup {None}, e \in BOOLEAN :
          /\ ~link[l].used /\ \A m \in Links : m < l => link[m].used
          /\ Edit(l, [Empty EXCEPT !.used = TRUE, !.on = e, !.target = t, !.peer = t,
                      !.client = link[l].client, !.conn = link[l].conn,
                      !.writer = link[l].writer,
                      !.st = IF e THEN "backoff" ELSE "off"])
    /\ UNCHANGED <<task, host, scan, writing, drops>>

\* setTarget, setEnabled, reconnect: drop and start over
Aim ==
    /\ Op
    /\ \E l \in Links, t \in Peers \cup {None}, e \in BOOLEAN :
          /\ link[l].used
          /\ Edit(l, [link[l] EXCEPT !.target = t, !.on = e, !.dirty = TRUE])
    /\ UNCHANGED <<task, host, scan, writing, drops>>

Release ==
    /\ Op
    /\ \E l \in Links : link[l].used /\ Edit(l, [link[l] EXCEPT !.rel = TRUE])
    /\ UNCHANGED <<task, host, scan, writing, drops>>

\* write(): under writeMx, with the writer and the state checked there
Write ==
    /\ writing = None
    /\ \E l \in Links : link[l].st = "connected" /\ link[l].writer /\ writing' = l
    /\ UNCHANGED <<link, task, host, scan, bounds>>

Written ==
    /\ writing # None /\ writing' = None
    /\ UNCHANGED <<link, task, host, scan, bounds>>

\* a save of the settings, handed over by loop()
Save ==
    /\ Op
    /\ host' = [host EXCEPT !.want = ~@]
    /\ UNCHANGED <<link, task, scan, writing, drops>>

RequestScan ==
    /\ Op /\ host.want /\ ~host.shut
    /\ scan' = [scan EXCEPT !.asked = TRUE]
    /\ UNCHANGED <<link, task, host, writing, drops>>

\* end(): the shutdown hook
End ==
    /\ ~host.shut /\ host' = [host EXCEPT !.shut = TRUE]
    /\ UNCHANGED <<link, task, scan, writing, bounds>>

-----------------------------------------------------------------------------
(* The host's callbacks                                                       *)

\* onResult: the first match for each link that waits for one, unless another
\* link has that peer
Taken(l, p) == \E m \in Links \ {l} : link[m].used /\ link[m].peer = p
Advert ==
    /\ scan.on
    /\ \E p \in Peers :
          link' = [l \in Links |->
                     IF link[l].used /\ link[l].st = "discovering" /\ link[l].cand = None
                        /\ ~Taken(l, p)
                     THEN [link[l] EXCEPT !.cand = p] ELSE link[l]]
    /\ UNCHANGED <<task, host, scan, writing, bounds>>

ScanEnd ==
    /\ scan.on /\ scan.gen < MaxGen
    /\ scan' = [scan EXCEPT !.on = FALSE, !.gen = @ + 1]
    /\ UNCHANGED <<link, task, host, writing, bounds>>

\* onDisconnect
Drop ==
    /\ drops < MaxDrops /\ drops' = drops + 1
    /\ \E l \in Links :
          /\ link[l].conn
          /\ Edit(l, [link[l] EXCEPT !.conn = FALSE, !.dropped = TRUE])
    /\ UNCHANGED <<task, host, scan, writing, ops>>

-----------------------------------------------------------------------------
(* The task: the host and the scan                                            *)

Want == host.want /\ ~host.shut
\* the writer is taken away under writeMx, so not within a write
Free(l) == writing # l
Cut(r) == [r EXCEPT !.writer = FALSE, !.conn = FALSE]

\* restartDevice(): the scan and the links down, then parked
PassShutdown ==
    /\ task = Pass /\ host.up /\ host.shut
    /\ \A l \in Links : Free(l)
    /\ link' = [l \in Links |-> Cut(link[l])]
    /\ scan' = [scan EXCEPT !.on = FALSE]
    /\ task' = [at |-> "parked"]
    /\ UNCHANGED <<host, writing, bounds>>

\* the radio is switched off: every client disconnected and deleted
PassOff ==
    /\ task = Pass /\ host.up /\ ~host.shut /\ ~Want
    /\ \A l \in Links : Free(l)
    /\ link' = [l \in Links |->
                  [Cut(link[l]) EXCEPT !.client = None, !.dropped = FALSE,
                                       !.st = IF link[l].used THEN "off" ELSE @]]
    /\ scan' = [scan EXCEPT !.on = FALSE, !.asked = FALSE]
    /\ host' = [host EXCEPT !.up = FALSE]
    /\ UNCHANGED <<task, writing, bounds>>

\* NimBLEDevice::init, which may fail
PassUp ==
    /\ task = Pass /\ ~host.up /\ Want
    /\ scan' = [scan EXCEPT !.asked = FALSE]
    /\ \/ /\ host' = [host EXCEPT !.up = TRUE]
          /\ link' = [l \in Links |-> IF link[l].used /\ link[l].on
                                      THEN [link[l] EXCEPT !.st = "backoff"] ELSE link[l]]
       \/ UNCHANGED <<host, link>>
    /\ UNCHANGED <<task, writing, bounds>>

\* shutting down with the host off: nothing to take down
PassDown ==
    /\ task = Pass /\ ~host.up /\ host.shut
    /\ task' = [at |-> "parked"]
    /\ UNCHANGED <<link, host, scan, writing, bounds>>

\* a link that waits for a scan that ends after it began to wait
Waiting == {l \in Links : /\ link[l].used /\ link[l].st = "discovering"
                          /\ link[l].cand = None /\ link[l].gen = scan.gen}

First == CHOOSE l \in Links : \A m \in Links : l <= m

\* a user's scan first, else one for the links; a scan refused counts as empty
PassScan ==
    /\ task = Pass /\ host.up /\ Want
    /\ \E started \in BOOLEAN :
          scan' = IF scan.asked THEN [scan EXCEPT !.asked = FALSE, !.on = started]
                  ELSE IF Waiting # {} /\ ~scan.on
                       THEN IF started THEN [scan EXCEPT !.on = TRUE]
                            ELSE [scan EXCEPT !.gen = IF @ < MaxGen THEN @ + 1 ELSE @]
                       ELSE scan
    /\ task' = [at |-> "link", l |-> First]
    /\ UNCHANGED <<link, host, writing, bounds>>

-----------------------------------------------------------------------------
(* The task: one link                                                         *)

On(at) == task.at = at
L == link[task.l]
Onward ==
    task' = IF \E m \in Links : m > task.l
            THEN [at |-> "link", l |-> task.l + 1] ELSE Pass
Becomes(r) == Edit(task.l, r)

\* under the lock: what is asked for, and the request is cleared with it
Snapshot ==
    /\ On("link") /\ L.used
    /\ task' = [at |-> "do", l |-> task.l, rel |-> L.rel, dirty |-> L.dirty, on |-> L.on,
                st |-> L.st]
    /\ Becomes([L EXCEPT !.dirty = FALSE])
    /\ UNCHANGED <<host, scan, writing, bounds>>

Skip ==
    /\ On("link") /\ ~L.used
    /\ Onward
    /\ UNCHANGED <<link, host, scan, writing, bounds>>

\* Mutant of Released: the client is deleted without waiting for a writer.
Released_Now ==
    /\ On("do") /\ task.rel
    /\ Becomes([Empty EXCEPT !.dirty = L.dirty, !.on = L.on, !.target = L.target,
                             !.peer = L.peer])
    /\ Onward
    /\ UNCHANGED <<host, scan, writing, bounds>>

Released ==
    /\ On("do") /\ task.rel /\ Free(task.l)
    /\ Becomes([Empty EXCEPT !.dirty = L.dirty, !.on = L.on, !.target = L.target,
                             !.peer = L.peer])
    /\ Onward
    /\ UNCHANGED <<host, scan, writing, bounds>>

\* aimed anew: the configured peer, or none and looked for
Redo ==
    /\ On("do") /\ ~task.rel /\ task.dirty /\ Free(task.l)
    /\ LET st == IF task.on THEN "backoff" ELSE "off" IN
       /\ Becomes([Cut(L) EXCEPT !.peer = L.target, !.found = FALSE, !.fails = 0,
                                 !.cand = None, !.dropped = FALSE, !.st = st])
       /\ task' = [task EXCEPT !.dirty = FALSE, !.st = st]
    /\ UNCHANGED <<host, scan, writing, bounds>>

Handled == On("do") /\ ~task.rel /\ ~task.dirty

SwitchedOff ==
    /\ Handled /\ ~task.on
    /\ IF task.st = "off" THEN UNCHANGED link
       ELSE Free(task.l) /\ Becomes([Cut(L) EXCEPT !.st = "off"])
    /\ Onward
    /\ UNCHANGED <<host, scan, writing, bounds>>

\* a link that is on is never found "off" here: whoever switches it on asks for a Redo
In(st) == Handled /\ task.on /\ task.st = st

\* the backoff not over yet, or a scan is on: connecting would be refused
StayBack ==
    /\ In("backoff")
    /\ Onward
    /\ UNCHANGED <<link, host, scan, writing, bounds>>

Discover ==
    /\ In("backoff") /\ L.peer = None
    /\ Becomes([L EXCEPT !.cand = None, !.gen = scan.gen, !.st = "discovering"])
    /\ Onward
    /\ UNCHANGED <<host, scan, writing, bounds>>

Connect ==
    /\ In("backoff") /\ L.peer # None /\ ~scan.on
    /\ Becomes([L EXCEPT !.st = "connecting", !.dropped = FALSE])
    /\ task' = [at |-> "connect", l |-> task.l, peer |-> L.peer]
    /\ UNCHANGED <<host, scan, writing, bounds>>

\* Mutant of Connected: a fresh connection has no request waiting.
Connected_Fresh ==
    /\ On("connect")
    /\ Becomes([L EXCEPT !.client = task.peer, !.conn = TRUE, !.writer = TRUE, !.fails = 0,
                         !.st = "connected", !.dirty = FALSE])
    /\ Onward
    /\ UNCHANGED <<host, scan, writing, bounds>>

\* connected, the service and the characteristics found, subscribed
Connected ==
    /\ On("connect")
    /\ Becomes([L EXCEPT !.client = task.peer, !.conn = TRUE, !.writer = TRUE, !.fails = 0,
                         !.st = "connected"])
    /\ Onward
    /\ UNCHANGED <<host, scan, writing, bounds>>

\* fail(): a peer that was found and failed Forget times is looked for again
ConnectFails ==
    /\ On("connect") /\ Free(task.l)
    /\ LET forget == L.found /\ L.fails + 1 >= Forget
           count == IF L.found THEN L.fails + 1 ELSE L.fails IN
       Becomes([Cut(L) EXCEPT !.client = task.peer, !.st = "backoff",
                              !.peer = IF forget THEN None ELSE @,
                              !.found = @ /\ ~forget, !.fails = IF forget THEN 0 ELSE count])
    /\ Onward
    /\ UNCHANGED <<host, scan, writing, bounds>>

Discovered ==
    /\ In("discovering")
    /\ IF L.cand # None
       THEN Becomes([L EXCEPT !.peer = L.cand, !.found = TRUE, !.fails = 0, !.cand = None,
                              !.st = "backoff"])
       ELSE IF ~scan.on /\ scan.gen # L.gen THEN Becomes([L EXCEPT !.st = "backoff"])
       ELSE UNCHANGED link
    /\ Onward
    /\ UNCHANGED <<host, scan, writing, bounds>>

Watch ==
    /\ In("connected")
    /\ IF L.dropped \/ ~L.conn
       THEN Free(task.l) /\ Becomes([Cut(L) EXCEPT !.dropped = FALSE, !.st = "backoff"])
       ELSE UNCHANGED link
    /\ Onward
    /\ UNCHANGED <<host, scan, writing, bounds>>

Next ==
    \/ Register \/ Aim \/ Release \/ Write \/ Written \/ Save \/ RequestScan \/ End
    \/ Advert \/ ScanEnd \/ Drop
    \/ PassShutdown \/ PassOff \/ PassUp \/ PassDown \/ PassScan
    \/ Snapshot \/ Skip \/ Released \/ Redo \/ SwitchedOff \/ StayBack
    \/ Discover \/ Connect \/ Connected \/ ConnectFails \/ Discovered \/ Watch

Spec == Init /\ [][Next]_vars
-----------------------------------------------------------------------------
TypeOK ==
    /\ \A l \in Links : link[l].st \in {"off", "backoff", "discovering", "connecting",
                                        "connected"}
    /\ scan.gen \in 0..MaxGen /\ task.at \in {"pass", "link", "do", "connect", "parked"}

\* A link that is connected, with no request waiting for the task, is connected to
\* the address its owner aimed it at last, and its owner still wants it, whenever
\* the request came (spec.address, dirty: BleService.cpp:234-252, 1087-1149).
Aimed ==
    \A l \in Links :
        /\ link[l].used /\ link[l].st = "connected" /\ ~link[l].dirty
        /\ ~(task.at = "do" /\ task.l = l /\ task.dirty)
        => link[l].on /\ (link[l].target # None => link[l].client = link[l].target)

\* writeValue() runs on a client that exists: the task waits for writeMx before it
\* takes the writer away and deletes the client.
WriterLives == writing # None => link[writing].client # None

\* "Not a peer another link already uses" (BleService.cpp:326): no two links end up
\* with one peer both found by scanning.
PeersApart ==
    \A l, m \in Links :
        l # m /\ link[l].used /\ link[m].used /\ link[l].found /\ link[m].found
        => link[l].peer # link[m].peer
=============================================================================
