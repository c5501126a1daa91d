----------------------------- MODULE CertLifecycle -----------------------------
(* The device certificate of modules/cert-manager (CertManagerService.cpp): the *)
(* enrollment, rotation and recovery tasks, each of which ends in an update of  *)
(* the settings (and of cert.json) and then of the TLS context, the state shown *)
(* (refreshRuntimeState after every update and once a minute), and the server   *)
(* with its operator (external: scripts/mock_mothership.py and the answers      *)
(* postEnrollOnce tells apart).                                                 *)
(*                                                                              *)
(* A certificate is the number of the key it was signed for; keys are numbered  *)
(* as they are generated.                                                       *)
EXTENDS Naturals

CONSTANTS
    Factory,    \* the build has FACTORY_CERT_BOOTSTRAP_TOKEN
    MaxKey,     \* keys generated (bound)
    MaxNow,     \* steps of the clock; a certificate lasts one (bound)
    MaxBoots    \* restarts (bound)

VARIABLES
    st,         \* the settings: pair, notAfter, token, recovery token, state
    disk,       \* cert.json
    tls,        \* the pair TLSContextService holds
    enroll, rotate, recover,   \* the three tasks
    candidate,  \* _candidateKeyPem: its key, 0 when empty
    net,        \* Wi-Fi and an enroll / recover URL
    now, sane,  \* the clock, and whether a time source set it
    server,     \* the request staged for recovery; blocked devices
    keys, boots,
    spent,      \* history: the token got a certificate this device applied ("yes"),
                \* and a reset came before its wipe was in cert.json ("lost")
    crossed     \* history: two tasks applied their certificates at once

vars == <<st, disk, tls, enroll, rotate, recover, candidate, net, now, sane, server,
          keys, boots, spent, crossed>>

NoPair == [cert |-> 0, key |-> 0, by |-> "none"]
NoReq == [csr |-> 0, cert |-> 0]
Off == [at |-> "off"]
Blank == [pair |-> NoPair, notAfter |-> 0, token |-> Factory, recToken |-> FALSE]

\* refreshRuntimeState, daysUntilExpiry
StateOf(s) ==
    IF s.pair.cert = 0 THEN "NeedsEnrollment"
    ELSE IF s.notAfter = 0 THEN "GrayZone"
    ELSE IF ~sane THEN "Ready"
    ELSE IF s.notAfter <= now THEN "GrayZone" ELSE "Ready"

Fields(s) == [pair |-> s.pair, notAfter |-> s.notAfter, token |-> s.token,
              recToken |-> s.recToken]
With(f, state) == [pair |-> f.pair, notAfter |-> f.notAfter, token |-> f.token,
                   recToken |-> f.recToken, state |-> state]

\* update(): the change, then the handler: the state again, the file, a wake.
\* saveIfChanged writes the file only when the config lock, the write gate and
\* the supply let it; otherwise the FlashWriter owes the write. (In the last boot
\* of a run, whose file nobody reads again, it always writes: a bound.)
Update(f) ==
    /\ st' = With(f, StateOf(f))
    /\ disk' \in IF boots < MaxBoots THEN {f, disk} ELSE {f}

\* Boot: CertManagerSettings::update() adopts what the file has, but never an
\* empty secret: the token left blank there stays what the build gave it.
Loaded(f) == [f EXCEPT !.token = @ \/ Factory]
Boot(f) ==
    LET s == Loaded(f) IN
    /\ st' = With(s, StateOf(s))
    /\ tls' = IF StateOf(s) = "Ready" THEN s.pair ELSE NoPair
    /\ enroll' = IF StateOf(s) = "Ready" THEN Off ELSE [at |-> "start"]
    /\ rotate' = Off /\ recover' = Off /\ candidate' = 0

Init ==
    /\ disk = Blank
    /\ st = With(Blank, "NeedsEnrollment")
    /\ tls = NoPair
    /\ enroll = [at |-> "start"] /\ rotate = Off /\ recover = Off /\ candidate = 0
    /\ net = [wifi |-> FALSE, url |-> FALSE] /\ now = 1 /\ sane = FALSE
    /\ server = [staged |-> NoReq, blocked |-> FALSE, trusted |-> FALSE]
    /\ keys = 0 /\ boots = 0
    /\ spent = "no" /\ crossed = FALSE

tasks == <<enroll, rotate, recover>>

-----------------------------------------------------------------------------
(* The surroundings                                                           *)

\* Wi-Fi comes and goes; the URL is entered once (bound)
Network ==
    /\ \/ net' = [net EXCEPT !.wifi = ~@]
       \/ (~net.url /\ net' = [net EXCEPT !.url = TRUE])
    /\ UNCHANGED <<st, disk, tls, tasks, candidate, now, sane, server, keys, boots,
                   spent, crossed>>

Clock ==
    /\ \/ (~sane /\ sane' = TRUE /\ now' = now)
       \/ (now < MaxNow /\ now' = now + 1 /\ sane' = sane)
    /\ UNCHANGED <<st, disk, tls, tasks, candidate, net, server, keys, boots, spent,
                   crossed>>

\* loop(): once a minute
Refresh ==
    /\ st.state # StateOf(st)
    /\ st' = [st EXCEPT !.state = StateOf(st)]
    /\ UNCHANGED <<disk, tls, tasks, candidate, net, now, sane, server, keys, boots,
                   spent, crossed>>

\* the page: a bootstrap token entered and saved
EnterToken ==
    /\ ~st.token
    /\ spent' = "no"
    /\ Update([Fields(st) EXCEPT !.token = TRUE])
    /\ UNCHANGED <<tls, tasks, candidate, net, now, sane, server, keys, boots,
                   crossed>>

\* the server's operator: trusts the device, blocks it, approves a recovery
Operator ==
    /\ \/ (~server.trusted /\ server' = [server EXCEPT !.trusted = TRUE])
       \/ (~server.blocked /\ server' = [server EXCEPT !.blocked = TRUE])
       \/ (/\ server.staged.csr # 0 /\ server.staged.cert # server.staged.csr
           /\ server' = [server EXCEPT !.staged.cert = server.staged.csr])
    /\ UNCHANGED <<st, disk, tls, tasks, candidate, net, now, sane, keys, boots,
                   spent, crossed>>

\* flushDeferred: the save that was put off, of the settings there are now. The
\* FlashWriter does it, and an orderly restart before it resets.
FlushDeferred ==
    /\ disk # Fields(st)
    /\ disk' = Fields(st)
    /\ UNCHANGED <<st, tls, tasks, candidate, net, now, sane, server, keys, boots,
                   spent, crossed>>

\* a reset at any moment: what the file has, the settings have
Restart ==
    /\ boots < MaxBoots
    /\ boots' = boots + 1
    /\ Boot(disk)
    /\ sane' = FALSE
    /\ crossed' = FALSE
    /\ spent' = IF spent = "yes" /\ disk.token /\ ~st.token THEN "lost" ELSE spent
    /\ UNCHANGED <<disk, net, now, server, keys>>

-----------------------------------------------------------------------------
(* A certificate that arrived                                                 *)

\* parseCertMetadata; a failure goes on with notAfter 0
Parsed == {now + 1, 0}

\* generateEcdsaKeyPair: a key no certificate was signed for yet
NewKey == keys < MaxKey /\ keys' = keys + 1

\* updateClientCert: the attached clients keep the two pairs before this one
UpdateClientCert(pair) == tls' = pair

Applying == {t \in {enroll, rotate, recover} : t.at = "tls"}

-----------------------------------------------------------------------------
(* Enrollment                                                                 *)

\* Wi-Fi, a URL, then one key pair and CSR for the life of the task
EnrollStart ==
    /\ enroll.at = "start" /\ net.wifi /\ net.url
    /\ NewKey
    /\ enroll' = [at |-> "poll", key |-> keys + 1]
    /\ UNCHANGED <<st, disk, tls, rotate, recover, candidate, net, now, sane,
                   server, boots, spent, crossed>>

\* no key pair or CSR: EnrollmentFailed, and the handler's refresh
EnrollNoKey ==
    /\ enroll.at = "start" /\ net.wifi /\ net.url
    /\ enroll' = Off
    /\ Update(Fields(st))
    /\ UNCHANGED <<tls, rotate, recover, candidate, net, now, sane, server, keys,
                   boots, spent, crossed>>

\* what goes out: nothing without a URL or a network; the token while there is one
Request ==
    IF ~net.wifi \/ ~net.url THEN "answer0" ELSE IF st.token THEN "token" ELSE "bare"

EnrollPost ==
    /\ enroll.at = "poll"
    /\ enroll' = IF st.state = "Ready" THEN Off ELSE [enroll EXCEPT !.at = Request]
    /\ UNCHANGED <<st, disk, tls, rotate, recover, candidate, net, now, sane,
                   server, keys, boots, spent, crossed>>

\* pending, no network or a server error: telemetry, and the next poll
EnrollAgain ==
    /\ enroll.at \in {"answer0", "bare", "token"}
    /\ enroll' = [enroll EXCEPT !.at = "poll"]
    /\ Update(Fields(st))
    /\ UNCHANGED <<tls, rotate, recover, candidate, net, now, sane, server, keys,
                   boots, spent, crossed>>

EnrollBlocked ==
    /\ enroll.at \in {"bare", "token"} /\ server.blocked
    /\ enroll' = Off
    /\ Update(Fields(st))
    /\ UNCHANGED <<tls, rotate, recover, candidate, net, now, sane, server, keys,
                   boots, spent, crossed>>

\* Mutant of EnrollApproved: the bootstrap token is not wiped.
EnrollApproved_Kept ==
    /\ enroll.at = "token" \/ (enroll.at = "bare" /\ server.trusted)
    /\ ~server.blocked
    /\ \E notAfter \in Parsed :
          Update([pair |-> [cert |-> enroll.key, key |-> enroll.key, by |-> "enroll"],
                     notAfter |-> notAfter, token |-> st.token, recToken |-> TRUE])
    /\ spent' = IF enroll.at = "token" THEN "yes" ELSE spent
    /\ crossed' = (crossed \/ Applying # {})
    /\ enroll' = [enroll EXCEPT !.at = "tls"]
    /\ UNCHANGED <<tls, rotate, recover, candidate, net, now, sane, server, keys,
                   boots>>

\* approved: the CSR of this request is signed; the settings take it all
EnrollApproved ==
    /\ enroll.at = "token" \/ (enroll.at = "bare" /\ server.trusted)
    /\ ~server.blocked
    /\ \E notAfter \in Parsed :
          Update([pair |-> [cert |-> enroll.key, key |-> enroll.key, by |-> "enroll"],
                     notAfter |-> notAfter, token |-> FALSE, recToken |-> TRUE])
    /\ spent' = IF enroll.at = "token" THEN "yes" ELSE spent
    /\ crossed' = (crossed \/ Applying # {})
    /\ enroll' = [enroll EXCEPT !.at = "tls"]
    /\ UNCHANGED <<tls, rotate, recover, candidate, net, now, sane, server, keys,
                   boots>>

EnrollTls ==
    /\ enroll.at = "tls"
    /\ UpdateClientCert([cert |-> enroll.key, key |-> enroll.key, by |-> "enroll"])
    /\ enroll' = Off
    /\ UNCHANGED <<st, disk, rotate, recover, candidate, net, now, sane, server,
                   keys, boots, spent, crossed>>

-----------------------------------------------------------------------------
(* Rotation: the server's renewCert command                                   *)

\* rotate(): with a valid certificate; "Renewing" until the handler's refresh
RotateStart ==
    /\ rotate = Off /\ st.state = "Ready"
    /\ NewKey
    /\ rotate' = [at |-> "post", key |-> keys + 1]
    /\ Update(Fields(st))
    /\ UNCHANGED <<tls, enroll, recover, candidate, net, now, sane, server, boots,
                   spent, crossed>>

\* no key, no answer or a refusal: "Ready (last rotate failed)", then refreshed
RotateFails ==
    /\ rotate.at = "post"
    /\ rotate' = Off
    /\ Update(Fields(st))
    /\ UNCHANGED <<tls, enroll, recover, candidate, net, now, sane, server, keys,
                   boots, spent, crossed>>

\* postCsrToRenew: over mutual TLS with the pair there is
Renewable == net.wifi /\ tls # NoPair

\* Mutant of RotateApply: the new certificate with the key there was.
RotateApply_OldKey ==
    /\ rotate.at = "post" /\ Renewable
    /\ \E notAfter \in Parsed :
          Update([Fields(st) EXCEPT !.pair.cert = rotate.key, !.pair.by = "rotate",
                     !.notAfter = notAfter])
    /\ crossed' = (crossed \/ Applying # {})
    /\ rotate' = [rotate EXCEPT !.at = "tls"]
    /\ UNCHANGED <<tls, enroll, recover, candidate, net, now, sane, server, keys,
                   boots, spent>>

RotateApply ==
    /\ rotate.at = "post" /\ Renewable
    /\ \E notAfter \in Parsed :
          Update([Fields(st) EXCEPT !.notAfter = notAfter,
                     !.pair = [cert |-> rotate.key, key |-> rotate.key, by |-> "rotate"]])
    /\ crossed' = (crossed \/ Applying # {})
    /\ rotate' = [rotate EXCEPT !.at = "tls"]
    /\ UNCHANGED <<tls, enroll, recover, candidate, net, now, sane, server, keys,
                   boots, spent>>

RotateTls ==
    /\ rotate.at = "tls"
    /\ UpdateClientCert([cert |-> rotate.key, key |-> rotate.key, by |-> "rotate"])
    /\ rotate' = Off
    /\ UNCHANGED <<st, disk, enroll, recover, candidate, net, now, sane, server,
                   keys, boots, spent, crossed>>

-----------------------------------------------------------------------------
(* Recovery: started on the page, polls until approved                        *)

RecoverStart ==
    /\ recover = Off /\ st.recToken /\ net.url
    /\ recover' = [at |-> "poll"]
    /\ Update(Fields(st))
    /\ UNCHANGED <<tls, enroll, rotate, candidate, net, now, sane, server, keys,
                   boots, spent, crossed>>

\* the candidate key: generated at the first poll, kept across them in RAM
RecoverKey ==
    /\ recover.at = "poll" /\ candidate = 0
    /\ NewKey /\ candidate' = keys + 1
    /\ UNCHANGED <<st, disk, tls, tasks, net, now, sane, server, boots, spent,
                   crossed>>

\* POST /recover: the server stages the request, or takes its newest CSR, or
\* hands out the certificate the operator approved
RecoverPost ==
    /\ recover.at = "poll" /\ candidate # 0 /\ net.wifi /\ net.url
    /\ \E heard \in BOOLEAN :
          IF server.staged.cert # 0
          THEN /\ server' = [server EXCEPT !.staged = NoReq]
               /\ recover' = IF heard THEN [at |-> "got", cert |-> server.staged.cert]
                             ELSE recover
          ELSE /\ server' = [server EXCEPT !.staged.csr = candidate]
               /\ recover' = recover
    /\ UNCHANGED <<st, disk, tls, enroll, rotate, candidate, net, now, sane, keys,
                   boots, spent, crossed>>

RecoverApply ==
    /\ recover.at = "got"
    /\ \E notAfter \in Parsed :
          Update([Fields(st) EXCEPT !.notAfter = notAfter,
                     !.pair = [cert |-> recover.cert, key |-> candidate, by |-> "recover"]])
    /\ crossed' = (crossed \/ Applying # {})
    /\ recover' = [recover EXCEPT !.at = "tls"]
    /\ UNCHANGED <<tls, enroll, rotate, candidate, net, now, sane, server, keys,
                   boots, spent>>

\* Mutant of RecoverTls: the certificate goes out with the candidate wiped.
RecoverTls_Wiped ==
    /\ recover.at = "tls"
    /\ UpdateClientCert([cert |-> recover.cert, key |-> 0, by |-> "recover"])
    /\ candidate' = 0
    /\ recover' = Off
    /\ UNCHANGED <<st, disk, enroll, rotate, net, now, sane, server, keys, boots,
                   spent, crossed>>

RecoverTls ==
    /\ recover.at = "tls"
    /\ UpdateClientCert([cert |-> recover.cert, key |-> candidate, by |-> "recover"])
    /\ candidate' = 0
    /\ recover' = Off
    /\ UNCHANGED <<st, disk, enroll, rotate, net, now, sane, server, keys, boots,
                   spent, crossed>>

Next ==
    \/ Network \/ Clock \/ Refresh \/ EnterToken \/ Operator \/ FlushDeferred \/ Restart
    \/ EnrollStart \/ EnrollNoKey \/ EnrollPost \/ EnrollAgain \/ EnrollBlocked
    \/ EnrollApproved \/ EnrollTls
    \/ RotateStart \/ RotateFails \/ RotateApply \/ RotateTls
    \/ RecoverStart \/ RecoverKey \/ RecoverPost \/ RecoverApply \/ RecoverTls

Spec == Init /\ [][Next]_vars
-----------------------------------------------------------------------------
Keys == 0..MaxKey
TypeOK ==
    /\ {st.pair.cert, st.pair.key, tls.cert, tls.key, candidate} \subseteq Keys
    /\ st.state \in {"NeedsEnrollment", "GrayZone", "Ready"}
    /\ {st.token, st.recToken, sane, crossed} \subseteq BOOLEAN
    /\ spent \in {"no", "yes", "lost"}

\* The certificate saved is the one of the key saved beside it ("Candidate
\* keypair ... reused across subsequent polls so the CSR (and thus the eventual
\* signed cert) keeps matching the same private key", CertManagerService.h:362-364).
PairMatches == st.pair.cert = st.pair.key

\* Enrollment and rotation keep to it whatever else is under way, and recovery
\* does in a device that was not restarted since it asked.
PairKept == st.pair.by # "recover" \/ boots = 0 => PairMatches

\* A token that bought a certificate is not sent again, over restarts too, in
\* a build with no token of its own ("WIPED on first successful enrollment
\* (single-use)", CertManagerService.h:94-95), unless a reset came before the
\* save with the wipe reached cert.json: the wipe and the certificate are then
\* both gone, and the spent token is what the next enrollment sends.
TokenOnce == spent = "yes" => ~(enroll.at = "token")

\* The TLS context presents the pair that is saved as soon as no task is between
\* its update and its updateClientCert, unless two tasks applied at once.
TlsCurrent == Applying = {} /\ ~crossed /\ tls # NoPair => tls = st.pair
=============================================================================
