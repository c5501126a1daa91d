------------------------------- MODULE TlsClient -------------------------------
(* PersistentTlsClient (lib/ESPRack/src/PersistentTlsClient.cpp): one POST after *)
(* another over a TLS connection that is kept, each with a deadline. What counts *)
(* is which bytes a call leaves in the connection for the next one. A line of    *)
(* the stream is taken whole; the server is external: it answers each request    *)
(* in full, at its own pace, and may close.                                      *)
EXTENDS Naturals, Sequences

CONSTANTS
    Insecure,     \* configureInsecure(): no peer check, no clock needed
    MaxPosts,     \* requests (bound)
    MaxLate,      \* deadlines that pass outside the headers (bound)
    MaxLateHead,  \* deadlines that pass in the headers (bound)
    MaxCloses,    \* connections lost or closed by the server (bound)
    MaxRotations  \* certificates replaced (bound)

VARIABLES
    call,       \* the call under way: where, its number, status, content length
    live,       \* _connection_live
    open,       \* _ssl.connected()
    stream,     \* lines that arrived and were not read
    unsent,     \* lines the server still has to send
    host,       \* _current_host
    sane,       \* the clock was set
    provider, loaded,   \* the certificate of ITLSProvider, and the one loaded (0: none)
    posts, lates, lateHeads, closes,
    answers     \* history: what each call returned, and whose answer it was

vars == <<call, live, open, stream, unsent, host, sane, provider, loaded, posts, lates,
          lateHeads, closes, answers>>

Idle == [at |-> "idle"]
\* what the server sends for request n: the status line, headers, a blank line
\* and the body ("Server: BaseHTTP/0.6 Python/3.11" has two blanks)
Reply(n) == [i \in 1..5 |-> [of |-> n, kind |-> <<"status", "server", "length", "blank",
                                                  "body">>[i]]]

Init ==
    /\ call = Idle /\ live = FALSE /\ open = FALSE /\ stream = <<>> /\ unsent = <<>>
    /\ host = "none" /\ sane = FALSE
    /\ provider \in 0..1 /\ loaded = IF Insecure THEN 0 ELSE provider
    /\ posts = 0 /\ lates = 0 /\ lateHeads = 0 /\ closes = 0
    /\ answers = {}

conn == <<live, open, stream, unsent>>
bounds == <<lates, lateHeads, closes>>
certs == <<provider, loaded>>

-----------------------------------------------------------------------------
(* The surroundings                                                           *)

Serve ==
    /\ open /\ unsent # <<>>
    /\ stream' = Append(stream, Head(unsent)) /\ unsent' = Tail(unsent)
    /\ UNCHANGED <<call, live, open, host, sane, certs, posts, bounds, answers>>

\* what arrived can still be read
Close ==
    /\ open /\ closes < MaxCloses
    /\ closes' = closes + 1
    /\ open' = FALSE /\ unsent' = <<>>
    /\ UNCHANGED <<call, live, stream, host, sane, certs, posts, lates, lateHeads, answers>>

ClockSet ==
    /\ ~sane /\ sane' = TRUE
    /\ UNCHANGED <<call, conn, host, certs, posts, bounds, answers>>

\* the certificate lifecycle puts a new pair in the provider
Rotate ==
    /\ ~Insecure /\ provider < MaxRotations
    /\ provider' = provider + 1
    /\ UNCHANGED <<call, conn, host, sane, loaded, posts, bounds, answers>>

-----------------------------------------------------------------------------
(* The connection                                                             *)

Stopped == live' = FALSE /\ open' = FALSE /\ stream' = <<>> /\ unsent' = <<>>

Answer(code, of) ==
    /\ call' = Idle
    /\ answers' = answers \cup {[call |-> call.n, code |-> code, of |-> of]}

\* an error of this call: the connection goes with it
Fail == Stopped /\ Answer("error", call.n)

\* loadCerts(); without a CA it counts as not loaded
Load == loaded' = IF Insecure THEN 0 ELSE provider

\* post(): another host drops the connection of the one before
Begin ==
    /\ call = Idle /\ posts < MaxPosts
    /\ posts' = posts + 1
    /\ call' = [at |-> "connect", n |-> posts + 1]
    /\ \E h \in {"a", "b"} :
          /\ host' = h
          /\ IF h # host THEN Stopped ELSE UNCHANGED conn
    /\ UNCHANGED <<sane, certs, bounds, answers>>

\* ensureConnected(): the connection there is
Reuse ==
    /\ call.at = "connect" /\ live /\ open
    /\ call' = [call EXCEPT !.at = "write"]
    /\ UNCHANGED <<conn, host, sane, certs, posts, bounds, answers>>

\* ... or a handshake, not before the clock is set
Handshake ==
    /\ call.at = "connect" /\ ~(live /\ open) /\ (Insecure \/ sane)
    /\ IF loaded = 0 THEN Load ELSE UNCHANGED loaded
    /\ call' = [call EXCEPT !.at = "write"]
    /\ live' = TRUE /\ open' = TRUE /\ stream' = <<>> /\ unsent' = <<>>
    /\ UNCHANGED <<host, sane, provider, posts, bounds, answers>>

NoConnection ==
    /\ call.at = "connect" /\ ~(live /\ open)
    /\ live' = IF Insecure \/ sane THEN FALSE ELSE live
    /\ IF loaded = 0 THEN Load ELSE UNCHANGED loaded
    /\ Answer("error", call.n)
    /\ UNCHANGED <<open, stream, unsent, host, sane, provider, posts, bounds>>

\* the request goes out whole ...
Write ==
    /\ call.at = "write" /\ open
    /\ unsent' = unsent \o Reply(call.n)
    /\ call' = [at |-> "status", n |-> call.n]
    /\ UNCHANGED <<live, open, stream, host, sane, certs, posts, bounds, answers>>

\* ... or not
ShortWrite ==
    /\ call.at = "write"
    /\ Fail
    /\ UNCHANGED <<host, sane, certs, posts, bounds>>

-----------------------------------------------------------------------------
(* The answer                                                                 *)

First == Head(stream)
Read == stream' = Tail(stream) /\ UNCHANGED <<live, open, unsent>>

\* readLine() came back empty: the connection is gone and drained, or (a wait
\* in waitReadable that ran out) it is late
Drained == stream = <<>> /\ ~open /\ UNCHANGED lates
Late == lates < MaxLate /\ lates' = lates + 1

\* The status line: two blanks in it, and a number between them, or 0.
ReadStatus ==
    /\ call.at = "status" /\ stream # <<>> /\ First.kind \in {"status", "server"}
    /\ \E code \in IF First.kind = "status" THEN {"ok", "refused"} ELSE {"zero"} :
          call' = [at |-> "headers", n |-> call.n, code |-> code, of |-> First.of,
                   length |-> FALSE, late |-> FALSE]
    /\ Read
    /\ UNCHANGED <<host, sane, certs, posts, bounds, answers>>

\* Mutant of BadStatus: the connection is kept.
BadStatus_Kept ==
    /\ call.at = "status"
    /\ \/ (Drained \/ Late)
       \/ (stream # <<>> /\ First.kind \in {"length", "blank"} /\ UNCHANGED lates)
    /\ Answer("error", call.n)
    /\ UNCHANGED <<conn, host, sane, certs, posts, lateHeads, closes>>

\* nothing in time, an empty line, a line without two blanks
BadStatus ==
    /\ call.at = "status"
    /\ \/ (Drained \/ Late)
       \/ (stream # <<>> /\ First.kind \in {"length", "blank"} /\ UNCHANGED lates)
    /\ Fail
    /\ UNCHANGED <<host, sane, certs, posts, lateHeads, closes>>

ReadHeader ==
    /\ call.at = "headers" /\ stream # <<>>
    /\ call' = IF First.kind = "blank" THEN [call EXCEPT !.at = "body"]
               ELSE [call EXCEPT !.length = @ \/ First.kind = "length"]
    /\ Read
    /\ UNCHANGED <<host, sane, certs, posts, bounds, answers>>

\* the deadline, or the end of the connection, ends the headers as well
HeadersEnd ==
    /\ call.at = "headers"
    /\ \/ (stream = <<>> /\ ~open /\ call' = [call EXCEPT !.at = "body"]
             /\ UNCHANGED lateHeads)
       \/ (lateHeads < MaxLateHead /\ lateHeads' = lateHeads + 1
             /\ call' = [call EXCEPT !.at = "body", !.late = TRUE])
    /\ UNCHANGED <<conn, host, sane, certs, posts, lates, closes, answers>>

\* the whole body, of which the first _max_response_bytes are kept; a status
\* without a length has none
ReadBody ==
    /\ call.at = "body" /\ (call.length => stream # <<>> /\ ~call.late)
    /\ \E close \in BOOLEAN :
          IF close THEN Stopped
          ELSE /\ stream' = IF call.length THEN Tail(stream) ELSE stream
               /\ live' = open
               /\ UNCHANGED <<open, unsent>>
    /\ Answer(call.code, call.of)
    /\ UNCHANGED <<host, sane, certs, posts, bounds>>

\* the rest of the body late, or the connection gone
BodyShort ==
    /\ call.at = "body" /\ call.length
    /\ Drained \/ Late \/ (call.late /\ UNCHANGED lates)
    /\ Fail
    /\ UNCHANGED <<host, sane, certs, posts, lateHeads, closes>>

\* hardReset(): the caller's, after failures in a row
HardReset ==
    /\ call = Idle /\ posts > 0
    /\ Stopped /\ Load
    /\ UNCHANGED <<call, host, sane, provider, posts, bounds, answers>>

Next ==
    \/ Serve \/ Close \/ ClockSet \/ Rotate
    \/ Begin \/ Reuse \/ Handshake \/ NoConnection \/ Write \/ ShortWrite
    \/ ReadStatus \/ BadStatus \/ ReadHeader \/ HeadersEnd \/ ReadBody \/ BodyShort
    \/ HardReset

Spec == Init /\ [][Next]_vars
-----------------------------------------------------------------------------
TypeOK ==
    /\ call.at \in {"idle", "connect", "write", "status", "headers", "body"}
    /\ {live, open, sane} \subseteq BOOLEAN /\ loaded <= provider

\* A call returns the answer to its own request, or an error ("we still consume
\* the rest from the socket (so the next request finds a clean stream)",
\* PersistentTlsClient.cpp:393-395).
OwnAnswer == \A a \in answers : a.code \in {"ok", "refused"} => a.of = a.call
=============================================================================
