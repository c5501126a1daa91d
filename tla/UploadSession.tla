---------------------------- MODULE UploadSession ----------------------------
(***************************************************************************)
(* What an upload promises its sink and its client, whichever task makes   *)
(* the calls: the sink gets the client's bytes in order, after an open and *)
(* never after a failure; it is finished only with all of them; a sink     *)
(* that began is committed or aborted before the next upload's begins; and *)
(* the client hears "Ok" only of a committed upload.                       *)
(***************************************************************************)
EXTENDS Naturals, Sequences

CONSTANTS Lengths  \* how long an upload may be

VARIABLES
  sink,      \* "none", or where the upload's sink is
  revocable, \* an abort may still take its finish back
  length,    \* of the upload
  image,     \* what the sink was given
  answer     \* what the client was told

session == <<sink, revocable, length, image, answer>>

Over == {"none", "committed", "aborted"}
Bytes(from, to) == [i \in 1..(to - from) |-> from + i]

SessionInit ==
  /\ sink = "none" /\ revocable = FALSE /\ length = 0 /\ image = <<>> /\ answer = "none"

SessionBegin ==
  /\ sink \in Over
  /\ sink' = "fresh" /\ revocable' \in BOOLEAN /\ length' \in Lengths
  /\ image' = <<>> /\ answer' = "none"

Call(from, to) ==
  sink \in from /\ sink' \in to /\ UNCHANGED <<revocable, length, answer>>

SessionOpen == Call({"fresh"}, {"open", "failed"}) /\ UNCHANGED image

SessionWrite ==
  \/ /\ Call({"open"}, {"open"})
     /\ \E n \in 1..(length - Len(image)) :
          image' = image \o Bytes(Len(image), Len(image) + n)
  \/ Call({"open"}, {"failed"}) /\ UNCHANGED image

SessionFinish ==
  /\ Call({"open", "finishing"}, {"finishing", "done", "committed", "failed"})
  /\ sink' = "done" => revocable
  /\ Len(image) = length
  /\ UNCHANGED image

\* A finish under way is taken back only if the sink allows it.
SessionAbort ==
  /\ Call({"fresh", "open", "failed"} \cup (IF revocable THEN {"finishing", "done"} ELSE {}),
          {"aborted"})
  /\ UNCHANGED image

SessionAnswer ==
  /\ answer = "none" /\ sink # "none"
  /\ answer' = "Ok" => sink = "committed"
  /\ answer' \in {"Ok", "failed"}
  /\ UNCHANGED <<sink, revocable, length, image>>

SessionNext ==
  SessionBegin \/ SessionOpen \/ SessionWrite \/ SessionFinish \/ SessionAbort \/ SessionAnswer

SessionSpec == SessionInit /\ [][SessionNext]_session
==============================================================================
