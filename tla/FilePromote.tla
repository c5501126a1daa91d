---------------------------- MODULE FilePromote -----------------------------
(***************************************************************************)
(* An upload through the file manager: written to <target>.partial, then   *)
(* promoted over the target, one flash operation per call (FsPromote).  A  *)
(* volume that renames over a file does it at once; on the others (FAT)    *)
(* the old file steps aside as <target>.partial.old.  What a reset left    *)
(* behind is settled when the volume is mounted: on the SD card by a task  *)
(* of its own, with the volume in use.  A file is the number of the upload *)
(* it holds (0: the one the volume started with), or one of No and Part.   *)
(***************************************************************************)
EXTENDS Integers

CONSTANTS MaxUploads, MaxResets, MaxFails  \* bounds

No == -1
Part == -2    \* not all of an upload
Files == {No, Part} \cup 0..MaxUploads
Complete(f) == f >= 0

VARIABLES
  replaces,  \* renameReplaces(): the volume renames over a file
  target, partial, aside, corrupt,
  up,        \* the upload: [at, n, hashOk, fresh]; at is FsPromote's step
  purge,     \* purgeUploadDebris: [at, victim, old, there]
  deleted,   \* the admin removed the target and no upload arrived since (history)
  overlap,   \* an upload began while the debris was settled (history)
  failed,    \* operations of the volume that failed
  saved,     \* the last upload that arrived (history)
  resets

files == <<target, partial, aside, corrupt>>
vars == <<replaces, files, up, purge, deleted, overlap, failed, saved, resets>>

NoUp == [at |-> "none", n |-> 0, hashOk |-> TRUE]
NoPurge == [at |-> "none", victim |-> FALSE, old |-> FALSE, there |-> FALSE]

Init ==
  /\ replaces \in BOOLEAN
  /\ target \in {No, 0} /\ partial = No /\ aside = No /\ corrupt = No
  /\ up = NoUp /\ purge = NoPurge
  /\ deleted = FALSE /\ overlap = FALSE /\ failed = 0 /\ resets = 0
  /\ saved = target

Fails == failed < MaxFails /\ failed' = failed + 1
Works == UNCHANGED failed
At(a) == up' = [up EXCEPT !.at = a]
Rest == UNCHANGED <<replaces, deleted, overlap, saved, resets>>

-----------------------------------------------------------------------------
(* The sink of the upload pump: open, write, finish, abort. *)

Open ==
  /\ up.at = "none" /\ up.n < MaxUploads
  /\ partial' = Part
  /\ \E ok \in BOOLEAN : up' = [at |-> "write", n |-> up.n + 1, hashOk |-> ok]
  /\ overlap' = (overlap \/ purge.at # "none")
  /\ UNCHANGED <<replaces, target, aside, corrupt, purge, deleted, failed, saved, resets>>

\* The last byte is in the file, and the file closed; debris taken away meanwhile is gone.
Written ==
  /\ up.at = "write" /\ At("promote")
  /\ partial' = IF partial = No THEN No ELSE up.n
  /\ UNCHANGED <<target, aside, corrupt, purge, failed>> /\ Rest

\* A client that went keeps the .partial; a failed write removes it.
Interrupted ==
  /\ up.at = "write" /\ At("none")
  /\ \/ UNCHANGED <<partial, failed>>
     \/ Fails /\ partial' = No
  /\ UNCHANGED <<target, aside, corrupt, purge>> /\ Rest

\* renameOver(from, to): not onto a file, unless the volume replaces.
Renames(from, to) == from # No /\ (replaces \/ to = No)

\* The new file is in place; or the upload ends without it.
Arrives(at) ==
  /\ At(at) /\ saved' = up.n /\ deleted' = FALSE
  /\ UNCHANGED <<replaces, overlap, resets>>
Over == At("none") /\ Rest

\* A hash mismatch: kept as <target>.corrupt, a stale one removed first; one that could
\* not be removed stays, and the rename onto it does not go either.
Mismatch ==
  /\ up.at = "promote" /\ ~up.hashOk
  /\ \/ ~replaces /\ corrupt # No /\ corrupt' = No /\ Works /\ UNCHANGED partial /\ Rest
        /\ At("promote")
     \/ ~replaces /\ corrupt # No /\ Fails /\ UNCHANGED <<corrupt, partial>> /\ Over
     \/ (replaces \/ corrupt = No)
        /\ \/ Renames(partial, corrupt) /\ Works /\ corrupt' = partial /\ partial' = No
           \/ ~Renames(partial, corrupt) /\ Works /\ UNCHANGED <<corrupt, partial>>
           \/ Fails /\ UNCHANGED <<corrupt, partial>>
        /\ Over
  /\ UNCHANGED <<target, aside, purge>>

\* One rename does it.
Direct ==
  /\ up.at = "promote" /\ up.hashOk /\ (replaces \/ target = No)
  /\ \/ Renames(partial, target) /\ Works /\ target' = partial /\ partial' = No /\ Arrives("none")
     \/ (Fails \/ (~Renames(partial, target) /\ Works)) /\ UNCHANGED <<target, partial>> /\ Over
  /\ UNCHANGED <<aside, corrupt, purge>>

\* A stale old one is the older copy: removed, then this step again.
Stale ==
  /\ up.at = "promote" /\ up.hashOk /\ ~replaces /\ target # No /\ aside # No
  /\ Works /\ aside' = No
  /\ UNCHANGED <<target, partial, corrupt, up, purge>> /\ Rest

\* Fault: the old file is removed, not put aside.
StepAside_Removed ==
  /\ up.at = "promote" /\ up.hashOk /\ ~replaces /\ target # No /\ aside = No
  /\ Works /\ target' = No /\ UNCHANGED aside /\ At("swap") /\ Rest
  /\ UNCHANGED <<partial, corrupt, purge>>
StepAside ==
  /\ up.at = "promote" /\ up.hashOk /\ ~replaces /\ target # No /\ aside = No
  /\ \/ Works /\ aside' = target /\ target' = No /\ At("swap") /\ Rest
     \/ Fails /\ UNCHANGED <<aside, target>> /\ Over
  /\ UNCHANGED <<partial, corrupt, purge>>

\* The new one in; when it does not go, the old one back.
Swap ==
  /\ up.at = "swap"
  /\ \/ Renames(partial, target) /\ Works /\ target' = partial /\ partial' = No
        /\ UNCHANGED aside /\ Arrives("tidy")
     \/ (Fails \/ (~Renames(partial, target) /\ Works)) /\ UNCHANGED partial /\ Over
        /\ \/ Renames(aside, target) /\ target' = aside /\ aside' = No
           \/ ~Renames(aside, target) /\ UNCHANGED <<target, aside>>
  /\ UNCHANGED <<corrupt, purge>>

Tidy ==
  /\ up.at = "tidy"
  /\ \/ Works /\ aside' = No
     \/ Fails /\ UNCHANGED aside
  /\ Over
  /\ UNCHANGED <<target, partial, corrupt, purge>>

\* The file manager: the target removed, the corrupt file left alone.
Delete ==
  /\ target # No /\ target' = No /\ deleted' = TRUE
  /\ UNCHANGED <<replaces, partial, aside, corrupt, up, purge, overlap, failed, saved, resets>>

-----------------------------------------------------------------------------
(* A reset, and the mount after it. *)

\* A file open for writing has no length on the volume yet.
Reset ==
  /\ resets < MaxResets /\ resets' = resets + 1
  /\ up' = [NoUp EXCEPT !.n = up.n]
  /\ purge' = [NoPurge EXCEPT !.at = "scan"]
  /\ UNCHANGED <<replaces, files, deleted, overlap, failed, saved>>

\* One directory is listed, then its debris removed, then its old files settled.
Scan ==
  /\ purge.at = "scan"
  /\ purge' = [at |-> "victims", victim |-> partial # No, old |-> aside # No, there |-> FALSE]
  /\ UNCHANGED <<files, up, failed>> /\ Rest

Victims ==
  /\ purge.at = "victims"
  /\ partial' = IF purge.victim THEN No ELSE partial
  /\ purge' = [purge EXCEPT !.at = IF purge.old THEN "look" ELSE "none"]
  /\ UNCHANGED <<target, aside, corrupt, up, failed>> /\ Rest

\* restoreOld(): is the target there?  Then what that says.
Look ==
  /\ purge.at = "look"
  /\ purge' = [purge EXCEPT !.at = "settle", !.there = target # No]
  /\ UNCHANGED <<files, up, failed>> /\ Rest

\* Fault: the old copy is debris too.
Settle_Removed ==
  /\ purge.at = "settle" /\ Works /\ aside' = No
  /\ purge' = NoPurge
  /\ UNCHANGED <<target, partial, corrupt, up>> /\ Rest
Settle ==
  /\ purge.at = "settle"
  /\ \/ purge.there /\ Works /\ aside' = No /\ UNCHANGED target
     \/ ~purge.there /\ Works /\ aside # No /\ target = No /\ target' = aside /\ aside' = No
     \/ (Fails \/ (Works /\ ~purge.there /\ (aside = No \/ target # No))) /\ UNCHANGED <<target, aside>>
  /\ purge' = NoPurge
  /\ UNCHANGED <<partial, corrupt, up>> /\ Rest

Next ==
  \/ Open \/ Written \/ Interrupted \/ Mismatch \/ Direct \/ Stale \/ StepAside \/ Swap \/ Tidy
  \/ Delete \/ Reset \/ Scan \/ Victims \/ Look \/ Settle

Spec == Init /\ [][Next]_vars

TypeOK ==
  /\ {target, partial, aside, corrupt} \subseteq Files /\ saved \in Files
  /\ up.at \in {"none", "write", "promote", "swap", "tidy"} /\ up.n \in 0..MaxUploads
  /\ purge.at \in {"none", "scan", "victims", "look", "settle"}
  /\ {replaces, deleted, overlap} \subseteq BOOLEAN

\* "Never a moment with neither the old file nor the new one on the volume": the file that
\* last arrived, or a later one, is there under the target's name or put aside.
Somewhere == saved # No /\ ~deleted => \E f \in {target, aside} : f >= saved
NeverNeither == ~overlap => Somewhere
NeitherAtAll == Somewhere

\* The target's name never shows part of a file (LIB-FIX-007), nor one whose hash did not match.
TargetWhole == target # Part

\* Once the debris is settled, the target has the file back, unless the volume failed.
Settled ==
  purge.at = "none" /\ up.at \in {"none", "write"} /\ failed = 0 /\ ~overlap
    => (saved # No /\ ~deleted => target >= saved)
-----------------------------------------------------------------------------
(* What the promises rest on. *)

PromoteAssumption == MaxUploads \in Nat

TypeInv ==
  /\ target \in Files /\ partial \in Files /\ aside \in Files /\ corrupt \in Files
  /\ saved \in Files /\ saved # Part
  /\ up \in [at : {"none", "write", "promote", "swap", "tidy"}, n : 0..MaxUploads, hashOk : BOOLEAN]
  /\ purge \in [at : {"none", "scan", "victims", "look", "settle"},
                victim : BOOLEAN, old : BOOLEAN, there : BOOLEAN]
  /\ replaces \in BOOLEAN /\ deleted \in BOOLEAN /\ overlap \in BOOLEAN /\ failed \in Nat

\* What can come under the target's name is whole.
WholeInv ==
  /\ target # Part /\ aside # Part
  /\ up.at \in {"promote", "swap"} => partial \in {No, up.n}
  /\ up.at \in {"swap", "tidy"} => ~replaces

\* No upload is under way while the debris is settled, and what the settling saw is so.
DebrisInv ==
  ~overlap => /\ purge.at # "none" => up.at = "none"
              /\ purge.at = "settle" /\ purge.there => target # No \/ deleted
              /\ up.at = "tidy" => target # No \/ deleted

\* The file that arrived is under the target's name, or put aside and the name free.
KeptInv ==
  ~overlap /\ ~deleted /\ saved # No =>
    IF target # No THEN target >= saved ELSE aside >= saved

\* A name that is free gets its file back: the upload sees to it, or the settling.
BackInv ==
  ~overlap /\ ~deleted /\ saved # No /\ target = No /\ failed = 0 =>
    \/ up.at = "swap" \/ purge.at \in {"scan", "look"}
    \/ purge.at = "victims" /\ purge.old
    \/ purge.at = "settle" /\ ~purge.there

IInv == TypeInv /\ WholeInv /\ DebrisInv /\ KeptInv /\ BackInv

=============================================================================
