----------------------------- MODULE ManifestPage -----------------------------
(* What the web page knows of the device: the manifest (ManifestLoader.tsx), read   *)
(* again at every sign in and out behind the overlay that probes the modules        *)
(* (ManifestProgress.tsx), and the actions of a feature, which the manifest leaves  *)
(* out and which are fetched when a page needs them. One feature stands for all.    *)
EXTENDS Naturals

CONSTANTS
    Refs,       \* actions of the feature, in some firmware
    Delays,     \* retries of the manifest
    None,
    MaxTurns,   \* signing out, failed fetches of actions, firmware updates (bound)
    MaxBad      \* reads of the manifest that fail (bound)

VARIABLES
    token,      \* signed in
    has,        \* the actions the device's firmware has
    run,        \* loadManifest
    manifest,   \* full or the stub; the actions that joined it
    loaded, error, reveal,  \* the loader's states; reveal: the page is mounted
    probe,      \* ManifestProgress
    requested, done,        \* requestedActions, actionsDone
    retried, pending,       \* retriedRefs, retryPending
    fetches,    \* readFeatureActions under way: the missing action each is for, or None
    names,      \* actions the open page's form names, or None
    turns, bad

vars == <<token, has, run, manifest, loaded, error, reveal, probe, requested, done, retried, pending, fetches, names,
          turns, bad>>
loader == <<run, loaded, error, probe>>
actions == <<requested, done, retried, pending, fetches>>

Idle == [at |-> "idle", try |-> 0, as |-> FALSE]
Turn == turns < MaxTurns /\ turns' = turns + 1

Init ==
    /\ token \in BOOLEAN /\ has \in (SUBSET Refs) \ {{}}
    /\ run = [Idle EXCEPT !.at = "ask"]
    /\ manifest = [full |-> FALSE, acts |-> {}]
    /\ loaded = FALSE /\ error = FALSE /\ reveal = FALSE /\ probe = "none"
    /\ requested = FALSE /\ done = FALSE /\ retried = {} /\ pending = {} /\ fetches = {}
    /\ names = None /\ turns = 0 /\ bad = 0

(* loadManifest *)
Ask ==
    /\ run.at = "ask" /\ run' = [run EXCEPT !.at = "sent", !.as = token]
    /\ UNCHANGED <<token, has, manifest, loaded, error, reveal, probe, actions, names, turns, bad>>

Told(full) ==
    /\ manifest' = [full |-> full, acts |-> {}]
    /\ loaded' = TRUE /\ run' = Idle
Answered ==
    /\ run.at = "sent"
    /\ Told(run.as) /\ error' = FALSE
    /\ probe' = IF run.as THEN "probing" ELSE "none"
    /\ UNCHANGED <<token, has, reveal, actions, names, turns, bad>>

\* 1, 2, 4, 8 and 16 s later again; at last the page comes without a manifest
Failed ==
    /\ run.at = "sent" /\ bad < MaxBad /\ bad' = bad + 1
    /\ error' = TRUE /\ probe' = "none"
    /\ IF run.try < Delays
         THEN run' = [run EXCEPT !.at = "wait", !.try = @ + 1] /\ UNCHANGED <<manifest, loaded>>
         ELSE Told(FALSE)
    /\ UNCHANGED <<token, has, reveal, actions, names, turns>>

Again ==
    /\ run.at = "wait" /\ run' = [run EXCEPT !.at = "ask"]
    /\ UNCHANGED <<token, has, manifest, loaded, error, reveal, probe, actions, names, turns, bad>>

(* ManifestProgress: the modules are probed one after another, then the page comes *)
Probed ==
    /\ loaded /\ ~error /\ probe = "probing" /\ probe' = "none"
    /\ UNCHANGED <<token, has, run, manifest, loaded, error, reveal, actions, names, turns, bad>>

Reveal_Walked ==
    /\ loaded /\ ~reveal /\ ~error /\ probe = "none"
    /\ reveal' = TRUE
    /\ UNCHANGED <<token, has, manifest, loader, actions, names, turns, bad>>
Reveal ==
    /\ loaded /\ ~reveal /\ (error \/ probe = "none")
    /\ reveal' = TRUE
    /\ UNCHANGED <<token, has, manifest, loader, actions, names, turns, bad>>

(* Authentication: both load the manifest again, and the page goes behind the overlay *)
Reload_Behind ==
    /\ names' = None
    /\ run' = [Idle EXCEPT !.at = "ask"] /\ probe' = "none"
    /\ UNCHANGED <<manifest, loaded, error, reveal>>
Reload ==
    /\ loaded' = FALSE /\ reveal' = FALSE /\ names' = None
    /\ run' = [Idle EXCEPT !.at = "ask"] /\ probe' = "none"
    /\ UNCHANGED <<manifest, error>>

signIn ==
    /\ reveal /\ ~token /\ token' = TRUE /\ Reload
    /\ UNCHANGED <<has, actions, turns, bad>>

signOut ==
    /\ reveal /\ token /\ Turn /\ token' = FALSE /\ Reload
    /\ UNCHANGED <<has, actions, bad>>

(* ensureActions: for the feature, or for an action its form names and the list lacks *)
Retries(ref) == ref # None /\ done /\ ref \notin retried
ensureActions(ref) ==
    /\ retried' = IF Retries(ref) THEN retried \cup {ref} ELSE retried
    /\ pending' = IF Retries(ref) THEN pending \cup {ref} ELSE pending
    /\ requested' = TRUE
    /\ fetches' = IF requested /\ ~Retries(ref) THEN fetches ELSE fetches \cup {ref}
    /\ UNCHANGED done

Ended(ref) ==
    /\ fetches' = fetches \ {ref} /\ done' = TRUE
    /\ pending' = pending \ {ref}
    /\ UNCHANGED retried
Fetched(ref) == Ended(ref) /\ manifest' = [manifest EXCEPT !.acts = @ \cup has] /\ UNCHANGED requested
ActionsCome ==
    /\ \E ref \in fetches : Fetched(ref)
    /\ UNCHANGED <<token, has, loader, reveal, names, turns, bad>>

ActionsFail ==
    /\ Turn
    /\ \E ref \in fetches : Ended(ref) /\ requested' = FALSE
    /\ UNCHANGED <<token, has, manifest, loader, reveal, names, bad>>

(* The page *)
Open ==
    /\ reveal /\ manifest.full /\ names = None
    /\ names' = has                    \* the form is read when it is mounted
    /\ ensureActions(None)
    /\ UNCHANGED <<token, has, manifest, loader, reveal, turns, bad>>

Leave ==
    /\ names # None /\ names' = None
    /\ UNCHANGED <<token, has, manifest, loader, reveal, actions, turns, bad>>

Refetch ==
    /\ names # None /\ names # has /\ names' = has
    /\ UNCHANGED <<token, has, manifest, loader, reveal, actions, turns, bad>>

actionsLoaded_Done(ref) == done
actionsLoaded(ref) == done /\ ref \in retried /\ ref \notin pending
Lacks(ref) == names # None /\ ref \in names /\ ref \notin manifest.acts
Render(ref) ==
    /\ Lacks(ref) /\ ~actionsLoaded(ref)
    /\ ensureActions(ref)
    /\ UNCHANGED <<token, has, manifest, loader, reveal, names, turns, bad>>

\* a firmware update while the page stays open
Update ==
    /\ Turn /\ has' \in (SUBSET Refs) \ {{}, has}
    /\ UNCHANGED <<token, manifest, loader, reveal, actions, names, bad>>

Next ==
    \/ Ask \/ Answered \/ Failed \/ Again \/ Probed \/ Reveal \/ signIn \/ signOut
    \/ ActionsCome \/ ActionsFail \/ Open \/ Leave \/ Refetch \/ Update
    \/ \E ref \in Refs : Render(ref)

Spec == Init /\ [][Next]_vars
Fair == WF_vars(Ask) /\ WF_vars(Answered) /\ WF_vars(Again) /\ WF_vars(Probed) /\ WF_vars(Reveal)
FSpec == Spec /\ Fair

TypeOK ==
    /\ token \in BOOLEAN /\ has \subseteq Refs
    /\ run \in [at : {"idle", "ask", "sent", "wait"}, try : 0..Delays, as : BOOLEAN]
    /\ manifest \in [full : BOOLEAN, acts : SUBSET Refs]
    /\ loaded \in BOOLEAN /\ error \in BOOLEAN /\ reveal \in BOOLEAN /\ probe \in {"none", "probing"}
    /\ requested \in BOOLEAN /\ done \in BOOLEAN /\ retried \subseteq Refs /\ pending \subseteq Refs
    /\ fetches \subseteq Refs \cup {None} /\ names \in {None} \cup SUBSET Refs

(* The form calls an action missing, "the owning backend module isn't         *)
(* installed", only when the device does not have it: the list is "fetched    *)
(* once more per such action before the form calls it missing".               *)
MissingIsTrue == \A ref \in Refs : Lacks(ref) /\ actionsLoaded(ref) => ref \notin has

(* The page shown is the one of the session it is shown in.                   *)
OwnManifest == reveal /\ loaded /\ ~error => manifest.full = token

(* Whatever fails, the overlay goes.                                          *)
OverlayGoes == ~reveal ~> reveal
===============================================================================
