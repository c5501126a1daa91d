------------------------------ MODULE FormTab ------------------------------
(* A settings or live tab of a feature's page (DynamicFeature, DynamicSettings,    *)
(* DynamicStatus, useRest, liveCash): forms read over HTTP whose answers land in   *)
(* any order, fields being edited, values a navigation brings along (prefill),     *)
(* saves that are taken, refused or whose answer is lost, and the cache of values  *)
(* by label that every tab of the page shares and that wins over what is read.     *)
EXTENDS Naturals, Sequences, FiniteSets, Functions, TLC

CONSTANTS
    Labels,         \* fields
    Primary,        \* the field of a prefill
    Fallback,       \* the field of its second candidate
    Values,         \* what a field may hold, 0 is empty
    None,
    MaxReads,       \* forms read unasked (bound)
    MaxEdits,       \* edits (bound)
    MaxOthers,      \* changes by somebody else (bound)
    MaxOpens,       \* tabs opened (bound)
    MaxBad          \* requests that fail for the page (bound)

VARIABLES
    dev,        \* the device's values
    tab,        \* settings or live
    brought,    \* the navigation's prefill: none, one candidate, or one per slot
    applied,    \* this form has looked at it
    reads,      \* GETs on their way: whose form, and None or the device's answer
    data,       \* the last form read, None at first
    shown,      \* the fields' values, None without a form
    changed,    \* changedFields: what Save sends
    pend,       \* pendingPrefillRef
    dialog,     \* "which slot" is asked
    focus,      \* the text field being typed in, and what is typed
    cache,      \* liveCash
    posts,      \* POSTs on their way
    frame,      \* a push on its way: None, or the device's values
    nreads, edits, others, opens, bad

form == <<data, shown, changed, pend, dialog, focus, applied>>
env == <<nreads, edits, others, opens, bad>>
vars == <<dev, tab, brought, reads, form, cache, posts, frame, env>>

Nothing == <<>>    \* a function of no label
Fill == 1          \* what a prefill brings

Sent(t) == [of |-> t, got |-> None]

Init ==
    /\ dev \in {[l \in Labels |-> v] : v \in {0, 1}} /\ tab \in {"settings", "live"} /\ brought = Nothing /\ applied = FALSE
    /\ reads = <<Sent(tab)>> /\ data = None /\ shown = None /\ changed = Nothing
    /\ pend = Nothing /\ dialog = FALSE /\ focus = Nothing
    /\ cache = [l \in Labels |-> None] /\ posts = <<>> /\ frame = None
    /\ nreads = 0 /\ edits = 0 /\ others = 0 /\ opens = 0 /\ bad = 0

\* no form: DynamicSettings goes, with what was edited in it
Unmounted ==
    /\ data' = None /\ shown' = None /\ changed' = Nothing /\ pend' = Nothing /\ dialog' = FALSE
    /\ focus' = Nothing /\ applied' = FALSE

\* another tab of the feature, on an endpoint of its own: the same panel reads it.
\* A row of one tab's table may bring values along, for one field or for a slot of two
Open ==
    /\ opens < MaxOpens /\ opens' = opens + 1 /\ Len(reads) < 2
    /\ tab' = IF tab = "live" THEN "settings" ELSE "live"
    /\ brought' \in {Nothing} \cup IF tab = "live" THEN {<<Primary>>, <<Primary, Fallback>>} ELSE {}
    /\ reads' = Append(reads, Sent(tab')) /\ Unmounted
    /\ frame' = None
    /\ UNCHANGED <<dev, cache, posts, nreads, edits, others, bad>>

\* the tab is shown again, the network is back, an action asks for it; or the
\* reload button, which takes the form away first
Refetch ==
    /\ nreads < MaxReads /\ Len(reads) < 2
    /\ reads' = Append(reads, Sent(tab)) /\ nreads' = nreads + 1
    /\ UNCHANGED form \/ Unmounted
    /\ UNCHANGED <<dev, tab, brought, cache, posts, frame, edits, others, opens, bad>>

Answer(i) ==
    /\ i \in DOMAIN reads /\ reads[i].got = None
    /\ reads' = [reads EXCEPT ![i].got = dev]
    /\ UNCHANGED <<dev, tab, brought, form, cache, posts, frame, env>>

Without(s, i) == SubSeq(s, 1, i - 1) \o SubSeq(s, i + 1, Len(s))

\* what a field shows when nothing is edited: the cache's value, else the form's
Base_Read(d, l) == d[l]
Base(d, l) == IF cache[l] # None THEN cache[l] ELSE d[l]

\* the first form after a navigation decides what its values go into
Chosen(d) ==
    IF Len(brought) = 2 /\ Base(d, Primary) # 0
    THEN IF Base(d, Fallback) # 0 THEN Nothing ELSE Fallback :> Fill
    ELSE Primary :> Fill
Asked(d) == Len(brought) = 2 /\ Base(d, Primary) # 0 /\ Base(d, Fallback) # 0

\* changedFields: seeded with the prefill, kept while it is pending, else gone
New == brought # Nothing /\ ~applied
Seeded_Kept(p) == IF p = Nothing THEN Nothing ELSE changed
Seeded(p) == IF New THEN p ELSE IF p = Nothing THEN Nothing ELSE changed

\* a settings form from what was read
Built(d) ==
    LET p == IF New /\ ~Asked(d) THEN Chosen(d) ELSE pend
    IN /\ shown' = [l \in Labels |-> IF l \in DOMAIN p THEN p[l] ELSE Base(d, l)]
       /\ pend' = p /\ changed' = Seeded(p)
       /\ dialog' = (dialog \/ (New /\ Asked(d)))
       /\ applied' = TRUE

\* whose form an answer is, is not looked at
Land(i) ==
    /\ i \in DOMAIN reads /\ reads[i].got # None
    /\ reads' = Without(reads, i)
    /\ LET d == reads[i].got
       IN IF reads[i].of # tab THEN Unmounted
          ELSE /\ data' = d
               /\ IF tab = "settings" THEN Built(d)
                  ELSE shown' = d /\ UNCHANGED <<changed, pend, dialog, applied>>
               /\ UNCHANGED focus
    /\ UNCHANGED <<dev, tab, brought, cache, posts, frame, env>>

\* a silent read that fails leaves everything as it was
ReadFails(i) ==
    /\ bad < MaxBad /\ bad' = bad + 1
    /\ i \in DOMAIN reads /\ reads' = Without(reads, i)
    /\ UNCHANGED <<dev, tab, brought, form, cache, posts, frame, nreads, edits, others, opens>>

\* a text field holds what it showed when the cursor came, until it leaves
Focus(l) ==
    /\ shown # None /\ focus = Nothing /\ ~dialog /\ edits < MaxEdits /\ edits' = edits + 1
    /\ focus' = l :> shown[l]
    /\ UNCHANGED <<dev, tab, brought, applied, reads, data, shown, changed, pend, dialog, cache, posts,
                   frame, nreads, others, opens, bad>>

Type(v) ==
    /\ focus # Nothing /\ \E l \in DOMAIN focus : v # focus[l] /\ focus' = l :> v
    /\ UNCHANGED <<dev, tab, brought, applied, reads, data, shown, changed, pend, dialog, cache, posts, frame,
                   env>>

\* liveCash keeps what is written for ten minutes: longer than these behaviours last
Cached(patch) == cache' = [l \in Labels |-> IF l \in DOMAIN patch THEN patch[l] ELSE cache[l]]

\* the cursor leaves: changed or not, the value is an edit; a live tab sends it at once
Blur ==
    /\ focus # Nothing /\ shown # None
    /\ \E l \in DOMAIN focus :
         /\ shown' = [shown EXCEPT ![l] = focus[l]]
         /\ IF tab = "settings"
            THEN changed' = focus @@ changed /\ UNCHANGED <<cache, posts>>
            ELSE /\ Len(posts) < 2 /\ posts' = Append(posts, [of |-> tab, p |-> focus])
                 /\ Cached(focus) /\ UNCHANGED changed
    /\ focus' = Nothing
    /\ UNCHANGED <<dev, tab, brought, applied, reads, data, pend, dialog, frame, env>>

\* the dialog: one of the slots, or cancel
Slot ==
    /\ dialog /\ dialog' = FALSE
    /\ \/ \E l \in {Primary, Fallback} :
            /\ pend' = l :> Fill
            /\ shown' = [shown EXCEPT ![l] = Fill]
            /\ changed' = (l :> Fill) @@ changed
       \/ UNCHANGED <<pend, shown, changed>>
    /\ UNCHANGED <<dev, tab, brought, applied, reads, data, focus, cache, posts, frame, env>>

Submit ==
    /\ tab = "settings" /\ shown # None /\ focus = Nothing /\ ~dialog
    /\ changed # Nothing /\ Len(posts) < 2
    /\ Cached(changed)
    /\ shown' = [l \in Labels |-> IF l \in DOMAIN changed THEN changed[l] ELSE shown[l]]
    /\ posts' = Append(posts, [of |-> tab, p |-> changed])
    /\ pend' = Nothing /\ changed' = Nothing
    /\ UNCHANGED <<dev, tab, brought, applied, reads, data, dialog, focus, frame, env>>

Pushed(d) == frame' = IF tab = "live" /\ shown # None THEN d ELSE frame

\* the form is read again after every save, and after a live tab's that was refused
Again(t) == reads' = IF Len(reads) < 2 THEN Append(reads, Sent(t)) ELSE reads
Refusal(t) == IF t = "live" THEN Again(t) ELSE UNCHANGED reads

\* the device takes a save; or it refuses it, or its answer is lost
Taken(i) ==
    /\ i \in DOMAIN posts /\ posts' = Without(posts, i)
    /\ dev' = posts[i].p @@ dev /\ Pushed(posts[i].p @@ dev)
    /\ \/ Again(posts[i].of) /\ UNCHANGED bad
       \/ bad < MaxBad /\ bad' = bad + 1 /\ Refusal(posts[i].of)
    /\ UNCHANGED <<tab, brought, form, cache, nreads, edits, others, opens>>

Refused(i) ==
    /\ bad < MaxBad /\ bad' = bad + 1
    /\ i \in DOMAIN posts /\ posts' = Without(posts, i)
    /\ Refusal(posts[i].of)
    /\ UNCHANGED <<dev, tab, brought, form, cache, frame, nreads, edits, others, opens>>

\* another page, or the device itself
Other(l, v) ==
    /\ others < MaxOthers /\ others' = others + 1
    /\ v # dev[l] /\ dev' = [dev EXCEPT ![l] = v] /\ Pushed([dev EXCEPT ![l] = v])
    /\ UNCHANGED <<tab, brought, reads, form, cache, posts, nreads, edits, opens, bad>>

Push ==
    /\ frame # None /\ shown # None
    /\ shown' = frame /\ frame' = None
    /\ UNCHANGED <<dev, tab, brought, applied, reads, data, changed, pend, dialog, focus, cache, posts, env>>

Next ==
    \/ Open \/ Refetch \/ Blur \/ Slot \/ Submit \/ Push
    \/ \E i \in 1..2 : Answer(i) \/ Land(i) \/ ReadFails(i) \/ Taken(i) \/ Refused(i)
    \/ \E l \in Labels : Focus(l) \/ \E v \in Values : Other(l, v)
    \/ \E v \in Values : Type(v)

Spec == Init /\ [][Next]_vars

Form == [Labels -> Values]
Partial(f) == DOMAIN f \subseteq Labels /\ Range(f) \subseteq Values
TypeOK ==
    /\ dev \in Form /\ tab \in {"settings", "live"} /\ data \in Form \cup {None} /\ shown \in Form \cup {None}
    /\ Len(reads) <= 2 /\ Len(posts) <= 2
    /\ Partial(changed) /\ Partial(pend) /\ Partial(focus)
    /\ cache \in [Labels -> Values \cup {None}]

\* A settings field shows what the device or the page's last save says, or Save
\* sends it: no refetch, prefill or slot leaves a value shown that nobody stores.
NothingPhantom ==
    tab = "settings" /\ shown # None =>
        \A l \in Labels : shown[l] # Base(data, l) => l \in DOMAIN changed

\* A value the device took from this page is not shown undone by a form read
\* before it and landing after it, however many are on their way.
SavedShown ==
    tab = "settings" /\ shown # None =>
        \A l \in Labels : l \notin DOMAIN changed /\ cache[l] = dev[l] => shown[l] = dev[l]

\* An opened tab shows its form once what was asked for is answered.
TabLoads == reads = <<>> /\ posts = <<>> /\ bad = 0 => shown # None

\* What Save sends is what the fields show, a refetch during the edit included.
SentIsShown ==
    tab = "settings" /\ shown # None => \A l \in DOMAIN changed : shown[l] = changed[l]

\* With nothing edited and nothing on its way, a form just read shows the device's
\* values.
DeviceShown ==
    tab = "settings" /\ shown # None /\ changed = Nothing /\ posts = <<>> /\ data = dev => shown = dev
=============================================================================
