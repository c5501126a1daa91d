---------------------------- MODULE InstallOrder ---------------------------
(* Builder::build() (lib/ESPRack/src/Builder.cpp): the modules of the composition *)
(* are indexed by id, put in the order their requirements and priorities ask for, *)
(* and installed one after another; App::begin() starts them in the same order.   *)
EXTENDS Naturals, FiniteSets, Sequences

CONSTANTS
    Ids,        \* module ids (numbers: the ids' own order breaks ties)
    Prio,       \* the priority of each
    Provider,   \* the id of the module that brings the SecurityManager
    MaxModules, \* modules in a composition (bound)
    MaxReqs,    \* requirements in a composition (bound)
    MaxOdd      \* modules disabled or with an invalid id (bound)

VARIABLES
    mods,       \* modules_, as .install<>() put them
    phase,
    degree,     \* in_degree
    ready,      \* ids with no requirement left
    order,      \* indexes of mods
    done,       \* how many of them have been looked at to install
    installed,  \* indexes of mods whose onInstall has run
    security,   \* the context carries the real SecurityManager
    given       \* indexes of mods that were given it

vars == <<mods, phase, degree, ready, order, done, installed, security, given>>

\* "bad": an external instance with an invalid id; "off": disabled at build time
Kinds == {"core", "ext", "bad", "off"}

\* what a dropped one requires is only reported
Module == {m \in [id : Ids, kind : Kinds, reqs : SUBSET Ids] :
             /\ Cardinality(m.reqs) <= MaxReqs
             /\ m.kind = "bad" => m.reqs = {}}

Reqs(s) == UNION {{i} \X s[i].reqs : i \in DOMAIN s}

Least(a, b) == IF a < b THEN a ELSE b

At == DOMAIN mods

External(i) == mods[i].kind \in {"ext", "bad"}

\* id_index: framework modules come before external instances
Claims(k) == {i \in At : mods[i].id = k /\ mods[i].kind # "bad"}
Known == {k \in Ids : Claims(k) # {}}
IndexOf(k) ==
    LET core == {i \in Claims(k) : ~External(i)}
        from == IF core = {} THEN Claims(k) ELSE core
    IN  CHOOSE i \in from : \A j \in from : i <= j

\* a module keeps its id unless it is an external one the index refused
Named(i) == mods[i].kind # "bad" /\ (External(i) => IndexOf(mods[i].id) = i)

Init ==
    /\ \E n \in 1 .. MaxModules : mods \in [1 .. n -> Module]
    /\ Cardinality(Reqs(mods)) <= MaxReqs
    /\ Cardinality({i \in DOMAIN mods : mods[i].kind \in {"bad", "off"}}) <= MaxOdd
    /\ phase = "count" /\ degree = [k \in Ids |-> 0] /\ ready = {}
    /\ order = <<>> /\ done = 0 /\ installed = <<>> /\ security = FALSE /\ given = {}

Last(k) == CHOOSE i \in At : /\ Named(i) /\ mods[i].id = k
                             /\ \A j \in At : Named(j) /\ mods[j].id = k => j <= i

\* each module with an id sets its in_degree, the last one of an id for good
Count ==
    /\ phase = "count" /\ phase' = "sort"
    /\ degree' = [k \in Ids |-> IF k \in Known THEN Cardinality(mods[Last(k)].reqs) ELSE 0]
    /\ ready' = {k \in Known : degree'[k] = 0}
    /\ UNCHANGED <<mods, order, done, installed, security, given>>

\* Mutant of Before: the id alone.
Before_Id(a, b) == a < b

Before(a, b) ==
    Prio[a] < Prio[b] \/ (Prio[a] = Prio[b] /\ a < b)

First == CHOOSE k \in ready : \A j \in ready \ {k} : Before(k, j)

\* the times k stands among the dependents of r
Waits(k, r) == Cardinality({i \in At : Named(i) /\ mods[i].id = k /\ r \in mods[i].reqs})

\* Mutant of Freed: one requirement met is enough.
Freed_Any(r) == {k \in Known : degree[k] >= 1 /\ Waits(k, r) > 0}

\* those whose count passes zero
Freed(r) == {k \in Known : degree[k] >= 1 /\ degree[k] <= Waits(k, r)}

Take ==
    /\ phase = "sort" /\ ready # {}
    /\ order' = Append(order, IndexOf(First))
    /\ ready' = (ready \ {First}) \union Freed(First)
    /\ degree' = [k \in Ids |-> degree[k] - Least(degree[k], Waits(k, First))]
    /\ UNCHANGED <<mods, phase, done, installed, security, given>>

InOrderGiven == SelectSeq([i \in At |-> i], Named)

\* a cycle, or a requirement that is not there: the order of the chain
Sorted ==
    /\ phase = "sort" /\ ready = {} /\ phase' = "install"
    /\ order' = IF Len(order) # Cardinality(Known) THEN InOrderGiven ELSE order
    /\ UNCHANGED <<mods, degree, ready, done, installed, security, given>>

\* Mutant of Bound: the context is not refreshed between two installs.
Bound_Once(i) == security

\* what the context has for the modules after i
Bound(i) == security \/ mods[i].id = Provider

Install ==
    /\ phase = "install" /\ done < Len(order) /\ done' = done + 1
    /\ LET i == order[done + 1]
       IN  /\ IF mods[i].kind = "off"
              THEN UNCHANGED <<installed, security, given>>
              ELSE /\ installed' = Append(installed, i)
                   /\ given' = IF security THEN given \union {i} ELSE given
                   /\ security' = Bound(i)
    /\ UNCHANGED <<mods, phase, degree, ready, order>>

Next == Count \/ Take \/ Sorted \/ Install

Spec == Init /\ [][Next]_vars

-----------------------------------------------------------------------------

TypeOK ==
    /\ mods \in Seq(Module) /\ phase \in {"count", "sort", "install"}
    /\ degree \in [Ids -> 0 .. MaxReqs] /\ ready \subseteq Ids
    /\ order \in Seq(At) /\ done \in 0 .. Len(order) /\ installed \in Seq(At)
    /\ security \in BOOLEAN /\ given \subseteq At

Cyclefree == \E rank \in [Ids -> 1 .. Cardinality(Ids)] :
                \A i \in At : Named(i) => \A r \in mods[i].reqs : rank[r] < rank[mods[i].id]

\* A composition without a mistake: an id once, requirements that are there, no cycle.
Sound ==
    /\ \A k \in Known : Cardinality({i \in Claims(k) : ~External(i)}) <= 1
    /\ \A i \in At : Named(i) => mods[i].reqs \subseteq Known
    /\ Cyclefree

Pos(s, i) == CHOOSE n \in DOMAIN s : s[n] = i

\* The order it is meant to be: every module once, after what it requires, and at each
\* place the least of those that could stand there. It is the only one, so the order
\* of the .install<>() chain makes no difference.
Meant(s) ==
    /\ {s[n] : n \in DOMAIN s} = {IndexOf(k) : k \in Known} /\ Len(s) = Cardinality(Known)
    /\ \A n \in DOMAIN s : \A r \in mods[s[n]].reqs : Pos(s, IndexOf(r)) < n
    /\ \A n \in DOMAIN s, m \in DOMAIN s :
          n < m /\ (\A r \in mods[s[m]].reqs : Pos(s, IndexOf(r)) < n)
             => LET a == mods[s[n]].id  b == mods[s[m]].id
                IN  Prio[a] < Prio[b] \/ (Prio[a] = Prio[b] /\ a < b)

\* The counting of build() yields that order for every composition without a mistake.
OrderMeant == phase = "install" /\ done = 0 /\ Sound => Meant(order)

\* A module that requires the provider is handed the real manager in onInstall, wherever
\* both stand in the chain.
ManagerGiven ==
    Sound => \A n \in DOMAIN installed :
                LET i == installed[n]
                IN  Provider \in mods[i].reqs /\ mods[IndexOf(Provider)].kind # "off" => i \in given

\* A composition with a mistake is not started (Builder.h: "aborts the boot - better
\* fail-fast than ship a half-installed framework").
FailsFast == installed # <<>> => Sound
=============================================================================
