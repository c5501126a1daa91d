--------------------------- MODULE WriteGateProofs ---------------------------
(***************************************************************************)
(* What the write gate promises, for any holders, writers and times.       *)
(***************************************************************************)
EXTENDS WriteGate, FiniteSetTheorems, SequenceTheorems, TLAPS

USE GateAssumption DEF GateAssumption

\* The core counts the writes under way.
CountInv == writing = Cardinality(Writing)

\* What the gate knows of its windows: none before the first, a pause whenever
\* all are closed, and no forecast from a holder that is open.
WindowInv ==
  /\ used => pause \/ \E h \in Holders : open[h]
  /\ pause => ~\E h \in Holders : open[h]
  /\ \A h \in Holders : (open[h] \/ forecast[h]) => used
  /\ \A h \in Holders : forecast[h] => ~open[h]
  /\ \A h \in Holders : ~open[h] => age[h] = 0

\* Before the first window every write is free or forced.
EarlyInv == ~used => \A w \in Writing : how[w] \in {"early", "forced"}

\* A write between windows marks the pause it used.
GatedInv == gated <= 1 /\ (gated > 0 => taken)

\* Room is only given before a window that was forecast at least as far off.
RoomInv == \A h \in Holders : promised[h] > 0 => forecast[h] /\ promised[h] <= nextIn[h]

IInv == TypeOK /\ CountInv /\ WindowInv /\ EarlyInv /\ Exclusive /\ GatedInv /\ RoomInv

-----------------------------------------------------------------------------
(* The operators the actions are built from. *)

\* What windowOpen leaves is again a state of the core.
LEMMA LapseType ==
  ASSUME TypeOK
  PROVE  /\ OpenNow \in [Holders -> BOOLEAN]
         /\ AgeNow \in [Holders -> 0..(MaxWindow + Idle)]
         /\ SinceEndNow \subseteq 0..Idle
         /\ PauseNow \in BOOLEAN /\ TakenNow \in BOOLEAN /\ GatedNow \in 0..2
<1>1. OpenNow \in [Holders -> BOOLEAN]
  BY DEF OpenNow, TypeOK
<1>2. AgeNow \in [Holders -> 0..(MaxWindow + Idle)]
  BY DEF AgeNow, TypeOK
<1>3. SinceEndNow \subseteq 0..Idle
  <2>1. \A h \in LastLapsed : age[h] - MaxWindow \in 0..Idle
    BY DEF LastLapsed, Expired, TypeOK
  <2>. QED  BY <2>1 DEF SinceEndNow, TypeOK
<1>4. PauseNow \in BOOLEAN /\ TakenNow \in BOOLEAN
  BY DEF PauseNow, TakenNow
<1>5. GatedNow \in 0..2
  BY DEF GatedNow, TypeOK
<1>. QED  BY <1>1, <1>2, <1>3, <1>4, <1>5

\* Once a window was opened, either one is open or the gate is in a pause.
LEMMA WindowOrPause ==
  ASSUME TypeOK, WindowInv
  PROVE  /\ used => PauseNow \/ WindowNow
         /\ PauseNow => ~WindowNow
         /\ AllLapsed => used
  BY DEF WindowInv, PauseNow, WindowNow, AllLapsed, OpenNow, Expired, TypeOK

\* A grant adds one writer to those under way, and the core counts it.
LEMMA GrantCounts ==
  ASSUME TypeOK, CountInv, NEW w \in Writers, pc[w] # "writing",
         NEW r \in HowSet, Grant(w, r)
  PROVE  /\ Writing' = Writing \cup {w} /\ w \notin Writing
         /\ CountInv' /\ writing' \in 0..Cardinality(Writers)
         /\ pc' \in [Writers -> {"idle", "waiting", "wanting", "writing"}]
         /\ how' \in [Writers -> HowSet] /\ how'[w] = r
         /\ \A v \in Writing : how'[v] = how[v]
         /\ waited' \in [Writers -> 0..GiveUp]
<1>1. Writing' = Writing \cup {w} /\ w \notin Writing
  BY DEF Writing, Grant, TypeOK
<1>2. IsFiniteSet(Writing) /\ IsFiniteSet(Writing')
  BY FS_Subset DEF Writing
<1>3. Cardinality(Writing') = Cardinality(Writing) + 1
  BY <1>1, <1>2, FS_AddElement
<1>4. writing' = Cardinality(Writing')
  BY <1>3 DEF CountInv, Grant
<1>5. Cardinality(Writing') <= Cardinality(Writers) /\ Cardinality(Writing') \in Nat
  BY <1>2, FS_Subset, FS_CardinalityType DEF Writing
<1>6. CountInv' /\ writing' \in 0..Cardinality(Writers)
  <2>1. Cardinality(Writers) \in Nat
    BY FS_CardinalityType
  <2>. QED  BY <1>4, <1>5, <2>1 DEF CountInv
<1>7. pc' \in [Writers -> {"idle", "waiting", "wanting", "writing"}]
  BY DEF Grant, TypeOK
<1>8. how' \in [Writers -> HowSet] /\ how'[w] = r /\ \A v \in Writing : how'[v] = how[v]
  BY <1>1 DEF Grant, TypeOK, Writing
<1>9. waited' \in [Writers -> 0..GiveUp]
  BY DEF Grant, TypeOK, GiveUp
<1>. QED  BY <1>1, <1>6, <1>7, <1>8, <1>9

\* No write is under way when the core counts none.
LEMMA NoneWriting ==
  ASSUME TypeOK, CountInv
  PROVE  (writing = 0) <=> (Writing = {})
<1>1. IsFiniteSet(Writing)
  BY FS_Subset DEF Writing
<1>. QED  BY <1>1, FS_EmptySet DEF CountInv

\* A ticket taken out leaves a queue of tickets.
LEMMA QueueType ==
  ASSUME TypeOK, NEW w \in Writers
  PROVE  Others(w) \in Seq(Blockers)
<1>1. CASE ~\E i \in DOMAIN queue : queue[i] = w
  BY <1>1 DEF Others, TypeOK
<1>2. CASE \E i \in DOMAIN queue : queue[i] = w
  <2>. DEFINE i == CHOOSE j \in DOMAIN queue : queue[j] = w
  <2>1. i \in 1..Len(queue) /\ queue \in Seq(Blockers)
    BY <1>2 DEF TypeOK
  <2>. HIDE DEF i
  <2>2. /\ \A k \in 1..(i - 1) : queue[k] \in Blockers
        /\ \A k \in (i + 1)..Len(queue) : queue[k] \in Blockers
        /\ {1, i - 1, i + 1, Len(queue)} \subseteq Int
    BY <2>1
  <2>3. /\ SubSeq(queue, 1, i - 1) \in Seq(Blockers)
        /\ SubSeq(queue, i + 1, Len(queue)) \in Seq(Blockers)
    BY <2>2, SubSeqProperties
  <2>4. SubSeq(queue, 1, i - 1) \o SubSeq(queue, i + 1, Len(queue)) \in Seq(Blockers)
    BY <2>3
  <2>. QED  BY <1>2, <2>4 DEF Others, i
<1>. QED  BY <1>1, <1>2

-----------------------------------------------------------------------------
(* The steps. *)

\* A step of a holder, or of time, keeps the invariant.
LEMMA HolderKeeps ==
  ASSUME IInv, NEW h \in Holders, Open(h) \/ Close(h)
  PROVE  IInv'
<1>. USE DEF IInv
<1>1. /\ UNCHANGED <<writing, queue, pc, waited, how, promised, power>>
      /\ Writing' = Writing
  BY DEF Open, Close, Writing
<1>2. TypeOK'
  <2>1. CASE Open(h)
    <3>1. /\ open' \in [Holders -> BOOLEAN] /\ age' \in [Holders -> 0..(MaxWindow + Idle)]
          /\ taken' \in BOOLEAN /\ gated' \in 0..2 /\ sinceEnd' \in 0..Idle
      BY <2>1, LapseType DEF Open
    <3>2. forecast' \in [Holders -> BOOLEAN] /\ nextIn' \in [Holders -> Int]
      BY <2>1 DEF Open, TypeOK
    <3>. QED  BY <1>1, <2>1, <3>1, <3>2 DEF Open, TypeOK
  <2>2. CASE Close(h)
    <3>1. /\ open' \in [Holders -> BOOLEAN] /\ age' \in [Holders -> 0..(MaxWindow + Idle)]
          /\ pause' \in BOOLEAN /\ taken' \in BOOLEAN /\ gated' \in 0..2 /\ sinceEnd' \in 0..Idle
      <4>1. open' \in [Holders -> BOOLEAN] /\ age' \in [Holders -> 0..(MaxWindow + Idle)]
        BY <2>2, LapseType DEF Close
      <4>2. pause' \in BOOLEAN /\ taken' \in BOOLEAN /\ gated' \in 0..2 /\ sinceEnd' \in 0..Idle
        <5>1. \/ pause' = TRUE /\ taken' = FALSE /\ sinceEnd' = 0 /\ gated' = 0
              \/ UNCHANGED <<pause, taken, sinceEnd, gated>>
          BY <2>2 DEF Close
        <5>2. CASE pause' = TRUE /\ taken' = FALSE /\ sinceEnd' = 0 /\ gated' = 0
          <6>1. pause' \in BOOLEAN /\ taken' \in BOOLEAN
            BY <5>2, Zenon
          <6>2. gated' \in 0..2 /\ sinceEnd' \in 0..Idle
            BY <5>2, SMT
          <6>. QED  BY <6>1, <6>2
        <5>3. CASE UNCHANGED <<pause, taken, sinceEnd, gated>>
          BY <5>3 DEF TypeOK
        <5>. QED  BY <5>1, <5>2, <5>3
      <4>. QED  BY <4>1, <4>2
    <3>2. nextIn' \in [Holders -> Int] /\ forecast' \in [Holders -> BOOLEAN]
      <4>1. \A p \in Pauses : p \in Int
        OBVIOUS
      <4>. QED  BY <2>2, <4>1 DEF Close, TypeOK
    <3>. QED  BY <1>1, <2>2, <3>1, <3>2 DEF Close, TypeOK
  <2>. QED  BY <2>1, <2>2
<1>3. CountInv' /\ EarlyInv'
  BY <1>1 DEF CountInv, EarlyInv, Open, Close
<1>4. Exclusive'
  BY <1>1 DEF Exclusive
<1>5. WindowInv'
  <2>1. CASE Open(h)
    BY <2>1, LapseType DEF Open, WindowInv, TypeOK, OpenNow, AgeNow, PauseNow
  <2>2. CASE Close(h)
    BY <2>2, LapseType DEF Close, EndWindow, WindowInv, TypeOK, OpenNow, AgeNow
  <2>. QED  BY <2>1, <2>2
<1>6. GatedInv'
  BY LapseType, WindowOrPause DEF Open, Close, GatedInv, GatedNow, TakenNow, TypeOK
<1>7. RoomInv'
  <2>1. CASE Open(h)
    BY <2>1 DEF Open, RoomInv, TypeOK
  <2>2. CASE Close(h)
    BY <2>2 DEF Close, RoomInv, WindowInv, TypeOK, OpenNow
  <2>. QED  BY <2>1, <2>2
<1>. QED  BY <1>2, <1>3, <1>4, <1>5, <1>6, <1>7

\* A writer let through keeps the invariant: alone once windows were used,
\* marking its pause, and promised no more room than the forecasts leave.
LEMMA EnterKeeps ==
  ASSUME IInv, NEW w \in Writers, pc[w] # "writing", Enter(w),
         queue' \in Seq(Blockers), power' = power
  PROVE  IInv'
<1>. USE DEF IInv
<1>1. Reason(w) \in HowSet \ {"forced", "none"}
  BY DEF Reason, HowSet
<1>2. Grant(w, Reason(w))
  BY DEF Enter
<1>3. /\ Writing' = Writing \cup {w} /\ w \notin Writing
      /\ CountInv' /\ writing' \in 0..Cardinality(Writers)
      /\ pc' \in [Writers -> {"idle", "waiting", "wanting", "writing"}]
      /\ how' \in [Writers -> HowSet] /\ how'[w] = Reason(w)
      /\ \A v \in Writing : how'[v] = how[v]
      /\ waited' \in [Writers -> 0..GiveUp]
  BY <1>1, <1>2, GrantCounts
<1>4. /\ open' = OpenNow /\ age' = AgeNow /\ pause' = PauseNow /\ sinceEnd' \in SinceEndNow
      /\ UNCHANGED <<forecast, nextIn, used>>
      /\ taken' = PauseUsed(w) /\ promised' = Promise
      /\ gated' = IF GoBetween(w) THEN Lesser(GatedNow + 1, 2) ELSE GatedNow
  BY DEF Enter, Lapse
<1>5. Go(w)
  BY DEF Enter
<1>6. TypeOK'
  <2>1. Promise \in [Holders -> Nat]
    BY DEF Promise, Room, TypeOK
  <2>2. gated' \in 0..2
    BY <1>4, LapseType DEF Lesser
  <2>3. taken' \in BOOLEAN
    BY <1>4 DEF PauseUsed
  <2>. QED  BY <1>3, <1>4, <2>1, <2>2, <2>3, LapseType DEF TypeOK
<1>7. WindowInv'
  BY <1>4, WindowOrPause DEF WindowInv, TypeOK, OpenNow, AgeNow, WindowNow
<1>8. Reason(w) = "early" <=> GoFree /\ ~used
  <2>1. CASE GoFree
    <3>1. Reason(w) = IF used THEN "free" ELSE "early"
      BY <2>1 DEF Reason, GoInWindow, GoFree, Free
    <3>. QED  BY <2>1, <3>1
  <2>2. CASE ~GoFree
    <3>1. Reason(w) \in {"window", "pause", "late"}
      BY <2>2 DEF Reason
    <3>. QED  BY <2>2, <3>1
  <2>. QED  BY <2>1, <2>2
<1>9. used => Writing = {}
  BY <1>5, NoneWriting DEF Go, GoFree, GoInWindow, GoBetween, TypeOK
<1>10. ~used => GoFree
  BY <1>5, WindowOrPause DEF Go, GoFree, GoInWindow, GoBetween, WindowInv, WindowNow, OpenNow,
                             Free, Quiet, WindowWithin, Counting, TypeOK
<1>11. EarlyInv'
  BY <1>3, <1>4, <1>8, <1>10 DEF EarlyInv
<1>12. Exclusive'
  BY <1>3, <1>8, <1>9, <1>10 DEF Exclusive, EarlyInv
<1>13. GatedInv'
  <2>1. CASE GoBetween(w)
    <3>1. PauseNow /\ ~TakenNow
      BY <1>10, <2>1, WindowOrPause DEF GoBetween, GoFree
    <3>2. GatedNow = 0
      BY <3>1 DEF GatedNow, TakenNow, GatedInv, TypeOK
    <3>3. gated' = 1
      BY <1>4, <2>1, <3>2 DEF Lesser
    <3>4. taken'
      BY <1>4, <2>1, <3>1 DEF PauseUsed
    <3>. QED  BY <3>3, <3>4 DEF GatedInv
  <2>2. CASE ~GoBetween(w)
    BY <1>4, <2>2 DEF GatedInv, PauseUsed, GatedNow, TakenNow, TypeOK
  <2>. QED  BY <2>1, <2>2
<1>14. RoomInv'
  <2>1. ASSUME NEW h \in Holders, Counting(h), Room > promised[h]
        PROVE  Room <= nextIn[h] /\ forecast[h]
    <3>. /\ forecast[h] /\ nextIn[h] \in Int /\ promised[h] \in Nat
         /\ \A n : ~WindowWithin(n) => ~(nextIn[h] < n)
      BY <2>1 DEF WindowWithin, Counting, TypeOK
    <3>1. \/ Room = MaxWindow /\ ~WindowWithin(MaxWindow)
          \/ Room = MinPause /\ ~WindowWithin(MinPause)
          \/ Room = 0
      BY DEF Room, Free, Roomy
    <3>. QED  BY <2>1, <3>1
  <2>. HIDE DEF Room
  <2>. QED  BY <1>4, <2>1 DEF RoomInv, Promise, TypeOK
<1>. QED  BY <1>3, <1>6, <1>7, <1>11, <1>12, <1>13, <1>14

\* A forced writer keeps it too: it is the exception Exclusive names.
LEMMA ForceKeeps ==
  ASSUME IInv, NEW w \in Writers, pc[w] # "writing", ForceWrite(w),
         queue' \in Seq(Blockers), power' = power
  PROVE  IInv'
<1>. USE DEF IInv
<1>1. "forced" \in HowSet /\ Grant(w, "forced")
  BY DEF ForceWrite, HowSet
<1>2. /\ Writing' = Writing \cup {w} /\ w \notin Writing
      /\ CountInv' /\ writing' \in 0..Cardinality(Writers)
      /\ pc' \in [Writers -> {"idle", "waiting", "wanting", "writing"}]
      /\ how' \in [Writers -> HowSet] /\ how'[w] = "forced"
      /\ \A v \in Writing : how'[v] = how[v]
      /\ waited' \in [Writers -> 0..GiveUp]
  BY <1>1, GrantCounts
<1>3. /\ open' = OpenNow /\ age' = AgeNow /\ pause' = PauseNow /\ sinceEnd' \in SinceEndNow
      /\ UNCHANGED <<forecast, nextIn, used, promised>>
      /\ taken' = (TakenNow \/ PauseNow)
      /\ gated' = IF PauseNow /\ GatedNow = 0 THEN 1 ELSE GatedNow
  BY DEF ForceWrite, Lapse
<1>4. TypeOK'
  <2>1. taken' \in BOOLEAN
    BY <1>3
  <2>2. gated' \in 0..2
    BY <1>3, LapseType
  <2>. QED  BY <1>2, <1>3, <2>1, <2>2, LapseType DEF TypeOK
<1>5. WindowInv'
  BY <1>3, WindowOrPause DEF WindowInv, TypeOK, OpenNow, AgeNow, WindowNow
<1>6. EarlyInv' /\ Exclusive'
  BY <1>2, <1>3 DEF EarlyInv, Exclusive
<1>7. GatedInv'
  <2>1. GatedNow \in 0..1 /\ (GatedNow > 0 => TakenNow)
    <3>1. CASE AllLapsed
      BY <3>1 DEF GatedNow
    <3>2. CASE ~AllLapsed
      <4>1. GatedNow = gated /\ (taken => TakenNow)
        BY <3>2 DEF GatedNow, TakenNow
      <4>. QED  BY <4>1 DEF GatedInv, TypeOK
    <3>. QED  BY <3>1, <3>2
  <2>2. CASE PauseNow
    <3>1. taken'
      BY <1>3, <2>2
    <3>2. gated' \in 0..1
      BY <1>3, <2>1
    <3>. QED  BY <3>1, <3>2 DEF GatedInv
  <2>3. CASE ~PauseNow
    <3>1. gated' = GatedNow /\ (TakenNow => taken')
      BY <1>3, <2>3
    <3>. QED  BY <2>1, <3>1 DEF GatedInv
  <2>. QED  BY <2>2, <2>3
<1>8. RoomInv'
  BY <1>3 DEF RoomInv
<1>. QED  BY <1>2, <1>4, <1>5, <1>6, <1>7, <1>8

\* A write that ends is counted off.
LEMMA LeaveKeeps ==
  ASSUME IInv, NEW w \in Writers, Leave(w)
  PROVE  IInv'
<1>. USE DEF IInv
<1>1. Writing' = Writing \ {w} /\ w \in Writing
  BY DEF Leave, Writing, TypeOK
<1>2. IsFiniteSet(Writing)
  BY FS_Subset DEF Writing
<1>3. Cardinality(Writing') = Cardinality(Writing) - 1 /\ Cardinality(Writing') \in Nat
  BY <1>1, <1>2, FS_RemoveElement, FS_CardinalityType
<1>4. CountInv' /\ writing' \in 0..Cardinality(Writers)
  <2>1. writing' = writing - 1 /\ writing \in 0..Cardinality(Writers)
    BY DEF Leave, TypeOK
  <2>2. Cardinality(Writers) \in Nat
    BY FS_CardinalityType
  <2>. QED  BY <1>3, <2>1, <2>2 DEF CountInv
<1>5. TypeOK'
  <2>1. pc' \in [Writers -> {"idle", "waiting", "wanting", "writing"}] /\ how' \in [Writers -> HowSet]
    BY DEF Leave, TypeOK, HowSet
  <2>2. /\ UNCHANGED <<open, age, forecast, nextIn, used, pause, taken, sinceEnd>>
        /\ UNCHANGED <<queue, waited, gated, promised, power>>
    BY DEF Leave
  <2>. QED  BY <1>4, <2>1, <2>2 DEF TypeOK
<1>6. EarlyInv' /\ Exclusive'
  BY <1>1 DEF EarlyInv, Exclusive, Leave, TypeOK, Writing
<1>7. WindowInv' /\ GatedInv' /\ RoomInv'
  BY DEF WindowInv, GatedInv, RoomInv, Leave
<1>. QED  BY <1>4, <1>5, <1>6, <1>7

\* Time keeps it: windows only get older, forecasts nearer, promises shorter.
LEMMA TickKeeps ==
  ASSUME IInv, Tick
  PROVE  IInv'
<1>. USE DEF IInv
<1>1. /\ UNCHANGED <<open, forecast, used, pause, taken, writing, queue, pc, how, gated, power>>
      /\ Writing' = Writing
  BY DEF Tick, Writing
<1>2. TypeOK'
  <2>1. age' \in [Holders -> 0..(MaxWindow + Idle)] /\ nextIn' \in [Holders -> Int]
    BY DEF Tick, TypeOK, Lesser
  <2>2. promised' \in [Holders -> Nat] /\ waited' \in [Writers -> 0..GiveUp]
    BY DEF Tick, TypeOK, Lesser, GiveUp
  <2>3. sinceEnd' \in 0..Idle
    BY DEF Tick, TypeOK, Lesser
  <2>. QED  BY <1>1, <2>1, <2>2, <2>3 DEF TypeOK
<1>3. CountInv' /\ EarlyInv' /\ Exclusive' /\ GatedInv'
  BY <1>1 DEF CountInv, EarlyInv, Exclusive, GatedInv
<1>4. WindowInv'
  BY <1>1 DEF WindowInv, Tick
<1>5. RoomInv'
  <2>1. \A h \in Holders : promised'[h] = IF promised[h] > 0 THEN promised[h] - 1 ELSE 0
    BY DEF Tick
  <2>2. \A h \in Holders : nextIn'[h] >= nextIn[h] - 1
    BY DEF Tick, TypeOK
  <2>3. promised \in [Holders -> Nat] /\ nextIn \in [Holders -> Int] /\ nextIn' \in [Holders -> Int]
    BY <1>2 DEF TypeOK
  <2>. QED  BY <1>1, <2>1, <2>2, <2>3 DEF RoomInv
<1>. QED  BY <1>2, <1>3, <1>4, <1>5

\* A step that leaves the core's rules alone: a writer that joins, gives up or
\* asks in vain, and the supply.
LEMMA OthersKeep ==
  ASSUME IInv, queue' \in Seq(Blockers), waited' \in [Writers -> 0..GiveUp],
         power' \in {"ok", "fail", "latched"},
         pc' \in [Writers -> {"idle", "waiting", "wanting", "writing"}], Writing' = Writing,
         UNCHANGED <<writing, how, promised, forecast, nextIn, used>>,
         \/ UNCHANGED <<core, gated>>
         \/ Lapse /\ taken' = TakenNow /\ gated' = GatedNow
  PROVE  IInv'
<1>. USE DEF IInv
<1>1. CountInv' /\ EarlyInv' /\ Exclusive' /\ RoomInv'
  BY DEF CountInv, EarlyInv, Exclusive, RoomInv
<1>2. CASE UNCHANGED <<core, gated>>
  BY <1>1, <1>2 DEF core, TypeOK, WindowInv, GatedInv
<1>3. CASE Lapse /\ taken' = TakenNow /\ gated' = GatedNow
  <2>1. TypeOK'
    BY <1>3, LapseType DEF Lapse, TypeOK
  <2>2. WindowInv'
    BY <1>3, WindowOrPause DEF Lapse, WindowInv, TypeOK, OpenNow, AgeNow, WindowNow
  <2>3. GatedInv'
    BY <1>3 DEF GatedInv, GatedNow, TakenNow, TypeOK
  <2>. QED  BY <1>1, <2>1, <2>2, <2>3
<1>. QED  BY <1>2, <1>3

-----------------------------------------------------------------------------
(* The invariant of the gate, and what follows from it. *)

LEMMA InitInv == Init => IInv
<1>. SUFFICES ASSUME Init PROVE IInv
  OBVIOUS
<1>1. Writing = {}
  BY DEF Init, Writing
<1>2. TypeOK
  <2>1. Cardinality(Writers) \in Nat
    BY FS_CardinalityType
  <2>2. /\ open \in [Holders -> BOOLEAN] /\ forecast \in [Holders -> BOOLEAN]
        /\ used \in BOOLEAN /\ pause \in BOOLEAN /\ taken \in BOOLEAN
    BY DEF Init
  <2>3. /\ age \in [Holders -> 0..(MaxWindow + Idle)] /\ nextIn \in [Holders -> Int]
        /\ sinceEnd \in 0..Idle /\ writing \in 0..Cardinality(Writers)
        /\ gated \in 0..2
    BY <2>1 DEF Init
  <2>4. queue \in Seq(Blockers)
    BY DEF Init
  <2>5. /\ pc \in [Writers -> {"idle", "waiting", "wanting", "writing"}]
        /\ waited \in [Writers -> 0..GiveUp] /\ how \in [Writers -> HowSet]
        /\ promised \in [Holders -> Nat] /\ power \in {"ok", "fail", "latched"}
    BY DEF Init, HowSet, GiveUp
  <2>. QED  BY <2>2, <2>3, <2>4, <2>5 DEF TypeOK
<1>3. CountInv
  BY <1>1, FS_EmptySet DEF Init, CountInv
<1>4. WindowInv /\ EarlyInv /\ Exclusive /\ GatedInv /\ RoomInv
  BY <1>1 DEF Init, WindowInv, EarlyInv, Exclusive, GatedInv, RoomInv
<1>. QED  BY <1>2, <1>3, <1>4 DEF IInv

LEMMA NextInv == IInv /\ [Next]_vars => IInv'
<1>. SUFFICES ASSUME IInv, [Next]_vars PROVE IInv'
  OBVIOUS
<1>. USE DEF IInv
<1>1. ASSUME NEW h \in Holders, Open(h) \/ Close(h) PROVE IInv'
  BY <1>1, HolderKeeps
<1>2. ASSUME NEW w \in Blockers, Join(w) PROVE IInv'
  <2>1. waited' \in [Writers -> 0..GiveUp]
    BY <1>2 DEF Join, TypeOK, GiveUp, Writers
  <2>2. queue' \in Seq(Blockers)
    BY <1>2 DEF Join, TypeOK
  <2>3. /\ pc' \in [Writers -> {"idle", "waiting", "wanting", "writing"}]
        /\ Writing' = Writing
    BY <1>2 DEF Join, TypeOK, Writing
  <2>. QED  BY <1>2, <2>1, <2>2, <2>3, OthersKeep DEF Join, core, TypeOK
<1>3. ASSUME NEW w \in Blockers, Admit(w) PROVE IInv'
  BY <1>3, EnterKeeps, QueueType DEF Admit, Writers
<1>4. ASSUME NEW w \in Blockers, AdmitLate(w) PROVE IInv'
  <2>1. w \in Writers /\ pc[w] # "writing" /\ ForceWrite(w) /\ power' = power
    BY <1>4 DEF AdmitLate, Writers
  <2>2. queue' \in Seq(Blockers)
    BY <1>4, <2>1, QueueType DEF AdmitLate
  <2>. QED  BY <2>1, <2>2, ForceKeeps
<1>5. ASSUME NEW w \in Blockers, Refuse(w) PROVE IInv'
  <2>1. waited' \in [Writers -> 0..GiveUp]
    <3>1. waited \in [Writers -> 0..GiveUp] /\ waited' = [waited EXCEPT ![w] = 0]
      BY <1>5 DEF Refuse, TypeOK
    <3>2. 0 \in 0..GiveUp
      BY DEF GiveUp
    <3>. QED  BY <3>1, <3>2
  <2>2. queue' \in Seq(Blockers)
    BY <1>5, QueueType DEF Refuse, Writers
  <2>3. /\ pc' \in [Writers -> {"idle", "waiting", "wanting", "writing"}]
        /\ Writing' = Writing
    BY <1>5 DEF Refuse, TypeOK, Writing
  <2>. QED  BY <1>5, <2>1, <2>2, <2>3, OthersKeep DEF Refuse, core, TypeOK
<1>6. ASSUME NEW w \in Blockers, AskAgain(w) PROVE IInv'
  <2>1. Writing' = Writing
    BY <1>6 DEF AskAgain, Writing
  <2>. QED  BY <1>6, <2>1, OthersKeep DEF AskAgain, Lapse, TypeOK
<1>7. ASSUME NEW w \in Triers, Want(w) PROVE IInv'
  <2>1. /\ pc' \in [Writers -> {"idle", "waiting", "wanting", "writing"}]
        /\ Writing' = Writing
    BY <1>7 DEF Want, TypeOK, Writing
  <2>. QED  BY <1>7, <2>1, OthersKeep DEF Want, core, TypeOK
<1>8. ASSUME NEW w \in Triers, TryEnter(w) PROVE IInv'
  BY <1>8, EnterKeeps DEF TryEnter, Writers, TypeOK
<1>9. ASSUME NEW w \in Writers, Leave(w) PROVE IInv'
  BY <1>9, LeaveKeeps
<1>10. CASE Tick
  BY <1>10, TickKeeps
<1>11. CASE SetSupply \/ LatchWritesOff
  <2>1. Writing' = Writing /\ power' \in {"ok", "fail", "latched"}
    BY <1>11 DEF SetSupply, LatchWritesOff, Power, Writing
  <2>2. UNCHANGED <<core, queue, pc, waited, how, gated, promised>>
    BY <1>11 DEF SetSupply, LatchWritesOff, Power
  <2>. QED  BY <2>1, <2>2, OthersKeep DEF core, TypeOK
<1>12. CASE UNCHANGED vars
  BY <1>12, OthersKeep DEF vars, core, TypeOK, Writing
<1>. QED  BY <1>1, <1>2, <1>3, <1>4, <1>5, <1>6, <1>7, <1>8, <1>9, <1>10, <1>11, <1>12 DEF Next

\* The invariant of the gate holds for ever.
THEOREM GateInvariant == Spec => []IInv
  BY InitInv, NextInv, PTL DEF Spec

\* Every field stays in its type, whatever the holders and writers do.
THEOREM GateTypeOK == Spec => []TypeOK
  BY GateInvariant, PTL DEF IInv

\* Once windows are used, two writes at once mean that one was forced.
THEOREM GateExclusive == Spec => []Exclusive
  BY GateInvariant, PTL DEF IInv

\* At most one write goes between two windows.
THEOREM GateOnePerPause == Spec => []OnePerPause
<1>1. IInv => OnePerPause
  BY DEF IInv, GatedInv, OnePerPause
<1>. QED  BY <1>1, GateInvariant, PTL

\* A write's room before a forecast window is kept free of that window.
THEOREM GateForecastHonoured == Spec => []ForecastHonoured
<1>1. IInv => ForecastHonoured
  BY DEF IInv, RoomInv, WindowInv, ForecastHonoured
<1>. QED  BY <1>1, GateInvariant, PTL
==============================================================================
