------------------------- MODULE StatusTimelineProofs -------------------------
(***************************************************************************)
(* Proofs about StatusTimeline, for every set of levels, window and bound. *)
(***************************************************************************)
EXTENDS StatusTimeline, FiniteSetTheorems, TLAPS

-----------------------------------------------------------------------------
(* The inductive invariant: the rows have their type, and between its       *)
(* queries a view holds the level that the rows it has seen give the        *)
(* beginning of its window.                                                 *)

TypeOK ==
    /\ now \in Nat
    /\ logs \subseteq Entry /\ IsFiniteSet(logs)
    /\ handler \in [time : Nat, todo : Seq(Levels)]

ViewOK ==
    view.open =>
        /\ view.start \in Nat /\ view.end \in Nat
        /\ view.level \in LevelsOf(NewestIn({e \in view.known : e.time < view.start}))

IInv == TypeOK /\ ViewOK

LEMMA InitInv == Init => IInv
<1>1. SUFFICES ASSUME Init PROVE IInv
  OBVIOUS
<1>2. TypeOK
  <2>1. NoHandler \in [time : Nat, todo : Seq(Levels)] /\ IsFiniteSet({})
    BY FS_EmptySet DEF NoHandler
  <2>. QED
    BY <1>1, <2>1 DEF Init, TypeOK
<1>3. ViewOK
  BY <1>1 DEF Init, ViewOK, NoView
<1>. QED
  BY <1>2, <1>3 DEF IInv

LEMMA HandleInv == ASSUME IInv, NEW levels \in Messages, Handle(levels) PROVE IInv'
<1>1. levels \in Seq(Levels)
  <2>1. CASE \E level \in Levels : levels = <<level>>
    <3>1. PICK level \in Levels : levels = <<level>>
      BY <2>1
    <3>. QED
      BY <3>1
  <2>2. CASE \E level \in Levels : levels = <<"", level>>
    <3>1. PICK level \in Levels : levels = <<"", level>>
      BY <2>2
    <3>2. PICK none \in Levels : none = ""
      BY TimelineAssumption DEF TimelineAssumption
    <3>3. <<none, level>> \in Seq(Levels)
      OBVIOUS
    <3>. QED
      BY <3>1, <3>2, <3>3
  <2>. QED
    BY <2>1, <2>2 DEF Messages
<1>. QED
  BY <1>1 DEF Handle, IInv, TypeOK, ViewOK

LEMMA LogInv == ASSUME IInv, Log PROVE IInv'
<1>. USE DEF IInv
<1>1. Head(handler.todo) \in Levels /\ Tail(handler.todo) \in Seq(Levels)
  BY DEF Log, TypeOK
<1>2. [time |-> handler.time, level |-> Head(handler.todo)] \in Entry
  BY <1>1 DEF Entry, TypeOK
<1>3. handler' \in [time : Nat, todo : Seq(Levels)]
  <2>1. NoHandler \in [time : Nat, todo : Seq(Levels)]
    BY DEF NoHandler
  <2>2. [handler EXCEPT !.todo = Tail(@)] \in [time : Nat, todo : Seq(Levels)]
    BY <1>1 DEF TypeOK
  <2>. QED
    BY <2>1, <2>2 DEF Log
<1>4. TypeOK'
  BY <1>2, <1>3, FS_AddElement DEF Log, TypeOK
<1>5. ViewOK'
  BY DEF Log, ViewOK
<1>. QED
  BY <1>4, <1>5

LEMMA AdoptInv ==
    ASSUME IInv, NEW entry \in [time : 0 .. now, level : Levels], Adopt(entry)
    PROVE  IInv'
<1>. USE DEF IInv
<1>1. entry \in Entry
  BY DEF Entry, TypeOK
<1>2. TypeOK'
  BY <1>1, FS_AddElement DEF Adopt, TypeOK
<1>3. ViewOK'
  BY DEF Adopt, ViewOK
<1>. QED
  BY <1>2, <1>3

LEMMA QueryInitialInv ==
    ASSUME IInv, NEW w \in Nat \X Nat, QueryInitial(w)
    PROVE  IInv'
<1>1. PICK level \in InitialLevels(w[1]) :
        view' = [open |-> TRUE, start |-> w[1], end |-> w[2],
                 level |-> level, known |-> logs]
  BY DEF QueryInitial
<1>3. /\ view'.start = w[1] /\ view'.end = w[2]
      /\ view'.known = logs /\ view'.level = level
  BY <1>1
<1>4. ViewOK'
  BY <1>3 DEF ViewOK, InitialLevels
<1>. QED
  BY <1>4 DEF QueryInitial, IInv, TypeOK

LEMMA NextInv == ASSUME IInv, [Next]_vars PROVE IInv'
<1>. USE DEF IInv
<1>1. CASE HandlerFails
  <2>1. NoHandler \in [time : Nat, todo : Seq(Levels)]
    BY DEF NoHandler
  <2>. QED
    BY <1>1, <2>1 DEF HandlerFails, TypeOK, ViewOK
<1>2. CASE Tick
  BY <1>2 DEF Tick, TypeOK, ViewOK
<1>3. CASE QueryInitial(Preset)
  <2>1. Preset \in Nat \X Nat
    <3>. DEFINE a == IF now >= Span THEN now - Span ELSE 0
    <3>1. a \in Nat /\ now \in Nat
      <4>1. now \in Nat /\ Span \in Nat
        BY TimelineAssumption DEF TypeOK, TimelineAssumption
      <4>2. CASE now >= Span
        BY <4>1, <4>2
      <4>3. CASE ~(now >= Span)
        BY <4>1, <4>3
      <4>. QED
        BY <4>2, <4>3
    <3>2. Preset = <<a, now>>
      BY DEF Preset
    <3>. HIDE DEF a
    <3>. QED
      BY <3>1, <3>2
  <2>. QED
    BY <1>3, <2>1, QueryInitialInv
<1>4. CASE \E w \in Windows : QueryInitial(w)
  <2>1. \A w \in Windows : w \in Nat \X Nat
    BY DEF Windows
  <2>. QED
    BY <1>4, <2>1, QueryInitialInv
<1>5. CASE QueryLogs
  BY <1>5 DEF QueryLogs, TypeOK, ViewOK, NoView
<1>6. CASE Close
  BY <1>6 DEF Close, TypeOK, ViewOK, NoView
<1>8. CASE Leave
  BY <1>8, FS_EmptySet DEF Leave, TypeOK, ViewOK
<1>7. CASE UNCHANGED vars
  BY <1>7 DEF vars, TypeOK, ViewOK
<1>. QED
  BY <1>1, <1>2, <1>3, <1>4, <1>5, <1>6, <1>7, <1>8, HandleInv, LogInv, AdoptInv DEF Next

(* Every reachable state satisfies the inductive invariant. *)
THEOREM Invariance == Spec => []IInv
<1>1. IInv /\ [Next]_vars => IInv'
  BY NextInv
<1>. QED
  BY <1>1, InitInv, PTL DEF Spec

-----------------------------------------------------------------------------
(* What the second query returns, and the segments made of it. *)

LEMMA Returned ==
    ASSUME IInv, view.open,
           NEW s \in SUBSET Entry, s = Within(view.start, view.end),
           NEW entries \in Ordered(s)
    PROVE  /\ entries \in Seq(s) /\ Len(entries) \in Nat
           /\ \A i \in 1 .. Len(entries) :
                /\ entries[i] \in s /\ entries[i].time \in Nat /\ entries[i].level \in Levels
                /\ view.start <= entries[i].time /\ entries[i].time <= view.end
           /\ \A i, j \in 1 .. Len(entries) : i < j => entries[i].time <= entries[j].time
           /\ \A e \in s : \E i \in 1 .. Len(entries) : entries[i] = e
<1>1. IsFiniteSet(s)
  BY FS_Subset DEF IInv, TypeOK, Within
<1>2. Cardinality(s) \in Nat
  BY <1>1, FS_CardinalityType
<1>3. entries \in [1 .. Cardinality(s) -> s]
  BY DEF Ordered
<1>4. entries \in Seq(s) /\ Len(entries) = Cardinality(s) /\ DOMAIN entries = 1 .. Len(entries)
  BY <1>2, <1>3
<1>5. \A e \in s : view.start <= e.time /\ e.time <= view.end /\ e.time \in Nat /\ e.level \in Levels
  BY DEF Within, Entry
<1>. QED
  BY <1>2, <1>3, <1>4, <1>5 DEF Ordered

(* The segments tile the window. *)
THEOREM Tiling == Spec => SegmentsTile
<1>1. ASSUME IInv, QueryLogs
      PROVE  /\ segments'[1].start = view.start
             /\ segments'[Len(segments')].end = view.end
             /\ \A i \in 1 .. Len(segments') - 1 : segments'[i].end = segments'[i + 1].start
             /\ IF view.start <= view.end
                THEN \A i \in 1 .. Len(segments') : segments'[i].start <= segments'[i].end
                ELSE Len(segments') = 1
  <2>. DEFINE s == Within(view.start, view.end)
  <2>1. s \in SUBSET Entry
    BY <1>1 DEF IInv, TypeOK, Within
  <2>2. PICK entries \in Ordered(s) :
          segments' = Segments(view.start, view.end, view.level, entries)
    BY <1>1 DEF QueryLogs
  <2>3. view.open
    BY <1>1 DEF QueryLogs
  <2>4. view.start \in Nat /\ view.end \in Nat
    BY <1>1, <2>3 DEF IInv, ViewOK
  <2>. HIDE DEF s
  <2>5. /\ Len(entries) \in Nat
        /\ \A i \in 1 .. Len(entries) :
             entries[i].time \in Nat
             /\ view.start <= entries[i].time /\ entries[i].time <= view.end
        /\ \A i, j \in 1 .. Len(entries) : i < j => entries[i].time <= entries[j].time
    BY <1>1, <2>1, <2>3, Returned DEF s
  <2>6. Len(segments') = Len(entries) + 1 /\ DOMAIN segments' = 1 .. Len(entries) + 1
    BY <2>2, <2>5 DEF Segments
  <2>7. \A i \in 1 .. Len(entries) + 1 :
          /\ segments'[i].start = IF i = 1 THEN view.start ELSE entries[i - 1].time
          /\ segments'[i].end = IF i = Len(entries) + 1 THEN view.end ELSE entries[i].time
    BY <2>2, <2>5 DEF Segments
  <2>8. view.start <= view.end
        => \A i \in 1 .. Len(entries) + 1 : segments'[i].start <= segments'[i].end
    <3>1. ASSUME view.start <= view.end, NEW i \in 1 .. Len(entries) + 1
          PROVE  segments'[i].start <= segments'[i].end
      <4>1. CASE i = 1
        BY <3>1, <4>1, <2>4, <2>5, <2>7
      <4>2. CASE i # 1 /\ i = Len(entries) + 1
        BY <3>1, <4>2, <2>4, <2>5, <2>7
      <4>3. CASE i # 1 /\ i # Len(entries) + 1
        BY <4>3, <2>5, <2>7
      <4>. QED
        BY <4>1, <4>2, <4>3
    <3>. QED
      BY <3>1
  <2>9. \A i \in 1 .. Len(entries) : segments'[i].end = segments'[i + 1].start
    BY <2>5, <2>7
  <2>10. segments'[1].start = view.start /\ segments'[Len(entries) + 1].end = view.end
    BY <2>5, <2>7
  \* No row is in a window that ends before it starts.
  <2>11. ~(view.start <= view.end) => Len(segments') = 1
    <3>1. SUFFICES ASSUME ~(view.start <= view.end), Len(entries) # 0 PROVE FALSE
      BY <2>5, <2>6
    <3>2. 1 \in 1 .. Len(entries)
      BY <3>1, <2>5
    <3>. QED
      BY <3>1, <3>2, <2>4, <2>5
  <2>. QED
    BY <2>5, <2>6, <2>8, <2>9, <2>10, <2>11
<1>2. IInv => (QueryLogs =>
        /\ segments'[1].start = view.start
        /\ segments'[Len(segments')].end = view.end
        /\ \A i \in 1 .. Len(segments') - 1 : segments'[i].end = segments'[i + 1].start
        /\ IF view.start <= view.end
           THEN \A i \in 1 .. Len(segments') : segments'[i].start <= segments'[i].end
           ELSE Len(segments') = 1)
  BY <1>1
<1>. QED
  BY <1>2, Invariance, PTL DEF SegmentsTile

(* At every instant of the window, the level shown is that of the newest     *)
(* row until then, by the rows of one of the two queries, the first segment  *)
(* aside where rows have left in between.                                    *)
THEOREM History == Spec => TimelineIsHistory
<1>1. ASSUME IInv, QueryLogs, NEW i \in 1 .. Len(segments'), NEW t \in view.start .. view.end,
             segments'[i].start <= t, t < segments'[i].end,
             i = 1 => view.known \subseteq logs
      PROVE  segments'[i].level \in LevelAt(t, view.known) \cup LevelAt(t, logs)
  <2>. DEFINE s == Within(view.start, view.end)
  <2>1. s \in SUBSET Entry /\ logs \subseteq Entry
    BY <1>1 DEF IInv, TypeOK, Within
  <2>2. PICK entries \in Ordered(s) :
          segments' = Segments(view.start, view.end, view.level, entries)
    BY <1>1 DEF QueryLogs
  <2>3. view.open
    BY <1>1 DEF QueryLogs
  <2>4. /\ view.start \in Nat /\ view.end \in Nat
        /\ view.level \in LevelsOf(NewestIn({e \in view.known : e.time < view.start}))
    BY <1>1, <2>3 DEF IInv, ViewOK
  <2>. HIDE DEF s
  <2>5. /\ Len(entries) \in Nat
        /\ \A k \in 1 .. Len(entries) : entries[k] \in s /\ entries[k].time \in Nat
        /\ \A k, j \in 1 .. Len(entries) : k < j => entries[k].time <= entries[j].time
        /\ \A e \in s : \E k \in 1 .. Len(entries) : entries[k] = e
    BY <1>1, <2>1, <2>3, Returned DEF s
  <2>6. i \in 1 .. Len(entries) + 1
    BY <1>1, <2>2, <2>5 DEF Segments
  <2>7. /\ segments'[i].start = IF i = 1 THEN view.start ELSE entries[i - 1].time
        /\ segments'[i].end = IF i = Len(entries) + 1 THEN view.end ELSE entries[i].time
        /\ segments'[i].level = IF i = 1 THEN view.level ELSE entries[i - 1].level
    BY <2>2, <2>5, <2>6 DEF Segments
  <2>8. \A e \in logs : e.time \in Nat
    BY <2>1 DEF Entry
  <2>9. ASSUME NEW e \in s, e.time <= t
        PROVE  i # 1 /\ e.time <= entries[i - 1].time
    <3>1. PICK k \in 1 .. Len(entries) : entries[k] = e
      BY <2>5
    <3>2. ~(i <= k)
      <4>1. SUFFICES ASSUME i <= k PROVE FALSE
        OBVIOUS
      <4>2. i # Len(entries) + 1 /\ i \in 1 .. Len(entries)
        BY <4>1, <2>5, <2>6
      <4>3. segments'[i].end = entries[i].time
        BY <4>2, <2>7
      <4>4. entries[i].time <= entries[k].time
        <5>1. CASE i = k
          BY <5>1, <2>5
        <5>2. CASE i < k
          BY <5>2, <4>2, <2>5
        <5>. QED
          BY <5>1, <5>2, <4>1, <4>2
      <4>. QED
        BY <1>1, <3>1, <4>2, <4>3, <4>4, <2>4, <2>5, <2>9
    <3>3. i - 1 \in 1 .. Len(entries) /\ k <= i - 1
      BY <3>2, <2>5, <2>6
    <3>4. e.time <= entries[i - 1].time
      BY <3>1, <3>3, <2>5
    <3>. QED
      BY <3>3, <3>4, <2>5, <2>6
  <2>10. CASE i = 1
    <3>1. \A e \in logs : e.time <= t => e.time < view.start
      <4>1. ASSUME NEW e \in logs, e.time <= t, ~(e.time < view.start)
            PROVE  FALSE
        <5>1. e \in s
          BY <4>1, <2>4, <2>8 DEF s, Within
        <5>. QED
          BY <5>1, <4>1, <2>9, <2>10
      <4>. QED
        BY <4>1
    <3>2. {e \in view.known : e.time < view.start} = {e \in view.known : e.time <= t}
      BY <1>1, <2>10, <3>1, <2>4, <2>8
    <3>. QED
      BY <3>2, <2>4, <2>7, <2>10 DEF LevelAt
  <2>11. CASE i # 1
    <3>. DEFINE e == entries[i - 1]
                upTo == {x \in logs : x.time <= t}
    <3>1. e \in s /\ e.time <= t
      BY <2>11, <2>5, <2>6, <2>7, <1>1
    <3>2. e \in upTo /\ view.start <= e.time
      BY <3>1 DEF s, Within
    <3>3. ASSUME NEW x \in upTo
          PROVE  x.time <= e.time
      <4>1. CASE x.time < view.start
        BY <4>1, <3>2, <2>4, <2>8
      <4>2. CASE ~(x.time < view.start)
        <5>1. x \in s
          BY <4>2, <2>4, <2>8 DEF s, Within
        <5>. QED
          BY <5>1, <2>9
      <4>. QED
        BY <4>1, <4>2
    <3>4. e \in NewestIn(upTo)
      BY <3>2, <3>3 DEF NewestIn
    <3>5. e.level \in LevelsOf(NewestIn(upTo))
      BY <3>4 DEF LevelsOf
    <3>. QED
      BY <3>5, <2>7, <2>11 DEF LevelAt
  <2>. QED
    BY <2>10, <2>11
<1>2. IInv => (QueryLogs =>
        \A i \in 1 .. Len(segments'), t \in view.start .. view.end :
           /\ segments'[i].start <= t /\ t < segments'[i].end
           /\ i = 1 => view.known \subseteq logs
           => segments'[i].level \in LevelAt(t, view.known) \cup LevelAt(t, logs))
  BY <1>1
<1>. QED
  BY <1>2, Invariance, PTL DEF TimelineIsHistory
=============================================================================
