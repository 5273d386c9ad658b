---------------------------- MODULE ReadApiProofs ----------------------------
(***************************************************************************)
(* Proofs about ReadApi, for every set of devices and metrics, every page  *)
(* size and every range.                                                   *)
(***************************************************************************)
EXTENDS ReadApi, FiniteSetTheorems, FunctionTheorems, TLAPS

-----------------------------------------------------------------------------
(* The first rows of a finite set of readings. *)

Preceding(r, m) == {s \in m : Before(s, r)}
FirstRows(m) == {r \in m : Cardinality(Preceding(r, m)) < Limit}

(* The order of a page is strict and transitive, and never goes back in time. *)
LEMMA BeforeFacts ==
    ASSUME NEW r \in Row, NEW s \in Row, NEW t \in Row
    PROVE  /\ ~Before(r, r)
           /\ Before(r, s) /\ Before(s, t) => Before(r, t)
           /\ Before(r, s) => r.time <= s.time
<1>1. \A x \in Row : x.time \in Nat /\ x.device \in Int /\ x.metric \in Int
  BY ReadAssumption DEF ReadAssumption, Row
<1>. QED
  BY <1>1 DEF Before, SameInstantBefore

LEMMA PrecedingFinite ==
    ASSUME NEW m \in SUBSET Row, IsFiniteSet(m), NEW r \in m
    PROVE  /\ IsFiniteSet(Preceding(r, m)) /\ Preceding(r, m) \subseteq m \ {r}
           /\ Cardinality(Preceding(r, m)) \in Nat
           /\ Cardinality(Preceding(r, m)) < Cardinality(m)
<1>1. Preceding(r, m) \subseteq m \ {r}
  BY BeforeFacts DEF Preceding
<1>2. IsFiniteSet(m \ {r}) /\ Cardinality(m \ {r}) = Cardinality(m) - 1
  BY FS_RemoveElement
<1>3. IsFiniteSet(Preceding(r, m)) /\ Cardinality(Preceding(r, m)) <= Cardinality(m \ {r})
  BY <1>1, <1>2, FS_Subset
<1>. QED
  BY <1>1, <1>2, <1>3, FS_CardinalityType

(* A page is a beginning: what precedes one of its rows is in it. *)
LEMMA PageIsFirst ==
    ASSUME NEW m \in SUBSET Row, IsFiniteSet(m),
           NEW p \in FirstRows(m), NEW r \in m, Before(r, p)
    PROVE  r \in FirstRows(m)
<1>1. p \in m
  BY DEF FirstRows
<1>2. Preceding(r, m) \subseteq Preceding(p, m)
  BY <1>1, BeforeFacts DEF Preceding
<1>3. /\ IsFiniteSet(Preceding(p, m))
      /\ Cardinality(Preceding(p, m)) \in Nat /\ Cardinality(Preceding(r, m)) \in Nat
  BY <1>1, PrecedingFinite
<1>4. Cardinality(Preceding(r, m)) <= Cardinality(Preceding(p, m))
  BY <1>2, <1>3, FS_Subset
<1>. QED
  BY <1>3, <1>4, ReadAssumption DEF FirstRows, ReadAssumption

(* When no more rows match than a page holds, the page is all of them. *)
LEMMA PageIsAll ==
    ASSUME NEW m \in SUBSET Row, IsFiniteSet(m), Cardinality(m) <= Limit
    PROVE  FirstRows(m) = m
<1>1. Cardinality(m) \in Nat
  BY FS_CardinalityType
<1>. QED
  BY <1>1, PrecedingFinite, ReadAssumption DEF FirstRows, ReadAssumption

(* When more match, the page is full.  The first row that is not in it has   *)
(* at least Limit rows before it, and those are in it.                       *)
LEMMA PageIsFull ==
    ASSUME NEW m \in SUBSET Row, IsFiniteSet(m), Cardinality(m) > Limit
    PROVE  Cardinality(FirstRows(m)) >= Limit
<1>. DEFINE page == FirstRows(m)
            sets == {Preceding(q, m) : q \in m \ page}
<1>1. page \subseteq m /\ IsFiniteSet(page) /\ Cardinality(page) \in Nat
  BY FS_Subset, FS_CardinalityType DEF FirstRows
<1>2. CASE m \ page = {}
  <2>1. page = m
    BY <1>1, <1>2
  <2>. QED
    BY <2>1, <1>1, ReadAssumption DEF ReadAssumption
<1>3. CASE m \ page # {}
  <2>1. IsWellFoundedOn(StrictSubsetOrdering(m), FiniteSubsetsOf(m))
    BY FS_StrictSubsetOrderingWellFounded
  <2>2. sets \subseteq FiniteSubsetsOf(m) /\ sets # {}
    BY <1>3, PrecedingFinite DEF FiniteSubsetsOf
  <2>3. PICK x \in sets : \A y \in sets : <<y, x>> \notin StrictSubsetOrdering(m)
    <3>. HIDE DEF sets
    <3>. QED BY <2>1, <2>2, WFMin
  <2>4. PICK q \in m \ page : x = Preceding(q, m)
    BY <2>3
  <2>5. ASSUME NEW s \in Preceding(q, m), s \notin page
        PROVE  FALSE
    <3>1. s \in m /\ Before(s, q)
      BY <2>5 DEF Preceding
    <3>2. Preceding(s, m) \in sets
      BY <2>5, <3>1
    <3>3. Preceding(s, m) \subseteq Preceding(q, m) /\ s \notin Preceding(s, m)
      BY <3>1, BeforeFacts DEF Preceding
    <3>4. <<Preceding(s, m), Preceding(q, m)>> \in StrictSubsetOrdering(m)
      BY <3>3, <2>5 DEF StrictSubsetOrdering, Preceding
    <3>. QED
      BY <3>2, <3>4, <2>3, <2>4
  <2>6. Preceding(q, m) \subseteq page
    BY <2>5
  <2>7. Cardinality(Preceding(q, m)) \in Nat /\ ~(Cardinality(Preceding(q, m)) < Limit)
    BY PrecedingFinite DEF FirstRows
  <2>8. Cardinality(Preceding(q, m)) <= Cardinality(page)
    BY <2>6, <1>1, FS_Subset
  <2>. QED
    BY <2>7, <2>8, <1>1, ReadAssumption DEF ReadAssumption
<1>. QED
  BY <1>2, <1>3

-----------------------------------------------------------------------------
(* The inductive invariant. *)

(* The worker stores what it has stamped before it stamps again, so what is  *)
(* on its way is not older than anything a client has seen.                  *)
StampsInOrder ==
    /\ start <= now
    /\ \A r \in rows : r.time <= now
    /\ \A b \in batch : b.time <= now /\ start <= b.time /\ \A r \in rows : r.time <= b.time

(* A device that was approved all the time is in the list a request read.    *)
KeptIsListed ==
    /\ kept \subseteq approved
    /\ request.step = "resolved" => kept \cap Asked \subseteq request.devices

IInv == TypeOK /\ StampsInOrder /\ KeptIsListed /\ NothingSkipped

LEMMA InitInv == ASSUME Init PROVE IInv
<1>1. IsFiniteSet({})
  BY FS_EmptySet
<1>2. request \in [step : {"idle", "known", "ranged", "resolved"}, until : Nat,
                   devices : SUBSET Devices]
  BY DEF Init, Idle
<1>3. TypeOK
  BY <1>1, <1>2 DEF Init, TypeOK
<1>4. StampsInOrder /\ KeptIsListed /\ NothingSkipped
  BY DEF Init, StampsInOrder, KeptIsListed, NothingSkipped, Idle
<1>. QED
  BY <1>3, <1>4 DEF IInv

LEMMA PageFacts ==
    ASSUME TypeOK
    PROVE  /\ Matched \in SUBSET Row /\ Matched \subseteq rows /\ IsFiniteSet(Matched)
           /\ Page = FirstRows(Matched) /\ Page \subseteq Matched
           /\ Cardinality(Matched) \in Nat
<1>1. Matched \subseteq rows /\ Matched \in SUBSET Row
  BY DEF Matched, TypeOK
<1>2. IsFiniteSet(Matched)
  BY <1>1, FS_Subset DEF TypeOK
<1>. QED
  BY <1>1, <1>2, FS_CardinalityType DEF Page, FirstRows, Preceding

(* What an answer does to the cursor: it keeps it, or moves it forward to a  *)
(* row of the page, and every match before the new cursor is in the page.    *)
LEMMA AnswerFacts ==
    ASSUME IInv, Answer
    PROVE  /\ start' \in Nat /\ start <= start' /\ start' <= now
           /\ \A b \in batch : start' <= b.time
           /\ \A r \in Matched : r.time < start' => r \in Page
           /\ start' = start \/ \E p \in Page : Last(p) /\ start' = p.time
<1>. USE DEF IInv
<1>1. CASE Page = {} /\ start' = start
  BY <1>1 DEF Matched, From, TypeOK, StampsInOrder, Row
<1>2. CASE \E p \in Page : Last(p) /\ start' = p.time
  <2>1. PICK p \in Page : Last(p) /\ start' = p.time
    BY <1>2
  <2>2. p \in Matched /\ p \in rows /\ p \in Row
    BY PageFacts
  <2>3. start <= start' /\ start' \in Nat /\ start' <= now
    BY <2>1, <2>2 DEF Matched, From, Row, StampsInOrder, TypeOK
  <2>4. \A b \in batch : start' <= b.time
    BY <2>1, <2>2 DEF StampsInOrder
  <2>5. ASSUME NEW r \in Matched, r.time < start'
        PROVE  r \in Page
    <3>1. Before(r, p)
      BY <2>5, <2>1 DEF Before
    <3>. QED
      BY <3>1, <2>1, PageFacts, PageIsFirst
  <2>. QED
    BY <2>1, <2>3, <2>4, <2>5
<1>. QED
  BY <1>1, <1>2 DEF Answer

LEMMA AnswerInv == ASSUME IInv, Answer PROVE IInv'
<1>. USE DEF IInv
<1>1. TypeOK'
  <2>1. Page \subseteq Row
    BY PageFacts
  <2>2. HasMore \in BOOLEAN
    BY DEF HasMore
  <2>. QED
    BY <2>1, <2>2, AnswerFacts DEF TypeOK, Answer, server, Idle
<1>2. StampsInOrder'
  BY AnswerFacts DEF StampsInOrder, Answer, server
<1>3. KeptIsListed'
  BY DEF KeptIsListed, Answer, server, Idle, Asked
<1>4. NothingSkipped'
  <2>1. SUFFICES ASSUME NEW r \in rows, r.device \in kept \cap Asked, r.time < start',
                              r \notin behind
                 PROVE  r \in got \cup Page
    BY DEF NothingSkipped, Answer, server, Asked
  <2>2. CASE r.time < start
    BY <2>1, <2>2 DEF NothingSkipped
  <2>3. CASE ~(r.time < start)
    <3>1. /\ r.device \in request.devices /\ r.time >= start
          /\ r.time \in Nat /\ start \in Nat /\ request.until \in Nat
      BY <2>1, <2>3 DEF KeptIsListed, Answer, TypeOK, Row
    <3>2. r.time <= request.until
      <4>1. PICK p \in Page : start' = p.time
        BY <2>1, <2>3, AnswerFacts
      <4>2. p.time <= request.until /\ p.time \in Nat
        BY PageFacts DEF Matched, Row
      <4>. QED
        BY <2>1, <3>1, <4>1, <4>2
    <3>3. r \in Matched
      BY <3>1, <3>2 DEF Matched, From
    <3>. QED
      BY <3>3, <2>1, AnswerFacts
  <2>. QED
    BY <2>2, <2>3
<1>. QED
  BY <1>1, <1>2, <1>3, <1>4

(* The other steps of a request change the request, and the key at most. *)
LEMMA RequestInv ==
    ASSUME IInv, Authenticate \/ RecordUse \/ ResolveDevices \/ Fail
    PROVE  IInv'
<1>. USE DEF IInv, TypeOK, StampsInOrder, KeptIsListed, NothingSkipped, Asked, Idle,
             server, client
<1>1. CASE Authenticate
  BY <1>1 DEF Authenticate
<1>2. CASE RecordUse
  BY <1>2 DEF RecordUse
<1>3. CASE ResolveDevices
  BY <1>3 DEF ResolveDevices
<1>4. CASE Fail
  BY <1>4 DEF Fail
<1>. QED
  BY <1>1, <1>2, <1>3, <1>4

(* The rows of one message are finitely many. *)
LEMMA BatchFinite ==
    ASSUME NEW d, NEW t, NEW metrics \in SUBSET Metrics
    PROVE  IsFiniteSet({[time |-> t, device |-> d, metric |-> m] : m \in metrics})
<1>. DEFINE B == {[time |-> t, device |-> d, metric |-> m] : m \in metrics}
            f == [m \in metrics |-> [time |-> t, device |-> d, metric |-> m]]
<1>1. IsFiniteSet(metrics)
  BY ReadAssumption, FS_Subset DEF ReadAssumption
<1>2. f \in Surjection(metrics, B)
  BY DEF Surjection
<1>. QED
  BY <1>1, <1>2, FS_Surjection

LEMMA WorkInv == ASSUME IInv, Work PROVE IInv'
<1>1. PICK d \in Devices, metrics \in SUBSET Metrics \ {{}} : Stamp(d, metrics)
  BY DEF Work
<1>2. IsFiniteSet(batch') /\ batch' \subseteq Row /\ \A b \in batch' : b.time = now
  <2>1. IsFiniteSet(batch')
    BY <1>1, BatchFinite DEF Stamp
  <2>2. now \in Nat
    BY DEF IInv, TypeOK
  <2>. QED
    BY <1>1, <2>1, <2>2 DEF Stamp, Row
<1>. QED
  BY <1>1, <1>2 DEF Stamp, IInv, TypeOK, StampsInOrder, KeptIsListed, NothingSkipped, Asked,
                    client, Row

(* What is stored late is not behind the cursor. *)
LEMMA StoreInv == ASSUME IInv, Store PROVE IInv'
<1>. USE DEF IInv
<1>1. TypeOK'
  <2>1. IsFiniteSet(rows \cup batch)
    BY FS_Union DEF TypeOK
  <2>. QED
    BY <2>1, FS_EmptySet DEF TypeOK, Store, client
<1>2. StampsInOrder'
  BY DEF Store, StampsInOrder, client
<1>3. KeptIsListed'
  BY DEF Store, KeptIsListed, Asked, client
<1>4. NothingSkipped'
  <2>1. \A b \in batch : ~(b.time < start)
    BY DEF StampsInOrder, TypeOK, Row
  <2>. QED
    BY <2>1 DEF Store, NothingSkipped, Asked, client
<1>. QED
  BY <1>1, <1>2, <1>3, <1>4

(* Rows that are moved keep their time, so those that are not behind the     *)
(* cursor are still to come.                                                 *)
LEMMA MoveInv ==
    ASSUME IInv, NEW d \in Devices, NEW e \in Devices,
           NEW moved \in SUBSET {r \in rows : r.device = d},
           NEW lost \in SUBSET {r \in rows \ moved : r.device \in {d, e}},
           Move(d, e, moved, lost)
    PROVE  IInv'
<1>. USE DEF IInv
<1>1. PICK come : come = {[r EXCEPT !.device = e] : r \in moved}
  OBVIOUS
<1>2. /\ rows' = (rows \ (moved \cup lost)) \cup come
      /\ behind' = behind \cup {r \in come : r.time < start}
      /\ approved' \subseteq approved \cup {e} /\ kept' = kept \ {d}
      /\ approved \ {d} \subseteq approved'
      /\ UNCHANGED <<now, batch, active, request, client>>
  BY <1>1 DEF Move
<1>3. moved \subseteq rows /\ rows \subseteq Row /\ IsFiniteSet(moved)
  BY FS_Subset DEF TypeOK
<1>4. \A c \in come : c \in Row /\ c.device = e /\ \E r \in moved : c.time = r.time
  BY <1>1, <1>3 DEF Row
<1>5. IsFiniteSet(come)
  <2>1. DEFINE f == [r \in moved |-> [r EXCEPT !.device = e]]
  <2>2. f \in Surjection(moved, come)
    BY <1>1 DEF Surjection
  <2>. QED
    BY <1>3, <2>2, FS_Surjection
<1>6. IsFiniteSet(rows')
  BY <1>2, <1>5, FS_Subset, FS_Union DEF TypeOK
<1>7. TypeOK'
  <2>1. rows' \subseteq Row /\ behind' \subseteq Row
    BY <1>2, <1>3, <1>4 DEF TypeOK
  <2>. QED
    BY <1>2, <1>6, <2>1 DEF TypeOK, client
<1>8. \A r \in rows' : \E s \in rows : r.time = s.time
  BY <1>2, <1>3, <1>4
<1>9. StampsInOrder'
  BY <1>2, <1>8 DEF StampsInOrder, client
<1>10. KeptIsListed'
  BY <1>2 DEF KeptIsListed, Asked, client
<1>11. NothingSkipped'
  <2>1. SUFFICES ASSUME NEW r \in rows', r \notin behind', r.device \in kept' \cap Asked, r.time < start
                 PROVE  r \in got
    BY <1>2 DEF NothingSkipped, Asked, client
  <2>2. r \in rows /\ r \notin behind
    BY <1>2, <2>1
  <2>. QED
    BY <1>2, <2>1, <2>2 DEF NothingSkipped
<1>. QED
  BY <1>7, <1>9, <1>10, <1>11

LEMMA DeleteInv ==
    ASSUME IInv, NEW lost, DeleteReadings(lost)
    PROVE  IInv'
<1>1. IsFiniteSet(rows \ lost)
  BY FS_Subset DEF IInv, TypeOK
<1>. QED
  BY <1>1 DEF DeleteReadings, IInv, TypeOK, StampsInOrder, KeptIsListed, NothingSkipped, Asked, client

LEMMA OthersInv ==
    ASSUME IInv, WorkerDies \/ (\E d \in Devices : Decide(d)) \/ SetKey \/ Tick
    PROVE  IInv'
<1>. USE DEF IInv, TypeOK, StampsInOrder, KeptIsListed, NothingSkipped, Asked, client
<1>1. CASE WorkerDies
  BY <1>1, FS_EmptySet DEF WorkerDies
<1>2. CASE \E d \in Devices : Decide(d)
  BY <1>2 DEF Decide
<1>3. CASE SetKey
  BY <1>3 DEF SetKey
<1>4. CASE Tick
  BY <1>4 DEF Tick, Row
<1>. QED
  BY <1>1, <1>2, <1>3, <1>4

LEMMA StutterInv == ASSUME IInv, UNCHANGED vars PROVE IInv'
BY DEF IInv, TypeOK, StampsInOrder, KeptIsListed, NothingSkipped, Asked, vars, server, client

LEMMA NextInv == IInv /\ [Next]_vars => IInv'
BY AnswerInv, RequestInv, WorkInv, StoreInv, MoveInv, DeleteInv, OthersInv, StutterInv DEF Next

(* Every reachable state satisfies the inductive invariant. *)
THEOREM Invariance == Spec => []IInv
BY InitInv, NextInv, PTL DEF Spec

(* Whoever follows the pages leaves no reading behind, whatever is stored,   *)
(* deleted, approved or withdrawn meanwhile, but what a rename or a merge    *)
(* moved to a time before the cursor.                                        *)
THEOREM PagesSkipNothing == Spec => []NothingSkipped
<1>1. IInv => NothingSkipped
  BY DEF IInv
<1>. QED
  BY <1>1, Invariance, PTL

(* A page that says nothing follows completes its range, with the same        *)
(* exception.                                                                *)
THEOREM LastPagesComplete == Spec => LastPageCompletes
<1>1. ASSUME IInv, Answer, ~more', NEW r \in rows,
             r.device \in kept \cap Asked, r.time <= request.until, r \notin behind
      PROVE  r \in got'
  <2>1. CASE r.time < start
    BY <1>1, <2>1 DEF IInv, NothingSkipped, Answer
  <2>2. CASE ~(r.time < start)
    <3>1. r \in Matched
      BY <1>1, <2>2 DEF Matched, From, IInv, TypeOK, Row, KeptIsListed, Answer
    <3>2. Cardinality(Matched) <= Limit
      <4>1. Cardinality(Matched) \in Nat
        BY <1>1, PageFacts DEF IInv
      <4>2. ~HasMore
        BY <1>1 DEF Answer
      <4>. QED
        BY <4>1, <4>2, ReadAssumption DEF HasMore, ReadAssumption
    <3>3. Page = Matched
      BY <1>1, <3>2, PageFacts, PageIsAll DEF IInv
    <3>. QED
      BY <1>1, <3>1, <3>3 DEF Answer
  <2>. QED
    BY <2>1, <2>2
<1>2. IInv => (Answer /\ ~more'
               => \A r \in rows \ behind :
                     r.device \in kept \cap Asked /\ r.time <= request.until => r \in got')
  BY <1>1
<1>. QED
  BY <1>2, Invariance, PTL DEF LastPageCompletes

(* A page after which more is to come moves the cursor, if fewer readings    *)
(* than a page holds share the instant it is at: a full page cannot consist  *)
(* of them alone.                                                            *)
THEOREM CursorAdvances == Spec => PagesAdvance
<1>1. ASSUME IInv, Answer, more', Cardinality({r \in Matched : r.time = start}) < Limit
      PROVE  start' > start
  <2>. DEFINE crowd == {r \in Matched : r.time = start}
  <2>1. /\ IsFiniteSet(Matched) /\ Matched \in SUBSET Row /\ Matched \subseteq rows
        /\ Page = FirstRows(Matched) /\ Page \subseteq Matched
        /\ Cardinality(Matched) \in Nat
    BY <1>1, PageFacts DEF IInv
  <2>2. Cardinality(Page) >= Limit
    BY <1>1, <2>1, PageIsFull, ReadAssumption DEF Answer, HasMore, ReadAssumption
  <2>3. IsFiniteSet(crowd) /\ Cardinality(crowd) \in Nat
    BY <2>1, FS_Subset, FS_CardinalityType
  <2>4. ~(Page \subseteq crowd)
    <3>1. Page \subseteq crowd => Cardinality(Page) <= Cardinality(crowd)
      BY <2>3, FS_Subset
    <3>2. Cardinality(Page) \in Nat
      BY <2>1, FS_Subset, FS_CardinalityType
    <3>. QED
      BY <3>1, <3>2, <2>2, <2>3, <1>1, ReadAssumption DEF ReadAssumption
  <2>5. PICK q \in Page : q \notin crowd
    BY <2>4
  <2>6. q.time \in Nat /\ start \in Nat /\ q.time > start /\ q \in Row
    BY <1>1, <2>1, <2>5 DEF Matched, From, Row, IInv, TypeOK
  <2>7. PICK p \in Page : Last(p) /\ start' = p.time
    BY <1>1, <2>5 DEF Answer
  <2>8. q.time <= p.time
    <3>1. p \in Row /\ p.time \in Nat
      BY <2>1 DEF Row
    <3>2. q = p \/ Before(q, p)
      BY <2>5, <2>7 DEF Last
    <3>. QED
      BY <3>1, <3>2, <2>6, BeforeFacts
  <2>9. p.time \in Nat
    BY <2>1 DEF Row
  <2>. QED
    BY <2>6, <2>7, <2>8, <2>9
<1>2. IInv => (Answer /\ more' /\ Cardinality({r \in Matched : r.time = start}) < Limit
               => start' > start)
  BY <1>1
<1>. QED
  BY <1>2, Invariance, PTL DEF PagesAdvance
=============================================================================
