------------------------ MODULE DeviceRegistryProofs ------------------------
(***************************************************************************)
(* Proofs about DeviceRegistry, for every set of ids and metrics and every *)
(* bound of the clock: the types for any number of admins, the rest for    *)
(* one admin at work with the worker.                                      *)
(***************************************************************************)
EXTENDS DeviceRegistry, TLAPS

OneAdminOnly == \A v, w \in Operators : v = w

\* A rename and a merge go to another id; a delete names its id twice.
MovesApart ==
    \A v \in Operators : view[v] # AtRest => (view[v].op = "delete" <=> view[v].id = view[v].to)

TInv == TypeOK /\ MovesApart

\* What a request has compared of a metric: the source's readings, the target's.
Mine(q, m) == Series(q.compared, q.id, m)
Theirs(q, m) == Series(q.compared, q.to, m)
\* s has a reading at least as new as any of t.
Covers(s, t) == \A r \in t : \E k \in s : k.time >= r.time

\* Where a metric of a merge may be: not looked at since the lists; decided; the
\* target's series kept; the source's kept; only the source's, to be moved.
Waiting(q, m) ==
    /\ \A k \in q.come : k.metric # m
    /\ \A r \in q.compared : r.metric # m
Deciding(q, m) ==
    /\ \A k \in q.come : k.metric # m
    /\ Mine(q, m) \cap q.gone = {}
    /\ IF q.stage = "targetWins" THEN Covers(Theirs(q, m), Mine(q, m))
                                 ELSE Covers(Mine(q, m), Theirs(q, m))
    /\ IF q.stage = "dropped" THEN Theirs(q, m) \subseteq q.gone
                              ELSE Theirs(q, m) \cap q.gone = {}
TargetKept(q, m) ==
    /\ Theirs(q, m) \cap q.gone = {} /\ Mine(q, m) \subseteq q.gone
    /\ \A r \in Mine(q, m), k \in q.come : ~(k.metric = m /\ k.time = r.time)
    /\ Covers(Theirs(q, m), Mine(q, m))
SourceKept(q, m) ==
    /\ Theirs(q, m) \subseteq q.gone /\ Relabelled(Mine(q, m), q.to) \subseteq q.come
    /\ Covers(Mine(q, m), Theirs(q, m))
SourceWaits(q, m) == Theirs(q, m) = {} /\ Mine(q, m) \cap q.gone = {}

OneMetric == {"sourceWins", "targetWins", "dropped"}
Merging == {"merging"} \cup OneMetric

Placed(q, m) ==
    \/ m \in q.todo /\ Waiting(q, m)
    \/ m \notin q.todo /\ q.stage \in OneMetric /\ m \in q.metric /\ Deciding(q, m)
    \/ /\ m \notin q.todo /\ ~(q.stage \in OneMetric /\ m \in q.metric)
       /\ TargetKept(q, m) \/ SourceKept(q, m) \/ SourceWaits(q, m)

\* What a request has done so far.
Sound(q) ==
    /\ \A r \in q.compared : r.device \in {q.id, q.to}
    /\ \A k \in q.come : k.device = q.to /\ \E r \in q.gone :
          r.device = q.id /\ r.metric = k.metric /\ r.time = k.time
    /\ q.stage = "read" => q.gone = {} /\ q.come = {} /\ q.compared = {}
    /\ q.stage = "listed" => q.gone = {} /\ q.come = {} /\ \A r \in q.compared : r.device = q.id
    /\ q.stage \in Merging => \A m \in Metrics : Placed(q, m)
    /\ q.stage \in OneMetric => \E m \in Metrics : q.metric = {m} /\ m \notin q.todo
    /\ q.stage \notin {"read", "done"} => q.op = "merge"
    /\ q.stage = "done" /\ q.op # "delete" =>
          \A m \in Metrics : TargetKept(q, m) \/ SourceKept(q, m)

\* And what of that is still in the table: a metric of both has target readings.
Anchored(q) ==
    /\ q.gone \subseteq readings /\ q.compared \subseteq readings
    /\ q.stage \in Merging =>
          \A m \in q.todo : \E r \in readings \ q.gone : r.device = q.to /\ r.metric = m

RequestsSound == \A v \in Operators : view[v] # AtRest => Sound(view[v]) /\ Anchored(view[v])

\* Two readings of a metric never have the same time, and a message in hand is
\* newer than all that is stored.
Distinct == \A r, s \in readings : r.metric = s.metric /\ r.time = s.time => r = s
Ordered ==
    /\ \A r \in readings : r.time <= now
    /\ work # AtRest => work.time <= now /\ \A r \in readings : r.time < work.time

DInv == TInv /\ RequestsSound /\ Distinct /\ Ordered

-----------------------------------------------------------------------------
(* The data.                                                                *)

\* The requests that are not at rest.
Active ==
    [stage : Stages, op : {"rename", "merge", "delete"}, id : Ids, to : Ids,
     approved : BOOLEAN, todo : SUBSET Metrics, metric : SUBSET Metrics,
     gone : SUBSET Readings, come : SUBSET Readings, compared : SUBSET Readings]

LEMMA RequestShape ==
    ASSUME NEW q \in Requests
    PROVE  /\ q = AtRest => q.stage = "idle"
           /\ q # AtRest => q \in Active
           /\ q.stage # "idle" => q \in Active
BY DEF Requests, AtRest, Active, Stages

LEMMA ActiveFields ==
    ASSUME NEW q \in Active
    PROVE  /\ q # AtRest /\ q \in Requests /\ q.stage \in Stages /\ q.stage # "idle"
           /\ q.op \in {"rename", "merge", "delete"} /\ q.id \in Ids /\ q.to \in Ids
           /\ q.approved \in BOOLEAN /\ q.todo \in SUBSET Metrics /\ q.metric \in SUBSET Metrics
           /\ q.gone \in SUBSET Readings /\ q.come \in SUBSET Readings
           /\ q.compared \in SUBSET Readings
BY DEF Active, Requests, AtRest, Stages

\* A message in hand is a record with all its fields.
LEMMA WorkShape ==
    ASSUME NEW w \in Work
    PROVE  \/ w = AtRest /\ w.stage = "idle"
           \/ /\ w.stage \in {"begun", "saved"} /\ w.id \in Ids /\ w.approved \in BOOLEAN
              /\ w.metrics \in SUBSET Metrics /\ w.time \in 1 .. MaxTime /\ w # AtRest
BY DEF Work, AtRest

LEMMA RelabelledType ==
    ASSUME NEW rs \in SUBSET Readings, NEW id \in Ids
    PROVE  Relabelled(rs, id) \in SUBSET Readings
BY DEF Relabelled, Readings

\* Relabelling changes the device of a reading and nothing else.
LEMMA RelabelledMember ==
    ASSUME NEW rs \in SUBSET Readings, NEW id \in Ids, NEW r \in rs
    PROVE  \E k \in Relabelled(rs, id) :
              k.device = id /\ k.metric = r.metric /\ k.time = r.time
<1> DEFINE k == [r EXCEPT !.device = id]
<1>1. k \in Relabelled(rs, id)
  BY DEF Relabelled
<1>2. r \in Readings
  OBVIOUS
<1>3. k.device = id /\ k.metric = r.metric /\ k.time = r.time
  BY <1>2 DEF Readings
<1> QED BY <1>1, <1>3

\* Every relabelled reading comes from one that differs in the device only.
LEMMA RelabelledOrigin ==
    ASSUME NEW rs \in SUBSET Readings, NEW id \in Ids, NEW k \in Relabelled(rs, id)
    PROVE  /\ k.device = id /\ k \in Readings
           /\ \E r \in rs : k.metric = r.metric /\ k.time = r.time
<1>1. PICK r \in rs : k = [r EXCEPT !.device = id]
  BY DEF Relabelled
<1>2. r \in Readings
  OBVIOUS
<1> QED BY <1>1, <1>2 DEF Readings

-----------------------------------------------------------------------------
(* Statements.                                                              *)

\* What a transaction sees is in the table or its own.
LEMMA VisibleRows ==
    ASSUME TypeOK, NEW v \in Operators, view[v] \in Active
    PROVE  /\ Visible(v) = (readings \ view[v].gone) \cup view[v].come
           /\ Visible(v) \in SUBSET Readings
           /\ \A id \in Ids : Of(Visible(v), id) \in SUBSET Readings
           /\ \A id \in Ids, m \in Metrics : Series(Visible(v), id, m) \in SUBSET Readings
<1>1. Gone(v) = view[v].gone /\ Come(v) = view[v].come
  BY ActiveFields DEF Gone, Come
<1> QED BY <1>1, ActiveFields DEF Visible, TypeOK, Of, Series

-----------------------------------------------------------------------------
(* What the statements of a merge leave, metric by metric.                  *)

\* A metric whose rows a step leaves alone stays where it was.
LEMMA OtherMetric ==
    ASSUME NEW q \in Active, NEW a \in Active, NEW m \in Metrics, a.id = q.id, a.to = q.to,
           \A r \in Readings : r.metric = m =>
              /\ r \in a.gone <=> r \in q.gone
              /\ r \in a.come <=> r \in q.come
              /\ r \in a.compared <=> r \in q.compared
    PROVE  /\ TargetKept(q, m) => TargetKept(a, m)
           /\ SourceKept(q, m) => SourceKept(a, m)
           /\ SourceWaits(q, m) => SourceWaits(a, m)
           /\ Waiting(q, m) => Waiting(a, m)
<1>1. /\ q.compared \in SUBSET Readings /\ a.compared \in SUBSET Readings
      /\ q.come \in SUBSET Readings /\ a.come \in SUBSET Readings
      /\ q.gone \in SUBSET Readings /\ a.gone \in SUBSET Readings /\ q.to \in Ids
  BY ActiveFields
<1>2. Mine(a, m) = Mine(q, m) /\ Theirs(a, m) = Theirs(q, m)
  BY <1>1 DEF Mine, Theirs, Series
<1>3. /\ Mine(q, m) \in SUBSET Readings /\ Theirs(q, m) \in SUBSET Readings
      /\ \A r \in Mine(q, m) \cup Theirs(q, m) : r.metric = m
  BY <1>1 DEF Mine, Theirs, Series
<1>4. TargetKept(q, m) => TargetKept(a, m)
  BY <1>1, <1>2, <1>3 DEF TargetKept
<1>5. SourceKept(q, m) => SourceKept(a, m)
  <2>1. \A k \in Relabelled(Mine(q, m), q.to) : k \in Readings /\ k.metric = m
    BY <1>1, <1>3, RelabelledOrigin
  <2> QED BY <1>1, <1>2, <1>3, <2>1 DEF SourceKept
<1>6. SourceWaits(q, m) => SourceWaits(a, m)
  BY <1>1, <1>2, <1>3 DEF SourceWaits
<1>7. Waiting(q, m) => Waiting(a, m)
  BY <1>1 DEF Waiting
<1> QED BY <1>4, <1>5, <1>6, <1>7

\* The rows of the source that a transaction sees are all in the table.
LEMMA SourceRows ==
    ASSUME NEW q \in Active, Sound(q), q.id # q.to, NEW V, V = (readings \ q.gone) \cup q.come
    PROVE  /\ Of(V, q.id) = {r \in readings \ q.gone : r.device = q.id}
           /\ \A m \in Metrics :
                 Series(V, q.id, m) = {r \in readings \ q.gone : r.device = q.id /\ r.metric = m}
           /\ \A r \in q.come : r.device # q.id
BY DEF Sound, Of, Series

LEMMA ReadingTimes == \A r \in Readings : r.time \in Int
BY RegistryAssumption DEF Readings, RegistryAssumption

LEMMA WinnerCovers ==
    ASSUME NEW s \in SUBSET Readings, NEW t \in SUBSET Readings
    PROVE  /\ SourceWins(s, t) => Covers(s, t)
           /\ ~SourceWins(s, t) /\ t # {} => Covers(t, s)
<1>1. \A r \in s \cup t : r.time \in Int
  BY ReadingTimes
<1> QED BY <1>1 DEF SourceWins, Covers

\* The readings of other metrics.
NotOf(rs, metrics) == {r \in rs : r.metric \notin metrics}

LEMMA SoundListTarget ==
    ASSUME TInv, NEW q \in Active, NEW a \in Active, Sound(q), Anchored(q), q.id # q.to,
           q.stage = "listed", NEW V, V = (readings \ q.gone) \cup q.come,
           NEW theirs, theirs = Of(V, q.to),
           NEW shared, shared = MetricsOf(q.compared) \cap MetricsOf(theirs),
           NEW looked, looked = NotOf(q.compared \cup theirs, shared),
           a.op = q.op, a.id = q.id, a.to = q.to, a.stage = "merging", a.todo = shared,
           a.compared = looked,
           a.gone = q.gone, a.come = q.come
    PROVE  Sound(a) /\ Anchored(a)
<1>1. /\ a.gone = {} /\ a.come = {} /\ q.op = "merge"
      /\ \A r \in q.compared : r.device = q.id
      /\ theirs = Of(readings, q.to) /\ q.compared \subseteq readings
      /\ a.compared = {r \in q.compared \cup theirs : r.metric \notin shared}
  BY DEF Sound, Anchored, Of, NotOf
<1>2. ASSUME NEW m \in Metrics PROVE Placed(a, m)
  <2>1. CASE m \in shared
    BY <1>1, <2>1 DEF Placed, Waiting
  <2>2. CASE m \notin MetricsOf(q.compared)
    <3>1. Mine(a, m) = {}
      BY <1>1, <2>2 DEF Mine, Series, MetricsOf, Of
    <3>2. TargetKept(a, m)
      BY <1>1, <3>1 DEF TargetKept, Covers
    <3> QED BY <2>2, <3>2 DEF Placed, OneMetric
  <2>3. CASE m \notin MetricsOf(theirs)
    <3>1. Theirs(a, m) = {}
      BY <1>1, <2>3 DEF Theirs, Series, MetricsOf, Of
    <3>2. SourceWaits(a, m)
      BY <1>1, <3>1 DEF SourceWaits
    <3> QED BY <2>3, <3>2 DEF Placed, OneMetric
  <2> QED BY <2>1, <2>2, <2>3
<1>3. Sound(a)
  BY <1>1, <1>2 DEF Sound, Merging, OneMetric, Of
<1>4. \A m \in shared : \E r \in readings \ a.gone : r.device = a.to /\ r.metric = m
  BY <1>1 DEF MetricsOf, Of
<1>5. a.compared \subseteq readings
  BY <1>1 DEF Of
<1> QED BY <1>1, <1>3, <1>4, <1>5 DEF Anchored

LEMMA SoundCompare ==
    ASSUME TInv, NEW q \in Active, NEW a \in Active, Sound(q), Anchored(q), q.id # q.to,
           NEW m0 \in Metrics, q.stage = "merging", m0 \in q.todo,
           NEW V, V = (readings \ q.gone) \cup q.come,
           NEW mine, mine = Series(V, q.id, m0), NEW theirs, theirs = Series(V, q.to, m0),
           a.op = q.op, a.id = q.id, a.to = q.to,
           a.stage = IF SourceWins(mine, theirs) THEN "sourceWins" ELSE "targetWins",
           a.todo = q.todo \ {m0}, a.metric = {m0},
           a.compared = q.compared \cup mine \cup theirs, a.gone = q.gone, a.come = q.come
    PROVE  Sound(a) /\ Anchored(a)
<1>1. /\ q.op = "merge" /\ \A m \in Metrics : Placed(q, m)
      /\ q.compared \subseteq readings /\ readings \in SUBSET Readings
  BY DEF Sound, Anchored, Merging, TInv, TypeOK
<1>2. Waiting(q, m0)
  BY <1>1 DEF Placed
<1>3. /\ mine = {r \in readings \ q.gone : r.device = q.id /\ r.metric = m0}
      /\ theirs = {r \in readings \ q.gone : r.device = q.to /\ r.metric = m0}
  BY <1>2, SourceRows DEF Waiting, Series
<1>4. theirs # {}
  BY <1>3 DEF Anchored, Merging
<1>5. Mine(a, m0) = mine /\ Theirs(a, m0) = theirs
  BY <1>2, <1>3 DEF Waiting, Mine, Theirs, Series
<1>6. Deciding(a, m0)
  <2>1. /\ \A k \in a.come : k.metric # m0
        /\ Mine(a, m0) \cap a.gone = {} /\ Theirs(a, m0) \cap a.gone = {}
    BY <1>2, <1>3, <1>5 DEF Waiting
  <2>2. CASE SourceWins(mine, theirs)
    <3>1. Covers(mine, theirs)
      BY <1>1, <1>3, <2>2, WinnerCovers
    <3> QED BY <1>5, <2>1, <2>2, <3>1 DEF Deciding
  <2>3. CASE ~SourceWins(mine, theirs)
    <3>1. Covers(theirs, mine)
      BY <1>1, <1>3, <1>4, <2>3, WinnerCovers
    <3> QED BY <1>5, <2>1, <2>3, <3>1 DEF Deciding
  <2> QED BY <2>2, <2>3
<1>7. a.stage \in OneMetric
  BY DEF OneMetric
<1>8. ASSUME NEW m \in Metrics PROVE Placed(a, m)
  <2>1. CASE m = m0
    BY <1>6, <1>7, <2>1 DEF Placed
  <2>2. CASE m # m0
    <3>1. \A r \in Readings : r.metric = m => (r \in a.compared <=> r \in q.compared)
      BY <1>3, <2>2
    <3>2. /\ TargetKept(q, m) => TargetKept(a, m)
          /\ SourceKept(q, m) => SourceKept(a, m)
          /\ SourceWaits(q, m) => SourceWaits(a, m)
          /\ Waiting(q, m) => Waiting(a, m)
      BY <3>1, OtherMetric
    <3>3. q.stage \notin OneMetric
      BY DEF OneMetric
    <3> QED BY <1>1, <2>2, <3>2, <3>3 DEF Placed
  <2> QED BY <2>1, <2>2
<1>9. Sound(a)
  <2>1. \A r \in a.compared : r.device \in {a.id, a.to}
    BY <1>3 DEF Sound
  <2>2. /\ \A k \in a.come : k.device = a.to /\ \E r \in a.gone :
              r.device = a.id /\ r.metric = k.metric /\ r.time = k.time
        /\ a.stage # "read" /\ a.stage # "listed" /\ a.stage # "done" /\ a.op = "merge"
    BY <1>1 DEF Sound
  <2> QED BY <1>8, <2>1, <2>2 DEF Sound
<1>10. Anchored(a)
  <2>1. a.gone \subseteq readings /\ a.compared \subseteq readings
    BY <1>1, <1>3 DEF Anchored
  <2>2. \A m \in q.todo : \E r \in readings \ q.gone : r.device = q.to /\ r.metric = m
    BY DEF Anchored, Merging
  <2> QED BY <2>1, <2>2 DEF Anchored
<1> QED BY <1>9, <1>10

LEMMA SoundDropLoser ==
    ASSUME TInv, NEW q \in Active, NEW a \in Active, Sound(q), Anchored(q), q.id # q.to,
           NEW m0 \in q.metric, q.stage \in {"sourceWins", "targetWins"},
           NEW V, V = (readings \ q.gone) \cup q.come,
           NEW rs, rs = Series(V, IF q.stage = "sourceWins" THEN q.to ELSE q.id, m0),
           a.op = q.op, a.id = q.id, a.to = q.to,
           a.stage = IF q.stage = "sourceWins" THEN "dropped" ELSE "merging",
           a.todo = q.todo, a.metric = q.metric, a.compared = q.compared,
           a.gone = q.gone \cup (rs \ q.come), a.come = q.come \ rs
    PROVE  Sound(a) /\ Anchored(a)
<1>1. /\ q.op = "merge" /\ \A m \in Metrics : Placed(q, m)
      /\ q.compared \subseteq readings /\ readings \in SUBSET Readings
      /\ q.stage \in OneMetric /\ q.metric = {m0} /\ m0 \in Metrics /\ m0 \notin q.todo
  BY DEF Sound, Anchored, Merging, OneMetric, TInv, TypeOK
<1>2. Placed(q, m0) /\ q.stage \in Merging
  BY <1>1 DEF Merging
<1>3. Deciding(q, m0)
  BY <1>1, <1>2 DEF Placed
<1>4. \A k \in q.come : k.metric # m0
  BY <1>3 DEF Deciding
<1>5. /\ rs = {r \in readings \ q.gone :
                 r.device = (IF q.stage = "sourceWins" THEN q.to ELSE q.id) /\ r.metric = m0}
      /\ a.gone = q.gone \cup rs /\ a.come = q.come
  BY <1>4 DEF Series
<1>6. Mine(a, m0) = Mine(q, m0) /\ Theirs(a, m0) = Theirs(q, m0)
  BY DEF Mine, Theirs
<1>7. Placed(a, m0)
  <2>2. /\ \A r \in Mine(q, m0) : r \in readings /\ r.device = q.id /\ r.metric = m0
        /\ \A r \in Theirs(q, m0) : r \in readings /\ r.device = q.to /\ r.metric = m0
    BY <1>1 DEF Mine, Theirs, Series
  <2>3. CASE q.stage = "sourceWins"
    <3>1. Theirs(q, m0) \subseteq rs /\ Mine(q, m0) \cap rs = {}
      BY <1>3, <1>5, <2>2, <2>3 DEF Deciding
    <3>2. Deciding(a, m0)
      BY <1>3, <1>4, <1>5, <1>6, <2>3, <3>1 DEF Deciding
    <3> QED BY <1>1, <2>3, <3>2 DEF Placed, OneMetric
  <2>4. CASE q.stage = "targetWins"
    <3>1. Mine(q, m0) \subseteq rs /\ Theirs(q, m0) \cap rs = {}
      BY <1>3, <1>5, <2>2, <2>4 DEF Deciding
    <3>2. TargetKept(a, m0)
      BY <1>3, <1>4, <1>5, <1>6, <2>2, <2>4, <3>1 DEF Deciding, TargetKept
    <3> QED BY <1>1, <2>4, <3>2 DEF Placed, OneMetric
  <2> QED BY <2>3, <2>4
<1>8. ASSUME NEW m \in Metrics PROVE Placed(a, m)
  <2>1. CASE m = m0
    BY <1>7, <2>1
  <2>3. CASE m # m0
    <3>1. \A r \in Readings : r.metric = m =>
            (r \in a.gone <=> r \in q.gone) /\ (r \in a.come <=> r \in q.come)
      BY <1>5, <2>3
    <3>2. /\ TargetKept(q, m) => TargetKept(a, m)
          /\ SourceKept(q, m) => SourceKept(a, m)
          /\ SourceWaits(q, m) => SourceWaits(a, m)
          /\ Waiting(q, m) => Waiting(a, m)
      BY <3>1, OtherMetric
    <3>3. m \notin q.metric /\ m \notin a.metric
      BY <1>1, <2>3
    <3> QED BY <1>1, <3>2, <3>3 DEF Placed
  <2> QED BY <2>1, <2>3
<1>9. Sound(a)
  <2>1. \A k \in a.come : k.device = a.to /\ \E r \in a.gone :
              r.device = a.id /\ r.metric = k.metric /\ r.time = k.time
    BY <1>5 DEF Sound
  <2> QED BY <1>1, <1>8, <2>1 DEF Sound
<1>10. Anchored(a)
  <2>1. a.gone \subseteq readings /\ a.compared \subseteq readings
    BY <1>1, <1>5 DEF Anchored
  <2>2. ASSUME NEW m \in q.todo
        PROVE  \E r \in readings \ a.gone : r.device = a.to /\ r.metric = m
    <3>1. PICK r \in readings \ q.gone : r.device = q.to /\ r.metric = m
      BY <1>2 DEF Anchored
    <3>2. r \notin rs
      BY <1>1, <1>5, <3>1
    <3> QED BY <1>5, <3>1, <3>2
  <2> QED BY <2>1, <2>2 DEF Anchored
<1> QED BY <1>9, <1>10

LEMMA SoundTakeWinner ==
    ASSUME TInv, NEW q \in Active, NEW a \in Active, Sound(q), Anchored(q), q.id # q.to,
           NEW m0 \in q.metric, q.stage = "dropped",
           NEW V, V = (readings \ q.gone) \cup q.come,
           NEW rs, rs = Series(V, q.id, m0), NEW new, new = Relabelled(rs, q.to),
           a.op = q.op, a.id = q.id, a.to = q.to, a.stage = "merging",
           a.todo = q.todo, a.metric = q.metric, a.compared = q.compared,
           a.gone = q.gone \cup (rs \ q.come), a.come = (q.come \ rs) \cup new
    PROVE  Sound(a) /\ Anchored(a)
<1>1. /\ q.op = "merge" /\ \A m \in Metrics : Placed(q, m)
      /\ q.compared \subseteq readings /\ readings \in SUBSET Readings
      /\ q.stage \in OneMetric /\ q.metric = {m0} /\ m0 \in Metrics /\ m0 \notin q.todo
      /\ q.stage \in Merging /\ q.id \in Ids /\ q.to \in Ids
  BY ActiveFields DEF Sound, Anchored, Merging, OneMetric, TInv, TypeOK
<1>2. Deciding(q, m0)
  BY <1>1 DEF Placed
<1>3. rs = {r \in readings \ q.gone : r.device = q.id /\ r.metric = m0}
      /\ \A k \in q.come : k.device # q.id
  BY <1>1 DEF Sound, Of, Series
<1>4. a.gone = q.gone \cup rs /\ a.come = q.come \cup new /\ rs \in SUBSET Readings
  BY <1>1, <1>3
<1>5. \A k \in new : k \in Readings /\ k.device = q.to
                     /\ \E r \in rs : k.metric = r.metric /\ k.time = r.time
  <2>1. rs \in SUBSET Readings /\ q.to \in Ids
    BY <1>1, <1>4
  <2> SUFFICES ASSUME NEW k \in new
               PROVE  k \in Readings /\ k.device = q.to
                      /\ \E r \in rs : k.metric = r.metric /\ k.time = r.time
    OBVIOUS
  <2>2. PICK r \in rs : k = [r EXCEPT !.device = q.to]
    BY DEF Relabelled
  <2>3. r \in Readings
    BY <2>1
  <2> QED BY <2>1, <2>2, <2>3 DEF Readings
<1>6. \A k \in new : k.metric = m0 /\ \E r \in rs : r.time = k.time
  BY <1>3, <1>5
<1>7. Placed(a, m0)
  <2>1. Mine(a, m0) = Mine(q, m0) /\ Theirs(a, m0) = Theirs(q, m0)
    BY DEF Mine, Theirs
  <2>2. Mine(q, m0) \subseteq rs
    BY <1>1, <1>2, <1>3 DEF Deciding, Mine, Series
  <2>3. Relabelled(Mine(q, m0), q.to) \subseteq new
    BY <2>2 DEF Relabelled
  <2>4. SourceKept(a, m0)
    BY <1>2, <1>4, <2>1, <2>3 DEF Deciding, SourceKept
  <2> QED BY <1>1, <2>4 DEF Placed, OneMetric
<1>8. ASSUME NEW m \in Metrics, m # m0 PROVE Placed(a, m)
  <2>1. \A r \in Readings : r.metric = m =>
          (r \in a.gone <=> r \in q.gone) /\ (r \in a.come <=> r \in q.come)
    BY <1>3, <1>4, <1>6, <1>8
  <2>2. /\ TargetKept(q, m) => TargetKept(a, m)
        /\ SourceKept(q, m) => SourceKept(a, m)
        /\ SourceWaits(q, m) => SourceWaits(a, m)
        /\ Waiting(q, m) => Waiting(a, m)
    BY <2>1, OtherMetric
  <2>3. m \notin q.metric /\ m \notin a.metric
    BY <1>1, <1>8
  <2> QED BY <1>1, <2>2, <2>3 DEF Placed
<1>9. Sound(a)
  <2>1. ASSUME NEW k \in a.come
        PROVE  k.device = a.to /\ \E r \in a.gone :
                  r.device = a.id /\ r.metric = k.metric /\ r.time = k.time
    <3>1. CASE k \in q.come
      BY <1>4, <3>1 DEF Sound
    <3>2. CASE k \in new
      <4>1. PICK r \in rs : k.metric = r.metric /\ k.time = r.time
        BY <1>5, <3>2
      <4> QED BY <1>3, <1>4, <1>5, <3>2, <4>1
    <3> QED BY <1>4, <2>1, <3>1, <3>2
  <2>2. \A m \in Metrics : Placed(a, m)
    BY <1>7, <1>8
  <2> QED BY <1>1, <2>1, <2>2 DEF Sound, OneMetric
<1>10. Anchored(a)
  <2>1. a.gone \subseteq readings /\ a.compared \subseteq readings
    BY <1>1, <1>3, <1>4 DEF Anchored
  <2>2. ASSUME NEW m \in q.todo
        PROVE  \E r \in readings \ a.gone : r.device = a.to /\ r.metric = m
    <3>1. PICK r \in readings \ q.gone : r.device = q.to /\ r.metric = m
      BY <1>1 DEF Anchored
    <3>2. r \notin rs
      BY <1>1, <1>3, <3>1
    <3> QED BY <1>4, <3>1, <3>2
  <2> QED BY <2>1, <2>2 DEF Anchored
<1> QED BY <1>9, <1>10

LEMMA SoundTakeRest ==
    ASSUME TInv, NEW q \in Active, NEW a \in Active, Sound(q), Anchored(q), Distinct,
           q.id # q.to, q.stage = "merging", q.todo = {},
           NEW V, V = (readings \ q.gone) \cup q.come,
           NEW rs, rs = Of(V, q.id), NEW new, new = Relabelled(rs, q.to),
           a.op = q.op, a.id = q.id, a.to = q.to, a.stage = "done",
           a.compared = q.compared,
           a.gone = q.gone \cup (rs \ q.come), a.come = (q.come \ rs) \cup new
    PROVE  Sound(a) /\ Anchored(a)
<1>1. /\ q.op = "merge" /\ \A m \in Metrics : Placed(q, m)
      /\ q.compared \subseteq readings /\ readings \in SUBSET Readings
      /\ q.id \in Ids /\ q.to \in Ids
  BY ActiveFields DEF Sound, Anchored, Merging, TInv, TypeOK
<1>2. rs = {r \in readings \ q.gone : r.device = q.id}
      /\ \A k \in q.come : k.device # q.id
  BY <1>1 DEF Sound, Of, Series
<1>3. a.gone = q.gone \cup rs /\ a.come = q.come \cup new /\ rs \in SUBSET Readings
  BY <1>1, <1>2
<1>4. \A k \in new : k \in Readings /\ k.device = q.to
                     /\ \E r \in rs : k.metric = r.metric /\ k.time = r.time
  <2>1. rs \in SUBSET Readings /\ q.to \in Ids
    BY <1>1, <1>3
  <2> SUFFICES ASSUME NEW k \in new
               PROVE  k \in Readings /\ k.device = q.to
                      /\ \E r \in rs : k.metric = r.metric /\ k.time = r.time
    OBVIOUS
  <2>2. PICK r \in rs : k = [r EXCEPT !.device = q.to]
    BY DEF Relabelled
  <2>3. r \in Readings
    BY <2>1
  <2> QED BY <2>1, <2>2, <2>3 DEF Readings
<1>5. ASSUME NEW m \in Metrics
      PROVE  TargetKept(a, m) \/ SourceKept(a, m)
  <2>1. Mine(a, m) = Mine(q, m) /\ Theirs(a, m) = Theirs(q, m)
    BY DEF Mine, Theirs
  <2>2. /\ \A r \in Mine(q, m) : r \in readings /\ r.device = q.id /\ r.metric = m
        /\ \A r \in Theirs(q, m) : r \in readings /\ r.device = q.to /\ r.metric = m
    BY <1>1 DEF Mine, Theirs, Series
  <2>3. CASE TargetKept(q, m)
    <3>1. Theirs(q, m) \cap a.gone = {} /\ Mine(q, m) \subseteq a.gone
      BY <1>2, <1>3, <2>2, <2>3 DEF TargetKept
    <3>2. ASSUME NEW r \in Mine(q, m), NEW k \in a.come, k.metric = m, k.time = r.time
          PROVE  FALSE
      <4>1. k \in new
        BY <1>3, <2>3, <3>2 DEF TargetKept
      <4>2. PICK o \in rs : k.metric = o.metric /\ k.time = o.time
        BY <1>4, <4>1
      <4>3. o \in readings /\ r \in readings /\ o.metric = r.metric /\ o.time = r.time
        BY <1>2, <2>2, <3>2, <4>2
      <4>4. o = r
        BY <4>3 DEF Distinct
      <4> QED BY <1>2, <2>3, <4>2, <4>4 DEF TargetKept
    <3> QED BY <2>1, <2>3, <3>1, <3>2 DEF TargetKept
  <2>4. CASE SourceKept(q, m)
    BY <1>3, <2>1, <2>4 DEF SourceKept
  <2>5. CASE SourceWaits(q, m)
    <3>1. Mine(q, m) \subseteq rs
      BY <1>2, <2>2, <2>5 DEF SourceWaits
    <3>2. Relabelled(Mine(q, m), q.to) \subseteq new
      BY <3>1 DEF Relabelled
    <3> QED BY <1>3, <2>1, <2>5, <3>2 DEF SourceWaits, SourceKept, Covers
  <2>6. TargetKept(q, m) \/ SourceKept(q, m) \/ SourceWaits(q, m)
    BY <1>1 DEF Placed, OneMetric
  <2> QED BY <2>3, <2>4, <2>5, <2>6
<1>6. Sound(a)
  <2>1. ASSUME NEW k \in a.come
        PROVE  k.device = a.to /\ \E r \in a.gone :
                  r.device = a.id /\ r.metric = k.metric /\ r.time = k.time
    <3>1. CASE k \in q.come
      BY <1>3, <3>1 DEF Sound
    <3>2. CASE k \in new
      <4>1. PICK r \in rs : k.metric = r.metric /\ k.time = r.time
        BY <1>4, <3>2
      <4> QED BY <1>2, <1>3, <1>4, <3>2, <4>1
    <3> QED BY <1>3, <2>1, <3>1, <3>2
  <2> QED BY <1>1, <1>5, <2>1 DEF Sound, OneMetric, Merging
<1>7. Anchored(a)
  BY <1>1, <1>2, <1>3 DEF Anchored, Merging, OneMetric
<1> QED BY <1>6, <1>7

LEMMA SoundRenameData ==
    ASSUME TInv, NEW q \in Active, NEW a \in Active, Sound(q), q.id # q.to, q.stage = "read",
           NEW V, V = (readings \ q.gone) \cup q.come,
           NEW rs, rs = Of(V, q.id), NEW new, new = Relabelled(rs, q.to),
           a.op = q.op, a.id = q.id, a.to = q.to, a.stage = "done", a.compared = rs,
           a.gone = q.gone \cup (rs \ q.come), a.come = (q.come \ rs) \cup new
    PROVE  Sound(a) /\ Anchored(a)
<1>1. q.gone = {} /\ q.come = {} /\ readings \in SUBSET Readings /\ q.id \in Ids /\ q.to \in Ids
  BY ActiveFields DEF Sound, TInv, TypeOK
<1>2. rs = {r \in readings : r.device = q.id} /\ rs \in SUBSET Readings
  BY <1>1 DEF Of
<1>3. a.gone = rs /\ a.come = new
  BY <1>1
<1>4. \A k \in new : k \in Readings /\ k.device = q.to
                     /\ \E r \in rs : k.metric = r.metric /\ k.time = r.time
  <2>1. rs \in SUBSET Readings /\ q.to \in Ids
    BY <1>1, <1>2
  <2> SUFFICES ASSUME NEW k \in new
               PROVE  k \in Readings /\ k.device = q.to
                      /\ \E r \in rs : k.metric = r.metric /\ k.time = r.time
    OBVIOUS
  <2>2. PICK r \in rs : k = [r EXCEPT !.device = q.to]
    BY DEF Relabelled
  <2>3. r \in Readings
    BY <2>1
  <2> QED BY <2>1, <2>2, <2>3 DEF Readings
<1>5. ASSUME NEW m \in Metrics PROVE SourceKept(a, m)
  <2>1. Theirs(a, m) = {} /\ Mine(a, m) \subseteq rs
    BY <1>2 DEF Theirs, Mine, Series
  <2>2. Relabelled(Mine(a, m), a.to) \subseteq new
    BY <2>1 DEF Relabelled
  <2> QED BY <1>3, <2>1, <2>2 DEF SourceKept, Covers
<1>6. Sound(a)
  <2>1. ASSUME NEW k \in a.come
        PROVE  k.device = a.to /\ \E r \in a.gone :
                  r.device = a.id /\ r.metric = k.metric /\ r.time = k.time
    <3>1. PICK r \in rs : k.metric = r.metric /\ k.time = r.time
      BY <1>3, <1>4
    <3> QED BY <1>2, <1>3, <1>4, <3>1
  <2> QED BY <1>2, <1>5, <2>1 DEF Sound, OneMetric, Merging
<1>7. Anchored(a)
  BY <1>2, <1>3 DEF Anchored, Merging, OneMetric
<1> QED BY <1>6, <1>7

LEMMA SoundDeleteData ==
    ASSUME TInv, NEW q \in Active, NEW a \in Active, Sound(q), q.stage = "read", q.op = "delete",
           NEW V, V = (readings \ q.gone) \cup q.come, NEW rs, rs = Of(V, q.id),
           a.op = q.op, a.id = q.id, a.to = q.to, a.stage = "done", a.compared = q.compared,
           a.gone = q.gone \cup (rs \ q.come), a.come = q.come \ rs
    PROVE  Sound(a) /\ Anchored(a)
<1>1. q.gone = {} /\ q.come = {} /\ q.compared = {} /\ rs = {r \in readings : r.device = q.id}
  BY DEF Sound, Of
<1> QED BY <1>1 DEF Sound, Anchored, OneMetric, Merging

-----------------------------------------------------------------------------
(* A statement of any kind leaves a typed request, and one that is sound.   *)

Effect(v, q) ==
    /\ q \in Active
    /\ UNCHANGED <<known, approved, readings, now, work, trust>>
    /\ \E a \in Active :
          /\ view' = [view EXCEPT ![v] = a]
          /\ a.op = q.op /\ a.id = q.id /\ a.to = q.to /\ a.approved = q.approved
          /\ (q.op = "delete" <=> q.id = q.to) /\ Sound(q) /\ Anchored(q) /\ Distinct =>
                Sound(a) /\ Anchored(a)

LEMMA StatementEffect ==
    ASSUME TInv, NEW v \in Operators, RenameData(v) \/ DeleteData(v) \/ Merge(v),
           NEW q, q = view[v]
    PROVE  Effect(v, q)
<1>1. view \in [Operators -> Requests]
  BY DEF TInv, TypeOK
<1>2. q.stage # "idle"
  BY DEF RenameData, DeleteData, Merge, ListSource, ListTarget, Compare, DropLoser, TakeWinner,
         TakeRest
<1>3. q \in Active
  BY <1>1, <1>2, RequestShape
<1>4. PICK V : V = Visible(v) /\ V = (readings \ q.gone) \cup q.come
  BY <1>3, VisibleRows DEF TInv
<1>5. PICK a : a = view'[v]
  OBVIOUS
<1>6. PICK mine : mine = Of(Visible(v), q.id) /\ mine = Of(V, q.id)
  BY <1>4
<1>7. PICK moved : moved = Relabelled(mine, q.to)
  OBVIOUS
<1>8. CASE RenameData(v)
  <2>1. /\ view' = [view EXCEPT ![v] = a] /\ a \in Active
        /\ UNCHANGED <<known, approved, readings, now, work, trust>>
        /\ a.op = q.op /\ a.id = q.id /\ a.to = q.to /\ a.approved = q.approved
        /\ q.stage = "read" /\ q.op = "rename" /\ a.stage = "done" /\ a.compared = mine
        /\ a.gone = q.gone \cup (mine \ q.come) /\ a.come = (q.come \ mine) \cup moved
    <3>1. mine \in SUBSET Readings /\ moved \in SUBSET Readings
      BY <1>3, <1>6, <1>7, VisibleRows, ActiveFields, RelabelledType DEF TInv, MetricsOf, Readings
    <3>2. /\ view' = [view EXCEPT ![v] = a]
          /\ UNCHANGED <<known, approved, readings, now, work, trust>>
          /\ a.op = q.op /\ a.id = q.id /\ a.to = q.to /\ a.approved = q.approved
          /\ q.stage = "read" /\ q.op = "rename"
          /\ a.stage = "done" /\ a.todo = q.todo /\ a.metric = q.metric /\ a.compared = mine
          /\ a.gone = q.gone \cup (mine \ q.come) /\ a.come = (q.come \ mine) \cup moved
      BY <1>1, <1>3, <1>5, <1>8, <1>6, <1>7 DEF Active, Statement, RenameData
    <3>3. a = [stage |-> a.stage, op |-> a.op, id |-> a.id, to |-> a.to, approved |-> a.approved,
               todo |-> a.todo, metric |-> a.metric, gone |-> a.gone, come |-> a.come,
               compared |-> a.compared]
      BY <1>1, <1>3, <1>5, <1>8, <1>6, <1>7 DEF Active, Statement, RenameData
    <3>4. a \in Active
      BY <1>3, <1>6, <1>7, <3>1, <3>2, <3>3, ActiveFields DEF Active, Stages
    <3> QED BY <3>2, <3>4
  <2>2. q.id # q.to /\ Sound(q) => Sound(a) /\ Anchored(a)
    BY <1>3, <1>4, <1>6, <1>7, <2>1, SoundRenameData
  <2> QED BY <1>3, <2>1, <2>2 DEF Effect
<1>9. CASE DeleteData(v)
  <2>1. /\ view' = [view EXCEPT ![v] = a] /\ a \in Active
        /\ UNCHANGED <<known, approved, readings, now, work, trust>>
        /\ a.op = q.op /\ a.id = q.id /\ a.to = q.to /\ a.approved = q.approved
        /\ q.stage = "read" /\ q.op = "delete" /\ a.stage = "done" /\ a.compared = q.compared
        /\ a.gone = q.gone \cup (mine \ q.come) /\ a.come = q.come \ mine
    <3>1. mine \in SUBSET Readings
      BY <1>3, <1>6, VisibleRows, ActiveFields, RelabelledType DEF TInv, MetricsOf, Readings
    <3>2. /\ view' = [view EXCEPT ![v] = a]
          /\ UNCHANGED <<known, approved, readings, now, work, trust>>
          /\ a.op = q.op /\ a.id = q.id /\ a.to = q.to /\ a.approved = q.approved
          /\ q.stage = "read" /\ q.op = "delete"
          /\ a.stage = "done" /\ a.todo = q.todo /\ a.metric = q.metric /\ a.compared = q.compared
          /\ a.gone = q.gone \cup (mine \ q.come) /\ a.come = q.come \ mine
      BY <1>1, <1>3, <1>5, <1>9, <1>6 DEF Active, Statement, DeleteData
    <3>3. a = [stage |-> a.stage, op |-> a.op, id |-> a.id, to |-> a.to, approved |-> a.approved,
               todo |-> a.todo, metric |-> a.metric, gone |-> a.gone, come |-> a.come,
               compared |-> a.compared]
      BY <1>1, <1>3, <1>5, <1>9, <1>6 DEF Active, Statement, DeleteData
    <3>4. a \in Active
      BY <1>3, <1>6, <3>1, <3>2, <3>3, ActiveFields DEF Active, Stages
    <3> QED BY <3>2, <3>4
  <2>2. Sound(q) => Sound(a) /\ Anchored(a)
    BY <1>3, <1>4, <1>6, <2>1, SoundDeleteData
  <2> QED BY <1>3, <2>1, <2>2 DEF Effect
<1>10. CASE ListSource(v)
  <2>1. /\ view' = [view EXCEPT ![v] = a] /\ a \in Active
        /\ UNCHANGED <<known, approved, readings, now, work, trust>>
        /\ a.op = q.op /\ a.id = q.id /\ a.to = q.to /\ a.approved = q.approved
        /\ q.stage = "read" /\ q.op = "merge" /\ a.stage = "listed" /\ a.compared = mine
        /\ a.gone = q.gone /\ a.come = q.come
    <3>1. mine \in SUBSET Readings
      BY <1>3, <1>6, VisibleRows, ActiveFields, RelabelledType DEF TInv, MetricsOf, Readings
    <3>2. /\ view' = [view EXCEPT ![v] = a]
          /\ UNCHANGED <<known, approved, readings, now, work, trust>>
          /\ a.op = q.op /\ a.id = q.id /\ a.to = q.to /\ a.approved = q.approved
          /\ q.stage = "read" /\ q.op = "merge"
          /\ a.stage = "listed" /\ a.compared = mine /\ a.gone = q.gone /\ a.come = q.come
          /\ a.todo = q.todo /\ a.metric = q.metric
      BY <1>1, <1>3, <1>5, <1>10, <1>6 DEF Active, Statement, ListSource
    <3>3. a = [stage |-> a.stage, op |-> a.op, id |-> a.id, to |-> a.to, approved |-> a.approved,
               todo |-> a.todo, metric |-> a.metric, gone |-> a.gone, come |-> a.come,
               compared |-> a.compared]
      BY <1>1, <1>3, <1>5, <1>10, <1>6 DEF Active, Statement, ListSource
    <3>4. a \in Active
      BY <1>3, <1>6, <3>1, <3>2, <3>3, ActiveFields DEF Active, Stages
    <3> QED BY <3>2, <3>4
  <2>2. Sound(q) => Sound(a) /\ Anchored(a)
    <3>1. Sound(q) => q.gone = {} /\ q.come = {}
      BY <2>1 DEF Sound
    <3> QED BY <1>4, <1>6, <2>1, <3>1 DEF Sound, Anchored, Of, Merging, OneMetric
  <2> QED BY <1>3, <2>1, <2>2 DEF Effect
<1>11. CASE ListTarget(v)
  <2>1. PICK theirs : theirs = Of(Visible(v), q.to) /\ theirs = Of(V, q.to)
    BY <1>4
  <2>2. PICK shared : shared = MetricsOf(q.compared) \cap MetricsOf(theirs)
    OBVIOUS
  <2>3. PICK looked : looked = NotOf(q.compared \cup theirs, shared)
    OBVIOUS
  <2>4. /\ view' = [view EXCEPT ![v] = a] /\ a \in Active
        /\ UNCHANGED <<known, approved, readings, now, work, trust>>
        /\ a.op = q.op /\ a.id = q.id /\ a.to = q.to /\ a.approved = q.approved
        /\ q.stage = "listed" /\ a.stage = "merging" /\ a.todo = shared /\ a.compared = looked
        /\ a.gone = q.gone /\ a.come = q.come
    <3>1. theirs \in SUBSET Readings /\ shared \in SUBSET Metrics /\ looked \in SUBSET Readings
      BY <1>3, <2>1, <2>2, <2>3, VisibleRows, ActiveFields, RelabelledType DEF TInv, MetricsOf, Readings, NotOf
    <3>2. /\ view' = [view EXCEPT ![v] = a]
          /\ UNCHANGED <<known, approved, readings, now, work, trust>>
          /\ a.op = q.op /\ a.id = q.id /\ a.to = q.to /\ a.approved = q.approved
          /\ q.stage = "listed"
          /\ a.stage = "merging" /\ a.todo = shared /\ a.metric = q.metric
          /\ a.compared = looked /\ a.gone = q.gone /\ a.come = q.come
      BY <1>1, <1>3, <1>5, <1>11, <2>1, <2>2, <2>3 DEF Active, Statement, ListTarget, NotOf
    <3>3. a = [stage |-> a.stage, op |-> a.op, id |-> a.id, to |-> a.to, approved |-> a.approved,
               todo |-> a.todo, metric |-> a.metric, gone |-> a.gone, come |-> a.come,
               compared |-> a.compared]
      BY <1>1, <1>3, <1>5, <1>11, <2>1, <2>2, <2>3 DEF Active, Statement, ListTarget, NotOf
    <3>4. a \in Active
      BY <1>3, <2>1, <2>2, <2>3, <3>1, <3>2, <3>3, ActiveFields DEF Active, Stages
    <3> QED BY <3>2, <3>4
  <2>5. q.op = "merge" \/ ~Sound(q)
    BY <2>4 DEF Sound
  <2>6. q.id # q.to /\ Sound(q) /\ Anchored(q) => Sound(a) /\ Anchored(a)
    BY <1>3, <1>4, <2>1, <2>2, <2>3, <2>4, SoundListTarget
  <2> QED BY <1>3, <2>4, <2>5, <2>6 DEF Effect
<1>12. ASSUME NEW m \in Metrics, Compare(v, m) PROVE Effect(v, q)
  <2>1. PICK s : s = Series(Visible(v), q.id, m) /\ s = Series(V, q.id, m)
    BY <1>4
  <2>2. PICK t : t = Series(Visible(v), q.to, m) /\ t = Series(V, q.to, m)
    BY <1>4
  <2>3. PICK stage : stage = IF SourceWins(s, t) THEN "sourceWins" ELSE "targetWins"
    OBVIOUS
  <2>4. /\ view' = [view EXCEPT ![v] = a] /\ a \in Active
        /\ UNCHANGED <<known, approved, readings, now, work, trust>>
        /\ a.op = q.op /\ a.id = q.id /\ a.to = q.to /\ a.approved = q.approved
        /\ q.stage = "merging" /\ m \in q.todo
        /\ a.stage = stage /\ a.todo = q.todo \ {m} /\ a.metric = {m}
        /\ a.compared = q.compared \cup s \cup t /\ a.gone = q.gone /\ a.come = q.come
    <3>1. s \in SUBSET Readings /\ t \in SUBSET Readings
      BY <1>3, <2>1, <2>2, <2>3, VisibleRows, ActiveFields, RelabelledType DEF TInv, MetricsOf, Readings
    <3>2. /\ view' = [view EXCEPT ![v] = a]
          /\ UNCHANGED <<known, approved, readings, now, work, trust>>
          /\ a.op = q.op /\ a.id = q.id /\ a.to = q.to /\ a.approved = q.approved
          /\ q.stage = "merging" /\ m \in q.todo
          /\ a.stage = stage /\ a.todo = q.todo \ {m} /\ a.metric = {m}
          /\ a.compared = q.compared \cup s \cup t
          /\ a.gone = q.gone /\ a.come = q.come
      BY <1>1, <1>3, <1>5, <1>12, <2>1, <2>2, <2>3 DEF Active, Statement, Compare
    <3>3. a = [stage |-> a.stage, op |-> a.op, id |-> a.id, to |-> a.to, approved |-> a.approved,
               todo |-> a.todo, metric |-> a.metric, gone |-> a.gone, come |-> a.come,
               compared |-> a.compared]
      BY <1>1, <1>3, <1>5, <1>12, <2>1, <2>2, <2>3 DEF Active, Statement, Compare
    <3>4. a \in Active
      BY <1>3, <2>1, <2>2, <2>3, <3>1, <3>2, <3>3, ActiveFields DEF Active, Stages
    <3> QED BY <3>2, <3>4
  <2>5. q.op = "merge" \/ ~Sound(q)
    BY <2>4 DEF Sound
  <2>6. q.id # q.to /\ Sound(q) /\ Anchored(q) => Sound(a) /\ Anchored(a)
    BY <1>3, <1>4, <2>1, <2>2, <2>3, <2>4, SoundCompare
  <2> QED BY <1>3, <2>4, <2>5, <2>6 DEF Effect
<1>13. CASE DropLoser(v)
  <2>1. PICK m \in q.metric : Statement(v,
            [q EXCEPT !.stage = IF @ = "sourceWins" THEN "dropped" ELSE "merging"],
            Series(Visible(v), IF q.stage = "sourceWins" THEN q.to ELSE q.id, m), {})
    BY <1>13 DEF DropLoser, Loser
  <2>2. PICK rs : /\ rs = Series(Visible(v), IF q.stage = "sourceWins" THEN q.to ELSE q.id, m)
                  /\ rs = Series(V, IF q.stage = "sourceWins" THEN q.to ELSE q.id, m)
    BY <1>4
  <2>3. PICK stage : stage = IF q.stage = "sourceWins" THEN "dropped" ELSE "merging"
    OBVIOUS
  <2>4. q.stage \in {"sourceWins", "targetWins"}
    BY <1>13 DEF DropLoser
  <2>5. Statement(v, [q EXCEPT !.stage = IF @ = "sourceWins" THEN "dropped" ELSE "merging"], rs, {})
    BY <1>4, <2>1, <2>2
  <2>6. /\ view' = [view EXCEPT ![v] = a] /\ a \in Active
        /\ UNCHANGED <<known, approved, readings, now, work, trust>>
        /\ a.op = q.op /\ a.id = q.id /\ a.to = q.to /\ a.approved = q.approved
        /\ a.stage = stage /\ a.todo = q.todo /\ a.metric = q.metric /\ a.compared = q.compared
        /\ a.gone = q.gone \cup (rs \ q.come) /\ a.come = q.come \ rs
    <3>1. rs \in SUBSET Readings
      BY <1>3, <2>2, <2>3, VisibleRows, ActiveFields, RelabelledType DEF TInv, MetricsOf, Readings
    <3>2. /\ view' = [view EXCEPT ![v] = a]
          /\ UNCHANGED <<known, approved, readings, now, work, trust>>
          /\ a.op = q.op /\ a.id = q.id /\ a.to = q.to /\ a.approved = q.approved
          /\ q.stage \in {"sourceWins", "targetWins"}
          /\ a.stage = stage /\ a.todo = q.todo /\ a.metric = q.metric /\ a.compared = q.compared
          /\ a.gone = q.gone \cup (rs \ q.come) /\ a.come = q.come \ rs
      BY <1>1, <1>3, <1>5, <2>4, <2>5, <2>2, <2>3 DEF Active, Statement
    <3>3. a = [stage |-> a.stage, op |-> a.op, id |-> a.id, to |-> a.to, approved |-> a.approved,
               todo |-> a.todo, metric |-> a.metric, gone |-> a.gone, come |-> a.come,
               compared |-> a.compared]
      BY <1>1, <1>3, <1>5, <2>4, <2>5, <2>2, <2>3 DEF Active, Statement
    <3>4. a \in Active
      BY <1>3, <2>2, <2>3, <3>1, <3>2, <3>3, ActiveFields DEF Active, Stages
    <3> QED BY <3>2, <3>4
  <2>7. q.op = "merge" \/ ~Sound(q)
    BY <2>4 DEF Sound
  <2>8. q.id # q.to /\ Sound(q) /\ Anchored(q) => Sound(a) /\ Anchored(a)
    BY <1>3, <1>4, <2>2, <2>3, <2>4, <2>6, SoundDropLoser
  <2> QED BY <1>3, <2>6, <2>7, <2>8 DEF Effect
<1>14. CASE TakeWinner(v)
  <2>1. PICK m \in q.metric : Statement(v, [q EXCEPT !.stage = "merging"],
            Series(Visible(v), q.id, m), Relabelled(Series(Visible(v), q.id, m), q.to))
    BY <1>14 DEF TakeWinner
  <2>2. PICK rs : rs = Series(Visible(v), q.id, m) /\ rs = Series(V, q.id, m)
    BY <1>4
  <2>3. PICK new : new = Relabelled(rs, q.to)
    OBVIOUS
  <2>4. q.stage = "dropped"
    BY <1>14 DEF TakeWinner
  <2>5. Statement(v, [q EXCEPT !.stage = "merging"], rs, new)
    BY <1>4, <2>1, <2>2, <2>3
  <2>6. /\ view' = [view EXCEPT ![v] = a] /\ a \in Active
        /\ UNCHANGED <<known, approved, readings, now, work, trust>>
        /\ a.op = q.op /\ a.id = q.id /\ a.to = q.to /\ a.approved = q.approved
        /\ a.stage = "merging" /\ a.todo = q.todo /\ a.metric = q.metric
        /\ a.compared = q.compared
        /\ a.gone = q.gone \cup (rs \ q.come) /\ a.come = (q.come \ rs) \cup new
    <3>1. rs \in SUBSET Readings /\ new \in SUBSET Readings
      BY <1>3, <2>2, <2>3, VisibleRows, ActiveFields, RelabelledType DEF TInv, MetricsOf, Readings
    <3>2. /\ view' = [view EXCEPT ![v] = a]
          /\ UNCHANGED <<known, approved, readings, now, work, trust>>
          /\ a.op = q.op /\ a.id = q.id /\ a.to = q.to /\ a.approved = q.approved
          /\ q.stage = "dropped"
          /\ a.stage = "merging" /\ a.todo = q.todo /\ a.metric = q.metric /\ a.compared = q.compared
          /\ a.gone = q.gone \cup (rs \ q.come) /\ a.come = (q.come \ rs) \cup new
      BY <1>1, <1>3, <1>5, <2>4, <2>5, <2>2, <2>3 DEF Active, Statement
    <3>3. a = [stage |-> a.stage, op |-> a.op, id |-> a.id, to |-> a.to, approved |-> a.approved,
               todo |-> a.todo, metric |-> a.metric, gone |-> a.gone, come |-> a.come,
               compared |-> a.compared]
      BY <1>1, <1>3, <1>5, <2>4, <2>5, <2>2, <2>3 DEF Active, Statement
    <3>4. a \in Active
      BY <1>3, <2>2, <2>3, <3>1, <3>2, <3>3, ActiveFields DEF Active, Stages
    <3> QED BY <3>2, <3>4
  <2>7. q.op = "merge" \/ ~Sound(q)
    BY <2>4 DEF Sound
  <2>8. q.id # q.to /\ Sound(q) /\ Anchored(q) => Sound(a) /\ Anchored(a)
    BY <1>3, <1>4, <2>2, <2>3, <2>4, <2>6, SoundTakeWinner
  <2> QED BY <1>3, <2>6, <2>7, <2>8 DEF Effect
<1>15. CASE TakeRest(v)
  <2>1. /\ view' = [view EXCEPT ![v] = a] /\ a \in Active
        /\ UNCHANGED <<known, approved, readings, now, work, trust>>
        /\ a.op = q.op /\ a.id = q.id /\ a.to = q.to /\ a.approved = q.approved
        /\ q.stage = "merging" /\ q.todo = {} /\ a.stage = "done" /\ a.compared = q.compared
        /\ a.gone = q.gone \cup (mine \ q.come) /\ a.come = (q.come \ mine) \cup moved
    <3>1. mine \in SUBSET Readings /\ moved \in SUBSET Readings
      BY <1>3, <1>6, <1>7, VisibleRows, ActiveFields, RelabelledType DEF TInv, MetricsOf, Readings
    <3>2. /\ view' = [view EXCEPT ![v] = a]
          /\ UNCHANGED <<known, approved, readings, now, work, trust>>
          /\ a.op = q.op /\ a.id = q.id /\ a.to = q.to /\ a.approved = q.approved
          /\ q.stage = "merging" /\ q.todo = {}
          /\ a.stage = "done" /\ a.todo = q.todo /\ a.metric = q.metric /\ a.compared = q.compared
          /\ a.gone = q.gone \cup (mine \ q.come) /\ a.come = (q.come \ mine) \cup moved
      BY <1>1, <1>3, <1>5, <1>15, <1>6, <1>7 DEF Active, Statement, TakeRest
    <3>3. a = [stage |-> a.stage, op |-> a.op, id |-> a.id, to |-> a.to, approved |-> a.approved,
               todo |-> a.todo, metric |-> a.metric, gone |-> a.gone, come |-> a.come,
               compared |-> a.compared]
      BY <1>1, <1>3, <1>5, <1>15, <1>6, <1>7 DEF Active, Statement, TakeRest
    <3>4. a \in Active
      BY <1>3, <1>6, <1>7, <3>1, <3>2, <3>3, ActiveFields DEF Active, Stages
    <3> QED BY <3>2, <3>4
  <2>2. q.op = "merge" \/ ~Sound(q)
    BY <2>1 DEF Sound
  <2>3. q.id # q.to /\ Sound(q) /\ Anchored(q) /\ Distinct => Sound(a) /\ Anchored(a)
    BY <1>3, <1>4, <1>6, <1>7, <2>1, SoundTakeRest
  <2> QED BY <1>3, <2>1, <2>2, <2>3 DEF Effect
<1> QED BY <1>8, <1>9, <1>10, <1>11, <1>12, <1>13, <1>14, <1>15 DEF Merge

-----------------------------------------------------------------------------
(* Types.                                                                   *)

LEMMA OneViewTyped ==
    ASSUME TInv, NEW v \in Operators, NEW a \in Requests, view' = [view EXCEPT ![v] = a],
           a # AtRest => (a.op = "delete" <=> a.id = a.to),
           known' \subseteq Ids, approved' \subseteq known', readings' \subseteq Readings,
           trust' \in [Ids -> {"none", "granted", "revoked"}], now' = now, work' = work
    PROVE  TInv'
<1>1. view \in [Operators -> Requests]
  BY DEF TInv, TypeOK
<1>2. view' \in [Operators -> Requests] /\ view'[v] = a
      /\ \A w \in Operators \ {v} : view'[w] = view[w]
  BY <1>1
<1>3. MovesApart'
  BY <1>2 DEF TInv, MovesApart
<1> QED BY <1>2, <1>3 DEF TInv, TypeOK

LEMMA MoveTyped == ASSUME TInv, NEW v \in Operators, Move(v) PROVE TInv'
<1>0. /\ view \in [Operators -> Requests] /\ AtRest \in Requests /\ AtRest.stage = "idle"
      /\ known \subseteq Ids /\ approved \subseteq known /\ readings \subseteq Readings
      /\ trust \in [Ids -> {"none", "granted", "revoked"}]
  BY DEF TInv, TypeOK, Requests, AtRest
<1>1. ASSUME NEW op \in {"rename", "merge", "delete"}, NEW id \in Ids, NEW to \in Ids,
             op = "delete" <=> id = to, view' = [view EXCEPT ![v] = Request(op, id, to)],
             UNCHANGED <<known, approved, readings, now, work, trust>>
      PROVE  TInv'
  <2> DEFINE a == Request(op, id, to)
  <2>1. a \in Active /\ a.op = op /\ a.id = id /\ a.to = to
    BY DEF Request, Active, Stages
  <2>2. a \in Requests
    BY <2>1, ActiveFields
  <2> HIDE DEF a
  <2>3. view' = [view EXCEPT ![v] = a]
    BY <1>1 DEF a
  <2> QED BY <1>0, <1>1, <2>1, <2>2, <2>3, OneViewTyped
<1>2. CASE (\E id, to \in Ids : RenameRead(v, id, to)) \/ \E id \in Ids : DeleteRead(v, id)
  <2>1. ASSUME NEW id \in Ids, NEW to \in Ids, RenameRead(v, id, to) PROVE TInv'
    <3>1. CASE to \in known
      BY <1>1, <2>1, <3>1 DEF RenameRead
    <3>2. CASE to \notin known
      BY <1>1, <2>1, <3>2 DEF RenameRead
    <3> QED BY <3>1, <3>2
  <2>2. ASSUME NEW id \in Ids, DeleteRead(v, id) PROVE TInv'
    BY <1>1, <2>2 DEF DeleteRead
  <2> QED BY <1>2, <2>1, <2>2
<1>3. CASE RenameData(v) \/ DeleteData(v) \/ Merge(v)
  <2>1. view[v] \in Active
        /\ UNCHANGED <<known, approved, readings, now, work, trust>>
    BY <1>3, StatementEffect DEF Effect
  <2>2. PICK a \in Active : /\ view' = [view EXCEPT ![v] = a]
                            /\ a.op = view[v].op /\ a.id = view[v].id /\ a.to = view[v].to
    BY <1>3, StatementEffect DEF Effect
  <2>3. a \in Requests /\ view[v] # AtRest
    BY <2>1, ActiveFields
  <2>4. a.op = "delete" <=> a.id = a.to
    BY <2>2, <2>3 DEF TInv, MovesApart
  <2> QED BY <1>0, <2>1, <2>2, <2>3, <2>4, OneViewTyped
<1>4. CASE Commit(v)
  <2> DEFINE q == view[v]
  <2>1. q \in Active /\ q.id \in Ids /\ q.to \in Ids /\ q.come \in SUBSET Readings
    <3>1. q.stage # "idle"
      BY <1>4 DEF Commit
    <3>2. q \in Active
      BY <1>0, <3>1, RequestShape
    <3> QED BY <3>2, ActiveFields
  <2>2. known' \subseteq Ids /\ approved' \subseteq known' /\ readings' \subseteq Readings
    BY <1>0, <1>4, <2>1 DEF Commit, ApprovedAfter
  <2>3. trust' \in [Ids -> {"none", "granted", "revoked"}]
    BY <1>0, <1>4, <2>1 DEF Commit
  <2>4. view' = [view EXCEPT ![v] = AtRest] /\ now' = now /\ work' = work
    BY <1>4 DEF Commit
  <2> QED BY <1>0, <2>2, <2>3, <2>4, OneViewTyped
<1>5. CASE RollBack(v)
  BY <1>0, <1>5, OneViewTyped DEF RollBack
<1> QED BY <1>2, <1>3, <1>4, <1>5 DEF Move

LEMMA WorkerTyped == ASSUME TInv, Worker PROVE TInv'
<1>0. /\ known \subseteq Ids /\ approved \subseteq known /\ readings \subseteq Readings
      /\ now \in 0 .. MaxTime /\ MaxTime \in Nat /\ work \in Work /\ AtRest \in Work
  BY RegistryAssumption DEF TInv, TypeOK, Work, RegistryAssumption
<1>1. UNCHANGED <<view, trust>> /\ (MovesApart' <=> MovesApart)
  BY DEF Worker, SensorBegin, SensorSave, SensorStore, WorkerDies, MovesApart
<1>2. /\ known' \subseteq Ids /\ approved' \subseteq known' /\ readings' \subseteq Readings
      /\ now' \in 0 .. MaxTime /\ work' \in Work
  <2>1. ASSUME NEW id \in Ids, NEW metrics \in SUBSET Metrics, SensorBegin(id, metrics)
        PROVE  /\ known' \subseteq Ids /\ approved' \subseteq known' /\ readings' \subseteq Readings
              /\ now' \in 0 .. MaxTime /\ work' \in Work
    <3>1. now + 1 \in 1 .. MaxTime
      BY <1>0, <2>1 DEF SensorBegin
    <3> QED BY <1>0, <2>1, <3>1 DEF SensorBegin, Work
  <2>2. CASE SensorSave
    BY <1>0, <2>2 DEF SensorSave, Work, AtRest
  <2>3. CASE SensorStore
    BY <1>0, <2>3, WorkShape DEF SensorStore, Readings
  <2>4. CASE WorkerDies
    BY <1>0, <2>4 DEF WorkerDies
  <2> QED BY <2>1, <2>2, <2>3, <2>4 DEF Worker
<1> QED BY <1>1, <1>2 DEF TInv, TypeOK

LEMMA ImmediateTyped == ASSUME TInv, NEW v \in Operators, Immediate(v) PROVE TInv'
<1>1. UNCHANGED <<known, now, work, view>> /\ (MovesApart' <=> MovesApart)
  BY DEF Immediate, Approve, DeleteReadings, MovesApart
<1>2. readings' \subseteq Readings /\ approved' \subseteq known
      /\ trust' \in [Ids -> {"none", "granted", "revoked"}]
  BY DEF Immediate, Approve, DeleteReadings, TInv, TypeOK
<1> QED BY <1>1, <1>2 DEF TInv, TypeOK

LEMMA InitTyped == Init => TInv
BY RegistryAssumption DEF Init, TInv, TypeOK, MovesApart, Work, Requests, RegistryAssumption

LEMMA NextTyped == TInv /\ [Next]_vars => TInv'
<1> SUFFICES ASSUME TInv, [Next]_vars PROVE TInv'
  OBVIOUS
<1>1. CASE UNCHANGED vars
  BY <1>1 DEF vars, TInv, TypeOK, MovesApart
<1>2. CASE Next
  BY <1>2, WorkerTyped, ImmediateTyped, MoveTyped DEF Next
<1> QED BY <1>1, <1>2

\* Rows, readings, messages and requests stay well formed, and only known
\* devices are approved, for any number of admins at work at the same time
\* (devices/views.py, mqtt_bridge/services.py).
THEOREM RegistryTypes == Spec => []TypeOK
<1>1. TInv => TypeOK
  BY DEF TInv
<1> QED BY <1>1, InitTyped, NextTyped, PTL DEF Spec

-----------------------------------------------------------------------------
(* One admin and the worker.                                                *)

\* What the worker stores is newer than all there is, and disturbs no request.
LEMMA WorkerKeeps == ASSUME DInv, Worker PROVE RequestsSound' /\ Distinct' /\ Ordered'
<1>0. /\ readings \subseteq Readings /\ now \in Int /\ work \in Work
      /\ \A r \in readings : r.time \in Int
  BY ReadingTimes, RegistryAssumption DEF DInv, TInv, TypeOK, RegistryAssumption
<1>1. view' = view
  BY DEF Worker, SensorBegin, SensorSave, SensorStore, WorkerDies
<1>2. readings \subseteq readings' => RequestsSound'
  BY <1>1 DEF DInv, RequestsSound, Anchored
<1>3. ASSUME NEW id \in Ids, NEW metrics \in SUBSET Metrics, SensorBegin(id, metrics)
      PROVE  RequestsSound' /\ Distinct' /\ Ordered'
  <2>1. now' = now + 1 /\ readings' = readings /\ work'.time = now + 1
    BY <1>3 DEF SensorBegin
  <2> QED BY <1>0, <1>2, <2>1 DEF DInv, Distinct, Ordered
<1>4. CASE SensorSave
  <2>1. work' # AtRest => work # AtRest /\ work'.time = work.time
    BY <1>0, <1>4, WorkShape DEF SensorSave, AtRest, Work
  <2> QED BY <1>2, <1>4, <2>1 DEF SensorSave, DInv, Distinct, Ordered
<1>5. CASE SensorStore
  <2>1. /\ work # AtRest /\ work' = AtRest /\ now' = now
        /\ work.time \in Int /\ work.time <= now /\ \A r \in readings : r.time < work.time
    BY <1>0, <1>5, WorkShape DEF SensorStore, AtRest, DInv, Ordered
  <2>2. PICK new : /\ new = {[device |-> work.id, metric |-> m, time |-> work.time] :
                             m \in work.metrics}
                   /\ readings' = readings \cup new
    BY <1>5 DEF SensorStore
  <2>3. \A r \in new : r.time = work.time
    BY <2>2
  <2>4. \A r, s \in new : r.metric = s.metric => r = s
    BY <2>2
  <2>5. Ordered'
    BY <1>0, <2>1, <2>2, <2>3 DEF DInv, Ordered
  <2>6. Distinct'
    BY <1>0, <2>1, <2>2, <2>3, <2>4 DEF DInv, Distinct
  <2> QED BY <1>2, <2>2, <2>5, <2>6
<1>6. CASE WorkerDies
  BY <1>2, <1>6 DEF WorkerDies, DInv, Distinct, Ordered
<1> QED BY <1>3, <1>4, <1>5, <1>6 DEF Worker

\* The only admin at work writes at once, hence has no request under way.
LEMMA ImmediateKeeps ==
    ASSUME OneAdminOnly, DInv, NEW v \in Operators, Immediate(v)
    PROVE  RequestsSound' /\ Distinct' /\ Ordered'
<1>1. \A w \in Operators : view[w] = AtRest
  BY DEF OneAdminOnly, Immediate
<1>2. readings' \subseteq readings /\ UNCHANGED <<now, work, view>>
  BY DEF Immediate, Approve, DeleteReadings
<1> QED BY <1>1, <1>2 DEF DInv, RequestsSound, Distinct, Ordered

\* A transaction moves readings of its source and removes some: their times stay.
LEMMA CommitKeeps ==
    ASSUME DInv, NEW v \in Operators, NEW q \in Active, q = view[v], Commit(v)
    PROVE  Distinct' /\ Ordered'
<1>1. /\ readings' = (readings \ q.gone) \cup q.come /\ now' = now /\ work' = work
  BY DEF Commit
<1>2. /\ q.gone \subseteq readings /\ q.come \subseteq Readings
      /\ \A k \in q.come : k.device = q.to /\ \E r \in q.gone :
            r.metric = k.metric /\ r.time = k.time
  BY ActiveFields DEF DInv, RequestsSound, Sound, Anchored
<1>3. \A r, s \in Readings : r.device = s.device /\ r.metric = s.metric /\ r.time = s.time => r = s
  BY DEF Readings
<1>4. Ordered'
  BY <1>1, <1>2 DEF DInv, Ordered
<1>5. ASSUME NEW r \in readings', NEW s \in readings', r.metric = s.metric, r.time = s.time
      PROVE  r = s
  <2>1. CASE r \in q.come /\ s \in q.come
    BY <1>2, <1>3, <1>5, <2>1
  <2>2. CASE r \notin q.come /\ s \notin q.come
    BY <1>1, <1>5, <2>2 DEF DInv, Distinct
  <2>3. CASE r \in q.come /\ s \notin q.come
    BY <1>1, <1>2, <1>5, <2>3 DEF DInv, Distinct
  <2>4. CASE r \notin q.come /\ s \in q.come
    BY <1>1, <1>2, <1>5, <2>4 DEF DInv, Distinct
  <2> QED BY <2>1, <2>2, <2>3, <2>4
<1> QED BY <1>4, <1>5 DEF Distinct

LEMMA MoveKeeps ==
    ASSUME OneAdminOnly, DInv, NEW v \in Operators, Move(v)
    PROVE  RequestsSound' /\ Distinct' /\ Ordered'
<1>0. view \in [Operators -> Requests] /\ \A w \in Operators : w = v
  BY DEF OneAdminOnly, DInv, TInv, TypeOK
<1>1. ASSUME NEW a, view' = [view EXCEPT ![v] = a], readings' = readings,
             now' = now, work' = work, a # AtRest => Sound(a) /\ Anchored(a)
      PROVE  RequestsSound' /\ Distinct' /\ Ordered'
  BY <1>0, <1>1 DEF DInv, RequestsSound, Anchored, Distinct, Ordered
<1>2. ASSUME NEW op \in {"rename", "merge", "delete"}, NEW id \in Ids, NEW to \in Ids,
             view' = [view EXCEPT ![v] = Request(op, id, to)],
             UNCHANGED <<known, approved, readings, now, work, trust>>
      PROVE  RequestsSound' /\ Distinct' /\ Ordered'
  <2>1. PICK a : a = Request(op, id, to)
    OBVIOUS
  <2>2. Sound(a) /\ Anchored(a)
    BY <2>1 DEF Request, Sound, Anchored, Merging, OneMetric
  <2> QED BY <1>1, <1>2, <2>1, <2>2
<1>3. CASE (\E id, to \in Ids : RenameRead(v, id, to)) \/ \E id \in Ids : DeleteRead(v, id)
  <2>1. ASSUME NEW id \in Ids, NEW to \in Ids, RenameRead(v, id, to)
        PROVE  RequestsSound' /\ Distinct' /\ Ordered'
    <3>1. CASE to \in known
      BY <1>2, <2>1, <3>1 DEF RenameRead
    <3>2. CASE to \notin known
      BY <1>2, <2>1, <3>2 DEF RenameRead
    <3> QED BY <3>1, <3>2
  <2>2. ASSUME NEW id \in Ids, DeleteRead(v, id)
        PROVE  RequestsSound' /\ Distinct' /\ Ordered'
    BY <1>2, <2>2 DEF DeleteRead
  <2> QED BY <1>3, <2>1, <2>2
<1>4. CASE RenameData(v) \/ DeleteData(v) \/ Merge(v)
  <2>1. PICK q : q = view[v]
    OBVIOUS
  <2>2. Effect(v, q)
    BY <1>4, <2>1, StatementEffect DEF DInv
  <2>3. q \in Active /\ q # AtRest /\ UNCHANGED <<readings, now, work>>
    BY <2>2, ActiveFields DEF Effect
  <2>4. (q.op = "delete" <=> q.id = q.to) /\ Sound(q) /\ Anchored(q) /\ Distinct
    BY <2>1, <2>3 DEF DInv, TInv, MovesApart, RequestsSound
  <2>5. PICK a \in Active : view' = [view EXCEPT ![v] = a] /\ Sound(a) /\ Anchored(a)
    BY <2>2, <2>4 DEF Effect
  <2> QED BY <1>1, <2>3, <2>5
<1>5. CASE Commit(v)
  <2>1. PICK q : q = view[v]
    OBVIOUS
  <2>2. q \in Active
    BY <1>0, <1>5, <2>1, RequestShape DEF Commit
  <2>3. view' = [view EXCEPT ![v] = AtRest]
    BY <1>5 DEF Commit
  <2>4. RequestsSound'
    BY <1>0, <2>3 DEF RequestsSound
  <2> QED BY <1>5, <2>1, <2>2, <2>4, CommitKeeps
<1>6. CASE RollBack(v)
  BY <1>1, <1>6 DEF RollBack
<1> QED BY <1>3, <1>4, <1>5, <1>6 DEF Move

LEMMA InitData == Init => DInv
BY InitTyped DEF Init, DInv, RequestsSound, Distinct, Ordered

LEMMA NextData == OneAdminOnly /\ DInv /\ [Next]_vars => DInv'
<1> SUFFICES ASSUME OneAdminOnly, DInv, [Next]_vars PROVE DInv'
  OBVIOUS
<1>1. TInv'
  BY NextTyped DEF DInv
<1>2. CASE UNCHANGED vars
  BY <1>1, <1>2 DEF vars, DInv, RequestsSound, Anchored, Distinct, Ordered
<1>3. CASE Next
  BY <1>1, <1>3, WorkerKeeps, ImmediateKeeps, MoveKeeps DEF Next, DInv
<1> QED BY <1>2, <1>3

\* What a commit finds of its own request.
LEMMA CommitSound ==
    ASSUME DInv, NEW v \in Operators, NEW q, q = view[v], Commit(v)
    PROVE  /\ q \in Active /\ q.stage = "done" /\ Sound(q) /\ Anchored(q)
           /\ q.op = "delete" <=> q.id = q.to
           /\ q.compared \subseteq Readings /\ q.come \subseteq Readings
           /\ q.id \in Ids /\ q.to \in Ids
           /\ readings' = (readings \ q.gone) \cup q.come
<1>1. view[v] \in Requests /\ q.stage = "done" /\ readings' = (readings \ q.gone) \cup q.come
  BY DEF Commit, DInv, TInv, TypeOK
<1>2. q \in Active
  BY <1>1, RequestShape
<1> QED BY <1>1, <1>2, ActiveFields DEF DInv, TInv, MovesApart, RequestsSound

LEMMA CommitKeepsNewest ==
    ASSUME DInv, NEW v \in Operators, NEW q, q = view[v], Commit(v), q.op # "delete",
           NEW r \in q.compared
    PROVE  \E k \in readings' : k.device = q.to /\ k.metric = r.metric /\ k.time >= r.time
<1>0. /\ q \in Active /\ q.stage = "done" /\ Sound(q) /\ q.compared \subseteq readings
      /\ q.compared \in SUBSET Readings /\ q.id \in Ids /\ q.to \in Ids
      /\ readings' = (readings \ q.gone) \cup q.come
  BY CommitSound DEF Anchored
<1>1. PICK m \in Metrics : m = r.metric
  BY <1>0 DEF Readings
<1>2. /\ TargetKept(q, m) \/ SourceKept(q, m)
      /\ r \in Mine(q, m) \/ r \in Theirs(q, m)
      /\ r.time \in Int
  BY <1>0, <1>1, ReadingTimes DEF Sound, Mine, Theirs, Series
<1>3. CASE TargetKept(q, m)
  <2>1. PICK k \in Theirs(q, m) : k.time >= r.time
    BY <1>2, <1>3 DEF TargetKept, Covers
  <2>2. k \in readings' /\ k.device = q.to /\ k.metric = m
    BY <1>0, <1>3, <2>1 DEF TargetKept, Theirs, Series
  <2> QED BY <1>1, <2>1, <2>2
<1>4. CASE SourceKept(q, m)
  <2>1. PICK s \in Mine(q, m) : s.time >= r.time
    BY <1>2, <1>4 DEF SourceKept, Covers
  <2>2. Mine(q, m) \in SUBSET Readings /\ s.metric = m
    BY <1>0, <2>1 DEF Mine, Series
  <2>3. PICK k \in Relabelled(Mine(q, m), q.to) :
           k.device = q.to /\ k.metric = s.metric /\ k.time = s.time
    BY <1>0, <2>1, <2>2, RelabelledMember
  <2>4. k \in readings'
    BY <1>0, <1>4, <2>3 DEF SourceKept
  <2> QED BY <1>1, <2>1, <2>2, <2>3, <2>4
<1> QED BY <1>2, <1>3, <1>4

LEMMA CommitKeepsOneSeries ==
    ASSUME DInv, NEW v \in Operators, NEW q, q = view[v], Commit(v), q.op = "merge",
           NEW m \in Metrics, NEW mine, mine = Relabelled(Mine(q, m), q.to),
           NEW theirs, theirs = Theirs(q, m)
    PROVE  readings' \cap (mine \cup theirs) \in {mine, theirs}
<1>0. /\ q \in Active /\ q.stage = "done" /\ Sound(q)
      /\ q.compared \subseteq readings /\ q.gone \subseteq readings
      /\ q.compared \in SUBSET Readings /\ q.id \in Ids /\ q.to \in Ids /\ q.id # q.to
      /\ readings' = (readings \ q.gone) \cup q.come
  BY CommitSound DEF Anchored
<1>1. TargetKept(q, m) \/ SourceKept(q, m)
  BY <1>0 DEF Sound
<1>2. Mine(q, m) \in SUBSET Readings /\ Mine(q, m) \subseteq readings
      /\ \A r \in Mine(q, m) : r.metric = m
  BY <1>0 DEF Mine, Series
<1>3. theirs \subseteq readings /\ \A t \in theirs : t.device = q.to
  BY <1>0 DEF Theirs, Series
<1>4. CASE TargetKept(q, m)
  <2>1. theirs \subseteq readings'
    BY <1>0, <1>3, <1>4 DEF TargetKept
  <2>2. ASSUME NEW k \in mine PROVE k \notin readings'
    <3>1. PICK r \in Mine(q, m) : k.metric = r.metric /\ k.time = r.time
      BY <1>0, <1>2, RelabelledOrigin
    <3>2. k \notin q.come /\ r \in q.gone
      BY <1>2, <1>4, <3>1 DEF TargetKept
    <3>3. k \in readings => k = r
      BY <1>2, <3>1 DEF DInv, Distinct
    <3> QED BY <1>0, <3>2, <3>3
  <2> QED BY <2>1, <2>2
<1>5. CASE SourceKept(q, m)
  <2>1. mine \subseteq readings'
    BY <1>0, <1>5 DEF SourceKept
  <2>2. ASSUME NEW t \in theirs PROVE t \notin readings'
    <3>1. t \in q.gone
      BY <1>5 DEF SourceKept
    <3>2. ASSUME t \in q.come PROVE FALSE
      <4>1. PICK r \in q.gone : r.device = q.id /\ r.metric = t.metric /\ r.time = t.time
        BY <1>0, <3>2 DEF Sound
      <4>2. r = t
        BY <1>0, <1>3, <4>1 DEF DInv, Distinct
      <4> QED BY <1>0, <1>3, <4>1, <4>2
    <3> QED BY <1>0, <3>1, <3>2
  <2> QED BY <2>1, <2>2
<1> QED BY <1>1, <1>4, <1>5

LEMMA DataAlways == ASSUME OneAdminOnly PROVE Spec => []DInv
BY InitData, NextData, PTL DEF Spec

\* A rename or a merge leaves under the new id, of every metric, a reading at
\* least as new as any of those it has looked at, whatever the worker stores
\* between its statements (devices/views.py:667-719).
THEOREM NewestDataSurvives == ASSUME OneAdminOnly PROVE Spec => NewestSurvives
<1>1. DInv /\ [Next]_vars =>
         [\A v \in Operators : Commit(v) /\ view[v].op # "delete" =>
             \A r \in view[v].compared : \E k \in readings' :
                k.device = view[v].to /\ k.metric = r.metric /\ k.time >= r.time]_vars
  BY CommitKeepsNewest
<1> QED BY <1>1, DataAlways, PTL DEF Spec, NewestSurvives

\* After a merge the target has, of each metric, all that was compared of the
\* one device and nothing that was compared of the other: the UPDATE of what the
\* source still has never mixes two series (devices/views.py:683-719).
THEOREM MergesKeepOneSeries == ASSUME OneAdminOnly PROVE Spec => OneSeriesIsKept
<1> DEFINE Step == \A v \in Operators, m \in Metrics : Commit(v) /\ view[v].op = "merge" =>
              LET q == view[v]
                  mine == Relabelled(Series(q.compared, q.id, m), q.to)
                  theirs == Series(q.compared, q.to, m)
              IN readings' \cap (mine \cup theirs) \in {mine, theirs}
<1>1. DInv => Step
  <2> SUFFICES ASSUME DInv, NEW v \in Operators, NEW m \in Metrics, Commit(v),
                      view[v].op = "merge",
                      NEW q, q = view[v]
               PROVE  LET mine == Relabelled(Mine(q, m), q.to)
                      IN readings' \cap (mine \cup Theirs(q, m)) \in {mine, Theirs(q, m)}
    BY DEF Mine, Theirs
  <2> QED BY CommitKeepsOneSeries
<1>2. DInv /\ [Next]_vars => [Step]_vars
  BY <1>1
<1> QED BY <1>2, DataAlways, PTL DEF Spec, OneSeriesIsKept

-----------------------------------------------------------------------------
(* Approvals, with one admin.                                               *)

\* A rename under way copies an approval that an admin gave.
CopiesGiven == \A v \in Operators :
    view[v] # AtRest /\ view[v].op = "rename" /\ view[v].approved => trust[view[v].id] = "granted"

AInv == TInv /\ ApprovalIsGiven /\ CopiesGiven

LEMMA NextApproval == OneAdminOnly /\ AInv /\ [Next]_vars => AInv'
<1> SUFFICES ASSUME OneAdminOnly, AInv, [Next]_vars PROVE AInv'
  OBVIOUS
<1>0. /\ TInv' /\ approved \subseteq known /\ approved \subseteq Ids
      /\ view \in [Operators -> Requests] /\ trust \in [Ids -> {"none", "granted", "revoked"}]
  BY NextTyped DEF AInv, TInv, TypeOK
<1>1. CASE UNCHANGED vars
  BY <1>0, <1>1 DEF vars, AInv, ApprovalIsGiven, CopiesGiven
<1>2. CASE Worker
  <2>1. UNCHANGED <<approved, view, trust>>
    BY <1>2 DEF Worker, SensorBegin, SensorSave, SensorStore, WorkerDies
  <2> QED BY <1>0, <2>1 DEF AInv, ApprovalIsGiven, CopiesGiven
<1>3. ASSUME NEW v \in Operators, Immediate(v) PROVE AInv'
  <2>1. view' = view /\ \A w \in Operators : view[w] = AtRest
    BY <1>3 DEF OneAdminOnly, Immediate, Approve, DeleteReadings
  <2>2. ApprovalIsGiven'
    BY <1>0, <1>3 DEF AInv, ApprovalIsGiven, Immediate, Approve, DeleteReadings
  <2> QED BY <1>0, <2>1, <2>2 DEF AInv, CopiesGiven
<1>4. ASSUME NEW v \in Operators, NEW a, view' = [view EXCEPT ![v] = a],
             UNCHANGED <<approved, trust>>,
             a # AtRest /\ a.op = "rename" /\ a.approved => trust[a.id] = "granted"
      PROVE  AInv'
  BY <1>0, <1>4 DEF OneAdminOnly, AInv, ApprovalIsGiven, CopiesGiven
<1>5. ASSUME NEW v \in Operators, NEW op \in {"rename", "merge", "delete"}, NEW id \in Ids,
             NEW to \in Ids, view' = [view EXCEPT ![v] = Request(op, id, to)],
             UNCHANGED <<known, approved, readings, now, work, trust>>
      PROVE  AInv'
  BY <1>4, <1>5 DEF AInv, ApprovalIsGiven, Request
<1>6. ASSUME NEW v \in Operators, NEW id \in Ids, NEW to \in Ids, RenameRead(v, id, to) PROVE AInv'
  <2>1. CASE to \in known
    BY <1>5, <1>6, <2>1 DEF RenameRead
  <2>2. CASE to \notin known
    BY <1>5, <1>6, <2>2 DEF RenameRead
  <2> QED BY <2>1, <2>2
<1>7. ASSUME NEW v \in Operators, NEW id \in Ids, DeleteRead(v, id) PROVE AInv'
  BY <1>5, <1>7 DEF DeleteRead
<1>8. ASSUME NEW v \in Operators, RenameData(v) \/ DeleteData(v) \/ Merge(v) PROVE AInv'
  <2>1. PICK q : q = view[v]
    OBVIOUS
  <2>2. Effect(v, q)
    BY <1>8, <2>1, StatementEffect DEF AInv
  <2>3. PICK a \in Active : /\ view' = [view EXCEPT ![v] = a]
                            /\ a.op = q.op /\ a.id = q.id /\ a.approved = q.approved
    BY <2>2 DEF Effect
  <2>4. q # AtRest /\ UNCHANGED <<approved, trust>>
    BY <2>2, ActiveFields DEF Effect
  <2> QED BY <1>4, <2>1, <2>3, <2>4 DEF AInv, CopiesGiven
<1>9. ASSUME NEW v \in Operators, Commit(v) PROVE AInv'
  <2>1. PICK q : q = view[v]
    OBVIOUS
  <2>2. q \in Active
    BY <1>0, <1>9, <2>1, RequestShape DEF Commit
  <2>3. /\ q # AtRest /\ q.id \in Ids /\ q.to \in Ids /\ q.op \in {"rename", "merge", "delete"}
        /\ q.op = "delete" <=> q.id = q.to
    BY <2>1, <2>2, ActiveFields DEF AInv, TInv, MovesApart
  <2>4. /\ view' = [view EXCEPT ![v] = AtRest]
        /\ approved' = (approved \ {q.id}) \cup
                          (IF q.op = "rename" /\ q.approved THEN {q.to} ELSE {})
        /\ trust' = [trust EXCEPT ![q.to] = IF q.op = "rename" THEN trust[q.id] ELSE @,
                                  ![q.id] = "none"]
        /\ q.op = "rename" => q.to \notin known
    BY <1>9, <2>1 DEF Commit, ApprovedAfter
  <2>5. ApprovalIsGiven'
    BY <1>0, <2>1, <2>3, <2>4 DEF AInv, ApprovalIsGiven, CopiesGiven
  <2>6. CopiesGiven'
    BY <1>0, <2>4 DEF OneAdminOnly, CopiesGiven
  <2> QED BY <1>0, <2>5, <2>6 DEF AInv
<1>10. ASSUME NEW v \in Operators, RollBack(v) PROVE AInv'
  BY <1>4, <1>10 DEF RollBack
<1> QED BY <1>1, <1>2, <1>3, <1>6, <1>7, <1>8, <1>9, <1>10 DEF Next, Move

\* With one admin at work, nothing but a decision approves a device: the worker,
\* a rename's copy of the row, a merge and a delete leave every approved device
\* with a decision under its id, or the ids it had before (devices/views.py:630-655).
THEOREM ApprovalIsAlwaysGiven == ASSUME OneAdminOnly PROVE Spec => []ApprovalIsGiven
<1>1. Init => AInv
  BY InitTyped DEF Init, AInv, TInv, TypeOK, ApprovalIsGiven, CopiesGiven
<1>2. AInv => ApprovalIsGiven
  BY DEF AInv
<1> QED BY <1>1, <1>2, NextApproval, PTL DEF Spec

=============================================================================
