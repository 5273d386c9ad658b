----------------------- MODULE CalibrationMirrorProofs -----------------------
(***************************************************************************)
(* Proofs about CalibrationMirror, for every set of admins, keys and       *)
(* values, and every bound of the queues and of the operations.            *)
(***************************************************************************)
EXTENDS CalibrationMirror, SequenceTheorems, TLAPS

UnderWay == [step : {"read", "published", "logged"}, key : Keys, value : Values, read : Mirrors]
ViewType == {Idle} \cup UnderWay
ToDevice == [key : Keys \cup {Nothing}, value : Values \cup {Unset}]
ToWorker == [topic : Capabilities \cup Acks \cup Reports, store : Stores]
WorkType == [push : Mirrors, flush : Seq(Sets), merge : Mirrors, read : Mirrors]

-----------------------------------------------------------------------------
(* What calm means: at most one exchange is in progress, and it is one of   *)
(* three.  What a queue may hold is said by the set its elements are in.    *)

AllIdle == \A a \in Admins : view[a] = Idle
NoReport == up \in Seq([topic : Capabilities \cup Acks, store : Stores])
\* A device that says it is empty gets nothing.
NothingToRestore ==
    /\ store = Blank => mirror = Blank
    /\ \A i \in 1 .. Len(up) : up[i].topic = "empty" => mirror = Blank

\* The sets that agree with the mirror.
FromMirror == {c \in Sets : mirror[c.key] = c.value}

\* Every value of the mirror is in the device, or on its way to it, or the
\* device was wiped and has not been answered yet.
Wiped == store = Blank /\ wire = <<>> /\ work = AtRest /\ rows = <<>>
Covered(k) ==
    \/ store[k] = mirror[k]
    \/ work.push[k] = mirror[k]
    \/ \E i \in 1 .. Len(wire) : wire[i] = Set(k, mirror[k])
    \/ Wiped

\* At rest, or the mirror is being re-pushed, or the last sets wait for their acks.
Resting ==
    /\ AllIdle /\ NoReport
    /\ mirror = wanted /\ work.merge = Blank
    /\ wire \in Seq(FromMirror) /\ rows \in Seq(FromMirror) /\ work.flush \in Seq(FromMirror)
    /\ \A k \in Keys : work.push[k] \in {Unset, mirror[k]}
    /\ \A k \in Keys : mirror[k] # Unset => Covered(k)

\* One admin sets one value.
Setting(a) ==
    /\ \A b \in Admins \ {a} : view[b] = Idle
    /\ view[a].key \in Keys /\ view[a].value \in Values /\ view[a].read = mirror
    /\ NoReport /\ NothingToRestore
    /\ mirror = wanted /\ work.push = Blank /\ work.merge = Blank
    /\ \/ /\ view[a].step = "read"
          /\ wire = <<>> /\ rows = <<>> /\ work.flush = <<>> /\ Restored
       \/ /\ view[a].step \in {"published", "logged"}
          /\ wire \in Seq({Set(view[a].key, view[a].value)})
          /\ rows \in Seq({Set(view[a].key, view[a].value)})
          /\ work.flush \in Seq({Set(view[a].key, view[a].value)})
          /\ wire = <<>> => store[view[a].key] = view[a].value
          /\ \A k \in Keys \ {view[a].key} : mirror[k] # Unset => store[k] = mirror[k]

\* A report was asked for: the request or the report is on its way, or the old
\* firmware's answer is being merged.
Answer == IF legacy = {} THEN "calibration" ELSE "legacy"
Answered(i) ==
    /\ up[i].topic = Answer /\ up[i].store = store
    /\ \A j \in 1 .. Len(up) \ {i} : up[j].topic \notin Reports
Asking ==
    /\ AllIdle /\ NothingToRestore
    /\ rows = <<>> /\ work.flush = <<>> /\ work.push = Blank
    /\ legacy # {} => mirror = wanted /\ Restored
    /\ \/ wire = <<RequestCalibration>> /\ NoReport /\ work.merge = Blank
       \/ wire = <<>> /\ work.merge = Blank /\ \E i \in 1 .. Len(up) : Answered(i)
       \/ /\ wire = <<>> /\ NoReport /\ legacy # {}
          /\ work.read = mirror /\ work.merge # Blank
          /\ \A k \in Keys : work.merge[k] \in {Unset, store[k]}

\* The inductive invariant.
OneExchange == calm => Resting \/ Asking \/ \E a \in Admins : Setting(a)
IInv == TypeOK /\ OneExchange

-----------------------------------------------------------------------------
(* The queues and the constants.                                            *)

LEMMA BlankFacts ==
    /\ Blank \in Mirrors /\ Blank \in Stores /\ \A k \in Keys : Blank[k] = Unset
    /\ Mirrors \subseteq Stores
    /\ Idle \in ViewType /\ Idle.key = Nothing /\ Idle.step = "idle"
BY DEF Blank, Mirrors, Stores, Idle, ViewType

LEMMA EmptyQueue ==
    ASSUME NEW S
    PROVE  <<>> \in Seq(S) /\ Len(<<>>) = 0 /\ 1 .. Len(<<>>) = {}
OBVIOUS

LEMMA RestFacts ==
    /\ AtRest \in WorkType
    /\ AtRest.push = Blank /\ AtRest.flush = <<>> /\ AtRest.merge = Blank /\ AtRest.read = Blank
BY BlankFacts, EmptyQueue DEF AtRest, WorkType

LEMMA SetFacts ==
    ASSUME NEW k \in Keys, NEW v \in Values
    PROVE  /\ Set(k, v) \in Sets /\ Set(k, v) \in ToDevice
           /\ Set(k, v).key = k /\ Set(k, v).value = v
           /\ Set(k, v) # RequestCalibration
           /\ Action(k) \in Acks /\ Action(k) \notin Reports /\ Action(k) # "empty"
BY CalibrationAssumption
   DEF Set, Sets, ToDevice, RequestCalibration, Action, Acks, Reports, CalibrationAssumption

LEMMA SetsAreMessages == Sets \subseteq ToDevice
BY DEF Sets, ToDevice

LEMMA SetsAreSets ==
    ASSUME NEW c \in Sets
    PROVE  c.key \in Keys /\ c.value \in Values /\ c = Set(c.key, c.value)
BY DEF Sets, Set

LEMMA TypeParts ==
    ASSUME TypeOK
    PROVE  /\ mirror \in Mirrors /\ wanted \in Mirrors /\ issued \in Mirrors /\ store \in Stores
           /\ rows \in Seq(Sets) /\ work \in WorkType
           /\ view \in [Admins -> ViewType]
           /\ wire \in Seq(ToDevice) /\ Len(wire) <= MaxWire
           /\ up \in Seq(ToWorker) /\ Len(up) <= MaxUp
           /\ calm \in BOOLEAN /\ left \in 0 .. MaxOps /\ legacy \in SUBSET Offsets
BY DEF TypeOK, ViewType, UnderWay, ToDevice, ToWorker, WorkType

LEMMA PartsType ==
    ASSUME mirror \in Mirrors, wanted \in Mirrors, issued \in Mirrors, store \in Stores,
           rows \in Seq(Sets), work \in WorkType,
           view \in [Admins -> ViewType],
           wire \in Seq(ToDevice), Len(wire) <= MaxWire,
           up \in Seq(ToWorker), Len(up) <= MaxUp,
           calm \in BOOLEAN, left \in 0 .. MaxOps, legacy \in SUBSET Offsets
    PROVE  TypeOK
BY DEF TypeOK, ViewType, UnderWay, ToDevice, ToWorker, WorkType

LEMMA Appended ==
    ASSUME NEW S, NEW s \in Seq(S), NEW m \in S
    PROVE  /\ Append(s, m) \in Seq(S) /\ Append(s, m) # <<>>
           /\ Len(s) \in Nat /\ Len(Append(s, m)) = Len(s) + 1
           /\ Append(s, m)[Len(s) + 1] = m
           /\ \A i \in 1 .. Len(s) : Append(s, m)[i] = s[i]
           /\ 1 .. Len(Append(s, m)) = 1 .. Len(s) \cup {Len(s) + 1}
BY AppendProperties, LenProperties

LEMMA Shortened ==
    ASSUME NEW S, NEW s \in Seq(S), s # <<>>
    PROVE  /\ Tail(s) \in Seq(S) /\ Head(s) \in S /\ Head(s) = s[1] /\ 1 \in 1 .. Len(s)
           /\ Len(s) \in Nat \ {0} /\ Len(Tail(s)) = Len(s) - 1
           /\ \A i \in 1 .. Len(Tail(s)) : i + 1 \in 1 .. Len(s) /\ Tail(s)[i] = s[i + 1]
           /\ \A i \in 1 .. Len(s) :
                 i # 1 => i - 1 \in 1 .. Len(Tail(s)) /\ Tail(s)[i - 1] = s[i]
<1>1. /\ Tail(s) \in Seq(S) /\ Head(s) \in S /\ Head(s) = s[1]
      /\ Len(s) \in Nat \ {0} /\ Len(Tail(s)) = Len(s) - 1
      /\ \A i \in 1 .. Len(Tail(s)) : Tail(s)[i] = s[i + 1]
  BY EmptySeq, LenProperties, HeadTailProperties
<1>2. \A i \in 1 .. Len(s) : i # 1 => i - 1 \in 1 .. Len(Tail(s)) /\ (i - 1) + 1 = i
  BY <1>1
<1> QED BY <1>1, <1>2

\* An element taken out leaves a queue of the others.
LEMMA TakenOut ==
    ASSUME NEW S, NEW s \in Seq(S), NEW i \in 1 .. Len(s)
    PROVE  Without(s, i) \in Seq(S)
<1>1. Len(s) - 1 \in Nat /\ \A j \in 1 .. Len(s) : s[j] \in S
  BY LenProperties, ElementOfSeq
<1>2. \A j \in 1 .. Len(s) - 1 : (IF j < i THEN s[j] ELSE s[j + 1]) \in S
  BY <1>1
<1> QED BY <1>1, <1>2 DEF Without

\* A message published to the device.
LEMMA Published ==
    ASSUME TypeOK, NEW m \in ToDevice, Publish(m)
    PROVE  wire' \in Seq(ToDevice) /\ Len(wire') <= MaxWire
BY TypeParts, Appended, CalibrationAssumption DEF Publish, CalibrationAssumption

\* A message taken from the device's queue, or from the worker's.
LEMMA Received ==
    ASSUME TypeOK
    PROVE  /\ wire # <<>> /\ wire' = Tail(wire) =>
                 wire' \in Seq(ToDevice) /\ Len(wire') <= MaxWire /\ Head(wire) \in ToDevice
           /\ up # <<>> /\ up' = Tail(up) =>
                 up' \in Seq(ToWorker) /\ Len(up') <= MaxUp /\ Head(up) \in ToWorker
<1>1. /\ wire \in Seq(ToDevice) /\ Len(wire) <= MaxWire
      /\ up \in Seq(ToWorker) /\ Len(up) <= MaxUp
      /\ MaxWire \in Nat /\ MaxUp \in Nat
  BY TypeParts, CalibrationAssumption DEF CalibrationAssumption
<1>2. wire # <<>> /\ wire' = Tail(wire) =>
         wire' \in Seq(ToDevice) /\ Len(wire') <= MaxWire /\ Head(wire) \in ToDevice
  BY <1>1, Shortened
<1>3. up # <<>> /\ up' = Tail(up) =>
         up' \in Seq(ToWorker) /\ Len(up') <= MaxUp /\ Head(up) \in ToWorker
  BY <1>1, Shortened
<1> QED BY <1>2, <1>3

\* A message of the device.
LEMMA Sent ==
    ASSUME TypeOK, NEW topic \in Capabilities \cup Acks \cup Reports, Send(topic)
    PROVE  up' \in Seq(ToWorker) /\ Len(up') <= MaxUp
<1>1. up \in Seq(ToWorker) /\ store \in Stores
  BY TypeParts
<1>2. [topic |-> topic, store |-> IF topic \in Reports THEN store ELSE Blank] \in ToWorker
  BY <1>1, BlankFacts DEF ToWorker
<1> QED BY <1>1, <1>2, Appended, CalibrationAssumption DEF Send, CalibrationAssumption

-----------------------------------------------------------------------------
(* Types.                                                                   *)

LEMMA ViewSet ==
    ASSUME view \in [Admins -> ViewType], NEW a \in Admins, NEW r \in ViewType
    PROVE  [view EXCEPT ![a] = r] \in [Admins -> ViewType]
OBVIOUS

LEMMA TypesBegin ==
    ASSUME TypeOK, NEW a \in Admins, NEW k \in Keys, NEW v \in Values, SetBegin(a, k, v)
    PROVE  TypeOK'
<1>1. UNCHANGED <<mirror, rows, store, wire, up, work, wanted, issued, legacy>>
  BY DEF SetBegin
<1>2. [step |-> "read", key |-> k, value |-> v, read |-> mirror] \in ViewType
  BY TypeParts DEF ViewType, UnderWay
<1>3. view' \in [Admins -> ViewType]
  BY <1>2, TypeParts, ViewSet DEF SetBegin
<1>4. calm' \in BOOLEAN
  BY DEF SetBegin
<1>5. left' \in 0 .. MaxOps
  BY TypeParts, CalibrationAssumption DEF SetBegin, Operation, CalibrationAssumption
<1> QED BY <1>1, <1>3, <1>4, <1>5, TypeParts, PartsType DEF TypeOK, ViewType, UnderWay

LEMMA TypesViews ==
    ASSUME TypeOK, NEW a \in Admins, ViewStep(a) \/ SetEnds(a)
    PROVE  TypeOK'
<1>0. /\ mirror \in Mirrors /\ wanted \in Mirrors /\ issued \in Mirrors /\ store \in Stores
      /\ rows \in Seq(Sets) /\ work \in WorkType
      /\ view \in [Admins -> ViewType]
      /\ wire \in Seq(ToDevice) /\ Len(wire) <= MaxWire
      /\ up \in Seq(ToWorker) /\ Len(up) <= MaxUp
      /\ calm \in BOOLEAN /\ left \in 0 .. MaxOps
  BY TypeParts
<1>1. /\ view[a] \in UnderWay
      /\ view[a].key \in Keys /\ view[a].value \in Values /\ view[a].read \in Mirrors
      /\ Set(view[a].key, view[a].value) \in Sets /\ Set(view[a].key, view[a].value) \in ToDevice
  <2>1. view[a].step # "idle"
    BY DEF ViewStep, SetPublish, SetLog, SetSave, SetEnds
  <2>2. view[a] \in UnderWay
    BY <1>0, <2>1, BlankFacts DEF ViewType
  <2>3. view[a].key \in Keys /\ view[a].value \in Values /\ view[a].read \in Mirrors
    BY <2>2 DEF UnderWay
  <2> QED BY <2>2, <2>3, SetFacts
<1>2. /\ [view EXCEPT ![a] = Idle] \in [Admins -> ViewType]
      /\ [view EXCEPT ![a].step = "published"] \in [Admins -> ViewType]
      /\ [view EXCEPT ![a].step = "logged"] \in [Admins -> ViewType]
      /\ [issued EXCEPT ![view[a].key] = view[a].value] \in Mirrors
  <2>1. [view EXCEPT ![a] = Idle] \in [Admins -> ViewType]
    BY <1>0, BlankFacts, ViewSet
  <2>2. /\ [view[a] EXCEPT !.step = "published"] \in UnderWay
        /\ [view[a] EXCEPT !.step = "logged"] \in UnderWay
    BY <1>1 DEF UnderWay
  <2>3. /\ [view EXCEPT ![a].step = "published"] \in [Admins -> ViewType]
        /\ [view EXCEPT ![a].step = "logged"] \in [Admins -> ViewType]
    BY <1>0, <2>2 DEF ViewType
  <2>4. [issued EXCEPT ![view[a].key] = view[a].value] \in Mirrors
    BY <1>0, <1>1 DEF Mirrors
  <2> QED BY <2>1, <2>3, <2>4
<1>3. CASE SetPublish(a)
  <2>1. UNCHANGED <<mirror, rows, store, up, work, wanted, calm, left, legacy>>
    BY <1>3 DEF SetPublish
  <2>2. issued' \in Mirrors /\ view' \in [Admins -> ViewType]
    BY <1>0, <1>2, <1>3 DEF SetPublish
  <2>3. wire' \in Seq(ToDevice) /\ Len(wire') <= MaxWire
    BY <1>0, <1>1, <1>3, Published DEF SetPublish
  <2> QED BY <1>0, <2>1, <2>2, <2>3 DEF TypeOK, ViewType, UnderWay, ToDevice, ToWorker, WorkType
<1>4. CASE SetEnds(a)
  <2>1. UNCHANGED <<mirror, rows, store, wire, up, work, wanted, left, legacy>> /\ calm' = FALSE
    BY <1>4 DEF SetEnds
  <2>2. issued' \in Mirrors /\ view' \in [Admins -> ViewType]
    BY <1>0, <1>2, <1>4 DEF SetEnds, Mirrors
  <2> QED BY <1>0, <2>1, <2>2 DEF TypeOK, ViewType, UnderWay, ToDevice, ToWorker, WorkType
<1>5. CASE SetSave(a)
  <2>1. UNCHANGED <<rows, store, wire, up, work, issued, calm, left, legacy>>
    BY <1>5 DEF SetSave
  <2>2. mirror' \in Mirrors /\ wanted' \in Mirrors
    BY <1>0, <1>1, <1>5 DEF SetSave, Mirrors
  <2>3. view' \in [Admins -> ViewType]
    BY <1>2, <1>5 DEF SetSave
  <2> QED BY <1>0, <2>1, <2>2, <2>3 DEF TypeOK, ViewType, UnderWay, ToDevice, ToWorker, WorkType
<1>6. CASE SetLog(a)
  <2>1. UNCHANGED <<mirror, store, wire, up, work, wanted, issued, calm, left, legacy>>
    BY <1>6 DEF SetLog
  <2>2. view' \in [Admins -> ViewType]
    BY <1>2, <1>6 DEF SetLog
  <2>3. rows' \in Seq(Sets)
    BY <1>0, <1>1, <1>6, Appended DEF SetLog
  <2> QED BY <1>0, <2>1, <2>2, <2>3 DEF TypeOK, ViewType, UnderWay, ToDevice, ToWorker, WorkType
<1> QED BY <1>3, <1>4, <1>5, <1>6 DEF ViewStep

LEMMA TypesAsk ==
    ASSUME TypeOK, Ask \/ Wipe
    PROVE  TypeOK'
<1>0. /\ mirror \in Mirrors /\ wanted \in Mirrors /\ issued \in Mirrors /\ store \in Stores
      /\ rows \in Seq(Sets) /\ work \in WorkType
      /\ view \in [Admins -> ViewType]
      /\ wire \in Seq(ToDevice) /\ Len(wire) <= MaxWire
      /\ up \in Seq(ToWorker) /\ Len(up) <= MaxUp
      /\ calm \in BOOLEAN /\ left \in 0 .. MaxOps
  BY TypeParts
<1>1. left' \in 0 .. MaxOps
  BY <1>0, CalibrationAssumption DEF Ask, Wipe, Operation, CalibrationAssumption
<1>2. calm' \in BOOLEAN /\ UNCHANGED <<mirror, rows, view, up, work, wanted, issued, legacy>>
  BY DEF Ask, Wipe
<1>3. store' \in Stores
  BY <1>0, BlankFacts DEF Ask, Wipe
<1>4. wire' \in Seq(ToDevice) /\ Len(wire') <= MaxWire
  <2>1. RequestCalibration \in ToDevice
    BY DEF RequestCalibration, ToDevice
  <2> QED BY <1>0, <2>1, Published DEF Ask, Wipe
<1> QED BY <1>0, <1>1, <1>2, <1>3, <1>4
    DEF TypeOK, ViewType, UnderWay, ToDevice, ToWorker, WorkType

LEMMA TypesDevice ==
    ASSUME TypeOK, PublishCapabilities \/ Report \/ Execute
    PROVE  TypeOK'
<1>0. /\ mirror \in Mirrors /\ wanted \in Mirrors /\ issued \in Mirrors /\ store \in Stores
      /\ rows \in Seq(Sets) /\ work \in WorkType
      /\ view \in [Admins -> ViewType]
      /\ wire \in Seq(ToDevice) /\ Len(wire) <= MaxWire
      /\ up \in Seq(ToWorker) /\ Len(up) <= MaxUp
      /\ calm \in BOOLEAN /\ left \in 0 .. MaxOps
  BY TypeParts
<1>1. UNCHANGED <<mirror, rows, view, work, wanted, left, legacy>>
  BY DEF PublishCapabilities, Report, Execute
<1>2. CASE PublishCapabilities
  <2>1. up' \in Seq(ToWorker) /\ Len(up') <= MaxUp
    BY <1>2, Sent DEF PublishCapabilities, Capabilities
  <2>2. UNCHANGED <<store, wire, issued, calm, legacy>>
    BY <1>2 DEF PublishCapabilities
  <2> QED BY <1>0, <1>1, <2>1, <2>2 DEF TypeOK, ViewType, UnderWay, ToDevice, ToWorker, WorkType
<1>3. CASE Report
  <2>1. up' \in Seq(ToWorker) /\ Len(up') <= MaxUp
    BY <1>3, Sent DEF Report, Reports
  <2>2. UNCHANGED <<store, issued, calm>> /\ wire' \in Seq(ToDevice) /\ Len(wire') <= MaxWire
    BY <1>3, Received DEF Report
  <2> QED BY <1>0, <1>1, <2>1, <2>2 DEF TypeOK, ViewType, UnderWay, ToDevice, ToWorker, WorkType
<1>4. CASE Execute
  <2>1. wire' \in Seq(ToDevice) /\ Len(wire') <= MaxWire /\ Head(wire) \in ToDevice
    BY <1>4, Received DEF Execute
  <2>2. up' \in Seq(ToWorker) /\ Len(up') <= MaxUp
    BY <1>0, <1>4, Sent DEF Execute, Acks, Action
  <2>3. Head(wire).value \in Values \cup {Unset}
    BY <2>1 DEF ToDevice
  <2>4. store' \in Stores /\ issued' \in Mirrors /\ calm' \in BOOLEAN
    <3>1. \/ store' = [store EXCEPT ![Head(wire).key] = Head(wire).value] /\ UNCHANGED <<issued, calm>>
          \/ /\ issued' = [issued EXCEPT ![Head(wire).key] = Unset] /\ calm' = FALSE
             /\ UNCHANGED store
      BY <1>4 DEF Execute
    <3> QED BY <1>0, <2>3, <3>1 DEF Stores, Mirrors
  <2> QED BY <1>0, <1>1, <2>1, <2>2, <2>4 DEF TypeOK, ViewType, UnderWay, ToDevice, ToWorker, WorkType
<1> QED BY <1>2, <1>3, <1>4

LEMMA NumbersFacts ==
    ASSUME NEW s \in Stores
    PROVE  /\ Numbers(s) \in Mirrors /\ OffsetsOf(s) \in Mirrors
           /\ \A k \in Keys : Numbers(s)[k] # Unset => s[k] = Numbers(s)[k]
           /\ \A k \in Keys : OffsetsOf(s)[k] # Unset => s[k] = OffsetsOf(s)[k]
<1>1. Numbers(s) \in Mirrors /\ \A k \in Keys : Numbers(s)[k] # Unset => s[k] = Numbers(s)[k]
  BY DEF Numbers, Stores, Mirrors
<1>2. \A k \in Keys : OffsetsOf(s)[k] = IF k \in legacy THEN Numbers(s)[k] ELSE Unset
  BY DEF OffsetsOf
<1>3. OffsetsOf(s) \in Mirrors
  BY <1>1 DEF OffsetsOf, Mirrors
<1> QED BY <1>1, <1>2, <1>3

LEMMA OverFacts ==
    ASSUME NEW base \in Mirrors, NEW values \in Mirrors
    PROVE  /\ Over(base, values) \in Mirrors
           /\ \A k \in Keys : Over(base, values)[k] = IF values[k] # Unset THEN values[k] ELSE base[k]
BY DEF Over, Mirrors

LEMMA TypesHandler ==
    ASSUME TypeOK, Handler
    PROVE  TypeOK'
<1>0. /\ mirror \in Mirrors /\ wanted \in Mirrors /\ issued \in Mirrors /\ store \in Stores
      /\ rows \in Seq(Sets) /\ work \in WorkType
      /\ view \in [Admins -> ViewType]
      /\ wire \in Seq(ToDevice) /\ Len(wire) <= MaxWire
      /\ up \in Seq(ToWorker) /\ Len(up) <= MaxUp
      /\ calm \in BOOLEAN /\ left \in 0 .. MaxOps
  BY TypeParts
<1>1. UNCHANGED <<store, view, wire, issued, calm, left, legacy>>
  BY DEF Handler, HandleCapabilities, HandleAck, HandleReport, HandleLegacy
<1>2. up' \in Seq(ToWorker) /\ Len(up') <= MaxUp /\ Head(up) \in ToWorker
  BY Received DEF Handler, HandleCapabilities, HandleAck, HandleReport, HandleLegacy, Taken
<1>3. PICK s \in Stores : s = Head(up).store
  BY <1>2 DEF ToWorker
<1>4. Numbers(s) \in Mirrors /\ OffsetsOf(s) \in Mirrors
  BY NumbersFacts
<1>5. CASE HandleCapabilities
  <2>1. UNCHANGED <<mirror, rows, wanted>>
    BY <1>5 DEF HandleCapabilities
  <2>2. work' \in WorkType
    BY <1>0, <1>5, RestFacts, BlankFacts DEF HandleCapabilities, WorkType
  <2> QED BY <1>0, <1>1, <1>2, <2>1, <2>2 DEF TypeOK, ViewType, UnderWay, ToDevice, ToWorker, WorkType
<1>6. CASE HandleAck
  <2>1. UNCHANGED <<mirror, work, wanted>>
    BY <1>6 DEF HandleAck
  <2>2. rows' \in Seq(Sets)
    <3>1. rows' = rows \/ \E i \in 1 .. Len(rows) : rows' = Without(rows, i)
      BY <1>6 DEF HandleAck
    <3> QED BY <1>0, <3>1, TakenOut
  <2> QED BY <1>0, <1>1, <1>2, <2>1, <2>2 DEF TypeOK, ViewType, UnderWay, ToDevice, ToWorker, WorkType
<1>7. CASE HandleReport
  <2>1. UNCHANGED <<rows, work>> /\ mirror' = Numbers(s) /\ wanted' = Numbers(s)
    BY <1>3, <1>7 DEF HandleReport
  <2> QED BY <1>0, <1>1, <1>2, <1>4, <2>1 DEF TypeOK, ViewType, UnderWay, ToDevice, ToWorker, WorkType
<1>8. CASE HandleLegacy
  <2>1. UNCHANGED <<mirror, rows, wanted>>
    BY <1>8 DEF HandleLegacy
  <2>2. work' \in WorkType
    <3>1. work' = AtRest \/ work' = [AtRest EXCEPT !.merge = OffsetsOf(s), !.read = mirror]
      BY <1>3, <1>8 DEF HandleLegacy
    <3> QED BY <1>0, <1>4, <3>1, RestFacts DEF WorkType
  <2> QED BY <1>0, <1>1, <1>2, <2>1, <2>2 DEF TypeOK, ViewType, UnderWay, ToDevice, ToWorker, WorkType
<1> QED BY <1>5, <1>6, <1>7, <1>8 DEF Handler

LEMMA TypesWorker ==
    ASSUME TypeOK, Flush \/ WorkerStep \/ WorkerRestarts \/ \E k \in Keys : Repush(k)
    PROVE  TypeOK'
<1>0. /\ mirror \in Mirrors /\ wanted \in Mirrors /\ issued \in Mirrors /\ store \in Stores
      /\ rows \in Seq(Sets) /\ work \in WorkType
      /\ view \in [Admins -> ViewType]
      /\ wire \in Seq(ToDevice) /\ Len(wire) <= MaxWire
      /\ up \in Seq(ToWorker) /\ Len(up) <= MaxUp
      /\ calm \in BOOLEAN /\ left \in 0 .. MaxOps
  BY TypeParts
<1>1. /\ work.push \in Mirrors /\ work.merge \in Mirrors /\ work.read \in Mirrors
      /\ work.flush \in Seq(Sets)
  BY <1>0 DEF WorkType
<1>2. ASSUME NEW k \in Keys, Repush(k) PROVE TypeOK'
  <2>1. UNCHANGED <<mirror, rows, store, view, up, wanted, left, legacy>>
    BY <1>2 DEF Repush
  <2>2. calm' \in BOOLEAN /\ issued' \in Mirrors
    BY <1>0, <1>1, <1>2 DEF Repush, Mirrors
  <2>3. work' \in WorkType
    <3>1. [work.push EXCEPT ![k] = Unset] \in Mirrors
      BY <1>1 DEF Mirrors
    <3> QED BY <1>0, <1>2, <3>1 DEF Repush, WorkType
  <2>4. wire' \in Seq(ToDevice) /\ Len(wire') <= MaxWire
    <3>1. Set(k, work.push[k]) \in ToDevice
      BY <1>1 DEF Set, ToDevice, Mirrors
    <3> QED BY <1>0, <1>2, <3>1, Published DEF Repush
  <2> QED BY <1>0, <2>1, <2>2, <2>3, <2>4 DEF TypeOK, ViewType, UnderWay, ToDevice, ToWorker, WorkType
<1>3. CASE Flush
  <2>1. UNCHANGED <<mirror, rows, store, view, wire, up, wanted, issued, calm, left, legacy>>
    BY <1>3 DEF Flush
  <2>2. work' \in WorkType
    BY <1>0, <1>3, RestFacts DEF Flush, WorkType
  <2> QED BY <1>0, <2>1, <2>2 DEF TypeOK, ViewType, UnderWay, ToDevice, ToWorker, WorkType
<1>4. CASE FlushNext
  <2>1. UNCHANGED <<mirror, rows, store, view, up, wanted, issued, calm, left, legacy>>
    BY <1>4 DEF FlushNext
  <2>2. Tail(work.flush) \in Seq(Sets) /\ Head(work.flush) \in ToDevice
    BY <1>1, <1>4, Shortened, SetsAreMessages DEF FlushNext
  <2>3. work' \in WorkType
    BY <1>0, <1>4, <2>2 DEF FlushNext, WorkType
  <2>4. wire' \in Seq(ToDevice) /\ Len(wire') <= MaxWire
    BY <1>0, <1>4, <2>2, Published DEF FlushNext
  <2> QED BY <1>0, <2>1, <2>3, <2>4 DEF TypeOK, ViewType, UnderWay, ToDevice, ToWorker, WorkType
<1>5. CASE LegacySave
  <2>1. UNCHANGED <<rows, store, view, wire, up, issued, calm, left, legacy>>
    BY <1>5 DEF LegacySave
  <2>2. mirror' \in Mirrors /\ wanted' \in Mirrors /\ work' \in WorkType
    BY <1>0, <1>1, <1>5, OverFacts, RestFacts DEF LegacySave
  <2> QED BY <1>0, <2>1, <2>2 DEF TypeOK, ViewType, UnderWay, ToDevice, ToWorker, WorkType
<1>6. CASE WorkerRestarts
  <2>1. UNCHANGED <<mirror, rows, store, view, wire, wanted, issued, left, legacy>> /\ work' = AtRest /\ up' = <<>>
    BY <1>6 DEF WorkerRestarts
  <2>2. calm' \in BOOLEAN
    BY <1>0, <1>6 DEF WorkerRestarts
  <2>3. up' \in Seq(ToWorker) /\ Len(up') <= MaxUp
    BY <2>1, EmptyQueue, CalibrationAssumption DEF CalibrationAssumption
  <2> QED BY <1>0, <2>1, <2>2, <2>3, RestFacts DEF TypeOK, ViewType, UnderWay, ToDevice, ToWorker, WorkType
<1> QED BY <1>2, <1>3, <1>4, <1>5, <1>6 DEF WorkerStep

LEMMA NextTypes ==
    ASSUME TypeOK, [Next]_vars
    PROVE  TypeOK'
<1>1. CASE UNCHANGED vars
  BY <1>1 DEF TypeOK, vars
<1> QED BY <1>1, TypesBegin, TypesViews, TypesAsk, TypesDevice, TypesHandler, TypesWorker DEF Next

LEMMA InitTypes == Init => TypeOK
<1> SUFFICES ASSUME Init PROVE TypeOK
  OBVIOUS
<1>1. view \in [Admins -> ViewType] /\ work \in WorkType
  BY BlankFacts, RestFacts DEF Init
<1>2. /\ wire \in Seq(ToDevice) /\ Len(wire) = 0 /\ up \in Seq(ToWorker) /\ Len(up) = 0
      /\ rows \in Seq(Sets)
  BY EmptyQueue DEF Init
<1>3. mirror \in Mirrors /\ wanted \in Mirrors /\ issued \in Mirrors /\ store \in Stores
  BY BlankFacts DEF Init
<1> QED BY <1>1, <1>2, <1>3, CalibrationAssumption
    DEF Init, CalibrationAssumption, TypeOK, ViewType, UnderWay, ToDevice, ToWorker, WorkType

\* The mirror, the store, the rows and the queues hold what they are declared to hold.
THEOREM MirrorTypes == Spec => []TypeOK
BY InitTypes, NextTypes, PTL DEF Spec

-----------------------------------------------------------------------------
(* Every step keeps the exchanges apart, or says that they crossed.         *)

LEMMA FromMirrorFacts ==
    ASSUME mirror \in Mirrors
    PROVE  /\ FromMirror \subseteq Sets
           /\ \A k \in Keys : mirror[k] # Unset => Set(k, mirror[k]) \in FromMirror
           /\ \A c \in FromMirror : /\ c.key \in Keys /\ c.value = mirror[c.key]
                                    /\ c.value \in Values /\ c = Set(c.key, mirror[c.key])
<1>1. FromMirror \subseteq Sets
  BY DEF FromMirror
<1>2. ASSUME NEW k \in Keys, mirror[k] # Unset PROVE Set(k, mirror[k]) \in FromMirror
  BY <1>2, SetFacts DEF FromMirror, Mirrors
<1>3. ASSUME NEW c \in FromMirror
      PROVE  /\ c.key \in Keys /\ c.value = mirror[c.key]
             /\ c.value \in Values /\ c = Set(c.key, mirror[c.key])
  <2>1. c \in Sets /\ mirror[c.key] = c.value
    BY DEF FromMirror
  <2> QED BY <2>1, SetsAreSets
<1> QED BY <1>1, <1>2, <1>3

LEMMA SameMirror == mirror' = mirror => FromMirror' = FromMirror
BY DEF FromMirror

\* No report among the messages of the worker, said of each of them.
LEMMA NoReportSaid ==
    ASSUME TypeOK
    PROVE  NoReport <=> \A i \in 1 .. Len(up) : up[i].topic \notin Reports
<1>1. up \in Seq(ToWorker)
  BY TypeParts
<1>2. ASSUME NoReport PROVE \A i \in 1 .. Len(up) : up[i].topic \notin Reports
  <2>1. \A i \in 1 .. Len(up) : up[i] \in [topic : Capabilities \cup Acks, store : Stores]
    BY <1>2, ElementOfSeq DEF NoReport
  <2> QED BY <2>1 DEF Capabilities, Acks, Reports
<1>3. ASSUME \A i \in 1 .. Len(up) : up[i].topic \notin Reports PROVE NoReport
  <2>1. \A i \in 1 .. Len(up) : up[i] \in ToWorker
    BY <1>1, ElementOfSeq
  <2>2. \A i \in 1 .. Len(up) : up[i] \in [topic : Capabilities \cup Acks, store : Stores]
    BY <1>3, <2>1 DEF ToWorker
  <2>3. Len(up) \in Nat /\ up \in [1 .. Len(up) -> ToWorker]
    BY <1>1, LenProperties
  <2>4. PICK T : T = [topic : Capabilities \cup Acks, store : Stores]
    OBVIOUS
  <2>5. up \in [1 .. Len(up) -> T]
    BY <2>2, <2>3, <2>4
  <2>6. up \in Seq(T)
    BY <2>3, <2>5, SeqDef
  <2> QED BY <2>4, <2>6 DEF NoReport
<1> QED BY <1>2, <1>3

\* At rest, a settled device runs with the mirror.
LEMMA RestIsRestored ==
    ASSUME TypeOK, Resting, Settled
    PROVE  Restored /\ NothingToRestore
<1>1. /\ wire = <<>> /\ work = AtRest
      /\ store = Blank => mirror = Blank
      /\ \A i \in 1 .. Len(up) : up[i].topic # "empty"
  BY DEF Settled
<1>2. NothingToRestore
  BY <1>1 DEF NothingToRestore
<1>3. ASSUME NEW k \in Keys, mirror[k] # Unset PROVE store[k] = mirror[k]
  <2>1. Covered(k)
    BY <1>3 DEF Resting
  <2>2. work.push[k] # mirror[k]
    BY <1>1, <1>3, BlankFacts, RestFacts
  <2>3. ~\E i \in 1 .. Len(wire) : wire[i] = Set(k, mirror[k])
    BY <1>1, EmptyQueue
  <2>4. store # Blank
    BY <1>1, <1>3, BlankFacts
  <2> QED BY <2>1, <2>2, <2>3, <2>4 DEF Covered, Wiped
<1> QED BY <1>2, <1>3 DEF Restored

\* Only a device at rest is settled.
LEMMA SettledRests ==
    ASSUME IInv, calm, Settled
    PROVE  Resting /\ Restored /\ NothingToRestore
<1>0. TypeOK
  BY DEF IInv
<1>1. ~Asking
  <2>1. \A i \in 1 .. Len(up) : up[i].topic \notin Reports
    BY DEF Settled
  <2>2. wire = <<>> /\ <<RequestCalibration>> # <<>> /\ work.merge = Blank
    BY RestFacts DEF Settled
  <2>3. Answer \in Reports
    BY DEF Answer, Reports
  <2> QED BY <2>1, <2>2, <2>3 DEF Asking, Answered
<1>2. \A a \in Admins : ~Setting(a)
  <2>1. \A a \in Admins : view[a].key = Nothing
    BY BlankFacts DEF Settled
  <2> QED BY <2>1, CalibrationAssumption DEF Setting, CalibrationAssumption
<1>3. Resting
  BY <1>1, <1>2 DEF IInv, OneExchange
<1> QED BY <1>0, <1>3, RestIsRestored

\* Who sets a value is the only one.
LEMMA OneSetter ==
    ASSUME IInv, calm, NEW a \in Admins, view[a].step # "idle"
    PROVE  Setting(a)
<1>1. view[a] # Idle
  BY BlankFacts
<1>2. ~Resting /\ ~Asking
  BY <1>1 DEF Resting, Asking, AllIdle
<1>3. PICK b \in Admins : Setting(b)
  BY <1>2 DEF IInv, OneExchange
<1>4. a = b
  BY <1>1, <1>3 DEF Setting
<1> QED BY <1>3, <1>4

LEMMA ExchangeBegins ==
    ASSUME IInv, NEW a \in Admins, NEW k \in Keys, NEW v \in Values, SetBegin(a, k, v)
    PROVE  OneExchange'
<1> SUFFICES ASSUME calm' PROVE Setting(a)'
  BY DEF OneExchange
<1>0. view \in [Admins -> ViewType]
  BY TypeParts DEF IInv
<1>1. /\ calm /\ Settled /\ UNCHANGED <<mirror, rows, store, wire, up, work, wanted, legacy>>
      /\ view' = [view EXCEPT ![a] = [step |-> "read", key |-> k, value |-> v, read |-> mirror]]
  BY DEF SetBegin
<1>2. Resting /\ Restored /\ NothingToRestore
  BY <1>1, SettledRests
<1>3. /\ \A b \in Admins \ {a} : view'[b] = Idle
      /\ view'[a].key = k /\ view'[a].value = v /\ view'[a].read = mirror
      /\ view'[a].step = "read"
  BY <1>0, <1>1 DEF Settled
<1>4. (NoReport /\ NothingToRestore /\ Restored)'
  BY <1>1, <1>2 DEF NoReport, NothingToRestore, Restored, Resting
<1>5. /\ mirror' = wanted' /\ work'.push = Blank /\ work'.merge = Blank
      /\ wire' = <<>> /\ rows' = <<>> /\ work'.flush = <<>>
  BY <1>1, <1>2, RestFacts DEF Resting, Settled
<1> QED BY <1>1, <1>3, <1>4, <1>5 DEF Setting

LEMMA ExchangePublished ==
    ASSUME IInv, NEW a \in Admins, SetPublish(a)
    PROVE  OneExchange'
<1> SUFFICES ASSUME calm' PROVE (Resting \/ Setting(a))'
  BY DEF OneExchange
<1>0. TypeOK /\ view \in [Admins -> ViewType]
  BY TypeParts DEF IInv
<1>1. /\ view[a].step = "read" /\ calm /\ UNCHANGED <<mirror, rows, store, up, work, wanted, legacy>>
      /\ \/ wire' = wire /\ view' = [view EXCEPT ![a] = Idle]
         \/ /\ wire' = Append(wire, Set(view[a].key, view[a].value))
            /\ view' = [view EXCEPT ![a].step = "published"]
  BY DEF SetPublish, Publish
<1>2. Setting(a)
  BY <1>1, OneSetter
<1>3. wire = <<>> /\ rows = <<>> /\ work.flush = <<>> /\ Restored
  BY <1>1, <1>2 DEF Setting
<1>4. CASE wire' = wire /\ view' = [view EXCEPT ![a] = Idle]
  <2>1. AllIdle'
    BY <1>0, <1>2, <1>4 DEF AllIdle, Setting
  <2>2. /\ NoReport' /\ mirror' = wanted' /\ work'.push = Blank /\ work'.merge = Blank
        /\ wire' = <<>> /\ rows' = <<>> /\ work'.flush = <<>>
    BY <1>1, <1>2, <1>3, <1>4 DEF Setting, NoReport
  <2>3. \A k \in Keys : work'.push[k] = Unset
    BY <2>2, BlankFacts
  <2>4. \A k \in Keys : mirror'[k] # Unset => Covered(k)'
    BY <1>1, <1>3 DEF Restored, Covered
  <2> QED BY <2>1, <2>2, <2>3, <2>4, EmptyQueue DEF Resting
<1>5. CASE /\ wire' = Append(wire, Set(view[a].key, view[a].value))
           /\ view' = [view EXCEPT ![a].step = "published"]
  <2>1. /\ \A b \in Admins \ {a} : view'[b] = view[b]
        /\ view'[a].key = view[a].key /\ view'[a].value = view[a].value
        /\ view'[a].read = view[a].read /\ view'[a].step = "published"
    BY <1>0, <1>5 DEF ViewType, UnderWay
  <2>2. PICK c : c = Set(view[a].key, view[a].value)
    OBVIOUS
  <2>3. wire' \in Seq({c}) /\ wire' # <<>> /\ rows' \in Seq({c}) /\ work'.flush \in Seq({c})
    BY <1>1, <1>3, <1>5, <2>2, EmptyQueue, Appended
  <2>4. (NoReport /\ NothingToRestore)'
    BY <1>1, <1>2 DEF NoReport, NothingToRestore, Setting
  <2>5. \A k \in Keys : mirror'[k] # Unset => store'[k] = mirror'[k]
    BY <1>1, <1>3 DEF Restored
  <2>6. c = Set(view'[a].key, view'[a].value)
    BY <2>1, <2>2
  <2> QED BY <1>1, <1>2, <2>1, <2>3, <2>4, <2>5, <2>6 DEF Setting
<1> QED BY <1>1, <1>4, <1>5

LEMMA ExchangeLogged ==
    ASSUME IInv, NEW a \in Admins, SetLog(a)
    PROVE  OneExchange'
<1> SUFFICES ASSUME calm' PROVE Setting(a)'
  BY DEF OneExchange
<1>0. TypeOK /\ view \in [Admins -> ViewType]
  BY TypeParts DEF IInv
<1>1. /\ view[a].step = "published" /\ calm /\ UNCHANGED <<mirror, store, wire, up, work, wanted, legacy>>
      /\ rows' = Append(rows, Set(view[a].key, view[a].value))
      /\ view' = [view EXCEPT ![a].step = "logged"]
  BY DEF SetLog
<1>2. Setting(a)
  BY <1>1, OneSetter
<1>3. PICK c : c = Set(view[a].key, view[a].value)
  OBVIOUS
<1>4. /\ \A b \in Admins \ {a} : view'[b] = view[b]
      /\ view'[a].key = view[a].key /\ view'[a].value = view[a].value
      /\ view'[a].read = view[a].read /\ view'[a].step = "logged"
  BY <1>0, <1>1 DEF ViewType, UnderWay
<1>5. rows' \in Seq({c}) /\ wire' \in Seq({c}) /\ work'.flush \in Seq({c})
  <2>1. rows \in Seq({c}) /\ wire \in Seq({c}) /\ work.flush \in Seq({c})
    BY <1>1, <1>2, <1>3 DEF Setting
  <2> QED BY <1>1, <1>3, <2>1, Appended
<1>6. (NoReport /\ NothingToRestore)'
  BY <1>1, <1>2 DEF NoReport, NothingToRestore, Setting
<1>7. c = Set(view'[a].key, view'[a].value)
  BY <1>3, <1>4
<1> QED BY <1>1, <1>2, <1>4, <1>5, <1>6, <1>7 DEF Setting

LEMMA ExchangeSaved ==
    ASSUME IInv, NEW a \in Admins, SetSave(a)
    PROVE  OneExchange'
<1> SUFFICES ASSUME calm' PROVE Resting'
  BY DEF OneExchange
<1>0. /\ TypeOK /\ view \in [Admins -> ViewType] /\ wire \in Seq(ToDevice)
      /\ mirror \in Mirrors /\ wanted \in Mirrors
  BY TypeParts DEF IInv
<1>1. PICK k, v : k = view[a].key /\ v = view[a].value
  OBVIOUS
<1>2. /\ view[a].step = "logged" /\ calm /\ UNCHANGED <<rows, store, wire, up, work, legacy>>
      /\ mirror' = [view[a].read EXCEPT ![k] = v]
      /\ wanted' = [wanted EXCEPT ![k] = v]
      /\ view' = [view EXCEPT ![a] = Idle]
  BY <1>1 DEF SetSave
<1>3. Setting(a)
  BY <1>2, OneSetter
<1>4. /\ k \in Keys /\ v \in Values /\ view[a].read = mirror /\ mirror = wanted
      /\ work.push = Blank /\ work.merge = Blank /\ v # Unset
  BY <1>1, <1>3, CalibrationAssumption DEF Setting, CalibrationAssumption
<1>5. /\ mirror' = wanted' /\ mirror'[k] = v /\ mirror' \in Mirrors
      /\ \A j \in Keys \ {k} : mirror'[j] = mirror[j]
  BY <1>0, <1>2, <1>4 DEF Mirrors
<1>6. PICK c : c = Set(k, v)
  OBVIOUS
<1>7. /\ wire \in Seq({c}) /\ rows \in Seq({c}) /\ work.flush \in Seq({c})
      /\ wire = <<>> => store[k] = v
      /\ \A j \in Keys \ {k} : mirror[j] # Unset => store[j] = mirror[j]
  BY <1>1, <1>2, <1>3, <1>6 DEF Setting
<1>8. c \in FromMirror'
  BY <1>4, <1>5, <1>6, SetFacts DEF FromMirror
<1>9. wire' \in Seq(FromMirror') /\ rows' \in Seq(FromMirror') /\ work'.flush \in Seq(FromMirror')
  <2>1. {c} \subseteq FromMirror'
    BY <1>8
  <2> QED BY <1>2, <1>7, <2>1, SeqMonotonic
<1>10. AllIdle' /\ NoReport'
  BY <1>0, <1>2, <1>3 DEF AllIdle, NoReport, Setting
<1>11. \A j \in Keys : work'.push[j] \in {Unset, mirror'[j]}
  BY <1>2, <1>4, BlankFacts
<1>12. ASSUME NEW j \in Keys, mirror'[j] # Unset PROVE Covered(j)'
  <2>1. CASE j = k
    <3>1. store[k] = v \/ \E i \in 1 .. Len(wire) : wire[i] = c
      <4>1. CASE wire # <<>>
        <5>1. 1 \in 1 .. Len(wire) /\ wire[1] = c
          BY <1>7, <4>1, Shortened
        <5> QED BY <5>1
      <4> QED BY <1>7, <4>1
    <3> QED BY <1>2, <1>5, <1>6, <2>1, <3>1 DEF Covered
  <2>2. CASE j # k
    BY <1>2, <1>5, <1>7, <1>12, <2>2 DEF Covered
  <2> QED BY <2>1, <2>2
<1> QED BY <1>2, <1>4, <1>5, <1>9, <1>10, <1>11, <1>12 DEF Resting

LEMMA ExchangeAsked ==
    ASSUME IInv, Ask
    PROVE  OneExchange'
<1> SUFFICES ASSUME calm' PROVE Asking'
  BY DEF OneExchange
<1>0. TypeOK
  BY DEF IInv
<1>1. Settled /\ (legacy = {} \/ calm) /\ UNCHANGED <<mirror, rows, store, view, up, work, wanted, legacy>>
  BY DEF Ask
<1>2. wire' = <<RequestCalibration>>
  BY <1>1 DEF Ask, Publish, Settled
<1>3. AllIdle' /\ NothingToRestore' /\ rows' = <<>>
  BY <1>1 DEF Settled, AllIdle, NothingToRestore
<1>4. work'.push = Blank /\ work'.merge = Blank /\ work'.flush = <<>>
  BY <1>1, RestFacts DEF Settled
<1>5. NoReport'
  <2>1. NoReport
    BY <1>0, <1>1, NoReportSaid DEF Settled
  <2> QED BY <1>1, <2>1 DEF NoReport
<1>6. (legacy # {} => mirror = wanted /\ Restored)'
  <2>1. legacy # {} => mirror = wanted /\ Restored
    BY <1>1, SettledRests DEF Resting
  <2> QED BY <1>1, <2>1 DEF Restored
<1> QED BY <1>2, <1>3, <1>4, <1>5, <1>6 DEF Asking

LEMMA ExchangeWiped ==
    ASSUME IInv, Wipe
    PROVE  OneExchange'
<1> SUFFICES ASSUME calm' PROVE Resting'
  BY DEF OneExchange
<1>1. /\ calm /\ Settled /\ UNCHANGED <<mirror, rows, view, wire, up, work, wanted, legacy>>
      /\ store' = Blank
  BY DEF Wipe
<1>2. Resting /\ wire = <<>> /\ work = AtRest /\ rows = <<>>
  BY <1>1, SettledRests DEF Settled
<1>3. \A k \in Keys : Covered(k)'
  BY <1>1, <1>2 DEF Covered, Wiped
<1> QED BY <1>1, <1>2, <1>3, SameMirror DEF Resting, AllIdle, NoReport

-----------------------------------------------------------------------------
(* The device, and what it sends.                                           *)

\* A message other than a report goes to the worker; "empty" only from a device
\* that is.
LEMMA Told ==
    ASSUME TypeOK, NEW topic \in Capabilities \cup Acks, Send(topic)
    PROVE  /\ NoReport => NoReport'
           /\ \A i \in 1 .. Len(up) : i \in 1 .. Len(up') /\ up'[i] = up[i]
           /\ \A i \in 1 .. Len(up') : i \notin 1 .. Len(up) => up'[i].topic = topic
<1>1. up \in Seq(ToWorker)
  BY TypeParts
<1>2. PICK m : m = [topic |-> topic, store |-> IF topic \in Reports THEN store ELSE Blank]
  OBVIOUS
<1>3. m \in [topic : Capabilities \cup Acks, store : Stores] /\ m \in ToWorker /\ m.topic = topic
  BY <1>2, TypeParts, BlankFacts DEF ToWorker
<1>4. up' = Append(up, m)
  BY <1>2 DEF Send
<1>5. NoReport => NoReport'
  <2> SUFFICES ASSUME NoReport PROVE NoReport'
    OBVIOUS
  <2>1. PICK T : T = [topic : Capabilities \cup Acks, store : Stores]
    OBVIOUS
  <2>2. up \in Seq(T) /\ m \in T
    BY <1>3, <2>1 DEF NoReport
  <2>3. up' \in Seq(T)
    BY <1>4, <2>2, Appended
  <2> QED BY <2>1, <2>3 DEF NoReport
<1>6. /\ Len(up) \in Nat /\ up'[Len(up) + 1] = m
      /\ \A i \in 1 .. Len(up) : up'[i] = up[i]
      /\ 1 .. Len(up') = 1 .. Len(up) \cup {Len(up) + 1}
  BY <1>1, <1>3, <1>4, Appended
<1>7. /\ \A i \in 1 .. Len(up) : i \in 1 .. Len(up') /\ up'[i] = up[i]
      /\ \A i \in 1 .. Len(up') : i \notin 1 .. Len(up) => up'[i].topic = topic
  BY <1>3, <1>6
<1> QED BY <1>5, <1>7

\* The answer that is on its way stays the only one.
LEMMA StillAnswered ==
    ASSUME TypeOK, NEW topic \in Capabilities \cup Acks, Send(topic), UNCHANGED <<store, legacy>>,
           NEW i \in 1 .. Len(up), Answered(i)
    PROVE  i \in 1 .. Len(up') /\ Answered(i)'
<1>1. topic \notin Reports
  BY DEF Capabilities, Acks, Reports
<1>2. i \in 1 .. Len(up') /\ up'[i] = up[i]
  BY Told
<1>3. ASSUME NEW j \in 1 .. Len(up') \ {i} PROVE up'[j].topic \notin Reports
  <2>1. CASE j \in 1 .. Len(up)
    <3>1. up'[j] = up[j] /\ up[j].topic \notin Reports
      BY <2>1, Told DEF Answered
    <3> QED BY <3>1
  <2>2. CASE j \notin 1 .. Len(up)
    <3>1. up'[j].topic = topic
      BY <2>2, Told
    <3> QED BY <1>1, <3>1
  <2> QED BY <2>1, <2>2
<1> QED BY <1>2, <1>3 DEF Answered, Answer

LEMMA ExchangeReported ==
    ASSUME IInv, PublishCapabilities
    PROVE  OneExchange'
<1> SUFFICES ASSUME calm' PROVE (Resting \/ Asking \/ \E a \in Admins : Setting(a))'
  BY DEF OneExchange
<1>0. TypeOK
  BY DEF IInv
<1>1. PICK topic \in Capabilities \cup Acks :
         topic = IF store = Blank THEN "empty" ELSE "capabilities"
  BY DEF Capabilities
<1>2. calm /\ Send(topic) /\ UNCHANGED <<mirror, rows, store, view, wire, work, wanted, legacy>>
  BY <1>1 DEF PublishCapabilities
<1>3. NoReport => NoReport'
  BY <1>0, <1>2, Told
<1>4. NothingToRestore => NothingToRestore'
  <2>1. ASSUME NothingToRestore, NEW i \in 1 .. Len(up'), up'[i].topic = "empty" PROVE mirror = Blank
    <3>1. CASE i \in 1 .. Len(up)
      <4>1. up'[i] = up[i]
        BY <1>0, <1>2, <3>1, Told
      <4> QED BY <2>1, <3>1, <4>1 DEF NothingToRestore
    <3>2. CASE i \notin 1 .. Len(up)
      <4>1. up'[i].topic = topic
        BY <1>0, <1>2, <3>2, Told
      <4> QED BY <1>1, <2>1, <4>1 DEF NothingToRestore
    <3> QED BY <3>1, <3>2
  <2> QED BY <1>2, <2>1 DEF NothingToRestore
<1>5. CASE Resting
  <2>1. \A k \in Keys : Covered(k) => Covered(k)'
    BY <1>2 DEF Covered, Wiped
  <2> QED BY <1>2, <1>3, <1>5, <2>1, SameMirror DEF Resting, AllIdle
<1>6. CASE Asking
  <2>1. \A i \in 1 .. Len(up) : Answered(i) => i \in 1 .. Len(up') /\ Answered(i)'
    BY <1>0, <1>2, StillAnswered
  <2> QED BY <1>2, <1>3, <1>4, <1>6, <2>1 DEF Asking, AllIdle, Restored
<1>7. ASSUME NEW a \in Admins, Setting(a) PROVE Setting(a)'
  BY <1>2, <1>3, <1>4, <1>7 DEF Setting, Restored
<1> QED BY <1>2, <1>5, <1>6, <1>7 DEF IInv, OneExchange

\* The device answers the request.
LEMMA ExchangeAnswered ==
    ASSUME IInv, Report
    PROVE  OneExchange'
<1> SUFFICES ASSUME calm' PROVE Asking'
  BY DEF OneExchange
<1>0. TypeOK /\ mirror \in Mirrors /\ up \in Seq(ToWorker) /\ store \in Stores
  BY TypeParts DEF IInv
<1>1. /\ wire # <<>> /\ Head(wire) = RequestCalibration /\ wire' = Tail(wire)
      /\ calm /\ UNCHANGED <<mirror, rows, store, view, work, wanted, legacy>> /\ Send(Answer)
  BY DEF Report, Answer
<1>2. ~Resting
  <2>1. ASSUME wire \in Seq(FromMirror) PROVE FALSE
    <3>1. Head(wire) \in FromMirror
      BY <1>1, <2>1, Shortened
    <3>2. Head(wire).key \in Keys
      BY <1>0, <3>1, FromMirrorFacts
    <3> QED BY <1>1, <3>2, CalibrationAssumption DEF RequestCalibration, CalibrationAssumption
  <2> QED BY <2>1 DEF Resting
<1>3. ASSUME NEW a \in Admins, Setting(a) PROVE FALSE
  <2>1. PICK c : c = Set(view[a].key, view[a].value)
    OBVIOUS
  <2>2. c # RequestCalibration
    BY <1>3, <2>1, SetFacts DEF Setting
  <2>3. wire \in Seq({c})
    BY <1>1, <1>3, <2>1 DEF Setting
  <2>4. Head(wire) = c
    BY <1>1, <2>3, Shortened
  <2> QED BY <1>1, <2>2, <2>4
<1>4. Asking
  BY <1>1, <1>2, <1>3 DEF IInv, OneExchange
<1>5. wire = <<RequestCalibration>> /\ NoReport /\ work.merge = Blank
  BY <1>1, <1>4 DEF Asking
<1>6. wire' = <<>>
  BY <1>1, <1>5
<1>7. PICK m : m = [topic |-> Answer, store |-> store]
  OBVIOUS
<1>8. m \in ToWorker /\ up' = Append(up, m) /\ m.topic = Answer /\ m.store = store /\ Answer # "empty"
  BY <1>0, <1>1, <1>7 DEF Send, Answer, Reports, ToWorker
<1>9. /\ Len(up) \in Nat /\ up'[Len(up) + 1] = m
      /\ \A i \in 1 .. Len(up) : up'[i] = up[i]
      /\ 1 .. Len(up') = 1 .. Len(up) \cup {Len(up) + 1}
  BY <1>0, <1>8, Appended
<1>10. \A i \in 1 .. Len(up) : up[i].topic \notin Reports
  BY <1>0, <1>5, NoReportSaid
<1>11. PICK i : i = Len(up) + 1
  OBVIOUS
<1>12. i \in 1 .. Len(up') /\ up'[i] = m /\ \A j \in 1 .. Len(up') \ {i} : up'[j].topic \notin Reports
  <2>1. ASSUME NEW j \in 1 .. Len(up') \ {i} PROVE up'[j].topic \notin Reports
    BY <1>9, <1>10, <1>11, <2>1
  <2> QED BY <1>9, <1>11, <2>1
<1>13. Answered(i)'
  BY <1>1, <1>8, <1>12 DEF Answered, Answer
<1>14. (legacy # {} => mirror = wanted /\ Restored)'
  BY <1>1, <1>4 DEF Asking, Restored
<1>15. NothingToRestore'
  BY <1>1, <1>4, <1>8, <1>9 DEF Asking, NothingToRestore
<1>16. AllIdle' /\ rows' = <<>> /\ work'.flush = <<>> /\ work'.push = Blank /\ work'.merge = Blank
  BY <1>1, <1>4, <1>5 DEF Asking, AllIdle
<1> QED BY <1>6, <1>12, <1>13, <1>14, <1>15, <1>16 DEF Asking

\* The device applies the next set queued for it.
LEMMA ExchangeExecuted ==
    ASSUME IInv, Execute
    PROVE  OneExchange'
<1> SUFFICES ASSUME calm' PROVE (Resting \/ \E a \in Admins : Setting(a))'
  BY DEF OneExchange
<1>0. /\ TypeOK /\ mirror \in Mirrors /\ up \in Seq(ToWorker) /\ store \in Stores
      /\ wire \in Seq(ToDevice)
  BY TypeParts DEF IInv
<1>1. PICK c : c = Head(wire)
  OBVIOUS
<1>2. /\ wire # <<>> /\ c # RequestCalibration /\ wire' = Tail(wire)
      /\ calm /\ UNCHANGED <<mirror, rows, view, work, wanted, legacy>>
      /\ store' = [store EXCEPT ![c.key] = c.value]
      /\ Send(Action(c.key)) \/ UNCHANGED up
  BY <1>1 DEF Execute
<1>3. Action(c.key) \in Capabilities \cup Acks /\ Action(c.key) # "empty"
  BY DEF Action, Acks
<1>4. NoReport => NoReport'
  BY <1>0, <1>2, <1>3, Told DEF NoReport
<1>5. \A i \in 1 .. Len(up') : up'[i].topic = "empty" => i \in 1 .. Len(up) /\ up[i].topic = "empty"
  <2>1. CASE up' = up
    BY <2>1
  <2>2. CASE Send(Action(c.key))
    BY <1>0, <1>3, <2>2, Told
  <2> QED BY <1>2, <2>1, <2>2
<1>6. ~Asking
  BY <1>1, <1>2 DEF Asking
<1>7. CASE Resting
  <2>1. wire \in Seq(FromMirror)
    BY <1>7 DEF Resting
  <2>2. wire' \in Seq(FromMirror) /\ c \in FromMirror /\ c = wire[1]
    BY <1>1, <1>2, <2>1, Shortened
  <2>3. c.key \in Keys /\ c.value = mirror[c.key] /\ c.value # Unset /\ c = Set(c.key, mirror[c.key])
    BY <1>0, <2>2, FromMirrorFacts, CalibrationAssumption DEF CalibrationAssumption
  <2>4. ASSUME NEW k \in Keys, mirror[k] # Unset PROVE Covered(k)'
    <3>1. CASE k = c.key
      <4>1. store'[k] = mirror'[k]
        BY <1>0, <1>2, <2>3, <3>1 DEF Stores
      <4> QED BY <4>1 DEF Covered
    <3>2. CASE k # c.key
      <4>1. store'[k] = store[k]
        BY <1>0, <1>2, <3>2 DEF Stores
      <4>2. Covered(k)
        BY <1>7, <2>4 DEF Resting
      <4>3. ~Wiped
        BY <1>2 DEF Wiped
      <4>4. ASSUME NEW i \in 1 .. Len(wire), wire[i] = Set(k, mirror[k])
            PROVE  \E j \in 1 .. Len(wire') : wire'[j] = Set(k, mirror'[k])
        <5>1. i # 1
          BY <2>2, <2>3, <3>2, <4>4 DEF Set
        <5>2. i - 1 \in 1 .. Len(wire') /\ wire'[i - 1] = wire[i]
          BY <1>0, <1>2, <5>1, Shortened
        <5> QED BY <1>2, <4>4, <5>2
      <4> QED BY <1>2, <4>1, <4>2, <4>3, <4>4 DEF Covered
    <3> QED BY <3>1, <3>2
  <2> QED BY <1>2, <1>4, <1>7, <2>2, <2>4, SameMirror DEF Resting, AllIdle
<1>8. ASSUME NEW a \in Admins, Setting(a) PROVE Setting(a)'
  <2>1. PICK d : d = Set(view[a].key, view[a].value)
    OBVIOUS
  <2>2. view[a].step \in {"published", "logged"} /\ wire \in Seq({d})
    BY <1>2, <1>8, <2>1 DEF Setting
  <2>3. c = d /\ wire' \in Seq({d})
    BY <1>1, <1>2, <2>2, Shortened
  <2>4. view[a].key \in Keys /\ view[a].value \in Values /\ view[a].value # Unset
    BY <1>8, CalibrationAssumption DEF Setting, CalibrationAssumption
  <2>5. c.key = view[a].key /\ c.value = view[a].value
    BY <2>1, <2>3, <2>4, SetFacts
  <2>6. /\ store'[view[a].key] = view[a].value /\ store' # Blank
        /\ \A k \in Keys \ {view[a].key} : store'[k] = store[k]
    BY <1>0, <1>2, <2>4, <2>5, BlankFacts DEF Stores
  <2>7. NothingToRestore'
    BY <1>2, <1>5, <1>8, <2>6 DEF Setting, NothingToRestore
  <2>8. rows' \in Seq({d}) /\ work'.flush \in Seq({d}) /\ d = Set(view'[a].key, view'[a].value)
    BY <1>2, <1>8, <2>1, <2>2 DEF Setting
  <2>9. /\ \A b \in Admins \ {a} : view'[b] = Idle
        /\ view'[a].key \in Keys /\ view'[a].value \in Values /\ view'[a].read = mirror'
        /\ NoReport' /\ mirror' = wanted' /\ work'.push = Blank /\ work'.merge = Blank
        /\ view'[a].step \in {"published", "logged"}
        /\ store'[view'[a].key] = view'[a].value
    BY <1>2, <1>4, <1>8, <2>2, <2>6 DEF Setting
  <2>10. \A k \in Keys \ {view'[a].key} : mirror'[k] # Unset => store'[k] = mirror'[k]
    BY <1>2, <1>8, <2>2, <2>6 DEF Setting
  <2> QED BY <2>3, <2>7, <2>8, <2>9, <2>10 DEF Setting
<1> QED BY <1>2, <1>6, <1>7, <1>8 DEF IInv, OneExchange

-----------------------------------------------------------------------------
(* The worker.                                                              *)

\* A message that is no report is taken.
LEMMA OthersKept ==
    ASSUME TypeOK, up # <<>>, up' = Tail(up)
    PROVE  /\ NoReport => NoReport' /\ Head(up).topic \notin Reports
           /\ NothingToRestore /\ UNCHANGED <<mirror, store>> =>
                 NothingToRestore' /\ (Head(up).topic = "empty" => mirror = Blank)
           /\ \A i \in 1 .. Len(up) :
                 Answered(i) /\ i # 1 /\ UNCHANGED <<store, legacy>> =>
                    i - 1 \in 1 .. Len(up') /\ Answered(i - 1)' /\ Head(up).topic \notin Reports
           /\ Answered(1) => NoReport'
<1>0. up \in Seq(ToWorker)
  BY TypeParts
<1>1. /\ up' \in Seq(ToWorker) /\ Head(up) = up[1] /\ 1 \in 1 .. Len(up)
      /\ Len(up) \in Nat \ {0} /\ Len(up') = Len(up) - 1
      /\ \A i \in 1 .. Len(up') : i + 1 \in 1 .. Len(up) /\ up'[i] = up[i + 1]
      /\ \A i \in 1 .. Len(up) :
            i # 1 => i - 1 \in 1 .. Len(up') /\ up'[i - 1] = up[i]
  BY <1>0, Shortened
<1>2. ASSUME NoReport PROVE NoReport' /\ Head(up).topic \notin Reports
  <2>1. PICK T : T = [topic : Capabilities \cup Acks, store : Stores]
    OBVIOUS
  <2>2. up \in Seq(T)
    BY <1>2, <2>1 DEF NoReport
  <2>3. up' \in Seq(T)
    BY <2>2, Shortened
  <2>4. Head(up).topic \notin Reports
    BY <1>1, <1>2, NoReportSaid
  <2> QED BY <2>1, <2>3, <2>4 DEF NoReport
<1>3. ASSUME NothingToRestore, UNCHANGED <<mirror, store>>
      PROVE  NothingToRestore' /\ (Head(up).topic = "empty" => mirror = Blank)
  BY <1>1, <1>3 DEF NothingToRestore
<1>4. ASSUME NEW i \in 1 .. Len(up), Answered(i), i # 1, UNCHANGED <<store, legacy>>
      PROVE  i - 1 \in 1 .. Len(up') /\ Answered(i - 1)' /\ Head(up).topic \notin Reports
  <2>1. PICK h : h = i - 1
    OBVIOUS
  <2>2. h \in 1 .. Len(up') /\ up'[h] = up[i]
    BY <1>1, <1>4, <2>1
  <2>3. ASSUME NEW j \in 1 .. Len(up') \ {h} PROVE up'[j].topic \notin Reports
    <3>1. j + 1 \in 1 .. Len(up) \ {i} /\ up'[j] = up[j + 1]
      BY <1>1, <2>1, <2>3
    <3>2. PICK e \in 1 .. Len(up) \ {i} : up'[j] = up[e]
      BY <3>1
    <3> QED BY <1>4, <3>2 DEF Answered
  <2>4. Answered(h)'
    BY <1>4, <2>2, <2>3 DEF Answered, Answer
  <2>5. Head(up).topic \notin Reports
    BY <1>1, <1>4 DEF Answered
  <2> QED BY <2>1, <2>2, <2>4, <2>5
<1>5. ASSUME Answered(1) PROVE NoReport'
  <2>1. ASSUME NEW j \in 1 .. Len(up') PROVE up'[j].topic \notin Reports
    <3>1. j + 1 \in 1 .. Len(up) \ {1} /\ up'[j] = up[j + 1]
      BY <1>1, <2>1
    <3>2. PICK e \in 1 .. Len(up) \ {1} : up'[j] = up[e]
      BY <3>1
    <3> QED BY <1>5, <3>2 DEF Answered
  <2>2. \A i \in 1 .. Len(up') : up'[i] \in [topic : Capabilities \cup Acks, store : Stores]
    <3>1. \A i \in 1 .. Len(up') : up'[i] \in ToWorker
      BY <1>1, ElementOfSeq
    <3> QED BY <2>1, <3>1 DEF ToWorker
  <2>3. PICK T : T = [topic : Capabilities \cup Acks, store : Stores]
    OBVIOUS
  <2>4. Len(up') \in Nat /\ up' \in [1 .. Len(up') -> T]
    BY <1>1, <2>2, <2>3, LenProperties
  <2>5. up' \in Seq(T)
    BY <2>4, SeqDef
  <2> QED BY <2>3, <2>5 DEF NoReport
<1> QED BY <1>2, <1>3, <1>4, <1>5

LEMMA ExchangeCapabilities ==
    ASSUME IInv, HandleCapabilities
    PROVE  OneExchange'
<1> SUFFICES ASSUME calm' PROVE (Resting \/ Asking \/ \E a \in Admins : Setting(a))'
  BY DEF OneExchange
<1>0. TypeOK /\ mirror \in Mirrors
  BY TypeParts DEF IInv
<1>1. /\ up # <<>> /\ up' = Tail(up) /\ work = AtRest /\ calm
      /\ UNCHANGED <<mirror, rows, store, view, wire, wanted, legacy>>
      /\ work' = [AtRest EXCEPT !.push = IF Head(up).topic = "empty" THEN mirror ELSE Blank]
  BY DEF HandleCapabilities, Taken
<1>2. PICK p : p = IF Head(up).topic = "empty" THEN mirror ELSE Blank
  OBVIOUS
<1>3. /\ work'.push = p /\ work'.flush = <<>> /\ work'.merge = Blank
      /\ work.push = Blank /\ work.flush = <<>> /\ work.merge = Blank
      /\ p = Blank => work' = AtRest
  BY <1>1, <1>2, RestFacts DEF AtRest
<1>4. CASE Resting
  <2>1. NoReport'
    BY <1>0, <1>1, <1>4, OthersKept DEF Resting
  <2>2. ASSUME NEW k \in Keys, mirror[k] # Unset PROVE Covered(k)'
    <3>1. Covered(k)
      BY <1>4, <2>2 DEF Resting
    <3>2. work.push[k] # mirror[k]
      BY <1>3, <2>2, BlankFacts
    <3>3. Wiped => Wiped' \/ p[k] = mirror[k]
      BY <1>1, <1>2, <1>3 DEF Wiped
    <3> QED BY <1>1, <1>3, <3>1, <3>2, <3>3 DEF Covered
  <2>3. \A k \in Keys : work'.push[k] \in {Unset, mirror'[k]}
    BY <1>1, <1>2, <1>3, BlankFacts
  <2> QED BY <1>1, <1>3, <1>4, <2>1, <2>2, <2>3, SameMirror, EmptyQueue DEF Resting, AllIdle
<1>5. NothingToRestore => p = Blank /\ NothingToRestore'
  BY <1>0, <1>1, <1>2, OthersKept
<1>6. CASE Asking
  <2>1. NothingToRestore' /\ work' = work
    BY <1>1, <1>3, <1>5, <1>6 DEF Asking
  <2>2. NoReport => NoReport'
    BY <1>0, <1>1, OthersKept
  <2>3. ASSUME NEW i \in 1 .. Len(up), Answered(i) PROVE \E j \in 1 .. Len(up') : Answered(j)'
    <3>1. i # 1
      <4>1. Head(up).topic \in Capabilities
        BY DEF HandleCapabilities, Taken
      <4>2. up \in Seq(ToWorker)
        BY <1>0, TypeParts
      <4>3. Head(up) = up[1]
        BY <1>1, <4>2, Shortened
      <4> QED BY <2>3, <4>1, <4>3 DEF Answered, Answer, Capabilities
    <3>2. i - 1 \in 1 .. Len(up') /\ Answered(i - 1)'
      BY <1>0, <1>1, <2>3, <3>1, OthersKept
    <3> QED BY <3>2
  <2> QED BY <1>1, <1>6, <2>1, <2>2, <2>3 DEF Asking, AllIdle, Restored
<1>7. ASSUME NEW a \in Admins, Setting(a) PROVE Setting(a)'
  <2>1. NothingToRestore' /\ work' = work
    BY <1>1, <1>3, <1>5, <1>7 DEF Setting
  <2>2. NoReport'
    BY <1>0, <1>1, <1>7, OthersKept DEF Setting
  <2> QED BY <1>1, <1>7, <2>1, <2>2 DEF Setting, Restored
<1> QED BY <1>1, <1>4, <1>6, <1>7 DEF IInv, OneExchange

LEMMA ExchangeAcked ==
    ASSUME IInv, HandleAck
    PROVE  OneExchange'
<1> SUFFICES ASSUME calm' PROVE (Resting \/ Asking \/ \E a \in Admins : Setting(a))'
  BY DEF OneExchange
<1>0. TypeOK /\ rows \in Seq(Sets)
  BY TypeParts DEF IInv
<1>1. /\ up # <<>> /\ up' = Tail(up) /\ work = AtRest /\ calm
      /\ UNCHANGED <<mirror, store, view, wire, work, wanted, legacy>>
      /\ rows' = rows \/ \E i \in 1 .. Len(rows) : rows' = Without(rows, i)
  BY DEF HandleAck, Taken
<1>2. rows = <<>> => rows' = <<>>
  <2>1. rows = <<>> => 1 .. Len(rows) = {}
    BY EmptyQueue
  <2> QED BY <1>1, <2>1
<1>3. ASSUME NEW S, rows \in Seq(S) PROVE rows' \in Seq(S)
  BY <1>1, <1>3, TakenOut
<1>4. NoReport => NoReport'
  BY <1>0, <1>1, OthersKept
<1>5. NothingToRestore => NothingToRestore'
  BY <1>0, <1>1, OthersKept
<1>6. CASE Resting
  <2>1. \A k \in Keys : Covered(k) => Covered(k)'
    BY <1>1, <1>2 DEF Covered, Wiped
  <2>2. rows' \in Seq(FromMirror)
    BY <1>3, <1>6 DEF Resting
  <2> QED BY <1>1, <1>4, <1>6, <2>1, <2>2, SameMirror DEF Resting, AllIdle
<1>7. CASE Asking
  <2>1. ASSUME NEW i \in 1 .. Len(up), Answered(i) PROVE \E j \in 1 .. Len(up') : Answered(j)'
    <3>1. i # 1
      <4>1. Head(up).topic \in Acks
        BY DEF HandleAck, Taken
      <4>2. up \in Seq(ToWorker)
        BY <1>0, TypeParts
      <4>3. Head(up) = up[1]
        BY <1>1, <4>2, Shortened
      <4> QED BY <2>1, <4>1, <4>3 DEF Answered, Answer, Acks
    <3>2. i - 1 \in 1 .. Len(up') /\ Answered(i - 1)'
      BY <1>0, <1>1, <2>1, <3>1, OthersKept
    <3> QED BY <3>2
  <2> QED BY <1>1, <1>2, <1>4, <1>5, <1>7, <2>1 DEF Asking, AllIdle, Restored
<1>8. ASSUME NEW a \in Admins, Setting(a) PROVE Setting(a)'
  <2>1. PICK c : c = Set(view[a].key, view[a].value)
    OBVIOUS
  <2>2. rows \in Seq({c}) => rows' \in Seq({c})
    BY <1>3
  <2>3. CASE view[a].step = "read"
    BY <1>1, <1>2, <1>4, <1>5, <1>8, <2>3 DEF Setting, Restored
  <2>4. CASE view[a].step # "read"
    <3>1. wire' \in Seq({c}) /\ rows' \in Seq({c}) /\ work'.flush \in Seq({c})
      BY <1>1, <1>8, <2>1, <2>2, <2>4 DEF Setting
    <3>2. c = Set(view'[a].key, view'[a].value)
      BY <1>1, <2>1
    <3> QED BY <1>1, <1>4, <1>5, <1>8, <2>4, <3>1, <3>2 DEF Setting
  <2> QED BY <2>3, <2>4
<1> QED BY <1>1, <1>6, <1>7, <1>8 DEF IInv, OneExchange

\* A report or the old firmware's answer is handled.
LEMMA AnswerTaken ==
    ASSUME IInv, calm, up # <<>>, up' = Tail(up), Head(up).topic \in Reports
    PROVE  /\ Asking /\ wire = <<>> /\ work.merge = Blank
           /\ Head(up).topic = Answer /\ Head(up).store = store /\ NoReport'
<1>0. TypeOK /\ up \in Seq(ToWorker)
  BY TypeParts DEF IInv
<1>1. ~NoReport
  BY <1>0, OthersKept
<1>2. Asking /\ wire = <<>> /\ work.merge = Blank
  BY <1>1 DEF IInv, OneExchange, Resting, Setting, Asking
<1>3. PICK i \in 1 .. Len(up) : Answered(i)
  BY <1>1, <1>2 DEF Asking
<1>4. Head(up) = up[1] /\ 1 \in 1 .. Len(up)
  BY <1>0, Shortened
<1>5. i = 1
  BY <1>3, <1>4 DEF Answered
<1>6. Head(up).topic = Answer /\ Head(up).store = store
  BY <1>3, <1>4, <1>5 DEF Answered
<1>7. NoReport'
  BY <1>0, <1>3, <1>5, OthersKept
<1> QED BY <1>2, <1>6, <1>7

LEMMA ExchangeEnds ==
    ASSUME IInv, HandleReport
    PROVE  OneExchange'
<1> SUFFICES ASSUME calm' PROVE Resting'
  BY DEF OneExchange
<1>0. TypeOK /\ store \in Stores
  BY TypeParts DEF IInv
<1>1. /\ up # <<>> /\ up' = Tail(up) /\ work = AtRest /\ calm /\ Head(up).topic \in Reports
      /\ UNCHANGED <<rows, store, view, wire, work, legacy>>
      /\ mirror' = Numbers(Head(up).store) /\ wanted' = Numbers(Head(up).store)
  BY DEF HandleReport, Taken, Reports
<1>2. Asking /\ wire = <<>> /\ Head(up).store = store /\ NoReport'
  BY <1>1, AnswerTaken
<1>3. /\ AllIdle' /\ wire' = <<>> /\ rows' = <<>> /\ work'.flush = <<>>
      /\ work'.push = Blank /\ work'.merge = Blank
  BY <1>1, <1>2, RestFacts DEF Asking, AllIdle
<1>4. \A k \in Keys : mirror'[k] # Unset => Covered(k)'
  BY <1>0, <1>1, <1>2, NumbersFacts DEF Covered
<1> QED BY <1>1, <1>2, <1>3, <1>4, EmptyQueue, BlankFacts DEF Resting

LEMMA ExchangeLegacy ==
    ASSUME IInv, HandleLegacy
    PROVE  OneExchange'
<1> SUFFICES ASSUME calm' PROVE (Resting \/ Asking)'
  BY DEF OneExchange
<1>0. TypeOK /\ store \in Stores /\ mirror \in Mirrors
  BY TypeParts DEF IInv
<1>1. /\ up # <<>> /\ up' = Tail(up) /\ work = AtRest /\ calm /\ Head(up).topic = "legacy"
      /\ UNCHANGED <<mirror, rows, store, view, wire, wanted, legacy>>
      /\ work' = IF OffsetsOf(Head(up).store) = Blank THEN AtRest
                 ELSE [AtRest EXCEPT !.merge = OffsetsOf(Head(up).store), !.read = mirror]
  BY DEF HandleLegacy, Taken
<1>2. Asking /\ wire = <<>> /\ Head(up).topic = Answer /\ Head(up).store = store /\ NoReport'
  BY <1>1, AnswerTaken DEF Reports
<1>3. legacy # {} /\ mirror = wanted /\ Restored
  BY <1>1, <1>2 DEF Answer, Asking
<1>4. PICK o : o = OffsetsOf(store)
  OBVIOUS
<1>5. AllIdle' /\ NothingToRestore' /\ wire' = <<>> /\ rows' = <<>>
  BY <1>0, <1>1, <1>2, OthersKept DEF Asking, AllIdle
<1>6. CASE o = Blank
  <2>1. work' = AtRest
    BY <1>1, <1>2, <1>4, <1>6
  <2>2. \A k \in Keys : mirror'[k] # Unset => Covered(k)'
    BY <1>1, <1>3 DEF Restored, Covered
  <2>3. work'.push = Blank /\ work'.merge = Blank /\ work'.flush = <<>>
    BY <2>1, RestFacts
  <2> QED BY <1>1, <1>2, <1>3, <1>5, <2>2, <2>3, EmptyQueue, BlankFacts DEF Resting
<1>7. CASE o # Blank
  <2>1. work' = [AtRest EXCEPT !.merge = o, !.read = mirror]
    BY <1>1, <1>2, <1>4, <1>7
  <2>2. /\ work'.merge = o /\ work'.read = mirror /\ work'.push = Blank /\ work'.flush = <<>>
    BY <2>1, RestFacts DEF AtRest
  <2>3. \A k \in Keys : work'.merge[k] \in {Unset, store'[k]}
    BY <1>0, <1>1, <1>4, <2>2, NumbersFacts
  <2>4. (mirror = wanted /\ Restored)'
    BY <1>1, <1>3 DEF Restored
  <2> QED BY <1>1, <1>2, <1>3, <1>5, <1>7, <2>2, <2>3, <2>4 DEF Asking
<1> QED BY <1>6, <1>7

LEMMA ExchangeMerged ==
    ASSUME IInv, LegacySave
    PROVE  OneExchange'
<1> SUFFICES ASSUME calm' PROVE Resting'
  BY DEF OneExchange
<1>0. /\ TypeOK /\ mirror \in Mirrors /\ wanted \in Mirrors /\ work \in WorkType
  BY TypeParts DEF IInv
<1>1. /\ work.merge # Blank /\ calm /\ work' = AtRest
      /\ mirror' = Over(work.read, work.merge) /\ wanted' = Over(wanted, work.merge)
      /\ UNCHANGED <<rows, store, view, wire, up, legacy>>
  BY DEF LegacySave
<1>2. /\ Asking /\ wire = <<>> /\ NoReport /\ work.read = mirror /\ mirror = wanted /\ Restored
      /\ \A k \in Keys : work.merge[k] \in {Unset, store[k]}
  BY <1>1 DEF IInv, OneExchange, Resting, Setting, Asking
<1>3. mirror' = wanted'
  BY <1>1, <1>2
<1>4. AllIdle' /\ NoReport' /\ rows' = <<>> /\ wire' = <<>>
  BY <1>1, <1>2 DEF Asking, AllIdle, NoReport
<1>5. work'.push = Blank /\ work'.merge = Blank /\ work'.flush = <<>>
  BY <1>1, RestFacts
<1>6. ASSUME NEW k \in Keys, mirror'[k] # Unset PROVE Covered(k)'
  <2>1. work.merge \in Mirrors /\ work.read \in Mirrors
    BY <1>0 DEF WorkType
  <2>2. mirror'[k] = IF work.merge[k] # Unset THEN work.merge[k] ELSE mirror[k]
    BY <1>1, <1>2, <2>1, OverFacts
  <2>3. store'[k] = mirror'[k]
    BY <1>1, <1>2, <1>6, <2>2 DEF Restored
  <2> QED BY <2>3 DEF Covered
<1> QED BY <1>3, <1>4, <1>5, <1>6, EmptyQueue, BlankFacts DEF Resting

\* A value of the mirror is re-pushed.
LEMMA ExchangeRepushed ==
    ASSUME IInv, NEW k \in Keys, Repush(k)
    PROVE  OneExchange'
<1> SUFFICES ASSUME calm' PROVE Resting'
  BY DEF OneExchange
<1>0. /\ TypeOK /\ mirror \in Mirrors /\ wire \in Seq(ToDevice) /\ work \in WorkType
      /\ work.push \in Mirrors
  BY TypeParts DEF IInv, WorkType
<1>1. PICK c : c = Set(k, work.push[k])
  OBVIOUS
<1>2. /\ work.push[k] # Unset /\ calm /\ wire' = Append(wire, c)
      /\ work' = [work EXCEPT !.push[k] = Unset]
      /\ UNCHANGED <<mirror, rows, store, view, up, wanted, legacy>>
  BY <1>1 DEF Repush, Publish
<1>3. Resting
  <2>1. work.push # Blank
    BY <1>2, BlankFacts
  <2> QED BY <1>2, <2>1 DEF IInv, OneExchange, Asking, Setting
<1>4. work.push[k] = mirror[k] /\ mirror[k] # Unset /\ c = Set(k, mirror[k]) /\ c \in FromMirror
  BY <1>0, <1>1, <1>2, <1>3, FromMirrorFacts DEF Resting
<1>5. wire \in Seq(FromMirror) /\ c \in ToDevice
  BY <1>0, <1>3, <1>4, FromMirrorFacts, SetsAreMessages DEF Resting
<1>6. wire' \in Seq(FromMirror)
  BY <1>2, <1>4, <1>5, Appended
<1>7. /\ Len(wire) \in Nat /\ wire'[Len(wire) + 1] = c
      /\ \A i \in 1 .. Len(wire) : wire'[i] = wire[i]
      /\ 1 .. Len(wire') = 1 .. Len(wire) \cup {Len(wire) + 1}
  BY <1>0, <1>2, <1>5, Appended
<1>8. /\ work'.flush = work.flush /\ work'.merge = work.merge
      /\ \A j \in Keys : work'.push[j] = IF j = k THEN Unset ELSE work.push[j]
  BY <1>0, <1>2 DEF WorkType, Mirrors
<1>9. ASSUME NEW j \in Keys, mirror[j] # Unset PROVE Covered(j)'
  <2>1. CASE j = k
    <3>1. \E i \in 1 .. Len(wire') : wire'[i] = Set(j, mirror'[j])
      BY <1>2, <1>4, <1>7, <2>1
    <3> QED BY <3>1 DEF Covered
  <2>2. CASE j # k
    <3>1. Covered(j) /\ ~Wiped
      BY <1>2, <1>3, <1>9, BlankFacts, RestFacts DEF Resting, Wiped
    <3>2. (\E i \in 1 .. Len(wire) : wire[i] = Set(j, mirror[j]))
             => \E i \in 1 .. Len(wire') : wire'[i] = Set(j, mirror'[j])
      BY <1>2, <1>7
    <3> QED BY <1>2, <1>8, <2>2, <3>1, <3>2 DEF Covered
  <2> QED BY <2>1, <2>2
<1> QED BY <1>2, <1>3, <1>6, <1>8, <1>9, SameMirror DEF Resting, AllIdle, NoReport

\* The unacked sets agree with the mirror, or with the value being set.
LEMMA ExchangeFlushes ==
    ASSUME IInv, Flush
    PROVE  OneExchange'
<1> SUFFICES ASSUME calm' PROVE (Resting \/ \E a \in Admins : Setting(a))'
  BY DEF OneExchange
<1>1. /\ work = AtRest /\ rows # <<>> /\ calm /\ work' = [AtRest EXCEPT !.flush = rows]
      /\ UNCHANGED <<mirror, rows, store, view, wire, up, wanted, legacy>>
  BY DEF Flush
<1>2. /\ work'.flush = rows /\ work'.push = Blank /\ work'.merge = Blank
      /\ work.push = Blank /\ work.merge = Blank
  BY <1>1, RestFacts DEF AtRest
<1>3. CASE Resting
  <2>1. \A k \in Keys : Covered(k) => Covered(k)'
    BY <1>1, <1>2 DEF Covered, Wiped
  <2>2. work'.flush \in Seq(FromMirror) /\ rows' \in Seq(FromMirror)
    BY <1>1, <1>2, <1>3 DEF Resting
  <2>3. \A k \in Keys : work'.push[k] = Unset
    BY <1>2, BlankFacts
  <2> QED BY <1>1, <1>2, <1>3, <2>1, <2>2, <2>3, SameMirror DEF Resting, AllIdle, NoReport
<1>4. ASSUME NEW a \in Admins, Setting(a) PROVE Setting(a)'
  <2>1. view[a].step # "read"
    BY <1>1, <1>4 DEF Setting
  <2> QED BY <1>1, <1>2, <1>4, <2>1 DEF Setting, Restored, NoReport, NothingToRestore
<1> QED BY <1>1, <1>3, <1>4 DEF IInv, OneExchange, Asking

LEMMA ExchangeFlushed ==
    ASSUME IInv, FlushNext
    PROVE  OneExchange'
<1> SUFFICES ASSUME calm' PROVE (Resting \/ \E a \in Admins : Setting(a))'
  BY DEF OneExchange
<1>0. TypeOK /\ wire \in Seq(ToDevice) /\ work \in WorkType /\ work.flush \in Seq(Sets)
  BY TypeParts DEF IInv, WorkType
<1>1. PICK h : h = Head(work.flush)
  OBVIOUS
<1>2. /\ work.flush # <<>> /\ calm /\ (wire' = Append(wire, h) \/ wire' = wire)
      /\ UNCHANGED <<mirror, rows, store, view, up, wanted, legacy>>
  BY <1>1 DEF FlushNext, Publish
<1>3. work'.flush = Tail(work.flush) /\ work'.push = work.push /\ work'.merge = work.merge
  BY <1>0 DEF FlushNext, WorkType
<1>4. h \in ToDevice
  BY <1>0, <1>1, <1>2, Shortened, SetsAreMessages
<1>5. ASSUME NEW S, work.flush \in Seq(S), wire \in Seq(S)
      PROVE  work'.flush \in Seq(S) /\ wire' \in Seq(S)
  BY <1>1, <1>2, <1>3, <1>5, Shortened, Appended
<1>6. /\ wire' = <<>> => wire = <<>>
      /\ \A i \in 1 .. Len(wire) : i \in 1 .. Len(wire') /\ wire'[i] = wire[i]
  BY <1>0, <1>2, <1>4, Appended
<1>7. CASE Resting
  <2>1. ASSUME NEW k \in Keys, Covered(k) PROVE Covered(k)'
    <3>1. ~Wiped
      BY <1>2, RestFacts DEF Wiped
    <3>2. (\E i \in 1 .. Len(wire) : wire[i] = Set(k, mirror[k]))
             => \E i \in 1 .. Len(wire') : wire'[i] = Set(k, mirror'[k])
      BY <1>2, <1>6
    <3> QED BY <1>2, <1>3, <2>1, <3>1, <3>2 DEF Covered
  <2>2. work'.flush \in Seq(FromMirror) /\ wire' \in Seq(FromMirror)
    BY <1>5, <1>7 DEF Resting
  <2> QED BY <1>2, <1>3, <1>7, <2>1, <2>2, SameMirror DEF Resting, AllIdle, NoReport
<1>8. ASSUME NEW a \in Admins, Setting(a) PROVE Setting(a)'
  <2>1. PICK c : c = Set(view[a].key, view[a].value)
    OBVIOUS
  <2>2. view[a].step # "read"
    BY <1>2, <1>8 DEF Setting
  <2>3. wire' \in Seq({c}) /\ work'.flush \in Seq({c}) /\ rows' \in Seq({c})
    <3>1. wire \in Seq({c}) /\ work.flush \in Seq({c}) /\ rows \in Seq({c})
      BY <1>8, <2>1, <2>2 DEF Setting
    <3> QED BY <1>2, <1>5, <3>1
  <2>4. c = Set(view'[a].key, view'[a].value)
    BY <1>2, <2>1
  <2> QED BY <1>2, <1>3, <1>6, <1>8, <2>2, <2>3, <2>4
      DEF Setting, NoReport, NothingToRestore
<1> QED BY <1>2, <1>7, <1>8 DEF IInv, OneExchange, Asking

LEMMA ExchangeRestarted ==
    ASSUME IInv, WorkerRestarts
    PROVE  OneExchange'
<1> SUFFICES ASSUME calm' PROVE (Resting \/ Asking \/ \E a \in Admins : Setting(a))'
  BY DEF OneExchange
<1>0. TypeOK /\ store \in Stores
  BY TypeParts DEF IInv
<1>1. /\ calm /\ work.push = Blank /\ \A i \in 1 .. Len(up) : up[i].topic # "calibration"
      /\ up' = <<>> /\ work' = AtRest
      /\ UNCHANGED <<mirror, rows, store, view, wire, wanted, legacy>>
  BY DEF WorkerRestarts
<1>2. NoReport'
  BY <1>1, EmptyQueue DEF NoReport
<1>3. NothingToRestore => NothingToRestore'
  BY <1>1, EmptyQueue DEF NothingToRestore
<1>4. work'.push = Blank /\ work'.merge = Blank /\ work'.flush = <<>>
  BY <1>1, RestFacts
<1>5. \A k \in Keys : work'.push[k] = Unset
  BY <1>4, BlankFacts
<1>6. CASE Resting
  <2>1. \A k \in Keys : mirror[k] # Unset /\ Covered(k) => Covered(k)'
    BY <1>1, BlankFacts DEF Covered, Wiped
  <2>2. work'.flush \in Seq(FromMirror')
    BY <1>4, EmptyQueue
  <2> QED BY <1>1, <1>2, <1>4, <1>5, <1>6, <2>1, <2>2, SameMirror DEF Resting, AllIdle
<1>7. CASE Asking
  <2>1. CASE wire = <<RequestCalibration>>
    BY <1>1, <1>2, <1>3, <1>4, <1>7, <2>1 DEF Asking, AllIdle, Restored
  <2>2. CASE wire = <<>>
    <3>1. legacy # {}
      <4>1. ASSUME legacy = {} PROVE FALSE
        <5>1. PICK i \in 1 .. Len(up) : Answered(i)
          BY <1>7, <2>2, <4>1 DEF Asking
        <5> QED BY <1>1, <4>1, <5>1 DEF Answered, Answer
      <4> QED BY <4>1
    <3>2. mirror = wanted /\ Restored
      BY <1>7, <3>1 DEF Asking
    <3>3. \A k \in Keys : mirror'[k] # Unset => Covered(k)'
      BY <1>1, <3>2 DEF Restored, Covered
    <3>4. AllIdle' /\ wire' = <<>> /\ rows' = <<>>
      BY <1>1, <1>7, <2>2 DEF Asking, AllIdle
    <3> QED BY <1>1, <1>2, <1>4, <1>5, <3>2, <3>3, <3>4, EmptyQueue DEF Resting
  <2> QED BY <1>7, <2>1, <2>2 DEF Asking
<1>8. ASSUME NEW a \in Admins, Setting(a) PROVE Setting(a)'
  <2>1. CASE view[a].step = "read"
    BY <1>1, <1>2, <1>3, <1>4, <1>8, <2>1 DEF Setting, Restored
  <2>2. CASE view[a].step # "read"
    <3>1. PICK c : c = Set(view[a].key, view[a].value)
      OBVIOUS
    <3>2. wire' \in Seq({c}) /\ rows' \in Seq({c}) /\ work'.flush \in Seq({c})
      BY <1>1, <1>4, <1>8, <2>2, <3>1, EmptyQueue DEF Setting
    <3>3. c = Set(view'[a].key, view'[a].value)
      BY <1>1, <3>1
    <3> QED BY <1>1, <1>2, <1>3, <1>4, <1>8, <2>2, <3>2, <3>3 DEF Setting
  <2> QED BY <2>1, <2>2
<1> QED BY <1>1, <1>6, <1>7, <1>8 DEF IInv, OneExchange

-----------------------------------------------------------------------------

LEMMA InitRests == Init => OneExchange
<1> SUFFICES ASSUME Init PROVE Resting
  BY DEF OneExchange
<1>1. /\ mirror = wanted /\ wire = <<>> /\ rows = <<>> /\ up = <<>>
      /\ work.flush = <<>> /\ work.merge = Blank
      /\ \A k \in Keys : mirror[k] = Unset /\ work.push[k] = Unset
  BY BlankFacts, RestFacts DEF Init
<1>2. AllIdle
  BY DEF Init, AllIdle
<1> QED BY <1>1, <1>2, EmptyQueue DEF Resting, NoReport

LEMMA NextExchange ==
    ASSUME IInv, [Next]_vars
    PROVE  OneExchange'
<1>1. CASE UNCHANGED vars
  BY <1>1, SameMirror DEF vars, IInv, OneExchange, Resting, Asking, Setting, AllIdle, NoReport,
     NothingToRestore, Restored, Covered, Wiped, Answered, Answer
<1>2. ASSUME NEW a \in Admins, ViewStep(a) \/ SetEnds(a) PROVE OneExchange'
  <2>1. SetEnds(a) => OneExchange'
    BY DEF SetEnds, OneExchange
  <2> QED BY <1>2, <2>1, ExchangePublished, ExchangeLogged, ExchangeSaved DEF ViewStep
<1>3. CASE Handler
  BY <1>3, ExchangeCapabilities, ExchangeAcked, ExchangeEnds, ExchangeLegacy DEF Handler
<1>4. CASE WorkerStep
  BY <1>4, ExchangeFlushed, ExchangeMerged DEF WorkerStep
<1> QED BY <1>1, <1>2, <1>3, <1>4, ExchangeBegins, ExchangeAsked, ExchangeWiped, ExchangeReported,
        ExchangeAnswered, ExchangeExecuted, ExchangeRepushed, ExchangeFlushes, ExchangeRestarted
     DEF Next

THEOREM Invariance == Spec => []IInv
<1>1. Init => IInv
  BY InitTypes, InitRests DEF IInv
<1>2. IInv /\ [Next]_vars => IInv'
  BY NextTypes, NextExchange DEF IInv
<1> QED BY <1>1, <1>2, PTL DEF Spec

\* What was saved or reported last is what the mirror holds and a settled device
\* runs with (devices/views.py:275-285, services.py:349-364, 814-818, 916-919,
\* 1069-1097), while each exchange ends, with its acks, before the next begins:
\* the flush may then repeat a set, and repeats no value but the mirror's own.
THEOREM CalibrationStandsAlways == Spec => []CalibrationStands
<1>1. IInv => CalibrationStands
  <2> SUFFICES ASSUME IInv, calm, Settled PROVE mirror = wanted /\ Restored
    BY DEF CalibrationStands
  <2> QED BY SettledRests DEF Resting
<1> QED BY <1>1, Invariance, PTL

\* The safety half of WipeIsRestored: while exchanges do not cross and no set,
\* request or report is under way, each value of the mirror is in the device, or
\* queued for it, or in the worker's hand (_repush_calibration,
\* services.py:249-275), or nothing at all was sent since the device was wiped, so
\* that it still says it is empty.
NothingForgotten ==
    /\ calm /\ AllIdle /\ NoReport /\ work.merge = Blank
    /\ \A i \in 1 .. Len(wire) : wire[i] # RequestCalibration
    => \A k \in Keys : mirror[k] # Unset => Covered(k)

THEOREM NoValueIsForgotten == Spec => []NothingForgotten
<1>1. IInv => NothingForgotten
  <2> SUFFICES ASSUME IInv, calm, AllIdle, NoReport, work.merge = Blank,
                      \A i \in 1 .. Len(wire) : wire[i] # RequestCalibration
               PROVE  Resting
    BY DEF NothingForgotten, Resting
  <2>0. TypeOK
    BY DEF IInv
  <2>1. ~Asking
    <3>1. wire # <<RequestCalibration>>
      <4> SUFFICES ASSUME wire = <<RequestCalibration>> PROVE FALSE
        OBVIOUS
      <4>1. 1 \in 1 .. Len(wire) /\ wire[1] = RequestCalibration
        OBVIOUS
      <4> QED BY <4>1
    <3>2. ~\E i \in 1 .. Len(up) : Answered(i)
      BY <2>0, NoReportSaid DEF Answered, Answer, Reports
    <3> QED BY <3>1, <3>2 DEF Asking
  <2>2. \A a \in Admins : ~Setting(a)
    BY BlankFacts, CalibrationAssumption DEF Setting, AllIdle, CalibrationAssumption
  <2> QED BY <2>1, <2>2 DEF IInv, OneExchange
<1> QED BY <1>1, Invariance, PTL

=============================================================================
