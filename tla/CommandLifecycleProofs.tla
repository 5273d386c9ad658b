----------------------- MODULE CommandLifecycleProofs -----------------------
(***************************************************************************)
(* Proofs about CommandLifecycle, for every finite set of commands, every  *)
(* mix of actions, every bound of the queues, and whatever is assumed of   *)
(* the broker and the device: the two theorems that need an assumption     *)
(* (UpdatesAreSentOnce, WakesAreNoticed) state it.                         *)
(***************************************************************************)
EXTENDS CommandLifecycle, FiniteSetTheorems, SequenceTheorems, TLAPS

RowType == [status : Statuses, at : 0 .. Cardinality(Commands), late : BOOLEAN]
ToDevice == [action : Actions, of : Commands \cup {None}]
DeviceType == [phase : Phases, fw : Commands \cup {None}]

\* A row does not exist before its view has created it.
RowsBegin ==
    \A c \in Commands : view[c] \in {"idle", "published", "clocked"} =>
       row[c].at = 0 /\ row[c].status = "absent"

\* What a message of the device claims is true: a device never acknowledges an
\* update it has taken, and the version it names has run.
Ran(c) == "ok" \in outcome[c]
Claims(m, out) ==
    /\ m.topic = "ack" /\ m.action = "ota_update" => m.status = "error"
    /\ m.topic = "capabilities" /\ m.fw \in Commands => "ok" \in out[m.fw]
UpIsTrue == \A i \in 1 .. Len(up) : Claims(up[i], outcome)
VersionRan == device.fw \in Commands => Ran(device.fw)

\* The inductive invariant.
IInv == TypeOK /\ RowsBegin /\ UpIsTrue /\ VersionRan /\ UpdateSuccessIsTrue

\* What TerminalIsFinal says of one step.
FinalStep ==
    \A c \in Commands : row[c].status \in Terminal =>
       row'[c].status \in {row[c].status, "absent"}

-----------------------------------------------------------------------------
(* The constants, the rows and the queues.                                  *)

LEMMA ConstantFacts ==
    /\ IsFiniteSet(Commands) /\ Cardinality(Commands) \in Nat
    /\ ActionOf \in [Commands -> Actions]
    /\ MaxWire \in Nat /\ MaxUp \in Nat
    /\ None \notin Commands
BY CommandsAssumption, FS_CardinalityType DEF CommandsAssumption

LEMMA TypeParts ==
    ASSUME TypeOK
    PROVE  /\ row \in [Commands -> RowType]
           /\ wire \in Seq(ToDevice) /\ Len(wire) <= MaxWire
           /\ up \in Seq(ToWorker) /\ Len(up) <= MaxUp
           /\ device \in DeviceType
           /\ outcome \in [Commands -> SUBSET {"ok", "error"}]
BY DEF TypeOK, RowType, ToDevice, DeviceType

\* The rows that a handler or a deletion marks: pending ones, or any when they
\* are deleted; an update as successful only when its version has run.
LEMMA MarkStep ==
    ASSUME IInv, NEW cs \in SUBSET Commands, NEW status \in Statuses,
           row' = Marked(cs, status), UNCHANGED <<view, outcome>>,
           status = "absent" \/ \A c \in cs : row[c].status = "pending",
           status = "success" =>
              \A c \in cs : ActionOf[c] = "ota_update" => Ran(c)
    PROVE  /\ row' \in [Commands -> RowType]
           /\ RowsBegin' /\ UpdateSuccessIsTrue' /\ FinalStep
<1>1. row \in [Commands -> RowType]
  BY TypeParts DEF IInv
<1>2. row' \in [Commands -> RowType]
  BY <1>1 DEF Marked, RowType
<1>3. \A c \in Commands :
        /\ row'[c].at = row[c].at
        /\ row'[c].status = IF c \in cs THEN status ELSE row[c].status
  BY <1>1 DEF Marked, RowType
<1>4. RowsBegin'
  BY <1>3 DEF IInv, RowsBegin
<1>5. UpdateSuccessIsTrue'
  BY <1>3 DEF IInv, UpdateSuccessIsTrue, Ran
<1>6. FinalStep
  BY <1>3 DEF FinalStep, Terminal
<1> QED BY <1>2, <1>4, <1>5, <1>6

\* Steps that leave the rows alone, and may only add to what was executed.
LEMMA RowsKept ==
    ASSUME IInv, UNCHANGED <<row, view>>,
           \A c \in Commands : outcome[c] \subseteq outcome'[c]
    PROVE  row' \in [Commands -> RowType] /\ RowsBegin' /\ UpdateSuccessIsTrue' /\ FinalStep
<1>1. row' \in [Commands -> RowType]
  BY TypeParts DEF IInv
<1>2. RowsBegin' /\ UpdateSuccessIsTrue'
  BY DEF IInv, RowsBegin, UpdateSuccessIsTrue
<1> QED BY <1>1, <1>2 DEF FinalStep

LEMMA PublishStep ==
    ASSUME TypeOK, NEW ms \in Seq(ToDevice), Publish(ms)
    PROVE  wire' \in Seq(ToDevice) /\ Len(wire') <= MaxWire
<1>1. wire \in Seq(ToDevice) /\ Len(wire) <= MaxWire
  BY TypeParts
<1>2. wire \o ms \in Seq(ToDevice) /\ Len(wire \o ms) = Len(wire) + Len(ms)
  BY <1>1, ConcatProperties
<1> QED BY <1>1, <1>2 DEF Publish

LEMMA NoMessage == <<>> \in Seq(ToDevice) /\ Len(<<>>) <= MaxWire
BY ConstantFacts

LEMMA OneMessage ==
    ASSUME NEW m \in ToDevice
    PROVE  <<m>> \in Seq(ToDevice)
OBVIOUS

\* What has run stays run.
LEMMA ClaimStays ==
    ASSUME NEW m, Claims(m, outcome), \A c \in Commands : outcome[c] \subseteq outcome'[c]
    PROVE  Claims(m, outcome')
BY DEF Claims

\* The queue to the worker when it is left alone, sent to, taken from or lost.
LEMMA UpKept ==
    ASSUME IInv, up' = up, \A c \in Commands : outcome[c] \subseteq outcome'[c]
    PROVE  up' \in Seq(ToWorker) /\ Len(up') <= MaxUp /\ UpIsTrue'
<1>1. \A i \in 1 .. Len(up) : Claims(up[i], outcome')
  BY ClaimStays DEF IInv, UpIsTrue
<1> QED BY <1>1, TypeParts DEF IInv, UpIsTrue

LEMMA SendStep ==
    ASSUME IInv, NEW m \in ToWorker, Send(m), Claims(m, outcome'),
           \A c \in Commands : outcome[c] \subseteq outcome'[c]
    PROVE  up' \in Seq(ToWorker) /\ Len(up') <= MaxUp /\ UpIsTrue'
<1>1. up \in Seq(ToWorker) /\ Len(up) \in Nat
  BY TypeParts, LenProperties DEF IInv
<1>2. /\ up' \in Seq(ToWorker) /\ Len(up') = Len(up) + 1
      /\ \A i \in 1 .. Len(up) : up'[i] = up[i]
      /\ up'[Len(up) + 1] = m
  BY <1>1, AppendProperties DEF Send
<1>3. \A i \in 1 .. Len(up) : Claims(up[i], outcome')
  BY ClaimStays DEF IInv, UpIsTrue
<1>4. ASSUME NEW i \in 1 .. Len(up')
      PROVE  Claims(up'[i], outcome')
  <2>1. CASE i \in 1 .. Len(up)
    BY <1>2, <1>3, <2>1
  <2>2. CASE i = Len(up) + 1
    BY <1>2, <2>2
  <2> QED BY <1>1, <1>2, <2>1, <2>2
<1>5. Len(up') <= MaxUp
  BY <1>1, <1>2, ConstantFacts DEF Send
<1> QED BY <1>2, <1>4, <1>5 DEF UpIsTrue

LEMMA TakeStep ==
    ASSUME IInv, NEW topic, Taken(topic), outcome' = outcome
    PROVE  /\ up' \in Seq(ToWorker) /\ Len(up') <= MaxUp /\ UpIsTrue'
           /\ Head(up) \in ToWorker /\ Head(up).topic = topic
           /\ Claims(Head(up), outcome)
<1>1. up \in Seq(ToWorker) /\ Len(up) \in Nat \ {0} /\ Len(up) <= MaxUp
  BY TypeParts, EmptySeq DEF IInv, Taken
<1>2. /\ Head(up) \in ToWorker
      /\ up' \in Seq(ToWorker) /\ Len(up') = Len(up) - 1
      /\ \A i \in 1 .. Len(up') : up'[i] = up[i + 1]
  BY <1>1, HeadTailProperties DEF Taken
<1>3. ASSUME NEW i \in 1 .. Len(up')
      PROVE  Claims(up'[i], outcome')
  <2>1. i + 1 \in 1 .. Len(up) /\ up'[i] = up[i + 1]
    BY <1>1, <1>2
  <2> QED BY <2>1 DEF IInv, UpIsTrue
<1>4. Head(up) = up[1]
  BY <1>1
<1>5. Claims(Head(up), outcome)
  BY <1>1, <1>4 DEF IInv, UpIsTrue
<1>6. Len(up') <= MaxUp
  BY <1>1, <1>2, ConstantFacts
<1> QED BY <1>2, <1>3, <1>5, <1>6 DEF UpIsTrue, Taken

\* A message the device takes off its queue, or will be sent again.
LEMMA ReceiptStep ==
    ASSUME TypeOK, wire # <<>>, NEW once \in BOOLEAN
    PROVE  /\ AfterReceipt(once) \in Seq(ToDevice) /\ Len(AfterReceipt(once)) <= MaxWire
           /\ Head(wire) \in ToDevice
<1>1. wire \in Seq(ToDevice) /\ Len(wire) \in Nat \ {0} /\ Len(wire) <= MaxWire
  BY TypeParts, EmptySeq
<1>2. Head(wire) \in ToDevice /\ Tail(wire) \in Seq(ToDevice) /\ Len(Tail(wire)) = Len(wire) - 1
  BY <1>1, HeadTailProperties
<1> QED BY <1>1, <1>2, ConstantFacts DEF AfterReceipt

-----------------------------------------------------------------------------
(* The actions.                                                             *)

LEMMA InitInv == Init => IInv
<1> SUFFICES ASSUME Init PROVE IInv
  OBVIOUS
<1>1. TypeOK
  BY ConstantFacts, EmptySeq DEF Init, TypeOK, Statuses, Steps, Work, Phases
<1>2. RowsBegin /\ UpdateSuccessIsTrue
  BY DEF Init, RowsBegin, UpdateSuccessIsTrue
<1>3. UpIsTrue
  BY EmptySeq DEF Init, UpIsTrue
<1>4. VersionRan
  BY ConstantFacts DEF Init, VersionRan
<1> QED BY <1>1, <1>2, <1>3, <1>4 DEF IInv

\* ViewRecord creates a row that did not exist; it counts as one more.
LEMMA RecordInv ==
    ASSUME IInv, NEW c \in Commands, ViewRecord(c)
    PROVE  IInv' /\ FinalStep
<1> USE DEF ViewRecord
<1> DEFINE New == [status |-> "pending", at |-> Cardinality(Recorded) + 1, late |-> FALSE]
           After == IF ActionOf[c] = "set" THEN "recorded" ELSE "done"
<1>1. view[c] \in {"published", "clocked"}
  OBVIOUS
<1>2. row[c].at = 0 /\ row[c].status = "absent"
  BY <1>1 DEF IInv, RowsBegin
<1>3. Cardinality(Recorded) + 1 \in 0 .. Cardinality(Commands)
  <2>1. Recorded \subseteq Commands /\ c \notin Recorded
    BY <1>2 DEF Recorded
  <2>2. IsFiniteSet(Recorded) /\ Cardinality(Recorded) \in Nat
    BY <2>1, ConstantFacts, FS_Subset, FS_CardinalityType
  <2>3. Cardinality(Recorded \cup {c}) = Cardinality(Recorded) + 1
    BY <2>1, <2>2, FS_AddElement
  <2>4. Cardinality(Recorded \cup {c}) <= Cardinality(Commands)
    BY <2>1, ConstantFacts, FS_Subset
  <2> QED BY <2>2, <2>3, <2>4, ConstantFacts
<1>4. New \in RowType
  BY <1>3 DEF RowType, Statuses
<1>5. row \in [Commands -> RowType] /\ view \in [Commands -> Steps]
  BY TypeParts DEF IInv, TypeOK
<1>6. After \in Steps /\ After \notin {"idle", "published", "clocked"}
  BY DEF Steps
<1> HIDE DEF After
<1>7. row' = [row EXCEPT ![c] = New] /\ view' = [view EXCEPT ![c] = After]
  BY DEF After
<1> HIDE DEF New
<1>8. row' \in [Commands -> RowType] /\ view' \in [Commands -> Steps]
  BY <1>4, <1>5, <1>6, <1>7
<1>9. TypeOK'
  BY <1>8 DEF IInv, TypeOK, RowType
<1>10. \A d \in Commands \ {c} : row'[d] = row[d] /\ view'[d] = view[d]
  BY <1>5, <1>7
<1>11. view'[c] = After /\ row'[c] = New
  BY <1>5, <1>7
<1>12. New.status = "pending"
  BY DEF New
<1>13. RowsBegin'
  BY <1>6, <1>10, <1>11 DEF IInv, RowsBegin
<1>14. UpdateSuccessIsTrue'
  BY <1>10, <1>11, <1>12 DEF IInv, UpdateSuccessIsTrue
<1>15. UpIsTrue' /\ VersionRan'
  BY DEF IInv, UpIsTrue, VersionRan, Ran, Claims
<1>16. FinalStep
  BY <1>2, <1>10 DEF FinalStep, Terminal
<1> QED BY <1>9, <1>13, <1>14, <1>15, <1>16 DEF IInv

\* The other steps of a view change no row, and only go forward from where the
\* row does not exist or already does.
LEMMA ViewInv ==
    ASSUME IInv, NEW c \in Commands,
           ViewPublish(c) \/ ViewAsk(c) \/ ViewAskFails(c) \/ ViewStartClock(c)
    PROVE  IInv' /\ FinalStep
<1>1. UNCHANGED <<row, online, work, up, device, outcome, okays, owed>>
  BY DEF ViewPublish, ViewAsk, ViewAskFails, ViewStartClock
<1>2. PICK step \in Steps :
        /\ view' = [view EXCEPT ![c] = step]
        /\ step \in {"idle", "published", "clocked"} =>
              view[c] \in {"idle", "published", "clocked"}
  <2>1. CASE ViewPublish(c)
    BY <2>1 DEF ViewPublish, Steps
  <2>2. CASE ViewAsk(c) \/ ViewAskFails(c)
    BY <2>2 DEF ViewAsk, ViewAskFails, Steps
  <2>3. CASE ViewStartClock(c)
    <3>1. CASE view[c] = "asked"
      BY <2>3, <3>1, TypeParts DEF IInv, TypeOK, ViewStartClock, Steps
    <3>2. CASE view[c] = "published"
      BY <2>3, <3>2, TypeParts DEF IInv, TypeOK, ViewStartClock, Steps
    <3> QED BY <2>3, <3>1, <3>2 DEF ViewStartClock
  <2> QED BY <2>1, <2>2, <2>3
<1>3. wire' \in Seq(ToDevice) /\ Len(wire') <= MaxWire
  <2>1. Message(ActionOf[c], c) \in ToDevice /\ CapsRequest \in ToDevice
    BY ConstantFacts DEF Message, CapsRequest, ToDevice, Actions
  <2>2. CASE ViewPublish(c)
    BY <2>1, <2>2, OneMessage, PublishStep DEF ViewPublish, IInv
  <2>3. CASE ViewAsk(c)
    BY <2>1, <2>3, OneMessage, PublishStep DEF ViewAsk, IInv
  <2>4. CASE ViewAskFails(c) \/ ViewStartClock(c)
    BY <2>4, TypeParts DEF ViewAskFails, ViewStartClock, IInv
  <2> QED BY <2>2, <2>3, <2>4
<1>4. clock' \in {"none", "running", "expired"}
  BY DEF IInv, TypeOK, ViewPublish, ViewAsk, ViewAskFails, ViewStartClock
<1>5. view \in [Commands -> Steps]
  BY DEF IInv, TypeOK
<1>6. TypeOK'
  BY <1>1, <1>2, <1>3, <1>4, <1>5 DEF IInv, TypeOK, ToDevice
<1>7. RowsBegin'
  BY <1>1, <1>2, <1>5 DEF IInv, RowsBegin
<1>8. UpdateSuccessIsTrue' /\ UpIsTrue' /\ VersionRan' /\ FinalStep
  BY <1>1 DEF IInv, UpdateSuccessIsTrue, UpIsTrue, VersionRan, Ran, Claims, FinalStep
<1> QED BY <1>6, <1>7, <1>8 DEF IInv

\* Deletions, and an update that has become late.
LEMMA DeleteInv ==
    ASSUME IInv, NEW cs \in SUBSET Commands, DeleteCommands(cs)
    PROVE  IInv' /\ FinalStep
<1>1. /\ row' \in [Commands -> RowType]
      /\ RowsBegin' /\ UpdateSuccessIsTrue' /\ FinalStep
  BY MarkStep DEF DeleteCommands, Statuses
<1>2. TypeOK' /\ UpIsTrue' /\ VersionRan'
  BY <1>1 DEF DeleteCommands, IInv, TypeOK, RowType, UpIsTrue, VersionRan, Ran, Claims
<1> QED BY <1>1, <1>2 DEF IInv

LEMMA LateInv ==
    ASSUME IInv, NEW c \in Commands, UpdateIsLate(c)
    PROVE  IInv' /\ FinalStep
<1>1. row \in [Commands -> RowType]
  BY TypeParts DEF IInv
<1>2. row' \in [Commands -> RowType]
  BY <1>1 DEF UpdateIsLate, RowType
<1>3. \A d \in Commands : row'[d].at = row[d].at /\ row'[d].status = row[d].status
  BY <1>1 DEF UpdateIsLate, RowType
<1>4. TypeOK' /\ UpIsTrue' /\ VersionRan'
  BY <1>2 DEF UpdateIsLate, IInv, TypeOK, RowType, UpIsTrue, VersionRan, Ran, Claims
<1>5. RowsBegin' /\ UpdateSuccessIsTrue'
  BY <1>3 DEF UpdateIsLate, IInv, RowsBegin, UpdateSuccessIsTrue
<1>6. FinalStep
  BY <1>3 DEF FinalStep
<1> QED BY <1>4, <1>5, <1>6 DEF IInv

-----------------------------------------------------------------------------
(* The worker.                                                              *)

\* The messages that change no row.
LEMMA SeenInv ==
    ASSUME IInv, SensorBegin \/ HandleOther
    PROVE  IInv' /\ FinalStep
<1>1. outcome' = outcome /\ UNCHANGED <<row, view, clock, wire, device, okays, owed>>
  BY DEF SensorBegin, HandleOther
<1>2. up' \in Seq(ToWorker) /\ Len(up') <= MaxUp /\ UpIsTrue'
  BY <1>1, TakeStep DEF SensorBegin, HandleOther
<1>3. work' \in Work /\ online' \in BOOLEAN
  BY DEF SensorBegin, HandleOther, IInv, TypeOK, Work
<1>4. RowsBegin' /\ UpdateSuccessIsTrue' /\ FinalStep
  BY <1>1, RowsKept
<1>5. TypeOK'
  BY <1>1, <1>2, <1>3 DEF IInv, TypeOK
<1>6. VersionRan'
  BY <1>1 DEF IInv, VersionRan, Ran
<1> QED BY <1>2, <1>4, <1>5, <1>6 DEF IInv

LEMMA WakeUpInv ==
    ASSUME IInv, NEW sent \in BOOLEAN, NEW taken \in SUBSET Commands,
           SensorWakesUp(sent, taken)
    PROVE  IInv' /\ FinalStep
<1> USE DEF SensorWakesUp
<1>1. /\ row' \in [Commands -> RowType]
      /\ RowsBegin' /\ UpdateSuccessIsTrue' /\ FinalStep
  <2>1. LateUpdates \in SUBSET Commands /\ \A c \in LateUpdates : row[c].status = "pending"
    BY DEF LateUpdates, Pending
  <2>2. "timeout" \in Statuses /\ "timeout" # "success"
    BY DEF Statuses, Terminal
  <2> QED BY <2>1, <2>2, MarkStep
<1>2. wire' \in Seq(ToDevice) /\ Len(wire') <= MaxWire
  <2>1. PICK order \in BySentAt(taken) :
          Publish(IF sent THEN Append(Flushed(taken, order), CapsRequest) ELSE Flushed(taken, order))
    OBVIOUS
  <2>2. Cardinality(taken) \in Nat
    BY ConstantFacts, FS_Subset, FS_CardinalityType
  <2>3. \A i \in 1 .. Cardinality(taken) :
          order[i] \in Commands /\ Message(ActionOf[order[i]], order[i]) \in ToDevice
    BY ConstantFacts DEF BySentAt, Message, ToDevice
  <2>4. Flushed(taken, order) \in Seq(ToDevice)
    BY <2>2, <2>3 DEF Flushed
  <2>5. CapsRequest \in ToDevice
    BY DEF CapsRequest, Message, ToDevice, Actions
  <2>6. Append(Flushed(taken, order), CapsRequest) \in Seq(ToDevice)
    BY <2>4, <2>5, AppendProperties
  <2> QED BY <2>1, <2>4, <2>6, PublishStep DEF IInv
<1>3. up' \in Seq(ToWorker) /\ Len(up') <= MaxUp /\ UpIsTrue'
  BY UpKept
<1>4. TypeOK'
  BY <1>1, <1>2, <1>3 DEF IInv, TypeOK, Work, RowType, ToDevice
<1>5. VersionRan'
  BY DEF IInv, VersionRan, Ran
<1> QED BY <1>1, <1>3, <1>4, <1>5 DEF IInv

LEMMA ContinueInv ==
    ASSUME IInv, SensorContinues
    PROVE  IInv' /\ FinalStep
<1> USE DEF SensorContinues
<1> DEFINE cs == IF work = "timeout" THEN LateUpdates \cup Pending("request_capabilities")
                 ELSE LateUpdates
<1>1. /\ row' \in [Commands -> RowType]
      /\ RowsBegin' /\ UpdateSuccessIsTrue' /\ FinalStep
  <2>1. cs \in SUBSET Commands /\ \A c \in cs : row[c].status = "pending"
    BY DEF LateUpdates, Pending
  <2>2. "timeout" \in Statuses /\ "timeout" # "success"
    BY DEF Statuses, Terminal
  <2>3. row' = Marked(cs, "timeout")
    OBVIOUS
  <2> HIDE DEF cs
  <2> QED BY <2>1, <2>2, <2>3, MarkStep
<1>2. up' \in Seq(ToWorker) /\ Len(up') <= MaxUp /\ UpIsTrue'
  BY UpKept
<1>3. clock' \in {"none", "running", "expired"}
  BY DEF IInv, TypeOK
<1>4. TypeOK'
  BY <1>1, <1>2, <1>3 DEF IInv, TypeOK, Work, RowType
<1>5. VersionRan'
  BY DEF IInv, VersionRan, Ran
<1> QED BY <1>1, <1>2, <1>4, <1>5 DEF IInv

\* Capabilities answer requests, and the update whose version they name: that
\* version has run.
LEMMA CapabilitiesInv ==
    ASSUME IInv, HandleCapabilities
    PROVE  IInv' /\ FinalStep
<1> USE DEF HandleCapabilities
<1>1. /\ up' \in Seq(ToWorker) /\ Len(up') <= MaxUp /\ UpIsTrue'
      /\ Head(up).topic = "capabilities" /\ Claims(Head(up), outcome)
  BY TakeStep
<1>2. Answered \in SUBSET Commands /\ \A c \in Answered : row[c].status = "pending"
  BY DEF Answered, Pending
<1>3. \A c \in Answered : ActionOf[c] = "ota_update" => Ran(c)
  BY <1>1 DEF Answered, Pending, Claims, Ran
<1>4. "success" \in Statuses
  BY DEF Statuses, Terminal
<1>5. /\ row' \in [Commands -> RowType]
      /\ RowsBegin' /\ UpdateSuccessIsTrue' /\ FinalStep
  BY <1>2, <1>3, <1>4, MarkStep
<1>6. TypeOK'
  BY <1>1, <1>5 DEF IInv, TypeOK, RowType
<1>7. VersionRan'
  BY DEF IInv, VersionRan, Ran
<1> QED BY <1>1, <1>5, <1>6, <1>7 DEF IInv

\* An ack resolves pending rows of its action; an update only as failed.
LEMMA AckInv ==
    ASSUME IInv, HandleAck
    PROVE  IInv' /\ FinalStep
<1> USE DEF HandleAck
<1> DEFINE cs == Latest(Pending(Head(up).action))
           status == IF Head(up).status = "ok" THEN "success" ELSE "failed"
<1>1. /\ up' \in Seq(ToWorker) /\ Len(up') <= MaxUp /\ UpIsTrue'
      /\ Head(up).topic = "ack" /\ Claims(Head(up), outcome)
  BY TakeStep
<1>2. cs \in SUBSET Commands /\ \A c \in cs : row[c].status = "pending"
  BY DEF Latest, Pending
<1>3. status = "success" => \A c \in cs : ActionOf[c] = "ota_update" => Ran(c)
  BY <1>1 DEF Latest, Pending, Claims
<1>4. status \in Statuses /\ status # "absent"
  BY DEF Statuses, Terminal
<1>5. row' = Marked(cs, status)
  OBVIOUS
<1> HIDE DEF cs, status
<1>6. /\ row' \in [Commands -> RowType]
      /\ RowsBegin' /\ UpdateSuccessIsTrue' /\ FinalStep
  BY <1>2, <1>3, <1>4, <1>5, MarkStep
<1>7. TypeOK'
  BY <1>1, <1>6 DEF IInv, TypeOK, RowType
<1>8. VersionRan'
  BY DEF IInv, VersionRan, Ran
<1> QED BY <1>1, <1>6, <1>7, <1>8 DEF IInv

-----------------------------------------------------------------------------
(* The device, the worker's restart, and time.                              *)

\* A device publishes: its sensors, something else, or the version it runs.
LEMMA PublicationInv ==
    ASSUME IInv, PublishSensors \/ PublishOther \/ PublishCapabilities
    PROVE  IInv' /\ FinalStep
<1>1. UNCHANGED <<row, view, clock, online, work, wire, outcome, okays, owed>>
  BY DEF PublishSensors, PublishOther, PublishCapabilities
<1>2. device \in DeviceType
  BY TypeParts DEF IInv
<1>3. device' \in DeviceType /\ device'.fw = device.fw
  BY <1>2 DEF PublishSensors, PublishOther, PublishCapabilities, DeviceType, Phases
<1>4. PICK m \in ToWorker : Send(m) /\ Claims(m, outcome)
  <2>1. Publication("sensors") \in ToWorker /\ Publication("other") \in ToWorker
    BY DEF Publication, ToWorker
  <2>2. Capabilities(device.fw) \in ToWorker
    BY <1>2 DEF Capabilities, ToWorker, DeviceType
  <2>3. Claims(Publication("sensors"), outcome) /\ Claims(Publication("other"), outcome)
    BY DEF Publication, Claims
  <2>4. Claims(Capabilities(device.fw), outcome)
    BY DEF IInv, VersionRan, Ran, Capabilities, Claims
  <2> QED BY <2>1, <2>2, <2>3, <2>4 DEF PublishSensors, PublishOther, PublishCapabilities
<1>5. up' \in Seq(ToWorker) /\ Len(up') <= MaxUp /\ UpIsTrue'
  BY <1>1, <1>4, SendStep
<1>6. RowsBegin' /\ UpdateSuccessIsTrue' /\ FinalStep
  BY <1>1, RowsKept
<1>7. TypeOK'
  BY <1>1, <1>3, <1>5 DEF IInv, TypeOK, DeviceType
<1>8. VersionRan'
  BY <1>1, <1>3 DEF IInv, VersionRan, Ran
<1> QED BY <1>5, <1>6, <1>7, <1>8 DEF IInv

LEMMA ExecuteInv ==
    ASSUME IInv, NEW once \in BOOLEAN, Execute(once)
    PROVE  IInv' /\ FinalStep
<1>1. UNCHANGED <<row, view, clock, online, work, owed>> /\ wire # <<>>
  BY DEF Execute
<1>2. /\ AfterReceipt(once) \in Seq(ToDevice) /\ Len(AfterReceipt(once)) <= MaxWire
      /\ Head(wire).of \in Commands \cup {None}
  BY <1>1, ReceiptStep DEF IInv, ToDevice
<1>3. /\ device \in DeviceType /\ outcome \in [Commands -> SUBSET {"ok", "error"}]
      /\ okays \in 0 .. Cardinality(Commands)
  BY TypeParts DEF IInv, TypeOK
<1>4. wire' \in Seq(ToDevice) /\ Len(wire') <= MaxWire
  <2>1. wire' = AfterReceipt(once) \/ wire' = <<>>
    BY DEF Execute, AnswerRequest, ExecuteSet, RefuseUpdate, Flash
  <2> QED BY <1>2, <2>1, NoMessage
<1>5. okays' \in 0 .. Cardinality(Commands)
  <2>1. okays' = okays \/ (okays < Cardinality(Commands) /\ okays' = okays + 1)
    BY DEF Execute, AnswerRequest, ExecuteSet, RefuseUpdate, Flash
  <2> QED BY <1>3, <2>1, ConstantFacts
<1>6. /\ outcome' \in [Commands -> SUBSET {"ok", "error"}]
      /\ \A c \in Commands : outcome[c] \subseteq outcome'[c]
  <2>1. CASE outcome' = outcome
    BY <1>3, <2>1
  <2>2. ASSUME NEW s \in {"ok", "error"},
               outcome' = [outcome EXCEPT ![Head(wire).of] = @ \cup {s}]
        PROVE  /\ outcome' \in [Commands -> SUBSET {"ok", "error"}]
               /\ \A c \in Commands : outcome[c] \subseteq outcome'[c]
    BY <1>3, <2>2
  <2> QED BY <2>1, <2>2 DEF Execute, AnswerRequest, ExecuteSet, RefuseUpdate, Flash
<1>7. device' \in DeviceType /\ VersionRan'
  <2>1. CASE device' = device
    BY <1>3, <1>6, <2>1 DEF IInv, VersionRan, Ran
  <2>2. CASE Flash(once)
    <3>1. device' = [device EXCEPT !.phase = "asleep", !.fw = Head(wire).of]
      BY <2>2 DEF Flash
    <3>2. device' \in DeviceType /\ device'.fw = Head(wire).of
      BY <1>2, <1>3, <3>1 DEF DeviceType, Phases
    <3>3. Head(wire).of \in Commands => "ok" \in outcome'[Head(wire).of]
      BY <1>3, <2>2 DEF Flash
    <3> QED BY <3>2, <3>3 DEF VersionRan, Ran
  <2> QED BY <2>1, <2>2 DEF Execute, AnswerRequest, ExecuteSet, RefuseUpdate
<1>8. up' \in Seq(ToWorker) /\ Len(up') <= MaxUp /\ UpIsTrue'
  <2>1. CASE up' = up
    BY <1>6, <2>1, UpKept
  <2>2. CASE AnswerRequest(once)
    <3>1. Capabilities(device.fw) \in ToWorker
      BY <1>3 DEF Capabilities, ToWorker, DeviceType
    <3>2. Claims(Capabilities(device.fw), outcome')
      BY <2>2 DEF AnswerRequest, IInv, VersionRan, Ran, Capabilities, Claims
    <3> QED BY <1>6, <2>2, <3>1, <3>2, SendStep DEF AnswerRequest
  <2>3. ASSUME NEW s \in {"ok", "error"}, ExecuteSet(once, s)
        PROVE  up' \in Seq(ToWorker) /\ Len(up') <= MaxUp /\ UpIsTrue'
    <3>1. Ack("set", s) \in ToWorker /\ Claims(Ack("set", s), outcome')
      BY DEF Ack, ToWorker, Actions, Claims
    <3> QED BY <1>6, <2>3, <3>1, SendStep DEF ExecuteSet
  <2>4. CASE RefuseUpdate(once)
    <3>1. /\ Ack("ota_update", "error") \in ToWorker
          /\ Claims(Ack("ota_update", "error"), outcome')
      BY DEF Ack, ToWorker, Actions, Claims
    <3> QED BY <1>6, <2>1, <2>4, <3>1, SendStep DEF RefuseUpdate
  <2> QED BY <2>1, <2>2, <2>3, <2>4 DEF Execute, Flash
<1>9. RowsBegin' /\ UpdateSuccessIsTrue' /\ FinalStep
  BY <1>1, <1>6, RowsKept
<1>10. TypeOK'
  BY <1>1, <1>4, <1>5, <1>6, <1>7, <1>8 DEF IInv, TypeOK, ToDevice, DeviceType
<1> QED BY <1>7, <1>8, <1>9, <1>10 DEF IInv

\* The steps that change only where the device and the worker are.
LEMMA PhaseInv ==
    ASSUME IInv, Wake \/ Listen \/ Sleep \/ GoesOffline \/ ClockExpires \/ WorkerRestarts
    PROVE  IInv' /\ FinalStep
<1>1. UNCHANGED <<row, view, outcome, okays>>
  BY DEF Wake, Listen, Sleep, GoesOffline, ClockExpires, WorkerRestarts
<1>2. device \in DeviceType
  BY TypeParts DEF IInv
<1>3. device' \in DeviceType /\ device'.fw = device.fw
  BY <1>2 DEF Wake, Listen, Sleep, GoesOffline, ClockExpires, WorkerRestarts, DeviceType, Phases
<1>4. wire' \in Seq(ToDevice) /\ Len(wire') <= MaxWire
  <2>1. wire' = wire \/ wire' = <<>>
    BY DEF Wake, Listen, Sleep, GoesOffline, ClockExpires, WorkerRestarts
  <2>2. wire \in Seq(ToDevice) /\ Len(wire) <= MaxWire
    BY TypeParts DEF IInv
  <2> QED BY <2>1, <2>2, NoMessage
<1>5. up' \in Seq(ToWorker) /\ Len(up') <= MaxUp /\ UpIsTrue'
  <2>1. CASE up' = up
    BY <1>1, <2>1, UpKept
  <2>2. CASE up' = <<>>
    BY <2>2, EmptySeq, ConstantFacts DEF UpIsTrue
  <2> QED BY <2>1, <2>2 DEF Wake, Listen, Sleep, GoesOffline, ClockExpires, WorkerRestarts
<1>6. /\ work' \in Work /\ online' \in BOOLEAN /\ owed' \in BOOLEAN
      /\ clock' \in {"none", "running", "expired"}
  BY DEF IInv, TypeOK, Work, Wake, Listen, Sleep, GoesOffline, ClockExpires, WorkerRestarts
<1>7. RowsBegin' /\ UpdateSuccessIsTrue' /\ FinalStep
  BY <1>1, RowsKept
<1>8. TypeOK'
  BY <1>1, <1>3, <1>4, <1>5, <1>6 DEF IInv, TypeOK, ToDevice, DeviceType
<1>9. VersionRan'
  BY <1>1, <1>3 DEF IInv, VersionRan, Ran
<1> QED BY <1>5, <1>7, <1>8, <1>9 DEF IInv

-----------------------------------------------------------------------------
LEMMA NextInv == ASSUME IInv, [Next]_vars PROVE IInv' /\ [FinalStep]_vars
<1>1. ASSUME NEW c \in Commands, ViewPublish(c) \/ ViewStep(c) \/ UpdateIsLate(c)
      PROVE  IInv' /\ FinalStep
  BY <1>1, ViewInv, RecordInv, LateInv DEF ViewStep
<1>2. ASSUME NEW c \in Commands, DeleteCommands({c})
      PROVE  IInv' /\ FinalStep
  BY <1>2, DeleteInv
<1>3. CASE DeleteCommands({c \in Commands : row[c].status # "absent"})
  BY <1>3, DeleteInv
<1>4. CASE DeviceStep
  <2>1. ASSUME NEW once \in BOOLEAN, Execute(once)
        PROVE  IInv' /\ FinalStep
    BY <2>1, ExecuteInv
  <2>2. CASE Wake \/ Listen \/ Sleep
    BY <2>2, PhaseInv
  <2>3. CASE PublishSensors \/ PublishOther \/ PublishCapabilities
    BY <2>3, PublicationInv
  <2> QED BY <1>4, <2>1, <2>2, <2>3 DEF DeviceStep
<1>5. CASE Handler
  BY <1>5, SeenInv, WakeUpInv, ContinueInv, CapabilitiesInv, AckInv DEF Handler
<1>6. CASE WorkerRestarts \/ GoesOffline \/ ClockExpires
  BY <1>6, PhaseInv
<1>7. CASE UNCHANGED vars
  BY <1>7 DEF vars, IInv, TypeOK, RowsBegin, UpIsTrue, Claims, VersionRan, Ran,
              UpdateSuccessIsTrue
<1> QED BY <1>1, <1>2, <1>3, <1>4, <1>5, <1>6, <1>7 DEF Next

THEOREM Invariance == Spec => []IInv
<1>1. Init => IInv
  BY InitInv
<1>2. IInv /\ [Next]_vars => IInv'
  BY NextInv
<1> QED BY <1>1, <1>2, PTL DEF Spec

\* Every row, queue and message keeps its type, the number of recorded commands
\* and the lengths of the queues their bounds.
THEOREM TypeCorrect == Spec => []TypeOK
<1>1. IInv => TypeOK
  BY DEF IInv
<1> QED BY <1>1, Invariance, PTL

\* Whatever acks, capabilities, timeouts and flushes still come for a command
\* that has concluded, and whatever is lost, repeated or restarted, its outcome
\* is never rewritten (the pending filters of services.py).
THEOREM ConcludedStays == Spec => TerminalIsFinal
<1>1. IInv /\ [Next]_vars => [FinalStep]_vars
  BY NextInv
<1> QED BY <1>1, Invariance, PTL DEF Spec, TerminalIsFinal, FinalStep

\* An update is shown as successful only for a version the device has run:
\* neither an ack, nor capabilities that name another version, nor a timeout
\* makes it so (services.py:278-295 and 1091-1097).
THEOREM UpdateIsTrue == Spec => []UpdateSuccessIsTrue
<1>1. IInv => UpdateSuccessIsTrue
  BY DEF IInv
<1> QED BY <1>1, Invariance, PTL

-----------------------------------------------------------------------------
(* An update is sent once.  Of Assumed, this needs that the broker does not *)
(* deliver a message twice.                                                 *)

NoCopy(w, c) == \A i \in 1 .. Len(w) : w[i].of # c
OneCopy(w, c) == \A i, j \in 1 .. Len(w) : w[i].of = c /\ w[j].of = c => i = j

\* The queue holds at most one message of an update, and none before its view
\* has published it or after the device has taken it.
UpdatesOnce ==
    \A c \in Commands : ActionOf[c] = "ota_update" =>
        /\ OneCopy(wire, c)
        /\ outcome[c] # {} => NoCopy(wire, c)
        /\ view[c] = "idle" => NoCopy(wire, c) /\ outcome[c] = {}

LEMMA ConcatCopies ==
    ASSUME NEW w \in Seq(ToDevice), NEW ms \in Seq(ToDevice), NEW c, NoCopy(ms, c)
    PROVE  /\ OneCopy(w, c) => OneCopy(w \o ms, c)
           /\ NoCopy(w, c) => NoCopy(w \o ms, c)
<1>1. /\ Len(w \o ms) = Len(w) + Len(ms) /\ Len(w) \in Nat /\ Len(ms) \in Nat
      /\ \A i \in 1 .. Len(w) : (w \o ms)[i] = w[i]
      /\ \A i \in 1 .. Len(w \o ms) : i > Len(w) => (w \o ms)[i] = ms[i - Len(w)]
  BY ConcatProperties, LenProperties
<1>2. \A i \in 1 .. Len(w \o ms) : (w \o ms)[i].of = c =>
         i \in 1 .. Len(w) /\ (w \o ms)[i] = w[i]
  <2> SUFFICES ASSUME NEW i \in 1 .. Len(w \o ms), i > Len(w)
               PROVE  (w \o ms)[i].of # c
    BY <1>1
  <2>1. i - Len(w) \in 1 .. Len(ms) /\ (w \o ms)[i] = ms[i - Len(w)]
    BY <1>1
  <2> QED BY <2>1 DEF NoCopy
<1>3. OneCopy(w, c) => OneCopy(w \o ms, c)
  BY <1>2 DEF OneCopy
<1>4. NoCopy(w, c) => NoCopy(w \o ms, c)
  BY <1>2 DEF NoCopy
<1> QED BY <1>3, <1>4

LEMMA NoneOfEmpty ==
    ASSUME NEW c \in Commands
    PROVE  OneCopy(<<>>, c) /\ NoCopy(<<>>, c)
<1>1. 1 .. Len(<<>>) = {}
  OBVIOUS
<1> QED BY <1>1 DEF OneCopy, NoCopy

LEMMA OneOther ==
    ASSUME NEW m \in ToDevice, NEW c, m.of # c
    PROVE  NoCopy(<<m>>, c)
BY DEF NoCopy

LEMMA FirstCopy ==
    ASSUME NEW w \in Seq(ToDevice), NEW m \in ToDevice, NEW c, NoCopy(w, c)
    PROVE  OneCopy(w \o <<m>>, c)
<1>1. /\ Len(w \o <<m>>) = Len(w) + 1 /\ Len(w) \in Nat
      /\ \A i \in 1 .. Len(w) : (w \o <<m>>)[i] = w[i]
  BY OneMessage, ConcatProperties, LenProperties
<1>2. \A i \in 1 .. Len(w \o <<m>>) : (w \o <<m>>)[i].of = c => i = Len(w) + 1
  BY <1>1 DEF NoCopy
<1> QED BY <1>2 DEF OneCopy

LEMMA TailCopies ==
    ASSUME NEW w \in Seq(ToDevice), w # <<>>, NEW c, OneCopy(w, c)
    PROVE  /\ OneCopy(Tail(w), c)
           /\ NoCopy(w, c) \/ Head(w).of = c => NoCopy(Tail(w), c)
<1>1. /\ Len(w) \in Nat \ {0} /\ Len(Tail(w)) = Len(w) - 1 /\ Head(w) = w[1]
      /\ \A i \in 1 .. Len(Tail(w)) : Tail(w)[i] = w[i + 1]
  BY EmptySeq, LenProperties, HeadTailProperties
<1>2. \A i \in 1 .. Len(Tail(w)) : i + 1 \in 1 .. Len(w) /\ Tail(w)[i] = w[i + 1]
  BY <1>1
<1>3. OneCopy(Tail(w), c)
  <2> SUFFICES ASSUME NEW i \in 1 .. Len(Tail(w)), NEW j \in 1 .. Len(Tail(w)),
                      Tail(w)[i].of = c, Tail(w)[j].of = c
               PROVE  i = j
    BY DEF OneCopy
  <2>1. i + 1 = j + 1
    BY <1>2 DEF OneCopy
  <2> QED BY <1>1, <2>1
<1>4. ASSUME NoCopy(w, c) \/ Head(w).of = c
      PROVE  NoCopy(Tail(w), c)
  <2> SUFFICES ASSUME NEW i \in 1 .. Len(Tail(w)), Tail(w)[i].of = c PROVE FALSE
    BY DEF NoCopy
  <2>1. i + 1 \in 1 .. Len(w) /\ w[i + 1].of = c
    BY <1>2
  <2>2. Head(w).of = c /\ w[1].of = c /\ 1 \in 1 .. Len(w)
    BY <1>1, <1>4, <2>1 DEF NoCopy
  <2>3. i + 1 = 1
    BY <2>1, <2>2 DEF OneCopy
  <2> QED BY <1>1, <2>3
<1> QED BY <1>3, <1>4

\* No step of a view goes back to idle.
Onward == \A c \in Commands : view'[c] = "idle" => view[c] = "idle"

LEMMA OnceKept ==
    ASSUME UpdatesOnce, outcome' = outcome, Onward, wire' = wire \/ wire' = <<>>
    PROVE  UpdatesOnce'
<1>1. ASSUME NEW c \in Commands, OneCopy(wire, c)
      PROVE  OneCopy(wire', c) /\ (NoCopy(wire, c) => NoCopy(wire', c))
  BY <1>1, EmptySeq DEF OneCopy, NoCopy
<1> QED BY <1>1 DEF UpdatesOnce, Onward, OneCopy, NoCopy

LEMMA OncePublish ==
    ASSUME TypeOK, UpdatesOnce, outcome' = outcome, Onward,
           NEW ms \in Seq(ToDevice), Publish(ms),
           \A c \in Commands : ActionOf[c] = "ota_update" => NoCopy(ms, c)
    PROVE  UpdatesOnce'
<1>1. wire \in Seq(ToDevice)
  BY TypeParts
<1>2. ASSUME NEW c \in Commands, ActionOf[c] = "ota_update", OneCopy(wire, c)
      PROVE  OneCopy(wire', c) /\ (NoCopy(wire, c) => NoCopy(wire', c))
  <2>1. /\ OneCopy(wire \o ms, c)
        /\ NoCopy(wire, c) => NoCopy(wire \o ms, c)
    BY <1>1, <1>2, ConcatCopies
  <2> QED BY <1>2, <2>1 DEF Publish
<1> QED BY <1>2 DEF UpdatesOnce, Onward, OneCopy, NoCopy

LEMMA OnceViewPublish ==
    ASSUME TypeOK, UpdatesOnce, NEW c \in Commands, ViewPublish(c)
    PROVE  UpdatesOnce'
<1> DEFINE m == Message(ActionOf[c], c)
<1>1. m \in ToDevice /\ m.of = c /\ wire \in Seq(ToDevice) /\ view \in [Commands -> Steps]
  BY ConstantFacts, TypeParts DEF Message, ToDevice, TypeOK
<1>2. view[c] = "idle" /\ view' = [view EXCEPT ![c] = "published"] /\ outcome' = outcome
      /\ (wire' = wire \o <<m>> \/ wire' = wire)
  BY DEF ViewPublish, Publish
<1> HIDE DEF m
<1> SUFFICES ASSUME NEW d \in Commands, ActionOf[d] = "ota_update"
             PROVE  /\ OneCopy(wire', d)
                    /\ outcome'[d] # {} => NoCopy(wire', d)
                    /\ view'[d] = "idle" => NoCopy(wire', d) /\ outcome'[d] = {}
  BY DEF UpdatesOnce, OneCopy, NoCopy
<1>3. CASE d = c
  <2>1. NoCopy(wire, d) /\ outcome[d] = {} /\ view'[d] = "published"
    BY <1>1, <1>2, <1>3 DEF UpdatesOnce
  <2>2. OneCopy(wire', d)
    BY <1>1, <1>2, <2>1, FirstCopy DEF UpdatesOnce
  <2> QED BY <1>2, <2>1, <2>2
<1>4. CASE d # c
  <2>1. <<m>> \in Seq(ToDevice) /\ NoCopy(<<m>>, d)
    BY <1>1, <1>4 DEF NoCopy
  <2>2. OneCopy(wire, d) /\ view'[d] = view[d]
    BY <1>1, <1>2, <1>4 DEF UpdatesOnce
  <2>3. OneCopy(wire', d) /\ (NoCopy(wire, d) => NoCopy(wire', d))
    BY <1>1, <1>2, <2>1, <2>2, ConcatCopies
  <2> QED BY <1>2, <2>2, <2>3 DEF UpdatesOnce
<1> QED BY <1>3, <1>4

LEMMA OnceWakeUp ==
    ASSUME TypeOK, UpdatesOnce, NEW sent \in BOOLEAN, NEW taken \in SUBSET Commands,
           SensorWakesUp(sent, taken)
    PROVE  UpdatesOnce'
<1>1. PICK order \in BySentAt(taken) :
        Publish(IF sent THEN Append(Flushed(taken, order), CapsRequest) ELSE Flushed(taken, order))
  BY DEF SensorWakesUp
<1>2. Cardinality(taken) \in Nat
  BY ConstantFacts, FS_Subset, FS_CardinalityType
<1>3. \A i \in 1 .. Cardinality(taken) :
         order[i] \in Commands /\ ActionOf[order[i]] # "ota_update"
  BY <1>1 DEF BySentAt, Unacked, SensorWakesUp
<1>4. /\ Flushed(taken, order) \in Seq(ToDevice) /\ Len(Flushed(taken, order)) = Cardinality(taken)
      /\ \A i \in 1 .. Len(Flushed(taken, order)) : Flushed(taken, order)[i].of = order[i]
  <2>1. \A i \in 1 .. Cardinality(taken) :
          /\ Message(ActionOf[order[i]], order[i]) \in ToDevice
          /\ Message(ActionOf[order[i]], order[i]).of = order[i]
    BY <1>3, ConstantFacts DEF Message, ToDevice
  <2>2. Flushed(taken, order) \in [1 .. Cardinality(taken) -> ToDevice]
    BY <2>1 DEF Flushed
  <2>3. Flushed(taken, order) \in Seq(ToDevice) /\ Len(Flushed(taken, order)) = Cardinality(taken)
    BY <1>2, <2>2
  <2> QED BY <2>1, <2>3 DEF Flushed
<1>5. ASSUME NEW c \in Commands, ActionOf[c] = "ota_update"
      PROVE  NoCopy(Flushed(taken, order), c)
  BY <1>3, <1>4, <1>5 DEF NoCopy
<1>6. CapsRequest \in ToDevice /\ CapsRequest.of = None
  BY ConstantFacts DEF CapsRequest, Message, ToDevice, Actions
<1>7. /\ Append(Flushed(taken, order), CapsRequest) \in Seq(ToDevice)
      /\ \A c \in Commands : ActionOf[c] = "ota_update" =>
            NoCopy(Append(Flushed(taken, order), CapsRequest), c)
  <2>1. /\ Append(Flushed(taken, order), CapsRequest) \in Seq(ToDevice)
        /\ Len(Append(Flushed(taken, order), CapsRequest)) = Len(Flushed(taken, order)) + 1
        /\ \A i \in 1 .. Len(Flushed(taken, order)) :
              Append(Flushed(taken, order), CapsRequest)[i] = Flushed(taken, order)[i]
        /\ Append(Flushed(taken, order), CapsRequest)[Len(Flushed(taken, order)) + 1] = CapsRequest
    BY <1>4, <1>6, AppendProperties
  <2>2. Len(Flushed(taken, order)) \in Nat
    BY <1>2, <1>4
  <2> SUFFICES ASSUME NEW c \in Commands, ActionOf[c] = "ota_update",
                      NEW i \in 1 .. Len(Append(Flushed(taken, order), CapsRequest))
               PROVE  Append(Flushed(taken, order), CapsRequest)[i].of # c
    BY <2>1 DEF NoCopy
  <2>3. CASE i \in 1 .. Len(Flushed(taken, order))
    BY <1>5, <2>1, <2>3 DEF NoCopy
  <2>4. CASE i = Len(Flushed(taken, order)) + 1
    BY <1>6, <2>1, <2>4, ConstantFacts
  <2> QED BY <2>1, <2>2, <2>3, <2>4
<1>8. outcome' = outcome /\ Onward
  BY DEF SensorWakesUp, Onward
<1> QED BY <1>1, <1>4, <1>5, <1>7, <1>8, OncePublish

LEMMA OnceExecute ==
    ASSUME TypeOK, UpdatesOnce, Execute(TRUE)
    PROVE  UpdatesOnce'
<1>1. /\ wire # <<>> /\ wire \in Seq(ToDevice) /\ view' = view
      /\ outcome \in [Commands -> SUBSET {"ok", "error"}]
  BY TypeParts DEF Execute
<1>2. wire' = Tail(wire) \/ wire' = <<>>
  BY DEF Execute, AnswerRequest, ExecuteSet, RefuseUpdate, Flash, AfterReceipt
<1>3. \A c \in Commands : Head(wire).of # c => outcome'[c] = outcome[c]
  BY <1>1 DEF Execute, AnswerRequest, ExecuteSet, RefuseUpdate, Flash
<1>4. Head(wire) = wire[1] /\ 1 \in 1 .. Len(wire)
  BY <1>1, EmptySeq, LenProperties, HeadTailProperties
<1> SUFFICES ASSUME NEW c \in Commands, ActionOf[c] = "ota_update"
             PROVE  /\ OneCopy(wire', c)
                    /\ outcome'[c] # {} => NoCopy(wire', c)
                    /\ view'[c] = "idle" => NoCopy(wire', c) /\ outcome'[c] = {}
  BY DEF UpdatesOnce, OneCopy, NoCopy
<1>5. OneCopy(wire, c)
  BY DEF UpdatesOnce
<1>6. OneCopy(<<>>, c) /\ NoCopy(<<>>, c)
  BY NoneOfEmpty
<1>7. /\ OneCopy(wire', c)
      /\ NoCopy(wire, c) \/ Head(wire).of = c => NoCopy(wire', c)
  BY <1>1, <1>2, <1>5, <1>6, TailCopies
<1>8. view[c] = "idle" => Head(wire).of # c
  BY <1>4 DEF UpdatesOnce, NoCopy
<1> QED BY <1>1, <1>3, <1>7, <1>8 DEF UpdatesOnce

LEMMA NextOnce ==
    ASSUME "no duplicates" \in Assumed, IInv, UpdatesOnce, [Next]_vars
    PROVE  UpdatesOnce'
<1>0. TypeOK /\ view \in [Commands -> Steps]
  BY DEF IInv, TypeOK
<1>1. ASSUME NEW c \in Commands, ViewPublish(c) \/ ViewStep(c) \/ UpdateIsLate(c)
      PROVE  UpdatesOnce'
  <2>1. CASE ViewPublish(c)
    BY <1>0, <2>1, OnceViewPublish
  <2>2. CASE ViewAsk(c)
    <3>1. CapsRequest \in ToDevice /\ CapsRequest.of = None
      BY ConstantFacts DEF CapsRequest, Message, ToDevice, Actions
    <3>2. <<CapsRequest>> \in Seq(ToDevice) /\ \A d \in Commands : NoCopy(<<CapsRequest>>, d)
      <4>1. \A d \in Commands : CapsRequest.of # d
        BY <3>1, ConstantFacts
      <4> QED BY <3>1, <4>1, OneOther, OneMessage
    <3>3. Publish(<<CapsRequest>>) /\ outcome' = outcome /\ Onward
      BY <1>0, <2>2 DEF ViewAsk, Onward
    <3> QED BY <1>0, <3>2, <3>3, OncePublish
  <2>3. CASE ViewRecord(c) \/ ViewAskFails(c) \/ ViewStartClock(c) \/ UpdateIsLate(c)
    <3>1. wire' = wire /\ outcome' = outcome
      BY <2>3 DEF ViewRecord, ViewAskFails, ViewStartClock, UpdateIsLate
    <3>2. Onward
      BY <1>0, <2>3 DEF ViewRecord, ViewAskFails, ViewStartClock, UpdateIsLate, Onward
    <3> QED BY <3>1, <3>2, OnceKept
  <2> QED BY <1>1, <2>1, <2>2, <2>3 DEF ViewStep
<1>2. ASSUME NEW cs, DeleteCommands(cs) PROVE UpdatesOnce'
  BY <1>2, OnceKept DEF DeleteCommands, Onward
<1>3. CASE Execute(TRUE)
  BY <1>0, <1>3, OnceExecute
<1>4. CASE Wake \/ Listen \/ PublishSensors \/ PublishOther \/ PublishCapabilities \/ Sleep
  <2>1. (wire' = wire \/ wire' = <<>>) /\ outcome' = outcome /\ view' = view
    BY <1>4 DEF Wake, Listen, PublishSensors, PublishOther, PublishCapabilities, Sleep
  <2> QED BY <2>1, OnceKept DEF Onward
<1>5. CASE DeviceStep
  BY <1>3, <1>4, <1>5 DEF DeviceStep
<1>6. CASE Handler
  <2>1. CASE \E sent \in BOOLEAN, taken \in SUBSET Commands : SensorWakesUp(sent, taken)
    BY <1>0, <2>1, OnceWakeUp
  <2>2. CASE SensorBegin \/ SensorContinues \/ HandleOther \/ HandleCapabilities \/ HandleAck
    BY <2>2, OnceKept
       DEF SensorBegin, SensorContinues, HandleOther, HandleCapabilities, HandleAck, Onward
  <2> QED BY <1>6, <2>1, <2>2 DEF Handler
<1>7. CASE WorkerRestarts \/ GoesOffline \/ ClockExpires \/ UNCHANGED vars
  BY <1>7, OnceKept DEF WorkerRestarts, GoesOffline, ClockExpires, vars, Onward
<1> QED BY <1>1, <1>2, <1>5, <1>6, <1>7 DEF Next

\* Once the device has taken an update, no message of it is on its way again:
\* the wake-up flush leaves ota_update out (services.py:346-348), and a view
\* publishes one once.  A broker that delivers twice is the only way around it.
THEOREM UpdatesAreSentOnce ==
    ASSUME "no duplicates" \in Assumed
    PROVE  Spec => []UpdateSentOnce
<1>1. Init => UpdatesOnce
  <2>1. \A c \in Commands : OneCopy(<<>>, c) /\ NoCopy(<<>>, c)
    BY NoneOfEmpty
  <2>2. Init => wire = <<>> /\ \A c \in Commands : outcome[c] = {}
    BY DEF Init
  <2> QED BY <2>1, <2>2 DEF UpdatesOnce
<1>2. IInv /\ UpdatesOnce /\ [Next]_vars => UpdatesOnce'
  BY NextOnce
<1>3. UpdatesOnce => UpdateSentOnce
  BY DEF UpdatesOnce, UpdateSentOnce, NoCopy
<1> QED BY <1>1, <1>2, <1>3, Invariance, PTL DEF Spec

-----------------------------------------------------------------------------
(* A wake-up is noticed.  Of Assumed, this needs that the device publishes  *)
(* its sensors before anything else and that nothing on its way is lost.    *)

HasSensors(u) == \E i \in 1 .. Len(u) : u[i].topic = "sensors"
SensorsLead(u) ==
    \A i \in 1 .. Len(u) : u[i].topic = "other" => \E j \in 1 .. i - 1 : u[j].topic = "sensors"

\* Until the first sensor message after an offline period is handled, the row
\* stays offline, and no other sign of life can overtake that message.
WakeIsAhead ==
    owed /\ work # "wake-up" =>
        /\ ~online /\ work = "idle" /\ SensorsLead(up)
        /\ device.phase = "greeted" => HasSensors(up)

LEMMA NothingLeads == SensorsLead(<<>>)
<1>1. 1 .. Len(<<>>) = {}
  OBVIOUS
<1> QED BY <1>1 DEF SensorsLead

LEMMA SendOrder ==
    ASSUME NEW u \in Seq(ToWorker), NEW m \in ToWorker, SensorsLead(u),
           m.topic = "other" => HasSensors(u)
    PROVE  /\ SensorsLead(Append(u, m))
           /\ HasSensors(u) \/ m.topic = "sensors" => HasSensors(Append(u, m))
<1> DEFINE v == Append(u, m)
<1>1. /\ Len(u) \in Nat /\ Len(v) = Len(u) + 1 /\ v[Len(u) + 1] = m
      /\ \A i \in 1 .. Len(u) : v[i] = u[i]
  BY AppendProperties, LenProperties
<1> HIDE DEF v
<1>2. ASSUME NEW i \in 1 .. Len(v), v[i].topic = "other"
      PROVE  \E j \in 1 .. i - 1 : v[j].topic = "sensors"
  <2>1. CASE i \in 1 .. Len(u)
    <3>1. PICK j \in 1 .. i - 1 : u[j].topic = "sensors"
      BY <1>1, <1>2, <2>1 DEF SensorsLead
    <3>2. j \in 1 .. Len(u) /\ v[j] = u[j]
      BY <1>1, <2>1
    <3> QED BY <3>1, <3>2
  <2>2. CASE i = Len(u) + 1
    <3>1. PICK j \in 1 .. Len(u) : u[j].topic = "sensors"
      BY <1>1, <1>2, <2>2 DEF HasSensors
    <3>2. j \in 1 .. i - 1 /\ v[j] = u[j]
      BY <1>1, <2>2
    <3> QED BY <3>1, <3>2
  <2> QED BY <1>1, <2>1, <2>2
<1>3. ASSUME HasSensors(u) \/ m.topic = "sensors"
      PROVE  HasSensors(v)
  <2>1. CASE m.topic = "sensors"
    BY <1>1, <2>1 DEF HasSensors
  <2>2. CASE HasSensors(u)
    <3>1. PICK i \in 1 .. Len(u) : u[i].topic = "sensors"
      BY <2>2 DEF HasSensors
    <3>2. i \in 1 .. Len(v) /\ v[i] = u[i]
      BY <1>1
    <3> QED BY <3>1, <3>2 DEF HasSensors
  <2> QED BY <1>3, <2>1, <2>2
<1>4. SensorsLead(v)
  BY <1>2 DEF SensorsLead
<1> QED BY <1>3, <1>4 DEF v

LEMMA TakeOrder ==
    ASSUME NEW u \in Seq(ToWorker), u # <<>>, SensorsLead(u), Head(u).topic # "sensors"
    PROVE  /\ SensorsLead(Tail(u)) /\ Head(u).topic # "other"
           /\ HasSensors(u) => HasSensors(Tail(u))
<1> DEFINE v == Tail(u)
<1>1. /\ Len(u) \in Nat \ {0} /\ Len(v) = Len(u) - 1 /\ Head(u) = u[1]
      /\ \A i \in 1 .. Len(v) : v[i] = u[i + 1]
  BY EmptySeq, LenProperties, HeadTailProperties
<1> HIDE DEF v
<1>2. ASSUME NEW i \in 1 .. Len(v), v[i].topic = "other"
      PROVE  \E j \in 1 .. i - 1 : v[j].topic = "sensors"
  <2>1. i + 1 \in 1 .. Len(u) /\ u[i + 1].topic = "other"
    BY <1>1, <1>2
  <2>2. PICK j \in 1 .. (i + 1) - 1 : u[j].topic = "sensors"
    BY <2>1 DEF SensorsLead
  <2>3. j # 1
    BY <1>1, <2>2
  <2>4. j - 1 \in 1 .. i - 1 /\ j - 1 \in 1 .. Len(v) /\ v[j - 1] = u[j]
    BY <1>1, <2>2, <2>3
  <2> QED BY <2>2, <2>4
<1>3. ASSUME HasSensors(u)
      PROVE  HasSensors(v)
  <2>1. PICK i \in 1 .. Len(u) : u[i].topic = "sensors"
    BY <1>3 DEF HasSensors
  <2>2. i - 1 \in 1 .. Len(v) /\ v[i - 1] = u[i]
    BY <1>1, <2>1
  <2> QED BY <2>1, <2>2 DEF HasSensors
<1>4. Head(u).topic # "other"
  <2> SUFFICES ASSUME u[1].topic = "other" PROVE FALSE
    BY <1>1
  <2>1. 1 \in 1 .. Len(u)
    BY <1>1
  <2> QED BY <2>1 DEF SensorsLead
<1>5. SensorsLead(v)
  BY <1>2 DEF SensorsLead
<1> QED BY <1>3, <1>4, <1>5 DEF v

\* A step that leaves the worker and its queue alone and greets nobody.
LEMMA AheadKept ==
    ASSUME WakeIsAhead, UNCHANGED <<owed, work, online, up>>,
           device'.phase = "greeted" => device.phase = "greeted"
    PROVE  WakeIsAhead'
BY DEF WakeIsAhead, SensorsLead, HasSensors

LEMMA AheadSend ==
    ASSUME TypeOK, WakeIsAhead, UNCHANGED <<owed, work, online>>,
           NEW m \in ToWorker, Send(m), m.topic = "other" => device.phase = "greeted",
           device'.phase = "greeted" => device.phase = "greeted" \/ m.topic = "sensors"
    PROVE  WakeIsAhead'
<1>1. up \in Seq(ToWorker) /\ up' = Append(up, m)
  BY TypeParts DEF Send
<1> SUFFICES ASSUME owed, work # "wake-up"
             PROVE  /\ ~online /\ work = "idle" /\ SensorsLead(up')
                    /\ device'.phase = "greeted" => HasSensors(up')
  BY DEF WakeIsAhead, SensorsLead, HasSensors
<1>2. /\ ~online /\ work = "idle" /\ SensorsLead(up)
      /\ device.phase = "greeted" => HasSensors(up)
  BY DEF WakeIsAhead
<1>3. /\ SensorsLead(Append(up, m))
      /\ HasSensors(up) \/ m.topic = "sensors" => HasSensors(Append(up, m))
  BY <1>1, <1>2, SendOrder
<1> QED BY <1>1, <1>2, <1>3

LEMMA AheadTake ==
    ASSUME TypeOK, WakeIsAhead, UNCHANGED <<owed, work, device>>,
           NEW topic \in {"other", "capabilities", "ack"}, Taken(topic),
           topic # "other" => online' = online
    PROVE  WakeIsAhead'
<1>1. /\ up \in Seq(ToWorker) /\ up # <<>> /\ up' = Tail(up) /\ work = "idle"
      /\ Head(up).topic = topic
  BY TypeParts DEF Taken
<1> SUFFICES ASSUME owed
             PROVE  /\ ~online' /\ work = "idle" /\ SensorsLead(up')
                    /\ device.phase = "greeted" => HasSensors(up')
  BY DEF WakeIsAhead, SensorsLead, HasSensors
<1>2. /\ ~online /\ SensorsLead(up)
      /\ device.phase = "greeted" => HasSensors(up)
  BY <1>1 DEF WakeIsAhead
<1>3. /\ SensorsLead(Tail(up)) /\ Head(up).topic # "other"
      /\ HasSensors(up) => HasSensors(Tail(up))
  BY <1>1, <1>2, TakeOrder
<1> QED BY <1>1, <1>2, <1>3

LEMMA NextAhead ==
    ASSUME {"sensors first", "no loss"} \subseteq Assumed, IInv, WakeIsAhead, [Next]_vars
    PROVE  WakeIsAhead'
<1>0. TypeOK /\ device \in DeviceType
  BY TypeParts DEF IInv
<1>1. ASSUME NEW c \in Commands, ViewPublish(c) \/ ViewStep(c) \/ UpdateIsLate(c)
      PROVE  WakeIsAhead'
  BY <1>1, AheadKept DEF ViewPublish, ViewStep, ViewRecord, ViewAsk, ViewAskFails,
     ViewStartClock, UpdateIsLate
<1>2. ASSUME NEW cs, DeleteCommands(cs) PROVE WakeIsAhead'
  BY <1>2, AheadKept DEF DeleteCommands
<1>3. ASSUME NEW once \in BOOLEAN, Execute(once) PROVE WakeIsAhead'
  <2>1. UNCHANGED <<owed, work, online>>
    BY <1>3 DEF Execute
  <2>2. device'.phase = "greeted" => device.phase = "greeted"
    BY <1>0, <1>3 DEF Execute, AnswerRequest, ExecuteSet, RefuseUpdate, Flash, DeviceType
  <2>3. CASE up' = up
    BY <2>1, <2>2, <2>3, AheadKept
  <2>4. ASSUME NEW m \in ToWorker, m.topic # "other", Send(m) PROVE WakeIsAhead'
    BY <1>0, <2>1, <2>2, <2>4, AheadSend
  <2>5. Capabilities(device.fw) \in ToWorker /\ Capabilities(device.fw).topic # "other"
    BY <1>0 DEF Capabilities, ToWorker, DeviceType
  <2>6. \A a \in Actions, s \in {"ok", "error"} :
           Ack(a, s) \in ToWorker /\ Ack(a, s).topic # "other"
    BY DEF Ack, ToWorker
  <2>7. "set" \in Actions /\ "ota_update" \in Actions
    BY DEF Actions
  <2> QED BY <1>3, <2>3, <2>4, <2>5, <2>6, <2>7
      DEF Execute, AnswerRequest, ExecuteSet, RefuseUpdate, Flash
<1>4. CASE Wake \/ Listen \/ Sleep
  <2>1. device'.phase # "greeted" /\ UNCHANGED <<owed, work, online, up>>
    BY <1>0, <1>4 DEF Wake, Listen, Sleep, DeviceType
  <2> QED BY <2>1, AheadKept
<1>5. CASE PublishSensors \/ PublishOther \/ PublishCapabilities
  <2>1. UNCHANGED <<owed, work, online>>
    BY <1>5 DEF PublishSensors, PublishOther, PublishCapabilities
  <2>2. /\ \A topic \in {"sensors", "other"} :
              Publication(topic) \in ToWorker /\ Publication(topic).topic = topic
        /\ Capabilities(device.fw) \in ToWorker /\ Capabilities(device.fw).topic = "capabilities"
    BY <1>0 DEF Publication, Capabilities, ToWorker, DeviceType
  <2>3. CASE PublishSensors
    BY <1>0, <2>1, <2>2, <2>3, AheadSend DEF PublishSensors
  <2>4. CASE PublishOther
    <3>1. device.phase = "greeted" /\ device' = device
      BY <2>4 DEF PublishOther, Publishing
    <3> QED BY <1>0, <2>1, <2>2, <2>4, <3>1, AheadSend DEF PublishOther
  <2>5. CASE PublishCapabilities
    BY <1>0, <2>1, <2>2, <2>5, AheadSend DEF PublishCapabilities
  <2> QED BY <1>5, <2>3, <2>4, <2>5
<1>6. CASE DeviceStep
  BY <1>3, <1>4, <1>5, <1>6 DEF DeviceStep
<1>7. CASE Handler
  <2>1. CASE SensorBegin
    BY <2>1 DEF SensorBegin, Taken, WakeIsAhead
  <2>2. CASE SensorContinues
    BY <2>2 DEF SensorContinues, WakeIsAhead
  <2>3. CASE \E sent \in BOOLEAN, taken \in SUBSET Commands : SensorWakesUp(sent, taken)
    BY <2>3 DEF SensorWakesUp, WakeIsAhead
  <2>4. CASE HandleOther
    BY <1>0, <2>4, AheadTake DEF HandleOther
  <2>5. CASE HandleCapabilities
    BY <1>0, <2>5, AheadTake DEF HandleCapabilities
  <2>6. CASE HandleAck
    BY <1>0, <2>6, AheadTake DEF HandleAck
  <2> QED BY <1>7, <2>1, <2>2, <2>3, <2>4, <2>5, <2>6 DEF Handler
<1>8. CASE GoesOffline
  <2>1. /\ up' = <<>> /\ work' = "idle" /\ ~online' /\ device'.phase # "greeted"
    BY <1>0, <1>8 DEF GoesOffline, DeviceType
  <2>2. SensorsLead(up')
    BY <2>1, NothingLeads
  <2> QED BY <2>1, <2>2 DEF WakeIsAhead, SensorsLead
<1>9. CASE ClockExpires \/ UNCHANGED vars
  BY <1>9, AheadKept DEF ClockExpires, vars
<1>10. ~WorkerRestarts
  BY DEF WorkerRestarts
<1> QED BY <1>1, <1>2, <1>6, <1>7, <1>8, <1>9, <1>10 DEF Next

\* The first sensor message after an offline period is handled as a wake-up
\* (docs/mqtt-protocol.md:486-491), whatever the device publishes after it and
\* the views do meanwhile: a device that publishes its sensors first cannot be
\* brought online by another message before them, unless one is lost.
THEOREM WakesAreNoticed ==
    ASSUME {"sensors first", "no loss"} \subseteq Assumed
    PROVE  Spec => WakeIsNoticed
<1>1. Init => WakeIsAhead
  <2>1. ASSUME Init
        PROVE  up = <<>> /\ work = "idle" /\ owed = ~online /\ device.phase = "asleep"
    BY <2>1 DEF Init
  <2>2. ASSUME Init PROVE SensorsLead(up)
    BY <2>1, <2>2, NothingLeads
  <2> QED BY <2>1, <2>2 DEF WakeIsAhead
<1>2. IInv /\ WakeIsAhead /\ [Next]_vars => WakeIsAhead'
  BY NextAhead
<1>3. WakeIsAhead => (SensorContinues => ~owed)
  BY DEF WakeIsAhead, SensorContinues
<1> QED BY <1>1, <1>2, <1>3, Invariance, PTL DEF Spec, WakeIsNoticed

=============================================================================
