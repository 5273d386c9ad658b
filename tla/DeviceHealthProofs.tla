------------------------- MODULE DeviceHealthProofs -------------------------
(***************************************************************************)
(* Proofs about DeviceHealth, for every set of intervals, every timeout,   *)
(* every horizon and every set of alert texts its assumptions allow.       *)
(***************************************************************************)
EXTENDS DeviceHealth, TLAPS

\* The alert columns agree with each other: no alert has no text and no clock.
AlertWellFormed == alert.level = "" => alert = Cleared

\* The inductive invariant.  ReleaseJustified needs ClockIsLastAssertion;
\* AlertProvenance needs that a cleared alert leaves no text behind for a status
\* message without a text to pick up.
IInv == TypeOK /\ AlertWellFormed /\ AlertProvenance /\ ClockIsLastAssertion

\* The constants, as the proofs use them.
LEMMA ConstantTypes ==
    /\ Intervals \subseteq Nat /\ 0 \in Intervals
    /\ DefaultOfflineTimeout \in Nat /\ CapabilitiesTimeout \in Nat /\ Horizon \in Nat
BY IntervalsAssumption, TimeoutsAssumption DEF IntervalsAssumption, TimeoutsAssumption

LEMMA MessageFacts ==
    /\ LowBattery \in Messages /\ "" \in Messages
    /\ NoCaps \notin Messages /\ NotText \notin Messages
BY MessagesAssumption DEF MessagesAssumption

LEMMA AgeFacts == Never \in Ages /\ 0 \in Ages /\ Never # 0
BY ConstantTypes DEF Ages, Never

\* An age stays an age when time passes.
LEMMA OlderType == ASSUME NEW a \in Ages PROVE Older(a) \in Ages
BY ConstantTypes DEF Older, Ages, Never

LEMMA ClearedType ==
    /\ Cleared \in [level : Levels, message : Messages \cup {NoCaps}, age : Ages]
    /\ Entry(Cleared) \in Entries
BY AgeFacts, MessageFacts DEF Cleared, Entry, Entries, Levels

LEMMA ClearedFields == Cleared.level = "" /\ Cleared.message = "" /\ Cleared.age = Never
BY DEF Cleared

LEMMA NoCapsAlertFields ==
    NoCapsAlert.level = "error" /\ NoCapsAlert.message = NoCaps /\ NoCapsAlert.age = 0
BY DEF NoCapsAlert

LEMMA NoCapsAlertType ==
    NoCapsAlert \in [level : Levels, message : Messages \cup {NoCaps}, age : Ages]
BY AgeFacts DEF NoCapsAlert, Levels

\* What an alert can be after the first part of the sensor handler.
LEMMA AfterTimeoutCases ==
    ASSUME TypeOK
    PROVE  /\ AfterTimeout \in [level : Levels, message : Messages \cup {NoCaps}, age : Ages]
           /\ \/ CapsOverdue /\ AfterTimeout = NoCapsAlert
              \/ ~CapsOverdue /\ Released /\ AfterTimeout = Cleared
              \/ /\ ~CapsOverdue /\ ~Released
                 /\ AfterTimeout.level = alert.level
                 /\ AfterTimeout.message = alert.message
                 /\ \/ AfterTimeout.age = alert.age
                    \/ alert.level # "" /\ alert.age = Never /\ AfterTimeout.age = 0
<1>1. CASE CapsOverdue
  BY <1>1, NoCapsAlertType DEF AfterTimeout
<1>2. CASE ~CapsOverdue /\ Released
  BY <1>2, ClearedType DEF AfterTimeout, Reconciled
<1>3. CASE ~CapsOverdue /\ ~Released
  <2>1. alert \in [level : Levels, message : Messages \cup {NoCaps}, age : Ages]
    BY DEF TypeOK
  <2>2. CASE alert.level # "" /\ alert.age = Never
    <3>1. AfterTimeout = [alert EXCEPT !.age = 0]
      BY <1>3, <2>2 DEF AfterTimeout, Reconciled
    <3> QED BY <1>3, <2>1, <2>2, <3>1, AgeFacts
  <2>3. CASE ~(alert.level # "" /\ alert.age = Never)
    <3>1. AfterTimeout = alert
      BY <1>3, <2>3 DEF AfterTimeout, Reconciled
    <3> QED BY <1>3, <2>1, <3>1
  <2> QED BY <2>2, <2>3
<1> QED BY <1>1, <1>2, <1>3

-----------------------------------------------------------------------------
LEMMA InitInv == Init => IInv
<1> SUFFICES ASSUME Init PROVE IInv
  OBVIOUS
<1>1. CASE seen = Never
  <2>1. /\ config = [approved |-> FALSE, interval |-> 0, diagCapable |-> FALSE]
        /\ alert = Cleared /\ report = Cleared
    BY <1>1 DEF Init, Never
  <2>2. Cleared \in [level : Levels, message : Messages \cup {NotText}, age : Ages]
    BY AgeFacts, MessageFacts DEF Cleared, Levels
  <2>3. TypeOK
    BY <1>1, <2>1, <2>2, ClearedType, AgeFacts, ConstantTypes DEF Init, TypeOK, Batteries
  <2>4. AlertWellFormed /\ AlertProvenance /\ ClockIsLastAssertion
    BY <2>1, MessageFacts
    DEF AlertWellFormed, AlertProvenance, ClockIsLastAssertion, DeviceAlert, Cleared
  <2> QED BY <2>3, <2>4 DEF IInv
<1>2. CASE seen # Never
  <2>1. PICK level \in {"warning", "error"}, message \in Messages :
          /\ alert = [level |-> level, message |-> message, age |-> Never]
          /\ report = [level |-> level, message |-> message, age |-> Never]
    BY <1>2 DEF Init
  <2>2. /\ alert.level = level /\ report.level = level
        /\ alert.message = message /\ report.message = message
        /\ alert.age = Never /\ report.age = Never
    BY <2>1
  <2>3. Entry(alert) \in Entries
    BY <2>2 DEF Entry, Entries, Levels
  <2>4. seen = 0 /\ config \in [approved : BOOLEAN, interval : Intervals, diagCapable : {FALSE}]
    BY <1>2 DEF Init
  <2>5. TypeOK
    BY <2>1, <2>3, <2>4, AgeFacts DEF Init, TypeOK, Batteries, Levels
  <2>6. AlertWellFormed /\ AlertProvenance /\ ClockIsLastAssertion
    BY <2>2, MessageFacts
    DEF AlertWellFormed, AlertProvenance, ClockIsLastAssertion, DeviceAlert
  <2> QED BY <2>5, <2>6 DEF IInv
<1> QED BY <1>1, <1>2

LEMMA SensorInv ==
    ASSUME IInv, NEW bat \in BatteryReports, NEW up \in ChannelStates, NEW sent \in BOOLEAN,
           SensorMessage(bat, up, sent)
    PROVE  IInv'
<1> USE DEF IInv
<1>1. alert' = Cleared \/ alert' = AfterTimeout
  BY DEF SensorMessage
<1>2. alert' \in [level : Levels, message : Messages \cup {NoCaps}, age : Ages]
  BY <1>1, ClearedType, AfterTimeoutCases
<1>3. TypeOK'
  <2>1. config' \in [approved : BOOLEAN, interval : Intervals, diagCapable : BOOLEAN]
        /\ report' \in [level : Levels, message : Messages \cup {NotText}, age : Ages]
    BY DEF SensorMessage, TypeOK
  <2>2. battery' \in Batteries
    BY DEF SensorMessage, TypeOK, Stored, Batteries, BatteryReports
  <2>3. seen' \in Ages /\ capsReq' \in Ages /\ polled' \in Ages
    BY AgeFacts DEF SensorMessage, TypeOK
  <2>4. Entry(alert') \in Entries
    BY <1>2 DEF Entry, Entries
  <2>5. tail' \in Entries /\ live' \in Entries
    BY <2>4, ClearedType DEF SensorMessage, TypeOK
  <2> QED BY <1>2, <2>1, <2>2, <2>3, <2>5 DEF TypeOK
<1>4. report' = report
  BY DEF SensorMessage
<1>5. CASE alert' = Cleared
  BY <1>3, <1>5, MessageFacts
  DEF AlertWellFormed, AlertProvenance, ClockIsLastAssertion, DeviceAlert, Cleared
<1>6. CASE alert' = AfterTimeout
  <2>1. CASE AfterTimeout = NoCapsAlert
    BY <1>3, <1>6, <2>1
    DEF AlertWellFormed, AlertProvenance, ClockIsLastAssertion, DeviceAlert, NoCapsAlert
  <2>2. CASE AfterTimeout = Cleared
    BY <1>5, <1>6, <2>2
  <2>3. CASE /\ AfterTimeout.level = alert.level
             /\ AfterTimeout.message = alert.message
             /\ \/ AfterTimeout.age = alert.age
                \/ alert.level # "" /\ alert.age = Never /\ AfterTimeout.age = 0
    <3>1. AlertWellFormed'
      <4>1. SUFFICES ASSUME alert'.level = "" PROVE alert' = Cleared
        BY DEF AlertWellFormed
      <4>2. alert.level = "" /\ alert = Cleared
        BY <1>6, <2>3, <4>1 DEF AlertWellFormed
      <4>3. /\ alert'.level = Cleared.level
            /\ alert'.message = Cleared.message
            /\ alert'.age = Cleared.age
        BY <1>6, <2>3, <4>2
      <4> QED BY <1>2, <4>3 DEF Cleared
    <3>2. AlertProvenance'
      BY <1>4, <1>6, <2>3 DEF AlertProvenance, DeviceAlert
    <3>3. ClockIsLastAssertion'
      BY <1>4, <1>6, <2>3 DEF ClockIsLastAssertion, DeviceAlert
    <3> QED BY <1>3, <3>1, <3>2, <3>3
  <2> QED BY <2>1, <2>2, <2>3, AfterTimeoutCases, <1>3
<1> QED BY <1>1, <1>3, <1>5, <1>6

\* What a status or diag report leaves latched.
LEMMA LatchedFacts ==
    ASSUME IInv, NEW level \in Levels, NEW message \in Messages \cup {NotText},
           alert' = Latched(level, message), report' = Said(level, message)
    PROVE  /\ alert' \in [level : Levels, message : Messages \cup {NoCaps}, age : Ages]
           /\ report' \in [level : Levels, message : Messages \cup {NotText}, age : Ages]
           /\ Entry(alert') \in Entries
           /\ AlertWellFormed' /\ AlertProvenance' /\ ClockIsLastAssertion'
<1>1. /\ report' \in [level : Levels, message : Messages \cup {NotText}, age : Ages]
      /\ report'.level = level /\ report'.age = 0
      /\ level # "" => report'.message = message
  BY AgeFacts, MessageFacts DEF Said
<1>2. CASE level = ""
  <2>1. alert' = Cleared
    BY <1>2 DEF Latched
  <2>2. alert'.level = "" /\ alert'.message = ""
    BY <2>1, ClearedFields
  <2>3. ~DeviceAlert' /\ alert'.message # NoCaps
    BY <2>2, MessageFacts DEF DeviceAlert
  <2>4. AlertWellFormed' /\ AlertProvenance' /\ ClockIsLastAssertion'
    BY <2>1, <2>3 DEF AlertWellFormed, AlertProvenance, ClockIsLastAssertion
  <2> QED BY <1>1, <2>1, <2>4, ClearedType
<1>3. CASE level # ""
  <2>1. /\ alert' = [level |-> level, age |-> 0,
                     message |-> IF message = NotText THEN alert.message ELSE message]
    BY <1>3 DEF Latched
  <2>2. alert.message \in Messages \cup {NoCaps}
    BY DEF IInv, TypeOK
  <2>3. /\ alert' \in [level : Levels, message : Messages \cup {NoCaps}, age : Ages]
        /\ alert'.level = level /\ alert'.age = 0
        /\ message # NotText => alert'.message = message
    <3> DEFINE text == IF message = NotText THEN alert.message ELSE message
    <3>1. text \in Messages \cup {NoCaps} /\ (message # NotText => text = message)
      BY <2>2
    <3>2. alert' = [level |-> level, age |-> 0, message |-> text]
      BY <2>1
    <3> HIDE DEF text
    <3> QED BY <3>1, <3>2, AgeFacts
  <2>4. Entry(alert') \in Entries
    BY <2>3 DEF Entry, Entries
  <2>5. AlertWellFormed'
    BY <1>3, <2>3 DEF AlertWellFormed
  <2>6. AlertProvenance'
    BY <1>1, <1>3, <2>3, MessageFacts DEF AlertProvenance, DeviceAlert
  <2>7. ClockIsLastAssertion'
    BY <1>1, <2>3 DEF ClockIsLastAssertion, DeviceAlert
  <2> QED BY <1>1, <2>3, <2>4, <2>5, <2>6, <2>7
<1> QED BY <1>2, <1>3

LEMMA StatusInv ==
    ASSUME IInv, NEW level \in Levels, NEW message \in Messages \cup {NotText},
           NEW up \in ChannelStates, StatusMessage(level, message, up)
    PROVE  IInv'
<1>1. alert' = Latched(level, message) /\ report' = Said(level, message)
  BY DEF StatusMessage
<1>2. TypeOK'
  BY <1>1, LatchedFacts, AgeFacts DEF StatusMessage, IInv, TypeOK
<1> QED BY <1>1, <1>2, LatchedFacts DEF IInv

LEMMA DiagInv ==
    ASSUME IInv, NEW level \in Levels, NEW message \in Messages,
           NEW up \in ChannelStates, DiagMessage(level, message, up)
    PROVE  IInv'
<1>1. alert' = Latched(level, message) /\ report' = Said(level, message)
  BY DEF DiagMessage
<1>2. tail' \in Entries /\ live' \in Entries
  BY <1>1, LatchedFacts DEF DiagMessage, IInv, TypeOK
<1>3. TypeOK'
  BY <1>1, <1>2, LatchedFacts, AgeFacts DEF DiagMessage, IInv, TypeOK
<1> QED BY <1>1, <1>3, LatchedFacts DEF IInv

LEMMA CapabilitiesInv ==
    ASSUME IInv, NEW diagCapable \in BOOLEAN, NEW interval \in Intervals,
           CapabilitiesMessage(diagCapable, interval)
    PROVE  IInv'
<1>1. alert' = Cleared \/ alert' = alert
  BY DEF CapabilitiesMessage
<1>2. TypeOK'
  <2>1. config' \in [approved : BOOLEAN, interval : Intervals, diagCapable : BOOLEAN]
    BY DEF CapabilitiesMessage, IInv, TypeOK
  <2>2. tail' \in Entries
    BY ClearedType DEF CapabilitiesMessage, IInv, TypeOK
  <2> QED BY <1>1, <2>1, <2>2, ClearedType, AgeFacts DEF CapabilitiesMessage, IInv, TypeOK
<1>3. report' = report
  BY DEF CapabilitiesMessage
<1>4. AlertWellFormed' /\ AlertProvenance' /\ ClockIsLastAssertion'
  <2>1. CASE alert' = Cleared
    BY <2>1, MessageFacts
    DEF AlertWellFormed, AlertProvenance, ClockIsLastAssertion, DeviceAlert, Cleared
  <2>2. CASE alert' = alert
    BY <1>3, <2>2
    DEF IInv, AlertWellFormed, AlertProvenance, ClockIsLastAssertion, DeviceAlert
  <2> QED BY <1>1, <2>1, <2>2
<1> QED BY <1>2, <1>4 DEF IInv

\* The steps that leave alert and report alone.
LEMMA OtherInv ==
    ASSUME IInv, SensorAborted \/ CommandsMessage \/ Operator
    PROVE  IInv'
<1>1. alert' = alert /\ report' = report
  BY DEF SensorAborted, CommandsMessage, Operator, Approve, EditInterval, RequestCapabilities
<1>2. TypeOK'
  <2>1. CASE SensorAborted
    BY <2>1, ClearedType DEF SensorAborted, IInv, TypeOK
  <2>2. CASE CommandsMessage
    BY <2>2, AgeFacts DEF CommandsMessage, IInv, TypeOK
  <2>3. CASE \E approved \in BOOLEAN : Approve(approved)
    BY <2>3 DEF Approve, IInv, TypeOK
  <2>4. CASE \E interval \in Intervals : EditInterval(interval)
    BY <2>4 DEF EditInterval, IInv, TypeOK
  <2>5. CASE RequestCapabilities
    BY <2>5, AgeFacts DEF RequestCapabilities, IInv, TypeOK
  <2> QED BY <2>1, <2>2, <2>3, <2>4, <2>5 DEF Operator
<1> QED
  BY <1>1, <1>2 DEF IInv, AlertWellFormed, AlertProvenance, ClockIsLastAssertion, DeviceAlert

LEMMA TickInv == ASSUME IInv, Tick PROVE IInv'
<1>1. alert.age \in Ages /\ report.age \in Ages
  BY DEF IInv, TypeOK
<1>2. /\ alert' \in [level : Levels, message : Messages \cup {NoCaps}, age : Ages]
      /\ alert'.level = alert.level /\ alert'.message = alert.message
      /\ alert'.age = Older(alert.age)
  BY <1>1, OlderType DEF Tick, IInv, TypeOK
<1>3. /\ report' \in [level : Levels, message : Messages \cup {NotText}, age : Ages]
      /\ report'.level = report.level /\ report'.message = report.message
      /\ report'.age = Older(report.age)
  BY <1>1, OlderType DEF Tick, IInv, TypeOK
<1>4. TypeOK'
  BY <1>2, <1>3, OlderType DEF Tick, IInv, TypeOK
<1>5. AlertWellFormed'
  <2>1. CASE alert.level = ""
    <3>1. alert' = [Cleared EXCEPT !.age = Older(@)]
      BY <2>1 DEF Tick, IInv, AlertWellFormed
    <3>2. Older(Never) = Never
      BY DEF Older
    <3> QED BY <3>1, <3>2 DEF AlertWellFormed, Cleared
  <2> QED BY <1>2, <2>1 DEF AlertWellFormed
<1>6. AlertProvenance'
  BY <1>2, <1>3 DEF IInv, AlertProvenance, DeviceAlert
<1>7. ClockIsLastAssertion'
  <2>1. DeviceAlert' => report.age \in {alert.age, Never}
    BY <1>2 DEF IInv, ClockIsLastAssertion, DeviceAlert
  <2> QED BY <1>2, <1>3, <2>1 DEF ClockIsLastAssertion, Older
<1> QED BY <1>4, <1>5, <1>6, <1>7 DEF IInv

-----------------------------------------------------------------------------
LEMMA NextInv == ASSUME IInv, [Next]_vars PROVE IInv'
<1>1. CASE Sensors
  BY <1>1, SensorInv DEF Sensors
<1>2. CASE SensorAborted
  BY <1>2, OtherInv
<1>3. CASE Reports
  BY <1>3, StatusInv, DiagInv DEF Reports
<1>4. CASE Replies
  BY <1>4, CapabilitiesInv, OtherInv DEF Replies
<1>5. CASE Operator
  BY <1>5, OtherInv
<1>6. CASE Tick
  BY <1>6, TickInv
<1>7. CASE UNCHANGED vars
  BY <1>7
  DEF vars, IInv, TypeOK, AlertWellFormed, AlertProvenance, ClockIsLastAssertion, DeviceAlert
<1> QED BY <1>1, <1>2, <1>3, <1>4, <1>5, <1>6, <1>7 DEF Next

\* The invariant the theorems below rest on.
THEOREM Invariance == Spec => []IInv
<1>1. Init => IInv
  BY InitInv
<1>2. IInv /\ [Next]_vars => IInv'
  BY NextInv
<1> QED BY <1>1, <1>2, PTL DEF Spec

\* Every column keeps its type in every interleaving of the worker's handlers,
\* the admin views and time (services.py, the whole of its handlers).
THEOREM TypeCorrect == Spec => []TypeOK
<1>1. IInv => TypeOK
  BY DEF IInv
<1> QED BY <1>1, Invariance, PTL

\* The latched alert is the server's own or the device's last word
\* (services.py:608-673, 934-1037 against 412-514 and 784-792).
THEOREM Provenance == Spec => []AlertProvenance
<1>1. IInv => AlertProvenance
  BY DEF IInv
<1> QED BY <1>1, Invariance, PTL

\* The staleness clock is never older nor newer than the device's last word.
THEOREM ClockSound == Spec => []ClockIsLastAssertion
<1>1. IInv => ClockIsLastAssertion
  BY DEF IInv
<1> QED BY <1>1, Invariance, PTL

-----------------------------------------------------------------------------
(* No alert is released without a reason: every step.                       *)

LEMMA SensorRelease ==
    ASSUME IInv, NEW bat \in BatteryReports, NEW up \in ChannelStates, NEW sent \in BOOLEAN,
           SensorMessage(bat, up, sent)
    PROVE  ReleaseStep
<1> SUFFICES ASSUME DeviceAlert, alert'.level = ""
             PROVE  \/ report.age > Window
                    \/ report.age = Never /\ alert.age > Window
                    \/ alert.message = LowBattery /\ battery' = "ok"
  BY DEF ReleaseStep
<1>1. CASE Recovered(bat, up)
  <2>1. AfterTimeout.message = LowBattery /\ battery' = "ok"
    BY <1>1 DEF Recovered, SensorMessage
  <2>2. AfterTimeout.level = "warning"
    BY <1>1 DEF Recovered
  <2>3. alert.message = LowBattery
    BY <2>1, <2>2, AfterTimeoutCases, ClearedFields, NoCapsAlertFields DEF IInv
  <2> QED BY <2>1, <2>3
<1>2. CASE ~Recovered(bat, up)
  <2>1. alert' = AfterTimeout
    BY <1>2 DEF SensorMessage
  <2>2. AfterTimeout # NoCapsAlert
    BY <2>1, NoCapsAlertFields
  <2>3. Released
    BY <2>1, <2>2, AfterTimeoutCases DEF IInv, DeviceAlert
  <2>4. alert.age > Window
    BY <2>3 DEF Released, Stale, DeviceAlert, Window
  <2> QED BY <2>4 DEF IInv, ClockIsLastAssertion
<1> QED BY <1>1, <1>2

LEMMA NextRelease == ASSUME IInv, [Next]_vars PROVE [ReleaseStep]_vars
<1>1. CASE Sensors
  BY <1>1, SensorRelease DEF Sensors
<1>2. CASE Reports
  <2>1. PICK level \in Levels, message \in Messages \cup {NotText} :
          alert' = Latched(level, message) /\ report' = Said(level, message)
    BY <1>2 DEF Reports, StatusMessage, DiagMessage
  <2>2. report'.level = level /\ report'.age = 0
    BY <2>1 DEF Said
  <2>3. level # "" => alert'.level = level
    BY <2>1 DEF Latched
  <2> QED BY <2>2, <2>3 DEF ReleaseStep
<1>3. CASE Replies
  <2>1. DeviceAlert => alert' = alert
    BY <1>3 DEF Replies, CapabilitiesMessage, CommandsMessage, DeviceAlert
  <2> QED BY <2>1 DEF ReleaseStep, DeviceAlert
<1>4. CASE SensorAborted \/ Operator
  <2>1. alert' = alert
    BY <1>4 DEF SensorAborted, Operator, Approve, EditInterval, RequestCapabilities
  <2> QED BY <2>1 DEF ReleaseStep, DeviceAlert
<1>5. CASE Tick
  <2>1. alert'.level = alert.level
    BY <1>5 DEF Tick, IInv, TypeOK
  <2> QED BY <2>1 DEF ReleaseStep, DeviceAlert
<1>6. CASE UNCHANGED vars
  BY <1>6
<1> QED BY <1>1, <1>2, <1>3, <1>4, <1>5, <1>6 DEF Next

\* A device-made alert is released only because the device said so, because it
\* has not been asserted for longer than the offline window, or because a low
\* battery recovered (services.py:401-473 and 571-605): no reply, no operator
\* action and no passing of time does it.
THEOREM ReleaseIsJustified == Spec => ReleaseJustified
<1>1. IInv /\ [Next]_vars => [ReleaseStep]_vars
  BY NextRelease
<1> QED BY <1>1, Invariance, PTL DEF Spec, ReleaseJustified

-----------------------------------------------------------------------------
(* The status timeline, while the channel layer is up.                      *)

LEMMA SensorTimeline ==
    ASSUME IInv, TimelineInSync,
           NEW bat \in BatteryReports, NEW up \in ChannelStates, NEW sent \in BOOLEAN,
           SensorMessage(bat, up, sent)
    PROVE  TimelineInSync'
<1>1. CASE Logged(bat, up)
  BY <1>1 DEF SensorMessage, TimelineInSync, Entry
<1>2. CASE ~Logged(bat, up)
  <2>1. alert' = AfterTimeout /\ tail' = tail
    BY <1>2 DEF Logged, SensorMessage
  <2>2. alert'.level = alert.level /\ alert'.message = alert.message
    BY <1>2, <2>1, AfterTimeoutCases DEF IInv, Logged
  <2> QED BY <2>1, <2>2 DEF TimelineInSync, Entry
<1> QED BY <1>1, <1>2

LEMMA NextTimeline ==
    ASSUME ChannelStates = {TRUE}, IInv, TimelineInSync, [Next]_vars
    PROVE  TimelineInSync'
<1>1. CASE Sensors
  BY <1>1, SensorTimeline DEF Sensors
<1>2. CASE Reports
  <2>1. CASE tail' = Entry(alert')
    BY <2>1 DEF TimelineInSync, Entry
  <2>2. CASE tail' # Entry(alert')
    <3>1. tail' = tail /\ Entry(alert') = Entry(alert)
      BY <1>2, <2>2 DEF Reports, StatusMessage, DiagMessage
    <3> QED BY <2>2, <3>1 DEF TimelineInSync
  <2> QED BY <2>1, <2>2
<1>3. CASE Replies
  BY <1>3 DEF Replies, CapabilitiesMessage, CommandsMessage, TimelineInSync, Entry
<1>4. CASE Operator
  BY <1>4 DEF Operator, Approve, EditInterval, RequestCapabilities, TimelineInSync, Entry
<1>5. CASE Tick
  <2>1. alert'.level = alert.level /\ alert'.message = alert.message /\ tail' = tail
    BY <1>5 DEF Tick, IInv, TypeOK
  <2> QED BY <2>1 DEF TimelineInSync, Entry
<1>6. CASE UNCHANGED vars
  BY <1>6 DEF vars, TimelineInSync, Entry
<1> QED BY <1>1, <1>2, <1>3, <1>4, <1>5, <1>6 DEF Next

\* Provided no broadcast fails, the newest status row is the alert of the
\* device after every handler: a forgotten or misplaced log row would break it.
THEOREM TimelineIsInSync == ASSUME ChannelStates = {TRUE} PROVE Spec => []TimelineInSync
<1>1. Init => TimelineInSync
  BY DEF Init, TimelineInSync
<1>2. IInv /\ TimelineInSync /\ [Next]_vars => TimelineInSync'
  BY NextTimeline
<1> QED BY <1>1, <1>2, Invariance, PTL DEF Spec

-----------------------------------------------------------------------------
(* The timeline when broadcasts may fail, and the open pages.               *)

\* A sensor message that logs nothing leaves level and text as they are.
LEMMA SensorUnlogged ==
    ASSUME IInv, NEW bat \in BatteryReports, NEW up \in ChannelStates, NEW sent \in BOOLEAN,
           SensorMessage(bat, up, sent), ~Logged(bat, up)
    PROVE  tail' = tail /\ live' = live /\ Entry(alert') = Entry(alert)
<1>1. alert' = AfterTimeout /\ tail' = tail /\ live' = live
  BY DEF Logged, SensorMessage
<1>2. alert'.level = alert.level /\ alert'.message = alert.message
  BY <1>1, AfterTimeoutCases DEF IInv, Logged
<1> QED BY <1>1, <1>2 DEF Entry

LEMMA NextLag == ASSUME IInv, TimelineOnlyLags, [Next]_vars PROVE TimelineOnlyLags'
<1> USE DEF TimelineOnlyLags
<1>0. Entry(Cleared)' = Entry(Cleared)
  BY DEF Entry, Cleared
<1>1. CASE Sensors
  <2>1. PICK bat \in BatteryReports, up \in ChannelStates, sent \in BOOLEAN :
          SensorMessage(bat, up, sent)
    BY <1>1 DEF Sensors
  <2>2. CASE Logged(bat, up)
    BY <2>1, <2>2 DEF SensorMessage, Entry
  <2>3. CASE ~Logged(bat, up)
    <3>1. tail' = tail /\ Entry(alert') = Entry(alert)
      BY <2>1, <2>3, SensorUnlogged
    <3> QED BY <1>0, <3>1 DEF Entry
  <2> QED BY <2>2, <2>3
<1>2. CASE Reports
  <2>1. \/ tail' = Entry(alert')
        \/ tail' = tail /\ Entry(alert') = Entry(alert)
    BY <1>2 DEF Reports, StatusMessage, DiagMessage
  <2> QED BY <1>0, <2>1 DEF Entry
<1>3. CASE SensorAborted
  BY <1>0, <1>3 DEF SensorAborted
<1>4. CASE Replies
  BY <1>0, <1>4 DEF Replies, CapabilitiesMessage, CommandsMessage, Entry
<1>5. CASE Operator
  BY <1>0, <1>5 DEF Operator, Approve, EditInterval, RequestCapabilities, Entry
<1>6. CASE Tick
  <2>1. alert'.level = alert.level /\ alert'.message = alert.message /\ tail' = tail
    BY <1>6 DEF Tick, IInv, TypeOK
  <2> QED BY <1>0, <2>1 DEF Entry
<1>7. CASE UNCHANGED vars
  BY <1>0, <1>7 DEF vars, Entry
<1> QED BY <1>1, <1>2, <1>3, <1>4, <1>5, <1>6, <1>7 DEF Next

\* Broadcasts that fail leave the timeline behind in one way only: it may show a
\* release the row never had (services.py:418-434 writes the log row first).
THEOREM TimelineLags == Spec => []TimelineOnlyLags
<1>1. Init => TimelineOnlyLags
  BY DEF Init, TimelineOnlyLags
<1>2. IInv /\ TimelineOnlyLags /\ [Next]_vars => TimelineOnlyLags'
  BY NextLag
<1> QED BY <1>1, <1>2, Invariance, PTL DEF Spec

LEMMA NextPages ==
    ASSUME ChannelStates = {TRUE}, IInv, PagesShowDeviceAlert, [Next]_vars
    PROVE  PagesShowDeviceAlert'
<1> USE DEF PagesShowDeviceAlert, DeviceAlert
<1>1. CASE Sensors
  <2>1. PICK bat \in BatteryReports, up \in ChannelStates, sent \in BOOLEAN :
          SensorMessage(bat, up, sent)
    BY <1>1 DEF Sensors
  <2>2. CASE Logged(bat, up)
    <3>1. alert'.level = "" \/ alert'.message = NoCaps
      BY <2>1, <2>2, AfterTimeoutCases, ClearedFields, NoCapsAlertFields
      DEF IInv, Logged, SensorMessage
    <3> QED BY <3>1
  <2>3. CASE ~Logged(bat, up)
    <3>1. live' = live /\ Entry(alert') = Entry(alert)
      BY <2>1, <2>3, SensorUnlogged
    <3> QED BY <3>1 DEF Entry
  <2> QED BY <2>2, <2>3
<1>2. CASE Reports
  <2>1. \/ live' = Entry(alert')
        \/ live' = live /\ Entry(alert') = Entry(alert)
    BY <1>2 DEF Reports, StatusMessage, DiagMessage
  <2> QED BY <2>1 DEF Entry
<1>3. CASE Replies
  BY <1>3, ClearedFields DEF Replies, CapabilitiesMessage, CommandsMessage, Entry
<1>4. CASE Operator
  BY <1>4 DEF Operator, Approve, EditInterval, RequestCapabilities, Entry
<1>5. CASE Tick
  <2>1. alert'.level = alert.level /\ alert'.message = alert.message /\ live' = live
    BY <1>5 DEF Tick, IInv, TypeOK
  <2> QED BY <2>1 DEF Entry
<1>6. CASE UNCHANGED vars
  BY <1>6 DEF vars, Entry
<1>7. ~(FALSE \in ChannelStates)
  OBVIOUS
<1> QED BY <1>1, <1>2, <1>3, <1>4, <1>5, <1>6, <1>7 DEF Next

\* Provided no broadcast fails, the open pages show every alert of the device:
\* no handler changes a device-made alert without telling them.
THEOREM PagesAreTold == ASSUME ChannelStates = {TRUE} PROVE Spec => []PagesShowDeviceAlert
<1>1. Init => PagesShowDeviceAlert
  BY DEF Init, PagesShowDeviceAlert
<1>2. IInv /\ PagesShowDeviceAlert /\ [Next]_vars => PagesShowDeviceAlert'
  BY NextPages
<1> QED BY <1>1, <1>2, Invariance, PTL DEF Spec

-----------------------------------------------------------------------------
(* The automatic get_diag.                                                  *)

\* What justifies a poll, as PollOnlyLiveAlert states it.
PollStep ==
    PollSent =>
          \/ alert'.message = NoCaps
          \/ alert.level # "" /\ alert.message # NoCaps /\ alert.age = Never
          \/ DeviceAlert /\ report.age # Never /\ report.age <= Window
          \/ DeviceAlert /\ report.age = Never /\ alert.age <= Window

LEMMA WindowType == ASSUME TypeOK PROVE Window \in Nat /\ alert.age \in Int
<1>1. config.interval \in Nat /\ alert.age \in Ages
  BY ConstantTypes DEF TypeOK
<1>2. Window \in Nat
  BY <1>1, ConstantTypes DEF Window, OfflineTimeout
<1> QED BY <1>1, <1>2, ConstantTypes DEF Ages, Never

LEMMA SensorPoll ==
    ASSUME IInv, NEW bat \in BatteryReports, NEW up \in ChannelStates, NEW sent \in BOOLEAN,
           SensorMessage(bat, up, sent)
    PROVE  PollStep
<1> SUFFICES ASSUME PollSent PROVE
          \/ alert'.message = NoCaps
          \/ DeviceAlert /\ alert.age = Never
          \/ DeviceAlert /\ report.age # Never /\ report.age <= Window
          \/ DeviceAlert /\ report.age = Never /\ alert.age <= Window
  BY DEF PollStep, DeviceAlert
<1>1. AfterTimeout.level # ""
  BY DEF SensorMessage, PollSent, PollDue
<1>2. CASE CapsOverdue /\ AfterTimeout = NoCapsAlert
  <2>1. ~Recovered(bat, up)
    BY <1>2, NoCapsAlertFields DEF Recovered
  <2> QED BY <1>2, <2>1, NoCapsAlertFields DEF SensorMessage
<1>3. CASE ~CapsOverdue /\ ~Released /\ AfterTimeout.level = alert.level
  <2>1. DeviceAlert /\ ~(alert.age > Window)
    BY <1>1, <1>3 DEF Released, Stale, DeviceAlert, Window
  <2>2. alert.age <= Window
    BY <2>1, WindowType DEF IInv
  <2>3. report.age \in {alert.age, Never}
    BY <2>1 DEF IInv, ClockIsLastAssertion
  <2> QED BY <2>1, <2>2, <2>3
<1> QED BY <1>1, <1>2, <1>3, AfterTimeoutCases, ClearedFields DEF IInv

LEMMA NextPoll == ASSUME IInv, [Next]_vars PROVE [PollStep]_vars
<1>1. CASE Sensors
  BY <1>1, SensorPoll DEF Sensors
<1>2. CASE SensorAborted \/ Reports \/ Replies \/ Operator
  <2>1. polled' = polled
    BY <1>2 DEF SensorAborted, Reports, StatusMessage, DiagMessage, Replies,
       CapabilitiesMessage, CommandsMessage, Operator, Approve, EditInterval, RequestCapabilities
  <2> QED BY <2>1 DEF PollStep, PollSent
<1>3. CASE Tick
  <2>1. polled \in Ages /\ polled' = Older(polled)
    BY <1>3 DEF IInv, TypeOK, Tick
  <2>2. ~PollSent
    BY <2>1, ConstantTypes DEF PollSent, Older, Ages, Never
  <2> QED BY <2>2 DEF PollStep
<1>4. CASE UNCHANGED vars
  BY <1>4
<1> QED BY <1>1, <1>2, <1>3, <1>4 DEF Next

\* The automatic get_diag is never sent for an alert that has outlived the
\* offline window, though the handler decides on the row as it was read before
\* the message (services.py:401-473 before 516-547).
THEOREM PollsOnlyForLiveAlerts == Spec => PollOnlyLiveAlert
<1>1. IInv /\ [Next]_vars => [PollStep]_vars
  BY NextPoll
<1>2. Spec => [][PollStep]_vars
  BY <1>1, Invariance, PTL DEF Spec
<1> QED BY <1>2, PTL DEF PollOnlyLiveAlert, PollStep

-----------------------------------------------------------------------------
(* The row implements AlertLatch.                                           *)

LEMMA LatchFacts ==
    /\ Latch!Nothing = Entry(Cleared)
    /\ Latch!Alert("error", NoCaps) = Entry(NoCapsAlert)
    /\ Latch!Alert("warning", LowBattery) = [level |-> "warning", message |-> LowBattery]
BY DEF Latch!Nothing, Latch!Alert, Entry, Cleared, NoCapsAlert

\* A step that claims nothing leaves the abstract claim alone.
LEMMA LatchBetween ==
    ASSUME Entry(report') = Entry(report)
    PROVE  Latch!Between
<1>1. UNCHANGED Entry(report)
  BY DEF Entry
<1>2. (battery = "ok")' \in BOOLEAN
  OBVIOUS
<1>3. Overdue' \in BOOLEAN
  <2>1. (alert'.age > Window') \in BOOLEAN /\ (report'.age > Window') \in BOOLEAN
    OBVIOUS
  <2> QED BY <2>1 DEF Overdue
<1> QED BY <1>1, <1>2, <1>3 DEF Latch!Between

\* A step that changes neither claim nor alert is a wait of the latch.
LEMMA LatchWaits ==
    ASSUME Entry(alert') = Entry(alert), Entry(report') = Entry(report)
    PROVE  Latch!Next
<1>1. Latch!Between
  BY LatchBetween
<1>2. UNCHANGED Entry(alert)
  BY DEF Entry
<1> QED BY <1>1, <1>2 DEF Latch!Next, Latch!Wait

LEMMA LatchSensor ==
    ASSUME IInv, NEW bat \in BatteryReports, NEW up \in ChannelStates, NEW sent \in BOOLEAN,
           SensorMessage(bat, up, sent)
    PROVE  Latch!Next
<1>1. report' = report
  BY DEF SensorMessage
<1>2. Latch!Between
  BY <1>1, LatchBetween DEF Entry
<1>3. TypeOK
  BY DEF IInv
<1>4. CASE Recovered(bat, up)
  <2>1. alert' = Cleared /\ battery' = "ok"
    BY <1>4 DEF SensorMessage, Recovered
  <2>2. AfterTimeout.level = "warning" /\ AfterTimeout.message = LowBattery
    BY <1>4 DEF Recovered
  <2>3. alert.level = "warning" /\ alert.message = LowBattery
    BY <1>3, <2>2, AfterTimeoutCases, ClearedFields, NoCapsAlertFields
  <2>4. Entry(alert) = Latch!Alert("warning", LowBattery)
    BY <2>3, LatchFacts DEF Entry
  <2>5. Entry(alert)' = Latch!Nothing
    BY <2>1, LatchFacts DEF Entry
  <2> QED BY <1>2, <2>1, <2>4, <2>5 DEF Latch!Next, Latch!Recover
<1>5. CASE ~Recovered(bat, up)
  <2>1. alert' = AfterTimeout
    BY <1>5 DEF SensorMessage
  <2>2. CASE AfterTimeout = NoCapsAlert
    <3>1. Entry(alert)' = Latch!Alert("error", NoCaps)
      BY <2>1, <2>2, LatchFacts DEF Entry
    <3> QED BY <1>2, <3>1 DEF Latch!Next, Latch!Flag
  <2>3. CASE Released /\ AfterTimeout = Cleared
    <3>1. Entry(alert)' = Latch!Nothing
      BY <2>1, <2>3, LatchFacts DEF Entry
    <3>2. CASE alert.message = NoCaps
      <4>1. Entry(alert).message = NoCaps
        BY <3>2 DEF Entry
      <4> QED BY <1>2, <3>1, <4>1 DEF Latch!Next, Latch!Unflag
    <3>3. CASE alert.message # NoCaps
      <4>1. Entry(alert).level # "" /\ DeviceAlert /\ alert.age > Window
        BY <2>3, <3>3 DEF Released, Stale, DeviceAlert, Window, Entry
      <4>2. Overdue
        BY <4>1 DEF Overdue, IInv, ClockIsLastAssertion
      <4> QED BY <1>2, <3>1, <4>1, <4>2 DEF Latch!Next, Latch!Expire
    <3> QED BY <3>2, <3>3
  <2>4. CASE AfterTimeout.level = alert.level /\ AfterTimeout.message = alert.message
    BY <1>1, <2>1, <2>4, LatchWaits DEF Entry
  <2> QED BY <1>3, <2>2, <2>3, <2>4, AfterTimeoutCases
<1> QED BY <1>4, <1>5

LEMMA LatchReport ==
    ASSUME IInv, NEW level \in Levels, NEW message \in Messages \cup {NotText},
           alert' = Latched(level, message), report' = Said(level, message),
           battery' = battery, config' = config
    PROVE  Latch!Next
<1>1. Entry(report)' = Latch!Alert(level, message)
  BY DEF Said, Entry, Latch!Alert
<1>2. Entry(alert)' =
        Latch!Alert(level, IF message = NotText THEN Entry(alert).message ELSE message)
  BY DEF Latched, Entry, Latch!Alert, Cleared
<1>3. Window' = Window /\ Window \in Nat
  BY WindowType DEF IInv, Window
<1>4. report'.age = 0
  BY DEF Said
<1>5. ~Overdue'
  BY <1>3, <1>4, AgeFacts DEF Overdue
<1>6. UNCHANGED (battery = "ok")
  OBVIOUS
<1>7. Latch!Claim(level, message)
  BY <1>1, <1>2, <1>5, <1>6 DEF Latch!Claim
<1> QED BY <1>7 DEF Latch!Next

LEMMA LatchStep == ASSUME IInv, [Next]_vars PROVE [Latch!Next]_(Latch!vars)
<1>1. CASE Sensors
  BY <1>1, LatchSensor DEF Sensors
<1>2. CASE Reports
  <2>1. PICK level \in Levels, message \in Messages \cup {NotText} :
          alert' = Latched(level, message) /\ report' = Said(level, message)
    BY <1>2 DEF Reports, StatusMessage, DiagMessage
  <2>2. battery' = battery /\ config' = config
    BY <1>2 DEF Reports, StatusMessage, DiagMessage
  <2> QED BY <2>1, <2>2, LatchReport
<1>3. CASE Replies
  <2>1. report' = report
    BY <1>3 DEF Replies, CapabilitiesMessage, CommandsMessage
  <2>2. CASE alert' = alert
    BY <2>1, <2>2, LatchWaits DEF Entry
  <2>3. CASE alert' # alert
    <3>1. alert.message = NoCaps /\ alert' = Cleared
      BY <1>3, <2>3 DEF Replies, CapabilitiesMessage, CommandsMessage
    <3>2. Entry(alert)' = Latch!Nothing /\ Entry(alert).message = NoCaps
      BY <3>1, LatchFacts DEF Entry
    <3>3. Latch!Between
      BY <2>1, LatchBetween DEF Entry
    <3> QED BY <3>2, <3>3 DEF Latch!Next, Latch!Unflag
  <2> QED BY <2>2, <2>3
<1>4. CASE SensorAborted \/ Operator \/ UNCHANGED vars
  <2>1. alert' = alert /\ report' = report
    BY <1>4 DEF SensorAborted, Operator, Approve, EditInterval, RequestCapabilities, vars
  <2> QED BY <2>1, LatchWaits DEF Entry
<1>5. CASE Tick
  <2>1. /\ alert'.level = alert.level /\ alert'.message = alert.message
        /\ report'.level = report.level /\ report'.message = report.message
    BY <1>5 DEF Tick, IInv, TypeOK
  <2> QED BY <2>1, LatchWaits DEF Entry
<1> QED BY <1>1, <1>2, <1>3, <1>4, <1>5 DEF Next

LEMMA LatchInit == Init => Latch!Init
<1> SUFFICES ASSUME Init PROVE Latch!Init
  OBVIOUS
<1>0. battery # "ok"
  BY DEF Init
<1>1. CASE seen = Never
  <2>1. alert = Cleared /\ report = Cleared
    BY <1>1 DEF Init, Never
  <2>2. TypeOK
    BY InitInv DEF IInv
  <2>3. alert.age = Never /\ report.age = Never /\ Window \in Nat
    BY <2>1, <2>2, ClearedFields, WindowType
  <2>4. ~Overdue
    BY <2>3 DEF Overdue, Never
  <2>5. Entry(report) = Latch!Nothing /\ Entry(alert) = Entry(report)
    BY <2>1, LatchFacts
  <2> QED BY <1>0, <2>4, <2>5 DEF Latch!Init
<1>2. CASE seen # Never
  <2>1. PICK level \in {"warning", "error"}, message \in Messages :
          /\ alert = [level |-> level, message |-> message, age |-> Never]
          /\ report = [level |-> level, message |-> message, age |-> Never]
    BY <1>2 DEF Init
  <2>2. Entry(report) = Latch!Alert(level, message) /\ Entry(alert) = Entry(report)
    BY <2>1 DEF Entry, Latch!Alert
  <2>3. TypeOK
    BY InitInv DEF IInv
  <2>4. report.age = Never /\ alert.age = Never /\ Window \in Nat
    BY <2>1, <2>3, WindowType
  <2>5. ~Overdue
    BY <2>4 DEF Overdue, Never
  <2>6. level \in Levels
    BY DEF Levels
  <2> QED BY <1>0, <2>2, <2>5, <2>6 DEF Latch!Init
<1> QED BY <1>1, <1>2

\* The alert of a row is the latch of docs/mqtt-protocol.md:88-104 under every
\* interleaving of the worker's handlers, the operator and time, whatever
\* broadcasts fail: a released alert comes back by a new claim only.
THEOREM LatchImplemented == Spec => ImplementsLatch
<1>1. Init => Latch!Init
  BY LatchInit
<1>2. IInv /\ [Next]_vars => [Latch!Next]_(Latch!vars)
  BY LatchStep
<1> QED BY <1>1, <1>2, Invariance, PTL DEF Spec, ImplementsLatch, Latch!Spec

=============================================================================
