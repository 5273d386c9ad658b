---------------------------- MODULE DeviceHealth ----------------------------
(***************************************************************************)
(* The health of one device row, as kept by the MQTT worker                *)
(* (src/web/mqtt_bridge/services.py) and the admin views: the latched      *)
(* alert, the clock that decides when it is stale, online detection, the   *)
(* capabilities-response timeout and the automatic get_diag poll.          *)
(*                                                                         *)
(* The worker is one thread (paho's loop_forever) and, apart from rename,  *)
(* merge and delete, the only writer of the alert columns, so a handler is *)
(* one action.  Handlers touch the row of one device only; one row is      *)
(* enough.  A definition named X_Y is X with a plausible bug Y; only the    *)
(* mutation runs use it.                                                   *)
(*                                                                         *)
(* Every timestamp column is compared only with "now", so a column is      *)
(* represented by its AGE: Never for NULL, 0 when written by this step,    *)
(* one more on every Tick, and saturating at Horizon, beyond every window  *)
(* the code compares with.                                                 *)
(***************************************************************************)
EXTENDS Integers

CONSTANTS
    Intervals,               \* values of publish_interval (0: not known)
    DefaultOfflineTimeout,   \* DEFAULT_OFFLINE_TIMEOUT
    CapabilitiesTimeout,     \* CAPABILITIES_RESPONSE_TIMEOUT
    Horizon,                 \* bound of every age
    Messages,                \* alert texts a device publishes
    ChannelStates            \* whether the channel layer (Redis) may be down

Never == -1
LowBattery == "low_battery"
NoCaps == "no_capabilities_response"
NotText == "not text"        \* a "message" that is JSON but not a string

OfflineTimeout(i) == IF i > 0 THEN 3 * i ELSE DefaultOfflineTimeout

CapsWindow(i) == IF 3 * i > CapabilitiesTimeout THEN 3 * i ELSE CapabilitiesTimeout

\* Ten times _diag_poll_cooldown: 1.1 intervals, or the default.
Cooldown10(i) == IF i > 0 THEN 11 * i ELSE 10 * DefaultOfflineTimeout

ASSUME IntervalsAssumption == Intervals \subseteq Nat /\ 0 \in Intervals
ASSUME TimeoutsAssumption ==
    /\ DefaultOfflineTimeout \in Nat \ {0}
    /\ CapabilitiesTimeout \in Nat
    /\ Horizon \in Nat
    /\ \A i \in Intervals :
          OfflineTimeout(i) < Horizon /\ CapsWindow(i) < Horizon
ASSUME MessagesAssumption ==
    /\ Messages \subseteq STRING
    /\ LowBattery \in Messages /\ "" \in Messages
    /\ NoCaps \notin Messages /\ NotText \notin Messages
ASSUME ChannelAssumption == TRUE \in ChannelStates /\ ChannelStates \subseteq BOOLEAN

VARIABLES
    config,    \* [approved, interval, diagCapable]
    battery,   \* battery_status of the stored battery_percent
    seen,      \* age of last_seen; Never: the device is not in the database
    alert,     \* [level, message, age]: the alert columns
    capsReq,   \* age of capabilities_requested_at
    polled,    \* age of diag_requested_at
    tail,      \* [level, message] of the newest DeviceStatusLog row
    live,      \* [level, message] last broadcast to the open pages
    report     \* history: [level, message, age] the device last said of itself

vars == <<config, battery, seen, alert, capsReq, polled, tail, live, report>>

Ages == Never .. Horizon
Levels == {"", "warning", "error"}
\* "low" stands for low and critical, which the code never tells apart here.
Batteries == {"unknown", "low", "ok"}
BatteryReports == {"absent", "low", "ok"}
Entries == [level : Levels, message : Messages \cup {NoCaps}]

TypeOK ==
    /\ config \in [approved : BOOLEAN, interval : Intervals, diagCapable : BOOLEAN]
    /\ battery \in Batteries
    /\ seen \in Ages
    /\ alert \in [level : Levels, message : Messages \cup {NoCaps}, age : Ages]
    /\ capsReq \in Ages
    /\ polled \in Ages
    /\ tail \in Entries
    /\ live \in Entries
    /\ report \in [level : Levels, message : Messages \cup {NotText}, age : Ages]

-----------------------------------------------------------------------------
(* What the handlers read. *)

Entry(a) == [level |-> a.level, message |-> a.message]
Cleared == [level |-> "", message |-> "", age |-> Never]
NoCapsAlert == [level |-> "error", message |-> NoCaps, age |-> 0]

Known == seen # Never
IsOnline == seen # Never /\ seen < OfflineTimeout(config.interval)

\* The server-made alert goes on any sensor message; a device-made one once
\* it has not been re-published for longer than the offline window.
Stale_AtWindow == alert.level # "" /\ alert.age >= OfflineTimeout(config.interval)
Stale == alert.level # "" /\ alert.age > OfflineTimeout(config.interval)
Released == alert.message = NoCaps \/ Stale

Reconciled_KeepText ==
    IF Released THEN [alert EXCEPT !.level = "", !.age = Never]
    ELSE IF alert.level # "" /\ alert.age = Never THEN [alert EXCEPT !.age = 0]
    ELSE alert
Reconciled_KeepNull == IF Released THEN Cleared ELSE alert
\* An alert latched before its clock existed only gets its clock started.
Reconciled ==
    IF Released THEN Cleared
    ELSE IF alert.level # "" /\ alert.age = Never THEN [alert EXCEPT !.age = 0]
    ELSE alert

\* A device still online that has left a capabilities request unanswered.
CapsOverdue == IsOnline /\ capsReq # Never /\ capsReq > CapsWindow(config.interval)
AfterTimeout == IF CapsOverdue THEN NoCapsAlert ELSE Reconciled

\* The automatic get_diag.  last_seen was just refreshed, so is_online holds;
\* the battery is the one stored by an earlier message.
PollDue_StaleAlert ==
    /\ config.approved
    /\ alert.level # ""
    /\ config.diagCapable
    /\ battery # "low"
    /\ polled = Never \/ 10 * polled >= Cooldown10(config.interval)
PollDue ==
    /\ config.approved
    /\ AfterTimeout.level # ""
    /\ config.diagCapable
    /\ battery # "low"
    /\ polled = Never \/ 10 * polled >= Cooldown10(config.interval)

\* The readings of this message, once stored, show the battery is fine.  The
\* channel layer being down aborts the loop before anything is stored.
Stored(bat, up) == config.approved /\ up /\ bat # "absent"
Recovered(bat, up) ==
    /\ Stored(bat, up)
    /\ bat = "ok"
    /\ AfterTimeout.level = "warning"
    /\ AfterTimeout.message = LowBattery

\* The handler adds a DeviceStatusLog row; the newest one is the final alert.
Logged_NotTimeout(bat, up) == Released \/ Recovered(bat, up)
Logged(bat, up) == Released \/ CapsOverdue \/ Recovered(bat, up)

-----------------------------------------------------------------------------
(* The worker's handlers.  An exception ends a handler where it is raised   *)
(* and the message is gone.                                                 *)

\* handle_sensor_message.  bat is the battery level the readings carry, up
\* whether the channel layer accepts broadcasts, sent whether the broker
\* accepts the capabilities request of a wake-up.
SensorMessage(bat, up, sent) ==
    /\ up \/ ~Released
    /\ seen' = 0
    /\ alert' = IF Recovered(bat, up) THEN Cleared ELSE AfterTimeout
    /\ battery' = IF Stored(bat, up) THEN bat ELSE battery
    /\ capsReq' = IF ~IsOnline THEN (IF sent THEN 0 ELSE capsReq)
                  ELSE IF CapsOverdue THEN Never ELSE capsReq
    /\ polled' = IF PollDue THEN 0 ELSE polled
    /\ tail' = IF Logged(bat, up) THEN Entry(alert') ELSE tail
    /\ live' = IF Released \/ Recovered(bat, up) THEN Entry(Cleared) ELSE live
    /\ UNCHANGED <<config, report>>

\* The same, when the alert is to be released but the broadcast of the release
\* raises: the log row is written, the row's save is never reached.
SensorAborted ==
    /\ Released
    /\ tail' = Entry(Cleared)
    /\ UNCHANGED <<config, battery, seen, alert, capsReq, polled, live, report>>

\* What a device says of itself, latched by the status and diag handlers.
Latched_RawText(level, message) ==
    IF level = "" THEN Cleared ELSE [level |-> level, age |-> 0, message |-> message]
Latched_FirstText(level, message) ==
    IF level = "" THEN Cleared
    ELSE [level |-> level, age |-> 0,
          message |-> IF alert.message # "" THEN alert.message ELSE message]
Latched(level, message) ==
    IF level = "" THEN Cleared
    ELSE [level |-> level, age |-> 0,
          message |-> IF message = NotText THEN alert.message ELSE message]
Said(level, message) ==
    [level |-> level, message |-> IF level = "" THEN "" ELSE message, age |-> 0]

\* handle_status_message.  "ok" and an absent level both clear; a message that
\* is not a string leaves the stored one.
StatusMessage(level, message, up) ==
    /\ Known
    /\ alert' = Latched(level, message)
    /\ seen' = 0
    /\ tail' = Entry(alert')
    /\ live' = IF up THEN Entry(alert') ELSE live
    /\ report' = Said(level, message)
    /\ UNCHANGED <<config, battery, capsReq, polled>>

DiagMessage_NoClock(level, message, up) ==
    /\ Known
    /\ alert' = IF Entry(alert) = [level |-> level, message |-> message]
                THEN alert ELSE Latched(level, message)
    /\ seen' = 0
    /\ tail' = Entry(alert')
    /\ live' = IF up THEN Entry(alert') ELSE live
    /\ report' = Said(level, message)
    /\ UNCHANGED <<config, battery, capsReq, polled>>
DiagMessage_LevelOnly(level, message, up) ==
    /\ Known
    /\ alert' = Latched(level, message)
    /\ seen' = 0
    /\ tail' = Entry(alert')
    /\ live' = IF up /\ level # alert.level THEN Entry(alert') ELSE live
    /\ report' = Said(level, message)
    /\ UNCHANGED <<config, battery, capsReq, polled>>

\* handle_diag_message.  "ok" and "info" clear; only a change is logged.
DiagMessage(level, message, up) ==
    /\ Known
    /\ alert' = Latched(level, message)
    /\ seen' = 0
    /\ IF Entry(alert') # Entry(alert)
       THEN /\ tail' = Entry(alert')
            /\ live' = IF up THEN Entry(alert') ELSE live
       ELSE UNCHANGED <<tail, live>>
    /\ report' = Said(level, message)
    /\ UNCHANGED <<config, battery, capsReq, polled>>

\* handle_capabilities_message: the flag and the interval change only when the
\* payload carries them; a pending request is answered; last_seen is left alone.
CapabilitiesMessage(diagCapable, interval) ==
    /\ Known
    /\ config' = [config EXCEPT !.diagCapable = diagCapable, !.interval = interval]
    /\ capsReq' = Never
    /\ IF alert.level = "error" /\ alert.message = NoCaps
       THEN alert' = Cleared /\ tail' = Entry(Cleared)
       ELSE UNCHANGED <<alert, tail>>
    /\ UNCHANGED <<battery, seen, polled, live, report>>

\* handle_commands_message and handle_calibration_message: for the health of
\* the device, a sign of life.
CommandsMessage ==
    /\ Known
    /\ seen' = 0
    /\ UNCHANGED <<config, battery, alert, capsReq, polled, tail, live, report>>

-----------------------------------------------------------------------------
(* The admin views, and time.                                               *)

Approve(approved) ==
    /\ Known
    /\ config' = [config EXCEPT !.approved = approved]
    /\ UNCHANGED <<battery, seen, alert, capsReq, polled, tail, live, report>>

EditInterval(interval) ==
    /\ Known
    /\ config' = [config EXCEPT !.interval = interval]
    /\ UNCHANGED <<battery, seen, alert, capsReq, polled, tail, live, report>>

\* request_capabilities from the device page or after a command, accepted by
\* the broker.
RequestCapabilities ==
    /\ Known
    /\ capsReq' = 0
    /\ UNCHANGED <<config, battery, seen, alert, polled, tail, live, report>>

Older(age) == IF age = Never \/ age = Horizon THEN age ELSE age + 1

Tick ==
    /\ seen' = Older(seen)
    /\ alert' = [alert EXCEPT !.age = Older(@)]
    /\ capsReq' = Older(capsReq)
    /\ polled' = Older(polled)
    /\ report' = [report EXCEPT !.age = Older(@)]
    /\ UNCHANGED <<config, battery, tail, live>>

-----------------------------------------------------------------------------
\* A device not yet discovered, or one whose alert was latched before the
\* column of its clock was added (migration 0012).
Init ==
    /\ battery = "unknown" /\ capsReq = Never /\ polled = Never
    /\ \/ /\ config = [approved |-> FALSE, interval |-> 0, diagCapable |-> FALSE]
          /\ seen = Never
          /\ alert = Cleared
          /\ report = Cleared
       \/ /\ config \in [approved : BOOLEAN, interval : Intervals, diagCapable : {FALSE}]
          /\ seen = 0
          /\ \E level \in {"warning", "error"}, message \in Messages :
                /\ alert = [level |-> level, message |-> message, age |-> Never]
                /\ report = [level |-> level, message |-> message, age |-> Never]
    /\ tail = Entry(alert) /\ live = Entry(alert)

Sensors == \E bat \in BatteryReports, up \in ChannelStates, sent \in BOOLEAN :
              SensorMessage(bat, up, sent)
Reports == \E level \in Levels, up \in ChannelStates :
              \/ \E message \in Messages \cup {NotText} : StatusMessage(level, message, up)
              \/ \E message \in Messages : DiagMessage(level, message, up)
Replies == \/ \E diagCapable \in BOOLEAN, interval \in Intervals :
                 CapabilitiesMessage(diagCapable, interval)
           \/ CommandsMessage
Operator == \/ \E approved \in BOOLEAN : Approve(approved)
            \/ \E interval \in Intervals : EditInterval(interval)
            \/ RequestCapabilities

Next == \/ Sensors
        \/ FALSE \in ChannelStates /\ SensorAborted
        \/ Reports
        \/ Replies
        \/ Operator
        \/ Tick

Spec == Init /\ [][Next]_vars

\* Time passes, the worker keeps running and the device keeps publishing its
\* readings; nothing else has to happen.
FairSpec == Spec /\ WF_vars(Tick) /\ WF_vars(Sensors)

-----------------------------------------------------------------------------
(* Properties. *)

DeviceAlert == alert.level # "" /\ alert.message # NoCaps
Window == OfflineTimeout(config.interval)
PollSent == polled # 0 /\ polled' = 0

\* The alert shown for a device is never a mixture: it is the server's own
\* capabilities alert, or level and text of what the device last said of itself
\* on status or diag (a status whose text is not a string keeps the old text).
AlertProvenance ==
    /\ DeviceAlert => /\ alert.level = report.level
                      /\ report.message # NotText => alert.message = report.message
    /\ alert.message = NoCaps => alert.level = "error" \/ report.message = NotText

\* alert_updated_at is the moment the device last asserted the alert, in every
\* interleaving of messages, except for an alert older than the column.
ClockIsLastAssertion ==
    DeviceAlert => report.age \in {alert.age, Never}

\* A device-made alert goes only when the device says so, when it has not been
\* asserted for longer than the offline window (for an alert older than its
\* clock: since the clock was started), or when a low battery has recovered.
ReleaseStep ==
    DeviceAlert /\ alert'.level = "" =>
        \/ report'.level = "" /\ report'.age = 0
        \/ report.age > Window
        \/ report.age = Never /\ alert.age > Window
        \/ alert.message = LowBattery /\ battery' = "ok"
ReleaseJustified == [][ReleaseStep]_vars

\* The newest row of the status timeline is the alert of the device, whatever
\* handler changed it last (the timeline is drawn from these rows).
TimelineInSync == tail = Entry(alert)

\* The open pages show every alert the device has raised, whatever handlers ran
\* since: only the server's own alert changes without a broadcast.
PagesShowDeviceAlert == DeviceAlert => live = Entry(alert)

\* With a channel layer that can be down, the timeline may show a release the
\* row has not had, and never an alert the row does not have.
TimelineOnlyLags == tail \in {Entry(alert), Entry(Cleared)}

\* The automatic get_diag is sent for the alert as it stands after this
\* message: one the device asserted within the window (or whose clock starts
\* now), or the capabilities alert raised by this very message.
PollOnlyLiveAlert ==
    [][PollSent =>
          \/ alert'.message = NoCaps
          \/ alert.level # "" /\ alert.message # NoCaps /\ alert.age = Never
          \/ DeviceAlert /\ report.age # Never /\ report.age <= Window
          \/ DeviceAlert /\ report.age = Never /\ alert.age <= Window]_vars

\* Once the device has stopped reporting problems and nobody asks it for its
\* capabilities, no alert is latched for ever: the sensor messages of a device
\* that keeps publishing release it.
Complains == report.level # "" /\ report.age = 0
AlertsAreReleased ==
    <>[]~Complains /\ <>[][~RequestCapabilities]_vars => []<>(alert.level = "")

\* The row under its handlers, the operator and time is the latch the protocol
\* promises: level and text change together, for one of its reasons, and an alert
\* once released comes back only when the device claims it again.
Overdue == IF report.age = Never THEN alert.age > Window ELSE report.age > Window
Latch == INSTANCE AlertLatch WITH
    shown <- Entry(alert), claim <- Entry(report), overdue <- Overdue,
    fine <- battery = "ok", Texts <- Messages, NoText <- NotText,
    ServerText <- NoCaps, LowText <- LowBattery
ImplementsLatch == Latch!Spec

=============================================================================
