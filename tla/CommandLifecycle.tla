-------------------------- MODULE CommandLifecycle --------------------------
(***************************************************************************)
(* The life of the commands sent to one device: the web views that publish *)
(* and record them (devices/views.py, ota/services.py), the broker, the    *)
(* device, and the worker's handlers that resolve them                     *)
(* (mqtt_bridge/services.py).                                              *)
(*                                                                         *)
(* A view runs in a web process, concurrently with the worker, and without *)
(* a transaction: each of its calls that touches the broker or the         *)
(* database is a step.  The worker handles one message at a time; its      *)
(* sensor handler reads the row first and writes much later, in two steps. *)
(* The broker and the device are not part of the repository; they are      *)
(* modelled from the protocol the code relies on, and what is assumed of   *)
(* them is the constant Assumed.                                           *)
(*                                                                         *)
(* Time is abstracted to what the code derives from it: whether the device *)
(* is online, whether the capabilities request has expired, whether an     *)
(* ota_update is late.  A definition named X_Y is X with a plausible bug Y; *)
(* only the mutation runs use it.                                          *)
(***************************************************************************)
EXTENDS Naturals, Sequences, FiniteSets

CONSTANTS
    Commands,      \* commands users send, each once
    ActionOf,      \* [Commands -> Actions]
    Assumed,       \* what is assumed of the broker and the device
    MaxWire,       \* bound: messages queued for the device
    MaxUp          \* bound: messages queued for the worker

\* "set" stands for every command the device acknowledges.
Actions == {"set", "ota_update", "request_capabilities"}
Assumptions == {
    "persistent session",   \* the broker queues for a device that sleeps
    "long sleeps",          \* a sleep outlasts the offline window
    "short sleeps",         \* a sleep never outlasts the offline window
    "patient",              \* awake until it has nothing left to process
    "sensors first",        \* a wake-up publishes sensors before anything else
    "no loss",              \* no message to the worker is lost
    "no duplicates"}        \* no QoS 1 redelivery
None == "none"    \* stands for a message no command is behind

ASSUME CommandsAssumption ==
    /\ IsFiniteSet(Commands) /\ None \notin Commands
    /\ ActionOf \in [Commands -> Actions]
    /\ Assumed \subseteq Assumptions
    /\ MaxWire \in Nat /\ MaxUp \in Nat \ {0}

VARIABLES
    row,      \* [Commands -> [status, at, late]]: the CommandLog rows
    view,     \* [Commands -> where the view that sends the command is]
    clock,    \* capabilities_requested_at: "none", "running" or "expired"
    online,   \* is_online of the stored row
    work,     \* what the sensor handler will do with the row it read
    wire,     \* messages to the device, in order
    up,       \* messages to the worker, in order
    device,   \* [phase, fw]: the device itself
    outcome,  \* history: [Commands -> what executing the command gave]
    okays,    \* history: successful executions of "set" commands so far
    owed      \* history: the device came back, no sensor message handled yet

vars == <<row, view, clock, online, work, wire, up, device, outcome, okays, owed>>

Terminal == {"success", "failed", "timeout"}
Statuses == {"absent", "pending"} \cup Terminal
Steps == {"idle", "published", "clocked", "recorded", "asked", "done"}
Work == {"idle", "wake-up", "timeout", "nothing"}

\* A wake-up publishes on its own until the device only listens; "greeted" has
\* published its sensors.
Phases == {"asleep", "awake", "greeted", "listening"}
Awake == device.phase # "asleep"
Publishing == IF "sensors first" \in Assumed THEN {"greeted"} ELSE {"awake", "greeted"}

\* What a device publishes: of each topic, the fields the handlers read.
ToWorker ==
    [topic : {"sensors", "other", "capabilities", "ack"}, action : Actions \cup {""},
     status : {"ok", "error", ""}, fw : Commands \cup {None}]

TypeOK ==
    /\ row \in [Commands ->
          [status : Statuses, at : 0 .. Cardinality(Commands), late : BOOLEAN]]
    /\ view \in [Commands -> Steps]
    /\ clock \in {"none", "running", "expired"}
    /\ online \in BOOLEAN
    /\ work \in Work
    /\ wire \in Seq([action : Actions, of : Commands \cup {None}]) /\ Len(wire) <= MaxWire
    /\ up \in Seq(ToWorker) /\ Len(up) <= MaxUp
    /\ device \in [phase : Phases, fw : Commands \cup {None}]
    /\ outcome \in [Commands -> SUBSET {"ok", "error"}]
    /\ okays \in 0 .. Cardinality(Commands)
    /\ owed \in BOOLEAN

-----------------------------------------------------------------------------
(* The rows. *)

Pending_AnyStatus(action) == {c \in Commands : ActionOf[c] = action /\ row[c].status # "absent"}
Pending_Deleted(action) ==
    {c \in Commands : ActionOf[c] = action /\ row[c].at > 0
                     /\ row[c].status \in {"absent", "pending"}}
Pending(action) == {c \in Commands : ActionOf[c] = action /\ row[c].status = "pending"}

\* CommandLog.mark, and the bulk update of _resolve_capability_requests.
Marked(cs, status) == [c \in Commands |->
    IF c \in cs THEN [row[c] EXCEPT !.status = status] ELSE row[c]]

Latest_All(cs) == cs
\* The row an ack resolves: the pending one of that action sent last.
Latest(cs) == {c \in cs : \A d \in cs : row[d].at <= row[c].at}

Unacked_Updates == {c \in Commands : row[c].status = "pending"}
\* Rows the wake-up flush publishes again, oldest first.
Unacked == {c \in Commands : row[c].status = "pending" /\ ActionOf[c] # "ota_update"}
BySentAt(cs) == {f \in [1 .. Cardinality(cs) -> cs] :
                    \A i, j \in 1 .. Cardinality(cs) : i < j => row[f[i]].at < row[f[j]].at}

Recorded == {c \in Commands : row[c].at > 0}

-----------------------------------------------------------------------------
(* The broker. *)

Message(action, c) == [action |-> action, of |-> c]
CapsRequest == Message("request_capabilities", None)

\* Without a persistent session, what is published while the device sleeps
\* reaches nobody.
Publish(ms) ==
    /\ Len(wire) + Len(ms) <= MaxWire
    /\ wire' = IF Awake \/ "persistent session" \in Assumed
               THEN wire \o ms ELSE wire

-----------------------------------------------------------------------------
(* The views.  device_command_view ("set"): publish, record, ask for the    *)
(* capabilities, start their clock.  request_capabilities with log_command: *)
(* publish, start the clock, record.  send_ota_update: publish, record.     *)

ViewPublish(c) ==
    /\ view[c] = "idle"
    /\ Publish(<<Message(ActionOf[c], c)>>)
    /\ view' = [view EXCEPT ![c] = "published"]
    /\ UNCHANGED <<row, clock, online, work, up, device, outcome, okays, owed>>

ViewRecord(c) ==
    /\ view[c] = IF ActionOf[c] = "request_capabilities" THEN "clocked" ELSE "published"
    /\ row' = [row EXCEPT ![c] =
          [status |-> "pending", at |-> Cardinality(Recorded) + 1, late |-> FALSE]]
    /\ view' = [view EXCEPT ![c] = IF ActionOf[c] = "set" THEN "recorded" ELSE "done"]
    /\ UNCHANGED <<clock, online, work, wire, up, device, outcome, okays, owed>>

ViewAsk(c) ==
    /\ view[c] = "recorded"
    /\ Publish(<<CapsRequest>>)
    /\ view' = [view EXCEPT ![c] = "asked"]
    /\ UNCHANGED <<row, clock, online, work, up, device, outcome, okays, owed>>

\* request_capabilities swallows a publish that fails.
ViewAskFails(c) ==
    /\ view[c] = "recorded"
    /\ view' = [view EXCEPT ![c] = "done"]
    /\ UNCHANGED <<row, clock, online, work, wire, up, device, outcome, okays, owed>>

ViewStartClock(c) ==
    /\ \/ view[c] = "asked"
       \/ view[c] = "published" /\ ActionOf[c] = "request_capabilities"
    /\ clock' = "running"
    /\ view' = [view EXCEPT ![c] = IF @ = "asked" THEN "done" ELSE "clocked"]
    /\ UNCHANGED <<row, online, work, wire, up, device, outcome, okays, owed>>

\* device_delete_command_view, and device_clear_commands_view for all at once.
DeleteCommands(cs) ==
    /\ cs # {} /\ \A c \in cs : row[c].status # "absent"
    /\ row' = Marked(cs, "absent")
    /\ UNCHANGED <<view, clock, online, work, wire, up, device, outcome, okays, owed>>

-----------------------------------------------------------------------------
(* The device. *)

Send(m) == Len(up) < MaxUp /\ up' = Append(up, m)
Ack(action, status) == [topic |-> "ack", action |-> action, status |-> status, fw |-> None]
Capabilities(fw) == [topic |-> "capabilities", action |-> "", status |-> "", fw |-> fw]
Publication(topic) == [topic |-> topic, action |-> "", status |-> "", fw |-> None]

\* A wake-up; a device that does not sleep begins its next round.
Wake ==
    /\ device.phase = "asleep" \/ (device.phase = "listening" /\ "patient" \notin Assumed)
    /\ "long sleeps" \in Assumed => ~online
    /\ device' = [device EXCEPT !.phase = "awake"]
    /\ UNCHANGED <<row, view, clock, online, work, wire, up, outcome, okays, owed>>

PublishSensors ==
    /\ device.phase \in {"awake", "greeted"}
    /\ Send(Publication("sensors"))
    /\ device' = [device EXCEPT !.phase = "greeted"]
    /\ UNCHANGED <<row, view, clock, online, work, wire, outcome, okays, owed>>

\* A status, diag, commands or calibration message.
PublishOther ==
    /\ device.phase \in Publishing
    /\ Send(Publication("other"))
    /\ UNCHANGED <<row, view, clock, online, work, wire, device, outcome, okays, owed>>

\* Capabilities nobody asked for: the protocol has a device send them at the
\* end of a wake-up.
PublishCapabilities ==
    /\ device.phase = "greeted"
    /\ Send(Capabilities(device.fw))
    /\ UNCHANGED <<row, view, clock, online, work, wire, device, outcome, okays, owed>>

Listen ==
    /\ device.phase = "greeted"
    /\ device' = [device EXCEPT !.phase = "listening"]
    /\ UNCHANGED <<row, view, clock, online, work, wire, up, outcome, okays, owed>>

\* The device takes the next command; the broker takes its receipt (once), or
\* will deliver the message again.
AfterReceipt(once) == IF once THEN Tail(wire) ELSE wire

AnswerRequest(once) ==
    /\ Head(wire).action = "request_capabilities"
    /\ Send(Capabilities(device.fw))
    /\ wire' = AfterReceipt(once)
    /\ UNCHANGED <<device, outcome, okays>>

ExecuteSet(once, status) ==
    /\ Head(wire).action = "set"
    /\ Send(Ack("set", status))
    /\ outcome' = [outcome EXCEPT ![Head(wire).of] = @ \cup {status}]
    /\ okays' = IF status = "ok" /\ okays < Cardinality(Commands) THEN okays + 1 ELSE okays
    /\ wire' = AfterReceipt(once)
    /\ UNCHANGED device

\* The image is refused, or the flash fails in silence.
RefuseUpdate(once) ==
    /\ Head(wire).action = "ota_update"
    /\ outcome' = [outcome EXCEPT ![Head(wire).of] = @ \cup {"error"}]
    /\ Send(Ack("ota_update", "error")) \/ UNCHANGED up
    /\ wire' = AfterReceipt(once)
    /\ UNCHANGED <<device, okays>>

\* The image is flashed and the device reboots, without an ack.
Flash(once) ==
    /\ Head(wire).action = "ota_update" /\ Head(wire).of # device.fw
    /\ outcome' = [outcome EXCEPT ![Head(wire).of] = @ \cup {"ok"}]
    /\ device' = [device EXCEPT !.phase = "asleep", !.fw = Head(wire).of]
    /\ wire' = IF "persistent session" \in Assumed THEN AfterReceipt(once) ELSE <<>>
    /\ UNCHANGED <<up, okays>>

Execute(once) ==
    /\ Awake /\ wire # <<>>
    /\ \/ AnswerRequest(once)
       \/ \E status \in {"ok", "error"} : ExecuteSet(once, status)
       \/ RefuseUpdate(once)
       \/ Flash(once)
    /\ UNCHANGED <<row, view, clock, online, work, owed>>

Sleep ==
    /\ device.phase = "listening"
    /\ "patient" \in Assumed => wire = <<>> /\ up = <<>> /\ work = "idle"
    /\ device' = [device EXCEPT !.phase = "asleep"]
    /\ wire' = IF "persistent session" \in Assumed THEN wire ELSE <<>>
    /\ UNCHANGED <<row, view, clock, online, work, up, outcome, okays, owed>>

-----------------------------------------------------------------------------
(* The worker.                                                              *)

Taken(topic) == up # <<>> /\ Head(up).topic = topic /\ work = "idle" /\ up' = Tail(up)

SensorBegin_AfterSave ==
    /\ Taken("sensors")
    /\ work' = IF clock = "expired" THEN "timeout" ELSE "nothing"
    /\ online' = TRUE
    /\ UNCHANGED <<row, view, clock, wire, device, outcome, okays, owed>>

\* handle_sensor_message up to the row's save: the row is read (was_online and
\* capabilities_requested_at decide what follows), then last_seen is saved.
SensorBegin ==
    /\ Taken("sensors")
    /\ work' = IF ~online THEN "wake-up" ELSE IF clock = "expired" THEN "timeout" ELSE "nothing"
    /\ online' = TRUE
    /\ UNCHANGED <<row, view, clock, wire, device, outcome, okays, owed>>

\* _check_ota_timeouts, then either the wake-up (flush, capabilities request) or
\* the capabilities timeout, decided on the row as it was read.  A publish that
\* fails is swallowed, in the flush command by command: the broker takes the
\* commands "taken", and the request if "sent".
LateUpdates == {c \in Pending("ota_update") : row[c].late}

Flushed(cs, order) == [i \in 1 .. Cardinality(cs) |-> Message(ActionOf[order[i]], order[i])]

SensorWakesUp(sent, taken) ==
    /\ work = "wake-up" /\ taken \subseteq Unacked
    /\ row' = Marked(LateUpdates, "timeout")
    /\ \E order \in BySentAt(taken) :
          Publish(IF sent THEN Append(Flushed(taken, order), CapsRequest)
                  ELSE Flushed(taken, order))
    /\ clock' = IF sent THEN "running" ELSE clock
    /\ owed' = FALSE
    /\ work' = "idle"
    /\ UNCHANGED <<view, online, up, device, outcome, okays>>

SensorContinues ==
    /\ work \in {"timeout", "nothing"}
    /\ IF work = "timeout"
       THEN /\ clock' = "none"
            /\ row' = Marked(LateUpdates \cup Pending("request_capabilities"), "timeout")
       ELSE /\ UNCHANGED clock
            /\ row' = Marked(LateUpdates, "timeout")
    /\ work' = "idle"
    /\ UNCHANGED <<view, online, wire, up, device, outcome, okays, owed>>

\* handle_status_message, handle_diag_message, handle_commands_message and
\* handle_calibration_message refresh last_seen.
HandleOther ==
    /\ Taken("other")
    /\ online' = TRUE
    /\ UNCHANGED <<row, view, clock, work, wire, device, outcome, okays, owed>>

Answered_AnyVersion == Pending("request_capabilities") \cup Pending("ota_update")
\* handle_capabilities_message: every pending request is answered, and every
\* pending ota_update whose version now runs.
Answered == Pending("request_capabilities") \cup (Pending("ota_update") \cap {Head(up).fw})

HandleCapabilities_Seen ==
    /\ Taken("capabilities")
    /\ clock' = "none"
    /\ row' = Marked(Answered, "success")
    /\ online' = TRUE
    /\ UNCHANGED <<view, work, wire, device, outcome, okays, owed>>

HandleCapabilities ==
    /\ Taken("capabilities")
    /\ clock' = "none"
    /\ row' = Marked(Answered, "success")
    /\ UNCHANGED <<view, online, work, wire, device, outcome, okays, owed>>

HandleAck_RawStatus ==
    /\ Taken("ack")
    /\ row' = Marked(Latest(Pending(Head(up).action)), Head(up).status)
    /\ UNCHANGED <<view, clock, online, work, wire, device, outcome, okays, owed>>

\* handle_ack_message.
HandleAck ==
    /\ Taken("ack")
    /\ row' = Marked(Latest(Pending(Head(up).action)),
                     IF Head(up).status = "ok" THEN "success" ELSE "failed")
    /\ UNCHANGED <<view, clock, online, work, wire, device, outcome, okays, owed>>

\* The worker is restarted, or loses its connection: its session is clean, so
\* what was on its way is gone, and so is the message it was handling.
WorkerRestarts ==
    /\ "no loss" \notin Assumed
    /\ up' = <<>>
    /\ work' = "idle"
    /\ UNCHANGED <<row, view, clock, online, wire, device, outcome, okays, owed>>

-----------------------------------------------------------------------------
(* Time.                                                                    *)

GoesOffline ==
    /\ "short sleeps" \notin Assumed
    /\ online /\ up = <<>> /\ work = "idle"
    /\ "patient" \in Assumed => ~Awake
    /\ online' = FALSE
    /\ device' = [device EXCEPT !.phase = IF Awake THEN "awake" ELSE "asleep"]
    /\ owed' = TRUE
    /\ UNCHANGED <<row, view, clock, work, wire, up, outcome, okays>>

ClockExpires ==
    /\ clock = "running"
    /\ clock' = "expired"
    /\ UNCHANGED <<row, view, online, work, wire, up, device, outcome, okays, owed>>

UpdateIsLate(c) ==
    /\ ActionOf[c] = "ota_update" /\ row[c].status = "pending"
    /\ row' = [row EXCEPT ![c].late = TRUE]
    /\ UNCHANGED <<view, clock, online, work, wire, up, device, outcome, okays, owed>>

-----------------------------------------------------------------------------
Init ==
    /\ row = [c \in Commands |-> [status |-> "absent", at |-> 0, late |-> FALSE]]
    /\ view = [c \in Commands |-> "idle"]
    /\ clock = "none"
    /\ online \in BOOLEAN
    /\ work = "idle"
    /\ wire = <<>> /\ up = <<>>
    /\ device = [phase |-> "asleep", fw |-> None]
    /\ outcome = [c \in Commands |-> {}]
    /\ okays = 0
    /\ owed = ~online

ViewStep(c) == ViewRecord(c) \/ ViewAsk(c) \/ ViewAskFails(c) \/ ViewStartClock(c)
Handler == \/ SensorBegin \/ SensorContinues
           \/ \E sent \in BOOLEAN, taken \in SUBSET Commands : SensorWakesUp(sent, taken)
           \/ HandleOther \/ HandleCapabilities \/ HandleAck
DeviceStep == \/ Wake \/ PublishSensors \/ PublishOther \/ PublishCapabilities \/ Listen \/ Sleep
              \/ \E once \in BOOLEAN : ("no duplicates" \in Assumed => once) /\ Execute(once)

Next == \/ \E c \in Commands : ViewPublish(c) \/ ViewStep(c) \/ UpdateIsLate(c)
        \/ \E c \in Commands : DeleteCommands({c})
        \/ DeleteCommands({c \in Commands : row[c].status # "absent"})
        \/ DeviceStep
        \/ Handler
        \/ WorkerRestarts
        \/ GoesOffline
        \/ ClockExpires

Spec == Init /\ [][Next]_vars

\* The server's side: a view that has begun ends, the worker handles what it
\* has received, and time passes.
ServerFairness ==
    /\ \A c \in Commands : WF_vars(ViewStep(c)) /\ WF_vars(UpdateIsLate(c))
    /\ WF_vars(Handler)
    /\ WF_vars(ClockExpires)

\* The device's side: it wakes up, publishes its readings, processes what it is
\* sent and goes back to sleep, for ever; a long sleep is noticed.
DeviceFairness ==
    /\ WF_vars(Wake)
    /\ SF_vars(PublishSensors)
    /\ WF_vars(Listen)
    /\ SF_vars(Execute(TRUE))
    /\ SF_vars(Sleep)
    /\ SF_vars(GoesOffline)

\* A command that is flushed again and again is taken by the broker some time.
BrokerFairness ==
    \A c \in Commands :
       SF_vars(\E sent \in BOOLEAN, taken \in SUBSET Commands :
                  c \in taken /\ SensorWakesUp(sent, taken))

FairSpec == Spec /\ ServerFairness /\ DeviceFairness /\ BrokerFairness

-----------------------------------------------------------------------------
(* Properties. *)

\* Whatever acks, capabilities, timeouts and flushes still come for a command
\* that has concluded, its outcome is never rewritten (the pending filters of
\* services.py:288-292, 309-313, 325-329 and 1092-1097).
TerminalIsFinal ==
    [][\A c \in Commands : row[c].status \in Terminal =>
          row'[c].status \in {row[c].status, "absent"}]_vars

\* Never more commands shown as successful than the device executed: one ack
\* concludes one row (services.py:1091-1097), duplicates and losses included.
NoInventedSuccess ==
    Cardinality({c \in Commands : ActionOf[c] = "set" /\ row[c].status = "success"}) <= okays

\* An update is shown as successful only for a version the device has run.
UpdateSuccessIsTrue ==
    \A c \in Commands :
       ActionOf[c] = "ota_update" /\ row[c].status = "success" => "ok" \in outcome[c]

\* An image is not sent again by the server once the device has taken it: the
\* wake-up flush leaves ota_update out (services.py:346-348).
UpdateSentOnce ==
    \A c \in Commands : ActionOf[c] = "ota_update" /\ outcome[c] # {} =>
       \A i \in 1 .. Len(wire) : wire[i].of # c

\* A command that was recorded concludes (or is deleted): with a device that
\* sleeps long enough to be seen offline and greets with its sensors, the
\* wake-up flush makes up for what the broker dropped, for an ack that came
\* before its row, and for flushes that failed before (services.py:361-367).
CommandConcludes ==
    \A c \in Commands : row[c].status = "pending" ~> row[c].status # "pending"

\* The first sensor message after an offline period flushes and asks for the
\* capabilities (docs/mqtt-protocol.md:486-491).
WakeIsNoticed == [][SensorContinues => ~owed]_vars

\* The log as its reader knows it: CommandLedger, with the queues, the views and
\* the worker left out.
Shown(c) == IF row[c].at = 0 THEN "unsent"
            ELSE IF row[c].status = "absent" THEN "deleted" ELSE row[c].status
UpdatesRun == {c \in Commands : ActionOf[c] = "ota_update" /\ "ok" \in outcome[c]}
Ledger == INSTANCE CommandLedger WITH
    status <- [c \in Commands |-> Shown(c)], ran <- okays, flashed <- UpdatesRun

\* Through losses, duplicates, restarts, flushes, timeouts and deletions, the
\* rows keep the promises of the log: one conclusion, no success without its own
\* execution, no row that comes back once it is deleted.
ImplementsLedger == Ledger!Spec

-----------------------------------------------------------------------------
(* What a comment says, and the code does not do. *)

\* services.py:125-129: a logged request_capabilities ends in success or timeout.
RequestConcludes ==
    \A c \in Commands : ActionOf[c] = "request_capabilities" =>
       (row[c].status = "pending" ~> row[c].status # "pending")

=============================================================================
