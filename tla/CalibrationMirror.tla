-------------------------- MODULE CalibrationMirror --------------------------
(***************************************************************************)
(* The server's mirror of one device's calibration: the views that set a   *)
(* value (devices/views.py), the request for a report, the handlers of the *)
(* report, of the old firmware's answer and of the acks, the flush of the  *)
(* unacked sets at a wake-up, and the re-push to a device that says its    *)
(* store is empty (mqtt_bridge/services.py).                               *)
(*                                                                         *)
(* A view reads the row, publishes, logs the command, and saves the whole  *)
(* mirror it read with one key changed; the worker re-pushes or merges     *)
(* into the mirror of the row it read.  Several admins and the worker run  *)
(* at once.  The device and the broker are external: commands are queued   *)
(* for it in order (QoS 1, persistent session) and executed one by one.    *)
(***************************************************************************)
EXTENDS Naturals, Sequences

CONSTANTS
    Admins,
    Keys,       \* calibration keys
    Offsets,    \* those of sensor offsets (cal_<metric>), set by set_offset
    Values,     \* the numbers they take
    Unset, Junk, Nothing,   \* no value; a value that is no number; no key
    MaxWire,    \* bound: messages queued for the device
    MaxUp,      \* bound: messages queued for the worker
    MaxOps      \* bound: values set, reports asked for and wipes

ASSUME CalibrationAssumption ==
    /\ Offsets \subseteq Keys
    /\ Unset \notin Values /\ Junk \notin Values /\ Unset # Junk /\ Nothing \notin Keys
    /\ MaxWire \in Nat \ {0} /\ MaxUp \in Nat \ {0} /\ MaxOps \in Nat

VARIABLES
    mirror,   \* Device.calibration
    rows,     \* the unacked CommandLog rows of sets, oldest first
    store,    \* what the device runs with
    legacy,   \* its firmware is old: the offsets of its answer; none for newer firmware
    view,     \* [Admins -> [step, key, value, read]]: the setting views
    wire,     \* messages to the device, in order
    up,       \* messages to the worker, in order, reports with the store they tell
    work,     \* what the worker has still to publish or to save
    wanted,   \* history: of each key, the value saved or reported last
    issued,   \* history: of each key, the value that was last sent, but by a flush
    calm,     \* history: no two exchanges have crossed, none was cut short
    left      \* operations left

vars == <<mirror, rows, store, legacy, view, wire, up, work, wanted, issued, calm, left>>

Mirrors == [Keys -> Values \cup {Unset}]
Stores == [Keys -> Values \cup {Unset, Junk}]
Blank == [k \in Keys |-> Unset]

Idle == [step |-> "idle", key |-> Nothing, value |-> Unset, read |-> Blank]
AtRest == [push |-> Blank, flush |-> <<>>, merge |-> Blank, read |-> Blank]

Sets == [key : Keys, value : Values]
Set(k, v) == [key |-> k, value |-> v]
RequestCalibration == [key |-> Nothing, value |-> Unset]

\* What an ack says of the command: its action.
Action(k) == IF k \in Offsets THEN "set_offset" ELSE "set_calibration"
\* The values of the one, where it has any, and of the other.
Over(base, values) == [k \in Keys |-> IF values[k] # Unset THEN values[k] ELSE base[k]]

\* Capabilities say whether the store is empty (cal:0); a report tells it all.
Capabilities == {"capabilities", "empty"}
Acks == {"set_offset", "set_calibration"}
Reports == {"calibration", "legacy"}

TypeOK ==
    /\ mirror \in Mirrors /\ wanted \in Mirrors /\ issued \in Mirrors
    /\ rows \in Seq(Sets)
    /\ store \in Stores /\ legacy \in SUBSET Offsets
    /\ view \in [Admins -> {Idle} \cup [step : {"read", "published", "logged"}, key : Keys,
                                       value : Values, read : Mirrors]]
    /\ wire \in Seq([key : Keys \cup {Nothing}, value : Values \cup {Unset}])
    /\ Len(wire) <= MaxWire
    /\ up \in Seq([topic : Capabilities \cup Acks \cup Reports, store : Stores])
    /\ Len(up) <= MaxUp
    /\ work \in [push : Mirrors, flush : Seq(Sets), merge : Mirrors, read : Mirrors]
    /\ calm \in BOOLEAN
    /\ left \in 0 .. MaxOps

\* Nothing is on its way, in a view or in the worker, every set is acked, and the
\* device does not wait for its calibration.
Settled ==
    /\ \A a \in Admins : view[a] = Idle
    /\ wire = <<>> /\ work = AtRest /\ rows = <<>>
    /\ \A i \in 1 .. Len(up) : up[i].topic \notin Reports \cup {"empty"}
    /\ store = Blank => mirror = Blank

Operation == left > 0 /\ left' = left - 1
Publish(m) == Len(wire) < MaxWire /\ wire' = Append(wire, m)

-----------------------------------------------------------------------------
(* The views: device_calibration_view and device_set_calibration_view.      *)

SetBegin(a, k, v) ==
    /\ Operation
    /\ view[a] = Idle
    /\ view' = [view EXCEPT ![a] = [step |-> "read", key |-> k, value |-> v, read |-> mirror]]
    /\ calm' = (calm /\ Settled)
    /\ UNCHANGED <<mirror, rows, store, wire, up, work, wanted, issued, legacy>>

SetPublish_Unchecked(a) ==
    /\ view[a].step = "read"
    /\ view' = [view EXCEPT ![a].step = "published"]
    /\ Publish(Set(view[a].key, view[a].value)) \/ UNCHANGED wire
    /\ UNCHANGED <<mirror, rows, store, up, work, wanted, issued, calm, left, legacy>>

\* A publish that fails ends the view.
SetPublish(a) ==
    /\ view[a].step = "read"
    /\ \/ UNCHANGED <<wire, issued>> /\ view' = [view EXCEPT ![a] = Idle]
       \/ /\ Publish(Set(view[a].key, view[a].value))
          /\ issued' = [issued EXCEPT ![view[a].key] = view[a].value]
          /\ view' = [view EXCEPT ![a].step = "published"]
    /\ UNCHANGED <<mirror, rows, store, up, work, wanted, calm, left, legacy>>

SetLog(a) ==
    /\ view[a].step = "published"
    /\ rows' = Append(rows, Set(view[a].key, view[a].value))
    /\ view' = [view EXCEPT ![a].step = "logged"]
    /\ UNCHANGED <<mirror, store, wire, up, work, wanted, issued, calm, left, legacy>>

SetSave(a) ==
    /\ view[a].step = "logged"
    /\ mirror' = [view[a].read EXCEPT ![view[a].key] = view[a].value]
    /\ wanted' = [wanted EXCEPT ![view[a].key] = view[a].value]
    /\ view' = [view EXCEPT ![a] = Idle]
    /\ UNCHANGED <<rows, store, wire, up, work, issued, calm, left, legacy>>

\* The command is out, but the log or the save fails; or it was typed by hand
\* (device_command_view), which publishes and logs and knows no mirror.
SetEnds(a) ==
    /\ view[a].step \in {"published", "logged"}
    /\ issued' = [issued EXCEPT ![view[a].key] = Unset]
    /\ view' = [view EXCEPT ![a] = Idle]
    /\ calm' = FALSE
    /\ UNCHANGED <<mirror, rows, store, wire, up, work, wanted, left, legacy>>

\* device_request_calibration_view; a failed publish changes nothing.  Whatever
\* crossed before, a report of a device at rest sets mirror and device equal; the
\* old firmware's answer has its offsets only.
Ask ==
    /\ Operation
    /\ Publish(RequestCalibration)
    /\ calm' = (Settled /\ (legacy = {} \/ calm))
    /\ UNCHANGED <<mirror, rows, store, view, up, work, wanted, issued, legacy>>

-----------------------------------------------------------------------------
(* The device. *)

Send(topic) ==
    /\ Len(up) < MaxUp
    /\ up' = Append(up, [topic |-> topic, store |-> IF topic \in Reports THEN store ELSE Blank])

PublishCapabilities ==
    /\ Send(IF store = Blank THEN "empty" ELSE "capabilities")
    /\ UNCHANGED <<mirror, rows, store, view, wire, work, wanted, issued, calm, left, legacy>>

Report ==
    /\ wire # <<>> /\ Head(wire) = RequestCalibration
    /\ wire' = Tail(wire)
    /\ Send(IF legacy = {} THEN "calibration" ELSE "legacy")
    /\ UNCHANGED <<mirror, rows, store, view, work, wanted, issued, calm, left, legacy>>

\* A set is applied or refused; its ack may be lost.
Execute ==
    /\ wire # <<>> /\ Head(wire) # RequestCalibration
    /\ wire' = Tail(wire)
    /\ LET c == Head(wire) IN
          /\ \/ store' = [store EXCEPT ![c.key] = c.value] /\ UNCHANGED <<issued, calm>>
             \/ /\ issued' = [issued EXCEPT ![c.key] = Unset] /\ calm' = FALSE
                /\ UNCHANGED store
          /\ Send(Action(c.key)) \/ UNCHANGED up
    /\ UNCHANGED <<mirror, rows, view, work, wanted, left, legacy>>

\* A new board, a factory reset, a chip swap.
Wipe ==
    /\ Operation
    /\ store # Blank
    /\ store' = Blank
    /\ calm' = (calm /\ Settled)
    /\ UNCHANGED <<mirror, rows, view, wire, up, work, wanted, issued, legacy>>

-----------------------------------------------------------------------------
(* The worker. *)

Taken(topics) == up # <<>> /\ Head(up).topic \in topics /\ work = AtRest /\ up' = Tail(up)

\* handle_capabilities_message: the mirror is the one of the row it reads here.
HandleCapabilities ==
    /\ Taken(Capabilities)
    /\ work' = [AtRest EXCEPT !.push = IF Head(up).topic = "empty" THEN mirror ELSE Blank]
    /\ UNCHANGED <<mirror, rows, store, view, wire, wanted, issued, calm, left, legacy>>

Repush_First(k) ==
    /\ work.push[k] # Unset
    /\ Publish(Set(k, work.push[k]))
    /\ work' = AtRest
    /\ UNCHANGED <<mirror, rows, store, view, up, wanted, issued, calm, left, legacy>>

\* _repush_calibration, one key: a publish that fails is skipped.
Repush(k) ==
    /\ work.push[k] # Unset
    /\ \/ /\ Publish(Set(k, work.push[k]))
          /\ issued' = [issued EXCEPT ![k] = work.push[k]] /\ UNCHANGED calm
       \/ UNCHANGED <<wire, issued>> /\ calm' = FALSE
    /\ work' = [work EXCEPT !.push[k] = Unset]
    /\ UNCHANGED <<mirror, rows, store, view, up, wanted, left, legacy>>

\* flush_pending_commands, at a wake-up: all unacked rows, oldest first.
Flush ==
    /\ work = AtRest /\ rows # <<>>
    /\ work' = [AtRest EXCEPT !.flush = rows]
    /\ UNCHANGED <<mirror, rows, store, view, wire, up, wanted, issued, calm, left, legacy>>

\* One of them: a publish that fails is skipped.
FlushNext ==
    /\ work.flush # <<>>
    /\ Publish(Head(work.flush)) \/ UNCHANGED wire
    /\ work' = [work EXCEPT !.flush = Tail(@)]
    /\ UNCHANGED <<mirror, rows, store, view, up, wanted, issued, calm, left, legacy>>

Without(s, i) == [j \in 1 .. Len(s) - 1 |-> IF j < i THEN s[j] ELSE s[j + 1]]

\* handle_ack_message: the newest pending row of that action is concluded.
HandleAck ==
    /\ Taken(Acks)
    /\ LET mine == {i \in 1 .. Len(rows) : Action(rows[i].key) = Head(up).topic}
       IN IF mine = {} THEN UNCHANGED rows
          ELSE \E i \in mine : (\A j \in mine : j <= i) /\ rows' = Without(rows, i)
    /\ UNCHANGED <<mirror, store, view, wire, work, wanted, issued, calm, left, legacy>>

Numbers_Any(report) == report
\* What a handler keeps of a report.
Numbers(report) == [k \in Keys |-> IF report[k] = Junk THEN Unset ELSE report[k]]

\* handle_calibration_message: the whole mirror is replaced.
HandleReport ==
    /\ Taken({"calibration"})
    /\ mirror' = Numbers(Head(up).store)
    /\ wanted' = Numbers(Head(up).store)
    /\ UNCHANGED <<rows, store, view, wire, work, issued, calm, left, legacy>>

\* The numbers of the old firmware's answer.
OffsetsOf(report) == [k \in Keys |-> IF k \in legacy THEN Numbers(report)[k] ELSE Unset]

\* handle_ack_message, for that answer: it reads the row here, and saves the
\* offsets merged into what it read.
HandleLegacy ==
    /\ Taken({"legacy"})
    /\ work' = IF OffsetsOf(Head(up).store) = Blank THEN AtRest
               ELSE [AtRest EXCEPT !.merge = OffsetsOf(Head(up).store), !.read = mirror]
    /\ UNCHANGED <<mirror, rows, store, view, wire, wanted, issued, calm, left, legacy>>

LegacySave ==
    /\ work.merge # Blank
    /\ mirror' = Over(work.read, work.merge)
    /\ wanted' = Over(wanted, work.merge)
    /\ work' = AtRest
    /\ UNCHANGED <<rows, store, view, wire, up, issued, calm, left, legacy>>

\* The worker's session is clean: what was queued for it is lost.
WorkerRestarts ==
    /\ up # <<>> \/ work # AtRest
    /\ up' = <<>> /\ work' = AtRest
    /\ calm' = (calm /\ work.push = Blank /\ \A i \in 1 .. Len(up) : up[i].topic # "calibration")
    /\ UNCHANGED <<mirror, rows, store, view, wire, wanted, issued, left, legacy>>

-----------------------------------------------------------------------------
\* A unit already tuned, or blank; the mirror starts empty.
Init ==
    /\ store \in Stores /\ legacy \in SUBSET Offsets
    /\ mirror = Blank /\ wanted = Blank /\ issued = Blank /\ work = AtRest
    /\ rows = <<>>
    /\ view = [a \in Admins |-> Idle]
    /\ wire = <<>> /\ up = <<>>
    /\ calm = TRUE
    /\ left = MaxOps

ViewStep(a) == SetPublish(a) \/ SetLog(a) \/ SetSave(a)
Handler == HandleCapabilities \/ HandleAck \/ HandleReport \/ HandleLegacy
WorkerStep == FlushNext \/ LegacySave

Next ==
    \/ \E a \in Admins : \/ ViewStep(a) \/ SetEnds(a)
                         \/ \E k \in Keys, v \in Values : SetBegin(a, k, v)
    \/ Ask
    \/ PublishCapabilities \/ Report \/ Execute \/ Wipe
    \/ Handler \/ Flush \/ WorkerStep \/ \E k \in Keys : Repush(k)
    \/ WorkerRestarts

Spec == Init /\ [][Next]_vars

\* A view ends and the worker goes on; the device wakes up, executes what is
\* queued for it and publishes its capabilities.
FairSpec ==
    /\ Spec
    /\ \A a \in Admins : WF_vars(ViewStep(a))
    /\ SF_vars(Handler)
    /\ WF_vars(WorkerStep)
    /\ \A k \in Keys : WF_vars(Repush(k))
    /\ WF_vars(Execute)
    /\ WF_vars(PublishCapabilities)

-----------------------------------------------------------------------------
(* Properties. *)

Restored == \A k \in Keys : mirror[k] # Unset => store[k] = mirror[k]

\* Set one value at a time, each till its ack, through failed publishes, lost
\* acks, flushes, restarts of the worker and wipes of the device, and what was
\* saved or reported last is what the mirror holds and the device runs with; a
\* report asked for at rest makes it so again after any crossing
\* (devices/views.py:275-285, services.py:349-364, 814-818, 916-919, 1069-1097).
CalibrationStands == calm /\ Settled => mirror = wanted /\ Restored

\* A wiped device gets its mirror back (services.py:814-818), as long as no other
\* exchange crosses the re-push and the broker takes all of it.
WipeIsRestored == store = Blank /\ mirror # Blank ~> Restored \/ ~calm

\* Commands are flushed "in chronological order so the device processes them in
\* the same sequence they were issued" (services.py:343-344): with every set
\* acked and nothing under way, the device runs with the last value it was sent.
\* A set whose ack is lost breaks it: the flush sends it again after a later one.
LastIssuedRuns ==
    Settled /\ up = <<>> =>
        \A k \in Keys : issued[k] # Unset => store[k] \in {issued[k], Unset}
=============================================================================
