--------------------------- MODULE DeviceRegistry ---------------------------
(***************************************************************************)
(* The devices the server knows and the readings filed under their ids:    *)
(* discovery and ingestion by the worker (mqtt_bridge/services.py), and    *)
(* the admin views that approve, rename, merge and delete devices          *)
(* (devices/views.py) or delete readings (readings/views.py).              *)
(*                                                                         *)
(* A reading is filed under an id, not under a row: nothing in the         *)
(* database ties the two.  The worker's sensor handler reads the row,      *)
(* saves it and stores the readings in three steps.  A view reads its rows *)
(* first and changes them in a transaction afterwards.  PostgreSQL runs it *)
(* at READ COMMITTED: every statement has a snapshot of its own, with what *)
(* has been committed by then and what the transaction itself has changed. *)
(* Each statement on the readings is therefore a step, and what it removes *)
(* or adds is kept with the request until the commit.  A row that an open  *)
(* transaction has changed is locked: a statement of another one that      *)
(* wants it waits, and is taken here with the snapshot of the end of the   *)
(* wait.                                                                   *)
(* A definition named X_Y is X with a plausible bug Y; only the mutation   *)
(* runs use it.                                                            *)
(***************************************************************************)
EXTENDS Integers, FiniteSets

CONSTANTS
    Ids,              \* device ids
    Metrics,          \* metric names
    Operators,        \* admins at work at the same time
    MaxTime           \* bound of the clock

ASSUME RegistryAssumption ==
    IsFiniteSet(Ids) /\ IsFiniteSet(Metrics) /\ MaxTime \in Nat

VARIABLES
    known,      \* the ids that have a Device row
    approved,   \* those whose row says is_approved
    readings,   \* the SensorReading rows, as committed
    now,        \* the clock
    work,       \* the sensor message the worker is handling
    view,       \* [Operators -> the request of that admin]
    trust       \* history: what admins last decided of the device so named

vars == <<known, approved, readings, now, work, view, trust>>

Readings == [device : Ids, metric : Metrics, time : 1 .. MaxTime]
AtRest == [stage |-> "idle"]

Work == {AtRest} \cup
    [stage : {"begun", "saved"}, id : Ids, approved : BOOLEAN, metrics : SUBSET Metrics,
     time : 1 .. MaxTime]

\* A request: the approval it read, the shared metrics still to be merged and
\* the one being merged, what its transaction has removed and added, and
\* (history) the readings that decided which series is kept.
Stages == {"read", "listed", "merging", "sourceWins", "targetWins", "dropped", "done"}
Requests == {AtRest} \cup
    [stage : Stages, op : {"rename", "merge", "delete"}, id : Ids, to : Ids,
     approved : BOOLEAN, todo : SUBSET Metrics, metric : SUBSET Metrics,
     gone : SUBSET Readings, come : SUBSET Readings, compared : SUBSET Readings]

TypeOK ==
    /\ known \subseteq Ids /\ approved \subseteq known
    /\ readings \subseteq Readings
    /\ now \in 0 .. MaxTime
    /\ work \in Work
    /\ view \in [Operators -> Requests]
    /\ trust \in [Ids -> {"none", "granted", "revoked"}]

-----------------------------------------------------------------------------
\* What the transaction of v sees, and the rows it has locked.
Gone(v) == IF view[v] = AtRest THEN {} ELSE view[v].gone
Come(v) == IF view[v] = AtRest THEN {} ELSE view[v].come
Visible(v) == (readings \ Gone(v)) \cup Come(v)
Unlocked(v, rs) == \A w \in Operators \ {v} : rs \cap Gone(w) = {}

Of(rs, id) == {r \in rs : r.device = id}
Series(rs, id, m) == {r \in rs : r.device = id /\ r.metric = m}
MetricsOf(rs) == {r.metric : r \in rs}
Relabelled(rs, id) == {[r EXCEPT !.device = id] : r \in rs}

-----------------------------------------------------------------------------
(* The worker.                                                              *)

\* handle_sensor_message: get_or_create; is_approved is decided on this read.
SensorBegin(id, metrics) ==
    /\ work = AtRest /\ now < MaxTime
    /\ now' = now + 1
    /\ known' = known \cup {id}
    /\ work' = [stage |-> "begun", id |-> id, approved |-> id \in approved,
                metrics |-> metrics, time |-> now + 1]
    /\ UNCHANGED <<approved, readings, view, trust>>

\* The save of last_seen raises when the row is gone, and the message is lost.
SensorSave ==
    /\ work.stage = "begun"
    /\ work' = IF work.id \in known /\ work.approved THEN [work EXCEPT !.stage = "saved"]
               ELSE AtRest
    /\ UNCHANGED <<known, approved, readings, now, view, trust>>

\* One bulk insert of all the message's metrics.
SensorStore ==
    /\ work.stage = "saved"
    /\ readings' = readings \cup
          {[device |-> work.id, metric |-> m, time |-> work.time] : m \in work.metrics}
    /\ work' = AtRest
    /\ UNCHANGED <<known, approved, now, view, trust>>

WorkerDies ==
    /\ work # AtRest
    /\ work' = AtRest
    /\ UNCHANGED <<known, approved, readings, now, view, trust>>

-----------------------------------------------------------------------------
(* The views that write at once.                                            *)

Approve_Upsert(id, yes) ==
    /\ approved' = IF yes THEN approved \cup {id} ELSE approved \ {id}
    /\ trust' = [trust EXCEPT ![id] = IF yes THEN "granted" ELSE "revoked"]
    /\ UNCHANGED <<known, readings, now, work, view>>

Approve(id, yes) ==
    /\ id \in known
    /\ approved' = IF yes THEN approved \cup {id} ELSE approved \ {id}
    /\ trust' = [trust EXCEPT ![id] = IF yes THEN "granted" ELSE "revoked"]
    /\ UNCHANGED <<known, readings, now, work, view>>

\* delete_readings_view, for one metric or all, in a range of time.
DeleteReadings(v, id, metrics, from, upto) ==
    LET hit == {r \in Of(readings, id) : r.metric \in metrics /\ r.time \in from .. upto}
    IN /\ id \in known /\ hit # {} /\ Unlocked(v, hit)
       /\ readings' = readings \ hit
       /\ UNCHANGED <<known, approved, now, work, view, trust>>

-----------------------------------------------------------------------------
(* Rename, merge and delete: the row is read, the statements run, commit.   *)

Request(op, id, to) ==
    [stage |-> "read", op |-> op, id |-> id, to |-> to, approved |-> id \in approved,
     todo |-> {}, metric |-> {}, gone |-> {}, come |-> {}, compared |-> {}]

\* device_rename_view: a merge when the id is taken (and the admin confirms).
RenameRead(v, id, to) ==
    /\ view[v] = AtRest /\ id \in known /\ id # to
    /\ view' = [view EXCEPT ![v] = Request(IF to \in known THEN "merge" ELSE "rename", id, to)]
    /\ UNCHANGED <<known, approved, readings, now, work, trust>>

DeleteRead(v, id) ==
    /\ view[v] = AtRest /\ id \in known
    /\ view' = [view EXCEPT ![v] = Request("delete", id, id)]
    /\ UNCHANGED <<known, approved, readings, now, work, trust>>

\* A statement turns the request into q, removing the rows rs and adding the
\* rows new.
Statement(v, q, rs, new) ==
    /\ Unlocked(v, rs)
    /\ view' = [view EXCEPT ![v] = [q EXCEPT !.gone = @ \cup (rs \ q.come),
                                             !.come = (@ \ rs) \cup new]]
    /\ UNCHANGED <<known, approved, readings, now, work, trust>>

\* _rename_device's UPDATE.  (The INSERT of the new row is one with the commit:
\* nobody sees it before, and another insert of that id would wait.)
RenameData(v) ==
    LET q == view[v]
        rs == Of(Visible(v), q.id)
    IN /\ q.stage = "read" /\ q.op = "rename"
       /\ Statement(v, [q EXCEPT !.stage = "done", !.compared = rs], rs, Relabelled(rs, q.to))

DeleteData(v) ==
    LET q == view[v] IN
    /\ q.stage = "read" /\ q.op = "delete"
    /\ Statement(v, [q EXCEPT !.stage = "done"], Of(Visible(v), q.id), {})

\* _merge_devices: the source's metrics, the target's, and those of both.
ListSource(v) ==
    LET q == view[v] IN
    /\ q.stage = "read" /\ q.op = "merge"
    /\ Statement(v, [q EXCEPT !.stage = "listed", !.compared = Of(Visible(v), q.id)], {}, {})

ListTarget(v) ==
    LET q == view[v]
        theirs == Of(Visible(v), q.to)
        shared == MetricsOf(q.compared) \cap MetricsOf(theirs)
    IN /\ q.stage = "listed"
       /\ Statement(v, [q EXCEPT !.stage = "merging", !.todo = shared,
                                 !.compared = {r \in @ \cup theirs : r.metric \notin shared}],
                    {}, {})

SourceWins_Older(s, t) == \E r \in s : \A q \in t : q.time >= r.time
\* Of two series, the source's wins when both have rows and its newest is newer.
SourceWins(s, t) == t # {} /\ \E r \in s : \A q \in t : q.time < r.time

\* The newest readings of both.  (Two SELECTs: with a target reading stored
\* between them the target wins, as it does right after that reading; with none
\* the first one's snapshot serves both.)
Compare(v, m) ==
    LET q == view[v]
        mine == Series(Visible(v), q.id, m)
        theirs == Series(Visible(v), q.to, m)
    IN /\ q.stage = "merging" /\ m \in q.todo
       /\ Statement(v, [q EXCEPT
             !.stage = IF SourceWins(mine, theirs) THEN "sourceWins" ELSE "targetWins",
             !.todo = @ \ {m}, !.metric = {m}, !.compared = @ \cup mine \cup theirs], {}, {})

Loser_KeepsTarget(v, q, m) ==
    IF q.stage = "sourceWins" THEN {} ELSE Series(Visible(v), q.id, m)
Loser(v, q, m) ==
    Series(Visible(v), IF q.stage = "sourceWins" THEN q.to ELSE q.id, m)

DropLoser(v) ==
    LET q == view[v] IN
    /\ q.stage \in {"sourceWins", "targetWins"}
    /\ \E m \in q.metric :
          Statement(v, [q EXCEPT !.stage = IF @ = "sourceWins" THEN "dropped" ELSE "merging"],
                    Loser(v, q, m), {})

TakeWinner(v) ==
    LET q == view[v] IN
    /\ q.stage = "dropped"
    /\ \E m \in q.metric :
          LET rs == Series(Visible(v), q.id, m)
          IN Statement(v, [q EXCEPT !.stage = "merging"], rs, Relabelled(rs, q.to))

\* The last UPDATE: whatever the source still has.
TakeRest(v) ==
    LET q == view[v]
        rs == Of(Visible(v), q.id)
    IN /\ q.stage = "merging" /\ q.todo = {}
       /\ Statement(v, [q EXCEPT !.stage = "done"], rs, Relabelled(rs, q.to))

ApprovedAfter_Takes(q) ==
    (approved \ {q.id}) \cup (IF q.op # "delete" /\ q.approved THEN {q.to} ELSE {})
\* A rename's new row is a copy of the row as the view read it; a merge leaves
\* the target's approval alone.
ApprovedAfter(q) ==
    (approved \ {q.id}) \cup (IF q.op = "rename" /\ q.approved THEN {q.to} ELSE {})

\* The last statements (the log rows, the target's last_seen, the old row) and
\* the commit.  A rename whose id has been taken meanwhile cannot commit; a
\* merge whose target is gone can when it has no log to re-point and no
\* last_seen to save.
Commit(v) ==
    LET q == view[v] IN
    /\ q.stage = "done" /\ (q.op = "rename" => q.to \notin known)
    /\ known' = (known \ {q.id}) \cup (IF q.op = "rename" THEN {q.to} ELSE {})
    /\ approved' = ApprovedAfter(q)
    /\ readings' = (readings \ q.gone) \cup q.come
    /\ trust' = [trust EXCEPT ![q.to] = IF q.op = "rename" THEN trust[q.id] ELSE @,
                              ![q.id] = "none"]
    /\ view' = [view EXCEPT ![v] = AtRest]
    /\ UNCHANGED <<now, work>>

\* The request ends without a commit: a statement fails, the database breaks a
\* deadlock, or the web process dies.
RollBack(v) ==
    /\ view[v] # AtRest
    /\ view' = [view EXCEPT ![v] = AtRest]
    /\ UNCHANGED <<known, approved, readings, now, work, trust>>

-----------------------------------------------------------------------------
\* Some devices are known, and some of these approved, when the model begins.
Init ==
    /\ known \in SUBSET Ids
    /\ approved \in SUBSET known
    /\ trust = [id \in Ids |-> IF id \in approved THEN "granted" ELSE "none"]
    /\ readings = {}
    /\ now = 0
    /\ work = AtRest
    /\ view = [v \in Operators |-> AtRest]

Worker == \/ \E id \in Ids, metrics \in SUBSET Metrics : SensorBegin(id, metrics)
          \/ SensorSave
          \/ SensorStore
          \/ WorkerDies

\* An admin has one request at a time.
Immediate(v) == \E id \in Ids :
    /\ view[v] = AtRest
    /\ \/ \E yes \in BOOLEAN : Approve(id, yes)
       \/ \E m \in Metrics, from, upto \in 1 .. MaxTime :
             DeleteReadings(v, id, {m}, from, upto) \/ DeleteReadings(v, id, Metrics, from, upto)

Merge(v) == \/ ListSource(v) \/ ListTarget(v)
            \/ \E m \in Metrics : Compare(v, m)
            \/ DropLoser(v) \/ TakeWinner(v) \/ TakeRest(v)

Move(v) == \/ \E id, to \in Ids : RenameRead(v, id, to)
           \/ \E id \in Ids : DeleteRead(v, id)
           \/ RenameData(v) \/ DeleteData(v) \/ Merge(v)
           \/ Commit(v) \/ RollBack(v)

Next == Worker \/ \E v \in Operators : Immediate(v) \/ Move(v)

Spec == Init /\ [][Next]_vars

-----------------------------------------------------------------------------
(* Properties. *)

\* A device is approved only if what an admin last decided of it, under this id
\* or the ids it was renamed from, is to approve it: discovery, ingestion,
\* rename, merge and delete never approve (README.md:87, "only then").
ApprovalIsGiven == \A id \in approved : trust[id] = "granted"

\* The newest of the readings a rename or merge has looked at survives it: of
\* every metric, the new id has one at least as new after the commit, whatever
\* the worker stores between the statements (devices/views.py:685-719).
NewestSurvives ==
    [][\A v \in Operators : Commit(v) /\ view[v].op # "delete" =>
          \A r \in view[v].compared : \E k \in readings' :
             k.device = view[v].to /\ k.metric = r.metric /\ k.time >= r.time]_vars

\* A merge never mixes the two series it has compared: after the commit the
\* target has, of each metric, all that was compared of the one and nothing that
\* was compared of the other.
OneSeriesIsKept ==
    [][\A v \in Operators, m \in Metrics : Commit(v) /\ view[v].op = "merge" =>
          LET q == view[v]
              mine == Relabelled(Series(q.compared, q.id, m), q.to)
              theirs == Series(q.compared, q.to, m)
          IN readings' \cap (mine \cup theirs) \in {mine, theirs}]_vars
=============================================================================
