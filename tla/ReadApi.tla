------------------------------- MODULE ReadApi -------------------------------
(***************************************************************************)
(* A client that follows /api/v1/readings/ page by page (api/views.py,     *)
(* api/auth.py) while the worker stores readings, admins approve, withdraw, *)
(* rename and merge devices and delete readings (devices/views.py,         *)
(* readings/views.py), and the key is switched off and on.                 *)
(*                                                                         *)
(* The client does what docs/read-api.md tells it: it sets `start` to the  *)
(* last returned timestamp and leaves `end` to its default, now; when no   *)
(* page follows it asks again later, from where it is.  A request is four  *)
(* reads of the database, and anything may happen between them.            *)
(***************************************************************************)
EXTENDS Integers, FiniteSets

CONSTANTS
    Devices, Metrics,   \* numbered in the order the database sorts them
    All,                \* no device_id parameter
    Limit,              \* rows of a page
    MaxRange,           \* MAX_RANGE: the longest range answered
    MaxTime             \* bound: the last instant

ASSUME ReadAssumption ==
    /\ Devices \subseteq Int /\ Metrics \subseteq Int /\ IsFiniteSet(Metrics)
    /\ All \notin Devices
    /\ Limit \in Nat \ {0} /\ MaxRange \in Nat /\ MaxTime \in Nat

VARIABLES
    now,
    rows,       \* SensorReading, without the values
    batch,      \* the rows of the message the worker is handling
    approved,   \* the approved devices
    active,     \* ApiKey.is_active
    request,    \* [step, until, devices]: the request being answered
    filter,     \* the client's device_id
    start,      \* what the client sends as `start`
    more,       \* has_more of the last page
    got,        \* the rows the client has
    kept,       \* history: the devices approved all the time
    behind      \* history: the rows a rename or a merge moved behind the cursor

server == <<now, rows, batch, approved, active, kept, behind>>
client == <<filter, start, more, got>>
vars == <<server, request, client>>

Row == [time : Nat, device : Devices, metric : Metrics]
Idle == [step |-> "idle", until |-> 0, devices |-> {}]
Asked == IF filter = All THEN Devices ELSE {filter}

TypeOK ==
    /\ now \in Nat
    /\ rows \subseteq Row /\ IsFiniteSet(rows)
    /\ batch \subseteq Row /\ IsFiniteSet(batch)
    /\ approved \subseteq Devices /\ kept \subseteq Devices
    /\ active \in BOOLEAN /\ more \in BOOLEAN
    /\ request \in [step : {"idle", "known", "ranged", "resolved"}, until : Nat,
                    devices : SUBSET Devices]
    /\ filter \in Devices \cup {All}
    /\ start \in Nat
    /\ got \subseteq Row /\ behind \subseteq Row

-----------------------------------------------------------------------------
(* One page. *)

SameInstantBefore(r, s) ==
    /\ r.time = s.time
    /\ \/ r.device < s.device
       \/ r.device = s.device /\ r.metric < s.metric

\* ORDER BY time, device_id, metric.
Before(r, s) == r.time < s.time \/ SameInstantBefore(r, s)

From_Exclusive(r) == r.time > start

From(r) == r.time >= start

Matched == {r \in rows : r.device \in request.devices /\ From(r) /\ r.time <= request.until}

Page == {r \in Matched : Cardinality({s \in Matched : Before(s, r)}) < Limit}

HasMore_NoExtraRow == Cardinality(Page) > Limit

\* A count that forgets the window.
HasMore_Count == Cardinality({r \in rows : r.device \in request.devices}) > Limit

HasMore == Cardinality(Matched) > Limit

Last(r) == r \in Page /\ \A s \in Page : s = r \/ Before(s, r)

-----------------------------------------------------------------------------
(* A request. *)

\* Without an active key the answer is 401 and nothing changes.
Authenticate ==
    /\ request.step = "idle"
    /\ active
    /\ request' = [request EXCEPT !.step = "known"]
    /\ UNCHANGED <<server, client>>

\* last_used_at is written, which nothing here reads; then the range is parsed.
RecordUse ==
    /\ request.step = "known"
    /\ request' = IF start < now /\ now - start <= MaxRange
                  THEN [request EXCEPT !.step = "ranged", !.until = now]
                  ELSE Idle
    /\ UNCHANGED <<server, client>>

ResolveDevices ==
    /\ request.step = "ranged"
    /\ request' = IF filter \in approved \cup {All}
                  THEN [request EXCEPT !.step = "resolved", !.devices = approved \cap Asked]
                  ELSE Idle
    /\ UNCHANGED <<server, client>>

Answer ==
    /\ request.step = "resolved"
    /\ request' = Idle
    /\ got' = got \cup Page
    /\ more' = HasMore
    /\ \/ Page = {} /\ start' = start
       \/ \E r \in Page : Last(r) /\ start' = r.time
    /\ UNCHANGED <<server, filter>>

\* A process dies or a response is lost; the client asks again.
Fail ==
    /\ request # Idle
    /\ request' = Idle
    /\ UNCHANGED <<server, client>>

-----------------------------------------------------------------------------
(* The rest of the server. *)

\* handle_sensor_message: one stamp for all metrics of a message, stored by
\* one statement some time later.  Nothing comes at the last instant, so that
\* there is a time after every reading.
Stamp(d, metrics) ==
    /\ batch = {} /\ now < MaxTime
    /\ d \in approved
    /\ \A r \in rows : r.device = d => r.time < now
    /\ batch' = {[time |-> now, device |-> d, metric |-> m] : m \in metrics}
    /\ UNCHANGED <<now, rows, approved, active, kept, behind, request, client>>

Store ==
    /\ batch # {}
    /\ rows' = rows \cup batch
    /\ batch' = {}
    /\ UNCHANGED <<now, approved, active, kept, behind, request, client>>

WorkerDies ==
    /\ batch # {}
    /\ batch' = {}
    /\ UNCHANGED <<now, rows, approved, active, kept, behind, request, client>>

\* Approved or withdrawn; a deleted device is no longer approved either.
Decide(d) ==
    /\ IF d \in approved
       THEN approved' = approved \ {d} /\ kept' = kept \ {d}
       ELSE approved' = approved \cup {d} /\ UNCHANGED kept
    /\ UNCHANGED <<now, rows, batch, active, behind, request, client>>

\* _rename_device and _merge_devices, as a reader sees them when they commit:
\* readings of d have become readings of e, at the times they had, some of either
\* are deleted, and d is gone.  A renamed device keeps its approval.  Which rows go
\* and which stay is left open: the statements of a merge see what the worker
\* stores between them.
Move(d, e, moved, lost) ==
    /\ d # e
    /\ \A r \in moved : r.device = d
    /\ LET come == {[r EXCEPT !.device = e] : r \in moved}
       IN /\ come \cap rows \subseteq lost
          /\ rows' = (rows \ (moved \cup lost)) \cup come
          /\ behind' = behind \cup {r \in come : r.time < start}
    /\ approved' = approved \ {d} \/ (d \in approved /\ approved' = (approved \ {d}) \cup {e})
    /\ kept' = kept \ {d}
    /\ UNCHANGED <<now, batch, active, request, client>>

\* delete_readings_view, and the readings of a deleted device.
DeleteReadings(lost) ==
    /\ rows' = rows \ lost
    /\ UNCHANGED <<now, batch, approved, active, kept, behind, request, client>>

SetKey ==
    /\ active' = ~active
    /\ UNCHANGED <<now, rows, batch, approved, kept, behind, request, client>>

Tick ==
    /\ now < MaxTime
    /\ now' = now + 1
    /\ UNCHANGED <<rows, batch, approved, active, kept, behind, request, client>>

-----------------------------------------------------------------------------
Init ==
    /\ now = 1 /\ rows = {} /\ batch = {}
    /\ approved \in SUBSET Devices /\ kept = approved
    /\ active = TRUE
    /\ request = Idle
    /\ filter \in Devices \cup {All}
    /\ start = 0 /\ more = FALSE /\ got = {} /\ behind = {}

Work == \E d \in Devices, metrics \in SUBSET Metrics \ {{}} : Stamp(d, metrics)

Next ==
    \/ Authenticate \/ RecordUse \/ ResolveDevices \/ Answer \/ Fail
    \/ Work \/ Store \/ WorkerDies
    \/ \E d \in Devices : Decide(d)
    \/ \E d, e \in Devices : \E moved \in SUBSET {r \in rows : r.device = d} :
          \E lost \in SUBSET {r \in rows \ moved : r.device \in {d, e}} : Move(d, e, moved, lost)
    \/ \E d \in Devices : \E lost \in SUBSET {r \in rows : r.device = d} : DeleteReadings(lost)
    \/ SetKey \/ Tick

Spec == Init /\ [][Next]_vars

\* The client does not give up, not every request fails, and time passes.
Fairness ==
    /\ WF_vars(Authenticate) /\ SF_vars(RecordUse)
    /\ SF_vars(ResolveDevices) /\ SF_vars(Answer)
    /\ WF_vars(Tick)

FairSpec == Spec /\ Fairness

-----------------------------------------------------------------------------
(* Whatever is stored between and during the pages, a client that follows   *)
(* them has left nothing behind its cursor: it has every stored reading     *)
(* before `start` of a device that was approved all the time, but for those  *)
(* a rename or a merge gave that device behind the cursor, which the pages   *)
(* never show.  This needs the inclusive start, the order by time, and one   *)
(* worker that stores what it has stamped before it stamps again.            *)
NothingSkipped ==
    \A r \in rows \ behind : r.device \in kept \cap Asked /\ r.time < start => r \in got

(* A page that says nothing follows completes the range it was asked for,   *)
(* up to `end` at the time of the request, with the same exception.         *)
LastPageCompletes ==
    [][Answer /\ ~more'
       => \A r \in rows \ behind : r.device \in kept \cap Asked /\ r.time <= request.until
                                   => r \in got']_vars

(* A page after which more is to come moves the cursor, as long as fewer    *)
(* readings than a page holds share the instant the cursor is at: the next  *)
(* request asks for another page, not for the same one.                     *)
PagesAdvance ==
    [][Answer /\ more' /\ Cardinality({r \in Matched : r.time = start}) < Limit
       => start' > start]_vars

(* Who is told that more follows gets on: the cursor moves, or a later page *)
(* says it was the last, unless a page cannot hold the readings of one      *)
(* instant, the client has fallen behind the longest range, the key is      *)
(* switched off, or the device asked for is withdrawn (api/views.py:154-166). *)
Crowded(t) == Cardinality({r \in rows : r.time = t}) >= Limit
PagesGoOn ==
    \A t \in 1 .. MaxTime - 1 :
        more /\ start = t ~> \/ start > t \/ ~more
                             \/ Crowded(t) \/ now - t > MaxRange
                             \/ ~active \/ filter \in Devices \ approved
=============================================================================
