---------------------------- MODULE StatusTimeline ----------------------------
(***************************************************************************)
(* The status timeline of one device: status_timeline_view                 *)
(* (readings/views.py) reads the DeviceStatusLog rows in two queries and   *)
(* cuts a window into segments, while the worker logs, a merge moves in    *)
(* the rows of another device, or the device's own rows leave.             *)
(*                                                                         *)
(* One handler stamps all its rows with one time, and stores them one by   *)
(* one.  Both queries order by time alone: rows of one instant come in any *)
(* order.                                                                  *)
(***************************************************************************)
EXTENDS Naturals, Sequences, FiniteSets

CONSTANTS
    Levels,     \* alert levels; "" is no alert
    Span,       \* the length of a preset window
    MaxTime,    \* bound: the last instant
    MaxLogs     \* bound: rows

ASSUME TimelineAssumption ==
    "" \in Levels /\ Span \in Nat /\ MaxTime \in Nat /\ MaxLogs \in Nat

VARIABLES
    now,
    logs,       \* the device's DeviceStatusLog rows; equal rows are one
    handler,    \* [time, todo]: what the worker's handler has still to log
    view,       \* a request between its queries; known is history, the logs at its first
    segments    \* the last answer

vars == <<now, logs, handler, view, segments>>

Entry == [time : Nat, level : Levels]
Segment == [start : Nat, end : Nat, level : Levels]
NoHandler == [time |-> 0, todo |-> <<>>]
NoView == [open |-> FALSE, start |-> 0, end |-> 0, level |-> "", known |-> {}]

-----------------------------------------------------------------------------
(* The worker, admins, and time. *)

\* A message whose handler logs one row, or a release and then a timeout.
Handle(levels) ==
    /\ handler = NoHandler
    /\ Cardinality(logs) + Len(levels) <= MaxLogs
    /\ handler' = [time |-> now, todo |-> levels]
    /\ UNCHANGED <<now, logs, view, segments>>

Log ==
    /\ handler.todo # <<>>
    /\ logs' = logs \cup {[time |-> handler.time, level |-> Head(handler.todo)]}
    /\ handler' = IF Len(handler.todo) = 1 THEN NoHandler
                  ELSE [handler EXCEPT !.todo = Tail(@)]
    /\ UNCHANGED <<now, view, segments>>

HandlerFails ==
    /\ handler # NoHandler
    /\ handler' = NoHandler
    /\ UNCHANGED <<now, logs, view, segments>>

\* _merge_devices: a row of the other device becomes a row of this one.
Adopt(entry) ==
    /\ Cardinality(logs) + Len(handler.todo) < MaxLogs
    /\ entry.time <= now
    /\ logs' = logs \cup {entry}
    /\ UNCHANGED <<now, handler, view, segments>>

\* The rows leave: the device is deleted, or the source of a rename or merge.
\* A handler at work logs on if the device's id is taken anew.
Leave ==
    /\ logs # {}
    /\ logs' = {}
    /\ UNCHANGED <<now, handler, view, segments>>

Tick ==
    /\ now < MaxTime
    /\ now' = now + 1
    /\ UNCHANGED <<logs, handler, view, segments>>

-----------------------------------------------------------------------------
(* The view. *)

NewestIn(entries) == {e \in entries : \A f \in entries : f.time <= e.time}
LevelsOf(entries) == IF entries = {} THEN {""} ELSE {e.level : e \in entries}

\* The level a window begins with: of one of the newest rows before it.
InitialLevels_AnyRow(start) == LevelsOf({e \in logs : e.time < start})

InitialLevels(start) == LevelsOf(NewestIn({e \in logs : e.time < start}))

\* Ordered(s): the orders in which a query by time may return the rows s.
Ordered(s) ==
    {f \in [1 .. Cardinality(s) -> s] :
        /\ \A e \in s : \E i \in DOMAIN f : f[i] = e
        /\ \A i, j \in DOMAIN f : i < j => f[i].time <= f[j].time}

\* time__gte=start, time__lte=end.  A row twice would give a segment of no length.
Within_NoEnd(start, end) == {e \in logs : start <= e.time}

Within(start, end) == {e \in logs : start <= e.time /\ e.time <= end}

\* Each row ends the segment that began with the row before it.
Segments(start, end, level, entries) ==
    [i \in 1 .. Len(entries) + 1 |->
        [start |-> IF i = 1 THEN start ELSE entries[i - 1].time,
         end |-> IF i = Len(entries) + 1 THEN end ELSE entries[i].time,
         level |-> IF i = 1 THEN level ELSE entries[i - 1].level]]

\* A window from the request: nothing asks that it start before its end.
Windows == (0 .. MaxTime) \X (0 .. MaxTime)
Preset == <<IF now >= Span THEN now - Span ELSE 0, now>>

QueryInitial(window) ==
    /\ ~view.open /\ segments = <<>>
    /\ \E level \in InitialLevels(window[1]) :
          view' = [open |-> TRUE, start |-> window[1], end |-> window[2],
                   level |-> level, known |-> logs]
    /\ UNCHANGED <<now, logs, handler, segments>>

QueryLogs ==
    /\ view.open
    /\ \E entries \in Ordered(Within(view.start, view.end)) :
          segments' = Segments(view.start, view.end, view.level, entries)
    /\ view' = NoView
    /\ UNCHANGED <<now, logs, handler>>

\* The page is closed or drawn anew.
Close ==
    /\ segments # <<>>
    /\ segments' = <<>>
    /\ UNCHANGED <<now, logs, handler, view>>

-----------------------------------------------------------------------------
Messages == {<<level>> : level \in Levels} \cup {<<"", level>> : level \in Levels \ {""}}

Init ==
    /\ now = 1 /\ logs = {} /\ handler = NoHandler /\ view = NoView /\ segments = <<>>

Next ==
    \/ \E levels \in Messages : Handle(levels)
    \/ Log \/ HandlerFails
    \/ \E entry \in [time : 0 .. now, level : Levels] : Adopt(entry)
    \/ Leave \/ Tick
    \/ QueryInitial(Preset)
    \/ \E window \in Windows : QueryInitial(window)
    \/ QueryLogs \/ Close

Spec == Init /\ [][Next]_vars

-----------------------------------------------------------------------------
\* What a device's level was at t, by the rows e: of the newest row until t.
LevelAt(t, e) == LevelsOf(NewestIn({x \in e : x.time <= t}))

(* The segments tile the window: from its start to its end, each beginning  *)
(* where the one before it ended.  None runs backwards, unless the window   *)
(* itself does: then it is the only one.                                    *)
SegmentsTile ==
    [][QueryLogs =>
        /\ segments'[1].start = view.start
        /\ segments'[Len(segments')].end = view.end
        /\ \A i \in 1 .. Len(segments') - 1 : segments'[i].end = segments'[i + 1].start
        /\ IF view.start <= view.end
           THEN \A i \in 1 .. Len(segments') : segments'[i].start <= segments'[i].end
           ELSE Len(segments') = 1]_vars

(* At every instant of the window the timeline shows the level of the       *)
(* newest row until then, by the rows of one of the two queries: rows that  *)
(* are logged or moved in between them leave no instant with a level that   *)
(* neither would have shown.  Where rows have left in between, that is so   *)
(* from the second segment on.                                              *)
TimelineIsHistory ==
    [][QueryLogs =>
        \A i \in 1 .. Len(segments'), t \in view.start .. view.end :
           /\ segments'[i].start <= t /\ t < segments'[i].end
           /\ i = 1 => view.known \subseteq logs
           => segments'[i].level \in LevelAt(t, view.known) \cup LevelAt(t, logs)]_vars
=============================================================================
