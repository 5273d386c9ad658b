# Sensor server: TLA+ models, model checking and proofs

The repository is a Django application that receives the messages of MQTT
sensor devices, keeps their rows, readings and health, sends them commands and
firmware updates, and shows all this to people and to API clients. This
directory models the parts of it in which order, failure and time matter, checks
them with TLC and proves what matters most with TLAPS. The models are written
from the source; file names below are relative to `src/web/`.

Run, in this directory:

    tlc -workers 2 -config DeviceHealth_safety.cfg MCDeviceHealth.tla
    tlapm DeviceHealthProofs.tla

`PROJECT.json` lists the components, the runs, for every checked property a
mutant of the code that breaks it, the source lines of every definition, the
hazards, the findings and the theorems.

## 1. The system

| Component | Source | State it keeps | Operations | Talks to |
|---|---|---|---|---|
| MQTT worker | `mqtt_bridge/services.py`, `management/commands/mqtt_worker.py` | none of its own: everything is in the database | one handler per topic (sensors, status, diag, capabilities, commands, calibration, ack), reconnect loop | broker, database, channel layer (Redis) |
| Device health | `services.py:372-673, 676-818, 934-1037`, `devices/models.py` | `last_seen`, the alert columns, `alert_updated_at`, `capabilities_requested_at`, `diag_requested_at`, `battery_percent`, the `DeviceStatusLog` rows | latch, release, capabilities timeout, low-battery recovery, automatic `get_diag` | written by worker, approve/edit views; broadcast to open pages |
| Command lifecycle | `devices/views.py:428-494`, `ota/services.py`, `services.py:102-369, 1040-1106` | `CommandLog` rows (pending, success, failed, timeout) | publish and record (views), wake-up flush, ack, OTA and capability timeouts (worker), delete | broker, devices, database |
| Device registry | `devices/views.py:497-734`, `readings/views.py:417-472`, `services.py` | `Device` rows, three kinds of logs, readings, two continuous aggregates | discover, ingest, approve, edit, rename, merge, delete, delete readings, refresh | database only |
| Calibration mirror | `devices/views.py:246-344`, `services.py:165-177, 249-275, 339-369, 815-818, 884-921, 1065-1106` | the JSON column that mirrors what a device said of its calibration; `CommandLog` rows of the sets | set by the views, replaced by a report, merged with the answer of old firmware, re-pushed to a device whose store is empty; unacked sets are flushed | broker, database |
| Firmware catalogue | `ota/views.py`, `ota/models.py`, `ota/auth.py`, `ota/services.py` | hardware codes, revisions, firmware rows and files | upsert, publish (create or replace), list, latest, compatible images | CI clients, devices, file storage |
| Read API | `api/` | API keys | devices, readings and aggregates, paged by time | API clients |
| Accounts | `accounts/` | users, one role each, superuser flag | log in, approve, set role, grant/revoke superuser | OIDC provider |
| Dashboard, charts, timeline | `readings/views.py` | none | read readings/aggregates, build the status timeline, delete readings | database |
| Live updates | `readings/consumers.py` | open pages | forward what the worker broadcasts | channel layer |
| Catalogue pages, admin site, settings, templates | `catalog/`, `*/admin.py`, `sensor_server/` | text | render | - |

How they interact. Web processes and the worker share only the database, the
broker and the channel layer. The worker is one thread, paho's `loop_forever`:
it handles one message at a time, and an exception in a handler loses that
message only. Views run at the same time as the worker and as each other, mostly
without transactions; rename, merge and delete have one, at READ COMMITTED.
Devices sleep, lose their session, reboot for an update, and repeat messages.

What is hard here:

- *Steps of a view around a publish.* Views publish first and record after, so
  the answer of a device can overtake the row it is meant for.
- *Rows read early and used late.* The sensor handler decides on the row it read
  before several calls to the broker; a rename copies the row its view read.
- *Acks without an id.* An ack names an action; loss, duplication and two pending
  commands of one action make it ambiguous.
- *Time derived from the last message.* Online, stale, overdue are ages of
  columns that different handlers refresh differently.
- *Sleepers.* What wakes up, and when it counts as having been away, decides
  whether a command ever arrives.
- *Half-done handlers.* A broadcast that raises ends a handler between two writes.
- *Data filed under a name.* Readings are tied to a device id, not to a row.
- *Whole columns written back.* A calibration view saves the whole mirror it read
  some steps earlier, the report's handler replaces it, and the answer of old firmware
  is merged into the copy its handler read.
- *Sent again.* The wake-up flush repeats what is not acked, executed or not.
- *Statements with a snapshot each.* A merge is a series of statements at READ
  COMMITTED, and the worker stores between them.
- *Files outside the transaction.* A rollback takes back a firmware row and leaves
  the files as they are; a taken name gets a suffix nobody downloads.
- *Pages by time.* A client reads page after page while rows arrive behind it that
  were stamped before they are stored.

What makes each component correct:

- *Health*: the alert shown is the server's own or what the device last said; it
  is released for a reason, and it is released; the timeline and the pages agree
  with it; a poll is sent for an alert that is still live.
- *Commands*: a concluded command stays concluded; no success is invented; an
  update is successful only when its version ran, and is not sent twice; a
  wake-up is noticed; a recorded command concludes.
- *Registry*: only admins approve; a rename or a merge loses no newest data and
  mixes no two series.
- *Calibration*: mirror and device hold what was saved or reported last, and a
  wiped device gets it back.
- *Firmware*: every image hangs on registered hardware; row and file agree; an
  image is replaced only when that was asked for.
- *Read API*: following the pages misses nothing, gets on, and ends.
- *Timeline*: the segments tile the window and show what the log says.

## 2. Modules

| Module | Models | Proofs | Instances |
|---|---|---|---|
| `DeviceHealth` | one device row as the worker and the views change it | `DeviceHealthProofs` | `MCDeviceHealth` |
| `AlertLatch` | abstract: what the alert of a row promises to its reader | `DeviceHealthProofs` | by `DeviceHealth` |
| `CommandLifecycle` | the commands of one device: views, broker, device, worker | `CommandLifecycleProofs` | `MCCommandLifecycle` |
| `CommandLedger` | abstract: what the command log promises to its reader | `CommandLedgerProofs` | by `CommandLifecycle` |
| `DeviceRegistry` | rows, approvals and readings under worker and admins | `DeviceRegistryProofs` | `MCDeviceRegistry` |
| `CalibrationMirror` | the mirror of one device's calibration: views, broker, device, worker | `CalibrationMirrorProofs` | `MCCalibrationMirror` |
| `FirmwareCatalog` | hardware registry, firmware rows and files under publishers and admins | `FirmwareCatalogProofs` | `MCFirmwareCatalog` |
| `ImageCatalogue` | abstract: which image a version shows | `FirmwareCatalogProofs` | by `FirmwareCatalog` |
| `ReadApi` | a client that pages through the readings while the server goes on | `ReadApiProofs` | `MCReadApi` |
| `StatusTimeline` | the timeline of one device, built from two queries | `StatusTimelineProofs` | `MCStatusTimeline` |

A definition named `X_Y` is `X` with a plausible bug `Y`; nothing but the
mutation runs uses it.

### DeviceHealth

Every timestamp column is only ever compared with "now", so the model keeps its
age (`Never` for NULL, saturating at `Horizon`, which lies beyond every window
the code uses); `Tick` is the only passing of time, and the windows
`OfflineTimeout`, `CapsWindow`, `Cooldown10` are the code's formulas. A handler
is one action: the worker is sequential and apart from rename, merge and delete
the only writer of these columns. The exception in the middle of a handler is
kept: `SensorAborted` is a release whose broadcast raises after the log row was
written and before the row is saved, and in `SensorMessage` a channel layer that
is down (`up = FALSE`) stops the loop that stores the readings.

`alert`, `capsReq`, `polled`, `seen`, `battery`, `config` are columns; `tail` is
the newest `DeviceStatusLog` row; `live` is what was last broadcast; `report` is
a history variable, what the device itself last said. The order inside
`handle_sensor_message` is kept by the chain `Released` - `Reconciled` -
`AfterTimeout` - `PollDue` - `Recovered`: release of a stale alert, capabilities
timeout, poll (on the battery stored by an *earlier* message), storing, recovery.

### AlertLatch

The alert as its reader knows it: a level and a text that are latched as the device
claimed them, and go by a new claim (`Claim`), by expiry (`Expire`), or with a low
battery that recovered (`Recover`); the server raises and withdraws an alert of its
own (`Flag`, `Unflag`). No other step changes it, so what was released comes back
by a new claim only. `DeviceHealth` instantiates it as `Latch`: `shown` is the pair
of alert columns, `claim` the pair in `report`, `overdue` compares the age of the
claim (of the column, for an alert older than its clock) with the window. Requests,
polls, log rows and broadcasts are stutters or waits of the latch.

### CommandLifecycle

The views are split where they touch the broker or the database: `ViewPublish`,
`ViewRecord`, `ViewAsk`, `ViewStartClock`, in the order the code has for each
kind of command. The worker's sensor handler is two steps, `SensorBegin` (reads
the row, saves `last_seen`) and `SensorWakesUp` or `SensorContinues` (what it
does with what it read), because views run in between. A publish of the flush that
fails is skipped (`services.py:361-367`): `SensorWakesUp` chooses which of the
unacked commands the broker takes. Other handlers write
once. `wire` and `up` are the queues to the device and to the worker.

The broker and the devices are not in the repository. They are modelled from the
protocol the code relies on, and everything assumed of them is the constant
`Assumed`, so that each run names its assumptions: a persistent session or not,
sleeps that outlast the offline window or never do, loss, QoS 1 duplicates,
whether a wake-up publishes sensors first, whether it waits until nothing is
left. "No loss" also excludes a restart of the worker, whose session is clean
(`mqtt_worker.py:39`). `outcome`, `okays` and `owed` are history variables: what
executing a command gave, how many succeeded, and whether the device came back
and no sensor message was handled since.

"set" stands for every command a device acknowledges. `get_status`, `get_diag`
and `get_commands` are left out: they add no step to those of "set". The
calibration commands, whose values matter, have their rows and their flush in
`CalibrationMirror`. Time is reduced to three facts the code derives from it: online,
the capabilities clock has expired, an update is late.

### DeviceRegistry

`known` are the ids with a row, `approved` those whose row says so, `readings` the
committed readings, each with device, metric and time. The worker's sensor handler is
three steps (read and create the row; save it; store the readings). A rename, merge or
delete reads its rows (`RenameRead`, `DeleteRead`) before its transaction and then runs
it statement by statement: `RenameData`; `ListSource`, `ListTarget`, and for each shared
metric `Compare`, `DropLoser` and, if the source won, `TakeWinner`; `TakeRest`;
`DeleteData`; then `Commit`. Each statement sees what is committed when it runs, the
worker's readings between two statements included, and the transaction's own changes:
`view[v].gone` and `come` are what it has removed and added, `Visible` what it sees. Rows
an open transaction has changed are locked (`Unlocked`); a statement that waits for them
is taken with the snapshot of the end of its wait. `RollBack` is a failed statement, a
deadlock that the database breaks, or a web process that dies; `WorkerDies` loses the
message in hand.

`compared` is history: what the lists and comparisons of a merge have looked at.
`trust` is history: what an admin last decided of the device, followed through renames.
Not kept: the log tables, all columns but `is_approved` (with them `last_seen`, which a
merge copies), the aggregates and their refresh.

### CommandLedger

The log as its reader knows it: a command is unsent, pending, concluded or
deleted, with a count of the successful executions and the set of updates whose
image ran. `Succeed`, `Fail`, `TimeOut` and `Delete` are its steps, and a success
has to be paid for by an execution. `CommandLifecycle` instantiates it as `Ledger`
with the mapping `Shown` (a row that was never created is "unsent", one that is
gone is "deleted"), `okays` for the executions and `UpdatesRun` for the images.
Queues, views, flushes, losses and restarts are stutters of the ledger.

### CalibrationMirror

`SetBegin`, `SetPublish`, `SetLog` and `SetSave` are the two setting views, cut where the
worker or another admin can come in between: read the row, publish, log the command, save
the whole mirror read with one key changed. The publish may fail (nothing is saved), and so
may the log or the save after it (`SetEnds`: the command is out, the mirror is not saved;
this is also what a set typed by hand into `device_command_view` does). `rows` are the
unacked `CommandLog` rows. `HandleAck` concludes the newest one of the action the ack
names; `Flush` takes all of them at a wake-up, oldest first, and `FlushNext` publishes
them one by one, each of which may fail. When the worker thinks a device has woken up
depends on `last_seen`, which is in the other modules: here a flush may come at any time.

`HandleCapabilities` takes the mirror to re-push from the row it reads, `Repush` sends it
key by key, and a publish that fails there is skipped. `HandleReport` replaces the mirror by
the numbers of the report; `Junk` stands for a value that is none. `HandleLegacy` reads the
row for the answer of old firmware, an ack without action, and `LegacySave` saves its offsets
merged into what was read. The device (`Execute`, `Report`, `PublishCapabilities`, `Wipe`)
and its queue are external; an ack may be lost, also with the worker's clean session
(`WorkerRestarts`). `wanted` is history: of each key, what was saved or reported last;
`issued` what was sent last, flushes aside. `calm` is history: no two exchanges crossed and
none was cut short since the beginning or since a report was asked for at rest (`Ask`), which
repairs everything; the answer of old firmware names its offsets only and repairs nothing
else, so with old firmware (`legacy`, chosen at the beginning) it does not restore `calm`. A lost
ack, a flush and a restart do not end `calm`. Not modelled: an admin who deletes the row of a command, which only keeps the
flush from sending it.

### FirmwareCatalog

A publication is `Begin` (all checks, and the read of the version's row, before
the transaction), `ClearFile`, `StoreFile` and `CommitRow`, or `Fail` in between.
The file's deletion and its storage are not undone by a rollback. `NameFor` is the
storage: the name asked for, number 0, if it is free, else another one; devices
download name 0. `Fits` is the unique key and the foreign key of the row at the
commit; a row saved under a primary key that is gone is inserted again (`Key`).
The admin site deletes rows, revisions and codes, under PROTECT and CASCADE;
`orphan` marks a publication whose revision was deleted, registered again or not.
`offered`, `asked` and `alone` are history. `Catalogue` instantiates
`ImageCatalogue` with the images of the rows.

### ReadApi

A request is four steps, as it is four accesses to the database: `Authenticate`,
`RecordUse` (which writes `last_used_at`, a single column nobody reads, then the range is
parsed), `ResolveDevices`, `Answer`. The client follows `docs/read-api.md`: `start` is the last timestamp it
got, `end` is left to its default. `Matched`, `Page` and `HasMore` are the filter,
the slice and the test for one row more. The worker stamps the rows of a message
(`Stamp`) and stores them later (`Store`); admins approve and withdraw (`Decide`),
switch the key (`SetKey`), delete readings (`DeleteReadings`), and rename or merge devices:
`Move` is such a transaction as a reader sees it at its commit, with any of the readings
moved and any of the others deleted. `kept` is history: devices approved all the time;
`behind` is history: the rows a rename or merge gave to a device behind the client's cursor.
No page ever shows these, and the properties except them, and nothing else. A `metric`
filter only makes the set of rows smaller and is left out.

### StatusTimeline

`QueryInitial` and `QueryLogs` are the view's two queries, each with the orders a
query by time alone may return (`InitialLevels`, `Ordered`); `Segments` is the
loop. The worker stamps all rows of one handler with one time and stores them one
by one (`Handle`, `Log`); a merge moves in rows of any time (`Adopt`), and a rename, a
merge into another device or a deletion takes all of them away (`Leave`). A window from the
request may end before it starts, which `_parse_time_range` does not check. `known` is
history: the rows at the first query. Messages travel with their levels, so only
levels are kept; two equal rows of one instant differ by a segment of no length.

## 3. What is checked

| Run | Checks | Instance |
|---|---|---|
| `health_safety` | type, `AlertProvenance`, `ClockIsLastAssertion`, `TimelineInSync`, `PagesShowDeviceAlert`, `ReleaseJustified`, `PollOnlyLiveAlert`, `ImplementsLatch` | interval known or not, two texts, channel layer up, windows of 2 and 3 ticks |
| `health_live` | `TimelineOnlyLags`, `AlertsAreReleased` | interval unknown, channel layer may fail, windows of 1 tick |
| `command_lossy` | type, `NoInventedSuccess`, `TerminalIsFinal` | two equal commands; loss, duplicates, restarts, no persistent session |
| `command_update` | `UpdateSuccessIsTrue`, `UpdateSentOnce`, `WakeIsNoticed`, `ImplementsLedger` | one capabilities request and one update; persistent session |
| `command_live` | `CommandConcludes` | one command; no persistent session, long sleeps |
| `registry_safety` | type, `ApprovalIsGiven`, `NewestSurvives`, `OneSeriesIsKept` | two ids, two metrics, one admin and the worker, four messages |
| `calibration_calm` | type, `CalibrationStands`, `WipeIsRestored` | one admin, an offset, which the answer of old firmware also holds, and a calibration value, two operations (sets, reports, wipes), fairness |
| `firmware_safety` | `RowsAreRegistered`, `FileIsKept`, `DownloadIsTheRow`, `ImplementsCatalogue` | one code with two revisions, a version of each, two images, two publishers, three uploads |
| `read_sync` | `NothingSkipped`, `LastPageCompletes`, `PagesAdvance`, `PagesGoOn` | two devices, one metric, pages of two, instants 1 to 3, fairness |
| `timeline` | `SegmentsTile`, `TimelineIsHistory` | three levels, three rows, instants 0 to 3, every window |

Each states in its module which code behaviour it is about. In short:
the alert is never a mixture of two sources, its clock is the device's last
assertion, it goes for one of four reasons and does go, comes back by a new claim
only, and timeline and pages follow it; a concluded command is never rewritten by a late ack, timeout or flush,
successes are never more than executions, updates are confirmed only by their
version and never flushed again; no path but an admin's approves; of the readings a merge
has looked at it keeps for each metric one whole series, and what it moves is never older
than what it drops of them; a rest in which no exchanges crossed finds device and mirror
equal, flushes and lost acks included, and an empty store is filled again; an image never
loses its file to somebody else's publication, and changes only as announced; a client that
pages misses nothing behind its cursor but what a rename or merge moved there, and gets on
unless a page cannot hold one instant; a timeline has no gap, no overlap and no level that
the log did not hold.

Two more runs check a statement of the documentation or a comment that the code
does not keep; each is a finding.

| Run | What the document says | What happens |
|---|---|---|
| `command_request` | a logged request ends in success or timeout | an answer handled before the row exists leaves it pending for ever |
| `calibration_replay` | the flush sends commands in the order they were issued | a set whose ack was lost is sent again after a later one: the device returns to the older value while the mirror has the newer one, with every row acked |

More of the kind was met while modelling; the models contain the behaviour, no
run is spent on it:

- The capabilities timeout (`services.py:501-504`) overwrites a live device alert
  and the next sensor message clears both, against the comment at 408-411.
  `ReleaseJustified` is about alerts released, not overwritten.
- The capabilities alert is not broadcast (500-514; `docs/mqtt-protocol.md:393`
  says it is). This is why `PagesShowDeviceAlert` speaks of device alerts.
- The message that reports a low battery is still polled (523 against 566-569).
- An update for a device that never returns is never timed out (478).
- A `status` or `diag` message before the first `sensors` message of a wake-up
  hides the wake-up (399). `WakeIsNoticed` is checked for devices that publish
  sensors first.
- `request_capabilities` starts its clock after the publish (136-138): an answer
  in between leaves the clock running and the device flagged although it answered.
- An ack handled before `device_command_view` has created the row matches nothing
  (`devices/views.py:449-454`); without a later wake-up the row stays pending.
- An ack names an action and no command: with two pending commands of one action
  the newest row gets the outcome of the oldest (`services.py:1091-1097`;
  `docs/mqtt-protocol.md:300-301` has the log show "exactly what became of each
  command").
- A device that wakes up every interval is never offline, so with a clean session
  its pending commands are never flushed (`services.py:481`;
  `docs/mqtt-protocol.md:470-474`).
- A rename copies neither `diag_capable` nor `location_type`, and its delete
  cascades the diagnostics logs away (`devices/views.py:630-660`; its docstring says
  "migrating all data").
- A reading of the source that is stored between two statements of a merge is moved by
  its last UPDATE (`devices/views.py:717-719`) although the target's series won: the
  target then has one reading of the other series. And a reading of the losing series
  that is stored between the comparison and the deletion (`devices/views.py:702-714`)
  goes with its series, although it is then "the most recent" (667-668).
  `OneSeriesIsKept` and `NewestSurvives` speak of the readings the merge has compared.
- A rename creates the new row with the approval its view read (`devices/views.py:563,
  637`): a revocation by a second admin in between is undone under the new id, although
  "revoked at any time [...] stops data ingestion immediately" (`README.md:88`).
- A replacement that is cut short between the deletion of the old file and the save of
  the row (`ota/views.py:243-248`) rolls back to a row that names its image and has no
  file: the storage takes no part in the transaction, and `<version>.bin`
  (`docs/ota-server.md:86, 119`) is gone. `DownloadIsTheRow` excepts it, but not a
  failure before the deletion.
- With at least as many readings at one instant as a page holds, "setting `start` to the
  last returned timestamp" (`docs/read-api.md:60-62`) gets the same page, with `has_more`,
  for ever: the filter is `time__gte` (`api/views.py:155`). One message of two metrics and
  `limit=1` are enough. `PagesGoOn` excepts it (`Crowded`).
- A rename or a merge moves readings behind the cursor of a client that follows the new
  id; no page shows them (`devices/views.py:628, 717`).
- Two first publications of one version that cross: the one that stores second gets a
  suffixed name, the refused one leaves its file, and `<version>.bin` may be the refused
  image (`ota/views.py:232, 247`).
- Deleting a device refreshes no aggregate (`devices/views.py:547-551`): hourly and
  daily rows older than the refresh window stay.
- Two admins who set two keys at once: the later save puts back the other's old
  value (`devices/views.py:283-286`). A report handled between a view's publish and
  its save is lost in the same way, and a report taken before a set and handled
  after it takes the set back from the mirror, though not from the device.
- A re-push that was cut short is not completed: the store is no longer empty, so
  the device does not say `cal: 0` again. And who asks a wiped device for its
  calibration gets an empty mirror (`services.py:911-920`); the comment at 815-816
  says that after a wipe the mirror is re-pushed so that it is restored.
- The admin form of a firmware can replace the file and keeps the checksum
  (`ota/admin.py:30`); an overwrite keeps `uploaded_at` (`ota/models.py:96`), so the
  latest image is not the one published last.
- The docstring of `readings_view` also offers `end` as a cursor: pages are ascending,
  so that cursor asks for the same rows again.
- A wiped device that gets an unacked set from a flush before its capabilities are handled
  no longer says that its store is empty, so nothing else is pushed (`services.py:349-364,
  817`). A wipe while a set is unacked is a crossing in the sense of `calm`, which
  `WipeIsRestored` and `CalibrationStands` leave out.
- Rows of one instant come in any order (`readings/views.py:234`): a release and a
  capabilities timeout of one message (`services.py:412-509`) may be shown the wrong
  way round, so that the rest of the window looks well.
- A message in flight is stored after a revocation (391, 516); a rename writes back
  an older `last_seen`; a first `status` message does not discover a device.

### Bounds

`Horizon` is one more than the largest window, so every comparison has ages on
both sides of it and at it. Intervals `{0, 1}` cover the unknown interval
(default window) and a known one (three times it); one tick is the unit of the
interval. Two texts are enough: the code compares a text with the low-battery
text, the server's own text and the stored text only. `low` stands for low and
critical.

`MaxWire` and `MaxUp` bound the two queues; a sender waits when one is full. Two
commands are the least with which an ack is ambiguous; a flush of both fits in
`MaxWire = 2`, and adding the capabilities request waits for room. In the liveness
run `MaxWire = 4` holds what one command and its requests can put on the wire, so
no step is blocked by the bound. Commands are interchangeable when they are of
one action: `SYMMETRY` is used there, and for the ids of the registry. It is used
in no liveness run.

Two ids, a free one and a taken one, make rename and merge possible; two metrics
make a shared and an unshared series; four messages give each of two devices a reading to
compare, one more to be newer, and one that is stored between the statements of the
transaction (the worker stamps no two messages alike, so a tie cannot occur). Any of the ids
may be known and approved when the model begins. The run has one admin: two cross at the
commit in the ways the list above and section 4 say.

Two keys of different actions have acks that do not conclude each other's rows, two sets of
one action have acks that do: `calibration_calm` has two keys, `calibration_replay` one. Two
operations make a set that is flushed after a wipe, two sets of which one is flushed, a set
that crosses the handling of a report, or one that is cut short and the report that repairs
it. A second admin or a third operation takes a run beyond some minutes; the theorems are for
any number of both. With one message in
`up`, an ack or a report waits behind the capabilities of `WipeIsRestored`; with two, an ack
is lost behind another. The offsets, the values and the keys of the mirror are alike but for
the action of their acks, and the theorems are for all of them.

Two publishers of two versions cross on one version and on one
hardware code; with three uploads a name can be taken, replaced and taken again,
and `Names` has a free name for each. In `read_sync` pages of two hold as many rows as one
instant has, so that a page is cut inside an instant, at its end, and after a part of the
next; `PagesAdvance` asks for fewer rows at the cursor than a page holds, which is often
the case. An instant has one row, or fills the page (`Crowded`). Nothing is stamped at the
last instant, so that some time comes after every row. `MaxRange` is less than `MaxTime`, so a client may be
refused for its range. What the run says of safety is also proved for every instance.
Three rows and four instants (0 to 3) give windows that begin before, between and after
rows, windows that end before they start, and two or three rows of one instant. The
levels but no alert are symmetric.

### Fairness

- `DeviceHealth`: weak fairness of `Tick` (time passes) and of `Sensors`: the
  worker runs and the device keeps publishing. A release needs the channel layer to
  accept its broadcast, so the fairness of `Sensors` says it is not down for ever.
  `AlertsAreReleased` is for a device that has stopped complaining and that nobody
  keeps asking for its capabilities.
- `CommandLifecycle`, `ServerFairness`: a view that has begun ends, the worker
  handles what it has received, clocks expire. `DeviceFairness`: the device wakes,
  publishes its readings, processes what it is sent and goes to sleep, for ever,
  and a long sleep is noticed. Publishing, executing, sleeping and going offline
  are disabled again and again by the other's steps, hence strong fairness. No
  fairness is assumed of a user, of the broker's duplicates or of a crash.

- `CommandLifecycle`, `BrokerFairness`: a command that is flushed again and again is taken
  by the broker some time. A publish that fails is swallowed per command
  (`services.py:361-367`), so without it `CommandConcludes` is false: a command may be left
  out of every flush.
- `CalibrationMirror`, `FairSpec`: a view ends, the worker handles what it has
  received and goes on with a re-push, a flush or a merge, and the device executes what is
  queued and publishes its capabilities. The handlers wait while the worker has something
  in hand, hence strong fairness of theirs. No fairness of an admin, a wipe, a flush or a
  restart.
- `ReadApi`, `FairSpec`: the client asks again and not every request of its fails,
  so strong fairness of the steps that failures and withdrawals disable; time passes.
  Nothing is assumed of the worker, of admins or of the key.

Deadlock is not checked where the system really may stop: with every command sent
and every bound reached (`CommandLifecycle`, `CalibrationMirror`, `FirmwareCatalog`), and at the end of time
(`DeviceRegistry`, `ReadApi`, `StatusTimeline`). It is checked for `DeviceHealth`.

## 4. What is proved

`DeviceHealthProofs`, for every set of intervals and texts, all timeouts and every
horizon beyond the windows (`IntervalsAssumption`, `TimeoutsAssumption`,
`MessagesAssumption`, `ChannelAssumption`, which TLC evaluates on every health
run):

- `TypeCorrect`, `Provenance`, `ClockSound`, `ReleaseIsJustified`, `TimelineLags`,
  `PollsOnlyForLiveAlerts`;
- `LatchImplemented`: `Spec => ImplementsLatch`, the refinement of `AlertLatch`;
- `TimelineIsInSync` and `PagesAreTold`, if the channel layer stays up.

The inductive invariant is
`IInv == TypeOK /\ AlertWellFormed /\ AlertProvenance /\ ClockIsLastAssertion`.
`AlertWellFormed` (no alert has no text and no clock) is the strengthening: without
it a status whose text is not a string could latch the text of an alert released
long ago, and `AlertProvenance` would not be preserved. `AfterTimeoutCases` says
what the first half of the sensor handler can do to an alert (overwrite it,
release it, or leave level and text) and everything about that handler rests on
it. `ReleaseIsJustified` needs `ClockIsLastAssertion`: a stale clock is a reason
only because it is the device's last assertion, and so do the poll (an alert
that the first half of the handler kept is one the device asserted within the
window) and the `Expire` of the refinement.

`CommandLifecycleProofs`, for every finite set of commands, every mix of actions,
every bound of the queues (`CommandsAssumption`) and whatever is `Assumed` of the
broker and the device, nothing included:

- `TypeCorrect`;
- `ConcludedStays`: a concluded command is never rewritten;
- `UpdateIsTrue`: an update succeeds only for a version that has run;
- `UpdatesAreSentOnce`, for a broker that delivers nothing twice
  (`"no duplicates" \in Assumed`);
- `WakesAreNoticed`, for devices that publish their sensors first and a broker and
  worker that lose nothing (`{"sensors first", "no loss"} \subseteq Assumed`).

The hypotheses of the last two are those of the run that checks them, and each is
needed: a duplicate is a second copy, and without either of the others a `status` or
`diag` message can put the device online before its sensors arrive.

The inductive invariant is
`IInv == TypeOK /\ RowsBegin /\ UpIsTrue /\ VersionRan /\ UpdateSuccessIsTrue`.
`UpdateSuccessIsTrue` is not inductive as it stands: what makes it true is a
message that was sent some time ago. `UpIsTrue` says that every message on its way
to the worker tells the truth (no ack claims an update, a version named in
capabilities has run), and `VersionRan` says so of the device that will name it.
`RowsBegin` (no row before its view has created it) keeps `ViewRecord` from
rewriting a concluded row, and bounds the count of rows in `TypeOK`. `MarkStep` is
the one lemma every handler that changes rows goes through: it marks pending rows
only, and an update as successful only if its version ran.

`UpdateSentOnce` speaks of the queue after the update; what keeps it is
`UpdatesOnce`: there is never more than one copy on the wire, and none before the
view has published it. `WakeIsNoticed` is an action property, kept by `WakeIsAhead`:
until the wake-up is handled the row is offline, and every other sign of life in the
queue has a sensor message before it.

`CommandLedgerProofs`, under the same assumption:

- `NoSuccessInvented`: never more successes than executions;
- `LedgerImplemented`: `Spec => ImplementsLedger`, the refinement. Every step is
  shown to be a step of the ledger or a stutter.

Both rest on an invariant that counts, `Budget`: the rows that have succeeded plus
the `ok` acks on their way are at most the executions so far. An ack is one unit of
it, and a handler spends it on one row (`LatestIsOne`), a loss throws it away, a
duplicate of a *command* earns a new one only by being executed. `RowsOrdered` makes
the latest pending row unique, and `WireNamed` ties a message on the wire to the
action of its command.

`FirmwareCatalogProofs`, for every set of codes, revisions, versions, images and
publishers and every number of uploads (`CatalogAssumption`): `TypeCorrect`,
`RegistryHolds`, `FilesAreKept`, `DownloadsAgree`, `CatalogueImplemented`. The
inductive invariant `IInv` adds to the type: what a publication read of its revision
still stands unless it is marked as void (`RegistryInv`), a publication under way
carries an announced image, announced as a replacement if it saw a row (`OffersInv`),
until somebody asks for a replacement, rows and publications keep their files
(`FilesInv`), and a version published by one publisher at a time is at
rest under name 0 or under way in one known step (`AloneInv`). `FileIsKept` and
`DownloadIsTheRow` speak of a state; what keeps them is what each publication still
has in hand.

`ReadApiProofs`, for every set of devices, every finite set of metrics, every limit
and range (`ReadAssumption`): `PagesSkipNothing`, `LastPagesComplete`,
`CursorAdvances`. `NothingSkipped` alone is not inductive: a row
stamped and not yet stored must not be behind the cursor, so the batch is part of
the invariant; a row that a rename or merge brings in is behind the cursor only if `behind`
says so. About a page: it is the first rows of those that match
(`PageIsFirst`), all of them if no more are announced (`PageIsAll`), and a full
`Limit` of them if more are (`PageIsFull`; the order has no cycle, so a finite set
that is cut has at least `Limit` rows before the cut).

`StatusTimelineProofs`, for every set of levels, span and bound
(`TimelineAssumption`): `Tiling`, for every window, and `History`. The invariant is the
types, and that the level the first query found is that of the newest row it knew before
the window; `Returned` says of a query by time that neighbours in its result leave no row
between them, and no row is in a window that ends before it starts.

`DeviceRegistryProofs`, for every set of ids and metrics and every end of time
(`RegistryAssumption`):

- `RegistryTypes`, for any number of admins;
- `NewestDataSurvives`, `MergesKeepOneSeries`, `ApprovalIsAlwaysGiven`, for one admin at
  work with the worker (`OneAdminOnly`). With two, `ApprovalIsGiven` is false (a rename
  undoes a revocation, see section 3), and a deletion that commits between the comparison
  of a merge and its commit takes compared readings away.

The inductive invariant of the data is `DInv == TInv /\ RequestsSound /\ Distinct /\ Ordered`.
`RequestsSound` follows a transaction through its statements: for each metric, where it is
(not looked at since the lists, decided, the target's series kept, the source's kept, or only
the source's) and what has been removed and added of the readings compared so far. What the
worker stores in between is newer than all that (`Ordered`, `Distinct`), so that what was
decided stays true of what was compared, and a metric of both devices keeps a reading of the
target until its turn. The invariant of the approvals is `AInv`: a rename under way copies an
approval that an admin gave.

`CalibrationMirrorProofs`, for every set of admins, keys and values and every bound
(`CalibrationAssumption`): `MirrorTypes`, `CalibrationStandsAlways`, and `NoValueIsForgotten`,
the safety half of `WipeIsRestored`. `calm` alone says
nothing of a state, so the invariant, `OneExchange`, says which exchange a calm state is
in the middle of: none, or a re-push or flush of what the mirror holds (`Resting`), one
admin's set (`Setting`), or a request for a report and its answer, the legacy one included
(`Asking`). While nothing else is under way, every unacked row, everything on the wire and
everything in a flush is a value of the mirror (`FromMirror`), which is why a flush does no
harm there; a set that begins before the last one is acked ends `calm`. `Covered` is the
heart of the first: each value of the mirror is in the device, on the wire to it, in the
worker's hand, or the device was wiped and nothing has been sent since. A device that was
wiped and has got one value no longer says that it is empty: the others must be on their way
by then.

Only model-checked: everything temporal under fairness (`AlertsAreReleased`,
`CommandConcludes`, `WipeIsRestored`, `PagesGoOn`). Liveness and ENABLED are out of the
prover's reach. Every invariant and every action property that a passing run checks is
also a theorem; five of these state a hypothesis on the broker, the devices or the
number of admins, and two (`TimelineIsInSync`, `PagesAreTold`) that the channel layer stays up.

Looking for the proofs corrected two statements. With a snapshot for each statement of a
merge, a reading that is stored after the comparison is neither kept nor dropped as the
docstring says: what holds, and is proved, is about the readings a merge has compared. And
`CalibrationStands` was false as long as a set could begin while the row of the last one was unacked: the flush sends the
older value again. `Settled` now asks for every row to be acked, and the finding
`calibration_replay` is what is left.

## 5. What is not modelled, and why

- *Accounts*: each request is guarded by one role test and writes one row, with
  nobody else's state in between; a model would restate the tests.
- *Aggregates and devices of the read API*: `/aggregates/` pages in the same way
  over rows that the database maintains, `/devices/` is one read.
- *Lists of firmware* (A4, A5, the overview page) only read; the admin form that
  replaces a file by hand is not an operation of the publication.
- *The Django admin site*: generic forms that write whole rows. Its deletions of
  firmware rows and its switch of an API key are modelled, the rest is not.
- *Payload parsing*: a payload is the values it can yield. Conversions that lose
  something (a fractional interval below one becomes 0, "unknown"; NaN in a
  diagnostics number drops the message) are listed as hazards.
- *Diagnostics snapshots*: `DeviceDiagLog` rows are only written and listed.
- *The rest of the registry*: the status and command logs that a rename or merge re-points
  (one assignment each), the columns it copies, the continuous aggregates and their refresh
  after the commit. What the charts show between a commit and a refresh is not promised
  anywhere.
- *Reconnect timing*: a restart or a reconnect of the worker is one step that loses
  what was on its way.
- *Pages, catalogue, admin site, settings*: rendering and configuration.

## 6. Plan

Done: all modules above, in the order of how much of the system's own logic they
carry, with proofs of every invariant, action property and refinement the runs check.
Left:

1. That no pending command is forgotten: what a recorded command still waits for
   (its copy on the wire, an answer on its way, a clock, a wake-up that is due) as an
   invariant of `CommandLifecycle`, the safety half of `CommandConcludes`.
2. `FirmwareCatalog` composed with the update of `CommandLifecycle`: what a device
   downloads for the version its command names.
