# upag: models, checks and proofs

upag is an uptime monitor written in Go: a daemon probes HTTP endpoints, keeps
their state in SQLite or PostgreSQL, and tells people about outages and
recoveries. This directory holds TLA+ modules that model its logic, the TLC
configurations that check them on small instances, and theorems with proofs
checked by TLAPS.

    tlc -workers 2 -config MonitorAlerts_faults.cfg MCMonitorAlerts
    tlapm MonitorAlertsProofs.tla
    tlapm StatusHistoryProofs.tla
    tlapm ConnectivityProofs.tla
    tlapm NotificationRetriesProofs.tla
    tlapm CommandsProofs.tla
    tlapm PostgresStoreProofs.tla
    tlapm FoldLemmas.tla
    tlapm RollupsProofs.tla

## The system

Paths are below `src/`.

| Component | Code | State it keeps | Operations | Interacts with |
|---|---|---|---|---|
| Monitor state machine | `internal/monitor`, `maintenanceState` in `internal/app/runner.go` | none, pure | `Evaluate`, `maintenanceState` | called by `probe` |
| Monitor workers | `internal/app/runner.go` (`runMonitor`, `probe`) | one goroutine per monitor, cancelled through a context | probe, read state, save result and state, dispatch | store, checker, observer state, dispatcher |
| Reload and process | `Run`, `applyConfig`, `applyStatusServer` | `workers`, `observer`, `cfg`, `tenantID`, the status server | start, SIGHUP, stop | workers, store, status server |
| Monitor alerts | `saveProbeAndState`, `dispatchPendingMonitorAlerts` | tables `incidents`, `monitor_alert_states`, `pending_monitor_alerts`; in memory `alertDispatchMu`, `pendingAlertWrites` | queue, cancel, list due, claim, send, record, record again | workers, ticker (30 s), providers |
| Notification retries | `retryAlertNotifications`, `ListDueAlertNotificationRetries` | table `alert_notifications` | save attempt, list due, retry, give up | providers, configuration |
| Observer | `probeObserver`, `internal/observer` | `observer_state`, sentinel results and events | check sentinels, save, alert | suppresses probes |
| Transfer guard | `sampleTransfer`, `restoreTransferGuard` | `transferSlowStreak`, `transferDegraded`, `transferLastSample` under `transferMu`; `connectivity_samples` | sample on schedule or for an incident, restore at start | suppresses probes |
| Status intervals | `saveStatusInterval`, `EnsureStatusIntervalsBackfilled`, `projectStatusIntervals` | `monitor_status_intervals` | open, close, backfill, project maintenance | written in the probe's transaction |
| Availability | `ListUptimeStats` and its helpers | none, pure over the tables | windows, days, exclusions, streaks | reads intervals, windows, observer incidents |
| Rollups and pruning | `RollupAndPruneProbeResults` and its helpers | `probe_results`, `probe_outcome_runs`, three rollup tables | compact, roll up, prune, hourly | shares tables with the probes |
| Maintenance windows | `AddMaintenanceWindow`, `CancelMaintenanceWindow` | `maintenance_windows` | add, cancel, active | several operators (CLI, control API) at once |
| Daemon control | `internal/daemon` | the PID file | start, stop, restart, reload, inspect | several operators at once |
| Schema migrations | `migrate` and what it calls, of both stores | the schema, `schema_migrations` | open a store | the daemon and commands open it at once |
| PostgreSQL store | `internal/storage/postgres.go` | the same tables, with a tenant | each operation as a transaction | workers, dispatcher, commands, reloads |
| Migration | `internal/storage/migrate.go` | the target database | check empty, copy | a running daemon |
| Status server, control API, CLI, configuration, checker, providers | `internal/status`, `internal/controlapi`, `main.go`, `internal/config`, `internal/checker`, `internal/alert` | none that outlives a call | rendering, parsing, I/O | |

What is hard in this code: workers, the ticker, the observer and operators
interleave at every store operation; a probe reads, waits on the network and
writes; a message is claimed, sent and recorded in three steps, any of which may
be the last before the process ends or the store fails; delays, maintenance,
removal and re-adding of a monitor happen in the middle of all this.
`PROJECT.json` lists these hazards at the lines where they bite.

## Modules

### `MonitorStates`

The row of `monitor_states` a decision depends on (status, status before
maintenance, consecutive failures) and the functions on it. `Evaluate` is
`monitor.Evaluate`; `EvaluateProbe` is the tail of `Runner.probe`, with the
special treatment of the first probe after maintenance; `MaintenanceState` is
the state a probe saves inside a window; `StatusOutsideMaintenance` is the
status `saveProbeAndState` takes for the baseline of a message. The count of
failures saturates at `MaxFailures`: every decision compares it with a threshold
of at most that value.

### `MonitorAlerts`

From a probe to a message. State and code:

| Variable | Code |
|---|---|
| `configured`, `threshold`, `worker` | `Runner.workers`, the threshold a worker was started with, where its goroutine is in `probe` and what it has read |
| `dispatcher`, `unrecorded` | the holder of `alertDispatchMu` and its progress, `Runner.pendingAlertWrites` |
| `monitorState`, `alertState`, `alerts`, `lastId` | `monitor_states`, `monitor_alert_states`, `pending_monitor_alerts` |
| `maintained`, `observer` | an active maintenance window, `observer_state.status` |
| `running` | the process |

A store transaction is one step; the probe with the reads before its first write
is one step, the save another, and each store operation and the send of a
dispatch one each. `Probe` and the `Save...` actions are `probe`; the actions
from `BeginDispatch` to `EndDispatch` are `dispatchPendingMonitorAlerts`;
`Start`, `Reload` and `Crash` are `Run`, `applyConfig` and the end of the process
at any point. A reload does not overlap with a dispatch of the ticker, which runs
on the same goroutine.

Abstractions. The reads of one probe are one step: only the monitor's own row
matters to what is saved, and `SnapshotIsFresh` shows that nobody else changes
it before it is used. Times are reduced to "due or not". A dispatch lists every
due row, the code at most 50 in order of `due_at`; the bound on rows is far
below 50, and the model takes them in any order. A store operation that
fails has changed nothing; one that belongs to a cancelled worker fails. The
outcome of a send does not matter here: the row is recorded as delivered
whatever the providers answer, and failed attempts are retried from
`alert_notifications` (`NotificationRetries`). Delays are the same in every configuration,
and there is one tenant.

Properties:

- `TypeOK`;
- `PendingTellsStoredStatus`: a monitor never has two messages waiting, and one waits
  only while it is true;
- `SentAtMostOnce`, `ClaimedIsNotForgotten`: no message is sent twice, and only
  the end of the process makes the daemon forget one it has not recorded;
- `SnapshotIsFresh`: read, network wait and write of a probe need no transaction;
- `DownIsNotifiedByMessage`: `DOWN` becomes the status last notified only by a
  message, through removal, re-adding and maintenance;
- `NoTransitionUntold`, `InFlightIsCurrent`: with immediate messages no
  transition is left untold, and what is being sent is the stored status,
  although a worker sends the alerts of all monitors;
- `QueuedIsSettled`: every queued message is delivered or cancelled in the end;
- `RecoveryCancelledByOutage`: what the documentation says of delays.

### `MCMonitorAlerts`, `MCMonitorAlertsParts`

The instances for TLC. `MCMonitorAlertsParts` takes two of them in one run, with a state of
its own for each: `part` is chosen at the start, and the other part keeps its initial state.
`NoTransitionUntold` and `InFlightIsCurrent` are checked of messages without a delay, while
nothing fails; `DelayedIsSettled` is `QueuedIsSettled` of delayed recoveries, while stores
fail and reloads cancel workers.

### `Availability`

What the reports make of the past, as operators: `OverlapDuration`,
`ExcludedIntervals`, `ObserverDownIntervals`, `DowntimeWithin`,
`ApplyAvailabilityWindow` and `DailyUptimeStats` are the helpers of
`ListUptimeStats` and `ListDailyUptimeStats`; `ProjectStatusIntervals` is the
listing of status intervals with maintenance projected onto it; `StreakStarts` is
`ListUptimeStreakStarts`. Durations are counted in ticks and not rounded to
seconds; IDs, limits and the `since` filter of a listing are left out. Folds take
the place of the loops.

### `StatusHistory`, `MCStatusHistory`

One monitor in time, and what is recorded of it.

| Variable | Code |
|---|---|
| `scenario` | what may happen besides probes, chosen at the start |
| `now` | the clock; a probe takes no time |
| `row`, `probes`, `intervals`, `windows` | `monitor_states`, `probe_results`, `monitor_status_intervals`, `maintenance_windows` |
| `observerLog` | the incidents of `__observer__`, whose last one gives `observer_state.status` |
| `marked`, `recording` | the row of `monitor_status_interval_backfills`; whether the migration that clears it has run |
| `removed` | history variable: the monitor was removed at some time |

`Probe` is a whole probe, from the check to the transaction: `MonitorAlerts`
shows that nothing comes between that matters to the state. `Backfill` is
`EnsureStatusIntervalsBackfilled`, which `applyConfig` and every report call;
`Upgrade` is the migration that clears the marker, so probes may be recorded
before the backfill when its first call failed. `AddWindow`, `CancelWindow`,
`ObserverTransition` and `RemoveMonitor` are the other writers. Windows may begin
in the past or the future. Two probes, and two observer transitions, are never at
the same time, and the clock never goes back; raw probes are not pruned, which
`Rollups` is about.

The properties state what a report or a recording means without the code's way
of computing it:

- `IntervalsContiguous`, `OpenIntervalTellsStatus`: the intervals tile the time
  and agree with the stored status, whoever wrote them;
- `DowntimeIsOutage`: a moment is recorded as downtime exactly when the history
  of probes has it in a streak of failures that reaches the threshold; the exception
  is a streak with a failure right after maintenance, which is downtime however short;
- `DowntimeReachesThreshold`: what the documentation says, without the exception; it is
  violated;
- `ProjectionIsPointwise`, `AvailabilityIsPointwise`, `StreaksAreTrue`: each
  report, days and streaks included, equals a count over single moments; streaks are
  those of monitors that are `UP`, or were when their maintenance began;
- `StreaksOnlyWhenUp`: what the documentation says of streaks; it is violated.

### `ObserverStates`, `TransferGuard`, `Connectivity`, `MCConnectivity`

`ObserverStates` is the row of `observer_state` and `observer.Evaluate`.
`TransferGuard` is the guard and what one more sample makes of it (the tail of
`sampleTransfer`), its restoration from the stored samples
(`restoreTransferGuard`) and when a sample is due. `Connectivity` runs them:

| Variable | Code |
|---|---|
| `worker`, `orphan` | the goroutine of `runObserver`; one that was cancelled while it waits for `transferMu` to restore the guard |
| `probing`, `outcome` | the part of `probe` that decides whether a failure is suppressed, and the reason it was saved with |
| `holder`, `guard` | `transferMu` during a download, and the three fields under it |
| `observerState`, `incidents`, `samples` | `observer_state`, the incidents of `__observer__`, `connectivity_samples` of kind `transfer` |
| `enabled`, `events`, `restarts`, `now` | `observer.enabled`, what may happen, bound, clock |
| `checks`, `known`, `life`, `overtaken` | history variables |

`ListSamples`, `Restore`: `restoreTransferGuard`; `Check`, `SaveCheck`,
`FailCheck`: `probeObserver`; `ProbeFails`: `probe`; `Reuse` to `Release`:
`sampleTransfer`; `Reload`, `ReloadMonitor`: `applyConfig`. A sample is slow,
fast or odd, as `transferSampleIsSlow` and `OK` tell them apart. A check meets the
quorum or misses it. The clock ticks between any two steps. Sentinel samples and
events, which are only reported, pruning after 30 days, and a reload that changes
a threshold are left out. Telling an incident is in `NotificationRetries`.

`StatusTellsChecks` and `GuardTellsSamples` state what the row and the guard mean
without counting: a full run of bad checks without a full run of good ones after
it; a full run of slow samples, none of them late, without a fast one after it -
and no two samples closer than their interval. `GuardTellsSamples` makes one
exception, `overtaken`: `restoreTransferGuard` lists the samples before it locks,
so a sample taken in between - by a monitor, right after a start or a reload - is
overwritten, and a fast one does not clear the guard.

### `AlertDelivery`, `NotificationRetries`, `MCNotificationRetries`

`AlertDelivery` is the abstract specification of telling an incident through a
provider: a pair of both is unsent, being retried, told or given up, and the last
two are the end. `NotificationRetries` is how the code does it, and implements it:

| Variable | Code |
|---|---|
| `stage`, `using`, `memory` | the first attempt of an incident: how far `dispatchPendingMonitorAlerts` or `probeObserver` has come with it, the senders it took, the rows in memory (`Runner.pendingAlertWrites` when they could not be stored) |
| `cancelled` | the goroutine was cancelled by a reload: its store operations fail |
| `notifications` | `alert_notifications` by incident and provider, in order of IDs |
| `retries`, `retrying` | the rest of the list of `retryAlertNotifications`, and the attempt it is about to store |
| `config` | `Runner.cfg.Alerts`: providers, `max_attempts`, backoff |
| `faults`, `attempts`, `lost` | a bound, and history variables: the attempts made, and those that no row tells of |

`Begin` to `Rewrite` are the first attempts, `ListRetries` to `SaveRetryFails` the
repeated ones, which run on the main goroutine and therefore never beside `Reload`.
A time is what is left until then, in ticks. The refinement (`Delivery`) maps the
rows of a pair to its state; `ImplementsDelivery` says that every step maps to one
of `AlertDelivery` or to none.

- `AttemptsAreRecorded`: no attempt is recorded twice, and only a fault leaves one
  without a row;
- `AttemptsAreNumbered`: the rows of a pair are one history, and no `max_attempts`
  that was ever configured is exceeded, unless attempts were lost;
- `ActionableIsUntold`: the status page shows exactly what was tried and never told;
- `FailureIsSettled`: a recorded failure is repeated until told or given up.

Fairness (`FairSpec`): the ticker of the main goroutine goes on (`Retrying`) and
time passes. Nothing is assumed of first attempts, and faults are bounded: a store
that fails for ever, or a daemon that is not started again, tells nobody.

### `Rollups`

`probe_results` of a monitor, the runs of outcomes and the three tables of rollups
(`tables`), the nine statements of `RollupAndPruneProbeResults` in their order, and
the reads that sum over all of them (`WindowStats`, `ReportableRuns`). The runs are a set of
rows; the last one is the one that was started last. SQLite prunes
in one step. In PostgreSQL the prune is a transaction under way (`pruning`, with what
it sees), and probes are committed between its statements. `ReloadPolicy` changes the
retentions, and a probe is saved up to `MaxLate` after the time it has.

Minutes, hours and days are shortened to the constants `Minute`, `Hour` and `Day`;
what matters is that each divides the next. Response times, attempts and texts of a
row are left out: they are summed like the counts.

- `CountedOnce`: over all tables each probe counts once, and only the oldest are gone;
- `RunsAreKept`: the runs are those of the probes, wherever they were compacted;
- `WindowCountsAreClose`: a report counts no probe before its window and misses at
  most what the buckets hold that its beginning cuts.

### `MCConnectivityRollups`

One run takes `Connectivity` and `Rollups` in turn, for they share no state: `part` is
chosen at the start, and the other keeps one of its initial states. `MCConnectivity` has
the instance of the observer, also for the run `disabled`.

### `AtomicStore`, `PostgresStore`, `MCPostgresStore`

The other modules take each store operation to happen at once. `AtomicStore` has the
tables of one monitor and says what each operation makes of them (`Apply`);
`PostgresStore` is `PostgresStore` of the code, one statement at a time: `tx` has the
transactions with what they read, wrote and locked, `Free` makes a statement wait for
row locks, and a read sees what is committed. `BeginSave` to `QueueAlert` are
`saveProbeAndState`, `BeginBackfill` to `RebuildIntervals` are
`EnsureStatusIntervalsBackfilled`, `DeleteStatement` is `DeleteStatesExcept`, `Claim`
to `RecordStatement` the dispatcher. A `Reload` cancels workers, whose `COMMIT` may
still be on its way, so that two workers of a monitor save at once; any transaction
may be rolled back.

- `CommitsAreAtomic`: what a transaction commits is what its operation makes of the
  tables at that moment. The exceptions, each of one row, are spelt out in `AtOnce`: a
  rebuild does not see the probes that were saved since it read them, whose save left the
  intervals alone; a removal leaves the rows that a cancelled worker commits behind it;
  and a save that found no row of the monitor takes the status before it for UNKNOWN,
  although such a commit has added one since: there was no row to lock;
- `NoWaitCycle`: no transactions of live workers, dispatcher, removal and backfills
  wait for each other, so PostgreSQL never aborts one;
- `RebuildNeverConflicts`: the table lock of a rebuild is enough.

A save that read the open interval before a rebuild and writes after it fails on the
unique index (`Conflicting`); the probe is then lost, as any probe is whose save fails.

### `Schemas`, `SchemaMigrations`

`Schemas` has the migrations of both stores as the tables and columns they create,
add and ask for. `SchemaMigrations` lets several processes open a store that any
earlier version may have left (`Databases`): each lists what is recorded, applies the
rest in order, one transaction each, records it or finds it recorded; any may be
killed. `OpenedStoreIsCurrent`: no migration asks for what is not there, an opened
store has every column in use, and a migration that has the intervals rebuilt does not
undo a backfill.

### `DaemonControl`

`start`, `stop`, `restart` and `config reload` as steps on the PID file and on
processes (`commands`, `pidFile`, `processes`), with a daemon that starts, listens,
loads, applies and ends, and a configuration file that is edited. Process IDs are used
again by daemons only. `crossed` is a history variable: commands overlapped, or one was
killed; then two daemons may run, and nothing in the code prevents it. Without it
`DaemonIsNamed` holds. `ReloadIsApplied`: a signal is not lost although a daemon is
reloading, and a status server that could not be changed keeps serving. `told` has the
daemons that were told of the file as it is. `unwritten` remembers that a PID file could
not be written: such a daemon is told to end but may keep its port for a while, so that
the next one cannot listen on it and serves nothing although its reload is applied.

### `MaintenancePlan`

Commands that add windows for one or two monitors, look for an overlap and insert in
two statements, and cancel. `OverlapIsRaced`: two windows in force overlap only if two
commands were at it at once. `after` remembers what a command saw.

### `StorageMigration`

`upag storage migrate`: the target is found empty, each table is read in a statement of
its own and copied in one transaction, the sequences are set one by one, and it commits
(`movers`); meanwhile a daemon writes to the source, another to the target, and a second
command migrates, too. A transaction of the daemon on the target (`adders`) goes through
its tables: it takes an ID with `nextval`, which others see at once and no rollback gives
back (`TakeId`), inserts the row, which waits for whoever has inserted its key
(`InsertRow`), and commits at the end. So `setval` may come between any two of these
steps, and sees neither the IDs nor the rows that are not committed (`Unseen`). A row is
its ID, or what stands for the key of a table without one, and the incident it refers to.

`MigrationIsWhole`: a source that did not change is copied whole, and no row of the target
has an ID beyond its sequence, so that those given out next are free. The exception is
`overtaken`, a history variable: tables whose sequence was last set when a transaction
under way, of the daemon or of another migration, had a higher ID than any that `setval`
could see.

### `MCOperators`

`SchemaMigrations`, `DaemonControl`, `MaintenancePlan` and `StorageMigration` are commands of
operators that share no state. One run takes them in turn: `part` is chosen at the start, the
other parts keep one of their initial states. `StorageMigration` is taken twice: one
migration beside the daemons on both stores (`MoveBesideDaemons`), and two migrations beside
the daemon on the source (`TwoMoves`).

## Runs

| Run | Instance | Shows |
|---|---|---|
| `faults` | one monitor, thresholds 1 and 2, both transitions delayed; store errors, crashes, reloads, maintenance, observer; 3 alerts | the safety of the alert pipeline |
| `dispatch` | in two parts: two monitors, no delay, maintenance and observer, 3 alerts; one monitor, recovery delayed, store errors and reloads, 2 alerts | every transition is told while workers and ticker contend for the mutex; delayed messages are settled under `Fairness` |
| `race` | one monitor, both delayed, no faults | **violated**: a recovery saved while the outage message is being sent is never told |
| `flap` | one monitor, threshold 2, both delayed, no faults | **violated**: one failing probe during the recovery delay cancels the recovery message |
| `history` | one monitor, threshold 2, in two scenarios: 4 ticks with one window anywhere, an observer and removal; 5 ticks with a migration, a backfill at any time after it and suppressed failures | intervals, outages and reports, and that backfilled and live intervals together record the outages |
| `outcomes` | in two parts: one monitor and the observer, thresholds 2, interval of 2 ticks, 5 ticks, 5 checks, 3 samples; one reload or crash, store errors; both stores, two retentions, minutes and hours of 2, days of 4 ticks, 3 probes, 7 ticks, late by 1 | the observer's row and the guard are what checks and samples say; pruning loses and doubles nothing |
| `disabled` | one monitor, a reload | **violated** (`SuppressedOnlyWhileWatched`): an observer that was disabled while down suppresses failures for ever |
| `retries` | a monitor's and an observer's incident, two providers, two configurations (2 attempts through both, 3 through one), 2 faults | attempts, their rows, the end of retries, and the refinement |
| `store` | two saves, two backfills, a removal, a record; fresh, old and rebuilt tables; 3 probes, one reload | transactions of PostgreSQL are atomic and never deadlock |
| `operators` | two operators each, two process IDs, two edits, two commands; two windows on one monitor; two migrations, or one and a connection of the daemon on the target, two tenants, two transactions of both daemons | schemas, PID file and windows with several operators; a committed migration is whole, and what becomes of the sequences |
| `threshold` | as `history` | **violated** (`DowntimeReachesThreshold`): one failure after maintenance is downtime, though the threshold is two |
| `streak` | as `history` | **violated** (`StreaksOnlyWhenUp`): a monitor in maintenance has streaks |

Bounds of `history`. Four ticks hold two failures, a gap and a recovery; five
hold an outage before and after a backfill. All cut-offs, all windows and days of
two and three ticks are compared in every state. `CHECK_DEADLOCK FALSE`: the clock
of these instances ends.

Bounds of `Connectivity` (`outcomes`, `disabled`). Five checks take the observer down, up and
half down again; five ticks pass the freshness window of four; three samples are a
full run and one that ends it; one restart is enough to reset, restore, cancel or
orphan. The row and the guard do not read each other, so one scenario has outages
and no transfer check and the other the reverse. `CHECK_DEADLOCK FALSE`: these
instances end at their bounds.

Bounds of `retries`. The two configurations differ in providers, attempts and
backoff, so a reload takes a provider away, gives it back, and raises or lowers what
is allowed while rows of the old policy wait; two faults are an error and a crash
in either order. `CHECK_DEADLOCK FALSE`: everybody is told in the end.

Bounds of `Rollups` (`outcomes`). Three probes are two in one bucket and one in the next, or three
runs. Seven ticks take a probe through minute, hour and day and, under the second
policy, out of the day. Of the policies one has the order of the defaults and keeps
days for ever, the other keeps raw results longer than minutes. `CHECK_DEADLOCK FALSE`:
the clock ends.

Bounds of `store`. Two saves are a live worker and a cancelled one whose commit is on
its way; two backfills are two commands. Three probes with a threshold of two make an
outage beside a failure, and one alert that is sent while another is queued.
`CHECK_DEADLOCK FALSE`: the probes and the reloads are bounded, and with nothing to
backfill or record everything rests.

Bounds of `operators`. Two commands are what it takes to interleave; the schemas are
those of every version. Two commands start and stop, or start while a daemon whose file
could not be written still ends; two edits take the port of the status server away and
give it back. Nothing of the PID file or the daemon depends on these two bounds
(`CommandsProofs`). Two windows are a pair. `CHECK_DEADLOCK FALSE`: commands and edits are
bounded. Operators and process IDs are symmetric: no property is about liveness.

Bounds of `StorageMigration` (`operators`). The first transaction on the source is what it begins with
(`MoveInit`), another one changes it before, during or after a copy, or adds rows to the
target. The state space is kept small by who meets: one migration and both daemons, or two
migrations and the daemon on the source. Nothing depends on that or on the bounds: two
migrations beside both daemons are left to the proof (`CommandsProofs`). Transactions are
bounded, too. Migrations and tenants are symmetric.

Bounds of the runs of `MonitorAlerts`. `MaxAlerts` bounds the rows of `pending_monitor_alerts` (three rows are
an outage, its recovery and the next outage, with any of them claimed,
unrecorded or orphaned). `MaxFailures = 2` separates "below the threshold" from
"at it". The properties of a row or of one monitor are checked with one monitor,
since monitors share nothing but the dispatcher; the part about sharing has two.

Fairness of `MonitorAlerts` (`Fairness`). Goroutines are scheduled, so a worker that has probed
saves, and a dispatch goes on. A waiting goroutine gets a Go mutex in the end
although others keep taking it (strong fairness of `BeginDispatch`). A store
operation tried again on each tick succeeds at some point (strong fairness of
`ListDue`, `Claim`, `Rewrite`). Delays end. Nothing is assumed of monitors,
probes, reloads, operators or restarts after a crash: the part of `dispatch` about
liveness has no crash, because a daemon that is not started again sends nothing.

## Findings

`race`: `saveProbeAndState` compares a transition with the status last notified,
which is written only when a delivery is recorded. A recovery saved while the
outage message is claimed and being sent is "back to the last notified status":
nothing is queued, the outage is then recorded, and the recovery is never told.
The cure would be to compare with the claimed row, or to queue after recording.
With immediate messages it cannot happen (`dispatch`, first part): the worker itself waits
for the dispatch before it probes again.

`flap`: any status other than the transition's cancels a waiting message, also
`FAILING` below the threshold and `MAINTENANCE`. A recovery cancelled this way is
not queued again, because `FAILING -> UP` and `MAINTENANCE -> UP` are not
incidents; and the next outage is not told either, because it equals the status
last notified.

`disabled`: nothing resets `observer_state` when the observer is disabled, and
`probe` goes on to read it. Monitors are then never found down again.

`threshold`: the first failure after maintenance is evaluated with a threshold of one
(`internal/app/runner.go:696-698`). That is intended for the alert, but it also opens an
interval that counts as downtime, against README.md:517-519, and against the backfill of
the same probes, which takes it for `FAILING` (`internal/storage/storage.go:1707-1715`).

`streak`: a probe in maintenance leaves the interval open, and the report asks for an open
`UP` interval (`internal/storage/storage.go:1871`) without looking at the status it puts
beside it. So a monitor in `MAINTENANCE` shows streaks where README.md:178-179 promises `-`.

What the modelling has shown besides, without a run of its own (paths below `src/`,
documentation in `README.md`):

- A scheduled transfer sample never continues a streak
  (`internal/app/runner.go:468`: at least `interval` after the last one to be taken,
  at most to continue); only samples that failing monitors ask for add up
  (README.md:701-708).
- The message of an observer incident is lost when a store error, a reload or a crash
  comes between saving the incident and its attempts (`internal/app/runner.go:553`);
  README.md:720-721 promises the retries of monitor incidents.
- Two operators can add windows that overlap (README.md:919).
- `upag storage migrate` does not copy `observer_sentinel_events`; a daemon that writes
  to the source meanwhile tears the copy.
- `resetPostgresSequences` sees only what is committed (`internal/storage/migrate.go:512`).
  A transaction of a daemon on the target that has taken its ID before and commits
  afterwards has an ID above the sequence, so that the next one given out is taken; the
  same happens to the IDs of another migration. `overtaken` is this exception.
- In PostgreSQL the results of sentinels that were removed stay
  (`internal/storage/postgres.go:726`; SQLite deletes them, `storage.go:1017`).
- Migration `0002` of PostgreSQL has indexes on `tenant_id`, which only `0003` adds to
  a table that an earlier version made without it. No released version is known to have left
  one, and the beginnings of `SchemaMigrations` have none.
- A `SIGHUP` that arrives before the daemon handles it ends the daemon; a `start` that is
  killed between the process and its PID file leaves a daemon that no command finds.
- A reload that changes the tenant but not the address of the status server cannot listen,
  and goes on with the old server.
- A save that meets a backfill fails its probe in PostgreSQL.

## Proofs

`MonitorAlertsProofs` proves, for every value of the constants (of `MonitorAlerts`):

- `TypeCorrect`: `Spec => []TypeOK`;
- `AtMostOnce`: `Spec => []SentAtMostOnce`;
- `SnapshotsAreFresh`: `Spec => []SnapshotIsFresh`;
- `PendingIsTrue`: `Spec => []PendingTellsStoredStatus`;
- `DownWasTold`: `Spec => []DownIsNotifiedByMessage`;
- `ClaimedIsKept`: `Spec => ClaimedIsNotForgotten`, an action property;
- `InFlightIsTrue`: `Calm /\ Spec => []InFlightIsCurrent`;
- `TransitionsAreTold`: `Calm /\ Spec => []NoTransitionUntold`.

The inductive invariant of the first two is `TypeOK /\ DispatcherInv /\ SentAtMostOnce`.
`SentAtMostOnce` alone is not inductive: a `Send` needs to know that the row in
hand was not sent before, and recording that it was sent and is still claimed,
which is what `DispatcherInv` says of the dispatcher's current row and of
`Runner.pendingAlertWrites`; `TypeOK` needs it too, for a send that would
otherwise apply to no row. Each action has a step of its own; rows that are
merely cancelled, made due or added go through one lemma (`TablesStep`).

The others build on it. `TablesInv` holds what the tables promise while probes,
dispatches, reloads and crashes interleave. `DownIsNotifiedByMessage` needs
`OutageHasBaseline`: a stored outage has a status last notified or a message that
waits, so the first incident of a monitor never takes DOWN for its baseline although a
record of a removed monitor may bring its row back. `ClaimedIsNotForgotten` is about a step,
and follows from what the dispatcher holds before it (`HandInv`). The last two say that
nobody misses a transition as long as messages are immediate and neither the store nor the
process fails; `Calm` states that of the constants and is what the first part of the run
`dispatch` gives them. They need `CalmInv`: the worker whose message is in hand waits for it, and whatever
is pending or in hand is the newest message of its monitor. Without `Calm` the property
is false, which the run `race` shows.

`StatusHistoryProofs` proves of `StatusHistory`, for any thresholds, scenarios and bounds
on time and windows:

- `TypeCorrect`: `Spec => []TypeOK`;
- `AlwaysContiguous`: `Spec => []IntervalsContiguous`;

and for scenarios with
`\A s \in Scenarios : "upgrade" \in s.events => s.events \cap {"maintenance", "removal"} = {}`:

- `AlwaysTellsStatus`: `Spec => []OpenIntervalTellsStatus`;
- `StreaksAlwaysTrue`: `Spec => []StreaksAreTrue`;
- `DowntimeAlwaysOutage`: `Spec => []DowntimeIsOutage`.

The inductive invariant `IInv` has three parts, each of which needs the one before.
`Base` has the types, the order of the probes, of the runs and of the intervals, and that the
clock is not behind them. `StatusInv` is about the stored status: a monitor leaves
maintenance with the status from before it (`StatusIsKept`), the last run of checks tells
the row as long as a backfill is due (`RunsTellRow`), and the open interval tells it
otherwise. `OutageInv` is about the past. The list of the checks that decided the status is
in order of time; the failures counted in the row are the ones at its end, up to the largest
threshold (`RowTellsPast`); before the backfill the runs divide it (`RunsTellPast`); and when
the intervals are recorded (`HistoryTellsPast`) each one starts with a check and has checks of
one outcome, a DOWN one has a check that confirms the outage, a FAILING one is downtime
exactly if DOWN follows, and if it is not, none of its checks confirms anything. A streak of
failures is then one interval, or FAILING and DOWN, from which the property follows
(`DowntimeTold`).

`UptimeRuns` and `Deciding` are folds. `RunsFold` and `DecidingFold` say what these are
for the first checks, for one more and so on, and the proofs then need only what one more
check does (`RunsOfOneMore`, `DecidingOfOneMore`).

The assumption of the last three is needed. Where a migration meets maintenance, the backfill
counts failures on both sides of it as one streak and ignores that one failure after it is
enough, so the properties are false there (the hazard at storage.go:1712); and a monitor
that is removed before the backfill keeps checks of which no row is left. The first two parts
of `OutageInv` hold for every scenario.

`ConnectivityProofs` proves of `Connectivity`, for every value of the constants:

- `AlwaysTellsStatus`: `Spec => []IncidentsTellStatus`;
- `StatusIsEarned`: `Spec => []StatusTellsChecks`;
- `TypeCorrect`: `Spec => []TypeOK`;
- `GuardCorrect`: `Spec => []GuardTellsSamples`.

What a check makes of the row follows from the row it has read, so the invariant says
besides that a check that is about to be saved has read the row as it is
(`ReadIsFresh`), which is why reloads that replace the goroutine do no harm. The second
needs that the counts in the row are the lengths of the runs at the end of the history of
checks (`CountsTellChecks`, `TrailingRun`), which one more check lengthens or ends.

`GuardTellsSamples` says of the guard what the runs of slow samples are, while the code
moves it sample by sample and restores it by a loop over a list. `GuardFollows` is that one
more sample moves it as the runs say, `RestoredTells` that the loop does so too, for every
list (with `FoldLemmas`). A list that waits for the lock is not newer than the samples
(`ListsAreOld`); if it is as new, the restored guard is what they say (`GuardRestored`). That
two samples are far enough apart needs more than the guard: the time of the last sample is
in it, or that sample is so old that the window of a restore has left it out
(`LastIsKnown`), and while somebody downloads under the lock, the start of it is far enough
from the last sample (`HolderIsSpaced`).

`FoldLemmas` has what these and other proofs need of sequences that are folded. `FoldLeft`
is a function that is chosen by its equation; `FoldExists` says that there is one, for any
step, and `Counting` is the induction up to a number, by a set in place of an operator.

`NotificationRetriesProofs` proves of `NotificationRetries`, for any incidents,
providers, configurations, events and bounds:

- `TypeCorrect`: `Spec => []TypeOK`;
- `EachAttemptIsRecorded`: `Spec => []AttemptsAreRecorded`;
- `HistoriesAreNumbered`: `Spec => []AttemptsAreNumbered`;
- `StatusPageIsTrue`: `Spec => []ActionableIsUntold`;
- `DeliveryIsImplemented`: `Spec => ImplementsDelivery`, the refinement.

They share one invariant. A repetition is decided when the main goroutine lists what is
due and stored much later, so the invariant has what the list says in between: its pairs
are open, have the number listed and are all different (`Listed`), and so is the one
being repeated (`Repeated`). First attempts do not disturb it, because they are stored
only where there is no row (`Fresh`). Every row that leaves its history open was written
under some configuration that allows one more attempt (`Numbered`), which bounds the
attempts through reloads. For the refinement, storing a first attempt is an `Attempt` of
`AlertDelivery`, storing a repetition a `Settle` or nothing, and every other step, time
included, nothing. `FailureIsSettled` is checked by TLC.

`CommandsProofs` proves of `MaintenancePlan`, `StorageMigration` and `SchemaMigrations` (and
of `DaemonControl`, below):

- `OverlapsAreRaced`: `PlanSpec => []OverlapIsRaced`;
- `MigrationsAreWhole`: `MoveSpec => []MigrationIsWhole`;
- `OpenedStoresAreCurrent`: `SchemaSpec => []OpenedStoreIsCurrent`.

The first is for any operators, monitors and times and any number of windows. A window is
inserted without another look, so the invariant says what a command still knows of its
look: the windows it has seen are not in its way, and those that came since are of others
(`Searched`).

The second is for any migrations, connections of the daemon on the target, tenants and
numbers of transactions on both stores. The property is about a migration that has been
committed; before that, as long as the source has not changed, the migration has the rows
of each table it has copied (`HasCopied`). The sequence of a table that is not `overtaken`
is ahead of what is committed, of what the daemon has drawn or inserted, and of the rows
of each migration that has set it already and is about to commit (`IsAhead`).
`IdsAreBounded` is what makes `MAX(id)` of a table a number: IDs come from transactions, of
which there were finitely many.

The third is for any number of processes that open one store, and for every database they
may find. `UpTo` says what is there once the first `n` migrations are recorded; each
migration finds what it asks for in that and leaves the next (`IsApplicable`, `UpToNext`),
and at the end it is all that the store names (`AllIsInUse`). A process may have listed
what is recorded before another one recorded more, so the invariant has that it is never
ahead by more than one, and that the transaction it is in is the only one that writes
(`OpenerKnows`). That an earlier version has left `UpTo` of what it recorded is about a
fold over the migrations. It is an induction over data, without the library's theorems for
it: `FoldLeft` is expanded to the recursive function it chooses, which exists for every
sequence (`SchemaFoldExists`), and both this and what its values are follow from looking at
the least number for which it would be otherwise (`LeastExists` of `FoldLemmas`).

`CommandsProofs` proves of `DaemonControl`, for any operators, process IDs,
configurations, edits and commands:

- `ControlIsTyped`: `ControlSpec => []ControlTypeOK`;
- `DaemonIsAlwaysNamed`: `ControlSpec => []DaemonIsNamed`;
- `ReloadsAreApplied`: `ControlSpec => []ReloadIsApplied`.

As long as no commands overlap (`~crossed`), one command is busy at most (`OneBusy`), a
daemon is named by the file or about to be written to it (`NamedOrWritten`), a command
that waits for a process knows which (`KnownBy`), and a daemon that is to end because its
file could not be written is not the one the file names (`DisownedIsUnnamed`). A reload is
followed by cases of how far the daemon has come with it (`Follows`): the signal waits, the
file has been read, or it is applied. `Serves` is about ports: while one daemon lives, and
none is ending unnamed, a port that it asks for is free or its own.

`PostgresStoreProofs` proves of `PostgresStore`, for any number of saves, backfills, probes
and reloads, for any threshold and from any contents of the tables:

- `TransactionsKnow`: `Spec => []StoreInv`, the inductive invariant;
- `TypeCorrect`: `Spec => []TypeOK`;
- `CommitsAreAtOnce`: `Spec => CommitsAreAtomic`;
- `NobodyWaitsInACircle`: `Spec => []NoWaitCycle`;
- `RebuildsNeverConflict`: `Spec => []RebuildNeverConflicts`.

The invariant says for each statement of each transaction what it relies on (`Knows`): of
every row that it has written, or locked to read, the committed value is still the one it
saw, and what it has written is what its operation makes of that value. This is kept for
two reasons. No lock is held twice (`Exclusive`), and whoever commits, or claims an alert,
changes only what it has locked, adds probes at the end, adds alerts only with the row of
the state, and never makes a settled alert wait again (`Within`); so what the others know
stays (`KnowsStays`). At its commit a transaction then knows enough to compute the tables
that it leaves, and these are the ones of `AtOnce`. The exceptions in `AtOnce` are exactly
what is read without a lock: that there is no row for the state, the open interval, the
probes of a backfill and the alerts of a removal. A circle of waiting transactions would
need two that are waited for; but a waiting backfill holds nothing, a waiting record holds
at most the row of an alert that is being sent, which nobody asks for, and there is one
worker (`OneWorker`), or the removal. The tables stay well-formed (`Typed`) because what a
save brings with it is a row that a monitor can have (`SaveOp`), and because the rebuilt
intervals are a fold of runs, which is one more induction (`RunsType`).

`RollupsProofs` proves of `Rollups`, for both stores, any retentions and outcomes, any widths
of buckets that divide each other and any bounds on probes, time and delays:

- `TypeCorrect`: `RollupSpec => []RollupTypeOK`;
- `EachCountedOnce`: `RollupSpec => []CountedOnce`;
- `WindowsAreClose`: `RollupSpec => []WindowCountsAreClose`;
- `RunsAlwaysKept`: `RollupSpec => []RunsAreKept`.

The tables do not have the probes that these are about, so the inductive invariant `IInv`
gives each probe a place: among the raw results, in a row of a minute, an hour or a day, or
gone. Each table is exactly what the probes of its place sum up to (`Holds`), older probes
are further along (`ByAge`), and only those may be gone that every configuration lets go, but
for the day they were summed up in (`Places`). A rollup and the deletion after it move the
oldest probes on (`RollupMoves`); that the sums of sums are the sums of all rests on buckets
of buckets being buckets (`KeyOfKey`), and on adding rows in any order (`SumOfRows`), which
is an induction over a fold on sets. In PostgreSQL others see the tables as they were, and
a probe that is committed between two statements of a prune enters both (`SaveProbeInv`).
After the second statement the raw results that were summed up are still there, so what
the prune works on is judged by what the third will leave (`Remaining`). That this spares
the new probe is where `MaxLate` counts (`YoungIsSpared`): raw results are retained longer
than a probe and a prune take. The counts of a window follow by comparing, place by place,
the probes whose row begins in it with those that happened in it.

Runs of outcomes are kept by their ends, whatever became of the counts, so they have an
invariant of their own (`RunsInv`): the raw results are the latest probes, and the runs are
those of the other reportable ones, but for the oldest, which may be gone (`TellsRuns`).
Between the first and the third statement some probes are both in a run and in the raw
results, and again what counts is what the third will leave (`RunsRemaining`). `OutcomeRuns`
is a fold in the order of time. `ByLatest` is induction along it; `RunsInTwo`, that
compaction may go on where it stopped, and `Cover`, that runs follow each other and those
since a run began are the runs of the probes since then, are proved by it. So deleting
the runs that end before a cutoff leaves the runs of the latest probes (`PrunedRuns`),
although the first of them may begin long before the cutoff.

The proofs rest on the named assumptions of the constants and on what the theorems
state. The remaining properties are checked by TLC and not proved. Liveness under fairness
is out of the prover's reach. What a fold computes for every sequence is not, as
`FoldLemmas`, its users and `RollupsProofs` show, but takes a proof for each fold; those of
the availability reports are not done: they sort sets and flatten sequences by operators of
the community modules that are recursive or chosen, and come out as rationals that are
rounded.

## Plan

In this order:

1. The operators of `Availability`, once the sorting and flattening of the community
   modules can be reasoned about.
2. Tenants in `MonitorAlerts`: a dispatch that a reload with another tenant interrupts.

## Not modelled

- Configuration, checker, alert providers, command line, and the pages and answers of the
  status server and the control API: sequential code without state of its own. Its
  results are choices or constants of the models.
- Names, URLs and error texts, on which no decision depends; types, defaults and indexes
  of columns; listings with limits, except those a report is computed from.
- Times as texts. SQLite compares them as texts of different length, which may put a row
  on the wrong side of a cut-off by less than a second.
- A commit that reports an error although it took effect.
- In `MonitorAlerts` the commit of a worker that is cancelled at that moment comes before
  the cleanup of the reload, as the write lock of SQLite orders them; `PostgresStore` has
  both orders. In `Connectivity` the commit of a cancelled observer goroutine comes before
  the first read of its successor, which the code does not order.
