# MultiPortChecker: TLA+ specifications

MultiPortChecker watches TCP services from a Tk desktop application.  It
checks the configured targets, turns results into DOWN and RECOVERED events,
stores them, and delivers them to Windows notifications and webhooks.  Around
that it keeps planned maintenance, an availability report, a watchdog of its own
threads, settings backups, a range scan and a Trace Route window.  This
directory holds its formal specifications: modules for the parts whose
behaviour depends on the order of things, configurations that check them with
TLC on small instances, and proofs for TLAPS.

## The system

| Component | Code | State | Interacts with |
|---|---|---|---|
| Target table, check cycle, Auto Refresh | `multi_port_checker.py` 256-743, 3724-3777 | rows, persistent and scan rows, in-flight checks, one timer, deferred alerts | tracker, event history, notification core, tray |
| TCP state tracker | `monitoring_state.py` | last status per row | check cycle |
| Planned maintenance | `maintenance.py`, `multi_port_checker.py` 746-913 | a window per target, in memory, in the configuration and as audit events | check cycle (suppression), event history, report |
| Event History | `event_history.py` | the events table | check cycle, maintenance, report |
| Availability report | `availability_report.py` | none: computed from events | event history |
| Notification delivery core | `notification_manager.py` | job queue, active ids, two threads, settings | delivery history, providers |
| Delivery history | `notification_history.py` | one row per delivery | notification core, history window |
| Providers | `webhook_notifications.py`, `windows_notifications.py` | none | notification core |
| Watchdog, recovery, incidents | `application_watchdog.py`, `health_incidents.py`, `multi_port_checker.py` 3394-3506 | attempts and notices per condition, the incidents table | notification core, maintenance, tray |
| Settings backup and restore | `settings_backup.py`, `multi_port_checker.py` 2924-3024 | configuration file, safety backups | target table, notification core |
| Range scan | `network_checks.py`, `multi_port_checker.py` 3047-3184 | addresses to do, checks in flight | target table |
| Trace Route window | `multi_port_checker.py` 918-1247 | a process, its messages, a run number | its worker thread |
| Tray and shutdown | `windows_tray.py`, `multi_port_checker.py` 3511-3720 | tray thread, action queue, shutdown guard | everything |
| Health snapshot, registry start-up, windows, themes, packaging | the rest | none that matters here | |

All of it runs on the Tk thread except: the check executor (results are polled),
the two threads of the notification core, the report and trace executors, and
the tray thread, which only puts actions on a queue the Tk thread polls.

What is hard, and where: `PROJECT.json` lists each hazard with its line and the
properties that watch it.  The important ones are

- the races of the delivery core: three threads, a bounded queue, a SQLite table
  read in one transaction and written in another, shutdown, crash and restart;
- the Tk callbacks that interleave through timers, tray actions and modal dialogs;
- the writes a crash or a refusal separates: event table and configuration file in
  planned maintenance, safety backup, configuration and live state in a restore;
- recovery, which starts a second notification manager beside the first;
- the checks and processes that go on after Cancel, Stop, Close and Exit;
- half-open intervals rebuilt from a history that was pruned.

## Modules

| Module | What it is |
|---|---|
| `NotificationHistory` | The delivery table and its SQL as operators: `NotificationHistoryStore` |
| `NotificationManager` | The delivery core: one action per step of a thread between two synchronisation points |
| `DeliveryLedger` | What the core promises, without threads, queue or SQL; `NotificationManager` implements it |
| `Monitoring` | Target table, tracker, check cycle, Auto Refresh, scan discoveries, alerts and the hidden window: one action per Tk callback |
| `Maintenance` | Maintenance windows in memory, in the configuration and in Event History: one action per store a callback writes |
| `Availability` | Event History of one service, fed by tracker and maintenance, and the report computed from it |
| `Watchdog` | The watchdog's tick, its incidents, and the recovery that replaces a notification manager |
| `Restore` | Settings backup and restore: plan, safety backup, configuration, live application, roll-back |
| `RangeScan` | The plan of addresses, the window of checks on the pool, Cancel and the poll |
| `TraceRoute` | A Trace Route window and the workers of its runs |
| `Background` | `RangeScan` and `TraceRoute` together with `shutdown_application()` |
| `MCNotificationManager`, `MCMonitoring`, `MCMaintenance`, `MCAvailability`, `MCWatchdog`, `MCRestore`, `MCBackground` | The instances TLC uses |
| `NotificationManagerProofs` | Types, one live job per row, what happens after the stop event |
| `DeliveryProofs` | The rows of the delivery core: outcomes, QUEUED rows, the refinement of the ledger, deliveries and attempts counted |
| `MonitoringProofs`, `MaintenanceProofs`, `AvailabilityProofs`, `WatchdogProofs`, `RestoreProofs`, `BackgroundProofs` | Theorems and proofs of the module each is named for |

How they compose.  `NotificationManager` extends the table of `NotificationHistory` and
instantiates `DeliveryLedger` under a refinement mapping; `Background` conjoins the
scan, the window and the shutdown that ends both.  Elsewhere one module uses what
another has shown: `Maintenance` names a target by its service, which `Monitoring`
allows (`UniqueTargets`), and records an end dated earlier than it is written, which
`Availability` takes from there; `Watchdog` has of a notification manager what its
hand-over needs, and `NotificationManager` has what goes on inside one.

### The delivery core

`NotificationManager` has three threads.  `main` is the Tk thread, which
configures, enqueues, retries by hand, clears the history and shuts down;
`sched` is `_scheduler`, which reads due rows and puts them on the queue;
`worker` is `_worker`, which delivers.  Each has a program counter `pc[t]` and
the job in its hands `job[t]`.  A step is what happens under one lock, in one SQL
transaction or in one queue operation, so `_put_job` is four steps
(`PutCheck`, `PutClaim`, `PutPush`, `PutUndo`), a delivery is
`WorkerGet`, `WorkerStart`, ..., `WorkerRelease`, and `shutdown()` is `Shutdown`,
`SetStop`, `Drain` and so on to `PutPoison`.  Everything the code reads before
such a point and uses after it can be stale in the model exactly where it can in
the code: `snap` is the list of records `due_retries()` returned, `seen` the
settings `process_due_retries()` copied.

The table `db` survives `Restart`; everything else is what
`NotificationManager.__init__` makes.  `Restart` may follow any step, so it is
both the end of the program and a crash.

Abstractions:

- Time is the flag `next` of a row: a retry scheduled for `later` becomes `now`
  by the action `Due`.  Which of the three delays is used does not matter to
  any property.
- An attempt returns one of four results: success, a temporary failure (429,
  5xx, network), a rejection (4xx), an invalid endpoint.  An endpoint that
  accepts a request and whose answer is lost counts as a failed attempt, as it
  does for the code.
- A write and the pruning that follows it are two transactions in the code and
  one step here.  They commute with every write of another thread: pruning
  removes terminal rows only.
- A write may be refused by SQLite where `MaxFailures` allows it (`Write`,
  `InsertFails`); the code goes on in each case as the model does.
- The result queue that feeds the settings window is left out.

Variables `sends`, `accepted` and `late` are history: what the endpoints saw.

### The abstract specification

`DeliveryLedger` says that a row is worked on only by whoever has claimed it; a
claim is taken only on a new, a waiting or a failed row, and an unclaimed
settled row stays as it is until it leaves the history.  The refinement mapping
(`Ledger` in `NotificationManager`) takes a row's status, and as claims the ids
that a thread holds, that are queued, or that the scheduler has read.  A claim
is not exclusive: the scheduler may hold a stale record of a row the worker is
delivering, and the run `Duplicate` shows what follows from that.  One step may prune rows
and drop claims at once (`Release`): a write about a row that is gone settles nothing and
still ends its job.  What the ledger is good for follows from its own steps
(`SettledStays`): a settled delivery that nobody has claimed stays as it is.  Through the
refinement the manager has it too (`SettledRowsStay`).

### Monitoring

`Monitoring` is single-threaded: every step is a callback on the Tk thread.  What
makes it hard is that callbacks interleave.  A check captures the service of
its row and its result comes back when the row may be another; a modal alert box
runs an event loop inside `poll_check_cycle()`, so the cycle is split into
`Poll` and `CloseCycleBox` and everything but the window's own buttons (`Free`,
`Button`) may happen in between; tray actions (`CheckAll`, `StartAuto`,
`StopAuto`, `Restore`, `Exit`) wait for nothing.

- A row is its Treeview id, which Tk never uses again; `kind[i]` says which of
  `target_order`, `transient_scan_items` and the tree hold it.  A row in the tree
  and in neither of the others is `stray`: Load List makes those.
- `key[i]` is the normalised Host/IP and Port.  Names, groups and columns are
  left out, and so is a change of the spelling of a host, which only makes the
  code drop a result.
- `tracker` is `tcp_state_tracker`; `measured` is a history variable, the service
  a status was observed of.
- A cycle's results are applied when all its checks are answered: which rows are
  online, and whether maintenance silences the alerts, is any choice.
- A cycle's alert boxes, one after another, are one box; `boxes` is the stack of
  open dialogs.  Dialogs about wrong input are left out: they change nothing.
- The table is empty at first: any table of the configuration is reached by adding
  its targets.

### Planned maintenance

A window is kept in three places: `mem` is `target_metadata`, `disk` the
configuration file, `events` the audit events.  Opening and ending one writes them
in that order (`begin_maintenance_for_item`, `end_maintenance_for_item`): the step
`Begin` or `EndWindow` changes the memory and inserts the event, `SaveAfterEvent`
writes the file.  No other callback runs in between, but the process may be killed
there (`KillAmid`) and each store may refuse its write (`Insert`, `Save`), which the
code does not look at.  A callback that ends windows (`EndSelected`, `PollExpiry`,
`RemoveSelected`, `EditTarget`, `LoadHostList`, the start of the program) puts them in
`left` and goes on with `EndWindow` for each, then with what it is for (`FinishChange`,
`FinishLoad`, `FinishResolve`).

- `MaintenanceState` is when the window was started and until when; `Manual` stands
  for one without an end.  The reason, the text of the column and the choice of a
  duration are left out.  Which opening a window is (`Id`) is history.
- Targets are named by their service.  A change of anything else of a target keeps
  its window and is `SaveConfig`.
- A restore is one step here; what can happen inside one is `Restore`.
- The clock does not advance within a callback, except where a dialog is open: the
  question of `EndSelected` is answered before its step begins.

### Event History and the Availability report

`Availability` has one service, its tracker and its window, and the events the program
records of them.  Each is inserted with the next id and the retained history is its
newest `Retention` events by id (`Insert`, `Retained`); `Another` is an event of another
service, which only takes a place.  An expired window is ended late and dated when it
was due (`Expire`), so ids and times disagree; a restart, an edit or a promotion makes
the tracker forget (`Forget`).  `Insert` may be refused, in which case the event is lost and
nothing else: tracker and window have changed before it, and no caller looks at its result.
`recorded` is history: the event of the tracker's last transition was recorded.

The report is a set of operators with the names and the order of the code's own:
`_normalize_events`, `reconstruct_state_segments`, `reconstruct_maintenance_intervals`,
`merge_intervals`, `_indexed_interval_overlap`, `_outages_for_target`,
`calculate_availability`.  The properties compare them, in every state and for every
period that has passed, with definitions that look at one instant at a time
(`StatusAt`, `MaintainedAt`): an interval is right when it has the right instants.
Percentages, averages, names and the order of the report's rows are left out.

- A history is read by folds whose steps have names (`Passed`, `Absorbed`, `Windows`,
  `Turned`), so that a proof can speak of one step.  A condition the code skips or stops at
  is inside the step: the events are in order, so stopping at one is skipping the rest.
- `Sorted` is any arrangement of a set that keeps the order the code sorts by.  No two events
  have one id, so it keeps them all; windows that are equal count once, as they do when merged.

### Watchdog and recovery

`poll_health_watchdog()` is `Tick`, which probes everything, and then one step per check:
`Handle` records or resolves an incident, and before that, where a recovery is due,
`Recover` tells the old notification manager to shut down and `StartManager`, after the
tenth of a second its threads are given, starts the next.  Between the two, and at
any other time, the threads of every manager ever started go on (`Thread(m)`).

- One delivery stands for the delivery history.  Its status is written by a worker, by a
  shutdown and by the repair that a manager's first `configure()` makes, and SQLite may refuse
  each (`Write`): the code goes on, and `unsaved` says that the last of them was refused.
  Delayed retries may be turned off at any time, so an interrupted delivery becomes `RETRYING`
  or settled (`Preserved`).
- A recovery may fail (`StartManager`): the exception is caught and the manager that was shut
  down stays.  One that is raised when the new manager is already in place, or has started one
  of its two threads, is left out.
- `depth` is how full the queue is with
  others, in the three ranges the probe tells apart.
- Of the conditions of the probe there are the two that are recovered from by
  replacing the manager and one that is not; the others differ in what they read.
  Maintenance that is overdue is recovered from by what `FinishResolve` of
  `Maintenance` is the end of.
- A thread stops unexpectedly by the action `Die`, the worker between two deliveries:
  `_worker` catches what a delivery raises.
- The incidents are the set of open ones; resolved ones are read by nothing.
- `Restart` may follow any step.  Incidents and the delivery's row survive it;
  `_notified` and `_attempts` do not.

### Settings backup and restore

`restore_settings_backup()` is one callback, in steps where a write may be refused, an
exception may be raised or the program may be killed: `WriteSafety`, `Commit`,
`ApplyRecord` for each target, `DeleteRow`, `Arrange`, `ApplyPreferences`,
`ApplyNotifications`.  Any of the applying steps may raise (`Raise`): the old
configuration is written back, which may be refused, and the live state is rolled
back step by step, each of which may raise too (`RaiseAgain`).  `Planned` is
`plan_restore()` and `Portable` `build_backup()`.

- A target is its service, one `label` for its names and groups, and whether it has a
  maintenance window; the settings are one preference, one health preference, whether a
  webhook is enabled and whether it has an endpoint.
- The table is `tree`, `order`, `row` and `tracker` as the code changes them one after
  another, so an exception finds it half done; `tree` and `order` hold the same rows all
  the while (`Table` in `RestoreProofs`).
- The theme is applied last in the code and with the other preferences here, before the
  notifications; no property tells the two orders apart.
- A file that is malformed is refused before anything begins.

### Range scan, Trace Route and shutdown

In `RangeScan` the Tk thread starts, cancels and polls a scan; a check is `queued` on the
pool, `running`, and `done` or `cancelled`, and a poll refills the window of `Workers`
checks from the plan (`Taken`, `Submit`).  A check that runs when the scan is cancelled
goes on, and its answer comes when another scan may have begun.

In `TraceRoute` every run has a worker whose steps are the points where the window can
meet it: `Take`, `Start` (Popen), `Register` (the handle), `Check` (the stop event,
again), reading, `Result`, `Wait`, `Finally`, `Unregister`.  `stop_trace()` sets the stop
event in one step and terminates the process it finds in another (`StopTrace`,
`EndTrace`).  A line is a message; `MaxLines` bounds those not yet polled.

A process that is terminated ends: an `OSError` of `terminate()` or `kill()`, which the code
swallows, and a process that outlives the second wait of `_terminate_process` are left out.

`Background` adds `shutdown_application()`, which cancels the scan and closes the window.

## Runs

| Run | Question | Instance |
|---|---|---|
| `Core` | Can two deliveries with delayed retries, the scheduler, the worker and shutdown get in each other's way? | 2 rows, 1 webhook, 1 delayed cycle, history of 1, queue of 2 |
| `Immediate` | In the default configuration, does a full queue leave neither a claim nor a QUEUED row, is every delivery made once and every attempt counted, does a row ever claim a delivery that did not happen, and do open rows survive pruning and Clear History, also when SQLite refuses a write? | 2 rows, 2 providers, queue of 1, no delayed cycles, 1 immediate retry, 1 manual retry, 1 test, 1 refused write |
| `Restart` | After a crash at any step, while settings change, do deliveries and shutdown finish? | 1 row, 3 settings, 1 crash, fair threads |
| `Retries` | Is a row waiting for a retry settled though the row of a disabled webhook is before it in every reading? | 2 rows, 2 webhooks, 1 move from one to the other, readings of 2, fair threads |
| `Duplicate` | Does a transition send one notification also with delayed retries? No: the run ends in a counterexample | 1 row |
| `Starvation` | And if such rows fill the reading? No: the run ends in a counterexample | as `Retries`, readings of 1 |
| `Monitoring` | Whatever is done to the table, the cycle, the timer, the alerts, the tray and the window, is a status of the service its row names, are there one cycle and one timer, and does Auto Refresh go on? | 2 services, 2 rows ever inserted, 1 host list, 1 backup, window may hide, fair callbacks |
| `Maintenance` | Do memory, configuration and audit events agree on what is under maintenance, and is a window ended once? | 2 services, 2 windows, 3 instants, 1 refused write or kill within a callback, 1 kill between two |
| `Availability` | Is the report of every period that of the instants it covers, and does pruning only forget? | 1 service, 4 instants, 4 events recorded or refused, 1 of them refused, 3 retained |
| `Watchdog` | Is a condition notified once, does recovery lose no delivery, and does every incident end? | 1 attempt per condition, 2 lost threads, 2 refused writes of incidents or of the delivery, recoveries that fail, 2 starts, fair timer |
| `Restore` | Is the safety backup there first, and is the user told the truth, whatever fails? | 2 targets, 2 backups with every selection, 2 imports, 2 failures, 1 edit, 1 kill |
| `Background` | Is a completed scan complete, does Cancel stop it, and is nothing left waiting or running? | 4 addresses, ranges of up to 3, 2 threads, 2 scans; 2 runs, 2 lines; fair polls and workers |

Why these bounds are enough.  In the delivery core every property is about one row or about two
holders of one row, so two rows and the three threads show every collision; a
queue of one or two is full within reach; one delayed cycle shows the limit being
reached, and one row the history has no room for shows pruning.  `MaxId`,
`MaxManual`, `MaxTests`, `MaxCrashes` and `MaxFailures` bound only how often the
user or the environment acts.  `Retries` and `Starvation` ask about a process that goes on
(`MovedSpec`): they leave out `shutdown()`, which ends every wait, and let the user move from one
webhook to the other once, at any point.  With readings of two a row of the disabled webhook may
be in each of them for ever and leaves one place; with readings of one it leaves none.  In `Monitoring` a row's history matters to that row
only, and a duplicate needs two.  `MaxRows` bounds how many rows are ever
inserted, since ids are not used again.

In `Maintenance` two windows are a window and its successor on the same service, or two at
once; three instants have one before, at and after an end.  The flaw that may happen is
one, so `EndedOnce` is not true for lack of a second: its allowance is used up.  In
`Availability` four events are a window and an outage, in every order and overlap,
and one more than is retained, one refused event an outage whose end is missing or a window
whose beginning is; periods begin and end at, before and after each of them.
In `Watchdog` one attempt per condition is one recovery of each kind and then the limit;
two starts have an incident outlive the process that opened it, and two refused writes are one
when a delivery is put down and one when it is picked up again.  In `Restore` two imports are
one upon what the last one left, and two failures are one of the application and one of the
roll-back or of the writing back.  In `Background` a range of three is one more than the
window has places, and a second scan, or run, is one that finds what the first left behind;
scans and runs share nothing but the shutdown, so a behaviour has two of one or of the other
(`Budgets`).

Deadlock is checked where a program that has shut down has a step of its own
(`Stopped`) or may be started again.  `Watchdog` and `Background` say
`CHECK_DEADLOCK FALSE`: once the program is down for the last time and its threads are at
rest, nothing happens any more, as it should.  That nothing stops before is what
`IncidentsEnd` and `WorkEnds` say.

### What the properties say

Of each module's properties the ones a reviewer would ask about first:

- `OneLiveJob`, `QueuedIsLive`, `GracefulShutdown`: the queue, the set of active ids and
  the statuses in the table, written under different locks, always fit together.
- `UnhiddenSettles`, `QueuedSettles`, `ShutdownCompletes`: no order of the threads leaves a
  delivery, or the exit of the program, waiting for ever.  `UnhiddenSettles` is what the code
  keeps of the README's `RetryingSettles`, which `Starvation` refutes: it exempts a row that the
  rows of disabled providers hide from the query.  It holds in `Restart.cfg` as well, over a crash.
- `TrackedForCurrentKey`: no result of a check in flight is ever compared with a status of
  another service.
- `AutoKeepsGoing`, `BackgroundMonitoring`: no Stop, Start, dialog or hidden window ends the
  chain of timers that is Auto Refresh.
- `ActiveIsOpen`: the report, which reads events, and the suppression of alerts, which reads
  memory, mean the same windows.
- `RowIsReality`, `OutagesAreDowntime`: two different algorithms of the report, and a
  reference that is neither, agree.
- `IncidentsEnd`: refused writes, restarts and a recovery in the middle of a tick do not leave
  an incident open that nobody will close.
- `QueuedIsHeld`: the second manager never leaves behind what the first had queued, unless
  SQLite refused the last write of it; and then the next write that succeeds ends that.
- `KnownIsTracked`: report and tracker agree on now, also when events were refused: one that is
  recorded makes up for all that were lost before it.
- `OutcomeIsTrue`: what is in force after an import, and after one that was rolled back, is
  what the dialog says.
- `WorkEnds`: a process that was stopped between its start and its registration still ends.

### Fairness

`FairSpec` of `NotificationManager` assumes weak fairness of each thread (the operating system
schedules it, and an attempt returns within its timeout), of the clock (`Due`), and of the
application configuring the manager once it is started.  Nothing is assumed of
the user.  `MovedSpec` assumes the same.  `ShutdownCompletes` holds for a queue of two or more (256 in the
code): with one place a scheduler that passed its check before shutdown can take
the place of the poison pill.

`FairSpec` of `Monitoring` assumes that a cycle is polled to its end (every check has
a timeout, and `poll_check_cycle` schedules itself until all are answered) and that
Tk runs timers and idle callbacks.  Nothing is assumed of the user: an alert box may
stay open for ever, which is why `BackgroundMonitoring` is about a hidden window,
where none opens.

`FairSpec` of `Watchdog` assumes that the timer of the watchdog fires and that Tk completes the
callback it runs, the wait for the old manager's threads included, which has a timeout.
Of the threads of the managers it assumes nothing.

`FairSpec` of `Background` assumes that Tk polls, that a check ends (ping and connection have
timeouts) and that the worker of a trace goes on.  That tracert writes a line or ends by
itself is not assumed: where it has to end, the window or the worker ends it.

## Proofs

Assumptions are the named `ASSUME`s on the constants: bounds are natural numbers, the queue
has room for a job and Event History for an event, settings are settings, host lists are
sequences of services, backups finite sets of them, configurations are configurations, and
what lies between two addresses are addresses.  They are evaluated by every run.

Seven theorems need more, and say so in their statement:

| Hypothesis | Theorems | Why |
|---|---|---|
| `failures = 0`: no write was refused so far | `ShutdownIsGraceful` | The code logs a refused write and goes on: the row of a job that has ended stays `QUEUED` |
| `failures = 0 /\ crashes = 0`, `NoDelayedRetries` | `AcceptedAtMostOnce`, `AttemptsAreCounted`, `ClearLeavesActive` | A "delivered" that a crash lost, or that was refused and the row repaired at the next start, may be followed by another attempt, and a refused count is none; with delayed retries each of the three is false (`Duplicate`, Observations) |
| `NoListWindows`: no host list holds an active window | `HistoryAgrees`, `WindowsEndOnce` | Such a window is active without an event (Observations) |
| `ListsWithoutDuplicates` | `TargetsAreUnique` | Load List looks for no duplicates (Observations) |

Three more properties say themselves which refused writes they are about, and their theorems
need no hypothesis: `QueuedIsLive` (`failures`), `QueuedIsHeld` (`unsaved`) and `KnownIsTracked`
(`recorded`).  That `AtMostOnce` holds over a refused write too, as long as the process goes on,
is only checked (`Immediate`).

The settings the code starts from (`DefaultSettings`) satisfy `NoDelayedRetries`, and the run
`Immediate` is an instance of it with a second delivery, a manual retry and a test.

`NotificationManagerProofs`:

- `TypeCorrect`: `Spec => [](TypeOK /\ ControlOK)`.
  `TypeOK` alone is not inductive: that `active` holds ids of rows only depends
  on no thread claiming a test notification, which `ControlOK` states of the
  program points where a job is known to have a row.
- `LiveJobIsUnique`: `Spec => []OneLiveJob`, by
  the inductive invariant `TypeOK /\ ControlOK /\ OneLiveJob`.  The argument is
  about who holds a job: the lemmas say when a step neither adds nor removes a
  holder, when it moves a job from a thread to the queue or back, and when it
  claims or releases an id.
- `StopIsPrompt`: `StopQuiesces`, by `StopInv`: once an attempt was made after the stop event,
  the worker is past the point from which it could make another.  The lemmas `TkFrame`,
  `SchedFrame` and `WorkerFrame`, what the steps of a thread leave alone, serve all that follows.

`DeliveryProofs` begins with what one step may make of one row.  `StatementEffects` says
what each SQL statement does to the statuses, pruning included, and `RowSteps` which steps
use it: every proof below splits on its cases instead of on the actions.

- `OpenRowsStay`: `OpenRowsSurvive`, an action property, from `RowSteps` alone.
- `DeliveredMeansAccepted`: `DeliveredWasAccepted`, by `AcceptedInv`: at the point
  where the worker reports success its endpoint has accepted.
- `QueuedRowsAreLive`, `ShutdownIsGraceful`: by `QueuedInv`, which says who answers for a
  `QUEUED` row (`Accounted`).  A delayed job answers for nothing, since the worker may drop it
  with its row as it is; so `JobOrigins` is needed: the Tk thread makes immediate jobs only
  and the scheduler delayed ones only, and what is queued after the drain is delayed.
- `ManagerImplementsLedger`: the refinement.  `LedgerStep` takes each step to a step of
  `DeliveryLedger` or to a stutter, from `RowSteps` for the status and `ClaimsOfStep` for the
  claims: a claim begins with an insertion, a manual retry or a query, and nowhere else.
  `ClaimsInv` is what it needs: the scheduler queries with nothing left of the last query, and
  the repair at startup moves no row that somebody has claimed.
- `SettledRowsStay`: `ClaimedOnly` of the ledger.  The lemma `SettledStays` shows it of every
  behaviour of the ledger, and the refinement brings it over.  It needs that ids not yet
  given out name no row (`FreshAbsent`), or a new delivery could overwrite a settled one.
- `AcceptedAtMostOnce`: `AtMostOnce`, by `OnceInv`.  Without delayed retries a row has one job
  at a time, and a new one only after a manual retry of a row that is `FAILED`; so `SentOnce`
  says that where a job waits or works nothing was accepted yet and the row is `QUEUED`, and
  that where something was accepted the row is `DELIVERED`, or the worker is about to say so.
  `OneLiveJob` is what keeps the job in the hands of one thread and of the queue apart.
- `ClearLeavesActive`: `ClearSparesActive`, an action property: where the worker is at work
  `OnceInv` has the row `QUEUED`, and only settled rows are cleared.
- `AttemptsAreCounted`: `AttemptsCounted`, by `SentInv` beside `OnceInv`.  At "send" the attempt
  to come is recorded already (`SentRow`), which is where `OnceInv` is needed: the record only
  counts for a row that is open.  `BurstRow` relates what was sent to the worker's loop
  counter.

`MonitoringProofs`:

- `MonitoringTypeCorrect`, `OneTimerCorrect`: a timer is cancelled by taking one away, so
  `TypeOK` is inductive only together with `OneTimer`, which says there is one.
- `StatusIsOfCurrentKey`, `PromotionIsBaseline`: by the inductive invariant `TrackInv`.
  It adds `FreshRowsBlank`, that a row id not yet given out has no status;
  without it an inserted row could come with one.
- `ScansExcludeChecks`, `AlertsAreShown`: inductive as they stand.
- `AutoRefreshGoesOn`: from `OneTimer`, which makes the timer that fires or is cancelled
  the only one.
- `OneCycleAtATime`: polls and alert boxes of cycles add up to one or none; the lemma
  `CyclesCount` says how opening and closing a dialog counts.
- `TargetsAreUnique`: `UniqueTargets`, inductive with the types.  A restore adds as many rows as
  there are new services, and a surjection between sets of one size is an injection
  (`BackupOnce`): each service is added once.

`MaintenanceProofs`:

- `MaintenanceTypes`: `TypeOK`, with `Control`, which says what the callbacks take for granted of
  each other: the windows still to be ended are there and, in a poll, have expired.
- `HistoryAgrees`: `ActiveIsOpen`, by `AuditInv`.  While nothing was refused or killed, a window
  in memory has an event that opened it and no later one of its service; a window on disk
  likewise, unless it is being ended, since a start begins from there.
- `WindowsEndOnce`: `EndedOnce`, by `OnceInv`, which counts the ends of each window against
  what was refused and killed.  A window that is still in memory, or in a file that is not
  behind, has one end less than is allowed; and an opening is the window of one service only.

`AvailabilityProofs`:

- `AvailabilityTypes`: `TypeOK`, and `History`: `HistoryInv`, the invariant all others use.  The
  retained events are the newest of all (`Newest`); ids ascend; dates ascend but for the end
  of an expired window (`DatesAscend`); and the last transition agrees with the tracker once
  the tracker's own was recorded (`TrackerSaid`).
- `PruningForgets`: `PruneOnlyForgets`.  What is dated when it was recorded and is the latest
  retained event of its kinds is the latest of them ever (`RetainedIsLatest`).  That is every
  transition and every beginning of a window; an end may be dated earlier, and it only ends.
- `TrackedIsKnown`: `KnownIsTracked`.  Sorted, the retained events are those by date
  (`NormalizedOrders`), and the status a fold over them comes to is what the last transition
  before the instant says (`StatusBeforeSays`).
- `RowCountsInstants`: `RowIsReality`.  `SegmentsCover`: the segments tile the known part of the
  period, each with the status of its instants.  `MaintenanceIs`: the merged windows lie apart
  (`MergedApart`) and hold the instants in maintenance and no other.  `TotalTiled`: a sum over
  segments counts the instants they tile.  `RowCounts` puts them together.
- `OutagesCoverDowntime`: `OutagesAreDowntime`.  `OutagesChained`: the outages follow one another
  and hold the instants that are OFFLINE, whatever a repeated DOWN does in between.
  `OutagesCount`: what they last, and what of it is planned, is what `RowCounts` has for the
  downtime.

The report folds over sequences, and so does the plan of a restore.  A fold is proved about
through its results after each element: `FoldExists` shows there is a function with these
results, `FoldRun` that the last of them is what `FoldLeft` gives, and `Ascending`, which takes the
least number that fails, that what holds at first and is kept by a step holds at the end.
`SortExists` shows in the same way that a finite set can be sorted, so `Sorted` is what its
definition says, and `SortedOnto` that it leaves nothing out.  `RestoreProofs` has of these
lemmas what its one fold needs.

`WatchdogProofs`:

- `RecoveriesBounded`: `TypeOK`, in which there are `1 + 2 * MaxAttempts` managers and no more.
  The strengthening `Counted` says that the managers started, and the one about to be, are no
  more than the attempts made of both conditions; a recovery that failed has started none.
- `NotificationsAreSingle`: `NotifiedOnce`, inductive with the types.
- `RecoveryKeepsDeliveries`: `QueuedIsHeld`, inductive with the types: what a manager puts down
  at its shutdown, and what the next finds `QUEUED`, is no longer so, or its write was refused;
  a recovery that fails touches no delivery.

`RestoreProofs`:

- `SafetyBackupFirst`: `SafetyFirst`, by the invariant that before `Commit` nothing has
  changed, and from there on the backups hold the configuration of the confirmation.
- `RestoreTypes`, `OutcomesAreTrue`: `TypeOK` and `OutcomeIsTrue`, by `ImportInv`.  Neither is
  inductive alone: `PhaseInv` says what each step of an import and of its roll-back finds
  done (`Placing` the records up to `at`, `Landed`, `PuttingBack` the old rows up to `at`,
  `Back`), so that after the last step the whole of it is done.  `Table` says that rows and
  order fit together between any two steps.  The plan is a filter and a fold over host
  lists: `MergedIsHosts` says that it is a host list again, in which no service is twice.

`BackgroundProofs`:

- `BackgroundTypes`, `ScanFindsAll`: `TypeOK` and `ScanIsComplete`, by `ScanInv`.  `PlanInv` says
  that the range is an interval and the plan's position in it or just past it, so
  that what is submitted is a prefix; `PoolInv` that an address is checked once if it was
  submitted and that the pool has no more than the window allows; `ShownInv` that, until
  Cancel, what is neither pending nor yet to come was counted and shown.  `TraceInv` does for
  the Trace Route window what the types need.  Counting the addresses of an interval needs
  `FS_Interval`, hence the assumption that addresses have no gaps.
- `CancelIsFinal`: `CancelStops`, an action property, from the guards.

Every invariant and every action property that a passing run checks is proved, under the
hypotheses above where it has some.  Only model-checked are the liveness properties: fairness and
`ENABLED` are out of the prover's reach.

## Observations

What the code does and its documentation does not say.  `Duplicate` and
`Starvation` are runs of their own; the others are seen by adding the property named to the configuration
named, or by reading.

The delivery core.  `process_due_retries()` acts on a list of rows it read earlier.

- `Duplicate`: the scheduler reads a due row; the row's previous job, still
  queued from an earlier reading, is delivered and released; the scheduler then
  puts the row on the queue again and it is delivered twice.
- `AttemptsCounted` in `Core.cfg`: the scheduler fails a row whose last cycle the worker has
  just begun; the attempts that follow are not counted (README.md:233).  Clear History may
  then delete the row under the worker (`ClearSparesActive` in `Core.cfg`).
- `Starvation`: the limit of the query (100 in the code) is applied before the provider is
  looked at, so that many due rows of a disabled provider hide all others, for as long as it
  stays disabled (README.md:237).
- A `recover_interrupted()` that SQLite refuses is not repeated by its manager: the rows stay
  `QUEUED` until the next manager is configured (notification_manager.py:120).

The table and the window.

- `OnlyTargetsReport` in `Monitoring.cfg`: `load_host_list()` empties `transient_scan_items`
  before it deletes the known rows, so scan results stay in the table as rows nothing knows
  of; a check of them by Check Selected makes a baseline, and the next one an alert
  (README.md:172).
- `DialogsWaitForWindow` in `Monitoring.cfg`: a tray action such as Event History restores the
  window, hands the alerts to an idle callback and builds a window of its own; a click on the
  main window's close button handled before that callback hides the window again, and the
  dialog opens over it (README.md:185).
- `UniqueRows` in `Monitoring.cfg`: a restore compares targets with configured rows only, so a
  scan result of the same service stays beside the new row (README.md:39).
- `UniqueTargets` is checked with a host list that has no duplicates.  The code loads a
  list as it is, so one with duplicates makes duplicate targets; such a table is
  refused by a settings restore.  Nor is a loaded list saved before something else is
  (`FinishLoad`).
- README.md:128 says editing a discovered target promotes it; `edit_selected()` returns at
  once for a scan result (multi_port_checker.py:470), which is promoted by adding its service
  again (`Add`).

Maintenance and the report.

- `EndedExactlyOnce` in `Maintenance.cfg`: a kill or a refused save between the event of an end
  and the configuration brings the window back, and the next start ends it again
  (CHANGELOG.md:67).
- `OpenIsEnabled` in `Maintenance.cfg`: a restore that replaces targets drops their windows
  without an event (multi_port_checker.py:2951), and for the report they go on.
- `ActiveIsOpen` in `Maintenance.cfg` with `Files <- SavedList`: Save List writes a target's
  active window into the file, and Load List reads it back after it has ended the windows
  of the targets it replaces (multi_port_checker.py:3265).  The window is active again with no
  event that opens it, so Event History lacks it (README.md:274).
- The history keeps the last status across a restart, an edit or a removal until the next
  transition, so a service that was OFFLINE when the program ended counts as down for as long as
  it is not seen to change, the time the program did not run included (README.md:283).
  `KnownIsTracked` therefore begins with the first transition.
- A transition whose event is refused is lost, the tracker having moved on
  (multi_port_checker.py:630): with DOWN recorded and RECOVERED refused the report counts
  downtime until the next transition is recorded.
- `reconstruct_state_intervals()` is called by no code.

Watchdog and recovery.

- `SentByOne` in `Watchdog.cfg`: the old manager, which may be sending still, and the new one, which
  finds the row, deliver it both (multi_port_checker.py:3477).
- `ManagerAccepts` in `Watchdog.cfg`: a recovery that fails (multi_port_checker.py:3480) leaves
  the manager it has shut down, which takes no deliveries; the probe takes threads that were
  told to stop for healthy (multi_port_checker.py:3415), so the next tick reports the condition
  as recovered.
- `_attempts` is never reset, so a condition that shows for the third time in the life of a
  process is not recovered from, however long ago the first two were.
- With both threads lost, the second check of a tick is about the manager the first has just
  replaced, and replaces the new one as well.
- Each recovery starts another `poll_notification_results()` loop beside the first
  (multi_port_checker.py:2196).
- `poll_health_watchdog()` schedules itself after `tick()`: an exception in it ends the watchdog.
  The incident of a probe that fails is resolved by nothing (application_watchdog.py:69).
- `tray_available` stays true when the thread of the icon ends by itself, so the probe of the
  tray (multi_port_checker.py:3443) reports nothing then (README.md:79).

Backup and restore.

- `HealthIsPortable` in `Restore.cfg`: no selection of an import includes the health preferences, which the backup
  holds (README.md:81).
- After a live roll-back that fails too, the configuration on disk is the old one and the live
  state is neither; the exit of the program then saves the live state over it.

Trace Route.

- A Stop while the worker waits for the process that has closed its output ends in "Trace
  failed".

## Not modelled

- Health diagnostics, Windows startup registration, themes, filters, columns, CSV exports,
  packaging: they read what other parts keep, or are I/O and presentation.
- The HTTP, shell, ping and tracert code, payloads, masking and validation of endpoints: what they
  can return is modelled where another part depends on it.
- The thread of the tray icon and its native messages: what the tray asks for are actions of the
  modules it asks it of.
- Exceptions that Tk, the tray or a store may raise.  They are possible where the code catches
  them to go on another way: in `Restore`, whose roll-back is for them, and in the recovery of
  `Watchdog`.
- The repair of malformed values by `load_config()`; `validate_backup()` beyond what a plan needs.

## Plan

Done: the delivery core with its ledger, monitoring, maintenance, the report, the watchdog,
restore, background work, and a proof of every invariant and action property.  Left:
`Monitoring` and `Restore` over one table, so that checks in flight meet the steps of a
roll-back.
