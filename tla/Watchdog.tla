-------------------------------- MODULE Watchdog --------------------------------
(***************************************************************************)
(* The internal watchdog (application_watchdog.py), the incidents it keeps *)
(* (health_incidents.py), and the recovery by which it replaces the        *)
(* notification manager (multi_port_checker.py).                           *)
(*                                                                         *)
(* A tick of the watchdog runs on the Tk thread.  It probes everything     *)
(* first and then handles one check after the other, while the threads of  *)
(* every manager ever started go on: recovery waits a tenth of a second    *)
(* for the old manager and then starts the next on the same delivery       *)
(* history.  One delivery stands for that history.                         *)
(***************************************************************************)
EXTENDS Integers, Sequences, FiniteSets

CONSTANTS
    MaxAttempts,  \* MAX_AUTO_RECOVERY_ATTEMPTS
    Cooldown,     \* RECOVERY_COOLDOWN_SECONDS, in ticks
    MaxFaults,    \* bound: threads that stop unexpectedly
    MaxRefusals,  \* bound: writes that SQLite refuses
    MaxStarts     \* bound: starts of the program

ASSUME WatchdogAssumption ==
    /\ MaxAttempts \in Nat /\ Cooldown \in Nat \ {0} /\ MaxFaults \in Nat
    /\ MaxRefusals \in Nat /\ MaxStarts \in Nat \ {0}

(***************************************************************************)
(* Conditions, by what the probe looks at: NOTIFICATION_WORKER_STOPPED,    *)
(* RETRY_SCHEDULER_STOPPED, and NOTIFICATION_QUEUE_BACKLOG, which a depth  *)
(* between its two thresholds leaves alone.                                *)
(***************************************************************************)
Recoverable == {"worker", "scheduler"}
Conditions == Recoverable \union {"backlog"}
Depths == {"low", "middle", "high"}
Checks == [condition : Conditions, bad : BOOLEAN]

\* Each condition may have the manager replaced MaxAttempts times.
Managers == 1 .. 1 + 2 * MaxAttempts

STATUS_QUEUED == "QUEUED"
STATUS_RETRYING == "RETRYING"
Settled == "SETTLED"                        \* DELIVERED or FAILED

VARIABLES
    manager,    \* notification_manager: the current one
    worker,     \* the delivery thread of each
    scheduler,  \* its retry scheduler
    stopped,    \* managers told to shut down
    queued,     \* managers whose queue holds the delivery
    row,        \* the delivery's status in the history
    unsaved,    \* history: the last write of it was refused
    depth,      \* how full the queue is with other deliveries
    checks,     \* what the tick under way has yet to handle
    joining,    \* it waits for the old manager's threads
    open,       \* conditions with an open incident
    notified,   \* _notified: conditions
    attempts,   \* _attempts
    wait,       \* ticks until _last_attempt is a cooldown ago
    recover,    \* health_auto_recovery_enabled
    down,       \* shutdown_guard.started
    told,       \* history: problems minus recoveries notified, in this process
    faults, refusals, starts    \* history: for the bounds

delivery == <<row, unsaved, refusals>>
threads == <<manager, worker, scheduler, stopped, queued, row, unsaved>>
tick == <<checks, joining>>
incidents == <<open, notified, told>>
recovery == <<attempts, wait>>
vars == <<manager, worker, scheduler, stopped, queued, row, unsaved, depth, checks, joining, open,
          notified, attempts, wait, recover, down, told, faults, refusals, starts>>

Fresh ==
    /\ manager' = 1 /\ stopped' = {} /\ queued' = {}
    /\ worker' = [m \in Managers |-> IF m = 1 THEN "idle" ELSE "none"]
    /\ scheduler' = [m \in Managers |-> IF m = 1 THEN "alive" ELSE "none"]

Init ==
    /\ manager = 1 /\ stopped = {} /\ queued = {} /\ depth = "low"
    /\ row = "none" /\ unsaved = FALSE
    /\ worker = [m \in Managers |-> IF m = 1 THEN "idle" ELSE "none"]
    /\ scheduler = [m \in Managers |-> IF m = 1 THEN "alive" ELSE "none"]
    /\ checks = << >> /\ joining = FALSE
    /\ open = {} /\ notified = {} /\ told = [c \in Conditions |-> 0]
    /\ attempts = [c \in Recoverable |-> 0] /\ wait = [c \in Recoverable |-> 0]
    /\ recover = TRUE /\ down = FALSE
    /\ faults = 0 /\ refusals = 0 /\ starts = 1

--------------------------------------------------------------------------------
(***************************************************************************)
(* The notification managers, as far as the hand-over goes.                *)
(***************************************************************************)
Holds(m) == m \in queued \/ worker[m] = "sending"   \* _active_delivery_ids
Unwatched == UNCHANGED <<depth, tick, incidents, recovery, recover, down, faults, starts>>

\* _write(): a refused one is logged, and its result ignored by every caller.
Write(rows) ==
    \/ row' \in rows /\ unsaved' = FALSE /\ UNCHANGED refusals
    \/ /\ refusals < MaxRefusals /\ refusals' = refusals + 1
       /\ unsaved' = TRUE /\ UNCHANGED row

\* _preserve_interrupted() and recover_interrupted() leave a delivery to be retried, or
\* fail it where delayed retries are off, as they may be at any time.
Preserved == {STATUS_RETRYING, Settled}

\* enqueue(): one whose row cannot be written, or that comes too late, is not queued.
Enqueue ==
    /\ ~down /\ checks = << >> /\ row = "none" /\ manager \notin stopped
    /\ row' = STATUS_QUEUED /\ unsaved' = FALSE /\ queued' = queued \union {manager}
    /\ UNCHANGED <<manager, worker, scheduler, stopped, refusals>> /\ Unwatched

\* process_due_retries(), one round of the scheduler
Schedule(m) ==
    /\ scheduler[m] = "alive" /\ m \notin stopped
    /\ row = STATUS_RETRYING /\ ~Holds(m)
    /\ queued' = queued \union {m}
    /\ UNCHANGED <<manager, worker, scheduler, stopped, delivery>> /\ Unwatched

\* _worker() takes the job and _deliver_job() begins an attempt; one that sees the
\* manager stop in time leaves the delivery to be retried, as a failed one may.
Take(m) ==
    /\ worker[m] = "idle" /\ m \in queued
    /\ worker' = [worker EXCEPT ![m] = "sending"] /\ queued' = queued \ {m}
    /\ UNCHANGED <<manager, scheduler, stopped, delivery>> /\ Unwatched

Finish(m) ==
    /\ worker[m] = "sending" /\ worker' = [worker EXCEPT ![m] = "idle"]
    /\ Write({Settled, STATUS_RETRYING})
    /\ UNCHANGED <<manager, scheduler, stopped, queued>> /\ Unwatched

\* A thread stops unexpectedly, the worker between two deliveries; the manager still
\* accepts them.  (The threads of a manager that was told to stop end when they have
\* nothing under way: nobody looks at them any more.)
Die(m) ==
    /\ ~down /\ m \notin stopped /\ faults < MaxFaults /\ faults' = faults + 1
    /\ \/ /\ worker[m] = "idle" /\ worker' = [worker EXCEPT ![m] = "dead"]
          /\ UNCHANGED scheduler
       \/ /\ scheduler[m] = "alive" /\ scheduler' = [scheduler EXCEPT ![m] = "dead"]
          /\ UNCHANGED worker
    /\ UNCHANGED <<manager, stopped, queued, delivery, depth, tick, incidents, recovery, recover,
                   down, starts>>

\* NotificationManager.shutdown(): what was queued is preserved; a second call does nothing.
ShutDownManager ==
    /\ stopped' = stopped \union {manager} /\ queued' = queued \ {manager}
    /\ IF manager \in queued THEN Write(Preserved) ELSE UNCHANGED delivery

\* Variant: the history is taken as it is.
InterruptedAsIs(r) == {r}

\* What recover_interrupted() makes of a delivery's status.
Interrupted(r) == IF r = STATUS_QUEUED THEN Preserved ELSE {r}

\* start_notification_support(); where it fails, "recovery failed" is all that comes of it,
\* and the manager that was shut down stays.
StartManager ==
    /\ joining /\ joining' = FALSE
    /\ \/ /\ manager' = manager + 1
          /\ worker' = [worker EXCEPT ![manager + 1] = "idle"]
          /\ scheduler' = [scheduler EXCEPT ![manager + 1] = "alive"]
          /\ Write(Interrupted(row))
       \/ UNCHANGED <<manager, worker, scheduler, delivery>>
    /\ UNCHANGED <<stopped, queued, depth, checks, incidents, recovery, recover, down, faults,
                   starts>>

--------------------------------------------------------------------------------
(***************************************************************************)
(* The watchdog.                                                           *)
(***************************************************************************)
Check(c, bad) == [condition |-> c, bad |-> bad]

\* A thread has stopped, and not because its manager was told to.
Lost(c) ==
    /\ manager \notin stopped
    /\ \/ c = "worker" /\ worker[manager] = "dead"
       \/ c = "scheduler" /\ scheduler[manager] = "dead"

\* _health_watchdog_probe(), of the current manager.
Probe ==
    << Check("worker", Lost("worker")), Check("scheduler", Lost("scheduler")) >>
    \o (IF depth = "middle" THEN << >> ELSE << Check("backlog", depth = "high") >>)

Cooled == [c \in Recoverable |-> IF wait[c] > 0 THEN wait[c] - 1 ELSE 0]

\* poll_health_watchdog() and ApplicationWatchdog.tick()
Tick ==
    /\ ~down /\ checks = << >>
    /\ wait' = Cooled
    /\ checks' = Probe
    /\ UNCHANGED <<threads, refusals, depth, joining, incidents, attempts, recover, down, faults,
                   starts>>

MayRecover(c) ==
    recover /\ c \in Recoverable /\ wait[c] = 0 /\ attempts[c] < MaxAttempts

\* The first half of _health_watchdog_recover(), before the incident is recorded.
Recover ==
    /\ checks # << >> /\ ~joining
    /\ LET c == Head(checks).condition
       IN  /\ Head(checks).bad /\ MayRecover(c)
           /\ attempts' = [attempts EXCEPT ![c] = @ + 1]
           /\ wait' = [wait EXCEPT ![c] = Cooldown]
    /\ ShutDownManager /\ joining' = TRUE
    /\ UNCHANGED <<manager, worker, scheduler, depth, checks, incidents, recover, down,
                   faults, starts>>

\* Variant: what could not be recorded is notified.
RecordedOrRefused(c, refused) ==
    /\ open' = IF refused THEN open ELSE open \union {c}
    /\ notified' = notified \union {c}
    /\ told' = IF c \in notified THEN told ELSE [told EXCEPT ![c] = @ + 1]

\* HealthIncidentStore.record(), and the notification of a new condition.
Recorded(c, refused) ==
    /\ open' = IF refused THEN open ELSE open \union {c}
    /\ notified' = IF refused THEN notified ELSE notified \union {c}
    /\ told' = IF refused \/ c \in notified THEN told ELSE [told EXCEPT ![c] = @ + 1]

\* Variant: only what this process has notified of is resolved.
ResolvedNotified(c, refused) ==
    LET done == ~refused /\ c \in open \intersect notified
    IN  /\ open' = IF done THEN open \ {c} ELSE open
        /\ notified' = IF done THEN notified \ {c} ELSE notified
        /\ told' = IF done THEN [told EXCEPT ![c] = @ - 1] ELSE told

\* HealthIncidentStore.resolve(), and the notification that it was.
Resolved(c, refused) ==
    LET done == ~refused /\ c \in open
    IN  /\ open' = IF done THEN open \ {c} ELSE open
        /\ notified' = IF done THEN notified \ {c} ELSE notified
        /\ told' = IF done /\ c \in notified THEN [told EXCEPT ![c] = @ - 1] ELSE told

Handle ==
    /\ checks # << >> /\ ~joining
    /\ LET c == Head(checks).condition
           bad == Head(checks).bad
       IN  /\ ~(bad /\ MayRecover(c))
           /\ \E refused \in BOOLEAN :
                  /\ refused => refusals < MaxRefusals
                  /\ refusals' = IF refused THEN refusals + 1 ELSE refusals
                  /\ IF bad THEN Recorded(c, refused) ELSE Resolved(c, refused)
    /\ checks' = Tail(checks)
    /\ UNCHANGED <<threads, depth, joining, recovery, recover, down, faults, starts>>

--------------------------------------------------------------------------------
\* The backlog of other deliveries grows and shrinks; only a tick that begins looks.
Fill ==
    /\ ~down /\ checks = << >> /\ depth' \in Depths \ {depth}
    /\ UNCHANGED <<threads, refusals, tick, incidents, recovery, recover, down, faults, starts>>

\* Application Settings; the Tk thread is free.  (With the watchdog off no tick comes.)
SetAutoRecovery ==
    /\ ~down /\ checks = << >>
    /\ recover' = ~recover
    /\ UNCHANGED <<threads, refusals, depth, tick, incidents, recovery, down, faults, starts>>

\* shutdown_application(): the watchdog first, and then the current manager.
Exit ==
    /\ ~down /\ checks = << >> /\ down' = TRUE
    /\ ShutDownManager
    /\ UNCHANGED <<manager, worker, scheduler, depth, tick, incidents, recovery, recover,
                   faults, starts>>

\* The process ends, in order or not, and another starts on the same histories.
Restart ==
    /\ starts < MaxStarts /\ starts' = starts + 1
    /\ Fresh /\ Write(Interrupted(row)) /\ depth' = "low"
    /\ checks' = << >> /\ joining' = FALSE /\ down' = FALSE
    /\ notified' = {} /\ told' = [c \in Conditions |-> 0]
    /\ attempts' = [c \in Recoverable |-> 0] /\ wait' = [c \in Recoverable |-> 0]
    /\ UNCHANGED <<open, recover, faults>>

Thread(m) == Schedule(m) \/ Take(m) \/ Finish(m)

Next ==
    \/ \E m \in Managers : Thread(m) \/ Die(m)
    \/ Enqueue \/ StartManager \/ Tick \/ Recover \/ Handle
    \/ Fill \/ SetAutoRecovery \/ Exit \/ Restart

Spec == Init /\ [][Next]_vars

(***************************************************************************)
(* The watchdog's timer fires, and Tk completes the callback it runs.  Of  *)
(* the threads nothing is assumed.                                         *)
(***************************************************************************)
Fairness == WF_vars(Tick) /\ WF_vars(Recover \/ Handle) /\ WF_vars(StartManager)

FairSpec == Spec /\ Fairness

--------------------------------------------------------------------------------
(***************************************************************************)
(* Properties.                                                             *)
(***************************************************************************)
\* Types; and a manager is replaced at most MaxAttempts times for each condition.
TypeOK ==
    /\ manager \in Managers /\ stopped \subseteq Managers /\ queued \subseteq Managers
    /\ worker \in [Managers -> {"none", "idle", "sending", "dead"}]
    /\ scheduler \in [Managers -> {"none", "alive", "dead"}]
    /\ row \in {"none", STATUS_QUEUED, STATUS_RETRYING, Settled} /\ unsaved \in BOOLEAN
    /\ depth \in Depths
    /\ checks \in Seq(Checks) /\ joining \in BOOLEAN
    /\ open \subseteq Conditions /\ notified \subseteq Conditions
    /\ told \in [Conditions -> Int]
    /\ attempts \in [Recoverable -> 0 .. MaxAttempts] /\ wait \in [Recoverable -> 0 .. Cooldown]
    /\ recover \in BOOLEAN /\ down \in BOOLEAN
    /\ faults \in 0 .. MaxFaults /\ refusals \in 0 .. MaxRefusals /\ starts \in 1 .. MaxStarts

\* Health notifications come once for a condition and once for its end, "never every
\* watchdog tick" (README), for as long as its incident is open, also when incidents
\* cannot be written and when one was open before the program started.
NotifiedOnce ==
    \A c \in Conditions : /\ told[c] = (IF c \in notified THEN 1 ELSE 0)
                          /\ c \in notified => c \in open

\* Worker recovery "preserves durable SQLite delivery state" (README): across
\* managers and restarts, a delivery that is queued in the history is in the queue
\* or the hands of a manager, never left behind by the one that was replaced.  Where
\* the last write of its status was refused it may be left, until a write of it succeeds.
QueuedIsHeld ==
    row = STATUS_QUEUED => unsaved \/ \E m \in Managers : Holds(m)

\* Every incident comes to its end: a lost thread is replaced, or its manager was told
\* to stop, and the incident resolved, however often writes were refused in between.
\* What stays open is a condition that is still there with no attempts left or allowed,
\* and whatever the watchdog does not look at any more once the program shuts down.
Stays(c) ==
    \/ Lost(c) /\ (~recover \/ attempts[c] = MaxAttempts)
    \/ c = "backlog" /\ depth # "low"
IncidentsEnd ==
    \A c \in Conditions :
        (c \in open) ~> (c \notin open \/ Stays(c) \/ down)

--------------------------------------------------------------------------------
(***************************************************************************)
(* Promises of the README that the code does not keep: add one to the      *)
(* configuration of this module and TLC shows how (README, Observations).  *)
(***************************************************************************)
\* Recovery "does not blindly requeue jobs" (README): two managers do not send the
\* same delivery at once.
SentByOne == Cardinality({m \in Managers : worker[m] = "sending"}) <= 1

\* "Safe automatic recovery" (README): while the program runs, and no recovery is under
\* way, its manager takes deliveries.
ManagerAccepts == ~down /\ ~joining => manager \notin stopped
================================================================================
