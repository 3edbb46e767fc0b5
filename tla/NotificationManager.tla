-------------------------- MODULE NotificationManager --------------------------
(***************************************************************************)
(* NotificationManager of notification_manager.py: the Tk thread that       *)
(* enqueues, retries, configures and shuts down ("main"), the delivery      *)
(* worker ("worker"), the durable-retry scheduler ("sched"), the bounded    *)
(* queue between them, the set of active delivery ids, and the delivery     *)
(* table they share.                                                        *)
(*                                                                          *)
(* A step is what happens under one lock, in one SQL transaction or in one  *)
(* queue operation, so everything the code reads before such a point and    *)
(* uses after it can be stale here as it can be there.                      *)
(***************************************************************************)
EXTENDS NotificationHistory

CONSTANTS
    MaxQueue,        \* capacity of the job queue (256 in the code)
    Retries,         \* settings.retry_count, immediate retries of a webhook
    MaxDelayed,      \* Len(DELAYED_RETRY_DELAYS) (3 in the code)
    Limit,           \* rows process_due_retries reads at a time (100)
    SettingsChoices, \* the settings a user may save
    MaxFailures,     \* bound: writes SQLite refuses (disk full, locked file)
    MaxManual,       \* bound: manual retries by the user
    MaxTests,        \* bound: test notifications by the user
    MaxCrashes       \* bound: times the process ends and starts again

SettingsRecords == [later : BOOLEAN, enabled : SUBSET Providers]

ASSUME ManagerAssumption ==
    /\ MaxQueue \in Nat \ {0}
    /\ Retries \in Nat /\ MaxDelayed \in Nat /\ Limit \in Nat \ {0}
    /\ SettingsChoices \subseteq SettingsRecords
    /\ MaxFailures \in Nat
    /\ MaxManual \in Nat /\ MaxTests \in Nat /\ MaxCrashes \in Nat

VARIABLES
    db,         \* the table: the only state that survives the process
    nextId,     \* the next AUTOINCREMENT id
    settings,   \* _settings (and the providers built from it)
    recovered,  \* _startup_recovered
    accepting,  \* _accepting
    stop,       \* _stop_event
    queue,      \* _queue
    active,     \* _active_delivery_ids
    pc,         \* where each thread is
    job,        \* the job each thread is holding
    todo,       \* main: providers enqueue() has still to do
    seen,       \* sched: settings process_due_retries() read
    snap,       \* sched: records due_retries() returned, not yet looked at
    attempt,    \* worker: index of the attempt
    result,     \* worker: the last DeliveryResult
    sends,      \* history: attempts the endpoint really saw, per row
    accepted,   \* history: attempts answered with success, per row
    late,       \* history: attempts begun after the stop event
    failures, manuals, tests, crashes   \* counters of what is bounded

store == <<db, nextId, failures>>
conf == <<settings, recovered>>
life == <<accepting, stop>>
jobs == <<queue, active>>
tk == <<todo>>
retry == <<seen, snap>>
work == <<attempt, result>>
ghost == <<sends, accepted, late>>
bounds == <<manuals, tests, crashes>>
vars == <<db, nextId, settings, recovered, accepting, stop, queue, active, pc, job,
          todo, seen, snap, attempt, result, sends, accepted, late,
          failures, manuals, tests, crashes>>

Threads == {"main", "worker", "sched"}

(***************************************************************************)
(* Jobs.  Id 0 is a test notification (delivery_id None); Poison is the     *)
(* None that shutdown() puts on the queue.                                  *)
(***************************************************************************)
TestId == 0
Job(i, p, d, m) == [id |-> i, provider |-> p, delayed |-> d, manual |-> m]
Poison == Job(TestId, "none", FALSE, FALSE)
Jobs == [id : {TestId} \union Ids, provider : Providers \union {"none"},
         delayed : BOOLEAN, manual : BOOLEAN]
Durable(j) == j.id # TestId

(***************************************************************************)
(* Results.  A windows notification is not retryable; a webhook may answer  *)
(* 2xx, fail for now (429, 5xx, network), be rejected (4xx: retried at once *)
(* but not later) or have an invalid endpoint.                              *)
(***************************************************************************)
Results == {"ok", "temporary", "rejected", "invalid"}
Outcomes(p) == IF p \in WEBHOOK_PROVIDERS THEN Results ELSE {"ok", "invalid"}
RetryNow(r) == r \in {"temporary", "rejected"}
RetryLater(r) == r = "temporary"
TotalAttempts(p) == IF p \in WEBHOOK_PROVIDERS THEN Retries + 1 ELSE 1

--------------------------------------------------------------------------------
Goto(t, from, to) == pc[t] = from /\ pc' = [pc EXCEPT ![t] = to]

Fails == failures < MaxFailures /\ failures' = failures + 1 /\ db' = db

\* A write either happens or, where writes may fail, is reported and ignored.
Write(table) == \/ db' = table /\ UNCHANGED failures
                \/ Fails

DefaultSettings == [later |-> FALSE, enabled |-> {}]

Entry(t) == IF t = "main" THEN "boot" ELSE IF t = "worker" THEN "get" ELSE "top"

Init ==
    /\ db = EmptyTable /\ nextId = 1
    /\ settings = DefaultSettings /\ recovered = FALSE
    /\ accepting = TRUE /\ stop = FALSE
    /\ queue = << >> /\ active = {}
    /\ pc = [t \in Threads |-> Entry(t)]
    /\ job = [t \in Threads |-> Poison]
    /\ todo = << >> /\ seen = DefaultSettings /\ snap = {}
    /\ attempt = 0 /\ result = "ok"
    /\ sends = [i \in Ids |-> 0] /\ accepted = [i \in Ids |-> 0] /\ late = 0
    /\ failures = 0 /\ manuals = 0 /\ tests = 0 /\ crashes = 0

--------------------------------------------------------------------------------
(***************************************************************************)
(* _put_job, on the Tk thread or on the scheduler: an accepting check, the  *)
(* claim of the id, put_nowait, and the claim undone when the queue is full *)
(***************************************************************************)
\* Where _put_job returns to, with True and with False.  A refused durable job
\* of the Tk thread is marked FAILED by its caller; todo says whether enqueue()
\* has more providers.
Returned(t) == IF t = "sched" THEN "loop" ELSE IF todo = << >> THEN "idle" ELSE "insert"

\* Variant: the row of a refused job is left as it is.
RefusedSilently(t) == Returned(t)

Refused(t) == IF t = "main" /\ Durable(job[t]) THEN "refuse" ELSE Returned(t)

PutCheck(t) ==
    /\ Goto(t, "check", IF ~accepting THEN Refused(t)
                        ELSE IF Durable(job[t]) THEN "claim" ELSE "push")
    /\ UNCHANGED <<store, conf, life, jobs, job, tk, retry, work, ghost, bounds>>

\* Variant: the id is added without a look at the set.
PutClaimBlind(t) ==
    /\ Goto(t, "claim", "push")
    /\ active' = active \union {job[t].id}
    /\ UNCHANGED <<store, conf, life, queue, job, tk, retry, work, ghost, bounds>>

PutClaim(t) ==
    /\ Goto(t, "claim", IF job[t].id \in active THEN Refused(t) ELSE "push")
    /\ active' = active \union {job[t].id}
    /\ UNCHANGED <<store, conf, life, queue, job, tk, retry, work, ghost, bounds>>

PutPush(t) ==
    /\ IF Len(queue) < MaxQueue
       THEN Goto(t, "push", Returned(t)) /\ queue' = Append(queue, job[t])
       ELSE Goto(t, "push", IF Durable(job[t]) THEN "undo" ELSE Refused(t)) /\ UNCHANGED queue
    /\ UNCHANGED <<store, conf, life, active, job, tk, retry, work, ghost, bounds>>

\* Variant: a job the queue has no room for keeps its claim.
PutUndoKeeps(t) ==
    /\ Goto(t, "undo", Refused(t))
    /\ UNCHANGED <<store, conf, life, queue, active, job, tk, retry, work, ghost, bounds>>

PutUndo(t) ==
    /\ Goto(t, "undo", Refused(t))
    /\ active' = active \ {job[t].id}
    /\ UNCHANGED <<store, conf, life, queue, job, tk, retry, work, ghost, bounds>>

PutJob(t) == PutCheck(t) \/ PutClaim(t) \/ PutPush(t) \/ PutUndo(t)

--------------------------------------------------------------------------------
(***************************************************************************)
(* The Tk thread.                                                           *)
(***************************************************************************)
\* Variants: the repair runs at every configure(), or at none.
ConfigureRepairs(s) ==
    /\ pc["main"] \in {"boot", "idle"}
    /\ settings' = s
    /\ pc' = [pc EXCEPT !["main"] = "recover"]
    /\ UNCHANGED <<store, recovered, life, jobs, job, tk, retry, work, ghost, bounds>>

ConfigureOnly(s) ==
    /\ pc["main"] \in {"boot", "idle"}
    /\ settings' = s
    /\ pc' = [pc EXCEPT !["main"] = "idle"]
    /\ UNCHANGED <<store, recovered, life, jobs, job, tk, retry, work, ghost, bounds>>

\* configure(): once per process it also repairs rows an earlier one left QUEUED.
Configure(s) ==
    /\ pc["main"] \in {"boot", "idle"}
    /\ settings' = s
    /\ pc' = [pc EXCEPT !["main"] = IF recovered THEN "idle" ELSE "recover"]
    /\ UNCHANGED <<store, recovered, life, jobs, job, tk, retry, work, ghost, bounds>>

Recover ==
    /\ Goto("main", "recover", "idle")
    /\ Write(recover_interrupted(db, settings.later))
    /\ recovered' = TRUE
    /\ UNCHANGED <<nextId, settings, life, jobs, job, tk, retry, work, ghost, bounds>>

\* enqueue() takes the enabled providers in the order of enabled_providers().
IfOn(s, p) == IF p \in s.enabled THEN <<p>> ELSE << >>
EnabledProviders(s) ==
    IfOn(s, "windows") \o IfOn(s, "generic_webhook") \o IfOn(s, "teams_webhook")

Enqueue ==
    /\ accepting
    /\ Goto("main", "idle", "insert")
    /\ settings.enabled # {}
    /\ nextId + Len(EnabledProviders(settings)) <= MaxId + 1
    /\ todo' = EnabledProviders(settings)
    /\ UNCHANGED <<store, conf, life, jobs, job, retry, work, ghost, bounds>>

Insert ==
    /\ Goto("main", "insert", "check")
    /\ db' = insert_delivery(db, nextId, Head(todo))
    /\ nextId' = nextId + 1 /\ UNCHANGED failures
    /\ job' = [job EXCEPT !["main"] = Job(nextId, Head(todo), FALSE, FALSE)]
    /\ todo' = Tail(todo)
    /\ UNCHANGED <<conf, life, jobs, retry, work, ghost, bounds>>

\* insert_delivery() returned None: enqueue() goes on with the next provider.
InsertFails ==
    /\ Fails
    /\ Goto("main", "insert", IF Tail(todo) = << >> THEN "idle" ELSE "insert")
    /\ todo' = Tail(todo)
    /\ UNCHANGED <<nextId, conf, life, jobs, job, retry, work, ghost, bounds>>

\* A refused job: "Notification queue is full".
MarkRefused ==
    /\ Goto("main", "refuse", Returned("main"))
    /\ Write(mark_failed(db, job["main"].id))
    /\ UNCHANGED <<nextId, conf, life, jobs, job, tk, retry, work, ghost, bounds>>

\* retry_selected(); retry_all_failed() is a run of these.
ManualRetry(i) ==
    /\ Goto("main", "idle", "requeue")
    /\ manuals < MaxManual /\ manuals' = manuals + 1
    /\ db[i].status = "FAILED" /\ db[i].provider \in settings.enabled
    /\ job' = [job EXCEPT !["main"] = Job(i, db[i].provider, FALSE, TRUE)]
    /\ UNCHANGED <<store, conf, life, jobs, tk, retry, work, ghost, tests, crashes>>

Requeue ==
    /\ Goto("main", "requeue", "check")
    /\ Write(mark_queued(db, job["main"].id))
    /\ UNCHANGED <<nextId, conf, life, jobs, job, tk, retry, work, ghost, bounds>>

\* enqueue_test()
EnqueueTest(p) ==
    /\ Goto("main", "idle", "check")
    /\ tests < MaxTests /\ tests' = tests + 1
    /\ job' = [job EXCEPT !["main"] = Job(TestId, p, FALSE, FALSE)]
    /\ UNCHANGED <<store, conf, life, jobs, tk, retry, work, ghost, manuals, crashes>>

ClearHistory ==
    /\ Goto("main", "idle", "idle")
    /\ Write(clear_terminal(db))
    /\ UNCHANGED <<nextId, conf, life, jobs, job, tk, retry, work, ghost, bounds>>

\* _preserve_interrupted: what becomes of the row of a job that is given up.
preserve_interrupted(j) ==
    IF settings.later /\ j.provider \in WEBHOOK_PROVIDERS
    THEN schedule_retry(db, j.id, "now") ELSE mark_failed(db, j.id)

\* shutdown(): admission first, then the stop event, then the queue.
Shutdown ==
    /\ Goto("main", "idle", "stopping")
    /\ accepting' = FALSE
    /\ UNCHANGED <<store, conf, stop, jobs, job, tk, retry, work, ghost, bounds>>

SetStop ==
    /\ Goto("main", "stopping", "drain")
    /\ stop' = TRUE
    /\ UNCHANGED <<store, conf, accepting, jobs, job, tk, retry, work, ghost, bounds>>

\* Variant: queued jobs are dropped.
DrainDrops ==
    /\ queue # << >>
    /\ Goto("main", "drain", IF Durable(Head(queue)) THEN "unclaim" ELSE "drain")
    /\ job' = [job EXCEPT !["main"] = Head(queue)]
    /\ queue' = Tail(queue)
    /\ UNCHANGED <<store, conf, life, active, tk, retry, work, ghost, bounds>>

Drain ==
    /\ queue # << >>
    /\ Goto("main", "drain", IF Durable(Head(queue)) THEN "save" ELSE "drain")
    /\ job' = [job EXCEPT !["main"] = Head(queue)]
    /\ queue' = Tail(queue)
    /\ UNCHANGED <<store, conf, life, active, tk, retry, work, ghost, bounds>>

DrainSave ==
    /\ Goto("main", "save", "unclaim")
    /\ Write(preserve_interrupted(job["main"]))
    /\ UNCHANGED <<nextId, conf, life, jobs, job, tk, retry, work, ghost, bounds>>

DrainRelease ==
    /\ Goto("main", "unclaim", "drain")
    /\ active' = active \ {job["main"].id}
    /\ UNCHANGED <<store, conf, life, queue, job, tk, retry, work, ghost, bounds>>

DrainEmpty ==
    /\ queue = << >>
    /\ Goto("main", "drain", "poison")
    /\ UNCHANGED <<store, conf, life, jobs, job, tk, retry, work, ghost, bounds>>

\* Variant: the worker is left waiting.
NoPoison ==
    /\ Goto("main", "poison", "gone")
    /\ UNCHANGED <<store, conf, life, jobs, job, tk, retry, work, ghost, bounds>>

\* put_nowait(None), dropped when the queue is full; the joins change nothing.
PutPoison ==
    /\ Goto("main", "poison", "gone")
    /\ queue' = IF Len(queue) < MaxQueue THEN Append(queue, Poison) ELSE queue
    /\ UNCHANGED <<store, conf, life, active, job, tk, retry, work, ghost, bounds>>

\* What the Tk thread does once it has begun, and what the user may begin.
MainStep ==
    \/ Recover \/ Insert \/ InsertFails \/ MarkRefused \/ Requeue \/ PutJob("main")
    \/ SetStop \/ Drain \/ DrainSave \/ DrainRelease \/ DrainEmpty \/ PutPoison

User ==
    \/ \E s \in SettingsChoices : Configure(s)
    \/ Enqueue
    \/ \E i \in Ids : ManualRetry(i)
    \/ \E p \in Providers : EnqueueTest(p)
    \/ ClearHistory
    \/ Shutdown

\* The application configures the manager as soon as it has made one.
Startup == pc["main"] = "boot" /\ \E s \in SettingsChoices : Configure(s)

--------------------------------------------------------------------------------
(***************************************************************************)
(* The scheduler thread: _scheduler and process_due_retries.  Its wait of   *)
(* scheduler_interval is the time it spends at "top".                       *)
(***************************************************************************)
SchedTop ==
    /\ Goto("sched", "top", IF stop THEN "done" ELSE "settings")
    /\ UNCHANGED <<store, conf, life, jobs, job, tk, retry, work, ghost, bounds>>

SchedSettings ==
    /\ Goto("sched", "settings", IF settings.later THEN "query" ELSE "top")
    /\ seen' = settings
    /\ UNCHANGED <<store, conf, life, jobs, job, tk, snap, work, ghost, bounds>>

SchedQuery ==
    /\ Goto("sched", "query", "loop")
    /\ snap' = due_retries(db, Limit)
    /\ UNCHANGED <<store, conf, life, jobs, job, tk, seen, work, ghost, bounds>>

\* The loop looks at the records it has read, not at the table.
Oldest(r) == r \in snap /\ \A q \in snap : r.id <= q.id

Usable(r) == r.provider \in WEBHOOK_PROVIDERS \intersect seen.enabled
GivenUp(r) == r.provider \notin WEBHOOK_PROVIDERS \/ (Usable(r) /\ r.delayed >= MaxDelayed)

SchedLoopEnd ==
    /\ snap = {}
    /\ Goto("sched", "loop", "top")
    /\ UNCHANGED <<store, conf, life, jobs, job, tk, retry, work, ghost, bounds>>

SchedGiveUp(r) ==
    /\ Oldest(r) /\ GivenUp(r)
    /\ Goto("sched", "loop", "loop")
    /\ Write(mark_failed(db, r.id))
    /\ snap' = snap \ {r}
    /\ UNCHANGED <<nextId, conf, life, jobs, job, tk, seen, work, ghost, bounds>>

\* A disabled provider: the row waits.
SchedSkip(r) ==
    /\ Oldest(r) /\ ~GivenUp(r) /\ ~Usable(r)
    /\ Goto("sched", "loop", "loop")
    /\ snap' = snap \ {r}
    /\ UNCHANGED <<store, conf, life, jobs, job, tk, seen, work, ghost, bounds>>

SchedPut(r) ==
    /\ Oldest(r) /\ ~GivenUp(r) /\ Usable(r)
    /\ Goto("sched", "loop", "check")
    /\ job' = [job EXCEPT !["sched"] = Job(r.id, r.provider, TRUE, FALSE)]
    /\ snap' = snap \ {r}
    /\ UNCHANGED <<store, conf, life, jobs, tk, seen, work, ghost, bounds>>

SchedStep ==
    \/ SchedTop \/ SchedSettings \/ SchedQuery \/ SchedLoopEnd \/ PutJob("sched")
    \/ \E r \in snap : SchedGiveUp(r) \/ SchedSkip(r) \/ SchedPut(r)

--------------------------------------------------------------------------------
(***************************************************************************)
(* The worker thread: _worker, _deliver_job, _finish_failure.               *)
(***************************************************************************)
WorkerGet ==
    /\ queue # << >>
    /\ Goto("worker", "get", IF Head(queue) = Poison THEN "done" ELSE "start")
    /\ job' = [job EXCEPT !["worker"] = Head(queue)]
    /\ queue' = Tail(queue)
    /\ attempt' = 0
    /\ UNCHANGED <<store, conf, life, active, tk, retry, result, ghost, bounds>>

\* The one look at the settings a delivery takes before its first attempt.
WorkerStart ==
    LET j == job["worker"]
        disabled == Durable(j) /\ (j.delayed \/ j.manual) /\ j.provider \notin settings.enabled
    IN  /\ Goto("worker", "start",
                CASE disabled /\ j.manual -> "fail"
                  [] disabled /\ ~j.manual -> "release"
                  [] ~disabled /\ j.delayed -> "begin"
                  [] OTHER -> "attempt")
        /\ UNCHANGED <<store, conf, life, jobs, job, tk, retry, work, ghost, bounds>>

WorkerBegin ==
    /\ Goto("worker", "begin", "attempt")
    /\ Write(begin_delayed_retry(db, job["worker"].id))
    /\ UNCHANGED <<nextId, conf, life, jobs, job, tk, retry, work, ghost, bounds>>

IfDurable(label) == IF Durable(job["worker"]) THEN label ELSE "release"

\* Variants: the stop event is not looked at, or ends the job with its row as it is.
WorkerAttemptsOn ==
    /\ Goto("worker", "attempt", IF Durable(job["worker"]) THEN "record" ELSE "send")
    /\ UNCHANGED <<store, conf, life, jobs, job, tk, retry, work, ghost, bounds>>

WorkerAbandons ==
    /\ Goto("worker", "attempt",
            IF stop THEN "release" ELSE IF Durable(job["worker"]) THEN "record" ELSE "send")
    /\ UNCHANGED <<store, conf, life, jobs, job, tk, retry, work, ghost, bounds>>

WorkerAttempt ==
    /\ Goto("worker", "attempt",
            IF stop THEN IfDurable("preserve")
            ELSE IF Durable(job["worker"]) THEN "record" ELSE "send")
    /\ UNCHANGED <<store, conf, life, jobs, job, tk, retry, work, ghost, bounds>>

WorkerRecord ==
    /\ Goto("worker", "record", "send")
    /\ Write(record_attempt(db, job["worker"].id))
    /\ UNCHANGED <<nextId, conf, life, jobs, job, tk, retry, work, ghost, bounds>>

\* Variants: every attempt is used; a rejected request passes for delivered.
AfterAnyAttempt(j, r) ==
    IF attempt + 1 < TotalAttempts(j.provider) THEN "pause"
    ELSE IfDurable(IF r = "ok" THEN "delivered" ELSE "decide")

AfterAnswer(j, r) ==
    CASE r \in {"ok", "rejected"} -> IfDurable("delivered")
      [] RetryNow(r) /\ attempt + 1 < TotalAttempts(j.provider) -> "pause"
      [] OTHER -> IfDurable("decide")

\* What an attempt leads to: success ends the job, so does a failure that is not
\* retried, and in between the worker waits.
AfterAttempt(j, r) ==
    CASE r = "ok" -> IfDurable("delivered")
      [] RetryNow(r) /\ attempt + 1 < TotalAttempts(j.provider) -> "pause"
      [] OTHER -> IfDurable("decide")

\* provider.deliver() returns r.
WorkerSend(r) ==
    LET j == job["worker"]
    IN  /\ r \in Outcomes(j.provider)
        /\ Goto("worker", "send", AfterAttempt(j, r))
        /\ result' = r
        /\ sends' = [i \in Ids |-> sends[i] + IF i = j.id THEN 1 ELSE 0]
        /\ accepted' = [i \in Ids |-> accepted[i] + IF i = j.id /\ r = "ok" THEN 1 ELSE 0]
        /\ late' = IF stop THEN late + 1 ELSE late
        /\ UNCHANGED <<store, conf, life, jobs, job, tk, retry, attempt, bounds>>

\* _stop_event.wait(delay) between two immediate attempts.
WorkerPause ==
    /\ Goto("worker", "pause", IF stop THEN IfDurable("preserve") ELSE "attempt")
    /\ attempt' = attempt + 1
    /\ UNCHANGED <<store, conf, life, jobs, job, tk, retry, result, ghost, bounds>>

WorkerDelivered ==
    /\ Goto("worker", "delivered", "release")
    /\ Write(mark_delivered(db, job["worker"].id))
    /\ UNCHANGED <<nextId, conf, life, jobs, job, tk, retry, work, ghost, bounds>>

\* may_delay in _finish_failure
MayDelay(j, row) ==
    /\ ~j.manual /\ settings.later /\ RetryLater(result)
    /\ j.provider \in WEBHOOK_PROVIDERS
    /\ row.status # "ABSENT" /\ row.delayed < MaxDelayed

WorkerDecide ==
    LET j == job["worker"]
    IN  /\ Goto("worker", "decide", IF MayDelay(j, db[j.id]) THEN "schedule" ELSE "fail")
        /\ UNCHANGED <<store, conf, life, jobs, job, tk, retry, work, ghost, bounds>>

WorkerSchedule ==
    /\ Goto("worker", "schedule", "release")
    /\ Write(schedule_retry(db, job["worker"].id, "later"))
    /\ UNCHANGED <<nextId, conf, life, jobs, job, tk, retry, work, ghost, bounds>>

WorkerFail ==
    /\ Goto("worker", "fail", "release")
    /\ Write(mark_failed(db, job["worker"].id))
    /\ UNCHANGED <<nextId, conf, life, jobs, job, tk, retry, work, ghost, bounds>>

WorkerPreserve ==
    /\ Goto("worker", "preserve", "release")
    /\ Write(preserve_interrupted(job["worker"]))
    /\ UNCHANGED <<nextId, conf, life, jobs, job, tk, retry, work, ghost, bounds>>

\* The finally clause of _worker.
WorkerRelease ==
    /\ Goto("worker", "release", "get")
    /\ active' = active \ {job["worker"].id}
    /\ UNCHANGED <<store, conf, life, queue, job, tk, retry, work, ghost, bounds>>

WorkerStep ==
    \/ WorkerGet \/ WorkerStart \/ WorkerBegin \/ WorkerAttempt \/ WorkerRecord
    \/ \E r \in Results : WorkerSend(r)
    \/ WorkerPause \/ WorkerDelivered \/ WorkerDecide \/ WorkerSchedule
    \/ WorkerFail \/ WorkerPreserve \/ WorkerRelease

--------------------------------------------------------------------------------
\* The clock reaches next_retry_at.
Due(i) ==
    /\ db[i].next = "later"
    /\ db' = [db EXCEPT ![i].next = "now"]
    /\ UNCHANGED <<nextId, failures, conf, life, jobs, pc, job, tk, retry, work, ghost, bounds>>

\* The process ends, after shutdown() or killed at any step, and starts again
\* on the table it left.
Restart ==
    /\ crashes < MaxCrashes /\ crashes' = crashes + 1
    /\ settings' = DefaultSettings /\ recovered' = FALSE
    /\ accepting' = TRUE /\ stop' = FALSE
    /\ queue' = << >> /\ active' = {}
    /\ pc' = [t \in Threads |-> Entry(t)]
    /\ job' = [t \in Threads |-> Poison]
    /\ todo' = << >> /\ seen' = DefaultSettings /\ snap' = {}
    /\ attempt' = 0 /\ result' = "ok" /\ late' = 0
    /\ UNCHANGED <<store, sends, accepted, manuals, tests>>

\* After shutdown() nothing is left to do once both threads have returned.
Stopped ==
    /\ pc["main"] = "gone" /\ pc["worker"] = "done" /\ pc["sched"] = "done"
    /\ UNCHANGED vars

Next == MainStep \/ User \/ SchedStep \/ WorkerStep \/ (\E i \in Ids : Due(i))
        \/ Restart \/ Stopped

Spec == Init /\ [][Next]_vars

(***************************************************************************)
(* The threads are scheduled by the operating system, deliver() returns     *)
(* within its timeout, and time passes; what the user does is up to him.    *)
(***************************************************************************)
Fairness == /\ WF_vars(Startup) /\ WF_vars(MainStep)
            /\ WF_vars(SchedStep) /\ WF_vars(WorkerStep)
            /\ \A i \in Ids : WF_vars(Due(i))

FairSpec == Spec /\ Fairness

--------------------------------------------------------------------------------
(***************************************************************************)
(* Properties.                                                              *)
(***************************************************************************)
PutPCs == {"check", "claim", "push", "undo"}
MainPCs == PutPCs \union
           {"boot", "idle", "recover", "insert", "refuse", "requeue", "stopping",
            "drain", "save", "unclaim", "poison", "gone"}
SchedPCs == PutPCs \union {"top", "settings", "query", "loop", "done"}
WorkerPCs == {"get", "start", "begin", "attempt", "record", "send", "pause", "delivered",
              "decide", "schedule", "fail", "preserve", "release", "done"}

PCs(t) == IF t = "main" THEN MainPCs ELSE IF t = "sched" THEN SchedPCs ELSE WorkerPCs

\* Every variable keeps its type: the table is a table of rows, a thread is at
\* one of its own program points, and the queue never exceeds its capacity.
TypeOK ==
    /\ db \in [Ids -> Rows] /\ nextId \in 1 .. MaxId + 1
    /\ settings \in SettingsRecords /\ recovered \in BOOLEAN
    /\ accepting \in BOOLEAN /\ stop \in BOOLEAN
    /\ queue \in Seq(Jobs) /\ Len(queue) <= MaxQueue
    /\ active \subseteq Ids
    /\ pc \in [Threads -> MainPCs \union SchedPCs \union WorkerPCs]
    /\ \A t \in Threads : pc[t] \in PCs(t)
    /\ job \in [Threads -> Jobs]
    /\ todo \in Seq(Providers)
    /\ seen \in SettingsRecords /\ snap \subseteq DueRecords
    /\ attempt \in Nat /\ result \in Results
    /\ sends \in [Ids -> Nat] /\ accepted \in [Ids -> Nat] /\ late \in Nat
    /\ failures \in Nat /\ manuals \in Nat /\ tests \in Nat /\ crashes \in Nat

\* Only a row's job is retried, claimed and written about: what a thread at one
\* of these points takes for granted of its job, and insert of todo and nextId.
DurablePoints(t) ==
    IF t = "main" THEN {"requeue", "refuse", "claim", "undo", "save", "unclaim"}
    ELSE IF t = "sched" THEN {"claim", "undo"}
    ELSE {"begin", "record", "delivered", "decide", "schedule", "fail", "preserve"}

RetriesAreDurable(j) == j.delayed \/ j.manual => Durable(j)

ControlOK ==
    /\ \A t \in Threads : pc[t] \in DurablePoints(t) => Durable(job[t])
    /\ \A t \in Threads : RetriesAreDurable(job[t])
    /\ \A k \in 1 .. Len(queue) : RetriesAreDurable(queue[k])
    /\ pc["main"] = "insert" => todo # << >>
    /\ nextId + Len(todo) <= MaxId + 1

\* A thread holds its job from the claim of the id to its release.
Holding(t) ==
    \/ pc[t] \in {"push", "undo"}
    \/ t = "main" /\ pc[t] \in {"save", "unclaim"}
    \/ t = "worker" /\ pc[t] \notin {"get", "done"}

\* "One in-process delivery ID must map to at most one live job" (_put_job):
\* no row has two jobs among those queued and those a thread is holding, and an
\* id is active exactly as long as its one live job exists.
Live(i) == \/ \E k \in 1 .. Len(queue) : queue[k].id = i
           \/ \E t \in Threads : Holding(t) /\ job[t].id = i

OneLiveJob ==
    /\ \A k, l \in 1 .. Len(queue) : k # l /\ queue[k].id = queue[l].id => ~Durable(queue[k])
    /\ \A t \in Threads : Holding(t) /\ Durable(job[t]) =>
            /\ \A k \in 1 .. Len(queue) : queue[k].id # job[t].id
            /\ \A u \in Threads : u # t /\ Holding(u) => job[u].id # job[t].id
    /\ \A i \in Ids : i \in active <=> Live(i)

\* A row is never left QUEUED with nobody to move it: from the repair at startup
\* on, every QUEUED row has a live job or is in the hands of the Tk thread
\* (enqueue and retry_selected, between their write and the claim in _put_job).  A refused
\* write may leave the row of a job that has ended as it was.
QueuedIsLive ==
    recovered /\ failures = 0 => \A i \in WithStatus(db, {"QUEUED"}) :
        Live(i) \/ (pc["main"] \in {"check", "claim", "refuse"} /\ job["main"].id = i)

\* shutdown() "preserves queued durable work": when it is over and the worker
\* has returned, every row is either settled or due for a retry after restart.
GracefulShutdown ==
    pc["main"] = "gone" /\ pc["worker"] = "done" => WithStatus(db, {"QUEUED"}) = {}

\* After the stop event at most the one attempt under way reaches the endpoint.
StopQuiesces == late <= 1

\* A row says DELIVERED only if the endpoint accepted it.
DeliveredWasAccepted ==
    \A i \in WithStatus(db, {"DELIVERED"}) : accepted[i] > 0

\* One transition sends one notification (README, External Notifications): an
\* endpoint accepts a row at most once.
AtMostOnce == \A i \in Ids : accepted[i] <= 1

\* "Every real attempt increments the same record" (README, Notification
\* History): attempt_count is never behind what the endpoint has seen, and
\* without manual retries that is at most the initial burst and MaxDelayed more
\* ("at most three delayed cycles"), each of Retries + 1, whatever was not recorded.
AttemptsCounted ==
    /\ failures = 0 => \A i \in WithStatus(db, AnyStatus) : sends[i] <= db[i].attempts
    /\ manuals = 0 => \A i \in Ids : sends[i] <= (Retries + 1) * (MaxDelayed + 1)

\* "QUEUED and RETRYING rows are never pruned" (README): whichever write makes
\* room in the history, only the row it settles can leave the table unseen.
Settling ==
    {job[t].id : t \in {u \in Threads :
        pc[u] \in {"delivered", "fail", "preserve", "save", "refuse"}}}
    \union {r.id : r \in {q \in snap : pc["sched"] = "loop"}}

OpenRowsSurvive ==
    [][\A i \in Ids \ Settling :
        db[i].status \in OPEN_STATUSES => db'[i].status # "ABSENT"]_vars

\* Clear History "never changes active deliveries" (README): it leaves alone the
\* row of a job the worker has not yet brought to an outcome, unless a write that should
\* have made the row QUEUED again was refused.
ClearSparesActive ==
    [][failures = 0 /\ ClearHistory /\ pc["worker"] \in {"attempt", "record", "send", "pause"} =>
        \A i \in Ids : job["worker"].id = i => db'[i] = db[i]]_vars

\* Every QUEUED row is eventually settled or put aside for a retry.
QueuedSettles == \A i \in Ids : db[i].status = "QUEUED" ~> db[i].status # "QUEUED"

\* "Pending retries survive restart ..., are processed oldest-event-first through the
\* existing bounded worker, and use the provider's current configuration" (README): a row
\* waiting for a retry of a provider that stays enabled is eventually settled, unless the
\* process stops.
Waiting(i) == /\ db[i].status = "RETRYING" /\ settings.later
              /\ db[i].provider \in settings.enabled
RetryingSettles == \A i \in Ids : Waiting(i) ~> ~Waiting(i) \/ stop

\* What the code keeps of it: a row is settled while fewer than Limit older ones wait for a
\* provider that is not enabled.  Records the scheduler reads only to pass them over do not
\* hide it from the query, and stale settings and stale records do not keep it waiting.
Hidden(i) ==
    Limit <= Cardinality({j \in Ids : /\ j < i /\ db[j].status = "RETRYING"
                                     /\ db[j].provider \notin settings.enabled})
UnhiddenSettles ==
    \A i \in Ids : Waiting(i) /\ ~Hidden(i) ~> ~Waiting(i) \/ Hidden(i) \/ stop

\* shutdown() brings both threads to an end, unless the process ends first.
ShutdownCompletes == stop ~> (pc["worker"] = "done" /\ pc["sched"] = "done") \/ ~stop

--------------------------------------------------------------------------------
(***************************************************************************)
(* The manager implements DeliveryLedger: what a thread has read in order   *)
(* to work on it, and every live job, is a claim.                           *)
(***************************************************************************)
InHand(t) ==
    \/ Holding(t)
    \/ pc[t] \in {"check", "claim"}
    \/ t = "main" /\ pc[t] \in {"requeue", "refuse"}

Claimed == {i \in Ids : \/ \E r \in snap : r.id = i
                        \/ \E k \in 1 .. Len(queue) : queue[k].id = i
                        \/ \E t \in Threads : InHand(t) /\ job[t].id = i}

Ledger == INSTANCE DeliveryLedger WITH
              status <- [i \in Ids |-> db[i].status], claims <- Claimed, fresh <- nextId

\* Every step of the manager is a step of the ledger, or none.
ImplementsLedger == Ledger!LSpec
================================================================================
