----------------------- MODULE NotificationManagerProofs -----------------------
(***************************************************************************)
(* Theorems about NotificationManager, for every value of its constants:    *)
(* every variable keeps its type, an id never has two live jobs, and the    *)
(* stop event ends the attempts.                                            *)
(*                                                                          *)
(* A live job is in the queue or in the hands of one thread.  Hands says    *)
(* which id each thread holds; a step of the manager changes the queue, the *)
(* hands and the active ids in one of five ways, each of which keeps them   *)
(* apart (the lemmas about Apart), and most steps change none of them.      *)
(***************************************************************************)
EXTENDS NotificationManager, TLAPS

\* Every statement run against the table leaves it a table of rows.
LEMMA PruneType ==
    ASSUME NEW t \in [Ids -> Rows]
    PROVE  prune_terminal(t) \in [Ids -> Rows]
  BY DEF prune_terminal, Rows, AbsentRow, Statuses

LEMMA UpdateType ==
    ASSUME NEW t \in [Ids -> Rows], NEW i \in Ids, NEW S, NEW row \in Rows
    PROVE  Update(t, i, S, row) \in [Ids -> Rows]
  BY DEF Update

LEMMA StatementTypes ==
    ASSUME NEW t \in [Ids -> Rows], NEW i \in Ids
    PROVE  /\ record_attempt(t, i) \in [Ids -> Rows]
           /\ mark_delivered(t, i) \in [Ids -> Rows]
           /\ mark_failed(t, i) \in [Ids -> Rows]
           /\ \A w \in {"none", "later", "now"} : schedule_retry(t, i, w) \in [Ids -> Rows]
           /\ begin_delayed_retry(t, i) \in [Ids -> Rows]
           /\ mark_queued(t, i) \in [Ids -> Rows]
           /\ \A p \in Providers : insert_delivery(t, i, p) \in [Ids -> Rows]
<1>0. t[i] \in Rows
  OBVIOUS
<1>1. record_attempt(t, i) \in [Ids -> Rows]
  <2>1. [t[i] EXCEPT !.attempts = @ + 1] \in Rows
    BY <1>0 DEF Rows
  <2> QED BY <2>1, UpdateType DEF record_attempt
<1>2. mark_delivered(t, i) \in [Ids -> Rows]
  <2>1. [t[i] EXCEPT !.status = "DELIVERED", !.next = "none"] \in Rows
    BY <1>0 DEF Rows, Statuses, TERMINAL_STATUSES
  <2> QED BY <2>1, UpdateType, PruneType DEF mark_delivered
<1>3. mark_failed(t, i) \in [Ids -> Rows]
  <2>1. [t[i] EXCEPT !.status = "FAILED", !.next = "none"] \in Rows
    BY <1>0 DEF Rows, Statuses, TERMINAL_STATUSES
  <2> QED BY <2>1, UpdateType, PruneType DEF mark_failed
<1>4. \A w \in {"none", "later", "now"} : schedule_retry(t, i, w) \in [Ids -> Rows]
  <2> TAKE w \in {"none", "later", "now"}
  <2>1. [t[i] EXCEPT !.status = "RETRYING", !.next = w] \in Rows
    BY <1>0 DEF Rows, Statuses, OPEN_STATUSES
  <2> QED BY <2>1, UpdateType DEF schedule_retry
<1>5. begin_delayed_retry(t, i) \in [Ids -> Rows]
  <2>1. [t[i] EXCEPT !.delayed = @ + 1] \in Rows
    BY <1>0 DEF Rows
  <2> QED BY <2>1, UpdateType DEF begin_delayed_retry
<1>6. mark_queued(t, i) \in [Ids -> Rows]
  <2>1. [t[i] EXCEPT !.status = "QUEUED", !.next = "none"] \in Rows
    BY <1>0 DEF Rows, Statuses, OPEN_STATUSES
  <2> QED BY <2>1, UpdateType DEF mark_queued
<1>7. \A p \in Providers : insert_delivery(t, i, p) \in [Ids -> Rows]
  <2> TAKE p \in Providers
  <2>1. [AbsentRow EXCEPT !.status = "QUEUED", !.provider = p] \in Rows
    BY DEF AbsentRow, Rows, Statuses, OPEN_STATUSES
  <2>2. [t EXCEPT ![i] = [AbsentRow EXCEPT !.status = "QUEUED", !.provider = p]] \in [Ids -> Rows]
    BY <2>1
  <2> QED BY <2>2, PruneType DEF insert_delivery
<1> QED BY <1>1, <1>2, <1>3, <1>4, <1>5, <1>6, <1>7

LEMMA TableTypes ==
    ASSUME NEW t \in [Ids -> Rows]
    PROVE  /\ EmptyTable \in [Ids -> Rows]
           /\ clear_terminal(t) \in [Ids -> Rows]
           /\ \A later \in BOOLEAN : recover_interrupted(t, later) \in [Ids -> Rows]
           /\ \A limit : due_retries(t, limit) \subseteq DueRecords
<1>1. AbsentRow \in Rows
  BY DEF AbsentRow, Rows, Statuses
<1>2. EmptyTable \in [Ids -> Rows] /\ clear_terminal(t) \in [Ids -> Rows]
  BY <1>1 DEF EmptyTable, clear_terminal
<1>3. \A later \in BOOLEAN : recover_interrupted(t, later) \in [Ids -> Rows]
  BY DEF recover_interrupted, Rows, Statuses, OPEN_STATUSES, TERMINAL_STATUSES
<1>4. \A limit : due_retries(t, limit) \subseteq DueRecords
  <2> TAKE limit
  <2> DEFINE record(i) == [id |-> i, provider |-> t[i].provider, delayed |-> t[i].delayed]
  <2>1. \A i \in Ids : record(i) \in DueRecords
    BY DEF DueRecords, Rows
  <2>2. \A r \in due_retries(t, limit) : \E i \in Ids : r = record(i)
    BY DEF due_retries
  <2> QED BY <2>1, <2>2
<1> QED BY <1>2, <1>3, <1>4

--------------------------------------------------------------------------------
(***************************************************************************)
(* TypeOK is not inductive by itself: a step that writes about job[t].id    *)
(* needs it to be a row, and Insert needs a provider to insert for and an   *)
(* id to give.  ControlOK says so; the two are preserved together.          *)
(***************************************************************************)
WellTyped == TypeOK /\ ControlOK

\* What a Goto does to the program counters.
Moved(t, from, to) ==
    /\ pc[t] = from /\ pc'[t] = to
    /\ \A u \in Threads : u # t => pc'[u] = pc[u]
    /\ pc' \in [Threads -> MainPCs \union SchedPCs \union WorkerPCs]
    /\ \A u \in Threads : pc'[u] \in PCs(u)

LEMMA GotoMoves ==
    ASSUME TypeOK, NEW t \in Threads, NEW from, NEW to \in PCs(t), Goto(t, from, to)
    PROVE  Moved(t, from, to)
<1>1. to \in MainPCs \union SchedPCs \union WorkerPCs
  BY DEF PCs
<1> QED BY <1>1 DEF TypeOK, Goto, Moved

\* Both ends of a queue.
LEMMA AppendFacts ==
    ASSUME NEW S, NEW q \in Seq(S), NEW e \in S, NEW r, r = Append(q, e)
    PROVE  /\ r \in Seq(S) /\ Len(r) = Len(q) + 1 /\ Len(q) \in Nat
           /\ \A k \in 1 .. Len(q) : r[k] = q[k]
           /\ r[Len(q) + 1] = e
  OBVIOUS

LEMMA TailFacts ==
    ASSUME NEW S, NEW q \in Seq(S), q # << >>, NEW h, h = Head(q), NEW r, r = Tail(q)
    PROVE  /\ h = q[1] /\ h \in S /\ 1 \in 1 .. Len(q)
           /\ r \in Seq(S) /\ Len(q) = Len(r) + 1 /\ Len(r) \in Nat
           /\ \A k \in 1 .. Len(r) : k + 1 \in 1 .. Len(q) /\ r[k] = q[k + 1]
  OBVIOUS

LEMMA PoisonJob == Poison \in Jobs /\ Poison.delayed = FALSE /\ Poison.manual = FALSE
  BY DEF Poison, Job, Jobs

LEMMA WellTypedInit == Init => WellTyped
<1> SUFFICES ASSUME Init PROVE WellTyped
  OBVIOUS
<1>1. EmptyTable \in [Ids -> Rows]
  BY DEF EmptyTable, AbsentRow, Rows, Statuses
<1>2. [t \in Threads |-> Poison] \in [Threads -> Jobs]
  BY PoisonJob
<1>3. DefaultSettings \in SettingsRecords
  BY DEF DefaultSettings, SettingsRecords
<1>4. /\ pc \in [Threads -> MainPCs \union SchedPCs \union WorkerPCs]
      /\ \A t \in Threads : pc[t] \in PCs(t)
  BY DEF Init, Entry, PCs, MainPCs, SchedPCs, WorkerPCs, Threads
<1>5. /\ nextId \in 1 .. MaxId + 1 /\ active \subseteq Ids /\ snap \subseteq DueRecords
      /\ result \in Results
  BY TableAssumption DEF Init, Results
<1>10. recovered \in BOOLEAN /\ accepting \in BOOLEAN /\ stop \in BOOLEAN
  BY DEF Init
<1>6. /\ sends \in [Ids -> Nat] /\ accepted \in [Ids -> Nat] /\ attempt \in Nat /\ late \in Nat
      /\ failures \in Nat /\ manuals \in Nat /\ tests \in Nat /\ crashes \in Nat
  BY DEF Init
<1>7. queue \in Seq(Jobs) /\ Len(queue) <= MaxQueue /\ todo \in Seq(Providers)
  BY ManagerAssumption DEF Init
<1>8. TypeOK
  BY <1>1, <1>2, <1>3, <1>4, <1>5, <1>6, <1>7, <1>10 DEF Init, TypeOK
<1>9. ControlOK
  BY TableAssumption
     DEF Init, ControlOK, Entry, DurablePoints, Threads, RetriesAreDurable, Durable, Job,
         Poison, TestId
<1> QED BY <1>8, <1>9 DEF WellTyped

\* Jobs move through the queue unchanged.
QueueOK(q) == /\ q \in Seq(Jobs) /\ Len(q) <= MaxQueue
              /\ \A k \in 1 .. Len(q) : RetriesAreDurable(q[k])

LEMMA PutLast ==
    ASSUME WellTyped, NEW j \in Jobs, RetriesAreDurable(j),
           NEW q, q = queue \/ (q = Append(queue, j) /\ Len(queue) < MaxQueue)
    PROVE  QueueOK(q)
<1>1. CASE q = queue
  BY <1>1 DEF WellTyped, TypeOK, ControlOK, QueueOK
<1>2. CASE q = Append(queue, j) /\ Len(queue) < MaxQueue
  <2>1. /\ q \in Seq(Jobs) /\ Len(q) = Len(queue) + 1 /\ Len(queue) \in Nat
        /\ \A k \in 1 .. Len(queue) : q[k] = queue[k]
        /\ q[Len(queue) + 1] = j
    BY <1>2, AppendFacts DEF WellTyped, TypeOK
  <2>2. Len(q) <= MaxQueue
    BY <1>2, <2>1, ManagerAssumption
  <2> QED BY <2>1, <2>2 DEF WellTyped, ControlOK, QueueOK
<1> QED BY <1>1, <1>2

LEMMA TakeFirst ==
    ASSUME WellTyped, queue # << >>, NEW j, j = Head(queue), NEW q, q = Tail(queue)
    PROVE  j \in Jobs /\ RetriesAreDurable(j) /\ QueueOK(q)
<1>1. /\ j = queue[1] /\ j \in Jobs /\ 1 \in 1 .. Len(queue)
      /\ q \in Seq(Jobs) /\ Len(queue) = Len(q) + 1 /\ Len(q) \in Nat
      /\ \A k \in 1 .. Len(q) : k + 1 \in 1 .. Len(queue) /\ q[k] = queue[k + 1]
  BY TailFacts DEF WellTyped, TypeOK
<1>2. Len(q) <= MaxQueue
  BY <1>1, ManagerAssumption DEF WellTyped, TypeOK
<1> QED BY <1>1, <1>2 DEF WellTyped, ControlOK, QueueOK

LEMMA NextProvider ==
    ASSUME WellTyped, pc["main"] = "insert", NEW p, p = Head(todo), NEW q, q = Tail(todo)
    PROVE  /\ p \in Providers /\ q \in Seq(Providers)
           /\ nextId \in Ids /\ nextId + 1 \in 1 .. MaxId + 1
           /\ nextId + 1 + Len(q) <= MaxId + 1 /\ nextId + Len(q) <= MaxId + 1
<1>1. p \in Providers /\ q \in Seq(Providers) /\ Len(todo) = Len(q) + 1 /\ Len(q) \in Nat
  BY TailFacts DEF WellTyped, TypeOK, ControlOK
<1> QED BY <1>1, TableAssumption DEF WellTyped, TypeOK, ControlOK, Ids

LEMMA WellTypedPutJob ==
    ASSUME WellTyped, NEW t \in {"main", "sched"}, PutJob(t)
    PROVE  WellTyped'
<1>0. t \in Threads /\ Returned(t) \in PCs(t) /\ Refused(t) \in PCs(t)
      /\ {"claim", "push", "undo"} \subseteq PCs(t)
  BY DEF Threads, Returned, Refused, PCs, MainPCs, SchedPCs, PutPCs
<1>1. CASE PutCheck(t)
  <2>1. Moved(t, "check", (IF ~accepting THEN Refused(t)
                           ELSE IF Durable(job[t]) THEN "claim" ELSE "push"))
    BY <1>1, GotoMoves, <1>0 DEF WellTyped, PutCheck, Threads, PCs
  <2>2. TypeOK'
    BY <1>1, <2>1
       DEF WellTyped, TypeOK, Moved, PutCheck, store, conf, life, jobs, tk, retry, work, ghost,
           bounds, Jobs, Durable, DurablePoints, ControlOK
  <2>3. ControlOK'
    BY <1>1, <2>1
       DEF WellTyped, TypeOK, Moved, ControlOK, DurablePoints, Durable, RetriesAreDurable,
           Threads, PutCheck,
           store, conf, life, jobs, tk, retry, work, ghost, bounds, Refused, Returned, Jobs
  <2> QED BY <2>2, <2>3 DEF WellTyped
<1>2. CASE PutClaim(t)
  <2>1. Moved(t, "claim", (IF job[t].id \in active THEN Refused(t) ELSE "push"))
    BY <1>2, GotoMoves, <1>0 DEF WellTyped, PutClaim, Threads, PCs
  <2>2. TypeOK'
    BY <1>2, <2>1
       DEF WellTyped, TypeOK, Moved, PutClaim, store, conf, life, jobs, tk, retry, work, ghost,
           bounds, Jobs, Durable, DurablePoints, ControlOK
  <2>3. ControlOK'
    BY <1>2, <2>1
       DEF WellTyped, TypeOK, Moved, ControlOK, DurablePoints, Durable, RetriesAreDurable,
           Threads, PutClaim,
           store, conf, life, jobs, tk, retry, work, ghost, bounds, Refused, Returned, Jobs
  <2> QED BY <2>2, <2>3 DEF WellTyped
<1>3. CASE PutPush(t)
  <2>1. Moved(t, "push", IF Len(queue) < MaxQueue THEN Returned(t)
                         ELSE IF Durable(job[t]) THEN "undo" ELSE Refused(t))
    BY <1>0, <1>3, GotoMoves DEF WellTyped, PutPush
  <2>2. QueueOK(queue')
    <3>1. queue' = queue \/ (queue' = Append(queue, job[t]) /\ Len(queue) < MaxQueue)
      BY <1>3 DEF PutPush
    <3>2. job[t] \in Jobs /\ RetriesAreDurable(job[t])
      BY <1>0 DEF WellTyped, TypeOK, ControlOK
    <3> QED BY <3>1, <3>2, PutLast
  <2>3. TypeOK'
    BY <1>3, <2>1, <2>2
       DEF WellTyped, TypeOK, Moved, PutPush, QueueOK, store, conf, life, jobs, tk, retry, work,
           ghost, bounds
  <2>4. ControlOK'
    BY <1>0, <1>3, <2>1, <2>2
       DEF WellTyped, TypeOK, Moved, ControlOK, DurablePoints, Durable, RetriesAreDurable,
           Threads, PutPush, QueueOK,
           store, conf, life, jobs, tk, retry, work, ghost, bounds, Refused, Returned
  <2> QED BY <2>3, <2>4 DEF WellTyped
<1>4. CASE PutUndo(t)
  <2>1. Moved(t, "undo", Refused(t))
    BY <1>4, GotoMoves, <1>0 DEF WellTyped, PutUndo, Threads, PCs
  <2>2. TypeOK'
    BY <1>4, <2>1
       DEF WellTyped, TypeOK, Moved, PutUndo, store, conf, life, jobs, tk, retry, work, ghost,
           bounds, Jobs, Durable, DurablePoints, ControlOK
  <2>3. ControlOK'
    BY <1>4, <2>1
       DEF WellTyped, TypeOK, Moved, ControlOK, DurablePoints, Durable, RetriesAreDurable,
           Threads, PutUndo,
           store, conf, life, jobs, tk, retry, work, ghost, bounds, Refused, Returned, Jobs
  <2> QED BY <2>2, <2>3 DEF WellTyped
<1> QED BY <1>1, <1>2, <1>3, <1>4 DEF PutJob

\* The row of a job at a point that writes about it.
LEMMA DurableJob ==
    ASSUME WellTyped, NEW t \in Threads, pc[t] \in DurablePoints(t)
    PROVE  job[t].id \in Ids
  BY DEF WellTyped, TypeOK, ControlOK, Durable, Jobs

LEMMA JobWrites ==
    ASSUME WellTyped, NEW t \in Threads, pc[t] \in DurablePoints(t)
    PROVE  LET i == job[t].id IN
           /\ record_attempt(db, i) \in [Ids -> Rows]
           /\ mark_delivered(db, i) \in [Ids -> Rows]
           /\ mark_failed(db, i) \in [Ids -> Rows]
           /\ \A w \in {"none", "later", "now"} : schedule_retry(db, i, w) \in [Ids -> Rows]
           /\ begin_delayed_retry(db, i) \in [Ids -> Rows]
           /\ mark_queued(db, i) \in [Ids -> Rows]
           /\ preserve_interrupted(job[t]) \in [Ids -> Rows]
<1>1. db \in [Ids -> Rows] /\ job[t].id \in Ids
  BY DurableJob DEF WellTyped, TypeOK
<1> QED BY <1>1, StatementTypes DEF preserve_interrupted

LEMMA WellTypedMain ==
    ASSUME WellTyped, MainStep
    PROVE  WellTyped'
<1>1. CASE Recover
  <2>1. Moved("main", "recover", "idle")
    BY <1>1, GotoMoves DEF WellTyped, Recover, Threads, PCs, MainPCs, PutPCs
  <2>a. recover_interrupted(db, settings.later) \in [Ids -> Rows]
    BY TableTypes DEF WellTyped, TypeOK, SettingsRecords
  <2>b. recovered' \in BOOLEAN
    BY <1>1 DEF Recover
  <2>2. TypeOK'
    BY <1>1, <2>1, <2>a, <2>b
       DEF WellTyped, TypeOK, Moved, Recover, store, conf, life, jobs, tk, retry, work, ghost,
           bounds, Write, Fails
  <2>3. ControlOK'
    BY <1>1, <2>1
       DEF WellTyped, TypeOK, Moved, ControlOK, DurablePoints, Durable, RetriesAreDurable,
           Threads, Recover,
           store, conf, life, jobs, tk, retry, work, ghost, bounds
  <2> QED BY <2>2, <2>3 DEF WellTyped
<1>2. CASE Insert
  <2>1. Moved("main", "insert", "check")
    BY <1>2, GotoMoves DEF WellTyped, Insert, Threads, PCs, MainPCs, PutPCs
  <2>2. /\ Head(todo) \in Providers /\ todo' \in Seq(Providers)
        /\ nextId \in Ids /\ nextId' \in 1 .. MaxId + 1 /\ nextId' + Len(todo') <= MaxId + 1
    BY <1>2, <2>1, NextProvider DEF Insert, Moved
  <2>3. db' \in [Ids -> Rows]
    BY <1>2, <2>2, StatementTypes DEF WellTyped, TypeOK, Insert
  <2>4. /\ job' = [job EXCEPT !["main"] = job'["main"]]
        /\ job'["main"] \in Jobs /\ RetriesAreDurable(job'["main"])
    BY <1>2, <2>2 DEF WellTyped, TypeOK, Insert, Job, Jobs, RetriesAreDurable, Threads
  <2>5. TypeOK'
    BY <1>2, <2>1, <2>2, <2>3, <2>4
       DEF WellTyped, TypeOK, Moved, Insert, store, conf, life, jobs, tk, retry, work, ghost,
           bounds
  <2>6. ControlOK'
    BY <1>2, <2>1, <2>2, <2>4
       DEF WellTyped, TypeOK, Moved, ControlOK, DurablePoints, Durable, RetriesAreDurable,
           Threads, Insert,
           store, conf, life, jobs, tk, retry, work, ghost, bounds
  <2> QED BY <2>5, <2>6 DEF WellTyped
<1>3. CASE InsertFails
  <2>1. Moved("main", "insert", IF Tail(todo) = << >> THEN "idle" ELSE "insert")
    BY <1>3, GotoMoves DEF WellTyped, InsertFails, Threads, PCs, MainPCs
  <2>2. /\ todo' \in Seq(Providers) /\ nextId + Len(todo') <= MaxId + 1
        /\ pc'["main"] = "insert" => todo' # << >>
    BY <1>3, <2>1, NextProvider DEF InsertFails, Moved
  <2>3. TypeOK'
    BY <1>3, <2>1, <2>2
       DEF WellTyped, TypeOK, Moved, InsertFails, Fails, store, conf, life, jobs, tk, retry,
           work, ghost, bounds
  <2>4. ControlOK'
    BY <1>3, <2>1, <2>2
       DEF WellTyped, TypeOK, Moved, ControlOK, DurablePoints, Durable, RetriesAreDurable,
           Threads, InsertFails, Fails,
           store, conf, life, jobs, tk, retry, work, ghost, bounds
  <2> QED BY <2>3, <2>4 DEF WellTyped
<1>4. CASE MarkRefused
  <2>1. Moved("main", "refuse", Returned("main"))
    BY <1>4, GotoMoves DEF WellTyped, MarkRefused, Threads, PCs, MainPCs, PutPCs, Returned
  <2>2. TypeOK'
    BY <1>4, <2>1, JobWrites
       DEF WellTyped, TypeOK, Moved, MarkRefused, store, conf, life, jobs, tk, retry, work,
           ghost, bounds, Write, Fails, DurablePoints, Threads
  <2>3. ControlOK'
    BY <1>4, <2>1
       DEF WellTyped, TypeOK, Moved, ControlOK, DurablePoints, Durable, RetriesAreDurable,
           Threads, MarkRefused,
           store, conf, life, jobs, tk, retry, work, ghost, bounds, Returned
  <2> QED BY <2>2, <2>3 DEF WellTyped
<1>5. CASE Requeue
  <2>1. Moved("main", "requeue", "check")
    BY <1>5, GotoMoves DEF WellTyped, Requeue, Threads, PCs, MainPCs, PutPCs
  <2>2. TypeOK'
    BY <1>5, <2>1, JobWrites
       DEF WellTyped, TypeOK, Moved, Requeue, store, conf, life, jobs, tk, retry, work, ghost,
           bounds, Write, Fails, DurablePoints, Threads
  <2>3. ControlOK'
    BY <1>5, <2>1
       DEF WellTyped, TypeOK, Moved, ControlOK, DurablePoints, Durable, RetriesAreDurable,
           Threads, Requeue,
           store, conf, life, jobs, tk, retry, work, ghost, bounds
  <2> QED BY <2>2, <2>3 DEF WellTyped
<1>6. CASE SetStop
  <2>1. Moved("main", "stopping", "drain")
    BY <1>6, GotoMoves DEF WellTyped, SetStop, Threads, PCs, MainPCs, PutPCs
  <2>2. TypeOK'
    BY <1>6, <2>1
       DEF WellTyped, TypeOK, Moved, SetStop, store, conf, life, jobs, tk, retry, work, ghost,
           bounds
  <2>3. ControlOK'
    BY <1>6, <2>1
       DEF WellTyped, TypeOK, Moved, ControlOK, DurablePoints, Durable, RetriesAreDurable,
           Threads, SetStop,
           store, conf, life, jobs, tk, retry, work, ghost, bounds
  <2> QED BY <2>2, <2>3 DEF WellTyped
<1>7. CASE Drain
  <2>1. Moved("main", "drain", IF Durable(Head(queue)) THEN "save" ELSE "drain")
    BY <1>7, GotoMoves DEF WellTyped, Drain, Threads, PCs, MainPCs
  <2>2. /\ job'["main"] \in Jobs /\ RetriesAreDurable(job'["main"]) /\ QueueOK(queue')
        /\ job' = [job EXCEPT !["main"] = job'["main"]]
        /\ pc'["main"] = "save" => Durable(job'["main"])
    BY <1>7, <2>1, TakeFirst DEF WellTyped, TypeOK, Drain, Moved, Threads
  <2>3. TypeOK'
    BY <1>7, <2>1, <2>2
       DEF WellTyped, TypeOK, Moved, Drain, QueueOK, store, conf, life, jobs, tk, retry, work,
           ghost, bounds
  <2>4. ControlOK'
    BY <1>7, <2>1, <2>2
       DEF WellTyped, TypeOK, Moved, ControlOK, DurablePoints, Durable, RetriesAreDurable,
           Threads, Drain, QueueOK,
           store, conf, life, jobs, tk, retry, work, ghost, bounds
  <2> QED BY <2>3, <2>4 DEF WellTyped
<1>8. CASE DrainSave
  <2>1. Moved("main", "save", "unclaim")
    BY <1>8, GotoMoves DEF WellTyped, DrainSave, Threads, PCs, MainPCs, PutPCs
  <2>2. TypeOK'
    BY <1>8, <2>1, JobWrites
       DEF WellTyped, TypeOK, Moved, DrainSave, store, conf, life, jobs, tk, retry, work, ghost,
           bounds, Write, Fails, DurablePoints, Threads
  <2>3. ControlOK'
    BY <1>8, <2>1
       DEF WellTyped, TypeOK, Moved, ControlOK, DurablePoints, Durable, RetriesAreDurable,
           Threads, DrainSave,
           store, conf, life, jobs, tk, retry, work, ghost, bounds
  <2> QED BY <2>2, <2>3 DEF WellTyped
<1>9. CASE DrainRelease
  <2>1. Moved("main", "unclaim", "drain")
    BY <1>9, GotoMoves DEF WellTyped, DrainRelease, Threads, PCs, MainPCs, PutPCs
  <2>2. TypeOK'
    BY <1>9, <2>1
       DEF WellTyped, TypeOK, Moved, DrainRelease, store, conf, life, jobs, tk, retry, work,
           ghost, bounds
  <2>3. ControlOK'
    BY <1>9, <2>1
       DEF WellTyped, TypeOK, Moved, ControlOK, DurablePoints, Durable, RetriesAreDurable,
           Threads, DrainRelease,
           store, conf, life, jobs, tk, retry, work, ghost, bounds
  <2> QED BY <2>2, <2>3 DEF WellTyped
<1>10. CASE DrainEmpty
  <2>1. Moved("main", "drain", "poison")
    BY <1>10, GotoMoves DEF WellTyped, DrainEmpty, Threads, PCs, MainPCs, PutPCs
  <2>2. TypeOK'
    BY <1>10, <2>1
       DEF WellTyped, TypeOK, Moved, DrainEmpty, store, conf, life, jobs, tk, retry, work, ghost,
           bounds
  <2>3. ControlOK'
    BY <1>10, <2>1
       DEF WellTyped, TypeOK, Moved, ControlOK, DurablePoints, Durable, RetriesAreDurable,
           Threads, DrainEmpty,
           store, conf, life, jobs, tk, retry, work, ghost, bounds
  <2> QED BY <2>2, <2>3 DEF WellTyped
<1>11. CASE PutPoison
  <2>1. Moved("main", "poison", "gone")
    BY <1>11, GotoMoves DEF WellTyped, PutPoison, Threads, PCs, MainPCs
  <2>2. QueueOK(queue')
    BY <1>11, PutLast, PoisonJob DEF PutPoison, RetriesAreDurable
  <2>3. TypeOK'
    BY <1>11, <2>1, <2>2
       DEF WellTyped, TypeOK, Moved, PutPoison, QueueOK, store, conf, life, jobs, tk, retry,
           work, ghost, bounds
  <2>4. ControlOK'
    BY <1>11, <2>1, <2>2
       DEF WellTyped, TypeOK, Moved, ControlOK, DurablePoints, Durable, RetriesAreDurable,
           Threads, PutPoison, QueueOK,
           store, conf, life, jobs, tk, retry, work, ghost, bounds
  <2> QED BY <2>3, <2>4 DEF WellTyped
<1>12. CASE PutJob("main")
  BY <1>12, WellTypedPutJob
<1> QED BY <1>1, <1>2, <1>3, <1>4, <1>5, <1>6, <1>7, <1>8, <1>9, <1>10, <1>11, <1>12 DEF MainStep

LEMMA WellTypedLoop ==
    ASSUME WellTyped, NEW r \in snap, SchedGiveUp(r) \/ SchedSkip(r) \/ SchedPut(r)
    PROVE  WellTyped'
<1>0. r.id \in Ids /\ r.provider \in Providers \union {"none"}
  BY DEF WellTyped, TypeOK, DueRecords
<1>1. CASE SchedGiveUp(r)
  <2>1. Moved("sched", "loop", "loop")
    BY <1>1, GotoMoves DEF WellTyped, SchedGiveUp, Threads, PCs, SchedPCs, PutPCs
  <2>a. mark_failed(db, r.id) \in [Ids -> Rows]
    BY <1>0, StatementTypes DEF WellTyped, TypeOK
  <2>2. TypeOK'
    BY <1>1, <2>1, <2>a
       DEF WellTyped, TypeOK, Moved, SchedGiveUp, store, conf, life, jobs, tk, retry, work,
           ghost, bounds, Write, Fails
  <2>3. ControlOK'
    BY <1>1, <2>1
       DEF WellTyped, TypeOK, Moved, ControlOK, DurablePoints, Durable, RetriesAreDurable,
           Threads, SchedGiveUp,
           store, conf, life, jobs, tk, retry, work, ghost, bounds
  <2> QED BY <2>2, <2>3 DEF WellTyped
<1>2. CASE SchedSkip(r)
  <2>1. Moved("sched", "loop", "loop")
    BY <1>2, GotoMoves DEF WellTyped, SchedSkip, Threads, PCs, SchedPCs, PutPCs
  <2>2. TypeOK'
    BY <1>2, <2>1
       DEF WellTyped, TypeOK, Moved, SchedSkip, store, conf, life, jobs, tk, retry, work, ghost,
           bounds
  <2>3. ControlOK'
    BY <1>2, <2>1
       DEF WellTyped, TypeOK, Moved, ControlOK, DurablePoints, Durable, RetriesAreDurable,
           Threads, SchedSkip,
           store, conf, life, jobs, tk, retry, work, ghost, bounds
  <2> QED BY <2>2, <2>3 DEF WellTyped
<1>3. CASE SchedPut(r)
  <2>1. Moved("sched", "loop", "check")
    BY <1>3, GotoMoves DEF WellTyped, SchedPut, Threads, PCs, SchedPCs, PutPCs
  <2>2. TypeOK'
    BY <1>3, <2>1, <1>0
       DEF WellTyped, TypeOK, Moved, SchedPut, store, conf, life, jobs, tk, retry, work, ghost,
           bounds, Job, Jobs
  <2>3. ControlOK'
    BY <1>3, <2>1, <1>0
       DEF WellTyped, TypeOK, Moved, ControlOK, DurablePoints, Durable, RetriesAreDurable,
           Threads, SchedPut,
           store, conf, life, jobs, tk, retry, work, ghost, bounds, Job, TestId, Ids
  <2> QED BY <2>2, <2>3 DEF WellTyped
<1> QED BY <1>1, <1>2, <1>3

LEMMA WellTypedSched ==
    ASSUME WellTyped, SchedStep
    PROVE  WellTyped'
<1>1. CASE SchedTop
  <2>1. Moved("sched", "top", (IF stop THEN "done" ELSE "settings"))
    BY <1>1, GotoMoves DEF WellTyped, SchedTop, Threads, PCs, SchedPCs, PutPCs
  <2>2. TypeOK'
    BY <1>1, <2>1
       DEF WellTyped, TypeOK, Moved, SchedTop, store, conf, life, jobs, tk, retry, work, ghost,
           bounds
  <2>3. ControlOK'
    BY <1>1, <2>1
       DEF WellTyped, TypeOK, Moved, ControlOK, DurablePoints, Durable, RetriesAreDurable,
           Threads, SchedTop,
           store, conf, life, jobs, tk, retry, work, ghost, bounds
  <2> QED BY <2>2, <2>3 DEF WellTyped
<1>2. CASE SchedSettings
  <2>1. Moved("sched", "settings", (IF settings.later THEN "query" ELSE "top"))
    BY <1>2, GotoMoves DEF WellTyped, SchedSettings, Threads, PCs, SchedPCs, PutPCs
  <2>2. TypeOK'
    BY <1>2, <2>1
       DEF WellTyped, TypeOK, Moved, SchedSettings, store, conf, life, jobs, tk, retry, work,
           ghost, bounds
  <2>3. ControlOK'
    BY <1>2, <2>1
       DEF WellTyped, TypeOK, Moved, ControlOK, DurablePoints, Durable, RetriesAreDurable,
           Threads, SchedSettings,
           store, conf, life, jobs, tk, retry, work, ghost, bounds
  <2> QED BY <2>2, <2>3 DEF WellTyped
<1>3. CASE SchedQuery
  <2>1. Moved("sched", "query", "loop")
    BY <1>3, GotoMoves DEF WellTyped, SchedQuery, Threads, PCs, SchedPCs, PutPCs
  <2>2. TypeOK'
    BY <1>3, <2>1, TableTypes
       DEF WellTyped, TypeOK, Moved, SchedQuery, store, conf, life, jobs, tk, retry, work, ghost,
           bounds
  <2>3. ControlOK'
    BY <1>3, <2>1
       DEF WellTyped, TypeOK, Moved, ControlOK, DurablePoints, Durable, RetriesAreDurable,
           Threads, SchedQuery,
           store, conf, life, jobs, tk, retry, work, ghost, bounds
  <2> QED BY <2>2, <2>3 DEF WellTyped
<1>4. CASE SchedLoopEnd
  <2>1. Moved("sched", "loop", "top")
    BY <1>4, GotoMoves DEF WellTyped, SchedLoopEnd, Threads, PCs, SchedPCs, PutPCs
  <2>2. TypeOK'
    BY <1>4, <2>1
       DEF WellTyped, TypeOK, Moved, SchedLoopEnd, store, conf, life, jobs, tk, retry, work,
           ghost, bounds
  <2>3. ControlOK'
    BY <1>4, <2>1
       DEF WellTyped, TypeOK, Moved, ControlOK, DurablePoints, Durable, RetriesAreDurable,
           Threads, SchedLoopEnd,
           store, conf, life, jobs, tk, retry, work, ghost, bounds
  <2> QED BY <2>2, <2>3 DEF WellTyped
<1>5. CASE PutJob("sched")
  BY <1>5, WellTypedPutJob
<1>6. ASSUME NEW r \in snap, SchedGiveUp(r) \/ SchedSkip(r) \/ SchedPut(r)
      PROVE  WellTyped'
  BY <1>6, WellTypedLoop
<1> QED BY <1>1, <1>2, <1>3, <1>4, <1>5, <1>6 DEF SchedStep

LEMMA WellTypedWorker ==
    ASSUME WellTyped, WorkerStep
    PROVE  WellTyped'
<1>1. CASE WorkerGet
  <2>1. Moved("worker", "get", IF Head(queue) = Poison THEN "done" ELSE "start")
    BY <1>1, GotoMoves DEF WellTyped, WorkerGet, Threads, PCs, WorkerPCs
  <2>2. /\ job'["worker"] \in Jobs /\ RetriesAreDurable(job'["worker"]) /\ QueueOK(queue')
        /\ job' = [job EXCEPT !["worker"] = job'["worker"]]
    BY <1>1, TakeFirst DEF WellTyped, TypeOK, WorkerGet, Threads
  <2>3. TypeOK'
    BY <1>1, <2>1, <2>2
       DEF WellTyped, TypeOK, Moved, WorkerGet, QueueOK, store, conf, life, jobs, tk, retry,
           work, ghost, bounds
  <2>4. ControlOK'
    BY <1>1, <2>1, <2>2
       DEF WellTyped, TypeOK, Moved, ControlOK, DurablePoints, Durable, RetriesAreDurable,
           Threads, WorkerGet, QueueOK,
           store, conf, life, jobs, tk, retry, work, ghost, bounds
  <2> QED BY <2>3, <2>4 DEF WellTyped
<1>2. CASE WorkerStart
  <2>0. /\ Goto("worker", pc["worker"], pc'["worker"]) /\ pc["worker"] # "get"
        /\ pc'["worker"] \in {"fail", "release", "begin", "attempt"}
        /\ pc'["worker"] \in DurablePoints("worker") => Durable(job["worker"])
    BY <1>2 DEF WellTyped, TypeOK, ControlOK, WorkerStart, Goto, DurablePoints,
                RetriesAreDurable, Threads
  <2>1. Moved("worker", pc["worker"], pc'["worker"])
    BY <2>0, GotoMoves DEF WellTyped, Threads, PCs, WorkerPCs
  <2>2. TypeOK'
    BY <1>2, <2>1
       DEF WellTyped, TypeOK, Moved, WorkerStart, store, conf, life, jobs, tk, retry, work,
           ghost, bounds
  <2>3. ControlOK'
    BY <1>2, <2>0, <2>1
       DEF WellTyped, TypeOK, Moved, ControlOK, DurablePoints, Durable, RetriesAreDurable,
           Threads, WorkerStart,
           store, conf, life, jobs, tk, retry, work, ghost, bounds
  <2> QED BY <2>2, <2>3 DEF WellTyped
<1>3. CASE WorkerBegin
  <2>1. Moved("worker", "begin", "attempt")
    BY <1>3, GotoMoves DEF WellTyped, WorkerBegin, Threads, PCs, WorkerPCs
  <2>2. TypeOK'
    BY <1>3, <2>1, JobWrites
       DEF WellTyped, TypeOK, Moved, WorkerBegin, store, conf, life, jobs, tk, retry, work,
           ghost, bounds, Write, Fails, DurablePoints, Threads
  <2>3. ControlOK'
    BY <1>3, <2>1
       DEF WellTyped, TypeOK, Moved, ControlOK, DurablePoints, Durable, RetriesAreDurable,
           Threads, WorkerBegin,
           store, conf, life, jobs, tk, retry, work, ghost, bounds
  <2> QED BY <2>2, <2>3 DEF WellTyped
<1>4. CASE WorkerAttempt
  <2>0. /\ Goto("worker", pc["worker"], pc'["worker"]) /\ pc["worker"] # "get"
        /\ pc'["worker"] \in {"preserve", "record", "send", "release"}
        /\ pc'["worker"] \in DurablePoints("worker") => Durable(job["worker"])
    BY <1>4 DEF WellTyped, TypeOK, ControlOK, WorkerAttempt, Goto, DurablePoints,
                RetriesAreDurable, Threads, IfDurable
  <2>1. Moved("worker", pc["worker"], pc'["worker"])
    BY <2>0, GotoMoves DEF WellTyped, Threads, PCs, WorkerPCs
  <2>2. TypeOK'
    BY <1>4, <2>1
       DEF WellTyped, TypeOK, Moved, WorkerAttempt, store, conf, life, jobs, tk, retry, work,
           ghost, bounds
  <2>3. ControlOK'
    BY <1>4, <2>0, <2>1
       DEF WellTyped, TypeOK, Moved, ControlOK, DurablePoints, Durable, RetriesAreDurable,
           Threads, WorkerAttempt,
           store, conf, life, jobs, tk, retry, work, ghost, bounds, IfDurable
  <2> QED BY <2>2, <2>3 DEF WellTyped
<1>5. CASE WorkerRecord
  <2>1. Moved("worker", "record", "send")
    BY <1>5, GotoMoves DEF WellTyped, WorkerRecord, Threads, PCs, WorkerPCs
  <2>2. TypeOK'
    BY <1>5, <2>1, JobWrites
       DEF WellTyped, TypeOK, Moved, WorkerRecord, store, conf, life, jobs, tk, retry, work,
           ghost, bounds, Write, Fails, DurablePoints, Threads
  <2>3. ControlOK'
    BY <1>5, <2>1
       DEF WellTyped, TypeOK, Moved, ControlOK, DurablePoints, Durable, RetriesAreDurable,
           Threads, WorkerRecord,
           store, conf, life, jobs, tk, retry, work, ghost, bounds
  <2> QED BY <2>2, <2>3 DEF WellTyped
<1>6. CASE WorkerPause
  <2>0. /\ Goto("worker", pc["worker"], pc'["worker"]) /\ pc["worker"] # "get"
        /\ pc'["worker"] \in {"preserve", "release", "attempt"}
        /\ pc'["worker"] \in DurablePoints("worker") => Durable(job["worker"])
    BY <1>6 DEF WellTyped, TypeOK, ControlOK, WorkerPause, Goto, DurablePoints,
                RetriesAreDurable, Threads, IfDurable
  <2>1. Moved("worker", pc["worker"], pc'["worker"])
    BY <2>0, GotoMoves DEF WellTyped, Threads, PCs, WorkerPCs
  <2>2. TypeOK'
    BY <1>6, <2>1
       DEF WellTyped, TypeOK, Moved, WorkerPause, store, conf, life, jobs, tk, retry, work,
           ghost, bounds
  <2>3. ControlOK'
    BY <1>6, <2>0, <2>1
       DEF WellTyped, TypeOK, Moved, ControlOK, DurablePoints, Durable, RetriesAreDurable,
           Threads, WorkerPause,
           store, conf, life, jobs, tk, retry, work, ghost, bounds, IfDurable
  <2> QED BY <2>2, <2>3 DEF WellTyped
<1>7. CASE WorkerDelivered
  <2>1. Moved("worker", "delivered", "release")
    BY <1>7, GotoMoves DEF WellTyped, WorkerDelivered, Threads, PCs, WorkerPCs
  <2>2. TypeOK'
    BY <1>7, <2>1, JobWrites
       DEF WellTyped, TypeOK, Moved, WorkerDelivered, store, conf, life, jobs, tk, retry, work,
           ghost, bounds, Write, Fails, DurablePoints, Threads
  <2>3. ControlOK'
    BY <1>7, <2>1
       DEF WellTyped, TypeOK, Moved, ControlOK, DurablePoints, Durable, RetriesAreDurable,
           Threads, WorkerDelivered,
           store, conf, life, jobs, tk, retry, work, ghost, bounds
  <2> QED BY <2>2, <2>3 DEF WellTyped
<1>8. CASE WorkerDecide
  <2>0. /\ Goto("worker", pc["worker"], pc'["worker"]) /\ pc["worker"] # "get"
        /\ pc'["worker"] \in {"schedule", "fail"}
        /\ pc'["worker"] \in DurablePoints("worker") => Durable(job["worker"])
    BY <1>8 DEF WellTyped, TypeOK, ControlOK, WorkerDecide, Goto, DurablePoints,
                RetriesAreDurable, Threads
  <2>1. Moved("worker", pc["worker"], pc'["worker"])
    BY <2>0, GotoMoves DEF WellTyped, Threads, PCs, WorkerPCs
  <2>2. TypeOK'
    BY <1>8, <2>1
       DEF WellTyped, TypeOK, Moved, WorkerDecide, store, conf, life, jobs, tk, retry, work,
           ghost, bounds
  <2>3. ControlOK'
    BY <1>8, <2>0, <2>1
       DEF WellTyped, TypeOK, Moved, ControlOK, DurablePoints, Durable, RetriesAreDurable,
           Threads, WorkerDecide,
           store, conf, life, jobs, tk, retry, work, ghost, bounds
  <2> QED BY <2>2, <2>3 DEF WellTyped
<1>9. CASE WorkerSchedule
  <2>1. Moved("worker", "schedule", "release")
    BY <1>9, GotoMoves DEF WellTyped, WorkerSchedule, Threads, PCs, WorkerPCs
  <2>2. TypeOK'
    BY <1>9, <2>1, JobWrites
       DEF WellTyped, TypeOK, Moved, WorkerSchedule, store, conf, life, jobs, tk, retry, work,
           ghost, bounds, Write, Fails, DurablePoints, Threads
  <2>3. ControlOK'
    BY <1>9, <2>1
       DEF WellTyped, TypeOK, Moved, ControlOK, DurablePoints, Durable, RetriesAreDurable,
           Threads, WorkerSchedule,
           store, conf, life, jobs, tk, retry, work, ghost, bounds
  <2> QED BY <2>2, <2>3 DEF WellTyped
<1>10. CASE WorkerFail
  <2>1. Moved("worker", "fail", "release")
    BY <1>10, GotoMoves DEF WellTyped, WorkerFail, Threads, PCs, WorkerPCs
  <2>2. TypeOK'
    BY <1>10, <2>1, JobWrites
       DEF WellTyped, TypeOK, Moved, WorkerFail, store, conf, life, jobs, tk, retry, work, ghost,
           bounds, Write, Fails, DurablePoints, Threads
  <2>3. ControlOK'
    BY <1>10, <2>1
       DEF WellTyped, TypeOK, Moved, ControlOK, DurablePoints, Durable, RetriesAreDurable,
           Threads, WorkerFail,
           store, conf, life, jobs, tk, retry, work, ghost, bounds
  <2> QED BY <2>2, <2>3 DEF WellTyped
<1>11. CASE WorkerPreserve
  <2>1. Moved("worker", "preserve", "release")
    BY <1>11, GotoMoves DEF WellTyped, WorkerPreserve, Threads, PCs, WorkerPCs
  <2>2. TypeOK'
    BY <1>11, <2>1, JobWrites
       DEF WellTyped, TypeOK, Moved, WorkerPreserve, store, conf, life, jobs, tk, retry, work,
           ghost, bounds, Write, Fails, DurablePoints, Threads
  <2>3. ControlOK'
    BY <1>11, <2>1
       DEF WellTyped, TypeOK, Moved, ControlOK, DurablePoints, Durable, RetriesAreDurable,
           Threads, WorkerPreserve,
           store, conf, life, jobs, tk, retry, work, ghost, bounds
  <2> QED BY <2>2, <2>3 DEF WellTyped
<1>12. CASE WorkerRelease
  <2>1. Moved("worker", "release", "get")
    BY <1>12, GotoMoves DEF WellTyped, WorkerRelease, Threads, PCs, WorkerPCs
  <2>2. TypeOK'
    BY <1>12, <2>1
       DEF WellTyped, TypeOK, Moved, WorkerRelease, store, conf, life, jobs, tk, retry, work,
           ghost, bounds
  <2>3. ControlOK'
    BY <1>12, <2>1
       DEF WellTyped, TypeOK, Moved, ControlOK, DurablePoints, Durable, RetriesAreDurable,
           Threads, WorkerRelease,
           store, conf, life, jobs, tk, retry, work, ghost, bounds
  <2> QED BY <2>2, <2>3 DEF WellTyped
<1>13. ASSUME NEW r \in Results, WorkerSend(r)
       PROVE  WellTyped'
  <2>0. /\ Goto("worker", "send", pc'["worker"])
        /\ pc'["worker"] \in {"delivered", "pause", "decide", "release"}
        /\ pc'["worker"] \in {"delivered", "decide"} => Durable(job["worker"])
    BY <1>13 DEF WellTyped, TypeOK, WorkerSend, AfterAttempt, Goto, IfDurable, Threads
  <2>1. Moved("worker", "send", pc'["worker"])
    BY <2>0, GotoMoves DEF WellTyped, Threads, PCs, WorkerPCs
  <2>2. sends' \in [Ids -> Nat] /\ accepted' \in [Ids -> Nat] /\ late' \in Nat
    BY <1>13 DEF WellTyped, TypeOK, WorkerSend
  <2>3. TypeOK'
    BY <1>13, <2>1, <2>2
       DEF WellTyped, TypeOK, Moved, WorkerSend, store, conf, life, jobs, tk, retry, work, bounds
  <2>4. ControlOK'
    BY <1>13, <2>0, <2>1
       DEF WellTyped, TypeOK, Moved, ControlOK, DurablePoints, Durable, RetriesAreDurable,
           Threads,
           WorkerSend, IfDurable, store, conf, life, jobs, tk, retry, work, bounds
  <2> QED BY <2>3, <2>4 DEF WellTyped
<1> QED BY <1>1, <1>2, <1>3, <1>4, <1>5, <1>6, <1>7, <1>8, <1>9, <1>10, <1>11, <1>12, <1>13
     DEF WorkerStep

LEMMA ConcatFacts ==
    ASSUME NEW S, NEW a \in Seq(S), NEW b \in Seq(S), NEW r, r = a \o b
    PROVE  r \in Seq(S) /\ Len(r) = Len(a) + Len(b) /\ Len(a) \in Nat /\ Len(b) \in Nat
  OBVIOUS

LEMMA EnabledProvidersType ==
    ASSUME NEW s \in SettingsRecords
    PROVE  /\ EnabledProviders(s) \in Seq(Providers) /\ Len(EnabledProviders(s)) \in Nat
           /\ s.enabled # {} => EnabledProviders(s) # << >>
<1>1. \A p \in Providers : /\ IfOn(s, p) \in Seq(Providers)
                           /\ Len(IfOn(s, p)) = IF p \in s.enabled THEN 1 ELSE 0
  BY DEF IfOn
<1>2. {"windows", "generic_webhook", "teams_webhook"} = Providers
  BY DEF Providers, WEBHOOK_PROVIDERS
<1>3. PICK first : first = IfOn(s, "windows") \o IfOn(s, "generic_webhook")
  OBVIOUS
<1>4. /\ first \in Seq(Providers)
      /\ Len(first) = Len(IfOn(s, "windows")) + Len(IfOn(s, "generic_webhook"))
  BY <1>1, <1>2, <1>3, ConcatFacts
<1>5. EnabledProviders(s) = first \o IfOn(s, "teams_webhook")
  BY <1>3 DEF EnabledProviders
<1>6. /\ EnabledProviders(s) \in Seq(Providers)
      /\ Len(EnabledProviders(s)) = Len(first) + Len(IfOn(s, "teams_webhook"))
  BY <1>1, <1>2, <1>4, <1>5, ConcatFacts
<1>7. s.enabled \subseteq {"windows", "generic_webhook", "teams_webhook"}
  BY <1>2 DEF SettingsRecords
<1>8. ASSUME NEW p \in s.enabled
      PROVE  Len(EnabledProviders(s)) # 0
  <2>1. \A x \in Providers : Len(IfOn(s, x)) \in {0, 1} /\ (x = p => Len(IfOn(s, x)) = 1)
    BY <1>1
  <2>2. p = "windows" \/ p = "generic_webhook" \/ p = "teams_webhook"
    BY <1>7
  <2>3. /\ Len(IfOn(s, "windows")) \in Nat /\ (p = "windows" => Len(IfOn(s, "windows")) = 1)
        /\ Len(IfOn(s, "generic_webhook")) \in Nat
        /\ p = "generic_webhook" => Len(IfOn(s, "generic_webhook")) = 1
        /\ Len(IfOn(s, "teams_webhook")) \in Nat
        /\ p = "teams_webhook" => Len(IfOn(s, "teams_webhook")) = 1
    BY <1>2, <2>1
  <2> QED BY <1>4, <1>6, <2>2, <2>3
<1> QED BY <1>6, <1>8

LEMMA WellTypedUser ==
    ASSUME WellTyped, User
    PROVE  WellTyped'
<1>1. ASSUME NEW s \in SettingsChoices, Configure(s)
      PROVE  WellTyped'
  <2>1. s \in SettingsRecords
    BY ManagerAssumption
  <2>2. Moved("main", pc["main"], IF recovered THEN "idle" ELSE "recover")
    BY <1>1, GotoMoves DEF WellTyped, TypeOK, Configure, Goto, Threads, PCs, MainPCs
  <2>3. TypeOK'
    BY <1>1, <2>1, <2>2
       DEF WellTyped, TypeOK, Moved, Configure, store, conf, life, jobs, tk, retry, work, ghost,
           bounds
  <2>4. ControlOK'
    BY <1>1, <2>2
       DEF WellTyped, TypeOK, Moved, ControlOK, DurablePoints, Durable, RetriesAreDurable,
           Threads, Configure,
           store, conf, life, jobs, tk, retry, work, ghost, bounds
  <2> QED BY <2>3, <2>4 DEF WellTyped
<1>2. CASE Enqueue
  <2>1. Moved("main", "idle", "insert")
    BY <1>2, GotoMoves DEF WellTyped, Enqueue, Threads, PCs, MainPCs
  <2>2. /\ todo' \in Seq(Providers) /\ todo' # << >>
        /\ nextId + Len(todo') <= MaxId + 1
    BY <1>2, EnabledProvidersType DEF Enqueue, WellTyped, TypeOK
  <2>3. TypeOK'
    BY <1>2, <2>1, <2>2
       DEF WellTyped, TypeOK, Moved, Enqueue, store, conf, life, jobs, tk, retry, work, ghost,
           bounds
  <2>4. ControlOK'
    BY <1>2, <2>1, <2>2
       DEF WellTyped, TypeOK, Moved, ControlOK, DurablePoints, Durable, RetriesAreDurable,
           Threads, Enqueue,
           store, conf, life, jobs, tk, retry, work, ghost, bounds
  <2> QED BY <2>3, <2>4 DEF WellTyped
<1>3. ASSUME NEW i \in Ids, ManualRetry(i)
      PROVE  WellTyped'
  <2>1. Moved("main", "idle", "requeue")
    BY <1>3, GotoMoves DEF WellTyped, ManualRetry, Threads, PCs, MainPCs
  <2>a. db[i] \in Rows
    BY DEF WellTyped, TypeOK
  <2>b. Job(i, db[i].provider, FALSE, TRUE) \in Jobs /\ Durable(Job(i, db[i].provider, FALSE, TRUE))
    BY <2>a DEF Job, Jobs, Rows, Durable, TestId, Ids
  <2>2. /\ job' = [job EXCEPT !["main"] = job'["main"]]
        /\ job'["main"] \in Jobs /\ Durable(job'["main"])
    BY <1>3, <2>b DEF WellTyped, TypeOK, ManualRetry, Threads
  <2>c. job' \in [Threads -> Jobs]
    BY <2>2 DEF WellTyped, TypeOK, Threads
  <2>d. /\ UNCHANGED <<store, conf, life, jobs, tk, retry, work, ghost>>
        /\ manuals' \in Nat /\ tests' \in Nat /\ crashes' \in Nat
    BY <1>3 DEF WellTyped, TypeOK, ManualRetry
  <2>3. TypeOK'
    BY <2>1, <2>c, <2>d
       DEF WellTyped, TypeOK, Moved, store, conf, life, jobs, tk, retry, work, ghost, bounds
  <2>4. ControlOK'
    BY <1>3, <2>1, <2>2
       DEF WellTyped, TypeOK, Moved, ControlOK, DurablePoints, Durable, RetriesAreDurable,
           Threads, ManualRetry,
           store, conf, life, jobs, tk, retry, work, ghost, bounds
  <2> QED BY <2>3, <2>4 DEF WellTyped
<1>4. ASSUME NEW p \in Providers, EnqueueTest(p)
      PROVE  WellTyped'
  <2>1. Moved("main", "idle", "check")
    BY <1>4, GotoMoves DEF WellTyped, EnqueueTest, Threads, PCs, MainPCs, PutPCs
  <2>a. /\ Job(TestId, p, FALSE, FALSE) \in Jobs
        /\ RetriesAreDurable(Job(TestId, p, FALSE, FALSE))
    BY DEF Job, Jobs, RetriesAreDurable
  <2>2. /\ job' = [job EXCEPT !["main"] = job'["main"]]
        /\ job'["main"] \in Jobs /\ RetriesAreDurable(job'["main"])
    BY <1>4, <2>a DEF WellTyped, TypeOK, EnqueueTest, Threads
  <2>c. job' \in [Threads -> Jobs]
    BY <2>2 DEF WellTyped, TypeOK, Threads
  <2>d. /\ UNCHANGED <<store, conf, life, jobs, tk, retry, work, ghost>>
        /\ manuals' \in Nat /\ tests' \in Nat /\ crashes' \in Nat
    BY <1>4 DEF WellTyped, TypeOK, EnqueueTest
  <2>3. TypeOK'
    BY <2>1, <2>c, <2>d
       DEF WellTyped, TypeOK, Moved, store, conf, life, jobs, tk, retry, work, ghost, bounds
  <2>4. ControlOK'
    BY <1>4, <2>1, <2>2
       DEF WellTyped, TypeOK, Moved, ControlOK, DurablePoints, Durable, RetriesAreDurable,
           Threads, EnqueueTest,
           store, conf, life, jobs, tk, retry, work, ghost, bounds
  <2> QED BY <2>3, <2>4 DEF WellTyped
<1>5. CASE ClearHistory
  <2>1. Moved("main", "idle", "idle")
    BY <1>5, GotoMoves DEF WellTyped, ClearHistory, Threads, PCs, MainPCs
  <2>a. clear_terminal(db) \in [Ids -> Rows]
    BY TableTypes DEF WellTyped, TypeOK
  <2>b. db' \in [Ids -> Rows] /\ failures' \in Nat
    BY <1>5, <2>a DEF WellTyped, TypeOK, ClearHistory, Write, Fails
  <2>2. TypeOK'
    BY <1>5, <2>1, <2>b
       DEF WellTyped, TypeOK, Moved, ClearHistory, store, conf, life, jobs, tk, retry, work,
           ghost, bounds
  <2>3. ControlOK'
    BY <1>5, <2>1
       DEF WellTyped, TypeOK, Moved, ControlOK, DurablePoints, Durable, RetriesAreDurable,
           Threads, ClearHistory,
           store, conf, life, jobs, tk, retry, work, ghost, bounds
  <2> QED BY <2>2, <2>3 DEF WellTyped
<1>6. CASE Shutdown
  <2>1. Moved("main", "idle", "stopping")
    BY <1>6, GotoMoves DEF WellTyped, Shutdown, Threads, PCs, MainPCs
  <2>2. TypeOK'
    BY <1>6, <2>1
       DEF WellTyped, TypeOK, Moved, Shutdown, store, conf, life, jobs, tk, retry, work, ghost,
           bounds
  <2>3. ControlOK'
    BY <1>6, <2>1
       DEF WellTyped, TypeOK, Moved, ControlOK, DurablePoints, Durable, RetriesAreDurable,
           Threads, Shutdown,
           store, conf, life, jobs, tk, retry, work, ghost, bounds
  <2> QED BY <2>2, <2>3 DEF WellTyped
<1> QED BY <1>1, <1>2, <1>3, <1>4, <1>5, <1>6 DEF User

LEMMA WellTypedEnvironment ==
    ASSUME WellTyped, (\E i \in Ids : Due(i)) \/ Restart \/ UNCHANGED vars
    PROVE  WellTyped'
<1>1. ASSUME NEW i \in Ids, Due(i)
      PROVE  WellTyped'
  <2>1. db' \in [Ids -> Rows]
    BY <1>1 DEF Due, WellTyped, TypeOK, Rows
  <2>2. TypeOK'
    BY <1>1, <2>1 DEF Due, WellTyped, TypeOK, store, conf, life, jobs, tk, retry, work, ghost,
                      bounds
  <2>3. ControlOK'
    BY <1>1 DEF Due, WellTyped, ControlOK, store, conf, life, jobs, tk, retry, work, ghost, bounds
  <2> QED BY <2>2, <2>3 DEF WellTyped
<1>2. CASE Restart
  <2>1. /\ pc' \in [Threads -> MainPCs \union SchedPCs \union WorkerPCs]
        /\ \A t \in Threads : pc'[t] \in PCs(t)
    BY <1>2 DEF Restart, Entry, PCs, MainPCs, SchedPCs, WorkerPCs, Threads
  <2>2. /\ job' \in [Threads -> Jobs] /\ settings' \in SettingsRecords /\ seen' \in SettingsRecords
        /\ queue' \in Seq(Jobs) /\ Len(queue') <= MaxQueue /\ todo' \in Seq(Providers)
    BY <1>2, PoisonJob, ManagerAssumption DEF Restart, DefaultSettings, SettingsRecords
  <2>3. recovered' \in BOOLEAN /\ accepting' \in BOOLEAN /\ stop' \in BOOLEAN
    BY <1>2 DEF Restart
  <2>4. /\ active' \subseteq Ids /\ snap' \subseteq DueRecords /\ result' \in Results
        /\ attempt' \in Nat /\ late' \in Nat /\ crashes' \in Nat
    BY <1>2 DEF Restart, Results, WellTyped, TypeOK
  <2>5. TypeOK'
    BY <1>2, <2>1, <2>2, <2>3, <2>4 DEF Restart, WellTyped, TypeOK, store
  <2>6. ControlOK'
    BY <1>2
       DEF Restart, WellTyped, TypeOK, ControlOK, Entry, DurablePoints, Threads,
           RetriesAreDurable,
           Durable, Job, Poison, TestId, store
  <2> QED BY <2>5, <2>6 DEF WellTyped
<1>3. CASE UNCHANGED vars
  BY <1>3 DEF vars, WellTyped, TypeOK, ControlOK
<1> QED BY <1>1, <1>2, <1>3

LEMMA WellTypedNext == WellTyped /\ [Next]_vars => WellTyped'
<1> SUFFICES ASSUME WellTyped, [Next]_vars PROVE WellTyped'
  OBVIOUS
<1>1. CASE MainStep
  BY <1>1, WellTypedMain
<1>2. CASE User
  BY <1>2, WellTypedUser
<1>3. CASE SchedStep
  BY <1>3, WellTypedSched
<1>4. CASE WorkerStep
  BY <1>4, WellTypedWorker
<1>5. CASE (\E i \in Ids : Due(i)) \/ Restart \/ UNCHANGED vars
  BY <1>5, WellTypedEnvironment
<1>6. Stopped => UNCHANGED vars
  BY DEF Stopped
<1> QED BY <1>1, <1>2, <1>3, <1>4, <1>5, <1>6 DEF Next

\* The type invariant, and with it that no thread ever writes about a job that
\* has no row, holds of every behaviour.
THEOREM TypeCorrect == Spec => [](TypeOK /\ ControlOK)
<1>1. Init => WellTyped
  BY WellTypedInit
<1>2. WellTyped /\ [Next]_vars => WellTyped'
  BY WellTypedNext
<1> QED BY <1>1, <1>2, PTL DEF Spec, WellTyped

--------------------------------------------------------------------------------
Hands == [t \in Threads |-> IF Holding(t) THEN job[t].id ELSE TestId]

\* The ids in queue q and in hands H are all different, and A is the set of them.
Apart(q, H, A) ==
    /\ \A k, l \in 1 .. Len(q) : k # l /\ q[k].id = q[l].id => q[k].id = TestId
    /\ \A t \in Threads : H[t] # TestId =>
            /\ \A k \in 1 .. Len(q) : q[k].id # H[t]
            /\ \A u \in Threads : u # t => H[u] # H[t]
    /\ \A i \in Ids : i \in A <=> \/ \E k \in 1 .. Len(q) : q[k].id = i
                                  \/ \E t \in Threads : H[t] = i

LEMMA HandsType ==
    ASSUME WellTyped
    PROVE  Hands \in [Threads -> {TestId} \union Ids]
  BY DEF WellTyped, TypeOK, Hands, Jobs

\* The inductive form of OneLiveJob.
JobsApart == Apart(queue, Hands, active)

LEMMA ApartInit == Init => JobsApart
  BY DEF Init, JobsApart, Apart, Hands, Holding, Entry, Poison, Job, TestId, Ids, Threads

\* A thread takes the head of the queue into its empty hands.
LEMMA ApartTake ==
    ASSUME NEW q \in Seq(Jobs), q # << >>, NEW r, r = Tail(q), NEW A,
           NEW H \in [Threads -> {TestId} \union Ids], NEW G, Apart(q, H, A),
           NEW t \in Threads, H[t] = TestId, NEW j, j = Head(q),
           G = [H EXCEPT ![t] = j.id]
    PROVE  Apart(r, G, A)
<1>1. /\ j = q[1] /\ j \in Jobs /\ 1 \in 1 .. Len(q)
      /\ Len(q) = Len(r) + 1 /\ Len(r) \in Nat
      /\ \A k \in 1 .. Len(r) : k + 1 \in 1 .. Len(q) /\ r[k] = q[k + 1]
  BY TailFacts
<1>2. G[t] = q[1].id /\ \A u \in Threads : u # t => G[u] = H[u]
  BY <1>1
<1>3. \A k \in 1 .. Len(q) : k = 1 \/ (k - 1 \in 1 .. Len(r) /\ r[k - 1] = q[k])
  BY <1>1
<1>4. TestId \notin Ids
  BY DEF TestId, Ids
<1>5. \A k, l \in 1 .. Len(r) : k # l /\ r[k].id = r[l].id => r[k].id = TestId
  BY <1>1 DEF Apart
<1>6. ASSUME NEW u \in Threads, G[u] # TestId
      PROVE  /\ \A k \in 1 .. Len(r) : r[k].id # G[u]
             /\ \A v \in Threads : v # u => G[v] # G[u]
  <2>1. CASE u = t
    BY <1>1, <1>2, <1>6, <2>1 DEF Apart
  <2>2. CASE u # t
    BY <1>1, <1>2, <1>6, <2>2 DEF Apart
  <2> QED BY <2>1, <2>2
<1>7. ASSUME NEW i \in Ids
      PROVE  i \in A <=> \/ \E k \in 1 .. Len(r) : r[k].id = i
                         \/ \E u \in Threads : G[u] = i
  <2>1. (\E k \in 1 .. Len(q) : q[k].id = i) <=> q[1].id = i \/ \E k \in 1 .. Len(r) : r[k].id = i
    BY <1>1, <1>3
  <2>2. (\E u \in Threads : G[u] = i) <=> q[1].id = i \/ \E u \in Threads : H[u] = i
    BY <1>2, <1>4
  <2> QED BY <2>1, <2>2 DEF Apart
<1> QED BY <1>5, <1>6, <1>7 DEF Apart

\* A thread puts the job in its hands at the end of the queue.
LEMMA ApartPut ==
    ASSUME NEW q \in Seq(Jobs), NEW j \in Jobs, NEW r, r = Append(q, j), NEW A,
           NEW H \in [Threads -> {TestId} \union Ids], NEW G, Apart(q, H, A),
           NEW t \in Threads, H[t] = j.id,
           G = [H EXCEPT ![t] = TestId]
    PROVE  Apart(r, G, A)
<1>1. /\ Len(r) = Len(q) + 1 /\ Len(q) \in Nat
      /\ \A k \in 1 .. Len(q) : r[k] = q[k]
      /\ r[Len(q) + 1] = j
  BY AppendFacts
<1>2. G[t] = TestId /\ \A u \in Threads : u # t => G[u] = H[u]
  OBVIOUS
<1>3. \A k \in 1 .. Len(r) : k \in 1 .. Len(q) \/ k = Len(q) + 1
  BY <1>1
<1>4. TestId \notin Ids
  BY DEF TestId, Ids
<1>5. ASSUME NEW k \in 1 .. Len(r), NEW l \in 1 .. Len(r), k # l, r[k].id = r[l].id
      PROVE  r[k].id = TestId
  BY <1>1, <1>3, <1>5 DEF Apart
<1>6. ASSUME NEW u \in Threads, G[u] # TestId
      PROVE  /\ \A k \in 1 .. Len(r) : r[k].id # G[u]
             /\ \A v \in Threads : v # u => G[v] # G[u]
  BY <1>1, <1>2, <1>3, <1>6 DEF Apart
<1>7. ASSUME NEW i \in Ids
      PROVE  i \in A <=> \/ \E k \in 1 .. Len(r) : r[k].id = i
                         \/ \E u \in Threads : G[u] = i
  <2>1. (\E k \in 1 .. Len(r) : r[k].id = i) <=> j.id = i \/ \E k \in 1 .. Len(q) : q[k].id = i
    <3>1. Len(q) + 1 \in 1 .. Len(r) /\ \A k \in 1 .. Len(q) : k \in 1 .. Len(r)
      BY <1>1
    <3> QED BY <1>1, <1>3, <3>1
  <2>2. (\E u \in Threads : H[u] = i) <=> j.id = i \/ \E u \in Threads : G[u] = i
    BY <1>2, <1>4
  <2> QED BY <2>1, <2>2 DEF Apart
<1> QED BY <1>5, <1>6, <1>7 DEF Apart

\* A thread with empty hands claims an id that is not active.
LEMMA ApartClaim ==
    ASSUME NEW q, NEW A, NEW B, NEW i \in Ids, i \notin A, B = A \union {i},
           NEW H \in [Threads -> {TestId} \union Ids], NEW G, Apart(q, H, A),
           NEW t \in Threads, H[t] = TestId,
           G = [H EXCEPT ![t] = i]
    PROVE  Apart(q, G, B)
<1>1. G[t] = i /\ \A u \in Threads : u # t => G[u] = H[u]
  OBVIOUS
<1>2. TestId \notin Ids
  BY DEF TestId, Ids
<1> QED BY <1>1, <1>2 DEF Apart

\* A thread lets go of the id it holds.
LEMMA ApartRelease ==
    ASSUME NEW q, NEW A, NEW B,
           NEW H \in [Threads -> {TestId} \union Ids], NEW G, Apart(q, H, A),
           NEW t \in Threads, B = A \ {H[t]},
           G = [H EXCEPT ![t] = TestId]
    PROVE  Apart(q, G, B)
<1>1. G[t] = TestId /\ \A u \in Threads : u # t => G[u] = H[u]
  OBVIOUS
<1>2. TestId \notin Ids
  BY DEF TestId, Ids
<1> QED BY <1>1, <1>2 DEF Apart

--------------------------------------------------------------------------------
\* A step of thread t leaves the other threads where they are.
Alone(t) == \A u \in Threads : u # t => pc'[u] = pc[u] /\ job'[u] = job[u]

Hand(t) == IF Holding(t) THEN job[t].id ELSE TestId

LEMMA HandsOfStep ==
    ASSUME NEW t \in Threads, Alone(t)
    PROVE  /\ Hands' = [Hands EXCEPT ![t] = Hand(t)']
           /\ Hands[t] = Hand(t)
  BY DEF Hands, Hand, Alone, Holding

LEMMA GotoAlone ==
    ASSUME WellTyped, NEW t \in Threads, NEW from, NEW to, Goto(t, from, to),
           job' = job \/ \E j : job' = [job EXCEPT ![t] = j]
    PROVE  Alone(t) /\ pc[t] = from /\ pc'[t] = to
  BY DEF WellTyped, TypeOK, Goto, Alone

\* The five ways a step changes who holds what.
LEMMA Quiet ==
    ASSUME JobsApart, NEW t \in Threads, Alone(t),
           queue' = queue, active' = active, Hand(t)' = Hand(t)
    PROVE  JobsApart'
<1>1. Hands' = [Hands EXCEPT ![t] = Hand(t)] /\ Hands[t] = Hand(t)
  BY HandsOfStep
<1>2. Hands' = Hands
  BY <1>1 DEF Hands
<1> QED BY <1>2 DEF JobsApart

LEMMA Takes ==
    ASSUME WellTyped, JobsApart, NEW t \in Threads, Alone(t),
           queue # << >>, queue' = Tail(queue), active' = active,
           Hand(t) = TestId, Hand(t)' = Head(queue).id
    PROVE  JobsApart'
<1>1. Hands' = [Hands EXCEPT ![t] = Head(queue).id] /\ Hands[t] = TestId
  BY HandsOfStep
<1>2. queue \in Seq(Jobs) /\ Hands \in [Threads -> {TestId} \union Ids]
  BY HandsType DEF WellTyped, TypeOK
<1>3. Apart(Tail(queue), Hands', active)
  BY <1>1, <1>2, ApartTake DEF JobsApart
<1> QED BY <1>3 DEF JobsApart

LEMMA Puts ==
    ASSUME WellTyped, JobsApart, NEW t \in Threads, Alone(t), NEW j \in Jobs,
           queue' = Append(queue, j), active' = active,
           Hand(t) = j.id, Hand(t)' = TestId
    PROVE  JobsApart'
<1>1. Hands' = [Hands EXCEPT ![t] = TestId] /\ Hands[t] = j.id
  BY HandsOfStep
<1>2. queue \in Seq(Jobs) /\ Hands \in [Threads -> {TestId} \union Ids]
  BY HandsType DEF WellTyped, TypeOK
<1>3. Apart(Append(queue, j), Hands', active)
  BY <1>1, <1>2, ApartPut DEF JobsApart
<1> QED BY <1>3 DEF JobsApart

LEMMA Claims ==
    ASSUME WellTyped, JobsApart, NEW t \in Threads, Alone(t), NEW i \in Ids, i \notin active,
           queue' = queue, active' = active \union {i},
           Hand(t) = TestId, Hand(t)' = i
    PROVE  JobsApart'
<1>1. Hands' = [Hands EXCEPT ![t] = i] /\ Hands[t] = TestId
  BY HandsOfStep
<1>2. Hands \in [Threads -> {TestId} \union Ids]
  BY HandsType
<1>3. Apart(queue, Hands', active')
  BY <1>1, <1>2, ApartClaim DEF JobsApart
<1> QED BY <1>3 DEF JobsApart

LEMMA Releases ==
    ASSUME WellTyped, JobsApart, NEW t \in Threads, Alone(t),
           queue' = queue, active' = active \ {Hand(t)}, Hand(t)' = TestId
    PROVE  JobsApart'
<1>1. Hands' = [Hands EXCEPT ![t] = TestId] /\ Hands[t] = Hand(t)
  BY HandsOfStep
<1>2. Hands \in [Threads -> {TestId} \union Ids]
  BY HandsType
<1>3. Apart(queue, Hands', active')
  BY <1>1, <1>2, ApartRelease DEF JobsApart
<1> QED BY <1>3 DEF JobsApart

--------------------------------------------------------------------------------
LEMMA ApartPutJob ==
    ASSUME WellTyped, JobsApart, NEW t \in {"main", "sched"}, PutJob(t)
    PROVE  JobsApart'
<1>0. /\ t \in Threads /\ t # "worker"
      /\ job[t] \in Jobs
      /\ Returned(t) \notin {"push", "undo", "save", "unclaim"}
      /\ Refused(t) \notin {"push", "undo", "save", "unclaim"}
  BY DEF WellTyped, TypeOK, Threads, Returned, Refused
<1>1. CASE PutCheck(t)
  <2>1. Alone(t) /\ pc[t] = "check" /\ queue' = queue /\ active' = active /\ job' = job
        /\ pc'[t] = IF ~accepting THEN Refused(t)
                    ELSE IF Durable(job[t]) THEN "claim" ELSE "push"
    BY <1>0, <1>1, GotoAlone DEF PutCheck, jobs
  <2>2. Hand(t) = TestId /\ Hand(t)' = TestId
    BY <1>0, <2>1 DEF Hand, Holding, Durable
  <2> QED BY <1>0, <2>1, <2>2, Quiet
<1>2. CASE PutClaim(t)
  <2>1. /\ Alone(t) /\ pc[t] = "claim" /\ queue' = queue /\ job' = job
        /\ active' = active \union {job[t].id}
        /\ pc'[t] = IF job[t].id \in active THEN Refused(t) ELSE "push"
    BY <1>0, <1>2, GotoAlone DEF PutClaim
  <2>2. job[t].id \in Ids
    BY <1>0, <2>1, DurableJob DEF DurablePoints
  <2>3. Hand(t) = TestId
    BY <1>0, <2>1 DEF Hand, Holding
  <2>4. CASE job[t].id \in active
    <3>1. active' = active /\ Hand(t)' = TestId
      BY <1>0, <2>1, <2>4 DEF Hand, Holding
    <3> QED BY <1>0, <2>1, <2>3, <3>1, Quiet
  <2>5. CASE job[t].id \notin active
    <3>1. Hand(t)' = job[t].id
      BY <1>0, <2>1, <2>5 DEF Hand, Holding
    <3> QED BY <1>0, <2>1, <2>2, <2>3, <2>5, <3>1, Claims
  <2> QED BY <2>4, <2>5
<1>3. CASE PutPush(t)
  <2>1. Alone(t) /\ pc[t] = "push" /\ active' = active /\ job' = job
    BY <1>0, <1>3, GotoAlone DEF PutPush
  <2>2. Hand(t) = job[t].id
    BY <1>0, <2>1 DEF Hand, Holding
  <2>3. CASE Len(queue) < MaxQueue
    <3>1. queue' = Append(queue, job[t]) /\ pc'[t] = Returned(t)
      BY <1>0, <1>3, <2>3, GotoAlone DEF PutPush
    <3>2. Hand(t)' = TestId
      BY <1>0, <2>1, <3>1 DEF Hand, Holding
    <3> QED BY <1>0, <2>1, <2>2, <3>1, <3>2, Puts
  <2>4. CASE ~(Len(queue) < MaxQueue)
    <3>1. queue' = queue /\ pc'[t] = IF Durable(job[t]) THEN "undo" ELSE Refused(t)
      BY <1>0, <1>3, <2>4, GotoAlone DEF PutPush
    <3>2. Hand(t)' = job[t].id
      BY <1>0, <2>1, <3>1 DEF Hand, Holding, Durable
    <3> QED BY <1>0, <2>1, <2>2, <3>1, <3>2, Quiet
  <2> QED BY <2>3, <2>4
<1>4. CASE PutUndo(t)
  <2>1. /\ Alone(t) /\ pc[t] = "undo" /\ queue' = queue /\ job' = job
        /\ active' = active \ {job[t].id} /\ pc'[t] = Refused(t)
    BY <1>0, <1>4, GotoAlone DEF PutUndo
  <2>2. Hand(t) = job[t].id /\ Hand(t)' = TestId
    BY <1>0, <2>1 DEF Hand, Holding
  <2> QED BY <1>0, <2>1, <2>2, Releases
<1> QED BY <1>1, <1>2, <1>3, <1>4 DEF PutJob

LEMMA ApartMain ==
    ASSUME WellTyped, JobsApart, MainStep
    PROVE  JobsApart'
<1>1. CASE Recover
  <2>1. /\ Alone("main") /\ queue' = queue /\ active' = active
        /\ Hand("main") = TestId /\ Hand("main")' = TestId
    BY <1>1, GotoAlone DEF Recover, Hand, Holding, Threads, jobs
  <2> QED BY <2>1, Quiet DEF Threads
<1>2. CASE Insert
  <2>1. Goto("main", "insert", "check") /\ \E j : job' = [job EXCEPT !["main"] = j]
    BY <1>2 DEF Insert
  <2>2. Alone("main") /\ pc["main"] = "insert" /\ pc'["main"] = "check"
    BY <2>1, GotoAlone DEF Threads
  <2>3. queue' = queue /\ active' = active
    BY <1>2 DEF Insert, jobs
  <2>4. Hand("main") = TestId /\ Hand("main")' = TestId
    BY <2>2 DEF Hand, Holding
  <2> QED BY <2>2, <2>3, <2>4, Quiet DEF Threads
<1>3. CASE InsertFails
  <2>1. /\ Alone("main") /\ queue' = queue /\ active' = active
        /\ Hand("main") = TestId /\ Hand("main")' = TestId
    BY <1>3, GotoAlone DEF InsertFails, Hand, Holding, Threads, jobs
  <2> QED BY <2>1, Quiet DEF Threads
<1>4. CASE MarkRefused
  <2>1. /\ Alone("main") /\ queue' = queue /\ active' = active
        /\ Hand("main") = TestId /\ Hand("main")' = TestId
    BY <1>4, GotoAlone DEF MarkRefused, Hand, Holding, Threads, jobs, Returned
  <2> QED BY <2>1, Quiet DEF Threads
<1>5. CASE Requeue
  <2>1. /\ Alone("main") /\ queue' = queue /\ active' = active
        /\ Hand("main") = TestId /\ Hand("main")' = TestId
    BY <1>5, GotoAlone DEF Requeue, Hand, Holding, Threads, jobs
  <2> QED BY <2>1, Quiet DEF Threads
<1>6. CASE SetStop
  <2>1. /\ Alone("main") /\ queue' = queue /\ active' = active
        /\ Hand("main") = TestId /\ Hand("main")' = TestId
    BY <1>6, GotoAlone DEF SetStop, Hand, Holding, Threads, jobs
  <2> QED BY <2>1, Quiet DEF Threads
<1>7. CASE DrainEmpty
  <2>1. /\ Alone("main") /\ queue' = queue /\ active' = active
        /\ Hand("main") = TestId /\ Hand("main")' = TestId
    BY <1>7, GotoAlone DEF DrainEmpty, Hand, Holding, Threads, jobs
  <2> QED BY <2>1, Quiet DEF Threads
<1>8. CASE DrainSave
  <2>1. /\ Alone("main") /\ queue' = queue /\ active' = active
        /\ Hand("main") = job["main"].id /\ Hand("main")' = job["main"].id
    BY <1>8, GotoAlone DEF DrainSave, Hand, Holding, Threads, jobs
  <2> QED BY <2>1, Quiet DEF Threads
<1>9. CASE Drain
  <2>1. /\ Alone("main") /\ queue # << >> /\ queue' = Tail(queue) /\ active' = active
        /\ pc["main"] = "drain" /\ job'["main"] = Head(queue)
        /\ pc'["main"] = IF Durable(Head(queue)) THEN "save" ELSE "drain"
    BY <1>9, GotoAlone DEF WellTyped, TypeOK, Drain, Threads
  <2>2. Hand("main") = TestId /\ Hand("main")' = Head(queue).id
    BY <2>1 DEF Hand, Holding, Durable
  <2> QED BY <2>1, <2>2, Takes DEF Threads
<1>10. CASE DrainRelease
  <2>1. /\ Alone("main") /\ queue' = queue /\ active' = active \ {job["main"].id}
        /\ Hand("main") = job["main"].id /\ Hand("main")' = TestId
    BY <1>10, GotoAlone DEF DrainRelease, Hand, Holding, Threads
  <2> QED BY <2>1, Releases DEF Threads
<1>11. CASE PutPoison
  <2>1. /\ Alone("main") /\ active' = active
        /\ Hand("main") = TestId /\ Hand("main")' = TestId
    BY <1>11, GotoAlone DEF PutPoison, Hand, Holding, Threads
  <2>2. Poison.id = TestId
    BY DEF Poison, Job
  <2>3. queue' = queue \/ queue' = Append(queue, Poison)
    BY <1>11 DEF PutPoison
  <2> QED BY <2>1, <2>2, <2>3, PoisonJob, Quiet, Puts DEF Threads
<1>12. CASE PutJob("main")
  BY <1>12, ApartPutJob
<1> QED BY <1>1, <1>2, <1>3, <1>4, <1>5, <1>6, <1>7, <1>8, <1>9, <1>10, <1>11, <1>12 DEF MainStep

LEMMA ApartUser ==
    ASSUME WellTyped, JobsApart, User
    PROVE  JobsApart'
<1>1. ASSUME NEW s \in SettingsChoices, Configure(s)
      PROVE  JobsApart'
  <2>1. /\ Alone("main") /\ queue' = queue /\ active' = active
        /\ Hand("main") = TestId /\ Hand("main")' = TestId
    BY <1>1 DEF WellTyped, TypeOK, Configure, Alone, Hand, Holding, Threads, jobs
  <2> QED BY <2>1, Quiet DEF Threads
<1>2. ASSUME NEW i \in Ids, ManualRetry(i)
      PROVE  JobsApart'
  <2>1. Goto("main", "idle", "requeue") /\ \E j : job' = [job EXCEPT !["main"] = j]
    BY <1>2 DEF ManualRetry
  <2>2. Alone("main") /\ pc["main"] = "idle" /\ pc'["main"] = "requeue"
    BY <2>1, GotoAlone DEF Threads
  <2>3. queue' = queue /\ active' = active
    BY <1>2 DEF ManualRetry, jobs
  <2>4. Hand("main") = TestId /\ Hand("main")' = TestId
    BY <2>2 DEF Hand, Holding
  <2> QED BY <2>2, <2>3, <2>4, Quiet DEF Threads
<1>3. ASSUME NEW p \in Providers, EnqueueTest(p)
      PROVE  JobsApart'
  <2>1. Goto("main", "idle", "check") /\ \E j : job' = [job EXCEPT !["main"] = j]
    BY <1>3 DEF EnqueueTest
  <2>2. Alone("main") /\ pc["main"] = "idle" /\ pc'["main"] = "check"
    BY <2>1, GotoAlone DEF Threads
  <2>3. queue' = queue /\ active' = active
    BY <1>3 DEF EnqueueTest, jobs
  <2>4. Hand("main") = TestId /\ Hand("main")' = TestId
    BY <2>2 DEF Hand, Holding
  <2> QED BY <2>2, <2>3, <2>4, Quiet DEF Threads
<1>4. CASE Enqueue
  <2>1. /\ Alone("main") /\ queue' = queue /\ active' = active
        /\ Hand("main") = TestId /\ Hand("main")' = TestId
    BY <1>4, GotoAlone DEF Enqueue, Hand, Holding, Threads, jobs
  <2> QED BY <2>1, Quiet DEF Threads
<1>5. CASE ClearHistory
  <2>1. /\ Alone("main") /\ queue' = queue /\ active' = active
        /\ Hand("main") = TestId /\ Hand("main")' = TestId
    BY <1>5, GotoAlone DEF ClearHistory, Hand, Holding, Threads, jobs
  <2> QED BY <2>1, Quiet DEF Threads
<1>6. CASE Shutdown
  <2>1. /\ Alone("main") /\ queue' = queue /\ active' = active
        /\ Hand("main") = TestId /\ Hand("main")' = TestId
    BY <1>6, GotoAlone DEF Shutdown, Hand, Holding, Threads, jobs
  <2> QED BY <2>1, Quiet DEF Threads
<1> QED BY <1>1, <1>2, <1>3, <1>4, <1>5, <1>6 DEF User

LEMMA ApartSched ==
    ASSUME WellTyped, JobsApart, SchedStep
    PROVE  JobsApart'
<1>1. CASE SchedTop
  <2>1. /\ Alone("sched") /\ queue' = queue /\ active' = active
        /\ Hand("sched") = TestId /\ Hand("sched")' = TestId
    BY <1>1, GotoAlone DEF SchedTop, Hand, Holding, Threads, jobs
  <2> QED BY <2>1, Quiet DEF Threads
<1>2. CASE SchedSettings
  <2>1. /\ Alone("sched") /\ queue' = queue /\ active' = active
        /\ Hand("sched") = TestId /\ Hand("sched")' = TestId
    BY <1>2, GotoAlone DEF SchedSettings, Hand, Holding, Threads, jobs
  <2> QED BY <2>1, Quiet DEF Threads
<1>3. CASE SchedQuery
  <2>1. /\ Alone("sched") /\ queue' = queue /\ active' = active
        /\ Hand("sched") = TestId /\ Hand("sched")' = TestId
    BY <1>3, GotoAlone DEF SchedQuery, Hand, Holding, Threads, jobs
  <2> QED BY <2>1, Quiet DEF Threads
<1>4. CASE SchedLoopEnd
  <2>1. /\ Alone("sched") /\ queue' = queue /\ active' = active
        /\ Hand("sched") = TestId /\ Hand("sched")' = TestId
    BY <1>4, GotoAlone DEF SchedLoopEnd, Hand, Holding, Threads, jobs
  <2> QED BY <2>1, Quiet DEF Threads
<1>5. ASSUME NEW r \in snap, SchedGiveUp(r)
      PROVE  JobsApart'
  <2>1. /\ Alone("sched") /\ queue' = queue /\ active' = active
        /\ Hand("sched") = TestId /\ Hand("sched")' = TestId
    BY <1>5, GotoAlone DEF SchedGiveUp, Hand, Holding, Threads, jobs
  <2> QED BY <2>1, Quiet DEF Threads
<1>6. ASSUME NEW r \in snap, SchedSkip(r)
      PROVE  JobsApart'
  <2>1. /\ Alone("sched") /\ queue' = queue /\ active' = active
        /\ Hand("sched") = TestId /\ Hand("sched")' = TestId
    BY <1>6, GotoAlone DEF SchedSkip, Hand, Holding, Threads, jobs
  <2> QED BY <2>1, Quiet DEF Threads
<1>7. ASSUME NEW r \in snap, SchedPut(r)
      PROVE  JobsApart'
  <2>1. Goto("sched", "loop", "check") /\ \E j : job' = [job EXCEPT !["sched"] = j]
    BY <1>7 DEF SchedPut
  <2>2. Alone("sched") /\ pc["sched"] = "loop" /\ pc'["sched"] = "check"
    BY <2>1, GotoAlone DEF Threads
  <2>3. queue' = queue /\ active' = active
    BY <1>7 DEF SchedPut, jobs
  <2>4. Hand("sched") = TestId /\ Hand("sched")' = TestId
    BY <2>2 DEF Hand, Holding
  <2> QED BY <2>2, <2>3, <2>4, Quiet DEF Threads
<1>8. CASE PutJob("sched")
  BY <1>8, ApartPutJob
<1> QED BY <1>1, <1>2, <1>3, <1>4, <1>5, <1>6, <1>7, <1>8 DEF SchedStep

\* Between taking a job and releasing it the worker holds it.
LEMMA ApartWorkerHolds ==
    ASSUME WellTyped, JobsApart, NEW from, NEW to, Goto("worker", from, to),
           from \notin {"get", "done"}, to \notin {"get", "done"},
           queue' = queue, active' = active, job' = job
    PROVE  JobsApart'
<1>1. Alone("worker") /\ pc["worker"] = from /\ pc'["worker"] = to
  BY GotoAlone DEF Threads
<1>2. Hand("worker") = job["worker"].id /\ Hand("worker")' = job["worker"].id
  BY <1>1 DEF Hand, Holding
<1> QED BY <1>1, <1>2, Quiet DEF Threads

LEMMA ApartWorker ==
    ASSUME WellTyped, JobsApart, WorkerStep
    PROVE  JobsApart'
<1>1. CASE WorkerGet
  <2>1. /\ Alone("worker") /\ queue # << >> /\ queue' = Tail(queue) /\ active' = active
        /\ pc["worker"] = "get" /\ job'["worker"] = Head(queue)
        /\ pc'["worker"] = IF Head(queue) = Poison THEN "done" ELSE "start"
    BY <1>1, GotoAlone DEF WellTyped, TypeOK, WorkerGet, Threads
  <2>2. Poison.id = TestId
    BY DEF Poison, Job
  <2>3. Hand("worker") = TestId /\ Hand("worker")' = Head(queue).id
    BY <2>1, <2>2 DEF Hand, Holding
  <2> QED BY <2>1, <2>3, Takes DEF Threads
<1>2. CASE WorkerRelease
  <2>1. /\ Alone("worker") /\ queue' = queue /\ active' = active \ {job["worker"].id}
        /\ Hand("worker") = job["worker"].id /\ Hand("worker")' = TestId
    BY <1>2, GotoAlone DEF WorkerRelease, Hand, Holding, Threads
  <2> QED BY <2>1, Releases DEF Threads
<1>3. CASE WorkerStart
  BY <1>3, ApartWorkerHolds DEF WorkerStart, jobs
<1>4. CASE WorkerBegin
  BY <1>4, ApartWorkerHolds DEF WorkerBegin, jobs
<1>5. CASE WorkerAttempt
  BY <1>5, ApartWorkerHolds DEF WorkerAttempt, IfDurable, jobs
<1>6. CASE WorkerRecord
  BY <1>6, ApartWorkerHolds DEF WorkerRecord, jobs
<1>7. CASE WorkerPause
  BY <1>7, ApartWorkerHolds DEF WorkerPause, IfDurable, jobs
<1>8. CASE WorkerDelivered
  BY <1>8, ApartWorkerHolds DEF WorkerDelivered, jobs
<1>9. CASE WorkerDecide
  BY <1>9, ApartWorkerHolds DEF WorkerDecide, jobs
<1>10. CASE WorkerSchedule
  BY <1>10, ApartWorkerHolds DEF WorkerSchedule, jobs
<1>11. CASE WorkerFail
  BY <1>11, ApartWorkerHolds DEF WorkerFail, jobs
<1>12. CASE WorkerPreserve
  BY <1>12, ApartWorkerHolds DEF WorkerPreserve, jobs
<1>13. ASSUME NEW r \in Results, WorkerSend(r)
      PROVE  JobsApart'
  BY <1>13, ApartWorkerHolds DEF WorkerSend, AfterAttempt, IfDurable, jobs
<1> QED BY <1>1, <1>2, <1>3, <1>4, <1>5, <1>6, <1>7, <1>8, <1>9, <1>10, <1>11, <1>12, <1>13
        DEF WorkerStep

LEMMA ApartNext == WellTyped /\ JobsApart /\ [Next]_vars => JobsApart'
<1> SUFFICES ASSUME WellTyped, JobsApart, [Next]_vars PROVE JobsApart'
  OBVIOUS
<1>1. CASE MainStep
  BY <1>1, ApartMain
<1>2. CASE User
  BY <1>2, ApartUser
<1>3. CASE SchedStep
  BY <1>3, ApartSched
<1>4. CASE WorkerStep
  BY <1>4, ApartWorker
<1>5. CASE \E i \in Ids : Due(i)
  <2>1. pc' = pc /\ job' = job /\ queue' = queue /\ active' = active
    BY <1>5 DEF Due, jobs
  <2> QED BY <2>1 DEF JobsApart, Apart, Hands, Holding
<1>6. CASE Restart
  BY <1>6
     DEF Restart, JobsApart, Apart, Hands, Holding, Entry, Poison, Job, TestId, Ids, Threads
<1>7. CASE Stopped \/ UNCHANGED vars
  <2>1. pc' = pc /\ job' = job /\ queue' = queue /\ active' = active
    BY <1>7 DEF Stopped, vars
  <2> QED BY <2>1 DEF JobsApart, Apart, Hands, Holding
<1> QED BY <1>1, <1>2, <1>3, <1>4, <1>5, <1>6, <1>7 DEF Next

LEMMA LiveJobsApart ==
    ASSUME WellTyped
    PROVE  JobsApart => OneLiveJob
<1>1. \A t \in Threads : Hands[t] = IF Holding(t) THEN job[t].id ELSE TestId
  BY DEF Hands
<1>2. TestId \notin Ids
  BY DEF TestId, Ids
<1>3. \A k \in 1 .. Len(queue) : queue[k].id \in {TestId} \union Ids
  <2>1. \A k \in 1 .. Len(queue) : queue[k] \in Jobs
    BY DEF WellTyped, TypeOK
  <2> QED BY <2>1 DEF Jobs
<1>4. \A t \in Threads : job[t].id \in {TestId} \union Ids
  BY DEF WellTyped, TypeOK, Jobs
<1> QED BY <1>1, <1>2, <1>3, <1>4 DEF JobsApart, OneLiveJob, Apart, Live, Durable

\* _put_job's comment, "one in-process delivery ID must map to at most one live
\* job", holds of every behaviour: no row is ever both queued and being worked
\* on, or worked on twice, and an id is active exactly as long as it is live.
THEOREM LiveJobIsUnique == Spec => []OneLiveJob
<1>1. Init => WellTyped /\ JobsApart
  BY WellTypedInit, ApartInit
<1>2. WellTyped /\ JobsApart /\ [Next]_vars => (WellTyped /\ JobsApart)'
  BY WellTypedNext, ApartNext
<1>3. WellTyped /\ JobsApart => OneLiveJob
  BY LiveJobsApart
<1> QED BY <1>1, <1>2, <1>3, PTL DEF Spec

--------------------------------------------------------------------------------
\* A step of the Tk thread leaves the two other threads where they are.
LEMMA TkFrame ==
    ASSUME WellTyped, MainStep \/ User
    PROVE  /\ \A t \in {"worker", "sched"} : pc'[t] = pc[t] /\ job'[t] = job[t]
           /\ UNCHANGED <<work, ghost, retry, crashes>>
<1> USE DEF WellTyped, TypeOK, Threads, Goto
<1>1. CASE MainStep
  BY <1>1 DEF MainStep, Recover, Insert, InsertFails, MarkRefused, Requeue, PutJob, PutCheck,
              PutClaim, PutPush, PutUndo, SetStop, Drain, DrainSave, DrainRelease, DrainEmpty,
              PutPoison, bounds
<1>2. CASE User
  BY <1>2 DEF User, Configure, Enqueue, ManualRetry, EnqueueTest, ClearHistory, Shutdown, bounds
<1> QED BY <1>1, <1>2

LEMMA SchedFrame ==
    ASSUME WellTyped, SchedStep
    PROVE  /\ \A t \in {"worker", "main"} : pc'[t] = pc[t] /\ job'[t] = job[t]
           /\ UNCHANGED <<nextId, conf, life, tk, work, ghost, bounds>>
  BY DEF WellTyped, TypeOK, Threads, Goto, SchedStep, SchedTop, SchedSettings, SchedQuery,
         SchedLoopEnd, SchedGiveUp, SchedSkip, SchedPut, PutJob, PutCheck, PutClaim, PutPush,
         PutUndo, store

LEMMA WorkerFrame ==
    ASSUME WellTyped, WorkerStep
    PROVE  /\ \A t \in {"main", "sched"} : pc'[t] = pc[t] /\ job'[t] = job[t]
           /\ UNCHANGED <<nextId, conf, life, tk, retry, bounds>>
  BY DEF WellTyped, TypeOK, Threads, Goto, WorkerStep, WorkerGet, WorkerStart, WorkerBegin,
         WorkerAttempt, WorkerRecord, WorkerSend, WorkerPause, WorkerDelivered, WorkerDecide,
         WorkerSchedule, WorkerFail, WorkerPreserve, WorkerRelease, store

\* Only an attempt begun before the stop event is made after it.
StopInv ==
    /\ late <= 1
    /\ late > 0 => stop /\ pc["worker"] \notin {"record", "send"}

LEMMA StopStep == WellTyped /\ StopInv /\ [Next]_vars => StopInv'
<1> SUFFICES ASSUME WellTyped, StopInv, [Next]_vars PROVE StopInv'
  OBVIOUS
<1> USE DEF WellTyped, TypeOK, StopInv
<1>1. CASE MainStep \/ User
  <2>1. late' = late /\ pc'["worker"] = pc["worker"]
    BY <1>1, TkFrame DEF ghost
  <2>2. stop => stop'
    BY <1>1 DEF MainStep, Recover, Insert, InsertFails, MarkRefused, Requeue, PutJob, PutCheck,
                PutClaim, PutPush, PutUndo, SetStop, Drain, DrainSave, DrainRelease, DrainEmpty,
                PutPoison, User, Configure, Enqueue, ManualRetry, EnqueueTest, ClearHistory,
                Shutdown, life
  <2> QED BY <2>1, <2>2
<1>2. CASE SchedStep
  BY <1>2, SchedFrame DEF ghost, life
<1>3. CASE WorkerStep
  <2>1. stop' = stop
    BY <1>3, WorkerFrame DEF life
  <2>2. CASE \E r \in Results : WorkerSend(r)
    BY <2>1, <2>2 DEF WorkerSend, Goto, AfterAttempt, IfDurable, Threads
  <2>3. CASE ~\E r \in Results : WorkerSend(r)
    BY <1>3, <2>1, <2>3
       DEF WorkerStep, WorkerGet, WorkerStart, WorkerBegin, WorkerAttempt, WorkerRecord,
           WorkerPause,
           WorkerDelivered, WorkerDecide, WorkerSchedule, WorkerFail, WorkerPreserve,
           WorkerRelease, Goto, IfDurable, Threads, ghost
  <2> QED BY <2>2, <2>3
<1>4. CASE (\E i \in Ids : Due(i)) \/ Stopped \/ UNCHANGED vars
  BY <1>4 DEF Due, Stopped, vars, ghost, life
<1>5. CASE Restart
  BY <1>5 DEF Restart
<1> QED BY <1>1, <1>2, <1>3, <1>4, <1>5 DEF Next

\* After the stop event at most the attempt under way reaches the endpoint.
THEOREM StopIsPrompt == Spec => []StopQuiesces
<1>1. Init => WellTyped /\ StopInv
  BY WellTypedInit DEF Init, StopInv
<1>2. WellTyped /\ StopInv /\ [Next]_vars => (WellTyped /\ StopInv)'
  BY WellTypedNext, StopStep
<1>3. StopInv => StopQuiesces
  BY DEF StopInv, StopQuiesces
<1> QED BY <1>1, <1>2, <1>3, PTL DEF Spec
================================================================================
