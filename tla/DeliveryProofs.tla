------------------------------ MODULE DeliveryProofs ---------------------------
(***************************************************************************)
(* Theorems about the rows of NotificationManager and who answers for them, *)
(* for every value of its constants.                                        *)
(*                                                                          *)
(* First what each step writes: RowSteps says what one step may make of one *)
(* row.  From it follow the two history properties, the account of QUEUED   *)
(* rows (QueuedInv), and that every step of the manager is a step of        *)
(* DeliveryLedger or none (LedgerStep).  Last, what an endpoint sees of a   *)
(* row where delayed retries are off: OnceInv bounds what it accepts, and   *)
(* SentInv what it is sent.                                                 *)
(***************************************************************************)
EXTENDS NotificationManagerProofs

\* The statuses of a table, and what a statement makes of them: row i, if there is
\* one, becomes s; settled rows may leave the history.
StatusOf(t) == [i \in Ids |-> t[i].status]
SetStatus(t, i, s) == [k \in Ids |-> IF k = i /\ t[i].status # "ABSENT" THEN s ELSE t[k].status]
Thinned(st, t) ==
    \A k \in Ids : t[k].status = st[k] \/ (st[k] \in TERMINAL_STATUSES /\ t[k].status = "ABSENT")

LEMMA PruneThins ==
    ASSUME NEW t \in [Ids -> Rows]
    PROVE  Thinned(StatusOf(t), prune_terminal(t))
  BY DEF Thinned, StatusOf, prune_terminal, WithStatus, AbsentRow

LEMMA UpdateStatus ==
    ASSUME NEW t \in [Ids -> Rows], NEW i \in Ids, NEW row \in Rows
    PROVE  \A k \in Ids : Update(t, i, AnyStatus, row)[k].status
                            = IF k = i /\ t[i].status # "ABSENT" THEN row.status ELSE t[k].status
<1>1. t[i].status \in AnyStatus <=> t[i].status # "ABSENT"
  BY DEF Rows, Statuses, AnyStatus, OPEN_STATUSES, TERMINAL_STATUSES
<1> QED BY <1>1 DEF Update

\* What each statement does to the statuses.
LEMMA StatementEffects ==
    ASSUME NEW t \in [Ids -> Rows], NEW i \in Ids
    PROVE  /\ StatusOf(record_attempt(t, i)) = StatusOf(t)
           /\ StatusOf(begin_delayed_retry(t, i)) = StatusOf(t)
           /\ Thinned(SetStatus(t, i, "DELIVERED"), mark_delivered(t, i))
           /\ Thinned(SetStatus(t, i, "FAILED"), mark_failed(t, i))
           /\ \A w \in {"none", "later", "now"} :
                  StatusOf(schedule_retry(t, i, w)) = SetStatus(t, i, "RETRYING")
           /\ StatusOf(mark_queued(t, i))
                = IF t[i].status = "FAILED" THEN SetStatus(t, i, "QUEUED") ELSE StatusOf(t)
           /\ \A p \in Providers :
                  Thinned([StatusOf(t) EXCEPT ![i] = "QUEUED"], insert_delivery(t, i, p))
<1>0. t[i] \in Rows
  OBVIOUS
<1>1. StatusOf(record_attempt(t, i)) = StatusOf(t)
  BY <1>0 DEF StatusOf, record_attempt, Update, Rows
<1>2. StatusOf(begin_delayed_retry(t, i)) = StatusOf(t)
  BY <1>0 DEF StatusOf, begin_delayed_retry, Update, Rows
<1>3. Thinned(SetStatus(t, i, "DELIVERED"), mark_delivered(t, i))
  <2> DEFINE row == [t[i] EXCEPT !.status = "DELIVERED", !.next = "none"]
             u == Update(t, i, AnyStatus, row)
  <2>1. row \in Rows /\ row.status = "DELIVERED"
    BY <1>0 DEF Rows, Statuses, TERMINAL_STATUSES
  <2> HIDE DEF row
  <2>2. u \in [Ids -> Rows]
    BY <2>1, UpdateType
  <2>3. StatusOf(u) = SetStatus(t, i, "DELIVERED")
    BY <2>1, UpdateStatus DEF StatusOf, SetStatus
  <2> QED BY <2>2, <2>3, PruneThins DEF mark_delivered, row
<1>4. Thinned(SetStatus(t, i, "FAILED"), mark_failed(t, i))
  <2> DEFINE row == [t[i] EXCEPT !.status = "FAILED", !.next = "none"]
             u == Update(t, i, AnyStatus, row)
  <2>1. row \in Rows /\ row.status = "FAILED"
    BY <1>0 DEF Rows, Statuses, TERMINAL_STATUSES
  <2> HIDE DEF row
  <2>2. u \in [Ids -> Rows]
    BY <2>1, UpdateType
  <2>3. StatusOf(u) = SetStatus(t, i, "FAILED")
    BY <2>1, UpdateStatus DEF StatusOf, SetStatus
  <2> QED BY <2>2, <2>3, PruneThins DEF mark_failed, row
<1>5. ASSUME NEW w \in {"none", "later", "now"}
      PROVE  StatusOf(schedule_retry(t, i, w)) = SetStatus(t, i, "RETRYING")
  <2> DEFINE row == [t[i] EXCEPT !.status = "RETRYING", !.next = w]
  <2>1. row \in Rows /\ row.status = "RETRYING"
    BY <1>0 DEF Rows, Statuses, OPEN_STATUSES
  <2> HIDE DEF row
  <2>2. StatusOf(Update(t, i, AnyStatus, row)) = SetStatus(t, i, "RETRYING")
    BY <2>1, UpdateStatus DEF StatusOf, SetStatus
  <2> QED BY <2>2 DEF schedule_retry, row
<1>6. StatusOf(mark_queued(t, i))
        = IF t[i].status = "FAILED" THEN SetStatus(t, i, "QUEUED") ELSE StatusOf(t)
  BY <1>0 DEF StatusOf, SetStatus, mark_queued, Update, Rows
<1>7. ASSUME NEW p \in Providers
      PROVE  Thinned([StatusOf(t) EXCEPT ![i] = "QUEUED"], insert_delivery(t, i, p))
  <2> DEFINE row == [AbsentRow EXCEPT !.status = "QUEUED", !.provider = p]
             u == [t EXCEPT ![i] = row]
  <2>1. row \in Rows /\ row.status = "QUEUED"
    BY DEF AbsentRow, Rows, Statuses, OPEN_STATUSES
  <2> HIDE DEF row
  <2>2. u \in [Ids -> Rows] /\ StatusOf(u) = [StatusOf(t) EXCEPT ![i] = "QUEUED"]
    BY <2>1 DEF StatusOf
  <2> QED BY <2>2, PruneThins DEF insert_delivery, row
<1> QED BY <1>1, <1>2, <1>3, <1>4, <1>5, <1>6, <1>7

LEMMA TableEffects ==
    ASSUME NEW t \in [Ids -> Rows], NEW later \in BOOLEAN
    PROVE  /\ Thinned(StatusOf(t), clear_terminal(t))
           /\ \A k \in Ids : recover_interrupted(t, later)[k].status
                \in IF t[k].status = "QUEUED" THEN {"RETRYING", "FAILED"} ELSE {t[k].status}
<1>1. Thinned(StatusOf(t), clear_terminal(t))
  BY DEF Thinned, StatusOf, clear_terminal, AbsentRow
<1>2. ASSUME NEW k \in Ids
      PROVE  recover_interrupted(t, later)[k].status
                \in IF t[k].status = "QUEUED" THEN {"RETRYING", "FAILED"} ELSE {t[k].status}
  <2>1. t[k] \in Rows
    OBVIOUS
  <2> QED BY <2>1 DEF recover_interrupted, Rows
<1> QED BY <1>1, <1>2

\* The steps that write to the table.
LEMMA TableSteps ==
    ASSUME [Next]_vars
    PROVE  \/ db' = db
           \/ Recover \/ Insert \/ MarkRefused \/ Requeue \/ ClearHistory \/ DrainSave
           \/ \E r \in snap : SchedGiveUp(r)
           \/ WorkerBegin \/ WorkerRecord \/ WorkerDelivered \/ WorkerSchedule \/ WorkerFail
           \/ WorkerPreserve
           \/ \E i \in Ids : Due(i)
<1>1. CASE MainStep \/ User
  BY <1>1 DEF MainStep, InsertFails, PutJob, PutCheck, Fails,
              PutClaim, PutPush, PutUndo, SetStop, Drain, DrainRelease, DrainEmpty,
              PutPoison, User, Configure, Enqueue, ManualRetry, EnqueueTest, Shutdown, store
<1>2. CASE SchedStep
  BY <1>2 DEF SchedStep, SchedTop, SchedSettings, SchedQuery, SchedLoopEnd, SchedSkip, SchedPut,
              PutJob, PutCheck, PutClaim, PutPush, PutUndo, store
<1>3. CASE WorkerStep
  BY <1>3 DEF WorkerStep, WorkerGet, WorkerStart, WorkerAttempt, WorkerSend, WorkerPause,
              WorkerDecide, WorkerRelease, store
<1>4. CASE (\E i \in Ids : Due(i)) \/ Restart \/ Stopped \/ UNCHANGED vars
  BY <1>4 DEF Restart, Stopped, vars, store
<1> QED BY <1>1, <1>2, <1>3, <1>4 DEF Next

--------------------------------------------------------------------------------
\* A thread's write about the row of its job: refused, or one of S set.
Wrote(i, S) == /\ i \in Ids
               /\ \/ db' = db /\ failures' # 0
                  \/ \E s \in S : Thinned(SetStatus(db, i, s), db')

LEMMA WriteWrites ==
    ASSUME WellTyped, NEW i \in Ids, NEW S, NEW s \in S, NEW d, Write(d),
           Thinned(SetStatus(db, i, s), d) \/ StatusOf(d) = SetStatus(db, i, s)
    PROVE  Wrote(i, S)
<1>1. CASE Fails
  BY <1>1 DEF Fails, Wrote, WellTyped, TypeOK
<1>2. CASE db' = d
  <2>1. Thinned(SetStatus(db, i, s), d)
    BY DEF Thinned, StatusOf, SetStatus
  <2> QED BY <1>2, <2>1 DEF Wrote
<1> QED BY <1>1, <1>2 DEF Write

LEMMA Preserves ==
    ASSUME WellTyped, NEW t \in Threads, pc[t] \in DurablePoints(t),
           Write(preserve_interrupted(job[t]))
    PROVE  Wrote(job[t].id, {"RETRYING", "FAILED"})
<1>1. db \in [Ids -> Rows] /\ job[t].id \in Ids
  BY DurableJob DEF WellTyped, TypeOK
<1> DEFINE d == preserve_interrupted(job[t])
<1>2. CASE d = schedule_retry(db, job[t].id, "now")
  <2>1. StatusOf(d) = SetStatus(db, job[t].id, "RETRYING")
    BY <1>1, <1>2, StatementEffects
  <2> HIDE DEF d
  <2> QED BY <1>1, <2>1, WriteWrites DEF d
<1>3. CASE d = mark_failed(db, job[t].id)
  <2>1. Thinned(SetStatus(db, job[t].id, "FAILED"), d)
    BY <1>1, <1>3, StatementEffects
  <2> HIDE DEF d
  <2> QED BY <1>1, <2>1, WriteWrites DEF d
<1> QED BY <1>2, <1>3 DEF preserve_interrupted

\* What the steps that write about one row may make of it.
LEMMA JobSteps ==
    ASSUME WellTyped
    PROVE  /\ MarkRefused => Wrote(job["main"].id, {"FAILED"})
           /\ DrainSave => Wrote(job["main"].id, {"RETRYING", "FAILED"})
           /\ WorkerDelivered => Wrote(job["worker"].id, {"DELIVERED"})
           /\ WorkerSchedule => Wrote(job["worker"].id, {"RETRYING"})
           /\ WorkerFail => Wrote(job["worker"].id, {"FAILED"})
           /\ WorkerPreserve => Wrote(job["worker"].id, {"RETRYING", "FAILED"})
           /\ \A r \in snap : SchedGiveUp(r) => Wrote(r.id, {"FAILED"})
<1>0. db \in [Ids -> Rows] /\ "main" \in Threads /\ "worker" \in Threads
  BY DEF WellTyped, TypeOK, Threads
<1>1. ASSUME MarkRefused PROVE Wrote(job["main"].id, {"FAILED"})
  <2>1. job["main"].id \in Ids /\ Write(mark_failed(db, job["main"].id))
    BY <1>0, <1>1, DurableJob DEF MarkRefused, Goto, DurablePoints
  <2> DEFINE d == mark_failed(db, job["main"].id)
  <2>2. Thinned(SetStatus(db, job["main"].id, "FAILED"), d)
    BY <1>0, <2>1, StatementEffects
  <2> HIDE DEF d
  <2> QED BY <2>1, <2>2, WriteWrites DEF d
<1>2. ASSUME DrainSave PROVE Wrote(job["main"].id, {"RETRYING", "FAILED"})
  BY <1>0, <1>2, Preserves DEF DrainSave, Goto, DurablePoints
<1>3. ASSUME WorkerDelivered PROVE Wrote(job["worker"].id, {"DELIVERED"})
  <2>1. job["worker"].id \in Ids /\ Write(mark_delivered(db, job["worker"].id))
    BY <1>0, <1>3, DurableJob DEF WorkerDelivered, Goto, DurablePoints
  <2> DEFINE d == mark_delivered(db, job["worker"].id)
  <2>2. Thinned(SetStatus(db, job["worker"].id, "DELIVERED"), d)
    BY <1>0, <2>1, StatementEffects
  <2> HIDE DEF d
  <2> QED BY <2>1, <2>2, WriteWrites DEF d
<1>4. ASSUME WorkerSchedule PROVE Wrote(job["worker"].id, {"RETRYING"})
  <2>1. job["worker"].id \in Ids /\ Write(schedule_retry(db, job["worker"].id, "later"))
    BY <1>0, <1>4, DurableJob DEF WorkerSchedule, Goto, DurablePoints
  <2> DEFINE d == schedule_retry(db, job["worker"].id, "later")
  <2>2. StatusOf(d) = SetStatus(db, job["worker"].id, "RETRYING")
    BY <1>0, <2>1, StatementEffects
  <2> HIDE DEF d
  <2> QED BY <2>1, <2>2, WriteWrites DEF d
<1>5. ASSUME WorkerFail PROVE Wrote(job["worker"].id, {"FAILED"})
  <2>1. job["worker"].id \in Ids /\ Write(mark_failed(db, job["worker"].id))
    BY <1>0, <1>5, DurableJob DEF WorkerFail, Goto, DurablePoints
  <2> DEFINE d == mark_failed(db, job["worker"].id)
  <2>2. Thinned(SetStatus(db, job["worker"].id, "FAILED"), d)
    BY <1>0, <2>1, StatementEffects
  <2> HIDE DEF d
  <2> QED BY <2>1, <2>2, WriteWrites DEF d
<1>6. ASSUME WorkerPreserve PROVE Wrote(job["worker"].id, {"RETRYING", "FAILED"})
  BY <1>0, <1>6, Preserves DEF WorkerPreserve, Goto, DurablePoints
<1>7. ASSUME NEW r \in snap, SchedGiveUp(r) PROVE Wrote(r.id, {"FAILED"})
  <2>1. r.id \in Ids /\ Write(mark_failed(db, r.id))
    BY <1>7 DEF SchedGiveUp, WellTyped, TypeOK, DueRecords
  <2> DEFINE d == mark_failed(db, r.id)
  <2>2. Thinned(SetStatus(db, r.id, "FAILED"), d)
    BY <1>0, <2>1, StatementEffects
  <2> HIDE DEF d
  <2> QED BY <2>1, <2>2, WriteWrites DEF d
<1> QED BY <1>1, <1>2, <1>3, <1>4, <1>5, <1>6, <1>7

\* The other steps that write, row by row.
LEMMA OtherWrites ==
    ASSUME WellTyped
    PROVE  /\ Insert => /\ nextId \in Ids
                        /\ Thinned([StatusOf(db) EXCEPT ![nextId] = "QUEUED"], db')
           /\ Requeue => /\ job["main"].id \in Ids
                         /\ \/ StatusOf(db') = StatusOf(db)
                            \/ /\ db[job["main"].id].status = "FAILED"
                               /\ Thinned(SetStatus(db, job["main"].id, "QUEUED"), db')
           /\ ClearHistory => Thinned(StatusOf(db), db')
           /\ WorkerBegin \/ WorkerRecord \/ (\E i \in Ids : Due(i)) => StatusOf(db') = StatusOf(db)
           /\ Recover => \/ db' = db /\ failures' # 0
                         \/ \A k \in Ids : db'[k].status \in
                               IF db[k].status = "QUEUED" THEN {"RETRYING", "FAILED"}
                               ELSE {db[k].status}
<1>0. db \in [Ids -> Rows] /\ "main" \in Threads /\ "worker" \in Threads /\ failures \in Nat
      /\ settings.later \in BOOLEAN
  BY DEF WellTyped, TypeOK, Threads, SettingsRecords
<1>1. ASSUME Insert
      PROVE  nextId \in Ids /\ Thinned([StatusOf(db) EXCEPT ![nextId] = "QUEUED"], db')
  <2>1. nextId \in Ids /\ Head(todo) \in Providers
    BY <1>1, NextProvider DEF Insert, Goto
  <2> QED BY <1>0, <1>1, <2>1, StatementEffects DEF Insert
<1>2. ASSUME Requeue
      PROVE  /\ job["main"].id \in Ids
             /\ \/ StatusOf(db') = StatusOf(db)
                \/ /\ db[job["main"].id].status = "FAILED"
                   /\ Thinned(SetStatus(db, job["main"].id, "QUEUED"), db')
  <2>1. job["main"].id \in Ids
    BY <1>0, <1>2, DurableJob DEF Requeue, Goto, DurablePoints
  <2>2. db' = db \/ db' = mark_queued(db, job["main"].id)
    BY <1>2 DEF Requeue, Write, Fails
  <2> DEFINE i == job["main"].id
             d == mark_queued(db, i)
  <2>3. StatusOf(d) = IF db[i].status = "FAILED" THEN SetStatus(db, i, "QUEUED") ELSE StatusOf(db)
    BY <1>0, <2>1, StatementEffects
  <2> HIDE DEF d
  <2>4. CASE db[i].status = "FAILED" /\ db' = d
    <3>1. StatusOf(db') = SetStatus(db, i, "QUEUED")
      BY <2>3, <2>4
    <3>2. Thinned(SetStatus(db, i, "QUEUED"), db')
      BY <3>1 DEF Thinned, StatusOf, SetStatus
    <3> QED BY <2>1, <2>4, <3>2
  <2>5. CASE db[i].status # "FAILED" /\ db' = d
    BY <2>1, <2>3, <2>5
  <2> QED BY <2>1, <2>2, <2>4, <2>5 DEF d
<1>3. ASSUME ClearHistory PROVE Thinned(StatusOf(db), db')
  <2>1. db' = db \/ db' = clear_terminal(db)
    BY <1>3 DEF ClearHistory, Write, Fails
  <2> QED BY <1>0, <2>1, TableEffects DEF Thinned, StatusOf
<1>4. ASSUME WorkerBegin PROVE StatusOf(db') = StatusOf(db)
  <2>1. db' = db \/ db' = begin_delayed_retry(db, job["worker"].id)
    BY <1>4 DEF WorkerBegin, Write, Fails
  <2>2. job["worker"].id \in Ids
    BY <1>0, <1>4, DurableJob DEF WorkerBegin, Goto, DurablePoints
  <2> QED BY <1>0, <2>1, <2>2, StatementEffects
<1>5. ASSUME WorkerRecord PROVE StatusOf(db') = StatusOf(db)
  <2>1. db' = db \/ db' = record_attempt(db, job["worker"].id)
    BY <1>5 DEF WorkerRecord, Write, Fails
  <2>2. job["worker"].id \in Ids
    BY <1>0, <1>5, DurableJob DEF WorkerRecord, Goto, DurablePoints
  <2> QED BY <1>0, <2>1, <2>2, StatementEffects
<1>6. ASSUME NEW i \in Ids, Due(i) PROVE StatusOf(db') = StatusOf(db)
  <2>1. db[i] \in Rows /\ db' = [db EXCEPT ![i] = [db[i] EXCEPT !.next = "now"]]
    BY <1>0, <1>6 DEF Due
  <2>2. [db[i] EXCEPT !.next = "now"].status = db[i].status
    BY <2>1 DEF Rows
  <2> QED BY <1>0, <2>1, <2>2 DEF StatusOf
<1>7. ASSUME Recover
      PROVE  \/ db' = db /\ failures' # 0
             \/ \A k \in Ids : db'[k].status \in
                    IF db[k].status = "QUEUED" THEN {"RETRYING", "FAILED"} ELSE {db[k].status}
  <2>1. (db' = db /\ failures' = failures + 1) \/ db' = recover_interrupted(db, settings.later)
    BY <1>7 DEF Recover, Write, Fails
  <2> DEFINE d == recover_interrupted(db, settings.later)
  <2>2. \A k \in Ids : d[k].status \in
             IF db[k].status = "QUEUED" THEN {"RETRYING", "FAILED"} ELSE {db[k].status}
    BY <1>0, TableEffects
  <2> HIDE DEF d
  <2>3. CASE db' = db /\ failures' = failures + 1
    BY <1>0, <2>3
  <2>4. CASE db' = d
    BY <2>2, <2>4
  <2> QED BY <2>1, <2>3, <2>4 DEF d
<1> QED BY <1>1, <1>2, <1>3, <1>4, <1>5, <1>6, <1>7

--------------------------------------------------------------------------------
\* What one step may make of one row, and whose step it is.
Settles(k, i, S) == k = i /\ db[k].status # "ABSENT" /\ db'[k].status \in S \union {"ABSENT"}

LEMMA WroteRows ==
    ASSUME NEW i, NEW S, S \subseteq {"RETRYING", "FAILED", "DELIVERED"}, Wrote(i, S),
           NEW k \in Ids
    PROVE  \/ db'[k].status = db[k].status
           \/ db[k].status \in TERMINAL_STATUSES /\ db'[k].status = "ABSENT"
           \/ Settles(k, i, S)
<1>1. CASE db' = db
  BY <1>1
<1>2. ASSUME NEW s \in S, Thinned(SetStatus(db, i, s), db')
      PROVE  \/ db'[k].status = db[k].status
             \/ db[k].status \in TERMINAL_STATUSES /\ db'[k].status = "ABSENT"
             \/ Settles(k, i, S)
  <2>1. SetStatus(db, i, s)[k] = IF k = i /\ db[i].status # "ABSENT" THEN s ELSE db[k].status
    BY DEF SetStatus
  <2> QED BY <1>2, <2>1 DEF Thinned, Settles
<1> QED BY <1>1, <1>2 DEF Wrote

LEMMA RowSteps ==
    ASSUME WellTyped, [Next]_vars, NEW k \in Ids
    PROVE  \/ db'[k].status = db[k].status
           \/ db[k].status \in TERMINAL_STATUSES /\ db'[k].status = "ABSENT"
           \/ Insert /\ k = nextId /\ db'[k].status = "QUEUED"
           \/ Recover /\ db[k].status = "QUEUED" /\ db'[k].status \in {"RETRYING", "FAILED"}
           \/ /\ Requeue /\ k = job["main"].id
              /\ db[k].status = "FAILED" /\ db'[k].status = "QUEUED"
           \/ MarkRefused /\ Settles(k, job["main"].id, {"FAILED"})
           \/ DrainSave /\ Settles(k, job["main"].id, {"RETRYING", "FAILED"})
           \/ WorkerDelivered /\ Settles(k, job["worker"].id, {"DELIVERED"})
           \/ /\ WorkerSchedule \/ WorkerFail \/ WorkerPreserve
              /\ Settles(k, job["worker"].id, {"RETRYING", "FAILED"})
           \/ \E r \in snap : SchedGiveUp(r) /\ Settles(k, r.id, {"FAILED"})
<1>0. db \in [Ids -> Rows]
  BY DEF WellTyped, TypeOK
<1>1. CASE db' = db
  BY <1>1
<1>2. CASE Insert
  <2>1. nextId \in Ids /\ Thinned([StatusOf(db) EXCEPT ![nextId] = "QUEUED"], db')
    BY <1>2, OtherWrites
  <2>2. [StatusOf(db) EXCEPT ![nextId] = "QUEUED"][k]
            = IF k = nextId THEN "QUEUED" ELSE db[k].status
    BY <2>1 DEF StatusOf
  <2> QED BY <1>2, <2>1, <2>2 DEF Thinned, TERMINAL_STATUSES
<1>3. CASE Requeue
  <2>1. CASE StatusOf(db') = StatusOf(db)
    <3>1. StatusOf(db')[k] = db'[k].status /\ StatusOf(db)[k] = db[k].status
      BY DEF StatusOf
    <3> QED BY <2>1, <3>1
  <2>2. CASE /\ db[job["main"].id].status = "FAILED"
             /\ Thinned(SetStatus(db, job["main"].id, "QUEUED"), db')
    <3>1. SetStatus(db, job["main"].id, "QUEUED")[k]
            = IF k = job["main"].id /\ db[job["main"].id].status # "ABSENT"
              THEN "QUEUED" ELSE db[k].status
      BY DEF SetStatus
    <3> QED BY <1>3, <2>2, <3>1 DEF Thinned, TERMINAL_STATUSES
  <2> QED BY <1>3, <2>1, <2>2, OtherWrites
<1>4. CASE ClearHistory
  <2>1. Thinned(StatusOf(db), db')
    BY <1>4, OtherWrites
  <2> QED BY <2>1 DEF Thinned, StatusOf
<1>5. CASE WorkerBegin \/ WorkerRecord \/ \E i \in Ids : Due(i)
  <2>1. StatusOf(db') = StatusOf(db)
    BY <1>5, OtherWrites
  <2>2. StatusOf(db')[k] = db'[k].status /\ StatusOf(db)[k] = db[k].status
    BY DEF StatusOf
  <2> QED BY <2>1, <2>2
<1>6. CASE Recover
  BY <1>6, OtherWrites
<1>7. CASE MarkRefused
  <2>1. Wrote(job["main"].id, {"FAILED"})
    BY <1>7, JobSteps
  <2> QED BY <1>7, <2>1, WroteRows
<1>8. CASE DrainSave
  <2>1. Wrote(job["main"].id, {"RETRYING", "FAILED"})
    BY <1>8, JobSteps
  <2> QED BY <1>8, <2>1, WroteRows
<1>9. CASE WorkerDelivered
  <2>1. Wrote(job["worker"].id, {"DELIVERED"})
    BY <1>9, JobSteps
  <2> QED BY <1>9, <2>1, WroteRows
<1>10. CASE WorkerSchedule \/ WorkerFail \/ WorkerPreserve
  <2>1. Wrote(job["worker"].id, {"RETRYING", "FAILED"})
    BY <1>10, JobSteps DEF Wrote
  <2> QED BY <1>10, <2>1, WroteRows
<1>11. ASSUME NEW r \in snap, SchedGiveUp(r)
       PROVE  \/ db'[k].status = db[k].status
              \/ db[k].status \in TERMINAL_STATUSES /\ db'[k].status = "ABSENT"
              \/ SchedGiveUp(r) /\ Settles(k, r.id, {"FAILED"})
  <2>1. Wrote(r.id, {"FAILED"})
    BY <1>11, JobSteps
  <2> QED BY <1>11, <2>1, WroteRows
<1>12. CASE \E r \in snap : SchedGiveUp(r)
  BY <1>11, <1>12
<1> QED BY <1>1, <1>2, <1>3, <1>4, <1>5, <1>6, <1>7, <1>8, <1>9, <1>10, <1>12, TableSteps

\* OpenRowsSurvive for one step.
LEMMA OpenRowsStep ==
    ASSUME WellTyped, [Next]_vars, NEW i \in Ids \ Settling, db[i].status \in OPEN_STATUSES
    PROVE  db'[i].status # "ABSENT"
<1>1. db[i].status \notin TERMINAL_STATUSES /\ db[i].status # "ABSENT"
  BY DEF OPEN_STATUSES, TERMINAL_STATUSES
<1>2. \A t \in Threads : pc[t] \in {"delivered", "fail", "preserve", "save", "refuse"}
                         => i # job[t].id
  BY DEF Settling
<1>3. \A r \in snap : pc["sched"] = "loop" => i # r.id
  BY DEF Settling
<1>4. ~(MarkRefused /\ Settles(i, job["main"].id, {"FAILED"}))
  BY <1>2 DEF MarkRefused, Goto, Settles, Threads
<1>5. ~(DrainSave /\ Settles(i, job["main"].id, {"RETRYING", "FAILED"}))
  BY <1>2 DEF DrainSave, Goto, Settles, Threads
<1>6. ~(WorkerDelivered /\ Settles(i, job["worker"].id, {"DELIVERED"}))
  BY <1>2 DEF WorkerDelivered, Goto, Settles, Threads
<1>7. ~((WorkerFail \/ WorkerPreserve) /\ Settles(i, job["worker"].id, {"RETRYING", "FAILED"}))
  BY <1>2 DEF WorkerFail, WorkerPreserve, Goto, Settles, Threads
<1>8. \A r \in snap : ~(SchedGiveUp(r) /\ Settles(i, r.id, {"FAILED"}))
  BY <1>3 DEF SchedGiveUp, Goto, Settles
<1>9. CASE WorkerSchedule /\ Settles(i, job["worker"].id, {"RETRYING", "FAILED"})
  <2>1. Wrote(job["worker"].id, {"RETRYING"}) /\ i = job["worker"].id
    BY <1>9, JobSteps DEF Settles
  <2>2. SetStatus(db, i, "RETRYING")[i] = "RETRYING"
    BY <1>1 DEF SetStatus
  <2> QED BY <1>1, <2>1, <2>2 DEF Wrote, Thinned, TERMINAL_STATUSES
<1> QED BY <1>1, <1>4, <1>5, <1>6, <1>7, <1>8, <1>9, RowSteps

\* Whatever step makes room in the history, a QUEUED or RETRYING row leaves it only
\* with the outcome of its own delivery.
THEOREM OpenRowsStay == Spec => OpenRowsSurvive
<1>1. WellTyped /\ [Next]_vars
        => [\A i \in Ids \ Settling :
                db[i].status \in OPEN_STATUSES => db'[i].status # "ABSENT"]_vars
  BY OpenRowsStep
<1> QED BY <1>1, WellTypedInit, WellTypedNext, PTL DEF Spec, OpenRowsSurvive

--------------------------------------------------------------------------------
\* The worker reports what it has seen: at "delivered" the endpoint has accepted.
AcceptedInv ==
    /\ DeliveredWasAccepted
    /\ pc["worker"] = "delivered" => accepted[job["worker"].id] > 0

LEMMA AcceptedStep == WellTyped /\ AcceptedInv /\ [Next]_vars => AcceptedInv'
<1> SUFFICES ASSUME WellTyped, AcceptedInv, [Next]_vars PROVE AcceptedInv'
  OBVIOUS
<1>0. /\ accepted \in [Ids -> Nat] /\ job \in [Threads -> Jobs]
      /\ pc["worker"] = "delivered" => job["worker"].id \in Ids
      /\ pc \in [Threads -> MainPCs \union SchedPCs \union WorkerPCs]
  BY DurableJob DEF WellTyped, TypeOK, DurablePoints, Threads
<1>1. \A i \in Ids : accepted'[i] >= accepted[i]
  <2>1. CASE \E r \in Results : WorkerSend(r)
    BY <1>0, <2>1 DEF WorkerSend
  <2>2. CASE MainStep \/ User
    BY <1>0, <2>2, TkFrame DEF ghost
  <2>3. CASE SchedStep
    BY <1>0, <2>3, SchedFrame DEF ghost
  <2>4. CASE WorkerStep /\ ~\E r \in Results : WorkerSend(r)
    <3>1. accepted' = accepted
      BY <2>4 DEF WorkerStep, WorkerGet, WorkerStart, WorkerBegin, WorkerAttempt, WorkerRecord,
                  WorkerPause, WorkerDelivered, WorkerDecide, WorkerSchedule, WorkerFail,
                  WorkerPreserve, WorkerRelease, ghost
    <3> QED BY <1>0, <3>1
  <2>5. CASE (\E i \in Ids : Due(i)) \/ Restart \/ Stopped \/ UNCHANGED vars
    BY <1>0, <2>5 DEF Due, Restart, Stopped, vars, ghost
  <2> QED BY <2>1, <2>2, <2>3, <2>4, <2>5 DEF Next
<1>2. ASSUME NEW i \in Ids, db'[i].status = "DELIVERED" PROVE accepted'[i] > 0
  <2>1. CASE db[i].status = "DELIVERED"
    <3>1. accepted[i] > 0
      BY <2>1 DEF AcceptedInv, DeliveredWasAccepted, WithStatus
    <3>2. accepted[i] \in Nat /\ accepted'[i] \in Nat /\ accepted'[i] >= accepted[i]
      BY <1>0, <1>1, WellTypedNext DEF WellTyped, TypeOK
    <3> QED BY <3>1, <3>2
  <2>2. CASE db[i].status # "DELIVERED"
    <3>1. WorkerDelivered /\ i = job["worker"].id
      BY <1>2, <2>2, RowSteps DEF Settles
    <3>2. accepted[i] > 0 /\ accepted' = accepted
      BY <3>1 DEF AcceptedInv, WorkerDelivered, Goto, ghost
    <3> QED BY <3>2
  <2> QED BY <2>1, <2>2
<1>3. ASSUME pc'["worker"] = "delivered" PROVE accepted'[job'["worker"].id] > 0
  <2>1. CASE MainStep \/ User
    BY <1>3, <2>1, TkFrame DEF ghost, AcceptedInv
  <2>2. CASE SchedStep
    BY <1>3, <2>2, SchedFrame DEF ghost, AcceptedInv
  <2>3. CASE \E r \in Results : WorkerSend(r)
    <3>1. PICK r \in Results : WorkerSend(r)
      BY <2>3
    <3>2. pc' = [pc EXCEPT !["worker"] = AfterAttempt(job["worker"], r)] /\ job' = job
      BY <3>1 DEF WorkerSend, Goto
    <3>3. AfterAttempt(job["worker"], r) = "delivered"
      BY <1>0, <1>3, <3>2 DEF Threads
    <3>4. r = "ok" /\ Durable(job["worker"])
      BY <3>3 DEF AfterAttempt, IfDurable
    <3>5. job["worker"].id \in Ids
      BY <1>0, <3>4 DEF Durable, Jobs, Threads
    <3> QED BY <1>0, <3>1, <3>2, <3>4, <3>5 DEF WorkerSend
  <2>4. CASE WorkerStep /\ ~\E r \in Results : WorkerSend(r)
    BY <1>0, <1>3, <2>4
       DEF WorkerStep, WorkerGet, WorkerStart, WorkerBegin, WorkerAttempt, WorkerRecord,
           WorkerPause, WorkerDelivered, WorkerDecide, WorkerSchedule, WorkerFail,
           WorkerPreserve, WorkerRelease, Goto, IfDurable, Threads
  <2>5. CASE (\E i \in Ids : Due(i)) \/ Restart \/ Stopped \/ UNCHANGED vars
    BY <1>3, <2>5 DEF Due, Restart, Entry, Stopped, vars, ghost, AcceptedInv, Threads
  <2> QED BY <2>1, <2>2, <2>3, <2>4, <2>5 DEF Next
<1> QED BY <1>2, <1>3 DEF AcceptedInv, DeliveredWasAccepted, WithStatus

\* No row ever says DELIVERED that the endpoint has not accepted.
THEOREM DeliveredMeansAccepted == Spec => []DeliveredWasAccepted
<1>1. Init => AcceptedInv
  BY DEF Init, AcceptedInv, DeliveredWasAccepted, WithStatus, EmptyTable, AbsentRow, Entry,
         Threads
<1>2. AcceptedInv => DeliveredWasAccepted
  BY DEF AcceptedInv
<1> QED BY <1>1, <1>2, WellTypedInit, WellTypedNext, AcceptedStep, PTL DEF Spec

--------------------------------------------------------------------------------
\* Who answers for a QUEUED row: its job, on its way from the Tk thread through the
\* queue to the worker, or the Tk thread itself.  A delayed job answers for nothing:
\* its row is RETRYING, and the worker may drop it (a disabled provider).
Carried(i) ==
    \/ \E k \in 1 .. Len(queue) : queue[k].id = i /\ ~queue[k].delayed
    \/ pc["main"] \in {"push", "undo", "save"} /\ job["main"].id = i /\ ~job["main"].delayed
    \/ /\ pc["worker"] \notin {"get", "done", "release"}
       /\ job["worker"].id = i /\ ~job["worker"].delayed

InMainHand(i) == pc["main"] \in {"check", "claim", "refuse"} /\ job["main"].id = i

Accounted(i) == Carried(i) \/ InMainHand(i)

\* Immediate jobs come from the Tk thread and delayed ones from the scheduler, so
\* once the Tk thread has drained the queue only delayed ones can follow.
JobOrigins ==
    /\ recovered <=> pc["main"] \notin {"boot", "recover"}
    /\ pc["main"] \in PutPCs \union {"requeue"} => ~job["main"].delayed
    /\ pc["sched"] \in PutPCs => job["sched"].delayed
    /\ pc["main"] \in {"poison", "gone"} =>
          \A k \in 1 .. Len(queue) : Durable(queue[k]) => queue[k].delayed

QueuedInv ==
    /\ JobOrigins
    /\ failures = 0 /\ recovered =>
          \A i \in Ids : db[i].status = "QUEUED" => Accounted(i)

--------------------------------------------------------------------------------
LEMMA OriginsQueue ==
    ASSUME WellTyped, JobOrigins,
           pc["main"] \in {"poison", "gone"}, pc'["main"] \in {"poison", "gone"},
           \/ queue' = queue
           \/ queue # << >> /\ queue' = Tail(queue)
           \/ \E j \in Jobs : (Durable(j) => j.delayed) /\ queue' = Append(queue, j)
    PROVE  \A k \in 1 .. Len(queue') : Durable(queue'[k]) => queue'[k].delayed
<1>0. queue \in Seq(Jobs)
  BY DEF WellTyped, TypeOK
<1>1. CASE queue' = queue
  BY <1>1 DEF JobOrigins
<1>2. CASE queue # << >> /\ queue' = Tail(queue)
  <2>1. \A k \in 1 .. Len(queue') : k + 1 \in 1 .. Len(queue) /\ queue'[k] = queue[k + 1]
    BY <1>0, <1>2, TailFacts
  <2> QED BY <2>1 DEF JobOrigins
<1>3. ASSUME NEW j \in Jobs, Durable(j) => j.delayed, queue' = Append(queue, j)
      PROVE  \A k \in 1 .. Len(queue') : Durable(queue'[k]) => queue'[k].delayed
  <2>1. /\ Len(queue') = Len(queue) + 1 /\ Len(queue) \in Nat
        /\ \A k \in 1 .. Len(queue) : queue'[k] = queue[k]
        /\ queue'[Len(queue) + 1] = j
    BY <1>0, <1>3, AppendFacts
  <2>2. \A k \in 1 .. Len(queue') : k \in 1 .. Len(queue) \/ k = Len(queue) + 1
    BY <2>1
  <2> QED BY <1>3, <2>1, <2>2 DEF JobOrigins
<1> QED BY <1>1, <1>2, <1>3

LEMMA OriginsMain ==
    ASSUME WellTyped, JobOrigins, MainStep
    PROVE  JobOrigins'
<1>0. /\ pc \in [Threads -> MainPCs \union SchedPCs \union WorkerPCs] /\ job \in [Threads -> Jobs]
      /\ "main" \in Threads /\ "sched" \in Threads
  BY DEF WellTyped, TypeOK, Threads
<1>1. pc'["sched"] = pc["sched"] /\ job'["sched"] = job["sched"]
  BY TkFrame
<1>2. recovered' <=> pc'["main"] \notin {"boot", "recover"}
  BY <1>0 DEF JobOrigins, MainStep, Recover, Insert, InsertFails, MarkRefused, Requeue, PutJob,
     PutCheck, PutClaim, PutPush, PutUndo, SetStop, Drain, DrainSave, DrainRelease, DrainEmpty,
     PutPoison, Goto, Returned, Refused, conf
<1>3. pc'["main"] \in PutPCs \union {"requeue"} => ~job'["main"].delayed
  BY <1>0 DEF JobOrigins, MainStep, Recover, Insert, InsertFails, MarkRefused, Requeue, PutJob,
     PutCheck, PutClaim, PutPush, PutUndo, SetStop, Drain, DrainSave, DrainRelease, DrainEmpty,
     PutPoison, Goto, Returned, Refused, PutPCs, Job
<1>4. ASSUME pc'["main"] \in {"poison", "gone"}
      PROVE  \A k \in 1 .. Len(queue') : Durable(queue'[k]) => queue'[k].delayed
  <2>1. CASE PutPoison
    <3>1. pc["main"] = "poison" /\ (queue' = queue \/ queue' = Append(queue, Poison))
      BY <2>1 DEF PutPoison, Goto
    <3>2. ~Durable(Poison)
      BY DEF Durable, Poison, Job
    <3> QED BY <1>4, <3>1, <3>2, PoisonJob, OriginsQueue
  <2>2. CASE DrainEmpty
    <3>1. queue' = << >>
      BY <2>2 DEF DrainEmpty, jobs
    <3> QED BY <3>1
  <2>3. CASE ~PutPoison /\ ~DrainEmpty
    <3>1. FALSE
      BY <1>0, <1>4, <2>3 DEF MainStep, Recover, Insert, InsertFails, MarkRefused, Requeue,
      PutJob,
         PutCheck, PutClaim, PutPush, PutUndo, SetStop, Drain, DrainSave, DrainRelease,
         Goto, Returned, Refused
    <3> QED BY <3>1
  <2> QED BY <2>1, <2>2, <2>3
<1> QED BY <1>1, <1>2, <1>3, <1>4 DEF JobOrigins

LEMMA OriginsUser ==
    ASSUME WellTyped, JobOrigins, User
    PROVE  JobOrigins'
<1>0. /\ pc \in [Threads -> MainPCs \union SchedPCs \union WorkerPCs] /\ job \in [Threads -> Jobs]
      /\ "main" \in Threads /\ "sched" \in Threads /\ recovered \in BOOLEAN
  BY DEF WellTyped, TypeOK, Threads
<1>1. pc'["sched"] = pc["sched"] /\ job'["sched"] = job["sched"]
  BY TkFrame
<1>2. recovered' <=> pc'["main"] \notin {"boot", "recover"}
  <2>1. ASSUME NEW s \in SettingsChoices, Configure(s)
        PROVE  recovered' <=> pc'["main"] \notin {"boot", "recover"}
    <3>1. recovered' = recovered /\ pc'["main"] = IF recovered THEN "idle" ELSE "recover"
      BY <1>0, <2>1 DEF Configure
    <3> QED BY <1>0, <3>1
  <2>2. CASE ~\E s \in SettingsChoices : Configure(s)
    <3>1. /\ recovered' = recovered /\ pc["main"] = "idle"
          /\ pc'["main"] \notin {"boot", "recover"}
      BY <1>0, <2>2 DEF User, Enqueue, ManualRetry, EnqueueTest, ClearHistory, Shutdown, Goto,
                        conf
    <3> QED BY <1>0, <3>1 DEF JobOrigins
  <2> QED BY <2>1, <2>2
<1>3. pc'["main"] \in PutPCs \union {"requeue"} => ~job'["main"].delayed
  BY <1>0 DEF User, Configure, Enqueue, ManualRetry, EnqueueTest, ClearHistory, Shutdown, Goto,
              PutPCs, Job
<1>4. pc'["main"] \notin {"poison", "gone"}
  BY <1>0 DEF User, Configure, Enqueue, ManualRetry, EnqueueTest, ClearHistory, Shutdown, Goto
<1> QED BY <1>1, <1>2, <1>3, <1>4 DEF JobOrigins

LEMMA OriginsSched ==
    ASSUME WellTyped, JobOrigins, SchedStep
    PROVE  JobOrigins'
<1>0. /\ pc \in [Threads -> MainPCs \union SchedPCs \union WorkerPCs] /\ job \in [Threads -> Jobs]
      /\ "main" \in Threads /\ "sched" \in Threads
  BY DEF WellTyped, TypeOK, Threads
<1>1. pc'["main"] = pc["main"] /\ job'["main"] = job["main"] /\ recovered' = recovered
  BY SchedFrame DEF conf
<1>2. pc'["sched"] \in PutPCs => job'["sched"].delayed
  BY <1>0 DEF JobOrigins, SchedStep, SchedTop, SchedSettings, SchedQuery, SchedLoopEnd,
              SchedGiveUp,
     SchedSkip, SchedPut, PutJob, PutCheck, PutClaim, PutPush, PutUndo, Goto, Returned, Refused,
     PutPCs, Job
<1>3. \/ queue' = queue
      \/ \E j \in Jobs : (Durable(j) => j.delayed) /\ queue' = Append(queue, j)
  BY <1>0 DEF JobOrigins, SchedStep, SchedTop, SchedSettings, SchedQuery, SchedLoopEnd,
              SchedGiveUp,
     SchedSkip, SchedPut, PutJob, PutCheck, PutClaim, PutPush, PutUndo, Goto, PutPCs, jobs
<1>4. pc'["main"] \in {"poison", "gone"} =>
          \A k \in 1 .. Len(queue') : Durable(queue'[k]) => queue'[k].delayed
  BY <1>1, <1>3, OriginsQueue
<1> QED BY <1>1, <1>2, <1>4 DEF JobOrigins

LEMMA OriginsWorker ==
    ASSUME WellTyped, JobOrigins, WorkerStep
    PROVE  JobOrigins'
<1>1. /\ \A t \in {"main", "sched"} : pc'[t] = pc[t] /\ job'[t] = job[t]
      /\ recovered' = recovered
  BY WorkerFrame DEF conf
<1>2. queue' = queue \/ (queue # << >> /\ queue' = Tail(queue))
  BY DEF WorkerStep, WorkerGet, WorkerStart, WorkerBegin, WorkerAttempt, WorkerRecord, WorkerSend,
         WorkerPause, WorkerDelivered, WorkerDecide, WorkerSchedule, WorkerFail, WorkerPreserve,
         WorkerRelease, jobs
<1>3. pc'["main"] \in {"poison", "gone"} =>
          \A k \in 1 .. Len(queue') : Durable(queue'[k]) => queue'[k].delayed
  BY <1>1, <1>2, OriginsQueue
<1> QED BY <1>1, <1>3 DEF JobOrigins

LEMMA OriginsNext == WellTyped /\ JobOrigins /\ [Next]_vars => JobOrigins'
<1> SUFFICES ASSUME WellTyped, JobOrigins, [Next]_vars PROVE JobOrigins'
  OBVIOUS
<1>1. CASE (\E i \in Ids : Due(i)) \/ Stopped \/ UNCHANGED vars
  BY <1>1 DEF Due, Stopped, vars, jobs, conf, JobOrigins
<1>2. CASE Restart
  BY <1>2 DEF Restart, JobOrigins, Entry, Threads, PutPCs
<1> QED BY <1>1, <1>2, OriginsMain, OriginsUser, OriginsSched, OriginsWorker DEF Next

--------------------------------------------------------------------------------
\* The three places of Carried.
InQueue(i) == \E k \in 1 .. Len(queue) : queue[k].id = i /\ ~queue[k].delayed
WithMain(i) == /\ pc["main"] \in {"push", "undo", "save"}
               /\ job["main"].id = i /\ ~job["main"].delayed
WithWorker(i) == /\ pc["worker"] \notin {"get", "done", "release"}
                 /\ job["worker"].id = i /\ ~job["worker"].delayed

LEMMA QueueKeeps ==
    ASSUME WellTyped, NEW i \in Ids
    PROVE  /\ queue' = queue /\ InQueue(i) => InQueue(i)'
           /\ \A j \in Jobs : queue' = Append(queue, j) =>
                 /\ InQueue(i) => InQueue(i)'
                 /\ j.id = i /\ ~j.delayed => InQueue(i)'
           /\ queue # << >> /\ queue' = Tail(queue) /\ InQueue(i) =>
                 InQueue(i)' \/ (Head(queue).id = i /\ ~Head(queue).delayed)
<1>0. queue \in Seq(Jobs)
  BY DEF WellTyped, TypeOK
<1>1. queue' = queue /\ InQueue(i) => InQueue(i)'
  BY DEF InQueue
<1>2. ASSUME NEW j \in Jobs, queue' = Append(queue, j)
      PROVE  /\ InQueue(i) => InQueue(i)'
             /\ j.id = i /\ ~j.delayed => InQueue(i)'
  <2>1. /\ Len(queue') = Len(queue) + 1 /\ Len(queue) \in Nat
        /\ \A k \in 1 .. Len(queue) : queue'[k] = queue[k]
        /\ queue'[Len(queue) + 1] = j
    BY <1>0, <1>2, AppendFacts
  <2>2. Len(queue) + 1 \in 1 .. Len(queue') /\ \A k \in 1 .. Len(queue) : k \in 1 .. Len(queue')
    BY <2>1
  <2> QED BY <2>1, <2>2 DEF InQueue
<1>3. ASSUME queue # << >>, queue' = Tail(queue), InQueue(i)
      PROVE  InQueue(i)' \/ (Head(queue).id = i /\ ~Head(queue).delayed)
  <2>1. /\ Head(queue) = queue[1] /\ Len(queue) = Len(queue') + 1 /\ Len(queue') \in Nat
        /\ \A k \in 1 .. Len(queue') : queue'[k] = queue[k + 1]
    BY <1>0, <1>3, TailFacts
  <2>2. PICK k \in 1 .. Len(queue) : queue[k].id = i /\ ~queue[k].delayed
    BY <1>3 DEF InQueue
  <2>3. CASE k = 1
    BY <2>1, <2>2, <2>3
  <2>4. CASE k # 1
    <3>1. k - 1 \in 1 .. Len(queue') /\ queue'[k - 1] = queue[k]
      BY <2>1, <2>4
    <3> QED BY <2>2, <3>1 DEF InQueue
  <2> QED BY <2>3, <2>4
<1> QED BY <1>1, <1>2, <1>3

\* A write about a row, if it is not refused, leaves the row something else than QUEUED.
LEMMA SettledIsNotQueued ==
    ASSUME NEW i, NEW S, S \subseteq {"RETRYING", "FAILED", "DELIVERED"}, Wrote(i, S), failures' = 0
    PROVE  db'[i].status # "QUEUED"
<1>1. PICK s \in S : Thinned(SetStatus(db, i, s), db')
  BY DEF Wrote
<1>2. SetStatus(db, i, s)[i] = IF db[i].status # "ABSENT" THEN s ELSE db[i].status
  BY DEF Wrote, SetStatus
<1> QED BY <1>1, <1>2 DEF Wrote, Thinned

LEMMA AccountedMain ==
    ASSUME WellTyped, JobOrigins, MainStep, NEW i \in Ids, Accounted(i),
           db'[i].status = "QUEUED", failures' = 0
    PROVE  Accounted(i)'
<1>0. /\ pc \in [Threads -> MainPCs \union SchedPCs \union WorkerPCs] /\ job \in [Threads -> Jobs]
      /\ "main" \in Threads /\ "worker" \in Threads /\ i # TestId
  BY DEF WellTyped, TypeOK, Threads, Ids, TestId
<1>1. pc'["worker"] = pc["worker"] /\ job'["worker"] = job["worker"]
  BY TkFrame
<1>2. WithWorker(i) => Accounted(i)'
  BY <1>1 DEF WithWorker, Accounted, Carried
<1>3. InQueue(i)' \/ WithMain(i)' \/ InMainHand(i)' => Accounted(i)'
  BY DEF InQueue, WithMain, Accounted, Carried
<1>4. InQueue(i) \/ WithMain(i) \/ WithWorker(i) \/ InMainHand(i)
  BY DEF InQueue, WithMain, WithWorker, Accounted, Carried
<1>5. CASE Drain
  <2>1. /\ queue # << >> /\ queue' = Tail(queue)
        /\ pc["main"] = "drain" /\ job'["main"] = Head(queue)
        /\ pc'["main"] = IF Durable(Head(queue)) THEN "save" ELSE "drain"
    BY <1>0, <1>5 DEF Drain, Goto
  <2>2. ~WithMain(i) /\ ~InMainHand(i)
    BY <2>1 DEF WithMain, InMainHand
  <2>3. CASE InQueue(i)
    <3>1. InQueue(i)' \/ (Head(queue).id = i /\ ~Head(queue).delayed)
      BY <2>1, <2>3, QueueKeeps
    <3>2. Head(queue).id = i /\ ~Head(queue).delayed => WithMain(i)'
      BY <1>0, <2>1 DEF WithMain, Durable
    <3> QED BY <1>3, <3>1, <3>2
  <2> QED BY <1>2, <1>4, <2>2, <2>3
<1>6. CASE PutPush("main")
  <2>1. pc["main"] = "push" /\ job' = job /\ ~job["main"].delayed
    BY <1>6 DEF PutPush, Goto, JobOrigins, PutPCs
  <2>2. CASE Len(queue) < MaxQueue
    <3>1. queue' = Append(queue, job["main"]) /\ job["main"] \in Jobs
      BY <1>0, <1>6, <2>2 DEF PutPush
    <3> QED BY <1>2, <1>3, <1>4, <2>1, <3>1, QueueKeeps DEF WithMain, InMainHand
  <2>3. CASE ~(Len(queue) < MaxQueue)
    <3>1. queue' = queue /\ pc'["main"] = IF Durable(job["main"]) THEN "undo" ELSE Refused("main")
      BY <1>0, <1>6, <2>3 DEF PutPush, Goto
    <3>2. WithMain(i) => WithMain(i)'
      BY <1>0, <2>1, <3>1 DEF WithMain, Durable
    <3> QED BY <1>2, <1>3, <1>4, <2>1, <3>1, <3>2, QueueKeeps DEF InMainHand
  <2> QED BY <2>2, <2>3
<1>7. CASE PutPoison
  <2>1. pc["main"] = "poison" /\ (queue' = queue \/ queue' = Append(queue, Poison))
    BY <1>7 DEF PutPoison, Goto
  <2>2. InQueue(i) => InQueue(i)'
    BY <2>1, QueueKeeps, PoisonJob
  <2> QED BY <1>2, <1>3, <1>4, <2>1, <2>2 DEF WithMain, InMainHand
<1>8. CASE MarkRefused
  <2>1. Wrote(job["main"].id, {"FAILED"}) /\ pc["main"] = "refuse" /\ queue' = queue
    BY <1>8, JobSteps DEF MarkRefused, Goto, jobs
  <2>2. job["main"].id # i
    BY <2>1, SettledIsNotQueued
  <2> QED BY <1>2, <1>3, <1>4, <2>1, <2>2, QueueKeeps DEF WithMain, InMainHand
<1>9. CASE DrainSave
  <2>1. Wrote(job["main"].id, {"RETRYING", "FAILED"}) /\ pc["main"] = "save" /\ queue' = queue
    BY <1>9, JobSteps DEF DrainSave, Goto, jobs
  <2>2. job["main"].id # i
    BY <2>1, SettledIsNotQueued
  <2> QED BY <1>2, <1>3, <1>4, <2>1, <2>2, QueueKeeps DEF WithMain, InMainHand
<1>10. CASE PutCheck("main") \/ PutClaim("main") \/ PutUndo("main")
  <2>1. queue' = queue /\ job' = job
    BY <1>10 DEF PutCheck, PutClaim, PutUndo, jobs
  <2>2. WithMain(i) \/ InMainHand(i) => WithMain(i)' \/ InMainHand(i)'
    BY <1>0, <1>10, <2>1 DEF PutCheck, PutClaim, PutUndo, Goto, WithMain, InMainHand, JobOrigins,
                             PutPCs, Refused, Durable
  <2> QED BY <1>2, <1>3, <1>4, <2>1, <2>2, QueueKeeps
<1>11. CASE Recover \/ Insert \/ InsertFails \/ Requeue \/ SetStop \/ DrainRelease \/ DrainEmpty
  <2>1. queue' = queue /\ ~WithMain(i) /\ ~InMainHand(i)
    BY <1>11 DEF Recover, Insert, InsertFails, Requeue, SetStop, DrainRelease, DrainEmpty, Goto,
                 WithMain, InMainHand, jobs
  <2> QED BY <1>2, <1>3, <1>4, <2>1, QueueKeeps
<1> QED BY <1>5, <1>6, <1>7, <1>8, <1>9, <1>10, <1>11 DEF MainStep, PutJob

LEMMA AccountedUser ==
    ASSUME WellTyped, User, NEW i \in Ids, Accounted(i)
    PROVE  Accounted(i)'
<1>1. pc'["worker"] = pc["worker"] /\ job'["worker"] = job["worker"]
  BY TkFrame
<1>2. queue' = queue /\ ~WithMain(i) /\ ~InMainHand(i)
  BY DEF User, Configure, Enqueue, ManualRetry, EnqueueTest, ClearHistory, Shutdown, Goto,
         WithMain, InMainHand, jobs
<1> QED BY <1>1, <1>2 DEF Accounted, Carried, WithMain, InMainHand

LEMMA AccountedSched ==
    ASSUME WellTyped, SchedStep, NEW i \in Ids, Accounted(i)
    PROVE  Accounted(i)'
<1>0. job \in [Threads -> Jobs] /\ "sched" \in Threads
  BY DEF WellTyped, TypeOK, Threads
<1>1. \A t \in {"main", "worker"} : pc'[t] = pc[t] /\ job'[t] = job[t]
  BY SchedFrame
<1>2. queue' = queue \/ \E j \in Jobs : queue' = Append(queue, j)
  BY <1>0 DEF SchedStep, SchedTop, SchedSettings, SchedQuery, SchedLoopEnd, SchedGiveUp,
     SchedSkip, SchedPut, PutJob, PutCheck, PutClaim, PutPush, PutUndo, jobs
<1>3. InQueue(i) => InQueue(i)'
  BY <1>2, QueueKeeps
<1> QED BY <1>1, <1>3 DEF Accounted, Carried, InQueue, InMainHand

LEMMA AccountedWorker ==
    ASSUME WellTyped, WorkerStep, NEW i \in Ids, Accounted(i),
           db'[i].status = "QUEUED", failures' = 0
    PROVE  Accounted(i)'
<1>0. /\ pc \in [Threads -> MainPCs \union SchedPCs \union WorkerPCs] /\ job \in [Threads -> Jobs]
      /\ "main" \in Threads /\ "worker" \in Threads /\ i # TestId
  BY DEF WellTyped, TypeOK, Threads, Ids, TestId
<1>1. pc'["main"] = pc["main"] /\ job'["main"] = job["main"]
  BY WorkerFrame
<1>2. WithMain(i) \/ InMainHand(i) => Accounted(i)'
  BY <1>1 DEF WithMain, InMainHand, Accounted, Carried
<1>3. InQueue(i)' \/ WithWorker(i)' => Accounted(i)'
  BY DEF InQueue, WithWorker, Accounted, Carried
<1>4. InQueue(i) \/ WithMain(i) \/ WithWorker(i) \/ InMainHand(i)
  BY DEF InQueue, WithMain, WithWorker, Accounted, Carried
<1>5. CASE WorkerGet
  <2>1. /\ queue # << >> /\ queue' = Tail(queue)
        /\ pc["worker"] = "get" /\ job'["worker"] = Head(queue)
        /\ pc'["worker"] = IF Head(queue) = Poison THEN "done" ELSE "start"
    BY <1>0, <1>5 DEF WorkerGet, Goto
  <2>2. ~WithWorker(i)
    BY <2>1 DEF WithWorker
  <2>3. Head(queue).id = i /\ ~Head(queue).delayed => WithWorker(i)'
    BY <1>0, <2>1 DEF WithWorker, Poison, Job
  <2> QED BY <1>2, <1>3, <1>4, <2>1, <2>2, <2>3, QueueKeeps
<1>6. CASE WorkerDelivered \/ WorkerSchedule \/ WorkerFail \/ WorkerPreserve
  <2>1. queue' = queue
    BY <1>6 DEF WorkerDelivered, WorkerSchedule, WorkerFail, WorkerPreserve, jobs
  <2>2. \E S : S \subseteq {"RETRYING", "FAILED", "DELIVERED"} /\ Wrote(job["worker"].id, S)
    BY <1>6, JobSteps
  <2>3. job["worker"].id # i
    BY <2>2, SettledIsNotQueued
  <2> QED BY <1>2, <1>3, <1>4, <2>1, <2>3, QueueKeeps DEF WithWorker
<1>7. CASE WorkerRelease
  <2>1. queue' = queue /\ ~WithWorker(i)
    BY <1>7 DEF WorkerRelease, Goto, WithWorker
  <2> QED BY <1>2, <1>3, <1>4, <2>1, QueueKeeps
<1>8. CASE \/ WorkerStart \/ WorkerBegin \/ WorkerAttempt \/ WorkerRecord \/ WorkerPause
           \/ WorkerDecide \/ \E r \in Results : WorkerSend(r)
  <2>1. queue' = queue /\ job' = job
    BY <1>8 DEF WorkerStart, WorkerBegin, WorkerAttempt, WorkerRecord, WorkerPause,
                WorkerDecide, WorkerSend, jobs
  <2>2. WithWorker(i) => pc'["worker"] \notin {"get", "done", "release"}
    BY <1>0, <1>8 DEF WorkerStart, WorkerBegin, WorkerAttempt, WorkerRecord, WorkerPause,
         WorkerDecide, WorkerSend, Goto, IfDurable, Durable, AfterAttempt, WithWorker
  <2>3. WithWorker(i) => WithWorker(i)'
    BY <2>1, <2>2 DEF WithWorker
  <2> QED BY <1>2, <1>3, <1>4, <2>1, <2>3, QueueKeeps
<1> QED BY <1>5, <1>6, <1>7, <1>8 DEF WorkerStep

LEMMA QueuedNext == WellTyped /\ QueuedInv /\ [Next]_vars => QueuedInv'
<1> SUFFICES ASSUME WellTyped, QueuedInv, [Next]_vars PROVE QueuedInv'
  OBVIOUS
<1>1. JobOrigins'
  BY OriginsNext DEF QueuedInv
<1>2. ASSUME failures' = 0, recovered', NEW i \in Ids, db'[i].status = "QUEUED"
      PROVE  Accounted(i)'
  <2>1. JobOrigins /\ failures \in Nat
    BY DEF QueuedInv, WellTyped, TypeOK
  <2>2. failures = 0
    <3>1. failures' = failures \/ failures' = failures + 1
      BY DEF Next, MainStep, Recover, Insert, InsertFails, MarkRefused, Requeue, PutJob, PutCheck,
             PutClaim, PutPush, PutUndo, SetStop, Drain, DrainSave, DrainRelease, DrainEmpty,
             PutPoison, User, Configure, Enqueue, ManualRetry, EnqueueTest, ClearHistory,
             Shutdown, SchedStep, SchedTop, SchedSettings, SchedQuery, SchedLoopEnd, SchedGiveUp,
             SchedSkip, SchedPut, WorkerStep, WorkerGet, WorkerStart, WorkerBegin, WorkerAttempt,
             WorkerRecord, WorkerSend, WorkerPause, WorkerDelivered, WorkerDecide, WorkerSchedule,
             WorkerFail, WorkerPreserve, WorkerRelease, Due, Restart, Stopped, vars, store,
             Write, Fails
    <3> QED BY <1>2, <2>1, <3>1
  <2>3. CASE Recover
    <3>1. \/ db' = db /\ failures' # 0
          \/ \A k \in Ids : db'[k].status \in
                IF db[k].status = "QUEUED" THEN {"RETRYING", "FAILED"} ELSE {db[k].status}
      BY <2>3, OtherWrites
    <3>2. db'[i].status \in IF db[i].status = "QUEUED" THEN {"RETRYING", "FAILED"}
                            ELSE {db[i].status}
      BY <1>2, <3>1
    <3> QED BY <1>2, <3>2
  <2>4. CASE ~Recover
    <3>1. recovered
      BY <1>2, <2>4 DEF Next, MainStep, Insert, InsertFails, MarkRefused, Requeue, PutJob,
                        PutCheck,
             PutClaim, PutPush, PutUndo, SetStop, Drain, DrainSave, DrainRelease, DrainEmpty,
             PutPoison, User, Configure, Enqueue, ManualRetry, EnqueueTest, ClearHistory,
             Shutdown, SchedStep, SchedTop, SchedSettings, SchedQuery, SchedLoopEnd, SchedGiveUp,
             SchedSkip, SchedPut, WorkerStep, WorkerGet, WorkerStart, WorkerBegin, WorkerAttempt,
             WorkerRecord, WorkerSend, WorkerPause, WorkerDelivered, WorkerDecide, WorkerSchedule,
             WorkerFail, WorkerPreserve, WorkerRelease, Due, Restart, Stopped, vars, conf
    <3>2. CASE Insert /\ i = nextId
      <4>1. pc'["main"] = "check" /\ job'["main"].id = i
        BY <3>2 DEF Insert, Goto, Job, WellTyped, TypeOK, Threads
      <4> QED BY <4>1 DEF Accounted, InMainHand
    <3>3. CASE Requeue /\ i = job["main"].id
      <4>1. pc'["main"] = "check" /\ job'["main"].id = i
        BY <3>3 DEF Requeue, Goto, WellTyped, TypeOK, Threads
      <4> QED BY <4>1 DEF Accounted, InMainHand
    <3>4. CASE db[i].status = "QUEUED"
      <4>1. Accounted(i)
        BY <2>2, <3>1, <3>4 DEF QueuedInv
      <4>2. CASE (\E k \in Ids : Due(k)) \/ Stopped \/ UNCHANGED vars
        BY <4>1, <4>2 DEF Due, Stopped, vars, jobs, Accounted, Carried, InMainHand
      <4>3. CASE Restart
        BY <1>2, <4>3 DEF Restart
      <4> QED BY <1>2, <2>1, <4>1, <4>2, <4>3, AccountedMain, AccountedUser, AccountedSched,
                 AccountedWorker DEF Next
    <3> QED BY <1>2, <2>4, <3>2, <3>3, <3>4, RowSteps DEF Settles
  <2> QED BY <2>3, <2>4
<1> QED BY <1>1, <1>2 DEF QueuedInv

LEMMA QueuedInvariant == Spec => [](WellTyped /\ QueuedInv)
<1>1. Init => QueuedInv
  BY DEF Init, QueuedInv, JobOrigins, Entry, Threads, PutPCs
<1> QED BY <1>1, WellTypedInit, WellTypedNext, QueuedNext, PTL DEF Spec

\* Where no write has failed, a QUEUED row of a repaired process is never stranded.
THEOREM QueuedRowsAreLive == Spec => []QueuedIsLive
<1>1. WellTyped /\ QueuedInv => QueuedIsLive
  <2> SUFFICES ASSUME WellTyped, QueuedInv, failures = 0, recovered, NEW i \in Ids,
                      db[i].status = "QUEUED"
               PROVE  Live(i) \/ (pc["main"] \in {"check", "claim", "refuse"} /\ job["main"].id = i)
    BY DEF QueuedIsLive, WithStatus
  <2>1. Carried(i) \/ InMainHand(i)
    BY DEF QueuedInv, Accounted
  <2>2. Carried(i) => Live(i)
    BY DEF Carried, Live, Holding, Threads
  <2> QED BY <2>1, <2>2 DEF InMainHand
<1> QED BY <1>1, QueuedInvariant, PTL

\* When shutdown() is over and the worker has returned, no row is left QUEUED unless a
\* write was refused.
THEOREM ShutdownIsGraceful == Spec => [](failures = 0 => GracefulShutdown)
<1>1. WellTyped /\ QueuedInv => (failures = 0 => GracefulShutdown)
  <2> SUFFICES ASSUME WellTyped, QueuedInv, failures = 0,
                      pc["main"] = "gone", pc["worker"] = "done",
                      NEW i \in Ids, db[i].status = "QUEUED"
               PROVE  FALSE
    BY DEF GracefulShutdown, WithStatus
  <2>1. Carried(i)
    BY DEF QueuedInv, JobOrigins, Accounted, InMainHand
  <2>2. PICK k \in 1 .. Len(queue) : queue[k].id = i /\ ~queue[k].delayed
    BY <2>1 DEF Carried
  <2>3. Durable(queue[k])
    BY <2>2 DEF Durable, Ids, TestId
  <2> QED BY <2>2, <2>3 DEF QueuedInv, JobOrigins
<1> QED BY <1>1, QueuedInvariant, PTL

--------------------------------------------------------------------------------
\* Where a claim may be: among the records the scheduler has read, in the queue, or
\* in the hands of a thread.
Read(i) == \E r \in snap : r.id = i
Queued(i) == \E k \in 1 .. Len(queue) : queue[k].id = i
Has(t, i) == InHand(t) /\ job[t].id = i

LEMMA ClaimedIn ==
    ASSUME NEW i \in Ids
    PROVE  i \in Claimed <=> Read(i) \/ Queued(i) \/ \E t \in Threads : Has(t, i)
  BY DEF Claimed, Read, Queued, Has

LEMMA QueuedSteps ==
    ASSUME WellTyped, NEW i \in Ids
    PROVE  /\ queue' = queue => (Queued(i)' <=> Queued(i))
           /\ queue' = << >> => ~Queued(i)'
           /\ \A j \in Jobs : queue' = Append(queue, j) => (Queued(i)' => Queued(i) \/ j.id = i)
           /\ queue # << >> /\ queue' = Tail(queue) =>
                 /\ Queued(i)' => Queued(i)
                 /\ Head(queue).id = i => Queued(i)
<1>0. queue \in Seq(Jobs)
  BY DEF WellTyped, TypeOK
<1>1. ASSUME NEW j \in Jobs, queue' = Append(queue, j)
      PROVE  Queued(i)' => Queued(i) \/ j.id = i
  <2>1. /\ Len(queue') = Len(queue) + 1 /\ Len(queue) \in Nat
        /\ \A k \in 1 .. Len(queue) : queue'[k] = queue[k]
        /\ queue'[Len(queue) + 1] = j
    BY <1>0, <1>1, AppendFacts
  <2>2. \A k \in 1 .. Len(queue') : k \in 1 .. Len(queue) \/ k = Len(queue) + 1
    BY <2>1
  <2> QED BY <2>1, <2>2 DEF Queued
<1>2. ASSUME queue # << >>, queue' = Tail(queue)
      PROVE  (Queued(i)' => Queued(i)) /\ (Head(queue).id = i => Queued(i))
  <2>1. /\ Head(queue) = queue[1] /\ 1 \in 1 .. Len(queue)
        /\ \A k \in 1 .. Len(queue') : k + 1 \in 1 .. Len(queue) /\ queue'[k] = queue[k + 1]
    BY <1>0, <1>2, TailFacts
  <2> QED BY <2>1 DEF Queued
<1> QED BY <1>1, <1>2 DEF Queued

\* The Tk thread takes a claim with a new delivery and with a manual retry only.
LEMMA ClaimsMain ==
    ASSUME WellTyped, MainStep, NEW i \in Ids, i \in Claimed'
    PROVE  i \in Claimed \/ (Insert /\ i = nextId)
<1>0. /\ pc \in [Threads -> MainPCs \union SchedPCs \union WorkerPCs] /\ job \in [Threads -> Jobs]
      /\ "main" \in Threads /\ i # TestId
  BY DEF WellTyped, TypeOK, Threads, Ids, TestId
<1>1. /\ \A t \in {"worker", "sched"} : Has(t, i)' <=> Has(t, i)
      /\ Read(i)' <=> Read(i)
  BY TkFrame DEF Has, InHand, Holding, Read, retry
<1>2. Read(i)' \/ Queued(i)' \/ \E t \in Threads : Has(t, i)'
  BY ClaimedIn DEF Claimed, Read, Queued, Has
<1>3. Queued(i)' => Queued(i) \/ Has("main", i)
  <2>1. CASE PutPush("main")
    <3>1. queue' = queue \/ queue' = Append(queue, job["main"])
      BY <2>1 DEF PutPush
    <3>2. job["main"].id = i => Has("main", i)
      BY <2>1 DEF PutPush, Goto, Has, InHand, Holding
    <3> QED BY <1>0, <3>1, <3>2, QueuedSteps
  <2>2. CASE PutPoison
    <3>1. queue' = queue \/ queue' = Append(queue, Poison)
      BY <2>2 DEF PutPoison
    <3>2. Poison.id # i
      BY <1>0 DEF Poison, Job
    <3> QED BY <3>1, <3>2, PoisonJob, QueuedSteps
  <2>3. CASE Drain
    <3>1. queue # << >> /\ queue' = Tail(queue)
      BY <2>3 DEF Drain
    <3> QED BY <3>1, QueuedSteps
  <2>4. CASE ~PutPush("main") /\ ~PutPoison /\ ~Drain
    <3>1. queue' = queue
      BY <2>4 DEF MainStep, Recover, Insert, InsertFails, MarkRefused, Requeue, PutJob, PutCheck,
         PutClaim, PutUndo, SetStop, DrainSave, DrainRelease, DrainEmpty, jobs
    <3> QED BY <3>1, QueuedSteps
  <2> QED BY <2>1, <2>2, <2>3, <2>4
<1>4. Has("main", i)' => \/ Has("main", i) \/ Queued(i) \/ (Insert /\ i = nextId)
  <2>1. CASE Drain
    <3>1. queue # << >> /\ queue' = Tail(queue) /\ job'["main"] = Head(queue)
      BY <1>0, <2>1 DEF Drain
    <3> QED BY <3>1, QueuedSteps DEF Has
  <2>2. CASE Insert
    <3>1. job'["main"].id = nextId
      BY <1>0, <2>2 DEF Insert, Job
    <3> QED BY <2>2, <3>1 DEF Has
  <2>3. CASE ~Drain /\ ~Insert
    <3>1. job' = job
      BY <2>3 DEF MainStep, Recover, InsertFails, MarkRefused, Requeue, PutJob, PutCheck,
         PutClaim, PutPush, PutPoison, PutUndo, SetStop, DrainSave, DrainRelease, DrainEmpty
    <3>2. InHand("main")' => InHand("main")
      BY <1>0, <2>3 DEF MainStep, Recover, InsertFails, MarkRefused, Requeue, PutJob, PutCheck,
         PutClaim, PutPush, PutPoison, PutUndo, SetStop, DrainSave, DrainRelease, DrainEmpty,
         InHand, Holding, Goto, Returned, Refused
    <3> QED BY <3>1, <3>2 DEF Has
  <2> QED BY <2>1, <2>2, <2>3
<1> QED BY <1>1, <1>2, <1>3, <1>4, ClaimedIn DEF Threads

LEMMA ClaimsUser ==
    ASSUME WellTyped, User, NEW i \in Ids, i \in Claimed'
    PROVE  i \in Claimed \/ (ManualRetry(i) /\ db[i].status = "FAILED")
<1>0. /\ pc \in [Threads -> MainPCs \union SchedPCs \union WorkerPCs] /\ job \in [Threads -> Jobs]
      /\ "main" \in Threads /\ i # TestId
  BY DEF WellTyped, TypeOK, Threads, Ids, TestId
<1>1. /\ \A t \in {"worker", "sched"} : Has(t, i)' <=> Has(t, i)
      /\ Read(i)' <=> Read(i)
  BY TkFrame DEF Has, InHand, Holding, Read, retry
<1>2. Read(i)' \/ Queued(i)' \/ \E t \in Threads : Has(t, i)'
  BY ClaimedIn DEF Claimed, Read, Queued, Has
<1>3. queue' = queue
  BY DEF User, Configure, Enqueue, ManualRetry, EnqueueTest, ClearHistory, Shutdown, jobs
<1>4. Has("main", i)' => ManualRetry(i) /\ db[i].status = "FAILED"
  BY <1>0 DEF User, Configure, Enqueue, ManualRetry, EnqueueTest, ClearHistory, Shutdown,
              Has, InHand, Holding, Goto, Job
<1> QED BY <1>1, <1>2, <1>3, <1>4, ClaimedIn, QueuedSteps DEF Threads

\* The scheduler takes claims with the query only.
LEMMA ClaimsSched ==
    ASSUME WellTyped, SchedStep, NEW i \in Ids, i \in Claimed'
    PROVE  i \in Claimed \/ (SchedQuery /\ db[i].status = "RETRYING" /\ Read(i)')
<1>0. /\ pc \in [Threads -> MainPCs \union SchedPCs \union WorkerPCs] /\ job \in [Threads -> Jobs]
      /\ "sched" \in Threads /\ i # TestId
  BY DEF WellTyped, TypeOK, Threads, Ids, TestId
<1>1. \A t \in {"worker", "main"} : Has(t, i)' <=> Has(t, i)
  BY SchedFrame DEF Has, InHand, Holding
<1>2. Read(i)' \/ Queued(i)' \/ \E t \in Threads : Has(t, i)'
  BY ClaimedIn DEF Claimed, Read, Queued, Has
<1>3. Queued(i)' => Queued(i) \/ Has("sched", i)
  <2>1. CASE PutPush("sched")
    <3>1. queue' = queue \/ queue' = Append(queue, job["sched"])
      BY <2>1 DEF PutPush
    <3>2. job["sched"].id = i => Has("sched", i)
      BY <2>1 DEF PutPush, Goto, Has, InHand, Holding
    <3> QED BY <1>0, <3>1, <3>2, QueuedSteps
  <2>2. CASE ~PutPush("sched")
    <3>1. queue' = queue
      BY <2>2 DEF SchedStep, SchedTop, SchedSettings, SchedQuery, SchedLoopEnd, SchedGiveUp,
                  SchedSkip, SchedPut, PutJob, PutCheck, PutClaim, PutUndo, jobs
    <3> QED BY <3>1, QueuedSteps
  <2> QED BY <2>1, <2>2
<1>4. Has("sched", i)' => Has("sched", i) \/ Read(i)
  <2>1. CASE \E r \in snap : SchedPut(r)
    BY <1>0, <2>1 DEF SchedPut, Has, Read, Job
  <2>2. CASE ~\E r \in snap : SchedPut(r)
    <3>1. job' = job
      BY <2>2 DEF SchedStep, SchedTop, SchedSettings, SchedQuery, SchedLoopEnd, SchedGiveUp,
                  SchedSkip, PutJob, PutCheck, PutClaim, PutPush, PutUndo
    <3>2. InHand("sched")' => InHand("sched")
      BY <1>0, <2>2 DEF SchedStep, SchedTop, SchedSettings, SchedQuery, SchedLoopEnd, SchedGiveUp,
         SchedSkip, PutJob, PutCheck, PutClaim, PutPush, PutUndo, InHand, Holding, Goto,
         Returned, Refused
    <3> QED BY <3>1, <3>2 DEF Has
  <2> QED BY <2>1, <2>2
<1>5. Read(i)' => Read(i) \/ (SchedQuery /\ db[i].status = "RETRYING" /\ Read(i)')
  <2>1. CASE SchedQuery
    <3> DEFINE record(j) == [id |-> j, provider |-> db[j].provider, delayed |-> db[j].delayed]
    <3>0. \A r \in due_retries(db, Limit) :
              \E j \in Ids : r = record(j) /\ db[j].status = "RETRYING"
      BY DEF due_retries
    <3>1. \A r \in due_retries(db, Limit) : db[r.id].status = "RETRYING"
      BY <3>0
    <3>2. snap' = due_retries(db, Limit)
      BY <2>1 DEF SchedQuery
    <3>3. Read(i)' => db[i].status = "RETRYING"
      BY <3>1, <3>2 DEF Read
    <3> QED BY <2>1, <3>3
  <2>2. CASE ~SchedQuery
    <3>1. snap' \subseteq snap
      BY <2>2 DEF SchedStep, SchedTop, SchedSettings, SchedLoopEnd, SchedGiveUp,
                  SchedSkip, SchedPut, PutJob, PutCheck, PutClaim, PutPush, PutUndo, retry
    <3> QED BY <3>1 DEF Read
  <2> QED BY <2>1, <2>2
<1> QED BY <1>1, <1>2, <1>3, <1>4, <1>5, ClaimedIn DEF Threads

\* The worker works on what it takes from the queue.
LEMMA ClaimsWorker ==
    ASSUME WellTyped, WorkerStep, NEW i \in Ids, i \in Claimed'
    PROVE  i \in Claimed
<1>0. /\ pc \in [Threads -> MainPCs \union SchedPCs \union WorkerPCs] /\ job \in [Threads -> Jobs]
      /\ "worker" \in Threads
  BY DEF WellTyped, TypeOK, Threads
<1>1. /\ \A t \in {"main", "sched"} : Has(t, i)' <=> Has(t, i)
      /\ Read(i)' <=> Read(i)
  BY WorkerFrame DEF Has, InHand, Holding, Read, retry
<1>2. Read(i)' \/ Queued(i)' \/ \E t \in Threads : Has(t, i)'
  BY ClaimedIn DEF Claimed, Read, Queued, Has
<1>3. CASE WorkerGet
  <2>1. queue # << >> /\ queue' = Tail(queue) /\ job'["worker"] = Head(queue)
    BY <1>0, <1>3 DEF WorkerGet
  <2>2. (Queued(i)' => Queued(i)) /\ (Has("worker", i)' => Queued(i))
    BY <2>1, QueuedSteps DEF Has
  <2> QED BY <1>1, <1>2, <2>2, ClaimedIn DEF Threads
<1>4. CASE ~WorkerGet
  <2>1. queue' = queue /\ job' = job /\ pc["worker"] \notin {"get", "done"}
    BY <1>4 DEF WorkerStep, WorkerStart, WorkerBegin, WorkerAttempt, WorkerRecord, WorkerSend,
         WorkerPause, WorkerDelivered, WorkerDecide, WorkerSchedule, WorkerFail, WorkerPreserve,
         WorkerRelease, Goto, jobs
  <2>2. Has("worker", i)' => Has("worker", i)
    BY <2>1 DEF Has, InHand, Holding
  <2> QED BY <1>1, <1>2, <2>1, <2>2, ClaimedIn, QueuedSteps DEF Threads
<1> QED BY <1>3, <1>4

--------------------------------------------------------------------------------
\* What the ledger's steps take for granted: the scheduler reads only when it has
\* nothing left of the last query, and nobody has claimed a row that the repair at
\* startup is about to move.
ClaimsInv ==
    /\ pc["sched"] \notin PutPCs \union {"loop"} => snap = {}
    /\ ~recovered => \A i \in Claimed : db[i].status # "QUEUED"

LEMMA ClaimsOfStep ==
    ASSUME WellTyped, [Next]_vars, NEW i \in Ids, i \in Claimed'
    PROVE  \/ i \in Claimed
           \/ Insert /\ i = nextId
           \/ ManualRetry(i) /\ db[i].status = "FAILED"
           \/ SchedQuery /\ db[i].status = "RETRYING" /\ Read(i)'
<1>1. CASE (\E k \in Ids : Due(k)) \/ Stopped \/ UNCHANGED vars
  <2>1. UNCHANGED <<snap, queue, pc, job>>
    BY <1>1 DEF Due, Stopped, vars, retry, jobs
  <2>2. Claimed' = Claimed
    BY <2>1 DEF Claimed, InHand, Holding
  <2> QED BY <2>2
<1>2. CASE Restart
  <2>1. snap' = {} /\ queue' = << >> /\ \A t \in Threads : job'[t].id = TestId
    BY <1>2 DEF Restart, Poison, Job
  <2>2. Claimed' = {}
    BY <2>1 DEF Claimed, Ids, TestId
  <2> QED BY <2>2
<1> QED BY <1>1, <1>2, ClaimsMain, ClaimsUser, ClaimsSched, ClaimsWorker DEF Next

LEMMA ClaimsNext == WellTyped /\ JobOrigins /\ ClaimsInv /\ [Next]_vars => ClaimsInv'
<1> SUFFICES ASSUME WellTyped, JobOrigins, ClaimsInv, [Next]_vars PROVE ClaimsInv'
  OBVIOUS
<1>1. pc'["sched"] \notin PutPCs \union {"loop"} => snap' = {}
  <2>0. pc \in [Threads -> MainPCs \union SchedPCs \union WorkerPCs] /\ "sched" \in Threads
    BY DEF WellTyped, TypeOK, Threads
  <2>1. CASE SchedStep
    BY <2>0, <2>1 DEF ClaimsInv, SchedStep, SchedTop, SchedSettings, SchedQuery, SchedLoopEnd,
       SchedGiveUp, SchedSkip, SchedPut, PutJob, PutCheck, PutClaim, PutPush, PutUndo, Goto,
       Returned, Refused, PutPCs, retry
  <2>2. CASE MainStep \/ User
    BY <2>2, TkFrame DEF ClaimsInv, retry
  <2>3. CASE WorkerStep
    BY <2>3, WorkerFrame DEF ClaimsInv, retry
  <2>4. CASE (\E i \in Ids : Due(i)) \/ Restart \/ Stopped \/ UNCHANGED vars
    BY <2>4 DEF Due, Restart, Stopped, vars, retry, ClaimsInv
  <2> QED BY <2>1, <2>2, <2>3, <2>4 DEF Next
<1>2. ASSUME ~recovered', NEW i \in Ids, i \in Claimed', db'[i].status = "QUEUED"
      PROVE  FALSE
  <2>1. ~Recover
    BY <1>2 DEF Recover
  <2>2. CASE Restart
    <3>1. snap' = {} /\ queue' = << >> /\ \A t \in Threads : job'[t].id = TestId
      BY <2>2 DEF Restart, Poison, Job
    <3>2. Claimed' = {}
      BY <3>1 DEF Claimed, Ids, TestId
    <3> QED BY <1>2, <3>2
  <2>3. CASE ~Restart
    <3>1. ~recovered
      BY <1>2, <2>1, <2>3 DEF Next, MainStep, Insert, InsertFails, MarkRefused, Requeue, PutJob,
             PutCheck, PutClaim, PutPush, PutUndo, SetStop, Drain, DrainSave, DrainRelease,
             DrainEmpty, PutPoison, User, Configure, Enqueue, ManualRetry, EnqueueTest,
             ClearHistory, Shutdown, SchedStep, SchedTop, SchedSettings, SchedQuery, SchedLoopEnd,
             SchedGiveUp, SchedSkip, SchedPut, WorkerStep, WorkerGet, WorkerStart, WorkerBegin,
             WorkerAttempt, WorkerRecord, WorkerSend, WorkerPause, WorkerDelivered, WorkerDecide,
             WorkerSchedule, WorkerFail, WorkerPreserve, WorkerRelease, Due, Stopped, vars, conf
    <3>2. ~Insert /\ ~Requeue /\ \A k : ~ManualRetry(k)
      BY <3>1 DEF JobOrigins, Insert, Requeue, ManualRetry, Goto
    <3>3. db[i].status = "QUEUED"
      BY <1>2, <2>1, <3>2, RowSteps DEF Settles
    <3>4. i \notin Claimed
      BY <3>1, <3>3 DEF ClaimsInv
    <3> QED BY <1>2, <3>2, <3>3, <3>4, ClaimsOfStep
  <2> QED BY <2>2, <2>3
<1>3. Claimed' \subseteq Ids
  BY DEF Claimed
<1> QED BY <1>1, <1>2, <1>3 DEF ClaimsInv

--------------------------------------------------------------------------------
\* The refinement mapping takes a table to its statuses.
LEMMA Becoming ==
    ASSUME NEW st \in [Ids -> Statuses], Thinned(st, db')
    PROVE  \E gone \in SUBSET {i \in Ids : st[i] \in TERMINAL_STATUSES} :
               [i \in Ids |-> db'[i].status]
                   = [i \in Ids |-> IF i \in gone THEN "ABSENT" ELSE st[i]]
<1> DEFINE gone == {i \in Ids : st[i] \in TERMINAL_STATUSES /\ db'[i].status = "ABSENT"}
<1>1. gone \in SUBSET {i \in Ids : st[i] \in TERMINAL_STATUSES}
  OBVIOUS
<1>2. [i \in Ids |-> db'[i].status]
                   = [i \in Ids |-> IF i \in gone THEN "ABSENT" ELSE st[i]]
  BY DEF Thinned
<1> HIDE DEF gone
<1> QED BY <1>1, <1>2

LEMMA StatusTypes ==
    ASSUME WellTyped, NEW i \in Ids, NEW s \in Statuses
    PROVE  /\ StatusOf(db) \in [Ids -> Statuses]
           /\ SetStatus(db, i, s) \in [Ids -> Statuses]
           /\ [StatusOf(db) EXCEPT ![i] = s] \in [Ids -> Statuses]
<1>1. \A k \in Ids : db[k].status \in Statuses
  BY DEF WellTyped, TypeOK, Rows
<1> QED BY <1>1 DEF StatusOf, SetStatus

LEMMA ReleaseStep ==
    ASSUME WellTyped, Thinned(StatusOf(db), db'), Claimed' \subseteq Claimed, nextId' = nextId
    PROVE  Ledger!Release
<1>1. \A k \in Ids : db[k].status \in Statuses
  BY DEF WellTyped, TypeOK, Rows
<1> DEFINE st == StatusOf(db)
<1>2. st \in [Ids -> Statuses] /\ st = [i \in Ids |-> db[i].status] /\ Thinned(st, db')
  BY <1>1 DEF StatusOf
<1> HIDE DEF st
<1>3. \E gone \in SUBSET {i \in Ids : st[i] \in TERMINAL_STATUSES} :
          [i \in Ids |-> db'[i].status]
                   = [i \in Ids |-> IF i \in gone THEN "ABSENT" ELSE st[i]]
  BY <1>2, Becoming
<1> QED
  BY <1>2, <1>3
     DEF Ledger!Release, Ledger!Becomes, Ledger!Ids, Ledger!Terminal, Ids, TERMINAL_STATUSES

\* Whoever writes about a row in his hands settles it; about one that is no longer in
\* the history, he writes nothing.
LEMMA SettleStep ==
    ASSUME WellTyped, NEW i \in Claimed, NEW S \in SUBSET {"RETRYING", "FAILED", "DELIVERED"},
           Wrote(i, S), Claimed' \subseteq Claimed, nextId' = nextId
    PROVE  Ledger!LNext
<1>0. i \in Ids
  BY DEF Claimed
<1>1. CASE db' = db
  <2>1. Thinned(StatusOf(db), db')
    BY <1>1 DEF Thinned, StatusOf
  <2> QED BY <2>1, ReleaseStep DEF Ledger!LNext
<1>2. ASSUME NEW s \in S, Thinned(SetStatus(db, i, s), db')
      PROVE  Ledger!LNext
  <2>1. CASE db[i].status = "ABSENT"
    <3>1. SetStatus(db, i, s) = StatusOf(db)
      BY <2>1 DEF SetStatus, StatusOf
    <3> QED BY <1>2, <3>1, ReleaseStep DEF Ledger!LNext
  <2>2. CASE db[i].status # "ABSENT"
    <3>1. SetStatus(db, i, s) = [StatusOf(db) EXCEPT ![i] = s]
      BY <1>0, <2>2 DEF SetStatus, StatusOf
    <3>2. s \in Statuses /\ s # "QUEUED" /\ s \in Ledger!Open \union Ledger!Terminal
      BY DEF Statuses, OPEN_STATUSES, TERMINAL_STATUSES, Ledger!Open, Ledger!Terminal
    <3> DEFINE st == SetStatus(db, i, s)
    <3>3. st \in [Ids -> Statuses] /\ Thinned(st, db')
          /\ st = [[k \in Ids |-> db[k].status] EXCEPT ![i] = s]
      BY <1>0, <1>2, <3>1, <3>2, StatusTypes DEF StatusOf
    <3> HIDE DEF st
    <3>4. \E gone \in SUBSET {k \in Ids : st[k] \in TERMINAL_STATUSES} :
              [k \in Ids |-> db'[k].status] = [k \in Ids |-> IF k \in gone THEN "ABSENT" ELSE st[k]]
      BY <3>3, Becoming
    <3>5. Ledger!Settle(i, s)
      BY <1>0, <2>2, <3>2, <3>3, <3>4
         DEF Ledger!Settle, Ledger!Becomes, Ledger!Ids, Ledger!Terminal, Ids, TERMINAL_STATUSES
    <3> QED BY <1>0, <3>2, <3>5 DEF Ledger!LNext, Ledger!Ids, Ids
  <2> QED BY <2>1, <2>2
<1> QED BY <1>1, <1>2 DEF Wrote

--------------------------------------------------------------------------------
\* Nothing but Insert takes an id, and nothing but Insert, ManualRetry and SchedQuery
\* takes a claim.
LEMMA IdsOfStep ==
    ASSUME [Next]_vars, ~Insert
    PROVE  nextId' = nextId
  BY DEF Next, MainStep, Recover, InsertFails, MarkRefused, Requeue, PutJob, PutCheck,
     PutClaim, PutPush, PutUndo, SetStop, Drain, DrainSave, DrainRelease, DrainEmpty, PutPoison,
     User, Configure, Enqueue, ManualRetry, EnqueueTest, ClearHistory, Shutdown, SchedStep,
     SchedTop, SchedSettings, SchedQuery, SchedLoopEnd, SchedGiveUp, SchedSkip, SchedPut,
     WorkerStep, WorkerGet, WorkerStart, WorkerBegin, WorkerAttempt, WorkerRecord, WorkerSend,
     WorkerPause, WorkerDelivered, WorkerDecide, WorkerSchedule, WorkerFail, WorkerPreserve,
     WorkerRelease, Due, Restart, Stopped, vars, store

LEMMA ClaimsKept ==
    ASSUME WellTyped, [Next]_vars, ~Insert, ~SchedQuery, \A i \in Ids : ~ManualRetry(i)
    PROVE  Claimed' \subseteq Claimed
<1>1. Claimed' \subseteq Ids
  BY DEF Claimed
<1> QED BY <1>1, ClaimsOfStep

LEMMA InsertAccepts ==
    ASSUME WellTyped, Insert
    PROVE  Ledger!Accept
<1>0. /\ pc \in [Threads -> MainPCs \union SchedPCs \union WorkerPCs] /\ job \in [Threads -> Jobs]
      /\ "main" \in Threads /\ nextId \in Ids /\ MainStep
      /\ Thinned([StatusOf(db) EXCEPT ![nextId] = "QUEUED"], db')
  BY OtherWrites DEF WellTyped, TypeOK, Threads, MainStep
<1>1. Claimed' = Claimed \union {nextId}
  <2>1. /\ pc["main"] = "insert" /\ pc'["main"] = "check" /\ job'["main"].id = nextId
        /\ queue' = queue /\ snap' = snap
    BY <1>0 DEF Insert, Goto, Job, jobs, retry
  <2>2. \A t \in {"worker", "sched"} : pc'[t] = pc[t] /\ job'[t] = job[t]
    BY <1>0, TkFrame
  <2>3. \A i \in Ids : i \in Claimed' <=> i \in Claimed \/ i = nextId
    <3> TAKE i \in Ids
    <3>1. ~Has("main", i) /\ (Has("main", i)' <=> i = nextId)
      BY <2>1 DEF Has, InHand, Holding
    <3>2. \A t \in {"worker", "sched"} : Has(t, i)' <=> Has(t, i)
      BY <2>2 DEF Has, InHand, Holding
    <3>3. (Read(i)' <=> Read(i)) /\ (Queued(i)' <=> Queued(i))
      BY <2>1 DEF Read, Queued
    <3>4. i \in Claimed' <=> Read(i)' \/ Queued(i)' \/ \E t \in Threads : Has(t, i)'
      BY ClaimedIn DEF Claimed, Read, Queued, Has
    <3> QED BY <3>1, <3>2, <3>3, <3>4, ClaimedIn DEF Threads
  <2> QED BY <1>0, <2>3 DEF Claimed
<1> DEFINE st == [StatusOf(db) EXCEPT ![nextId] = "QUEUED"]
<1>2. st \in [Ids -> Statuses] /\ Thinned(st, db')
      /\ st = [[k \in Ids |-> db[k].status] EXCEPT ![nextId] = "QUEUED"]
  <2>1. "QUEUED" \in Statuses
    BY DEF Statuses, OPEN_STATUSES
  <2> QED BY <1>0, <2>1, StatusTypes DEF StatusOf
<1> HIDE DEF st
<1>3. \E gone \in SUBSET {k \in Ids : st[k] \in TERMINAL_STATUSES} :
          [k \in Ids |-> db'[k].status] = [k \in Ids |-> IF k \in gone THEN "ABSENT" ELSE st[k]]
  BY <1>2, Becoming
<1>4. nextId' = nextId + 1
  BY DEF Insert
<1> QED
  BY <1>0, <1>1, <1>2, <1>3, <1>4
     DEF Ledger!Accept, Ledger!Becomes, Ledger!Ids, Ledger!Terminal, Ids, TERMINAL_STATUSES

LEMMA RetryClaims ==
    ASSUME WellTyped, NEW i \in Ids, ManualRetry(i), User
    PROVE  Ledger!Claim(i)
<1>0. /\ pc \in [Threads -> MainPCs \union SchedPCs \union WorkerPCs] /\ job \in [Threads -> Jobs]
      /\ "main" \in Threads
  BY DEF WellTyped, TypeOK, Threads
<1>1. /\ pc["main"] = "idle" /\ pc'["main"] = "requeue" /\ job'["main"].id = i
      /\ queue' = queue /\ snap' = snap /\ db' = db /\ nextId' = nextId
      /\ db[i].status = "FAILED"
  BY <1>0 DEF ManualRetry, Goto, Job, jobs, retry, store
<1>2. \A t \in {"worker", "sched"} : pc'[t] = pc[t] /\ job'[t] = job[t]
  BY TkFrame
<1>3. \A k \in Ids : k \in Claimed' <=> k \in Claimed \/ k = i
  <2> TAKE k \in Ids
  <2>1. ~Has("main", k) /\ (Has("main", k)' <=> k = i)
    BY <1>1 DEF Has, InHand, Holding
  <2>2. \A t \in {"worker", "sched"} : Has(t, k)' <=> Has(t, k)
    BY <1>2 DEF Has, InHand, Holding
  <2>3. (Read(k)' <=> Read(k)) /\ (Queued(k)' <=> Queued(k))
    BY <1>1 DEF Read, Queued
  <2>4. k \in Claimed' <=> Read(k)' \/ Queued(k)' \/ \E t \in Threads : Has(t, k)'
    BY ClaimedIn DEF Claimed, Read, Queued, Has
  <2> QED BY <2>1, <2>2, <2>3, <2>4, ClaimedIn DEF Threads
<1>4. Claimed' = Claimed \union {i}
  BY <1>3 DEF Claimed
<1> QED BY <1>1, <1>4 DEF Ledger!Claim

LEMMA QueryClaims ==
    ASSUME WellTyped, ClaimsInv, SchedQuery
    PROVE  \E S \in SUBSET Ids : Ledger!ClaimDue(S)
<1> DEFINE S == {i \in Ids : Read(i)'}
<1>0. /\ pc \in [Threads -> MainPCs \union SchedPCs \union WorkerPCs] /\ SchedStep
      /\ "sched" \in Threads
  BY DEF WellTyped, TypeOK, Threads, SchedStep
<1>1. /\ pc["sched"] = "query" /\ pc'["sched"] = "loop" /\ job' = job
      /\ queue' = queue /\ snap = {} /\ db' = db /\ nextId' = nextId
  BY <1>0 DEF SchedQuery, Goto, jobs, store, ClaimsInv, PutPCs
<1>2. \A t \in {"worker", "main"} : pc'[t] = pc[t] /\ job'[t] = job[t]
  BY <1>0, SchedFrame
<1>3. \A k \in Ids : k \in Claimed' <=> k \in Claimed \/ k \in S
  <2> TAKE k \in Ids
  <2>1. ~Has("sched", k) /\ ~Has("sched", k)' /\ ~Read(k)
    BY <1>1 DEF Has, InHand, Holding, Read
  <2>2. \A t \in {"worker", "main"} : Has(t, k)' <=> Has(t, k)
    BY <1>2 DEF Has, InHand, Holding
  <2>3. Queued(k)' <=> Queued(k)
    BY <1>1 DEF Queued
  <2>4. k \in Claimed' <=> Read(k)' \/ Queued(k)' \/ \E t \in Threads : Has(t, k)'
    BY ClaimedIn DEF Claimed, Read, Queued, Has
  <2> QED BY <2>1, <2>2, <2>3, <2>4, ClaimedIn DEF Threads
<1>4. Claimed' = Claimed \union S
  BY <1>3 DEF Claimed
<1>5. \A k \in S : db[k].status = "RETRYING"
  <2> DEFINE record(j) == [id |-> j, provider |-> db[j].provider, delayed |-> db[j].delayed]
  <2>1. \A r \in due_retries(db, Limit) : \E j \in Ids : r = record(j) /\ db[j].status = "RETRYING"
    BY DEF due_retries
  <2>2. \A r \in due_retries(db, Limit) : db[r.id].status = "RETRYING"
    BY <2>1
  <2>3. snap' = due_retries(db, Limit)
    BY DEF SchedQuery
  <2> QED BY <2>2, <2>3 DEF Read
<1>6. S \in SUBSET Ids
  OBVIOUS
<1> HIDE DEF S
<1>7. Ledger!ClaimDue(S)
  BY <1>1, <1>4, <1>5, <1>6 DEF Ledger!ClaimDue
<1> QED BY <1>6, <1>7

LEMMA RecoverAdopts ==
    ASSUME WellTyped, JobOrigins, ClaimsInv, Recover
    PROVE  Ledger!Release \/ \E S \in SUBSET Ids : Ledger!Adopt(S)
<1>0. /\ pc \in [Threads -> MainPCs \union SchedPCs \union WorkerPCs] /\ job' = job
      /\ nextId' = nextId /\ queue' = queue /\ snap' = snap /\ MainStep /\ "main" \in Threads
      /\ pc["main"] = "recover" /\ pc'["main"] = "idle"
  BY DEF WellTyped, TypeOK, Threads, Recover, MainStep, jobs, retry, Goto
<1>1. \A t \in {"worker", "sched"} : pc'[t] = pc[t] /\ job'[t] = job[t]
  BY <1>0, TkFrame
<1>2. Claimed' = Claimed
  BY <1>0, <1>1 DEF Claimed, InHand, Holding, Threads
<1>3. CASE db' = db
  <2>1. Thinned(StatusOf(db), db')
    BY <1>3 DEF Thinned, StatusOf
  <2> QED BY <1>0, <1>2, <2>1, ReleaseStep
<1>4. CASE \A k \in Ids : db'[k].status \in
              IF db[k].status = "QUEUED" THEN {"RETRYING", "FAILED"} ELSE {db[k].status}
  <2> DEFINE S == {k \in Ids : db[k].status = "QUEUED" /\ db'[k].status = "RETRYING"}
  <2>1. S \in SUBSET Ids
    OBVIOUS
  <2>2. \A k \in Ids : db'[k].status = IF db[k].status # "QUEUED" THEN db[k].status
                                       ELSE IF k \in S THEN "RETRYING" ELSE "FAILED"
    BY <1>4
  <2>3. \A k \in S : k \in Ids /\ db[k].status = "QUEUED"
    OBVIOUS
  <2> HIDE DEF S
  <2>4. \A k \in Ids : db[k].status = "QUEUED" => k \notin Claimed
    BY <1>0 DEF ClaimsInv, JobOrigins
  <2> DEFINE st == [k \in Ids |-> db[k].status]
  <2>5. /\ \A k \in Ids : st[k] = "QUEUED" => k \notin Claimed
        /\ S \subseteq {k \in Ids : st[k] = "QUEUED"}
        /\ [k \in Ids |-> db'[k].status] = [k \in Ids |-> IF st[k] # "QUEUED" THEN st[k]
                                          ELSE IF k \in S THEN "RETRYING" ELSE "FAILED"]
    BY <2>2, <2>3, <2>4
  <2> HIDE DEF st
  <2>6. Ledger!Adopt(S)
    BY <1>0, <1>2, <2>5 DEF Ledger!Adopt, Ledger!Ids, Ids, st
  <2>7. \E T \in SUBSET Ids : Ledger!Adopt(T)
    BY <2>1, <2>6, Zenon DEF Ledger!Adopt
  <2> QED BY <2>7
<1> QED BY <1>3, <1>4, OtherWrites

--------------------------------------------------------------------------------
\* Every step of the manager is one of the ledger, or changes nothing of it.
LEMMA LedgerStep ==
    ASSUME WellTyped, JobOrigins, ClaimsInv, [Next]_vars
    PROVE  Ledger!LNext \/ UNCHANGED <<StatusOf(db), Claimed, nextId>>
<1>0. /\ db \in [Ids -> Rows] /\ job \in [Threads -> Jobs]
      /\ "main" \in Threads /\ "worker" \in Threads
  BY DEF WellTyped, TypeOK, Threads
<1>1. CASE Insert
  BY <1>1, InsertAccepts DEF Ledger!LNext
<1>2. CASE SchedQuery
  BY <1>2, QueryClaims DEF Ledger!LNext, Ledger!Ids, Ids
<1>3. CASE \E i \in Ids : ManualRetry(i)
  <2>1. PICK i \in Ids : ManualRetry(i) /\ User
    BY <1>3 DEF User
  <2>2. Ledger!Claim(i)
    BY <2>1, RetryClaims
  <2> QED BY <2>2 DEF Ledger!LNext, Ledger!Ids, Ids
<1>4. CASE Recover
  BY <1>4, RecoverAdopts DEF Ledger!LNext, Ledger!Ids, Ids
<1>5. CASE ~Insert /\ ~SchedQuery /\ ~Recover /\ \A i \in Ids : ~ManualRetry(i)
  <2>1. nextId' = nextId /\ Claimed' \subseteq Claimed
    BY <1>5, IdsOfStep, ClaimsKept
  <2>2. ASSUME NEW t \in Threads, InHand(t), job[t].id \in Ids,
               NEW S \in SUBSET {"RETRYING", "FAILED", "DELIVERED"}, Wrote(job[t].id, S)
        PROVE  Ledger!LNext
    <3>1. job[t].id \in Claimed
      BY <2>2 DEF Claimed
    <3> QED BY <2>1, <2>2, <3>1, SettleStep
  <2>3. CASE MarkRefused
    <3>1. Wrote(job["main"].id, {"FAILED"}) /\ InHand("main")
      BY <2>3, JobSteps DEF MarkRefused, Goto, InHand
    <3> QED BY <1>0, <2>2, <3>1 DEF Wrote
  <2>4. CASE DrainSave
    <3>1. Wrote(job["main"].id, {"RETRYING", "FAILED"}) /\ InHand("main")
      BY <2>4, JobSteps DEF DrainSave, Goto, InHand, Holding
    <3> QED BY <1>0, <2>2, <3>1 DEF Wrote
  <2>5. CASE WorkerDelivered \/ WorkerSchedule \/ WorkerFail \/ WorkerPreserve
    <3>1. /\ InHand("worker")
          /\ \E S \in SUBSET {"RETRYING", "FAILED", "DELIVERED"} : Wrote(job["worker"].id, S)
      BY <2>5, JobSteps
         DEF WorkerDelivered, WorkerSchedule, WorkerFail, WorkerPreserve, Goto, InHand, Holding
    <3> QED BY <1>0, <2>2, <3>1 DEF Wrote
  <2>6. ASSUME NEW r \in snap, SchedGiveUp(r)
        PROVE  Ledger!LNext
    <3>1. Wrote(r.id, {"FAILED"})
      BY <2>6, JobSteps
    <3>2. r.id \in Claimed
      BY <3>1 DEF Claimed, Wrote
    <3> QED BY <2>1, <3>1, <3>2, SettleStep
  <2>7. CASE Requeue
    <3>0. PICK i \in Ids : i = job["main"].id
      BY <2>7, OtherWrites
    <3>1. i \in Claimed
      BY <1>0, <2>7, <3>0 DEF Requeue, Goto, Claimed, InHand
    <3>2. CASE StatusOf(db') = StatusOf(db)
      <4>1. Thinned(StatusOf(db), db')
        BY <3>2 DEF Thinned, StatusOf
      <4> QED BY <2>1, <4>1, ReleaseStep DEF Ledger!LNext
    <3>3. CASE db[i].status = "FAILED" /\ Thinned(SetStatus(db, i, "QUEUED"), db')
      <4> DEFINE st == SetStatus(db, i, "QUEUED")
      <4>1. "QUEUED" \in Statuses /\ "QUEUED" \in Ledger!Open \union Ledger!Terminal
        BY DEF Statuses, OPEN_STATUSES, Ledger!Open
      <4>2. st \in [Ids -> Statuses] /\ Thinned(st, db')
        BY <3>3, <4>1, StatusTypes
      <4>3. st = [[k \in Ids |-> db[k].status] EXCEPT ![i] = "QUEUED"]
        BY <3>1, <3>3 DEF SetStatus
      <4> HIDE DEF st
      <4>4. \E gone \in SUBSET {k \in Ids : st[k] \in TERMINAL_STATUSES} :
              [k \in Ids |-> db'[k].status]
                = [k \in Ids |-> IF k \in gone THEN "ABSENT" ELSE st[k]]
        BY <4>2, Becoming
      <4>5. Ledger!Settle(i, "QUEUED")
        BY <2>1, <3>1, <3>3, <4>3, <4>4
           DEF Ledger!Settle, Ledger!Becomes, Ledger!Ids, Ledger!Terminal, Ids, TERMINAL_STATUSES
      <4> QED BY <3>1, <4>1, <4>5 DEF Ledger!LNext, Ledger!Ids, Ids
    <3> QED BY <2>7, <3>0, <3>2, <3>3, OtherWrites
  <2>8. CASE ClearHistory
    <3>1. Thinned(StatusOf(db), db')
      BY <2>8, OtherWrites
    <3> QED BY <2>1, <3>1, ReleaseStep DEF Ledger!LNext
  <2>9. CASE db' = db \/ WorkerBegin \/ WorkerRecord \/ \E i \in Ids : Due(i)
    <3>1. StatusOf(db') = StatusOf(db)
      BY <2>9, OtherWrites
    <3>2. Thinned(StatusOf(db), db')
      BY <3>1 DEF Thinned, StatusOf
    <3> QED BY <2>1, <3>2, ReleaseStep DEF Ledger!LNext
  <2> QED BY <1>5, <2>3, <2>4, <2>5, <2>6, <2>7, <2>8, <2>9, TableSteps
<1> QED BY <1>1, <1>2, <1>3, <1>4, <1>5

\* Every behaviour of the manager, with its three threads, its queue and its table, is
\* a behaviour of the ledger.
THEOREM ManagerImplementsLedger == Spec => ImplementsLedger
<1>1. Init => Ledger!LInit
  <2> SUFFICES ASSUME Init PROVE Ledger!LInit
    OBVIOUS
  <2>1. [i \in Ids |-> db[i].status] = [i \in Ids |-> "ABSENT"]
    BY DEF Init, EmptyTable, AbsentRow
  <2>2. Claimed = {}
    BY DEF Init, Claimed, Poison, Job, Ids, TestId
  <2> QED BY <2>1, <2>2 DEF Init, Ledger!LInit, Ledger!Ids, Ids
<1>2. Init => ClaimsInv
  <2> SUFFICES ASSUME Init PROVE ClaimsInv
    OBVIOUS
  <2>1. Claimed = {}
    BY DEF Init, Claimed, Poison, Job, Ids, TestId
  <2> QED BY <2>1 DEF Init, ClaimsInv
<1>3. WellTyped /\ JobOrigins /\ ClaimsInv /\ [Next]_vars => [Ledger!LNext]_(Ledger!lvars)
  BY LedgerStep DEF Ledger!lvars, StatusOf
<1>4. WellTyped /\ QueuedInv => JobOrigins
  BY DEF QueuedInv
<1> QED BY <1>1, <1>2, <1>3, <1>4, QueuedInvariant, ClaimsNext, PTL
        DEF Spec, ImplementsLedger, Ledger!LSpec

--------------------------------------------------------------------------------
(***************************************************************************)
(* What the refinement is worth: the ledger's promise of a settled delivery *)
(* follows from its steps alone.                                            *)
(***************************************************************************)
\* Ids not yet given out name no row.
FreshAbsent == \A i \in Ids : i >= nextId => StatusOf(db)[i] = "ABSENT"
LedgerInv == Ledger!LedgerTypeOK /\ FreshAbsent
LedgerStatuses == OPEN_STATUSES \union TERMINAL_STATUSES \union {"ABSENT"}

\* The names of the ledger.
LEMMA LedgerNames ==
    /\ Ledger!Ids = Ids /\ Ledger!Open = OPEN_STATUSES /\ Ledger!Terminal = TERMINAL_STATUSES
    /\ Ledger!LedgerTypeOK <=> /\ StatusOf(db) \in [Ids -> LedgerStatuses]
                               /\ Claimed \subseteq Ids /\ nextId \in 1 .. MaxId + 1
    /\ LedgerInv <=> Ledger!LedgerTypeOK /\ FreshAbsent
    /\ Ledger!lvars = <<StatusOf(db), Claimed, nextId>>
  BY DEF Ledger!Ids, Ids, Ledger!Open, Ledger!Terminal, OPEN_STATUSES, TERMINAL_STATUSES,
         Ledger!LedgerTypeOK, LedgerStatuses, StatusOf, LedgerInv, Ledger!lvars

\* Becomes(st) changes terminal rows of st only, and those to ABSENT.
LEMMA BecomesLemma ==
    ASSUME NEW st \in [Ids -> LedgerStatuses], NEW gone,
           NEW next, next = [i \in Ids |-> IF i \in gone THEN "ABSENT" ELSE st[i]]
    PROVE  /\ next \in [Ids -> LedgerStatuses]
           /\ \A i \in Ids : next[i] \in {st[i], "ABSENT"}
  BY DEF LedgerStatuses

\* One step: LedgerInv is kept, and a settled row nobody has claimed stays or leaves.
LEMMA SettledStep ==
    ASSUME LedgerInv, [Ledger!LNext]_(Ledger!lvars)
    PROVE  /\ LedgerInv'
           /\ \A i \in Ids : StatusOf(db)[i] \in TERMINAL_STATUSES /\ i \notin Claimed
                             => StatusOf(db)'[i] \in {StatusOf(db)[i], "ABSENT"}
<1> DEFINE status == StatusOf(db)
           claims == Claimed
<1>0. /\ status \in [Ids -> LedgerStatuses] /\ claims \subseteq Ids /\ nextId \in 1 .. MaxId + 1
      /\ \A i \in Ids : i >= nextId => status[i] = "ABSENT"
      /\ MaxId \in Nat /\ Ids = 1 .. MaxId
  BY LedgerNames, TableAssumption DEF LedgerInv, FreshAbsent, Ids
<1> DEFINE Kept == /\ status' \in [Ids -> LedgerStatuses] /\ claims' \subseteq Ids
                   /\ nextId' \in 1 .. MaxId + 1
                   /\ \A i \in Ids : i >= nextId' => status'[i] = "ABSENT"
           Settled == \A i \in Ids : status[i] \in TERMINAL_STATUSES /\ i \notin claims
                                     => status'[i] \in {status[i], "ABSENT"}
<1>1. SUFFICES Kept /\ Settled
  <2>1. Ledger!LedgerTypeOK' <=> /\ status' \in [Ids -> LedgerStatuses]
                                 /\ claims' \subseteq Ids /\ nextId' \in 1 .. MaxId + 1
    BY LedgerNames DEF Ledger!LedgerTypeOK, StatusOf, LedgerStatuses
  <2> QED BY <2>1 DEF LedgerInv, FreshAbsent
<1>2. CASE UNCHANGED Ledger!lvars
  <2>1. status' = status /\ claims' = claims /\ nextId' = nextId
    BY <1>2 DEF Ledger!lvars, StatusOf
  <2> HIDE DEF status, claims
  <2> QED BY <1>0, <2>1
<1>3. CASE Ledger!Accept
  <2> DEFINE st == [status EXCEPT ![nextId] = "QUEUED"]
  <2>1. nextId \in Ids /\ Ledger!Becomes(st) /\ claims' = claims \union {nextId}
        /\ nextId' = nextId + 1
    BY <1>3, LedgerNames DEF Ledger!Accept, StatusOf
  <2>2. st \in [Ids -> LedgerStatuses]
    BY <1>0 DEF LedgerStatuses, OPEN_STATUSES
  <2>3. /\ status' \in [Ids -> LedgerStatuses]
        /\ \A i \in Ids : status'[i] \in {st[i], "ABSENT"}
    <3>1. PICK gone : status' = [i \in Ids |-> IF i \in gone THEN "ABSENT" ELSE st[i]]
      BY <2>1, LedgerNames DEF Ledger!Becomes, StatusOf
    <3> HIDE DEF st, status
    <3> QED BY <2>2, <3>1, BecomesLemma
  <2> HIDE DEF status, claims
  <2>4. \A i \in Ids : i # nextId => st[i] = status[i]
    BY <1>0
  <2>5. status[nextId] = "ABSENT"
    BY <1>0, <2>1
  <2> QED BY <1>0, <2>1, <2>3, <2>4, <2>5 DEF TERMINAL_STATUSES
<1>4. CASE Ledger!Release
  <2>1. Ledger!Becomes(status) /\ claims' \subseteq claims /\ nextId' = nextId
    BY <1>4 DEF Ledger!Release, StatusOf
  <2>2. /\ status' \in [Ids -> LedgerStatuses]
        /\ \A i \in Ids : status'[i] \in {status[i], "ABSENT"}
    <3>1. PICK gone : status' = [i \in Ids |-> IF i \in gone THEN "ABSENT" ELSE status[i]]
      BY <2>1, LedgerNames DEF Ledger!Becomes, StatusOf
    <3>2. status \in [Ids -> LedgerStatuses]
      BY <1>0
    <3> HIDE DEF status
    <3> QED BY ONLY <3>1, <3>2, BecomesLemma
  <2> HIDE DEF status, claims
  <2> QED BY <1>0, <2>1, <2>2
<1>5. ASSUME NEW i \in Ids, Ledger!Claim(i) PROVE Kept /\ Settled
  <2>1. status' = status /\ claims' = claims \union {i} /\ nextId' = nextId
    BY <1>5 DEF Ledger!Claim, StatusOf
  <2> HIDE DEF status, claims
  <2> QED BY <1>0, <2>1
<1>6. ASSUME NEW i \in Ids, NEW s \in OPEN_STATUSES \union TERMINAL_STATUSES, Ledger!Settle(i, s)
      PROVE Kept /\ Settled
  <2> DEFINE st == [status EXCEPT ![i] = s]
  <2>1. /\ Ledger!Becomes(st) /\ i \in claims /\ status[i] # "ABSENT" /\ nextId' = nextId
        /\ claims' \subseteq claims
    BY <1>6 DEF Ledger!Settle, StatusOf
  <2>2. st \in [Ids -> LedgerStatuses]
    BY <1>0 DEF LedgerStatuses
  <2>3. /\ status' \in [Ids -> LedgerStatuses]
        /\ \A k \in Ids : status'[k] \in {st[k], "ABSENT"}
    <3>1. PICK gone : status' = [k \in Ids |-> IF k \in gone THEN "ABSENT" ELSE st[k]]
      BY <2>1, LedgerNames DEF Ledger!Becomes, StatusOf
    <3> HIDE DEF st, status
    <3> QED BY <2>2, <3>1, BecomesLemma
  <2> HIDE DEF status, claims
  <2>4. \A k \in Ids : k # i => st[k] = status[k]
    BY <1>0
  <2>5. ~ (i >= nextId)
    BY <1>0, <2>1
  <2> QED BY <1>0, <2>1, <2>3, <2>4, <2>5
<1>7. ASSUME NEW S \in SUBSET Ids, Ledger!ClaimDue(S) PROVE Kept /\ Settled
  <2>1. status' = status /\ claims' = claims \union S /\ nextId' = nextId
    BY <1>7 DEF Ledger!ClaimDue, StatusOf
  <2> HIDE DEF status, claims
  <2> QED BY <1>0, <2>1
<1>8. ASSUME NEW S \in SUBSET Ids, Ledger!Adopt(S) PROVE Kept /\ Settled
  <2>1. /\ status' = [i \in Ids |-> IF status[i] # "QUEUED" THEN status[i]
                                    ELSE IF i \in S THEN "RETRYING" ELSE "FAILED"]
        /\ claims' = claims /\ nextId' = nextId
    BY <1>8, LedgerNames DEF Ledger!Adopt, StatusOf
  <2> HIDE DEF status, claims
  <2>2. \A i \in Ids : status'[i] = IF status[i] # "QUEUED" THEN status[i]
                                    ELSE IF i \in S THEN "RETRYING" ELSE "FAILED"
    BY <2>1
  <2>3. status' \in [Ids -> LedgerStatuses]
    BY <1>0, <2>1 DEF LedgerStatuses, OPEN_STATUSES, TERMINAL_STATUSES
  <2> QED BY <1>0, <2>1, <2>2, <2>3 DEF TERMINAL_STATUSES
<1>9. \/ UNCHANGED Ledger!lvars \/ Ledger!Accept \/ Ledger!Release
      \/ \E i \in Ids : \/ Ledger!Claim(i)
                        \/ \E s \in OPEN_STATUSES \union TERMINAL_STATUSES : Ledger!Settle(i, s)
      \/ \E S \in SUBSET Ids : Ledger!ClaimDue(S) \/ Ledger!Adopt(S)
  <2>1. Ledger!LNext \/ UNCHANGED Ledger!lvars
    OBVIOUS
  <2> QED BY <2>1, LedgerNames DEF Ledger!LNext
<1> HIDE DEF Kept, Settled
<1> QED BY <1>2, <1>3, <1>4, <1>5, <1>6, <1>7, <1>8, <1>9

\* A delivery that was made or given up stays so until somebody claims it: in every
\* behaviour of the ledger, for any number of deliveries.
LEMMA SettledStays == Ledger!LSpec => Ledger!ClaimedOnly
<1>1. Ledger!LInit => LedgerInv
  BY LedgerNames, TableAssumption DEF Ledger!LInit, FreshAbsent, StatusOf, Ids, LedgerStatuses
<1>2. LedgerInv /\ [Ledger!LNext]_(Ledger!lvars) => LedgerInv'
  BY SettledStep
<1>3. LedgerInv /\ [Ledger!LNext]_(Ledger!lvars) => Ledger!UnclaimedStays
  BY SettledStep, LedgerNames DEF Ledger!UnclaimedStays, StatusOf
<1> QED BY <1>1, <1>2, <1>3, PTL DEF Ledger!LSpec, Ledger!ClaimedOnly

\* What the refinement buys: no thread touches the row of a delivery that was made or given
\* up and that nobody has claimed, except to prune or clear it.
THEOREM SettledRowsStay == Spec => Ledger!ClaimedOnly
BY ManagerImplementsLedger, SettledStays, PTL DEF ImplementsLedger

--------------------------------------------------------------------------------
(***************************************************************************)
(* Without delayed retries, refused writes and crashes, a row has one job   *)
(* until the user retries it, and he can only retry one that failed: where  *)
(* a job waits the endpoint has not accepted, and where it has accepted the *)
(* row says so or the worker is about to.  With delayed retries this is not *)
(* so: the run Duplicate shows a row delivered twice.                       *)
(***************************************************************************)
MainAt(i, S) == pc["main"] \in S /\ job["main"].id = i
WorkerAt(i, S) == pc["worker"] \in S /\ job["worker"].id = i

Working == WorkerPCs \ {"get", "done", "release", "delivered"}
InPut == {"check", "claim", "push", "undo", "refuse", "save"}

Waits(i) == Queued(i) \/ WorkerAt(i, Working) \/ MainAt(i, InPut)

Unused(i) == i \notin Claimed /\ accepted[i] = 0 /\ db[i].status = "ABSENT"

SentOnce(i) ==
    /\ accepted[i] <= 1
    /\ accepted[i] > 0 =>
          db[i].status \in {"DELIVERED", "ABSENT"} \/ WorkerAt(i, {"delivered"})
    /\ Waits(i) => accepted[i] = 0 /\ db[i].status \in {"QUEUED", "ABSENT"}
    /\ MainAt(i, {"requeue"}) => accepted[i] = 0 /\ db[i].status \in {"FAILED", "ABSENT"}
    /\ WorkerAt(i, {"delivered"}) => db[i].status \in {"QUEUED", "ABSENT"}
    /\ MainAt(i, {"requeue", "check", "claim", "refuse"}) =>
          ~Queued(i) /\ ~WorkerAt(i, Working \union {"delivered"})

OnceRow(i) == SentOnce(i) /\ (i >= nextId => Unused(i))

ImmediateOnly == pc["sched"] \in {"top", "settings", "done"} /\ ~settings.later

OnceInv ==
    /\ ImmediateOnly
    /\ ~recovered => \A i \in Ids : db[i].status = "ABSENT"
    /\ \A i \in Ids : OnceRow(i)

Calm == failures = 0 /\ crashes = 0

NoDelayedRetries == \A s \in SettingsChoices : ~s.later

--------------------------------------------------------------------------------
\* What the hands of two threads and the queue have in common: nothing.
LEMMA HeldApart ==
    ASSUME WellTyped, JobsApart, NEW t \in Threads, Holding(t), NEW i \in Ids, job[t].id = i
    PROVE  /\ ~Queued(i)
           /\ \A u \in Threads : u # t /\ Holding(u) => job[u].id # i
<1>1. OneLiveJob
  BY LiveJobsApart
<1>2. Durable(job[t])
  BY DEF Durable, TestId, Ids
<1> QED BY <1>1, <1>2 DEF OneLiveJob, Queued

\* Refusals and crashes are counted and never forgotten.
LEMMA CalmBefore == ASSUME WellTyped, [Next]_vars, Calm' PROVE Calm /\ ~Restart
<1>1. failures' = failures \/ failures' = failures + 1
  BY DEF Next, MainStep, Recover, Insert, InsertFails, MarkRefused, Requeue, PutJob, PutCheck,
         PutClaim, PutPush, PutUndo, SetStop, Drain, DrainSave, DrainRelease, DrainEmpty,
         PutPoison, User, Configure, Enqueue, ManualRetry, EnqueueTest, ClearHistory,
         Shutdown, SchedStep, SchedTop, SchedSettings, SchedQuery, SchedLoopEnd, SchedGiveUp,
         SchedSkip, SchedPut, WorkerStep, WorkerGet, WorkerStart, WorkerBegin, WorkerAttempt,
         WorkerRecord, WorkerSend, WorkerPause, WorkerDelivered, WorkerDecide, WorkerSchedule,
         WorkerFail, WorkerPreserve, WorkerRelease, Due, Restart, Stopped, vars, store,
         Write, Fails
<1>2. crashes' = crashes \/ (Restart /\ crashes' = crashes + 1)
  <2>1. CASE MainStep \/ User
    BY <2>1, TkFrame
  <2>2. CASE SchedStep
    BY <2>2, SchedFrame DEF bounds
  <2>3. CASE WorkerStep
    BY <2>3, WorkerFrame DEF bounds
  <2>4. CASE (\E i \in Ids : Due(i)) \/ Restart \/ Stopped \/ UNCHANGED vars
    BY <2>4 DEF Due, Restart, Stopped, vars, bounds
  <2> QED BY <2>1, <2>2, <2>3, <2>4 DEF Next
<1>3. failures \in Nat /\ crashes \in Nat
  BY DEF WellTyped, TypeOK
<1>4. failures = 0 /\ crashes = 0
  BY <1>1, <1>2, <1>3 DEF Calm
<1>5. ~Restart
  BY <1>4 DEF Calm, Restart
<1> QED BY <1>4, <1>5 DEF Calm

\* Without delayed retries the scheduler never reads the table.
LEMMA ImmediateStep ==
    ASSUME NoDelayedRetries, WellTyped, ImmediateOnly, [Next]_vars
    PROVE  ImmediateOnly'
<1>0. pc \in [Threads -> MainPCs \union SchedPCs \union WorkerPCs] /\ "sched" \in Threads
  BY DEF WellTyped, TypeOK, Threads
<1>1. CASE MainStep \/ User
  <2>1. pc'["sched"] = pc["sched"]
    BY <1>1, TkFrame
  <2>2. settings' = settings \/ settings' \in SettingsChoices
    BY <1>1 DEF MainStep, Recover, Insert, InsertFails, MarkRefused, Requeue, PutJob, PutCheck,
         PutClaim, PutPush, PutUndo, SetStop, Drain, DrainSave, DrainRelease, DrainEmpty,
         PutPoison, User, Configure, Enqueue, ManualRetry, EnqueueTest, ClearHistory,
         Shutdown, conf
  <2> QED BY <2>1, <2>2 DEF ImmediateOnly, NoDelayedRetries
<1>2. CASE SchedStep
  <2>1. settings' = settings
    BY <1>2, SchedFrame DEF conf
  <2>2. SchedTop \/ SchedSettings
    BY <1>2 DEF ImmediateOnly, SchedStep, SchedQuery, SchedLoopEnd, SchedGiveUp, SchedSkip,
                SchedPut, PutJob, PutCheck, PutClaim, PutPush, PutUndo, Goto
  <2> QED BY <1>0, <2>1, <2>2 DEF ImmediateOnly, SchedTop, SchedSettings, Goto
<1>3. CASE WorkerStep
  <2>1. pc'["sched"] = pc["sched"] /\ settings' = settings
    BY <1>3, WorkerFrame DEF conf
  <2> QED BY <2>1 DEF ImmediateOnly
<1>4. CASE (\E i \in Ids : Due(i)) \/ Stopped \/ UNCHANGED vars
  BY <1>4 DEF Due, Stopped, vars, conf, ImmediateOnly
<1>5. CASE Restart
  BY <1>5 DEF Restart, ImmediateOnly, DefaultSettings, Entry, Threads
<1> QED BY <1>1, <1>2, <1>3, <1>4, <1>5 DEF Next

\* Nothing is in the table before the repair at startup, which therefore finds nothing.
LEMMA FirstRepair ==
    ASSUME WellTyped, JobOrigins, OnceInv, [Next]_vars, ~Restart
    PROVE  /\ ~recovered' => \A i \in Ids : db'[i].status = "ABSENT"
           /\ \A i \in Ids : ~(Recover /\ db[i].status = "QUEUED")
<1>1. \A i \in Ids : ~(Recover /\ db[i].status = "QUEUED")
  BY DEF Recover, Goto, JobOrigins, OnceInv
<1>2. recovered => recovered'
  BY DEF Next, MainStep, Recover, Insert, InsertFails, MarkRefused, Requeue, PutJob, PutCheck,
         PutClaim, PutPush, PutUndo, SetStop, Drain, DrainSave, DrainRelease, DrainEmpty,
         PutPoison, User, Configure, Enqueue, ManualRetry, EnqueueTest, ClearHistory,
         Shutdown, SchedStep, SchedTop, SchedSettings, SchedQuery, SchedLoopEnd, SchedGiveUp,
         SchedSkip, SchedPut, WorkerStep, WorkerGet, WorkerStart, WorkerBegin, WorkerAttempt,
         WorkerRecord, WorkerSend, WorkerPause, WorkerDelivered, WorkerDecide, WorkerSchedule,
         WorkerFail, WorkerPreserve, WorkerRelease, Due, Stopped, vars, conf
<1>3. ASSUME ~recovered', NEW i \in Ids PROVE db'[i].status = "ABSENT"
  <2>1. db[i].status = "ABSENT" /\ ~Insert
    BY <1>2, <1>3 DEF OnceInv, Insert, Goto, JobOrigins
  <2> QED BY <2>1, RowSteps DEF Settles, TERMINAL_STATUSES
<1> QED BY <1>1, <1>3

\* An id that was not given out yet belongs to nobody.
LEMMA UnusedStep ==
    ASSUME WellTyped, JobOrigins, OnceInv, [Next]_vars, ~Restart,
           NEW i \in Ids, i >= nextId'
    PROVE  Unused(i)'
<1>0. nextId \in Nat /\ i \in Nat /\ accepted \in [Ids -> Nat] /\ db \in [Ids -> Rows]
  BY DEF WellTyped, TypeOK, Ids
<1>1. nextId' = nextId \/ (Insert /\ nextId' = nextId + 1)
  BY DEF Next, MainStep, Recover, Insert, InsertFails, MarkRefused, Requeue, PutJob, PutCheck,
         PutClaim, PutPush, PutUndo, SetStop, Drain, DrainSave, DrainRelease, DrainEmpty,
         PutPoison, User, Configure, Enqueue, ManualRetry, EnqueueTest, ClearHistory,
         Shutdown, SchedStep, SchedTop, SchedSettings, SchedQuery, SchedLoopEnd, SchedGiveUp,
         SchedSkip, SchedPut, WorkerStep, WorkerGet, WorkerStart, WorkerBegin, WorkerAttempt,
         WorkerRecord, WorkerSend, WorkerPause, WorkerDelivered, WorkerDecide, WorkerSchedule,
         WorkerFail, WorkerPreserve, WorkerRelease, Due, Stopped, vars, store
<1>2. Unused(i) /\ ~(Insert /\ i = nextId)
  <2>1. Insert => nextId' = nextId + 1
    BY DEF Insert
  <2>2. i >= nextId /\ ~(Insert /\ i = nextId)
    BY <1>0, <1>1, <2>1
  <2> QED BY <2>2 DEF OnceInv, OnceRow
<1>3. i \notin Claimed'
  BY <1>2, ClaimsOfStep DEF Unused
<1>4. db'[i].status = "ABSENT"
  BY <1>2, RowSteps DEF Unused, Settles, TERMINAL_STATUSES
<1>5. accepted'[i] = accepted[i]
  <2>1. CASE MainStep \/ User
    BY <2>1, TkFrame DEF ghost
  <2>2. CASE SchedStep
    BY <2>2, SchedFrame DEF ghost
  <2>3. CASE \E r \in Results : WorkerSend(r)
    <3>1. pc["worker"] = "send"
      BY <2>3 DEF WorkerSend, Goto
    <3>2. job["worker"].id # i
      BY <1>2, <3>1 DEF Unused, Claimed, InHand, Holding, Threads
    <3> QED BY <1>0, <2>3, <3>2 DEF WorkerSend
  <2>4. CASE WorkerStep /\ ~\E r \in Results : WorkerSend(r)
    BY <2>4 DEF WorkerStep, WorkerGet, WorkerStart, WorkerBegin, WorkerAttempt, WorkerRecord,
                WorkerPause, WorkerDelivered, WorkerDecide, WorkerSchedule, WorkerFail,
                WorkerPreserve, WorkerRelease, ghost
  <2>5. CASE (\E k \in Ids : Due(k)) \/ Stopped \/ UNCHANGED vars
    BY <2>5 DEF Due, Stopped, vars, ghost
  <2> QED BY <2>1, <2>2, <2>3, <2>4, <2>5 DEF Next
<1> QED BY <1>2, <1>3, <1>4, <1>5 DEF Unused

--------------------------------------------------------------------------------
\* A row that is not written about, except to prune or clear it.
Still(i) == \/ db'[i].status = db[i].status
            \/ db[i].status \in TERMINAL_STATUSES /\ db'[i].status = "ABSENT"

LEMMA OnceCarries ==
    ASSUME NEW i \in Ids, SentOnce(i), Still(i), accepted'[i] = accepted[i],
           Waits(i)' => Waits(i),
           WorkerAt(i, {"delivered"})' <=> WorkerAt(i, {"delivered"}),
           MainAt(i, {"requeue"})' => MainAt(i, {"requeue"}),
           MainAt(i, {"requeue", "check", "claim", "refuse"})' =>
               ~Queued(i)' /\ ~WorkerAt(i, Working \union {"delivered"})'
    PROVE  SentOnce(i)'
  BY DEF SentOnce, Still, TERMINAL_STATUSES

LEMMA MainRows ==
    ASSUME WellTyped, JobOrigins, OnceInv, MainStep, NEW i \in Ids
    PROVE  \/ Still(i)
           \/ Insert /\ i = nextId /\ db'[i].status = "QUEUED"
           \/ Requeue /\ i = job["main"].id /\ db[i].status = "FAILED" /\ db'[i].status = "QUEUED"
           \/ MarkRefused /\ i = job["main"].id
           \/ DrainSave /\ i = job["main"].id
<1>0. pc \in [Threads -> MainPCs \union SchedPCs \union WorkerPCs] /\ "worker" \in Threads
  BY DEF WellTyped, TypeOK, Threads
<1>1. ~(Recover /\ db[i].status = "QUEUED")
  BY DEF Recover, Goto, JobOrigins, OnceInv
<1>2. /\ ~WorkerDelivered /\ ~WorkerSchedule /\ ~WorkerFail /\ ~WorkerPreserve
      /\ ~\E r \in snap : SchedGiveUp(r)
  <2>1. pc'["worker"] = pc["worker"]
    BY TkFrame
  <2> QED BY <1>0, <2>1 DEF WorkerDelivered, WorkerSchedule, WorkerFail, WorkerPreserve,
                      SchedGiveUp, Goto, OnceInv, ImmediateOnly
<1>3. [Next]_vars
  BY DEF Next
<1> QED BY <1>1, <1>2, <1>3, RowSteps DEF Settles, Still

LEMMA OnceMain ==
    ASSUME WellTyped, JobsApart, JobOrigins, OnceInv, MainStep, Calm', NEW i \in Ids
    PROVE  SentOnce(i)'
<1>0. /\ pc \in [Threads -> MainPCs \union SchedPCs \union WorkerPCs] /\ job \in [Threads -> Jobs]
      /\ "main" \in Threads /\ "worker" \in Threads /\ i # TestId /\ i \in Nat
      /\ db \in [Ids -> Rows] /\ accepted \in [Ids -> Nat] /\ failures' = 0
  BY DEF WellTyped, TypeOK, Threads, Ids, TestId, Calm
<1>1. pc'["worker"] = pc["worker"] /\ job'["worker"] = job["worker"] /\ accepted' = accepted
  BY TkFrame DEF ghost
<1>2. /\ WorkerAt(i, Working)' <=> WorkerAt(i, Working)
      /\ WorkerAt(i, {"delivered"})' <=> WorkerAt(i, {"delivered"})
      /\ WorkerAt(i, Working \union {"delivered"})' <=> WorkerAt(i, Working \union {"delivered"})
  BY <1>1 DEF WorkerAt
<1>3. SentOnce(i) /\ (i >= nextId => Unused(i))
  BY DEF OnceInv, OnceRow
<1>4. WorkerAt(i, Working \union {"delivered"}) =>
          pc["worker"] \notin {"get", "done", "release"} /\ job["worker"].id = i
  BY DEF WorkerAt, Working
<1>5. CASE Drain
  <2>1. /\ queue # << >> /\ queue' = Tail(queue)
        /\ pc["main"] = "drain" /\ job'["main"] = Head(queue)
        /\ pc'["main"] \in {"save", "drain"}
    BY <1>0, <1>5 DEF Drain, Goto
  <2>2. ~MainAt(i, {"requeue", "check", "claim", "refuse"})' /\ ~MainAt(i, {"requeue"})'
    BY <2>1 DEF MainAt
  <2>3. Waits(i)' => Waits(i)
    BY <1>2, <2>1, QueuedSteps DEF Waits, MainAt, InPut
  <2>4. Still(i)
    BY <2>1, MainRows DEF Insert, Requeue, MarkRefused, DrainSave, Goto
  <2> QED BY <1>1, <1>2, <1>3, <2>2, <2>3, <2>4, OnceCarries
<1>6. CASE PutPush("main")
  <2>1. pc["main"] = "push" /\ job' = job
        /\ (queue' = queue \/ queue' = Append(queue, job["main"])) /\ job["main"] \in Jobs
    BY <1>0, <1>6 DEF PutPush, Goto
  <2>2. job["main"].id = i => pc'["main"] \in {"idle", "insert", "undo"}
    BY <1>0, <1>6 DEF PutPush, Goto, Returned, Refused, Durable
  <2>3. ~MainAt(i, {"requeue", "check", "claim", "refuse"})' /\ ~MainAt(i, {"requeue"})'
    BY <2>1, <2>2 DEF MainAt
  <2>4. Waits(i)' => Waits(i)
    BY <1>2, <2>1, <2>2, QueuedSteps DEF Waits, MainAt, InPut
  <2>5. Still(i)
    BY <2>1, MainRows DEF Insert, Requeue, MarkRefused, DrainSave, Goto
  <2> QED BY <1>1, <1>2, <1>3, <2>3, <2>4, <2>5, OnceCarries
<1>7. CASE PutPoison
  <2>1. /\ pc["main"] = "poison" /\ pc'["main"] = "gone"
        /\ (queue' = queue \/ queue' = Append(queue, Poison)) /\ Poison.id # i
    BY <1>0, <1>7 DEF PutPoison, Goto, Poison, Job
  <2>2. ~MainAt(i, {"requeue", "check", "claim", "refuse"})' /\ ~MainAt(i, {"requeue"})'
    BY <2>1 DEF MainAt
  <2>3. Waits(i)' => Waits(i)
    BY <1>2, <2>1, PoisonJob, QueuedSteps DEF Waits, MainAt, InPut
  <2>4. Still(i)
    BY <2>1, MainRows DEF Insert, Requeue, MarkRefused, DrainSave, Goto
  <2> QED BY <1>1, <1>2, <1>3, <2>2, <2>3, <2>4, OnceCarries
<1>8. CASE MarkRefused \/ DrainSave
  <2>1. /\ pc["main"] \in {"refuse", "save"} /\ job' = job /\ queue' = queue
        /\ pc'["main"] \in {"idle", "insert", "unclaim"}
    BY <1>0, <1>8 DEF MarkRefused, DrainSave, Goto, Returned, jobs
  <2>2. ~MainAt(i, {"requeue", "check", "claim", "refuse"})' /\ ~MainAt(i, {"requeue"})'
        /\ ~MainAt(i, InPut)'
    BY <2>1 DEF MainAt, InPut
  <2>3. Waits(i)' => Waits(i)
    BY <1>2, <2>1, <2>2, QueuedSteps DEF Waits
  <2>4. CASE i = job["main"].id
    <3>1. ~Queued(i) /\ ~WorkerAt(i, Working \union {"delivered"})
      <4>1. CASE pc["main"] = "refuse"
        BY <1>3, <2>4, <4>1 DEF SentOnce, MainAt
      <4>2. CASE pc["main"] = "save"
        <5>1. Holding("main")
          BY <4>2 DEF Holding
        <5>2. pc["worker"] \notin {"get", "done", "release"} => Holding("worker")
          BY DEF Holding
        <5> QED BY <1>0, <1>4, <2>4, <5>1, <5>2, HeldApart
      <4> QED BY <2>1, <4>1, <4>2
    <3>2. ~Waits(i)' /\ ~WorkerAt(i, {"delivered"})'
      BY <1>2, <2>1, <2>2, <3>1, QueuedSteps DEF Waits, WorkerAt
    <3>3. accepted'[i] = 0
      BY <1>1, <1>3, <2>1, <2>4 DEF SentOnce, Waits, MainAt, InPut
    <3> QED BY <1>2, <2>2, <3>2, <3>3 DEF SentOnce
  <2>5. CASE i # job["main"].id
    <3>1. Still(i)
      BY <2>1, <2>5, MainRows DEF Insert, Requeue, Goto
    <3> QED BY <1>1, <1>2, <1>3, <2>2, <2>3, <3>1, OnceCarries
  <2> QED BY <2>4, <2>5
<1>9. CASE Requeue
  <2>1. /\ pc["main"] = "requeue" /\ job' = job /\ queue' = queue /\ pc'["main"] = "check"
    BY <1>0, <1>9 DEF Requeue, Goto, jobs
  <2>2. CASE i = job["main"].id
    <3>1. /\ accepted[i] = 0 /\ db[i].status \in {"FAILED", "ABSENT"}
          /\ ~Queued(i) /\ ~WorkerAt(i, Working \union {"delivered"})
      BY <1>3, <2>1, <2>2 DEF SentOnce, MainAt
    <3>2. db' = mark_queued(db, i)
      BY <1>0, <1>9, <2>2 DEF Requeue, Write, Fails, WellTyped, TypeOK
    <3>3. db'[i].status \in {"QUEUED", "ABSENT"}
      <4> DEFINE d == mark_queued(db, i)
      <4>1. StatusOf(d) = IF db[i].status = "FAILED" THEN SetStatus(db, i, "QUEUED")
                                                     ELSE StatusOf(db)
        BY <1>0, StatementEffects
      <4> HIDE DEF d
      <4>2. d[i].status \in {"QUEUED", "ABSENT"}
        <5>1. StatusOf(d)[i] = d[i].status /\ StatusOf(db)[i] = db[i].status
          BY DEF StatusOf
        <5>2. SetStatus(db, i, "QUEUED")[i] = IF db[i].status # "ABSENT" THEN "QUEUED"
                                              ELSE db[i].status
          BY DEF SetStatus
        <5> QED BY <3>1, <4>1, <5>1, <5>2
      <4> QED BY <3>2, <4>2 DEF d
    <3>4. ~Queued(i)' /\ ~WorkerAt(i, Working \union {"delivered"})'
          /\ ~WorkerAt(i, {"delivered"})' /\ ~MainAt(i, {"requeue"})'
      BY <1>2, <2>1, <3>1, QueuedSteps DEF WorkerAt, MainAt
    <3> QED BY <1>1, <3>1, <3>3, <3>4 DEF SentOnce
  <2>3. CASE i # job["main"].id
    <3>1. Still(i)
      BY <2>1, <2>3, MainRows DEF Insert, MarkRefused, DrainSave, Goto
    <3>2. ~MainAt(i, {"requeue", "check", "claim", "refuse"})' /\ ~MainAt(i, {"requeue"})'
          /\ ~MainAt(i, InPut)'
      BY <2>1, <2>3 DEF MainAt
    <3>3. Waits(i)' => Waits(i)
      BY <1>2, <2>1, <3>2, QueuedSteps DEF Waits
    <3> QED BY <1>1, <1>2, <1>3, <3>1, <3>2, <3>3, OnceCarries
  <2> QED BY <2>2, <2>3
<1>10. CASE Insert
  <2>1. /\ pc["main"] = "insert" /\ job'["main"].id = nextId /\ queue' = queue
        /\ pc'["main"] = "check"
    BY <1>0, <1>10 DEF Insert, Goto, jobs, Job
  <2>2. CASE i = nextId
    <3>1. Unused(i)
      BY <1>0, <1>3, <2>2
    <3>2. ~Queued(i) /\ ~WorkerAt(i, Working \union {"delivered"})
      <4>1. pc["worker"] \notin {"get", "done", "release"} => InHand("worker")
        BY DEF InHand, Holding
      <4> QED BY <1>0, <1>4, <3>1, <4>1 DEF Unused, Claimed, Queued
    <3>3. db'[i].status \in {"QUEUED", "ABSENT"}
      BY <2>1, <3>1, MainRows DEF Unused, Still, Requeue, MarkRefused, DrainSave, Goto
    <3>4. ~Queued(i)' /\ ~WorkerAt(i, Working \union {"delivered"})'
          /\ ~WorkerAt(i, {"delivered"})' /\ ~MainAt(i, {"requeue"})'
      BY <1>2, <2>1, <3>2, QueuedSteps DEF WorkerAt, MainAt
    <3> QED BY <1>1, <3>1, <3>3, <3>4 DEF SentOnce, Unused
  <2>3. CASE i # nextId
    <3>1. Still(i)
      BY <2>1, <2>3, MainRows DEF Requeue, MarkRefused, DrainSave, Goto
    <3>2. ~MainAt(i, {"requeue", "check", "claim", "refuse"})' /\ ~MainAt(i, {"requeue"})'
          /\ ~MainAt(i, InPut)'
      BY <2>1, <2>3 DEF MainAt
    <3>3. Waits(i)' => Waits(i)
      BY <1>2, <2>1, <3>2, QueuedSteps DEF Waits
    <3> QED BY <1>1, <1>2, <1>3, <3>1, <3>2, <3>3, OnceCarries
  <2> QED BY <2>2, <2>3
<1>11. CASE PutCheck("main") \/ PutClaim("main") \/ PutUndo("main")
  <2>1. /\ pc["main"] \in {"check", "claim", "undo"} /\ job' = job /\ queue' = queue
        /\ pc'["main"] \notin {"requeue"}
        /\ job["main"].id = i /\ pc'["main"] = "check" => FALSE
    BY <1>0, <1>11 DEF PutCheck, PutClaim, PutUndo, Goto, Refused, Returned, jobs
  <2>2. Waits(i)' => Waits(i)
    BY <1>2, <2>1, QueuedSteps DEF Waits, MainAt, InPut
  <2>3. ~MainAt(i, {"requeue"})'
    BY <2>1 DEF MainAt
  <2>4. ASSUME MainAt(i, {"requeue", "check", "claim", "refuse"})'
        PROVE  ~Queued(i)' /\ ~WorkerAt(i, Working \union {"delivered"})'
    <3>1. job["main"].id = i
      BY <2>1, <2>4 DEF MainAt
    <3>2. CASE pc["main"] = "undo"
      <4>1. Holding("main") /\ (pc["worker"] \notin {"get", "done", "release"} => Holding("worker"))
        BY <3>2 DEF Holding
      <4>2. ~Queued(i) /\ ~WorkerAt(i, Working \union {"delivered"})
        BY <1>0, <1>4, <3>1, <4>1, HeldApart
      <4> QED BY <1>2, <2>1, <4>2, QueuedSteps
    <3>3. CASE pc["main"] \in {"check", "claim"}
      <4>1. ~Queued(i) /\ ~WorkerAt(i, Working \union {"delivered"})
        BY <1>3, <3>1, <3>3 DEF SentOnce, MainAt
      <4> QED BY <1>2, <2>1, <4>1, QueuedSteps
    <3> QED BY <2>1, <3>2, <3>3
  <2>5. Still(i)
    BY <2>1, MainRows DEF Insert, Requeue, MarkRefused, DrainSave, Goto
  <2> QED BY <1>1, <1>2, <1>3, <2>2, <2>3, <2>4, <2>5, OnceCarries
<1>12. CASE Recover \/ InsertFails \/ SetStop \/ DrainRelease \/ DrainEmpty
  <2>1. /\ pc["main"] \notin {"requeue", "refuse", "save"} /\ queue' = queue
        /\ pc'["main"] \in {"idle", "insert", "drain", "poison"} /\ ~Insert
    BY <1>0, <1>12 DEF Recover, InsertFails, SetStop, DrainRelease, DrainEmpty, Goto, Insert, jobs
  <2>2. ~MainAt(i, {"requeue", "check", "claim", "refuse"})' /\ ~MainAt(i, {"requeue"})'
        /\ ~MainAt(i, InPut)'
    BY <2>1 DEF MainAt, InPut
  <2>3. Waits(i)' => Waits(i)
    BY <1>2, <2>1, <2>2, QueuedSteps DEF Waits
  <2>4. Still(i)
    BY <2>1, MainRows DEF Requeue, MarkRefused, DrainSave, Goto
  <2> QED BY <1>1, <1>2, <1>3, <2>2, <2>3, <2>4, OnceCarries
<1> QED BY <1>5, <1>6, <1>7, <1>8, <1>9, <1>10, <1>11, <1>12 DEF MainStep, PutJob

--------------------------------------------------------------------------------
LEMMA OnceUser ==
    ASSUME WellTyped, JobsApart, JobOrigins, OnceInv, User, NEW i \in Ids
    PROVE  SentOnce(i)'
<1>0. /\ pc \in [Threads -> MainPCs \union SchedPCs \union WorkerPCs] /\ job \in [Threads -> Jobs]
      /\ "main" \in Threads /\ "worker" \in Threads /\ i # TestId /\ i \in Nat
  BY DEF WellTyped, TypeOK, Threads, Ids, TestId
<1>1. /\ pc'["worker"] = pc["worker"] /\ job'["worker"] = job["worker"] /\ accepted' = accepted
      /\ queue' = queue /\ pc["main"] \in {"boot", "idle"}
  BY TkFrame DEF ghost, User, Configure, Enqueue, ManualRetry, EnqueueTest, ClearHistory,
                 Shutdown, Goto, jobs
<1>2. /\ WorkerAt(i, Working)' <=> WorkerAt(i, Working)
      /\ WorkerAt(i, {"delivered"})' <=> WorkerAt(i, {"delivered"})
      /\ WorkerAt(i, Working \union {"delivered"})' <=> WorkerAt(i, Working \union {"delivered"})
      /\ Queued(i)' <=> Queued(i)
  BY <1>1, QueuedSteps DEF WorkerAt
<1>3. SentOnce(i)
  BY DEF OnceInv, OnceRow
<1>4. Still(i)
  <2>1. /\ ~WorkerDelivered /\ ~WorkerSchedule /\ ~WorkerFail /\ ~WorkerPreserve
        /\ ~\E r \in snap : SchedGiveUp(r)
    BY <1>0, <1>1 DEF WorkerDelivered, WorkerSchedule, WorkerFail, WorkerPreserve, SchedGiveUp,
                      Goto, OnceInv, ImmediateOnly
  <2>2. ~Insert /\ ~Recover /\ ~Requeue /\ ~MarkRefused /\ ~DrainSave /\ [Next]_vars
    BY <1>1 DEF Insert, Recover, Requeue, MarkRefused, DrainSave, Goto, Next
  <2> QED BY <2>1, <2>2, RowSteps DEF Still
<1>5. CASE ManualRetry(i)
  <2>1. /\ db[i].status = "FAILED" /\ job'["main"].id = i /\ pc'["main"] = "requeue" /\ db' = db
    BY <1>0, <1>5 DEF ManualRetry, Goto, Job, store
  <2>2. accepted[i] = 0
    <3>1. ~(accepted[i] > 0)
      BY <1>3, <2>1 DEF SentOnce
    <3> QED BY <3>1 DEF WellTyped, TypeOK
  <2>3. ~Waits(i) /\ ~WorkerAt(i, {"delivered"})
    BY <1>3, <2>1 DEF SentOnce
  <2>4. ~Queued(i)' /\ ~WorkerAt(i, Working)' /\ ~WorkerAt(i, {"delivered"})' /\ ~MainAt(i, InPut)'
    BY <1>2, <2>1, <2>3 DEF Waits, MainAt, InPut
  <2>5. ~WorkerAt(i, Working \union {"delivered"})'
    BY <2>4 DEF WorkerAt
  <2> QED BY <1>1, <2>1, <2>2, <2>4, <2>5 DEF SentOnce, Waits
<1>6. CASE ~ManualRetry(i)
  <2>1. ~MainAt(i, {"requeue", "check", "claim", "refuse"})' /\ ~MainAt(i, {"requeue"})'
        /\ ~MainAt(i, InPut)'
    BY <1>0, <1>6 DEF User, Configure, Enqueue, ManualRetry, EnqueueTest, ClearHistory,
                 Shutdown, Goto, Job, TestId, MainAt, InPut
  <2>2. Waits(i)' => Waits(i)
    BY <1>2, <2>1 DEF Waits
  <2> QED BY <1>1, <1>2, <1>3, <1>4, <2>1, <2>2, OnceCarries
<1> QED BY <1>5, <1>6

\* A step that moves neither the Tk thread nor the worker, nor the queue.
LEMMA OnceAside ==
    ASSUME WellTyped, OnceInv, NEW i \in Ids, Still(i), accepted' = accepted, queue' = queue,
           \A t \in {"main", "worker"} : pc'[t] = pc[t] /\ job'[t] = job[t]
    PROVE  SentOnce(i)'
<1>1. /\ WorkerAt(i, Working)' <=> WorkerAt(i, Working)
      /\ WorkerAt(i, {"delivered"})' <=> WorkerAt(i, {"delivered"})
      /\ WorkerAt(i, Working \union {"delivered"})' <=> WorkerAt(i, Working \union {"delivered"})
      /\ MainAt(i, InPut)' <=> MainAt(i, InPut)
      /\ MainAt(i, {"requeue"})' <=> MainAt(i, {"requeue"})
      /\ MainAt(i, {"requeue", "check", "claim", "refuse"})'
            <=> MainAt(i, {"requeue", "check", "claim", "refuse"})
      /\ Queued(i)' <=> Queued(i)
  BY QueuedSteps DEF WorkerAt, MainAt
<1>2. SentOnce(i)
  BY DEF OnceInv, OnceRow
<1> QED BY <1>1, <1>2, OnceCarries DEF Waits, SentOnce

LEMMA OnceSched ==
    ASSUME WellTyped, OnceInv, SchedStep, NEW i \in Ids
    PROVE  SentOnce(i)'
<1>1. SchedTop \/ SchedSettings
  BY DEF OnceInv, ImmediateOnly, SchedStep, SchedQuery, SchedLoopEnd, SchedGiveUp, SchedSkip,
         SchedPut, PutJob, PutCheck, PutClaim, PutPush, PutUndo, Goto
<1>2. /\ \A t \in {"main", "worker"} : pc'[t] = pc[t] /\ job'[t] = job[t]
      /\ accepted' = accepted
  BY SchedFrame DEF ghost
<1>3. db' = db /\ queue' = queue
  BY <1>1 DEF SchedTop, SchedSettings, store, jobs
<1> QED BY <1>2, <1>3, OnceAside DEF Still

LEMMA WorkerRows ==
    ASSUME WellTyped, WorkerStep, NEW i \in Ids
    PROVE  \/ Still(i)
           \/ WorkerDelivered /\ i = job["worker"].id
           \/ (WorkerSchedule \/ WorkerFail \/ WorkerPreserve) /\ i = job["worker"].id
<1>0. pc \in [Threads -> MainPCs \union SchedPCs \union WorkerPCs]
      /\ "main" \in Threads /\ "sched" \in Threads
  BY DEF WellTyped, TypeOK, Threads
<1>1. pc'["main"] = pc["main"] /\ pc'["sched"] = pc["sched"] /\ job'["main"] = job["main"]
      /\ recovered' = recovered
  BY WorkerFrame DEF conf
<1>2. ~Insert /\ ~Requeue /\ ~MarkRefused /\ ~DrainSave /\ ~Recover
  BY <1>0, <1>1 DEF Insert, Requeue, MarkRefused, DrainSave, Recover, Goto, Returned
<1>3. ~\E r \in snap : SchedGiveUp(r)
  <2>1. snap' = snap
    BY WorkerFrame DEF retry
  <2> QED BY <2>1 DEF SchedGiveUp
<1>4. [Next]_vars
  BY DEF Next
<1> QED BY <1>2, <1>3, <1>4, RowSteps DEF Settles, Still

LEMMA OnceWorker ==
    ASSUME WellTyped, JobsApart, OnceInv, WorkerStep, Calm', NEW i \in Ids
    PROVE  SentOnce(i)'
<1>0. /\ pc \in [Threads -> MainPCs \union SchedPCs \union WorkerPCs] /\ job \in [Threads -> Jobs]
      /\ "main" \in Threads /\ "worker" \in Threads /\ i # TestId /\ i \in Nat
      /\ accepted \in [Ids -> Nat] /\ failures' = 0 /\ pc["worker"] \in WorkerPCs
  BY DEF WellTyped, TypeOK, Threads, Ids, TestId, Calm, PCs
<1>1. pc'["main"] = pc["main"] /\ job'["main"] = job["main"]
  BY WorkerFrame
<1>2. /\ MainAt(i, InPut)' <=> MainAt(i, InPut)
      /\ MainAt(i, {"requeue"})' <=> MainAt(i, {"requeue"})
      /\ MainAt(i, {"requeue", "check", "claim", "refuse"})'
            <=> MainAt(i, {"requeue", "check", "claim", "refuse"})
  BY <1>1 DEF MainAt
<1>3. SentOnce(i)
  BY DEF OnceInv, OnceRow
<1>4. pc["worker"] \notin {"get", "done", "release"} /\ job["worker"].id = i =>
          /\ ~Queued(i) /\ ~MainAt(i, {"requeue", "check", "claim", "refuse"}) /\ ~MainAt(i, InPut)
          /\ ~MainAt(i, {"requeue"})
  <2> SUFFICES ASSUME pc["worker"] \notin {"get", "done", "release"}, job["worker"].id = i
               PROVE  /\ ~Queued(i) /\ ~MainAt(i, {"requeue", "check", "claim", "refuse"})
                      /\ ~MainAt(i, InPut) /\ ~MainAt(i, {"requeue"})
    OBVIOUS
  <2>1. WorkerAt(i, Working \union {"delivered"})
    BY <1>0 DEF WorkerAt, Working
  <2>2. ~MainAt(i, {"requeue", "check", "claim", "refuse"})
    BY <1>3, <2>1 DEF SentOnce
  <2>3. Holding("worker") /\ (pc["main"] \in {"push", "undo", "save"} => Holding("main"))
    BY DEF Holding
  <2>4. ~Queued(i) /\ ~(pc["main"] \in {"push", "undo", "save"} /\ job["main"].id = i)
    BY <1>0, <2>3, HeldApart
  <2> QED BY <2>2, <2>4 DEF MainAt, InPut
<1>5. CASE WorkerGet
  <2>1. /\ queue # << >> /\ queue' = Tail(queue) /\ accepted' = accepted /\ db' = db
        /\ pc["worker"] = "get" /\ job'["worker"] = Head(queue)
        /\ pc'["worker"] \in {"done", "start"}
    BY <1>0, <1>5 DEF WorkerGet, Goto, ghost, store
  <2>2. Waits(i)' => Waits(i)
    BY <1>2, <2>1, QueuedSteps DEF Waits, WorkerAt
  <2>3. ~WorkerAt(i, {"delivered"})' /\ ~WorkerAt(i, {"delivered"})
    BY <2>1 DEF WorkerAt
  <2>4. ASSUME MainAt(i, {"requeue", "check", "claim", "refuse"})'
        PROVE  ~Queued(i)' /\ ~WorkerAt(i, Working \union {"delivered"})'
    <3>1. ~Queued(i)
      BY <1>2, <1>3, <2>4 DEF SentOnce
    <3> QED BY <2>1, <3>1, QueuedSteps DEF WorkerAt
  <2> QED BY <1>2, <1>3, <2>1, <2>2, <2>3, <2>4, OnceCarries DEF Still
<1>6. CASE \E r \in Results : WorkerSend(r)
  <2>1. PICK r \in Results : WorkerSend(r)
    BY <1>6
  <2>2. /\ queue' = queue /\ db' = db /\ job' = job /\ pc["worker"] = "send"
        /\ pc'["worker"] = AfterAttempt(job["worker"], r)
    BY <1>0, <2>1 DEF WorkerSend, Goto, jobs, store
  <2>3. accepted'[i] = accepted[i] + IF i = job["worker"].id /\ r = "ok" THEN 1 ELSE 0
    BY <1>0, <2>1 DEF WorkerSend
  <2>4. CASE i = job["worker"].id
    <3>1. /\ accepted[i] = 0 /\ db[i].status \in {"QUEUED", "ABSENT"}
      BY <1>3, <2>2, <2>4 DEF SentOnce, Waits, WorkerAt, Working, WorkerPCs
    <3>2. ~Queued(i)' /\ ~MainAt(i, {"requeue", "check", "claim", "refuse"})' /\ ~MainAt(i, InPut)'
          /\ ~MainAt(i, {"requeue"})'
      BY <1>2, <1>4, <2>2, <2>4, QueuedSteps
    <3>3. CASE r = "ok"
      <4>1. pc'["worker"] = "delivered" /\ accepted'[i] = 1
        <5>1. AfterAttempt(job["worker"], r) = "delivered"
          BY <1>0, <2>4, <3>3 DEF AfterAttempt, IfDurable, Durable, RetryNow
        <5>2. accepted'[i] = accepted[i] + 1
          BY <2>3, <2>4, <3>3
        <5> QED BY <2>2, <3>1, <5>1, <5>2
      <4>2. WorkerAt(i, {"delivered"})' /\ ~WorkerAt(i, Working)'
        BY <2>2, <2>4, <4>1 DEF WorkerAt, Working
      <4> QED BY <2>2, <3>1, <3>2, <4>1, <4>2 DEF SentOnce, Waits
    <3>4. CASE r # "ok"
      <4>1. accepted'[i] = 0
        BY <2>3, <3>1, <3>4
      <4>2. ~WorkerAt(i, {"delivered"})'
        BY <2>2, <3>4 DEF AfterAttempt, IfDurable, WorkerAt
      <4> QED BY <2>2, <3>1, <3>2, <4>1, <4>2 DEF SentOnce
    <3> QED BY <3>3, <3>4
  <2>5. CASE i # job["worker"].id
    <3>1. ~WorkerAt(i, {"delivered"})' /\ ~WorkerAt(i, {"delivered"}) /\ ~WorkerAt(i, Working)'
          /\ ~WorkerAt(i, Working \union {"delivered"})'
      BY <2>2, <2>5 DEF WorkerAt
    <3>2. Waits(i)' => Waits(i)
      BY <1>2, <2>2, <3>1, QueuedSteps DEF Waits
    <3>3. accepted'[i] = accepted[i]
      BY <1>0, <2>3, <2>5
    <3>4. MainAt(i, {"requeue", "check", "claim", "refuse"})' => ~Queued(i)'
      BY <1>2, <1>3, <2>2, QueuedSteps DEF SentOnce
    <3> QED BY <1>2, <1>3, <2>2, <3>1, <3>2, <3>3, <3>4, OnceCarries DEF Still
  <2> QED BY <2>4, <2>5
<1>7. CASE WorkerDelivered \/ WorkerSchedule \/ WorkerFail \/ WorkerPreserve
  <2>1. /\ queue' = queue /\ job' = job /\ accepted' = accepted /\ pc'["worker"] = "release"
        /\ pc["worker"] \in {"delivered", "schedule", "fail", "preserve"}
    BY <1>0, <1>7 DEF WorkerDelivered, WorkerSchedule, WorkerFail, WorkerPreserve, Goto, jobs,
                      ghost
  <2>2. ~WorkerAt(i, {"delivered"})' /\ ~WorkerAt(i, Working)'
        /\ ~WorkerAt(i, Working \union {"delivered"})'
    BY <2>1 DEF WorkerAt, Working
  <2>3. CASE i = job["worker"].id
    <3>1. ~Queued(i)' /\ ~MainAt(i, {"requeue", "check", "claim", "refuse"})' /\ ~MainAt(i, InPut)'
          /\ ~MainAt(i, {"requeue"})'
      BY <1>2, <1>4, <2>1, <2>3, QueuedSteps
    <3>2. accepted'[i] > 0 => db'[i].status \in {"DELIVERED", "ABSENT"}
      <4>1. CASE WorkerDelivered
        <5>1. Wrote(i, {"DELIVERED"}) /\ failures' = 0
          BY <1>0, <2>3, <4>1, JobSteps
        <5>2. Thinned(SetStatus(db, i, "DELIVERED"), db')
          BY <5>1 DEF Wrote
        <5>3. SetStatus(db, i, "DELIVERED")[i] \in {"DELIVERED", "ABSENT"}
          BY DEF SetStatus
        <5> QED BY <5>2, <5>3 DEF Thinned
      <4>2. CASE WorkerSchedule \/ WorkerFail \/ WorkerPreserve
        <5>1. WorkerAt(i, Working)
          BY <2>3, <4>2 DEF WorkerSchedule, WorkerFail, WorkerPreserve, Goto, WorkerAt, Working,
                            WorkerPCs
        <5> QED BY <1>3, <2>1, <5>1 DEF SentOnce, Waits
      <4> QED BY <1>7, <4>1, <4>2
    <3> QED BY <1>3, <2>1, <2>2, <3>1, <3>2 DEF SentOnce, Waits
  <2>4. CASE i # job["worker"].id
    <3>1. Still(i)
      BY <2>4, WorkerRows
    <3>2. Waits(i)' => Waits(i)
      BY <1>2, <2>1, <2>2, QueuedSteps DEF Waits
    <3>3. ~WorkerAt(i, {"delivered"})
      BY <2>4 DEF WorkerAt
    <3>4. MainAt(i, {"requeue", "check", "claim", "refuse"})' => ~Queued(i)'
      BY <1>2, <1>3, <2>1, QueuedSteps DEF SentOnce
    <3> QED BY <1>2, <1>3, <2>1, <2>2, <3>1, <3>2, <3>3, <3>4, OnceCarries
  <2> QED BY <2>3, <2>4
<1>8. CASE \/ WorkerStart \/ WorkerBegin \/ WorkerAttempt \/ WorkerRecord \/ WorkerPause
           \/ WorkerDecide \/ WorkerRelease
  <2>1. /\ queue' = queue /\ job' = job /\ accepted' = accepted
        /\ pc["worker"] \in (Working \union {"release"})
        /\ pc'["worker"] # "delivered" /\ pc["worker"] # "delivered"
        /\ pc["worker"] = "release" => pc'["worker"] = "get"
    BY <1>0, <1>8 DEF WorkerStart, WorkerBegin, WorkerAttempt, WorkerRecord, WorkerPause,
         WorkerDecide, WorkerRelease, Goto, IfDurable, jobs, ghost, Working, WorkerPCs
  <2>2. ~WorkerAt(i, {"delivered"})' /\ ~WorkerAt(i, {"delivered"})
        /\ (WorkerAt(i, Working)' => WorkerAt(i, Working))
        /\ (WorkerAt(i, Working \union {"delivered"})' => WorkerAt(i, Working \union {"delivered"}))
    BY <2>1 DEF WorkerAt, Working
  <2>3. Still(i)
    BY <1>0, <1>8, WorkerRows DEF WorkerStart, WorkerBegin, WorkerAttempt, WorkerRecord,
    WorkerPause,
         WorkerDecide, WorkerRelease, WorkerDelivered, WorkerSchedule, WorkerFail, WorkerPreserve,
         Goto
  <2>4. Waits(i)' => Waits(i)
    BY <1>2, <2>1, <2>2, QueuedSteps DEF Waits
  <2>5. MainAt(i, {"requeue", "check", "claim", "refuse"})' =>
             ~Queued(i)' /\ ~WorkerAt(i, Working \union {"delivered"})'
    BY <1>2, <1>3, <2>1, <2>2, QueuedSteps DEF SentOnce
  <2> QED BY <1>2, <1>3, <2>1, <2>2, <2>3, <2>4, <2>5, OnceCarries
<1> QED BY <1>5, <1>6, <1>7, <1>8 DEF WorkerStep

LEMMA OnceNext ==
    ASSUME NoDelayedRetries, WellTyped, JobsApart, JobOrigins, Calm => OnceInv, [Next]_vars
    PROVE  (Calm => OnceInv)'
<1> SUFFICES ASSUME Calm' PROVE OnceInv'
  OBVIOUS
<1>1. Calm /\ ~Restart /\ OnceInv
  BY CalmBefore
<1>2. ASSUME NEW i \in Ids PROVE SentOnce(i)'
  <2>1. CASE (\E k \in Ids : Due(k)) \/ Stopped \/ UNCHANGED vars
    <3>1. UNCHANGED <<pc, job, queue, accepted>>
      BY <2>1 DEF Due, Stopped, vars, ghost, jobs
    <3>2. Still(i)
      <4>1. CASE \E k \in Ids : Due(k)
        <5>1. StatusOf(db') = StatusOf(db)
          BY <4>1, OtherWrites
        <5>2. StatusOf(db')[i] = db'[i].status /\ StatusOf(db)[i] = db[i].status
          BY DEF StatusOf
        <5> QED BY <5>1, <5>2 DEF Still
      <4>2. CASE Stopped \/ UNCHANGED vars
        BY <4>2 DEF Stopped, vars, Still
      <4> QED BY <2>1, <4>1, <4>2
    <3> QED BY <1>1, <3>1, <3>2, OnceAside
  <2> QED BY <1>1, <2>1, OnceMain, OnceUser, OnceSched, OnceWorker DEF Next
<1>3. ASSUME NEW i \in Ids, i >= nextId' PROVE Unused(i)'
  BY <1>1, <1>3, UnusedStep
<1>4. ImmediateOnly'
  BY <1>1, ImmediateStep DEF OnceInv
<1>5. ~recovered' => \A i \in Ids : db'[i].status = "ABSENT"
  BY <1>1, FirstRepair
<1> QED BY <1>2, <1>3, <1>4, <1>5 DEF OnceInv, OnceRow

LEMMA OnceInit == Init => OnceInv
  BY DEF Init, OnceInv, ImmediateOnly, OnceRow, SentOnce, Unused, Waits, WorkerAt, MainAt, Queued,
         Claimed, InHand, Holding, EmptyTable, AbsentRow, Entry, Threads, DefaultSettings, InPut,
         Working, Ids

LEMMA OnceInvariant == NoDelayedRetries /\ Spec => [](WellTyped /\ (Calm => OnceInv))
<1> SUFFICES ASSUME NoDelayedRetries PROVE Spec => [](WellTyped /\ (Calm => OnceInv))
  OBVIOUS
<1>1. Init => WellTyped /\ JobsApart /\ JobOrigins /\ (Calm => OnceInv)
  BY OnceInit, WellTypedInit, ApartInit DEF Init, JobOrigins, Entry, Threads, PutPCs
<1>2. /\ WellTyped /\ JobsApart /\ JobOrigins /\ (Calm => OnceInv)
      /\ [Next]_vars
      => (WellTyped /\ JobsApart /\ JobOrigins /\ (Calm => OnceInv))'
  BY WellTypedNext, ApartNext, OriginsNext, OnceNext
<1> QED BY <1>1, <1>2, PTL DEF Spec

\* With delayed retries off, an endpoint accepts a row once at most, however often the user
\* retries, clears, configures or shuts down; as long as no write is refused and the process
\* does not start again.
THEOREM AcceptedAtMostOnce ==
    NoDelayedRetries /\ Spec => [](failures = 0 /\ crashes = 0 => AtMostOnce)
<1>1. (Calm => OnceInv) => (failures = 0 /\ crashes = 0 => AtMostOnce)
  BY DEF Calm, OnceInv, OnceRow, SentOnce, AtMostOnce
<1> QED BY <1>1, OnceInvariant, PTL

\* In the same behaviours Clear History spares the row of the job the worker is busy with: it
\* is QUEUED until the worker brings it to an outcome, and only a settled row is cleared.
THEOREM ClearLeavesActive ==
    NoDelayedRetries /\ Spec /\ [](failures = 0 /\ crashes = 0) => ClearSparesActive
<1>1. WellTyped /\ (Calm => OnceInv) /\ Calm /\ [Next]_vars
      => [failures = 0 /\ ClearHistory /\ pc["worker"] \in {"attempt", "record", "send", "pause"} =>
            \A i \in Ids : job["worker"].id = i => db'[i] = db[i]]_vars
  <2> SUFFICES ASSUME WellTyped, OnceInv, ClearHistory, NEW i \in Ids, job["worker"].id = i,
                      pc["worker"] \in {"attempt", "record", "send", "pause"}
               PROVE  db'[i] = db[i]
    OBVIOUS
  <2>1. Waits(i) /\ SentOnce(i)
    BY DEF OnceInv, OnceRow, Waits, WorkerAt, Working, WorkerPCs
  <2>2. db[i].status \notin TERMINAL_STATUSES
    BY <2>1 DEF SentOnce, TERMINAL_STATUSES
  <2> QED BY <2>2 DEF ClearHistory, Write, Fails, clear_terminal
<1>2. (failures = 0 /\ crashes = 0) <=> Calm
  BY DEF Calm
<1> QED BY <1>1, <1>2, OnceInvariant, PTL DEF Spec, ClearSparesActive

--------------------------------------------------------------------------------
(***************************************************************************)
(* The counts.  Under the same hypotheses every attempt is recorded before  *)
(* it is made; and until the user retries it, a row has one burst.          *)
(***************************************************************************)
SentRow(i) ==
    /\ db[i].status # "ABSENT" => sends[i] <= db[i].attempts
    /\ WorkerAt(i, {"send"}) /\ db[i].status # "ABSENT" => sends[i] < db[i].attempts
    /\ i >= nextId => sends[i] = 0

BeforeAttempt == {"start", "begin", "attempt", "record", "send"}

BurstRow(i) ==
    /\ sends[i] <= Retries + 1
    /\ Queued(i) \/ MainAt(i, InPut) => sends[i] = 0
    /\ WorkerAt(i, BeforeAttempt) => sends[i] <= attempt /\ attempt <= Retries
    /\ WorkerAt(i, {"pause"}) => sends[i] <= attempt + 1 /\ attempt < Retries
    /\ pc["main"] # "requeue"

SentInv == \A i \in Ids : SentRow(i) /\ (manuals = 0 => BurstRow(i))

--------------------------------------------------------------------------------
\* No statement takes an attempt back; a row that is there was there before.
Counts(t, u) ==
    \A k \in Ids : u[k].status # "ABSENT" =>
        t[k].status # "ABSENT" /\ u[k].attempts >= t[k].attempts

LEMMA UpdateCounts ==
    ASSUME NEW t \in [Ids -> Rows], NEW i \in Ids, NEW S, "ABSENT" \notin S,
           NEW row \in Rows, row.attempts >= t[i].attempts
    PROVE  Counts(t, Update(t, i, S, row)) /\ Update(t, i, S, row) \in [Ids -> Rows]
<1>1. \A k \in Ids : t[k].attempts \in Nat
  BY DEF Rows
<1>2. Update(t, i, S, row) \in [Ids -> Rows]
  BY UpdateType
<1> QED BY <1>1, <1>2 DEF Counts, Update

LEMMA PruneCounts ==
    ASSUME NEW t \in [Ids -> Rows], NEW u \in [Ids -> Rows], Counts(t, u)
    PROVE  Counts(t, prune_terminal(u))
  BY DEF Counts, prune_terminal, AbsentRow

LEMMA StatementCounts ==
    ASSUME NEW t \in [Ids -> Rows], NEW i \in Ids
    PROVE  /\ Counts(t, t)
           /\ Counts(t, record_attempt(t, i))
           /\ Counts(t, begin_delayed_retry(t, i))
           /\ Counts(t, mark_delivered(t, i))
           /\ Counts(t, mark_failed(t, i))
           /\ \A w \in {"none", "later", "now"} : Counts(t, schedule_retry(t, i, w))
           /\ Counts(t, mark_queued(t, i))
           /\ Counts(t, clear_terminal(t))
           /\ \A later \in BOOLEAN : Counts(t, recover_interrupted(t, later))
           /\ t[i].status \in OPEN_STATUSES =>
                record_attempt(t, i)[i].attempts = t[i].attempts + 1
<1>0. t[i] \in Rows /\ \A k \in Ids : t[k] \in Rows /\ t[k].attempts \in Nat
  BY DEF Rows
<1>1. "ABSENT" \notin AnyStatus /\ "ABSENT" \notin OPEN_STATUSES
  BY DEF AnyStatus, OPEN_STATUSES, TERMINAL_STATUSES
<1>2. Counts(t, t)
  BY <1>0 DEF Counts
<1>3. Counts(t, record_attempt(t, i))
  <2> DEFINE row == [t[i] EXCEPT !.attempts = @ + 1]
  <2>1. row \in Rows /\ row.attempts >= t[i].attempts
    BY <1>0 DEF Rows
  <2> HIDE DEF row
  <2> QED BY <1>1, <2>1, UpdateCounts DEF record_attempt, row
<1>4. Counts(t, begin_delayed_retry(t, i))
  <2> DEFINE row == [t[i] EXCEPT !.delayed = @ + 1]
  <2>1. row \in Rows /\ row.attempts >= t[i].attempts
    BY <1>0 DEF Rows
  <2> HIDE DEF row
  <2> QED BY <2>1, UpdateCounts DEF begin_delayed_retry, row
<1>5. Counts(t, mark_delivered(t, i))
  <2> DEFINE row == [t[i] EXCEPT !.status = "DELIVERED", !.next = "none"]
  <2>1. row \in Rows
    BY <1>0 DEF Rows, Statuses, TERMINAL_STATUSES
  <2>2. row.attempts = t[i].attempts
    BY <1>0 DEF Rows
  <2>3. row.attempts >= t[i].attempts
    BY <1>0, <2>2
  <2> HIDE DEF row
  <2>4. Counts(t, Update(t, i, AnyStatus, row)) /\ Update(t, i, AnyStatus, row) \in [Ids -> Rows]
    BY <1>1, <2>1, <2>3, UpdateCounts
  <2> QED BY <2>4, PruneCounts DEF mark_delivered, row
<1>6. Counts(t, mark_failed(t, i))
  <2> DEFINE row == [t[i] EXCEPT !.status = "FAILED", !.next = "none"]
  <2>1. row \in Rows
    BY <1>0 DEF Rows, Statuses, TERMINAL_STATUSES
  <2>2. row.attempts = t[i].attempts
    BY <1>0 DEF Rows
  <2>3. row.attempts >= t[i].attempts
    BY <1>0, <2>2
  <2> HIDE DEF row
  <2>4. Counts(t, Update(t, i, AnyStatus, row)) /\ Update(t, i, AnyStatus, row) \in [Ids -> Rows]
    BY <1>1, <2>1, <2>3, UpdateCounts
  <2> QED BY <2>4, PruneCounts DEF mark_failed, row
<1>7. ASSUME NEW w \in {"none", "later", "now"} PROVE Counts(t, schedule_retry(t, i, w))
  <2> DEFINE row == [t[i] EXCEPT !.status = "RETRYING", !.next = w]
  <2>1. row \in Rows
    BY <1>0 DEF Rows, Statuses, OPEN_STATUSES
  <2>2. row.attempts = t[i].attempts
    BY <1>0 DEF Rows
  <2>3. row.attempts >= t[i].attempts
    BY <1>0, <2>2
  <2> HIDE DEF row
  <2> QED BY <1>1, <2>1, <2>3, UpdateCounts DEF schedule_retry, row
<1>8. Counts(t, mark_queued(t, i))
  <2> DEFINE row == [t[i] EXCEPT !.status = "QUEUED", !.next = "none"]
  <2>1. row \in Rows
    BY <1>0 DEF Rows, Statuses, OPEN_STATUSES
  <2>2. row.attempts = t[i].attempts
    BY <1>0 DEF Rows
  <2>3. row.attempts >= t[i].attempts
    BY <1>0, <2>2
  <2> HIDE DEF row
  <2> QED BY <1>1, <2>1, <2>3, UpdateCounts DEF mark_queued, row
<1>9. Counts(t, clear_terminal(t))
  BY <1>0 DEF Counts, clear_terminal, AbsentRow
<1>10. ASSUME NEW later \in BOOLEAN PROVE Counts(t, recover_interrupted(t, later))
  <2> SUFFICES ASSUME NEW k \in Ids
               PROVE  LET r == recover_interrupted(t, later)[k]
                      IN  r.status # "ABSENT" =>
                              t[k].status # "ABSENT" /\ r.attempts >= t[k].attempts
    BY DEF Counts
  <2>1. t[k] \in Rows /\ t[k].attempts \in Nat
    BY <1>0
  <2> QED BY <2>1 DEF recover_interrupted, Rows
<1>11. ASSUME t[i].status \in OPEN_STATUSES
       PROVE  record_attempt(t, i)[i].attempts = t[i].attempts + 1
  BY <1>0, <1>11 DEF record_attempt, Update, Rows
<1> QED BY <1>2, <1>3, <1>4, <1>5, <1>6, <1>7, <1>8, <1>9, <1>10, <1>11

\* One step: attempts are only added, and only enqueue() makes a row.
LEMMA CountsStep ==
    ASSUME WellTyped, [Next]_vars, NEW k \in Ids, db'[k].status # "ABSENT", ~(Insert /\ k = nextId)
    PROVE  db[k].status # "ABSENT" /\ db'[k].attempts >= db[k].attempts
<1>0. /\ db \in [Ids -> Rows] /\ "main" \in Threads /\ "worker" \in Threads
      /\ settings.later \in BOOLEAN /\ db[k].attempts \in Nat
  BY DEF WellTyped, TypeOK, Threads, SettingsRecords, Rows
<1>1. CASE Insert
  <2>1. nextId \in Ids /\ Head(todo) \in Providers
    BY <1>1, NextProvider DEF Insert, Goto
  <2> QED BY <1>0, <1>1, <2>1 DEF Insert, insert_delivery, prune_terminal, AbsentRow
<1>2. CASE ~Insert
  <2>1. Counts(db, db')
    <3>1. CASE db' = db
      BY <1>0, <3>1, StatementCounts
    <3>2. CASE Recover
      BY <1>0, <3>2, StatementCounts DEF Recover, Write, Fails
    <3>3. CASE MarkRefused
      <4>1. job["main"].id \in Ids
        BY <1>0, <3>3, DurableJob DEF MarkRefused, Goto, DurablePoints
      <4> QED BY <1>0, <3>3, <4>1, StatementCounts DEF MarkRefused, Write, Fails
    <3>4. CASE Requeue
      <4>1. job["main"].id \in Ids
        BY <1>0, <3>4, DurableJob DEF Requeue, Goto, DurablePoints
      <4> QED BY <1>0, <3>4, <4>1, StatementCounts DEF Requeue, Write, Fails
    <3>5. CASE ClearHistory
      BY <1>0, <3>5, StatementCounts DEF ClearHistory, Write, Fails
    <3>6. CASE DrainSave
      <4>1. job["main"].id \in Ids
        BY <1>0, <3>6, DurableJob DEF DrainSave, Goto, DurablePoints
      <4> QED BY <1>0, <3>6, <4>1, StatementCounts DEF DrainSave, Write, Fails,
              preserve_interrupted
    <3>7. CASE \E r \in snap : SchedGiveUp(r)
      <4>1. PICK r \in snap : SchedGiveUp(r)
        BY <3>7
      <4>2. r.id \in Ids
        BY DEF WellTyped, TypeOK, DueRecords
      <4> QED BY <1>0, <4>1, <4>2, StatementCounts DEF SchedGiveUp, Write, Fails
    <3>8. CASE WorkerBegin \/ WorkerRecord \/ WorkerDelivered \/ WorkerSchedule \/ WorkerFail
               \/ WorkerPreserve
      <4>1. job["worker"].id \in Ids
        BY <1>0, <3>8, DurableJob DEF WorkerBegin, WorkerRecord, WorkerDelivered, WorkerSchedule,
                                      WorkerFail, WorkerPreserve, Goto, DurablePoints
      <4> QED BY <1>0, <3>8, <4>1, StatementCounts
              DEF WorkerBegin, WorkerRecord, WorkerDelivered, WorkerSchedule, WorkerFail,
                  WorkerPreserve, Write, Fails, preserve_interrupted
    <3>9. CASE \E i \in Ids : Due(i)
      BY <1>0, <3>9 DEF Due, Counts, Rows
    <3> QED BY <1>2, <3>1, <3>2, <3>3, <3>4, <3>5, <3>6, <3>7, <3>8, <3>9, TableSteps
  <2> QED BY <2>1 DEF Counts
<1> QED BY <1>1, <1>2

--------------------------------------------------------------------------------
\* What the worker is busy with is not on its way to the queue again.
LEMMA WorkerAlone ==
    ASSUME WellTyped, JobsApart, NEW i \in Ids, SentOnce(i),
           pc["worker"] \notin {"get", "done", "release"}, job["worker"].id = i
    PROVE  ~Queued(i) /\ ~MainAt(i, InPut)
<1>0. "worker" \in Threads /\ "main" \in Threads /\ pc["worker"] \in WorkerPCs
  BY DEF WellTyped, TypeOK, Threads, PCs
<1>1. WorkerAt(i, Working \union {"delivered"})
  BY <1>0 DEF WorkerAt, Working
<1>2. ~MainAt(i, {"requeue", "check", "claim", "refuse"})
  BY <1>1 DEF SentOnce
<1>3. Holding("worker") /\ (pc["main"] \in {"push", "undo", "save"} => Holding("main"))
  BY DEF Holding
<1>4. ~Queued(i) /\ ~(pc["main"] \in {"push", "undo", "save"} /\ job["main"].id = i)
  BY <1>0, <1>3, HeldApart
<1> QED BY <1>2, <1>4 DEF MainAt, InPut

\* Only an answer of the endpoint to its own job counts for a row.
LEMMA SendsSteps ==
    ASSUME WellTyped, [Next]_vars, NEW i \in Ids
    PROVE  \/ sends'[i] = sends[i]
           \/ /\ WorkerAt(i, {"send"}) /\ \E r \in Results : WorkerSend(r)
              /\ sends'[i] = sends[i] + 1
<1>0. sends \in [Ids -> Nat]
  BY DEF WellTyped, TypeOK
<1>1. CASE MainStep \/ User
  BY <1>1, TkFrame DEF ghost
<1>2. CASE SchedStep
  BY <1>2, SchedFrame DEF ghost
<1>3. CASE \E r \in Results : WorkerSend(r)
  <2>1. pc["worker"] = "send"
    BY <1>3 DEF WorkerSend, Goto
  <2>2. sends'[i] = sends[i] + IF i = job["worker"].id THEN 1 ELSE 0
    BY <1>3 DEF WorkerSend
  <2>3. CASE i = job["worker"].id
    BY <1>3, <2>1, <2>2, <2>3 DEF WorkerAt
  <2>4. CASE i # job["worker"].id
    BY <1>0, <2>2, <2>4
  <2> QED BY <2>3, <2>4
<1>4. CASE WorkerStep /\ ~\E r \in Results : WorkerSend(r)
  BY <1>4 DEF WorkerStep, WorkerGet, WorkerStart, WorkerBegin, WorkerAttempt, WorkerRecord,
              WorkerPause, WorkerDelivered, WorkerDecide, WorkerSchedule, WorkerFail,
              WorkerPreserve, WorkerRelease, ghost
<1>5. CASE (\E k \in Ids : Due(k)) \/ Stopped \/ Restart \/ UNCHANGED vars
  BY <1>5 DEF Due, Stopped, Restart, vars, ghost
<1> QED BY <1>1, <1>2, <1>3, <1>4, <1>5 DEF Next

\* Who is at the worker's side: the worker's own program point and its attempt
\* change in its own steps only.
LEMMA WorkerSide ==
    ASSUME WellTyped, [Next]_vars, ~Restart
    PROVE  \/ WorkerStep
           \/ pc'["worker"] = pc["worker"] /\ job'["worker"] = job["worker"] /\ attempt' = attempt
<1>1. CASE MainStep \/ User
  BY <1>1, TkFrame DEF work
<1>2. CASE SchedStep
  BY <1>2, SchedFrame DEF work
<1>3. CASE (\E k \in Ids : Due(k)) \/ Stopped \/ UNCHANGED vars
  BY <1>3 DEF Due, Stopped, vars, jobs, work
<1> QED BY <1>1, <1>2, <1>3 DEF Next

LEMMA SentStep ==
    ASSUME WellTyped, OnceInv, [Next]_vars, ~Restart, failures' = 0,
           NEW i \in Ids, SentRow(i)
    PROVE  SentRow(i)'
<1>0. /\ pc \in [Threads -> MainPCs \union SchedPCs \union WorkerPCs] /\ job \in [Threads -> Jobs]
      /\ "main" \in Threads /\ "worker" \in Threads /\ i # TestId /\ i \in Nat
      /\ nextId \in Nat /\ sends[i] \in Nat /\ db \in [Ids -> Rows]
      /\ db[i].attempts \in Nat /\ sends \in [Ids -> Nat]
  BY DEF WellTyped, TypeOK, Threads, Ids, TestId, Rows
<1>1. nextId' = nextId \/ (Insert /\ nextId' = nextId + 1)
  BY DEF Next, MainStep, Recover, Insert, InsertFails, MarkRefused, Requeue, PutJob, PutCheck,
         PutClaim, PutPush, PutUndo, SetStop, Drain, DrainSave, DrainRelease, DrainEmpty,
         PutPoison, User, Configure, Enqueue, ManualRetry, EnqueueTest, ClearHistory,
         Shutdown, SchedStep, SchedTop, SchedSettings, SchedQuery, SchedLoopEnd, SchedGiveUp,
         SchedSkip, SchedPut, WorkerStep, WorkerGet, WorkerStart, WorkerBegin, WorkerAttempt,
         WorkerRecord, WorkerSend, WorkerPause, WorkerDelivered, WorkerDecide, WorkerSchedule,
         WorkerFail, WorkerPreserve, WorkerRelease, Due, Stopped, vars, store
<1>2. i >= nextId => ~WorkerAt(i, {"send"}) /\ db[i].status = "ABSENT"
  BY <1>0 DEF OnceInv, OnceRow, Unused, Claimed, InHand, Holding, Threads, WorkerAt
<1>3. CASE i >= nextId
  <2>1. sends'[i] = 0
    BY <1>2, <1>3, SendsSteps DEF SentRow
  <2>2. ~WorkerAt(i, {"send"})'
    <3>1. CASE WorkerStep
      <4>1. WorkerAt(i, {"send"})' => i \in Claimed
        BY <1>0, <3>1 DEF WorkerStep, WorkerGet, WorkerStart, WorkerBegin,
             WorkerAttempt, WorkerRecord, WorkerSend, WorkerPause, WorkerDelivered, WorkerDecide,
             WorkerSchedule, WorkerFail, WorkerPreserve, WorkerRelease, Goto, AfterAttempt,
             IfDurable, WorkerAt, jobs, Claimed, InHand, Holding, Threads
      <4>2. i \notin Claimed
        BY <1>3 DEF OnceInv, OnceRow, Unused
      <4> QED BY <4>1, <4>2
    <3>2. CASE ~WorkerStep
      BY <1>2, <1>3, <3>2, WorkerSide DEF WorkerAt
    <3> QED BY <3>1, <3>2
  <2>3. db'[i].attempts \in Nat
    <3>1. TypeOK'
      BY WellTypedNext DEF WellTyped
    <3> QED BY <3>1 DEF TypeOK, Rows
  <2> QED BY <2>1, <2>2, <2>3 DEF SentRow
<1>4. CASE i < nextId
  <2>1. ~(Insert /\ i = nextId) /\ ~(i >= nextId')
    BY <1>0, <1>1, <1>4
  <2> SUFFICES ASSUME db'[i].status # "ABSENT"
               PROVE  /\ sends'[i] <= db'[i].attempts
                      /\ WorkerAt(i, {"send"})' => sends'[i] < db'[i].attempts
    BY <2>1 DEF SentRow
  <2>2. db[i].status # "ABSENT" /\ db'[i].attempts >= db[i].attempts
    BY <2>1, CountsStep
  <2>3. db'[i].attempts \in Nat
    <3>1. TypeOK'
      BY WellTypedNext DEF WellTyped
    <3> QED BY <3>1 DEF TypeOK, Rows
  <2>4. sends[i] <= db[i].attempts /\ (WorkerAt(i, {"send"}) => sends[i] < db[i].attempts)
    BY <2>2 DEF SentRow
  <2>5. CASE \E r \in Results : WorkerSend(r)
    <3>1. ~WorkerAt(i, {"send"})'
      BY <1>0, <2>5 DEF WorkerSend, Goto, AfterAttempt, IfDurable, WorkerAt
    <3> QED BY <1>0, <2>2, <2>3, <2>4, <3>1, SendsSteps
  <2>6. CASE ~\E r \in Results : WorkerSend(r)
    <3>1. sends'[i] = sends[i]
      BY <2>6, SendsSteps
    <3>2. WorkerAt(i, {"send"})' => WorkerAt(i, {"send"}) \/ (WorkerRecord /\ WorkerAt(i, {"record"}))
      <4>1. CASE WorkerStep
        BY <1>0, <2>6, <4>1 DEF WorkerStep, WorkerGet, WorkerStart, WorkerBegin,
             WorkerAttempt, WorkerRecord, WorkerPause, WorkerDelivered, WorkerDecide,
             WorkerSchedule, WorkerFail, WorkerPreserve, WorkerRelease, Goto,
             IfDurable, WorkerAt, jobs, Durable
      <4>2. CASE ~WorkerStep
        BY <4>2, WorkerSide DEF WorkerAt
      <4> QED BY <4>1, <4>2
    <3>3. CASE WorkerAt(i, {"send"})
      BY <1>0, <2>2, <2>3, <2>4, <3>1, <3>3
    <3>4. CASE WorkerRecord /\ WorkerAt(i, {"record"})
      <4>1. db[i].status \in OPEN_STATUSES
        <5>1. Waits(i) /\ SentOnce(i)
          BY <3>4 DEF OnceInv, OnceRow, Waits, WorkerAt, Working, WorkerPCs
        <5> QED BY <2>2, <5>1 DEF SentOnce, OPEN_STATUSES
      <4>2. db' = record_attempt(db, i)
        <5>1. failures \in Nat
          BY DEF WellTyped, TypeOK
        <5>2. ~Fails
          BY <5>1 DEF Fails
        <5> QED BY <3>4, <5>2 DEF WorkerRecord, Write, WorkerAt
      <4>3. db'[i].attempts = db[i].attempts + 1
        BY <1>0, <4>1, <4>2, StatementCounts
      <4> QED BY <1>0, <2>4, <3>1, <4>3
    <3>5. CASE ~WorkerAt(i, {"send"})'
      BY <1>0, <2>2, <2>3, <2>4, <3>1, <3>5
    <3> QED BY <3>2, <3>3, <3>4, <3>5
  <2> QED BY <2>5, <2>6
<1> QED BY <1>0, <1>3, <1>4

--------------------------------------------------------------------------------
\* What is on its way to the queue: a new row, or what was on its way before.
LEMMA WaitingSteps ==
    ASSUME WellTyped, ImmediateOnly, [Next]_vars, ~Restart, NEW i \in Ids,
           pc["main"] # "requeue", ~ManualRetry(i), Queued(i)' \/ MainAt(i, InPut)'
    PROVE  Queued(i) \/ MainAt(i, InPut) \/ (Insert /\ i = nextId)
<1>0. /\ pc \in [Threads -> MainPCs \union SchedPCs \union WorkerPCs] /\ job \in [Threads -> Jobs]
      /\ "main" \in Threads /\ "worker" \in Threads /\ i # TestId /\ queue \in Seq(Jobs)
      /\ pc["main"] \in MainPCs
  BY DEF WellTyped, TypeOK, Threads, Ids, TestId, PCs
<1>1. CASE MainStep
  <2>1. CASE Recover \/ InsertFails \/ MarkRefused \/ DrainSave \/ SetStop \/ DrainRelease \/ DrainEmpty
    BY <1>0, <2>1, QueuedSteps DEF Recover, InsertFails, MarkRefused, DrainSave, SetStop,
         DrainRelease, DrainEmpty, Goto, jobs, MainAt, InPut, Returned
  <2>2. CASE Insert
    BY <1>0, <2>2, QueuedSteps DEF Insert, Goto, jobs, MainAt, InPut, Job
  <2>3. CASE Requeue
    BY <2>3 DEF Requeue, Goto
  <2>4. CASE PutCheck("main") \/ PutClaim("main") \/ PutUndo("main")
    <3>1. queue' = queue /\ job' = job /\ pc["main"] \in InPut
      BY <2>4 DEF PutCheck, PutClaim, PutUndo, Goto, InPut, jobs
    <3> QED BY <3>1, QueuedSteps DEF MainAt
  <2>5. CASE PutPush("main")
    <3>1. pc["main"] \in InPut /\ job' = job
      BY <2>5 DEF PutPush, Goto, InPut
    <3>2. queue' = queue \/ queue' = Append(queue, job["main"])
      BY <2>5 DEF PutPush
    <3>3. Queued(i)' => Queued(i) \/ job["main"].id = i
      BY <1>0, <3>2, QueuedSteps
    <3> QED BY <3>1, <3>3 DEF MainAt
  <2>6. CASE Drain
    <3>1. queue # << >> /\ queue' = Tail(queue) /\ job'["main"] = Head(queue)
      BY <1>0, <2>6 DEF Drain
    <3> QED BY <3>1, QueuedSteps DEF MainAt
  <2>7. CASE PutPoison
    <3>1. pc'["main"] = "gone"
      BY <1>0, <2>7 DEF PutPoison, Goto
    <3>2. queue' = queue \/ queue' = Append(queue, Poison)
      BY <2>7 DEF PutPoison
    <3>3. Poison \in Jobs /\ Poison.id # i
      BY <1>0 DEF Poison, Job, Jobs, TestId
    <3>4. Queued(i)' => Queued(i)
      BY <3>2, <3>3, QueuedSteps
    <3> QED BY <3>1, <3>4 DEF MainAt, InPut
  <2> QED BY <1>1, <2>1, <2>2, <2>3, <2>4, <2>5, <2>6, <2>7 DEF MainStep, PutJob
<1>2. CASE User
  <2>1. queue' = queue
    BY <1>2 DEF User, Configure, Enqueue, ManualRetry, EnqueueTest, ClearHistory, Shutdown, jobs
  <2>2. ~MainAt(i, InPut)'
    <3>1. CASE \E k \in Ids : ManualRetry(k)
      BY <1>0, <3>1 DEF ManualRetry, Goto, MainAt, InPut
    <3>2. CASE ~\E k \in Ids : ManualRetry(k)
      BY <1>0, <1>2, <3>2 DEF User, Configure, Enqueue, EnqueueTest, ClearHistory, Shutdown, Goto,
                              Job, TestId, MainAt, InPut
    <3> QED BY <3>1, <3>2
  <2> QED BY <2>1, <2>2, QueuedSteps
<1>3. CASE SchedStep
  <2>1. pc'["main"] = pc["main"] /\ job'["main"] = job["main"]
    BY <1>3, SchedFrame
  <2>2. queue' = queue
    BY <1>3 DEF ImmediateOnly, SchedStep, SchedTop, SchedSettings, SchedQuery, SchedLoopEnd,
                SchedGiveUp, SchedSkip, SchedPut, PutJob, PutCheck, PutClaim, PutPush, PutUndo,
                Goto, jobs
  <2> QED BY <2>1, <2>2, QueuedSteps DEF MainAt
<1>4. CASE WorkerStep
  <2>1. pc'["main"] = pc["main"] /\ job'["main"] = job["main"]
    BY <1>4, WorkerFrame
  <2>2. queue' = queue \/ (queue # << >> /\ queue' = Tail(queue))
    BY <1>4 DEF WorkerStep, WorkerGet, WorkerStart, WorkerBegin,
             WorkerAttempt, WorkerRecord, WorkerSend, WorkerPause, WorkerDelivered, WorkerDecide,
             WorkerSchedule, WorkerFail, WorkerPreserve, WorkerRelease, jobs
  <2> QED BY <2>1, <2>2, QueuedSteps DEF MainAt
<1>5. CASE (\E k \in Ids : Due(k)) \/ Stopped \/ UNCHANGED vars
  BY <1>5, QueuedSteps DEF Due, Stopped, vars, jobs, MainAt
<1> QED BY <1>1, <1>2, <1>3, <1>4, <1>5 DEF Next

\* The attempts of one burst, one step of the worker.
LEMMA BurstOfWorker ==
    ASSUME WellTyped, WorkerStep, NEW i \in Ids, BurstRow(i)
    PROVE  /\ sends'[i] <= Retries + 1
           /\ WorkerAt(i, BeforeAttempt)' => sends'[i] <= attempt' /\ attempt' <= Retries
           /\ WorkerAt(i, {"pause"})' => sends'[i] <= attempt' + 1 /\ attempt' < Retries
<1>0. /\ pc \in [Threads -> MainPCs \union SchedPCs \union WorkerPCs] /\ job \in [Threads -> Jobs]
      /\ "worker" \in Threads /\ attempt \in Nat /\ sends[i] \in Nat /\ sends \in [Ids -> Nat]
      /\ Retries \in Nat
  BY ManagerAssumption DEF WellTyped, TypeOK, Threads
<1>1. CASE WorkerGet
  <2>1. sends' = sends /\ attempt' = 0 /\ pc'["worker"] \in {"start", "done"}
        /\ job'["worker"] = Head(queue) /\ queue # << >> /\ queue' = Tail(queue)
    BY <1>0, <1>1 DEF WorkerGet, Goto, ghost
  <2>2. WorkerAt(i, BeforeAttempt)' => sends[i] = 0
    BY <2>1, QueuedSteps DEF WorkerAt, BurstRow
  <2> QED BY <1>0, <2>1, <2>2 DEF WorkerAt, BurstRow
<1>2. CASE \E r \in Results : WorkerSend(r)
  <2>1. PICK r \in Results : WorkerSend(r)
    BY <1>2
  <2>2. attempt' = attempt /\ job' = job /\ pc["worker"] = "send"
        /\ pc'["worker"] \in {"delivered", "release", "decide", "pause"}
    BY <1>0, <2>1 DEF WorkerSend, Goto, jobs, AfterAttempt, IfDurable
  <2>3. pc'["worker"] = "pause" => attempt < Retries
    <3>1. pc'["worker"] = AfterAttempt(job["worker"], r)
      BY <1>0, <2>1 DEF WorkerSend, Goto
    <3>2. CASE RetryNow(r) /\ attempt + 1 < TotalAttempts(job["worker"].provider)
      BY <1>0, <3>2 DEF TotalAttempts
    <3>3. CASE ~(RetryNow(r) /\ attempt + 1 < TotalAttempts(job["worker"].provider))
      BY <3>1, <3>3 DEF AfterAttempt, IfDurable
    <3> QED BY <3>2, <3>3
  <2>4. CASE WorkerAt(i, {"send"})
    <3>1. sends[i] <= attempt /\ attempt <= Retries
      BY <2>4 DEF BurstRow, WorkerAt, BeforeAttempt
    <3>2. sends'[i] <= attempt + 1
      <4>1. [Next]_vars
        BY DEF Next
      <4> QED BY <1>0, <3>1, <4>1, SendsSteps
    <3>3. sends'[i] <= Retries + 1
      <4>1. sends'[i] = sends[i] \/ sends'[i] = sends[i] + 1
        BY SendsSteps DEF Next
      <4> QED BY <1>0, <3>1, <4>1
    <3> QED BY <2>2, <2>3, <3>2, <3>3 DEF WorkerAt, BeforeAttempt
  <2>5. CASE ~WorkerAt(i, {"send"})
    <3>1. sends'[i] = sends[i]
      BY <2>5, SendsSteps DEF Next
    <3>2. ~WorkerAt(i, {"pause"})'
      BY <2>2, <2>5 DEF WorkerAt
    <3>3. ~WorkerAt(i, BeforeAttempt)'
      BY <2>2 DEF WorkerAt, BeforeAttempt
    <3> QED BY <3>1, <3>2, <3>3 DEF BurstRow
  <2> QED BY <2>4, <2>5
<1>3. CASE WorkerPause
  <2>1. sends' = sends /\ attempt' = attempt + 1 /\ pc["worker"] = "pause" /\ job' = job
        /\ pc'["worker"] \in {"preserve", "release", "attempt"}
    BY <1>0, <1>3 DEF WorkerPause, Goto, jobs, ghost, IfDurable
  <2>2. ~WorkerAt(i, {"pause"})'
    BY <2>1 DEF WorkerAt
  <2>3. WorkerAt(i, BeforeAttempt)' => WorkerAt(i, {"pause"})
    BY <2>1 DEF WorkerAt
  <2> QED BY <1>0, <2>1, <2>2, <2>3 DEF BurstRow
<1>4. CASE \/ WorkerStart \/ WorkerBegin \/ WorkerAttempt \/ WorkerRecord \/ WorkerDelivered
           \/ WorkerDecide \/ WorkerSchedule \/ WorkerFail \/ WorkerPreserve \/ WorkerRelease
  <2>1. sends' = sends /\ attempt' = attempt /\ job' = job
    BY <1>4 DEF WorkerStart, WorkerBegin, WorkerAttempt, WorkerRecord, WorkerDelivered,
         WorkerDecide, WorkerSchedule, WorkerFail, WorkerPreserve, WorkerRelease, work, jobs,
         ghost
  <2>2. pc'["worker"] # "pause"
        /\ (pc'["worker"] \in BeforeAttempt => pc["worker"] \in BeforeAttempt)
    BY <1>0, <1>4 DEF WorkerStart, WorkerBegin, WorkerAttempt, WorkerRecord, WorkerDelivered,
         WorkerDecide, WorkerSchedule, WorkerFail, WorkerPreserve, WorkerRelease, Goto, IfDurable,
         BeforeAttempt
  <2> QED BY <2>1, <2>2 DEF BurstRow, WorkerAt
<1> QED BY <1>1, <1>2, <1>3, <1>4 DEF WorkerStep

LEMMA BurstStep ==
    ASSUME WellTyped, JobsApart, OnceInv, [Next]_vars, ~Restart,
           \A k \in Ids : ~ManualRetry(k), NEW i \in Ids, SentRow(i), BurstRow(i)
    PROVE  BurstRow(i)'
<1>0. /\ pc \in [Threads -> MainPCs \union SchedPCs \union WorkerPCs]
      /\ "main" \in Threads /\ sends[i] \in Nat
  BY DEF WellTyped, TypeOK, Threads
<1>1. pc'["main"] # "requeue"
  <2>1. CASE MainStep
    BY <1>0, <2>1 DEF BurstRow, MainStep, Recover, Insert, InsertFails, MarkRefused, Requeue,
                      PutJob,
         PutCheck, PutClaim, PutPush, PutUndo, SetStop, Drain, DrainSave, DrainRelease,
         DrainEmpty,
         PutPoison, Goto, Refused, Returned
  <2>2. CASE User
    BY <1>0, <2>2 DEF User, Configure, Enqueue, EnqueueTest, ClearHistory, Shutdown, Goto
  <2>3. CASE SchedStep
    BY <2>3, SchedFrame DEF BurstRow
  <2>4. CASE WorkerStep
    BY <2>4, WorkerFrame DEF BurstRow
  <2>5. CASE (\E k \in Ids : Due(k)) \/ Stopped \/ UNCHANGED vars
    BY <2>5 DEF Due, Stopped, vars, jobs, BurstRow
  <2> QED BY <2>1, <2>2, <2>3, <2>4, <2>5 DEF Next
<1>2. Queued(i)' \/ MainAt(i, InPut)' => sends'[i] = 0
  <2> SUFFICES ASSUME Queued(i)' \/ MainAt(i, InPut)' PROVE sends'[i] = 0
    OBVIOUS
  <2>1. Queued(i) \/ MainAt(i, InPut) \/ (Insert /\ i = nextId)
    BY WaitingSteps DEF BurstRow, OnceInv
  <2>2. sends[i] = 0
    BY <1>0, <2>1 DEF BurstRow, SentRow, WellTyped, TypeOK, Ids
  <2>3. ~(WorkerAt(i, {"send"}) /\ \E r \in Results : WorkerSend(r))
    <3> SUFFICES ASSUME WorkerAt(i, {"send"}), \E r \in Results : WorkerSend(r) PROVE FALSE
      OBVIOUS
    <3>1. ~Queued(i) /\ ~MainAt(i, InPut)
      BY WorkerAlone DEF WorkerAt, OnceInv, OnceRow
    <3>2. ~Insert
      <4>1. WorkerStep
        BY DEF WorkerStep
      <4> QED BY <1>0, <4>1, WorkerFrame DEF Insert, Goto
    <3> QED BY <2>1, <3>1, <3>2
  <2> QED BY <2>2, <2>3, SendsSteps
<1>3. CASE WorkerStep
  BY <1>1, <1>2, <1>3, BurstOfWorker DEF BurstRow
<1>4. CASE ~WorkerStep
  <2>1. pc'["worker"] = pc["worker"] /\ job'["worker"] = job["worker"] /\ attempt' = attempt
    BY <1>4, WorkerSide
  <2>2. sends'[i] = sends[i]
    BY <1>4, SendsSteps DEF WorkerStep
  <2> QED BY <1>1, <1>2, <2>1, <2>2 DEF BurstRow, WorkerAt
<1> QED BY <1>3, <1>4

\* Without a manual retry now there was none before.
LEMMA ManualsSteps ==
    ASSUME WellTyped, [Next]_vars, manuals' = 0
    PROVE  manuals = 0 /\ \A k \in Ids : ~ManualRetry(k)
<1>0. manuals \in Nat
  BY DEF WellTyped, TypeOK
<1>1. manuals' = manuals \/ ((\E k \in Ids : ManualRetry(k)) /\ manuals' = manuals + 1)
  BY DEF Next, MainStep, Recover, Insert, InsertFails, MarkRefused, Requeue, PutJob, PutCheck,
         PutClaim, PutPush, PutUndo, SetStop, Drain, DrainSave, DrainRelease, DrainEmpty,
         PutPoison, User, Configure, Enqueue, ManualRetry, EnqueueTest, ClearHistory,
         Shutdown, SchedStep, SchedTop, SchedSettings, SchedQuery, SchedLoopEnd, SchedGiveUp,
         SchedSkip, SchedPut, WorkerStep, WorkerGet, WorkerStart, WorkerBegin, WorkerAttempt,
         WorkerRecord, WorkerSend, WorkerPause, WorkerDelivered, WorkerDecide, WorkerSchedule,
         WorkerFail, WorkerPreserve, WorkerRelease, Due, Stopped, Restart, vars, bounds
<1>2. ASSUME NEW k \in Ids, ManualRetry(k) PROVE manuals' = manuals + 1
  BY <1>2 DEF ManualRetry
<1> QED BY <1>0, <1>1, <1>2

LEMMA SentNext ==
    ASSUME WellTyped, JobsApart, Calm => OnceInv /\ SentInv, [Next]_vars, (Calm => OnceInv)'
    PROVE  (Calm => OnceInv /\ SentInv)'
<1> SUFFICES ASSUME Calm' PROVE SentInv'
  BY DEF Calm
<1>1. Calm /\ ~Restart /\ OnceInv /\ SentInv /\ failures' = 0
  BY CalmBefore DEF Calm
<1>2. ASSUME NEW i \in Ids PROVE SentRow(i)'
  BY <1>1, SentStep DEF SentInv
<1>3. ASSUME manuals' = 0, NEW i \in Ids PROVE BurstRow(i)'
  <2>1. manuals = 0 /\ \A k \in Ids : ~ManualRetry(k)
    BY <1>3, ManualsSteps
  <2> QED BY <1>1, <2>1, BurstStep DEF SentInv
<1> QED BY <1>2, <1>3 DEF SentInv

\* With delayed retries off, attempt_count is never behind what the endpoint has seen; and
\* until the user retries by hand, a row gets Retries + 1 attempts at most.
THEOREM AttemptsAreCounted ==
    NoDelayedRetries /\ Spec => [](failures = 0 /\ crashes = 0 => AttemptsCounted)
<1>1. WellTyped /\ SentInv => AttemptsCounted
  <2> SUFFICES ASSUME WellTyped, SentInv PROVE AttemptsCounted
    OBVIOUS
  <2>0. Retries \in Nat /\ MaxDelayed \in Nat /\ sends \in [Ids -> Nat]
    BY ManagerAssumption DEF WellTyped, TypeOK
  <2>1. ASSUME NEW i \in WithStatus(db, AnyStatus) PROVE sends[i] <= db[i].attempts
    BY DEF SentInv, SentRow, WithStatus, AnyStatus, OPEN_STATUSES, TERMINAL_STATUSES
  <2>2. ASSUME manuals = 0, NEW i \in Ids PROVE sends[i] <= (Retries + 1) * (MaxDelayed + 1)
    <3>1. sends[i] <= Retries + 1
      BY <2>2 DEF SentInv, BurstRow
    <3>2. (Retries + 1) * (MaxDelayed + 1) = (Retries + 1) + (Retries + 1) * MaxDelayed
          /\ (Retries + 1) * MaxDelayed \in Nat
      BY <2>0
    <3> HIDE <2>2
    <3> QED BY <2>0, <3>1, <3>2
  <2> QED BY <2>1, <2>2 DEF AttemptsCounted
<1> SUFFICES ASSUME NoDelayedRetries
             PROVE  Spec => [](failures = 0 /\ crashes = 0 => AttemptsCounted)
  OBVIOUS
<1>2. Init => WellTyped /\ JobsApart /\ JobOrigins /\ (Calm => OnceInv /\ SentInv)
  <2> SUFFICES ASSUME Init PROVE WellTyped /\ JobsApart /\ JobOrigins /\ OnceInv /\ SentInv
    OBVIOUS
  <2>1. WellTyped /\ JobsApart /\ JobOrigins
    BY WellTypedInit, ApartInit DEF Init, JobOrigins, Entry, Threads, PutPCs
  <2>2. OnceInv
    BY OnceInit
  <2>3. SentInv
    BY ManagerAssumption DEF Init, SentInv, SentRow, BurstRow, EmptyTable, AbsentRow, Queued,
                             MainAt,
         WorkerAt, InPut, BeforeAttempt, Entry, Threads, Ids
  <2> QED BY <2>1, <2>2, <2>3
<1>3. /\ WellTyped /\ JobsApart /\ JobOrigins /\ (Calm => OnceInv /\ SentInv)
      /\ [Next]_vars
      => (WellTyped /\ JobsApart /\ JobOrigins /\ (Calm => OnceInv /\ SentInv))'
  <2> SUFFICES ASSUME WellTyped, JobsApart, JobOrigins, Calm => OnceInv /\ SentInv, [Next]_vars
               PROVE  (WellTyped /\ JobsApart /\ JobOrigins /\ (Calm => OnceInv /\ SentInv))'
    OBVIOUS
  <2>1. (WellTyped /\ JobsApart /\ JobOrigins)' /\ (Calm => OnceInv)'
    BY WellTypedNext, ApartNext, OriginsNext, OnceNext
  <2> QED BY <2>1, SentNext
<1>4. WellTyped /\ (Calm => OnceInv /\ SentInv) => (failures = 0 /\ crashes = 0 => AttemptsCounted)
  BY <1>1 DEF Calm
<1> QED BY <1>2, <1>3, <1>4, PTL DEF Spec
================================================================================
