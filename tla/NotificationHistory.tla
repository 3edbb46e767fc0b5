-------------------------- MODULE NotificationHistory --------------------------
(***************************************************************************)
(* The notification_deliveries table of notification_history.py: the rows  *)
(* a NotificationHistoryStore keeps in events.db, and every SQL statement  *)
(* it runs, each as an operator from a table to the table after it.        *)
(*                                                                         *)
(* Timestamps are abstracted to what due_retries() compares: next_retry_at *)
(* is NULL ("none"), still ahead of the clock ("later") or reached         *)
(* ("now").  Event columns are left out: a row stands for its event.       *)
(***************************************************************************)
EXTENDS Naturals, Sequences, FiniteSets

CONSTANTS
    MaxId,      \* bound: how many rows are ever inserted (AUTOINCREMENT ids)
    Retention   \* terminal rows kept by prune_terminal (20000 in the code)

ASSUME TableAssumption == MaxId \in Nat /\ Retention \in Nat \ {0}

Ids == 1 .. MaxId

WEBHOOK_PROVIDERS == {"generic_webhook", "teams_webhook"}
Providers == {"windows"} \union WEBHOOK_PROVIDERS

OPEN_STATUSES == {"QUEUED", "RETRYING"}
TERMINAL_STATUSES == {"DELIVERED", "FAILED"}
Statuses == {"ABSENT"} \union OPEN_STATUSES \union TERMINAL_STATUSES

Rows == [status : Statuses, provider : Providers \union {"none"},
         attempts : Nat, delayed : Nat, next : {"none", "later", "now"}]

AbsentRow == [status |-> "ABSENT", provider |-> "none",
              attempts |-> 0, delayed |-> 0, next |-> "none"]

EmptyTable == [i \in Ids |-> AbsentRow]

WithStatus(t, S) == {i \in Ids : t[i].status \in S}

--------------------------------------------------------------------------------
\* UPDATE ... WHERE id = i AND status IN S; an absent row matches nothing.
Update(t, i, S, row) == IF t[i].status \in S THEN [t EXCEPT ![i] = row] ELSE t

AnyStatus == OPEN_STATUSES \union TERMINAL_STATUSES

\* Variant: the newest rows of the whole table are kept, whatever their status.
prune_any(t) ==
    [i \in Ids |-> IF Cardinality({j \in WithStatus(t, AnyStatus) : j > i}) >= Retention
                   THEN AbsentRow ELSE t[i]]

\* prune_terminal: only the newest Retention terminal rows survive.
prune_terminal(t) ==
    LET terminal == WithStatus(t, TERMINAL_STATUSES)
    IN  [i \in Ids |->
            IF i \in terminal /\ Cardinality({j \in terminal : j > i}) >= Retention
            THEN AbsentRow ELSE t[i]]

insert_delivery(t, i, provider) ==
    prune_terminal([t EXCEPT ![i] = [AbsentRow EXCEPT !.status = "QUEUED",
                                                      !.provider = provider]])

\* Variant: only a delayed retry is counted.
record_retry(t, i) ==
    Update(t, i, {"RETRYING"}, [t[i] EXCEPT !.attempts = @ + 1])

record_attempt(t, i) ==
    Update(t, i, OPEN_STATUSES, [t[i] EXCEPT !.attempts = @ + 1])

mark_delivered(t, i) ==
    prune_terminal(Update(t, i, AnyStatus,
                          [t[i] EXCEPT !.status = "DELIVERED", !.next = "none"]))

mark_failed(t, i) ==
    prune_terminal(Update(t, i, AnyStatus,
                          [t[i] EXCEPT !.status = "FAILED", !.next = "none"]))

schedule_retry(t, i, when) ==
    Update(t, i, AnyStatus, [t[i] EXCEPT !.status = "RETRYING", !.next = when])

begin_delayed_retry(t, i) ==
    Update(t, i, {"RETRYING"}, [t[i] EXCEPT !.delayed = @ + 1])

mark_queued(t, i) ==
    Update(t, i, {"FAILED"}, [t[i] EXCEPT !.status = "QUEUED", !.next = "none"])

\* Variant: DELETE with no WHERE.
clear_all(t) == EmptyTable

clear_terminal(t) ==
    [i \in Ids |-> IF t[i].status \in TERMINAL_STATUSES THEN AbsentRow ELSE t[i]]

\* Variant: rows waiting for a retry are taken for interrupted too.
recover_all_open(t, retryLater) ==
    [i \in Ids |-> IF t[i].status \notin OPEN_STATUSES THEN t[i]
                   ELSE IF retryLater THEN [t[i] EXCEPT !.status = "RETRYING", !.next = "now"]
                   ELSE [t[i] EXCEPT !.status = "FAILED", !.next = "none"]]

\* recover_interrupted: both UPDATEs of the one transaction.
recover_interrupted(t, retryLater) ==
    [i \in Ids |->
        CASE t[i].status # "QUEUED" -> t[i]
          [] t[i].status = "QUEUED" /\ retryLater /\ t[i].provider \in WEBHOOK_PROVIDERS ->
                [t[i] EXCEPT !.status = "RETRYING", !.next = "now"]
          [] OTHER -> [t[i] EXCEPT !.status = "FAILED", !.next = "none"]]

\* Variant: a record is taken for one of those before it.
due_retries_short(t, limit) ==
    LET due == {i \in Ids : t[i].status = "RETRYING" /\ t[i].next = "now"}
        read == {i \in due : Cardinality({j \in due : j <= i}) < limit}
    IN  {[id |-> i, provider |-> t[i].provider, delayed |-> t[i].delayed] : i \in read}

\* due_retries: at most limit of the due rows, the oldest.  Ids grow with event
\* timestamps, so ORDER BY event_timestamp, id is the order of ids; the result
\* is the set of records read, which process_due_retries takes oldest first.
due_retries(t, limit) ==
    LET due == {i \in Ids : t[i].status = "RETRYING" /\ t[i].next = "now"}
        read == {i \in due : Cardinality({j \in due : j < i}) < limit}
    IN  {[id |-> i, provider |-> t[i].provider, delayed |-> t[i].delayed] : i \in read}

\* What due_retries() may return.
DueRecords == [id : Ids, provider : Providers \union {"none"}, delayed : Nat]
================================================================================
