------------------------------- MODULE RangeScan -------------------------------
(***************************************************************************)
(* The IPv4 range scan: the plan of addresses (network_checks.py), the     *)
(* bounded window of checks on the worker pool, and the poll that applies  *)
(* what they found (multi_port_checker.py).  Start, Cancel and the poll    *)
(* run on the Tk thread, the checks on the pool.                           *)
(***************************************************************************)
EXTENDS Integers, FiniteSets

CONSTANTS
    Addresses,   \* IPv4 addresses, as numbers
    Maximum,     \* MAX_SCAN_ADDRESSES
    Workers      \* CHECK_WORKERS: threads of the pool, and the window

ASSUME RangeScanAssumption ==
    /\ Addresses \subseteq Nat /\ \A x, y \in Addresses : x .. y \subseteq Addresses
    /\ Maximum \in Nat /\ Workers \in Nat \ {0}

VARIABLES
    scanning,   \* scan_running
    range,      \* scan_plan.addresses
    position,   \* scan_plan.position, as the next address to take
    cancelled,  \* scan_plan.cancelled
    showAll,    \* scan_show_all
    pending,    \* scan_pending: addresses
    future,     \* the check of each address: where the pool has it
    answers,    \* history: addresses that answered, of this scan
    completed,  \* scan_completed
    shown,      \* addresses apply_scan_result() has put into the table
    checked,    \* history: how often each was submitted in this scan
    scansLeft,  \* bound: scans still to come
    down        \* shutdown_guard.started

plan == <<range, position, cancelled, showAll>>
scanVars == <<scanning, range, position, cancelled, showAll, pending, future, answers, completed,
              shown, checked, scansLeft>>

ScanInit ==
    /\ scanning = FALSE /\ range = {} /\ position = 0 /\ cancelled = FALSE /\ showAll = FALSE
    /\ pending = {} /\ future = [x \in Addresses |-> "none"] /\ answers = {}
    /\ completed = 0 /\ shown = {} /\ checked = [x \in Addresses |-> 0]

--------------------------------------------------------------------------------
\* Variant: one address is taken again.
TakenAgain(addresses, from, n) == {x \in addresses : from - 1 <= x /\ x < from - 1 + n}

\* IPv4ScanPlan.take()
Taken(addresses, from, n) == {x \in addresses : from <= x /\ x < from + n}

\* Variant: as many as there are threads.
AllSlots(waiting) == Workers

Slots(waiting) == Workers - Cardinality(waiting)

\* submit_scan_work(), with what is pending and was checked by then.
Submit(addresses, from, waiting, before, times) ==
    LET batch == Taken(addresses, from, Slots(waiting))
    IN  /\ pending' = waiting \union batch
        /\ position' = from + Cardinality(batch)
        /\ future' = [x \in Addresses |-> IF x \in batch THEN "queued" ELSE before[x]]
        /\ checked' = [x \in Addresses |-> IF x \in batch THEN times[x] + 1 ELSE times[x]]

\* start_range_scan(), with validate_ipv4_range(): both ends are part of the range.
StartScan(first, last, all) ==
    /\ ~scanning /\ ~down /\ scansLeft > 0 /\ scansLeft' = scansLeft - 1
    /\ first <= last /\ last - first + 1 <= Maximum
    /\ scanning' = TRUE /\ range' = first .. last /\ cancelled' = FALSE /\ showAll' = all
    /\ completed' = 0 /\ shown' = {} /\ answers' = {}
    /\ Submit(first .. last, first, {}, [x \in Addresses |-> "none"], [x \in Addresses |-> 0])
    /\ UNCHANGED down

\* A thread of the pool takes a check up, and finishes it.
BeginCheck(x) ==
    /\ future[x] = "queued"
    /\ Cardinality({y \in Addresses : future[y] = "running"}) < Workers
    /\ future' = [future EXCEPT ![x] = "running"]
    /\ UNCHANGED <<scanning, plan, pending, answers, completed, shown, checked, scansLeft, down>>

FinishCheck(x) ==
    /\ future[x] = "running" /\ future' = [future EXCEPT ![x] = "done"]
    /\ answers' \in {answers, answers \union {x}}
    /\ UNCHANGED <<scanning, plan, pending, completed, shown, checked, scansLeft, down>>

\* Future.cancel() of all of them: one that runs already goes on.
Withdrawn == [x \in Addresses |->
                 IF x \in pending /\ future[x] = "queued" THEN "cancelled" ELSE future[x]]

\* cancel_range_scan()
CancelScan ==
    /\ scanning /\ ~cancelled /\ ~down
    /\ cancelled' = TRUE /\ future' = Withdrawn
    /\ UNCHANGED <<scanning, range, position, showAll, pending, answers, completed, shown,
                   checked, scansLeft, down>>

Finished == {x \in pending : future[x] \in {"done", "cancelled"}}
Results == {x \in pending : future[x] = "done"}

\* Variant: the results of checks that were under way are applied.
AppliesLate == {x \in Results : showAll \/ x \in answers}

\* What apply_scan_result() puts into the table.
Applies == {x \in Results : ~cancelled /\ (showAll \/ x \in answers)}

\* poll_range_scan() and finish_range_scan(); it is scheduled again otherwise.
PollScan ==
    /\ scanning /\ ~down
    /\ completed' = completed + Cardinality(Results)
    /\ shown' = shown \union Applies
    /\ IF cancelled THEN /\ pending' = pending \ Finished
                         /\ UNCHANGED <<position, future, checked>>
       ELSE Submit(range, position, pending \ Finished, future, checked)
    /\ scanning' = (pending' # {})
    /\ UNCHANGED <<range, cancelled, showAll, answers, scansLeft, down>>

\* The part of shutdown_application() about the scan.
EndScan ==
    /\ cancelled' = (cancelled \/ scanning) /\ future' = Withdrawn
    /\ UNCHANGED <<scanning, range, position, showAll, pending, answers, completed, shown,
                   checked, scansLeft>>

ScanNext ==
    \/ \E first, last \in Addresses, all \in BOOLEAN : StartScan(first, last, all)
    \/ \E x \in Addresses : BeginCheck(x) \/ FinishCheck(x)
    \/ CancelScan \/ PollScan

--------------------------------------------------------------------------------
ScanTypeOK ==
    /\ scanning \in BOOLEAN /\ range \subseteq Addresses /\ position \in Nat
    /\ cancelled \in BOOLEAN /\ showAll \in BOOLEAN /\ pending \subseteq range
    /\ future \in [Addresses -> {"none", "queued", "running", "done", "cancelled"}]
    /\ Cardinality(pending) <= Workers /\ completed \in Nat
    /\ shown \subseteq range /\ answers \subseteq range /\ checked \in [Addresses -> Nat]
================================================================================
