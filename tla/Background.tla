------------------------------- MODULE Background ------------------------------
(***************************************************************************)
(* What the application has under way in the background, the range scan    *)
(* and a Trace Route window, and the orderly end of both by                *)
(* shutdown_application() (multi_port_checker.py).                         *)
(***************************************************************************)
EXTENDS RangeScan, TraceRoute

CONSTANT Budgets   \* bound: how many scans and runs one behaviour has

ASSUME BudgetsAssumption == Budgets \subseteq Nat \X (0 .. MaxRuns)

vars == <<scanVars, traceVars, down>>

Init ==
    /\ ScanInit /\ TraceInit /\ down = FALSE
    /\ \E budget \in Budgets : scansLeft = budget[1] /\ runsLeft = budget[2]

\* shutdown_application(): the scan first, and then the window, which is closed by then.
Shutdown ==
    /\ ~down /\ tk = "free" /\ down' = TRUE
    /\ EndScan
    /\ (closed /\ UNCHANGED traceVars) \/ CloseTrace

Scanning == ScanNext /\ UNCHANGED traceVars
Tracing == TraceNext /\ UNCHANGED <<scanVars, down>>

Next == Scanning \/ Tracing \/ Shutdown

Spec == Init /\ [][Next]_vars

(***************************************************************************)
(* Tk keeps polling; a check ends (its ping and its connection have time   *)
(* limits); and a worker of a trace goes on.  That tracert writes another  *)
(* line, or ends by itself, is not assumed.                                *)
(***************************************************************************)
Fairness ==
    /\ WF_vars(PollScan /\ UNCHANGED traceVars)
    /\ \A x \in Addresses : WF_vars((BeginCheck(x) \/ FinishCheck(x)) /\ UNCHANGED traceVars)
    /\ WF_vars((EndTrace \/ PollTrace) /\ UNCHANGED <<scanVars, down>>)
    /\ \A r \in Runs : WF_vars(WorkerStep(r) /\ UNCHANGED <<scanVars, down>>)

FairSpec == Spec /\ Fairness

--------------------------------------------------------------------------------
(***************************************************************************)
(* Properties.                                                             *)
(***************************************************************************)
\* Types; and the scan has at most Workers checks on the pool.
TypeOK == ScanTypeOK /\ TraceTypeOK /\ down \in BOOLEAN

\* A scan that was completed has checked every address of its range, both ends
\* included, exactly once, counted it, and shows those that answered, or all; a
\* cancelled one has checked none twice and shows nothing that did not answer.
ScanIsComplete ==
    /\ \A x \in Addresses : checked[x] <= (IF x \in range THEN 1 ELSE 0)
    /\ shown \subseteq (IF showAll THEN range ELSE answers)
    /\ ~scanning /\ ~cancelled =>
           /\ \A x \in range : checked[x] = 1
           /\ completed = Cardinality(range)
           /\ shown = IF showAll THEN range ELSE answers

\* "Cancel stops new submissions" (network_checks.py): once a scan is cancelled, none
\* of its addresses is submitted and no late result is shown, until the next scan.
CancelStops ==
    [][cancelled /\ cancelled' => checked' = checked /\ shown' = shown]_vars

\* Neither is waited for in vain: a scan ends, with Cancel or without, and so does a
\* run that was stopped: the window can run again, and its process is gone for good,
\* also when it was closed, stopped between the start of the process and the moment
\* others can see it, or run again while the worker before was not done.
WorkEnds ==
    /\ scanning ~> ~scanning \/ down
    /\ running ~> ~running \/ run \notin stop \/ closed
    /\ \A r \in Runs : <>[](r \in stop => process[r] # "alive")
================================================================================
