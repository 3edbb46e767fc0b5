------------------------------- MODULE TraceRoute ------------------------------
(***************************************************************************)
(* A Trace Route window (class TraceRouteWindow of multi_port_checker.py): *)
(* its buttons and the poll of its messages run on the Tk thread; each run *)
(* has a worker that starts a tracert process, reads its lines and sees to *)
(* its end.  They share the stop event, the messages and the handle of the *)
(* process.                                                                *)
(***************************************************************************)
EXTENDS Integers, Sequences

CONSTANTS
    MaxRuns,   \* bound: runs of the window
    MaxLines   \* bound: messages not yet polled

ASSUME TraceRouteAssumption == MaxRuns \in Nat /\ MaxLines \in Nat

Runs == 1 .. MaxRuns

VARIABLES
    run,       \* _run_id
    running,   \* _running
    closed,    \* _closed
    stop,      \* runs whose stop event is set
    worker,    \* where the worker of each run is
    process,   \* the tracert process of each run
    handle,    \* _process: a run, or 0
    messages,  \* _messages: run and kind
    tk,        \* the Tk thread: free, or within stop_trace() for Stop or for Close
    output,    \* history: of which runs lines are in the window
    runsLeft   \* bound: runs still to come

traceVars == <<run, running, closed, stop, worker, process, handle, messages, tk, output,
               runsLeft>>

TraceInit ==
    /\ run = 0 /\ running = FALSE /\ closed = FALSE /\ stop = {}
    /\ worker = [r \in Runs |-> "none"] /\ process = [r \in Runs |-> "none"]
    /\ handle = 0 /\ messages = << >> /\ tk = "free" /\ output = {}

Line(r) == <<r, "line">>
Done(r) == <<r, "done">>

At(r, from, to) == worker[r] = from /\ worker' = [worker EXCEPT ![r] = to]
Put(message) == messages' = Append(messages, message)
Ended(r) == process' = [process EXCEPT ![r] = "dead"]
Window == UNCHANGED <<run, running, closed, stop, tk, output, runsLeft>>

--------------------------------------------------------------------------------
(***************************************************************************)
(* The worker: _trace_worker().                                            *)
(***************************************************************************)
\* A thread of trace_executor takes it up; a run already stopped ends at once.
Take(r) ==
    /\ \/ r \notin stop /\ At(r, "queued", "start") /\ UNCHANGED messages
       \/ r \in stop /\ At(r, "queued", "gone") /\ Put(Done(r))
    /\ UNCHANGED <<process, handle>> /\ Window

\* Popen, which may raise.
Start(r) ==
    /\ \/ /\ At(r, "start", "register") /\ process' = [process EXCEPT ![r] = "alive"]
          /\ UNCHANGED messages
       \/ At(r, "start", "gone") /\ Put(Done(r)) /\ UNCHANGED process
    /\ UNCHANGED handle /\ Window

Register(r) ==
    /\ At(r, "register", "check") /\ handle' = r
    /\ UNCHANGED <<process, messages>> /\ Window

\* Variant: no second look at the stop event.
CheckNothing(r) == UNCHANGED process

\* A run stopped before its process was registered.
CheckStop(r) == IF r \in stop THEN Ended(r) ELSE UNCHANGED process

Check(r) ==
    /\ At(r, "check", "read") /\ CheckStop(r)
    /\ UNCHANGED <<handle, messages>> /\ Window

\* readline() returns a line of the process, or nothing once it ended, or raises.
ReadLine(r) ==
    /\ worker[r] = "read" /\ process[r] = "alive"
    /\ \/ r \in stop /\ At(r, "read", "result") /\ UNCHANGED messages
       \/ /\ r \notin stop /\ Len(messages) < MaxLines
          /\ Put(Line(r)) /\ UNCHANGED worker
    /\ UNCHANGED <<process, handle>> /\ Window

ReadEnd(r) ==
    /\ process[r] = "dead" /\ At(r, "read", "result")
    /\ UNCHANGED <<process, handle, messages>> /\ Window

ReadFails(r) ==
    /\ At(r, "read", "finally") /\ Put(Done(r))
    /\ UNCHANGED <<process, handle>> /\ Window

\* _terminate_process(), or wait() for the process; then the result is told.
Result(r) ==
    /\ \/ r \in stop /\ Ended(r) /\ At(r, "result", "finally") /\ Put(Done(r))
       \/ r \notin stop /\ At(r, "result", "wait") /\ UNCHANGED <<process, messages>>
    /\ UNCHANGED handle /\ Window

Wait(r) ==
    /\ process[r] = "dead" /\ At(r, "wait", "finally") /\ Put(Done(r))
    /\ UNCHANGED <<process, handle>> /\ Window

EndProcess(r) == Ended(r)

Finally(r) ==
    /\ At(r, "finally", "unregister") /\ EndProcess(r)
    /\ UNCHANGED <<handle, messages>> /\ Window

Released(r) == IF handle = r THEN 0 ELSE handle

Unregister(r) ==
    /\ At(r, "unregister", "gone") /\ handle' = Released(r)
    /\ UNCHANGED <<process, messages>> /\ Window

\* The process ends by itself.
End(r) ==
    /\ process[r] = "alive" /\ Ended(r)
    /\ UNCHANGED <<worker, handle, messages>> /\ Window

WorkerStep(r) ==
    \/ Take(r) \/ Start(r) \/ Register(r) \/ Check(r) \/ ReadEnd(r) \/ Result(r) \/ Wait(r)
    \/ Finally(r) \/ Unregister(r)

--------------------------------------------------------------------------------
(***************************************************************************)
(* The window, on the Tk thread.                                           *)
(***************************************************************************)
Free == tk = "free" /\ ~closed

\* run_trace()
RunTrace ==
    /\ Free /\ ~running /\ runsLeft > 0 /\ runsLeft' = runsLeft - 1
    /\ run' = run + 1 /\ running' = TRUE /\ output' = {}
    /\ worker' = [worker EXCEPT ![run + 1] = "queued"]
    /\ UNCHANGED <<closed, stop, process, handle, messages, tk>>

\* stop_trace() sets the stop event first, for the Stop button or for close().
StopTrace ==
    /\ Free /\ running /\ run \notin stop
    /\ stop' = stop \union {run} /\ tk' = "stop"
    /\ UNCHANGED <<run, running, closed, worker, process, handle, messages, output, runsLeft>>

CloseTrace ==
    /\ Free
    /\ IF running THEN stop' = stop \union {run} /\ tk' = "close" /\ UNCHANGED closed
       ELSE closed' = TRUE /\ UNCHANGED <<stop, tk>>
    /\ UNCHANGED <<run, running, worker, process, handle, messages, output, runsLeft>>

\* A worker not yet taken up is cancelled then; or the process of the handle, if there
\* is one, is terminated.
EndTrace ==
    /\ tk # "free" /\ tk' = "free" /\ closed' = (tk = "close")
    /\ IF worker[run] = "queued"
       THEN /\ worker' = [worker EXCEPT ![run] = "gone"] /\ running' = FALSE
            /\ UNCHANGED process
       ELSE /\ process' = [r \in Runs |-> IF r = handle THEN "dead" ELSE process[r]]
            /\ UNCHANGED <<worker, running>>
    /\ UNCHANGED <<run, stop, handle, messages, output, runsLeft>>

\* _poll_messages(), message by message.
PollTrace ==
    /\ Free /\ messages # << >> /\ messages' = Tail(messages)
    /\ LET r == Head(messages)[1]
           kind == Head(messages)[2]
       IN  /\ output' = IF r = run /\ kind = "line" /\ r \notin stop THEN output \union {r}
                        ELSE output
           /\ running' = (running /\ ~(r = run /\ kind = "done"))
    /\ UNCHANGED <<run, closed, stop, worker, process, handle, tk, runsLeft>>

TraceNext ==
    \/ \E r \in Runs : WorkerStep(r) \/ ReadLine(r) \/ ReadFails(r) \/ End(r)
    \/ RunTrace \/ StopTrace \/ CloseTrace \/ EndTrace \/ PollTrace

--------------------------------------------------------------------------------
Points == {"none", "queued", "start", "register", "check", "read", "result", "wait", "finally",
           "unregister", "gone"}

TraceTypeOK ==
    /\ run \in 0 .. MaxRuns /\ running \in BOOLEAN /\ closed \in BOOLEAN /\ stop \subseteq Runs
    /\ worker \in [Runs -> Points] /\ process \in [Runs -> {"none", "alive", "dead"}]
    /\ handle \in 0 .. MaxRuns /\ messages \in Seq(Runs \X {"line", "done"})
    /\ tk \in {"free", "stop", "close"}
    \* What is shown is of the current run (Run Again clears the window).
    /\ output \subseteq {run}
================================================================================
