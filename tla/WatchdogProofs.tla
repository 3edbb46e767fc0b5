----------------------------- MODULE WatchdogProofs ----------------------------
(***************************************************************************)
(* What holds of the watchdog whatever its limits are: recoveries are      *)
(* bounded, a condition is notified once, and no queued delivery is left   *)
(* behind by a manager that is replaced.                                   *)
(***************************************************************************)
EXTENDS Watchdog, TLAPS

\* Every manager after the first is one recovery, counted for the condition it was for;
\* one that failed is counted too.
Counted ==
    manager + (IF joining THEN 1 ELSE 0) <= 1 + attempts["worker"] + attempts["scheduler"]

IInv == TypeOK /\ Counted

LEMMA ProbeType == ASSUME TypeOK PROVE Probe \in Seq(Checks)
<1> DEFINE first == Check("worker", Lost("worker"))
           second == Check("scheduler", Lost("scheduler"))
           third == Check("backlog", depth = "high")
<1>1. first \in Checks /\ second \in Checks /\ third \in Checks
  BY DEF Check, Checks, Conditions, Recoverable, Lost
<1>2. <<first, second>> \in Seq(Checks) /\ << >> \in Seq(Checks) /\ <<third>> \in Seq(Checks)
  BY <1>1
<1>3. QED
  BY <1>2 DEF Probe

LEMMA HeadCheck ==
    ASSUME TypeOK, checks # << >>
    PROVE  Head(checks).condition \in Conditions /\ Tail(checks) \in Seq(Checks)
<1>1. checks \in Seq(Checks)
  BY DEF TypeOK
<1>2. Head(checks) \in Checks /\ Tail(checks) \in Seq(Checks)
  BY <1>1
<1>3. QED
  BY <1>2 DEF Checks

\* The program starts in the invariant.
LEMMA InitInv == ASSUME Init PROVE IInv
<1> USE WatchdogAssumption DEF Init
<1>1. 1 \in Managers
  BY DEF Managers
<1>2. /\ worker \in [Managers -> {"none", "idle", "sending", "dead"}]
      /\ scheduler \in [Managers -> {"none", "alive", "dead"}]
      /\ told \in [Conditions -> Int]
      /\ attempts \in [Recoverable -> 0 .. MaxAttempts]
      /\ wait \in [Recoverable -> 0 .. Cooldown]
  OBVIOUS
<1>3. checks \in Seq(Checks) /\ starts \in 1 .. MaxStarts
  OBVIOUS
<1>4. /\ manager \in Managers /\ row = "none" /\ unsaved = FALSE /\ depth \in Depths
      /\ stopped = {} /\ queued = {} /\ open = {} /\ notified = {}
      /\ joining = FALSE /\ recover = TRUE /\ down = FALSE
      /\ faults \in 0 .. MaxFaults /\ refusals \in 0 .. MaxRefusals
  BY <1>1 DEF Depths
<1>5. Counted
  BY DEF Counted, Recoverable
<1> HIDE DEF Init
<1>6. TypeOK
  BY <1>2, <1>3, <1>4 DEF TypeOK
<1>7. QED
  BY <1>5, <1>6 DEF IInv

\* A write of the delivery's status, refused or not, keeps the types.
LEMMA WriteType ==
    ASSUME TypeOK, NEW STATE rows, Write(rows),
           rows \subseteq {"none", STATUS_QUEUED, STATUS_RETRYING, Settled}
    PROVE  /\ row' \in {"none", STATUS_QUEUED, STATUS_RETRYING, Settled}
           /\ unsaved' \in BOOLEAN /\ refusals' \in 0 .. MaxRefusals
<1>1. CASE row' \in rows /\ unsaved' = FALSE /\ UNCHANGED refusals
  BY <1>1 DEF TypeOK
<1>2. CASE refusals < MaxRefusals /\ refusals' = refusals + 1 /\ unsaved' = TRUE /\ UNCHANGED row
  BY <1>2, WatchdogAssumption DEF TypeOK
<1>3. QED
  BY <1>1, <1>2 DEF Write

LEMMA InterruptedType ==
    ASSUME TypeOK
    PROVE  Interrupted(row) \subseteq {"none", STATUS_QUEUED, STATUS_RETRYING, Settled}
BY DEF TypeOK, Interrupted, Preserved

LEMMA ShutDownType ==
    ASSUME TypeOK, ShutDownManager
    PROVE  /\ stopped' \subseteq Managers /\ queued' \subseteq Managers
           /\ row' \in {"none", STATUS_QUEUED, STATUS_RETRYING, Settled}
           /\ unsaved' \in BOOLEAN /\ refusals' \in 0 .. MaxRefusals
<1>1. CASE manager \in queued
  BY <1>1, WriteType DEF ShutDownManager, Preserved, TypeOK
<1>2. CASE manager \notin queued
  BY <1>2 DEF ShutDownManager, delivery, TypeOK
<1>3. QED
  BY <1>1, <1>2

\* What a step of the notification managers, or of the user, leaves as it is.
LEMMA ThreadInv ==
    ASSUME IInv, NEW m \in Managers, Thread(m) \/ Die(m)
    PROVE  IInv'
<1> USE DEF IInv, Unwatched, tick, incidents, recovery, delivery
<1>1. CASE Schedule(m)
  BY <1>1 DEF Schedule, TypeOK, Counted
<1>2. CASE Take(m)
  BY <1>2 DEF Take, TypeOK, Counted
<1>3. CASE Finish(m)
  <2>1. /\ row' \in {"none", STATUS_QUEUED, STATUS_RETRYING, Settled}
        /\ unsaved' \in BOOLEAN /\ refusals' \in 0 .. MaxRefusals
    BY <1>3, WriteType DEF Finish
  <2>2. QED
    BY <1>3, <2>1 DEF Finish, TypeOK, Counted
<1>4. CASE Die(m)
  <2>1. faults' \in 0 .. MaxFaults
    BY <1>4, WatchdogAssumption DEF Die, TypeOK
  <2>2. /\ worker' \in [Managers -> {"none", "idle", "sending", "dead"}]
        /\ scheduler' \in [Managers -> {"none", "alive", "dead"}]
    BY <1>4 DEF Die, TypeOK
  <2>3. UNCHANGED <<manager, stopped, queued, row, unsaved, depth, checks, joining, open, notified,
                    told, refusals, attempts, wait, recover, down, starts>>
    BY <1>4 DEF Die
  <2>4. QED
    BY <2>1, <2>2, <2>3 DEF TypeOK, Counted
<1>5. QED
  BY <1>1, <1>2, <1>3, <1>4 DEF Thread

\* Another manager is started only for an attempt that was counted.
LEMMA StartManagerInv == ASSUME IInv, StartManager PROVE IInv'
<1> USE WatchdogAssumption DEF IInv, StartManager, incidents, recovery, delivery
<1>1. manager + 1 \in Managers
  BY DEF TypeOK, Counted, Managers, Recoverable
<1>2. TypeOK'
  <2>1. CASE Write(Interrupted(row))
    <3>1. /\ row' \in {"none", STATUS_QUEUED, STATUS_RETRYING, Settled}
          /\ unsaved' \in BOOLEAN /\ refusals' \in 0 .. MaxRefusals
      BY <2>1, WriteType, InterruptedType
    <3>2. manager' \in {manager, manager + 1}
          /\ worker' \in {worker, [worker EXCEPT ![manager + 1] = "idle"]}
          /\ scheduler' \in {scheduler, [scheduler EXCEPT ![manager + 1] = "alive"]}
      OBVIOUS
    <3>3. QED
      BY <1>1, <3>1, <3>2 DEF TypeOK
  <2>2. CASE UNCHANGED <<manager, worker, scheduler, delivery>>
    BY <2>2 DEF TypeOK
  <2>3. QED
    BY <2>1, <2>2
<1>3. Counted'
  BY <1>1 DEF Counted, TypeOK, Managers, Recoverable
<1>4. QED
  BY <1>2, <1>3

LEMMA TickInv == ASSUME IInv, Tick PROVE IInv'
<1> USE WatchdogAssumption DEF IInv, Tick, threads, incidents
<1>1. wait' \in [Recoverable -> 0 .. Cooldown]
  BY DEF TypeOK, Cooled
<1>2. checks' \in Seq(Checks)
  BY ProbeType
<1>3. TypeOK'
  BY <1>1, <1>2 DEF TypeOK
<1>4. Counted'
  BY DEF Counted
<1>5. QED
  BY <1>3, <1>4

LEMMA RecoverInv == ASSUME IInv, Recover PROVE IInv'
<1> USE WatchdogAssumption DEF IInv, Recover, incidents
<1> DEFINE c == Head(checks).condition
<1>1. c \in Recoverable /\ attempts[c] < MaxAttempts
  BY DEF MayRecover
<1>2. attempts' \in [Recoverable -> 0 .. MaxAttempts] /\ wait' \in [Recoverable -> 0 .. Cooldown]
  BY <1>1 DEF TypeOK
<1>3. TypeOK'
  BY <1>2, ShutDownType DEF TypeOK
<1>4. attempts'["worker"] + attempts'["scheduler"] = attempts["worker"] + attempts["scheduler"] + 1
  BY <1>1 DEF TypeOK, Recoverable
<1>5. manager' = manager /\ joining' = TRUE /\ joining = FALSE
  BY DEF TypeOK
<1>6. /\ attempts["worker"] \in Nat /\ attempts["scheduler"] \in Nat /\ manager \in Nat
      /\ attempts'["worker"] \in Nat /\ attempts'["scheduler"] \in Nat
  BY <1>2 DEF TypeOK, Recoverable, Managers
<1> HIDE DEF Recover
<1>7. Counted'
  BY <1>4, <1>5, <1>6 DEF Counted
<1>8. QED
  BY <1>3, <1>7

LEMMA HandleInv == ASSUME IInv, Handle PROVE IInv'
<1> USE DEF IInv, Handle, threads, recovery
<1> DEFINE c == Head(checks).condition
<1>1. c \in Conditions /\ Tail(checks) \in Seq(Checks)
  BY HeadCheck
<1>2. PICK refused \in BOOLEAN :
          /\ refused => refusals < MaxRefusals
          /\ refusals' = IF refused THEN refusals + 1 ELSE refusals
          /\ Recorded(c, refused) \/ Resolved(c, refused)
  OBVIOUS
<1>3. open' \subseteq Conditions /\ notified' \subseteq Conditions /\ told' \in [Conditions -> Int]
  BY <1>1, <1>2 DEF TypeOK, Recorded, Resolved
<1>4. refusals' \in 0 .. MaxRefusals
  BY <1>2, WatchdogAssumption DEF TypeOK
<1>5. TypeOK'
  BY <1>1, <1>3, <1>4 DEF TypeOK
<1>6. Counted'
  BY DEF Counted
<1>7. QED
  BY <1>5, <1>6

\* What the user does, the end of the program and its next start.
LEMMA OtherInv ==
    ASSUME IInv, Enqueue \/ Fill \/ SetAutoRecovery \/ Exit \/ Restart
    PROVE  IInv'
<1> USE DEF IInv
<1>1. CASE Enqueue
  BY <1>1 DEF Enqueue, Unwatched, tick, incidents, recovery, TypeOK, Counted
<1>2. CASE Fill
  BY <1>2 DEF Fill, threads, tick, incidents, recovery, TypeOK, Counted
<1>3. CASE SetAutoRecovery
  BY <1>3 DEF SetAutoRecovery, threads, tick, incidents, recovery, TypeOK, Counted
<1>4. CASE Exit
  BY <1>4, ShutDownType DEF Exit, tick, incidents, recovery, TypeOK, Counted
<1>5. CASE Restart
  <2> USE <1>5, WatchdogAssumption DEF Restart, Fresh
  <2>1. 1 \in Managers
    BY DEF Managers
  <2>2. /\ worker' \in [Managers -> {"none", "idle", "sending", "dead"}]
        /\ scheduler' \in [Managers -> {"none", "alive", "dead"}]
        /\ told' \in [Conditions -> Int]
        /\ attempts' \in [Recoverable -> 0 .. MaxAttempts]
        /\ wait' \in [Recoverable -> 0 .. Cooldown]
    OBVIOUS
  <2>3. checks' \in Seq(Checks) /\ starts' \in 1 .. MaxStarts
    BY DEF TypeOK
  <2>4. /\ row' \in {"none", STATUS_QUEUED, STATUS_RETRYING, Settled}
        /\ unsaved' \in BOOLEAN /\ refusals' \in 0 .. MaxRefusals
    BY WriteType, InterruptedType
  <2>5. TypeOK'
    BY <2>1, <2>2, <2>3, <2>4 DEF TypeOK, Depths
  <2>6. Counted'
    BY DEF Counted, Recoverable
  <2>7. QED
    BY <2>5, <2>6
<1>6. QED
  BY <1>1, <1>2, <1>3, <1>4, <1>5

LEMMA NextInv == ASSUME IInv, [Next]_vars PROVE IInv'
<1>1. CASE Next
  BY <1>1, ThreadInv, StartManagerInv, TickInv, RecoverInv, HandleInv, OtherInv DEF Next
<1>2. CASE UNCHANGED vars
  BY <1>2 DEF vars, IInv, TypeOK, Counted
<1>3. QED
  BY <1>1, <1>2

LEMMA Invariant == Spec => []IInv
<1>1. Init => IInv
  BY InitInv
<1>2. IInv /\ [Next]_vars => IInv'
  BY NextInv
<1>3. QED
  BY <1>1, <1>2, PTL DEF Spec

\* "Automatic recovery is bounded to two attempts per condition" (README): however the
\* threads of the managers fail and whatever the user switches on and off, the manager
\* is replaced at most MaxAttempts times for each condition, in each run of the program.
THEOREM RecoveriesBounded == Spec => []TypeOK
<1>1. IInv => TypeOK
  BY DEF IInv
<1>2. QED
  BY <1>1, Invariant, PTL

--------------------------------------------------------------------------------
\* A step that handles a check keeps the account of what was notified.
LEMMA NotifiedOnceStep == ASSUME TypeOK, NotifiedOnce, [Next]_vars PROVE NotifiedOnce'
<1> USE DEF NotifiedOnce
<1>1. CASE Handle
  <2> DEFINE c == Head(checks).condition
  <2>1. c \in Conditions
    BY <1>1, HeadCheck DEF Handle
  <2>2. PICK refused \in BOOLEAN : Recorded(c, refused) \/ Resolved(c, refused)
    BY <1>1 DEF Handle
  <2>3. CASE Recorded(c, refused)
    BY <2>1, <2>3 DEF Recorded, TypeOK
  <2>4. CASE Resolved(c, refused)
    BY <2>1, <2>4 DEF Resolved, TypeOK
  <2>5. QED
    BY <2>2, <2>3, <2>4
<1>2. CASE Restart
  BY <1>2 DEF Restart
<1>3. CASE UNCHANGED incidents
  BY <1>3 DEF incidents
<1>4. CASE UNCHANGED vars
  BY <1>4 DEF vars
<1>5. ASSUME NEW m \in Managers, Thread(m) \/ Die(m)
      PROVE  UNCHANGED incidents
  BY <1>5 DEF Thread, Schedule, Take, Finish, Die, Unwatched
<1>6. Enqueue \/ StartManager \/ Tick \/ Recover \/ Fill \/ SetAutoRecovery \/ Exit
      => UNCHANGED incidents
  BY DEF Enqueue, StartManager, Tick, Recover, Fill, SetAutoRecovery, Exit, Unwatched
<1>7. QED
  BY <1>1, <1>2, <1>3, <1>4, <1>5, <1>6 DEF Next

\* A condition is notified once while its incident is open, and once when it ends, also
\* when incidents cannot be written and across restarts.
THEOREM NotificationsAreSingle == Spec => []NotifiedOnce
<1>1. Init => NotifiedOnce
  BY DEF Init, NotifiedOnce
<1>2. TypeOK /\ NotifiedOnce /\ [Next]_vars => NotifiedOnce'
  BY NotifiedOnceStep
<1>3. QED
  BY <1>1, <1>2, RecoveriesBounded, PTL DEF Spec

--------------------------------------------------------------------------------
\* A write that ends a delivery or leaves it to be retried, or is refused, leaves no claim.
LEMMA WriteHeld ==
    ASSUME NEW STATE rows, STATUS_QUEUED \notin rows, Write(rows)
    PROVE  QueuedIsHeld'
BY DEF Write, QueuedIsHeld

\* Whoever holds a delivery keeps it until its row says so.
LEMMA QueuedIsHeldStep == ASSUME TypeOK, QueuedIsHeld, [Next]_vars PROVE QueuedIsHeld'
<1> USE DEF QueuedIsHeld, Holds, delivery
<1>1. CASE Enqueue
  BY <1>1 DEF Enqueue, TypeOK
<1>2. ASSUME NEW m \in Managers, Schedule(m)
      PROVE  QueuedIsHeld'
  BY <1>2 DEF Schedule, TypeOK, STATUS_QUEUED, STATUS_RETRYING
<1>3. ASSUME NEW m \in Managers, Take(m)
      PROVE  QueuedIsHeld'
  <2> SUFFICES ASSUME row = STATUS_QUEUED, ~unsaved
               PROVE  \E k \in Managers : Holds(k)'
    BY <1>3 DEF Take
  <2>1. PICK k \in Managers : Holds(k)
    OBVIOUS
  <2>2. CASE k = m
    BY <1>3, <2>2 DEF Take, TypeOK
  <2>3. CASE k # m
    BY <1>3, <2>1, <2>3 DEF Take, TypeOK
  <2>4. QED
    BY <2>2, <2>3
<1>4. ASSUME NEW m \in Managers, Finish(m)
      PROVE  QueuedIsHeld'
  BY <1>4, WriteHeld DEF Finish, STATUS_QUEUED, STATUS_RETRYING, Settled
<1>5. ASSUME NEW m \in Managers, Die(m)
      PROVE  QueuedIsHeld'
  <2> SUFFICES ASSUME row = STATUS_QUEUED, ~unsaved
               PROVE  \E k \in Managers : Holds(k)'
    BY <1>5 DEF Die
  <2>1. PICK k \in Managers : Holds(k)
    OBVIOUS
  <2>2. Holds(k)'
    BY <1>5, <2>1 DEF Die, TypeOK
  <2>3. QED
    BY <2>2
<1>6. ASSUME ShutDownManager, UNCHANGED worker
      PROVE  QueuedIsHeld'
  <2>1. CASE manager \in queued
    BY <1>6, <2>1, WriteHeld
       DEF ShutDownManager, Preserved, STATUS_QUEUED, STATUS_RETRYING, Settled
  <2>2. CASE manager \notin queued
    <3> SUFFICES ASSUME row = STATUS_QUEUED, ~unsaved
                 PROVE  \E k \in Managers : Holds(k)'
      BY <1>6, <2>2 DEF ShutDownManager
    <3>1. PICK k \in Managers : Holds(k)
      OBVIOUS
    <3>2. Holds(k)'
      BY <1>6, <2>2, <3>1 DEF ShutDownManager
    <3>3. QED
      BY <3>2
  <2>3. QED
    BY <2>1, <2>2
<1>7. ASSUME Write(Interrupted(row))
      PROVE  QueuedIsHeld'
  <2>1. STATUS_QUEUED \notin Interrupted(row)
    BY DEF Interrupted, Preserved, STATUS_QUEUED, STATUS_RETRYING, Settled
  <2>2. QED
    BY <1>7, <2>1, WriteHeld
<1>8. CASE UNCHANGED threads
  BY <1>8 DEF threads
<1>9. Recover \/ Exit => ShutDownManager /\ UNCHANGED worker
  BY DEF Recover, Exit
<1>10. StartManager => Write(Interrupted(row)) \/ UNCHANGED threads
  BY DEF StartManager, threads
<1>11. Restart => Write(Interrupted(row))
  BY DEF Restart
<1>12. Tick \/ Handle \/ Fill \/ SetAutoRecovery \/ UNCHANGED vars => UNCHANGED threads
  BY DEF Tick, Handle, Fill, SetAutoRecovery, vars, threads
<1>13. QED
  BY <1>1, <1>2, <1>3, <1>4, <1>5, <1>6, <1>7, <1>8, <1>9, <1>10, <1>11, <1>12
     DEF Next, Thread

\* Worker recovery preserves durable delivery state (README): no delivery is QUEUED in
\* the history with nobody to send it, for any number of faults, recoveries that succeed
\* or fail, and starts, unless the last write of its status was refused.
THEOREM RecoveryKeepsDeliveries == Spec => []QueuedIsHeld
<1>1. Init => QueuedIsHeld
  BY DEF Init, QueuedIsHeld, STATUS_QUEUED
<1>2. TypeOK /\ QueuedIsHeld /\ [Next]_vars => QueuedIsHeld'
  BY QueuedIsHeldStep
<1>3. QED
  BY <1>1, <1>2, RecoveriesBounded, PTL DEF Spec
================================================================================
