---------------------------- MODULE BackgroundProofs ----------------------------
(***************************************************************************)
(* Theorems about Background: the range scan and the Trace Route window,    *)
(* for any range, window, pool and number of runs.                          *)
(***************************************************************************)
EXTENDS Background, FiniteSetTheorems, TLAPS

\* What has been handed to the pool: the range up to position.
Submitted == {x \in range : x < position}

(***************************************************************************)
(* The range is an interval and position is in it or just past it, so what  *)
(* take() hands out next is what comes next.  An address is pending from    *)
(* its submission to the poll that finds it finished; while the scan is not *)
(* cancelled, the others submitted have been counted and shown.             *)
(***************************************************************************)
PlanInv ==
    \E lo \in Nat, hi \in Int : range = lo .. hi /\ lo <= position /\ position <= hi + 1

PoolInv ==
    /\ IsFiniteSet(pending) /\ Cardinality(pending) <= Workers
    /\ pending \subseteq Submitted /\ answers \subseteq Submitted /\ shown \subseteq Submitted
    /\ \A x \in Addresses : checked[x] = IF x \in Submitted THEN 1 ELSE 0
    /\ \A x \in Addresses : future[x] \in {"queued", "running"} => x \in pending

ShownInv ==
    /\ ~scanning => pending = {}
    /\ ~scanning /\ ~cancelled => Submitted = range
    /\ shown \subseteq IF showAll THEN range ELSE answers
    /\ ~cancelled =>
          /\ \A x \in pending : future[x] \in {"queued", "running", "done"}
          /\ completed = Cardinality(Submitted \ pending)
          /\ shown = {x \in Submitted \ pending : showAll \/ x \in answers}

ScanTypes ==
    /\ scanning \in BOOLEAN /\ range \subseteq Addresses /\ position \in Nat
    /\ cancelled \in BOOLEAN /\ showAll \in BOOLEAN /\ completed \in Nat
    /\ future \in [Addresses -> {"none", "queued", "running", "done", "cancelled"}]
    /\ checked \in [Addresses -> Nat]

ScanInv == ScanTypes /\ PlanInv /\ PoolInv /\ ShownInv

--------------------------------------------------------------------------------
\* take() gets size addresses for n free places, from p on, out of a range up to hi.
Took(batch, size, hi, p, n) ==
    /\ IsFiniteSet(batch) /\ Cardinality(batch) = size
    /\ batch = p .. p + size - 1
    /\ p + size <= hi + 1
    /\ n > 0 /\ batch = {} => p = hi + 1

\* IPv4ScanPlan.take(): the next n addresses of an interval, or what is left of it.
LEMMA TakenFacts ==
    ASSUME NEW lo \in Nat, NEW hi \in Int, NEW p \in Nat, lo <= p, p <= hi + 1, NEW n \in Nat,
           NEW batch, batch = Taken(lo .. hi, p, n)
    PROVE  \E size \in 0 .. n : Took(batch, size, hi, p, n)
<1> USE DEF Took
<1>1. CASE p + n - 1 <= hi
  <2>1. batch = p .. p + n - 1
    BY <1>1 DEF Taken
  <2>2. IsFiniteSet(batch) /\ Cardinality(batch) = n
    BY <2>1, FS_Interval, p + n - 1 \in Int
  <2>3. n > 0 => p \in batch
    BY <2>1
  <2> QED BY <1>1, <2>1, <2>2, <2>3
<1>2. CASE p + n - 1 > hi
  <2> DEFINE size == hi - p + 1
  <2>1. batch = p .. hi /\ size \in 0 .. n
    BY <1>2 DEF Taken
  <2>2. IsFiniteSet(batch) /\ Cardinality(batch) = size
    BY <2>1, FS_Interval
  <2>3. p <= hi => p \in batch
    BY <2>1
  <2>4. batch = p .. p + size - 1 /\ p + size <= hi + 1
    BY <2>1
  <2>5. batch = {} => p = hi + 1
    BY <2>3
  <2> HIDE DEF size
  <2> QED BY <2>1, <2>2, <2>4, <2>5
<1> QED BY <1>1, <1>2

\* Two sets of which neither has an element of the other.
LEMMA Together ==
    ASSUME NEW S, NEW T, IsFiniteSet(S), IsFiniteSet(T), \A x \in S : x \notin T
    PROVE  /\ IsFiniteSet(S \union T)
           /\ Cardinality(S \union T) = Cardinality(S) + Cardinality(T)
           /\ Cardinality(S) \in Nat /\ Cardinality(T) \in Nat
<1>1. S \cap T = {}
  OBVIOUS
<1> QED BY <1>1, FS_Union, FS_EmptySet, FS_CardinalityType

LEMMA SubmittedFinite == ASSUME PlanInv PROVE IsFiniteSet(Submitted) /\ IsFiniteSet(range)
<1>1. PICK lo \in Nat, hi \in Int : range = lo .. hi
  BY DEF PlanInv
<1>2. IsFiniteSet(range)
  BY <1>1, FS_Interval
<1> QED BY <1>2, FS_Subset DEF Submitted

LEMMA ScanInvInit == Init => ScanInv
<1> SUFFICES ASSUME Init PROVE ScanInv
  OBVIOUS
<1> USE DEF Init, ScanInit
<1>1. Submitted = {}
  BY DEF Submitted
<1>2. range = 0 .. -1 /\ -1 \in Int
  OBVIOUS
<1>3. PlanInv
  BY <1>2 DEF PlanInv
<1>4. IsFiniteSet(pending) /\ Cardinality(pending) = 0
  BY FS_EmptySet
<1>5. PoolInv
  BY <1>1, <1>4, RangeScanAssumption DEF PoolInv
<1>6. ShownInv
  BY <1>1, <1>4 DEF ShownInv
<1> QED BY <1>3, <1>5, <1>6 DEF ScanInv, ScanTypes

\* submit_scan_work() hands n addresses to the pool, from p on, out of a range up to hi.
HandsOut(n, hi, p, W, F, C) ==
    /\ position' = p + n /\ p + n <= hi + 1
    /\ pending' = W \union (p .. p + n - 1)
    /\ IsFiniteSet(pending') /\ Cardinality(pending') <= Workers
    /\ pending' = {} => p = hi + 1
    /\ future' \in [Addresses -> {"none", "queued", "running", "done", "cancelled"}]
    /\ checked' \in [Addresses -> Nat]
    /\ \A x \in Addresses :
          /\ future'[x] = IF x \in p .. p + n - 1 THEN "queued" ELSE F[x]
          /\ checked'[x] = IF x \in p .. p + n - 1 THEN C[x] + 1 ELSE C[x]

\* With a plan whose interval is lo .. hi, and W of the pool still in use.
LEMMA SubmitFacts ==
    ASSUME NEW lo \in Nat, NEW hi \in Int, NEW p \in Nat, lo <= p, p <= hi + 1,
           lo .. hi \subseteq Addresses,
           NEW W, IsFiniteSet(W), Cardinality(W) <= Workers, W \subseteq lo .. p - 1,
           NEW F \in [Addresses -> {"none", "queued", "running", "done", "cancelled"}],
           NEW C \in [Addresses -> Nat], Submit(lo .. hi, p, W, F, C)
    PROVE  \E n \in Nat : HandsOut(n, hi, p, W, F, C)
<1> DEFINE slots == Slots(W)
           batch == Taken(lo .. hi, p, slots)
<1>1. Cardinality(W) \in Nat /\ slots \in Nat /\ slots = Workers - Cardinality(W)
  BY FS_CardinalityType, RangeScanAssumption DEF Slots
<1>2. PICK n \in 0 .. slots : Took(batch, n, hi, p, slots)
  BY <1>1, TakenFacts
<1> USE DEF Took
<1>3. /\ pending' = W \union batch /\ position' = p + n
      /\ future' = [x \in Addresses |-> IF x \in batch THEN "queued" ELSE F[x]]
      /\ checked' = [x \in Addresses |-> IF x \in batch THEN C[x] + 1 ELSE C[x]]
  BY <1>2 DEF Submit
<1> HIDE DEF slots, batch
<1>4. \A x \in W : x \notin batch
  BY <1>2
<1>5. IsFiniteSet(pending') /\ Cardinality(pending') = Cardinality(W) + Cardinality(batch)
  BY <1>2, <1>3, <1>4, Together
<1>6. pending' = {} => p = hi + 1
  <2>1. pending' = {} => Cardinality(W) = 0 /\ batch = {}
    BY <1>3, FS_EmptySet
  <2> QED BY <1>1, <1>2, <2>1, RangeScanAssumption
<1>7. Cardinality(pending') <= Workers
  BY <1>1, <1>2, <1>5, RangeScanAssumption
<1>8. \A x \in Addresses :
          /\ future'[x] = IF x \in p .. p + n - 1 THEN "queued" ELSE F[x]
          /\ checked'[x] = IF x \in p .. p + n - 1 THEN C[x] + 1 ELSE C[x]
  BY <1>2, <1>3
<1>9. /\ future' \in [Addresses -> {"none", "queued", "running", "done", "cancelled"}]
      /\ checked' \in [Addresses -> Nat]
  BY <1>3
<1>10. pending' = W \union (p .. p + n - 1)
  BY <1>2, <1>3
<1> QED BY <1>2, <1>3, <1>5, <1>6, <1>7, <1>8, <1>9, <1>10 DEF HandsOut

--------------------------------------------------------------------------------
\* What stays true of the scan when nothing of it changes.
LEMMA ScanSame == ASSUME ScanInv, UNCHANGED scanVars PROVE ScanInv'
BY DEF ScanInv, ScanTypes, PlanInv, PoolInv, ShownInv, Submitted, scanVars

\* start_range_scan(): the first addresses of the range are pending, and no other is.
LEMMA StartKeeps ==
    ASSUME NEW first \in Addresses, NEW last \in Addresses, NEW all \in BOOLEAN,
           StartScan(first, last, all)
    PROVE  ScanInv'
<1>1. /\ first \in Nat /\ last \in Int /\ first <= last /\ first <= last + 1
      /\ first .. last \subseteq Addresses
  BY RangeScanAssumption DEF StartScan
<1>2. /\ first <= first /\ IsFiniteSet({}) /\ Cardinality({}) <= Workers
      /\ {} \subseteq first .. first - 1
  BY FS_EmptySet, RangeScanAssumption
<1> DEFINE none == [x \in Addresses |-> "none"]
           zero == [x \in Addresses |-> 0]
<1>3. /\ none \in [Addresses -> {"none", "queued", "running", "done", "cancelled"}]
      /\ zero \in [Addresses -> Nat]
  OBVIOUS
<1>4. Submit(first .. last, first, {}, none, zero)
  BY DEF StartScan
<1>5. PICK n \in Nat : HandsOut(n, last, first, {}, none, zero)
  <2> HIDE DEF none, zero
  <2> QED BY <1>1, <1>2, <1>3, <1>4, SubmitFacts
<1> USE DEF HandsOut
<1>6. /\ scanning' = TRUE /\ range' = first .. last /\ cancelled' = FALSE /\ showAll' = all
      /\ completed' = 0 /\ shown' = {} /\ answers' = {}
  BY DEF StartScan
<1>7. Submitted' = first .. first + n - 1 /\ Submitted' = pending'
  BY <1>1, <1>5, <1>6 DEF Submitted
<1>8. PlanInv'
  BY <1>1, <1>5, <1>6 DEF PlanInv
<1>9. PoolInv'
  BY <1>5, <1>6, <1>7 DEF PoolInv
<1>10. ShownInv'
  <2>1. Submitted' \ pending' = {} /\ completed' = Cardinality({})
    BY <1>6, <1>7, FS_EmptySet
  <2>2. \A x \in pending' : future'[x] = "queued"
    BY <1>1, <1>5
  <2> QED BY <1>6, <2>1, <2>2 DEF ShownInv
<1>11. ScanTypes'
  <2>1. range' \subseteq Addresses /\ position' \in Nat /\ completed' \in Nat
    BY <1>1, <1>5, <1>6
  <2>2. scanning' \in BOOLEAN /\ cancelled' \in BOOLEAN /\ showAll' \in BOOLEAN
    BY <1>6
  <2> QED BY <1>5, <2>1, <2>2 DEF ScanTypes
<1> QED BY <1>8, <1>9, <1>10, <1>11 DEF ScanInv

\* A thread of the pool: what runs or waits is pending, and is not counted yet.
LEMMA CheckKeeps ==
    ASSUME ScanInv, NEW x \in Addresses, BeginCheck(x) \/ FinishCheck(x)
    PROVE  ScanInv'
<1>1. x \in pending /\ x \in Submitted
  BY DEF BeginCheck, FinishCheck, ScanInv, PoolInv
<1>2. /\ answers' \in {answers, answers \union {x}}
      /\ \E s \in {"running", "done"} : future' = [future EXCEPT ![x] = s]
      /\ UNCHANGED <<scanning, plan, pending, completed, shown, checked>>
  BY DEF BeginCheck, FinishCheck
<1>3. Submitted' = Submitted
  BY <1>2 DEF Submitted, plan
<1>4. ScanTypes' /\ PlanInv'
  BY <1>2 DEF ScanInv, ScanTypes, PlanInv, plan
<1>5. PoolInv'
  BY <1>1, <1>2, <1>3 DEF ScanInv, ScanTypes, PoolInv, plan
<1>6. ShownInv'
  BY <1>1, <1>2, <1>3 DEF ScanInv, ScanTypes, ShownInv, plan
<1> QED BY <1>4, <1>5, <1>6 DEF ScanInv

\* cancel_range_scan(), and shutdown_application() about the scan.
LEMMA CancelKeeps == ASSUME ScanInv, CancelScan \/ EndScan PROVE ScanInv'
<1>1. /\ cancelled' = (cancelled \/ scanning) /\ future' = Withdrawn
      /\ UNCHANGED <<scanning, range, position, showAll, pending, answers, completed, shown,
                     checked>>
  BY DEF CancelScan, EndScan, ScanInv, ScanTypes
<1>2. Submitted' = Submitted
  BY <1>1 DEF Submitted
<1>3. ScanTypes' /\ PlanInv'
  BY <1>1 DEF ScanInv, ScanTypes, PlanInv, Withdrawn
<1>4. PoolInv'
  BY <1>1, <1>2 DEF ScanInv, ScanTypes, PoolInv, Withdrawn
<1>5. ShownInv'
  BY <1>1, <1>2 DEF ScanInv, ScanTypes, ShownInv, Withdrawn
<1> QED BY <1>3, <1>4, <1>5 DEF ScanInv

\* poll_range_scan() of a scan that was cancelled: what has ended is let go.
LEMMA CancelledPollKeeps == ASSUME ScanInv, PollScan, cancelled PROVE ScanInv'
<1>1. /\ completed' = completed + Cardinality(Results) /\ shown' = shown
      /\ pending' = pending \ Finished /\ scanning' = (pending' # {})
      /\ UNCHANGED <<position, future, checked, range, cancelled, showAll, answers>>
  BY DEF PollScan, Applies
<1>2. IsFiniteSet(Results) /\ Cardinality(Results) \in Nat
  BY FS_Subset, FS_CardinalityType DEF Results, ScanInv, PoolInv
<1>3. IsFiniteSet(pending') /\ Cardinality(pending') <= Workers
  <2>1. IsFiniteSet(pending) /\ pending' \subseteq pending /\ Cardinality(pending) <= Workers
    BY <1>1 DEF ScanInv, PoolInv
  <2>2. IsFiniteSet(pending') /\ Cardinality(pending') <= Cardinality(pending)
    BY <2>1, FS_Subset
  <2> QED BY <2>1, <2>2, FS_CardinalityType, RangeScanAssumption
<1>4. Submitted' = Submitted
  BY <1>1 DEF Submitted
<1>5. ScanTypes' /\ PlanInv'
  BY <1>1, <1>2 DEF ScanInv, ScanTypes, PlanInv
<1>6. PoolInv'
  BY <1>1, <1>3, <1>4 DEF ScanInv, PoolInv, Finished
<1>7. ShownInv'
  BY <1>1, <1>4 DEF ScanInv, ScanTypes, ShownInv
<1> QED BY <1>5, <1>6, <1>7 DEF ScanInv

\* poll_range_scan() otherwise: each result is counted and applied once, and its place
\* is taken by the next address.
LEMMA PollKeeps == ASSUME ScanInv, PollScan, ~cancelled PROVE ScanInv'
<1>1. PICK lo \in Nat, hi \in Int : range = lo .. hi /\ lo <= position /\ position <= hi + 1
  BY DEF ScanInv, PlanInv
<1> DEFINE W == pending \ Finished
<1>2. /\ completed' = completed + Cardinality(Results) /\ shown' = shown \union Applies
      /\ Submit(lo .. hi, position, W, future, checked) /\ scanning' = (pending' # {})
      /\ UNCHANGED <<range, cancelled, showAll, answers>>
  BY <1>1 DEF PollScan
<1>3. Finished = Results /\ Results \subseteq pending
  BY DEF ScanInv, ShownInv, Finished, Results
<1>4. Submitted = lo .. position - 1 /\ position \in Nat
  BY <1>1 DEF Submitted, ScanInv, ScanTypes
<1>5. IsFiniteSet(W) /\ Cardinality(W) <= Workers /\ W \subseteq lo .. position - 1
  <2>1. IsFiniteSet(pending) /\ W \subseteq pending /\ Cardinality(pending) <= Workers
        /\ pending \subseteq Submitted
    BY DEF ScanInv, PoolInv
  <2>2. IsFiniteSet(W) /\ Cardinality(W) <= Cardinality(pending)
    BY <2>1, FS_Subset
  <2>3. Cardinality(W) \in Nat /\ Cardinality(pending) \in Nat
    BY <2>1, <2>2, FS_CardinalityType
  <2> HIDE DEF W
  <2> QED BY <1>4, <2>1, <2>2, <2>3, RangeScanAssumption
<1>6. /\ future \in [Addresses -> {"none", "queued", "running", "done", "cancelled"}]
      /\ checked \in [Addresses -> Nat] /\ lo .. hi \subseteq Addresses
  BY <1>1 DEF ScanInv, ScanTypes
<1>7. PICK n \in Nat : HandsOut(n, hi, position, W, future, checked)
  <2> HIDE DEF W
  <2> QED BY <1>1, <1>2, <1>4, <1>5, <1>6, SubmitFacts
<1> USE DEF HandsOut
<1>8. /\ Submitted' = Submitted \union (position .. position + n - 1)
      /\ \A x \in position .. position + n - 1 : x \notin Submitted
  BY <1>1, <1>2, <1>4, <1>7 DEF Submitted
<1>9. IsFiniteSet(Results) /\ Cardinality(Results) \in Nat
  BY FS_Subset, FS_CardinalityType, <1>3 DEF ScanInv, PoolInv
<1>10. ScanTypes' /\ PlanInv'
  <2>1. position' \in Nat /\ lo <= position' /\ position' <= hi + 1
    BY <1>1, <1>4, <1>7
  <2>2. scanning' \in BOOLEAN /\ cancelled' \in BOOLEAN /\ showAll' \in BOOLEAN
    BY <1>2 DEF ScanInv, ScanTypes
  <2>3. range' \subseteq Addresses /\ completed' \in Nat
    BY <1>2, <1>9 DEF ScanInv, ScanTypes
  <2>4. PlanInv'
    BY <1>1, <1>2, <2>1 DEF PlanInv
  <2> QED BY <1>7, <2>1, <2>2, <2>3, <2>4 DEF ScanTypes
<1>11. Applies \subseteq Submitted /\ W \subseteq Submitted
  BY DEF Applies, Results, ScanInv, PoolInv
<1>12. PoolInv'
  <2>1. /\ pending' \subseteq Submitted' /\ answers' \subseteq Submitted'
        /\ shown' \subseteq Submitted'
    BY <1>2, <1>7, <1>8, <1>11 DEF ScanInv, PoolInv
  <2>2. \A x \in Addresses : checked'[x] = IF x \in Submitted' THEN 1 ELSE 0
    BY <1>6, <1>7, <1>8 DEF ScanInv, PoolInv
  <2>3. \A x \in Addresses : future'[x] \in {"queued", "running"} => x \in pending'
    BY <1>7 DEF ScanInv, PoolInv, Finished
  <2> QED BY <1>7, <2>1, <2>2, <2>3 DEF PoolInv
<1>13. Submitted' \ pending' = (Submitted \ pending) \union Results
  BY <1>3, <1>7, <1>8, <1>11 DEF ScanInv, PoolInv
<1>14. completed' = Cardinality(Submitted' \ pending')
  <2>1. IsFiniteSet(Submitted \ pending)
    BY SubmittedFinite, FS_Subset DEF ScanInv
  <2>2. \A x \in Submitted \ pending : x \notin Results
    BY <1>3
  <2>3. Cardinality((Submitted \ pending) \union Results)
          = Cardinality(Submitted \ pending) + Cardinality(Results)
    BY <1>9, <2>1, <2>2, Together
  <2> QED BY <1>2, <1>13, <2>3 DEF ScanInv, ShownInv
<1>15. shown' = {x \in Submitted' \ pending' : showAll' \/ x \in answers'}
  BY <1>2, <1>13 DEF ScanInv, ShownInv, Applies
<1>16. ShownInv'
  <2>1. ASSUME ~scanning' PROVE pending' = {} /\ Submitted' = range'
    <3>1. pending' = {} /\ position = hi + 1
      BY <1>2, <1>7, <2>1
    <3>2. position .. position + n - 1 = {}
      BY <1>4, <1>7, <3>1
    <3> QED BY <1>1, <1>2, <1>4, <1>8, <3>1, <3>2
  <2>2. shown' \subseteq IF showAll' THEN range' ELSE answers'
    BY <1>2, <1>11 DEF ScanInv, ShownInv, Applies, Submitted
  <2>3. \A x \in pending' : future'[x] \in {"queued", "running", "done"}
    <3>1. pending' \subseteq Addresses
      BY <1>6, <1>7, <1>1, <1>4, <1>11
    <3> QED BY <1>7, <3>1 DEF ScanInv, ShownInv
  <2> QED BY <1>14, <1>15, <2>1, <2>2, <2>3 DEF ShownInv
<1> QED BY <1>10, <1>12, <1>16 DEF ScanInv

LEMMA ScanKeeps == ASSUME ScanInv, [Next]_vars PROVE ScanInv'
<1>1. CASE UNCHANGED scanVars
  BY <1>1, ScanSame
<1>2. CASE ScanNext
  <2>1. ASSUME NEW first \in Addresses, NEW last \in Addresses, NEW all \in BOOLEAN,
               StartScan(first, last, all)
        PROVE  ScanInv'
    BY <2>1, StartKeeps
  <2>2. ASSUME NEW x \in Addresses, BeginCheck(x) \/ FinishCheck(x) PROVE ScanInv'
    BY <2>2, CheckKeeps
  <2>3. CASE PollScan
    BY <2>3, PollKeeps, CancelledPollKeeps
  <2> QED BY <1>2, <2>1, <2>2, <2>3, CancelKeeps DEF ScanNext
<1>3. CASE Shutdown
  BY <1>3, CancelKeeps DEF Shutdown
<1> QED BY <1>1, <1>2, <1>3 DEF Next, Scanning, Tracing, vars

LEMMA ScanInvariant == Spec => []ScanInv
<1>1. Init => ScanInv
  BY ScanInvInit
<1>2. ScanInv /\ [Next]_vars => ScanInv'
  BY ScanKeeps
<1> QED BY <1>1, <1>2, PTL DEF Spec

\* A completed scan has checked each address of its range once, counted it and shows what
\* it is to show; a cancelled one has checked none twice and shows none that did not answer.
THEOREM ScanFindsAll == Spec => []ScanIsComplete
<1>1. ASSUME ScanInv PROVE ScanIsComplete
  <2>1. \A x \in Addresses : checked[x] <= (IF x \in range THEN 1 ELSE 0)
    BY <1>1 DEF ScanInv, PoolInv, Submitted
  <2>2. ASSUME ~scanning, ~cancelled
        PROVE  /\ \A x \in range : checked[x] = 1
               /\ completed = Cardinality(range)
               /\ shown = IF showAll THEN range ELSE answers
    <3>1. pending = {} /\ Submitted = range /\ Submitted \ pending = range
      BY <1>1, <2>2 DEF ScanInv, ShownInv
    <3>2. \A x \in range : checked[x] = 1
      BY <1>1, <3>1 DEF ScanInv, ScanTypes, PoolInv
    <3>3. completed = Cardinality(range)
      BY <1>1, <2>2, <3>1 DEF ScanInv, ShownInv
    <3>4. shown = IF showAll THEN range ELSE answers
      BY <1>1, <2>2, <3>1 DEF ScanInv, ShownInv, PoolInv
    <3> QED BY <3>2, <3>3, <3>4
  <2> QED BY <1>1, <2>1, <2>2 DEF ScanIsComplete, ScanInv, ShownInv
<1> QED BY <1>1, ScanInvariant, PTL

\* Cancel stops new submissions, and no late result is shown: until a scan starts anew
\* (start_range_scan()), no step of a cancelled one checks an address or shows one.
THEOREM CancelIsFinal == Spec => CancelStops
<1>1. ASSUME [Next]_vars, cancelled, cancelled'
      PROVE  checked' = checked /\ shown' = shown
  <2>1. CASE UNCHANGED scanVars
    BY <2>1 DEF scanVars
  <2>2. CASE ScanNext
    <3>1. ASSUME NEW first \in Addresses, NEW last \in Addresses, NEW all \in BOOLEAN,
                 StartScan(first, last, all)
          PROVE  FALSE
      BY <1>1, <3>1 DEF StartScan
    <3>2. ASSUME NEW x \in Addresses, BeginCheck(x) \/ FinishCheck(x)
          PROVE  checked' = checked /\ shown' = shown
      BY <3>2 DEF BeginCheck, FinishCheck
    <3>3. CASE PollScan
      BY <1>1, <3>3 DEF PollScan, Applies
    <3>4. CASE CancelScan
      BY <3>4 DEF CancelScan
    <3> QED BY <2>2, <3>1, <3>2, <3>3, <3>4 DEF ScanNext
  <2>3. CASE Shutdown
    BY <2>3 DEF Shutdown, EndScan
  <2> QED BY <1>1, <2>1, <2>2, <2>3 DEF Next, Scanning, Tracing, vars
<1>2. [Next]_vars => [cancelled /\ cancelled' => checked' = checked /\ shown' = shown]_vars
  BY <1>1
<1> QED BY <1>2, PTL DEF Spec, CancelStops

--------------------------------------------------------------------------------
(***************************************************************************)
(* The window has a run while it is running or is being stopped, and every  *)
(* run is one of those the bound allows.                                    *)
(***************************************************************************)
TraceInv ==
    /\ TraceTypeOK
    /\ runsLeft \in Nat /\ run + runsLeft <= MaxRuns
    /\ running \/ tk # "free" => run \in Runs

LEMMA TraceInvInit == Init => TraceInv
<1> SUFFICES ASSUME Init PROVE TraceInv
  OBVIOUS
<1>1. PICK budget \in Nat \X (0 .. MaxRuns) : runsLeft = budget[2]
  BY BudgetsAssumption DEF Init
<1>2. runsLeft \in Nat /\ 0 + runsLeft <= MaxRuns /\ 0 \in 0 .. MaxRuns
  BY <1>1, TraceRouteAssumption
<1>3. << >> \in Seq(Runs \X {"line", "done"})
  OBVIOUS
<1> QED BY <1>2, <1>3 DEF Init, TraceInit, TraceInv, TraceTypeOK, Points

\* _trace_worker(): the points it goes through, and its messages.
LEMMA WorkerKeeps ==
    ASSUME TraceInv, NEW r \in Runs, WorkerStep(r) \/ ReadLine(r) \/ ReadFails(r) \/ End(r)
    PROVE  TraceInv'
<1>1. Window
  BY DEF WorkerStep, ReadLine, ReadFails, End, Take, Start, Register, Check, ReadEnd, Result,
         Wait, Finally, Unregister
<1>2. worker' \in [Runs -> Points]
  BY DEF TraceInv, TraceTypeOK, Points, At, WorkerStep, ReadLine, ReadFails, End, Take, Start,
         Register, Check, ReadEnd, Result, Wait, Finally, Unregister
<1>3. process' \in [Runs -> {"none", "alive", "dead"}]
  BY DEF TraceInv, TraceTypeOK, Ended, CheckStop, EndProcess, WorkerStep, ReadLine, ReadFails,
         End, Take, Start, Register, Check, ReadEnd, Result, Wait, Finally, Unregister
<1>4. handle' \in 0 .. MaxRuns
  BY TraceRouteAssumption DEF TraceInv, TraceTypeOK, Runs, Released, WorkerStep, ReadLine,
         ReadFails, End, Take, Start, Register, Check, ReadEnd, Result, Wait, Finally, Unregister
<1>5. messages' \in Seq(Runs \X {"line", "done"})
  <2>1. \/ messages' = messages
        \/ Put(Line(r)) \/ Put(Done(r))
    BY DEF WorkerStep, ReadLine, ReadFails, End, Take, Start, Register, Check, ReadEnd, Result,
           Wait, Finally, Unregister
  <2>2. Line(r) \in Runs \X {"line", "done"} /\ Done(r) \in Runs \X {"line", "done"}
    BY DEF Line, Done
  <2>3. messages \in Seq(Runs \X {"line", "done"})
    BY DEF TraceInv, TraceTypeOK
  <2>4. ASSUME NEW m \in Runs \X {"line", "done"}
        PROVE  Append(messages, m) \in Seq(Runs \X {"line", "done"})
    BY <2>3
  <2> QED BY <2>1, <2>2, <2>3, <2>4 DEF Put
<1> QED BY <1>1, <1>2, <1>3, <1>4, <1>5 DEF TraceInv, TraceTypeOK, Window

\* run_trace() and the Tk thread's other steps.
LEMMA WindowKeeps ==
    ASSUME TraceInv, RunTrace \/ StopTrace \/ CloseTrace \/ EndTrace \/ PollTrace
    PROVE  TraceInv'
<1> USE DEF TraceInv, TraceTypeOK
<1>1. CASE RunTrace
  <2>1. run + 1 \in Runs /\ runsLeft' \in Nat /\ run' + runsLeft' <= MaxRuns
    BY <1>1, TraceRouteAssumption DEF RunTrace, Runs
  <2>2. worker' \in [Runs -> Points]
    BY <1>1, <2>1 DEF RunTrace, Points
  <2>3. run' \in 0 .. MaxRuns /\ run' \in Runs
    BY <1>1, <2>1, TraceRouteAssumption DEF RunTrace, Runs
  <2> QED BY <1>1, <2>1, <2>2, <2>3 DEF RunTrace
<1>2. CASE StopTrace
  BY <1>2 DEF StopTrace
<1>3. CASE CloseTrace
  BY <1>3 DEF CloseTrace, Free
<1>4. CASE EndTrace
  BY <1>4 DEF EndTrace, Points
<1>5. CASE PollTrace
  <2>1. messages' \in Seq(Runs \X {"line", "done"})
    BY <1>5 DEF PollTrace
  <2>2. output' \subseteq {run}
    BY <1>5 DEF PollTrace
  <2>3. running' \in BOOLEAN /\ (running' => running)
    BY <1>5 DEF PollTrace
  <2> QED BY <1>5, <2>1, <2>2, <2>3 DEF PollTrace
<1> QED BY <1>1, <1>2, <1>3, <1>4, <1>5

LEMMA TraceKeeps == ASSUME TraceInv, [Next]_vars PROVE TraceInv'
<1>1. CASE UNCHANGED traceVars
  BY <1>1 DEF TraceInv, TraceTypeOK, traceVars
<1>2. CASE TraceNext
  BY <1>2, WorkerKeeps, WindowKeeps DEF TraceNext
<1>3. CASE Shutdown
  BY <1>1, <1>3, WindowKeeps DEF Shutdown
<1> QED BY <1>1, <1>2, <1>3 DEF Next, Scanning, Tracing, vars

\* The scan never has more than Workers checks on the pool, and the window no line of an
\* earlier run.
THEOREM BackgroundTypes == Spec => []TypeOK
<1>1. Init => TraceInv /\ down \in BOOLEAN
  BY TraceInvInit DEF Init
<1>2. (TraceInv /\ down \in BOOLEAN) /\ [Next]_vars => (TraceInv /\ down \in BOOLEAN)'
  <2> SUFFICES ASSUME TraceInv, down \in BOOLEAN, [Next]_vars PROVE TraceInv' /\ down' \in BOOLEAN
    OBVIOUS
  <2>1. down' = down \/ down' = TRUE
    BY DEF Next, Scanning, Tracing, Shutdown, vars, ScanNext, StartScan, BeginCheck, FinishCheck,
           CancelScan, PollScan
  <2> QED BY <2>1, TraceKeeps
<1>3. ScanInv /\ TraceInv /\ down \in BOOLEAN => TypeOK
  <2> SUFFICES ASSUME ScanInv, TraceInv, down \in BOOLEAN PROVE TypeOK
    OBVIOUS
  <2>1. Submitted \subseteq range
    BY DEF Submitted
  <2> QED BY <2>1 DEF ScanInv, ScanTypes, PoolInv, TraceInv, TypeOK, ScanTypeOK
<1> QED BY <1>1, <1>2, <1>3, ScanInvariant, PTL DEF Spec
================================================================================
