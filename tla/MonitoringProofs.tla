---------------------------- MODULE MonitoringProofs ----------------------------
(***************************************************************************)
(* Theorems about Monitoring, for every value of its constants.             *)
(***************************************************************************)
EXTENDS Monitoring, TLAPS, SequenceTheorems, FiniteSetTheorems

\* What inserting rows does: the new rows get ids nobody had, the others stay.
LEMMA InsertRowsEffect ==
    ASSUME TypeOK, NEW was \in [Rows -> Kinds], NEW ks \in Seq(Keys), NEW c \in Kinds,
           InsertRows(was, ks, c)
    PROVE  /\ kind' \in [Rows -> Kinds] /\ key' \in [Rows -> Keys]
           /\ next' \in 1 .. MaxRows + 1 /\ next <= next'
           /\ \A i \in Rows : i < next => kind'[i] = was[i] /\ key'[i] = key[i]
           /\ \A i \in Rows : i >= next' => kind'[i] = was[i]
<1> DEFINE Fresh == next .. next + Len(ks) - 1
<1>0. Len(ks) \in Nat /\ next \in Nat /\ MaxRows \in Nat
  BY MonitoringAssumption DEF TypeOK
<1>1. \A i \in Fresh : ks[i - next + 1] \in Keys
  <2> TAKE i \in Fresh
  <2>1. i - next + 1 \in 1 .. Len(ks)
    BY <1>0
  <2> QED BY <2>1
<1>2. key' \in [Rows -> Keys]
  BY <1>1 DEF InsertRows, TypeOK
<1>3. kind' \in [Rows -> Kinds]
  BY DEF InsertRows
<1>4. next' \in 1 .. MaxRows + 1 /\ next <= next'
  BY <1>0 DEF InsertRows, TypeOK
<1>5. \A i \in Rows : i < next => kind'[i] = was[i] /\ key'[i] = key[i]
  BY <1>0 DEF InsertRows, Rows
<1>6. \A i \in Rows : i >= next' => kind'[i] = was[i]
  BY <1>0 DEF InsertRows, Rows
<1> QED BY <1>2, <1>3, <1>4, <1>5, <1>6

\* A row of a service nobody had yet is one key long.
LEMMA OneKey ==
    ASSUME NEW k \in Keys
    PROVE  <<k>> \in Seq(Keys)
  OBVIOUS

\* A function on the first numbers is a sequence.
LEMMA FunctionIsSequence ==
    ASSUME NEW n \in Nat, NEW S, NEW T \in SUBSET S, NEW f \in [1 .. n -> T]
    PROVE  f \in Seq(S)
  OBVIOUS

\* The services a backup adds can be put in a sequence.
LEMMA BackupKeys ==
    ASSUME NEW backup \in Backups, NEW known,
           NEW ks \in [1 .. Cardinality(backup \ known) -> backup \ known]
    PROVE  ks \in Seq(Keys)
<1>1. Cardinality(backup \ known) \in Nat
  BY MonitoringAssumption, FS_Difference, FS_CardinalityType
<1>2. backup \ known \in SUBSET Keys
  BY MonitoringAssumption
<1> QED BY <1>1, <1>2, FunctionIsSequence

--------------------------------------------------------------------------------
(***************************************************************************)
(* Type correctness.  A callback is cancelled by decrementing timers, so    *)
(* the type needs the timer invariant: there is one when afterId says so.   *)
(***************************************************************************)
TypeInv == TypeOK /\ OneTimer

LEMMA TypeInit == Init => TypeInv
<1> SUFFICES ASSUME Init PROVE TypeInv
  OBVIOUS
<1>1. (CHOOSE k \in Keys : TRUE) \in Keys
  BY MonitoringAssumption
<1>2. kind \in [Rows -> Kinds] /\ key \in [Rows -> Keys] /\ measured \in [Rows -> Keys]
  BY <1>1 DEF Init, Kinds
<1>3. next \in 1 .. MaxRows + 1
  BY MonitoringAssumption DEF Init
<1>4. boxes \in Seq(Boxes)
  BY DEF Init
<1>5. hidden \in BOOLEAN
  BY MonitoringAssumption DEF Init
<1> QED BY <1>5, <1>2, <1>3, <1>4 DEF Init, TypeInv, TypeOK, OneTimer, Statuses

\* The table's actions.
LEMMA TypeTable ==
    ASSUME TypeInv,
           \/ \E k \in Keys : Add(k) \/ ApplyEdit(k) \/ ScanFinds(k)
           \/ \E i \in Rows : EditSelected(i) \/ Remove(i)
           \/ \E file \in Files : LoadList(file)
           \/ \E backup \in Backups, merge \in BOOLEAN : RestoreTargets(backup, merge)
    PROVE  TypeInv'
<1> USE DEF TypeInv
<1>1. ASSUME NEW k \in Keys, Add(k) PROVE TypeInv'
  <2>1. kind' \in [Rows -> Kinds] /\ key' \in [Rows -> Keys] /\ next' \in 1 .. MaxRows + 1
    <3>1. CASE InsertRows(kind, <<k>>, "configured")
      <4>1. kind \in [Rows -> Kinds] /\ "configured" \in Kinds
        BY DEF TypeOK, Kinds
      <4> QED BY <3>1, <4>1, OneKey, InsertRowsEffect
    <3>2. CASE UNCHANGED <<key, next>> /\ \E i \in Rows : kind' = [kind EXCEPT ![i] = "configured"]
      BY <3>2 DEF TypeOK, Kinds
    <3> QED BY <1>1, <3>1, <3>2 DEF Add, Existing, Holding, Configured, Scanned
  <2> QED BY <1>1, <2>1 DEF Add, TypeOK, OneTimer, status, cycle, refresh, window
<1>2. ASSUME NEW k \in Keys, ApplyEdit(k) PROVE TypeInv'
  BY <1>2 DEF ApplyEdit, Forget, TypeOK, OneTimer, cycle, refresh, window, Statuses
<1>3. ASSUME NEW k \in Keys, ScanFinds(k) PROVE TypeInv'
  <2>1. kind \in [Rows -> Kinds] /\ "scanned" \in Kinds
    BY DEF TypeOK, Kinds
  <2>2. kind' \in [Rows -> Kinds] /\ key' \in [Rows -> Keys] /\ next' \in 1 .. MaxRows + 1
    BY <1>3, <2>1, OneKey, InsertRowsEffect DEF ScanFinds
  <2> QED BY <1>3, <2>2 DEF ScanFinds, TypeOK, OneTimer, status, cycle, refresh, window
<1>4. ASSUME NEW i \in Rows, EditSelected(i) PROVE TypeInv'
  BY <1>4 DEF EditSelected, TypeOK, OneTimer, table, status, cycle, refresh, window
<1>5. ASSUME NEW i \in Rows, Remove(i) PROVE TypeInv'
  BY <1>5 DEF Remove, Forget, TypeOK, OneTimer, cycle, refresh, window, Statuses, Kinds
<1>6. ASSUME NEW file \in Files, LoadList(file) PROVE TypeInv'
  <2> DEFINE strays == [i \in Rows |-> CASE kind[i] = "configured" -> "none"
                                         [] kind[i] = "scanned" -> "stray"
                                         [] OTHER -> kind[i]]
  <2>1. strays \in [Rows -> Kinds] /\ "configured" \in Kinds
    BY DEF TypeOK, Kinds
  <2>2. file \in Seq(Keys) /\ InsertRows(strays, file, "configured")
    BY <1>6, MonitoringAssumption DEF LoadList
  <2> HIDE DEF strays
  <2>3. kind' \in [Rows -> Kinds] /\ key' \in [Rows -> Keys] /\ next' \in 1 .. MaxRows + 1
    BY <2>1, <2>2, InsertRowsEffect
  <2> QED BY <1>6, <2>3 DEF LoadList, Forget, TypeOK, OneTimer, cycle, refresh, window, Statuses
<1>7. ASSUME NEW backup \in Backups, NEW merge \in BOOLEAN, RestoreTargets(backup, merge)
      PROVE  TypeInv'
  <2> DEFINE removed == IF merge THEN {} ELSE {i \in Configured : key[i] \notin backup}
             kept == [i \in Rows |-> IF i \in removed THEN "none" ELSE kind[i]]
             fresh == backup \ KeysOf(Configured)
  <2>1. kept \in [Rows -> Kinds] /\ "configured" \in Kinds
    BY DEF TypeOK, Kinds
  <2>2. PICK ks \in [1 .. Cardinality(fresh) -> fresh] : InsertRows(kept, ks, "configured")
    BY <1>7 DEF RestoreTargets
  <2>3. ks \in Seq(Keys)
    BY <2>2, BackupKeys
  <2> HIDE DEF kept
  <2>4. kind' \in [Rows -> Kinds] /\ key' \in [Rows -> Keys] /\ next' \in 1 .. MaxRows + 1
    BY <2>1, <2>2, <2>3, InsertRowsEffect
  <2> QED BY <1>7, <2>4 DEF RestoreTargets, Forget, TypeOK, OneTimer, cycle, refresh, window,
                            Statuses
<1> QED BY <1>1, <1>2, <1>3, <1>4, <1>5, <1>6, <1>7

\* The checks a set of rows gives rise to.
LEMMA BeginType ==
    ASSUME TypeOK, NEW S \in SUBSET Rows, Begin(S)
    PROVE  checking' \in BOOLEAN /\ flight' \subseteq Checks /\ polls' \in Nat
  BY DEF Begin, TypeOK, Checks

\* The end of a cycle leaves one timer when Auto Refresh is on.
LEMMA FinishType ==
    ASSUME TypeInv, ~down, down' = down, Finish
    PROVE  /\ checking' \in BOOLEAN /\ flight' \subseteq Checks
           /\ auto' \in BOOLEAN /\ timers' \in Nat /\ afterId' \in BOOLEAN /\ OneTimer'
<1>1. checking' \in BOOLEAN /\ flight' \subseteq Checks /\ auto' \in BOOLEAN
  BY DEF Finish, TypeInv, TypeOK
<1>2. CASE auto /\ ~afterId
  <2>1. timers = 0 /\ timers' = timers + 1 /\ afterId' = TRUE
    BY <1>2 DEF Finish, Schedule, TypeInv, OneTimer
  <2> QED BY <1>1, <2>1 DEF OneTimer
<1>3. CASE ~(auto /\ ~afterId)
  <2>1. UNCHANGED <<timers, afterId>>
    BY <1>3 DEF Finish
  <2> QED BY <1>1, <2>1 DEF TypeInv, TypeOK, OneTimer
<1> QED BY <1>2, <1>3

\* auto_loop() runs when no other timer is left, and leaves one or a cycle.
LEMMA LoopType ==
    ASSUME TypeInv, ~down, down' = down, Loop(0)
    PROVE  /\ checking' \in BOOLEAN /\ flight' \subseteq Checks /\ polls' \in Nat
           /\ timers' \in Nat /\ afterId' \in BOOLEAN /\ OneTimer'
<1>1. CASE Schedule(0) /\ UNCHANGED cycle
  BY <1>1 DEF Schedule, TypeInv, TypeOK, OneTimer, cycle
<1>2. CASE Begin(Configured) /\ timers' = 0 /\ afterId' = FALSE
  <2>1. Configured \in SUBSET Rows
    BY DEF Configured
  <2> QED BY <1>2, <2>1, BeginType DEF TypeInv, OneTimer
<1> QED BY <1>1, <1>2 DEF Loop

\* Nothing is left of the timer once it fired or was cancelled.
LEMMA NoOtherTimer ==
    ASSUME TypeInv, ~down
    PROVE  Cancelled = 0 /\ (timers > 0 => timers - 1 = 0)
  BY DEF TypeInv, TypeOK, OneTimer, Cancelled

LEMMA TypeCycle ==
    ASSUME TypeInv,
           \/ \E S \in SUBSET Rows : CheckSelected(S)
           \/ CheckAll \/ PollStep \/ CloseCycleBox \/ StartAuto \/ StopAuto \/ TimerFires
    PROVE  TypeInv'
<1>1. ASSUME NEW S \in SUBSET Rows, CheckSelected(S) PROVE TypeInv'
  BY <1>1, BeginType DEF CheckSelected, TypeInv, TypeOK, OneTimer, table, status, refresh, window
<1>2. CASE CheckAll
  <2>1. Configured \in SUBSET Rows
    BY DEF Configured
  <2> QED BY <1>2, <2>1, BeginType DEF CheckAll, TypeInv, TypeOK, OneTimer, table, status,
          refresh, window
<1>3. ASSUME NEW online \in SUBSET Rows, NEW suppressed \in BOOLEAN, Poll(online, suppressed)
      PROVE  TypeInv'
  <2> DEFINE seen == {c.row : c \in Observed}
  <2>1. tracker' \in [Rows -> Statuses]
    BY <1>3 DEF Poll, TypeInv, TypeOK, Statuses
  <2>2. measured' \in [Rows -> Keys]
    <3>1. \A i \in Rows : i \in seen => (CHOOSE c \in Observed : c.row = i).key \in Keys
      <4> TAKE i \in Rows
      <4> HAVE i \in seen
      <4>1. \E c \in Observed : c.row = i
        OBVIOUS
      <4>2. (CHOOSE c \in Observed : c.row = i) \in Checks
        BY <4>1 DEF Observed, TypeInv, TypeOK
      <4> QED BY <4>2 DEF Checks
    <3>2. measured' = [i \in Rows |-> IF i \in seen THEN (CHOOSE c \in Observed : c.row = i).key
                                      ELSE measured[i]]
      BY <1>3 DEF Poll
    <3> HIDE DEF seen
    <3> QED BY <3>1, <3>2 DEF TypeInv, TypeOK
  <2>3. polls' \in Nat
    BY <1>3 DEF Poll, TypeInv, TypeOK
  <2>4. UNCHANGED <<table, scanning, editing, alertsOn, hidden, idle, down>>
    BY <1>3 DEF Poll
  <2>5. pending' \in BOOLEAN /\ boxes' \in Seq(Boxes)
    <3>1. boxes' = boxes \/ boxes' = Append(boxes, "cycle")
      BY <1>3 DEF Poll
    <3>2. boxes' \in Seq(Boxes)
      BY <3>1, AppendProperties DEF TypeInv, TypeOK, Boxes
    <3>3. pending' \in BOOLEAN
      BY <1>3, Zenon DEF Poll, TypeInv, TypeOK
    <3> QED BY <3>2, <3>3
  <2>6. /\ checking' \in BOOLEAN /\ flight' \subseteq Checks
        /\ auto' \in BOOLEAN /\ timers' \in Nat /\ afterId' \in BOOLEAN /\ OneTimer'
    <3>1. CASE UNCHANGED <<checking, flight, refresh>>
      BY <3>1, <2>4 DEF TypeInv, TypeOK, OneTimer, refresh
    <3>2. CASE Finish
      BY <1>3, <3>2, <2>4, FinishType DEF Poll
    <3> QED BY <1>3, <3>1, <3>2 DEF Poll
  <2> QED BY <2>1, <2>2, <2>3, <2>4, <2>5, <2>6 DEF TypeInv, TypeOK, table
<1>4. CASE CloseCycleBox
  <2>1. boxes' \in Seq(Boxes)
    BY <1>4, SubSeqProperties DEF CloseCycleBox, CloseInnermost, TypeInv, TypeOK
  <2> QED BY <1>4, <2>1, FinishType DEF CloseCycleBox, TypeInv, TypeOK, table, status
<1>5. CASE StartAuto
  <2>1. Loop(0) /\ ~down /\ down' = down
    BY <1>5, NoOtherTimer DEF StartAuto
  <2> QED BY <1>5, <2>1, LoopType DEF StartAuto, TypeInv, TypeOK, table, status, window
<1>6. CASE StopAuto
  <2>1. timers' = 0
    BY <1>6, NoOtherTimer DEF StopAuto
  <2>2. auto' \in BOOLEAN /\ afterId' \in BOOLEAN
    BY <1>6 DEF StopAuto
  <2>3. timers' \in Nat /\ OneTimer'
    BY <1>6, <2>1 DEF StopAuto, OneTimer
  <2>4. UNCHANGED <<table, status, cycle, scanning, editing, window, down>>
    BY <1>6 DEF StopAuto
  <2> QED BY <2>2, <2>3, <2>4 DEF TypeInv, TypeOK, table, status, cycle, window
<1>7. CASE TimerFires
  <2>1. CASE auto
    <3>1. Loop(0) /\ ~down /\ down' = down
      BY <1>7, <2>1, NoOtherTimer DEF TimerFires
    <3> QED BY <1>7, <3>1, LoopType DEF TimerFires, TypeInv, TypeOK, table, status, window
  <2>2. CASE ~auto
    <3>1. timers' = 0
      BY <1>7, <2>2, NoOtherTimer DEF TimerFires
    <3> QED BY <1>7, <2>2, <3>1 DEF TimerFires, TypeInv, TypeOK, OneTimer, table, status, cycle,
            window
  <2> QED BY <2>1, <2>2
<1> QED BY <1>1, <1>2, <1>3, <1>4, <1>5, <1>6, <1>7 DEF PollStep

LEMMA TypeWindow ==
    ASSUME TypeInv,
           \/ StartScan \/ EndScan \/ Hide \/ Restore \/ ShowDeferred
           \/ CloseDeferredBox \/ ToggleAlerts \/ Exit \/ UNCHANGED vars
    PROVE  TypeInv'
<1> USE DEF TypeInv, TypeOK, OneTimer, table, status, cycle, refresh, window
<1>1. CASE StartScan
  BY <1>1 DEF StartScan
<1>2. CASE EndScan
  BY <1>2 DEF EndScan
<1>3. CASE Hide
  BY <1>3 DEF Hide
<1>4. CASE Restore
  BY <1>4 DEF Restore
<1>5. CASE ShowDeferred
  <2>1. boxes' = boxes \/ boxes' = Append(boxes, "deferred")
    BY <1>5 DEF ShowDeferred
  <2>2. boxes' \in Seq(Boxes)
    BY <2>1, AppendProperties DEF Boxes
  <2> QED BY <1>5, <2>2 DEF ShowDeferred
<1>6. CASE CloseDeferredBox
  <2>1. boxes' \in Seq(Boxes)
    BY <1>6, SubSeqProperties DEF CloseDeferredBox, CloseInnermost
  <2> QED BY <1>6, <2>1 DEF CloseDeferredBox
<1>7. CASE ToggleAlerts
  BY <1>7 DEF ToggleAlerts
<1>8. CASE Exit
  <2>1. timers' = 0
    BY <1>8, NoOtherTimer DEF Exit
  <2>2. auto' = FALSE /\ down' = TRUE /\ hidden' = FALSE
    BY <1>8 DEF Exit
  <2>3. UNCHANGED <<table, status, cycle, afterId, scanning, editing, alertsOn, pending, idle, boxes>>
    BY <1>8 DEF Exit
  <2>4. timers' \in Nat /\ OneTimer'
    BY <2>1, <2>2
  <2>5. auto' \in BOOLEAN /\ down' \in BOOLEAN /\ hidden' \in BOOLEAN
    BY <2>2, Zenon
  <2> QED BY <2>3, <2>4, <2>5
<1>9. CASE UNCHANGED vars
  BY <1>9 DEF vars
<1> QED BY <1>1, <1>2, <1>3, <1>4, <1>5, <1>6, <1>7, <1>8, <1>9

LEMMA TypeStep == TypeInv /\ [Next]_vars => TypeInv'
  BY TypeTable, TypeCycle, TypeWindow DEF Next, User, Stopped

LEMMA TypeInvariant == Spec => []TypeInv
  BY TypeInit, TypeStep, PTL DEF Spec

\* Every variable of Monitoring keeps its type.
THEOREM MonitoringTypeCorrect == Spec => []TypeOK
  BY TypeInvariant, PTL DEF TypeInv

\* There is never a second Auto Refresh timer, and auto_after_id always names the
\* one there is, however Start, Stop, cycles, alert boxes and Exit interleave.
THEOREM OneTimerCorrect == Spec => []OneTimer
  BY TypeInvariant, PTL DEF TypeInv
--------------------------------------------------------------------------------
(***************************************************************************)
(* Every status is of the service its row names.  The argument needs that   *)
(* rows not yet inserted have no status: Tk never uses a row id again.      *)
(***************************************************************************)
FreshRowsBlank == \A i \in Rows : i >= next => kind[i] = "none" /\ tracker[i] = TCP_UNKNOWN

\* The inductive invariant of the tracker.
TrackInv == FreshRowsBlank /\ TrackedForCurrentKey /\ PromotionStartsUnknown

LEMMA TrackInit == Init => TrackInv
  BY DEF Init, TrackInv, FreshRowsBlank, TrackedForCurrentKey, PromotionStartsUnknown, Scanned

\* Rows of kind c inserted into a table whose kinds are was, when no row becomes a
\* scan result but the new ones, and the trackers of some rows are forgotten.
LEMMA TrackInsert ==
    ASSUME TypeOK, TrackInv,
           NEW was \in [Rows -> Kinds], NEW ks \in Seq(Keys), NEW c \in Kinds,
           InsertRows(was, ks, c),
           \A i \in Rows : /\ was[i] # "none" => kind[i] # "none"
                           /\ was[i] = "scanned" => kind[i] = "scanned",
           \A i \in Rows : tracker'[i] \in {TCP_UNKNOWN, tracker[i]},
           measured' = measured
    PROVE  TrackInv'
<1>1. /\ next' \in 1 .. MaxRows + 1 /\ next <= next' /\ next \in Nat /\ MaxRows \in Nat
      /\ \A i \in Rows : i < next => kind'[i] = was[i] /\ key'[i] = key[i]
      /\ \A i \in Rows : i >= next' => kind'[i] = was[i]
  BY InsertRowsEffect, MonitoringAssumption DEF TypeOK
<1>2. FreshRowsBlank'
  BY <1>1 DEF TrackInv, FreshRowsBlank, Rows
<1>3. ASSUME NEW i \in Rows, tracker'[i] # TCP_UNKNOWN
      PROVE  i < next /\ tracker'[i] = tracker[i]
  BY <1>1, <1>3 DEF TrackInv, FreshRowsBlank, Rows
<1>4. TrackedForCurrentKey'
  BY <1>1, <1>3 DEF TrackInv, TrackedForCurrentKey, InTree
<1>5. PromotionStartsUnknown'
  BY <1>1, <1>3 DEF TrackInv, PromotionStartsUnknown, Scanned
<1> QED BY <1>2, <1>4, <1>5 DEF TrackInv

LEMMA TrackTable ==
    ASSUME TypeOK, TrackInv,
           \/ \E k \in Keys : Add(k) \/ ApplyEdit(k) \/ ScanFinds(k)
           \/ \E i \in Rows : EditSelected(i) \/ Remove(i)
           \/ \E file \in Files : LoadList(file)
           \/ \E backup \in Backups, merge \in BOOLEAN : RestoreTargets(backup, merge)
    PROVE  TrackInv'
<1>0. kind \in [Rows -> Kinds] /\ "configured" \in Kinds /\ "scanned" \in Kinds
  BY DEF TypeOK, Kinds
<1>1. ASSUME NEW k \in Keys, Add(k) PROVE TrackInv'
  <2>1. tracker' = tracker /\ measured' = measured
    BY <1>1 DEF Add, status
  <2>2. CASE InsertRows(kind, <<k>>, "configured")
    BY <2>1, <2>2, <1>0, OneKey, TrackInsert
  <2>3. CASE /\ UNCHANGED <<key, next>>
             /\ \E i \in Rows : kind[i] = "scanned" /\ kind' = [kind EXCEPT ![i] = "configured"]
    BY <2>1, <2>3, <1>0
       DEF TrackInv, FreshRowsBlank, TrackedForCurrentKey, PromotionStartsUnknown, InTree, Scanned
  <2> QED BY <1>1, <2>2, <2>3 DEF Add, Existing, Holding, Configured, Scanned
<1>2. ASSUME NEW k \in Keys, ApplyEdit(k) PROVE TrackInv'
  BY <1>2, <1>0 DEF ApplyEdit, Forget, TypeOK,
       TrackInv, FreshRowsBlank, TrackedForCurrentKey, PromotionStartsUnknown, InTree, Scanned
<1>3. ASSUME NEW k \in Keys, ScanFinds(k) PROVE TrackInv'
  BY <1>3, <1>0, OneKey, TrackInsert DEF ScanFinds, status
<1>4. ASSUME NEW i \in Rows, EditSelected(i) PROVE TrackInv'
  BY <1>4 DEF EditSelected, table, status,
       TrackInv, FreshRowsBlank, TrackedForCurrentKey, PromotionStartsUnknown, InTree, Scanned
<1>5. ASSUME NEW i \in Rows, Remove(i) PROVE TrackInv'
  BY <1>5, <1>0 DEF Remove, Forget,
       TrackInv, FreshRowsBlank, TrackedForCurrentKey, PromotionStartsUnknown, InTree, Scanned
<1>6. ASSUME NEW file \in Files, LoadList(file) PROVE TrackInv'
  <2> DEFINE strays == [i \in Rows |-> CASE kind[i] = "configured" -> "none"
                                         [] kind[i] = "scanned" -> "stray"
                                         [] OTHER -> kind[i]]
  <2>1. strays \in [Rows -> Kinds]
    BY DEF TypeOK, Kinds
  <2>2. \A i \in Rows : /\ strays[i] # "none" => kind[i] # "none"
                        /\ strays[i] = "scanned" => kind[i] = "scanned"
    OBVIOUS
  <2>3. file \in Seq(Keys) /\ InsertRows(strays, file, "configured")
    BY <1>6, MonitoringAssumption DEF LoadList
  <2>4. measured' = measured /\ \A i \in Rows : tracker'[i] \in {TCP_UNKNOWN, tracker[i]}
    BY <1>6 DEF LoadList, Forget
  <2> HIDE DEF strays
  <2> QED BY <2>1, <2>2, <2>3, <2>4, <1>0, TrackInsert
<1>7. ASSUME NEW backup \in Backups, NEW merge \in BOOLEAN, RestoreTargets(backup, merge)
      PROVE  TrackInv'
  <2> DEFINE removed == IF merge THEN {} ELSE {i \in Configured : key[i] \notin backup}
             kept == [i \in Rows |-> IF i \in removed THEN "none" ELSE kind[i]]
             fresh == backup \ KeysOf(Configured)
  <2>1. kept \in [Rows -> Kinds]
    BY DEF TypeOK, Kinds
  <2>2. \A i \in Rows : /\ kept[i] # "none" => kind[i] # "none"
                        /\ kept[i] = "scanned" => kind[i] = "scanned"
    OBVIOUS
  <2>3. PICK ks \in [1 .. Cardinality(fresh) -> fresh] : InsertRows(kept, ks, "configured")
    BY <1>7 DEF RestoreTargets
  <2>4. ks \in Seq(Keys)
    BY <2>3, BackupKeys
  <2>5. measured' = measured /\ \A i \in Rows : tracker'[i] \in {TCP_UNKNOWN, tracker[i]}
    BY <1>7 DEF RestoreTargets, Forget
  <2> HIDE DEF kept
  <2> QED BY <2>1, <2>2, <2>3, <2>4, <2>5, <1>0, TrackInsert
<1> QED BY <1>1, <1>2, <1>3, <1>4, <1>5, <1>6, <1>7

\* A cycle's results: each is of the service captured when the cycle began, and it
\* is dropped unless its row still names that service.
LEMMA TrackPoll ==
    ASSUME TypeOK, TrackInv, NEW online \in SUBSET Rows, NEW suppressed \in BOOLEAN,
           Poll(online, suppressed)
    PROVE  TrackInv'
<1> DEFINE seen == {c.row : c \in Observed}
<1>1. \A i \in Rows : i \notin seen => tracker'[i] = tracker[i] /\ measured'[i] = measured[i]
  BY DEF Poll
<1>2. UNCHANGED <<kind, key, next>>
  BY DEF Poll, table
<1>3. \A i \in Rows : i \in seen => /\ measured'[i] = key[i]
                                    /\ kind[i] # "none" /\ kind[i] # "scanned"
  <2> TAKE i \in Rows
  <2> HAVE i \in seen
  <2> DEFINE d == CHOOSE c \in Observed : c.row = i
  <2>1. d \in Observed /\ d.row = i
    OBVIOUS
  <2>2. kind[i] # "none" /\ key[i] = d.key /\ kind[i] # "scanned"
    BY <2>1 DEF Observed, Applies
  <2>3. measured'[i] = d.key
    BY DEF Poll
  <2> QED BY <2>2, <2>3
<1> HIDE DEF seen
<1>4. FreshRowsBlank'
  BY <1>1, <1>2, <1>3 DEF TrackInv, FreshRowsBlank
<1>5. TrackedForCurrentKey'
  BY <1>1, <1>2, <1>3 DEF TrackInv, TrackedForCurrentKey, InTree
<1>6. PromotionStartsUnknown'
  BY <1>1, <1>2, <1>3 DEF TrackInv, PromotionStartsUnknown, Scanned
<1> QED BY <1>4, <1>5, <1>6 DEF TrackInv

LEMMA TrackStep == TypeOK /\ TrackInv /\ [Next]_vars => TrackInv'
<1> SUFFICES ASSUME TypeOK, TrackInv, [Next]_vars PROVE TrackInv'
  OBVIOUS
<1>1. ASSUME UNCHANGED <<table, status>> PROVE TrackInv'
  BY <1>1 DEF table, status,
       TrackInv, FreshRowsBlank, TrackedForCurrentKey, PromotionStartsUnknown, InTree, Scanned
<1>2. ASSUME NEW S \in SUBSET Rows, CheckSelected(S) PROVE TrackInv'
  BY <1>1, <1>2 DEF CheckSelected
<1>3. CASE CheckAll \/ CloseCycleBox \/ StartAuto \/ StopAuto \/ TimerFires
  BY <1>1, <1>3 DEF CheckAll, CloseCycleBox, StartAuto, StopAuto, TimerFires
<1>4. CASE StartScan \/ EndScan \/ Hide \/ Restore \/ ShowDeferred
  BY <1>1, <1>4 DEF StartScan, EndScan, Hide, Restore, ShowDeferred
<1>5. CASE CloseDeferredBox \/ ToggleAlerts \/ Exit
  BY <1>1, <1>5 DEF CloseDeferredBox, ToggleAlerts, Exit
<1>6. CASE UNCHANGED vars
  BY <1>1, <1>6 DEF vars, table, status
<1>7. CASE PollStep
  BY <1>7, TrackPoll DEF PollStep
<1> QED BY <1>2, <1>3, <1>4, <1>5, <1>6, <1>7, TrackTable DEF Next, User, Stopped

\* A status is compared only with one of the same service: whatever is edited,
\* removed, loaded or restored while checks are in flight, update_row_status()
\* gives no row the result of another service.
THEOREM StatusIsOfCurrentKey == Spec => []TrackedForCurrentKey
<1>1. Spec => []TrackInv
  BY MonitoringTypeCorrect, TrackInit, TrackStep, PTL DEF Spec
<1> QED BY <1>1, PTL DEF TrackInv

\* A scan result has no status until it is promoted and checked, so its first check
\* makes a baseline and no alert.
THEOREM PromotionIsBaseline == Spec => []PromotionStartsUnknown
<1>1. Spec => []TrackInv
  BY MonitoringTypeCorrect, TrackInit, TrackStep, PTL DEF Spec
<1> QED BY <1>1, PTL DEF TrackInv

--------------------------------------------------------------------------------
(***************************************************************************)
(* Scans, checks and Auto Refresh.                                          *)
(***************************************************************************)
LEMMA ExcludesStep == ScanExcludesCheck /\ [Next]_vars => ScanExcludesCheck'
<1> SUFFICES ASSUME ScanExcludesCheck, [Next]_vars PROVE ScanExcludesCheck'
  OBVIOUS
<1> USE DEF ScanExcludesCheck
<1>1. ASSUME UNCHANGED <<scanning, checking, auto>> PROVE ScanExcludesCheck'
  BY <1>1
<1>2. ASSUME NEW k \in Keys, Add(k) \/ ApplyEdit(k) \/ ScanFinds(k) PROVE ScanExcludesCheck'
  BY <1>1, <1>2 DEF Add, ApplyEdit, ScanFinds, cycle, refresh
<1>3. ASSUME NEW i \in Rows, EditSelected(i) \/ Remove(i) PROVE ScanExcludesCheck'
  BY <1>1, <1>3 DEF EditSelected, Remove, cycle, refresh
<1>4. ASSUME NEW file \in Files, LoadList(file) PROVE ScanExcludesCheck'
  BY <1>1, <1>4 DEF LoadList, cycle, refresh
<1>5. ASSUME NEW backup \in Backups, NEW merge \in BOOLEAN, RestoreTargets(backup, merge)
      PROVE  ScanExcludesCheck'
  BY <1>1, <1>5 DEF RestoreTargets, cycle, refresh
<1>6. ASSUME NEW S \in SUBSET Rows, CheckSelected(S) PROVE ScanExcludesCheck'
  BY <1>6 DEF CheckSelected, MayBegin
<1>7. CASE CheckAll
  BY <1>7 DEF CheckAll, MayBegin
<1>8. CASE StartAuto \/ StopAuto
  BY <1>8 DEF StartAuto, StopAuto, cycle
<1>9. CASE TimerFires
  BY <1>9 DEF TimerFires, Loop, MayBegin, cycle
<1>10. CASE StartScan \/ EndScan
  BY <1>10 DEF StartScan, EndScan, cycle, refresh
<1>11. CASE PollStep \/ CloseCycleBox
  BY <1>11 DEF PollStep, Poll, CloseCycleBox, Finish, refresh
<1>12. CASE Hide \/ Restore \/ ShowDeferred \/ CloseDeferredBox \/ ToggleAlerts
  BY <1>1, <1>12 DEF Hide, Restore, ShowDeferred, CloseDeferredBox, ToggleAlerts, cycle, refresh
<1>13. CASE Exit
  BY <1>13 DEF Exit, cycle
<1>14. CASE UNCHANGED vars
  BY <1>1, <1>14 DEF vars
<1> QED BY <1>2, <1>3, <1>4, <1>5, <1>6, <1>7, <1>8, <1>9, <1>10, <1>11, <1>12, <1>13, <1>14
        DEF Next, User, Stopped

\* No check and no Auto Refresh goes on during a range scan: the guards of
\* start_check_cycle(), start_auto() and start_range_scan() suffice together, though
\* the tray starts the first two at any moment.
THEOREM ScansExcludeChecks == Spec => []ScanExcludesCheck
<1>1. Init => ScanExcludesCheck
  BY DEF Init, ScanExcludesCheck
<1> QED BY <1>1, ExcludesStep, PTL DEF Spec

--------------------------------------------------------------------------------
(***************************************************************************)
(* Auto Refresh that is on goes on, and one cycle runs at a time.           *)
(***************************************************************************)
LEMMA GoesOnStep == TypeInv /\ AutoKeepsGoing /\ [Next]_vars => AutoKeepsGoing'
<1> SUFFICES ASSUME TypeInv, AutoKeepsGoing, [Next]_vars PROVE AutoKeepsGoing'
  OBVIOUS
<1> USE DEF AutoKeepsGoing
<1>1. ASSUME UNCHANGED refresh, checking => checking' PROVE AutoKeepsGoing'
  BY <1>1 DEF refresh
<1>2. ASSUME NEW k \in Keys, Add(k) \/ ApplyEdit(k) \/ ScanFinds(k) PROVE AutoKeepsGoing'
  BY <1>1, <1>2 DEF Add, ApplyEdit, ScanFinds, cycle
<1>3. ASSUME NEW i \in Rows, EditSelected(i) \/ Remove(i) PROVE AutoKeepsGoing'
  BY <1>1, <1>3 DEF EditSelected, Remove, cycle
<1>4. ASSUME NEW file \in Files, LoadList(file) PROVE AutoKeepsGoing'
  BY <1>1, <1>4 DEF LoadList, cycle
<1>5. ASSUME NEW backup \in Backups, NEW merge \in BOOLEAN, RestoreTargets(backup, merge)
      PROVE  AutoKeepsGoing'
  BY <1>1, <1>5 DEF RestoreTargets, cycle
<1>6. ASSUME NEW S \in SUBSET Rows, CheckSelected(S) \/ CheckAll PROVE AutoKeepsGoing'
  BY <1>1, <1>6 DEF CheckSelected, CheckAll, Begin
<1>7. ASSUME ~down, Finish PROVE AutoKeepsGoing'
  BY <1>7 DEF Finish, Schedule, TypeInv, OneTimer
<1>8. CASE PollStep
  BY <1>1, <1>7, <1>8 DEF PollStep, Poll
<1>9. CASE CloseCycleBox
  BY <1>7, <1>9 DEF CloseCycleBox
<1>10. ASSUME Loop(0) PROVE AutoKeepsGoing'
  BY <1>10 DEF Loop, Schedule, Begin
<1>11. CASE StartAuto
  BY <1>10, <1>11, NoOtherTimer DEF StartAuto
<1>12. CASE StopAuto
  BY <1>12 DEF StopAuto
<1>13. CASE TimerFires
  <2>1. CASE auto
    BY <1>10, <1>13, <2>1, NoOtherTimer DEF TimerFires
  <2>2. CASE ~auto
    BY <1>13, <2>2 DEF TimerFires
  <2> QED BY <2>1, <2>2
<1>14. CASE StartScan \/ EndScan \/ Hide \/ Restore \/ ShowDeferred \/ CloseDeferredBox \/ ToggleAlerts
  BY <1>1, <1>14 DEF StartScan, EndScan, Hide, Restore, ShowDeferred, CloseDeferredBox,
                     ToggleAlerts, cycle
<1>15. CASE Exit
  BY <1>15 DEF Exit
<1>16. CASE UNCHANGED vars
  BY <1>1, <1>16 DEF vars, refresh
<1> QED BY <1>2, <1>3, <1>4, <1>5, <1>6, <1>8, <1>9, <1>11, <1>12, <1>13, <1>14, <1>15, <1>16
        DEF Next, User, Stopped

\* Auto Refresh is never on without a timer or a cycle whose end will set one.
THEOREM AutoRefreshGoesOn == Spec => []AutoKeepsGoing
<1>1. Init => AutoKeepsGoing
  BY DEF Init, AutoKeepsGoing
<1> QED BY <1>1, GoesOnStep, TypeInvariant, PTL DEF Spec

\* The boxes of a cycle among the modal dialogs s.
CyclesIn(s) == {n \in DOMAIN s : s[n] = "cycle"}

\* Opening and closing a box counts, or not.
LEMMA CyclesCount ==
    ASSUME NEW s \in Seq(Boxes)
    PROVE  /\ IsFiniteSet(CyclesIn(s)) /\ Cardinality(CyclesIn(s)) \in Nat
           /\ Cardinality(CyclesIn(Append(s, "cycle"))) = Cardinality(CyclesIn(s)) + 1
           /\ Cardinality(CyclesIn(Append(s, "deferred"))) = Cardinality(CyclesIn(s))
           /\ s # << >> =>
                Cardinality(CyclesIn(SubSeq(s, 1, Len(s) - 1)))
                  = IF s[Len(s)] = "cycle" THEN Cardinality(CyclesIn(s)) - 1
                    ELSE Cardinality(CyclesIn(s))
<1>1. IsFiniteSet(CyclesIn(s)) /\ Cardinality(CyclesIn(s)) \in Nat
  <2>1. CyclesIn(s) \in SUBSET (1 .. Len(s)) /\ Len(s) \in Int
    BY DEF CyclesIn
  <2>2. IsFiniteSet(1 .. Len(s))
    BY <2>1, FS_Interval
  <2>3. IsFiniteSet(CyclesIn(s))
    BY <2>1, <2>2, FS_Subset
  <2> QED BY <2>3, FS_CardinalityType
<1>2. Cardinality(CyclesIn(Append(s, "cycle"))) = Cardinality(CyclesIn(s)) + 1
  <2>1. CyclesIn(Append(s, "cycle")) = CyclesIn(s) \union {Len(s) + 1}
    BY DEF CyclesIn
  <2>2. Len(s) + 1 \notin CyclesIn(s)
    BY DEF CyclesIn
  <2> QED BY <1>1, <2>1, <2>2, FS_AddElement
<1>3. CyclesIn(Append(s, "deferred")) = CyclesIn(s)
  BY DEF CyclesIn
<1>4. ASSUME s # << >>
      PROVE  Cardinality(CyclesIn(SubSeq(s, 1, Len(s) - 1)))
               = IF s[Len(s)] = "cycle" THEN Cardinality(CyclesIn(s)) - 1
                 ELSE Cardinality(CyclesIn(s))
  <2>1. CyclesIn(SubSeq(s, 1, Len(s) - 1)) = CyclesIn(s) \ {Len(s)}
    BY <1>4 DEF CyclesIn
  <2>2. Len(s) \in CyclesIn(s) <=> s[Len(s)] = "cycle"
    BY <1>4 DEF CyclesIn
  <2> QED BY <1>1, <2>1, <2>2, FS_RemoveElement
<1> QED BY <1>1, <1>2, <1>3, <1>4

LEMMA OneCycleStep == TypeOK /\ OneCycle /\ [Next]_vars => OneCycle'
<1> SUFFICES ASSUME TypeOK, OneCycle, [Next]_vars PROVE OneCycle'
  OBVIOUS
<1>0. /\ CycleBoxes = Cardinality(CyclesIn(boxes)) /\ CycleBoxes' = Cardinality(CyclesIn(boxes'))
      /\ CycleBoxes \in Nat /\ polls \in Nat
  BY CyclesCount DEF CycleBoxes, CyclesIn, TypeOK
<1>1. ASSUME UNCHANGED <<checking, polls>>, CycleBoxes' = CycleBoxes PROVE OneCycle'
  BY <1>1 DEF OneCycle
<1>2. ASSUME UNCHANGED <<checking, polls, boxes>> PROVE OneCycle'
  BY <1>0, <1>1, <1>2
<1>3. ASSUME NEW S, MayBegin(S), Begin(S), boxes' = boxes PROVE OneCycle'
  BY <1>0, <1>3 DEF MayBegin, Begin, OneCycle
<1>4. ASSUME NEW k \in Keys, Add(k) \/ ApplyEdit(k) \/ ScanFinds(k) PROVE OneCycle'
  BY <1>2, <1>4 DEF Add, ApplyEdit, ScanFinds, cycle, window
<1>5. ASSUME NEW i \in Rows, EditSelected(i) \/ Remove(i) PROVE OneCycle'
  BY <1>2, <1>5 DEF EditSelected, Remove, cycle, window
<1>6. ASSUME NEW file \in Files, LoadList(file) PROVE OneCycle'
  BY <1>2, <1>6 DEF LoadList, cycle, window
<1>7. ASSUME NEW backup \in Backups, NEW merge \in BOOLEAN, RestoreTargets(backup, merge)
      PROVE  OneCycle'
  BY <1>2, <1>7 DEF RestoreTargets, cycle, window
<1>8. ASSUME NEW S \in SUBSET Rows, CheckSelected(S) \/ CheckAll PROVE OneCycle'
  BY <1>3, <1>8 DEF CheckSelected, CheckAll, window
<1>9. ASSUME NEW n, Loop(n), boxes' = boxes PROVE OneCycle'
  BY <1>2, <1>3, <1>9 DEF Loop, cycle
<1>10. CASE StartAuto \/ TimerFires
  BY <1>2, <1>9, <1>10 DEF StartAuto, TimerFires, window, cycle
<1>11. CASE StopAuto \/ StartScan \/ EndScan \/ Hide \/ Restore \/ ToggleAlerts \/ Exit
  BY <1>2, <1>11 DEF StopAuto, StartScan, EndScan, Hide, Restore, ToggleAlerts, Exit, cycle,
                     window
<1>12. ASSUME NEW online \in SUBSET Rows, NEW suppressed \in BOOLEAN, Poll(online, suppressed)
       PROVE  OneCycle'
  <2>1. polls > 0 /\ polls' = polls - 1
    BY <1>12 DEF Poll
  <2>2. CASE boxes' = Append(boxes, "cycle") /\ UNCHANGED checking
    <3>1. CycleBoxes' = CycleBoxes + 1
      BY <1>0, <2>2, CyclesCount DEF TypeOK
    <3> QED BY <1>0, <2>1, <2>2, <3>1 DEF OneCycle
  <2>3. CASE Finish /\ UNCHANGED boxes
    <3>1. polls = 1 /\ CycleBoxes = 0
      BY <1>0, <2>1 DEF OneCycle
    <3>2. CycleBoxes' = 0 /\ checking' = FALSE
      BY <1>0, <2>3, <3>1 DEF Finish
    <3> QED BY <2>1, <3>1, <3>2 DEF OneCycle
  <2> QED BY <1>12, <2>2, <2>3 DEF Poll
<1>13. CASE CloseCycleBox
  <2>1. boxes # << >> /\ boxes[Len(boxes)] = "cycle" /\ boxes' = SubSeq(boxes, 1, Len(boxes) - 1)
    BY <1>13 DEF CloseCycleBox, CloseInnermost, Innermost
  <2>2. CycleBoxes' = CycleBoxes - 1 /\ CycleBoxes' \in Nat
    <3>1. boxes' \in Seq(Boxes)
      BY <2>1, SubSeqProperties DEF TypeOK
    <3> QED BY <1>0, <2>1, <3>1, CyclesCount DEF TypeOK
  <2>3. polls' = polls /\ checking' = FALSE
    BY <1>13 DEF CloseCycleBox, Finish
  <2> QED BY <1>0, <2>2, <2>3 DEF OneCycle
<1>14. CASE ShowDeferred
  <2>1. boxes' = boxes \/ boxes' = Append(boxes, "deferred")
    BY <1>14 DEF ShowDeferred
  <2>2. CycleBoxes' = CycleBoxes
    BY <1>0, <2>1, CyclesCount DEF TypeOK
  <2> QED BY <1>1, <1>14, <2>2 DEF ShowDeferred, cycle
<1>15. CASE CloseDeferredBox
  <2>1. /\ boxes # << >> /\ boxes[Len(boxes)] # "cycle"
        /\ boxes' = SubSeq(boxes, 1, Len(boxes) - 1)
    BY <1>15 DEF CloseDeferredBox, CloseInnermost, Innermost
  <2>2. CycleBoxes' = CycleBoxes
    BY <1>0, <2>1, CyclesCount DEF TypeOK
  <2> QED BY <1>1, <1>15, <2>2 DEF CloseDeferredBox, cycle
<1>16. CASE UNCHANGED vars
  BY <1>2, <1>16 DEF vars
<1> QED BY <1>4, <1>5, <1>6, <1>7, <1>8, <1>10, <1>11, <1>12, <1>13, <1>14, <1>15, <1>16
        DEF Next, User, PollStep, Stopped

\* One check cycle runs at a time, from the window or from the tray: while one is in
\* progress there is one poll of it, or the alert box its poll waits for.
THEOREM OneCycleAtATime == Spec => []OneCycle
<1>1. Init => OneCycle
  <2> SUFFICES ASSUME Init PROVE OneCycle
    OBVIOUS
  <2>1. {n \in DOMAIN boxes : boxes[n] = "cycle"} = {}
    BY DEF Init
  <2>2. CycleBoxes = 0
    BY <2>1, FS_EmptySet DEF CycleBoxes
  <2> QED BY <2>2 DEF Init, OneCycle
<1> QED BY <1>1, OneCycleStep, MonitoringTypeCorrect, PTL DEF Spec

--------------------------------------------------------------------------------
(***************************************************************************)
(* Alerts, and the services of the configured targets.                      *)
(***************************************************************************)
LEMMA PendingStep == NoAlertLeftBehind /\ [Next]_vars => NoAlertLeftBehind'
<1> SUFFICES ASSUME NoAlertLeftBehind, [Next]_vars PROVE NoAlertLeftBehind'
  OBVIOUS
<1> USE DEF NoAlertLeftBehind
<1>1. ASSUME UNCHANGED <<pending, hidden, down>> PROVE NoAlertLeftBehind'
  BY <1>1
<1>2. ASSUME NEW k \in Keys, Add(k) \/ ApplyEdit(k) \/ ScanFinds(k) PROVE NoAlertLeftBehind'
  BY <1>1, <1>2 DEF Add, ApplyEdit, ScanFinds, window
<1>3. ASSUME NEW i \in Rows, EditSelected(i) \/ Remove(i) PROVE NoAlertLeftBehind'
  BY <1>1, <1>3 DEF EditSelected, Remove, window
<1>4. ASSUME NEW file \in Files, LoadList(file) PROVE NoAlertLeftBehind'
  BY <1>1, <1>4 DEF LoadList, window
<1>5. ASSUME NEW backup \in Backups, NEW merge \in BOOLEAN, RestoreTargets(backup, merge)
      PROVE  NoAlertLeftBehind'
  BY <1>1, <1>5 DEF RestoreTargets, window
<1>6. ASSUME NEW S \in SUBSET Rows, CheckSelected(S) PROVE NoAlertLeftBehind'
  BY <1>1, <1>6 DEF CheckSelected, window
<1>7. CASE CheckAll \/ StartAuto \/ StopAuto \/ TimerFires \/ StartScan \/ EndScan
  BY <1>1, <1>7 DEF CheckAll, StartAuto, StopAuto, TimerFires, StartScan, EndScan, window
<1>8. ASSUME NEW online \in SUBSET Rows, NEW suppressed \in BOOLEAN, Poll(online, suppressed)
      PROVE  NoAlertLeftBehind'
  BY <1>8 DEF Poll, Interrupts
<1>9. CASE CloseCycleBox \/ ShowDeferred \/ CloseDeferredBox \/ ToggleAlerts
  BY <1>1, <1>9 DEF CloseCycleBox, ShowDeferred, CloseDeferredBox, ToggleAlerts
<1>10. CASE Hide \/ Restore \/ Exit
  BY <1>10 DEF Hide, Restore, Exit
<1>11. CASE UNCHANGED vars
  BY <1>1, <1>11 DEF vars
<1> QED BY <1>2, <1>3, <1>4, <1>5, <1>6, <1>7, <1>8, <1>9, <1>10, <1>11
        DEF Next, User, PollStep, Stopped

\* Alerts are set aside only while the window is hidden, and whatever shows it again
\* takes all of them, though a cycle may end and defer more at any moment.
THEOREM AlertsAreShown == Spec => []NoAlertLeftBehind
<1>1. Init => NoAlertLeftBehind
  BY DEF Init, NoAlertLeftBehind
<1> QED BY <1>1, PendingStep, PTL DEF Spec

--------------------------------------------------------------------------------
Injective(ks) == \A m, n \in 1 .. Len(ks) : m # n => ks[m] # ks[n]

\* load_host_list() adds every entry of its file, and looks for no duplicates.
ListsWithoutDuplicates == \A file \in Files : Injective(file)

\* Rows are inserted into a table whose configured rows have different services,
\* and bring services that none of them has.
LEMMA UniqueInsert ==
    ASSUME TypeOK, NEW was \in [Rows -> Kinds], NEW ks \in Seq(Keys), NEW c \in Kinds,
           InsertRows(was, ks, c),
           \A i, j \in Rows : was[i] = "configured" /\ was[j] = "configured" /\ i # j =>
               key[i] # key[j],
           c = "configured" =>
               /\ Injective(ks)
               /\ \A i \in Rows : was[i] = "configured" => \A n \in 1 .. Len(ks) : ks[n] # key[i]
    PROVE  UniqueTargets'
<1> DEFINE Fresh == next .. next + Len(ks) - 1
<1>0. Len(ks) \in Nat /\ next \in Nat /\ Rows \subseteq Nat
  BY DEF TypeOK, Rows
<1>1. \A i \in Rows : /\ i \in Fresh => kind'[i] = c /\ key'[i] = ks[i - next + 1]
                      /\ i \notin Fresh => kind'[i] = was[i] /\ key'[i] = key[i]
  BY DEF InsertRows
<1>2. \A i \in Fresh : i - next + 1 \in 1 .. Len(ks)
  BY <1>0
<1>3. \A i, j \in Fresh : i # j => i - next + 1 # j - next + 1
  BY <1>0
<1> HIDE DEF Fresh
<1> SUFFICES ASSUME NEW i \in Rows, NEW j \in Rows, kind'[i] = "configured",
                    kind'[j] = "configured", i # j
             PROVE  key'[i] # key'[j]
  BY DEF UniqueTargets, Unique, Configured
<1>4. CASE i \in Fresh /\ j \in Fresh
  BY <1>1, <1>2, <1>3, <1>4 DEF Injective
<1>5. CASE i \in Fresh /\ j \notin Fresh
  BY <1>1, <1>2, <1>5
<1>6. CASE i \notin Fresh /\ j \in Fresh
  BY <1>1, <1>2, <1>6
<1>7. CASE i \notin Fresh /\ j \notin Fresh
  BY <1>1, <1>7
<1> QED BY <1>4, <1>5, <1>6, <1>7

\* The services a backup adds are added once each.
LEMMA BackupOnce ==
    ASSUME NEW backup \in Backups, NEW known,
           NEW ks \in [1 .. Cardinality(backup \ known) -> backup \ known],
           {ks[n] : n \in DOMAIN ks} = backup \ known
    PROVE  Injective(ks) /\ Len(ks) = Cardinality(backup \ known)
<1> DEFINE fresh == backup \ known
           N == Cardinality(fresh)
<1>1. IsFiniteSet(fresh) /\ N \in Nat
  BY MonitoringAssumption, FS_Difference, FS_CardinalityType
<1>2. IsFiniteSet(1 .. N) /\ Cardinality(1 .. N) = N
  BY <1>1, FS_Interval
<1> HIDE DEF N
<1>3. ks \in Surjection(1 .. N, fresh)
  BY DEF Surjection, N
<1>4. ks \in Injection(1 .. N, fresh)
  BY <1>1, <1>2, <1>3, FS_SurjSameCardinalityImpliesInj DEF N
<1>5. Len(ks) = N
  BY <1>1, <1>4 DEF Injection
<1>6. Injective(ks)
  BY <1>4, <1>5 DEF Injection, IsInjective, Injective
<1>7. Len(ks) = Cardinality(fresh)
  BY <1>5 DEF N
<1> QED BY <1>6, <1>7

LEMMA UniqueStep ==
    ASSUME ListsWithoutDuplicates, TypeOK, UniqueTargets, [Next]_vars
    PROVE  UniqueTargets'
<1> USE DEF UniqueTargets, Unique, Configured
<1>0. kind \in [Rows -> Kinds] /\ key \in [Rows -> Keys] /\ "configured" \in Kinds /\ "scanned" \in Kinds
      /\ NoRow \notin Rows
  BY DEF TypeOK, Kinds, NoRow, Rows
<1>1. ASSUME UNCHANGED <<kind, key>> PROVE UniqueTargets'
  BY <1>1
<1>2. ASSUME NEW k \in Keys, Existing(k, NoRow) = {}
      PROVE  \A i \in Rows : kind[i] = "configured" => key[i] # k
  BY <1>0, <1>2 DEF Existing, Holding
<1>3. ASSUME NEW k \in Keys, Add(k) PROVE UniqueTargets'
  <2>1. CASE Existing(k, NoRow) = {} /\ InsertRows(kind, <<k>>, "configured")
    <3>1. Injective(<<k>>) /\ Len(<<k>>) = 1 /\ <<k>>[1] = k
      BY DEF Injective
    <3>2. \A i \in Rows : kind[i] = "configured" => \A n \in 1 .. Len(<<k>>) : <<k>>[n] # key[i]
      BY <1>2, <2>1, <3>1
    <3> QED BY <1>0, <2>1, <3>1, <3>2, OneKey, UniqueInsert
  <2>2. CASE /\ \E i \in Existing(k, NoRow) :
                    kind[i] = "scanned" /\ kind' = [kind EXCEPT ![i] = "configured"]
             /\ key' = key
    <3>1. PICK i \in Existing(k, NoRow) :
                    kind[i] = "scanned" /\ kind' = [kind EXCEPT ![i] = "configured"]
      BY <2>2
    <3>2. i \in Rows /\ key[i] = k /\ \A j \in Rows : kind[j] = "configured" => key[j] # k
      BY <1>0, <3>1 DEF Existing, Holding, Scanned
    <3> QED BY <1>0, <2>2, <3>1, <3>2
  <2> QED BY <1>3, <2>1, <2>2 DEF Add
<1>4. ASSUME NEW k \in Keys, ApplyEdit(k) PROVE UniqueTargets'
  <2>1. editing \in Rows /\ kind' = kind /\ key' = [key EXCEPT ![editing] = k]
    BY <1>4 DEF ApplyEdit, TypeOK
  <2>2. \A j \in Rows : kind[j] = "configured" /\ j # editing => key[j] # k
    BY <1>4 DEF ApplyEdit, Existing, Holding
  <2> QED BY <1>0, <2>1, <2>2
<1>5. ASSUME NEW k \in Keys, ScanFinds(k) PROVE UniqueTargets'
  <2>1. InsertRows(kind, <<k>>, "scanned") /\ "scanned" # "configured"
    BY <1>5 DEF ScanFinds
  <2> QED BY <1>0, <2>1, OneKey, UniqueInsert
<1>6. ASSUME NEW i \in Rows, EditSelected(i) PROVE UniqueTargets'
  BY <1>1, <1>6 DEF EditSelected, table
<1>7. ASSUME NEW i \in Rows, Remove(i) PROVE UniqueTargets'
  BY <1>0, <1>7 DEF Remove
<1>8. ASSUME NEW file \in Files, LoadList(file) PROVE UniqueTargets'
  <2> DEFINE strays == [i \in Rows |-> CASE kind[i] = "configured" -> "none"
                                         [] kind[i] = "scanned" -> "stray"
                                         [] OTHER -> kind[i]]
  <2>1. strays \in [Rows -> Kinds]
    BY DEF TypeOK, Kinds
  <2>2. \A i \in Rows : strays[i] # "configured"
    OBVIOUS
  <2>3. file \in Seq(Keys) /\ InsertRows(strays, file, "configured") /\ Injective(file)
    BY <1>8, MonitoringAssumption DEF LoadList, ListsWithoutDuplicates
  <2> HIDE DEF strays
  <2> QED BY <1>0, <2>1, <2>2, <2>3, UniqueInsert
<1>9. ASSUME NEW backup \in Backups, NEW merge \in BOOLEAN, RestoreTargets(backup, merge)
      PROVE  UniqueTargets'
  <2> DEFINE removed == IF merge THEN {} ELSE {i \in Configured : key[i] \notin backup}
             kept == [i \in Rows |-> IF i \in removed THEN "none" ELSE kind[i]]
             known == KeysOf(Configured)
             fresh == backup \ known
  <2>1. kept \in [Rows -> Kinds] /\ \A i \in Rows : kept[i] = "configured" => kind[i] = "configured"
    BY DEF TypeOK, Kinds
  <2>2. PICK ks \in [1 .. Cardinality(fresh) -> fresh] :
            {ks[n] : n \in DOMAIN ks} = fresh /\ InsertRows(kept, ks, "configured")
    BY <1>9 DEF RestoreTargets
  <2> HIDE DEF kept
  <2>3. \A i \in Rows : kind[i] = "configured" => key[i] \in known
    BY DEF KeysOf
  <2> HIDE DEF known
  <2>4. ks \in Seq(Keys) /\ Injective(ks) /\ Len(ks) = Cardinality(fresh)
    BY <2>2, BackupKeys, BackupOnce
  <2>5. \A i \in Rows : kept[i] = "configured" => \A n \in 1 .. Len(ks) : ks[n] # key[i]
    BY <2>1, <2>2, <2>3, <2>4
  <2>6. \A i, j \in Rows : kept[i] = "configured" /\ kept[j] = "configured" /\ i # j => key[i] # key[j]
    BY <2>1
  <2> QED BY <1>0, <2>1, <2>2, <2>4, <2>5, <2>6, UniqueInsert
<1>10. ASSUME NEW S \in SUBSET Rows, CheckSelected(S) PROVE UniqueTargets'
  BY <1>1, <1>10 DEF CheckSelected, table
<1>11. CASE CheckAll \/ CloseCycleBox \/ StartAuto \/ StopAuto \/ TimerFires
  BY <1>1, <1>11 DEF CheckAll, CloseCycleBox, StartAuto, StopAuto, TimerFires, table
<1>12. CASE StartScan \/ EndScan \/ Hide \/ Restore \/ ShowDeferred
  BY <1>1, <1>12 DEF StartScan, EndScan, Hide, Restore, ShowDeferred, table
<1>13. CASE CloseDeferredBox \/ ToggleAlerts \/ Exit
  BY <1>1, <1>13 DEF CloseDeferredBox, ToggleAlerts, Exit, table
<1>14. CASE PollStep
  BY <1>1, <1>14 DEF PollStep, Poll, table
<1>15. CASE UNCHANGED vars
  BY <1>1, <1>15 DEF vars
<1> QED BY <1>3, <1>4, <1>5, <1>6, <1>7, <1>8, <1>9, <1>10, <1>11, <1>12, <1>13, <1>14, <1>15
        DEF Next, User, Stopped

\* No two configured targets name one service, however targets are added, promoted,
\* edited, removed, restored and loaded: as long as no loaded list names one twice.
THEOREM TargetsAreUnique == ListsWithoutDuplicates /\ Spec => []UniqueTargets
<1> SUFFICES ASSUME ListsWithoutDuplicates PROVE Spec => []UniqueTargets
  OBVIOUS
<1>1. Init => UniqueTargets
  BY DEF Init, UniqueTargets, Unique, Configured
<1>2. TypeOK /\ UniqueTargets /\ [Next]_vars => UniqueTargets'
  BY UniqueStep
<1> QED BY <1>1, <1>2, MonitoringTypeCorrect, PTL DEF Spec
================================================================================
