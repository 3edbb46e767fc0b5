---------------------------- MODULE AvailabilityProofs ----------------------------
(***************************************************************************)
(* What the availability report says of a service, for every history that  *)
(* its life can leave, every retention and every period: its durations     *)
(* count the instants they should, its outages are its downtime, losing    *)
(* the oldest events only loses knowledge, and what it holds of now is     *)
(* what the checks last said.                                              *)
(***************************************************************************)
EXTENDS Availability, TLAPS, WellFoundedInduction, SequenceTheorems, FiniteSetTheorems

--------------------------------------------------------------------------------
(***************************************************************************)
(* The history.                                                            *)
(***************************************************************************)
\* The retained events are the newest ones.
Newest ==
    /\ Len(events) <= Len(all)
    /\ \A i \in 1..Len(events) : events[i] = all[i + (Len(all) - Len(events))]

\* Ids are given out in the order of recording.
IdsAscend ==
    \A j \in 1..Len(all) : all[j].id < nextId /\ \A i \in 1..(j - 1) : all[i].id < all[j].id

\* So are dates, but for an expired window's end.
DatesAscend ==
    \A j \in 1..Len(all) :
        /\ all[j].at <= clock
        /\ all[j].kind # MAINTENANCE_ENDED => \A i \in 1..(j - 1) : all[i].at <= all[j].at

\* Where the tracker's last transition was recorded, the last that was recorded is its status.
KindOf(status) == IF status = OFFLINE THEN DOWN ELSE RECOVERED
TrackerSaid ==
    recorded =>
        /\ tracker # UNKNOWN
        /\ \A j \in 1..Len(all) :
              /\ all[j].kind \in Transitions
              /\ \A k \in (j + 1)..Len(all) : all[k].kind \notin Transitions
              => all[j].kind = KindOf(tracker)

HistoryInv == TypeOK /\ Newest /\ IdsAscend /\ DatesAscend /\ TrackerSaid

\* An event of this history.
LEMMA EventFields ==
    ASSUME NEW e \in Events
    PROVE e.kind \in Kinds /\ e.at \in Time /\ e.id \in Ids
BY DEF Events

LEMMA InitHistory == ASSUME Init PROVE HistoryInv
<1> USE AvailabilityAssumption
<1>1. Len(<< >>) = 0 /\ << >> \in Seq(Events)
  OBVIOUS
<1>2. 1 \in 1..MaxEvents + 1 /\ 0 \in 0..MaxTime /\ 0 \in 0..MaxTime + 1
  OBVIOUS
<1>3. Len(<< >>) <= Retention /\ UNKNOWN \in Statuses /\ FALSE \in BOOLEAN
  BY <1>1 DEF Statuses
<1>4. TypeOK
  <2>1. 0 \in 0..MaxRefusals
    OBVIOUS
  <2> QED BY <1>1, <1>2, <1>3, <2>1 DEF Init, TypeOK, Time
<1> QED BY <1>1, <1>4 DEF Init, HistoryInv, Newest, IdsAscend, DatesAscend, TrackerSaid

\* The newest of a sequence and one more event.
LEMMA RetainedAppend ==
    ASSUME NEW s \in Seq(Events), NEW e \in Events, Len(s) <= Retention
    PROVE  LET r == Retained(Append(s, e))
               d == IF Len(s) = Retention THEN 1 ELSE 0
           IN  /\ r \in Seq(Events) /\ Len(r) <= Retention /\ Len(r) = Len(s) + 1 - d
               /\ \A i \in 1..Len(r) : r[i] = Append(s, e)[i + d]
<1> USE AvailabilityAssumption
<1> DEFINE t == Append(s, e)
           d == IF Len(s) = Retention THEN 1 ELSE 0
           m == IF Len(t) > Retention THEN Len(t) - Retention + 1 ELSE 1
           r == SubSeq(t, m, Len(t))
<1>1. t \in Seq(Events) /\ Len(t) = Len(s) + 1 /\ Len(s) \in Nat
  OBVIOUS
<1> HIDE DEF t
<1>2. m = 1 + d /\ m \in 1..(Len(t) + 1)
  BY <1>1
<1>3. Retained(t) = r
  BY DEF Retained, Suffix
<1> HIDE DEF m
<1>4. m \in 1..(Len(t) + 1) /\ Len(t) \in m - 1 .. Len(t)
  BY <1>1, <1>2
<1>5. /\ r \in Seq(Events)
      /\ Len(r) = IF m <= Len(t) THEN Len(t) - m + 1 ELSE 0
      /\ \A i \in 1..(Len(t) - m + 1) : r[i] = t[m + i - 1]
  BY <1>1, <1>4, SubSeqProperties
<1> HIDE DEF r
<1>6. Len(r) = Len(s) + 1 - d
  <2>1. m <= Len(t) /\ d \in {0, 1}
    BY <1>1, <1>2
  <2> HIDE DEF d
  <2> QED BY <1>1, <1>2, <1>5, <2>1
<1>7. Len(r) <= Retention
  BY <1>1, <1>6
<1>8. ASSUME NEW i \in 1..Len(r) PROVE r[i] = t[i + d]
  <2>1. i \in 1..(Len(t) - m + 1) /\ m + i - 1 = i + d
    BY <1>1, <1>2, <1>6
  <2> QED BY <2>1, <1>5
<1> QED BY <1>3, <1>5, <1>6, <1>7, <1>8 DEF t

\* What recording an event keeps of the history, where the clock stands.
LEMMA InsertStep ==
    ASSUME HistoryInv, clock' = clock, NEW kind \in Kinds, NEW at \in Time, at <= clock,
           kind = MAINTENANCE_ENDED \/ at = clock, Insert(kind, at, TRUE)
    PROVE  /\ events' \in Seq(Events) /\ all' \in Seq(Events) /\ nextId' \in 1 .. MaxEvents + 1
           /\ Len(events') <= Retention /\ refused' \in 0 .. MaxRefusals
           /\ Newest' /\ IdsAscend' /\ DatesAscend'
           /\ Len(all') = Len(all) + 1 /\ all'[Len(all) + 1].kind = kind
           /\ \A i \in 1..Len(all) : all'[i] = all[i]
<1> USE AvailabilityAssumption
<1> DEFINE e == [kind |-> kind, at |-> at, id |-> nextId]
           d == IF Len(events) = Retention THEN 1 ELSE 0
<1>1. /\ nextId \in Ids /\ nextId' = nextId + 1 /\ nextId' \in 1 .. MaxEvents + 1
      /\ events' = Retained(Append(events, e)) /\ all' = Append(all, e)
      /\ refused' \in 0 .. MaxRefusals
  BY DEF Insert, HistoryInv, TypeOK, Ids
<1>2. e \in Events /\ e.kind = kind /\ e.at = at /\ e.id = nextId
  BY <1>1 DEF Events
<1> HIDE DEF e
<1>3. /\ events \in Seq(Events) /\ all \in Seq(Events) /\ Len(events) <= Retention
      /\ Len(events) \in Nat /\ Len(all) \in Nat /\ Len(events) <= Len(all)
      /\ \A i \in 1..Len(events) : events[i] = all[i + (Len(all) - Len(events))]
  BY DEF HistoryInv, TypeOK, Newest
<1>4. /\ events' \in Seq(Events) /\ Len(events') <= Retention /\ Len(events') = Len(events) + 1 - d
      /\ \A i \in 1..Len(events') : events'[i] = Append(events, e)[i + d]
  BY <1>1, <1>2, <1>3, RetainedAppend
<1>5. /\ all' \in Seq(Events) /\ Len(all') = Len(all) + 1 /\ all'[Len(all) + 1] = e
      /\ \A i \in 1..Len(all) : all'[i] = all[i]
  BY <1>1, <1>2, <1>3
<1>6. Newest'
  <2>1. ASSUME NEW i \in 1..Len(events')
        PROVE  events'[i] = all'[i + (Len(all') - Len(events'))]
    <3>1. i + d \in 1..(Len(events) + 1) /\ events'[i] = Append(events, e)[i + d]
      BY <1>3, <1>4
    <3>0. d \in {0, 1} /\ Len(all') = Len(all) + 1 /\ Len(events') = Len(events) + 1 - d
      BY <1>4, <1>5
    <3> HIDE DEF d
    <3>2. i + (Len(all') - Len(events')) = i + d + (Len(all) - Len(events))
      BY <3>0, <1>3
    <3>3. CASE i + d = Len(events) + 1
      <4>1. i + (Len(all') - Len(events')) = Len(all) + 1
        BY <3>0, <3>2, <3>3, <1>3
      <4>2. Append(events, e)[Len(events) + 1] = e
        BY <1>2, <1>3
      <4> QED BY <3>1, <3>3, <4>1, <4>2, <1>5
    <3>4. CASE i + d \in 1..Len(events)
      <4>1. Append(events, e)[i + d] = events[i + d]
        BY <3>4, <1>2, <1>3
      <4>2. events[i + d] = all[i + d + (Len(all) - Len(events))]
        BY <3>4, <1>3
      <4>3. i + d + (Len(all) - Len(events)) \in 1..Len(all)
        BY <3>4, <1>3
      <4> QED BY <3>1, <3>2, <4>1, <4>2, <4>3, <1>5
    <3> QED BY <3>1, <3>3, <3>4, <1>3
  <2>2. Len(events') <= Len(all')
    BY <1>3, <1>4, <1>5
  <2> QED BY <2>1, <2>2 DEF Newest
<1>7. \A j \in 1..Len(all) : all[j] \in Events
  BY <1>3
<1>8. IdsAscend'
  <2>1. \A j \in 1..Len(all) : all[j].id < nextId /\ \A i \in 1..(j - 1) : all[i].id < all[j].id
    BY DEF HistoryInv, IdsAscend
  <2>2. \A j \in 1..Len(all) : all[j].id \in Nat
    BY <1>7, EventFields DEF Ids
  <2>3. nextId \in Nat
    BY <1>1 DEF Ids
  <2>4. ASSUME NEW j \in 1..Len(all)
        PROVE  all'[j].id < nextId' /\ \A i \in 1..(j - 1) : all'[i].id < all'[j].id
    <3>1. all'[j] = all[j] /\ \A i \in 1..(j - 1) : all'[i] = all[i]
      BY <1>3, <1>5
    <3> QED BY <3>1, <2>1, <2>2, <2>3, <1>1
  <2>5. all'[Len(all) + 1].id < nextId' /\ \A i \in 1..Len(all) : all'[i].id < all'[Len(all) + 1].id
    BY <1>1, <1>2, <1>5, <2>1, <2>3
  <2>6. \A j \in 1..Len(all') : j \in 1..Len(all) \/ (j = Len(all) + 1 /\ j - 1 = Len(all))
    BY <1>3, <1>5
  <2> QED BY <2>4, <2>5, <2>6 DEF IdsAscend
<1>9. DatesAscend'
  <2>1. \A j \in 1..Len(all) :
            /\ all[j].at <= clock
            /\ all[j].kind # MAINTENANCE_ENDED => \A i \in 1..(j - 1) : all[i].at <= all[j].at
    BY DEF HistoryInv, DatesAscend
  <2>2. ASSUME NEW j \in 1..Len(all)
        PROVE  /\ all'[j].at <= clock'
               /\ all'[j].kind # MAINTENANCE_ENDED => \A i \in 1..(j - 1) : all'[i].at <= all'[j].at
    <3>1. all'[j] = all[j] /\ \A i \in 1..(j - 1) : all'[i] = all[i]
      BY <1>3, <1>5
    <3> QED BY <3>1, <2>1
  <2>3. /\ all'[Len(all) + 1].at <= clock'
        /\ all'[Len(all) + 1].kind # MAINTENANCE_ENDED
              => \A i \in 1..Len(all) : all'[i].at <= all'[Len(all) + 1].at
    BY <1>2, <1>5, <2>1
  <2>4. \A j \in 1..Len(all') : j \in 1..Len(all) \/ (j = Len(all) + 1 /\ j - 1 = Len(all))
    BY <1>3, <1>5
  <2> QED BY <2>2, <2>3, <2>4 DEF DatesAscend
<1> QED BY <1>1, <1>2, <1>4, <1>5, <1>6, <1>8, <1>9

\* An event that is no transition leaves the tracker's word.
LEMMA OtherEvent ==
    ASSUME HistoryInv, NEW kind \in Kinds \ Transitions, UNCHANGED <<tracker, recorded>>,
           Len(all') = Len(all) + 1, all'[Len(all) + 1].kind = kind,
           \A i \in 1..Len(all) : all'[i] = all[i]
    PROVE  TrackerSaid'
<1>1. SUFFICES ASSUME recorded', NEW j \in 1..Len(all'), all'[j].kind \in Transitions,
                      \A k \in (j + 1)..Len(all') : all'[k].kind \notin Transitions
               PROVE  all'[j].kind = KindOf(tracker')
  BY DEF TrackerSaid, HistoryInv
<1>2. Len(all) \in Nat
  BY DEF HistoryInv, TypeOK
<1>3. j \in 1..Len(all)
  BY <1>1, <1>2
<1>4. \A k \in (j + 1)..Len(all) : all[k].kind \notin Transitions
  BY <1>1, <1>2, <1>3
<1> QED BY <1>1, <1>3, <1>4 DEF HistoryInv, TrackerSaid

LEMMA SameHistory ==
    ASSUME HistoryInv, UNCHANGED <<events, all, nextId>>, clock' \in Nat, clock <= clock'
    PROVE  /\ events' \in Seq(Events) /\ all' \in Seq(Events) /\ nextId' \in 1 .. MaxEvents + 1
           /\ Len(events') <= Retention
           /\ Newest' /\ IdsAscend' /\ DatesAscend'
<1>1. events' = events /\ all' = all /\ nextId' = nextId
  OBVIOUS
<1>2. \A j \in 1..Len(all) : all[j].at \in Nat
  <2>1. \A j \in 1..Len(all) : all[j] \in Events
    BY DEF HistoryInv, TypeOK
  <2> QED BY <2>1, EventFields, AvailabilityAssumption DEF Time
<1>3. clock \in Nat
  BY AvailabilityAssumption DEF HistoryInv, TypeOK, Time
<1>4. DatesAscend'
  BY <1>1, <1>2, <1>3 DEF HistoryInv, DatesAscend
<1> QED BY <1>1, <1>4 DEF HistoryInv, TypeOK, Newest, IdsAscend

\* An event that is refused changes the history of refusals only.
LEMMA RefusedStep ==
    ASSUME HistoryInv, NEW kind, NEW at, Insert(kind, at, FALSE)
    PROVE  UNCHANGED <<events, all, nextId>> /\ refused' \in 0 .. MaxRefusals
BY AvailabilityAssumption DEF Insert, HistoryInv, TypeOK

LEMMA ObserveStep == ASSUME HistoryInv, NEW status \in {ONLINE, OFFLINE}, Observe(status) PROVE HistoryInv'
<1> USE AvailabilityAssumption
<1>1. /\ clock \in Time /\ window \in 0..MaxTime + 1 /\ recorded \in BOOLEAN /\ tracker \in Statuses
      /\ clock' = clock /\ window' = window /\ tracker' = status /\ status \in Statuses
  BY DEF HistoryInv, TypeOK, Observe, Statuses
<1>2. CASE tracker \in {UNKNOWN, status}
  <2>1. Kept /\ recorded' = recorded
    BY <1>2 DEF Observe
  <2>2. clock' \in Nat /\ clock <= clock'
    BY <1>1 DEF Time
  <2>3. TrackerSaid'
    BY <1>1, <1>2, <2>1 DEF HistoryInv, TrackerSaid, Kept
  <2>4. UNCHANGED <<events, all, nextId>> /\ refused' \in 0 .. MaxRefusals
    BY <2>1 DEF Kept, HistoryInv, TypeOK
  <2> QED BY <1>1, <2>1, <2>2, <2>3, <2>4, SameHistory DEF HistoryInv, TypeOK
<1>3. CASE tracker \notin {UNKNOWN, status} /\ Insert(KindOf(status), clock, FALSE) /\ recorded' = FALSE
  <2>1. UNCHANGED <<events, all, nextId>> /\ refused' \in 0 .. MaxRefusals
    BY <1>3, RefusedStep
  <2>2. clock' \in Nat /\ clock <= clock'
    BY <1>1 DEF Time
  <2>3. TrackerSaid'
    BY <1>3 DEF TrackerSaid
  <2> QED BY <1>1, <1>3, <2>1, <2>2, <2>3, SameHistory DEF HistoryInv, TypeOK
<1>4. CASE tracker \notin {UNKNOWN, status} /\ Insert(KindOf(status), clock, TRUE) /\ recorded' = TRUE
  <2>1. Insert(KindOf(status), clock, TRUE) /\ recorded' = TRUE
    BY <1>4
  <2>2. KindOf(status) \in Kinds /\ KindOf(status) \in Transitions
    BY DEF KindOf, Kinds, Transitions
  <2>3. /\ events' \in Seq(Events) /\ all' \in Seq(Events) /\ nextId' \in 1 .. MaxEvents + 1
        /\ Len(events') <= Retention /\ refused' \in 0 .. MaxRefusals
        /\ Newest' /\ IdsAscend' /\ DatesAscend'
        /\ Len(all') = Len(all) + 1 /\ all'[Len(all) + 1].kind = KindOf(status)
    <3>1. clock <= clock
      BY <1>1 DEF Time
    <3> QED BY <1>1, <2>1, <2>2, <3>1, InsertStep
  <2>4. TrackerSaid'
    <3>1. SUFFICES ASSUME NEW j \in 1..Len(all'),
                          \A k \in (j + 1)..Len(all') : all'[k].kind \notin Transitions
                   PROVE  all'[j].kind = KindOf(tracker')
      BY <1>1 DEF TrackerSaid, ONLINE, OFFLINE, UNKNOWN
    <3>2. Len(all) \in Nat
      BY DEF HistoryInv, TypeOK
    <3>3. j = Len(all) + 1
      BY <3>1, <3>2, <2>2, <2>3
    <3> QED BY <3>3, <2>3, <1>1
  <2> QED BY <1>1, <2>1, <2>3, <2>4 DEF HistoryInv, TypeOK
<1>5. tracker \notin {UNKNOWN, status} =>
          \E stored \in BOOLEAN : Insert(KindOf(status), clock, stored) /\ recorded' = stored
  BY DEF Observe, KindOf
<1> QED BY <1>2, <1>3, <1>4, <1>5

\* An event of maintenance or of another service.
LEMMA OtherInsert ==
    ASSUME HistoryInv, NEW kind \in Kinds \ Transitions, NEW at \in Time, at <= clock,
           kind = MAINTENANCE_ENDED \/ at = clock, NEW stored \in BOOLEAN, Insert(kind, at, stored),
           UNCHANGED <<clock, tracker, recorded>>, window' \in 0..MaxTime + 1
    PROVE  HistoryInv'
<1>1. CASE stored = TRUE
  <2>1. /\ events' \in Seq(Events) /\ all' \in Seq(Events) /\ nextId' \in 1 .. MaxEvents + 1
        /\ Len(events') <= Retention /\ refused' \in 0 .. MaxRefusals
        /\ Newest' /\ IdsAscend' /\ DatesAscend'
        /\ Len(all') = Len(all) + 1 /\ all'[Len(all) + 1].kind = kind
        /\ \A i \in 1..Len(all) : all'[i] = all[i]
    BY <1>1, InsertStep
  <2>2. TrackerSaid'
    BY <2>1, OtherEvent
  <2> QED BY <2>1, <2>2 DEF HistoryInv, TypeOK
<1>2. CASE stored = FALSE
  <2>1. UNCHANGED <<events, all, nextId>> /\ refused' \in 0 .. MaxRefusals
    BY <1>2, RefusedStep
  <2>2. clock' \in Nat /\ clock <= clock'
    BY AvailabilityAssumption DEF HistoryInv, TypeOK, Time
  <2>3. TrackerSaid'
    BY <2>1 DEF HistoryInv, TrackerSaid
  <2> QED BY <2>1, <2>2, <2>3, SameHistory DEF HistoryInv, TypeOK
<1> QED BY <1>1, <1>2

LEMMA WindowSteps ==
    ASSUME HistoryInv,
           Another \/ End \/ Expire \/ \E until \in 1 .. MaxTime + 1 : Begin(until)
    PROVE  HistoryInv'
<1> USE AvailabilityAssumption
<1>1. clock \in Time /\ clock <= clock /\ window \in 0..MaxTime + 1 /\ 0 \in 0..MaxTime + 1
  BY DEF HistoryInv, TypeOK, Time
<1>2. {MAINTENANCE_STARTED, MAINTENANCE_ENDED, FOREIGN} \subseteq Kinds \ Transitions
  BY DEF Kinds, Transitions, MAINTENANCE_STARTED, MAINTENANCE_ENDED, FOREIGN, DOWN, RECOVERED
<1>3. CASE Another
  BY <1>1, <1>2, <1>3, OtherInsert DEF Another
<1>4. CASE End
  BY <1>1, <1>2, <1>4, OtherInsert DEF End
<1>5. CASE Expire
  <2>1. window \in Time /\ window <= clock
    BY <1>1, <1>5 DEF Expire, Time
  <2> QED BY <1>1, <1>2, <1>5, <2>1, OtherInsert DEF Expire
<1>6. ASSUME NEW until \in 1 .. MaxTime + 1, Begin(until) PROVE HistoryInv'
  <2>1. until \in 0..MaxTime + 1
    BY <1>6
  <2> QED BY <1>1, <1>2, <1>6, <2>1, OtherInsert DEF Begin
<1> QED BY <1>3, <1>4, <1>5, <1>6

LEMMA ForgetTickStep == ASSUME HistoryInv, Forget \/ Tick \/ UNCHANGED vars PROVE HistoryInv'
<1> USE AvailabilityAssumption
<1>1. /\ clock \in Time /\ clock' \in Time /\ clock \in Nat /\ clock' \in Nat /\ clock <= clock'
      /\ window' = window /\ tracker' \in Statuses /\ recorded' \in BOOLEAN /\ Kept
  <2>1. /\ clock \in Time /\ clock \in Nat /\ window' = window /\ Kept
        /\ clock' = clock \/ (clock < MaxTime /\ clock' = clock + 1)
    BY DEF HistoryInv, TypeOK, Forget, Tick, vars, Kept, Time
  <2>2. clock' \in Time /\ clock' \in Nat /\ clock <= clock'
    BY <2>1 DEF Time
  <2>3. tracker' \in Statuses /\ recorded' \in BOOLEAN
    BY DEF HistoryInv, TypeOK, Forget, Tick, vars, Statuses
  <2> QED BY <2>1, <2>2, <2>3
<1>2. TrackerSaid'
  BY DEF HistoryInv, TrackerSaid, Forget, Tick, vars, Kept
<1>3. window' \in 0..MaxTime + 1 /\ UNCHANGED <<events, all, nextId>> /\ refused' \in 0 .. MaxRefusals
  BY <1>1 DEF HistoryInv, TypeOK, Kept
<1> QED BY <1>1, <1>2, <1>3, SameHistory DEF HistoryInv, TypeOK

LEMMA ClearStep == ASSUME HistoryInv, Clear PROVE HistoryInv'
<1>1. Len(<< >>) = 0 /\ << >> \in Seq(Events)
  OBVIOUS
<1>2. Len(<< >>) <= Retention
  BY <1>1, AvailabilityAssumption
<1> QED BY <1>1, <1>2 DEF HistoryInv, TypeOK, Clear, Newest, IdsAscend, DatesAscend, TrackerSaid

\* Ids and dates ascend as events are recorded, the retained ones are the newest, and the
\* tracker's status is the last transition it recorded.
THEOREM History == Spec => []HistoryInv
<1>1. Init => HistoryInv
  BY InitHistory
<1>2. HistoryInv /\ [Next]_vars => HistoryInv'
  BY ObserveStep, WindowSteps, ForgetTickStep, ClearStep DEF Next
<1> QED BY <1>1, <1>2, PTL DEF Spec

\* Every variable keeps its type, and what is retained its bound.
THEOREM AvailabilityTypes == Spec => []TypeOK
<1>1. HistoryInv => TypeOK
  BY DEF HistoryInv
<1> QED BY <1>1, History, PTL

--------------------------------------------------------------------------------
(***************************************************************************)
(* Positions, and what pruning leaves.                                     *)
(***************************************************************************)
\* A set of numbers has a least.
LEMMA Least ==
    ASSUME NEW B \in SUBSET Nat, B # {}
    PROVE  \E n \in B : \A m \in B : n <= m
<1> DEFINE R == OpToRel(<, Nat)
<1>1. \A m, n \in Nat : m < n => <<m, n>> \in R
  BY DEF OpToRel
<1>2. IsWellFoundedOn(R, Nat)
  BY NatLessThanWellFounded
<1> HIDE DEF R
<1>3. PICK n \in B : \A m \in B : ~ (<<m, n>> \in R)
  BY <1>2, WFMin
<1>4. n \in Nat /\ \A m \in B : m \in Nat /\ ~ (m < n)
  BY <1>1, <1>3
<1> QED BY <1>4

\* A bounded one has a greatest.
LEMMA Greatest ==
    ASSUME NEW n \in Nat, NEW B \in SUBSET (0..n), B # {}
    PROVE  \E m \in B : \A k \in B : k <= m
<1> DEFINE Above == {m \in Nat : \A k \in B : k <= m}
<1>1. n \in Above
  OBVIOUS
<1>2. PICK m \in Above : \A k \in Above : m <= k
  BY <1>1, Least
<1>3. m \in B
  <2>1. SUFFICES ASSUME m \notin B PROVE FALSE
    OBVIOUS
  <2>2. \A i \in B : i <= m - 1
    BY <1>2, <2>1
  <2>3. m \in Nat /\ m - 1 \in Nat
    <3>1. PICK i \in B : TRUE
      OBVIOUS
    <3>2. i \in 0..n /\ m \in Nat /\ i <= m /\ i # m
      BY <1>2, <2>1
    <3> QED BY <3>2
  <2> QED BY <1>2, <2>2, <2>3
<1> QED BY <1>2, <1>3

\* The latest of some events of a history is the last of those of the last date.
LEMMA LatestIs ==
    ASSUME NEW h \in Seq(Events), NEW S \in SUBSET (1..Len(h)), S # {}
    PROVE  /\ Latest(h, S) \in S
           /\ \A j \in S : \/ h[j].at < h[Latest(h, S)].at
                           \/ h[j].at = h[Latest(h, S)].at /\ j <= Latest(h, S)
<1> DEFINE Dates == {h[j].at : j \in S}
<1>1. \A j \in S : h[j].at \in 0..MaxTime
  <2>1. \A j \in S : h[j] \in Events
    OBVIOUS
  <2> QED BY <2>1, EventFields DEF Time
<1>2. PICK d \in Dates : \A k \in Dates : k <= d
  <2>1. Dates \in SUBSET (0..MaxTime) /\ Dates # {} /\ MaxTime \in Nat
    BY <1>1, AvailabilityAssumption
  <2> HIDE DEF Dates
  <2> QED BY <2>1, Greatest
<1> DEFINE AtDate == {j \in S : h[j].at = d}
<1>3. PICK i \in AtDate : \A k \in AtDate : k <= i
  <2>0. PICK j \in S : h[j].at = d
    BY <1>2
  <2>1. AtDate \in SUBSET (0..Len(h)) /\ AtDate # {} /\ Len(h) \in Nat
    <3>1. S \subseteq 0..Len(h) /\ Len(h) \in Nat
      OBVIOUS
    <3> QED BY <2>0, <3>1
  <2> HIDE DEF AtDate
  <2> QED BY <2>1, Greatest
<1>4. i \in S /\ \A j \in S : h[j].at < h[i].at \/ (h[j].at = h[i].at /\ j <= i)
  <2>1. i \in S /\ h[i].at = d
    BY <1>3
  <2>2. ASSUME NEW j \in S PROVE h[j].at < h[i].at \/ (h[j].at = h[i].at /\ j <= i)
    <3>1. h[j].at <= d /\ h[j].at \in 0..MaxTime /\ d \in 0..MaxTime
      BY <1>1, <1>2
    <3>2. h[j].at = d => j <= i
      BY <1>3
    <3> QED BY <2>1, <3>1, <3>2
  <2> QED BY <2>1, <2>2
<1>5. \E k \in S : \A j \in S : h[j].at < h[k].at \/ (h[j].at = h[k].at /\ j <= k)
  BY <1>4
<1> QED BY <1>5 DEF Latest

\* No other one is.
LEMMA LatestOne ==
    ASSUME NEW h \in Seq(Events), NEW S \in SUBSET (1..Len(h)), NEW i \in S,
           \A j \in S : h[j].at < h[i].at \/ (h[j].at = h[i].at /\ j <= i)
    PROVE  Latest(h, S) = i
<1> DEFINE l == Latest(h, S)
<1>1. l \in S /\ (h[i].at < h[l].at \/ (h[i].at = h[l].at /\ i <= l))
  BY LatestIs
<1> HIDE DEF l
<1>2. h[l].at < h[i].at \/ (h[l].at = h[i].at /\ l <= i)
  BY <1>1
<1>3. l \in Nat /\ i \in Nat
  BY <1>1
<1>4. h[l].at \in Nat /\ h[i].at \in Nat
  <2>1. h[l] \in Events /\ h[i] \in Events
    BY <1>1
  <2> QED BY <2>1, EventFields, AvailabilityAssumption DEF Time
<1>5. l = i
  BY <1>1, <1>2, <1>3, <1>4
<1> QED BY <1>5 DEF l

\* What is dated when it was recorded and is the latest retained event of some kinds is
\* the latest of them ever.
LEMMA RetainedIsLatest ==
    ASSUME HistoryInv, NEW kinds, NEW t \in Nat, SoFar(events, kinds, t) # {},
           events[Latest(events, SoFar(events, kinds, t))].kind # MAINTENANCE_ENDED
    PROVE  /\ SoFar(all, kinds, t) # {}
           /\ all[Latest(all, SoFar(all, kinds, t))]
                = events[Latest(events, SoFar(events, kinds, t))]
<1> DEFINE S == SoFar(events, kinds, t)
           A == SoFar(all, kinds, t)
           i == Latest(events, S)
           d == Len(all) - Len(events)
<1>1. /\ events \in Seq(Events) /\ all \in Seq(Events) /\ Len(events) \in Nat /\ Len(all) \in Nat
      /\ d \in Nat /\ \A k \in 1..Len(events) : events[k] = all[k + d]
  BY DEF HistoryInv, TypeOK, Newest
<1>2. /\ S = {k \in 1..Len(events) : events[k].kind \in kinds /\ events[k].at <= t}
      /\ A = {k \in 1..Len(all) : all[k].kind \in kinds /\ all[k].at <= t}
  BY <1>1 DEF SoFar
<1> HIDE DEF S, A
<1>3. i \in S /\ \A j \in S : events[j].at < events[i].at \/ (events[j].at = events[i].at /\ j <= i)
  BY <1>1, <1>2, LatestIs DEF S
<1> HIDE DEF i
<1>4. /\ i \in 1..Len(events) /\ i + d \in 1..Len(all) /\ all[i + d] = events[i]
      /\ i + d \in A
  <2>1. i \in 1..Len(events) /\ events[i] = all[i + d] /\ i + d \in 1..Len(all)
    BY <1>1, <1>2, <1>3
  <2> QED BY <1>2, <1>3, <2>1
<1>5. \A j \in 1..Len(all) : all[j].at \in Nat
  <2>1. \A j \in 1..Len(all) : all[j] \in Events
    BY <1>1
  <2> QED BY <2>1, EventFields, AvailabilityAssumption DEF Time
<1>6. ASSUME NEW j \in A PROVE all[j].at < all[i + d].at \/ (all[j].at = all[i + d].at /\ j <= i + d)
  <2>1. j \in 1..Len(all)
    BY <1>2
  <2> HIDE DEF d
  <2>2. CASE j <= i + d
    <3>1. all[i + d].kind # MAINTENANCE_ENDED
      BY <1>4 DEF i, S
    <3> DEFINE n == i + d
    <3>2. \A k \in 1..(n - 1) : all[k].at <= all[n].at
      <4>1. n \in 1..Len(all) /\ all[n].kind # MAINTENANCE_ENDED
        BY <1>4, <3>1
      <4> HIDE DEF n
      <4> QED BY <4>1 DEF HistoryInv, DatesAscend
    <3>3. j = i + d \/ j \in 1..(i + d - 1)
      BY <1>1, <1>4, <2>1, <2>2
    <3> QED BY <1>4, <1>5, <2>1, <2>2, <3>2, <3>3
  <2>3. CASE i + d < j
    <3>1. j - d \in 1..Len(events) /\ (j - d) + d = j
      BY <1>1, <1>4, <2>1, <2>3 DEF d
    <3>2. events[j - d] = all[j] /\ j - d \in S
      BY <1>1, <1>2, <3>1
    <3>3. all[j].at < all[i + d].at \/ (all[j].at = all[i + d].at /\ j - d <= i)
      BY <1>3, <1>4, <3>2
    <3> QED BY <1>1, <1>4, <2>1, <3>3
  <2> QED BY <1>1, <1>4, <2>1, <2>2, <2>3
<1>7. Latest(all, A) = i + d
  <2>1. A \in SUBSET (1..Len(all))
    BY <1>2
  <2> HIDE DEF d
  <2> QED BY <1>1, <1>4, <1>6, <2>1, LatestOne
<1> QED BY <1>4, <1>7 DEF A, S, i

\* Of any instant the retained events say what all events say, or nothing, for what is
\* retained is the newest by id, and a transition is dated when it is recorded.
THEOREM PruningForgets == Spec => []PruneOnlyForgets
<1>1. HistoryInv => PruneOnlyForgets
  <2>1. SUFFICES ASSUME HistoryInv, NEW t \in 0..clock
                 PROVE  /\ StatusAt(events, t) \in {UNKNOWN, StatusAt(all, t)}
                        /\ MaintainedAt(events, t) => MaintainedAt(all, t)
    BY DEF PruneOnlyForgets
  <2>2. t \in Nat
    BY AvailabilityAssumption DEF HistoryInv, TypeOK, Time
  <2>3. /\ events \in Seq(Events) /\ DOMAIN events = 1..Len(events)
        /\ \A kinds : /\ SoFar(events, kinds, t) \in SUBSET (1..Len(events))
                       /\ \A k \in SoFar(events, kinds, t) : events[k].kind \in kinds
    <3>0. events \in Seq(Events)
      BY <2>1 DEF HistoryInv, TypeOK
    <3>1. events \in Seq(Events) /\ DOMAIN events = 1..Len(events)
      BY <3>0
    <3> QED BY <3>1 DEF SoFar
  <2>4. StatusAt(events, t) \in {UNKNOWN, StatusAt(all, t)}
    <3> DEFINE S == SoFar(events, Transitions, t)
    <3>1. CASE S = {}
      BY <3>1 DEF StatusAt
    <3>2. CASE S # {}
      <4>1. Latest(events, S) \in S
        BY <2>3, <3>2, LatestIs
      <4>2. events[Latest(events, S)].kind # MAINTENANCE_ENDED
        BY <2>3, <4>1 DEF Transitions, DOWN, RECOVERED, MAINTENANCE_ENDED
      <4> QED BY <2>1, <2>2, <3>2, <4>2, RetainedIsLatest DEF StatusAt
    <3> QED BY <3>1, <3>2
  <2>5. ASSUME MaintainedAt(events, t) PROVE MaintainedAt(all, t)
    <3> DEFINE K == {MAINTENANCE_STARTED, MAINTENANCE_ENDED}
               S == SoFar(events, K, t)
    <3>1. S # {} /\ events[Latest(events, S)].kind = MAINTENANCE_STARTED
      BY <2>5 DEF MaintainedAt
    <3>2. events[Latest(events, S)].kind # MAINTENANCE_ENDED
      BY <3>1 DEF MAINTENANCE_STARTED, MAINTENANCE_ENDED
    <3>3. SoFar(all, K, t) # {} /\ all[Latest(all, SoFar(all, K, t))] = events[Latest(events, S)]
      BY <2>1, <2>2, <3>1, <3>2, RetainedIsLatest
    <3> QED BY <3>1, <3>3 DEF MaintainedAt
  <2> QED BY <2>4, <2>5
<1> QED BY <1>1, History, PTL

--------------------------------------------------------------------------------
(***************************************************************************)
(* Folds.  FoldLeft is a recursive function on the sets of positions that a *)
(* sequence has; where the step keeps a type, its value at the first n of  *)
(* them is the step of the value at the first n - 1 and the n'th element.  *)
(***************************************************************************)
\* A non-empty set of positions has a last one.
LEMMA LastPosition ==
    ASSUME NEW n \in Nat, NEW t \in SUBSET (1..n), t # {}
    PROVE  Max(t) \in t /\ \A i \in t : i <= Max(t)
<1>1. PICK m \in t : \A i \in t : i <= m
  <2>1. t \in SUBSET (0..n)
    OBVIOUS
  <2> QED BY <2>1, Greatest
<1>2. \A i \in t : m >= i
  BY <1>1
<1>3. \E x \in t : \A y \in t : x >= y
  BY <1>1, <1>2
<1>4. Max(t) \in t /\ \A y \in t : Max(t) >= y
  BY <1>3 DEF Max
<1> QED BY <1>4

\* A fold from the left, over the sets of positions, of the function g.
FoldsTo(F, g, b, s, n) ==
    F = [t \in SUBSET (1..n) |-> IF t = {} THEN b ELSE g[<<F[t \ {Max(t)}], s[Max(t)]>>]]

LEMMA FoldLonger ==
    ASSUME NEW A, NEW S, NEW g \in [A \X S -> A], NEW b \in A, NEW s \in Seq(S), NEW n \in Nat,
           n + 1 <= Len(s), NEW F \in [SUBSET (1..n) -> A], FoldsTo(F, g, b, s, n)
    PROVE  \E G \in [SUBSET (1..(n + 1)) -> A] : FoldsTo(G, g, b, s, n + 1)
<1> DEFINE Of(H, t) == IF t = {} THEN b ELSE g[<<H[t \ {Max(t)}], s[Max(t)]>>]
           G == [t \in SUBSET (1..(n + 1)) |->
                    IF n + 1 \in t THEN g[<<F[t \ {n + 1}], s[n + 1]>>] ELSE F[t]]
<1>1. s[n + 1] \in S
  OBVIOUS
<1>2. ASSUME NEW t \in SUBSET (1..(n + 1)) PROVE G[t] \in A /\ G[t] = Of(G, t)
  <2>1. CASE n + 1 \in t
    <3>1. t \ {n + 1} \in SUBSET (1..n)
      OBVIOUS
    <3>2. Max(t) = n + 1
      <4>1. n + 1 \in Nat /\ t # {}
        BY <2>1
      <4>2. Max(t) \in t /\ \A i \in t : i <= Max(t)
        BY <4>1, LastPosition
      <4>3. Max(t) \in 1..(n + 1) /\ n + 1 <= Max(t)
        BY <4>2, <2>1
      <4> QED BY <4>3
    <3>3. F[t \ {n + 1}] \in A /\ G[t \ {n + 1}] = F[t \ {n + 1}]
      BY <3>1
    <3>4. G[t] = g[<<F[t \ {n + 1}], s[n + 1]>>]
      BY <2>1
    <3>5. G[t] \in A
      BY <3>3, <3>4, <1>1
    <3>6. Of(G, t) = g[<<G[t \ {n + 1}], s[n + 1]>>]
      BY <2>1, <3>2
    <3> QED BY <3>3, <3>4, <3>5, <3>6
  <2>2. CASE n + 1 \notin t
    <3>1. t \in SUBSET (1..n)
      BY <2>2
    <3>2. G[t] = F[t] /\ F[t] \in A
      BY <2>2, <3>1
    <3>3. F[t] = Of(F, t)
      BY <3>1 DEF FoldsTo
    <3>4. t \ {Max(t)} \in SUBSET (1..n)
      BY <3>1
    <3>5. G[t \ {Max(t)}] = F[t \ {Max(t)}]
      BY <3>4
    <3> QED BY <3>2, <3>3, <3>5
  <2> QED BY <2>1, <2>2
<1>3. G \in [SUBSET (1..(n + 1)) -> A]
  BY <1>2
<1>4. G = [t \in SUBSET (1..(n + 1)) |-> Of(G, t)]
  <2>1. \A t \in SUBSET (1..(n + 1)) : G[t] = Of(G, t)
    BY <1>2
  <2>2. G = [t \in SUBSET (1..(n + 1)) |-> G[t]]
    OBVIOUS
  <2> HIDE DEF G, Of
  <2>3. [t \in SUBSET (1..(n + 1)) |-> G[t]] = [t \in SUBSET (1..(n + 1)) |-> Of(G, t)]
    BY <2>1
  <2> QED BY <2>2, <2>3
<1>5. FoldsTo(G, g, b, s, n + 1)
  BY <1>4 DEF FoldsTo
<1> QED BY <1>3, <1>5

\* There is such a fold, so FoldLeft is what its steps say.
LEMMA FoldExists ==
    ASSUME NEW A, NEW S, NEW g \in [A \X S -> A], NEW b \in A, NEW s \in Seq(S)
    PROVE  \E F \in [SUBSET (1..Len(s)) -> A] : FoldsTo(F, g, b, s, Len(s))
<1> DEFINE Good(n) == \E F \in [SUBSET (1..n) -> A] : FoldsTo(F, g, b, s, n)
           Bad == {n \in 0..Len(s) : ~ Good(n)}
<1>1. Good(0)
  <2> DEFINE F == [t \in SUBSET (1..0) |-> b]
  <2>1. F \in [SUBSET (1..0) -> A]
    OBVIOUS
  <2>2. FoldsTo(F, g, b, s, 0)
    BY DEF FoldsTo
  <2> QED BY <2>1, <2>2
<1>2. ASSUME NEW n \in 0..Len(s), n # Len(s), Good(n) PROVE Good(n + 1)
  <2>1. n \in Nat /\ n + 1 <= Len(s)
    BY <1>2
  <2> QED BY <1>2, <2>1, FoldLonger
<1> HIDE DEF Good
<1>3. SUFFICES ASSUME Bad # {} PROVE FALSE
  <2>1. Len(s) \in 0..Len(s)
    OBVIOUS
  <2>2. CASE Bad = {}
    BY <2>1, <2>2 DEF Good
  <2> QED BY <2>2, <1>3
<1>4. Bad \in SUBSET Nat
  OBVIOUS
<1>5. PICK n \in Bad : \A m \in Bad : n <= m
  BY <1>3, <1>4, Least
<1>6. n # 0 /\ n - 1 \in 0..Len(s) /\ n - 1 # Len(s) /\ n - 1 \notin Bad
  BY <1>1, <1>5
<1>7. Good((n - 1) + 1)
  BY <1>2, <1>6
<1> QED BY <1>5, <1>7

\* The last position of a prefix.
LEMMA LastOfPrefix ==
    ASSUME NEW n \in Nat \ {0}
    PROVE  Max(1..n) = n /\ (1..n) \ {Max(1..n)} = 1..(n - 1)
<1>1. 1..n \in SUBSET (1..n) /\ n \in 1..n /\ n \in Nat
  OBVIOUS
<1>2. Max(1..n) \in 1..n /\ \A i \in 1..n : i <= Max(1..n)
  BY <1>1, LastPosition
<1>3. Max(1..n) = n
  BY <1>1, <1>2
<1> QED BY <1>3

\* Induction up to m.
LEMMA Ascending ==
    ASSUME NEW m \in Nat, NEW G, 0 \in G, \A n \in 0..(m - 1) : n \in G => n + 1 \in G
    PROVE  0..m \subseteq G
<1> DEFINE Bad == {n \in 0..m : n \notin G}
<1>1. SUFFICES ASSUME Bad # {} PROVE FALSE
  OBVIOUS
<1>2. Bad \in SUBSET Nat
  OBVIOUS
<1>3. PICK n \in Bad : \A k \in Bad : n <= k
  BY <1>1, <1>2, Least
<1>4. n # 0 /\ n - 1 \in 0..(m - 1) /\ n - 1 \notin Bad
  BY <1>3
<1>5. n - 1 \in G
  BY <1>4
<1>6. (n - 1) + 1 \in G
  BY <1>4, <1>5
<1> QED BY <1>3, <1>6

\* The steps of a fold, typed.
TypedFold(H, A, S, g, b, s) ==
    /\ H = [t \in SUBSET DOMAIN s |-> H[t]] /\ H[{}] = b
    /\ \A t \in SUBSET DOMAIN s :
          t # {} => /\ H[t \ {Max(t)}] \in A /\ s[Max(t)] \in S
                    /\ H[t] = g[<<H[t \ {Max(t)}], s[Max(t)]>>]

LEMMA FoldTyped ==
    ASSUME NEW A, NEW S, NEW g \in [A \X S -> A], NEW b \in A, NEW s \in Seq(S)
    PROVE  \E H : TypedFold(H, A, S, g, b, s)
<1>1. DOMAIN s = 1..Len(s) /\ Len(s) \in Nat
  OBVIOUS
<1>2. PICK H \in [SUBSET (1..Len(s)) -> A] : FoldsTo(H, g, b, s, Len(s))
  BY FoldExists
<1>3. ASSUME NEW t \in SUBSET (1..Len(s)), t # {}
      PROVE  /\ H[t \ {Max(t)}] \in A /\ s[Max(t)] \in S
             /\ H[t] = g[<<H[t \ {Max(t)}], s[Max(t)]>>]
  <2>1. Max(t) \in t
    BY <1>1, <1>3, LastPosition
  <2>2. Max(t) \in 1..Len(s) /\ t \ {Max(t)} \in SUBSET (1..Len(s))
    BY <2>1
  <2>3. H[t] = g[<<H[t \ {Max(t)}], s[Max(t)]>>]
    BY <1>2, <1>3 DEF FoldsTo
  <2> QED BY <2>2, <2>3
<1>4. H[{}] = b
  BY <1>2 DEF FoldsTo
<1>5. TypedFold(H, A, S, g, b, s)
  BY <1>1, <1>2, <1>3, <1>4 DEF TypedFold
<1> QED BY <1>5

\* One step of a fold is one of Op's.
LEMMA FoldTake ==
    ASSUME NEW s, NEW S, s \in Seq(S), NEW n \in 1..Len(s)
    PROVE  /\ 1..n \in SUBSET DOMAIN s /\ 1..n # {}
           /\ Max(1..n) = n /\ (1..n) \ {Max(1..n)} = 1..(n - 1)
<1>1. n \in Nat \ {0} /\ DOMAIN s = 1..Len(s) /\ Len(s) \in Nat
  OBVIOUS
<1>2. 1..n \in SUBSET (1..Len(s)) /\ n \in 1..n
  BY <1>1
<1> QED BY <1>1, <1>2, LastOfPrefix

\* The results along the way.
Stepwise(F, A, S, g, b, s) ==
    /\ F[1..0] = b /\ \A x \in A, y \in S : g[<<x, y>>] \in A
    /\ \A n \in 1..Len(s) : F[1..(n - 1)] \in A => F[1..n] = g[<<F[1..(n - 1)], s[n]>>]

Run(a, A, S, g, b, s) ==
    /\ a \in [0..Len(s) -> A] /\ a[0] = b
    /\ \A n \in 1..Len(s) : s[n] \in S /\ a[n - 1] \in A /\ a[n] = g[<<a[n - 1], s[n]>>]

LEMMA FoldRun ==
    ASSUME NEW A, NEW S, NEW g, NEW b \in A, NEW s \in Seq(S), NEW F, Stepwise(F, A, S, g, b, s)
    PROVE  \E a : Run(a, A, S, g, b, s) /\ a[Len(s)] = F[DOMAIN s]
<1> DEFINE G == {n \in 0..Len(s) : F[1..n] \in A}
           a == [n \in 0..Len(s) |-> F[1..n]]
<1>1. DOMAIN s = 1..Len(s) /\ Len(s) \in Nat /\ \A n \in 1..Len(s) : s[n] \in S
  OBVIOUS
<1>2. 0 \in G
  BY <1>1 DEF Stepwise
<1>3. ASSUME NEW n \in 0..(Len(s) - 1), n \in G PROVE n + 1 \in G
  <2>1. n + 1 \in 1..Len(s) /\ n + 1 \in 0..Len(s) /\ (n + 1) - 1 = n
    BY <1>1
  <2>2. F[1..n] \in A
    BY <1>3
  <2>3. F[1..(n + 1)] = g[<<F[1..n], s[n + 1]>>]
    BY <2>1, <2>2 DEF Stepwise
  <2>4. s[n + 1] \in S
    BY <1>1, <2>1
  <2> QED BY <2>1, <2>2, <2>3, <2>4 DEF Stepwise
<1>4. 0..Len(s) \subseteq G
  <2> HIDE DEF G
  <2> QED BY <1>1, <1>2, <1>3, Ascending
<1>5. a \in [0..Len(s) -> A]
  BY <1>4
<1>6. a[0] = b /\ a[Len(s)] = F[DOMAIN s]
  BY <1>1 DEF Stepwise
<1>7. ASSUME NEW n \in 1..Len(s)
      PROVE  s[n] \in S /\ a[n - 1] \in A /\ a[n] = g[<<a[n - 1], s[n]>>]
  <2>1. n \in 0..Len(s) /\ n - 1 \in 0..Len(s)
    BY <1>1
  <2>2. F[1..(n - 1)] \in A
    BY <1>4, <2>1
  <2> QED BY <1>1, <2>1, <2>2 DEF Stepwise
<1> HIDE DEF a
<1>8. Run(a, A, S, g, b, s)
  BY <1>5, <1>6, <1>7 DEF Run
<1> QED BY <1>6, <1>8

--------------------------------------------------------------------------------
\* The sum of a sequence, term by term.
LEMMA TotalSteps ==
    ASSUME NEW s \in Seq(Nat)
    PROVE  \E a \in [0..Len(s) -> Nat] :
               /\ a[0] = 0 /\ a[Len(s)] = Total(s)
               /\ \A n \in 1..Len(s) : a[n] = a[n - 1] + s[n]
<1> DEFINE Op(x, y) == x + y
           g == [p \in Nat \X Nat |-> Op(p[1], p[2])]
           Body(F) == F = [t \in SUBSET DOMAIN s |->
                              IF t = {} THEN 0 ELSE Op(F[t \ {Max(t)}], s[Max(t)])]
           F == CHOOSE F : Body(F)
<1>1. g \in [Nat \X Nat -> Nat] /\ \A x, y \in Nat : g[<<x, y>>] = Op(x, y) /\ g[<<x, y>>] \in Nat
  OBVIOUS
<1>2. Total(s) = F[DOMAIN s]
  BY DEF Total, FoldLeft, MapThenFoldSet
<1> HIDE DEF Op, g
<1>3. PICK H : TypedFold(H, Nat, Nat, g, 0, s)
  BY <1>1, FoldTyped, 0 \in Nat
<1>4. Body(H)
  BY <1>1, <1>3 DEF TypedFold
<1>5. Body(F)
  BY <1>4
<1> HIDE DEF F
<1>6. F[1..0] = 0
  BY <1>5
<1>7. ASSUME NEW n \in 1..Len(s), F[1..(n - 1)] \in Nat PROVE F[1..n] = g[<<F[1..(n - 1)], s[n]>>]
  <2>1. /\ 1..n \in SUBSET DOMAIN s /\ 1..n # {}
        /\ Max(1..n) = n /\ (1..n) \ {Max(1..n)} = 1..(n - 1)
    BY FoldTake
  <2>2. F[1..n] = Op(F[1..(n - 1)], s[n])
    BY <1>5, <2>1
  <2>3. s[n] \in Nat
    OBVIOUS
  <2> QED BY <1>1, <1>7, <2>2, <2>3
<1> HIDE DEF Body
<1>8. Stepwise(F, Nat, Nat, g, 0, s)
  BY <1>1, <1>6, <1>7 DEF Stepwise
<1>9. PICK a : Run(a, Nat, Nat, g, 0, s) /\ a[Len(s)] = F[DOMAIN s]
  BY <1>8, FoldRun, 0 \in Nat
<1>10. /\ a \in [0..Len(s) -> Nat] /\ a[0] = 0
       /\ \A n \in 1..Len(s) : a[n] = Op(a[n - 1], s[n])
  BY <1>1, <1>9 DEF Run
<1>11. \A n \in 1..Len(s) : a[n] = a[n - 1] + s[n]
  BY <1>10 DEF Op
<1> QED BY <1>2, <1>9, <1>10, <1>11

--------------------------------------------------------------------------------
(***************************************************************************)
(* Sorting.                                                                *)
(***************************************************************************)
\* A finite set that a relation orders has an element that comes last.
LEMMA LastElement ==
    ASSUME NEW S, IsFiniteSet(S), S # {}, NEW R,
           \A x, y \in S : x # y => <<x, y>> \in R \/ <<y, x>> \in R,
           \A x, y, z \in S : <<x, y>> \in R /\ <<y, z>> \in R => <<x, z>> \in R
    PROVE  \E m \in S : \A x \in S \ {m} : <<x, m>> \in R
<1> DEFINE Has(T) == \E m \in T : \A x \in T \ {m} : <<x, m>> \in R
           G == {n \in Nat : \A T \in SUBSET S : T # {} /\ Cardinality(T) = n => Has(T)}
<1>1. Cardinality(S) \in Nat
  BY FS_CardinalityType
<1>2. \A T \in SUBSET S : IsFiniteSet(T) /\ (Cardinality(T) = 0 <=> T = {})
  BY FS_Subset, FS_EmptySet
<1>3. 0 \in G
  BY <1>2
<1>4. ASSUME NEW n \in 0..(Cardinality(S) - 1), n \in G PROVE n + 1 \in G
  <2>1. SUFFICES ASSUME NEW T \in SUBSET S, T # {}, Cardinality(T) = n + 1 PROVE Has(T)
    BY <1>1
  <2>2. PICK x \in T : TRUE
    BY <2>1
  <2> DEFINE U == T \ {x}
  <2>3. Cardinality(U) = n /\ U \in SUBSET S
    <3>1. IsFiniteSet(T) /\ n \in Nat
      BY <1>2
    <3>2. Cardinality(U) = Cardinality(T) - 1
      BY <3>1, <2>2, FS_RemoveElement
    <3> QED BY <3>1, <3>2, <2>1
  <2>4. CASE U = {}
    BY <2>2, <2>4
  <2>5. CASE U # {}
    <3>1. PICK m \in U : \A y \in U \ {m} : <<y, m>> \in R
      BY <1>4, <2>3, <2>5
    <3>2. CASE <<x, m>> \in R
      BY <2>2, <3>1, <3>2
    <3>3. CASE <<m, x>> \in R
      BY <2>2, <2>3, <3>1, <3>3
    <3> QED BY <2>2, <3>1, <3>2, <3>3
  <2> QED BY <2>4, <2>5
<1>5. Cardinality(S) \in G
  <2> HIDE DEF G
  <2>1. 0..Cardinality(S) \subseteq G
    BY <1>1, <1>3, <1>4, Ascending
  <2> QED BY <1>1, <2>1
<1> QED BY <1>5

\* So it can be sorted.
Arranges(s, S, R) ==
    s \in [1 .. Cardinality(S) -> S] /\ \A i, j \in DOMAIN s : i < j => <<s[i], s[j]>> \in R

LEMMA SortExists ==
    ASSUME NEW S, IsFiniteSet(S), NEW R,
           \A x, y \in S : x # y => <<x, y>> \in R \/ <<y, x>> \in R,
           \A x, y, z \in S : <<x, y>> \in R /\ <<y, z>> \in R => <<x, z>> \in R
    PROVE  \E s : Arranges(s, S, R)
<1> DEFINE Has(T, n) == \E s \in [1..n -> T] : \A i, j \in 1..n : i < j => <<s[i], s[j]>> \in R
           G == {n \in Nat : \A T \in SUBSET S : Cardinality(T) = n => Has(T, n)}
<1>1. Cardinality(S) \in Nat
  BY FS_CardinalityType
<1>2. \A T \in SUBSET S : IsFiniteSet(T) /\ (Cardinality(T) = 0 <=> T = {})
  BY FS_Subset, FS_EmptySet
<1>3. 0 \in G
  <2>1. SUFFICES ASSUME NEW T \in SUBSET S PROVE Has(T, 0)
    OBVIOUS
  <2> DEFINE s == [i \in 1..0 |-> i]
  <2>2. s \in [1..0 -> T] /\ \A i, j \in 1..0 : i < j => <<s[i], s[j]>> \in R
    OBVIOUS
  <2> HIDE DEF s
  <2> QED BY <2>2
<1>4. ASSUME NEW n \in 0..(Cardinality(S) - 1), n \in G PROVE n + 1 \in G
  <2>1. SUFFICES ASSUME NEW T \in SUBSET S, Cardinality(T) = n + 1 PROVE Has(T, n + 1)
    BY <1>1
  <2>2. IsFiniteSet(T) /\ T # {} /\ n \in Nat
    BY <1>2, <2>1
  <2>3. PICK m \in T : \A x \in T \ {m} : <<x, m>> \in R
    BY <2>2, LastElement
  <2> DEFINE U == T \ {m}
  <2>4. Cardinality(U) = n /\ U \in SUBSET S
    <3>1. Cardinality(U) = Cardinality(T) - 1
      BY <2>2, <2>3, FS_RemoveElement
    <3> QED BY <3>1, <2>1, <2>2
  <2>5. PICK s \in [1..n -> U] : \A i, j \in 1..n : i < j => <<s[i], s[j]>> \in R
    BY <1>4, <2>4
  <2> DEFINE t == [i \in 1..(n + 1) |-> IF i = n + 1 THEN m ELSE s[i]]
  <2>6. t \in [1..(n + 1) -> T]
    BY <2>2, <2>3
  <2>7. ASSUME NEW i \in 1..(n + 1), NEW j \in 1..(n + 1), i < j PROVE <<t[i], t[j]>> \in R
    <3>1. i \in 1..n /\ t[i] = s[i] /\ s[i] \in U
      BY <2>2, <2>7
    <3>2. CASE j = n + 1
      BY <2>3, <3>1, <3>2
    <3>3. CASE j # n + 1
      <4>1. j \in 1..n /\ t[j] = s[j]
        BY <2>2, <3>3
      <4> QED BY <2>5, <2>7, <3>1, <4>1
    <3> QED BY <3>2, <3>3
  <2> HIDE DEF t
  <2> QED BY <2>6, <2>7
<1>5. Cardinality(S) \in G
  <2> HIDE DEF G
  <2>1. 0..Cardinality(S) \subseteq G
    BY <1>1, <1>3, <1>4, Ascending
  <2> QED BY <1>1, <2>1
<1>6. PICK s \in [1 .. Cardinality(S) -> S] :
         \A i, j \in 1 .. Cardinality(S) : i < j => <<s[i], s[j]>> \in R
  BY <1>5
<1>7. Arranges(s, S, R)
  BY <1>6 DEF Arranges
<1> QED BY <1>7

\* The sorted sequence has the elements of the set, each once.
LEMMA SortedOnto ==
    ASSUME NEW S, IsFiniteSet(S), NEW R, \A x \in S : <<x, x>> \notin R,
           NEW s, Arranges(s, S, R)
    PROVE  /\ s \in Seq(S) /\ Len(s) = Cardinality(S) /\ Len(s) \in Nat
           /\ \A x \in S : \E i \in 1..Len(s) : s[i] = x
<1> DEFINE n == Cardinality(S)
<1>1. n \in Nat
  BY FS_CardinalityType
<1>2. /\ s \in [1..n -> S] /\ \A i, j \in 1..n : i < j => <<s[i], s[j]>> \in R
      /\ s \in Seq(S) /\ Len(s) = n
  BY <1>1 DEF Arranges
<1>3. IsFiniteSet(1..n) /\ Cardinality(1..n) = n
  BY <1>1, FS_Interval
<1>4. s \in Injection(1..n, S)
  <2>1. \A i, j \in 1..n : s[i] = s[j] => i = j
    <3>1. \A i, j \in 1..n : i < j => s[i] # s[j]
      BY <1>2
    <3>2. \A i, j \in 1..n : i < j \/ j < i \/ i = j
      BY <1>1
    <3> QED BY <3>1, <3>2
  <2> QED BY <1>2, <2>1 DEF Injection, IsInjective
<1>5. s \in Surjection(1..n, S)
  BY <1>3, <1>4, FS_Injection
<1> QED BY <1>1, <1>2, <1>5 DEF Surjection

--------------------------------------------------------------------------------
(***************************************************************************)
(* The events of a service, by date, and what they say of an instant.      *)
(***************************************************************************)
IsHistory(es) ==
    es \in Seq(Events) /\ \A i, j \in 1..Len(es) : i < j => es[i].id < es[j].id

Prior(e, f) == e.at < f.at \/ (e.at = f.at /\ e.id < f.id)

\* s has the events of es but those of other services, in order.
Orders(s, es) ==
    /\ s \in Seq(Events) /\ \A i, j \in 1..Len(s) : i < j => Prior(s[i], s[j])
    /\ \A i \in 1..Len(s) : s[i].kind # FOREIGN /\ \E k \in 1..Len(es) : es[k] = s[i]
    /\ \A k \in 1..Len(es) : es[k].kind # FOREIGN => \E i \in 1..Len(s) : s[i] = es[k]

LEMMA EventNumbers ==
    ASSUME NEW e \in Events
    PROVE  e.at \in Nat /\ e.id \in Nat /\ e.at <= MaxTime /\ e.kind \in Kinds
BY EventFields, AvailabilityAssumption DEF Time, Ids

LEMMA NormalizedOrders ==
    ASSUME NEW es, IsHistory(es) PROVE Orders(Normalized(es), es)
<1> DEFINE S == {e \in Range(es) : e.kind # FOREIGN}
           n == Cardinality(S)
           R == {p \in S \X S : Prior(p[1], p[2])}
           s == Normalized(es)
<1>1. es \in Seq(Events) /\ DOMAIN es = 1..Len(es) /\ Len(es) \in Nat
  BY DEF IsHistory
<1>2. IsFiniteSet(S)
  <2>1. es \in Surjection(1..Len(es), Range(es))
    BY <1>1 DEF Surjection, Range
  <2>2. IsFiniteSet(1..Len(es))
    BY <1>1, FS_Interval
  <2>3. IsFiniteSet(Range(es))
    BY <2>1, <2>2, FS_Surjection
  <2> QED BY <2>3, FS_Subset
<1>3. /\ S \subseteq Events
      /\ \A e \in S : e.kind # FOREIGN /\ \E k \in 1..Len(es) : es[k] = e
      /\ \A k \in 1..Len(es) : es[k].kind # FOREIGN => es[k] \in S
  BY <1>1 DEF Range
<1>4. \A e \in S : e.at \in Nat /\ e.id \in Nat
  BY <1>3, EventNumbers
<1>5. ASSUME NEW e \in S, NEW f \in S, e # f PROVE Prior(e, f) \/ Prior(f, e)
  <2>1. PICK i \in 1..Len(es), j \in 1..Len(es) : es[i] = e /\ es[j] = f
    BY <1>3
  <2>2. i < j \/ j < i
    BY <1>1, <1>5, <2>1
  <2>3. e.id < f.id \/ f.id < e.id
    BY <2>1, <2>2 DEF IsHistory
  <2> QED BY <1>4, <2>3 DEF Prior
<1>6. \A x, y, z \in S : Prior(x, y) /\ Prior(y, z) => Prior(x, z)
  BY <1>4 DEF Prior
<1>7. \A x \in S : ~ Prior(x, x)
  BY <1>4 DEF Prior
<1>8. \A x, y \in S : <<x, y>> \in R <=> Prior(x, y)
  OBVIOUS
<1>9. s = CHOOSE u \in [1..n -> S] : \A i, j \in DOMAIN u : i < j => Prior(u[i], u[j])
  BY DEF Normalized, Sorted, Prior
<1> HIDE DEF S, R, n
<1>10. \E u : Arranges(u, S, R)
  <2>1. /\ \A x, y \in S : x # y => <<x, y>> \in R \/ <<y, x>> \in R
        /\ \A x, y, z \in S : <<x, y>> \in R /\ <<y, z>> \in R => <<x, z>> \in R
    BY <1>5, <1>6, <1>8
  <2> QED BY <1>2, <2>1, SortExists
<1>11. \E u \in [1..n -> S] : \A i, j \in DOMAIN u : i < j => Prior(u[i], u[j])
  <2>1. PICK u : Arranges(u, S, R)
    BY <1>10
  <2>2. u \in [1..n -> S] /\ \A i, j \in DOMAIN u : i < j => <<u[i], u[j]>> \in R
    BY <2>1 DEF Arranges, n
  <2>3. \A i \in DOMAIN u : u[i] \in S
    BY <2>2
  <2> QED BY <1>8, <2>2, <2>3
<1>12. s \in [1..n -> S] /\ \A i, j \in DOMAIN s : i < j => Prior(s[i], s[j])
  BY <1>9, <1>11
<1> HIDE DEF s
<1>13. /\ s \in Seq(S) /\ Len(s) = n /\ Len(s) \in Nat
       /\ \A x \in S : \E i \in 1..Len(s) : s[i] = x
  <2>1. \A x \in S : <<x, x>> \notin R
    BY <1>7, <1>8
  <2>2. \A i \in DOMAIN s : s[i] \in S
    BY <1>12
  <2>3. Arranges(s, S, R)
    BY <1>8, <1>12, <2>2 DEF n, Arranges
  <2>4. /\ s \in Seq(S) /\ Len(s) = Cardinality(S) /\ Len(s) \in Nat
        /\ \A x \in S : \E i \in 1..Len(s) : s[i] = x
    BY <1>2, <2>1, <2>3, SortedOnto
  <2> QED BY <2>4 DEF n
<1>14. s \in Seq(Events) /\ DOMAIN s = 1..Len(s) /\ \A i \in 1..Len(s) : s[i] \in S
  BY <1>3, <1>13
<1> QED BY <1>3, <1>12, <1>13, <1>14 DEF Orders, s

\* The events of some kinds among the first n that are before t, and the last of them.
Before(s, kinds, n, t) == {i \in 1..n : s[i].kind \in kinds /\ s[i].at < t}
Says(s, I) == IF I = {} THEN UNKNOWN ELSE IF s[Max(I)].kind = DOWN THEN OFFLINE ELSE ONLINE

\* What a history says last of an instant is the last of its ordered events by then.
LEMMA LatestOrdered ==
    ASSUME NEW es, IsHistory(es), NEW s, Orders(s, es), NEW kinds, FOREIGN \notin kinds,
           NEW t \in Nat
    PROVE  LET S == SoFar(es, kinds, t)
               I == Before(s, kinds, Len(s), t + 1)
           IN  /\ S = {} <=> I = {}
               /\ S # {} => es[Latest(es, S)] = s[Max(I)]
<1> DEFINE S == SoFar(es, kinds, t)
           I == Before(s, kinds, Len(s), t + 1)
<1>1. /\ es \in Seq(Events) /\ Len(es) \in Nat /\ DOMAIN es = 1..Len(es)
      /\ s \in Seq(Events) /\ Len(s) \in Nat
  BY DEF IsHistory, Orders
<1>2. /\ \A k \in 1..Len(es) : es[k].at \in Nat /\ es[k].id \in Nat
      /\ \A k \in 1..Len(s) : s[k].at \in Nat /\ s[k].id \in Nat
  <2>1. (\A k \in 1..Len(es) : es[k] \in Events) /\ \A k \in 1..Len(s) : s[k] \in Events
    BY <1>1
  <2> QED BY <2>1, EventNumbers
<1>3. S = {k \in 1..Len(es) : es[k].kind \in kinds /\ es[k].at <= t}
  BY <1>1 DEF SoFar
<1>4. I = {k \in 1..Len(s) : s[k].kind \in kinds /\ s[k].at <= t}
  BY <1>2 DEF Before
<1> HIDE DEF S, I
<1>5. ASSUME NEW k \in S PROVE \E i \in I : s[i] = es[k]
  <2>1. k \in 1..Len(es) /\ es[k].kind # FOREIGN
    BY <1>3
  <2>2. PICK i \in 1..Len(s) : s[i] = es[k]
    BY <2>1 DEF Orders
  <2> QED BY <1>3, <1>4, <2>2
<1>6. ASSUME NEW i \in I PROVE \E k \in S : es[k] = s[i]
  <2>1. PICK k \in 1..Len(es) : es[k] = s[i]
    BY <1>4 DEF Orders
  <2> QED BY <1>3, <1>4, <2>1
<1>7. ASSUME S # {} PROVE es[Latest(es, S)] = s[Max(I)]
  <2> DEFINE k == Latest(es, S)
  <2>1. k \in S /\ \A j \in S : es[j].at < es[k].at \/ (es[j].at = es[k].at /\ j <= k)
    BY <1>1, <1>3, <1>7, LatestIs
  <2> HIDE DEF k
  <2>2. PICK i \in I : s[i] = es[k]
    BY <1>5, <2>1
  <2>3. Max(I) \in I /\ i <= Max(I)
    <3>1. I \in SUBSET (1..Len(s)) /\ I # {}
      BY <1>4, <2>2
    <3> QED BY <1>1, <3>1, LastPosition
  <2>4. PICK m \in S : es[m] = s[Max(I)]
    BY <1>6, <2>3
  <2>5. ASSUME i < Max(I) PROVE FALSE
    <3>1. Prior(es[k], es[m])
      BY <1>4, <2>2, <2>3, <2>4, <2>5 DEF Orders
    <3>2. es[m].at < es[k].at \/ (es[m].at = es[k].at /\ m <= k)
      BY <2>1
    <3>3. es[m].at = es[k].at /\ m <= k /\ es[k].id < es[m].id
      BY <1>2, <1>3, <2>1, <3>1, <3>2 DEF Prior
    <3>4. m \in 1..Len(es) /\ k \in 1..Len(es)
      BY <1>3, <2>1
    <3>5. m = k \/ es[m].id < es[k].id
      BY <3>3, <3>4 DEF IsHistory
    <3> QED BY <1>2, <3>3, <3>4, <3>5
  <2>6. i = Max(I)
    BY <1>4, <2>3, <2>5
  <2> QED BY <2>2, <2>6 DEF k
<1>8. S = {} <=> I = {}
  BY <1>5, <1>6
<1> QED BY <1>7, <1>8 DEF S, I

LEMMA StatusAtSays ==
    ASSUME NEW es, IsHistory(es), NEW s, Orders(s, es), NEW t \in Nat
    PROVE  StatusAt(es, t) = Says(s, Before(s, Transitions, Len(s), t + 1))
<1>1. FOREIGN \notin Transitions
  BY DEF FOREIGN, Transitions, DOWN, RECOVERED
<1> QED BY <1>1, LatestOrdered DEF StatusAt, Says

\* The last of a set with a greater position added.
LEMMA LastOfMore ==
    ASSUME NEW n \in Nat, NEW I \in SUBSET (1..(n - 1)), n > 0
    PROVE  Max(I \union {n}) = n
<1> DEFINE J == I \union {n}
<1>1. n \in Nat /\ J \in SUBSET (1..n) /\ J # {} /\ n \in J
  OBVIOUS
<1> HIDE DEF J
<1>2. Max(J) \in J /\ n <= Max(J)
  BY <1>1, LastPosition
<1>3. Max(J) \in 1..n
  BY <1>1, <1>2
<1> QED BY <1>1, <1>2, <1>3 DEF J

\* One more event is the last word if it is a transition.
LEMMA SaysMore ==
    ASSUME NEW s \in Seq(Events), NEW n \in 1..Len(s), NEW I \in SUBSET (1..(n - 1))
    PROVE  LET J == IF s[n].kind \in Transitions THEN I \union {n} ELSE I
           IN  Says(s, J) = StatusAfter(Says(s, I), s[n])
<1>1. CASE s[n].kind \notin Transitions
  BY <1>1 DEF StatusAfter, Transitions
<1>2. CASE s[n].kind \in Transitions
  <2>1. Max(I \union {n}) = n
    <3>1. n \in Nat /\ n > 0
      OBVIOUS
    <3> QED BY <3>1, LastOfMore
  <2>2. Says(s, I \union {n}) = IF s[n].kind = DOWN THEN OFFLINE ELSE ONLINE
    BY <2>1 DEF Says
  <2>3. StatusAfter(Says(s, I), s[n]) = IF s[n].kind = DOWN THEN OFFLINE ELSE ONLINE
    BY <1>2 DEF StatusAfter, Transitions, DOWN, RECOVERED
  <2> QED BY <1>2, <2>2, <2>3
<1> QED BY <1>1, <1>2

\* The status before an instant, event by event.
LEMMA StatusSteps ==
    ASSUME NEW s \in Seq(Events), NEW t \in Nat
    PROVE  \E a \in [0..Len(s) -> Statuses] :
               /\ a[0] = UNKNOWN /\ a[Len(s)] = StatusBefore(s, t)
               /\ \A n \in 1..Len(s) :
                     a[n] = IF s[n].at < t THEN StatusAfter(a[n - 1], s[n]) ELSE a[n - 1]
<1> DEFINE Op(status, e) == IF e.at < t THEN StatusAfter(status, e) ELSE status
           g == [p \in Statuses \X Events |-> Op(p[1], p[2])]
           Body(F) == F = [u \in SUBSET DOMAIN s |->
                              IF u = {} THEN UNKNOWN ELSE Op(F[u \ {Max(u)}], s[Max(u)])]
           F == CHOOSE F : Body(F)
<1>1. /\ g \in [Statuses \X Events -> Statuses]
      /\ \A x \in Statuses, y \in Events : g[<<x, y>>] = Op(x, y) /\ g[<<x, y>>] \in Statuses
  <2>1. \A x \in Statuses, y \in Events : Op(x, y) \in Statuses
    BY DEF StatusAfter, Statuses
  <2> HIDE DEF Op
  <2> QED BY <2>1
<1>2. StatusBefore(s, t) = F[DOMAIN s] /\ UNKNOWN \in Statuses
  BY DEF StatusBefore, FoldLeft, MapThenFoldSet, Statuses
<1> HIDE DEF Op, g
<1>3. PICK H : TypedFold(H, Statuses, Events, g, UNKNOWN, s)
  BY <1>1, <1>2, FoldTyped
<1>4. Body(H)
  BY <1>1, <1>3 DEF TypedFold
<1>5. Body(F)
  BY <1>4
<1> HIDE DEF F
<1>6. F[1..0] = UNKNOWN
  BY <1>5
<1>7. ASSUME NEW n \in 1..Len(s), F[1..(n - 1)] \in Statuses
      PROVE  F[1..n] = g[<<F[1..(n - 1)], s[n]>>]
  <2>1. /\ 1..n \in SUBSET DOMAIN s /\ 1..n # {}
        /\ Max(1..n) = n /\ (1..n) \ {Max(1..n)} = 1..(n - 1)
    BY FoldTake
  <2>2. F[1..n] = Op(F[1..(n - 1)], s[n])
    BY <1>5, <2>1
  <2>3. s[n] \in Events
    OBVIOUS
  <2> QED BY <1>1, <1>7, <2>2, <2>3
<1> HIDE DEF Body
<1>8. Stepwise(F, Statuses, Events, g, UNKNOWN, s)
  BY <1>1, <1>6, <1>7 DEF Stepwise
<1>9. PICK a : Run(a, Statuses, Events, g, UNKNOWN, s) /\ a[Len(s)] = F[DOMAIN s]
  BY <1>2, <1>8, FoldRun
<1>10. /\ a \in [0..Len(s) -> Statuses] /\ a[0] = UNKNOWN
       /\ \A n \in 1..Len(s) : a[n] = Op(a[n - 1], s[n])
  BY <1>1, <1>9 DEF Run
<1>11. \A n \in 1..Len(s) : a[n] = IF s[n].at < t THEN StatusAfter(a[n - 1], s[n]) ELSE a[n - 1]
  BY <1>10 DEF Op
<1> QED BY <1>2, <1>9, <1>10, <1>11

LEMMA StatusBeforeSays ==
    ASSUME NEW s \in Seq(Events), NEW t \in Nat
    PROVE  StatusBefore(s, t) = Says(s, Before(s, Transitions, Len(s), t))
<1>1. PICK a \in [0..Len(s) -> Statuses] :
          /\ a[0] = UNKNOWN /\ a[Len(s)] = StatusBefore(s, t)
          /\ \A n \in 1..Len(s) :
                a[n] = IF s[n].at < t THEN StatusAfter(a[n - 1], s[n]) ELSE a[n - 1]
  BY StatusSteps
<1> DEFINE I(n) == Before(s, Transitions, n, t)
           G == {n \in 0..Len(s) : a[n] = Says(s, I(n))}
<1>2. Len(s) \in Nat
  OBVIOUS
<1>3. 0 \in G
  BY <1>1 DEF Says, Before
<1>4. ASSUME NEW m \in 0..(Len(s) - 1), m \in G PROVE m + 1 \in G
  <2> DEFINE n == m + 1
  <2>1. n \in 1..Len(s) /\ n - 1 = m /\ n \in 0..Len(s)
    OBVIOUS
  <2>2. a[n] = IF s[n].at < t THEN StatusAfter(a[m], s[n]) ELSE a[m]
    BY <1>1, <2>1
  <2>3. I(m) \in SUBSET (1..(n - 1)) /\ a[m] = Says(s, I(m))
    BY <1>4, <2>1 DEF Before
  <2>4. \A i : i \in 1..n <=> i \in 1..m \/ i = n
    OBVIOUS
  <2>5. I(n) = IF s[n].kind \in Transitions /\ s[n].at < t THEN I(m) \union {n} ELSE I(m)
    BY <2>4 DEF Before
  <2> HIDE DEF n, I
  <2>6. Says(s, IF s[n].kind \in Transitions THEN I(m) \union {n} ELSE I(m))
          = StatusAfter(Says(s, I(m)), s[n])
    BY <2>1, <2>3, SaysMore
  <2>7. a[n] = Says(s, I(n))
    BY <2>2, <2>3, <2>5, <2>6
  <2> QED BY <2>1, <2>7 DEF n
<1>5. 0..Len(s) \subseteq G
  <2> HIDE DEF G
  <2> QED BY <1>2, <1>3, <1>4, Ascending
<1> QED BY <1>1, <1>2, <1>5

\* Ids of the retained events ascend too.
LEMMA RetainedHistory == ASSUME HistoryInv PROVE IsHistory(events)
<1>1. /\ events \in Seq(Events) /\ all \in Seq(Events) /\ Len(events) \in Nat /\ Len(all) \in Nat
      /\ Len(events) <= Len(all)
      /\ \A k \in 1..Len(events) : events[k] = all[k + (Len(all) - Len(events))]
  BY DEF HistoryInv, TypeOK, Newest
<1>2. ASSUME NEW i \in 1..Len(events), NEW j \in 1..Len(events), i < j
      PROVE  events[i].id < events[j].id
  <2> DEFINE d == Len(all) - Len(events)
             k == i + d
             l == j + d
  <2>1. l \in 1..Len(all) /\ k \in 1..(l - 1) /\ events[i] = all[k] /\ events[j] = all[l]
    BY <1>1, <1>2
  <2> HIDE DEF k, l
  <2> QED BY <2>1 DEF HistoryInv, IdsAscend
<1> QED BY <1>1, <1>2 DEF IsHistory

\* The last transition the tracker recorded is the last one there is, and the latest.
THEOREM TrackedIsKnown == Spec => []KnownIsTracked
<1>1. HistoryInv => KnownIsTracked
  <2>1. SUFFICES ASSUME HistoryInv, recorded, SoFar(events, Transitions, clock) # {}
                 PROVE  StatusBefore(Normalized(events), clock + 1) = tracker
    BY DEF KnownIsTracked
  <2> DEFINE s == Normalized(events)
             S == SoFar(events, Transitions, clock)
             A == SoFar(all, Transitions, clock)
             i == Latest(all, A)
  <2>2. /\ IsHistory(events) /\ clock \in Nat /\ clock + 1 \in Nat
        /\ all \in Seq(Events) /\ DOMAIN all = 1..Len(all) /\ Len(all) \in Nat
        /\ events \in Seq(Events) /\ DOMAIN events = 1..Len(events)
    <3>1. all \in Seq(Events) /\ events \in Seq(Events)
      BY <2>1 DEF HistoryInv, TypeOK
    <3> QED BY <2>1, <3>1, RetainedHistory, AvailabilityAssumption DEF HistoryInv, TypeOK, Time
  <2>3. StatusBefore(s, clock + 1) = StatusAt(events, clock)
    <3>1. Orders(s, events)
      BY <2>2, NormalizedOrders
    <3>2. s \in Seq(Events)
      BY <3>1 DEF Orders
    <3> HIDE DEF s
    <3> QED BY <2>2, <3>1, <3>2, StatusBeforeSays, StatusAtSays
  <2>4. events[Latest(events, S)].kind \in Transitions
    <3>1. S \in SUBSET (1..Len(events)) /\ \A k \in S : events[k].kind \in Transitions
      BY <2>2 DEF SoFar
    <3> HIDE DEF S
    <3> QED BY <2>1, <2>2, <3>1, LatestIs DEF S
  <2>5. A # {} /\ all[i] = events[Latest(events, S)]
    <3>1. events[Latest(events, S)].kind # MAINTENANCE_ENDED
      BY <2>4 DEF Transitions, DOWN, RECOVERED, MAINTENANCE_ENDED
    <3> QED BY <2>1, <2>2, <3>1, RetainedIsLatest
  <2>6. A = {k \in 1..Len(all) : all[k].kind \in Transitions}
    BY <2>1, <2>2 DEF SoFar, HistoryInv, DatesAscend
  <2>7. i \in A /\ \A j \in A : all[j].at < all[i].at \/ (all[j].at = all[i].at /\ j <= i)
    <3>1. A \in SUBSET (1..Len(all))
      BY <2>6
    <3> HIDE DEF A
    <3> QED BY <2>2, <2>5, <3>1, LatestIs
  <2> HIDE DEF i, A
  <2>8. ASSUME NEW k \in (i + 1)..Len(all), all[k].kind \in Transitions PROVE FALSE
    <3>1. i \in 1..Len(all) /\ k \in 1..Len(all) /\ i \in 1..(k - 1) /\ ~ (k <= i)
      BY <2>2, <2>6, <2>7
    <3>2. k \in A /\ all[k].kind # MAINTENANCE_ENDED
      BY <2>6, <2>8, <3>1 DEF Transitions, DOWN, RECOVERED, MAINTENANCE_ENDED
    <3>3. all[k].at < all[i].at
      BY <2>7, <3>1, <3>2
    <3>4. all[i].at <= all[k].at
      BY <2>1, <3>1, <3>2 DEF HistoryInv, DatesAscend
    <3>5. all[i].at \in Nat /\ all[k].at \in Nat
      <4>1. all[i] \in Events /\ all[k] \in Events
        BY <2>2, <3>1
      <4> QED BY <4>1, EventNumbers
    <3> QED BY <3>3, <3>4, <3>5
  <2>9. all[i].kind = KindOf(tracker) /\ tracker # UNKNOWN
    BY <2>1, <2>6, <2>7, <2>8 DEF HistoryInv, TrackerSaid
  <2>10. StatusAt(events, clock) = tracker
    <3>1. tracker \in {ONLINE, OFFLINE}
      BY <2>1, <2>9 DEF HistoryInv, TypeOK, Statuses
    <3> QED BY <2>1, <2>5, <2>9, <3>1 DEF StatusAt, KindOf, DOWN, RECOVERED
  <2> QED BY <2>3, <2>10
<1> QED BY <1>1, History, PTL

--------------------------------------------------------------------------------
(***************************************************************************)
(* The segments of a report.                                               *)
(***************************************************************************)
Spans == Nat \X Nat \X Statuses
Progress == [status : Statuses, cursor : Nat, segments : Seq(Spans)]

\* Segments in the period up to c, one after the other.
Tiled(segments, start, c) ==
    /\ segments \in Seq(Spans)
    /\ \A i \in 1..Len(segments) :
          /\ start <= segments[i][1] /\ segments[i][1] < segments[i][2] /\ segments[i][2] <= c
          /\ segments[i][3] \in {ONLINE, OFFLINE}
    /\ \A i, j \in 1..Len(segments) : i < j => segments[i][2] <= segments[j][1]

\* They hold of every instant of it what now does.
Covers(segments, now, start, c) ==
    \A t \in start..(c - 1), st \in {ONLINE, OFFLINE} :
        now[t] = st <=> \E i \in 1..Len(segments) : /\ segments[i][1] <= t /\ t < segments[i][2]
                                                    /\ segments[i][3] = st

LEMMA LastingType ==
    ASSUME NEW acc \in Progress, NEW to \in Nat PROVE Lasting(acc, to) \in Seq(Spans)
<1>1. acc.segments \in Seq(Spans) /\ acc.cursor \in Nat /\ acc.status \in Statuses
  BY DEF Progress
<1>2. <<acc.cursor, to, acc.status>> \in Spans
  BY <1>1 DEF Spans
<1> QED BY <1>1, <1>2 DEF Lasting

\* Segments() event by event.
LEMMA SegmentSteps ==
    ASSUME NEW s \in Seq(Events), NEW start \in Nat, NEW end \in Nat
    PROVE  LET b == [status |-> StatusBefore(s, start), cursor |-> start, segments |-> << >>]
           IN  \E a \in [0..Len(s) -> Progress] :
               /\ a[0] = b /\ Lasting(a[Len(s)], end) = Segments(s, start, end)
               /\ \A n \in 1..Len(s) :
                     a[n] = IF s[n].at \in start..end THEN Passed(a[n - 1], s[n]) ELSE a[n - 1]
<1> DEFINE Op(acc, e) == IF e.at \in start..end THEN Passed(acc, e) ELSE acc
           b == [status |-> StatusBefore(s, start), cursor |-> start, segments |-> << >>]
           g == [p \in Progress \X Events |-> Op(p[1], p[2])]
           Body(F) == F = [u \in SUBSET DOMAIN s |->
                              IF u = {} THEN b ELSE Op(F[u \ {Max(u)}], s[Max(u)])]
           F == CHOOSE F : Body(F)
<1>1. /\ g \in [Progress \X Events -> Progress]
      /\ \A x \in Progress, y \in Events : g[<<x, y>>] = Op(x, y) /\ g[<<x, y>>] \in Progress
  <2>1. ASSUME NEW x \in Progress, NEW y \in Events PROVE Op(x, y) \in Progress
    <3>1. y.at \in Nat /\ x.cursor \in Nat /\ x.status \in Statuses
      BY EventNumbers DEF Progress
    <3>2. Lasting(x, y.at) \in Seq(Spans)
      BY <3>1, LastingType
    <3>3. StatusAfter(x.status, y) \in Statuses
      BY <3>1 DEF StatusAfter, Statuses
    <3>4. Later(x.cursor, y.at) \in Nat
      BY <3>1 DEF Later
    <3>5. Passed(x, y) \in Progress
      BY <3>2, <3>3, <3>4 DEF Passed, Progress
    <3> QED BY <3>5
  <2> HIDE DEF Op
  <2> QED BY <2>1
<1>2. Segments(s, start, end) = Lasting(F[DOMAIN s], end)
  BY DEF Segments, FoldLeft, MapThenFoldSet
<1>0. b \in Progress
  <2>1. StatusBefore(s, start) \in Statuses
    <3>1. PICK a \in [0..Len(s) -> Statuses] : a[Len(s)] = StatusBefore(s, start)
      BY StatusSteps
    <3>2. Len(s) \in 0..Len(s)
      OBVIOUS
    <3> QED BY <3>1, <3>2
  <2> QED BY <2>1 DEF Progress
<1> HIDE DEF Op, g, b
<1>3. PICK H : TypedFold(H, Progress, Events, g, b, s)
  BY <1>0, <1>1, FoldTyped
<1>4. Body(H)
  BY <1>1, <1>3 DEF TypedFold
<1>5. Body(F)
  BY <1>4
<1> HIDE DEF F
<1>6. F[1..0] = b
  BY <1>5
<1>7. ASSUME NEW n \in 1..Len(s), F[1..(n - 1)] \in Progress
      PROVE  F[1..n] = g[<<F[1..(n - 1)], s[n]>>]
  <2>1. /\ 1..n \in SUBSET DOMAIN s /\ 1..n # {}
        /\ Max(1..n) = n /\ (1..n) \ {Max(1..n)} = 1..(n - 1)
    BY FoldTake
  <2>2. F[1..n] = Op(F[1..(n - 1)], s[n])
    BY <1>5, <2>1
  <2>3. s[n] \in Events
    OBVIOUS
  <2> QED BY <1>1, <1>7, <2>2, <2>3
<1> HIDE DEF Body
<1>8. Stepwise(F, Progress, Events, g, b, s)
  BY <1>1, <1>6, <1>7 DEF Stepwise
<1>9. PICK a : Run(a, Progress, Events, g, b, s) /\ a[Len(s)] = F[DOMAIN s]
  BY <1>0, <1>8, FoldRun
<1>10. /\ a \in [0..Len(s) -> Progress] /\ a[0] = b
       /\ \A n \in 1..Len(s) : a[n] = Op(a[n - 1], s[n])
  BY <1>1, <1>9 DEF Run
<1>11. \A n \in 1..Len(s) : a[n] = IF s[n].at \in start..end THEN Passed(a[n - 1], s[n]) ELSE a[n - 1]
  BY <1>10 DEF Op
<1>12. Lasting(a[Len(s)], end) = Segments(s, start, end)
  BY <1>2, <1>9
<1> QED BY <1>10, <1>11, <1>12 DEF b

\* One more segment, up to an instant until when the status held.
LEMMA LastingCovers ==
    ASSUME NEW acc \in Progress, NEW now \in [Nat -> Statuses], NEW start \in Nat, NEW to \in Nat,
           start <= acc.cursor, acc.cursor <= to,
           Tiled(acc.segments, start, acc.cursor), Covers(acc.segments, now, start, acc.cursor),
           \A t \in acc.cursor..(to - 1) : now[t] = acc.status
    PROVE  Tiled(Lasting(acc, to), start, to) /\ Covers(Lasting(acc, to), now, start, to)
<1> DEFINE c == acc.cursor
           st == acc.status
           u == acc.segments
           v == Lasting(acc, to)
           e == <<c, to, st>>
<1>1. u \in Seq(Spans) /\ c \in Nat /\ st \in Statuses /\ Len(u) \in Nat /\ e \in Spans
  BY DEF Progress, Spans
<1>2. v = IF st # UNKNOWN /\ to > c THEN Append(u, e) ELSE u
  BY DEF Lasting
<1>3. v \in Seq(Spans)
  BY LastingType
<1>4. \A i \in 1..Len(u) : /\ u[i][1] \in Nat /\ u[i][2] \in Nat
                           /\ start <= u[i][1] /\ u[i][1] < u[i][2] /\ u[i][2] <= c
                           /\ u[i][3] \in {ONLINE, OFFLINE}
  <2>1. \A i \in 1..Len(u) : u[i] \in Spans
    BY <1>1
  <2> QED BY <2>1 DEF Tiled, Spans
<1>5. \A i, j \in 1..Len(u) : i < j => u[i][2] <= u[j][1]
  BY DEF Tiled
<1>6. \A t \in start..(c - 1), x \in {ONLINE, OFFLINE} :
         now[t] = x <=> \E i \in 1..Len(u) : u[i][1] <= t /\ t < u[i][2] /\ u[i][3] = x
  BY DEF Covers
<1>7. start <= c /\ c <= to /\ \A t \in c..(to - 1) : now[t] = st
  OBVIOUS
<1>8. e[1] = c /\ e[2] = to /\ e[3] = st
  OBVIOUS
<1> HIDE DEF c, st, u, v, e
<1>9. CASE st # UNKNOWN /\ to > c
  <2>1. /\ v = Append(u, e) /\ Len(v) = Len(u) + 1 /\ v[Len(u) + 1] = e
        /\ \A i \in 1..Len(u) : v[i] = u[i]
    BY <1>1, <1>2, <1>9
  <2>2. \A i \in 1..Len(v) : i \in 1..Len(u) \/ i = Len(u) + 1
    BY <1>1, <2>1
  <2>3. st \in {ONLINE, OFFLINE}
    BY <1>1, <1>9 DEF Statuses
  <2>4. Tiled(v, start, to)
    <3>1. ASSUME NEW i \in 1..Len(v)
          PROVE  /\ start <= v[i][1] /\ v[i][1] < v[i][2] /\ v[i][2] <= to
                 /\ v[i][3] \in {ONLINE, OFFLINE}
      <4>1. CASE i \in 1..Len(u)
        <5>1. v[i] = u[i]
          BY <2>1, <4>1
        <5>2. u[i][2] <= to
          BY <1>1, <1>4, <1>7, <4>1
        <5> QED BY <1>4, <4>1, <5>1, <5>2
      <4>2. CASE i = Len(u) + 1
        BY <1>1, <1>7, <1>8, <1>9, <2>1, <2>3, <4>2
      <4> QED BY <2>2, <4>1, <4>2
    <3>2. ASSUME NEW i \in 1..Len(v), NEW j \in 1..Len(v), i < j PROVE v[i][2] <= v[j][1]
      <4>1. i \in 1..Len(u)
        BY <1>1, <2>1, <3>2
      <4>2. CASE j \in 1..Len(u)
        BY <1>5, <2>1, <3>2, <4>1, <4>2
      <4>3. CASE j = Len(u) + 1
        BY <1>4, <1>8, <2>1, <4>1, <4>3
      <4> QED BY <2>2, <4>2, <4>3
    <3> QED BY <1>3, <3>1, <3>2 DEF Tiled
  <2>5. ASSUME NEW t \in start..(to - 1), NEW x \in {ONLINE, OFFLINE}
        PROVE  now[t] = x <=> \E i \in 1..Len(v) : v[i][1] <= t /\ t < v[i][2] /\ v[i][3] = x
    <3>1. CASE t < c
      <4>1. t \in start..(c - 1)
        BY <1>1, <3>1
      <4>2. ~ (v[Len(u) + 1][1] <= t)
        BY <1>1, <1>8, <2>1, <3>1
      <4>3. (\E i \in 1..Len(v) : v[i][1] <= t /\ t < v[i][2] /\ v[i][3] = x)
              <=> \E i \in 1..Len(u) : u[i][1] <= t /\ t < u[i][2] /\ u[i][3] = x
        <5>1. \A i \in 1..Len(u) : i \in 1..Len(v)
          BY <1>1, <2>1
        <5> QED BY <2>1, <2>2, <4>2, <5>1
      <4> QED BY <1>6, <4>1, <4>3
    <3>2. CASE ~ (t < c)
      <4>1. t \in c..(to - 1) /\ now[t] = st
        BY <1>1, <1>7, <3>2
      <4>2. \A i \in 1..Len(u) : ~ (t < v[i][2])
        BY <1>1, <1>4, <2>1, <3>2
      <4>3. Len(u) + 1 \in 1..Len(v) /\ v[Len(u) + 1][1] <= t /\ t < v[Len(u) + 1][2]
            /\ v[Len(u) + 1][3] = st
        BY <1>1, <1>8, <2>1, <4>1
      <4> QED BY <2>2, <4>1, <4>2, <4>3
    <3> QED BY <3>1, <3>2
  <2> QED BY <2>4, <2>5 DEF Covers, v
<1>10. CASE ~ (st # UNKNOWN /\ to > c)
  <2>1. v = u
    BY <1>2, <1>10
  <2>2. Tiled(v, start, to)
    <3>1. \A i \in 1..Len(u) : u[i][2] <= to
      BY <1>1, <1>4, <1>7
    <3> QED BY <1>3, <1>4, <1>5, <2>1, <3>1 DEF Tiled
  <2>3. ASSUME NEW t \in start..(to - 1), NEW x \in {ONLINE, OFFLINE}
        PROVE  now[t] = x <=> \E i \in 1..Len(v) : v[i][1] <= t /\ t < v[i][2] /\ v[i][3] = x
    <3>1. CASE t < c
      <4>1. t \in start..(c - 1)
        BY <1>1, <3>1
      <4> QED BY <1>6, <2>1, <4>1
    <3>2. CASE ~ (t < c)
      <4>1. t \in c..(to - 1) /\ now[t] = st /\ to > c
        BY <1>1, <1>7, <3>2
      <4>2. now[t] # x
        BY <1>10, <4>1 DEF UNKNOWN, ONLINE, OFFLINE
      <4>3. \A i \in 1..Len(u) : ~ (t < u[i][2])
        BY <1>1, <1>4, <3>2
      <4> QED BY <2>1, <4>2, <4>3
    <3> QED BY <3>1, <3>2
  <2> QED BY <2>2, <2>3 DEF Covers, v
<1> QED BY <1>9, <1>10 DEF v

\* Events by date.
ByDate(s) == s \in Seq(Events) /\ \A i, j \in 1..Len(s) : i < j => s[i].at <= s[j].at

\* The status of each instant.
StatusNow(s) == [t \in Nat |-> Says(s, Before(s, Transitions, Len(s), t + 1))]

LEMMA SaysType == ASSUME NEW s, NEW I PROVE Says(s, I) \in Statuses
BY DEF Says, Statuses

\* The segments of a report are in the period, one after the other, and say of each of
\* its instants what the events do.
LEMMA SegmentsCover ==
    ASSUME NEW s, ByDate(s), NEW start \in Nat, NEW end \in Nat, start < end
    PROVE  /\ Tiled(Segments(s, start, end), start, end)
           /\ Covers(Segments(s, start, end), StatusNow(s), start, end)
<1> DEFINE b == [status |-> StatusBefore(s, start), cursor |-> start, segments |-> << >>]
           now == StatusNow(s)
           l == Len(s)
           Seen(n) == {i \in 1..l : /\ s[i].kind \in Transitions
                                    /\ s[i].at < start \/ (i <= n /\ s[i].at <= end)}
<1>1. s \in Seq(Events) /\ l \in Nat /\ now \in [Nat -> Statuses]
  BY SaysType DEF ByDate, StatusNow
<1>2. \A i \in 1..l : s[i] \in Events /\ s[i].at \in Nat
  <2>1. \A i \in 1..l : s[i] \in Events
    BY <1>1
  <2> QED BY <2>1, EventNumbers
<1>3. PICK a \in [0..l -> Progress] :
          /\ a[0] = b /\ Lasting(a[l], end) = Segments(s, start, end)
          /\ \A n \in 1..l :
                a[n] = IF s[n].at \in start..end THEN Passed(a[n - 1], s[n]) ELSE a[n - 1]
  BY <1>1, SegmentSteps
<1> DEFINE Good(n) ==
             /\ a[n].status = Says(s, Seen(n))
             /\ a[n].cursor \in start..end
             /\ \A i \in 1..n : s[i].at \in start..end => s[i].at <= a[n].cursor
             /\ \A i \in (n + 1)..l : s[i].at >= start => s[i].at >= a[n].cursor
             /\ Tiled(a[n].segments, start, a[n].cursor)
             /\ Covers(a[n].segments, now, start, a[n].cursor)
           G == {n \in 0..l : Good(n)}
\* Until the next event of the period, or its end, the status is the last one.
<1>4. ASSUME NEW n \in 0..l, Good(n), NEW to \in start..end,
             \A i \in (n + 1)..l : s[i].at < start \/ to <= s[i].at
      PROVE  \A t \in a[n].cursor..(to - 1) : now[t] = a[n].status
  <2>1. SUFFICES ASSUME NEW t \in a[n].cursor..(to - 1)
                 PROVE  Before(s, Transitions, l, t + 1) = Seen(n)
    <3>1. a[n].status = Says(s, Seen(n)) /\ a[n].cursor \in Nat
      BY <1>4
    <3>2. \A t \in a[n].cursor..(to - 1) : now[t] = Says(s, Before(s, Transitions, l, t + 1))
      <4>1. \A t \in Nat : now[t] = Says(s, Before(s, Transitions, l, t + 1))
        BY DEF StatusNow
      <4> HIDE DEF now, Seen, l
      <4>2. \A t \in a[n].cursor..(to - 1) : t \in Nat
        BY <3>1
      <4> QED BY <4>1, <4>2
    <3> HIDE DEF Seen, now
    <3> QED BY <3>1, <3>2
  <2>2. t \in Nat /\ a[n].cursor \in Nat /\ start <= a[n].cursor /\ a[n].cursor <= t /\ t < to /\ to <= end
    BY <1>4
  <2>3. ASSUME NEW i \in 1..l
        PROVE  s[i].at < t + 1 <=> s[i].at < start \/ (i <= n /\ s[i].at <= end)
    <3>1. s[i].at \in Nat
      BY <1>2
    <3>2. CASE i <= n
      <4>1. i \in 1..n
        BY <3>2
      <4>2. s[i].at \in start..end => s[i].at <= a[n].cursor
        BY <1>4, <4>1
      <4> QED BY <2>2, <3>1, <3>2, <4>2
    <3>3. CASE ~ (i <= n)
      <4>1. i \in (n + 1)..l
        BY <1>1, <3>3
      <4>2. s[i].at < start \/ to <= s[i].at
        BY <1>4, <4>1
      <4> QED BY <2>2, <3>1, <3>3, <4>2
    <3> QED BY <3>2, <3>3
  <2> QED BY <2>3 DEF Before
<1>5. 0 \in G
  <2>1. /\ a[0].status = StatusBefore(s, start) /\ a[0].cursor = start /\ a[0].segments = << >>
    BY <1>3
  <2>2. Seen(0) = Before(s, Transitions, l, start)
    <3>1. \A i \in 1..l : ~ (i <= 0)
      BY <1>1
    <3> QED BY <3>1 DEF Before
  <2>3. StatusBefore(s, start) = Says(s, Seen(0))
    BY <1>1, <2>2, StatusBeforeSays
  <2>4. Len(<< >>) = 0 /\ << >> \in Seq(Spans)
    OBVIOUS
  <2>5. Tiled(<< >>, start, start)
    BY <2>4 DEF Tiled
  <2>6. Covers(<< >>, now, start, start)
    <3>1. \A t \in start..(start - 1) : FALSE
      OBVIOUS
    <3> QED BY <3>1 DEF Covers
  <2> HIDE DEF Seen, now
  <2> QED BY <1>1, <1>2, <2>1, <2>3, <2>5, <2>6
<1>6. ASSUME NEW m \in 0..(l - 1), m \in G PROVE m + 1 \in G
  <2> DEFINE n == m + 1
             e == s[n]
             acc == a[m]
  <2>1. n \in 1..l /\ n \in 0..l /\ n - 1 = m /\ m \in 0..l /\ m \in Nat
    BY <1>1
  <2>2. acc \in Progress /\ e \in Events /\ e.at \in Nat /\ Good(m)
    BY <1>2, <1>6, <2>1
  <2>3. a[n] = IF e.at \in start..end THEN Passed(acc, e) ELSE acc
    BY <1>3, <2>1
  <2>4. \A i : i \in 1..n <=> i \in 1..m \/ i = n
    BY <2>1
  <2>5. \A i \in (n + 1)..l : i \in (m + 1)..l /\ e.at <= s[i].at
    BY <1>1, <2>1 DEF ByDate
  <2>6. \A i \in (m + 1)..l : i = n \/ i \in (n + 1)..l
    BY <1>1, <2>1
  <2>7. CASE e.at \notin start..end
    <3>1. Seen(n) = Seen(m)
      <4>1. \A i \in 1..l : i <= n <=> i <= m \/ i = n
        BY <1>1, <2>1
      <4>2. ~ (e.at <= end) \/ e.at < start
        BY <2>2, <2>7
      <4> QED BY <4>1, <4>2
    <3>2. a[n] = acc
      BY <2>3, <2>7
    <3>3. \A i \in 1..n : s[i].at \in start..end => s[i].at <= acc.cursor
      BY <2>2, <2>4, <2>7
    <3> HIDE DEF Seen, now
    <3>4. Good(n)
      BY <2>2, <2>5, <3>1, <3>2, <3>3
    <3> HIDE DEF Good
    <3> QED BY <2>1, <3>4
  <2>8. CASE e.at \in start..end
    <3>1. /\ a[n].status = StatusAfter(acc.status, e) /\ a[n].cursor = Later(acc.cursor, e.at)
          /\ a[n].segments = Lasting(acc, e.at)
      BY <2>3, <2>8 DEF Passed
    <3>2. n \in (m + 1)..l /\ e.at >= acc.cursor /\ acc.cursor \in Nat /\ start <= acc.cursor
      BY <1>1, <2>1, <2>2, <2>8
    <3>3. a[n].cursor = e.at
      BY <2>2, <3>1, <3>2 DEF Later
    <3>4. \A t \in acc.cursor..(e.at - 1) : now[t] = acc.status
      <4>1. \A i \in (m + 1)..l : s[i].at < start \/ e.at <= s[i].at
        BY <2>2, <2>5, <2>6
      <4> HIDE DEF Good, now
      <4> QED BY <1>4, <2>1, <2>2, <2>8, <4>1
    <3>5. Tiled(Lasting(acc, e.at), start, e.at) /\ Covers(Lasting(acc, e.at), now, start, e.at)
      <4> HIDE DEF now
      <4> QED BY <1>1, <2>2, <3>2, <3>4, LastingCovers
    <3>6. Seen(n) = IF e.kind \in Transitions THEN Seen(m) \union {n} ELSE Seen(m)
      <4>1. \A i \in 1..l : i <= n <=> i <= m \/ i = n
        BY <1>1, <2>1
      <4>2. e.at <= end
        BY <2>2, <2>8
      <4> QED BY <2>1, <4>1, <4>2
    <3>7. Seen(m) \in SUBSET (1..(n - 1))
      <4>1. SUFFICES ASSUME NEW i \in 1..l, s[i].at < start, ~ (i <= m) PROVE FALSE
        BY <1>1, <2>1
      <4>2. i = n \/ i \in (n + 1)..l
        BY <1>1, <2>1, <4>1
      <4>3. e.at <= s[i].at
        BY <2>2, <2>5, <4>2
      <4> QED BY <1>2, <2>2, <2>8, <4>1, <4>3
    <3>8. a[n].status = Says(s, Seen(n))
      <4> HIDE DEF Seen
      <4>1. Says(s, IF e.kind \in Transitions THEN Seen(m) \union {n} ELSE Seen(m))
              = StatusAfter(Says(s, Seen(m)), e)
        BY <1>1, <2>1, <3>7, SaysMore
      <4> QED BY <2>2, <3>1, <3>6, <4>1
    <3>9. \A i \in 1..n : s[i].at \in start..end => s[i].at <= e.at
      <4>1. SUFFICES ASSUME NEW i \in 1..m PROVE s[i].at <= e.at
        BY <2>2, <2>4
      <4>2. i \in 1..l /\ i < n
        BY <2>1
      <4> QED BY <2>1, <4>2 DEF ByDate
    <3>10. \A i \in (n + 1)..l : s[i].at >= start => s[i].at >= e.at
      <4>1. \A i \in (n + 1)..l : i \in 1..l
        BY <2>1
      <4> QED BY <1>2, <2>2, <2>5, <4>1
    <3> HIDE DEF Seen, now
    <3>11. Good(n)
      BY <2>8, <3>1, <3>3, <3>5, <3>8, <3>9, <3>10
    <3> HIDE DEF Good
    <3> QED BY <2>1, <3>11
  <2> QED BY <2>7, <2>8
<1>7. Good(l)
  <2>1. 0..l \subseteq G
    <3> HIDE DEF G
    <3> QED BY <1>1, <1>5, <1>6, Ascending
  <2> QED BY <1>1, <2>1
<1>8. \A t \in a[l].cursor..(end - 1) : now[t] = a[l].status
  <2>1. end \in start..end /\ l \in 0..l /\ \A i \in (l + 1)..l : FALSE
    BY <1>1
  <2> HIDE DEF Good, now
  <2> QED BY <1>4, <1>7, <2>1
<1>9. a[l] \in Progress /\ start <= a[l].cursor /\ a[l].cursor <= end
  BY <1>1, <1>7
<1>10. Tiled(a[l].segments, start, a[l].cursor) /\ Covers(a[l].segments, now, start, a[l].cursor)
  BY <1>7
<1> HIDE DEF now, Good
<1>11. Tiled(Lasting(a[l], end), start, end) /\ Covers(Lasting(a[l], end), now, start, end)
  BY <1>1, <1>8, <1>9, <1>10, LastingCovers
<1> QED BY <1>3, <1>11 DEF now

--------------------------------------------------------------------------------
(***************************************************************************)
(* Durations are numbers of instants.                                      *)
(***************************************************************************)
\* A sum of the sizes of sets that have no element in common.
LEMMA TotalOfParts ==
    ASSUME NEW f \in Seq(Nat), NEW P,
           \A i \in 1..Len(f) : IsFiniteSet(P[i]) /\ Cardinality(P[i]) = f[i],
           \A i, j \in 1..Len(f) : i < j => P[i] \intersect P[j] = {}
    PROVE  Total(f) = Cardinality(UNION {P[i] : i \in 1..Len(f)})
<1> DEFINE U(n) == UNION {P[i] : i \in 1..n}
           l == Len(f)
<1>1. l \in Nat
  OBVIOUS
<1>2. PICK a \in [0..l -> Nat] :
          /\ a[0] = 0 /\ a[l] = Total(f)
          /\ \A n \in 1..l : a[n] = a[n - 1] + f[n]
  BY TotalSteps
<1> DEFINE G == {n \in 0..l : IsFiniteSet(U(n)) /\ Cardinality(U(n)) = a[n]}
<1>3. 0 \in G
  <2>1. U(0) = {}
    OBVIOUS
  <2> HIDE DEF U
  <2>2. IsFiniteSet(U(0)) /\ Cardinality(U(0)) = 0
    BY <2>1, FS_EmptySet
  <2> QED BY <1>1, <1>2, <2>2
<1>4. ASSUME NEW m \in 0..(l - 1), m \in G PROVE m + 1 \in G
  <2> DEFINE n == m + 1
  <2>1. n \in 1..l /\ n \in 0..l /\ n - 1 = m /\ m \in 0..l
    BY <1>1
  <2>0. a[m] \in Nat /\ f[n] \in Nat
    <3>1. f[n] \in Nat
      <4> HIDE DEF n
      <4> QED BY <2>1
    <3>2. a[m] \in Nat
      <4> HIDE DEF n, l
      <4> QED BY <1>2, <2>1
    <3> QED BY <3>1, <3>2
  <2>2. U(n) = U(m) \union P[n]
    <3>1. \A i : i \in 1..n <=> i \in 1..m \/ i = n
      BY <2>1
    <3> HIDE DEF n
    <3> QED BY <3>1
  <2>3. U(m) \intersect P[n] = {}
    <3>1. \A i \in 1..m : i \in 1..l /\ i < n
      BY <1>1, <2>1
    <3> HIDE DEF n, l
    <3> QED BY <2>1, <3>1 DEF l
  <2>4. IsFiniteSet(U(m)) /\ Cardinality(U(m)) = a[m] /\ IsFiniteSet(P[n]) /\ Cardinality(P[n]) = f[n]
    BY <1>4, <2>1
  <2>5. a[n] = a[m] + f[n]
    BY <1>2, <2>1
  <2> HIDE DEF U, n
  <2>6. IsFiniteSet(U(n)) /\ Cardinality(U(n)) = a[n]
    <3>1. /\ IsFiniteSet(U(m) \union P[n])
          /\ Cardinality(U(m) \union P[n])
               = Cardinality(U(m)) + Cardinality(P[n]) - Cardinality(U(m) \intersect P[n])
      BY <2>4, FS_Union
    <3>2. Cardinality(U(m) \intersect P[n]) = 0
      BY <2>3, FS_EmptySet
    <3> QED BY <2>0, <2>2, <2>4, <2>5, <3>1, <3>2
  <2> QED BY <2>1, <2>6 DEF n
<1>5. 0..l \subseteq G
  <2> HIDE DEF G
  <2> QED BY <1>1, <1>3, <1>4, Ascending
<1>6. l \in G
  <2> HIDE DEF G
  <2> QED BY <1>1, <1>5
<1> QED BY <1>2, <1>6

LEMMA TotalType == ASSUME NEW f \in Seq(Nat) PROVE Total(f) \in Nat
<1>1. PICK a \in [0..Len(f) -> Nat] : a[Len(f)] = Total(f)
  BY TotalSteps
<1> QED BY <1>1, Len(f) \in 0..Len(f)

\* The instants of an interval.
LEMMA Instant ==
    ASSUME NEW l \in Nat, NEW r \in Nat
    PROVE  /\ IsFiniteSet(l..(r - 1)) /\ Cardinality(l..(r - 1)) = IF l < r THEN r - l ELSE 0
           /\ \A t : t \in l..(r - 1) <=> t \in Nat /\ l <= t /\ t < r
<1>1. l \in Int /\ r - 1 \in Int
  OBVIOUS
<1>2. IsFiniteSet(l..(r - 1)) /\ Cardinality(l..(r - 1)) = IF l > r - 1 THEN 0 ELSE (r - 1) - l + 1
  BY <1>1, FS_Interval
<1> QED BY <1>2

\* What segments of some statuses weigh, each by its instants in Z.
Weigh(w, segments, K, Z) ==
    \A i \in 1..Len(segments) :
       w[i] = IF segments[i][3] \in K
              THEN Cardinality((segments[i][1]..(segments[i][2] - 1)) \intersect Z) ELSE 0

\* The instants of Z with one of these statuses.
Having(now, K, Z, start, end) == {t \in start..(end - 1) : now[t] \in K /\ t \in Z}

\* What segments of some statuses count of the instants of Z: those of these statuses.
LEMMA TotalTiled ==
    ASSUME NEW segments, NEW start \in Nat, NEW end \in Nat, Tiled(segments, start, end), NEW now,
           Covers(segments, now, start, end), NEW K \in SUBSET {ONLINE, OFFLINE}, NEW Z,
           NEW w \in Seq(Nat), Len(w) = Len(segments), Weigh(w, segments, K, Z)
    PROVE  Total(w) = Cardinality(Having(now, K, Z, start, end))
<1> DEFINE P == [i \in 1..Len(w) |->
                    IF segments[i][3] \in K
                    THEN (segments[i][1]..(segments[i][2] - 1)) \intersect Z ELSE {}]
<1>1. \A i \in 1..Len(w) : /\ segments[i][1] \in Nat /\ segments[i][2] \in Nat
                           /\ start <= segments[i][1] /\ segments[i][2] <= end
                           /\ segments[i][3] \in {ONLINE, OFFLINE}
  <2>1. \A i \in 1..Len(w) : segments[i] \in Spans
    BY DEF Tiled
  <2> QED BY <2>1 DEF Tiled, Spans
<1>2. \A i, j \in 1..Len(w) : i < j => segments[i][2] <= segments[j][1]
  BY DEF Tiled
<1>3. ASSUME NEW i \in 1..Len(w) PROVE IsFiniteSet(P[i]) /\ Cardinality(P[i]) = w[i]
  <2> DEFINE I == segments[i][1]..(segments[i][2] - 1)
  <2>1. IsFiniteSet(I)
    <3>1. segments[i][1] \in Nat /\ segments[i][2] \in Nat
      BY <1>1
    <3> QED BY ONLY <3>1, Instant
  <2> HIDE DEF I
  <2>2. IsFiniteSet(I \intersect Z)
    BY <2>1, FS_Subset
  <2> QED BY <2>2, FS_EmptySet DEF I, Weigh
<1>4. ASSUME NEW i \in 1..Len(w), NEW j \in 1..Len(w), i < j PROVE P[i] \intersect P[j] = {}
  <2>1. SUFFICES ASSUME NEW t \in segments[i][1]..(segments[i][2] - 1),
                        t \in segments[j][1]..(segments[j][2] - 1)
                 PROVE  FALSE
    OBVIOUS
  <2>2. /\ segments[i][1] \in Nat /\ segments[i][2] \in Nat /\ segments[j][1] \in Nat
        /\ segments[j][2] \in Nat /\ segments[i][2] <= segments[j][1]
    BY <1>1, <1>2, <1>4
  <2> QED BY ONLY <2>1, <2>2
<1>5. ASSUME NEW t
      PROVE  t \in UNION {P[i] : i \in 1..Len(w)}
                <=> t \in Having(now, K, Z, start, end)
  <2>1. t \in UNION {P[i] : i \in 1..Len(w)}
          <=> \E i \in 1..Len(w) : t \in P[i]
    OBVIOUS
  <2>2. ASSUME NEW i \in 1..Len(w)
        PROVE  t \in P[i] <=> /\ t \in start..(end - 1) /\ t \in Z
                              /\ segments[i][1] <= t /\ t < segments[i][2]
                              /\ segments[i][3] \in K
    <3>1. t \in segments[i][1]..(segments[i][2] - 1)
             <=> t \in start..(end - 1) /\ segments[i][1] <= t /\ t < segments[i][2]
      <4>1. /\ segments[i][1] \in Nat /\ segments[i][2] \in Nat /\ start \in Nat /\ end \in Nat
            /\ start <= segments[i][1] /\ segments[i][2] <= end
        BY <1>1
      <4> QED BY ONLY <4>1
    <3> QED BY <3>1
  <2>3. ASSUME t \in start..(end - 1)
        PROVE  now[t] \in K <=> \E i \in 1..Len(w) : /\ segments[i][1] <= t /\ t < segments[i][2]
                                                     /\ segments[i][3] \in K
    <3>1. \A st \in K : now[t] = st <=> \E i \in 1..Len(w) : /\ segments[i][1] <= t
                                                             /\ t < segments[i][2]
                                                             /\ segments[i][3] = st
      <4>1. \A st \in {ONLINE, OFFLINE} :
               now[t] = st <=> \E i \in 1..Len(segments) : /\ segments[i][1] <= t
                                                           /\ t < segments[i][2]
                                                           /\ segments[i][3] = st
        BY <2>3 DEF Covers
      <4> QED BY <4>1
    <3> QED BY <3>1
  <2> HIDE DEF P
  <2> QED BY <2>1, <2>2, <2>3 DEF Having
<1>6. UNION {P[i] : i \in 1..Len(w)} = Having(now, K, Z, start, end)
  BY <1>5
<1> HIDE DEF P
<1>7. Total(w) = Cardinality(UNION {P[i] : i \in 1..Len(w)})
  <2>1. /\ \A i \in 1..Len(w) : IsFiniteSet(P[i]) /\ Cardinality(P[i]) = w[i]
        /\ \A i, j \in 1..Len(w) : i < j => P[i] \intersect P[j] = {}
    BY <1>3, <1>4
  <2> QED BY ONLY <2>1, TotalOfParts, w \in Seq(Nat)
<1> QED BY <1>6, <1>7

\* Maintenance intervals in the period, apart from each other, and their instants.
Intervals == Nat \X Nat
Apart(m, start, end) ==
    /\ m \in Seq(Intervals)
    /\ \A i \in 1..Len(m) : start <= m[i][1] /\ m[i][1] < m[i][2] /\ m[i][2] <= end
    /\ \A i, j \in 1..Len(m) : i < j => m[i][2] < m[j][1]
Inside(m) == {t \in Nat : \E i \in 1..Len(m) : m[i][1] <= t /\ t < m[i][2]}

\* What the maintenance intervals have of one interval is its instants in one of them.
LEMMA OverlapIs ==
    ASSUME NEW m, NEW start \in Nat, NEW end \in Nat, Apart(m, start, end),
           NEW l \in Nat, NEW r \in Nat
    PROVE  Overlap(l, r, m) = Cardinality((l..(r - 1)) \intersect Inside(m)) /\ Overlap(l, r, m) \in Nat
<1> DEFINE f == [i \in DOMAIN m |-> IF m[i][2] > l /\ m[i][1] < r
                                    THEN intersect_interval(l, r, m[i][1], m[i][2]) ELSE 0]
           P == [i \in DOMAIN m |-> (l..(r - 1)) \intersect (m[i][1]..(m[i][2] - 1))]
<1>1. m \in Seq(Intervals) /\ DOMAIN m = 1..Len(m) /\ Len(m) \in Nat
  BY DEF Apart
<1>2. \A i \in 1..Len(m) : m[i][1] \in Nat /\ m[i][2] \in Nat
  <2>1. \A i \in 1..Len(m) : m[i] \in Intervals
    BY <1>1
  <2> QED BY <2>1 DEF Intervals
<1>3. \A i, j \in 1..Len(m) : i < j => m[i][2] < m[j][1]
  BY DEF Apart
<1>4. ASSUME NEW i \in 1..Len(m)
      PROVE  f[i] \in Nat /\ IsFiniteSet(P[i]) /\ Cardinality(P[i]) = f[i]
  <2> DEFINE x == Later(l, m[i][1])
             y == Earlier(r, m[i][2])
  <2>1. x \in Nat /\ y \in Nat /\ m[i][1] \in Nat /\ m[i][2] \in Nat
    BY <1>2 DEF Later, Earlier
  <2>2. P[i] = x..(y - 1)
    <3>1. \A t : t \in x..(y - 1) <=> t \in l..(r - 1) /\ t \in m[i][1]..(m[i][2] - 1)
      BY <2>1 DEF Later, Earlier
    <3> QED BY <1>1, <3>1
  <2>3. f[i] = IF x < y THEN y - x ELSE 0
    BY <1>1, <2>1 DEF intersect_interval, Later, Earlier
  <2> HIDE DEF f, P, x, y
  <2>4. IsFiniteSet(x..(y - 1)) /\ Cardinality(x..(y - 1)) = IF x < y THEN y - x ELSE 0
    BY <2>1, Instant
  <2> QED BY <2>1, <2>2, <2>3, <2>4
<1>5. f \in Seq(Nat) /\ Len(f) = Len(m)
  <2>1. f \in [1..Len(m) -> Nat]
    BY <1>1, <1>4
  <2> QED BY <1>1, <2>1
<1>6. ASSUME NEW i \in 1..Len(m), NEW j \in 1..Len(m), i < j PROVE P[i] \intersect P[j] = {}
  <2>1. SUFFICES ASSUME NEW t \in m[i][1]..(m[i][2] - 1), t \in m[j][1]..(m[j][2] - 1) PROVE FALSE
    BY <1>1
  <2> QED BY <1>2, <1>3, <1>6, <2>1
<1>7. UNION {P[i] : i \in 1..Len(m)} = (l..(r - 1)) \intersect Inside(m)
  <2>1. ASSUME NEW t
        PROVE  t \in UNION {P[i] : i \in 1..Len(m)} <=> t \in (l..(r - 1)) \intersect Inside(m)
    <3>1. \A i \in 1..Len(m) : t \in m[i][1]..(m[i][2] - 1) <=> t \in Nat /\ m[i][1] <= t /\ t < m[i][2]
      BY <1>2
    <3>2. t \in UNION {P[i] : i \in 1..Len(m)} <=> \E i \in 1..Len(m) : t \in P[i]
      OBVIOUS
    <3>3. \A i \in 1..Len(m) : t \in P[i] <=> t \in l..(r - 1) /\ t \in m[i][1]..(m[i][2] - 1)
      BY <1>1
    <3> HIDE DEF P
    <3> QED BY <3>1, <3>2, <3>3 DEF Inside
  <2> QED BY <2>1
<1>8. Overlap(l, r, m) = Total(f)
  BY DEF Overlap
<1> HIDE DEF f, P
<1>9. Total(f) = Cardinality(UNION {P[i] : i \in 1..Len(f)}) /\ Total(f) \in Nat
  BY <1>4, <1>5, <1>6, TotalOfParts, TotalType
<1> QED BY <1>5, <1>7, <1>8, <1>9

--------------------------------------------------------------------------------
(***************************************************************************)
(* Merging intervals.                                                      *)
(***************************************************************************)
LEMMA AbsorbedType ==
    ASSUME NEW m \in Seq(Intervals), NEW w \in Intervals PROVE Absorbed(m, w) \in Seq(Intervals)
<1> DEFINE L == Len(m)
<1>1. w[1] \in Nat /\ w[2] \in Nat /\ L \in Nat
  BY DEF Intervals
<1>2. CASE m = << >> \/ w[1] > m[L][2]
  BY <1>2 DEF Absorbed
<1>3. CASE ~ (m = << >> \/ w[1] > m[L][2])
  <2>1. L \in 1..L /\ m[L] \in Intervals
    BY <1>1, <1>3
  <2>2. <<m[L][1], Later(m[L][2], w[2])>> \in Intervals
    BY <1>1, <2>1 DEF Intervals, Later
  <2>3. Absorbed(m, w) = [m EXCEPT ![L] = <<m[L][1], Later(m[L][2], w[2])>>]
    BY <1>3 DEF Absorbed
  <2> QED BY <2>1, <2>2, <2>3
<1> QED BY <1>2, <1>3

\* merge_intervals() interval by interval.
LEMMA MergeSteps ==
    ASSUME NEW s \in Seq(Intervals)
    PROVE  \E a \in [0..Len(s) -> Seq(Intervals)] :
               /\ a[0] = << >>
               /\ a[Len(s)] = FoldLeft(LAMBDA merged, w : Absorbed(merged, w), << >>, s)
               /\ \A n \in 1..Len(s) : a[n] = Absorbed(a[n - 1], s[n])
<1> DEFINE Op(m, w) == Absorbed(m, w)
           A == Seq(Intervals)
           g == [p \in A \X Intervals |-> Op(p[1], p[2])]
           Body(F) == F = [u \in SUBSET DOMAIN s |->
                              IF u = {} THEN << >> ELSE Op(F[u \ {Max(u)}], s[Max(u)])]
           F == CHOOSE F : Body(F)
<1>0. << >> \in A
  OBVIOUS
<1>1. /\ g \in [A \X Intervals -> A]
      /\ \A x \in A, y \in Intervals : g[<<x, y>>] = Op(x, y) /\ g[<<x, y>>] \in A
  <2>1. \A x \in A, y \in Intervals : Op(x, y) \in A
    BY AbsorbedType
  <2> HIDE DEF Op, A
  <2> QED BY <2>1
<1>2. FoldLeft(LAMBDA merged, w : Absorbed(merged, w), << >>, s) = F[DOMAIN s]
  BY DEF FoldLeft, MapThenFoldSet
<1> HIDE DEF Op, g, A
<1>3. PICK H : TypedFold(H, A, Intervals, g, << >>, s)
  BY <1>0, <1>1, FoldTyped
<1>4. Body(H)
  BY <1>1, <1>3 DEF TypedFold
<1>5. Body(F)
  BY <1>4
<1> HIDE DEF F
<1>6. F[1..0] = << >>
  BY <1>5
<1>7. ASSUME NEW n \in 1..Len(s), F[1..(n - 1)] \in A
      PROVE  F[1..n] = g[<<F[1..(n - 1)], s[n]>>]
  <2>1. /\ 1..n \in SUBSET DOMAIN s /\ 1..n # {}
        /\ Max(1..n) = n /\ (1..n) \ {Max(1..n)} = 1..(n - 1)
    BY FoldTake
  <2>2. F[1..n] = Op(F[1..(n - 1)], s[n])
    BY <1>5, <2>1
  <2>3. s[n] \in Intervals
    OBVIOUS
  <2> QED BY <1>1, <1>7, <2>2, <2>3
<1> HIDE DEF Body
<1>8. Stepwise(F, A, Intervals, g, << >>, s)
  BY <1>1, <1>6, <1>7 DEF Stepwise
<1>9. PICK a : Run(a, A, Intervals, g, << >>, s) /\ a[Len(s)] = F[DOMAIN s]
  BY <1>0, <1>8, FoldRun
<1>10. /\ a \in [0..Len(s) -> A] /\ a[0] = << >>
       /\ \A n \in 1..Len(s) : a[n] = Op(a[n - 1], s[n])
  BY <1>1, <1>9 DEF Run
<1>11. \A n \in 1..Len(s) : a[n] = Absorbed(a[n - 1], s[n])
  BY <1>10 DEF Op
<1> QED BY <1>2, <1>9, <1>10, <1>11 DEF A

\* An interval that begins no sooner than the last one.
LEMMA AbsorbedApart ==
    ASSUME NEW m, NEW start \in Nat, NEW end \in Nat, Apart(m, start, end), NEW w \in Intervals,
           start <= w[1], w[1] < w[2], w[2] <= end, m # << >> => m[Len(m)][1] <= w[1]
    PROVE  LET v == Absorbed(m, w)
           IN  /\ Apart(v, start, end) /\ v # << >> /\ v[Len(v)][1] <= w[1]
               /\ Inside(v) = Inside(m) \union {t \in Nat : w[1] <= t /\ t < w[2]}
<1> DEFINE v == Absorbed(m, w)
           L == Len(m)
<1>1. m \in Seq(Intervals) /\ v \in Seq(Intervals) /\ L \in Nat /\ w[1] \in Nat /\ w[2] \in Nat
  BY AbsorbedType DEF Apart, Intervals
<1>2. \A i \in 1..L : m[i][1] \in Nat /\ m[i][2] \in Nat
  <2>1. \A i \in 1..L : m[i] \in Intervals
    BY <1>1
  <2> QED BY <2>1 DEF Intervals
<1>3. /\ \A i \in 1..L : start <= m[i][1] /\ m[i][1] < m[i][2] /\ m[i][2] <= end
      /\ \A i, j \in 1..L : i < j => m[i][2] < m[j][1]
  BY DEF Apart
<1>4. CASE m = << >> \/ w[1] > m[L][2]
  <2>1. v = Append(m, w)
    BY <1>4 DEF Absorbed
  <2> HIDE DEF v
  <2>2. /\ Len(v) = L + 1 /\ v[L + 1] = w /\ \A i \in 1..L : v[i] = m[i]
        /\ \A i \in 1..Len(v) : i \in 1..L \/ i = L + 1
    BY <1>1, <2>1
  <2>3. \A i \in 1..L : m[i][2] < w[1]
    <3>1. SUFFICES ASSUME NEW i \in 1..L PROVE m[i][2] < w[1]
      OBVIOUS
    <3>2. L \in 1..L /\ w[1] > m[L][2]
      BY <1>1, <1>4
    <3>3. i = L \/ i < L
      BY <1>1
    <3> QED BY <1>1, <1>2, <1>3, <3>2, <3>3
  <2>4. ASSUME NEW i \in 1..Len(v)
        PROVE  start <= v[i][1] /\ v[i][1] < v[i][2] /\ v[i][2] <= end
    BY <1>3, <2>2
  <2>5. ASSUME NEW i \in 1..Len(v), NEW j \in 1..Len(v), i < j PROVE v[i][2] < v[j][1]
    <3>1. i \in 1..L
      BY <1>1, <2>2, <2>5
    <3> QED BY <1>3, <2>2, <2>3, <2>5, <3>1
  <2>6. Apart(v, start, end)
    BY <1>1, <2>4, <2>5 DEF Apart
  <2>7. v # << >> /\ v[Len(v)][1] <= w[1]
    BY <1>1, <2>2
  <2>8. \A t \in Nat : (\E i \in 1..Len(v) : v[i][1] <= t /\ t < v[i][2])
                          <=> \/ \E i \in 1..L : m[i][1] <= t /\ t < m[i][2]
                              \/ w[1] <= t /\ t < w[2]
    <3>1. L + 1 \in 1..Len(v) /\ \A i \in 1..L : i \in 1..Len(v)
      BY <1>1, <2>2
    <3> QED BY <2>2, <3>1
  <2>9. Inside(v) = Inside(m) \union {t \in Nat : w[1] <= t /\ t < w[2]}
    BY <2>8 DEF Inside
  <2> QED BY <2>6, <2>7, <2>9 DEF v
<1>5. CASE ~ (m = << >> \/ w[1] > m[L][2])
  <2> DEFINE e == <<m[L][1], Later(m[L][2], w[2])>>
  <2>1. L \in 1..L /\ m[L][1] <= w[1] /\ w[1] <= m[L][2]
    <3>1. L \in 1..L
      BY <1>1, <1>5
    <3> QED BY <1>1, <1>2, <1>5, <3>1
  <2>2. v = [m EXCEPT ![L] = e]
    BY <1>5 DEF Absorbed
  <2>3. /\ e[1] = m[L][1] /\ e[2] \in Nat /\ m[L][2] <= e[2] /\ w[2] <= e[2]
        /\ e[2] = m[L][2] \/ e[2] = w[2]
    BY <1>1, <1>2, <2>1 DEF Later
  <2> HIDE DEF v, e
  <2>4. Len(v) = L /\ v[L] = e /\ \A i \in 1..L : i # L => v[i] = m[i]
    BY <1>1, <2>1, <2>2
  <2>5. ASSUME NEW i \in 1..L
        PROVE  /\ v[i][1] = m[i][1] /\ v[i][2] \in Nat /\ (i < L => v[i][2] = m[i][2])
               /\ start <= v[i][1] /\ v[i][1] < v[i][2] /\ v[i][2] <= end
    <3>1. CASE i = L
      BY <1>1, <1>2, <1>3, <2>1, <2>3, <2>4, <3>1
    <3>2. CASE i # L
      BY <1>2, <1>3, <2>4, <3>2
    <3> QED BY <3>1, <3>2
  <2>6. \A i, j \in 1..L : i < j => v[i][2] < v[j][1]
    <3>1. SUFFICES ASSUME NEW i \in 1..L, NEW j \in 1..L, i < j PROVE v[i][2] < v[j][1]
      OBVIOUS
    <3>2. i < L
      BY <1>1, <3>1
    <3> QED BY <1>3, <2>5, <3>1, <3>2
  <2>7. Apart(v, start, end)
    BY <1>1, <2>4, <2>5, <2>6 DEF Apart
  <2>8. v # << >> /\ v[Len(v)][1] <= w[1]
    BY <1>1, <2>1, <2>3, <2>4
  <2>9. ASSUME NEW t \in Nat
        PROVE (\E i \in 1..L : v[i][1] <= t /\ t < v[i][2])
                          <=> \/ \E i \in 1..L : m[i][1] <= t /\ t < m[i][2]
                              \/ w[1] <= t /\ t < w[2]
    <3>1. v[L][1] <= t /\ t < v[L][2] <=> (m[L][1] <= t /\ t < m[L][2]) \/ (w[1] <= t /\ t < w[2])
      BY <1>1, <1>2, <2>1, <2>3, <2>4
    <3> QED BY <2>1, <2>4, <3>1
  <2>10. Inside(v) = Inside(m) \union {t \in Nat : w[1] <= t /\ t < w[2]}
    BY <2>4, <2>9 DEF Inside
  <2> QED BY <2>7, <2>8, <2>10 DEF v
<1> QED BY <1>4, <1>5

\* merge_intervals(): intervals apart, with the same instants.
LEMMA MergedApart ==
    ASSUME NEW W \in SUBSET Intervals, IsFiniteSet(W), NEW start \in Nat, NEW end \in Nat,
           \A w \in W : start <= w[1] /\ w[2] <= end
    PROVE  /\ Apart(Merged(W), start, end)
           /\ Inside(Merged(W)) = {t \in Nat : \E w \in W : w[1] <= t /\ t < w[2]}
<1> DEFINE S == {w \in W : w[1] < w[2]}
           Sooner(x, y) == x[1] < y[1] \/ (x[1] = y[1] /\ x[2] < y[2])
           n == Cardinality(S)
           R == {p \in S \X S : Sooner(p[1], p[2])}
           s == CHOOSE u \in [1..n -> S] : \A i, j \in DOMAIN u : i < j => Sooner(u[i], u[j])
<1>1. IsFiniteSet(S) /\ S \in SUBSET Intervals
  BY FS_Subset
<1>2. \A w \in S : /\ w[1] \in Nat /\ w[2] \in Nat /\ w = <<w[1], w[2]>>
                   /\ start <= w[1] /\ w[1] < w[2] /\ w[2] <= end
  BY <1>1 DEF Intervals
<1>3. Merged(W) = FoldLeft(LAMBDA merged, w : Absorbed(merged, w), << >>, s)
  BY DEF Merged, Sorted
<1>4. \A x, y \in S : x # y => Sooner(x, y) \/ Sooner(y, x)
  BY <1>2
<1>5. /\ \A x, y, z \in S : Sooner(x, y) /\ Sooner(y, z) => Sooner(x, z)
      /\ \A x \in S : ~ Sooner(x, x)
      /\ \A x, y \in S : Sooner(x, y) => x[1] <= y[1]
  BY <1>2
<1>6. \A x, y \in S : <<x, y>> \in R <=> Sooner(x, y)
  OBVIOUS
<1> HIDE DEF S, R, n, Sooner
<1>7. \E u \in [1..n -> S] : \A i, j \in DOMAIN u : i < j => Sooner(u[i], u[j])
  <2>1. /\ \A x, y \in S : x # y => <<x, y>> \in R \/ <<y, x>> \in R
        /\ \A x, y, z \in S : <<x, y>> \in R /\ <<y, z>> \in R => <<x, z>> \in R
    BY <1>4, <1>5, <1>6
  <2>2. PICK u : Arranges(u, S, R)
    BY <1>1, <2>1, SortExists
  <2>3. u \in [1..n -> S] /\ \A i, j \in DOMAIN u : i < j => <<u[i], u[j]>> \in R
    BY <2>2 DEF Arranges, n
  <2>4. \A i \in DOMAIN u : u[i] \in S
    BY <2>3
  <2> QED BY <1>6, <2>3, <2>4
<1>8. s \in [1..n -> S] /\ \A i, j \in DOMAIN s : i < j => Sooner(s[i], s[j])
  BY <1>7
<1> HIDE DEF s
<1>9. /\ s \in Seq(S) /\ Len(s) = n /\ Len(s) \in Nat
      /\ \A x \in S : \E i \in 1..Len(s) : s[i] = x
  <2>1. \A x \in S : <<x, x>> \notin R
    BY <1>5, <1>6
  <2>2. \A i \in DOMAIN s : s[i] \in S
    BY <1>8
  <2>3. Arranges(s, S, R)
    BY <1>6, <1>8, <2>2 DEF n, Arranges
  <2>4. /\ s \in Seq(S) /\ Len(s) = Cardinality(S) /\ Len(s) \in Nat
        /\ \A x \in S : \E i \in 1..Len(s) : s[i] = x
    BY <1>1, <2>1, <2>3, SortedOnto
  <2> QED BY <2>4 DEF n
<1>10. s \in Seq(Intervals) /\ DOMAIN s = 1..Len(s) /\ \A i \in 1..Len(s) : s[i] \in S
  BY <1>1, <1>9
<1>11. PICK a \in [0..Len(s) -> Seq(Intervals)] :
               /\ a[0] = << >>
               /\ a[Len(s)] = FoldLeft(LAMBDA merged, w : Absorbed(merged, w), << >>, s)
               /\ \A k \in 1..Len(s) : a[k] = Absorbed(a[k - 1], s[k])
  BY <1>10, MergeSteps
<1> DEFINE l == Len(s)
           Met(k) == {t \in Nat : \E i \in 1..k : s[i][1] <= t /\ t < s[i][2]}
           Good(k) == /\ Apart(a[k], start, end) /\ Inside(a[k]) = Met(k)
                      /\ a[k] # << >> => \A i \in (k + 1)..l : a[k][Len(a[k])][1] <= s[i][1]
           G == {k \in 0..l : Good(k)}
<1>12. 0 \in G
  <2>1. Len(<< >>) = 0 /\ << >> \in Seq(Intervals)
    OBVIOUS
  <2>2. Apart(<< >>, start, end) /\ Inside(<< >>) = {}
    BY <2>1 DEF Apart, Inside
  <2>3. Met(0) = {}
    OBVIOUS
  <2>4. a[0] = << >> /\ 0 \in 0..l
    <3>1. a[0] = << >>
      BY <1>11
    <3>2. l \in Nat
      BY <1>9
    <3> HIDE DEF l
    <3> QED BY ONLY <3>1, <3>2
  <2> HIDE DEF Met
  <2>5. Good(0)
    BY <2>2, <2>3, <2>4
  <2> HIDE DEF Good
  <2> QED BY <2>4, <2>5
<1>13. ASSUME NEW k \in 0..(l - 1), k \in G PROVE k + 1 \in G
  <2> DEFINE j == k + 1
             w == s[j]
             v == a[j]
  <2>1. j \in 1..l /\ j \in 0..l /\ j - 1 = k /\ j \in (k + 1)..l
    BY <1>9
  <2>2. /\ w \in S /\ w \in Intervals /\ w[1] \in Nat
        /\ start <= w[1] /\ w[1] < w[2] /\ w[2] <= end
    BY <1>1, <1>2, <1>10, <2>1
  <2>3. Good(k) /\ (a[k] # << >> => a[k][Len(a[k])][1] <= w[1])
    BY <1>13, <2>1
  <2>4. v = Absorbed(a[k], w)
    BY <1>11, <2>1
  <2> HIDE DEF w, v, Met
  <2>5. /\ Apart(v, start, end) /\ v # << >> /\ v[Len(v)][1] <= w[1]
        /\ Inside(v) = Inside(a[k]) \union {t \in Nat : w[1] <= t /\ t < w[2]}
    BY <2>2, <2>3, <2>4, AbsorbedApart
  <2>6. Met(j) = Met(k) \union {t \in Nat : w[1] <= t /\ t < w[2]}
    <3>1. \A i : i \in 1..j <=> i \in 1..k \/ i = j
      BY <2>1
    <3> HIDE DEF j
    <3> QED BY <3>1 DEF Met, w
  <2>7. ASSUME NEW i \in (j + 1)..l PROVE v[Len(v)][1] <= s[i][1]
    <3>1. i \in 1..l /\ j < i
      BY <1>9, <2>1
    <3>2. w[1] <= s[i][1] /\ s[i][1] \in Nat
      BY <1>2, <1>5, <1>8, <1>10, <2>1, <3>1 DEF w
    <3>3. v[Len(v)][1] \in Nat
      <4>1. v \in Seq(Intervals) /\ Len(v) \in 1..Len(v)
        BY <2>5 DEF Apart
      <4>2. v[Len(v)] \in Intervals
        BY <4>1
      <4> QED BY <4>2 DEF Intervals
    <3> QED BY <2>2, <2>5, <3>2, <3>3
  <2>8. Good(j)
    BY <2>3, <2>5, <2>6, <2>7 DEF v
  <2> HIDE DEF Good
  <2> QED BY <2>1, <2>8
<1>14. Good(l)
  <2>1. 0..l \subseteq G
    <3> HIDE DEF G
    <3> QED BY <1>9, <1>12, <1>13, Ascending
  <2> QED BY <1>9, <2>1
<1>15. \A t \in Nat : (\E i \in 1..l : s[i][1] <= t /\ t < s[i][2])
                        <=> \E w \in W : w[1] <= t /\ t < w[2]
  <2>1. ASSUME NEW t \in Nat, NEW w \in W, w[1] <= t, t < w[2] PROVE w \in S
    BY <2>1 DEF S, Intervals
  <2>2. \A w \in S : w \in W
    BY DEF S
  <2> QED BY <1>9, <1>10, <2>1, <2>2
<1>16. Met(l) = {t \in Nat : \E w \in W : w[1] <= t /\ t < w[2]}
  BY <1>15
<1> HIDE DEF Met
<1> QED BY <1>3, <1>11, <1>14, <1>16

--------------------------------------------------------------------------------
(***************************************************************************)
(* Windows of maintenance.                                                 *)
(***************************************************************************)
Bounds == {MAINTENANCE_STARTED, MAINTENANCE_ENDED}
Opened == [since : Nat, found : SUBSET Intervals]
Holds(s, I) == I # {} /\ s[Max(I)].kind = MAINTENANCE_STARTED

\* Windows() over the events, the reconstruction before its end.
Unclosed(s) == FoldLeft(LAMBDA acc, e : Windows(acc, e), [since |-> None, found |-> {}], s)

\* event by event.
Opening(a, s) ==
    /\ a \in [0..Len(s) -> Opened]
    /\ a[0] = [since |-> None, found |-> {}] /\ a[Len(s)] = Unclosed(s)
    /\ \A n \in 1..Len(s) : a[n] = Windows(a[n - 1], s[n])

LEMMA UnclosedSteps == ASSUME NEW s \in Seq(Events) PROVE \E a : Opening(a, s)
<1> DEFINE Op(acc, e) == Windows(acc, e)
           b == [since |-> None, found |-> {}]
           g == [p \in Opened \X Events |-> Op(p[1], p[2])]
           Body(F) == F = [u \in SUBSET DOMAIN s |->
                              IF u = {} THEN b ELSE Op(F[u \ {Max(u)}], s[Max(u)])]
           F == CHOOSE F : Body(F)
<1>1. /\ g \in [Opened \X Events -> Opened]
      /\ \A x \in Opened, y \in Events : g[<<x, y>>] = Op(x, y) /\ g[<<x, y>>] \in Opened
  <2>1. ASSUME NEW x \in Opened, NEW y \in Events PROVE Op(x, y) \in Opened
    <3>1. /\ x.since \in Nat /\ x.found \in SUBSET Intervals /\ y.at \in Nat /\ None \in Nat
          /\ x = [since |-> x.since, found |-> x.found]
      BY EventNumbers, AvailabilityAssumption DEF Opened, None
    <3>2. <<x.since, y.at>> \in Intervals
      BY <3>1 DEF Intervals
    <3>3. /\ [x EXCEPT !.since = y.at] \in Opened
          /\ [since |-> None, found |-> x.found \union {<<x.since, y.at>>}] \in Opened
      BY <3>1, <3>2 DEF Opened
    <3> QED BY <3>3 DEF Windows
  <2> HIDE DEF Op
  <2> QED BY <2>1
<1>0. b \in Opened
  BY AvailabilityAssumption DEF Opened, None
<1>2. Unclosed(s) = F[DOMAIN s]
  BY DEF Unclosed, FoldLeft, MapThenFoldSet
<1> HIDE DEF Op, g, b
<1>3. PICK H : TypedFold(H, Opened, Events, g, b, s)
  BY <1>0, <1>1, FoldTyped
<1>4. Body(H)
  BY <1>1, <1>3 DEF TypedFold
<1>5. Body(F)
  BY <1>4
<1> HIDE DEF F
<1>6. F[1..0] = b
  BY <1>5
<1>7. ASSUME NEW n \in 1..Len(s), F[1..(n - 1)] \in Opened
      PROVE  F[1..n] = g[<<F[1..(n - 1)], s[n]>>]
  <2>1. /\ 1..n \in SUBSET DOMAIN s /\ 1..n # {}
        /\ Max(1..n) = n /\ (1..n) \ {Max(1..n)} = 1..(n - 1)
    BY FoldTake
  <2>2. F[1..n] = Op(F[1..(n - 1)], s[n])
    BY <1>5, <2>1
  <2>3. s[n] \in Events
    OBVIOUS
  <2> QED BY <1>1, <1>7, <2>2, <2>3
<1> HIDE DEF Body
<1>8. Stepwise(F, Opened, Events, g, b, s)
  BY <1>1, <1>6, <1>7 DEF Stepwise
<1>9. PICK a : Run(a, Opened, Events, g, b, s) /\ a[Len(s)] = F[DOMAIN s]
  BY <1>0, <1>8, FoldRun
<1>10. /\ a \in [0..Len(s) -> Opened] /\ a[0] = b
       /\ \A n \in 1..Len(s) : a[n] = Op(a[n - 1], s[n])
  BY <1>1, <1>9 DEF Run
<1>11. \A n \in 1..Len(s) : a[n] = Windows(a[n - 1], s[n])
  BY <1>10 DEF Op
<1> QED BY <1>2, <1>9, <1>10, <1>11 DEF b, Opening

\* One more event opens a window, closes the open one, or changes nothing.
LEMMA OneMoreBound ==
    ASSUME NEW acc \in Opened, NEW e \in Events, IsFiniteSet(acc.found),
           acc.since # None => acc.since <= e.at, \A w \in acc.found : w[2] <= e.at
    PROVE  LET v == Windows(acc, e)
               In(x, t) == \/ x.since # None /\ x.since <= t
                           \/ \E w \in x.found : w[1] <= t /\ t < w[2]
           IN  /\ v \in Opened /\ IsFiniteSet(v.found)
               /\ v.since # None => v.since <= e.at
               /\ \A w \in v.found : w[2] <= e.at
               /\ \A t \in Nat :
                     In(v, t) <=> IF e.kind \in Bounds /\ e.at <= t THEN e.kind = MAINTENANCE_STARTED
                                  ELSE In(acc, t)
<1> DEFINE v == Windows(acc, e)
           In(x, t) == \/ x.since # None /\ x.since <= t
                       \/ \E w \in x.found : w[1] <= t /\ t < w[2]
<1>1. /\ acc.since \in Nat /\ acc.found \in SUBSET Intervals
      /\ acc = [since |-> acc.since, found |-> acc.found]
  BY DEF Opened
<1>2. e.at \in Nat /\ None \in Nat /\ e.at # None
  BY EventNumbers, AvailabilityAssumption DEF None
<1>3. \A w \in acc.found : w[1] \in Nat /\ w[2] \in Nat /\ w[2] <= e.at
  BY <1>1 DEF Intervals
<1>4. MAINTENANCE_STARTED # MAINTENANCE_ENDED
  BY DEF MAINTENANCE_STARTED, MAINTENANCE_ENDED
<1>5. CASE e.kind = MAINTENANCE_STARTED /\ acc.since = None
  <2>1. v = [since |-> e.at, found |-> acc.found]
    BY <1>1, <1>5 DEF Windows
  <2> HIDE DEF v
  <2>2. v.since = e.at /\ v.found = acc.found /\ v \in Opened
    BY <1>1, <1>2, <2>1 DEF Opened
  <2>3. ASSUME NEW t \in Nat
        PROVE  In(v, t) <=> IF e.at <= t THEN TRUE ELSE In(acc, t)
    BY <1>2, <1>5, <2>2
  <2> HIDE DEF In
  <2> QED BY <1>2, <1>3, <1>5, <2>2, <2>3 DEF v, In, Bounds
<1>6. CASE e.kind = MAINTENANCE_ENDED /\ acc.since # None
  <2>1. v = [since |-> None, found |-> acc.found \union {<<acc.since, e.at>>}]
    BY <1>4, <1>6 DEF Windows
  <2> HIDE DEF v
  <2>2. v.since = None /\ v.found = acc.found \union {<<acc.since, e.at>>} /\ v \in Opened
    <3>1. <<acc.since, e.at>> \in Intervals
      BY <1>1, <1>2 DEF Intervals
    <3> QED BY <1>1, <1>2, <2>1, <3>1 DEF Opened
  <2>3. IsFiniteSet(v.found)
    <3>1. IsFiniteSet({<<acc.since, e.at>>})
      BY FS_Singleton
    <3> QED BY <2>2, <3>1, FS_Union
  <2>4. \A w \in v.found : w[2] <= e.at
    BY <1>2, <1>3, <2>2
  <2>5. ASSUME NEW t \in Nat
        PROVE  In(v, t) <=> IF e.at <= t THEN FALSE ELSE In(acc, t)
    <3> DEFINE x == <<acc.since, e.at>>
    <3>0. x[1] = acc.since /\ x[2] = e.at /\ v.found = acc.found \union {x}
      BY <2>2
    <3> HIDE DEF x
    <3>1. In(v, t) <=> (acc.since <= t /\ t < e.at) \/ \E w \in acc.found : w[1] <= t /\ t < w[2]
      BY <2>2, <3>0
    <3>2. CASE e.at <= t
      BY <1>2, <1>3, <3>1, <3>2
    <3>3. CASE ~ (e.at <= t)
      BY <1>2, <1>6, <3>1, <3>3
    <3> QED BY <3>2, <3>3
  <2> HIDE DEF In
  <2>6. \A t \in Nat : In(v, t) <=> IF e.kind \in Bounds /\ e.at <= t THEN e.kind = MAINTENANCE_STARTED
                                  ELSE In(acc, t)
    BY <1>4, <1>6, <2>5 DEF Bounds
  <2> QED BY <2>2, <2>3, <2>4, <2>6 DEF v, In
<1>7. CASE /\ ~ (e.kind = MAINTENANCE_STARTED /\ acc.since = None)
           /\ ~ (e.kind = MAINTENANCE_ENDED /\ acc.since # None)
  <2>1. v = acc
    BY <1>7 DEF Windows
  <2>2. ASSUME NEW t \in Nat, e.kind \in Bounds, e.at <= t PROVE In(acc, t) <=> e.kind = MAINTENANCE_STARTED
    <3>1. ~ \E w \in acc.found : w[1] <= t /\ t < w[2]
      BY <1>2, <1>3, <2>2
    <3>2. acc.since # None => acc.since <= t
      BY <1>1, <1>2, <2>2
    <3> QED BY <1>4, <1>7, <2>2, <3>1, <3>2 DEF Bounds
  <2> HIDE DEF In, v
  <2>3. \A t \in Nat : In(v, t) <=> IF e.kind \in Bounds /\ e.at <= t THEN e.kind = MAINTENANCE_STARTED
                                  ELSE In(acc, t)
    BY <2>1, <2>2
  <2> QED BY <2>1, <2>3 DEF v, In
<1> QED BY <1>5, <1>6, <1>7

\* What the events say of an instant is whether a window they opened holds then.
LEMMA WindowsHold ==
    ASSUME NEW s, ByDate(s)
    PROVE  LET v == Unclosed(s)
           IN  /\ v \in Opened /\ IsFiniteSet(v.found)
               /\ \A t \in Nat :
                     Holds(s, Before(s, Bounds, Len(s), t + 1))
                       <=> \/ v.since # None /\ v.since <= t
                           \/ \E w \in v.found : w[1] <= t /\ t < w[2]
<1> DEFINE l == Len(s)
           In(x, t) == \/ x.since # None /\ x.since <= t
                       \/ \E w \in x.found : w[1] <= t /\ t < w[2]
           I(n, t) == Before(s, Bounds, n, t + 1)
<1>1. s \in Seq(Events) /\ l \in Nat /\ \A i, j \in 1..l : i < j => s[i].at <= s[j].at
  BY DEF ByDate
<1>2. \A i \in 1..l : s[i] \in Events /\ s[i].at \in Nat
  <2>1. \A i \in 1..l : s[i] \in Events
    BY <1>1
  <2> QED BY <2>1, EventNumbers
<1>3. PICK a : Opening(a, s)
  BY <1>1, UnclosedSteps
<1> DEFINE Good(n) == /\ a[n] \in Opened /\ IsFiniteSet(a[n].found)
                      /\ \A i \in (n + 1)..l : /\ a[n].since # None => a[n].since <= s[i].at
                                               /\ \A w \in a[n].found : w[2] <= s[i].at
                      /\ \A t \in Nat : Holds(s, I(n, t)) <=> In(a[n], t)
           G == {n \in 0..l : Good(n)}
<1>4. 0 \in G
  <2>1. a[0].since = None /\ a[0].found = {} /\ a[0] \in Opened
    <3>1. a[0] = [since |-> None, found |-> {}]
      BY <1>3 DEF Opening
    <3>2. None \in Nat
      BY AvailabilityAssumption DEF None
    <3> QED BY ONLY <3>1, <3>2 DEF Opened
  <2>2. \A t : I(0, t) = {}
    BY DEF Before
  <2> HIDE DEF I
  <2>3. Good(0)
    BY <2>1, <2>2, FS_EmptySet DEF Holds
  <2>4. 0 \in 0..l
    BY <1>1
  <2> HIDE DEF Good, l
  <2> QED BY <2>3, <2>4
<1>5. ASSUME NEW m \in 0..(l - 1), m \in G PROVE m + 1 \in G
  <2> DEFINE n == m + 1
             e == s[n]
             acc == a[m]
             v == a[n]
  <2>1. n \in 1..l /\ n \in 0..l /\ n - 1 = m /\ n \in (m + 1)..l /\ n \in Nat /\ n > 0
    BY <1>1
  <2>2. e \in Events /\ e.at \in Nat
    BY <1>2, <2>1
  <2>3. Good(m)
    BY <1>5
  <2>4. /\ acc \in Opened /\ IsFiniteSet(acc.found)
        /\ acc.since # None => acc.since <= e.at
        /\ \A w \in acc.found : w[2] <= e.at
        /\ \A t \in Nat : Holds(s, I(m, t)) <=> In(acc, t)
    BY <2>1, <2>3
  <2>5. v = Windows(acc, e)
    BY <1>3, <2>1 DEF Opening
  <2> HIDE DEF acc, v, I
  <2>6. /\ v \in Opened /\ IsFiniteSet(v.found)
        /\ v.since # None => v.since <= e.at
        /\ \A w \in v.found : w[2] <= e.at
        /\ \A t \in Nat :
              In(v, t) <=> IF e.kind \in Bounds /\ e.at <= t THEN e.kind = MAINTENANCE_STARTED
                           ELSE In(acc, t)
    BY <2>2, <2>4, <2>5, OneMoreBound
  <2>7. ASSUME NEW t \in Nat
        PROVE  Holds(s, I(n, t)) <=> IF e.kind \in Bounds /\ e.at <= t THEN e.kind = MAINTENANCE_STARTED
                                     ELSE Holds(s, I(m, t))
    <3>1. \A i : i \in 1..n <=> i \in 1..m \/ i = n
      BY <2>1
    <3>2. e.at < t + 1 <=> e.at <= t
      BY <2>2
    <3>3. I(n, t) = IF e.kind \in Bounds /\ e.at <= t THEN I(m, t) \union {n} ELSE I(m, t)
      BY <3>1, <3>2 DEF I, Before
    <3>4. I(m, t) \in SUBSET (1..(n - 1))
      BY <2>1 DEF I, Before
    <3> HIDE DEF n
    <3>5. Max(I(m, t) \union {n}) = n
      BY <2>1, <3>4, LastOfMore
    <3> QED BY <3>3, <3>5 DEF Holds
  <2>8. ASSUME NEW i \in (n + 1)..l
        PROVE  (v.since # None => v.since <= s[i].at) /\ \A w \in v.found : w[2] <= s[i].at
    <3>1. i \in 1..l /\ n < i
      BY <1>1, <2>1
    <3>2. e.at <= s[i].at /\ s[i].at \in Nat
      BY <1>1, <1>2, <2>1, <3>1
    <3>3. v.since \in Nat /\ \A w \in v.found : w[2] \in Nat
      BY <2>6 DEF Opened, Intervals
    <3> QED BY <2>2, <2>6, <3>2, <3>3
  <2>9. \A t \in Nat : Holds(s, I(n, t)) <=> In(v, t)
    <3> HIDE DEF In, n, e
    <3> QED BY <2>4, <2>6, <2>7
  <2> HIDE DEF In
  <2>10. Good(n)
    BY <2>6, <2>8, <2>9 DEF v
  <2> HIDE DEF Good
  <2> QED BY <2>1, <2>10
<1>6. Good(l)
  <2>1. 0..l \subseteq G
    <3> HIDE DEF G
    <3> QED BY <1>1, <1>4, <1>5, Ascending
  <2>2. l \in G
    <3> HIDE DEF G
    <3> QED BY <1>1, <2>1
  <2> HIDE DEF Good
  <2> QED BY <2>2
<1> QED BY <1>3, <1>6 DEF Opening

\* The maintenance intervals of a report are in the period, apart, and have its instants
\* of which the events say that a window holds.
LEMMA MaintenanceIs ==
    ASSUME NEW s, ByDate(s), NEW start \in Nat, NEW end \in Nat, start < end
    PROVE  LET m == MaintenanceIntervals(s, start, end)
           IN  /\ Apart(m, start, end)
               /\ Inside(m) = {t \in start..(end - 1) : Holds(s, Before(s, Bounds, Len(s), t + 1))}
<1> DEFINE v == Unclosed(s)
           found == v.found \union (IF v.since = None THEN {} ELSE {<<v.since, end>>})
           D == {w \in found : w[1] < w[2] /\ w[2] > start /\ w[1] < end}
           W == {Clipped(w, start, end) : w \in D}
           m == MaintenanceIntervals(s, start, end)
           Held(t) == Holds(s, Before(s, Bounds, Len(s), t + 1))
<1>1. /\ v \in Opened /\ IsFiniteSet(v.found)
      /\ \A t \in Nat : Held(t) <=> \/ v.since # None /\ v.since <= t
                                    \/ \E w \in v.found : w[1] <= t /\ t < w[2]
  BY WindowsHold
<1>2. m = Merged(W)
  BY DEF MaintenanceIntervals, Unclosed
<1> HIDE DEF v, m, Held
<1>3. v.since \in Nat /\ v.found \in SUBSET Intervals
  BY <1>1 DEF Opened
<1>4. IsFiniteSet(found) /\ found \in SUBSET Intervals
  <2>1. IsFiniteSet({<<v.since, end>>}) /\ {<<v.since, end>>} \in SUBSET Intervals
    <3>1. <<v.since, end>> \in Intervals
      BY <1>3 DEF Intervals
    <3> QED BY <3>1, FS_Singleton
  <2> DEFINE X == {<<v.since, end>>}
  <2>2. found = v.found \/ found = v.found \union X
    OBVIOUS
  <2>3. IsFiniteSet(X) /\ X \in SUBSET Intervals
    BY <2>1
  <2> HIDE DEF X, found
  <2> QED BY <1>1, <1>3, <2>2, <2>3, FS_Union
<1>5. ASSUME NEW t \in start..(end - 1)
      PROVE  Held(t) <=> \E w \in found : w[1] <= t /\ t < w[2]
  <2>1. t \in Nat /\ t < end
    OBVIOUS
  <2>2. (\E w \in found : w[1] <= t /\ t < w[2])
          <=> \/ \E w \in v.found : w[1] <= t /\ t < w[2]
              \/ v.since # None /\ v.since <= t
    <3> DEFINE x == <<v.since, end>>
    <3>1. x[1] = v.since /\ x[2] = end
      OBVIOUS
    <3>2. found = IF v.since = None THEN v.found ELSE v.found \union {x}
      OBVIOUS
    <3> HIDE DEF x, found
    <3> QED BY <2>1, <3>1, <3>2
  <2> QED BY <1>1, <2>1, <2>2
<1> HIDE DEF found
<1>6. \A w \in D : /\ w \in Intervals /\ w[1] \in Nat /\ w[2] \in Nat /\ w[1] < w[2]
                   /\ w[2] > start /\ w[1] < end
  BY <1>4 DEF Intervals
<1>7. ASSUME NEW w \in D
      PROVE  LET x == Clipped(w, start, end)
             IN  /\ x \in Intervals /\ start <= x[1] /\ x[2] <= end
                 /\ \A t \in Nat : x[1] <= t /\ t < x[2]
                                     <=> t \in start..(end - 1) /\ w[1] <= t /\ t < w[2]
  <2> DEFINE x == Clipped(w, start, end)
  <2>1. w[1] \in Nat /\ w[2] \in Nat
    BY <1>6
  <2>2. x[1] = Later(w[1], start) /\ x[2] = Earlier(w[2], end) /\ x = <<x[1], x[2]>>
    BY DEF Clipped
  <2> HIDE DEF x
  <2>3. x \in Intervals
    BY <2>1, <2>2 DEF Intervals, Later, Earlier
  <2>4. start <= x[1] /\ x[2] <= end
    BY <2>1, <2>2 DEF Later, Earlier
  <2>5. ASSUME NEW t \in Nat
        PROVE  x[1] <= t /\ t < x[2] <=> t \in start..(end - 1) /\ w[1] <= t /\ t < w[2]
    BY <2>1, <2>2 DEF Later, Earlier
  <2> QED BY <2>3, <2>4, <2>5 DEF x
<1>8. IsFiniteSet(W)
  <2> DEFINE f == [w \in D |-> Clipped(w, start, end)]
  <2>1. IsFiniteSet(D)
    BY <1>4, FS_Subset
  <2>2. f \in Surjection(D, W)
    BY DEF Surjection
  <2> HIDE DEF D, W, f
  <2> QED BY <2>1, <2>2, FS_Surjection
<1>9. W \in SUBSET Intervals /\ \A x \in W : start <= x[1] /\ x[2] <= end
  BY <1>7
<1>10. \A t \in Nat : (\E x \in W : x[1] <= t /\ t < x[2])
                        <=> \E w \in D : t \in start..(end - 1) /\ w[1] <= t /\ t < w[2]
  <2> DEFINE C(w) == Clipped(w, start, end)
  <2>1. \A w \in D, t \in Nat : C(w)[1] <= t /\ t < C(w)[2]
                                  <=> t \in start..(end - 1) /\ w[1] <= t /\ t < w[2]
    BY <1>7
  <2>2. W = {C(w) : w \in D}
    OBVIOUS
  <2> HIDE DEF C, D, W
  <2> QED BY <2>1, <2>2
<1>11. \A t \in start..(end - 1) : (\E w \in found : w[1] <= t /\ t < w[2])
                                     <=> \E w \in D : w[1] <= t /\ t < w[2]
  <2>1. ASSUME NEW t \in start..(end - 1), NEW w \in found, w[1] <= t, t < w[2] PROVE w \in D
    <3>1. w[1] \in Nat /\ w[2] \in Nat
      BY <1>4 DEF Intervals
    <3> QED BY <2>1, <3>1
  <2>2. \A w \in D : w \in found
    OBVIOUS
  <2> HIDE DEF D
  <2> QED BY <2>1, <2>2
<1> HIDE DEF W, D
<1>12. Apart(m, start, end) /\ Inside(m) = {t \in Nat : \E x \in W : x[1] <= t /\ t < x[2]}
  BY <1>2, <1>8, <1>9, MergedApart
<1>13. ASSUME NEW t PROVE t \in Inside(m) <=> t \in {u \in start..(end - 1) : Held(u)}
  <2>1. t \in start..(end - 1) => t \in Nat
    OBVIOUS
  <2> QED BY <1>5, <1>10, <1>11, <1>12, <2>1
<1>14. Inside(m) = {t \in start..(end - 1) : Held(t)}
  <2>1. Inside(m) \subseteq {u \in start..(end - 1) : Held(u)}
    BY ONLY <1>13
  <2>2. {u \in start..(end - 1) : Held(u)} \subseteq Inside(m)
    BY ONLY <1>13
  <2> QED BY <2>1, <2>2
<1> QED BY <1>12, <1>14 DEF m, Held

\* The length of maintenance is the number of its instants.
LEMMA LengthsApart ==
    ASSUME NEW m, NEW start \in Nat, NEW end \in Nat, Apart(m, start, end)
    PROVE  Total(Lengths(m)) = Cardinality(Inside(m))
<1> DEFINE f == Lengths(m)
           P == [i \in DOMAIN m |-> m[i][1]..(m[i][2] - 1)]
<1>1. m \in Seq(Intervals) /\ DOMAIN m = 1..Len(m) /\ Len(m) \in Nat
  BY DEF Apart
<1>2. \A i \in 1..Len(m) : m[i][1] \in Nat /\ m[i][2] \in Nat /\ m[i][1] < m[i][2]
  <2>1. \A i \in 1..Len(m) : m[i] \in Intervals
    BY <1>1
  <2> QED BY <2>1 DEF Intervals, Apart
<1>3. ASSUME NEW i \in 1..Len(m)
      PROVE  f[i] \in Nat /\ IsFiniteSet(P[i]) /\ Cardinality(P[i]) = f[i]
  <2>1. f[i] = m[i][2] - m[i][1] /\ P[i] = m[i][1]..(m[i][2] - 1)
    BY <1>1 DEF Lengths
  <2>2. m[i][1] \in Nat /\ m[i][2] \in Nat /\ m[i][1] < m[i][2]
    BY <1>2
  <2> HIDE DEF f, P
  <2>3. /\ IsFiniteSet(m[i][1]..(m[i][2] - 1))
        /\ Cardinality(m[i][1]..(m[i][2] - 1)) = m[i][2] - m[i][1]
    BY <2>2, Instant
  <2> QED BY <2>1, <2>2, <2>3
<1>4. f \in Seq(Nat) /\ Len(f) = Len(m)
  <2>1. f \in [1..Len(m) -> Nat]
    BY <1>1, <1>3 DEF Lengths
  <2> QED BY <1>1, <2>1
<1>5. ASSUME NEW i \in 1..Len(m), NEW j \in 1..Len(m), i < j PROVE P[i] \intersect P[j] = {}
  <2>1. m[i][2] < m[j][1]
    BY <1>5 DEF Apart
  <2>2. SUFFICES ASSUME NEW t \in m[i][1]..(m[i][2] - 1), t \in m[j][1]..(m[j][2] - 1) PROVE FALSE
    BY <1>1
  <2> QED BY <1>2, <2>1, <2>2
<1>6. UNION {P[i] : i \in 1..Len(m)} = Inside(m)
  <2>1. \A i \in 1..Len(m) : P[i] = {t \in Nat : m[i][1] <= t /\ t < m[i][2]}
    BY <1>1, <1>2
  <2> HIDE DEF P
  <2> QED BY <2>1 DEF Inside
<1> HIDE DEF f, P
<1>7. Total(f) = Cardinality(UNION {P[i] : i \in 1..Len(f)})
  BY <1>3, <1>4, <1>5, TotalOfParts
<1> QED BY <1>4, <1>6, <1>7 DEF f

\* A function of the segments that weighs them.
LEMMA Weighs ==
    ASSUME NEW segments, NEW start \in Nat, NEW end \in Nat, Tiled(segments, start, end), NEW now,
           Covers(segments, now, start, end), NEW K \in SUBSET {ONLINE, OFFLINE}, NEW Z,
           NEW w, w = [i \in DOMAIN segments |-> w[i]], Weigh(w, segments, K, Z)
    PROVE  Total(w) = Cardinality(Having(now, K, Z, start, end))
<1>1. DOMAIN segments = 1..Len(segments) /\ Len(segments) \in Nat
  BY DEF Tiled
<1>2. ASSUME NEW i \in 1..Len(segments) PROVE w[i] \in Nat
  <2> DEFINE I == segments[i][1]..(segments[i][2] - 1)
  <2>1. segments[i][1] \in Nat /\ segments[i][2] \in Nat
    <3>1. segments[i] \in Spans
      BY DEF Tiled
    <3> QED BY <3>1 DEF Spans
  <2>2. IsFiniteSet(I)
    BY ONLY <2>1, Instant
  <2>3. w[i] = IF segments[i][3] \in K THEN Cardinality(I \intersect Z) ELSE 0
    BY DEF Weigh
  <2> HIDE DEF I
  <2>4. Cardinality(I \intersect Z) \in Nat
    BY <2>2, FS_Subset, FS_CardinalityType
  <2> QED BY <2>3, <2>4
<1>3. w \in Seq(Nat) /\ Len(w) = Len(segments)
  <2>1. w \in [1..Len(segments) -> Nat]
    BY <1>1, <1>2
  <2> QED BY <1>1, <2>1
<1> QED BY <1>3, TotalTiled

--------------------------------------------------------------------------------
(***************************************************************************)
(* The row of a report.                                                    *)
(***************************************************************************)
\* Weights are taken over all segments, or over the offline ones.
OfOffline(segments, f) == [i \in DOMAIN segments |-> IF segments[i][3] = OFFLINE THEN f[i] ELSE 0]
Insides(segments, m) == [i \in DOMAIN segments |-> Overlap(segments[i][1], segments[i][2], m)]

LEMMA SegmentBounds ==
    ASSUME NEW segments, NEW start, NEW end, Tiled(segments, start, end), NEW i \in 1..Len(segments)
    PROVE  /\ segments[i][1] \in Nat /\ segments[i][2] \in Nat /\ segments[i][1] < segments[i][2]
           /\ segments[i][3] \in {ONLINE, OFFLINE}
<1>1. segments[i] \in Spans
  BY DEF Tiled
<1> QED BY <1>1 DEF Spans, Tiled

\* The sums of a row count instants.
LEMMA RowSums ==
    ASSUME NEW segments, NEW m, NEW start \in Nat, NEW end \in Nat, Tiled(segments, start, end),
           NEW now, Covers(segments, now, start, end), Apart(m, start, end)
    PROVE  LET Both == {ONLINE, OFFLINE}
               Down == {OFFLINE}
               Z == Inside(m)
           IN  /\ Total(Lengths(segments)) = Cardinality(Having(now, Both, Nat, start, end))
               /\ Total(OfOffline(segments, Lengths(segments)))
                    = Cardinality(Having(now, Down, Nat, start, end))
               /\ Total(Insides(segments, m)) = Cardinality(Having(now, Both, Z, start, end))
               /\ Total(OfOffline(segments, Insides(segments, m)))
                    = Cardinality(Having(now, Down, Z, start, end))
<1> DEFINE Both == {ONLINE, OFFLINE}
           Down == {OFFLINE}
           Z == Inside(m)
           f == Lengths(segments)
           g == Insides(segments, m)
<1>1. DOMAIN segments = 1..Len(segments) /\ Len(segments) \in Nat
  BY DEF Tiled
<1>2. ASSUME NEW i \in 1..Len(segments)
      PROVE  LET I == segments[i][1]..(segments[i][2] - 1)
             IN  f[i] = Cardinality(I \intersect Nat) /\ g[i] = Cardinality(I \intersect Z)
  <2> DEFINE I == segments[i][1]..(segments[i][2] - 1)
  <2>1. segments[i][1] \in Nat /\ segments[i][2] \in Nat /\ segments[i][1] < segments[i][2]
    BY SegmentBounds
  <2>2. Cardinality(I) = segments[i][2] - segments[i][1]
    BY ONLY <2>1, Instant
  <2>3. I \intersect Nat = I
    BY <2>1
  <2>4. f[i] = segments[i][2] - segments[i][1]
    BY <1>1 DEF Lengths
  <2>5. g[i] = Overlap(segments[i][1], segments[i][2], m)
    BY <1>1 DEF Insides
  <2>6. Overlap(segments[i][1], segments[i][2], m) = Cardinality(I \intersect Z)
    BY <2>1, OverlapIs
  <2> QED BY <2>2, <2>3, <2>4, <2>5, <2>6
<1>3. \A i \in 1..Len(segments) : segments[i][3] \in Both
  BY SegmentBounds
<1>4. Weigh(f, segments, Both, Nat) /\ Weigh(g, segments, Both, Z)
  <2> HIDE DEF f, g, Z, Both
  <2> QED BY <1>2, <1>3 DEF Weigh
<1>5. /\ Weigh(OfOffline(segments, f), segments, Down, Nat)
      /\ Weigh(OfOffline(segments, g), segments, Down, Z)
  <2> HIDE DEF f, g, Z
  <2> QED BY <1>1, <1>2 DEF Weigh, OfOffline
<1>6. /\ f = [i \in DOMAIN segments |-> f[i]] /\ g = [i \in DOMAIN segments |-> g[i]]
      /\ OfOffline(segments, f) = [i \in DOMAIN segments |-> OfOffline(segments, f)[i]]
      /\ OfOffline(segments, g) = [i \in DOMAIN segments |-> OfOffline(segments, g)[i]]
  BY DEF Lengths, Insides, OfOffline
<1>7. Both \in SUBSET {ONLINE, OFFLINE} /\ Down \in SUBSET {ONLINE, OFFLINE}
  OBVIOUS
<1> HIDE DEF f, g, Z, Both, Down
<1>8. Total(f) = Cardinality(Having(now, Both, Nat, start, end))
  BY <1>4, <1>6, <1>7, Weighs
<1>9. Total(g) = Cardinality(Having(now, Both, Z, start, end))
  BY <1>4, <1>6, <1>7, Weighs
<1>10. Total(OfOffline(segments, f)) = Cardinality(Having(now, Down, Nat, start, end))
  BY <1>5, <1>6, <1>7, Weighs
<1>11. Total(OfOffline(segments, g)) = Cardinality(Having(now, Down, Z, start, end))
  BY <1>5, <1>6, <1>7, Weighs
<1> QED BY <1>8, <1>9, <1>10, <1>11 DEF f, g, Z, Both, Down

\* What is left of a finite set without the elements of another.
LEMMA Without ==
    ASSUME NEW S, IsFiniteSet(S), NEW T, NEW U, U = S \intersect T
    PROVE  Cardinality(S \ T) = Cardinality(S) - Cardinality(U)
BY FS_Difference

\* Normalized events are in the order of their dates.
LEMMA NormalizedByDate ==
    ASSUME NEW es, IsHistory(es)
    PROVE  ByDate(Normalized(es)) /\ Orders(Normalized(es), es)
<1> DEFINE s == Normalized(es)
<1>1. Orders(s, es)
  BY NormalizedOrders
<1> HIDE DEF s
<1>2. s \in Seq(Events) /\ \A i, j \in 1..Len(s) : i < j => Prior(s[i], s[j])
  BY <1>1 DEF Orders
<1>3. \A i \in 1..Len(s) : s[i].at \in Nat
  <2>1. \A i \in 1..Len(s) : s[i] \in Events
    BY <1>2
  <2> QED BY <2>1, EventNumbers
<1>4. ByDate(s)
  BY <1>2, <1>3 DEF ByDate, Prior
<1> QED BY <1>1, <1>4 DEF s

LEMMA MaintainedHolds ==
    ASSUME NEW es, IsHistory(es), NEW s, Orders(s, es), NEW t \in Nat
    PROVE  MaintainedAt(es, t) <=> Holds(s, Before(s, Bounds, Len(s), t + 1))
<1>1. FOREIGN \notin Bounds
  BY DEF FOREIGN, Bounds, MAINTENANCE_STARTED, MAINTENANCE_ENDED
<1> QED BY <1>1, LatestOrdered DEF MaintainedAt, Holds, Bounds

\* The durations of a row.
Counted(es, start, end) ==
    LET row == Row(es, start, end)
        I == start..(end - 1)
        known == {t \in I : StatusAt(es, t) # UNKNOWN}
        offline == {t \in I : StatusAt(es, t) = OFFLINE}
        maintained == {t \in I : MaintainedAt(es, t)}
    IN  /\ row.known = Cardinality(known)
        /\ row.downtime = Cardinality(offline)
        /\ row.maintenance = Cardinality(maintained)
        /\ row.planned = Cardinality(offline \intersect maintained)
        /\ row.unplanned = Cardinality(offline \ maintained)
        /\ row.eligible = Cardinality(known \ maintained)

LEMMA RowCounts ==
    ASSUME NEW es, IsHistory(es), NEW start \in Nat, NEW end \in Nat, start < end
    PROVE  Counted(es, start, end)
<1> DEFINE s == Normalized(es)
           segments == Segments(s, start, end)
           m == MaintenanceIntervals(s, start, end)
           now == StatusNow(s)
           row == Row(es, start, end)
           I == start..(end - 1)
           known == {t \in I : StatusAt(es, t) # UNKNOWN}
           offline == {t \in I : StatusAt(es, t) = OFFLINE}
           maintained == {t \in I : MaintainedAt(es, t)}
           Both == {ONLINE, OFFLINE}
           Down == {OFFLINE}
<1>1. /\ row.known = Total(Lengths(segments))
      /\ row.downtime = Total(OfOffline(segments, Lengths(segments)))
      /\ row.maintenance = Total(Lengths(m))
      /\ row.planned = Total(OfOffline(segments, Insides(segments, m)))
      /\ row.unplanned = row.downtime - row.planned
      /\ row.eligible = row.known - Total(Insides(segments, m))
  <2> DEFINE inside == [i \in DOMAIN segments |-> Overlap(segments[i][1], segments[i][2], m)]
             Offline(f) == [i \in DOMAIN segments |-> IF segments[i][3] = OFFLINE THEN f[i] ELSE 0]
  <2>1. /\ row.known = Total(Lengths(segments))
        /\ row.downtime = Total(Offline(Lengths(segments)))
        /\ row.maintenance = Total(Lengths(m))
    BY DEF Row, Lengths
  <2>2. row.planned = Total(Offline(inside))
    BY DEF Row
  <2>3. row.unplanned = row.downtime - row.planned
    BY DEF Row
  <2>4. row.eligible = row.known - Total(inside)
    BY DEF Row
  <2> QED BY <2>1, <2>2, <2>3, <2>4 DEF OfOffline, Insides
<1>2. ByDate(s) /\ Orders(s, es)
  BY NormalizedByDate
<1> HIDE DEF s, row
<1>3. Tiled(segments, start, end) /\ Covers(segments, now, start, end)
  BY <1>2, SegmentsCover
<1>4. /\ Apart(m, start, end)
      /\ Inside(m) = {t \in I : Holds(s, Before(s, Bounds, Len(s), t + 1))}
  BY <1>2, MaintenanceIs
<1>5. \A t \in I : t \in Nat /\ now[t] = StatusAt(es, t) /\ StatusAt(es, t) \in Statuses
  <2>1. ASSUME NEW t \in I PROVE t \in Nat /\ now[t] = StatusAt(es, t) /\ StatusAt(es, t) \in Statuses
    <3>1. t \in Nat
      OBVIOUS
    <3>2. now[t] = Says(s, Before(s, Transitions, Len(s), t + 1))
      BY <3>1 DEF StatusNow
    <3> QED BY <1>2, <3>1, <3>2, StatusAtSays, SaysType
  <2> QED BY <2>1
<1>6. Inside(m) = maintained
  <2>1. \A t \in I : MaintainedAt(es, t) <=> Holds(s, Before(s, Bounds, Len(s), t + 1))
    BY <1>2, <1>5, MaintainedHolds
  <2> QED BY <1>4, <2>1
<1> HIDE DEF m, segments, now
<1>7. /\ Having(now, Both, Nat, start, end) = known
      /\ Having(now, Down, Nat, start, end) = offline
      /\ Having(now, Both, maintained, start, end) = known \intersect maintained
      /\ Having(now, Down, maintained, start, end) = offline \intersect maintained
  <2>1. \A t \in I : /\ StatusAt(es, t) # UNKNOWN <=> now[t] \in Both
                     /\ StatusAt(es, t) = OFFLINE <=> now[t] \in Down
    BY <1>5 DEF Statuses, UNKNOWN, ONLINE, OFFLINE
  <2> HIDE DEF Both, Down
  <2>2. /\ Having(now, Both, Nat, start, end) = {t \in I : now[t] \in Both /\ t \in Nat}
        /\ Having(now, Down, Nat, start, end) = {t \in I : now[t] \in Down /\ t \in Nat}
        /\ Having(now, Both, maintained, start, end) = {t \in I : now[t] \in Both /\ t \in maintained}
        /\ Having(now, Down, maintained, start, end) = {t \in I : now[t] \in Down /\ t \in maintained}
    BY DEF Having
  <2>3. \A t \in I : t \in Nat
    OBVIOUS
  <2> HIDE DEF I
  <2> QED BY <2>1, <2>2, <2>3
<1>8. IsFiniteSet(known) /\ IsFiniteSet(offline)
  <2>1. IsFiniteSet(I)
    BY Instant
  <2>2. known \subseteq I /\ offline \subseteq I
    OBVIOUS
  <2> HIDE DEF I, known, offline
  <2> QED BY <2>1, <2>2, FS_Subset
<1>9. /\ Total(Lengths(segments)) = Cardinality(known)
      /\ Total(OfOffline(segments, Lengths(segments))) = Cardinality(offline)
      /\ Total(Insides(segments, m)) = Cardinality(known \intersect maintained)
      /\ Total(OfOffline(segments, Insides(segments, m))) = Cardinality(offline \intersect maintained)
  <2>1. /\ Total(Lengths(segments)) = Cardinality(Having(now, Both, Nat, start, end))
        /\ Total(OfOffline(segments, Lengths(segments)))
             = Cardinality(Having(now, Down, Nat, start, end))
        /\ Total(Insides(segments, m)) = Cardinality(Having(now, Both, Inside(m), start, end))
        /\ Total(OfOffline(segments, Insides(segments, m)))
             = Cardinality(Having(now, Down, Inside(m), start, end))
    <3> HIDE DEF known, offline, maintained, I
    <3>1. Tiled(segments, start, end) /\ Covers(segments, now, start, end) /\ Apart(m, start, end)
      BY <1>3, <1>4
    <3> QED BY ONLY <3>1, start \in Nat, end \in Nat, RowSums
  <2> HIDE DEF Both, Down, known, offline, maintained
  <2> QED BY <1>6, <1>7, <2>1
<1>10. Total(Lengths(m)) = Cardinality(maintained)
  BY <1>4, <1>6, LengthsApart
<1>11. /\ Cardinality(offline \ maintained)
            = Cardinality(offline) - Cardinality(offline \intersect maintained)
       /\ Cardinality(known \ maintained)
            = Cardinality(known) - Cardinality(known \intersect maintained)
  <2> HIDE DEF known, offline, maintained
  <2> QED BY <1>8, Without
<1> HIDE DEF known, offline, maintained
<1>12. /\ row.known = Cardinality(known)
       /\ row.downtime = Cardinality(offline)
       /\ row.maintenance = Cardinality(maintained)
       /\ row.planned = Cardinality(offline \intersect maintained)
       /\ row.unplanned = Cardinality(offline \ maintained)
       /\ row.eligible = Cardinality(known \ maintained)
  BY <1>1, <1>9, <1>10, <1>11
<1> QED BY <1>12 DEF row, known, offline, maintained, Counted

\* calculate_availability() counts, at every period that has passed, the instants that were
\* known, offline, in maintenance, both, and known outside of it.
THEOREM RowCountsInstants == Spec => []RowIsReality
<1>1. HistoryInv => RowIsReality
  <2>1. SUFFICES ASSUME HistoryInv PROVE RowIsReality
    OBVIOUS
  <2>2. IsHistory(events) /\ clock \in Nat
    BY <2>1, RetainedHistory, AvailabilityAssumption DEF HistoryInv, TypeOK, Time
  <2>3. \A p \in Periods : p[1] \in Nat /\ p[2] \in Nat /\ p[1] < p[2]
    BY <2>2 DEF Periods
  <2>4. \A p \in Periods : Counted(events, p[1], p[2])
    BY <2>2, <2>3, RowCounts
  <2> QED BY <2>4 DEF RowIsReality, Instants, Counted
<1> QED BY <1>1, History, PTL

--------------------------------------------------------------------------------
(***************************************************************************)
(* The outages of a report.                                                *)
(***************************************************************************)
OutagesOf(start, end, m) ==
    {Outage(down, up, over, start, end, m) : down \in Nat, up \in Nat, over \in BOOLEAN}
Turning(start, end, m) ==
    [status : Statuses, since : Nat, found : Seq(OutagesOf(start, end, m))]

LEMMA OutageFields ==
    ASSUME NEW start, NEW end, NEW m, NEW x \in OutagesOf(start, end, m)
    PROVE  /\ x.down \in Nat /\ x.up \in Nat
           /\ x.length = intersect_interval(x.down, x.up, start, end)
           /\ x.planned = Overlap(Later(x.down, start), Earlier(x.up, end), m)
           /\ x.class = classify_outage(x.length, x.planned)
<1>1. PICK down \in Nat, up \in Nat, over \in BOOLEAN : x = Outage(down, up, over, start, end, m)
  BY DEF OutagesOf
<1> DEFINE length == intersect_interval(down, up, start, end)
           planned == Overlap(Later(down, start), Earlier(up, end), m)
           class == classify_outage(length, planned)
<1>2. x = [down |-> down, up |-> up, over |-> over, length |-> length, planned |-> planned,
           class |-> class]
  BY <1>1 DEF Outage
<1> HIDE DEF length, planned, class
<1>3. /\ x.down = down /\ x.up = up /\ x.length = length /\ x.planned = planned
      /\ x.class = class
  BY <1>2
<1> QED BY <1>3 DEF length, planned, class

LEMMA FoundType ==
    ASSUME NEW start, NEW end, NEW m, NEW acc \in Turning(start, end, m), NEW to \in Nat,
           NEW over \in BOOLEAN
    PROVE  Found(acc, to, over, start, end, m) \in Seq(OutagesOf(start, end, m))
<1>1. acc.found \in Seq(OutagesOf(start, end, m)) /\ acc.since \in Nat
  BY DEF Turning
<1>2. Outage(acc.since, to, over, start, end, m) \in OutagesOf(start, end, m)
  BY <1>1 DEF OutagesOf
<1> HIDE DEF Turning
<1> QED BY <1>1, <1>2 DEF Found

LEMMA TurnedType ==
    ASSUME NEW start, NEW end, NEW m, NEW acc \in Turning(start, end, m), NEW e \in Events
    PROVE  Turned(acc, e, start, end, m) \in Turning(start, end, m)
<1> DEFINE new == Found(acc, e.at, TRUE, start, end, m)
           S == Seq(OutagesOf(start, end, m))
<1>1. /\ acc.found \in S /\ acc.since \in Nat /\ acc.status \in Statuses /\ e.at \in Nat
      /\ acc = [status |-> acc.status, since |-> acc.since, found |-> acc.found]
  BY EventNumbers DEF Turning
<1>2. new \in S
  BY <1>1, FoundType
<1>3. OFFLINE \in Statuses /\ ONLINE \in Statuses /\ DownAt(acc, e) \in Nat
  BY <1>1 DEF Statuses, DownAt
<1> HIDE DEF new, S
<1>4. Turning(start, end, m) = [status : Statuses, since : Nat, found : S]
  BY DEF Turning, S
<1>5. CASE e.kind = DOWN
  <2> DEFINE at == DownAt(acc, e)
  <2>1. at \in Nat /\ DOWN # RECOVERED
    BY <1>3 DEF DOWN, RECOVERED
  <2>2. Turned(acc, e, start, end, m) = [acc EXCEPT !.status = OFFLINE, !.since = at]
    BY <1>5, <2>1 DEF Turned
  <2> HIDE DEF at
  <2>3. acc \in [status : Statuses, since : Nat, found : S]
    BY <1>4
  <2>4. [acc EXCEPT !.status = OFFLINE, !.since = at] \in [status : Statuses, since : Nat, found : S]
    BY ONLY <1>3, <2>1, <2>3
  <2> QED BY <1>4, <2>2, <2>4
<1>6. CASE e.kind # DOWN /\ e.kind = RECOVERED
  <2>1. Turned(acc, e, start, end, m) = [status |-> ONLINE, since |-> e.at, found |-> new]
    BY <1>6 DEF Turned, new
  <2> QED BY <1>1, <1>2, <1>3, <1>4, <2>1
<1>7. CASE e.kind # DOWN /\ e.kind # RECOVERED
  BY <1>7 DEF Turned
<1> QED BY <1>5, <1>6, <1>7

\* _outages_for_target() event by event.
Unended(s, start, end, m) ==
    FoldLeft(LAMBDA acc, e : Turned(acc, e, start, end, m),
             [status |-> UNKNOWN, since |-> 0, found |-> << >>], s)
Turns(a, s, start, end, m) ==
    /\ a \in [0..Len(s) -> Turning(start, end, m)]
    /\ a[0] = [status |-> UNKNOWN, since |-> 0, found |-> << >>]
    /\ a[Len(s)] = Unended(s, start, end, m)
    /\ \A n \in 1..Len(s) : a[n] = Turned(a[n - 1], s[n], start, end, m)

LEMMA TurnedSteps ==
    ASSUME NEW s \in Seq(Events), NEW start, NEW end, NEW m
    PROVE  \E a : Turns(a, s, start, end, m)
<1> DEFINE Op(acc, e) == Turned(acc, e, start, end, m)
           A == Turning(start, end, m)
           b == [status |-> UNKNOWN, since |-> 0, found |-> << >>]
           g == [p \in A \X Events |-> Op(p[1], p[2])]
           Body(F) == F = [u \in SUBSET DOMAIN s |->
                              IF u = {} THEN b ELSE Op(F[u \ {Max(u)}], s[Max(u)])]
           F == CHOOSE F : Body(F)
<1>1. /\ g \in [A \X Events -> A]
      /\ \A x \in A, y \in Events : g[<<x, y>>] = Op(x, y) /\ g[<<x, y>>] \in A
  <2>1. \A x \in A, y \in Events : Op(x, y) \in A
    BY TurnedType
  <2> HIDE DEF Op, A
  <2> QED BY <2>1
<1>0. b \in A
  <2>1. << >> \in Seq(OutagesOf(start, end, m)) /\ UNKNOWN \in Statuses
    BY DEF Statuses
  <2> QED BY <2>1 DEF Turning
<1>2. Unended(s, start, end, m) = F[DOMAIN s]
  BY DEF Unended, FoldLeft, MapThenFoldSet
<1> HIDE DEF Op, g, b, A
<1>3. PICK H : TypedFold(H, A, Events, g, b, s)
  BY <1>0, <1>1, FoldTyped
<1>4. Body(H)
  BY <1>1, <1>3 DEF TypedFold
<1>5. Body(F)
  BY <1>4
<1> HIDE DEF F
<1>6. F[1..0] = b
  BY <1>5
<1>7. ASSUME NEW n \in 1..Len(s), F[1..(n - 1)] \in A
      PROVE  F[1..n] = g[<<F[1..(n - 1)], s[n]>>]
  <2>1. /\ 1..n \in SUBSET DOMAIN s /\ 1..n # {}
        /\ Max(1..n) = n /\ (1..n) \ {Max(1..n)} = 1..(n - 1)
    BY FoldTake
  <2>2. F[1..n] = Op(F[1..(n - 1)], s[n])
    BY <1>5, <2>1
  <2>3. s[n] \in Events
    OBVIOUS
  <2> QED BY <1>1, <1>7, <2>2, <2>3
<1> HIDE DEF Body
<1>8. Stepwise(F, A, Events, g, b, s)
  BY <1>1, <1>6, <1>7 DEF Stepwise
<1>9. PICK a : Run(a, A, Events, g, b, s) /\ a[Len(s)] = F[DOMAIN s]
  BY <1>0, <1>8, FoldRun
<1>10. /\ a \in [0..Len(s) -> A] /\ a[0] = b
       /\ \A n \in 1..Len(s) : a[n] = Op(a[n - 1], s[n])
  BY <1>1, <1>9 DEF Run
<1>11. \A n \in 1..Len(s) : a[n] = Turned(a[n - 1], s[n], start, end, m)
  BY <1>10 DEF Op
<1> QED BY <1>2, <1>9, <1>10, <1>11 DEF b, A, Turns

\* Outages that meet the period, one after the other, and what they have of it.
Chained(f, start, end, m) ==
    /\ f \in Seq(OutagesOf(start, end, m))
    /\ \A i \in 1..Len(f) : f[i].length # 0
    /\ \A i, j \in 1..Len(f) : i < j => f[i].up <= f[j].down
Out(f, t) == \E i \in 1..Len(f) : f[i].down <= t /\ t < f[i].up

\* The outage that was open is one more.
LEMMA FoundChained ==
    ASSUME NEW start \in Nat, NEW end \in Nat, NEW m, NEW acc \in Turning(start, end, m),
           Chained(acc.found, start, end, m),
           \A i \in 1..Len(acc.found) : acc.found[i].up <= acc.since,
           NEW to \in Nat, NEW over \in BOOLEAN
    PROVE  LET v == Found(acc, to, over, start, end, m)
           IN  /\ Chained(v, start, end, m)
               /\ \A i \in 1..Len(v) : v[i].up <= Later(acc.since, to)
               /\ \A t \in start..(end - 1) :
                     Out(v, t) <=> \/ Out(acc.found, t)
                                   \/ acc.status = OFFLINE /\ acc.since <= t /\ t < to
<1> DEFINE u == acc.found
           c == acc.since
           st == acc.status
           S == OutagesOf(start, end, m)
           e == Outage(c, to, over, start, end, m)
           v == Found(acc, to, over, start, end, m)
<1>1. u \in Seq(S) /\ Len(u) \in Nat /\ c \in Nat
  BY DEF Turning
<1>2. e \in S
  BY <1>1 DEF OutagesOf
<1>3. e.down = c /\ e.up = to /\ e.length = intersect_interval(c, to, start, end)
  BY DEF Outage
<1>4. v = IF st # OFFLINE \/ e.length = 0 THEN u ELSE Append(u, e)
  BY <1>3 DEF Found
<1>5. /\ \A i \in 1..Len(u) : /\ u[i] \in S /\ u[i].down \in Nat /\ u[i].up \in Nat
                              /\ u[i].up <= c /\ u[i].length # 0
      /\ \A i, j \in 1..Len(u) : i < j => u[i].up <= u[j].down
  <2>1. \A i \in 1..Len(u) : u[i] \in S
    BY <1>1
  <2> QED BY <2>1, OutageFields DEF Chained
<1> HIDE DEF u, c, st, S, e, v
<1>6. CASE st # OFFLINE \/ e.length = 0
  <2>1. v = u
    BY <1>4, <1>6
  <2>2. Chained(v, start, end, m)
    BY <1>1, <1>5, <2>1 DEF Chained, S
  <2>3. \A i \in 1..Len(v) : v[i].up <= Later(c, to)
    BY <1>1, <1>5, <2>1 DEF Later
  <2>4. \A t \in start..(end - 1) : ~ (st = OFFLINE /\ c <= t /\ t < to)
    BY <1>1, <1>3, <1>6 DEF intersect_interval, Later, Earlier
  <2> QED BY <2>1, <2>2, <2>3, <2>4 DEF u, c, st, v
<1>7. CASE ~ (st # OFFLINE \/ e.length = 0)
  <2>1. v = Append(u, e)
    BY <1>4, <1>7
  <2>2. /\ v \in Seq(S) /\ Len(v) = Len(u) + 1 /\ v[Len(u) + 1] = e
        /\ \A i \in 1..Len(u) : v[i] = u[i]
    BY <1>1, <1>2, <2>1
  <2>3. \A i \in 1..Len(v) : i \in 1..Len(u) \/ i = Len(u) + 1
    BY <1>1, <2>2
  <2>4. ASSUME NEW i \in 1..Len(v) PROVE v[i].length # 0 /\ v[i].up <= Later(c, to)
    <3>1. CASE i \in 1..Len(u)
      BY <1>1, <1>5, <2>2, <3>1 DEF Later
    <3>2. CASE i = Len(u) + 1
      BY <1>1, <1>3, <1>7, <2>2, <3>2 DEF Later
    <3> QED BY <2>3, <3>1, <3>2
  <2>5. ASSUME NEW i \in 1..Len(v), NEW j \in 1..Len(v), i < j PROVE v[i].up <= v[j].down
    <3>1. i \in 1..Len(u)
      BY <1>1, <2>2, <2>5
    <3>2. CASE j \in 1..Len(u)
      BY <1>5, <2>2, <2>5, <3>1, <3>2
    <3>3. CASE j = Len(u) + 1
      BY <1>3, <1>5, <2>2, <3>1, <3>3
    <3> QED BY <2>3, <3>2, <3>3
  <2>6. Chained(v, start, end, m)
    BY <2>2, <2>4, <2>5 DEF Chained, S
  <2>7. ASSUME NEW t \in start..(end - 1)
        PROVE  Out(v, t) <=> Out(u, t) \/ (c <= t /\ t < to)
    <3>1. Len(u) + 1 \in 1..Len(v) /\ \A i \in 1..Len(u) : i \in 1..Len(v)
      BY <1>1, <2>2
    <3> QED BY <1>3, <2>2, <2>3, <3>1 DEF Out
  <2> QED BY <1>7, <2>4, <2>6, <2>7 DEF u, c, st, v
<1> QED BY <1>6, <1>7

\* What the events so far say of the instants of the period: out of a closed outage, or
\* of the open one.
OutSoFar(acc, t) == Out(acc.found, t) \/ (acc.status = OFFLINE /\ acc.since <= t)

\* One more event ends the open outage, begins one, or changes nothing.
LEMMA OneMoreTurn ==
    ASSUME NEW start \in Nat, NEW end \in Nat, NEW m, NEW acc \in Turning(start, end, m),
           Chained(acc.found, start, end, m),
           \A i \in 1..Len(acc.found) : acc.found[i].up <= acc.since,
           NEW e \in Events, acc.since <= e.at
    PROVE  LET v == Turned(acc, e, start, end, m)
           IN  /\ Chained(v.found, start, end, m) /\ v.since <= e.at
               /\ \A i \in 1..Len(v.found) : v.found[i].up <= v.since
               /\ v.status = StatusAfter(acc.status, e)
               /\ \A t \in start..(end - 1) :
                     OutSoFar(v, t) <=> IF e.kind \in Transitions /\ e.at <= t THEN e.kind = DOWN
                                        ELSE OutSoFar(acc, t)
<1> DEFINE u == acc.found
           c == acc.since
           st == acc.status
           S == OutagesOf(start, end, m)
           new == Found(acc, e.at, TRUE, start, end, m)
           v == Turned(acc, e, start, end, m)
           at == DownAt(acc, e)
<1>1. /\ u \in Seq(S) /\ Len(u) \in Nat /\ c \in Nat /\ e.at \in Nat /\ c <= e.at
      /\ acc \in [status : Statuses, since : Nat, found : Seq(S)]
  BY EventNumbers DEF Turning
<1>2. \A i \in 1..Len(u) : u[i].down \in Nat /\ u[i].up \in Nat /\ u[i].up <= c
  <2>1. \A i \in 1..Len(u) : u[i] \in S
    BY <1>1
  <2> QED BY <2>1, OutageFields
<1>3. \A t \in Nat : e.at <= t => ~ Out(u, t)
  BY <1>1, <1>2 DEF Out
<1>4. DOWN # RECOVERED /\ ONLINE # OFFLINE
  BY DEF DOWN, RECOVERED, ONLINE, OFFLINE
<1>5. /\ Chained(u, start, end, m)
      /\ \A t \in Nat : OutSoFar(acc, t) <=> Out(u, t) \/ (st = OFFLINE /\ c <= t)
  BY DEF OutSoFar
<1>6. CASE e.kind = DOWN
  <2>1. v = [acc EXCEPT !.status = OFFLINE, !.since = at]
    BY <1>4, <1>6 DEF Turned
  <2>2. at = IF st = OFFLINE THEN c ELSE e.at
    BY DEF DownAt
  <2> HIDE DEF at, v
  <2>3. v.status = OFFLINE /\ v.since = at /\ v.found = u
    BY ONLY <1>1, <2>1 DEF u
  <2>4. StatusAfter(st, e) = OFFLINE
    BY <1>4, <1>6 DEF StatusAfter
  <2> HIDE DEF u, c, st
  <2>5. at \in Nat /\ c <= at /\ at <= e.at
    BY <1>1, <2>2
  <2>6. \A i \in 1..Len(u) : u[i].up <= at
    BY <1>1, <1>2, <2>5
  <2>7. ASSUME NEW t \in start..(end - 1)
        PROVE  OutSoFar(v, t) <=> IF e.at <= t THEN TRUE ELSE OutSoFar(acc, t)
    <3>1. t \in Nat
      OBVIOUS
    <3>2. OutSoFar(v, t) <=> Out(u, t) \/ at <= t
      BY <2>3 DEF OutSoFar
    <3> QED BY <1>1, <1>5, <2>2, <2>5, <3>1, <3>2
  <2> QED BY <1>5, <1>6, <2>3, <2>4, <2>5, <2>6, <2>7 DEF v, u, st, Transitions
<1>7. CASE e.kind = RECOVERED
  <2>1. v = [status |-> ONLINE, since |-> e.at, found |-> new]
    BY <1>4, <1>7 DEF Turned
  <2>2. /\ Chained(new, start, end, m)
        /\ \A i \in 1..Len(new) : new[i].up <= Later(c, e.at)
        /\ \A t \in start..(end - 1) :
              Out(new, t) <=> Out(u, t) \/ (st = OFFLINE /\ c <= t /\ t < e.at)
    BY <1>1, FoundChained
  <2> HIDE DEF v, new
  <2>3. v.status = ONLINE /\ v.since = e.at /\ v.found = new
    BY <2>1
  <2>4. StatusAfter(st, e) = ONLINE
    BY <1>4, <1>7 DEF StatusAfter
  <2> HIDE DEF u, c, st
  <2>5. Later(c, e.at) = e.at
    BY <1>1 DEF Later
  <2>6. ASSUME NEW t \in start..(end - 1)
        PROVE  OutSoFar(v, t) <=> IF e.at <= t THEN FALSE ELSE OutSoFar(acc, t)
    <3>1. t \in Nat
      OBVIOUS
    <3>2. OutSoFar(v, t) <=> Out(new, t)
      BY <1>4, <2>3 DEF OutSoFar
    <3> QED BY <1>1, <1>3, <1>5, <2>2, <3>1, <3>2
  <2> QED BY <1>1, <1>4, <1>7, <2>2, <2>3, <2>4, <2>5, <2>6 DEF v, u, st, Transitions
<1>8. CASE e.kind \notin Transitions
  <2>1. v = acc /\ StatusAfter(st, e) = st
    BY <1>8 DEF Turned, StatusAfter, Transitions
  <2> QED BY <1>5, <1>8, <2>1
<1> QED BY <1>6, <1>7, <1>8 DEF Transitions

\* The outages of a report are one after the other, and their instants in the period those
\* that the events say are offline.
LEMMA OutagesChained ==
    ASSUME NEW s, ByDate(s), NEW start \in Nat, NEW end \in Nat, start < end, NEW m
    PROVE  LET f == Outages(s, start, end, m)
           IN  /\ Chained(f, start, end, m)
               /\ \A t \in start..(end - 1) : Out(f, t) <=> StatusNow(s)[t] = OFFLINE
<1> DEFINE l == Len(s)
           I(n, t) == Before(s, Transitions, n, t + 1)
           All(n) == {i \in 1..n : s[i].kind \in Transitions}
<1>1. s \in Seq(Events) /\ l \in Nat /\ \A i, j \in 1..l : i < j => s[i].at <= s[j].at
  BY DEF ByDate
<1>2. \A i \in 1..l : s[i] \in Events /\ s[i].at \in Nat
  <2>1. \A i \in 1..l : s[i] \in Events
    BY <1>1
  <2> QED BY <2>1, EventNumbers
<1>3. PICK a : Turns(a, s, start, end, m)
  BY <1>1, TurnedSteps
<1> DEFINE Good(n) == /\ a[n] \in Turning(start, end, m) /\ Chained(a[n].found, start, end, m)
                      /\ \A i \in 1..Len(a[n].found) : a[n].found[i].up <= a[n].since
                      /\ \A i \in (n + 1)..l : a[n].since <= s[i].at
                      /\ \A t \in start..(end - 1) :
                            OutSoFar(a[n], t) <=> Says(s, I(n, t)) = OFFLINE
           G == {n \in 0..l : Good(n)}
<1>4. 0 \in G
  <2>1. /\ a[0] = [status |-> UNKNOWN, since |-> 0, found |-> << >>]
        /\ a[0] \in Turning(start, end, m)
    <3>1. 0 \in 0..l
      BY <1>1
    <3> HIDE DEF l
    <3> QED BY <1>3, <3>1 DEF Turns, l
  <2>2. a[0].status = UNKNOWN /\ a[0].since = 0 /\ a[0].found = << >>
    BY <2>1
  <2>3. Chained(<< >>, start, end, m) /\ \A t : ~ Out(<< >>, t)
    <3>1. << >> \in Seq(OutagesOf(start, end, m)) /\ Len(<< >>) = 0
      OBVIOUS
    <3> QED BY <3>1 DEF Chained, Out
  <2>4. \A t : I(0, t) = {}
    BY DEF Before
  <2> HIDE DEF I
  <2>5. \A t : ~ OutSoFar(a[0], t) /\ Says(s, I(0, t)) # OFFLINE
    BY <2>2, <2>3, <2>4 DEF OutSoFar, Says, UNKNOWN, OFFLINE
  <2>6. \A i \in 1..Len(a[0].found) : FALSE
    BY <2>2
  <2>7. \A i \in (0 + 1)..l : a[0].since <= s[i].at
    BY <1>2, <2>2
  <2>8. Good(0)
    BY <2>1, <2>2, <2>3, <2>5, <2>6, <2>7
  <2>9. 0 \in 0..l
    BY <1>1
  <2> HIDE DEF Good, l
  <2> QED BY <2>8, <2>9
<1>5. ASSUME NEW k \in 0..(l - 1), k \in G PROVE k + 1 \in G
  <2> DEFINE n == k + 1
             e == s[n]
             acc == a[k]
             v == a[n]
  <2>1. n \in 1..l /\ n \in 0..l /\ n - 1 = k /\ n \in (k + 1)..l /\ n \in Nat /\ n > 0
    BY <1>1
  <2>2. e \in Events /\ e.at \in Nat
    BY <1>2, <2>1
  <2>3. Good(k)
    BY <1>5
  <2>4. /\ acc \in Turning(start, end, m) /\ Chained(acc.found, start, end, m)
        /\ \A i \in 1..Len(acc.found) : acc.found[i].up <= acc.since
        /\ acc.since <= e.at
        /\ \A t \in start..(end - 1) : OutSoFar(acc, t) <=> Says(s, I(k, t)) = OFFLINE
    BY <2>1, <2>3
  <2>5. v = Turned(acc, e, start, end, m) /\ v \in Turning(start, end, m)
    BY <1>3, <2>1 DEF Turns
  <2> HIDE DEF acc, v, I
  <2>6. /\ Chained(v.found, start, end, m) /\ v.since <= e.at
        /\ \A i \in 1..Len(v.found) : v.found[i].up <= v.since
        /\ \A t \in start..(end - 1) :
              OutSoFar(v, t) <=> IF e.kind \in Transitions /\ e.at <= t THEN e.kind = DOWN
                                 ELSE OutSoFar(acc, t)
    BY <2>2, <2>4, <2>5, OneMoreTurn
  <2>7. ASSUME NEW t \in start..(end - 1)
        PROVE  Says(s, I(n, t)) = OFFLINE
                 <=> IF e.kind \in Transitions /\ e.at <= t THEN e.kind = DOWN
                     ELSE Says(s, I(k, t)) = OFFLINE
    <3>1. \A i : i \in 1..n <=> i \in 1..k \/ i = n
      BY <2>1
    <3>2. e.at < t + 1 <=> e.at <= t
      BY <2>2
    <3>3. I(n, t) = IF e.kind \in Transitions /\ e.at <= t THEN I(k, t) \union {n} ELSE I(k, t)
      BY <3>1, <3>2 DEF I, Before
    <3>4. I(k, t) \in SUBSET (1..(n - 1))
      BY <2>1 DEF I, Before
    <3> HIDE DEF n
    <3>5. Max(I(k, t) \union {n}) = n
      BY <2>1, <3>4, LastOfMore
    <3> QED BY <3>3, <3>5 DEF Says, ONLINE, OFFLINE
  <2>8. ASSUME NEW i \in (n + 1)..l PROVE v.since <= s[i].at
    <3>1. i \in 1..l /\ n < i
      BY <1>1, <2>1
    <3>2. e.at <= s[i].at /\ s[i].at \in Nat
      BY <1>1, <1>2, <2>1, <3>1
    <3>3. v.since \in Nat
      BY <2>5 DEF Turning
    <3> QED BY <2>2, <2>6, <3>2, <3>3
  <2>9. \A t \in start..(end - 1) : OutSoFar(v, t) <=> Says(s, I(n, t)) = OFFLINE
    <3> HIDE DEF n, e
    <3> QED BY <2>4, <2>6, <2>7
  <2>10. Good(n)
    BY <2>5, <2>6, <2>8, <2>9 DEF v
  <2> HIDE DEF Good
  <2> QED BY <2>1, <2>10
<1>6. Good(l)
  <2>1. 0..l \subseteq G
    <3> HIDE DEF G
    <3> QED BY <1>1, <1>4, <1>5, Ascending
  <2>2. l \in G
    <3> HIDE DEF G
    <3> QED BY <1>1, <2>1
  <2> HIDE DEF Good
  <2> QED BY <2>2
<1> DEFINE acc == a[l]
           f == Outages(s, start, end, m)
<1>7. f = Found(acc, end, FALSE, start, end, m)
  <2>1. acc = Unended(s, start, end, m)
    BY <1>3 DEF Turns
  <2> HIDE DEF acc
  <2> QED BY <2>1 DEF Outages, Unended
<1>8. /\ acc \in Turning(start, end, m) /\ Chained(acc.found, start, end, m)
      /\ \A i \in 1..Len(acc.found) : acc.found[i].up <= acc.since
      /\ \A t \in start..(end - 1) : OutSoFar(acc, t) <=> Says(s, I(l, t)) = OFFLINE
  BY <1>6
<1> HIDE DEF acc, f, I
<1>9. /\ Chained(f, start, end, m)
      /\ \A t \in start..(end - 1) :
            Out(f, t) <=> \/ Out(acc.found, t)
                          \/ acc.status = OFFLINE /\ acc.since <= t /\ t < end
  BY <1>7, <1>8, FoundChained
<1>10. ASSUME NEW t \in start..(end - 1) PROVE Out(f, t) <=> StatusNow(s)[t] = OFFLINE
  <2>1. t \in Nat /\ t < end
    OBVIOUS
  <2>2. StatusNow(s)[t] = Says(s, I(l, t))
    BY <2>1 DEF StatusNow, I
  <2> QED BY <1>8, <1>9, <2>1, <2>2 DEF OutSoFar
<1> QED BY <1>9, <1>10 DEF f

\* The instants that an outage has of the period.
Part(x, start, end) == Later(x.down, start)..(Earlier(x.up, end) - 1)

\* Its length and what of it is planned are numbers of these instants.
LEMMA PartIs ==
    ASSUME NEW start \in Nat, NEW end \in Nat, NEW m, Apart(m, start, end),
           NEW x \in OutagesOf(start, end, m), x.length # 0
    PROVE  LET P == Part(x, start, end)
           IN  /\ IsFiniteSet(P) /\ Cardinality(P) = x.length /\ x.length \in Nat
               /\ Cardinality(P \intersect Inside(m)) = x.planned /\ x.planned \in Nat
               /\ \A t : t \in P <=> t \in start..(end - 1) /\ x.down <= t /\ t < x.up
<1> DEFINE l == Later(x.down, start)
           r == Earlier(x.up, end)
<1>1. /\ x.down \in Nat /\ x.up \in Nat /\ x.length = intersect_interval(x.down, x.up, start, end)
      /\ x.planned = Overlap(l, r, m)
  BY OutageFields
<1>2. l \in Nat /\ r \in Nat
  BY <1>1 DEF Later, Earlier
<1>3. x.length = (IF l < r THEN r - l ELSE 0) /\ x.length \in Nat
  BY <1>1, <1>2 DEF intersect_interval
<1>4. \A t : t \in l..(r - 1) <=> t \in start..(end - 1) /\ x.down <= t /\ t < x.up
  BY <1>1, <1>2 DEF Later, Earlier
<1> HIDE DEF l, r
<1>5. IsFiniteSet(l..(r - 1)) /\ Cardinality(l..(r - 1)) = x.length
  BY <1>2, <1>3, Instant
<1>6. x.planned = Cardinality((l..(r - 1)) \intersect Inside(m)) /\ x.planned \in Nat
  <2>1. /\ Overlap(l, r, m) = Cardinality((l..(r - 1)) \intersect Inside(m))
        /\ Overlap(l, r, m) \in Nat
    BY <1>2, OverlapIs
  <2> QED BY <1>1, <2>1
<1> QED BY <1>3, <1>4, <1>5, <1>6 DEF l, r, Part

\* A part of a finite set is empty, or all of it, by its size.
LEMMA PartOfPart ==
    ASSUME NEW P, IsFiniteSet(P), NEW Z
    PROVE  /\ Cardinality(P \intersect Z) \in Nat /\ Cardinality(P) \in Nat
           /\ Cardinality(P \intersect Z) <= Cardinality(P)
           /\ Cardinality(P \intersect Z) = 0 <=> P \intersect Z = {}
           /\ Cardinality(P \intersect Z) = Cardinality(P) <=> P \subseteq Z
<1>1. /\ IsFiniteSet(P \intersect Z) /\ Cardinality(P \intersect Z) \in Nat /\ Cardinality(P) \in Nat
      /\ Cardinality(P \intersect Z) <= Cardinality(P)
  BY FS_Subset, FS_CardinalityType
<1>2. Cardinality(P \intersect Z) = 0 <=> P \intersect Z = {}
  BY <1>1, FS_EmptySet
<1>3. Cardinality(P \intersect Z) = Cardinality(P) <=> P \subseteq Z
  <2>1. P \subseteq Z => P \intersect Z = P
    OBVIOUS
  <2>2. Cardinality(P \intersect Z) = Cardinality(P) => P \intersect Z = P
    BY FS_Subset
  <2> QED BY <2>1, <2>2
<1> QED BY <1>1, <1>2, <1>3

\* Its class is by what of it is in maintenance.
LEMMA ClassIs ==
    ASSUME NEW length \in Nat \ {0}, NEW planned \in Nat, planned <= length
    PROVE  LET class == classify_outage(length, planned)
           IN  /\ class \in {"UNPLANNED", "MIXED"} <=> planned # length
               /\ class \in {"PLANNED", "MIXED"} <=> planned # 0
<1>1. CASE planned = 0
  BY <1>1 DEF classify_outage
<1>2. CASE planned # 0 /\ planned = length
  BY <1>2 DEF classify_outage
<1>3. CASE planned # 0 /\ planned # length
  BY <1>3 DEF classify_outage
<1> QED BY <1>1, <1>2, <1>3

\* What outages have of the period, together, is what is offline, and in maintenance.
Summed(f, offline, Z) ==
    LET Of(S) == {i \in DOMAIN f : f[i].class \in S}
    IN  /\ Total([i \in DOMAIN f |-> f[i].length]) = Cardinality(offline)
        /\ Total([i \in DOMAIN f |-> f[i].planned]) = Cardinality(offline \intersect Z)
        /\ Of({"UNPLANNED", "MIXED"}) = {} <=> offline \subseteq Z
        /\ Of({"PLANNED", "MIXED"}) = {} <=> offline \intersect Z = {}

LEMMA OutageSums ==
    ASSUME NEW start \in Nat, NEW end \in Nat, NEW m, Apart(m, start, end),
           NEW f, Chained(f, start, end, m), NEW offline,
           \A t : t \in offline <=> t \in start..(end - 1) /\ Out(f, t)
    PROVE  Summed(f, offline, Inside(m))
<1> DEFINE Z == Inside(m)
           L == [i \in DOMAIN f |-> f[i].length]
           R == [i \in DOMAIN f |-> f[i].planned]
           P == [i \in DOMAIN f |-> Part(f[i], start, end)]
           Q == [i \in DOMAIN f |-> Part(f[i], start, end) \intersect Z]
           Of(S) == {i \in DOMAIN f : f[i].class \in S}
<1>1. DOMAIN f = 1..Len(f) /\ Len(f) \in Nat
  BY DEF Chained
<1>2. ASSUME NEW i \in 1..Len(f)
      PROVE  /\ f[i] \in OutagesOf(start, end, m) /\ f[i].length # 0
             /\ f[i].down \in Nat /\ f[i].up \in Nat
             /\ f[i].class = classify_outage(f[i].length, f[i].planned)
  <2>1. f[i] \in OutagesOf(start, end, m) /\ f[i].length # 0
    BY DEF Chained
  <2> QED BY <2>1, OutageFields
<1>3. ASSUME NEW i \in 1..Len(f)
      PROVE  /\ IsFiniteSet(P[i]) /\ Cardinality(P[i]) = f[i].length /\ f[i].length \in Nat
             /\ Cardinality(Q[i]) = f[i].planned /\ f[i].planned \in Nat
             /\ \A t : t \in P[i] <=> t \in start..(end - 1) /\ f[i].down <= t /\ t < f[i].up
             /\ Q[i] = P[i] \intersect Z /\ IsFiniteSet(Q[i])
  <2>1. P[i] = Part(f[i], start, end) /\ Q[i] = P[i] \intersect Z
    BY <1>1
  <2> HIDE DEF P, Q
  <2>2. /\ IsFiniteSet(P[i]) /\ Cardinality(P[i]) = f[i].length /\ f[i].length \in Nat
        /\ Cardinality(P[i] \intersect Z) = f[i].planned /\ f[i].planned \in Nat
        /\ \A t : t \in P[i] <=> t \in start..(end - 1) /\ f[i].down <= t /\ t < f[i].up
    BY <1>2, <2>1, PartIs
  <2>3. IsFiniteSet(Q[i])
    BY <2>1, <2>2, FS_Subset
  <2> QED BY <2>1, <2>2, <2>3
<1>4. /\ L \in Seq(Nat) /\ Len(L) = Len(f) /\ \A i \in 1..Len(f) : L[i] = f[i].length
      /\ R \in Seq(Nat) /\ Len(R) = Len(f) /\ \A i \in 1..Len(f) : R[i] = f[i].planned
  <2>1. \A i \in 1..Len(f) : f[i].length \in Nat /\ f[i].planned \in Nat
    BY <1>3
  <2>2. L \in [1..Len(f) -> Nat] /\ R \in [1..Len(f) -> Nat]
    BY <1>1, <2>1
  <2>3. \A i \in 1..Len(f) : L[i] = f[i].length /\ R[i] = f[i].planned
    BY <1>1
  <2> HIDE DEF L, R
  <2>4. L \in Seq(Nat) /\ Len(L) = Len(f)
    BY <1>1, <2>2
  <2>5. R \in Seq(Nat) /\ Len(R) = Len(f)
    BY <1>1, <2>2
  <2> QED BY <2>3, <2>4, <2>5
<1> HIDE DEF P, Q, L, R, Z, Of
<1>5. ASSUME NEW i \in 1..Len(f), NEW j \in 1..Len(f), i < j
      PROVE  P[i] \intersect P[j] = {} /\ Q[i] \intersect Q[j] = {}
  <2>1. f[i].up <= f[j].down /\ f[i].up \in Nat /\ f[j].down \in Nat
    BY <1>2, <1>5 DEF Chained
  <2>2. \A t : ~ (t \in P[i] /\ t \in P[j])
    BY <1>3, <2>1
  <2> QED BY <1>3, <2>2
<1>6. \A t : t \in offline <=> \E i \in 1..Len(f) : t \in P[i]
  BY <1>3 DEF Out
<1>7. UNION {P[i] : i \in 1..Len(f)} = offline
  BY <1>6
<1>8. UNION {Q[i] : i \in 1..Len(f)} = offline \intersect Z
  BY <1>3, <1>6
<1>9. Total(L) = Cardinality(offline)
  <2>1. /\ \A i \in 1..Len(L) : IsFiniteSet(P[i]) /\ Cardinality(P[i]) = L[i]
        /\ \A i, j \in 1..Len(L) : i < j => P[i] \intersect P[j] = {}
    BY <1>3, <1>4, <1>5
  <2>2. L \in Seq(Nat)
    BY <1>4
  <2>3. Total(L) = Cardinality(UNION {P[i] : i \in 1..Len(L)})
    BY ONLY <2>1, <2>2, TotalOfParts
  <2> QED BY <1>4, <1>7, <2>3
<1>10. Total(R) = Cardinality(offline \intersect Z)
  <2>1. /\ \A i \in 1..Len(R) : IsFiniteSet(Q[i]) /\ Cardinality(Q[i]) = R[i]
        /\ \A i, j \in 1..Len(R) : i < j => Q[i] \intersect Q[j] = {}
    BY <1>3, <1>4, <1>5
  <2>2. R \in Seq(Nat)
    BY <1>4
  <2>3. Total(R) = Cardinality(UNION {Q[i] : i \in 1..Len(R)})
    BY ONLY <2>1, <2>2, TotalOfParts
  <2> QED BY <1>4, <1>8, <2>3
<1>11. ASSUME NEW i \in 1..Len(f)
       PROVE  /\ f[i].class \in {"UNPLANNED", "MIXED"} <=> ~ (P[i] \subseteq Z)
              /\ f[i].class \in {"PLANNED", "MIXED"} <=> P[i] \intersect Z # {}
  <2>1. /\ IsFiniteSet(P[i]) /\ Cardinality(P[i]) = f[i].length
        /\ Cardinality(P[i] \intersect Z) = f[i].planned
    BY <1>3
  <2>2. /\ f[i].planned \in Nat /\ f[i].planned <= f[i].length
        /\ f[i].planned = 0 <=> P[i] \intersect Z = {}
        /\ f[i].planned = f[i].length <=> P[i] \subseteq Z
    BY <2>1, PartOfPart
  <2>3. f[i].length \in Nat \ {0} /\ f[i].class = classify_outage(f[i].length, f[i].planned)
    BY <1>2, <1>3
  <2> QED BY <2>2, <2>3, ClassIs
<1>12. Of({"UNPLANNED", "MIXED"}) = {} <=> offline \subseteq Z
  BY <1>1, <1>6, <1>11 DEF Of
<1>13. Of({"PLANNED", "MIXED"}) = {} <=> offline \intersect Z = {}
  BY <1>1, <1>6, <1>11 DEF Of
<1> QED BY <1>9, <1>10, <1>12, <1>13 DEF L, R, Z, Of, Summed

\* The outages of a row.
LEMMA OutagesCount ==
    ASSUME NEW es, IsHistory(es), NEW start \in Nat, NEW end \in Nat, start < end
    PROVE  LET row == Row(es, start, end)
               s == Normalized(es)
               found == Outages(s, start, end, MaintenanceIntervals(s, start, end))
               Of(S) == {i \in DOMAIN found : found[i].class \in S}
           IN  /\ row.downtime = Total([i \in DOMAIN found |-> found[i].length])
               /\ row.planned = Total([i \in DOMAIN found |-> found[i].planned])
               /\ (Of({"UNPLANNED", "MIXED"}) = {} <=> row.unplanned = 0)
               /\ (Of({"PLANNED", "MIXED"}) = {} <=> row.planned = 0)
               /\ \A i, j \in DOMAIN found : i < j => found[i].up <= found[j].down
<1> DEFINE s == Normalized(es)
           m == MaintenanceIntervals(s, start, end)
           f == Outages(s, start, end, m)
           row == Row(es, start, end)
           I == start..(end - 1)
           offline == {t \in I : StatusAt(es, t) = OFFLINE}
           maintained == {t \in I : MaintainedAt(es, t)}
           Of(S) == {i \in DOMAIN f : f[i].class \in S}
<1>1. /\ row.downtime = Cardinality(offline)
      /\ row.planned = Cardinality(offline \intersect maintained)
      /\ row.unplanned = Cardinality(offline \ maintained)
  <2>1. Counted(es, start, end)
    BY RowCounts
  <2> QED BY <2>1 DEF Counted
<1>2. ByDate(s) /\ Orders(s, es)
  BY NormalizedByDate
<1> HIDE DEF s, row
<1>3. /\ Apart(m, start, end)
      /\ Inside(m) = {t \in I : Holds(s, Before(s, Bounds, Len(s), t + 1))}
  BY <1>2, MaintenanceIs
<1>4. Inside(m) = maintained
  <2>1. \A t \in I : MaintainedAt(es, t) <=> Holds(s, Before(s, Bounds, Len(s), t + 1))
    <3>1. \A t \in I : t \in Nat
      OBVIOUS
    <3> QED BY <1>2, <3>1, MaintainedHolds
  <2> QED BY <1>3, <2>1
<1>5. /\ Chained(f, start, end, m)
      /\ \A t \in I : Out(f, t) <=> StatusNow(s)[t] = OFFLINE
  BY <1>2, OutagesChained
<1>6. \A t \in I : StatusNow(s)[t] = StatusAt(es, t)
  <2>1. \A t \in I : t \in Nat
    OBVIOUS
  <2> QED BY <1>2, <2>1, StatusAtSays DEF StatusNow
<1>7. \A t : t \in offline <=> t \in I /\ Out(f, t)
  BY <1>5, <1>6
<1>8. IsFiniteSet(offline)
  <2>1. IsFiniteSet(I) /\ offline \subseteq I
    BY Instant
  <2> HIDE DEF I, offline
  <2> QED BY <2>1, FS_Subset
<1> HIDE DEF m, f, offline, maintained
<1>9. /\ Total([i \in DOMAIN f |-> f[i].length]) = Cardinality(offline)
      /\ Total([i \in DOMAIN f |-> f[i].planned]) = Cardinality(offline \intersect Inside(m))
      /\ Of({"UNPLANNED", "MIXED"}) = {} <=> offline \subseteq Inside(m)
      /\ Of({"PLANNED", "MIXED"}) = {} <=> offline \intersect Inside(m) = {}
  <2>1. Apart(m, start, end) /\ Chained(f, start, end, m)
    BY <1>3, <1>5
  <2>2. Summed(f, offline, Inside(m))
    BY <1>7, <2>1, OutageSums
  <2> QED BY <2>2 DEF Summed
<1>10. /\ Cardinality(offline \ maintained) = 0 <=> offline \subseteq maintained
       /\ Cardinality(offline \intersect maintained) = 0 <=> offline \intersect maintained = {}
  <2>1. IsFiniteSet(offline \ maintained) /\ IsFiniteSet(offline \intersect maintained)
    BY <1>8, FS_Subset
  <2>2. /\ Cardinality(offline \ maintained) = 0 <=> offline \ maintained = {}
        /\ Cardinality(offline \intersect maintained) = 0 <=> offline \intersect maintained = {}
    BY <2>1, FS_EmptySet
  <2> QED BY <2>2
<1>11. \A i, j \in DOMAIN f : i < j => f[i].up <= f[j].down
  BY <1>5 DEF Chained
<1> HIDE DEF Of
<1>12. /\ row.downtime = Total([i \in DOMAIN f |-> f[i].length])
       /\ row.planned = Total([i \in DOMAIN f |-> f[i].planned])
       /\ (Of({"UNPLANNED", "MIXED"}) = {} <=> row.unplanned = 0)
       /\ (Of({"PLANNED", "MIXED"}) = {} <=> row.planned = 0)
  BY <1>1, <1>4, <1>9, <1>10
<1> QED BY <1>11, <1>12 DEF Of, f, m, s, row

\* _outages_for_target() finds the downtime that calculate_availability() counts, planned
\* as much as it is and classified by it, one outage after the other.
THEOREM OutagesCoverDowntime == Spec => []OutagesAreDowntime
<1>1. HistoryInv => OutagesAreDowntime
  <2>1. SUFFICES ASSUME HistoryInv PROVE OutagesAreDowntime
    OBVIOUS
  <2>2. IsHistory(events) /\ clock \in Nat
    BY <2>1, RetainedHistory, AvailabilityAssumption DEF HistoryInv, TypeOK, Time
  <2>3. \A p \in Periods : p[1] \in Nat /\ p[2] \in Nat /\ p[1] < p[2]
    BY <2>2 DEF Periods
  <2> QED BY <2>2, <2>3, OutagesCount DEF OutagesAreDowntime
<1> QED BY <1>1, History, PTL
================================================================================
