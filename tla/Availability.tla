------------------------------ MODULE Availability ------------------------------
(***************************************************************************)
(* Event History of one service and the availability report computed from  *)
(* it (availability_report.py, event_history.py), fed by the transition    *)
(* tracker (monitoring_state.py) and planned maintenance (maintenance.py). *)
(*                                                                         *)
(* The history holds what happened at instants, the report what held       *)
(* between them.  A report is asked for in any state, over any period that *)
(* has passed: its algorithms are operators on the retained events.        *)
(***************************************************************************)
EXTENDS Naturals, Sequences, FiniteSets, FiniteSetsExt, SequencesExt, TLC

CONSTANTS
    MaxTime,     \* bound: the clock's last value
    MaxEvents,   \* bound: events ever recorded or refused
    MaxRefusals, \* bound: of these, events that SQLite refuses
    Retention    \* EventHistoryStore.retention: 10,000 in the program

ASSUME AvailabilityAssumption ==
    MaxTime \in Nat /\ MaxEvents \in Nat /\ MaxRefusals \in Nat /\ Retention \in Nat \ {0}

Time == 0 .. MaxTime
Ids == 1 .. MaxEvents

DOWN == "DOWN"
RECOVERED == "RECOVERED"
MAINTENANCE_STARTED == "MAINTENANCE_STARTED"
MAINTENANCE_ENDED == "MAINTENANCE_ENDED"
FOREIGN == "FOREIGN"                        \* an event of another service
Transitions == {DOWN, RECOVERED}
Kinds == Transitions \union {MAINTENANCE_STARTED, MAINTENANCE_ENDED, FOREIGN}
Events == [kind : Kinds, at : Time, id : Ids]

UNKNOWN == "UNKNOWN"
ONLINE == "ONLINE"
OFFLINE == "OFFLINE"
Statuses == {UNKNOWN, ONLINE, OFFLINE}

VARIABLES
    clock,    \* the time
    tracker,  \* TcpStateTracker: the service's last status
    window,   \* its maintenance window's until; 0 without one, MaxTime + 1 until ended
    events,   \* the retained history, by id
    all,      \* history: every event since the history was cleared
    nextId,   \* the id of the next event
    recorded, \* history: the tracker's last transition was recorded
    refused   \* history: events refused

vars == <<clock, tracker, window, events, all, nextId, recorded, refused>>

Init ==
    /\ clock = 0 /\ tracker = UNKNOWN /\ window = 0
    /\ events = << >> /\ all = << >> /\ nextId = 1
    /\ recorded = FALSE /\ refused = 0

--------------------------------------------------------------------------------
(***************************************************************************)
(* Event History.                                                          *)
(***************************************************************************)
Suffix(s, n) == SubSeq(s, IF Len(s) > n THEN Len(s) - n + 1 ELSE 1, Len(s))

\* Variant: the oldest by id stay.
RetainedOldest(es) == SubSeq(es, 1, IF Len(es) > Retention THEN Retention ELSE Len(es))

\* The newest by id stay.
Retained(es) == Suffix(es, Retention)

\* EventHistoryStore.insert(), whose refusal nobody looks at: memory has changed before.
Insert(kind, at, stored) ==
    LET e == [kind |-> kind, at |-> at, id |-> nextId]
    IN  /\ nextId + refused <= MaxEvents
        /\ \/ /\ stored /\ nextId' = nextId + 1 /\ UNCHANGED refused
              /\ events' = Retained(Append(events, e))
              /\ all' = Append(all, e)
           \/ /\ ~stored /\ refused < MaxRefusals /\ refused' = refused + 1
              /\ UNCHANGED <<events, all, nextId>>

Kept == UNCHANGED <<events, all, nextId, refused>>

\* TcpStateTracker.observe() and persist_state_change_events()
Observe(status) ==
    /\ tracker' = status
    /\ IF tracker \in {UNKNOWN, status} THEN Kept /\ UNCHANGED recorded
       ELSE \E stored \in BOOLEAN :
                /\ Insert(IF status = OFFLINE THEN DOWN ELSE RECOVERED, clock, stored)
                /\ recorded' = stored
    /\ UNCHANGED <<clock, window>>

\* The tracker forgets the service: a restart, an edit, a removed and added target.
Forget ==
    /\ tracker # UNKNOWN /\ tracker' = UNKNOWN /\ recorded' = FALSE
    /\ UNCHANGED <<clock, window>> /\ Kept

\* begin_maintenance_for_item(): until an instant to come, or until ended.
Begin(until) ==
    /\ window <= clock /\ until > clock
    /\ window' = until
    /\ \E stored \in BOOLEAN : Insert(MAINTENANCE_STARTED, clock, stored)
    /\ UNCHANGED <<clock, tracker, recorded>>

\* end_maintenance_for_item(), by the user
End ==
    /\ window # 0 /\ window' = 0
    /\ \E stored \in BOOLEAN : Insert(MAINTENANCE_ENDED, clock, stored)
    /\ UNCHANGED <<clock, tracker, recorded>>

\* and of an expired window, by the poll or at the next start: dated when it was due.
Expire ==
    /\ window \in 1 .. clock /\ window' = 0
    /\ \E stored \in BOOLEAN : Insert(MAINTENANCE_ENDED, window, stored)
    /\ UNCHANGED <<clock, tracker, recorded>>

Another ==
    /\ \E stored \in BOOLEAN : Insert(FOREIGN, clock, stored)
    /\ UNCHANGED <<clock, tracker, window, recorded>>

Tick ==
    /\ clock < MaxTime /\ clock' = clock + 1
    /\ UNCHANGED <<tracker, window, recorded>> /\ Kept

\* EventHistoryStore.clear()
Clear ==
    /\ events # << >> /\ events' = << >> /\ all' = << >>
    /\ UNCHANGED <<clock, tracker, window, nextId, recorded, refused>>

Next ==
    \/ \E status \in {ONLINE, OFFLINE} : Observe(status)
    \/ \E until \in 1 .. MaxTime + 1 : Begin(until)
    \/ Forget \/ End \/ Expire \/ Another \/ Tick \/ Clear

Spec == Init /\ [][Next]_vars

--------------------------------------------------------------------------------
(***************************************************************************)
(* The report.  Intervals are half-open pairs of instants.                 *)
(***************************************************************************)
Later(i, j) == IF i > j THEN i ELSE j
Earlier(i, j) == IF i < j THEN i ELSE j
Total(s) == FoldLeft(LAMBDA x, y : x + y, 0, s)
Lengths(s) == [i \in DOMAIN s |-> s[i][2] - s[i][1]]

intersect_interval(l, r, start, end) ==
    IF Earlier(r, end) > Later(l, start) THEN Earlier(r, end) - Later(l, start) ELSE 0

\* The elements of S, each before the next.
Sorted(S, Before(_, _)) ==
    CHOOSE s \in [1 .. Cardinality(S) -> S] : \A i, j \in DOMAIN s : i < j => Before(s[i], s[j])

\* _normalize_events(): those of this service, by time and then by id.
Normalized(es) ==
    Sorted({e \in Range(es) : e.kind # FOREIGN},
           LAMBDA e, f : e.at < f.at \/ (e.at = f.at /\ e.id < f.id))

\* Variant: a recovery only ends an outage.
StatusAfterDown(status, e) ==
    CASE e.kind = DOWN -> OFFLINE
      [] e.kind = RECOVERED /\ status = OFFLINE -> ONLINE
      [] OTHER -> status

\* The status after an event.
StatusAfter(status, e) ==
    CASE e.kind = DOWN -> OFFLINE [] e.kind = RECOVERED -> ONLINE [] OTHER -> status

StatusBefore(es, start) ==
    FoldLeft(LAMBDA status, e : IF e.at < start THEN StatusAfter(status, e) ELSE status,
             UNKNOWN, es)

\* reconstruct_state_segments(): <<from, to, status>>, without the unknown ones.
Lasting(acc, to) ==
    IF acc.status # UNKNOWN /\ to > acc.cursor
    THEN Append(acc.segments, <<acc.cursor, to, acc.status>>) ELSE acc.segments

Passed(acc, e) ==
    [status |-> StatusAfter(acc.status, e), cursor |-> Later(acc.cursor, e.at),
     segments |-> Lasting(acc, e.at)]

Segments(es, start, end) ==
    LET first == [status |-> StatusBefore(es, start), cursor |-> start, segments |-> << >>]
    IN  Lasting(FoldLeft(LAMBDA acc, e : IF e.at \in start .. end THEN Passed(acc, e) ELSE acc,
                         first, es), end)

\* merge_intervals(): overlapping and touching ones become one.
Absorbed(merged, w) ==
    IF merged = << >> \/ w[1] > merged[Len(merged)][2] THEN Append(merged, w)
    ELSE [merged EXCEPT ![Len(merged)] = <<@[1], Later(@[2], w[2])>>]

Merged(intervals) ==
    FoldLeft(LAMBDA merged, w : Absorbed(merged, w), << >>,
             Sorted({w \in intervals : w[1] < w[2]},
                    LAMBDA v, w : v[1] < w[1] \/ (v[1] = w[1] /\ v[2] < w[2])))

\* Variant: a window that began before the period counts from its start.
ClippedEnd(w, start, end) == <<w[1], Earlier(w[2], end)>>

Clipped(w, start, end) == <<Later(w[1], start), Earlier(w[2], end)>>

\* reconstruct_maintenance_intervals(): since is None outside of a window.
None == MaxTime + 1

Windows(acc, e) ==
    CASE e.kind = MAINTENANCE_STARTED /\ acc.since = None -> [acc EXCEPT !.since = e.at]
      [] e.kind = MAINTENANCE_ENDED /\ acc.since # None ->
            [since |-> None, found |-> acc.found \union {<<acc.since, e.at>>}]
      [] OTHER -> acc

MaintenanceIntervals(es, start, end) ==
    LET last == FoldLeft(LAMBDA acc, e : Windows(acc, e), [since |-> None, found |-> {}], es)
        found == last.found \union (IF last.since = None THEN {} ELSE {<<last.since, end>>})
    IN  Merged({Clipped(w, start, end) :
                   w \in {w \in found : w[1] < w[2] /\ w[2] > start /\ w[1] < end}})

\* _indexed_interval_overlap()
Overlap(l, r, merged) ==
    Total([i \in DOMAIN merged |->
              IF merged[i][2] > l /\ merged[i][1] < r
              THEN intersect_interval(l, r, merged[i][1], merged[i][2]) ELSE 0])

\* Variant: a repeated DOWN begins the outage again.
DownAtAgain(acc, e) == e.at

\* An outage begins with the first DOWN.
DownAt(acc, e) == IF acc.status = OFFLINE THEN acc.since ELSE e.at

classify_outage(length, planned) ==
    CASE planned = 0 -> "UNPLANNED" [] planned >= length -> "PLANNED" [] OTHER -> "MIXED"

\* _outages_for_target(): every outage that meets the period, on past its end.
Outage(down, up, over, start, end, merged) ==
    LET length == intersect_interval(down, up, start, end)
        planned == Overlap(Later(down, start), Earlier(up, end), merged)
    IN  [down |-> down, up |-> up, over |-> over, length |-> length, planned |-> planned,
         class |-> classify_outage(length, planned)]

Found(acc, to, over, start, end, merged) ==
    IF acc.status # OFFLINE \/ intersect_interval(acc.since, to, start, end) = 0 THEN acc.found
    ELSE Append(acc.found, Outage(acc.since, to, over, start, end, merged))

Turned(acc, e, start, end, merged) ==
    CASE e.kind = DOWN -> [acc EXCEPT !.status = OFFLINE, !.since = DownAt(acc, e)]
      [] e.kind = RECOVERED -> [status |-> ONLINE, since |-> e.at,
                                found |-> Found(acc, e.at, TRUE, start, end, merged)]
      [] OTHER -> acc

Outages(es, start, end, merged) ==
    LET first == [status |-> UNKNOWN, since |-> 0, found |-> << >>]
    IN  Found(FoldLeft(LAMBDA acc, e : Turned(acc, e, start, end, merged), first, es),
              end, FALSE, start, end, merged)

\* calculate_availability(): one row.
Row(history, start, end) ==
    LET es == Normalized(history)
        segments == Segments(es, start, end)
        merged == MaintenanceIntervals(es, start, end)
        inside == [i \in DOMAIN segments |-> Overlap(segments[i][1], segments[i][2], merged)]
        Offline(f) == [i \in DOMAIN f |-> IF segments[i][3] = OFFLINE THEN f[i] ELSE 0]
        known == Total(Lengths(segments))
        downtime == Total(Offline(Lengths(segments)))
        planned == Total(Offline(inside))
    IN  [known |-> known, downtime |-> downtime,
         maintenance |-> Total(Lengths(merged)),
         planned |-> planned, unplanned |-> downtime - planned,
         eligible |-> known - Total(inside)]

--------------------------------------------------------------------------------
(***************************************************************************)
(* Properties.                                                             *)
(***************************************************************************)
\* Types, and the bound on the retained history.
TypeOK ==
    /\ clock \in Time /\ tracker \in Statuses /\ window \in 0 .. MaxTime + 1
    /\ events \in Seq(Events) /\ all \in Seq(Events) /\ nextId \in 1 .. MaxEvents + 1
    /\ recorded \in BOOLEAN /\ refused \in 0 .. MaxRefusals
    /\ Len(events) <= Retention

(***************************************************************************)
(* The reference, instant by instant: what the last event so far says.     *)
(***************************************************************************)
SoFar(history, kinds, t) == {i \in DOMAIN history : history[i].kind \in kinds /\ history[i].at <= t}
Latest(history, S) ==
    CHOOSE i \in S : \A j \in S : history[j].at < history[i].at
                                 \/ (history[j].at = history[i].at /\ j <= i)
StatusAt(history, t) ==
    LET S == SoFar(history, Transitions, t)
    IN  IF S = {} THEN UNKNOWN
        ELSE IF history[Latest(history, S)].kind = DOWN THEN OFFLINE ELSE ONLINE
MaintainedAt(history, t) ==
    LET S == SoFar(history, {MAINTENANCE_STARTED, MAINTENANCE_ENDED}, t)
    IN  S # {} /\ history[Latest(history, S)].kind = MAINTENANCE_STARTED

Periods == {p \in (0 .. clock) \X (0 .. clock) : p[1] < p[2]}
Instants(p) == p[1] .. p[2] - 1

\* Each duration of a report counts exactly the instants it should: known, down,
\* in maintenance, both, and known outside of it (README, Availability Report), at
\* whatever event the period begins and ends; so the reports of two periods that
\* touch add up to the report of both.
RowIsReality ==
    \A p \in Periods :
        LET row == Row(events, p[1], p[2])
            known == {t \in Instants(p) : StatusAt(events, t) # UNKNOWN}
            offline == {t \in Instants(p) : StatusAt(events, t) = OFFLINE}
            maintained == {t \in Instants(p) : MaintainedAt(events, t)}
        IN  /\ row.known = Cardinality(known)
            /\ row.downtime = Cardinality(offline)
            /\ row.maintenance = Cardinality(maintained)
            /\ row.planned = Cardinality(offline \intersect maintained)
            /\ row.unplanned = Cardinality(offline \ maintained)
            /\ row.eligible = Cardinality(known \ maintained)

\* The outages of a report are its downtime: together they last as long, as much
\* of them is planned, and each is classified by what of it is.
OutagesAreDowntime ==
    \A p \in Periods :
        LET row == Row(events, p[1], p[2])
            es == Normalized(events)
            found == Outages(es, p[1], p[2], MaintenanceIntervals(es, p[1], p[2]))
            Of(S) == {i \in DOMAIN found : found[i].class \in S}
        IN  /\ row.downtime = Total([i \in DOMAIN found |-> found[i].length])
            /\ row.planned = Total([i \in DOMAIN found |-> found[i].planned])
            /\ (Of({"UNPLANNED", "MIXED"}) = {} <=> row.unplanned = 0)
            /\ (Of({"PLANNED", "MIXED"}) = {} <=> row.planned = 0)
            /\ \A i, j \in DOMAIN found : i < j => found[i].up <= found[j].down

\* Losing the oldest events only loses knowledge: "older missing periods appear as
\* unknown coverage rather than uptime" (README, Event History), and no maintenance
\* is made up, though an expired window's end is recorded late.
PruneOnlyForgets ==
    \A t \in 0 .. clock :
        /\ StatusAt(events, t) \in {UNKNOWN, StatusAt(all, t)}
        /\ MaintainedAt(events, t) => MaintainedAt(all, t)

\* What the report holds of now is what the checks last said, where the last transition
\* since the tracker began to track the service was recorded, and while it is retained:
\* after one that was refused the next that is recorded puts the report right.
KnownIsTracked ==
    recorded /\ SoFar(events, Transitions, clock) # {}
        => StatusBefore(Normalized(events), clock + 1) = tracker
================================================================================
