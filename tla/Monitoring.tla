------------------------------- MODULE Monitoring -------------------------------
(***************************************************************************)
(* The target table, the check cycle, Auto Refresh, scan discoveries, alert *)
(* dialogs and the hidden window of multi_port_checker.py, with the         *)
(* transition tracker of monitoring_state.py.                               *)
(*                                                                          *)
(* Every step is one callback on the Tk thread.  A modal dialog runs a      *)
(* nested event loop, so the callback that opened it is split where it      *)
(* waits: timers, idle callbacks and tray actions run while it is open, the *)
(* window's own buttons do not.                                             *)
(***************************************************************************)
EXTENDS Naturals, Sequences, FiniteSets

CONSTANTS
    Keys,      \* services: normalised Host/IP + Port
    MaxRows,   \* bound: rows ever inserted; Tk never uses a row id again
    Files,     \* host lists the user may load, as sequences of keys
    Backups,   \* target lists of settings backups, without duplicates
    MayHide    \* whether the window is hidden to the tray in this instance

ASSUME MonitoringAssumption ==
    /\ Keys # {} /\ MaxRows \in Nat
    /\ Files \subseteq Seq(Keys)
    /\ Backups \subseteq SUBSET Keys /\ (\A backup \in Backups : IsFiniteSet(backup))
    /\ MayHide \in BOOLEAN

Rows == 1 .. MaxRows
NoRow == 0

(***************************************************************************)
(* A row is configured (in target_order and target_metadata), scanned (in   *)
(* transient_scan_items), stray (in the tree and in neither), or not there. *)
(***************************************************************************)
Kinds == {"none", "configured", "scanned", "stray"}

TCP_UNKNOWN == "UNKNOWN"
TCP_ONLINE == "ONLINE"
TCP_OFFLINE == "OFFLINE"
Statuses == {TCP_UNKNOWN, TCP_ONLINE, TCP_OFFLINE}

Boxes == {"cycle", "deferred"}

VARIABLES
    kind,      \* what each row is
    key,       \* the service each row names
    next,      \* the next row id
    tracker,   \* tcp_state_tracker: the last status of each row
    measured,  \* history: the service that status was observed of
    checking,  \* check_in_progress
    flight,    \* active_checks: rows with the service captured for each
    polls,     \* poll_check_cycle callbacks scheduled
    auto,      \* auto_running
    timers,    \* auto_loop callbacks scheduled
    afterId,   \* auto_after_id is not None
    scanning,  \* scan_running
    editing,   \* editing_item_id
    alertsOn,  \* state_change_alerts_var
    hidden,    \* main_window_hidden
    pending,   \* pending_hidden_alerts is not empty
    idle,      \* an idle callback is to show alerts that were pending
    boxes,     \* the modal dialogs that are open, innermost last
    down       \* shutdown_guard.started

table == <<kind, key, next>>
status == <<tracker, measured>>
cycle == <<checking, flight, polls>>
refresh == <<auto, timers, afterId>>
window == <<alertsOn, hidden, pending, idle, boxes>>
vars == <<kind, key, next, tracker, measured, checking, flight, polls, auto, timers, afterId,
          scanning, editing, alertsOn, hidden, pending, idle, boxes, down>>

Init ==
    /\ kind = [i \in Rows |-> "none"] /\ next = 1
    /\ key = [i \in Rows |-> CHOOSE k \in Keys : TRUE]
    /\ tracker = [i \in Rows |-> TCP_UNKNOWN] /\ measured = key
    /\ checking = FALSE /\ flight = {} /\ polls = 0
    /\ auto = FALSE /\ timers = 0 /\ afterId = FALSE
    /\ scanning = FALSE /\ editing = NoRow
    /\ alertsOn = TRUE /\ hidden \in {FALSE, MayHide} /\ pending = FALSE /\ idle = FALSE
    /\ boxes = << >> /\ down = FALSE

--------------------------------------------------------------------------------
(***************************************************************************)
(* The table.                                                               *)
(***************************************************************************)
Configured == {i \in Rows : kind[i] = "configured"}   \* all_persistent_items
Scanned == {i \in Rows : kind[i] = "scanned"}
Known == Configured \union Scanned                    \* all_known_items
InTree == {i \in Rows : kind[i] # "none"}

\* find_existing_target: configured rows come first.
Holding(S, k) == {i \in S : key[i] = k}
Existing(k, but) ==
    IF Holding(Configured \ {but}, k) # {} THEN Holding(Configured \ {but}, k)
    ELSE Holding(Scanned \ {but}, k)

\* Insert a row of kind c for each key of ks into a table where the rows have kinds was.
InsertRows(was, ks, c) ==
    /\ next + Len(ks) <= MaxRows + 1
    /\ next' = next + Len(ks)
    /\ kind' = [i \in Rows |-> IF i \in next .. next + Len(ks) - 1 THEN c ELSE was[i]]
    /\ key' = [i \in Rows |-> IF i \in next .. next + Len(ks) - 1 THEN ks[i - next + 1]
                              ELSE key[i]]

\* TcpStateTracker.forget for the rows of S.
Forget(S) == /\ tracker' = [i \in Rows |-> IF i \in S THEN TCP_UNKNOWN ELSE tracker[i]]
             /\ UNCHANGED measured

\* The window takes clicks: it is shown, and no modal dialog is open over it.
Free == ~down /\ ~hidden /\ boxes = << >>

\* Buttons that set_scan_controls disables during a scan.
Button == Free /\ ~scanning

\* add_target() without an edit under way.
Add(k) ==
    /\ Button /\ editing = NoRow
    /\ \/ /\ Existing(k, NoRow) = {}
          /\ InsertRows(kind, <<k>>, "configured")
       \/ /\ \E i \in Existing(k, NoRow) :
                kind[i] = "scanned" /\ kind' = [kind EXCEPT ![i] = "configured"]
          /\ UNCHANGED <<key, next>>
    /\ UNCHANGED <<status, cycle, refresh, scanning, editing, window, down>>

EditSelected(i) ==
    /\ Button /\ i \in InTree \ Scanned
    /\ editing' = i
    /\ UNCHANGED <<table, status, cycle, refresh, scanning, window, down>>

\* Variant: another row's service may be taken.
ApplyEditUnchecked(k) ==
    /\ Button /\ editing # NoRow
    /\ key' = [key EXCEPT ![editing] = k]
    /\ Forget(IF key[editing] = k THEN {} ELSE {editing})
    /\ editing' = NoRow
    /\ UNCHANGED <<kind, next, cycle, refresh, scanning, window, down>>

\* add_target() with one.
ApplyEdit(k) ==
    /\ Button /\ editing # NoRow
    /\ Existing(k, editing) = {}
    /\ key' = [key EXCEPT ![editing] = k]
    /\ Forget(IF key[editing] = k THEN {} ELSE {editing})
    /\ editing' = NoRow
    /\ UNCHANGED <<kind, next, cycle, refresh, scanning, window, down>>

\* remove_selected() of one row; of several it is a run of these.
Remove(i) ==
    /\ Button /\ i \in InTree
    /\ kind' = [kind EXCEPT ![i] = "none"]
    /\ Forget({i})
    /\ editing' = IF editing = i THEN NoRow ELSE editing
    /\ UNCHANGED <<key, next, cycle, refresh, scanning, window, down>>

\* load_host_list(): the scan rows are forgotten before the known rows are deleted.
LoadList(file) ==
    LET strays == [i \in Rows |-> CASE kind[i] = "configured" -> "none"
                                    [] kind[i] = "scanned" -> "stray"
                                    [] OTHER -> kind[i]]
    IN  /\ Button
        /\ InsertRows(strays, file, "configured")
        /\ Forget(Rows)
        /\ editing' = NoRow
        /\ UNCHANGED <<cycle, refresh, scanning, window, down>>

(***************************************************************************)
(* restore_settings_backup(): refused during a check or a scan and when     *)
(* targets are not unique; rows whose service stays keep their identity.    *)
(***************************************************************************)
KeysOf(S) == {key[i] : i \in S}
Unique(S) == \A i, j \in S : i # j => key[i] # key[j]

RestoreTargets(backup, merge) ==
    LET removed == IF merge THEN {} ELSE {i \in Configured : key[i] \notin backup}
        fresh == backup \ KeysOf(Configured)
    IN  /\ ~down /\ ~checking /\ ~scanning
        /\ Unique(Configured)
        /\ \E ks \in [1 .. Cardinality(fresh) -> fresh] :
              /\ {ks[n] : n \in DOMAIN ks} = fresh
              /\ InsertRows([i \in Rows |-> IF i \in removed THEN "none" ELSE kind[i]],
                            ks, "configured")
        /\ Forget(removed)
        /\ editing' = NoRow
        /\ UNCHANGED <<cycle, refresh, scanning, window, down>>

--------------------------------------------------------------------------------
(***************************************************************************)
(* The check cycle.                                                         *)
(***************************************************************************)
\* start_check_cycle(S): the services are captured and one poll is scheduled.
Begin(S) ==
    /\ checking' = TRUE
    /\ flight' = {[row |-> i, key |-> key[i]] : i \in S}
    /\ polls' = polls + 1

\* Variant: one of the two guards is missing.
MayBeginAgain(S) == ~scanning /\ S # {}

MayBegin(S) == ~checking /\ ~scanning /\ S # {}

CheckSelected(S) ==
    /\ Button /\ S \subseteq InTree /\ MayBegin(S)
    /\ Begin(S)
    /\ UNCHANGED <<table, status, refresh, scanning, editing, window, down>>

\* check_all(), by button or from the tray: a tray action waits for nothing.
CheckAll ==
    /\ ~down /\ MayBegin(Configured)
    /\ Begin(Configured)
    /\ UNCHANGED <<table, status, refresh, scanning, editing, window, down>>

\* schedule_next_auto()
Schedule(n) == timers' = n + 1 /\ afterId' = TRUE

\* Variants: the timer is not looked at, or not started.
FinishSchedules ==
    /\ checking' = FALSE /\ flight' = {}
    /\ IF auto THEN Schedule(timers) ELSE UNCHANGED <<timers, afterId>>
    /\ UNCHANGED auto

FinishOnly ==
    /\ checking' = FALSE /\ flight' = {}
    /\ UNCHANGED refresh

\* finish_check_cycle()
Finish ==
    /\ checking' = FALSE /\ flight' = {}
    /\ IF auto /\ ~afterId THEN Schedule(timers) ELSE UNCHANGED <<timers, afterId>>
    /\ UNCHANGED auto

\* Variant: only a row that is gone is noticed.
AppliesToRow(c) == kind[c.row] # "none"

\* update_row_status() drops a result whose row is gone or names another service.
Applies(c) == kind[c.row] # "none" /\ key[c.row] = c.key

\* Variant: scan results are tracked too.
ObservedAll == {c \in flight : Applies(c)}

\* TcpStateTracker.observe() of the rows that are not scan results.
Observed == {c \in flight : Applies(c) /\ kind[c.row] # "scanned"}

\* Variant: alerts are not deferred.
InterruptsAlways(alerts) == alerts

\* show_state_change_alerts(): alerts open a box now, unless the window is hidden.
Interrupts(alerts) == alerts /\ ~hidden

(***************************************************************************)
(* poll_check_cycle() once every check has an answer: online is what was    *)
(* found up, suppressed whether maintenance silences all that changed.      *)
(* Alerts are dropped, deferred, or shown, and when they are shown the      *)
(* cycle goes on only after they have been read.                            *)
(***************************************************************************)
Poll(online, suppressed) ==
    LET seen == {c.row : c \in Observed}
        now == [i \in Rows |-> IF i \notin seen THEN tracker[i]
                               ELSE IF i \in online THEN TCP_ONLINE ELSE TCP_OFFLINE]
        changed == {i \in seen : tracker[i] # TCP_UNKNOWN /\ now[i] # tracker[i]}
        alerts == changed # {} /\ ~suppressed /\ alertsOn
    IN  /\ ~down /\ polls > 0
        /\ online \subseteq seen
        /\ tracker' = now
        /\ measured' = [i \in Rows |-> IF i \in seen THEN (CHOOSE c \in Observed : c.row = i).key
                                      ELSE measured[i]]
        /\ polls' = polls - 1
        /\ \/ /\ Interrupts(alerts)
              /\ boxes' = Append(boxes, "cycle")
              /\ UNCHANGED <<checking, flight, refresh, pending>>
           \/ /\ ~Interrupts(alerts)
              /\ Finish
              /\ pending' = (pending \/ alerts)
              /\ UNCHANGED boxes
        /\ UNCHANGED <<table, scanning, editing, alertsOn, hidden, idle, down>>

Innermost == boxes[Len(boxes)]
CloseInnermost == boxes' = SubSeq(boxes, 1, Len(boxes) - 1)

\* The user reads the alerts of a cycle, and poll_check_cycle() goes on.
CloseCycleBox ==
    /\ ~down /\ boxes # << >> /\ Innermost = "cycle"
    /\ CloseInnermost
    /\ Finish
    /\ UNCHANGED <<table, status, polls, scanning, editing, alertsOn, hidden, pending, idle, down>>

--------------------------------------------------------------------------------
(***************************************************************************)
(* Auto Refresh.                                                            *)
(***************************************************************************)
\* auto_loop() with n callbacks still scheduled.
Loop(n) ==
    \/ /\ checking \/ ~MayBegin(Configured)
       /\ Schedule(n) /\ UNCHANGED cycle
    \/ /\ MayBegin(Configured)
       /\ Begin(Configured)
       /\ timers' = n /\ afterId' = FALSE

\* after_cancel(auto_after_id), if there is one.
Cancelled == IF afterId THEN timers - 1 ELSE timers

\* start_auto() and stop_auto(), by button or from the tray.
StartAuto ==
    /\ ~down /\ ~scanning
    /\ auto' = TRUE
    /\ Loop(Cancelled)
    /\ UNCHANGED <<table, status, scanning, editing, window, down>>

StopAuto ==
    /\ ~down
    /\ auto' = FALSE /\ timers' = Cancelled /\ afterId' = FALSE
    /\ UNCHANGED <<table, status, cycle, scanning, editing, window, down>>

TimerFires ==
    /\ ~down /\ timers > 0
    /\ IF auto THEN Loop(timers - 1)
       ELSE timers' = timers - 1 /\ afterId' = FALSE /\ UNCHANGED cycle
    /\ UNCHANGED <<table, status, auto, scanning, editing, window, down>>

--------------------------------------------------------------------------------
(***************************************************************************)
(* The range scan, as far as the table sees it.                             *)
(***************************************************************************)
StartScan ==
    /\ Button /\ ~checking /\ ~auto
    /\ scanning' = TRUE
    /\ UNCHANGED <<table, status, cycle, refresh, editing, window, down>>

\* apply_scan_result() of a service no known row names; any other is only shown.
ScanFinds(k) ==
    /\ ~down /\ scanning /\ Existing(k, NoRow) = {}
    /\ InsertRows(kind, <<k>>, "scanned")
    /\ UNCHANGED <<status, cycle, refresh, scanning, editing, window, down>>

EndScan ==
    /\ ~down /\ scanning
    /\ scanning' = FALSE
    /\ UNCHANGED <<table, status, cycle, refresh, editing, window, down>>

--------------------------------------------------------------------------------
(***************************************************************************)
(* The window and the tray.                                                 *)
(***************************************************************************)
Hide ==
    /\ Free /\ MayHide
    /\ hidden' = TRUE
    /\ UNCHANGED <<table, status, cycle, refresh, scanning, editing, alertsOn, pending, idle, boxes, down>>

\* Variant: pending alerts wait for the next restore.
RestoreOnly ==
    /\ ~down
    /\ hidden' = FALSE
    /\ UNCHANGED <<table, status, cycle, refresh, scanning, editing, alertsOn, pending, idle, boxes, down>>

\* restore_main_window(): the tray's Open, and its other actions that need a window.
Restore ==
    /\ ~down
    /\ hidden' = FALSE
    /\ idle' = (idle \/ pending) /\ pending' = FALSE
    /\ UNCHANGED <<table, status, cycle, refresh, scanning, editing, alertsOn, boxes, down>>

\* The idle callback: show_state_change_alerts(..., allow_defer=False).
ShowDeferred ==
    /\ ~down /\ idle
    /\ idle' = FALSE
    /\ boxes' = IF alertsOn THEN Append(boxes, "deferred") ELSE boxes
    /\ UNCHANGED <<table, status, cycle, refresh, scanning, editing, alertsOn, hidden, pending, down>>

CloseDeferredBox ==
    /\ ~down /\ boxes # << >> /\ Innermost = "deferred"
    /\ CloseInnermost
    /\ UNCHANGED <<table, status, cycle, refresh, scanning, editing, alertsOn, hidden, pending, idle, down>>

ToggleAlerts ==
    /\ Free
    /\ alertsOn' = ~alertsOn
    /\ UNCHANGED <<table, status, cycle, refresh, scanning, editing, hidden, pending, idle, boxes, down>>

\* shutdown_application(): Auto Refresh is stopped and the event loop ends.
Exit ==
    /\ ~down
    /\ down' = TRUE /\ hidden' = FALSE
    /\ auto' = FALSE /\ timers' = Cancelled
    /\ UNCHANGED <<table, status, cycle, afterId, scanning, editing, alertsOn, pending, idle, boxes>>

Stopped == down /\ UNCHANGED vars

User ==
    \/ \E k \in Keys : Add(k) \/ ApplyEdit(k)
    \/ \E i \in Rows : EditSelected(i) \/ Remove(i)
    \/ \E file \in Files : LoadList(file)
    \/ \E backup \in Backups, merge \in BOOLEAN : RestoreTargets(backup, merge)
    \/ \E S \in SUBSET Rows : CheckSelected(S)
    \/ CheckAll \/ StartAuto \/ StopAuto \/ StartScan \/ EndScan
    \/ CloseCycleBox \/ CloseDeferredBox
    \/ Hide \/ Restore \/ ToggleAlerts \/ Exit

PollStep == \E online \in SUBSET Rows, suppressed \in BOOLEAN : Poll(online, suppressed)

Next == User \/ PollStep \/ TimerFires \/ ShowDeferred \/ (\E k \in Keys : ScanFinds(k)) \/ Stopped

Spec == Init /\ [][Next]_vars

\* Checks time out, so every cycle can be polled; Tk runs timers and idle callbacks.
FairSpec == Spec /\ WF_vars(PollStep) /\ WF_vars(TimerFires) /\ WF_vars(ShowDeferred)

--------------------------------------------------------------------------------
(***************************************************************************)
(* Properties.                                                              *)
(***************************************************************************)
Checks == [row : Rows, key : Keys]

\* Every variable keeps its type; callbacks are never cancelled that do not exist.
TypeOK ==
    /\ kind \in [Rows -> Kinds] /\ key \in [Rows -> Keys] /\ next \in 1 .. MaxRows + 1
    /\ tracker \in [Rows -> Statuses] /\ measured \in [Rows -> Keys]
    /\ checking \in BOOLEAN /\ flight \subseteq Checks /\ polls \in Nat
    /\ auto \in BOOLEAN /\ timers \in Nat /\ afterId \in BOOLEAN
    /\ scanning \in BOOLEAN /\ editing \in Rows \union {NoRow}
    /\ alertsOn \in BOOLEAN /\ hidden \in BOOLEAN /\ pending \in BOOLEAN /\ idle \in BOOLEAN
    /\ boxes \in Seq(Boxes) /\ down \in BOOLEAN

\* A tracked status was observed of the service its row names now, whatever was
\* edited, removed, loaded or restored while checks were in flight: no event ever
\* compares two services.
TrackedForCurrentKey ==
    \A i \in InTree : tracker[i] # TCP_UNKNOWN => measured[i] = key[i]

\* A promoted scan result alerts "only after its normal baseline" (README,
\* Notification Framework): no scan result has a status to compare with.
PromotionStartsUnknown == \A i \in Scanned : tracker[i] = TCP_UNKNOWN

\* Two configured targets never name one service: availability, maintenance and
\* restore identify a target by it.
UniqueTargets == Unique(Configured)

\* A range scan and a check never share the executor, and Auto Refresh is off
\* while a scan runs, whatever is started from the window and from the tray.
ScanExcludesCheck == ~(scanning /\ (checking \/ auto))

\* "Only one check cycle [...] can run" (README, System Tray): there is one poll
\* callback, or one poll waiting for its alert box, exactly while a check is in
\* progress.
CycleBoxes == Cardinality({n \in DOMAIN boxes : boxes[n] = "cycle"})
OneCycle == polls + CycleBoxes = IF checking THEN 1 ELSE 0

\* "[...] and one Auto Refresh timer": the one auto_after_id names.
OneTimer == timers = IF afterId /\ ~down THEN 1 ELSE 0

\* Auto Refresh that is on has a timer, or a cycle whose end will set one.
AutoKeepsGoing == auto => timers = 1 \/ checking

\* Alerts wait only while the window is hidden: restoring it takes them all.
NoAlertLeftBehind == pending => hidden \/ down

\* While hidden, Auto Refresh goes on (README, System Tray): one cycle after
\* another is started and ends, with no dialog in the way.
BackgroundMonitoring ==
    hidden /\ auto ~> polls > 0 \/ ~hidden \/ ~auto \/ Configured = {}

--------------------------------------------------------------------------------
(***************************************************************************)
(* Promises of the README that the code does not keep: add one to the      *)
(* configuration of this module and TLC shows how (README, Observations).  *)
(***************************************************************************)
\* "Duplicate Host/IP + Port rows are updated instead of added again" (README):
\* no service has two of the rows an import or a check knows of.
UniqueRows == Unique(Known)

\* Scan discoveries "do not participate in alerts unless they are promoted"
\* (README, State Change Alerts): only a configured target has transitions.
Reports(i) == tracker[i] # TCP_UNKNOWN /\ tracker'[i] \notin {TCP_UNKNOWN, tracker[i]}
OnlyTargetsReport == [][\A i \in Rows : Reports(i) => i \in Configured]_vars

\* "Dialogs are deferred while hidden and displayed after the main window is
\* restored" (README, System Tray): no dialog opens while the window is hidden.
DialogsWaitForWindow == [][Len(boxes') > Len(boxes) => ~hidden]_vars
================================================================================
