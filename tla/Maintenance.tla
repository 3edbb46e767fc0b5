------------------------------- MODULE Maintenance -------------------------------
(***************************************************************************)
(* Planned maintenance: the windows in target_metadata, the configuration  *)
(* file that brings them back after a restart, and the audit events that   *)
(* Event History keeps of them (maintenance.py, event_history.py and       *)
(* multi_port_checker.py).                                                 *)
(*                                                                         *)
(* A window is opened and closed in three steps: the memory, the event,    *)
(* the file.  They are steps of one callback on the Tk thread, so no other *)
(* callback runs between them, but the process may be killed there and     *)
(* either store may refuse.  Targets are named by their service:           *)
(* Monitoring shows that no two of them share one.                         *)
(***************************************************************************)
EXTENDS Naturals, Sequences, FiniteSets

CONSTANTS
    Keys,        \* services: normalised Host/IP + Port
    MaxTime,     \* bound: the clock's last value
    MaxWindows,  \* bound: windows ever opened
    MaxFlaws,    \* bound: refused writes, and kills in the middle of a callback
    MaxKills,    \* bound: kills between two callbacks
    Files,       \* host lists the user may load, as tables
    Backups      \* sets of services in settings backups

Time == 0 .. MaxTime
Manual == MaxTime + 1       \* the until of a window that has none
NoWindow == << >>

(***************************************************************************)
(* MaintenanceState: none, or when it was started and until when.  The     *)
(* third field is history: which opening this is.                          *)
(***************************************************************************)
Windows == {<<s, u, n>> : s \in Time, u \in 1 .. Manual, n \in 1 .. MaxWindows}
Starts(w) == w[1]
Until(w) == w[2]
Id(w) == w[3]

\* The configured targets and their windows, in memory or in the file.
Tables == [targets : SUBSET Keys, window : [Keys -> Windows \union {NoWindow}]]

MAINTENANCE_STARTED == "MAINTENANCE_STARTED"
MAINTENANCE_ENDED == "MAINTENANCE_ENDED"
Events == [kind : {MAINTENANCE_STARTED, MAINTENANCE_ENDED}, key : Keys,
           at : Time, id : 1 .. MaxWindows]

ASSUME MaintenanceAssumption ==
    /\ MaxTime \in Nat /\ MaxWindows \in Nat /\ MaxFlaws \in Nat /\ MaxKills \in Nat
    /\ Files \subseteq Tables /\ Backups \subseteq SUBSET Keys

Callbacks == {"none", "change", "poll", "resolve", "remove", "edit", "load"}

VARIABLES
    clock,    \* the time, in the resolution of the timestamps
    mem,      \* target_metadata: the table in memory
    disk,     \* the configuration file
    events,   \* Event History, oldest first
    up,       \* the process runs
    callback, \* the callback under way on the Tk thread
    left,     \* the targets whose window it has yet to end
    unsaved,  \* an event was recorded, and the file is to be written next
    arg,      \* what the callback was given: services to drop and to add, a host list
    opened,   \* history: windows ever opened
    flaws,    \* history: refused writes and kills in the middle of a callback
    kills     \* history: kills between two callbacks

work == <<callback, left, unsaved, arg>>
vars == <<clock, mem, disk, events, up, callback, left, unsaved, arg, opened, flaws, kills>>

Bare(S) == [targets |-> S, window |-> [k \in Keys |-> NoWindow]]
Change(S, T) == [drop |-> S, add |-> T, file |-> Bare({})]
Nothing == Change({}, {})

Init ==
    /\ clock = 0 /\ \E S \in SUBSET Keys : mem = Bare(S)
    /\ disk = mem /\ events = << >> /\ up = TRUE
    /\ callback = "none" /\ left = {} /\ unsaved = FALSE /\ arg = Nothing
    /\ opened = 0 /\ flaws = 0 /\ kills = 0

--------------------------------------------------------------------------------
is_maintenance_active(w, now) == w # NoWindow /\ now < Until(w)
maintenance_has_expired(w, now) == w # NoWindow /\ now >= Until(w)

Enabled(table) == {k \in table.targets : table.window[k] # NoWindow}
Active(table) == {k \in table.targets : is_maintenance_active(table.window[k], clock)}
Expired(table) == {k \in table.targets : maintenance_has_expired(table.window[k], clock)}

With(table, k, w) == [table EXCEPT !.window[k] = w]

\* The services of drop leave the table; one of add takes over the window of what it
\* replaces, if it replaces any.
Rewritten(table, drop, add) ==
    LET carried == IF drop = {} THEN NoWindow ELSE table.window[CHOOSE d \in drop : TRUE]
    IN  [targets |-> (table.targets \ drop) \union add,
         window |-> [k \in Keys |-> IF k \in add THEN carried
                                   ELSE IF k \in drop THEN NoWindow ELSE table.window[k]]]

\* The Tk thread is free: the windows' own buttons and the timers may run.
Free == up /\ callback = "none"

\* What is left of a callback that ends the windows of S and goes on with a.
Ends(name, S, a) == callback' = name /\ left' = S /\ unsaved' = FALSE /\ arg' = a
Done == callback' = "none" /\ left' = {} /\ unsaved' = FALSE /\ arg' = Nothing

\* EventHistoryStore.insert(): recorded or refused, and the callers do not look.
Insert(kind, k, at, w) ==
    \/ /\ events' = Append(events, [kind |-> kind, key |-> k, at |-> at, id |-> Id(w)])
       /\ UNCHANGED flaws
    \/ /\ flaws < MaxFlaws /\ flaws' = flaws + 1
       /\ UNCHANGED events

\* save_config(): the file is replaced whole or stays as it was, and nobody looks.
Save ==
    \/ disk' = mem /\ UNCHANGED flaws
    \/ flaws < MaxFlaws /\ flaws' = flaws + 1 /\ UNCHANGED disk

--------------------------------------------------------------------------------
(***************************************************************************)
(* MaintenanceDialog.submit() and begin_maintenance_for_item(): refused    *)
(* while a window is active, not while one waits to be ended.              *)
(***************************************************************************)
Begin(k, until) ==
    /\ Free /\ k \in mem.targets \ Active(mem)
    /\ until > clock /\ opened < MaxWindows
    /\ opened' = opened + 1
    /\ LET w == <<clock, until, opened + 1>>
       IN  /\ mem' = With(mem, k, w)
           /\ Insert(MAINTENANCE_STARTED, k, clock, w)
    /\ callback' = "change" /\ unsaved' = TRUE
    /\ UNCHANGED <<clock, disk, up, left, arg, kills>>

\* end_selected_maintenance(): the window may expire while the question is asked.
EndSelected(k) ==
    /\ Free /\ k \in Enabled(mem)
    /\ Ends("change", {k}, Nothing)
    /\ UNCHANGED <<clock, mem, disk, events, up, opened, flaws, kills>>

\* poll_maintenance_expiry()
PollExpiry ==
    /\ Free /\ Expired(mem) # {}
    /\ Ends("poll", Expired(mem), Nothing)
    /\ UNCHANGED <<clock, mem, disk, events, up, opened, flaws, kills>>

RemoveSelected(k) ==
    /\ Free /\ k \in mem.targets
    /\ Ends("remove", Enabled(mem) \intersect {k}, Change({k}, {}))
    /\ UNCHANGED <<clock, mem, disk, events, up, opened, flaws, kills>>

\* Variant: a window follows its target to another service.
EndedByEditNone(k) == {}

\* add_target(): an active window ends when its target is given another service.
EndedByEdit(k) == Active(mem) \intersect {k}

AddTarget(k) ==
    /\ Free /\ k \notin mem.targets
    /\ Ends("edit", {}, Change({}, {k}))
    /\ UNCHANGED <<clock, mem, disk, events, up, opened, flaws, kills>>

EditTarget(k, to) ==
    /\ Free /\ k \in mem.targets /\ to \notin mem.targets
    /\ Ends("edit", EndedByEdit(k), Change({k}, {to}))
    /\ UNCHANGED <<clock, mem, disk, events, up, opened, flaws, kills>>

LoadHostList(file) ==
    /\ Free
    /\ Ends("load", Enabled(mem), [Nothing EXCEPT !.file = file])
    /\ UNCHANGED <<clock, mem, disk, events, up, opened, flaws, kills>>

(***************************************************************************)
(* restore_settings_backup() of targets: the file is replaced first, and   *)
(* only then the table.  Neither mode writes an event; in a replacement no *)
(* window survives.                                                        *)
(***************************************************************************)
Restored(backup, merge) ==
    IF merge THEN [mem EXCEPT !.targets = @ \union backup] ELSE Bare(backup)

RestoreTargets(backup, merge) ==
    /\ Free
    /\ disk' = Restored(backup, merge) /\ mem' = Restored(backup, merge)
    /\ UNCHANGED <<clock, events, up, work, opened, flaws, kills>>

\* Any other change of the configuration saves all of it.
SaveConfig ==
    /\ Free /\ disk # mem
    /\ Save
    /\ UNCHANGED <<clock, mem, events, up, work, opened, kills>>

--------------------------------------------------------------------------------
(***************************************************************************)
(* The rest of a callback: each window it ends is cleared in memory and    *)
(* recorded in one step and saved in the next.                             *)
(***************************************************************************)
EndedAt(w) == IF callback \in {"poll", "resolve"} THEN Until(w) ELSE clock

\* Variant: the window stays in memory.
EndKeepsWindow(k) ==
    /\ up /\ k \in left /\ ~unsaved
    /\ Insert(MAINTENANCE_ENDED, k, EndedAt(mem.window[k]), mem.window[k])
    /\ left' = left \ {k} /\ unsaved' = TRUE
    /\ UNCHANGED <<clock, mem, disk, up, callback, arg, opened, kills>>

\* end_maintenance_for_item()
EndWindow(k) ==
    /\ up /\ k \in left /\ ~unsaved
    /\ mem' = With(mem, k, NoWindow)
    /\ Insert(MAINTENANCE_ENDED, k, EndedAt(mem.window[k]), mem.window[k])
    /\ left' = left \ {k} /\ unsaved' = TRUE
    /\ UNCHANGED <<clock, disk, up, callback, arg, opened, kills>>

SaveAfterEvent ==
    /\ up /\ unsaved
    /\ Save
    /\ IF left = {} /\ callback \in {"change", "poll"} THEN Done
       ELSE unsaved' = FALSE /\ UNCHANGED <<callback, left, arg>>
    /\ UNCHANGED <<clock, mem, events, up, opened, kills>>

\* remove_selected() and add_target() once the window has been ended.
FinishChange ==
    /\ up /\ callback \in {"remove", "edit"} /\ left = {} /\ ~unsaved
    /\ mem' = Rewritten(mem, arg.drop, arg.add)
    /\ callback' = "change" /\ unsaved' = TRUE
    /\ UNCHANGED <<clock, disk, events, up, left, arg, opened, flaws, kills>>

\* load_host_list(): the list is not saved; its expired windows are resolved.
FinishLoad ==
    /\ up /\ callback = "load" /\ left = {} /\ ~unsaved
    /\ mem' = arg.file
    /\ IF Expired(arg.file) = {} THEN Done ELSE Ends("resolve", Expired(arg.file), Nothing)
    /\ UNCHANGED <<clock, disk, events, up, opened, flaws, kills>>

\* resolve_expired_maintenance_on_startup() saves once more.
FinishResolve ==
    /\ up /\ callback = "resolve" /\ left = {} /\ ~unsaved
    /\ Save /\ Done
    /\ UNCHANGED <<clock, mem, events, up, opened, kills>>

--------------------------------------------------------------------------------
Tick ==
    /\ callback = "none" /\ clock < MaxTime
    /\ clock' = clock + 1
    /\ UNCHANGED <<mem, disk, events, up, work, opened, flaws, kills>>

\* shutdown_application() saves.
Exit ==
    /\ Free
    /\ Save /\ up' = FALSE
    /\ UNCHANGED <<clock, mem, events, work, opened, kills>>

\* The process is killed, between two callbacks or in the middle of one.
Kill ==
    /\ Free /\ kills < MaxKills
    /\ up' = FALSE /\ kills' = kills + 1
    /\ UNCHANGED <<clock, mem, disk, events, work, opened, flaws>>

KillAmid ==
    /\ up /\ callback # "none" /\ flaws < MaxFlaws
    /\ up' = FALSE /\ flaws' = flaws + 1
    /\ Done
    /\ UNCHANGED <<clock, mem, disk, events, opened, kills>>

\* load_config() and resolve_expired_maintenance_on_startup()
Start ==
    /\ ~up /\ up' = TRUE
    /\ mem' = disk
    /\ IF Expired(disk) = {} THEN UNCHANGED work ELSE Ends("resolve", Expired(disk), Nothing)
    /\ UNCHANGED <<clock, disk, events, opened, flaws, kills>>

User ==
    \/ \E k \in Keys, until \in 1 .. Manual : Begin(k, until)
    \/ \E k \in Keys : AddTarget(k) \/ EndSelected(k) \/ RemoveSelected(k)
    \/ \E k, to \in Keys : EditTarget(k, to)
    \/ \E file \in Files : LoadHostList(file)
    \/ \E backup \in Backups, merge \in BOOLEAN : RestoreTargets(backup, merge)
    \/ SaveConfig \/ Exit \/ Start

Go == (\E k \in Keys : EndWindow(k)) \/ SaveAfterEvent \/ FinishChange \/ FinishLoad \/ FinishResolve

Next == User \/ PollExpiry \/ Go \/ Tick \/ Kill \/ KillAmid

Spec == Init /\ [][Next]_vars

--------------------------------------------------------------------------------
(***************************************************************************)
(* Properties.                                                             *)
(***************************************************************************)
\* Types; and a callback only ends windows of targets that are still in the table.
TypeOK ==
    /\ clock \in Time /\ mem \in Tables /\ disk \in Tables /\ events \in Seq(Events)
    /\ up \in BOOLEAN /\ callback \in Callbacks /\ left \subseteq mem.targets
    /\ unsaved \in BOOLEAN
    /\ arg \in [drop : SUBSET Keys, add : SUBSET Keys, file : Tables]
    /\ opened \in 0 .. MaxWindows /\ flaws \in 0 .. MaxFlaws /\ kills \in 0 .. MaxKills

\* What Event History says of a service: the last of its events.
LastOf(k, i) == events[i].key = k /\ \A j \in DOMAIN events : j > i => events[j].key # k

OpenSince(k, w) ==
    \E i \in DOMAIN events :
        /\ LastOf(k, i) /\ events[i].kind = MAINTENANCE_STARTED
        /\ events[i].at = Starts(w) /\ events[i].id = Id(w)

\* "Historical maintenance comes from persisted audit events rather than the
\* current config flag" (README, Availability Report), so the two must agree: an
\* active window is the last one the history opened for its service, whatever was
\* edited, loaded, restored or restarted, unless a write was refused or the
\* process was killed in the middle of a callback.
ActiveIsOpen == flaws = 0 /\ up => \A k \in Active(mem) : OpenSince(k, mem.window[k])

\* A window is not ended twice: "restores safely across restart without duplicate
\* end events" (CHANGELOG).  Each refused write or kill between the event and the
\* file may cost one duplicate, and no more.
EndsOf(n) == Cardinality({i \in DOMAIN events : events[i].kind = MAINTENANCE_ENDED
                                                /\ events[i].id = n})
EndedOnce == \A n \in 1 .. opened : EndsOf(n) <= 1 + flaws

--------------------------------------------------------------------------------
(***************************************************************************)
(* Promises of the README that the code does not keep: add one to the      *)
(* configuration of this module and TLC shows how (README, Observations).  *)
(***************************************************************************)
\* No window is ended twice, whatever the kills: EndedOnce without its allowance.
EndedExactlyOnce == \A n \in 1 .. opened : EndsOf(n) <= 1

\* What the history leaves open is a window the table still has: "ongoing windows
\* run through report end" (README, Availability Report).
OpenIsEnabled ==
    Free => \A k \in mem.targets, i \in DOMAIN events :
        LastOf(k, i) /\ mem.window[k] = NoWindow => events[i].kind = MAINTENANCE_ENDED
================================================================================
