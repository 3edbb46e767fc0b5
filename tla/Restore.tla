-------------------------------- MODULE Restore --------------------------------
(***************************************************************************)
(* Importing a settings backup (settings_backup.py and the transaction     *)
(* restore_settings_backup() of multi_port_checker.py): a plan is made, a  *)
(* safety backup is written, the configuration is replaced on disk, and    *)
(* the plan is applied to the live rows and settings one by one.  What     *)
(* fails in between is rolled back on disk and live, one by one again, and *)
(* the program may be killed at every step.                                *)
(*                                                                         *)
(* The import runs on the Tk thread and is refused during a check or a     *)
(* scan, so nothing else happens meanwhile.  Targets are unique then       *)
(* (build_backup refuses others), so a row is named by its key.            *)
(***************************************************************************)
EXTENDS Integers, SequencesExt

CONSTANTS
    Keys,        \* targets: host and port
    Labels,      \* a target's name and groups; values of the other preferences
    Files,       \* configurations the program is started with
    Imports,     \* backups that are imported
    MaxImports,  \* bound: imports
    MaxFailures, \* bound: writes that are refused and steps that raise
    MaxEdits,    \* bound: what the user changes in between
    MaxKills     \* bound: ends of the program

\* What is known of a target: nothing, or the baseline of its transitions.
UNKNOWN == "UNKNOWN"
States == {UNKNOWN, "OBSERVED"}

(***************************************************************************)
(* A configuration, live or on disk.  "endpoint" says that there is a      *)
(* valid one; "window" that maintenance is under way.                      *)
(***************************************************************************)
Entry(key, label, window) == [key |-> key, label |-> label, window |-> window]
Entries == [key : Keys, label : Labels, window : BOOLEAN]
KeysOf(hosts) == {hosts[i].key : i \in DOMAIN hosts}
RecordOf(hosts, k) == hosts[CHOOSE i \in DOMAIN hosts : hosts[i].key = k]
HostLists == {hosts \in Seq(Entries) :
                 \A i, j \in DOMAIN hosts : hosts[i].key = hosts[j].key => i = j}
Settings == [theme : Labels, health : Labels, enabled : BOOLEAN, endpoint : BOOLEAN]
Configs == [hosts : HostLists, settings : Settings]
Selections == {s \in [targets : BOOLEAN, preferences : BOOLEAN, notifications : BOOLEAN,
                      mode : {"merge", "replace"}] :
                  IF s.targets THEN TRUE
                  ELSE s.mode = "merge" /\ (s.preferences \/ s.notifications)}

ASSUME RestoreAssumption ==
    /\ Files \subseteq Configs /\ Imports \subseteq Configs
    /\ MaxImports \in Nat /\ MaxFailures \in Nat /\ MaxEdits \in Nat /\ MaxKills \in Nat

--------------------------------------------------------------------------------
(***************************************************************************)
(* Plans and backups.                                                      *)
(***************************************************************************)
\* build_backup(): no endpoints and no maintenance.
Portable(config) ==
    [hosts |-> [i \in DOMAIN config.hosts |-> [config.hosts[i] EXCEPT !.window = FALSE]],
     settings |-> [config.settings EXCEPT !.endpoint = FALSE]]

\* Variant: what the backup has follows what there is.
MergedTwice(local, incoming) == local \o incoming

\* Local targets stay where they are; a matching one takes the name and the groups of
\* the backup and keeps its maintenance; new ones follow.
Merged(local, incoming) ==
    LET Put(merged, r) ==
            IF r.key \in KeysOf(local)
            THEN [i \in DOMAIN merged |-> IF merged[i].key # r.key THEN merged[i]
                                         ELSE [r EXCEPT !.window = merged[i].window]]
            ELSE Append(merged, r)
    IN  FoldLeft(Put, local, incoming)

\* plan_restore()
Planned(current, backup, s) ==
    LET old == current.settings
        new == backup.settings
    IN  [hosts |-> IF ~s.targets THEN current.hosts
                   ELSE IF s.mode = "merge" THEN Merged(current.hosts, backup.hosts)
                   ELSE backup.hosts,
         settings |->
            [old EXCEPT !.theme = IF s.preferences THEN new.theme ELSE @,
                        !.enabled = IF s.notifications THEN new.enabled /\ old.endpoint ELSE @]]

--------------------------------------------------------------------------------
VARIABLES
    tree,      \* rows there are
    order,     \* target_order, as far as all_persistent_items() still finds its rows
    row,       \* a row's values and its target_metadata
    tracker,   \* tcp_state_tracker
    settings,  \* the preference variables and notification_settings
    file,      \* the configuration on disk
    backups,   \* the safety backups
    phase,     \* where restore_settings_backup() is
    at,        \* records applied or rows put back so far
    job,       \* the import under way, or the last one
    undone,    \* disk_restored
    outcome,   \* what the user is told of it
    imports, failures, edits, kills   \* history: for the bounds

live == <<tree, order, row, tracker, settings>>
bounds == <<imports, failures, edits, kills>>
vars == <<tree, order, row, tracker, settings, file, backups, phase, at, job, undone, outcome,
          imports, failures, edits, kills>>

NoRow == Entry(CHOOSE k \in Keys : TRUE, CHOOSE l \in Labels : TRUE, FALSE)

\* snapshot_config()
Snapshot == [hosts |-> [i \in DOMAIN order |-> row[order[i]]], settings |-> settings]

\* What the user has before him: the configuration, and what is known of its targets.
Live == [config |-> Snapshot, tree |-> tree, tracker |-> tracker]

RowsOf(hosts) == [k \in Keys |-> IF k \in KeysOf(hosts) THEN RecordOf(hosts, k) ELSE NoRow]
OrderOf(hosts) == [i \in DOMAIN hosts |-> hosts[i].key]
NothingKnown == [k \in Keys |-> UNKNOWN]

NoJob == [current |-> << >>]

Init ==
    /\ file \in Files /\ settings = file.settings
    /\ tree = KeysOf(file.hosts) /\ order = OrderOf(file.hosts) /\ row = RowsOf(file.hosts)
    /\ tracker = NothingKnown
    /\ backups = {} /\ phase = "idle" /\ at = 0 /\ job = NoJob /\ undone = TRUE
    /\ outcome = "none" /\ imports = 0 /\ failures = 0 /\ edits = 0 /\ kills = 0

--------------------------------------------------------------------------------
(***************************************************************************)
(* Between two imports.                                                    *)
(***************************************************************************)
Idle ==
    /\ phase = "idle" /\ outcome' = "none" /\ job' = NoJob /\ undone' = TRUE
    /\ UNCHANGED <<phase, at, backups>>

Observe(k) ==
    /\ Idle /\ k \in tree
    /\ tracker' = [tracker EXCEPT ![k] = "OBSERVED"]
    /\ UNCHANGED <<tree, order, row, settings, file, bounds>>

\* The user changes a target, a preference or an endpoint; some of it is saved at once.
Edit ==
    /\ Idle /\ edits < MaxEdits /\ edits' = edits + 1
    /\ \/ /\ \E k \in tree, l \in Labels :
                row' = [row EXCEPT ![k].label = l, ![k].window = ~@]
          /\ UNCHANGED settings
       \/ /\ \E l \in Labels :
                settings' = [settings EXCEPT !.theme = l, !.health = l, !.endpoint = ~@]
          /\ UNCHANGED row
    /\ UNCHANGED <<tree, order, tracker, file, imports, failures, kills>>

\* save_config()
SaveConfig ==
    /\ Idle
    /\ file' = Snapshot
    /\ UNCHANGED <<live, bounds>>

\* The program ends, at any point, and is started again: load_config().
Restart ==
    /\ kills < MaxKills /\ kills' = kills + 1
    /\ settings' = file.settings
    /\ tree' = KeysOf(file.hosts) /\ order' = OrderOf(file.hosts) /\ row' = RowsOf(file.hosts)
    /\ tracker' = NothingKnown
    /\ phase' = "idle" /\ at' = 0 /\ job' = NoJob /\ outcome' = "none" /\ undone' = TRUE
    /\ UNCHANGED <<file, backups, imports, failures, edits>>

--------------------------------------------------------------------------------
(***************************************************************************)
(* restore_settings_backup().                                              *)
(***************************************************************************)
Begin(backup, s) ==
    /\ phase = "idle" /\ imports < MaxImports /\ imports' = imports + 1
    /\ job' = [current |-> Snapshot, plan |-> Planned(Snapshot, backup, s),
               targets |-> s.targets, before |-> Live, disk |-> file,
               health |-> IF s.preferences THEN backup.settings.health ELSE settings.health]
    /\ phase' = "safety" /\ at' = 0 /\ outcome' = "none" /\ undone' = TRUE
    /\ UNCHANGED <<live, file, backups, failures, edits, kills>>

Tell(what) == outcome' = what /\ phase' = "idle"
Fails == failures < MaxFailures /\ failures' = failures + 1
Step == UNCHANGED <<bounds, job, undone, backups, file>>

\* Variant: the safety backup is made of the plan.
SafetyOfPlan == Portable(job.plan)

SafetyOf == Portable(job.current)

\* save_restore(): the safety backup first; a refused write ends the import.
WriteSafety ==
    /\ phase = "safety"
    /\ \/ /\ backups' = backups \union {SafetyOf} /\ phase' = "commit"
          /\ UNCHANGED <<failures, outcome>>
       \/ /\ Fails /\ Tell("refused") /\ UNCHANGED backups
    /\ UNCHANGED <<live, file, at, job, undone, imports, edits, kills>>

Commit ==
    /\ phase = "commit"
    /\ \/ /\ file' = job.plan
          /\ phase' = IF job.targets THEN "hosts" ELSE "preferences"
          /\ UNCHANGED <<failures, outcome>>
       \/ /\ Fails /\ Tell("refused") /\ UNCHANGED file
    /\ UNCHANGED <<live, backups, at, job, undone, imports, edits, kills>>

\* apply_restored_config(), record by record: a matching row is changed, and a new one
\* inserted by insert_persistent_target().
ApplyRecord ==
    /\ phase = "hosts" /\ at < Len(job.plan.hosts) /\ at' = at + 1
    /\ LET r == job.plan.hosts[at + 1]
       IN  /\ row' = [row EXCEPT ![r.key] = r]
           /\ tree' = tree \union {r.key}
           /\ IF r.key \in tree THEN UNCHANGED <<order, tracker>>
             ELSE /\ order' = Append(order, r.key)
                  /\ tracker' = [tracker EXCEPT ![r.key] = UNKNOWN]
    /\ UNCHANGED <<settings, phase, outcome>> /\ Step

Arranged == OrderOf(job.plan.hosts)

\* Rows the plan does not have are deleted one by one, and then the order is replaced.
DeleteRow ==
    /\ phase = "hosts" /\ at = Len(job.plan.hosts)
    /\ \E i \in DOMAIN order :
          /\ order[i] \notin KeysOf(job.plan.hosts)
          /\ tree' = tree \ {order[i]} /\ row' = [row EXCEPT ![order[i]] = NoRow]
          /\ tracker' = [tracker EXCEPT ![order[i]] = UNKNOWN]
          /\ order' = RemoveAt(order, i)
    /\ UNCHANGED <<settings, phase, at, outcome>> /\ Step

Arrange ==
    /\ phase = "hosts" /\ at = Len(job.plan.hosts) /\ Range(order) \subseteq KeysOf(job.plan.hosts)
    /\ order' = Arranged /\ phase' = "preferences"
    /\ UNCHANGED <<tree, row, tracker, settings, at, outcome>> /\ Step

ApplyPreferences ==
    /\ phase = "preferences" /\ phase' = "notifications"
    /\ settings' = [settings EXCEPT !.theme = job.plan.settings.theme,
                                    !.health = job.plan.settings.health]
    /\ UNCHANGED <<tree, order, row, tracker, at, outcome>> /\ Step

ApplyNotifications ==
    /\ phase = "notifications" /\ Tell("imported")
    /\ settings' = [settings EXCEPT !.enabled = job.plan.settings.enabled,
                                    !.endpoint = job.plan.settings.endpoint]
    /\ UNCHANGED <<tree, order, row, tracker, at>> /\ Step

--------------------------------------------------------------------------------
(***************************************************************************)
(* The roll-back, when a step raises.                                      *)
(***************************************************************************)
Applying == phase \in {"hosts", "preferences", "notifications"}
Undoing == phase \in {"clear", "rows", "tracker", "undo preferences", "undo notifications"}

\* A step raises, and the old configuration is written back, which may be refused.
Raise ==
    /\ Applying /\ phase' = "clear"
    /\ \/ Fails /\ file' = job.current /\ undone' = TRUE
       \/ /\ failures + 1 < MaxFailures /\ failures' = failures + 2
          /\ undone' = FALSE /\ UNCHANGED file
    /\ UNCHANGED <<live, backups, at, job, outcome, imports, edits, kills>>

\* A step of the live roll-back raises.
RaiseAgain ==
    /\ Undoing /\ Fails /\ Tell("failed")
    /\ UNCHANGED <<live, file, backups, at, job, undone, imports, edits, kills>>

ClearRows ==
    /\ phase = "clear" /\ phase' = "rows" /\ at' = 0
    /\ tree' = tree \ Range(order) /\ order' = << >>
    /\ row' = RowsOf(job.current.hosts)
    /\ UNCHANGED <<tracker, settings, outcome>> /\ Step

PutRow ==
    /\ phase = "rows" /\ at < Len(job.current.hosts) /\ at' = at + 1
    /\ LET k == job.current.hosts[at + 1].key
       IN  tree' = tree \union {k} /\ order' = Append(order, k)
    /\ UNCHANGED <<row, tracker, settings, phase, outcome>> /\ Step

\* Variant: what was known of the targets is not put back.
TrackerAsIs == tracker

TrackerBefore == job.before.tracker

PutTracker ==
    /\ phase = "rows" /\ at = Len(job.current.hosts)
    /\ tracker' = TrackerBefore /\ phase' = "undo preferences"
    /\ UNCHANGED <<tree, order, row, settings, at, outcome>> /\ Step

UndoPreferences ==
    /\ phase = "undo preferences" /\ phase' = "undo notifications"
    /\ settings' = [settings EXCEPT !.theme = job.current.settings.theme,
                                    !.health = job.current.settings.health]
    /\ UNCHANGED <<tree, order, row, tracker, at, outcome>> /\ Step

UndoNotifications ==
    /\ phase = "undo notifications"
    /\ Tell(IF undone THEN "restored" ELSE "disk")
    /\ settings' = [settings EXCEPT !.enabled = job.current.settings.enabled,
                                    !.endpoint = job.current.settings.endpoint]
    /\ UNCHANGED <<tree, order, row, tracker, at>> /\ Step

Apply == ApplyRecord \/ DeleteRow \/ Arrange \/ ApplyPreferences \/ ApplyNotifications
Undo == ClearRows \/ PutRow \/ PutTracker \/ UndoPreferences \/ UndoNotifications

Next ==
    \/ \E backup \in Imports, s \in Selections : Begin(backup, s)
    \/ WriteSafety \/ Commit \/ Apply \/ Raise \/ Undo \/ RaiseAgain
    \/ \E k \in Keys : Observe(k)
    \/ Edit \/ SaveConfig \/ Restart

Spec == Init /\ [][Next]_vars

--------------------------------------------------------------------------------
(***************************************************************************)
(* Properties.                                                             *)
(***************************************************************************)
Phases == {"idle", "safety", "commit", "hosts", "preferences", "notifications", "clear", "rows",
           "undo preferences", "undo notifications"}

\* Types; and a target has one row, one place in the order and one record at most.
TypeOK ==
    /\ tree \subseteq Keys /\ order \in Seq(Keys)
    /\ \A i, j \in DOMAIN order : order[i] = order[j] => i = j
    /\ row \in [Keys -> Entries] /\ tracker \in [Keys -> States] /\ settings \in Settings
    /\ file \in Configs /\ backups \subseteq Configs
    /\ phase \in Phases /\ at \in Nat /\ undone \in BOOLEAN
    /\ phase # "idle" => job.current \in Configs /\ job.plan \in Configs
    /\ outcome \in {"none", "imported", "refused", "restored", "disk", "failed"}

\* "A portable safety backup will be created first": once the configuration on disk or
\* anything the user has before him is not what it was when he confirmed, the backups
\* hold what was there then, whatever fails and wherever the program is killed.
SafetyFirst ==
    job # NoJob /\ (file # job.disk \/ Live # job.before) => Portable(job.current) \in backups

\* What the user is told is so: an import that succeeded is in force, live and on disk,
\* rows that stay keep what is known of them and new ones start unknown; one that was
\* refused changed nothing; after a roll-back everything is as before, what is known of
\* the targets included, but the disk where that is said.
OutcomeIsTrue ==
    CASE outcome = "imported" ->
            /\ Snapshot = job.plan /\ file = job.plan /\ tree = KeysOf(job.plan.hosts)
            /\ \A k \in tree : tracker[k] = IF k \in job.before.tree THEN job.before.tracker[k]
                                          ELSE UNKNOWN
      [] outcome = "refused" -> Live = job.before /\ file = job.disk
      [] outcome = "restored" -> Live = job.before /\ file = job.current
      [] outcome = "disk" -> Live = job.before /\ file = job.plan
      [] outcome = "failed" -> file \in {job.current, job.plan}
      [] OTHER -> TRUE

--------------------------------------------------------------------------------
(***************************************************************************)
(* A promise of the README that the code does not keep: add it to the      *)
(* configuration of this module and TLC shows how (README, Observations).  *)
(***************************************************************************)
\* "Health preferences are portable Settings Backup fields" (README): an import of the
\* application preferences brings them back.
HealthIsPortable == outcome = "imported" => settings.health = job.health
================================================================================
