--------------------------- MODULE MaintenanceProofs ---------------------------
(***************************************************************************)
(* Theorems about Maintenance, for any services, any clock and any number   *)
(* of windows, refused writes and kills.                                    *)
(*                                                                          *)
(* Control says what the callbacks take for granted of each other and needs *)
(* nothing of the constants.  The two audit properties also need that no    *)
(* host list brings a window of its own: such a window is active without    *)
(* an event (README, Observations), so they are stated under NoListWindows. *)
(***************************************************************************)
EXTENDS Maintenance, FiniteSetTheorems, TLAPS

Control ==
    /\ callback = "none" => left = {} /\ ~unsaved
    /\ ~up => callback = "none"
    /\ \A k \in left : mem.window[k] # NoWindow
    /\ callback \in {"poll", "resolve"} => \A k \in left : Until(mem.window[k]) <= clock
    /\ callback = "load" => Enabled(mem) \subseteq left
    /\ callback = "edit" => \A k \in arg.drop : k \in Active(mem) => k \in left
    /\ \A x, y \in arg.drop : x = y
    /\ \A x, y \in arg.add : x = y

TypeInv == TypeOK /\ Control

--------------------------------------------------------------------------------
\* A window has a beginning and an end, and is not the absence of one.
LEMMA WindowFacts ==
    ASSUME NEW w \in Windows
    PROVE  /\ Starts(w) \in Time /\ Until(w) \in 1 .. Manual /\ Id(w) \in 1 .. MaxWindows
           /\ w # NoWindow
<1>1. PICK s \in Time, u \in 1 .. Manual, n \in 1 .. MaxWindows : w = <<s, u, n>>
  BY DEF Windows
<1> QED BY <1>1 DEF Starts, Until, Id, NoWindow

LEMMA WithType ==
    ASSUME NEW table \in Tables, NEW k \in Keys, NEW w \in Windows \union {NoWindow}
    PROVE  /\ With(table, k, w) \in Tables
           /\ With(table, k, w).targets = table.targets
           /\ \A l \in Keys : With(table, k, w).window[l] = IF l = k THEN w ELSE table.window[l]
  BY DEF With, Tables

LEMMA BareType ==
    ASSUME NEW S \in SUBSET Keys
    PROVE  /\ Bare(S) \in Tables /\ Bare(S).targets = S
           /\ \A k \in Keys : Bare(S).window[k] = NoWindow
  BY DEF Bare, Tables

\* What remove_selected() and add_target() make of the table: a dropped service loses
\* its window, and a service added takes that of the one it replaces.
LEMMA RewrittenType ==
    ASSUME NEW table \in Tables, NEW drop \in SUBSET Keys, NEW add \in SUBSET Keys
    PROVE  /\ Rewritten(table, drop, add) \in Tables
           /\ Rewritten(table, drop, add).targets = (table.targets \ drop) \union add
<1> DEFINE carried == IF drop = {} THEN NoWindow ELSE table.window[CHOOSE d \in drop : TRUE]
<1>1. carried \in Windows \union {NoWindow}
  BY DEF Tables
<1>2. Rewritten(table, drop, add) =
        [targets |-> (table.targets \ drop) \union add,
         window |-> [k \in Keys |-> IF k \in add THEN carried
                                   ELSE IF k \in drop THEN NoWindow ELSE table.window[k]]]
  BY DEF Rewritten
<1> HIDE DEF carried
<1> QED BY <1>1, <1>2 DEF Tables

LEMMA RewrittenWindow ==
    ASSUME NEW table \in Tables, NEW drop \in SUBSET Keys, NEW add \in SUBSET Keys, NEW k \in Keys
    PROVE  LET w == Rewritten(table, drop, add).window[k]
           IN  \/ w = NoWindow
               \/ k \notin add /\ k \notin drop /\ w = table.window[k]
               \/ k \in add /\ \E d \in drop : w = table.window[d]
  BY DEF Rewritten

LEMMA InsertType ==
    ASSUME TypeOK, NEW kind \in {MAINTENANCE_STARTED, MAINTENANCE_ENDED}, NEW k \in Keys,
           NEW at \in Time, NEW w \in Windows, Insert(kind, k, at, w)
    PROVE  events' \in Seq(Events) /\ flaws' \in 0 .. MaxFlaws
<1>1. [kind |-> kind, key |-> k, at |-> at, id |-> Id(w)] \in Events
  BY WindowFacts DEF Events
<1>2. events \in Seq(Events) /\ flaws \in 0 .. MaxFlaws /\ MaxFlaws \in Nat
  BY MaintenanceAssumption DEF TypeOK
<1> QED BY <1>1, <1>2 DEF Insert

LEMMA SaveType ==
    ASSUME TypeOK, Save
    PROVE  disk' \in {mem, disk} /\ disk' \in Tables /\ flaws' \in 0 .. MaxFlaws
  BY MaintenanceAssumption DEF TypeOK, Save

--------------------------------------------------------------------------------
Arg == [drop : SUBSET Keys, add : SUBSET Keys, file : Tables]

LEMMA ArgType ==
    /\ Nothing \in Arg /\ Nothing.drop = {} /\ Nothing.add = {}
    /\ \A S, T \in SUBSET Keys : /\ Change(S, T) \in Arg
                                 /\ Change(S, T).drop = S /\ Change(S, T).add = T
    /\ \A f \in Tables : /\ [Nothing EXCEPT !.file = f] \in Arg
                         /\ [Nothing EXCEPT !.file = f].drop = {}
                         /\ [Nothing EXCEPT !.file = f].add = {}
  BY BareType DEF Nothing, Change, Arg

LEMMA TypeInit == Init => TypeInv
<1> SUFFICES ASSUME Init PROVE TypeInv
  OBVIOUS
<1>1. PICK S \in SUBSET Keys : mem = Bare(S)
  BY DEF Init
<1>2. mem \in Tables /\ Bare({}) \in Tables
  BY <1>1, BareType
<1>3. arg = Nothing /\ arg \in Arg
  BY ArgType DEF Init
<1>4. << >> \in Seq(Events)
  OBVIOUS
<1>5. TypeOK
  <2>1. /\ clock \in Time /\ opened \in 0 .. MaxWindows
        /\ flaws \in 0 .. MaxFlaws /\ kills \in 0 .. MaxKills
    BY MaintenanceAssumption DEF Init, Time
  <2>2. disk \in Tables /\ events \in Seq(Events)
    BY <1>2, <1>4 DEF Init
  <2>3. up \in BOOLEAN /\ callback \in Callbacks /\ left \subseteq mem.targets /\ unsaved \in BOOLEAN
    BY DEF Init, Callbacks
  <2> QED BY <1>2, <1>3, <2>1, <2>2, <2>3 DEF TypeOK, Arg
<1>6. Control
  BY <1>3, ArgType DEF Init, Control
<1> QED BY <1>5, <1>6 DEF TypeInv

\* The steps that begin a callback: what is left to end are windows of the table.
LEMMA BeginKeeps ==
    ASSUME TypeInv, NEW k \in Keys, NEW until \in 1 .. Manual, Begin(k, until)
    PROVE  TypeInv'
<1> DEFINE w == <<clock, until, opened + 1>>
<1>1. w \in Windows /\ opened' \in 0 .. MaxWindows
  BY MaintenanceAssumption DEF TypeInv, TypeOK, Begin, Windows
<1>2. mem' = With(mem, k, w) /\ Insert(MAINTENANCE_STARTED, k, clock, w)
  BY DEF Begin
<1> HIDE DEF w
<1>3. /\ mem' \in Tables /\ mem'.targets = mem.targets
      /\ \A l \in Keys : mem'.window[l] = IF l = k THEN w ELSE mem.window[l]
  BY <1>1, <1>2, WithType DEF TypeInv, TypeOK
<1>4. events' \in Seq(Events) /\ flaws' \in 0 .. MaxFlaws
  BY <1>1, <1>2, InsertType DEF TypeInv, TypeOK
<1>5. left = {} /\ callback = "none"
  BY DEF TypeInv, Control, Begin, Free
<1>6. TypeOK'
  BY <1>1, <1>3, <1>4, <1>5 DEF TypeInv, TypeOK, Begin, Callbacks
<1>7. Control'
  BY <1>5 DEF TypeInv, Control, Begin, Free
<1> QED BY <1>6, <1>7 DEF TypeInv

\* The other callbacks with something to end begin with nothing but that.
LEMMA EndsKeeps ==
    ASSUME TypeInv, up, callback = "none", NEW name \in Callbacks \ {"none"},
           NEW S \in SUBSET Enabled(mem), NEW a \in Arg, Ends(name, S, a),
           \A x, y \in a.drop : x = y, \A x, y \in a.add : x = y,
           name \in {"poll", "resolve"} => S \subseteq Expired(mem),
           name = "load" => S = Enabled(mem),
           name = "edit" => \A k \in a.drop : k \in Active(mem) => k \in S,
           UNCHANGED <<clock, mem, disk, events, up, opened, flaws, kills>>
    PROVE  TypeInv'
<1>1. TypeOK'
  BY DEF TypeInv, TypeOK, Ends, Enabled, Arg
<1>2. Control'
  BY DEF TypeInv, Control, Ends, Enabled, Expired, Active, maintenance_has_expired
<1> QED BY <1>1, <1>2 DEF TypeInv

LEMMA EndWindowKeeps ==
    ASSUME TypeInv, NEW k \in Keys, EndWindow(k)
    PROVE  TypeInv'
<1>1. k \in left /\ ~unsaved /\ up /\ callback # "none"
  BY DEF EndWindow, TypeInv, Control
<1>2. mem.window[k] \in Windows
  BY <1>1 DEF TypeInv, TypeOK, Control, Tables
<1>3. EndedAt(mem.window[k]) \in Time
  BY <1>1, <1>2, WindowFacts, MaintenanceAssumption DEF EndedAt, TypeInv, TypeOK, Control, Time
<1>4. events' \in Seq(Events) /\ flaws' \in 0 .. MaxFlaws
  BY <1>2, <1>3, InsertType DEF EndWindow, TypeInv
<1>5. /\ mem' \in Tables /\ mem'.targets = mem.targets
      /\ \A l \in Keys : mem'.window[l] = IF l = k THEN NoWindow ELSE mem.window[l]
  BY WithType DEF EndWindow, TypeInv, TypeOK
<1>6. TypeOK'
  BY <1>4, <1>5 DEF EndWindow, TypeInv, TypeOK
<1>7. left' = left \ {k} /\ left \subseteq Keys /\ UNCHANGED <<clock, up, callback, arg>>
  BY DEF EndWindow, TypeInv, TypeOK, Tables
<1>8. Control'
  <2>1. \A l \in left' : mem'.window[l] = mem.window[l]
    BY <1>5, <1>7
  <2>2. \A l \in Enabled(mem)' : l \in Enabled(mem) /\ l # k
    BY <1>5 DEF Enabled, TypeInv, TypeOK, Tables
  <2>3. \A l \in Active(mem)' : l \in Active(mem) /\ l # k
    BY <1>5, <1>7 DEF Active, is_maintenance_active, TypeInv, TypeOK, Tables
  <2> QED BY <1>1, <1>7, <2>1, <2>2, <2>3 DEF TypeInv, Control
<1> QED BY <1>6, <1>8 DEF TypeInv

LEMMA SaveAfterEventKeeps == ASSUME TypeInv, SaveAfterEvent PROVE TypeInv'
<1>1. disk' \in Tables /\ flaws' \in 0 .. MaxFlaws
  BY SaveType DEF SaveAfterEvent, TypeInv
<1>2. \/ Done
      \/ unsaved' = FALSE /\ UNCHANGED <<callback, left, arg>>
  BY DEF SaveAfterEvent
<1>3. TypeOK'
  BY <1>1, <1>2, ArgType DEF SaveAfterEvent, TypeInv, TypeOK, Done, Callbacks, Arg
<1>4. Control'
  BY <1>2, ArgType
     DEF SaveAfterEvent, TypeInv, Control, Done, Active, Enabled, is_maintenance_active
<1> QED BY <1>3, <1>4 DEF TypeInv

LEMMA FinishChangeKeeps == ASSUME TypeInv, FinishChange PROVE TypeInv'
<1>1. mem' \in Tables
  <2>1. arg.drop \in SUBSET Keys /\ arg.add \in SUBSET Keys /\ mem \in Tables
    BY DEF TypeInv, TypeOK
  <2>2. Rewritten(mem, arg.drop, arg.add) \in Tables
    BY <2>1, RewrittenType, Zenon
  <2> QED BY <2>2 DEF FinishChange
<1>2. TypeOK'
  BY <1>1 DEF FinishChange, TypeInv, TypeOK, Callbacks
<1>3. Control'
  BY DEF FinishChange, TypeInv, Control
<1> QED BY <1>2, <1>3 DEF TypeInv

LEMMA FinishLoadKeeps == ASSUME TypeInv, FinishLoad PROVE TypeInv'
<1>1. mem' = arg.file /\ mem' \in Tables /\ Expired(mem)' = Expired(arg.file)
  BY DEF FinishLoad, TypeInv, TypeOK, Expired, maintenance_has_expired
<1>2. Done \/ Ends("resolve", Expired(arg.file), Nothing)
  BY DEF FinishLoad
<1>3. Expired(arg.file) \subseteq arg.file.targets
  BY DEF Expired
<1>4. TypeOK'
  BY <1>1, <1>2, <1>3, ArgType
     DEF FinishLoad, TypeInv, TypeOK, Done, Ends, Callbacks, Arg
<1>5. Control'
  BY <1>1, <1>2, ArgType
     DEF FinishLoad, TypeInv, Control, Done, Ends, Expired, maintenance_has_expired
<1> QED BY <1>4, <1>5 DEF TypeInv

\* load_config() and resolve_expired_maintenance_on_startup()
LEMMA StartKeeps == ASSUME TypeInv, Start PROVE TypeInv'
<1>1. mem' = disk /\ clock' = clock /\ up' = TRUE
      /\ left = {} /\ callback = "none" /\ unsaved = FALSE
  BY DEF Start, TypeInv, TypeOK, Control
<1>2. UNCHANGED work \/ Ends("resolve", Expired(disk), Nothing)
  BY DEF Start
<1>3. TypeOK'
  BY <1>1, <1>2, ArgType DEF Start, TypeInv, TypeOK, Ends, Callbacks, work, Expired, Arg
<1>4. Control'
  BY <1>1, <1>2, ArgType
     DEF TypeInv, Control, Ends, work, Expired, maintenance_has_expired
<1> QED BY <1>3, <1>4 DEF TypeInv

LEMMA TypeStep == TypeInv /\ [Next]_vars => TypeInv'
<1> SUFFICES ASSUME TypeInv, [Next]_vars PROVE TypeInv'
  OBVIOUS
<1>1. ASSUME NEW k \in Keys, RemoveSelected(k) PROVE TypeInv'
  <2>1. Enabled(mem) \intersect {k} \in SUBSET Enabled(mem) /\ Change({k}, {}) \in Arg
        /\ Change({k}, {}).drop = {k} /\ Change({k}, {}).add = {}
    BY <1>1, ArgType
  <2> QED BY <1>1, <2>1, EndsKeeps DEF RemoveSelected, Free, Callbacks
<1>2. ASSUME NEW k \in Keys, EndSelected(k) PROVE TypeInv'
  <2>1. {k} \in SUBSET Enabled(mem)
    BY <1>2 DEF EndSelected
  <2> QED BY <1>2, <2>1, ArgType, EndsKeeps DEF EndSelected, Free, Callbacks
<1>3. CASE PollExpiry
  <2>1. Expired(mem) \in SUBSET Enabled(mem)
    BY DEF Expired, Enabled, maintenance_has_expired
  <2> QED BY <1>3, <2>1, ArgType, EndsKeeps DEF PollExpiry, Free, Callbacks
<1>4. ASSUME NEW k \in Keys, AddTarget(k) PROVE TypeInv'
  <2>1. /\ {} \in SUBSET Enabled(mem) /\ Change({}, {k}) \in Arg
        /\ Change({}, {k}).drop = {} /\ Change({}, {k}).add = {k}
    BY <1>4, ArgType
  <2> QED BY <1>4, <2>1, EndsKeeps DEF AddTarget, Free, Callbacks
<1>5. ASSUME NEW k \in Keys, NEW to \in Keys, EditTarget(k, to) PROVE TypeInv'
  <2>1. /\ EndedByEdit(k) \in SUBSET Enabled(mem) /\ Change({k}, {to}) \in Arg
        /\ Change({k}, {to}).drop = {k} /\ Change({k}, {to}).add = {to}
        /\ k \in Active(mem) => k \in EndedByEdit(k)
    BY <1>5, ArgType DEF EndedByEdit, Active, Enabled, is_maintenance_active
  <2> QED BY <1>5, <2>1, EndsKeeps DEF EditTarget, Free, Callbacks
<1>6. ASSUME NEW file \in Files, LoadHostList(file) PROVE TypeInv'
  <2>1. /\ Enabled(mem) \in SUBSET Enabled(mem) /\ [Nothing EXCEPT !.file = file] \in Arg
        /\ [Nothing EXCEPT !.file = file].drop = {} /\ [Nothing EXCEPT !.file = file].add = {}
    BY ArgType, MaintenanceAssumption
  <2> QED BY <1>6, <2>1, EndsKeeps DEF LoadHostList, Free, Callbacks
<1>7. ASSUME NEW backup \in Backups, NEW merge \in BOOLEAN, RestoreTargets(backup, merge)
      PROVE  TypeInv'
  <2>1. Restored(backup, merge) \in Tables
    BY BareType, MaintenanceAssumption DEF Restored, TypeInv, TypeOK, Tables
  <2> QED BY <1>7, <2>1 DEF RestoreTargets, TypeInv, TypeOK, Control, Free, work
<1>8. CASE SaveConfig \/ Exit \/ FinishResolve
  <2>1. disk' \in Tables /\ flaws' \in 0 .. MaxFlaws
    BY <1>8, SaveType DEF SaveConfig, Exit, FinishResolve, TypeInv
  <2>2. UNCHANGED work \/ Done
    BY <1>8 DEF SaveConfig, Exit, FinishResolve
  <2>3. /\ callback' \in Callbacks /\ left' \subseteq mem.targets /\ unsaved' \in BOOLEAN
        /\ arg' \in Arg
    BY <2>2, ArgType DEF work, Done, TypeInv, TypeOK, Callbacks, Arg
  <2>4. up' \in BOOLEAN /\ UNCHANGED <<clock, mem, events, opened, kills>>
    BY <1>8 DEF SaveConfig, Exit, FinishResolve, TypeInv, TypeOK
  <2>5. TypeOK'
    BY <2>1, <2>3, <2>4 DEF TypeInv, TypeOK, Arg
  <2>6. Control'
    BY <1>8, ArgType
       DEF SaveConfig, Exit, FinishResolve, TypeInv, Control, Free, work, Done, Active, Enabled,
           is_maintenance_active
  <2> QED BY <2>5, <2>6 DEF TypeInv
<1>9. CASE Tick
  <2>1. clock' \in Time /\ callback = "none" /\ left = {}
    BY <1>9, MaintenanceAssumption DEF Tick, TypeInv, TypeOK, Control, Time
  <2>2. TypeOK'
    BY <1>9, <2>1 DEF Tick, TypeInv, TypeOK, work
  <2>3. Control'
    BY <1>9, <2>1 DEF Tick, TypeInv, Control, work
  <2> QED BY <2>2, <2>3 DEF TypeInv
<1>10. CASE Kill \/ KillAmid
  <2>1. kills' \in 0 .. MaxKills /\ flaws' \in 0 .. MaxFlaws
    BY <1>10, MaintenanceAssumption DEF Kill, KillAmid, TypeInv, TypeOK
  <2>2. UNCHANGED work \/ Done
    BY <1>10 DEF Kill, KillAmid
  <2>3. /\ callback' \in Callbacks /\ left' \subseteq mem.targets /\ unsaved' \in BOOLEAN
        /\ arg' \in Arg
    BY <2>2, ArgType DEF work, Done, TypeInv, TypeOK, Callbacks, Arg
  <2>4. up' \in BOOLEAN /\ UNCHANGED <<clock, mem, disk, events, opened>>
    BY <1>10 DEF Kill, KillAmid
  <2>5. TypeOK'
    BY <2>1, <2>3, <2>4 DEF TypeInv, TypeOK, Arg
  <2>6. Control'
    BY <1>10, ArgType
       DEF Kill, KillAmid, TypeInv, Control, Free, work, Done, Active, Enabled,
           is_maintenance_active
  <2> QED BY <2>5, <2>6 DEF TypeInv
<1>11. CASE UNCHANGED vars
  BY <1>11
     DEF vars, TypeInv, TypeOK, Control, Active, Enabled, is_maintenance_active
<1> QED BY <1>1, <1>2, <1>3, <1>4, <1>5, <1>6, <1>7, <1>8, <1>9, <1>10, <1>11, BeginKeeps,
           EndWindowKeeps, SaveAfterEventKeeps, FinishChangeKeeps, FinishLoadKeeps, StartKeeps
        DEF Next, User, Go

\* Every variable keeps its type, and a callback only ends windows of targets that are
\* still in the table.
THEOREM MaintenanceTypes == Spec => []TypeOK
<1>1. TypeInv => TypeOK
  BY DEF TypeInv
<1> QED BY <1>1, TypeInit, TypeStep, PTL DEF Spec

--------------------------------------------------------------------------------
NoListWindows == \A file \in Files, k \in Keys : file.window[k] = NoWindow

(***************************************************************************)
(* While no write was refused and no callback killed, an active window is   *)
(* the last its history opened: of the table in memory while the process    *)
(* runs, of the file while it does not.  The file is behind only between an *)
(* event and its save; otherwise its active windows are those in memory.    *)
(* Only configured services have windows, so none comes back with a service *)
(* added, or restored from a backup.                                        *)
(***************************************************************************)
Windowless ==
    /\ \A k \in Keys : k \notin mem.targets => mem.window[k] = NoWindow
    /\ \A k \in Keys : arg.file.window[k] = NoWindow
    /\ callback = "remove" => arg.add = {}

OpenInv ==
    flaws = 0 =>
        /\ up => \A k \in Active(mem) : OpenSince(k, mem.window[k])
        /\ ~up => \A k \in Active(disk) : OpenSince(k, disk.window[k])
        /\ up /\ ~unsaved => \A k \in Active(disk) :
                                 k \in mem.targets /\ mem.window[k] = disk.window[k]

DiskWindowless == \A k \in Keys : k \notin disk.targets => disk.window[k] = NoWindow

AuditInv == Windowless /\ DiskWindowless /\ OpenInv

\* An event of another service leaves what was open open; a start opens its window.
LEMMA EventFacts ==
    ASSUME events \in Seq(Events), NEW e \in Events, events' = Append(events, e),
           NEW k \in Keys, NEW w
    PROVE  /\ OpenSince(k, w) /\ e.key # k => OpenSince(k, w)'
           /\ /\ e.key = k /\ e.kind = MAINTENANCE_STARTED
              /\ e.at = Starts(w) /\ e.id = Id(w)
              => OpenSince(k, w)'
<1>1. /\ Len(events) \in Nat /\ DOMAIN events = 1 .. Len(events)
      /\ DOMAIN events' = 1 .. Len(events) + 1
      /\ \A i \in DOMAIN events : events'[i] = events[i]
      /\ events'[Len(events) + 1] = e
  OBVIOUS
<1>2. \A i \in DOMAIN events' : i \in DOMAIN events \/ i = Len(events) + 1
  BY <1>1
<1>3. ASSUME OpenSince(k, w), e.key # k PROVE OpenSince(k, w)'
  <2>1. PICK i \in DOMAIN events :
            /\ LastOf(k, i) /\ events[i].kind = MAINTENANCE_STARTED
            /\ events[i].at = Starts(w) /\ events[i].id = Id(w)
    BY <1>3 DEF OpenSince
  <2>2. i \in DOMAIN events' /\ events'[i] = events[i]
    BY <1>1
  <2>3. LastOf(k, i)'
    BY <1>1, <1>2, <1>3, <2>1, <2>2 DEF LastOf
  <2> QED BY <2>1, <2>2, <2>3 DEF OpenSince
<1>4. ASSUME e.key = k, e.kind = MAINTENANCE_STARTED, e.at = Starts(w), e.id = Id(w)
      PROVE  OpenSince(k, w)'
  <2>1. PICK n \in DOMAIN events' : n = Len(events) + 1
    BY <1>1
  <2>2. LastOf(k, n)'
    BY <1>1, <1>2, <1>4, <2>1 DEF LastOf
  <2> QED BY <1>1, <1>4, <2>1, <2>2 DEF OpenSince
<1> QED BY <1>3, <1>4

LEMMA AuditInit == NoListWindows /\ Init => AuditInv
<1> SUFFICES ASSUME Init PROVE AuditInv
  OBVIOUS
<1>1. PICK S \in SUBSET Keys : mem = Bare(S)
  BY DEF Init
<1>2. \A k \in Keys : mem.window[k] = NoWindow /\ disk.window[k] = NoWindow
  BY <1>1, BareType DEF Init
<1>3. \A k \in Keys : arg.file.window[k] = NoWindow
  BY BareType DEF Init, Nothing, Change
<1>4. mem.targets \subseteq Keys /\ disk.targets \subseteq Keys
  BY <1>1, BareType DEF Init
<1> QED BY <1>2, <1>3, <1>4
        DEF Init, AuditInv, Windowless, DiskWindowless, OpenInv, Active, is_maintenance_active

\* The steps that begin a callback, and those that only let time pass.
LEMMA AuditSame ==
    ASSUME TypeInv, AuditInv, UNCHANGED <<mem, disk, events, up, flaws>>, unsaved' = unsaved,
           clock' \in Time, clock' >= clock,
           \A k \in Keys : arg'.file.window[k] = NoWindow,
           callback' = "remove" => arg'.add = {}
    PROVE  AuditInv'
<1>1. \A k \in Keys : /\ OpenSince(k, mem.window[k])' = OpenSince(k, mem.window[k])
                      /\ OpenSince(k, disk.window[k])' = OpenSince(k, disk.window[k])
  BY DEF OpenSince, LastOf
<1>2. Active(mem)' \subseteq Active(mem) /\ Active(disk)' \subseteq Active(disk)
  <2>1. \A w \in Windows : clock' < Until(w) => clock < Until(w)
    BY WindowFacts DEF TypeInv, TypeOK, Time, Manual
  <2>2. \A k \in Keys : /\ mem.window[k] \in Windows \union {NoWindow}
                        /\ disk.window[k] \in Windows \union {NoWindow}
    BY DEF TypeInv, TypeOK, Tables
  <2>3. mem.targets \subseteq Keys /\ disk.targets \subseteq Keys
    BY DEF TypeInv, TypeOK, Tables
  <2> QED BY <2>1, <2>2, <2>3 DEF Active, is_maintenance_active
<1>3. mem.targets \subseteq Keys /\ disk.targets \subseteq Keys
  BY DEF TypeInv, TypeOK, Tables
<1>4. OpenInv'
  <2>1. Active(mem)' \subseteq Keys /\ Active(disk)' \subseteq Keys
    BY <1>3 DEF Active
  <2> QED BY <1>1, <1>2, <2>1 DEF AuditInv, OpenInv
<1>5. Windowless' /\ DiskWindowless'
  BY DEF AuditInv, Windowless, DiskWindowless
<1> QED BY <1>4, <1>5 DEF AuditInv

LEMMA AuditBegin ==
    ASSUME TypeInv, AuditInv, NEW k \in Keys, NEW until \in 1 .. Manual, Begin(k, until)
    PROVE  AuditInv'
<1> DEFINE w == <<clock, until, opened + 1>>
           e == [kind |-> MAINTENANCE_STARTED, key |-> k, at |-> clock, id |-> Id(w)]
<1>1. w \in Windows
  BY MaintenanceAssumption DEF TypeInv, TypeOK, Begin, Windows
<1>2. mem' = With(mem, k, w) /\ (flaws' = 0 => flaws = 0 /\ events' = Append(events, e))
  BY DEF Begin, Insert, TypeInv, TypeOK
<1>3. Starts(w) = clock /\ e \in Events
  BY <1>1, WindowFacts DEF Starts, Events, TypeInv, TypeOK
<1>4. e.key = k /\ e.kind = MAINTENANCE_STARTED /\ e.at = Starts(w) /\ e.id = Id(w)
  BY <1>3
<1> HIDE DEF w, e
<1>5. /\ mem'.targets = mem.targets /\ mem.targets \subseteq Keys
      /\ \A l \in Keys : mem'.window[l] = IF l = k THEN w ELSE mem.window[l]
  <2>1. mem \in Tables /\ mem.targets \subseteq Keys
    BY DEF TypeInv, TypeOK, Tables
  <2> QED BY <1>1, <1>2, <2>1, WithType
<1>6. k \in mem.targets /\ up /\ up' = up /\ unsaved' = TRUE
      /\ UNCHANGED <<clock, disk, arg>> /\ callback' = "change"
  BY DEF Begin, Free
<1>7. ASSUME flaws' = 0, NEW l \in Active(mem)' PROVE OpenSince(l, mem.window[l])'
  <2>1. l \in Keys /\ (l # k => l \in Active(mem))
    BY <1>5, <1>6 DEF Active, is_maintenance_active
  <2>2. PICK x : x = mem'.window[l]
    OBVIOUS
  <2>3. l # k => OpenSince(l, x)
    BY <1>2, <1>5, <1>6, <1>7, <2>1, <2>2 DEF AuditInv, OpenInv
  <2>4. l = k => x = w
    BY <1>5, <2>1, <2>2
  <2>5. events \in Seq(Events)
    BY DEF TypeInv, TypeOK
  <2>6. OpenSince(l, x)'
    BY <1>2, <1>3, <1>4, <1>7, <2>1, <2>3, <2>4, <2>5, EventFacts
  <2> QED BY <2>2, <2>6 DEF OpenSince
<1>8. Windowless' /\ DiskWindowless'
  BY <1>5, <1>6 DEF AuditInv, Windowless, DiskWindowless
<1> QED BY <1>6, <1>7, <1>8 DEF AuditInv, OpenInv

LEMMA AuditEndWindow ==
    ASSUME TypeInv, AuditInv, NEW k \in Keys, EndWindow(k)
    PROVE  AuditInv'
<1> DEFINE e == [kind |-> MAINTENANCE_ENDED, key |-> k, at |-> EndedAt(mem.window[k]),
                 id |-> Id(mem.window[k])]
<1>1. k \in left /\ mem.window[k] \in Windows /\ callback # "none" /\ up
  BY DEF EndWindow, TypeInv, TypeOK, Control, Tables
<1>2. EndedAt(mem.window[k]) \in Time
  BY <1>1, WindowFacts, MaintenanceAssumption DEF EndedAt, TypeInv, TypeOK, Control, Time
<1>3. e \in Events /\ e.key = k
  BY <1>1, <1>2, WindowFacts DEF Events
<1>4. flaws' = 0 => flaws = 0 /\ events' = Append(events, e)
  BY DEF EndWindow, Insert, TypeInv, TypeOK
<1> HIDE DEF e
<1>5. /\ mem'.targets = mem.targets /\ mem.targets \subseteq Keys
      /\ \A l \in Keys : mem'.window[l] = IF l = k THEN NoWindow ELSE mem.window[l]
  BY WithType DEF EndWindow, TypeInv, TypeOK, Tables
<1>6. unsaved' = TRUE /\ UNCHANGED <<clock, disk, up, callback, arg>>
  BY DEF EndWindow
<1>7. ASSUME flaws' = 0, NEW l \in Active(mem)' PROVE OpenSince(l, mem.window[l])'
  <2>1. l \in Keys /\ l # k /\ l \in Active(mem)
    BY <1>5, <1>6 DEF Active, is_maintenance_active
  <2>2. PICK x : x = mem'.window[l]
    OBVIOUS
  <2>3. OpenSince(l, x)
    BY <1>1, <1>4, <1>5, <1>7, <2>1, <2>2 DEF AuditInv, OpenInv
  <2>4. events \in Seq(Events)
    BY DEF TypeInv, TypeOK
  <2>5. OpenSince(l, x)'
    BY <1>3, <1>4, <1>7, <2>1, <2>3, <2>4, EventFacts
  <2> QED BY <2>2, <2>5 DEF OpenSince
<1>8. Windowless' /\ DiskWindowless'
  BY <1>1, <1>5, <1>6 DEF AuditInv, Windowless, DiskWindowless
<1> QED BY <1>1, <1>6, <1>7, <1>8 DEF AuditInv, OpenInv

\* The file catches up: after an event, at the end of resolving, with any other change
\* of the configuration, and at exit.
LEMMA AuditSave ==
    ASSUME TypeInv, AuditInv, SaveAfterEvent \/ FinishResolve \/ SaveConfig \/ Exit
    PROVE  AuditInv'
<1>1. /\ UNCHANGED <<clock, mem, events>> /\ up
      /\ flaws' = 0 => flaws = 0 /\ disk' = mem
      /\ disk' \in {mem, disk}
  BY DEF SaveAfterEvent, FinishResolve, SaveConfig, Exit, Save, Free, TypeInv, TypeOK
<1>2. (arg' = arg /\ callback' = callback) \/ Done
  BY DEF SaveAfterEvent, FinishResolve, SaveConfig, Exit, work
<1>3. Windowless' /\ DiskWindowless'
  BY <1>1, <1>2, ArgType, BareType
     DEF AuditInv, Windowless, DiskWindowless, Done, Nothing, Change
<1>4. ASSUME flaws' = 0 PROVE \A k \in Active(mem) : OpenSince(k, mem.window[k])'
  BY <1>1, <1>4 DEF AuditInv, OpenInv, OpenSince, LastOf
<1>5. flaws' = 0 => /\ Active(mem)' = Active(mem) /\ Active(disk)' = Active(mem)
                    /\ disk' = mem /\ mem' = mem
  BY <1>1 DEF Active
<1>6. Active(mem) \subseteq mem.targets
  BY DEF Active
<1>7. OpenInv'
  BY <1>4, <1>5, <1>6 DEF OpenInv
<1> QED BY <1>3, <1>7 DEF AuditInv

\* remove_selected() and add_target(): the window of a service dropped has ended, or has
\* expired, so that none is active which was not before.
LEMMA AuditFinishChange ==
    ASSUME TypeInv, AuditInv, FinishChange
    PROVE  AuditInv'
<1>1. /\ arg.drop \in SUBSET Keys /\ arg.add \in SUBSET Keys /\ mem \in Tables
      /\ mem.targets \subseteq Keys
  BY DEF TypeInv, TypeOK, Tables
<1>2. mem'.targets = (mem.targets \ arg.drop) \union arg.add
  <2>1. Rewritten(mem, arg.drop, arg.add).targets = (mem.targets \ arg.drop) \union arg.add
    BY <1>1, RewrittenType
  <2> QED BY <2>1 DEF FinishChange
<1>3. ASSUME NEW k \in Keys
      PROVE  \/ mem'.window[k] = NoWindow
             \/ k \notin arg.add /\ k \notin arg.drop /\ mem'.window[k] = mem.window[k]
             \/ k \in arg.add /\ \E d \in arg.drop : mem'.window[k] = mem.window[d]
  BY <1>1, RewrittenWindow DEF FinishChange
<1>4. UNCHANGED <<clock, disk, events, up, arg, flaws>> /\ unsaved' = TRUE /\ up
      /\ callback' = "change" /\ callback \in {"remove", "edit"} /\ left = {}
  BY DEF FinishChange
<1>5. ASSUME NEW k \in Active(mem)'
      PROVE  k \in Active(mem) /\ mem'.window[k] = mem.window[k]
  <2>1. k \in mem'.targets /\ is_maintenance_active(mem'.window[k], clock)
    BY <1>4, <1>5 DEF Active
  <2>2. k \in Keys /\ mem'.window[k] # NoWindow
    BY <1>1, <1>2, <2>1 DEF is_maintenance_active
  <2>3. ASSUME k \in arg.add, NEW d \in arg.drop, mem'.window[k] = mem.window[d]
        PROVE  FALSE
    <3>1. d \in Active(mem)
      BY <1>1, <2>1, <2>2, <2>3 DEF Active, AuditInv, Windowless
    <3>2. callback = "edit"
      BY <1>4, <2>3 DEF AuditInv, Windowless
    <3> QED BY <1>4, <2>3, <3>1, <3>2 DEF TypeInv, Control
  <2> QED BY <1>2, <1>3, <2>1, <2>2, <2>3 DEF Active
<1>6. \A k \in Active(mem)' : flaws = 0 => OpenSince(k, mem.window[k])'
  BY <1>4, <1>5 DEF AuditInv, OpenInv, OpenSince, LastOf
<1>7. Windowless' /\ DiskWindowless'
  <2>1. ASSUME NEW k \in Keys, k \notin mem'.targets PROVE mem'.window[k] = NoWindow
    BY <1>2, <1>3, <2>1 DEF AuditInv, Windowless
  <2> QED BY <1>4, <2>1 DEF AuditInv, Windowless, DiskWindowless
<1> QED BY <1>4, <1>6, <1>7 DEF AuditInv, OpenInv

\* load_host_list(): by then no window is left, in memory or in the file.
LEMMA AuditFinishLoad ==
    ASSUME TypeInv, AuditInv, FinishLoad
    PROVE  AuditInv'
<1>1. /\ UNCHANGED <<clock, disk, events, up, flaws>> /\ mem' = arg.file /\ up
      /\ callback = "load" /\ left = {} /\ ~unsaved
      /\ Done \/ Ends("resolve", Expired(arg.file), Nothing)
  BY DEF FinishLoad
<1>2. \A k \in Keys : mem'.window[k] = NoWindow
  BY <1>1 DEF AuditInv, Windowless
<1>3. arg' = Nothing /\ callback' # "remove"
  BY <1>1 DEF Done, Ends
<1>4. Windowless' /\ DiskWindowless'
  BY <1>1, <1>2, <1>3, BareType DEF AuditInv, Windowless, DiskWindowless, Nothing, Change
<1>5. Active(mem)' = {}
  <2>1. mem'.targets \subseteq Keys
    BY <1>1 DEF TypeInv, TypeOK, Tables
  <2> QED BY <1>2, <2>1 DEF Active, is_maintenance_active
<1>6. flaws = 0 => Active(disk)' = {}
  <2>1. ASSUME flaws = 0, NEW k \in Active(disk) PROVE FALSE
    BY <1>1, <2>1 DEF AuditInv, OpenInv, Active, is_maintenance_active, Enabled, TypeInv, Control
  <2> QED BY <1>1, <2>1 DEF Active
<1> QED BY <1>1, <1>4, <1>5, <1>6 DEF AuditInv, OpenInv

\* restore_settings_backup(): the file and the table at once; a service merged in has no
\* window, and a replacement leaves none.
LEMMA AuditRestore ==
    ASSUME TypeInv, AuditInv, NEW backup \in Backups, NEW merge \in BOOLEAN,
           RestoreTargets(backup, merge)
    PROVE  AuditInv'
<1>1. /\ UNCHANGED <<clock, events, up, callback, unsaved, arg, flaws>> /\ up
      /\ mem' = Restored(backup, merge) /\ disk' = mem'
  BY DEF RestoreTargets, work, Free
<1>2. backup \in SUBSET Keys /\ mem \in Tables
  BY MaintenanceAssumption DEF TypeInv, TypeOK
<1>3. \/ \A k \in Keys : mem'.window[k] = NoWindow
      \/ mem'.targets = mem.targets \union backup /\ mem'.window = mem.window
  BY <1>1, <1>2, BareType DEF Restored, Tables
<1>4. mem'.targets \subseteq Keys
  BY <1>1, <1>2, BareType DEF Restored, Tables
<1>5. \A k \in Active(mem)' : k \in Active(mem) /\ mem'.window[k] = mem.window[k]
  BY <1>1, <1>3, <1>4 DEF Active, is_maintenance_active, AuditInv, Windowless
<1>6. Windowless' /\ DiskWindowless'
  BY <1>1, <1>3 DEF AuditInv, Windowless, DiskWindowless
<1>7. OpenInv'
  <2>1. \A k \in Active(mem)' : flaws = 0 => OpenSince(k, mem.window[k])'
    BY <1>1, <1>5 DEF AuditInv, OpenInv, OpenSince, LastOf
  <2>2. Active(disk)' = Active(mem)' /\ Active(mem)' \subseteq mem'.targets
    BY <1>1 DEF Active
  <2> QED BY <1>1, <2>1, <2>2 DEF OpenInv
<1> QED BY <1>6, <1>7 DEF AuditInv

\* The process ends between two callbacks, and starts again on the file.
LEMMA AuditRestart ==
    ASSUME TypeInv, AuditInv, Kill \/ KillAmid \/ Start
    PROVE  AuditInv'
<1>1. CASE Kill
  <2>1. UNCHANGED <<clock, mem, disk, events, callback, arg, flaws>> /\ up /\ ~up' /\ ~unsaved
    BY <1>1 DEF Kill, Free, work, TypeInv, Control
  <2>2. ASSUME flaws = 0, NEW k \in Active(disk)' PROVE OpenSince(k, disk.window[k])'
    <3>1. k \in Active(disk)
      BY <2>1, <2>2 DEF Active
    <3>2. k \in Active(mem) /\ mem.window[k] = disk.window[k]
      BY <2>1, <2>2, <3>1 DEF AuditInv, OpenInv, Active
    <3>3. OpenSince(k, disk.window[k])
      BY <2>1, <2>2, <3>2 DEF AuditInv, OpenInv
    <3> QED BY <2>1, <3>3 DEF OpenSince, LastOf
  <2> QED BY <2>1, <2>2 DEF AuditInv, OpenInv, Windowless, DiskWindowless
<1>2. CASE KillAmid
  <2>1. /\ flaws' # 0 /\ UNCHANGED <<mem, disk>> /\ arg' = Nothing /\ callback' = "none"
    BY <1>2 DEF KillAmid, Done, TypeInv, TypeOK
  <2> QED BY <2>1, BareType
          DEF AuditInv, OpenInv, Windowless, DiskWindowless, Nothing, Change
<1>3. CASE Start
  <2>1. /\ UNCHANGED <<clock, disk, events, flaws>> /\ ~up /\ up' /\ mem' = disk
        /\ (arg' = arg /\ callback' = callback) \/ (arg' = Nothing /\ callback' = "resolve")
    BY <1>3 DEF Start, work, Ends
  <2>2. ASSUME flaws = 0, NEW k \in Active(disk) PROVE OpenSince(k, disk.window[k])'
    BY <2>1, <2>2 DEF AuditInv, OpenInv, OpenSince, LastOf
  <2>3. /\ Active(mem)' = Active(disk) /\ Active(disk)' = Active(disk)
        /\ Active(disk) \subseteq disk.targets
    BY <2>1 DEF Active
  <2>4. Windowless' /\ DiskWindowless'
    BY <2>1, BareType DEF AuditInv, Windowless, DiskWindowless, Nothing, Change
  <2> QED BY <2>1, <2>2, <2>3, <2>4 DEF AuditInv, OpenInv
<1> QED BY <1>1, <1>2, <1>3

LEMMA AuditStep == NoListWindows /\ TypeInv /\ AuditInv /\ [Next]_vars => AuditInv'
<1> SUFFICES ASSUME NoListWindows, TypeInv, AuditInv, [Next]_vars PROVE AuditInv'
  OBVIOUS
<1>1. clock \in Time /\ clock >= clock /\ \A k \in Keys : arg.file.window[k] = NoWindow
  BY DEF TypeInv, TypeOK, Time, AuditInv, Windowless
<1>2. ASSUME Free, UNCHANGED <<clock, mem, disk, events, up, flaws>>, NEW name, NEW S, NEW a,
             Ends(name, S, a), \A k \in Keys : a.file.window[k] = NoWindow,
             name = "remove" => a.add = {}
      PROVE  AuditInv'
  BY <1>1, <1>2, AuditSame DEF Ends, Free, TypeInv, TypeOK, Control
<1>3. \A S, T : \A k \in Keys : Change(S, T).file.window[k] = NoWindow
  BY BareType DEF Change
<1>4. ASSUME NEW k \in Keys, AddTarget(k) \/ EndSelected(k) \/ RemoveSelected(k)
      PROVE  AuditInv'
  BY <1>2, <1>3, <1>4, ArgType DEF AddTarget, EndSelected, RemoveSelected, Nothing
<1>5. ASSUME NEW k \in Keys, NEW to \in Keys, EditTarget(k, to) PROVE AuditInv'
  BY <1>2, <1>3, <1>5 DEF EditTarget
<1>6. CASE PollExpiry
  BY <1>2, <1>3, <1>6 DEF PollExpiry, Nothing
<1>7. ASSUME NEW file \in Files, LoadHostList(file) PROVE AuditInv'
  <2>1. [Nothing EXCEPT !.file = file].file = file
    BY DEF Nothing, Change
  <2> QED BY <1>2, <1>7, <2>1 DEF LoadHostList, NoListWindows
<1>8. CASE Tick
  <2>1. clock' \in Time /\ clock' >= clock
    BY <1>8, MaintenanceAssumption DEF Tick, TypeInv, TypeOK, Time
  <2> QED BY <1>1, <1>8, <2>1, AuditSame DEF Tick, work
<1>9. CASE UNCHANGED vars
  BY <1>1, <1>9, AuditSame DEF vars, AuditInv, Windowless
<1> QED BY <1>4, <1>5, <1>6, <1>7, <1>8, <1>9, AuditBegin, AuditEndWindow, AuditSave,
           AuditFinishChange, AuditFinishLoad, AuditRestore, AuditRestart
        DEF Next, User, Go

\* Event History and the table agree: an active window is the last one the history has
\* opened for its service, whatever was edited, loaded, restored or restarted, unless a
\* write was refused or a callback killed.
THEOREM HistoryAgrees == NoListWindows /\ Spec => []ActiveIsOpen
<1>1. AuditInv => ActiveIsOpen
  BY DEF AuditInv, OpenInv, ActiveIsOpen
<1>2. NoListWindows /\ Init => TypeInv /\ AuditInv
  BY TypeInit, AuditInit
<1>3. NoListWindows /\ (TypeInv /\ AuditInv) /\ [Next]_vars => (TypeInv /\ AuditInv)'
  BY TypeStep, AuditStep
<1> SUFFICES ASSUME NoListWindows PROVE Spec => []ActiveIsOpen
  OBVIOUS
<1>4. Init => TypeInv /\ AuditInv
  BY <1>2
<1>5. (TypeInv /\ AuditInv) /\ [Next]_vars => (TypeInv /\ AuditInv)'
  BY <1>3
<1> QED BY <1>1, <1>4, <1>5, PTL DEF Spec

--------------------------------------------------------------------------------
(***************************************************************************)
(* Each opening is the window of one service at most, in memory and in the  *)
(* file.  Where it still is, and comes back from, its end has been recorded *)
(* no more often than something went wrong; once it is gone, once more.     *)
(***************************************************************************)
Holds(table, k, n) == table.window[k] # NoWindow /\ Id(table.window[k]) = n

OwnIds(table) ==
    \A k \in Keys, n \in 1 .. MaxWindows : Holds(table, k, n) =>
        n <= opened /\ \A l \in Keys : Holds(table, l, n) => l = k

CountInv ==
    \A n \in 1 .. opened :
        /\ EndsOf(n) <= 1 + flaws
        /\ up /\ (\E k \in Keys : Holds(mem, k, n)) => EndsOf(n) <= flaws
        /\ ~unsaved /\ (\E k \in Keys : Holds(disk, k, n)) => EndsOf(n) <= flaws

OnceInv ==
    /\ \A i \in DOMAIN events : events[i].id <= opened
    /\ OwnIds(mem) /\ OwnIds(disk) /\ CountInv

\* One more event: one more end of its opening, and of no other.
LEMMA EndsFacts ==
    ASSUME events \in Seq(Events), NEW n
    PROVE  /\ EndsOf(n) \in Nat
           /\ (\A i \in DOMAIN events : events[i].id # n) => EndsOf(n) = 0
           /\ \A e \in Events : events' = Append(events, e) =>
                 /\ EndsOf(n)' \in Nat
                 /\ e.kind = MAINTENANCE_ENDED /\ e.id = n => EndsOf(n)' = EndsOf(n) + 1
                 /\ e.kind # MAINTENANCE_ENDED \/ e.id # n => EndsOf(n)' = EndsOf(n)
<1> DEFINE S == {i \in DOMAIN events : events[i].kind = MAINTENANCE_ENDED /\ events[i].id = n}
<1>1. Len(events) \in Nat /\ DOMAIN events = 1 .. Len(events)
  OBVIOUS
<1>2. IsFiniteSet(S) /\ Cardinality(S) \in Nat /\ EndsOf(n) = Cardinality(S)
  <2>1. IsFiniteSet(1 .. Len(events))
    BY <1>1, FS_Interval
  <2>2. S \subseteq 1 .. Len(events)
    BY <1>1
  <2> HIDE DEF S
  <2>3. IsFiniteSet(S) /\ Cardinality(S) \in Nat
    BY <2>1, <2>2, FS_Subset, FS_CardinalityType
  <2> QED BY <2>3 DEF EndsOf, S
<1>3. (\A i \in DOMAIN events : events[i].id # n) => EndsOf(n) = 0
  <2>1. (\A i \in DOMAIN events : events[i].id # n) => S = {}
    OBVIOUS
  <2> QED BY <1>2, <2>1, FS_EmptySet
<1>4. ASSUME NEW e \in Events, events' = Append(events, e)
      PROVE  /\ EndsOf(n)' \in Nat
             /\ e.kind = MAINTENANCE_ENDED /\ e.id = n => EndsOf(n)' = EndsOf(n) + 1
             /\ e.kind # MAINTENANCE_ENDED \/ e.id # n => EndsOf(n)' = EndsOf(n)
  <2> DEFINE T == {i \in DOMAIN events' :
                      events'[i].kind = MAINTENANCE_ENDED /\ events'[i].id = n}
  <2>1. /\ DOMAIN events' = 1 .. Len(events) + 1
        /\ \A i \in 1 .. Len(events) : events'[i] = events[i]
        /\ events'[Len(events) + 1] = e
    BY <1>4
  <2>2. EndsOf(n)' = Cardinality(T)
    BY DEF EndsOf
  <2>3. CASE e.kind = MAINTENANCE_ENDED /\ e.id = n
    <3>1. T = S \union {Len(events) + 1} /\ Len(events) + 1 \notin S
      BY <1>1, <2>1, <2>3
    <3> HIDE DEF S, T
    <3>2. Cardinality(T) = Cardinality(S) + 1
      BY <1>2, <3>1, FS_AddElement
    <3> QED BY <1>2, <2>2, <2>3, <3>2
  <2>4. CASE e.kind # MAINTENANCE_ENDED \/ e.id # n
    <3>1. T = S
      BY <1>1, <2>1, <2>4
    <3> QED BY <1>2, <2>2, <2>4, <3>1
  <2> QED BY <2>3, <2>4
<1> QED BY <1>2, <1>3, <1>4

\* The openings whose end is not to be recorded again without a flaw: those in memory, and
\* those in a file that has caught up.
Kept(n) ==
    \/ up /\ \E k \in Keys : Holds(mem, k, n)
    \/ ~unsaved /\ \E k \in Keys : Holds(disk, k, n)

\* A step that opens and records nothing, and brings back nothing unless it is a flaw.
LEMMA OnceKept ==
    ASSUME TypeInv, OnceInv, events' = events, opened' = opened,
           OwnIds(mem)', OwnIds(disk)', flaws' \in {flaws, flaws + 1},
           ASSUME flaws' = flaws, NEW n \in 1 .. opened, NEW k \in Keys,
                  (up' /\ Holds(mem, k, n)') \/ (~unsaved' /\ Holds(disk, k, n)')
           PROVE  Kept(n)
    PROVE  OnceInv'
<1>0. flaws \in Nat /\ events \in Seq(Events)
  BY DEF TypeInv, TypeOK
<1>1. ASSUME NEW n \in 1 .. opened
      PROVE  /\ EndsOf(n)' = EndsOf(n) /\ EndsOf(n) \in Nat /\ EndsOf(n) <= 1 + flaws
             /\ Kept(n) => EndsOf(n) <= flaws
  <2>1. EndsOf(n)' = EndsOf(n)
    BY DEF EndsOf
  <2> QED BY <1>0, <2>1, EndsFacts DEF OnceInv, CountInv, Kept
<1>2. ASSUME NEW n \in 1 .. opened
      PROVE  /\ EndsOf(n)' <= 1 + flaws'
             /\ up' /\ (\E k \in Keys : Holds(mem, k, n)') => EndsOf(n)' <= flaws'
             /\ ~unsaved' /\ (\E k \in Keys : Holds(disk, k, n)') => EndsOf(n)' <= flaws'
  <2>1. CASE flaws' = flaws + 1
    BY <1>0, <1>1, <2>1
  <2>2. CASE flaws' = flaws
    BY <1>0, <1>1, <2>2
  <2> QED BY <2>1, <2>2
<1>3. CountInv'
  BY <1>2 DEF CountInv
<1> QED BY <1>3 DEF OnceInv

\* Tables with the same windows, or with none.
LEMMA SameOwner ==
    ASSUME OnceInv, opened' = opened
    PROVE  /\ mem' = mem => OwnIds(mem)'
           /\ mem' = disk => OwnIds(mem)'
           /\ (\A k \in Keys : mem'.window[k] = NoWindow) => OwnIds(mem)'
           /\ mem'.window = mem.window => OwnIds(mem)'
           /\ disk' = disk => OwnIds(disk)'
           /\ disk' = mem => OwnIds(disk)'
           /\ disk' = mem' /\ OwnIds(mem)' => OwnIds(disk)'
  BY DEF OnceInv, OwnIds, Holds

LEMMA OnceInit == Init => OnceInv
<1> SUFFICES ASSUME Init PROVE OnceInv
  OBVIOUS
<1>1. \A k \in Keys : mem.window[k] = NoWindow /\ disk.window[k] = NoWindow
  BY BareType DEF Init
<1>2. opened = 0 /\ events = << >>
  BY DEF Init
<1> QED BY <1>1, <1>2 DEF OnceInv, OwnIds, Holds, CountInv

\* A new opening has no event yet, and is that of one service.
LEMMA OnceBegin ==
    ASSUME TypeInv, OnceInv, NEW k \in Keys, NEW until \in 1 .. Manual, Begin(k, until)
    PROVE  OnceInv'
<1> DEFINE w == <<clock, until, opened + 1>>
           e == [kind |-> MAINTENANCE_STARTED, key |-> k, at |-> clock, id |-> Id(w)]
<1>1. w \in Windows /\ Id(w) = opened + 1 /\ opened \in Nat /\ opened' = opened + 1
      /\ opened + 1 \in 1 .. MaxWindows /\ w # NoWindow
  BY MaintenanceAssumption DEF TypeInv, TypeOK, Begin, Windows, Id, NoWindow
<1>2. /\ mem' = With(mem, k, w) /\ disk' = disk /\ up /\ unsaved' = TRUE /\ up' = up
      /\ \/ events' = Append(events, e) /\ flaws' = flaws
         \/ events' = events /\ flaws' = flaws + 1
  BY DEF Begin, Insert, Free
<1>3. e \in Events /\ e.kind # MAINTENANCE_ENDED /\ e.id = opened + 1
  BY <1>1 DEF Events, TypeInv, TypeOK, MAINTENANCE_STARTED, MAINTENANCE_ENDED
<1> HIDE DEF w, e
<1>4. \A l \in Keys : mem'.window[l] = IF l = k THEN w ELSE mem.window[l]
  <2>1. mem \in Tables
    BY DEF TypeInv, TypeOK
  <2> QED BY <1>1, <1>2, <2>1, WithType
<1>5. flaws \in Nat /\ events \in Seq(Events)
  BY DEF TypeInv, TypeOK
<1>6. \A i \in DOMAIN events' : events'[i].id <= opened'
  <2>1. \A i \in DOMAIN events : events[i].id <= opened /\ events[i].id \in Nat
    <3>1. \A i \in DOMAIN events : events[i] \in Events
      BY <1>5
    <3> QED BY <3>1 DEF OnceInv, Events
  <2>2. events' = Append(events, e) =>
            /\ \A i \in DOMAIN events' : i \in DOMAIN events \/ i = Len(events) + 1
            /\ \A i \in DOMAIN events : events'[i] = events[i]
            /\ events'[Len(events) + 1] = e
    BY <1>5
  <2> QED BY <1>1, <1>2, <1>3, <2>1, <2>2
<1>7. OwnIds(mem)' /\ OwnIds(disk)'
  <2>1. \A l \in Keys, n \in 1 .. MaxWindows :
            Holds(mem, l, n)' => \/ l = k /\ n = opened + 1
                                 \/ l # k /\ Holds(mem, l, n) /\ n <= opened
    BY <1>1, <1>4 DEF Holds, OnceInv, OwnIds
  <2>2. OwnIds(mem)'
    BY <1>1, <2>1 DEF OnceInv, OwnIds
  <2>3. \A l \in Keys, n \in 1 .. MaxWindows : Holds(disk, l, n)' <=> Holds(disk, l, n)
    BY <1>2 DEF Holds
  <2>4. OwnIds(disk)'
    BY <1>1, <2>3 DEF OnceInv, OwnIds
  <2> QED BY <2>2, <2>4
<1>8. ASSUME NEW n \in 1 .. opened'
      PROVE  /\ EndsOf(n)' <= 1 + flaws'
             /\ (\E l \in Keys : Holds(mem, l, n)') => EndsOf(n)' <= flaws'
  <2>1. EndsOf(n)' = EndsOf(n) /\ EndsOf(n) \in Nat
    <3>1. events' = events => EndsOf(n)' = EndsOf(n)
      BY DEF EndsOf
    <3> QED BY <1>2, <1>3, <1>5, <3>1, EndsFacts
  <2>2. CASE n = opened + 1
    <3>1. \A i \in DOMAIN events : events[i].id # n
      BY <1>1, <1>5, <2>2 DEF OnceInv, Events
    <3>2. EndsOf(n) = 0
      BY <1>5, <3>1, EndsFacts
    <3> QED BY <1>2, <1>5, <2>1, <3>2
  <2>3. CASE n \in 1 .. opened
    <3>1. \A l \in Keys : Holds(mem, l, n)' => Holds(mem, l, n)
      BY <1>1, <1>4, <2>3 DEF Holds
    <3> QED BY <1>2, <1>5, <2>1, <2>3, <3>1 DEF OnceInv, CountInv
  <2> QED BY <1>1, <2>2, <2>3
<1>9. CountInv'
  BY <1>2, <1>8 DEF CountInv
<1> QED BY <1>6, <1>7, <1>9 DEF OnceInv

\* end_maintenance_for_item(): one more end of the window that leaves memory with it.
LEMMA OnceEndWindow ==
    ASSUME TypeInv, OnceInv, NEW k \in Keys, EndWindow(k)
    PROVE  OnceInv'
<1> DEFINE w == mem.window[k]
           e == [kind |-> MAINTENANCE_ENDED, key |-> k, at |-> EndedAt(w), id |-> Id(w)]
<1>1. k \in left /\ w \in Windows /\ callback # "none" /\ up
  BY DEF EndWindow, TypeInv, TypeOK, Control, Tables
<1>2. EndedAt(w) \in Time
  BY <1>1, WindowFacts, MaintenanceAssumption DEF EndedAt, TypeInv, TypeOK, Control, Time
<1>3. /\ e \in Events /\ e.kind = MAINTENANCE_ENDED /\ e.id = Id(w)
      /\ w # NoWindow /\ Id(w) \in 1 .. MaxWindows
  BY <1>1, <1>2, WindowFacts DEF Events
<1>4. /\ mem' = With(mem, k, NoWindow) /\ disk' = disk /\ unsaved' = TRUE /\ up' = up
      /\ opened' = opened
      /\ \/ events' = Append(events, e) /\ flaws' = flaws
         \/ events' = events /\ flaws' = flaws + 1
  BY DEF EndWindow, Insert
<1>5. Holds(mem, k, Id(w)) /\ Id(w) \in 1 .. opened
  BY <1>3 DEF Holds, OnceInv, OwnIds
<1> HIDE DEF w, e
<1>6. \A l \in Keys : mem'.window[l] = IF l = k THEN NoWindow ELSE mem.window[l]
  <2>1. mem \in Tables
    BY DEF TypeInv, TypeOK
  <2> QED BY <1>4, <2>1, WithType
<1>7. flaws \in Nat /\ events \in Seq(Events) /\ opened \in Nat
  BY DEF TypeInv, TypeOK
<1>8. \A i \in DOMAIN events' : events'[i].id <= opened'
  <2>1. events' = Append(events, e) =>
            /\ \A i \in DOMAIN events' : i \in DOMAIN events \/ i = Len(events) + 1
            /\ \A i \in DOMAIN events : events'[i] = events[i]
            /\ events'[Len(events) + 1] = e
    BY <1>7
  <2> QED BY <1>3, <1>4, <1>5, <1>7, <2>1 DEF OnceInv
<1>9. \A l \in Keys, n \in 1 .. MaxWindows :
          /\ Holds(mem, l, n)' => Holds(mem, l, n) /\ l # k
          /\ Holds(disk, l, n)' <=> Holds(disk, l, n)
  BY <1>4, <1>6 DEF Holds
<1>10. OwnIds(mem)' /\ OwnIds(disk)'
  BY <1>4, <1>9 DEF OnceInv, OwnIds
<1>11. ASSUME NEW n \in 1 .. opened
       PROVE  /\ EndsOf(n)' <= 1 + flaws'
              /\ (\E l \in Keys : Holds(mem, l, n)') => EndsOf(n)' <= flaws'
  <2>1. n \in 1 .. MaxWindows
    BY MaintenanceAssumption DEF TypeInv, TypeOK
  <2>2. /\ EndsOf(n) \in Nat /\ EndsOf(n) <= 1 + flaws
        /\ (\E l \in Keys : Holds(mem, l, n)) => EndsOf(n) <= flaws
    BY <1>1, <1>7, EndsFacts DEF OnceInv, CountInv
  <2>3. CASE events' = events /\ flaws' = flaws + 1
    <3>1. EndsOf(n)' = EndsOf(n)
      BY <2>3 DEF EndsOf
    <3> QED BY <1>7, <2>2, <2>3, <3>1
  <2>4. CASE events' = Append(events, e) /\ flaws' = flaws /\ n = Id(w)
    <3>1. EndsOf(n)' = EndsOf(n) + 1
      BY <1>3, <1>7, <2>4, EndsFacts
    <3>2. EndsOf(n) <= flaws
      BY <1>5, <2>2, <2>4
    <3>3. \A l \in Keys : ~Holds(mem, l, n)'
      BY <1>5, <1>9, <2>1, <2>4 DEF OnceInv, OwnIds
    <3> QED BY <1>7, <2>2, <2>4, <3>1, <3>2, <3>3
  <2>5. CASE events' = Append(events, e) /\ flaws' = flaws /\ n # Id(w)
    <3>1. EndsOf(n)' = EndsOf(n)
      BY <1>3, <1>7, <2>5, EndsFacts
    <3>2. (\E l \in Keys : Holds(mem, l, n)') => \E l \in Keys : Holds(mem, l, n)
      BY <1>9, <2>1
    <3> QED BY <2>2, <2>5, <3>1, <3>2
  <2> QED BY <1>4, <2>3, <2>4, <2>5
<1>12. CountInv'
  BY <1>4, <1>11 DEF CountInv
<1> QED BY <1>8, <1>10, <1>12 DEF OnceInv

LEMMA OnceSave ==
    ASSUME TypeInv, OnceInv, SaveAfterEvent \/ FinishResolve \/ SaveConfig \/ Exit
    PROVE  OnceInv'
<1>0. Save /\ UNCHANGED <<mem, events, opened>> /\ up
  BY DEF SaveAfterEvent, FinishResolve, SaveConfig, Exit, Free
<1>1. /\ mem' = mem /\ events' = events /\ opened' = opened /\ up
      /\ (flaws' = flaws /\ disk' = mem) \/ (flaws' = flaws + 1 /\ disk' = disk)
  BY <1>0 DEF Save
<1>2. OwnIds(mem)' /\ OwnIds(disk)'
  BY <1>1, SameOwner
<1>3. flaws \in Nat
  BY DEF TypeInv, TypeOK
<1>4. ASSUME flaws' = flaws, NEW n \in 1 .. opened, NEW k \in Keys,
             (up' /\ Holds(mem, k, n)') \/ (~unsaved' /\ Holds(disk, k, n)')
      PROVE  Kept(n)
  BY <1>1, <1>3, <1>4 DEF Kept, Holds
<1> QED BY <1>1, <1>2, <1>4, OnceKept

\* A service takes over the window of the one it replaces, which loses it.
LEMMA OnceFinishChange ==
    ASSUME TypeInv, OnceInv, FinishChange
    PROVE  OnceInv'
<1>1. arg.drop \in SUBSET Keys /\ arg.add \in SUBSET Keys /\ mem \in Tables
  BY DEF TypeInv, TypeOK
<1>2. ASSUME NEW k \in Keys
      PROVE  \/ mem'.window[k] = NoWindow
             \/ k \notin arg.add /\ k \notin arg.drop /\ mem'.window[k] = mem.window[k]
             \/ k \in arg.add /\ \E d \in arg.drop : mem'.window[k] = mem.window[d]
  BY <1>1, RewrittenWindow DEF FinishChange
<1>3. UNCHANGED <<disk, events, up, opened, flaws>> /\ unsaved' = TRUE /\ up
  BY DEF FinishChange
<1>4. ASSUME NEW k \in Keys, NEW n \in 1 .. MaxWindows, Holds(mem, k, n)'
      PROVE  \/ k \notin arg.add /\ k \notin arg.drop /\ Holds(mem, k, n)
             \/ k \in arg.add /\ \E d \in arg.drop : Holds(mem, d, n)
  BY <1>2, <1>4 DEF Holds
<1>5. OwnIds(mem)'
  <2>1. ASSUME NEW k \in Keys, NEW n \in 1 .. MaxWindows, Holds(mem, k, n)'
        PROVE  n <= opened
    BY <1>1, <1>4, <2>1 DEF OnceInv, OwnIds
  <2>2. ASSUME NEW k \in Keys, NEW n \in 1 .. MaxWindows, Holds(mem, k, n)',
               NEW l \in Keys, Holds(mem, l, n)'
        PROVE  l = k
    <3>1. \A x, y \in Keys : Holds(mem, x, n) /\ Holds(mem, y, n) => x = y
      BY DEF OnceInv, OwnIds
    <3>2. (\A x, y \in arg.add : x = y) /\ (\A x, y \in arg.drop : x = y)
      BY DEF TypeInv, Control
    <3> QED BY <1>1, <1>4, <2>2, <3>1, <3>2
  <2> QED BY <1>3, <2>1, <2>2 DEF OwnIds
<1>6. OwnIds(disk)'
  BY <1>3, SameOwner
<1>7. ASSUME NEW n \in 1 .. opened, NEW k \in Keys,
             (up' /\ Holds(mem, k, n)') \/ (~unsaved' /\ Holds(disk, k, n)')
      PROVE  Kept(n)
  <2>1. n \in 1 .. MaxWindows
    BY MaintenanceAssumption DEF TypeInv, TypeOK
  <2> QED BY <1>1, <1>3, <1>4, <1>7, <2>1 DEF Kept
<1> QED BY <1>3, <1>5, <1>6, <1>7, OnceKept

\* Tables taken whole: from a host list, from a backup, or from the file.
LEMMA OnceReplaced ==
    ASSUME NoListWindows, TypeInv, AuditInv, OnceInv,
           \/ FinishLoad
           \/ \E backup \in Backups, merge \in BOOLEAN : RestoreTargets(backup, merge)
           \/ Kill \/ KillAmid \/ Start
    PROVE  OnceInv'
<1>0. flaws \in Nat
  BY DEF TypeInv, TypeOK
<1>1. CASE FinishLoad
  <2>1. UNCHANGED <<disk, events, up, opened, flaws>> /\ mem' = arg.file /\ up /\ ~unsaved
    BY <1>1 DEF FinishLoad
  <2>2. \A k \in Keys : mem'.window[k] = NoWindow
    BY <2>1 DEF AuditInv, Windowless
  <2>3. OwnIds(mem)' /\ OwnIds(disk)'
    BY <2>1, <2>2, SameOwner
  <2>4. ASSUME NEW n \in 1 .. opened, NEW k \in Keys,
               (up' /\ Holds(mem, k, n)') \/ (~unsaved' /\ Holds(disk, k, n)')
        PROVE  Kept(n)
    BY <2>1, <2>2, <2>4 DEF Kept, Holds
  <2> QED BY <2>1, <2>3, <2>4, OnceKept
<1>2. ASSUME NEW backup \in Backups, NEW merge \in BOOLEAN, RestoreTargets(backup, merge)
      PROVE  OnceInv'
  <2>1. /\ UNCHANGED <<events, up, opened, flaws>> /\ up /\ disk' = mem'
        /\ mem' = Restored(backup, merge)
    BY <1>2 DEF RestoreTargets, Free
  <2>2. (\A k \in Keys : mem'.window[k] = NoWindow) \/ mem'.window = mem.window
    <3>1. backup \in SUBSET Keys /\ mem \in Tables
      BY MaintenanceAssumption DEF TypeInv, TypeOK
    <3> QED BY <2>1, <3>1, BareType DEF Restored, Tables
  <2>3. OwnIds(mem)' /\ OwnIds(disk)'
    BY <2>1, <2>2, SameOwner
  <2>4. ASSUME NEW n \in 1 .. opened, NEW k \in Keys,
               (up' /\ Holds(mem, k, n)') \/ (~unsaved' /\ Holds(disk, k, n)')
        PROVE  Kept(n)
    BY <2>1, <2>2, <2>4 DEF Kept, Holds
  <2> QED BY <2>1, <2>3, <2>4, OnceKept
<1>3. CASE Kill \/ KillAmid
  <2>1. /\ UNCHANGED <<mem, disk, events, opened>> /\ ~up' /\ ~unsaved'
        /\ (flaws' = flaws /\ ~unsaved) \/ flaws' = flaws + 1
    BY <1>3 DEF Kill, KillAmid, Free, work, Done, TypeInv, Control
  <2>2. OwnIds(mem)' /\ OwnIds(disk)'
    BY <2>1, SameOwner
  <2>3. ASSUME flaws' = flaws, NEW n \in 1 .. opened, NEW k \in Keys,
               (up' /\ Holds(mem, k, n)') \/ (~unsaved' /\ Holds(disk, k, n)')
        PROVE  Kept(n)
    BY <1>0, <2>1, <2>3 DEF Kept, Holds
  <2> QED BY <2>1, <2>2, <2>3, OnceKept
<1>4. CASE Start
  <2>1. UNCHANGED <<disk, events, opened, flaws>> /\ mem' = disk /\ ~up /\ ~unsaved
    BY <1>4 DEF Start, TypeInv, Control
  <2>2. OwnIds(mem)' /\ OwnIds(disk)'
    BY <2>1, SameOwner
  <2>3. ASSUME NEW n \in 1 .. opened, NEW k \in Keys,
               (up' /\ Holds(mem, k, n)') \/ (~unsaved' /\ Holds(disk, k, n)')
        PROVE  Kept(n)
    BY <2>1, <2>3 DEF Kept, Holds
  <2> QED BY <2>1, <2>2, <2>3, OnceKept
<1> QED BY <1>1, <1>2, <1>3, <1>4

\* The steps that begin a callback, and those that only let time pass.
LEMMA OnceSame ==
    ASSUME TypeInv, OnceInv, UNCHANGED <<mem, disk, events, up, opened, flaws>>,
           unsaved' = unsaved
    PROVE  OnceInv'
<1>1. OwnIds(mem)' /\ OwnIds(disk)'
  BY SameOwner
<1>2. ASSUME NEW n \in 1 .. opened, NEW k \in Keys,
             (up' /\ Holds(mem, k, n)') \/ (~unsaved' /\ Holds(disk, k, n)')
      PROVE  Kept(n)
  BY <1>2 DEF Kept, Holds
<1> QED BY <1>1, <1>2, OnceKept

LEMMA OnceStep ==
    NoListWindows /\ TypeInv /\ AuditInv /\ OnceInv /\ [Next]_vars => OnceInv'
<1> SUFFICES ASSUME NoListWindows, TypeInv, AuditInv, OnceInv, [Next]_vars PROVE OnceInv'
  OBVIOUS
<1>1. ASSUME Free, UNCHANGED <<mem, disk, events, up, opened, flaws>>, NEW name, NEW S, NEW a,
             Ends(name, S, a)
      PROVE  OnceInv'
  <2>1. ~unsaved /\ unsaved \in BOOLEAN
    BY <1>1 DEF Free, TypeInv, TypeOK, Control
  <2>2. unsaved' = FALSE
    BY <1>1 DEF Ends
  <2>3. unsaved' = unsaved
    BY <2>1, <2>2
  <2> QED BY <1>1, <2>3, OnceSame
<1>2. ASSUME NEW k \in Keys, AddTarget(k) \/ EndSelected(k) \/ RemoveSelected(k)
      PROVE  OnceInv'
  BY <1>1, <1>2 DEF AddTarget, EndSelected, RemoveSelected
<1>3. ASSUME NEW k \in Keys, NEW to \in Keys, EditTarget(k, to) PROVE OnceInv'
  BY <1>1, <1>3 DEF EditTarget
<1>4. CASE PollExpiry
  BY <1>1, <1>4 DEF PollExpiry
<1>5. ASSUME NEW file \in Files, LoadHostList(file) PROVE OnceInv'
  BY <1>1, <1>5 DEF LoadHostList
<1>6. CASE Tick \/ UNCHANGED vars
  BY <1>6, OnceSame DEF Tick, work, vars
<1> QED BY <1>2, <1>3, <1>4, <1>5, <1>6, OnceBegin, OnceEndWindow, OnceSave, OnceFinishChange,
           OnceReplaced
        DEF Next, User, Go

\* A window is ended once, and once more at most for each write that was refused and each
\* callback that was killed, however often the process ends and starts again.
THEOREM WindowsEndOnce == NoListWindows /\ Spec => []EndedOnce
<1>1. OnceInv => EndedOnce
  BY DEF OnceInv, CountInv, EndedOnce
<1> SUFFICES ASSUME NoListWindows PROVE Spec => []EndedOnce
  OBVIOUS
<1>2. Init => TypeInv /\ AuditInv /\ OnceInv
  BY TypeInit, AuditInit, OnceInit
<1>3. (TypeInv /\ AuditInv /\ OnceInv) /\ [Next]_vars => (TypeInv /\ AuditInv /\ OnceInv)'
  BY TypeStep, AuditStep, OnceStep
<1> QED BY <1>1, <1>2, <1>3, PTL DEF Spec
================================================================================
