-------------------------------- MODULE RestoreProofs -----------------------------
(***************************************************************************)
(* What an import of a settings backup promises, for every configuration,  *)
(* every backup and every pattern of failures and ends of the program: the *)
(* safety backup comes first, and what the user is told is so.             *)
(***************************************************************************)
EXTENDS Restore, TLAPS, WellFoundedInduction, SequenceTheorems

--------------------------------------------------------------------------------
(***************************************************************************)
(* The safety backup.                                                      *)
(***************************************************************************)
Saved == Portable(job.current) \in backups
Unchanged == file = job.disk /\ Live = job.before

\* Until the safety backup is written nothing has changed, and from then on it is there.
Inv ==
    /\ phase \in Phases
    /\ job = NoJob \/ Unchanged \/ Saved
    /\ phase = "safety" => Unchanged
    /\ phase \notin {"idle", "safety"} => Saved

LEMMA LiveUnchanged == ASSUME UNCHANGED live PROVE Live' = Live
BY DEF live, Live, Snapshot

\* Between two imports there is no job to speak of.
LEMMA IdleStep ==
    ASSUME Inv, (\E k \in Keys : Observe(k)) \/ Edit \/ SaveConfig \/ Restart
    PROVE  Inv'
<1>1. phase' = "idle" /\ job' = NoJob
  BY DEF Observe, Edit, SaveConfig, Restart, Idle
<1>2. QED
  BY <1>1 DEF Inv, Phases

LEMMA BeginStep ==
    ASSUME Inv, NEW backup \in Imports, NEW s \in Selections, Begin(backup, s)
    PROVE  Inv'
<1>1. job'.disk = file /\ job'.before = Live
  BY DEF Begin
<1>2. file' = file /\ Live' = Live /\ phase' = "safety"
  BY LiveUnchanged DEF Begin
<1>3. Unchanged'
  BY <1>1, <1>2 DEF Unchanged
<1>4. QED
  BY <1>2, <1>3 DEF Inv, Phases

LEMMA WriteSafetyStep == ASSUME Inv, WriteSafety PROVE Inv'
<1>1. file' = file /\ job' = job /\ Live' = Live
  BY LiveUnchanged DEF WriteSafety
<1>2. Unchanged'
  BY <1>1 DEF Inv, WriteSafety, Unchanged
<1>3. CASE backups' = backups \union {SafetyOf} /\ phase' = "commit"
  BY <1>1, <1>2, <1>3 DEF Inv, SafetyOf, Saved, Phases
<1>4. CASE phase' = "idle"
  BY <1>2, <1>4 DEF Inv, Phases
<1>5. QED
  BY <1>3, <1>4 DEF WriteSafety, Tell

\* From the safety backup on, every step of the import leaves it where it is.
LEMMA SavedStep ==
    ASSUME Saved, phase' \in Phases \ {"safety"}, backups' = backups,
           job'.current = job.current
    PROVE  Inv'
<1>1. Saved'
  BY DEF Saved
<1>2. QED
  BY <1>1 DEF Inv

LEMMA ImportStep ==
    ASSUME Inv, Commit \/ Apply \/ Raise \/ Undo \/ RaiseAgain
    PROVE  Inv'
<1>1. CASE Commit
  BY <1>1, SavedStep DEF Inv, Commit, Tell, Phases
<1>2. CASE Apply
  <2>1. phase \in {"hosts", "preferences", "notifications"}
    BY <1>2 DEF Apply, ApplyRecord, DeleteRow, Arrange, ApplyPreferences, ApplyNotifications
  <2>2. phase' \in Phases \ {"safety"}
    BY <1>2, <2>1 DEF Apply, ApplyRecord, DeleteRow, Arrange, ApplyPreferences,
                      ApplyNotifications, Tell, Phases
  <2>3. backups' = backups /\ job' = job
    BY <1>2 DEF Apply, ApplyRecord, DeleteRow, Arrange, ApplyPreferences, ApplyNotifications,
                Step
  <2>4. QED
    BY <2>1, <2>2, <2>3, SavedStep DEF Inv
<1>3. CASE Raise
  BY <1>3, SavedStep DEF Inv, Raise, Applying, Phases
<1>4. CASE Undo
  <2>1. phase \in {"clear", "rows", "undo preferences", "undo notifications"}
    BY <1>4 DEF Undo, ClearRows, PutRow, PutTracker, UndoPreferences, UndoNotifications
  <2>2. phase' \in Phases \ {"safety"}
    BY <1>4, <2>1 DEF Undo, ClearRows, PutRow, PutTracker, UndoPreferences,
                      UndoNotifications, Tell, Phases
  <2>3. backups' = backups /\ job' = job
    BY <1>4 DEF Undo, ClearRows, PutRow, PutTracker, UndoPreferences, UndoNotifications, Step
  <2>4. QED
    BY <2>1, <2>2, <2>3, SavedStep DEF Inv
<1>5. CASE RaiseAgain
  BY <1>5, SavedStep DEF Inv, RaiseAgain, Undoing, Tell, Phases
<1>6. QED
  BY <1>1, <1>2, <1>3, <1>4, <1>5

LEMMA StutterStep == ASSUME Inv, UNCHANGED vars PROVE Inv'
<1>1. Live' = Live
  BY LiveUnchanged DEF vars, live
<1>2. QED
  BY <1>1 DEF vars, Inv, Saved, Unchanged

\* "A portable safety backup will be created first": whatever of the configuration on
\* disk or of what the user has before him an import has changed, wherever it is in
\* doing so, the backups hold what was there when he confirmed.
THEOREM SafetyBackupFirst == Spec => []SafetyFirst
<1>1. Init => Inv
  BY DEF Init, Inv, Phases
<1>2. Inv /\ [Next]_vars => Inv'
  BY IdleStep, BeginStep, WriteSafetyStep, ImportStep, StutterStep DEF Next
<1>3. Inv => SafetyFirst
  BY DEF Inv, SafetyFirst, Saved, Unchanged
<1>4. QED
  BY <1>1, <1>2, <1>3, PTL DEF Spec
--------------------------------------------------------------------------------
(***************************************************************************)
(* Sequences, and folds over them.                                         *)
(***************************************************************************)
\* A set of naturals that is not empty has a least one.
LEMMA Least ==
    ASSUME NEW B \in SUBSET Nat, B # {}
    PROVE  \E n \in B : \A m \in B : n <= m
<1> DEFINE R == OpToRel(<, Nat)
<1>1. \A m, n \in Nat : m < n => <<m, n>> \in R
  BY DEF OpToRel
<1>2. IsWellFoundedOn(R, Nat)
  BY NatLessThanWellFounded
<1> HIDE DEF R
<1>3. PICK n \in B : \A m \in B : ~ (<<m, n>> \in R)
  BY <1>2, WFMin
<1>4. n \in Nat /\ \A m \in B : m \in Nat /\ ~ (m < n)
  BY <1>1, <1>3
<1> QED BY <1>4

\* A non-empty set of positions has a last one.
LEMMA LastPosition ==
    ASSUME NEW n \in Nat, NEW t \in SUBSET (1..n), t # {}
    PROVE  Max(t) \in t /\ \A i \in t : i <= Max(t)
<1> DEFINE Above == {m \in Nat : \A i \in t : i <= m}
<1>1. n \in Above
  OBVIOUS
<1>2. PICK m \in Above : \A k \in Above : m <= k
  BY <1>1, Least
<1>3. m \in t
  <2>1. SUFFICES ASSUME m \notin t PROVE FALSE
    OBVIOUS
  <2>2. \A i \in t : i <= m - 1
    BY <1>2, <2>1
  <2>3. m \in Nat /\ m - 1 \in Nat
    <3>1. PICK i \in t : TRUE
      OBVIOUS
    <3>2. i \in 1..n /\ m \in Nat /\ i <= m
      BY <1>2
    <3> QED BY <3>2
  <2> QED BY <1>2, <2>2, <2>3
<1>4. \A i \in t : m >= i
  BY <1>2
<1>5. \E x \in t : \A y \in t : x >= y
  BY <1>3, <1>4
<1>6. Max(t) \in t /\ \A y \in t : Max(t) >= y
  BY <1>5 DEF Max
<1> QED BY <1>6

\* A fold from the left, over the sets of positions, of the function g.
FoldsTo(F, g, b, s, n) ==
    F = [t \in SUBSET (1..n) |-> IF t = {} THEN b ELSE g[<<F[t \ {Max(t)}], s[Max(t)]>>]]

LEMMA FoldLonger ==
    ASSUME NEW A, NEW S, NEW g \in [A \X S -> A], NEW b \in A, NEW s \in Seq(S), NEW n \in Nat,
           n + 1 <= Len(s), NEW F \in [SUBSET (1..n) -> A], FoldsTo(F, g, b, s, n)
    PROVE  \E G \in [SUBSET (1..(n + 1)) -> A] : FoldsTo(G, g, b, s, n + 1)
<1> DEFINE Of(H, t) == IF t = {} THEN b ELSE g[<<H[t \ {Max(t)}], s[Max(t)]>>]
           G == [t \in SUBSET (1..(n + 1)) |->
                    IF n + 1 \in t THEN g[<<F[t \ {n + 1}], s[n + 1]>>] ELSE F[t]]
<1>1. s[n + 1] \in S
  OBVIOUS
<1>2. ASSUME NEW t \in SUBSET (1..(n + 1)) PROVE G[t] \in A /\ G[t] = Of(G, t)
  <2>1. CASE n + 1 \in t
    <3>1. t \ {n + 1} \in SUBSET (1..n)
      OBVIOUS
    <3>2. Max(t) = n + 1
      <4>1. n + 1 \in Nat /\ t # {}
        BY <2>1
      <4>2. Max(t) \in t /\ \A i \in t : i <= Max(t)
        BY <4>1, LastPosition
      <4>3. Max(t) \in 1..(n + 1) /\ n + 1 <= Max(t)
        BY <4>2, <2>1
      <4> QED BY <4>3
    <3>3. F[t \ {n + 1}] \in A /\ G[t \ {n + 1}] = F[t \ {n + 1}]
      BY <3>1
    <3>4. G[t] = g[<<F[t \ {n + 1}], s[n + 1]>>]
      BY <2>1
    <3>5. G[t] \in A
      BY <3>3, <3>4, <1>1
    <3>6. Of(G, t) = g[<<G[t \ {n + 1}], s[n + 1]>>]
      BY <2>1, <3>2
    <3> QED BY <3>3, <3>4, <3>5, <3>6
  <2>2. CASE n + 1 \notin t
    <3>1. t \in SUBSET (1..n)
      BY <2>2
    <3>2. G[t] = F[t] /\ F[t] \in A
      BY <2>2, <3>1
    <3>3. F[t] = Of(F, t)
      BY <3>1 DEF FoldsTo
    <3>4. t \ {Max(t)} \in SUBSET (1..n)
      BY <3>1
    <3>5. G[t \ {Max(t)}] = F[t \ {Max(t)}]
      BY <3>4
    <3> QED BY <3>2, <3>3, <3>5
  <2> QED BY <2>1, <2>2
<1>3. G \in [SUBSET (1..(n + 1)) -> A]
  BY <1>2
<1>4. G = [t \in SUBSET (1..(n + 1)) |-> Of(G, t)]
  <2>1. \A t \in SUBSET (1..(n + 1)) : G[t] = Of(G, t)
    BY <1>2
  <2>2. G = [t \in SUBSET (1..(n + 1)) |-> G[t]]
    OBVIOUS
  <2> HIDE DEF G, Of
  <2>3. [t \in SUBSET (1..(n + 1)) |-> G[t]] = [t \in SUBSET (1..(n + 1)) |-> Of(G, t)]
    BY <2>1
  <2> QED BY <2>2, <2>3
<1>5. FoldsTo(G, g, b, s, n + 1)
  BY <1>4 DEF FoldsTo
<1> QED BY <1>3, <1>5

\* There is such a fold, so FoldLeft is what its steps say.
LEMMA FoldExists ==
    ASSUME NEW A, NEW S, NEW g \in [A \X S -> A], NEW b \in A, NEW s \in Seq(S)
    PROVE  \E F \in [SUBSET (1..Len(s)) -> A] : FoldsTo(F, g, b, s, Len(s))
<1> DEFINE Good(n) == \E F \in [SUBSET (1..n) -> A] : FoldsTo(F, g, b, s, n)
           Bad == {n \in 0..Len(s) : ~ Good(n)}
<1>1. Good(0)
  <2> DEFINE F == [t \in SUBSET (1..0) |-> b]
  <2>1. F \in [SUBSET (1..0) -> A]
    OBVIOUS
  <2>2. FoldsTo(F, g, b, s, 0)
    BY DEF FoldsTo
  <2> QED BY <2>1, <2>2
<1>2. ASSUME NEW n \in 0..Len(s), n # Len(s), Good(n) PROVE Good(n + 1)
  <2>1. n \in Nat /\ n + 1 <= Len(s)
    BY <1>2
  <2> QED BY <1>2, <2>1, FoldLonger
<1> HIDE DEF Good
<1>3. SUFFICES ASSUME Bad # {} PROVE FALSE
  <2>1. Len(s) \in 0..Len(s)
    OBVIOUS
  <2>2. CASE Bad = {}
    BY <2>1, <2>2 DEF Good
  <2> QED BY <2>2, <1>3
<1>4. Bad \in SUBSET Nat
  OBVIOUS
<1>5. PICK n \in Bad : \A m \in Bad : n <= m
  BY <1>3, <1>4, Least
<1>6. n # 0 /\ n - 1 \in 0..Len(s) /\ n - 1 # Len(s) /\ n - 1 \notin Bad
  BY <1>1, <1>5
<1>7. Good((n - 1) + 1)
  BY <1>2, <1>6
<1> QED BY <1>5, <1>7

\* The last position of a prefix.
LEMMA LastOfPrefix ==
    ASSUME NEW n \in Nat \ {0}
    PROVE  Max(1..n) = n /\ (1..n) \ {Max(1..n)} = 1..(n - 1)
<1>1. 1..n \in SUBSET (1..n) /\ n \in 1..n /\ n \in Nat
  OBVIOUS
<1>2. Max(1..n) \in 1..n /\ \A i \in 1..n : i <= Max(1..n)
  BY <1>1, LastPosition
<1>3. Max(1..n) = n
  BY <1>1, <1>2
<1> QED BY <1>3

\* Induction up to m.
LEMMA Ascending ==
    ASSUME NEW m \in Nat, NEW G, 0 \in G, \A n \in 0..(m - 1) : n \in G => n + 1 \in G
    PROVE  0..m \subseteq G
<1> DEFINE Bad == {n \in 0..m : n \notin G}
<1>1. SUFFICES ASSUME Bad # {} PROVE FALSE
  OBVIOUS
<1>2. Bad \in SUBSET Nat
  OBVIOUS
<1>3. PICK n \in Bad : \A k \in Bad : n <= k
  BY <1>1, <1>2, Least
<1>4. n # 0 /\ n - 1 \in 0..(m - 1) /\ n - 1 \notin Bad
  BY <1>3
<1>5. n - 1 \in G
  BY <1>4
<1>6. (n - 1) + 1 \in G
  BY <1>4, <1>5
<1> QED BY <1>3, <1>6

--------------------------------------------------------------------------------
(***************************************************************************)
(* Host lists, the merge, and plans.                                       *)
(***************************************************************************)
\* A sequence, position by position.
LEMMA Mapping ==
   ASSUME NEW S, NEW T, NEW s \in Seq(S), NEW f \in [1..Len(s) -> T] PROVE f \in Seq(T) /\ Len(f) = Len(s)
OBVIOUS

\* The order of a configuration: its keys, each once.
LEMMA Tables ==
   ASSUME NEW hosts \in HostLists
   PROVE /\ OrderOf(hosts) \in Seq(Keys) /\ Len(OrderOf(hosts)) = Len(hosts)
         /\ \A i \in 1..Len(hosts) : OrderOf(hosts)[i] = hosts[i].key
         /\ \A i, j \in DOMAIN OrderOf(hosts) : OrderOf(hosts)[i] = OrderOf(hosts)[j] => i = j
         /\ Range(OrderOf(hosts)) = KeysOf(hosts)
         /\ KeysOf(hosts) \subseteq Keys
         /\ \A i \in 1..Len(hosts) : RecordOf(hosts, hosts[i].key) = hosts[i] 
<1>1. hosts \in Seq(Entries) /\ DOMAIN hosts = 1..Len(hosts)
  BY DEF HostLists
<1>2. \A i \in 1..Len(hosts) : hosts[i] \in Entries /\ hosts[i].key \in Keys
  <2>1. \A i \in 1..Len(hosts) : hosts[i] \in Entries
    BY <1>1
  <2>2. \A e \in Entries : e.key \in Keys
    BY DEF Entries
  <2> QED BY <2>1, <2>2
<1> DEFINE o == OrderOf(hosts)
<1>3. o \in [1..Len(hosts) -> Keys]
  BY <1>1, <1>2 DEF OrderOf
<1>4. o \in Seq(Keys) /\ Len(o) = Len(hosts) /\ DOMAIN o = 1..Len(hosts)
  BY <1>1, <1>3, Mapping
<1>5. \A i \in 1..Len(hosts) : o[i] = hosts[i].key
  BY <1>1 DEF OrderOf
<1>6. Range(o) = KeysOf(hosts)
  BY <1>1, <1>4, <1>5 DEF Range, KeysOf
<1>7. \A i \in 1..Len(hosts) : RecordOf(hosts, hosts[i].key) = hosts[i]
  BY <1>1 DEF RecordOf, HostLists
<1> QED BY <1>1, <1>2, <1>4, <1>5, <1>6, <1>7 DEF KeysOf, HostLists

\* The rows of a configuration: its records.
LEMMA RowsAreThere ==
   ASSUME NEW hosts \in HostLists, Labels # {}
   PROVE /\ RowsOf(hosts) \in [Keys -> Entries]
         /\ \A i \in 1..Len(hosts) : RowsOf(hosts)[hosts[i].key] = hosts[i]
         /\ \A k \in KeysOf(hosts) : RowsOf(hosts)[k].key = k
<1>1. hosts \in Seq(Entries) /\ DOMAIN hosts = 1..Len(hosts)
  BY DEF HostLists
<1>2. \A i \in 1..Len(hosts) : hosts[i] \in Entries /\ hosts[i].key \in Keys
  <2>1. \A i \in 1..Len(hosts) : hosts[i] \in Entries
    BY <1>1
  <2>2. \A e \in Entries : e.key \in Keys
    BY DEF Entries
  <2> QED BY <2>1, <2>2
<1>3. \A k \in KeysOf(hosts) : \E i \in 1..Len(hosts) : hosts[i].key = k /\ RecordOf(hosts, k) = hosts[i]
  BY Tables, <1>1 DEF KeysOf
<1>4. ASSUME NEW k \in Keys PROVE NoRow \in Entries
  BY DEF NoRow, Entry, Entries
<1>5. RowsOf(hosts) \in [Keys -> Entries]
  BY <1>2, <1>3, <1>4 DEF RowsOf
<1>6. ASSUME NEW k \in KeysOf(hosts) PROVE RowsOf(hosts)[k] = RecordOf(hosts, k)
  BY Tables DEF RowsOf
<1>7. \A i \in 1..Len(hosts) : hosts[i].key \in KeysOf(hosts)
  BY <1>1 DEF KeysOf
<1>8. \A k \in KeysOf(hosts) : RowsOf(hosts)[k].key = k
  BY <1>3, <1>6
<1> QED BY <1>5, <1>6, <1>7, <1>8, Tables

\* Host lists and their keys, in terms of positions.
LEMMA HostFacts ==
    ASSUME NEW hosts \in Seq(Entries)
    PROVE  /\ hosts \in HostLists <=> \A i, j \in 1..Len(hosts) : hosts[i].key = hosts[j].key => i = j
           /\ KeysOf(hosts) = {hosts[i].key : i \in 1..Len(hosts)}
<1>1. DOMAIN hosts = 1..Len(hosts)
  OBVIOUS
<1> QED BY <1>1 DEF HostLists, KeysOf

\* plan_restore() merges host lists to a host list: no target is there twice.
LEMMA MergedIsHosts ==
    ASSUME NEW local \in HostLists, NEW incoming \in HostLists
    PROVE  Merged(local, incoming) \in HostLists
<1> DEFINE Put(merged, r) ==
               IF r.key \in KeysOf(local)
               THEN [i \in DOMAIN merged |-> IF merged[i].key # r.key THEN merged[i]
                                         ELSE [r EXCEPT !.window = merged[i].window]]
               ELSE Append(merged, r)
           A == Seq(Entries)
           g == [p \in A \X Entries |-> Put(p[1], p[2])]
           Body(F) == F = [t \in SUBSET DOMAIN incoming |->
                              IF t = {} THEN local
                              ELSE Put(F[t \ {Max(t)}], incoming[Max(t)])]
           F == CHOOSE F : Body(F)
<1>1. local \in A /\ incoming \in Seq(Entries) /\ DOMAIN incoming = 1..Len(incoming)
  BY DEF HostLists
<1>2. ASSUME NEW hosts \in A, NEW r \in Entries
      PROVE  /\ Put(hosts, r) \in A
             /\ r.key \in KeysOf(local) => /\ Len(Put(hosts, r)) = Len(hosts)
                                           /\ \A i \in 1..Len(hosts) : Put(hosts, r)[i].key = hosts[i].key
             /\ r.key \notin KeysOf(local) => Put(hosts, r) = Append(hosts, r)
  <2>1. CASE r.key \notin KeysOf(local)
    BY <2>1
  <2>2. CASE r.key \in KeysOf(local)
    <3> DEFINE new == [i \in 1..Len(hosts) |-> IF hosts[i].key # r.key THEN hosts[i]
                                             ELSE [r EXCEPT !.window = hosts[i].window]]
    <3>1. Put(hosts, r) = new
      BY <2>2
    <3>2. \A i \in 1..Len(hosts) : hosts[i] \in Entries
      OBVIOUS
    <3>3. \A i \in 1..Len(hosts) : new[i] \in Entries /\ new[i].key = hosts[i].key
      BY <3>2 DEF Entries
    <3>4. new \in [1..Len(hosts) -> Entries]
      BY <3>3
    <3> HIDE DEF new
    <3>5. new \in Seq(Entries) /\ Len(new) = Len(hosts)
      BY <3>4, Mapping
    <3> HIDE DEF Put
    <3> QED BY <3>1, <3>3, <3>5, <2>2
  <2> QED BY <2>1, <2>2
<1>3. g \in [A \X Entries -> A] /\ \A hosts \in A, r \in Entries : g[<<hosts, r>>] = Put(hosts, r)
  <2> HIDE DEF Put
  <2> QED BY <1>2
<1> HIDE DEF Put, g, A
<1>4. PICK H \in [SUBSET (1..Len(incoming)) -> A] : FoldsTo(H, g, local, incoming, Len(incoming))
  BY <1>1, <1>3, FoldExists
<1>5. Body(H)
  <2>1. ASSUME NEW t \in SUBSET (1..Len(incoming)), t # {}
        PROVE  g[<<H[t \ {Max(t)}], incoming[Max(t)]>>] = Put(H[t \ {Max(t)}], incoming[Max(t)])
    <3>1. Max(t) \in t
      BY <1>1, <2>1, LastPosition, Len(incoming) \in Nat
    <3>2. Max(t) \in 1..Len(incoming) /\ t \ {Max(t)} \in SUBSET (1..Len(incoming))
      BY <3>1
    <3>3. incoming[Max(t)] \in Entries
      BY <1>1, <3>2
    <3>4. H[t \ {Max(t)}] \in A
      BY <3>2
    <3> QED BY <3>3, <3>4, <1>3
  <2>2. H = [t \in SUBSET (1..Len(incoming)) |->
                IF t = {} THEN local ELSE g[<<H[t \ {Max(t)}], incoming[Max(t)]>>]]
    BY <1>4 DEF FoldsTo
  <2>3. [t \in SUBSET (1..Len(incoming)) |->
                IF t = {} THEN local ELSE g[<<H[t \ {Max(t)}], incoming[Max(t)]>>]]
        = [t \in SUBSET (1..Len(incoming)) |->
                IF t = {} THEN local ELSE Put(H[t \ {Max(t)}], incoming[Max(t)])]
    BY <2>1
  <2> QED BY <1>1, <2>2, <2>3
<1>6. Body(F)
  BY <1>5
<1>7. Merged(local, incoming) = F[DOMAIN incoming]
  BY DEF Merged, FoldLeft, MapThenFoldSet, Put
<1> HIDE DEF F
<1>8. F[1..0] = local
  BY <1>6, <1>1
<1>9. ASSUME NEW n \in 1..Len(incoming) PROVE F[1..n] = Put(F[1..(n - 1)], incoming[n])
  <2>1. Len(incoming) \in Nat /\ n \in 1..n /\ n \in Nat \ {0}
    BY <1>1
  <2>2. 1..n \in SUBSET (1..Len(incoming)) /\ 1..n # {}
    BY <2>1
  <2> QED BY <2>1, <2>2, <1>1, <1>6, LastOfPrefix
<1> HIDE DEF Body
<1> DEFINE Known(n) == KeysOf(local) \union {incoming[j].key : j \in 1..n}
           G == {n \in 0..Len(incoming) : F[1..n] \in HostLists /\ KeysOf(F[1..n]) \subseteq Known(n)}
<1>10. 0 \in G
  BY <1>1, <1>8
<1>11. ASSUME NEW n \in 0..(Len(incoming) - 1), n \in G PROVE n + 1 \in G
  <2> DEFINE hosts == F[1..n]
             r == incoming[n + 1]
  <2>1. hosts \in HostLists /\ KeysOf(hosts) \subseteq Known(n) /\ r \in Entries /\ hosts \in A
    BY <1>1, <1>11 DEF HostLists, A
  <2>2. F[1..(n + 1)] = Put(hosts, r)
    <3>1. n + 1 \in 1..Len(incoming) /\ (n + 1) - 1 = n
      OBVIOUS
    <3> QED BY <1>9, <3>1
  <2>3. Known(n + 1) = Known(n) \union {r.key}
    OBVIOUS
  <2> HIDE DEF hosts, r
  <2>4. CASE r.key \in KeysOf(local)
    <3>1. /\ Put(hosts, r) \in Seq(Entries) /\ Len(Put(hosts, r)) = Len(hosts)
          /\ \A i \in 1..Len(hosts) : Put(hosts, r)[i].key = hosts[i].key
      BY <1>2, <2>1, <2>4 DEF A
    <3>2. Put(hosts, r) \in HostLists /\ KeysOf(Put(hosts, r)) \subseteq KeysOf(hosts)
      <4>1. \A i, j \in 1..Len(hosts) : hosts[i].key = hosts[j].key => i = j
        BY <2>1, HostFacts DEF A
      <4> QED BY <3>1, <4>1, <2>1, HostFacts DEF A
    <3> QED BY <3>2, <2>1, <2>2, <2>3
  <2>5. CASE r.key \notin KeysOf(local)
    <3>1. Put(hosts, r) = Append(hosts, r) 
      BY <1>2, <2>1, <2>5
    <3>2. r.key \notin Known(n)
      <4>1. \A j \in 1..n : incoming[j].key # incoming[n + 1].key
        BY <1>1 DEF HostLists
      <4> QED BY <4>1, <2>5 DEF r
    <3>3. hosts \in Seq(Entries) /\ \A i, j \in 1..Len(hosts) : hosts[i].key = hosts[j].key => i = j
      BY <2>1, HostFacts DEF A
    <3>4. \A i \in 1..Len(hosts) : hosts[i].key # r.key
      BY <3>2, <2>1, <3>3, HostFacts
    <3> DEFINE new == Append(hosts, r)
    <3>5. /\ new \in Seq(Entries) /\ Len(new) = Len(hosts) + 1 /\ DOMAIN new = 1..(Len(hosts) + 1)
          /\ \A i \in 1..Len(hosts) : new[i] = hosts[i] 
          /\ new[Len(hosts) + 1] = r
      BY <2>1, <3>3
    <3> HIDE DEF new
    <3>6. \A i, j \in 1..(Len(hosts) + 1) : new[i].key = new[j].key => i = j
      BY <3>3, <3>4, <3>5
    <3>7. \A i \in 1..Len(hosts) : hosts[i].key \in KeysOf(hosts)
      BY <3>3, HostFacts
    <3>8. \A i \in 1..(Len(hosts) + 1) : new[i].key \in KeysOf(hosts) \union {r.key}
      BY <3>5, <3>7
    <3>9. new \in HostLists /\ KeysOf(new) \subseteq KeysOf(hosts) \union {r.key}
      BY <3>5, <3>6, <3>8, HostFacts
    <3> HIDE DEF Known
    <3>10. F[1..(n + 1)] = new
      BY <3>1, <2>2 DEF new
    <3>11. F[1..(n + 1)] \in HostLists /\ KeysOf(F[1..(n + 1)]) \subseteq Known(n + 1)
      BY <3>9, <3>10, <2>1, <2>3
    <3> QED BY <3>11
  <2> QED BY <2>4, <2>5
<1> HIDE DEF G
<1>12. 0..Len(incoming) \subseteq G
  BY <1>10, <1>11, Ascending, Len(incoming) \in Nat
<1>13. F[1..Len(incoming)] \in HostLists
  BY <1>1, <1>12 DEF G
<1> QED BY <1>1, <1>7, <1>13

--------------------------------------------------------------------------------
(***************************************************************************)
(* The import: what each step finds done, and the types.                   *)
(***************************************************************************)
\* The table and what it holds are one.
Table == tree = Range(order) /\ \A k \in tree : row[k].key = k

\* The targets a table holds.
HostsOf(o, r) == [i \in DOMAIN o |-> r[o[i]]]

\* An import under way is of configurations; without targets it leaves them alone.
JobOK ==
    /\ job.current \in Configs /\ job.plan \in Configs /\ job.targets \in BOOLEAN
    /\ job.before \in [config : Configs, tree : SUBSET Keys, tracker : [Keys -> States]]
    /\ job.before.config = job.current /\ job.before.tree = KeysOf(job.current.hosts)
    /\ ~ job.targets => job.plan.hosts = job.current.hosts

\* Rows that stay keep what is known of them, new ones start unknown.
KnownAsBefore ==
    \A k \in tree : tracker[k] = IF k \in job.before.tree THEN job.before.tracker[k] ELSE UNKNOWN

\* Records are applied up to "at", and no row is deleted before all are.
Placing ==
    /\ at <= Len(job.plan.hosts)
    /\ \A i \in 1..at : /\ job.plan.hosts[i].key \in tree
                       /\ row[job.plan.hosts[i].key] = job.plan.hosts[i]
    /\ at < Len(job.plan.hosts) => job.before.tree \subseteq tree
    /\ KnownAsBefore

\* The targets of the plan are in force.
Landed ==
    /\ HostsOf(order, row) = job.plan.hosts /\ tree = KeysOf(job.plan.hosts)
    /\ KnownAsBefore

\* Old rows are put back up to "at".
PuttingBack ==
    /\ at <= Len(job.current.hosts) /\ Len(order) = at
    /\ \A i \in 1..at : order[i] = job.current.hosts[i].key
    /\ row = RowsOf(job.current.hosts)

\* The targets are back.
Back ==
    /\ HostsOf(order, row) = job.current.hosts /\ tree = KeysOf(job.current.hosts)
    /\ tracker = job.before.tracker

SetTo(of) == settings.theme = of.theme /\ settings.health = of.health

\* What each step of an import and of its roll-back finds done.
PhaseInv ==
    /\ phase # "idle" => JobOK /\ outcome = "none"
    /\ phase \in {"safety", "commit"} => Live = job.before /\ file = job.disk /\ at = 0
    /\ Applying => file = job.plan
    /\ phase = "hosts" => Placing
    /\ phase \in {"preferences", "notifications"} => Landed
    /\ phase = "notifications" => SetTo(job.plan.settings)
    /\ Undoing => file = IF undone THEN job.current ELSE job.plan
    /\ phase = "rows" => PuttingBack
    /\ phase \in {"undo preferences", "undo notifications"} => Back
    /\ phase = "undo notifications" => SetTo(job.current.settings)

ImportInv == TypeOK /\ Table /\ PhaseInv /\ OutcomeIsTrue

\* A table whose rows bear their keys holds a host list.
LEMMA HostsOfFacts ==
    ASSUME NEW o \in Seq(Keys), \A i, j \in DOMAIN o : o[i] = o[j] => i = j,
           NEW r \in [Keys -> Entries], \A k \in Range(o) : r[k].key = k
    PROVE  /\ HostsOf(o, r) \in HostLists /\ Len(HostsOf(o, r)) = Len(o)
           /\ KeysOf(HostsOf(o, r)) = Range(o)
<1> DEFINE h == HostsOf(o, r)
<1>1. DOMAIN o = 1..Len(o) /\ \A i \in 1..Len(o) : o[i] \in Keys /\ o[i] \in Range(o)
  BY DEF Range
<1>2. h = [i \in 1..Len(o) |-> r[o[i]]] /\ h \in [1..Len(o) -> Entries]
  BY <1>1 DEF HostsOf
<1>3. h \in Seq(Entries) /\ Len(h) = Len(o)
  BY <1>2, Mapping
<1>4. \A i \in 1..Len(o) : h[i].key = o[i]
  BY <1>1, <1>2
<1> HIDE DEF h
<1>5. h \in HostLists
  BY <1>1, <1>3, <1>4, HostFacts
<1>6. KeysOf(h) = {h[i].key : i \in 1..Len(o)}
  BY <1>3, HostFacts
<1>7. Range(o) = {o[i] : i \in 1..Len(o)}
  BY <1>1 DEF Range
<1> QED BY <1>3, <1>4, <1>5, <1>6, <1>7 DEF h

\* A table with the order and the rows of a host list holds that list.
LEMMA HostsOfIs ==
    ASSUME NEW hosts \in HostLists, NEW o \in Seq(Keys), Len(o) = Len(hosts),
           \A i \in 1..Len(hosts) : o[i] = hosts[i].key,
           NEW r, \A i \in 1..Len(hosts) : r[hosts[i].key] = hosts[i]
    PROVE  HostsOf(o, r) = hosts
<1>1. hosts \in Seq(Entries)
  BY DEF HostLists
<1>2. DOMAIN o = 1..Len(hosts) /\ DOMAIN hosts = 1..Len(hosts) /\ hosts = [i \in 1..Len(hosts) |-> hosts[i]]
  BY <1>1
<1>3. \A i \in 1..Len(hosts) : r[o[i]] = hosts[i]
  OBVIOUS
<1> QED BY <1>2, <1>3 DEF HostsOf

\* Settings and configurations, field by field.
LEMMA SettingsEqual ==
    ASSUME NEW s \in Settings, NEW t \in Settings, s.theme = t.theme, s.health = t.health,
           s.enabled = t.enabled, s.endpoint = t.endpoint
    PROVE  s = t
BY DEF Settings

LEMMA ConfigFields ==
    ASSUME NEW c \in Configs
    PROVE  /\ c.hosts \in HostLists /\ c.settings \in Settings /\ Labels # {}
           /\ c = [hosts |-> c.hosts, settings |-> c.settings]
BY DEF Configs, Settings

LEMMA SettingsFields ==
    ASSUME NEW s \in Settings
    PROVE  /\ s.theme \in Labels /\ s.health \in Labels /\ s.enabled \in BOOLEAN /\ s.endpoint \in BOOLEAN
           /\ s = [theme |-> s.theme, health |-> s.health, enabled |-> s.enabled, endpoint |-> s.endpoint]
BY DEF Settings

\* A plan is a configuration, and without targets keeps them.
LEMMA PlannedConfig ==
    ASSUME NEW current \in Configs, NEW backup \in Configs, NEW s \in Selections
    PROVE  /\ Planned(current, backup, s) \in Configs
           /\ ~ s.targets => Planned(current, backup, s).hosts = current.hosts
<1> DEFINE p == Planned(current, backup, s)
<1>1. /\ current.hosts \in HostLists /\ current.settings \in Settings
      /\ backup.hosts \in HostLists /\ backup.settings \in Settings
  BY ConfigFields
<1>2. Merged(current.hosts, backup.hosts) \in HostLists
  BY <1>1, MergedIsHosts
<1>3. p.hosts \in HostLists /\ (~ s.targets => p.hosts = current.hosts)
  BY <1>1, <1>2 DEF Planned
<1>4. p.settings = [current.settings EXCEPT
                       !.theme = IF s.preferences THEN backup.settings.theme ELSE @,
                       !.enabled = IF s.notifications
                                   THEN backup.settings.enabled /\ current.settings.endpoint ELSE @]
  BY DEF Planned
<1>5. p.settings \in Settings
  <2>1. /\ current.settings.theme \in Labels /\ current.settings.health \in Labels
        /\ current.settings.enabled \in BOOLEAN /\ current.settings.endpoint \in BOOLEAN
        /\ backup.settings.theme \in Labels /\ backup.settings.enabled \in BOOLEAN
        /\ current.settings = [theme |-> current.settings.theme, health |-> current.settings.health,
                               enabled |-> current.settings.enabled,
                               endpoint |-> current.settings.endpoint]
    BY <1>1, SettingsFields
  <2> DEFINE th == IF s.preferences THEN backup.settings.theme ELSE current.settings.theme
             en == IF s.notifications THEN backup.settings.enabled /\ current.settings.endpoint
                   ELSE current.settings.enabled
  <2>2. th \in Labels /\ en \in BOOLEAN
    BY <2>1
  <2>3. p.settings = [theme |-> th, health |-> current.settings.health, enabled |-> en,
                      endpoint |-> current.settings.endpoint]
    BY <1>4, <2>1
  <2> HIDE DEF th, en, p
  <2> QED BY <2>1, <2>2, <2>3 DEF Settings
<1>6. p = [hosts |-> p.hosts, settings |-> p.settings]
  BY DEF Planned
<1> QED BY <1>3, <1>5, <1>6 DEF Configs

\* So is a backup.
LEMMA PortableConfig == ASSUME NEW c \in Configs PROVE Portable(c) \in Configs
<1> DEFINE hosts == [i \in DOMAIN c.hosts |-> [c.hosts[i] EXCEPT !.window = FALSE]]
           settings0 == [c.settings EXCEPT !.endpoint = FALSE]
<1>1. c.hosts \in HostLists /\ c.settings \in Settings
  BY ConfigFields
<1>2. c.hosts \in Seq(Entries) /\ DOMAIN c.hosts = 1..Len(c.hosts)
  BY <1>1 DEF HostLists
<1>3. \A i \in 1..Len(c.hosts) : c.hosts[i] \in Entries
  BY <1>2
<1>4. \A i \in 1..Len(c.hosts) : hosts[i] \in Entries /\ hosts[i].key = c.hosts[i].key
  BY <1>2, <1>3 DEF Entries
<1>5. hosts \in [1..Len(c.hosts) -> Entries]
  BY <1>2, <1>4
<1> HIDE DEF hosts
<1>6. hosts \in Seq(Entries) /\ Len(hosts) = Len(c.hosts)
  BY <1>2, <1>5, Mapping
<1>7. hosts \in HostLists
  BY <1>1, <1>2, <1>4, <1>6, HostFacts
<1>8. settings0 \in Settings
  BY <1>1 DEF Settings
<1> HIDE DEF settings0
<1>9. Portable(c) = [hosts |-> hosts, settings |-> settings0]
  BY DEF Portable, hosts, settings0
<1> QED BY <1>7, <1>8, <1>9 DEF Configs

\* A new key at the end of the order,
LEMMA AppendKeepsOrder ==
    ASSUME NEW o \in Seq(Keys), \A i, j \in DOMAIN o : o[i] = o[j] => i = j,
           NEW k \in Keys, k \notin Range(o)
    PROVE  /\ Append(o, k) \in Seq(Keys) /\ Range(Append(o, k)) = Range(o) \union {k}
           /\ \A i, j \in DOMAIN Append(o, k) : Append(o, k)[i] = Append(o, k)[j] => i = j
<1> DEFINE p == Append(o, k)
<1>1. /\ p \in Seq(Keys) /\ DOMAIN o = 1..Len(o) /\ DOMAIN p = 1..(Len(o) + 1)
      /\ \A i \in 1..Len(o) : p[i] = o[i] /\ p[i] # k
      /\ p[Len(o) + 1] = k
  BY DEF Range
<1> HIDE DEF p
<1>2. Range(p) = Range(o) \union {k}
  BY <1>1 DEF Range
<1>3. \A i, j \in DOMAIN p : p[i] = p[j] => i = j
  BY <1>1
<1> QED BY <1>1, <1>2, <1>3 DEF p

\* and one taken out of it.
LEMMA RemoveKeepsOrder ==
    ASSUME NEW o \in Seq(Keys), \A i, j \in DOMAIN o : o[i] = o[j] => i = j, NEW n \in DOMAIN o
    PROVE  /\ RemoveAt(o, n) \in Seq(Keys) /\ Range(RemoveAt(o, n)) = Range(o) \ {o[n]}
           /\ \A i, j \in DOMAIN RemoveAt(o, n) : RemoveAt(o, n)[i] = RemoveAt(o, n)[j] => i = j
<1> DEFINE p == RemoveAt(o, n)
<1>1. DOMAIN o = 1..Len(o) /\ n \in 1..Len(o) /\ Len(o) \in Nat
  OBVIOUS
<1>2. /\ SubSeq(o, 1, n - 1) \in Seq(Keys) /\ Len(SubSeq(o, 1, n - 1)) = n - 1
      /\ \A i \in 1..(n - 1) : SubSeq(o, 1, n - 1)[i] = o[i]
  BY <1>1
<1>3. /\ SubSeq(o, n + 1, Len(o)) \in Seq(Keys) /\ Len(SubSeq(o, n + 1, Len(o))) = Len(o) - n
      /\ \A i \in 1..(Len(o) - n) : SubSeq(o, n + 1, Len(o))[i] = o[n + i]
  <2>1. n + 1 \in Int /\ Len(o) \in Int /\ \A i \in (n + 1)..Len(o) : o[i] \in Keys
    BY <1>1
  <2>2. /\ SubSeq(o, n + 1, Len(o)) \in Seq(Keys)
        /\ Len(SubSeq(o, n + 1, Len(o))) = IF n + 1 <= Len(o) THEN Len(o) - (n + 1) + 1 ELSE 0
        /\ \A i \in 1..(Len(o) - (n + 1) + 1) : SubSeq(o, n + 1, Len(o))[i] = o[(n + 1) + i - 1]
    BY <2>1, SubSeqProperties
  <2>3. Len(o) - (n + 1) + 1 = Len(o) - n
    BY <1>1
  <2>4. \A i \in 1..(Len(o) - n) : (n + 1) + i - 1 = n + i
    BY <1>1
  <2> QED BY <1>1, <2>2, <2>3, <2>4
<1>4. /\ p \in Seq(Keys) /\ Len(p) = Len(o) - 1
      /\ \A i \in 1..(Len(o) - 1) : p[i] = IF i < n THEN o[i] ELSE o[i + 1]
  <2> DEFINE u == SubSeq(o, 1, n - 1)
             v == SubSeq(o, n + 1, Len(o))
  <2>1. p = u \o v
    BY DEF RemoveAt
  <2> HIDE DEF u, v, p
  <2>2. /\ u \o v \in Seq(Keys) /\ Len(u \o v) = Len(u) + Len(v)
        /\ \A i \in 1 .. Len(u) + Len(v) : (u \o v)[i] = IF i <= Len(u) THEN u[i] ELSE v[i - Len(u)]
    <3>1. u \in Seq(Keys) /\ v \in Seq(Keys)
      BY <1>2, <1>3 DEF u, v
    <3> QED BY <3>1, ConcatProperties
  <2>3. Len(u) = n - 1 /\ Len(v) = Len(o) - n
    BY <1>2, <1>3 DEF u, v
  <2>4. ASSUME NEW i \in 1..(Len(o) - 1) PROVE p[i] = IF i < n THEN o[i] ELSE o[i + 1]
    <3>1. CASE i < n
      BY <3>1, <2>1, <2>2, <2>3, <1>1, <1>2 DEF u
    <3>2. CASE ~ (i < n)
      <4>1. i - (n - 1) \in 1..(Len(o) - n) /\ n + (i - (n - 1)) = i + 1
        BY <1>1, <3>2
      <4>2. p[i] = v[i - (n - 1)]
        <5>1. i \in 1 .. Len(u) + Len(v)
          BY <2>3, <1>1
        <5>2. ~ (i <= Len(u))
          BY <3>2, <2>3, <1>1
        <5>3. (u \o v)[i] = v[i - Len(u)]
          BY ONLY <5>1, <5>2, <2>2
        <5> QED BY <5>3, <2>1, <2>3
      <4>3. v[i - (n - 1)] = o[n + (i - (n - 1))]
        BY <4>1, <1>3 DEF v
      <4> QED BY <4>1, <4>2, <4>3, <3>2
    <3> QED BY <3>1, <3>2
  <2> QED BY <1>1, <2>1, <2>2, <2>3, <2>4
<1> HIDE DEF p
<1>5. DOMAIN p = 1..(Len(o) - 1)
  BY <1>4
<1>6. ASSUME NEW k \in Range(o) \ {o[n]} PROVE k \in Range(p)
  <2>1. PICK i \in 1..Len(o) : o[i] = k /\ i # n
    BY <1>1 DEF Range
  <2> DEFINE j == IF i < n THEN i ELSE i - 1
  <2>2. j \in 1..(Len(o) - 1) /\ p[j] = k
    BY <2>1, <1>1, <1>4
  <2> QED BY <2>2, <1>5 DEF Range
<1>7. ASSUME NEW i \in 1..(Len(o) - 1) PROVE p[i] \in Range(o) \ {o[n]}
  <2> DEFINE j == IF i < n THEN i ELSE i + 1
  <2>1. j \in 1..Len(o) /\ j # n /\ p[i] = o[j]
    BY <1>1, <1>4
  <2> QED BY <2>1, <1>1 DEF Range
<1>8. Range(p) = Range(o) \ {o[n]}
  BY <1>5, <1>6, <1>7 DEF Range
<1>9. \A i, j \in DOMAIN p : p[i] = p[j] => i = j
  <2>1. SUFFICES ASSUME NEW i \in 1..(Len(o) - 1), NEW j \in 1..(Len(o) - 1), p[i] = p[j]
                 PROVE  i = j
    BY <1>5
  <2> DEFINE a == IF i < n THEN i ELSE i + 1
             b == IF j < n THEN j ELSE j + 1
  <2>2. a \in 1..Len(o) /\ b \in 1..Len(o) /\ p[i] = o[a] /\ p[j] = o[b]
    BY <1>1, <1>4
  <2>3. a = b
    BY <1>1, <2>1, <2>2
  <2> QED BY <1>1, <2>3
<1> QED BY <1>4, <1>8, <1>9 DEF p

LEMMA NothingTold == ASSUME outcome' = "none" PROVE OutcomeIsTrue'
BY DEF OutcomeIsTrue

LEMMA NothingUnderWay == ASSUME phase' = "idle" PROVE PhaseInv'
BY DEF PhaseInv, Applying, Undoing

\* The table is what a configuration can hold.
LEMMA TableIsConfig ==
    ASSUME TypeOK, Table
    PROVE  /\ HostsOf(order, row) \in HostLists /\ KeysOf(HostsOf(order, row)) = tree
           /\ Snapshot = [hosts |-> HostsOf(order, row), settings |-> settings]
           /\ Snapshot \in Configs
<1>1. HostsOf(order, row) \in HostLists /\ KeysOf(HostsOf(order, row)) = Range(order)
  BY HostsOfFacts DEF TypeOK, Table
<1>2. Snapshot = [hosts |-> HostsOf(order, row), settings |-> settings]
  BY DEF Snapshot, HostsOf
<1> QED BY <1>1, <1>2 DEF TypeOK, Table, Configs

LEMMA NoRowIsEntry == ASSUME NEW k \in Keys, Labels # {} PROVE NoRow \in Entries
BY DEF NoRow, Entry, Entries

\* The table made of a configuration.
LEMMA LoadedTable ==
    ASSUME NEW c \in Configs, tree' = KeysOf(c.hosts), order' = OrderOf(c.hosts),
           row' = RowsOf(c.hosts), tracker' = NothingKnown, settings' = c.settings
    PROVE  /\ tree' \subseteq Keys /\ order' \in Seq(Keys)
           /\ \A i, j \in DOMAIN order' : order'[i] = order'[j] => i = j
           /\ row' \in [Keys -> Entries] /\ tracker' \in [Keys -> States]
           /\ settings' \in Settings /\ Table'
<1>1. c.hosts \in HostLists /\ c.settings \in Settings /\ Labels # {}
  BY ConfigFields
<1>2. tracker' \in [Keys -> States]
  BY DEF NothingKnown, States
<1> QED BY <1>1, <1>2, Tables, RowsAreThere DEF Table

LEMMA InitImport == ASSUME Init PROVE ImportInv
<1>1. file \in Configs
  BY RestoreAssumption DEF Init
<1>2. file.hosts \in HostLists /\ file.settings \in Settings /\ Labels # {}
  BY <1>1, ConfigFields
<1>3. tracker \in [Keys -> States]
  BY DEF Init, NothingKnown, States
<1>4. Table
  BY <1>2, Tables, RowsAreThere DEF Table, Init
<1>5. TypeOK
  BY <1>1, <1>2, <1>3, Tables, RowsAreThere DEF TypeOK, Init, Phases
<1>6. PhaseInv /\ OutcomeIsTrue
  BY DEF Init, PhaseInv, Applying, Undoing, OutcomeIsTrue
<1> QED BY <1>4, <1>5, <1>6 DEF ImportInv

LEMMA BetweenImports ==
    ASSUME ImportInv, (\E k \in Keys : Observe(k)) \/ Edit \/ SaveConfig \/ Restart
    PROVE  ImportInv'
<1> USE DEF ImportInv
<1>1. phase' = "idle" /\ outcome' = "none" /\ backups' = backups /\ at' \in Nat /\ undone' = TRUE
  <2>1. CASE Idle
    BY <2>1 DEF Idle, TypeOK
  <2>2. CASE Restart
    BY <2>2 DEF Restart
  <2> QED BY <2>1, <2>2 DEF Observe, Edit, SaveConfig
<1>2. PhaseInv' /\ OutcomeIsTrue'
  BY <1>1, NothingTold, NothingUnderWay
<1>3. ASSUME NEW k \in Keys, Observe(k) PROVE TypeOK' /\ Table'
  <2>1. UNCHANGED <<tree, order, row, settings, file>> /\ tracker' \in [Keys -> States]
    BY <1>3 DEF Observe, TypeOK, States
  <2> QED BY <2>1, <1>1 DEF TypeOK, Table, Phases
<1>4. ASSUME Edit PROVE TypeOK' /\ Table'
  <2>1. UNCHANGED <<tree, order, tracker, file>>
    BY <1>4 DEF Edit
  <2>2. row' \in [Keys -> Entries] /\ \A k \in Keys : row'[k].key = row[k].key
    <3>1. CASE row' = row
      BY <3>1 DEF TypeOK
    <3>2. ASSUME NEW k \in tree, NEW l \in Labels,
                 row' = [row EXCEPT ![k].label = l, ![k].window = ~@]
          PROVE  row' \in [Keys -> Entries] /\ \A j \in Keys : row'[j].key = row[j].key
      <4>1. row \in [Keys -> Entries] /\ k \in Keys /\ row[k] \in Entries
        BY DEF TypeOK
      <4>2. /\ \A j \in Keys : j # k => row'[j] = row[j]
            /\ row'[k] = [row[k] EXCEPT !.label = l, !.window = ~@]
            /\ row' = [j \in Keys |-> row'[j]]
        BY <3>2, <4>1
      <4>3. row'[k] \in Entries /\ row'[k].key = row[k].key
        BY <4>1, <4>2 DEF Entries
      <4> QED BY <4>1, <4>2, <4>3
    <3> QED BY <1>4, <3>1, <3>2 DEF Edit
  <2>3. settings' \in Settings
    <3>1. CASE settings' = settings
      BY <3>1 DEF TypeOK
    <3>2. ASSUME NEW l \in Labels,
                 settings' = [settings EXCEPT !.theme = l, !.health = l, !.endpoint = ~@]
          PROVE  settings' \in Settings
      BY <3>2 DEF TypeOK, Settings
    <3> QED BY <1>4, <3>1, <3>2 DEF Edit
  <2> QED BY <2>1, <2>2, <2>3, <1>1 DEF TypeOK, Table, Phases
<1>5. ASSUME SaveConfig PROVE TypeOK' /\ Table'
  <2>1. UNCHANGED <<tree, order, row, tracker, settings>> /\ file' \in Configs
    BY <1>5, TableIsConfig DEF SaveConfig, live
  <2> QED BY <2>1, <1>1 DEF TypeOK, Table, Phases
<1>6. ASSUME Restart PROVE TypeOK' /\ Table'
  <2>1. file \in Configs /\ file' = file
    BY <1>6 DEF Restart, TypeOK
  <2>2. /\ tree' \subseteq Keys /\ order' \in Seq(Keys)
        /\ \A i, j \in DOMAIN order' : order'[i] = order'[j] => i = j
        /\ row' \in [Keys -> Entries] /\ tracker' \in [Keys -> States]
        /\ settings' \in Settings /\ Table'
    BY <1>6, <2>1, LoadedTable DEF Restart
  <2> QED BY <2>1, <2>2, <1>1 DEF TypeOK, Phases
<1> QED BY <1>2, <1>3, <1>4, <1>5, <1>6

LEMMA BeginImport ==
    ASSUME ImportInv, NEW backup \in Imports, NEW s \in Selections, Begin(backup, s)
    PROVE  ImportInv'
<1> USE DEF ImportInv
<1>1. /\ UNCHANGED <<tree, order, row, tracker, settings, file, backups>>
      /\ phase' = "safety" /\ at' = 0 /\ outcome' = "none" /\ undone' = TRUE
  BY DEF Begin, live
<1>2. /\ Snapshot \in Configs /\ backup \in Configs
      /\ Snapshot.hosts = HostsOf(order, row) /\ KeysOf(HostsOf(order, row)) = tree
  BY TableIsConfig, RestoreAssumption
<1>3. /\ Planned(Snapshot, backup, s) \in Configs
      /\ ~ s.targets => Planned(Snapshot, backup, s).hosts = Snapshot.hosts
  BY <1>2, PlannedConfig
<1>4. /\ job'.current = Snapshot /\ job'.plan = Planned(Snapshot, backup, s)
      /\ job'.targets = s.targets /\ job'.before = Live /\ job'.disk = file
  BY DEF Begin
<1>5. Live = [config |-> Snapshot, tree |-> tree, tracker |-> tracker]
  BY DEF Live
<1>6. Live' = Live
  BY <1>1 DEF Live, Snapshot
<1>7. s.targets \in BOOLEAN
  BY DEF Selections
<1>8. Live \in [config : Configs, tree : SUBSET Keys, tracker : [Keys -> States]]
  BY <1>2, <1>5 DEF TypeOK
<1>9. JobOK'
  BY <1>2, <1>3, <1>4, <1>5, <1>7, <1>8 DEF JobOK
<1>10. PhaseInv'
  BY <1>1, <1>4, <1>6, <1>9 DEF PhaseInv, Applying, Undoing
<1>11. TypeOK' /\ Table'
  BY <1>1, <1>2, <1>3, <1>4 DEF TypeOK, Table, Phases
<1> QED BY <1>1, <1>10, <1>11, NothingTold

LEMMA SafetyStep == ASSUME ImportInv, WriteSafety PROVE ImportInv'
<1> USE DEF ImportInv
<1>1. UNCHANGED <<tree, order, row, tracker, settings, file, at, job, undone>> /\ phase = "safety"
  BY DEF WriteSafety, live
<1>2. JobOK /\ JobOK' /\ Live = job.before /\ Live' = Live /\ file = job.disk /\ at = 0 /\ outcome = "none"
  BY <1>1 DEF PhaseInv, JobOK, Live, Snapshot
<1>3. CASE backups' = backups \union {SafetyOf} /\ phase' = "commit" /\ outcome' = outcome
  <2>1. backups' \subseteq Configs
    BY <1>2, <1>3, PortableConfig DEF SafetyOf, JobOK, TypeOK
  <2>2. PhaseInv'
    BY <1>1, <1>2, <1>3 DEF PhaseInv, Applying, Undoing
  <2> QED BY <1>1, <1>2, <1>3, <2>1, <2>2, NothingTold DEF TypeOK, Table, Phases, JobOK
<1>4. CASE backups' = backups /\ phase' = "idle" /\ outcome' = "refused"
  <2>1. OutcomeIsTrue'
    BY <1>1, <1>2, <1>4 DEF OutcomeIsTrue
  <2> QED BY <1>1, <1>4, <2>1, NothingUnderWay DEF TypeOK, Table, Phases
<1> QED BY <1>3, <1>4 DEF WriteSafety, Tell

LEMMA CommitStep == ASSUME ImportInv, Commit PROVE ImportInv'
<1> USE DEF ImportInv
<1>1. /\ UNCHANGED <<tree, order, row, tracker, settings, backups, at, job, undone>>
      /\ phase = "commit"
  BY DEF Commit, live
<1>2. JobOK /\ JobOK' /\ Live = job.before /\ Live' = Live /\ file = job.disk /\ at = 0 /\ outcome = "none"
  BY <1>1 DEF PhaseInv, JobOK, Live, Snapshot
<1>3. CASE /\ file' = job.plan /\ outcome' = outcome
           /\ phase' = IF job.targets THEN "hosts" ELSE "preferences"
  <2>1. job.before.tree = tree /\ job.before.tracker = tracker /\ job.before.config = Snapshot
    BY <1>2 DEF Live
  <2>2. KnownAsBefore'
    BY <1>1, <2>1 DEF KnownAsBefore
  <2>3. job.plan.hosts \in HostLists
    BY <1>2, ConfigFields DEF JobOK
  <2>4. Len(job.plan.hosts) \in Nat
    BY <2>3 DEF HostLists
  <2>5. Placing'
    BY <1>1, <1>2, <2>1, <2>2, <2>4 DEF Placing
  <2>6. CASE ~ job.targets
    <3>1. HostsOf(order, row) = job.plan.hosts /\ KeysOf(job.plan.hosts) = tree
      BY <1>2, <2>1, <2>6, TableIsConfig DEF JobOK
    <3>2. Landed'
      BY <1>1, <2>2, <3>1 DEF Landed, HostsOf
    <3>3. PhaseInv'
      BY <1>1, <1>2, <1>3, <2>6, <3>2 DEF PhaseInv, Applying, Undoing
    <3> QED BY <1>1, <1>2, <1>3, <2>6, <3>3, NothingTold DEF TypeOK, Table, Phases, JobOK
  <2>7. CASE job.targets
    <3>1. PhaseInv'
      BY <1>1, <1>2, <1>3, <2>5, <2>7 DEF PhaseInv, Applying, Undoing
    <3> QED BY <1>1, <1>2, <1>3, <2>7, <3>1, NothingTold DEF TypeOK, Table, Phases, JobOK
  <2> QED BY <2>6, <2>7, <1>2 DEF JobOK
<1>4. CASE file' = file /\ phase' = "idle" /\ outcome' = "refused"
  <2>1. OutcomeIsTrue'
    BY <1>1, <1>2, <1>4 DEF OutcomeIsTrue
  <2> QED BY <1>1, <1>4, <2>1, NothingUnderWay DEF TypeOK, Table, Phases
<1> QED BY <1>3, <1>4 DEF Commit, Tell

\* What the steps that apply the targets leave alone.
LEMMA PlacingFrame ==
    ASSUME ImportInv, ApplyRecord \/ DeleteRow
    PROVE  /\ UNCHANGED <<settings, file, backups, phase, job, undone, outcome>>
           /\ phase = "hosts" /\ JobOK /\ JobOK' /\ Placing /\ outcome = "none"
           /\ file = job.plan /\ job.plan.hosts \in HostLists
           /\ job.plan.hosts \in Seq(Entries)
<1>1. /\ UNCHANGED <<settings, file, backups, phase, job, undone, outcome>> /\ phase = "hosts"
  BY DEF ApplyRecord, DeleteRow, Step
<1>2. JobOK /\ JobOK' /\ Placing /\ outcome = "none" /\ file = job.plan
  BY <1>1 DEF ImportInv, PhaseInv, JobOK, Applying
<1>3. job.plan.hosts \in HostLists
  BY <1>2, ConfigFields DEF JobOK
<1> QED BY <1>1, <1>2, <1>3 DEF HostLists

\* What is left to show of such a step.
LEMMA PlacingDone ==
    ASSUME ImportInv, ApplyRecord \/ DeleteRow, Placing', Table', tree' \subseteq Keys,
           order' \in Seq(Keys), \A i, j \in DOMAIN order' : order'[i] = order'[j] => i = j,
           row' \in [Keys -> Entries], tracker' \in [Keys -> States], at' \in Nat
    PROVE  ImportInv'
<1>1. /\ UNCHANGED <<settings, file, backups, phase, job, undone, outcome>>
      /\ phase = "hosts" /\ JobOK /\ JobOK' /\ outcome = "none" /\ file = job.plan
  BY PlacingFrame
<1>2. PhaseInv'
  BY <1>1 DEF PhaseInv, Applying, Undoing
<1>3. TypeOK'
  BY <1>1 DEF ImportInv, TypeOK, JobOK
<1> QED BY <1>1, <1>2, <1>3, NothingTold DEF ImportInv

LEMMA ApplyRecordStep == ASSUME ImportInv, ApplyRecord PROVE ImportInv'
<1> DEFINE hosts == job.plan.hosts
           r == hosts[at + 1]
<1>1. /\ UNCHANGED <<settings, file, backups, phase, job, undone, outcome>> /\ JobOK /\ Placing
      /\ hosts \in HostLists /\ hosts \in Seq(Entries)
  BY PlacingFrame
<1>2. /\ TypeOK /\ Table /\ at \in Nat /\ at < Len(hosts) /\ at' = at + 1
      /\ row' = [row EXCEPT ![r.key] = r] /\ tree' = tree \union {r.key}
      /\ IF r.key \in tree THEN UNCHANGED <<order, tracker>>
         ELSE order' = Append(order, r.key) /\ tracker' = [tracker EXCEPT ![r.key] = UNKNOWN]
  BY DEF ApplyRecord, ImportInv, TypeOK
<1>3. r \in Entries /\ r.key \in Keys /\ at + 1 \in 1..Len(hosts) /\ Len(hosts) \in Nat
  <2>1. at + 1 \in 1..Len(hosts) /\ Len(hosts) \in Nat
    BY <1>1, <1>2
  <2>2. r \in Entries
    BY <1>1, <2>1
  <2> QED BY <2>1, <2>2 DEF Entries
<1> HIDE DEF r
<1>4. \A i \in 1..at : hosts[i].key # r.key
  BY <1>1, <1>2, <1>3, HostFacts DEF r
<1>5. row' \in [Keys -> Entries] /\ row'[r.key] = r /\ \A k \in Keys : k # r.key => row'[k] = row[k]
  BY <1>2, <1>3 DEF TypeOK
<1>6. tree' \subseteq Keys
  BY <1>2, <1>3 DEF TypeOK
<1>7. \A k \in tree' : row'[k].key = k
  BY <1>2, <1>5, <1>6 DEF Table, TypeOK
<1>8. ASSUME NEW i \in 1..at'
      PROVE  hosts[i].key \in tree' /\ row'[hosts[i].key] = hosts[i]
  <2>1. CASE i \in 1..at
    <3>1. hosts[i].key \in tree /\ row[hosts[i].key] = hosts[i]
      BY <1>1, <2>1 DEF Placing
    <3> QED BY <3>1, <1>2, <1>4, <1>5, <2>1 DEF TypeOK
  <2>2. CASE i = at + 1
    BY <1>2, <1>5, <2>2 DEF r
  <2> QED BY <2>1, <2>2, <1>2
<1>9. at' <= Len(hosts) /\ (at' < Len(hosts) => job.before.tree \subseteq tree')
  BY <1>1, <1>2, <1>3 DEF Placing
<1>10. CASE r.key \in tree
  <2>1. Table'
    BY <1>2, <1>7, <1>10 DEF Table
  <2>2. KnownAsBefore'
    BY <1>1, <1>2, <1>10 DEF Placing, KnownAsBefore
  <2>3. Placing'
    BY <1>1, <1>8, <1>9, <2>2 DEF Placing
  <2> QED BY <1>2, <1>5, <1>6, <1>10, <2>1, <2>3, PlacingDone DEF TypeOK
<1>11. CASE r.key \notin tree
  <2>1. order' = Append(order, r.key) /\ tracker' = [tracker EXCEPT ![r.key] = UNKNOWN]
    BY <1>2, <1>11
  <2>2. /\ order' \in Seq(Keys) /\ Range(order') = Range(order) \union {r.key}
        /\ \A i, j \in DOMAIN order' : order'[i] = order'[j] => i = j
    BY <1>2, <1>3, <1>11, <2>1, AppendKeepsOrder DEF Table, TypeOK
  <2>3. Table'
    BY <1>2, <1>7, <2>2 DEF Table
  <2>4. /\ tracker' \in [Keys -> States] /\ tracker'[r.key] = UNKNOWN
        /\ \A k \in Keys : k # r.key => tracker'[k] = tracker[k]
    BY <1>2, <1>3, <2>1 DEF TypeOK, States
  <2>5. r.key \notin job.before.tree
    BY <1>1, <1>2, <1>11 DEF Placing
  <2>6. KnownAsBefore'
    <3>1. /\ job' = job
          /\ \A k \in tree : tracker[k] = IF k \in job.before.tree THEN job.before.tracker[k] ELSE UNKNOWN
      BY <1>1 DEF Placing, KnownAsBefore
    <3>2. \A k \in tree' : tracker'[k] = IF k \in job.before.tree THEN job.before.tracker[k] ELSE UNKNOWN
      BY <1>2, <1>6, <2>4, <2>5, <3>1
    <3> QED BY <3>1, <3>2 DEF KnownAsBefore
  <2>7. Placing'
    BY <1>1, <1>8, <1>9, <2>6 DEF Placing
  <2> QED BY <1>2, <1>5, <1>6, <2>2, <2>3, <2>4, <2>7, PlacingDone
<1> QED BY <1>10, <1>11

LEMMA DeleteRowStep == ASSUME ImportInv, DeleteRow PROVE ImportInv'
<1> DEFINE hosts == job.plan.hosts
<1>1. /\ UNCHANGED <<settings, file, backups, phase, job, undone, outcome>> /\ JobOK /\ Placing
      /\ hosts \in HostLists /\ hosts \in Seq(Entries)
  BY PlacingFrame
<1>2. PICK i \in DOMAIN order :
          /\ order[i] \notin KeysOf(hosts)
          /\ tree' = tree \ {order[i]} /\ row' = [row EXCEPT ![order[i]] = NoRow]
          /\ tracker' = [tracker EXCEPT ![order[i]] = UNKNOWN]
          /\ order' = RemoveAt(order, i)
  BY DEF DeleteRow
<1>3. TypeOK /\ Table /\ at \in Nat /\ at' = at /\ at = Len(hosts)
  BY DEF DeleteRow, ImportInv, TypeOK
<1> DEFINE k == order[i]
<1>4. k \in Keys /\ NoRow \in Entries
  <2>1. k \in Keys /\ settings \in Settings
    BY <1>3 DEF TypeOK
  <2> QED BY <2>1, SettingsFields, NoRowIsEntry
<1>5. /\ order' \in Seq(Keys) /\ Range(order') = Range(order) \ {k}
      /\ \A m, n \in DOMAIN order' : order'[m] = order'[n] => m = n
  BY <1>2, <1>3, RemoveKeepsOrder DEF TypeOK
<1> HIDE DEF k
<1>6. row' \in [Keys -> Entries] /\ \A q \in Keys : q # k => row'[q] = row[q]
  BY <1>2, <1>3, <1>4 DEF TypeOK, k
<1>7. tracker' \in [Keys -> States] /\ \A q \in Keys : q # k => tracker'[q] = tracker[q]
  BY <1>2, <1>3, <1>4 DEF TypeOK, States, k
<1>8. tree' = tree \ {k} /\ tree' \subseteq Keys /\ k \notin KeysOf(hosts)
  BY <1>2, <1>3 DEF TypeOK, k
<1>9. Table'
  BY <1>3, <1>5, <1>6, <1>8 DEF Table
<1>10. KnownAsBefore'
  <2>1. /\ job' = job
        /\ \A q \in tree : tracker[q] = IF q \in job.before.tree THEN job.before.tracker[q] ELSE UNKNOWN
    BY <1>1 DEF Placing, KnownAsBefore
  <2>2. \A q \in tree' : tracker'[q] = IF q \in job.before.tree THEN job.before.tracker[q] ELSE UNKNOWN
    BY <1>7, <1>8, <2>1
  <2> QED BY <2>1, <2>2 DEF KnownAsBefore
<1>11. ASSUME NEW m \in 1..at PROVE hosts[m].key \in tree' /\ row'[hosts[m].key] = hosts[m]
  <2>1. hosts[m].key \in tree /\ row[hosts[m].key] = hosts[m]
    BY <1>1 DEF Placing
  <2>2. hosts[m].key \in KeysOf(hosts)
    BY <1>1, <1>3, HostFacts
  <2>3. hosts[m].key # k
    BY <1>8, <2>2
  <2> QED BY <2>1, <2>3, <1>3, <1>6, <1>8 DEF TypeOK
<1>12. Placing'
  <2>1. ~ (at < Len(hosts)) /\ at <= Len(hosts)
    BY <1>3
  <2> QED BY <1>1, <1>3, <1>10, <1>11, <2>1 DEF Placing
<1> QED BY <1>3, <1>5, <1>6, <1>7, <1>8, <1>9, <1>12, PlacingDone

LEMMA ArrangeStep == ASSUME ImportInv, Arrange PROVE ImportInv'
<1> DEFINE hosts == job.plan.hosts
<1>1. /\ UNCHANGED <<tree, row, tracker, settings, at, outcome, job, undone, backups, file>>
      /\ phase = "hosts" /\ phase' = "preferences" /\ order' = OrderOf(hosts)
      /\ at = Len(hosts) /\ Range(order) \subseteq KeysOf(hosts)
  BY DEF Arrange, Step, Arranged
<1>2. TypeOK /\ Table /\ JobOK /\ JobOK' /\ Placing /\ outcome = "none" /\ file = job.plan
  BY <1>1 DEF ImportInv, PhaseInv, JobOK, Applying
<1>3. hosts \in HostLists /\ hosts \in Seq(Entries)
  <2>1. hosts \in HostLists
    BY <1>2, ConfigFields DEF JobOK
  <2> QED BY <2>1 DEF HostLists
<1>4. /\ order' \in Seq(Keys) /\ Len(order') = Len(hosts) /\ Range(order') = KeysOf(hosts)
      /\ \A i \in 1..Len(hosts) : order'[i] = hosts[i].key
      /\ \A i, j \in DOMAIN order' : order'[i] = order'[j] => i = j
  BY <1>1, <1>3, Tables
<1>5. \A i \in 1..Len(hosts) : hosts[i].key \in tree /\ row[hosts[i].key] = hosts[i]
  BY <1>1, <1>2 DEF Placing
<1>6. tree = KeysOf(hosts)
  <2>1. KeysOf(hosts) \subseteq tree
    BY <1>3, <1>5, HostFacts
  <2> QED BY <2>1, <1>1, <1>2 DEF Table
<1>7. Table'
  BY <1>1, <1>2, <1>4, <1>6 DEF Table
<1>8. HostsOf(order', row') = hosts
  BY <1>1, <1>3, <1>4, <1>5, HostsOfIs
<1>9. Landed'
  BY <1>1, <1>2, <1>6, <1>8 DEF Landed, Placing, KnownAsBefore
<1>10. PhaseInv'
  BY <1>1, <1>2, <1>9 DEF PhaseInv, Applying, Undoing
<1>11. TypeOK'
  BY <1>1, <1>2, <1>4 DEF TypeOK, JobOK, Phases
<1> QED BY <1>1, <1>2, <1>7, <1>10, <1>11, NothingTold DEF ImportInv

LEMMA PreferencesStep == ASSUME ImportInv, ApplyPreferences PROVE ImportInv'
<1>1. /\ UNCHANGED <<tree, order, row, tracker, at, outcome, job, undone, backups, file>>
      /\ phase = "preferences" /\ phase' = "notifications"
      /\ settings' = [settings EXCEPT !.theme = job.plan.settings.theme,
                                      !.health = job.plan.settings.health]
  BY DEF ApplyPreferences, Step
<1>2. TypeOK /\ Table /\ JobOK /\ JobOK' /\ Landed /\ outcome = "none" /\ file = job.plan
  BY <1>1 DEF ImportInv, PhaseInv, JobOK, Applying
<1>3. job.plan.settings \in Settings
  BY <1>2, ConfigFields DEF JobOK
<1>4. settings' \in Settings /\ SetTo(job.plan.settings)'
  BY <1>1, <1>2, <1>3 DEF TypeOK, Settings, SetTo
<1>5. Landed'
  BY <1>1, <1>2 DEF Landed, KnownAsBefore, HostsOf
<1>6. PhaseInv'
  BY <1>1, <1>2, <1>4, <1>5 DEF PhaseInv, Applying, Undoing
<1>7. TypeOK' /\ Table'
  BY <1>1, <1>2, <1>4 DEF TypeOK, Table, JobOK, Phases
<1> QED BY <1>1, <1>2, <1>6, <1>7, NothingTold DEF ImportInv

LEMMA NotificationsStep == ASSUME ImportInv, ApplyNotifications PROVE ImportInv'
<1>1. /\ UNCHANGED <<tree, order, row, tracker, at, job, undone, backups, file>>
      /\ phase = "notifications" /\ phase' = "idle" /\ outcome' = "imported"
      /\ settings' = [settings EXCEPT !.enabled = job.plan.settings.enabled,
                                      !.endpoint = job.plan.settings.endpoint]
  BY DEF ApplyNotifications, Step, Tell
<1>2. /\ TypeOK /\ Table /\ JobOK /\ JobOK' /\ Landed /\ outcome = "none" /\ file = job.plan
      /\ SetTo(job.plan.settings)
  BY <1>1 DEF ImportInv, PhaseInv, JobOK, Applying
<1>3. /\ job.plan.settings \in Settings
      /\ job.plan = [hosts |-> job.plan.hosts, settings |-> job.plan.settings]
  BY <1>2, ConfigFields DEF JobOK
<1>4. settings' \in Settings /\ settings' = job.plan.settings
  <2>1. settings' \in Settings
    BY <1>1, <1>2, <1>3 DEF TypeOK, Settings
  <2>2. /\ settings'.theme = settings.theme /\ settings'.health = settings.health
        /\ settings'.enabled = job.plan.settings.enabled
        /\ settings'.endpoint = job.plan.settings.endpoint
    BY <1>1, <1>2 DEF TypeOK, Settings
  <2> QED BY <2>1, <2>2, <1>2, <1>3, SettingsEqual DEF SetTo
<1>5. Snapshot' = job.plan
  BY <1>1, <1>2, <1>3, <1>4 DEF Landed, HostsOf, Snapshot
<1>6. OutcomeIsTrue'
  BY <1>1, <1>2, <1>5 DEF OutcomeIsTrue, Landed, KnownAsBefore
<1>7. TypeOK' /\ Table'
  BY <1>1, <1>2, <1>4 DEF TypeOK, Table, Phases
<1> QED BY <1>1, <1>6, <1>7, NothingUnderWay DEF ImportInv

LEMMA RaiseStep == ASSUME ImportInv, Raise PROVE ImportInv'
<1>1. /\ UNCHANGED <<tree, order, row, tracker, settings, at, outcome, job, backups>>
      /\ Applying /\ phase' = "clear"
      /\ \/ file' = job.current /\ undone' = TRUE
         \/ file' = file /\ undone' = FALSE
  BY DEF Raise, live, Fails
<1>2. TypeOK /\ Table /\ JobOK /\ JobOK' /\ outcome = "none" /\ file = job.plan
  BY <1>1 DEF ImportInv, PhaseInv, JobOK, Applying
<1>3. PhaseInv'
  BY <1>1, <1>2 DEF PhaseInv, Applying, Undoing
<1>4. TypeOK' /\ Table'
  BY <1>1, <1>2 DEF TypeOK, Table, JobOK, Phases
<1> QED BY <1>1, <1>2, <1>3, <1>4, NothingTold DEF ImportInv

LEMMA RaiseAgainStep == ASSUME ImportInv, RaiseAgain PROVE ImportInv'
<1>1. /\ UNCHANGED <<tree, order, row, tracker, settings, file, backups, at, job, undone>>
      /\ Undoing /\ phase' = "idle" /\ outcome' = "failed"
  BY DEF RaiseAgain, live, Tell
<1>2. TypeOK /\ Table /\ file \in {job.current, job.plan}
  BY <1>1 DEF ImportInv, PhaseInv
<1>3. OutcomeIsTrue'
  BY <1>1, <1>2 DEF OutcomeIsTrue
<1>4. TypeOK' /\ Table'
  BY <1>1, <1>2 DEF TypeOK, Table, Phases
<1> QED BY <1>1, <1>3, <1>4, NothingUnderWay DEF ImportInv

LEMMA ClearRowsStep == ASSUME ImportInv, ClearRows PROVE ImportInv'
<1>1. /\ UNCHANGED <<tracker, settings, outcome, job, undone, backups, file>>
      /\ phase = "clear" /\ phase' = "rows" /\ at' = 0
      /\ tree' = tree \ Range(order) /\ order' = << >> /\ row' = RowsOf(job.current.hosts)
  BY DEF ClearRows, Step
<1>2. /\ TypeOK /\ Table /\ JobOK /\ JobOK' /\ outcome = "none"
      /\ file = IF undone THEN job.current ELSE job.plan
  BY <1>1 DEF ImportInv, PhaseInv, JobOK, Undoing
<1>3. job.current.hosts \in HostLists /\ job.current.hosts \in Seq(Entries) /\ Labels # {}
  <2>1. job.current.hosts \in HostLists /\ Labels # {}
    BY <1>2, ConfigFields DEF JobOK
  <2> QED BY <2>1 DEF HostLists
<1>4. row' \in [Keys -> Entries]
  BY <1>1, <1>3, RowsAreThere
<1>5. tree' = {} /\ Range(order') = {} /\ order' \in Seq(Keys) /\ Len(order') = 0 /\ DOMAIN order' = {}
  BY <1>1, <1>2 DEF Table, Range
<1>6. PuttingBack'
  BY <1>1, <1>3, <1>5 DEF PuttingBack
<1>7. PhaseInv'
  BY <1>1, <1>2, <1>6 DEF PhaseInv, Applying, Undoing
<1>8. TypeOK' /\ Table'
  BY <1>1, <1>2, <1>4, <1>5 DEF TypeOK, Table, JobOK, Phases
<1> QED BY <1>1, <1>2, <1>7, <1>8, NothingTold DEF ImportInv

LEMMA PutRowStep == ASSUME ImportInv, PutRow PROVE ImportInv'
<1> DEFINE hosts == job.current.hosts
           k == hosts[at + 1].key
<1>1. /\ UNCHANGED <<row, tracker, settings, phase, outcome, job, undone, backups, file>>
      /\ phase = "rows" /\ at < Len(hosts) /\ at' = at + 1
      /\ tree' = tree \union {k} /\ order' = Append(order, k)
  BY DEF PutRow, Step
<1>2. /\ TypeOK /\ Table /\ JobOK /\ JobOK' /\ outcome = "none" /\ PuttingBack
      /\ file = IF undone THEN job.current ELSE job.plan
  BY <1>1 DEF ImportInv, PhaseInv, JobOK, Undoing
<1>3. hosts \in HostLists /\ hosts \in Seq(Entries) /\ Labels # {} /\ Len(hosts) \in Nat
  <2>1. hosts \in HostLists /\ Labels # {}
    BY <1>2, ConfigFields DEF JobOK
  <2> QED BY <2>1 DEF HostLists
<1>4. at \in Nat /\ at + 1 \in 1..Len(hosts) /\ k \in Keys /\ k \in KeysOf(hosts)
  <2>1. at \in Nat /\ at + 1 \in 1..Len(hosts)
    BY <1>1, <1>2, <1>3 DEF TypeOK
  <2>2. hosts[at + 1] \in Entries
    BY <1>3, <2>1
  <2>3. k \in KeysOf(hosts)
    BY <1>3, <2>1, HostFacts
  <2> QED BY <2>1, <2>2, <2>3 DEF Entries
<1>5. /\ Len(order) = at /\ \A i \in 1..at : order[i] = hosts[i].key
      /\ row = RowsOf(hosts)
  BY <1>2 DEF PuttingBack
<1>6. k \notin Range(order)
  <2>1. \A i \in 1..at : hosts[i].key # k
    BY <1>3, <1>4, HostFacts
  <2>2. DOMAIN order = 1..at
    BY <1>2, <1>5 DEF TypeOK
  <2> QED BY <2>1, <2>2, <1>5 DEF Range
<1> HIDE DEF k
<1>7. /\ order' \in Seq(Keys) /\ Range(order') = Range(order) \union {k}
      /\ \A i, j \in DOMAIN order' : order'[i] = order'[j] => i = j
  BY <1>1, <1>2, <1>4, <1>6, AppendKeepsOrder DEF TypeOK
<1>8. Len(order') = at' /\ at' <= Len(hosts) /\ at' \in Nat
  BY <1>1, <1>2, <1>3, <1>4, <1>5 DEF TypeOK
<1>9. \A i \in 1..at' : order'[i] = hosts[i].key
  <2>1. \A i \in 1..at : order'[i] = order[i]
    BY <1>1, <1>2, <1>4, <1>5 DEF TypeOK
  <2>2. order'[at + 1] = k
    BY <1>1, <1>2, <1>4, <1>5 DEF TypeOK
  <2> QED BY <2>1, <2>2, <1>1, <1>4, <1>5 DEF k
<1>10. PuttingBack'
  BY <1>1, <1>5, <1>8, <1>9 DEF PuttingBack
<1>11. Table'
  <2>1. row'[k].key = k
    BY <1>1, <1>3, <1>4, <1>5, RowsAreThere
  <2> QED BY <2>1, <1>1, <1>2, <1>7 DEF Table
<1>12. PhaseInv'
  BY <1>1, <1>2, <1>10 DEF PhaseInv, Applying, Undoing
<1>13. TypeOK'
  BY <1>1, <1>2, <1>4, <1>7, <1>8 DEF TypeOK, JobOK, Phases
<1> QED BY <1>1, <1>2, <1>11, <1>12, <1>13, NothingTold DEF ImportInv

LEMMA PutTrackerStep == ASSUME ImportInv, PutTracker PROVE ImportInv'
<1> DEFINE hosts == job.current.hosts
<1>1. /\ UNCHANGED <<tree, order, row, settings, at, outcome, job, undone, backups, file>>
      /\ phase = "rows" /\ phase' = "undo preferences" /\ at = Len(hosts)
      /\ tracker' = job.before.tracker
  BY DEF PutTracker, Step, TrackerBefore
<1>2. /\ TypeOK /\ Table /\ JobOK /\ JobOK' /\ outcome = "none" /\ PuttingBack
      /\ file = IF undone THEN job.current ELSE job.plan
  BY <1>1 DEF ImportInv, PhaseInv, JobOK, Undoing
<1>3. hosts \in HostLists /\ Labels # {}
  BY <1>2, ConfigFields DEF JobOK
<1>4. \A i \in 1..Len(hosts) : row[hosts[i].key] = hosts[i]
  BY <1>2, <1>3, RowsAreThere DEF PuttingBack
<1>5. HostsOf(order, row) = hosts
  <2>1. /\ order \in Seq(Keys) /\ Len(order) = Len(hosts)
        /\ \A i \in 1..Len(hosts) : order[i] = hosts[i].key
    BY <1>1, <1>2 DEF PuttingBack, TypeOK
  <2> QED BY <2>1, <1>3, <1>4, HostsOfIs
<1>6. tree = KeysOf(hosts)
  BY <1>2, <1>5, TableIsConfig
<1>7. Back'
  BY <1>1, <1>5, <1>6 DEF Back, HostsOf
<1>8. PhaseInv'
  BY <1>1, <1>2, <1>7 DEF PhaseInv, Applying, Undoing
<1>9. tracker' \in [Keys -> States]
  BY <1>1, <1>2 DEF JobOK
<1>10. TypeOK' /\ Table'
  BY <1>1, <1>2, <1>9 DEF TypeOK, Table, JobOK, Phases
<1> QED BY <1>1, <1>2, <1>8, <1>10, NothingTold DEF ImportInv

LEMMA UndoPreferencesStep == ASSUME ImportInv, UndoPreferences PROVE ImportInv'
<1>1. /\ UNCHANGED <<tree, order, row, tracker, at, outcome, job, undone, backups, file>>
      /\ phase = "undo preferences" /\ phase' = "undo notifications"
      /\ settings' = [settings EXCEPT !.theme = job.current.settings.theme,
                                      !.health = job.current.settings.health]
  BY DEF UndoPreferences, Step
<1>2. /\ TypeOK /\ Table /\ JobOK /\ JobOK' /\ outcome = "none" /\ Back
      /\ file = IF undone THEN job.current ELSE job.plan
  BY <1>1 DEF ImportInv, PhaseInv, JobOK, Undoing
<1>3. job.current.settings \in Settings
  BY <1>2, ConfigFields DEF JobOK
<1>4. settings' \in Settings /\ SetTo(job.current.settings)'
  BY <1>1, <1>2, <1>3 DEF TypeOK, Settings, SetTo
<1>5. Back'
  BY <1>1, <1>2 DEF Back, HostsOf
<1>6. PhaseInv'
  BY <1>1, <1>2, <1>4, <1>5 DEF PhaseInv, Applying, Undoing
<1>7. TypeOK' /\ Table'
  BY <1>1, <1>2, <1>4 DEF TypeOK, Table, JobOK, Phases
<1> QED BY <1>1, <1>2, <1>6, <1>7, NothingTold DEF ImportInv

LEMMA UndoNotificationsStep == ASSUME ImportInv, UndoNotifications PROVE ImportInv'
<1>1. /\ UNCHANGED <<tree, order, row, tracker, at, job, undone, backups, file>>
      /\ phase = "undo notifications" /\ phase' = "idle"
      /\ outcome' = IF undone THEN "restored" ELSE "disk"
      /\ settings' = [settings EXCEPT !.enabled = job.current.settings.enabled,
                                      !.endpoint = job.current.settings.endpoint]
  BY DEF UndoNotifications, Step, Tell
<1>2. /\ TypeOK /\ Table /\ JobOK /\ outcome = "none" /\ Back /\ SetTo(job.current.settings)
      /\ file = IF undone THEN job.current ELSE job.plan
  BY <1>1 DEF ImportInv, PhaseInv, JobOK, Undoing
<1>3. /\ job.current.settings \in Settings
      /\ job.current = [hosts |-> job.current.hosts, settings |-> job.current.settings]
  BY <1>2, ConfigFields DEF JobOK
<1>4. settings' \in Settings /\ settings' = job.current.settings
  <2>1. settings' \in Settings
    BY <1>1, <1>2, <1>3 DEF TypeOK, Settings
  <2>2. /\ settings'.theme = settings.theme /\ settings'.health = settings.health
        /\ settings'.enabled = job.current.settings.enabled
        /\ settings'.endpoint = job.current.settings.endpoint
    BY <1>1, <1>2 DEF TypeOK, Settings
  <2> QED BY <2>1, <2>2, <1>2, <1>3, SettingsEqual DEF SetTo
<1>5. Snapshot' = job.current
  BY <1>1, <1>2, <1>3, <1>4 DEF Back, HostsOf, Snapshot
<1>6. Live' = job.before
  <2>1. Live' = [config |-> job.before.config, tree |-> job.before.tree, tracker |-> job.before.tracker]
    BY <1>1, <1>2, <1>5 DEF Live, Back, JobOK
  <2>2. job.before = [config |-> job.before.config, tree |-> job.before.tree,
                      tracker |-> job.before.tracker]
    BY <1>2 DEF JobOK
  <2> QED BY <2>1, <2>2
<1>7. OutcomeIsTrue'
  BY <1>1, <1>2, <1>6 DEF OutcomeIsTrue
<1>8. TypeOK' /\ Table'
  BY <1>1, <1>2, <1>4 DEF TypeOK, Table, Phases
<1> QED BY <1>1, <1>7, <1>8, NothingUnderWay DEF ImportInv

LEMMA ImportStutter == ASSUME ImportInv, UNCHANGED vars PROVE ImportInv'
<1>1. PhaseInv'
  BY DEF ImportInv, PhaseInv, JobOK, Placing, Landed, PuttingBack, Back, SetTo, KnownAsBefore,
         HostsOf, Live, Snapshot, Applying, Undoing, vars
<1>2. OutcomeIsTrue'
  BY DEF ImportInv, OutcomeIsTrue, Live, Snapshot, vars
<1> QED BY <1>1, <1>2 DEF ImportInv, TypeOK, Table, vars

LEMMA ImportNext == ASSUME ImportInv, [Next]_vars PROVE ImportInv'
<1>1. CASE Apply
  BY <1>1, ApplyRecordStep, DeleteRowStep, ArrangeStep, PreferencesStep, NotificationsStep DEF Apply
<1>2. CASE Undo
  BY <1>2, ClearRowsStep, PutRowStep, PutTrackerStep, UndoPreferencesStep, UndoNotificationsStep
     DEF Undo
<1> QED BY <1>1, <1>2, BeginImport, SafetyStep, CommitStep, RaiseStep, RaiseAgainStep,
           BetweenImports, ImportStutter DEF Next

\* The types of the restore, for every configuration it begins with and every backup.
THEOREM RestoreTypes == Spec => []TypeOK
<1>1. ImportInv => TypeOK
  BY DEF ImportInv
<1> QED BY <1>1, InitImport, ImportNext, PTL DEF Spec

\* What the user is told of an import is so: see OutcomeIsTrue.
THEOREM OutcomesAreTrue == Spec => []OutcomeIsTrue
<1>1. ImportInv => OutcomeIsTrue
  BY DEF ImportInv
<1> QED BY <1>1, InitImport, ImportNext, PTL DEF Spec
================================================================================
