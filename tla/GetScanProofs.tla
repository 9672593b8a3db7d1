---------------------------- MODULE GetScanProofs ----------------------------
(***************************************************************************)
(* Theorems about the GET/SCAN policy, for any number of folios and threads *)
(* and whatever the bounds: types, the agreement of flag and list, the      *)
(* account of the counter scan_pages, the length of the list it stands for, *)
(* and the refinement of PagePolicy.                                        *)
(***************************************************************************)
EXTENDS GetScan, CacheExtListsProofs

Locked == AddLabels \cup EvictedLabels

\* What is known of the folio of a thread in the middle of a hook.
HookInv ==
    \A t \in Threads :
        /\ th[t].pc \in AddLabels => th[t].f \in cached /\ th[t].f \notin touched
        /\ th[t].pc = "add_list" =>
             th[t].f \notin ToSet(scan_list) /\ th[t].f \notin ToSet(general_list)
        /\ th[t].pc = "add_count" => th[t].scan
        /\ th[t].pc \in {"add_count", "add_meta"} /\ th[t].scan =>
             th[t].f \in ToSet(scan_list)
        /\ th[t].pc \in EvictedLabels => th[t].f \in Folios /\ th[t].f \notin cached
        /\ th[t].pc = "evicted_count" => th[t].scan /\ th[t].f \notin touched
        /\ th[t].pc = "create" => th[t].f \in Folios

\* The folio lock.
Exclusive ==
    \A t, u \in Threads :
        t # u /\ th[t].pc \in Locked /\ th[u].pc \in Locked => th[t].f # th[u].f

Relations == HookInv /\ Exclusive /\ TouchedIsOnScanList

IndInv == TypeOK /\ Relations /\ ScanPagesConserved

-----------------------------------------------------------------------------
(* Threads and cardinalities *)

\* A step of thread t alone.
LEMMA ThreadStep ==
    ASSUME TypeOK, NEW t \in Threads, NEW new \in ThreadStates,
           th' = [th EXCEPT ![t] = new]
    PROVE  /\ th' \in [Threads -> ThreadStates]
           /\ th'[t] = new
           /\ \A u \in Threads : u # t => th'[u] = th[u]
BY DEF TypeOK

\* The states a hook gives its thread.
LEMMA NewStates ==
    /\ Idle \in ThreadStates /\ Idle.pc = "idle" /\ Idle.scan = FALSE
    /\ \A l \in Labels, f \in Folios \cup {NoFolio}, b \in BOOLEAN :
          [pc |-> l, f |-> f, scan |-> b] \in ThreadStates
BY DEF Idle, ThreadStates, Labels

\* A thread may enter a locked section for a folio that no other thread is in.
LEMMA ExclusiveStep ==
    ASSUME Exclusive, NEW t \in Threads,
           \A u \in Threads : u # t => th'[u] = th[u],
           th'[t].pc \in Locked =>
              \A u \in Threads : u # t /\ th[u].pc \in Locked => th[u].f # th'[t].f
    PROVE  Exclusive'
BY DEF Exclusive

\* One element more or less.
LEMMA CardinalityStep ==
    ASSUME NEW S, IsFiniteSet(S), NEW x
    PROVE  /\ Cardinality(S) \in Nat
           /\ x \notin S => Cardinality(S \cup {x}) = Cardinality(S) + 1
           /\ x \in S => Cardinality(S) = Cardinality(S \ {x}) + 1
           /\ IsFiniteSet(S \ {x}) /\ Cardinality(S \ {x}) \in Nat
<1>1. Cardinality(S) \in Nat
    BY FS_CardinalityType
<1>2. x \notin S => Cardinality(S \cup {x}) = Cardinality(S) + 1
    BY FS_AddElement
<1>3. IsFiniteSet(S \ {x}) /\ Cardinality(S \ {x}) \in Nat
    BY FS_RemoveElement, FS_CardinalityType
<1>4. x \in S => Cardinality(S) = Cardinality(S \ {x}) + 1
  <2>1. ASSUME x \in S PROVE Cardinality((S \ {x}) \cup {x}) = Cardinality(S \ {x}) + 1
      BY <1>3, FS_AddElement
  <2>2. x \in S => (S \ {x}) \cup {x} = S
      OBVIOUS
  <2> QED
      BY <2>1, <2>2
<1> QED
    BY <1>1, <1>2, <1>3, <1>4

LEMMA FiniteAccounts ==
    ASSUME TypeOK
    PROVE  /\ IsFiniteSet(Flagged) /\ Cardinality(Flagged) \in Nat
           /\ IsFiniteSet(Pending) /\ Cardinality(Pending) \in Nat
<1>1. IsFiniteSet(Folios) /\ IsFiniteSet(Threads)
    BY GetScanAssumption
<1>2. Flagged \subseteq Folios /\ Pending \subseteq Threads
    BY DEF TypeOK, Flagged, Pending, ThreadsAt
<1> QED
    BY <1>1, <1>2, FS_Subset, FS_CardinalityType

\* The thread that moves is the only one that enters or leaves Pending.
Counted(t) == th[t].scan /\ th[t].pc \in PendingLabels

LEMMA PendingStep ==
    ASSUME TypeOK, NEW t \in Threads, \A u \in Threads : u # t => th'[u] = th[u]
    PROVE  /\ Counted(t)' /\ ~Counted(t) => Cardinality(Pending') = Cardinality(Pending) + 1
           /\ ~Counted(t)' /\ Counted(t) => Cardinality(Pending) = Cardinality(Pending') + 1
           /\ (Counted(t)' <=> Counted(t)) => Pending' = Pending
<1>1. IsFiniteSet(Pending)
    BY FiniteAccounts
<1>2. t \in Pending <=> Counted(t)
    BY DEF Pending, ThreadsAt, Counted
<1>3. \A u \in Threads : u # t => (u \in Pending' <=> u \in Pending)
    BY DEF Pending, ThreadsAt
<1>4. t \in Pending' <=> Counted(t)'
    BY DEF Pending, ThreadsAt, Counted
<1>5. Pending \subseteq Threads /\ Pending' \subseteq Threads
    BY DEF Pending, ThreadsAt
<1>6. CASE Counted(t)' /\ ~Counted(t)
  <2>1. Pending' = Pending \cup {t} /\ t \notin Pending
      BY <1>2, <1>3, <1>4, <1>5, <1>6
  <2> QED
      BY <1>1, <1>6, <2>1, CardinalityStep
<1>7. CASE ~Counted(t)' /\ Counted(t)
  <2>1. Pending' = Pending \ {t} /\ t \in Pending
      BY <1>2, <1>3, <1>4, <1>5, <1>7
  <2> QED
      BY <1>1, <1>7, <2>1, CardinalityStep
<1>8. CASE Counted(t)' <=> Counted(t)
  <2>1. Pending' = Pending
      BY <1>2, <1>3, <1>4, <1>5, <1>8
  <2> QED
      BY <1>8, <2>1
<1> QED
    BY <1>6, <1>7, <1>8

\* A thread that neither enters nor leaves "evicted_delete" leaves FlagRead alone.
LEMMA FlagReadKept ==
    ASSUME NEW t \in Threads, \A u \in Threads : u # t => th'[u] = th[u],
           th[t].pc # "evicted_delete", th'[t].pc # "evicted_delete"
    PROVE  FlagRead' = FlagRead
<1>1. \A u \in Threads : th'[u].pc = "evicted_delete" => u # t /\ th'[u] = th[u]
    OBVIOUS
<1>2. \A u \in Threads : th[u].pc = "evicted_delete" => u # t /\ th'[u] = th[u]
    OBVIOUS
<1> QED
    BY <1>1, <1>2 DEF FlagRead, ThreadsAt

\* The account of a step that moves no folio between its columns.
LEMMA QuietAccount ==
    ASSUME IndInv, NEW t \in Threads, \A u \in Threads : u # t => th'[u] = th[u],
           Counted(t)' <=> Counted(t),
           th[t].pc # "evicted_delete", th'[t].pc # "evicted_delete",
           UNCHANGED <<touched, scan_pages, lost>>
    PROVE  ScanPagesConserved'
<1>1. Pending' = Pending
    BY PendingStep DEF IndInv
<1>2. Flagged' = Flagged
    BY FlagReadKept DEF Flagged
<1> QED
    BY <1>1, <1>2 DEF IndInv, ScanPagesConserved

\* A step of thread t outside the locked sections disturbs no relation, if lists,
\* cache and account stay and no folio gets the flag.
LEMMA QuietStep ==
    ASSUME IndInv, NEW t \in Threads, NEW new \in ThreadStates,
           th' = [th EXCEPT ![t] = new],
           th[t].pc \notin Locked, new.pc \notin Locked,
           new.pc = "create" => new.f \in Folios,
           touched' \subseteq touched,
           UNCHANGED <<cached, scan_list, general_list>>
    PROVE  Relations'
<1>1. /\ th'[t] = new /\ \A u \in Threads : u # t => th'[u] = th[u]
    BY ThreadStep DEF IndInv
<1>2. HookInv'
  <2> SUFFICES ASSUME NEW u \in Threads PROVE HookInv!(u)'
      BY DEF HookInv
  <2>1. CASE u = t
      BY <1>1, <2>1 DEF Locked, AddLabels, EvictedLabels
  <2>2. CASE u # t
    <3>1. HookInv!(u)
        BY DEF IndInv, Relations, HookInv
    <3> QED
        BY <1>1, <2>2, <3>1
  <2> QED
      BY <2>1, <2>2
<1>3. Exclusive'
    BY <1>1, ExclusiveStep DEF IndInv, Relations
<1>4. \A g : Removing(g) => Removing(g)'
    BY <1>1 DEF Removing, ThreadsAt, Locked
<1>5. TouchedIsOnScanList'
    BY <1>4 DEF IndInv, Relations, TouchedIsOnScanList
<1> QED
    BY <1>2, <1>3, <1>5 DEF Relations

-----------------------------------------------------------------------------
LEMMA InitIndInv == Init => IndInv
<1> SUFFICES ASSUME Init PROVE IndInv
    OBVIOUS
<1>1. \A t \in Threads : th[t] = Idle /\ th[t].pc = "idle"
    BY NewStates DEF Init
<1>2. TypeOK
  <2>1. /\ scan_list = <<>> /\ general_list = <<>> /\ ToSet(<<>>) = {}
        /\ <<>> \in Seq(Folios) /\ IsInjective(<<>>)
      BY DEF Init, ToSet, IsInjective
  <2>2. th \in [Threads -> ThreadStates]
      BY NewStates DEF Init
  <2>3. cached \subseteq Folios /\ tracked \subseteq Folios /\ touched \subseteq tracked
      BY DEF Init
  <2>4. watched \in BOOLEAN
      BY DEF Init
  <2>5. scan_pages \in Nat /\ lost \in 0 .. MaxLost
      BY GetScanAssumption DEF Init
  <2> QED
      BY <2>1, <2>2, <2>3, <2>4, <2>5, Zenon DEF TypeOK
<1>3. Relations
    BY <1>1 DEF Init, Relations, HookInv, Exclusive, TouchedIsOnScanList,
                Locked, AddLabels, EvictedLabels
<1>4. ScanPagesConserved
  <2>1. Flagged = {} /\ Pending = {}
      BY <1>1 DEF Init, Flagged, Pending, PendingLabels, ThreadsAt
  <2>2. Cardinality({}) = 0
      BY FS_EmptySet
  <2> QED
      BY <2>1, <2>2 DEF Init, ScanPagesConserved
<1> QED
    BY <1>2, <1>3, <1>4 DEF IndInv

-----------------------------------------------------------------------------
(* The environment, and steps of a thread that change nothing but its state. *)

LEMMA EnvironmentStep ==
    ASSUME IndInv, ChangeWatchlist \/ UNCHANGED vars
    PROVE  IndInv'
<1>1. UNCHANGED <<cached, scan_list, general_list, scan_pages, tracked, touched, th, lost>>
    BY DEF ChangeWatchlist, vars, lists, metadata
<1>2. watched' \in BOOLEAN
    BY Zenon DEF IndInv, TypeOK, ChangeWatchlist, vars
<1>3. TypeOK'
    BY <1>1, <1>2 DEF IndInv, TypeOK
<1>4. Relations'
    BY <1>1 DEF IndInv, Relations, HookInv, Exclusive, TouchedIsOnScanList, Removing, ThreadsAt
<1>5. ScanPagesConserved'
    BY <1>1 DEF IndInv, ScanPagesConserved, Flagged, FlagRead, Pending, ThreadsAt
<1> QED
    BY <1>3, <1>4, <1>5 DEF IndInv

\* mixed_evict_folios, and the look-up of mixed_folio_accessed.
LEMMA LocalStep ==
    ASSUME IndInv, NEW t \in Threads, NEW new \in ThreadStates,
           th' = [th EXCEPT ![t] = new],
           th[t].pc \notin Locked, new.pc \notin Locked,
           new.pc = "create" => new.f \in Folios,
           UNCHANGED <<cached, watched, scan_list, general_list, scan_pages, tracked,
                       touched, lost>>
    PROVE  IndInv'
<1>1. /\ th' \in [Threads -> ThreadStates] /\ th'[t] = new
      /\ \A u \in Threads : u # t => th'[u] = th[u]
    BY ThreadStep DEF IndInv
<1>2. TypeOK'
    BY <1>1 DEF IndInv, TypeOK
<1>3. Relations'
    BY QuietStep
<1>4. /\ ~Counted(t) /\ ~Counted(t)'
      /\ th[t].pc # "evicted_delete" /\ th'[t].pc # "evicted_delete"
    BY <1>1 DEF Counted, PendingLabels, Locked, AddLabels, EvictedLabels
<1>5. ScanPagesConserved'
    BY <1>1, <1>4, QuietAccount
<1> QED
    BY <1>2, <1>3, <1>5 DEF IndInv

LEMMA EvictFoliosStep ==
    ASSUME IndInv, NEW t \in Threads, EvictFolios(t) \/ EvictFoliosEnd(t)
    PROVE  IndInv'
<1>1. PICK l \in {"idle", "no_pages", "sample_scan", "sample_general"} :
         th' = [th EXCEPT ![t] = [pc |-> l, f |-> NoFolio, scan |-> FALSE]]
    BY Zenon DEF EvictFolios, EvictFoliosEnd, Goto, Return, Idle
<1>2. [pc |-> l, f |-> NoFolio, scan |-> FALSE] \in ThreadStates
  <2>1. l \in Labels /\ NoFolio \in Folios \cup {NoFolio} /\ FALSE \in BOOLEAN
      BY DEF Labels
  <2> QED
      BY <2>1, NewStates
<1>3. th[t].pc \in {"idle", "no_pages", "sample_scan", "sample_general"}
    BY DEF EvictFolios, EvictFoliosEnd, At
<1>4. UNCHANGED <<cached, watched, scan_list, general_list, scan_pages, tracked, touched, lost>>
    BY DEF EvictFolios, EvictFoliosEnd, kernel, lists, metadata
<1> QED
    BY <1>1, <1>2, <1>3, <1>4, LocalStep DEF Locked, AddLabels, EvictedLabels

-----------------------------------------------------------------------------
(* mixed_folio_accessed *)

LEMMA FolioAccessedStep ==
    ASSUME IndInv, NEW t \in Threads, NEW f \in Folios, FolioAccessed(t, f)
    PROVE  IndInv'
<1> DEFINE new == [pc |-> "create", f |-> f, scan |-> FALSE]
<1>1. new \in ThreadStates /\ new.pc = "create" /\ new.f = f
    BY DEF ThreadStates, Labels
<1>2. th[t].pc = "idle" /\ th' = [th EXCEPT ![t] = new]
    BY DEF FolioAccessed, At, Goto
<1>3. UNCHANGED <<cached, watched, scan_list, general_list, scan_pages, tracked, touched, lost>>
    BY DEF FolioAccessed, kernel, lists, metadata
<1> HIDE DEF new
<1> QED
    BY <1>1, <1>2, <1>3, LocalStep DEF Locked, AddLabels, EvictedLabels

LEMMA FolioAccessedCreateStep ==
    ASSUME IndInv, NEW t \in Threads, FolioAccessedCreate(t)
    PROVE  IndInv'
<1> DEFINE f == th[t].f
<1>1. /\ th[t].pc = "create" /\ th' = [th EXCEPT ![t] = Idle]
      /\ UNCHANGED <<cached, watched, scan_list, general_list, scan_pages>>
    BY DEF FolioAccessedCreate, At, Return, kernel, lists
<1>2. \/ /\ f \in Flagged => lost < MaxLost
         /\ tracked' = tracked \cup {f} /\ touched' = touched \ {f}
         /\ lost' = IF f \in Flagged THEN lost + 1 ELSE lost
      \/ UNCHANGED <<tracked, touched, lost>>
    BY DEF FolioAccessedCreate, Flagged, metadata
<1>3. f \in Folios
    BY <1>1 DEF IndInv, Relations, HookInv
<1>4. /\ th' \in [Threads -> ThreadStates] /\ th'[t] = Idle
      /\ \A u \in Threads : u # t => th'[u] = th[u]
    BY <1>1, NewStates, ThreadStep DEF IndInv
<1> HIDE DEF f
<1>5. lost \in 0 .. MaxLost /\ MaxLost \in Nat
    BY GetScanAssumption DEF IndInv, TypeOK
<1>6. TypeOK'
  <2>1. lost' \in 0 .. MaxLost
      BY <1>2, <1>5
  <2>2. tracked' \subseteq Folios /\ touched' \subseteq tracked'
      BY <1>2, <1>3 DEF IndInv, TypeOK
  <2> QED
      BY <1>1, <1>4, <2>1, <2>2 DEF IndInv, TypeOK
<1>7. Relations'
  <2>1. touched' \subseteq touched
      BY <1>2
  <2>2. /\ Idle \in ThreadStates /\ th[t].pc \notin Locked /\ Idle.pc \notin Locked
        /\ Idle.pc # "create"
      BY <1>1, NewStates DEF Locked, AddLabels, EvictedLabels
  <2> QED
      BY <1>1, <2>1, <2>2, QuietStep
<1>8. ScanPagesConserved'
  <2>1. /\ ~Counted(t) /\ ~Counted(t)'
        /\ th[t].pc # "evicted_delete" /\ th'[t].pc # "evicted_delete"
      BY <1>1, <1>4, NewStates DEF Counted, PendingLabels
  <2>2. Pending' = Pending /\ FlagRead' = FlagRead
      BY <1>4, <2>1, PendingStep, FlagReadKept DEF IndInv
  <2>3. CASE f \in Flagged /\ touched' = touched \ {f} /\ lost' = lost + 1
    <3>1. Flagged' = Flagged \ {f}
        BY <2>2, <2>3 DEF Flagged
    <3>2. Cardinality(Flagged) = Cardinality(Flagged') + 1 /\ Cardinality(Flagged') \in Nat
        BY <2>3, <3>1, FiniteAccounts, CardinalityStep DEF IndInv
    <3>3. Cardinality(Pending) \in Nat
        BY FiniteAccounts DEF IndInv
    <3> QED
        BY <1>1, <1>5, <2>2, <2>3, <3>2, <3>3 DEF IndInv, ScanPagesConserved
  <2>4. CASE f \notin Flagged /\ touched' = touched \ {f} /\ lost' = lost
    <3>1. Flagged' = Flagged
        BY <2>2, <2>4 DEF Flagged
    <3> QED
        BY <1>1, <2>2, <2>4, <3>1 DEF IndInv, ScanPagesConserved
  <2>5. CASE UNCHANGED <<touched, lost>>
      BY <1>1, <1>4, <2>1, <2>5, QuietAccount
  <2> QED
      BY <1>2, <2>3, <2>4, <2>5
<1> QED
    BY <1>6, <1>7, <1>8 DEF IndInv

-----------------------------------------------------------------------------
(* mixed_folio_added *)

LEMMA FolioAddedStep ==
    ASSUME IndInv, NEW t \in Threads, NEW f \in Folios, FolioAdded(t, f)
    PROVE  IndInv'
<1>1. /\ th[t].pc = "idle" /\ f \notin cached /\ ~Removing(f) /\ cached' = cached \cup {f}
      /\ UNCHANGED <<watched, scan_list, general_list, scan_pages, tracked, touched, lost>>
    BY DEF FolioAdded, At, lists, metadata
<1>2. PICK new \in ThreadStates :
         /\ th' = [th EXCEPT ![t] = new]
         /\ new = th[t] \/ (new.pc = "add_list" /\ new.f = f)
  <2>1. CASE UNCHANGED th
    <3>1. th[t] \in ThreadStates /\ th' = [th EXCEPT ![t] = th[t]]
        BY <2>1 DEF IndInv, TypeOK
    <3> QED
        BY <3>1
  <2>2. CASE \E scan \in BOOLEAN : Goto(t, "add_list", f, scan)
    <3>1. PICK scan \in BOOLEAN : Goto(t, "add_list", f, scan)
        BY <2>2
    <3> DEFINE added == [pc |-> "add_list", f |-> f, scan |-> scan]
    <3>2. added \in ThreadStates /\ added.pc = "add_list" /\ added.f = f
        BY DEF ThreadStates, Labels, AddLabels
    <3>3. th' = [th EXCEPT ![t] = added]
        BY <3>1 DEF Goto
    <3> HIDE DEF added
    <3> QED
        BY <3>2, <3>3
  <2> QED
      BY <2>1, <2>2 DEF FolioAdded
<1>3. /\ th' \in [Threads -> ThreadStates] /\ th'[t] = new
      /\ \A u \in Threads : u # t => th'[u] = th[u]
    BY <1>2, ThreadStep DEF IndInv
<1>4. f \notin touched /\ f \notin ToSet(scan_list) /\ f \notin ToSet(general_list)
    BY <1>1 DEF IndInv, TypeOK, Relations, TouchedIsOnScanList
<1>5. TypeOK'
    BY <1>1, <1>3 DEF IndInv, TypeOK
<1>6. \A g : Removing(g) => Removing(g)'
    BY <1>1, <1>3 DEF Removing, ThreadsAt, EvictedLabels
<1>7. HookInv'
  <2> SUFFICES ASSUME NEW u \in Threads PROVE HookInv!(u)'
      BY DEF HookInv
  <2>1. CASE u = t /\ th'[u].pc = "add_list" /\ th'[u].f = f
      BY <1>1, <1>4, <2>1 DEF AddLabels, EvictedLabels
  <2>2. CASE th'[u] = th[u]
    <3>1. HookInv!(u)
        BY DEF IndInv, Relations, HookInv
    <3>2. th[u].pc \in EvictedLabels => th[u].f # f
        BY <1>1 DEF Removing, ThreadsAt
    <3> QED
        BY <1>1, <2>2, <3>1, <3>2
  <2> QED
      BY <1>2, <1>3, <2>1, <2>2
<1>8. Exclusive'
  <2>1. \A u \in Threads : th[u].pc \in Locked => th[u].f # f
      BY <1>1 DEF IndInv, Relations, HookInv, Locked, Removing, ThreadsAt
  <2>2. th'[t].pc \in Locked => th'[t].f = f
      BY <1>1, <1>2, <1>3 DEF Locked, AddLabels, EvictedLabels
  <2> QED
      BY <1>3, <2>1, <2>2, ExclusiveStep DEF IndInv, Relations
<1>9. TouchedIsOnScanList'
    BY <1>1, <1>6 DEF IndInv, Relations, TouchedIsOnScanList
<1>10. ScanPagesConserved'
  <2>1. /\ ~Counted(t) /\ ~Counted(t)'
        /\ th[t].pc # "evicted_delete" /\ th'[t].pc # "evicted_delete"
      BY <1>1, <1>2, <1>3 DEF Counted, PendingLabels
  <2> QED
      BY <1>1, <1>3, <2>1, QuietAccount
<1> QED
    BY <1>5, <1>7, <1>8, <1>9, <1>10 DEF IndInv, Relations

LEMMA FolioAddedListStep ==
    ASSUME IndInv, NEW t \in Threads, FolioAddedList(t)
    PROVE  IndInv'
<1> DEFINE f == th[t].f
           label == IF th[t].scan THEN "add_count" ELSE "add_meta"
           added == [pc |-> label, f |-> f, scan |-> th[t].scan]
<1>1. /\ th[t].pc = "add_list"
      /\ UNCHANGED <<cached, watched, scan_pages, tracked, touched, lost>>
    BY DEF FolioAddedList, At, kernel, metadata
<1>2. th[t] \in ThreadStates
    BY DEF IndInv, TypeOK
<1>3. /\ f \in cached /\ f \notin touched
      /\ f \notin ToSet(scan_list) /\ f \notin ToSet(general_list)
    BY <1>1 DEF IndInv, Relations, HookInv, AddLabels
<1>4. f \in Folios /\ th[t].scan \in BOOLEAN
    BY <1>2, <1>3 DEF IndInv, TypeOK, ThreadStates
<1>5. /\ added \in ThreadStates /\ added.f = f
      /\ added.scan = th[t].scan /\ added.pc = label
    BY <1>4 DEF ThreadStates, Labels, AddLabels
<1>6. \/ /\ IF th[t].scan
            THEN scan_list' = ListAddTail(scan_list, f) /\ UNCHANGED general_list
            ELSE general_list' = ListAddTail(general_list, f) /\ UNCHANGED scan_list
         /\ th' = [th EXCEPT ![t] = added]
      \/ th' = [th EXCEPT ![t] = Idle] /\ UNCHANGED <<scan_list, general_list>>
    BY DEF FolioAddedList, Goto, Return, lists, ToScanList
<1>7. label \in {"add_count", "add_meta"} /\ (label = "add_count" => th[t].scan)
    OBVIOUS
<1> HIDE DEF added, label, f
<1>8. /\ scan_list' \in Seq(Folios) /\ general_list' \in Seq(Folios)
      /\ IsInjective(scan_list') /\ IsInjective(general_list')
      /\ ToSet(general_list') \cap ToSet(scan_list') = {}
      /\ ToSet(scan_list') \subseteq cached /\ ToSet(general_list') \subseteq cached
      /\ ToSet(scan_list) \subseteq ToSet(scan_list')
      /\ \A g : g # f => /\ g \in ToSet(scan_list') <=> g \in ToSet(scan_list)
                         /\ g \in ToSet(general_list') <=> g \in ToSet(general_list)
      /\ scan_list' = ListAddTail(scan_list, f) => f \in ToSet(scan_list')
  <2>1. /\ scan_list \in Seq(Folios) /\ general_list \in Seq(Folios)
        /\ IsInjective(scan_list) /\ IsInjective(general_list)
        /\ ToSet(general_list) \cap ToSet(scan_list) = {}
        /\ ToSet(scan_list) \subseteq cached /\ ToSet(general_list) \subseteq cached
      BY DEF IndInv, TypeOK
  <2>2. /\ ListAddTail(scan_list, f) \in Seq(Folios)
        /\ ToSet(ListAddTail(scan_list, f)) = ToSet(scan_list) \cup {f}
      BY <1>4, <2>1, AddProperties
  <2>3. /\ ListAddTail(general_list, f) \in Seq(Folios)
        /\ ToSet(ListAddTail(general_list, f)) = ToSet(general_list) \cup {f}
      BY <1>4, <2>1, AddProperties
  <2>4. f \in Folios \ ToSet(scan_list) /\ f \in Folios \ ToSet(general_list)
      BY <1>3, <1>4
  <2>5. IsInjective(ListAddTail(scan_list, f)) /\ IsInjective(ListAddTail(general_list, f))
      BY <2>1, <2>4, OperationsInjective
  <2> QED
      BY <1>3, <1>6, <2>1, <2>2, <2>3, <2>5
<1>9. PICK new \in ThreadStates :
         /\ th' = [th EXCEPT ![t] = new]
         /\ \/ new = Idle
            \/ new = added /\ (th[t].scan => f \in ToSet(scan_list'))
    BY <1>5, <1>6, <1>8, NewStates
<1>10. /\ th' \in [Threads -> ThreadStates] /\ th'[t] = new
       /\ \A u \in Threads : u # t => th'[u] = th[u]
    BY <1>9, ThreadStep DEF IndInv
<1>11. TypeOK'
    BY <1>1, <1>8, <1>10 DEF IndInv, TypeOK
<1>12. \A u \in Threads : u # t /\ th[u].pc \in Locked => th[u].f # f
    BY <1>1 DEF IndInv, Relations, Exclusive, Locked, AddLabels, f
<1>13. HookInv'
  <2> SUFFICES ASSUME NEW u \in Threads PROVE HookInv!(u)'
      BY DEF HookInv
  <2>1. CASE u # t
    <3>1. HookInv!(u)
        BY DEF IndInv, Relations, HookInv
    <3> QED
        BY <1>1, <1>8, <1>10, <1>12, <2>1, <3>1 DEF Locked, AddLabels
  <2>2. CASE u = t /\ new = Idle
      BY <1>10, <2>2, NewStates DEF AddLabels, EvictedLabels
  <2>3. CASE u = t /\ new = added /\ (th[t].scan => f \in ToSet(scan_list'))
      BY <1>1, <1>3, <1>5, <1>7, <1>10, <2>3 DEF AddLabels, EvictedLabels
  <2> QED
      BY <1>9, <2>1, <2>2, <2>3
<1>14. Exclusive'
  <2>1. th'[t].pc \in Locked => th'[t].f = f
      BY <1>5, <1>9, <1>10, NewStates DEF Locked, AddLabels, EvictedLabels
  <2> QED
      BY <1>10, <1>12, <2>1, ExclusiveStep DEF IndInv, Relations
<1>15. \A g : Removing(g) => Removing(g)'
    BY <1>1, <1>10 DEF Removing, ThreadsAt, EvictedLabels
<1>16. TouchedIsOnScanList'
    BY <1>1, <1>8, <1>15 DEF IndInv, Relations, TouchedIsOnScanList
<1>17. ScanPagesConserved'
  <2>1. ~Counted(t) /\ th[t].pc # "evicted_delete"
      BY <1>1 DEF Counted, PendingLabels
  <2>2. ~Counted(t)' /\ th'[t].pc # "evicted_delete"
    <3>1. CASE new = Idle
        BY <1>10, <3>1, NewStates DEF Counted, PendingLabels
    <3>2. CASE new = added
        BY <1>5, <1>10, <3>2 DEF Counted, PendingLabels, label
    <3> QED
        BY <1>9, <3>1, <3>2
  <2> QED
      BY <1>1, <1>10, <2>1, <2>2, QuietAccount
<1> QED
    BY <1>11, <1>13, <1>14, <1>16, <1>17 DEF IndInv, Relations

\* A step of a hook that holds the folio lock and goes on with the same folio, or
\* ends: the relations follow from the state it gives its thread.
LEMMA HeldStep ==
    ASSUME IndInv, NEW t \in Threads, NEW new \in ThreadStates,
           th' = [th EXCEPT ![t] = new], th[t].pc \in Locked,
           new.pc \in Locked => new.f = th[t].f,
           th'[t].pc = "idle" \/ HookInv!(t)',
           touched' \subseteq touched \cup {th[t].f},
           th[t].f \in touched' =>
              th[t].f \in ToSet(scan_list) \/ th'[t].pc \in EvictedLabels,
           UNCHANGED <<cached, scan_list, general_list>>
    PROVE  Relations'
<1>1. /\ th'[t] = new /\ \A u \in Threads : u # t => th'[u] = th[u]
    BY ThreadStep DEF IndInv
<1>2. \A u \in Threads : u # t /\ th[u].pc \in Locked => th[u].f # th[t].f
    BY DEF IndInv, Relations, Exclusive
<1>3. HookInv'
  <2> SUFFICES ASSUME NEW u \in Threads PROVE HookInv!(u)'
      BY DEF HookInv
  <2>1. CASE u # t
    <3>1. HookInv!(u)
        BY DEF IndInv, Relations, HookInv
    <3>2. th[u].pc \in Locked => th[u].f # th[t].f
        BY <1>2, <2>1
    <3> QED
        BY <1>1, <2>1, <3>1, <3>2 DEF Locked, EvictedLabels
  <2>2. CASE u = t /\ th'[t].pc = "idle"
      BY <2>2 DEF AddLabels, EvictedLabels
  <2>3. CASE u = t /\ HookInv!(t)'
      BY <2>3
  <2> QED
      BY <2>1, <2>2, <2>3
<1>4. Exclusive'
    BY <1>1, <1>2, ExclusiveStep DEF IndInv, Relations
<1>5. TouchedIsOnScanList'
  <2> SUFFICES ASSUME NEW g \in touched' PROVE (g \in ToSet(scan_list) \/ Removing(g))'
      BY DEF TouchedIsOnScanList
  <2>1. CASE g = th[t].f /\ th'[t].pc \in EvictedLabels
    <3>1. th'[t].f = g
        BY <1>1, <2>1 DEF Locked
    <3> QED
        BY <2>1, <3>1 DEF Removing, ThreadsAt
  <2>2. CASE g = th[t].f /\ g \in ToSet(scan_list)
      BY <2>2
  <2>3. CASE g # th[t].f
    <3>1. g \in ToSet(scan_list) \/ Removing(g)
        BY <2>3 DEF IndInv, Relations, TouchedIsOnScanList
    <3>2. Removing(g) => Removing(g)'
        BY <1>1, <2>3 DEF Removing, ThreadsAt
    <3> QED
        BY <3>1, <3>2
  <2> QED
      BY <2>1, <2>2, <2>3
<1> QED
    BY <1>3, <1>4, <1>5 DEF Relations

LEMMA FolioAddedCountStep ==
    ASSUME IndInv, NEW t \in Threads, FolioAddedCount(t)
    PROVE  IndInv'
<1> DEFINE new == [pc |-> "add_meta", f |-> th[t].f, scan |-> th[t].scan]
<1>1. /\ th[t].pc = "add_count" /\ th' = [th EXCEPT ![t] = new]
      /\ scan_pages' = scan_pages + 1
      /\ UNCHANGED <<cached, watched, scan_list, general_list, tracked, touched, lost>>
    BY DEF FolioAddedCount, At, Goto, kernel, lists, metadata
<1>2. th[t] \in ThreadStates
    BY DEF IndInv, TypeOK
<1>3. /\ new \in ThreadStates /\ new.pc = "add_meta" /\ new.f = th[t].f
      /\ new.scan = th[t].scan
    BY <1>2 DEF ThreadStates, Labels, AddLabels
<1> HIDE DEF new
<1>4. /\ th' \in [Threads -> ThreadStates] /\ th'[t] = new
      /\ \A u \in Threads : u # t => th'[u] = th[u]
    BY <1>1, <1>3, ThreadStep DEF IndInv
<1>5. HookInv!(t) /\ th[t].scan
    BY <1>1 DEF IndInv, Relations, HookInv
<1>6. TypeOK'
    BY <1>1, <1>4 DEF IndInv, TypeOK
<1>7. Relations'
  <2>1. HookInv!(t)'
      BY <1>1, <1>3, <1>4, <1>5 DEF AddLabels, EvictedLabels
  <2>2. th[t].f \notin touched'
      BY <1>1, <1>5 DEF AddLabels
  <2>3. th[t].pc \in Locked
      BY <1>1 DEF Locked, AddLabels
  <2> QED
      BY <1>1, <1>3, <2>1, <2>2, <2>3, HeldStep
<1>8. ScanPagesConserved'
  <2>1. Counted(t)' /\ ~Counted(t)
      BY <1>1, <1>3, <1>4, <1>5 DEF Counted, PendingLabels
  <2>2. Cardinality(Pending') = Cardinality(Pending) + 1
      BY <1>4, <2>1, PendingStep DEF IndInv
  <2>3. FlagRead' = FlagRead
      BY <1>1, <1>3, <1>4, FlagReadKept
  <2>4. Flagged' = Flagged
      BY <1>1, <2>3 DEF Flagged
  <2>5. /\ Cardinality(Pending) \in Nat /\ Cardinality(Flagged) \in Nat
        /\ lost \in Nat
      BY FiniteAccounts DEF IndInv, TypeOK
  <2> QED
      BY <1>1, <2>2, <2>4, <2>5 DEF IndInv, ScanPagesConserved
<1> QED
    BY <1>6, <1>7, <1>8 DEF IndInv

LEMMA FolioAddedMetaStep ==
    ASSUME IndInv, NEW t \in Threads, FolioAddedMeta(t)
    PROVE  IndInv'
<1> DEFINE f == th[t].f
           scan == th[t].scan
<1>1. /\ th[t].pc = "add_meta" /\ th' = [th EXCEPT ![t] = Idle]
      /\ UNCHANGED <<cached, watched, scan_list, general_list, scan_pages>>
    BY DEF FolioAddedMeta, At, Return, kernel, lists
<1>2. \/ /\ tracked' = tracked \cup {f} /\ lost' = lost
         /\ touched' = IF scan THEN touched \cup {f} ELSE touched \ {f}
      \/ /\ lost < MaxLost /\ lost' = IF scan THEN lost + 1 ELSE lost
         /\ UNCHANGED <<tracked, touched>>
    BY DEF FolioAddedMeta, TouchedAfterAdd, metadata
<1>3. /\ f \in cached /\ f \notin touched
      /\ scan => f \in ToSet(scan_list)
    BY <1>1 DEF IndInv, Relations, HookInv, AddLabels
<1>4. f \in Folios
    BY <1>3 DEF IndInv, TypeOK
<1>5. /\ th' \in [Threads -> ThreadStates] /\ th'[t] = Idle
      /\ \A u \in Threads : u # t => th'[u] = th[u]
    BY <1>1, NewStates, ThreadStep DEF IndInv
<1>6. f \notin FlagRead
  <2>1. \A u \in Threads : th[u].pc = "evicted_delete" => th[u].f # f
    <3>1. \A u \in Threads : th[u].pc = "evicted_delete" => th[u].f \notin cached
        BY DEF IndInv, Relations, HookInv, EvictedLabels
    <3> QED
        BY <1>3, <3>1
  <2> QED
      BY <2>1 DEF FlagRead, ThreadsAt
<1>7. /\ th[t].pc # "evicted_delete" /\ th'[t].pc # "evicted_delete"
      /\ ~Counted(t)' /\ (Counted(t) <=> scan)
    BY <1>1, <1>5, NewStates DEF Counted, PendingLabels
<1>8. lost \in 0 .. MaxLost /\ MaxLost \in Nat
    BY GetScanAssumption DEF IndInv, TypeOK
<1>9. TypeOK'
  <2>1. lost' \in 0 .. MaxLost
      BY <1>2, <1>8
  <2>2. tracked' \subseteq Folios /\ touched' \subseteq tracked'
      BY <1>2, <1>4 DEF IndInv, TypeOK
  <2> QED
      BY <1>1, <1>5, <2>1, <2>2 DEF IndInv, TypeOK
<1>10. Relations'
  <2>1. touched' \subseteq touched \cup {f} /\ (f \in touched' => f \in ToSet(scan_list))
      BY <1>2, <1>3
  <2>2. th[t].pc \in Locked /\ Idle \in ThreadStates /\ th'[t].pc = "idle"
      BY <1>1, <1>5, NewStates DEF Locked, AddLabels
  <2>3. Idle.pc \notin Locked
      BY NewStates DEF Locked, AddLabels, EvictedLabels
  <2> QED
      BY <1>1, <2>1, <2>2, <2>3, HeldStep
<1>11. ScanPagesConserved'
  <2>1. FlagRead' = FlagRead
      BY <1>5, <1>7, FlagReadKept
  <2>2. /\ scan => Cardinality(Pending) = Cardinality(Pending') + 1
        /\ ~scan => Pending' = Pending
      BY <1>5, <1>7, PendingStep DEF IndInv
  <2>3. /\ IsFiniteSet(Flagged) /\ Cardinality(Pending) \in Nat
        /\ Cardinality(Flagged) \in Nat
      BY FiniteAccounts DEF IndInv
  <2>4. f \notin Flagged
      BY <1>3 DEF Flagged
  <2>6. Cardinality(Pending') \in Nat
      BY <1>5, <2>2, <2>3, PendingStep, FS_Subset, FS_CardinalityType, GetScanAssumption
         DEF Pending, ThreadsAt
  <2> HIDE DEF f, scan
  <2>7. CASE scan /\ touched' = touched \cup {f} /\ lost' = lost
    <3>1. Flagged' = Flagged \cup {f}
        BY <1>6, <2>1, <2>7 DEF Flagged
    <3>2. Cardinality(Flagged') = Cardinality(Flagged) + 1
        BY <2>3, <2>4, <3>1, CardinalityStep
    <3> QED
        BY <1>1, <1>8, <2>2, <2>3, <2>6, <2>7, <3>2 DEF IndInv, ScanPagesConserved
  <2>8. CASE scan /\ touched' = touched /\ lost' = lost + 1
    <3>1. Flagged' = Flagged
        BY <2>1, <2>8 DEF Flagged
    <3> QED
        BY <1>1, <1>8, <2>2, <2>3, <2>6, <2>8, <3>1 DEF IndInv, ScanPagesConserved
  <2>9. CASE ~scan
    <3>1. touched' = touched /\ lost' = lost
        BY <1>2, <1>3, <2>9 DEF f
    <3>2. Flagged' = Flagged
        BY <2>1, <3>1 DEF Flagged
    <3> QED
        BY <1>1, <2>2, <2>9, <3>1, <3>2 DEF IndInv, ScanPagesConserved
  <2> QED
      BY <1>2, <2>7, <2>8, <2>9
<1> QED
    BY <1>9, <1>10, <1>11 DEF IndInv

-----------------------------------------------------------------------------
(* mixed_folio_evicted *)

LEMMA FolioEvictedStep ==
    ASSUME IndInv, NEW t \in Threads, NEW f \in Folios, FolioEvicted(t, f)
    PROVE  IndInv'
<1> DEFINE new == [pc |-> "evicted_lookup", f |-> f, scan |-> FALSE]
<1>1. /\ th[t].pc = "idle" /\ f \in cached /\ ~Adding(f) /\ ~Removing(f)
      /\ cached' = cached \ {f} /\ th' = [th EXCEPT ![t] = new]
      /\ scan_list' = ListDel(scan_list, f) /\ general_list' = ListDel(general_list, f)
      /\ UNCHANGED <<watched, scan_pages, tracked, touched, lost>>
    BY DEF FolioEvicted, At, Handles, Goto, metadata
<1>2. new \in ThreadStates /\ new.pc = "evicted_lookup" /\ new.f = f /\ new.scan = FALSE
    BY DEF ThreadStates, Labels, EvictedLabels
<1> HIDE DEF new
<1>3. /\ th' \in [Threads -> ThreadStates] /\ th'[t] = new
      /\ \A u \in Threads : u # t => th'[u] = th[u]
    BY <1>1, <1>2, ThreadStep DEF IndInv
<1>4. /\ scan_list' \in Seq(Folios) /\ general_list' \in Seq(Folios)
      /\ IsInjective(scan_list') /\ IsInjective(general_list')
      /\ ToSet(scan_list') = ToSet(scan_list) \ {f}
      /\ ToSet(general_list') = ToSet(general_list) \ {f}
  <2>1. /\ scan_list \in Seq(Folios) /\ general_list \in Seq(Folios)
        /\ IsInjective(scan_list) /\ IsInjective(general_list)
      BY DEF IndInv, TypeOK
  <2>2. /\ ListDel(scan_list, f) \in Seq(Folios)
        /\ ToSet(ListDel(scan_list, f)) = ToSet(scan_list) \ {f}
      BY <2>1, DelProperties
  <2>3. /\ ListDel(general_list, f) \in Seq(Folios)
        /\ ToSet(ListDel(general_list, f)) = ToSet(general_list) \ {f}
      BY <2>1, DelProperties
  <2>4. IsInjective(ListDel(scan_list, f)) /\ IsInjective(ListDel(general_list, f))
      BY <2>1, OperationsInjective
  <2> QED
      BY <1>1, <2>2, <2>3, <2>4
<1>5. TypeOK'
  <2>1. /\ ToSet(scan_list') \subseteq cached' /\ ToSet(general_list') \subseteq cached'
        /\ ToSet(general_list') \cap ToSet(scan_list') = {}
        /\ cached' \subseteq Folios
      BY <1>1, <1>4 DEF IndInv, TypeOK
  <2> QED
      BY <1>1, <1>3, <1>4, <2>1 DEF IndInv, TypeOK
<1>6. \A u \in Threads : th[u].pc \in Locked => th[u].f # f
    BY <1>1 DEF Locked, Adding, Removing, ThreadsAt
<1>7. HookInv'
  <2> SUFFICES ASSUME NEW u \in Threads PROVE HookInv!(u)'
      BY DEF HookInv
  <2>1. CASE u = t
      BY <1>1, <1>2, <1>3, <2>1 DEF AddLabels, EvictedLabels
  <2>2. CASE u # t
    <3>1. HookInv!(u)
        BY DEF IndInv, Relations, HookInv
    <3> QED
        BY <1>1, <1>3, <1>4, <1>6, <2>2, <3>1 DEF Locked, AddLabels
  <2> QED
      BY <2>1, <2>2
<1>8. Exclusive'
    BY <1>2, <1>3, <1>6, ExclusiveStep DEF IndInv, Relations
<1>9. TouchedIsOnScanList'
  <2>1. Removing(f)'
      BY <1>2, <1>3 DEF Removing, ThreadsAt, EvictedLabels
  <2>2. \A g : Removing(g) => Removing(g)'
      BY <1>1, <1>3 DEF Removing, ThreadsAt, EvictedLabels
  <2> QED
      BY <1>1, <1>4, <2>1, <2>2 DEF IndInv, Relations, TouchedIsOnScanList
<1>10. ScanPagesConserved'
  <2>1. /\ ~Counted(t) /\ ~Counted(t)'
        /\ th[t].pc # "evicted_delete" /\ th'[t].pc # "evicted_delete"
      BY <1>1, <1>2, <1>3 DEF Counted, PendingLabels
  <2> QED
      BY <1>1, <1>3, <2>1, QuietAccount
<1> QED
    BY <1>5, <1>7, <1>8, <1>9, <1>10 DEF IndInv, Relations

\* The folio of a hook that removes it is in no other removal.
LEMMA OthersRemove ==
    ASSUME IndInv, NEW t \in Threads, th[t].pc \in EvictedLabels
    PROVE  \A u \in Threads : u # t /\ th[u].pc = "evicted_delete" => th[u].f # th[t].f
BY DEF IndInv, Relations, Exclusive, Locked, EvictedLabels

LEMMA FolioEvictedLookupStep ==
    ASSUME IndInv, NEW t \in Threads, FolioEvictedLookup(t)
    PROVE  IndInv'
<1> DEFINE f == th[t].f
<1>1. /\ th[t].pc = "evicted_lookup"
      /\ th' = [th EXCEPT ![t] = [pc |-> "evicted_delete", f |-> f, scan |-> f \in touched]]
      /\ UNCHANGED <<cached, watched, scan_list, general_list, scan_pages, tracked, touched, lost>>
    BY DEF FolioEvictedLookup, At, Goto, kernel, lists, metadata
<1>2. f \in Folios /\ f \notin cached
    BY <1>1 DEF IndInv, Relations, HookInv, EvictedLabels
<1>3. PICK b \in BOOLEAN : b = (f \in touched)
  <2>1. \E b \in BOOLEAN : b = (f \in touched)
    <3> WITNESS (f \in touched) \in BOOLEAN
    <3> QED
        OBVIOUS
  <2> QED
      BY <2>1
<1> DEFINE new == [pc |-> "evicted_delete", f |-> f, scan |-> b]
<1>4. th' = [th EXCEPT ![t] = new]
    BY <1>1, <1>3
<1>5. new \in ThreadStates /\ new.pc = "evicted_delete" /\ new.f = f /\ new.scan = b
    BY <1>2 DEF ThreadStates, Labels, EvictedLabels
<1> HIDE DEF new
<1>6. /\ th' \in [Threads -> ThreadStates] /\ th'[t] = new
      /\ \A u \in Threads : u # t => th'[u] = th[u]
    BY <1>4, <1>5, ThreadStep DEF IndInv
<1>7. TypeOK'
    BY <1>1, <1>6 DEF IndInv, TypeOK
<1>8. Relations'
  <2>1. HookInv!(t)'
      BY <1>1, <1>2, <1>5, <1>6 DEF AddLabels, EvictedLabels
  <2>2. th[t].pc \in Locked /\ th'[t].pc \in EvictedLabels
      BY <1>1, <1>5, <1>6 DEF Locked, EvictedLabels
  <2> QED
      BY <1>1, <1>4, <1>5, <2>1, <2>2, HeldStep
<1>9. ScanPagesConserved'
  <2>1. \A u \in Threads : u # t /\ th[u].pc = "evicted_delete" => th[u].f # f
      BY <1>1, OthersRemove DEF EvictedLabels
  <2>2. f \notin FlagRead
      BY <1>1, <2>1 DEF FlagRead, ThreadsAt
  <2>3. FlagRead' = FlagRead \cup {f}
    <3>1. \A u \in Threads : th'[u].pc = "evicted_delete" <=>
                                u = t \/ th[u].pc = "evicted_delete"
        BY <1>5, <1>6
    <3>2. \A u \in Threads : th'[u].f = th[u].f
        BY <1>5, <1>6
    <3> HIDE DEF f
    <3>3. FlagRead' \subseteq FlagRead \cup {f}
        BY <3>1, <3>2 DEF FlagRead, ThreadsAt, f
    <3>4. FlagRead \cup {f} \subseteq FlagRead'
        BY <3>1, <3>2 DEF FlagRead, ThreadsAt, f
    <3> QED
        BY <3>3, <3>4
  <2>4. Flagged' = Flagged \ {f}
      BY <1>1, <2>3 DEF Flagged
  <2>5. ~Counted(t) /\ (Counted(t)' <=> b)
      BY <1>1, <1>5, <1>6 DEF Counted, PendingLabels
  <2>6. /\ IsFiniteSet(Flagged) /\ Cardinality(Pending) \in Nat
        /\ Cardinality(Flagged) \in Nat /\ lost \in Nat
      BY FiniteAccounts DEF IndInv, TypeOK
  <2> HIDE DEF f
  <2>7. CASE b
    <3>1. f \in Flagged
        BY <1>3, <2>2, <2>7 DEF Flagged
    <3>2. /\ Cardinality(Flagged) = Cardinality(Flagged') + 1
          /\ Cardinality(Flagged') \in Nat
        BY <2>4, <2>6, <3>1, CardinalityStep
    <3>3. Cardinality(Pending') = Cardinality(Pending) + 1
        BY <1>6, <2>5, <2>7, PendingStep DEF IndInv
    <3> QED
        BY <1>1, <2>6, <3>2, <3>3 DEF IndInv, ScanPagesConserved
  <2>8. CASE ~b
    <3>1. Flagged' = Flagged
        BY <1>3, <2>4, <2>8 DEF Flagged
    <3>2. Pending' = Pending
        BY <1>6, <2>5, <2>8, PendingStep DEF IndInv
    <3> QED
        BY <1>1, <3>1, <3>2 DEF IndInv, ScanPagesConserved
  <2> QED
      BY <2>7, <2>8
<1> QED
    BY <1>7, <1>8, <1>9 DEF IndInv

LEMMA FolioEvictedDeleteStep ==
    ASSUME IndInv, NEW t \in Threads, FolioEvictedDelete(t)
    PROVE  IndInv'
<1> DEFINE f == th[t].f
           next == [pc |-> "evicted_count", f |-> f, scan |-> th[t].scan]
           new == IF th[t].scan THEN next ELSE Idle
<1>1. /\ th[t].pc = "evicted_delete" /\ th' = [th EXCEPT ![t] = new]
      /\ tracked' = tracked \ {f} /\ touched' = touched \ {f}
      /\ UNCHANGED <<cached, watched, scan_list, general_list, scan_pages, lost>>
    BY DEF FolioEvictedDelete, At, Goto, Return, Counts, kernel, lists
<1>2. th[t] \in ThreadStates /\ f \in Folios /\ f \notin cached
    BY <1>1 DEF IndInv, TypeOK, Relations, HookInv, EvictedLabels
<1>3. next \in ThreadStates /\ next.pc = "evicted_count" /\ next.f = f /\ next.scan = th[t].scan
    BY <1>2 DEF ThreadStates, Labels, EvictedLabels
<1> HIDE DEF next
<1>4. /\ new \in ThreadStates /\ new.pc # "evicted_delete"
      /\ new.pc = "idle" \/ (new.pc = "evicted_count" /\ new.f = f /\ new.scan)
      /\ (new.scan /\ new.pc \in PendingLabels) <=> th[t].scan
    BY <1>3, NewStates DEF PendingLabels
<1> HIDE DEF new
<1>5. /\ th' \in [Threads -> ThreadStates] /\ th'[t] = new
      /\ \A u \in Threads : u # t => th'[u] = th[u]
    BY <1>1, <1>4, ThreadStep DEF IndInv
<1>6. TypeOK'
    BY <1>1, <1>5 DEF IndInv, TypeOK
<1>7. Relations'
  <2>1. th'[t].pc = "idle" \/ HookInv!(t)'
      BY <1>1, <1>2, <1>4, <1>5 DEF AddLabels, EvictedLabels
  <2>2. th[t].pc \in Locked /\ (new.pc \in Locked => new.f = f)
      BY <1>1, <1>4 DEF Locked, AddLabels, EvictedLabels
  <2>3. touched' \subseteq touched \cup {f} /\ f \notin touched'
      BY <1>1
  <2> QED
      BY <1>1, <1>4, <2>1, <2>2, <2>3, HeldStep
<1>8. ScanPagesConserved'
  <2>1. \A u \in Threads : u # t /\ th[u].pc = "evicted_delete" => th[u].f # f
      BY <1>1, OthersRemove DEF EvictedLabels
  <2>2. f \in FlagRead
      BY <1>1 DEF FlagRead, ThreadsAt
  <2>3. FlagRead' = FlagRead \ {f}
    <3>1. \A u \in Threads : th'[u].pc = "evicted_delete" <=>
                                u # t /\ th[u].pc = "evicted_delete"
        BY <1>4, <1>5
    <3>2. \A u \in Threads : u # t => th'[u].f = th[u].f
        BY <1>5
    <3> HIDE DEF f
    <3>3. FlagRead' \subseteq FlagRead \ {f}
        BY <2>1, <3>1, <3>2 DEF FlagRead, ThreadsAt
    <3>4. FlagRead \ {f} \subseteq FlagRead'
        BY <3>1, <3>2 DEF FlagRead, ThreadsAt, f
    <3> QED
        BY <3>3, <3>4
  <2>4. Flagged' = Flagged
      BY <1>1, <2>2, <2>3 DEF Flagged
  <2>5. Counted(t)' <=> Counted(t)
      BY <1>1, <1>4, <1>5 DEF Counted, PendingLabels
  <2>6. Pending' = Pending
      BY <1>5, <2>5, PendingStep DEF IndInv
  <2> QED
      BY <1>1, <2>4, <2>6 DEF IndInv, ScanPagesConserved
<1> QED
    BY <1>6, <1>7, <1>8 DEF IndInv

LEMMA FolioEvictedCountStep ==
    ASSUME IndInv, NEW t \in Threads, FolioEvictedCount(t)
    PROVE  IndInv'
<1>1. /\ th[t].pc = "evicted_count" /\ th' = [th EXCEPT ![t] = Idle]
      /\ scan_pages' = scan_pages - 1
      /\ UNCHANGED <<cached, watched, scan_list, general_list, tracked, touched, lost>>
    BY DEF FolioEvictedCount, At, Return, kernel, lists, metadata
<1>2. /\ th' \in [Threads -> ThreadStates] /\ th'[t] = Idle
      /\ \A u \in Threads : u # t => th'[u] = th[u]
    BY <1>1, NewStates, ThreadStep DEF IndInv
<1>3. HookInv!(t) /\ th[t].scan
    BY <1>1 DEF IndInv, Relations, HookInv
<1>4. Counted(t) /\ ~Counted(t)'
    BY <1>1, <1>2, <1>3, NewStates DEF Counted, PendingLabels
<1>5. /\ Cardinality(Pending) = Cardinality(Pending') + 1
      /\ Cardinality(Pending') \in Nat /\ Cardinality(Flagged) \in Nat /\ lost \in Nat
  <2>1. Pending' \subseteq Threads /\ IsFiniteSet(Threads)
      BY GetScanAssumption DEF Pending, ThreadsAt
  <2>2. Cardinality(Pending') \in Nat
      BY <2>1, FS_Subset, FS_CardinalityType
  <2> QED
      BY <1>2, <1>4, <2>2, PendingStep, FiniteAccounts DEF IndInv, TypeOK
<1>6. Flagged' = Flagged
  <2>1. FlagRead' = FlagRead
      BY <1>1, <1>2, NewStates, FlagReadKept
  <2> QED
      BY <1>1, <2>1 DEF Flagged
<1>7. scan_pages' = Cardinality(Flagged') + Cardinality(Pending') + lost'
    BY <1>1, <1>5, <1>6 DEF IndInv, ScanPagesConserved
<1>8. TypeOK'
  <2>1. scan_pages' \in Nat
      BY <1>1, <1>5, <1>6, <1>7
  <2> QED
      BY <1>1, <1>2, <2>1 DEF IndInv, TypeOK
<1>9. Relations'
  <2>1. th'[t].pc = "idle" /\ Idle \in ThreadStates /\ Idle.pc \notin Locked
      BY <1>2, NewStates DEF Locked, AddLabels, EvictedLabels
  <2>2. th[t].pc \in Locked
      BY <1>1 DEF Locked, EvictedLabels
  <2>3. th[t].f \notin touched'
      BY <1>1, <1>3 DEF EvictedLabels
  <2> QED
      BY <1>1, <2>1, <2>2, <2>3, HeldStep
<1> QED
    BY <1>7, <1>8, <1>9 DEF IndInv, ScanPagesConserved

-----------------------------------------------------------------------------
LEMMA NextIndInv == IndInv /\ [Next]_vars => IndInv'
<1> SUFFICES ASSUME IndInv, [Next]_vars PROVE IndInv'
    OBVIOUS
<1>1. CASE ChangeWatchlist \/ UNCHANGED vars
    BY <1>1, EnvironmentStep
<1>2. CASE \E t \in Threads : Hook(t)
  <2>1. PICK t \in Threads : Hook(t)
      BY <1>2
  <2>2. CASE \E f \in Folios : FolioAdded(t, f) \/ FolioAccessed(t, f) \/ FolioEvicted(t, f)
      BY <2>2, FolioAddedStep, FolioAccessedStep, FolioEvictedStep
  <2>3. CASE FolioAddedList(t) \/ FolioAddedCount(t) \/ FolioAddedMeta(t)
      BY <2>3, FolioAddedListStep, FolioAddedCountStep, FolioAddedMetaStep
  <2>4. CASE FolioAccessedCreate(t)
      BY <2>4, FolioAccessedCreateStep
  <2>5. CASE FolioEvictedLookup(t) \/ FolioEvictedDelete(t) \/ FolioEvictedCount(t)
      BY <2>5, FolioEvictedLookupStep, FolioEvictedDeleteStep, FolioEvictedCountStep
  <2>6. CASE EvictFolios(t) \/ EvictFoliosEnd(t)
      BY <2>6, EvictFoliosStep
  <2> QED
      BY <2>1, <2>2, <2>3, <2>4, <2>5, <2>6 DEF Hook
<1> QED
    BY <1>1, <1>2 DEF Next

\* The strengthening that the three facts below follow from.
THEOREM Inductive == Spec => []IndInv
BY InitIndInv, NextIndInv, PTL DEF Spec

\* The state keeps its types through every interleaving; in particular the
\* counter of mixed_folio_added and mixed_folio_evicted never becomes negative.
THEOREM TypeCorrect == Spec => []TypeOK
<1>1. IndInv => TypeOK
    BY DEF IndInv
<1> QED
    BY <1>1, Inductive, PTL

\* The flag touched_by_scan and the list of a folio agree until its removal ends.
THEOREM TouchedIsOnScanListHolds == Spec => []TouchedIsOnScanList
<1>1. IndInv => TouchedIsOnScanList
    BY DEF IndInv, Relations
<1> QED
    BY <1>1, Inductive, PTL

\* scan_pages is exact up to the hooks under way and the flags that a failed
\* update or a racing access lost.
THEOREM ScanPagesConservedHolds == Spec => []ScanPagesConserved
<1>1. IndInv => ScanPagesConserved
    BY DEF IndInv
<1> QED
    BY <1>1, Inductive, PTL

\* Each unit of scan_pages is a folio of the scan list, a removal under way, or lost:
\* flagged folios are on the list or being removed by a thread that is not Pending,
\* and the folio that an addition has counted is on the list without its flag.
LEMMA PagesAreListed ==
    ASSUME IndInv
    PROVE  scan_pages <= Len(scan_list) + Cardinality(ThreadsAt(EvictedLabels)) + lost
<1> DEFINE Listed == ToSet(scan_list)
           Removers == ThreadsAt(EvictedLabels)
           Adders == Pending \ Removers
<1>1. TypeOK /\ HookInv /\ Exclusive /\ TouchedIsOnScanList /\ ScanPagesConserved
    BY DEF IndInv, Relations
<1>2. scan_list \in Seq(Folios) /\ IsInjective(scan_list) /\ lost \in Nat
    BY <1>1, GetScanAssumption DEF TypeOK
<1>3. IsFiniteSet(Listed) /\ Cardinality(Listed) = Len(scan_list) /\ Len(scan_list) \in Nat
    BY <1>2, InjectiveLen, LenProperties
<1>4. IsFiniteSet(Removers) /\ Cardinality(Removers) \in Nat
  <2>1. Removers \subseteq Threads
      BY DEF ThreadsAt
  <2> QED
      BY <2>1, GetScanAssumption, FS_Subset, FS_CardinalityType
<1>5. /\ IsFiniteSet(Flagged) /\ Cardinality(Flagged) \in Nat
      /\ IsFiniteSet(Pending) /\ Cardinality(Pending) \in Nat
    BY <1>1, FiniteAccounts
<1>6. \A t \in Adders : /\ t \in Threads /\ th[t].pc = "add_meta"
                        /\ th[t].f \in Listed \ touched /\ th[t].pc \in Locked
    BY <1>1 DEF Pending, PendingLabels, ThreadsAt, HookInv, Locked, AddLabels, EvictedLabels
<1>7. Cardinality(Adders) <= Cardinality(Listed \ Flagged)
  <2> DEFINE folio == [t \in Adders |-> th[t].f]
  <2>1. Flagged \subseteq touched
      BY DEF Flagged
  <2>2. \A t, u \in Adders : th[t].f = th[u].f => t = u
      BY <1>1, <1>6 DEF Exclusive
  <2>3. folio \in Injection(Adders, Listed \ Flagged)
      BY <1>6, <2>1, <2>2 DEF Injection, IsInjective
  <2>4. IsFiniteSet(Listed \ Flagged)
      BY <1>3, FS_Difference
  <2> HIDE DEF folio
  <2> QED
      BY <2>3, <2>4, FS_Injection
<1>8. Cardinality(Flagged \ Listed) <= Cardinality(Removers \ Pending)
  <2>1. ASSUME NEW f \in Flagged \ Listed
        PROVE  \E t \in Removers \ Pending : th[t].f = f
    <3>1. f \in touched /\ f \notin FlagRead
        BY DEF Flagged
    <3>2. PICK t \in Removers : th[t].f = f
        BY <1>1, <3>1 DEF TouchedIsOnScanList, Removing
    <3>3. th[t].pc # "evicted_delete" /\ t \in Threads
        BY <3>1, <3>2 DEF FlagRead, ThreadsAt
    <3>4. th[t].pc # "evicted_count"
        BY <1>1, <3>1, <3>2, <3>3 DEF HookInv
    <3>5. t \notin Pending
        BY <3>3, <3>4 DEF Pending, PendingLabels, ThreadsAt, EvictedLabels
    <3> QED
        BY <3>2, <3>5
  <2> DEFINE remover == [f \in Flagged \ Listed |-> CHOOSE t \in Removers \ Pending : th[t].f = f]
  <2>2. \A f \in Flagged \ Listed : remover[f] \in Removers \ Pending /\ th[remover[f]].f = f
      BY <2>1
  <2>3. remover \in [Flagged \ Listed -> Removers \ Pending]
      BY <2>2
  <2> HIDE DEF remover
  <2>4. \A f, g \in Flagged \ Listed : remover[f] = remover[g] => f = g
      BY <2>2
  <2>5. remover \in Injection(Flagged \ Listed, Removers \ Pending)
      BY <2>3, <2>4 DEF Injection, IsInjective
  <2>6. IsFiniteSet(Removers \ Pending)
      BY <1>4, FS_Difference
  <2> QED
      BY <2>5, <2>6, FS_Injection
<1> HIDE DEF Listed, Removers
<1>9. /\ Cardinality(Adders) = Cardinality(Pending) - Cardinality(Pending \cap Removers)
      /\ Cardinality(Removers \ Pending)
           = Cardinality(Removers) - Cardinality(Pending \cap Removers)
  <2>1. Removers \cap Pending = Pending \cap Removers
      OBVIOUS
  <2> QED
      BY <1>4, <1>5, <2>1, FS_Difference
<1>10. /\ Cardinality(Flagged \ Listed)
             = Cardinality(Flagged) - Cardinality(Flagged \cap Listed)
       /\ Cardinality(Listed \ Flagged)
             = Cardinality(Listed) - Cardinality(Flagged \cap Listed)
  <2>1. Listed \cap Flagged = Flagged \cap Listed
      OBVIOUS
  <2> QED
      BY <1>3, <1>5, <2>1, FS_Difference
<1>11. Cardinality(Pending \cap Removers) \in Nat /\ Cardinality(Flagged \cap Listed) \in Nat
    BY <1>5, FS_Subset, FS_CardinalityType
<1>12. Cardinality(Flagged) + Cardinality(Pending)
         <= Cardinality(Listed) + Cardinality(Removers)
    BY <1>3, <1>4, <1>5, <1>7, <1>8, <1>9, <1>10, <1>11
<1>13. scan_pages = Cardinality(Flagged) + Cardinality(Pending) + lost
    BY <1>1 DEF ScanPagesConserved
<1> QED
    BY <1>2, <1>3, <1>4, <1>5, <1>12, <1>13 DEF Removers

\* "When evicting, use the scan list first always" (line 359): mixed_evict_folios does so
\* only when that list holds ScanThreshold folios, up to the removals under way and the
\* flags lost, whatever moves the counter and the list apart in the other hooks.
THEOREM SampledScanListIsLongHolds == Spec => SampledScanListIsLong
<1>1. ASSUME IndInv, [Next]_vars, NEW t \in Threads,
             At(t, "idle"), At(t, "sample_scan")'
      PROVE  scan_pages >= ScanThreshold
  <2>1. th \in [Threads -> ThreadStates]
      BY <1>1 DEF IndInv, TypeOK
  <2>2. CASE ChangeWatchlist \/ UNCHANGED vars
      BY <1>1, <2>2 DEF ChangeWatchlist, vars, At
  <2>3. ASSUME NEW u \in Threads, Hook(u) PROVE scan_pages >= ScanThreshold
    <3>1. CASE EvictFolios(u)
      <4>1. scan_pages \in Nat /\ ScanThreshold \in Nat
          BY <1>1, GetScanAssumption DEF IndInv, TypeOK
      <4>2. CASE SamplesScans
          BY <4>1, <4>2 DEF SamplesScans
      <4>3. CASE ~SamplesScans
          BY <1>1, <2>1, <3>1, <4>3 DEF EvictFolios, Goto, At
      <4> QED
          BY <4>2, <4>3
    <3>2. CASE ~EvictFolios(u)
      <4>1. \/ UNCHANGED th
            \/ \E l \in Labels \ {"sample_scan"} : \E f, b :
                  th' = [th EXCEPT ![u] = [pc |-> l, f |-> f, scan |-> b]]
        <5> USE DEF Goto, Return, Idle, Labels, AddLabels, EvictedLabels
        <5>1. CASE \E f \in Folios : FolioAdded(u, f) \/ FolioAccessed(u, f) \/ FolioEvicted(u, f)
            BY <5>1 DEF FolioAdded, FolioAccessed, FolioEvicted
        <5>2. CASE FolioAddedList(u) \/ FolioAddedCount(u) \/ FolioAddedMeta(u)
            BY <5>2 DEF FolioAddedList, FolioAddedCount, FolioAddedMeta
        <5>3. CASE FolioAccessedCreate(u)
            BY <5>3 DEF FolioAccessedCreate
        <5>4. CASE FolioEvictedLookup(u) \/ FolioEvictedDelete(u) \/ FolioEvictedCount(u)
            BY <5>4 DEF FolioEvictedLookup, FolioEvictedDelete, FolioEvictedCount
        <5>5. CASE EvictFoliosEnd(u)
            BY <5>5 DEF EvictFoliosEnd
        <5> QED
            BY <2>3, <3>2, <5>1, <5>2, <5>3, <5>4, <5>5 DEF Hook
      <4> QED
          BY <1>1, <2>1, <4>1 DEF At
    <3> QED
        BY <3>1, <3>2
  <2> QED
      BY <1>1, <2>2, <2>3 DEF Next
<1>2. IndInv /\ [Next]_vars =>
         [\A t \in Threads :
             At(t, "idle") /\ At(t, "sample_scan")' =>
                Len(scan_list) + Cardinality(ThreadsAt(EvictedLabels)) + lost
                    >= ScanThreshold]_vars
  <2> SUFFICES ASSUME IndInv, [Next]_vars, NEW t \in Threads,
                      At(t, "idle"), At(t, "sample_scan")'
               PROVE  Len(scan_list) + Cardinality(ThreadsAt(EvictedLabels)) + lost
                          >= ScanThreshold
      OBVIOUS
  <2>1. scan_pages >= ScanThreshold
      BY <1>1
  <2>2. scan_pages <= Len(scan_list) + Cardinality(ThreadsAt(EvictedLabels)) + lost
      BY PagesAreListed
  <2>3. /\ scan_pages \in Nat /\ ScanThreshold \in Nat /\ Len(scan_list) \in Nat
        /\ lost \in Nat
      BY GetScanAssumption, LenProperties DEF IndInv, TypeOK
  <2>4. Cardinality(ThreadsAt(EvictedLabels)) \in Nat
    <3>1. ThreadsAt(EvictedLabels) \subseteq Threads
        BY DEF ThreadsAt
    <3> QED
        BY <3>1, GetScanAssumption, FS_Subset, FS_CardinalityType
  <2> QED
      BY <2>1, <2>2, <2>3, <2>4
<1> QED
    BY <1>2, Inductive, PTL DEF Spec, SampledScanListIsLong

-----------------------------------------------------------------------------
(* The refinement of PagePolicy *)

addingFolios == {f \in Folios : Adding(f)}
listedFolios == ToSet(general_list) \cup ToSet(scan_list)

\* A stutter of the abstract policy.
Stutter == UNCHANGED <<cached, addingFolios, listedFolios>>

AbstractStep == Policy!Next \/ Stutter

\* What a step of one thread does to the folios being added.
LEMMA AddingStep ==
    ASSUME IndInv, NEW t \in Threads, NEW new, th' = [th EXCEPT ![t] = new]
    PROVE  /\ th[t].pc \notin AddLabels /\ new.pc \notin AddLabels
                => addingFolios' = addingFolios
           /\ th[t].pc \in AddLabels /\ new.pc \in AddLabels /\ new.f = th[t].f
                => addingFolios' = addingFolios
           /\ th[t].pc \notin AddLabels /\ new.pc \in AddLabels /\ new.f \in Folios
                => addingFolios' = addingFolios \cup {new.f}
           /\ th[t].pc \in AddLabels /\ new.pc \notin AddLabels
                => addingFolios' = addingFolios \ {th[t].f}
<1>1. th'[t] = new /\ \A u \in Threads : u # t => th'[u] = th[u]
    BY DEF IndInv, TypeOK
<1>2. \A u \in Threads :
         u # t /\ th[u].pc \in AddLabels /\ th[t].pc \in AddLabels => th[u].f # th[t].f
    BY DEF IndInv, Relations, Exclusive, Locked
<1>3. \A f : Adding(f) <=> \E u \in Threads : th[u].f = f /\ th[u].pc \in AddLabels
    BY DEF Adding, ThreadsAt
<1>4. \A f : Adding(f)' <=> \E u \in Threads : th'[u].f = f /\ th'[u].pc \in AddLabels
    BY DEF Adding, ThreadsAt, AddLabels
<1> HIDE DEF AddLabels
<1>5. addingFolios = {f \in Folios : Adding(f)} /\ addingFolios' = {f \in Folios : Adding(f)'}
    BY DEF addingFolios
<1>6. th[t].pc \notin AddLabels /\ new.pc \notin AddLabels => \A f : Adding(f)' <=> Adding(f)
    BY <1>1, <1>3, <1>4
<1>7. th[t].pc \in AddLabels /\ new.pc \in AddLabels /\ new.f = th[t].f
        => \A f : Adding(f)' <=> Adding(f)
    BY <1>1, <1>3, <1>4
<1>8. th[t].pc \notin AddLabels /\ new.pc \in AddLabels
        => \A f : Adding(f)' <=> Adding(f) \/ f = new.f
    BY <1>1, <1>3, <1>4
<1>9. th[t].pc \in AddLabels /\ new.pc \notin AddLabels
        => \A f : Adding(f)' <=> Adding(f) /\ f # th[t].f
    BY <1>1, <1>2, <1>3, <1>4
<1> QED
    BY <1>5, <1>6, <1>7, <1>8, <1>9

\* Steps that neither begin nor end an addition, and move no folio.
LEMMA QuietSteps ==
    ASSUME IndInv, NEW t \in Threads,
           \/ \E f \in Folios : FolioAccessed(t, f)
           \/ FolioAddedCount(t) \/ FolioAccessedCreate(t)
           \/ FolioEvictedLookup(t) \/ FolioEvictedDelete(t) \/ FolioEvictedCount(t)
           \/ EvictFolios(t) \/ EvictFoliosEnd(t)
    PROVE  Stutter
<1>1. UNCHANGED <<cached, general_list, scan_list>>
    BY DEF FolioAccessed, FolioAddedCount, FolioAccessedCreate, FolioEvictedLookup,
           FolioEvictedDelete, FolioEvictedCount, EvictFolios, EvictFoliosEnd, kernel, lists
<1>2. addingFolios' = addingFolios
  <2>1. CASE FolioAddedCount(t)
    <3> DEFINE new == [pc |-> "add_meta", f |-> th[t].f, scan |-> th[t].scan]
    <3>1. th[t].pc = "add_count" /\ th' = [th EXCEPT ![t] = new]
        BY <2>1 DEF FolioAddedCount, At, Goto
    <3>2. new.pc = "add_meta" /\ new.f = th[t].f
        OBVIOUS
    <3> HIDE DEF new
    <3> QED
        BY <3>1, <3>2, AddingStep DEF AddLabels
  <2>2. ASSUME NEW f \in Folios, FolioAccessed(t, f) PROVE addingFolios' = addingFolios
    <3> DEFINE new == [pc |-> "create", f |-> f, scan |-> FALSE]
    <3>1. th[t].pc = "idle" /\ th' = [th EXCEPT ![t] = new] /\ new.pc = "create"
        BY <2>2 DEF FolioAccessed, At, Goto
    <3> HIDE DEF new
    <3> QED
        BY <3>1, AddingStep DEF AddLabels
  <2>3. CASE FolioAccessedCreate(t) \/ FolioEvictedCount(t) \/ EvictFoliosEnd(t)
    <3>1. th[t].pc \notin AddLabels /\ th' = [th EXCEPT ![t] = Idle] /\ Idle.pc = "idle"
        BY <2>3 DEF FolioAccessedCreate, FolioEvictedCount, EvictFoliosEnd, At, Return,
                    AddLabels, Idle
    <3> QED
        BY <3>1, AddingStep DEF AddLabels
  <2>4. CASE FolioEvictedLookup(t)
    <3> DEFINE new == [pc |-> "evicted_delete", f |-> th[t].f, scan |-> th[t].f \in touched]
    <3>1. th[t].pc = "evicted_lookup" /\ th' = [th EXCEPT ![t] = new]
          /\ new.pc = "evicted_delete"
        BY <2>4 DEF FolioEvictedLookup, At, Goto
    <3> HIDE DEF new
    <3> QED
        BY <3>1, AddingStep DEF AddLabels
  <2>5. CASE FolioEvictedDelete(t)
    <3> DEFINE new == [pc |-> "evicted_count", f |-> th[t].f, scan |-> th[t].scan]
    <3>1. /\ th[t].pc = "evicted_delete" /\ new.pc = "evicted_count" /\ Idle.pc = "idle"
          /\ th' = [th EXCEPT ![t] = new] \/ th' = [th EXCEPT ![t] = Idle]
        BY <2>5 DEF FolioEvictedDelete, At, Goto, Return, Idle
    <3> HIDE DEF new
    <3> QED
        BY <3>1, AddingStep DEF AddLabels
  <2>6. CASE EvictFolios(t)
    <3> DEFINE label == IF scan_pages = 0 THEN "no_pages"
                        ELSE IF SamplesScans THEN "sample_scan" ELSE "sample_general"
               new == [pc |-> label, f |-> NoFolio, scan |-> FALSE]
    <3>1. th[t].pc = "idle" /\ th' = [th EXCEPT ![t] = new]
        BY <2>6 DEF EvictFolios, At, Goto
    <3>2. new.pc \notin AddLabels
        BY DEF AddLabels
    <3> HIDE DEF new
    <3> QED
        BY <3>1, <3>2, AddingStep DEF AddLabels
  <2> QED
      BY <2>1, <2>2, <2>3, <2>4, <2>5, <2>6
<1> QED
    BY <1>1, <1>2 DEF Stutter, listedFolios

LEMMA FolioAddedEnters ==
    ASSUME IndInv, NEW t \in Threads, NEW f \in Folios, FolioAdded(t, f)
    PROVE  Policy!Enter(f)
<1>1. /\ th[t].pc = "idle" /\ f \notin cached /\ cached' = cached \cup {f}
      /\ UNCHANGED <<general_list, scan_list>>
      /\ \/ UNCHANGED th
         \/ \E scan \in BOOLEAN :
               th' = [th EXCEPT ![t] = [pc |-> "add_list", f |-> f, scan |-> scan]]
    BY DEF FolioAdded, At, Goto, lists
<1>2. addingFolios' \in {addingFolios, addingFolios \cup {f}}
  <2>1. CASE UNCHANGED th
      BY <2>1 DEF addingFolios, Adding, ThreadsAt
  <2>2. ASSUME NEW scan \in BOOLEAN,
               th' = [th EXCEPT ![t] = [pc |-> "add_list", f |-> f, scan |-> scan]]
        PROVE  addingFolios' = addingFolios \cup {f}
    <3> DEFINE new == [pc |-> "add_list", f |-> f, scan |-> scan]
    <3>1. th' = [th EXCEPT ![t] = new] /\ new.pc = "add_list" /\ new.f = f
        BY <2>2
    <3> HIDE DEF new
    <3> QED
        BY <1>1, <3>1, AddingStep DEF AddLabels
  <2> QED
      BY <1>1, <2>1, <2>2
<1>3. UNCHANGED listedFolios
    BY <1>1 DEF listedFolios
<1> QED
    BY <1>1, <1>2, <1>3 DEF Policy!Enter, addingFolios, listedFolios

LEMMA FolioAddedListLinks ==
    ASSUME IndInv, NEW t \in Threads, FolioAddedList(t)
    PROVE  \E f \in Folios : Policy!Link(f) \/ Policy!Settle(f)
<1> DEFINE f == th[t].f
           label == IF th[t].scan THEN "add_count" ELSE "add_meta"
           new == [pc |-> label, f |-> f, scan |-> th[t].scan]
<1>1. /\ th[t].pc = "add_list" /\ cached' = cached
      /\ \/ /\ th' = [th EXCEPT ![t] = new]
            /\ \/ scan_list' = ListAddTail(scan_list, f) /\ UNCHANGED general_list
               \/ general_list' = ListAddTail(general_list, f) /\ UNCHANGED scan_list
         \/ th' = [th EXCEPT ![t] = Idle] /\ UNCHANGED <<general_list, scan_list>>
    BY DEF FolioAddedList, At, Goto, Return, kernel, lists
<1>2. f \in cached /\ f \notin ToSet(scan_list) /\ f \notin ToSet(general_list)
    BY <1>1 DEF IndInv, Relations, HookInv, AddLabels
<1>3. /\ f \in Folios /\ scan_list \in Seq(Folios) /\ general_list \in Seq(Folios)
    BY <1>2 DEF IndInv, TypeOK
<1>4. f \in addingFolios /\ f \notin listedFolios
    BY <1>1, <1>2, <1>3 DEF addingFolios, listedFolios, Adding, ThreadsAt, AddLabels
<1>5. new.pc \in {"add_count", "add_meta"} /\ new.f = f /\ Idle.pc = "idle"
    BY DEF Idle
<1> HIDE DEF new, label
<1>6. ASSUME th' = [th EXCEPT ![t] = new], 
             \/ scan_list' = ListAddTail(scan_list, f) /\ UNCHANGED general_list
             \/ general_list' = ListAddTail(general_list, f) /\ UNCHANGED scan_list
      PROVE  Policy!Link(f)
  <2>1. addingFolios' = addingFolios
      BY <1>1, <1>5, <1>6, AddingStep DEF AddLabels
  <2>2. listedFolios' = listedFolios \cup {f}
    <3> HIDE DEF f
    <3>1. ToSet(ListAddTail(scan_list, f)) = ToSet(scan_list) \cup {f}
        BY <1>3, AddProperties
    <3>2. ToSet(ListAddTail(general_list, f)) = ToSet(general_list) \cup {f}
        BY <1>3, AddProperties
    <3> QED
        BY <1>6, <3>1, <3>2 DEF listedFolios
  <2> QED
      BY <1>1, <1>4, <2>1, <2>2 DEF Policy!Link, addingFolios, listedFolios
<1>7. ASSUME th' = [th EXCEPT ![t] = Idle], UNCHANGED <<general_list, scan_list>>
      PROVE  Policy!Settle(f)
  <2>1. addingFolios' = addingFolios \ {f}
      BY <1>1, <1>5, <1>7, AddingStep DEF AddLabels
  <2>2. listedFolios' = listedFolios
      BY <1>7 DEF listedFolios
  <2> QED
      BY <1>1, <1>4, <2>1, <2>2 DEF Policy!Settle, addingFolios, listedFolios
<1> QED
    BY <1>1, <1>3, <1>6, <1>7

LEMMA FolioAddedMetaSettles ==
    ASSUME IndInv, NEW t \in Threads, FolioAddedMeta(t)
    PROVE  \E f \in Folios : Policy!Settle(f)
<1> DEFINE f == th[t].f
<1>1. /\ th[t].pc = "add_meta" /\ th' = [th EXCEPT ![t] = Idle] /\ cached' = cached
      /\ UNCHANGED <<general_list, scan_list>>
    BY DEF FolioAddedMeta, At, Return, kernel, lists
<1>2. f \in Folios
    BY <1>1 DEF IndInv, TypeOK, Relations, HookInv, AddLabels
<1>3. f \in addingFolios
    BY <1>1, <1>2 DEF addingFolios, Adding, ThreadsAt, AddLabels
<1>4. addingFolios' = addingFolios \ {f}
  <2>1. Idle.pc = "idle"
      BY DEF Idle
  <2> QED
      BY <1>1, <2>1, AddingStep DEF AddLabels
<1>5. listedFolios' = listedFolios
    BY <1>1 DEF listedFolios
<1>6. Policy!Settle(f)
    BY <1>1, <1>3, <1>4, <1>5 DEF Policy!Settle, addingFolios, listedFolios
<1> QED
    BY <1>2, <1>6

LEMMA FolioEvictedLeaves ==
    ASSUME IndInv, NEW t \in Threads, NEW f \in Folios, FolioEvicted(t, f)
    PROVE  Policy!Leave(f)
<1> DEFINE new == [pc |-> "evicted_lookup", f |-> f, scan |-> FALSE]
<1>1. /\ th[t].pc = "idle" /\ f \in cached /\ ~Adding(f) /\ cached' = cached \ {f}
      /\ scan_list' = ListDel(scan_list, f) /\ general_list' = ListDel(general_list, f)
      /\ th' = [th EXCEPT ![t] = new] /\ new.pc = "evicted_lookup"
    BY DEF FolioEvicted, At, Goto, Handles
<1> HIDE DEF new
<1>2. UNCHANGED addingFolios
    BY <1>1, AddingStep DEF AddLabels
<1>3. listedFolios' = listedFolios \ {f}
  <2>1. scan_list \in Seq(Folios) /\ general_list \in Seq(Folios)
      BY DEF IndInv, TypeOK
  <2>2. /\ ToSet(scan_list') = ToSet(scan_list) \ {f}
        /\ ToSet(general_list') = ToSet(general_list) \ {f}
      BY <1>1, <2>1, DelProperties
  <2> QED
      BY <2>2 DEF listedFolios
<1>4. f \notin addingFolios
    BY <1>1 DEF addingFolios
<1> QED
    BY <1>1, <1>2, <1>3, <1>4 DEF Policy!Leave, addingFolios, listedFolios

LEMMA InitRefines == Init => Policy!Init
<1> SUFFICES ASSUME Init PROVE Policy!Init
    OBVIOUS
<1>1. listedFolios = {}
    BY DEF Init, listedFolios, ToSet
<1>2. addingFolios = {}
    BY DEF Init, addingFolios, Adding, ThreadsAt, Idle, AddLabels
<1> QED
    BY <1>1, <1>2 DEF Init, Policy!Init, addingFolios, listedFolios

LEMMA StepRefines == IndInv /\ [Next]_vars => [Policy!Next]_(Policy!vars)
<1> SUFFICES ASSUME IndInv, [Next]_vars PROVE AbstractStep
    BY DEF AbstractStep, Stutter, Policy!vars, addingFolios, listedFolios
<1>1. CASE ChangeWatchlist \/ UNCHANGED vars
  <2>1. UNCHANGED <<cached, general_list, scan_list, th>>
      BY <1>1 DEF ChangeWatchlist, vars, lists
  <2> QED
      BY <2>1 DEF AbstractStep, Stutter, addingFolios, listedFolios, Adding, ThreadsAt
<1>2. ASSUME NEW t \in Threads, Hook(t) PROVE AbstractStep
  <2>1. ASSUME NEW f \in Folios, FolioAdded(t, f) PROVE AbstractStep
      BY <2>1, FolioAddedEnters DEF AbstractStep, Policy!Next
  <2>2. ASSUME NEW f \in Folios, FolioEvicted(t, f) PROVE AbstractStep
      BY <2>2, FolioEvictedLeaves DEF AbstractStep, Policy!Next
  <2>3. CASE FolioAddedList(t)
      BY <2>3, FolioAddedListLinks DEF AbstractStep, Policy!Next
  <2>4. CASE FolioAddedMeta(t)
      BY <2>4, FolioAddedMetaSettles DEF AbstractStep, Policy!Next
  <2>5. ASSUME NEW f \in Folios, FolioAccessed(t, f) PROVE AbstractStep
      BY <2>5, QuietSteps DEF AbstractStep
  <2>6. CASE \/ FolioAddedCount(t) \/ FolioAccessedCreate(t)
             \/ FolioEvictedLookup(t) \/ FolioEvictedDelete(t) \/ FolioEvictedCount(t)
             \/ EvictFolios(t) \/ EvictFoliosEnd(t)
      BY <2>6, QuietSteps DEF AbstractStep
  <2> QED
      BY <1>2, <2>1, <2>2, <2>3, <2>4, <2>5, <2>6, Zenon DEF Hook
<1> QED
    BY <1>1, <1>2 DEF Next

\* GET/SCAN keeps the promise of the abstract policy: whatever accesses and failed
\* updates do to flag and counter, only mixed_folio_added and the page cache decide
\* which folios are on the lists.
THEOREM GetScanImplementsPagePolicy == Spec => ImplementsPagePolicy
<1>1. Init => Policy!Init
    BY InitRefines
<1>2. IndInv /\ [Next]_vars => [Policy!Next]_(Policy!vars)
    BY StepRefines
<1> QED
    BY <1>1, <1>2, Inductive, PTL DEF Spec, ImplementsPagePolicy, Policy!Spec

=============================================================================
