------------------------------ MODULE S3FifoProofs ------------------------------
(***************************************************************************)
(* Theorems about the S3-FIFO policy, for any number of folios and threads  *)
(* and whatever the bounds: types, the relation between the page cache, the *)
(* lists, the metadata map and the ghost map while hooks interleave, the    *)
(* refinement of PagePolicy, and the two counters against their lists.      *)
(***************************************************************************)
EXTENDS S3Fifo, CacheExtListsProofs

Locked == AddLabels \cup EvictedLabels

\* What is known of the folio of a thread that is in the middle of
\* s3fifo_folio_added or s3fifo_folio_evicted.
HookInv ==
    \A t \in Threads :
        /\ th[t].pc \in AddLabels =>
             /\ th[t].f \in cached /\ th[t].f \notin tracked
             /\ th[t].f \in ghost => th[t].f \in leftover
        /\ th[t].pc = "add_list" =>
             th[t].f \notin ToSet(small_list) /\ th[t].f \notin ToSet(main_list)
        /\ th[t].pc = "add_meta" /\ th[t].main => th[t].f \in ToSet(main_list)
        /\ th[t].pc \in EvictedLabels => th[t].f \in tracked /\ th[t].f \notin cached

\* The folio lock.
Exclusive ==
    \A t, u \in Threads :
        t # u /\ th[t].pc \in Locked /\ th[u].pc \in Locked => th[t].f # th[u].f

Relations ==
    /\ HookInv /\ Exclusive
    /\ MetadataReleased /\ TrackedIsNotGhost /\ InMainIsOnMainList

IndInv == TypeOK /\ Relations

-----------------------------------------------------------------------------
\* The states a hook gives its thread.
LEMMA NewStates ==
    /\ Idle \in ThreadStates /\ Idle.pc = "idle"
    /\ \A l \in Labels, f \in Folios :
          LET new == [Idle EXCEPT !.pc = l, !.f = f]
          IN  new \in ThreadStates /\ new.pc = l /\ new.f = f
    /\ \A l \in Labels :
          LET new == [Idle EXCEPT !.pc = l]
          IN  new \in ThreadStates /\ new.pc = l
    /\ \A l \in Labels, n \in Nat :
          LET new == [Idle EXCEPT !.pc = l, !.n = n]
          IN  new \in ThreadStates /\ new.pc = l
    /\ \A l \in Labels, n \in Nat, nr \in Nat :
          LET new == [Idle EXCEPT !.pc = l, !.n = n, !.nr = nr]
          IN  new \in ThreadStates /\ new.pc = l
BY DEF Idle, ThreadStates, Labels

\* A step outside the sections that hold the folio lock disturbs no relation, if
\* it changes neither map's keys, keeps the main list's folios there, takes no
\* new folio on a list and sets in_main only for tracked folios of the main list.
LEMMA QuietStep ==
    ASSUME IndInv,
           UNCHANGED <<cached, tracked, ghost, leftover>>,
           in_main' \subseteq tracked,
           in_main' \subseteq in_main \cup ToSet(main_list'),
           ToSet(main_list) \subseteq ToSet(main_list'),
           ToSet(small_list') \subseteq ToSet(small_list) \cup ToSet(main_list),
           ToSet(main_list') \subseteq ToSet(small_list) \cup ToSet(main_list),
           th' \in [Threads -> ThreadStates],
           \A t \in Threads :
              \/ th'[t] = th[t]
              \/ th[t].pc \notin Locked /\ th'[t].pc \notin Locked
    PROVE  Relations'
<1>1. \A t \in Threads : th'[t].pc \in Locked => th'[t] = th[t]
    OBVIOUS
<1>2. HookInv'
    BY <1>1 DEF IndInv, Relations, HookInv, Locked, AddLabels, EvictedLabels
<1>3. Exclusive'
    BY <1>1 DEF IndInv, Relations, Exclusive
<1>4. \A f \in Folios : Removing(f) => Removing(f)'
    BY DEF Removing, Locked
<1>5. tracked \subseteq Folios /\ in_main \subseteq Folios
    BY DEF IndInv, TypeOK
<1>6. MetadataReleased' /\ TrackedIsNotGhost'
    BY <1>4, <1>5 DEF IndInv, Relations, MetadataReleased, TrackedIsNotGhost
<1>7. InMainIsOnMainList'
    BY <1>4, <1>5 DEF IndInv, Relations, InMainIsOnMainList
<1> QED
    BY <1>2, <1>3, <1>6, <1>7 DEF Relations

LEMMA InitIndInv == Init => IndInv
<1> SUFFICES ASSUME Init PROVE IndInv
    OBVIOUS
<1>1. \A t \in Threads : th[t] = Idle /\ th[t].pc = "idle"
    BY NewStates DEF Init
<1>2. TypeOK
  <2>1. /\ small_list = <<>> /\ main_list = <<>> /\ ToSet(<<>>) = {}
        /\ <<>> \in Seq(Folios) /\ IsInjective(<<>>)
      BY DEF Init, ToSet, IsInjective
  <2>2. ghost \subseteq Folios /\ Cardinality(ghost) <= GhostSize /\ leftover \subseteq ghost
    <3>1. ghost = {} /\ leftover = {} /\ Cardinality({}) = 0 /\ GhostSize \in Nat
        BY FS_EmptySet, S3FifoAssumption DEF Init
    <3> QED
        BY <3>1
  <2>3. th \in [Threads -> ThreadStates]
      BY NewStates DEF Init
  <2>4. freq \in [Folios -> Int]
      BY DEF Init
  <2>5. /\ ToSet(small_list) \subseteq cached /\ ToSet(main_list) \subseteq cached
        /\ small_list \in Seq(Folios) /\ main_list \in Seq(Folios)
        /\ IsInjective(small_list) /\ IsInjective(main_list)
        /\ ToSet(small_list) \cap ToSet(main_list) = {}
      BY <2>1
  <2>6. /\ cached = {} /\ busy = {} /\ tracked = {} /\ in_main = {}
        /\ small_list_size = 0 /\ main_list_size = 0 /\ lost = 0 /\ clamped = FALSE
      BY DEF Init
  <2>7. clamped \in BOOLEAN
      BY <2>6
  <2>8. /\ cached \subseteq Folios /\ busy \subseteq cached
        /\ tracked \subseteq Folios /\ in_main \subseteq tracked
      BY <2>6
  <2>9. small_list_size \in Int /\ main_list_size \in Int /\ lost \in Nat
      BY <2>6
  <2> QED
      BY <2>2, <2>3, <2>4, <2>5, <2>7, <2>8, <2>9, Zenon DEF TypeOK
<1>3. Relations
    BY <1>1 DEF Init, Relations, HookInv, Exclusive, MetadataReleased, TrackedIsNotGhost,
                InMainIsOnMainList, Locked, AddLabels, EvictedLabels
<1> QED
    BY <1>2, <1>3 DEF IndInv

-----------------------------------------------------------------------------
\* Steps of the environment and of a quiet hook keep the types of the lists.
LEMMA ListsKept ==
    ASSUME TypeOK, UNCHANGED <<small_list, main_list>>
    PROVE  /\ small_list' \in Seq(Folios) /\ main_list' \in Seq(Folios)
           /\ IsInjective(small_list') /\ IsInjective(main_list')
           /\ ToSet(small_list') \cap ToSet(main_list') = {}
           /\ ToSet(small_list') \subseteq cached /\ ToSet(main_list') \subseteq cached
BY DEF TypeOK

\* Removing a folio from both lists, whichever holds it.
LEMMA ListsAfterDel ==
    ASSUME TypeOK, NEW f, lists' = <<ListDel(small_list, f), ListDel(main_list, f)>>
    PROVE  /\ small_list' \in Seq(Folios) /\ main_list' \in Seq(Folios)
           /\ IsInjective(small_list') /\ IsInjective(main_list')
           /\ ToSet(small_list') = ToSet(small_list) \ {f}
           /\ ToSet(main_list') = ToSet(main_list) \ {f}
           /\ ToSet(small_list') \cap ToSet(main_list') = {}
           /\ ToSet(small_list') \subseteq cached \ {f}
           /\ ToSet(main_list') \subseteq cached \ {f}
<1>1. small_list' = ListDel(small_list, f) /\ main_list' = ListDel(main_list, f)
    BY DEF lists
<1>2. /\ small_list \in Seq(Folios) /\ main_list \in Seq(Folios)
      /\ IsInjective(small_list) /\ IsInjective(main_list)
      /\ ToSet(small_list) \cap ToSet(main_list) = {}
      /\ ToSet(small_list) \subseteq cached /\ ToSet(main_list) \subseteq cached
    BY DEF TypeOK
<1>3. /\ ListDel(small_list, f) \in Seq(Folios) /\ ListDel(main_list, f) \in Seq(Folios)
      /\ ToSet(ListDel(small_list, f)) = ToSet(small_list) \ {f}
      /\ ToSet(ListDel(main_list, f)) = ToSet(main_list) \ {f}
    BY <1>2, DelProperties
<1>4. IsInjective(ListDel(small_list, f)) /\ IsInjective(ListDel(main_list, f))
    BY <1>2, OperationsInjective
<1> QED
    BY <1>1, <1>2, <1>3, <1>4

\* A step of thread t alone.
LEMMA ThreadStep ==
    ASSUME TypeOK, NEW t \in Threads, NEW new \in ThreadStates,
           th' = [th EXCEPT ![t] = new]
    PROVE  /\ th' \in [Threads -> ThreadStates]
           /\ th'[t] = new
           /\ \A u \in Threads : u # t => th'[u] = th[u]
BY DEF TypeOK

\* A thread may enter a locked section for a folio that no other thread is in.
LEMMA ExclusiveStep ==
    ASSUME Exclusive, NEW t \in Threads,
           \A u \in Threads : u # t => th'[u] = th[u],
           th'[t].pc \in Locked =>
              \A u \in Threads : u # t /\ th[u].pc \in Locked => th[u].f # th'[t].f
    PROVE  Exclusive'
BY DEF Exclusive

-----------------------------------------------------------------------------
(* The environment. *)

LEMMA EnvironmentStep ==
    ASSUME IndInv, (\E f \in Folios : SetFlags(f)) \/ UNCHANGED vars
    PROVE  IndInv'
<1>1. /\ UNCHANGED <<cached, tracked, ghost, in_main, small_list, main_list, th>>
      /\ UNCHANGED <<small_list_size, main_list_size, freq, lost, clamped, leftover>>
    BY DEF SetFlags, vars, kernel, lists, sizes, metadata, history
<1>2. busy' \subseteq cached
    BY DEF IndInv, TypeOK, SetFlags, vars
<1>3. TypeOK'
    BY <1>1, <1>2 DEF IndInv, TypeOK
<1>4. Relations'
    BY <1>1, QuietStep DEF IndInv, TypeOK
<1> QED
    BY <1>3, <1>4 DEF IndInv

-----------------------------------------------------------------------------
(* s3fifo_folio_added *)

LEMMA FolioAddedStep ==
    ASSUME IndInv, NEW t \in Threads, NEW f \in Folios, FolioAdded(t, f)
    PROVE  IndInv'
<1> DEFINE new(b) == [Idle EXCEPT !.pc = "add_list", !.f = f, !.main = b]
<1>1. /\ th[t].pc = "idle" /\ f \notin cached /\ ~Removing(f)
      /\ cached' = cached \cup {f} /\ busy' = busy \cup {f}
      /\ UNCHANGED <<small_list, main_list, tracked, freq, in_main, lost, clamped>>
    BY DEF FolioAdded, At, lists, metadata
<1>2. \/ UNCHANGED <<ghost, th, small_list_size, main_list_size, leftover>>
      \/ \E found \in BOOLEAN :
            /\ FolioInGhost(f, found) /\ th' = [th EXCEPT ![t] = new(found)]
            /\ \/ main_list_size' = main_list_size + 1 /\ UNCHANGED small_list_size
               \/ small_list_size' = small_list_size + 1 /\ UNCHANGED main_list_size
    BY DEF FolioAdded, sizes, Goto
<1>3. \A b \in BOOLEAN : new(b) \in ThreadStates /\ new(b).pc = "add_list" /\ new(b).f = f
    BY DEF Idle, ThreadStates, Labels
<1> HIDE DEF new
<1>4. f \notin tracked /\ f \notin ToSet(small_list) /\ f \notin ToSet(main_list)
    BY <1>1 DEF IndInv, TypeOK, Relations, MetadataReleased
<1>5. TypeOK'
  <2>1. /\ small_list' \in Seq(Folios) /\ main_list' \in Seq(Folios)
        /\ IsInjective(small_list') /\ IsInjective(main_list')
        /\ ToSet(small_list') \cap ToSet(main_list') = {}
        /\ ToSet(small_list') \subseteq cached' /\ ToSet(main_list') \subseteq cached'
      BY <1>1, ListsKept DEF IndInv
  <2>2. small_list_size' \in Int /\ main_list_size' \in Int
      BY <1>2 DEF IndInv, TypeOK
  <2>3. th' \in [Threads -> ThreadStates]
      BY <1>2, <1>3, ThreadStep DEF IndInv, TypeOK
  <2>4. ghost' \subseteq Folios /\ Cardinality(ghost') <= GhostSize /\ leftover' \subseteq ghost'
    <3>1. ghost' \subseteq ghost /\ leftover' \subseteq ghost'
      <4>1. leftover \subseteq ghost
          BY DEF IndInv, TypeOK
      <4> QED
          BY <1>2, <4>1 DEF FolioInGhost, GhostAfterAdd
    <3>2. IsFiniteSet(ghost) /\ ghost \subseteq Folios /\ Cardinality(ghost) <= GhostSize
        BY S3FifoAssumption, FS_Subset DEF IndInv, TypeOK
    <3>3. /\ Cardinality(ghost') <= Cardinality(ghost)
          /\ Cardinality(ghost) \in Nat /\ Cardinality(ghost') \in Nat
        BY <3>1, <3>2, FS_Subset, FS_CardinalityType
    <3>4. GhostSize \in Nat
        BY S3FifoAssumption
    <3> QED
        BY <3>1, <3>2, <3>3, <3>4
  <2>5. cached' \subseteq Folios /\ busy' \subseteq cached'
      BY <1>1 DEF IndInv, TypeOK
  <2> QED
      BY <1>1, <2>1, <2>2, <2>3, <2>4, <2>5 DEF IndInv, TypeOK
<1>6. ghost' \subseteq ghost /\ \A g : g # f /\ g \in leftover => g \in leftover'
    BY <1>2 DEF FolioInGhost, GhostAfterAdd
<1>7. \A u \in Threads :
         \/ th'[u] = th[u]
         \/ /\ u = t /\ th'[u].pc = "add_list" /\ th'[u].f = f
            /\ f \in ghost' => f \in leftover'
  <2>1. CASE UNCHANGED th
      BY <2>1
  <2>2. ASSUME NEW found \in BOOLEAN, FolioInGhost(f, found), th' = [th EXCEPT ![t] = new(found)]
        PROVE  \A u \in Threads :
                  \/ th'[u] = th[u]
                  \/ /\ u = t /\ th'[u].pc = "add_list" /\ th'[u].f = f
                     /\ f \in ghost' => f \in leftover'
    <3>1. f \in ghost' => f \in leftover'
        BY <2>2 DEF FolioInGhost, GhostAfterAdd
    <3> QED
        BY <1>3, <2>2, <3>1, ThreadStep DEF IndInv
  <2> QED
      BY <1>2, <2>1, <2>2
<1>8. \A g : Removing(g) => Removing(g)'
    BY <1>1, <1>7 DEF Removing, EvictedLabels
<1>9. HookInv'
  <2> SUFFICES ASSUME NEW u \in Threads PROVE HookInv!(u)'
      BY DEF HookInv
  <2>1. CASE th'[u] = th[u]
    <3>1. HookInv!(u)
        BY DEF IndInv, Relations, HookInv
    <3>2. th[u].pc \in AddLabels => th[u].f # f
        BY <1>1, <3>1
    <3> QED
      BY <1>1, <1>6, <2>1, <3>1, <3>2 DEF Removing
  <2>2. CASE th'[u].pc = "add_list" /\ th'[u].f = f /\ (f \in ghost' => f \in leftover')
      BY <1>1, <1>4, <2>2 DEF AddLabels, EvictedLabels
  <2> QED
      BY <1>7, <2>1, <2>2
<1>10. Exclusive'
  <2>1. \A u \in Threads : th[u].pc \in Locked => th[u].f # f
      BY <1>1, <1>4 DEF IndInv, Relations, HookInv, Locked
  <2> QED
      BY <1>7, <2>1 DEF IndInv, Relations, Exclusive
<1>11. MetadataReleased' /\ TrackedIsNotGhost' /\ InMainIsOnMainList'
    BY <1>1, <1>4, <1>6, <1>8
       DEF IndInv, Relations, MetadataReleased, TrackedIsNotGhost, InMainIsOnMainList
<1> QED
    BY <1>5, <1>9, <1>10, <1>11 DEF IndInv, Relations

LEMMA FolioAddedListStep ==
    ASSUME IndInv, NEW t \in Threads, FolioAddedList(t)
    PROVE  IndInv'
<1> DEFINE f == th[t].f
           added == [Idle EXCEPT !.pc = "add_meta", !.f = f, !.main = th[t].main]
<1>1. /\ th[t].pc = "add_list"
      /\ UNCHANGED <<cached, busy, small_list_size, main_list_size, tracked, freq,
                     in_main, ghost, clamped, leftover>>
    BY DEF FolioAddedList, At, kernel, sizes, metadata
<1>2. th[t] \in ThreadStates
    BY DEF IndInv, TypeOK
<1>3. /\ f \in cached /\ f \notin tracked /\ (f \in ghost => f \in leftover)
      /\ f \notin ToSet(small_list) /\ f \notin ToSet(main_list)
    BY <1>1 DEF IndInv, Relations, HookInv, AddLabels
<1>4. f \in Folios /\ th[t].main \in BOOLEAN
    BY <1>2, <1>3 DEF IndInv, TypeOK, ThreadStates
<1>5. /\ added \in ThreadStates /\ added.pc = "add_meta" /\ added.f = f
      /\ added.main = th[t].main
    BY <1>4 DEF Idle, ThreadStates, Labels
<1>6. \/ /\ IF th[t].main THEN main_list' = ListAddTail(main_list, f) /\ UNCHANGED small_list
                          ELSE small_list' = ListAddTail(small_list, f) /\ UNCHANGED main_list
         /\ th' = [th EXCEPT ![t] = added]
         /\ lost' = lost
      \/ th' = [th EXCEPT ![t] = Idle] /\ lost' = lost + 1 /\ UNCHANGED <<small_list, main_list>>
    BY DEF FolioAddedList, Goto, Return, lists
<1> HIDE DEF added
<1>7. /\ small_list' \in Seq(Folios) /\ main_list' \in Seq(Folios)
      /\ IsInjective(small_list') /\ IsInjective(main_list')
      /\ ToSet(small_list') \cap ToSet(main_list') = {}
      /\ ToSet(small_list') \subseteq cached /\ ToSet(main_list') \subseteq cached
      /\ ToSet(main_list) \subseteq ToSet(main_list')
      /\ \A g : g # f => /\ g \in ToSet(small_list') <=> g \in ToSet(small_list)
                         /\ g \in ToSet(main_list') <=> g \in ToSet(main_list)
  <2>1. /\ small_list \in Seq(Folios) /\ main_list \in Seq(Folios)
        /\ IsInjective(small_list) /\ IsInjective(main_list)
        /\ ToSet(small_list) \cap ToSet(main_list) = {}
        /\ ToSet(small_list) \subseteq cached /\ ToSet(main_list) \subseteq cached
      BY DEF IndInv, TypeOK
  <2> HIDE DEF f
  <2>2. /\ ListAddTail(small_list, f) \in Seq(Folios)
        /\ ListAddTail(main_list, f) \in Seq(Folios)
        /\ ToSet(ListAddTail(small_list, f)) = ToSet(small_list) \cup {f}
        /\ ToSet(ListAddTail(main_list, f)) = ToSet(main_list) \cup {f}
    <3>1. f \in Folios /\ small_list \in Seq(Folios) /\ main_list \in Seq(Folios)
        BY <1>4, <2>1
    <3>2. /\ ListAddTail(small_list, f) \in Seq(Folios)
          /\ ToSet(ListAddTail(small_list, f)) = ToSet(small_list) \cup {f}
        BY <3>1, AddProperties
    <3>3. /\ ListAddTail(main_list, f) \in Seq(Folios)
          /\ ToSet(ListAddTail(main_list, f)) = ToSet(main_list) \cup {f}
        BY <3>1, AddProperties
    <3> QED
        BY <3>2, <3>3
  <2>3. f \in Folios \ ToSet(small_list) /\ f \in Folios \ ToSet(main_list)
      BY <1>3, <1>4
  <2>4. IsInjective(ListAddTail(small_list, f)) /\ IsInjective(ListAddTail(main_list, f))
      BY <2>1, <2>3, OperationsInjective
  <2> QED
      BY <1>3, <1>6, <2>1, <2>2, <2>4
<1>8. /\ th' \in [Threads -> ThreadStates] /\ \A u \in Threads : u # t => th'[u] = th[u]
      /\ th'[t] = Idle \/ th'[t] = added
      /\ th'[t] = added /\ th[t].main => f \in ToSet(main_list')
  <2>1. added # Idle
      BY <1>5, NewStates
  <2>2. th[t].main /\ main_list' = ListAddTail(main_list, f) => f \in ToSet(main_list')
      BY <1>4, AddProperties DEF IndInv, TypeOK
  <2> QED
      BY <1>5, <1>6, <2>1, <2>2, NewStates, ThreadStep DEF IndInv
<1>9. TypeOK'
  <2>1. lost' \in Nat
      BY <1>6 DEF IndInv, TypeOK
  <2> QED
      BY <1>1, <1>7, <1>8, <2>1 DEF IndInv, TypeOK
<1>10. \A u \in Threads : u # t /\ th[u].pc \in Locked => th[u].f # f
    BY <1>1 DEF IndInv, Relations, Exclusive, Locked, AddLabels
<1>11. HookInv'
  <2> SUFFICES ASSUME NEW u \in Threads PROVE HookInv!(u)'
      BY DEF HookInv
  <2>1. CASE u # t
    <3>1. HookInv!(u)
        BY DEF IndInv, Relations, HookInv
    <3> QED
        BY <1>1, <1>7, <1>8, <1>10, <2>1, <3>1 DEF Locked, AddLabels
  <2>2. CASE u = t
      BY <1>1, <1>3, <1>5, <1>8, <2>2, NewStates DEF AddLabels, EvictedLabels
  <2> QED
      BY <2>1, <2>2
<1>12. Exclusive'
  <2>1. th'[t].pc \in Locked => th'[t].f = f
      BY <1>5, <1>8, NewStates DEF Locked, AddLabels, EvictedLabels
  <2> HIDE DEF f
  <2> QED
      BY <1>8, <1>10, <2>1, ExclusiveStep DEF IndInv, Relations
<1>13. \A g : Removing(g) => Removing(g)'
    BY <1>1, <1>8 DEF Removing, EvictedLabels
<1>14. MetadataReleased' /\ TrackedIsNotGhost'
    BY <1>1, <1>13 DEF IndInv, Relations, MetadataReleased, TrackedIsNotGhost
<1>15. InMainIsOnMainList'
  <2>1. \A g \in in_main : g \in ToSet(main_list) \/ Removing(g)
      BY DEF IndInv, Relations, InMainIsOnMainList
  <2> QED
      BY <1>1, <1>7, <1>13, <2>1 DEF InMainIsOnMainList
<1> QED
    BY <1>9, <1>11, <1>12, <1>14, <1>15 DEF IndInv, Relations

LEMMA FolioAddedMetaStep ==
    ASSUME IndInv, NEW t \in Threads, FolioAddedMeta(t)
    PROVE  IndInv'
<1> DEFINE f == th[t].f
<1>1. /\ th[t].pc = "add_meta" /\ th' = [th EXCEPT ![t] = Idle]
      /\ UNCHANGED <<cached, busy, small_list_size, main_list_size, ghost, clamped, leftover>>
    BY DEF FolioAddedMeta, At, kernel, sizes, Return
<1>2. /\ f \in cached /\ f \notin tracked /\ (f \in ghost => f \in leftover)
      /\ th[t].main => f \in ToSet(main_list)
    BY <1>1 DEF IndInv, Relations, HookInv, AddLabels
<1>3. f \in Folios
    BY <1>2 DEF IndInv, TypeOK
<1>4. \/ /\ tracked' = tracked \cup {f} /\ freq' = [freq EXCEPT ![f] = 0]
         /\ in_main' = IF th[t].main THEN in_main \cup {f} ELSE in_main \ {f}
         /\ UNCHANGED <<small_list, main_list, lost>>
      \/ /\ lists' = <<ListDel(small_list, f), ListDel(main_list, f)>>
         /\ lost' = lost + 1
         /\ UNCHANGED <<tracked, freq, in_main>>
    BY DEF FolioAddedMeta, lists, metadata, InMainAfterAdd
<1>5. /\ th' \in [Threads -> ThreadStates] /\ th'[t].pc = "idle"
      /\ \A u \in Threads : u # t => th'[u] = th[u]
    BY <1>1, NewStates, ThreadStep DEF IndInv
<1>6. \A u \in Threads : u # t /\ th[u].pc \in Locked => th[u].f # f
    BY <1>1 DEF IndInv, Relations, Exclusive, Locked, AddLabels
<1> HIDE DEF f
<1>7. /\ small_list' \in Seq(Folios) /\ main_list' \in Seq(Folios)
      /\ IsInjective(small_list') /\ IsInjective(main_list')
      /\ ToSet(small_list') \cap ToSet(main_list') = {}
      /\ ToSet(small_list') \subseteq cached /\ ToSet(main_list') \subseteq cached
      /\ \A g : g # f => /\ g \in ToSet(small_list') <=> g \in ToSet(small_list)
                         /\ g \in ToSet(main_list') <=> g \in ToSet(main_list)
  <2>1. CASE UNCHANGED <<small_list, main_list>>
      BY <2>1, ListsKept DEF IndInv
  <2>2. CASE lists' = <<ListDel(small_list, f), ListDel(main_list, f)>>
      BY <2>2, ListsAfterDel DEF IndInv
  <2> QED
      BY <1>4, <2>1, <2>2
<1>8. /\ tracked' \subseteq tracked \cup {f} /\ tracked \subseteq tracked'
      /\ in_main' \subseteq tracked' /\ freq' \in [Folios -> Int]
      /\ in_main' \subseteq in_main \cup {f}
      /\ f \in in_main' => f \in ToSet(main_list')
  <2>1. in_main \subseteq tracked /\ freq \in [Folios -> Int] /\ f \notin in_main
      BY <1>2 DEF IndInv, TypeOK
  <2> QED
      BY <1>2, <1>3, <1>4, <2>1
<1>9. TypeOK'
  <2>1. lost' \in Nat
      BY <1>4 DEF IndInv, TypeOK
  <2>2. tracked' \subseteq Folios
      BY <1>3, <1>8 DEF IndInv, TypeOK
  <2> QED
      BY <1>1, <1>5, <1>7, <1>8, <2>1, <2>2 DEF IndInv, TypeOK
<1>10. HookInv'
  <2> SUFFICES ASSUME NEW u \in Threads PROVE HookInv!(u)'
      BY DEF HookInv
  <2>1. CASE u # t
    <3>1. HookInv!(u)
        BY DEF IndInv, Relations, HookInv
    <3> QED
        BY <1>1, <1>5, <1>6, <1>7, <1>8, <2>1, <3>1 DEF Locked, AddLabels
  <2>2. CASE u = t
      BY <1>5, <2>2 DEF AddLabels, EvictedLabels
  <2> QED
      BY <2>1, <2>2
<1>11. Exclusive'
  <2>1. th'[t].pc \notin Locked
      BY <1>5 DEF Locked, AddLabels, EvictedLabels
  <2> QED
      BY <1>5, <2>1, ExclusiveStep DEF IndInv, Relations
<1>12. \A g : Removing(g) => Removing(g)'
    BY <1>1, <1>5 DEF Removing, EvictedLabels
<1>13. MetadataReleased' /\ TrackedIsNotGhost'
    BY <1>1, <1>2, <1>8, <1>12 DEF IndInv, Relations, MetadataReleased, TrackedIsNotGhost
<1>14. InMainIsOnMainList'
  <2>1. \A g \in in_main : g \in ToSet(main_list) \/ Removing(g)
      BY DEF IndInv, Relations, InMainIsOnMainList
  <2> QED
      BY <1>7, <1>8, <1>12, <2>1 DEF InMainIsOnMainList
<1> QED
    BY <1>9, <1>10, <1>11, <1>13, <1>14 DEF IndInv, Relations

-----------------------------------------------------------------------------
(* s3fifo_folio_evicted *)

LEMMA FolioEvictedStep ==
    ASSUME IndInv, NEW t \in Threads, NEW f \in Folios, FolioEvicted(t, f)
    PROVE  IndInv'
<1> DEFINE new == [Idle EXCEPT !.pc = "evicted", !.f = f]
<1>1. /\ th[t].pc = "idle" /\ f \in cached /\ ~Adding(f) /\ ~Removing(f)
      /\ cached' = cached \ {f} /\ busy' = busy \ {f}
      /\ lists' = <<ListDel(small_list, f), ListDel(main_list, f)>>
      /\ UNCHANGED <<small_list_size, main_list_size, tracked, freq, in_main, clamped>>
    BY DEF FolioEvicted, At, lists, sizes, metadata
<1>2. \/ /\ \E kept \in SUBSET ghost :
               Cardinality(kept \cup {f}) <= GhostSize /\ ghost' = kept \cup {f}
         /\ lost' = lost
      \/ lost' = lost + 1 /\ ghost' = ghost
    BY DEF FolioEvicted
<1>15. leftover' = (leftover \cap ghost') \ {f}
    BY DEF FolioEvicted
<1>3. IF f \in tracked THEN th' = [th EXCEPT ![t] = new] ELSE th' = th
    BY DEF FolioEvicted, HasMetadata, Goto
<1>4. new \in ThreadStates /\ new.pc = "evicted" /\ new.f = f
  <2>1. "evicted" \in Labels
      BY DEF Labels
  <2> QED
      BY <2>1, NewStates
<1> HIDE DEF new
<1>5. /\ small_list' \in Seq(Folios) /\ main_list' \in Seq(Folios)
      /\ IsInjective(small_list') /\ IsInjective(main_list')
      /\ ToSet(small_list') \cap ToSet(main_list') = {}
      /\ ToSet(small_list') \subseteq cached' /\ ToSet(main_list') \subseteq cached'
      /\ ToSet(small_list') = ToSet(small_list) \ {f}
      /\ ToSet(main_list') = ToSet(main_list) \ {f}
    BY <1>1, ListsAfterDel DEF IndInv
<1>6. /\ ghost' \subseteq ghost \cup {f}
      /\ ghost' \subseteq Folios /\ Cardinality(ghost') <= GhostSize /\ lost' \in Nat
  <2>1. ghost \subseteq Folios /\ Cardinality(ghost) <= GhostSize /\ lost \in Nat
      BY DEF IndInv, TypeOK
  <2>2. CASE lost' = lost + 1 /\ ghost' = ghost
      BY <2>1, <2>2
  <2>3. CASE lost' # lost + 1 \/ ghost' # ghost
    <3>1. PICK kept \in SUBSET ghost :
             Cardinality(kept \cup {f}) <= GhostSize /\ ghost' = kept \cup {f} /\ lost' = lost
        BY <1>2, <2>3
    <3> QED
        BY <2>1, <3>1
  <2> QED
      BY <2>2, <2>3
<1>7. /\ th' \in [Threads -> ThreadStates]
      /\ \A u \in Threads : u # t => th'[u] = th[u]
      /\ f \in tracked => th'[t].pc = "evicted" /\ th'[t].f = f
      /\ f \notin tracked => th'[t].pc = "idle"
    BY <1>1, <1>3, <1>4, ThreadStep DEF IndInv, TypeOK
<1>8. TypeOK'
  <2>1. cached' \subseteq Folios /\ busy' \subseteq cached'
      BY <1>1 DEF IndInv, TypeOK
  <2> QED
      BY <1>1, <1>15, <1>5, <1>6, <1>7, <2>1 DEF IndInv, TypeOK
<1>9. \A u \in Threads : th[u].pc \in Locked => th[u].f # f
    BY <1>1 DEF Adding, Removing, Locked
<1>16. \A g : g # f /\ g \in ghost' => g \in ghost /\ (g \in leftover => g \in leftover')
    BY <1>15, <1>6
<1>10. HookInv'
  <2> SUFFICES ASSUME NEW u \in Threads PROVE HookInv!(u)'
      BY DEF HookInv
  <2>1. CASE u # t
    <3>1. HookInv!(u)
        BY DEF IndInv, Relations, HookInv
    <3> QED
        BY <1>1, <1>5, <1>7, <1>9, <1>16, <2>1, <3>1 DEF Locked, AddLabels
  <2>2. CASE u = t
      BY <1>1, <1>7, <2>2 DEF AddLabels, EvictedLabels
  <2> QED
      BY <2>1, <2>2
<1>11. Exclusive'
  <2>1. th'[t].pc \in Locked => th'[t].f = f
      BY <1>7 DEF Locked, AddLabels, EvictedLabels
  <2> QED
      BY <1>7, <1>9, <2>1, ExclusiveStep DEF IndInv, Relations
<1>12. /\ \A g : Removing(g) => Removing(g)'
       /\ f \in tracked => Removing(f)'
    BY <1>1, <1>7 DEF Removing, EvictedLabels
<1>13. MetadataReleased' /\ TrackedIsNotGhost'
    BY <1>1, <1>16, <1>12 DEF IndInv, Relations, MetadataReleased, TrackedIsNotGhost
<1>14. InMainIsOnMainList'
  <2>1. \A g \in in_main : g \in ToSet(main_list) \/ Removing(g)
      BY DEF IndInv, Relations, InMainIsOnMainList
  <2>2. in_main \subseteq tracked
      BY DEF IndInv, TypeOK
  <2> QED
      BY <1>1, <1>5, <1>12, <2>1, <2>2 DEF InMainIsOnMainList
<1> QED
    BY <1>8, <1>10, <1>11, <1>13, <1>14 DEF IndInv, Relations

LEMMA FolioEvictedCountStep ==
    ASSUME IndInv, NEW t \in Threads, FolioEvictedCount(t)
    PROVE  IndInv'
<1> DEFINE f == th[t].f
           new == [Idle EXCEPT !.pc = "evicted_meta", !.f = f]
<1>1. /\ th[t].pc = "evicted" /\ th' = [th EXCEPT ![t] = new]
      /\ UNCHANGED <<cached, busy, small_list, main_list, tracked, freq, in_main, ghost,
                     lost, clamped, leftover>>
    BY DEF FolioEvictedCount, At, Goto, kernel, lists, metadata, history
<1>2. small_list_size' \in Int /\ main_list_size' \in Int
    BY DEF FolioEvictedCount, IndInv, TypeOK
<1>3. f \in tracked /\ f \notin cached /\ f \in Folios
    BY <1>1 DEF IndInv, TypeOK, Relations, HookInv, EvictedLabels
<1>4. new \in ThreadStates /\ new.pc = "evicted_meta" /\ new.f = f
  <2>1. "evicted_meta" \in Labels
      BY DEF Labels
  <2> HIDE DEF f
  <2> QED
      BY <1>3, <2>1, NewStates
<1> HIDE DEF f, new
<1>5. /\ th' \in [Threads -> ThreadStates] /\ th'[t] = new
      /\ \A u \in Threads : u # t => th'[u] = th[u]
    BY <1>1, <1>4, ThreadStep DEF IndInv
<1>6. TypeOK'
    BY <1>1, <1>2, <1>5 DEF IndInv, TypeOK
<1>7. HookInv'
  <2> SUFFICES ASSUME NEW u \in Threads PROVE HookInv!(u)'
      BY DEF HookInv
  <2>1. CASE u # t
    <3>1. HookInv!(u)
        BY DEF IndInv, Relations, HookInv
    <3> QED
        BY <1>1, <1>5, <2>1, <3>1
  <2>2. CASE u = t
      BY <1>1, <1>3, <1>4, <1>5, <2>2 DEF AddLabels, EvictedLabels
  <2> QED
      BY <2>1, <2>2
<1>8. Exclusive'
  <2>1. \A u \in Threads : u # t /\ th[u].pc \in Locked => th[u].f # f
      BY <1>1 DEF IndInv, Relations, Exclusive, Locked, EvictedLabels, f
  <2> QED
      BY <1>4, <1>5, <2>1, ExclusiveStep DEF IndInv, Relations
<1>9. \A g : Removing(g) => Removing(g)'
    BY <1>1, <1>4, <1>5 DEF Removing, EvictedLabels, f
<1>10. MetadataReleased' /\ TrackedIsNotGhost' /\ InMainIsOnMainList'
    BY <1>1, <1>9
       DEF IndInv, Relations, MetadataReleased, TrackedIsNotGhost, InMainIsOnMainList
<1> QED
    BY <1>6, <1>7, <1>8, <1>10 DEF IndInv, Relations

LEMMA FolioEvictedMetaStep ==
    ASSUME IndInv, NEW t \in Threads, FolioEvictedMeta(t)
    PROVE  IndInv'
<1> DEFINE f == th[t].f
<1>1. /\ th[t].pc = "evicted_meta" /\ th' = [th EXCEPT ![t] = Idle]
      /\ tracked' = tracked \ {f} /\ freq' = [freq EXCEPT ![f] = 0]
      /\ in_main' = in_main \ {f}
      /\ UNCHANGED <<cached, busy, small_list, main_list, ghost, lost, clamped, leftover>>
    BY DEF FolioEvictedMeta, At, Return, kernel, lists, history
<1>2. small_list_size' \in Int /\ main_list_size' \in Int
    BY DEF FolioEvictedMeta, IndInv, TypeOK, sizes
<1>3. /\ th' \in [Threads -> ThreadStates] /\ th'[t].pc = "idle"
      /\ \A u \in Threads : u # t => th'[u] = th[u]
    BY <1>1, NewStates, ThreadStep DEF IndInv
<1>4. \A u \in Threads : u # t /\ th[u].pc \in Locked => th[u].f # f
    BY <1>1 DEF IndInv, Relations, Exclusive, Locked, EvictedLabels
<1> HIDE DEF f
<1>5. TypeOK'
  <2>1. freq' \in [Folios -> Int]
    <3>1. freq \in [Folios -> Int] /\ 0 \in Int
        BY DEF IndInv, TypeOK
    <3> QED
        BY <1>1, <3>1
  <2>2. tracked' \subseteq Folios /\ in_main' \subseteq tracked'
      BY <1>1 DEF IndInv, TypeOK
  <2> QED
      BY <1>1, <1>2, <1>3, <2>1, <2>2 DEF IndInv, TypeOK
<1>6. HookInv'
  <2> SUFFICES ASSUME NEW u \in Threads PROVE HookInv!(u)'
      BY DEF HookInv
  <2>1. CASE u # t
    <3>1. HookInv!(u)
        BY DEF IndInv, Relations, HookInv
    <3> QED
        BY <1>1, <1>3, <1>4, <2>1, <3>1 DEF Locked
  <2>2. CASE u = t
      BY <1>3, <2>2 DEF AddLabels, EvictedLabels
  <2> QED
      BY <2>1, <2>2
<1>7. Exclusive'
  <2>1. th'[t].pc \notin Locked
      BY <1>3 DEF Locked, AddLabels, EvictedLabels
  <2> QED
      BY <1>3, <2>1, ExclusiveStep DEF IndInv, Relations
<1>8. \A g : g # f /\ Removing(g) => Removing(g)'
    BY <1>3 DEF Removing, f
<1>9. MetadataReleased' /\ TrackedIsNotGhost'
    BY <1>1, <1>8 DEF IndInv, Relations, MetadataReleased, TrackedIsNotGhost
<1>10. InMainIsOnMainList'
    BY <1>1, <1>8 DEF IndInv, Relations, InMainIsOnMainList
<1> QED
    BY <1>5, <1>6, <1>7, <1>9, <1>10 DEF IndInv, Relations

-----------------------------------------------------------------------------
(* s3fifo_folio_accessed and s3fifo_evict_folios: no folio lock *)

\* What a quiet step has to show: its thread stays outside the locked sections and
\* the types are kept.
LEMMA QuietHook ==
    ASSUME IndInv, NEW t \in Threads, th[t].pc \notin Locked,
           NEW new \in ThreadStates, new.pc \notin Locked, th' = [th EXCEPT ![t] = new],
           UNCHANGED <<cached, busy, tracked, ghost, lost, leftover>>,
           small_list' \in Seq(Folios), main_list' \in Seq(Folios),
           IsInjective(small_list'), IsInjective(main_list'),
           ToSet(small_list') \cap ToSet(main_list') = {},
           ToSet(main_list) \subseteq ToSet(main_list'),
           ToSet(small_list') \subseteq ToSet(small_list) \cup ToSet(main_list),
           ToSet(main_list') \subseteq ToSet(small_list) \cup ToSet(main_list),
           in_main' \subseteq tracked,
           in_main' \subseteq in_main \cup ToSet(main_list'),
           small_list_size' \in Int, main_list_size' \in Int, freq' \in [Folios -> Int],
           clamped' \in BOOLEAN
    PROVE  IndInv'
<1>1. /\ th' \in [Threads -> ThreadStates] /\ th'[t] = new
      /\ \A u \in Threads : u # t => th'[u] = th[u]
    BY ThreadStep DEF IndInv
<1>2. ToSet(small_list) \subseteq cached /\ ToSet(main_list) \subseteq cached
    BY DEF IndInv, TypeOK
<1>3. ToSet(small_list') \subseteq cached' /\ ToSet(main_list') \subseteq cached'
    BY <1>2
<1>4. TypeOK'
    BY <1>1, <1>3 DEF IndInv, TypeOK
<1>5. Relations'
    BY <1>1, QuietStep
<1> QED
    BY <1>4, <1>5 DEF IndInv

\* The steps that change only counters, frequencies and the thread.
LEMMA CounterSteps ==
    ASSUME IndInv, NEW t \in Threads, NEW f,
           \/ FolioAccessed(t, f) \/ FolioAccessedCap(t) \/ EvictFolios(t)
           \/ SmallSub(t) \/ SmallZero(t) \/ MainAdd(t) \/ MainSet(t)
           \/ IterationFails(t)
    PROVE  IndInv'
<1>1. /\ UNCHANGED <<cached, busy, small_list, main_list, tracked, ghost, in_main,
                     lost, leftover>>
      /\ th[t].pc \in {"idle", "cap", "small_sub", "small_zero", "main_add", "main_set",
                   "evict_small", "evict_main"}
    BY DEF FolioAccessed, FolioAccessedCap, EvictFolios, SmallSub, SmallZero, MainAdd,
           MainSet, IterationFails, kernel, lists, metadata, history, At
<1>2. th[t].n \in Nat
    BY DEF IndInv, TypeOK, ThreadStates
<1>3. clamped' \in BOOLEAN
  <2>1. clamped \in BOOLEAN
      BY Zenon DEF IndInv, TypeOK
  <2>2. clamped' = clamped \/ clamped' = TRUE
      BY Zenon DEF FolioAccessed, FolioAccessedCap, EvictFolios, SmallSub, SmallZero,
                   MainAdd, MainSet, IterationFails, metadata, history
  <2> QED
      BY <2>1, <2>2, Zenon
<1>4. freq' \in [Folios -> Int]
  <2>1. freq \in [Folios -> Int] /\ \A g \in Folios : freq[g] + 1 \in Int
      BY DEF IndInv, TypeOK
  <2>2. \/ freq' = freq
        \/ f \in Folios /\ freq' = [freq EXCEPT ![f] = @ + 1]
        \/ \E g : freq' = [freq EXCEPT ![g] = 3]
      BY DEF FolioAccessed, FolioAccessedCap, EvictFolios, SmallSub, SmallZero, MainAdd,
             MainSet, IterationFails, metadata, IndInv, TypeOK
  <2> QED
      BY <2>1, <2>2
<1>5. small_list_size' \in Int /\ main_list_size' \in Int
    BY <1>2 DEF IndInv, TypeOK, FolioAccessed, FolioAccessedCap, EvictFolios, SmallSub,
           SmallZero, MainAdd, MainSet, IterationFails, sizes, SmallSizeAfter
<1>6. th[t].pc \notin Locked
    BY <1>1 DEF Locked, AddLabels, EvictedLabels
<1>7. PICK new \in ThreadStates :
         new.pc \notin Locked /\ th' = [th EXCEPT ![t] = new]
  <2>1. /\ {"cap", "evict_small", "evict_main", "small_zero", "main_add", "main_set"}
             \subseteq Labels
        /\ \A l \in {"idle", "cap", "evict_small", "evict_main", "small_zero", "main_add",
                     "main_set"} : l \notin Locked
      BY DEF Labels, Locked, AddLabels, EvictedLabels
  <2>2. CASE UNCHANGED th
    <3>1. th[t] \in ThreadStates /\ th' = [th EXCEPT ![t] = th[t]]
        BY <2>2 DEF IndInv, TypeOK
    <3> QED
        BY <1>6, <3>1
  <2>3. CASE th' = [th EXCEPT ![t] = Idle]
    <3>1. Idle \in ThreadStates /\ Idle.pc \notin Locked
        BY <2>1, NewStates
    <3> QED
        BY <2>3, <3>1
  <2>4. CASE f \in Folios /\ th' = [th EXCEPT ![t] = [Idle EXCEPT !.pc = "cap", !.f = f]]
    <3> DEFINE new == [Idle EXCEPT !.pc = "cap", !.f = f]
    <3>1. new \in ThreadStates /\ new.pc = "cap"
        BY <2>1, <2>4, NewStates
    <3> HIDE DEF new
    <3> QED
        BY <2>1, <2>4, <3>1 DEF new
  <2>5. CASE \E l \in {"evict_small", "evict_main"} :
                th' = [th EXCEPT ![t] = [Idle EXCEPT !.pc = l]]
    <3>1. PICK l \in {"evict_small", "evict_main"} :
             th' = [th EXCEPT ![t] = [Idle EXCEPT !.pc = l]]
        BY <2>5
    <3> DEFINE new == [Idle EXCEPT !.pc = l]
    <3>2. l \in Labels /\ l \notin Locked
        BY <2>1
    <3>3. th' = [th EXCEPT ![t] = new]
        BY <3>1
    <3>4. new \in ThreadStates /\ new.pc = l
        BY <3>2, NewStates
    <3> HIDE DEF new
    <3> QED
        BY <3>2, <3>3, <3>4
  <2>6. CASE \E l \in {"small_zero", "main_add", "main_set"} :
                th' = [th EXCEPT ![t] = [Idle EXCEPT !.pc = l, !.n = th[t].n]]
    <3>1. PICK l \in {"small_zero", "main_add", "main_set"} :
             th' = [th EXCEPT ![t] = [Idle EXCEPT !.pc = l, !.n = th[t].n]]
        BY <2>6
    <3> DEFINE new == [Idle EXCEPT !.pc = l, !.n = th[t].n]
    <3>2. l \in Labels /\ l \notin Locked
        BY <2>1
    <3>3. th' = [th EXCEPT ![t] = new]
        BY <3>1
    <3>4. new \in ThreadStates /\ new.pc = l
        BY <1>2, <3>2, NewStates
    <3> HIDE DEF new
    <3> QED
        BY <3>2, <3>3, <3>4
  <2>7. \/ UNCHANGED th
        \/ th' = [th EXCEPT ![t] = Idle]
        \/ f \in Folios /\ th' = [th EXCEPT ![t] = [Idle EXCEPT !.pc = "cap", !.f = f]]
        \/ \E l \in {"evict_small", "evict_main"} :
              th' = [th EXCEPT ![t] = [Idle EXCEPT !.pc = l]]
        \/ \E l \in {"small_zero", "main_add", "main_set"} :
              th' = [th EXCEPT ![t] = [Idle EXCEPT !.pc = l, !.n = th[t].n]]
    <3>1. CASE FolioAccessed(t, f) \/ FolioAccessedCap(t)
        BY <3>1 DEF FolioAccessed, FolioAccessedCap, Goto, Return, IndInv, TypeOK
    <3>2. CASE EvictFolios(t)
      <4>1. th' = [th EXCEPT ![t] = [Idle EXCEPT !.pc = "evict_small"]]
            \/ th' = [th EXCEPT ![t] = [Idle EXCEPT !.pc = "evict_main"]]
          BY <3>2 DEF EvictFolios, Goto
      <4> QED
          BY <4>1
    <3>3. CASE SmallSub(t)
      <4>1. th' = [th EXCEPT ![t] = [Idle EXCEPT !.pc = "small_zero", !.n = th[t].n]]
            \/ th' = [th EXCEPT ![t] = [Idle EXCEPT !.pc = "main_add", !.n = th[t].n]]
          BY <3>3 DEF SmallSub, Goto
      <4> QED
          BY <4>1
    <3>4. CASE SmallZero(t) \/ MainAdd(t) \/ MainSet(t) \/ IterationFails(t)
      <4>1. th' = [th EXCEPT ![t] = Idle]
            \/ th' = [th EXCEPT ![t] = [Idle EXCEPT !.pc = "main_add", !.n = th[t].n]]
            \/ th' = [th EXCEPT ![t] = [Idle EXCEPT !.pc = "main_set", !.n = th[t].n]]
          BY <3>4 DEF SmallZero, MainAdd, MainSet, IterationFails, Goto, Return
      <4> QED
          BY <4>1
    <3> QED
        BY <3>1, <3>2, <3>3, <3>4
  <2> QED
      BY <2>2, <2>3, <2>4, <2>5, <2>6, <2>7
<1> QED
    BY <1>1, <1>3, <1>4, <1>5, <1>6, <1>7, ListsKept, QuietHook DEF IndInv, TypeOK

LEMMA EvictSmallStep ==
    ASSUME IndInv, NEW t \in Threads, EvictSmall(t)
    PROVE  IndInv'
<1> DEFINE continued == Continued(small_list, SmallVerdict, Request)
           evicted == Evicted(small_list, SmallVerdict, Request)
           unvisited == Unvisited(small_list, SmallVerdict, Request)
           visited == Visited(small_list, SmallVerdict, Request)
           new == [Idle EXCEPT !.pc = "small_sub", !.n = Len(continued)]
<1>1. /\ th[t].pc = "evict_small" /\ th' = [th EXCEPT ![t] = new]
      /\ small_list' = unvisited \o evicted
      /\ main_list' = main_list \o continued
      /\ in_main' = in_main \cup {f \in ToSet(continued) : SmallHot(f)}
      /\ UNCHANGED <<cached, busy, small_list_size, main_list_size, tracked, freq,
                     ghost, lost, clamped, leftover>>
    BY DEF EvictSmall, At, Goto, SmallAfter, kernel, sizes, history
<1>2. /\ small_list \in Seq(Folios) /\ main_list \in Seq(Folios)
      /\ IsInjective(small_list) /\ IsInjective(main_list)
      /\ ToSet(small_list) \cap ToSet(main_list) = {}
    BY DEF IndInv, TypeOK
<1>3. /\ unvisited \in Seq(Folios) /\ evicted \in Seq(Folios) /\ continued \in Seq(Folios)
      /\ Len(continued) \in Nat
      /\ ToSet(visited) = ToSet(evicted) \cup ToSet(continued)
      /\ ToSet(small_list) = ToSet(visited) \cup ToSet(unvisited)
    BY <1>2, IterationProperties
<1>4. /\ IsInjective(unvisited) /\ IsInjective(evicted) /\ IsInjective(continued)
      /\ ToSet(unvisited) \cap ToSet(visited) = {}
      /\ ToSet(evicted) \cap ToSet(continued) = {}
    BY <1>2, IterationInjective
<1>5. new \in ThreadStates /\ new.pc = "small_sub"
  <2>1. "small_sub" \in Labels
      BY DEF Labels
  <2> QED
      BY <1>3, <2>1, NewStates
<1>6. {f \in ToSet(continued) : SmallHot(f)} \subseteq tracked
    BY DEF SmallHot
<1> HIDE DEF continued, evicted, unvisited, visited, new
<1>7. /\ small_list' \in Seq(Folios) /\ IsInjective(small_list')
      /\ ToSet(small_list') = ToSet(unvisited) \cup ToSet(evicted)
  <2>1. ToSet(unvisited) \cap ToSet(evicted) = {}
      BY <1>3, <1>4
  <2> QED
      BY <1>1, <1>3, <1>4, <2>1, ToSetConcat, ConcatInjective
<1>8. /\ main_list' \in Seq(Folios) /\ IsInjective(main_list')
      /\ ToSet(main_list') = ToSet(main_list) \cup ToSet(continued)
  <2>1. ToSet(main_list) \cap ToSet(continued) = {}
      BY <1>2, <1>3
  <2> QED
      BY <1>1, <1>2, <1>3, <1>4, <2>1, ToSetConcat, ConcatInjective
<1>9. /\ ToSet(small_list') \cap ToSet(main_list') = {}
      /\ ToSet(main_list) \subseteq ToSet(main_list')
      /\ ToSet(small_list') \subseteq ToSet(small_list) \cup ToSet(main_list)
      /\ ToSet(main_list') \subseteq ToSet(small_list) \cup ToSet(main_list)
    BY <1>2, <1>3, <1>4, <1>7, <1>8
<1>10. in_main' \subseteq tracked /\ in_main' \subseteq in_main \cup ToSet(main_list')
    BY <1>1, <1>6, <1>8 DEF IndInv, TypeOK
<1>11. th[t].pc \notin Locked /\ new.pc \notin Locked
    BY <1>1, <1>5 DEF Locked, AddLabels, EvictedLabels
<1>12. /\ small_list_size' \in Int /\ main_list_size' \in Int /\ freq' \in [Folios -> Int]
       /\ clamped' \in BOOLEAN
    BY <1>1 DEF IndInv, TypeOK
<1> QED
    BY <1>1, <1>5, <1>7, <1>8, <1>9, <1>10, <1>11, <1>12, QuietHook

LEMMA EvictMainStep ==
    ASSUME IndInv, NEW t \in Threads, EvictMain(t)
    PROVE  IndInv'
<1> DEFINE id == th[t].n
           room == Request - th[t].nr
           visited == Visited(main_list, MainVerdict(id), room)
           unvisited == Unvisited(main_list, MainVerdict(id), room)
           evicted == Evicted(main_list, MainVerdict(id), room)
           nr == th[t].nr + Len(evicted)
           new == [Idle EXCEPT !.pc = "evict_main", !.n = id + 1, !.nr = nr]
<1>1. /\ th[t].pc = "evict_main"
      /\ th' = [th EXCEPT ![t] = new] \/ th' = [th EXCEPT ![t] = Idle]
      /\ main_list' = unvisited \o visited
      /\ freq' = [f \in Folios |-> IF f \in ToSet(visited) /\ ~MainSkips(f) THEN freq[f] - 1
                                                                            ELSE freq[f]]
      /\ UNCHANGED <<cached, busy, small_list, small_list_size, main_list_size,
                     tracked, in_main, ghost, lost, clamped, leftover>>
    BY DEF EvictMain, At, Goto, Return, kernel, sizes, history
<1>2. /\ small_list \in Seq(Folios) /\ main_list \in Seq(Folios)
      /\ IsInjective(small_list) /\ IsInjective(main_list)
      /\ ToSet(small_list) \cap ToSet(main_list) = {}
      /\ freq \in [Folios -> Int]
      /\ th[t] \in ThreadStates
    BY DEF IndInv, TypeOK
<1>3. /\ unvisited \in Seq(Folios) /\ visited \in Seq(Folios) /\ Len(evicted) \in Nat
      /\ ToSet(main_list) = ToSet(visited) \cup ToSet(unvisited)
    BY <1>2, IterationProperties
<1>4. /\ IsInjective(unvisited) /\ IsInjective(visited)
      /\ ToSet(unvisited) \cap ToSet(visited) = {}
    BY <1>2, IterationInjective
<1>5. id + 1 \in Nat /\ nr \in Nat
  <2>1. th[t].n \in Nat /\ th[t].nr \in Nat
      BY <1>2 DEF ThreadStates
  <2> HIDE DEF evicted
  <2> QED
      BY <1>3, <2>1
<1>6. new \in ThreadStates /\ new.pc = "evict_main" /\ Idle \in ThreadStates /\ Idle.pc = "idle"
  <2>1. "evict_main" \in Labels
      BY DEF Labels
  <2> HIDE DEF nr, id
  <2> QED
      BY <1>5, <2>1, NewStates
<1> HIDE DEF id, room, visited, unvisited, evicted, nr, new
<1>7. freq' \in [Folios -> Int]
  <2>1. \A f \in Folios : freq[f] \in Int /\ freq[f] - 1 \in Int
      BY <1>2
  <2> QED
      BY <1>1, <2>1
<1>8. /\ main_list' \in Seq(Folios) /\ IsInjective(main_list')
      /\ ToSet(main_list') = ToSet(main_list)
    BY <1>1, <1>3, <1>4, ToSetConcat, ConcatInjective
<1>9. /\ small_list' \in Seq(Folios) /\ IsInjective(small_list')
      /\ ToSet(small_list') = ToSet(small_list)
      /\ ToSet(small_list') \cap ToSet(main_list') = {}
    BY <1>1, <1>2, <1>8
<1>10. in_main' \subseteq tracked /\ in_main' \subseteq in_main \cup ToSet(main_list')
    BY <1>1 DEF IndInv, TypeOK
<1>11. th[t].pc \notin Locked /\ new.pc \notin Locked /\ Idle.pc \notin Locked
    BY <1>1, <1>6 DEF Locked, AddLabels, EvictedLabels
<1>12. small_list_size' \in Int /\ main_list_size' \in Int /\ clamped' \in BOOLEAN
    BY <1>1 DEF IndInv, TypeOK
<1> QED
    BY <1>1, <1>6, <1>7, <1>8, <1>9, <1>10, <1>11, <1>12, QuietHook

-----------------------------------------------------------------------------
LEMMA NextIndInv == IndInv /\ [Next]_vars => IndInv'
<1> SUFFICES ASSUME IndInv, [Next]_vars PROVE IndInv'
    OBVIOUS
<1>1. CASE (\E f \in Folios : SetFlags(f)) \/ UNCHANGED vars
    BY <1>1, EnvironmentStep
<1>2. ASSUME NEW t \in Threads, Hook(t) PROVE IndInv'
  <2>1. ASSUME NEW f \in Folios, FolioAdded(t, f) PROVE IndInv'
      BY <2>1, FolioAddedStep
  <2>2. CASE FolioAddedList(t)
      BY <2>2, FolioAddedListStep
  <2>3. CASE FolioAddedMeta(t)
      BY <2>3, FolioAddedMetaStep
  <2>4. ASSUME NEW f \in Folios, FolioEvicted(t, f) PROVE IndInv'
      BY <2>4, FolioEvictedStep
  <2>5. CASE FolioEvictedMeta(t)
      BY <2>5, FolioEvictedMetaStep
  <2>10. CASE FolioEvictedCount(t)
      BY <2>10, FolioEvictedCountStep
  <2>6. ASSUME NEW f \in Folios, FolioAccessed(t, f) PROVE IndInv'
      BY <2>6, CounterSteps
  <2>7. CASE \/ FolioAccessedCap(t) \/ EvictFolios(t) \/ SmallSub(t) \/ SmallZero(t)
             \/ MainAdd(t) \/ MainSet(t) \/ IterationFails(t)
      BY <2>7, CounterSteps
  <2>8. CASE EvictSmall(t)
      BY <2>8, EvictSmallStep
  <2>9. CASE EvictMain(t)
      BY <2>9, EvictMainStep
  <2> QED
      BY <1>2, <2>1, <2>2, <2>3, <2>4, <2>5, <2>6, <2>7, <2>8, <2>9, <2>10 DEF Hook
<1> QED
    BY <1>1, <1>2 DEF Next

LEMMA Inductive == Spec => []IndInv
<1>1. Init => IndInv
    BY InitIndInv
<1>2. IndInv /\ [Next]_vars => IndInv'
    BY NextIndInv
<1> QED
    BY <1>1, <1>2, PTL DEF Spec

\* Types: above all, a cached folio is at most once on one list, whatever the
\* interleaving of additions, removals and iterations.
THEOREM TypeCorrect == Spec => []TypeOK
<1>1. IndInv => TypeOK
    BY DEF IndInv
<1> QED
    BY <1>1, Inductive, PTL

\* No metadata outlives its folio by more than the evicted hook, whatever the watch
\* list says: the element of a reused address is never a leftover.
THEOREM MetadataReleasedHolds == Spec => []MetadataReleased
<1>1. IndInv => MetadataReleased
    BY DEF IndInv, Relations
<1> QED
    BY <1>1, Inductive, PTL

\* The ghost entry is consumed before the folio is tracked, unless its delete failed
\* at that very addition, and none is made for a tracked folio except by the hook
\* that removes it.
THEOREM TrackedIsNotGhostHolds == Spec => []TrackedIsNotGhost
<1>1. IndInv => TrackedIsNotGhost
    BY DEF IndInv, Relations
<1> QED
    BY <1>1, Inductive, PTL

\* The metadata's in_main is right about the list, although the callback sets the
\* flag and the kernel moves the node: the evicted hook decrements the counter of
\* the list the folio was on.
THEOREM InMainIsOnMainListHolds == Spec => []InMainIsOnMainList
<1>1. IndInv => InMainIsOnMainList
    BY DEF IndInv, Relations
<1> QED
    BY <1>1, Inductive, PTL

-----------------------------------------------------------------------------
(* The refinement of PagePolicy: a step of a hook is a step of the abstract policy *)
(* or a stutter.                                                                   *)

\* The refinement mapping of S3Fifo!Policy.
addingFolios == {f \in Folios : Adding(f)}
listedFolios == ToSet(small_list) \cup ToSet(main_list)

\* A stutter of the abstract policy.
Stutter == UNCHANGED <<cached, addingFolios, listedFolios>>

AbstractStep == Policy!Next \/ Stutter

-----------------------------------------------------------------------------
\* What a step of one thread does to the folios being added.
LEMMA AddingStep ==
    ASSUME IndInv, NEW t \in Threads, NEW new, th' = [th EXCEPT ![t] = new]
    PROVE  /\ th[t].pc \notin AddLabels /\ new.pc \notin AddLabels
                => addingFolios' = addingFolios
           /\ th[t].pc \in AddLabels /\ new.pc \in AddLabels /\ new.f = th[t].f
                => addingFolios' = addingFolios
           /\ th[t].pc \notin AddLabels /\ new.pc \in AddLabels /\ new.f \in Folios
                => addingFolios' = addingFolios \cup {new.f}
           /\ th[t].pc \in AddLabels /\ new.pc \notin AddLabels
                => addingFolios' = addingFolios \ {th[t].f}
<1>1. th'[t] = new /\ \A u \in Threads : u # t => th'[u] = th[u]
    BY DEF IndInv, TypeOK
<1>2. \A u \in Threads :
         u # t /\ th[u].pc \in AddLabels /\ th[t].pc \in AddLabels => th[u].f # th[t].f
    BY DEF IndInv, Relations, Exclusive, Locked
<1>3. \A f : Adding(f) <=> \E u \in Threads : th[u].f = f /\ th[u].pc \in AddLabels
    BY DEF Adding
<1>4. \A f : Adding(f)' <=> \E u \in Threads : th'[u].f = f /\ th'[u].pc \in AddLabels
    BY DEF Adding, AddLabels
<1> HIDE DEF AddLabels
<1>5. addingFolios = {f \in Folios : Adding(f)} /\ addingFolios' = {f \in Folios : Adding(f)'}
    BY DEF addingFolios
<1>6. \A f : f # th[t].f /\ f # new.f => (Adding(f)' <=> Adding(f))
    BY <1>1, <1>3, <1>4
<1>7. th[t].pc \notin AddLabels /\ new.pc \notin AddLabels => \A f : Adding(f)' <=> Adding(f)
    BY <1>1, <1>3, <1>4
<1>8. th[t].pc \in AddLabels /\ new.pc \in AddLabels /\ new.f = th[t].f
        => \A f : Adding(f)' <=> Adding(f)
    BY <1>1, <1>3, <1>4
<1>9. th[t].pc \notin AddLabels /\ new.pc \in AddLabels
        => \A f : Adding(f)' <=> Adding(f) \/ f = new.f
    BY <1>1, <1>3, <1>4
<1>10. th[t].pc \in AddLabels /\ new.pc \notin AddLabels
        => \A f : Adding(f)' <=> Adding(f) /\ f # th[t].f
    BY <1>1, <1>2, <1>3, <1>4
<1> QED
    BY <1>5, <1>7, <1>8, <1>9, <1>10

\* The steps that touch neither the page cache nor a list, and add no folio.
LEMMA QuietSteps ==
    ASSUME IndInv, NEW t \in Threads, NEW f,
           \/ FolioAccessed(t, f) \/ FolioAccessedCap(t)
           \/ FolioEvictedCount(t) \/ FolioEvictedMeta(t)
           \/ EvictFolios(t) \/ SmallSub(t) \/ SmallZero(t) \/ MainAdd(t) \/ MainSet(t)
           \/ IterationFails(t)
    PROVE  Stutter
<1>1. UNCHANGED <<cached, small_list, main_list>>
    BY DEF FolioAccessed, FolioAccessedCap, FolioEvictedCount, FolioEvictedMeta, EvictFolios,
           SmallSub,
           SmallZero, MainAdd, MainSet, IterationFails, kernel, lists
<1>2. th[t].pc \notin AddLabels
    BY DEF FolioAccessed, FolioAccessedCap, FolioEvictedCount, FolioEvictedMeta, EvictFolios,
           SmallSub,
           SmallZero, MainAdd, MainSet, IterationFails, At, AddLabels
<1>3. \E new : new.pc \notin AddLabels /\ th' = [th EXCEPT ![t] = new]
  <2>1. \A l : [Idle EXCEPT !.pc = l].pc = l
      BY DEF Idle
  <2>2. \A l, g : [Idle EXCEPT !.pc = l, !.f = g].pc = l
      BY DEF Idle
  <2>3. \A l, n : [Idle EXCEPT !.pc = l, !.n = n].pc = l
      BY DEF Idle
  <2>4. Idle.pc \notin AddLabels
      BY DEF Idle, AddLabels
  <2>5. th = [th EXCEPT ![t] = th[t]]
      BY DEF IndInv, TypeOK
  <2>6. CASE UNCHANGED th
      BY <1>2, <2>5, <2>6
  <2>7. CASE th' = [th EXCEPT ![t] = Idle]
      BY <2>4, <2>7
  <2>8. CASE th' = [th EXCEPT ![t] = [Idle EXCEPT !.pc = "cap", !.f = f]]
      BY <2>2, <2>8 DEF AddLabels
  <2>9. CASE \E l \in {"evict_small", "evict_main"} : th' = [th EXCEPT ![t] = [Idle EXCEPT !.pc = l]]
      BY <2>1, <2>9 DEF AddLabels
  <2>10. CASE \E l \in {"small_zero", "main_add", "main_set"} :
                 th' = [th EXCEPT ![t] = [Idle EXCEPT !.pc = l, !.n = th[t].n]]
      BY <2>3, <2>10 DEF AddLabels
  <2>11. CASE th' = [th EXCEPT ![t] = [Idle EXCEPT !.pc = "evicted_meta", !.f = th[t].f]]
      BY <2>2, <2>11 DEF AddLabels
  <2> QED
      BY <2>6, <2>7, <2>8, <2>9, <2>10, <2>11
      DEF FolioAccessed, FolioAccessedCap, FolioEvictedCount, FolioEvictedMeta, EvictFolios,
           SmallSub,
          SmallZero, MainAdd, MainSet, IterationFails, Goto, Return
<1>4. addingFolios' = addingFolios
    BY <1>2, <1>3, AddingStep
<1> QED
    BY <1>1, <1>4 DEF Stutter, listedFolios

\* The iterations: what leaves a list comes onto the other, or back.
LEMMA IterationSteps ==
    ASSUME IndInv, NEW t \in Threads, EvictSmall(t) \/ EvictMain(t)
    PROVE  Stutter
<1>1. small_list \in Seq(Folios) /\ main_list \in Seq(Folios)
    BY DEF IndInv, TypeOK
<1>2. CASE EvictSmall(t)
  <2> DEFINE continued == Continued(small_list, SmallVerdict, Request)
             evicted == Evicted(small_list, SmallVerdict, Request)
             unvisited == Unvisited(small_list, SmallVerdict, Request)
             visited == Visited(small_list, SmallVerdict, Request)
             new == [Idle EXCEPT !.pc = "small_sub", !.n = Len(continued)]
  <2>1. /\ small_list' = unvisited \o evicted /\ main_list' = main_list \o continued
        /\ cached' = cached
        /\ th[t].pc = "evict_small" /\ th' = [th EXCEPT ![t] = new]
      BY <1>2 DEF EvictSmall, SmallAfter, At, Goto, kernel
  <2>2. /\ unvisited \in Seq(Folios) /\ evicted \in Seq(Folios) /\ continued \in Seq(Folios)
        /\ ToSet(visited) = ToSet(evicted) \cup ToSet(continued)
        /\ ToSet(small_list) = ToSet(visited) \cup ToSet(unvisited)
      BY <1>1, IterationProperties
  <2>3. new.pc = "small_sub"
      BY DEF Idle
  <2> HIDE DEF continued, evicted, unvisited, visited, new
  <2>4. /\ ToSet(unvisited \o evicted) = ToSet(unvisited) \cup ToSet(evicted)
        /\ ToSet(main_list \o continued) = ToSet(main_list) \cup ToSet(continued)
      BY <1>1, <2>2, ToSetConcat
  <2>5. listedFolios' = listedFolios
      BY <2>1, <2>2, <2>4 DEF listedFolios
  <2>6. addingFolios' = addingFolios
      BY <2>1, <2>3, AddingStep DEF AddLabels
  <2> QED
      BY <2>1, <2>5, <2>6 DEF Stutter
<1>3. CASE EvictMain(t)
  <2> DEFINE room == Request - th[t].nr
             visited == Visited(main_list, MainVerdict(th[t].n), room)
             unvisited == Unvisited(main_list, MainVerdict(th[t].n), room)
             evicted == Evicted(main_list, MainVerdict(th[t].n), room)
             new == [Idle EXCEPT !.pc = "evict_main", !.n = th[t].n + 1,
                                 !.nr = th[t].nr + Len(evicted)]
  <2>1. /\ main_list' = unvisited \o visited /\ UNCHANGED <<cached, small_list>>
        /\ th[t].pc = "evict_main"
        /\ th' = [th EXCEPT ![t] = new] \/ th' = [th EXCEPT ![t] = Idle]
      BY <1>3 DEF EvictMain, At, Goto, Return, kernel
  <2>2. /\ unvisited \in Seq(Folios) /\ visited \in Seq(Folios)
        /\ ToSet(main_list) = ToSet(visited) \cup ToSet(unvisited)
      BY <1>1, IterationProperties
  <2>3. new.pc = "evict_main" /\ Idle.pc = "idle"
      BY DEF Idle
  <2> HIDE DEF visited, unvisited, evicted, new
  <2>4. ToSet(unvisited \o visited) = ToSet(unvisited) \cup ToSet(visited)
      BY <2>2, ToSetConcat
  <2>5. listedFolios' = listedFolios
      BY <2>1, <2>2, <2>4 DEF listedFolios
  <2>6. addingFolios' = addingFolios
      BY <2>1, <2>3, AddingStep DEF AddLabels
  <2> QED
      BY <2>1, <2>5, <2>6 DEF Stutter
<1> QED
    BY <1>2, <1>3

-----------------------------------------------------------------------------
\* The steps of an addition and a removal are those of the abstract policy.
LEMMA FolioAddedEnters ==
    ASSUME IndInv, NEW t \in Threads, NEW f \in Folios, FolioAdded(t, f)
    PROVE  Policy!Enter(f)
<1> DEFINE new(b) == [Idle EXCEPT !.pc = "add_list", !.f = f, !.main = b]
<1>1. /\ th[t].pc = "idle" /\ f \notin cached /\ cached' = cached \cup {f}
      /\ UNCHANGED <<small_list, main_list>>
      /\ UNCHANGED th \/ \E b \in BOOLEAN : th' = [th EXCEPT ![t] = new(b)]
    BY DEF FolioAdded, At, Goto, lists
<1>2. \A b \in BOOLEAN : new(b).pc = "add_list" /\ new(b).f = f
    BY DEF Idle
<1> HIDE DEF new
<1>3. addingFolios' \in {addingFolios, addingFolios \cup {f}}
  <2>1. CASE UNCHANGED th
      BY <2>1 DEF addingFolios, Adding
  <2>2. ASSUME NEW b \in BOOLEAN, th' = [th EXCEPT ![t] = new(b)]
        PROVE  addingFolios' = addingFolios \cup {f}
    <3>1. PICK s : s = new(b)
        OBVIOUS
    <3>2. s.pc = "add_list" /\ s.f = f /\ th' = [th EXCEPT ![t] = s]
        BY <1>2, <2>2, <3>1
    <3> QED
        BY <1>1, <3>2, AddingStep DEF AddLabels
  <2> QED
      BY <1>1, <2>1, <2>2
<1>4. UNCHANGED listedFolios
    BY <1>1 DEF listedFolios
<1> QED
    BY <1>1, <1>3, <1>4 DEF Policy!Enter, addingFolios, listedFolios

LEMMA FolioAddedListLinks ==
    ASSUME IndInv, NEW t \in Threads, FolioAddedList(t)
    PROVE  \E f \in Folios : Policy!Link(f) \/ Policy!Settle(f)
<1> DEFINE f == th[t].f
           new == [Idle EXCEPT !.pc = "add_meta", !.f = f, !.main = th[t].main]
<1>1. /\ th[t].pc = "add_list" /\ cached' = cached
      /\ \/ /\ th' = [th EXCEPT ![t] = new]
            /\ \/ main_list' = ListAddTail(main_list, f) /\ UNCHANGED small_list
               \/ small_list' = ListAddTail(small_list, f) /\ UNCHANGED main_list
         \/ th' = [th EXCEPT ![t] = Idle] /\ UNCHANGED <<small_list, main_list>>
    BY DEF FolioAddedList, At, Goto, Return, kernel, lists
<1>2. f \in cached /\ f \notin ToSet(small_list) /\ f \notin ToSet(main_list)
    BY <1>1 DEF IndInv, Relations, HookInv, AddLabels
<1>3. /\ f \in Folios /\ small_list \in Seq(Folios) /\ main_list \in Seq(Folios)
    BY <1>2 DEF IndInv, TypeOK
<1>4. f \in addingFolios /\ f \notin listedFolios
    BY <1>1, <1>2, <1>3 DEF addingFolios, listedFolios, Adding, AddLabels
<1>5. new.pc = "add_meta" /\ new.f = f /\ Idle.pc = "idle"
    BY DEF Idle
<1> HIDE DEF new
<1>6. CASE th' = [th EXCEPT ![t] = new]
  <2>1. addingFolios' = addingFolios
      BY <1>1, <1>5, <1>6, AddingStep DEF AddLabels
  <2>2. listedFolios' = listedFolios \cup {f}
    <3> HIDE DEF f
    <3>1. ToSet(ListAddTail(small_list, f)) = ToSet(small_list) \cup {f}
        BY <1>3, AddProperties
    <3>2. ToSet(ListAddTail(main_list, f)) = ToSet(main_list) \cup {f}
        BY <1>3, AddProperties
    <3>3. Idle # new
        BY <1>5
    <3>4. [th EXCEPT ![t] = new] # [th EXCEPT ![t] = Idle]
        BY <3>3 DEF IndInv, TypeOK
    <3> QED
        BY <1>1, <1>6, <3>1, <3>2, <3>4 DEF listedFolios
  <2>3. Policy!Link(f)
      BY <1>1, <1>4, <2>1, <2>2 DEF Policy!Link, addingFolios, listedFolios
  <2> QED
      BY <1>3, <2>3
<1>7. CASE th' = [th EXCEPT ![t] = Idle] /\ UNCHANGED <<small_list, main_list>>
  <2>1. addingFolios' = addingFolios \ {f}
      BY <1>1, <1>5, <1>7, AddingStep DEF AddLabels
  <2>2. listedFolios' = listedFolios
      BY <1>7 DEF listedFolios
  <2>3. Policy!Settle(f)
      BY <1>1, <1>4, <2>1, <2>2 DEF Policy!Settle, addingFolios, listedFolios
  <2> QED
      BY <1>3, <2>3
<1> QED
    BY <1>1, <1>6, <1>7

LEMMA FolioAddedMetaSettles ==
    ASSUME IndInv, NEW t \in Threads, FolioAddedMeta(t)
    PROVE  \E f \in Folios : Policy!Settle(f)
<1> DEFINE f == th[t].f
<1>1. /\ th[t].pc = "add_meta" /\ th' = [th EXCEPT ![t] = Idle] /\ cached' = cached
      /\ \/ UNCHANGED <<small_list, main_list>>
         \/ lists' = <<ListDel(small_list, f), ListDel(main_list, f)>>
    BY DEF FolioAddedMeta, At, Return, kernel, lists
<1>2. f \in cached
    BY <1>1 DEF IndInv, Relations, HookInv, AddLabels
<1>3. f \in Folios
    BY <1>2 DEF IndInv, TypeOK
<1>4. f \in addingFolios
    BY <1>1, <1>3 DEF addingFolios, Adding, AddLabels
<1>5. addingFolios' = addingFolios \ {f}
  <2>1. Idle.pc = "idle"
      BY DEF Idle
  <2> QED
      BY <1>1, <2>1, AddingStep DEF AddLabels
<1>6. listedFolios' \in {listedFolios, listedFolios \ {f}}
  <2> HIDE DEF f
  <2>1. CASE UNCHANGED <<small_list, main_list>>
      BY <2>1 DEF listedFolios
  <2>2. CASE lists' = <<ListDel(small_list, f), ListDel(main_list, f)>>
    <3>1. /\ ToSet(small_list') = ToSet(small_list) \ {f}
          /\ ToSet(main_list') = ToSet(main_list) \ {f}
        BY <2>2, ListsAfterDel DEF IndInv
    <3> QED
        BY <3>1 DEF listedFolios
  <2> QED
      BY <1>1, <2>1, <2>2
<1>7. Policy!Settle(f)
    BY <1>1, <1>4, <1>5, <1>6 DEF Policy!Settle, addingFolios, listedFolios
<1> QED
    BY <1>3, <1>7

LEMMA FolioEvictedLeaves ==
    ASSUME IndInv, NEW t \in Threads, NEW f \in Folios, FolioEvicted(t, f)
    PROVE  Policy!Leave(f)
<1> DEFINE new == [Idle EXCEPT !.pc = "evicted", !.f = f]
<1>1. /\ th[t].pc = "idle" /\ f \in cached /\ ~Adding(f) /\ cached' = cached \ {f}
      /\ lists' = <<ListDel(small_list, f), ListDel(main_list, f)>>
      /\ UNCHANGED th \/ th' = [th EXCEPT ![t] = new]
    BY DEF FolioEvicted, At, Goto, lists
<1>2. new.pc = "evicted"
    BY DEF Idle
<1> HIDE DEF new
<1>3. UNCHANGED addingFolios
  <2>1. CASE UNCHANGED th
      BY <2>1 DEF addingFolios, Adding
  <2>2. CASE th' = [th EXCEPT ![t] = new]
      BY <1>1, <1>2, <2>2, AddingStep DEF AddLabels
  <2> QED
      BY <1>1, <2>1, <2>2
<1>4. listedFolios' = listedFolios \ {f}
  <2>1. /\ ToSet(small_list') = ToSet(small_list) \ {f}
        /\ ToSet(main_list') = ToSet(main_list) \ {f}
      BY <1>1, ListsAfterDel DEF IndInv
  <2> QED
      BY <2>1 DEF listedFolios
<1>5. f \notin addingFolios
    BY <1>1 DEF addingFolios
<1> QED
    BY <1>1, <1>3, <1>4, <1>5 DEF Policy!Leave, addingFolios, listedFolios

-----------------------------------------------------------------------------
LEMMA InitRefines == Init => Policy!Init
<1> SUFFICES ASSUME Init PROVE Policy!Init
    OBVIOUS
<1>1. listedFolios = {}
    BY DEF Init, listedFolios, ToSet
<1>2. addingFolios = {}
    BY DEF Init, addingFolios, Adding, Idle, AddLabels
<1> QED
    BY <1>1, <1>2 DEF Init, Policy!Init, addingFolios, listedFolios

LEMMA StepRefines == IndInv /\ [Next]_vars => [Policy!Next]_(Policy!vars)
<1> SUFFICES ASSUME IndInv, [Next]_vars PROVE AbstractStep
    BY DEF AbstractStep, Stutter, Policy!vars, addingFolios, listedFolios
<1>1. CASE (\E f \in Folios : SetFlags(f)) \/ UNCHANGED vars
  <2>1. UNCHANGED <<cached, small_list, main_list, th>>
      BY <1>1 DEF SetFlags, vars, lists
  <2> QED
      BY <2>1 DEF AbstractStep, Stutter, addingFolios, listedFolios, Adding
<1>2. ASSUME NEW t \in Threads, Hook(t) PROVE AbstractStep
  <2>1. ASSUME NEW f \in Folios, FolioAdded(t, f) PROVE AbstractStep
      BY <2>1, FolioAddedEnters DEF AbstractStep, Policy!Next
  <2>2. ASSUME NEW f \in Folios, FolioEvicted(t, f) PROVE AbstractStep
      BY <2>2, FolioEvictedLeaves DEF AbstractStep, Policy!Next
  <2>3. CASE FolioAddedList(t)
      BY <2>3, FolioAddedListLinks DEF AbstractStep, Policy!Next
  <2>4. CASE FolioAddedMeta(t)
      BY <2>4, FolioAddedMetaSettles DEF AbstractStep, Policy!Next
  <2>5. CASE EvictSmall(t) \/ EvictMain(t)
      BY <2>5, IterationSteps DEF AbstractStep
  <2>6. ASSUME NEW f \in Folios, FolioAccessed(t, f) PROVE AbstractStep
      BY <2>6, QuietSteps DEF AbstractStep
  <2>7. CASE \/ FolioAccessedCap(t) \/ FolioEvictedCount(t) \/ FolioEvictedMeta(t) \/ EvictFolios(t)
             \/ SmallSub(t) \/ SmallZero(t) \/ MainAdd(t) \/ MainSet(t) \/ IterationFails(t)
      BY <2>7, QuietSteps DEF AbstractStep
  <2> QED
      BY <1>2, <2>1, <2>2, <2>3, <2>4, <2>5, <2>6, <2>7, Zenon DEF Hook
<1> QED
    BY <1>1, <1>2 DEF Next

\* S3-FIFO keeps the promise of the abstract policy: the iterations of evict_small
\* and evict_main_iter lose and invent no folio, and only the added hook and the
\* page cache decide which folios are on the lists.
THEOREM S3FifoImplementsPagePolicy == Spec => ImplementsPagePolicy
<1>1. Init => Policy!Init
    BY InitRefines
<1>2. IndInv /\ [Next]_vars => [Policy!Next]_(Policy!vars)
    BY StepRefines
<1> QED
    BY <1>1, <1>2, Inductive, PTL DEF Spec, ImplementsPagePolicy, Policy!Spec

-----------------------------------------------------------------------------
(* The counters: each is compared with the length of its list, given the     *)
(* updates that threads still owe it.                                        *)

\* Every folio on a list has its metadata, or its added hook is about to insert it.
ListedHasMetadata ==
    \A f \in ToSet(small_list) \cup ToSet(main_list) :
        f \in tracked \/ \E t \in Threads : th[t].pc = "add_meta" /\ th[t].f = f

\* Finitely many threads are inside a hook, however many there are.
Active == {t \in Threads : th[t].pc # "idle"}

\* What MainNeverUndercounted needs in order to be inductive: the increment of a
\* folio that is not on main_list yet, and the decrement of one that has left it.
MainBalance ==
    Len(main_list) + Cardinality(AddingToMain) + Cardinality(RemovingFromMain)
       <= main_list_size + Moved({"small_sub", "small_zero", "main_add"})
MainCounted == clamped \/ MainBalance

Counts == /\ ListedHasMetadata /\ IsFiniteSet(Active)
          /\ SmallNeverOvercounted /\ MainCounted

CountInv == IndInv /\ Counts

-----------------------------------------------------------------------------
\* The moves of threads that are inside a hook are finitely many.
LEMMA MovesFinite ==
    ASSUME TypeOK, IsFiniteSet(Active), NEW labels, "idle" \notin labels
    PROVE  IsFiniteSet(Moves(labels)) /\ Moved(labels) \in Nat
<1>1. ThreadsAt(labels) \in SUBSET Active
    BY DEF ThreadsAt, Active
<1>2. IsFiniteSet(ThreadsAt(labels))
    BY <1>1, FS_Subset
<1> DEFINE pairs == [t \in ThreadsAt(labels) |-> {t} \X (1 .. th[t].n)]
           all == {pairs[t] : t \in ThreadsAt(labels)}
<1>3. IsFiniteSet(all)
  <2>1. pairs \in Surjection(ThreadsAt(labels), all)
      BY DEF Surjection
  <2> QED
      BY <1>2, <2>1, FS_Surjection
<1>4. ASSUME NEW t \in ThreadsAt(labels) PROVE IsFiniteSet(pairs[t])
  <2>1. th[t].n \in Nat
      BY DEF TypeOK, ThreadStates, ThreadsAt
  <2>2. IsFiniteSet({t})
      BY FS_Singleton
  <2>3. IsFiniteSet(1 .. th[t].n)
      BY <2>1, FS_Interval
  <2> QED
      BY <2>2, <2>3, FS_Product
<1>5. \A T \in all : IsFiniteSet(T)
    BY <1>4
<1> HIDE DEF all
<1>6. IsFiniteSet(UNION all)
    BY <1>3, <1>5, FS_UNION
<1>7. UNION all = Moves(labels)
    BY DEF Moves, all
<1>8. IsFiniteSet(Moves(labels))
    BY <1>6, <1>7
<1> QED
    BY <1>8, FS_CardinalityType DEF Moved

\* A step of thread t changes the moves by what t stands for.
LEMMA MovesStep ==
    ASSUME TypeOK, IsFiniteSet(Active), NEW t \in Threads, NEW new \in ThreadStates,
           th' = [th EXCEPT ![t] = new], NEW labels, "idle" \notin labels
    PROVE  /\ Moved(labels)' \in Nat
           /\ Moved(labels)' = Moved(labels)
                               - (IF th[t].pc \in labels THEN th[t].n ELSE 0)
                               + (IF new.pc \in labels THEN new.n ELSE 0)
<1> DEFINE others == UNION {{u} \X (1 .. th[u].n) : u \in ThreadsAt(labels) \ {t}}
           units(s) == {t} \X (IF s.pc \in labels THEN 1 .. s.n ELSE {})
           size(s) == IF s.pc \in labels THEN s.n ELSE 0
<1>1. th \in [Threads -> ThreadStates]
    BY DEF TypeOK
<1>2. th'[t] = new /\ \A u \in Threads : u # t => th'[u] = th[u]
    BY <1>1
<1>3. Moves(labels) = others \cup units(th[t])
    BY DEF Moves, ThreadsAt
<1>4. Moves(labels)' = others \cup units(new)
  <2>1. ThreadsAt(labels)' \ {t} = ThreadsAt(labels) \ {t}
      BY <1>2 DEF ThreadsAt
  <2>2. others = UNION {{u} \X (1 .. th'[u].n) : u \in ThreadsAt(labels)' \ {t}}
      BY <1>2, <2>1 DEF ThreadsAt
  <2>3. t \in ThreadsAt(labels)' <=> new.pc \in labels
      BY <1>2 DEF ThreadsAt
  <2>4. Moves(labels)' = UNION {{u} \X (1 .. th'[u].n) : u \in ThreadsAt(labels)'}
      BY DEF Moves
  <2> HIDE DEF others
  <2> QED
      BY <1>2, <2>2, <2>3, <2>4
<1>5. \A m \in others : m[1] # t
    OBVIOUS
<1>6. ASSUME NEW s \in ThreadStates
      PROVE  /\ IsFiniteSet(units(s)) /\ Cardinality(units(s)) = size(s) /\ size(s) \in Nat
             /\ others \cap units(s) = {}
  <2>1. s.n \in Nat
      BY DEF ThreadStates
  <2>2. IsFiniteSet(1 .. s.n) /\ Cardinality(1 .. s.n) = s.n
      BY <2>1, FS_Interval
  <2>3. IsFiniteSet({}) /\ Cardinality({}) = 0
      BY FS_EmptySet
  <2>4. IsFiniteSet({t}) /\ Cardinality({t}) = 1
      BY FS_Singleton
  <2> DEFINE chosen == IF s.pc \in labels THEN 1 .. s.n ELSE {}
  <2>5. IsFiniteSet(chosen) /\ Cardinality(chosen) = size(s) /\ size(s) \in Nat
      BY <2>1, <2>2, <2>3
  <2>6. others \cap units(s) = {}
      BY <1>5
  <2> HIDE DEF chosen, size
  <2>7. IsFiniteSet({t} \X chosen) /\ Cardinality({t} \X chosen) = 1 * Cardinality(chosen)
      BY <2>4, <2>5, FS_Product
  <2> QED
      BY <2>5, <2>6, <2>7 DEF chosen
<1>7. IsFiniteSet(Moves(labels))
    BY MovesFinite
<1> HIDE DEF others, units, size
<1>8. IsFiniteSet(others)
  <2>1. others \in SUBSET Moves(labels)
      BY <1>3
  <2> QED
      BY <1>7, <2>1, FS_Subset
<1>9. Cardinality(others) \in Nat
    BY <1>8, FS_CardinalityType
<1>10. ASSUME NEW s \in ThreadStates
       PROVE  Cardinality(others \cup units(s)) = Cardinality(others) + size(s)
  <2>1. IsFiniteSet(units(s)) /\ Cardinality(units(s)) = size(s) /\ size(s) \in Nat
        /\ others \cap units(s) = {}
      BY <1>6
  <2>2. Cardinality(others \cap units(s)) = 0
      BY <2>1, FS_EmptySet
  <2>3. Cardinality(others \cup units(s)) =
          Cardinality(others) + Cardinality(units(s)) - Cardinality(others \cap units(s))
      BY <1>8, <2>1, FS_Union
  <2> QED
      BY <1>9, <2>1, <2>2, <2>3
<1>11. th[t] \in ThreadStates
    BY <1>1
<1>12. Moved(labels) = Cardinality(others) + size(th[t])
    BY <1>3, <1>10, <1>11 DEF Moved
<1>13. Moved(labels)' = Cardinality(others) + size(new)
    BY <1>4, <1>10 DEF Moved
<1>14. size(th[t]) \in Nat /\ size(new) \in Nat
    BY <1>6, <1>11
<1> QED
    BY <1>9, <1>12, <1>13, <1>14 DEF size

\* The threads that owe an update to the counter of a list.
LEMMA OwedFinite ==
    ASSUME IsFiniteSet(Active)
    PROVE  /\ IsFiniteSet(AddingToSmall) /\ IsFiniteSet(AddingToMain)
           /\ IsFiniteSet(RemovingFromSmall) /\ IsFiniteSet(RemovingFromMain)
<1>1. /\ AddingToSmall \in SUBSET Active /\ AddingToMain \in SUBSET Active
      /\ RemovingFromSmall \in SUBSET Active /\ RemovingFromMain \in SUBSET Active
    BY DEF AddingToSmall, AddingToMain, RemovingFromSmall, RemovingFromMain, ThreadsAt, Active
<1> QED
    BY <1>1, FS_Subset

-----------------------------------------------------------------------------
\* A folio gets its metadata right after its list, and loses it after it.
LEMMA ListedStep ==
    ASSUME IndInv, ListedHasMetadata, [Next]_vars
    PROVE  ListedHasMetadata'
<1> DEFINE Pending(g) == \E u \in Threads : th[u].pc = "add_meta" /\ th[u].f = g
<1>1. \A g \in listedFolios : g \in tracked \/ Pending(g)
    BY DEF ListedHasMetadata, listedFolios
<1>2. listedFolios \subseteq cached
    BY DEF listedFolios, IndInv, TypeOK
<1>3. SUFFICES \A g \in listedFolios' : g \in tracked' \/ Pending(g)'
    BY DEF ListedHasMetadata, listedFolios
<1>4. CASE (\E f \in Folios : SetFlags(f)) \/ UNCHANGED vars
    BY <1>1, <1>4 DEF SetFlags, vars, lists, metadata, listedFolios
<1>5. ASSUME NEW t \in Threads, Hook(t)
      PROVE  \A g \in listedFolios' : g \in tracked' \/ Pending(g)'
  <2> DEFINE Else(g) == \E u \in Threads \ {t} : th[u].pc = "add_meta" /\ th[u].f = g
  <2>1. (\E new : th' = [th EXCEPT ![t] = new]) \/ UNCHANGED th
    <3>1. \A new : Goto(t, new) => th' = [th EXCEPT ![t] = new]
        BY DEF Goto
    <3>2. Return(t) => th' = [th EXCEPT ![t] = Idle]
        BY DEF Return
    <3> QED
        BY <1>5, <3>1, <3>2, Zenon
        DEF Hook, FolioAdded, FolioAccessed, FolioEvicted, FolioAddedList, FolioAddedMeta,
            FolioAccessedCap, FolioEvictedCount, FolioEvictedMeta, EvictFolios, EvictSmall,
            SmallSub, SmallZero, MainAdd, MainSet, EvictMain, IterationFails
  <2>2. \A g : Else(g) => Pending(g)'
      BY <2>1 DEF IndInv, TypeOK
  <2>3. \A g : Pending(g) => Else(g) \/ (th[t].pc = "add_meta" /\ th[t].f = g)
      OBVIOUS
  <2> HIDE DEF Else
  <2>4. ASSUME NEW f \in Folios, FolioAdded(t, f)
        PROVE  \A g \in listedFolios' : g \in tracked' \/ Pending(g)'
    <3>1. th[t].pc = "idle" /\ listedFolios' = listedFolios /\ tracked' = tracked
        BY <2>4 DEF FolioAdded, At, lists, metadata, listedFolios
    <3> QED
        BY <1>1, <2>2, <2>3, <3>1
  <2>5. CASE FolioAddedList(t)
    <3> DEFINE f == th[t].f
               new == [Idle EXCEPT !.pc = "add_meta", !.f = f, !.main = th[t].main]
    <3>1. /\ th[t].pc = "add_list" /\ tracked' = tracked
          /\ \/ /\ th' = [th EXCEPT ![t] = new]
                /\ \/ main_list' = ListAddTail(main_list, f) /\ UNCHANGED small_list
                   \/ small_list' = ListAddTail(small_list, f) /\ UNCHANGED main_list
             \/ UNCHANGED <<small_list, main_list>>
        BY <2>5 DEF FolioAddedList, At, Goto, Return, metadata, lists
    <3>2. new.pc = "add_meta" /\ new.f = f
        BY DEF Idle
    <3>3. f \in Folios /\ small_list \in Seq(Folios) /\ main_list \in Seq(Folios)
        BY <3>1 DEF IndInv, Relations, HookInv, AddLabels, TypeOK
    <3> HIDE DEF f, new
    <3>4. CASE UNCHANGED <<small_list, main_list>>
      <4>1. listedFolios' = listedFolios
          BY <3>4 DEF listedFolios
      <4> QED
          BY <1>1, <2>2, <2>3, <3>1, <4>1
    <3>5. CASE /\ th' = [th EXCEPT ![t] = new]
               /\ \/ main_list' = ListAddTail(main_list, f) /\ UNCHANGED small_list
                  \/ small_list' = ListAddTail(small_list, f) /\ UNCHANGED main_list
      <4>1. \A g : g = f => Pending(g)'
        <5>1. th'[t] = new
            BY <3>5 DEF IndInv, TypeOK
        <5> QED
            BY <3>2, <5>1
      <4>2. /\ ToSet(ListAddTail(main_list, f)) = ToSet(main_list) \cup {f}
            /\ ToSet(ListAddTail(small_list, f)) = ToSet(small_list) \cup {f}
        <5>1. ToSet(ListAddTail(main_list, f)) = ToSet(main_list) \cup {f}
            BY <3>3, AddProperties
        <5>2. ToSet(ListAddTail(small_list, f)) = ToSet(small_list) \cup {f}
            BY <3>3, AddProperties
        <5> QED
            BY <5>1, <5>2
      <4>3. listedFolios' = listedFolios \cup {f}
          BY <3>5, <4>2 DEF listedFolios
      <4> QED
          BY <1>1, <2>2, <2>3, <3>1, <4>1, <4>3
    <3> QED
        BY <3>1, <3>4, <3>5
  <2>6. CASE FolioAddedMeta(t)
    <3> DEFINE f == th[t].f
    <3>1. \/ tracked' = tracked \cup {f} /\ UNCHANGED <<small_list, main_list>>
          \/ lists' = <<ListDel(small_list, f), ListDel(main_list, f)>> /\ tracked' = tracked
        BY <2>6 DEF FolioAddedMeta, lists, metadata
    <3> HIDE DEF f
    <3>2. CASE tracked' = tracked \cup {f} /\ UNCHANGED <<small_list, main_list>>
      <4>1. listedFolios' = listedFolios
          BY <3>2 DEF listedFolios
      <4> QED
          BY <1>1, <2>2, <2>3, <3>2, <4>1 DEF f
    <3>3. CASE lists' = <<ListDel(small_list, f), ListDel(main_list, f)>> /\ tracked' = tracked
      <4>1. listedFolios' = listedFolios \ {f}
        <5>1. /\ ToSet(small_list') = ToSet(small_list) \ {f}
              /\ ToSet(main_list') = ToSet(main_list) \ {f}
            BY <3>3, ListsAfterDel DEF IndInv
        <5> QED
            BY <5>1 DEF listedFolios
      <4> QED
          BY <1>1, <2>2, <2>3, <3>3, <4>1 DEF f
    <3> QED
        BY <3>1, <3>2, <3>3
  <2>7. ASSUME NEW f \in Folios, FolioEvicted(t, f)
        PROVE  \A g \in listedFolios' : g \in tracked' \/ Pending(g)'
    <3>1. /\ th[t].pc = "idle" /\ tracked' = tracked
          /\ lists' = <<ListDel(small_list, f), ListDel(main_list, f)>>
        BY <2>7 DEF FolioEvicted, At, lists, metadata
    <3>2. listedFolios' = listedFolios \ {f}
      <4>1. /\ ToSet(small_list') = ToSet(small_list) \ {f}
            /\ ToSet(main_list') = ToSet(main_list) \ {f}
          BY <3>1, ListsAfterDel DEF IndInv
      <4> QED
          BY <4>1 DEF listedFolios
    <3> QED
        BY <1>1, <2>2, <2>3, <3>1, <3>2
  <2>8. CASE FolioEvictedMeta(t)
    <3>1. /\ th[t].pc = "evicted_meta" /\ tracked' = tracked \ {th[t].f}
          /\ listedFolios' = listedFolios
        BY <2>8 DEF FolioEvictedMeta, At, lists, listedFolios
    <3>2. th[t].f \notin listedFolios
        BY <1>2, <3>1 DEF IndInv, Relations, HookInv, EvictedLabels
    <3> QED
        BY <1>1, <2>2, <2>3, <3>1, <3>2
  <2>9. CASE \/ \E f \in Folios : FolioAccessed(t, f)
             \/ FolioAccessedCap(t) \/ FolioEvictedCount(t) \/ EvictFolios(t) \/ SmallSub(t)
             \/ SmallZero(t) \/ MainAdd(t) \/ MainSet(t) \/ IterationFails(t)
    <3>1. th[t].pc # "add_meta" /\ tracked' = tracked /\ listedFolios' = listedFolios
        BY <2>9 DEF FolioAccessed, FolioAccessedCap, FolioEvictedCount, EvictFolios, SmallSub,
                    SmallZero, MainAdd, MainSet, IterationFails, At, lists, metadata, listedFolios
    <3> QED
        BY <1>1, <2>2, <2>3, <3>1
  <2>10. CASE EvictSmall(t) \/ EvictMain(t)
    <3>1. th[t].pc # "add_meta" /\ tracked' = tracked
        BY <2>10 DEF EvictSmall, EvictMain, At
    <3>2. listedFolios' = listedFolios
        BY <2>10, IterationSteps DEF Stutter
    <3> QED
        BY <1>1, <2>2, <2>3, <3>1, <3>2
  <2> HIDE DEF Pending
  <2> QED
      BY <1>5, <2>4, <2>5, <2>6, <2>7, <2>8, <2>9, <2>10 DEF Hook
<1> QED
    BY <1>4, <1>5 DEF Next

-----------------------------------------------------------------------------
\* What thread state s adds to the bound of small_list_size, and what it takes
\* from that of main_list_size, when the folios of M are flagged in_main.
SmallCredit(s, M) ==
    IF s.pc = "small_sub" THEN s.n
    ELSE IF (s.pc = "add_list" /\ ~s.main) \/ (s.pc = "evicted" /\ s.f \notin M) THEN 1 ELSE 0
MainDebit(s, M) ==
    IF s.pc \in {"small_sub", "small_zero", "main_add"} THEN -s.n
    ELSE IF (s.pc = "add_list" /\ s.main) \/ (s.pc = "evicted" /\ s.f \in M) THEN 1 ELSE 0

SmallCredits ==
    Moved({"small_sub"}) + Cardinality(AddingToSmall) + Cardinality(RemovingFromSmall)
MainDebits ==
    Cardinality(AddingToMain) + Cardinality(RemovingFromMain)
    - Moved({"small_sub", "small_zero", "main_add"})

\* What a step of thread t does to everything the counters are compared with.
CountsChange(t, new) ==
    /\ IsFiniteSet(Active')
    /\ SmallCredits \in Nat /\ MainDebits \in Int
    /\ Cardinality(AddingToSmall') \in Nat /\ Cardinality(AddingToMain') \in Nat
    /\ Cardinality(RemovingFromSmall') \in Nat /\ Cardinality(RemovingFromMain') \in Nat
    /\ Moved({"small_sub"})' \in Nat
    /\ Moved({"small_sub", "small_zero", "main_add"})' \in Nat
    /\ SmallCredit(th[t], in_main) \in Nat /\ SmallCredit(new, in_main') \in Nat
    /\ MainDebit(th[t], in_main) \in Int /\ MainDebit(new, in_main') \in Int
    /\ SmallCredits' = SmallCredits - SmallCredit(th[t], in_main) + SmallCredit(new, in_main')
    /\ MainDebits' = MainDebits - MainDebit(th[t], in_main) + MainDebit(new, in_main')

LEMMA ThreadCounts ==
    ASSUME CountInv, NEW t \in Threads, NEW new \in ThreadStates, th' = [th EXCEPT ![t] = new],
           \A u \in Threads : u # t /\ th[u].pc = "evicted" =>
                                 (th[u].f \in in_main' <=> th[u].f \in in_main)
    PROVE  CountsChange(t, new)
<1> DEFINE AddS(s) == IF s.pc = "add_list" /\ ~s.main THEN 1 ELSE 0
           AddM(s) == IF s.pc = "add_list" /\ s.main THEN 1 ELSE 0
           RemS(s, M) == IF s.pc = "evicted" /\ s.f \notin M THEN 1 ELSE 0
           RemM(s, M) == IF s.pc = "evicted" /\ s.f \in M THEN 1 ELSE 0
           SubS(s) == IF s.pc \in {"small_sub"} THEN s.n ELSE 0
           SubM(s) == IF s.pc \in {"small_sub", "small_zero", "main_add"} THEN s.n ELSE 0
<1>1. TypeOK /\ IsFiniteSet(Active)
    BY DEF CountInv, IndInv, Counts
<1>2. th'[t] = new /\ \A u \in Threads : u # t => th'[u] = th[u]
    BY <1>1 DEF TypeOK
<1>3. IsFiniteSet(Active')
  <2>1. Active \ {t} = Active' \ {t}
      BY <1>2 DEF Active
  <2> QED
      BY <1>1, <2>1, OneElement
<1>4. /\ AddingToSmall \ {t} = AddingToSmall' \ {t}
      /\ AddingToMain \ {t} = AddingToMain' \ {t}
      /\ RemovingFromSmall \ {t} = RemovingFromSmall' \ {t}
      /\ RemovingFromMain \ {t} = RemovingFromMain' \ {t}
  <2>1. \A u \in Threads : u # t /\ th'[u].pc = "evicted" =>
                              (th'[u].f \in in_main' <=> th[u].f \in in_main)
      BY <1>2
  <2> QED
      BY <1>2, <2>1
      DEF AddingToSmall, AddingToMain, RemovingFromSmall, RemovingFromMain, ThreadsAt
<1>5. /\ t \in AddingToSmall <=> th[t].pc = "add_list" /\ ~th[t].main
      /\ t \in AddingToMain <=> th[t].pc = "add_list" /\ th[t].main
      /\ t \in RemovingFromSmall <=> th[t].pc = "evicted" /\ th[t].f \notin in_main
      /\ t \in RemovingFromMain <=> th[t].pc = "evicted" /\ th[t].f \in in_main
    BY DEF AddingToSmall, AddingToMain, RemovingFromSmall, RemovingFromMain, ThreadsAt
<1>6. /\ t \in AddingToSmall' <=> new.pc = "add_list" /\ ~new.main
      /\ t \in AddingToMain' <=> new.pc = "add_list" /\ new.main
      /\ t \in RemovingFromSmall' <=> new.pc = "evicted" /\ new.f \notin in_main'
      /\ t \in RemovingFromMain' <=> new.pc = "evicted" /\ new.f \in in_main'
    BY <1>2 DEF AddingToSmall, AddingToMain, RemovingFromSmall, RemovingFromMain, ThreadsAt
<1>7. ASSUME NEW A, NEW B, IsFiniteSet(A), A \ {t} = B \ {t}
      PROVE  /\ Cardinality(A) \in Nat /\ Cardinality(B) \in Nat
             /\ Cardinality(B) = Cardinality(A) - (IF t \in A THEN 1 ELSE 0)
                                                + (IF t \in B THEN 1 ELSE 0)
  <2>1. /\ Cardinality(A) \in Nat /\ Cardinality(B) \in Nat
        /\ (t \in A <=> t \in B) => Cardinality(B) = Cardinality(A)
        /\ t \in A /\ t \notin B => Cardinality(B) = Cardinality(A) - 1
        /\ t \notin A /\ t \in B => Cardinality(B) = Cardinality(A) + 1
      BY <1>7, OneElement
  <2> QED
      BY <2>1
<1>8. /\ IsFiniteSet(AddingToSmall) /\ IsFiniteSet(AddingToMain)
      /\ IsFiniteSet(RemovingFromSmall) /\ IsFiniteSet(RemovingFromMain)
    BY <1>1, OwedFinite
<1>9. /\ Cardinality(AddingToSmall) \in Nat /\ Cardinality(AddingToSmall') \in Nat
      /\ Cardinality(AddingToSmall') = Cardinality(AddingToSmall) - AddS(th[t]) + AddS(new)
    BY <1>4, <1>5, <1>6, <1>7, <1>8
<1>10. /\ Cardinality(AddingToMain) \in Nat /\ Cardinality(AddingToMain') \in Nat
       /\ Cardinality(AddingToMain') = Cardinality(AddingToMain) - AddM(th[t]) + AddM(new)
    BY <1>4, <1>5, <1>6, <1>7, <1>8
<1>11. /\ Cardinality(RemovingFromSmall) \in Nat /\ Cardinality(RemovingFromSmall') \in Nat
       /\ Cardinality(RemovingFromSmall') =
            Cardinality(RemovingFromSmall) - RemS(th[t], in_main) + RemS(new, in_main')
    BY <1>4, <1>5, <1>6, <1>7, <1>8
<1>12. /\ Cardinality(RemovingFromMain) \in Nat /\ Cardinality(RemovingFromMain') \in Nat
       /\ Cardinality(RemovingFromMain') =
            Cardinality(RemovingFromMain) - RemM(th[t], in_main) + RemM(new, in_main')
    BY <1>4, <1>5, <1>6, <1>7, <1>8
<1>13. "idle" \notin {"small_sub"} /\ "idle" \notin {"small_sub", "small_zero", "main_add"}
    OBVIOUS
<1>14. Moved({"small_sub"}) \in Nat /\ Moved({"small_sub", "small_zero", "main_add"}) \in Nat
    BY <1>1, <1>13, MovesFinite
<1>15. /\ Moved({"small_sub"})' \in Nat
       /\ Moved({"small_sub"})' = Moved({"small_sub"}) - SubS(th[t]) + SubS(new)
    BY <1>1, <1>13, MovesStep
<1>16. /\ Moved({"small_sub", "small_zero", "main_add"})' \in Nat
       /\ Moved({"small_sub", "small_zero", "main_add"})' =
            Moved({"small_sub", "small_zero", "main_add"}) - SubM(th[t]) + SubM(new)
    BY <1>1, <1>13, MovesStep
<1>17. th[t].n \in Nat /\ new.n \in Nat
    BY <1>1 DEF TypeOK, ThreadStates
<1>18. ASSUME NEW s, NEW M, s.n \in Nat
       PROVE  /\ AddS(s) \in Nat /\ RemS(s, M) \in Nat /\ SubS(s) \in Nat
              /\ AddM(s) \in Nat /\ RemM(s, M) \in Nat /\ SubM(s) \in Nat
              /\ SmallCredit(s, M) = AddS(s) + RemS(s, M) + SubS(s)
              /\ MainDebit(s, M) = AddM(s) + RemM(s, M) - SubM(s)
  <2>1. /\ AddS(s) \in Nat /\ RemS(s, M) \in Nat /\ SubS(s) \in Nat
        /\ AddM(s) \in Nat /\ RemM(s, M) \in Nat /\ SubM(s) \in Nat
      BY <1>18
  <2>2. SmallCredit(s, M) = AddS(s) + RemS(s, M) + SubS(s)
      BY <1>18 DEF SmallCredit
  <2>3. MainDebit(s, M) = AddM(s) + RemM(s, M) - SubM(s)
      BY <1>18 DEF MainDebit
  <2> QED
      BY <2>1, <2>2, <2>3
<1> HIDE DEF AddS, AddM, RemS, RemM, SubS, SubM
<1>19. /\ SmallCredit(th[t], in_main) \in Nat /\ SmallCredit(new, in_main') \in Nat
       /\ MainDebit(th[t], in_main) \in Int /\ MainDebit(new, in_main') \in Int
    BY <1>17, <1>18
<1>20. SmallCredits \in Nat /\ MainDebits \in Int
    BY <1>9, <1>10, <1>11, <1>12, <1>14 DEF SmallCredits, MainDebits
<1>21. SmallCredits' = SmallCredits - SmallCredit(th[t], in_main) + SmallCredit(new, in_main')
  <2>1. /\ AddS(th[t]) \in Nat /\ RemS(th[t], in_main) \in Nat /\ SubS(th[t]) \in Nat
        /\ AddS(new) \in Nat /\ RemS(new, in_main') \in Nat /\ SubS(new) \in Nat
        /\ SmallCredit(th[t], in_main) = AddS(th[t]) + RemS(th[t], in_main) + SubS(th[t])
        /\ SmallCredit(new, in_main') = AddS(new) + RemS(new, in_main') + SubS(new)
      BY <1>17, <1>18
  <2> QED
      BY <1>9, <1>11, <1>14, <1>15, <2>1 DEF SmallCredits
<1>22. MainDebits' = MainDebits - MainDebit(th[t], in_main) + MainDebit(new, in_main')
  <2>1. /\ AddM(th[t]) \in Nat /\ RemM(th[t], in_main) \in Nat /\ SubM(th[t]) \in Nat
        /\ AddM(new) \in Nat /\ RemM(new, in_main') \in Nat /\ SubM(new) \in Nat
        /\ MainDebit(th[t], in_main) = AddM(th[t]) + RemM(th[t], in_main) - SubM(th[t])
        /\ MainDebit(new, in_main') = AddM(new) + RemM(new, in_main') - SubM(new)
      BY <1>17, <1>18
  <2> QED
      BY <1>10, <1>12, <1>14, <1>16, <2>1 DEF MainDebits
<1> QED
    BY <1>3, <1>9, <1>10, <1>11, <1>12, <1>15, <1>16, <1>19, <1>20, <1>21, <1>22
    DEF CountsChange

\* A step keeps both counters balanced, or clamps the counter of main_list.
Kept == /\ IsFiniteSet(Active') /\ SmallNeverOvercounted'
        /\ MainBalance => MainBalance' \/ clamped'

\* The lengths of the lists and the counters are numbers.
LEMMA CountTypes ==
    ASSUME IndInv
    PROVE  /\ small_list \in Seq(Folios) /\ main_list \in Seq(Folios)
           /\ IsInjective(small_list) /\ IsInjective(main_list)
           /\ Len(small_list) \in Nat /\ Len(main_list) \in Nat
           /\ small_list_size \in Int /\ main_list_size \in Int
           /\ lost \in Nat /\ th \in [Threads -> ThreadStates]
BY DEF IndInv, TypeOK

\* The two bounds in terms of the totals.
LEMMA Totals ==
    ASSUME CountInv
    PROVE  /\ small_list_size <= Len(small_list) + lost + SmallCredits
           /\ MainBalance => Len(main_list) + MainDebits <= main_list_size
<1>1. TypeOK /\ IsFiniteSet(Active)
    BY DEF CountInv, IndInv, Counts
<1>2. "idle" \notin {"small_sub"} /\ "idle" \notin {"small_sub", "small_zero", "main_add"}
    OBVIOUS
<1>3. Moved({"small_sub"}) \in Nat /\ Moved({"small_sub", "small_zero", "main_add"}) \in Nat
    BY <1>1, <1>2, MovesFinite
<1>4. /\ IsFiniteSet(AddingToSmall) /\ IsFiniteSet(AddingToMain)
      /\ IsFiniteSet(RemovingFromSmall) /\ IsFiniteSet(RemovingFromMain)
    BY <1>1, OwedFinite
<1>5. /\ Cardinality(AddingToSmall) \in Nat /\ Cardinality(AddingToMain) \in Nat
      /\ Cardinality(RemovingFromSmall) \in Nat /\ Cardinality(RemovingFromMain) \in Nat
    BY <1>4, FS_CardinalityType
<1>6. /\ Len(small_list) \in Nat /\ Len(main_list) \in Nat
      /\ small_list_size \in Int /\ main_list_size \in Int /\ lost \in Nat
    BY CountTypes DEF CountInv
<1>7. small_list_size <= Len(small_list) + lost + SmallCredits
    BY <1>3, <1>5, <1>6 DEF CountInv, Counts, SmallNeverOvercounted, SmallCredits
<1>8. MainBalance => Len(main_list) + MainDebits <= main_list_size
    BY <1>3, <1>5, <1>6 DEF MainBalance, MainDebits
<1> QED
    BY <1>7, <1>8

\* A step of one thread balances the accounts when what it changes in a counter,
\* a length and its own state adds up.
LEMMA KeptByAccount ==
    ASSUME CountInv, IndInv', NEW t \in Threads, NEW new \in ThreadStates,
           CountsChange(t, new),
           \/ small_list_size' <= 0
           \/ small_list_size' - (Len(small_list') + lost') - SmallCredit(new, in_main')
                <= small_list_size - (Len(small_list) + lost) - SmallCredit(th[t], in_main),
           \/ clamped'
           \/ Len(main_list') - main_list_size' + MainDebit(new, in_main')
                <= Len(main_list) - main_list_size + MainDebit(th[t], in_main)
    PROVE  Kept
<1>1. /\ Len(small_list) \in Nat /\ Len(main_list) \in Nat
      /\ small_list_size \in Int /\ main_list_size \in Int /\ lost \in Nat
    BY CountTypes DEF CountInv
<1>2. /\ Len(small_list') \in Nat /\ Len(main_list') \in Nat
      /\ small_list_size' \in Int /\ main_list_size' \in Int /\ lost' \in Nat
    BY DEF IndInv, TypeOK
<1>3. SmallNeverOvercounted'
  <2>1. /\ SmallCredits' = SmallCredits - SmallCredit(th[t], in_main) + SmallCredit(new, in_main')
        /\ SmallCredits \in Nat
        /\ SmallCredit(th[t], in_main) \in Nat /\ SmallCredit(new, in_main') \in Nat
      BY DEF CountsChange
  <2>2. /\ Cardinality(AddingToSmall') \in Nat /\ Cardinality(RemovingFromSmall') \in Nat
        /\ Moved({"small_sub"})' \in Nat
      BY DEF CountsChange
  <2>3. SmallCredits' = Moved({"small_sub"})' + Cardinality(AddingToSmall')
                                              + Cardinality(RemovingFromSmall')
      BY DEF SmallCredits
  <2>4. small_list_size' <= Len(small_list') + lost' + SmallCredits'
    <3>1. CASE small_list_size' <= 0
        BY <1>2, <2>2, <2>3, <3>1
    <3>2. CASE small_list_size' - (Len(small_list') + lost') - SmallCredit(new, in_main')
                 <= small_list_size - (Len(small_list) + lost) - SmallCredit(th[t], in_main)
      <4> DEFINE x == small_list_size - (Len(small_list) + lost)
                 y == small_list_size' - (Len(small_list') + lost')
                 c == SmallCredit(th[t], in_main)
                 d == SmallCredit(new, in_main')
      <4>1. x \in Int /\ y \in Int /\ c \in Int /\ d \in Int
          BY <1>1, <1>2, <2>1
      <4>2. y - d <= x - c
          BY <3>2
      <4>3. SmallCredits' = SmallCredits - c + d /\ SmallCredits \in Int
          BY <2>1
      <4>4. small_list_size <= Len(small_list) + lost + SmallCredits
          BY Totals
      <4>5. x <= SmallCredits
          BY <1>1, <4>3, <4>4
      <4> HIDE DEF x, y, c, d
      <4>6. y <= SmallCredits' /\ SmallCredits' \in Int
          BY <4>1, <4>2, <4>3, <4>5
      <4> QED
          BY <1>2, <4>6 DEF y
    <3> QED
        BY <3>1, <3>2
  <2> QED
      BY <1>2, <2>2, <2>3, <2>4 DEF SmallNeverOvercounted
<1>4. ASSUME MainBalance, ~clamped' PROVE MainBalance'
  <2>1. /\ MainDebits' = MainDebits - MainDebit(th[t], in_main) + MainDebit(new, in_main')
        /\ MainDebits \in Int
        /\ MainDebit(th[t], in_main) \in Int /\ MainDebit(new, in_main') \in Int
      BY DEF CountsChange
  <2>2. /\ Cardinality(AddingToMain') \in Nat /\ Cardinality(RemovingFromMain') \in Nat
        /\ Moved({"small_sub", "small_zero", "main_add"})' \in Nat
      BY DEF CountsChange
  <2>3. MainDebits' = Cardinality(AddingToMain') + Cardinality(RemovingFromMain')
                      - Moved({"small_sub", "small_zero", "main_add"})'
      BY DEF MainDebits
  <2>4. Len(main_list) + MainDebits <= main_list_size
      BY <1>4, Totals
  <2>5. Len(main_list') + MainDebits' <= main_list_size'
    <3> DEFINE x == Len(main_list) - main_list_size
               y == Len(main_list') - main_list_size'
               c == MainDebit(th[t], in_main)
               d == MainDebit(new, in_main')
    <3>1. x \in Int /\ y \in Int /\ c \in Int /\ d \in Int
        BY <1>1, <1>2, <2>1
    <3>2. y + d <= x + c
        BY <1>4
    <3>3. MainDebits' = MainDebits - c + d /\ MainDebits \in Int
        BY <2>1
    <3>4. x + MainDebits <= 0
        BY <1>1, <2>1, <2>4
    <3> HIDE DEF x, y, c, d
    <3>5. y + MainDebits' <= 0
        BY <3>1, <3>2, <3>3, <3>4
    <3>6. MainDebits' \in Int
        BY <3>1, <3>3
    <3> QED
        BY <1>2, <3>5, <3>6 DEF y
  <2> QED
      BY <1>2, <2>2, <2>3, <2>5 DEF MainBalance
<1> QED
    BY <1>3, <1>4 DEF Kept, CountsChange

-----------------------------------------------------------------------------
\* The steps that leave the page cache, the counters and the lists' lengths alone.
LEMMA KeptEnvironment ==
    ASSUME CountInv, (\E f \in Folios : SetFlags(f)) \/ UNCHANGED vars
    PROVE  Kept
<1>1. UNCHANGED <<small_list, main_list, small_list_size, main_list_size, in_main, th, lost>>
    BY DEF SetFlags, vars, lists, sizes, metadata, history
<1> QED
    BY <1>1 DEF CountInv, Counts, Kept, SmallNeverOvercounted, MainBalance, Active, AddingToSmall,
                AddingToMain, RemovingFromSmall, RemovingFromMain, ThreadsAt, Moved, Moves

\* A thread that owes nothing, before and after.
LEMMA KeptQuiet ==
    ASSUME CountInv, IndInv', NEW t \in Threads, NEW new \in ThreadStates,
           th' = [th EXCEPT ![t] = new],
           UNCHANGED <<small_list_size, main_list_size, in_main, lost>>,
           Len(small_list') = Len(small_list), Len(main_list') = Len(main_list),
           th[t].pc \notin {"add_list", "evicted", "small_sub", "small_zero", "main_add"},
           new.pc \notin {"add_list", "evicted", "small_sub", "small_zero", "main_add"}
    PROVE  Kept
<1>1. CountsChange(t, new)
    BY ThreadCounts
<1>2. /\ SmallCredit(th[t], in_main) = 0 /\ SmallCredit(new, in_main') = 0
      /\ MainDebit(th[t], in_main) = 0 /\ MainDebit(new, in_main') = 0
    BY DEF SmallCredit, MainDebit
<1>3. /\ Len(small_list) \in Nat /\ Len(main_list) \in Nat
      /\ small_list_size \in Int /\ main_list_size \in Int /\ lost \in Nat
    BY CountTypes DEF CountInv
<1>4. small_list_size' - (Len(small_list') + lost') - SmallCredit(new, in_main')
        <= small_list_size - (Len(small_list) + lost) - SmallCredit(th[t], in_main)
    BY <1>2, <1>3
<1>5. Len(main_list') - main_list_size' + MainDebit(new, in_main')
        <= Len(main_list) - main_list_size + MainDebit(th[t], in_main)
    BY <1>2, <1>3
<1> QED
    BY <1>1, <1>4, <1>5, KeptByAccount

\* s3fifo_folio_added counts the folio before it links it.
LEMMA KeptFolioAdded ==
    ASSUME CountInv, IndInv', NEW t \in Threads, NEW f \in Folios, FolioAdded(t, f)
    PROVE  Kept
<1> DEFINE new(b) == [Idle EXCEPT !.pc = "add_list", !.f = f, !.main = b]
<1>1. th[t].pc = "idle" /\ UNCHANGED <<small_list, main_list, in_main, lost>>
    BY DEF FolioAdded, At, lists, metadata
<1>2. \/ UNCHANGED <<small_list_size, main_list_size, th>>
      \/ \E found \in BOOLEAN :
            /\ th' = [th EXCEPT ![t] = new(found)]
            /\ IF found
               THEN main_list_size' = main_list_size + 1 /\ UNCHANGED small_list_size
               ELSE small_list_size' = small_list_size + 1 /\ UNCHANGED main_list_size
    BY DEF FolioAdded, sizes, Goto
<1>3. \A b \in BOOLEAN :
         new(b) \in ThreadStates /\ new(b).pc = "add_list" /\ new(b).main = b
    BY DEF Idle, ThreadStates, Labels
<1> HIDE DEF new
<1>4. CASE UNCHANGED <<small_list_size, main_list_size, th>>
    BY <1>1, <1>4 DEF CountInv, Counts, Kept, SmallNeverOvercounted, MainBalance, Active,
                      AddingToSmall, AddingToMain, RemovingFromSmall, RemovingFromMain,
                      ThreadsAt, Moved, Moves
<1>5. ASSUME NEW found \in BOOLEAN,
             th' = [th EXCEPT ![t] = new(found)],
             IF found
             THEN main_list_size' = main_list_size + 1 /\ UNCHANGED small_list_size
             ELSE small_list_size' = small_list_size + 1 /\ UNCHANGED main_list_size
      PROVE  Kept
  <2>1. CountsChange(t, new(found))
      BY <1>1, <1>3, <1>5, ThreadCounts
  <2>2. /\ SmallCredit(th[t], in_main) = 0 /\ MainDebit(th[t], in_main) = 0
        /\ SmallCredit(new(found), in_main') = IF found THEN 0 ELSE 1
        /\ MainDebit(new(found), in_main') = IF found THEN 1 ELSE 0
      BY <1>1, <1>3 DEF SmallCredit, MainDebit
  <2>3. /\ Len(small_list) \in Nat /\ Len(main_list) \in Nat
        /\ small_list_size \in Int /\ main_list_size \in Int /\ lost \in Nat
      BY CountTypes DEF CountInv
  <2>4. small_list_size' - (Len(small_list') + lost') - SmallCredit(new(found), in_main')
          <= small_list_size - (Len(small_list) + lost) - SmallCredit(th[t], in_main)
      BY <1>1, <1>5, <2>2, <2>3
  <2>5. Len(main_list') - main_list_size' + MainDebit(new(found), in_main')
          <= Len(main_list) - main_list_size + MainDebit(th[t], in_main)
      BY <1>1, <1>5, <2>2, <2>3
  <2> QED
      BY <1>3, <2>1, <2>4, <2>5, KeptByAccount
<1> QED
    BY <1>2, <1>4, <1>5

\* The folio comes onto the list whose counter has counted it, or is lost.
LEMMA KeptFolioAddedList ==
    ASSUME CountInv, IndInv', NEW t \in Threads, FolioAddedList(t)
    PROVE  Kept
<1> DEFINE f == th[t].f
           added == [Idle EXCEPT !.pc = "add_meta", !.f = f, !.main = th[t].main]
<1>1. /\ th[t].pc = "add_list"
      /\ UNCHANGED <<small_list_size, main_list_size, in_main>>
    BY DEF FolioAddedList, At, sizes, metadata
<1>2. th[t] \in ThreadStates /\ f \in cached
    BY <1>1 DEF CountInv, IndInv, TypeOK, Relations, HookInv, AddLabels
<1>3. f \in Folios /\ th[t].main \in BOOLEAN
    BY <1>2 DEF CountInv, IndInv, TypeOK, ThreadStates
<1>4. added \in ThreadStates /\ added.pc = "add_meta"
    BY <1>3 DEF Idle, ThreadStates, Labels
<1>5. \/ /\ IF th[t].main THEN main_list' = ListAddTail(main_list, f) /\ UNCHANGED small_list
                          ELSE small_list' = ListAddTail(small_list, f) /\ UNCHANGED main_list
         /\ th' = [th EXCEPT ![t] = added] /\ lost' = lost
      \/ th' = [th EXCEPT ![t] = Idle] /\ lost' = lost + 1 /\ UNCHANGED <<small_list, main_list>>
    BY DEF FolioAddedList, Goto, Return, lists
<1>6. Idle \in ThreadStates /\ Idle.pc = "idle"
    BY NewStates
<1>7. /\ Len(small_list) \in Nat /\ Len(main_list) \in Nat /\ lost \in Nat
      /\ small_list_size \in Int /\ main_list_size \in Int
    BY CountTypes DEF CountInv
<1>8. /\ Len(ListAddTail(small_list, f)) = Len(small_list) + 1
      /\ Len(ListAddTail(main_list, f)) = Len(main_list) + 1
    BY CountTypes, AddDelLen DEF CountInv
<1> HIDE DEF f, added
<1>9. PICK new \in {Idle, added} :
         /\ th' = [th EXCEPT ![t] = new]
         /\ \/ /\ Len(main_list') = Len(main_list) + (IF th[t].main THEN 1 ELSE 0)
               /\ Len(small_list') = Len(small_list) + (IF th[t].main THEN 0 ELSE 1)
               /\ lost' = lost
            \/ /\ Len(main_list') = Len(main_list) /\ Len(small_list') = Len(small_list)
               /\ lost' = lost + 1
    BY <1>5, <1>7, <1>8
<1>10. new \in ThreadStates /\ new.pc \in {"idle", "add_meta"}
    BY <1>4, <1>6
<1>11. CountsChange(t, new)
    BY <1>1, <1>9, <1>10, ThreadCounts
<1>12. /\ SmallCredit(th[t], in_main) = (IF th[t].main THEN 0 ELSE 1)
       /\ MainDebit(th[t], in_main) = (IF th[t].main THEN 1 ELSE 0)
       /\ SmallCredit(new, in_main') = 0 /\ MainDebit(new, in_main') = 0
    BY <1>1, <1>10 DEF SmallCredit, MainDebit
<1>13. small_list_size' - (Len(small_list') + lost') - SmallCredit(new, in_main')
         <= small_list_size - (Len(small_list) + lost) - SmallCredit(th[t], in_main)
    BY <1>1, <1>7, <1>9, <1>12
<1>14. Len(main_list') - main_list_size' + MainDebit(new, in_main')
         <= Len(main_list) - main_list_size + MainDebit(th[t], in_main)
    BY <1>1, <1>7, <1>9, <1>12
<1> QED
    BY <1>10, <1>11, <1>13, <1>14, KeptByAccount

\* A failed insertion of the metadata takes the folio off its list and leaves the
\* counter, and it is one more failure.
LEMMA KeptFolioAddedMeta ==
    ASSUME CountInv, IndInv', NEW t \in Threads, FolioAddedMeta(t)
    PROVE  Kept
<1> DEFINE f == th[t].f
<1>1. /\ th[t].pc = "add_meta" /\ th' = [th EXCEPT ![t] = Idle]
      /\ UNCHANGED <<small_list_size, main_list_size>>
    BY DEF FolioAddedMeta, At, sizes, Return
<1>2. \/ /\ in_main' = IF th[t].main THEN in_main \cup {f} ELSE in_main \ {f}
         /\ UNCHANGED <<small_list, main_list, lost>>
      \/ /\ small_list' = ListDel(small_list, f) /\ main_list' = ListDel(main_list, f)
         /\ lost' = lost + 1 /\ in_main' = in_main
    BY DEF FolioAddedMeta, lists, metadata, InMainAfterAdd
<1>3. \A u \in Threads : u # t /\ th[u].pc = "evicted" => th[u].f # f
    BY <1>1 DEF CountInv, IndInv, Relations, Exclusive, Locked, AddLabels, EvictedLabels
<1>4. /\ small_list \in Seq(Folios) /\ main_list \in Seq(Folios)
      /\ IsInjective(small_list) /\ IsInjective(main_list)
      /\ Len(small_list) \in Nat /\ Len(main_list) \in Nat /\ lost \in Nat
      /\ small_list_size \in Int /\ main_list_size \in Int
    BY CountTypes DEF CountInv
<1>5. Idle \in ThreadStates /\ Idle.pc = "idle"
    BY NewStates
<1> HIDE DEF f
<1>6. /\ Len(ListDel(small_list, f)) \in {Len(small_list) - 1, Len(small_list)}
      /\ Len(ListDel(main_list, f)) \in {Len(main_list) - 1, Len(main_list)}
    BY <1>4, AddDelLen
<1>7. /\ lost' \in Nat
      /\ Len(small_list') + lost' >= Len(small_list) + lost
      /\ Len(main_list') \in Nat /\ Len(main_list') <= Len(main_list)
  <2>1. lost' \in Nat /\ Len(small_list') \in Nat /\ Len(main_list') \in Nat
      BY DEF IndInv, TypeOK
  <2> QED
      BY <1>2, <1>4, <1>6, <2>1
<1>8. CountsChange(t, Idle)
    BY <1>1, <1>2, <1>3, <1>5, ThreadCounts
<1>9. /\ SmallCredit(th[t], in_main) = 0 /\ SmallCredit(Idle, in_main') = 0
      /\ MainDebit(th[t], in_main) = 0 /\ MainDebit(Idle, in_main') = 0
    BY <1>1, <1>5 DEF SmallCredit, MainDebit
<1>10. Len(small_list') \in Nat
    BY DEF IndInv, TypeOK
<1>11. small_list_size' - (Len(small_list') + lost') - SmallCredit(Idle, in_main')
         <= small_list_size - (Len(small_list) + lost) - SmallCredit(th[t], in_main)
    BY <1>1, <1>4, <1>7, <1>9, <1>10
<1>12. Len(main_list') - main_list_size' + MainDebit(Idle, in_main')
         <= Len(main_list) - main_list_size + MainDebit(th[t], in_main)
    BY <1>1, <1>4, <1>7, <1>9
<1> QED
    BY <1>5, <1>8, <1>11, <1>12, KeptByAccount

\* The kernel unlinks a folio before the hook discounts it; the list it leaves is
\* the one that its metadata names.
LEMMA KeptFolioEvicted ==
    ASSUME CountInv, IndInv', NEW t \in Threads, NEW f \in Folios, FolioEvicted(t, f)
    PROVE  Kept
<1> DEFINE evicted == [Idle EXCEPT !.pc = "evicted", !.f = f]
           new == IF f \in tracked THEN evicted ELSE th[t]
<1>1. /\ th[t].pc = "idle" /\ f \in cached /\ ~Adding(f) /\ ~Removing(f)
      /\ small_list' = ListDel(small_list, f) /\ main_list' = ListDel(main_list, f)
      /\ UNCHANGED <<small_list_size, main_list_size, in_main>>
      /\ lost' \in {lost, lost + 1}
    BY DEF FolioEvicted, At, sizes, metadata
<1>2. IF f \in tracked THEN th' = [th EXCEPT ![t] = evicted] ELSE th' = th
    BY DEF FolioEvicted, HasMetadata, Goto
<1>3. evicted \in ThreadStates /\ evicted.pc = "evicted" /\ evicted.f = f
  <2>1. "evicted" \in Labels
      BY DEF Labels
  <2> QED
      BY <2>1, NewStates
<1>4. /\ small_list \in Seq(Folios) /\ main_list \in Seq(Folios)
      /\ IsInjective(small_list) /\ IsInjective(main_list)
      /\ Len(small_list) \in Nat /\ Len(main_list) \in Nat /\ lost \in Nat
      /\ small_list_size \in Int /\ main_list_size \in Int /\ th \in [Threads -> ThreadStates]
    BY CountTypes DEF CountInv
<1> HIDE DEF evicted
<1>5. new \in ThreadStates /\ th' = [th EXCEPT ![t] = new]
    BY <1>2, <1>3, <1>4
<1>6. f \in ToSet(small_list) \cup ToSet(main_list) => f \in tracked
  <2>1. ~\E u \in Threads : th[u].pc = "add_meta" /\ th[u].f = f
      BY <1>1 DEF Adding, AddLabels
  <2> QED
      BY <2>1 DEF CountInv, Counts, ListedHasMetadata
<1>7. f \in in_main => f \in ToSet(main_list) /\ f \notin ToSet(small_list)
  <2>1. f \in in_main => f \in ToSet(main_list)
      BY <1>1 DEF CountInv, IndInv, Relations, InMainIsOnMainList
  <2> QED
      BY <2>1 DEF CountInv, IndInv, TypeOK
<1>8. in_main \subseteq tracked
    BY DEF CountInv, IndInv, TypeOK
<1>9. /\ Len(small_list') = IF f \in ToSet(small_list) THEN Len(small_list) - 1 ELSE Len(small_list)
      /\ Len(main_list') = IF f \in ToSet(main_list) THEN Len(main_list) - 1 ELSE Len(main_list)
    BY <1>1, <1>4, AddDelLen
<1>10. CountsChange(t, new)
    BY <1>1, <1>5, ThreadCounts
<1>11. /\ SmallCredit(th[t], in_main) = 0 /\ MainDebit(th[t], in_main) = 0
       /\ SmallCredit(new, in_main') = IF f \in tracked \ in_main THEN 1 ELSE 0
       /\ MainDebit(new, in_main') = IF f \in in_main THEN 1 ELSE 0
    BY <1>1, <1>3, <1>8 DEF SmallCredit, MainDebit
<1>12. small_list_size' - (Len(small_list') + lost') - SmallCredit(new, in_main')
         <= small_list_size - (Len(small_list) + lost) - SmallCredit(th[t], in_main)
  <2>1. CASE f \in ToSet(small_list)
    <3>1. f \in tracked \ in_main
        BY <1>6, <1>7, <2>1
    <3> QED
        BY <1>1, <1>4, <1>9, <1>11, <2>1, <3>1
  <2>2. CASE f \notin ToSet(small_list)
      BY <1>1, <1>4, <1>9, <1>11, <2>2
  <2> QED
      BY <2>1, <2>2
<1>13. Len(main_list') - main_list_size' + MainDebit(new, in_main')
         <= Len(main_list) - main_list_size + MainDebit(th[t], in_main)
    BY <1>1, <1>4, <1>7, <1>9, <1>11
<1> HIDE DEF new
<1> QED
    BY <1>5, <1>10, <1>12, <1>13, KeptByAccount

\* The evicted hook discounts its folio from the list its metadata names.
LEMMA KeptFolioEvictedCount ==
    ASSUME CountInv, IndInv', NEW t \in Threads, FolioEvictedCount(t)
    PROVE  Kept
<1> DEFINE f == th[t].f
           new == [Idle EXCEPT !.pc = "evicted_meta", !.f = f]
<1>1. /\ th[t].pc = "evicted" /\ th' = [th EXCEPT ![t] = new]
      /\ UNCHANGED <<small_list, main_list, in_main, lost>>
      /\ IF f \in in_main
         THEN main_list_size' = main_list_size - 1 /\ UNCHANGED small_list_size
         ELSE small_list_size' = small_list_size - 1 /\ UNCHANGED main_list_size
    BY DEF FolioEvictedCount, At, lists, metadata, history, Goto, CountedInMain
<1>2. f \in Folios
    BY <1>1 DEF CountInv, IndInv, TypeOK, Relations, HookInv, EvictedLabels
<1>3. new \in ThreadStates /\ new.pc = "evicted_meta"
  <2>1. "evicted_meta" \in Labels
      BY DEF Labels
  <2> HIDE DEF f
  <2> QED
      BY <1>2, <2>1, NewStates
<1> HIDE DEF new
<1>4. CountsChange(t, new)
    BY <1>1, <1>3, ThreadCounts
<1>5. /\ SmallCredit(th[t], in_main) = (IF f \in in_main THEN 0 ELSE 1)
      /\ MainDebit(th[t], in_main) = (IF f \in in_main THEN 1 ELSE 0)
      /\ SmallCredit(new, in_main') = 0 /\ MainDebit(new, in_main') = 0
    BY <1>1, <1>3 DEF SmallCredit, MainDebit
<1>6. /\ Len(small_list) \in Nat /\ Len(main_list) \in Nat /\ lost \in Nat
      /\ small_list_size \in Int /\ main_list_size \in Int
    BY CountTypes DEF CountInv
<1> HIDE DEF f
<1>7. small_list_size' - (Len(small_list') + lost') - SmallCredit(new, in_main')
        <= small_list_size - (Len(small_list) + lost) - SmallCredit(th[t], in_main)
    BY <1>1, <1>5, <1>6
<1>8. Len(main_list') - main_list_size' + MainDebit(new, in_main')
        <= Len(main_list) - main_list_size + MainDebit(th[t], in_main)
    BY <1>1, <1>5, <1>6
<1> QED
    BY <1>3, <1>4, <1>7, <1>8, KeptByAccount

\* Nothing is owed once the folio is discounted.
LEMMA KeptFolioEvictedMeta ==
    ASSUME CountInv, IndInv', NEW t \in Threads, FolioEvictedMeta(t)
    PROVE  Kept
<1>1. /\ th[t].pc = "evicted_meta" /\ th' = [th EXCEPT ![t] = Idle]
      /\ in_main' = in_main \ {th[t].f}
      /\ UNCHANGED <<small_list, main_list, small_list_size, main_list_size, lost>>
    BY DEF FolioEvictedMeta, At, lists, sizes, history, Return
<1>2. \A u \in Threads : u # t /\ th[u].pc = "evicted" => th[u].f # th[t].f
    BY <1>1 DEF CountInv, IndInv, Relations, Exclusive, Locked, EvictedLabels
<1>3. Idle \in ThreadStates /\ Idle.pc = "idle"
    BY NewStates
<1>4. CountsChange(t, Idle)
    BY <1>1, <1>2, <1>3, ThreadCounts
<1>5. /\ SmallCredit(th[t], in_main) = 0 /\ MainDebit(th[t], in_main) = 0
      /\ SmallCredit(Idle, in_main') = 0 /\ MainDebit(Idle, in_main') = 0
    BY <1>1, <1>3 DEF SmallCredit, MainDebit
<1>6. /\ Len(small_list) \in Nat /\ Len(main_list) \in Nat /\ lost \in Nat
      /\ small_list_size \in Int /\ main_list_size \in Int
    BY CountTypes DEF CountInv
<1>7. small_list_size' - (Len(small_list') + lost') - SmallCredit(Idle, in_main')
        <= small_list_size - (Len(small_list) + lost) - SmallCredit(th[t], in_main)
    BY <1>1, <1>5, <1>6
<1>8. Len(main_list') - main_list_size' + MainDebit(Idle, in_main')
        <= Len(main_list) - main_list_size + MainDebit(th[t], in_main)
    BY <1>1, <1>5, <1>6
<1> QED
    BY <1>3, <1>4, <1>7, <1>8, KeptByAccount

-----------------------------------------------------------------------------
\* evict_small: what the iteration moves to main_list is what the thread is about
\* to subtract from one counter and add to the other.
LEMMA KeptEvictSmall ==
    ASSUME CountInv, IndInv', NEW t \in Threads, EvictSmall(t)
    PROVE  Kept
<1> DEFINE continued == Continued(small_list, SmallVerdict, Request)
           evicted == Evicted(small_list, SmallVerdict, Request)
           unvisited == Unvisited(small_list, SmallVerdict, Request)
           visited == Visited(small_list, SmallVerdict, Request)
           new == [Idle EXCEPT !.pc = "small_sub", !.n = Len(continued)]
<1>1. /\ th[t].pc = "evict_small" /\ th' = [th EXCEPT ![t] = new]
      /\ small_list' = unvisited \o evicted
      /\ main_list' = main_list \o continued
      /\ in_main' = in_main \cup {f \in ToSet(continued) : SmallHot(f)}
      /\ UNCHANGED <<small_list_size, main_list_size, lost>>
    BY DEF EvictSmall, At, Goto, SmallAfter, sizes, history
<1>2. /\ small_list \in Seq(Folios) /\ main_list \in Seq(Folios)
      /\ IsInjective(small_list)
      /\ Len(small_list) \in Nat /\ Len(main_list) \in Nat /\ lost \in Nat
      /\ small_list_size \in Int /\ main_list_size \in Int
    BY CountTypes DEF CountInv
<1>3. /\ unvisited \in Seq(Folios) /\ evicted \in Seq(Folios) /\ continued \in Seq(Folios)
      /\ ToSet(visited) = ToSet(evicted) \cup ToSet(continued)
      /\ ToSet(small_list) = ToSet(visited) \cup ToSet(unvisited)
    BY <1>2, IterationProperties
<1>4. /\ Len(small_list) = Len(visited) + Len(unvisited)
      /\ Len(visited) = Len(evicted) + Len(continued)
    BY <1>2, IterationLen
<1>5. Len(continued) \in Nat /\ new \in ThreadStates /\ new.pc = "small_sub" /\ new.n = Len(continued)
  <2>1. Len(continued) \in Nat
      BY <1>3
  <2> HIDE DEF continued
  <2> QED
      BY <2>1 DEF Idle, ThreadStates, Labels
<1> HIDE DEF continued, evicted, unvisited, visited, new
<1>6. /\ Len(unvisited) \in Nat /\ Len(evicted) \in Nat /\ Len(visited) = Len(evicted) + Len(continued)
      /\ Len(small_list') = Len(unvisited) + Len(evicted)
      /\ Len(main_list') = Len(main_list) + Len(continued)
    BY <1>1, <1>2, <1>3, <1>4
<1>7. Len(small_list') = Len(small_list) - Len(continued)
    BY <1>4, <1>5, <1>6
<1>8. \A u \in Threads : u # t /\ th[u].pc = "evicted" =>
                            (th[u].f \in in_main' <=> th[u].f \in in_main)
  <2>1. ToSet(continued) \subseteq cached
      BY <1>3 DEF CountInv, IndInv, TypeOK
  <2>2. \A u \in Threads : th[u].pc = "evicted" => th[u].f \notin cached
      BY DEF CountInv, IndInv, Relations, HookInv, EvictedLabels
  <2> QED
      BY <1>1, <2>1, <2>2
<1>9. CountsChange(t, new)
    BY <1>1, <1>5, <1>8, ThreadCounts
<1>10. /\ SmallCredit(th[t], in_main) = 0 /\ MainDebit(th[t], in_main) = 0
       /\ SmallCredit(new, in_main') = Len(continued)
       /\ MainDebit(new, in_main') = -Len(continued)
    BY <1>1, <1>5 DEF SmallCredit, MainDebit
<1>11. small_list_size' - (Len(small_list') + lost') - SmallCredit(new, in_main')
         <= small_list_size - (Len(small_list) + lost) - SmallCredit(th[t], in_main)
    BY <1>1, <1>2, <1>5, <1>7, <1>10
<1>12. Len(main_list') - main_list_size' + MainDebit(new, in_main')
         <= Len(main_list) - main_list_size + MainDebit(th[t], in_main)
    BY <1>1, <1>2, <1>5, <1>6, <1>10
<1> QED
    BY <1>5, <1>9, <1>11, <1>12, KeptByAccount

\* The updates at the end of evict_small; the plain store of MainSet is the clamp.
LEMMA KeptEvictSmallEnd ==
    ASSUME CountInv, IndInv', NEW t \in Threads,
           SmallSub(t) \/ SmallZero(t) \/ MainAdd(t) \/ MainSet(t)
    PROVE  Kept
<1>1. /\ UNCHANGED <<small_list, main_list, in_main, lost>>
      /\ th[t].pc \in {"small_sub", "small_zero", "main_add", "main_set"}
    BY DEF SmallSub, SmallZero, MainAdd, MainSet, At, lists, metadata, history
<1>2. /\ Len(small_list) \in Nat /\ Len(main_list) \in Nat /\ lost \in Nat
      /\ small_list_size \in Int /\ main_list_size \in Int /\ th \in [Threads -> ThreadStates]
    BY CountTypes DEF CountInv
<1>3. th[t].n \in Nat
    BY <1>2 DEF ThreadStates
<1>4. \E l \in {"idle", "small_zero", "main_add", "main_set"} :
         \E new \in ThreadStates :
            /\ th' = [th EXCEPT ![t] = new] /\ new.pc = l
            /\ l # "idle" => new.n = th[t].n
            /\ l \in {"idle", "main_set"} <=> th[t].pc \in {"main_add", "main_set"}
  <2>1. \A l \in Labels :
           LET new == [Idle EXCEPT !.pc = l, !.n = th[t].n]
           IN  new \in ThreadStates /\ new.pc = l /\ new.n = th[t].n
      BY <1>3 DEF Idle, ThreadStates
  <2>2. Idle \in ThreadStates /\ Idle.pc = "idle"
      BY NewStates
  <2>3. {"small_zero", "main_add", "main_set"} \subseteq Labels
      BY DEF Labels
  <2>4. CASE SmallSub(t)
    <3>1. th[t].pc = "small_sub"
        BY <2>4 DEF SmallSub, At
    <3>2. PICK l \in {"small_zero", "main_add"} :
             th' = [th EXCEPT ![t] = [Idle EXCEPT !.pc = l, !.n = th[t].n]]
        BY <2>4 DEF SmallSub, Goto
    <3> QED
        BY <2>1, <2>3, <3>1, <3>2
  <2>5. CASE SmallZero(t)
    <3>1. /\ th[t].pc = "small_zero"
          /\ th' = [th EXCEPT ![t] = [Idle EXCEPT !.pc = "main_add", !.n = th[t].n]]
        BY <2>5 DEF SmallZero, At, Goto
    <3> QED
        BY <2>1, <2>3, <3>1
  <2>6. CASE MainAdd(t) /\ main_list_size < 0
    <3>1. /\ th[t].pc = "main_add"
          /\ th' = [th EXCEPT ![t] = [Idle EXCEPT !.pc = "main_set", !.n = th[t].n]]
        BY <2>6 DEF MainAdd, At, Goto
    <3> QED
        BY <2>1, <2>3, <3>1
  <2>7. CASE MainSet(t) \/ (MainAdd(t) /\ ~(main_list_size < 0))
    <3>1. /\ th[t].pc \in {"main_add", "main_set"}
          /\ th' = [th EXCEPT ![t] = Idle]
        BY <2>7 DEF MainAdd, MainSet, At, Return
    <3> QED
        BY <2>2, <3>1
  <2> QED
      BY <2>4, <2>5, <2>6, <2>7
<1>5. PICK l \in {"idle", "small_zero", "main_add", "main_set"}, new \in ThreadStates :
         /\ th' = [th EXCEPT ![t] = new] /\ new.pc = l
         /\ l # "idle" => new.n = th[t].n
         /\ l \in {"idle", "main_set"} <=> th[t].pc \in {"main_add", "main_set"}
    BY <1>4
<1>6. CountsChange(t, new)
    BY <1>1, <1>5, ThreadCounts
<1>7. /\ SmallCredit(th[t], in_main) = (IF th[t].pc = "small_sub" THEN th[t].n ELSE 0)
      /\ SmallCredit(new, in_main') = 0
      /\ MainDebit(th[t], in_main) = (IF th[t].pc = "main_set" THEN 0 ELSE -th[t].n)
      /\ MainDebit(new, in_main') = (IF l \in {"idle", "main_set"} THEN 0 ELSE -th[t].n)
    BY <1>1, <1>5 DEF SmallCredit, MainDebit
<1>8. \/ small_list_size' <= 0
      \/ small_list_size' - (Len(small_list') + lost') - SmallCredit(new, in_main')
           <= small_list_size - (Len(small_list) + lost) - SmallCredit(th[t], in_main)
  <2>1. CASE SmallSub(t)
    <3>1. th[t].pc = "small_sub" /\ small_list_size' = small_list_size - th[t].n
        BY <2>1 DEF SmallSub, At, SmallSizeAfter
    <3> QED
        BY <1>1, <1>2, <1>3, <1>7, <3>1
  <2>2. CASE SmallZero(t)
      BY <2>2 DEF SmallZero
  <2>3. CASE MainAdd(t) \/ MainSet(t)
    <3>1. th[t].pc # "small_sub" /\ small_list_size' = small_list_size
        BY <2>3 DEF MainAdd, MainSet, At
    <3> QED
        BY <1>1, <1>2, <1>7, <3>1
  <2> QED
      BY <2>1, <2>2, <2>3
<1>9. \/ clamped'
      \/ Len(main_list') - main_list_size' + MainDebit(new, in_main')
           <= Len(main_list) - main_list_size + MainDebit(th[t], in_main)
  <2>1. CASE SmallSub(t) \/ SmallZero(t)
    <3>1. th[t].pc \in {"small_sub", "small_zero"} /\ main_list_size' = main_list_size
        BY <2>1 DEF SmallSub, SmallZero, At
    <3>2. MainDebit(th[t], in_main) = -th[t].n /\ MainDebit(new, in_main') = -th[t].n
        BY <1>5, <1>7, <3>1
    <3> QED
        BY <1>1, <1>2, <1>3, <3>1, <3>2
  <2>2. CASE MainAdd(t)
    <3>1. th[t].pc = "main_add" /\ main_list_size' = main_list_size + th[t].n
        BY <2>2 DEF MainAdd, At
    <3>2. MainDebit(th[t], in_main) = -th[t].n /\ MainDebit(new, in_main') = 0
        BY <1>5, <1>7, <3>1
    <3> QED
        BY <1>1, <1>2, <1>3, <3>1, <3>2
  <2>3. CASE MainSet(t)
      BY <2>3 DEF MainSet
  <2> QED
      BY <2>1, <2>2, <2>3
<1> QED
    BY <1>5, <1>6, <1>8, <1>9, KeptByAccount

\* An access, a choice of the list, a failed iteration: nothing is owed.
LEMMA KeptQuietHooks ==
    ASSUME CountInv, IndInv', NEW t \in Threads, NEW f,
           \/ f \in Folios /\ FolioAccessed(t, f)
           \/ FolioAccessedCap(t) \/ EvictFolios(t) \/ IterationFails(t)
    PROVE  Kept
<1>1. /\ UNCHANGED <<small_list, main_list, small_list_size, main_list_size, in_main, lost>>
      /\ th[t].pc \in {"idle", "cap", "evict_small", "evict_main"}
    BY DEF FolioAccessed, FolioAccessedCap, EvictFolios, IterationFails, At, lists, sizes,
           metadata, history
<1>2. \E new \in ThreadStates :
         /\ th' = [th EXCEPT ![t] = new]
         /\ new.pc \in {"idle", "cap", "evict_small", "evict_main"}
  <2>1. /\ Idle \in ThreadStates /\ Idle.pc = "idle"
        /\ {"cap", "evict_small", "evict_main"} \subseteq Labels
      BY NewStates DEF Labels
  <2>2. th \in [Threads -> ThreadStates] /\ th = [th EXCEPT ![t] = th[t]]
      BY DEF CountInv, IndInv, TypeOK
  <2>3. CASE UNCHANGED th
      BY <1>1, <2>2, <2>3
  <2>4. CASE th' = [th EXCEPT ![t] = Idle]
      BY <2>1, <2>4
  <2>5. CASE f \in Folios /\ th' = [th EXCEPT ![t] = [Idle EXCEPT !.pc = "cap", !.f = f]]
    <3> DEFINE new == [Idle EXCEPT !.pc = "cap", !.f = f]
    <3>1. new \in ThreadStates /\ new.pc = "cap"
        BY <2>1, <2>5, NewStates
    <3> HIDE DEF new
    <3> QED
        BY <2>5, <3>1 DEF new
  <2>6. CASE \E l \in {"evict_small", "evict_main"} : th' = [th EXCEPT ![t] = [Idle EXCEPT !.pc = l]]
    <3>1. PICK l \in {"evict_small", "evict_main"} : th' = [th EXCEPT ![t] = [Idle EXCEPT !.pc = l]]
        BY <2>6
    <3> DEFINE new == [Idle EXCEPT !.pc = l]
    <3>2. l \in Labels
        BY <2>1
    <3>3. new \in ThreadStates /\ new.pc = l
        BY <3>2, NewStates
    <3>4. th' = [th EXCEPT ![t] = new]
        BY <3>1
    <3> HIDE DEF new
    <3> QED
        BY <3>3, <3>4
  <2>7. CASE f \in Folios /\ FolioAccessed(t, f)
      BY <2>3, <2>5, <2>7 DEF FolioAccessed, Goto
  <2>8. CASE FolioAccessedCap(t) \/ IterationFails(t)
      BY <2>4, <2>8 DEF FolioAccessedCap, IterationFails, Return
  <2>9. CASE EvictFolios(t)
      BY <2>6, <2>9 DEF EvictFolios, Goto
  <2> QED
      BY <2>7, <2>8, <2>9
<1>3. PICK new \in ThreadStates :
         /\ th' = [th EXCEPT ![t] = new]
         /\ new.pc \in {"idle", "cap", "evict_small", "evict_main"}
    BY <1>2
<1>4. Len(small_list') = Len(small_list) /\ Len(main_list') = Len(main_list)
    BY <1>1
<1>5. /\ th[t].pc \notin {"add_list", "evicted", "small_sub", "small_zero", "main_add"}
      /\ new.pc \notin {"add_list", "evicted", "small_sub", "small_zero", "main_add"}
    BY <1>1, <1>3
<1> QED
    BY <1>1, <1>3, <1>4, <1>5, KeptQuiet

\* evict_main_iter only reorders the list.
LEMMA KeptEvictMain ==
    ASSUME CountInv, IndInv', NEW t \in Threads, EvictMain(t)
    PROVE  Kept
<1> DEFINE room == Request - th[t].nr
           visited == Visited(main_list, MainVerdict(th[t].n), room)
           unvisited == Unvisited(main_list, MainVerdict(th[t].n), room)
           evicted == Evicted(main_list, MainVerdict(th[t].n), room)
           n == th[t].n + 1
           nr == th[t].nr + Len(evicted)
           more == [Idle EXCEPT !.pc = "evict_main", !.n = n, !.nr = nr]
<1>1. /\ th[t].pc = "evict_main"
      /\ th' = [th EXCEPT ![t] = more] \/ th' = [th EXCEPT ![t] = Idle]
      /\ main_list' = unvisited \o visited
      /\ UNCHANGED <<small_list, small_list_size, main_list_size, in_main, lost>>
    BY DEF EvictMain, At, Goto, Return, sizes, history
<1>2. /\ main_list \in Seq(Folios) /\ IsInjective(main_list) /\ th[t] \in ThreadStates
    BY CountTypes DEF CountInv
<1>3. unvisited \in Seq(Folios) /\ visited \in Seq(Folios) /\ Len(evicted) \in Nat
    BY <1>2, IterationProperties
<1>4. Len(main_list) = Len(visited) + Len(unvisited)
    BY <1>2, IterationLen
<1>5. /\ more \in ThreadStates /\ more.pc = "evict_main"
      /\ Idle \in ThreadStates /\ Idle.pc = "idle"
  <2>1. "evict_main" \in Labels /\ n \in Nat /\ nr \in Nat
    <3>1. th[t].n \in Nat /\ th[t].nr \in Nat
        BY <1>2 DEF ThreadStates
    <3> HIDE DEF evicted
    <3> QED
        BY <1>3, <3>1 DEF Labels
  <2> HIDE DEF n, nr
  <2> QED
      BY <2>1, NewStates
<1> HIDE DEF room, visited, unvisited, evicted, n, nr, more
<1>6. Len(main_list') = Len(main_list) /\ Len(small_list') = Len(small_list)
    BY <1>1, <1>3, <1>4
<1>7. PICK new \in {Idle, more} : th' = [th EXCEPT ![t] = new]
    BY <1>1
<1>8. /\ new \in ThreadStates
      /\ th[t].pc \notin {"add_list", "evicted", "small_sub", "small_zero", "main_add"}
      /\ new.pc \notin {"add_list", "evicted", "small_sub", "small_zero", "main_add"}
    BY <1>1, <1>5
<1> QED
    BY <1>1, <1>6, <1>7, <1>8, KeptQuiet

-----------------------------------------------------------------------------
LEMMA InitCounts == Init => Counts
<1> SUFFICES ASSUME Init PROVE Counts
    OBVIOUS
<1>1. \A t \in Threads : th[t].pc = "idle"
    BY NewStates DEF Init
<1>2. /\ Active = {} /\ AddingToSmall = {} /\ RemovingFromSmall = {}
      /\ AddingToMain = {} /\ RemovingFromMain = {}
    BY <1>1 DEF Active, AddingToSmall, AddingToMain, RemovingFromSmall, RemovingFromMain, ThreadsAt
<1>3. IsFiniteSet({}) /\ Cardinality({}) = 0
    BY FS_EmptySet
<1>4. Moved({"small_sub"}) = 0 /\ Moved({"small_sub", "small_zero", "main_add"}) = 0
  <2>1. ThreadsAt({"small_sub"}) = {} /\ ThreadsAt({"small_sub", "small_zero", "main_add"}) = {}
      BY <1>1 DEF ThreadsAt
  <2>2. Moves({"small_sub"}) = {} /\ Moves({"small_sub", "small_zero", "main_add"}) = {}
      BY <2>1 DEF Moves
  <2> QED
      BY <1>3, <2>2 DEF Moved
<1>5. /\ Len(small_list) = 0 /\ Len(main_list) = 0 /\ lost = 0
      /\ small_list_size = 0 /\ main_list_size = 0
    BY DEF Init
<1>6. SmallNeverOvercounted /\ MainBalance
    BY <1>2, <1>3, <1>4, <1>5 DEF SmallNeverOvercounted, MainBalance
<1>7. ListedHasMetadata
    BY DEF ListedHasMetadata, Init, ToSet
<1> QED
    BY <1>2, <1>3, <1>6, <1>7 DEF Counts, MainCounted

LEMMA NextCountInv == CountInv /\ [Next]_vars => CountInv'
<1> SUFFICES ASSUME CountInv, [Next]_vars PROVE CountInv'
    OBVIOUS
<1>1. IndInv'
    BY NextIndInv DEF CountInv
<1>2. ListedHasMetadata'
    BY ListedStep DEF CountInv, Counts
<1>3. Kept
  <2>1. CASE (\E f \in Folios : SetFlags(f)) \/ UNCHANGED vars
      BY <2>1, KeptEnvironment
  <2>2. ASSUME NEW t \in Threads, Hook(t) PROVE Kept
    <3>1. ASSUME NEW f \in Folios, FolioAdded(t, f) PROVE Kept
        BY <1>1, <3>1, KeptFolioAdded
    <3>2. ASSUME NEW f \in Folios, FolioEvicted(t, f) PROVE Kept
        BY <1>1, <3>2, KeptFolioEvicted
    <3>3. CASE FolioAddedList(t)
        BY <1>1, <3>3, KeptFolioAddedList
    <3>4. CASE FolioAddedMeta(t)
        BY <1>1, <3>4, KeptFolioAddedMeta
    <3>5. CASE FolioEvictedCount(t)
        BY <1>1, <3>5, KeptFolioEvictedCount
    <3>11. CASE FolioEvictedMeta(t)
        BY <1>1, <3>11, KeptFolioEvictedMeta
    <3>6. CASE EvictSmall(t)
        BY <1>1, <3>6, KeptEvictSmall
    <3>7. CASE SmallSub(t) \/ SmallZero(t) \/ MainAdd(t) \/ MainSet(t)
        BY <1>1, <3>7, KeptEvictSmallEnd
    <3>8. CASE EvictMain(t)
        BY <1>1, <3>8, KeptEvictMain
    <3>9. ASSUME NEW f \in Folios, FolioAccessed(t, f) PROVE Kept
        BY <1>1, <3>9, KeptQuietHooks
    <3>10. CASE FolioAccessedCap(t) \/ EvictFolios(t) \/ IterationFails(t)
        BY <1>1, <3>10, KeptQuietHooks
    <3> QED
        BY <2>2, <3>1, <3>2, <3>3, <3>4, <3>5, <3>6, <3>7, <3>8, <3>9, <3>10, <3>11, Zenon
        DEF Hook
  <2> QED
      BY <2>1, <2>2 DEF Next
<1>4. clamped => clamped'
    BY Zenon DEF Next, Hook, SetFlags, FolioAdded, FolioAccessed, FolioEvicted, FolioAddedList,
             FolioAddedMeta, FolioAccessedCap, FolioEvictedCount, FolioEvictedMeta, EvictFolios,
             EvictSmall, SmallSub, SmallZero, MainAdd, MainSet, EvictMain, IterationFails, history, vars
<1>5. MainCounted'
    BY <1>3, <1>4, Zenon DEF CountInv, Counts, MainCounted, Kept
<1> QED
    BY <1>1, <1>2, <1>3, <1>5 DEF CountInv, Counts, Kept

LEMMA CountInductive == Spec => []CountInv
<1>1. Init => CountInv
    BY InitIndInv, InitCounts DEF CountInv
<1> QED
    BY <1>1, NextCountInv, PTL DEF Spec

\* Apart from updates under way and insertions that failed, small_list_size never
\* exceeds the length of the small list: s3fifo_evict_folios does not take the
\* small list for folios it does not hold, however the hooks interleave.
THEOREM SmallNeverOvercountedHolds == Spec => []SmallNeverOvercounted
<1>1. CountInv => SmallNeverOvercounted
    BY DEF CountInv, Counts
<1> QED
    BY <1>1, CountInductive, PTL

\* main_list_size never falls below the length of the main list, apart from moves
\* not yet added, unless the plain store at the end of evict_small was executed.
THEOREM MainNeverUndercountedHolds == Spec => []MainNeverUndercounted
<1>1. CountInv => MainNeverUndercounted
  <2> SUFFICES ASSUME CountInv, ~clamped
               PROVE  Len(main_list) <= main_list_size + Moved({"small_sub", "small_zero", "main_add"})
      BY DEF MainNeverUndercounted
  <2>1. MainBalance /\ TypeOK /\ IsFiniteSet(Active)
      BY DEF CountInv, IndInv, Counts, MainCounted
  <2>2. "idle" \notin {"small_sub", "small_zero", "main_add"}
      OBVIOUS
  <2>3. Moved({"small_sub", "small_zero", "main_add"}) \in Nat
      BY <2>1, <2>2, MovesFinite
  <2>4. Cardinality(AddingToMain) \in Nat /\ Cardinality(RemovingFromMain) \in Nat
      BY <2>1, OwedFinite, FS_CardinalityType
  <2>5. Len(main_list) \in Nat /\ main_list_size \in Int
      BY <2>1 DEF TypeOK
  <2> QED
      BY <2>1, <2>3, <2>4, <2>5 DEF MainBalance
<1> QED
    BY <1>1, CountInductive, PTL

=============================================================================
