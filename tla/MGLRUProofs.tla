------------------------------ MODULE MGLRUProofs ------------------------------
(***************************************************************************)
(* Theorems about the generations of MGLRU, for any number of folios and    *)
(* threads and without the bounds of the runs: type correctness, the window *)
(* of generations, the agreement of lists, metadata and page counts, and    *)
(* the refinement of PagePolicy.                                            *)
(***************************************************************************)
EXTENDS MGLRU, CacheExtListsProofs

\* The ring has four slots, and every sequence number falls into one of them.
LEMMA ConstantsType ==
    /\ MAX_NR_GENS = 4 /\ MIN_NR_GENS = 2 /\ MAX_NR_TIERS = 4
    /\ Slots = 0 .. 3
    /\ \A seq \in Int : lru_gen_from_seq(seq) \in Slots
    /\ \A slot \in Slots : NextSlot(slot) \in Slots /\ NextSlot(slot) # slot
BY DEF MAX_NR_GENS, MIN_NR_GENS, MAX_NR_TIERS, Slots, lru_gen_from_seq, NextSlot

-----------------------------------------------------------------------------
(* What a step may store as the state of a thread.                           *)

\* A thread that adds or removes a folio has one, and one that is about to discount
\* a page has promoted it.
LockedLabels == AddLabels \cup EvictedLabels
GoodState(local) ==
    /\ local.pc \in LockedLabels => local.f \in Folios
    /\ local.pc = "count_down" => local.n > 0

AddState(label, f, slot) == [Idle EXCEPT !.pc = label, !.f = f, !.slot = slot]
EvictedState(label, f) == [Idle EXCEPT !.pc = label, !.f = f]
RetireState(lo, hi) == [Idle EXCEPT !.pc = "retire", !.lo = lo, !.hi = hi]
Pass1State(slot) == [Idle EXCEPT !.pc = "pass1", !.slot = slot]

LEMMA LabelsOfHooks ==
    /\ LockedLabels = {"add_meta", "add_count", "add_list", "evicted", "evicted_forget"}
    /\ AddLabels = {"add_meta", "add_count", "add_list"}
    /\ EvictedLabels = {"evicted", "evicted_forget"}
    /\ LockedLabels \subseteq Labels
BY DEF LockedLabels, AddLabels, EvictedLabels, Labels

LEMMA IdleState ==
    /\ Idle \in ThreadStates /\ GoodState(Idle)
    /\ Idle.pc = "idle" /\ Idle.f = NoFolio /\ Idle.n = 0
<1>1. 0 \in 0 .. MAX_NR_TIERS - 1 /\ 0 \in Slots /\ 0 \in Nat /\ "idle" \in Labels
    BY ConstantsType DEF Labels
<1>2. Idle \in ThreadStates
    BY <1>1 DEF Idle, ThreadStates
<1> QED
    BY <1>2, LabelsOfHooks DEF Idle, GoodState

LEMMA AddStates ==
    ASSUME NEW label \in AddLabels, NEW f \in Folios, NEW slot \in Slots
    PROVE  LET new == AddState(label, f, slot)
           IN  /\ new \in ThreadStates /\ GoodState(new)
               /\ new.pc = label /\ new.f = f /\ new.slot = slot
<1> DEFINE new == AddState(label, f, slot)
<1>1. label \in Labels /\ label # "count_down"
    BY LabelsOfHooks
<1>2. new \in ThreadStates
    BY <1>1, IdleState DEF AddState, ThreadStates
<1>3. new.pc = label /\ new.f = f /\ new.slot = slot
    BY DEF AddState, Idle
<1> HIDE DEF new
<1> QED
    BY <1>1, <1>2, <1>3 DEF GoodState, new

LEMMA EvictedStates ==
    ASSUME NEW label \in EvictedLabels, NEW f \in Folios
    PROVE  LET new == EvictedState(label, f)
           IN  new \in ThreadStates /\ GoodState(new) /\ new.pc = label /\ new.f = f
<1> DEFINE new == EvictedState(label, f)
<1>1. label \in Labels /\ label # "count_down"
    BY LabelsOfHooks
<1>2. new \in ThreadStates
    BY <1>1, IdleState DEF EvictedState, ThreadStates
<1>3. new.pc = label /\ new.f = f
    BY DEF EvictedState, Idle
<1> HIDE DEF new
<1> QED
    BY <1>1, <1>2, <1>3 DEF GoodState, new

LEMMA RetireStates ==
    ASSUME NEW lo \in Nat, NEW hi \in Nat
    PROVE  LET new == RetireState(lo, hi)
           IN  /\ new \in ThreadStates /\ GoodState(new)
               /\ new.pc = "retire" /\ new.lo = lo /\ new.hi = hi
<1> DEFINE new == RetireState(lo, hi)
<1>1. new \in ThreadStates
    BY IdleState DEF RetireState, ThreadStates, Labels
<1>2. new.pc = "retire" /\ new.lo = lo /\ new.hi = hi
    BY DEF RetireState, Idle
<1> HIDE DEF new
<1> QED
    BY <1>1, <1>2, LabelsOfHooks DEF GoodState, new

LEMMA Pass1States ==
    ASSUME NEW slot \in Slots
    PROVE  LET new == Pass1State(slot)
           IN  new \in ThreadStates /\ GoodState(new) /\ new.pc = "pass1" /\ new.slot = slot
<1> DEFINE new == Pass1State(slot)
<1>1. new \in ThreadStates
    BY IdleState DEF Pass1State, ThreadStates, Labels
<1>2. new.pc = "pass1" /\ new.slot = slot
    BY DEF Pass1State, Idle
<1> HIDE DEF new
<1> QED
    BY <1>1, <1>2, LabelsOfHooks DEF GoodState, new

\* How an eviction goes on after a pass or the count of a promoted page.
LEMMA ResumeStates ==
    ASSUME NEW t \in Threads, NEW l \in ThreadStates, Resume(t, l)
    PROVE  \E new \in ThreadStates :
              /\ th' = [th EXCEPT ![t] = new]
              /\ GoodState(new)
              /\ new.pc \in {"idle", "pass2", "count_down"}
              /\ IF l.n > 0 THEN new.pc = "count_down" /\ new.slot = l.slot /\ new.n = l.n
                            ELSE new.pc # "count_down"
<1>1. CASE l.n > 0
  <2> DEFINE new == [l EXCEPT !.pc = "count_down"]
  <2>1. th' = [th EXCEPT ![t] = new]
      BY <1>1 DEF Resume, Goto
  <2>2. new \in ThreadStates
      BY DEF ThreadStates, Labels
  <2>3. new.pc = "count_down" /\ new.slot = l.slot /\ new.n = l.n
      BY DEF ThreadStates
  <2> HIDE DEF new
  <2>4. GoodState(new)
      BY <1>1, <2>3, LabelsOfHooks DEF GoodState
  <2> QED
      BY <1>1, <2>1, <2>2, <2>3, <2>4
<1>2. CASE ~(l.n > 0) /\ l.nr < Request
  <2> DEFINE new == [l EXCEPT !.pc = "pass2"]
  <2>1. th' = [th EXCEPT ![t] = new]
      BY <1>2 DEF Resume, Goto
  <2>2. new \in ThreadStates
      BY DEF ThreadStates, Labels
  <2>3. new.pc = "pass2"
      BY DEF ThreadStates
  <2> HIDE DEF new
  <2>4. GoodState(new)
      BY <2>3, LabelsOfHooks DEF GoodState
  <2> QED
      BY <1>2, <2>1, <2>2, <2>3, <2>4
<1>3. CASE ~(l.n > 0) /\ ~(l.nr < Request)
  <2>1. th' = [th EXCEPT ![t] = Idle]
      BY <1>3 DEF Resume, Return
  <2> QED
      BY <1>3, <2>1, IdleState
<1> QED
    BY <1>1, <1>2, <1>3

-----------------------------------------------------------------------------
\* An iteration keeps the types of the lists and the metadata, whatever list it
\* starts from and whatever eviction_metadata it uses.
LEMMA IterateType ==
    ASSUME Types, NEW from \in Slots, NEW curr \in Slots, NEW thr, NEW room,
           Iterate(from, curr, thr, room)
    PROVE  /\ lists' \in [Slots -> Seq(Folios)]
           /\ gen' \in [Folios -> Slots]
           /\ Len(Evicted(lists[from], Verdict(thr), room)) \in Nat
           /\ Len(Continued(lists[from], Verdict(thr), room)) \in Nat
<1> DEFINE continued == Continued(lists[from], Verdict(thr), room)
           evicted == Evicted(lists[from], Verdict(thr), room)
           unvisited == Unvisited(lists[from], Verdict(thr), room)
<1>1. lists \in [Slots -> Seq(Folios)] /\ gen \in [Folios -> Slots]
    BY DEF Types
<1>2. lists[from] \in Seq(Folios) /\ NextSlot(from) \in Slots /\ NextSlot(curr) \in Slots
    BY <1>1, ConstantsType
<1>3. /\ continued \in Seq(Folios) /\ evicted \in Seq(Folios) /\ unvisited \in Seq(Folios)
      /\ Len(evicted) \in Nat /\ Len(continued) \in Nat
    BY <1>2, IterationProperties
<1>4. /\ lists' = [s \in Slots |-> CASE s = from -> unvisited \o evicted
                                      [] s = NextSlot(from) -> lists[s] \o continued
                                      [] OTHER -> lists[s]]
      /\ gen' = [f \in Folios |-> IF f \in ToSet(continued) THEN NextSlot(curr) ELSE gen[f]]
    BY DEF Iterate, GenAfterPromotion
<1> HIDE DEF continued, evicted, unvisited
<1>5. \A a, b \in Seq(Folios) : a \o b \in Seq(Folios)
    BY ToSetConcat
<1>6. lists' \in [Slots -> Seq(Folios)]
    BY <1>1, <1>2, <1>3, <1>4, <1>5
<1>7. gen' \in [Folios -> Slots]
    BY <1>1, <1>2, <1>4
<1> QED
    BY <1>3, <1>6, <1>7 DEF evicted, continued

\* The page counts after an update of one.
LEMMA PagesType ==
    ASSUME Types, NEW slot \in Slots
    PROVE  /\ PagesMore(slot) \in [Slots -> Int] /\ PagesLess(slot) \in [Slots -> Int]
           /\ \A s \in Slots :
                 /\ PagesMore(slot)[s] = IF s = slot THEN nr_pages[s] + 1 ELSE nr_pages[s]
                 /\ PagesLess(slot)[s] = IF s = slot THEN nr_pages[s] - 1 ELSE nr_pages[s]
BY DEF Types, PagesMore, PagesLess

-----------------------------------------------------------------------------
HookInv == \A t \in Threads : GoodState(th[t])

\* The inductive invariant: types, and the lock with what its holder knows.
IndInv == Types /\ LockInv /\ HookInv

LEMMA InitIndInv == Init => IndInv
<1> SUFFICES ASSUME Init PROVE IndInv
    OBVIOUS
<1>1. Types
  <2>1. <<>> \in Seq(Folios)
      OBVIOUS
  <2>2. th \in [Threads -> ThreadStates]
      BY IdleState DEF Init
  <2>3. MIN_NR_GENS + 1 \in Nat /\ 0 \in Slots
      BY ConstantsType
  <2>4. /\ lists \in [Slots -> Seq(Folios)] /\ nr_pages \in [Slots -> Int]
        /\ overwritten \in [Slots -> Nat]
      BY <2>1 DEF Init
  <2>5. accesses \in [Folios -> Nat] /\ gen \in [Folios -> Slots]
      BY <2>3 DEF Init
  <2>6. min_seq \in Nat /\ max_seq \in Nat
      BY <2>3 DEF Init
  <2> QED
      BY <2>2, <2>4, <2>5, <2>6 DEF Init, Types
<1>2. LockInv
  <2>1. \A t \in Threads : ~At(t, "retire") /\ holder # t
      BY MGLRUAssumption DEF Init, Idle, At
  <2>2. SeqWindow
      BY ConstantsType DEF Init, SeqWindow
  <2> QED
      BY <2>1, <2>2 DEF LockInv
<1>3. HookInv
    BY IdleState DEF Init, HookInv
<1> QED
    BY <1>1, <1>2, <1>3 DEF IndInv

\* A step that takes no part in aging or retirement leaves LockInv alone.
LEMMA SameThreads ==
    ASSUME IndInv, UNCHANGED <<min_seq, max_seq, holder, th>>
    PROVE  LockInv' /\ HookInv'
BY DEF IndInv, LockInv, HookInv, SeqWindow, At

LEMMA ThreadStep ==
    ASSUME IndInv, UNCHANGED <<min_seq, max_seq, holder>>,
           NEW t \in Threads, th[t].pc # "retire",
           NEW new \in ThreadStates, GoodState(new), new.pc # "retire",
           th' = [th EXCEPT ![t] = new]
    PROVE  th' \in [Threads -> ThreadStates] /\ LockInv' /\ HookInv'
<1>1. th \in [Threads -> ThreadStates]
    BY DEF IndInv, Types
<1>2. th' \in [Threads -> ThreadStates]
    BY <1>1
<1>3. \A u \in Threads : u # t => th'[u] = th[u]
    BY <1>1
<1>4. th'[t] = new
    BY <1>1
<1>5. HookInv'
    BY <1>3, <1>4 DEF IndInv, HookInv
<1>6. LockInv'
  <2>1. LockInv /\ holder # t
      BY DEF IndInv, LockInv, At
  <2>2. \A u \in Threads : At(u, "retire")' <=> At(u, "retire")
      BY <1>3, <1>4 DEF At
  <2>3. \A u \in Threads : At(u, "retire") => th'[u] = th[u]
      BY <1>3 DEF At
  <2> QED
      BY <2>1, <2>2, <2>3 DEF LockInv, SeqWindow
<1> QED
    BY <1>2, <1>5, <1>6

\* The two passes of an eviction: what they iterate, and the thread state they leave,
\* which knows how many pages were promoted.
AfterPass(t, slot, n) ==
    \E new \in ThreadStates :
        /\ th' = [th EXCEPT ![t] = new]
        /\ GoodState(new)
        /\ new.pc \in {"idle", "pass2", "count_down"}
        /\ IF n > 0 THEN new.pc = "count_down" /\ new.slot = slot /\ new.n = n
                    ELSE new.pc # "count_down"

LEMMA FirstPassStep ==
    ASSUME IndInv, NEW t \in Threads, FirstPass(t)
    PROVE  \E thr \in Thresholds :
              /\ Iterate(th[t].slot, th[t].slot, thr, Request)
              /\ AfterPass(t, th[t].slot,
                           Len(Continued(lists[th[t].slot], Verdict(thr), Request)))
<1> DEFINE slot == th[t].slot
<1>1. Types /\ slot \in Slots
    BY DEF IndInv, Types, ThreadStates
<1>2. PICK thr \in Thresholds :
         /\ Iterate(slot, slot, thr, Request)
         /\ Resume(t, [Idle EXCEPT !.slot = slot, !.thr = thr,
                         !.nr = Len(Evicted(lists[slot], Verdict(thr), Request)),
                         !.n = Len(Continued(lists[slot], Verdict(thr), Request))])
    BY DEF FirstPass
<1> DEFINE nr == Len(Evicted(lists[slot], Verdict(thr), Request))
           n == Len(Continued(lists[slot], Verdict(thr), Request))
           l == [Idle EXCEPT !.slot = slot, !.thr = thr, !.nr = nr, !.n = n]
<1> SUFFICES AfterPass(t, slot, n)
    BY <1>2
<1>3. nr \in Nat /\ n \in Nat
    BY <1>1, <1>2, IterateType
<1>4. Resume(t, l) /\ thr \in 0 .. MAX_NR_TIERS - 1
    BY <1>2, MGLRUAssumption, ConstantsType
<1> HIDE DEF slot, nr, n
<1>5. l \in ThreadStates
    BY <1>1, <1>3, <1>4, IdleState DEF ThreadStates
<1>6. l.slot = slot /\ l.n = n
    BY DEF Idle
<1> HIDE DEF l
<1> QED
    BY <1>4, <1>5, <1>6, ResumeStates DEF AfterPass

LEMMA SecondPassStep ==
    ASSUME IndInv, NEW t \in Threads, SecondPass(t)
    PROVE  AfterPass(t, th[t].slot,
                     Len(Continued(lists[lru_gen_from_seq(min_seq)], Verdict(th[t].thr),
                                   Request - th[t].nr)))
<1> DEFINE from == lru_gen_from_seq(min_seq)
           room == Request - th[t].nr
           slot == th[t].slot
           n == Len(Continued(lists[from], Verdict(th[t].thr), room))
           l == [Idle EXCEPT !.slot = slot, !.nr = Request, !.n = n]
<1>1. Types /\ slot \in Slots /\ from \in Slots
  <2>1. Types /\ min_seq \in Int /\ th[t] \in ThreadStates
      BY DEF IndInv, Types
  <2>2. slot \in Slots
      BY <2>1 DEF ThreadStates
  <2> QED
      BY <2>1, <2>2, ConstantsType
<1>2. Iterate(from, slot, th[t].thr, room) /\ Resume(t, l)
    BY DEF SecondPass
<1> HIDE DEF from, room, slot
<1>3. n \in Nat
    BY <1>1, <1>2, IterateType
<1> HIDE DEF n
<1>4. l \in ThreadStates
    BY <1>1, <1>3, IdleState, MGLRUAssumption DEF ThreadStates
<1>5. l.slot = slot /\ l.n = n
    BY DEF Idle
<1> HIDE DEF l
<1>6. AfterPass(t, slot, n)
    BY <1>2, <1>4, <1>5, ResumeStates DEF AfterPass
<1> QED
    BY <1>6 DEF from, room, slot, n

LEMMA NextIndInv == IndInv /\ [Next]_vars => IndInv'
<1> SUFFICES ASSUME IndInv, [Next]_vars PROVE IndInv'
    OBVIOUS
<1>0. Types /\ LockInv /\ HookInv
    BY DEF IndInv
<1> USE DEF kernel, seqs, metadata, history
\* The environment.
<1>1. ASSUME NEW f \in Folios, SetFlags(f)
      PROVE  IndInv'
  <2>1. Types'
      BY <1>0, <1>1 DEF SetFlags, Types
  <2>2. LockInv' /\ HookInv'
      BY <1>0, <1>1, <2>1, SameThreads DEF SetFlags, Types
  <2> QED
      BY <2>1, <2>2 DEF IndInv
<1>2. ASSUME NEW f \in Folios, FolioAccessed(f)
      PROVE  IndInv'
  <2>1. accesses' \in [Folios -> Nat]
      BY <1>0, <1>2 DEF FolioAccessed, Types
  <2>2. Types'
      BY <1>0, <1>2, <2>1 DEF FolioAccessed, Types
  <2>3. LockInv' /\ HookInv'
      BY <1>0, <1>2, <2>2, SameThreads DEF FolioAccessed, Types
  <2> QED
      BY <2>2, <2>3 DEF IndInv
\* The added hook.
<1>3. ASSUME NEW t \in Threads, NEW f \in Folios, FolioAdded(t, f)
      PROVE  IndInv'
  <2>1. th' \in [Threads -> ThreadStates] /\ LockInv' /\ HookInv'
    <3>1. UNCHANGED <<min_seq, max_seq, holder>> /\ th[t].pc # "retire"
        BY <1>3 DEF FolioAdded, At
    <3>2. CASE UNCHANGED th
        BY <1>0, <3>1, <3>2, SameThreads DEF Types
    <3>3. CASE ~UNCHANGED th
      <4>1. PICK reclaim \in BOOLEAN :
               Goto(t, [Idle EXCEPT !.pc = "add_meta", !.f = f,
                                    !.slot = lru_gen_from_seq(AddSeq(f, reclaim))])
          BY <1>3, <3>3 DEF FolioAdded
      <4> DEFINE slot == lru_gen_from_seq(AddSeq(f, reclaim))
                 new == AddState("add_meta", f, slot)
      <4>2. AddSeq(f, reclaim) \in Int
          BY <1>0, ConstantsType DEF AddSeq, Types
      <4>3. slot \in Slots
          BY <4>2, ConstantsType
      <4>4. th' = [th EXCEPT ![t] = new]
          BY <4>1 DEF Goto, AddState
      <4> HIDE DEF slot
      <4>5. new \in ThreadStates /\ GoodState(new) /\ new.pc = "add_meta"
          BY <4>3, LabelsOfHooks, AddStates
      <4> HIDE DEF new
      <4> QED
          BY <3>1, <4>4, <4>5, ThreadStep
    <3> QED
        BY <3>2, <3>3
  <2>2. Types'
      BY <1>0, <1>3, <2>1 DEF FolioAdded, Types
  <2> QED
      BY <2>1, <2>2 DEF IndInv
<1>4. ASSUME NEW t \in Threads, FolioAddedMeta(t)
      PROVE  IndInv'
  <2> DEFINE f == th[t].f
             slot == th[t].slot
             new == AddState("add_count", f, slot)
  <2>1. /\ UNCHANGED <<min_seq, max_seq, holder, cached, busy, lists, nr_pages, stale>>
        /\ th[t].pc = "add_meta"
      BY <1>4 DEF FolioAddedMeta, At
  <2>2. f \in Folios /\ slot \in Slots
      BY <1>0, <2>1, LabelsOfHooks DEF Types, ThreadStates, HookInv, GoodState
  <2>3. /\ new \in ThreadStates /\ GoodState(new) /\ new.pc = "add_count"
        /\ Idle \in ThreadStates /\ GoodState(Idle) /\ Idle.pc = "idle"
      BY <2>2, LabelsOfHooks, AddStates, IdleState
  <2>4. th' = [th EXCEPT ![t] = new] \/ th' = [th EXCEPT ![t] = Idle]
      BY <1>4 DEF FolioAddedMeta, Goto, Return, AddState
  <2>5. /\ tracked' \subseteq Folios /\ accesses' \in [Folios -> Nat]
        /\ gen' \in [Folios -> Slots]
    <3>1. \/ UNCHANGED <<tracked, accesses, gen>>
          \/ /\ tracked' = tracked \cup {f}
             /\ accesses' = [accesses EXCEPT ![f] = 1]
             /\ gen' = [gen EXCEPT ![f] = slot]
        BY <1>4 DEF FolioAddedMeta
    <3>2. tracked \subseteq Folios /\ accesses \in [Folios -> Nat] /\ gen \in [Folios -> Slots]
        BY <1>0 DEF Types
    <3> HIDE DEF f, slot
    <3>3. [accesses EXCEPT ![f] = 1] \in [Folios -> Nat]
        BY <3>2
    <3>4. [gen EXCEPT ![f] = slot] \in [Folios -> Slots]
        BY <2>2, <3>2
    <3> QED
        BY <2>2, <3>1, <3>2, <3>3, <3>4
  <2>6. overwritten' \in [Slots -> Nat]
    <3>1. UNCHANGED overwritten \/ overwritten' = [overwritten EXCEPT ![gen[f]] = @ + 1]
        BY <1>4 DEF FolioAddedMeta
    <3>2. overwritten \in [Slots -> Nat] /\ gen[f] \in Slots
        BY <1>0, <2>2 DEF Types
    <3>3. [overwritten EXCEPT ![gen[f]] = @ + 1] \in [Slots -> Nat]
        BY <3>2
    <3> QED
        BY <3>1, <3>2, <3>3
  <2> HIDE DEF f, slot, new
  <2>7. th' \in [Threads -> ThreadStates] /\ LockInv' /\ HookInv'
      BY <2>1, <2>3, <2>4, ThreadStep
  <2>8. Types'
      BY <1>0, <2>1, <2>5, <2>6, <2>7 DEF Types
  <2> QED
      BY <2>7, <2>8 DEF IndInv
<1>5. ASSUME NEW t \in Threads, FolioAddedCount(t)
      PROVE  IndInv'
  <2> DEFINE slot == th[t].slot
             new == AddState("add_list", th[t].f, slot)
  <2>1. th[t].pc = "add_count" /\ th' = [th EXCEPT ![t] = new]
        /\ nr_pages' = PagesMore(slot)
        /\ UNCHANGED <<min_seq, max_seq, holder, cached, busy, lists, tracked, accesses,
                       gen, overwritten, stale>>
      BY <1>5 DEF FolioAddedCount, At, Goto, AddState
  <2>2. th[t].f \in Folios /\ slot \in Slots
      BY <1>0, <2>1, LabelsOfHooks DEF Types, ThreadStates, HookInv, GoodState
  <2>3. new \in ThreadStates /\ GoodState(new) /\ new.pc = "add_list"
      BY <2>2, LabelsOfHooks, AddStates
  <2>4. nr_pages' \in [Slots -> Int]
      BY <1>0, <2>1, <2>2, PagesType
  <2> HIDE DEF slot, new
  <2>5. th' \in [Threads -> ThreadStates] /\ LockInv' /\ HookInv'
      BY <2>1, <2>3, ThreadStep
  <2>6. Types'
      BY <1>0, <2>1, <2>4, <2>5 DEF Types
  <2> QED
      BY <2>5, <2>6 DEF IndInv
<1>6. ASSUME NEW t \in Threads, FolioAddedList(t)
      PROVE  IndInv'
  <2> DEFINE f == th[t].f
             slot == th[t].slot
  <2>1. UNCHANGED <<min_seq, max_seq, holder>> /\ th[t].pc = "add_list"
      BY <1>6 DEF FolioAddedList, At
  <2>2. f \in Folios /\ slot \in Slots
      BY <1>0, <2>1, LabelsOfHooks DEF Types, ThreadStates, HookInv, GoodState
  <2>3. th' = [th EXCEPT ![t] = Idle]
      BY <1>6 DEF FolioAddedList, Return
  <2>4. th' \in [Threads -> ThreadStates] /\ LockInv' /\ HookInv'
      BY <2>1, <2>3, IdleState, ThreadStep
  <2>5. lists' \in [Slots -> Seq(Folios)]
    <3>1. UNCHANGED lists \/ lists' = [lists EXCEPT ![slot] = ListAdd(lists[slot], f)]
        BY <1>6 DEF FolioAddedList
    <3>2. ListAdd(lists[slot], f) \in Seq(Folios)
        BY <1>0, <2>2, AddProperties DEF Types
    <3> HIDE DEF f, slot
    <3> QED
        BY <1>0, <2>2, <3>1, <3>2 DEF Types
  <2>6. Types'
      BY <1>0, <1>6, <2>4, <2>5 DEF FolioAddedList, Types
  <2> QED
      BY <2>4, <2>6 DEF IndInv
\* The evicted hook.
<1>7. ASSUME NEW t \in Threads, NEW f \in Folios, FolioEvicted(t, f)
      PROVE  IndInv'
  <2> DEFINE new == EvictedState("evicted", f)
  <2>1. lists' \in [Slots -> Seq(Folios)]
    <3>1. \A s \in Slots : ListDel(lists[s], f) \in Seq(Folios)
        BY <1>0, DelProperties DEF Types
    <3> QED
        BY <1>7, <3>1 DEF FolioEvicted
  <2>2. /\ UNCHANGED <<min_seq, max_seq, holder>> /\ th[t].pc # "retire"
        /\ UNCHANGED th \/ th' = [th EXCEPT ![t] = new]
      BY <1>7 DEF FolioEvicted, At, Goto, EvictedState
  <2>3. new \in ThreadStates /\ GoodState(new) /\ new.pc = "evicted"
      BY LabelsOfHooks, EvictedStates
  <2> HIDE DEF new
  <2>4. th' \in [Threads -> ThreadStates] /\ LockInv' /\ HookInv'
      BY <1>0, <2>2, <2>3, ThreadStep, SameThreads DEF Types
  <2>5. Types'
      BY <1>0, <1>7, <2>1, <2>4 DEF FolioEvicted, Types
  <2> QED
      BY <2>4, <2>5 DEF IndInv
<1>8. ASSUME NEW t \in Threads, FolioEvictedCount(t)
      PROVE  IndInv'
  <2> DEFINE new == EvictedState("evicted_forget", th[t].f)
  <2>1. /\ th[t].pc = "evicted" /\ th' = [th EXCEPT ![t] = new]
        /\ nr_pages' = PagesLess(gen[th[t].f])
        /\ UNCHANGED <<min_seq, max_seq, holder, cached, busy, lists, tracked, accesses,
                       gen, overwritten, stale>>
      BY <1>8 DEF FolioEvictedCount, PagesAfterEvicted, At, Goto, EvictedState
  <2>2. th[t].f \in Folios
      BY <1>0, <2>1, LabelsOfHooks DEF HookInv, GoodState
  <2>3. gen[th[t].f] \in Slots
      BY <1>0, <2>2 DEF Types
  <2>4. nr_pages' \in [Slots -> Int]
      BY <1>0, <2>1, <2>3, PagesType
  <2>5. new \in ThreadStates /\ GoodState(new) /\ new.pc = "evicted_forget"
      BY <2>2, LabelsOfHooks, EvictedStates
  <2> HIDE DEF new
  <2>6. th' \in [Threads -> ThreadStates] /\ LockInv' /\ HookInv'
      BY <2>1, <2>5, ThreadStep
  <2>7. Types'
      BY <1>0, <2>1, <2>4, <2>6 DEF Types
  <2> QED
      BY <2>6, <2>7 DEF IndInv
<1>9. ASSUME NEW t \in Threads, FolioEvictedForget(t)
      PROVE  IndInv'
  <2> DEFINE f == th[t].f
  <2>1. /\ th[t].pc = "evicted_forget" /\ th' = [th EXCEPT ![t] = Idle]
        /\ tracked' = tracked \ {f}
        /\ accesses' = [accesses EXCEPT ![f] = 0]
        /\ gen' = [gen EXCEPT ![f] = 0]
        /\ UNCHANGED <<min_seq, max_seq, holder, cached, busy, lists, nr_pages,
                       overwritten, stale>>
      BY <1>9 DEF FolioEvictedForget, At, Return
  <2> HIDE DEF f
  <2>2. th' \in [Threads -> ThreadStates] /\ LockInv' /\ HookInv'
      BY <2>1, IdleState, ThreadStep
  <2>3. 0 \in Slots
      BY ConstantsType
  <2>4. tracked' \subseteq Folios /\ accesses' \in [Folios -> Nat] /\ gen' \in [Folios -> Slots]
      BY <1>0, <2>1, <2>3 DEF Types
  <2>5. Types'
      BY <1>0, <2>1, <2>2, <2>4 DEF Types
  <2> QED
      BY <2>2, <2>5 DEF IndInv
\* The two critical steps.
<1>10. ASSUME NEW t \in Threads, Age(t)
      PROVE  IndInv'
  <2> DEFINE new == RetireState(min_seq, max_seq)
  <2>1. /\ holder = NoFolio /\ holder' = t
        /\ UNCHANGED <<cached, busy, lists, nr_pages, tracked, accesses, gen,
                       overwritten, stale>>
      BY <1>10 DEF Age
  <2>2. min_seq \in Nat /\ max_seq \in Nat /\ max_seq - min_seq >= 2 /\ max_seq - min_seq < 4
      BY <1>0, ConstantsType DEF Types, LockInv, SeqWindow
  <2>3. /\ min_seq' = min_seq
        /\ \/ max_seq' = max_seq
           \/ max_seq' = max_seq + 1 /\ max_seq - min_seq = 2
    <3>1. CASE should_run_aging
      <4>1. max_seq - min_seq = 2
          BY <2>2, <3>1, ConstantsType DEF should_run_aging
      <4>2. get_nr_gens # MAX_NR_GENS
          BY <2>2, <4>1, ConstantsType DEF get_nr_gens
      <4> QED
          BY <1>10, <3>1, <4>1, <4>2 DEF Age, IncMaxSeq
    <3>2. CASE ~should_run_aging
        BY <1>10, <3>2 DEF Age
    <3> QED
        BY <3>1, <3>2
  <2>4. th' = [th EXCEPT ![t] = new]
      BY <1>10 DEF Age, Goto, RetireState
  <2>5. /\ new \in ThreadStates /\ new.pc = "retire" /\ GoodState(new)
        /\ new.lo = min_seq /\ new.hi = max_seq
      BY <2>2, RetireStates
  <2> HIDE DEF new
  <2>6. th \in [Threads -> ThreadStates] /\ th' \in [Threads -> ThreadStates]
        /\ th'[t] = new /\ \A u \in Threads : u # t => th'[u] = th[u]
      BY <1>0, <2>4, <2>5 DEF Types
  <2>7. Types'
      BY <1>0, <2>1, <2>2, <2>3, <2>6 DEF Types
  <2>8. SeqWindow'
      BY <2>2, <2>3, ConstantsType DEF SeqWindow
  <2>9. \A u \in Threads : th[u].pc # "retire"
      BY <1>0, <2>1, MGLRUAssumption DEF LockInv, At
  <2>10. \A u \in Threads : u # t => th'[u].pc # "retire"
      BY <2>6, <2>9
  <2>11. \/ th'[t].hi = max_seq'
         \/ th'[t].hi = max_seq' - 1 /\ th'[t].hi - th'[t].lo = MIN_NR_GENS
      BY <2>2, <2>3, <2>5, <2>6, ConstantsType
  <2>12. th'[t].lo = min_seq' /\ th'[t].pc = "retire"
      BY <2>3, <2>5, <2>6
  <2>13. LockInv'
      BY <2>1, <2>8, <2>10, <2>11, <2>12 DEF LockInv, At
  <2>14. HookInv'
      BY <1>0, <2>5, <2>6 DEF HookInv
  <2> QED
      BY <2>7, <2>13, <2>14 DEF IndInv
<1>11. ASSUME NEW t \in Threads, Retire(t)
      PROVE  IndInv'
  <2> DEFINE slot == lru_gen_from_seq(min_seq')
             new == Pass1State(slot)
  <2>1. /\ holder' = NoFolio /\ th[t].pc = "retire"
        /\ UNCHANGED <<cached, busy, max_seq, lists, nr_pages, tracked, accesses,
                       gen, overwritten, stale>>
      BY <1>11 DEF Retire, At
  <2>2. min_seq \in Nat /\ max_seq \in Nat /\ max_seq - min_seq >= 2 /\ max_seq - min_seq < 4
      BY <1>0, ConstantsType DEF Types, LockInv, SeqWindow
  <2>3. /\ th[t].lo = min_seq
        /\ \/ th[t].hi = max_seq
           \/ th[t].hi = max_seq - 1 /\ th[t].hi - th[t].lo = 2
      BY <1>0, <2>1, ConstantsType DEF LockInv, At
  <2>4. \/ min_seq' = min_seq
        \/ min_seq' = min_seq + 1 /\ max_seq - min_seq > 2
    <3>1. CASE Retires(t)
      <4>1. th[t].hi - th[t].lo > 2
          BY <3>1, ConstantsType DEF Retires
      <4>2. max_seq - min_seq > 2
          BY <2>2, <2>3, <4>1
      <4> QED
          BY <1>11, <3>1, <4>2 DEF Retire
    <3>2. CASE ~Retires(t)
        BY <1>11, <3>2 DEF Retire
    <3> QED
        BY <3>1, <3>2
  <2>5. min_seq' \in Nat /\ SeqWindow'
      BY <2>1, <2>2, <2>4, ConstantsType DEF SeqWindow
  <2>6. slot \in Slots
      BY <2>5, ConstantsType
  <2>7. th' = [th EXCEPT ![t] = new]
      BY <1>11 DEF Retire, Goto, Pass1State
  <2> HIDE DEF slot
  <2>8. new \in ThreadStates
      BY <2>6, Pass1States
  <2>9. new.pc = "pass1" /\ GoodState(new)
      BY <2>6, Pass1States
  <2> HIDE DEF new
  <2>10. th \in [Threads -> ThreadStates] /\ th' \in [Threads -> ThreadStates]
         /\ th'[t] = new /\ \A u \in Threads : u # t => th'[u] = th[u]
      BY <1>0, <2>7, <2>8 DEF Types
  <2>11. Types'
      BY <1>0, <2>1, <2>5, <2>10 DEF Types
  <2>12. \A u \in Threads : th'[u].pc # "retire" /\ holder' # u
    <3>1. \A u \in Threads : u # t => th[u].pc # "retire"
        BY <1>0, <2>1 DEF LockInv, At
    <3> QED
        BY <2>1, <2>9, <2>10, <3>1, MGLRUAssumption
  <2>13. LockInv'
      BY <2>5, <2>12 DEF LockInv, At
  <2>14. HookInv'
      BY <1>0, <2>9, <2>10 DEF HookInv
  <2> QED
      BY <2>11, <2>13, <2>14 DEF IndInv
\* The passes over the lists, and the page counts that follow.
<1>12. ASSUME NEW t \in Threads, FirstPass(t)
       PROVE  IndInv'
  <2>1. /\ th[t].pc = "pass1" /\ th[t].slot \in Slots
        /\ UNCHANGED <<cached, busy, min_seq, max_seq, holder, nr_pages, tracked, accesses,
                       overwritten, stale>>
      BY <1>0, <1>12 DEF FirstPass, At, Types, ThreadStates
  <2>2. PICK thr \in Thresholds :
           /\ Iterate(th[t].slot, th[t].slot, thr, Request)
           /\ AfterPass(t, th[t].slot,
                        Len(Continued(lists[th[t].slot], Verdict(thr), Request)))
      BY <1>12, FirstPassStep
  <2>3. lists' \in [Slots -> Seq(Folios)] /\ gen' \in [Folios -> Slots]
      BY <1>0, <2>1, <2>2, IterateType
  <2>4. th' \in [Threads -> ThreadStates] /\ LockInv' /\ HookInv'
      BY <2>1, <2>2, ThreadStep DEF AfterPass
  <2>5. Types'
      BY <1>0, <2>1, <2>3, <2>4 DEF Types
  <2> QED
      BY <2>4, <2>5 DEF IndInv
<1>13. ASSUME NEW t \in Threads, SecondPass(t)
       PROVE  IndInv'
  <2> DEFINE from == lru_gen_from_seq(min_seq)
             room == Request - th[t].nr
  <2>1. /\ th[t].pc = "pass2" /\ th[t].slot \in Slots
        /\ Iterate(from, th[t].slot, th[t].thr, room)
        /\ stale' \in BOOLEAN
        /\ UNCHANGED <<cached, busy, min_seq, max_seq, holder, nr_pages, tracked, accesses,
                       overwritten>>
      BY <1>0, <1>13 DEF SecondPass, At, Types, ThreadStates
  <2>2. from \in Slots
      BY <1>0, ConstantsType DEF Types
  <2> HIDE DEF from, room
  <2>3. lists' \in [Slots -> Seq(Folios)] /\ gen' \in [Folios -> Slots]
      BY <1>0, <2>1, <2>2, IterateType
  <2>4. th' \in [Threads -> ThreadStates] /\ LockInv' /\ HookInv'
      BY <1>13, <2>1, SecondPassStep, ThreadStep DEF AfterPass
  <2>5. Types'
      BY <1>0, <2>1, <2>3, <2>4 DEF Types
  <2> QED
      BY <2>4, <2>5 DEF IndInv
<1>14. ASSUME NEW t \in Threads, CountDown(t)
       PROVE  IndInv'
  <2> DEFINE new == [th[t] EXCEPT !.pc = "count_up", !.n = @ - 1]
  <2>1. /\ th[t].pc = "count_down" /\ th' = [th EXCEPT ![t] = new]
        /\ nr_pages' = PagesLess(th[t].slot)
        /\ UNCHANGED <<min_seq, max_seq, holder, cached, busy, lists, tracked, accesses,
                       gen, overwritten, stale>>
      BY <1>14 DEF CountDown, PagesDown, At, Goto
  <2>2. th[t] \in ThreadStates /\ th[t].n > 0
      BY <1>0, <2>1 DEF Types, HookInv, GoodState
  <2>3. th[t].slot \in Slots
      BY <2>2 DEF ThreadStates
  <2>4. nr_pages' \in [Slots -> Int]
      BY <1>0, <2>1, <2>3, PagesType
  <2>5. new \in ThreadStates /\ new.pc = "count_up"
    <3>1. th[t].n - 1 \in Nat /\ "count_up" \in Labels
        BY <2>2 DEF ThreadStates, Labels
    <3> QED
        BY <2>2, <3>1 DEF ThreadStates
  <2>6. GoodState(new)
      BY <2>5, LabelsOfHooks DEF GoodState
  <2> HIDE DEF new
  <2>7. th' \in [Threads -> ThreadStates] /\ LockInv' /\ HookInv'
      BY <2>1, <2>5, <2>6, ThreadStep
  <2>8. Types'
      BY <1>0, <2>1, <2>4, <2>7 DEF Types
  <2> QED
      BY <2>7, <2>8 DEF IndInv
<1>15. ASSUME NEW t \in Threads, CountUp(t)
       PROVE  IndInv'
  <2>1. /\ th[t].pc = "count_up" /\ Resume(t, th[t])
        /\ nr_pages' = PagesMore(NextSlot(th[t].slot))
        /\ UNCHANGED <<min_seq, max_seq, holder, cached, busy, lists, tracked, accesses,
                       gen, overwritten, stale>>
      BY <1>15 DEF CountUp, At
  <2>2. th[t] \in ThreadStates
      BY <1>0 DEF Types
  <2>3. NextSlot(th[t].slot) \in Slots
      BY <2>2, ConstantsType DEF ThreadStates
  <2>4. nr_pages' \in [Slots -> Int]
      BY <1>0, <2>1, <2>3, PagesType
  <2>5. th' \in [Threads -> ThreadStates] /\ LockInv' /\ HookInv'
      BY <2>1, <2>2, ResumeStates, ThreadStep
  <2>6. Types'
      BY <1>0, <2>1, <2>4, <2>5 DEF Types
  <2> QED
      BY <2>5, <2>6 DEF IndInv
<1>16. ASSUME NEW t \in Threads, IterationFails(t)
       PROVE  IndInv'
  <2>1. /\ th[t].pc # "retire" /\ th' = [th EXCEPT ![t] = Idle]
        /\ UNCHANGED <<cached, busy, min_seq, max_seq, holder, lists, nr_pages,
                       tracked, accesses, gen, overwritten, stale>>
      BY <1>16 DEF IterationFails, At, Return, kernel, seqs, metadata, history
  <2>2. th' \in [Threads -> ThreadStates] /\ LockInv' /\ HookInv'
      BY <2>1, IdleState, ThreadStep
  <2>3. Types'
      BY <1>0, <2>1, <2>2 DEF Types
  <2> QED
      BY <2>2, <2>3 DEF IndInv
<1>17. CASE UNCHANGED vars
  <2>1. Types'
      BY <1>0, <1>17 DEF vars, Types
  <2>2. LockInv' /\ HookInv'
      BY <1>17, SameThreads DEF vars
  <2> QED
      BY <2>1, <2>2 DEF IndInv
<1> QED
    BY <1>1, <1>2, <1>3, <1>4, <1>5, <1>6, <1>7, <1>8, <1>9, <1>10, <1>11, <1>12,
       <1>13, <1>14, <1>15, <1>16, <1>17 DEF Next

-----------------------------------------------------------------------------
LEMMA Inductive == Spec => []IndInv
<1>1. Init => IndInv
    BY InitIndInv
<1>2. IndInv /\ [Next]_vars => IndInv'
    BY NextIndInv
<1> QED
    BY <1>1, <1>2, PTL DEF Spec

\* However many reclaimers run mglru_evict_folios, there are three or four
\* generations: between min_seq and max_seq eviction always keeps MIN_NR_GENS, and
\* the ring of MAX_NR_GENS lists never wraps onto itself.
THEOREM SeqWindowHolds == Spec => []SeqWindow
<1>1. IndInv => SeqWindow
    BY DEF IndInv, LockInv
<1> QED
    BY <1>1, Inductive, PTL

-----------------------------------------------------------------------------
(***************************************************************************)
(* Where a folio may be, whatever the page counts and generations say, and  *)
(* the refinement of PagePolicy.                                            *)
(***************************************************************************)

addingFolios == {f \in Folios : Adding(f)}
listedFolios == UNION {ToSet(lists[s]) : s \in Slots}

\* The folio lock: no two threads add or remove the same folio.
Exclusive ==
    \A t, u \in Threads :
        t # u /\ th[t].pc \in LockedLabels /\ th[u].pc \in LockedLabels => th[t].f # th[u].f

\* What a hook knows of its folio: while it is added it is cached and not linked
\* yet, and the metadata the hook has stored names its slot; while it is removed
\* it has metadata and has left the page cache.
Knows(t) ==
    /\ th[t].pc \in AddLabels => th[t].f \in cached /\ th[t].f \notin listedFolios
    /\ th[t].pc \in {"add_count", "add_list"} =>
          th[t].f \in tracked /\ gen[th[t].f] = th[t].slot
    /\ th[t].pc \in EvictedLabels => th[t].f \in tracked /\ th[t].f \notin cached

\* Finitely many threads are inside a hook or an eviction, however many there are.
Active == {t \in Threads : th[t].pc # "idle"}

PlaceInv ==
    /\ Exclusive
    /\ \A t \in Threads : Knows(t)
    /\ ListedOnce
    /\ IsFiniteSet(Active)

\* A stutter of the abstract policy.
Stutter == UNCHANGED <<cached, addingFolios, listedFolios>>

Refines == PlaceInv' /\ (Policy!Next \/ Stutter)

\* A thread keeps its folio, gives it up, or takes one that no other thread has.
LEMMA ExclusiveStep ==
    ASSUME IndInv, PlaceInv, NEW t \in Threads, NEW new, th' = [th EXCEPT ![t] = new],
           new.pc \in LockedLabels =>
              \/ th[t].pc \in LockedLabels /\ new.f = th[t].f
              \/ \A u \in Threads : th[u].pc \in LockedLabels => th[u].f # new.f
    PROVE  Exclusive' /\ IsFiniteSet(Active)'
<1>1. th'[t] = new /\ \A u \in Threads : u # t => th'[u] = th[u]
    BY DEF IndInv, Types
<1>2. Exclusive'
    BY <1>1 DEF PlaceInv, Exclusive
<1>3. Active' \in SUBSET (Active \cup {t})
    BY <1>1 DEF Active
<1>4. IsFiniteSet(Active \cup {t})
    BY FS_AddElement DEF PlaceInv
<1>5. IsFiniteSet(Active')
    BY <1>3, <1>4, FS_Subset
<1> QED
    BY <1>2, <1>5

\* What a step of one thread does to the folios being added.
LEMMA AddingStep ==
    ASSUME IndInv, PlaceInv, NEW t \in Threads, NEW new, th' = [th EXCEPT ![t] = new]
    PROVE  /\ th[t].pc \notin AddLabels /\ new.pc \notin AddLabels
                => addingFolios' = addingFolios
           /\ th[t].pc \in AddLabels /\ new.pc \in AddLabels /\ new.f = th[t].f
                => addingFolios' = addingFolios
           /\ th[t].pc \notin AddLabels /\ new.pc \in AddLabels /\ new.f \in Folios
                => addingFolios' = addingFolios \cup {new.f}
           /\ th[t].pc \in AddLabels /\ new.pc \notin AddLabels
                => addingFolios' = addingFolios \ {th[t].f}
<1> DEFINE others == {f \in Folios : \E u \in Threads \ {t} : th[u].f = f /\ th[u].pc \in AddLabels}
<1>1. th'[t] = new /\ \A u \in Threads : u # t => th'[u] = th[u]
    BY DEF IndInv, Types
<1>2. addingFolios = others \cup {f \in Folios : th[t].f = f /\ th[t].pc \in AddLabels}
    BY DEF addingFolios, Adding
<1>3. addingFolios' = others \cup {f \in Folios : new.f = f /\ new.pc \in AddLabels}
    BY <1>1 DEF addingFolios, Adding
<1>4. th[t].pc \in AddLabels => th[t].f \in Folios /\ th[t].f \notin others
    BY DEF IndInv, HookInv, GoodState, PlaceInv, Exclusive, LockedLabels
<1> HIDE DEF others
<1> QED
    BY <1>2, <1>3, <1>4

\* Threads other than t keep what they know when a step touches only folios that
\* are not theirs.
LEMMA OthersKnow ==
    ASSUME IndInv, PlaceInv, NEW t \in Threads, \A u \in Threads \ {t} : th'[u] = th[u],
           NEW f, \A u \in Threads \ {t} : th[u].pc \in LockedLabels => th[u].f # f,
           \A g \in Folios \ {f} :
              /\ g \in cached' <=> g \in cached
              /\ g \in tracked' <=> g \in tracked
              /\ g \notin listedFolios => g \notin listedFolios' /\ gen'[g] = gen[g]
    PROVE  \A u \in Threads \ {t} : Knows(u)'
<1> SUFFICES ASSUME NEW u \in Threads \ {t} PROVE Knows(u)'
    OBVIOUS
<1>1. th'[u] = th[u] /\ Knows(u)
    BY DEF PlaceInv
<1>2. CASE th[u].pc \in AddLabels
  <2>1. th[u].f \in Folios \ {f} /\ th[u].pc \notin EvictedLabels
      BY <1>2, LabelsOfHooks DEF IndInv, HookInv, GoodState
  <2> QED
      BY <1>1, <1>2, <2>1 DEF Knows
<1>3. CASE th[u].pc \in EvictedLabels
  <2>1. th[u].f \in Folios \ {f} /\ th[u].pc \notin AddLabels
        /\ th[u].pc \notin {"add_count", "add_list"}
      BY <1>3, LabelsOfHooks DEF IndInv, HookInv, GoodState
  <2> QED
      BY <1>1, <1>3, <2>1 DEF Knows
<1>4. CASE th[u].pc \notin AddLabels /\ th[u].pc \notin EvictedLabels
  <2>1. th[u].pc \notin {"add_count", "add_list"}
      BY <1>4, LabelsOfHooks
  <2> QED
      BY <1>1, <1>4, <2>1 DEF Knows
<1> QED
    BY <1>2, <1>3, <1>4

\* Lists that do not change keep their folios, listed once.
LEMMA SameLists ==
    ASSUME PlaceInv, UNCHANGED lists, cached \subseteq cached'
    PROVE  ListedOnce' /\ listedFolios' = listedFolios
BY DEF PlaceInv, ListedOnce, listedFolios

\* A step of a thread outside the hooks, which takes no folio off the lists.
LEMMA QuietRefines ==
    ASSUME IndInv, PlaceInv, UNCHANGED <<cached, tracked>>,
           ListedOnce', listedFolios' = listedFolios,
           \A g \in Folios \ listedFolios : gen'[g] = gen[g],
           \/ UNCHANGED th
           \/ \E t \in Threads : \E new :
                 /\ th' = [th EXCEPT ![t] = new]
                 /\ th[t].pc \notin LockedLabels /\ new.pc \notin LockedLabels
    PROVE  Refines
<1>1. Exclusive' /\ IsFiniteSet(Active)' /\ addingFolios' = addingFolios
      /\ \A u \in Threads : th'[u] = th[u] \/ th'[u].pc \notin LockedLabels
  <2>1. CASE UNCHANGED th
      BY <2>1 DEF PlaceInv, Exclusive, Active, addingFolios, Adding
  <2>2. ASSUME NEW t \in Threads, NEW new, th' = [th EXCEPT ![t] = new],
               th[t].pc \notin LockedLabels, new.pc \notin LockedLabels
        PROVE  Exclusive' /\ IsFiniteSet(Active)' /\ addingFolios' = addingFolios
               /\ \A u \in Threads : th'[u] = th[u] \/ th'[u].pc \notin LockedLabels
    <3>1. th[t].pc \notin AddLabels /\ new.pc \notin AddLabels
        BY <2>2 DEF LockedLabels
    <3>2. \A u \in Threads : th'[u] = IF u = t THEN new ELSE th[u]
        BY <2>2 DEF IndInv, Types
    <3>3. addingFolios' = addingFolios
        BY <2>2, <3>1, AddingStep
    <3>4. Exclusive' /\ IsFiniteSet(Active)'
        BY <2>2, ExclusiveStep
    <3> QED
        BY <2>2, <3>2, <3>3, <3>4
  <2> QED
      BY <2>1, <2>2
<1>2. ASSUME NEW u \in Threads PROVE Knows(u)'
  <2>1. CASE th'[u].pc \notin LockedLabels
      BY <2>1, LabelsOfHooks DEF Knows
  <2>2. CASE th'[u] = th[u] /\ th[u].pc \in LockedLabels
    <3>1. Knows(u) /\ th[u].f \in Folios
        BY <2>2 DEF PlaceInv, IndInv, HookInv, GoodState
    <3> QED
        BY <2>2, <3>1, LabelsOfHooks DEF Knows
  <2> QED
      BY <1>1, <2>1, <2>2
<1> QED
    BY <1>1, <1>2 DEF Refines, Stutter, PlaceInv

\* An iteration loses no folio and brings none: what it passes over is on the
\* following list, all the rest stays on its own.
LEMMA IterateKeepsListed ==
    ASSUME IndInv, PlaceInv, UNCHANGED cached,
           NEW from \in Slots, NEW curr \in Slots, NEW thr, NEW room,
           Iterate(from, curr, thr, room)
    PROVE  /\ ListedOnce' /\ listedFolios' = listedFolios
           /\ \A g \in Folios \ listedFolios : gen'[g] = gen[g]
<1> DEFINE next == NextSlot(from)
           continued == Continued(lists[from], Verdict(thr), room)
           evicted == Evicted(lists[from], Verdict(thr), room)
           unvisited == Unvisited(lists[from], Verdict(thr), room)
<1>1. /\ next \in Slots /\ next # from
    BY ConstantsType DEF NextSlot
<1>2. lists \in [Slots -> Seq(Folios)]
    BY DEF IndInv, Types
<1>3. /\ continued \in Seq(Folios) /\ evicted \in Seq(Folios) /\ unvisited \in Seq(Folios)
      /\ ToSet(lists[from]) = ToSet(evicted) \cup ToSet(continued) \cup ToSet(unvisited)
    BY <1>2, IterationProperties
<1>4. lists' = [s \in Slots |-> CASE s = from -> unvisited \o evicted
                                   [] s = next -> lists[s] \o continued
                                   [] OTHER -> lists[s]]
    BY DEF Iterate
<1> HIDE DEF next, continued, evicted, unvisited
<1>5. /\ lists'[from] = unvisited \o evicted /\ lists'[next] = lists[next] \o continued
      /\ \A s \in Slots : s # from /\ s # next => lists'[s] = lists[s]
    BY <1>1, <1>4
<1>6. /\ ToSet(lists'[from]) = ToSet(unvisited) \cup ToSet(evicted)
      /\ ToSet(lists'[next]) = ToSet(lists[next]) \cup ToSet(continued)
    BY <1>1, <1>2, <1>3, <1>5, ToSetConcat
<1>7. \A f : (\E s \in Slots : f \in ToSet(lists'[s])) <=> \E s \in Slots : f \in ToSet(lists[s])
    BY <1>1, <1>3, <1>5, <1>6
<1>8. /\ IsInjective(lists[from]) /\ IsInjective(lists[next])
      /\ ToSet(lists[from]) \cap ToSet(lists[next]) = {}
    BY <1>1 DEF PlaceInv, ListedOnce
<1>9. /\ IsInjective(continued) /\ IsInjective(evicted) /\ IsInjective(unvisited)
      /\ ToSet(unvisited) \cap (ToSet(evicted) \cup ToSet(continued)) = {}
      /\ ToSet(evicted) \cap ToSet(continued) = {}
  <2>1. ToSet(Visited(lists[from], Verdict(thr), room)) = ToSet(evicted) \cup ToSet(continued)
      BY <1>2, IterationProperties DEF evicted, continued
  <2> QED
      BY <1>2, <1>8, <2>1, IterationInjective DEF evicted, continued, unvisited
<1>10. IsInjective(lists'[from]) /\ IsInjective(lists'[next])
  <2>1. IsInjective(unvisited \o evicted)
      BY <1>3, <1>9, ConcatInjective
  <2>2. IsInjective(lists[next] \o continued)
      BY <1>1, <1>2, <1>3, <1>8, <1>9, ConcatInjective
  <2> QED
      BY <1>5, <2>1, <2>2
<1>11. \A s \in Slots : IsInjective(lists'[s]) /\ ToSet(lists'[s]) \subseteq cached'
  <2>1. \A s \in Slots : IsInjective(lists[s]) /\ ToSet(lists[s]) \subseteq cached
      BY DEF PlaceInv, ListedOnce
  <2> QED
      BY <1>1, <1>3, <1>5, <1>6, <1>10, <2>1
<1>12. \A s, r \in Slots : s # r => ToSet(lists'[s]) \cap ToSet(lists'[r]) = {}
  <2>1. \A s, r \in Slots : s # r => ToSet(lists[s]) \cap ToSet(lists[r]) = {}
      BY DEF PlaceInv, ListedOnce
  <2>2. ToSet(lists'[from]) \cap ToSet(lists'[next]) = {}
      BY <1>3, <1>6, <1>8, <1>9
  <2>3. ASSUME NEW s \in Slots, s # from, s # next
        PROVE  /\ ToSet(lists'[s]) \cap ToSet(lists'[from]) = {}
               /\ ToSet(lists'[s]) \cap ToSet(lists'[next]) = {}
    <3>1. /\ lists'[s] = lists[s] /\ ToSet(lists[s]) \cap ToSet(lists[from]) = {}
          /\ ToSet(lists[s]) \cap ToSet(lists[next]) = {}
        BY <1>1, <1>5, <2>1, <2>3
    <3> QED
        BY <1>3, <1>6, <3>1
  <2> QED
      BY <1>1, <1>5, <2>1, <2>2, <2>3
<1>13. \A g \in Folios \ listedFolios : gen'[g] = gen[g]
  <2>1. gen' = [f \in Folios |-> IF f \in ToSet(continued) THEN NextSlot(curr) ELSE gen[f]]
      BY DEF Iterate, GenAfterPromotion, continued
  <2> QED
      BY <1>3, <2>1 DEF listedFolios
<1> QED
    BY <1>7, <1>11, <1>12, <1>13 DEF ListedOnce, listedFolios

LEMMA FolioAddedRefines ==
    ASSUME IndInv, PlaceInv, NEW t \in Threads, NEW f \in Folios, FolioAdded(t, f)
    PROVE  Refines
<1>1. /\ th[t].pc = "idle" /\ f \notin cached /\ f \notin addingFolios
      /\ \A u \in Threads : th[u].pc \in LockedLabels => th[u].f # f
      /\ cached' = cached \cup {f} /\ UNCHANGED <<lists, tracked, gen>>
    BY DEF FolioAdded, At, Adding, Removing, addingFolios, LockedLabels, metadata
<1>2. ListedOnce' /\ listedFolios' = listedFolios
    BY <1>1, SameLists
<1>3. f \notin listedFolios
    BY <1>1 DEF PlaceInv, ListedOnce, listedFolios
<1>4. \A u \in Threads \ {t} : th'[u] = th[u]
    BY DEF FolioAdded, Goto, IndInv, Types
<1>5. \A u \in Threads \ {t} : Knows(u)'
    BY <1>1, <1>2, <1>4, OthersKnow
<1>6. CASE UNCHANGED th
  <2>1. Exclusive' /\ IsFiniteSet(Active)' /\ addingFolios' = addingFolios
      BY <1>6 DEF PlaceInv, Exclusive, Active, addingFolios, Adding
  <2>2. Knows(t)'
      BY <1>1, <1>6, LabelsOfHooks DEF Knows
  <2>3. Policy!Enter(f)
      BY <1>1, <1>2, <2>1 DEF Policy!Enter, addingFolios, listedFolios
  <2> QED
      BY <1>2, <1>5, <2>1, <2>2, <2>3 DEF PlaceInv, Refines, Policy!Next
<1>7. CASE ~UNCHANGED th
  <2>1. PICK slot : th' = [th EXCEPT ![t] = AddState("add_meta", f, slot)]
      BY <1>7 DEF FolioAdded, Goto, AddState
  <2>2. PICK new : new = AddState("add_meta", f, slot)
      OBVIOUS
  <2>3. th' = [th EXCEPT ![t] = new] /\ new.pc = "add_meta" /\ new.f = f
      BY <2>1, <2>2 DEF AddState, Idle
  <2>4. th'[t] = new
      BY <2>3 DEF IndInv, Types
  <2>5. Exclusive' /\ IsFiniteSet(Active)' /\ addingFolios' = addingFolios \cup {f}
    <3>1. Exclusive' /\ IsFiniteSet(Active)'
        BY <1>1, <2>3, ExclusiveStep
    <3>2. th[t].pc \notin AddLabels /\ new.pc \in AddLabels
        BY <1>1, <2>3, LabelsOfHooks
    <3> QED
        BY <2>3, <3>1, <3>2, AddingStep
  <2>6. Knows(t)'
      BY <1>1, <1>2, <1>3, <2>3, <2>4, LabelsOfHooks DEF Knows
  <2>7. Policy!Enter(f)
      BY <1>1, <1>2, <2>5 DEF Policy!Enter, addingFolios, listedFolios
  <2> QED
      BY <1>2, <1>5, <2>5, <2>6, <2>7 DEF PlaceInv, Refines, Policy!Next
<1> QED
    BY <1>6, <1>7

\* The thread of an added hook: its folio is cached, on no list, and its alone.
LEMMA AdderFolio ==
    ASSUME IndInv, PlaceInv, NEW t \in Threads, th[t].pc \in AddLabels
    PROVE  /\ th[t].f \in Folios /\ th[t].f \in cached /\ th[t].f \notin listedFolios
           /\ th[t].f \in addingFolios /\ th[t].pc \in LockedLabels
           /\ \A u \in Threads \ {t} : th[u].pc \in LockedLabels => th[u].f # th[t].f
<1>1. th[t].pc \in LockedLabels
    BY DEF LockedLabels
<1> QED
    BY <1>1 DEF IndInv, HookInv, GoodState, PlaceInv, Knows, Exclusive, addingFolios, Adding

LEMMA FolioAddedMetaRefines ==
    ASSUME IndInv, PlaceInv, NEW t \in Threads, FolioAddedMeta(t)
    PROVE  Refines
<1> DEFINE f == th[t].f
           slot == th[t].slot
<1>1. /\ th[t].pc = "add_meta" /\ th[t].pc \in AddLabels /\ UNCHANGED <<cached, lists>>
      /\ th \in [Threads -> ThreadStates] /\ gen \in [Folios -> Slots]
    BY LabelsOfHooks DEF FolioAddedMeta, At, kernel, IndInv, Types
<1>2. /\ f \in Folios /\ f \in cached /\ f \notin listedFolios /\ f \in addingFolios
      /\ \A u \in Threads \ {t} : th[u].pc \in LockedLabels => th[u].f # f
    BY <1>1, AdderFolio
<1>3. ListedOnce' /\ listedFolios' = listedFolios
    BY <1>1, SameLists
<1>4. CASE /\ tracked' = tracked \cup {f} /\ gen' = [gen EXCEPT ![f] = slot]
           /\ th' = [th EXCEPT ![t] = AddState("add_count", f, slot)]
  <2>1. PICK new : new = AddState("add_count", f, slot)
      OBVIOUS
  <2>2. /\ th' = [th EXCEPT ![t] = new]
        /\ new.pc = "add_count" /\ new.f = f /\ new.slot = slot
      BY <1>4, <2>1 DEF AddState, Idle
  <2> HIDE DEF f, slot
  <2>3. th'[t] = new /\ \A u \in Threads \ {t} : th'[u] = th[u]
      BY <1>1, <2>2
  <2>4. Exclusive' /\ IsFiniteSet(Active)' /\ addingFolios' = addingFolios
    <3>1. th[t].pc \in LockedLabels /\ new.f = th[t].f /\ new.pc \in AddLabels
        BY <1>1, <2>2, LabelsOfHooks DEF f
    <3> QED
        BY <1>1, <2>2, <3>1, AddingStep, ExclusiveStep
  <2>5. \A g \in Folios \ {f} : (g \in tracked' <=> g \in tracked) /\ gen'[g] = gen[g]
      BY <1>1, <1>4
  <2>6. \A u \in Threads \ {t} : Knows(u)'
      BY <1>1, <1>2, <1>3, <2>3, <2>5, OthersKnow
  <2>7. f \in tracked' /\ gen'[f] = slot
      BY <1>1, <1>2, <1>4
  <2>8. Knows(t)'
      BY <1>1, <1>2, <1>3, <2>2, <2>3, <2>7, LabelsOfHooks DEF Knows
  <2> QED
      BY <1>1, <1>3, <2>4, <2>6, <2>8 DEF Refines, PlaceInv, Stutter
<1>5. CASE UNCHANGED <<tracked, gen>> /\ th' = [th EXCEPT ![t] = Idle]
  <2> HIDE DEF f, slot
  <2>1. th'[t] = Idle /\ \A u \in Threads \ {t} : th'[u] = th[u]
      BY <1>1, <1>5
  <2>2. Idle.pc \notin LockedLabels /\ Idle.pc \notin AddLabels
      BY IdleState, LabelsOfHooks
  <2>3. Exclusive' /\ IsFiniteSet(Active)' /\ addingFolios' = addingFolios \ {f}
      BY <1>1, <1>5, <2>2, AddingStep, ExclusiveStep DEF f
  <2>4. \A u \in Threads \ {t} : Knows(u)'
      BY <1>1, <1>2, <1>3, <1>5, <2>1, OthersKnow
  <2>5. Knows(t)'
      BY <2>1, IdleState, LabelsOfHooks DEF Knows
  <2>6. Policy!Settle(f)
      BY <1>1, <1>2, <1>3, <2>3 DEF Policy!Settle, addingFolios, listedFolios
  <2> QED
      BY <1>2, <1>3, <2>3, <2>4, <2>5, <2>6 DEF PlaceInv, Refines, Policy!Next
<1> QED
    BY <1>4, <1>5 DEF FolioAddedMeta, Goto, Return, AddState, metadata

LEMMA FolioAddedCountRefines ==
    ASSUME IndInv, PlaceInv, NEW t \in Threads, FolioAddedCount(t)
    PROVE  Refines
<1> DEFINE f == th[t].f
           slot == th[t].slot
<1>1. /\ th[t].pc = "add_count" /\ th[t].pc \in AddLabels
      /\ UNCHANGED <<cached, lists, tracked, gen>>
      /\ th' = [th EXCEPT ![t] = AddState("add_list", f, slot)]
      /\ th \in [Threads -> ThreadStates]
    BY LabelsOfHooks DEF FolioAddedCount, At, Goto, AddState, kernel, metadata, IndInv, Types
<1>2. /\ f \in Folios /\ f \in cached /\ f \notin listedFolios
      /\ \A u \in Threads \ {t} : th[u].pc \in LockedLabels => th[u].f # f
      /\ f \in tracked /\ gen[f] = slot
    BY <1>1, AdderFolio DEF PlaceInv, Knows
<1>3. ListedOnce' /\ listedFolios' = listedFolios
    BY <1>1, SameLists
<1>4. PICK new : new = AddState("add_list", f, slot)
    OBVIOUS
<1>5. /\ th' = [th EXCEPT ![t] = new]
      /\ new.pc = "add_list" /\ new.f = f /\ new.slot = slot
    BY <1>1, <1>4 DEF AddState, Idle
<1>6. th'[t] = new /\ \A u \in Threads \ {t} : th'[u] = th[u]
    BY <1>1, <1>5
<1>7. Exclusive' /\ IsFiniteSet(Active)' /\ addingFolios' = addingFolios
  <2>1. th[t].pc \in LockedLabels /\ new.pc \in AddLabels
      BY <1>1, <1>5, LabelsOfHooks
  <2> QED
      BY <1>1, <1>5, <2>1, AddingStep, ExclusiveStep
<1>8. \A u \in Threads \ {t} : Knows(u)'
    BY <1>1, <1>2, <1>3, <1>6, OthersKnow
<1>9. Knows(t)'
    BY <1>1, <1>2, <1>3, <1>5, <1>6, LabelsOfHooks DEF Knows
<1> QED
    BY <1>1, <1>3, <1>7, <1>8, <1>9 DEF Refines, PlaceInv, Stutter

LEMMA FolioAddedListRefines ==
    ASSUME IndInv, PlaceInv, NEW t \in Threads, FolioAddedList(t)
    PROVE  Refines
<1> DEFINE f == th[t].f
           slot == th[t].slot
<1>1. /\ th[t].pc = "add_list" /\ th[t].pc \in AddLabels /\ UNCHANGED <<cached, tracked, gen>>
      /\ th' = [th EXCEPT ![t] = Idle]
      /\ \/ lists' = [lists EXCEPT ![slot] = ListAdd(lists[slot], f)]
         \/ UNCHANGED lists
    BY LabelsOfHooks DEF FolioAddedList, At, Return, kernel, metadata
<1>2. /\ slot \in Slots /\ lists \in [Slots -> Seq(Folios)]
      /\ th \in [Threads -> ThreadStates]
    BY DEF IndInv, Types, ThreadStates
<1>3. /\ f \in Folios /\ f \in cached /\ f \notin listedFolios /\ f \in addingFolios
      /\ \A u \in Threads \ {t} : th[u].pc \in LockedLabels => th[u].f # f
    BY <1>1, AdderFolio
<1>4. Exclusive' /\ IsFiniteSet(Active)' /\ addingFolios' = addingFolios \ {f}
  <2>1. Idle.pc \notin LockedLabels /\ Idle.pc \notin AddLabels
      BY IdleState, LabelsOfHooks
  <2> QED
      BY <1>1, <2>1, AddingStep, ExclusiveStep
<1> HIDE DEF f, slot
<1>5. listedFolios' \in {listedFolios, listedFolios \cup {f}}
  <2>1. CASE lists' = [lists EXCEPT ![slot] = ListAdd(lists[slot], f)]
    <3>1. ToSet(ListAdd(lists[slot], f)) = ToSet(lists[slot]) \cup {f}
        BY <1>2, <1>3, AddProperties
    <3>2. \A s \in Slots : ToSet(lists'[s]) = IF s = slot THEN ToSet(lists[s]) \cup {f}
                                              ELSE ToSet(lists[s])
        BY <1>2, <2>1, <3>1
    <3> QED
        BY <1>2, <3>2 DEF listedFolios
  <2>2. CASE UNCHANGED lists
      BY <2>2 DEF listedFolios
  <2> QED
      BY <1>1, <2>1, <2>2
<1>6. ListedOnce'
  <2>1. CASE lists' = [lists EXCEPT ![slot] = ListAdd(lists[slot], f)]
    <3>1. \A s \in Slots : f \notin ToSet(lists[s]) /\ IsInjective(lists[s])
        BY <1>3 DEF PlaceInv, ListedOnce, listedFolios
    <3>2. /\ IsInjective(ListAdd(lists[slot], f))
          /\ ToSet(ListAdd(lists[slot], f)) = ToSet(lists[slot]) \cup {f}
        BY <1>2, <1>3, <3>1, AddInjective, AddProperties
    <3>3. /\ lists'[slot] = ListAdd(lists[slot], f)
          /\ \A s \in Slots : s # slot => lists'[s] = lists[s]
        BY <1>2, <2>1
    <3>4. \A s \in Slots : IsInjective(lists'[s]) /\ ToSet(lists'[s]) \subseteq cached'
        BY <1>1, <1>3, <3>1, <3>2, <3>3 DEF PlaceInv, ListedOnce
    <3>5. \A s, r \in Slots : s # r => ToSet(lists'[s]) \cap ToSet(lists'[r]) = {}
        BY <3>1, <3>2, <3>3 DEF PlaceInv, ListedOnce
    <3> QED
        BY <3>4, <3>5 DEF ListedOnce
  <2>2. CASE UNCHANGED lists
      BY <1>1, <2>2, SameLists
  <2> QED
      BY <1>1, <2>1, <2>2
<1>7. th'[t] = Idle /\ \A u \in Threads \ {t} : th'[u] = th[u]
    BY <1>1, <1>2
<1>8. \A u \in Threads \ {t} : Knows(u)'
    BY <1>1, <1>3, <1>5, <1>7, OthersKnow
<1>9. Knows(t)'
    BY <1>7, IdleState, LabelsOfHooks DEF Knows
<1>10. Policy!Link(f) \/ Policy!Settle(f)
    BY <1>1, <1>3, <1>4, <1>5 DEF Policy!Link, Policy!Settle, addingFolios, listedFolios
<1> QED
    BY <1>3, <1>4, <1>6, <1>8, <1>9, <1>10 DEF PlaceInv, Refines, Policy!Next

LEMMA FolioEvictedRefines ==
    ASSUME IndInv, PlaceInv, NEW t \in Threads, NEW f \in Folios, FolioEvicted(t, f)
    PROVE  Refines
<1>1. /\ th[t].pc = "idle" /\ f \in cached /\ f \notin addingFolios
      /\ \A u \in Threads : th[u].pc \in LockedLabels => th[u].f # f
      /\ cached' = cached \ {f} /\ UNCHANGED <<tracked, gen>>
      /\ lists' = [s \in Slots |-> ListDel(lists[s], f)]
      /\ \/ f \in tracked /\ th' = [th EXCEPT ![t] = EvictedState("evicted", f)]
         \/ UNCHANGED th
    BY DEF FolioEvicted, At, Goto, EvictedState, Adding, Removing, addingFolios,
           LockedLabels, metadata
<1>2. ListedOnce' /\ listedFolios' = listedFolios \ {f}
  <2>1. \A s \in Slots :
           IsInjective(lists'[s]) /\ ToSet(lists'[s]) = ToSet(lists[s]) \ {f}
    <3>1. \A s \in Slots : lists[s] \in Seq(Folios) /\ IsInjective(lists[s])
        BY DEF IndInv, Types, PlaceInv, ListedOnce
    <3>2. \A s \in Slots : /\ ToSet(ListDel(lists[s], f)) = ToSet(lists[s]) \ {f}
                            /\ IsInjective(ListDel(lists[s], f))
        BY <3>1, DelProperties, OperationsInjective
    <3> QED
        BY <1>1, <3>2
  <2>2. listedFolios' = listedFolios \ {f}
      BY <2>1 DEF listedFolios
  <2>3. \A s \in Slots : ToSet(lists'[s]) \subseteq cached'
      BY <1>1, <2>1 DEF PlaceInv, ListedOnce
  <2>4. \A s, r \in Slots : s # r => ToSet(lists'[s]) \cap ToSet(lists'[r]) = {}
      BY <2>1 DEF PlaceInv, ListedOnce
  <2> QED
      BY <2>1, <2>2, <2>3, <2>4 DEF ListedOnce
<1>3. \A u \in Threads \ {t} : th'[u] = th[u]
    BY <1>1 DEF IndInv, Types
<1>4. \A u \in Threads \ {t} : Knows(u)'
    BY <1>1, <1>2, <1>3, OthersKnow
<1>5. Exclusive' /\ IsFiniteSet(Active)' /\ addingFolios' = addingFolios /\ Knows(t)'
  <2>1. CASE UNCHANGED th
      BY <1>1, <2>1, LabelsOfHooks DEF PlaceInv, Exclusive, Active, addingFolios, Adding, Knows
  <2>2. CASE f \in tracked /\ th' = [th EXCEPT ![t] = EvictedState("evicted", f)]
    <3>1. PICK new : new = EvictedState("evicted", f)
        OBVIOUS
    <3>2. th' = [th EXCEPT ![t] = new] /\ new.pc = "evicted" /\ new.f = f
        BY <2>2, <3>1 DEF EvictedState, Idle
    <3>3. th'[t] = new
        BY <3>2 DEF IndInv, Types
    <3>4. th[t].pc \notin AddLabels /\ new.pc \notin AddLabels
        BY <1>1, <3>2, LabelsOfHooks
    <3>5. Exclusive' /\ IsFiniteSet(Active)' /\ addingFolios' = addingFolios
        BY <1>1, <3>2, <3>4, ExclusiveStep, AddingStep
    <3>6. Knows(t)'
        BY <1>1, <2>2, <3>2, <3>3, LabelsOfHooks DEF Knows
    <3> QED
        BY <3>5, <3>6
  <2> QED
      BY <1>1, <2>1, <2>2
<1>6. Policy!Leave(f)
    BY <1>1, <1>2, <1>5 DEF Policy!Leave, addingFolios, listedFolios
<1> QED
    BY <1>2, <1>4, <1>5, <1>6 DEF PlaceInv, Refines, Policy!Next

LEMMA FolioEvictedCountRefines ==
    ASSUME IndInv, PlaceInv, NEW t \in Threads, FolioEvictedCount(t)
    PROVE  Refines
<1>1. /\ th[t].pc = "evicted" /\ UNCHANGED <<cached, lists, tracked, gen>>
      /\ th' = [th EXCEPT ![t] = EvictedState("evicted_forget", th[t].f)]
      /\ th \in [Threads -> ThreadStates]
    BY DEF FolioEvictedCount, At, Goto, EvictedState, kernel, metadata, IndInv, Types
<1>2. PICK new : new = EvictedState("evicted_forget", th[t].f)
    OBVIOUS
<1>3. th' = [th EXCEPT ![t] = new] /\ new.pc = "evicted_forget" /\ new.f = th[t].f
    BY <1>1, <1>2 DEF EvictedState, Idle
<1>4. th'[t] = new /\ \A u \in Threads \ {t} : th'[u] = th[u]
    BY <1>1, <1>3
<1>5. ListedOnce' /\ listedFolios' = listedFolios
    BY <1>1, SameLists
<1>6. Exclusive' /\ IsFiniteSet(Active)' /\ addingFolios' = addingFolios
  <2>1. th[t].pc \notin AddLabels /\ new.pc \notin AddLabels /\ th[t].pc \in LockedLabels
      BY <1>1, <1>3, LabelsOfHooks
  <2> QED
      BY <1>3, <2>1, ExclusiveStep, AddingStep
<1>7. \A u \in Threads \ {t} : Knows(u)'
  <2>1. NoFolio \notin Folios
      BY MGLRUAssumption
  <2>2. \A u \in Threads \ {t} : th[u].pc \in LockedLabels => th[u].f # NoFolio
      BY <2>1 DEF IndInv, HookInv, GoodState
  <2> QED
      BY <1>1, <1>4, <1>5, <2>2, OthersKnow
<1>8. Knows(t)'
  <2>1. Knows(t)
      BY DEF PlaceInv
  <2> QED
      BY <1>1, <1>3, <1>4, <2>1, LabelsOfHooks DEF Knows
<1> QED
    BY <1>1, <1>5, <1>6, <1>7, <1>8 DEF Refines, PlaceInv, Stutter

LEMMA FolioEvictedForgetRefines ==
    ASSUME IndInv, PlaceInv, NEW t \in Threads, FolioEvictedForget(t)
    PROVE  Refines
<1> DEFINE f == th[t].f
<1>1. /\ th[t].pc = "evicted_forget" /\ UNCHANGED <<cached, lists>>
      /\ tracked' = tracked \ {f} /\ gen' = [gen EXCEPT ![f] = 0]
      /\ th' = [th EXCEPT ![t] = Idle]
      /\ th \in [Threads -> ThreadStates] /\ gen \in [Folios -> Slots]
    BY DEF FolioEvictedForget, At, Return, kernel, IndInv, Types
<1>2. \A u \in Threads \ {t} : th[u].pc \in LockedLabels => th[u].f # f
    BY <1>1, LabelsOfHooks DEF PlaceInv, Exclusive
<1> HIDE DEF f
<1>3. th'[t] = Idle /\ \A u \in Threads \ {t} : th'[u] = th[u]
    BY <1>1
<1>4. ListedOnce' /\ listedFolios' = listedFolios
    BY <1>1, SameLists
<1>5. Exclusive' /\ IsFiniteSet(Active)' /\ addingFolios' = addingFolios
  <2>1. th[t].pc \notin AddLabels /\ Idle.pc \notin AddLabels /\ Idle.pc \notin LockedLabels
      BY <1>1, IdleState, LabelsOfHooks
  <2> QED
      BY <1>1, <2>1, ExclusiveStep, AddingStep
<1>6. \A u \in Threads \ {t} : Knows(u)'
  <2>1. \A g \in Folios \ {f} : (g \in tracked' <=> g \in tracked) /\ gen'[g] = gen[g]
      BY <1>1
  <2> QED
      BY <1>1, <1>2, <1>3, <1>4, <2>1, OthersKnow
<1>7. Knows(t)'
    BY <1>3, IdleState, LabelsOfHooks DEF Knows
<1> QED
    BY <1>1, <1>4, <1>5, <1>6, <1>7 DEF Refines, PlaceInv, Stutter

LEMMA InitRefines == Init => PlaceInv /\ Policy!Init
<1> SUFFICES ASSUME Init PROVE PlaceInv /\ Policy!Init
    OBVIOUS
<1>1. cached = {} /\ \A t \in Threads : th[t].pc = "idle"
    BY IdleState DEF Init
<1>2. addingFolios = {} /\ Exclusive /\ \A t \in Threads : Knows(t)
    BY <1>1, LabelsOfHooks DEF addingFolios, Adding, Exclusive, Knows
<1>3. listedFolios = {} /\ ListedOnce
    BY DEF Init, listedFolios, ListedOnce, ToSet, IsInjective
<1>4. IsFiniteSet(Active)
  <2>1. Active = {}
      BY <1>1 DEF Active
  <2> QED
      BY <2>1, FS_EmptySet
<1> QED
    BY <1>1, <1>2, <1>3, <1>4 DEF PlaceInv, Policy!Init, addingFolios, listedFolios

LEMMA StepRefines ==
    IndInv /\ PlaceInv /\ [Next]_vars => PlaceInv' /\ [Policy!Next]_(Policy!vars)
<1> SUFFICES ASSUME IndInv, PlaceInv, [Next]_vars PROVE Refines
    BY DEF Refines, Stutter, Policy!vars, addingFolios, listedFolios
<1>1. ASSUME NEW t \in Threads, NEW f \in Folios, FolioAdded(t, f) PROVE Refines
    BY <1>1, FolioAddedRefines
<1>2. ASSUME NEW t \in Threads, FolioAddedMeta(t) PROVE Refines
    BY <1>2, FolioAddedMetaRefines
<1>3. ASSUME NEW t \in Threads, FolioAddedCount(t) PROVE Refines
    BY <1>3, FolioAddedCountRefines
<1>4. ASSUME NEW t \in Threads, FolioAddedList(t) PROVE Refines
    BY <1>4, FolioAddedListRefines
<1>5. ASSUME NEW t \in Threads, NEW f \in Folios, FolioEvicted(t, f) PROVE Refines
    BY <1>5, FolioEvictedRefines
<1>6. ASSUME NEW t \in Threads, FolioEvictedCount(t) PROVE Refines
    BY <1>6, FolioEvictedCountRefines
<1>7. ASSUME NEW t \in Threads, FolioEvictedForget(t) PROVE Refines
    BY <1>7, FolioEvictedForgetRefines
\* Steps that leave the lists and the metadata alone.
<1>8. CASE UNCHANGED vars \/ \E f \in Folios : SetFlags(f) \/ FolioAccessed(f)
  <2>1. UNCHANGED <<cached, lists, tracked, gen, th>>
      BY <1>8 DEF SetFlags, FolioAccessed, vars, kernel, metadata
  <2>2. ListedOnce' /\ listedFolios' = listedFolios
      BY <2>1, SameLists
  <2> QED
      BY <2>1, <2>2, QuietRefines
<1>9. ASSUME NEW t \in Threads,
             Age(t) \/ Retire(t) \/ CountDown(t) \/ CountUp(t) \/ IterationFails(t)
      PROVE  Refines
  <2>1. UNCHANGED <<cached, lists, tracked, gen>> /\ th[t].pc \notin LockedLabels
      BY <1>9, LabelsOfHooks
         DEF Age, Retire, CountDown, CountUp, IterationFails, kernel, metadata, At
  <2>2. \E new : th' = [th EXCEPT ![t] = new] /\ new.pc \notin LockedLabels
    <3>1. CASE Age(t)
      <4> DEFINE new == RetireState(min_seq, max_seq)
      <4>1. th' = [th EXCEPT ![t] = new] /\ new.pc \notin LockedLabels
          BY <3>1, LabelsOfHooks DEF Age, Goto, RetireState, Idle
      <4> QED
          BY <4>1
    <3>2. CASE Retire(t)
      <4> DEFINE new == Pass1State(lru_gen_from_seq(min_seq'))
      <4>1. th' = [th EXCEPT ![t] = new] /\ new.pc \notin LockedLabels
          BY <3>2, LabelsOfHooks DEF Retire, Goto, Pass1State, Idle
      <4> QED
          BY <4>1
    <3>3. CASE CountDown(t)
      <4> DEFINE new == [th[t] EXCEPT !.pc = "count_up", !.n = @ - 1]
      <4>1. th' = [th EXCEPT ![t] = new] /\ new.pc \notin LockedLabels
          BY <3>3, LabelsOfHooks DEF CountDown, Goto, IndInv, Types, ThreadStates
      <4> QED
          BY <4>1
    <3>4. CASE CountUp(t)
      <4>1. th[t] \in ThreadStates /\ Resume(t, th[t])
          BY <3>4 DEF CountUp, IndInv, Types
      <4> QED
          BY <4>1, ResumeStates, LabelsOfHooks
    <3>5. CASE IterationFails(t)
        BY <3>5, IdleState, LabelsOfHooks DEF IterationFails, Return
    <3> QED
        BY <1>9, <3>1, <3>2, <3>3, <3>4, <3>5
  <2>3. ListedOnce' /\ listedFolios' = listedFolios
      BY <2>1, SameLists
  <2> QED
      BY <2>1, <2>2, <2>3, QuietRefines
<1>10. ASSUME NEW t \in Threads, FirstPass(t) PROVE Refines
  <2>1. PICK thr \in Thresholds :
           /\ Iterate(th[t].slot, th[t].slot, thr, Request)
           /\ \E new : th' = [th EXCEPT ![t] = new] /\ new.pc \notin LockedLabels
      BY <1>10, FirstPassStep, LabelsOfHooks DEF AfterPass
  <2>2. th[t].pc \notin LockedLabels /\ UNCHANGED <<cached, tracked>> /\ th[t].slot \in Slots
      BY <1>10, LabelsOfHooks DEF FirstPass, At, kernel, IndInv, Types, ThreadStates
  <2>3. /\ ListedOnce' /\ listedFolios' = listedFolios
        /\ \A g \in Folios \ listedFolios : gen'[g] = gen[g]
      BY <2>1, <2>2, IterateKeepsListed
  <2> QED
      BY <2>1, <2>2, <2>3, QuietRefines
<1>11. ASSUME NEW t \in Threads, SecondPass(t) PROVE Refines
  <2>1. /\ th[t].pc \notin LockedLabels /\ UNCHANGED <<cached, tracked>>
        /\ th[t].slot \in Slots /\ lru_gen_from_seq(min_seq) \in Slots
        /\ Iterate(lru_gen_from_seq(min_seq), th[t].slot, th[t].thr, Request - th[t].nr)
      BY <1>11, ConstantsType, LabelsOfHooks
         DEF SecondPass, At, kernel, IndInv, Types, ThreadStates
  <2>2. \E new : th' = [th EXCEPT ![t] = new] /\ new.pc \notin LockedLabels
      BY <1>11, SecondPassStep, LabelsOfHooks DEF AfterPass
  <2>3. /\ ListedOnce' /\ listedFolios' = listedFolios
        /\ \A g \in Folios \ listedFolios : gen'[g] = gen[g]
      BY <2>1, IterateKeepsListed
  <2> QED
      BY <2>1, <2>2, <2>3, QuietRefines
<1> QED
    BY <1>1, <1>2, <1>3, <1>4, <1>5, <1>6, <1>7, <1>8, <1>9, <1>10, <1>11 DEF Next

LEMMA PlaceInductive == Spec => []PlaceInv
<1>1. Init => PlaceInv
    BY InitRefines
<1>2. IndInv /\ PlaceInv /\ [Next]_vars => PlaceInv'
    BY StepRefines
<1> QED
    BY <1>1, <1>2, Inductive, PTL DEF Spec

\* Every index into mglru_lists and nr_pages is a slot of the ring, and a cached
\* folio is at most once on the list of at most one generation, whatever the second
\* pass of an eviction iterates while another thread retires generations.
THEOREM TypeCorrect == Spec => []TypeOK
<1>1. IndInv /\ PlaceInv => TypeOK
    BY DEF IndInv, PlaceInv, TypeOK
<1> QED
    BY <1>1, Inductive, PlaceInductive, PTL

\* MGLRU keeps the promise of the abstract policy, without any condition on stale
\* second passes: those spoil page counts and generation numbers, but no folio gets
\* lost on its way from one generation to the next.
THEOREM MGLRUImplementsPagePolicy == Spec => ImplementsPagePolicy
<1>1. Init => PlaceInv /\ Policy!Init
    BY InitRefines
<1>2. IndInv /\ PlaceInv /\ [Next]_vars => PlaceInv' /\ [Policy!Next]_(Policy!vars)
    BY StepRefines
<1> QED
    BY <1>1, <1>2, Inductive, PTL DEF Spec, ImplementsPagePolicy, Policy!Spec

-----------------------------------------------------------------------------
(***************************************************************************)
(* Lists, metadata and page counts.                                         *)
(***************************************************************************)

\* n[u] elements for each u in T, and t's share of them.
Pairs(T, n) == UNION {{u} \X (1 .. n[u]) : u \in T}
Share(t, T, n) == IF t \in T THEN n[t] ELSE 0

\* What changes when only t's share does.
LEMMA PairsStep ==
    ASSUME NEW T, IsFiniteSet(T), NEW U, NEW t, T \ {t} = U \ {t}, NEW n, NEW m,
           \A u \in T : n[u] \in Nat, \A u \in U : m[u] \in Nat,
           \A u \in T \ {t} : m[u] = n[u]
    PROVE  /\ Cardinality(Pairs(T, n)) \in Nat /\ Cardinality(Pairs(U, m)) \in Nat
           /\ Cardinality(Pairs(U, m)) =
                Cardinality(Pairs(T, n)) - Share(t, T, n) + Share(t, U, m)
<1> DEFINE A == Pairs(T, n)
           B == Pairs(U, m)
           pairs == [u \in T \ {t} |-> {u} \X (1 .. n[u])]
           all == {pairs[u] : u \in T \ {t}}
           rest == UNION all
           before == Share(t, T, n)
           after == Share(t, U, m)
<1>1. before \in Nat /\ after \in Nat
    BY DEF Share
<1>2. IsFiniteSet(all)
  <2>1. T \ {t} \in SUBSET T
      OBVIOUS
  <2>2. IsFiniteSet(T \ {t})
      BY <2>1, FS_Subset
  <2>3. pairs \in Surjection(T \ {t}, all)
      BY DEF Surjection
  <2> QED
      BY <2>2, <2>3, FS_Surjection
<1>3. ASSUME NEW u \in T \ {t} PROVE IsFiniteSet(pairs[u])
  <2>1. IsFiniteSet({u})
      BY FS_Singleton
  <2>2. n[u] \in Int
      OBVIOUS
  <2>3. IsFiniteSet(1 .. n[u])
      BY <2>2, FS_Interval
  <2> QED
      BY <2>1, <2>3, FS_Product
<1>4. \A a \in all : IsFiniteSet(a)
    BY <1>3
<1>5. A = rest \cup ({t} \X (1 .. before))
  <2>1. rest = UNION {{u} \X (1 .. n[u]) : u \in T \ {t}}
      OBVIOUS
  <2> HIDE DEF rest
  <2>2. CASE t \in T
      BY <2>1, <2>2 DEF Pairs, Share
  <2>3. CASE t \notin T
      BY <2>1, <2>3 DEF Pairs, Share
  <2> QED
      BY <2>2, <2>3
<1>6. B = rest \cup ({t} \X (1 .. after))
  <2>1. rest = UNION {{u} \X (1 .. m[u]) : u \in U \ {t}}
      OBVIOUS
  <2> HIDE DEF rest
  <2>2. CASE t \in U
      BY <2>1, <2>2 DEF Pairs, Share
  <2>3. CASE t \notin U
      BY <2>1, <2>3 DEF Pairs, Share
  <2> QED
      BY <2>2, <2>3
<1>7. \A p \in rest : p[1] # t
    OBVIOUS
<1> HIDE DEF all, before, after, A, B
<1>8. IsFiniteSet(rest)
    BY <1>2, <1>4, FS_UNION
<1> HIDE DEF rest
<1>9. ASSUME NEW k \in Nat
      PROVE  Cardinality(rest \cup ({t} \X (1 .. k))) = Cardinality(rest) + k
  <2> DEFINE own == {t} \X (1 .. k)
  <2>1. IsFiniteSet({t}) /\ Cardinality({t}) = 1
      BY FS_Singleton
  <2>2. IsFiniteSet(1 .. k) /\ Cardinality(1 .. k) = k
      BY FS_Interval
  <2>3. IsFiniteSet(own) /\ Cardinality(own) = 1 * Cardinality(1 .. k)
      BY <2>1, <2>2, FS_Product
  <2>4. rest \cap own = {}
      BY <1>7
  <2> HIDE DEF own
  <2>5. Cardinality(rest \cap own) = 0
      BY <2>4, FS_EmptySet
  <2>6. Cardinality(rest \cup own) =
          Cardinality(rest) + Cardinality(own) - Cardinality(rest \cap own)
      BY <1>8, <2>3, FS_Union
  <2>7. Cardinality(rest) \in Nat
      BY <1>8, FS_CardinalityType
  <2> QED
      BY <2>2, <2>3, <2>5, <2>6, <2>7 DEF own
<1>10. Cardinality(rest) \in Nat
    BY <1>8, FS_CardinalityType
<1>11. Cardinality(A) = Cardinality(rest) + before /\ Cardinality(B) = Cardinality(rest) + after
    BY <1>1, <1>5, <1>6, <1>9
<1>12. /\ Cardinality(A) \in Nat /\ Cardinality(B) \in Nat
       /\ Cardinality(B) = Cardinality(A) - before + after
    BY <1>1, <1>10, <1>11
<1> QED
    BY <1>12 DEF A, B, before, after

\* The pages that a thread has yet to take from slot s, and to bring to it.
Counting == {"count_down", "count_up"}
Departing(local, s) == IF local.pc \in Counting /\ local.slot = s THEN local.n ELSE 0
Arriving(local, s) ==
    IF local.pc \in Counting /\ NextSlot(local.slot) = s THEN local.n ELSE 0

LEMMA PromotionsStep ==
    ASSUME IndInv, IndInv', PlaceInv, NEW t \in Threads,
           \A u \in Threads \ {t} : th'[u] = th[u], NEW s
    PROVE  /\ Cardinality(Leaving(s)) \in Nat /\ Cardinality(Leaving(s)') \in Nat
           /\ Cardinality(Coming(s)) \in Nat /\ Cardinality(Coming(s)') \in Nat
           /\ Cardinality(Leaving(s)') =
                Cardinality(Leaving(s)) - Departing(th[t], s) + Departing(th'[t], s)
           /\ Cardinality(Coming(s)') =
                Cardinality(Coming(s)) - Arriving(th[t], s) + Arriving(th'[t], s)
<1> DEFINE n == [u \in Threads |-> th[u].n]
           m == [u \in Threads |-> th'[u].n]
           from(local) == local.pc \in Counting /\ local.slot = s
           to(local) == local.pc \in Counting /\ NextSlot(local.slot) = s
           F == {u \in Threads : from(th[u])}
           G == {u \in Threads : from(th'[u])}
           P == {u \in Threads : to(th[u])}
           Q == {u \in Threads : to(th'[u])}
<1>1. \A u \in Threads : n[u] \in Nat /\ m[u] \in Nat
    BY DEF IndInv, Types, ThreadStates
<1>2. /\ F \in SUBSET Threads /\ G \in SUBSET Threads
      /\ P \in SUBSET Threads /\ Q \in SUBSET Threads
      /\ F \ {t} = G \ {t} /\ P \ {t} = Q \ {t}
      /\ \A u \in Threads \ {t} : m[u] = n[u]
    OBVIOUS
<1>3. F \in SUBSET Active /\ P \in SUBSET Active
    BY DEF Active, Counting
<1>4. IsFiniteSet(F) /\ IsFiniteSet(P)
    BY <1>3, FS_Subset DEF PlaceInv
<1>5. /\ Leaving(s) = Pairs(F, n)
      /\ Coming(s) = Pairs(P, n)
  <2>1. /\ {u \in Promoting : th[u].slot = s} = F
        /\ {u \in Promoting : NextSlot(th[u].slot) = s} = P
      BY DEF Promoting, ThreadsAt, Counting
  <2>2. \A T \in SUBSET Threads : Promotions(T) = Pairs(T, n)
      BY DEF Promotions, Pairs
  <2> HIDE DEF F, P, n
  <2> QED
      BY <1>2, <2>1, <2>2 DEF Leaving, Coming
<1>6. /\ Leaving(s)' = Pairs(G, m)
      /\ Coming(s)' = Pairs(Q, m)
  <2>1. /\ {u \in Promoting : th[u].slot = s}' = G
        /\ {u \in Promoting : NextSlot(th[u].slot) = s}' = Q
      BY DEF Promoting, ThreadsAt, Counting
  <2>2. \A T \in SUBSET Threads :
           UNION {{u} \X (1 .. th'[u].n) : u \in T} = Pairs(T, m)
      BY DEF Pairs
  <2>3. /\ Leaving(s)' = UNION {{u} \X (1 .. th'[u].n) : u \in {u \in Promoting : th[u].slot = s}'}
        /\ Coming(s)' = UNION {{u} \X (1 .. th'[u].n) :
                                 u \in {u \in Promoting : NextSlot(th[u].slot) = s}'}
      BY DEF Leaving, Coming, Promotions
  <2> HIDE DEF G, Q, m
  <2> QED
      BY <1>2, <2>1, <2>2, <2>3
<1>7. /\ t \in F <=> from(th[t])
      /\ t \in G <=> from(th'[t])
      /\ t \in P <=> to(th[t])
      /\ t \in Q <=> to(th'[t])
      /\ n[t] = th[t].n /\ m[t] = th'[t].n
    OBVIOUS
<1> HIDE DEF F, G, P, Q, n, m
<1>8. /\ Cardinality(Leaving(s)) \in Nat /\ Cardinality(Leaving(s)') \in Nat
      /\ Cardinality(Leaving(s)') =
           Cardinality(Leaving(s)) - Share(t, F, n) + Share(t, G, m)
  <2>1. /\ \A u \in F : n[u] \in Nat
        /\ \A u \in G : m[u] \in Nat
        /\ \A u \in F \ {t} : m[u] = n[u]
      BY <1>1, <1>2
  <2>2. IsFiniteSet(F) /\ F \ {t} = G \ {t}
      BY <1>2, <1>4
  <2>3. /\ Cardinality(Pairs(F, n)) \in Nat /\ Cardinality(Pairs(G, m)) \in Nat
        /\ Cardinality(Pairs(G, m)) =
             Cardinality(Pairs(F, n)) - Share(t, F, n) + Share(t, G, m)
      BY <2>1, <2>2, PairsStep
  <2> QED
      BY <1>5, <1>6, <2>3
<1>9. /\ Cardinality(Coming(s)) \in Nat /\ Cardinality(Coming(s)') \in Nat
      /\ Cardinality(Coming(s)') =
           Cardinality(Coming(s)) - Share(t, P, n) + Share(t, Q, m)
  <2>1. /\ \A u \in P : n[u] \in Nat
        /\ \A u \in Q : m[u] \in Nat
        /\ \A u \in P \ {t} : m[u] = n[u]
      BY <1>1, <1>2
  <2>2. IsFiniteSet(P) /\ P \ {t} = Q \ {t}
      BY <1>2, <1>4
  <2>3. /\ Cardinality(Pairs(P, n)) \in Nat /\ Cardinality(Pairs(Q, m)) \in Nat
        /\ Cardinality(Pairs(Q, m)) =
             Cardinality(Pairs(P, n)) - Share(t, P, n) + Share(t, Q, m)
      BY <2>1, <2>2, PairsStep
  <2> QED
      BY <1>5, <1>6, <2>3
<1>10. /\ Share(t, F, n) = Departing(th[t], s) /\ Share(t, G, m) = Departing(th'[t], s)
       /\ Share(t, P, n) = Arriving(th[t], s) /\ Share(t, Q, m) = Arriving(th'[t], s)
    BY <1>7 DEF Share, Departing, Arriving
<1> QED
    BY <1>8, <1>9, <1>10

\* A page that a thread has yet to count in slot s, or metadata it has yet to delete.
Debt(t, s) == IF t \in Uncounted(s) THEN 1 ELSE 0

LEMMA DebtType ==
    ASSUME NEW t \in Threads, NEW s
    PROVE  /\ Debt(t, s) \in Int /\ Debt(t, s)' \in Int
           /\ t \in Uncounted(s) <=>
                 \/ th[t].pc = "add_count" /\ th[t].slot = s
                 \/ th[t].pc = "count_up" /\ NextSlot(th[t].slot) = s
                 \/ th[t].pc = "evicted_forget" /\ gen[th[t].f] = s
           /\ t \in Uncounted(s)' <=>
                 \/ th'[t].pc = "add_count" /\ th'[t].slot = s
                 \/ th'[t].pc = "count_up" /\ NextSlot(th'[t].slot) = s
                 \/ th'[t].pc = "evicted_forget" /\ gen'[th'[t].f] = s
BY DEF Debt, Uncounted, ThreadsAt

LEMMA UncountedStep ==
    ASSUME PlaceInv, NEW t \in Threads, NEW s,
           \A u \in Threads \ {t} :
              /\ th'[u] = th[u]
              /\ th[u].pc = "evicted_forget" => gen'[th[u].f] = gen[th[u].f]
    PROVE  /\ Cardinality(Uncounted(s)) \in Nat /\ Cardinality(Uncounted(s)') \in Nat
           /\ Cardinality(Uncounted(s)') = Cardinality(Uncounted(s)) - Debt(t, s) + Debt(t, s)'
<1>1. Uncounted(s) \in SUBSET Active
    BY DEF Uncounted, ThreadsAt, Active
<1>2. IsFiniteSet(Uncounted(s))
    BY <1>1, FS_Subset DEF PlaceInv
<1> DEFINE A == Uncounted(s)
           B == Uncounted(s)'
<1>3. A \ {t} = B \ {t}
    BY DEF Uncounted, ThreadsAt
<1> HIDE DEF A, B
<1>4. IsFiniteSet(A)
    BY <1>2 DEF A
<1>5. /\ Cardinality(A) \in Nat /\ Cardinality(B) \in Nat
      /\ (t \in A <=> t \in B) => Cardinality(B) = Cardinality(A)
      /\ t \in A /\ t \notin B => Cardinality(B) = Cardinality(A) - 1
      /\ t \notin A /\ t \in B => Cardinality(B) = Cardinality(A) + 1
    BY <1>3, <1>4, OneElement
<1> QED
    BY <1>5 DEF A, B, Debt

-----------------------------------------------------------------------------
\* A folio on a list has metadata of the list's slot.
Placed == \A s \in Slots : \A f \in ToSet(lists[s]) : f \in tracked /\ gen[f] = s

Members(s) == {f \in tracked : gen[f] = s}

Balanced(s) ==
    nr_pages[s] + Cardinality(Uncounted(s)) + Cardinality(Coming(s))
      = Cardinality(Members(s)) + overwritten[s] + Cardinality(Leaving(s))

Facts == Placed /\ \A s \in Slots : Balanced(s)

\* Inductive with IndInv and PlaceInv, as long as no second pass was stale.
MatchInv == ~stale => Facts

LEMMA MembersFinite ==
    ASSUME Types
    PROVE  /\ IsFiniteSet(tracked)
           /\ \A s : IsFiniteSet(Members(s)) /\ Cardinality(Members(s)) \in Nat
<1>1. IsFiniteSet(tracked)
    BY MGLRUAssumption, FS_Subset DEF Types
<1>2. ASSUME NEW s PROVE IsFiniteSet(Members(s)) /\ Cardinality(Members(s)) \in Nat
    BY <1>1, FS_Subset, FS_CardinalityType DEF Members
<1> QED
    BY <1>1, <1>2

LEMMA MembersPrimed ==
    ASSUME IndInv', NEW s
    PROVE  Cardinality(Members(s)') \in Nat
<1>1. Types'
    BY DEF IndInv
<1>2. IsFiniteSet(tracked')
    BY <1>1, MGLRUAssumption, FS_Subset DEF Types
<1>3. Members(s)' \in SUBSET tracked'
    BY DEF Members
<1> QED
    BY <1>2, <1>3, FS_Subset, FS_CardinalityType

LEMMA SharesType ==
    ASSUME IndInv, IndInv', NEW t \in Threads, NEW s
    PROVE  /\ Departing(th[t], s) \in Int /\ Departing(th'[t], s) \in Int
           /\ Arriving(th[t], s) \in Int /\ Arriving(th'[t], s) \in Int
<1>1. th[t] \in ThreadStates /\ th'[t] \in ThreadStates
    BY DEF IndInv, Types
<1>2. th[t].n \in Int /\ th'[t].n \in Int
    BY <1>1 DEF ThreadStates
<1> QED
    BY <1>2 DEF Departing, Arriving

\* What a step of thread t has to show: the changes it makes to slot s cancel out.
LEMMA BalanceStep ==
    ASSUME IndInv, IndInv', PlaceInv, NEW s \in Slots, Balanced(s), NEW t \in Threads,
           \A u \in Threads \ {t} :
              /\ th'[u] = th[u]
              /\ th[u].pc = "evicted_forget" => gen'[th[u].f] = gen[th[u].f],
           (nr_pages'[s] - nr_pages[s]) + (Debt(t, s)' - Debt(t, s))
              + (Arriving(th'[t], s) - Arriving(th[t], s))
             = (Cardinality(Members(s)') - Cardinality(Members(s)))
                 + (overwritten'[s] - overwritten[s])
                 + (Departing(th'[t], s) - Departing(th[t], s))
    PROVE  Balanced(s)'
<1>1. /\ nr_pages[s] \in Int /\ overwritten[s] \in Nat /\ overwritten'[s] \in Nat
      /\ nr_pages'[s] \in Int /\ Cardinality(Members(s)) \in Nat
    BY MembersFinite DEF IndInv, Types
<1>2. Cardinality(Members(s)') \in Nat
    BY MembersPrimed
<1>3. /\ Cardinality(Uncounted(s)) \in Nat /\ Cardinality(Uncounted(s)') \in Nat
      /\ Cardinality(Uncounted(s)') = Cardinality(Uncounted(s)) - Debt(t, s) + Debt(t, s)'
    BY UncountedStep
<1>4. /\ Cardinality(Leaving(s)) \in Nat /\ Cardinality(Leaving(s)') \in Nat
      /\ Cardinality(Coming(s)) \in Nat /\ Cardinality(Coming(s)') \in Nat
      /\ Cardinality(Leaving(s)') =
           Cardinality(Leaving(s)) - Departing(th[t], s) + Departing(th'[t], s)
      /\ Cardinality(Coming(s)') =
           Cardinality(Coming(s)) - Arriving(th[t], s) + Arriving(th'[t], s)
    BY PromotionsStep
<1>5. Debt(t, s) \in Int /\ Debt(t, s)' \in Int
    BY DebtType
<1>6. /\ Departing(th[t], s) \in Int /\ Departing(th'[t], s) \in Int
      /\ Arriving(th[t], s) \in Int /\ Arriving(th'[t], s) \in Int
    BY SharesType
<1>7. nr_pages[s] + Cardinality(Uncounted(s)) + Cardinality(Coming(s))
        = Cardinality(Members(s)) + overwritten[s] + Cardinality(Leaving(s))
    BY DEF Balanced
<1>8. nr_pages'[s] + Cardinality(Uncounted(s)') + Cardinality(Coming(s)')
        = Cardinality(Members(s)') + overwritten'[s] + Cardinality(Leaving(s)')
  <2> DEFINE pages == nr_pages[s]
             pages2 == nr_pages'[s]
             debt == Debt(t, s)
             debt2 == Debt(t, s)'
             coming == Arriving(th[t], s)
             coming2 == Arriving(th'[t], s)
             leaving == Departing(th[t], s)
             leaving2 == Departing(th'[t], s)
             members == Cardinality(Members(s))
             members2 == Cardinality(Members(s)')
             lost == overwritten[s]
             lost2 == overwritten'[s]
             owed == Cardinality(Uncounted(s))
             come == Cardinality(Coming(s))
             left == Cardinality(Leaving(s))
  <2>1. /\ pages \in Int /\ pages2 \in Int /\ debt \in Int /\ debt2 \in Int
        /\ coming \in Int /\ coming2 \in Int /\ leaving \in Int /\ leaving2 \in Int
        /\ members \in Int /\ members2 \in Int /\ lost \in Int /\ lost2 \in Int
        /\ owed \in Int /\ come \in Int /\ left \in Int
      BY <1>1, <1>2, <1>3, <1>4, <1>5, <1>6
  <2>2. (pages2 - pages) + (debt2 - debt) + (coming2 - coming)
           = (members2 - members) + (lost2 - lost) + (leaving2 - leaving)
      OBVIOUS
  <2>3. pages + owed + come = members + lost + left
      BY <1>7
  <2>4. /\ Cardinality(Uncounted(s)') = owed - debt + debt2
        /\ Cardinality(Coming(s)') = come - coming + coming2
        /\ Cardinality(Leaving(s)') = left - leaving + leaving2
      BY <1>3, <1>4
  <2>5. pages2 + (owed - debt + debt2) + (come - coming + coming2)
          = members2 + lost2 + (left - leaving + leaving2)
    <3> HIDE DEF pages, pages2, debt, debt2, coming, coming2, leaving, leaving2,
                 members, members2, lost, lost2, owed, come, left
    <3> QED
        BY <2>1, <2>2, <2>3
  <2> QED
      BY <2>4, <2>5
<1> QED
    BY <1>8 DEF Balanced

\* A thread at one of the other labels stands for no update of a page count.
CountLabels == {"add_count", "evicted_forget", "count_down", "count_up"}

LEMMA NothingOwed ==
    ASSUME NEW t \in Threads, NEW s
    PROVE  /\ th[t].pc \notin CountLabels =>
                 Debt(t, s) = 0 /\ Arriving(th[t], s) = 0 /\ Departing(th[t], s) = 0
           /\ th'[t].pc \notin CountLabels =>
                 Debt(t, s)' = 0 /\ Arriving(th'[t], s) = 0 /\ Departing(th'[t], s) = 0
           /\ th[t].pc \notin Counting => Arriving(th[t], s) = 0 /\ Departing(th[t], s) = 0
           /\ th'[t].pc \notin Counting => Arriving(th'[t], s) = 0 /\ Departing(th'[t], s) = 0
<1>1. /\ t \in Uncounted(s) => th[t].pc \in CountLabels
      /\ t \in Uncounted(s)' => th'[t].pc \in CountLabels
    BY DebtType DEF CountLabels
<1> QED
    BY <1>1 DEF Debt, Arriving, Departing, Counting, CountLabels

\* Steps that change no page count and no metadata.
LEMMA QuietMatch ==
    ASSUME IndInv, IndInv', PlaceInv, Facts, Placed',
           UNCHANGED <<nr_pages, tracked, gen, overwritten>>, NEW t \in Threads,
           \A u \in Threads \ {t} : th'[u] = th[u],
           th[t].pc \notin CountLabels, th'[t].pc \notin CountLabels
    PROVE  Facts'
<1>1. ASSUME NEW s \in Slots PROVE Balanced(s)'
  <2>1. Members(s)' = Members(s) /\ Balanced(s)
      BY DEF Facts, Members
  <2>2. nr_pages[s] \in Int /\ overwritten[s] \in Int /\ Cardinality(Members(s)) \in Int
      BY MembersFinite DEF IndInv, Types
  <2>3. /\ Debt(t, s) = 0 /\ Debt(t, s)' = 0
        /\ Arriving(th[t], s) = 0 /\ Arriving(th'[t], s) = 0
        /\ Departing(th[t], s) = 0 /\ Departing(th'[t], s) = 0
      BY NothingOwed
  <2>4. (nr_pages'[s] - nr_pages[s]) + (Debt(t, s)' - Debt(t, s))
           + (Arriving(th'[t], s) - Arriving(th[t], s))
          = (Cardinality(Members(s)') - Cardinality(Members(s)))
              + (overwritten'[s] - overwritten[s])
              + (Departing(th'[t], s) - Departing(th[t], s))
      BY <2>1, <2>2, <2>3
  <2> QED
      BY <2>1, <2>4, BalanceStep
<1> QED
    BY <1>1 DEF Facts

-----------------------------------------------------------------------------
(* The steps that change page counts or metadata.                            *)

\* What is equal at slot s when nothing of it changes but the named shares.
LEMMA Unchanged ==
    ASSUME IndInv, NEW s \in Slots
    PROVE  /\ nr_pages[s] \in Int /\ overwritten[s] \in Nat
           /\ IsFiniteSet(Members(s)) /\ Cardinality(Members(s)) \in Nat
BY MembersFinite DEF IndInv, Types

\* The hook stores the folio's metadata, over what an earlier stay may have left.
LEMMA AddedMetaMatch ==
    ASSUME IndInv, IndInv', PlaceInv, Facts, NEW t \in Threads, FolioAddedMeta(t)
    PROVE  Facts'
<1> DEFINE f == th[t].f
           slot == th[t].slot
<1>1. /\ gen \in [Folios -> Slots] /\ tracked \subseteq Folios
      /\ overwritten \in [Slots -> Nat] /\ th \in [Threads -> ThreadStates]
      /\ lists \in [Slots -> Seq(Folios)]
    BY DEF IndInv, Types
<1>2. /\ th[t].pc = "add_meta" /\ th[t].pc \in AddLabels /\ UNCHANGED <<lists, nr_pages>>
    BY LabelsOfHooks DEF FolioAddedMeta, At
<1>3. /\ f \in Folios /\ f \notin listedFolios
      /\ \A u \in Threads \ {t} : th[u].pc \in LockedLabels => th[u].f # f
    BY <1>2, AdderFolio
<1>4. slot \in Slots
    BY <1>1 DEF ThreadStates
<1>5. CASE Return(t) /\ UNCHANGED <<overwritten, metadata>>
  <2>1. th'[t] = Idle /\ \A u \in Threads \ {t} : th'[u] = th[u]
      BY <1>1, <1>5 DEF Return
  <2>2. th[t].pc \notin CountLabels /\ th'[t].pc \notin CountLabels
      BY <1>2, <2>1, IdleState DEF CountLabels
  <2>3. Placed'
      BY <1>2, <1>5 DEF Facts, Placed, metadata
  <2> QED
      BY <1>2, <1>5, <2>1, <2>2, <2>3, QuietMatch DEF metadata
<1>6. CASE /\ IF f \in tracked
              THEN overwritten' = [overwritten EXCEPT ![gen[f]] = @ + 1]
              ELSE UNCHANGED overwritten
           /\ tracked' = tracked \cup {f}
           /\ gen' = [gen EXCEPT ![f] = slot]
           /\ th' = [th EXCEPT ![t] = AddState("add_count", f, slot)]
  <2>1. PICK new : new = AddState("add_count", f, slot)
      OBVIOUS
  <2>2. new.pc = "add_count" /\ new.slot = slot
      BY <2>1 DEF AddState, Idle
  <2>3. th'[t] = new /\ \A u \in Threads \ {t} : th'[u] = th[u]
      BY <1>1, <1>6, <2>1
  <2> HIDE DEF f, slot
  <2>4. \A g \in Folios : gen'[g] = IF g = f THEN slot ELSE gen[g]
      BY <1>1, <1>3, <1>6
  <2>5. \A u \in Threads \ {t} : th[u].pc = "evicted_forget" => gen'[th[u].f] = gen[th[u].f]
    <3> SUFFICES ASSUME NEW u \in Threads \ {t}, th[u].pc = "evicted_forget"
                 PROVE  gen'[th[u].f] = gen[th[u].f]
        OBVIOUS
    <3>1. th[u].pc \in LockedLabels /\ th[u].f \in Folios
        BY LabelsOfHooks DEF IndInv, HookInv, GoodState
    <3> QED
        BY <1>3, <2>4, <3>1
  <2>6. Placed'
    <3> SUFFICES ASSUME NEW s \in Slots, NEW g \in ToSet(lists[s])
                 PROVE  g \in tracked' /\ gen'[g] = s
        BY <1>2 DEF Placed
    <3>1. g \in tracked /\ gen[g] = s /\ g \in listedFolios
        BY DEF Facts, Placed, listedFolios
    <3> QED
        BY <1>1, <1>3, <1>6, <2>4, <3>1
  <2>7. ASSUME NEW s \in Slots PROVE Balanced(s)'
    <3>1. /\ nr_pages[s] \in Int /\ overwritten[s] \in Nat
          /\ IsFiniteSet(Members(s)) /\ Cardinality(Members(s)) \in Nat
        BY Unchanged
    <3>2. /\ Debt(t, s) = 0 /\ Debt(t, s)' = (IF s = slot THEN 1 ELSE 0)
          /\ Arriving(th[t], s) = 0 /\ Arriving(th'[t], s) = 0
          /\ Departing(th[t], s) = 0 /\ Departing(th'[t], s) = 0
      <4>1. t \in Uncounted(s)' <=> s = slot
          BY <2>2, <2>3, DebtType
      <4>2. th[t].pc \notin CountLabels /\ th'[t].pc \notin Counting
          BY <1>2, <2>2, <2>3 DEF CountLabels, Counting
      <4>3. Debt(t, s)' = IF s = slot THEN 1 ELSE 0
          BY <4>1 DEF Debt
      <4> QED
          BY <4>2, <4>3, NothingOwed
    <3>3. overwritten'[s] = IF f \in Members(s) THEN overwritten[s] + 1 ELSE overwritten[s]
        BY <1>1, <1>3, <1>6 DEF Members
    <3>4. Cardinality(Members(s)') + overwritten'[s] =
            Cardinality(Members(s)) + overwritten[s] + (IF s = slot THEN 1 ELSE 0)
      <4>1. CASE s = slot
        <5>1. Members(s)' = Members(s) \cup {f}
            BY <1>1, <1>3, <1>6, <2>4, <4>1 DEF Members
        <5>2. Cardinality(Members(s) \cup {f}) =
                IF f \in Members(s) THEN Cardinality(Members(s))
                                    ELSE Cardinality(Members(s)) + 1
            BY <3>1, FS_AddElement
        <5> QED
            BY <3>1, <3>3, <4>1, <5>1, <5>2
      <4>2. CASE s # slot
        <5>1. Members(s)' = Members(s) \ {f}
            BY <1>1, <1>3, <1>6, <2>4, <4>2 DEF Members
        <5>2. Cardinality(Members(s) \ {f}) =
                IF f \in Members(s) THEN Cardinality(Members(s)) - 1
                                    ELSE Cardinality(Members(s))
            BY <3>1, FS_RemoveElement
        <5> QED
            BY <3>1, <3>3, <4>2, <5>1, <5>2
      <4> QED
          BY <4>1, <4>2
    <3>5. Cardinality(Members(s)') \in Int /\ overwritten'[s] \in Int
        BY <3>1, <3>3, MembersPrimed
    <3>6. Balanced(s)
        BY DEF Facts
    <3>7. (nr_pages'[s] - nr_pages[s]) + (Debt(t, s)' - Debt(t, s))
             + (Arriving(th'[t], s) - Arriving(th[t], s))
            = (Cardinality(Members(s)') - Cardinality(Members(s)))
                + (overwritten'[s] - overwritten[s])
                + (Departing(th'[t], s) - Departing(th[t], s))
        BY <1>2, <3>1, <3>2, <3>4, <3>5
    <3> QED
        BY <2>3, <2>5, <3>6, <3>7, BalanceStep
  <2> QED
      BY <2>6, <2>7 DEF Facts
<1> QED
    BY <1>5, <1>6 DEF FolioAddedMeta, Goto, AddState

\* Steps that only count a page, or discount one, and settle what thread t owed.
LEMMA CountMatch ==
    ASSUME IndInv, IndInv', PlaceInv, Facts, NEW t \in Threads,
           UNCHANGED <<lists, tracked, gen, overwritten>>,
           \A u \in Threads \ {t} : th'[u] = th[u],
           \A s \in Slots :
              (nr_pages'[s] - nr_pages[s]) + (Debt(t, s)' - Debt(t, s))
                + (Arriving(th'[t], s) - Arriving(th[t], s))
                = Departing(th'[t], s) - Departing(th[t], s)
    PROVE  Facts'
<1>1. Placed'
    BY DEF Facts, Placed
<1>2. ASSUME NEW s \in Slots PROVE Balanced(s)'
  <2>1. Members(s)' = Members(s) /\ Balanced(s)
      BY DEF Facts, Members
  <2>2. overwritten[s] \in Int /\ Cardinality(Members(s)) \in Int
      BY Unchanged
  <2>3. Departing(th[t], s) \in Int /\ Departing(th'[t], s) \in Int
      BY SharesType
  <2>4. (nr_pages'[s] - nr_pages[s]) + (Debt(t, s)' - Debt(t, s))
           + (Arriving(th'[t], s) - Arriving(th[t], s))
          = (Cardinality(Members(s)') - Cardinality(Members(s)))
              + (overwritten'[s] - overwritten[s])
              + (Departing(th'[t], s) - Departing(th[t], s))
      BY <2>1, <2>2, <2>3
  <2> QED
      BY <2>1, <2>4, BalanceStep
<1> QED
    BY <1>1, <1>2 DEF Facts

LEMMA AddedCountMatch ==
    ASSUME IndInv, IndInv', PlaceInv, Facts, NEW t \in Threads, FolioAddedCount(t)
    PROVE  Facts'
<1> DEFINE slot == th[t].slot
<1>1. /\ th[t].pc = "add_count" /\ UNCHANGED <<lists, tracked, gen, overwritten>>
      /\ nr_pages' = PagesMore(slot)
      /\ th' = [th EXCEPT ![t] = AddState("add_list", th[t].f, slot)]
      /\ th \in [Threads -> ThreadStates] /\ Types
    BY DEF FolioAddedCount, At, Goto, AddState, metadata, history, IndInv, Types
<1>2. PICK new : new = AddState("add_list", th[t].f, slot)
    OBVIOUS
<1>3. th'[t] = new /\ new.pc = "add_list" /\ \A u \in Threads \ {t} : th'[u] = th[u]
    BY <1>1, <1>2 DEF AddState, Idle
<1>4. slot \in Slots
    BY <1>1 DEF ThreadStates
<1>5. ASSUME NEW s \in Slots
      PROVE  (nr_pages'[s] - nr_pages[s]) + (Debt(t, s)' - Debt(t, s))
                + (Arriving(th'[t], s) - Arriving(th[t], s))
                = Departing(th'[t], s) - Departing(th[t], s)
  <2>1. nr_pages'[s] = (IF s = slot THEN nr_pages[s] + 1 ELSE nr_pages[s])
        /\ nr_pages[s] \in Int
      BY <1>1, <1>4, PagesType, Unchanged
  <2>2. t \in Uncounted(s) <=> s = slot
      BY <1>1, DebtType
  <2>3. Debt(t, s) = IF s = slot THEN 1 ELSE 0
      BY <2>2 DEF Debt
  <2>4. th'[t].pc \notin CountLabels /\ th[t].pc \notin Counting
      BY <1>1, <1>3 DEF CountLabels, Counting
  <2>5. /\ Debt(t, s)' = 0 /\ Arriving(th[t], s) = 0 /\ Arriving(th'[t], s) = 0
        /\ Departing(th[t], s) = 0 /\ Departing(th'[t], s) = 0
      BY <2>4, NothingOwed
  <2> QED
      BY <2>1, <2>3, <2>5
<1> QED
    BY <1>1, <1>3, <1>5, CountMatch

LEMMA EvictedCountMatch ==
    ASSUME IndInv, IndInv', PlaceInv, Facts, NEW t \in Threads, FolioEvictedCount(t)
    PROVE  Facts'
<1> DEFINE f == th[t].f
<1>1. /\ th[t].pc = "evicted" /\ UNCHANGED <<lists, tracked, gen, overwritten>>
      /\ nr_pages' = PagesLess(gen[f])
      /\ th' = [th EXCEPT ![t] = EvictedState("evicted_forget", f)]
      /\ th \in [Threads -> ThreadStates] /\ gen \in [Folios -> Slots] /\ Types
    BY DEF FolioEvictedCount, PagesAfterEvicted, At, Goto, EvictedState, metadata, history,
           IndInv, Types
<1>2. PICK new : new = EvictedState("evicted_forget", f)
    OBVIOUS
<1>3. /\ th'[t] = new /\ new.pc = "evicted_forget" /\ new.f = f
      /\ \A u \in Threads \ {t} : th'[u] = th[u]
    BY <1>1, <1>2 DEF EvictedState, Idle
<1>4. gen[f] \in Slots
    BY <1>1, LabelsOfHooks DEF IndInv, HookInv, GoodState
<1>5. ASSUME NEW s \in Slots
      PROVE  (nr_pages'[s] - nr_pages[s]) + (Debt(t, s)' - Debt(t, s))
                + (Arriving(th'[t], s) - Arriving(th[t], s))
                = Departing(th'[t], s) - Departing(th[t], s)
  <2>1. nr_pages'[s] = (IF s = gen[f] THEN nr_pages[s] - 1 ELSE nr_pages[s])
        /\ nr_pages[s] \in Int
      BY <1>1, <1>4, PagesType, Unchanged
  <2>2. t \in Uncounted(s)' <=> s = gen[f]
      BY <1>1, <1>3, DebtType
  <2>3. Debt(t, s)' = IF s = gen[f] THEN 1 ELSE 0
      BY <2>2 DEF Debt
  <2>4. th[t].pc \notin CountLabels /\ th'[t].pc \notin Counting
      BY <1>1, <1>3 DEF CountLabels, Counting
  <2>5. /\ Debt(t, s) = 0 /\ Arriving(th[t], s) = 0 /\ Arriving(th'[t], s) = 0
        /\ Departing(th[t], s) = 0 /\ Departing(th'[t], s) = 0
      BY <2>4, NothingOwed
  <2> QED
      BY <2>1, <2>3, <2>5
<1> QED
    BY <1>1, <1>3, <1>5, CountMatch

LEMMA CountDownMatch ==
    ASSUME IndInv, IndInv', PlaceInv, Facts, NEW t \in Threads, CountDown(t)
    PROVE  Facts'
<1> DEFINE slot == th[t].slot
           next == NextSlot(slot)
           n == th[t].n
           new == [th[t] EXCEPT !.pc = "count_up", !.n = @ - 1]
<1>1. /\ th[t].pc = "count_down" /\ UNCHANGED <<lists, tracked, gen, overwritten>>
      /\ nr_pages' = PagesLess(slot) /\ th' = [th EXCEPT ![t] = new]
      /\ th \in [Threads -> ThreadStates] /\ Types
    BY DEF CountDown, PagesDown, At, Goto, metadata, history, IndInv, Types
<1>2. th[t] \in ThreadStates /\ slot \in Slots /\ n \in Nat
    BY <1>1 DEF ThreadStates
<1>3. next \in Slots /\ next # slot
    BY <1>2, ConstantsType
<1>4. new.pc = "count_up" /\ new.slot = slot /\ new.n = n - 1
    BY <1>2 DEF ThreadStates
<1>5. th'[t] = new /\ \A u \in Threads \ {t} : th'[u] = th[u]
    BY <1>1
<1> HIDE DEF new, slot, next, n
<1>6. ASSUME NEW s \in Slots
      PROVE  (nr_pages'[s] - nr_pages[s]) + (Debt(t, s)' - Debt(t, s))
                + (Arriving(th'[t], s) - Arriving(th[t], s))
                = Departing(th'[t], s) - Departing(th[t], s)
  <2>1. nr_pages'[s] = (IF s = slot THEN nr_pages[s] - 1 ELSE nr_pages[s])
        /\ nr_pages[s] \in Int
      BY <1>1, <1>2, PagesType, Unchanged
  <2>2. /\ t \notin Uncounted(s)
        /\ t \in Uncounted(s)' <=> s = next
      BY <1>1, <1>4, <1>5, DebtType DEF next
  <2>3. Debt(t, s) = 0 /\ Debt(t, s)' = IF s = next THEN 1 ELSE 0
      BY <2>2 DEF Debt
  <2>4. /\ Departing(th[t], s) = (IF s = slot THEN n ELSE 0)
        /\ Arriving(th[t], s) = (IF s = next THEN n ELSE 0)
      BY <1>1 DEF Departing, Arriving, Counting, slot, next, n
  <2>5. /\ Departing(th'[t], s) = (IF s = slot THEN n - 1 ELSE 0)
        /\ Arriving(th'[t], s) = (IF s = next THEN n - 1 ELSE 0)
      BY <1>4, <1>5 DEF Departing, Arriving, Counting, next
  <2> QED
      BY <1>2, <1>3, <2>1, <2>3, <2>4, <2>5
<1> QED
    BY <1>1, <1>5, <1>6, CountMatch

LEMMA CountUpMatch ==
    ASSUME IndInv, IndInv', PlaceInv, Facts, NEW t \in Threads, CountUp(t)
    PROVE  Facts'
<1> DEFINE slot == th[t].slot
           next == NextSlot(slot)
           n == th[t].n
<1>1. /\ th[t].pc = "count_up" /\ UNCHANGED <<lists, tracked, gen, overwritten>>
      /\ nr_pages' = PagesMore(next) /\ Resume(t, th[t])
      /\ th \in [Threads -> ThreadStates] /\ Types
    BY DEF CountUp, At, metadata, history, IndInv, Types
<1>2. th[t] \in ThreadStates /\ slot \in Slots /\ n \in Nat
    BY <1>1 DEF ThreadStates
<1>3. next \in Slots /\ next # slot
    BY <1>2, ConstantsType
<1>4. PICK new \in ThreadStates :
         /\ th' = [th EXCEPT ![t] = new]
         /\ new.pc \in {"idle", "pass2", "count_down"}
         /\ IF n > 0 THEN new.pc = "count_down" /\ new.slot = slot /\ new.n = n
                     ELSE new.pc # "count_down"
    BY <1>1, <1>2, ResumeStates
<1>5. th'[t] = new /\ \A u \in Threads \ {t} : th'[u] = th[u]
    BY <1>1, <1>4
<1> HIDE DEF slot, next, n
<1>6. ASSUME NEW s \in Slots
      PROVE  (nr_pages'[s] - nr_pages[s]) + (Debt(t, s)' - Debt(t, s))
                + (Arriving(th'[t], s) - Arriving(th[t], s))
                = Departing(th'[t], s) - Departing(th[t], s)
  <2>1. nr_pages'[s] = (IF s = next THEN nr_pages[s] + 1 ELSE nr_pages[s])
        /\ nr_pages[s] \in Int
      BY <1>1, <1>3, PagesType, Unchanged
  <2>2. /\ t \notin Uncounted(s)'
        /\ t \in Uncounted(s) <=> s = next
      BY <1>1, <1>4, <1>5, DebtType DEF next, slot
  <2>3. Debt(t, s)' = 0 /\ Debt(t, s) = IF s = next THEN 1 ELSE 0
      BY <2>2 DEF Debt
  <2>4. /\ Departing(th[t], s) = (IF s = slot THEN n ELSE 0)
        /\ Arriving(th[t], s) = (IF s = next THEN n ELSE 0)
      BY <1>1 DEF Departing, Arriving, Counting, slot, next, n
  <2>5. /\ Departing(th'[t], s) = (IF s = slot THEN n ELSE 0)
        /\ Arriving(th'[t], s) = (IF s = next THEN n ELSE 0)
      BY <1>2, <1>4, <1>5 DEF Departing, Arriving, Counting, next
  <2> QED
      BY <1>2, <2>1, <2>3, <2>4, <2>5
<1> QED
    BY <1>1, <1>5, <1>6, CountMatch


\* The hook deletes the metadata of a folio that has left the page cache and every
\* list; its page was discounted before.
LEMMA EvictedForgetMatch ==
    ASSUME IndInv, IndInv', PlaceInv, Facts, NEW t \in Threads, FolioEvictedForget(t)
    PROVE  Facts'
<1> DEFINE f == th[t].f
<1>1. /\ th[t].pc = "evicted_forget" /\ UNCHANGED <<lists, nr_pages, overwritten>>
      /\ tracked' = tracked \ {f} /\ gen' = [gen EXCEPT ![f] = 0]
      /\ th' = [th EXCEPT ![t] = Idle]
      /\ th \in [Threads -> ThreadStates] /\ gen \in [Folios -> Slots]
    BY DEF FolioEvictedForget, At, Return, history, IndInv, Types
<1>2. /\ f \in Folios /\ f \in tracked /\ f \notin listedFolios
      /\ \A u \in Threads \ {t} : th[u].pc \in LockedLabels => th[u].f # f
  <2>1. f \in Folios /\ th[t].pc \in LockedLabels
      BY <1>1, LabelsOfHooks DEF IndInv, HookInv, GoodState
  <2>2. f \in tracked /\ f \notin cached
      BY <1>1, LabelsOfHooks DEF PlaceInv, Knows
  <2>3. f \notin listedFolios
      BY <2>2 DEF PlaceInv, ListedOnce, listedFolios
  <2> QED
      BY <2>1, <2>2, <2>3 DEF PlaceInv, Exclusive
<1>3. th'[t] = Idle /\ \A u \in Threads \ {t} : th'[u] = th[u]
    BY <1>1
<1> DEFINE slot == gen[f]
<1>4. slot \in Slots
    BY <1>1, <1>2
<1>5. \A s \in Slots : Debt(t, s) = IF s = slot THEN 1 ELSE 0
  <2> SUFFICES ASSUME NEW s \in Slots PROVE Debt(t, s) = IF s = slot THEN 1 ELSE 0
      OBVIOUS
  <2>1. t \in Uncounted(s) <=> slot = s
      BY <1>1, DebtType
  <2> QED
      BY <2>1 DEF Debt
<1> HIDE DEF f, slot
<1>6. \A g \in Folios : g # f => gen'[g] = gen[g]
    BY <1>1
<1>7. \A u \in Threads \ {t} : th[u].pc = "evicted_forget" => gen'[th[u].f] = gen[th[u].f]
  <2> SUFFICES ASSUME NEW u \in Threads \ {t}, th[u].pc = "evicted_forget"
               PROVE  gen'[th[u].f] = gen[th[u].f]
      OBVIOUS
  <2>1. th[u].pc \in LockedLabels /\ th[u].f \in Folios
      BY LabelsOfHooks DEF IndInv, HookInv, GoodState
  <2> QED
      BY <1>2, <1>6, <2>1
<1>8. Placed'
  <2> SUFFICES ASSUME NEW s \in Slots, NEW g \in ToSet(lists[s])
               PROVE  g \in tracked' /\ gen'[g] = s
      BY <1>1 DEF Placed
  <2>1. g \in tracked /\ gen[g] = s /\ g \in listedFolios /\ g \in Folios
      BY DEF Facts, Placed, listedFolios, IndInv, Types
  <2> QED
      BY <1>1, <1>2, <1>6, <2>1
<1>9. ASSUME NEW s \in Slots PROVE Balanced(s)'
  <2>1. /\ nr_pages[s] \in Int /\ overwritten[s] \in Nat
        /\ IsFiniteSet(Members(s)) /\ Cardinality(Members(s)) \in Nat
      BY Unchanged
  <2>2. Cardinality(Members(s)') = Cardinality(Members(s)) - (IF s = slot THEN 1 ELSE 0)
    <3>1. tracked \subseteq Folios
        BY DEF IndInv, Types
    <3>2. Members(s)' = Members(s) \ {f}
        BY <1>1, <1>6, <3>1 DEF Members
    <3>3. f \in Members(s) <=> s = slot
        BY <1>2 DEF Members, slot
    <3>4. Cardinality(Members(s) \ {f}) =
            IF f \in Members(s) THEN Cardinality(Members(s)) - 1 ELSE Cardinality(Members(s))
        BY <2>1, FS_RemoveElement
    <3> QED
        BY <2>1, <3>2, <3>3, <3>4
  <2>3. th'[t].pc \notin CountLabels /\ th[t].pc \notin Counting
      BY <1>1, <1>3, IdleState DEF CountLabels, Counting
  <2>4. /\ Debt(t, s)' = 0 /\ Arriving(th[t], s) = 0 /\ Arriving(th'[t], s) = 0
        /\ Departing(th[t], s) = 0 /\ Departing(th'[t], s) = 0
      BY <2>3, NothingOwed
  <2>5. (nr_pages'[s] - nr_pages[s]) + (Debt(t, s)' - Debt(t, s))
           + (Arriving(th'[t], s) - Arriving(th[t], s))
          = (Cardinality(Members(s)') - Cardinality(Members(s)))
              + (overwritten'[s] - overwritten[s])
              + (Departing(th'[t], s) - Departing(th[t], s))
      BY <1>1, <1>5, <2>1, <2>2, <2>4
  <2>6. Balanced(s)
      BY DEF Facts
  <2> QED
      BY <1>3, <1>7, <2>5, <2>6, BalanceStep
<1> QED
    BY <1>8, <1>9 DEF Facts

\* An iteration of the list that its eviction_metadata describes: the folios it
\* passes over leave the slot, and the thread owes their pages to both counts.
LEMMA PassMatch ==
    ASSUME IndInv, IndInv', PlaceInv, Facts, NEW t \in Threads,
           th[t].pc \in {"pass1", "pass2"},
           NEW slot \in Slots, NEW thr, NEW room, Iterate(slot, slot, thr, room),
           AfterPass(t, slot, Len(Continued(lists[slot], Verdict(thr), room))),
           UNCHANGED <<nr_pages, tracked, overwritten>>
    PROVE  Facts'
<1> DEFINE list == lists[slot]
           next == NextSlot(slot)
           unvisited == Unvisited(list, Verdict(thr), room)
           evicted == Evicted(list, Verdict(thr), room)
           continued == Continued(list, Verdict(thr), room)
           visited == Visited(list, Verdict(thr), room)
           moved == ToSet(continued)
           n == Len(continued)
           stay == unvisited \o evicted
<1>1. /\ lists \in [Slots -> Seq(Folios)] /\ gen \in [Folios -> Slots]
      /\ nr_pages \in [Slots -> Int] /\ tracked \subseteq Folios
      /\ overwritten \in [Slots -> Nat] /\ th \in [Threads -> ThreadStates]
    BY DEF IndInv, Types
<1>2. next \in Slots /\ next # slot
    BY ConstantsType
<1>3. list \in Seq(Folios) /\ IsInjective(list)
    BY <1>1 DEF PlaceInv, ListedOnce
<1>4. \A s \in Slots : \A f \in ToSet(lists[s]) : f \in cached /\ f \in tracked /\ gen[f] = s
    BY DEF Facts, Placed, PlaceInv, ListedOnce
<1>5. /\ lists' = [s \in Slots |-> CASE s = slot -> stay
                                      [] s = next -> lists[s] \o continued
                                      [] OTHER -> lists[s]]
      /\ gen' = [f \in Folios |-> IF f \in moved THEN next ELSE gen[f]]
    BY DEF Iterate, GenAfterPromotion
<1>6. /\ unvisited \in Seq(Folios) /\ evicted \in Seq(Folios) /\ continued \in Seq(Folios)
      /\ n \in Nat
      /\ ToSet(visited) = ToSet(evicted) \cup moved
      /\ ToSet(list) = ToSet(visited) \cup ToSet(unvisited)
    BY <1>3, IterationProperties
<1>7. /\ IsInjective(unvisited) /\ IsInjective(evicted) /\ IsInjective(continued)
      /\ ToSet(unvisited) \cap ToSet(visited) = {} /\ ToSet(evicted) \cap moved = {}
    BY <1>3, IterationInjective
<1>8. PICK new \in ThreadStates :
         /\ th' = [th EXCEPT ![t] = new]
         /\ new.pc \in {"idle", "pass2", "count_down"}
         /\ IF n > 0 THEN new.pc = "count_down" /\ new.slot = slot /\ new.n = n
                     ELSE new.pc # "count_down"
    BY DEF AfterPass
<1> HIDE DEF unvisited, evicted, continued, visited, list, next
<1>9. stay \in Seq(Folios) /\ ToSet(stay) = ToSet(list) \ moved
    BY <1>6, <1>7, ToSetConcat
<1>10. moved \subseteq ToSet(list) /\ moved \subseteq tracked
       /\ \A f \in moved : f \in cached /\ gen[f] = slot
    BY <1>4, <1>6 DEF list
<1>11. IsFiniteSet(moved) /\ Cardinality(moved) = n
    BY <1>6, <1>7, InjectiveLen
<1>12. \A s \in Slots \ {slot, next} : lists'[s] = lists[s]
    BY <1>5
<1>13. lists'[slot] = stay /\ lists'[next] = lists[next] \o continued
    BY <1>2, <1>5
<1>14. ToSet(lists'[next]) = ToSet(lists[next]) \cup moved
    BY <1>1, <1>2, <1>6, <1>13, ToSetConcat
<1> HIDE DEF moved, stay, n
<1>15. \A f \in Folios : gen'[f] = IF f \in moved THEN next ELSE gen[f]
    BY <1>5
<1>16. th'[t] = new /\ \A u \in Threads \ {t} : th'[u] = th[u]
    BY <1>1, <1>8
<1>17. \A u \in Threads \ {t} : th[u].pc = "evicted_forget" => gen'[th[u].f] = gen[th[u].f]
  <2> SUFFICES ASSUME NEW u \in Threads \ {t}, th[u].pc = "evicted_forget"
               PROVE  gen'[th[u].f] = gen[th[u].f]
      OBVIOUS
  <2>1. th[u].f \in Folios
      BY LabelsOfHooks DEF IndInv, HookInv, GoodState
  <2>2. th[u].f \notin cached
      BY LabelsOfHooks DEF PlaceInv, Knows
  <2> QED
      BY <1>10, <1>15, <2>1, <2>2
<1>18. Placed'
  <2> SUFFICES ASSUME NEW s \in Slots, NEW f \in ToSet(lists'[s])
               PROVE  f \in tracked /\ gen'[f] = s
      BY DEF Placed
  <2>1. CASE s = slot
      BY <1>1, <1>4, <1>9, <1>13, <1>15, <2>1 DEF list
  <2>2. CASE s = next
    <3>1. \A g \in ToSet(lists[next]) : g \in tracked /\ gen[g] = next
        BY <1>2, <1>4
    <3> QED
        BY <1>1, <1>10, <1>14, <1>15, <2>2, <3>1
  <2>3. CASE s # slot /\ s # next
    <3>1. f \in ToSet(lists[s])
        BY <1>12, <2>3
    <3>2. f \in tracked /\ gen[f] = s /\ f \notin moved
        BY <1>4, <1>10, <2>3, <3>1
    <3> QED
        BY <1>1, <1>15, <3>2
  <2> QED
      BY <2>1, <2>2, <2>3
<1>19. ASSUME NEW s \in Slots PROVE Balanced(s)'
  <2>1. /\ nr_pages[s] \in Int /\ overwritten[s] \in Nat
        /\ IsFiniteSet(Members(s)) /\ Cardinality(Members(s)) \in Nat
      BY Unchanged
  <2>2. Cardinality(Members(s)') = Cardinality(Members(s))
           - (IF s = slot THEN n ELSE 0) + (IF s = next THEN n ELSE 0)
    <3>1. CASE s = slot
      <4>1. Members(s)' = Members(s) \ moved /\ Members(s) \cap moved = moved
          BY <1>1, <1>2, <1>10, <1>15, <3>1 DEF Members
      <4>2. Cardinality(Members(s) \ moved)
              = Cardinality(Members(s)) - Cardinality(Members(s) \cap moved)
          BY <2>1, FS_Difference
      <4>3. Cardinality(Members(s)') = Cardinality(Members(s)) - n
          BY <1>11, <4>1, <4>2
      <4>4. s # next /\ n \in Nat
          BY <1>2, <1>6, <3>1 DEF n
      <4> QED
          BY <2>1, <3>1, <4>3, <4>4
    <3>2. CASE s = next
      <4>1. Members(s)' = Members(s) \cup moved /\ Members(s) \cap moved = {}
          BY <1>1, <1>2, <1>10, <1>15, <3>2 DEF Members
      <4>2. Cardinality(Members(s) \cap moved) = 0
          BY <4>1, FS_EmptySet
      <4>3. Cardinality(Members(s) \cup moved)
              = Cardinality(Members(s)) + Cardinality(moved) - Cardinality(Members(s) \cap moved)
          BY <1>11, <2>1, FS_Union
      <4> QED
          BY <1>2, <1>6, <1>11, <2>1, <3>2, <4>1, <4>2, <4>3
    <3>3. CASE s # slot /\ s # next
      <4>1. Members(s)' = Members(s)
          BY <1>1, <1>10, <1>15, <3>3 DEF Members
      <4> QED
          BY <2>1, <3>3, <4>1
    <3> QED
        BY <3>1, <3>2, <3>3
  <2>3. /\ Departing(th'[t], s) = (IF s = slot THEN n ELSE 0)
        /\ Arriving(th'[t], s) = (IF s = next THEN n ELSE 0)
    <3>1. CASE n > 0
        BY <1>8, <1>16, <3>1 DEF Departing, Arriving, Counting, next
    <3>2. CASE ~(n > 0)
      <4>1. n = 0 /\ th'[t].pc \notin Counting
          BY <1>6, <1>8, <1>16, <3>2 DEF Counting, n
      <4> QED
          BY <4>1 DEF Departing, Arriving
    <3> QED
        BY <3>1, <3>2
  <2>4. /\ Debt(t, s) = 0 /\ Arriving(th[t], s) = 0 /\ Departing(th[t], s) = 0
    <3>1. th[t].pc \notin CountLabels
        BY DEF CountLabels
    <3> QED
        BY <3>1, NothingOwed
  <2>5. Debt(t, s)' = 0
    <3>1. t \notin Uncounted(s)'
        BY <1>8, <1>16, DebtType
    <3> QED
        BY <3>1 DEF Debt
  <2>6. (nr_pages'[s] - nr_pages[s]) + (Debt(t, s)' - Debt(t, s))
           + (Arriving(th'[t], s) - Arriving(th[t], s))
          = (Cardinality(Members(s)') - Cardinality(Members(s)))
              + (overwritten'[s] - overwritten[s])
              + (Departing(th'[t], s) - Departing(th[t], s))
      BY <1>2, <1>6, <2>1, <2>2, <2>3, <2>4, <2>5 DEF n
  <2>7. Balanced(s)
      BY DEF Facts
  <2> QED
      BY <1>16, <1>17, <2>6, <2>7, BalanceStep
<1> QED
    BY <1>18, <1>19 DEF Facts

-----------------------------------------------------------------------------
(* Steps that owe no count and settle none.                                  *)

LEMMA SameMatch ==
    ASSUME Facts, UNCHANGED <<lists, nr_pages, tracked, gen, overwritten, th>>
    PROVE  Facts'
BY DEF Facts, Placed, Balanced, Uncounted, Coming, Leaving, Promotions, Promoting,
       ThreadsAt, Members

\* Aging, retirement and a failed iteration leave the lists alone.
LEMMA SequenceMatch ==
    ASSUME IndInv, IndInv', PlaceInv, Facts, NEW t \in Threads,
           Age(t) \/ Retire(t) \/ IterationFails(t)
    PROVE  Facts'
<1>1. UNCHANGED <<lists, nr_pages, tracked, gen, overwritten>>
    BY DEF Age, Retire, IterationFails, metadata, history
<1>2. th[t].pc \notin CountLabels
    BY DEF Age, Retire, IterationFails, At, CountLabels
<1>3. \E new : th' = [th EXCEPT ![t] = new] /\ new.pc \notin CountLabels
  <2>1. CASE Age(t)
    <3> DEFINE new == RetireState(min_seq, max_seq)
    <3>1. th' = [th EXCEPT ![t] = new] /\ new.pc \notin CountLabels
        BY <2>1 DEF Age, Goto, RetireState, Idle, CountLabels
    <3> QED
        BY <3>1
  <2>2. CASE Retire(t)
    <3> DEFINE new == Pass1State(lru_gen_from_seq(min_seq'))
    <3>1. th' = [th EXCEPT ![t] = new] /\ new.pc \notin CountLabels
        BY <2>2 DEF Retire, Goto, Pass1State, Idle, CountLabels
    <3> QED
        BY <3>1
  <2>3. CASE IterationFails(t)
      BY <2>3, IdleState DEF IterationFails, Return, CountLabels
  <2> QED
      BY <2>1, <2>2, <2>3
<1>4. th'[t].pc \notin CountLabels /\ \A u \in Threads \ {t} : th'[u] = th[u]
    BY <1>3 DEF IndInv, Types
<1>5. Placed'
    BY <1>1 DEF Facts, Placed
<1> QED
    BY <1>1, <1>2, <1>4, <1>5, QuietMatch

\* A folio enters the page cache: it is on no list yet.
LEMMA AddedMatch ==
    ASSUME IndInv, IndInv', PlaceInv, Facts, NEW t \in Threads, NEW f \in Folios,
           FolioAdded(t, f)
    PROVE  Facts'
<1>1. /\ th[t].pc = "idle" /\ UNCHANGED <<lists, nr_pages, tracked, gen, overwritten>>
      /\ th \in [Threads -> ThreadStates]
    BY DEF FolioAdded, At, metadata, history, IndInv, Types
<1>2. th'[t].pc \notin CountLabels /\ \A u \in Threads \ {t} : th'[u] = th[u]
  <2>1. CASE UNCHANGED th
      BY <1>1, <2>1 DEF CountLabels
  <2>2. CASE ~UNCHANGED th
    <3>1. PICK slot : th' = [th EXCEPT ![t] = AddState("add_meta", f, slot)]
        BY <2>2 DEF FolioAdded, Goto, AddState
    <3>2. PICK new : new = AddState("add_meta", f, slot)
        OBVIOUS
    <3>3. th' = [th EXCEPT ![t] = new] /\ new.pc = "add_meta"
        BY <3>1, <3>2 DEF AddState, Idle
    <3> QED
        BY <1>1, <3>3 DEF CountLabels
  <2> QED
      BY <2>1, <2>2
<1>3. th[t].pc \notin CountLabels
    BY <1>1 DEF CountLabels
<1>4. Placed'
    BY <1>1 DEF Facts, Placed
<1> QED
    BY <1>1, <1>2, <1>3, <1>4, QuietMatch

\* The folio is linked to the list of the slot that its metadata names.
LEMMA AddedListMatch ==
    ASSUME IndInv, IndInv', PlaceInv, Facts, NEW t \in Threads, FolioAddedList(t)
    PROVE  Facts'
<1> DEFINE f == th[t].f
           slot == th[t].slot
<1>1. /\ th[t].pc = "add_list" /\ th[t].pc \in AddLabels
      /\ UNCHANGED <<nr_pages, tracked, gen, overwritten>>
      /\ th' = [th EXCEPT ![t] = Idle]
      /\ \/ lists' = [lists EXCEPT ![slot] = ListAdd(lists[slot], f)]
         \/ UNCHANGED lists
    BY LabelsOfHooks DEF FolioAddedList, At, Return, metadata, history
<1>2. /\ slot \in Slots /\ lists \in [Slots -> Seq(Folios)]
      /\ th \in [Threads -> ThreadStates]
    BY DEF IndInv, Types, ThreadStates
<1>3. f \in Folios /\ f \in tracked /\ gen[f] = slot
    BY <1>1, AdderFolio DEF PlaceInv, Knows
<1>4. th'[t].pc \notin CountLabels /\ \A u \in Threads \ {t} : th'[u] = th[u]
    BY <1>1, <1>2, IdleState DEF CountLabels
<1>5. th[t].pc \notin CountLabels
    BY <1>1 DEF CountLabels
<1> HIDE DEF f, slot
<1>6. Placed'
  <2>1. ASSUME NEW s \in Slots, NEW g \in ToSet(lists'[s])
        PROVE  g \in tracked /\ gen[g] = s
    <3>1. ToSet(ListAdd(lists[slot], f)) = ToSet(lists[slot]) \cup {f}
        BY <1>2, <1>3, AddProperties
    <3>2. g \in ToSet(lists[s]) \/ (g = f /\ s = slot)
        BY <1>1, <1>2, <2>1, <3>1
    <3> QED
        BY <1>3, <3>2 DEF Facts, Placed
  <2> QED
      BY <1>1, <2>1 DEF Placed
<1> QED
    BY <1>1, <1>4, <1>5, <1>6, QuietMatch

\* The kernel unlinks a folio, and its metadata stay for now.
LEMMA EvictedMatch ==
    ASSUME IndInv, IndInv', PlaceInv, Facts, NEW t \in Threads, NEW f \in Folios,
           FolioEvicted(t, f)
    PROVE  Facts'
<1>1. /\ th[t].pc = "idle" /\ UNCHANGED <<nr_pages, tracked, gen, overwritten>>
      /\ lists' = [s \in Slots |-> ListDel(lists[s], f)]
      /\ \/ th' = [th EXCEPT ![t] = EvictedState("evicted", f)]
         \/ UNCHANGED th
      /\ th \in [Threads -> ThreadStates] /\ lists \in [Slots -> Seq(Folios)]
    BY DEF FolioEvicted, At, Goto, EvictedState, metadata, history, IndInv, Types
<1>2. th'[t].pc \notin CountLabels /\ \A u \in Threads \ {t} : th'[u] = th[u]
  <2>1. PICK new : new = EvictedState("evicted", f)
      OBVIOUS
  <2>2. new.pc = "evicted"
      BY <2>1 DEF EvictedState, Idle
  <2> QED
      BY <1>1, <2>1, <2>2 DEF CountLabels
<1>3. th[t].pc \notin CountLabels
    BY <1>1 DEF CountLabels
<1>4. Placed'
  <2>1. \A s \in Slots : ToSet(lists'[s]) = ToSet(lists[s]) \ {f}
      BY <1>1, DelProperties
  <2> QED
      BY <1>1, <2>1 DEF Facts, Placed
<1> QED
    BY <1>1, <1>2, <1>3, <1>4, QuietMatch

LEMMA InitMatch == Init => Facts
<1> SUFFICES ASSUME Init PROVE Facts
    OBVIOUS
<1>1. /\ \A s \in Slots : lists[s] = <<>> /\ nr_pages[s] = 0 /\ overwritten[s] = 0
      /\ \A t \in Threads : th[t].pc = "idle"
      /\ tracked = {}
    BY IdleState DEF Init
<1>2. Placed
  <2>1. ToSet(<<>>) = {}
      BY DEF ToSet
  <2> QED
      BY <1>1, <2>1 DEF Placed
<1>3. ASSUME NEW s \in Slots PROVE Balanced(s)
  <2>1. Members(s) = {} /\ Uncounted(s) = {}
      BY <1>1 DEF Members, Uncounted, ThreadsAt
  <2>2. Coming(s) = {} /\ Leaving(s) = {}
      BY <1>1 DEF Coming, Leaving, Promotions, Promoting, ThreadsAt
  <2>3. Cardinality({}) = 0
      BY FS_EmptySet
  <2> QED
      BY <1>1, <2>1, <2>2, <2>3 DEF Balanced
<1> QED
    BY <1>2, <1>3 DEF Facts

LEMMA MatchStep == IndInv /\ IndInv' /\ PlaceInv /\ MatchInv /\ [Next]_vars => MatchInv'
<1> SUFFICES ASSUME IndInv, IndInv', PlaceInv, MatchInv, [Next]_vars, ~stale' PROVE Facts'
    BY DEF MatchInv
<1> USE DEF history
<1>1. ASSUME UNCHANGED vars \/ \E f \in Folios : SetFlags(f) \/ FolioAccessed(f)
      PROVE  Facts'
  <2>1. ~stale /\ UNCHANGED <<lists, nr_pages, tracked, gen, overwritten, th>>
      BY <1>1 DEF vars, SetFlags, FolioAccessed, metadata
  <2> QED
      BY <2>1, SameMatch DEF MatchInv
<1>2. ASSUME NEW t \in Threads, Age(t) \/ Retire(t) \/ IterationFails(t) PROVE Facts'
  <2>1. Facts
      BY <1>2 DEF Age, Retire, IterationFails, MatchInv
  <2> QED
      BY <1>2, <2>1, SequenceMatch
\* The hooks.
<1>3. ASSUME NEW t \in Threads, NEW f \in Folios, FolioAdded(t, f) PROVE Facts'
    BY <1>3, AddedMatch DEF FolioAdded, MatchInv
<1>4. ASSUME NEW t \in Threads, FolioAddedMeta(t) PROVE Facts'
    BY <1>4, AddedMetaMatch DEF FolioAddedMeta, MatchInv
<1>5. ASSUME NEW t \in Threads, FolioAddedCount(t) PROVE Facts'
    BY <1>5, AddedCountMatch DEF FolioAddedCount, MatchInv
<1>6. ASSUME NEW t \in Threads, FolioAddedList(t) PROVE Facts'
    BY <1>6, AddedListMatch DEF FolioAddedList, MatchInv
<1>7. ASSUME NEW t \in Threads, NEW f \in Folios, FolioEvicted(t, f) PROVE Facts'
    BY <1>7, EvictedMatch DEF FolioEvicted, MatchInv
<1>8. ASSUME NEW t \in Threads, FolioEvictedCount(t) PROVE Facts'
    BY <1>8, EvictedCountMatch DEF FolioEvictedCount, MatchInv
<1>9. ASSUME NEW t \in Threads, FolioEvictedForget(t) PROVE Facts'
    BY <1>9, EvictedForgetMatch DEF FolioEvictedForget, MatchInv
\* The callbacks and the two passes of an eviction: the second one is not stale.
<1>10. ASSUME NEW t \in Threads, CountDown(t) PROVE Facts'
    BY <1>10, CountDownMatch DEF CountDown, MatchInv
<1>11. ASSUME NEW t \in Threads, CountUp(t) PROVE Facts'
    BY <1>11, CountUpMatch DEF CountUp, MatchInv
<1>12. ASSUME NEW t \in Threads, FirstPass(t) PROVE Facts'
  <2> DEFINE slot == th[t].slot
  <2>1. /\ slot \in Slots /\ Facts /\ th[t].pc \in {"pass1", "pass2"}
        /\ UNCHANGED <<nr_pages, tracked, overwritten>>
      BY <1>12 DEF FirstPass, At, MatchInv, IndInv, Types, ThreadStates
  <2>2. PICK thr \in Thresholds :
           /\ Iterate(slot, slot, thr, Request)
           /\ AfterPass(t, slot, Len(Continued(lists[slot], Verdict(thr), Request)))
      BY <1>12, FirstPassStep
  <2> HIDE DEF slot
  <2> QED
      BY <2>1, <2>2, PassMatch
<1>13. ASSUME NEW t \in Threads, SecondPass(t) PROVE Facts'
  <2> DEFINE slot == th[t].slot
             room == Request - th[t].nr
             thr == th[t].thr
  <2>1. /\ slot \in Slots /\ Facts /\ th[t].pc \in {"pass1", "pass2"}
        /\ lru_gen_from_seq(min_seq) = slot
        /\ UNCHANGED <<nr_pages, tracked, overwritten>>
      BY <1>13 DEF SecondPass, At, MatchInv, IndInv, Types, ThreadStates
  <2>2. /\ Iterate(slot, slot, thr, room)
        /\ AfterPass(t, slot, Len(Continued(lists[slot], Verdict(thr), room)))
      BY <1>13, <2>1, SecondPassStep DEF SecondPass
  <2> HIDE DEF slot, room, thr
  <2> QED
      BY <2>1, <2>2, PassMatch
<1> QED
    BY <1>1, <1>2, <1>3, <1>4, <1>5, <1>6, <1>7, <1>8, <1>9, <1>10, <1>11, <1>12, <1>13
       DEF Next

LEMMA MatchInductive == Spec => []MatchInv
<1>1. Init => MatchInv
    BY InitMatch DEF MatchInv
<1>2. IndInv /\ IndInv' /\ PlaceInv /\ MatchInv /\ [Next]_vars => MatchInv'
    BY MatchStep
<1> QED
    BY <1>1, <1>2, Inductive, PlaceInductive, PTL DEF Spec

\* Until a second pass goes on with the eviction_metadata of another list, a folio
\* on the list of a slot has metadata that names the slot: an addition that raced
\* with aging, a promotion and an eviction all leave the two in agreement.
THEOREM GenMatchesListHolds == Spec => []GenMatchesList
<1>1. MatchInv => GenMatchesList
    BY DEF MatchInv, Facts, Placed, GenMatchesList
<1> QED
    BY <1>1, MatchInductive, PTL

\* Under the same condition a slot's page count, which gen_almost_empty and aging
\* compare, is the number of folios whose metadata names the slot and of the entries
\* that mglru_folio_evicted left behind and lru_gen_add_folio overwrote, but for the
\* updates under way: additions and removals between the map and the count, and the
\* promotions that a callback has yet to take from one count and add to the next.
THEOREM PagesMatchGensHolds == Spec => []PagesMatchGens
<1>1. MatchInv => PagesMatchGens
    BY DEF MatchInv, Facts, Balanced, Members, PagesMatchGens
<1> QED
    BY <1>1, MatchInductive, PTL

-----------------------------------------------------------------------------
(* The sum of the page counts.                                               *)

\* What a change of one slot does to the total.
LEMMA TotalType == ASSUME NEW count \in [Slots -> Int] PROVE Total(count) \in Int
<1>1. count[0] \in Int /\ count[1] \in Int /\ count[2] \in Int /\ count[3] \in Int
    BY ConstantsType
<1> QED
    BY <1>1 DEF Total

LEMMA TotalChange ==
    ASSUME NEW count \in [Slots -> Int], NEW new \in [Slots -> Int], NEW s \in Slots,
           \A r \in Slots \ {s} : new[r] = count[r]
    PROVE  Total(new) = Total(count) + (new[s] - count[s])
<1>1. Slots = {0, 1, 2, 3}
    BY ConstantsType
<1>2. /\ count[0] \in Int /\ count[1] \in Int /\ count[2] \in Int /\ count[3] \in Int
      /\ new[0] \in Int /\ new[1] \in Int /\ new[2] \in Int /\ new[3] \in Int
    BY <1>1
<1>3. /\ 0 # s => new[0] = count[0]
      /\ 1 # s => new[1] = count[1]
      /\ 2 # s => new[2] = count[2]
      /\ 3 # s => new[3] = count[3]
    BY <1>1
<1> QED
    BY <1>1, <1>2, <1>3 DEF Total

LEMMA CountTotal ==
    ASSUME IndInv, NEW slot \in Slots
    PROVE  /\ Total(nr_pages) \in Int
           /\ Total(PagesMore(slot)) = Total(nr_pages) + 1
           /\ Total(PagesLess(slot)) = Total(nr_pages) - 1
<1>1. Types /\ nr_pages \in [Slots -> Int] /\ \A s \in Slots : nr_pages[s] \in Int
    BY DEF IndInv, Types
<1> DEFINE more == PagesMore(slot)
           less == PagesLess(slot)
<1>2. /\ more \in [Slots -> Int] /\ less \in [Slots -> Int]
      /\ more[slot] - nr_pages[slot] = 1 /\ less[slot] - nr_pages[slot] = -1
      /\ \A r \in Slots \ {slot} : more[r] = nr_pages[r] /\ less[r] = nr_pages[r]
    BY <1>1, PagesType
<1> HIDE DEF more, less
<1>3. Total(nr_pages) \in Int
    BY <1>1, TotalType
<1>4. Total(more) = Total(nr_pages) + (more[slot] - nr_pages[slot])
    BY <1>1, <1>2, TotalChange
<1>5. Total(less) = Total(nr_pages) + (less[slot] - nr_pages[slot])
    BY <1>1, <1>2, TotalChange
<1> QED
    BY <1>2, <1>3, <1>4, <1>5 DEF more, less

\* The threads between the two halves of an update.
Halfway == {"add_count", "count_up", "evicted_forget"}
InFlight == Cardinality(ThreadsAt(Halfway))
Half(t) == IF th[t].pc \in Halfway THEN 1 ELSE 0

LEMMA InFlightStep ==
    ASSUME PlaceInv, NEW t \in Threads, \A u \in Threads \ {t} : th'[u] = th[u]
    PROVE  /\ InFlight \in Nat /\ InFlight' \in Nat
           /\ InFlight' = InFlight - Half(t) + Half(t)'
<1> DEFINE A == ThreadsAt(Halfway)
           B == ThreadsAt(Halfway)'
<1>1. A \in SUBSET Active
    BY DEF ThreadsAt, Active, Halfway
<1>2. IsFiniteSet(A)
    BY <1>1, FS_Subset DEF PlaceInv
<1>3. /\ A \ {t} = B \ {t}
      /\ t \in A <=> th[t].pc \in Halfway
      /\ t \in B <=> th'[t].pc \in Halfway
    BY DEF ThreadsAt
<1> HIDE DEF A, B
<1>4. /\ Cardinality(A) \in Nat /\ Cardinality(B) \in Nat
      /\ (t \in A <=> t \in B) => Cardinality(B) = Cardinality(A)
      /\ t \in A /\ t \notin B => Cardinality(B) = Cardinality(A) - 1
      /\ t \notin A /\ t \in B => Cardinality(B) = Cardinality(A) + 1
    BY <1>2, <1>3, OneElement
<1>5. /\ Cardinality(A) \in Nat /\ Cardinality(B) \in Nat
      /\ Cardinality(B) = Cardinality(A) - Half(t) + Half(t)'
    BY <1>3, <1>4 DEF Half
<1> QED
    BY <1>5 DEF A, B, InFlight

\* What a step of thread t has to show: its changes to the account cancel out.
LEMMA AccountStep ==
    ASSUME IndInv, IndInv', PlaceInv, PagesConserved, NEW t \in Threads,
           \A u \in Threads \ {t} : th'[u] = th[u],
           NEW pages \in Int, NEW entries \in Int, NEW lost \in Int,
           Total(nr_pages)' = Total(nr_pages) + pages,
           Cardinality(tracked)' = Cardinality(tracked) + entries,
           Total(overwritten)' = Total(overwritten) + lost,
           pages + (Half(t)' - Half(t)) = entries + lost
    PROVE  PagesConserved'
<1>1. Total(nr_pages) \in Int /\ Total(overwritten) \in Int /\ Cardinality(tracked) \in Int
  <2>1. nr_pages \in [Slots -> Int] /\ overwritten \in [Slots -> Int] /\ Types
      BY DEF IndInv, Types
  <2>2. Total(nr_pages) \in Int
      BY <2>1, TotalType
  <2>3. Total(overwritten) \in Int
      BY <2>1, TotalType
  <2>4. Cardinality(tracked) \in Nat
      BY <2>1, MembersFinite, FS_CardinalityType
  <2> QED
      BY <2>2, <2>3, <2>4
<1>2. InFlight \in Nat /\ InFlight' = InFlight - Half(t) + Half(t)'
    BY InFlightStep
<1>3. Half(t) \in Int /\ Half(t)' \in Int
    BY DEF Half
<1>4. Total(nr_pages) + InFlight = Cardinality(tracked) + Total(overwritten)
    BY DEF PagesConserved, InFlight, Halfway
<1>5. Total(nr_pages)' + InFlight' = Cardinality(tracked)' + Total(overwritten)'
    BY <1>1, <1>2, <1>3, <1>4
<1> QED
    BY <1>5 DEF PagesConserved, InFlight, Halfway

\* A step that changes neither counts nor entries, and is no half of an update.
LEMMA QuietAccount ==
    ASSUME IndInv, IndInv', PlaceInv, PagesConserved, NEW t \in Threads,
           \A u \in Threads \ {t} : th'[u] = th[u],
           th[t].pc \notin Halfway, th'[t].pc \notin Halfway,
           UNCHANGED <<nr_pages, tracked, overwritten>>
    PROVE  PagesConserved'
<1>1. InFlight' = InFlight
  <2>1. Half(t) = 0 /\ Half(t)' = 0
      BY DEF Half
  <2> QED
      BY <2>1, InFlightStep
<1> QED
    BY <1>1 DEF PagesConserved, InFlight, Halfway, Total

LEMMA InitConserved == Init => PagesConserved
<1> SUFFICES ASSUME Init PROVE PagesConserved
    OBVIOUS
<1>1. Total(nr_pages) = 0 /\ Total(overwritten) = 0
    BY ConstantsType DEF Init, Total
<1>2. tracked = {} /\ ThreadsAt({"add_count", "count_up", "evicted_forget"}) = {}
    BY IdleState DEF Init, ThreadsAt
<1>3. Cardinality({}) = 0
    BY FS_EmptySet
<1> QED
    BY <1>1, <1>2, <1>3 DEF PagesConserved

\* The hook stores metadata and owes their page; what it overwrites keeps its page.
LEMMA AddedMetaConserves ==
    ASSUME IndInv, IndInv', PlaceInv, PagesConserved, NEW t \in Threads, FolioAddedMeta(t)
    PROVE  PagesConserved'
<1> DEFINE f == th[t].f
           slot == th[t].slot
<1>1. /\ th[t].pc = "add_meta" /\ th[t].pc \in AddLabels /\ nr_pages' = nr_pages
      /\ th \in [Threads -> ThreadStates] /\ gen \in [Folios -> Slots] /\ Types
      /\ overwritten \in [Slots -> Nat]
    BY LabelsOfHooks DEF FolioAddedMeta, At, IndInv, Types
<1>2. f \in Folios /\ Half(t) = 0 /\ Total(nr_pages)' = Total(nr_pages) + 0
  <2>1. nr_pages \in [Slots -> Int]
      BY <1>1 DEF Types
  <2>2. Total(nr_pages) \in Int
      BY <2>1, TotalType
  <2> QED
      BY <1>1, <2>2, AdderFolio DEF Half, Halfway, Total
<1>3. CASE Return(t) /\ UNCHANGED <<overwritten, metadata>>
  <2>1. th'[t] = Idle /\ \A u \in Threads \ {t} : th'[u] = th[u]
      BY <1>1, <1>3 DEF Return
  <2>2. th[t].pc \notin Halfway /\ th'[t].pc \notin Halfway
      BY <1>1, <2>1, IdleState DEF Halfway
  <2> QED
      BY <1>1, <1>3, <2>1, <2>2, QuietAccount DEF metadata
<1>4. CASE /\ IF f \in tracked
              THEN overwritten' = [overwritten EXCEPT ![gen[f]] = @ + 1]
              ELSE UNCHANGED overwritten
           /\ tracked' = tracked \cup {f}
           /\ th' = [th EXCEPT ![t] = AddState("add_count", f, slot)]
  <2>1. PICK new : new = AddState("add_count", f, slot)
      OBVIOUS
  <2>2. th'[t] = new /\ new.pc = "add_count" /\ \A u \in Threads \ {t} : th'[u] = th[u]
      BY <1>1, <1>4, <2>1 DEF AddState, Idle
  <2>3. Half(t)' = 1
      BY <2>2 DEF Half, Halfway
  <2>4. IsFiniteSet(tracked) /\ Cardinality(tracked) \in Nat
      BY <1>1, MembersFinite, FS_CardinalityType
  <2>5. Total(overwritten) \in Int
    <3>1. overwritten \in [Slots -> Int]
        BY <1>1
    <3> QED
        BY <3>1, TotalType
  <2> HIDE DEF f, slot
  <2>6. CASE f \in tracked
    <3>1. tracked' = tracked /\ gen[f] \in Slots
        BY <1>1, <1>2, <1>4, <2>6
    <3> DEFINE more == overwritten'
    <3>2. /\ overwritten \in [Slots -> Int]
          /\ more \in [Slots -> Int] /\ more[gen[f]] - overwritten[gen[f]] = 1
          /\ \A r \in Slots \ {gen[f]} : more[r] = overwritten[r]
        BY <1>1, <1>4, <2>6, <3>1
    <3> HIDE DEF more
    <3>3. Total(more) = Total(overwritten) + (more[gen[f]] - overwritten[gen[f]])
        BY <3>1, <3>2, TotalChange
    <3>4. Total(overwritten)' = Total(overwritten) + 1
        BY <2>5, <3>2, <3>3 DEF more, Total
    <3>5. Cardinality(tracked)' = Cardinality(tracked) + 0
        BY <2>4, <3>1
    <3>6. 0 + (Half(t)' - Half(t)) = 0 + 1
        BY <1>2, <2>3
    <3> QED
        BY <1>2, <2>2, <3>4, <3>5, <3>6, AccountStep
  <2>7. CASE f \notin tracked
    <3>1. Cardinality(tracked)' = Cardinality(tracked) + 1
      <4>1. Cardinality(tracked \cup {f}) = Cardinality(tracked) + 1
          BY <2>4, <2>7, FS_AddElement
      <4> QED
          BY <1>4, <4>1
    <3>2. Total(overwritten)' = Total(overwritten) + 0
        BY <1>4, <2>5, <2>7 DEF Total
    <3>3. 0 + (Half(t)' - Half(t)) = 1 + 0
        BY <1>2, <2>3
    <3> QED
        BY <1>2, <2>2, <3>1, <3>2, <3>3, AccountStep
  <2> QED
      BY <2>6, <2>7
<1> QED
    BY <1>3, <1>4 DEF FolioAddedMeta, Goto, AddState

\* A step that counts a page: it settles an addition or a promotion.
LEMMA MoreConserves ==
    ASSUME IndInv, IndInv', PlaceInv, PagesConserved, NEW t \in Threads,
           \A u \in Threads \ {t} : th'[u] = th[u],
           NEW slot \in Slots, nr_pages' = PagesMore(slot), UNCHANGED <<tracked, overwritten>>,
           th[t].pc \in Halfway, th'[t].pc \notin Halfway
    PROVE  PagesConserved'
<1>1. Total(nr_pages)' = Total(nr_pages) + 1
    BY CountTotal DEF Total
<1>2. Cardinality(tracked)' = Cardinality(tracked) + 0
      /\ Total(overwritten)' = Total(overwritten) + 0
  <2>1. overwritten \in [Slots -> Int] /\ Types
      BY DEF IndInv, Types
  <2>2. Cardinality(tracked) \in Nat
      BY <2>1, MembersFinite, FS_CardinalityType
  <2>3. Total(overwritten) \in Int
      BY <2>1, TotalType
  <2> QED
      BY <2>2, <2>3 DEF Total
<1>3. 1 + (Half(t)' - Half(t)) = 0 + 0
    BY DEF Half
<1> QED
    BY <1>1, <1>2, <1>3, AccountStep

\* A step that discounts a page: the other half of the removal or promotion is due.
LEMMA LessConserves ==
    ASSUME IndInv, IndInv', PlaceInv, PagesConserved, NEW t \in Threads,
           \A u \in Threads \ {t} : th'[u] = th[u],
           NEW slot \in Slots, nr_pages' = PagesLess(slot), UNCHANGED <<tracked, overwritten>>,
           th[t].pc \notin Halfway, th'[t].pc \in Halfway
    PROVE  PagesConserved'
<1>1. Total(nr_pages)' = Total(nr_pages) + (-1)
    BY CountTotal DEF Total
<1>2. Cardinality(tracked)' = Cardinality(tracked) + 0
      /\ Total(overwritten)' = Total(overwritten) + 0
  <2>1. overwritten \in [Slots -> Int] /\ Types
      BY DEF IndInv, Types
  <2>2. Cardinality(tracked) \in Nat
      BY <2>1, MembersFinite, FS_CardinalityType
  <2>3. Total(overwritten) \in Int
      BY <2>1, TotalType
  <2> QED
      BY <2>2, <2>3 DEF Total
<1>3. (-1) + (Half(t)' - Half(t)) = 0 + 0
    BY DEF Half
<1> QED
    BY <1>1, <1>2, <1>3, AccountStep

LEMMA ForgetConserves ==
    ASSUME IndInv, IndInv', PlaceInv, PagesConserved, NEW t \in Threads, FolioEvictedForget(t)
    PROVE  PagesConserved'
<1> DEFINE f == th[t].f
<1>1. /\ th[t].pc = "evicted_forget" /\ UNCHANGED <<nr_pages, overwritten>>
      /\ tracked' = tracked \ {f} /\ th' = [th EXCEPT ![t] = Idle]
      /\ th \in [Threads -> ThreadStates] /\ Types
    BY DEF FolioEvictedForget, At, Return, history, IndInv, Types
<1>2. th'[t] = Idle /\ \A u \in Threads \ {t} : th'[u] = th[u]
    BY <1>1
<1>3. Half(t) = 1 /\ Half(t)' = 0
    BY <1>1, <1>2, IdleState DEF Half, Halfway
<1>4. Cardinality(tracked)' = Cardinality(tracked) + (-1)
  <2>1. f \in tracked
      BY <1>1, LabelsOfHooks DEF PlaceInv, Knows
  <2>2. IsFiniteSet(tracked) /\ Cardinality(tracked) \in Nat
      BY <1>1, MembersFinite, FS_CardinalityType
  <2> HIDE DEF f
  <2>3. Cardinality(tracked \ {f}) = Cardinality(tracked) - 1
      BY <2>1, <2>2, FS_RemoveElement
  <2> QED
      BY <1>1, <2>2, <2>3
<1>5. Total(nr_pages)' = Total(nr_pages) + 0 /\ Total(overwritten)' = Total(overwritten) + 0
  <2>1. nr_pages \in [Slots -> Int] /\ overwritten \in [Slots -> Int]
      BY <1>1 DEF Types
  <2>2. Total(nr_pages) \in Int
      BY <2>1, TotalType
  <2>3. Total(overwritten) \in Int
      BY <2>1, TotalType
  <2> QED
      BY <1>1, <2>2, <2>3 DEF Total
<1>6. 0 + (Half(t)' - Half(t)) = (-1) + 0
    BY <1>3
<1> QED
    BY <1>2, <1>4, <1>5, <1>6, AccountStep

LEMMA ConservedStep ==
    IndInv /\ IndInv' /\ PlaceInv /\ PagesConserved /\ [Next]_vars => PagesConserved'
<1> SUFFICES ASSUME IndInv, IndInv', PlaceInv, PagesConserved, [Next]_vars
             PROVE  PagesConserved'
    OBVIOUS
<1>0. th \in [Threads -> ThreadStates] /\ \A t \in Threads : th[t] \in ThreadStates
    BY DEF IndInv, Types
<1>1. ASSUME UNCHANGED vars \/ \E f \in Folios : SetFlags(f) \/ FolioAccessed(f)
      PROVE  PagesConserved'
  <2>1. UNCHANGED <<nr_pages, tracked, overwritten, th>>
      BY <1>1 DEF vars, SetFlags, FolioAccessed, metadata, history
  <2> QED
      BY <2>1 DEF PagesConserved, ThreadsAt, Total
<1>2. ASSUME NEW t \in Threads, NEW new, th' = [th EXCEPT ![t] = new] \/ UNCHANGED th,
             th[t].pc \notin Halfway, new.pc \notin Halfway,
             UNCHANGED <<nr_pages, tracked, overwritten>>
      PROVE  PagesConserved'
  <2>1. th'[t].pc \notin Halfway /\ \A u \in Threads \ {t} : th'[u] = th[u]
      BY <1>0, <1>2
  <2> QED
      BY <1>2, <2>1, QuietAccount
\* The hooks.
<1>3. ASSUME NEW t \in Threads, NEW f \in Folios, FolioAdded(t, f) PROVE PagesConserved'
  <2>1. /\ th[t].pc \notin Halfway /\ UNCHANGED <<nr_pages, tracked, overwritten>>
        /\ UNCHANGED th \/ \E slot : th' = [th EXCEPT ![t] = AddState("add_meta", f, slot)]
      BY <1>3 DEF FolioAdded, At, Halfway, Goto, AddState, metadata, history
  <2>2. \A slot : AddState("add_meta", f, slot).pc = "add_meta"
      BY DEF AddState, Idle
  <2>3. \A slot : AddState("add_meta", f, slot).pc \notin Halfway
      BY <2>2 DEF Halfway
  <2> QED
      BY <1>2, <2>1, <2>3
<1>4. ASSUME NEW t \in Threads, FolioAddedMeta(t) PROVE PagesConserved'
    BY <1>4, AddedMetaConserves
<1>5. ASSUME NEW t \in Threads, FolioAddedCount(t) PROVE PagesConserved'
  <2> DEFINE slot == th[t].slot
  <2>1. /\ th[t].pc \in Halfway /\ nr_pages' = PagesMore(slot) /\ slot \in Slots
        /\ UNCHANGED <<tracked, overwritten>>
        /\ th' = [th EXCEPT ![t] = AddState("add_list", th[t].f, slot)]
      BY <1>0, <1>5
         DEF FolioAddedCount, At, Halfway, Goto, AddState, metadata, history, ThreadStates
  <2>2. PICK new : new = AddState("add_list", th[t].f, slot)
      OBVIOUS
  <2>3. th'[t] = new /\ new.pc = "add_list" /\ \A u \in Threads \ {t} : th'[u] = th[u]
      BY <1>0, <2>1, <2>2 DEF AddState, Idle
  <2>4. th'[t].pc \notin Halfway
      BY <2>3 DEF Halfway
  <2> HIDE DEF slot
  <2> QED
      BY <2>1, <2>3, <2>4, MoreConserves
<1>6. ASSUME NEW t \in Threads, FolioAddedList(t) \/ IterationFails(t) PROVE PagesConserved'
  <2>1. /\ th[t].pc \notin Halfway /\ UNCHANGED <<nr_pages, tracked, overwritten>>
        /\ th' = [th EXCEPT ![t] = Idle]
      BY <1>6 DEF FolioAddedList, IterationFails, At, Halfway, Return, metadata, history
  <2>2. Idle.pc \notin Halfway
      BY IdleState DEF Halfway
  <2> QED
      BY <1>2, <2>1, <2>2
<1>7. ASSUME NEW t \in Threads, NEW f \in Folios, FolioEvicted(t, f) PROVE PagesConserved'
  <2>1. /\ th[t].pc \notin Halfway /\ UNCHANGED <<nr_pages, tracked, overwritten>>
        /\ UNCHANGED th \/ th' = [th EXCEPT ![t] = EvictedState("evicted", f)]
      BY <1>7 DEF FolioEvicted, At, Halfway, Goto, EvictedState, metadata, history
  <2>2. EvictedState("evicted", f).pc = "evicted"
      BY DEF EvictedState, Idle
  <2>3. EvictedState("evicted", f).pc \notin Halfway
      BY <2>2 DEF Halfway
  <2> QED
      BY <1>2, <2>1, <2>3
<1>8. ASSUME NEW t \in Threads, FolioEvictedCount(t) PROVE PagesConserved'
  <2> DEFINE slot == gen[th[t].f]
  <2>1. /\ th[t].pc = "evicted" /\ nr_pages' = PagesLess(slot)
        /\ UNCHANGED <<tracked, overwritten>>
        /\ th' = [th EXCEPT ![t] = EvictedState("evicted_forget", th[t].f)]
      BY <1>8 DEF FolioEvictedCount, PagesAfterEvicted, At, Goto, EvictedState, metadata, history
  <2>2. slot \in Slots
      BY <2>1, LabelsOfHooks DEF IndInv, Types, HookInv, GoodState
  <2>3. PICK new : new = EvictedState("evicted_forget", th[t].f)
      OBVIOUS
  <2>4. th'[t] = new /\ new.pc = "evicted_forget" /\ \A u \in Threads \ {t} : th'[u] = th[u]
      BY <1>0, <2>1, <2>3 DEF EvictedState, Idle
  <2>5. th[t].pc \notin Halfway /\ th'[t].pc \in Halfway
      BY <2>1, <2>4 DEF Halfway
  <2> HIDE DEF slot
  <2> QED
      BY <2>1, <2>2, <2>4, <2>5, LessConserves
<1>9. ASSUME NEW t \in Threads, FolioEvictedForget(t) PROVE PagesConserved'
    BY <1>9, ForgetConserves
\* Aging, retirement, the two passes and their callbacks.
<1>10. ASSUME NEW t \in Threads, Age(t) PROVE PagesConserved'
  <2> DEFINE new == RetireState(min_seq, max_seq)
  <2>1. /\ th[t].pc \notin Halfway /\ UNCHANGED <<nr_pages, tracked, overwritten>>
        /\ th' = [th EXCEPT ![t] = new]
      BY <1>10 DEF Age, At, Halfway, Goto, RetireState, metadata, history
  <2>2. new.pc \notin Halfway
      BY DEF RetireState, Idle, Halfway
  <2> QED
      BY <1>2, <2>1, <2>2
<1>11. ASSUME NEW t \in Threads, Retire(t) PROVE PagesConserved'
  <2> DEFINE new == Pass1State(lru_gen_from_seq(min_seq'))
  <2>1. /\ th[t].pc \notin Halfway /\ UNCHANGED <<nr_pages, tracked, overwritten>>
        /\ th' = [th EXCEPT ![t] = new]
      BY <1>11 DEF Retire, At, Halfway, Goto, Pass1State, metadata, history
  <2>2. new.pc \notin Halfway
      BY DEF Pass1State, Idle, Halfway
  <2> HIDE DEF new
  <2> QED
      BY <1>2, <2>1, <2>2
<1>12. ASSUME NEW t \in Threads, FirstPass(t) \/ SecondPass(t) PROVE PagesConserved'
  <2>1. th[t].pc \notin Halfway /\ UNCHANGED <<nr_pages, tracked, overwritten>>
      BY <1>12 DEF FirstPass, SecondPass, At, Halfway, history
  <2>2. PICK new : /\ th' = [th EXCEPT ![t] = new]
                   /\ new.pc \in {"idle", "pass2", "count_down"}
      BY <1>12, FirstPassStep, SecondPassStep DEF AfterPass
  <2>3. new.pc \notin Halfway
      BY <2>2 DEF Halfway
  <2> QED
      BY <1>2, <2>1, <2>2, <2>3
<1>13. ASSUME NEW t \in Threads, CountDown(t) PROVE PagesConserved'
  <2> DEFINE slot == th[t].slot
             new == [th[t] EXCEPT !.pc = "count_up", !.n = @ - 1]
  <2>1. /\ th[t].pc = "count_down" /\ nr_pages' = PagesLess(slot) /\ slot \in Slots
        /\ UNCHANGED <<tracked, overwritten>> /\ th' = [th EXCEPT ![t] = new]
      BY <1>0, <1>13 DEF CountDown, PagesDown, At, Goto, metadata, history, ThreadStates
  <2>2. new.pc = "count_up"
      BY <1>0 DEF ThreadStates
  <2> HIDE DEF slot, new
  <2>3. th'[t] = new /\ \A u \in Threads \ {t} : th'[u] = th[u]
      BY <1>0, <2>1
  <2>4. th[t].pc \notin Halfway /\ th'[t].pc \in Halfway
      BY <2>1, <2>2, <2>3 DEF Halfway
  <2> QED
      BY <2>1, <2>3, <2>4, LessConserves
<1>14. ASSUME NEW t \in Threads, CountUp(t) PROVE PagesConserved'
  <2> DEFINE slot == NextSlot(th[t].slot)
  <2>1. /\ th[t].pc \in Halfway /\ nr_pages' = PagesMore(slot) /\ Resume(t, th[t])
        /\ UNCHANGED <<tracked, overwritten>>
      BY <1>14 DEF CountUp, At, Halfway, metadata, history
  <2>2. slot \in Slots
      BY <1>0, ConstantsType DEF ThreadStates
  <2>3. PICK new : /\ th' = [th EXCEPT ![t] = new]
                   /\ new.pc \in {"idle", "pass2", "count_down"}
      BY <1>0, <2>1, ResumeStates
  <2>4. th'[t].pc \notin Halfway /\ \A u \in Threads \ {t} : th'[u] = th[u]
      BY <1>0, <2>3 DEF Halfway
  <2> HIDE DEF slot
  <2> QED
      BY <2>1, <2>2, <2>4, MoreConserves
<1> QED
    BY <1>1, <1>3, <1>4, <1>5, <1>6, <1>7, <1>8, <1>9, <1>10, <1>11, <1>12, <1>13, <1>14
       DEF Next

\* Page counts only move between the slots of the ring: however additions,
\* removals and stale second passes interleave, their sum is the number of folios
\* with metadata and of metadata that a later addition overwrote, but for the
\* threads that stand between the two halves of an addition, a removal or a promotion.
THEOREM PagesConservedHolds == Spec => []PagesConserved
<1>1. IndInv /\ IndInv' /\ PlaceInv /\ PagesConserved /\ [Next]_vars => PagesConserved'
    BY ConservedStep
<1> QED
    BY <1>1, InitConserved, Inductive, PlaceInductive, PTL DEF Spec

=============================================================================
