-------------------------------- MODULE MGLRU --------------------------------
(***************************************************************************)
(* The generations of the multi-generational LRU policy,                    *)
(* policies/cache_ext_mglru.bpf.c: four eviction lists used as a ring of    *)
(* generations min_seq .. max_seq, metadata that names each folio's slot,   *)
(* and a page count per slot.                                               *)
(*                                                                         *)
(* Aging and retirement run under a spin lock.  Additions read the sequence *)
(* numbers without it, and an eviction iterates the lists after releasing   *)
(* it, so a thread may act on generations that have moved on.               *)
(*                                                                         *)
(* The refault statistics and the PID controller only choose the tier       *)
(* threshold of an eviction; here any threshold get_tier_idx can return may *)
(* be chosen.  Folios have one page.                                        *)
(*                                                                         *)
(* Page counts and metadata are updated without any lock that a reader of   *)
(* the counts takes: each update is a step of its own.                      *)
(***************************************************************************)
EXTENDS CacheExtLists

CONSTANTS
    Folios,
    Threads,
    Request,       \* request_nr_folios_to_evict
    Thresholds,    \* the tier thresholds tried, of 0 .. MAX_NR_TIERS - 1
    AlmostEmpty,   \* the threshold of gen_almost_empty (4 in the code)
    NoFolio,
    SeqBound,      \* bound on max_seq
    AccessBound,   \* bound on the accesses counted per folio
    LeakBound      \* bound on the metadata entries overwritten

ASSUME MGLRUAssumption ==
    /\ IsFiniteSet(Folios) /\ NoFolio \notin Folios \cup Threads
    /\ Request \in Nat \ {0} /\ AlmostEmpty \in Nat
    /\ Thresholds \subseteq 0 .. 3
    /\ SeqBound \in Nat /\ AccessBound \in Nat \ {0} /\ LeakBound \in Nat

MAX_NR_TIERS == 4
MIN_NR_GENS == 2
MAX_NR_GENS == 4

Slots == 0 .. MAX_NR_GENS - 1

VARIABLES
    cached,       \* folios in the page cache
    busy,         \* cached folios that are locked, dirty or under writeback
    min_seq, max_seq,
    holder,       \* the thread that holds lrugen->lock, or NoFolio
    lists,        \* mglru_lists, by slot
    nr_pages,     \* per slot
    tracked,      \* keys of folio_metadata_map
    accesses,     \* .accesses of the metadata (0 where there is none)
    gen,          \* .gen of the metadata (0 where there is none)
    th,           \* per thread: where it is, and its locals
    overwritten,  \* history, per slot: metadata of a folio of that slot that was
                  \* still in the map when the folio was added again
    stale         \* history: a second pass iterated another list than its
                  \* eviction_metadata describes

vars == <<cached, busy, min_seq, max_seq, holder, lists, nr_pages, tracked,
          accesses, gen, th, overwritten, stale>>

kernel == <<cached, busy>>
seqs == <<min_seq, max_seq, holder>>
metadata == <<tracked, accesses, gen>>
history == <<overwritten, stale>>

-----------------------------------------------------------------------------
(* Helpers *)

\* f, slot: the folio of a hook and the slot of an addition; lo, hi: min_seq and
\* max_seq as read under the lock; slot, thr: curr_gen and tier_threshold of an
\* eviction; nr: its candidates so far, Request when no pass follows; n: pages its
\* last pass promoted and has yet to count.
Idle == [pc |-> "idle", f |-> NoFolio, slot |-> 0, lo |-> 0, hi |-> 0,
         thr |-> 0, nr |-> 0, n |-> 0]

Goto(t, local) == th' = [th EXCEPT ![t] = local]
Return(t) == th' = [th EXCEPT ![t] = Idle]
At(t, label) == th[t].pc = label

AddLabels == {"add_meta", "add_count", "add_list"}
EvictedLabels == {"evicted", "evicted_forget"}

\* The folio lock: one thread adds or removes a folio at a time.
Adding(f) == \E t \in Threads : th[t].f = f /\ th[t].pc \in AddLabels
Removing(f) == \E t \in Threads : th[t].f = f /\ th[t].pc \in EvictedLabels

\* The lock of the lists: the kernel runs one iteration, linking or unlinking at
\* a time, and an iteration lasts until its callback has counted what it promoted.
ListsLocked == \E t \in Threads : th[t].pc \in {"count_down", "count_up"}

lru_gen_from_seq(seq) == seq % MAX_NR_GENS
NextSlotUnwrapped(slot) == slot + 1   \* mutant
NextSlot(slot) == (slot + 1) % MAX_NR_GENS

\* order_base_2 of the accesses, at most 3.
lru_tier_from_refs(refs) ==
    CASE refs <= 1 -> 0
      [] refs \in 2 .. 3 -> 1
      [] refs \in 4 .. 7 -> 2
      [] OTHER -> 3

\* read_nr_pages_stat: a negative count reads as 0.
Pages(slot) == IF nr_pages[slot] < 0 THEN 0 ELSE nr_pages[slot]

\* A count per slot, over all slots.
Total(count) == count[0] + count[1] + count[2] + count[3]

gen_almost_empty(seq) == Pages(lru_gen_from_seq(seq)) <= AlmostEmpty

get_nr_gens == max_seq - min_seq + 1

\* The loop stops before max_seq, so the youngest generation is not counted.
\* `young` stays 0 and `young * MIN_NR_GENS > total` never holds.
should_run_aging ==
    LET counted == {s \in min_seq .. max_seq - 1 : s < min_seq + MAX_NR_GENS}
        total == MapThenSumSet(LAMBDA s : Pages(lru_gen_from_seq(s)), counted)
        old == IF max_seq - MIN_NR_GENS \in counted
               THEN Pages(lru_gen_from_seq(max_seq - MIN_NR_GENS)) ELSE 0
    IN  \/ min_seq + MIN_NR_GENS > max_seq
        \/ /\ min_seq + MIN_NR_GENS = max_seq
           /\ old * (MIN_NR_GENS + 2) < total

-----------------------------------------------------------------------------
(* The environment.  Opening the file takes its inode out of the watch list *)
(* for a while, so that each time a hook asks whether the folio is relevant *)
(* the answer may be either.                                               *)

SetFlags(f) ==
    /\ f \in cached /\ ~Adding(f) /\ ~Removing(f)
    /\ busy' = IF f \in busy THEN busy \ {f} ELSE busy \cup {f}
    /\ UNCHANGED <<cached, seqs, lists, nr_pages, metadata, th, history>>

-----------------------------------------------------------------------------
(* mglru_folio_added: lru_gen_add_folio, which takes no lock *)

\* folio_test_active reads metadata that an earlier stay in the cache may have
\* left in the map under the same folio.
AddSeq(f, reclaim) ==
    IF f \in tracked /\ accesses[f] >= 2 THEN max_seq
    ELSE IF reclaim THEN max_seq - 1
    ELSE IF min_seq + MIN_NR_GENS >= max_seq THEN min_seq
    ELSE min_seq + 1

FolioAdded(t, f) ==
    /\ At(t, "idle")
    /\ f \notin cached /\ ~Adding(f) /\ ~Removing(f)
    /\ cached' = cached \cup {f}
    /\ busy' = busy \cup {f}
    /\ \/ UNCHANGED th
       \/ \E reclaim \in BOOLEAN :
             Goto(t, [Idle EXCEPT !.pc = "add_meta", !.f = f,
                      !.slot = lru_gen_from_seq(AddSeq(f, reclaim))])
    /\ UNCHANGED <<seqs, lists, nr_pages, metadata, history>>

\* bpf_map_update_elem, or the map is full and the hook returns.
FolioAddedMeta(t) ==
    LET f == th[t].f
        slot == th[t].slot
    IN  /\ At(t, "add_meta")
        /\ \/ /\ IF f \in tracked
                 THEN /\ Total(overwritten) < LeakBound
                      /\ overwritten' = [overwritten EXCEPT ![gen[f]] = @ + 1]
                 ELSE UNCHANGED overwritten
              /\ tracked' = tracked \cup {f}
              /\ accesses' = [accesses EXCEPT ![f] = 1]
              /\ gen' = [gen EXCEPT ![f] = slot]
              /\ Goto(t, [Idle EXCEPT !.pc = "add_count", !.f = f, !.slot = slot])
           \/ /\ Return(t)
              /\ UNCHANGED <<overwritten, metadata>>
        /\ UNCHANGED <<kernel, seqs, lists, nr_pages, stale>>

\* update_nr_pages_stat.
PagesMore(slot) == [nr_pages EXCEPT ![slot] = @ + 1]
PagesLess(slot) == [nr_pages EXCEPT ![slot] = @ - 1]

FolioAddedCount(t) ==
    /\ At(t, "add_count")
    /\ nr_pages' = PagesMore(th[t].slot)
    /\ Goto(t, [Idle EXCEPT !.pc = "add_list", !.f = th[t].f, !.slot = th[t].slot])
    /\ UNCHANGED <<kernel, seqs, lists, metadata, history>>

\* bpf_cache_ext_list_add, at the head; it may fail.
FolioAddedList(t) ==
    /\ At(t, "add_list") /\ ~ListsLocked
    /\ \/ lists' = [lists EXCEPT ![th[t].slot] = ListAdd(@, th[t].f)]
       \/ UNCHANGED lists
    /\ Return(t)
    /\ UNCHANGED <<kernel, seqs, nr_pages, metadata, history>>

-----------------------------------------------------------------------------
(* mglru_folio_accessed and mglru_folio_evicted *)

FolioAccessed(f) ==
    /\ f \in cached /\ f \in tracked
    /\ accesses[f] < AccessBound
    /\ accesses' = [accesses EXCEPT ![f] = @ + 1]
    /\ UNCHANGED <<kernel, seqs, lists, nr_pages, tracked, gen, th, history>>

\* The kernel unlinks the folio.  The hook returns early when the folio is not
\* relevant any more and leaves its metadata and page count behind.
FolioEvicted(t, f) ==
    /\ At(t, "idle")
    /\ f \in cached /\ ~Adding(f) /\ ~Removing(f) /\ ~ListsLocked
    /\ cached' = cached \ {f}
    /\ busy' = busy \ {f}
    /\ lists' = [s \in Slots |-> ListDel(lists[s], f)]
    /\ \/ f \in tracked /\ Goto(t, [Idle EXCEPT !.pc = "evicted", !.f = f])
       \/ UNCHANGED th
    /\ UNCHANGED <<seqs, nr_pages, metadata, history>>

PagesAfterEvictedKept(f) == nr_pages   \* mutant: "update generation page count" lost
PagesAfterEvicted(f) == PagesLess(gen[f])

\* The page count of the slot that the metadata names, then the metadata; its
\* delete is taken to succeed.
FolioEvictedCount(t) ==
    /\ At(t, "evicted")
    /\ nr_pages' = PagesAfterEvicted(th[t].f)
    /\ Goto(t, [Idle EXCEPT !.pc = "evicted_forget", !.f = th[t].f])
    /\ UNCHANGED <<kernel, seqs, lists, metadata, history>>

FolioEvictedForget(t) ==
    LET f == th[t].f IN
    /\ At(t, "evicted_forget")
    /\ tracked' = tracked \ {f}
    /\ accesses' = [accesses EXCEPT ![f] = 0]
    /\ gen' = [gen EXCEPT ![f] = 0]
    /\ Return(t)
    /\ UNCHANGED <<kernel, seqs, lists, nr_pages, history>>

-----------------------------------------------------------------------------
(* mglru_evict_folios *)

\* try_to_inc_max_seq: a full ring has to retire its oldest generation first.
IncMaxSeq ==
    IF get_nr_gens # MAX_NR_GENS
    THEN max_seq' = max_seq + 1 /\ UNCHANGED min_seq
    ELSE IF gen_almost_empty(min_seq)
         THEN max_seq' = max_seq + 1 /\ min_seq' = min_seq + 1
         ELSE UNCHANGED <<min_seq, max_seq>>

\* The lock is taken, both sequence numbers are read, and aging may add a
\* generation.
Age(t) ==
    /\ At(t, "idle")
    /\ holder = NoFolio
    /\ should_run_aging => max_seq < SeqBound
    /\ holder' = t
    /\ IF should_run_aging THEN IncMaxSeq ELSE UNCHANGED <<min_seq, max_seq>>
    /\ Goto(t, [Idle EXCEPT !.pc = "retire", !.lo = min_seq, !.hi = max_seq])
    /\ UNCHANGED <<kernel, lists, nr_pages, metadata, history>>

\* Mutant: retirement with MIN_NR_GENS generations left, by an off-by-one.
RetiresFresh(t) ==
    max_seq - min_seq >= MIN_NR_GENS /\ gen_almost_empty(min_seq)

\* The comparison uses the numbers read before aging; try_to_inc_min_seq reads
\* min_seq again.
Retires(t) ==
    th[t].hi - th[t].lo > MIN_NR_GENS /\ gen_almost_empty(min_seq)

\* The oldest generation may be retired; its slot is read and the lock released.
Retire(t) ==
    /\ At(t, "retire")
    /\ min_seq' = IF Retires(t) THEN min_seq + 1 ELSE min_seq
    /\ holder' = NoFolio
    /\ Goto(t, [Idle EXCEPT !.pc = "pass1", !.slot = lru_gen_from_seq(min_seq')])
    /\ UNCHANGED <<kernel, max_seq, lists, nr_pages, metadata, history>>

\* mglru_iter_fn with tier threshold thr.
Verdict(thr) ==
    [f \in Folios |->
        IF f \in tracked /\ (lru_tier_from_refs(accesses[f]) > thr \/ f \in busy)
        THEN CONTINUE_ITER ELSE EVICT_NODE]

\* Mutant: the callback forgets to store the new generation.
GenAfterPromotionKept(slot, moved) == gen

GenAfterPromotion(slot, moved) ==
    [f \in Folios |-> IF f \in moved THEN NextSlot(slot) ELSE gen[f]]

\* Iterate the list of slot `from`.  What is not proposed goes to the tail of
\* the following list, and the callback stores the slot after `curr` in its .gen.
\* Lists and .gen change at once: a folio's .gen is read only by a callback and
\* where the folio is on no list.  The page counts, which aging and retirement read
\* without the lists' lock, follow one by one.
Iterate(from, curr, thr, room) ==
    LET list == lists[from]
        continued == Continued(list, Verdict(thr), room)
    IN  /\ lists' = [s \in Slots |->
                       CASE s = from -> Unvisited(list, Verdict(thr), room)
                                        \o Evicted(list, Verdict(thr), room)
                         [] s = NextSlot(from) -> lists[s] \o continued
                         [] OTHER -> lists[s]]
        /\ gen' = GenAfterPromotion(curr, ToSet(continued))

\* Where an eviction stands when its last pass proposed l.nr candidates in all and
\* promoted l.n pages that are not counted yet.
Resume(t, l) ==
    IF l.n > 0 THEN Goto(t, [l EXCEPT !.pc = "count_down"])
    ELSE IF l.nr < Request THEN Goto(t, [l EXCEPT !.pc = "pass2"])
    ELSE Return(t)

\* The threshold is chosen and saved with the slot as this eviction's
\* eviction_metadata.
FirstPass(t) ==
    LET list == lists[th[t].slot] IN
    /\ At(t, "pass1") /\ ~ListsLocked
    /\ \E thr \in Thresholds :
          /\ Iterate(th[t].slot, th[t].slot, thr, Request)
          /\ Resume(t, [Idle EXCEPT !.slot = th[t].slot, !.thr = thr,
                          !.nr = Len(Evicted(list, Verdict(thr), Request)),
                          !.n = Len(Continued(list, Verdict(thr), Request))])
    /\ UNCHANGED <<kernel, seqs, nr_pages, tracked, accesses, history>>

\* The retry reads min_seq again, without the lock, and iterates the list of
\* what is now the oldest generation.  eviction_metadata is not updated.
SecondPass(t) ==
    LET from == lru_gen_from_seq(min_seq)
        room == Request - th[t].nr
    IN  /\ At(t, "pass2") /\ ~ListsLocked
        /\ Iterate(from, th[t].slot, th[t].thr, room)
        /\ stale' = (stale \/ from # th[t].slot)
        /\ Resume(t, [Idle EXCEPT !.slot = th[t].slot, !.nr = Request,
                        !.n = Len(Continued(lists[from], Verdict(th[t].thr), room))])
        /\ UNCHANGED <<kernel, seqs, nr_pages, tracked, accesses, overwritten>>

PagesLessKept(slot) == nr_pages   \* mutant: the callback only adds the page
PagesDown(slot) == PagesLess(slot)

\* The callback moves the count of each page it promotes from curr_gen ...
CountDown(t) ==
    /\ At(t, "count_down")
    /\ nr_pages' = PagesDown(th[t].slot)
    /\ Goto(t, [th[t] EXCEPT !.pc = "count_up", !.n = @ - 1])
    /\ UNCHANGED <<kernel, seqs, lists, metadata, history>>

\* ... to next_gen.
CountUp(t) ==
    /\ At(t, "count_up")
    /\ nr_pages' = PagesMore(NextSlot(th[t].slot))
    /\ Resume(t, th[t])
    /\ UNCHANGED <<kernel, seqs, lists, metadata, history>>

\* An iteration that fails ends the eviction.
IterationFails(t) ==
    /\ At(t, "pass1") \/ At(t, "pass2")
    /\ Return(t)
    /\ UNCHANGED <<kernel, lists, nr_pages, seqs, metadata, history>>

-----------------------------------------------------------------------------
(* Specification *)

\* mglru_init: min_seq is 0 in the zeroed map.
Init ==
    /\ cached = {} /\ busy = {}
    /\ min_seq = 0 /\ max_seq = MIN_NR_GENS + 1 /\ holder = NoFolio
    /\ lists = [s \in Slots |-> <<>>] /\ nr_pages = [s \in Slots |-> 0]
    /\ tracked = {} /\ accesses = [f \in Folios |-> 0] /\ gen = [f \in Folios |-> 0]
    /\ th = [t \in Threads |-> Idle]
    /\ overwritten = [s \in Slots |-> 0] /\ stale = FALSE

Next ==
    \/ \E f \in Folios : SetFlags(f) \/ FolioAccessed(f)
    \/ \E t \in Threads :
          \/ \E f \in Folios : FolioAdded(t, f) \/ FolioEvicted(t, f)
          \/ FolioAddedMeta(t) \/ FolioAddedCount(t) \/ FolioAddedList(t)
          \/ FolioEvictedCount(t) \/ FolioEvictedForget(t)
          \/ Age(t) \/ Retire(t) \/ FirstPass(t) \/ SecondPass(t)
          \/ CountDown(t) \/ CountUp(t) \/ IterationFails(t)

Spec == Init /\ [][Next]_vars

-----------------------------------------------------------------------------
(* Properties *)

Labels == {"idle", "add_meta", "add_count", "add_list", "evicted", "evicted_forget",
           "retire", "pass1", "pass2", "count_down", "count_up"}

ThreadStates ==
    [pc : Labels, f : Folios \cup {NoFolio}, slot : Slots, lo : Nat, hi : Nat,
     thr : 0 .. MAX_NR_TIERS - 1, nr : Nat, n : Nat]

Types ==
    /\ cached \subseteq Folios /\ busy \subseteq cached
    /\ min_seq \in Nat /\ max_seq \in Nat /\ holder \in Threads \cup {NoFolio}
    /\ lists \in [Slots -> Seq(Folios)] /\ nr_pages \in [Slots -> Int]
    /\ tracked \subseteq Folios /\ accesses \in [Folios -> Nat]
    /\ gen \in [Folios -> Slots]
    /\ th \in [Threads -> ThreadStates]
    /\ overwritten \in [Slots -> Nat] /\ stale \in BOOLEAN

ListedOnce ==
    /\ \A s \in Slots : IsInjective(lists[s]) /\ ToSet(lists[s]) \subseteq cached
    /\ \A s, r \in Slots : s # r => ToSet(lists[s]) \cap ToSet(lists[r]) = {}

\* Types; every index into mglru_lists and nr_pages is a slot of the ring, and the
\* lists hold each cached folio at most once.
TypeOK == Types /\ ListedOnce

\* There are always three or four generations: eviction never finds fewer than
\* MIN_NR_GENS above the oldest, and the ring never wraps onto its own tail,
\* although both ends move in separate critical steps and the retirement test
\* uses numbers read before aging.
SeqWindow ==
    /\ max_seq - min_seq >= MIN_NR_GENS
    /\ max_seq - min_seq < MAX_NR_GENS

\* Why the window holds: the lock serialises aging and retirement, and the
\* numbers a thread read before aging are off by at most the one generation
\* that aging added to a full-enough ring.
LockInv ==
    /\ \A t \in Threads : At(t, "retire") <=> holder = t
    /\ \A t \in Threads :
          At(t, "retire") =>
             /\ th[t].lo = min_seq
             /\ \/ th[t].hi = max_seq
                \/ th[t].hi = max_seq - 1 /\ th[t].hi - th[t].lo = MIN_NR_GENS
    /\ SeqWindow

ThreadsAt(labels) == {t \in Threads : th[t].pc \in labels}

\* Threads about to count a page in slot s: an addition that has stored its
\* metadata, and a promotion that has left the slot before.  A removal that has
\* discounted its page and not yet deleted the metadata counts as well.
Uncounted(s) ==
    {t \in ThreadsAt({"add_count"}) : th[t].slot = s}
    \cup {t \in ThreadsAt({"count_up"}) : NextSlot(th[t].slot) = s}
    \cup {t \in ThreadsAt({"evicted_forget"}) : gen[th[t].f] = s}

\* One element for each promoted page that a callback has yet to discount.
Promoting == ThreadsAt({"count_down", "count_up"})
Promotions(threads) == UNION {{t} \X (1 .. th[t].n) : t \in threads}
Leaving(s) == Promotions({t \in Promoting : th[t].slot = s})
Coming(s) == Promotions({t \in Promoting : NextSlot(th[t].slot) = s})

\* Page counts only move between slots: but for updates under way, their sum is
\* the number of folios with metadata, plus one for each entry the early return
\* of mglru_folio_evicted left behind and a later addition overwrote.
PagesConserved ==
    Total(nr_pages) + Cardinality(ThreadsAt({"add_count", "count_up", "evicted_forget"}))
      = Cardinality(tracked) + Total(overwritten)

\* Unless a second pass went on with the eviction_metadata of another list, the
\* count of a slot is, but for updates under way, the number of folios whose
\* metadata names the slot.
PagesMatchGens ==
    ~stale => \A s \in Slots :
                 nr_pages[s] + Cardinality(Uncounted(s)) + Cardinality(Coming(s))
                   = Cardinality({f \in tracked : gen[f] = s}) + overwritten[s]
                     + Cardinality(Leaving(s))

\* Under the same condition, a folio is on the list its metadata names, so that
\* the promotion of a folio moves its page from the right count.
GenMatchesList ==
    ~stale => \A s \in Slots : \A f \in ToSet(lists[s]) : f \in tracked /\ gen[f] = s

\* "promote to next gen" (cache_ext_mglru.bpf.c:758 and :770): a folio that moves
\* to the list of a slot has that slot stored as its generation.
PromotionStoresGen ==
    [][\A s \in Slots : \A f \in ToSet(lists[s]') \ ToSet(lists[s]) : gen'[f] = s]_vars

\* The policy keeps the promise of PagePolicy: aging, retirement and passes move
\* folios between the generations and lose none, a stale second pass included: it
\* spoils page counts and the numbers of generations, never the lists.
Policy == INSTANCE PagePolicy WITH
              adding <- {f \in Folios : Adding(f)},
              listed <- UNION {ToSet(lists[s]) : s \in Slots}
ImplementsPagePolicy == Policy!Spec

=============================================================================
