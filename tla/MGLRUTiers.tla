------------------------------ MODULE MGLRUTiers ------------------------------
(***************************************************************************)
(* The tiers of the multi-generational LRU policy,                          *)
(* policies/cache_ext_mglru.bpf.c: the ghost entries that recognise a       *)
(* refault, the evicted, refaulted and protected counts of each tier, their *)
(* moving averages, and the controller that chooses the tier threshold of   *)
(* an eviction from them.                                                   *)
(*                                                                         *)
(* Hooks add to the counts and the controller reads them without a lock;    *)
(* reset_ctrl_pos folds them into the averages tier by tier, under the spin *)
(* lock, whenever a generation is retired.  Generations and lists are in    *)
(* MGLRU: here any eviction may retire one, and any protected page may be   *)
(* met by an iteration.                                                     *)
(***************************************************************************)
EXTENDS Integers, FiniteSets, SequencesExt

CONSTANTS
    Pages,         \* pages of the file: ghost entries are keyed by inode and offset
    Threads,
    MAX_NR_TIERS,  \* 4 in the code
    MIN_LRU_BATCH, \* 64 in the code
    NoPage,
    EvictBound,    \* bound on the evictions
    ProtectBound   \* bound on the protected count of a tier

ASSUME MGLRUTiersAssumption ==
    /\ IsFiniteSet(Pages) /\ IsFiniteSet(Threads) /\ NoPage \notin Pages \cup Threads
    /\ MAX_NR_TIERS \in Nat \ {0, 1} /\ MIN_LRU_BATCH \in Nat 
    /\ EvictBound \in Nat /\ ProtectBound \in Nat

Tiers == 0 .. MAX_NR_TIERS - 1
NoTier == MAX_NR_TIERS

VARIABLES
    cached,                         \* pages in the page cache
    tracked,                        \* keys of folio_metadata_map
    tier,                           \* lru_tier_from_refs of the metadata (0 without)
    ghost,                          \* ghost_map: the tier of an entry, or NoTier
    refaulted, evicted, protected,  \* counts of the generation being evicted, by tier
    avg_refaulted, avg_total,
    holder,                         \* the thread that holds lrugen->lock, or NoPage
    th,                             \* per thread: where it is, and its locals
    refaults, evictions,            \* history: all events of a tier so far
    misread                         \* history: refaults whose tier was another entry's

counts == <<refaulted, evicted, protected>>
averages == <<avg_refaulted, avg_total>>
history == <<refaults, evictions, misread>>
pages == <<cached, tracked, tier>>

vars == <<pages, ghost, counts, averages, holder, th, history>>

-----------------------------------------------------------------------------
(* Threads *)

\* f: the page of the hook; tier: the tier it works on, or the tier threshold.
Idle == [pc |-> "idle", f |-> NoPage, tier |-> 0]

At(t, label) == th[t].pc = label
Goto(t, label, f, i) == th' = [th EXCEPT ![t] = [pc |-> label, f |-> f, tier |-> i]]
Step(t, label, i) == Goto(t, label, th[t].f, i)
Return(t) == th' = [th EXCEPT ![t] = Idle]

\* The folio lock: one thread adds or removes a page at a time.
Locked(p) == \E t \in Threads : th[t].f = p

Plus(counter, i) == [counter EXCEPT ![i] = @ + 1]

-----------------------------------------------------------------------------
(* mglru_folio_accessed, and the map of ghosts under pressure *)

\* The tier after as many more accesses as make the next one; the highest is kept.
TierAfterUncapped(i) == i + 1   \* mutant
TierAfter(i) == IF i = MAX_NR_TIERS - 1 THEN i ELSE i + 1

FolioAccessed(p) ==
    /\ p \in tracked
    /\ tier' = [tier EXCEPT ![p] = TierAfter(@)]
    /\ UNCHANGED <<cached, tracked, ghost, counts, averages, holder, th, history>>

\* An LRU map drops entries to make room.
GhostDropped(p) ==
    /\ ghost[p] # NoTier
    /\ ghost' = [ghost EXCEPT ![p] = NoTier]
    /\ UNCHANGED <<pages, counts, averages, holder, th, history>>

-----------------------------------------------------------------------------
(* mglru_folio_added *)

\* The hook returns early when the folio is not relevant or unevictable.
FolioAdded(t, p) ==
    /\ At(t, "idle")
    /\ p \notin cached /\ ~Locked(p)
    /\ cached' = cached \cup {p}
    /\ Goto(t, "add_meta", p, 0) \/ UNCHANGED th
    /\ UNCHANGED <<tracked, tier, ghost, counts, averages, holder, history>>

\* It returns before it looks at the ghosts when the map is full.
FolioAddedMeta(t) ==
    LET p == th[t].f IN
    /\ At(t, "add_meta")
    /\ \/ /\ tracked' = tracked \cup {p}
          /\ tier' = [tier EXCEPT ![p] = 0]
          /\ Step(t, "ghost_lookup", 0)
       \/ Return(t) /\ UNCHANGED <<tracked, tier>>
    /\ UNCHANGED <<cached, ghost, counts, averages, holder, history>>

\* folio_in_ghost keeps a pointer to the entry it finds; here, what is behind it.
GhostLookup(t) ==
    LET p == th[t].f IN
    /\ At(t, "ghost_lookup")
    /\ IF ghost[p] = NoTier THEN Return(t) ELSE Step(t, "ghost_delete", ghost[p])
    /\ UNCHANGED <<pages, ghost, counts, averages, holder, history>>

GhostDelete(t) ==
    /\ At(t, "ghost_delete")
    /\ ghost' = [ghost EXCEPT ![th[t].f] = NoTier]
    /\ Step(t, "ghost_read", th[t].tier)
    /\ UNCHANGED <<pages, counts, averages, holder, history>>

\* update_refaulted_stat, with the tier that is behind the pointer by now.
Refault(t) ==
    LET i == th[t].tier IN
    /\ At(t, "ghost_read")
    /\ refaulted' = Plus(refaulted, i)
    /\ refaults' = Plus(refaults, i)
    /\ Return(t)
    /\ UNCHANGED <<pages, ghost, evicted, protected, averages, holder, evictions, misread>>

-----------------------------------------------------------------------------
(* mglru_folio_evicted *)

Evicting == {t \in Threads : th[t].pc \in {"ghost_insert", "count_evicted"}}

\* The hook returns early for a folio that is not relevant any more.
FolioEvicted(t, p) ==
    /\ At(t, "idle")
    /\ p \in cached /\ ~Locked(p)
    /\ cached' = cached \ {p}
    /\ \/ UNCHANGED th
       \/ /\ p \in tracked
          /\ SumFunction(evictions) + Cardinality(Evicting) < EvictBound
          /\ Goto(t, "ghost_insert", p, tier[p])
    /\ UNCHANGED <<tracked, tier, ghost, counts, averages, holder, history>>

GhostTierYoungest(t) == 0   \* mutant: the ghost forgets the tier
GhostTier(t) == th[t].tier

\* Readers whose entry is deleted, by themselves or by the LRU, and whose element
\* the new entry may take.
Dangling == {r \in Threads : \/ At(r, "ghost_read")
                             \/ At(r, "ghost_delete") /\ ghost[th[r].f] = NoTier}

GhostInsert(t) ==
    LET p == th[t].f IN
    /\ At(t, "ghost_insert")
    /\ \/ /\ ghost' = [ghost EXCEPT ![p] = GhostTier(t)]
          /\ \/ Step(t, "count_evicted", th[t].tier) /\ UNCHANGED misread
             \/ \E r \in Dangling :
                   /\ th' = [th EXCEPT ![t].pc = "count_evicted", ![r].tier = GhostTier(t)]
                   /\ misread' = misread + 1
       \/ Step(t, "count_evicted", th[t].tier) /\ UNCHANGED <<ghost, misread>>
    /\ UNCHANGED <<pages, counts, averages, holder, refaults, evictions>>

\* update_evicted_stat; then the metadata is deleted.
CountEvicted(t) ==
    LET i == th[t].tier IN
    /\ At(t, "count_evicted")
    /\ evicted' = Plus(evicted, i) /\ evictions' = Plus(evictions, i)
    /\ tracked' = tracked \ {th[t].f} /\ tier' = [tier EXCEPT ![th[t].f] = 0]
    /\ Return(t)
    /\ UNCHANGED <<cached, ghost, refaulted, protected, averages, holder, refaults, misread>>

-----------------------------------------------------------------------------
(* reset_ctrl_pos(lrugen, true), when try_to_inc_min_seq retires a generation *)

LockFreeAlways == TRUE   \* mutant: "Needs the LRU lock. Why???" (cache_ext_mglru.bpf.c:296)
LockFree == holder = NoPage

ResetBegin(t) ==
    /\ At(t, "idle") /\ LockFree
    /\ holder' = t
    /\ Goto(t, "carry_refaulted", NoPage, 0)
    /\ UNCHANGED <<pages, ghost, counts, averages, history>>

CarriedWhole(avg, count) == avg + count   \* mutant: the smoothing factor is lost
Carried(avg, count) == (avg + count) \div 2

\* protected has no entry for tier 0.
ProtectedOf(i) == IF i = 0 THEN 0 ELSE protected[i]

CarryRefaulted(t) ==
    LET i == th[t].tier IN
    /\ At(t, "carry_refaulted")
    /\ avg_refaulted' = [avg_refaulted EXCEPT ![i] = Carried(@, refaulted[i])]
    /\ Step(t, "carry_total", i)
    /\ UNCHANGED <<pages, ghost, counts, avg_total, holder, history>>

CarryTotal(t) ==
    LET i == th[t].tier IN
    /\ At(t, "carry_total")
    /\ avg_total' = [avg_total EXCEPT ![i] = Carried(@, evicted[i] + ProtectedOf(i))]
    /\ Step(t, "zero_refaulted", i)
    /\ UNCHANGED <<pages, ghost, counts, avg_refaulted, holder, history>>

\* Plain stores: what hooks added since the carry is lost.
ZeroRefaulted(t) ==
    LET i == th[t].tier IN
    /\ At(t, "zero_refaulted")
    /\ refaulted' = [refaulted EXCEPT ![i] = 0]
    /\ Step(t, "zero_evicted", i)
    /\ UNCHANGED <<pages, ghost, evicted, protected, averages, holder, history>>

ZeroEvicted(t) ==
    LET i == th[t].tier IN
    /\ At(t, "zero_evicted")
    /\ evicted' = [evicted EXCEPT ![i] = 0]
    /\ Step(t, "zero_protected", i)
    /\ UNCHANGED <<pages, ghost, refaulted, protected, averages, holder, history>>

\* The next tier, or the end of the critical section; the eviction goes on.
ZeroProtected(t) ==
    LET i == th[t].tier IN
    /\ At(t, "zero_protected")
    /\ protected' = [protected EXCEPT ![i] = 0]
    /\ IF i + 1 \in Tiers
       THEN Step(t, "carry_refaulted", i + 1) /\ UNCHANGED holder
       ELSE Step(t, "select", 0) /\ holder' = NoPage
    /\ UNCHANGED <<pages, ghost, refaulted, evicted, averages, history>>

-----------------------------------------------------------------------------
(* mglru_evict_folios: get_tier_idx and the protection of tiers above it *)

\* read_ctrl_pos.
CtrlPos(i) == [refaulted |-> avg_refaulted[i] + refaulted[i],
               total |-> avg_total[i] + evicted[i] + ProtectedOf(i)]

\* The gains are 1 for the setpoint and 2 for the process variable.
positive_ctrl_err(sp, pv) ==
    \/ pv.refaulted < MIN_LRU_BATCH
    \/ pv.refaulted * (sp.total + MIN_LRU_BATCH) <= (sp.refaulted + 1) * pv.total * 2

\* The tier below the first one that refaults more than tier 0.  The reads are one
\* step here: a count that moves between them gives a threshold that an eviction a
\* little earlier or later would choose.
get_tier_idx ==
    Min({i \in Tiers : i + 1 \in Tiers => ~positive_ctrl_err(CtrlPos(0), CtrlPos(i + 1))})

\* An eviction that retires nothing begins here.
SelectTier(t) ==
    /\ At(t, "idle") \/ At(t, "select")
    /\ Goto(t, "iterate", NoPage, get_tier_idx)
    /\ UNCHANGED <<pages, ghost, counts, averages, holder, history>>

\* mglru_iter_fn protects a page above the threshold; the second condition of the
\* callback and the lists are in MGLRU.
Protect(t) ==
    /\ At(t, "iterate")
    /\ \E p \in tracked :
          /\ tier[p] > th[t].tier
          /\ protected[tier[p]] < ProtectBound
          /\ protected' = Plus(protected, tier[p])
    /\ UNCHANGED <<pages, ghost, refaulted, evicted, averages, holder, th, history>>

EvictEnd(t) ==
    /\ At(t, "iterate")
    /\ Return(t)
    /\ UNCHANGED <<pages, ghost, counts, averages, holder, history>>

-----------------------------------------------------------------------------
(* Specification *)

Zero == [i \in Tiers |-> 0]

\* A zeroed map.
Init ==
    /\ cached = {} /\ tracked = {} /\ tier = [p \in Pages |-> 0]
    /\ ghost = [p \in Pages |-> NoTier]
    /\ refaulted = Zero /\ evicted = Zero /\ protected = Zero
    /\ avg_refaulted = Zero /\ avg_total = Zero
    /\ holder = NoPage
    /\ th = [t \in Threads |-> Idle]
    /\ refaults = Zero /\ evictions = Zero /\ misread = 0

Hook(t) ==
    \/ \E p \in Pages : FolioAdded(t, p) \/ FolioEvicted(t, p)
    \/ FolioAddedMeta(t) \/ GhostLookup(t) \/ GhostDelete(t) \/ Refault(t)
    \/ GhostInsert(t) \/ CountEvicted(t)

Evict(t) ==
    \/ ResetBegin(t) \/ CarryRefaulted(t) \/ CarryTotal(t)
    \/ ZeroRefaulted(t) \/ ZeroEvicted(t) \/ ZeroProtected(t)
    \/ SelectTier(t) \/ Protect(t) \/ EvictEnd(t)

Next ==
    \/ \E p \in Pages : FolioAccessed(p) \/ GhostDropped(p)
    \/ \E t \in Threads : Hook(t) \/ Evict(t)

Spec == Init /\ [][Next]_vars

-----------------------------------------------------------------------------
(* Properties *)

HookLabels == {"add_meta", "ghost_lookup", "ghost_delete", "ghost_read", "ghost_insert",
               "count_evicted"}
ResetLabels == {"carry_refaulted", "carry_total", "zero_refaulted", "zero_evicted",
                "zero_protected"}

ThreadStates == [pc : {"idle", "select", "iterate"} \cup HookLabels \cup ResetLabels,
                 f : Pages \cup {NoPage}, tier : Tiers]

\* Types; a tier read through a pointer to a deleted entry is still a tier, so the
\* index of the counts is.
TypeOK ==
    /\ cached \subseteq Pages /\ tracked \subseteq Pages
    /\ tier \in [Pages -> Tiers] /\ ghost \in [Pages -> Tiers \cup {NoTier}]
    /\ refaulted \in [Tiers -> Nat] /\ evicted \in [Tiers -> Nat]
    /\ protected \in [Tiers -> Nat]
    /\ avg_refaulted \in [Tiers -> Nat] /\ avg_total \in [Tiers -> Nat]
    /\ holder \in Threads \cup {NoPage}
    /\ th \in [Threads -> ThreadStates]
    /\ refaults \in [Tiers -> Nat] /\ evictions \in [Tiers -> Nat]
    /\ misread \in Nat

\* A tier is not blamed for more refaults than it had evictions, so that the ratio
\* the controller compares means what its comment says
\* (cache_ext_mglru.bpf.c:260), except for refaults whose ghost entry was
\* deleted and taken by another page before its tier was read.
RefaultsFollowEvictions ==
    \A i \in Tiers : refaults[i] <= evictions[i] + misread

\* The controller reads without the lock while averages and counts are being
\* folded, and sees an event in both for a while: half of it in the average, and
\* all of it in the count.  It never sees more than that, whatever resets and
\* hooks do: no event is carried twice.
SeenRefaultsBounded ==
    \A i \in Tiers : 2 * CtrlPos(i).refaulted <= 3 * refaults[i]

=============================================================================
