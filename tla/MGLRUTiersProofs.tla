--------------------------- MODULE MGLRUTiersProofs ---------------------------
(***************************************************************************)
(* Theorems about the tiers of MGLRU, for any pages, tiers and threads:     *)
(* types, that a refault is counted only of an eviction that was counted or *)
(* of an entry that was misread, and that the refaults a tier is protected  *)
(* by, carried by halves across the resets, never exceed those that         *)
(* happened.                                                                *)
(*                                                                         *)
(* The proof keeps an account for each tier: what is counted, what readers  *)
(* of ghost entries are about to count and the entries still to be read are *)
(* together covered by the evictions.                                       *)
(***************************************************************************)
EXTENDS MGLRUTiers, CacheExtListsProofs

\* A page is added or removed by one thread at a time; the lock of the policy
\* serialises the resets.
PageLocks ==
    /\ \A t \in Threads : th[t].pc \in HookLabels => th[t].f \in Pages
    /\ \A t, u \in Threads : th[t].f # NoPage /\ th[t].f = th[u].f => t = u
ResetLock == \A t \in Threads : th[t].pc \in ResetLabels => holder = t

\* What may still become a refault of tier i: readers of an entry, and entries that
\* are neither about to be deleted by their reader nor those of an eviction that is
\* still to be counted.
Takes(local, i) ==
    \/ local.pc = "ghost_delete"
    \/ local.pc = "count_evicted" /\ local.tier = i
Taken(p) == \E t \in Threads : th[t].f = p /\ Takes(th[t], ghost[p])
Reading(i) == {t \in Threads : th[t].pc \in {"ghost_delete", "ghost_read"} /\ th[t].tier = i}
Ghosts(i) == {p \in Pages : ghost[p] = i /\ ~Taken(p)}

Owed(i) ==
    refaults[i] + Cardinality(Reading(i)) + Cardinality(Ghosts(i))
        <= evictions[i] + misread

\* A tier whose count is carried, and not zeroed yet.
CarriedTier(i) == \E t \in Threads : /\ th[t].pc \in {"carry_total", "zero_refaulted"}
                                     /\ th[t].tier = i

Folded(i) ==
    IF CarriedTier(i)
    THEN 2 * avg_refaulted[i] <= refaults[i] /\ refaulted[i] <= refaults[i]
    ELSE avg_refaulted[i] + refaulted[i] <= refaults[i]

IndInv ==
    TypeOK /\ PageLocks /\ ResetLock /\ \A i \in Tiers : Owed(i) /\ Folded(i)

-----------------------------------------------------------------------------
LEMMA ConstantFacts ==
    /\ 0 \in Tiers /\ NoTier \notin Tiers /\ Tiers \subseteq Nat
    /\ \A i \in Tiers : TierAfter(i) \in Tiers
    /\ NoPage \notin Pages /\ NoPage \notin Threads
    /\ IsFiniteSet(Pages) /\ IsFiniteSet(Threads)
    /\ Idle \in ThreadStates /\ Idle.pc = "idle" /\ Idle.f = NoPage
<1>1. MAX_NR_TIERS \in Nat /\ MAX_NR_TIERS > 1
    BY MGLRUTiersAssumption
<1>2. 0 \in Tiers /\ NoTier \notin Tiers /\ Tiers \subseteq Nat
    BY <1>1 DEF Tiers, NoTier
<1>3. \A i \in Tiers : TierAfter(i) \in Tiers
    BY <1>1 DEF Tiers, TierAfter
<1>4. Idle \in ThreadStates /\ Idle.pc = "idle" /\ Idle.f = NoPage
    BY <1>2 DEF Idle, ThreadStates
<1> QED
    BY <1>2, <1>3, <1>4, MGLRUTiersAssumption

\* The controller always finds a tier, whatever counts it reads.
LEMMA ThresholdType == get_tier_idx \in Tiers
<1> DEFINE candidates == {i \in Tiers : i + 1 \in Tiers =>
                             ~positive_ctrl_err(CtrlPos(0), CtrlPos(i + 1))}
<1>1. MAX_NR_TIERS - 1 \in candidates
  <2>1. /\ MAX_NR_TIERS - 1 \in Tiers
        /\ MAX_NR_TIERS - 1 + 1 \notin Tiers
      BY MGLRUTiersAssumption DEF Tiers
  <2> QED
      BY <2>1
<1>2. candidates \subseteq Nat
    BY ConstantFacts
<1>3. candidates \subseteq Tiers
    OBVIOUS
<1> HIDE DEF candidates
<1>4. PICK least \in candidates : \A k \in candidates : least <= k
    BY <1>1, <1>2, LeastNatural
<1>5. Min(candidates) \in candidates
    BY <1>4 DEF Min
<1> QED
    BY <1>3, <1>5 DEF get_tier_idx, candidates

\* A step of one thread.
MovesTo(t, label, f, i) ==
    /\ th' \in [Threads -> ThreadStates]
    /\ th'[t].pc = label /\ th'[t].f = f /\ th'[t].tier = i
    /\ \A u \in Threads : u # t => th'[u] = th[u]

LEMMA ThreadStep ==
    ASSUME TypeOK, NEW t \in Threads
    PROVE  /\ \A label, f, i :
                Goto(t, label, f, i) /\ [pc |-> label, f |-> f, tier |-> i] \in ThreadStates
                    => MovesTo(t, label, f, i)
           /\ \A label, i :
                Step(t, label, i) /\ [pc |-> label, f |-> th[t].f, tier |-> i] \in ThreadStates
                    => MovesTo(t, label, th[t].f, i)
           /\ Return(t) => MovesTo(t, "idle", NoPage, 0)
<1>1. th \in [Threads -> ThreadStates] /\ Idle \in ThreadStates
    BY ConstantFacts DEF TypeOK
<1>2. ASSUME NEW label, NEW f, NEW i, Goto(t, label, f, i),
             [pc |-> label, f |-> f, tier |-> i] \in ThreadStates
      PROVE  MovesTo(t, label, f, i)
    BY <1>1, <1>2 DEF Goto, MovesTo
<1>3. Return(t) => MovesTo(t, "idle", NoPage, 0)
    BY <1>1 DEF Return, MovesTo, Idle
<1> QED
    BY <1>2, <1>3 DEF Step

\* Every label of a hook or a reset makes a state, for a page and a tier.
LEMMA NewStates ==
    ASSUME NEW f \in Pages \cup {NoPage}, NEW i \in Tiers
    PROVE  \A label \in {"idle", "select", "iterate"} \cup HookLabels \cup ResetLabels :
              [pc |-> label, f |-> f, tier |-> i] \in ThreadStates
BY DEF ThreadStates

LEMMA InitIndInv == Init => IndInv
<1> SUFFICES ASSUME Init PROVE IndInv
    OBVIOUS
<1>1. \A t \in Threads : th[t].pc = "idle" /\ th[t].f = NoPage
    BY ConstantFacts DEF Init
<1>2. TypeOK
    BY ConstantFacts DEF Init, TypeOK, Zero
<1>3. PageLocks /\ ResetLock
    BY <1>1 DEF PageLocks, ResetLock, HookLabels, ResetLabels
<1>4. ASSUME NEW i \in Tiers PROVE Owed(i) /\ Folded(i)
  <2>1. Reading(i) = {} /\ ~CarriedTier(i)
      BY <1>1 DEF Reading, CarriedTier
  <2>2. Ghosts(i) = {}
      BY ConstantFacts DEF Init, Ghosts
  <2>3. refaults[i] = 0 /\ evictions[i] = 0 /\ misread = 0
        /\ avg_refaulted[i] = 0 /\ refaulted[i] = 0
      BY DEF Init, Zero
  <2> QED
      BY <2>1, <2>2, <2>3, FS_EmptySet DEF Owed, Folded
<1> QED
    BY <1>2, <1>3, <1>4 DEF IndInv

-----------------------------------------------------------------------------
(* What steps of threads leave alone *)

\* A step of a hook: the page stays the thread's, is one nobody has locked, or is
\* released.
LEMMA HookStep ==
    ASSUME IndInv, NEW t \in Threads, NEW label, NEW f, NEW i, MovesTo(t, label, f, i),
           UNCHANGED holder, th[t].pc \notin ResetLabels, label \notin ResetLabels,
           \/ f = NoPage /\ label \notin HookLabels
           \/ f \in Pages /\ (f = th[t].f \/ ~Locked(f))
    PROVE  PageLocks' /\ ResetLock'
<1>1. \A u \in Threads : th'[u].pc \in HookLabels => th'[u].f \in Pages
    BY DEF MovesTo, IndInv, PageLocks
<1>2. ASSUME NEW u \in Threads, NEW w \in Threads,
             th'[u].f # NoPage, th'[u].f = th'[w].f
      PROVE  u = w
    BY <1>2 DEF MovesTo, IndInv, PageLocks, Locked
<1>3. ResetLock'
    BY DEF MovesTo, IndInv, ResetLock
<1> QED
    BY <1>1, <1>2, <1>3 DEF PageLocks

CountLabels == {"ghost_delete", "ghost_read", "count_evicted"}

\* What is owed is unchanged by threads that neither read an entry nor count.
LEMMA QuietOwed ==
    ASSUME IndInv, UNCHANGED <<ghost, refaults, evictions, misread>>,
           \A u \in Threads :
              \/ th'[u] = th[u]
              \/ th[u].pc \notin CountLabels /\ th'[u].pc \notin CountLabels
    PROVE  \A i \in Tiers : Owed(i)'
<1>1. \A p \in Pages : Taken(p)' <=> Taken(p)
    BY DEF Taken, Takes, CountLabels
<1>2. ASSUME NEW i \in Tiers PROVE Owed(i)'
  <2>1. Reading(i)' = Reading(i)
      BY DEF Reading, CountLabels
  <2>2. Ghosts(i)' = Ghosts(i)
      BY <1>1 DEF Ghosts
  <2> QED
      BY <2>1, <2>2 DEF IndInv, Owed
<1> QED
    BY <1>2

CarriedLabels == {"carry_total", "zero_refaulted"}

\* The average of a tier stays right while its counts and its reset stand still.
LEMMA QuietFolded ==
    ASSUME IndInv, UNCHANGED <<avg_refaulted, refaulted, refaults>>,
           \A u \in Threads :
              /\ th'[u].pc \in CarriedLabels <=> th[u].pc \in CarriedLabels
              /\ th[u].pc \in CarriedLabels => th'[u].tier = th[u].tier
    PROVE  \A i \in Tiers : Folded(i)'
<1>1. \A i \in Tiers : CarriedTier(i)' <=> CarriedTier(i)
    BY DEF CarriedTier, CarriedLabels
<1> QED
    BY <1>1 DEF IndInv, Folded

-----------------------------------------------------------------------------
(* The actions, one lemma each, with what they owe and fold *)

LEMMA ThreadTypes ==
    ASSUME IndInv, NEW t \in Threads
    PROVE  /\ th[t].f \in Pages \cup {NoPage} /\ th[t].tier \in Tiers
           /\ th[t].pc \in HookLabels => th[t].f \in Pages
           /\ {"add_meta", "ghost_lookup", "ghost_delete", "ghost_read", "ghost_insert",
               "count_evicted"} = HookLabels
           /\ {"carry_refaulted", "carry_total", "zero_refaulted", "zero_evicted",
               "zero_protected"} = ResetLabels
           /\ CarriedLabels \subseteq ResetLabels /\ CountLabels \subseteq HookLabels
           /\ ResetLabels \cap HookLabels = {}
BY DEF IndInv, TypeOK, PageLocks, ThreadStates, HookLabels, ResetLabels, CarriedLabels,
       CountLabels

\* A hook's step that neither reads an entry nor counts.
LEMMA QuietHook ==
    ASSUME IndInv, NEW t \in Threads, NEW label, NEW f, NEW i, MovesTo(t, label, f, i),
           UNCHANGED <<ghost, counts, averages, holder, history>>,
           th[t].pc \notin CountLabels \cup ResetLabels,
           label \notin CountLabels \cup ResetLabels,
           \/ f = NoPage /\ label \notin HookLabels
           \/ f \in Pages /\ (f = th[t].f \/ ~Locked(f)),
           TypeOK'
    PROVE  IndInv'
<1>1. PageLocks' /\ ResetLock'
    BY HookStep
<1>2. \A j \in Tiers : Owed(j)'
    BY QuietOwed DEF MovesTo, history
<1>3. \A j \in Tiers : Folded(j)'
    BY QuietFolded, ThreadTypes DEF MovesTo, counts, averages, history
<1> QED
    BY <1>1, <1>2, <1>3 DEF IndInv

\* A step that leaves the threads alone.
LEMMA FolioAccessedStep ==
    ASSUME IndInv, NEW p \in Pages, FolioAccessed(p)
    PROVE  IndInv'
<1>1. tier' \in [Pages -> Tiers]
    BY ConstantFacts DEF FolioAccessed, IndInv, TypeOK
<1>2. UNCHANGED <<cached, tracked, ghost, refaulted, evicted, protected, avg_refaulted,
                  avg_total, holder, th, refaults, evictions, misread>>
    BY DEF FolioAccessed, counts, averages, history
<1>3. TypeOK'
    BY <1>1, <1>2 DEF IndInv, TypeOK
<1>4. \A i \in Tiers : Owed(i)' /\ Folded(i)'
    BY <1>2, QuietOwed, QuietFolded
<1>5. PageLocks' /\ ResetLock'
    BY <1>2 DEF IndInv, PageLocks, ResetLock
<1> QED
    BY <1>3, <1>4, <1>5 DEF IndInv

\* An entry that is dropped is not owed any more.
LEMMA GhostDroppedStep ==
    ASSUME IndInv, NEW p \in Pages, GhostDropped(p)
    PROVE  IndInv'
<1>1. /\ ghost' = [ghost EXCEPT ![p] = NoTier]
      /\ UNCHANGED <<cached, tracked, tier, refaulted, evicted, protected, avg_refaulted,
                     avg_total, holder, th, refaults, evictions, misread>>
    BY DEF GhostDropped, pages, counts, averages, history
<1>2. ghost' \in [Pages -> Tiers \cup {NoTier}] /\ \A q \in Pages : q # p => ghost'[q] = ghost[q]
    BY <1>1 DEF IndInv, TypeOK
<1>3. TypeOK'
    BY <1>1, <1>2 DEF IndInv, TypeOK
<1>4. \A i \in Tiers : Folded(i)'
    BY <1>1, QuietFolded
<1>5. ASSUME NEW i \in Tiers PROVE Owed(i)'
  <2>1. Reading(i)' = Reading(i)
      BY <1>1 DEF Reading
  <2>2. \A q \in Pages : q # p => (Taken(q)' <=> Taken(q))
      BY <1>1, <1>2 DEF Taken
  <2>3. Ghosts(i)' \subseteq Ghosts(i)
      BY <1>1, <1>2, <2>2, ConstantFacts DEF Ghosts, IndInv, TypeOK
  <2>4. IsFiniteSet(Ghosts(i))
      BY ConstantFacts, FS_Subset DEF Ghosts
  <2>5. /\ Cardinality(Ghosts(i)') <= Cardinality(Ghosts(i))
        /\ Cardinality(Ghosts(i)') \in Nat /\ Cardinality(Ghosts(i)) \in Nat
      BY <2>3, <2>4, FS_Subset, FS_CardinalityType
  <2>6. Cardinality(Reading(i)) \in Nat
    <3>1. IsFiniteSet(Reading(i))
        BY ConstantFacts, FS_Subset DEF Reading
    <3> QED
        BY <3>1, FS_CardinalityType
  <2>7. refaults[i] \in Nat /\ evictions[i] \in Nat /\ misread \in Nat
      BY DEF IndInv, TypeOK
  <2>8. Owed(i)
      BY DEF IndInv
  <2> QED
      BY <1>1, <2>1, <2>5, <2>6, <2>7, <2>8 DEF Owed
<1>6. PageLocks' /\ ResetLock'
    BY <1>1 DEF IndInv, PageLocks, ResetLock
<1> QED
    BY <1>3, <1>4, <1>5, <1>6 DEF IndInv

-----------------------------------------------------------------------------
(* The account: one reader and one entry change at a time.                     *)

One(x, S) == IF x \in S THEN 1 ELSE 0

\* The tier's refaults, readers and entries may grow by as much as its evictions and
\* the misread refaults do.
LEMMA KeptByAccount ==
    ASSUME IndInv, TypeOK', NEW i \in Tiers, NEW r, NEW p,
           Reading(i)' \ {r} = Reading(i) \ {r},
           Ghosts(i)' \ {p} = Ghosts(i) \ {p},
           refaults'[i] - refaults[i]
             + One(r, Reading(i)') - One(r, Reading(i))
             + One(p, Ghosts(i)') - One(p, Ghosts(i))
           <= evictions'[i] - evictions[i] + misread' - misread
    PROVE  Owed(i)'
<1>1. IsFiniteSet(Reading(i)) /\ IsFiniteSet(Ghosts(i))
    BY ConstantFacts, FS_Subset DEF Reading, Ghosts
<1>2. \A A, B, t : IsFiniteSet(A) /\ A \ {t} = B \ {t} =>
         /\ Cardinality(A) \in Nat /\ Cardinality(B) \in Nat
         /\ Cardinality(B) - Cardinality(A) = One(t, B) - One(t, A)
  <2> SUFFICES ASSUME NEW A, NEW B, NEW t, IsFiniteSet(A), A \ {t} = B \ {t}
               PROVE  /\ Cardinality(A) \in Nat /\ Cardinality(B) \in Nat
                      /\ Cardinality(B) - Cardinality(A) = One(t, B) - One(t, A)
      OBVIOUS
  <2>1. /\ Cardinality(A) \in Nat /\ Cardinality(B) \in Nat
        /\ (t \in A <=> t \in B) => Cardinality(B) = Cardinality(A)
        /\ t \in A /\ t \notin B => Cardinality(B) = Cardinality(A) - 1
        /\ t \notin A /\ t \in B => Cardinality(B) = Cardinality(A) + 1
      BY OneElement
  <2> QED
      BY <2>1 DEF One
<1> DEFINE reading == Reading(i)'
           ghosts == Ghosts(i)'
<1>3. /\ Cardinality(Reading(i)) \in Nat /\ Cardinality(reading) \in Nat
      /\ Cardinality(reading) - Cardinality(Reading(i))
           = One(r, reading) - One(r, Reading(i))
    BY <1>1, <1>2
<1>4. /\ Cardinality(Ghosts(i)) \in Nat /\ Cardinality(ghosts) \in Nat
      /\ Cardinality(ghosts) - Cardinality(Ghosts(i))
           = One(p, ghosts) - One(p, Ghosts(i))
    BY <1>1, <1>2
<1>5. /\ refaults[i] \in Nat /\ evictions[i] \in Nat /\ misread \in Nat
      /\ refaults'[i] \in Nat /\ evictions'[i] \in Nat /\ misread' \in Nat
    BY DEF IndInv, TypeOK
<1>6. refaults[i] + Cardinality(Reading(i)) + Cardinality(Ghosts(i))
        <= evictions[i] + misread
    BY DEF IndInv, Owed
<1>7. refaults'[i] - refaults[i]
        + One(r, reading) - One(r, Reading(i))
        + One(p, ghosts) - One(p, Ghosts(i))
      <= evictions'[i] - evictions[i] + misread' - misread
    OBVIOUS
<1>8. \A x, S : One(x, S) \in Int
    BY DEF One
<1>9. Owed(i)' <=> refaults'[i] + Cardinality(reading) + Cardinality(ghosts)
                    <= evictions'[i] + misread'
    BY DEF Owed
<1> HIDE DEF reading, ghosts
<1> QED
    BY <1>3, <1>4, <1>5, <1>6, <1>7, <1>8, <1>9

-----------------------------------------------------------------------------
(* The hooks *)

LEMMA FolioAddedStep ==
    ASSUME IndInv, NEW t \in Threads, NEW p \in Pages, FolioAdded(t, p)
    PROVE  IndInv'
<1> USE DEF At
<1>1. /\ th[t].pc = "idle" /\ ~Locked(p) /\ cached' = cached \cup {p}
      /\ UNCHANGED <<tracked, tier, ghost, counts, averages, holder, history>>
    BY DEF FolioAdded
<1>2. ASSUME th' \in [Threads -> ThreadStates] PROVE TypeOK'
    BY <1>1, <1>2 DEF IndInv, TypeOK, counts, averages, history
<1>3. CASE Goto(t, "add_meta", p, 0)
  <2>1. MovesTo(t, "add_meta", p, 0)
      BY <1>3, ThreadStep, NewStates, ConstantFacts DEF IndInv, HookLabels
  <2>2. TypeOK'
      BY <1>2, <2>1 DEF MovesTo
  <2> QED
      BY <1>1, <2>1, <2>2, QuietHook DEF CountLabels, ResetLabels
<1>4. CASE UNCHANGED th
  <2>1. TypeOK'
      BY <1>2, <1>4 DEF IndInv, TypeOK
  <2>2. \A i \in Tiers : Owed(i)' /\ Folded(i)'
      BY <1>1, <1>4, QuietOwed, QuietFolded DEF counts, averages, history
  <2>3. PageLocks' /\ ResetLock'
      BY <1>1, <1>4 DEF IndInv, PageLocks, ResetLock
  <2> QED
      BY <2>1, <2>2, <2>3 DEF IndInv
<1> QED
    BY <1>3, <1>4 DEF FolioAdded

LEMMA FolioAddedMetaStep ==
    ASSUME IndInv, NEW t \in Threads, FolioAddedMeta(t)
    PROVE  IndInv'
<1> USE DEF At
<1>1. /\ th[t].pc = "add_meta" /\ th[t].f \in Pages
      /\ UNCHANGED <<cached, ghost, counts, averages, holder, history>>
    BY ThreadTypes DEF FolioAddedMeta, HookLabels
<1>2. tracked' \subseteq Pages /\ tier' \in [Pages -> Tiers]
    BY <1>1, ConstantFacts DEF FolioAddedMeta, IndInv, TypeOK
<1>3. ASSUME th' \in [Threads -> ThreadStates] PROVE TypeOK'
    BY <1>1, <1>2, <1>3 DEF IndInv, TypeOK, counts, averages, history
<1>4. CASE Step(t, "ghost_lookup", 0)
  <2>1. MovesTo(t, "ghost_lookup", th[t].f, 0)
      BY <1>1, <1>4, ThreadStep, NewStates, ConstantFacts DEF IndInv, HookLabels
  <2>2. TypeOK'
      BY <1>3, <2>1 DEF MovesTo
  <2> QED
      BY <1>1, <2>1, <2>2, QuietHook DEF CountLabels, ResetLabels
<1>5. CASE Return(t)
  <2>1. MovesTo(t, "idle", NoPage, 0)
      BY <1>5, ThreadStep DEF IndInv
  <2>2. TypeOK'
      BY <1>3, <2>1 DEF MovesTo
  <2> QED
      BY <1>1, <2>1, <2>2, QuietHook DEF CountLabels, ResetLabels, HookLabels
<1> QED
    BY <1>4, <1>5 DEF FolioAddedMeta

\* The page's lock is the thread's, so its entry is taken by the thread or by none.
LEMMA OwnPage ==
    ASSUME IndInv, NEW t \in Threads, NEW p \in Pages, p = th[t].f,
           th'[t].f \in {p, NoPage}, \A u \in Threads : u # t => th'[u].f = th[u].f,
           \A u \in Threads : u # t => \A i : Takes(th'[u], i) <=> Takes(th[u], i),
           \A q \in Pages : q # p => ghost'[q] = ghost[q]
    PROVE  /\ Taken(p) <=> Takes(th[t], ghost[p])
           /\ Taken(p)' <=> Takes(th'[t], ghost'[p]) /\ th'[t].f = p
           /\ \A q \in Pages : q # p => (Taken(q)' <=> Taken(q))
<1>1. p # NoPage
    BY ConstantFacts
<1>2. \A u \in Threads : u # t => th[u].f # p /\ th'[u].f # p
    BY <1>1 DEF IndInv, PageLocks
<1>3. Taken(p) <=> Takes(th[t], ghost[p])
    BY <1>2 DEF Taken
<1>4. Taken(p)' <=> Takes(th'[t], ghost'[p]) /\ th'[t].f = p
    BY <1>2 DEF Taken
<1>5. ASSUME NEW q \in Pages, q # p PROVE Taken(q)' <=> Taken(q)
  <2>1. th[t].f # q /\ th'[t].f # q
      BY <1>5, ConstantFacts
  <2>2. \A u \in Threads : /\ th'[u].f = q <=> th[u].f = q
                           /\ th[u].f = q => (Takes(th'[u], ghost'[q]) <=> Takes(th[u], ghost[q]))
      BY <1>5, <2>1
  <2> QED
      BY <2>2 DEF Taken
<1> QED
    BY <1>3, <1>4, <1>5

\* An entry that is found becomes its reader's.
LEMMA GhostLookupStep ==
    ASSUME IndInv, NEW t \in Threads, GhostLookup(t)
    PROVE  IndInv'
<1>0. PICK p \in Pages : p = th[t].f
    BY ThreadTypes DEF GhostLookup, At, HookLabels
<1>1. /\ th[t].pc = "ghost_lookup" /\ th[t].pc \in HookLabels
      /\ UNCHANGED <<cached, tracked, tier, ghost, counts, averages, holder, history>>
    BY ThreadTypes DEF GhostLookup, HookLabels, pages, At
<1>2. ASSUME th' \in [Threads -> ThreadStates] PROVE TypeOK'
    BY <1>1, <1>2 DEF IndInv, TypeOK, counts, averages, history
<1>3. CASE ghost[p] = NoTier
  <2>1. MovesTo(t, "idle", NoPage, 0)
      BY <1>0, <1>3, ThreadStep DEF IndInv, GhostLookup
  <2>2. TypeOK'
      BY <1>2, <2>1 DEF MovesTo
  <2> QED
      BY <1>1, <2>1, <2>2, QuietHook DEF CountLabels, ResetLabels, HookLabels
<1>4. CASE ghost[p] # NoTier
  <2>1. ghost[p] \in Tiers
      BY <1>1, <1>4 DEF IndInv, TypeOK
  <2>2. MovesTo(t, "ghost_delete", p, ghost[p])
      BY <1>0, <1>1, <1>4, <2>1, ThreadStep, NewStates DEF IndInv, HookLabels, GhostLookup
  <2>3. TypeOK'
      BY <1>2, <2>2 DEF MovesTo
  <2>4. PageLocks' /\ ResetLock'
      BY <1>0, <1>1, <2>2, HookStep DEF ResetLabels
  <2>5. \A i \in Tiers : Folded(i)'
      BY <1>1, <2>2, QuietFolded DEF MovesTo, counts, averages, history, CarriedLabels
  <2>6. /\ ~Taken(p) /\ Taken(p)'
        /\ \A q \in Pages : q # p => (Taken(q)' <=> Taken(q))
      BY <1>0, <1>1, <2>2, OwnPage DEF MovesTo, Takes
  <2>7. ASSUME NEW i \in Tiers PROVE Owed(i)'
    <3>1. Reading(i)' \ {t} = Reading(i) \ {t} /\ t \notin Reading(i)
          /\ (t \in Reading(i)' <=> ghost[p] = i)
        BY <1>1, <2>2 DEF Reading, MovesTo
    <3>2. Ghosts(i)' \ {p} = Ghosts(i) \ {p} /\ p \notin Ghosts(i)'
          /\ (p \in Ghosts(i) <=> ghost[p] = i)
        BY <1>1, <2>6 DEF Ghosts, IndInv, TypeOK
    <3>3. refaults'[i] = refaults[i] /\ evictions'[i] = evictions[i] /\ misread' = misread
          /\ refaults[i] \in Nat /\ evictions[i] \in Nat /\ misread \in Nat
        BY <1>1 DEF history, IndInv, TypeOK
    <3> QED
        BY <2>3, <3>1, <3>2, <3>3, KeptByAccount DEF One
  <2> QED
      BY <2>3, <2>4, <2>5, <2>7 DEF IndInv
<1> QED
    BY <1>3, <1>4

\* The reader keeps its entry when it deletes it.
LEMMA GhostDeleteStep ==
    ASSUME IndInv, NEW t \in Threads, GhostDelete(t)
    PROVE  IndInv'
<1>1. PICK p \in Pages : p = th[t].f
    BY ThreadTypes DEF GhostDelete, At, HookLabels
<1>2. /\ th[t].pc = "ghost_delete" /\ ghost' = [ghost EXCEPT ![p] = NoTier]
      /\ UNCHANGED <<cached, tracked, tier, counts, averages, holder, history>>
    BY <1>1 DEF GhostDelete, pages, At
<1>3. MovesTo(t, "ghost_read", p, th[t].tier)
    BY <1>1, ThreadStep, NewStates, ThreadTypes DEF IndInv, HookLabels, GhostDelete
<1>4. ghost' \in [Pages -> Tiers \cup {NoTier}] /\ ghost'[p] = NoTier
      /\ \A q \in Pages : q # p => ghost'[q] = ghost[q]
    BY <1>2 DEF IndInv, TypeOK
<1>5. TypeOK'
    BY <1>2, <1>3, <1>4 DEF IndInv, TypeOK, counts, averages, history, MovesTo
<1>6. PageLocks' /\ ResetLock'
    BY <1>1, <1>2, <1>3, HookStep DEF ResetLabels
<1>7. \A i \in Tiers : Folded(i)'
    BY <1>2, <1>3, QuietFolded DEF MovesTo, counts, averages, history, CarriedLabels
<1>8. Taken(p) /\ \A q \in Pages : q # p => (Taken(q)' <=> Taken(q))
  <2>1. th'[t].f = p /\ \A u \in Threads : u # t => th'[u] = th[u]
      BY <1>3 DEF MovesTo
  <2>2. Takes(th[t], ghost[p])
      BY <1>2 DEF Takes
  <2> QED
      BY <1>1, <1>4, <2>1, <2>2, OwnPage
<1>9. ASSUME NEW i \in Tiers PROVE Owed(i)'
  <2>1. Reading(i)' \ {t} = Reading(i) \ {t} /\ (t \in Reading(i)' <=> t \in Reading(i))
      BY <1>2, <1>3 DEF Reading, MovesTo
  <2>2. Ghosts(i)' \ {p} = Ghosts(i) \ {p} /\ p \notin Ghosts(i)' /\ p \notin Ghosts(i)
      BY <1>4, <1>8, ConstantFacts DEF Ghosts
  <2>3. refaults'[i] = refaults[i] /\ evictions'[i] = evictions[i] /\ misread' = misread
        /\ refaults[i] \in Nat /\ evictions[i] \in Nat /\ misread \in Nat
      BY <1>2 DEF history, IndInv, TypeOK
  <2> QED
      BY <1>5, <2>1, <2>2, <2>3, KeptByAccount DEF One
<1> QED
    BY <1>5, <1>6, <1>7, <1>9 DEF IndInv

\* A counter of a tier goes up.
LEMMA PlusStep ==
    ASSUME NEW counter \in [Tiers -> Nat], NEW i \in Tiers
    PROVE  /\ Plus(counter, i) \in [Tiers -> Nat]
           /\ \A j \in Tiers : Plus(counter, i)[j] = IF j = i THEN counter[j] + 1 ELSE counter[j]
BY DEF Plus

\* The reader's entry becomes a refault.
LEMMA RefaultStep ==
    ASSUME IndInv, NEW t \in Threads, Refault(t)
    PROVE  IndInv'
<1>1. PICK p \in Pages : p = th[t].f
    BY ThreadTypes DEF Refault, At, HookLabels
<1>2. PICK k \in Tiers : k = th[t].tier
    BY ThreadTypes
<1>3. /\ th[t].pc = "ghost_read"
      /\ refaulted' = Plus(refaulted, k) /\ refaults' = Plus(refaults, k)
      /\ UNCHANGED <<cached, tracked, tier, ghost, evicted, protected, averages, holder,
                     evictions, misread>>
    BY <1>2 DEF Refault, pages, At
<1>4. MovesTo(t, "idle", NoPage, 0)
    BY ThreadStep DEF IndInv, Refault
<1>5. /\ refaulted' \in [Tiers -> Nat] /\ refaults' \in [Tiers -> Nat]
      /\ \A j \in Tiers : /\ refaulted'[j] = IF j = k THEN refaulted[j] + 1 ELSE refaulted[j]
                          /\ refaults'[j] = IF j = k THEN refaults[j] + 1 ELSE refaults[j]
    BY <1>3, PlusStep DEF IndInv, TypeOK
<1>6. TypeOK'
    BY <1>3, <1>4, <1>5 DEF IndInv, TypeOK, averages, MovesTo
<1>7. PageLocks' /\ ResetLock'
    BY <1>3, <1>4, HookStep DEF ResetLabels, HookLabels
<1>8. ASSUME NEW i \in Tiers PROVE Folded(i)'
  <2>1. CarriedTier(i)' <=> CarriedTier(i)
      BY <1>3, <1>4 DEF CarriedTier, MovesTo
  <2>2. refaulted[i] \in Nat /\ refaults[i] \in Nat /\ avg_refaulted[i] \in Nat
      BY DEF IndInv, TypeOK
  <2>3. Folded(i) /\ avg_refaulted'[i] = avg_refaulted[i]
      BY <1>3 DEF IndInv, averages
  <2> QED
      BY <1>5, <2>1, <2>2, <2>3 DEF Folded
<1>9. ASSUME NEW i \in Tiers PROVE Owed(i)'
  <2>1. Reading(i)' \ {t} = Reading(i) \ {t} /\ t \notin Reading(i)'
        /\ (t \in Reading(i) <=> i = k)
      BY <1>2, <1>3, <1>4 DEF Reading, MovesTo
  <2>2. Ghosts(i)' = Ghosts(i)
    <3>1. \A q \in Pages : Taken(q)' <=> Taken(q)
        BY <1>3, <1>4 DEF Taken, Takes, MovesTo
    <3> QED
        BY <1>3, <3>1 DEF Ghosts
  <2>3. /\ evictions'[i] = evictions[i] /\ misread' = misread
        /\ refaults'[i] = refaults[i] + One(t, Reading(i))
        /\ refaults[i] \in Nat /\ evictions[i] \in Nat /\ misread \in Nat
      BY <1>3, <1>5, <2>1 DEF One, IndInv, TypeOK
  <2>4. /\ One(t, Reading(i)') = 0 /\ One(p, Ghosts(i)') = One(p, Ghosts(i))
        /\ \A x, S : One(x, S) \in Int
      BY <2>1, <2>2 DEF One
  <2>5. refaults'[i] - refaults[i]
          + One(t, Reading(i)') - One(t, Reading(i))
          + One(p, Ghosts(i)') - One(p, Ghosts(i))
        <= evictions'[i] - evictions[i] + misread' - misread
      BY <2>3, <2>4
  <2> QED
      BY <1>6, <2>1, <2>2, <2>5, KeptByAccount
<1> QED
    BY <1>6, <1>7, <1>8, <1>9 DEF IndInv

LEMMA FolioEvictedStep ==
    ASSUME IndInv, NEW t \in Threads, NEW p \in Pages, FolioEvicted(t, p)
    PROVE  IndInv'
<1> USE DEF At
<1>1. /\ th[t].pc = "idle" /\ ~Locked(p) /\ cached' = cached \ {p}
      /\ UNCHANGED <<tracked, tier, ghost, counts, averages, holder, history>>
    BY DEF FolioEvicted
<1>2. ASSUME th' \in [Threads -> ThreadStates] PROVE TypeOK'
    BY <1>1, <1>2 DEF IndInv, TypeOK, counts, averages, history
<1>3. CASE Goto(t, "ghost_insert", p, tier[p])
  <2>1. tier[p] \in Tiers
      BY DEF IndInv, TypeOK
  <2>2. MovesTo(t, "ghost_insert", p, tier[p])
      BY <1>3, <2>1, ThreadStep, NewStates DEF IndInv, HookLabels
  <2>3. TypeOK'
      BY <1>2, <2>2 DEF MovesTo
  <2> QED
      BY <1>1, <2>2, <2>3, QuietHook DEF CountLabels, ResetLabels
<1>4. CASE UNCHANGED th
  <2>1. TypeOK'
      BY <1>2, <1>4 DEF IndInv, TypeOK
  <2>2. \A i \in Tiers : Owed(i)' /\ Folded(i)'
      BY <1>1, <1>4, QuietOwed, QuietFolded DEF counts, averages, history
  <2>3. PageLocks' /\ ResetLock'
      BY <1>1, <1>4 DEF IndInv, PageLocks, ResetLock
  <2> QED
      BY <2>1, <2>2, <2>3 DEF IndInv
<1> QED
    BY <1>3, <1>4 DEF FolioEvicted

\* The eviction is counted.
LEMMA CountEvictedStep ==
    ASSUME IndInv, NEW t \in Threads, CountEvicted(t)
    PROVE  IndInv'
<1>1. PICK p \in Pages : p = th[t].f
    BY ThreadTypes DEF CountEvicted, At, HookLabels
<1>2. PICK k \in Tiers : k = th[t].tier
    BY ThreadTypes
<1>3. /\ th[t].pc = "count_evicted"
      /\ evicted' = Plus(evicted, k) /\ evictions' = Plus(evictions, k)
      /\ tracked' = tracked \ {p} /\ tier' = [tier EXCEPT ![p] = 0]
      /\ UNCHANGED <<cached, ghost, refaulted, protected, averages, holder, refaults, misread>>
    BY <1>1, <1>2 DEF CountEvicted, At
<1>4. MovesTo(t, "idle", NoPage, 0)
    BY ThreadStep DEF IndInv, CountEvicted
<1>5. /\ evicted' \in [Tiers -> Nat] /\ evictions' \in [Tiers -> Nat]
      /\ \A j \in Tiers : evictions'[j] = IF j = k THEN evictions[j] + 1 ELSE evictions[j]
    BY <1>3, PlusStep DEF IndInv, TypeOK
<1>6. tier' \in [Pages -> Tiers]
    BY <1>3, ConstantFacts DEF IndInv, TypeOK
<1>7. TypeOK'
    BY <1>3, <1>4, <1>5, <1>6 DEF IndInv, TypeOK, averages, MovesTo
<1>8. PageLocks' /\ ResetLock'
    BY <1>3, <1>4, HookStep DEF ResetLabels, HookLabels
<1>9. \A i \in Tiers : Folded(i)'
    BY <1>3, <1>4, QuietFolded DEF MovesTo, averages, CarriedLabels
<1>10. ASSUME NEW i \in Tiers PROVE Owed(i)'
  <2>1. Reading(i)' = Reading(i)
      BY <1>3, <1>4 DEF Reading, MovesTo
  <2>2. /\ Taken(p) <=> ghost[p] = k
        /\ \A q \in Pages : q # p => (Taken(q)' <=> Taken(q))
      BY <1>1, <1>2, <1>3, <1>4, OwnPage DEF MovesTo, Takes
  <2>3. Ghosts(i)' \ {p} = Ghosts(i) \ {p} /\ (p \in Ghosts(i)' => i = k \/ p \in Ghosts(i))
      BY <1>3, <2>2 DEF Ghosts
  <2>4. /\ refaults'[i] = refaults[i] /\ misread' = misread
        /\ evictions'[i] = IF i = k THEN evictions[i] + 1 ELSE evictions[i]
        /\ refaults[i] \in Nat /\ evictions[i] \in Nat /\ misread \in Nat
      BY <1>3, <1>5 DEF IndInv, TypeOK
  <2>5. /\ One(p, Ghosts(i)') - One(p, Ghosts(i)) <= evictions'[i] - evictions[i]
        /\ One(t, Reading(i)') = One(t, Reading(i)) /\ \A x, S : One(x, S) \in Int
      BY <2>1, <2>3, <2>4 DEF One
  <2>6. refaults'[i] - refaults[i]
          + One(t, Reading(i)') - One(t, Reading(i))
          + One(p, Ghosts(i)') - One(p, Ghosts(i))
        <= evictions'[i] - evictions[i] + misread' - misread
      BY <2>4, <2>5
  <2> QED
      BY <1>7, <2>1, <2>3, <2>6, KeptByAccount
<1> QED
    BY <1>7, <1>8, <1>9, <1>10 DEF IndInv

\* The entry of an evicted page, which a reader of a deleted entry may take for its own.
LEMMA GhostInsertStep ==
    ASSUME IndInv, NEW t \in Threads, GhostInsert(t)
    PROVE  IndInv'
<1>1. PICK p \in Pages : p = th[t].f
    BY ThreadTypes DEF GhostInsert, At, HookLabels
<1>2. PICK k \in Tiers : k = th[t].tier
    BY ThreadTypes
<1>3. /\ th[t].pc = "ghost_insert"
      /\ UNCHANGED <<cached, tracked, tier, counts, averages, holder, refaults, evictions>>
    BY DEF GhostInsert, pages, At
<1>4. /\ ghost' = ghost \/ ghost' = [ghost EXCEPT ![p] = k]
      /\ \/ Step(t, "count_evicted", k) /\ misread' = misread
         \/ \E r \in Dangling :
               /\ th' = [th EXCEPT ![t].pc = "count_evicted", ![r].tier = k]
               /\ misread' = misread + 1
    BY <1>1, <1>2 DEF GhostInsert, GhostTier
<1>5. th \in [Threads -> ThreadStates] /\ ghost \in [Pages -> Tiers \cup {NoTier}]
      /\ misread \in Nat
    BY DEF IndInv, TypeOK
<1>6. PICK r \in Threads :
         /\ th' \in [Threads -> ThreadStates]
         /\ th'[t].pc = "count_evicted" /\ th'[t].f = p /\ th'[t].tier = k
         /\ \A u \in Threads : u # t => th'[u].pc = th[u].pc /\ th'[u].f = th[u].f
         /\ \A u \in Threads \ {t, r} : th'[u] = th[u]
         /\ \/ th'[r] = th[r] /\ misread' = misread
            \/ r = t /\ misread' = misread
            \/ /\ r # t /\ th[r].pc \in {"ghost_delete", "ghost_read"} /\ th'[r].tier = k
               /\ misread' = misread + 1
  <2>1. CASE Step(t, "count_evicted", k) /\ misread' = misread
    <3>1. MovesTo(t, "count_evicted", p, k)
        BY <1>1, <2>1, ThreadStep, NewStates DEF IndInv, HookLabels
    <3> QED
        BY <2>1, <3>1 DEF MovesTo
  <2>2. ASSUME NEW r \in Dangling,
               th' = [th EXCEPT ![t].pc = "count_evicted", ![r].tier = k],
               misread' = misread + 1
        PROVE  /\ r \in Threads \ {t} /\ th[r].pc \in {"ghost_delete", "ghost_read"}
               /\ th' \in [Threads -> ThreadStates]
               /\ th'[t].pc = "count_evicted" /\ th'[t].f = p /\ th'[t].tier = k
               /\ th'[r].tier = k
               /\ \A u \in Threads : u # t => th'[u].pc = th[u].pc /\ th'[u].f = th[u].f
               /\ \A u \in Threads \ {t, r} : th'[u] = th[u]
    <3>1. r \in Threads \ {t} /\ th[r].pc \in {"ghost_delete", "ghost_read"}
        BY <1>3, <2>2 DEF Dangling, At
    <3> DEFINE one == [th EXCEPT ![t] = [pc |-> "count_evicted", f |-> p, tier |-> k]]
               two == [pc |-> th[r].pc, f |-> th[r].f, tier |-> k]
    <3>2. [th[t] EXCEPT !.pc = "count_evicted"] = [pc |-> "count_evicted", f |-> p, tier |-> k]
        BY <1>1, <1>2, <1>5 DEF ThreadStates
    <3>3. [th[r] EXCEPT !.tier = k] = two
        BY <1>5, <3>1 DEF ThreadStates
    <3>4. th' = [one EXCEPT ![r] = two]
        BY <1>5, <2>2, <3>1, <3>2, <3>3
    <3>5. two \in ThreadStates /\ [pc |-> "count_evicted", f |-> p, tier |-> k] \in ThreadStates
        BY <1>5, <3>1, NewStates DEF ThreadStates, HookLabels
    <3> QED
        BY <1>5, <3>1, <3>4, <3>5
  <2> QED
      BY <1>4, <2>1, <2>2
<1>7. TypeOK'
  <2>1. ghost' \in [Pages -> Tiers \cup {NoTier}] /\ misread' \in Nat
      BY <1>4, <1>5, <1>6
  <2> QED
      BY <1>3, <1>6, <2>1 DEF IndInv, TypeOK, counts, averages
<1>8. PageLocks' /\ ResetLock'
  <2>1. \A u \in Threads : th'[u].f = th[u].f
      BY <1>1, <1>6
  <2>2. \A u \in Threads : /\ th'[u].pc \in HookLabels => th[u].pc \in HookLabels
                           /\ th'[u].pc \in ResetLabels => th[u].pc \in ResetLabels
      BY <1>3, <1>6 DEF HookLabels, ResetLabels
  <2> QED
      BY <1>3, <2>1, <2>2 DEF IndInv, PageLocks, ResetLock
<1>9. \A i \in Tiers : Folded(i)'
  <2>1. \A u \in Threads : /\ th'[u].pc \in CarriedLabels <=> th[u].pc \in CarriedLabels
                           /\ th[u].pc \in CarriedLabels => th'[u].tier = th[u].tier
      BY <1>3, <1>6 DEF CarriedLabels
  <2> QED
      BY <1>3, <2>1, QuietFolded DEF counts, averages
<1>10. /\ ~Taken(p) /\ (Taken(p)' <=> ghost'[p] = k)
       /\ \A q \in Pages : q # p => (Taken(q)' <=> Taken(q))
  <2>1. ASSUME NEW u \in Threads \ {t}, NEW i PROVE Takes(th'[u], i) <=> Takes(th[u], i)
    <3>1. th'[u].pc = th[u].pc /\ (th[u].pc = "count_evicted" => th'[u].tier = th[u].tier)
        BY <1>6
    <3> QED
        BY <3>1 DEF Takes
  <2>2. \A q \in Pages : q # p => ghost'[q] = ghost[q]
      BY <1>4, <1>5
  <2> QED
      BY <1>1, <1>3, <1>6, <2>1, <2>2, OwnPage DEF Takes
<1>11. ASSUME NEW i \in Tiers PROVE Owed(i)'
  <2>1. Ghosts(i)' \ {p} = Ghosts(i) \ {p} /\ (p \in Ghosts(i)' => p \in Ghosts(i))
      BY <1>4, <1>5, <1>10 DEF Ghosts
  <2>2. Reading(i)' \ {r} = Reading(i) \ {r}
        /\ (r \in Reading(i)' => r \in Reading(i) \/ misread' = misread + 1)
      BY <1>3, <1>6 DEF Reading
  <2>3. misread' = misread \/ misread' = misread + 1
      BY <1>6
  <2>4. /\ One(p, Ghosts(i)') <= One(p, Ghosts(i))
        /\ One(r, Reading(i)') - One(r, Reading(i)) <= misread' - misread
        /\ \A x, S : One(x, S) \in Int
      BY <1>5, <2>1, <2>2, <2>3 DEF One
  <2>5. /\ refaults'[i] = refaults[i] /\ evictions'[i] = evictions[i]
        /\ refaults[i] \in Nat /\ evictions[i] \in Nat /\ misread \in Nat /\ misread' \in Nat
      BY <1>3, <1>5, <2>3 DEF IndInv, TypeOK
  <2>6. refaults'[i] - refaults[i]
          + One(r, Reading(i)') - One(r, Reading(i))
          + One(p, Ghosts(i)') - One(p, Ghosts(i))
        <= evictions'[i] - evictions[i] + misread' - misread
      BY <2>4, <2>5
  <2> QED
      BY <1>7, <2>1, <2>2, <2>6, KeptByAccount
<1> QED
    BY <1>7, <1>8, <1>9, <1>11 DEF IndInv

-----------------------------------------------------------------------------
(* Resets and iterations, which read no ghost *)

\* A reset holds the lock alone.
LEMMA OneReset ==
    ASSUME IndInv, NEW t \in Threads, th[t].pc \in ResetLabels
    PROVE  holder = t /\ \A u \in Threads : u # t => th[u].pc \notin ResetLabels
BY DEF IndInv, ResetLock

\* What a step of an eviction keeps: it works on no page.
LEMMA EvictStep ==
    ASSUME IndInv, NEW t \in Threads, NEW label, NEW f, NEW i, MovesTo(t, label, f, i),
           th[t].pc \notin CountLabels, label \notin HookLabels,
           f \in {NoPage, th[t].f}, UNCHANGED <<ghost, history>>,
           \/ label \in ResetLabels /\ holder' = t /\ (holder = t \/ holder = NoPage)
           \/ label \notin ResetLabels /\ holder' = holder
           \/ label \notin ResetLabels /\ th[t].pc \in ResetLabels
    PROVE  PageLocks' /\ ResetLock' /\ \A j \in Tiers : Owed(j)'
<1>1. \A j \in Tiers : Owed(j)'
    BY QuietOwed, ThreadTypes DEF MovesTo, history
<1>2. ResetLock'
  <2> SUFFICES ASSUME NEW u \in Threads, th'[u].pc \in ResetLabels PROVE holder' = u
      BY DEF ResetLock
  <2>1. CASE u = t
      BY <2>1 DEF MovesTo
  <2>2. CASE u # t
    <3>1. th[u].pc \in ResetLabels /\ holder = u
        BY <2>2 DEF MovesTo, IndInv, ResetLock
    <3>2. u # NoPage
        BY ConstantFacts
    <3>3. th[t].pc \notin ResetLabels
        BY <2>2, <3>1 DEF IndInv, ResetLock
    <3> QED
        BY <2>2, <3>1, <3>2, <3>3
  <2> QED
      BY <2>1, <2>2
<1>3. PageLocks'
    BY DEF IndInv, PageLocks, MovesTo
<1> QED
    BY <1>1, <1>2, <1>3

LEMMA ResetBeginStep ==
    ASSUME IndInv, NEW t \in Threads, ResetBegin(t)
    PROVE  IndInv'
<1>1. /\ th[t].pc = "idle" /\ holder = NoPage /\ holder' = t
      /\ UNCHANGED <<cached, tracked, tier, ghost, counts, averages, history>>
    BY DEF ResetBegin, LockFree, pages, At
<1>2. MovesTo(t, "carry_refaulted", NoPage, 0)
    BY ThreadStep, NewStates, ConstantFacts DEF IndInv, ResetBegin, ResetLabels
<1>3. TypeOK'
    BY <1>1, <1>2 DEF IndInv, TypeOK, counts, averages, history, MovesTo
<1>4. PageLocks' /\ ResetLock' /\ \A i \in Tiers : Owed(i)'
    BY <1>1, <1>2, EvictStep DEF CountLabels, HookLabels, ResetLabels
<1>5. \A i \in Tiers : Folded(i)'
    BY <1>1, <1>2, QuietFolded DEF MovesTo, counts, averages, history, CarriedLabels
<1> QED
    BY <1>3, <1>4, <1>5 DEF IndInv

\* The average takes half of what it and the count were; the count is not zeroed yet.
LEMMA CarryRefaultedStep ==
    ASSUME IndInv, NEW t \in Threads, CarryRefaulted(t)
    PROVE  IndInv'
<1>1. PICK k \in Tiers : k = th[t].tier
    BY ThreadTypes
<1>2. /\ th[t].pc = "carry_refaulted" /\ th[t].pc \in ResetLabels
      /\ avg_refaulted' = [avg_refaulted EXCEPT ![k] = Carried(@, refaulted[k])]
      /\ UNCHANGED <<cached, tracked, tier, ghost, counts, avg_total, holder, history>>
    BY <1>1 DEF CarryRefaulted, pages, At, ResetLabels
<1>3. MovesTo(t, "carry_total", th[t].f, k)
    BY <1>1, ThreadStep, NewStates, ThreadTypes DEF IndInv, CarryRefaulted, ResetLabels
<1>4. avg_refaulted \in [Tiers -> Nat] /\ refaulted \in [Tiers -> Nat]
      /\ refaults \in [Tiers -> Nat]
    BY DEF IndInv, TypeOK
<1>5. Carried(avg_refaulted[k], refaulted[k]) \in Nat
      /\ 2 * Carried(avg_refaulted[k], refaulted[k]) <= avg_refaulted[k] + refaulted[k]
  <2>1. \A n \in Nat : n \div 2 \in Nat /\ 2 * (n \div 2) <= n
      OBVIOUS
  <2>2. avg_refaulted[k] + refaulted[k] \in Nat
      BY <1>4
  <2> QED
      BY <2>1, <2>2 DEF Carried
<1>6. avg_refaulted' \in [Tiers -> Nat]
    BY <1>2, <1>4, <1>5
<1>7. TypeOK'
    BY <1>2, <1>3, <1>6 DEF IndInv, TypeOK, counts, history, MovesTo
<1>8. holder = t /\ \A u \in Threads : u # t => th[u].pc \notin ResetLabels
    BY <1>2, OneReset
<1>9. PageLocks' /\ ResetLock' /\ \A i \in Tiers : Owed(i)'
    BY <1>2, <1>3, <1>8, EvictStep DEF CountLabels, HookLabels, ResetLabels
<1>10. ASSUME NEW i \in Tiers PROVE Folded(i)'
  <2>1. ~CarriedTier(i) /\ (CarriedTier(i)' <=> i = k)
      BY <1>2, <1>3, <1>8, ThreadTypes DEF CarriedTier, MovesTo, CarriedLabels
  <2>2. avg_refaulted[i] + refaulted[i] <= refaults[i]
      BY <2>1 DEF IndInv, Folded
  <2>3. /\ avg_refaulted[i] \in Nat /\ refaulted[i] \in Nat /\ refaults[i] \in Nat
        /\ refaulted'[i] = refaulted[i] /\ refaults'[i] = refaults[i]
        /\ avg_refaulted'[i] = IF i = k THEN Carried(avg_refaulted[k], refaulted[k])
                                        ELSE avg_refaulted[i]
      BY <1>2, <1>4 DEF counts, history
  <2> QED
      BY <1>5, <2>1, <2>2, <2>3 DEF Folded
<1> QED
    BY <1>7, <1>9, <1>10 DEF IndInv

LEMMA CarryTotalStep ==
    ASSUME IndInv, NEW t \in Threads, CarryTotal(t)
    PROVE  IndInv'
<1>1. PICK k \in Tiers : k = th[t].tier
    BY ThreadTypes
<1>2. /\ th[t].pc = "carry_total" /\ th[t].pc \in ResetLabels
      /\ avg_total' = [avg_total EXCEPT ![k] = Carried(@, evicted[k] + ProtectedOf(k))]
      /\ UNCHANGED <<cached, tracked, tier, ghost, counts, avg_refaulted, holder, history>>
    BY <1>1 DEF CarryTotal, pages, At, ResetLabels
<1>3. MovesTo(t, "zero_refaulted", th[t].f, k)
    BY <1>1, ThreadStep, NewStates, ThreadTypes DEF IndInv, CarryTotal, ResetLabels
<1>4. avg_total' \in [Tiers -> Nat]
  <2>1. avg_total \in [Tiers -> Nat] /\ evicted \in [Tiers -> Nat] /\ protected \in [Tiers -> Nat]
      BY DEF IndInv, TypeOK
  <2>2. avg_total[k] + (evicted[k] + ProtectedOf(k)) \in Nat
      BY <2>1 DEF ProtectedOf
  <2>3. \A n \in Nat : n \div 2 \in Nat
      OBVIOUS
  <2> QED
      BY <1>2, <2>1, <2>2, <2>3 DEF Carried
<1>5. TypeOK'
    BY <1>2, <1>3, <1>4 DEF IndInv, TypeOK, counts, history, MovesTo
<1>6. holder = t
    BY <1>2, OneReset
<1>7. PageLocks' /\ ResetLock' /\ \A i \in Tiers : Owed(i)'
    BY <1>2, <1>3, <1>6, EvictStep DEF CountLabels, HookLabels, ResetLabels
<1>8. \A i \in Tiers : Folded(i)'
    BY <1>1, <1>2, <1>3, QuietFolded DEF MovesTo, counts, history, CarriedLabels
<1> QED
    BY <1>5, <1>7, <1>8 DEF IndInv

\* The count is gone; half of it is in the average.
LEMMA ZeroRefaultedStep ==
    ASSUME IndInv, NEW t \in Threads, ZeroRefaulted(t)
    PROVE  IndInv'
<1>1. PICK k \in Tiers : k = th[t].tier
    BY ThreadTypes
<1>2. /\ th[t].pc = "zero_refaulted" /\ th[t].pc \in ResetLabels
      /\ refaulted' = [refaulted EXCEPT ![k] = 0]
      /\ UNCHANGED <<cached, tracked, tier, ghost, evicted, protected, averages, holder, history>>
    BY <1>1 DEF ZeroRefaulted, pages, At, ResetLabels
<1>3. MovesTo(t, "zero_evicted", th[t].f, k)
    BY <1>1, ThreadStep, NewStates, ThreadTypes DEF IndInv, ZeroRefaulted, ResetLabels
<1>4. TypeOK'
    BY <1>2, <1>3 DEF IndInv, TypeOK, averages, history, MovesTo
<1>5. holder = t /\ \A u \in Threads : u # t => th[u].pc \notin ResetLabels
    BY <1>2, OneReset
<1>6. PageLocks' /\ ResetLock' /\ \A i \in Tiers : Owed(i)'
    BY <1>2, <1>3, <1>5, EvictStep DEF CountLabels, HookLabels, ResetLabels
<1>7. ASSUME NEW i \in Tiers PROVE Folded(i)'
  <2>1. ~CarriedTier(i)' /\ (CarriedTier(i) <=> i = k)
      BY <1>1, <1>2, <1>3, <1>5, ThreadTypes DEF CarriedTier, MovesTo, CarriedLabels
  <2>2. Folded(i)
      BY DEF IndInv
  <2>3. /\ avg_refaulted[i] \in Nat /\ refaulted[i] \in Nat /\ refaults[i] \in Nat
        /\ avg_refaulted'[i] = avg_refaulted[i] /\ refaults'[i] = refaults[i]
        /\ refaulted'[i] = IF i = k THEN 0 ELSE refaulted[i]
      BY <1>2 DEF averages, history, IndInv, TypeOK
  <2> QED
      BY <2>1, <2>2, <2>3 DEF Folded
<1> QED
    BY <1>4, <1>6, <1>7 DEF IndInv

LEMMA ZeroEvictedStep ==
    ASSUME IndInv, NEW t \in Threads, ZeroEvicted(t)
    PROVE  IndInv'
<1>1. /\ th[t].pc = "zero_evicted" /\ th[t].pc \in ResetLabels
      /\ evicted' = [evicted EXCEPT ![th[t].tier] = 0]
      /\ UNCHANGED <<cached, tracked, tier, ghost, refaulted, protected, averages, holder, history>>
    BY DEF ZeroEvicted, pages, At, ResetLabels
<1>2. MovesTo(t, "zero_protected", th[t].f, th[t].tier)
    BY ThreadStep, NewStates, ThreadTypes DEF IndInv, ZeroEvicted, ResetLabels
<1>3. TypeOK'
    BY <1>1, <1>2, ThreadTypes DEF IndInv, TypeOK, averages, history, MovesTo
<1>4. holder = t
    BY <1>1, OneReset
<1>5. PageLocks' /\ ResetLock' /\ \A i \in Tiers : Owed(i)'
    BY <1>1, <1>2, <1>4, EvictStep DEF CountLabels, HookLabels, ResetLabels
<1>6. \A i \in Tiers : Folded(i)'
    BY <1>1, <1>2, QuietFolded DEF MovesTo, averages, history, CarriedLabels
<1> QED
    BY <1>3, <1>5, <1>6 DEF IndInv

\* The next tier, or the end of the reset.
LEMMA ZeroProtectedStep ==
    ASSUME IndInv, NEW t \in Threads, ZeroProtected(t)
    PROVE  IndInv'
<1> DEFINE i == th[t].tier
<1>1. /\ th[t].pc = "zero_protected" /\ th[t].pc \in ResetLabels
      /\ protected' = [protected EXCEPT ![i] = 0]
      /\ \/ i + 1 \in Tiers /\ Step(t, "carry_refaulted", i + 1) /\ UNCHANGED holder
         \/ Step(t, "select", 0) /\ holder' = NoPage
      /\ UNCHANGED <<cached, tracked, tier, ghost, refaulted, evicted, averages, history>>
    BY DEF ZeroProtected, pages, At, ResetLabels
<1>2. \/ MovesTo(t, "carry_refaulted", th[t].f, i + 1) /\ UNCHANGED holder
      \/ MovesTo(t, "select", th[t].f, 0) /\ holder' = NoPage
    BY <1>1, ThreadStep, NewStates, ThreadTypes, ConstantFacts DEF IndInv, ResetLabels
<1>3. TypeOK'
  <2>1. protected' \in [Tiers -> Nat] /\ holder' \in Threads \cup {NoPage}
      BY <1>1, ThreadTypes DEF IndInv, TypeOK
  <2> QED
      BY <1>1, <1>2, <2>1 DEF IndInv, TypeOK, averages, history, MovesTo
<1>4. holder = t
    BY <1>1, OneReset
<1>5. PageLocks' /\ ResetLock' /\ \A j \in Tiers : Owed(j)'
  <2>1. CASE MovesTo(t, "carry_refaulted", th[t].f, i + 1) /\ UNCHANGED holder
      BY <1>1, <1>4, <2>1, EvictStep DEF CountLabels, HookLabels, ResetLabels
  <2>2. CASE MovesTo(t, "select", th[t].f, 0) /\ holder' = NoPage
      BY <1>1, <2>2, EvictStep DEF CountLabels, HookLabels, ResetLabels
  <2> QED
      BY <1>2, <2>1, <2>2
<1>6. \A j \in Tiers : Folded(j)'
    BY <1>1, <1>2, QuietFolded DEF MovesTo, averages, history, CarriedLabels
<1> QED
    BY <1>3, <1>5, <1>6 DEF IndInv

LEMMA SelectTierStep ==
    ASSUME IndInv, NEW t \in Threads, SelectTier(t)
    PROVE  IndInv'
<1>1. /\ th[t].pc \in {"idle", "select"}
      /\ UNCHANGED <<cached, tracked, tier, ghost, counts, averages, holder, history>>
    BY DEF SelectTier, pages, At
<1>2. MovesTo(t, "iterate", NoPage, get_tier_idx)
    BY ThresholdType, ThreadStep, NewStates DEF IndInv, SelectTier
<1>3. TypeOK'
    BY <1>1, <1>2 DEF IndInv, TypeOK, counts, averages, history, MovesTo
<1>4. PageLocks' /\ ResetLock' /\ \A i \in Tiers : Owed(i)'
    BY <1>1, <1>2, EvictStep DEF CountLabels, HookLabels, ResetLabels
<1>5. \A i \in Tiers : Folded(i)'
    BY <1>1, <1>2, QuietFolded DEF MovesTo, counts, averages, history, CarriedLabels
<1> QED
    BY <1>3, <1>4, <1>5 DEF IndInv

LEMMA ProtectStep ==
    ASSUME IndInv, NEW t \in Threads, Protect(t)
    PROVE  IndInv'
<1>1. UNCHANGED <<cached, tracked, tier, ghost, refaulted, evicted, averages, holder, th, history>>
    BY DEF Protect, pages
<1>2. PICK p \in Pages : protected' = Plus(protected, tier[p])
    BY DEF Protect, IndInv, TypeOK
<1>3. protected' \in [Tiers -> Nat]
    BY <1>2, PlusStep DEF IndInv, TypeOK
<1>4. TypeOK'
    BY <1>1, <1>3 DEF IndInv, TypeOK, averages, history
<1>5. \A i \in Tiers : Owed(i)' /\ Folded(i)'
    BY <1>1, QuietOwed, QuietFolded DEF averages, history
<1>6. PageLocks' /\ ResetLock'
    BY <1>1 DEF IndInv, PageLocks, ResetLock
<1> QED
    BY <1>4, <1>5, <1>6 DEF IndInv

LEMMA EvictEndStep ==
    ASSUME IndInv, NEW t \in Threads, EvictEnd(t)
    PROVE  IndInv'
<1>1. /\ th[t].pc = "iterate"
      /\ UNCHANGED <<cached, tracked, tier, ghost, counts, averages, holder, history>>
    BY DEF EvictEnd, pages, At
<1>2. MovesTo(t, "idle", NoPage, 0)
    BY ThreadStep DEF IndInv, EvictEnd
<1>3. TypeOK'
    BY <1>1, <1>2 DEF IndInv, TypeOK, counts, averages, history, MovesTo
<1>4. PageLocks' /\ ResetLock' /\ \A i \in Tiers : Owed(i)'
    BY <1>1, <1>2, EvictStep DEF CountLabels, HookLabels, ResetLabels
<1>5. \A i \in Tiers : Folded(i)'
    BY <1>1, <1>2, QuietFolded DEF MovesTo, counts, averages, history, CarriedLabels
<1> QED
    BY <1>3, <1>4, <1>5 DEF IndInv

-----------------------------------------------------------------------------
(* The theorems *)

LEMMA NextIndInv == IndInv /\ [Next]_vars => IndInv'
<1> SUFFICES ASSUME IndInv, [Next]_vars PROVE IndInv'
    OBVIOUS
<1>1. ASSUME NEW p \in Pages, FolioAccessed(p) \/ GhostDropped(p) PROVE IndInv'
    BY <1>1, FolioAccessedStep, GhostDroppedStep
<1>2. ASSUME NEW t \in Threads, Hook(t) PROVE IndInv'
    BY <1>2, FolioAddedStep, FolioEvictedStep, FolioAddedMetaStep, GhostLookupStep,
       GhostDeleteStep, RefaultStep, GhostInsertStep, CountEvictedStep DEF Hook
<1>3. ASSUME NEW t \in Threads, Evict(t) PROVE IndInv'
    BY <1>3, ResetBeginStep, CarryRefaultedStep, CarryTotalStep, ZeroRefaultedStep,
       ZeroEvictedStep, ZeroProtectedStep, SelectTierStep, ProtectStep, EvictEndStep DEF Evict
<1>4. CASE UNCHANGED vars
  <2>1. UNCHANGED <<cached, tracked, tier, ghost, refaulted, evicted, protected,
                    avg_refaulted, avg_total, holder, th, refaults, evictions, misread>>
      BY <1>4 DEF vars, pages, counts, averages, history
  <2>2. TypeOK'
      BY <2>1 DEF IndInv, TypeOK
  <2>3. \A i \in Tiers : Owed(i)' /\ Folded(i)'
      BY <2>1, QuietOwed, QuietFolded
  <2>4. PageLocks' /\ ResetLock'
      BY <2>1 DEF IndInv, PageLocks, ResetLock
  <2> QED
      BY <2>2, <2>3, <2>4 DEF IndInv
<1> QED
    BY <1>1, <1>2, <1>3, <1>4 DEF Next

LEMMA Inductive == Spec => []IndInv
BY InitIndInv, NextIndInv, PTL DEF Spec

\* Every count, average and threshold is of a tier, whatever entry a reader's
\* pointer leads to.
THEOREM TypeCorrect == Spec => []TypeOK
<1>1. IndInv => TypeOK
    BY DEF IndInv
<1> QED
    BY <1>1, Inductive, PTL

\* A refault stands for a counted eviction, or for one of the misread ones.
THEOREM RefaultsFollowEvictionsHolds == Spec => []RefaultsFollowEvictions
<1>1. IndInv => RefaultsFollowEvictions
  <2> SUFFICES ASSUME IndInv, NEW i \in Tiers PROVE refaults[i] <= evictions[i] + misread
      BY DEF RefaultsFollowEvictions
  <2>1. Cardinality(Reading(i)) \in Nat /\ Cardinality(Ghosts(i)) \in Nat
    <3>1. IsFiniteSet(Reading(i)) /\ IsFiniteSet(Ghosts(i))
        BY ConstantFacts, FS_Subset DEF Reading, Ghosts
    <3> QED
        BY <3>1, FS_CardinalityType
  <2>2. Owed(i) /\ refaults[i] \in Nat /\ evictions[i] \in Nat /\ misread \in Nat
      BY DEF IndInv, TypeOK
  <2> QED
      BY <2>1, <2>2 DEF Owed
<1> QED
    BY <1>1, Inductive, PTL

\* The controller sees no event more than one and a half times, whatever resets and
\* hooks do between its reads of the average and of the count.
THEOREM SeenRefaultsBoundedHolds == Spec => []SeenRefaultsBounded
<1>1. IndInv => SeenRefaultsBounded
  <2> SUFFICES ASSUME IndInv, NEW i \in Tiers PROVE 2 * CtrlPos(i).refaulted <= 3 * refaults[i]
      BY DEF SeenRefaultsBounded
  <2>1. CtrlPos(i).refaulted = avg_refaulted[i] + refaulted[i]
      BY DEF CtrlPos
  <2>2. /\ refaults[i] \in Nat /\ avg_refaulted[i] \in Nat /\ refaulted[i] \in Nat
        /\ Folded(i)
      BY DEF IndInv, TypeOK
  <2> QED
      BY <2>1, <2>2 DEF Folded
<1> QED
    BY <1>1, Inductive, PTL

=============================================================================
