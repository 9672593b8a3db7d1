------------------------------- MODULE S3Fifo -------------------------------
(***************************************************************************)
(* The S3-FIFO policy, policies/cache_ext_s3fifo.bpf.c: a small and a main  *)
(* eviction list, a map of folio metadata, a ghost map of evicted folios    *)
(* and two counters that approximate the lengths of the lists.              *)
(*                                                                         *)
(* The kernel calls the hooks from several threads.  A hook is split        *)
(* wherever another thread can act between two of its effects: each counter *)
(* update, list kfunc and map update is atomic, a hook is not.              *)
(***************************************************************************)
EXTENDS CacheExtLists

CONSTANTS
    Folios,        \* pages of the one watched file (key of both maps)
    Threads,       \* kernel threads that run hooks
    CacheSize,     \* cache_size, set by the loader, in pages
    GhostSize,     \* max_entries of ghost_map
    Request,       \* request_nr_folios_to_evict
    NoFolio,       \* a thread that works on no folio
    FreqFloor,     \* bound: no pass over main with a frequency at -FreqFloor
    MaxDrift,      \* bound on the counters, upwards, and
    MaxDebt,       \* downwards, when a hook begins to change them
    MaxLost        \* bound on failed insertions

ASSUME S3FifoAssumption ==
    /\ IsFiniteSet(Folios) /\ NoFolio \notin Folios
    /\ CacheSize \in Nat /\ GhostSize \in Nat \ {0} /\ Request \in Nat \ {0}
    /\ FreqFloor \in Nat /\ MaxDrift \in Nat /\ MaxDebt \in Nat /\ MaxLost \in Nat

VARIABLES
    cached,            \* folios in the page cache
    busy,              \* cached folios that the callbacks skip: not uptodate,
                       \* off the LRU, dirty or under writeback
    small_list,
    main_list,
    small_list_size,   \* s64 counters
    main_list_size,
    tracked,           \* keys of folio_metadata_map
    freq,              \* .freq of the metadata (0 where there is none)
    in_main,           \* folios whose metadata says .in_main
    ghost,             \* keys of ghost_map
    th,                \* per thread: where it is in a hook, and its locals
    lost,              \* history: insertions that failed half-way
    clamped,           \* history: the clamp of main_list_size was executed
    leftover           \* history: folios whose ghost entry stayed because the
                       \* delete of folio_in_ghost failed

vars == <<cached, busy, small_list, main_list, small_list_size, main_list_size,
          tracked, freq, in_main, ghost, th, lost, clamped, leftover>>

kernel == <<cached, busy>>
lists == <<small_list, main_list>>
sizes == <<small_list_size, main_list_size>>
metadata == <<tracked, freq, in_main>>
history == <<lost, clamped, leftover>>

-----------------------------------------------------------------------------
(* Threads *)

\* f: the folio of the hook; main: its list_to_add is main_list; n: folios an
\* iteration moved, or the number of the pass; nr: nr_folios_to_evict so far.
Idle == [pc |-> "idle", f |-> NoFolio, main |-> FALSE, n |-> 0, nr |-> 0]

Goto(t, local) == th' = [th EXCEPT ![t] = local]
Return(t) == th' = [th EXCEPT ![t] = Idle]

At(t, label) == th[t].pc = label

AddLabels == {"add_list", "add_meta"}
EvictedLabels == {"evicted", "evicted_meta"}

\* The folio lock: one thread adds or removes a folio at a time.
Adding(f) == \E t \in Threads : th[t].f = f /\ th[t].pc \in AddLabels
Removing(f) == \E t \in Threads : th[t].f = f /\ th[t].pc \in EvictedLabels

-----------------------------------------------------------------------------
(* The environment: reads, writes and writeback change the folio's flags.  *)
(* Opening the file takes its inode out of the watch list for a while, so   *)
(* that each time a hook asks whether the folio is relevant the answer may  *)
(* be either.                                                              *)

SetFlags(f) ==
    /\ f \in cached /\ ~Adding(f) /\ ~Removing(f)
    /\ busy' = IF f \in busy THEN busy \ {f} ELSE busy \cup {f}
    /\ UNCHANGED <<cached, lists, sizes, metadata, ghost, th, history>>

-----------------------------------------------------------------------------
(* s3fifo_folio_added *)

GhostAfterAddKept(f) == ghost   \* mutant: a lookup that leaves the entry
GhostAfterAdd(f) == ghost \ {f}

\* folio_in_ghost deletes the entry, and that is how it finds it: any result
\* but -ENOENT counts as found.  When the delete fails otherwise, an entry that
\* is there stays.
FolioInGhost(f, found) ==
    \/ /\ found = (f \in ghost)
       /\ ghost' = GhostAfterAdd(f)
       /\ leftover' = leftover \ {f}
    \/ /\ found
       /\ ghost' = ghost
       /\ leftover' = leftover \cup ({f} \cap ghost)

\* The folio enters the page cache and the hook runs up to the counter update,
\* or returns because the folio is not relevant.
FolioAdded(t, f) ==
    /\ At(t, "idle")
    /\ f \notin cached /\ ~Removing(f)
    /\ cached' = cached \cup {f}
    /\ busy' = busy \cup {f}
    /\ \/ UNCHANGED <<sizes, ghost, th, leftover>>
       \/ \E found \in BOOLEAN :
          /\ FolioInGhost(f, found)
          /\ IF found
             THEN /\ main_list_size < MaxDrift
                  /\ main_list_size' = main_list_size + 1
                  /\ UNCHANGED small_list_size
             ELSE /\ small_list_size < MaxDrift
                  /\ small_list_size' = small_list_size + 1
                  /\ UNCHANGED main_list_size
          /\ Goto(t, [Idle EXCEPT !.pc = "add_list", !.f = f, !.main = found])
    /\ UNCHANGED <<lists, metadata, lost, clamped>>

\* bpf_cache_ext_list_add_tail, which may fail: the hook returns and neither
\* the counter nor the ghost entry is restored.
FolioAddedList(t) ==
    /\ At(t, "add_list")
    /\ \/ /\ IF th[t].main
             THEN /\ main_list' = ListAddTail(main_list, th[t].f)
                  /\ UNCHANGED small_list
             ELSE /\ small_list' = ListAddTail(small_list, th[t].f)
                  /\ UNCHANGED main_list
          /\ Goto(t, [Idle EXCEPT !.pc = "add_meta", !.f = th[t].f, !.main = th[t].main])
          /\ UNCHANGED lost
       \/ /\ lost < MaxLost
          /\ lost' = lost + 1
          /\ Return(t)
          /\ UNCHANGED lists
    /\ UNCHANGED <<kernel, sizes, metadata, ghost, clamped, leftover>>

InMainAfterAddAlways(f, main) == in_main \cup {f}   \* mutant: flag not reset
InMainAfterAdd(f, main) == IF main THEN in_main \cup {f} ELSE in_main \ {f}

\* bpf_map_update_elem, which fails when the map is full: the folio is taken
\* off its list, and the counter keeps it.
FolioAddedMeta(t) ==
    LET f == th[t].f IN
    /\ At(t, "add_meta")
    /\ \/ /\ tracked' = tracked \cup {f}
          /\ freq' = [freq EXCEPT ![f] = 0]
          /\ in_main' = InMainAfterAdd(f, th[t].main)
          /\ UNCHANGED <<lists, lost>>
       \/ /\ lost < MaxLost
          /\ lost' = lost + 1
          /\ small_list' = ListDel(small_list, f)
          /\ main_list' = ListDel(main_list, f)
          /\ UNCHANGED metadata
    /\ Return(t)
    /\ UNCHANGED <<kernel, sizes, ghost, clamped, leftover>>

-----------------------------------------------------------------------------
(* s3fifo_folio_accessed *)

ExceedsCap(f) == freq[f] + 1 > 3

\* The increment is atomic and the cap is a second, plain store.
FolioAccessed(t, f) ==
    /\ At(t, "idle")
    /\ f \in cached /\ f \in tracked
    /\ freq' = [freq EXCEPT ![f] = @ + 1]
    /\ IF ExceedsCap(f) THEN Goto(t, [Idle EXCEPT !.pc = "cap", !.f = f])
                        ELSE UNCHANGED th
    /\ UNCHANGED <<kernel, lists, sizes, tracked, in_main, ghost, history>>

\* When the metadata was deleted in between, its slot in the preallocated map
\* may hold another folio's metadata by now, or none.
FolioAccessedCap(t) ==
    /\ At(t, "cap")
    /\ IF th[t].f \in tracked
       THEN freq' = [freq EXCEPT ![th[t].f] = 3]
       ELSE \/ UNCHANGED freq
            \/ \E g \in tracked : freq' = [freq EXCEPT ![g] = 3]
    /\ Return(t)
    /\ UNCHANGED <<kernel, lists, sizes, tracked, in_main, ghost, history>>

-----------------------------------------------------------------------------
(* s3fifo_folio_evicted *)

\* The hook does not ask whether the folio is still relevant.
HasMetadataIfGhost(f) == f \in tracked \cap ghost'   \* mutant: early return
HasMetadata(f) == f \in tracked

\* The page cache drops a folio: reclaim of a candidate, the kernel's fallback,
\* or truncation.  The kernel unlinks it, and the hook inserts its ghost entry,
\* for which the LRU map may reclaim others; a failed insertion is only logged.
FolioEvicted(t, f) ==
    /\ At(t, "idle")
    /\ f \in cached /\ ~Adding(f) /\ ~Removing(f)
    /\ small_list_size > -MaxDebt /\ main_list_size > -MaxDebt
    /\ cached' = cached \ {f}
    /\ busy' = busy \ {f}
    /\ small_list' = ListDel(small_list, f)
    /\ main_list' = ListDel(main_list, f)
    /\ \/ /\ \E kept \in SUBSET ghost :
                /\ Cardinality(kept \cup {f}) <= GhostSize
                /\ ghost' = kept \cup {f}
          /\ UNCHANGED lost
       \/ /\ lost < MaxLost
          /\ lost' = lost + 1
          /\ UNCHANGED ghost
    /\ leftover' = (leftover \cap ghost') \ {f}
    /\ IF HasMetadata(f) THEN Goto(t, [Idle EXCEPT !.pc = "evicted", !.f = f])
                         ELSE UNCHANGED th
    /\ UNCHANGED <<sizes, metadata, clamped>>

CountedInMainAny(f) == TRUE   \* mutant: only one counter goes down
CountedInMain(f) == f \in in_main

\* The counter of the list that the metadata names.
FolioEvictedCount(t) ==
    LET f == th[t].f IN
    /\ At(t, "evicted")
    /\ IF CountedInMain(f)
       THEN /\ main_list_size' = main_list_size - 1
            /\ UNCHANGED small_list_size
       ELSE /\ small_list_size' = small_list_size - 1
            /\ UNCHANGED main_list_size
    /\ Goto(t, [Idle EXCEPT !.pc = "evicted_meta", !.f = f])
    /\ UNCHANGED <<kernel, lists, metadata, ghost, history>>

\* The metadata; its delete is taken to succeed.
FolioEvictedMeta(t) ==
    LET f == th[t].f IN
    /\ At(t, "evicted_meta")
    /\ tracked' = tracked \ {f}
    /\ freq' = [freq EXCEPT ![f] = 0]
    /\ in_main' = in_main \ {f}
    /\ Return(t)
    /\ UNCHANGED <<kernel, lists, sizes, ghost, history>>

-----------------------------------------------------------------------------
(* s3fifo_evict_folios *)

\* small_list_size >= cache_size / 15 compares an s64 with a size_t: a negative
\* counter converts to a value above any threshold.
ChooseSmall ==
    \/ small_list_size < 0
    \/ small_list_size >= CacheSize \div 15
    \/ main_list_size <= 2 * small_list_size

EvictFolios(t) ==
    /\ At(t, "idle")
    /\ Goto(t, [Idle EXCEPT !.pc = IF ChooseSmall THEN "evict_small" ELSE "evict_main"])
    /\ UNCHANGED <<kernel, lists, sizes, metadata, ghost, history>>

\* bpf_s3fifo_score_small_fn.
SmallHot(f) == f \notin busy /\ f \in tracked /\ freq[f] > 1
SmallVerdict ==
    [f \in Folios |-> IF f \in busy \/ f \notin tracked \/ freq[f] > 1
                      THEN CONTINUE_ITER ELSE EVICT_NODE]

\* The small list after an iteration.
SmallAfterCopied == small_list   \* mutant: nodes copied, not moved
SmallAfterDropped == Unvisited(small_list, SmallVerdict, Request)   \* mutant: candidates unlinked
SmallAfter ==
    Unvisited(small_list, SmallVerdict, Request)
    \o Evicted(small_list, SmallVerdict, Request)

\* evict_small: what is not proposed goes to the tail of the main list.
EvictSmall(t) ==
    LET continued == Continued(small_list, SmallVerdict, Request)
    IN  /\ At(t, "evict_small")
        /\ small_list_size - Len(continued) >= -MaxDebt
        /\ main_list_size + Len(continued) <= MaxDrift
        /\ small_list' = SmallAfter
        /\ main_list' = main_list \o continued
        /\ in_main' = in_main \cup {f \in ToSet(continued) : SmallHot(f)}
        /\ Goto(t, [Idle EXCEPT !.pc = "small_sub", !.n = Len(continued)])
        /\ UNCHANGED <<kernel, sizes, tracked, freq, ghost, history>>

SmallSizeAfterKept(n) == small_list_size   \* mutant: moves not subtracted
SmallSizeAfter(n) == small_list_size - n

\* __sync_fetch_and_sub gives the value before the subtraction.
SmallSub(t) ==
    /\ At(t, "small_sub")
    /\ small_list_size' = SmallSizeAfter(th[t].n)
    /\ LET next == IF small_list_size < 0 THEN "small_zero" ELSE "main_add"
       IN  Goto(t, [Idle EXCEPT !.pc = next, !.n = th[t].n])
    /\ UNCHANGED <<kernel, lists, main_list_size, metadata, ghost, history>>

SmallZero(t) ==
    /\ At(t, "small_zero")
    /\ small_list_size' = 0
    /\ Goto(t, [Idle EXCEPT !.pc = "main_add", !.n = th[t].n])
    /\ UNCHANGED <<kernel, lists, main_list_size, metadata, ghost, history>>

MainAdd(t) ==
    /\ At(t, "main_add")
    /\ main_list_size' = main_list_size + th[t].n
    /\ IF main_list_size < 0 THEN Goto(t, [Idle EXCEPT !.pc = "main_set", !.n = th[t].n])
                             ELSE Return(t)
    /\ UNCHANGED <<kernel, lists, small_list_size, metadata, ghost, history>>

MainSet(t) ==
    /\ At(t, "main_set")
    /\ main_list_size' = th[t].n
    /\ clamped' = TRUE
    /\ Return(t)
    /\ UNCHANGED <<kernel, lists, small_list_size, metadata, ghost, lost, leftover>>

\* bpf_s3fifo_score_main_iter_fn_<id>: the frequency goes down on every visit
\* and is not set back to 0.
MainSkips(f) == f \in busy \/ f \notin tracked
MainVerdict(id) ==
    [f \in Folios |-> IF MainSkips(f) \/ freq[f] - 1 >= id
                      THEN CONTINUE_ITER ELSE EVICT_NODE]

\* evict_main_iter, one pass: up to four, with growing thresholds, while the
\* batch is not full.  Every visited node goes to the tail.
EvictMain(t) ==
    LET id == th[t].n
        room == Request - th[t].nr
        visited == Visited(main_list, MainVerdict(id), room)
        nr == th[t].nr + Len(Evicted(main_list, MainVerdict(id), room))
    IN  /\ At(t, "evict_main")
        /\ \A f \in ToSet(main_list) : freq[f] > -FreqFloor
        /\ main_list' = Unvisited(main_list, MainVerdict(id), room) \o visited
        /\ freq' = [f \in Folios |->
                      IF f \in ToSet(visited) /\ ~MainSkips(f) THEN freq[f] - 1
                                                               ELSE freq[f]]
        /\ IF nr < Request /\ id < 3
           THEN Goto(t, [Idle EXCEPT !.pc = "evict_main", !.n = id + 1, !.nr = nr])
           ELSE Return(t)
        /\ UNCHANGED <<kernel, small_list, sizes, tracked, in_main, ghost, history>>

\* An iteration that fails ends the eviction, and the counters stay.
IterationFails(t) ==
    /\ At(t, "evict_small") \/ At(t, "evict_main")
    /\ Return(t)
    /\ UNCHANGED <<kernel, lists, sizes, metadata, ghost, history>>

-----------------------------------------------------------------------------
(* Specification *)

\* s3fifo_init: two empty lists.
Init ==
    /\ cached = {} /\ busy = {}
    /\ small_list = <<>> /\ main_list = <<>>
    /\ small_list_size = 0 /\ main_list_size = 0
    /\ tracked = {} /\ freq = [f \in Folios |-> 0] /\ in_main = {}
    /\ ghost = {}
    /\ th = [t \in Threads |-> Idle]
    /\ lost = 0 /\ clamped = FALSE /\ leftover = {}

Hook(t) ==
    \/ \E f \in Folios : FolioAdded(t, f) \/ FolioAccessed(t, f) \/ FolioEvicted(t, f)
    \/ FolioAddedList(t) \/ FolioAddedMeta(t)
    \/ FolioAccessedCap(t)
    \/ FolioEvictedCount(t) \/ FolioEvictedMeta(t)
    \/ EvictFolios(t) \/ EvictSmall(t) \/ SmallSub(t) \/ SmallZero(t)
    \/ MainAdd(t) \/ MainSet(t) \/ EvictMain(t) \/ IterationFails(t)

Next ==
    \/ \E f \in Folios : SetFlags(f)
    \/ \E t \in Threads : Hook(t)

Spec == Init /\ [][Next]_vars

-----------------------------------------------------------------------------
(* Properties *)

Labels == {"idle", "add_list", "add_meta", "cap", "evicted", "evicted_meta",
           "evict_small", "small_sub", "small_zero", "main_add", "main_set", "evict_main"}

ThreadStates == [pc : Labels, f : Folios \cup {NoFolio}, main : BOOLEAN, n : Nat, nr : Nat]

\* Types of the policy's state; the lists hold each cached folio at most once.
TypeOK ==
    /\ cached \subseteq Folios /\ busy \subseteq cached
    /\ ToSet(small_list) \subseteq cached /\ ToSet(main_list) \subseteq cached
    /\ small_list \in Seq(Folios) /\ main_list \in Seq(Folios)
    /\ IsInjective(small_list) /\ IsInjective(main_list)
    /\ ToSet(small_list) \cap ToSet(main_list) = {}
    /\ small_list_size \in Int /\ main_list_size \in Int
    /\ tracked \subseteq Folios /\ freq \in [Folios -> Int]
    /\ in_main \subseteq tracked
    /\ ghost \subseteq Folios /\ Cardinality(ghost) <= GhostSize
    /\ th \in [Threads -> ThreadStates]
    /\ lost \in Nat /\ clamped \in BOOLEAN /\ leftover \subseteq ghost

\* Metadata outlives its folio only until the evicted hook ends: the hook
\* deletes it "regardless" (cache_ext_s3fifo.bpf.c:313), whatever the watch list
\* says by then.
MetadataReleased ==
    \A f \in tracked : f \in cached \/ Removing(f)

\* A folio whose metadata says in_main is on the main list, although the
\* callback sets the flag and the kernel moves the node.
InMainIsOnMainList ==
    \A f \in in_main : f \in ToSet(main_list) \/ Removing(f)

\* A tracked folio has no ghost entry, unless the delete failed when the folio
\* came in (cache_ext_s3fifo.bpf.c:78, "TODO: handle non-ENOENT errors"): a folio
\* comes back to the main list for its last eviction, never for an earlier one.
TrackedIsNotGhost ==
    \A f \in tracked : f \in ghost => f \in leftover \/ Removing(f)

ThreadsAt(labels) == {t \in Threads : th[t].pc \in labels}
AddingToMain == {t \in ThreadsAt({"add_list"}) : th[t].main}
AddingToSmall == ThreadsAt({"add_list"}) \ AddingToMain
RemovingFromMain == {t \in ThreadsAt({"evicted"}) : th[t].f \in in_main}
RemovingFromSmall == ThreadsAt({"evicted"}) \ RemovingFromMain

\* One element for each folio that an iteration moved and a thread has yet to
\* count.
Moves(labels) == UNION {{t} \X (1 .. th[t].n) : t \in ThreadsAt(labels)}
Moved(labels) == Cardinality(Moves(labels))

\* small_list_size is an upper estimate of nothing: apart from updates under
\* way and insertions that failed, it never exceeds the list's length, so the
\* small list is not chosen for folios it does not hold.
SmallNeverOvercounted ==
    small_list_size <=
        Len(small_list) + lost + Moved({"small_sub"})
        + Cardinality(AddingToSmall) + Cardinality(RemovingFromSmall)

\* main_list_size never falls below the list's length, apart from moves not yet
\* added, unless the clamp at the end of evict_small ran: its plain store can
\* overwrite the increments of other threads.
MainNeverUndercounted ==
    ~clamped => Len(main_list) <= main_list_size
                                  + Moved({"small_sub", "small_zero", "main_add"})

\* The policy keeps the promise of PagePolicy: the iterations that reorder the
\* lists and move folios between them never lose one, at whatever point other
\* hooks add, fail to add or remove folios.
Policy == INSTANCE PagePolicy WITH
              adding <- {f \in Folios : Adding(f)},
              listed <- ToSet(small_list) \cup ToSet(main_list)
ImplementsPagePolicy == Policy!Spec

=============================================================================
