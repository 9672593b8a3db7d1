------------------------------ MODULE GetScan ------------------------------
(***************************************************************************)
(* The GET/SCAN policy, policies/cache_ext_get_scan.bpf.c: folios that a    *)
(* scanning thread adds go to a list of their own, a counter approximates   *)
(* the length of that list, and eviction samples the one or the other list  *)
(* by the counter.                                                          *)
(*                                                                         *)
(* Access counts only order the candidates of a sample; which candidates    *)
(* the kernel removes is free here, so they are left out.                   *)
(***************************************************************************)
EXTENDS CacheExtLists

CONSTANTS
    Folios,          \* pages of the one watched file
    Threads,         \* kernel threads that run hooks
    ScanThreshold,   \* 1000 * sampling_rate
    NoFolio,         \* a thread that works on no folio
    MaxLost          \* bound on counted folios whose flag was lost

ASSUME GetScanAssumption ==
    /\ IsFiniteSet(Folios) /\ IsFiniteSet(Threads) /\ NoFolio \notin Folios
    /\ ScanThreshold \in Nat \ {0} /\ MaxLost \in Nat

VARIABLES
    cached,         \* folios in the page cache
    watched,        \* the file's inode is in the watch list
    general_list,   \* LIST_GENERAL
    scan_list,      \* LIST_FOR_SCANS
    scan_pages,     \* s64 counter
    tracked,        \* keys of folio_metadata_map
    touched,        \* folios whose metadata says .touched_by_scan
    th,             \* per thread: where it is in a hook, and its locals
    lost            \* history: counted folios whose flag was never stored, or overwritten

vars == <<cached, watched, general_list, scan_list, scan_pages, tracked, touched, th, lost>>

kernel == <<cached, watched>>
lists == <<general_list, scan_list>>
metadata == <<tracked, touched>>

-----------------------------------------------------------------------------
(* Threads *)

\* f: the folio of the hook; scan: its touched_by_scan.
Idle == [pc |-> "idle", f |-> NoFolio, scan |-> FALSE]

Goto(t, label, f, scan) == th' = [th EXCEPT ![t] = [pc |-> label, f |-> f, scan |-> scan]]
Return(t) == th' = [th EXCEPT ![t] = Idle]

At(t, label) == th[t].pc = label
ThreadsAt(labels) == {t \in Threads : th[t].pc \in labels}

\* The folio lock: one thread adds or removes a folio at a time.
AddLabels == {"add_list", "add_count", "add_meta"}
EvictedLabels == {"evicted_lookup", "evicted_delete", "evicted_count"}
Adding(f) == \E t \in ThreadsAt(AddLabels) : th[t].f = f
Removing(f) == \E t \in ThreadsAt(EvictedLabels) : th[t].f = f

\* Opening the file takes its inode out of the watch list for a while.
ChangeWatchlist ==
    /\ watched' = ~watched
    /\ UNCHANGED <<cached, lists, scan_pages, metadata, th, lost>>

-----------------------------------------------------------------------------
(* mixed_folio_added *)

\* The folio enters the page cache; the thread that reads it may be one of scan_pids.
FolioAdded(t, f) ==
    /\ At(t, "idle")
    /\ f \notin cached /\ ~Removing(f)
    /\ cached' = cached \cup {f}
    /\ \/ ~watched /\ UNCHANGED th
       \/ watched /\ \E scan \in BOOLEAN : Goto(t, "add_list", f, scan)
    /\ UNCHANGED <<watched, lists, scan_pages, metadata, lost>>

ToScanListNever(t) == FALSE   \* mutant: every folio goes to LIST_GENERAL
ToScanList(t) == th[t].scan

\* bpf_cache_ext_list_add_tail, which may fail: the folio is on no list then.
FolioAddedList(t) ==
    LET f == th[t].f IN
    /\ At(t, "add_list")
    /\ \/ /\ IF ToScanList(t)
             THEN scan_list' = ListAddTail(scan_list, f) /\ UNCHANGED general_list
             ELSE general_list' = ListAddTail(general_list, f) /\ UNCHANGED scan_list
          /\ Goto(t, IF th[t].scan THEN "add_count" ELSE "add_meta", f, th[t].scan)
       \/ Return(t) /\ UNCHANGED lists
    /\ UNCHANGED <<kernel, scan_pages, metadata, lost>>

FolioAddedCount(t) ==
    /\ At(t, "add_count")
    /\ scan_pages' = scan_pages + 1
    /\ Goto(t, "add_meta", th[t].f, th[t].scan)
    /\ UNCHANGED <<kernel, lists, metadata, lost>>

TouchedAfterAdd(f, scan) == IF scan THEN touched \cup {f} ELSE touched \ {f}

\* bpf_map_update_elem with BPF_ANY.  Its failure goes unnoticed.
FolioAddedMeta(t) ==
    LET f == th[t].f IN
    /\ At(t, "add_meta")
    /\ \/ /\ tracked' = tracked \cup {f}
          /\ touched' = TouchedAfterAdd(f, th[t].scan)
          /\ UNCHANGED lost
       \/ /\ lost < MaxLost
          /\ lost' = IF th[t].scan THEN lost + 1 ELSE lost
          /\ UNCHANGED metadata
    /\ Return(t)
    /\ UNCHANGED <<kernel, lists, scan_pages>>

-----------------------------------------------------------------------------
(* mixed_folio_accessed *)

\* Without metadata the hook goes on to create it; with metadata it counts.
FolioAccessed(t, f) ==
    /\ At(t, "idle")
    /\ f \in cached /\ watched /\ f \notin tracked
    /\ Goto(t, "create", f, FALSE)
    /\ UNCHANGED <<kernel, lists, scan_pages, metadata, lost>>

\* Folios whose evicted hook has looked at the flag and has not deleted it yet.
FlagRead == {th[t].f : t \in ThreadsAt({"evicted_delete"})}

\* Zeroed metadata, with BPF_ANY: it replaces what another hook stored since.
FolioAccessedCreate(t) ==
    LET f == th[t].f
        losing == f \in touched \ FlagRead
    IN  /\ At(t, "create")
        /\ \/ /\ losing => lost < MaxLost
              /\ tracked' = tracked \cup {f}
              /\ touched' = touched \ {f}
              /\ lost' = IF losing THEN lost + 1 ELSE lost
           \/ UNCHANGED <<metadata, lost>>
        /\ Return(t)
        /\ UNCHANGED <<kernel, lists, scan_pages>>

-----------------------------------------------------------------------------
(* mixed_folio_evicted *)

\* Mutant: the hook asks whether the folio is still relevant.
HandlesWatched == watched
Handles == TRUE

\* The page cache drops a folio, and bpf_cache_ext_list_del finds it unlinked.
FolioEvicted(t, f) ==
    /\ At(t, "idle")
    /\ f \in cached /\ ~Adding(f) /\ ~Removing(f)
    /\ cached' = cached \ {f}
    /\ scan_list' = ListDel(scan_list, f)
    /\ general_list' = ListDel(general_list, f)
    /\ IF Handles THEN Goto(t, "evicted_lookup", f, FALSE) ELSE UNCHANGED th
    /\ UNCHANGED <<watched, scan_pages, metadata, lost>>

FolioEvictedLookup(t) ==
    /\ At(t, "evicted_lookup")
    /\ Goto(t, "evicted_delete", th[t].f, th[t].f \in touched)
    /\ UNCHANGED <<kernel, lists, scan_pages, metadata, lost>>

CountsAlways(t) == TRUE   \* mutant: the counter goes down for every folio
Counts(t) == th[t].scan

FolioEvictedDelete(t) ==
    /\ At(t, "evicted_delete")
    /\ tracked' = tracked \ {th[t].f}
    /\ touched' = touched \ {th[t].f}
    /\ IF Counts(t) THEN Goto(t, "evicted_count", th[t].f, th[t].scan) ELSE Return(t)
    /\ UNCHANGED <<kernel, lists, scan_pages, lost>>

FolioEvictedCount(t) ==
    /\ At(t, "evicted_count")
    /\ scan_pages' = scan_pages - 1
    /\ Return(t)
    /\ UNCHANGED <<kernel, lists, metadata, lost>>

-----------------------------------------------------------------------------
(* mixed_evict_folios *)

SamplesScansBelow == scan_pages < ScanThreshold   \* mutant: the test the other way round
SamplesScans == ~(scan_pages < ScanThreshold)

EvictFolios(t) ==
    /\ At(t, "idle")
    /\ Goto(t, IF scan_pages = 0 THEN "no_pages"
               ELSE IF SamplesScans THEN "sample_scan" ELSE "sample_general",
            NoFolio, FALSE)
    /\ UNCHANGED <<kernel, lists, scan_pages, metadata, lost>>

\* bpf_cache_ext_list_sample scores nodes of the list and moves none; the early
\* return proposes nothing.
EvictFoliosEnd(t) ==
    /\ th[t].pc \in {"no_pages", "sample_scan", "sample_general"}
    /\ Return(t)
    /\ UNCHANGED <<kernel, lists, scan_pages, metadata, lost>>

-----------------------------------------------------------------------------
(* Specification *)

\* mixed_init: two empty lists.
Init ==
    /\ cached = {} /\ watched = TRUE
    /\ general_list = <<>> /\ scan_list = <<>>
    /\ scan_pages = 0 /\ tracked = {} /\ touched = {}
    /\ th = [t \in Threads |-> Idle]
    /\ lost = 0

Hook(t) ==
    \/ \E f \in Folios : FolioAdded(t, f) \/ FolioAccessed(t, f) \/ FolioEvicted(t, f)
    \/ FolioAddedList(t) \/ FolioAddedCount(t) \/ FolioAddedMeta(t)
    \/ FolioAccessedCreate(t)
    \/ FolioEvictedLookup(t) \/ FolioEvictedDelete(t) \/ FolioEvictedCount(t)
    \/ EvictFolios(t) \/ EvictFoliosEnd(t)

Next == ChangeWatchlist \/ \E t \in Threads : Hook(t)

Spec == Init /\ [][Next]_vars

-----------------------------------------------------------------------------
(* Properties *)

Labels == {"idle", "create", "no_pages", "sample_scan", "sample_general"}
          \cup AddLabels \cup EvictedLabels

ThreadStates == [pc : Labels, f : Folios \cup {NoFolio}, scan : BOOLEAN]

\* Types; the lists hold each cached folio at most once, and the counter does
\* not become negative.
TypeOK ==
    /\ cached \subseteq Folios /\ watched \in BOOLEAN
    /\ general_list \in Seq(Folios) /\ scan_list \in Seq(Folios)
    /\ ToSet(general_list) \subseteq cached /\ ToSet(scan_list) \subseteq cached
    /\ IsInjective(general_list) /\ IsInjective(scan_list)
    /\ ToSet(general_list) \cap ToSet(scan_list) = {}
    /\ scan_pages \in Nat
    /\ tracked \subseteq Folios /\ touched \subseteq tracked
    /\ th \in [Threads -> ThreadStates]
    /\ lost \in 0 .. MaxLost

\* The flag of a folio and its list agree, although the list insertion, the
\* flag and the removal are separate steps of hooks that overlap with accesses
\* which rewrite the metadata.
TouchedIsOnScanList ==
    \A f \in touched : f \in ToSet(scan_list) \/ Removing(f)

\* Folios with the flag, until an evicted hook takes them over; and the threads
\* that have counted a folio and not stored its flag, or read it and not subtracted.
Flagged == touched \ FlagRead
PendingLabels == {"add_meta", "evicted_delete", "evicted_count"}
Pending == {t \in ThreadsAt(PendingLabels) : th[t].scan}

\* scan_pages counts the folios with the flag, those between the counter and the
\* map in either direction, and the ones whose flag a failed update or a racing
\* access lost: these are never subtracted again.
ScanPagesConserved ==
    scan_pages = Cardinality(Flagged) + Cardinality(Pending) + lost

\* The scan list is chosen only when it holds ScanThreshold folios, apart from
\* removals under way and lost flags.
SampledScanListIsLong ==
    [][\A t \in Threads :
          At(t, "idle") /\ At(t, "sample_scan")' =>
              Len(scan_list) + Cardinality(ThreadsAt(EvictedLabels)) + lost
                  >= ScanThreshold]_vars

\* "No pages to evict" (cache_ext_get_scan.bpf.c:362), said when no other hook runs.
NoPagesToEvict ==
    [][\A t \in Threads :
          ThreadsAt({"idle"}) = Threads /\ At(t, "no_pages")' =>
              general_list = <<>> /\ scan_list = <<>>]_vars

\* The policy keeps the promise of PagePolicy: neither the counter nor the flag
\* decides whether a folio is on a list, only its added hook and the page cache do,
\* however accesses and failed updates change them.
Policy == INSTANCE PagePolicy WITH
              adding <- {f \in Folios : Adding(f)},
              listed <- ToSet(general_list) \cup ToSet(scan_list)
ImplementsPagePolicy == Policy!Spec

=============================================================================
