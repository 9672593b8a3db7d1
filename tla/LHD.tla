--------------------------------- MODULE LHD ---------------------------------
(***************************************************************************)
(* The request accounting of the LHD policy, policies/cache_ext_lhd.bpf.c:  *)
(* metadata and object count, the request clock from which ages are         *)
(* computed, the countdown to a reconfiguration, the event that asks the    *)
(* loader for it, and the reconfiguration itself beside the hooks.          *)
(*                                                                         *)
(* The distributions of hits and evictions and the densities made of them   *)
(* only rank the sampled folios; they are left out, but not the age that    *)
(* indexes them.                                                           *)
(***************************************************************************)
EXTENDS Integers, FiniteSets

CONSTANTS
    Folios,          \* pages of the one watched file (keys of the metadata map)
    Threads,         \* kernel threads that run hooks
    NoFolio,         \* a thread that works on no folio
    MAX_AGE,
    REQS_PER_RECONFIG,
    Coarsenings,     \* values of 1 << age_coarsening_shift
    Initial,         \* the first of them
    AdaptAt,         \* num_reconfigurations at which the coarsening adapts
    RingSize,        \* events the ring buffer holds
    MaxRequests,     \* bound on the request clock
    MaxLost          \* bound on failed insertions

ASSUME LHDAssumption ==
    /\ IsFiniteSet(Folios) /\ IsFiniteSet(Threads) /\ NoFolio \notin Folios
    /\ MAX_AGE \in Nat \ {0} /\ REQS_PER_RECONFIG \in Nat \ {0}
    /\ Coarsenings \subseteq Nat \ {0} /\ Initial \in Coarsenings
    /\ AdaptAt \subseteq Nat /\ RingSize \in Nat \ {0}
    /\ MaxRequests \in Nat /\ MaxLost \in Nat

VARIABLES
    cached,               \* folios in the page cache
    watched,              \* the file's inode is in the watch list
    lhd_list,             \* folios on the one list; sampling makes it a set
    tracked,              \* keys of folio_metadata_map
    last_access_time,     \* of the metadata (0 where there is none)
    timestamp,            \* requests so far
    num_objects,
    next_reconfiguration, \* u64: a negative value stands for its wrap-around
    num_reconfigurations,
    coarsening,           \* 1 << age_coarsening_shift
    events,               \* records in the ring buffer, the one handled included
    loader,               \* where the loader is in handle_event
    th,                   \* per thread: where it is in a hook, and its locals
    lost,                 \* history: insertions that failed half-way
    due                   \* history: a round ended, no reconfiguration began since

vars == <<cached, watched, lhd_list, tracked, last_access_time, timestamp, num_objects,
          next_reconfiguration, num_reconfigurations, coarsening, events, loader, th,
          lost, due>>

kernel == <<cached, watched>>
metadata == <<tracked, last_access_time>>
rounds == <<next_reconfiguration, num_reconfigurations, due>>
reconfiguring == <<coarsening, events, loader>>

-----------------------------------------------------------------------------
(* Threads *)

\* f: the folio of the hook; ts: the clock it read; n: the age of a hit or an
\* eviction, or the num_reconfigurations it read.
Idle == [pc |-> "idle", f |-> NoFolio, ts |-> 0, n |-> 0]

Goto(t, local) == th' = [th EXCEPT ![t] = local]
Return(t) == th' = [th EXCEPT ![t] = Idle]
At(t, label) == th[t].pc = label

AddLabels == {"add_meta", "add_clock", "add_count"}
EvictedLabels == {"evicted", "uncount", "forget"}

\* The folio lock, held from an added or evicted hook's first step to the last
\* that concerns the folio.
Locking(f) == \E t \in Threads : th[t].f = f /\ th[t].pc \in AddLabels \cup EvictedLabels

\* A new request starts only while the clock is below the bound.
Room == timestamp + Cardinality({t \in Threads : th[t].pc # "idle"}) < MaxRequests

ChangeWatchlist ==
    /\ watched' = ~watched
    /\ UNCHANGED <<cached, lhd_list, metadata, timestamp, num_objects, rounds,
                   reconfiguring, th, lost>>

-----------------------------------------------------------------------------
(* get_age *)

\* Both loads of get_age are plain, so another access can come between them.
\* A negative difference is a huge unsigned one: it counts as an overflow.
AgeUnbounded(ts, f) == (ts - last_access_time[f]) \div coarsening   \* mutant: no overflow
Age(ts, f) ==
    LET elapsed == ts - last_access_time[f]
    IN  IF elapsed < 0 \/ elapsed \div coarsening >= MAX_AGE
        THEN MAX_AGE - 1 ELSE elapsed \div coarsening

-----------------------------------------------------------------------------
(* The end of a request, the same in lhd_folio_added and lhd_folio_accessed *)

EndsRoundLate(n) == n = -1   \* mutant: __sync_fetch_and_sub
EndsRound(n) == n = 0

\* __sync_sub_and_fetch(&next_reconfiguration, 1)
CountDown(t) ==
    /\ At(t, "count_down")
    /\ next_reconfiguration' = next_reconfiguration - 1
    /\ IF EndsRound(next_reconfiguration') THEN Goto(t, [Idle EXCEPT !.pc = "reset"])
                                           ELSE Return(t)
    /\ UNCHANGED <<kernel, lhd_list, metadata, timestamp, num_objects,
                   num_reconfigurations, due, reconfiguring, lost>>

\* A plain store: decrements since then are lost.
Reset(t) ==
    /\ At(t, "reset")
    /\ next_reconfiguration' = REQS_PER_RECONFIG
    /\ due' = TRUE
    /\ Goto(t, [Idle EXCEPT !.pc = "round_read"])
    /\ UNCHANGED <<kernel, lhd_list, metadata, timestamp, num_objects,
                   num_reconfigurations, reconfiguring, lost>>

\* num_reconfigurations++ is a load and a store: rounds that end together can be
\* counted as one.
RoundRead(t) ==
    /\ At(t, "round_read")
    /\ Goto(t, [Idle EXCEPT !.pc = "round_write", !.n = num_reconfigurations])
    /\ UNCHANGED <<kernel, lhd_list, metadata, timestamp, num_objects, rounds,
                   reconfiguring, lost>>

RoundWrite(t) ==
    /\ At(t, "round_write")
    /\ num_reconfigurations' = th[t].n + 1
    /\ Goto(t, [Idle EXCEPT !.pc = "submit"])
    /\ UNCHANGED <<kernel, lhd_list, metadata, timestamp, num_objects,
                   next_reconfiguration, due, reconfiguring, lost>>

\* bpf_ringbuf_output: the event is lost when the buffer is full.
EventsAfterSubmitAlone == IF events = 0 THEN 1 ELSE events   \* mutant: one at a time
EventsAfterSubmit == IF events < RingSize THEN events + 1 ELSE events

Submit(t) ==
    /\ At(t, "submit")
    /\ events' = EventsAfterSubmit
    /\ Return(t)
    /\ UNCHANGED <<kernel, lhd_list, metadata, timestamp, num_objects, rounds, coarsening,
                   loader, lost>>

-----------------------------------------------------------------------------
(* lhd_folio_added *)

\* The folio enters the page cache; when the file is watched the hook puts it
\* on the list, which may fail, and reads the clock.
FolioAdded(t, f) ==
    /\ At(t, "idle") /\ Room
    /\ f \notin cached /\ ~Locking(f)
    /\ cached' = cached \cup {f}
    /\ \/ /\ ~watched
          /\ UNCHANGED <<lhd_list, th, lost>>
       \/ /\ watched
          /\ lhd_list' = lhd_list \cup {f}
          /\ Goto(t, [Idle EXCEPT !.pc = "add_meta", !.f = f, !.ts = timestamp])
          /\ UNCHANGED lost
       \/ /\ watched /\ lost < MaxLost
          /\ lost' = lost + 1
          /\ UNCHANGED <<lhd_list, th>>
    /\ UNCHANGED <<watched, metadata, timestamp, num_objects, rounds, reconfiguring>>

\* bpf_map_update_elem, which fails when the map is full.
FolioAddedMeta(t) ==
    LET f == th[t].f IN
    /\ At(t, "add_meta")
    /\ \/ /\ tracked' = tracked \cup {f}
          /\ last_access_time' = [last_access_time EXCEPT ![f] = th[t].ts]
          /\ Goto(t, [Idle EXCEPT !.pc = "add_clock", !.f = f])
          /\ UNCHANGED <<lhd_list, lost>>
       \/ /\ lost < MaxLost
          /\ lost' = lost + 1
          /\ lhd_list' = lhd_list \ {f}
          /\ Return(t)
          /\ UNCHANGED metadata
    /\ UNCHANGED <<kernel, timestamp, num_objects, rounds, reconfiguring>>

FolioAddedClock(t) ==
    /\ At(t, "add_clock")
    /\ timestamp' = timestamp + 1
    /\ Goto(t, [Idle EXCEPT !.pc = "add_count", !.f = th[t].f])
    /\ UNCHANGED <<kernel, lhd_list, metadata, num_objects, rounds, reconfiguring, lost>>

FolioAddedCount(t) ==
    /\ At(t, "add_count")
    /\ num_objects' = num_objects + 1
    /\ Goto(t, [Idle EXCEPT !.pc = "count_down"])
    /\ UNCHANGED <<kernel, lhd_list, metadata, timestamp, rounds, reconfiguring, lost>>

-----------------------------------------------------------------------------
(* lhd_folio_accessed *)

\* The hook finds the metadata and loads the clock.
FolioAccessed(t, f) ==
    /\ At(t, "idle") /\ Room
    /\ f \in cached /\ watched /\ f \in tracked
    /\ Goto(t, [Idle EXCEPT !.pc = "accessed", !.f = f, !.ts = timestamp])
    /\ UNCHANGED <<kernel, lhd_list, metadata, timestamp, num_objects, rounds,
                   reconfiguring, lost>>

\* The age of the hit; then last_access_time becomes the present time.  When
\* the metadata was deleted meanwhile, the element may be another folio's, or
\* nobody's.
AccessedMeta(t) ==
    /\ At(t, "accessed")
    /\ \E g \in IF th[t].f \in tracked THEN {th[t].f} ELSE tracked \cup {NoFolio} :
          /\ last_access_time' = [f \in Folios |-> IF f = g THEN timestamp
                                                            ELSE last_access_time[f]]
          /\ \E age \in IF g = NoFolio THEN 0 .. MAX_AGE - 1 ELSE {Age(th[t].ts, g)} :
                Goto(t, [Idle EXCEPT !.pc = "hit", !.n = age])
    /\ UNCHANGED <<kernel, lhd_list, tracked, timestamp, num_objects, rounds,
                   reconfiguring, lost>>

\* hits[age] of the class, and the clock.
AccessedClock(t) ==
    /\ At(t, "hit")
    /\ timestamp' = timestamp + 1
    /\ Goto(t, [Idle EXCEPT !.pc = "count_down"])
    /\ UNCHANGED <<kernel, lhd_list, metadata, num_objects, rounds, reconfiguring, lost>>

-----------------------------------------------------------------------------
(* lhd_folio_evicted *)

HasMetadataAny(f) == TRUE   \* mutant: no early return
HasMetadataIfWatched(f) == f \in tracked /\ watched   \* mutant: asks the watch list
HasMetadata(f) == f \in tracked

\* The page cache drops a folio and unlinks it; the hook ends when it has no
\* metadata, and reads the clock when it has.
FolioEvicted(t, f) ==
    /\ At(t, "idle")
    /\ f \in cached /\ ~Locking(f)
    /\ cached' = cached \ {f}
    /\ lhd_list' = lhd_list \ {f}
    /\ IF HasMetadata(f)
       THEN Goto(t, [Idle EXCEPT !.pc = "evicted", !.f = f, !.ts = timestamp])
       ELSE UNCHANGED th
    /\ UNCHANGED <<watched, metadata, timestamp, num_objects, rounds, reconfiguring, lost>>

\* The age of the eviction, counted in evictions[age] of the class.
EvictedAge(t) ==
    /\ At(t, "evicted")
    /\ Goto(t, [Idle EXCEPT !.pc = "uncount", !.f = th[t].f, !.n = Age(th[t].ts, th[t].f)])
    /\ UNCHANGED <<kernel, lhd_list, metadata, timestamp, num_objects, rounds,
                   reconfiguring, lost>>

EvictedCount(t) ==
    /\ At(t, "uncount")
    /\ num_objects' = num_objects - 1
    /\ Goto(t, [Idle EXCEPT !.pc = "forget", !.f = th[t].f])
    /\ UNCHANGED <<kernel, lhd_list, metadata, timestamp, rounds, reconfiguring, lost>>

EvictedForget(t) ==
    /\ At(t, "forget")
    /\ tracked' = tracked \ {th[t].f}
    /\ last_access_time' = [last_access_time EXCEPT ![th[t].f] = 0]
    /\ Return(t)
    /\ UNCHANGED <<kernel, lhd_list, timestamp, num_objects, rounds, reconfiguring, lost>>

-----------------------------------------------------------------------------
(* The loader: ring_buffer__poll calls handle_event, which runs reconfigure; *)
(* the record is consumed when handle_event has returned.                    *)

\* update_class of all classes.
Reconfigure ==
    /\ loader = "poll" /\ events > 0
    /\ loader' = "adapt"
    /\ due' = FALSE
    /\ UNCHANGED <<kernel, lhd_list, metadata, timestamp, num_objects,
                   next_reconfiguration, num_reconfigurations, coarsening, events, th, lost>>

\* adapt_age_coarsening: whether it adapts is asked of the number of rounds at
\* this time.  The value is a function of the mean of num_objects, any here.
AdaptAgeCoarsening ==
    /\ loader = "adapt"
    /\ IF num_reconfigurations \in AdaptAt THEN coarsening' \in Coarsenings
                                           ELSE UNCHANGED coarsening
    /\ loader' = "model"
    /\ UNCHANGED <<kernel, lhd_list, metadata, timestamp, num_objects, rounds, events, th,
                   lost>>

\* model_hit_density, and the return to ring_buffer__poll.
ModelHitDensity ==
    /\ loader = "model"
    /\ loader' = "poll"
    /\ events' = events - 1
    /\ UNCHANGED <<kernel, lhd_list, metadata, timestamp, num_objects, rounds, coarsening,
                   th, lost>>

Loader == Reconfigure \/ AdaptAgeCoarsening \/ ModelHitDensity

-----------------------------------------------------------------------------
(* Specification *)

Init ==
    /\ cached = {} /\ watched = TRUE /\ lhd_list = {}
    /\ tracked = {} /\ last_access_time = [f \in Folios |-> 0]
    /\ timestamp = 0 /\ num_objects = 0
    /\ next_reconfiguration = REQS_PER_RECONFIG /\ num_reconfigurations = 0
    /\ coarsening = Initial
    /\ events = 0 /\ loader = "poll"
    /\ th = [t \in Threads |-> Idle]
    /\ lost = 0 /\ due = FALSE

\* The steps of a hook that is under way.
Continue(t) ==
    \/ CountDown(t) \/ Reset(t) \/ RoundRead(t) \/ RoundWrite(t) \/ Submit(t)
    \/ FolioAddedMeta(t) \/ FolioAddedClock(t) \/ FolioAddedCount(t)
    \/ AccessedMeta(t) \/ AccessedClock(t)
    \/ EvictedAge(t) \/ EvictedCount(t) \/ EvictedForget(t)

Start(t) == \E f \in Folios : FolioAdded(t, f) \/ FolioAccessed(t, f) \/ FolioEvicted(t, f)

Next ==
    \/ ChangeWatchlist
    \/ \E t \in Threads : Start(t) \/ Continue(t)
    \/ Loader

Spec == Init /\ [][Next]_vars

\* A hook that was called runs to its end, and the loader polls for ever.
Fairness == WF_vars(Loader) /\ \A t \in Threads : WF_vars(Continue(t))

FairSpec == Spec /\ Fairness

-----------------------------------------------------------------------------
(* Properties *)

Labels == {"idle", "add_meta", "add_clock", "add_count", "accessed", "hit", "evicted",
           "uncount", "forget", "count_down", "reset", "round_read", "round_write", "submit"}

ThreadStates == [pc : Labels, f : Folios \cup {NoFolio}, ts : Nat, n : Nat]

\* Types; the age that indexes a distribution is below MAX_AGE, whatever another
\* thread did to the clock or the metadata between the two loads of get_age.
TypeOK ==
    /\ cached \subseteq Folios /\ watched \in BOOLEAN /\ lhd_list \subseteq cached
    /\ tracked \subseteq Folios /\ last_access_time \in [Folios -> Nat]
    /\ timestamp \in Nat /\ num_objects \in Int
    /\ next_reconfiguration \in Int /\ num_reconfigurations \in Nat
    /\ coarsening \in Coarsenings
    /\ events \in 0 .. RingSize /\ loader \in {"poll", "adapt", "model"}
    /\ th \in [Threads -> ThreadStates]
    /\ \A t \in Threads : th[t].pc \in {"hit", "uncount"} => th[t].n < MAX_AGE
    /\ lost \in Nat /\ due \in BOOLEAN

ThreadsAt(labels) == {t \in Threads : th[t].pc \in labels}

\* num_objects, from which the coarsening is computed, is the number of metadata
\* entries except for the updates under way: no failed insertion, removal of an
\* unknown folio or change of the watch list makes it drift.
NumObjectsConserved ==
    num_objects = Cardinality(tracked)
                  - Cardinality(ThreadsAt({"add_clock", "add_count", "forget"}))

\* The countdown is never stuck below zero, where it would take 2^64 requests to
\* end the next round: one thread, and only one, is about to reset it.
CountdownAlive ==
    IF ThreadsAt({"reset"}) = {} THEN next_reconfiguration \in 1 .. REQS_PER_RECONFIG
    ELSE /\ next_reconfiguration <= 0
         /\ \A t, u \in ThreadsAt({"reset"}) : t = u

\* A folio with metadata is on the list the sampling draws from, so that none
\* becomes unevictable.
TrackedIsListed ==
    \A f \in tracked : f \in lhd_list \/ \E t \in ThreadsAt(EvictedLabels) : th[t].f = f

\* After a round has ended a reconfiguration begins, also when the event was
\* lost because the ring buffer was full.
RoundIsReconfigured == due ~> ~due

=============================================================================
