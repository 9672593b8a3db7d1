------------------------------ MODULE OnePolicy ------------------------------
(***************************************************************************)
(* The policies that keep one eviction list: FIFO, MRU, sampling, the       *)
(* network-aware one, and the two templates of the evolved ones: "evolved"  *)
(* (eviction_evo/initial_vulcan_split.c) and "file" (file_initial.c).  The  *)
(* policy is what the loader attached; it does not change.                  *)
(*                                                                         *)
(* An eviction iterates or samples the list and moves no node, and the      *)
(* kernel removes what it likes, so evict_folios has no action here; the    *)
(* network-aware callback, whose verdict depends on time and traffic, is    *)
(* NetVerdict.  Features and access counts are left out.                    *)
(***************************************************************************)
EXTENDS CacheExtLists

CONSTANTS
    Folios,          \* pages of the one watched file
    Threads,         \* kernel threads that run hooks
    Servers,         \* the processes that listen on ports 9001 and 9002
    NoFolio,         \* a thread that works on no folio
    NoServer         \* active_db_pid 0

ASSUME OnePolicyAssumption ==
    /\ IsFiniteSet(Folios) /\ IsFiniteSet(Threads)
    /\ NoFolio \notin Folios /\ NoServer \notin Servers

VARIABLES
    policy,          \* the attached policy
    cached,          \* folios in the page cache
    watched,         \* the file's inode is in the watch list
    main_list,
    tracked,         \* keys of folio_metadata_map
    owner, age,      \* net: owner_pid, and how long ago last_access_ts is
    active_db_pid,   \* net: the server that last received
    session,         \* net: last_packet_ts is less than NET_IDLE_TIMEOUT ago
    th,              \* per thread: where it is in a hook, and its locals
    late,            \* history: threads whose access a removal of the folio overtook
    causes           \* history: per folio, what went wrong since it was in order

vars == <<policy, cached, watched, main_list, tracked, owner, age, active_db_pid, session,
          th, late, causes>>

kernel == <<policy, cached, watched>>
metadata == <<tracked, owner, age>>
traffic == <<active_db_pid, session>>
history == <<late, causes>>

-----------------------------------------------------------------------------
(* Policies and threads *)

Strict == {"fifo", "mru", "sampling"}      \* link a folio in their added hook alone
Evolved == {"evolved", "file"}
Policies == Strict \cup Evolved \cup {"net"}
KeepsMetadata == policy \notin {"fifo", "mru"}

Listed == ToSet(main_list)

\* pid: the process that receives, at "recvmsg".
Idle == [pc |-> "idle", f |-> NoFolio, pid |-> NoServer]

Goto(t, label, f) == th' = [th EXCEPT ![t] = [pc |-> label, f |-> f, pid |-> NoServer]]
Return(t) == th' = [th EXCEPT ![t] = Idle]

At(t, label) == th[t].pc = label
Working(f, labels) == \E t \in Threads : th[t].pc \in labels /\ th[t].f = f

\* The folio lock: one thread adds or removes a folio at a time.
AddLabels == {"add_list", "add_meta"}
Adding(f) == Working(f, AddLabels)
Removing(f) == Working(f, {"evicted"})

\* An access that found no metadata and has not stored any yet.
AccessLabels == {"link", "move_store", "store", "create"}
Accessing(t, f) == th[t].pc \in AccessLabels /\ th[t].f = f

Blame(f, cause) == causes' = [causes EXCEPT ![f] = @ \cup {cause}]
BlameIf(condition, f, cause) == IF condition THEN Blame(f, cause) ELSE UNCHANGED causes

\* Opening the file takes its inode out of the watch list for a while.
ChangeWatchlist ==
    /\ watched' = ~watched
    /\ UNCHANGED <<policy, cached, main_list, metadata, traffic, th, history>>

-----------------------------------------------------------------------------
(* folio_added *)

\* net only counts the call.  The folios of an unwatched file are never linked by it;
\* sampling links them nowhere else.
FolioAdded(t, f) ==
    /\ At(t, "idle")
    /\ f \notin cached /\ ~Removing(f)
    /\ cached' = cached \cup {f}
    /\ IF policy # "net" /\ watched THEN Goto(t, "add_list", f) ELSE UNCHANGED th
    /\ BlameIf(policy = "sampling" /\ ~watched, f, "unlinked")
    /\ UNCHANGED <<policy, watched, main_list, metadata, traffic, late>>

Linked(f) == IF policy = "mru" THEN ListAdd(main_list, f) ELSE ListAddTail(main_list, f)

\* The insertion fails for a folio that is linked, and may fail for any other.
FolioAddedList(t) ==
    LET f == th[t].f IN
    /\ At(t, "add_list")
    /\ \/ /\ f \notin Listed
          /\ main_list' = Linked(f)
          /\ IF KeepsMetadata THEN Goto(t, "add_meta", f) ELSE Return(t)
          /\ UNCHANGED causes
       \/ /\ Return(t)
          /\ BlameIf(policy = "sampling", f, "unlinked")
          /\ UNCHANGED main_list
    /\ UNCHANGED <<kernel, metadata, traffic, late>>

\* bpf_map_update_elem with BPF_ANY.  Its failure goes unnoticed.
FolioAddedMeta(t) ==
    LET f == th[t].f IN
    /\ At(t, "add_meta")
    /\ \/ tracked' = tracked \cup {f} /\ causes' = [causes EXCEPT ![f] = {}]
       \/ BlameIf(f \notin tracked, f, "unstored") /\ UNCHANGED tracked
    /\ Return(t)
    /\ UNCHANGED <<kernel, main_list, owner, age, traffic, late>>

-----------------------------------------------------------------------------
(* folio_accessed *)

Accessible(t, f) == At(t, "idle") /\ f \in cached

ToHead(f) == ListAdd(ListDel(main_list, f), f)
ToTailKept(f) == ListAddTail(main_list, f)   \* mutant: the old position is not unlinked
ToTail(f) == ListAddTail(ListDel(main_list, f), f)

\* bpf_cache_ext_list_move fails for a folio that is not linked.  The mutant links it.
MovedAlways(f) == IF policy = "net" THEN ToTail(f) ELSE ToHead(f)
Moved(f) == IF f \notin Listed THEN main_list
            ELSE IF policy = "net" THEN ToTail(f) ELSE ToHead(f)

\* MRU moves the folio, whatever else runs.
FolioAccessedMove(t, f) ==
    /\ policy = "mru" /\ Accessible(t, f) /\ watched
    /\ main_list' = Moved(f)
    /\ UNCHANGED <<kernel, metadata, traffic, th, history>>

\* The folio has metadata: net, which asks no watch list, refreshes it and moves
\* the folio; the file policy moves it.
FolioAccessedAgain(t, f) ==
    /\ policy \in {"net", "file"} /\ Accessible(t, f) /\ f \in tracked
    /\ policy = "file" => watched
    /\ age' = IF policy = "net" THEN [age EXCEPT ![f] = "recent"] ELSE age
    /\ Goto(t, "move", f)
    /\ UNCHANGED <<kernel, main_list, tracked, owner, traffic, history>>

\* It has none: sampling creates it, the others link the folio first.
FolioAccessedNew(t, f) ==
    /\ KeepsMetadata /\ Accessible(t, f) /\ watched /\ f \notin tracked
    /\ Goto(t, IF policy = "sampling" THEN "create" ELSE "link", f)
    /\ UNCHANGED <<kernel, main_list, metadata, traffic, history>>

\* bpf_cache_ext_list_add fails also for a folio that left the page cache; it
\* may fail for a folio on no list, which the evolved policies store all the same.
FolioAccessedLink(t) ==
    LET f == th[t].f IN
    /\ At(t, "link")
    /\ \/ /\ f \in cached /\ f \notin Listed
          /\ main_list' = ListAdd(main_list, f)
          /\ Goto(t, "store", f)
          /\ UNCHANGED causes
       \/ /\ Goto(t, IF policy = "net" THEN "move" ELSE "move_store", f)
          /\ BlameIf(policy \in Evolved /\ f \notin Listed, f, "unlinked")
          /\ UNCHANGED main_list
    /\ UNCHANGED <<kernel, metadata, traffic, late>>

\* After a failed insertion, net gives up and the evolved ones store metadata.
FolioAccessedMoved(t) ==
    LET f == th[t].f IN
    /\ th[t].pc \in {"move", "move_store"}
    /\ main_list' = Moved(f)
    /\ IF At(t, "move") THEN Return(t) /\ late' = late \ {t}
                        ELSE Goto(t, "store", f) /\ UNCHANGED late
    /\ UNCHANGED <<kernel, metadata, traffic, causes>>

\* Metadata with BPF_ANY, which may fail; net stores whose process this is.
FolioAccessedStore(t) ==
    LET f == th[t].f IN
    /\ th[t].pc \in {"store", "create"}
    /\ \/ /\ tracked' = tracked \cup {f}
          /\ causes' = [causes EXCEPT ![f] =
                            (@ \ {"unstored"}) \cup IF t \in late THEN {"left"} ELSE {}]
          /\ IF policy = "net"
             THEN /\ \E s \in Servers : owner' = [owner EXCEPT ![f] = s]
                  /\ age' = [age EXCEPT ![f] = "recent"]
             ELSE UNCHANGED <<owner, age>>
       \/ BlameIf(f \notin tracked, f, "unstored") /\ UNCHANGED metadata
    /\ late' = late \ {t}
    /\ Return(t)
    /\ UNCHANGED <<kernel, main_list, traffic>>

-----------------------------------------------------------------------------
(* folio_evicted *)

HandlesWatched == KeepsMetadata /\ watched   \* mutant: sampling and net return early too
Handles == KeepsMetadata /\ (policy \in Evolved => watched)

\* The page cache drops a folio and unlinks it; the evolved policies return early
\* when its inode is not in the watch list, and leave the metadata behind.
FolioEvicted(t, f) ==
    /\ At(t, "idle")
    /\ f \in cached /\ ~Adding(f) /\ ~Removing(f)
    /\ cached' = cached \ {f}
    /\ main_list' = ListDel(main_list, f)
    /\ IF Handles THEN Goto(t, "evicted", f) ELSE UNCHANGED th
    /\ late' = late \cup {u \in Threads : Accessing(u, f)}
    /\ BlameIf(policy \in Evolved /\ ~watched /\ f \in tracked, f, "kept")
    /\ UNCHANGED <<policy, watched, metadata, traffic>>

FolioEvictedMeta(t) ==
    LET f == th[t].f IN
    /\ At(t, "evicted")
    /\ tracked' = tracked \ {f}
    /\ owner' = [owner EXCEPT ![f] = NoServer]
    /\ age' = [age EXCEPT ![f] = "old"]
    /\ causes' = [causes EXCEPT ![f] = {}]
    /\ Return(t)
    /\ UNCHANGED <<kernel, main_list, traffic, late>>

-----------------------------------------------------------------------------
(* net: tcp_recvmsg and time *)

\* The kprobe stores the time, and then the process.
Recvmsg(t, s) ==
    /\ policy = "net" /\ At(t, "idle")
    /\ session' = TRUE
    /\ th' = [th EXCEPT ![t] = [pc |-> "recvmsg", f |-> NoFolio, pid |-> s]]
    /\ UNCHANGED <<kernel, main_list, metadata, active_db_pid, history>>

RecvmsgActive(t) ==
    /\ At(t, "recvmsg")
    /\ active_db_pid' = th[t].pid
    /\ Return(t)
    /\ UNCHANGED <<kernel, main_list, metadata, session, history>>

Elapses == UNCHANGED <<kernel, main_list, tracked, owner, active_db_pid, th, history>>

\* PERIOD_NS, WORKING_SET_WINDOW or NET_IDLE_TIMEOUT goes by: an access is
\* "recent" for the first, "working" for the second and "old" after it.
PeriodElapses ==
    /\ policy = "net"
    /\ age' = [f \in Folios |-> IF age[f] = "recent" THEN "working" ELSE age[f]]
    /\ UNCHANGED session /\ Elapses

WorkingSetElapses ==
    /\ policy = "net"
    /\ age' = [f \in Folios |-> "old"]
    /\ UNCHANGED session /\ Elapses

SessionElapses ==
    /\ policy = "net"
    /\ age' = [f \in Folios |-> "old"] /\ session' = FALSE
    /\ Elapses

\* Mutant: an active session protects all it owns, not its working set.
InSession(f) == session
InWorkingSet(f) == session /\ age[f] # "old"

\* bpf_net_evict_cb.
NetVerdict(f) ==
    IF f \notin tracked THEN EVICT_NODE
    ELSE IF age[f] = "recent" \/ active_db_pid = NoServer THEN CONTINUE_ITER
    ELSE IF owner[f] = active_db_pid /\ InWorkingSet(f) THEN CONTINUE_ITER
    ELSE EVICT_NODE

-----------------------------------------------------------------------------
(* Specification *)

Init ==
    /\ policy \in Policies
    /\ cached = {} /\ watched = TRUE
    /\ main_list = <<>> /\ tracked = {}
    /\ owner = [f \in Folios |-> NoServer] /\ age = [f \in Folios |-> "old"]
    /\ active_db_pid = NoServer /\ session = FALSE
    /\ th = [t \in Threads |-> Idle]
    /\ late = {} /\ causes = [f \in Folios |-> {}]

Hook(t) ==
    \/ \E f \in Folios : FolioAdded(t, f) \/ FolioEvicted(t, f)
    \/ FolioAddedList(t) \/ FolioAddedMeta(t) \/ FolioEvictedMeta(t)
    \/ \E f \in Folios :
          FolioAccessedMove(t, f) \/ FolioAccessedAgain(t, f) \/ FolioAccessedNew(t, f)
    \/ FolioAccessedLink(t) \/ FolioAccessedMoved(t) \/ FolioAccessedStore(t)
    \/ \E s \in Servers : Recvmsg(t, s)
    \/ RecvmsgActive(t)

Next ==
    \/ ChangeWatchlist \/ PeriodElapses \/ WorkingSetElapses \/ SessionElapses
    \/ \E t \in Threads : Hook(t)

Spec == Init /\ [][Next]_vars

\* Time passes, whatever the hooks do.  Nothing is assumed of hooks: no property
\* here needs a thread to go on, a packet to arrive or the kernel to reclaim.
FairSpec == Spec /\ WF_vars(WorkingSetElapses)

-----------------------------------------------------------------------------
(* Properties *)

Labels == {"idle", "move", "evicted", "recvmsg"} \cup AddLabels \cup AccessLabels

Causes == {"unlinked", "unstored", "left", "kept"}

ThreadStates == [pc : Labels, f : Folios \cup {NoFolio}, pid : Servers \cup {NoServer}]

\* Types; the list holds cached folios, each once, although net and the evolved
\* policies link folios in hooks that no folio lock protects.
TypeOK ==
    /\ policy \in Policies
    /\ cached \subseteq Folios /\ watched \in BOOLEAN
    /\ main_list \in Seq(Folios)
    /\ Listed \subseteq cached /\ IsInjective(main_list)
    /\ tracked \subseteq Folios
    /\ owner \in [Folios -> Servers \cup {NoServer}]
    /\ age \in [Folios -> {"recent", "working", "old"}]
    /\ active_db_pid \in Servers \cup {NoServer} /\ session \in BOOLEAN
    /\ th \in [Threads -> ThreadStates]
    /\ late \subseteq Threads
    /\ causes \in [Folios -> SUBSET Causes]

\* Folios that a hook is about to link or has linked and not stored, or that the
\* kernel unlinked and a hook has not deleted yet.
InTransit(f) == Working(f, AddLabels \cup {"store", "evicted"})

\* A policy that keeps metadata has it for the folios on its list and no others, but
\* for hooks in transit.  A folio is on the list without metadata only after an
\* update of the map failed.  One has metadata and is on no list only when
\*   - no hook linked it: the added hook of sampling saw it unwatched or failed to
\*     insert it, and an access created metadata; or an access of an evolved policy
\*     failed to insert it and stored all the same ("unlinked"),
\*   - an access that began before the folio left stored after it ("left"),
\*   - the removal returned early because the file was not watched ("kept").
\* Leftover metadata would keep net from ever linking the next folio at that
\* address, and a folio without it is never a low score.
ListedIsTracked ==
    KeepsMetadata =>
        \A f \in Folios :
            \/ InTransit(f)
            \/ /\ f \in Listed \ tracked => "unstored" \in causes[f]
               /\ f \in tracked \ Listed => causes[f] \cap {"unlinked", "left", "kept"} # {}

\* FIFO, MRU and sampling implement the abstract page policy: only an added hook
\* links a folio, and accesses that move it never lose or invent one.
IsStrict == policy \in Strict

Abstract ==
    INSTANCE PagePolicy WITH
        cached <- IF IsStrict THEN cached ELSE {},
        adding <- IF IsStrict THEN {f \in Folios : Adding(f)} ELSE {},
        listed <- IF IsStrict THEN Listed ELSE {}

ImplementsPagePolicy == Abstract!Spec

\* Once a server has received, the network-aware policy offers every folio on its
\* list for eviction sooner or later, unless it is read again: neither a session
\* that never pauses nor an owner that went away protects it for ever.
NetOffersIdleFolios ==
    \A f \in Folios :
        policy = "net" /\ f \in Listed /\ active_db_pid # NoServer
            ~> f \notin Listed \/ age[f] = "recent" \/ NetVerdict(f) = EVICT_NODE

=============================================================================
