---------------------------- MODULE CacheExtLists ----------------------------
(***************************************************************************)
(* The eviction-list kfuncs that the policies call.  Their implementation  *)
(* is in the modified kernel, which is not in this tree; the declarations   *)
(* are in policies/cache_ext_lib.bpf.h and the types in vmlinux.h.  Each    *)
(* kfunc runs under the list lock, so it is one atomic step.                *)
(*                                                                         *)
(* A list is a sequence of folios, head first.  An iteration visits each    *)
(* node at most once, from the head, and gives the verdict of the policy's  *)
(* callback on it, until the batch is full.  It is modelled by the function *)
(* `verdict` the callback would return on every node of the list.           *)
(***************************************************************************)
EXTENDS Integers, FiniteSets, Sequences, SequencesExt

\* What a callback returns (enum in vmlinux.h).
CONTINUE_ITER == "CACHE_EXT_CONTINUE_ITER"
EVICT_NODE == "CACHE_EXT_EVICT_NODE"

\* bpf_cache_ext_list_add: at the head.
ListAdd(list, folio) == <<folio>> \o list

\* bpf_cache_ext_list_add_tail.
ListAddTail(list, folio) == Append(list, folio)

\* The subsequence of a list at the given positions, in order.  (SelectSeq is
\* defined by recursion; this form can be reasoned about.)
NthPosition(positions, k) ==
    CHOOSE i \in positions : Cardinality({j \in positions : j <= i}) = k

Select(list, positions) ==
    [k \in 1 .. Cardinality(positions) |-> list[NthPosition(positions, k)]]

\* bpf_cache_ext_list_del, and the kernel's own unlinking of a removed folio.
ListDel(list, folio) == Select(list, {i \in DOMAIN list : list[i] # folio})

\* The positions an iteration visits when `room` candidates still fit: it goes
\* on while fewer than `room` of the nodes before had an EVICT_NODE verdict.
VisitedAt(list, verdict, room) ==
    {i \in DOMAIN list :
        Cardinality({j \in 1 .. i - 1 : verdict[list[j]] = EVICT_NODE}) < room}

Visited(list, verdict, room) == Select(list, VisitedAt(list, verdict, room))

Unvisited(list, verdict, room) ==
    Select(list, DOMAIN list \ VisitedAt(list, verdict, room))

\* The nodes proposed for eviction, and the nodes passed over, in visiting order.
Evicted(list, verdict, room) ==
    Select(list, {i \in VisitedAt(list, verdict, room) : verdict[list[i]] = EVICT_NODE})

Continued(list, verdict, room) ==
    Select(list, {i \in VisitedAt(list, verdict, room) : verdict[list[i]] # EVICT_NODE})

=============================================================================
