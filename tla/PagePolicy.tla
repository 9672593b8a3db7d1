------------------------------ MODULE PagePolicy ------------------------------
(***************************************************************************)
(* What an eviction policy of cache_ext promises about the folios it keeps  *)
(* on its lists, whatever the number of lists and however it moves folios   *)
(* between them: a folio comes onto a list only while its added hook runs,  *)
(* and leaves the lists only with the page cache, or when that hook fails.  *)
(* Ordering, promotion, aging and eviction candidates are stuttering steps. *)
(***************************************************************************)
CONSTANT Folios

VARIABLES
    cached,    \* folios in the page cache
    adding,    \* folios whose added hook has not ended
    listed     \* folios on the policy's lists

vars == <<cached, adding, listed>>

Init == cached = {} /\ adding = {} /\ listed = {}

\* The folio enters the page cache; the hook goes on unless it is not relevant.
Enter(f) ==
    /\ f \notin cached
    /\ cached' = cached \cup {f}
    /\ adding' \in {adding, adding \cup {f}}
    /\ UNCHANGED listed

\* The hook links the folio into a list, at once or not as its last effect.
Link(f) ==
    /\ f \in adding /\ f \notin listed
    /\ listed' = listed \cup {f}
    /\ adding' \in {adding, adding \ {f}}
    /\ UNCHANGED cached

\* The hook ends; when it fails it unlinks the folio.
Settle(f) ==
    /\ f \in adding
    /\ adding' = adding \ {f}
    /\ listed' \in {listed, listed \ {f}}
    /\ UNCHANGED cached

\* The page cache drops a folio that is not being added.
Leave(f) ==
    /\ f \in cached /\ f \notin adding
    /\ cached' = cached \ {f}
    /\ listed' = listed \ {f}
    /\ UNCHANGED adding

Next == \E f \in Folios : Enter(f) \/ Link(f) \/ Settle(f) \/ Leave(f)

Spec == Init /\ [][Next]_vars

=============================================================================
