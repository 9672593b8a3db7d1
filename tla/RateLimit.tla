------------------------------ MODULE RateLimit ------------------------------
(***************************************************************************)
(* What a token bucket promises, for each of several streams: it fills by   *)
(* Fill bytes at every tick of the clock, holds Capacity bytes at most, and *)
(* lets a chunk through only when it holds the bytes of the chunk, which it *)
(* gives up.  So no window of k ticks lets more than Capacity + k * Fill    *)
(* bytes through.                                                           *)
(***************************************************************************)
EXTENDS Integers

CONSTANTS Streams, Fill, Capacity

VARIABLES
    allowance,    \* per stream: the bytes that may pass now
    chunk         \* per stream: the bytes of the chunk that was let through, or 0

AtMost(bound, n) == IF n < bound THEN n ELSE bound

Init ==
    /\ allowance = [s \in Streams |-> Capacity]
    /\ chunk = [s \in Streams |-> 0]

Tick ==
    /\ allowance' = [s \in Streams |-> AtMost(Capacity, allowance[s] + Fill)]
    /\ UNCHANGED chunk

Pass(s, n) ==
    /\ chunk[s] = 0 /\ n <= allowance[s]
    /\ allowance' = [allowance EXCEPT ![s] = @ - n]
    /\ chunk' = [chunk EXCEPT ![s] = n]

Leave(s) ==
    /\ chunk[s] # 0
    /\ chunk' = [chunk EXCEPT ![s] = 0]
    /\ UNCHANGED allowance

Next == Tick \/ \E s \in Streams : Leave(s) \/ \E n \in 1 .. Capacity : Pass(s, n)

Spec == Init /\ [][Next]_<<allowance, chunk>>

=============================================================================
