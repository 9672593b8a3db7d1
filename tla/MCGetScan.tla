----------------------------- MODULE MCGetScan -----------------------------
(* GET/SCAN on a small instance: symmetry of folios and threads.            *)
EXTENDS GetScan, TLC

Symmetry == Permutations(Folios) \cup Permutations(Threads)

=============================================================================
