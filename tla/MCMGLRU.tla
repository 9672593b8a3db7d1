------------------------------- MODULE MCMGLRU -------------------------------
(* MGLRU on a small instance: TLC's symmetry.                              *)
EXTENDS MGLRU, TLC

Symmetry == Permutations(Folios) \cup Permutations(Threads)

=============================================================================
