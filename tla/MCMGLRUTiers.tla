---------------------------- MODULE MCMGLRUTiers ----------------------------
(* The tiers on a small instance: symmetry of pages and threads.             *)
EXTENDS MGLRUTiers, TLC

Symmetry == Permutations(Pages) \cup Permutations(Threads)

=============================================================================
