------------------------------ MODULE MCS3Fifo ------------------------------
(* S3-FIFO on a small instance: TLC's constants and symmetry.              *)
EXTENDS S3Fifo, TLC

Symmetry == Permutations(Folios) \cup Permutations(Threads)

=============================================================================
