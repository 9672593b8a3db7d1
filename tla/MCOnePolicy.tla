---------------------------- MODULE MCOnePolicy ----------------------------
(* The one-list policies on a small instance.  The folios and threads have    *)
(* no symmetry: a liveness property is checked.                               *)
EXTENDS OnePolicy

=============================================================================
