------------------------------- MODULE MCVulcan -------------------------------
(* The listeners with a ring of four values instead of sixteen.             *)
EXTENDS Vulcan

SignedValues == {-3, 1, 10}

=============================================================================
