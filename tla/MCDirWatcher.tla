----------------------------- MODULE MCDirWatcher -----------------------------
(* The watch list on a small instance: two roots, as with --dual_pair, the  *)
(* first with files whose names begin with a dot.                           *)
EXTENDS DirWatcher, TLC

CONSTANTS client1, client2, dots1

TwoRoots == <<client1, client2>>
TwoTags == client1 :> 1 @@ client2 :> 2 @@ dots1 :> 1

=============================================================================
