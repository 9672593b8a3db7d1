-------------------------- MODULE MCTcpDelayProxy --------------------------
(* The proxy on a small instance: messages of more than one chunk, chunks     *)
(* up to what a bucket holds.                                                 *)
EXTENDS TcpDelayProxy

=============================================================================
