-------------------------------- MODULE MCLHD --------------------------------
(* LHD on a small instance, with rounds of two requests.                    *)
EXTENDS LHD

=============================================================================
