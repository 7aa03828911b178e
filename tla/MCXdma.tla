-------------------------------- MODULE MCXdma --------------------------------
(* TLC instances of Xdma. *)
EXTENDS Xdma
=============================================================================
