----------------------------- MODULE MCSpiLink ------------------------------
(***************************************************************************)
(* Instances of the link for TLC.  One column per LED array, so that LED   *)
(* arrays take 5 bytes on the wire and SYNC_CLOCK takes 6; buffers of 9    *)
(* bytes, which a notice and a status would overrun, or of 12 in the run   *)
(* that restarts the daemon.                                               *)
(***************************************************************************)
EXTENDS SpiLink
=============================================================================
