------------------------------- MODULE MCTwi -------------------------------
(***************************************************************************)
(* The watch with a ring that its first requests nearly fill, and a time   *)
(* out of range in both parts.                                             *)
(***************************************************************************)
EXTENDS Twi

MCTimes == {<<30, 70>>}
=============================================================================
