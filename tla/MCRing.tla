------------------------------- MODULE MCRing -------------------------------
(***************************************************************************)
(* A ring of four slots and two byte values: long enough for both indices  *)
(* to wrap several times, short enough to be filled completely.            *)
(***************************************************************************)
EXTENDS Ring
=============================================================================
