----------------------------- MODULE MCSession ------------------------------
(***************************************************************************)
(* Small instances of Session: LED arrays of one or two columns, credit    *)
(* for three, a display buffer of seven, and serial numbers that come      *)
(* round again after two.                                                  *)
(***************************************************************************)
EXTENDS Session
=============================================================================
