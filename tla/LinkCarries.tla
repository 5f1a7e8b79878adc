---------------------------- MODULE LinkCarries -----------------------------
(***************************************************************************)
(* The link of module SpiLink implements the message exchange of module    *)
(* Session.  The refinement mapping reads the messages off the bytes that  *)
(* are on their way (Down and Up); `down' and `up' hold their values, so   *)
(* that they are computed once in every state.                             *)
(***************************************************************************)
EXTENDS SpiLink

VARIABLES down, up

mvars == <<vars, down, up>>

MappedInit == Init /\ down = Down /\ up = Up
MappedNext == Next /\ down' = Down' /\ up' = Up'
MappedSpec == MappedInit /\ [][MappedNext]_mvars
MappedFairSpec == MappedSpec /\ Fairness

Session == INSTANCE Session WITH failed <- (pc = "dead"), drain <- FALSE,
                                 radio <- connected,
                                 MaxDown <- MaxQueue + 3, MaxUp <- BufSize

\* The wire carries messages: cut into bytes, exchanged byte against byte,
\* mixed with underflow bytes and IDLE messages, and put together again on
\* the other side, they are exchanged as in module Session - in order, none
\* lost, none invented, and with the stop-and-wait discipline.
CarriesMessages == Session!Spec
=============================================================================
