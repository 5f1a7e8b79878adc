------------------------------- MODULE MCMenu -------------------------------
(***************************************************************************)
(* The menu with the answers bash/led-mpc.sh gives: a volume between 0 and *)
(* a maximum, the track of a playlist or nothing, and playlists that start *)
(* from 1 while none has been loaded yet.  The list of the menu is cut to  *)
(* its two ends: what lies between them sends a message or sets the        *)
(* brightness, and changes nothing else.                                   *)
(***************************************************************************)
EXTENDS Menu

MCListed == <<"POWER_OFF", "REBOOT">>

MCAnswers(p) == CASE p = "VOLUME"   -> {<<1, 0, MaxValue>>}
                  [] p = "TRACK"    -> {<<1, 1, MaxValue>>, <<0, 0, 0>>}
                  [] p = "PLAYLIST" -> {<<0, 1, MaxValue>>}
=============================================================================
