--------------------------- MODULE MCLiveBackend ---------------------------
(***************************************************************************)
(* Two sessions on one port.                                               *)
(***************************************************************************)
EXTENDS LiveBackend, TLC

CONSTANTS s1, s2

MCSessions == {s1, s2}

=============================================================================
