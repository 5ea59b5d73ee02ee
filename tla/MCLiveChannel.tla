--------------------------- MODULE MCLiveChannel ---------------------------
(* Instances of LiveChannel for TLC. *)
EXTENDS LiveChannel, TLC
=============================================================================
