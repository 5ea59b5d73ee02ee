--------------------------- MODULE MCAlertHistory ---------------------------
(* Instances of AlertHistory for TLC. *)
EXTENDS AlertHistory, TLC

RaiserSymmetry == Permutations(Raisers)
=============================================================================
