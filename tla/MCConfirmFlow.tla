--------------------------- MODULE MCConfirmFlow ---------------------------
(* Instances of ConfirmFlow for TLC. *)
EXTENDS ConfirmFlow, TLC

Symmetry == Permutations(RunId)
=============================================================================
