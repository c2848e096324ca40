----------------------------- MODULE MCRilData ------------------------------
(* Instances of RilData for TLC. *)
EXTENDS RilData, TLC

SerialSymmetry == Permutations(Serials)
=============================================================================
