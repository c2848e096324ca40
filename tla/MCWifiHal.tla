----------------------------- MODULE MCWifiHal ------------------------------
(* Instances of WifiHal for TLC. *)
EXTENDS WifiHal, TLC

CommandSymmetry == Permutations(Commands)
=============================================================================
