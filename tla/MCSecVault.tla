------------------------------ MODULE MCSecVault ------------------------------
(***************************************************************************)
(* Small instances of SecVault for TLC.                                    *)
(***************************************************************************)
EXTENDS SecVault, TLC

Symmetry == Permutations(Devices) \cup Permutations(Vals) \cup Permutations(Ids)
=============================================================================
