------------------------------- MODULE MCSystem -------------------------------
(***************************************************************************)
(* A small instance of SecVaultSystem for TLC.                             *)
(***************************************************************************)
EXTENDS SecVaultSystem, TLC

DeviceSymmetry == Permutations(Devices)
=============================================================================
