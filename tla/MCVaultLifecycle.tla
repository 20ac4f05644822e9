-------------------------- MODULE MCVaultLifecycle --------------------------
(***************************************************************************)
(* Instances of VaultLifecycle for TLC.                                    *)
(***************************************************************************)
EXTENDS VaultLifecycle, TLC

Alike == Permutations(Slots) \cup Permutations(Conns)
=============================================================================
