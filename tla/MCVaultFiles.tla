------------------------------ MODULE MCVaultFiles ------------------------------
(* Instance of VaultFiles for TLC. *)
EXTENDS VaultFiles
===============================================================================
