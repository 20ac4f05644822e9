--------------------------- MODULE MCCleanRestore ---------------------------
(***************************************************************************)
(* Instances of CleanRestore for TLC.                                      *)
(***************************************************************************)
EXTENDS CleanRestore
=============================================================================
