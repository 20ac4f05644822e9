------------------------ MODULE MCEncryptedMigration ------------------------
(***************************************************************************)
(* Instances of EncryptedMigration for TLC.                                *)
(***************************************************************************)
EXTENDS EncryptedMigration

\* The displaced plaintext and the backups are decided about differently.
MixedPolicies == {p \in [live : Decisions, artifacts : Decisions] : p.live # p.artifacts}
KeepLive == {p \in MixedPolicies : p.live = "keep" /\ p.artifacts = "delete"}
=============================================================================
