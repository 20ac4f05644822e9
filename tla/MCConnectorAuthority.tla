------------------------ MODULE MCConnectorAuthority ------------------------
(***************************************************************************)
(* Instances of ConnectorAuthority for TLC.                                *)
(***************************************************************************)
EXTENDS ConnectorAuthority, TLC

CONSTANTS codex, local, key, key2, install, install2, r1, r2, r3

\* A connector: two requests for one key, and one for the key of a replacement.
ConnectorKey == [r \in Requests |-> IF r = r3 THEN key2 ELSE key]
ConnectorInstall == [r \in Requests |-> IF r = r3 THEN install2 ELSE install]
ConnectorKind == [r \in Requests |-> codex]

\* A connector, and two requests of the local interface for the one key it may
\* pair again.
MixedKey == [r \in Requests |-> IF r = r1 THEN key ELSE key2]
MixedInstall == [r \in Requests |-> install]
MixedKind == [r \in Requests |-> IF r = r1 THEN codex ELSE local]

\* Prompts are alike, and so are the two requests for one key.
Alike == Permutations(Slots)
Twins == Alike \cup Permutations({r1, r2})
LocalTwins == Permutations({r2, r3})
=============================================================================
