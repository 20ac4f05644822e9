--------------------------- MODULE MCBrokerClient ---------------------------
(* Instances of BrokerClient for TLC. *)
EXTENDS BrokerClient, TLC

CONSTANTS p, save, save2, ask

\* Two saves and a recall of one process.
OneProc == [c \in Calls |-> p]
Tools == (save :> "remember") @@ (save2 :> "remember") @@ (ask :> "recall")
Saves == Permutations({save, save2})
=============================================================================
