------------------------------ MODULE VaultGate ------------------------------
(***************************************************************************)
(* What the vault's lock promises.  Under a lock there is no authority.    *)
(* The owner, asked under the epoch in force, is who locks and who         *)
(* unlocks; a lock keeps the epoch, every opening has an epoch of its own, *)
(* and authority is held under the epoch in force and no other.            *)
(***************************************************************************)
EXTENDS Naturals

VARIABLES
    locked,
    epoch,
    asked,   \* the questions before the owner
    live     \* the epochs whose authority is in force

vars == <<locked, epoch, asked, live>>

Question(e) == [to : {"lock", "unlock"}, epoch : {e}]

Init == locked \in BOOLEAN /\ epoch \in Nat /\ asked = {} /\ live = {}

\* A new epoch; what was asked before it is forgotten.
Opened == /\ ~locked' /\ epoch' \in Nat /\ epoch' > epoch
          /\ asked' \subseteq Question(epoch')
          /\ live' = {}

Restart == ~locked /\ Opened

Unlock == locked /\ [to |-> "unlock", epoch |-> epoch] \in asked /\ Opened

Lock == /\ ~locked /\ [to |-> "lock", epoch |-> epoch] \in asked
        /\ locked' /\ epoch' = epoch
        /\ asked' = {} /\ live' = {}

Ask == asked' \subseteq asked \cup Question(epoch) /\ UNCHANGED <<locked, epoch, live>>

\* Authority comes and goes while the vault is open.
Grant == /\ ~locked /\ live' \subseteq live \cup {epoch}
         /\ asked' \subseteq asked
         /\ UNCHANGED <<locked, epoch>>

Next == Restart \/ Unlock \/ Lock \/ Ask \/ Grant

Spec == Init /\ [][Next]_vars
=============================================================================
