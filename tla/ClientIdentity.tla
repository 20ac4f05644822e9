---------------------------- MODULE ClientIdentity ----------------------------
(* The identity file of one kind of connector and its rotation              *)
(* (mcp-client-identity.ts).  A rotation reads the file, has the owner      *)
(* approve the replacement in the app (which revokes what the old identity  *)
(* held and prepares the broker for the new one), and only then replaces    *)
(* the file.  Several commands of the owner may do so at once, and any of   *)
(* them may die at any point; the composition adds the deaths.  Nothing     *)
(* locks the file: the last comparison and the rename after it are two      *)
(* system calls of one process, and another's may come between them.        *)
EXTENDS Naturals

CONSTANTS
  Commands,     \* runs of the command line
  MaxIds        \* bound on the identities generated

ASSUME IdsAssumption == MaxIds \in Nat

VARIABLES
  file,         \* the identity in ~/.afternote/clients/<kind>.json
  backups,      \* the identities under rotation-backups
  gate,         \* the identity the broker was last prepared to pair anew
  approvals,    \* the replacements the owner approved: <<old, new>>
  rot,          \* per command: where its rotation stands
  minted,       \* identities generated so far
  overtaken     \* history: commands that had compared the file for the last
                \* time when another command replaced it

identVars == <<file, backups, gate, approvals, rot, minted, overtaken>>

Ids == 0..MaxIds
None == MaxIds + 1
NoRotation == [at |-> "none", seen |-> None, next |-> None]

IdentTypeOK ==
  /\ file \in Ids /\ backups \subseteq Ids /\ gate \in Ids \cup {None}
  /\ approvals \subseteq Ids \X Ids
  /\ rot \in [Commands ->
       [at : {"none", "asked", "approved", "backed", "compared", "rotated", "failed"},
        seen : Ids \cup {None}, next : Ids \cup {None}]]
  /\ minted \in Ids /\ overtaken \subseteq Commands

IdentInit ==
  /\ file = 0 /\ backups = {} /\ gate = None /\ approvals = {}
  /\ minted = 0 /\ overtaken = {}
  /\ rot = [c \in Commands |-> NoRotation]

To(c, at) == rot' = [rot EXCEPT ![c].at = at]

\* The state file is read and the replacement generated; the owner's app is
\* asked with both.
Inspect(c) ==
  /\ rot[c].at = "none" /\ minted < MaxIds
  /\ minted' = minted + 1
  /\ rot' = [rot EXCEPT ![c] = [at |-> "asked", seen |-> file, next |-> minted']]
  /\ UNCHANGED <<file, backups, gate, approvals, overtaken>>

\* The owner approves: the broker revokes the clients of the old identity and
\* admits the new one.  The answer may not come back (the app is stopped, its
\* deadline passes).
Approve(c) ==
  /\ rot[c].at = "asked"
  /\ gate' = rot[c].next
  /\ approvals' = approvals \cup {<<rot[c].seen, rot[c].next>>}
  /\ \E at \in {"approved", "failed"} : To(c, at)
  /\ UNCHANGED <<file, backups, minted, overtaken>>

Refuse(c) ==
  /\ rot[c].at = "asked" /\ To(c, "failed")
  /\ UNCHANGED <<file, backups, gate, approvals, minted, overtaken>>

\* Bug: not compared again before the rename.
Unchanged_NotAgain(c) == rot[c].at = "backed" \/ file = rot[c].seen

\* assertUnchangedIdentityState
Unchanged(c) == file = rot[c].seen

\* The file as inspected is linked into the backups: the link is checked to be
\* the file that was inspected, and undone when it is not.
Backup(c) ==
  /\ rot[c].at = "approved"
  /\ IF Unchanged(c) THEN backups' = backups \cup {file} /\ To(c, "backed")
                     ELSE To(c, "failed") /\ UNCHANGED backups
  /\ UNCHANGED <<file, gate, approvals, minted, overtaken>>

\* The new file is written and synced beside the old one, which is compared for
\* the last time.
Compare(c) ==
  /\ rot[c].at = "backed" /\ To(c, IF Unchanged(c) THEN "compared" ELSE "failed")
  /\ UNCHANGED <<file, backups, gate, approvals, minted, overtaken>>

\* It is renamed over whatever the file is by now.
Replace(c) ==
  /\ rot[c].at = "compared" /\ file' = rot[c].next /\ To(c, "rotated")
  /\ overtaken' = overtaken \cup {d \in Commands \ {c} : rot[d].at = "compared"}
  /\ UNCHANGED <<backups, gate, approvals, minted>>

Rotates(c) == Approve(c) \/ Refuse(c) \/ Backup(c) \/ Compare(c) \/ Replace(c)

-------------------------------------------------------------------------------
(* An identity leaves the file only by a command the owner approved to       *)
(* replace the identity it had inspected, which is backed up, by the one     *)
(* that comes; and it is the identity inspected, however the rotations of    *)
(* several commands interleave and wherever one dies.  The exception is a    *)
(* command overtaken between its last comparison and its rename, which       *)
(* nothing excludes: it discards the other's new identity, for which nobody  *)
(* gave an approval and of which there is no backup                          *)
(* (rotateMcpClientIdentity).                                                *)
ReplacedAsApproved ==
  [][file' # file =>
       \E c \in Commands :
         /\ rot'[c] # rot[c]
         /\ <<rot[c].seen, file'>> \in approvals /\ rot[c].seen \in backups
         /\ file = rot[c].seen \/ c \in overtaken]_identVars
===============================================================================
