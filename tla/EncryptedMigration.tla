------------------------- MODULE EncryptedMigration -------------------------
(***************************************************************************)
(* The migration of a plaintext vault to encrypted storage, and its        *)
(* recovery (encrypted-vault-migration.ts, #beginRecoveryMigration and     *)
(* #executeApprovedRecoveryMigration).                                     *)
(*                                                                         *)
(* An encrypted candidate and a rollback copy of it are made beside the    *)
(* vault, the marker is written, the vault and the candidate are           *)
(* exchanged, and what the owner decided is done with the displaced        *)
(* plaintext and with the plaintext backups.  Each step ends with a change *)
(* of the disk, so that a crash may come between any two.                  *)
(*                                                                         *)
(* A file is the version of the notes in it.  Importing the notes,         *)
(* clearing the broker's tables and comparing with the source are one      *)
(* step: without a marker a file is removed, never read.                   *)
(***************************************************************************)
EXTENDS Naturals, FiniteSets

CONSTANTS
    Artifacts,    \* plaintext exports and pre-migration backups that may be found
    Policies,     \* what the owner may decide: a set of records
    Unattributed, \* the unrecorded decision of a migration from before the broker
    Earlier,      \* such a migration may have been interrupted
    TornCommits,  \* a crash may come inside a commit, and leave its journal
    MaxCrashes,   \* bound
    MaxEdits      \* bound: changes of the plaintext notes

Decisions == {"keep", "delete", "move"}

ASSUME ConstantsAssumption ==
    /\ Policies \subseteq [live : Decisions, artifacts : Decisions]
    /\ Policies # {} /\ Unattributed \notin Policies
    /\ Earlier \in BOOLEAN /\ TornCommits \in BOOLEAN
    /\ MaxCrashes \in Nat /\ MaxEdits \in Nat

VARIABLES
    vault,     \* what is at the vault's path
    audits,    \* migrations in its audit
    journal,   \* a rollback journal beside it that has not been played back
    candidate, \* what is at the candidate's path
    rollback,  \* what is at the rollback copy's
    retained,  \* the displaced plaintext, where it is kept or moved to
    place,     \* where each artifact is
    marker,
    pc,        \* what the worker does next
    asked,     \* what the owner was shown, while a prompt is pending
    policy,    \* what the owner decided last
    decided,   \* the artifacts of that approval
    todo,      \* the artifacts still to be dealt with
    newest,    \* history: the version of the notes before they were encrypted
    bound,     \* history: the artifacts the owner has decided about
    crashes    \* counter for the bound

database == <<vault, audits, journal>>
files == <<candidate, rollback, retained, place>>
owner == <<asked, policy, decided>>
env == <<newest, crashes>>
vars == <<database, files, marker, pc, owner, todo, env, bound>>

-----------------------------------------------------------------------------
Versions == 0..MaxEdits
Plain(v) == [encrypted |-> FALSE, notes |-> v]
Encrypted(v) == [encrypted |-> TRUE, notes |-> v]
NoFile == Plain(MaxEdits + 1)
File == [encrypted : BOOLEAN, notes : Versions]

\* An artifact that was copied to another volume is in both places for a moment.
Here == {a \in Artifacts : place[a] \in {"here", "both"}}

NoMarker == [phase |-> "none"]
Phases == {"candidate_verified", "swapped", "cleanup_complete"}
Marker == [phase : Phases, notes : Versions, policy : Policies \cup {Unattributed},
           retained : BOOLEAN]
At(phases) == marker.phase \in phases
NewMarker(v, p) == [phase |-> "candidate_verified", notes |-> v, policy |-> p,
                    retained |-> FALSE]

\* assertEncryptedCandidate opens the file read-only: it cannot play a journal back.
Verified(file) == file.encrypted /\ ~journal

\* encryptionMigrationReadiness: there is a marker, or the vault is plaintext.
Eligible == At(Phases) \/ ~vault.encrypted

NotAsked == [policy |-> Unattributed]
Snapshot(p) == [policy |-> p, vault |-> vault, marker |-> marker, artifacts |-> Here]

-----------------------------------------------------------------------------
\* Plaintext notes, or what a migration from before the broker left when it was
\* interrupted.
Init ==
    /\ \/ /\ vault = Plain(0) /\ marker = NoMarker
          /\ candidate = NoFile /\ rollback = NoFile
       \/ /\ Earlier /\ rollback = Encrypted(0)
          /\ \/ /\ vault = Plain(0) /\ candidate = Encrypted(0)
                /\ marker = NewMarker(0, Unattributed)
             \/ /\ vault = Encrypted(0) /\ candidate = Plain(0)
                /\ marker = [NewMarker(0, Unattributed) EXCEPT !.phase = "swapped"]
    /\ audits = 0 /\ journal = FALSE /\ retained = NoFile
    /\ place \in [Artifacts -> {"absent", "here"}]
    /\ pc = "idle" /\ asked = NotAsked /\ policy = Unattributed
    /\ decided = {} /\ todo = {} /\ newest = 0 /\ bound = {} /\ crashes = 0

\* The owner chooses what becomes of the plaintext and is shown what there is.
Begin ==
    /\ pc = "idle" /\ asked = NotAsked /\ Eligible
    /\ asked' \in {Snapshot(p) : p \in Policies}
    /\ UNCHANGED <<database, files, marker, pc, policy, decided, todo, env, bound>>

Approve ==
    /\ pc = "idle" /\ asked # NotAsked /\ asked = Snapshot(asked.policy)
    /\ policy' = asked.policy /\ decided' = asked.artifacts
    /\ bound' = IF At({"cleanup_complete"}) THEN bound ELSE bound \cup asked.artifacts
    /\ asked' = NotAsked
    /\ pc' = "start"
    /\ UNCHANGED <<database, files, marker, todo, env>>

\* The owner declines or does not answer, or what was shown is not what there is.
Reject ==
    /\ pc = "idle" /\ asked # NotAsked
    /\ asked' = NotAsked
    /\ UNCHANGED <<database, files, marker, pc, policy, decided, todo, env, bound>>

\* The worker is gone, by a crash or because it exits after a step that failed.
Down == pc' = "down" /\ asked' = NotAsked /\ todo' = {}

Doing(here, next) == pc = here /\ pc' = next /\ UNCHANGED <<owner, env, bound>>
Keep == UNCHANGED <<database, retained, place, todo>>

-----------------------------------------------------------------------------
\* Mutant: a resume follows the decision it is given, not the one it began with.
Agrees_Always == TRUE

\* Mutant: a decision that was not recorded is not adopted.
Agrees_Strict == marker.policy = policy

\* The first decision stays the decision; one that was not recorded is adopted.
Agrees == marker.policy \in {Unattributed, policy}

\* The displaced plaintext is to go to another place, and a file is there that this
\* migration has not put there.
Taken ==
    /\ policy.live = "move" /\ retained # NoFile
    /\ ~ (/\ At({"swapped"})
          /\ \/ candidate = NoFile /\ retained = Plain(marker.notes)
             \/ candidate = retained)

\* Every artifact found now was shown to the owner.
Decided == Here \subseteq decided

Startable ==
    /\ Decided /\ ~Taken
    /\ At(Phases) => Agrees
    /\ At({"cleanup_complete"}) => candidate = NoFile /\ Verified(vault)

\* Where a migration goes on, by the phase of its marker.
Started == CASE At({"none"}) -> "remove"
             [] At({"candidate_verified"}) -> "exchange"
             [] At({"swapped"}) -> "displaced"
             [] At({"cleanup_complete"}) -> "open"

Start ==
    /\ pc = "start" /\ Startable
    /\ pc' = Started
    /\ marker' = IF At(Phases) THEN [marker EXCEPT !.policy = policy] ELSE marker
    /\ todo' = IF At({"cleanup_complete"}) THEN {} ELSE Here
    /\ UNCHANGED <<database, files, owner, env, bound>>

-----------------------------------------------------------------------------
\* removeUnpublishedGeneratedFile, for the candidate and for the rollback copy.
Remove ==
    /\ Doing("remove", "candidate")
    /\ candidate' = NoFile /\ rollback' = NoFile
    /\ UNCHANGED marker /\ Keep

CreateCandidate ==
    /\ Doing("candidate", "rollback")
    /\ candidate' = Encrypted(vault.notes)
    /\ UNCHANGED <<rollback, marker>> /\ Keep

CreateRollback ==
    /\ Doing("rollback", "settle")
    /\ rollback' = candidate
    /\ UNCHANGED <<candidate, marker>> /\ Keep

\* preparePlaintextForExchange: the source still has what was copied from it.
Settle ==
    /\ Doing("settle", "mark") /\ vault.notes = candidate.notes
    /\ UNCHANGED <<candidate, rollback, marker>> /\ Keep

\* The digest is that of the notes that were copied.
Written == NewMarker(candidate.notes, policy)
WriteMarker ==
    /\ Doing("mark", "exchange")
    /\ marker' = Written
    /\ UNCHANGED <<candidate, rollback>> /\ Keep

-----------------------------------------------------------------------------
\* Mutant: a candidate that is not of the notes as they are is exchanged.
Current_Assumed == TRUE

\* The notes are those the candidate was made from.
Current == vault.notes = marker.notes

\* atomicExchangeFiles.  The comparison just before it is part of the step.
Exchange ==
    /\ Doing("exchange", "swapped")
    /\ ~vault.encrypted /\ Current /\ Verified(candidate)
    /\ vault' = candidate /\ candidate' = vault
    /\ UNCHANGED <<audits, journal, rollback, retained, place, marker, todo>>

\* A crash came between the exchange and its marker.
Exchanged ==
    /\ Doing("exchange", "swapped") /\ Verified(vault)
    /\ UNCHANGED <<candidate, rollback, marker>> /\ Keep

\* The notes were changed since: the copies go, the marker goes, and it starts again.
Discard ==
    /\ Doing("exchange", "discard-rollback")
    /\ ~vault.encrypted /\ ~Current /\ candidate # NoFile
    /\ candidate' = NoFile
    /\ UNCHANGED <<rollback, marker>> /\ Keep

DiscardRollback ==
    /\ Doing("discard-rollback", "discard-marker") /\ rollback # NoFile
    /\ rollback' = NoFile
    /\ UNCHANGED <<candidate, marker>> /\ Keep

DiscardMarker ==
    /\ Doing("discard-marker", "start")
    /\ marker' = NoMarker
    /\ UNCHANGED <<candidate, rollback>> /\ Keep

MarkSwapped ==
    /\ Doing("swapped", "displaced")
    /\ marker' = [marker EXCEPT !.phase = "swapped"]
    /\ UNCHANGED <<candidate, rollback>> /\ Keep

\* What cannot go on: the worker exits, and the owner may ask again.
Stuck ==
    \/ pc = "start" /\ ~Startable
    \/ pc = "settle" /\ vault.notes # candidate.notes
    \/ /\ pc = "exchange" /\ candidate = NoFile
       /\ ~vault.encrypted
Fails ==
    /\ Stuck /\ Down
    /\ UNCHANGED <<database, files, marker, policy, decided, env, bound>>

-----------------------------------------------------------------------------
\* The displaced plaintext: deleted, kept, or moved, by a copy if it goes to another
\* volume.
DeleteDisplaced ==
    /\ Doing("displaced", "artifacts")
    /\ policy.live = "delete"
    /\ candidate' = NoFile
    /\ UNCHANGED <<rollback, marker>> /\ Keep

CopyDisplaced ==
    /\ Doing("displaced", "displaced")
    /\ policy.live = "move" /\ candidate # NoFile /\ retained = NoFile
    /\ retained' = candidate
    /\ UNCHANGED <<database, candidate, rollback, place, marker, todo>>

MoveDisplaced ==
    /\ Doing("displaced", "artifacts")
    /\ policy.live # "delete"
    /\ retained' = IF candidate # NoFile THEN candidate ELSE retained
    /\ candidate' = NoFile
    /\ UNCHANGED <<database, rollback, place, marker, todo>>

Outcome(decision) == CASE decision = "keep" -> "here"
                       [] decision = "delete" -> "gone"
                       [] decision = "move" -> "moved"

DealWith(a) ==
    /\ pc = "artifacts" /\ a \in todo
    /\ \/ place' = [place EXCEPT ![a] = Outcome(policy.artifacts)] /\ todo' = todo \ {a}
       \/ /\ policy.artifacts = "move" /\ place[a] = "here"
          /\ place' = [place EXCEPT ![a] = "both"] /\ UNCHANGED todo
    /\ UNCHANGED <<database, candidate, rollback, retained, marker, pc, owner, env, bound>>

Completed == [marker EXCEPT !.phase = "cleanup_complete",
                            !.retained = policy.live # "delete" /\ retained # NoFile]
Complete ==
    /\ Doing("artifacts", "open") /\ todo = {}
    /\ marker' = Completed
    /\ UNCHANGED <<candidate, rollback>> /\ Keep

-----------------------------------------------------------------------------
Open ==
    /\ Doing("open", "audit")
    /\ journal' = FALSE
    /\ UNCHANGED <<vault, audits, files, marker, todo>>

Audit ==
    /\ Doing("audit", "finalize")
    /\ audits' = audits + 1
    /\ UNCHANGED <<vault, journal, files, marker, todo>>

Finalize ==
    /\ Doing("finalize", "idle")
    /\ marker' = NoMarker
    /\ UNCHANGED <<candidate, rollback>> /\ Keep

Boot ==
    /\ pc = "down"
    /\ pc' = "idle"
    /\ UNCHANGED <<database, files, marker, owner, todo, env, bound>>

\* A commit that a crash cuts short leaves a journal.
Crash ==
    /\ pc # "down" /\ crashes < MaxCrashes
    /\ crashes' = crashes + 1
    /\ Down
    /\ \/ UNCHANGED journal
       \/ TornCommits /\ pc \in {"open", "audit"} /\ journal' = TRUE
    /\ UNCHANGED <<vault, audits, files, marker, policy, decided, newest, bound>>

\* A program of before the migration changes the notes.  The worker's lock keeps it
\* out of the exchange.
Edit ==
    /\ ~vault.encrypted /\ newest < MaxEdits
    /\ vault' = Plain(newest + 1) /\ newest' = newest + 1
    /\ UNCHANGED <<audits, journal, files, marker, pc, owner, todo, crashes, bound>>

\* A backup is copied back to where it is found.
Appear ==
    /\ \E a \in Artifacts : place[a] = "absent" /\ place' = [place EXCEPT ![a] = "here"]
    /\ UNCHANGED <<database, candidate, rollback, retained, marker, pc, owner, todo,
                   env, bound>>

-----------------------------------------------------------------------------
Making == Remove \/ CreateCandidate \/ CreateRollback \/ Settle \/ WriteMarker
Exchanging == Exchange \/ Exchanged \/ Discard \/ DiscardRollback \/ DiscardMarker
                 \/ MarkSwapped
Cleaning == DeleteDisplaced \/ CopyDisplaced \/ MoveDisplaced
               \/ (\E a \in Artifacts : DealWith(a)) \/ Complete
Migrate == Start \/ Fails \/ Making \/ Exchanging \/ Cleaning
              \/ Open \/ Audit \/ Finalize

Next == Begin \/ Approve \/ Reject \/ Migrate \/ Boot \/ Crash \/ Edit \/ Appear

Spec == Init /\ [][Next]_vars

\* The worker finishes what it does and is started again when it is gone; the owner
\* asks again after every interruption, and in the end agrees to what was decided.
FairSpec ==
    /\ Spec /\ WF_vars(Migrate) /\ WF_vars(Boot)
    /\ WF_vars(Begin) /\ WF_vars(Reject)
    /\ SF_vars(Begin /\ (At(Phases) => marker.policy \in {Unattributed, asked'.policy}))
    /\ SF_vars(Approve /\ (At(Phases) => marker.policy \in {Unattributed, policy'}))

-----------------------------------------------------------------------------
\* The state the variables can be in.
TypeOK ==
    /\ vault \in File /\ audits \in Nat /\ journal \in BOOLEAN
    /\ {candidate, rollback, retained} \subseteq File \cup {NoFile}
    /\ place \in [Artifacts -> {"absent", "here", "both", "moved", "gone"}]
    /\ marker \in Marker \cup {NoMarker}
    /\ policy \in Policies \cup {Unattributed}
    /\ decided \cup todo \cup bound \subseteq Artifacts

Finished == At({"none"}) /\ vault.encrypted

\* The vault holds the newest notes at every moment, whatever was interrupted, changed
\* or exchanged; and once it is encrypted the rollback copy holds them as well.
NotesAreKept ==
    /\ TypeOK
    /\ vault.notes = newest
    /\ vault.encrypted => rollback = Encrypted(newest)

\* When the migration is over, the displaced plaintext is what the owner decided last,
\* and so is every backup that was shown to the owner before the clean-up was over.
\* It is in the vault's audit.
AsDecided ==
    Finished =>
        /\ candidate = NoFile
        /\ retained = IF policy.live = "delete" THEN NoFile ELSE Plain(newest)
        /\ \A a \in bound : place[a] = Outcome(policy.artifacts)
        /\ audits >= 1

\* An interrupted migration can be resumed until it is over.
Resumes == At(Phases) ~> Finished

\* What keeps a migration from going on: a commit cut short, an outdated candidate
\* removed without its marker, or a moved plaintext found again at its place.
Hindered ==
    \/ journal
    \/ At({"candidate_verified"}) /\ ~vault.encrypted /\ candidate = NoFile
    \/ At({"cleanup_complete"}) /\ policy.live = "move" /\ retained # NoFile

\* An interrupted migration can be resumed until it is over, unless it stays hindered.
ResumesUnhindered == <>[]~Hindered => Resumes
=============================================================================
