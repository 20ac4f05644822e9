---------------------------- MODULE CleanRestore ----------------------------
(***************************************************************************)
(* The restore of an export into a clean encrypted vault, and its recovery *)
(* after a crash (encrypted-vault-restore.ts, SqliteMemory.                *)
(* restoreInterchange and #executeApprovedRecoveryRestore).                *)
(*                                                                         *)
(* Each step below ends with a change that outlives the process, so that a *)
(* crash may come between any two.  What is on disk is the marker, which   *)
(* says how far the restore has come; the vault; the baseline, a copy of   *)
(* the candidate as it was verified; the seal, a second link to the vault  *)
(* once its audit is in it; the workspace and the staging copy.            *)
(*                                                                         *)
(* A digest is the content it is of.  Files of a restore have random       *)
(* names: here the number of the attempt that made them.                   *)
(***************************************************************************)
EXTENDS Naturals, FiniteSets

CONSTANTS
    Sources,     \* what the export may hold
    NoSource,
    Strangers,   \* another program may put a vault of its own at the path
    TornCommits, \* a crash may come inside a commit, and leave its journal
    MaxAttempts, \* bound: candidates made
    MaxCrashes,  \* bound
    MaxEdits     \* bound: changes of the export

ASSUME ConstantsAssumption ==
    /\ NoSource \notin Sources /\ Sources # {}
    /\ Strangers \in BOOLEAN /\ TornCommits \in BOOLEAN
    /\ MaxAttempts \in Nat /\ MaxCrashes \in Nat /\ MaxEdits \in Nat

VARIABLES
    source,   \* what the export holds
    marker,   \* the recovery marker
    vault,    \* what is at the vault's path
    journal,  \* a rollback journal beside it that has not been played back
    temps, bases, seals,  \* the workspaces, baselines and seals on disk
    stage,    \* the staging copy is on disk
    pc,       \* what the worker does next
    asked,    \* the snapshot the owner was shown, while a prompt is pending
    target,   \* the export the owner approved last
    work,     \* the export the candidate was made from
    attempt, crashes, edits  \* counters for the bounds

files == <<temps, bases, seals, stage>>
env == <<source, crashes, edits>>
vars == <<env, marker, vault, journal, files, pc, asked, target, work, attempt>>

-----------------------------------------------------------------------------
\* The content of a vault: the export, the attempt, whether it has been opened, and
\* the successful restores in its audit.
Content == [src : Sources, of : 1..MaxAttempts, opened : BOOLEAN, audits : 0..MaxCrashes + 1]
NoVault == [src |-> NoSource, of |-> 0, opened |-> FALSE, audits |-> 0]
Stranger == [NoVault EXCEPT !.opened = TRUE]

Early == {"prepared"}
Middle == {"candidate_verified", "published"}
Sealed == {"audited", "finalizing"}
NoMarker == [phase |-> "none"]
Marker == [phase : Early \cup Middle \cup Sealed, src : Sources, of : 1..MaxAttempts,
           candidate : Content \cup {NoVault}, final : Content \cup {NoVault}, seal : BOOLEAN]
At(phases) == marker.phase \in phases

\* verifyEncryptedRestore opens the file read-only: it cannot play a journal back.
Verified(c) == ~journal /\ c.src = marker.src

\* cleanVaultRestoreApprovalSnapshot: what it refuses.
Acceptable ==
    /\ At({"none"}) => vault = NoVault
    /\ ~At({"none"}) => marker.src = source
    /\ At(Early) => vault = NoVault
    /\ At({"candidate_verified"}) => vault \in {NoVault, marker.candidate}
    /\ At(Middle \cup {"audited"}) => marker.of \in bases
    /\ At(Sealed) => vault = marker.final
Snapshot == [src |-> source, marker |-> marker, vault |-> vault]
NotAsked == [src |-> NoSource]

-----------------------------------------------------------------------------
Init ==
    /\ source \in Sources
    /\ marker = NoMarker /\ vault = NoVault /\ journal = FALSE
    /\ temps = {} /\ bases = {} /\ seals = {} /\ stage = FALSE
    /\ pc = "idle" /\ asked = NotAsked /\ target = NoSource /\ work = NoSource
    /\ attempt = 0 /\ crashes = 0 /\ edits = 0

\* What a reading of the export finds: it is refused if the file was being changed.
StableRead == source

\* The owner asks for the restore, and asks again after every interruption.
Begin ==
    /\ pc = "idle" /\ asked = NotAsked /\ Acceptable
    /\ asked' = Snapshot
    /\ UNCHANGED <<env, marker, vault, journal, files, pc, target, work, attempt>>

\* Mutant: a published restore goes on where it was, on a vault that was opened.
Resumed_Published == IF At({"none"} \cup Early) THEN "prepare"
                     ELSE IF At({"published"}) THEN "open"
                     ELSE IF At(Middle) THEN "rebase" ELSE "finalize"

\* Where a restore goes on, by the phase of its marker.
Resumed == IF At({"none"} \cup Early) THEN "prepare"
           ELSE IF At(Middle) THEN "rebase" ELSE "finalize"

Approve ==
    /\ pc = "idle" /\ asked = Snapshot /\ Acceptable
    /\ asked' = NotAsked
    /\ target' = StableRead
    /\ At(Sealed) => Verified(vault)
    /\ pc' = Resumed
    /\ UNCHANGED <<env, marker, vault, journal, files, work, attempt>>

\* The owner declines or does not answer, or what was shown is not what there is.
Reject ==
    /\ pc = "idle" /\ asked # NotAsked
    /\ asked' = NotAsked
    /\ UNCHANGED <<env, marker, vault, journal, files, pc, target, work, attempt>>

\* The worker is gone, by a crash or because it exits after a step that failed.
Down == pc' = "down" /\ asked' = NotAsked /\ work' = NoSource

Doing(here, next) == pc = here /\ pc' = next /\ UNCHANGED <<env, asked, target>>
Keep == UNCHANGED <<journal, work, attempt>>

-----------------------------------------------------------------------------
\* Mutant: the baseline of an earlier attempt stays.
Cleaned_TempOnly == /\ temps' = temps \ {marker.of} /\ UNCHANGED bases

\* A new candidate.  First what an earlier attempt left goes.
Cleaned == /\ temps' = temps \ {marker.of}
           /\ bases' = bases \ {marker.of}
Prepare ==
    /\ Doing("prepare", "mark")
    /\ IF At(Early) THEN Cleaned ELSE UNCHANGED <<temps, bases>>
    /\ UNCHANGED <<marker, vault, seals, stage>> /\ Keep

Mark ==
    /\ Doing("mark", "import") /\ attempt < MaxAttempts
    /\ attempt' = attempt + 1
    /\ marker' = [phase |-> "prepared", src |-> target, of |-> attempt + 1,
                  candidate |-> NoVault, final |-> NoVault, seal |-> FALSE]
    /\ UNCHANGED <<vault, files, journal, work>>

\* The export is read again.
Import ==
    /\ Doing("import", "verify") /\ vault = NoVault
    /\ temps' = temps \cup {marker.of}
    /\ work' = StableRead
    /\ UNCHANGED <<marker, vault, bases, seals, stage, journal, attempt>>

\* The candidate has the payload that was approved, the export still has it, and
\* nothing is at the path.
Candidate == [src |-> work, of |-> marker.of, opened |-> FALSE, audits |-> 0]
Imported == StableRead = target /\ Verified(Candidate) /\ vault = NoVault
CopyBaseline ==
    /\ Doing("verify", "accept") /\ Imported
    /\ bases' = bases \cup {marker.of}
    /\ UNCHANGED <<marker, vault, temps, seals, stage>> /\ Keep

Accepted(c) == [marker EXCEPT !.phase = "candidate_verified", !.candidate = c]
Accept ==
    /\ Doing("accept", "link")
    /\ marker' = Accepted(Candidate)
    /\ UNCHANGED <<vault, files>> /\ Keep

\* linkSync does not replace a file.
Link ==
    /\ Doing("link", "tidy") /\ vault = NoVault
    /\ vault' = marker.candidate
    /\ UNCHANGED <<marker, files>> /\ Keep

\* A failed import removes its workspace.
ImportFails ==
    /\ \/ pc \in {"import", "link"} /\ vault # NoVault
       \/ pc = "verify" /\ ~Imported
    /\ temps' = temps \ {marker.of}
    /\ Down
    /\ UNCHANGED <<env, marker, vault, journal, bases, seals, stage, target, attempt>>

Tidy ==
    /\ Doing("tidy", "publish")
    /\ temps' = temps \ {marker.of}
    /\ UNCHANGED <<marker, vault, bases, seals, stage>> /\ Keep

Publish ==
    /\ Doing("publish", "open")
    /\ marker' = [marker EXCEPT !.phase = "published", !.final = NoVault, !.seal = FALSE]
    /\ UNCHANGED <<vault, files>> /\ Keep

-----------------------------------------------------------------------------
\* Mutant: whatever is at the path is taken for the published candidate.
Safe_Always == TRUE

\* A published candidate may have been opened since: the restore goes back to the
\* baseline, if what is at the path comes from it.
Safe == vault \in {NoVault, marker.candidate} \/ Verified(vault)

Rebase ==
    /\ Doing("rebase", "stage") /\ Safe
    /\ seals' = IF marker.seal THEN seals \ {marker.of} ELSE seals
    /\ UNCHANGED <<marker, vault, temps, bases, stage>> /\ Keep

Stage ==
    /\ Doing("stage", "swap")
    /\ stage' = TRUE
    /\ UNCHANGED <<marker, vault, temps, bases, seals>> /\ Keep

Swap ==
    /\ Doing("swap", "settle")
    /\ vault' = marker.candidate /\ stage' = FALSE
    /\ UNCHANGED <<marker, temps, bases, seals>> /\ Keep

Settle ==
    /\ Doing("settle", "publish") /\ Verified(vault)
    /\ temps' = temps \ {marker.of}
    /\ UNCHANGED <<marker, vault, bases, seals, stage>> /\ Keep

RebaseFails ==
    /\ \/ pc = "rebase" /\ ~Safe
       \/ pc = "settle" /\ ~Verified(vault)
    /\ Down
    /\ UNCHANGED <<env, marker, vault, journal, files, target, attempt>>

-----------------------------------------------------------------------------
\* The vault is opened in this boot, the restore is audited, the vault is closed.
Open ==
    /\ Doing("open", "audit")
    /\ vault' = [vault EXCEPT !.opened = TRUE] /\ journal' = FALSE
    /\ UNCHANGED <<marker, files, work, attempt>>

Audit ==
    /\ Doing("audit", "seal")
    /\ vault' = [vault EXCEPT !.audits = @ + 1]
    /\ UNCHANGED <<marker, files>> /\ Keep

\* The marker names the seal before there is one.
Named == [marker EXCEPT !.seal = TRUE]
NameSeal ==
    /\ Doing("seal", "link-seal")
    /\ marker' = Named
    /\ UNCHANGED <<vault, files>> /\ Keep

LinkSeal ==
    /\ Doing("link-seal", "check")
    /\ seals' = seals \cup {marker.of}
    /\ UNCHANGED <<marker, vault, temps, bases, stage>> /\ Keep

\* One successful restore is in the audit of what is sealed.
Check ==
    /\ Doing("check", "finalize")
    /\ Verified(vault) /\ vault.audits = 1
    /\ temps' = temps \ {marker.of}
    /\ marker' = [marker EXCEPT !.phase = "audited", !.final = vault]
    /\ UNCHANGED <<vault, bases, seals, stage>> /\ Keep

-----------------------------------------------------------------------------
\* The files of the restore go one by one, the marker last.
Finalize ==
    /\ Doing("finalize", "drop-baseline")
    /\ vault = marker.final /\ At({"audited"}) => marker.of \in bases
    /\ marker' = [marker EXCEPT !.phase = "finalizing"]
    /\ UNCHANGED <<vault, files>> /\ Keep

DropBaseline ==
    /\ Doing("drop-baseline", "drop-seal")
    /\ bases' = bases \ {marker.of}
    /\ UNCHANGED <<marker, vault, temps, seals, stage>> /\ Keep

DropSeal ==
    /\ Doing("drop-seal", "drop-marker")
    /\ seals' = seals \ {marker.of}
    /\ UNCHANGED <<marker, vault, temps, bases, stage>> /\ Keep

DropMarker ==
    /\ Doing("drop-marker", "reopen") /\ vault = marker.final
    /\ marker' = NoMarker
    /\ UNCHANGED <<vault, files>> /\ Keep

Reopen ==
    /\ Doing("reopen", "idle")
    /\ UNCHANGED <<marker, vault, files>> /\ Keep

-----------------------------------------------------------------------------
Start == /\ pc = "down"
         /\ pc' = "idle"
         /\ UNCHANGED <<env, marker, vault, journal, files, asked, target, work, attempt>>

\* A commit that a crash cuts short may have written part of the vault.
Crash ==
    /\ pc # "down" /\ crashes < MaxCrashes
    /\ crashes' = crashes + 1
    /\ Down
    /\ \/ UNCHANGED <<vault, journal>>
       \/ /\ TornCommits /\ pc \in {"open", "audit"}
          /\ journal' = TRUE
          /\ vault' \in {vault, [vault EXCEPT !.opened = TRUE]}
    /\ UNCHANGED <<source, edits, marker, files, target, attempt>>

Edit == /\ edits < MaxEdits /\ edits' = edits + 1
        /\ source' \in Sources \ {source}
        /\ UNCHANGED <<marker, vault, journal, files, pc, asked, target, work, attempt, crashes>>

\* Another program puts its vault where the restore's is, between two requests, or
\* will be.
Intrude == /\ Strangers /\ vault # Stranger /\ ~At({"none"})
           /\ pc \in {"idle", "down", "import", "verify", "accept", "link"}
           /\ vault' = Stranger /\ journal' = FALSE
           /\ UNCHANGED <<env, marker, files, pc, asked, target, work, attempt>>

-----------------------------------------------------------------------------
Making == Prepare \/ Mark \/ Import \/ CopyBaseline \/ Accept \/ Link \/ ImportFails
             \/ Tidy \/ Publish
Rebasing == Rebase \/ Stage \/ Swap \/ Settle \/ RebaseFails
Sealing == Open \/ Audit \/ NameSeal \/ LinkSeal \/ Check
Finishing == Finalize \/ DropBaseline \/ DropSeal \/ DropMarker \/ Reopen
Restore == Making \/ Rebasing \/ Sealing \/ Finishing

Next == Begin \/ Approve \/ Reject \/ Restore \/ Start
           \/ Crash \/ Edit \/ Intrude

Spec == Init /\ [][Next]_vars

\* The worker finishes what it does and is started again when it is gone; the owner
\* asks again after every interruption and agrees in the end.
FairSpec == Spec /\ WF_vars(Restore) /\ WF_vars(Start)
                 /\ WF_vars(Begin) /\ SF_vars(Approve) /\ WF_vars(Reject)

-----------------------------------------------------------------------------
\* The state the variables can be in; a marker is one readRestoreMarker takes.
TypeOK ==
    /\ source \in Sources
    /\ marker \in Marker \cup {NoMarker}
    /\ ~At({"none"}) => /\ At(Early) <=> marker.candidate = NoVault
                        /\ At(Sealed) <=> marker.final # NoVault
                        /\ At(Sealed) => marker.seal
    /\ vault \in Content \cup {NoVault, Stranger}
    /\ journal \in BOOLEAN /\ stage \in BOOLEAN
    /\ temps \cup bases \cup seals \subseteq 1..MaxAttempts
    /\ target \in Sources \cup {NoSource} /\ work \in Sources \cup {NoSource}

\* When the restore is over, whatever was interrupted on the way, the vault it left
\* holds the export the owner approved and the audit of one restore, and no workspace,
\* baseline, seal or staging copy is left beside it.
FinishedAsApproved ==
    /\ TypeOK
    /\ At({"none"}) => temps = {} /\ bases = {} /\ seals = {} /\ ~stage
    /\ At({"none"}) /\ vault \notin {NoVault, Stranger} =>
        /\ vault.src = target
        /\ vault.audits = 1

\* The restore never replaces a vault that is not its own.
StrangerIsKept == [][vault = Stranger => vault' = Stranger]_vars

\* Seen from the vault's path, every step of a restore, its interruptions and its
\* recovery is one that a single restore of the approved export may take: whatever is
\* done again is of that export, it ends once with one audit, and no vault but its own
\* is ever replaced (restoreCleanEncryptedVault, assertPublishedDestinationSafe).
Whose == IF vault = NoVault THEN "nothing" ELSE IF vault = Stranger THEN "theirs" ELSE "ours"
Once == INSTANCE OneRestore WITH
    approved <- target,
    working <- ~At({"none"}),
    there <- Whose,
    content <- vault.src,
    audits <- vault.audits
RestoresOnce == Once!Spec

\* An interrupted restore can be resumed until it is over.
Resumes == ~At({"none"}) ~> At({"none"})

\* What keeps a restore from going on: a commit cut short, another program's vault, or
\* an export that is not the one the owner approved.
Hindered == ~At({"none"}) /\ (journal \/ vault = Stranger \/ source # marker.src)

\* An interrupted restore can be resumed until it is over, unless it stays hindered.
ResumesUnhindered == <>[]~Hindered => Resumes
=============================================================================
