------------------------------ MODULE VaultFiles ------------------------------
(* The files the worker makes beside an encrypted vault: the backup it takes *)
(* before it upgrades the schema of the notes (note-database.ts), and the    *)
(* exports the owner approves (exclusive-export.ts, interchange.ts,          *)
(* markdown-export.ts, the handlers of vault-broker-worker.ts).              *)
(* Both run to their end within one request.  What comes between two steps   *)
(* is the death of the process, an error of the file system, or another      *)
(* program; and the next worker may be of another build, older or newer.     *)
EXTENDS Naturals, Sequences

CONSTANTS
  Builds,       \* builds that may be installed: the newest schema each knows
  First,        \* schema of a vault that is there at the start
  Salts,        \* bound on the encrypted copies of one content
  Dests,        \* destinations of exports
  MaxEdits,     \* bound on the changes of the notes
  MaxExports,   \* bound on the exports
  MaxFaults     \* bound on deaths, errors and damaged files together

ASSUME BuildsAssumption ==
  /\ Builds \subseteq Nat \ {0} /\ First \in Builds
  /\ \E b \in Builds : \A c \in Builds : c <= b       \* one of them is the newest
  /\ MaxEdits \in Nat /\ MaxExports \in Nat /\ MaxFaults \in Nat
  /\ Salts \in Nat /\ Salts > MaxFaults      \* a fault, and there is one copy more

VARIABLES
  encrypted,    \* whether the worker was given a key (never so in development)
  vault,        \* user_version, and the notes: a number that grows when they change
  backups,      \* the published backups: intact, torn, or not there
  pc,           \* what the worker does next
  build,        \* the build it is of
  from,         \* currentVersion, read once when the vault is opened
  copy,         \* the backup that is being made
  files,        \* what is at the destinations
  export,       \* the export being made: an event of the log
  log,          \* broker_audit_events of exports
  faults

upgrade == <<from, copy>>
exports == <<files, export, log>>
vars == <<encrypted, vault, backups, pc, build, upgrade, exports, faults>>

Newest == CHOOSE b \in Builds : \A c \in Builds : c <= b
Versions == 0..Newest
Vaults == [version : Versions, notes : 0..MaxEdits]

\* A backup is named for the version and the digest of the file.  Two copies of
\* one content are the same file, unless they are encrypted: each has its salt.
Names == [version : 1..Newest, notes : 0..MaxEdits, salt : 0..Salts]
Name(c) == [version |-> c.version, notes |-> c.notes, salt |-> c.salt]
NoCopy == [version |-> 0, notes |-> 0, salt |-> 0, whole |-> FALSE]
Named(salt) == [version |-> vault.version, notes |-> vault.notes, salt |-> salt]
Fresh(salt) ==
  IF ~encrypted THEN salt = 0
  ELSE salt > 0 /\ \A s \in 1..salt : backups[Named(s)] = "none" <=> s = salt
Formats == {"json", "markdown"}
Absent == [by |-> "nobody", format |-> "none", notes |-> 0, event |-> 0]
Foreign == [Absent EXCEPT !.by = "another"]
Outcomes == {"authorized", "success", "error"}
Opening == {"copy", "place", "recheck", "upgrade"}
Exporting == {"digest", "write", "link", "record"}

Copies == [version : Versions, notes : 0..MaxEdits, salt : 0..Salts, whole : BOOLEAN]
Files == [by : {"nobody", "another", "owner"}, format : Formats \cup {"none"},
          notes : 0..MaxEdits, event : 0..MaxExports]
Events == [dest : Dests, format : Formats, outcome : Outcomes]

TypeOK ==
  /\ encrypted \in BOOLEAN /\ vault \in Vaults /\ from \in Versions
  /\ backups \in [Names -> {"none", "whole", "torn"}]
  /\ pc \in {"down", "serving"} \cup Opening \cup Exporting /\ build \in Builds
  /\ copy \in Copies /\ files \in [Dests -> Files]
  /\ log \in Seq(Events) /\ Len(log) <= MaxExports
  /\ export \in 0..MaxExports /\ faults \in 0..MaxFaults

Init ==
  /\ encrypted \in BOOLEAN
  /\ vault \in {[version |-> v, notes |-> 0] : v \in {0, First}}
  /\ backups = [n \in Names |-> "none"]
  /\ pc = "down" /\ build = Newest /\ from = 0 /\ copy = NoCopy
  /\ files = [d \in Dests |-> Absent] /\ export = 0 /\ log = <<>>
  /\ faults = 0

Fault == faults < MaxFaults /\ faults' = faults + 1
Down == pc' = "down" /\ copy' = NoCopy /\ export' = 0

-------------------------------------------------------------------------------
(* Opening the vault: migrateNoteSchema.                                     *)

\* Bug: one backup of a version is enough.
NeedsBackup_Once(b) ==
  vault.version \in 1..(b - 1) /\ \A n \in Names : n.version = vault.version => backups[n] = "none"

\* An old vault that holds something is copied before it is changed.
NeedsBackup(b) == vault.version \in 1..(b - 1)

\* A build opens no vault whose schema is newer than it knows.
Open(b) ==
  /\ pc = "down" /\ vault.version <= b /\ build' = b
  /\ from' = vault.version
  /\ pc' = IF NeedsBackup(b) THEN "copy"
           ELSE IF vault.version < b THEN "upgrade" ELSE "serving"
  /\ UNCHANGED <<encrypted, vault, backups, copy, exports, faults>>

\* The copy, by the database's own means; it may come out damaged.
Copy ==
  /\ pc = "copy" /\ pc' = "place"
  /\ \E salt \in 0..Salts, whole \in BOOLEAN :
       /\ Fresh(salt) /\ copy' = [version |-> vault.version, notes |-> vault.notes,
                                  salt |-> salt, whole |-> whole]
       /\ IF whole THEN UNCHANGED faults ELSE Fault
  /\ UNCHANGED <<encrypted, vault, backups, build, from, exports>>

\* assertMigrationBackup: it opens, at the version, and its pages are sound.
Sound(c) == c.whole /\ c.version = from

\* The copy is verified and renamed to a name made of its digest.
Place ==
  /\ pc = "place" /\ Sound(copy) /\ backups[Name(copy)] = "none"
  /\ backups' = [backups EXCEPT ![Name(copy)] = "whole"] /\ pc' = "recheck"
  /\ UNCHANGED <<encrypted, vault, build, upgrade, exports, faults>>

\* Bug: the name is taken, so that the copy cannot be placed.
Reusable_Never == FALSE

\* A file that is there under that name is used when it holds what the name says.
Reusable == backups[Name(copy)] = "whole"

Reuse ==
  /\ pc = "place" /\ Sound(copy) /\ Reusable
  /\ copy' = NoCopy /\ pc' = "upgrade"
  /\ UNCHANGED <<encrypted, vault, backups, build, from, exports, faults>>

\* The copy is not sound, or what has its name is not: the vault is not opened.
NotPlaced ==
  /\ pc = "place"
  /\ ~Sound(copy) \/ (backups[Name(copy)] # "none" /\ ~Reusable)
  /\ Down
  /\ UNCHANGED <<encrypted, vault, backups, build, from, files, log, faults>>

\* The backup is verified once more where it is, and removed if that fails.
Recheck ==
  /\ pc = "recheck"
  /\ \/ pc' = "upgrade" /\ copy' = NoCopy /\ UNCHANGED <<backups, export, faults>>
     \/ backups' = [backups EXCEPT ![Name(copy)] = "none"] /\ Fault /\ Down
  /\ UNCHANGED <<encrypted, vault, build, from, files, log>>

\* Each version is one transaction over the notes and the number.
Upgrade ==
  /\ pc = "upgrade" /\ vault' = [vault EXCEPT !.version = @ + 1]
  /\ pc' = IF vault.version + 1 = build THEN "serving" ELSE "upgrade"
  /\ UNCHANGED <<encrypted, backups, build, upgrade, exports, faults>>

\* The death of the process, or an error that ends the request: the opening is
\* given up, an export is left as it is, and another build may be installed.
Dies ==
  /\ pc # "down" /\ Fault /\ Down
  /\ UNCHANGED <<encrypted, vault, backups, build, from, files, log>>

-------------------------------------------------------------------------------
(* Serving.                                                                  *)
Edit ==
  /\ pc = "serving" /\ vault.notes < MaxEdits /\ vault' = [vault EXCEPT !.notes = @ + 1]
  /\ UNCHANGED <<encrypted, backups, pc, build, upgrade, exports, faults>>

Stop ==
  /\ pc = "serving" /\ Down
  /\ UNCHANGED <<encrypted, vault, backups, build, from, files, log, faults>>

\* The owner agreed to an export to d: executeNativeOwnerAdmin logs it first.
Agree(d, format) ==
  /\ pc = "serving" /\ Len(log) < MaxExports
  /\ log' = Append(log, [dest |-> d, format |-> format, outcome |-> "authorized"])
  /\ export' = Len(log) + 1 /\ pc' = IF format = "json" THEN "digest" ELSE "write"
  /\ UNCHANGED <<encrypted, vault, backups, build, upgrade, files, faults>>

Dest == log[export].dest

\* What is exported is read within one transaction: the notes with all their
\* revisions, or as they are now.
Interchange == [by |-> "owner", format |-> "json", notes |-> vault.notes, event |-> export]
Markdown == [by |-> "owner", format |-> "markdown", notes |-> vault.notes, event |-> export]
Exported == IF log[export].format = "json" THEN Interchange ELSE Markdown

\* The manifest of an interchange ends it, with the digest of a first reading.
Digest ==
  /\ pc = "digest" /\ pc' = "write"
  /\ UNCHANGED <<encrypted, vault, backups, build, upgrade, exports, faults>>

\* It goes to a file of another name, which is synchronized: what it holds is
\* certain before it has its name.
Written(format) ==
  /\ pc = "write" /\ log[export].format = format /\ pc' = "link"
  /\ UNCHANGED <<encrypted, vault, backups, build, upgrade, exports, faults>>
WriteInterchange == Written("json")
WriteMarkdown == Written("markdown")

\* Bug: the file is renamed, over whatever has its name.
Vacant_Anything == TRUE

\* It is linked to its name, which fails if anything has that name.
Vacant == files[Dest] = Absent

Link ==
  /\ pc = "link" /\ Vacant
  /\ files' = [files EXCEPT ![Dest] = Exported] /\ pc' = "record"
  /\ UNCHANGED <<encrypted, vault, backups, build, upgrade, export, log, faults>>

Recorded(outcome) ==
  /\ log' = [log EXCEPT ![export].outcome = outcome]
  /\ export' = 0 /\ pc' = "serving"
  /\ UNCHANGED <<encrypted, vault, backups, build, upgrade, files>>

Record == pc = "record" /\ Recorded("success") /\ UNCHANGED faults

\* Any step of it fails: the deadline, the destination, the file system, the log.
\* What has been linked stays, and an outcome that cannot be written is left open.
ExportFails ==
  /\ pc \in Exporting
  /\ \/ pc = "link" /\ ~Vacant /\ UNCHANGED faults /\ Recorded("error")
     \/ Fault /\ \E outcome \in {"error", "authorized"} : Recorded(outcome)

-------------------------------------------------------------------------------
(* Other programs.                                                           *)
Intrude(d) ==
  /\ files[d] = Absent /\ files' = [files EXCEPT ![d] = Foreign]
  /\ UNCHANGED <<encrypted, vault, backups, pc, build, upgrade, export, log, faults>>

\* A backup is damaged while the vault is closed, or served.
Damage(n) ==
  /\ pc \in {"down", "serving"} /\ backups[n] = "whole" /\ Fault
  /\ backups' = [backups EXCEPT ![n] = "torn"]
  /\ UNCHANGED <<encrypted, vault, pc, build, upgrade, exports>>

Next ==
  \/ \E b \in Builds : Open(b)
  \/ Copy \/ Place \/ Reuse \/ NotPlaced \/ Recheck \/ Upgrade \/ Dies
  \/ Edit \/ Stop \/ Digest \/ WriteInterchange \/ WriteMarkdown \/ Link \/ Record \/ ExportFails
  \/ \E d \in Dests : (\E format \in Formats : Agree(d, format)) \/ Intrude(d)
  \/ \E n \in Names : Damage(n)

\* A client that finds no worker starts one, and its steps are one request.
Fairness ==
  /\ WF_vars(\E b \in Builds : Open(b))
  /\ WF_vars(Copy) /\ WF_vars(Place \/ Reuse \/ NotPlaced)
  /\ WF_vars(Recheck) /\ WF_vars(Upgrade)

Spec == Init /\ [][Next]_vars
FairSpec == Spec /\ Fairness

-------------------------------------------------------------------------------
(* Properties. *)

\* Whatever died, failed or was damaged before, and whichever builds served the
\* vault in between: notes of an old schema are upgraded only while a whole copy
\* of those very notes is beside them, version by version, and no build touches
\* a vault newer than it knows (migrateNoteSchema).
BackedUp == [][
  /\ vault'.version # vault.version =>
       /\ vault' = [vault EXCEPT !.version = @ + 1] /\ vault'.version <= build
       /\ from > 0 => \E n \in Names : /\ n.version = from /\ n.notes = vault.notes
                                       /\ backups[n] = "whole"
  /\ vault' # vault => vault.version <= build ]_vars

\* Nothing that is at a destination is ever written over, another program's file
\* that came between the agreement and the link included; what appears there by
\* the owner's export holds the notes of that moment and is in the log before;
\* and the log calls an export a success only if its own file is there
\* (writeExclusivePrivateFile, executeNativeOwnerAdmin).
ExportsAreWhole == [][
  /\ \A d \in Dests :
       /\ files[d] # Absent => files'[d] = files[d]
       /\ files'[d] # files[d] /\ files'[d].by = "owner" =>
            /\ files'[d].notes = vault.notes
            /\ log[files'[d].event] = [dest |-> d, format |-> files'[d].format,
                                       outcome |-> "authorized"]
  /\ \A e \in 1..Len(log) : log'[e].outcome # log[e].outcome =>
       /\ log[e].outcome = "authorized"
       /\ log'[e].outcome = "success" => files[log[e].dest].event = e ]_vars

\* The vault is served again after every death and failure, unless a plaintext
\* vault finds a damaged file under the very name of its backup ("a failed
\* version remains retryable", migrateNoteSchema).
Obstructed == ~encrypted /\ vault.version > 0 /\ backups[Named(0)] = "torn"
Retryable == (pc = "down") ~> (pc = "serving" \/ Obstructed)
===============================================================================
