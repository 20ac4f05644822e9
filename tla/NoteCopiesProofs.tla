-------------------------- MODULE NoteCopiesProofs --------------------------
(* Proofs about what is made from the notes and kept beside them: the        *)
(* backups and exports of VaultFiles, for every set of builds and            *)
(* destinations, and the vectors of DerivedIndex, for every number of notes, *)
(* models and hosts.  The two components share no variable; every theorem is *)
(* about one of them alone.                                                  *)
EXTENDS VaultFiles, DerivedIndex, FiniteSetTheorems, SequenceTheorems, TLAPS

-----------------------------------------------------------------------------
(* The operators the steps are built from.                                   *)

\* One of the builds is the newest, and no build knows more versions than it.
LEMMA NewestIsOne == /\ Newest \in Nat \ {0} /\ Newest \in Builds
                     /\ \A b \in Builds : b \in Nat \ {0} /\ b <= Newest
  BY BuildsAssumption DEF Newest, BuildsAssumption

\* An event made terminal leaves the others as they are (the UPDATE of one row).
LEMMA RecordedType ==
  ASSUME NEW l \in Seq(Events), NEW i \in 1..Len(l), NEW o \in Outcomes
  PROVE  /\ [l EXCEPT ![i].outcome = o] \in Seq(Events)
         /\ Len([l EXCEPT ![i].outcome = o]) = Len(l)
         /\ [l EXCEPT ![i].outcome = o][i] = [l[i] EXCEPT !.outcome = o]
         /\ \A j \in 1..Len(l) : j # i => [l EXCEPT ![i].outcome = o][j] = l[j]
  <1>1. l[i] \in Events
    BY ElementOfSeq
  <1>2. [l[i] EXCEPT !.outcome = o] \in Events
    BY <1>1 DEF Events
  <1>3. [l EXCEPT ![i].outcome = o] = [l EXCEPT ![i] = [l[i] EXCEPT !.outcome = o]]
    OBVIOUS
  <1>. QED BY <1>2, <1>3, ExceptSeq

-----------------------------------------------------------------------------
(* The inductive invariant.                                                  *)

\* A copy is made of an old vault that holds something, for a build that knows more.
Unchanged == pc \in {"copy", "place", "recheck"} =>
               vault.version = from /\ from > 0 /\ from < build

\* It is a copy of the notes as they are: nobody edits them while a vault is opened.
CopyIsTheirs == pc \in {"place", "recheck"} => copy.version = from /\ copy.notes = vault.notes

\* What was placed stays whole until it is verified.
Placed == pc = "recheck" => backups[Name(copy)] = "whole"

HasBackup == \E n \in Names : n.version = from /\ n.notes = vault.notes /\ backups[n] = "whole"
Upgrading == pc = "upgrade" => vault.version < build /\ (from > 0 => HasBackup)

\* A vault is served at the version of the build that serves it.
Upgraded == pc \in {"serving"} \cup Exporting => vault.version = build

\* An export under way has its event, which is still open.
Pending == pc \in Exporting =>
             /\ export \in 1..Len(log) /\ log[export].outcome = "authorized"
             /\ pc \in {"digest", "link", "write"} \/ files[log[export].dest].event = export

IInv == TypeOK /\ Unchanged /\ CopyIsTheirs /\ Placed /\ Upgrading /\ Upgraded /\ Pending

-----------------------------------------------------------------------------
(* Types.                                                                    *)

\* The fields of a vault and of a copy.
LEMMA VaultFields ==
  ASSUME NEW v \in Vaults
  PROVE  v.version \in Versions /\ v.version \in Nat /\ v.notes \in 0..MaxEdits
  BY NewestIsOne DEF Vaults, Versions

LEMMA CopyFields ==
  ASSUME NEW c \in Copies
  PROVE  /\ c.version \in Versions /\ c.version \in Nat /\ c.notes \in 0..MaxEdits
         /\ c.salt \in 0..Salts /\ c.whole \in BOOLEAN
  BY NewestIsOne DEF Copies, Versions

\* The event of an export is one of the log.
LEMMA EventType ==
  ASSUME log \in Seq(Events), export \in 1..Len(log)
  PROVE  log[export] \in Events /\ log[export].dest \in Dests /\ log[export].format \in {"json", "markdown"}
  <1>1. log[export] \in Events
    BY ElementOfSeq
  <1>. QED BY <1>1 DEF Events, Formats

\* A file that is absent, another program's or an export is a file.
LEMMA FileTypes ==
  ASSUME TypeOK
  PROVE  /\ Absent \in Files /\ Foreign \in Files
         /\ pc \in Exporting /\ export \in 1..Len(log) =>
              Exported \in Files /\ log[export] \in Events /\ Exported.notes = vault.notes
              /\ Exported.event = export /\ Exported.format = log[export].format
              /\ Exported.by = "owner"
  <1>1. 0 \in 0..MaxEdits /\ 0 \in 0..MaxExports
    BY BuildsAssumption DEF BuildsAssumption
  <1>2. Absent \in Files /\ Foreign \in Files
    BY <1>1 DEF Absent, Foreign, Files, Formats
  <1>3. ASSUME export \in 1..Len(log)
        PROVE  Exported \in Files /\ log[export] \in Events /\ Exported.notes = vault.notes
               /\ Exported.event = export /\ Exported.format = log[export].format
               /\ Exported.by = "owner"
    <2>1. log[export] \in Events /\ log[export].format \in {"json", "markdown"}
      BY <1>3, EventType DEF TypeOK
    <2>2. vault.notes \in 0..MaxEdits /\ export \in 0..MaxExports
      BY VaultFields DEF TypeOK
    <2>. QED BY <2>1, <2>2 DEF Exported, Interchange, Markdown, Files, Formats
  <1>. QED BY <1>2, <1>3

\* Nothing is being made when the worker is down.
LEMMA DownType ==
  ASSUME Down
  PROVE  pc' = "down" /\ copy' \in Copies /\ export' \in 0..MaxExports
  <1>1. 0 \in 0..MaxEdits /\ 0 \in 0..MaxExports /\ 0 \in 0..Salts /\ 0 \in Versions
    BY BuildsAssumption, NewestIsOne DEF BuildsAssumption, Versions
  <1>. QED BY <1>1 DEF Down, NoCopy, Copies

\* A fault is counted within its bound.
LEMMA FaultType ==
  ASSUME faults \in 0..MaxFaults, Fault
  PROVE  faults' \in 0..MaxFaults
  BY BuildsAssumption DEF BuildsAssumption, Fault

\* The state of the files keeps its types.
LEMMA TypeStep ==
  ASSUME IInv, [Next]_vars
  PROVE  TypeOK'
  <1>. USE NewestIsOne
  <1>0. TypeOK /\ Len(log) \in Nat /\ vault.version \in Versions /\ vault.notes \in 0..MaxEdits
    BY VaultFields, LenProperties DEF IInv, TypeOK
  <1>1. ASSUME NEW b \in Builds, Open(b)
        PROVE  TypeOK'
    BY <1>0, <1>1 DEF TypeOK, Open, exports, Opening
  <1>2. CASE Copy
    <2>1. copy' \in Copies
      BY <1>0, <1>2 DEF Copy, Copies
    <2>2. faults' \in 0..MaxFaults
      BY <1>0, <1>2, FaultType DEF Copy, TypeOK
    <2>. QED BY <1>0, <1>2, <2>1, <2>2 DEF TypeOK, Copy, exports, Opening
  <1>3. CASE Place
    BY <1>0, <1>3 DEF TypeOK, Place, exports, upgrade, Opening
  <1>4. CASE Reuse
    <2>1. copy' \in Copies
      BY <1>0, <1>4, BuildsAssumption DEF Reuse, NoCopy, Copies, BuildsAssumption, Versions
    <2>. QED BY <1>0, <1>4, <2>1 DEF TypeOK, Reuse, exports, Opening
  <1>5. CASE NotPlaced
    BY <1>0, <1>5, DownType DEF TypeOK, NotPlaced
  <1>6. CASE Recheck
    <2>1. CASE Fault /\ Down /\ backups' = [backups EXCEPT ![Name(copy)] = "none"]
      BY <1>0, <1>6, <2>1, DownType, FaultType DEF TypeOK, Recheck
    <2>2. CASE pc' = "upgrade" /\ copy' = NoCopy /\ UNCHANGED <<backups, export, faults>>
      <3>1. copy' \in Copies
        BY <1>0, <2>2, BuildsAssumption DEF NoCopy, Copies, BuildsAssumption, Versions
      <3>. QED BY <1>0, <1>6, <2>2, <3>1 DEF TypeOK, Recheck, Opening
    <2>. QED BY <1>6, <2>1, <2>2 DEF Recheck
  <1>7. CASE Upgrade
    <2>1. vault.version + 1 \in Versions
      BY <1>0, <1>7 DEF Upgrade, IInv, Upgrading, Versions, TypeOK
    <2>2. vault' \in Vaults
      BY <1>0, <1>7, <2>1 DEF Upgrade, TypeOK, Vaults
    <2>. QED BY <1>0, <1>7, <2>2 DEF TypeOK, Upgrade, upgrade, exports, Opening
  <1>8. CASE Dies
    BY <1>0, <1>8, DownType, FaultType DEF TypeOK, Dies
  <1>9. CASE Edit
    <2>1. vault.notes + 1 \in 0..MaxEdits
      BY <1>0, <1>9, BuildsAssumption DEF Edit, BuildsAssumption
    <2>2. vault' \in Vaults
      BY <1>0, <1>9, <2>1 DEF Edit, TypeOK, Vaults
    <2>. QED BY <1>0, <1>9, <2>2 DEF TypeOK, Edit, upgrade, exports
  <1>10. CASE Stop
    BY <1>0, <1>10, DownType DEF TypeOK, Stop
  <1>11. ASSUME NEW d \in Dests, NEW format \in Formats, Agree(d, format)
         PROVE  TypeOK'
    <2>1. [dest |-> d, format |-> format, outcome |-> "authorized"] \in Events
      BY DEF Events, Outcomes
    <2>2. log' \in Seq(Events) /\ Len(log') = Len(log) + 1
      BY <1>0, <1>11, <2>1, AppendProperties DEF TypeOK, Agree
    <2>3. Len(log) + 1 <= MaxExports /\ export' \in 0..MaxExports
      BY <1>0, <1>11, BuildsAssumption DEF Agree, BuildsAssumption
    <2>. QED BY <1>0, <1>11, <2>2, <2>3 DEF TypeOK, Agree, upgrade, Exporting
  <1>12. CASE Digest \/ WriteInterchange \/ WriteMarkdown
    BY <1>0, <1>12 DEF TypeOK, Digest, WriteInterchange, WriteMarkdown, Written, upgrade, exports, Exporting
  <1>13. CASE Link
    <2>1. Exported \in Files
      BY <1>0, <1>13, FileTypes DEF Link, IInv, Pending, Exporting
    <2>. QED BY <1>0, <1>13, <2>1 DEF TypeOK, Link, upgrade, Exporting
  <1>14. ASSUME NEW outcome \in Outcomes, pc \in Exporting, Recorded(outcome)
         PROVE  /\ log' \in Seq(Events) /\ Len(log') <= MaxExports /\ export' \in 0..MaxExports
                /\ faults' \in 0..MaxFaults => TypeOK'
    <2>1. log' \in Seq(Events) /\ Len(log') <= MaxExports
      BY <1>0, <1>14, RecordedType DEF Recorded, TypeOK, IInv, Pending
    <2>2. export' \in 0..MaxExports
      BY <1>14, BuildsAssumption DEF Recorded, BuildsAssumption
    <2>. QED BY <1>0, <1>14, <2>1, <2>2 DEF TypeOK, Recorded, upgrade
  <1>15. CASE Record
    BY <1>0, <1>14, <1>15 DEF Record, Exporting, Outcomes, TypeOK
  <1>16. CASE ExportFails
    BY <1>0, <1>14, <1>16, FaultType DEF ExportFails, Outcomes, TypeOK
  <1>17. ASSUME NEW d \in Dests, Intrude(d)
         PROVE  TypeOK'
    BY <1>0, <1>17, FileTypes DEF TypeOK, Intrude, upgrade
  <1>18. ASSUME NEW n \in Names, Damage(n)
         PROVE  TypeOK'
    BY <1>0, <1>18, FaultType DEF TypeOK, Damage, upgrade, exports
  <1>19. CASE UNCHANGED vars
    BY <1>0, <1>19 DEF TypeOK, vars, upgrade, exports
  <1>. QED BY <1>1, <1>2, <1>3, <1>4, <1>5, <1>6, <1>7, <1>8, <1>9, <1>10, <1>11, <1>12,
              <1>13, <1>15, <1>16, <1>17, <1>18, <1>19 DEF Next

-----------------------------------------------------------------------------
(* What each step keeps of the inductive invariant.                          *)

\* The backup of the notes as they are, once its copy is placed.
LEMMA PlacedIsBackup ==
  ASSUME TypeOK, Unchanged, CopyIsTheirs, pc \in {"place", "recheck"},
         backups[Name(copy)] = "whole"
  PROVE  HasBackup
  <1>1. /\ copy \in Copies /\ vault \in Vaults /\ build \in Builds
        /\ vault.version = from /\ from > 0
        /\ copy.version = from /\ copy.notes = vault.notes
    BY DEF TypeOK, Unchanged, CopyIsTheirs
  <1>2. Name(copy) \in Names
    BY <1>1, CopyFields, NewestIsOne DEF Name, Names, Versions
  <1>3. Name(copy).version = from /\ Name(copy).notes = vault.notes
    BY <1>1 DEF Name
  <1>. QED BY <1>2, <1>3 DEF HasBackup

\* A step that leaves the vault and the backups alone, outside the opening and
\* the exports, keeps what is said of them.
LEMMA OutsideStep ==
  ASSUME pc' \in {"down", "serving"}, pc' = "serving" => vault'.version = build'
  PROVE  (Unchanged /\ CopyIsTheirs /\ Placed /\ Upgrading /\ Upgraded /\ Pending)'
  BY DEF Unchanged, CopyIsTheirs, Placed, Upgrading, Upgraded, Pending, Exporting

LEMMA InvStep ==
  ASSUME IInv, [Next]_vars
  PROVE  (Unchanged /\ CopyIsTheirs /\ Placed /\ Upgrading /\ Upgraded /\ Pending)'
  <1>. DEFINE Rest == Unchanged /\ CopyIsTheirs /\ Placed /\ Upgrading /\ Upgraded /\ Pending
  <1>0. /\ TypeOK /\ Rest /\ Len(log) \in Nat /\ vault.version \in Nat /\ build \in Nat
        /\ vault \in Vaults
    BY VaultFields, LenProperties, NewestIsOne DEF IInv, TypeOK
  <1>1. ASSUME NEW b \in Builds, Open(b)
        PROVE  Rest'
    <2>1. CASE NeedsBackup(b)
      <3>1. /\ pc' = "copy" /\ from' = vault.version /\ vault' = vault /\ build' = b
            /\ vault.version > 0 /\ vault.version < b
        BY <1>0, <1>1, <2>1, NewestIsOne DEF Open, NeedsBackup
      <3>. QED BY <3>1 DEF Unchanged, CopyIsTheirs, Placed, Upgrading, Upgraded, Pending, Exporting
    <2>2. CASE ~NeedsBackup(b) /\ vault.version < b
      <3>1. vault.version = 0 /\ from' = 0 /\ vault' = vault /\ pc' = "upgrade" /\ build' = b
        BY <1>0, <1>1, <2>2, NewestIsOne DEF Open, NeedsBackup
      <3>. QED BY <1>0, <2>2, <3>1, NewestIsOne
                  DEF Unchanged, CopyIsTheirs, Placed, Upgrading, Upgraded, Pending, Exporting
    <2>3. CASE ~NeedsBackup(b) /\ ~(vault.version < b)
      <3>1. pc' = "serving" /\ vault' = vault /\ vault.version = b /\ build' = b
        BY <1>0, <1>1, <2>3, NewestIsOne DEF Open
      <3>. QED BY <3>1, OutsideStep
    <2>. QED BY <2>1, <2>2, <2>3
  <1>2. CASE Copy
    <2>1. copy'.version = from /\ copy'.notes = vault.notes
      BY <1>0, <1>2 DEF Copy, Unchanged
    <2>. QED BY <1>0, <1>2, <2>1
                DEF Copy, Unchanged, CopyIsTheirs, Placed, Upgrading, Upgraded, Pending, Exporting
  <1>3. CASE Place
    <2>1. Name(copy) \in Names
      BY <1>0, <1>3, CopyFields, NewestIsOne DEF Place, TypeOK, Unchanged, CopyIsTheirs, Name, Names, Versions
    <2>2. backups'[Name(copy)] = "whole" /\ copy' = copy
      BY <1>0, <1>3, <2>1 DEF Place, TypeOK, upgrade
    <2>. QED BY <1>0, <1>3, <2>2
                DEF Place, upgrade, Unchanged, CopyIsTheirs, Placed, Upgrading, Upgraded, Pending, Exporting, Name
  <1>4. CASE Reuse
    <2>1. HasBackup
      BY <1>0, <1>4, PlacedIsBackup DEF Reuse, Reusable
    <2>2. HasBackup'
      BY <2>1, <1>4 DEF Reuse, HasBackup
    <2>. QED BY <1>0, <1>4, <2>2
                DEF Reuse, Unchanged, CopyIsTheirs, Placed, Upgrading, Upgraded, Pending, Exporting
  <1>5. CASE NotPlaced
    BY <1>5, OutsideStep DEF NotPlaced, Down
  <1>6. CASE Recheck
    <2>1. CASE Down
      BY <2>1, OutsideStep DEF Down
    <2>2. CASE pc' = "upgrade" /\ copy' = NoCopy /\ UNCHANGED <<backups, export, faults>>
      <3>1. HasBackup
        BY <1>0, <1>6, PlacedIsBackup DEF Recheck, Placed
      <3>2. HasBackup'
        BY <3>1, <1>6, <2>2 DEF Recheck, HasBackup
      <3>. QED BY <1>0, <1>6, <2>2, <3>2
                  DEF Recheck, Unchanged, CopyIsTheirs, Placed, Upgrading, Upgraded, Pending, Exporting
    <2>. QED BY <1>6, <2>1, <2>2 DEF Recheck
  <1>7. CASE Upgrade
    <2>1. vault'.version = vault.version + 1 /\ vault'.notes = vault.notes
      BY <1>0, <1>7 DEF Upgrade, Vaults
    <2>2. vault.version < build /\ (from > 0 => HasBackup)
      BY <1>0, <1>7 DEF Upgrade, Upgrading
    <2>3. from > 0 => HasBackup'
      BY <1>7, <2>1, <2>2 DEF Upgrade, HasBackup, upgrade
    <2>. QED BY <1>0, <1>7, <2>1, <2>2, <2>3
                DEF Upgrade, upgrade, Unchanged, CopyIsTheirs, Placed, Upgrading, Upgraded, Pending, Exporting
  <1>8. CASE Dies \/ Stop
    BY <1>8, OutsideStep DEF Dies, Stop, Down
  <1>9. CASE Edit
    <2>1. vault'.version = vault.version
      BY <1>0, <1>9 DEF Edit, Vaults
    <2>. QED BY <1>0, <1>9, <2>1, OutsideStep DEF Edit, Upgraded
  <1>10. ASSUME NEW d \in Dests, NEW format \in Formats, Agree(d, format)
         PROVE  Rest'
    <2>1. [dest |-> d, format |-> format, outcome |-> "authorized"] \in Events
      BY DEF Events, Outcomes
    <2>2. /\ Len(log') = Len(log) + 1
          /\ log'[Len(log) + 1] = [dest |-> d, format |-> format, outcome |-> "authorized"]
      BY <1>0, <1>10, <2>1, AppendProperties DEF TypeOK, Agree
    <2>3. pc' \in {"digest", "write"} /\ export' \in 1..Len(log') /\ log'[export'].outcome = "authorized"
      BY <1>0, <1>10, <2>2 DEF Agree
    <2>. QED BY <1>0, <1>10, <2>3
                DEF Agree, Unchanged, CopyIsTheirs, Placed, Upgrading, Upgraded, Pending, Exporting
  <1>11. CASE Digest \/ WriteInterchange \/ WriteMarkdown
    BY <1>0, <1>11 DEF Digest, WriteInterchange, WriteMarkdown, Written, upgrade, exports,
         Unchanged, CopyIsTheirs, Placed, Upgrading, Upgraded, Pending, Exporting
  <1>12. CASE Link
    <2>1. export \in 1..Len(log) /\ log[export].outcome = "authorized"
      BY <1>0, <1>12 DEF Link, Pending, Exporting
    <2>2. log[export] \in Events /\ log[export].dest \in Dests
      BY <1>0, <2>1, EventType DEF TypeOK
    <2>3. files'[log[export].dest].event = export
      BY <1>0, <1>12, <2>1, <2>2, FileTypes DEF Link, TypeOK, Dest, Exporting
    <2>. QED BY <1>0, <1>12, <2>1, <2>3
                DEF Link, upgrade, Unchanged, CopyIsTheirs, Placed, Upgrading, Upgraded, Pending, Exporting
  <1>13. ASSUME NEW outcome, pc \in Exporting, Recorded(outcome)
         PROVE  Rest'
    BY <1>0, <1>13, OutsideStep DEF Recorded, Upgraded
  <1>14. CASE Record \/ ExportFails
    BY <1>13, <1>14 DEF Record, ExportFails, Exporting
  <1>15. ASSUME NEW d \in Dests, Intrude(d)
         PROVE  Rest'
    <2>1. \A e \in Dests : files[e].event = export /\ pc = "record" => files'[e].event = export
      BY <1>0, <1>15, BuildsAssumption
         DEF Intrude, TypeOK, Absent, Foreign, Pending, Exporting, BuildsAssumption
    <2>2. pc \in Exporting => log[export].dest \in Dests
      BY <1>0, EventType DEF TypeOK, Pending
    <2>. QED BY <1>0, <1>15, <2>1, <2>2
                DEF Intrude, upgrade, Unchanged, CopyIsTheirs, Placed, Upgrading, HasBackup, Upgraded, Pending, Exporting
  <1>16. ASSUME NEW n \in Names, Damage(n)
         PROVE  Rest'
    BY <1>0, <1>16, OutsideStep DEF Damage, Upgraded
  <1>17. CASE UNCHANGED vars
    BY <1>0, <1>17 DEF vars, upgrade, exports, Name,
         Unchanged, CopyIsTheirs, Placed, Upgrading, HasBackup, Upgraded, Pending, Exporting
  <1>. QED BY <1>1, <1>2, <1>3, <1>4, <1>5, <1>6, <1>7, <1>8, <1>9, <1>10, <1>11, <1>12,
              <1>14, <1>15, <1>16, <1>17 DEF Next

\* The inductive invariant holds: an upgrade under way has the backup of the very
\* notes, and an export under way its open event.
THEOREM FilesInductive == Spec => []IInv
  <1>1. Init => IInv
    <2>. SUFFICES ASSUME Init PROVE IInv
      OBVIOUS
    <2>0. 0 \in 0..MaxEdits /\ 0 \in 0..MaxExports /\ 0 \in 0..Salts /\ 0 \in 0..MaxFaults
          /\ 0 \in Versions /\ First \in Versions
      BY BuildsAssumption, NewestIsOne DEF BuildsAssumption, Versions
    <2>1. vault \in Vaults /\ copy \in Copies /\ build \in Builds /\ from \in Versions
      BY <2>0, NewestIsOne DEF Init, Vaults, NoCopy, Copies
    <2>2. Absent \in Files
      BY <2>0 DEF Absent, Files
    <2>3. log \in Seq(Events) /\ Len(log) <= MaxExports
      BY EmptySeq, BuildsAssumption DEF Init, BuildsAssumption
    <2>4. TypeOK
      BY <2>0, <2>1, <2>2, <2>3 DEF Init, TypeOK
    <2>. QED BY <2>4 DEF Init, IInv, Unchanged, CopyIsTheirs, Placed, Upgrading, Upgraded, Pending, Exporting
  <1>2. IInv /\ [Next]_vars => IInv'
    BY TypeStep, InvStep DEF IInv
  <1>. QED BY <1>1, <1>2, PTL DEF Spec

\* The state of the files and the worker keeps its types.
THEOREM FilesTypeCorrect == Spec => []TypeOK
  BY FilesInductive, PTL DEF IInv

\* What an upgrade does: one version, beside a whole copy of the very notes.
LEMMA UpgradeIsBacked ==
  ASSUME IInv, Upgrade
  PROVE  /\ vault' = [vault EXCEPT !.version = @ + 1] /\ vault'.version <= build
         /\ vault.version <= build /\ (from > 0 => HasBackup)
  <1>1. vault \in Vaults /\ vault.version \in Nat /\ build \in Nat
    BY VaultFields, NewestIsOne DEF IInv, TypeOK
  <1>2. vault.version < build /\ (from > 0 => HasBackup)
    BY DEF Upgrade, IInv, Upgrading
  <1>3. vault'.version = vault.version + 1
    BY <1>1 DEF Upgrade, Vaults
  <1>. QED BY <1>1, <1>2, <1>3 DEF Upgrade

\* Editing the notes is for the build that upgraded them, and moves no version.
LEMMA EditKeepsVersion ==
  ASSUME IInv, Edit
  PROVE  vault'.version = vault.version /\ vault.version <= build
  <1>1. vault \in Vaults /\ vault.version \in Nat /\ build \in Nat /\ vault.version = build
    BY VaultFields, NewestIsOne DEF IInv, TypeOK, Upgraded, Edit
  <1>. QED BY <1>1 DEF Edit, Vaults

\* Nothing but an upgrade and an edit changes the vault.
LEMMA VaultChanges ==
  ASSUME [Next]_vars
  PROVE  vault' = vault \/ Upgrade \/ Edit
  BY DEF Next, vars, Open, Copy, Place, Reuse, NotPlaced, Recheck, Dies, Stop, Digest, WriteInterchange,
         WriteMarkdown, Written, Link, Record, ExportFails, Recorded, Agree, Intrude, Damage

\* An old schema is changed only beside a whole backup of its notes, one version
\* at a time, and by no build that does not know it (migrateNoteSchema).
THEOREM AlwaysBackedUp == Spec => BackedUp
  <1>. DEFINE Step ==
         /\ vault'.version # vault.version =>
              /\ vault' = [vault EXCEPT !.version = @ + 1] /\ vault'.version <= build
              /\ from > 0 => \E n \in Names : /\ n.version = from /\ n.notes = vault.notes
                                              /\ backups[n] = "whole"
         /\ vault' # vault => vault.version <= build
  <1>1. IInv /\ [Next]_vars => [Step]_vars
    BY VaultChanges, UpgradeIsBacked, EditKeepsVersion DEF HasBackup
  <1>. QED BY <1>1, FilesInductive, PTL DEF Spec, BackedUp

\* What happens to the destinations: another program's file where there is none,
\* and the link.
LEMMA FilesChange ==
  ASSUME [Next]_vars
  PROVE  files' = files \/ Link \/ \E d \in Dests : Intrude(d)
  BY DEF Next, vars, exports, Open, Copy, Place, Reuse, NotPlaced, Recheck, Upgrade, Dies, Edit, Stop,
         Digest, WriteInterchange, WriteMarkdown, Written, Record, ExportFails, Recorded, Agree, Damage

\* What happens to the log: an event, and its outcome.
LEMMA LogChange ==
  ASSUME [Next]_vars
  PROVE  \/ log' = log
         \/ \E d \in Dests, format \in Formats : Agree(d, format)
         \/ pc \in Exporting /\ \E o \in Outcomes : Recorded(o) /\ (o = "success" => pc = "record")
  BY DEF Next, vars, exports, Open, Copy, Place, Reuse, NotPlaced, Recheck, Upgrade, Dies, Edit, Stop,
         Digest, WriteInterchange, WriteMarkdown, Written, Link, Record, ExportFails, Damage, Intrude,
         Exporting, Outcomes

LEMMA FilesStep ==
  ASSUME IInv, [Next]_vars, NEW d \in Dests
  PROVE  /\ files[d] # Absent => files'[d] = files[d]
         /\ files'[d] # files[d] /\ files'[d].by = "owner" =>
              /\ files'[d].notes = vault.notes
              /\ log[files'[d].event] = [dest |-> d, format |-> files'[d].format,
                                         outcome |-> "authorized"]
  <1>0. TypeOK /\ files \in [Dests -> Files] /\ log \in Seq(Events)
    BY DEF IInv, TypeOK
  <1>1. CASE Link
    <2>1. pc \in Exporting /\ export \in 1..Len(log) /\ log[export].outcome = "authorized"
      BY <1>1 DEF Link, IInv, Pending, Exporting
    <2>2. /\ Exported.by = "owner" /\ Exported.notes = vault.notes /\ Exported.event = export
          /\ Exported.format = log[export].format /\ log[export] \in Events
      BY <1>0, <2>1, FileTypes
    <2>3. log[export] = [dest |-> log[export].dest, format |-> log[export].format, outcome |-> "authorized"]
      BY <2>1, <2>2 DEF Events
    <2>4. log[export].dest \in Dests /\ files[log[export].dest] = Absent
      BY <1>0, <1>1, <2>1, EventType DEF Link, Vacant, Dest
    <2>5. files' = [files EXCEPT ![log[export].dest] = Exported]
      BY <1>1 DEF Link, Dest
    <2>6. CASE d = log[export].dest
      <3>1. files'[d] = Exported
        BY <1>0, <2>5, <2>6
      <3>2. files[d] = Absent
        BY <2>4, <2>6
      <3>. QED BY <2>2, <2>3, <2>6, <3>1, <3>2
    <2>7. CASE d # log[export].dest
      BY <1>0, <2>5, <2>7
    <2>. QED BY <2>6, <2>7
  <1>2. ASSUME NEW e \in Dests, Intrude(e)
        PROVE  (files[d] # Absent => files'[d] = files[d]) /\ (files'[d] # files[d] => files'[d].by # "owner")
    BY <1>0, <1>2 DEF Intrude, Foreign, Absent
  <1>. QED BY <1>1, <1>2, FilesChange

LEMMA LogStep ==
  ASSUME IInv, [Next]_vars, NEW e \in 1..Len(log), log'[e].outcome # log[e].outcome
  PROVE  /\ log[e].outcome = "authorized"
         /\ log'[e].outcome = "success" => files[log[e].dest].event = e
  <1>0. TypeOK /\ log \in Seq(Events) /\ Len(log) \in Nat
    BY LenProperties DEF IInv, TypeOK
  <1>1. ASSUME NEW d \in Dests, NEW format \in Formats, Agree(d, format)
        PROVE  FALSE
    <2>1. [dest |-> d, format |-> format, outcome |-> "authorized"] \in Events
      BY DEF Events, Outcomes
    <2>2. log'[e] = log[e]
      BY <1>0, <1>1, <2>1, AppendProperties DEF Agree
    <2>. QED BY <2>2
  <1>2. ASSUME NEW o \in Outcomes, pc \in Exporting, Recorded(o), o = "success" => pc = "record"
        PROVE  /\ log[e].outcome = "authorized"
               /\ log'[e].outcome = "success" => files[log[e].dest].event = e
    <2>1. export \in 1..Len(log) /\ log[export].outcome = "authorized"
          /\ (pc = "record" => files[log[export].dest].event = export)
      BY <1>2 DEF IInv, Pending, Exporting
    <2>2. log[export] \in Events
      BY <1>0, <2>1, EventType
    <2>3. log' = [log EXCEPT ![export].outcome = o]
      BY <1>2 DEF Recorded
    <2>4. e = export
      BY <1>0, <2>1, <2>3, RecordedType
    <2>5. log'[e].outcome = o
      BY <1>0, <2>1, <2>2, <2>3, <2>4, RecordedType DEF Events
    <2>. QED BY <1>2, <2>1, <2>4, <2>5
  <1>. QED BY <1>1, <1>2, LogChange

\* Nothing is written over at a destination, an export is of the notes of that moment
\* and in the log before it appears, and called a success only if it is there
\* (writeExclusivePrivateFile, executeNativeOwnerAdmin).
THEOREM AlwaysWhole == Spec => ExportsAreWhole
  <1>. DEFINE Step ==
         /\ \A d \in Dests :
              /\ files[d] # Absent => files'[d] = files[d]
              /\ files'[d] # files[d] /\ files'[d].by = "owner" =>
                   /\ files'[d].notes = vault.notes
                   /\ log[files'[d].event] = [dest |-> d, format |-> files'[d].format,
                                              outcome |-> "authorized"]
         /\ \A e \in 1..Len(log) : log'[e].outcome # log[e].outcome =>
              /\ log[e].outcome = "authorized"
              /\ log'[e].outcome = "success" => files[log[e].dest].event = e
  <1>1. IInv /\ [Next]_vars => [Step]_vars
    BY FilesStep, LogStep
  <1>. QED BY <1>1, FilesInductive, PTL DEF Spec, ExportsAreWhole

-----------------------------------------------------------------------------
(* The index: its inductive invariant.                                     *)

Tasks == [gen : 1..MaxGen, prepare : BOOLEAN, left : SUBSET Version, size : Nat]
Awake == recall.pc \in {"waiting", "embedding", "ranking"}

\* A version that was read once: it is current still, or replaced, or its note is deleted.
WasCurrent(v) ==
    \/ v.rev < cur[v.note].rev
    \/ v.rev = cur[v.note].rev /\ cur[v.note].save \in {0, v.save}

\* A version that work was queued for.
Known(v) == v \in undone \/ WasCurrent(v)
RowOf(n) == [note |-> n, rev |-> emb[n].rev, save |-> emb[n].save]

\* Notes are at the revision of one of their saves, at most.
NotesHold ==
    /\ saves \in 0..MaxSaves
    /\ \A n \in Notes : /\ cur[n].rev <= saves /\ cur[n].save <= saves
                        /\ Exists(n) => cur[n].rev > 0

\* Vectors are of a version that was saved.
VectorsHold ==
    \A n \in Notes : emb[n].rev > 0 => emb[n].save > 0 /\ Known(RowOf(n))

\* So is what is queued and what is being embedded.
GoodTask(t) ==
    /\ t.gen <= gen /\ \A v \in t.left : Known(v)
    /\ ~t.prepare => t.size > 0

QueueHolds ==
    /\ \A i \in 1..Len(queue) : GoodTask(queue[i])
    /\ \A v \in batch.of : Known(v)
    /\ batch # NoBatch => queue # <<>>

\* The sizes of the tasks of generation g in q add up to n.
Weight(t, g) == IF t.gen = g /\ ~t.prepare THEN t.size ELSE 0
AddsUp(q, g, n) ==
    \E f \in [0..Len(q) -> Nat] :
       /\ f[0] = 0 /\ f[Len(q)] = n
       /\ \A i \in 1..Len(q) : f[i] = f[i - 1] + Weight(q[i], g)
       /\ \A i, j \in 0..Len(q) : i <= j => f[i] <= f[j]

\* What is counted as under way is what is queued for the model in use.
LedgerHolds == AddsUp(queue, gen, indexing)

ModelHolds ==
    /\ ~open => model = NoModel /\ queue = <<>> /\ recall = NoRecall
    /\ model # NoModel => gen > 0

\* In the worker nothing is saved and no model taken while a recall waits, and it waits for
\* vectors or a ranking only while no task is under way.
RecallHolds ==
    /\ recall.pc # "waiting" => recall.ahead = 0
    /\ \A v \in recall.lex \cup recall.sem : WasCurrent(v)
    /\ host = "worker" /\ Awake =>
         /\ recall.gen = gen
         /\ \A v \in recall.lex : IsCurrent(v)
         /\ recall.pc # "waiting" => model # NoModel /\ indexing = 0

CacheHolds ==
    host = "worker" /\ cache.built =>
       /\ model # NoModel /\ indexing = 0
       /\ cache.rows \subseteq Usable(Rows)
       /\ Cardinality(Rows) <= MaxCandidates => cache.rows = Usable(Rows)

IndexIInv ==
    /\ IndexTypeOK /\ NotesHold /\ VectorsHold /\ QueueHolds
    /\ LedgerHolds /\ ModelHolds /\ RecallHolds /\ CacheHolds

-----------------------------------------------------------------------------
(* Versions, tasks and what they add up to.                                *)

LEMMA VersionsAre ==
    ASSUME NEW v \in Version
    PROVE  /\ v.note \in Notes /\ v.rev \in Nat /\ v.rev <= MaxSaves
           /\ v.save \in Nat /\ v.save > 0 /\ v.save <= MaxSaves
  BY ConstantsAssumption DEF Version, Revs

\* The state by its fields.
LEMMA NotesAre ==
    ASSUME IndexTypeOK, NEW n \in Notes
    PROVE  /\ cur[n].rev \in Nat /\ cur[n].save \in Nat
           /\ emb[n].rev \in Nat /\ emb[n].save \in Nat
           /\ cur[n].rev <= MaxSaves /\ cur[n].save <= MaxSaves
           /\ emb[n].rev <= MaxSaves /\ emb[n].save <= MaxSaves
           /\ emb[n].model \in Models \cup {NoModel}
  BY ConstantsAssumption DEF IndexTypeOK, Revs

LEMMA CurrentAre ==
    ASSUME IndexTypeOK, NotesHold, NEW N \in SUBSET Notes
    PROVE  /\ Current(N) \subseteq Version /\ IsFiniteSet(Current(N))
           /\ \A v \in Current(N) : IsCurrent(v) /\ WasCurrent(v) /\ Exists(v.note)
<1>1. Current(N) \subseteq Version
  BY NotesAre, ConstantsAssumption DEF Current, Version, Revs, Exists, NotesHold
<1>2. \A v \in Current(N) : IsCurrent(v) /\ WasCurrent(v) /\ Exists(v.note)
  <2> SUFFICES ASSUME NEW n \in N, Exists(n)
               PROVE  LET v == [note |-> n, rev |-> cur[n].rev, save |-> cur[n].save]
                      IN IsCurrent(v) /\ WasCurrent(v) /\ Exists(v.note)
    BY DEF Current
  <2> QED BY DEF IsCurrent, WasCurrent, IndexTypeOK
<1>3. IsFiniteSet(Current(N))
  <2> DEFINE S == {m \in N : Exists(m)}
             f == [n \in S |-> [note |-> n, rev |-> cur[n].rev, save |-> cur[n].save]]
  <2>1. IsFiniteSet(S)
    <3>1. IsFiniteSet(Notes)
      BY FS_Interval, ConstantsAssumption DEF Notes
    <3> QED BY <3>1, FS_Subset
  <2>2. f \in Surjection(S, Current(N))
    BY DEF Current, Surjection
  <2> QED BY <2>1, <2>2, FS_Surjection
<1> QED BY <1>1, <1>2, <1>3

\* A literal hit that is at its revision still is the note as it is (#currentResults).
LEMMA CurrentResultsAre ==
    ASSUME NEW H, \A v \in H : WasCurrent(v), H \subseteq Version, IndexTypeOK
    PROVE  CurrentResults(H) \subseteq H /\ \A v \in CurrentResults(H) : IsCurrent(v)
<1> SUFFICES ASSUME NEW v \in H, Exists(v.note), cur[v.note].rev = v.rev
             PROVE  IsCurrent(v)
  BY DEF CurrentResults
<1>1. cur[v.note].save = v.save
  BY VersionsAre, NotesAre DEF WasCurrent, Exists
<1>2. cur[v.note] \in [rev : Revs, save : 0..MaxSaves]
  BY VersionsAre DEF IndexTypeOK
<1> QED BY <1>1, <1>2 DEF IsCurrent

LEMMA TasksAre ==
    ASSUME NEW t \in Tasks
    PROVE  /\ t.gen \in Nat /\ t.gen > 0 /\ t.gen <= MaxGen /\ t.prepare \in BOOLEAN
           /\ t.left \subseteq Version /\ t.size \in Nat
           /\ \A g : Weight(t, g) \in Nat
  BY ConstantsAssumption DEF Tasks, Weight

LEMMA NothingAdds ==
    ASSUME NEW q \in Seq(Tasks), NEW g, \A i \in 1..Len(q) : Weight(q[i], g) = 0
    PROVE  AddsUp(q, g, 0)
<1> DEFINE f == [i \in 0..Len(q) |-> 0]
<1>1. Len(q) \in Nat
  OBVIOUS
<1>2. /\ f \in [0..Len(q) -> Nat] /\ f[0] = 0 /\ f[Len(q)] = 0
      /\ \A i \in 1..Len(q) : f[i] = f[i - 1] + Weight(q[i], g)
      /\ \A i, j \in 0..Len(q) : i <= j => f[i] <= f[j]
  BY <1>1
<1> QED BY <1>2 DEF AddsUp

LEMMA MoreAdds ==
    ASSUME NEW q \in Seq(Tasks), NEW g, NEW n \in Nat, NEW t \in Tasks, AddsUp(q, g, n)
    PROVE  AddsUp(Append(q, t), g, n + Weight(t, g))
<1>1. PICK f \in [0..Len(q) -> Nat] :
         /\ f[0] = 0 /\ f[Len(q)] = n
         /\ \A i \in 1..Len(q) : f[i] = f[i - 1] + Weight(q[i], g)
         /\ \A i, j \in 0..Len(q) : i <= j => f[i] <= f[j]
  BY DEF AddsUp
<1> DEFINE r == Append(q, t)
           w == Weight(t, g)
           h == [i \in 0..Len(q) + 1 |-> IF i <= Len(q) THEN f[i] ELSE n + w]
<1>2. /\ Len(q) \in Nat /\ Len(r) = Len(q) + 1 /\ w \in Nat
      /\ \A i \in 1..Len(q) : r[i] = q[i]
      /\ r[Len(q) + 1] = t
  BY TasksAre
<1> HIDE DEF r
<1>3. h \in [0..Len(r) -> Nat] /\ h[0] = 0 /\ h[Len(r)] = n + w
  BY <1>1, <1>2
<1>4. \A i \in 1..Len(r) : h[i] = h[i - 1] + Weight(r[i], g)
  <2> SUFFICES ASSUME NEW i \in 1..Len(r) PROVE h[i] = h[i - 1] + Weight(r[i], g)
    OBVIOUS
  <2>0. i <= Len(q) \/ i = Len(q) + 1
    BY <1>2
  <2>1. CASE i <= Len(q)
    BY <1>1, <1>2, <2>1
  <2>2. CASE i = Len(q) + 1
    <3>1. h[i] = n + w /\ h[i - 1] = f[Len(q)]
      BY <1>2, <2>2
    <3> QED BY <1>1, <1>2, <2>2, <3>1
  <2> QED BY <2>0, <2>1, <2>2
<1>5. \A i, j \in 0..Len(r) : i <= j => h[i] <= h[j]
  <2> SUFFICES ASSUME NEW i \in 0..Len(r), NEW j \in 0..Len(r), i <= j
               PROVE  h[i] <= h[j]
    OBVIOUS
  <2>0. j <= Len(q) \/ j = Len(q) + 1
    BY <1>2
  <2>1. ASSUME NEW k \in 0..Len(q) PROVE f[k] \in Nat /\ f[k] <= n
    <3>1. k <= Len(q) /\ Len(q) \in 0..Len(q)
      BY <1>2
    <3> QED BY <1>1, <3>1
  <2>2. CASE j <= Len(q)
    <3>1. i \in 0..Len(q) /\ j \in 0..Len(q)
      BY <1>2, <2>2
    <3>2. h[i] = f[i] /\ h[j] = f[j]
      BY <1>2, <3>1
    <3> QED BY <1>1, <3>1, <3>2
  <2>3. CASE j = Len(q) + 1
    <3>1. h[j] = n + w
      BY <1>2, <2>3
    <3>2. h[i] <= n + w
      BY <1>2, <2>1
    <3> QED BY <3>1, <3>2
  <2> QED BY <2>0, <2>2, <2>3
<1> HIDE DEF h
<1> QED BY <1>3, <1>4, <1>5 DEF AddsUp, r

LEMMA LessAdds ==
    ASSUME NEW q \in Seq(Tasks), NEW g, NEW n \in Nat, AddsUp(q, g, n), q # <<>>
    PROVE  /\ Weight(q[1], g) <= n
           /\ AddsUp(Tail(q), g, n - Weight(q[1], g))
<1>1. PICK f \in [0..Len(q) -> Nat] :
         /\ f[0] = 0 /\ f[Len(q)] = n
         /\ \A i \in 1..Len(q) : f[i] = f[i - 1] + Weight(q[i], g)
         /\ \A i, j \in 0..Len(q) : i <= j => f[i] <= f[j]
  BY DEF AddsUp
<1> DEFINE r == Tail(q)
           w == Weight(q[1], g)
           h == [i \in 0..Len(q) - 1 |-> f[i + 1] - w]
<1>2. /\ Len(q) \in Nat \ {0} /\ r \in Seq(Tasks) /\ Len(r) = Len(q) - 1
      /\ \A i \in 1..Len(r) : r[i] = q[i + 1]
  BY HeadTailProperties, EmptySeq
<1>3. w \in Nat /\ f[1] = w /\ w <= n /\ \A i \in 1..Len(q) : w <= f[i]
  <2>1. w \in Nat
    BY <1>2, TasksAre
  <2>2. f[1] = f[0] + w
    BY <1>1, <1>2
  <2> QED BY <1>1, <1>2, <2>1, <2>2
<1> HIDE DEF r, w
<1>4. h \in [0..Len(r) -> Nat] /\ h[0] = 0 /\ h[Len(r)] = n - w
  BY <1>1, <1>2, <1>3
<1>5. \A i \in 1..Len(r) : h[i] = h[i - 1] + Weight(r[i], g)
  <2> SUFFICES ASSUME NEW i \in 1..Len(r) PROVE h[i] = h[i - 1] + Weight(r[i], g)
    OBVIOUS
  <2>1. f[i + 1] = f[i] + Weight(q[i + 1], g)
    BY <1>1, <1>2
  <2>2. Weight(r[i], g) = Weight(q[i + 1], g) /\ Weight(q[i + 1], g) \in Nat
    <3>1. i + 1 \in 1..Len(q)
      BY <1>2
    <3> QED BY <1>2, <3>1, TasksAre
  <2>3. h[i] = f[i + 1] - w /\ h[i - 1] = f[i] - w
    BY <1>2
  <2>4. f[i] \in Nat /\ f[i + 1] \in Nat /\ w \in Nat
    <3>1. i \in 0..Len(q) /\ i + 1 \in 0..Len(q)
      BY <1>2
    <3> QED BY <1>3, <3>1
  <2> HIDE DEF h
  <2> QED BY <2>1, <2>2, <2>3, <2>4
<1>6. \A i, j \in 0..Len(r) : i <= j => h[i] <= h[j]
  <2> SUFFICES ASSUME NEW i \in 0..Len(r), NEW j \in 0..Len(r), i <= j
               PROVE  h[i] <= h[j]
    OBVIOUS
  <2>1. h[i] = f[i + 1] - w /\ h[j] = f[j + 1] - w
    BY <1>2
  <2>2. f[i + 1] <= f[j + 1] /\ f[i + 1] \in Nat /\ f[j + 1] \in Nat
    <3>1. i + 1 \in 0..Len(q) /\ j + 1 \in 0..Len(q) /\ i + 1 <= j + 1
      BY <1>2
    <3> QED BY <1>1, <3>1
  <2> HIDE DEF h
  <2> QED BY <1>3, <2>1, <2>2
<1> HIDE DEF h
<1> QED BY <1>3, <1>4, <1>5, <1>6 DEF AddsUp, r, w

LEMMA AddsAsBefore ==
    ASSUME NEW q \in Seq(Tasks), NEW r \in Seq(Tasks), NEW g, NEW n, AddsUp(q, g, n),
           Len(r) = Len(q), \A i \in 1..Len(q) : Weight(r[i], g) = Weight(q[i], g)
    PROVE  AddsUp(r, g, n)
  BY DEF AddsUp

\* Nothing under way: no task of the model in use is queued.
LEMMA ZeroIsNone ==
    ASSUME NEW q \in Seq(Tasks), NEW g, AddsUp(q, g, 0)
    PROVE  \A i \in 1..Len(q) : Weight(q[i], g) = 0
<1>1. PICK f \in [0..Len(q) -> Nat] :
         /\ f[0] = 0 /\ f[Len(q)] = 0
         /\ \A i \in 1..Len(q) : f[i] = f[i - 1] + Weight(q[i], g)
         /\ \A i, j \in 0..Len(q) : i <= j => f[i] <= f[j]
  BY DEF AddsUp
<1> SUFFICES ASSUME NEW i \in 1..Len(q) PROVE Weight(q[i], g) = 0
  OBVIOUS
<1>2. Len(q) \in Nat /\ Weight(q[i], g) \in Nat /\ i - 1 \in 0..Len(q) /\ i \in 0..Len(q)
  BY TasksAre
<1>3. f[i] = 0 /\ f[i - 1] = 0
  BY <1>1, <1>2
<1> QED BY <1>1, <1>2, <1>3

-----------------------------------------------------------------------------
(* What a step does to the notes.                                          *)

Saves(n, kept) == Save(n, kept) /\ (Unborn(n) \/ Exists(n))

LEMMA SavesAre ==
    ASSUME IndexTypeOK, NotesHold, NEW n \in Notes, NEW kept \in BOOLEAN, Saves(n, kept)
    PROVE  LET v == [note |-> n, rev |-> cur[n].rev + 1, save |-> saves + 1]
           IN /\ v \in Version /\ saves + 1 <= MaxSaves
              /\ cur' \in [Notes -> [rev : Revs, save : 0..MaxSaves]]
              /\ \A m \in Notes : m # n => cur'[m] = cur[m]
              /\ kept => cur'[n].rev = v.rev /\ cur'[n].save = v.save /\ undone' = undone
              /\ ~kept => undone' = undone \cup {v}
              /\ (~kept /\ Exists(n)) => cur' = cur
              /\ (~kept /\ ~Exists(n)) =>
                   cur[n].rev = 0 /\ cur[n].save = 0 /\ cur'[n].rev = 1 /\ cur'[n].save = 0
<1> DEFINE v == [note |-> n, rev |-> cur[n].rev + 1, save |-> saves + 1]
<1>1. /\ saves \in Nat /\ saves + 1 <= MaxSaves /\ saves' = saves + 1
      /\ cur[n].rev \in Nat /\ cur[n].save \in Nat /\ cur[n].rev <= saves /\ MaxSaves \in Nat
      /\ cur[n].save <= saves
  BY NotesAre, ConstantsAssumption DEF Saves, Save, NotesHold
<1>2. /\ v \in Version /\ cur[n].rev + 1 \in Revs /\ saves + 1 \in 0..MaxSaves
      /\ 1 \in Revs
  BY <1>1 DEF Version, Revs
<1>3. /\ cur' = IF kept THEN [cur EXCEPT ![n] = [rev |-> v.rev, save |-> v.save]]
                ELSE IF Exists(n) THEN cur ELSE [cur EXCEPT ![n].rev = 1]
      /\ undone' = IF kept THEN undone ELSE undone \cup {v}
  BY <1>1 DEF Saves, Save
<1>4. cur \in [Notes -> [rev : Revs, save : 0..MaxSaves]]
  BY DEF IndexTypeOK
<1>5. CASE kept
  <2>1. cur' = [cur EXCEPT ![n] = [rev |-> v.rev, save |-> v.save]]
    BY <1>3, <1>5
  <2> QED BY <1>1, <1>2, <1>3, <1>4, <1>5, <2>1
<1>6. CASE ~kept /\ Exists(n)
  BY <1>1, <1>2, <1>3, <1>4, <1>6
<1>7. CASE ~kept /\ ~Exists(n)
  <2>1. cur' = [cur EXCEPT ![n].rev = 1]
    BY <1>3, <1>7
  <2>2. cur[n].rev = 0 /\ cur[n].save = 0
    BY <1>1, <1>7 DEF Saves, Unborn, Exists
  <2>3. /\ cur' \in [Notes -> [rev : Revs, save : 0..MaxSaves]]
        /\ \A m \in Notes : m # n => cur'[m] = cur[m]
        /\ cur'[n].rev = 1 /\ cur'[n].save = cur[n].save
    BY <1>2, <1>4, <2>1
  <2> QED BY <1>1, <1>2, <1>3, <1>7, <2>2, <2>3
<1> QED BY <1>5, <1>6, <1>7

LEMMA ForgetsAre ==
    ASSUME IndexTypeOK, NotesHold, NEW n \in Notes, Forget(n)
    PROVE  /\ cur' \in [Notes -> [rev : Revs, save : 0..MaxSaves]]
           /\ \A m \in Notes : m # n => cur'[m] = cur[m] /\ emb'[m] = emb[m]
           /\ cur'[n].rev = cur[n].rev /\ cur'[n].save = 0
           /\ emb'[n] = NoRow
           /\ emb' \in [Notes -> [rev : Revs, save : 0..MaxSaves, model : Models \cup {NoModel}]]
<1>1. /\ cur' = [cur EXCEPT ![n].save = 0] /\ emb' = [emb EXCEPT ![n] = NoRow]
      /\ cur \in [Notes -> [rev : Revs, save : 0..MaxSaves]]
      /\ emb \in [Notes -> [rev : Revs, save : 0..MaxSaves, model : Models \cup {NoModel}]]
  BY DEF Forget, IndexTypeOK
<1>2. 0 \in Revs /\ 0 \in 0..MaxSaves
  BY ConstantsAssumption DEF Revs
<1>3. NoRow \in [rev : Revs, save : 0..MaxSaves, model : Models \cup {NoModel}]
  BY <1>2 DEF NoRow
<1> QED BY <1>1, <1>2, <1>3

\* What was read of a note stays what was read, whatever is saved or deleted.
LEMMA ReadStays ==
    ASSUME IndexTypeOK, NotesHold, NEW v \in Version,
           \/ UNCHANGED <<cur, undone>>
           \/ \E n \in Notes, kept \in BOOLEAN : Saves(n, kept)
           \/ \E n \in Notes : Forget(n)
    PROVE  /\ WasCurrent(v) => WasCurrent(v)'
           /\ Known(v) => Known(v)'
<1>1. CASE UNCHANGED <<cur, undone>>
  BY <1>1 DEF WasCurrent, Known
<1>2. ASSUME NEW n \in Notes, NEW kept \in BOOLEAN, Saves(n, kept)
      PROVE  /\ WasCurrent(v) => WasCurrent(v)'
             /\ undone \subseteq undone'
  <2>1. undone \subseteq undone'
    BY <1>2, SavesAre
  <2>2. /\ v.note \in Notes /\ v.rev \in Nat /\ v.save > 0 /\ v.save \in Nat
        /\ cur[v.note].rev \in Nat /\ cur[v.note].save \in Nat
        /\ cur[n].rev \in Nat /\ cur[n].save \in Nat
    BY VersionsAre, NotesAre
  <2>3. CASE v.note # n
    BY <1>2, <2>1, <2>2, <2>3, SavesAre DEF WasCurrent
  <2>4. CASE v.note = n /\ kept
    <3>1. cur'[n].rev = cur[n].rev + 1
      BY <1>2, <2>4, SavesAre
    <3> QED BY <2>1, <2>2, <2>4, <3>1 DEF WasCurrent
  <2>5. CASE v.note = n /\ ~kept /\ Exists(n)
    <3>1. cur' = cur
      BY <1>2, <2>5, SavesAre
    <3> QED BY <2>1, <3>1 DEF WasCurrent
  <2>6. CASE v.note = n /\ ~kept /\ ~Exists(n)
    <3>1. cur[n].rev = 0 /\ cur'[n].rev = 1
      BY <1>2, <2>6, SavesAre
    <3> QED BY <2>1, <2>2, <2>6, <3>1 DEF WasCurrent
  <2> QED BY <2>3, <2>4, <2>5, <2>6
<1>3. ASSUME NEW n \in Notes, Forget(n)
      PROVE  /\ WasCurrent(v) => WasCurrent(v)'
             /\ undone \subseteq undone'
  <2>1. undone' = undone
    BY <1>3 DEF Forget
  <2>2. cur'[v.note].rev = cur[v.note].rev /\ cur'[v.note].save \in {0, cur[v.note].save}
    BY <1>3, ForgetsAre, VersionsAre
  <2> QED BY <2>1, <2>2 DEF WasCurrent
<1> QED BY <1>1, <1>2, <1>3 DEF Known

-----------------------------------------------------------------------------
(* The coordinator.                                                        *)

LEMMA NotesUntouched ==
    ASSUME IndexIInv, UNCHANGED <<cur, emb, undone, saves>>
    PROVE  /\ NotesHold' /\ VectorsHold'
           /\ \A v : (WasCurrent(v)' <=> WasCurrent(v)) /\ (Known(v)' <=> Known(v))
                       /\ (IsCurrent(v)' <=> IsCurrent(v))
  BY DEF IndexIInv, NotesHold, VectorsHold, WasCurrent, Known, IsCurrent, RowOf, Exists

LEMMA QueueIs ==
    ASSUME IndexIInv
    PROVE  /\ queue \in Seq(Tasks) /\ Len(queue) \in Nat
           /\ gen \in Nat /\ gen <= MaxGen /\ MaxGen \in Nat /\ indexing \in Nat
           /\ \A i \in 1..Len(queue) : queue[i] \in Tasks /\ GoodTask(queue[i])
<1>1. queue \in Seq(Tasks)
  BY DEF IndexIInv, IndexTypeOK, Tasks
<1>2. \A i \in 1..Len(queue) : queue[i] \in Tasks
  BY <1>1, ElementOfSeq
<1> QED BY <1>1, <1>2, ConstantsAssumption DEF IndexIInv, IndexTypeOK, QueueHolds

LEMMA GoodStays ==
    ASSUME NEW t \in Tasks, GoodTask(t), gen \in Nat, gen' \in Nat, gen <= gen',
           \A v \in Version : Known(v) => Known(v)'
    PROVE  GoodTask(t)'
  BY TasksAre DEF GoodTask

\* A queue whose tasks are good.
LEMMA QueueGood ==
    ASSUME \A i \in 1..Len(queue') : \E t \in Tasks : t = queue'[i] /\ GoodTask(t)',
           \A v \in batch.of' : Known(v)',
           batch' # NoBatch => queue' # <<>>
    PROVE  QueueHolds'
  BY DEF QueueHolds, GoodTask

LEMMA MissingAre ==
    ASSUME IndexIInv, NEW m
    PROVE  /\ Missing(m) \subseteq Version /\ IsFiniteSet(Missing(m))
           /\ \A v \in Missing(m) : Known(v)
           /\ Cardinality(Missing(m)) \in Nat
           /\ Missing(m) # {} => Cardinality(Missing(m)) > 0
<1>1. Notes \ IndexedBy(emb, m) \subseteq Notes
  OBVIOUS
<1>2. /\ Missing(m) \subseteq Version /\ IsFiniteSet(Missing(m))
      /\ \A v \in Missing(m) : Known(v)
  BY <1>1, CurrentAre DEF Missing, IndexIInv, Known
<1> QED BY <1>2, FS_CardinalityType, FS_EmptySet

\* The tasks of the model taken are queued behind those there are, which are stale now.
Taken(m) == Append(queue, Prepare(gen + 1)) \o Scheduled(gen + 1, Missing(m))

LEMMA TakenQueue ==
    ASSUME IndexIInv, NEW m, gen < MaxGen
    PROVE  /\ Taken(m) \in Seq(Tasks)
           /\ Len(queue) < Len(Taken(m))
           /\ AddsUp(Taken(m), gen + 1, Cardinality(Missing(m)))
           /\ \A i \in 1..Len(Taken(m)) :
                 \/ i \in 1..Len(queue) /\ Taken(m)[i] = queue[i]
                 \/ Taken(m)[i] = Prepare(gen + 1)
                 \/ Missing(m) # {} /\ Taken(m)[i] = Index(gen + 1, Missing(m))
<1> DEFINE g == gen + 1
           N == Missing(m)
           q == Taken(m)
<1>0. g = gen + 1 /\ N = Missing(m) /\ q = Append(queue, Prepare(g)) \o Scheduled(g, N)
  BY DEF Taken
<1> SUFFICES /\ q \in Seq(Tasks) /\ Len(queue) < Len(q)
             /\ AddsUp(q, g, Cardinality(N))
             /\ \A i \in 1..Len(q) : \/ i \in 1..Len(queue) /\ q[i] = queue[i]
                                     \/ q[i] = Prepare(g)
                                     \/ N # {} /\ q[i] = Index(g, N)
  OBVIOUS
<1> HIDE DEF g, N, q
<1>1. /\ gen \in Nat /\ g \in 1..MaxGen /\ queue \in Seq(Tasks) /\ Len(queue) \in Nat
      /\ \A i \in 1..Len(queue) : queue[i].gen <= gen /\ queue[i] \in Tasks
  BY <1>0, QueueIs DEF GoodTask
<1>2. /\ N \subseteq Version /\ Cardinality(N) \in Nat
      /\ N # {} => Cardinality(N) > 0
  BY <1>0, MissingAre
<1> DEFINE p == Prepare(g)
           x == Index(g, N)
           r == Append(queue, p)
<1>3. /\ p \in Tasks /\ Weight(p, g) = 0
      /\ x \in Tasks /\ Weight(x, g) = Cardinality(N)
  BY <1>1, <1>2 DEF Prepare, Index, Tasks, Weight
<1>4. AddsUp(queue, g, 0)
  <2>1. \A i \in 1..Len(queue) : Weight(queue[i], g) = 0
    BY <1>0, <1>1, TasksAre DEF Weight
  <2> QED BY <1>1, <2>1, NothingAdds
<1>5. q = r \o (IF N = {} THEN <<>> ELSE <<x>>)
  BY <1>0 DEF Scheduled
<1> HIDE DEF p, x
<1>6. /\ r \in Seq(Tasks) /\ AddsUp(r, g, 0) /\ Len(r) = Len(queue) + 1
      /\ \A i \in 1..Len(queue) : r[i] = queue[i]
      /\ r[Len(queue) + 1] = p
  <2>1. AddsUp(r, g, 0 + 0)
    BY <1>1, <1>3, <1>4, MoreAdds
  <2> QED BY <1>1, <1>3, <2>1, AppendProperties
<1> HIDE DEF r
<1>7. \A i \in 1..Len(r) : \/ i \in 1..Len(queue) /\ r[i] = queue[i]
                           \/ r[i] = p
  <2>1. \A i \in 1..Len(r) : i \in 1..Len(queue) \/ i = Len(queue) + 1
    BY <1>1, <1>6
  <2> QED BY <1>6, <2>1
<1>8. CASE N = {}
  <2>1. q = r /\ Cardinality(N) = 0
    BY <1>5, <1>6, <1>8, ConcatEmptySeq, FS_EmptySet
  <2> QED BY <1>1, <1>6, <1>7, <2>1 DEF p
<1>9. CASE N # {}
  <2>1. q = Append(r, x)
    BY <1>3, <1>5, <1>6, <1>9, AppendIsConcat
  <2>2. AddsUp(q, g, 0 + Cardinality(N))
    BY <1>3, <1>6, <2>1, MoreAdds
  <2>3. /\ q \in Seq(Tasks) /\ Len(q) = Len(r) + 1
        /\ \A i \in 1..Len(r) : q[i] = r[i]
        /\ q[Len(r) + 1] = x
    <3>1. /\ Append(r, x) \in Seq(Tasks) /\ Len(Append(r, x)) = Len(r) + 1
          /\ \A i \in 1..Len(r) : Append(r, x)[i] = r[i]
          /\ Append(r, x)[Len(r) + 1] = x
      BY <1>3, <1>6, AppendProperties
    <3> QED BY <2>1, <3>1
  <2>4. \A i \in 1..Len(q) : i \in 1..Len(r) \/ i = Len(r) + 1
    BY <1>1, <1>6, <2>3
  <2>5. \A i \in 1..Len(q) : \/ i \in 1..Len(queue) /\ q[i] = queue[i]
                             \/ q[i] = p
                             \/ q[i] = x
    BY <1>7, <2>3, <2>4
  <2>6. AddsUp(q, g, Cardinality(N))
    <3>1. 0 + Cardinality(N) = Cardinality(N)
      BY <1>2
    <3> QED BY <2>2, <3>1
  <2> QED BY <1>1, <1>6, <1>9, <2>3, <2>5, <2>6 DEF p, x
<1> QED BY <1>8, <1>9

LEMMA TakesHolds ==
    ASSUME IndexIInv, NEW m \in Models, Takes(m), open' = TRUE,
           host = "worker" => Asleep,
           UNCHANGED <<host, cur, emb, undone, batch, recall, counters>>
    PROVE  IndexIInv'
<1> DEFINE g == gen + 1
           N == Missing(m)
<1>1. /\ gen' = g /\ model' = m /\ failed' = {} /\ cache' = NoCache /\ preparing' = TRUE
      /\ indexing' = Cardinality(N) /\ gen < MaxGen
      /\ queue' = Append(queue, Prepare(g)) \o Scheduled(g, N)
  BY DEF Takes
<1>2. NotesHold' /\ VectorsHold' /\ \A v : (WasCurrent(v)' <=> WasCurrent(v)) /\ (Known(v)' <=> Known(v))
  BY NotesUntouched DEF counters
<1>3. /\ N \subseteq Version /\ Cardinality(N) \in Nat
      /\ N # {} => Cardinality(N) > 0
      /\ \A v \in N : Known(v)
  BY MissingAre
<1>4. /\ queue' \in Seq(Tasks)
      /\ AddsUp(queue', g, Cardinality(N))
      /\ \A i \in 1..Len(queue') : \/ i \in 1..Len(queue) /\ queue'[i] = queue[i]
                                   \/ queue'[i] = Prepare(g)
                                   \/ N # {} /\ queue'[i] = Index(g, N)
  BY <1>1, TakenQueue DEF Taken
<1>5. gen \in Nat /\ g \in 1..MaxGen /\ MaxGen \in Nat
  BY <1>1, ConstantsAssumption DEF IndexIInv, IndexTypeOK
<1> HIDE DEF N
<1>6. IndexTypeOK'
  BY <1>1, <1>3, <1>4, <1>5 DEF IndexIInv, IndexTypeOK, Tasks, NoCache, counters
<1>7. QueueHolds'
  <2>1. /\ \A t \in Tasks : GoodTask(t) => GoodTask(t)'
        /\ \A t \in {Prepare(g)} : t \in Tasks /\ GoodTask(t)'
        /\ N # {} => \A t \in {Index(g, N)} : t \in Tasks /\ GoodTask(t)'
    <3>1. \A t \in Tasks : GoodTask(t) => GoodTask(t)'
      BY <1>1, <1>2, <1>5, GoodStays
    <3>2. Prepare(g) \in Tasks /\ Index(g, N) \in Tasks
      BY <1>3, <1>5 DEF Prepare, Index, Tasks
    <3>3. \A t \in {Prepare(g)} : GoodTask(t)'
      BY <1>1, <1>5 DEF Prepare, GoodTask
    <3>4. N # {} => \A t \in {Index(g, N)} : GoodTask(t)'
      BY <1>1, <1>2, <1>3, <1>5 DEF Index, GoodTask
    <3> QED BY <3>1, <3>2, <3>3, <3>4
  <2>2. \A i \in 1..Len(queue') : \E t \in Tasks : t = queue'[i] /\ GoodTask(t)'
    BY <1>4, <2>1, QueueIs
  <2>3. \A v \in batch.of' : Known(v)'
    BY <1>2 DEF IndexIInv, QueueHolds
  <2>4. batch' # NoBatch => queue' # <<>>
    <3>1. Len(queue) < Len(queue')
      BY <1>1, TakenQueue DEF Taken
    <3> QED BY <1>4, <3>1, QueueIs, EmptySeq
  <2> QED BY <2>2, <2>3, <2>4, QueueGood
<1>8. LedgerHolds'
  BY <1>1, <1>4 DEF LedgerHolds
<1>9. ModelHolds'
  BY <1>1, <1>5, ConstantsAssumption DEF ModelHolds
<1>10. RecallHolds'
  BY <1>2 DEF IndexIInv, RecallHolds, Awake, Asleep
<1>11. CacheHolds'
  BY <1>1 DEF CacheHolds, NoCache
<1> QED BY <1>2, <1>6, <1>7, <1>8, <1>9, <1>10, <1>11 DEF IndexIInv

LEMMA DropsHolds ==
    ASSUME IndexIInv, Drops, open' = TRUE,
           host = "worker" => Asleep,
           UNCHANGED <<host, cur, emb, undone, batch, recall, counters>>
    PROVE  IndexIInv'
<1>1. /\ gen' = gen + 1 /\ model' = NoModel /\ failed' = {} /\ cache' = NoCache
      /\ preparing' = FALSE /\ indexing' = 0 /\ gen < MaxGen /\ queue' = queue
  BY DEF Drops
<1>2. NotesHold' /\ VectorsHold' /\ \A v : (WasCurrent(v)' <=> WasCurrent(v)) /\ (Known(v)' <=> Known(v))
  BY NotesUntouched DEF counters
<1>3. /\ gen \in Nat /\ MaxGen \in Nat /\ queue \in Seq(Tasks)
      /\ \A i \in 1..Len(queue) : queue[i] \in Tasks /\ GoodTask(queue[i])
  BY QueueIs
<1>4. IndexTypeOK'
  <2>1. gen' \in 0..MaxGen
    BY <1>1, <1>3
  <2> QED BY <1>1, <2>1 DEF IndexIInv, IndexTypeOK, NoCache, counters
<1>5. QueueHolds'
  <2>1. \A t \in Tasks : GoodTask(t) => GoodTask(t)'
    BY <1>1, <1>2, <1>3, GoodStays
  <2>2. (\A v \in batch.of' : Known(v)') /\ (batch' # NoBatch => queue' # <<>>)
    BY <1>1, <1>2 DEF IndexIInv, QueueHolds
  <2> QED BY <1>1, <1>3, <2>1, <2>2, QueueGood
<1>6. LedgerHolds'
  <2>1. \A i \in 1..Len(queue) : Weight(queue[i], gen + 1) = 0
    BY <1>3, TasksAre DEF Weight, GoodTask
  <2> QED BY <1>1, <1>3, <2>1, NothingAdds DEF LedgerHolds
<1>7. ModelHolds'
  BY <1>1 DEF ModelHolds
<1>8. RecallHolds'
  BY <1>2 DEF IndexIInv, RecallHolds, Awake, Asleep
<1>9. CacheHolds'
  BY <1>1 DEF CacheHolds, NoCache
<1> QED BY <1>2, <1>4, <1>5, <1>6, <1>7, <1>8, <1>9 DEF IndexIInv

LEMMA ClosedAsleep ==
    ASSUME IndexIInv, ~open
    PROVE  Asleep
  BY DEF IndexIInv, ModelHolds, Asleep, NoRecall

LEMMA CloseHolds ==
    ASSUME IndexIInv, Close
    PROVE  IndexIInv'
<1>1. /\ open' = FALSE /\ model' = NoModel /\ preparing' = FALSE /\ failed' = {}
      /\ indexing' = 0 /\ queue' = <<>> /\ batch' = NoBatch /\ cache' = NoCache
      /\ recall' = NoRecall /\ UNCHANGED <<host, cur, emb, undone, gen, saves, recalls>>
  BY DEF Close, counters
<1>2. NotesHold' /\ VectorsHold'
  BY <1>1, NotesUntouched
<1>3. <<>> \in Seq(Tasks) /\ Len(<<>>) = 0
  OBVIOUS
<1>4. IndexTypeOK'
  <2>1. NoRecall \in [pc : {"none", "waiting", "embedding", "ranking", "answered"}, gen : 0..MaxGen,
                      lex : SUBSET Version, sem : SUBSET Version, ahead : Nat]
    BY ConstantsAssumption DEF NoRecall
  <2>2. NoBatch \in [gen : 0..MaxGen, of : SUBSET Version]
    BY ConstantsAssumption DEF NoBatch
  <2> QED BY <1>1, <1>3, <2>1, <2>2 DEF IndexIInv, IndexTypeOK, NoCache, Tasks
<1>5. QueueHolds'
  BY <1>1, <1>3 DEF QueueHolds, NoBatch
<1>6. LedgerHolds'
  <2>1. \A i \in 1..Len(<<>>) : Weight(<<>>[i], gen) = 0
    BY <1>3
  <2>2. AddsUp(<<>>, gen, 0)
    BY <1>3, <2>1, NothingAdds
  <2> QED BY <1>1, <2>2 DEF LedgerHolds
<1>7. ModelHolds' /\ CacheHolds'
  BY <1>1 DEF ModelHolds, CacheHolds, NoCache
<1>8. RecallHolds'
  BY <1>1 DEF RecallHolds, NoRecall, Awake
<1> QED BY <1>2, <1>4, <1>5, <1>6, <1>7, <1>8 DEF IndexIInv

-----------------------------------------------------------------------------
(* The queue.                                                              *)

\* What a recall goes by is as it was, unless it was counted among those that wait.
LEMMA RecallStays ==
    ASSUME IndexIInv, UNCHANGED <<host, cur, undone, saves, emb, gen, model>>,
           recall'.pc = recall.pc, recall'.gen = recall.gen, recall'.lex = recall.lex,
           recall'.sem = recall.sem, recall'.pc # "waiting" => recall'.ahead = 0,
           (host = "worker" /\ indexing = 0) => indexing' = 0
    PROVE  RecallHolds'
<1>1. \A v : (WasCurrent(v)' <=> WasCurrent(v)) /\ (IsCurrent(v)' <=> IsCurrent(v))
  BY DEF WasCurrent, IsCurrent
<1> QED BY <1>1 DEF IndexIInv, RecallHolds, Awake

LEMMA RowsStay ==
    ASSUME UNCHANGED <<cur, emb, model>>
    PROVE  Rows' = Rows /\ Usable(Rows)' = Usable(Rows)
<1>1. Rows' = Rows
  BY DEF Rows, ChunksOf, IndexedBy, Exists
<1> QED BY <1>1 DEF Usable

LEMMA CacheStays ==
    ASSUME IndexIInv, UNCHANGED <<host, cur, emb, model, cache>>,
           (host = "worker" /\ indexing = 0) => indexing' = 0
    PROVE  CacheHolds'
<1>1. Rows' = Rows /\ Usable(Rows)' = Usable(Rows)
  BY RowsStay
<1> QED BY <1>1 DEF IndexIInv, CacheHolds

LEMMA FirstIs ==
    ASSUME IndexIInv, queue # <<>>
    PROVE  /\ Task = queue[1] /\ Task \in Tasks /\ GoodTask(Task)
           /\ Weight(Task, gen) <= indexing
           /\ (~Stale /\ ~Task.prepare) => Weight(Task, gen) = Task.size /\ Task.size > 0
<1>1. 1 \in 1..Len(queue) /\ Task = queue[1]
  <2>1. Len(queue) # 0
    BY QueueIs, EmptySeq
  <2> QED BY <2>1, QueueIs DEF Task
<1>2. Task \in Tasks /\ GoodTask(Task)
  BY <1>1, QueueIs
<1>3. Weight(queue[1], gen) <= indexing
  BY QueueIs, LessAdds DEF IndexIInv, LedgerHolds
<1> QED BY <1>1, <1>2, <1>3 DEF Weight, GoodTask, Stale

LEMMA BusyIs ==
    ASSUME IndexIInv, Busy
    PROVE  queue # <<>>
  BY DEF IndexIInv, QueueHolds, Busy

\* The first task is taken off, and whoever waits for it is told.
LEMMA PoppedAre ==
    ASSUME IndexIInv, queue # <<>>, Popped, UNCHANGED <<cur, undone, gen>>
    PROVE  /\ queue' \in Seq(Tasks) /\ QueueHolds'
           /\ AddsUp(queue', gen, indexing - Weight(Task, gen))
           /\ batch' \in [gen : 0..MaxGen, of : SUBSET Version]
           /\ recall' \in [pc : {"none", "waiting", "embedding", "ranking", "answered"},
                           gen : 0..MaxGen, lex : SUBSET Version, sem : SUBSET Version,
                           ahead : Nat]
           /\ recall'.pc = recall.pc /\ recall'.gen = recall.gen /\ recall'.lex = recall.lex
           /\ recall'.sem = recall.sem /\ (recall'.pc # "waiting" => recall' = recall)
           /\ recall'.pc # "waiting" => recall'.ahead = 0
<1>1. /\ queue' = Tail(queue) /\ batch' = NoBatch
      /\ recall' = IF recall.ahead > 0 THEN [recall EXCEPT !.ahead = @ - 1] ELSE recall
  BY DEF Popped
<1>2. /\ queue' \in Seq(Tasks) /\ Len(queue') = Len(queue) - 1
      /\ \A i \in 1..Len(queue') : queue'[i] = queue[i + 1]
  BY <1>1, QueueIs, HeadTailProperties
<1>3. AddsUp(queue', gen, indexing - Weight(Task, gen))
  BY <1>1, FirstIs, QueueIs, LessAdds DEF IndexIInv, LedgerHolds
<1>4. QueueHolds'
  <2>1. \A t \in Tasks : GoodTask(t) => GoodTask(t)'
    BY QueueIs, GoodStays DEF Known, WasCurrent
  <2>2. \A i \in 1..Len(queue') : queue'[i] \in Tasks /\ GoodTask(queue'[i])
    <3> SUFFICES ASSUME NEW i \in 1..Len(queue')
                 PROVE  queue'[i] \in Tasks /\ GoodTask(queue'[i])
      OBVIOUS
    <3>1. i + 1 \in 1..Len(queue) /\ queue'[i] = queue[i + 1]
      BY <1>2, QueueIs
    <3> QED BY <3>1, QueueIs
  <2> QED BY <1>1, <2>1, <2>2, QueueGood DEF NoBatch
<1>5. recall \in [pc : {"none", "waiting", "embedding", "ranking", "answered"},
                  gen : 0..MaxGen, lex : SUBSET Version, sem : SUBSET Version, ahead : Nat]
  BY DEF IndexIInv, IndexTypeOK
<1>6. recall.pc # "waiting" => recall.ahead = 0
  BY DEF IndexIInv, RecallHolds
<1>7. NoBatch \in [gen : 0..MaxGen, of : SUBSET Version]
  BY ConstantsAssumption DEF NoBatch
<1>8. CASE recall.ahead > 0
  <2>1. recall' = [recall EXCEPT !.ahead = recall.ahead - 1] /\ recall.ahead - 1 \in Nat
    BY <1>1, <1>5, <1>8
  <2>2. recall.pc = "waiting"
    BY <1>6, <1>8
  <2>3. /\ recall' \in [pc : {"none", "waiting", "embedding", "ranking", "answered"},
                       gen : 0..MaxGen, lex : SUBSET Version, sem : SUBSET Version,
                       ahead : Nat]
        /\ recall'.pc = recall.pc /\ recall'.gen = recall.gen /\ recall'.lex = recall.lex
        /\ recall'.sem = recall.sem
    BY <1>5, <2>1
  <2> QED BY <1>1, <1>2, <1>3, <1>4, <1>7, <2>2, <2>3
<1>9. CASE ~(recall.ahead > 0)
  BY <1>1, <1>2, <1>3, <1>4, <1>5, <1>6, <1>7, <1>9
<1> QED BY <1>8, <1>9

LEMMA DropStaleHolds ==
    ASSUME IndexIInv, DropStale
    PROVE  IndexIInv'
<1>1. /\ queue # <<>> /\ Stale /\ Popped /\ open
      /\ UNCHANGED <<host, cur, emb, undone, open, model, gen, preparing, failed, indexing,
                     cache, saves, recalls>>
  BY DEF DropStale, coordinator, counters
<1>2. NotesHold' /\ VectorsHold'
  BY <1>1, NotesUntouched
<1>3. IndexTypeOK'
  BY <1>1, PoppedAre DEF IndexIInv, IndexTypeOK, Tasks
<1>4. QueueHolds'
  BY <1>1, PoppedAre
<1>5. LedgerHolds'
  <2>1. Weight(Task, gen) = 0
    BY <1>1 DEF Stale, Weight
  <2>2. indexing - 0 = indexing
    BY QueueIs
  <2> QED BY <1>1, <2>1, <2>2, PoppedAre DEF LedgerHolds
<1>6. ModelHolds'
  BY <1>1 DEF IndexIInv, ModelHolds
<1>7. RecallHolds'
  BY <1>1, PoppedAre, RecallStays
<1>8. CacheHolds'
  BY <1>1, CacheStays
<1> QED BY <1>2, <1>3, <1>4, <1>5, <1>6, <1>7, <1>8 DEF IndexIInv

LEMMA PreparedHolds ==
    ASSUME IndexIInv, NEW ok \in BOOLEAN, Prepared(ok)
    PROVE  IndexIInv'
<1>1. /\ queue # <<>> /\ Task.prepare /\ Popped /\ open /\ preparing' = FALSE
      /\ failed' \in {failed, failed \cup {"prepare"}}
      /\ UNCHANGED <<host, cur, emb, undone, open, model, gen, indexing, cache, saves, recalls>>
  BY BusyIs DEF Prepared, counters
<1>2. NotesHold' /\ VectorsHold'
  BY <1>1, NotesUntouched
<1>3. IndexTypeOK'
  BY <1>1, PoppedAre DEF IndexIInv, IndexTypeOK, Tasks
<1>4. QueueHolds'
  BY <1>1, PoppedAre
<1>5. LedgerHolds'
  <2>1. Weight(Task, gen) = 0
    BY <1>1 DEF Weight
  <2>2. indexing - 0 = indexing
    BY QueueIs
  <2> QED BY <1>1, <2>1, <2>2, PoppedAre DEF LedgerHolds
<1>6. ModelHolds'
  BY <1>1 DEF IndexIInv, ModelHolds
<1>7. RecallHolds'
  BY <1>1, PoppedAre, RecallStays
<1>8. CacheHolds'
  BY <1>1, CacheStays
<1> QED BY <1>2, <1>3, <1>4, <1>5, <1>6, <1>7, <1>8 DEF IndexIInv

LEMMA StartBatchHolds ==
    ASSUME IndexIInv, StartBatch
    PROVE  IndexIInv'
<1>1. PICK N \in SUBSET Task.left :
         /\ batch' = [gen |-> gen, of |-> N]
         /\ queue' = [queue EXCEPT ![1].left = @ \ N]
  BY DEF StartBatch
<1>2. /\ queue # <<>> /\ open
      /\ UNCHANGED <<host, cur, emb, undone, open, model, gen, preparing, failed, indexing,
                     cache, recall, saves, recalls>>
  BY DEF StartBatch, coordinator, counters
<1>3. /\ NotesHold' /\ VectorsHold'
      /\ \A v : Known(v)' <=> Known(v)
  BY <1>2, NotesUntouched
<1>4. /\ Task = queue[1] /\ Task \in Tasks /\ GoodTask(Task) /\ 1 \in 1..Len(queue)
      /\ N \subseteq Version
  BY <1>2, FirstIs, QueueIs, EmptySeq, TasksAre
<1> DEFINE t1 == [Task EXCEPT !.left = @ \ N]
<1>5. /\ t1 \in Tasks /\ GoodTask(t1) /\ Weight(t1, gen) = Weight(Task, gen)
  <2>1. t1 \in Tasks /\ t1.gen = Task.gen /\ t1.prepare = Task.prepare /\ t1.size = Task.size
        /\ t1.left = Task.left \ N
    BY <1>4 DEF Tasks
  <2> QED BY <1>4, <2>1 DEF GoodTask, Weight
<1>6. queue' = [queue EXCEPT ![1] = t1]
  BY <1>1, <1>4, QueueIs
<1> HIDE DEF t1
<1>7. /\ queue' \in Seq(Tasks) /\ Len(queue') = Len(queue)
      /\ \A i \in 1..Len(queue) : queue'[i] = IF i = 1 THEN t1 ELSE queue[i]
  BY <1>4, <1>5, <1>6, QueueIs, ExceptSeq
<1>8. IndexTypeOK'
  <2>1. batch' \in [gen : 0..MaxGen, of : SUBSET Version]
    BY <1>1, <1>4, QueueIs
  <2> QED BY <1>2, <1>7, <2>1 DEF IndexIInv, IndexTypeOK, Tasks
<1>9. QueueHolds'
  <2>1. \A t \in Tasks : GoodTask(t) => GoodTask(t)'
    BY <1>2, <1>3, QueueIs, GoodStays
  <2>2. \A i \in 1..Len(queue') : queue'[i] \in Tasks /\ GoodTask(queue'[i])
    BY <1>5, <1>7, QueueIs
  <2>3. \A v \in batch.of' : Known(v)'
    BY <1>1, <1>3, <1>4 DEF GoodTask
  <2>4. queue' # <<>>
    BY <1>4, <1>7, QueueIs, EmptySeq
  <2> QED BY <2>1, <2>2, <2>3, <2>4, QueueGood
<1>10. LedgerHolds'
  <2>1. \A i \in 1..Len(queue) : Weight(queue'[i], gen) = Weight(queue[i], gen)
    BY <1>4, <1>5, <1>7
  <2>2. AddsUp(queue', gen, indexing)
    BY <1>7, <2>1, QueueIs, AddsAsBefore DEF IndexIInv, LedgerHolds
  <2> QED BY <1>2, <2>2 DEF LedgerHolds
<1>11. ModelHolds'
  BY <1>2 DEF IndexIInv, ModelHolds
<1>12. RecallHolds' /\ CacheHolds'
  <2>1. recall.pc # "waiting" => recall.ahead = 0
    BY DEF IndexIInv, RecallHolds
  <2> QED BY <1>2, <2>1, RecallStays, CacheStays
<1> QED BY <1>3, <1>8, <1>9, <1>10, <1>11, <1>12 DEF IndexIInv

\* The vectors written are of versions that work was queued for.
LEMMA WrittenAre ==
    ASSUME IndexIInv, emb' = VectorsWritten, UNCHANGED <<cur, undone, saves>>
    PROVE  /\ emb' \in [Notes -> [rev : Revs, save : 0..MaxSaves, model : Models \cup {NoModel}]]
           /\ NotesHold' /\ VectorsHold'
<1>1. NotesHold'
  BY DEF IndexIInv, NotesHold, Exists
<1>2. /\ emb \in [Notes -> [rev : Revs, save : 0..MaxSaves, model : Models \cup {NoModel}]]
      /\ model \in Models \cup {NoModel} /\ batch.of \subseteq Version
      /\ \A v \in batch.of : Known(v)
      /\ \A v : Known(v)' <=> Known(v)
  BY DEF IndexIInv, IndexTypeOK, QueueHolds, Known, WasCurrent
<1>3. ASSUME NEW n \in Notes
      PROVE  /\ emb'[n] \in [rev : Revs, save : 0..MaxSaves, model : Models \cup {NoModel}]
             /\ emb'[n].rev > 0 => /\ emb'[n].save > 0
                                   /\ Known([note |-> n, rev |-> emb'[n].rev, save |-> emb'[n].save])
  <2> DEFINE of == {v \in batch.of : v.note = n /\ FreshVersion(v)}
             w == CHOOSE v \in of : TRUE
  <2>1. emb'[n] = IF of = {} THEN emb[n] ELSE [rev |-> w.rev, save |-> w.save, model |-> model]
    BY DEF VectorsWritten
  <2>2. CASE of = {}
    BY <1>2, <2>1, <2>2 DEF IndexIInv, VectorsHold, RowOf
  <2>3. CASE of # {}
    <3>1. w \in of
      BY <2>3
    <3>2. w \in Version /\ w.note = n /\ Known(w)
      BY <1>2, <3>1
    <3>3. emb'[n] = [rev |-> w.rev, save |-> w.save, model |-> model]
      BY <2>1, <2>3
    <3> HIDE DEF w, of
    <3>4. /\ w.rev \in Revs /\ w.save \in 1..MaxSaves /\ w.save > 0 /\ w.save \in 0..MaxSaves
          /\ w = [note |-> n, rev |-> w.rev, save |-> w.save]
      BY <3>2, VersionsAre DEF Version
    <3> QED BY <1>2, <3>2, <3>3, <3>4
  <2> QED BY <2>2, <2>3
<1>4. emb' = [n \in Notes |-> emb'[n]]
  BY DEF VectorsWritten
<1>5. VectorsHold'
  BY <1>2, <1>3 DEF VectorsHold, RowOf
<1> QED BY <1>1, <1>3, <1>4, <1>5

\* A task of the model in use is counted.
LEMMA UnderWay ==
    ASSUME IndexIInv, Busy, ~Stale, ~Task.prepare
    PROVE  /\ queue # <<>> /\ Task.size \in Nat /\ Task.size > 0 /\ Task.size <= indexing
           /\ Weight(Task, gen) = Task.size /\ indexing > 0
           /\ indexing - Task.size \in Nat
  BY BusyIs, FirstIs, TasksAre, QueueIs

\* What a recall of the worker and the cache go by does not hold while one is under way.
LEMMA NotCached ==
    ASSUME IndexIInv, indexing > 0, UNCHANGED <<host, cache>>
    PROVE  CacheHolds'
<1>1. ~(host = "worker" /\ cache.built)
  BY DEF IndexIInv, CacheHolds
<1> QED BY <1>1 DEF CacheHolds

LEMMA NotAwaited ==
    ASSUME IndexIInv, indexing > 0, UNCHANGED <<host, cur, gen>>,
           recall'.pc = recall.pc, recall'.gen = recall.gen, recall'.lex = recall.lex,
           recall'.sem = recall.sem, recall'.pc # "waiting" => recall'.ahead = 0
    PROVE  RecallHolds'
<1>1. \A v : (WasCurrent(v)' <=> WasCurrent(v)) /\ (IsCurrent(v)' <=> IsCurrent(v))
  BY DEF WasCurrent, IsCurrent
<1> QED BY <1>1 DEF IndexIInv, RecallHolds, Awake

LEMMA BatchWrittenHolds ==
    ASSUME IndexIInv, BatchWritten
    PROVE  IndexIInv'
<1>1. /\ open /\ Busy /\ ~Stale /\ ~Task.prepare /\ emb' = VectorsWritten
      /\ UNCHANGED <<host, cur, undone, open, model, gen, preparing, cache, saves, recalls>>
  BY DEF BatchWritten, counters
<1>2. /\ emb' \in [Notes -> [rev : Revs, save : 0..MaxSaves, model : Models \cup {NoModel}]]
      /\ NotesHold' /\ VectorsHold'
  BY <1>1, WrittenAre
<1>3. /\ queue # <<>> /\ indexing > 0 /\ Weight(Task, gen) = Task.size
      /\ indexing - Task.size \in Nat
  BY <1>1, UnderWay
<1>4. CacheHolds'
  BY <1>1, <1>3, NotCached
<1>5. CASE Task.left # {}
  <2>1. batch' = NoBatch /\ UNCHANGED <<queue, recall, failed, indexing>>
    BY <1>5 DEF BatchWritten
  <2>2. IndexTypeOK'
    <3>1. NoBatch \in [gen : 0..MaxGen, of : SUBSET Version]
      BY ConstantsAssumption DEF NoBatch
    <3> QED BY <1>1, <1>2, <2>1, <3>1 DEF IndexIInv, IndexTypeOK
  <2>3. QueueHolds'
    <3>1. \A t \in Tasks : GoodTask(t) => GoodTask(t)'
      BY <1>1, QueueIs, GoodStays DEF Known, WasCurrent
    <3> QED BY <2>1, <3>1, QueueIs, QueueGood DEF NoBatch
  <2>4. LedgerHolds' /\ ModelHolds'
    BY <1>1, <2>1 DEF IndexIInv, LedgerHolds, ModelHolds
  <2>5. RecallHolds'
    <3>1. recall.pc # "waiting" => recall.ahead = 0
      BY DEF IndexIInv, RecallHolds
    <3> QED BY <1>1, <1>3, <2>1, <3>1, NotAwaited
  <2> QED BY <1>2, <1>4, <2>2, <2>3, <2>4, <2>5 DEF IndexIInv
<1>6. CASE Task.left = {}
  <2>1. /\ Popped /\ indexing' = indexing - Task.size
        /\ failed' \in {failed, failed \ {"index"}}
    BY <1>6 DEF BatchWritten
  <2>2. IndexTypeOK'
    BY <1>1, <1>2, <1>3, <2>1, PoppedAre DEF IndexIInv, IndexTypeOK, Tasks
  <2>3. QueueHolds' /\ LedgerHolds'
    BY <1>1, <1>3, <2>1, PoppedAre DEF LedgerHolds
  <2>4. ModelHolds'
    BY <1>1 DEF IndexIInv, ModelHolds
  <2>5. RecallHolds'
    BY <1>1, <1>3, <2>1, PoppedAre, NotAwaited
  <2> QED BY <1>2, <1>4, <2>2, <2>3, <2>4, <2>5 DEF IndexIInv
<1> QED BY <1>5, <1>6

LEMMA BatchTiresHolds ==
    ASSUME IndexIInv, BatchTires
    PROVE  IndexIInv'
<1>1. /\ failed' = failed \cup {"index"}
      /\ UNCHANGED <<host, cur, emb, undone, open, model, gen, preparing, indexing, queue,
                     batch, cache, recall, saves, recalls>>
  BY DEF BatchTires, counters
<1>2. NotesHold' /\ VectorsHold' /\ \A v : Known(v)' <=> Known(v)
  BY <1>1, NotesUntouched
<1>3. IndexTypeOK' /\ LedgerHolds' /\ ModelHolds'
  BY <1>1 DEF IndexIInv, IndexTypeOK, LedgerHolds, ModelHolds
<1>4. QueueHolds'
  BY <1>1, <1>2 DEF IndexIInv, QueueHolds, GoodTask
<1>5. RecallHolds' /\ CacheHolds'
  <2>1. recall.pc # "waiting" => recall.ahead = 0
    BY DEF IndexIInv, RecallHolds
  <2> QED BY <1>1, <2>1, RecallStays, CacheStays
<1> QED BY <1>2, <1>3, <1>4, <1>5 DEF IndexIInv

LEMMA BatchFailsHolds ==
    ASSUME IndexIInv, BatchFails
    PROVE  IndexIInv'
<1>1. /\ open /\ Busy /\ ~Stale /\ ~Task.prepare /\ Popped
      /\ failed' = failed \cup {"index"} /\ indexing' = indexing - Task.size
      /\ UNCHANGED <<host, cur, emb, undone, open, model, gen, preparing, cache, saves, recalls>>
  BY DEF BatchFails, Finished, counters
<1>2. NotesHold' /\ VectorsHold'
  BY <1>1, NotesUntouched
<1>3. /\ queue # <<>> /\ indexing > 0 /\ Weight(Task, gen) = Task.size
      /\ indexing - Task.size \in Nat
  BY <1>1, UnderWay
<1>4. IndexTypeOK'
  BY <1>1, <1>3, PoppedAre DEF IndexIInv, IndexTypeOK, Tasks
<1>5. QueueHolds' /\ LedgerHolds'
  BY <1>1, <1>3, PoppedAre DEF LedgerHolds
<1>6. ModelHolds'
  BY <1>1 DEF IndexIInv, ModelHolds
<1>7. RecallHolds'
  BY <1>1, <1>3, PoppedAre, NotAwaited
<1>8. CacheHolds'
  BY <1>1, <1>3, NotCached
<1> QED BY <1>2, <1>4, <1>5, <1>6, <1>7, <1>8 DEF IndexIInv

-----------------------------------------------------------------------------
(* The owner.                                                              *)

\* A save in the worker comes while no recall waits, and undoes the cache.
LEMMA SaveHolds ==
    ASSUME IndexIInv, NEW n \in Notes, NEW kept \in BOOLEAN, Saves(n, kept)
    PROVE  IndexIInv'
<1> DEFINE v == [note |-> n, rev |-> cur[n].rev + 1, save |-> saves + 1]
           t == Index(gen, {v})
<1>1. /\ Free /\ saves' = saves + 1
      /\ IF model = NoModel THEN UNCHANGED <<indexing, queue, cache>>
         ELSE indexing' = indexing + 1 /\ queue' = Append(queue, t) /\ cache' = NoCache
      /\ UNCHANGED <<host, emb, open, model, gen, preparing, failed, batch, recall, recalls>>
  BY DEF Saves, Save, Saved
<1>2. /\ v \in Version /\ saves + 1 <= MaxSaves
      /\ cur' \in [Notes -> [rev : Revs, save : 0..MaxSaves]]
      /\ \A m \in Notes : m # n => cur'[m] = cur[m]
      /\ kept => cur'[n].rev = v.rev /\ cur'[n].save = v.save /\ undone' = undone
      /\ ~kept => undone' = undone \cup {v}
      /\ (~kept /\ Exists(n)) => cur' = cur
      /\ (~kept /\ ~Exists(n)) =>
           cur[n].rev = 0 /\ cur[n].save = 0 /\ cur'[n].rev = 1 /\ cur'[n].save = 0
    BY SavesAre DEF IndexIInv
<1>3. /\ IndexTypeOK /\ NotesHold /\ saves \in Nat
      /\ \A m \in Notes : /\ cur[m].rev \in Nat /\ cur[m].save \in Nat
                          /\ cur[m].rev <= saves /\ cur[m].save <= saves
                          /\ Exists(m) => cur[m].rev > 0
      /\ \A w \in Version : (WasCurrent(w) => WasCurrent(w)') /\ (Known(w) => Known(w)')
  BY NotesAre, ReadStays DEF IndexIInv, NotesHold
<1>4. \A w \in Version : w = v => Known(w)'
  <2> SUFFICES ASSUME NEW w \in Version, w = v
               PROVE  Known(w)'
    OBVIOUS
  <2>1. w.note = n /\ w.rev = v.rev /\ w.save = v.save
    OBVIOUS
  <2> HIDE DEF v
  <2>2. CASE kept
    BY <1>2, <2>1, <2>2 DEF Known, WasCurrent
  <2>3. CASE ~kept
    BY <1>2, <2>3 DEF Known
  <2> QED BY <2>2, <2>3
<1>5. NotesHold'
  <2>1. saves' \in 0..MaxSaves
    BY <1>1, <1>2, <1>3, ConstantsAssumption
  <2>2. ASSUME NEW m \in Notes
        PROVE  /\ cur'[m].rev <= saves' /\ cur'[m].save <= saves'
               /\ cur'[m].save # 0 => cur'[m].rev > 0
    <3>1. CASE m # n
      BY <1>1, <1>2, <1>3, <3>1 DEF Exists
    <3>2. CASE m = n /\ kept
      BY <1>1, <1>2, <1>3, <3>2
    <3>3. CASE m = n /\ ~kept /\ Exists(n)
      BY <1>1, <1>2, <1>3, <3>3 DEF Exists
    <3>4. CASE m = n /\ ~kept /\ ~Exists(n)
      BY <1>1, <1>2, <1>3, <3>4
    <3> QED BY <3>1, <3>2, <3>3, <3>4
  <2> QED BY <2>1, <2>2 DEF NotesHold, Exists
<1>6. VectorsHold'
  <2> SUFFICES ASSUME NEW m \in Notes, emb[m].rev > 0
               PROVE  emb[m].save > 0 /\ Known(RowOf(m))'
    BY <1>1 DEF VectorsHold
  <2>1. emb[m].save > 0 /\ Known(RowOf(m))
    BY DEF IndexIInv, VectorsHold
  <2>2. RowOf(m) \in Version /\ RowOf(m)' = RowOf(m)
    <3>1. emb[m].rev \in Revs /\ emb[m].save \in 1..MaxSaves
      BY <1>3, <2>1, ConstantsAssumption DEF IndexTypeOK, Revs
    <3>2. RowOf(m) \in Version
      BY <3>1 DEF RowOf, Version
    <3>3. emb' = emb
      BY <1>1
    <3> QED BY <3>2, <3>3 DEF RowOf
  <2>3. \A w \in Version : w = RowOf(m) => Known(w)'
    BY <1>3, <2>1
  <2> QED BY <2>1, <2>2, <2>3 DEF Known, WasCurrent
<1>7. recall.pc # "waiting" => recall.ahead = 0
  BY DEF IndexIInv, RecallHolds
<1>8. RecallHolds'
  <2>1. host = "worker" => ~Awake
    BY <1>1 DEF Free, Asleep, Awake
  <2>2. recall.lex \subseteq Version /\ recall.sem \subseteq Version
    BY <1>3 DEF IndexTypeOK
  <2>3. \A w \in recall.lex \cup recall.sem : WasCurrent(w)'
    BY <1>3, <2>2 DEF IndexIInv, RecallHolds
  <2> QED BY <1>1, <1>7, <2>1, <2>3 DEF RecallHolds, Awake
<1>9. ModelHolds'
  BY <1>1 DEF IndexIInv, ModelHolds, Free
<1>10. \A w \in Tasks : GoodTask(w) => GoodTask(w)'
  BY <1>1, <1>3, QueueIs, GoodStays
<1>11. (\A w \in batch.of' : Known(w)')
  BY <1>1, <1>3 DEF IndexIInv, IndexTypeOK, QueueHolds
<1>12. saves' \in 0..MaxSaves /\ undone' \subseteq Version
  BY <1>2, <1>5 DEF IndexIInv, IndexTypeOK, NotesHold
<1> HIDE DEF v
<1>13. CASE model = NoModel
  <2>1. UNCHANGED <<indexing, queue, cache>>
    BY <1>1, <1>13
  <2>2. IndexTypeOK'
    BY <1>1, <1>2, <1>12, <2>1 DEF IndexIInv, IndexTypeOK
  <2>3. QueueHolds'
    <3>1. batch' # NoBatch => queue' # <<>>
      BY <1>1, <2>1 DEF IndexIInv, QueueHolds
    <3> QED BY <1>10, <1>11, <2>1, <3>1, QueueIs, QueueGood
  <2>4. LedgerHolds'
    BY <1>1, <2>1 DEF IndexIInv, LedgerHolds
  <2>5. CacheHolds'
    <3>1. ~(host = "worker" /\ cache.built)
      BY <1>13 DEF IndexIInv, CacheHolds
    <3> QED BY <1>1, <2>1, <3>1 DEF CacheHolds
  <2> QED BY <1>5, <1>6, <1>8, <1>9, <2>2, <2>3, <2>4, <2>5 DEF IndexIInv
<1>14. CASE model # NoModel
  <2>1. indexing' = indexing + 1 /\ queue' = Append(queue, t) /\ cache' = NoCache
    BY <1>1, <1>14
  <2>2. t \in Tasks /\ Weight(t, gen) = 1 /\ t.size = 1 /\ t.gen = gen /\ t.left = {v}
        /\ gen \in 1..MaxGen
    <3>1. Cardinality({v}) = 1
      BY FS_Singleton
    <3>2. gen \in 1..MaxGen
      BY <1>14, QueueIs DEF IndexIInv, ModelHolds
    <3> QED BY <1>2, <3>1, <3>2 DEF Index, Tasks, Weight
  <2> HIDE DEF t
  <2>3. /\ queue' \in Seq(Tasks) /\ Len(queue') = Len(queue) + 1 /\ queue' # <<>>
        /\ \A i \in 1..Len(queue') : (i \in 1..Len(queue) /\ queue'[i] = queue[i]) \/ queue'[i] = t
    <3>1. /\ Append(queue, t) \in Seq(Tasks) /\ Len(Append(queue, t)) = Len(queue) + 1
          /\ Append(queue, t) # <<>>
          /\ \A i \in 1..Len(queue) : Append(queue, t)[i] = queue[i]
          /\ Append(queue, t)[Len(queue) + 1] = t
      BY <2>2, QueueIs, AppendProperties
    <3>2. \A i \in 1..Len(queue) + 1 : i \in 1..Len(queue) \/ i = Len(queue) + 1
      BY QueueIs
    <3> QED BY <2>1, <3>1, <3>2
  <2>4. IndexTypeOK'
    <3>1. IndexTypeOK
      BY DEF IndexIInv
    <3>2. queue' \in Seq(Tasks) /\ indexing' \in Nat
      BY <2>1, <2>3, <3>1 DEF IndexTypeOK
    <3>3. cache' \in [rows : SUBSET Chunk, built : BOOLEAN]
      BY <2>1 DEF NoCache
    <3>4. cur' \in [Notes -> [rev : Revs, save : 0..MaxSaves]] /\ undone' \subseteq Version
      BY <1>2, <1>12
    <3> QED BY <1>1, <3>1, <3>2, <3>3, <3>4 DEF IndexTypeOK, Tasks
  <2>5. QueueHolds'
    <3>1. \A w \in Tasks : w = t => GoodTask(w)'
      <4> SUFFICES ASSUME NEW w \in Tasks, w = t
                   PROVE  GoodTask(w)'
        OBVIOUS
      <4>1. w.gen = gen /\ w.left = {v} /\ w.size = 1
        BY <2>2
      <4>2. \A x \in w.left : Known(x)'
        BY <1>2, <1>4, <4>1
      <4> QED BY <1>1, <4>1, <4>2, QueueIs DEF GoodTask
    <3>2. \A w \in {t} : w \in Tasks /\ GoodTask(w)'
      BY <2>2, <3>1
    <3>3. \A i \in 1..Len(queue') : \E w \in Tasks : w = queue'[i] /\ GoodTask(w)'
      BY <1>10, <2>3, <3>2, QueueIs
    <3> QED BY <1>11, <2>3, <3>3, QueueGood
  <2>6. LedgerHolds'
    <3>1. AddsUp(Append(queue, t), gen, indexing + Weight(t, gen))
      BY <2>2, QueueIs, MoreAdds DEF IndexIInv, LedgerHolds
    <3> QED BY <1>1, <2>1, <2>2, <3>1 DEF LedgerHolds
  <2>7. CacheHolds'
    BY <2>1 DEF CacheHolds, NoCache
  <2> QED BY <1>5, <1>6, <1>8, <1>9, <2>4, <2>5, <2>6, <2>7 DEF IndexIInv
<1> QED BY <1>13, <1>14

LEMMA ForgetHolds ==
    ASSUME IndexIInv, NEW n \in Notes, Forget(n)
    PROVE  IndexIInv'
<1>1. /\ Free /\ cache' = NoCache
      /\ UNCHANGED <<host, undone, open, model, gen, preparing, failed, indexing, queue,
                     batch, recall, saves, recalls>>
  BY DEF Forget, coordinator, counters
<1>2. /\ IndexTypeOK /\ NotesHold
      /\ \A w \in Version : (WasCurrent(w) => WasCurrent(w)') /\ (Known(w) => Known(w)')
      /\ \A m \in Notes : /\ cur[m].rev \in Nat /\ cur[m].save \in Nat
                          /\ emb[m].rev \in Nat /\ emb[m].save \in Nat
  BY NotesAre, ReadStays DEF IndexIInv
<1>3. /\ cur' \in [Notes -> [rev : Revs, save : 0..MaxSaves]]
      /\ \A m \in Notes : m # n => cur'[m] = cur[m] /\ emb'[m] = emb[m]
      /\ cur'[n].rev = cur[n].rev /\ cur'[n].save = 0
      /\ emb'[n] = NoRow
      /\ emb' \in [Notes -> [rev : Revs, save : 0..MaxSaves, model : Models \cup {NoModel}]]
  BY <1>2, ForgetsAre
<1>4. NotesHold'
  BY <1>1, <1>2, <1>3 DEF NotesHold, Exists
<1>5. VectorsHold'
  <2> SUFFICES ASSUME NEW m \in Notes, emb'[m].rev > 0
               PROVE  emb'[m].save > 0 /\ Known(RowOf(m))'
    BY DEF VectorsHold
  <2>1. m # n /\ emb'[m] = emb[m]
    BY <1>3 DEF NoRow
  <2>2. emb[m].save > 0 /\ Known(RowOf(m))
    BY <2>1 DEF IndexIInv, VectorsHold
  <2>3. RowOf(m) \in Version /\ RowOf(m)' = RowOf(m)
    <3>1. emb[m].rev \in Revs /\ emb[m].save \in 1..MaxSaves
      BY <1>2, <2>2, ConstantsAssumption DEF IndexTypeOK, Revs
    <3> QED BY <2>1, <3>1 DEF RowOf, Version
  <2>4. \A w \in Version : w = RowOf(m) => Known(w)'
    BY <1>2, <2>2
  <2> QED BY <2>1, <2>2, <2>3, <2>4 DEF Known, WasCurrent
<1>6. IndexTypeOK'
  BY <1>1, <1>3 DEF IndexIInv, IndexTypeOK, NoCache
<1>7. QueueHolds'
  <2>1. \A w \in Tasks : GoodTask(w) => GoodTask(w)'
    BY <1>1, <1>2, QueueIs, GoodStays
  <2>2. (\A w \in batch.of' : Known(w)') /\ (batch' # NoBatch => queue' # <<>>)
    BY <1>1, <1>2 DEF IndexIInv, IndexTypeOK, QueueHolds
  <2> QED BY <1>1, <2>1, <2>2, QueueIs, QueueGood
<1>8. LedgerHolds' /\ ModelHolds' /\ CacheHolds'
  BY <1>1 DEF IndexIInv, LedgerHolds, ModelHolds, CacheHolds, NoCache
<1>9. RecallHolds'
  <2>1. host = "worker" => ~Awake
    BY <1>1 DEF Free, Asleep, Awake
  <2>2. recall.lex \subseteq Version /\ recall.sem \subseteq Version
    BY <1>2 DEF IndexTypeOK
  <2>3. \A w \in recall.lex \cup recall.sem : WasCurrent(w)'
    BY <1>2, <2>2 DEF IndexIInv, RecallHolds
  <2> QED BY <1>1, <2>1, <2>3 DEF IndexIInv, RecallHolds, Awake
<1> QED BY <1>4, <1>5, <1>6, <1>7, <1>8, <1>9 DEF IndexIInv

-----------------------------------------------------------------------------
(* Recalls.                                                                *)

RecallTypes == [pc : {"none", "waiting", "embedding", "ranking", "answered"}, gen : 0..MaxGen,
                lex : SUBSET Version, sem : SUBSET Version, ahead : Nat]

\* A step that answers does so with notes as they are then.
AnswerStep ==
    recall'.pc = "answered" /\ recall' # recall /\ ~Unchecked =>
        \A v \in recall'.lex : IsCurrent(v)' /\ recall'.gen = gen'

LEMMA RecallIs ==
    ASSUME IndexIInv
    PROVE  /\ recall \in RecallTypes
           /\ recall.lex \subseteq Version /\ recall.sem \subseteq Version
           /\ recall.gen \in 0..MaxGen /\ gen \in 0..MaxGen
           /\ \A v \in recall.lex \cup recall.sem : WasCurrent(v)
  BY DEF IndexIInv, IndexTypeOK, RecallTypes, RecallHolds

\* Only the recall moves, and the cache with it.
LEMMA OnlyRecall ==
    ASSUME IndexIInv, open, recall' \in RecallTypes, cache' \in [rows : SUBSET Chunk, built : BOOLEAN],
           UNCHANGED <<host, cur, emb, undone, open, coordinator, queue, batch, saves>>,
           CacheHolds', recall'.pc # "waiting" => recall'.ahead = 0,
           \A v \in recall'.lex \cup recall'.sem : WasCurrent(v),
           (host = "worker" /\ recall'.pc \in {"waiting", "embedding", "ranking"}) =>
              /\ recall'.gen = gen
              /\ \A v \in recall'.lex : IsCurrent(v)
              /\ recall'.pc # "waiting" => model # NoModel /\ indexing = 0
    PROVE  IndexIInv'
<1>1. UNCHANGED <<model, gen, preparing, failed, indexing>>
  BY DEF coordinator
<1>2. /\ NotesHold' /\ VectorsHold'
      /\ \A v : (WasCurrent(v)' <=> WasCurrent(v)) /\ (Known(v)' <=> Known(v))
                  /\ (IsCurrent(v)' <=> IsCurrent(v))
  BY NotesUntouched
<1>3. IndexTypeOK'
  BY <1>1 DEF IndexIInv, IndexTypeOK, RecallTypes
<1>4. QueueHolds'
  BY <1>1, <1>2 DEF IndexIInv, QueueHolds, GoodTask
<1>5. LedgerHolds' /\ ModelHolds'
  BY <1>1 DEF IndexIInv, LedgerHolds, ModelHolds
<1>6. RecallHolds'
  BY <1>1, <1>2 DEF RecallHolds, Awake
<1> QED BY <1>2, <1>3, <1>4, <1>5, <1>6 DEF IndexIInv

Answered(g, H) == [NoRecall EXCEPT !.pc = "answered", !.gen = g, !.lex = H]

LEMMA AnsweredIs ==
    ASSUME NEW g \in 0..MaxGen, NEW H \in SUBSET Version, NEW r, r = Answered(g, H)
    PROVE  /\ r \in RecallTypes /\ r.pc = "answered" /\ r.gen = g /\ r.lex = H /\ r.sem = {}
           /\ r.ahead = 0
<1>1. r \in RecallTypes
  BY ConstantsAssumption DEF Answered, NoRecall, RecallTypes
<1>2. r.pc = "answered" /\ r.lex = H /\ r.ahead = 0
  BY DEF Answered, NoRecall
<1>3. r.gen = g
  BY DEF Answered, NoRecall
<1>4. r.sem = {}
  BY DEF Answered, NoRecall
<1> QED BY <1>1, <1>2, <1>3, <1>4

\* An answer with H.
LEMMA AnswersHold ==
    ASSUME IndexIInv, open, NEW H \in SUBSET Version, NEW g \in 0..MaxGen,
           cache' \in [rows : SUBSET Chunk, built : BOOLEAN], CacheHolds',
           UNCHANGED <<host, cur, emb, undone, open, coordinator, queue, batch, saves>>,
           recall' = Answered(g, H),
           \A v \in H : WasCurrent(v),
           ~Unchecked => \A v \in H : IsCurrent(v) /\ g = gen
    PROVE  IndexIInv' /\ AnswerStep
<1>2. /\ recall' \in RecallTypes
      /\ recall'.pc = "answered" /\ recall'.ahead = 0 /\ recall'.lex = H /\ recall'.sem = {}
      /\ recall'.gen = g
  BY AnsweredIs
<1>3. IndexIInv'
  <2>1. /\ recall'.pc \notin {"waiting", "embedding", "ranking"}
        /\ recall'.lex \cup recall'.sem = H
    BY <1>2
  <2> QED BY <1>2, <2>1, OnlyRecall
<1>4. gen' = gen /\ \A v : IsCurrent(v)' <=> IsCurrent(v)
  BY DEF coordinator, IsCurrent
<1> QED BY <1>2, <1>3, <1>4 DEF AnswerStep

\* The cache is as it was.
LEMMA CacheKept ==
    ASSUME IndexIInv, UNCHANGED <<host, cur, emb, coordinator, cache>>
    PROVE  CacheHolds' /\ cache' \in [rows : SUBSET Chunk, built : BOOLEAN]
<1>1. model' = model /\ indexing' = indexing
  BY DEF coordinator
<1>2. CacheHolds'
  BY <1>1, CacheStays
<1> QED BY <1>2 DEF IndexIInv, IndexTypeOK

\* What a recall does with the index: it goes on while that is ready, and answers else.
LEMMA LookedHolds ==
    ASSUME IndexIInv, open, NEW r \in RecallTypes, Looked(r),
           r.gen = gen, \A v \in r.lex \cup r.sem : WasCurrent(v),
           host = "worker" => \A v \in r.lex : IsCurrent(v),
           UNCHANGED <<host, cur, emb, undone, open, coordinator, queue, batch, cache, saves>>
    PROVE  IndexIInv' /\ AnswerStep
<1>1. CacheHolds' /\ cache' \in [rows : SUBSET Chunk, built : BOOLEAN]
  BY CacheKept
<1>2. CASE State = "ready"
  <2>1. recall' = [r EXCEPT !.pc = "embedding", !.ahead = 0]
    BY <1>2 DEF Looked
  <2>2. /\ recall' \in RecallTypes /\ recall'.pc = "embedding" /\ recall'.ahead = 0
        /\ recall'.gen = r.gen /\ recall'.lex = r.lex /\ recall'.sem = r.sem
    BY <2>1 DEF RecallTypes
  <2>3. model # NoModel /\ indexing = 0
    BY <1>2, QueueIs DEF State
  <2> QED BY <1>1, <2>2, <2>3, OnlyRecall DEF AnswerStep
<1>3. CASE State # "ready"
  <2>1. recall' = Answered(gen, CurrentResults(r.lex))
    BY <1>3 DEF Looked, Answered
  <2>2. r.lex \subseteq Version
    BY DEF RecallTypes
  <2>3. CurrentResults(r.lex) \subseteq r.lex /\ \A v \in CurrentResults(r.lex) : IsCurrent(v)
    BY <2>2, CurrentResultsAre DEF IndexIInv
  <2>4. gen \in 0..MaxGen
    BY RecallIs
  <2> QED BY <1>1, <2>1, <2>2, <2>3, <2>4, AnswersHold
<1> QED BY <1>2, <1>3

LEMMA AskedIs ==
    ASSUME IndexIInv, NEW H \in SUBSET Version
    PROVE  LET r == [NoRecall EXCEPT !.gen = gen, !.lex = H]
           IN r \in RecallTypes /\ r.pc = "none" /\ r.gen = gen /\ r.lex = H /\ r.sem = {}
<1> DEFINE r == [NoRecall EXCEPT !.gen = gen, !.lex = H]
<1>1. gen \in 0..MaxGen
  BY RecallIs
<1>2. r \in RecallTypes
  BY <1>1, ConstantsAssumption DEF NoRecall, RecallTypes
<1>3. r.pc = "none" /\ r.lex = H
  BY DEF NoRecall
<1>4. r.gen = gen
  BY DEF NoRecall
<1>5. r.sem = {}
  BY DEF NoRecall
<1> QED BY <1>2, <1>3, <1>4, <1>5

LEMMA AskHolds ==
    ASSUME IndexIInv, NEW N \in SUBSET Notes, Ask(Current(N))
    PROVE  IndexIInv' /\ AnswerStep
<1> DEFINE lex == Current(N)
           r == [NoRecall EXCEPT !.gen = gen, !.lex = lex]
<1>1. /\ open /\ UNCHANGED <<host, cur, emb, undone, open, coordinator, queue, batch, cache, saves>>
      /\ IF State = "indexing" /\ lex = {}
         THEN recall' = [r EXCEPT !.pc = "waiting", !.ahead = Len(queue)] ELSE Looked(r)
  BY DEF Ask
<1>2. lex \subseteq Version /\ \A v \in lex : IsCurrent(v) /\ WasCurrent(v)
  BY CurrentAre DEF IndexIInv
<1> HIDE DEF lex
<1>3. r \in RecallTypes /\ r.gen = gen /\ r.lex = lex /\ r.sem = {}
  BY <1>2, AskedIs
<1> HIDE DEF r
<1>5. CASE State = "indexing" /\ lex = {}
  <2>1. recall' = [r EXCEPT !.pc = "waiting", !.ahead = Len(queue)]
    BY <1>1, <1>5
  <2>2. /\ recall' \in RecallTypes /\ recall'.pc = "waiting"
        /\ recall'.gen = r.gen /\ recall'.lex = r.lex /\ recall'.sem = r.sem
    BY <1>3, <2>1, QueueIs DEF RecallTypes
  <2>3. CacheHolds' /\ cache' \in [rows : SUBSET Chunk, built : BOOLEAN]
    BY <1>1, CacheKept
  <2> QED BY <1>1, <1>2, <1>3, <2>2, <2>3, OnlyRecall DEF AnswerStep
<1>6. CASE ~(State = "indexing" /\ lex = {})
  BY <1>1, <1>2, <1>3, <1>6, LookedHolds
<1> QED BY <1>5, <1>6

LEMMA NothingFound ==
    ASSUME IndexIInv, open, recall' = Answer({}),
           UNCHANGED <<host, cur, emb, undone, open, coordinator, queue, batch, cache, saves>>
    PROVE  IndexIInv' /\ AnswerStep
<1>1. CacheHolds' /\ cache' \in [rows : SUBSET Chunk, built : BOOLEAN]
  BY CacheKept
<1>2. recall' = Answered(recall.gen, {})
  BY DEF Answer, Answered
<1>3. {} \in SUBSET Version /\ recall.gen \in 0..MaxGen
  BY RecallIs
<1> QED BY <1>1, <1>2, <1>3, AnswersHold

\* What was found is looked at again once something was awaited.
LEMMA FoundAgain ==
    ASSUME IndexIInv, open, NEW H \in SUBSET (recall.lex \cup recall.sem),
           recall' = Answer(IF SameModel THEN CurrentResults(H) ELSE {}),
           UNCHANGED <<host, cur, emb, undone, open, coordinator, queue, batch, cache, saves>>
    PROVE  IndexIInv' /\ AnswerStep
<1>1. CASE SameModel
  <2>1. H \subseteq Version /\ \A v \in H : WasCurrent(v)
    BY RecallIs
  <2>2. CurrentResults(H) \subseteq H /\ \A v \in CurrentResults(H) : IsCurrent(v)
    BY <2>1, CurrentResultsAre DEF IndexIInv
  <2>3. CacheHolds' /\ cache' \in [rows : SUBSET Chunk, built : BOOLEAN]
    BY CacheKept
  <2>4. recall' = Answer(CurrentResults(H)) /\ recall.gen = gen
    BY <1>1 DEF SameModel
  <2> QED BY <2>1, <2>2, <2>3, <2>4, RecallIs, AnswersHold DEF Answer, Answered
<1>2. CASE ~SameModel
  BY <1>2, NothingFound
<1> QED BY <1>1, <1>2

LEMMA WaitedHolds ==
    ASSUME IndexIInv, Waited
    PROVE  IndexIInv' /\ AnswerStep
<1>1. /\ open /\ recall.pc = "waiting"
      /\ UNCHANGED <<host, cur, emb, undone, open, coordinator, queue, batch, cache, saves>>
  BY DEF Waited, counters
<1>2. CASE ~SameModel
  BY <1>1, <1>2, NothingFound DEF Waited
<1>3. CASE SameModel
  <2>1. Looked(recall) /\ recall.gen = gen
    BY <1>3 DEF Waited, SameModel
  <2>2. host = "worker" => \A v \in recall.lex : IsCurrent(v)
    BY <1>1 DEF IndexIInv, RecallHolds, Awake
  <2> QED BY <1>1, <2>1, <2>2, RecallIs, LookedHolds
<1> QED BY <1>2, <1>3

LEMMA GivesUpHolds ==
    ASSUME IndexIInv, GivesUp
    PROVE  IndexIInv' /\ AnswerStep
  BY FoundAgain DEF GivesUp, Fallback, counters

LEMMA RankedHolds ==
    ASSUME IndexIInv, Ranked
    PROVE  IndexIInv' /\ AnswerStep
  BY FoundAgain DEF Ranked, counters

LEMMA EmbeddedHolds ==
    ASSUME IndexIInv, Embedded
    PROVE  IndexIInv' /\ AnswerStep
<1>1. /\ open /\ recall.pc = "embedding" /\ recall.ahead = 0
      /\ UNCHANGED <<host, cur, emb, undone, open, coordinator, queue, batch, saves>>
  BY DEF Embedded, counters, IndexIInv, RecallHolds
<1>2. CASE ~SameModel
  BY <1>1, <1>2, NothingFound DEF Embedded
<1>3. CASE SameModel
  <2>1. PICK index \in SemanticIndexes :
          /\ cache' = index
          /\ \E near \in SUBSET Hydrated(index.rows) :
                recall' = IF model \in Reranked THEN [recall EXCEPT !.pc = "ranking", !.sem = near]
                          ELSE Answer(recall.lex \cup {v \in near : v.note \notin {l.note : l \in recall.lex}})
    BY <1>3 DEF Embedded
  <2>2. PICK near \in SUBSET Hydrated(index.rows) :
          recall' = IF model \in Reranked THEN [recall EXCEPT !.pc = "ranking", !.sem = near]
                    ELSE Answer(recall.lex \cup {v \in near : v.note \notin {l.note : l \in recall.lex}})
    BY <2>1
  <2>3. host = "worker" => /\ model # NoModel /\ indexing = 0 /\ recall.gen = gen
                           /\ \A v \in recall.lex : IsCurrent(v)
    BY <1>1 DEF IndexIInv, RecallHolds, Awake
  <2>4. Rows \subseteq Chunk
    <3> SUFFICES ASSUME NEW n \in IndexedBy(emb, model), NEW k \in 1..Chunks[emb[n].save]
                 PROVE  [note |-> n, rev |-> emb[n].rev, save |-> emb[n].save, chunk |-> k] \in Chunk
      BY DEF Rows, ChunksOf
    <3>1. n \in Notes /\ emb[n].rev = cur[n].rev /\ Exists(n)
      BY DEF IndexedBy
    <3>2. emb[n].rev > 0 /\ emb[n].rev \in Revs /\ emb[n].save \in 0..MaxSaves
      BY <3>1, NotesAre DEF IndexIInv, IndexTypeOK, NotesHold
    <3>3. emb[n].save \in 1..MaxSaves
      BY <3>1, <3>2, NotesAre, ConstantsAssumption DEF IndexIInv, VectorsHold
    <3>4. k \in Nat
      BY <3>3, ConstantsAssumption
    <3> QED BY <3>1, <3>2, <3>3, <3>4 DEF Chunk
  <2>5. /\ cache' \in [rows : SUBSET Chunk, built : BOOLEAN]
        /\ ~cache.built => /\ index.rows \subseteq Usable(Rows)
                           /\ Cardinality(Rows) <= MaxCandidates => index.rows = Usable(Rows)
    <3>1. CASE cache.built
      BY <2>1, <3>1 DEF SemanticIndexes, IndexIInv, IndexTypeOK
    <3>2. CASE ~cache.built
      <4>1. PICK R \in Fetched : index = [rows |-> Usable(R), built |-> TRUE]
        BY <3>2 DEF SemanticIndexes
      <4>2. R \subseteq Rows /\ (Cardinality(Rows) <= MaxCandidates => R = Rows)
        BY <4>1 DEF Fetched
      <4>3. Usable(R) \subseteq Usable(Rows) /\ Usable(R) \subseteq Chunk
        BY <2>4, <4>2 DEF Usable
      <4> QED BY <2>1, <4>1, <4>2, <4>3
    <3> QED BY <3>1, <3>2
  <2>6. CacheHolds'
    <3>1. model' = model /\ indexing' = indexing
      BY <1>1 DEF coordinator
    <3>2. Rows' = Rows /\ Usable(Rows)' = Usable(Rows)
      BY <1>1, <3>1, RowsStay
    <3>3. host = "worker" =>
            /\ index.rows \subseteq Usable(Rows)
            /\ Cardinality(Rows) <= MaxCandidates => index.rows = Usable(Rows)
      <4>1. CASE cache.built
        <5>1. index = cache
          BY <2>1, <4>1 DEF SemanticIndexes
        <5> QED BY <4>1, <5>1 DEF IndexIInv, CacheHolds
      <4> QED BY <2>5, <4>1
    <3> QED BY <1>1, <2>1, <2>3, <3>1, <3>2, <3>3 DEF CacheHolds
  <2>7. near \subseteq Version /\ \A v \in near : IsCurrent(v) /\ WasCurrent(v)
    <3>1. CurrentResults(index.rows) \subseteq Chunk
      BY <2>1, <2>5 DEF CurrentResults
    <3>2. {v.note : v \in CurrentResults(index.rows)} \subseteq Notes
      BY <3>1 DEF Chunk
    <3> QED BY <3>2, CurrentAre DEF Hydrated, IndexIInv
  <2>8. CASE model \in Reranked
    <3>1. recall' = [recall EXCEPT !.pc = "ranking", !.sem = near]
      BY <2>2, <2>8
    <3>2. /\ recall' \in RecallTypes /\ recall'.pc = "ranking" /\ recall'.ahead = 0
          /\ recall'.gen = recall.gen /\ recall'.lex = recall.lex /\ recall'.sem = near
      BY <1>1, <2>7, <3>1, RecallIs DEF RecallTypes
    <3> QED BY <1>1, <2>3, <2>5, <2>6, <2>7, <3>2, RecallIs, OnlyRecall DEF AnswerStep
  <2>9. CASE model \notin Reranked
    <3> DEFINE H == recall.lex \cup {v \in near : v.note \notin {l.note : l \in recall.lex}}
    <3>1. recall' = Answer(H)
      BY <2>2, <2>9
    <3>2. H \subseteq Version /\ \A v \in H : WasCurrent(v)
      BY <2>7, RecallIs
    <3>3. ~Unchecked => \A v \in H : IsCurrent(v) /\ recall.gen = gen
      BY <1>1, <1>3, <2>3, <2>7, <2>9 DEF Unchecked, SameModel
    <3> HIDE DEF H
    <3> QED BY <1>1, <2>5, <2>6, <3>1, <3>2, <3>3, RecallIs, AnswersHold DEF Answer, Answered
  <2> QED BY <2>8, <2>9
<1> QED BY <1>2, <1>3

-----------------------------------------------------------------------------
(* The index: the theorems.                                                *)

LEMMA IndexInitHolds ==
    ASSUME IndexInit
    PROVE  IndexIInv
<1>1. <<>> \in Seq(Tasks) /\ Len(<<>>) = 0
  OBVIOUS
<1>2. IndexTypeOK
  <2>1. 0 \in Revs /\ 0 \in 0..MaxSaves /\ 0 \in 0..MaxGen
    BY ConstantsAssumption DEF Revs
  <2>2. NoRow \in [rev : Revs, save : 0..MaxSaves, model : Models \cup {NoModel}]
    BY <2>1 DEF NoRow
  <2>3. /\ cur \in [Notes -> [rev : Revs, save : 0..MaxSaves]]
        /\ emb \in [Notes -> [rev : Revs, save : 0..MaxSaves, model : Models \cup {NoModel}]]
    BY <2>1, <2>2 DEF IndexInit
  <2>4. /\ NoRecall \in RecallTypes
        /\ NoBatch \in [gen : 0..MaxGen, of : SUBSET Version]
        /\ NoCache \in [rows : SUBSET Chunk, built : BOOLEAN]
    BY <2>1 DEF NoRecall, NoBatch, NoCache, RecallTypes
  <2> QED BY <1>1, <2>1, <2>3, <2>4 DEF IndexInit, IndexTypeOK, Tasks, RecallTypes
<1>3. \A n \in Notes : cur[n].rev = 0 /\ cur[n].save = 0 /\ emb[n].rev = 0
  BY DEF IndexInit, NoRow
<1>4. NotesHold
  BY <1>3, ConstantsAssumption DEF NotesHold, Exists, IndexInit
<1>5. VectorsHold
  BY <1>3 DEF VectorsHold
<1>6. QueueHolds
  BY <1>1 DEF QueueHolds, NoBatch, IndexInit
<1>7. LedgerHolds
  <2>1. \A i \in 1..Len(<<>>) : Weight(<<>>[i], gen) = 0
    BY <1>1
  <2>2. AddsUp(<<>>, gen, 0)
    BY <1>1, <2>1, NothingAdds
  <2> QED BY <2>2 DEF LedgerHolds, IndexInit
<1>8. ModelHolds /\ CacheHolds
  BY DEF ModelHolds, CacheHolds, NoCache, IndexInit
<1>9. RecallHolds
  BY DEF RecallHolds, Awake, NoRecall, IndexInit
<1> QED BY <1>2, <1>4, <1>5, <1>6, <1>7, <1>8, <1>9 DEF IndexIInv

\* What is not a step of a recall does not answer.
LEMMA NoAnswer ==
    ASSUME IndexIInv,
           \/ recall' = recall
           \/ recall' = NoRecall
           \/ queue # <<>> /\ Popped /\ UNCHANGED <<cur, undone, gen>>
    PROVE  AnswerStep
<1>1. CASE recall' = recall
  BY <1>1 DEF AnswerStep
<1>2. CASE recall' = NoRecall
  BY <1>2 DEF AnswerStep, NoRecall
<1>3. CASE queue # <<>> /\ Popped /\ UNCHANGED <<cur, undone, gen>>
  BY <1>3, PoppedAre DEF AnswerStep
<1> QED BY <1>1, <1>2, <1>3

LEMMA IndexNextHolds ==
    ASSUME IndexIInv, [IndexNext]_indexVars
    PROVE  IndexIInv' /\ AnswerStep
<1>1. CASE Work
  <2>1. CASE DropStale
    BY <2>1, DropStaleHolds, NoAnswer DEF DropStale, coordinator
  <2>2. CASE StartBatch
    BY <2>2, StartBatchHolds, NoAnswer DEF StartBatch
  <2>3. CASE Prepared(TRUE)
    BY <2>3, PreparedHolds, BusyIs, NoAnswer DEF Prepared
  <2>4. CASE BatchWritten
    <3>1. recall' = recall \/ Popped
      BY <2>4 DEF BatchWritten
    <3> QED BY <2>4, <3>1, BatchWrittenHolds, BusyIs, NoAnswer DEF BatchWritten
  <2> QED BY <1>1, <2>1, <2>2, <2>3, <2>4 DEF Work
<1>2. CASE Trouble
  <2>1. CASE Prepared(FALSE)
    BY <2>1, PreparedHolds, BusyIs, NoAnswer DEF Prepared
  <2>2. CASE BatchTires
    BY <2>2, BatchTiresHolds, NoAnswer DEF BatchTires
  <2>3. CASE BatchFails
    BY <2>3, BatchFailsHolds, BusyIs, NoAnswer DEF BatchFails
  <2> QED BY <1>2, <2>1, <2>2, <2>3 DEF Trouble
<1>3. CASE Recalls
  BY <1>3, AskHolds, WaitedHolds, GivesUpHolds, EmbeddedHolds, RankedHolds DEF Recalls
<1>4. CASE Owner
  <2>1. ASSUME NEW n \in Notes, NEW kept \in BOOLEAN, Remember(n, kept) \/ Update(n, kept)
        PROVE  IndexIInv' /\ AnswerStep
    <3>1. Saves(n, kept) /\ recall' = recall
      BY <2>1 DEF Remember, Update, Saves, Save
    <3> QED BY <3>1, SaveHolds, NoAnswer
  <2>2. ASSUME NEW n \in Notes, Forget(n)
        PROVE  IndexIInv' /\ AnswerStep
    BY <2>2, ForgetHolds, NoAnswer DEF Forget
  <2> QED BY <1>4, <2>1, <2>2 DEF Owner
<1>5. CASE Life
  <2>1. ASSUME NEW m \in Models, OpenMemory(m) \/ Enable(m)
        PROVE  IndexIInv' /\ AnswerStep
    <3>1. /\ Takes(m) /\ open' = TRUE /\ recall' = recall
          /\ UNCHANGED <<host, cur, emb, undone, batch, recall, counters>>
          /\ host = "worker" => Asleep
      BY <2>1, ClosedAsleep, ConstantsAssumption DEF OpenMemory, Enable, Free, IndexIInv, IndexTypeOK
    <3> QED BY <3>1, TakesHolds, NoAnswer
  <2>2. ASSUME OpenMemory(NoModel) \/ Disable
        PROVE  IndexIInv' /\ AnswerStep
    <3>1. /\ Drops /\ open' = TRUE /\ recall' = recall
          /\ UNCHANGED <<host, cur, emb, undone, batch, recall, counters>>
          /\ host = "worker" => Asleep
      BY <2>2, ClosedAsleep DEF OpenMemory, Disable, Free, IndexIInv, IndexTypeOK
    <3> QED BY <3>1, DropsHolds, NoAnswer
  <2>3. CASE Close
    BY <2>3, CloseHolds, NoAnswer DEF Close
  <2> QED BY <1>5, <2>1, <2>2, <2>3 DEF Life
<1>6. CASE UNCHANGED indexVars
  <2>1. /\ UNCHANGED <<host, cur, emb, undone, open, coordinator, queue, batch, cache, recall, saves>>
    BY <1>6 DEF indexVars, counters
  <2>2. UNCHANGED <<model, gen, preparing, failed, indexing>>
    BY <2>1 DEF coordinator
  <2>3. NotesHold' /\ VectorsHold' /\ \A v : Known(v)' <=> Known(v)
    BY <2>1, NotesUntouched
  <2>4. IndexTypeOK' /\ LedgerHolds' /\ ModelHolds'
    BY <2>1, <2>2 DEF IndexIInv, IndexTypeOK, LedgerHolds, ModelHolds
  <2>5. QueueHolds'
    BY <2>1, <2>2, <2>3 DEF IndexIInv, QueueHolds, GoodTask
  <2>6. RecallHolds' /\ CacheHolds'
    <3>1. recall.pc # "waiting" => recall.ahead = 0
      BY DEF IndexIInv, RecallHolds
    <3> QED BY <2>1, <2>2, <3>1, RecallStays, CacheStays
  <2> QED BY <2>1, <2>3, <2>4, <2>5, <2>6, NoAnswer DEF IndexIInv
<1> QED BY <1>1, <1>2, <1>3, <1>4, <1>5, <1>6 DEF IndexNext

\* The inductive invariant: notes and vectors are of saves, every text that work is queued for
\* was saved or its save was rolled back, what is counted as under way is what is queued for
\* the model in use, and a recall of the worker goes by notes as they are.
THEOREM IndexInductive == IndexSpec => []IndexIInv
<1>1. IndexInit => IndexIInv
  BY IndexInitHolds
<1>2. IndexIInv /\ [IndexNext]_indexVars => IndexIInv'
  BY IndexNextHolds
<1> QED BY <1>1, <1>2, PTL DEF IndexSpec

\* Vectors that count as current are of the text the note has, or of a save of the same
\* revision that was rolled back, whatever came between their queueing and their writing
\* (#writeEmbeddingBatch, #missingEmbeddingNotes and #state).
THEOREM VectorsAreAsSaved == IndexSpec => []IndexedAsSaved
<1>1. IndexIInv => IndexedAsSaved
  <2> SUFFICES ASSUME IndexIInv, State = "ready", NEW n \in Notes, Exists(n)
               PROVE  \/ emb[n].save = cur[n].save
                      \/ [note |-> n, rev |-> cur[n].rev, save |-> emb[n].save] \in undone
    BY DEF IndexedAsSaved, IndexIInv
  <2>1. emb[n].rev = cur[n].rev
    BY DEF State, AllIndexed, IndexedBy
  <2>2. /\ cur[n].rev > 0 /\ cur[n].save # 0
        /\ cur[n].rev \in Nat /\ cur[n].save \in Nat /\ emb[n].save \in Nat
    BY NotesAre DEF IndexIInv, NotesHold, Exists
  <2>3. emb[n].save > 0 /\ Known(RowOf(n))
    BY <2>1, <2>2 DEF IndexIInv, VectorsHold
  <2> QED BY <2>1, <2>2, <2>3 DEF Known, WasCurrent, RowOf
<1> QED BY <1>1, IndexInductive, PTL

\* The cache the worker searches holds no chunk but those of the notes as they stand, and every
\* one of them that has a direction unless they are more than one query reads: it is dropped by
\* whatever adds or removes one, and is not built while a task is under way (#semanticIndex and
\* replace).
THEOREM CacheHoldsWhatIsRead == IndexSpec => []CacheIsWhole
<1>1. IndexIInv => CacheIsWhole
  BY DEF IndexIInv, CacheHolds, CacheIsWhole
<1> QED BY <1>1, IndexInductive, PTL

\* A recall answers with notes as they are when it answers (#hybridRecall, #rerankRecall and
\* #currentResults), through every queue, embedding and ranking it waited for.
THEOREM RecallsAnswerWithCurrentNotes == IndexSpec => AnswersAreCurrent
<1>1. IndexIInv /\ [IndexNext]_indexVars =>
        [recall'.pc = "answered" /\ recall' # recall /\ ~Unchecked =>
            \A v \in recall'.lex : IsCurrent(v)' /\ recall'.gen = gen']_indexVars
  BY IndexNextHolds DEF AnswerStep
<1> QED BY <1>1, IndexInductive, PTL DEF AnswersAreCurrent, IndexSpec

=============================================================================
