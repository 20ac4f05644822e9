------------------------ MODULE EncryptedMigrationProofs ------------------------
(***************************************************************************)
(* Proofs about EncryptedMigration, for all artifacts, policies and        *)
(* bounds.                                                                 *)
(*                                                                         *)
(* The marker tells what is on the disk, whatever the worker was doing     *)
(* when it went away (DiskHolds), and what the worker does next tells how  *)
(* far it has come (WorkerHolds).  The decision in the marker is the one   *)
(* the plaintext and the backups are dealt with by, by however many        *)
(* attempts: what one of them did is an outcome of that decision, and      *)
(* another does the rest (DisplacedHolds, ArtifactsHold).                  *)
(***************************************************************************)
EXTENDS EncryptedMigration, TLAPS

-----------------------------------------------------------------------------
(* The inductive invariant.                                                *)

Attributed == marker.policy # Unattributed

\* What is on the disk, by the phase of the marker.
DiskHolds ==
    /\ newest \in Versions /\ vault.notes = newest
    /\ vault.encrypted => rollback = Encrypted(newest)
    /\ At({"none"}) /\ vault.encrypted => candidate = NoFile
    /\ At({"candidate_verified"}) /\ ~vault.encrypted =>
         /\ candidate \in {NoFile, Encrypted(marker.notes)}
         /\ candidate # NoFile => rollback = Encrypted(marker.notes)
    /\ At({"candidate_verified"}) /\ vault.encrypted => candidate = Plain(newest)
    /\ At({"swapped", "cleanup_complete"}) => vault.encrypted
    /\ At(Phases) /\ vault.encrypted => marker.notes = newest
    /\ At({"swapped"}) => candidate \in {NoFile, Plain(newest)}
    /\ At({"cleanup_complete"}) => candidate = NoFile

Making_ == {"remove", "candidate", "rollback", "settle", "mark"}
Resting == {"idle", "down"}
Working == {"exchange", "discard-rollback", "discard-marker", "swapped", "displaced",
            "artifacts", "open", "audit", "finalize"}

\* How far the worker has come.
WorkerHolds ==
    /\ pc \in Resting \cup {"start"} \cup Making_ \cup Working
    /\ pc = "start" => At(Phases) \/ ~vault.encrypted
    /\ pc \in Making_ => At({"none"}) /\ ~vault.encrypted
    /\ pc \in {"rollback", "settle", "mark"} => candidate \in File /\ candidate.encrypted
    /\ pc \in {"settle", "mark"} => rollback = candidate
    /\ pc \in {"exchange", "discard-rollback", "discard-marker", "swapped"} =>
         At({"candidate_verified"})
    /\ pc \in {"discard-rollback", "discard-marker"} => ~vault.encrypted /\ candidate = NoFile
    /\ pc = "swapped" => vault.encrypted
    /\ pc \in {"displaced", "artifacts"} => At({"swapped"})
    /\ pc = "artifacts" => candidate = NoFile
    /\ pc \in {"open", "audit", "finalize"} => At({"cleanup_complete"})

\* What the owner is asked, and the decision that is carried out.
OwnerHolds ==
    /\ asked # NotAsked =>
         /\ pc = "idle" /\ asked.policy \in Policies /\ asked.artifacts \subseteq Artifacts
         /\ asked.marker.phase = "none" => ~asked.vault.encrypted
    /\ pc \notin Resting => policy \in Policies
    /\ pc \in Working => marker.policy = policy
    /\ At({"cleanup_complete"}) => Attributed

\* The displaced plaintext.
DisplacedHolds ==
    /\ ~At({"swapped", "cleanup_complete"}) /\ ~Finished => retained = NoFile
    /\ At({"swapped"}) =>
         /\ retained \in {NoFile, Plain(newest)}
         /\ ~Attributed => candidate = Plain(newest) /\ retained = NoFile
         /\ Attributed /\ marker.policy.live = "delete" => retained = NoFile
         /\ Attributed /\ marker.policy.live # "delete" =>
              candidate = Plain(newest) \/ retained = Plain(newest)
    /\ At({"cleanup_complete"}) =>
         retained = IF marker.policy.live = "delete" THEN NoFile ELSE Plain(newest)

\* The backups: what the owner has seen is somewhere, and where the decision
\* in the marker can have put it.
ArtifactsHold ==
    /\ \A a \in bound : place[a] # "absent"
    /\ pc \in Making_ \cup Working /\ ~At({"cleanup_complete"}) =>
         \A a \in bound : a \in todo \/ place[a] = Outcome(policy.artifacts)
    /\ ~At({"swapped", "cleanup_complete"}) /\ ~Finished =>
         \A a \in Artifacts : place[a] \in {"absent", "here"}
    /\ At({"swapped"}) => \A a \in Artifacts :
         /\ place[a] \in {"both", "moved"} => Attributed /\ marker.policy.artifacts = "move"
         /\ place[a] = "gone" => Attributed /\ marker.policy.artifacts = "delete"
    /\ At({"cleanup_complete"}) =>
         \A a \in bound : place[a] = Outcome(marker.policy.artifacts)

FinishedHolds ==
    /\ pc = "finalize" => audits >= 1
    /\ Finished => policy \in Policies /\ AsDecided

IInv == /\ TypeOK /\ DiskHolds /\ WorkerHolds /\ OwnerHolds /\ DisplacedHolds
        /\ ArtifactsHold /\ FinishedHolds

-----------------------------------------------------------------------------
(* Files and markers.                                                      *)

LEMMA FilesAre ==
    /\ MaxEdits \in Nat /\ NoFile \notin File
    /\ \A v \in Versions : Plain(v) \in File /\ Encrypted(v) \in File
    /\ \A v, w : (Plain(v) = Plain(w) <=> v = w) /\ (Encrypted(v) = Encrypted(w) <=> v = w)
    /\ \A v, w : Plain(v) # Encrypted(w)
    /\ \A v : /\ ~Plain(v).encrypted /\ Plain(v).notes = v
              /\ Encrypted(v).encrypted /\ Encrypted(v).notes = v
    /\ \A f \in File : /\ f.encrypted => f = Encrypted(f.notes)
                       /\ ~f.encrypted => f = Plain(f.notes)
                       /\ f.notes \in Versions
<1>1. MaxEdits \in Nat
  BY ConstantsAssumption
<1>2. NoFile \notin File
  BY <1>1 DEF NoFile, Plain, File, Versions
<1>3. \A v \in Versions : Plain(v) \in File /\ Encrypted(v) \in File
  BY DEF Plain, Encrypted, File
<1>4. \A v, w : (Plain(v) = Plain(w) <=> v = w) /\ (Encrypted(v) = Encrypted(w) <=> v = w)
  BY DEF Plain, Encrypted
<1>5. \A v, w : Plain(v) # Encrypted(w)
  <2> SUFFICES ASSUME NEW v, NEW w, Plain(v) = Encrypted(w) PROVE FALSE
    OBVIOUS
  <2>1. ~Plain(v).encrypted /\ Encrypted(w).encrypted
    BY DEF Plain, Encrypted
  <2> QED BY <2>1
<1>6. \A v : /\ ~Plain(v).encrypted /\ Plain(v).notes = v
             /\ Encrypted(v).encrypted /\ Encrypted(v).notes = v
  BY DEF Plain, Encrypted
<1>7. ASSUME NEW f \in File
      PROVE /\ f.encrypted => f = Encrypted(f.notes)
            /\ ~f.encrypted => f = Plain(f.notes)
            /\ f.notes \in Versions
  BY DEF File, Plain, Encrypted
<1> QED BY <1>1, <1>2, <1>3, <1>4, <1>5, <1>6, <1>7

LEMMA MarkerIs ==
    ASSUME TypeOK
    PROVE /\ At({"none"}) <=> marker = NoMarker
          /\ At(Phases) <=> marker \in Marker
          /\ At({"none"}) <=> ~At(Phases)
          /\ At(Phases) <=> \/ At({"candidate_verified"}) \/ At({"swapped"})
                            \/ At({"cleanup_complete"})
          /\ At(Phases) => /\ marker.notes \in Versions
                           /\ marker.policy \in Policies \cup {Unattributed}
BY DEF TypeOK, At, NoMarker, Marker, Phases

\* A marker of which one field is written anew.
LEMMA MarkerWith ==
    ASSUME NEW m \in Marker
    PROVE /\ \A phase \in Phases :
               /\ [m EXCEPT !.phase = phase] \in Marker
               /\ [m EXCEPT !.phase = phase].phase = phase
               /\ [m EXCEPT !.phase = phase].notes = m.notes
               /\ [m EXCEPT !.phase = phase].policy = m.policy
          /\ \A p \in Policies :
               /\ [m EXCEPT !.policy = p] \in Marker
               /\ [m EXCEPT !.policy = p].policy = p
               /\ [m EXCEPT !.policy = p].phase = m.phase
               /\ [m EXCEPT !.policy = p].notes = m.notes
          /\ \A kept \in BOOLEAN :
               /\ [m EXCEPT !.retained = kept] \in Marker
               /\ [m EXCEPT !.retained = kept].policy = m.policy
               /\ [m EXCEPT !.retained = kept].phase = m.phase
               /\ [m EXCEPT !.retained = kept].notes = m.notes
<1>1. \A phase \in Phases : /\ [m EXCEPT !.phase = phase] \in Marker
                            /\ [m EXCEPT !.phase = phase].phase = phase
                            /\ [m EXCEPT !.phase = phase].notes = m.notes
                            /\ [m EXCEPT !.phase = phase].policy = m.policy
  BY DEF Marker
<1>2. \A p \in Policies : /\ [m EXCEPT !.policy = p] \in Marker
                          /\ [m EXCEPT !.policy = p].policy = p
                          /\ [m EXCEPT !.policy = p].phase = m.phase
                          /\ [m EXCEPT !.policy = p].notes = m.notes
  BY DEF Marker
<1>3. \A kept \in BOOLEAN : /\ [m EXCEPT !.retained = kept] \in Marker
                            /\ [m EXCEPT !.retained = kept].policy = m.policy
                            /\ [m EXCEPT !.retained = kept].phase = m.phase
                            /\ [m EXCEPT !.retained = kept].notes = m.notes
  BY DEF Marker
<1> QED BY <1>1, <1>2, <1>3

-----------------------------------------------------------------------------
(* What a step leaves alone stays as it was.                               *)

Disk == <<vault, candidate, rollback, marker, newest>>

LEMMA DiskSame ==
    ASSUME DiskHolds, UNCHANGED Disk
    PROVE DiskHolds'
BY DEF DiskHolds, Disk, At

LEMMA DisplacedSame ==
    ASSUME DisplacedHolds, UNCHANGED Disk, UNCHANGED retained
    PROVE DisplacedHolds'
BY DEF DisplacedHolds, Disk, At, Attributed, Finished

LEMMA ArtifactsSame ==
    ASSUME ArtifactsHold, UNCHANGED <<vault, marker, place, bound, todo, policy>>,
           \/ pc' \notin Making_ \cup Working \/ At({"cleanup_complete"})
           \/ pc \in Making_ \cup Working
    PROVE ArtifactsHold'
BY DEF ArtifactsHold, At, Attributed, Finished

LEMMA OwnerSame ==
    ASSUME OwnerHolds, UNCHANGED <<policy, marker>>,
           (asked' = asked /\ pc # "idle") \/ asked' = NotAsked,
           \/ pc' \in Resting
           \/ pc \in Working
           \/ pc \notin Resting /\ pc' \notin Working
    PROVE OwnerHolds'
BY DEF OwnerHolds, At, Attributed, Resting, Working

LEMMA NotFinished ==
    ASSUME At(Phases)' \/ ~vault'.encrypted, pc' = "finalize" => audits' >= 1
    PROVE FinishedHolds'
BY DEF FinishedHolds, Finished, At, Phases

LEMMA StillFinished ==
    ASSUME FinishedHolds, pc' # "finalize",
           UNCHANGED <<Disk, retained, place, audits, policy, bound>>
    PROVE FinishedHolds'
BY DEF FinishedHolds, Finished, AsDecided, At, Disk

-----------------------------------------------------------------------------
(* The owner.                                                              *)

LEMMA HereIs == Here \subseteq Artifacts
BY DEF Here

LEMMA BeginStep ==
    ASSUME IInv, Begin
    PROVE IInv'
<1>1. /\ UNCHANGED <<Disk, retained, place, audits, journal, pc, policy, decided, todo, bound>>
      /\ pc = "idle" /\ Eligible
  BY DEF Begin, database, files, env, Disk
<1>2. PICK p \in Policies : asked' = Snapshot(p)
  BY DEF Begin
<1>3. TypeOK'
  BY <1>1 DEF IInv, TypeOK, Disk
<1>4. OwnerHolds'
  <2>1. marker.phase = "none" => ~vault.encrypted
    BY <1>1 DEF Eligible, At, Phases
  <2>2. /\ asked'.policy \in Policies /\ asked'.artifacts \subseteq Artifacts
        /\ asked'.marker = marker /\ asked'.vault = vault
    BY <1>2, HereIs DEF Snapshot
  <2> QED BY <1>1, <2>1, <2>2 DEF IInv, OwnerHolds, Disk, Attributed, At, Resting, Working
<1>5. DiskHolds' /\ DisplacedHolds'
  BY <1>1, DiskSame, DisplacedSame DEF IInv
<1>6. WorkerHolds'
  BY <1>1 DEF IInv, WorkerHolds, Disk, At
<1>7. ArtifactsHold'
  BY <1>1, ArtifactsSame DEF IInv, Disk, Making_, Working
<1>8. FinishedHolds'
  BY <1>1, StillFinished DEF IInv
<1> QED BY <1>3, <1>4, <1>5, <1>6, <1>7, <1>8 DEF IInv

LEMMA ApproveStep ==
    ASSUME IInv, Approve
    PROVE IInv'
<1>1. /\ UNCHANGED <<Disk, retained, place, audits, journal, todo>>
      /\ pc = "idle" /\ pc' = "start" /\ asked # NotAsked /\ asked' = NotAsked
      /\ policy' = asked.policy /\ decided' = asked.artifacts
      /\ bound' = IF At({"cleanup_complete"}) THEN bound ELSE bound \cup asked.artifacts
      /\ asked = Snapshot(asked.policy)
  BY DEF Approve, database, files, env, Disk
<1>2. /\ asked.policy \in Policies /\ asked.artifacts \subseteq Artifacts
      /\ asked.artifacts = Here /\ asked.vault = vault /\ asked.marker = marker
  <2>1. asked.policy \in Policies /\ asked.artifacts \subseteq Artifacts
    BY <1>1 DEF IInv, OwnerHolds
  <2> DEFINE p == asked.policy
  <2>2. Snapshot(p).artifacts = Here /\ Snapshot(p).vault = vault /\ Snapshot(p).marker = marker
    BY DEF Snapshot
  <2> QED BY <1>1, <2>1, <2>2
\* What was shown was shown of a vault that could be migrated.
<1>3. At(Phases) \/ ~vault.encrypted
  BY <1>1, <1>2, MarkerIs DEF IInv, OwnerHolds, At
<1>4. TypeOK'
  BY <1>1, <1>2 DEF IInv, TypeOK, Disk
<1>5. DiskHolds' /\ DisplacedHolds'
  BY <1>1, DiskSame, DisplacedSame DEF IInv
<1>6. WorkerHolds'
  BY <1>1, <1>3 DEF IInv, WorkerHolds, Disk, At, Resting, Making_, Working
<1>7. OwnerHolds'
  BY <1>1, <1>2 DEF IInv, OwnerHolds, Disk, At, Attributed, Resting, Working
<1>8. ArtifactsHold'
  <2>1. \A a \in bound' : place'[a] # "absent"
    BY <1>1, <1>2 DEF IInv, ArtifactsHold, Here
  <2>2. At({"cleanup_complete"}) => bound' = bound
    BY <1>1
  <2> QED BY <1>1, <2>1, <2>2 DEF IInv, ArtifactsHold, Disk, At, Attributed, Finished, Making_, Working
<1>9. FinishedHolds'
  <2>1. At(Phases)' \/ ~vault'.encrypted
    BY <1>1, <1>3 DEF At, Disk
  <2> QED BY <1>1, <2>1, NotFinished
<1> QED BY <1>4, <1>5, <1>6, <1>7, <1>8, <1>9 DEF IInv

LEMMA RejectStep ==
    ASSUME IInv, Reject
    PROVE IInv'
<1>1. /\ UNCHANGED <<Disk, retained, place, audits, journal, pc, policy, decided, todo, bound>>
      /\ pc = "idle" /\ asked' = NotAsked
  BY DEF Reject, database, files, env, Disk
<1>2. TypeOK'
  BY <1>1 DEF IInv, TypeOK, Disk
<1>3. OwnerHolds'
  BY <1>1, OwnerSame DEF IInv, Disk, Resting
<1>4. DiskHolds' /\ DisplacedHolds'
  BY <1>1, DiskSame, DisplacedSame DEF IInv
<1>5. WorkerHolds'
  BY <1>1 DEF IInv, WorkerHolds, Disk, At
<1>6. ArtifactsHold'
  BY <1>1, ArtifactsSame DEF IInv, Disk, Making_, Working
<1>7. FinishedHolds'
  BY <1>1, StillFinished DEF IInv
<1> QED BY <1>2, <1>3, <1>4, <1>5, <1>6, <1>7 DEF IInv

\* The worker goes: by a crash, or because it could not go on.
LEMMA DownStep ==
    ASSUME IInv, Down, UNCHANGED <<Disk, retained, place, audits, policy, decided, bound>>,
           journal' \in BOOLEAN
    PROVE IInv'
<1>1. pc' = "down" /\ asked' = NotAsked /\ todo' = {}
  BY DEF Down
<1>2. TypeOK'
  BY <1>1 DEF IInv, TypeOK, Disk
<1>3. OwnerHolds'
  BY <1>1, OwnerSame DEF IInv, Disk, Resting
<1>4. DiskHolds' /\ DisplacedHolds'
  BY DiskSame, DisplacedSame DEF IInv
<1>5. WorkerHolds'
  BY <1>1 DEF WorkerHolds, Resting, Making_
<1>6. ArtifactsHold'
  BY <1>1 DEF IInv, ArtifactsHold, Disk, At, Attributed, Finished, Making_, Working
<1>7. FinishedHolds'
  BY <1>1, StillFinished DEF IInv
<1> QED BY <1>2, <1>3, <1>4, <1>5, <1>6, <1>7 DEF IInv

LEMMA BootStep ==
    ASSUME IInv, Boot
    PROVE IInv'
<1>1. /\ UNCHANGED <<Disk, retained, place, audits, journal, asked, policy, decided, todo, bound>>
      /\ pc = "down" /\ pc' = "idle"
  BY DEF Boot, database, files, env, owner, Disk
<1>2. TypeOK'
  BY <1>1 DEF IInv, TypeOK, Disk
<1>3. OwnerHolds'
  BY <1>1, OwnerSame DEF IInv, Disk, Resting
<1>4. DiskHolds' /\ DisplacedHolds'
  BY <1>1, DiskSame, DisplacedSame DEF IInv
<1>5. WorkerHolds'
  BY <1>1 DEF WorkerHolds, Resting, Making_
<1>6. ArtifactsHold'
  BY <1>1, ArtifactsSame DEF IInv, Disk, Making_, Working
<1>7. FinishedHolds'
  BY <1>1, StillFinished DEF IInv
<1> QED BY <1>2, <1>3, <1>4, <1>5, <1>6, <1>7 DEF IInv

\* A change of the plaintext is a change of the newest notes.
LEMMA EditStep ==
    ASSUME IInv, Edit
    PROVE IInv'
<1>1. /\ UNCHANGED <<audits, journal, candidate, rollback, retained, place, marker, pc, asked,
                     policy, decided, todo, bound>>
      /\ ~vault.encrypted /\ newest < MaxEdits
      /\ vault' = Plain(newest + 1) /\ newest' = newest + 1
  BY DEF Edit, files, owner
<1>2. newest' \in Versions /\ vault' \in File /\ ~vault'.encrypted /\ vault'.notes = newest'
  <2>1. newest + 1 \in Versions
    BY <1>1, FilesAre DEF IInv, DiskHolds, Versions
  <2> QED BY <1>1, <2>1, FilesAre
<1>3. TypeOK'
  BY <1>1, <1>2 DEF IInv, TypeOK
<1>4. DiskHolds'
  BY <1>1, <1>2, MarkerIs DEF IInv, DiskHolds, At
<1>5. WorkerHolds'
  BY <1>1, <1>2 DEF IInv, WorkerHolds, At
<1>6. OwnerHolds'
  BY <1>1 DEF IInv, OwnerHolds, At, Attributed
<1>7. DisplacedHolds' /\ ArtifactsHold'
  <2>1. ~At({"swapped", "cleanup_complete"})
    BY <1>1 DEF IInv, DiskHolds
  <2>2. ~Finished /\ ~Finished'
    BY <1>1, <1>2 DEF Finished
  <2>3. DisplacedHolds'
    BY <1>1, <2>1, <2>2 DEF IInv, DisplacedHolds, At
  <2>4. ArtifactsHold'
    BY <1>1, <2>1, <2>2 DEF IInv, ArtifactsHold, At
  <2> QED BY <2>3, <2>4
<1>8. FinishedHolds'
  BY <1>1, <1>2, NotFinished DEF IInv, FinishedHolds
<1> QED BY <1>3, <1>4, <1>5, <1>6, <1>7, <1>8 DEF IInv

\* What was absent was shown to nobody.
LEMMA AppearStep ==
    ASSUME IInv, Appear
    PROVE IInv'
<1>1. /\ UNCHANGED <<Disk, audits, journal, retained, pc, asked, policy, decided, todo, bound>>
  BY DEF Appear, database, owner, env, Disk
<1>2. PICK a \in Artifacts : place[a] = "absent" /\ place' = [place EXCEPT ![a] = "here"]
  BY DEF Appear
<1>3. /\ place \in [Artifacts -> {"absent", "here", "both", "moved", "gone"}]
      /\ place'[a] = "here" /\ a \notin bound
      /\ \A b \in Artifacts : b # a => place'[b] = place[b]
      /\ place' \in [Artifacts -> {"absent", "here", "both", "moved", "gone"}]
      /\ bound \subseteq Artifacts
  BY <1>2 DEF IInv, TypeOK, ArtifactsHold
<1>4. TypeOK'
  BY <1>1, <1>3 DEF IInv, TypeOK, Disk
<1>5. DiskHolds' /\ DisplacedHolds'
  BY <1>1, DiskSame, DisplacedSame DEF IInv
<1>6. WorkerHolds' /\ OwnerHolds'
  BY <1>1 DEF IInv, WorkerHolds, OwnerHolds, Disk, At, Attributed
<1>7. ArtifactsHold'
  BY <1>1, <1>3 DEF IInv, ArtifactsHold, Disk, At, Attributed, Finished
<1>8. FinishedHolds'
  BY <1>1, <1>3 DEF IInv, FinishedHolds, AsDecided, Finished, Disk, At
<1> QED BY <1>4, <1>5, <1>6, <1>7, <1>8 DEF IInv

-----------------------------------------------------------------------------
(* The start of an attempt, by what an earlier one left.                   *)

LEMMA StartStep ==
    ASSUME IInv, Start
    PROVE IInv'
<1>1. /\ UNCHANGED <<vault, candidate, rollback, newest, retained, place, audits, journal,
                     asked, policy, decided, bound>>
      /\ pc = "start" /\ Startable /\ pc' = Started
      /\ marker' = IF At(Phases) THEN [marker EXCEPT !.policy = policy] ELSE marker
      /\ todo' = IF At({"cleanup_complete"}) THEN {} ELSE Here
  BY DEF Start, database, files, owner, env
<1>2. /\ policy \in Policies /\ policy # Unattributed /\ asked = NotAsked
      /\ At(Phases) \/ ~vault.encrypted
      /\ At(Phases) => marker.policy \in {Unattributed, policy}
  BY <1>1, ConstantsAssumption DEF IInv, OwnerHolds, WorkerHolds, Startable, Agrees, Resting
<1>3. /\ marker' \in Marker \cup {NoMarker}
      /\ marker'.phase = marker.phase
      /\ At(Phases) => marker'.policy = policy /\ marker'.notes = marker.notes
      /\ At({"none"}) => marker' = marker
  <2>1. CASE At(Phases)
    BY <1>1, <1>2, <2>1, MarkerIs, MarkerWith DEF IInv
  <2>2. CASE At({"none"})
    BY <1>1, <2>2, MarkerIs DEF IInv, TypeOK
  <2> QED BY <2>1, <2>2, MarkerIs DEF IInv
<1>4. \A phases : At(phases)' <=> At(phases)
  BY <1>3 DEF At
<1>5. TypeOK'
  BY <1>1, <1>3, HereIs DEF IInv, TypeOK
<1>6. DiskHolds'
  BY <1>1, <1>3, <1>4, MarkerIs DEF IInv, DiskHolds
<1>7. WorkerHolds'
  <2>1. CASE At({"none"})
    BY <1>1, <1>2, <1>4, <2>1, MarkerIs
       DEF IInv, WorkerHolds, Started, At, Resting, Making_, Working
  <2>2. CASE At({"candidate_verified"})
    <3>1. pc' = "exchange"
      BY <1>1, <2>2 DEF Started, At
    <3> QED BY <1>4, <2>2, <3>1 DEF WorkerHolds, Resting, Making_, Working
  <2>3. CASE At({"swapped"})
    <3>1. pc' = "displaced"
      BY <1>1, <2>3 DEF Started, At
    <3> QED BY <1>4, <2>3, <3>1 DEF WorkerHolds, Resting, Making_, Working
  <2>4. CASE At({"cleanup_complete"})
    <3>1. pc' = "open"
      BY <1>1, <2>4 DEF Started, At
    <3> QED BY <1>4, <2>4, <3>1 DEF WorkerHolds, Resting, Making_, Working
  <2> QED BY <2>1, <2>2, <2>3, <2>4, MarkerIs DEF IInv
<1>8. OwnerHolds'
  <2>1. pc' \in Working => At(Phases)
    BY <1>1, MarkerIs DEF IInv, Started, At, Working
  <2>2. At({"cleanup_complete"})' => Attributed'
    BY <1>2, <1>3, <1>4, MarkerIs DEF IInv, Attributed
  <2> QED BY <1>1, <1>2, <1>3, <2>1, <2>2 DEF OwnerHolds
<1>9. DisplacedHolds'
  <2>1. Finished' <=> Finished
    BY <1>1, <1>4 DEF Finished
  <2>2. ~At({"swapped", "cleanup_complete"})' /\ ~Finished' => retained' = NoFile
    BY <1>1, <1>4, <2>1 DEF IInv, DisplacedHolds
  <2>3. CASE At({"swapped"})
    <3>1. marker'.policy = policy /\ ~At({"cleanup_complete"})'
      BY <1>3, <1>4, <2>3, MarkerIs DEF IInv, At
    <3>2. CASE ~Attributed
      BY <1>1, <1>2, <2>2, <2>3, <3>1, <3>2 DEF IInv, DisplacedHolds, Attributed
    <3>3. CASE Attributed
      <4>1. marker'.policy = marker.policy
        BY <1>2, <2>3, <3>1, <3>3, MarkerIs DEF IInv, Attributed
      <4> QED BY <1>1, <1>2, <2>2, <2>3, <3>1, <3>3, <4>1 DEF IInv, DisplacedHolds, Attributed
    <3> QED BY <3>2, <3>3
  <2>4. CASE At({"cleanup_complete"})
    <3>1. marker'.policy = marker.policy /\ ~At({"swapped"})'
      BY <1>2, <1>3, <1>4, <2>4, MarkerIs DEF IInv, At, OwnerHolds, Attributed
    <3> QED BY <1>1, <2>2, <2>4, <3>1 DEF IInv, DisplacedHolds
  <2>5. CASE ~At({"swapped"}) /\ ~At({"cleanup_complete"})
    BY <1>4, <2>2, <2>5 DEF DisplacedHolds
  <2> QED BY <2>3, <2>4, <2>5
<1>10. ArtifactsHold'
  <2>1. Finished' <=> Finished
    BY <1>1, <1>4 DEF Finished
  <2>2. /\ \A a \in bound' : place'[a] # "absent"
        /\ ~At({"swapped", "cleanup_complete"})' /\ ~Finished' =>
             \A a \in Artifacts : place'[a] \in {"absent", "here"}
    BY <1>1, <1>4, <2>1 DEF IInv, ArtifactsHold
  <2>3. At({"swapped"})' => \A a \in Artifacts :
          /\ place'[a] \in {"both", "moved"} => Attributed' /\ marker'.policy.artifacts = "move"
          /\ place'[a] = "gone" => Attributed' /\ marker'.policy.artifacts = "delete"
    <3> SUFFICES ASSUME At({"swapped"}), NEW a \in Artifacts
                 PROVE /\ place[a] \in {"both", "moved"} =>
                            Attributed' /\ marker'.policy.artifacts = "move"
                       /\ place[a] = "gone" => Attributed' /\ marker'.policy.artifacts = "delete"
      BY <1>1, <1>4
    <3>1. marker'.policy = policy /\ Attributed'
      BY <1>2, <1>3, MarkerIs DEF IInv, Attributed
    <3>2. place[a] \in {"both", "moved", "gone"} => marker.policy = policy
      BY <1>2, MarkerIs DEF IInv, ArtifactsHold, Attributed
    <3> QED BY <3>1, <3>2 DEF IInv, ArtifactsHold
  <2>4. At({"cleanup_complete"})' => \A a \in bound' : place'[a] = Outcome(marker'.policy.artifacts)
    <3>1. At({"cleanup_complete"}) => marker'.policy = marker.policy
      BY <1>2, <1>3, MarkerIs DEF IInv, OwnerHolds, Attributed
    <3> QED BY <1>1, <1>4, <3>1 DEF IInv, ArtifactsHold
  \* What is not found now was dealt with by the decision of the marker.
  <2>5. ~At({"cleanup_complete"})' => \A a \in bound' : a \in todo' \/ place'[a] = Outcome(policy'.artifacts)
    <3> SUFFICES ASSUME ~At({"cleanup_complete"}), NEW a \in bound, a \notin Here
                 PROVE place[a] = Outcome(policy.artifacts)
      BY <1>1, <1>4
    <3>1. a \in Artifacts /\ place[a] \in {"absent", "here", "both", "moved", "gone"}
      BY DEF IInv, TypeOK
    <3>2. place[a] \in {"moved", "gone"}
      BY <3>1 DEF IInv, ArtifactsHold, Here
    <3>3. At({"swapped"})
      BY <1>2, <3>1, <3>2, MarkerIs DEF IInv, ArtifactsHold, Finished, At, Phases
    <3>4. Attributed /\ marker.policy = policy
      BY <1>2, <3>1, <3>2, <3>3, MarkerIs DEF IInv, ArtifactsHold, Attributed
    <3> QED BY <3>1, <3>2, <3>3, <3>4 DEF IInv, ArtifactsHold, Outcome
  <2> QED BY <2>2, <2>3, <2>4, <2>5 DEF ArtifactsHold
<1>11. FinishedHolds'
  <2>1. pc' # "finalize"
    BY <1>1, MarkerIs DEF IInv, Started, At
  <2> QED BY <1>1, <1>2, <1>4, <2>1, NotFinished
<1> QED BY <1>5, <1>6, <1>7, <1>8, <1>9, <1>10, <1>11 DEF IInv

-----------------------------------------------------------------------------
(* The candidate and the rollback copy are made.                           *)

Rest_ == <<audits, journal, retained, place, asked, policy, decided, todo, bound>>

LEMMA RestIs ==
    ASSUME Keep, UNCHANGED <<owner, env, bound>>
    PROVE UNCHANGED Rest_ /\ UNCHANGED <<vault, newest>>
BY DEF Keep, Rest_, database, owner, env

LEMMA CopiesStep ==
    ASSUME IInv, pc \in Making_, pc' \in Making_, UNCHANGED Rest_,
           UNCHANGED <<vault, newest, marker>>,
           candidate' \in File \cup {NoFile}, rollback' \in File \cup {NoFile},
           pc' \in {"rollback", "settle", "mark"} => candidate' \in File /\ candidate'.encrypted,
           pc' \in {"settle", "mark"} => rollback' = candidate'
    PROVE IInv'
<1>1. At({"none"}) /\ ~vault.encrypted /\ ~At(Phases)
  BY MarkerIs DEF IInv, WorkerHolds
<1>2. TypeOK'
  BY DEF IInv, TypeOK, Rest_
<1>3. DiskHolds'
  BY <1>1 DEF IInv, DiskHolds, At, Phases
<1>4. WorkerHolds'
  BY <1>1 DEF WorkerHolds, At, Making_, Working
<1>5. OwnerHolds'
  BY DEF IInv, OwnerHolds, Rest_, At, Attributed, Making_, Working, Resting
<1>6. DisplacedHolds' /\ ArtifactsHold'
  <2>1. UNCHANGED <<vault, marker, retained, place, bound, todo, policy>> /\ ~Finished /\ ~Finished'
    BY <1>1 DEF Rest_, Finished
  <2>2. DisplacedHolds'
    BY <1>1, <2>1 DEF IInv, DisplacedHolds, At, Phases
  <2>3. ArtifactsHold'
    BY <2>1, ArtifactsSame DEF IInv
  <2> QED BY <2>2, <2>3
<1>7. FinishedHolds'
  BY <1>1, NotFinished DEF Making_
<1> QED BY <1>2, <1>3, <1>4, <1>5, <1>6, <1>7 DEF IInv

LEMMA MakingStep ==
    ASSUME IInv, Making
    PROVE IInv'
<1>0. candidate \in File \cup {NoFile} /\ rollback \in File \cup {NoFile} /\ vault \in File
  BY DEF IInv, TypeOK
<1>1. CASE Remove
  <2>1. /\ pc \in Making_ /\ pc' = "candidate" /\ Keep /\ UNCHANGED <<owner, env, bound, marker>>
        /\ candidate' = NoFile /\ rollback' = NoFile
    BY <1>1 DEF Remove, Doing, Making_
  <2> QED BY <2>1, RestIs, CopiesStep DEF Making_
<1>2. CASE CreateCandidate
  <2>1. /\ pc \in Making_ /\ pc' = "rollback" /\ Keep /\ UNCHANGED <<owner, env, bound, marker>>
        /\ candidate' = Encrypted(vault.notes) /\ rollback' = rollback
    BY <1>2 DEF CreateCandidate, Doing, Making_
  <2>2. candidate' \in File /\ candidate'.encrypted
    BY <1>0, <2>1, FilesAre
  <2> QED BY <1>0, <2>1, <2>2, RestIs, CopiesStep DEF Making_
<1>3. CASE CreateRollback
  <2>1. /\ pc = "rollback" /\ pc' = "settle" /\ Keep /\ UNCHANGED <<owner, env, bound, marker>>
        /\ rollback' = candidate /\ candidate' = candidate
    BY <1>3 DEF CreateRollback, Doing
  <2>2. candidate \in File /\ candidate.encrypted
    BY <2>1 DEF IInv, WorkerHolds
  <2> QED BY <2>1, <2>2, RestIs, CopiesStep DEF Making_
<1>4. CASE Settle
  <2>1. /\ pc = "settle" /\ pc' = "mark" /\ Keep /\ UNCHANGED <<owner, env, bound, marker>>
        /\ rollback' = rollback /\ candidate' = candidate
    BY <1>4 DEF Settle, Doing
  <2>2. candidate \in File /\ candidate.encrypted /\ rollback = candidate
    BY <2>1 DEF IInv, WorkerHolds
  <2> QED BY <2>1, <2>2, RestIs, CopiesStep DEF Making_
<1>5. CASE WriteMarker
  <2>1. /\ pc = "mark" /\ pc' = "exchange" /\ UNCHANGED <<candidate, rollback, vault, newest>>
        /\ UNCHANGED Rest_ /\ marker' = NewMarker(candidate.notes, policy)
    BY <1>5, RestIs DEF WriteMarker, Doing, Written
  <2>2. /\ candidate \in File /\ candidate.encrypted /\ rollback = candidate
        /\ At({"none"}) /\ ~vault.encrypted /\ policy \in Policies
    BY <2>1 DEF IInv, WorkerHolds, OwnerHolds, Making_, Resting
  <2>3. candidate = Encrypted(candidate.notes) /\ candidate.notes \in Versions
    BY <2>2, FilesAre
  <2>4. /\ marker' \in Marker /\ marker'.phase = "candidate_verified"
        /\ marker'.notes = candidate.notes /\ marker'.policy = policy
    BY <2>1, <2>2, <2>3 DEF NewMarker, Marker, Phases
  <2>5. \A phases : At(phases)' <=> "candidate_verified" \in phases
    BY <2>4 DEF At
  <2>6. ~Finished /\ ~Finished' /\ ~At({"swapped", "cleanup_complete"})
    BY <2>1, <2>2 DEF Finished, At
  <2>7. TypeOK'
    BY <2>1, <2>4 DEF IInv, TypeOK, Rest_
  <2>8. DiskHolds'
    BY <2>1, <2>2, <2>3, <2>4, <2>5 DEF IInv, DiskHolds
  <2>9. WorkerHolds'
    BY <2>1, <2>5 DEF WorkerHolds, Resting, Making_, Working
  <2>10. OwnerHolds'
    BY <2>1, <2>2, <2>4, <2>5 DEF IInv, OwnerHolds, Rest_, Working, Resting
  <2>11. DisplacedHolds'
    BY <2>1, <2>5, <2>6 DEF IInv, DisplacedHolds, Rest_
  <2>12. ArtifactsHold'
    <3>1. /\ ~At({"cleanup_complete"}) /\ ~At({"swapped"})' /\ ~At({"cleanup_complete"})'
          /\ pc \in Making_
      BY <2>1, <2>2, <2>5 DEF At, Making_
    <3>2. /\ \A a \in bound : place[a] # "absent"
          /\ \A a \in bound : a \in todo \/ place[a] = Outcome(policy.artifacts)
          /\ \A a \in Artifacts : place[a] \in {"absent", "here"}
      BY <2>6, <3>1 DEF IInv, ArtifactsHold
    <3>3. UNCHANGED <<place, bound, todo, policy>>
      BY <2>1 DEF Rest_
    <3> QED BY <3>1, <3>2, <3>3 DEF ArtifactsHold
  <2>13. FinishedHolds'
    BY <2>1, <2>2, NotFinished
  <2> QED BY <2>7, <2>8, <2>9, <2>10, <2>11, <2>12, <2>13 DEF IInv
<1> QED BY <1>1, <1>2, <1>3, <1>4, <1>5 DEF Making

-----------------------------------------------------------------------------
(* The vault and the candidate are exchanged, or the candidate discarded.  *)

\* Attempts before the clean-up: nothing was displaced, no backup was touched.
LEMMA BeforeCleaning ==
    ASSUME IInv, UNCHANGED Rest_, ~At({"swapped", "cleanup_complete"}), ~Finished,
           ~At({"cleanup_complete"})', ~Finished',
           pc \in Making_ \cup Working,
           At({"swapped"})' => candidate' = Plain(newest')
    PROVE DisplacedHolds' /\ ArtifactsHold'
<1>1. retained = NoFile /\ \A a \in Artifacts : place[a] \in {"absent", "here"}
  BY DEF IInv, DisplacedHolds, ArtifactsHold
<1>2. UNCHANGED <<retained, place, bound, todo, policy>>
  BY DEF Rest_
<1>3. DisplacedHolds'
  BY <1>1, <1>2 DEF DisplacedHolds
<1>4. ArtifactsHold'
  <2>1. \A a \in bound : a \in todo \/ place[a] = Outcome(policy.artifacts)
    BY DEF IInv, ArtifactsHold, At
  <2>2. \A a \in bound' : place'[a] # "absent"
    BY <1>2 DEF IInv, ArtifactsHold
  <2>3. \A a \in Artifacts : place'[a] \in {"absent", "here"}
    BY <1>1, <1>2
  <2>4. \A a \in bound' : a \in todo' \/ place'[a] = Outcome(policy'.artifacts)
    BY <1>2, <2>1
  <2>5. \A a \in Artifacts : place'[a] \notin {"both", "moved"} /\ place'[a] # "gone"
    BY <2>3
  <2>6. At({"cleanup_complete"})' => \A a \in bound' : place'[a] = Outcome(marker'.policy.artifacts)
    OBVIOUS
  <2>7. At({"swapped"})' => \A a \in Artifacts :
          /\ place'[a] \in {"both", "moved"} => Attributed' /\ marker'.policy.artifacts = "move"
          /\ place'[a] = "gone" => Attributed' /\ marker'.policy.artifacts = "delete"
    BY <2>5
  <2> QED BY <2>2, <2>3, <2>4, <2>6, <2>7 DEF ArtifactsHold
<1> QED BY <1>3, <1>4

LEMMA ExchangingStep ==
    ASSUME IInv, Exchanging
    PROVE IInv'
<1>0. /\ candidate \in File \cup {NoFile} /\ rollback \in File \cup {NoFile} /\ vault \in File
      /\ MaxEdits \in Nat
  BY FilesAre DEF IInv, TypeOK
<1>1. /\ pc \in {"exchange", "discard-rollback", "discard-marker", "swapped"}
      /\ At({"candidate_verified"}) /\ ~At({"none"}) /\ ~Finished
      /\ ~At({"swapped", "cleanup_complete"}) /\ marker \in Marker
  <2>1. pc \in {"exchange", "discard-rollback", "discard-marker", "swapped"}
    BY DEF Exchanging, Exchange, Exchanged, Discard, DiscardRollback, DiscardMarker,
           MarkSwapped, Doing
  <2>2. At({"candidate_verified"})
    BY <2>1 DEF IInv, WorkerHolds
  <2>3. marker \in Marker
    BY <2>2, MarkerIs DEF IInv
  <2> QED BY <2>1, <2>2, <2>3 DEF At, Finished
<1>2. UNCHANGED Rest_ /\ newest' = newest
  BY DEF Exchanging, Exchange, Exchanged, Discard, DiscardRollback, DiscardMarker,
         MarkSwapped, Doing, Keep, Rest_, owner, env, database
<1>3. policy \in Policies /\ marker.policy = policy /\ asked = NotAsked
  BY <1>1 DEF IInv, OwnerHolds, Resting, Working
<1>4. CASE Exchange
  <2>1. /\ pc' = "swapped" /\ ~vault.encrypted /\ vault.notes = marker.notes
        /\ candidate.encrypted
        /\ vault' = candidate /\ candidate' = vault /\ UNCHANGED <<rollback, marker>>
    BY <1>4 DEF Exchange, Doing, Current, Verified
  <2>2. /\ candidate \in {NoFile, Encrypted(marker.notes)}
        /\ candidate # NoFile => rollback = Encrypted(marker.notes)
        /\ newest \in Versions /\ vault.notes = newest
    BY <1>1, <2>1 DEF IInv, DiskHolds
  <2>3. candidate = Encrypted(newest) /\ rollback = Encrypted(newest) /\ vault = Plain(newest)
    <3>1. ~NoFile.encrypted
      BY DEF NoFile, Plain
    <3> QED BY <1>0, <2>1, <2>2, <3>1, FilesAre
  <2>4. /\ vault' = Encrypted(newest) /\ candidate' = Plain(newest) /\ vault'.encrypted
        /\ vault'.notes = newest /\ vault' \in File /\ candidate' \in File
    BY <2>1, <2>2, <2>3, FilesAre
  <2>5. TypeOK'
    BY <1>2, <2>1, <2>4 DEF IInv, TypeOK, Rest_
  <2>6. DiskHolds'
    BY <1>1, <1>2, <2>1, <2>2, <2>3, <2>4 DEF DiskHolds, At
  <2>7. WorkerHolds'
    BY <1>1, <2>1, <2>4 DEF WorkerHolds, At, Resting, Making_, Working
  <2>8. OwnerHolds'
    BY <1>1, <1>2, <1>3, <2>1 DEF IInv, OwnerHolds, Rest_, At, Attributed
  <2>9. DisplacedHolds' /\ ArtifactsHold'
    BY <1>1, <1>2, <2>1, BeforeCleaning DEF At, Finished, Working
  <2>10. FinishedHolds'
    BY <1>1, <2>1, NotFinished DEF At, Phases
  <2> QED BY <2>5, <2>6, <2>7, <2>8, <2>9, <2>10 DEF IInv
<1>5. CASE Exchanged
  <2>1. /\ pc' = "swapped" /\ vault.encrypted
        /\ UNCHANGED <<vault, candidate, rollback, marker>>
    BY <1>5 DEF Exchanged, Doing, Verified, Keep, database
  <2>2. TypeOK' /\ DiskHolds'
    BY <1>2, <2>1, DiskSame DEF IInv, TypeOK, Rest_, Disk
  <2>3. WorkerHolds'
    BY <1>1, <2>1 DEF WorkerHolds, At, Resting, Making_, Working
  <2>4. OwnerHolds'
    BY <1>1, <1>2, <1>3, <2>1 DEF IInv, OwnerHolds, Rest_, At, Attributed
  <2>5. DisplacedHolds' /\ ArtifactsHold'
    BY <1>1, <1>2, <2>1, BeforeCleaning DEF At, Finished, Working
  <2>6. FinishedHolds'
    BY <1>1, <2>1, NotFinished DEF At, Phases
  <2> QED BY <2>2, <2>3, <2>4, <2>5, <2>6 DEF IInv
<1>6. CASE Discard \/ DiscardRollback
  <2>1. /\ pc' \in {"discard-rollback", "discard-marker"} /\ ~vault.encrypted
        /\ UNCHANGED <<vault, marker>> /\ candidate' = NoFile
        /\ rollback' \in File \cup {NoFile}
    BY <1>0, <1>6 DEF Discard, DiscardRollback, Doing, Keep, database, IInv, WorkerHolds
  <2>2. TypeOK'
    BY <1>2, <2>1 DEF IInv, TypeOK, Rest_
  <2>3. DiskHolds'
    BY <1>1, <1>2, <2>1 DEF IInv, DiskHolds, At, Phases
  <2>4. WorkerHolds'
    BY <1>1, <2>1 DEF WorkerHolds, At, Resting, Making_, Working
  <2>5. OwnerHolds'
    BY <1>1, <1>2, <1>3, <2>1 DEF IInv, OwnerHolds, Rest_, At, Attributed
  <2>6. DisplacedHolds' /\ ArtifactsHold'
    BY <1>1, <1>2, <2>1, BeforeCleaning DEF At, Finished, Working
  <2>7. FinishedHolds'
    BY <2>1, NotFinished
  <2> QED BY <2>2, <2>3, <2>4, <2>5, <2>6, <2>7 DEF IInv
<1>7. CASE DiscardMarker
  <2>1. /\ pc' = "start" /\ ~vault.encrypted /\ marker' = NoMarker
        /\ UNCHANGED <<vault, candidate, rollback>>
    BY <1>7 DEF DiscardMarker, Doing, Keep, database, IInv, WorkerHolds
  <2>2. ~At(Phases)' /\ At({"none"})'
    BY <2>1 DEF At, NoMarker, Phases
  <2>3. TypeOK'
    BY <1>2, <2>1 DEF IInv, TypeOK, Rest_
  <2>4. DiskHolds'
    BY <1>2, <2>1, <2>2 DEF IInv, DiskHolds, At, Phases
  <2>5. WorkerHolds'
    BY <2>1 DEF WorkerHolds, Resting, Making_, Working
  <2>6. OwnerHolds'
    BY <1>2, <1>3, <2>1, <2>2 DEF OwnerHolds, Rest_, At, Phases, Working
  <2>7. DisplacedHolds' /\ ArtifactsHold'
    BY <1>1, <1>2, <2>1, <2>2, BeforeCleaning DEF At, Finished, Working, Phases
  <2>8. FinishedHolds'
    BY <2>1, NotFinished
  <2> QED BY <2>3, <2>4, <2>5, <2>6, <2>7, <2>8 DEF IInv
<1>8. CASE MarkSwapped
  <2>1. /\ pc = "swapped" /\ pc' = "displaced" /\ UNCHANGED <<vault, candidate, rollback>>
        /\ marker' = [marker EXCEPT !.phase = "swapped"]
    BY <1>8 DEF MarkSwapped, Doing, Keep, database
  <2>2. /\ marker' \in Marker /\ marker'.phase = "swapped" /\ marker'.policy = marker.policy
        /\ marker'.notes = marker.notes
    BY <1>1, <2>1, MarkerWith DEF Phases
  <2>3. vault.encrypted /\ candidate = Plain(newest) /\ marker.notes = newest
    BY <1>1, <2>1, MarkerIs DEF IInv, WorkerHolds, DiskHolds
  <2>4. \A phases : At(phases)' <=> "swapped" \in phases
    BY <2>2 DEF At
  <2>5. TypeOK'
    BY <1>2, <2>1, <2>2 DEF IInv, TypeOK, Rest_
  <2>6. DiskHolds'
    BY <1>2, <2>1, <2>2, <2>3, <2>4 DEF IInv, DiskHolds
  <2>7. WorkerHolds'
    BY <2>1, <2>4 DEF WorkerHolds, Resting, Making_, Working
  <2>8. OwnerHolds'
    BY <1>2, <1>3, <2>1, <2>2, <2>4 DEF OwnerHolds, Rest_
  <2>9. DisplacedHolds' /\ ArtifactsHold'
    <3>1. ~Finished' /\ ~At({"cleanup_complete"})' /\ candidate' = Plain(newest')
      BY <1>2, <2>1, <2>3, <2>4 DEF Finished
    <3> QED BY <1>1, <1>2, <3>1, BeforeCleaning DEF At, Working
  <2>10. FinishedHolds'
    BY <2>1, <2>4, NotFinished DEF Phases
  <2> QED BY <2>5, <2>6, <2>7, <2>8, <2>9, <2>10 DEF IInv
<1> QED BY <1>4, <1>5, <1>6, <1>7, <1>8 DEF Exchanging

-----------------------------------------------------------------------------
(* The displaced plaintext and the backups are dealt with.                 *)

\* What is on the disk while the plaintext is dealt with.
LEMMA WhileCleaning ==
    ASSUME IInv, pc \in {"displaced", "artifacts"}
    PROVE /\ At({"swapped"}) /\ ~At({"none"}) /\ ~At({"candidate_verified"})
          /\ ~At({"cleanup_complete"}) /\ ~Finished /\ marker \in Marker
          /\ vault.encrypted /\ newest \in Versions /\ Plain(newest) # NoFile
          /\ Plain(newest) \in File
          /\ policy \in Policies /\ marker.policy = policy /\ Attributed /\ asked = NotAsked
          /\ candidate \in {NoFile, Plain(newest)} /\ retained \in {NoFile, Plain(newest)}
          /\ policy.live = "delete" => retained = NoFile
          /\ policy.live # "delete" => candidate = Plain(newest) \/ retained = Plain(newest)
<1>1. At({"swapped"})
  BY DEF IInv, WorkerHolds
<1>2. /\ ~At({"none"}) /\ ~At({"candidate_verified"}) /\ ~At({"cleanup_complete"})
      /\ ~Finished /\ marker \in Marker
  BY <1>1, MarkerIs DEF IInv, At, Finished
<1>3. vault.encrypted /\ newest \in Versions /\ candidate \in {NoFile, Plain(newest)}
  BY <1>1 DEF IInv, DiskHolds, At
<1>4. Plain(newest) # NoFile /\ Plain(newest) \in File
  BY <1>3, FilesAre
<1>5. policy \in Policies /\ marker.policy = policy /\ asked = NotAsked
  BY DEF IInv, OwnerHolds, Resting, Working
<1>6. Attributed
  BY <1>5, ConstantsAssumption DEF Attributed
<1> QED BY <1>1, <1>2, <1>3, <1>4, <1>5, <1>6 DEF IInv, DisplacedHolds

LEMMA PlaintextStep ==
    ASSUME IInv, pc = "displaced", pc' \in {"displaced", "artifacts"},
           UNCHANGED <<vault, newest, rollback, marker, place, audits, journal, asked, policy,
                       decided, todo, bound>>,
           candidate' \in {NoFile, Plain(newest)}, retained' \in {NoFile, Plain(newest)},
           policy.live = "delete" => retained' = NoFile,
           policy.live # "delete" => candidate' = Plain(newest) \/ retained' = Plain(newest),
           pc' = "artifacts" => candidate' = NoFile
    PROVE IInv'
<1>1. \A phases : At(phases)' <=> At(phases)
  BY DEF At
<1>2. ~Finished'
  BY <1>1, WhileCleaning DEF Finished
<1>3. TypeOK'
  BY WhileCleaning DEF IInv, TypeOK
<1>4. DiskHolds'
  BY <1>1, WhileCleaning DEF IInv, DiskHolds
<1>5. WorkerHolds'
  BY <1>1, WhileCleaning DEF WorkerHolds, Resting, Making_, Working
<1>6. OwnerHolds'
  BY <1>1, WhileCleaning DEF IInv, OwnerHolds, Resting, Working
<1>7. DisplacedHolds'
  <2>1. Attributed' /\ marker'.policy = policy /\ At({"swapped", "cleanup_complete"})
    BY WhileCleaning DEF Attributed, At
  <2>2. ~At({"cleanup_complete"})' /\ At({"swapped", "cleanup_complete"})'
    BY <1>1, <2>1, WhileCleaning
  <2> QED BY <2>1, <2>2 DEF DisplacedHolds
<1>8. ArtifactsHold'
  BY WhileCleaning, ArtifactsSame DEF IInv, Working
<1>9. FinishedHolds'
  BY <1>1, WhileCleaning, MarkerIs, NotFinished DEF IInv
<1> QED BY <1>3, <1>4, <1>5, <1>6, <1>7, <1>8, <1>9 DEF IInv

\* A backup is where the decision puts it, or on the way there.
LEMMA DealWithStep ==
    ASSUME IInv, NEW a \in Artifacts, DealWith(a)
    PROVE IInv'
<1>1. /\ UNCHANGED <<Disk, retained, audits, journal, pc, asked, policy, decided, bound>>
      /\ pc = "artifacts" /\ a \in todo
  BY DEF DealWith, database, owner, env, Disk
<1>2. PICK where \in {"here", "both", "moved", "gone"} :
        /\ place' = [place EXCEPT ![a] = where]
        /\ where \in {"both", "moved"} => policy.artifacts = "move"
        /\ where = "gone" => policy.artifacts = "delete"
        /\ todo' = todo \/ (todo' = todo \ {a} /\ where = Outcome(policy.artifacts))
  <2>1. policy.artifacts \in Decisions
    BY <1>1, WhileCleaning, ConstantsAssumption
  <2>2. /\ Outcome(policy.artifacts) \in {"here", "moved", "gone"}
        /\ Outcome(policy.artifacts) = "moved" => policy.artifacts = "move"
        /\ Outcome(policy.artifacts) = "gone" => policy.artifacts = "delete"
    BY <2>1 DEF Decisions, Outcome
  <2>3. \/ place' = [place EXCEPT ![a] = Outcome(policy.artifacts)] /\ todo' = todo \ {a}
        \/ /\ policy.artifacts = "move" /\ todo' = todo
           /\ place' = [place EXCEPT ![a] = "both"]
    BY DEF DealWith
  <2>4. CASE place' = [place EXCEPT ![a] = Outcome(policy.artifacts)] /\ todo' = todo \ {a}
    BY <2>2, <2>4
  <2>5. CASE /\ policy.artifacts = "move" /\ todo' = todo
             /\ place' = [place EXCEPT ![a] = "both"]
    BY <2>5
  <2> QED BY <2>3, <2>4, <2>5
<1>3. /\ place' \in [Artifacts -> {"absent", "here", "both", "moved", "gone"}]
      /\ place'[a] = where /\ \A b \in Artifacts : b # a => place'[b] = place[b]
      /\ bound \subseteq Artifacts
  BY <1>2 DEF IInv, TypeOK
<1>4. TypeOK'
  BY <1>1, <1>2, <1>3 DEF IInv, TypeOK, Disk
<1>5. DiskHolds' /\ DisplacedHolds'
  BY <1>1, DiskSame, DisplacedSame DEF IInv
<1>6. WorkerHolds' /\ OwnerHolds'
  BY <1>1 DEF IInv, WorkerHolds, OwnerHolds, Disk, At, Attributed
<1>7. ArtifactsHold'
  <2>1. \A phases : At(phases)' <=> At(phases)
    BY <1>1 DEF At, Disk
  <2>2. \A b \in bound' : place'[b] # "absent"
    BY <1>1, <1>2, <1>3 DEF IInv, ArtifactsHold
  <2>3. \A b \in bound' : b \in todo' \/ place'[b] = Outcome(policy'.artifacts)
    <3>1. \A b \in bound : b \in todo \/ place[b] = Outcome(policy.artifacts)
      BY <1>1, WhileCleaning DEF IInv, ArtifactsHold, Working
    <3> QED BY <1>1, <1>2, <1>3, <3>1
  <2>4. \A b \in Artifacts :
          /\ place'[b] \in {"both", "moved"} => Attributed' /\ marker'.policy.artifacts = "move"
          /\ place'[b] = "gone" => Attributed' /\ marker'.policy.artifacts = "delete"
    <3>1. Attributed' /\ marker'.policy = policy
      BY <1>1, WhileCleaning DEF Attributed, Disk
    <3>2. \A b \in Artifacts :
            /\ place[b] \in {"both", "moved"} => policy.artifacts = "move"
            /\ place[b] = "gone" => policy.artifacts = "delete"
      BY <1>1, WhileCleaning DEF IInv, ArtifactsHold
    <3>3. ASSUME NEW b \in Artifacts
          PROVE /\ place'[b] \in {"both", "moved"} => policy.artifacts = "move"
                /\ place'[b] = "gone" => policy.artifacts = "delete"
      BY <1>2, <1>3, <3>2
    <3> QED BY <3>1, <3>3
  <2> QED BY <1>1, <2>1, <2>2, <2>3, <2>4, WhileCleaning DEF ArtifactsHold, At
<1>8. FinishedHolds'
  <2>1. At(Phases)'
    BY <1>1, WhileCleaning DEF At, Disk, Phases
  <2> QED BY <1>1, <2>1, NotFinished
<1> QED BY <1>4, <1>5, <1>6, <1>7, <1>8 DEF IInv

\* With nothing left to do, all is as the marker will say.
LEMMA CompleteStep ==
    ASSUME IInv, Complete
    PROVE IInv'
<1>1. /\ UNCHANGED <<vault, candidate, rollback, newest, retained, place, audits, journal,
                     asked, policy, decided, todo, bound>>
      /\ pc = "artifacts" /\ pc' = "open" /\ todo = {} /\ marker' = Completed
  BY DEF Complete, Doing, Keep, database, owner, env
<1>2. /\ marker' \in Marker /\ marker'.phase = "cleanup_complete"
      /\ marker'.policy = marker.policy /\ marker'.notes = marker.notes
  <2> DEFINE m == [marker EXCEPT !.phase = "cleanup_complete"]
             kept == policy.live # "delete" /\ retained # NoFile
  <2>1. /\ m \in Marker /\ m.phase = "cleanup_complete"
        /\ m.policy = marker.policy /\ m.notes = marker.notes
    BY <1>1, WhileCleaning, MarkerWith DEF Phases
  <2>2. marker' = [m EXCEPT !.retained = kept] /\ kept \in BOOLEAN
    BY <1>1, <2>1 DEF Completed
  <2> HIDE DEF m, kept
  <2> QED BY <2>1, <2>2, MarkerWith
<1>3. \A phases : At(phases)' <=> "cleanup_complete" \in phases
  BY <1>2 DEF At
<1>4. candidate = NoFile /\ marker.notes = newest
  BY <1>1, WhileCleaning DEF IInv, WorkerHolds, DiskHolds, At, Phases
<1>5. TypeOK'
  BY <1>1, <1>2 DEF IInv, TypeOK
<1>6. DiskHolds'
  BY <1>1, <1>2, <1>3, <1>4, WhileCleaning DEF IInv, DiskHolds
<1>7. WorkerHolds'
  BY <1>1, <1>3 DEF WorkerHolds, Resting, Making_, Working
<1>8. OwnerHolds'
  BY <1>1, <1>2, WhileCleaning DEF OwnerHolds, Attributed
<1>9. DisplacedHolds'
  <2>1. retained = IF policy.live = "delete" THEN NoFile ELSE Plain(newest)
    BY <1>1, <1>4, WhileCleaning
  <2> QED BY <1>1, <1>2, <1>3, <2>1, WhileCleaning DEF DisplacedHolds
<1>10. ArtifactsHold'
  <2>1. \A b \in bound : place[b] = Outcome(policy.artifacts) /\ place[b] # "absent"
    BY <1>1, WhileCleaning DEF IInv, ArtifactsHold, Working
  <2> QED BY <1>1, <1>2, <1>3, <2>1, WhileCleaning DEF ArtifactsHold
<1>11. FinishedHolds'
  BY <1>1, <1>3, NotFinished DEF Phases
<1> QED BY <1>5, <1>6, <1>7, <1>8, <1>9, <1>10, <1>11 DEF IInv

LEMMA CleaningStep ==
    ASSUME IInv, Cleaning
    PROVE IInv'
<1>1. CASE DeleteDisplaced
  <2>1. /\ pc = "displaced" /\ pc' = "artifacts" /\ policy.live = "delete"
        /\ candidate' = NoFile
        /\ UNCHANGED <<vault, newest, rollback, marker, retained, place, audits, journal, asked,
                       policy, decided, todo, bound>>
    BY <1>1 DEF DeleteDisplaced, Doing, Keep, database, owner, env
  <2> QED BY <2>1, WhileCleaning, PlaintextStep
<1>2. CASE CopyDisplaced
  <2>1. /\ pc = "displaced" /\ pc' = "displaced" /\ policy.live = "move"
        /\ candidate # NoFile /\ retained' = candidate
        /\ UNCHANGED <<vault, newest, candidate, rollback, marker, place, audits, journal, asked,
                       policy, decided, todo, bound>>
    BY <1>2 DEF CopyDisplaced, Doing, database, owner, env
  <2> QED BY <2>1, WhileCleaning, PlaintextStep
<1>3. CASE MoveDisplaced
  <2>1. /\ pc = "displaced" /\ pc' = "artifacts" /\ policy.live # "delete"
        /\ candidate' = NoFile
        /\ retained' = IF candidate # NoFile THEN candidate ELSE retained
        /\ UNCHANGED <<vault, newest, rollback, marker, place, audits, journal, asked,
                       policy, decided, todo, bound>>
    BY <1>3 DEF MoveDisplaced, Doing, database, owner, env
  <2> QED BY <2>1, WhileCleaning, PlaintextStep
<1>4. CASE \E a \in Artifacts : DealWith(a)
  BY <1>4, DealWithStep
<1>5. CASE Complete
  BY <1>5, CompleteStep
<1> QED BY <1>1, <1>2, <1>3, <1>4, <1>5 DEF Cleaning

-----------------------------------------------------------------------------
(* The vault is opened, the migration recorded and its marker removed.     *)

LEMMA OpeningStep ==
    ASSUME IInv, Open \/ Audit
    PROVE IInv'
<1>1. /\ UNCHANGED <<Disk, retained, place, asked, policy, decided, todo, bound>>
      /\ pc \in {"open", "audit"} /\ pc' \in {"audit", "finalize"}
      /\ journal' \in BOOLEAN /\ audits' \in Nat /\ (pc' = "finalize" => audits' >= 1)
  <2>1. audits \in Nat /\ journal \in BOOLEAN
    BY DEF IInv, TypeOK
  <2>2. CASE Open
    BY <2>1, <2>2 DEF Open, Doing, files, owner, env, Disk
  <2>3. CASE Audit
    BY <2>1, <2>3 DEF Audit, Doing, files, owner, env, Disk
  <2> QED BY <2>2, <2>3
<1>2. At({"cleanup_complete"})
  BY <1>1 DEF IInv, WorkerHolds
<1>3. TypeOK'
  BY <1>1 DEF IInv, TypeOK, Disk
<1>4. DiskHolds' /\ DisplacedHolds'
  BY <1>1, DiskSame, DisplacedSame DEF IInv
<1>5. WorkerHolds'
  BY <1>1, <1>2 DEF WorkerHolds, Disk, At, Resting, Making_, Working
<1>6. OwnerHolds'
  BY <1>1, OwnerSame DEF IInv, Disk, Working
<1>7. ArtifactsHold'
  BY <1>1, <1>2, ArtifactsSame DEF IInv, Disk
<1>8. FinishedHolds'
  <2>1. At(Phases)'
    BY <1>1, <1>2 DEF At, Disk, Phases
  <2> QED BY <1>1, <2>1, NotFinished
<1> QED BY <1>3, <1>4, <1>5, <1>6, <1>7, <1>8 DEF IInv

LEMMA FinalizeStep ==
    ASSUME IInv, Finalize
    PROVE IInv'
<1>1. /\ UNCHANGED <<vault, candidate, rollback, newest, retained, place, audits, journal,
                     asked, policy, decided, todo, bound>>
      /\ pc = "finalize" /\ pc' = "idle" /\ marker' = NoMarker
  BY DEF Finalize, Doing, Keep, database, owner, env
<1>2. /\ At({"cleanup_complete"}) /\ vault.encrypted /\ candidate = NoFile /\ audits >= 1
      /\ policy \in Policies /\ marker.policy = policy /\ asked = NotAsked
      /\ newest \in Versions /\ vault.notes = newest /\ rollback = Encrypted(newest)
  BY <1>1 DEF IInv, WorkerHolds, OwnerHolds, DiskHolds, FinishedHolds, At, Resting, Working
<1>3. \A phases : At(phases)' <=> "none" \in phases
  BY <1>1 DEF At, NoMarker
<1>4. Finished'
  BY <1>1, <1>2, <1>3 DEF Finished
<1>5. retained = IF policy.live = "delete" THEN NoFile ELSE Plain(newest)
  BY <1>2 DEF IInv, DisplacedHolds
<1>6. \A a \in bound : place[a] = Outcome(policy.artifacts) /\ place[a] # "absent"
  BY <1>2 DEF IInv, ArtifactsHold
<1>7. TypeOK'
  BY <1>1 DEF IInv, TypeOK
<1>8. DiskHolds'
  BY <1>1, <1>2, <1>3 DEF DiskHolds, Phases
<1>9. WorkerHolds'
  BY <1>1, <1>3 DEF WorkerHolds, Resting, Making_, Working
<1>10. OwnerHolds'
  BY <1>1, <1>2, <1>3 DEF OwnerHolds, Resting, Working
<1>11. DisplacedHolds'
  BY <1>3, <1>4 DEF DisplacedHolds
<1>12. ArtifactsHold'
  BY <1>1, <1>3, <1>4, <1>6 DEF ArtifactsHold, Making_, Working
<1>13. FinishedHolds'
  BY <1>1, <1>2, <1>5, <1>6 DEF FinishedHolds, AsDecided
<1> QED BY <1>7, <1>8, <1>9, <1>10, <1>11, <1>12, <1>13 DEF IInv

-----------------------------------------------------------------------------
(* The invariant, and what it says.                                        *)

LEMMA FailsStep ==
    ASSUME IInv, Fails
    PROVE IInv'
<1>1. /\ Down /\ UNCHANGED <<Disk, retained, place, audits, policy, decided, bound>>
      /\ journal' = journal /\ journal \in BOOLEAN
  BY DEF Fails, database, files, env, Disk, IInv, TypeOK
<1> QED BY <1>1, DownStep

LEMMA CrashStep ==
    ASSUME IInv, Crash
    PROVE IInv'
<1>1. /\ Down /\ UNCHANGED <<Disk, retained, place, audits, policy, decided, bound>>
      /\ journal' = journal \/ journal' = TRUE
  BY DEF Crash, files, Disk
<1>2. journal' \in BOOLEAN
  BY <1>1 DEF IInv, TypeOK
<1> QED BY <1>1, <1>2, DownStep

\* The places the vault is found in at first, a migration of before the broker included.
LEMMA InitInvariant ==
    ASSUME Init
    PROVE IInv
<1>1. /\ audits = 0 /\ journal = FALSE /\ retained = NoFile
      /\ place \in [Artifacts -> {"absent", "here"}]
      /\ pc = "idle" /\ asked = NotAsked /\ policy = Unattributed
      /\ decided = {} /\ todo = {} /\ newest = 0 /\ bound = {}
      /\ 0 \in Versions /\ candidate \in File \cup {NoFile} /\ rollback \in File \cup {NoFile}
      /\ vault \in File
  <2>1. 0 \in Versions
    BY FilesAre DEF Versions
  <2> QED BY <2>1, FilesAre DEF Init
<1>2. \/ marker = NoMarker /\ vault = Plain(0) /\ candidate = NoFile /\ rollback = NoFile
      \/ /\ marker = NewMarker(0, Unattributed) /\ vault = Plain(0)
         /\ candidate = Encrypted(0) /\ rollback = Encrypted(0)
      \/ /\ marker = [NewMarker(0, Unattributed) EXCEPT !.phase = "swapped"]
         /\ vault = Encrypted(0) /\ candidate = Plain(0) /\ rollback = Encrypted(0)
  BY DEF Init
<1>3. /\ NewMarker(0, Unattributed) \in Marker
      /\ NewMarker(0, Unattributed).phase = "candidate_verified"
      /\ NewMarker(0, Unattributed).notes = 0
      /\ NewMarker(0, Unattributed).policy = Unattributed
  BY <1>1 DEF NewMarker, Marker, Phases
<1>4. CASE marker = NoMarker /\ vault = Plain(0) /\ candidate = NoFile /\ rollback = NoFile
  <2>1. \A phases : At(phases) <=> "none" \in phases
    BY <1>4 DEF At, NoMarker
  <2>2. vault.notes = 0 /\ ~vault.encrypted /\ ~Finished
    BY <1>4, FilesAre DEF Finished
  <2>3. TypeOK
    BY <1>1, <1>4 DEF TypeOK
  <2>4. DiskHolds
    BY <1>1, <1>4, <2>1, <2>2 DEF DiskHolds, Phases
  <2>5. WorkerHolds /\ OwnerHolds
    BY <1>1, <2>1 DEF WorkerHolds, OwnerHolds, Resting, Making_, Working
  <2>6. DisplacedHolds /\ ArtifactsHold
    BY <1>1, <2>1 DEF DisplacedHolds, ArtifactsHold, Making_, Working
  <2>7. FinishedHolds
    BY <1>1, <2>2 DEF FinishedHolds
  <2> QED BY <2>3, <2>4, <2>5, <2>6, <2>7 DEF IInv
<1>5. CASE /\ marker = NewMarker(0, Unattributed) /\ vault = Plain(0)
           /\ candidate = Encrypted(0) /\ rollback = Encrypted(0)
  <2>1. \A phases : At(phases) <=> "candidate_verified" \in phases
    BY <1>3, <1>5 DEF At
  <2>2. vault.notes = 0 /\ ~vault.encrypted /\ ~Finished
    BY <1>5, FilesAre DEF Finished
  <2>3. TypeOK
    BY <1>1, <1>3, <1>5 DEF TypeOK
  <2>4. DiskHolds
    BY <1>1, <1>3, <1>5, <2>1, <2>2 DEF DiskHolds
  <2>5. WorkerHolds /\ OwnerHolds
    BY <1>1, <2>1 DEF WorkerHolds, OwnerHolds, Resting, Making_, Working
  <2>6. DisplacedHolds /\ ArtifactsHold
    BY <1>1, <2>1 DEF DisplacedHolds, ArtifactsHold, Making_, Working
  <2>7. FinishedHolds
    BY <1>1, <2>2 DEF FinishedHolds
  <2> QED BY <2>3, <2>4, <2>5, <2>6, <2>7 DEF IInv
<1>6. CASE /\ marker = [NewMarker(0, Unattributed) EXCEPT !.phase = "swapped"]
           /\ vault = Encrypted(0) /\ candidate = Plain(0) /\ rollback = Encrypted(0)
  <2>1. /\ marker \in Marker /\ marker.phase = "swapped" /\ marker.notes = 0
        /\ marker.policy = Unattributed
    BY <1>3, <1>6, MarkerWith DEF Phases
  <2>2. \A phases : At(phases) <=> "swapped" \in phases
    BY <2>1 DEF At
  <2>3. vault.notes = 0 /\ vault.encrypted /\ ~Finished
    BY <1>6, <2>2, FilesAre DEF Finished
  <2>4. TypeOK
    BY <1>1, <2>1 DEF TypeOK
  <2>5. DiskHolds
    BY <1>1, <1>6, <2>1, <2>2, <2>3 DEF DiskHolds
  <2>6. WorkerHolds /\ OwnerHolds
    BY <1>1, <2>2 DEF WorkerHolds, OwnerHolds, Resting, Making_, Working
  <2>7. DisplacedHolds /\ ArtifactsHold
    BY <1>1, <1>6, <2>1, <2>2 DEF DisplacedHolds, ArtifactsHold, Making_, Working, Attributed
  <2>8. FinishedHolds
    BY <1>1, <2>3 DEF FinishedHolds
  <2> QED BY <2>4, <2>5, <2>6, <2>7, <2>8 DEF IInv
<1> QED BY <1>2, <1>4, <1>5, <1>6

LEMMA StutterStep ==
    ASSUME IInv, UNCHANGED vars
    PROVE IInv'
<1>1. /\ UNCHANGED <<Disk, retained, place, audits, journal, pc, asked, policy, decided, todo,
                     bound>>
  BY DEF vars, database, files, owner, env, Disk
<1>2. TypeOK'
  BY <1>1 DEF IInv, TypeOK, Disk
<1>3. DiskHolds' /\ DisplacedHolds'
  BY <1>1, DiskSame, DisplacedSame DEF IInv
<1>4. WorkerHolds' /\ OwnerHolds'
  BY <1>1 DEF IInv, WorkerHolds, OwnerHolds, Disk, At, Attributed
<1>5. ArtifactsHold'
  BY <1>1, ArtifactsSame DEF IInv, Disk, Making_, Working
<1>6. FinishedHolds'
  BY <1>1 DEF IInv, FinishedHolds, Finished, AsDecided, Disk, At
<1> QED BY <1>2, <1>3, <1>4, <1>5, <1>6 DEF IInv

\* Migrations of a vault keep to the inductive invariant: the marker tells what is on
\* the disk at every moment a worker of encrypted-vault-migration.ts may go away at.
THEOREM MigrationInductive == Spec => []IInv
<1>1. ASSUME IInv, Next
      PROVE IInv'
  BY <1>1, BeginStep, ApproveStep, RejectStep, StartStep, FailsStep, MakingStep,
     ExchangingStep, CleaningStep, OpeningStep, FinalizeStep, BootStep, CrashStep,
     EditStep, AppearStep
     DEF Next, Migrate
<1>2. IInv /\ [Next]_vars => IInv'
  BY <1>1, StutterStep
<1> QED BY InitInvariant, <1>2, PTL DEF Spec

\* The vault holds the newest notes at every moment, and from when it is encrypted the
\* rollback copy does too, wherever the migration was interrupted and however often
\* (migratePlaintextVaultUnlocked).
THEOREM NotesKept == Spec => []NotesAreKept
<1>1. IInv => NotesAreKept
  BY DEF IInv, DiskHolds, NotesAreKept
<1> QED BY <1>1, MigrationInductive, PTL

\* When the migration is over, the displaced plaintext and every backup the owner was
\* shown are what the owner decided, and the audit has it, by however many attempts
\* (applyLegacyArtifactDecisions, finalizePlaintextVaultMigration).
THEOREM DecidedIsDone == Spec => []AsDecided
<1>1. IInv => AsDecided
  BY DEF IInv, FinishedHolds, AsDecided
<1> QED BY <1>1, MigrationInductive, PTL
=============================================================================
