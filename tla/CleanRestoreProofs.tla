------------------------- MODULE CleanRestoreProofs -------------------------
(***************************************************************************)
(* Proofs about CleanRestore, for any exports, and any number of attempts, *)
(* crashes and changes of the export.                                      *)
(*                                                                         *)
(* A restore may be interrupted anywhere and is resumed by what is on the  *)
(* disk.  The phase of the marker tells which files there may be, each of  *)
(* the attempt in the marker (BesideHolds); what the worker does next      *)
(* tells more (WorkerHolds); and whatever was opened or audited before an  *)
(* interruption is put back to the candidate as it was verified, so that   *)
(* one attempt audits once (VaultHolds).                                   *)
(***************************************************************************)
EXTENDS CleanRestore, TLAPS

-----------------------------------------------------------------------------
(* The inductive invariant.                                                *)

Resting == {"idle", "down"}
Preparing == {"prepare", "mark"}
Importing == {"import", "verify", "accept"}
Publishing == {"link", "tidy"}
Redoing == {"rebase", "stage", "swap", "settle", "publish"}
Serving == {"open", "audit", "seal", "link-seal", "check"}
Ending == {"finalize", "drop-baseline", "drop-seal", "drop-marker"}

\* What the marker says.
MarkerHolds ==
    /\ At(Middle \cup Sealed) => /\ marker.candidate \in Content
                                 /\ marker.candidate.src = marker.src
                                 /\ marker.candidate.audits = 0
    /\ At(Sealed) => /\ marker.final \in Content
                     /\ marker.final.src = marker.src /\ marker.final.audits = 1

\* How far the worker has come, and with what the owner approved.
WorkerHolds ==
    /\ attempt \in Nat
    /\ pc \in Resting \cup Preparing \cup Importing \cup Publishing \cup Redoing
                \cup Serving \cup Ending \cup {"reopen"}
    /\ pc \notin Resting => target \in Sources
    /\ pc \in Importing \cup Publishing \cup Redoing \cup Serving \cup Ending =>
         target = marker.src
    /\ pc \in Preparing => At({"none"} \cup Early)
    /\ pc \in Importing => At(Early)
    /\ pc = "accept" => work = marker.src
    /\ pc \in Publishing => At({"candidate_verified"})
    /\ pc \in Redoing => At(Middle)
    /\ pc \in Serving => At({"published"})
    /\ pc \in {"link-seal", "check"} => marker.seal
    /\ pc = "finalize" => At(Sealed)
    /\ pc \in Ending \ {"finalize"} => At({"finalizing"})
    /\ pc = "reopen" => At({"none"})

\* What is at the vault's path.
VaultHolds ==
    /\ At({"none"}) => /\ vault = NoVault \/ (vault.src = target /\ vault.audits = 1)
                       /\ pc \in Preparing => vault = NoVault
    /\ pc \in {"stage", "swap"} => vault # Stranger
    /\ pc \in {"tidy", "settle", "publish", "open"} => vault = marker.candidate
    /\ pc \in {"audit", "seal", "link-seal", "check"} =>
         /\ vault \in Content /\ vault.src = marker.src
         /\ vault.audits = IF pc = "audit" THEN 0 ELSE 1

\* What is beside it.
BesideHolds ==
    /\ At({"none"}) => temps = {} /\ bases = {} /\ seals = {}
    /\ ~At({"none"}) => temps \cup bases \cup seals \subseteq {marker.of}
    /\ At(Early) => seals = {}
    /\ pc = "mark" => temps = {} /\ bases = {}
    /\ At(Sealed) => temps = {}
    /\ pc = "drop-seal" => bases = {}
    /\ pc = "drop-marker" => bases = {} /\ seals = {}
    /\ stage => At(Middle) /\ pc \in Resting \cup {"rebase", "stage", "swap"}

IInv == TypeOK /\ MarkerHolds /\ WorkerHolds /\ VaultHolds /\ BesideHolds

-----------------------------------------------------------------------------
(* Vaults and markers.                                                     *)

Steps == Preparing \cup Importing \cup Publishing \cup Redoing \cup Serving \cup Ending
           \cup {"reopen"}

LEMMA VaultsAre ==
    /\ NoVault \notin Content /\ Stranger \notin Content /\ Stranger # NoVault
    /\ NoVault.src = NoSource /\ Stranger.src = NoSource /\ NoSource \notin Sources
    /\ \A c \in Content : /\ c.src \in Sources /\ c # Stranger /\ c # NoVault
                          /\ [c EXCEPT !.opened = TRUE] \in Content
                          /\ [c EXCEPT !.opened = TRUE].src = c.src
                          /\ [c EXCEPT !.opened = TRUE].audits = c.audits
                          /\ c.audits = 0 => /\ [c EXCEPT !.audits = @ + 1] \in Content
                                             /\ [c EXCEPT !.audits = @ + 1].src = c.src
                                             /\ [c EXCEPT !.audits = @ + 1].audits = 1
<1>1. /\ NoVault.src = NoSource /\ NoVault.of = 0 /\ NoVault.opened = FALSE
      /\ Stranger.src = NoSource /\ Stranger.of = 0 /\ Stranger.opened = TRUE
  <2>1. NoVault.src = NoSource /\ NoVault.of = 0 /\ NoVault.opened = FALSE
    BY DEF NoVault
  <2>2. /\ Stranger.src = NoSource /\ Stranger.of = 0 /\ Stranger.opened = TRUE
    BY DEF NoVault, Stranger
  <2> QED BY <2>1, <2>2
<1>2. NoSource \notin Sources
  BY ConstantsAssumption
<1>3. \A c \in Content : c.src \in Sources
  BY DEF Content
<1>4. ASSUME NEW c \in Content
      PROVE /\ [c EXCEPT !.opened = TRUE] \in Content
            /\ [c EXCEPT !.opened = TRUE].src = c.src
            /\ [c EXCEPT !.opened = TRUE].audits = c.audits
  <2>1. TRUE \in BOOLEAN
    OBVIOUS
  <2>2. \A b \in BOOLEAN : /\ [c EXCEPT !.opened = b] \in Content
                           /\ [c EXCEPT !.opened = b].src = c.src
                           /\ [c EXCEPT !.opened = b].audits = c.audits
    BY DEF Content
  <2> QED BY <2>1, <2>2
<1>5. ASSUME NEW c \in Content, c.audits = 0
      PROVE /\ [c EXCEPT !.audits = @ + 1] \in Content
            /\ [c EXCEPT !.audits = @ + 1].src = c.src
            /\ [c EXCEPT !.audits = @ + 1].audits = 1
  <2>1. 1 \in 0..MaxCrashes + 1
    BY ConstantsAssumption
  <2>2. [c EXCEPT !.audits = @ + 1] = [c EXCEPT !.audits = 1]
    BY <1>5
  <2>3. /\ [c EXCEPT !.audits = 1] \in Content
        /\ [c EXCEPT !.audits = 1].src = c.src
        /\ [c EXCEPT !.audits = 1].audits = 1
    BY <2>1 DEF Content
  <2> QED BY <2>2, <2>3
<1> QED BY <1>1, <1>2, <1>3, <1>4, <1>5

LEMMA MarkerIs ==
    ASSUME TypeOK
    PROVE /\ At({"none"}) <=> marker = NoMarker
          /\ ~At({"none"}) <=> marker \in Marker
          /\ ~At({"none"}) <=> At(Early) \/ At(Middle) \/ At(Sealed)
          /\ ~At({"none"}) => marker.src \in Sources /\ marker.of \in 1..MaxAttempts
BY DEF TypeOK, At, NoMarker, Marker, Early, Middle, Sealed

\* A marker of which the phase and what belongs to it is written anew.
LEMMA PhaseWith ==
    ASSUME NEW m \in Marker, NEW phase \in Early \cup Middle \cup Sealed
    PROVE /\ [m EXCEPT !.phase = phase] \in Marker
          /\ [m EXCEPT !.phase = phase].phase = phase
          /\ [m EXCEPT !.phase = phase].src = m.src
          /\ [m EXCEPT !.phase = phase].of = m.of
          /\ [m EXCEPT !.phase = phase].candidate = m.candidate
          /\ [m EXCEPT !.phase = phase].final = m.final
          /\ [m EXCEPT !.phase = phase].seal = m.seal
BY DEF Marker

LEMMA CandidateWith ==
    ASSUME NEW m \in Marker, NEW c \in Content \cup {NoVault}
    PROVE /\ [m EXCEPT !.candidate = c] \in Marker
          /\ [m EXCEPT !.candidate = c].candidate = c
          /\ [m EXCEPT !.candidate = c].phase = m.phase
          /\ [m EXCEPT !.candidate = c].src = m.src
          /\ [m EXCEPT !.candidate = c].of = m.of
          /\ [m EXCEPT !.candidate = c].final = m.final
          /\ [m EXCEPT !.candidate = c].seal = m.seal
BY DEF Marker

LEMMA FinalWith ==
    ASSUME NEW m \in Marker, NEW c \in Content \cup {NoVault}
    PROVE /\ [m EXCEPT !.final = c] \in Marker
          /\ [m EXCEPT !.final = c].final = c
          /\ [m EXCEPT !.final = c].phase = m.phase
          /\ [m EXCEPT !.final = c].src = m.src
          /\ [m EXCEPT !.final = c].of = m.of
          /\ [m EXCEPT !.final = c].candidate = m.candidate
          /\ [m EXCEPT !.final = c].seal = m.seal
BY DEF Marker

LEMMA SealWith ==
    ASSUME NEW m \in Marker, NEW s \in BOOLEAN
    PROVE /\ [m EXCEPT !.seal = s] \in Marker
          /\ [m EXCEPT !.seal = s].seal = s
          /\ [m EXCEPT !.seal = s].phase = m.phase
          /\ [m EXCEPT !.seal = s].src = m.src
          /\ [m EXCEPT !.seal = s].of = m.of
          /\ [m EXCEPT !.seal = s].candidate = m.candidate
          /\ [m EXCEPT !.seal = s].final = m.final
BY DEF Marker

-----------------------------------------------------------------------------
(* Steps that leave the marker alone.                                      *)

LEMMA SameMarker ==
    ASSUME TypeOK, MarkerHolds, UNCHANGED <<source, marker, target>>,
           vault' \in Content \cup {NoVault, Stranger},
           journal' \in BOOLEAN, stage' \in BOOLEAN,
           temps' \cup bases' \cup seals' \subseteq 1..MaxAttempts,
           work' \in Sources \cup {NoSource}
    PROVE TypeOK' /\ MarkerHolds'
BY DEF TypeOK, MarkerHolds, At

\* The worker goes.  A commit it leaves half-done is of the vault as it was published.
LEMMA DownStep ==
    ASSUME IInv, Down, UNCHANGED <<marker, bases, seals, stage, target, attempt>>,
           source' = source, temps' \subseteq temps, journal' \in BOOLEAN,
           \/ vault' = vault
           \/ pc \in {"open", "audit"} /\ vault' = [vault EXCEPT !.opened = TRUE]
    PROVE IInv'
<1>1. pc' = "down" /\ work' = NoSource
  BY DEF Down
<1>2. /\ vault' \in Content \cup {NoVault, Stranger}
      /\ At({"none"}) => vault' = vault
  <2>1. CASE vault' = vault
    BY <2>1 DEF IInv, TypeOK
  <2>2. CASE pc \in {"open", "audit"} /\ vault' = [vault EXCEPT !.opened = TRUE]
    <3>1. At({"published"}) /\ ~At({"none"}) /\ At(Middle \cup Sealed)
      BY <2>2 DEF IInv, WorkerHolds, Serving, At, Middle
    <3>2. vault \in Content
      BY <2>2, <3>1 DEF IInv, VaultHolds, MarkerHolds
    <3> QED BY <2>2, <3>1, <3>2, VaultsAre
  <2> QED BY <2>1, <2>2
<1>3. TypeOK' /\ MarkerHolds'
  <2>1. temps' \cup bases' \cup seals' \subseteq 1..MaxAttempts /\ stage' \in BOOLEAN
    BY DEF IInv, TypeOK
  <2> QED BY <1>1, <1>2, <2>1, SameMarker DEF IInv
<1>4. WorkerHolds'
  BY <1>1 DEF IInv, WorkerHolds, Resting, Preparing, Importing, Publishing, Redoing, Serving,
              Ending
<1>5. VaultHolds'
  BY <1>1, <1>2 DEF IInv, VaultHolds, At, Preparing
<1>6. BesideHolds'
  BY <1>1 DEF IInv, BesideHolds, At, Resting
<1> QED BY <1>3, <1>4, <1>5, <1>6 DEF IInv

\* What is beside the vault changes, or nothing does, while the worker goes on.
LEMMA OnwardStep ==
    ASSUME IInv, UNCHANGED <<source, marker, vault, target, attempt>>,
           journal' = journal, pc \in Steps,
           work' \in Sources \cup {NoSource}, stage' \in BOOLEAN,
           temps' \subseteq temps \cup {marker.of}, bases' \subseteq bases \cup {marker.of},
           seals' \subseteq seals \cup {marker.of},
           temps' # temps \/ bases' # bases \/ seals' # seals => ~At({"none"}),
           WorkerHolds', VaultHolds',
           At(Early) => seals' = seals,
           At(Sealed) => temps' = {},
           pc' = "mark" => temps' = {} /\ bases' = {},
           pc' = "drop-seal" => bases' = {},
           pc' = "drop-marker" => bases' = {} /\ seals' = {},
           stage' => At(Middle) /\ pc' \in Resting \cup {"rebase", "stage", "swap"}
    PROVE IInv'
<1>1. /\ temps \cup bases \cup seals \subseteq 1..MaxAttempts /\ journal \in BOOLEAN
      /\ vault \in Content \cup {NoVault, Stranger}
      /\ ~At({"none"}) => marker.of \in 1..MaxAttempts
  BY MarkerIs DEF IInv, TypeOK
<1>2. temps' \cup bases' \cup seals' \subseteq 1..MaxAttempts
  BY <1>1
<1>3. TypeOK' /\ MarkerHolds'
  BY <1>1, <1>2, SameMarker DEF IInv
<1>4. BesideHolds'
  BY DEF IInv, BesideHolds, At
<1> QED BY <1>3, <1>4 DEF IInv

-----------------------------------------------------------------------------
(* Between two attempts.                                                   *)

LEMMA QuietStep ==
    ASSUME IInv, UNCHANGED <<marker, vault, journal, files, pc, target, work, attempt>>,
           source' \in Sources
    PROVE IInv'
<1>1. TypeOK' /\ MarkerHolds'
  BY DEF IInv, TypeOK, MarkerHolds, At, files
<1>2. WorkerHolds' /\ VaultHolds' /\ BesideHolds'
  BY DEF IInv, WorkerHolds, VaultHolds, BesideHolds, At, files
<1> QED BY <1>1, <1>2 DEF IInv

LEMMA StartStep ==
    ASSUME IInv, Start
    PROVE IInv'
<1>1. /\ pc = "down" /\ pc' = "idle"
      /\ UNCHANGED <<source, marker, vault, journal, temps, bases, seals, stage, target, work,
                     attempt>>
  BY DEF Start, env, files
<1>2. TypeOK' /\ MarkerHolds'
  BY <1>1 DEF IInv, TypeOK, MarkerHolds, At
<1>3. WorkerHolds'
  BY <1>1 DEF IInv, WorkerHolds, Resting, Preparing, Importing, Publishing, Redoing, Serving,
              Ending
<1>4. VaultHolds' /\ BesideHolds'
  BY <1>1 DEF IInv, VaultHolds, BesideHolds, At, Preparing, Resting
<1> QED BY <1>2, <1>3, <1>4 DEF IInv

\* Another program's vault is found where nothing was promised of the vault.
LEMMA IntrudeStep ==
    ASSUME IInv, Intrude
    PROVE IInv'
<1>1. /\ pc \in {"idle", "down", "import", "verify", "accept", "link"} /\ ~At({"none"})
      /\ vault' = Stranger /\ journal' = FALSE
      /\ UNCHANGED <<source, marker, temps, bases, seals, stage, pc, target, work, attempt>>
  BY DEF Intrude, env, files
<1>2. TypeOK' /\ MarkerHolds'
  BY <1>1, SameMarker DEF IInv, TypeOK
<1>3. WorkerHolds' /\ BesideHolds'
  BY <1>1 DEF IInv, WorkerHolds, BesideHolds, At
<1>4. VaultHolds'
  BY <1>1 DEF VaultHolds, At
<1> QED BY <1>2, <1>3, <1>4 DEF IInv

\* What the owner approves is the export as it is, and the one the marker is of.
LEMMA ApproveStep ==
    ASSUME IInv, Approve
    PROVE IInv'
<1>1. /\ pc = "idle" /\ Acceptable /\ target' = source /\ pc' = Resumed
      /\ UNCHANGED <<source, marker, vault, journal, temps, bases, seals, stage, work, attempt>>
      /\ source \in Sources
  BY DEF Approve, StableRead, env, files, IInv, TypeOK
<1>2. ~At({"none"}) => target' = marker.src
  BY <1>1 DEF Acceptable
<1>3. /\ At({"none"}) => vault = NoVault
      /\ At({"none"} \cup Early) => pc' = "prepare"
      /\ At(Middle) => pc' = "rebase"
      /\ At(Sealed) => pc' = "finalize"
  BY <1>1 DEF Acceptable, Resumed, At, Early, Middle, Sealed
<1>4. At({"none"} \cup Early) \/ At(Middle) \/ At(Sealed)
  BY MarkerIs DEF IInv, At, Early
<1>5. TypeOK' /\ MarkerHolds'
  BY <1>1 DEF IInv, TypeOK, MarkerHolds, At
<1>6. WorkerHolds'
  <2>1. CASE At({"none"} \cup Early)
    BY <1>1, <1>3, <2>1
       DEF IInv, WorkerHolds, Resting, Preparing, Importing, Publishing, Redoing, Serving,
           Ending, At
  <2>2. CASE At(Middle)
    BY <1>1, <1>2, <1>3, <2>2
       DEF IInv, WorkerHolds, Resting, Preparing, Importing, Publishing, Redoing, Serving,
           Ending, At, Middle
  <2>3. CASE At(Sealed)
    BY <1>1, <1>2, <1>3, <2>3
       DEF IInv, WorkerHolds, Resting, Preparing, Importing, Publishing, Redoing, Serving,
           Ending, At, Sealed
  <2> QED BY <1>4, <2>1, <2>2, <2>3
<1>7. VaultHolds'
  BY <1>1, <1>3, <1>4 DEF VaultHolds, At
<1>8. BesideHolds'
  BY <1>1, <1>3, <1>4 DEF IInv, BesideHolds, At, Resting
<1> QED BY <1>5, <1>6, <1>7, <1>8 DEF IInv

-----------------------------------------------------------------------------
(* A candidate is made and published.                                      *)

LEMMA PrepareStep ==
    ASSUME IInv, Prepare
    PROVE IInv'
<1>1. /\ pc = "prepare" /\ pc' = "mark"
      /\ UNCHANGED <<source, marker, vault, journal, seals, stage, target, work, attempt>>
      /\ IF At(Early) THEN Cleaned ELSE UNCHANGED <<temps, bases>>
  BY DEF Prepare, Doing, Keep, env
<1>2. At({"none"} \cup Early) /\ pc \in Steps /\ target \in Sources
  BY <1>1 DEF IInv, WorkerHolds, Preparing, Steps, Resting
<1>3. temps' = {} /\ bases' = {}
  <2>1. CASE At(Early)
    <3>1. temps \subseteq {marker.of} /\ bases \subseteq {marker.of}
      BY <2>1 DEF IInv, BesideHolds, At, Early
    <3> QED BY <1>1, <2>1, <3>1 DEF Cleaned
  <2>2. CASE ~At(Early)
    <3>1. At({"none"})
      BY <1>2, <2>2 DEF At, Early
    <3> QED BY <1>1, <2>2, <3>1 DEF IInv, BesideHolds
  <2> QED BY <2>1, <2>2
<1>4. /\ temps' # temps \/ bases' # bases \/ seals' # seals => ~At({"none"})
      /\ ~At(Sealed) /\ ~stage
  BY <1>1, <1>2, <1>3 DEF IInv, BesideHolds, At, Early, Middle, Sealed
<1>5. WorkerHolds'
  BY <1>1, <1>2 DEF IInv, WorkerHolds, Resting, Preparing, Importing, Publishing, Redoing,
                    Serving, Ending, At
<1>6. VaultHolds'
  BY <1>1 DEF IInv, VaultHolds, At, Preparing
<1>7. work' \in Sources \cup {NoSource} /\ stage' \in BOOLEAN
  BY <1>1 DEF IInv, TypeOK
<1> QED BY <1>1, <1>2, <1>3, <1>4, <1>5, <1>6, <1>7, OnwardStep

LEMMA MarkStep ==
    ASSUME IInv, Mark
    PROVE IInv'
<1>1. /\ pc = "mark" /\ pc' = "import" /\ attempt < MaxAttempts /\ attempt' = attempt + 1
      /\ UNCHANGED <<source, vault, journal, temps, bases, seals, stage, target, work>>
      /\ marker' = [phase |-> "prepared", src |-> target, of |-> attempt + 1,
                    candidate |-> NoVault, final |-> NoVault, seal |-> FALSE]
  BY DEF Mark, Doing, env, files
<1>2. /\ At({"none"} \cup Early) /\ target \in Sources /\ attempt \in Nat
      /\ attempt + 1 \in 1..MaxAttempts
  BY <1>1, ConstantsAssumption DEF IInv, WorkerHolds, Preparing, Resting
<1>3. temps = {} /\ bases = {} /\ seals = {} /\ ~stage
  BY <1>1, <1>2 DEF IInv, BesideHolds, At, Early, Middle
<1>4. /\ marker' \in Marker /\ marker'.phase = "prepared" /\ marker'.src = target
      /\ marker'.candidate = NoVault /\ marker'.final = NoVault
  BY <1>1, <1>2 DEF Marker, Early
<1>5. /\ At(Early)' /\ ~At({"none"})' /\ ~At(Middle)' /\ ~At(Sealed)' /\ ~At(Middle \cup Sealed)'
  BY <1>4 DEF At, Early, Middle, Sealed
<1>6. TypeOK'
  BY <1>1, <1>4, <1>5 DEF IInv, TypeOK
<1>7. WorkerHolds' /\ MarkerHolds'
  BY <1>1, <1>2, <1>4, <1>5
     DEF WorkerHolds, MarkerHolds, Resting, Preparing, Importing, Publishing, Redoing, Serving,
         Ending
<1>8. VaultHolds' /\ BesideHolds'
  BY <1>1, <1>3, <1>5 DEF VaultHolds, BesideHolds
<1> QED BY <1>6, <1>7, <1>8 DEF IInv

LEMMA ImportStep ==
    ASSUME IInv, Import
    PROVE IInv'
<1>1. /\ pc = "import" /\ pc' = "verify" /\ temps' = temps \cup {marker.of} /\ work' = source
      /\ UNCHANGED <<source, marker, vault, journal, bases, seals, stage, target, attempt>>
  BY DEF Import, Doing, StableRead, env
<1>2. At(Early) /\ pc \in Steps
  BY <1>1 DEF IInv, WorkerHolds, Importing, Steps
<1>3. ~At(Sealed) /\ ~At({"none"}) /\ ~stage
  BY <1>1, <1>2 DEF IInv, BesideHolds, At, Early, Middle, Sealed
<1>4. WorkerHolds'
  BY <1>1, <1>2 DEF IInv, WorkerHolds, Resting, Preparing, Importing, Publishing, Redoing,
                    Serving, Ending, At
<1>5. VaultHolds'
  BY <1>1, <1>3 DEF VaultHolds, At
<1>6. work' \in Sources \cup {NoSource} /\ stage' \in BOOLEAN
  BY <1>1 DEF IInv, TypeOK
<1> QED BY <1>1, <1>2, <1>3, <1>4, <1>5, <1>6, OnwardStep

LEMMA CopyBaselineStep ==
    ASSUME IInv, CopyBaseline
    PROVE IInv'
<1>1. /\ pc = "verify" /\ pc' = "accept" /\ bases' = bases \cup {marker.of} /\ work = marker.src
      /\ UNCHANGED <<source, marker, vault, journal, temps, seals, stage, target, work, attempt>>
  BY DEF CopyBaseline, Doing, Keep, Imported, Verified, Candidate, env
<1>2. At(Early) /\ pc \in Steps
  BY <1>1 DEF IInv, WorkerHolds, Importing, Steps
<1>3. ~At(Sealed) /\ ~At({"none"}) /\ ~stage
  BY <1>1, <1>2 DEF IInv, BesideHolds, At, Early, Middle, Sealed
<1>4. WorkerHolds'
  BY <1>1, <1>2 DEF IInv, WorkerHolds, Resting, Preparing, Importing, Publishing, Redoing,
                    Serving, Ending, At
<1>5. VaultHolds'
  BY <1>1, <1>3 DEF VaultHolds, At
<1>6. work' \in Sources \cup {NoSource} /\ stage' \in BOOLEAN
  BY <1>1 DEF IInv, TypeOK
<1> QED BY <1>1, <1>2, <1>3, <1>4, <1>5, <1>6, OnwardStep

LEMMA AcceptStep ==
    ASSUME IInv, Accept
    PROVE IInv'
<1>1. /\ pc = "accept" /\ pc' = "link" /\ marker' = Accepted(Candidate)
      /\ UNCHANGED <<source, vault, journal, temps, bases, seals, stage, target, work, attempt>>
  BY DEF Accept, Doing, Keep, env, files
<1>2. At(Early) /\ work = marker.src /\ target = marker.src
  BY <1>1 DEF IInv, WorkerHolds, Importing
<1>3. /\ marker \in Marker /\ ~At({"none"}) /\ ~At(Sealed) /\ ~stage /\ marker.final = NoVault
      /\ marker.src \in Sources /\ marker.of \in 1..MaxAttempts
  <2>1. ~At({"none"}) /\ ~At(Sealed) /\ ~At(Middle)
    BY <1>2 DEF At, Early, Middle, Sealed
  <2> QED BY <2>1, MarkerIs DEF IInv, TypeOK, BesideHolds
<1>4. Candidate \in Content /\ Candidate.src = marker.src /\ Candidate.audits = 0
  BY <1>2, <1>3, ConstantsAssumption DEF Candidate, Content
<1>5. /\ marker' \in Marker /\ marker'.phase = "candidate_verified"
      /\ marker'.candidate = Candidate /\ marker'.src = marker.src /\ marker'.of = marker.of
      /\ marker'.final = NoVault
  <2> DEFINE m == [marker EXCEPT !.phase = "candidate_verified"]
             c == Candidate
  <2>1. /\ m \in Marker /\ m.phase = "candidate_verified" /\ m.src = marker.src
        /\ m.of = marker.of /\ m.final = marker.final
    BY <1>3, PhaseWith DEF Middle
  <2>2. marker' = [m EXCEPT !.candidate = c] /\ c \in Content \cup {NoVault}
    BY <1>1, <1>4 DEF Accepted
  <2> HIDE DEF m, c
  <2>3. marker' \in Marker /\ marker'.candidate = c /\ marker'.phase = m.phase
        /\ marker'.src = m.src /\ marker'.of = m.of /\ marker'.final = m.final
    BY <2>1, <2>2, CandidateWith
  <2> QED BY <1>3, <2>1, <2>3 DEF c
<1>6. /\ At(Middle)' /\ ~At(Early)' /\ ~At({"none"})' /\ ~At(Sealed)'
      /\ At({"candidate_verified"})'
  BY <1>5 DEF At, Early, Middle, Sealed
<1>7. Candidate # NoVault
  BY <1>4, VaultsAre
<1>8. TypeOK'
  BY <1>1, <1>5, <1>6, <1>7 DEF IInv, TypeOK
<1>9. MarkerHolds' /\ WorkerHolds'
  BY <1>1, <1>2, <1>4, <1>5, <1>6
     DEF IInv, WorkerHolds, MarkerHolds, Resting, Preparing, Importing, Publishing, Redoing,
         Serving, Ending
<1>10. VaultHolds' /\ BesideHolds'
  BY <1>1, <1>3, <1>5, <1>6 DEF IInv, VaultHolds, BesideHolds
<1> QED BY <1>8, <1>9, <1>10 DEF IInv

\* The vault at the path becomes another: its content is the candidate's, or of it.
LEMMA VaultStep ==
    ASSUME IInv, UNCHANGED <<source, marker, temps, bases, seals, target, attempt, work>>,
           vault' \in Content \cup {NoVault, Stranger}, journal' \in BOOLEAN,
           stage' = stage \/ stage' = FALSE, WorkerHolds', VaultHolds',
           pc' \notin {"mark", "drop-seal", "drop-marker"},
           ~stage'
    PROVE IInv'
<1>1. temps \cup bases \cup seals \subseteq 1..MaxAttempts /\ stage' \in BOOLEAN
      /\ work \in Sources \cup {NoSource}
  BY DEF IInv, TypeOK
<1>2. TypeOK' /\ MarkerHolds'
  BY <1>1, SameMarker DEF IInv
<1>3. BesideHolds'
  BY DEF IInv, BesideHolds, At
<1> QED BY <1>2, <1>3 DEF IInv

LEMMA LinkStep ==
    ASSUME IInv, Link
    PROVE IInv'
<1>1. /\ pc = "link" /\ pc' = "tidy" /\ vault' = marker.candidate
      /\ UNCHANGED <<source, marker, journal, temps, bases, seals, stage, target, work, attempt>>
  BY DEF Link, Doing, Keep, env, files
<1>2. At({"candidate_verified"}) /\ target = marker.src
  BY <1>1 DEF IInv, WorkerHolds, Publishing
<1>3. marker.candidate \in Content /\ ~At({"none"}) /\ ~stage /\ journal \in BOOLEAN
  BY <1>1, <1>2 DEF IInv, MarkerHolds, BesideHolds, At, Middle, Resting, TypeOK
<1>4. WorkerHolds'
  BY <1>1, <1>2 DEF IInv, WorkerHolds, Resting, Preparing, Importing, Publishing, Redoing,
                    Serving, Ending, At
<1>5. VaultHolds'
  BY <1>1, <1>3 DEF VaultHolds, At
<1> QED BY <1>1, <1>3, <1>4, <1>5, VaultStep

LEMMA TidyStep ==
    ASSUME IInv, Tidy \/ Settle
    PROVE IInv'
<1>1. /\ pc \in {"tidy", "settle"} /\ pc' = "publish" /\ temps' = temps \ {marker.of}
      /\ UNCHANGED <<source, marker, vault, journal, bases, seals, stage, target, work, attempt>>
  BY DEF Tidy, Settle, Doing, Keep, env
<1>2. At(Middle) /\ pc \in Steps
  BY <1>1 DEF IInv, WorkerHolds, Publishing, Redoing, Steps, At, Middle
<1>3. ~At(Sealed) /\ ~At(Early) /\ ~At({"none"}) /\ ~stage
  BY <1>1, <1>2 DEF IInv, BesideHolds, At, Early, Middle, Sealed, Resting
<1>4. WorkerHolds'
  BY <1>1, <1>2 DEF IInv, WorkerHolds, Resting, Preparing, Importing, Publishing, Redoing,
                    Serving, Ending, At
<1>5. VaultHolds'
  BY <1>1, <1>3 DEF IInv, VaultHolds, At
<1>6. work' \in Sources \cup {NoSource} /\ stage' \in BOOLEAN
  BY <1>1 DEF IInv, TypeOK
<1> QED BY <1>1, <1>2, <1>3, <1>4, <1>5, <1>6, OnwardStep

LEMMA PublishStep ==
    ASSUME IInv, Publish
    PROVE IInv'
<1>1. /\ pc = "publish" /\ pc' = "open"
      /\ marker' = [marker EXCEPT !.phase = "published", !.final = NoVault, !.seal = FALSE]
      /\ UNCHANGED <<source, vault, journal, temps, bases, seals, stage, target, work, attempt>>
  BY DEF Publish, Doing, Keep, env, files
<1>2. At(Middle) /\ target = marker.src /\ vault = marker.candidate
  BY <1>1 DEF IInv, WorkerHolds, VaultHolds, Redoing
<1>3. /\ marker \in Marker /\ ~At({"none"}) /\ ~At(Sealed) /\ ~stage
      /\ marker.candidate \in Content /\ marker.candidate.src = marker.src
      /\ marker.candidate.audits = 0
  <2>1. ~At({"none"}) /\ ~At(Sealed) /\ At(Middle \cup Sealed)
    BY <1>2 DEF At, Early, Middle, Sealed
  <2> QED BY <1>1, <2>1, MarkerIs DEF IInv, BesideHolds, MarkerHolds, Resting
<1>4. /\ marker' \in Marker /\ marker'.phase = "published" /\ marker'.src = marker.src
      /\ marker'.of = marker.of /\ marker'.candidate = marker.candidate
      /\ marker'.final = NoVault
  <2> DEFINE m == [marker EXCEPT !.phase = "published"]
             n == [m EXCEPT !.final = NoVault]
  <2>1. /\ m \in Marker /\ m.phase = "published" /\ m.src = marker.src
        /\ m.of = marker.of /\ m.candidate = marker.candidate
    BY <1>3, PhaseWith DEF Middle
  <2>2. marker' = [n EXCEPT !.seal = FALSE]
    BY <1>1
  <2> HIDE DEF m
  <2>3. /\ n \in Marker /\ n.phase = m.phase /\ n.src = m.src /\ n.of = m.of
        /\ n.candidate = m.candidate /\ n.final = NoVault
    BY <2>1, FinalWith
  <2> HIDE DEF n
  <2> DEFINE no == FALSE
  <2>4. no \in BOOLEAN /\ marker' = [n EXCEPT !.seal = no]
    BY <2>2
  <2> HIDE DEF no
  <2>5. /\ marker' \in Marker /\ marker'.phase = n.phase /\ marker'.src = n.src
        /\ marker'.of = n.of /\ marker'.candidate = n.candidate /\ marker'.final = n.final
    BY <2>3, <2>4, SealWith
  <2> QED BY <2>1, <2>3, <2>5
<1>5. /\ At(Middle)' /\ ~At(Early)' /\ ~At({"none"})' /\ ~At(Sealed)' /\ At({"published"})'
  BY <1>4 DEF At, Early, Middle, Sealed
<1>6. marker.candidate # NoVault
  BY <1>3, VaultsAre
<1>7. TypeOK'
  BY <1>1, <1>4, <1>5, <1>6 DEF IInv, TypeOK
<1>8. MarkerHolds' /\ WorkerHolds'
  BY <1>1, <1>2, <1>3, <1>4, <1>5
     DEF IInv, WorkerHolds, MarkerHolds, Resting, Preparing, Importing, Publishing, Redoing,
         Serving, Ending
<1>9. VaultHolds' /\ BesideHolds'
  BY <1>1, <1>2, <1>3, <1>4, <1>5 DEF IInv, VaultHolds, BesideHolds
<1> QED BY <1>7, <1>8, <1>9 DEF IInv

-----------------------------------------------------------------------------
(* A published candidate is put back as it was verified.                   *)

LEMMA RebaseStep ==
    ASSUME IInv, Rebase
    PROVE IInv'
<1>1. /\ pc = "rebase" /\ pc' = "stage" /\ Safe
      /\ seals' = IF marker.seal THEN seals \ {marker.of} ELSE seals
      /\ UNCHANGED <<source, marker, vault, journal, temps, bases, stage, target, work, attempt>>
  BY DEF Rebase, Doing, Keep, env
<1>2. At(Middle) /\ pc \in Steps /\ seals' \subseteq seals
  BY <1>1 DEF IInv, WorkerHolds, Redoing, Steps
<1>3. ~At(Sealed) /\ ~At(Early) /\ ~At({"none"}) /\ At(Middle \cup Sealed)
  BY <1>2 DEF At, Early, Middle, Sealed
\* What is at the path comes from the baseline: it is not another program's.
<1>4. vault # Stranger
  <2>1. marker.src \in Sources /\ marker.candidate \in Content
    BY <1>3, MarkerIs DEF IInv, MarkerHolds
  <2> QED BY <1>1, <2>1, VaultsAre DEF Safe, Verified
<1>5. WorkerHolds'
  BY <1>1, <1>2 DEF IInv, WorkerHolds, Resting, Preparing, Importing, Publishing, Redoing,
                    Serving, Ending, At
<1>6. VaultHolds'
  BY <1>1, <1>3, <1>4 DEF IInv, VaultHolds, At
<1>7. work' \in Sources \cup {NoSource} /\ stage' \in BOOLEAN
  BY <1>1 DEF IInv, TypeOK
<1> QED BY <1>1, <1>2, <1>3, <1>5, <1>6, <1>7, OnwardStep

LEMMA StageStep ==
    ASSUME IInv, Stage
    PROVE IInv'
<1>1. /\ pc = "stage" /\ pc' = "swap" /\ stage' = TRUE
      /\ UNCHANGED <<source, marker, vault, journal, temps, bases, seals, target, work, attempt>>
  BY DEF Stage, Doing, Keep, env
<1>2. At(Middle) /\ pc \in Steps
  BY <1>1 DEF IInv, WorkerHolds, Redoing, Steps
<1>3. ~At(Sealed) /\ ~At(Early) /\ ~At({"none"})
  BY <1>2 DEF At, Early, Middle, Sealed
<1>4. WorkerHolds'
  BY <1>1, <1>2 DEF IInv, WorkerHolds, Resting, Preparing, Importing, Publishing, Redoing,
                    Serving, Ending, At
<1>5. VaultHolds'
  BY <1>1, <1>3 DEF IInv, VaultHolds, At
<1>6. work' \in Sources \cup {NoSource} /\ stage' \in BOOLEAN
  BY <1>1 DEF IInv, TypeOK
<1> QED BY <1>1, <1>2, <1>3, <1>4, <1>5, <1>6, OnwardStep

LEMMA SwapStep ==
    ASSUME IInv, Swap
    PROVE IInv'
<1>1. /\ pc = "swap" /\ pc' = "settle" /\ vault' = marker.candidate /\ stage' = FALSE
      /\ UNCHANGED <<source, marker, journal, temps, bases, seals, target, work, attempt>>
  BY DEF Swap, Doing, Keep, env
<1>2. At(Middle)
  BY <1>1 DEF IInv, WorkerHolds, Redoing
<1>3. ~At({"none"}) /\ marker.candidate \in Content /\ journal \in BOOLEAN
  <2>1. ~At({"none"}) /\ At(Middle \cup Sealed)
    BY <1>2 DEF At, Middle
  <2> QED BY <2>1 DEF IInv, MarkerHolds, TypeOK
<1>4. WorkerHolds'
  BY <1>1, <1>2 DEF IInv, WorkerHolds, Resting, Preparing, Importing, Publishing, Redoing,
                    Serving, Ending, At
<1>5. VaultHolds'
  BY <1>1, <1>3 DEF VaultHolds, At
<1> QED BY <1>1, <1>3, <1>4, <1>5, VaultStep

-----------------------------------------------------------------------------
(* The restore is audited in the vault, once, and sealed.                  *)

LEMMA OpenStep ==
    ASSUME IInv, Open \/ Audit
    PROVE IInv'
<1>1. /\ pc \in {"open", "audit"}
      /\ UNCHANGED <<source, marker, temps, bases, seals, stage, target, work, attempt>>
      /\ pc' = IF pc = "open" THEN "audit" ELSE "seal"
      /\ vault' = IF pc = "open" THEN [vault EXCEPT !.opened = TRUE]
                  ELSE [vault EXCEPT !.audits = @ + 1]
      /\ journal' = FALSE \/ journal' = journal
  BY DEF Open, Audit, Doing, Keep, env, files
<1>2. At({"published"}) /\ target = marker.src /\ pc \in Serving
  BY <1>1 DEF IInv, WorkerHolds, Serving
<1>3. /\ ~At({"none"}) /\ ~stage /\ journal \in BOOLEAN
      /\ vault \in Content /\ vault.src = marker.src /\ vault.audits = 0
  <2>1. ~At({"none"}) /\ At(Middle \cup Sealed) /\ ~stage /\ journal \in BOOLEAN
    BY <1>1, <1>2 DEF IInv, BesideHolds, TypeOK, At, Middle, Resting
  <2> QED BY <1>1, <2>1 DEF IInv, MarkerHolds, VaultHolds
<1>4. /\ vault' \in Content /\ vault'.src = marker.src
      /\ vault'.audits = IF pc' = "audit" THEN 0 ELSE 1
  <2>1. CASE pc = "open"
    BY <1>1, <1>3, <2>1, VaultsAre
  <2>2. CASE pc = "audit"
    BY <1>1, <1>3, <2>2, VaultsAre
  <2> QED BY <1>1, <2>1, <2>2
<1>5. WorkerHolds'
  BY <1>1, <1>2 DEF IInv, WorkerHolds, Resting, Preparing, Importing, Publishing, Redoing,
                    Serving, Ending, At
<1>6. VaultHolds'
  BY <1>1, <1>3, <1>4 DEF VaultHolds, At
<1>7. journal' \in BOOLEAN /\ pc' \in {"audit", "seal"}
  BY <1>1, <1>3
<1> QED BY <1>1, <1>3, <1>4, <1>5, <1>6, <1>7, VaultStep

LEMMA NameSealStep ==
    ASSUME IInv, NameSeal
    PROVE IInv'
<1>1. /\ pc = "seal" /\ pc' = "link-seal" /\ marker' = Named
      /\ UNCHANGED <<source, vault, journal, temps, bases, seals, stage, target, work, attempt>>
  BY DEF NameSeal, Doing, Keep, env, files
<1>2. At({"published"}) /\ target = marker.src
  BY <1>1 DEF IInv, WorkerHolds, Serving
<1>3. /\ marker \in Marker /\ ~At({"none"}) /\ ~At(Sealed) /\ At(Middle) /\ ~At(Early) /\ ~stage
  <2>1. ~At({"none"}) /\ ~At(Sealed) /\ At(Middle) /\ ~At(Early)
    BY <1>2 DEF At, Early, Middle, Sealed
  <2> QED BY <1>1, <2>1, MarkerIs DEF IInv, BesideHolds, Resting
<1>4. /\ marker' \in Marker /\ marker'.seal = TRUE /\ marker'.phase = marker.phase
      /\ marker'.src = marker.src /\ marker'.of = marker.of
      /\ marker'.candidate = marker.candidate /\ marker'.final = marker.final
  <2> DEFINE yes == TRUE
  <2>1. yes \in BOOLEAN /\ marker' = [marker EXCEPT !.seal = yes]
    BY <1>1 DEF Named
  <2> HIDE DEF yes
  <2>2. /\ marker' \in Marker /\ marker'.seal = yes /\ marker'.phase = marker.phase
        /\ marker'.src = marker.src /\ marker'.of = marker.of
        /\ marker'.candidate = marker.candidate /\ marker'.final = marker.final
    BY <1>3, <2>1, SealWith
  <2> QED BY <2>2 DEF yes
<1>5. \A phases : At(phases)' <=> At(phases)
  BY <1>4 DEF At
<1>6. TypeOK'
  BY <1>1, <1>3, <1>4, <1>5 DEF IInv, TypeOK
<1>7. MarkerHolds' /\ WorkerHolds'
  BY <1>1, <1>2, <1>4, <1>5
     DEF IInv, WorkerHolds, MarkerHolds, Resting, Preparing, Importing, Publishing, Redoing,
         Serving, Ending
<1>8. VaultHolds' /\ BesideHolds'
  BY <1>1, <1>3, <1>4, <1>5 DEF IInv, VaultHolds, BesideHolds
<1> QED BY <1>6, <1>7, <1>8 DEF IInv

LEMMA LinkSealStep ==
    ASSUME IInv, LinkSeal
    PROVE IInv'
<1>1. /\ pc = "link-seal" /\ pc' = "check" /\ seals' = seals \cup {marker.of}
      /\ UNCHANGED <<source, marker, vault, journal, temps, bases, stage, target, work, attempt>>
  BY DEF LinkSeal, Doing, Keep, env
<1>2. At({"published"}) /\ pc \in Steps
  BY <1>1 DEF IInv, WorkerHolds, Serving, Steps
<1>3. ~At(Sealed) /\ ~At(Early) /\ ~At({"none"}) /\ ~stage
  BY <1>1, <1>2 DEF IInv, BesideHolds, At, Early, Middle, Sealed, Resting
<1>4. WorkerHolds'
  BY <1>1, <1>2 DEF IInv, WorkerHolds, Resting, Preparing, Importing, Publishing, Redoing,
                    Serving, Ending, At
<1>5. VaultHolds'
  BY <1>1, <1>3 DEF IInv, VaultHolds, At
<1>6. work' \in Sources \cup {NoSource} /\ stage' \in BOOLEAN
  BY <1>1 DEF IInv, TypeOK
<1> QED BY <1>1, <1>2, <1>3, <1>4, <1>5, <1>6, OnwardStep

LEMMA CheckStep ==
    ASSUME IInv, Check
    PROVE IInv'
<1>1. /\ pc = "check" /\ pc' = "finalize" /\ vault.audits = 1 /\ temps' = temps \ {marker.of}
      /\ marker' = [marker EXCEPT !.phase = "audited", !.final = vault]
      /\ UNCHANGED <<source, vault, journal, bases, seals, stage, target, work, attempt>>
  BY DEF Check, Doing, Keep, env
<1>2. At({"published"}) /\ target = marker.src /\ marker.seal
  BY <1>1 DEF IInv, WorkerHolds, Serving
<1>3. /\ marker \in Marker /\ ~At({"none"}) /\ ~stage /\ At(Middle \cup Sealed) /\ ~At(Early)
      /\ vault \in Content /\ vault.src = marker.src /\ vault # NoVault
      /\ marker.candidate # NoVault
      /\ temps \subseteq {marker.of} /\ bases \cup seals \subseteq {marker.of}
  <2>1. ~At({"none"}) /\ At(Middle \cup Sealed) /\ ~At(Early) /\ ~stage
    BY <1>1, <1>2 DEF IInv, BesideHolds, At, Early, Middle, Sealed, Resting
  <2>2. vault \in Content /\ vault.src = marker.src
    BY <1>1 DEF IInv, VaultHolds
  <2> QED BY <2>1, <2>2, MarkerIs, VaultsAre DEF IInv, BesideHolds, TypeOK
<1>4. /\ marker' \in Marker /\ marker'.phase = "audited" /\ marker'.final = vault
      /\ marker'.src = marker.src /\ marker'.of = marker.of /\ marker'.seal = marker.seal
      /\ marker'.candidate = marker.candidate
  <2> DEFINE m == [marker EXCEPT !.phase = "audited"]
  <2>1. /\ m \in Marker /\ m.phase = "audited" /\ m.src = marker.src /\ m.of = marker.of
        /\ m.candidate = marker.candidate /\ m.seal = marker.seal
    BY <1>3, PhaseWith DEF Sealed
  <2>2. marker' = [m EXCEPT !.final = vault]
    BY <1>1
  <2> HIDE DEF m
  <2> QED BY <1>3, <2>1, <2>2, FinalWith
<1>5. At(Sealed)' /\ At(Middle \cup Sealed)' /\ ~At(Early)' /\ ~At({"none"})' /\ ~At(Middle)'
  BY <1>4 DEF At, Early, Middle, Sealed
<1>6. TypeOK'
  <2>1. temps' \cup bases' \cup seals' \subseteq 1..MaxAttempts
    BY <1>1 DEF IInv, TypeOK
  <2> QED BY <1>1, <1>2, <1>3, <1>4, <1>5, <2>1 DEF IInv, TypeOK
<1>7. MarkerHolds'
  BY <1>1, <1>3, <1>4 DEF IInv, MarkerHolds
<1>8. WorkerHolds'
  BY <1>1, <1>2, <1>4, <1>5
     DEF IInv, WorkerHolds, Resting, Preparing, Importing, Publishing, Redoing,
         Serving, Ending
<1>9. VaultHolds' /\ BesideHolds'
  BY <1>1, <1>3, <1>4, <1>5 DEF IInv, VaultHolds, BesideHolds, Preparing
<1> QED BY <1>6, <1>7, <1>8, <1>9 DEF IInv

-----------------------------------------------------------------------------
(* The files of the restore go.                                            *)

LEMMA FinalizeStep ==
    ASSUME IInv, Finalize
    PROVE IInv'
<1>1. /\ pc = "finalize" /\ pc' = "drop-baseline"
      /\ marker' = [marker EXCEPT !.phase = "finalizing"]
      /\ UNCHANGED <<source, vault, journal, temps, bases, seals, stage, target, work, attempt>>
  BY DEF Finalize, Doing, Keep, env, files
<1>2. At(Sealed) /\ target = marker.src
  BY <1>1 DEF IInv, WorkerHolds, Ending
<1>3. marker \in Marker /\ ~At({"none"}) /\ ~At(Early) /\ ~At(Middle) /\ ~stage
  <2>1. ~At({"none"}) /\ ~At(Early) /\ ~At(Middle)
    BY <1>2 DEF At, Early, Middle, Sealed
  <2> QED BY <2>1, MarkerIs DEF IInv, BesideHolds
<1>4. /\ marker' \in Marker /\ marker'.phase = "finalizing" /\ marker'.src = marker.src
      /\ marker'.of = marker.of /\ marker'.candidate = marker.candidate
      /\ marker'.final = marker.final /\ marker'.seal = marker.seal
  BY <1>1, <1>3, PhaseWith DEF Sealed
<1>5. /\ At(Sealed)' /\ ~At(Early)' /\ ~At({"none"})' /\ At({"finalizing"})'
      /\ At(Middle \cup Sealed)' /\ At(Middle \cup Sealed)
  BY <1>2, <1>4 DEF At, Early, Middle, Sealed
<1>6. TypeOK'
  BY <1>1, <1>2, <1>3, <1>4, <1>5 DEF IInv, TypeOK
<1>7. MarkerHolds'
  BY <1>2, <1>4, <1>5 DEF IInv, MarkerHolds
<1>8. WorkerHolds'
  BY <1>1, <1>2, <1>4, <1>5
     DEF IInv, WorkerHolds, Resting, Preparing, Importing, Publishing, Redoing, Serving, Ending
<1>9. VaultHolds' /\ BesideHolds'
  BY <1>1, <1>2, <1>3, <1>4, <1>5 DEF IInv, VaultHolds, BesideHolds
<1> QED BY <1>6, <1>7, <1>8, <1>9 DEF IInv

LEMMA DropStep ==
    ASSUME IInv, DropBaseline \/ DropSeal
    PROVE IInv'
<1>1. /\ pc \in {"drop-baseline", "drop-seal"}
      /\ pc' = IF pc = "drop-baseline" THEN "drop-seal" ELSE "drop-marker"
      /\ bases' = IF pc = "drop-baseline" THEN bases \ {marker.of} ELSE bases
      /\ seals' = IF pc = "drop-baseline" THEN seals ELSE seals \ {marker.of}
      /\ UNCHANGED <<source, marker, vault, journal, temps, stage, target, work, attempt>>
  BY DEF DropBaseline, DropSeal, Doing, Keep, env
<1>2. At({"finalizing"}) /\ pc \in Steps
  BY <1>1 DEF IInv, WorkerHolds, Ending, Steps
<1>3. At(Sealed) /\ ~At(Early) /\ ~At({"none"}) /\ ~At(Middle)
  BY <1>2 DEF At, Early, Middle, Sealed
<1>4. /\ temps = {} /\ ~stage /\ bases \subseteq {marker.of} /\ seals \subseteq {marker.of}
      /\ pc = "drop-seal" => bases = {}
  BY <1>3 DEF IInv, BesideHolds
<1>5. /\ pc' = "drop-seal" => bases' = {}
      /\ pc' = "drop-marker" => bases' = {} /\ seals' = {}
      /\ pc' # "mark" /\ bases' \subseteq bases /\ seals' \subseteq seals
  BY <1>1, <1>4
<1>6. WorkerHolds'
  BY <1>1, <1>2 DEF IInv, WorkerHolds, Resting, Preparing, Importing, Publishing, Redoing,
                    Serving, Ending, At
<1>7. VaultHolds'
  BY <1>1, <1>3 DEF VaultHolds, At
<1>8. work' \in Sources \cup {NoSource} /\ stage' \in BOOLEAN
  BY <1>1 DEF IInv, TypeOK
<1> QED BY <1>1, <1>2, <1>3, <1>4, <1>5, <1>6, <1>7, <1>8, OnwardStep

\* With the marker goes the last of the restore: the vault is the one that was sealed.
LEMMA DropMarkerStep ==
    ASSUME IInv, DropMarker
    PROVE IInv'
<1>1. /\ pc = "drop-marker" /\ pc' = "reopen" /\ vault = marker.final /\ marker' = NoMarker
      /\ UNCHANGED <<source, vault, journal, temps, bases, seals, stage, target, work, attempt>>
  BY DEF DropMarker, Doing, Keep, env, files
<1>2. At({"finalizing"}) /\ target = marker.src /\ target \in Sources
  BY <1>1 DEF IInv, WorkerHolds, Ending, Resting
<1>3. At(Sealed) /\ ~At(Middle)
  BY <1>2 DEF At, Sealed, Middle
<1>4. /\ vault.src = target /\ vault.audits = 1
      /\ temps = {} /\ bases = {} /\ seals = {} /\ ~stage
  BY <1>1, <1>2, <1>3 DEF IInv, MarkerHolds, BesideHolds
<1>5. /\ At({"none"})' /\ ~At(Early)' /\ ~At(Middle)' /\ ~At(Sealed)' /\ ~At(Middle \cup Sealed)'
  BY <1>1 DEF At, NoMarker, Early, Middle, Sealed
<1>6. TypeOK'
  BY <1>1, <1>5 DEF IInv, TypeOK
<1>7. MarkerHolds' /\ WorkerHolds'
  BY <1>1, <1>2, <1>5
     DEF IInv, MarkerHolds, WorkerHolds, Resting, Preparing, Importing, Publishing, Redoing,
         Serving, Ending
<1>8. VaultHolds' /\ BesideHolds'
  BY <1>1, <1>4, <1>5 DEF VaultHolds, BesideHolds, Preparing
<1> QED BY <1>6, <1>7, <1>8 DEF IInv

LEMMA ReopenStep ==
    ASSUME IInv, Reopen
    PROVE IInv'
<1>1. /\ pc = "reopen" /\ pc' = "idle"
      /\ UNCHANGED <<source, marker, vault, journal, temps, bases, seals, stage, target, work,
                     attempt>>
  BY DEF Reopen, Doing, Keep, env, files
<1>2. TypeOK' /\ MarkerHolds'
  BY <1>1 DEF IInv, TypeOK, MarkerHolds, At
<1>3. WorkerHolds'
  BY <1>1 DEF IInv, WorkerHolds, Resting, Preparing, Importing, Publishing, Redoing, Serving,
              Ending
<1>4. VaultHolds' /\ BesideHolds'
  BY <1>1 DEF IInv, VaultHolds, BesideHolds, At, Preparing, Resting
<1> QED BY <1>2, <1>3, <1>4 DEF IInv

-----------------------------------------------------------------------------
(* The invariant, and what it says.                                        *)

\* A step that failed, or a crash: the worker goes and the disk stays, but for a
\* workspace that is removed and a commit that is cut short.
LEMMA GoneStep ==
    ASSUME IInv, ImportFails \/ RebaseFails \/ Crash
    PROVE IInv'
<1>1. CASE ImportFails
  <2>1. /\ Down /\ UNCHANGED <<marker, bases, seals, stage, target, attempt>>
        /\ source' = source /\ temps' \subseteq temps /\ journal' \in BOOLEAN /\ vault' = vault
    BY <1>1 DEF ImportFails, env, IInv, TypeOK
  <2> QED BY <2>1, DownStep
<1>2. CASE RebaseFails
  <2>1. /\ Down /\ UNCHANGED <<marker, bases, seals, stage, target, attempt>>
        /\ source' = source /\ temps' \subseteq temps /\ journal' \in BOOLEAN /\ vault' = vault
    BY <1>2 DEF RebaseFails, env, files, IInv, TypeOK
  <2> QED BY <2>1, DownStep
<1>3. CASE Crash
  <2>1. /\ Down /\ UNCHANGED <<marker, bases, seals, stage, target, attempt>>
        /\ source' = source /\ temps' \subseteq temps
        /\ \/ journal' = journal /\ vault' = vault
           \/ /\ pc \in {"open", "audit"} /\ journal' = TRUE
              /\ vault' \in {vault, [vault EXCEPT !.opened = TRUE]}
    BY <1>3 DEF Crash, files
  <2>2. journal' \in BOOLEAN
    BY <2>1 DEF IInv, TypeOK
  <2> QED BY <2>1, <2>2, DownStep
<1> QED BY <1>1, <1>2, <1>3

LEMMA InitInvariant ==
    ASSUME Init
    PROVE IInv
<1>1. /\ At({"none"}) /\ ~At(Early) /\ ~At(Middle) /\ ~At(Sealed) /\ ~At(Middle \cup Sealed)
  BY DEF Init, At, NoMarker, Early, Middle, Sealed
<1>2. TypeOK /\ MarkerHolds
  BY <1>1 DEF Init, TypeOK, MarkerHolds
<1>3. WorkerHolds
  BY <1>1 DEF Init, WorkerHolds, Resting, Preparing, Importing, Publishing, Redoing, Serving,
              Ending
<1>4. VaultHolds /\ BesideHolds
  BY <1>1 DEF Init, VaultHolds, BesideHolds
<1> QED BY <1>2, <1>3, <1>4 DEF IInv

\* Restores keep to the inductive invariant: the marker tells what is on the disk at
\* every moment the worker of #executeApprovedRecoveryRestore may go away at.
THEOREM RestoreInductive == Spec => []IInv
<1>1. IInv => source \in Sources
  BY DEF IInv, TypeOK
<1>2. ASSUME IInv, Begin \/ Reject \/ Edit \/ UNCHANGED vars
      PROVE IInv'
  <2>1. UNCHANGED <<marker, vault, journal, files, pc, target, work, attempt>>
    BY <1>2 DEF Begin, Reject, Edit, vars
  <2>2. source' \in Sources
    BY <1>1, <1>2 DEF Begin, Reject, Edit, vars, env
  <2> QED BY <1>2, <2>1, <2>2, QuietStep
<1>3. ASSUME IInv, Restore
      PROVE IInv'
  BY <1>3, PrepareStep, MarkStep, ImportStep, CopyBaselineStep, AcceptStep, LinkStep, TidyStep,
     PublishStep, RebaseStep, StageStep, SwapStep, OpenStep, NameSealStep, LinkSealStep,
     CheckStep, FinalizeStep, DropStep, DropMarkerStep, ReopenStep, GoneStep
     DEF Restore, Making, Rebasing, Sealing, Finishing
<1>4. IInv /\ [Next]_vars => IInv'
  BY <1>2, <1>3, ApproveStep, StartStep, GoneStep, IntrudeStep DEF Next
<1> QED BY InitInvariant, <1>4, PTL DEF Spec

\* When a restore is over, the vault holds the export the owner approved and the audit
\* of one restore, and nothing of it is left beside it, wherever it was interrupted and
\* however often it was taken up again (encrypted-vault-restore.ts).
THEOREM FinishesAsApproved == Spec => []FinishedAsApproved
<1>1. IInv => FinishedAsApproved
  BY DEF IInv, BesideHolds, VaultHolds, FinishedAsApproved, At, Middle
<1> QED BY <1>1, RestoreInductive, PTL

\* A restore never replaces a vault that another program has put at its path: it links
\* where nothing is, and goes back to its baseline only over a vault that comes from it.
THEOREM StrangersAreSafe == Spec => StrangerIsKept
<1>1. IInv /\ [Next]_vars => [vault = Stranger => vault' = Stranger]_vars
  <2> SUFFICES ASSUME IInv, Next, vault = Stranger
               PROVE vault' = Stranger
    OBVIOUS
  \* The worker is not where it would write to the vault at its path.
  <2>1. pc \notin {"stage", "swap", "open", "audit"} /\ vault # NoVault
    <3>1. vault \notin Content /\ vault # NoVault
      BY VaultsAre
    <3>2. pc \notin {"stage", "swap", "audit"}
      BY <3>1 DEF IInv, VaultHolds
    <3>3. pc # "open"
      <4> SUFFICES ASSUME pc = "open" PROVE FALSE
        OBVIOUS
      <4>1. At({"published"}) /\ vault = marker.candidate
        BY DEF IInv, WorkerHolds, VaultHolds, Serving
      <4>2. At(Middle \cup Sealed)
        BY <4>1 DEF At, Middle
      <4> QED BY <3>1, <4>1, <4>2 DEF IInv, MarkerHolds
    <3> QED BY <3>1, <3>2, <3>3
  <2>2. ASSUME Restore PROVE vault' = vault
    BY <2>1, <2>2
       DEF Restore, Making, Rebasing, Sealing, Finishing, Doing, Keep, files, env,
           Prepare, Mark, Import, CopyBaseline, Accept, Link, ImportFails, Tidy, Publish,
           Rebase, Stage, Swap, Settle, RebaseFails, Open, Audit, NameSeal, LinkSeal, Check,
           Finalize, DropBaseline, DropSeal, DropMarker, Reopen
  <2>3. ASSUME Begin \/ Approve \/ Reject \/ Start \/ Crash \/ Edit PROVE vault' = vault
    BY <2>1, <2>3 DEF Begin, Approve, Reject, Start, Crash, Edit
  <2> QED BY <2>2, <2>3 DEF Next, Intrude
<1> QED BY <1>1, RestoreInductive, PTL DEF Spec, StrangerIsKept
-----------------------------------------------------------------------------
(* The promise of a restore.                                               *)

\* A marker is of the export the owner approved last.
OfApproved == ~At({"none"}) => target = marker.src

\* What the promise is about is as it was.
LEMMA SameToSee ==
    ASSUME IInv, target' = target, At({"none"})' = At({"none"}),
           vault' = vault \/ (vault \in Content /\ vault' = [vault EXCEPT !.opened = TRUE])
    PROVE  UNCHANGED Once!vars
<1>1. Whose' = Whose /\ vault'.src = vault.src /\ vault'.audits = vault.audits
  BY VaultsAre DEF Whose
<1> QED BY <1>1 DEF Once!vars, Once!atPath

\* The phases of a marker where the worker goes on.
LEMMA OnTheWay ==
    ASSUME IInv, pc \in Importing \cup Publishing \cup Redoing \cup Serving \cup Ending
    PROVE  ~At({"none"}) /\ target = marker.src /\ target \in Sources
<1>1. target = marker.src /\ target \in Sources
  BY DEF IInv, WorkerHolds, Importing, Publishing, Redoing, Serving, Ending, Resting
<1>2. ~At({"none"})
  BY DEF IInv, WorkerHolds, Importing, Publishing, Redoing, Serving, Ending, At, Early,
         Middle, Sealed
<1> QED BY <1>1, <1>2

\* A restore goes from one step to the next, and the marker with it.
LEMMA MarkerTurns ==
    ASSUME IInv, IInv', Accept \/ Publish \/ NameSeal \/ Check \/ Finalize
    PROVE  OfApproved' /\ UNCHANGED Once!vars
<1>1. /\ pc \in {"accept", "publish", "seal", "check", "finalize"}
      /\ pc' \in {"link", "open", "link-seal", "finalize", "drop-baseline"}
      /\ target' = target /\ vault' = vault
  BY DEF Accept, Publish, NameSeal, Check, Finalize, Doing, files
<1>2. ~At({"none"})
  BY <1>1, OnTheWay DEF Importing, Publishing, Redoing, Serving, Ending
<1>3. /\ pc' \in Importing \cup Publishing \cup Redoing \cup Serving \cup Ending
  BY <1>1 DEF Importing, Publishing, Redoing, Serving, Ending
<1>4. target' = marker'.src
  BY <1>3 DEF IInv, WorkerHolds
<1>5. ~At({"none"})'
  BY <1>3 DEF IInv, WorkerHolds, Importing, Publishing, Redoing, Serving, Ending, At, Early,
              Middle, Sealed
<1>6. At({"none"})' = At({"none"})
  BY <1>2, <1>5 DEF At
<1> QED BY <1>1, <1>4, <1>6, SameToSee DEF OfApproved

\* The steps that leave marker, approval and vault.
Aside == Begin \/ Reject \/ Start \/ Edit \/ Prepare \/ Import \/ CopyBaseline \/ ImportFails
           \/ Tidy \/ Rebase \/ Stage \/ Settle \/ RebaseFails \/ LinkSeal \/ DropBaseline
           \/ DropSeal \/ Reopen

LEMMA AsideTakes ==
    ASSUME IInv, OfApproved, Aside \/ Open \/ Crash \/ UNCHANGED vars
    PROVE  OfApproved' /\ UNCHANGED Once!vars
<1>1. UNCHANGED <<marker, target>>
  BY DEF Aside, Begin, Reject, Start, Edit, Prepare, Import, CopyBaseline, ImportFails, Tidy,
         Rebase, Stage, Settle, RebaseFails, LinkSeal, DropBaseline, DropSeal, Reopen, Open,
         Crash, vars, Doing
<1>2. \/ vault' = vault
      \/ pc \in {"open", "audit"} /\ vault' = [vault EXCEPT !.opened = TRUE]
  BY DEF Aside, Begin, Reject, Start, Edit, Prepare, Import, CopyBaseline, ImportFails, Tidy,
         Rebase, Stage, Settle, RebaseFails, LinkSeal, DropBaseline, DropSeal, Reopen, Open,
         Crash, vars, Doing
<1>3. pc \in {"open", "audit"} => vault \in Content
  <2> SUFFICES ASSUME pc \in {"open", "audit"} PROVE vault \in Content
    OBVIOUS
  <2>1. At({"published"})
    BY DEF IInv, WorkerHolds, Serving
  <2>2. At(Middle \cup Sealed)
    BY <2>1 DEF At, Middle
  <2> QED BY <2>2 DEF IInv, MarkerHolds, VaultHolds
<1>4. At({"none"})' = At({"none"}) /\ OfApproved'
  BY <1>1 DEF At, OfApproved
<1> QED BY <1>1, <1>2, <1>3, <1>4, SameToSee

\* The owner approves the export as it is: any before the restore is begun, then the one
\* that its marker is of.
LEMMA ApproveTakes ==
    ASSUME IInv, OfApproved, Approve
    PROVE  OfApproved' /\ [Once!Next]_Once!vars
<1>1. /\ Acceptable /\ target' = source /\ source \in Sources /\ marker' = marker
      /\ vault' = vault
  BY DEF Approve, StableRead, IInv, TypeOK
<1>2. At({"none"})' = At({"none"})
  BY <1>1 DEF At
<1>3. CASE At({"none"})
  <2>1. vault = NoVault /\ Whose = "nothing" /\ Whose' = Whose
    BY <1>1, <1>3 DEF Acceptable, Whose
  <2>2. Once!Approve
    BY <1>1, <1>2, <1>3, <2>1 DEF Once!Approve, Once!atPath
  <2> QED BY <1>2, <1>3, <2>2 DEF OfApproved, Once!Next
<1>4. CASE ~At({"none"})
  <2>1. target' = target /\ target' = marker'.src
    BY <1>1, <1>4 DEF Acceptable, OfApproved
  <2> QED BY <1>1, <1>2, <2>1, SameToSee DEF OfApproved
<1> QED BY <1>3, <1>4

\* The first marker of a restore begins it; one of a later attempt is of the same export.
LEMMA MarkTakes ==
    ASSUME IInv, IInv', OfApproved, Mark
    PROVE  OfApproved' /\ [Once!Next]_Once!vars
<1>1. pc = "mark" /\ pc' = "import" /\ target' = target /\ vault' = vault
  BY DEF Mark, Doing
<1>2. ~At({"none"})' /\ target' = marker'.src
  <2>1. pc' \in Importing
    BY <1>1 DEF Importing
  <2> QED BY <2>1 DEF IInv, WorkerHolds, At, Early
<1>3. CASE At({"none"})
  <2>1. target \in Sources /\ vault = NoVault
    BY <1>1, <1>3 DEF IInv, WorkerHolds, VaultHolds, Preparing, Resting
  <2>2. Whose = "nothing" /\ Whose' = Whose
    BY <1>1, <2>1 DEF Whose
  <2>3. Once!Begin
    BY <1>1, <1>2, <1>3, <2>1, <2>2 DEF Once!Begin, Once!atPath
  <2> QED BY <1>2, <2>3 DEF OfApproved, Once!Next
<1>4. CASE ~At({"none"})
  <2>1. At({"none"})' = At({"none"})
    BY <1>2, <1>4 DEF At
  <2> QED BY <1>1, <1>2, <2>1, SameToSee DEF OfApproved
<1> QED BY <1>3, <1>4

\* The candidate is linked where nothing is, or put back over what came from it.
LEMMA PlaceTakes ==
    ASSUME IInv, OfApproved, Link \/ Swap
    PROVE  OfApproved' /\ [Once!Next]_Once!vars
<1>1. /\ pc \in {"link", "swap"}
      /\ pc = "link" => vault = NoVault
      /\ target' = target /\ marker' = marker /\ vault' = marker.candidate
  BY DEF Link, Swap, Doing
<1>2. ~At({"none"}) /\ target = marker.src
  BY <1>1, OnTheWay DEF Publishing, Redoing
<1>3. vault # Stranger
  BY <1>1, VaultsAre DEF IInv, VaultHolds
<1>4. vault' \in Content /\ vault'.src = target /\ vault'.audits = 0
  <2>1. At(Middle)
    BY <1>1 DEF IInv, WorkerHolds, Publishing, Redoing, At, Middle
  <2> QED BY <1>1, <1>2, <2>1 DEF IInv, MarkerHolds, At
<1>5. At({"none"})' = At({"none"}) /\ Whose' = "ours" /\ Whose # "theirs"
  BY <1>1, <1>3, <1>4, VaultsAre DEF At, Whose
<1>6. Once!Place
  BY <1>1, <1>2, <1>4, <1>5 DEF Once!Place
<1> QED BY <1>1, <1>2, <1>5, <1>6 DEF OfApproved, Once!Next

LEMMA AuditTakes ==
    ASSUME IInv, OfApproved, Audit
    PROVE  OfApproved' /\ [Once!Next]_Once!vars
<1>1. /\ pc = "audit" /\ target' = target /\ marker' = marker
      /\ vault' = [vault EXCEPT !.audits = @ + 1]
  BY DEF Audit, Doing, files
<1>2. ~At({"none"}) /\ target = marker.src
  BY <1>1, OnTheWay DEF Serving
<1>3. vault \in Content /\ vault.audits = 0
  BY <1>1 DEF IInv, VaultHolds
<1>4. vault' \in Content /\ vault'.src = vault.src /\ vault'.audits = 1
  BY <1>1, <1>3, VaultsAre
<1>5. At({"none"})' = At({"none"}) /\ Whose = "ours" /\ Whose' = "ours"
  BY <1>1, <1>3, <1>4, VaultsAre DEF At, Whose
<1>6. Once!Audit
  BY <1>1, <1>2, <1>3, <1>4, <1>5 DEF Once!Audit
<1> QED BY <1>1, <1>2, <1>6 DEF OfApproved, Once!Next, At

\* With the marker the restore ends: what was sealed is of the export, and audited once.
LEMMA DropMarkerTakes ==
    ASSUME IInv, DropMarker
    PROVE  OfApproved' /\ [Once!Next]_Once!vars
<1>1. /\ pc = "drop-marker" /\ target' = target /\ marker' = NoMarker
      /\ vault' = vault /\ vault = marker.final
  BY DEF DropMarker, Doing
<1>2. ~At({"none"}) /\ target = marker.src
  BY <1>1, OnTheWay DEF Ending
<1>3. vault \in Content /\ vault.src = target /\ vault.audits = 1
  <2>1. At(Sealed)
    BY <1>1 DEF IInv, WorkerHolds, Ending, At, Sealed
  <2> QED BY <1>1, <1>2, <2>1 DEF IInv, MarkerHolds
<1>4. At({"none"})' /\ Whose = "ours" /\ Whose' = Whose
  BY <1>1, <1>3, VaultsAre DEF At, NoMarker, Whose
<1>5. Once!End
  BY <1>1, <1>2, <1>3, <1>4 DEF Once!End, Once!atPath
<1> QED BY <1>4, <1>5 DEF OfApproved, Once!Next

LEMMA IntrudeTakes ==
    ASSUME IInv, OfApproved, Intrude
    PROVE  OfApproved' /\ [Once!Next]_Once!vars
<1>1. /\ ~At({"none"}) /\ target' = target /\ marker' = marker /\ vault' = Stranger
  BY DEF Intrude
<1>2. Stranger.src = NoSource /\ Stranger.audits = 0 /\ Stranger # NoVault
  BY VaultsAre DEF Stranger, NoVault
<1>3. At({"none"})' = At({"none"}) /\ Whose' = "theirs"
  BY <1>1, <1>2 DEF At, Whose
<1>4. Once!Intrude
  BY <1>1, <1>2, <1>3 DEF Once!Intrude
<1> QED BY <1>1, <1>3, <1>4 DEF OfApproved, Once!Next

\* Every run of the restore, with what interrupts it and what resumes it, is one of a
\* single restore: of the export approved, ended once with one audit, over nobody else's
\* vault (restoreCleanEncryptedVault, sealAuditedCleanVaultRestore and
\* finalizeCleanVaultRestore).
THEOREM ImplementsOneRestore == Spec => RestoresOnce
<1>1. Init => OfApproved /\ Once!Init
  <2> SUFFICES ASSUME Init PROVE OfApproved /\ Once!Init
    OBVIOUS
  <2>1. At({"none"}) /\ Whose = "nothing" /\ vault.src = NoSource /\ vault.audits = 0
    BY DEF Init, At, NoMarker, NoVault, Whose
  <2> QED BY <2>1 DEF Init, OfApproved, Once!Init
<1>2. ASSUME IInv, IInv', OfApproved, [Next]_vars
      PROVE  OfApproved' /\ [Once!Next]_Once!vars
  <2>1. CASE Aside \/ Open \/ Crash \/ UNCHANGED vars
    BY <1>2, <2>1, AsideTakes
  <2>2. CASE Accept \/ Publish \/ NameSeal \/ Check \/ Finalize
    BY <1>2, <2>2, MarkerTurns
  <2>3. CASE Approve \/ Mark \/ Link \/ Swap \/ Audit \/ DropMarker \/ Intrude
    BY <1>2, <2>3, ApproveTakes, MarkTakes, PlaceTakes, AuditTakes, DropMarkerTakes,
       IntrudeTakes
  <2> QED BY <1>2, <2>1, <2>2, <2>3
       DEF Next, Restore, Making, Rebasing, Sealing, Finishing, Aside
<1> QED BY <1>1, <1>2, RestoreInductive, PTL DEF Spec, RestoresOnce, Once!Spec
=============================================================================
