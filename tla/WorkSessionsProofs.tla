------------------------- MODULE WorkSessionsProofs -------------------------
(***************************************************************************)
(* Proofs about WorkSessions, for every set of activations, clients,       *)
(* connections and policies and all values of the bounds: what a handler   *)
(* may never do, and that the broker implements the abstract OwnerWindow.  *)
(***************************************************************************)
EXTENDS WorkSessions, SequenceTheorems, TLAPS

-----------------------------------------------------------------------------
(* The operators the handlers are built from.                              *)

\* The fields of a work session are numbers.
LEMMA WorkSessionFields ==
    ASSUME NEW w \in WorkSession
    PROVE  /\ w.id \in Nat /\ w.started \in Nat /\ w.expires \in Nat
           /\ w.activity \in Nat /\ w.observed \in Nat
  BY DEF WorkSession

\* None is a work session as far as types go.
LEMMA NoWsType == NoWs \in WorkSession
  BY DEF WorkSession, NoWs

\* Reading the clock (#liveTrustedMcpWorkSession) changes only the latest reading, upwards.
LEMMA ObservedType ==
    ASSUME now \in Nat, NEW w \in WorkSession
    PROVE  /\ Observed(w) \in WorkSession
           /\ Observed(w).id = w.id /\ Observed(w).started = w.started
           /\ Observed(w).expires = w.expires /\ Observed(w).activity = w.activity
           /\ w.observed <= Observed(w).observed
  BY DEF Observed, WorkSession, Greater

\* Riding a work session (#activateSession, #authorize) makes this its last activity.
LEMMA TouchedType ==
    ASSUME now \in Nat, NEW w \in WorkSession
    PROVE  /\ Touched(w) \in WorkSession
           /\ Touched(w).id = w.id /\ Touched(w).started = w.started
           /\ Touched(w).expires = w.expires /\ Touched(w).activity = now
           /\ w.observed <= Touched(w).observed
  <1>1. Greater(w.observed, now) \in Nat /\ w.observed <= Greater(w.observed, now)
    BY WorkSessionFields DEF Greater
  <1>. QED BY <1>1 DEF Touched, WorkSession

\* A work session the owner starts, and the window the history keeps of it.
LEMMA StartedType ==
    ASSUME ConstantsAssumption, TypeOK
    PROVE  StartedWs \in WorkSession /\ NewWindow \in Window
  BY DEF ConstantsAssumption, TypeOK, StartedWs, NewWindow, WorkSession, Window

\* Expiring the riders of a window leaves sessions.
LEMMA RidersType ==
    ASSUME sess \in [Ids -> Session], NEW w
    PROVE  WithoutRiders(w) \in [Ids -> Session]
  BY DEF WithoutRiders, Session

\* What is left after the lapse check.
LEMMA CheckedType ==
    ASSUME TypeOK
    PROVE  CheckedWs \in WorkSession /\ CheckedSess \in [Ids -> Session]
  <1>1. CheckedWs \in WorkSession
    BY ObservedType, NoWsType DEF CheckedWs, TypeOK
  <1>. QED BY <1>1, RidersType DEF CheckedSess, TypeOK

\* Withdrawing a window closes it and moves no end.
LEMMA WithdrawnType ==
    ASSUME TypeOK
    PROVE  /\ Withdrawn \in Seq(Window)
           /\ Len(Withdrawn) = Len(windows)
           /\ \A k \in 1 .. Len(windows) : Withdrawn[k].until = windows[k].until
  <1>1. /\ windows \in Seq(Window) /\ Len(windows) \in Nat
        /\ DOMAIN windows = 1 .. Len(windows)
        /\ \A k \in 1 .. Len(windows) : windows[k] \in Window
    BY LenProperties, ElementOfSeq DEF TypeOK
  <1>2. Withdrawn \in [1 .. Len(windows) -> Window]
    BY <1>1 DEF Withdrawn, Window
  <1>3. Withdrawn \in Seq(Window)
    BY <1>1, <1>2, SeqDef
  <1>4. Len(Withdrawn) = Len(windows)
    BY <1>1, <1>2, <1>3, LenProperties
  <1>5. \A k \in 1 .. Len(windows) : Withdrawn[k].until = windows[k].until
    BY <1>1 DEF Withdrawn, Window
  <1>. QED BY <1>3, <1>4, <1>5

-----------------------------------------------------------------------------
(* Types.                                                                  *)

\* The state of the broker keeps its types.
THEOREM TypeCorrect == Spec => []TypeOK
  <1>1. Init => TypeOK
    BY ConstantsAssumption, NoWsType, EmptySeq DEF ConstantsAssumption, Init, TypeOK, Session, Free
  <1>2. TypeOK /\ [Next]_vars => TypeOK'
    <2>. SUFFICES ASSUME TypeOK, [Next]_vars
                  PROVE  TypeOK'
      OBVIOUS
    <2>0. now \in Nat /\ ws \in WorkSession /\ wsRow \in WorkSession
      BY DEF TypeOK
    <2>1. ASSUME NEW i \in Ids, NEW ttl \in SessionTtls, Request(i, ttl)
          PROVE  TypeOK'
      <3>1. WsFor(i) \in WorkSession /\ SessFor(i) \in [Ids -> Session]
        BY CheckedType, NoWsType DEF WsFor, SessFor, TypeOK
      <3>2. sess' \in [Ids -> Session]
        BY <2>0, <2>1, <3>1, ConstantsAssumption, WorkSessionFields, SMTT(30)
           DEF Request, Session, ConstantsAssumption, Lesser, TypeOK
      <3>3. ws' \in WorkSession /\ wsRow' \in WorkSession
        BY <2>0, <2>1, CheckedType DEF Request, KeepCheckedWs
      <3>. QED BY <2>1, <3>2, <3>3 DEF TypeOK, Request
    <2>2. ASSUME NEW i \in Ids, ActivateSilently(i)
          PROVE  TypeOK'
      <3>1. Activated(i, CheckedWs) \in Session
        BY CheckedType, WorkSessionFields DEF Activated, TypeOK, Session, Lesser
      <3>. QED BY <2>0, <2>2, <3>1, CheckedType, TouchedType DEF TypeOK, ActivateSilently
    <2>3. ASSUME NEW i \in Ids, NEW c \in Conns, AskOwner(i, c)
          PROVE  TypeOK'
      BY <2>3, CheckedType DEF TypeOK, AskOwner, KeepCheckedWs, SessFor
    <2>4. ASSUME NEW i \in Ids, CompleteLate(i) \/ AuthorizeExpired(i)
          PROVE  TypeOK'
      BY <2>4, ZenonT(30) DEF TypeOK, CompleteLate, AuthorizeExpired, Session
    <2>5. ASSUME NEW i \in Ids, NEW c \in Conns, ApproveTrusted(i, c)
          PROVE  TypeOK'
      <3>1. PICK w \in WorkSession : /\ ws' = Touched(w) /\ wsRow' = Touched(w)
                                     /\ sess' = [CheckedSess EXCEPT ![i] = Activated(i, w)]
        BY <2>5, StartedType, CheckedType, ConstantsAssumption DEF ApproveTrusted
      <3>2. windows' \in Seq(Window)
        BY <2>5, StartedType, ConstantsAssumption DEF ApproveTrusted, TypeOK
      <3>3. Activated(i, w) \in Session
        BY WorkSessionFields DEF Activated, TypeOK, Session, Lesser
      <3>4. ws' \in WorkSession /\ wsRow' \in WorkSession
        BY <2>0, <3>1, TouchedType
      <3>5. sess' \in [Ids -> Session]
        BY <3>1, <3>3, CheckedType
      <3>. QED BY <2>5, <3>2, <3>4, <3>5 DEF TypeOK, ApproveTrusted
    <2>6. ASSUME NEW i \in Ids, NEW c \in Conns, ApproveOther(i, c)
          PROVE  TypeOK'
      BY <2>6, NoWsType, ZenonT(30) DEF TypeOK, ApproveOther, Activated, Session, NoWs
    <2>7. ASSUME NEW i \in Ids, NEW c \in Conns, ApproveFails(i, c)
          PROVE  TypeOK'
      BY <2>7, CheckedType DEF TypeOK, ApproveFails, KeepCheckedWs, SessFor
    <2>8. ASSUME NEW i \in Ids, NEW c \in Conns, Deny(i, c)
          PROVE  TypeOK'
      BY <2>8 DEF TypeOK, Deny, Session
    <2>9. ASSUME NEW i \in Ids, NEW c \in Conns, ApproveCrashes(i, c)
          PROVE  TypeOK'
      <3>1. windows' \in Seq(Window)
        BY <2>9, StartedType, ConstantsAssumption DEF ApproveCrashes, TypeOK
      <3>2. wsRow' \in WorkSession /\ sess' \in [Ids -> Session]
        BY <2>9, StartedType, CheckedType, ConstantsAssumption DEF ApproveCrashes
      <3>. QED BY <2>9, <3>1, <3>2, NoWsType DEF TypeOK, ApproveCrashes, Down
    <2>10. ASSUME NEW i \in Ids, Authorize(i)
           PROVE  TypeOK'
      BY <2>10, CheckedType DEF TypeOK, Authorize, KeepCheckedWs, SessFor
    <2>11. ASSUME NEW p \in Policies, SetPolicy(p)
           PROVE  TypeOK'
      <3>1. sess' \in [Ids -> Session]
        BY <2>11, RidersType DEF TypeOK, SetPolicy
      <3>. QED BY <2>11, <3>1, WithdrawnType, NoWsType DEF TypeOK, SetPolicy
    <2>12. ASSUME SetPolicyFails
           PROVE  TypeOK'
      <3>1. sess' \in [Ids -> Session]
        BY <2>12, RidersType DEF TypeOK, SetPolicyFails
      <3>. QED BY <2>12, <3>1, WithdrawnType, NoWsType DEF TypeOK, SetPolicyFails, Down
    <2>13. ASSUME Lock
           PROVE  TypeOK'
      <3>1. sess' \in [Ids -> Session]
        BY <2>13 DEF TypeOK, Lock, Session
      <3>. QED BY <2>13, <3>1, WithdrawnType, NoWsType DEF TypeOK, Lock, Down
    <2>14. ASSUME NEW c \in Conns, Disconnect(c)
           PROVE  TypeOK'
      BY <2>14 DEF TypeOK, Disconnect, Session
    <2>15. ASSUME NEW cl \in Clients, Revoke(cl)
           PROVE  TypeOK'
      BY <2>15 DEF TypeOK, Revoke, Session
    <2>16. ASSUME Inspect
           PROVE  TypeOK'
      BY <2>16, CheckedType DEF TypeOK, Inspect
    <2>17. ASSUME Start
           PROVE  TypeOK'
      <3>1. ws' \in WorkSession /\ wsRow' \in WorkSession
        BY <2>0, <2>17, ObservedType, NoWsType DEF Start
      <3>2. sess' \in [Ids -> Session]
        BY <2>17, ZenonT(30) DEF Start, TypeOK, Session
      <3>. QED BY <2>17, <3>1, <3>2 DEF TypeOK, Start
    <2>18. ASSUME Crash \/ ExpiryFails
           PROVE  TypeOK'
      BY <2>18, NoWsType DEF TypeOK, Crash, ExpiryFails, Down
    <2>19. ASSUME Tick \/ StepBack
           PROVE  TypeOK'
      BY <2>19 DEF TypeOK, Tick, StepBack
    <2>20. CASE UNCHANGED vars
      BY <2>20 DEF TypeOK, vars
    <2>. QED BY <2>1, <2>2, <2>3, <2>4, <2>5, <2>6, <2>7, <2>8, <2>9, <2>10, <2>11, <2>12,
                <2>13, <2>14, <2>15, <2>16, <2>17, <2>18, <2>19, <2>20 DEF Next, OnActivation
  <1>. QED BY <1>1, <1>2, PTL DEF Spec

-----------------------------------------------------------------------------
(* The inductive invariant.  Besides the properties themselves it needs how *)
(* a work session's own readings of the clock lie, which makes its lapse    *)
(* check sound, and that a closed broker has no work session in memory.     *)

Sound(w) == w.id # 0 => /\ w.id = Len(windows)
                        /\ windows[w.id] = [from |-> w.started, until |-> w.expires, open |-> TRUE]
                        /\ w.expires = w.started + policy
                        /\ w.started <= w.activity
                        /\ w.started <= w.observed

Forgotten == ~up => ws = NoWs

IInv == /\ TypeOK
        /\ RowIsMemory /\ Forgotten
        /\ Sound(ws) /\ Sound(wsRow)
        /\ NoSessionOutlivesWindow
        /\ ActiveOfThisBoot

\* The history is a sequence of windows.
LEMMA WindowsLen ==
    ASSUME TypeOK
    PROVE  /\ Len(windows) \in Nat
           /\ DOMAIN windows = 1 .. Len(windows)
           /\ \A k \in 1 .. Len(windows) : windows[k] \in Window
  BY LenProperties, ElementOfSeq DEF TypeOK

\* None is numbered 0.
LEMMA SoundNone == NoWs.id = 0
  BY DEF NoWs

\* Reading the clock keeps a work session sound.
LEMMA SoundObserved ==
    ASSUME now \in Nat, NEW w \in WorkSession, Sound(w)
    PROVE  Sound(Observed(w))
  <1>1. /\ Observed(w).id = w.id /\ Observed(w).started = w.started
        /\ Observed(w).expires = w.expires /\ Observed(w).activity = w.activity
        /\ w.observed <= Observed(w).observed /\ Observed(w) \in WorkSession
    BY ObservedType
  <1>2. w.started \in Nat /\ w.observed \in Nat /\ Observed(w).observed \in Nat
    BY <1>1, WorkSessionFields
  <1>3. ASSUME w.started <= w.observed
        PROVE  w.started <= Observed(w).observed
    BY <1>1, <1>2, <1>3
  <1>. QED BY <1>1, <1>3 DEF Sound

\* So does riding it, at a time that is not before its start.
LEMMA SoundTouched ==
    ASSUME now \in Nat, NEW w \in WorkSession, Sound(w), w.started <= now
    PROVE  Sound(Touched(w))
  <1>1. /\ Touched(w).id = w.id /\ Touched(w).started = w.started
        /\ Touched(w).expires = w.expires /\ Touched(w).activity = now
        /\ w.observed <= Touched(w).observed /\ Touched(w) \in WorkSession
    BY TouchedType
  <1>2. w.started \in Nat /\ w.observed \in Nat /\ Touched(w).observed \in Nat
    BY <1>1, WorkSessionFields
  <1>3. ASSUME w.started <= w.observed
        PROVE  w.started <= Touched(w).observed
    BY <1>1, <1>2, <1>3
  <1>. QED BY <1>1, <1>3 DEF Sound

\* The lapse check leaves a sound work session; a live one started before now.
LEMMA CheckedSound ==
    ASSUME IInv
    PROVE  /\ Sound(CheckedWs)
           /\ LiveWs => /\ CheckedWs = Observed(ws)
                        /\ CheckedWs.id = ws.id /\ ws.id # 0
                        /\ ws.started <= now
  <1>1. now \in Nat /\ ws \in WorkSession /\ policy \in Nat
    BY ConstantsAssumption DEF IInv, TypeOK, ConstantsAssumption
  <1>2. CASE LiveWs
    <2>1. CheckedWs = Observed(ws) /\ ws.id # 0 /\ ws.observed <= now
      BY <1>1, <1>2, WorkSessionFields DEF CheckedWs, LiveWs, Lapsed
    <2>2. Sound(ws) /\ Sound(Observed(ws)) /\ Observed(ws).id = ws.id
      BY <1>1, SoundObserved, ObservedType DEF IInv
    <2>3. ws.started \in Nat /\ ws.observed \in Nat /\ ws.started <= ws.observed
      BY <1>1, <2>1, <2>2, WorkSessionFields DEF Sound
    <2>. QED BY <1>1, <1>2, <2>1, <2>2, <2>3
  <1>3. CASE ~LiveWs
    BY <1>3 DEF CheckedWs, Sound, NoWs
  <1>. QED BY <1>2, <1>3

\* A step that leaves the windows alone and makes no connector session active.
LEMMA QuietStep ==
    ASSUME IInv, TypeOK',
           UNCHANGED <<up, boot, policy, windows>>,
           \/ ws' = CheckedWs /\ wsRow' = CheckedWs /\ up
           \/ ws' = ws /\ wsRow' = wsRow,
           \A i \in Ids : Trusted(i) /\ sess'[i].status = "active" =>
               /\ sess[i].status = "active"
               /\ sess'[i].ws = sess[i].ws /\ sess'[i].expires = sess[i].expires,
           \A i \in Ids : sess'[i].status = "active" =>
               /\ sess'[i].boot = sess[i].boot
               /\ sess[i].status = "active" \/ sess[i].boot = boot
    PROVE  IInv'
  <1>1. Sound(ws)' /\ Sound(wsRow)'
    BY CheckedSound DEF IInv, Sound
  <1>2. RowIsMemory' /\ Forgotten'
    BY DEF IInv, RowIsMemory, Forgotten
  <1>3. NoSessionOutlivesWindow'
    BY DEF IInv, NoSessionOutlivesWindow, Trusted
  <1>4. ActiveOfThisBoot'
    BY DEF IInv, ActiveOfThisBoot
  <1>. QED BY <1>1, <1>2, <1>3, <1>4 DEF IInv

\* The lapse check makes no session active and moves no end of one.
LEMMA CheckedSessions ==
    ASSUME TypeOK, NEW i \in Ids
    PROVE  /\ CheckedSess[i] = sess[i] \/ CheckedSess[i].status = "expired"
           /\ SessFor(i) \in [Ids -> Session]
           /\ \A j \in Ids : SessFor(i)[j] = sess[j] \/ SessFor(i)[j].status = "expired"
           /\ CheckedSess[i].boot = sess[i].boot
           /\ CheckedSess[i].expires = sess[i].expires
           /\ CheckedSess[i].status = "active" => sess[i].status = "active"
  <1>1. \A j \in Ids : /\ WithoutRiders(ws)[j] = sess[j] \/ WithoutRiders(ws)[j].status = "expired"
                       /\ WithoutRiders(ws)[j].boot = sess[j].boot
                       /\ WithoutRiders(ws)[j].expires = sess[j].expires
                       /\ WithoutRiders(ws)[j].status = "active" => sess[j].status = "active"
    BY DEF WithoutRiders, TypeOK, Session
  <1>2. SessFor(i) \in [Ids -> Session]
    BY CheckedType DEF SessFor, TypeOK
  <1>. QED BY <1>1, <1>2 DEF CheckedSess, SessFor

\* A connector session made active under w, the newest window.
LEMMA ActivatedBounds ==
    ASSUME TypeOK, NEW i \in Ids, NEW w \in WorkSession, w.id # 0
    PROVE  /\ Activated(i, w).ws = w.id
           /\ Activated(i, w).boot = sess[i].boot
           /\ Activated(i, w).expires <= w.expires
           /\ Activated(i, w) \in Session
  <1>1. sess[i] \in Session /\ sess[i].expires \in Nat /\ w.expires \in Nat /\ w.id \in Nat
    BY WorkSessionFields DEF TypeOK, Session
  <1>2. Lesser(sess[i].expires, w.expires) \in Nat /\ Lesser(sess[i].expires, w.expires) <= w.expires
    BY <1>1 DEF Lesser
  <1>. QED BY <1>1, <1>2 DEF Activated, Session

\* The windows that bound the sessions stay where they are.
LEMMA WithdrawnBounds ==
    ASSUME TypeOK, windows' = Withdrawn
    PROVE  /\ DOMAIN windows' = DOMAIN windows
           /\ \A k \in DOMAIN windows : windows'[k].until = windows[k].until
  BY WithdrawnType, WindowsLen, LenProperties

\* A step that keeps the sessions' bounds and leaves no work session behind.
LEMMA WithdrawStep ==
    ASSUME IInv, TypeOK',
           boot' = boot, windows' = Withdrawn,
           ws' = NoWs, wsRow' = NoWs,
           \A i \in Ids : sess'[i].status = "active" =>
               /\ sess[i].status = "active" /\ sess'[i].boot = sess[i].boot
               /\ sess'[i].ws = sess[i].ws /\ sess'[i].expires = sess[i].expires,
           up' => up
    PROVE  IInv'
  <1>1. Sound(ws)' /\ Sound(wsRow)'
    BY DEF Sound, NoWs
  <1>2. RowIsMemory' /\ Forgotten'
    BY DEF RowIsMemory, Forgotten
  <1>3. NoSessionOutlivesWindow'
    BY WithdrawnBounds DEF IInv, NoSessionOutlivesWindow, Trusted
  <1>4. ActiveOfThisBoot'
    BY DEF IInv, ActiveOfThisBoot
  <1>. QED BY <1>1, <1>2, <1>3, <1>4 DEF IInv

\* The broker starts in the invariant.
LEMMA IInvInit == Init => IInv
  <1>. SUFFICES ASSUME Init PROVE IInv
    OBVIOUS
  <1>1. TypeOK
    BY ConstantsAssumption, NoWsType, EmptySeq DEF ConstantsAssumption, Init, TypeOK, Session, Free
  <1>2. Sound(ws) /\ Sound(wsRow) /\ RowIsMemory /\ Forgotten
    BY DEF Init, Sound, NoWs, RowIsMemory, Forgotten
  <1>. QED BY <1>1, <1>2 DEF Init, IInv, NoSessionOutlivesWindow, ActiveOfThisBoot, Free

\* Every handler, failure, crash and restart keeps it.
LEMMA IInvStep == IInv /\ TypeOK' /\ [Next]_vars => IInv'
  <1>. SUFFICES ASSUME IInv, TypeOK', [Next]_vars
                PROVE  IInv'
    OBVIOUS
  <1>0. /\ TypeOK /\ now \in Nat /\ ws \in WorkSession /\ wsRow \in WorkSession
        /\ sess \in [Ids -> Session] /\ policy \in Nat \ {0}
    BY ConstantsAssumption DEF IInv, TypeOK, ConstantsAssumption
  <1>1. ASSUME NEW i \in Ids, NEW ttl \in SessionTtls, Request(i, ttl)
        PROVE  IInv'
    <2>1. /\ sess'[i].status = "pending"
          /\ \A j \in Ids \ {i} : sess'[j] = SessFor(i)[j]
      BY <1>0, <1>1, CheckedSessions DEF Request
    <2>. QED BY <1>0, <1>1, <2>1, CheckedSessions, QuietStep DEF Request, KeepCheckedWs
  <1>2. ASSUME NEW i \in Ids, ActivateSilently(i)
        PROVE  IInv'
    <2>1. /\ CheckedWs \in WorkSession /\ CheckedWs.id = ws.id /\ ws.id # 0
          /\ Sound(CheckedWs) /\ CheckedWs.started <= now
      BY <1>0, <1>2, CheckedSound, CheckedType, ObservedType DEF ActivateSilently, Silent
    <2>2. Sound(ws)' /\ Sound(wsRow)'
      <3>1. /\ ws' = Touched(CheckedWs) /\ wsRow' = Touched(CheckedWs)
            /\ windows' = windows /\ policy' = policy
        BY <1>2 DEF ActivateSilently
      <3>2. Sound(Touched(CheckedWs))
        BY <1>0, <2>1, SoundTouched
      <3>. QED BY <3>1, <3>2 DEF Sound
    <2>3. RowIsMemory' /\ Forgotten'
      BY <1>2 DEF ActivateSilently, RowIsMemory, Forgotten
    <2>4. /\ sess' = [sess EXCEPT ![i] = Activated(i, CheckedWs)]
          /\ windows' = windows /\ boot' = boot /\ sess[i].boot = boot
      BY <1>2 DEF ActivateSilently, Decidable
    <2>5. /\ CheckedWs.id \in DOMAIN windows
          /\ CheckedWs.expires = windows[CheckedWs.id].until
      BY <1>0, <2>1, WindowsLen, WorkSessionFields DEF Sound
    <2>6. NoSessionOutlivesWindow'
      BY <1>0, <2>1, <2>4, <2>5, ActivatedBounds DEF IInv, NoSessionOutlivesWindow, Trusted
    <2>7. ActiveOfThisBoot'
      BY <1>0, <1>2, <2>1, <2>4, ActivatedBounds DEF IInv, ActiveOfThisBoot, ActivateSilently
    <2>. QED BY <2>2, <2>3, <2>6, <2>7 DEF IInv
  <1>3. ASSUME NEW i \in Ids, NEW c \in Conns, AskOwner(i, c)
        PROVE  IInv'
    BY <1>0, <1>3, CheckedSessions, QuietStep DEF AskOwner, KeepCheckedWs
  <1>4. ASSUME NEW i \in Ids, CompleteLate(i) \/ AuthorizeExpired(i)
        PROVE  IInv'
    <2>1. /\ sess'[i].status = "expired"
          /\ \A j \in Ids \ {i} : sess'[j] = sess[j]
          /\ UNCHANGED <<up, boot, policy, windows, ws, wsRow>>
      BY <1>0, <1>4 DEF CompleteLate, AuthorizeExpired, Session
    <2>. QED BY <2>1, QuietStep
  <1>5. ASSUME NEW i \in Ids, NEW c \in Conns, ApproveTrusted(i, c)
        PROVE  IInv'
    <2>. DEFINE w == IF LiveWs THEN CheckedWs ELSE StartedWs
    <2>1. /\ windows' = IF LiveWs THEN windows ELSE Append(windows, NewWindow)
          /\ ws' = Touched(w) /\ wsRow' = Touched(w) /\ up' = up /\ up
          /\ sess' = [CheckedSess EXCEPT ![i] = Activated(i, w)]
          /\ boot' = boot /\ policy' = policy /\ now' = now /\ sess[i].boot = boot
      BY <1>5 DEF ApproveTrusted, Decidable
    <2>2. /\ Len(windows') \in Nat /\ DOMAIN windows' = 1 .. Len(windows')
          /\ Len(windows) <= Len(windows')
          /\ \A k \in 1 .. Len(windows) : windows'[k] = windows[k]
          /\ ~LiveWs => /\ Len(windows') = Len(windows) + 1
                        /\ windows'[Len(windows) + 1] = NewWindow
      BY <1>0, <2>1, WindowsLen, StartedType, ConstantsAssumption, AppendProperties DEF TypeOK
    <2>3. /\ w \in WorkSession /\ w.id # 0 /\ w.id = Len(windows')
          /\ windows'[w.id] = [from |-> w.started, until |-> w.expires, open |-> TRUE]
          /\ w.expires = w.started + policy
          /\ w.started <= now /\ w.started <= w.observed
      <3>1. CASE LiveWs
        <4>1. /\ w = CheckedWs /\ w \in WorkSession /\ Sound(w) /\ w.id # 0
              /\ w = Observed(ws) /\ ws.started <= now /\ windows' = windows
          BY <1>0, <2>1, <3>1, CheckedSound, CheckedType
        <4>2. w.started <= now
          BY <1>0, <4>1, ObservedType
        <4>. QED BY <4>1, <4>2 DEF Sound
      <3>2. CASE ~LiveWs
        BY <1>0, <2>1, <2>2, <3>2, WindowsLen, StartedType, ConstantsAssumption
           DEF StartedWs, NewWindow
      <3>. QED BY <3>1, <3>2
    <2>. HIDE DEF w
    <2>4. Sound(ws)' /\ Sound(wsRow)'
      <3>1. /\ Touched(w).id = w.id /\ Touched(w).started = w.started
            /\ Touched(w).expires = w.expires /\ Touched(w).activity = now
            /\ w.observed <= Touched(w).observed /\ Touched(w) \in WorkSession
        BY <1>0, <2>3, TouchedType
      <3>2. w.started \in Nat /\ w.observed \in Nat /\ Touched(w).observed \in Nat
        BY <2>3, <3>1, WorkSessionFields
      <3>3. w.started <= Touched(w).observed
        BY <2>3, <3>1, <3>2
      <3>. QED BY <2>1, <2>3, <3>1, <3>3 DEF Sound
    <2>5. RowIsMemory' /\ Forgotten'
      BY <2>1 DEF RowIsMemory, Forgotten
    <2>6. /\ sess'[i] = Activated(i, w)
          /\ \A j \in Ids \ {i} : sess'[j] = CheckedSess[j]
      BY <1>0, <2>1, CheckedType
    <2>7. /\ sess'[i].ws \in DOMAIN windows'
          /\ sess'[i].expires <= windows'[sess'[i].ws].until
          /\ sess'[i].boot = boot
      BY <1>0, <2>1, <2>2, <2>3, <2>6, ActivatedBounds, WorkSessionFields
    <2>8. \A j \in Ids \ {i} : sess'[j] = sess[j] \/ sess'[j].status # "active"
      BY <1>0, <2>6, CheckedSessions
    <2>9. NoSessionOutlivesWindow'
      <3>1. \A j \in Ids \ {i} : Trusted(j) /\ sess'[j].status = "active" =>
               /\ sess[j].ws \in 1 .. Len(windows) /\ sess'[j] = sess[j]
               /\ sess[j].expires <= windows[sess[j].ws].until
        BY <1>0, <2>8, WindowsLen DEF IInv, NoSessionOutlivesWindow
      <3>2. \A k \in 1 .. Len(windows) : k \in DOMAIN windows' /\ windows'[k] = windows[k]
        <4>1. Len(windows) \in Nat /\ Len(windows') \in Nat /\ Len(windows) <= Len(windows')
          BY <1>0, <2>2, WindowsLen
        <4>2. \A k \in 1 .. Len(windows) : k \in 1 .. Len(windows')
          BY <4>1
        <4>. QED BY <2>2, <4>2
      <3>3. \A j \in Ids \ {i} : Trusted(j) /\ sess'[j].status = "active" =>
               /\ sess'[j].ws \in DOMAIN windows'
               /\ sess'[j].expires <= windows'[sess'[j].ws].until
        BY <3>1, <3>2
      <3>. QED BY <2>7, <3>3 DEF NoSessionOutlivesWindow, Trusted
    <2>10. ActiveOfThisBoot'
      BY <1>0, <2>1, <2>7, <2>8 DEF IInv, ActiveOfThisBoot
    <2>. QED BY <2>4, <2>5, <2>9, <2>10 DEF IInv
  <1>6. ASSUME NEW i \in Ids, NEW c \in Conns, ApproveOther(i, c)
        PROVE  IInv'
    <2>1. /\ ~Trusted(i) /\ sess[i].boot = boot /\ sess'[i].boot = sess[i].boot
          /\ \A j \in Ids \ {i} : sess'[j] = sess[j]
          /\ UNCHANGED <<up, boot, policy, windows, ws, wsRow>>
      BY <1>0, <1>6 DEF ApproveOther, Activated, Decidable, Session
    <2>. QED BY <2>1, QuietStep
  <1>7. ASSUME NEW i \in Ids, NEW c \in Conns, ApproveFails(i, c)
        PROVE  IInv'
    BY <1>0, <1>7, CheckedSessions, QuietStep DEF ApproveFails, KeepCheckedWs
  <1>8. ASSUME NEW i \in Ids, NEW c \in Conns, Deny(i, c)
        PROVE  IInv'
    <2>1. /\ sess'[i].status = "active" => sess'[i] = sess[i]
          /\ \A j \in Ids \ {i} : sess'[j] = sess[j]
          /\ UNCHANGED <<up, boot, policy, windows, ws, wsRow>>
      BY <1>0, <1>8 DEF Deny, Session
    <2>. QED BY <2>1, QuietStep
  <1>9. ASSUME NEW i \in Ids, NEW c \in Conns, ApproveCrashes(i, c)
        PROVE  IInv'
    <2>1. /\ ws' = NoWs /\ up' = FALSE /\ wsRow' = StartedWs
          /\ windows' = Append(windows, NewWindow)
          /\ sess' = CheckedSess /\ policy' = policy
      BY <1>9 DEF ApproveCrashes, Down
    <2>2. /\ Len(windows') = Len(windows) + 1 /\ Len(windows) \in Nat
          /\ windows'[Len(windows) + 1] = NewWindow
          /\ DOMAIN windows' = 1 .. Len(windows')
          /\ \A k \in 1 .. Len(windows) : windows'[k] = windows[k]
      BY <1>0, <2>1, WindowsLen, StartedType, ConstantsAssumption, AppendProperties DEF TypeOK
    <2>3. Sound(wsRow)' /\ Sound(ws)'
      BY <1>0, <2>1, <2>2 DEF Sound, StartedWs, NewWindow, NoWs
    <2>4. RowIsMemory' /\ Forgotten'
      BY <2>1 DEF RowIsMemory, Forgotten
    <2>5. NoSessionOutlivesWindow'
      BY <1>0, <2>1, <2>2, WindowsLen, CheckedSessions DEF IInv, NoSessionOutlivesWindow, Trusted
    <2>. QED BY <2>1, <2>3, <2>4, <2>5 DEF IInv, ActiveOfThisBoot
  <1>10. ASSUME NEW i \in Ids, Authorize(i)
         PROVE  IInv'
    BY <1>0, <1>10, CheckedSessions, QuietStep DEF Authorize, Current, KeepCheckedWs
  <1>11. ASSUME NEW p \in Policies, SetPolicy(p)
         PROVE  IInv'
    <2>1. \A i \in Ids : sess'[i] = sess[i] \/ sess'[i].status = "expired"
      BY <1>0, <1>11 DEF SetPolicy, WithoutRiders, Session
    <2>. QED BY <1>11, <2>1, WithdrawStep DEF SetPolicy
  <1>12. ASSUME SetPolicyFails
         PROVE  IInv'
    <2>1. \A i \in Ids : sess'[i] = sess[i] \/ sess'[i].status = "expired"
      <3>1. sess' = sess \/ sess' = WithoutRiders(ws)
        BY <1>12 DEF SetPolicyFails
      <3>. QED BY <1>0, <3>1 DEF WithoutRiders, Session
    <2>2. /\ ws' = NoWs /\ wsRow' = NoWs /\ boot' = boot /\ windows' = Withdrawn
          /\ up' => up
      BY <1>12 DEF SetPolicyFails, Down
    <2>. QED BY <2>1, <2>2, WithdrawStep
  <1>13. ASSUME Lock
         PROVE  IInv'
    <2>1. \A i \in Ids : sess'[i].status # "active"
      BY <1>0, <1>13 DEF Lock, Session
    <2>2. /\ ws' = NoWs /\ wsRow' = NoWs /\ boot' = boot /\ windows' = Withdrawn
          /\ up' => up
      BY <1>13 DEF Lock, Down
    <2>. QED BY <2>1, <2>2, WithdrawStep
  <1>14. ASSUME NEW c \in Conns, Disconnect(c)
         PROVE  IInv'
    <2>1. \A i \in Ids : sess'[i] = sess[i] \/ sess'[i].status = "disconnected"
      BY <1>0, <1>14 DEF Disconnect, Session
    <2>2. UNCHANGED <<up, boot, policy, windows, ws, wsRow>>
      BY <1>14 DEF Disconnect
    <2>. QED BY <2>1, <2>2, QuietStep
  <1>15. ASSUME NEW cl \in Clients, Revoke(cl)
         PROVE  IInv'
    <2>1. \A i \in Ids : sess'[i] = sess[i] \/ sess'[i].status = "revoked"
      BY <1>0, <1>15 DEF Revoke, Session
    <2>2. UNCHANGED <<up, boot, policy, windows, ws, wsRow>>
      BY <1>15 DEF Revoke
    <2>. QED BY <2>1, <2>2, QuietStep
  <1>16. ASSUME Inspect
         PROVE  IInv'
    <2>1. \A i \in Ids : sess'[i] = sess[i] \/ sess'[i].status = "expired"
      BY <1>0, <1>16, CheckedSessions DEF Inspect
    <2>2. UNCHANGED <<up, boot, policy, windows>> /\ ws' = CheckedWs /\ wsRow' = CheckedWs /\ up
      BY <1>16 DEF Inspect
    <2>. QED BY <2>1, <2>2, QuietStep
  <1>17. ASSUME Start
         PROVE  IInv'
    <2>1. \/ ws' = NoWs /\ wsRow' = NoWs
          \/ ws' = Observed(wsRow) /\ wsRow' = Observed(wsRow)
      BY <1>17 DEF Start
    <2>2. UNCHANGED <<policy, windows>> /\ up' = TRUE /\ boot' = boot + 1
      BY <1>17 DEF Start
    <2>3. Sound(Observed(wsRow))
      BY <1>0, SoundObserved DEF IInv
    <2>4. Sound(ws)' /\ Sound(wsRow)'
      BY <2>1, <2>2, <2>3, SoundNone DEF Sound
    <2>5. \A i \in Ids : sess'[i].status = "active" => sess'[i] = sess[i] /\ sess[i].boot = boot + 1
      BY <1>0, <1>17 DEF Start, Session
    <2>6. NoSessionOutlivesWindow' /\ ActiveOfThisBoot'
      BY <2>2, <2>5 DEF IInv, NoSessionOutlivesWindow, ActiveOfThisBoot, Trusted
    <2>7. RowIsMemory' /\ Forgotten'
      BY <2>1, <2>2 DEF RowIsMemory, Forgotten
    <2>. QED BY <2>4, <2>6, <2>7 DEF IInv
  <1>18. ASSUME Crash \/ ExpiryFails
         PROVE  IInv'
    <2>1. /\ UNCHANGED <<boot, policy, windows, sess>> /\ ws' = NoWs
          /\ wsRow' = wsRow \/ wsRow' = NoWs
          /\ up' => up /\ wsRow' = NoWs
      BY <1>18 DEF Crash, ExpiryFails, Down
    <2>2. Sound(ws)' /\ Sound(wsRow)'
      BY <2>1, SoundNone DEF IInv, Sound
    <2>3. RowIsMemory' /\ Forgotten'
      BY <2>1 DEF RowIsMemory, Forgotten
    <2>. QED BY <2>1, <2>2, <2>3 DEF IInv, NoSessionOutlivesWindow, ActiveOfThisBoot, Trusted
  <1>19. ASSUME Tick \/ StepBack \/ UNCHANGED vars
         PROVE  IInv'
    <2>1. UNCHANGED <<up, boot, policy, ws, wsRow, sess, windows>>
      BY <1>19 DEF Tick, StepBack, vars
    <2>. QED BY <2>1 DEF IInv, Sound, RowIsMemory, Forgotten, NoSessionOutlivesWindow,
                         ActiveOfThisBoot, Trusted
  <1>. QED BY <1>1, <1>2, <1>3, <1>4, <1>5, <1>6, <1>7, <1>8, <1>9, <1>10, <1>11, <1>12,
              <1>13, <1>14, <1>15, <1>16, <1>17, <1>18, <1>19 DEF Next, OnActivation

\* The invariant of the proofs holds in every run of the broker.
THEOREM Inductive == Spec => []IInv
  <1>1. TypeOK /\ IInv /\ TypeOK' /\ [Next]_vars => IInv'
    BY IInvStep
  <1>. QED BY <1>1, IInvInit, TypeCorrect, PTL DEF Spec

-----------------------------------------------------------------------------
(* What follows from it.                                                   *)

\* The window a broker goes by, or would restore, is one the owner approved and
\* has not withdrawn, with its bounds.
THEOREM WindowApproved == Spec => []WindowIsApproved
  <1>1. IInv => WindowIsApproved
    BY DEF IInv, WindowIsApproved, Sound, Backed
  <1>. QED BY <1>1, Inductive, PTL

\* What a restart restores is what the broker went by.
THEOREM RowAgrees == Spec => []RowIsMemory
  BY Inductive, PTL DEF IInv

\* No session outlives its window, and none is live in a later boot.
THEOREM SessionsBounded == Spec => [](NoSessionOutlivesWindow /\ ActiveOfThisBoot)
  <1>1. IInv => NoSessionOutlivesWindow /\ ActiveOfThisBoot
    BY DEF IInv
  <1>. QED BY <1>1, Inductive, PTL

\* No window ends for inactivity before its own end.
THEOREM IdleIsWholeWindow == Spec => []IdleNeverLapses
  <1>1. IInv => IdleNeverLapses
    <2>. SUFFICES ASSUME IInv, NEW w \in {ws, wsRow}, w.id # 0, now < w.expires
                  PROVE  now - w.activity < policy
      BY DEF IdleNeverLapses
    <2>1. /\ now \in Nat /\ w \in WorkSession /\ policy \in Nat
          /\ w.expires = w.started + policy /\ w.started <= w.activity
      BY ConstantsAssumption DEF IInv, TypeOK, Sound, ConstantsAssumption
    <2>. QED BY <2>1, WorkSessionFields
  <1>. QED BY <1>1, Inductive, PTL

\* Every authorized request of a connector falls inside such a window.
THEOREM UsesInWindow == Spec => []UseInWindow
  <1>1. IInv => UseInWindow
    <2>. SUFFICES ASSUME IInv, NEW i \in Ids, Accepts(i), Trusted(i)
                  PROVE  /\ InWindow(i)
                         /\ sess[i].expires <= windows[sess[i].ws].until
                         /\ ClientOf[i] \in live /\ sess[i].boot = boot
      BY DEF UseInWindow
    <2>1. LiveWs /\ sess[i].ws = ws.id /\ sess[i].status = "active"
      BY DEF Accepts, Current
    <2>2. TypeOK /\ now \in Nat /\ ws \in WorkSession
      BY DEF IInv, TypeOK
    <2>3. ws.id # 0 /\ ws.started <= now /\ now < ws.expires
      BY <2>1, <2>2, CheckedSound, WorkSessionFields DEF LiveWs, Lapsed
    <2>4. InWindow(i)
      BY <2>1, <2>2, <2>3, WindowsLen, WorkSessionFields DEF IInv, Sound, InWindow
    <2>. QED BY <2>1, <2>4 DEF IInv, NoSessionOutlivesWindow, Accepts, Current
  <1>. QED BY <1>1, Inductive, PTL

\* A connector is let in without a prompt only inside such a window.
THEOREM SilentInWindow == Spec => []SilenceInWindow
  <1>1. IInv => SilenceInWindow
    <2>. SUFFICES ASSUME IInv, NEW i \in Ids, Silent(i)
                  PROVE  InWindow(i)
      BY DEF SilenceInWindow
    <2>1. TypeOK /\ now \in Nat /\ ws \in WorkSession /\ LiveWs /\ sess[i].ws = ws.id
      BY DEF IInv, TypeOK, Silent
    <2>2. ws.id # 0 /\ ws.started <= now /\ now < ws.expires
      BY <2>1, CheckedSound, WorkSessionFields DEF LiveWs, Lapsed
    <2>. QED BY <2>1, <2>2, WindowsLen, WorkSessionFields DEF IInv, Sound, InWindow
  <1>. QED BY <1>1, Inductive, PTL

-----------------------------------------------------------------------------
(* Decisions.                                                              *)

\* An activation is decided once, and by the owner or the window it was asked
\* for in: DecidedOnce of every run of the broker.
THEOREM DecidesOnce == Spec => DecidedOnce
  <1>. DEFINE Decided ==
         \A i \in Ids : sess'[i].status = "active" /\ sess[i].status # "active" =>
            /\ sess[i].status = "pending" /\ sess[i].boot = boot
            /\ i \in begun \/ \E c \in Conns : <<i, c>> \in asked
            /\ \/ \E c \in Conns : <<i, c>> \in asked \ asked'
               \/ Trusted(i) /\ wsRow.id # 0 /\ sess[i].ws = wsRow.id
  <1>1. IInv /\ [Next]_vars => Decided
    <2>. SUFFICES ASSUME IInv, [Next]_vars,
                         NEW j \in Ids, sess'[j].status = "active", sess[j].status # "active"
                  PROVE  /\ sess[j].status = "pending" /\ sess[j].boot = boot
                         /\ j \in begun \/ \E c \in Conns : <<j, c>> \in asked
                         /\ \/ \E c \in Conns : <<j, c>> \in asked \ asked'
                            \/ Trusted(j) /\ wsRow.id # 0 /\ sess[j].ws = wsRow.id
      OBVIOUS
    <2>0. TypeOK /\ sess \in [Ids -> Session] /\ CheckedSess \in [Ids -> Session]
      BY CheckedType DEF IInv, TypeOK
    <2>1. \A k \in Ids : /\ CheckedSess[k].status = "active" => sess[k].status = "active"
                         /\ WithoutRiders(ws)[k].status = "active" => sess[k].status = "active"
                         /\ SessFor(k)[j].status = "active" => sess[j].status = "active"
      BY <2>0, CheckedSessions DEF WithoutRiders, Session
    <2>2. ASSUME NEW i \in Ids, NEW ttl \in SessionTtls, Request(i, ttl)
          PROVE  FALSE
      BY <2>0, <2>1, <2>2, CheckedSessions DEF Request
    <2>3. ASSUME NEW i \in Ids, ActivateSilently(i)
          PROVE  j = i /\ Decidable(i) /\ i \in begun /\ Silent(i) /\ wsRow = ws
      BY <2>0, <2>3 DEF ActivateSilently, IInv, RowIsMemory
    <2>4. ASSUME NEW i \in Ids, NEW c \in Conns, ApproveTrusted(i, c) \/ ApproveOther(i, c)
          PROVE  j = i /\ Decidable(i) /\ <<i, c>> \in asked \ asked'
      BY <2>0, <2>1, <2>4 DEF ApproveTrusted, ApproveOther
    <2>5. ASSUME NEW i \in Ids, NEW c \in Conns,
                 \/ AskOwner(i, c) \/ ApproveFails(i, c)
                 \/ ApproveCrashes(i, c) \/ Deny(i, c)
          PROVE  FALSE
      <3>1. ~Deny(i, c)
        BY <2>0 DEF Deny, Session
      <3>2. sess' = SessFor(i) \/ sess' = CheckedSess
        BY <2>5, <3>1 DEF AskOwner, ApproveFails, ApproveCrashes
      <3>. QED BY <2>1, <3>2
    <2>6. ASSUME NEW i \in Ids, CompleteLate(i) \/ Authorize(i) \/ AuthorizeExpired(i)
          PROVE  FALSE
      <3>1. ~CompleteLate(i) /\ ~AuthorizeExpired(i)
        BY <2>0 DEF CompleteLate, AuthorizeExpired, Session
      <3>. QED BY <2>1, <2>6, <3>1 DEF Authorize
    <2>7. ASSUME \/ \E p \in Policies : SetPolicy(p)
                 \/ SetPolicyFails \/ ExpiryFails \/ Inspect
          PROVE  FALSE
      BY <2>1, <2>7 DEF SetPolicy, SetPolicyFails, ExpiryFails, Inspect
    <2>8. ASSUME \/ \E c \in Conns : Disconnect(c)
                 \/ \E cl \in Clients : Revoke(cl)
                 \/ Lock \/ Start
          PROVE  FALSE
      BY <2>0, <2>8 DEF Disconnect, Revoke, Lock, Start, Session
    <2>9. ASSUME Crash \/ Tick \/ StepBack \/ UNCHANGED vars
          PROVE  FALSE
      BY <2>9 DEF Crash, Tick, StepBack, vars
    <2>10. CASE \E i \in Ids : ActivateSilently(i)
      BY <2>3, <2>10 DEF Decidable, Silent, LiveWs
    <2>11. CASE \E i \in Ids, c \in Conns : ApproveTrusted(i, c) \/ ApproveOther(i, c)
      BY <2>4, <2>11 DEF Decidable
    <2>. QED BY <2>2, <2>5, <2>6, <2>7, <2>8, <2>9, <2>10, <2>11 DEF Next, OnActivation
  <1>. QED BY <1>1, Inductive, PTL DEF Spec, DecidedOnce

-----------------------------------------------------------------------------
(* The state of OwnerWindow as the broker has it.                          *)

Win == IF wsRow.id = 0 THEN {} ELSE {[from |-> wsRow.started, until |-> wsRow.expires]}
Asking == {i \in Ids : Trusted(i) /\ \E c \in Conns : <<i, c>> \in asked}
Serving == {i \in Ids : Riding(i)}

Fading == \/ Win' = Win /\ Serving' \subseteq Serving
          \/ Win' = {} /\ Serving' = {}

\* An activation has one completion, and with it at most one prompt; and nothing
\* is stamped with a boot to come.
OneAsking ==
    /\ \A i \in Ids : /\ sess[i].boot <= boot
                      /\ sess[i].status = "free" =>
                            i \notin begun /\ \A c \in Conns : <<i, c>> \notin asked
                      /\ i \in begun => \A c \in Conns : <<i, c>> \notin asked
    /\ \A i \in Ids : \A c, d \in Conns : <<i, c>> \in asked /\ <<i, d>> \in asked => c = d

\* A step that asks nothing and spends, at most, keeps it.
LEMMA SpendStep ==
    ASSUME OneAsking, TypeOK, TypeOK',
           boot <= boot', begun' \subseteq begun, asked' \subseteq asked,
           \A i \in Ids : /\ sess'[i].boot <= boot'
                          /\ sess'[i].status = "free" => sess[i].status = "free"
    PROVE  OneAsking'
  BY DEF OneAsking

\* In every run of the broker an activation is asked at most once.
THEOREM AsksOnce == Spec => []OneAsking
  <1>1. Init => OneAsking
    BY DEF Init, OneAsking, Free
  <1>2. OneAsking /\ TypeOK /\ TypeOK' /\ [Next]_vars => OneAsking'
    <2>. SUFFICES ASSUME OneAsking, TypeOK, TypeOK', [Next]_vars
                  PROVE  OneAsking'
      OBVIOUS
    <2>0. /\ sess \in [Ids -> Session] /\ CheckedSess \in [Ids -> Session]
          /\ boot \in Nat
          /\ \A i \in Ids : SessFor(i) \in [Ids -> Session] /\ sess[i].boot <= boot
      BY CheckedSessions, CheckedType DEF TypeOK, OneAsking
    <2>1. \A k \in Ids : /\ CheckedSess[k].boot = sess[k].boot
                         /\ CheckedSess[k].status = "free" => sess[k].status = "free"
                         /\ WithoutRiders(ws)[k].boot = sess[k].boot
                         /\ WithoutRiders(ws)[k].status = "free" => sess[k].status = "free"
      BY <2>0 DEF CheckedSess, WithoutRiders, Session
    <2>2. \A i, k \in Ids : /\ SessFor(i)[k].boot = sess[k].boot
                            /\ SessFor(i)[k].status = "free" => sess[k].status = "free"
      BY <2>1 DEF SessFor
    <2>3. ASSUME NEW i \in Ids, NEW ttl \in SessionTtls, Request(i, ttl)
          PROVE  OneAsking'
      <3>1. /\ sess[i].status = "free" /\ begun' = begun \cup {i} /\ asked' = asked /\ boot' = boot
            /\ sess'[i].status = "pending" /\ sess'[i].boot = boot
            /\ \A k \in Ids \ {i} : sess'[k] = SessFor(i)[k]
        BY <2>0, <2>3 DEF Request
      <3>. QED BY <2>0, <2>2, <3>1 DEF OneAsking
    <2>4. ASSUME NEW i \in Ids, NEW c \in Conns, AskOwner(i, c)
          PROVE  OneAsking'
      <3>1. /\ i \in begun /\ begun' = begun \ {i} /\ boot' = boot /\ sess' = SessFor(i)
            /\ asked' = asked \/ asked' = asked \cup {<<i, c>>}
            /\ Decidable(i)
        BY <2>4 DEF AskOwner
      <3>2. CASE asked' = asked
        BY <2>0, <2>2, <3>1, <3>2 DEF OneAsking
      <3>3. CASE asked' = asked \cup {<<i, c>>}
        <4>1. sess'[i].status # "free"
          BY <2>2, <3>1 DEF Decidable
        <4>2. \A k \in Ids \ {i}, d \in Conns : <<k, d>> \in asked' <=> <<k, d>> \in asked
          BY <3>3
        <4>3. \A d \in Conns : <<i, d>> \in asked' => d = c
          BY <3>1, <3>3 DEF OneAsking
        <4>. QED BY <2>0, <2>2, <3>1, <4>1, <4>2, <4>3 DEF OneAsking
      <3>. QED BY <3>1, <3>2, <3>3
    <2>5. ASSUME NEW i \in Ids, ActivateSilently(i)
          PROVE  OneAsking'
      BY <2>0, <2>5, SpendStep DEF ActivateSilently, Activated, Decidable
    <2>6. ASSUME NEW i \in Ids, NEW c \in Conns,
                 \/ ApproveTrusted(i, c) \/ ApproveOther(i, c) \/ Deny(i, c)
          PROVE  OneAsking'
      <3>1. /\ begun' = begun /\ boot' = boot /\ asked' \subseteq asked
        BY <2>6 DEF ApproveTrusted, ApproveOther, Deny
      <3>2. \A k \in Ids : /\ sess'[k].boot = sess[k].boot
                           /\ sess'[k].status = "free" => sess[k].status = "free"
        <4>1. CASE ApproveTrusted(i, c)
          BY <2>0, <2>1, <4>1 DEF ApproveTrusted, Activated
        <4>2. CASE ApproveOther(i, c)
          BY <2>0, <4>2 DEF ApproveOther, Activated
        <4>3. CASE Deny(i, c)
          BY <2>0, <4>3 DEF Deny, Session
        <4>. QED BY <2>6, <4>1, <4>2, <4>3
      <3>. QED BY <2>0, <3>1, <3>2, SpendStep
    <2>7. ASSUME NEW i \in Ids,
                 \/ Authorize(i)
                 \/ \E c \in Conns : ApproveFails(i, c) \/ ApproveCrashes(i, c)
          PROVE  OneAsking'
      <3>1. /\ begun' \subseteq begun /\ boot' = boot /\ asked' \subseteq asked
            /\ sess' = SessFor(i) \/ sess' = CheckedSess
        BY <2>7 DEF ApproveFails, ApproveCrashes, Authorize, Down
      <3>. QED BY <2>0, <2>1, <2>2, <3>1, SpendStep
    <2>8. ASSUME NEW i \in Ids, CompleteLate(i) \/ AuthorizeExpired(i)
          PROVE  OneAsking'
      <3>1. /\ begun' = begun /\ boot' = boot /\ asked' = asked
            /\ \A k \in Ids : /\ sess'[k].boot = sess[k].boot
                              /\ sess'[k].status = "free" => sess[k].status = "free"
        <4>1. /\ UNCHANGED <<begun, boot, asked>>
              /\ sess' = [sess EXCEPT ![i].status = "expired"]
          BY <2>8 DEF CompleteLate, AuthorizeExpired
        <4>. QED BY <2>0, <4>1 DEF Session
      <3>. QED BY <2>0, <3>1, SpendStep
    <2>9. ASSUME \/ \E p \in Policies : SetPolicy(p)
                 \/ SetPolicyFails \/ ExpiryFails \/ Inspect
          PROVE  OneAsking'
      <3>1. /\ begun' \subseteq begun /\ boot' = boot /\ asked' \subseteq asked
            /\ sess' = sess \/ sess' = CheckedSess \/ sess' = WithoutRiders(ws)
        BY <2>9 DEF SetPolicy, SetPolicyFails, ExpiryFails, Inspect, Down
      <3>. QED BY <2>0, <2>1, <3>1, SpendStep
    <2>10. ASSUME \/ \E c \in Conns : Disconnect(c)
                  \/ \E cl \in Clients : Revoke(cl)
                  \/ Lock
           PROVE  OneAsking'
      <3>1. begun' \subseteq begun /\ boot' = boot /\ asked' \subseteq asked
        BY <2>10 DEF Disconnect, Revoke, Lock, Down
      <3>2. \A k \in Ids : /\ sess'[k].boot = sess[k].boot
                           /\ sess'[k].status = "free" => sess[k].status = "free"
        BY <2>0, <2>10 DEF Disconnect, Revoke, Lock, Session
      <3>. QED BY <2>0, <3>1, <3>2, SpendStep
    <2>11. ASSUME Start
           PROVE  OneAsking'
      <3>1. /\ begun' = begun /\ asked' = asked /\ boot' = boot + 1
            /\ \A k \in Ids : /\ sess'[k].boot = sess[k].boot
                              /\ sess'[k].status = "free" => sess[k].status = "free"
        BY <2>0, <2>11 DEF Start, Session
      <3>2. boot <= boot' /\ \A k \in Ids : sess'[k].boot <= boot'
        BY <2>0, <3>1 DEF Session
      <3>. QED BY <3>1, <3>2, SpendStep
    <2>12. ASSUME Crash
           PROVE  OneAsking'
      BY <2>0, <2>12, SpendStep DEF Crash, Down
    <2>13. ASSUME Tick \/ StepBack \/ UNCHANGED vars
           PROVE  OneAsking'
      <3>1. UNCHANGED <<begun, boot, asked, sess>>
        BY <2>13 DEF Tick, StepBack, vars
      <3>. QED BY <3>1 DEF OneAsking
    <2>14. CASE \E i \in Ids : OnActivation(i)
      BY <2>3, <2>4, <2>5, <2>6, <2>7, <2>8, <2>14 DEF OnActivation
    <2>. QED BY <2>9, <2>10, <2>11, <2>12, <2>13, <2>14 DEF Next
  <1>. QED BY <1>1, <1>2, TypeCorrect, PTL DEF Spec

-----------------------------------------------------------------------------
(* Every step is one of OwnerWindow.                                       *)

\* What the steps of OwnerWindow say of the broker.
LEMMA Steps ==
    /\ now' = now /\ Asking' \subseteq Asking /\ Fading => Promise!Next
    /\ now' \in Nat /\ Win' = Win /\ Asking' = Asking /\ Serving' = Serving => Promise!Next
    /\ \A i \in Ids :
         /\ Trusted(i) /\ now' = now /\ Asking' = Asking \cup {i} /\ Fading => Promise!Next
         /\ /\ Trusted(i) /\ wsRow.id # 0 /\ wsRow.started <= now /\ now < wsRow.expires
            /\ now' = now /\ Win' = Win /\ Asking' = Asking /\ Serving' = Serving \cup {i}
            => Promise!Next
         /\ /\ i \in Asking /\ Asking' \subseteq Asking \ {i} /\ now' = now
            /\ \/ /\ wsRow.id # 0 /\ wsRow.started <= now /\ now < wsRow.expires
                  /\ Win' = Win /\ Serving' \subseteq Serving \cup {i}
               \/ /\ wsRow'.id # 0 /\ wsRow'.started = now /\ now < wsRow'.expires
                  /\ Serving' \subseteq {i}
            => Promise!Next
  <1>1. now' = now /\ Asking' \subseteq Asking /\ Fading => Promise!Next
    BY DEF Promise!Next, Promise!Lose, Promise!Fade, Asking, Win, Serving, Fading
  <1>2. now' \in Nat /\ Win' = Win /\ Asking' = Asking /\ Serving' = Serving => Promise!Next
    BY DEF Promise!Next, Promise!Clock, Asking, Win, Serving
  <1>3. ASSUME NEW i \in Ids, Trusted(i), now' = now, Asking' = Asking \cup {i}, Fading
        PROVE  Promise!Next
    <2>1. Promise!Ask(i)
      BY <1>3 DEF Promise!Ask, Promise!Fade, Asking, Win, Serving, Fading
    <2>. QED BY <1>3, <2>1 DEF Promise!Next
  <1>4. ASSUME NEW i \in Ids, Trusted(i),
               wsRow.id # 0, wsRow.started <= now, now < wsRow.expires,
               now' = now, Win' = Win, Asking' = Asking, Serving' = Serving \cup {i}
        PROVE  Promise!Next
    <2>1. Promise!LetIn(i)
      BY <1>4 DEF Promise!LetIn, Promise!Inside, Asking, Win, Serving
    <2>. QED BY <1>4, <2>1 DEF Promise!Next
  <1>5. ASSUME NEW i \in Ids, i \in Asking, Asking' \subseteq Asking \ {i}, now' = now,
               \/ /\ wsRow.id # 0 /\ wsRow.started <= now /\ now < wsRow.expires
                  /\ Win' = Win /\ Serving' \subseteq Serving \cup {i}
               \/ /\ wsRow'.id # 0 /\ wsRow'.started = now /\ now < wsRow'.expires
                  /\ Serving' \subseteq {i}
        PROVE  Promise!Next
    <2>1. Promise!Agree(i)
      BY <1>5 DEF Promise!Agree, Promise!Inside, Asking, Win, Serving
    <2>. QED BY <1>5, <2>1 DEF Promise!Next, Asking
  <1>. QED BY <1>1, <1>2, <1>3, <1>4, <1>5

\* A session of no window, or of one to come, is not ridden.
LEMMA Unridden ==
    ASSUME IInv, NEW i \in Ids, Trusted(i), sess[i].status = "active"
    PROVE  sess[i].ws # 0 /\ sess[i].ws # Len(windows) + 1
  BY WindowsLen DEF IInv, NoSessionOutlivesWindow

\* A step that activates no connector and keeps the work session's bounds, or
\* ends it, only takes away.
LEMMA FadeStep ==
    ASSUME IInv, IInv', boot' = boot, up' => up,
           \/ wsRow'.id = 0
           \/ /\ wsRow'.id = wsRow.id /\ wsRow'.started = wsRow.started
              /\ wsRow'.expires = wsRow.expires,
           \A i \in Ids : Trusted(i) /\ sess'[i].status = "active" =>
               /\ sess[i].status = "active"
               /\ sess'[i].ws = sess[i].ws /\ sess'[i].boot = sess[i].boot
    PROVE  Fading
  <1>1. up' => ws' = wsRow' /\ up /\ ws = wsRow
    BY DEF IInv, RowIsMemory
  <1>2. CASE wsRow'.id = 0
    <2>1. \A i \in Ids : Trusted(i) /\ sess'[i].status = "active" => sess'[i].ws # 0
      BY WindowsLen DEF IInv, NoSessionOutlivesWindow, Trusted
    <2>. QED BY <1>1, <1>2, <2>1 DEF Fading, Win, Serving, Riding, Trusted
  <1>3. CASE /\ wsRow'.id = wsRow.id /\ wsRow'.started = wsRow.started
             /\ wsRow'.expires = wsRow.expires
    BY <1>1, <1>3 DEF Fading, Win, Serving, Riding, Trusted
  <1>. QED BY <1>2, <1>3

\* So does the lapse check.
LEMMA CheckedFades ==
    ASSUME IInv, IInv', boot' = boot, up' => up,
           wsRow' = CheckedWs \/ wsRow' = wsRow,
           \A i \in Ids : Trusted(i) /\ sess'[i].status = "active" =>
               /\ sess[i].status = "active"
               /\ sess'[i].ws = sess[i].ws /\ sess'[i].boot = sess[i].boot,
           up
    PROVE  Fading
  <1>1. ws = wsRow /\ now \in Nat /\ ws \in WorkSession
    BY DEF IInv, TypeOK, RowIsMemory
  <1>2. \/ CheckedWs.id = 0
        \/ /\ CheckedWs.id = wsRow.id /\ CheckedWs.started = wsRow.started
           /\ CheckedWs.expires = wsRow.expires
    BY <1>1, ObservedType, SoundNone DEF CheckedWs
  <1>. QED BY <1>2, FadeStep
\* The lapse check only takes from the sessions.
LEMMA CheckedTakes ==
    ASSUME TypeOK
    PROVE  /\ \A k \in Ids : CheckedSess[k].status = "active" =>
                /\ sess[k].status = "active"
                /\ CheckedSess[k].ws = sess[k].ws /\ CheckedSess[k].boot = sess[k].boot
           /\ \A i, k \in Ids : SessFor(i)[k].status = "active" =>
                /\ sess[k].status = "active"
                /\ SessFor(i)[k].ws = sess[k].ws /\ SessFor(i)[k].boot = sess[k].boot
           /\ \A k \in Ids : WithoutRiders(ws)[k].status = "active" =>
                /\ sess[k].status = "active"
                /\ WithoutRiders(ws)[k].ws = sess[k].ws
                /\ WithoutRiders(ws)[k].boot = sess[k].boot
  <1>1. \A k \in Ids : /\ WithoutRiders(ws)[k] = sess[k] \/ WithoutRiders(ws)[k].status = "expired"
    BY DEF WithoutRiders, TypeOK, Session
  <1>2. \A k \in Ids : CheckedSess[k] = sess[k] \/ CheckedSess[k].status = "expired"
    BY <1>1 DEF CheckedSess
  <1>. QED BY <1>1, <1>2 DEF SessFor

\* An answer to a connector's prompt, whatever becomes of it.
LEMMA ApprovalAgrees ==
    ASSUME IInv, IInv', OneAsking, NEW i \in Ids, NEW c \in Conns,
           ApproveTrusted(i, c) \/ ApproveCrashes(i, c)
    PROVE  Promise!Next
  <1>0. /\ TypeOK /\ sess \in [Ids -> Session] /\ CheckedSess \in [Ids -> Session]
        /\ now \in Nat /\ policy \in Nat \ {0} /\ ws \in WorkSession
        /\ StartedWs \in WorkSession /\ CheckedWs \in WorkSession
        /\ ws = wsRow /\ up
    BY ConstantsAssumption, CheckedType, StartedType
       DEF IInv, TypeOK, RowIsMemory, ConstantsAssumption, ApproveTrusted, ApproveCrashes
  <1>1. now' = now /\ i \in Asking
    BY DEF ApproveTrusted, ApproveCrashes, Asking
  <1>2. Asking' \subseteq Asking \ {i}
    <2>1. asked' \subseteq asked \ {<<i, c>>}
      BY DEF ApproveTrusted, ApproveCrashes, Down
    <2>2. \A d \in Conns : <<i, d>> \in asked => d = c
      BY DEF OneAsking, ApproveTrusted, ApproveCrashes
    <2>. QED BY <2>1, <2>2 DEF Asking, Trusted
  <1>3. CASE ApproveTrusted(i, c) /\ LiveWs
    <2>1. /\ wsRow' = Touched(CheckedWs) /\ ws' = wsRow' /\ CheckedSess = sess
          /\ sess' = [sess EXCEPT ![i] = Activated(i, CheckedWs)]
          /\ up' = up /\ boot' = boot
      BY <1>3 DEF ApproveTrusted, CheckedSess, LiveWs
    <2>2. /\ wsRow.id # 0 /\ wsRow.started <= now /\ now < wsRow.expires
      BY <1>0, <1>3, CheckedSound, WorkSessionFields DEF LiveWs, Lapsed
    <2>3. /\ wsRow'.id = wsRow.id /\ wsRow'.started = wsRow.started
          /\ wsRow'.expires = wsRow.expires
      BY <1>0, <1>3, <2>1, ObservedType, TouchedType DEF CheckedWs
    <2>4. Win' = Win
      BY <2>3 DEF Win
    <2>5. Serving' \subseteq Serving \cup {i}
      BY <1>0, <2>1, <2>3 DEF Serving, Riding, Trusted
    <2>. QED BY <1>1, <1>2, <2>2, <2>4, <2>5, Steps
  <1>4. CASE ~LiveWs
    <2>1. /\ wsRow'.id = Len(windows) + 1 /\ wsRow'.started = now
          /\ wsRow'.expires = now + policy
      <3>1. wsRow' = StartedWs \/ wsRow' = Touched(StartedWs)
        BY <1>4 DEF ApproveTrusted, ApproveCrashes
      <3>. QED BY <1>0, <3>1, TouchedType DEF StartedWs
    <2>2. wsRow'.id # 0 /\ now < wsRow'.expires
      BY <1>0, <2>1, WindowsLen
    <2>3. Serving' \subseteq {i}
      <3>1. CASE ApproveCrashes(i, c)
        BY <3>1 DEF ApproveCrashes, Down, Serving, Riding
      <3>2. CASE ApproveTrusted(i, c)
        <4>1. \A k \in Ids \ {i} : sess'[k] = CheckedSess[k]
          BY <1>0, <3>2 DEF ApproveTrusted
        <4>2. \A k \in Ids : Trusted(k) /\ sess[k].status = "active" => sess[k].ws # wsRow'.id
          BY <2>1, Unridden
        <4>3. ws' = wsRow'
          BY <3>2 DEF ApproveTrusted
        <4>. QED BY <1>0, <4>1, <4>2, <4>3, CheckedTakes DEF Serving, Riding, Trusted
      <3>. QED BY <3>1, <3>2
    <2>. QED BY <1>1, <1>2, <2>1, <2>2, <2>3, Steps
  <1>. QED BY <1>3, <1>4 DEF ApproveCrashes
\* Every handler, failure, crash and restart is a step of OwnerWindow.
LEMMA StepPromised == IInv /\ IInv' /\ OneAsking /\ [Next]_vars => [Promise!Next]_Promise!vars
  <1>. SUFFICES ASSUME IInv, IInv', OneAsking, [Next]_vars
                PROVE  [Promise!Next]_Promise!vars
    OBVIOUS
  <1>0. /\ TypeOK /\ sess \in [Ids -> Session] /\ now \in Nat /\ ws \in WorkSession
        /\ CheckedSess \in [Ids -> Session]
        /\ \A i \in Ids : SessFor(i) \in [Ids -> Session]
    BY CheckedType, CheckedSessions DEF IInv, TypeOK
  <1>1. ASSUME NEW i \in Ids, NEW ttl \in SessionTtls, Request(i, ttl)
        PROVE  Promise!Next
    <2>1. /\ UNCHANGED <<now, up, boot, asked>> /\ up
          /\ wsRow' = CheckedWs \/ wsRow' = wsRow
      BY <1>1 DEF Request, KeepCheckedWs
    <2>2. \A k \in Ids : sess'[k].status = "active" => k # i /\ sess'[k] = SessFor(i)[k]
      BY <1>0, <1>1 DEF Request
    <2>3. Fading
      BY <1>0, <2>1, <2>2, CheckedFades, CheckedTakes
    <2>. QED BY <2>1, <2>3, Steps DEF Asking, Trusted
  <1>2. ASSUME NEW i \in Ids, ActivateSilently(i)
        PROVE  Promise!Next
    <2>1. /\ Trusted(i) /\ LiveWs /\ sess[i].ws = ws.id /\ sess[i].boot = boot
          /\ wsRow' = Touched(CheckedWs) /\ ws' = wsRow' /\ ws = wsRow
          /\ sess' = [sess EXCEPT ![i] = Activated(i, CheckedWs)]
          /\ UNCHANGED <<now, up, boot, asked>> /\ up
      BY <1>2 DEF ActivateSilently, Silent, Decidable, IInv, RowIsMemory
    <2>2. wsRow.id # 0 /\ wsRow.started <= now /\ now < wsRow.expires
      BY <1>0, <2>1, CheckedSound, WorkSessionFields DEF LiveWs, Lapsed
    <2>3. /\ wsRow'.id = wsRow.id /\ wsRow'.started = wsRow.started
          /\ wsRow'.expires = wsRow.expires
          /\ CheckedWs.id = ws.id
      BY <1>0, <2>1, ObservedType, TouchedType DEF CheckedWs
    <2>4. Win' = Win /\ Asking' = Asking
      BY <2>1, <2>3 DEF Win, Asking, Trusted
    <2>5. /\ sess'[i].status = "active" /\ sess'[i].ws = ws.id /\ sess'[i].boot = boot
          /\ \A k \in Ids \ {i} : sess'[k] = sess[k]
      BY <1>0, <2>1, <2>3 DEF Activated
    <2>6. Serving' = Serving \cup {i}
      BY <2>1, <2>3, <2>5 DEF Serving, Riding, Trusted
    <2>. QED BY <2>1, <2>2, <2>4, <2>6, Steps
  <1>3. ASSUME NEW i \in Ids, NEW c \in Conns, AskOwner(i, c)
        PROVE  Promise!Next
    <2>1. /\ UNCHANGED <<now, up, boot>> /\ up
          /\ wsRow' = CheckedWs \/ wsRow' = wsRow
          /\ sess' = SessFor(i)
          /\ asked' = asked \/ asked' = asked \cup {<<i, c>>}
      BY <1>3 DEF AskOwner, KeepCheckedWs
    <2>2. Fading
      BY <1>0, <2>1, CheckedFades, CheckedTakes
    <2>3. CASE Trusted(i) /\ asked' = asked \cup {<<i, c>>}
      <3>1. Asking' = Asking \cup {i}
        BY <2>3 DEF Asking, Trusted
      <3>. QED BY <2>1, <2>2, <2>3, <3>1, Steps
    <2>4. CASE ~Trusted(i) \/ asked' = asked
      <3>1. Asking' \subseteq Asking
        BY <2>1, <2>4 DEF Asking, Trusted
      <3>. QED BY <2>1, <2>2, <3>1, Steps
    <2>. QED BY <2>1, <2>3, <2>4
  <1>4. ASSUME NEW i \in Ids, NEW c \in Conns, ApproveTrusted(i, c) \/ ApproveCrashes(i, c)
        PROVE  Promise!Next
    BY <1>4, ApprovalAgrees
  <1>5. ASSUME NEW i \in Ids, NEW c \in Conns, ApproveOther(i, c) \/ Deny(i, c)
        PROVE  Promise!Next
    <2>1. UNCHANGED <<now, up, boot, wsRow>> /\ up /\ asked' \subseteq asked
      BY <1>5 DEF ApproveOther, Deny
    <2>2. \A k \in Ids : Trusted(k) /\ sess'[k].status = "active" => sess'[k] = sess[k]
      <3>1. CASE ApproveOther(i, c)
        BY <1>0, <3>1 DEF ApproveOther
      <3>2. CASE Deny(i, c)
        BY <1>0, <3>2 DEF Deny, Session
      <3>. QED BY <1>5, <3>1, <3>2
    <2>3. Fading
      BY <2>1, <2>2, FadeStep
    <2>. QED BY <2>1, <2>3, Steps DEF Asking, Trusted
  <1>6. ASSUME NEW i \in Ids,
               \/ Authorize(i)
               \/ \E c \in Conns : ApproveFails(i, c)
        PROVE  Promise!Next
    <2>1. /\ UNCHANGED <<now, up, boot>> /\ up /\ asked' \subseteq asked
          /\ wsRow' = CheckedWs \/ wsRow' = wsRow
          /\ sess' = SessFor(i)
      BY <1>6 DEF Authorize, ApproveFails, Current, KeepCheckedWs
    <2>2. Fading
      BY <1>0, <2>1, CheckedFades, CheckedTakes
    <2>. QED BY <2>1, <2>2, Steps DEF Asking, Trusted
  <1>7. ASSUME NEW i \in Ids, CompleteLate(i) \/ AuthorizeExpired(i)
        PROVE  Promise!Next
    <2>1. /\ UNCHANGED <<now, up, boot, wsRow, asked>>
          /\ sess' = [sess EXCEPT ![i].status = "expired"]
      BY <1>7 DEF CompleteLate, AuthorizeExpired
    <2>2. \A k \in Ids : sess'[k].status = "active" => sess'[k] = sess[k]
      BY <1>0, <2>1 DEF Session
    <2>3. Fading
      BY <2>1, <2>2, FadeStep
    <2>. QED BY <2>1, <2>3, Steps DEF Asking, Trusted
  <1>8. ASSUME Inspect
        PROVE  Promise!Next
    <2>1. /\ UNCHANGED <<now, up, boot, asked>> /\ up
          /\ wsRow' = CheckedWs /\ sess' = CheckedSess
      BY <1>8 DEF Inspect
    <2>2. Fading
      BY <1>0, <2>1, CheckedFades, CheckedTakes
    <2>. QED BY <2>1, <2>2, Steps DEF Asking, Trusted
  <1>9. ASSUME SetPolicyFails \/ \E p \in Policies : SetPolicy(p)
        PROVE  Promise!Next
    <2>1. /\ UNCHANGED <<now, boot>> /\ up /\ wsRow' = NoWs /\ asked' \subseteq asked
          /\ sess' = sess \/ sess' = WithoutRiders(ws)
      BY <1>9 DEF SetPolicy, SetPolicyFails, Down
    <2>2. Fading
      BY <1>0, <2>1, FadeStep, CheckedTakes, SoundNone
    <2>. QED BY <2>1, <2>2, Steps DEF Asking, Trusted
  <1>10. ASSUME \/ \E c \in Conns : Disconnect(c)
                \/ \E cl \in Clients : Revoke(cl)
         PROVE  Promise!Next
    <2>1. UNCHANGED <<now, up, boot, wsRow>> /\ asked' \subseteq asked
      BY <1>10 DEF Disconnect, Revoke
    <2>2. \A k \in Ids : sess'[k].status = "active" => sess'[k] = sess[k]
      BY <1>0, <1>10 DEF Disconnect, Revoke, Session
    <2>3. Fading
      BY <2>1, <2>2, FadeStep
    <2>. QED BY <2>1, <2>3, Steps DEF Asking, Trusted
  <1>11. ASSUME Lock \/ Crash \/ ExpiryFails
         PROVE  Promise!Next
    <2>1. /\ UNCHANGED <<now, boot>> /\ asked' \subseteq asked /\ up
          /\ wsRow' = NoWs \/ wsRow' = wsRow
      BY <1>11 DEF Lock, Crash, ExpiryFails, Down
    <2>2. \A k \in Ids : sess'[k].status = "active" => sess'[k] = sess[k]
      <3>1. CASE Lock
        BY <1>0, <3>1 DEF Lock, Session
      <3>2. CASE Crash \/ ExpiryFails
        BY <3>2 DEF Crash, ExpiryFails
      <3>. QED BY <1>11, <3>1, <3>2
    <2>3. Fading
      BY <2>1, <2>2, FadeStep, SoundNone
    <2>. QED BY <2>1, <2>3, Steps DEF Asking, Trusted
  <1>12. ASSUME Start
         PROVE  Promise!Next
    <2>1. UNCHANGED <<now, asked>> /\ boot' = boot + 1 /\ boot \in Nat
      BY <1>0, <1>12 DEF Start, TypeOK
    <2>2. \A k \in Ids : sess'[k].boot = sess[k].boot /\ sess[k].boot <= boot /\ sess[k].boot \in Nat
      BY <1>0, <1>12 DEF Start, Session, OneAsking
    <2>3. Serving' = {}
      BY <2>1, <2>2 DEF Serving, Riding
    <2>4. Win' = Win \/ Win' = {}
      <3>1. \/ wsRow' = NoWs
            \/ /\ wsRow'.id = wsRow.id /\ wsRow'.started = wsRow.started
               /\ wsRow'.expires = wsRow.expires
        BY <1>0, <1>12, ObservedType DEF Start, TypeOK
      <3>. QED BY <3>1, SoundNone DEF Win
    <2>5. Fading
      BY <2>3, <2>4 DEF Fading
    <2>. QED BY <2>1, <2>5, Steps DEF Asking, Trusted
  <1>13. ASSUME Tick \/ StepBack
         PROVE  Promise!Next
    <2>1. UNCHANGED <<up, boot, ws, wsRow, sess, asked>>
      BY <1>13 DEF Tick, StepBack
    <2>2. now' \in Nat
      BY DEF IInv, TypeOK
    <2>. QED BY <2>1, <2>2, Steps DEF Win, Asking, Serving, Riding, Trusted
  <1>14. CASE UNCHANGED vars
    BY <1>14 DEF vars, Promise!vars, Riding, Trusted
  <1>15. CASE \E i \in Ids : OnActivation(i)
    BY <1>1, <1>2, <1>3, <1>4, <1>5, <1>6, <1>7, <1>15 DEF OnActivation
  <1>. QED BY <1>8, <1>9, <1>10, <1>11, <1>12, <1>13, <1>14, <1>15 DEF Next

\* The broker keeps the promise of OwnerWindow, in every run and for every value
\* of the bounds, through crashes, failing commits and steps of the clock.
THEOREM Implements == Spec => KeepsPromise
  <1>1. Init => Promise!Init
    BY DEF Init, NoWs, Free, Promise!Init, Riding
  <1>. QED BY <1>1, StepPromised, Inductive, AsksOnce, PTL DEF Spec, KeepsPromise, Promise!Spec
=============================================================================
