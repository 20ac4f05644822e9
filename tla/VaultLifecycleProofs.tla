------------------------ MODULE VaultLifecycleProofs ------------------------
(***************************************************************************)
(* Proofs about VaultLifecycle, for every set of connections, every finite *)
(* set of prompts, and all values of the bounds.                           *)
(***************************************************************************)
EXTENDS VaultLifecycle, FiniteSetTheorems, TLAPS

-----------------------------------------------------------------------------
(* The inductive invariant.  A prompt outlives many requests; what makes its *)
(* answer safe is what cannot have changed while it was open.               *)

Serving == SessionKinds \cup {"activation", "lock"}

\* What each open prompt was asked under is still so.
PromptsHold ==
    \A p \in Slots : ~Is(p, {"none"}) =>
        /\ up /\ prompts[p].boot = bootId
        /\ Is(p, Serving) => open
        /\ Is(p, {"unlock"}) => loaded /\ state = "locked"
        /\ Is(p, Recovery) => ~loaded /\ row.state # "locked"

SessionsHold == \A s \in sessions : s.boot = bootId /\ open

\* What the worker knows of the lifecycle, and what it may do with the vault.
MemoryHolds ==
    /\ open => loaded /\ state = "unlocked" /\ granted \subseteq {bootId}
    /\ loaded => /\ up /\ row = Row(state, epoch)
                 /\ vault = "encrypted" /\ marker = "none"
    /\ loaded /\ state = "unlocked" => epoch = bootId
    /\ ~loaded => state = "unlocked"
    /\ ~loaded \/ state = "unlocked" => deferred = 0

\* What is on the disk, and how it relates to the boot and the last epoch drawn.
DiskHolds ==
    /\ row.state = "locked" => granted = {} /\ marker = "none" /\ vault = "encrypted"
    /\ vault # "encrypted" => row = NoRow
    /\ up /\ ~open => bootId \notin granted
    /\ up /\ ~loaded => row.epoch < bootId
    /\ up => bootId # 0
    /\ bootId <= fresh /\ row.epoch <= fresh
    /\ \A e \in granted : e <= fresh

IInv == /\ TypeOK /\ PromptsHold /\ SessionsHold /\ MemoryHolds /\ DiskHolds
        /\ PendingIsAsked
        /\ told + deferred + lost = refused

-----------------------------------------------------------------------------
(* The operators the handlers are built from.                              *)

Ops == Lifecycle \cup Recovery \cup SessionKinds \cup {"activation"}

\* An open prompt has the fields of one.
LEMMA PromptFields ==
    ASSUME TypeOK, NEW p \in Slots, ~Is(p, {"none"})
    PROVE  /\ prompts[p] \in Prompt /\ prompts[p].op \in Ops
           /\ prompts[p].conn \in Conns
           /\ prompts[p].boot \in Epoch /\ prompts[p].epoch \in Epoch
  BY DEF TypeOK, Is, Nothing, Prompt, Ops, Epoch

\* What was asked of the prompts that are left when some are dropped.
LEMMA WithoutPrompts ==
    ASSUME TypeOK, NEW gone
    PROVE  /\ Without(gone) \in [Slots -> Prompt \cup {Nothing}]
           /\ \A q \in Slots : Without(gone)[q] = IF q \in gone THEN Nothing ELSE prompts[q]
  BY DEF Without, TypeOK

\* Dropping prompts leaves prompts.
LEMMA DroppedType ==
    ASSUME TypeOK, NEW gone, Dropped(gone)
    PROVE  /\ prompts' \in [Slots -> Prompt \cup {Nothing}] /\ late' \subseteq Slots
           /\ pendingLifecycle' \in Slots \cup {NoSlot}
           /\ pendingRecovery' \in Slots \cup {NoSlot}
           /\ \A q \in Slots : prompts'[q] = IF q \in gone THEN Nothing ELSE prompts[q]
  BY WithoutPrompts DEF Dropped, Still, TypeOK

\* A prompt that is put is the only new one.
LEMMA PutType ==
    ASSUME TypeOK, NEW gone, NEW p \in Slots, NEW c \in Conns, NEW op \in Ops, NEW e \in Epoch
    PROVE  /\ Put(Without(gone), p, c, op, e) \in [Slots -> Prompt \cup {Nothing}]
           /\ Put(Without(gone), p, c, op, e)[p] =
                 [op |-> op, conn |-> c, boot |-> bootId, epoch |-> e]
           /\ \A q \in Slots \ {p} :
                 Put(Without(gone), p, c, op, e)[q] = IF q \in gone THEN Nothing ELSE prompts[q]
  <1>1. [op |-> op, conn |-> c, boot |-> bootId, epoch |-> e] \in Prompt
    BY DEF TypeOK, Prompt, Ops, Epoch
  <1>. QED BY <1>1, WithoutPrompts DEF Put

\* A row names a state and an epoch.
LEMMA RowFields ==
    ASSUME NEW s, NEW e
    PROVE  Row(s, e).state = s /\ Row(s, e).epoch = e
  BY DEF Row

LEMMA RowType ==
    ASSUME NEW s \in {"none", "unlocked", "locked"}, NEW e \in Epoch
    PROVE  Row(s, e) \in [state : {"none", "unlocked", "locked"}, epoch : Epoch]
  BY DEF Row

\* #loadOrInitializeLifecycleState leaves the memory as the row has it.
LEMMA LoadType ==
    ASSUME TypeOK, Load
    PROVE  /\ row' \in [state : {"none", "unlocked", "locked"}, epoch : Epoch]
           /\ state' \in {"unlocked", "locked"} /\ epoch' \in Epoch
           /\ loaded' = TRUE /\ vault' = "encrypted" /\ marker' = marker
           /\ Known.state = state' /\ Known.epoch = epoch'
           /\ loaded => row' = row /\ state' = state /\ epoch' = epoch
           /\ ~loaded /\ row.state = "locked" =>
                 row' = row /\ state' = "locked" /\ epoch' = row.epoch
           /\ ~loaded /\ row.state # "locked" =>
                 /\ row' = Row("unlocked", bootId)
                 /\ state' = "unlocked" /\ epoch' = bootId
  <1>1. /\ row' = IF loaded THEN row ELSE Read
        /\ state' = Known.state /\ epoch' = Known.epoch
        /\ loaded' = TRUE /\ vault' = "encrypted" /\ marker' = marker
    BY DEF Load
  <1>2. CASE loaded
    BY <1>1, <1>2, RowFields DEF Known, TypeOK
  <1>3. CASE ~loaded /\ row.state = "locked"
    BY <1>1, <1>3 DEF Known, Read, TypeOK
  <1>4. CASE ~loaded /\ row.state # "locked"
    BY <1>1, <1>4, RowFields, RowType DEF Known, Read, TypeOK
  <1>. QED BY <1>1, <1>2, <1>3, <1>4

\* Opening the vault ends what earlier boots were granted.
LEMMA OpenedType ==
    ASSUME TypeOK, NEW b \in Epoch
    PROVE  Opened(b) \subseteq granted /\ Opened(b) \subseteq Epoch
  BY DEF Opened, TypeOK

\* The outcomes of unlocking are counted: each is told, waits or is lost.
LEMMA DeferringCounts ==
    ASSUME TypeOK, NEW n \in Nat, NEW k \in Nat, k <= deferred, Deferring(n, k)
    PROVE  /\ deferred' \in 0 .. MaxDeferred
           /\ refused' \in Nat /\ told' \in Nat /\ lost' \in Nat
           /\ told + deferred + lost = refused => told' + deferred' + lost' = refused'
           /\ n = 0 => refused' = refused /\ deferred' = deferred - k
  <1>. DEFINE kept == deferred - k + n
  <1>1. /\ deferred \in Nat /\ MaxDeferred \in Nat /\ kept \in Nat /\ deferred <= MaxDeferred
        /\ refused \in Nat /\ told \in Nat /\ lost \in Nat
    BY ConstantsAssumption DEF TypeOK, ConstantsAssumption
  <1>2. /\ refused' = refused + n /\ told' = told + k
        /\ deferred' = IF kept > MaxDeferred THEN MaxDeferred ELSE kept
        /\ lost' = IF kept > MaxDeferred THEN lost + kept - MaxDeferred ELSE lost
    BY DEF Deferring
  <1>. QED BY <1>1, <1>2

\* How many outcomes a set of prompts has.
LEMMA UnlocksCount ==
    ASSUME NEW ps \in SUBSET Slots
    PROVE  /\ Unlocks(ps) \in Nat
           /\ (\A p \in ps : ~Is(p, {"unlock"})) => Unlocks(ps) = 0
  <1>. DEFINE us == {p \in ps : Is(p, {"unlock"})}
  <1>1. us \in SUBSET Slots /\ IsFiniteSet(Slots)
    BY ConstantsAssumption DEF ConstantsAssumption
  <1>2. IsFiniteSet(us)
    BY <1>1, FS_Subset
  <1>3. Cardinality(us) \in Nat
    BY <1>2, FS_CardinalityType
  <1>4. (\A p \in ps : ~Is(p, {"unlock"})) => us = {}
    OBVIOUS
  <1>. QED BY <1>3, <1>4, FS_EmptySet DEF Unlocks

-----------------------------------------------------------------------------
(* Types.                                                                  *)

\* A request that loads the lifecycle, and may open the vault, keeps the types
\* of what it changes.
LEMMA ServedType ==
    ASSUME TypeOK, Load, OpenUp \/ UNCHANGED <<open, granted>>
    PROVE  /\ row' \in [state : {"none", "unlocked", "locked"}, epoch : Epoch]
           /\ state' \in {"unlocked", "locked"} /\ epoch' \in Epoch
           /\ loaded' \in BOOLEAN /\ open' \in BOOLEAN
           /\ vault' \in {"absent", "plaintext", "encrypted"}
           /\ marker' \in {"none", "migration", "restore"}
           /\ granted' \subseteq Epoch
  BY LoadType, OpenedType DEF OpenUp, TypeOK

\* The worker is first started on a disk of the types.
LEMMA LifecycleInitType == Init => TypeOK
  <1>. SUFFICES ASSUME Init PROVE TypeOK
    OBVIOUS
  <1>1. 0 \in Epoch /\ 1 \in Epoch /\ 0 \in 0 .. MaxDeferred
    BY ConstantsAssumption DEF Epoch, ConstantsAssumption
  <1>2. row \in [state : {"none", "unlocked", "locked"}, epoch : Epoch]
    BY <1>1, RowType DEF Init, NoRow
  <1>3. prompts \in [Slots -> Prompt \cup {Nothing}]
    BY DEF Init
  <1>. QED BY <1>1, <1>2, <1>3 DEF Init, TypeOK

\* The worker's state and the disk keep their types.
THEOREM LifecycleTypeCorrect == Spec => []TypeOK
  <1>1. Init => TypeOK
    BY LifecycleInitType
  <1>2. TypeOK /\ [Next]_vars => TypeOK'
    <2>. SUFFICES ASSUME TypeOK, [Next]_vars
                  PROVE  TypeOK'
      OBVIOUS
    <2>. USE DEF disk, memory, audit
    <2>0. /\ 0 \in Epoch /\ MaxDeferred \in Nat /\ MaxEpoch \in Nat /\ 0 \in 0 .. MaxDeferred
          /\ deferred \in Nat /\ deferred <= MaxDeferred
          /\ \A f \in Epoch : f < MaxEpoch => f + 1 \in Epoch
      BY ConstantsAssumption DEF TypeOK, Epoch, ConstantsAssumption
    <2>1. ASSUME NEW e \in Epoch
          PROVE  /\ Row("unlocked", e) \in [state : {"none", "unlocked", "locked"}, epoch : Epoch]
                 /\ Row("locked", e) \in [state : {"none", "unlocked", "locked"}, epoch : Epoch]
                 /\ NoRow \in [state : {"none", "unlocked", "locked"}, epoch : Epoch]
      BY <2>0, RowType DEF NoRow
    <2>2. CASE Start
      BY <2>0, <2>2 DEF Start, TypeOK
    <2>3. ASSUME Down, row' \in [state : {"none", "unlocked", "locked"}, epoch : Epoch],
                 granted' \subseteq Epoch,
                 vault' \in {"absent", "plaintext", "encrypted"},
                 marker' \in {"none", "migration", "restore"}
          PROVE  TypeOK'
      <3>1. lost' \in Nat
        BY <2>0, <2>3 DEF Down, TypeOK
      <3>2. prompts' \in [Slots -> Prompt \cup {Nothing}]
        BY <2>3 DEF Down
      <3>. QED BY <2>0, <2>3, <3>1, <3>2 DEF Down, TypeOK
    <2>4. CASE Crash
      BY <2>3, <2>4 DEF Crash, TypeOK
    <2>5. CASE SessionEnds \/ \E p \in Slots : Expire(p)
      BY <2>5 DEF SessionEnds, Expire, TypeOK
    <2>6. CASE Refused
      BY <2>6, DroppedType DEF Refused, Pruned, TypeOK
    <2>7. CASE Status \/ Serve
      BY <2>7, ServedType, DroppedType DEF Status, Serve, Served, Pruned, TypeOK
    <2>8. CASE SetRoutineAuthentication
      BY <2>8, ServedType, DroppedType DEF SetRoutineAuthentication, Served, TypeOK
    <2>9. ASSUME NEW p \in Slots, NEW c \in Conns, NEW op \in SessionKinds \cup {"activation"},
                 AskFor(op, c, p)
          PROVE  TypeOK'
      <3>1. /\ prompts' = Put(Without(late), p, c, op, bootId) /\ late' = {}
            /\ pendingLifecycle' \in Slots \cup {NoSlot}
            /\ pendingRecovery' \in Slots \cup {NoSlot}
            /\ sessions' \subseteq Session
            /\ Load /\ OpenUp /\ UNCHANGED <<up, bootId, fresh, deferred, refused, told, lost>>
        BY <2>9 DEF AskFor, Served, Still, TypeOK
      <3>2. prompts' \in [Slots -> Prompt \cup {Nothing}]
        BY <3>1, PutType DEF Ops, TypeOK
      <3>. QED BY <3>1, <3>2, ServedType DEF TypeOK
    <2>10. ASSUME NEW p \in Slots, NEW c \in Conns, NEW op \in Lifecycle, BeginTransition(op, c, p)
           PROVE  TypeOK'
      <3>1. PICK now \in {late, late \cup {pendingLifecycle}} :
               LET gone == now \cap Slots
               IN /\ prompts' = Put(Without(gone), p, c, op, Known.epoch) /\ late' = {}
                  /\ pendingLifecycle' = p
                  /\ pendingRecovery' = Still(pendingRecovery, gone)
                  /\ Outcome(gone \ late)
                  /\ Load /\ (OpenUp \/ UNCHANGED <<open, granted>>)
                  /\ UNCHANGED <<up, bootId, fresh, sessions>>
        BY <2>10 DEF BeginTransition
      <3>2. prompts' \in [Slots -> Prompt \cup {Nothing}]
        <4>1. Known.epoch \in Epoch /\ op \in Ops
          BY <3>1, LoadType DEF Ops
        <4>. QED BY <3>1, <4>1, PutType, ZenonT(30)
      <3>3. pendingRecovery' \in Slots \cup {NoSlot}
        BY <3>1 DEF Still, TypeOK
      <3>4. /\ deferred' \in 0 .. MaxDeferred
            /\ refused' \in Nat /\ told' \in Nat /\ lost' \in Nat
        <4>1. Unlocks((now \cap Slots) \ late) \in Nat
          BY UnlocksCount
        <4>. QED BY <2>0, <3>1, <4>1, DeferringCounts DEF Outcome
      <3>. QED BY <3>1, <3>2, <3>3, <3>4, ServedType DEF TypeOK
    <2>11. ASSUME NEW p \in Slots, NEW c \in Conns, NEW op \in Recovery, BeginRecovery(op, c, p)
           PROVE  TypeOK'
      <3>1. prompts' \in [Slots -> Prompt \cup {Nothing}]
        BY <2>11, PutType DEF BeginRecovery, Ops, TypeOK
      <3>. QED BY <2>11, <3>1 DEF BeginRecovery, TypeOK
    <2>12. ASSUME NEW p \in Slots, Refuse(p)
           PROVE  TypeOK'
      <3>1. /\ deferred' \in 0 .. MaxDeferred
            /\ refused' \in Nat /\ told' \in Nat /\ lost' \in Nat
        BY <2>0, <2>12, UnlocksCount, DeferringCounts DEF Refuse, Outcome
      <3>2. sessions' \subseteq Session
        BY <2>12 DEF Refuse, TypeOK
      <3>. QED BY <2>12, <3>1, <3>2, DroppedType DEF Refuse, TypeOK
    <2>13. ASSUME NEW p \in Slots, ApproveSession(p)
           PROVE  TypeOK'
      <3>1. /\ Dropped({p}) /\ Is(p, SessionKinds)
            /\ open' \in BOOLEAN /\ granted' \subseteq Epoch
            /\ UNCHANGED <<vault, marker, row, state, epoch, loaded, up, bootId, fresh,
                           deferred, refused, told, lost>>
        BY <2>13, OpenedType DEF ApproveSession, Approved, Claim, UseOpen, OpenUp, TypeOK
      <3>2. [kind |-> prompts[p].op, conn |-> prompts[p].conn, boot |-> bootId] \in Session
        BY <3>1, PromptFields DEF Session, Is, SessionKinds, TypeOK, Epoch
      <3>3. sessions' \subseteq Session
        BY <2>13, <3>2 DEF ApproveSession, TypeOK
      <3>. QED BY <3>1, <3>3, DroppedType DEF TypeOK
    <2>14. ASSUME NEW p \in Slots, ApproveActivation(p)
           PROVE  TypeOK'
      BY <2>14, DroppedType, OpenedType DEF ApproveActivation, Approved, Claim, TypeOK
    <2>15. ASSUME NEW p \in Slots, Lock(p)
           PROVE  TypeOK'
      <3>1. prompts' \in [Slots -> Prompt \cup {Nothing}]
        BY <2>15 DEF Lock, LockClears
      <3>. QED BY <2>1, <2>15, <3>1 DEF Lock, LockClears, TypeOK
    <2>16. ASSUME NEW p \in Slots, Unlock(p)
           PROVE  TypeOK'
      <3>1. NextEpoch \in Epoch
        BY <2>0, <2>16 DEF Unlock, NextEpoch, TypeOK
      <3>2. /\ deferred' \in 0 .. MaxDeferred
            /\ refused' \in Nat /\ told' \in Nat /\ lost' \in Nat
        BY <2>0, <2>16, DeferringCounts DEF Unlock
      <3>3. row' \in [state : {"none", "unlocked", "locked"}, epoch : Epoch]
        BY <2>1, <2>16, <3>1 DEF Unlock, UnlockedRow
      <3>4. granted' \subseteq Epoch /\ fresh' \in Epoch
        BY <2>16, <3>1, OpenedType DEF Unlock, NextEpoch
      <3>. QED BY <2>16, <3>1, <3>2, <3>3, <3>4, DroppedType DEF Unlock, Approved, Claim, TypeOK
    <2>17. ASSUME NEW p \in Slots, NEW k \in 0 .. MaxDeferred, UnlockFails(p, k)
           PROVE  TypeOK'
      <3>1. NextEpoch \in Epoch /\ fresh' = NextEpoch
        BY <2>0, <2>17 DEF UnlockFails, NextEpoch, TypeOK
      <3>2. /\ deferred' \in 0 .. MaxDeferred
            /\ refused' \in Nat /\ told' \in Nat /\ lost' \in Nat
        BY <2>0, <2>17, DeferringCounts DEF UnlockFails, Flushed
      <3>3. granted' \subseteq Epoch
        BY <2>17, <3>1, OpenedType DEF UnlockFails, TypeOK
      <3>. QED BY <2>17, <3>1, <3>2, <3>3, DroppedType DEF UnlockFails, Approved, Claim, TypeOK
    <2>18. ASSUME NEW p \in Slots, Recover(p) \/ RestoreStays(p)
           PROVE  TypeOK'
      <3>1. bootId \in Epoch
        BY DEF TypeOK
      <3>2. Dropped({p})
        BY <2>18 DEF Recover, RestoreStays, Approved, Claim
      <3>3. /\ prompts' \in [Slots -> Prompt \cup {Nothing}] /\ late' \subseteq Slots
            /\ pendingLifecycle' \in Slots \cup {NoSlot}
            /\ pendingRecovery' \in Slots \cup {NoSlot}
        BY <3>2, DroppedType
      <3>4. CASE Recover(p)
        BY <2>1, <3>1, <3>3, <3>4 DEF Recover, TypeOK
      <3>5. CASE RestoreStays(p)
        BY <2>1, <3>3, <3>5 DEF RestoreStays, TypeOK
      <3>. QED BY <2>18, <3>4, <3>5
    <2>19. ASSUME NEW p \in Slots, RecoverFails(p)
           PROVE  TypeOK'
      <3>1. bootId \in Epoch
        BY DEF TypeOK
      <3>2. MarkerOf(prompts[p].op) \in {"none", "migration", "restore"}
        BY DEF MarkerOf
      <3>3. /\ row' \in [state : {"none", "unlocked", "locked"}, epoch : Epoch]
            /\ vault' \in {"absent", "plaintext", "encrypted"}
            /\ marker' \in {"none", "migration", "restore"}
        BY <2>1, <2>19, <3>1, <3>2 DEF RecoverFails, TypeOK
      <3>. QED BY <2>3, <2>19, <3>3 DEF RecoverFails
    <2>20. ASSUME NEW c \in Conns, Disconnect(c)
           PROVE  TypeOK'
      <3>. DEFINE its == {p \in Slots : ~Is(p, {"none"}) /\ prompts[p].conn = c}
      <3>1. /\ deferred' \in 0 .. MaxDeferred
            /\ refused' \in Nat /\ told' \in Nat /\ lost' \in Nat
        <4>1. Unlocks(its) \in Nat /\ Outcome(its)
          BY <2>20, UnlocksCount DEF Disconnect
        <4>. QED BY <2>0, <4>1, DeferringCounts DEF Outcome
      <3>2. Dropped(its) /\ sessions' \subseteq Session /\ granted' \subseteq Epoch
        BY <2>20 DEF Disconnect, TypeOK
      <3>. QED BY <2>20, <3>1, <3>2, DroppedType DEF Disconnect, TypeOK
    <2>21. CASE UNCHANGED vars
      BY <2>21 DEF vars, TypeOK
    <2>22. CASE \E p \in Slots : Answer(p)
      BY <2>12, <2>13, <2>14, <2>15, <2>16, <2>17, <2>18, <2>19, <2>22 DEF Answer
    <2>. QED BY <2>2, <2>4, <2>5, <2>6, <2>7, <2>8, <2>9, <2>10, <2>11, <2>20, <2>21, <2>22 DEF Next
  <1>. QED BY <1>1, <1>2, PTL DEF Spec

-----------------------------------------------------------------------------
(* The steps, by what they do to the invariant.                            *)

\* Nothing is asked where there is no prompt.
LEMMA NothingAsked == Nothing.op = "none"
  BY DEF Nothing

\* The pending ids follow the prompts that are dropped.
LEMMA DroppedPending ==
    ASSUME TypeOK, PendingIsAsked, NEW gone, Dropped(gone)
    PROVE  PendingIsAsked'
  <1>1. NoSlot \notin Slots
    BY ConstantsAssumption DEF ConstantsAssumption
  <1>2. \A q \in Slots : prompts'[q] = IF q \in gone THEN Nothing ELSE prompts[q]
    BY DroppedType
  <1>. QED BY <1>1, <1>2, NothingAsked
           DEF PendingIsAsked, Dropped, Still, Is, Lifecycle, Recovery

\* Prompts that are left hold as long as what they were asked under is left.
LEMMA PromptsShrink ==
    ASSUME TypeOK, PromptsHold, up' = up, bootId' = bootId,
           open => open',
           loaded /\ state = "locked" => loaded' /\ state' = "locked",
           \A q \in Slots : \/ prompts'[q] = Nothing
                            \/ /\ prompts'[q] = prompts[q]
                               /\ Is(q, Recovery) => ~loaded' /\ row'.state # "locked"
    PROVE  PromptsHold'
  BY NothingAsked DEF PromptsHold, Is

\* A request that is served, or only reads the lifecycle, leaves memory and disk
\* in agreement.
LEMMA ServedStep ==
    ASSUME IInv, Admitted, Load, UNCHANGED <<up, bootId, fresh>>,
           \/ Known.state = "unlocked" /\ OpenUp
           \/ UNCHANGED <<open, granted>>,
           deferred' = deferred \/ state' = "locked"
    PROVE  /\ MemoryHolds' /\ DiskHolds' /\ (open => open')
           /\ loaded /\ state = "locked" => loaded' /\ state' = "locked"
  <1>1. TypeOK /\ up /\ marker = "none"
    BY DEF IInv, Admitted
  <1>2. bootId \in Nat /\ fresh \in Nat /\ row.epoch \in Nat /\ granted \subseteq Nat
        /\ bootId \in Epoch
    BY <1>1 DEF TypeOK, Epoch
  <1>3. /\ loaded' = TRUE /\ vault' = "encrypted" /\ marker' = "none"
        /\ Known.state = state'
        /\ loaded => row' = row /\ state' = state /\ epoch' = epoch
        /\ ~loaded /\ row.state = "locked" =>
              row' = row /\ state' = "locked" /\ epoch' = row.epoch
        /\ ~loaded /\ row.state # "locked" =>
              /\ row' = Row("unlocked", bootId)
              /\ state' = "unlocked" /\ epoch' = bootId
    BY <1>1, LoadType
  <1>4. row' = Row(state', epoch') /\ (state' = "unlocked" => epoch' = bootId)
    <2>1. CASE loaded
      BY <1>3, <2>1 DEF IInv, MemoryHolds
    <2>2. CASE ~loaded /\ row.state = "locked"
      BY <1>1, <1>3, <2>2 DEF TypeOK, Row
    <2>3. CASE ~loaded /\ row.state # "locked"
      BY <1>3, <2>3
    <2>. QED BY <2>1, <2>2, <2>3
  <1>5. /\ row'.state = state' /\ row'.epoch = epoch'
        /\ row'.epoch <= fresh
        /\ row'.state = "locked" => row.state = "locked"
    BY <1>1, <1>2, <1>3, <1>4, RowFields DEF IInv, DiskHolds, TypeOK
  <1>6. /\ granted' \subseteq granted
        /\ open' => \/ open /\ granted' = granted
                    \/ state' = "unlocked" /\ granted' \subseteq {bootId}
        /\ open => open'
        /\ ~open' => ~open
    BY <1>3 DEF OpenUp, Opened
  <1>7. open => loaded /\ state = "unlocked" /\ granted \subseteq {bootId}
    BY DEF IInv, MemoryHolds
  <1>8. MemoryHolds'
    <2>1. open' => state' = "unlocked" /\ granted' \subseteq {bootId}
      BY <1>3, <1>6, <1>7
    <2>2. state' = "unlocked" => deferred' = 0
      BY <1>3 DEF IInv, MemoryHolds
    <2>. QED BY <1>1, <1>3, <1>4, <2>1, <2>2 DEF MemoryHolds
  <1>9. DiskHolds'
    BY <1>1, <1>2, <1>3, <1>5, <1>6 DEF IInv, DiskHolds
  <1>. QED BY <1>3, <1>6, <1>8, <1>9

\* The memory of a worker that is gone agrees with any disk a commit can leave.
LEMMA DownStep ==
    ASSUME IInv, up, Down, granted' \subseteq granted,
           row'.state = "locked" =>
               granted' = {} /\ marker' = "none" /\ vault' = "encrypted",
           vault' # "encrypted" => row' = NoRow,
           row'.epoch <= fresh
    PROVE  /\ PromptsHold' /\ SessionsHold' /\ MemoryHolds' /\ DiskHolds' /\ PendingIsAsked'
           /\ told + deferred + lost = refused => told' + deferred' + lost' = refused'
  <1>1. /\ fresh \in Nat /\ granted \subseteq Nat /\ deferred \in Nat
        /\ told \in Nat /\ lost \in Nat
    BY ConstantsAssumption DEF IInv, TypeOK, Epoch, ConstantsAssumption
  <1>2. NoSlot \notin Slots
    BY ConstantsAssumption DEF ConstantsAssumption
  <1>3. \A q \in Slots : prompts'[q] = Nothing
    BY DEF Down
  <1>4. PromptsHold' /\ PendingIsAsked'
    BY <1>2, <1>3, NothingAsked
       DEF Down, PromptsHold, PendingIsAsked, Is, Lifecycle, Recovery
  <1>5. SessionsHold' /\ MemoryHolds'
    BY DEF Down, SessionsHold, MemoryHolds
  <1>6. DiskHolds'
    BY <1>1 DEF Down, DiskHolds, IInv
  <1>7. told + deferred + lost = refused => told' + deferred' + lost' = refused'
    BY <1>1 DEF Down
  <1>. QED BY <1>4, <1>5, <1>6, <1>7
\* An admitted request has dropped any recovery that was asked for.
LEMMA AdmittedDrops ==
    ASSUME TypeOK, PendingIsAsked, Admitted, NEW q \in Slots, Is(q, Recovery)
    PROVE  q \in late
  <1>1. NoSlot \notin Slots
    BY ConstantsAssumption DEF ConstantsAssumption
  <1>. QED BY <1>1 DEF PendingIsAsked, Admitted, Still

\* Outcomes are counted in the locked state only.
LEMMA OutcomeCounts ==
    ASSUME IInv, NEW ps \in SUBSET Slots, Outcome(ps)
    PROVE  /\ told' + deferred' + lost' = refused'
           /\ deferred' = deferred \/ (loaded /\ state = "locked")
  <1>1. Unlocks(ps) \in Nat /\ 0 <= deferred /\ deferred \in Nat
    BY ConstantsAssumption, UnlocksCount DEF IInv, TypeOK, ConstantsAssumption
  <1>2. told' + deferred' + lost' = refused'
    BY <1>1, DeferringCounts DEF Outcome, IInv
  <1>3. CASE \A q \in ps : ~Is(q, {"unlock"})
    <2>1. Unlocks(ps) = 0
      BY <1>3, UnlocksCount
    <2>. QED BY <1>1, <1>2, <2>1, DeferringCounts DEF Outcome, IInv
  <1>4. CASE \E q \in ps : Is(q, {"unlock"})
    BY <1>2, <1>4 DEF IInv, PromptsHold, Is
  <1>. QED BY <1>3, <1>4

\* While the question is to unlock, it is the only one, and nobody holds anything.
LEMMA UnlockIsAlone ==
    ASSUME IInv, NEW p \in Slots, Is(p, {"unlock"})
    PROVE  /\ loaded /\ state = "locked" /\ row.state = "locked" /\ row.epoch = epoch
           /\ ~open /\ granted = {} /\ sessions = {} /\ up
           /\ marker = "none" /\ vault = "encrypted"
           /\ \A q \in Slots \ {p} : prompts[q] = Nothing
  <1>1. loaded /\ state = "locked" /\ up
    BY DEF IInv, PromptsHold, Is
  <1>2. row.state = "locked" /\ row.epoch = epoch /\ ~open
        /\ marker = "none" /\ vault = "encrypted"
    BY <1>1, RowFields DEF IInv, MemoryHolds
  <1>3. granted = {} /\ sessions = {}
    BY <1>2 DEF IInv, DiskHolds, SessionsHold
  <1>4. \A q \in Slots \ {p} : ~Is(q, Lifecycle)
    BY DEF IInv, PendingIsAsked, Is, Lifecycle
  <1>5. \A q \in Slots \ {p} : Is(q, {"none"})
    BY <1>1, <1>2, <1>4, PromptFields
       DEF IInv, PromptsHold, Is, Serving, Lifecycle, Recovery, SessionKinds, Ops
  <1>6. \A q \in Slots : Is(q, {"none"}) => prompts[q] = Nothing
    BY DEF IInv, TypeOK, Is, Prompt, Lifecycle, Recovery, SessionKinds
  <1>. QED BY <1>1, <1>2, <1>3, <1>5, <1>6

\* So is a recovery.
LEMMA RecoveryIsAlone ==
    ASSUME IInv, NEW p \in Slots, Is(p, Recovery)
    PROVE  /\ ~loaded /\ ~open /\ sessions = {} /\ up /\ deferred = 0 /\ state = "unlocked"
           /\ row.state # "locked"
           /\ \A q \in Slots \ {p} : prompts[q] = Nothing
  <1>1. ~loaded /\ up /\ row.state # "locked"
    BY DEF IInv, PromptsHold, Is, Recovery
  <1>2. ~open /\ sessions = {} /\ deferred = 0 /\ state = "unlocked"
    BY <1>1 DEF IInv, MemoryHolds, SessionsHold
  <1>4. \A q \in Slots \ {p} : ~Is(q, Recovery)
    BY DEF IInv, PendingIsAsked, Is, Recovery
  <1>5. \A q \in Slots \ {p} : Is(q, {"none"})
    BY <1>1, <1>2, <1>4, PromptFields
       DEF IInv, PromptsHold, Is, Serving, Lifecycle, Recovery, SessionKinds, Ops
  <1>6. \A q \in Slots : Is(q, {"none"}) => prompts[q] = Nothing
    BY DEF IInv, TypeOK, Is, Prompt, Lifecycle, Recovery, SessionKinds
  <1>. QED BY <1>1, <1>2, <1>5, <1>6
-----------------------------------------------------------------------------
(* The invariant is inductive.                                             *)

\* It holds of every vault the worker may find when it is first started.
LEMMA IInvInit == Init => IInv
  <1>. SUFFICES ASSUME Init, TypeOK PROVE IInv
    BY LifecycleInitType
  <1>1. NoSlot \notin Slots
    BY ConstantsAssumption DEF ConstantsAssumption
  <1>2. PromptsHold /\ PendingIsAsked /\ SessionsHold
    BY <1>1, NothingAsked DEF Init, PromptsHold, PendingIsAsked, SessionsHold, Is,
                              Lifecycle, Recovery
  <1>3. MemoryHolds /\ DiskHolds
    BY RowFields DEF Init, MemoryHolds, DiskHolds, NoRow
  <1>. QED BY <1>2, <1>3 DEF Init, IInv

\* The requests of a connection.
LEMMA RequestsKeep ==
    ASSUME IInv, TypeOK',
           \/ Refused \/ Status \/ Serve \/ SetRoutineAuthentication
           \/ \E p \in Slots, c \in Conns :
                \/ \E op \in SessionKinds \cup {"activation"} : AskFor(op, c, p)
                \/ \E op \in Lifecycle : BeginTransition(op, c, p)
                \/ \E op \in Recovery : BeginRecovery(op, c, p)
    PROVE  IInv'
  <1>. USE DEF disk, memory, audit
  <1>0. /\ TypeOK /\ NoSlot \notin Slots
        /\ \A q \in Slots : prompts[q] = Nothing <=> Is(q, {"none"})
    BY ConstantsAssumption, NothingAsked
       DEF IInv, TypeOK, ConstantsAssumption, Is, Prompt, Lifecycle, Recovery, SessionKinds
  <1>1. CASE Refused
    <2>1. PendingIsAsked'
      BY <1>0, <1>1, DroppedPending DEF Refused, Pruned, IInv
    <2>2. /\ UNCHANGED <<vault, marker, row, granted, state, epoch, loaded, up, bootId, fresh,
                         open, sessions, deferred, refused, told, lost>>
          /\ Dropped(late)
      BY <1>1 DEF Refused, Pruned
    <2>3. PromptsHold'
      BY <1>0, <2>2, DroppedType, PromptsShrink DEF IInv, PromptsHold, Is, Recovery
    <2>. QED BY <2>1, <2>2, <2>3 DEF IInv, SessionsHold, MemoryHolds, DiskHolds
  <1>2. ASSUME Admitted, Load, NEW gone \in SUBSET Slots, Dropped(gone), late \subseteq gone,
               UNCHANGED <<up, bootId, fresh, deferred, refused, told, lost>>,
               sessions' \subseteq sessions,
               \/ Known.state = "unlocked" /\ OpenUp
               \/ UNCHANGED <<open, granted>>
        PROVE  IInv'
    <2>1. /\ MemoryHolds' /\ DiskHolds' /\ (open => open')
          /\ loaded /\ state = "locked" => loaded' /\ state' = "locked"
      BY <1>2, ServedStep
    <2>2. PendingIsAsked'
      BY <1>0, <1>2, DroppedPending DEF IInv
    <2>3. PromptsHold'
      BY <1>0, <1>2, <2>1, DroppedType, PromptsShrink, AdmittedDrops DEF IInv
    <2>4. SessionsHold'
      BY <1>2, <2>1 DEF IInv, SessionsHold
    <2>. QED BY <1>2, <2>1, <2>2, <2>3, <2>4 DEF IInv
  <1>3. CASE Status
    BY <1>0, <1>2, <1>3 DEF Status, Pruned, TypeOK
  <1>4. CASE Serve
    BY <1>0, <1>2, <1>4 DEF Serve, Served, Pruned, TypeOK
  <1>5. CASE SetRoutineAuthentication
    <2>. DEFINE gone == late \cup {p \in Slots : Is(p, SessionKinds \cup {"activation"})}
    <2>1. gone \in SUBSET Slots /\ late \subseteq gone /\ Dropped(gone) /\ sessions' \subseteq sessions
      BY <1>0, <1>5 DEF SetRoutineAuthentication, TypeOK
    <2>. QED BY <1>2, <1>5, <2>1 DEF SetRoutineAuthentication, Served
  <1>6. ASSUME NEW p \in Slots, NEW c \in Conns, NEW op \in SessionKinds \cup {"activation"},
               AskFor(op, c, p)
        PROVE  IInv'
    <2>1. /\ Admitted /\ Load /\ Known.state = "unlocked" /\ OpenUp
          /\ Without(late)[p] = Nothing
          /\ prompts' = Put(Without(late), p, c, op, bootId)
          /\ pendingLifecycle' = Still(pendingLifecycle, late)
          /\ pendingRecovery' = Still(pendingRecovery, late)
          /\ sessions' \subseteq sessions
          /\ UNCHANGED <<up, bootId, fresh, deferred, refused, told, lost>>
      BY <1>6 DEF AskFor, Served
    <2>2. /\ MemoryHolds' /\ DiskHolds' /\ (open => open')
          /\ loaded /\ state = "locked" => loaded' /\ state' = "locked"
      BY <2>1, ServedStep
    <2>3. /\ prompts'[p].op = op /\ prompts'[p].boot = bootId
          /\ \A q \in Slots \ {p} : prompts'[q] = IF q \in late THEN Nothing ELSE prompts[q]
          /\ p \notin late => prompts[p] = Nothing
      <3>1. op \in Ops /\ bootId \in Epoch
        BY <1>0 DEF Ops, TypeOK
      <3>2. /\ Put(Without(late), p, c, op, bootId)[p] =
                  [op |-> op, conn |-> c, boot |-> bootId, epoch |-> bootId]
            /\ \A q \in Slots \ {p} :
                  Put(Without(late), p, c, op, bootId)[q] = IF q \in late THEN Nothing ELSE prompts[q]
        BY <1>0, <3>1, PutType
      <3>. QED BY <1>0, <2>1, <3>2, WithoutPrompts
    <2>4. PendingIsAsked'
      BY <1>0, <2>1, <2>3, NothingAsked
         DEF IInv, PendingIsAsked, Still, Is, Lifecycle, Recovery, SessionKinds
    <2>5. open' /\ up
      BY <2>1 DEF OpenUp, Admitted
    <2>6. PromptsHold'
      BY <1>0, <2>1, <2>2, <2>3, <2>5, NothingAsked, AdmittedDrops
         DEF IInv, PromptsHold, Is, SessionKinds, Recovery
    <2>7. SessionsHold'
      BY <2>1, <2>2 DEF IInv, SessionsHold
    <2>. QED BY <2>1, <2>2, <2>4, <2>6, <2>7 DEF IInv
  <1>7. ASSUME NEW p \in Slots, NEW c \in Conns, NEW op \in Lifecycle, BeginTransition(op, c, p)
        PROVE  IInv'
    <2>1. PICK gone \in SUBSET Slots :
            /\ late \subseteq gone
            /\ gone \subseteq late \cup {pendingLifecycle}
            /\ Admitted /\ Load /\ Still(pendingLifecycle, gone) = NoSlot
            /\ Known.state = IF op = "lock" THEN "unlocked" ELSE "locked"
            /\ IF op = "lock" THEN OpenUp ELSE UNCHANGED <<open, granted>>
            /\ Without(gone)[p] = Nothing
            /\ prompts' = Put(Without(gone), p, c, op, Known.epoch)
            /\ pendingLifecycle' = p
            /\ pendingRecovery' = Still(pendingRecovery, gone)
            /\ Outcome(gone \ late)
            /\ UNCHANGED <<up, bootId, fresh, sessions>>
      <3>1. PICK now \in {late, late \cup {pendingLifecycle}} :
              LET gone == now \cap Slots
              IN /\ Admitted /\ Load /\ Still(pendingLifecycle, gone) = NoSlot
                 /\ Known.state = IF op = "lock" THEN "unlocked" ELSE "locked"
                 /\ IF op = "lock" THEN OpenUp ELSE UNCHANGED <<open, granted>>
                 /\ Without(gone)[p] = Nothing
                 /\ prompts' = Put(Without(gone), p, c, op, Known.epoch)
                 /\ pendingLifecycle' = p
                 /\ pendingRecovery' = Still(pendingRecovery, gone)
                 /\ Outcome(gone \ late)
                 /\ UNCHANGED <<up, bootId, fresh, sessions>>
        BY <1>7 DEF BeginTransition
      <3>2. late \subseteq now \cap Slots
        BY <1>0 DEF TypeOK
      <3>. QED BY <3>1, <3>2
    <2>2. /\ told' + deferred' + lost' = refused'
          /\ deferred' = deferred \/ (loaded /\ state = "locked")
      BY <2>1, OutcomeCounts
    <2>3. deferred' = deferred \/ state' = "locked"
      BY <1>0, <2>1, <2>2, LoadType
    <2>4. /\ MemoryHolds' /\ DiskHolds' /\ (open => open')
          /\ loaded /\ state = "locked" => loaded' /\ state' = "locked"
      BY <2>1, <2>3, ServedStep
    <2>5. Known.epoch \in Epoch /\ loaded' /\ state' = Known.state
      BY <1>0, <2>1, LoadType
    <2>6. /\ prompts'[p].op = op /\ prompts'[p].boot = bootId
          /\ \A q \in Slots \ {p} : prompts'[q] = IF q \in gone THEN Nothing ELSE prompts[q]
          /\ p \notin gone => prompts[p] = Nothing
      <3>1. op \in Ops
        BY DEF Ops
      <3>2. /\ Put(Without(gone), p, c, op, Known.epoch)[p] =
                  [op |-> op, conn |-> c, boot |-> bootId, epoch |-> Known.epoch]
            /\ \A q \in Slots \ {p} :
                  Put(Without(gone), p, c, op, Known.epoch)[q] = IF q \in gone THEN Nothing ELSE prompts[q]
        BY <1>0, <2>5, <3>1, PutType
      <3>. QED BY <1>0, <2>1, <3>2, WithoutPrompts
    <2>7. PendingIsAsked'
      BY <1>0, <2>1, <2>6, NothingAsked
         DEF IInv, PendingIsAsked, Still, Is, Lifecycle, Recovery
    <2>8. up /\ (op = "lock" => open') /\ (op = "unlock" => loaded' /\ state' = "locked")
      BY <2>1, <2>5 DEF OpenUp, Admitted, Lifecycle
    <2>9. \A q \in Slots \ {p} : Is(q, Recovery) => prompts'[q] = Nothing
      BY <1>0, <2>1, <2>6, AdmittedDrops DEF IInv
    <2>10. PromptsHold'
      BY <1>0, <2>1, <2>4, <2>6, <2>8, <2>9, NothingAsked
         DEF IInv, PromptsHold, Is, Lifecycle, Serving, SessionKinds, Recovery
    <2>11. SessionsHold'
      BY <2>1, <2>4 DEF IInv, SessionsHold
    <2>. QED BY <2>2, <2>4, <2>7, <2>10, <2>11 DEF IInv
  <1>8. ASSUME NEW p \in Slots, NEW c \in Conns, NEW op \in Recovery, BeginRecovery(op, c, p)
        PROVE  IInv'
    <2>1. /\ UNCHANGED <<vault, marker, row, granted, state, epoch, loaded, up, bootId, fresh,
                         open, sessions, deferred, refused, told, lost>>
          /\ up /\ ~loaded /\ ~open /\ Eligible(op)
          /\ Still(pendingLifecycle, late) = NoSlot /\ Still(pendingRecovery, late) = NoSlot
          /\ Without(late)[p] = Nothing
          /\ prompts' = Put(Without(late), p, c, op, epoch)
          /\ pendingLifecycle' = NoSlot /\ pendingRecovery' = p
      BY <1>8 DEF BeginRecovery
    <2>2. /\ prompts'[p].op = op /\ prompts'[p].boot = bootId
          /\ \A q \in Slots \ {p} : prompts'[q] = IF q \in late THEN Nothing ELSE prompts[q]
      <3>1. op \in Ops /\ epoch \in Epoch
        BY <1>0 DEF Ops, TypeOK
      <3>2. /\ Put(Without(late), p, c, op, epoch)[p] =
                  [op |-> op, conn |-> c, boot |-> bootId, epoch |-> epoch]
            /\ \A q \in Slots \ {p} :
                  Put(Without(late), p, c, op, epoch)[q] = IF q \in late THEN Nothing ELSE prompts[q]
        BY <1>0, <3>1, PutType
      <3>. QED BY <1>0, <2>1, <3>2
    <2>3. row.state # "locked"
      BY <2>1 DEF Eligible, IInv, DiskHolds
    <2>4. PendingIsAsked'
      BY <1>0, <2>1, <2>2, NothingAsked
         DEF IInv, PendingIsAsked, Still, Is, Lifecycle, Recovery
    <2>5. PromptsHold'
      BY <1>0, <2>1, <2>2, <2>3, NothingAsked
         DEF IInv, PromptsHold, Is, Lifecycle, Serving, SessionKinds, Recovery
    <2>. QED BY <2>1, <2>4, <2>5 DEF IInv, SessionsHold, MemoryHolds, DiskHolds
  <1>. QED BY <1>1, <1>3, <1>4, <1>5, <1>6, <1>7, <1>8
\* The owner's answers, whatever becomes of them.
LEMMA AnswersKeep ==
    ASSUME IInv, TypeOK', NEW p \in Slots, Answer(p)
    PROVE  IInv'
  <1>. USE DEF disk, memory, audit
  <1>0. /\ TypeOK /\ NoSlot \notin Slots
        /\ bootId \in Nat /\ fresh \in Nat /\ row.epoch \in Nat /\ granted \subseteq Nat
        /\ bootId <= fresh /\ row.epoch <= fresh
        /\ \A e \in granted : e <= fresh
    BY ConstantsAssumption DEF IInv, TypeOK, Epoch, DiskHolds, ConstantsAssumption
  <1>1. CASE Refuse(p)
    <2>1. /\ UNCHANGED <<vault, marker, row, granted, state, epoch, loaded, open, up, bootId, fresh>>
          /\ Dropped({p}) /\ Outcome({p}) /\ sessions' \subseteq sessions
      BY <1>1 DEF Refuse
    <2>2. /\ told' + deferred' + lost' = refused'
          /\ deferred' = deferred \/ (loaded /\ state = "locked")
      BY <2>1, OutcomeCounts
    <2>3. PendingIsAsked'
      BY <1>0, <2>1, DroppedPending DEF IInv
    <2>4. PromptsHold'
      BY <1>0, <2>1, DroppedType, PromptsShrink DEF IInv, PromptsHold, Is, Recovery
    <2>. QED BY <2>1, <2>2, <2>3, <2>4 DEF IInv, SessionsHold, MemoryHolds, DiskHolds
  <1>2. CASE ApproveSession(p) \/ ApproveActivation(p)
    <2>1. /\ Dropped({p}) /\ Is(p, Serving) /\ up
          /\ UNCHANGED <<vault, marker, row, state, epoch, loaded, up, bootId, fresh,
                         deferred, refused, told, lost>>
      BY <1>2 DEF ApproveSession, ApproveActivation, Approved, Claim, UseOpen, Is, Serving
    <2>2. open /\ loaded /\ state = "unlocked" /\ granted \subseteq {bootId}
      BY <2>1 DEF IInv, PromptsHold, MemoryHolds, Is, Serving, SessionKinds
    <2>3. open' /\ granted' \subseteq {bootId}
      BY <1>2, <2>2 DEF ApproveSession, ApproveActivation, UseOpen, OpenUp, Opened
    <2>4. \A s \in sessions' : s.boot = bootId
      BY <1>2 DEF ApproveSession, ApproveActivation, IInv, SessionsHold
    <2>5. PendingIsAsked'
      BY <1>0, <2>1, DroppedPending DEF IInv
    <2>6. PromptsHold'
      BY <1>0, <2>1, <2>3, DroppedType, PromptsShrink DEF IInv, PromptsHold, Is, Recovery
    <2>7. SessionsHold' /\ MemoryHolds'
      BY <2>1, <2>2, <2>3, <2>4 DEF IInv, SessionsHold, MemoryHolds
    <2>8. row.state # "locked"
      BY <2>2, RowFields DEF IInv, MemoryHolds
    <2>9. DiskHolds'
      BY <1>0, <2>1, <2>2, <2>3, <2>8 DEF IInv, DiskHolds
    <2>. QED BY <2>1, <2>5, <2>6, <2>7, <2>9 DEF IInv
  <1>3. CASE Lock(p)
    <2>1. /\ row' = Row("locked", epoch) /\ state' = "locked" /\ open' = FALSE
          /\ sessions' = {} /\ granted' = {} /\ pendingLifecycle' = NoSlot
          /\ prompts' = [q \in Slots |-> Nothing]
          /\ UNCHANGED <<vault, marker, epoch, loaded, up, bootId, fresh, pendingRecovery,
                         deferred, refused, told, lost>>
          /\ up /\ open /\ row = Row("unlocked", epoch)
      BY <1>3 DEF Lock, LockClears, AsShown
    <2>2. loaded /\ vault = "encrypted" /\ marker = "none" /\ bootId # 0 /\ row.epoch = epoch
      BY <2>1, RowFields DEF IInv, MemoryHolds, DiskHolds
    <2>3. pendingRecovery = NoSlot
      BY <1>0, <2>1, RecoveryIsAlone DEF IInv, PendingIsAsked, TypeOK
    <2>4. PromptsHold' /\ PendingIsAsked'
      BY <1>0, <2>1, <2>3, NothingAsked
         DEF PromptsHold, PendingIsAsked, Is, Lifecycle, Recovery
    <2>5. SessionsHold' /\ MemoryHolds'
      BY <2>1, <2>2 DEF SessionsHold, MemoryHolds
    <2>6. DiskHolds'
      BY <1>0, <2>1, <2>2, RowFields DEF DiskHolds
    <2>. QED BY <2>1, <2>4, <2>5, <2>6 DEF IInv
  <1>4. CASE Unlock(p)
    <2>1. /\ Is(p, {"unlock"}) /\ Dropped({p})
          /\ fresh' = fresh + 1 /\ bootId' = fresh + 1 /\ epoch' = fresh + 1
          /\ row' = Row("unlocked", fresh + 1) /\ state' = "unlocked"
          /\ open' = TRUE /\ granted' = Opened(fresh + 1)
          /\ Deferring(0, deferred)
          /\ UNCHANGED <<vault, marker, loaded, up, sessions>>
      BY <1>4 DEF Unlock, Approved, Claim, NextEpoch, UnlockedRow
    <2>2. /\ loaded /\ granted = {} /\ sessions = {} /\ up
          /\ marker = "none" /\ vault = "encrypted"
          /\ \A q \in Slots \ {p} : prompts[q] = Nothing
      BY <2>1, UnlockIsAlone
    <2>3. granted' = {}
      BY <2>1, <2>2 DEF Opened
    <2>4. \A q \in Slots : prompts'[q] = Nothing
      BY <1>0, <2>1, <2>2, DroppedType
    <2>5. PendingIsAsked'
      BY <1>0, <2>1, DroppedPending DEF IInv
    <2>6. PromptsHold' /\ SessionsHold'
      BY <2>1, <2>2, <2>4, NothingAsked DEF PromptsHold, SessionsHold, Is
    <2>7. deferred' = 0 /\ told' + deferred' + lost' = refused'
      <3>1. deferred \in Nat
        BY ConstantsAssumption DEF IInv, TypeOK, ConstantsAssumption
      <3>. QED BY <1>0, <2>1, <3>1, DeferringCounts DEF IInv
    <2>8. MemoryHolds'
      BY <2>1, <2>2, <2>3, <2>7 DEF MemoryHolds
    <2>9. DiskHolds'
      BY <1>0, <2>1, <2>2, <2>3, RowFields DEF DiskHolds
    <2>. QED BY <2>5, <2>6, <2>7, <2>8, <2>9 DEF IInv
  <1>5. ASSUME NEW k \in 0 .. MaxDeferred, UnlockFails(p, k)
        PROVE  IInv'
    <2>1. /\ Is(p, {"unlock"}) /\ Dropped({p})
          /\ fresh' = fresh + 1 /\ k <= deferred /\ Deferring(1, k)
          /\ granted' \subseteq granted
          /\ UNCHANGED <<vault, marker, row, state, epoch, loaded, open, up, bootId, sessions>>
      BY <1>5 DEF UnlockFails, Approved, Claim, Flushed, Opened
    <2>2. loaded /\ state = "locked" /\ granted = {} /\ ~open
      BY <2>1, UnlockIsAlone
    <2>3. told' + deferred' + lost' = refused'
      <3>1. k \in Nat
        BY ConstantsAssumption DEF ConstantsAssumption
      <3>. QED BY <1>0, <2>1, <3>1, DeferringCounts DEF IInv
    <2>4. PendingIsAsked'
      BY <1>0, <2>1, DroppedPending DEF IInv
    <2>5. PromptsHold'
      BY <1>0, <2>1, <2>2, DroppedType, PromptsShrink DEF IInv, PromptsHold, Is, Recovery
    <2>6. SessionsHold' /\ MemoryHolds'
      BY <2>1, <2>2 DEF IInv, SessionsHold, MemoryHolds
    <2>7. DiskHolds'
      BY <1>0, <2>1, <2>2 DEF IInv, DiskHolds
    <2>. QED BY <2>3, <2>4, <2>5, <2>6, <2>7 DEF IInv
  <1>6. CASE Recover(p) \/ RestoreStays(p)
    <2>1. /\ Is(p, Recovery) /\ Dropped({p}) /\ up
          /\ UNCHANGED <<up, bootId, fresh, sessions, deferred, refused, told, lost>>
          /\ vault' = "encrypted" /\ granted' = {}
      BY <1>6 DEF Recover, RestoreStays, Approved, Claim, Is, Recovery
    <2>2. /\ ~loaded /\ ~open /\ sessions = {} /\ deferred = 0 /\ state = "unlocked"
          /\ \A q \in Slots \ {p} : prompts[q] = Nothing
      BY <2>1, RecoveryIsAlone
    <2>3. \A q \in Slots : prompts'[q] = Nothing
      BY <1>0, <2>1, <2>2, DroppedType
    <2>4. PendingIsAsked'
      BY <1>0, <2>1, DroppedPending DEF IInv
    <2>5. PromptsHold' /\ SessionsHold'
      BY <2>1, <2>2, <2>3, NothingAsked DEF PromptsHold, SessionsHold, Is
    <2>6. bootId # 0
      BY <2>1 DEF IInv, DiskHolds
    <2>7. CASE Recover(p)
      <3>1. /\ row' = Row("unlocked", bootId) /\ state' = "unlocked" /\ epoch' = bootId
            /\ loaded' /\ open' /\ marker' = "none"
        BY <2>7 DEF Recover
      <3>2. MemoryHolds'
        BY <2>1, <2>2, <3>1 DEF MemoryHolds
      <3>3. DiskHolds'
        BY <1>0, <2>1, <2>6, <3>1, RowFields DEF DiskHolds
      <3>. QED BY <2>1, <2>4, <2>5, <3>2, <3>3 DEF IInv
    <2>8. CASE RestoreStays(p)
      <3>1. row' = NoRow /\ UNCHANGED <<state, epoch, loaded, open>>
        BY <2>8 DEF RestoreStays
      <3>2. MemoryHolds'
        BY <2>1, <2>2, <3>1 DEF MemoryHolds
      <3>3. DiskHolds'
        BY <1>0, <2>1, <2>6, <3>1, RowFields DEF DiskHolds, NoRow
      <3>. QED BY <2>1, <2>4, <2>5, <3>2, <3>3 DEF IInv
    <2>. QED BY <1>6, <2>7, <2>8
  <1>7. CASE RecoverFails(p)
    <2>1. Is(p, Recovery) /\ up /\ Down /\ granted' = {}
      BY <1>7 DEF RecoverFails
    <2>2. row.state # "locked"
      BY <2>1, RecoveryIsAlone
    <2>3. \/ vault' = vault /\ row' = row
          \/ vault' = "encrypted" /\ row' = Row("unlocked", bootId)
          \/ vault' = "encrypted" /\ row' = NoRow
      BY <1>7 DEF RecoverFails
    <2>4. /\ row'.state # "locked" /\ row'.epoch <= fresh
          /\ vault' # "encrypted" => row' = NoRow
      BY <1>0, <2>2, <2>3, RowFields DEF IInv, DiskHolds, NoRow
    <2>. QED BY <2>1, <2>4, DownStep DEF IInv
  <1>. QED BY <1>1, <1>2, <1>3, <1>4, <1>5, <1>6, <1>7 DEF Answer

\* Every step of the worker keeps the invariant.
LEMMA LifecycleStep == IInv /\ TypeOK' /\ [Next]_vars => IInv'
  <1>. SUFFICES ASSUME IInv, TypeOK', [Next]_vars
                PROVE  IInv'
    OBVIOUS
  <1>. USE DEF disk, memory, audit
  <1>0. /\ TypeOK /\ NoSlot \notin Slots
        /\ bootId \in Nat /\ fresh \in Nat /\ row.epoch \in Nat /\ granted \subseteq Nat
    BY ConstantsAssumption DEF IInv, TypeOK, Epoch, ConstantsAssumption
  <1>1. CASE Start
    <2>1. /\ ~up /\ up' /\ fresh' = fresh + 1 /\ bootId' = fresh + 1
          /\ UNCHANGED <<vault, marker, row, granted, state, loaded, open, prompts, late,
                         pendingLifecycle, pendingRecovery, sessions,
                         deferred, refused, told, lost>>
      BY <1>1 DEF Start
    <2>2. ~loaded /\ ~open
      BY <2>1 DEF IInv, MemoryHolds
    <2>3. PromptsHold' /\ SessionsHold' /\ PendingIsAsked'
      BY <2>1, <2>2 DEF IInv, PromptsHold, SessionsHold, PendingIsAsked, Is
    <2>4. MemoryHolds'
      BY <2>1, <2>2 DEF IInv, MemoryHolds
    <2>5. DiskHolds'
      BY <1>0, <2>1, <2>2 DEF IInv, DiskHolds
    <2>. QED BY <2>1, <2>3, <2>4, <2>5 DEF IInv
  <1>2. CASE Crash
    <2>1. /\ granted' = granted /\ row' = row /\ marker' = marker /\ vault' = vault
          /\ up /\ Down
      BY <1>2 DEF Crash
    <2>. QED BY <2>1, DownStep DEF IInv, DiskHolds
  <1>3. CASE \E p \in Slots : Expire(p)
    BY <1>3 DEF Expire, IInv, PromptsHold, SessionsHold, MemoryHolds, DiskHolds,
                PendingIsAsked, Is
  <1>4. CASE SessionEnds
    BY <1>4 DEF SessionEnds, IInv, PromptsHold, SessionsHold, MemoryHolds, DiskHolds,
                PendingIsAsked, Is
  <1>5. ASSUME NEW c \in Conns, Disconnect(c)
        PROVE  IInv'
    <2>. DEFINE its == {p \in Slots : ~Is(p, {"none"}) /\ prompts[p].conn = c}
    <2>1. /\ sessions' \subseteq sessions /\ granted' \subseteq granted
          /\ ~open => granted' = granted
          /\ Dropped(its) /\ Outcome(its) /\ its \in SUBSET Slots
          /\ UNCHANGED <<vault, marker, row, state, epoch, loaded, up, bootId, fresh, open>>
      BY <1>5 DEF Disconnect
    <2>. HIDE DEF its
    <2>2. /\ told' + deferred' + lost' = refused'
          /\ deferred' = deferred \/ (loaded /\ state = "locked")
      BY <2>1, OutcomeCounts
    <2>3. PendingIsAsked'
      BY <1>0, <2>1, DroppedPending DEF IInv
    <2>4. PromptsHold'
      BY <1>0, <2>1, DroppedType, PromptsShrink DEF IInv, PromptsHold, Is, Recovery
    <2>5. SessionsHold' /\ MemoryHolds' /\ DiskHolds'
      BY <2>1, <2>2 DEF IInv, SessionsHold, MemoryHolds, DiskHolds
    <2>. QED BY <2>2, <2>3, <2>4, <2>5 DEF IInv
  <1>6. CASE UNCHANGED vars
    BY <1>6 DEF vars, IInv, PromptsHold, SessionsHold, MemoryHolds, DiskHolds,
                PendingIsAsked, Is
  <1>. QED BY <1>1, <1>2, <1>3, <1>4, <1>5, <1>6, RequestsKeep, AnswersKeep DEF Next

\* The invariant of the proofs holds in every run of the worker.
THEOREM LifecycleInductive == Spec => []IInv
  BY IInvInit, LifecycleStep, LifecycleTypeCorrect, PTL DEF Spec
-----------------------------------------------------------------------------
(* What follows from it.                                                   *)

\* No prompt is open where its operation is none of those named.
LEMMA OtherOps ==
    ASSUME TypeOK, NEW p \in Slots
    PROVE  prompts[p].op \in Ops \cup {"none"}
  BY PromptFields DEF Is

\* Under a lock, and while a recovery is asked for or under way, nobody holds
\* anything and nothing else is asked.
THEOREM LocksBare == Spec => []LockedIsBare
  <1>1. IInv => LockedIsBare
    <2>. SUFFICES ASSUME IInv PROVE LockedIsBare
      OBVIOUS
    <2>0. TypeOK /\ NoSlot \notin Slots
      BY ConstantsAssumption DEF IInv, ConstantsAssumption
    <2>1. ASSUME row.state = "locked"
          PROVE  /\ granted = {} /\ ~open /\ sessions = {}
                 /\ \A p \in Slots : Is(p, {"none", "unlock"})
      <3>1. granted = {} /\ ~open
        BY <2>1, RowFields DEF IInv, DiskHolds, MemoryHolds
      <3>. QED BY <2>0, <2>1, <3>1, OtherOps
               DEF IInv, SessionsHold, PromptsHold, Is, Ops, Lifecycle, Recovery,
                   SessionKinds, Serving
    <2>2. ASSUME pendingRecovery # NoSlot \/ marker # "none"
          PROVE  /\ ~open /\ ~loaded /\ sessions = {}
                 /\ \A p \in Slots : Is(p, {"none"} \cup Recovery)
      <3>1. ~loaded
        BY <2>0, <2>2, RecoveryIsAlone DEF IInv, TypeOK, PendingIsAsked, MemoryHolds
      <3>2. ~open
        BY <3>1 DEF IInv, MemoryHolds
      <3>. QED BY <2>0, <3>1, <3>2, OtherOps
               DEF IInv, SessionsHold, PromptsHold, Is, Ops, Lifecycle, Recovery,
                   SessionKinds, Serving
    <2>. QED BY <2>1, <2>2 DEF LockedIsBare
  <1>. QED BY <1>1, LifecycleInductive, PTL

\* What was asked and allowed is of the boot or the unlock in force.
THEOREM EpochIsOne == Spec => []OneEpoch
  <1>1. IInv => OneEpoch
    BY DEF IInv, PromptsHold, SessionsHold, MemoryHolds, OneEpoch
  <1>. QED BY <1>1, LifecycleInductive, PTL

\* An owner whose question is gone can always ask again.
THEOREM AlwaysAsked == Spec => []PendingIsAsked
  BY LifecycleInductive, PTL DEF IInv

\* Each refusal to unlock is told, waits or was dropped, once.
THEOREM AlwaysAccounted == Spec => []Accounted
  <1>1. IInv => Accounted
    BY DEF IInv, MemoryHolds, Accounted
  <1>. QED BY <1>1, LifecycleInductive, PTL

-----------------------------------------------------------------------------
(* The worker implements VaultGate.                                        *)

Locked == Visible.state = "locked"
Asked == {[to |-> prompts[p].op, epoch |-> prompts[p].epoch] : p \in {s \in Slots : Is(s, Lifecycle)}}
Live == {s.boot : s \in sessions} \cup (IF open THEN granted ELSE {})

Question(e) == [to : {"lock", "unlock"}, epoch : {e}]

\* What the steps of VaultGate say of the worker.
LEMMA GateSteps ==
    /\ /\ Visible' = Visible /\ Live' = Live
       /\ Asked' \subseteq Asked \cup Question(Visible.epoch)
       => Gate!Next
    /\ /\ ~Locked /\ Visible' = Visible /\ Live' \subseteq Live \cup {Visible.epoch}
       /\ Asked' \subseteq Asked
       => Gate!Next
    /\ /\ ~Locked /\ ~Locked' /\ Visible'.epoch \in Nat /\ Visible'.epoch > Visible.epoch
       /\ Asked' \subseteq Question(Visible'.epoch) /\ Live' = {}
       => Gate!Next
    /\ /\ Locked /\ [to |-> "unlock", epoch |-> Visible.epoch] \in Asked
       /\ ~Locked' /\ Visible'.epoch \in Nat /\ Visible'.epoch > Visible.epoch
       /\ Asked' = {} /\ Live' = {}
       => Gate!Next
    /\ /\ ~Locked /\ [to |-> "lock", epoch |-> Visible.epoch] \in Asked
       /\ Locked' /\ Visible'.epoch = Visible.epoch /\ Asked' = {} /\ Live' = {}
       => Gate!Next
  <1>1. ASSUME Visible' = Visible, Live' = Live,
               Asked' \subseteq Asked \cup Question(Visible.epoch)
        PROVE  Gate!Next
    BY <1>1 DEF Gate!Next, Gate!Ask, Gate!Question, Question, Locked, Asked, Live
  <1>2. ASSUME ~Locked, Visible' = Visible, Live' \subseteq Live \cup {Visible.epoch},
               Asked' \subseteq Asked
        PROVE  Gate!Next
    BY <1>2 DEF Gate!Next, Gate!Grant, Locked, Asked, Live
  <1>3. ASSUME ~Locked, ~Locked', Visible'.epoch \in Nat, Visible'.epoch > Visible.epoch,
               Asked' \subseteq Question(Visible'.epoch), Live' = {}
        PROVE  Gate!Next
    BY <1>3 DEF Gate!Next, Gate!Restart, Gate!Opened, Gate!Question, Question, Locked, Asked, Live
  <1>4. ASSUME Locked, [to |-> "unlock", epoch |-> Visible.epoch] \in Asked,
               ~Locked', Visible'.epoch \in Nat, Visible'.epoch > Visible.epoch,
               Asked' = {}, Live' = {}
        PROVE  Gate!Next
    BY <1>4 DEF Gate!Next, Gate!Unlock, Gate!Opened, Locked, Asked, Live
  <1>5. ASSUME ~Locked, [to |-> "lock", epoch |-> Visible.epoch] \in Asked,
               Locked', Visible'.epoch = Visible.epoch, Asked' = {}, Live' = {}
        PROVE  Gate!Next
    BY <1>5 DEF Gate!Next, Gate!Lock, Locked, Asked, Live
  <1>. QED BY <1>1, <1>2, <1>3, <1>4, <1>5

\* Where the vault is closed nothing is held.
LEMMA ClosedIsBare ==
    ASSUME IInv
    PROVE  /\ ~open => Live = {}
           /\ open => ~Locked /\ Visible = row /\ row.epoch = bootId
  <1>1. ~open => Live = {}
    BY DEF IInv, SessionsHold, Live
  <1>2. open => loaded /\ state = "unlocked" /\ row = Row(state, epoch) /\ marker = "none"
                /\ epoch = bootId
    BY DEF IInv, MemoryHolds
  <1>. QED BY <1>1, <1>2, RowFields DEF Locked, Visible

\* Dropping prompts asks nothing.
LEMMA ShrinkAsks ==
    ASSUME \A q \in Slots : prompts'[q] \in {Nothing, prompts[q]}
    PROVE  Asked' \subseteq Asked
  BY NothingAsked DEF Asked, Is, Lifecycle

\* A step that leaves the disk alone and takes from what is held and asked.
LEMMA QuietGate ==
    ASSUME IInv, Visible' = Visible, Live' \subseteq Live, Asked' \subseteq Asked
    PROVE  Gate!Next
  <1>1. CASE open
    BY <1>1, ClosedIsBare, GateSteps
  <1>2. CASE ~open
    <2>1. Live' = Live
      BY <1>2, ClosedIsBare
    <2>. QED BY <2>1, GateSteps
  <1>. QED BY <1>1, <1>2

\* A request that is served, or only reads the lifecycle, opens an epoch or asks.
LEMMA ServedGate ==
    ASSUME IInv, IInv', Admitted, Load, UNCHANGED <<up, bootId>>,
           \/ Known.state = "unlocked" /\ OpenUp
           \/ UNCHANGED <<open, granted>>,
           \/ sessions' \subseteq sessions /\ Asked' \subseteq Asked
           \/ sessions' = sessions /\ Asked' \subseteq Asked \cup Question(epoch')
    PROVE  Gate!Next
  <1>0. /\ TypeOK /\ up /\ marker = "none" /\ marker' = "none"
        /\ bootId \in Nat /\ row.epoch \in Nat
        /\ row' = Row(state', epoch') /\ row'.epoch = epoch' /\ row'.state = state'
        /\ Visible = row /\ Visible' = row'
    <2>1. TypeOK /\ up /\ marker = "none"
      BY DEF IInv, Admitted
    <2>2. loaded' /\ marker' = "none"
      BY <2>1, LoadType
    <2>3. row' = Row(state', epoch')
      BY <2>2 DEF IInv, MemoryHolds
    <2>4. row'.epoch = epoch' /\ row'.state = state'
      BY <2>3, RowFields
    <2>5. bootId \in Nat /\ row.epoch \in Nat
      BY <2>1 DEF TypeOK, Epoch
    <2>. QED BY <2>1, <2>2, <2>3, <2>4, <2>5 DEF Visible
  <1>1. granted' \subseteq granted
    BY DEF OpenUp, Opened
  <1>2. ~open => sessions = {} /\ Live = {} /\ Live' = {}
    <2>1. ASSUME ~open
          PROVE  bootId \notin granted /\ sessions = {} /\ sessions' = {}
      BY <1>0, <2>1 DEF IInv, DiskHolds, SessionsHold
    <2>2. ASSUME ~open, open'
          PROVE  granted' = {}
      BY <2>1, <2>2 DEF OpenUp, Opened
    <2>. QED BY <2>1, <2>2, ClosedIsBare DEF Live
  <1>3. open => open' /\ granted' = granted
    BY DEF OpenUp, Opened
  <1>4. CASE row' = row
    <2>1. CASE sessions' \subseteq sessions /\ Asked' \subseteq Asked
      <3>1. Live' \subseteq Live
        BY <1>2, <1>3, <2>1 DEF Live
      <3>. QED BY <1>0, <1>4, <2>1, <3>1, QuietGate
    <2>2. CASE sessions' = sessions /\ Asked' \subseteq Asked \cup Question(epoch')
      <3>1. Live' = Live
        BY <1>2, <1>3, <2>2 DEF Live
      <3>. QED BY <1>0, <1>4, <2>2, <3>1, GateSteps
    <2>. QED BY <2>1, <2>2
  <1>5. CASE row' # row
    <2>1. /\ ~loaded /\ row.state # "locked"
          /\ row' = Row("unlocked", bootId) /\ state' = "unlocked" /\ epoch' = bootId
      BY <1>0, <1>5, LoadType
    <2>2. ~open /\ bootId > row.epoch
      BY <1>0, <2>1 DEF IInv, MemoryHolds, DiskHolds
    <2>3. Asked = {}
      BY <2>1, <2>2 DEF IInv, PromptsHold, Asked, Is, Lifecycle, Serving
    <2>4. Asked' \subseteq Question(epoch')
      BY <2>3
    <2>. QED BY <1>0, <1>2, <2>1, <2>2, <2>4, GateSteps DEF Locked
  <1>. QED BY <1>4, <1>5
\* Every step of the worker, and every failure, is a step of VaultGate.
LEMMA StepGated == IInv /\ IInv' /\ [Next]_vars => [Gate!Next]_Gate!vars
  <1>. SUFFICES ASSUME IInv, IInv', [Next]_vars
                PROVE  [Gate!Next]_Gate!vars
    OBVIOUS
  <1>. USE DEF disk, memory, audit
  <1>0. /\ TypeOK /\ bootId \in Nat /\ fresh \in Nat /\ row.epoch \in Nat
        /\ bootId <= fresh /\ row.epoch <= fresh
    BY DEF IInv, TypeOK, Epoch, DiskHolds
  <1>1. ASSUME Dropped(late), UNCHANGED <<row, marker, open, granted, sessions>>
        PROVE  Gate!Next
    <2>1. Asked' \subseteq Asked
      BY <1>0, <1>1, DroppedType, ShrinkAsks
    <2>. QED BY <1>1, <2>1, QuietGate DEF Visible, Live
  <1>2. CASE Refused
    BY <1>1, <1>2 DEF Refused, Pruned
  <1>3. CASE Start \/ SessionEnds \/ \E p \in Slots : Expire(p)
    <2>1. UNCHANGED <<row, marker, open, granted, prompts>> /\ sessions' \subseteq sessions
      BY <1>3 DEF Start, SessionEnds, Expire
    <2>2. Visible' = Visible /\ Live' \subseteq Live /\ Asked' \subseteq Asked
      BY <2>1 DEF Visible, Live, Asked, Is
    <2>. QED BY <2>2, QuietGate
  <1>4. ASSUME Down
        PROVE  Live' = {} /\ Asked' = {}
    BY <1>4, NothingAsked DEF Down, Live, Asked, Is, Lifecycle
  <1>5. CASE Crash
    BY <1>4, <1>5, QuietGate DEF Crash, Visible
  <1>6. CASE Status \/ Serve \/ SetRoutineAuthentication
    <2>1. PICK gone : /\ Dropped(gone) /\ Admitted /\ Load /\ sessions' \subseteq sessions
                      /\ \/ Known.state = "unlocked" /\ OpenUp
                         \/ UNCHANGED <<open, granted>>
                      /\ UNCHANGED <<up, bootId>>
      BY <1>6 DEF Status, Serve, SetRoutineAuthentication, Served, Pruned
    <2>2. Asked' \subseteq Asked
      BY <1>0, <2>1, DroppedType, ShrinkAsks
    <2>. QED BY <2>1, <2>2, ServedGate
  <1>7. ASSUME NEW p \in Slots, NEW c \in Conns, NEW op \in SessionKinds \cup {"activation"},
               AskFor(op, c, p)
        PROVE  Gate!Next
    <2>1. /\ Admitted /\ Load /\ Known.state = "unlocked" /\ OpenUp
          /\ prompts' = Put(Without(late), p, c, op, bootId)
          /\ sessions' \subseteq sessions /\ UNCHANGED <<up, bootId>>
      BY <1>7 DEF AskFor, Served
    <2>2. op \in Ops /\ bootId \in Epoch /\ op \notin Lifecycle
      BY <1>0 DEF Ops, TypeOK, SessionKinds, Lifecycle
    <2>3. /\ Put(Without(late), p, c, op, bootId)[p] =
                [op |-> op, conn |-> c, boot |-> bootId, epoch |-> bootId]
          /\ \A q \in Slots \ {p} :
                Put(Without(late), p, c, op, bootId)[q] = IF q \in late THEN Nothing ELSE prompts[q]
      BY <1>0, <2>2, PutType
    <2>4. Asked' \subseteq Asked
      BY <2>1, <2>2, <2>3, NothingAsked DEF Asked, Is, Lifecycle
    <2>. QED BY <2>1, <2>4, ServedGate
  <1>8. ASSUME NEW p \in Slots, NEW c \in Conns, NEW op \in Lifecycle, BeginTransition(op, c, p)
        PROVE  Gate!Next
    <2>1. PICK gone : /\ Admitted /\ Load
                      /\ \/ Known.state = "unlocked" /\ OpenUp
                         \/ UNCHANGED <<open, granted>>
                      /\ prompts' = Put(Without(gone), p, c, op, Known.epoch)
                      /\ UNCHANGED <<up, bootId, sessions>>
      BY <1>8 DEF BeginTransition
    <2>2. op \in Ops /\ Known.epoch \in Epoch /\ Known.epoch = epoch'
      BY <1>0, <2>1, LoadType DEF Ops
    <2>3. /\ Put(Without(gone), p, c, op, Known.epoch)[p] =
                [op |-> op, conn |-> c, boot |-> bootId, epoch |-> Known.epoch]
          /\ \A q \in Slots \ {p} :
                Put(Without(gone), p, c, op, Known.epoch)[q] =
                    IF q \in gone THEN Nothing ELSE prompts[q]
      BY <1>0, <2>2, PutType
    <2>4. Asked' \subseteq Asked \cup Question(epoch')
      BY <2>1, <2>2, <2>3, NothingAsked DEF Asked, Is, Lifecycle, Question
    <2>. QED BY <2>1, <2>4, ServedGate
  <1>9. ASSUME NEW p \in Slots, NEW c \in Conns, NEW op \in Recovery, BeginRecovery(op, c, p)
        PROVE  Gate!Next
    <2>1. /\ UNCHANGED <<row, marker, open, granted, sessions>>
          /\ prompts' = Put(Without(late), p, c, op, epoch)
      BY <1>9 DEF BeginRecovery
    <2>2. op \in Ops /\ epoch \in Epoch /\ op \notin Lifecycle
      BY <1>0 DEF Ops, TypeOK, Recovery, Lifecycle
    <2>3. /\ Put(Without(late), p, c, op, epoch)[p] =
                [op |-> op, conn |-> c, boot |-> bootId, epoch |-> epoch]
          /\ \A q \in Slots \ {p} :
                Put(Without(late), p, c, op, epoch)[q] = IF q \in late THEN Nothing ELSE prompts[q]
      BY <1>0, <2>2, PutType
    <2>4. Asked' \subseteq Asked
      BY <2>1, <2>2, <2>3, NothingAsked DEF Asked, Is, Lifecycle
    <2>. QED BY <2>1, <2>4, QuietGate DEF Visible, Live
  <1>10. ASSUME NEW p \in Slots, Refuse(p) \/ \E k \in 0 .. MaxDeferred : UnlockFails(p, k)
         PROVE  Gate!Next
    <2>1. /\ Dropped({p}) /\ UNCHANGED <<row, marker, open>> /\ sessions' \subseteq sessions
          /\ granted' \subseteq granted
      BY <1>10 DEF Refuse, UnlockFails, Approved, Claim, Opened
    <2>2. Asked' \subseteq Asked
      BY <1>0, <2>1, DroppedType, ShrinkAsks
    <2>. QED BY <2>1, <2>2, QuietGate DEF Visible, Live
  <1>11. ASSUME NEW p \in Slots, ApproveSession(p) \/ ApproveActivation(p)
         PROVE  Gate!Next
    <2>1. /\ Dropped({p}) /\ Is(p, Serving) /\ UNCHANGED <<row, marker, bootId>>
      BY <1>11 DEF ApproveSession, ApproveActivation, Approved, Claim, UseOpen, Is, Serving
    <2>2. open
      BY <2>1 DEF IInv, PromptsHold, Is, Serving, SessionKinds
    <2>3. Asked' \subseteq Asked
      BY <1>0, <2>1, DroppedType, ShrinkAsks
    <2>4. \A s \in sessions' : s.boot = bootId
      BY <2>1 DEF IInv, SessionsHold
    <2>5. granted' \subseteq granted \cup {bootId}
      BY <1>11, <2>2 DEF ApproveSession, ApproveActivation, UseOpen, OpenUp, Opened
    <2>6. Live' \subseteq Live \cup {bootId}
      BY <2>2, <2>4, <2>5 DEF Live
    <2>7. ~Locked /\ Visible.epoch = bootId /\ Visible' = Visible
      BY <2>1, <2>2, ClosedIsBare DEF Visible
    <2>. QED BY <2>3, <2>6, <2>7, GateSteps
  <1>12. ASSUME NEW p \in Slots, Lock(p)
         PROVE  Gate!Next
    <2>1. /\ Is(p, {"lock"}) /\ prompts[p].epoch = epoch /\ row = Row("unlocked", epoch)
          /\ row' = Row("locked", epoch) /\ marker' = marker
          /\ sessions' = {} /\ open' = FALSE /\ open
          /\ prompts' = [q \in Slots |-> Nothing]
      BY <1>12 DEF Lock, LockClears, AsShown
    <2>2. /\ Visible = row /\ Visible' = row' /\ ~Locked /\ Locked'
          /\ Visible.epoch = epoch /\ Visible'.epoch = epoch
      BY <2>1, ClosedIsBare, RowFields DEF Visible, Locked, IInv, MemoryHolds
    <2>3. [to |-> "lock", epoch |-> epoch] \in Asked
      BY <2>1 DEF Asked, Is, Lifecycle
    <2>4. Live' = {} /\ Asked' = {}
      BY <2>1, NothingAsked DEF Live, Asked, Is, Lifecycle
    <2>. QED BY <2>2, <2>3, <2>4, GateSteps
  <1>13. ASSUME NEW p \in Slots, Unlock(p)
         PROVE  Gate!Next
    <2>1. /\ Is(p, {"unlock"}) /\ Dropped({p}) /\ prompts[p].epoch = epoch
          /\ row' = Row("unlocked", fresh + 1) /\ marker' = marker
          /\ granted' = Opened(fresh + 1) /\ sessions' = sessions
      BY <1>13 DEF Unlock, Approved, Claim, NextEpoch, UnlockedRow, AsShown
    <2>2. /\ row.state = "locked" /\ row.epoch = epoch /\ marker = "none"
          /\ granted = {} /\ sessions = {}
          /\ \A q \in Slots \ {p} : prompts[q] = Nothing
      BY <2>1, UnlockIsAlone
    <2>3. /\ Visible = row /\ Visible' = row' /\ Locked /\ ~Locked'
          /\ Visible.epoch = epoch /\ Visible'.epoch = fresh + 1
      BY <2>1, <2>2, RowFields DEF Visible, Locked
    <2>4. [to |-> "unlock", epoch |-> epoch] \in Asked
      BY <2>1 DEF Asked, Is, Lifecycle
    <2>5. Live' = {}
      BY <2>1, <2>2 DEF Live, Opened
    <2>6. Asked' = {}
      BY <1>0, <2>1, <2>2, DroppedType, NothingAsked DEF Asked, Is, Lifecycle
    <2>. QED BY <1>0, <2>2, <2>3, <2>4, <2>5, <2>6, GateSteps
  <1>14. ASSUME NEW p \in Slots, Recover(p) \/ RecoverFails(p) \/ RestoreStays(p)
         PROVE  Gate!Next
    <2>1. Is(p, Recovery) /\ granted' = {} /\ Eligible(prompts[p].op) /\ prompts[p].op \in Recovery
      BY <1>14 DEF Recover, RecoverFails, RestoreStays, Approved, Claim, Is, Recovery, Eligible
    <2>2. /\ ~open /\ sessions = {} /\ up /\ bootId # 0
          /\ \A q \in Slots \ {p} : prompts[q] = Nothing
      BY <2>1, RecoveryIsAlone DEF IInv, DiskHolds
    <2>3. Visible = NoRow
      BY <2>1 DEF Eligible, Visible, IInv, DiskHolds
    <2>4. Live' = {} /\ Asked' = {}
      <3>1. CASE Recover(p) \/ RestoreStays(p)
        <4>1. sessions' = {} /\ Dropped({p})
          BY <2>2, <3>1 DEF Recover, RestoreStays, Approved, Claim
        <4>. QED BY <1>0, <2>1, <2>2, <4>1, DroppedType, NothingAsked
                 DEF Live, Asked, Is, Lifecycle
      <3>2. CASE RecoverFails(p)
        BY <1>4, <3>2 DEF RecoverFails
      <3>. QED BY <1>14, <3>1, <3>2
    <2>5. Visible' = NoRow \/ Visible' = Row("unlocked", bootId)
      BY <1>14 DEF Recover, RecoverFails, RestoreStays, Visible, MarkerOf
    <2>6. CASE Visible' = NoRow
      BY <2>3, <2>4, <2>6, QuietGate
    <2>7. CASE Visible' = Row("unlocked", bootId)
      <3>1. ~Locked /\ ~Locked' /\ Visible.epoch = 0 /\ Visible'.epoch = bootId
        BY <2>3, <2>7, RowFields DEF Locked, NoRow
      <3>. QED BY <1>0, <2>2, <2>4, <3>1, GateSteps
    <2>. QED BY <2>5, <2>6, <2>7
  <1>15. ASSUME NEW c \in Conns, Disconnect(c)
         PROVE  Gate!Next
    <2>1. PICK gone : /\ Dropped(gone) /\ sessions' \subseteq sessions /\ granted' \subseteq granted
                      /\ UNCHANGED <<row, marker, open>>
      BY <1>15 DEF Disconnect
    <2>2. Asked' \subseteq Asked
      BY <1>0, <2>1, DroppedType, ShrinkAsks
    <2>. QED BY <2>1, <2>2, QuietGate DEF Visible, Live
  <1>16. CASE UNCHANGED vars
    <2>1. UNCHANGED <<row, marker, open, granted, prompts, sessions>>
      BY <1>16 DEF vars
    <2>2. Visible' = Visible /\ Live' \subseteq Live /\ Asked' \subseteq Asked
      BY <2>1 DEF Visible, Live, Asked, Is
    <2>. QED BY <2>2, QuietGate
  <1>17. CASE \E p \in Slots : Answer(p)
    BY <1>10, <1>11, <1>12, <1>13, <1>14, <1>17 DEF Answer
  <1>. QED BY <1>2, <1>3, <1>5, <1>6, <1>7, <1>8, <1>9, <1>15, <1>16, <1>17 DEF Next

\* The worker keeps the promise of the lock in every run: through crashes, failed
\* unlocks, recoveries that stop anywhere, and answers that come late.
THEOREM KeepsTheGate == Spec => KeepsGate
  <1>1. Init => Gate!Init
    <2>. SUFFICES ASSUME Init PROVE Gate!Init
      OBVIOUS
    <2>1. Visible.epoch \in Nat
      BY RowFields DEF Init, Visible, NoRow
    <2>2. Asked = {} /\ Live = {}
      BY NothingAsked DEF Init, Asked, Live, Is, Lifecycle
    <2>. QED BY <2>1, <2>2 DEF Gate!Init, Asked, Live
  <1>. QED BY <1>1, StepGated, LifecycleInductive, PTL DEF Spec, KeepsGate, Gate!Spec
=============================================================================
