--------------------------- MODULE VaultLifecycle ---------------------------
(***************************************************************************)
(* The lock on the vault and the epochs it opens in: the lifecycle state   *)
(* and the owner's prompts of vault-broker-worker.ts.                      *)
(*                                                                         *)
(* The worker takes one request at a time.  Admission comes first: prompts *)
(* that timed out are dropped, then a pending recovery, then the lock,     *)
(* refuse the request.  What the owner is asked is answered in a later     *)
(* message, after any number of other requests, and maybe another boot.    *)
(*                                                                         *)
(* Activations stand for all the authority the connectors hold in the      *)
(* database (WorkSessions, ConnectorAuthority); a migration or a restore   *)
(* is one step here, which may stop at any of its commits.                 *)
(***************************************************************************)
EXTENDS Naturals, FiniteSets

CONSTANTS
    Conns,       \* connections of the owner's application
    Slots,       \* prompts that may be before the owner at once
    NoSlot,
    MaxDeferred, \* outcomes of unlocking the worker keeps until it can record them
    MaxEpoch,    \* bound: epochs drawn
    MaxRefusals  \* bound: times unlocking is refused or fails

ASSUME ConstantsAssumption ==
    /\ IsFiniteSet(Slots) /\ NoSlot \notin Slots
    /\ MaxDeferred \in Nat \ {0} /\ MaxEpoch \in Nat \ {0} /\ MaxRefusals \in Nat

VARIABLES
    up,        \* the worker runs
    vault,     \* what is at the vault's path
    marker,    \* the recovery marker beside it
    row,       \* broker_lifecycle_state
    granted,   \* the boots with active rows in broker_sessions
    state,     \* #lifecycleState
    epoch,     \* #lifecycleEpoch
    loaded,    \* #lifecycleLoaded
    bootId,
    open,      \* the vault's handles
    prompts,   \* #pendingPresence
    late,      \* the prompts past their expiry
    pendingLifecycle,  \* #pendingLifecycleChallengeId
    pendingRecovery,   \* #pendingRecoveryChallengeId
    sessions,  \* #ownerSessions and #librarySessions
    deferred,  \* length of #deferredLifecycleAudit
    fresh,     \* the last epoch drawn
    refused,   \* history: refusals and failures of unlocking
    told,      \* history: those in the audit
    lost       \* history: those a crash or a full queue dropped

disk == <<vault, marker>>
memory == <<up, bootId, fresh>>
audit == <<deferred, refused, told, lost>>
vars == <<disk, row, granted, state, epoch, loaded, memory, open, prompts, late,
          pendingLifecycle, pendingRecovery, sessions, audit>>

-----------------------------------------------------------------------------
Row(s, e) == [state |-> s, epoch |-> e]
NoRow == Row("none", 0)

Lifecycle == {"lock", "unlock"}
Recovery == {"migrate", "restore"}
SessionKinds == {"owner", "library"}
Nothing == [op |-> "none"]
Prompt == [op : Lifecycle \cup Recovery \cup SessionKinds \cup {"activation"},
           conn : Conns, boot : 0..MaxEpoch, epoch : 0..MaxEpoch]
Session == [kind : SessionKinds, conn : Conns, boot : 0..MaxEpoch]

Is(p, ops) == prompts[p].op \in ops
Put(q, p, c, op, e) ==
    [q EXCEPT ![p] = [op |-> op, conn |-> c, boot |-> bootId, epoch |-> e]]

\* #loadOrInitializeLifecycleState: an unlocked row is taken over by this boot, a
\* locked one keeps its epoch.
Read_Unlocking == Row("unlocked", bootId)
Read == IF row.state = "locked" THEN row ELSE Row("unlocked", bootId)
Known == IF loaded THEN Row(state, epoch) ELSE Read

Load ==
    /\ row' = IF loaded THEN row ELSE Read
    /\ state' = Known.state /\ epoch' = Known.epoch
    /\ loaded' = TRUE
    /\ vault' = "encrypted"
    /\ UNCHANGED marker

\* #openVault: the authorization's constructor ends what earlier boots left active.
Opened_Kept(boot) == granted
Opened(boot) == IF open THEN granted ELSE granted \cap {boot}
OpenUp == open' = TRUE /\ granted' = Opened(bootId)
UseOpen == /\ state = "unlocked" /\ OpenUp
           /\ UNCHANGED <<disk, row, state, epoch, loaded>>

\* The prompts without those in gone, and a pending id after they are gone.
Without(gone) == [p \in Slots |-> IF p \in gone THEN Nothing ELSE prompts[p]]
Still_Kept(id, gone) == id
Still(id, gone) == IF id \in gone THEN NoSlot ELSE id

Dropped(gone) == /\ prompts' = Without(gone) /\ late' = late \ gone
                 /\ pendingLifecycle' = Still(pendingLifecycle, gone)
                 /\ pendingRecovery' = Still(pendingRecovery, gone)
Pruned == Dropped(late)

\* n outcomes of unlocking that cannot be recorded now, after k have been.
Deferring(n, k) ==
    LET kept == deferred - k + n
    IN /\ refused + n <= MaxRefusals
       /\ refused' = refused + n
       /\ told' = told + k
       /\ deferred' = IF kept > MaxDeferred THEN MaxDeferred ELSE kept
       /\ lost' = IF kept > MaxDeferred THEN lost + kept - MaxDeferred ELSE lost

\* The outcomes of a set of prompts that end without an approval.
Unlocks(ps) == Cardinality({p \in ps : Is(p, {"unlock"})})
Outcome(ps) == Deferring(Unlocks(ps), 0)

Admitted == /\ up /\ Still(pendingRecovery, late) = NoSlot
            /\ marker = "none" /\ vault # "plaintext"

-----------------------------------------------------------------------------
Init ==
    /\ up = FALSE
    /\ marker = "none"
    /\ \/ vault \in {"absent", "plaintext"} /\ row = NoRow /\ granted = {}
       \/ vault = "encrypted" /\ row = NoRow /\ granted = {}
       \/ vault = "encrypted" /\ row = Row("locked", 1) /\ granted = {}
       \/ vault = "encrypted" /\ row = Row("unlocked", 1) /\ granted \in {{}, {1}}
    /\ state = "unlocked" /\ epoch = 0 /\ loaded = FALSE /\ bootId = 0 /\ open = FALSE
    /\ prompts = [p \in Slots |-> Nothing] /\ late = {}
    /\ pendingLifecycle = NoSlot /\ pendingRecovery = NoSlot
    /\ sessions = {}
    /\ deferred = 0 /\ refused = 0 /\ told = 0 /\ lost = 0
    /\ fresh = 1

Start ==
    /\ ~up /\ fresh < MaxEpoch
    /\ up' = TRUE
    /\ fresh' = fresh + 1 /\ bootId' = fresh + 1 /\ epoch' = fresh + 1
    /\ UNCHANGED <<disk, row, granted, state, loaded, open, prompts, late,
                   pendingLifecycle, pendingRecovery, sessions, audit>>

\* The memory of the worker is gone.  The bound leaves an epoch for the next boot.
Down ==
    /\ fresh < MaxEpoch
    /\ up' = FALSE
    /\ state' = "unlocked" /\ epoch' = 0 /\ loaded' = FALSE /\ bootId' = 0 /\ open' = FALSE
    /\ prompts' = [p \in Slots |-> Nothing] /\ late' = {}
    /\ pendingLifecycle' = NoSlot /\ pendingRecovery' = NoSlot
    /\ sessions' = {}
    /\ deferred' = 0 /\ lost' = lost + deferred
    /\ UNCHANGED <<fresh, refused, told>>

\* Also a lock whose transaction fails: the worker exits once it has answered.
Crash == up /\ Down /\ UNCHANGED <<disk, row, granted>>

Expire(p) == /\ ~Is(p, {"none"}) /\ p \notin late
             /\ late' = late \cup {p}
             /\ UNCHANGED <<disk, row, granted, state, epoch, loaded, memory, open, prompts,
                            pendingLifecycle, pendingRecovery, sessions, audit>>

SessionEnds == /\ \E s \in sessions : sessions' = sessions \ {s}
               /\ UNCHANGED <<disk, row, granted, state, epoch, loaded, memory, open, prompts,
                              late, pendingLifecycle, pendingRecovery, audit>>

\* A request that is refused at admission has dropped what timed out.
Refused == /\ up /\ ~Admitted /\ late # {}
           /\ Pruned
           /\ UNCHANGED <<disk, row, granted, state, epoch, loaded, memory, open, sessions, audit>>

\* lifecycle.status, and a request that finds the vault locked.
Status == /\ Admitted /\ Pruned /\ Load
          /\ UNCHANGED <<granted, memory, open, sessions, audit>>

\* A request that is served with the vault open.
Served == Admitted /\ Known.state = "unlocked" /\ Load /\ OpenUp
Serve == Served /\ Pruned /\ UNCHANGED <<memory, sessions, audit>>

\* owner.session.begin, library.session.begin, session.complete
AskFor(op, c, p) ==
    /\ Served
    /\ Without(late)[p] = Nothing
    /\ prompts' = Put(Without(late), p, c, op, bootId) /\ late' = {}
    /\ pendingLifecycle' = Still(pendingLifecycle, late)
    /\ pendingRecovery' = Still(pendingRecovery, late)
    /\ sessions' = IF op = "library" THEN {s \in sessions : s.kind # op \/ s.conn # c}
                   ELSE sessions
    /\ UNCHANGED <<memory, audit>>

\* owner.set_routine_authentication, with another duration
SetRoutineAuthentication ==
    /\ Served
    /\ Dropped(late \cup {p \in Slots : Is(p, SessionKinds \cup {"activation"})})
    /\ sessions' = {}
    /\ UNCHANGED <<memory, audit>>

\* lifecycle.lock and lifecycle.unlock; the prompt that is pending may time out
\* between the two looks at the clock.
BeginTransition(op, c, p) ==
    \E now \in {late, late \cup {pendingLifecycle}} :
      LET gone == now \cap Slots
          passed == gone \ late
      IN /\ Admitted
         /\ Still(pendingLifecycle, gone) = NoSlot
         /\ Known.state = IF op = "lock" THEN "unlocked" ELSE "locked"
         /\ Load
         /\ IF op = "lock" THEN OpenUp ELSE UNCHANGED <<open, granted>>
         /\ Without(gone)[p] = Nothing
         /\ prompts' = Put(Without(gone), p, c, op, Known.epoch) /\ late' = {}
         /\ pendingLifecycle' = p
         /\ pendingRecovery' = Still(pendingRecovery, gone)
         /\ Outcome(passed)
         /\ UNCHANGED <<memory, sessions>>

\* recovery.migrate and recovery.restore
Eligible(op) == IF op = "migrate"
                THEN marker = "migration" \/ (marker = "none" /\ vault = "plaintext")
                ELSE marker = "restore" \/ (marker = "none" /\ vault = "absent")

BeginRecovery(op, c, p) ==
    /\ up /\ Eligible(op) /\ ~open /\ ~loaded
    /\ Still(pendingLifecycle, late) = NoSlot /\ Still(pendingRecovery, late) = NoSlot
    /\ Without(late)[p] = Nothing
    /\ prompts' = Put(Without(late), p, c, op, epoch) /\ late' = {}
    /\ pendingLifecycle' = NoSlot /\ pendingRecovery' = p
    /\ UNCHANGED <<disk, row, granted, state, epoch, loaded, memory, open, sessions, audit>>

-----------------------------------------------------------------------------
\* The owner's answer.  Claiming the prompt comes first, whatever the answer.
Claim(p, ops) == up /\ Is(p, ops) /\ Dropped({p})
Approved(p, ops) == p \notin late /\ Claim(p, ops)

\* Denied, late, or from another connection or role.
Refuse(p) ==
    /\ up /\ ~Is(p, {"none"})
    /\ Dropped({p})
    /\ sessions' = IF Is(p, {"library"})
                   THEN {s \in sessions : s.kind # "library" \/ s.conn # prompts[p].conn}
                   ELSE sessions
    /\ Outcome({p})
    /\ UNCHANGED <<disk, row, granted, state, epoch, loaded, memory, open>>

ApproveSession(p) ==
    LET kind == prompts[p].op
        conn == prompts[p].conn
    IN /\ Approved(p, SessionKinds)
       /\ sessions' = {s \in sessions : s.kind # kind \/ s.conn # conn}
                          \cup {[kind |-> kind, conn |-> conn, boot |-> bootId]}
       /\ IF kind = "library" THEN UseOpen
          ELSE UNCHANGED <<disk, row, granted, state, epoch, loaded, open>>
       /\ UNCHANGED <<memory, audit>>

ApproveActivation(p) ==
    /\ Approved(p, {"activation"})
    /\ state = "unlocked"
    /\ open' = TRUE /\ granted' = Opened(bootId) \cup {bootId}
    /\ UNCHANGED <<disk, row, state, epoch, loaded, memory, sessions, audit>>

AsShown(p, s) == state = s /\ epoch = prompts[p].epoch /\ row = Row(s, epoch)

\* A lock that cannot close the handles has locked the vault all the same; the
\* worker then exits.
LockClears_PromptsKept(p) == /\ sessions' = {} /\ granted' = {}
                             /\ prompts' = Without({p}) /\ late' = late \ {p}
LockClears(p) == /\ sessions' = {} /\ granted' = {}
                 /\ prompts' = [q \in Slots |-> Nothing] /\ late' = {}

Lock(p) ==
    /\ up /\ p \notin late /\ Is(p, {"lock"})
    /\ AsShown(p, "unlocked") /\ open
    /\ row' = Row("locked", epoch) /\ state' = "locked"
    /\ LockClears(p)
    /\ open' = FALSE
    /\ pendingLifecycle' = NoSlot
    /\ UNCHANGED <<disk, epoch, loaded, memory, pendingRecovery, audit>>

\* The outcomes that were kept are recorded before the vault is unlocked.
NextEpoch == fresh + 1
UnlockedRow == Row("unlocked", NextEpoch)
Unlock(p) ==
    /\ Approved(p, {"unlock"})
    /\ AsShown(p, "locked") /\ fresh < MaxEpoch
    /\ fresh' = fresh + 1 /\ bootId' = NextEpoch /\ epoch' = NextEpoch
    /\ row' = UnlockedRow /\ state' = "unlocked"
    /\ open' = TRUE /\ granted' = Opened(NextEpoch)
    /\ Deferring(0, deferred)
    /\ UNCHANGED <<disk, loaded, up, sessions>>

\* It fails after it opened the vault and recorded k of them, or before.
Flushed_Again(k) == /\ refused < MaxRefusals /\ refused' = refused + 1
                    /\ told' = told + k /\ deferred < MaxDeferred
                    /\ deferred' = deferred + 1 /\ UNCHANGED lost
Flushed(k) == Deferring(1, k)
UnlockFails(p, k) ==
    /\ Approved(p, {"unlock"})
    /\ AsShown(p, "locked") /\ fresh < MaxEpoch
    /\ k <= deferred
    /\ fresh' = fresh + 1
    /\ Flushed(k)
    /\ granted' \in {granted, Opened(NextEpoch)}
    /\ UNCHANGED <<disk, row, state, epoch, loaded, open, up, bootId, sessions>>

-----------------------------------------------------------------------------
MarkerOf(op) == IF op = "migrate" THEN "migration" ELSE "restore"

\* The new vault is opened in this boot before the marker goes.
Recover(p) ==
    /\ Approved(p, Recovery) /\ Eligible(prompts[p].op)
    /\ vault' = "encrypted" /\ marker' = "none"
    /\ row' = Row("unlocked", bootId) /\ state' = "unlocked" /\ epoch' = bootId
    /\ loaded' = TRUE /\ open' = TRUE /\ granted' = {}
    /\ UNCHANGED <<memory, sessions, audit>>

\* It stops at one of its commits, and the worker exits.
RecoverFails(p) ==
    /\ up /\ p \notin late /\ Is(p, Recovery) /\ Eligible(prompts[p].op)
    /\ \/ vault' = vault /\ marker' = MarkerOf(prompts[p].op) /\ row' = row
       \/ /\ vault' = "encrypted" /\ marker' \in {MarkerOf(prompts[p].op), "none"}
          /\ row' = Row("unlocked", bootId)
       \/ /\ vault' = "encrypted" /\ marker' = MarkerOf(prompts[p].op) /\ row' = NoRow
    /\ granted' = {}
    /\ Down

\* The restored vault's key cannot be read: the worker keeps running.
RestoreStays(p) ==
    /\ Approved(p, {"restore"}) /\ Eligible("restore")
    /\ vault' = "encrypted" /\ marker' = "restore" /\ row' = NoRow /\ granted' = {}
    /\ UNCHANGED <<state, epoch, loaded, memory, open, sessions, audit>>

\* connection-closed
Disconnect(c) ==
    LET its == {p \in Slots : ~Is(p, {"none"}) /\ prompts[p].conn = c}
    IN /\ up
       /\ sessions' = {s \in sessions : s.conn # c}
       /\ granted' \in {granted, IF open THEN granted \ {bootId} ELSE granted}
       /\ Dropped(its)
       /\ Outcome(its)
       /\ UNCHANGED <<disk, row, state, epoch, loaded, memory, open>>

-----------------------------------------------------------------------------
Answer(p) ==
    \/ Refuse(p) \/ ApproveSession(p) \/ ApproveActivation(p)
    \/ Lock(p) \/ Unlock(p) \/ \E k \in 0..MaxDeferred : UnlockFails(p, k)
    \/ Recover(p) \/ RecoverFails(p) \/ RestoreStays(p)

Next ==
    \/ Start \/ Crash \/ SessionEnds
    \/ Refused \/ Status \/ Serve \/ SetRoutineAuthentication
    \/ \E p \in Slots : Expire(p) \/ Answer(p)
    \/ \E p \in Slots, c \in Conns :
          \/ \E op \in SessionKinds \cup {"activation"} : AskFor(op, c, p)
          \/ \E op \in Lifecycle : BeginTransition(op, c, p)
          \/ \E op \in Recovery : BeginRecovery(op, c, p)
    \/ \E c \in Conns : Disconnect(c)

Spec == Init /\ [][Next]_vars

-----------------------------------------------------------------------------
Epoch == 0..MaxEpoch

\* The state the variables can be in.
TypeOK ==
    /\ up \in BOOLEAN /\ open \in BOOLEAN /\ loaded \in BOOLEAN
    /\ vault \in {"absent", "plaintext", "encrypted"}
    /\ marker \in {"none", "migration", "restore"}
    /\ row \in [state : {"none", "unlocked", "locked"}, epoch : Epoch]
    /\ granted \subseteq Epoch
    /\ state \in {"unlocked", "locked"}
    /\ epoch \in Epoch /\ bootId \in Epoch /\ fresh \in Epoch
    /\ prompts \in [Slots -> Prompt \cup {Nothing}]
    /\ late \subseteq Slots
    /\ pendingLifecycle \in Slots \cup {NoSlot} /\ pendingRecovery \in Slots \cup {NoSlot}
    /\ sessions \subseteq Session
    /\ deferred \in 0..MaxDeferred
    /\ refused \in Nat /\ told \in Nat /\ lost \in Nat

\* Once the vault is locked nothing is open, no session of the owner's is left,
\* no row of a connector's is active, and the only question is the unlock.  From
\* the first step of a recovery to its last the vault serves nobody either.
LockedIsBare ==
    /\ row.state = "locked" => granted = {} /\ ~open
    /\ row.state = "locked" =>
          sessions = {} /\ \A p \in Slots : Is(p, {"none", "unlock"})
    /\ pendingRecovery # NoSlot \/ marker # "none" =>
          /\ ~open /\ ~loaded /\ sessions = {}
          /\ \A p \in Slots : Is(p, {"none"} \cup Recovery)

\* What was asked and what was allowed belongs to the boot, or the unlock, in force,
\* and that epoch is the database's: the vault is open in no other boot's name.
OneEpoch ==
    /\ TypeOK
    /\ loaded => row = Row(state, epoch)
    /\ open => loaded /\ state = "unlocked" /\ epoch = bootId
    /\ \A p \in Slots : ~Is(p, {"none"}) => prompts[p].boot = bootId
    /\ \A s \in sessions : s.boot = bootId /\ open
    /\ open => granted \subseteq {bootId}

\* A pending id is the id of the one prompt of its kind, so that an owner whose
\* question is gone can always ask again.
PendingIsAsked ==
    \A p \in Slots : /\ Is(p, Lifecycle) <=> pendingLifecycle = p
                     /\ Is(p, Recovery) <=> pendingRecovery = p

\* Each refusal to unlock is in the audit once, waits for it, or was dropped by a
\* crash or a full queue; none waits while the vault is unlocked.
Accounted ==
    /\ told + deferred + lost = refused
    /\ loaded /\ state = "unlocked" => deferred = 0

\* The worker keeps the promise of the lock.  A vault under recovery is not there yet.
Visible == IF marker = "none" THEN row ELSE NoRow
Gate == INSTANCE VaultGate WITH
    locked <- Visible.state = "locked",
    epoch <- Visible.epoch,
    asked <- {[to |-> prompts[p].op, epoch |-> prompts[p].epoch] :
                 p \in {s \in Slots : Is(s, Lifecycle)}},
    live <- {s.boot : s \in sessions} \cup (IF open THEN granted ELSE {})
KeepsGate == Gate!Spec
=============================================================================
