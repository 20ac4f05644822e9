---------------------------- MODULE WorkSessions ----------------------------
(***************************************************************************)
(* The broker's owner-approved work session (vault-broker.ts): the window  *)
(* during which paired connectors may activate connection-bound sessions   *)
(* without another owner-presence prompt.  The window lives twice, in the  *)
(* memory of the broker process (ws) and as one row of the encrypted vault *)
(* (wsRow), and outlives a restart; the sessions riding it do not.         *)
(*                                                                         *)
(* Handlers run one at a time, but most of them are several commits long,  *)
(* so a crash or a failing statement can stop one between two commits:     *)
(* ExpiryFails, ApproveFails, SetPolicyFails, LockFails and Crash are what *)
(* is left then.  The wall clock may step back.                            *)
(*                                                                         *)
(* How long an owner prompt stays open, and who may answer it, is left to  *)
(* a module of its own: here Deny is the owner's no and the timeout alike. *)
(***************************************************************************)
EXTENDS Integers, Sequences, FiniteSets

CONSTANTS
    Ids,          \* activation requests; an approved one is the session
    Clients,      \* paired installations
    Mcp,          \* those of them that are connectors: codex, claude, claude-desktop
    Conns,        \* transport connections
    ClientOf,     \* the client an activation is requested for
    ConnOf,       \* the connection it is requested on, to which it is bound
    Policies,     \* the routine authentication windows the owner may choose
    DefaultPolicy,
    SessionTtls,  \* lifetimes a client may request
    ConnTtl,      \* the longest a connector may request
    DecisionTtl,  \* how long an activation may wait for its decision
    MaxPrompts,   \* MAX_PENDING_OWNER_CHALLENGES
    MaxBegun,     \* bound: activations ever requested
    MaxClock, MaxBoot, MaxWindows  \* bounds of the exploration

ASSUME ConstantsAssumption ==
    /\ Mcp \subseteq Clients
    /\ ClientOf \in [Ids -> Clients]
    /\ ConnOf \in [Ids -> Conns]
    /\ Policies \subseteq Nat \ {0}
    /\ DefaultPolicy \in Policies
    /\ SessionTtls \subseteq Nat \ {0}
    /\ ConnTtl \in Nat /\ DecisionTtl \in Nat /\ MaxPrompts \in Nat
    /\ MaxBegun \in Nat /\ MaxClock \in Nat /\ MaxBoot \in Nat /\ MaxWindows \in Nat

VARIABLES
    now,      \* the wall clock
    up,       \* the authorization object is open: process running, vault unlocked
    boot,     \* the broker boot
    policy,   \* routine_authentication_ttl_ms
    ws,       \* #trustedMcpWorkSession
    wsRow,    \* the row of broker_trusted_work_sessions
    sess,     \* the rows of broker_sessions
    begun,    \* #activationTtls: activations begun by this process, not completed
    asked,    \* #pendingPresence: activations before the owner, with the asking connection
    live,     \* clients paired under an active grant
    conns,    \* open transport connections
    windows   \* history: every window the owner approved, and whether it was withdrawn

vars == <<now, up, boot, policy, ws, wsRow, sess, begun, asked, live, conns, windows>>

-----------------------------------------------------------------------------
Lesser(a, b) == IF a < b THEN a ELSE b
Greater(a, b) == IF a < b THEN b ELSE a

\* A work session numbered 0 stands for none.
WorkSession == [id : Nat, started : Nat, expires : Nat, activity : Nat, observed : Nat]
NoWs == [id |-> 0, started |-> 0, expires |-> 0, activity |-> 0, observed |-> 0]

Session == [status : {"free", "pending", "active", "disconnected", "expired", "revoked"},
            boot : Nat, ws : Nat, expires : Nat, decision : Nat]
Free == [status |-> "free", boot |-> 0, ws |-> 0, expires |-> 0, decision |-> 0]

Window == [from : Nat, until : Nat, open : BOOLEAN]

Trusted(i) == ClientOf[i] \in Mcp

-----------------------------------------------------------------------------
(* #liveTrustedMcpWorkSession: the check every handler about a connector   *)
(* makes, which expires the window and its riders when it has lapsed.      *)

Lapsed(w) == \/ now < w.observed
             \/ now >= w.expires
             \/ now - w.activity >= policy

LiveWs == ws.id # 0 /\ ~Lapsed(ws)

Observed(w) == [w EXCEPT !.observed = Greater(@, now)]

\* #expireTrustedMcpWorkSession, the transaction over the sessions of the window.
WithoutRiders(w) ==
    [i \in Ids |-> IF sess[i].status = "active" /\ sess[i].ws = w.id
                   THEN [sess[i] EXCEPT !.status = "expired"] ELSE sess[i]]

CheckedWs == IF LiveWs THEN Observed(ws) ELSE NoWs
CheckedSess == IF ws.id # 0 /\ Lapsed(ws) THEN WithoutRiders(ws) ELSE sess

\* What a handler about activation i has checked before it goes on.
WsFor(i) == IF Trusted(i) THEN CheckedWs ELSE NoWs
SessFor(i) == IF Trusted(i) THEN CheckedSess ELSE sess
KeepCheckedWs(i) == IF Trusted(i) THEN ws' = CheckedWs /\ wsRow' = CheckedWs
                    ELSE UNCHANGED <<ws, wsRow>>

-----------------------------------------------------------------------------
Init ==
    /\ now = 0 /\ up = TRUE /\ boot = 1
    /\ policy = DefaultPolicy
    /\ ws = NoWs /\ wsRow = NoWs
    /\ sess = [i \in Ids |-> Free]
    /\ begun = {} /\ asked = {}
    /\ live = Clients /\ conns = Conns
    /\ windows = << >>

\* requestActivation, through the worker's activation.begin.
Request(i, ttl) ==
    /\ up /\ ConnOf[i] \in conns
    /\ sess[i].status = "free"
    /\ Cardinality({j \in Ids : sess[j].status # "free"}) < MaxBegun
    /\ ClientOf[i] \in live
    /\ Trusted(i) => ttl <= ConnTtl
    /\ KeepCheckedWs(i)
    /\ LET w == WsFor(i)
           row == [status |-> "pending", boot |-> boot, ws |-> w.id,
                   expires |-> IF w.id = 0 THEN now + ttl ELSE Lesser(now + ttl, w.expires),
                   decision |-> now + DecisionTtl]
       IN sess' = [SessFor(i) EXCEPT ![i] = row]
    /\ begun' = begun \cup {i}
    /\ UNCHANGED <<now, up, boot, policy, asked, live, conns, windows>>

\* Mutant: the status of the activation is not looked at.
Decidable_AnyStatus(i) == /\ sess[i].boot = boot
                          /\ now < sess[i].decision
                          /\ ClientOf[i] \in live

\* #activeActivation and assertLiveClientGrant.
Decidable(i) == /\ sess[i].status = "pending"
                /\ sess[i].boot = boot
                /\ now < sess[i].decision
                /\ ClientOf[i] \in live

\* Mutants: any live window covers the activation; a lapsed window still covers.
Silent_AnyWindow(i) == Trusted(i) /\ LiveWs
Silent_Lapsed(i) == Trusted(i) /\ ws.id # 0 /\ sess[i].ws = ws.id

\* canSilentlyActivateTrustedMcp.
Silent(i) == Trusted(i) /\ LiveWs /\ sess[i].ws = ws.id

\* #activateSession under the work session w.
Activated(i, w) == [sess[i] EXCEPT !.status = "active", !.ws = w.id,
                        !.expires = IF w.id = 0 THEN @ ELSE Lesser(@, w.expires)]
\* Mutant: activity renews the window.
Touched_Renewing(w) == [w EXCEPT !.activity = now, !.observed = Greater(@, now),
                                 !.expires = now + policy]
Touched(w) == [w EXCEPT !.activity = now, !.observed = Greater(@, now)]

\* completeActivationProofs when the window covers it: approveTrustedMcpActivation.
ActivateSilently(i) ==
    /\ up /\ conns # {}
    /\ Decidable(i) /\ i \in begun /\ Silent(i)
    /\ begun' = begun \ {i}
    /\ sess' = [sess EXCEPT ![i] = Activated(i, CheckedWs)]
    /\ ws' = Touched(CheckedWs) /\ wsRow' = Touched(CheckedWs)
    /\ UNCHANGED <<now, up, boot, policy, asked, live, conns, windows>>

\* completeActivationProofs otherwise: the owner is asked, over the connection
\* the proofs came from, which need not be the one the activation is bound to.
\* With MaxPrompts open the request is refused, and its one completion is spent.
AskOwner(i, c) ==
    /\ up /\ c \in conns
    /\ Decidable(i) /\ i \in begun /\ ~Silent(i)
    /\ begun' = begun \ {i}
    /\ asked' = IF Cardinality(asked) < MaxPrompts THEN asked \cup {<<i, c>>} ELSE asked
    /\ KeepCheckedWs(i) /\ sess' = SessFor(i)
    /\ UNCHANGED <<now, up, boot, policy, live, conns, windows>>

\* #activeActivation when the decision came too late.
CompleteLate(i) ==
    /\ up /\ conns # {}
    /\ sess[i].status = "pending" /\ sess[i].boot = boot
    /\ sess[i].decision <= now
    /\ sess' = [sess EXCEPT ![i].status = "expired"]
    /\ UNCHANGED <<now, up, boot, policy, ws, wsRow, begun, asked, live, conns, windows>>

\* #startTrustedMcpWorkSession.
StartedWs == [id |-> Len(windows) + 1, started |-> now, expires |-> now + policy,
              activity |-> now, observed |-> now]
NewWindow == [from |-> now, until |-> now + policy, open |-> TRUE]

\* approveActivation of a connector's activation, the owner having agreed: it
\* joins the live window, or opens one.
ApproveTrusted(i, c) ==
    /\ up /\ <<i, c>> \in asked
    /\ Decidable(i) /\ Trusted(i)
    /\ LiveWs \/ Len(windows) < MaxWindows
    /\ asked' = asked \ {<<i, c>>}
    /\ LET w == IF LiveWs THEN CheckedWs ELSE StartedWs
       IN /\ ws' = Touched(w) /\ wsRow' = Touched(w)
          /\ sess' = [CheckedSess EXCEPT ![i] = Activated(i, w)]
    /\ windows' = IF LiveWs THEN windows ELSE Append(windows, NewWindow)
    /\ UNCHANGED <<now, up, boot, policy, begun, live, conns>>

\* approveActivation of another client's activation: no window is involved.
ApproveOther(i, c) ==
    /\ up /\ <<i, c>> \in asked
    /\ Decidable(i) /\ ~Trusted(i)
    /\ asked' = asked \ {<<i, c>>}
    /\ sess' = [sess EXCEPT ![i] = Activated(i, NoWs)]
    /\ UNCHANGED <<now, up, boot, policy, ws, wsRow, begun, live, conns, windows>>

\* approveActivation whose activation transaction fails: a window it opened is
\* cleared again, one it joined is kept.
ApproveFails(i, c) ==
    /\ up /\ <<i, c>> \in asked
    /\ Decidable(i)
    /\ asked' = asked \ {<<i, c>>}
    /\ KeepCheckedWs(i) /\ sess' = SessFor(i)
    /\ UNCHANGED <<now, up, boot, policy, begun, live, conns, windows>>

\* The owner's refusal, the prompt's timeout, or an answer for an activation
\* that is no longer pending: denyActivation.
Deny(i, c) ==
    /\ up /\ <<i, c>> \in asked
    /\ asked' = asked \ {<<i, c>>}
    /\ sess' = [sess EXCEPT ![i].status =
                   IF @ \in {"pending", "expired"} THEN "revoked" ELSE @]
    /\ UNCHANGED <<now, up, boot, policy, ws, wsRow, begun, live, conns, windows>>

-----------------------------------------------------------------------------
(* #authorize: what a signed memory request on session i must pass.        *)

Current(i) == /\ up /\ ConnOf[i] \in conns
              /\ sess[i].boot = boot
              /\ sess[i].status = "active"
              /\ ClientOf[i] \in live

\* Mutant: the session may ride any live window.
Accepts_AnyWindow(i) == /\ Current(i)
                        /\ now < sess[i].expires
                        /\ Trusted(i) => LiveWs

Accepts(i) == /\ Current(i)
              /\ now < sess[i].expires
              /\ Trusted(i) => LiveWs /\ sess[i].ws = ws.id

\* #authorize of an unexpired session, whatever its window turns out to be.
Authorize(i) ==
    /\ Current(i) /\ now < sess[i].expires
    /\ KeepCheckedWs(i) /\ sess' = SessFor(i)
    /\ UNCHANGED <<now, up, boot, policy, begun, asked, live, conns, windows>>

\* #authorize of an expired one: #expireSession.
AuthorizeExpired(i) ==
    /\ Current(i) /\ sess[i].expires <= now
    /\ sess' = [sess EXCEPT ![i].status = "expired"]
    /\ UNCHANGED <<now, up, boot, policy, ws, wsRow, begun, asked, live, conns, windows>>

\* inspectConnections and connectorOverview, for which the check runs alone.
Inspect ==
    /\ up
    /\ ws' = CheckedWs /\ wsRow' = CheckedWs /\ sess' = CheckedSess
    /\ UNCHANGED <<now, up, boot, policy, begun, asked, live, conns, windows>>

-----------------------------------------------------------------------------
Withdrawn == [k \in DOMAIN windows |-> [windows[k] EXCEPT !.open = FALSE]]

\* configureRoutineAuthentication with a new value, and the worker's cleanup.
SetPolicy(p) ==
    /\ up /\ p # policy
    /\ policy' = p
    /\ ws' = NoWs /\ wsRow' = NoWs
    /\ sess' = IF ws.id = 0 THEN sess ELSE WithoutRiders(ws)
    /\ asked' = {}
    /\ windows' = Withdrawn
    /\ UNCHANGED <<now, up, boot, begun, live, conns>>

\* disconnectTransport, and the prompts of that connection dropped.
Disconnect(c) ==
    /\ up /\ c \in conns
    /\ conns' = conns \ {c}
    /\ sess' = [i \in Ids |-> IF ConnOf[i] = c /\ sess[i].status = "active"
                              THEN [sess[i] EXCEPT !.status = "disconnected"] ELSE sess[i]]
    /\ asked' = {a \in asked : a[2] # c}
    /\ UNCHANGED <<now, up, boot, policy, ws, wsRow, begun, live, windows>>

\* #revokeClientWithAudit, as far as the client's sessions go.
Revoke(cl) ==
    /\ up /\ cl \in live
    /\ live' = live \ {cl}
    /\ sess' = [i \in Ids |-> IF ClientOf[i] = cl /\ sess[i].status # "free"
                              THEN [sess[i] EXCEPT !.status = "revoked"] ELSE sess[i]]
    /\ UNCHANGED <<now, up, boot, policy, ws, wsRow, begun, asked, conns, windows>>

\* The process is gone, or the vault is locked: nothing in memory is left.
Down == /\ up' = FALSE
        /\ ws' = NoWs /\ begun' = {} /\ asked' = {} /\ conns' = {}

\* invalidateEphemeralAuthorityForLock, committed with the locked lifecycle row.
Lock ==
    /\ up /\ Down
    /\ wsRow' = NoWs
    /\ sess' = [i \in Ids |-> IF sess[i].status \in {"pending", "active"}
                              THEN [sess[i] EXCEPT !.status = "disconnected"] ELSE sess[i]]
    /\ windows' = Withdrawn
    /\ UNCHANGED <<now, boot, policy, live>>

\* The constructor on the next boot, or on unlock: #invalidatePriorBootSessions,
\* then #restoreTrustedMcpWorkSession with its check.
Restorable(w) == /\ w.id # 0
                 /\ w.started < w.expires
                 /\ w.expires - w.started <= policy
                 /\ w.started <= w.activity /\ w.activity <= w.expires
                 /\ w.started <= w.observed

\* The constructor on the next boot, or on unlock.
Start ==
    /\ ~up /\ boot < MaxBoot
    /\ up' = TRUE /\ boot' = boot + 1 /\ conns' = Conns
    /\ sess' = [i \in Ids |-> IF sess[i].status = "active" /\ sess[i].boot # boot + 1
                              THEN [sess[i] EXCEPT !.status = "disconnected"] ELSE sess[i]]
    /\ LET w == IF Restorable(wsRow) /\ ~Lapsed(wsRow) THEN Observed(wsRow) ELSE NoWs
       IN ws' = w /\ wsRow' = w
    /\ UNCHANGED <<now, policy, begun, asked, live, windows>>

-----------------------------------------------------------------------------
(* Handlers cut short between two of their commits.                        *)

\* A crash while no handler is between commits, or after a handler's last one;
\* also a lock whose transaction fails, which ends the process.
Crash == /\ up /\ Down
         /\ UNCHANGED <<now, boot, policy, wsRow, sess, live, windows>>

\* The row of a lapsed window is deleted, the transaction over its riders is
\* not: it throws, or the process dies.  The handler that was checking may have
\* consumed its activation or its prompt before.
ExpiryFails ==
    /\ up /\ ws.id # 0 /\ Lapsed(ws)
    /\ wsRow' = NoWs
    /\ \/ Down
       \/ /\ ws' = NoWs /\ UNCHANGED <<up, conns>>
          /\ \/ UNCHANGED <<begun, asked>>
             \/ \E i \in begun : begun' = begun \ {i} /\ UNCHANGED asked
             \/ \E a \in asked : asked' = asked \ {a} /\ UNCHANGED begun
    /\ UNCHANGED <<now, boot, policy, sess, live, windows>>

\* The process dies between the window's row and the activation.
ApproveCrashes(i, c) ==
    /\ up /\ <<i, c>> \in asked
    /\ Decidable(i) /\ Trusted(i) /\ ~LiveWs
    /\ Len(windows) < MaxWindows
    /\ Down
    /\ wsRow' = StartedWs
    /\ sess' = CheckedSess
    /\ windows' = Append(windows, NewWindow)
    /\ UNCHANGED <<now, boot, policy, live>>

\* A policy change that ended the window and not its riders, or both and did not
\* store the policy; the worker then keeps its prompts.
SetPolicyFails ==
    /\ up /\ ws.id # 0
    /\ wsRow' = NoWs
    /\ sess' \in {sess, WithoutRiders(ws)}
    /\ \/ Down
       \/ ws' = NoWs /\ UNCHANGED <<up, begun, asked, conns>>
    /\ windows' = Withdrawn
    /\ UNCHANGED <<now, boot, policy, live>>

-----------------------------------------------------------------------------
Tick == /\ now < MaxClock
        /\ now' = now + 1
        /\ UNCHANGED <<up, boot, policy, ws, wsRow, sess, begun, asked, live, conns, windows>>

StepBack == /\ now' \in 0 .. now - 1
            /\ UNCHANGED <<up, boot, policy, ws, wsRow, sess, begun, asked, live, conns, windows>>

OnActivation(i) ==
    \/ \E ttl \in SessionTtls : Request(i, ttl)
    \/ ActivateSilently(i)
    \/ CompleteLate(i)
    \/ Authorize(i)
    \/ AuthorizeExpired(i)
    \/ \E c \in Conns : \/ AskOwner(i, c)
                        \/ ApproveTrusted(i, c)
                        \/ ApproveOther(i, c)
                        \/ ApproveFails(i, c)
                        \/ ApproveCrashes(i, c)
                        \/ Deny(i, c)

Next ==
    \/ \E i \in Ids : OnActivation(i)
    \/ \E p \in Policies : SetPolicy(p)
    \/ \E c \in Conns : Disconnect(c)
    \/ \E cl \in Clients : Revoke(cl)
    \/ Inspect \/ Lock \/ Start
    \/ Crash \/ ExpiryFails \/ SetPolicyFails
    \/ Tick \/ StepBack

Spec == Init /\ [][Next]_vars
-----------------------------------------------------------------------------
(* Properties.                                                             *)

TypeOK ==
    /\ now \in Nat /\ up \in BOOLEAN /\ boot \in Nat
    /\ policy \in Policies
    /\ ws \in WorkSession /\ wsRow \in WorkSession
    /\ sess \in [Ids -> Session]
    /\ begun \subseteq Ids /\ asked \subseteq Ids \X Conns
    /\ live \subseteq Clients /\ conns \subseteq Conns
    /\ windows \in Seq(Window)

\* What is remembered across a restart is exactly what the running broker goes
\* by: through every commit of every handler the row and the memory of the work
\* session agree while the authorization object is open.
RowIsMemory == up => wsRow = ws

\* A work session, remembered or stored, is the newest window the owner approved,
\* which no lock and no policy change has withdrawn since, and has its bounds: it
\* is never stretched, reopened or brought back by a crash or a restart.
Backed(w) == w.id # 0 => /\ w.id = Len(windows)
                         /\ windows[w.id] = [from |-> w.started, until |-> w.expires, open |-> TRUE]
WindowIsApproved == TypeOK /\ Backed(ws) /\ Backed(wsRow)

InWindow(i) == /\ sess[i].ws \in DOMAIN windows
               /\ windows[sess[i].ws].open
               /\ windows[sess[i].ws].from <= now /\ now < windows[sess[i].ws].until

\* A connector's request is authorized only inside a window the owner approved
\* and has not withdrawn, for a client still paired, on a session of this boot.
UseInWindow ==
    \A i \in Ids : Accepts(i) /\ Trusted(i) =>
        /\ InWindow(i)
        /\ sess[i].expires <= windows[sess[i].ws].until
        /\ ClientOf[i] \in live /\ sess[i].boot = boot

\* A connector is activated without a prompt only inside such a window, and only
\* if it asked for the activation in that same window.
SilenceInWindow ==
    \A i \in Ids : up /\ Decidable(i) /\ Silent(i) => InWindow(i)

\* No session outlives the window it rides: whatever its status has become, an
\* activated connector session expires within the window it was activated in.
NoSessionOutlivesWindow ==
    \A i \in Ids : Trusted(i) /\ sess[i].status = "active" =>
        /\ sess[i].ws \in DOMAIN windows
        /\ sess[i].expires <= windows[sess[i].ws].until

\* Live authority does not survive a restart: while the broker is up, the active
\* sessions are of its own boot, although their window may be of an earlier one.
ActiveOfThisBoot ==
    up => \A i \in Ids : sess[i].status = "active" => sess[i].boot = boot

\* The inactivity limit the owner is told of is the whole window, so it never
\* ends one: no lapse is an idle one.
IdleNeverLapses ==
    \A w \in {ws, wsRow} :
        w.id # 0 /\ w.observed <= now /\ now < w.expires => now - w.activity < policy

\* An activation is decided once, and by the owner: a session that was refused,
\* revoked, expired or disconnected is never active again, and what makes one
\* active is an answer to its own prompt, which is spent with it; for a connector's
\* it may instead be the stored window it was asked for in.
DecidedOnce ==
    [][\A i \in Ids : sess'[i].status = "active" /\ sess[i].status # "active" =>
          /\ sess[i].status = "pending" /\ sess[i].boot = boot
          /\ i \in begun \/ \E c \in Conns : <<i, c>> \in asked
          /\ \/ \E c \in Conns : <<i, c>> \in asked \ asked'
             \/ Trusted(i) /\ wsRow.id # 0 /\ sess[i].ws = wsRow.id]_vars

-----------------------------------------------------------------------------
(* The promise of OwnerWindow, kept by the row of the work session, the     *)
(* prompts of connectors, and the sessions of this boot that ride it.       *)

Riding(i) == /\ up /\ Trusted(i)
             /\ sess[i].status = "active" /\ sess[i].boot = boot
             /\ sess[i].ws = ws.id

Promise == INSTANCE OwnerWindow WITH
    Requests <- {i \in Ids : Trusted(i)},
    window <- IF wsRow.id = 0 THEN {}
              ELSE {[from |-> wsRow.started, until |-> wsRow.expires]},
    asking <- {i \in Ids : Trusted(i) /\ \E c \in Conns : <<i, c>> \in asked},
    serving <- {i \in Ids : Riding(i)}

\* Through crashes, restarts and commits that fail, the broker keeps the owner's
\* window: every step it takes is one OwnerWindow allows.
KeepsPromise == Promise!Spec
=============================================================================
