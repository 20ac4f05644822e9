------------------------- MODULE ConnectorAuthority -------------------------
(***************************************************************************)
(* Who may ask the broker for memory: the pairing of client installations, *)
(* their grants, and their revocation and replacement (vault-broker.ts and *)
(* the handlers of vault-broker-worker.ts that put the owner's prompts).   *)
(*                                                                         *)
(* Every change of authority is asked for, then shown to the owner, then   *)
(* answered, and anything may commit in between: each answer is checked    *)
(* again, against a snapshot the prompt took, in the transaction it runs.  *)
(* Pairing is the exception: the owner's yes is one commit, the exchange   *)
(* of the request for a grant another.                                     *)
(*                                                                         *)
(* Time is left out but for what it decides: a pairing request becomes     *)
(* late, an unanswered prompt is denied.  Connections are left out too: a  *)
(* disconnect ends any of the sessions and drops any of the prompts.       *)
(***************************************************************************)
EXTENDS Naturals, FiniteSets

CONSTANTS
    Requests,    \* pairing requests; an exchanged one is the grant it gave
    KeyOf, KindOf, InstallOf,  \* the public key, client kind and install identity of each
    Keys,        \* public keys: a vault has one client for each it has paired
    Kinds,       \* client kinds
    Mcp,         \* the connectors among them
    Installs,    \* install identities
    NoInstall,
    NoGrant,
    Sessions,    \* activations
    Slots,       \* prompts that may be before the owner at once
    MaxPairings, \* MAX_PENDING_PAIRING_REQUESTS
    Development  \* the build's trust path is development-only

ASSUME ConstantsAssumption ==
    /\ KeyOf \in [Requests -> Keys]
    /\ KindOf \in [Requests -> Kinds]
    /\ InstallOf \in [Requests -> Installs]
    /\ Mcp \subseteq Kinds /\ Kinds # {}
    /\ NoInstall \notin Installs /\ NoGrant \notin Requests
    /\ MaxPairings \in Nat
    /\ Development \in BOOLEAN

VARIABLES
    up,         \* the authorization object is open
    ours,       \* requests and activations made in this boot
    late,       \* pairing requests past their expiry
    row,        \* status of the rows of broker_pairing_requests
    client,     \* rows of broker_clients, by public key
    grants,     \* status of the rows of broker_grants, by the request exchanged
    sess,       \* rows of broker_sessions
    reconnect,  \* rows of broker_connector_reconnects
    revokedBy,  \* the last terminal revocation in the audit of each client
    prompts,    \* #pendingPresence
    shown,      \* history: the grants then in force of the clients a prompt is about
    moved       \* history: the clients of a prompt's kind have changed since

vars == <<up, ours, late, row, client, grants, sess, reconnect, revokedBy, prompts,
          shown, moved>>
history == <<shown, moved>>

-----------------------------------------------------------------------------
Client == [status : {"none", "paired", "revoked"}, kind : Kinds,
           install : Installs \cup {NoInstall}, rev : Nat]
Reconnect == [status : {"absent", "required", "prepared"}, install : Installs \cup {NoInstall}]
Absent == [status |-> "absent", install |-> NoInstall]
Required == [status |-> "required", install |-> NoInstall]
Prepared(install) == [status |-> "prepared", install |-> install]

\* What a prompt pins of a client: its row and its authority revision.
Identity == [key : Keys, rev : Nat]
Peer == [key : Keys, status : {"paired", "revoked"}, rev : Nat]
Nothing == [op |-> "none"]
Prompt == [op : {"pairing"}, req : Requests]
    \cup [op : {"revocation", "connector-revocation"}, kind : Kinds, target : SUBSET Identity]
    \cup [op : {"reconnect"}, kind : Mcp, install : Installs, replacement : Installs,
          target : SUBSET Identity, row : Reconnect, peers : SUBSET Peer]
    \cup [op : {"rotation", "replacement"}, kind : Mcp, install : Installs,
          replacement : Installs, target : SUBSET Identity]

Open(r) == row[r] \in {"pending", "approved"}
Paired(k) == client[k].status = "paired"
Revoked(k) == client[k].status = "revoked"
Of(kind) == {k \in Keys : client[k].status # "none" /\ client[k].kind = kind}
Known(kind, install) == {k \in Of(kind) : client[k].install = install}
Ids(ks) == {[key |-> k, rev |-> client[k].rev] : k \in ks}
Live(ks) == {r \in Requests : KeyOf[r] \in ks /\ grants[r] = "active"}
KindOfPrompt(q) == IF q.op = "pairing" THEN KindOf[q.req] ELSE q.kind
SessKey(s) == KeyOf[sess[s].grant]

-----------------------------------------------------------------------------
Init ==
    /\ up = TRUE
    /\ ours = {} /\ late = {}
    /\ row = [r \in Requests |-> "none"]
    /\ client = [k \in Keys |-> [status |-> "none", kind |-> CHOOSE d \in Kinds : TRUE,
                                 install |-> NoInstall, rev |-> 0]]
    /\ grants = [r \in Requests |-> "none"]
    /\ sess = [s \in Sessions |-> [status |-> "free", grant |-> NoGrant]]
    /\ reconnect = [d \in Mcp |-> Absent]
    /\ revokedBy = [k \in Keys |-> "none"]
    /\ prompts = [p \in Slots |-> Nothing]
    /\ shown = [p \in Slots |-> {}]
    /\ moved = [p \in Slots |-> FALSE]

\* A prompt is put before the owner; ks are the clients it is about.
Put(p, q, ks) ==
    /\ prompts[p] = Nothing
    /\ prompts' = [prompts EXCEPT ![p] = q]
    /\ shown' = [shown EXCEPT ![p] = Live(ks)]
    /\ moved' = [moved EXCEPT ![p] = FALSE]

\* claim: a prompt is answered once.  If the answer changes the clients of a kind
\* the other prompts about it are out of date.
Taken(p) == /\ prompts' = [prompts EXCEPT ![p] = Nothing]
            /\ shown' = [shown EXCEPT ![p] = {}]
Take(p) == Taken(p) /\ moved' = [moved EXCEPT ![p] = FALSE]
TakeMoving(p, kind) ==
    /\ Taken(p)
    /\ moved' = [q \in Slots |-> /\ q # p /\ prompts[q] # Nothing
                                 /\ moved[q] \/ KindOfPrompt(prompts[q]) = kind]

-----------------------------------------------------------------------------
(* Pairing.                                                                *)

\* #assertConnectorPairingAllowed, and the same test in #consumeConnectorReconnect.
Allowed(r) == KindOf[r] \in Mcp => reconnect[KindOf[r]] \in {Absent, Prepared(InstallOf[r])}

\* #prunePairingRequests.
Pruned == [r \in Requests |-> IF Open(r) /\ r \in late THEN "expired" ELSE row[r]]

Filling == {r \in Requests : Pruned[r] \in {"pending", "approved"}}

\* findPairedClient: this very installation has a grant in force.
Already(r) == \E g \in Live({KeyOf[r]}) : /\ KindOf[g] = KindOf[r] /\ InstallOf[g] = InstallOf[r]
                                          /\ Paired(KeyOf[r])

\* requestPairing: room among the open requests, and the connector may pair.
Requested(r) ==
    /\ Cardinality(Filling) < MaxPairings
    /\ Allowed(r)
    /\ Revoked(KeyOf[r]) => client[KeyOf[r]].kind \notin Mcp
    /\ row' = [Pruned EXCEPT ![r] = "pending"]
    /\ ours' = ours \cup {r}

\* client.begin: a client already paired is told so, another one may request.
Begin(r) ==
    /\ up /\ row[r] = "none" /\ ~Already(r)
    /\ Requested(r)
    /\ UNCHANGED <<up, late, client, grants, sess, reconnect, revokedBy, prompts, history>>

\* A request that is refused has pruned the others.
BeginRefused ==
    /\ up /\ row' = Pruned
    /\ UNCHANGED <<up, ours, late, client, grants, sess, reconnect, revokedBy, prompts, history>>

\* #activePairing of a pending request.
Active(r) == r \in ours /\ r \notin late /\ row[r] = "pending"

\* client.complete_pairing, proved by the client's key: one prompt for a request.
AskPairing(p, r) ==
    /\ up /\ Active(r)
    /\ \A q \in Slots : prompts[q] # [op |-> "pairing", req |-> r]
    /\ Put(p, [op |-> "pairing", req |-> r], {KeyOf[r]})
    /\ UNCHANGED <<up, ours, late, row, client, grants, sess, reconnect, revokedBy>>

\* The same when the request is late, whatever has become of it.
CompleteLate(r) ==
    /\ up /\ r \in ours /\ r \in late
    /\ row' = [row EXCEPT ![r] = "expired"]
    /\ UNCHANGED <<up, ours, late, client, grants, sess, reconnect, revokedBy, prompts, history>>

\* Mutants: a revoked connector's key may pair again; a paired key is not noticed.
Exchangeable_RevokedKey(r) ==
    /\ ~Paired(KeyOf[r])
    /\ Revoked(KeyOf[r]) => /\ client[KeyOf[r]].kind = KindOf[r]
                            /\ client[KeyOf[r]].install = InstallOf[r]
    /\ Allowed(r)
Exchangeable_PairedKey(r) ==
    /\ Revoked(KeyOf[r]) => /\ KindOf[r] \notin Mcp
                            /\ client[KeyOf[r]].kind = KindOf[r]
                            /\ client[KeyOf[r]].install = InstallOf[r]
    /\ Allowed(r)

\* exchangePairing: the checks on the client the key has, if any.
Exchangeable(r) ==
    /\ ~Paired(KeyOf[r])
    /\ Revoked(KeyOf[r]) => /\ KindOf[r] \notin Mcp
                            /\ client[KeyOf[r]].kind = KindOf[r]
                            /\ client[KeyOf[r]].install = InstallOf[r]
    /\ Allowed(r)

\* The owner agrees: approvePairing, then exchangePairing.
Pair(p, r) ==
    /\ up /\ prompts[p] = [op |-> "pairing", req |-> r]
    /\ Active(r) /\ Exchangeable(r)
    /\ row' = [row EXCEPT ![r] = "paired"]
    /\ client' = [client EXCEPT ![KeyOf[r]] =
                     [status |-> "paired", kind |-> KindOf[r], install |-> InstallOf[r],
                      rev |-> @.rev + 1]]
    /\ grants' = [grants EXCEPT ![r] = "active"]
    /\ reconnect' = [d \in Mcp |-> IF d = KindOf[r] THEN Absent ELSE reconnect[d]]
    /\ TakeMoving(p, KindOf[r])
    /\ UNCHANGED <<up, ours, late, sess, revokedBy>>

\* The owner agreed and the exchange is refused, fails, or is cut short by a
\* crash: the approval stands alone.
ExchangeFails(p, r) ==
    /\ up /\ prompts[p] = [op |-> "pairing", req |-> r]
    /\ Active(r)
    /\ row' = [row EXCEPT ![r] = "approved"]
    /\ Take(p)
    /\ UNCHANGED <<up, ours, late, client, grants, sess, reconnect, revokedBy>>

\* The request ran out between the claim of the prompt and the approval.
PairLate(p, r) ==
    /\ up /\ prompts[p] = [op |-> "pairing", req |-> r]
    /\ r \in late
    /\ row' = [row EXCEPT ![r] = "expired"]
    /\ Take(p)
    /\ UNCHANGED <<up, ours, late, client, grants, sess, reconnect, revokedBy>>

\* The owner refuses, or does not answer in time: denyPairing.
DenyPairing(p, r) ==
    /\ up /\ prompts[p] = [op |-> "pairing", req |-> r]
    /\ row' = [row EXCEPT ![r] = IF @ \in {"pending", "expired"} THEN "denied" ELSE @]
    /\ Take(p)
    /\ UNCHANGED <<up, ours, late, client, grants, sess, reconnect, revokedBy>>

-----------------------------------------------------------------------------
(* Revocation.                                                             *)

\* owner.revoke_client: the target shown is the client as it is.
AskRevocation(p, k) ==
    /\ up /\ Paired(k)
    /\ Put(p, [op |-> "revocation", kind |-> client[k].kind, target |-> Ids({k})], {k})
    /\ UNCHANGED <<up, ours, late, row, client, grants, sess, reconnect, revokedBy>>

\* connectorRevocationTarget
PairedOf(kind) == {k \in Of(kind) : Paired(k)}

\* owner.revoke_connector: every paired client of the kind.
AskConnectorRevocation(p, kind) ==
    LET ks == PairedOf(kind)
    IN /\ up /\ ks # {}
       /\ Put(p, [op |-> "connector-revocation", kind |-> kind, target |-> Ids(ks)], ks)
       /\ UNCHANGED <<up, ours, late, row, client, grants, sess, reconnect, revokedBy>>

\* The clients ks are the target of prompt q, as it was shown.
SameTarget(q, ks) == Ids(ks) = q.target

\* Mutant: a client of the kind that was paired since is revoked with the others.
StillThere_MoreClients(q, ks) ==
    /\ \A k \in ks : Paired(k)
    /\ q.op = "revocation" => SameTarget(q, ks)
    /\ q.op = "connector-revocation" => ks = PairedOf(q.kind)

\* The target is still there to be revoked, and is all there is of the connector.
StillThere(q, ks) ==
    /\ \A k \in ks : Paired(k)
    /\ SameTarget(q, ks)
    /\ q.op = "connector-revocation" => ks = PairedOf(q.kind)

\* Mutant: the sessions that have ended are not revoked.
RevokedSessions_Unended(ks) ==
    [s \in Sessions |-> IF sess[s].status \in {"pending", "active"} /\ SessKey(s) \in ks
                        THEN [sess[s] EXCEPT !.status = "revoked"] ELSE sess[s]]
RevokedSessions(ks) ==
    [s \in Sessions |-> IF sess[s].status # "free" /\ SessKey(s) \in ks
                        THEN [sess[s] EXCEPT !.status = "revoked"] ELSE sess[s]]

\* The updates of revokeConnector and #revokeClientWithAudit, one transaction.
RevokeAll(ks, operation) ==
    /\ client' = [k \in Keys |-> IF k \in ks
                     THEN [client[k] EXCEPT !.status = "revoked", !.rev = @ + 1] ELSE client[k]]
    /\ grants' = [r \in Requests |-> IF KeyOf[r] \in ks /\ grants[r] # "none"
                                     THEN "revoked" ELSE grants[r]]
    /\ sess' = RevokedSessions(ks)
    /\ revokedBy' = [k \in Keys |-> IF k \in ks THEN operation ELSE revokedBy[k]]

\* The reconnect rows once a connector kind is revoked.
Closed(kind) == [d \in Mcp |-> IF d = kind THEN Required ELSE reconnect[d]]

\* revokeClient and revokeConnector, the owner having agreed.
Revoke(p) ==
    /\ up /\ prompts[p].op \in {"revocation", "connector-revocation"}
    /\ LET q == prompts[p]
       IN /\ \E ks \in SUBSET Of(q.kind) :
                StillThere(q, ks) /\ RevokeAll(ks, "revoke")
          /\ reconnect' = Closed(q.kind)
          /\ TakeMoving(p, q.kind)
    /\ UNCHANGED <<up, ours, late, row>>

-----------------------------------------------------------------------------
(* Replacing a revoked identity, and rotating a development one.           *)

\* revokedClientReplacementTarget: nothing of the client is left but its rows.
Gone(k) ==
    /\ Revoked(k)
    /\ \A r \in Requests : KeyOf[r] = k => grants[r] \in {"none", "revoked"}
    /\ \A s \in Sessions : sess[s].status # "free" /\ SessKey(s) = k => sess[s].status = "revoked"
Replaceable(kind, install) == \E k \in Keys : Known(kind, install) = {k} /\ Gone(k)

\* #revokedClientRotationTarget: the audit says it was revoked by a rotation.
RotatedAway(k) == Gone(k) /\ revokedBy[k] = "rotation"

\* clientRotationTarget: none known, or one, paired or rotated away before.
Rotatable(kind, install) ==
    \/ Known(kind, install) = {}
    \/ \E k \in Keys : Known(kind, install) = {k} /\ (Paired(k) \/ RotatedAway(k))

\* The snapshot connectorAuthorityDigest is taken of.
Peers(kind) == {[key |-> k, status |-> client[k].status, rev |-> client[k].rev] : k \in Of(kind)}

\* admin.prepare_connector_reconnect.
AskReconnect(p, kind, install, replacement) ==
    LET ks == Known(kind, install)
    IN /\ up /\ install # replacement
       /\ Replaceable(kind, install)
       /\ reconnect[kind] # Absent
       /\ Put(p, [op |-> "reconnect", kind |-> kind, install |-> install,
                  replacement |-> replacement, target |-> Ids(ks),
                  row |-> reconnect[kind], peers |-> Peers(kind)], ks)
       /\ UNCHANGED <<up, ours, late, row, client, grants, sess, reconnect, revokedBy>>

\* admin.prepare_client_rotation, which falls back to a replacement.
AskRotation(p, kind, install, replacement) ==
    LET ks == Known(kind, install)
        op == IF Rotatable(kind, install) THEN "rotation" ELSE "replacement"
    IN /\ up /\ Development /\ install # replacement
       /\ Rotatable(kind, install) \/ Replaceable(kind, install)
       /\ Put(p, [op |-> op, kind |-> kind, install |-> install,
                  replacement |-> replacement, target |-> Ids(ks)], ks)
       /\ UNCHANGED <<up, ours, late, row, client, grants, sess, reconnect, revokedBy>>

\* Mutant: only the revoked identity itself is compared, as it was before the digest.
SameReconnect_NoDigest(q) ==
    /\ Replaceable(q.kind, q.install) /\ SameTarget(q, Known(q.kind, q.install))
    /\ reconnect[q.kind] = q.row /\ q.row # Absent

\* prepareConnectorReconnect: the whole snapshot is compared again.
SameReconnect(q) ==
    /\ Replaceable(q.kind, q.install) /\ SameTarget(q, Known(q.kind, q.install))
    /\ reconnect[q.kind] = q.row /\ q.row # Absent
    /\ Peers(q.kind) = q.peers

Prepare(q) == reconnect' = [reconnect EXCEPT ![q.kind] = Prepared(q.replacement)]

\* The owner agrees to a reconnect prompt.
PrepareReconnect(p) ==
    /\ up /\ prompts[p].op = "reconnect"
    /\ SameReconnect(prompts[p]) /\ Prepare(prompts[p])
    /\ Take(p)
    /\ UNCHANGED <<up, ours, late, row, client, grants, sess, revokedBy>>

\* revokeClientForRotation of a client that is paired: it is revoked.
Rotate(p) ==
    /\ up /\ prompts[p].op = "rotation"
    /\ LET q == prompts[p]
       IN \E k \in Keys :
            /\ Known(q.kind, q.install) = {k} /\ Paired(k) /\ SameTarget(q, {k})
            /\ RevokeAll({k}, "rotation")
            /\ Prepare(q)
            /\ TakeMoving(p, q.kind)
    /\ UNCHANGED <<up, ours, late, row>>

\* revokeClientForRotation when there is nothing to revoke, or no longer.
NothingToRotate(q) ==
    LET ks == Known(q.kind, q.install)
    IN q.op = "rotation" /\ SameTarget(q, ks) /\ Rotatable(q.kind, q.install)
                         /\ \A k \in ks : Revoked(k)

\* prepareRevokedClientReplacement
SameReplacement(q) == /\ q.op = "replacement" /\ SameTarget(q, Known(q.kind, q.install))
                      /\ Replaceable(q.kind, q.install)

PrepareRotation(p) ==
    /\ up
    /\ NothingToRotate(prompts[p]) \/ SameReplacement(prompts[p])
    /\ Prepare(prompts[p])
    /\ Take(p)
    /\ UNCHANGED <<up, ours, late, row, client, grants, sess, revokedBy>>

\* #executeApprovedAdmin: what the owner agreed to, by the kind of the prompt.
ExecuteAdmin(p) == PrepareReconnect(p) \/ Rotate(p) \/ PrepareRotation(p)

\* A prompt is gone and nothing was done: refused, timed out, its connection
\* closed, answered by another connection, or its target has changed.
Drop(p) ==
    /\ up /\ prompts[p] # Nothing
    /\ Take(p)
    /\ UNCHANGED <<up, ours, late, row, client, grants, sess, reconnect, revokedBy>>

-----------------------------------------------------------------------------
(* Sessions, as far as revocation is concerned.                            *)

\* requestActivation under grant r.
RequestSession(s, r) ==
    /\ up /\ sess[s].status = "free"
    /\ grants[r] = "active" /\ Paired(KeyOf[r])
    /\ sess' = [sess EXCEPT ![s] = [status |-> "pending", grant |-> r]]
    /\ ours' = ours \cup {s}
    /\ UNCHANGED <<up, late, row, client, grants, reconnect, revokedBy, prompts, history>>

\* #activateSession: WorkSessions says when.
Activate(s) ==
    /\ up /\ sess[s].status = "pending" /\ s \in ours
    /\ grants[sess[s].grant] = "active" /\ Paired(SessKey(s))
    /\ sess' = [sess EXCEPT ![s].status = "active"]
    /\ UNCHANGED <<up, ours, late, row, client, grants, reconnect, revokedBy, prompts, history>>

\* An activation is refused (revoked) or runs out; a session expires or is
\* disconnected.
EndSession(s) ==
    /\ up
    /\ \/ sess[s].status = "pending" /\ s \in ours
          /\ \E st \in {"ended", "revoked"} : sess' = [sess EXCEPT ![s].status = st]
       \/ sess[s].status = "active" /\ sess' = [sess EXCEPT ![s].status = "ended"]
    /\ UNCHANGED <<up, ours, late, row, client, grants, reconnect, revokedBy, prompts, history>>

-----------------------------------------------------------------------------
\* No prompt outlives the process or the unlocked vault.
Down == /\ up' = FALSE
        /\ prompts' = [p \in Slots |-> Nothing]
        /\ shown' = [p \in Slots |-> {}] /\ moved' = [p \in Slots |-> FALSE]

Crash == /\ up /\ Down
         /\ UNCHANGED <<ours, late, row, client, grants, sess, reconnect, revokedBy>>

\* invalidateEphemeralAuthorityForLock.
Lock ==
    /\ up /\ Down
    /\ row' = [r \in Requests |-> IF Open(r) THEN "expired" ELSE row[r]]
    /\ sess' = [s \in Sessions |-> IF sess[s].status \in {"pending", "active"}
                                   THEN [sess[s] EXCEPT !.status = "ended"] ELSE sess[s]]
    /\ UNCHANGED <<ours, late, client, grants, reconnect, revokedBy>>

\* The constructor: sessions of another boot are invalidated, requests are not.
Start ==
    /\ ~up /\ up' = TRUE
    /\ ours' = {}
    /\ sess' = [s \in Sessions |-> IF sess[s].status = "active"
                                   THEN [sess[s] EXCEPT !.status = "ended"] ELSE sess[s]]
    /\ UNCHANGED <<late, row, client, grants, reconnect, revokedBy, prompts, history>>

\* A request's five minutes are over.
RunOut(r) ==
    /\ row[r] # "none" /\ r \notin late
    /\ late' = late \cup {r}
    /\ UNCHANGED <<up, ours, row, client, grants, sess, reconnect, revokedBy, prompts, history>>

\* The audit rows that say how clients were revoked are pruned.
PruneAudit ==
    /\ up
    /\ revokedBy' \in [Keys -> {"none", "revoke", "rotation"}]
    /\ \A k \in Keys : revokedBy'[k] \in {revokedBy[k], "none"}
    /\ UNCHANGED <<up, ours, late, row, client, grants, sess, reconnect, prompts, history>>

OnPairing(p, r) == \/ AskPairing(p, r) \/ Pair(p, r) \/ ExchangeFails(p, r)
                   \/ PairLate(p, r) \/ DenyPairing(p, r)
OnAuthority(p) ==
    \/ \E k \in Keys : AskRevocation(p, k)
    \/ \E d \in Kinds : AskConnectorRevocation(p, d)
    \/ \E d \in Mcp, i, j \in Installs : AskReconnect(p, d, i, j) \/ AskRotation(p, d, i, j)
    \/ Revoke(p) \/ ExecuteAdmin(p) \/ Drop(p)
OnSession(s) == (\E r \in Requests : RequestSession(s, r)) \/ Activate(s) \/ EndSession(s)

Next ==
    \/ \E r \in Requests : Begin(r) \/ CompleteLate(r) \/ RunOut(r)
    \/ BeginRefused
    \/ \E p \in Slots, r \in Requests : OnPairing(p, r)
    \/ \E p \in Slots : OnAuthority(p)
    \/ \E s \in Sessions : OnSession(s)
    \/ PruneAudit \/ Crash \/ Lock \/ Start

Spec == Init /\ [][Next]_vars
-----------------------------------------------------------------------------
(* Properties.                                                             *)

TypeOK ==
    /\ up \in BOOLEAN
    /\ ours \subseteq Requests \cup Sessions /\ late \subseteq Requests
    /\ row \in [Requests -> {"none", "pending", "approved", "paired", "denied", "expired"}]
    /\ client \in [Keys -> Client]
    /\ grants \in [Requests -> {"none", "active", "revoked"}]
    /\ sess \in [Sessions -> [status : {"free", "pending", "active", "ended", "revoked"},
                              grant : Requests \cup {NoGrant}]]
    /\ reconnect \in [Mcp -> Reconnect]
    /\ revokedBy \in [Keys -> {"none", "revoke", "rotation"}]
    /\ prompts \in [Slots -> Prompt \cup {Nothing}]
    /\ shown \in [Slots -> SUBSET Requests] /\ moved \in [Slots -> BOOLEAN]

\* A client is paired under exactly one grant, and no other client has one in force,
\* whatever requests for the same key were open when it paired or was revoked.
OneGrantEach ==
    /\ TypeOK
    /\ \A k \in Keys : Cardinality(Live({k})) = (IF Paired(k) THEN 1 ELSE 0)

\* A revocation is whole.  A session that is active, or may still become so, is
\* under a grant in force: revoking a client leaves none, and pairing it again
\* brings none back.  And a connector that was revoked can be replaced: nothing is
\* left of its client that would have the broker refuse, for as long as the vault
\* lives, to prepare a reconnection (unless two of its clients share the install
\* identity).
RevokedIsReplaceable ==
    /\ \A s \in Sessions :
          sess[s].status \in {"pending", "active"} => grants[sess[s].grant] = "active"
    /\ \A k \in Keys : Revoked(k) /\ Known(client[k].kind, client[k].install) = {k} =>
          Replaceable(client[k].kind, client[k].install)

\* The key of a revoked connector is never paired again, even by a request that was
\* open before the revocation, or when a replacement has paired in the meantime.
RevokedKeyStaysOut ==
    [][\A k \in Keys : Revoked(k) /\ client[k].kind \in Mcp => client'[k] = client[k]]_vars

\* The owner revokes what the prompt showed: all of it, nothing else, and each client
\* under the very grant it had then, not one it was given since.
RevokesWhatWasShown ==
    [][LET gone == {r \in Requests : grants[r] = "active" /\ grants'[r] = "revoked"}
       IN gone # {} => \E p \in Slots : /\ prompts[p] # Nothing /\ prompts'[p] = Nothing
                                        /\ shown[p] = gone]_vars

\* Outside development builds, the owner prepares a connector only by answering a
\* prompt that showed its clients as they still are: an answer to an older prompt,
\* after a reconnection and another revocation, prepares nothing.
PreparedAsShown ==
    [][\A d \in Mcp : ~Development /\ reconnect'[d] # reconnect[d]
                                   /\ reconnect'[d].status = "prepared" =>
          \E p \in Slots : /\ prompts[p] # Nothing /\ prompts'[p] = Nothing
                            /\ KindOfPrompt(prompts[p]) = d /\ ~moved[p]]_vars
=============================================================================
