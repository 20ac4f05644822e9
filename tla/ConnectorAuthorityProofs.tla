---------------------- MODULE ConnectorAuthorityProofs ----------------------
(***************************************************************************)
(* Proofs about ConnectorAuthority, for any number of clients, requests    *)
(* and prompts.                                                            *)
(*                                                                         *)
(* A prompt and its answer are far apart, and the argument is about what a *)
(* prompt's snapshot still says when it is answered.  The revision of a    *)
(* client only grows (Grows), and grows with every change of its grants.   *)
(* So a client whose revision is the one the prompt pinned has the grants  *)
(* the prompt showed, and a connector whose clients have changed has one   *)
(* the snapshot does not match, ever again (Holds).                        *)
(***************************************************************************)
EXTENDS ConnectorAuthority, FiniteSetTheorems, TLAPS

-----------------------------------------------------------------------------
(* The inductive invariant.                                                *)

Revocations == {"revocation", "connector-revocation"}
Preparations == {"reconnect", "rotation", "replacement"}

\* A paired client has one grant in force, any other none.
OneEach ==
    \A k \in Keys : IF Paired(k) THEN \E r \in Requests : Live({k}) = {r}
                                 ELSE Live({k}) = {}

\* A session is under a grant, in force if the session may still be used.
SessionsHold ==
    \A s \in Sessions :
        /\ sess[s].status # "free" => sess[s].grant \in Requests
        /\ sess[s].status \in {"pending", "active"} => grants[sess[s].grant] = "active"

\* Every session a revoked client had is revoked.
RevokedAreGone ==
    \A k \in Keys, s \in Sessions :
        Revoked(k) /\ sess[s].status # "free" /\ SessKey(s) = k => sess[s].status = "revoked"

\* What a prompt pinned of its target: the revision is of the past, and if it is the
\* present one the grants shown are those in force.
TargetHolds(p) ==
    prompts[p].op \in Revocations \cup Preparations =>
        /\ \A i \in prompts[p].target :
              /\ i.rev <= client[i.key].rev
              /\ i.rev = client[i.key].rev =>
                    \A r \in Requests : KeyOf[r] = i.key => (r \in shown[p] <=> grants[r] = "active")
        /\ \A r \in shown[p] : \E i \in prompts[p].target : i.key = KeyOf[r]
        /\ prompts[p].op \in Revocations => prompts[p].target # {}

\* What a reconnect prompt pinned of the connector: if its clients have moved, one of
\* them is newer than the snapshot, or not in it.
PeersHold(p) ==
    prompts[p].op = "reconnect" =>
        /\ \A e \in prompts[p].peers : e.rev <= client[e.key].rev
        /\ moved[p] => \E k \in Of(prompts[p].kind) :
                          \A e \in prompts[p].peers : e.key = k => e.rev < client[k].rev

Holds(p) ==
    /\ TargetHolds(p) /\ PeersHold(p)
    /\ prompts[p].op \in {"rotation", "replacement"} => Development

PromptsHold == \A p \in Slots : Holds(p)

IInv == TypeOK /\ OneEach /\ SessionsHold /\ RevokedAreGone /\ PromptsHold
-----------------------------------------------------------------------------
(* Types.                                                                  *)

\* Initially the types hold.
LEMMA InitTypes == Init => TypeOK
<1> USE ConstantsAssumption
<1>1. (CHOOSE d \in Kinds : TRUE) \in Kinds
    OBVIOUS
<1>2. Nothing \in Prompt \cup {Nothing}
    OBVIOUS
<1> QED
    BY <1>1, <1>2 DEF Init, TypeOK, Client, Reconnect, Absent

\* The revision a prompt pins of clients is of their rows.
LEMMA IdsType == ASSUME TypeOK, NEW ks \in SUBSET Keys PROVE Ids(ks) \in SUBSET Identity
    BY DEF Ids, Identity, TypeOK, Client

\* Clients of a kind are clients.
LEMMA OfType ==
    ASSUME NEW kind, NEW install
    PROVE  Known(kind, install) \in SUBSET Keys /\ Of(kind) \in SUBSET Keys
    BY DEF Known, Of

\* The snapshot of a connector is of rows there are.
LEMMA PeersType == ASSUME TypeOK, NEW kind PROVE Peers(kind) \in SUBSET Peer
<1>1. \A k \in Of(kind) : k \in Keys /\ client[k].status \in {"paired", "revoked"} /\ client[k].rev \in Nat
    BY DEF Of, TypeOK, Client
<1> QED
    BY <1>1 DEF Peers, Peer

\* Putting a prompt before the owner, answering and dropping it keep the types.
LEMMA PutTypes ==
    ASSUME TypeOK, NEW p \in Slots, NEW q \in Prompt, NEW ks, Put(p, q, ks)
    PROVE  /\ prompts' \in [Slots -> Prompt \cup {Nothing}]
           /\ shown' \in [Slots -> SUBSET Requests] /\ moved' \in [Slots -> BOOLEAN]
<1>1. Live(ks) \in SUBSET Requests
    BY DEF Live
<1> QED
    BY <1>1 DEF TypeOK, Put

LEMMA TakenTypes ==
    ASSUME TypeOK, NEW p \in Slots, Taken(p)
    PROVE  /\ prompts' \in [Slots -> Prompt \cup {Nothing}]
           /\ shown' \in [Slots -> SUBSET Requests]
    BY DEF TypeOK, Taken

LEMMA TakeTypes ==
    ASSUME TypeOK, NEW p \in Slots, NEW kind, Take(p) \/ TakeMoving(p, kind)
    PROVE  /\ prompts' \in [Slots -> Prompt \cup {Nothing}]
           /\ shown' \in [Slots -> SUBSET Requests] /\ moved' \in [Slots -> BOOLEAN]
<1>1. Taken(p)
    BY DEF Take, TakeMoving
<1>2. moved' \in [Slots -> BOOLEAN]
  <2>1. CASE Take(p)
        BY <2>1 DEF Take, TypeOK
  <2>2. CASE TakeMoving(p, kind)
        BY <2>2 DEF TakeMoving
  <2> QED
        BY <2>1, <2>2
<1> QED
    BY <1>1, <1>2, TakenTypes

\* Revoking clients keeps the types of what it changes.
LEMMA RevokeAllTypes ==
    ASSUME TypeOK, NEW ks, NEW operation \in {"revoke", "rotation"}, RevokeAll(ks, operation)
    PROVE  /\ client' \in [Keys -> Client]
           /\ grants' \in [Requests -> {"none", "active", "revoked"}]
           /\ sess' \in [Sessions -> [status : {"free", "pending", "active", "ended", "revoked"},
                                      grant : Requests \cup {NoGrant}]]
           /\ revokedBy' \in [Keys -> {"none", "revoke", "rotation"}]
<1> USE DEF TypeOK, RevokeAll
<1>1. client' \in [Keys -> Client]
  <2>1. ASSUME NEW c \in Client
        PROVE  [c EXCEPT !.status = "revoked", !.rev = @ + 1] \in Client
    <3> HIDE DEF TypeOK, RevokeAll
    <3> DEFINE d == [c EXCEPT !.status = "revoked"]
    <3>1. d \in Client
        BY DEF Client
    <3>2. [d EXCEPT !.rev = @ + 1] \in Client
      <4> HIDE DEF d
      <4> QED
        BY <3>1 DEF Client
    <3> QED
        BY <3>2
  <2> QED
        BY <2>1
<1>2. grants' \in [Requests -> {"none", "active", "revoked"}]
    OBVIOUS
<1>3. sess' \in [Sessions -> [status : {"free", "pending", "active", "ended", "revoked"},
                              grant : Requests \cup {NoGrant}]]
  <2>1. ASSUME NEW c \in [status : {"free", "pending", "active", "ended", "revoked"},
                          grant : Requests \cup {NoGrant}]
        PROVE  [c EXCEPT !.status = "revoked"]
                   \in [status : {"free", "pending", "active", "ended", "revoked"},
                       grant : Requests \cup {NoGrant}]
    <3> HIDE DEF TypeOK, RevokeAll
    <3> QED
        OBVIOUS
  <2> QED
        BY <2>1 DEF RevokedSessions
<1>4. revokedBy' \in [Keys -> {"none", "revoke", "rotation"}]
    OBVIOUS
<1> QED
    BY <1>1, <1>2, <1>3, <1>4

\* A pairing is a prompt there may be, and so on for each kind of prompt.
LEMMA PairingPrompt ==
    ASSUME NEW r \in Requests PROVE [op |-> "pairing", req |-> r] \in Prompt
    BY DEF Prompt

LEMMA RevocationPrompt ==
    ASSUME TypeOK, NEW op \in Revocations, NEW kind \in Kinds, NEW ks \in SUBSET Keys
    PROVE  [op |-> op, kind |-> kind, target |-> Ids(ks)] \in Prompt
<1>1. Ids(ks) \in SUBSET Identity
    BY IdsType
<1> QED
    BY <1>1 DEF Prompt, Revocations

LEMMA RotationPrompt ==
    ASSUME TypeOK, NEW op \in {"rotation", "replacement"}, NEW kind \in Mcp,
           NEW install \in Installs, NEW replacement \in Installs
    PROVE  [op |-> op, kind |-> kind, install |-> install, replacement |-> replacement,
            target |-> Ids(Known(kind, install))] \in Prompt
<1>1. Ids(Known(kind, install)) \in SUBSET Identity
    BY IdsType, OfType
<1> QED
    BY <1>1 DEF Prompt

LEMMA ReconnectPrompt ==
    ASSUME TypeOK, NEW kind \in Mcp, NEW install \in Installs, NEW replacement \in Installs
    PROVE  [op |-> "reconnect", kind |-> kind, install |-> install,
            replacement |-> replacement, target |-> Ids(Known(kind, install)),
            row |-> reconnect[kind], peers |-> Peers(kind)] \in Prompt
<1>1. Ids(Known(kind, install)) \in SUBSET Identity
    BY IdsType, OfType
<1>2. Peers(kind) \in SUBSET Peer
    BY PeersType
<1>3. reconnect[kind] \in Reconnect
    BY DEF TypeOK
<1> QED
    BY <1>1, <1>2, <1>3 DEF Prompt

\* What each kind of prompt holds.
LEMMA PromptShape ==
    ASSUME NEW q \in Prompt \cup {Nothing}
    PROVE  /\ q.op \in {"none", "pairing"} \cup Revocations \cup Preparations
           /\ q.op = "pairing" => q.req \in Requests /\ q = [op |-> "pairing", req |-> q.req]
           /\ q.op \in Revocations \cup Preparations =>
                 q.kind \in Kinds /\ q.target \in SUBSET Identity /\ q # Nothing
           /\ q.op \in Preparations => q.kind \in Mcp /\ q.replacement \in Installs
           /\ q.op = "reconnect" => q.peers \in SUBSET Peer
           /\ q.op = "none" <=> q = Nothing
<1> USE ConstantsAssumption DEF Revocations, Preparations
<1>1. CASE q = Nothing
    BY <1>1 DEF Nothing
<1>2. CASE q \in [op : {"pairing"}, req : Requests]
    BY <1>2 DEF Nothing
<1>3. CASE q \in [op : {"revocation", "connector-revocation"}, kind : Kinds, target : SUBSET Identity]
    BY <1>3 DEF Nothing
<1>4. CASE q \in [op : {"reconnect"}, kind : Mcp, install : Installs, replacement : Installs,
                  target : SUBSET Identity, row : Reconnect, peers : SUBSET Peer]
    BY <1>4 DEF Nothing
<1>5. CASE q \in [op : {"rotation", "replacement"}, kind : Mcp, install : Installs,
                  replacement : Installs, target : SUBSET Identity]
    BY <1>5 DEF Nothing
<1> QED
    BY <1>1, <1>2, <1>3, <1>4, <1>5 DEF Prompt

\* The rows of the requests that a new one prunes.
LEMMA PrunedType ==
    ASSUME TypeOK
    PROVE  Pruned \in [Requests -> {"none", "pending", "approved", "paired", "denied", "expired"}]
    BY DEF TypeOK, Pruned

\* Every step keeps the types.
LEMMA NextTypes == TypeOK /\ [Next]_vars => TypeOK'
<1> SUFFICES ASSUME TypeOK, [Next]_vars PROVE TypeOK'
    OBVIOUS
<1> USE ConstantsAssumption
<1>1. ASSUME NEW r \in Requests, Begin(r) \/ CompleteLate(r) \/ RunOut(r) PROVE TypeOK'
  <2>1. CASE Begin(r)
    <3>1. row' \in [Requests -> {"none", "pending", "approved", "paired", "denied", "expired"}]
        BY <2>1, PrunedType DEF Begin, Requested
    <3> QED
        BY <2>1, <3>1 DEF Begin, Requested, TypeOK, history
  <2>2. CASE CompleteLate(r)
        BY <2>2 DEF CompleteLate, TypeOK, history
  <2>3. CASE RunOut(r)
        BY <2>3 DEF RunOut, TypeOK, history
  <2> QED
        BY <1>1, <2>1, <2>2, <2>3
<1>2. ASSUME BeginRefused PROVE TypeOK'
    BY <1>2, PrunedType DEF BeginRefused, TypeOK, history
<1>3. ASSUME NEW p \in Slots, NEW r \in Requests, OnPairing(p, r) PROVE TypeOK'
  <2>1. CASE AskPairing(p, r)
    <3>1. Put(p, [op |-> "pairing", req |-> r], {KeyOf[r]})
        BY <2>1 DEF AskPairing
    <3>2. /\ prompts' \in [Slots -> Prompt \cup {Nothing}]
          /\ shown' \in [Slots -> SUBSET Requests] /\ moved' \in [Slots -> BOOLEAN]
        BY <3>1, PairingPrompt, PutTypes
    <3> QED
        BY <2>1, <3>2 DEF AskPairing, TypeOK
  <2>2. CASE Pair(p, r)
    <3>1. /\ prompts' \in [Slots -> Prompt \cup {Nothing}]
          /\ shown' \in [Slots -> SUBSET Requests] /\ moved' \in [Slots -> BOOLEAN]
        BY <2>2, TakeTypes DEF Pair
    <3>2. /\ KeyOf[r] \in Keys /\ KindOf[r] \in Kinds /\ InstallOf[r] \in Installs
          /\ client[KeyOf[r]].rev \in Nat
        BY DEF TypeOK, Client
    <3>3. client' \in [Keys -> Client]
      <4>1. [status |-> "paired", kind |-> KindOf[r], install |-> InstallOf[r],
             rev |-> client[KeyOf[r]].rev + 1] \in Client
            BY <3>2 DEF Client
      <4> QED
            BY <2>2, <4>1 DEF Pair, TypeOK
    <3>4. reconnect' \in [Mcp -> Reconnect]
        BY <2>2 DEF Pair, TypeOK, Absent, Reconnect
    <3> QED
        BY <2>2, <3>1, <3>3, <3>4 DEF Pair, TypeOK
  <2>3. CASE ExchangeFails(p, r) \/ PairLate(p, r) \/ DenyPairing(p, r)
    <3>1. /\ prompts' \in [Slots -> Prompt \cup {Nothing}]
          /\ shown' \in [Slots -> SUBSET Requests] /\ moved' \in [Slots -> BOOLEAN]
        BY <2>3, TakeTypes DEF ExchangeFails, PairLate, DenyPairing
    <3>2. row' \in [Requests -> {"none", "pending", "approved", "paired", "denied", "expired"}]
        BY <2>3 DEF ExchangeFails, PairLate, DenyPairing, TypeOK
    <3> QED
        BY <2>3, <3>1, <3>2 DEF ExchangeFails, PairLate, DenyPairing, TypeOK
  <2> QED
        BY <1>3, <2>1, <2>2, <2>3 DEF OnPairing
<1>4. ASSUME NEW p \in Slots, OnAuthority(p) PROVE TypeOK'
  <2>1. ASSUME NEW k \in Keys, AskRevocation(p, k) PROVE TypeOK'
    <3>1. client[k].kind \in Kinds
        BY DEF TypeOK, Client
    <3>2. /\ prompts' \in [Slots -> Prompt \cup {Nothing}]
          /\ shown' \in [Slots -> SUBSET Requests] /\ moved' \in [Slots -> BOOLEAN]
      <4>1. [op |-> "revocation", kind |-> client[k].kind, target |-> Ids({k})] \in Prompt
            BY <3>1, RevocationPrompt DEF Revocations
      <4> QED
            BY <2>1, <4>1, PutTypes DEF AskRevocation
    <3> QED
        BY <2>1, <3>2 DEF AskRevocation, TypeOK
  <2>2. ASSUME NEW d \in Kinds, AskConnectorRevocation(p, d) PROVE TypeOK'
    <3>1. /\ prompts' \in [Slots -> Prompt \cup {Nothing}]
          /\ shown' \in [Slots -> SUBSET Requests] /\ moved' \in [Slots -> BOOLEAN]
      <4>1. PairedOf(d) \in SUBSET Keys
            BY DEF PairedOf, Of
      <4>2. [op |-> "connector-revocation", kind |-> d, target |-> Ids(PairedOf(d))] \in Prompt
            BY <4>1, RevocationPrompt DEF Revocations
      <4> QED
            BY <2>2, <4>2, PutTypes DEF AskConnectorRevocation
    <3> QED
        BY <2>2, <3>1 DEF AskConnectorRevocation, TypeOK
  <2>3. ASSUME NEW d \in Mcp, NEW i \in Installs, NEW j \in Installs, AskReconnect(p, d, i, j)
        PROVE  TypeOK'
    <3>1. /\ prompts' \in [Slots -> Prompt \cup {Nothing}]
          /\ shown' \in [Slots -> SUBSET Requests] /\ moved' \in [Slots -> BOOLEAN]
        BY <2>3, ReconnectPrompt, PutTypes DEF AskReconnect
    <3> QED
        BY <2>3, <3>1 DEF AskReconnect, TypeOK
  <2>4. ASSUME NEW d \in Mcp, NEW i \in Installs, NEW j \in Installs, AskRotation(p, d, i, j)
        PROVE  TypeOK'
    <3> DEFINE op == IF Rotatable(d, i) THEN "rotation" ELSE "replacement"
               q == [op |-> op, kind |-> d, install |-> i, replacement |-> j,
                     target |-> Ids(Known(d, i))]
    <3>1. q \in Prompt
        BY RotationPrompt
    <3>2. Put(p, q, Known(d, i))
        BY <2>4 DEF AskRotation
    <3>3. /\ prompts' \in [Slots -> Prompt \cup {Nothing}]
          /\ shown' \in [Slots -> SUBSET Requests] /\ moved' \in [Slots -> BOOLEAN]
      <4> HIDE DEF q
      <4> QED
        BY <3>1, <3>2, PutTypes
    <3> QED
        BY <2>4, <3>3 DEF AskRotation, TypeOK
  <2>5. CASE Revoke(p)
    <3>1. PICK ks \in SUBSET Of(prompts[p].kind) : RevokeAll(ks, "revoke")
        BY <2>5 DEF Revoke
    <3>2. /\ client' \in [Keys -> Client]
          /\ grants' \in [Requests -> {"none", "active", "revoked"}]
          /\ sess' \in [Sessions -> [status : {"free", "pending", "active", "ended", "revoked"},
                                     grant : Requests \cup {NoGrant}]]
          /\ revokedBy' \in [Keys -> {"none", "revoke", "rotation"}]
        BY <3>1, RevokeAllTypes
    <3>3. /\ prompts' \in [Slots -> Prompt \cup {Nothing}]
          /\ shown' \in [Slots -> SUBSET Requests] /\ moved' \in [Slots -> BOOLEAN]
        BY <2>5, TakeTypes DEF Revoke
    <3>4. reconnect' \in [Mcp -> Reconnect]
        BY <2>5 DEF Revoke, Closed, TypeOK, Required, Reconnect
    <3> QED
        BY <2>5, <3>2, <3>3, <3>4 DEF Revoke, TypeOK
  <2>6. ASSUME NEW q, q = prompts[p], q.op \in Preparations, Prepare(q)
        PROVE  reconnect' \in [Mcp -> Reconnect]
    <3>1. q.kind \in Mcp /\ q.replacement \in Installs
        BY <2>6, PromptShape DEF TypeOK
    <3>2. Prepared(q.replacement) \in Reconnect
        BY <3>1 DEF Prepared, Reconnect
    <3> QED
        BY <2>6, <3>2 DEF Prepare, TypeOK
  <2>7. CASE PrepareReconnect(p) \/ PrepareRotation(p)
    <3>1. prompts[p].op \in Preparations /\ Prepare(prompts[p])
        BY <2>7 DEF PrepareReconnect, PrepareRotation, NothingToRotate, SameReplacement, Preparations
    <3>2. /\ prompts' \in [Slots -> Prompt \cup {Nothing}]
          /\ shown' \in [Slots -> SUBSET Requests] /\ moved' \in [Slots -> BOOLEAN]
        BY <2>7, TakeTypes DEF PrepareReconnect, PrepareRotation
    <3> QED
        BY <2>6, <2>7, <3>1, <3>2 DEF PrepareReconnect, PrepareRotation, TypeOK
  <2>8. CASE Rotate(p)
    <3>1. PICK k \in Keys : RevokeAll({k}, "rotation")
        BY <2>8 DEF Rotate
    <3>2. /\ client' \in [Keys -> Client]
          /\ grants' \in [Requests -> {"none", "active", "revoked"}]
          /\ sess' \in [Sessions -> [status : {"free", "pending", "active", "ended", "revoked"},
                                     grant : Requests \cup {NoGrant}]]
          /\ revokedBy' \in [Keys -> {"none", "revoke", "rotation"}]
        BY <3>1, RevokeAllTypes
    <3>3. prompts[p].op \in Preparations /\ Prepare(prompts[p])
        BY <2>8 DEF Rotate, Preparations
    <3>4. /\ prompts' \in [Slots -> Prompt \cup {Nothing}]
          /\ shown' \in [Slots -> SUBSET Requests] /\ moved' \in [Slots -> BOOLEAN]
        BY <2>8, TakeTypes DEF Rotate
    <3> QED
        BY <2>6, <2>8, <3>2, <3>3, <3>4 DEF Rotate, TypeOK
  <2>9. CASE Drop(p)
    <3>1. /\ prompts' \in [Slots -> Prompt \cup {Nothing}]
          /\ shown' \in [Slots -> SUBSET Requests] /\ moved' \in [Slots -> BOOLEAN]
        BY <2>9, TakeTypes DEF Drop
    <3> QED
        BY <2>9, <3>1 DEF Drop, TypeOK
  <2> QED
        BY <1>4, <2>1, <2>2, <2>3, <2>4, <2>5, <2>7, <2>8, <2>9 DEF OnAuthority, ExecuteAdmin
<1>5. ASSUME NEW s \in Sessions, OnSession(s) PROVE TypeOK'
  <2>1. ASSUME NEW r \in Requests, RequestSession(s, r) PROVE TypeOK'
        BY <2>1 DEF RequestSession, TypeOK, history
  <2>2. CASE Activate(s)
        BY <2>2 DEF Activate, TypeOK, history
  <2>3. CASE EndSession(s)
        BY <2>3 DEF EndSession, TypeOK, history
  <2> QED
        BY <1>5, <2>1, <2>2, <2>3 DEF OnSession
<1>6. CASE PruneAudit
    BY <1>6 DEF PruneAudit, TypeOK, history
<1>7. CASE Crash
    BY <1>7 DEF Crash, Down, TypeOK
<1>8. CASE Lock
    BY <1>8, ZenonT(30) DEF Lock, Down, TypeOK
<1>9. CASE Start
    BY <1>9 DEF Start, TypeOK, history
<1>10. CASE UNCHANGED vars
    BY <1>10 DEF vars, TypeOK
<1> QED
    BY <1>1, <1>2, <1>3, <1>4, <1>5, <1>6, <1>7, <1>8, <1>9, <1>10 DEF Next
-----------------------------------------------------------------------------
(* What a step does to authority: nothing, a pairing, or a withdrawal.     *)

Kept == client' = client /\ grants' = grants

\* The clients ks are revoked by the answer to prompt p.
Withdraws(p, ks, operation) ==
    /\ operation \in {"revoke", "rotation"}
    /\ ks \in SUBSET Of(prompts[p].kind)
    /\ \A k \in ks : Paired(k)
    /\ SameTarget(prompts[p], ks)
    /\ prompts[p].op \in Revocations \cup {"rotation"}
    /\ prompts[p].op = "rotation" => ks # {}
    /\ RevokeAll(ks, operation)
    /\ TakeMoving(p, prompts[p].kind)

\* A session stays as it is, or one that could still be used comes to be used or not.
Calm(s) ==
    \/ sess'[s] = sess[s]
    \/ /\ sess[s].status \in {"pending", "active"} /\ sess'[s].status # "free"
       /\ sess'[s].grant = sess[s].grant

\* The rows of the clients revoked, and of the others.
LEMMA RevokedFields ==
    ASSUME TypeOK, NEW ks, NEW operation, RevokeAll(ks, operation), NEW k \in Keys
    PROVE  /\ k \in ks => /\ client'[k].status = "revoked" /\ client'[k].kind = client[k].kind
                          /\ client'[k].rev = client[k].rev + 1
           /\ k \notin ks => client'[k] = client[k]
<1>1. client[k].rev \in Nat /\ client[k] \in Client
    BY DEF TypeOK, Client
<1>2. client'[k] = IF k \in ks THEN [client[k] EXCEPT !.status = "revoked", !.rev = @ + 1]
                               ELSE client[k]
    BY DEF RevokeAll
<1>3. ASSUME NEW c \in Client
      PROVE  LET d == [c EXCEPT !.status = "revoked", !.rev = @ + 1]
             IN d.status = "revoked" /\ d.kind = c.kind /\ d.rev = c.rev + 1
  <2> DEFINE d == [c EXCEPT !.status = "revoked"]
  <2>1. d \in Client /\ d.status = "revoked" /\ d.kind = c.kind /\ d.rev = c.rev
        BY DEF Client
  <2>2. LET e == [d EXCEPT !.rev = @ + 1] IN e.status = d.status /\ e.kind = d.kind /\ e.rev = d.rev + 1
    <3> HIDE DEF d
    <3> QED
        BY <2>1 DEF Client
  <2> QED
        BY <2>1, <2>2
<1> QED
    BY <1>1, <1>2, <1>3

\* A paired client's row.
LEMMA PairedFields ==
    ASSUME TypeOK, NEW p, NEW r \in Requests, Pair(p, r)
    PROVE  /\ KeyOf[r] \in Keys /\ ~Paired(KeyOf[r])
           /\ client'[KeyOf[r]] = [status |-> "paired", kind |-> KindOf[r],
                                   install |-> InstallOf[r], rev |-> client[KeyOf[r]].rev + 1]
           /\ client[KeyOf[r]].status # "none" =>
                 KindOf[r] \notin Mcp /\ client[KeyOf[r]].kind = KindOf[r]
           /\ \A k \in Keys \ {KeyOf[r]} : client'[k] = client[k]
           /\ grants'[r] = "active"
           /\ \A o \in Requests \ {r} : grants'[o] = grants[o]
<1>1. KeyOf[r] \in Keys
    BY ConstantsAssumption
<1>2. client[KeyOf[r]].status \in {"none", "paired", "revoked"}
    BY <1>1 DEF TypeOK, Client
<1> QED
    BY <1>1, <1>2 DEF Pair, Exchangeable, TypeOK, Paired, Revoked

\* The owner's yes to a revocation or a rotation withdraws what the prompt named.
LEMMA AnswersWithdraw ==
    ASSUME NEW p, Revoke(p) \/ Rotate(p)
    PROVE  \E ks, operation : Withdraws(p, ks, operation)
<1>1. CASE Revoke(p)
  <2>1. PICK ks \in SUBSET Of(prompts[p].kind) :
           StillThere(prompts[p], ks) /\ RevokeAll(ks, "revoke")
        BY <1>1 DEF Revoke
  <2>2. Withdraws(p, ks, "revoke")
        BY <1>1, <2>1 DEF Revoke, StillThere, Withdraws, Revocations
  <2> QED
        BY <2>2
<1>2. CASE Rotate(p)
  <2>1. PICK k \in Keys : /\ Known(prompts[p].kind, prompts[p].install) = {k}
                          /\ Paired(k) /\ SameTarget(prompts[p], {k})
                          /\ RevokeAll({k}, "rotation") /\ TakeMoving(p, prompts[p].kind)
        BY <1>2 DEF Rotate
  <2>2. {k} \in SUBSET Of(prompts[p].kind)
        BY <2>1 DEF Known
  <2>3. Withdraws(p, {k}, "rotation")
        BY <1>2, <2>1, <2>2 DEF Rotate, Withdraws
  <2> QED
        BY <2>3
<1> QED
    BY <1>1, <1>2

\* Every step is one of these.
LEMMA AuthoritySteps ==
    ASSUME TypeOK, [Next]_vars
    PROVE  \/ Kept /\ \A s \in Sessions : Calm(s)
           \/ Kept /\ \E s \in Sessions, r \in Requests : RequestSession(s, r)
           \/ \E p \in Slots, r \in Requests : Pair(p, r)
           \/ \E p \in Slots : \E ks, operation : Withdraws(p, ks, operation)
<1>1. ASSUME NEW r \in Requests, Begin(r) \/ CompleteLate(r) \/ RunOut(r)
      PROVE  Kept /\ \A s \in Sessions : Calm(s)
    BY <1>1 DEF Begin, CompleteLate, RunOut, Kept, Calm
<1>2. ASSUME BeginRefused \/ PruneAudit \/ Crash \/ UNCHANGED vars
      PROVE  Kept /\ \A s \in Sessions : Calm(s)
    BY <1>2 DEF BeginRefused, PruneAudit, Crash, vars, Kept, Calm
<1>3. ASSUME NEW p \in Slots, NEW r \in Requests, OnPairing(p, r), ~Pair(p, r)
      PROVE  Kept /\ \A s \in Sessions : Calm(s)
    BY <1>3 DEF OnPairing, AskPairing, ExchangeFails, PairLate, DenyPairing, Kept, Calm
<1>4. ASSUME NEW p \in Slots, OnAuthority(p)
      PROVE  \/ Kept /\ \A s \in Sessions : Calm(s)
             \/ \E ks, operation : Withdraws(p, ks, operation)
  <2>1. CASE Revoke(p) \/ Rotate(p)
        BY <2>1, AnswersWithdraw
  <2>2. CASE ~Revoke(p) /\ ~Rotate(p)
        BY <1>4, <2>2, ZenonT(30) DEF OnAuthority, ExecuteAdmin, AskRevocation, AskConnectorRevocation,
           AskReconnect, AskRotation, PrepareReconnect, PrepareRotation, Drop, Kept, Calm
  <2> QED
        BY <2>1, <2>2
<1>5. ASSUME NEW s \in Sessions, OnSession(s)
      PROVE  \/ Kept /\ \A o \in Sessions : Calm(o)
             \/ Kept /\ \E r \in Requests : RequestSession(s, r)
  <2>1. CASE \E r \in Requests : RequestSession(s, r)
        BY <2>1 DEF RequestSession, Kept
  <2>2. CASE Activate(s)
        BY <2>2 DEF Activate, Kept, Calm, TypeOK
  <2>3. CASE EndSession(s)
        BY <2>3 DEF EndSession, Kept, Calm, TypeOK
  <2> QED
        BY <1>5, <2>1, <2>2, <2>3 DEF OnSession
<1>6. ASSUME Lock PROVE Kept /\ \A s \in Sessions : Calm(s)
    BY <1>6 DEF Lock, Kept, Calm, TypeOK
<1>7. ASSUME Start PROVE Kept /\ \A s \in Sessions : Calm(s)
    BY <1>7 DEF Start, Kept, Calm, TypeOK
<1> QED
    BY <1>1, <1>2, <1>3, <1>4, <1>5, <1>6, <1>7 DEF Next

\* A client's revision never falls; it grows with every change of its row or of its
\* grants; and a client stays of the kind it was first paired as.
Grows ==
    \A k \in Keys :
        /\ client[k].rev <= client'[k].rev
        /\ client[k].status # "none" =>
              client'[k].status # "none" /\ client'[k].kind = client[k].kind
        /\ client'[k].rev = client[k].rev =>
              /\ client'[k] = client[k]
              /\ \A r \in Requests : KeyOf[r] = k => grants'[r] = grants[r]

LEMMA StepGrows == ASSUME TypeOK, [Next]_vars PROVE Grows
<1>1. \A k \in Keys : client[k].rev \in Nat
    BY DEF TypeOK, Client
<1>2. CASE Kept
    BY <1>1, <1>2 DEF Kept, Grows
<1>3. ASSUME NEW p \in Slots, NEW r \in Requests, Pair(p, r) PROVE Grows
  <2>1. /\ client'[KeyOf[r]].rev = client[KeyOf[r]].rev + 1
        /\ client'[KeyOf[r]].status = "paired" /\ client'[KeyOf[r]].kind = KindOf[r]
        /\ client[KeyOf[r]].status # "none" => client[KeyOf[r]].kind = KindOf[r]
    <3>1. /\ client'[KeyOf[r]] = [status |-> "paired", kind |-> KindOf[r],
                                  install |-> InstallOf[r], rev |-> client[KeyOf[r]].rev + 1]
          /\ client[KeyOf[r]].status # "none" => client[KeyOf[r]].kind = KindOf[r]
        BY <1>3, PairedFields
    <3> QED
        BY <3>1
  <2>2. \A k \in Keys \ {KeyOf[r]} : client'[k] = client[k]
        BY <1>3, PairedFields
  <2>3. \A o \in Requests \ {r} : grants'[o] = grants[o]
        BY <1>3, PairedFields
  <2> QED
        BY <1>1, <2>1, <2>2, <2>3 DEF Grows
<1>4. ASSUME NEW p \in Slots, NEW ks, NEW operation, Withdraws(p, ks, operation) PROVE Grows
  <2> SUFFICES ASSUME NEW k \in Keys
               PROVE  /\ client[k].rev <= client'[k].rev
                      /\ client[k].status # "none" =>
                            client'[k].status # "none" /\ client'[k].kind = client[k].kind
                      /\ client'[k].rev = client[k].rev =>
                            /\ client'[k] = client[k]
                            /\ \A r \in Requests : KeyOf[r] = k => grants'[r] = grants[r]
        BY DEF Grows
  <2>1. RevokeAll(ks, operation)
        BY <1>4 DEF Withdraws
  <2>2. CASE k \in ks
        BY <1>1, <2>1, <2>2, RevokedFields
  <2>3. CASE k \notin ks
    <3>1. client'[k] = client[k]
        BY <2>1, <2>3, RevokedFields
    <3>2. \A r \in Requests : KeyOf[r] = k => grants'[r] = grants[r]
        BY <2>1, <2>3 DEF RevokeAll
    <3> QED
        BY <1>1, <3>1, <3>2
  <2> QED
        BY <2>2, <2>3
<1> QED
    BY <1>2, <1>3, <1>4, AuthoritySteps
-----------------------------------------------------------------------------
(* Grants and sessions.                                                    *)

\* A pairing gives the one grant, a withdrawal takes the one there is.
LEMMA StepOneEach == ASSUME TypeOK, OneEach, [Next]_vars PROVE OneEach'
<1>1. CASE Kept
    BY <1>1 DEF Kept, OneEach, Live, Paired
<1>2. ASSUME NEW p \in Slots, NEW r \in Requests, Pair(p, r) PROVE OneEach'
  <2> SUFFICES ASSUME NEW k \in Keys
               PROVE  (IF Paired(k) THEN \E o \in Requests : Live({k}) = {o} ELSE Live({k}) = {})'
        BY DEF OneEach
  <2>1. CASE k = KeyOf[r]
    <3>1. Live({k}) = {} /\ grants'[r] = "active"
        BY <1>2, <2>1, PairedFields DEF OneEach
    <3>2. \A o \in Requests \ {r} : grants'[o] = grants[o]
        BY <1>2, PairedFields
    <3>3. Live({k})' = {r}
        BY <2>1, <3>1, <3>2 DEF Live
    <3>4. client'[k].status = "paired"
      <4>1. client'[k] = [status |-> "paired", kind |-> KindOf[r],
                          install |-> InstallOf[r], rev |-> client[KeyOf[r]].rev + 1]
            BY <1>2, <2>1, PairedFields
      <4> QED
            BY <4>1
    <3> QED
        BY <3>3, <3>4 DEF Paired
  <2>2. CASE k # KeyOf[r]
    <3>1. client'[k] = client[k] /\ \A o \in Requests \ {r} : grants'[o] = grants[o]
        BY <1>2, <2>2, PairedFields
    <3>2. Live({k})' = Live({k})
        BY <2>2, <3>1 DEF Live
    <3> QED
        BY <3>1, <3>2 DEF OneEach, Paired
  <2> QED
        BY <2>1, <2>2
<1>3. ASSUME NEW p \in Slots, NEW ks, NEW operation, Withdraws(p, ks, operation) PROVE OneEach'
  <2> SUFFICES ASSUME NEW k \in Keys
               PROVE  (IF Paired(k) THEN \E o \in Requests : Live({k}) = {o} ELSE Live({k}) = {})'
        BY DEF OneEach
  <2>1. RevokeAll(ks, operation)
        BY <1>3 DEF Withdraws
  <2>2. \A r \in Requests : grants'[r] = IF KeyOf[r] \in ks /\ grants[r] # "none"
                                         THEN "revoked" ELSE grants[r]
        BY <2>1 DEF RevokeAll
  <2>3. CASE k \in ks
    <3>1. client'[k].status = "revoked"
        BY <2>1, <2>3, RevokedFields
    <3>2. Live({k})' = {}
        BY <2>2, <2>3 DEF Live
    <3> QED
        BY <3>1, <3>2 DEF Paired
  <2>4. CASE k \notin ks
    <3>1. client'[k] = client[k]
        BY <2>1, <2>4, RevokedFields
    <3>2. Live({k})' = Live({k})
        BY <2>2, <2>4 DEF Live
    <3> QED
        BY <3>1, <3>2 DEF OneEach, Paired
  <2> QED
        BY <2>3, <2>4
<1> QED
    BY <1>1, <1>2, <1>3, AuthoritySteps

\* Sessions are requested under grants in force, and revoked with them.
LEMMA StepSessions == ASSUME TypeOK, SessionsHold, [Next]_vars PROVE SessionsHold'
<1> SUFFICES ASSUME NEW s \in Sessions
             PROVE  (/\ sess[s].status # "free" => sess[s].grant \in Requests
                     /\ sess[s].status \in {"pending", "active"} => grants[sess[s].grant] = "active")'
    BY DEF SessionsHold
<1>1. CASE Kept /\ \A o \in Sessions : Calm(o)
    BY <1>1 DEF Kept, Calm, SessionsHold
<1>2. ASSUME NEW o \in Sessions, NEW r \in Requests, RequestSession(o, r)
      PROVE  (/\ sess[s].status # "free" => sess[s].grant \in Requests
              /\ sess[s].status \in {"pending", "active"} => grants[sess[s].grant] = "active")'
  <2>1. sess'[s] = IF s = o THEN [status |-> "pending", grant |-> r] ELSE sess[s]
        BY <1>2 DEF RequestSession, TypeOK
  <2>2. grants' = grants /\ grants[r] = "active"
        BY <1>2 DEF RequestSession
  <2> QED
        BY <2>1, <2>2 DEF SessionsHold
<1>3. ASSUME NEW p \in Slots, NEW r \in Requests, Pair(p, r)
      PROVE  (/\ sess[s].status # "free" => sess[s].grant \in Requests
              /\ sess[s].status \in {"pending", "active"} => grants[sess[s].grant] = "active")'
  <2>1. grants'[r] = "active" /\ \A o \in Requests \ {r} : grants'[o] = grants[o]
        BY <1>3, PairedFields
  <2>2. sess' = sess
        BY <1>3 DEF Pair
  <2> QED
        BY <2>1, <2>2 DEF SessionsHold
<1>4. ASSUME NEW p \in Slots, NEW ks, NEW operation, Withdraws(p, ks, operation)
      PROVE  (/\ sess[s].status # "free" => sess[s].grant \in Requests
              /\ sess[s].status \in {"pending", "active"} => grants[sess[s].grant] = "active")'
  <2>1. /\ \A r \in Requests : grants'[r] = IF KeyOf[r] \in ks /\ grants[r] # "none"
                                            THEN "revoked" ELSE grants[r]
        /\ sess'[s] = IF sess[s].status # "free" /\ SessKey(s) \in ks
                      THEN [sess[s] EXCEPT !.status = "revoked"] ELSE sess[s]
        BY <1>4 DEF Withdraws, RevokeAll, RevokedSessions
  <2> QED
        BY <2>1 DEF SessionsHold, SessKey, TypeOK
<1> QED
    BY <1>1, <1>2, <1>3, <1>4, AuthoritySteps

\* A revoked client is asked for no session, and one that is revoked loses all it had.
LEMMA StepGone ==
    ASSUME TypeOK, TypeOK', OneEach, SessionsHold, RevokedAreGone, [Next]_vars
    PROVE  RevokedAreGone'
<1> SUFFICES ASSUME NEW k \in Keys, NEW s \in Sessions,
                    (Revoked(k) /\ sess[s].status # "free" /\ SessKey(s) = k)'
             PROVE  sess'[s].status = "revoked"
    BY DEF RevokedAreGone
<1>1. CASE Kept /\ \A o \in Sessions : Calm(o)
  <2>1. Revoked(k) /\ Live({k}) = {}
        BY <1>1 DEF Kept, Revoked, Paired, OneEach
  <2>2. CASE sess'[s] = sess[s]
        BY <2>1, <2>2 DEF RevokedAreGone, SessKey
  <2>3. CASE sess[s].status \in {"pending", "active"} /\ sess'[s].grant = sess[s].grant
    <3>1. sess[s].grant \in Requests /\ grants[sess[s].grant] = "active"
        BY <2>3 DEF SessionsHold
    <3>2. KeyOf[sess[s].grant] = k
        BY <2>3 DEF SessKey
    <3> QED
        BY <2>1, <3>1, <3>2 DEF Live
  <2> QED
        BY <1>1, <2>2, <2>3 DEF Calm
<1>2. ASSUME NEW o \in Sessions, NEW r \in Requests, RequestSession(o, r)
      PROVE  sess'[s].status = "revoked"
  <2>1. sess'[s] = IF s = o THEN [status |-> "pending", grant |-> r] ELSE sess[s]
        BY <1>2 DEF RequestSession, TypeOK
  <2>2. client' = client /\ Paired(KeyOf[r])
        BY <1>2 DEF RequestSession
  <2> QED
        BY <2>1, <2>2 DEF RevokedAreGone, SessKey, Revoked, Paired
<1>3. ASSUME NEW p \in Slots, NEW r \in Requests, Pair(p, r) PROVE sess'[s].status = "revoked"
  <2>1. sess' = sess
        BY <1>3 DEF Pair
  <2>2. client'[KeyOf[r]].status = "paired"
    <3>1. client'[KeyOf[r]] = [status |-> "paired", kind |-> KindOf[r],
                               install |-> InstallOf[r], rev |-> client[KeyOf[r]].rev + 1]
        BY <1>3, PairedFields
    <3> QED
        BY <3>1
  <2>3. k # KeyOf[r]
        BY <2>2 DEF Revoked
  <2>4. client'[k] = client[k]
        BY <1>3, <2>3, PairedFields
  <2> QED
        BY <2>1, <2>4 DEF RevokedAreGone, SessKey, Revoked
<1>4. ASSUME NEW p \in Slots, NEW ks, NEW operation, Withdraws(p, ks, operation)
      PROVE  sess'[s].status = "revoked"
  <2>1. /\ RevokeAll(ks, operation)
        /\ sess'[s] = IF sess[s].status # "free" /\ SessKey(s) \in ks
                      THEN [sess[s] EXCEPT !.status = "revoked"] ELSE sess[s]
        BY <1>4 DEF Withdraws, RevokeAll, RevokedSessions
  <2>2. sess[s].status # "free" /\ SessKey(s) = k
        BY <2>1 DEF SessKey, TypeOK
  <2>3. CASE k \in ks
        BY <2>1, <2>2, <2>3 DEF TypeOK
  <2>4. CASE k \notin ks
    <3>1. client'[k] = client[k] /\ sess'[s] = sess[s]
        BY <2>1, <2>2, <2>4, RevokedFields
    <3> QED
        BY <2>2, <3>1 DEF RevokedAreGone, Revoked
  <2> QED
        BY <2>3, <2>4
<1> QED
    BY <1>1, <1>2, <1>3, <1>4, AuthoritySteps
-----------------------------------------------------------------------------
(* Prompts.                                                                *)

\* Prompt p stays before the owner; it is out of date if it was, or if a client of its
\* kind moves.
Stays(p) ==
    /\ prompts'[p] = prompts[p] /\ shown'[p] = shown[p]
    /\ moved'[p] => \/ moved[p]
                    \/ \E k \in Keys : /\ client'[k].status # "none"
                                       /\ client'[k].kind = KindOfPrompt(prompts[p])
                                       /\ client[k].rev < client'[k].rev

\* Prompt p is put before the owner; what it shows is so.
Asks(p) ==
    /\ Kept /\ prompts'[p] \in Prompt /\ ~moved'[p]
    /\ prompts'[p].op \in Revocations \cup Preparations =>
          \E ks \in SUBSET Keys : /\ shown'[p] = Live(ks)
                                  /\ prompts'[p].target = Ids(ks)
                                  /\ prompts'[p].op \in Revocations => ks # {}
    /\ prompts'[p].op = "reconnect" => prompts'[p].peers = Peers(prompts'[p].kind)
    /\ prompts'[p].op \in {"rotation", "replacement"} => Development

Goes(p) == prompts'[p] = Nothing

\* Putting a prompt leaves the others.
LEMMA PutStep ==
    ASSUME TypeOK, NEW p \in Slots, NEW q, NEW ks, Put(p, q, ks)
    PROVE  /\ prompts'[p] = q /\ shown'[p] = Live(ks) /\ ~moved'[p]
           /\ \A o \in Slots \ {p} : Stays(o)
    BY DEF Put, Stays, TypeOK

\* So does taking one.
LEMMA TakeStep ==
    ASSUME TypeOK, NEW p \in Slots, Take(p)
    PROVE  \A o \in Slots : Goes(o) \/ Stays(o)
    BY DEF Take, Taken, Goes, Stays, TypeOK

\* And taking one that moves a client of a kind, if it does.
LEMMA MovingStep ==
    ASSUME TypeOK, NEW p \in Slots, NEW kind, TakeMoving(p, kind),
           NEW k \in Keys, client'[k].status # "none", client'[k].kind = kind,
           client[k].rev < client'[k].rev
    PROVE  \A o \in Slots : Goes(o) \/ Stays(o)
    BY DEF TakeMoving, Taken, Goes, Stays, TypeOK

\* Each prompt is put, stays or goes.
LEMMA PromptSteps ==
    ASSUME TypeOK, PromptsHold, [Next]_vars
    PROVE  \A o \in Slots : Asks(o) \/ Stays(o) \/ Goes(o)
<1>1. ASSUME UNCHANGED <<prompts, shown, moved>> PROVE \A o \in Slots : Stays(o)
    BY <1>1 DEF Stays
<1>2. ASSUME NEW r \in Requests, Begin(r) \/ CompleteLate(r) \/ RunOut(r)
      PROVE  \A o \in Slots : Stays(o)
    BY <1>1, <1>2 DEF Begin, CompleteLate, RunOut, history
<1>3. ASSUME BeginRefused \/ PruneAudit \/ Start \/ UNCHANGED vars
      PROVE  \A o \in Slots : Stays(o)
    BY <1>1, <1>3 DEF BeginRefused, PruneAudit, Start, history, vars
<1>4. ASSUME NEW s \in Sessions, OnSession(s) PROVE \A o \in Slots : Stays(o)
    BY <1>1, <1>4 DEF OnSession, RequestSession, Activate, EndSession, history
<1>5. ASSUME Crash \/ Lock PROVE \A o \in Slots : Goes(o)
    BY <1>5 DEF Crash, Lock, Down, Goes
<1>6. ASSUME NEW p \in Slots, NEW r \in Requests, OnPairing(p, r)
      PROVE  \A o \in Slots : Asks(o) \/ Stays(o) \/ Goes(o)
  <2>1. CASE AskPairing(p, r)
    <3>1. Put(p, [op |-> "pairing", req |-> r], {KeyOf[r]}) /\ Kept
        BY <2>1 DEF AskPairing, Kept
    <3>2. Asks(p)
      <4>1. prompts'[p] = [op |-> "pairing", req |-> r] /\ ~moved'[p]
            BY <3>1, PutStep
      <4> QED
            BY <3>1, <4>1, PairingPrompt DEF Asks, Revocations, Preparations
    <3> QED
        BY <3>1, <3>2, PutStep
  <2>2. CASE Pair(p, r)
    <3>1. /\ KeyOf[r] \in Keys
          /\ client'[KeyOf[r]] = [status |-> "paired", kind |-> KindOf[r],
                                  install |-> InstallOf[r], rev |-> client[KeyOf[r]].rev + 1]
        BY <2>2, PairedFields
    <3>2. client[KeyOf[r]].rev \in Nat
        BY <3>1 DEF TypeOK, Client
    <3>3. TakeMoving(p, KindOf[r])
        BY <2>2 DEF Pair
    <3>4. /\ client'[KeyOf[r]].status # "none" /\ client'[KeyOf[r]].kind = KindOf[r]
          /\ client[KeyOf[r]].rev < client'[KeyOf[r]].rev
        BY <3>1, <3>2
    <3> QED
        BY <3>1, <3>3, <3>4, MovingStep
  <2>3. CASE ExchangeFails(p, r) \/ PairLate(p, r) \/ DenyPairing(p, r)
        BY <2>3, TakeStep DEF ExchangeFails, PairLate, DenyPairing
  <2> QED
        BY <1>6, <2>1, <2>2, <2>3 DEF OnPairing
<1>7. ASSUME NEW p \in Slots, OnAuthority(p)
      PROVE  \A o \in Slots : Asks(o) \/ Stays(o) \/ Goes(o)
  <2>1. ASSUME NEW k \in Keys, AskRevocation(p, k)
        PROVE  \A o \in Slots : Asks(o) \/ Stays(o) \/ Goes(o)
    <3> DEFINE q == [op |-> "revocation", kind |-> client[k].kind, target |-> Ids({k})]
    <3>1. Put(p, q, {k}) /\ Kept
        BY <2>1 DEF AskRevocation, Kept
    <3>2. q \in Prompt
      <4>1. client[k].kind \in Kinds
            BY DEF TypeOK, Client
      <4> QED
            BY <4>1, RevocationPrompt DEF Revocations
    <3>3. Asks(p)
      <4>1. prompts'[p] = q /\ shown'[p] = Live({k}) /\ ~moved'[p]
            BY <3>1, PutStep
      <4> QED
            BY <3>1, <3>2, <4>1 DEF Asks
    <3> QED
        BY <3>1, <3>3, PutStep
  <2>2. ASSUME NEW d \in Kinds, AskConnectorRevocation(p, d)
        PROVE  \A o \in Slots : Asks(o) \/ Stays(o) \/ Goes(o)
    <3> DEFINE ks == PairedOf(d)
               q == [op |-> "connector-revocation", kind |-> d, target |-> Ids(ks)]
    <3>1. Put(p, q, ks) /\ Kept /\ ks # {} /\ ks \in SUBSET Keys
        BY <2>2 DEF AskConnectorRevocation, Kept, PairedOf, Of
    <3>2. q \in Prompt
        BY <3>1, RevocationPrompt DEF Revocations
    <3>3. Asks(p)
      <4>1. prompts'[p] = q /\ shown'[p] = Live(ks) /\ ~moved'[p]
            BY <3>1, PutStep
      <4> QED
            BY <3>1, <3>2, <4>1 DEF Asks
    <3> QED
        BY <3>1, <3>3, PutStep
  <2>3. ASSUME NEW d \in Mcp, NEW i \in Installs, NEW j \in Installs, AskReconnect(p, d, i, j)
        PROVE  \A o \in Slots : Asks(o) \/ Stays(o) \/ Goes(o)
    <3> DEFINE ks == Known(d, i)
               q == [op |-> "reconnect", kind |-> d, install |-> i,
                     replacement |-> j, target |-> Ids(ks),
                     row |-> reconnect[d], peers |-> Peers(d)]
    <3>1. Put(p, q, ks) /\ Kept /\ ks \in SUBSET Keys
        BY <2>3, OfType DEF AskReconnect, Kept
    <3>2. q \in Prompt
        BY ReconnectPrompt
    <3>3. Asks(p)
      <4>1. prompts'[p] = q /\ shown'[p] = Live(ks) /\ ~moved'[p]
            BY <3>1, PutStep
      <4> QED
            BY <3>1, <3>2, <4>1 DEF Asks, Revocations
    <3> QED
        BY <3>1, <3>3, PutStep
  <2>4. ASSUME NEW d \in Mcp, NEW i \in Installs, NEW j \in Installs, AskRotation(p, d, i, j)
        PROVE  \A o \in Slots : Asks(o) \/ Stays(o) \/ Goes(o)
    <3> DEFINE ks == Known(d, i)
               op == IF Rotatable(d, i) THEN "rotation" ELSE "replacement"
               q == [op |-> op, kind |-> d, install |-> i, replacement |-> j,
                     target |-> Ids(ks)]
    <3>1. Put(p, q, ks) /\ Kept /\ ks \in SUBSET Keys /\ Development
        BY <2>4, OfType DEF AskRotation, Kept
    <3>2. q \in Prompt
        BY RotationPrompt
    <3>3. Asks(p)
      <4>1. prompts'[p] = q /\ shown'[p] = Live(ks) /\ ~moved'[p]
        <5> HIDE DEF q
        <5> QED
            BY <3>1, PutStep
      <4>2. q.op \in {"rotation", "replacement"} /\ q.target = Ids(ks)
            OBVIOUS
      <4> HIDE DEF q
      <4> QED
            BY <3>1, <3>2, <4>1, <4>2 DEF Asks, Revocations
    <3> HIDE DEF q
    <3> QED
        BY <3>1, <3>3, PutStep
  <2>5. CASE PrepareReconnect(p) \/ PrepareRotation(p) \/ Drop(p)
        BY <2>5, TakeStep DEF PrepareReconnect, PrepareRotation, Drop
  <2>6. CASE Revoke(p) \/ Rotate(p)
    <3>1. PICK ks, operation : Withdraws(p, ks, operation)
        BY <2>6, AnswersWithdraw
    <3>2. ks # {}
      <4>1. prompts[p].op \in Revocations => prompts[p].target # {}
            BY DEF PromptsHold, Holds, TargetHolds
      <4> QED
            BY <3>1, <4>1 DEF Withdraws, SameTarget, Ids
    <3>3. PICK k \in ks : TRUE
        BY <3>2
    <3>4. k \in Keys /\ client[k].status # "none" /\ client[k].kind = prompts[p].kind
        BY <3>1, <3>3 DEF Withdraws, Of
    <3>5. RevokeAll(ks, operation) /\ TakeMoving(p, prompts[p].kind)
        BY <3>1 DEF Withdraws
    <3>6. /\ client'[k].status # "none" /\ client'[k].kind = prompts[p].kind
          /\ client[k].rev < client'[k].rev
      <4>1. client[k].rev \in Nat
            BY <3>4 DEF TypeOK, Client
      <4> QED
            BY <3>3, <3>4, <3>5, <4>1, RevokedFields
    <3> QED
        BY <3>4, <3>5, <3>6, MovingStep
  <2> QED
        BY <1>7, <2>1, <2>2, <2>3, <2>4, <2>5, <2>6 DEF OnAuthority, ExecuteAdmin
<1> QED
    BY <1>2, <1>3, <1>4, <1>5, <1>6, <1>7 DEF Next

\* What a prompt that stays pinned still holds: revisions only grow.
LEMMA StaysHolds ==
    ASSUME TypeOK, TypeOK', Grows, NEW p \in Slots, Holds(p), Stays(p)
    PROVE  Holds(p)'
<1>1. prompts[p] \in Prompt \cup {Nothing}
    BY DEF TypeOK
<1>2. TargetHolds(p)'
  <2> SUFFICES ASSUME prompts[p].op \in Revocations \cup Preparations
               PROVE  /\ \A i \in prompts[p].target :
                            /\ i.rev <= client'[i.key].rev
                            /\ i.rev = client'[i.key].rev =>
                                  \A r \in Requests : KeyOf[r] = i.key =>
                                      (r \in shown[p] <=> grants'[r] = "active")
                      /\ \A r \in shown[p] : \E i \in prompts[p].target : i.key = KeyOf[r]
                      /\ prompts[p].op \in Revocations => prompts[p].target # {}
        BY DEF TargetHolds, Stays
  <2>1. prompts[p].target \in SUBSET Identity
        BY <1>1, PromptShape
  <2>2. ASSUME NEW i \in prompts[p].target
        PROVE  /\ i.rev <= client'[i.key].rev
               /\ i.rev = client'[i.key].rev =>
                     \A r \in Requests : KeyOf[r] = i.key =>
                         (r \in shown[p] <=> grants'[r] = "active")
    <3>1. i.key \in Keys /\ i.rev \in Nat
        BY <2>1, <2>2 DEF Identity
    <3>2. client[i.key].rev \in Nat /\ client'[i.key].rev \in Nat
        BY <3>1 DEF TypeOK, Client
    <3>3. /\ client[i.key].rev <= client'[i.key].rev
          /\ client'[i.key].rev = client[i.key].rev =>
                /\ client'[i.key] = client[i.key]
                /\ \A r \in Requests : KeyOf[r] = i.key => grants'[r] = grants[r]
        BY <3>1 DEF Grows
    <3>4. /\ i.rev <= client[i.key].rev
          /\ i.rev = client[i.key].rev =>
                \A r \in Requests : KeyOf[r] = i.key => (r \in shown[p] <=> grants[r] = "active")
        BY <2>2 DEF Holds, TargetHolds
    <3>5. CASE client'[i.key].rev = client[i.key].rev
        BY <3>3, <3>4, <3>5
    <3>6. CASE client'[i.key].rev # client[i.key].rev
        BY <3>1, <3>2, <3>3, <3>4, <3>6
    <3> QED
        BY <3>5, <3>6
  <2> QED
        BY <2>2 DEF Holds, TargetHolds
<1>3. PeersHold(p)'
  <2> SUFFICES ASSUME prompts[p].op = "reconnect"
               PROVE  /\ \A e \in prompts[p].peers : e.rev <= client'[e.key].rev
                      /\ moved'[p] => \E k \in Of(prompts[p].kind)' :
                            \A e \in prompts[p].peers : e.key = k => e.rev < client'[k].rev
        BY DEF PeersHold, Stays, Of
  <2>1. prompts[p].peers \in SUBSET Peer
        BY <1>1, PromptShape
  <2>2. \A e \in prompts[p].peers : e.key \in Keys /\ e.rev \in Nat
        BY <2>1 DEF Peer
  <2>3. \A k \in Keys : client[k].rev \in Nat /\ client'[k].rev \in Nat
        BY DEF TypeOK, Client
  <2>4. \A e \in prompts[p].peers : e.rev <= client[e.key].rev
        BY DEF Holds, PeersHold
  <2>5. \A e \in prompts[p].peers : e.rev <= client'[e.key].rev
        BY <2>2, <2>3, <2>4 DEF Grows
  <2>6. ASSUME moved[p]
        PROVE  \E k \in Of(prompts[p].kind)' :
                  \A e \in prompts[p].peers : e.key = k => e.rev < client'[k].rev
    <3>1. PICK k \in Of(prompts[p].kind) :
             \A e \in prompts[p].peers : e.key = k => e.rev < client[k].rev
        BY <2>6 DEF Holds, PeersHold
    <3>2. k \in Keys /\ client[k].status # "none" /\ client[k].kind = prompts[p].kind
        BY DEF Of
    <3>3. client'[k].status # "none" /\ client'[k].kind = prompts[p].kind
        BY <3>2 DEF Grows
    <3>4. k \in Of(prompts[p].kind)'
        BY <3>2, <3>3 DEF Of, Stays
    <3>5. \A e \in prompts[p].peers : e.key = k => e.rev < client'[k].rev
        BY <2>2, <2>3, <3>1, <3>2 DEF Grows
    <3> QED
        BY <3>4, <3>5
  <2>7. ASSUME NEW k \in Keys, client'[k].status # "none",
               client'[k].kind = KindOfPrompt(prompts[p]), client[k].rev < client'[k].rev
        PROVE  \E o \in Of(prompts[p].kind)' :
                  \A e \in prompts[p].peers : e.key = o => e.rev < client'[o].rev
    <3>1. k \in Of(prompts[p].kind)'
        BY <2>7 DEF Of, Stays, KindOfPrompt
    <3>2. \A e \in prompts[p].peers : e.key = k => e.rev < client'[k].rev
        BY <2>2, <2>3, <2>4, <2>7
    <3> QED
        BY <3>1, <3>2
  <2> QED
        BY <2>5, <2>6, <2>7 DEF Stays
<1> QED
    BY <1>2, <1>3 DEF Holds, Stays

\* What a new prompt pins is so.
LEMMA AsksHolds ==
    ASSUME TypeOK, TypeOK', NEW p \in Slots, Asks(p)
    PROVE  Holds(p)'
<1>1. \A k \in Keys : client[k].rev \in Nat
    BY DEF TypeOK, Client
<1>2. TargetHolds(p)'
  <2> SUFFICES ASSUME prompts'[p].op \in Revocations \cup Preparations
               PROVE  /\ \A i \in prompts'[p].target :
                            /\ i.rev <= client[i.key].rev
                            /\ i.rev = client[i.key].rev =>
                                  \A r \in Requests : KeyOf[r] = i.key =>
                                      (r \in shown'[p] <=> grants[r] = "active")
                      /\ \A r \in shown'[p] : \E i \in prompts'[p].target : i.key = KeyOf[r]
                      /\ prompts'[p].op \in Revocations => prompts'[p].target # {}
        BY DEF TargetHolds, Asks, Kept
  <2>1. PICK ks \in SUBSET Keys : /\ shown'[p] = Live(ks)
                                  /\ prompts'[p].target = Ids(ks)
                                  /\ prompts'[p].op \in Revocations => ks # {}
        BY DEF Asks
  <2>2. ASSUME NEW i \in Ids(ks)
        PROVE  /\ i.rev <= client[i.key].rev
               /\ \A r \in Requests : KeyOf[r] = i.key => (r \in Live(ks) <=> grants[r] = "active")
    <3>1. PICK k \in ks : i = [key |-> k, rev |-> client[k].rev]
        BY <2>2 DEF Ids
    <3>2. i.key = k /\ i.rev = client[k].rev /\ k \in Keys
        BY <3>1
    <3> QED
        BY <1>1, <3>1, <3>2 DEF Live
  <2>3. \A r \in Live(ks) : \E i \in Ids(ks) : i.key = KeyOf[r]
    <3> SUFFICES ASSUME NEW r \in Live(ks) PROVE \E i \in Ids(ks) : i.key = KeyOf[r]
        OBVIOUS
    <3>1. KeyOf[r] \in ks
        BY DEF Live
    <3>2. [key |-> KeyOf[r], rev |-> client[KeyOf[r]].rev] \in Ids(ks)
        BY <3>1 DEF Ids
    <3> QED
        BY <3>2
  <2>4. ks # {} => Ids(ks) # {}
        BY DEF Ids
  <2> QED
        BY <2>1, <2>2, <2>3, <2>4
<1>3. PeersHold(p)'
  <2> SUFFICES ASSUME prompts'[p].op = "reconnect"
               PROVE  \A e \in prompts'[p].peers : e.rev <= client[e.key].rev
        BY DEF PeersHold, Asks, Kept
  <2>1. prompts'[p].peers = Peers(prompts'[p].kind)
        BY DEF Asks
  <2>2. \A k \in Of(prompts'[p].kind) : k \in Keys
        BY DEF Of
  <2> QED
        BY <1>1, <2>1, <2>2 DEF Peers
<1> QED
    BY <1>2, <1>3 DEF Holds, Asks

\* A place without a prompt pins nothing.
LEMMA GoesHolds == ASSUME NEW p, prompts[p] = Nothing PROVE Holds(p)
    BY DEF Holds, TargetHolds, PeersHold, Nothing, Revocations, Preparations

\* Every step keeps what the prompts pinned.
LEMMA StepPrompts ==
    ASSUME TypeOK, TypeOK', PromptsHold, [Next]_vars
    PROVE  PromptsHold'
<1> SUFFICES ASSUME NEW p \in Slots PROVE Holds(p)'
    BY DEF PromptsHold
<1>1. CASE Asks(p)
    BY <1>1, AsksHolds
<1>2. CASE Stays(p)
    BY <1>2, StepGrows, StaysHolds DEF PromptsHold
<1>3. CASE Goes(p)
    BY <1>3 DEF Goes, Holds, TargetHolds, PeersHold, Nothing, Revocations, Preparations
<1> QED
    BY <1>1, <1>2, <1>3, PromptSteps
-----------------------------------------------------------------------------
(* The inductive invariant holds.                                          *)

LEMMA InitInvariant == Init => IInv
<1> SUFFICES ASSUME Init PROVE IInv
    OBVIOUS
<1>1. TypeOK
    BY InitTypes
<1>2. OneEach
    BY DEF Init, OneEach, Live, Paired
<1>3. SessionsHold /\ RevokedAreGone
    BY DEF Init, SessionsHold, RevokedAreGone, Revoked
<1>4. PromptsHold
  <2>1. \A p \in Slots : prompts[p] = Nothing
        BY DEF Init
  <2> QED
        BY <2>1, GoesHolds DEF PromptsHold
<1> QED
    BY <1>1, <1>2, <1>3, <1>4 DEF IInv

LEMMA StepInvariant == IInv /\ [Next]_vars => IInv'
<1> SUFFICES ASSUME IInv, [Next]_vars PROVE IInv'
    OBVIOUS
<1>1. TypeOK'
    BY NextTypes DEF IInv
<1> QED
    BY <1>1, StepOneEach, StepSessions, StepGone, StepPrompts DEF IInv

\* The types of the variables hold in every behaviour.
THEOREM AuthorityTypeCorrect == Spec => []TypeOK
<1> QED
    BY InitTypes, NextTypes, PTL DEF Spec

\* So does the whole inductive invariant.
THEOREM AuthorityInductive == Spec => []IInv
<1> QED
    BY InitInvariant, StepInvariant, PTL DEF Spec

\* A client is paired under exactly one grant and nobody else has one in force
\* (exchangePairing, revokeConnector, revokeClientForRotation).
THEOREM GrantsAreSingle == Spec => []OneGrantEach
<1>1. ASSUME IInv PROVE OneGrantEach
  <2>1. TypeOK /\ OneEach
        BY <1>1 DEF IInv
  <2>2. ASSUME NEW k \in Keys PROVE Cardinality(Live({k})) = (IF Paired(k) THEN 1 ELSE 0)
    <3>1. CASE Paired(k)
      <4>1. PICK r \in Requests : Live({k}) = {r}
            BY <2>1, <3>1 DEF OneEach
      <4> QED
            BY <3>1, <4>1, FS_Singleton
    <3>2. CASE ~Paired(k)
            BY <2>1, <3>2, FS_EmptySet DEF OneEach
    <3> QED
        BY <3>1, <3>2
  <2> QED
        BY <2>1, <2>2 DEF OneGrantEach
<1> QED
    BY <1>1, AuthorityInductive, PTL

\* A revocation leaves no session that may be used, and nothing that forbids the
\* replacement of the revoked identity (revokedClientReplacementTarget).
THEOREM RevocationsAreWhole == Spec => []RevokedIsReplaceable
<1>1. ASSUME IInv PROVE RevokedIsReplaceable
  <2>1. TypeOK /\ OneEach /\ SessionsHold /\ RevokedAreGone
        BY <1>1 DEF IInv
  <2>2. ASSUME NEW k \in Keys, Revoked(k) PROVE Gone(k)
    <3>1. ~Paired(k)
        BY <2>2 DEF Revoked, Paired
    <3>2. Live({k}) = {}
        BY <2>1, <3>1 DEF OneEach
    <3>3. ASSUME NEW r \in Requests, KeyOf[r] = k PROVE grants[r] \in {"none", "revoked"}
        BY <2>1, <3>2, <3>3 DEF Live, TypeOK
    <3> QED
        BY <2>1, <2>2, <3>3 DEF Gone, RevokedAreGone
  <2>3. ASSUME NEW k \in Keys, Revoked(k), Known(client[k].kind, client[k].install) = {k}
        PROVE  Replaceable(client[k].kind, client[k].install)
        BY <2>2, <2>3 DEF Replaceable
  <2> QED
        BY <2>1, <2>3 DEF RevokedIsReplaceable, SessionsHold
<1> QED
    BY <1>1, AuthorityInductive, PTL

\* The row of a revoked connector never changes again (exchangePairing refuses its key,
\* #revokeClientWithAudit a client that is not paired).
THEOREM RevokedKeysStayOut == Spec => RevokedKeyStaysOut
<1>1. ASSUME IInv, [Next]_vars, NEW k \in Keys, Revoked(k), client[k].kind \in Mcp
      PROVE  client'[k] = client[k]
  <2>1. TypeOK
        BY <1>1 DEF IInv
  <2>2. CASE Kept
        BY <2>2 DEF Kept
  <2>3. ASSUME NEW p \in Slots, NEW r \in Requests, Pair(p, r) PROVE client'[k] = client[k]
    <3>1. /\ client[KeyOf[r]].status # "none" =>
                KindOf[r] \notin Mcp /\ client[KeyOf[r]].kind = KindOf[r]
          /\ \A o \in Keys \ {KeyOf[r]} : client'[o] = client[o]
        BY <2>1, <2>3, PairedFields
    <3> QED
        BY <1>1, <3>1 DEF Revoked
  <2>4. ASSUME NEW p \in Slots, NEW ks, NEW operation, Withdraws(p, ks, operation)
        PROVE  client'[k] = client[k]
    <3>1. RevokeAll(ks, operation) /\ k \notin ks
        BY <1>1, <2>4 DEF Withdraws, Revoked, Paired
    <3> QED
        BY <2>1, <3>1, RevokedFields
  <2> QED
        BY <1>1, <2>1, <2>2, <2>3, <2>4, AuthoritySteps
<1>2. IInv /\ [Next]_vars =>
          [\A k \in Keys : Revoked(k) /\ client[k].kind \in Mcp => client'[k] = client[k]]_vars
    BY <1>1
<1> QED
    BY <1>2, AuthorityInductive, PTL DEF Spec, RevokedKeyStaysOut

\* The grants a step revokes, when it revokes any, are those the prompt it answers showed
\* (connectorRevocationTarget, compared again by revokeConnector).
THEOREM RevocationsAreAsShown == Spec => RevokesWhatWasShown
<1> DEFINE lost == {r \in Requests : grants[r] = "active" /\ grants'[r] = "revoked"}
           Shows(p) == prompts[p] # Nothing /\ prompts'[p] = Nothing /\ shown[p] = lost
<1>1. ASSUME IInv, [Next]_vars, lost # {} PROVE \E p \in Slots : Shows(p)
  <2>1. TypeOK /\ PromptsHold
        BY <1>1 DEF IInv
  <2>2. ~Kept
        BY <1>1 DEF Kept
  <2>3. ASSUME NEW p \in Slots, NEW r \in Requests, Pair(p, r) PROVE FALSE
    <3>1. grants'[r] = "active" /\ \A o \in Requests \ {r} : grants'[o] = grants[o]
        BY <2>1, <2>3, PairedFields
    <3> QED
        BY <1>1, <3>1
  <2>4. ASSUME NEW p \in Slots, NEW ks, NEW operation, Withdraws(p, ks, operation)
        PROVE  Shows(p)
    <3>1. /\ ks \in SUBSET Keys /\ Ids(ks) = prompts[p].target
          /\ prompts[p].op \in Revocations \cup Preparations
        BY <2>4 DEF Withdraws, SameTarget, Of, Preparations
    <3>2. lost = Live(ks)
        BY <2>4 DEF Withdraws, RevokeAll, Live
    <3>3. ASSUME NEW k \in ks, NEW r \in Requests, KeyOf[r] = k
          PROVE  r \in shown[p] <=> grants[r] = "active"
      <4> DEFINE i == [key |-> k, rev |-> client[k].rev]
      <4>1. i \in prompts[p].target /\ i.key = k /\ i.rev = client[i.key].rev
            BY <3>1 DEF Ids
      <4> HIDE DEF i
      <4> QED
            BY <2>1, <3>1, <3>3, <4>1 DEF PromptsHold, Holds, TargetHolds
    <3>4. ASSUME NEW r \in shown[p] PROVE r \in Requests /\ KeyOf[r] \in ks
      <4>1. PICK i \in Ids(ks) : i.key = KeyOf[r]
            BY <2>1, <3>1 DEF PromptsHold, Holds, TargetHolds
      <4>2. PICK k \in ks : i = [key |-> k, rev |-> client[k].rev]
            BY DEF Ids
      <4> QED
            BY <2>1, <4>1, <4>2 DEF TypeOK
    <3>5. shown[p] = Live(ks)
        BY <3>3, <3>4 DEF Live
    <3>6. prompts[p] # Nothing
        BY <3>1 DEF Nothing, Revocations, Preparations
    <3>7. prompts'[p] = Nothing
        BY <2>1, <2>4 DEF Withdraws, TakeMoving, Taken, TypeOK
    <3> QED
        BY <3>2, <3>5, <3>6, <3>7
  <2> QED
        BY <1>1, <2>1, <2>2, <2>3, <2>4, AuthoritySteps
<1>2. IInv /\ [Next]_vars =>
          [LET gone == {r \in Requests : grants[r] = "active" /\ grants'[r] = "revoked"}
           IN gone # {} => \E p \in Slots : /\ prompts[p] # Nothing /\ prompts'[p] = Nothing
                                            /\ shown[p] = gone]_vars
    BY <1>1
<1> HIDE DEF lost, Shows
<1> QED
    BY <1>2, AuthorityInductive, PTL DEF Spec, RevokesWhatWasShown

\* Outside development builds a connector is prepared only by the answer to a prompt
\* whose clients have not moved since it was shown (connectorAuthorityDigest).
THEOREM PreparationsAreAsShown == Spec => PreparedAsShown
<1> DEFINE Prepares(d) == ~Development /\ reconnect'[d] # reconnect[d]
                                      /\ reconnect'[d].status = "prepared"
           Answers(p, d) == /\ prompts[p] # Nothing /\ prompts'[p] = Nothing
                            /\ KindOfPrompt(prompts[p]) = d /\ ~moved[p]
<1>1. ASSUME IInv, [Next]_vars, NEW d \in Mcp, Prepares(d) PROVE \E p \in Slots : Answers(p, d)
  <2>1. TypeOK /\ PromptsHold
        BY <1>1 DEF IInv
  <2>2. ~UNCHANGED reconnect
        BY <1>1
  <2>3. ASSUME NEW p \in Slots, NEW r \in Requests, OnPairing(p, r) PROVE FALSE
    <3>1. Pair(p, r)
        BY <2>2, <2>3 DEF OnPairing, AskPairing, ExchangeFails, PairLate, DenyPairing
    <3> QED
        BY <1>1, <3>1 DEF Pair, Absent
  <2>4. ASSUME NEW p \in Slots, OnAuthority(p) PROVE Answers(p, d)
    <3>1. ~Revoke(p)
        BY <1>1 DEF Revoke, Closed, Required
    <3>2. ~Rotate(p) /\ ~PrepareRotation(p)
        BY <1>1, <2>1 DEF Rotate, PrepareRotation, NothingToRotate, SameReplacement, PromptsHold, Holds
    <3>3. PrepareReconnect(p)
        BY <2>2, <2>4, <3>1, <3>2 DEF OnAuthority, ExecuteAdmin, AskRevocation,
           AskConnectorRevocation, AskReconnect, AskRotation, Drop
    <3>4. /\ prompts[p].op = "reconnect" /\ Prepare(prompts[p])
          /\ Peers(prompts[p].kind) = prompts[p].peers
        BY <3>3 DEF PrepareReconnect, SameReconnect
    <3>5. prompts[p].kind = d
        BY <1>1, <2>1, <3>4 DEF Prepare, TypeOK
    <3>6. ~moved[p]
      <4> SUFFICES ASSUME moved[p] PROVE FALSE
            OBVIOUS
      <4>1. PICK k \in Of(prompts[p].kind) :
               \A e \in prompts[p].peers : e.key = k => e.rev < client[k].rev
            BY <2>1, <3>4 DEF PromptsHold, Holds, PeersHold
      <4>2. client[k].rev \in Nat
            BY <2>1 DEF TypeOK, Client, Of
      <4>3. [key |-> k, status |-> client[k].status, rev |-> client[k].rev] \in prompts[p].peers
            BY <3>4 DEF Peers
      <4> QED
            BY <4>1, <4>2, <4>3
    <3>7. prompts'[p] = Nothing
        BY <2>1, <3>3 DEF PrepareReconnect, Take, Taken, TypeOK
    <3> QED
        BY <3>4, <3>5, <3>6, <3>7 DEF KindOfPrompt, Nothing
  <2>5. ASSUME NEW s \in Sessions, OnSession(s) PROVE FALSE
        BY <2>2, <2>5 DEF OnSession, RequestSession, Activate, EndSession
  <2>6. ASSUME NEW r \in Requests, Begin(r) \/ CompleteLate(r) \/ RunOut(r) PROVE FALSE
        BY <2>2, <2>6 DEF Begin, CompleteLate, RunOut
  <2>7. ~(BeginRefused \/ PruneAudit \/ Crash \/ Lock \/ Start \/ UNCHANGED vars)
        BY <2>2 DEF BeginRefused, PruneAudit, Crash, Lock, Start, vars
  <2> QED
        BY <1>1, <2>3, <2>4, <2>5, <2>6, <2>7 DEF Next
<1>2. IInv /\ [Next]_vars =>
          [\A d \in Mcp : ~Development /\ reconnect'[d] # reconnect[d]
                                        /\ reconnect'[d].status = "prepared" =>
              \E p \in Slots : /\ prompts[p] # Nothing /\ prompts'[p] = Nothing
                                /\ KindOfPrompt(prompts[p]) = d /\ ~moved[p]]_vars
    BY <1>1
<1> HIDE DEF Prepares, Answers
<1> QED
    BY <1>2, AuthorityInductive, PTL DEF Spec, PreparedAsShown
=============================================================================
