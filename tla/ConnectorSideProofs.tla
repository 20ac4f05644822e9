------------------------ MODULE ConnectorSideProofs ------------------------
(***************************************************************************)
(* Proofs about the client's side of the connector: the calls of           *)
(* BrokerClient, for any number of processes and calls, and the host's     *)
(* configuration and the client's identity in ConnectorHost, for any       *)
(* number of commands.  The two components share no variable; every        *)
(* theorem is about one of them alone.                                     *)
(*                                                                         *)
(* A request leaves a call once for each of its two attempts, and is gone  *)
(* from the wire once it is executed.  So what a reply tells of an attempt *)
(* stays so; and the second attempt of a save follows a reply that told    *)
(* the first was not executed.                                             *)
(*                                                                         *)
(* What a command read of the configuration is true of every name another  *)
(* program has not changed since.  So what its remaining calls come to on  *)
(* those names is known before they are made, and so is its answer.        *)
(***************************************************************************)
EXTENDS BrokerClient, ConnectorHost, FiniteSetTheorems, SequenceTheorems, TLAPS

-----------------------------------------------------------------------------
(* The inductive invariant.                                                *)

Waiting == {"activating", "sent"}
Unsent == {"new", "activating"}
Attempted(c, t) == [call |-> c, try |-> t] \in executed
OnWire(c, t) == \E r \in wire : r.call = c /\ r.try = t

\* Where a call stands, and the session it has.
CallsHold ==
    \A c \in Calls :
        /\ call[c].pc = "new" => call[c].try = 1
        /\ call[c].pc = "activating" => call[c].session = 0 /\ delegate[ProcOf[c]] = 0
        /\ call[c].pc = "sent" => call[c].session # 0
        /\ call[c].pc = "failed" => call[c].try = 1 /\ call[c].session \in failed

\* One call of a process waits at a time.
OneWaits ==
    \A c, d \in Calls :
        ProcOf[c] = ProcOf[d] /\ call[c].pc \in Waiting /\ call[d].pc \in Waiting => c = d

\* An attempt is on the wire or was executed only once it was made, once at most, and
\* not both.
RequestsHold ==
    /\ \A r \in wire : /\ r.try <= call[r.call].try
                       /\ r.try = call[r.call].try => call[r.call].pc \notin Unsent
                       /\ ~Attempted(r.call, r.try)
    /\ \A r, o \in wire : r.call = o.call /\ r.try = o.try => r = o
    /\ \A x \in executed : /\ x.try <= call[x.call].try
                           /\ x.try = call[x.call].try => call[x.call].pc \notin Unsent

\* A reply is for the attempt its call waits for, and says what became of it.
RepliesHold ==
    /\ \A r \in replies : /\ call[r.call].pc = "sent" /\ call[r.call].try = r.try
                          /\ ~OnWire(r.call, r.try)
                          /\ (r.result = "ok") = Attempted(r.call, r.try)
    /\ \A r, o \in replies : r.call = o.call => r = o

\* A save is attempted again only when the first attempt came to nothing.
SavesHold ==
    \A c \in Calls :
        /\ call[c].pc = "done" => Attempted(c, call[c].try)
        /\ OpOf[c] = "remember" =>
              /\ call[c].pc = "failed" \/ call[c].try = 2 => ~Attempted(c, 1) /\ ~OnWire(c, 1)
              /\ call[c].pc = "refused" => /\ ~Attempted(c, call[c].try)
                                           /\ ~OnWire(c, call[c].try)

\* A session a process does not work with is one a call failed on, or was activated for
\* a call that had stopped waiting.
SessionsHold ==
    \A s \in DOMAIN sessions :
        s # delegate[sessions[s].proc] =>
            \/ s \in failed
            \/ \E c \in Calls : /\ ProcOf[c] = sessions[s].proc
                                /\ call[c].pc \in Over /\ call[c].session = 0

IInv == /\ TypeOK /\ CallsHold /\ OneWaits /\ RequestsHold /\ RepliesHold /\ SavesHold
        /\ SessionsHold
-----------------------------------------------------------------------------
(* Types.                                                                  *)

\* The fields of a call.
LEMMA CallFields ==
    ASSUME TypeOK, NEW c \in Calls
    PROVE  /\ ProcOf[c] \in Procs /\ OpOf[c] \in Ops
           /\ call[c].pc \in {"new", "activating", "sent", "failed"} \cup Over
           /\ call[c].try \in 1..2 /\ call[c].session \in 0..MaxSessions
           /\ delegate[ProcOf[c]] \in 0..MaxSessions
    BY ConstantsAssumption DEF TypeOK

\* The call after each kind of change.
LEMMA CallMoves ==
    ASSUME TypeOK, NEW c \in Calls, NEW pc \in {"new", "activating", "sent", "failed"} \cup Over,
           call' = [call EXCEPT ![c].pc = pc]
    PROVE  /\ call' \in [Calls -> [pc : {"new", "activating", "sent", "failed"} \cup Over,
                                   try : 1..2, session : 0..MaxSessions]]
           /\ call'[c].pc = pc /\ call'[c].try = call[c].try /\ call'[c].session = call[c].session
           /\ \A d \in Calls \ {c} : call'[d] = call[d]
    BY DEF TypeOK

LEMMA CallBegins ==
    ASSUME TypeOK, NEW c \in Calls, NEW pc \in Waiting, NEW t \in 1..2, NEW s \in 0..MaxSessions,
           call' = [call EXCEPT ![c] = [pc |-> pc, try |-> t, session |-> s]]
    PROVE  /\ call' \in [Calls -> [pc : {"new", "activating", "sent", "failed"} \cup Over,
                                   try : 1..2, session : 0..MaxSessions]]
           /\ call'[c].pc = pc /\ call'[c].try = t /\ call'[c].session = s
           /\ \A d \in Calls \ {c} : call'[d] = call[d]
    BY DEF TypeOK, Waiting

\* What an attempt does: it is sent over a session, or waits for one.
LEMMA AttemptTypes ==
    ASSUME TypeOK, NEW c \in Calls, NEW t \in 1..2, NEW s \in 0..MaxSessions, Attempt(c, t, s)
    PROVE  /\ call' \in [Calls -> [pc : {"new", "activating", "sent", "failed"} \cup Over,
                                   try : 1..2, session : 0..MaxSessions]]
           /\ wire' \subseteq Request
<1>1. CASE s # 0
  <2>1. /\ wire' = wire \cup {[call |-> c, try |-> t, session |-> s]}
        /\ call' = [call EXCEPT ![c] = [pc |-> "sent", try |-> t, session |-> s]]
        BY <1>1 DEF Attempt, Send
  <2>2. s \in 1..MaxSessions
        BY <1>1, ConstantsAssumption
  <2>3. [call |-> c, try |-> t, session |-> s] \in Request
        BY <2>2 DEF Request
  <2> QED
        BY <2>1, <2>3, CallBegins DEF TypeOK, Waiting
<1>2. CASE s = 0
    BY <1>2, CallBegins DEF Attempt, TypeOK, Waiting
<1> QED
    BY <1>1, <1>2

\* The sessions once one is activated.
LEMMA ActivatesTypes ==
    ASSUME TypeOK, NEW c \in Calls, Activates(c)
    PROVE  /\ sessions' \in Seq(Session) /\ Len(sessions') = Len(sessions) + 1
           /\ Len(sessions') \in 1..MaxSessions
           /\ \A s \in DOMAIN sessions : s \in DOMAIN sessions' /\ sessions'[s] = sessions[s]
           /\ \A s \in DOMAIN sessions' : s \in DOMAIN sessions \/ s = Len(sessions')
           /\ sessions'[Len(sessions')].proc = ProcOf[c]
<1>1. [proc |-> ProcOf[c], boot |-> boot, status |-> "active"] \in Session
    BY CallFields DEF Session, TypeOK
<1> QED
    BY <1>1, ConstantsAssumption DEF Activates, TypeOK

\* A failure of a call ends it or leaves it to be attempted again.
LEMMA FailsTypes ==
    ASSUME TypeOK, CallsHold, NEW c \in Calls, NEW how, call[c].pc = "sent", Fails(c, how)
    PROVE  /\ call' \in [Calls -> [pc : {"new", "activating", "sent", "failed"} \cup Over,
                                   try : 1..2, session : 0..MaxSessions]]
           /\ failed' \subseteq 1..MaxSessions
           /\ failed \subseteq failed'
           /\ \A d \in Calls \ {c} : call'[d] = call[d]
           /\ call'[c].try = call[c].try /\ call'[c].session = call[c].session
           /\ \/ /\ call'[c].pc = "failed" /\ call[c].try = 1 /\ Reactivatable(c, how)
                 /\ call[c].session \in failed'
              \/ call'[c].pc = Told(c, how) /\ Told(c, how) \in {"unknown", "refused"}
<1>1. call[c].session \in 1..MaxSessions
    BY CallFields, ConstantsAssumption DEF CallsHold
<1>2. Told(c, how) \in {"unknown", "refused"}
    BY DEF Told
<1>3. CASE call[c].try = 1 /\ Reactivatable(c, how)
  <2>1. call' = [call EXCEPT ![c].pc = "failed"] /\ failed' = failed \cup {call[c].session}
        BY <1>3 DEF Fails
  <2> QED
        BY <1>1, <1>3, <2>1, CallMoves DEF TypeOK
<1>4. CASE ~(call[c].try = 1 /\ Reactivatable(c, how))
  <2>1. call' = [call EXCEPT ![c].pc = Told(c, how)] /\ failed' = failed
        BY <1>4 DEF Fails
  <2>2. Told(c, how) \in {"new", "activating", "sent", "failed"} \cup Over
        BY <1>2 DEF Over
  <2> QED
        BY <1>2, <2>1, <2>2, CallMoves DEF TypeOK
<1> QED
    BY <1>3, <1>4

\* What the delegate is once given up.
LEMMA KeptType == ASSUME TypeOK, NEW c \in Calls PROVE Kept(c) \in 0..MaxSessions
    BY CallFields, ConstantsAssumption DEF Kept

\* Every step keeps the types.
LEMMA NextTypes == ASSUME TypeOK, CallsHold, [Next]_vars PROVE TypeOK'
<1> USE ConstantsAssumption
<1>1. ASSUME NEW c \in Calls, Start(c) PROVE TypeOK'
    BY <1>1, AttemptTypes, CallFields DEF Start, TypeOK, broker
<1>2. ASSUME NEW c \in Calls, Activate(c) PROVE TypeOK'
  <2>1. sessions' \in Seq(Session) /\ Len(sessions') \in 1..MaxSessions
        BY <1>2, ActivatesTypes DEF Activate
  <2>2. Attempt(c, call[c].try, Len(sessions'))
        BY <1>2, <2>1 DEF Activate, Attempt
  <2>3. /\ call' \in [Calls -> [pc : {"new", "activating", "sent", "failed"} \cup Over,
                                try : 1..2, session : 0..MaxSessions]]
        /\ wire' \subseteq Request
        BY <2>1, <2>2, AttemptTypes, CallFields
  <2> QED
        BY <1>2, <2>1, <2>3 DEF Activate, TypeOK
<1>3. ASSUME NEW c \in Calls, ActivationFails(c) PROVE TypeOK'
  <2>1. call' = [call EXCEPT ![c].pc = "refused"]
        BY <1>3 DEF ActivationFails
  <2>2. "refused" \in {"new", "activating", "sent", "failed"} \cup Over
        BY DEF Over
  <2>3. call' \in [Calls -> [pc : {"new", "activating", "sent", "failed"} \cup Over,
                             try : 1..2, session : 0..MaxSessions]]
        BY <2>1, <2>2, CallMoves
  <2> QED
        BY <1>3, <2>3 DEF ActivationFails, TypeOK, broker
<1>4. ASSUME NEW c \in Calls, ActivatedLate(c) PROVE TypeOK'
  <2>1. sessions' \in Seq(Session) /\ Len(sessions') \in 1..MaxSessions
        BY <1>4, ActivatesTypes DEF ActivatedLate
  <2>2. call' = [call EXCEPT ![c].pc = "refused"]
        BY <1>4 DEF ActivatedLate
  <2>3. "refused" \in {"new", "activating", "sent", "failed"} \cup Over
        BY DEF Over
  <2>4. call' \in [Calls -> [pc : {"new", "activating", "sent", "failed"} \cup Over,
                             try : 1..2, session : 0..MaxSessions]]
        BY <2>2, <2>3, CallMoves
  <2> QED
        BY <1>4, <2>1, <2>4 DEF ActivatedLate, TypeOK
<1>5. ASSUME NEW c \in Calls, Receive(c) PROVE TypeOK'
  <2>1. PICK r \in replies : /\ r.call = c
                             /\ replies' = replies \ {r}
                             /\ IF r.result = "ok" THEN call' = [call EXCEPT ![c].pc = "done"] /\ UNCHANGED failed
                                ELSE Fails(c, r.result)
        BY <1>5 DEF Receive
  <2>2. /\ call' \in [Calls -> [pc : {"new", "activating", "sent", "failed"} \cup Over,
                                try : 1..2, session : 0..MaxSessions]]
        /\ failed' \subseteq 1..MaxSessions
    <3>1. CASE r.result = "ok"
        BY <2>1, <3>1, CallMoves DEF Over, TypeOK
    <3>2. CASE r.result # "ok"
        BY <1>5, <2>1, <3>2, FailsTypes DEF Receive
    <3> QED
        BY <3>1, <3>2
  <2> QED
        BY <1>5, <2>1, <2>2 DEF Receive, TypeOK, broker
<1>6. ASSUME NEW c \in Calls, TimeOut(c) \/ Garbled(c) PROVE TypeOK'
  <2>1. /\ call' \in [Calls -> [pc : {"new", "activating", "sent", "failed"} \cup Over,
                                try : 1..2, session : 0..MaxSessions]]
        /\ failed' \subseteq 1..MaxSessions
        BY <1>6, FailsTypes DEF TimeOut, Garbled
  <2> QED
        BY <1>6, <2>1 DEF TimeOut, Garbled, TypeOK, broker
<1>7. ASSUME NEW c \in Calls, Again(c) PROVE TypeOK'
  <2>1. Kept(c) \in 0..MaxSessions /\ 2 \in 1..2 /\ Attempt(c, 2, Kept(c))
        BY <1>7, KeptType DEF Again
  <2>2. /\ call' \in [Calls -> [pc : {"new", "activating", "sent", "failed"} \cup Over,
                                try : 1..2, session : 0..MaxSessions]]
        /\ wire' \subseteq Request
        BY <2>1, AttemptTypes
  <2> QED
        BY <1>7, <2>1, <2>2 DEF Again, TypeOK, broker
<1>8. ASSUME NEW r \in wire, Execute(r) PROVE TypeOK'
  <2>1. r.call \in Calls /\ r.try \in 1..2
        BY DEF TypeOK, Request
  <2>2. \A result \in {Verdict(r), "failed"} :
           [call |-> r.call, try |-> r.try, result |-> result] \in Reply
        BY <2>1 DEF Reply, Verdict
  <2> QED
        BY <1>8, <2>1, <2>2 DEF Execute, TypeOK, broker
<1>9. ASSUME NEW s \in DOMAIN sessions, NEW how \in {"ended", "revoked"}, EndSession(s, how)
      PROVE  TypeOK'
  <2>1. sessions[s] \in Session
        BY DEF TypeOK
  <2>2. [sessions[s] EXCEPT !.status = how] \in Session
        BY <2>1 DEF Session
  <2>3. sessions' \in Seq(Session) /\ Len(sessions') = Len(sessions)
        BY <1>9, <2>2 DEF EndSession, TypeOK
  <2> QED
        BY <1>9, <2>3 DEF EndSession, TypeOK
<1>10. CASE Stop \/ Restart
  <2>1. boot' \in 1..MaxBoots /\ up' \in BOOLEAN
    <3>1. CASE Stop
        BY <3>1 DEF Stop, TypeOK
    <3>2. CASE Restart
      <4>1. boot \in 1..MaxBoots /\ boot < MaxBoots /\ boot' = boot + 1 /\ up' = TRUE
            BY <3>2 DEF Restart, TypeOK
      <4>2. MaxBoots \in Nat
            OBVIOUS
      <4> QED
            BY <4>1, <4>2
    <3> QED
        BY <1>10, <3>1, <3>2
  <2>2. UNCHANGED <<sessions, wire, replies, executed, delegate, call, failed>>
        BY <1>10 DEF Stop, Restart
  <2> QED
        BY <2>1, <2>2 DEF TypeOK
<1>11. ASSUME NEW r \in wire \cup replies, Lose(r) PROVE TypeOK'
    BY <1>11 DEF Lose, TypeOK, broker
<1>12. CASE UNCHANGED vars
    BY <1>12 DEF vars, broker, TypeOK
<1> QED
    BY <1>1, <1>2, <1>3, <1>4, <1>5, <1>6, <1>7, <1>8, <1>9, <1>10, <1>11, <1>12
       DEF Next, Adapter, Broker, Network
-----------------------------------------------------------------------------
(* What becomes of an attempt.                                             *)

Attempting == RequestsHold /\ RepliesHold /\ SavesHold
Fixed == UNCHANGED <<replies, executed>>

\* An attempt begins: the first of a call, or the second of one that failed.
Begins(c, t) == \/ call[c].pc = "new" /\ t = 1
                \/ call[c].pc = "failed" /\ t = 2

\* Nothing is out for an attempt that begins, or waits for a session.
LEMMA NothingYet ==
    ASSUME TypeOK, CallsHold, RequestsHold, NEW c \in Calls, NEW t \in 1..2,
           Begins(c, t) \/ (call[c].pc = "activating" /\ t = call[c].try)
    PROVE  ~Attempted(c, t) /\ ~OnWire(c, t)
<1>1. call[c].try <= t /\ (call[c].try = t => call[c].pc \in Unsent)
    BY CallFields DEF Begins, CallsHold, Unsent
<1>2. call[c].try \in 1..2
    BY CallFields
<1>3. ~OnWire(c, t)
    BY <1>1, <1>2 DEF OnWire, RequestsHold
<1>4. ~Attempted(c, t)
  <2> SUFFICES ASSUME [call |-> c, try |-> t] \in executed PROVE FALSE
        BY DEF Attempted
  <2> DEFINE x == [call |-> c, try |-> t]
  <2>1. x \in executed /\ x.call = c /\ x.try = t
        OBVIOUS
  <2> HIDE DEF x
  <2>2. t <= call[c].try /\ (t = call[c].try => call[c].pc \notin Unsent)
        BY <2>1 DEF RequestsHold
  <2> QED
        BY <1>1, <1>2, <2>2
<1> QED
    BY <1>3, <1>4

\* What was executed is a call's attempt.
LEMMA ExecutedFields ==
    ASSUME TypeOK, NEW x \in executed
    PROVE  x.call \in Calls /\ x.try \in 1..2 /\ Attempted(x.call, x.try)
<1>1. x \in [call : Calls, try : 1..2]
    BY DEF TypeOK
<1>2. x = [call |-> x.call, try |-> x.try]
    BY <1>1
<1> QED
    BY <1>1, <1>2 DEF Attempted

\* A request is sent for an attempt that had none.
LEMMA SendStep ==
    ASSUME TypeOK, CallsHold, Attempting,
           NEW c \in Calls, NEW t \in 1..2, NEW s \in 1..MaxSessions,
           Begins(c, t) \/ (call[c].pc = "activating" /\ t = call[c].try),
           Send(c, t, s), Fixed
    PROVE  Attempting'
<1> DEFINE new == [call |-> c, try |-> t, session |-> s]
<1>1. ~Attempted(c, t) /\ ~OnWire(c, t)
    BY NothingYet DEF Attempting
<1>2. /\ call'[c].pc = "sent" /\ call'[c].try = t
      /\ \A d \in Calls \ {c} : call'[d] = call[d]
  <2>1. call' = [call EXCEPT ![c] = [pc |-> "sent", try |-> t, session |-> s]]
        BY DEF Send
  <2>2. s \in 0..MaxSessions /\ "sent" \in Waiting
        BY ConstantsAssumption DEF Waiting
  <2> QED
        BY <2>1, <2>2, CallBegins
<1>3. /\ new.call = c /\ new.try = t
      /\ wire' = wire \cup {new} /\ executed' = executed /\ replies' = replies
    BY DEF Send, Fixed
<1> HIDE DEF new
<1>4. call[c].pc \in {"new", "activating", "failed"} /\ call[c].try <= t /\ call[c].try \in 1..2
    BY CallFields DEF Begins, CallsHold
<1>5. \A r \in wire : r.call \in Calls /\ r.try \in 1..2
    BY DEF TypeOK, Request
<1>6. \A r \in replies : r.call \in Calls /\ r.call # c
    BY <1>4 DEF TypeOK, Reply, Attempting, RepliesHold
<1>7. \A d \in Calls, u \in 1..2 : Attempted(d, u)' = Attempted(d, u)
    BY <1>3 DEF Attempted
<1>8. \A d \in Calls, u \in 1..2 : OnWire(d, u)' <=> OnWire(d, u) \/ (d = c /\ u = t)
    BY <1>3 DEF OnWire
<1>9. RequestsHold'
  <2>1. ASSUME NEW r \in wire'
        PROVE  /\ r.try <= call'[r.call].try
               /\ r.try = call'[r.call].try => call'[r.call].pc \notin Unsent
               /\ ~Attempted(r.call, r.try)'
    <3>1. CASE r = new
        BY <1>1, <1>2, <1>3, <1>7, <3>1 DEF Unsent
    <3>2. CASE r \in wire
      <4>1. r.try <= call[r.call].try /\ ~Attempted(r.call, r.try)
            BY <3>2 DEF Attempting, RequestsHold
      <4> QED
            BY <1>2, <1>4, <1>5, <1>7, <3>2, <4>1 DEF Unsent, Attempting, RequestsHold
    <3> QED
        BY <1>3, <2>1, <3>1, <3>2
  <2>2. ASSUME NEW r \in wire', NEW o \in wire', r.call = o.call, r.try = o.try PROVE r = o
        BY <1>1, <1>3, <2>2 DEF Attempting, RequestsHold, OnWire
  <2>3. ASSUME NEW x \in executed'
        PROVE  /\ x.try <= call'[x.call].try
               /\ x.try = call'[x.call].try => call'[x.call].pc \notin Unsent
    <3>1. x \in executed /\ x.call \in Calls /\ x.try \in 1..2
        BY <1>3, ExecutedFields
    <3>2. /\ x.try <= call[x.call].try
          /\ x.try = call[x.call].try => call[x.call].pc \notin Unsent
        BY <3>1 DEF Attempting, RequestsHold
    <3> QED
        BY <1>2, <1>4, <3>1, <3>2 DEF Unsent
  <2> QED
        BY <2>1, <2>2, <2>3 DEF RequestsHold
<1>10. RepliesHold'
  <2>1. ASSUME NEW r \in replies
        PROVE  /\ call'[r.call].pc = "sent" /\ call'[r.call].try = r.try
               /\ ~OnWire(r.call, r.try)'
               /\ (r.result = "ok") = Attempted(r.call, r.try)'
    <3>1. r.call \in Calls /\ r.call # c /\ r.try \in 1..2
        BY <1>6 DEF TypeOK, Reply
    <3> QED
        BY <1>2, <1>7, <1>8, <3>1 DEF Attempting, RepliesHold
  <2> QED
        BY <1>3, <2>1 DEF Attempting, RepliesHold
<1>11. SavesHold'
  <2> SUFFICES ASSUME NEW d \in Calls
               PROVE  (/\ call[d].pc = "done" => Attempted(d, call[d].try)
                       /\ OpOf[d] = "remember" =>
                             /\ call[d].pc = "failed" \/ call[d].try = 2 => ~Attempted(d, 1) /\ ~OnWire(d, 1)
                             /\ call[d].pc = "refused" => /\ ~Attempted(d, call[d].try)
                                                          /\ ~OnWire(d, call[d].try))'
        BY DEF SavesHold
  <2>1. CASE d = c
    <3>1. OpOf[c] = "remember" /\ t = 2 => ~Attempted(c, 1) /\ ~OnWire(c, 1)
        BY DEF Attempting, SavesHold, Begins
    <3> QED
        BY <1>2, <1>7, <1>8, <2>1, <3>1
  <2>2. CASE d # c
    <3>1. call'[d] = call[d] /\ call[d].try \in 1..2
        BY <1>2, <2>2, CallFields
    <3> QED
        BY <1>7, <1>8, <2>2, <3>1 DEF Attempting, SavesHold
  <2> QED
        BY <2>1, <2>2
<1> QED
    BY <1>9, <1>10, <1>11 DEF Attempting

\* A call goes on with no request sent: it waits for a session, failed, or is over.
LEMMA MoveStep ==
    ASSUME TypeOK, Attempting, NEW c \in Calls,
           wire' = wire, executed' = executed, replies' \subseteq replies,
           \A r \in replies' : r.call # c,
           \A d \in Calls \ {c} : call'[d] = call[d],
           call'[c].try \in 1..2, call[c].try <= call'[c].try,
           call'[c].pc \in {"activating", "failed"} \cup Over,
           call'[c].pc = "activating" => ~Attempted(c, call'[c].try) /\ ~OnWire(c, call'[c].try),
           call'[c].pc = "done" => Attempted(c, call'[c].try),
           OpOf[c] = "remember" =>
              /\ call'[c].pc = "failed" \/ call'[c].try = 2 => ~Attempted(c, 1) /\ ~OnWire(c, 1)
              /\ call'[c].pc = "refused" => ~Attempted(c, call'[c].try) /\ ~OnWire(c, call'[c].try)
    PROVE  Attempting'
<1>1. \A d, u : Attempted(d, u)' = Attempted(d, u) /\ OnWire(d, u)' = OnWire(d, u)
    BY DEF Attempted, OnWire
<1>2. call[c].try \in 1..2
    BY CallFields
<1>3. RequestsHold'
  <2>1. ASSUME NEW r \in wire
        PROVE  /\ r.try <= call'[r.call].try
               /\ r.try = call'[r.call].try => call'[r.call].pc \notin Unsent
               /\ ~Attempted(r.call, r.try)'
    <3>1. r.call \in Calls /\ r.try \in 1..2
        BY DEF TypeOK, Request
    <3>2. /\ r.try <= call[r.call].try
          /\ r.try = call[r.call].try => call[r.call].pc \notin Unsent
          /\ ~Attempted(r.call, r.try)
        BY DEF Attempting, RequestsHold
    <3>3. CASE r.call = c
      <4>1. OnWire(c, r.try)
            BY <3>3 DEF OnWire
      <4> QED
            BY <1>1, <1>2, <3>1, <3>2, <3>3, <4>1 DEF Unsent, Over
    <3>4. CASE r.call # c
        BY <1>1, <3>1, <3>2, <3>4
    <3> QED
        BY <3>3, <3>4
  <2>2. ASSUME NEW x \in executed
        PROVE  /\ x.try <= call'[x.call].try
               /\ x.try = call'[x.call].try => call'[x.call].pc \notin Unsent
    <3>1. x.call \in Calls /\ x.try \in 1..2 /\ Attempted(x.call, x.try)
        BY ExecutedFields
    <3>2. /\ x.try <= call[x.call].try
          /\ x.try = call[x.call].try => call[x.call].pc \notin Unsent
        BY DEF Attempting, RequestsHold
    <3>3. CASE x.call = c
        BY <1>2, <3>1, <3>2, <3>3 DEF Unsent, Over
    <3>4. CASE x.call # c
        BY <3>1, <3>2, <3>4
    <3> QED
        BY <3>3, <3>4
  <2> QED
        BY <2>1, <2>2 DEF Attempting, RequestsHold
<1>4. RepliesHold'
  <2>1. ASSUME NEW r \in replies'
        PROVE  /\ call'[r.call].pc = "sent" /\ call'[r.call].try = r.try
               /\ ~OnWire(r.call, r.try)'
               /\ (r.result = "ok") = Attempted(r.call, r.try)'
    <3>1. r \in replies /\ r.call \in Calls /\ r.call # c
        BY DEF TypeOK, Reply
    <3> QED
        BY <1>1, <3>1 DEF Attempting, RepliesHold
  <2> QED
        BY <2>1 DEF Attempting, RepliesHold
<1>5. SavesHold'
  <2> SUFFICES ASSUME NEW d \in Calls
               PROVE  (/\ call[d].pc = "done" => Attempted(d, call[d].try)
                       /\ OpOf[d] = "remember" =>
                             /\ call[d].pc = "failed" \/ call[d].try = 2 => ~Attempted(d, 1) /\ ~OnWire(d, 1)
                             /\ call[d].pc = "refused" => /\ ~Attempted(d, call[d].try)
                                                          /\ ~OnWire(d, call[d].try))'
        BY DEF SavesHold
  <2>1. CASE d = c
        BY <1>1, <2>1
  <2>2. CASE d # c
        BY <1>1, <2>2 DEF Attempting, SavesHold
  <2> QED
        BY <2>1, <2>2
<1> QED
    BY <1>3, <1>4, <1>5 DEF Attempting

\* An attempt that failed: the call is to be attempted again, or is over.
LEMMA FailStep ==
    ASSUME TypeOK, CallsHold, Attempting, NEW c \in Calls, NEW how,
           call[c].pc = "sent", Fails(c, how),
           wire' = wire, executed' = executed, replies' \subseteq replies,
           \A r \in replies' : r.call # c,
           how \notin {"transport", "garbled"} => ~Attempted(c, call[c].try) /\ ~OnWire(c, call[c].try)
    PROVE  Attempting'
<1>1. /\ \A d \in Calls \ {c} : call'[d] = call[d]
      /\ call'[c].try = call[c].try
      /\ \/ /\ call'[c].pc = "failed" /\ call[c].try = 1 /\ Reactivatable(c, how)
         \/ call'[c].pc = Told(c, how) /\ Told(c, how) \in {"unknown", "refused"}
    BY FailsTypes
<1>2. call[c].try \in 1..2
    BY CallFields
<1>3. OpOf[c] = "remember" /\ call[c].try = 2 => ~Attempted(c, 1) /\ ~OnWire(c, 1)
    BY DEF Attempting, SavesHold
<1>4. OpOf[c] = "remember" /\ call'[c].pc = "failed" => ~Attempted(c, 1) /\ ~OnWire(c, 1)
    BY <1>1 DEF Reactivatable
<1>5. OpOf[c] = "remember" /\ call'[c].pc = "refused" =>
          ~Attempted(c, call[c].try) /\ ~OnWire(c, call[c].try)
    BY <1>1 DEF Told
<1>6. /\ call'[c].pc \in {"activating", "failed"} \cup Over
      /\ call'[c].pc # "activating" /\ call'[c].pc # "done"
    BY <1>1 DEF Over
<1>7. OpOf[c] = "remember" =>
         /\ call'[c].pc = "failed" \/ call'[c].try = 2 => ~Attempted(c, 1) /\ ~OnWire(c, 1)
         /\ call'[c].pc = "refused" => ~Attempted(c, call'[c].try) /\ ~OnWire(c, call'[c].try)
    BY <1>1, <1>3, <1>4, <1>5
<1> QED
    BY <1>1, <1>2, <1>6, <1>7, MoveStep

\* A request leaves the wire, executed or not.
LEMMA ExecuteStep ==
    ASSUME TypeOK, CallsHold, Attempting, NEW r \in wire, Execute(r)
    PROVE  Attempting'
<1>0. PICK result :
         /\ executed' = IF result = "ok" THEN executed \cup {[call |-> r.call, try |-> r.try]}
                        ELSE executed
         /\ replies' = IF Awaited(r)
                          THEN replies \cup {[call |-> r.call, try |-> r.try, result |-> result]}
                          ELSE replies
    BY DEF Execute
<1> DEFINE a == [call |-> r.call, try |-> r.try]
           v == [call |-> r.call, try |-> r.try, result |-> result]
<1>1. /\ r.call \in Calls /\ r.try \in 1..2
      /\ wire' = wire \ {r} /\ call' = call
      /\ executed' = IF result = "ok" THEN executed \cup {a} ELSE executed
      /\ replies' = IF Awaited(r) THEN replies \cup {v} ELSE replies
    BY <1>0 DEF Execute, TypeOK, Request
<1>2. /\ r.try <= call[r.call].try
      /\ r.try = call[r.call].try => call[r.call].pc \notin Unsent
      /\ ~Attempted(r.call, r.try) /\ OnWire(r.call, r.try)
    BY DEF Attempting, RequestsHold, OnWire
<1>3. ~OnWire(r.call, r.try)' /\ \A d, u : OnWire(d, u)' => OnWire(d, u)
    BY <1>1 DEF Attempting, RequestsHold, OnWire
<1>4. a.call = r.call /\ a.try = r.try /\ \A d, u : [call |-> d, try |-> u] = a <=> d = r.call /\ u = r.try
    OBVIOUS
<1>5. v.call = r.call /\ v.try = r.try /\ v.result = result
    OBVIOUS
<1> HIDE DEF a, v
<1>6. \A d, u : Attempted(d, u)' <=> Attempted(d, u) \/ (d = r.call /\ u = r.try /\ result = "ok")
    BY <1>1, <1>4 DEF Attempted
<1>7. RequestsHold'
  <2>1. \A o \in wire' : ~(o.call = r.call /\ o.try = r.try)
        BY <1>3 DEF OnWire
  <2>2. \A o \in wire' : ~Attempted(o.call, o.try)'
        BY <1>1, <1>6, <2>1 DEF Attempting, RequestsHold
  <2>3. ASSUME NEW x \in executed'
        PROVE  /\ x.try <= call[x.call].try
               /\ x.try = call[x.call].try => call[x.call].pc \notin Unsent
        BY <1>1, <1>2, <1>4 DEF Attempting, RequestsHold
  <2> QED
        BY <1>1, <2>2, <2>3 DEF Attempting, RequestsHold
<1>8. RepliesHold'
  <2>2. ASSUME NEW o \in replies'
        PROVE  /\ call[o.call].pc = "sent" /\ call[o.call].try = o.try
               /\ ~OnWire(o.call, o.try)'
               /\ (o.result = "ok") = Attempted(o.call, o.try)'
    <3>1. CASE o \in replies
      <4>1. /\ call[o.call].pc = "sent" /\ call[o.call].try = o.try
            /\ ~OnWire(o.call, o.try) /\ (o.result = "ok") = Attempted(o.call, o.try)
            BY <3>1 DEF Attempting, RepliesHold
      <4> QED
            BY <1>2, <1>3, <1>6, <4>1
    <3>2. CASE o = v /\ Awaited(r)
        BY <1>2, <1>3, <1>5, <1>6, <3>2 DEF Awaited
    <3> QED
        BY <1>1, <3>1, <3>2
  <2>3. ASSUME NEW o \in replies', NEW q \in replies', o.call = q.call PROVE o = q
    <3>1. ASSUME Awaited(r), NEW w \in replies, w.call = r.call PROVE FALSE
        BY <1>2, <3>1 DEF Awaited, Attempting, RepliesHold
    <3> QED
        BY <1>1, <1>5, <2>3, <3>1 DEF Attempting, RepliesHold
  <2> QED
        BY <1>1, <2>2, <2>3 DEF RepliesHold
<1>9. SavesHold'
  <2> SUFFICES ASSUME NEW d \in Calls
               PROVE  /\ call[d].pc = "done" => Attempted(d, call[d].try)'
                      /\ OpOf[d] = "remember" =>
                            /\ call[d].pc = "failed" \/ call[d].try = 2 =>
                                  ~Attempted(d, 1)' /\ ~OnWire(d, 1)'
                            /\ call[d].pc = "refused" => /\ ~Attempted(d, call[d].try)'
                                                         /\ ~OnWire(d, call[d].try)'
        BY <1>1 DEF SavesHold, Attempted, OnWire
  <2>1. /\ call[d].pc = "done" => Attempted(d, call[d].try)
        /\ OpOf[d] = "remember" =>
              /\ call[d].pc = "failed" \/ call[d].try = 2 => ~Attempted(d, 1) /\ ~OnWire(d, 1)
              /\ call[d].pc = "refused" => /\ ~Attempted(d, call[d].try)
                                           /\ ~OnWire(d, call[d].try)
        BY DEF Attempting, SavesHold
  <2> QED
        BY <1>1, <1>2, <1>3, <1>6, <2>1
<1> QED
    BY <1>7, <1>8, <1>9 DEF Attempting

\* A request or a reply is lost.
LEMMA LoseStep ==
    ASSUME TypeOK, Attempting, wire' \subseteq wire, replies' \subseteq replies,
           executed' = executed, call' = call
    PROVE  Attempting'
<1>1. \A d, u : Attempted(d, u)' = Attempted(d, u) /\ (OnWire(d, u)' => OnWire(d, u))
    BY DEF Attempted, OnWire
<1>2. RequestsHold'
    BY <1>1 DEF Attempting, RequestsHold
<1>3. RepliesHold'
    BY <1>1 DEF Attempting, RepliesHold
<1>4. SavesHold'
  <2> SUFFICES ASSUME NEW d \in Calls
               PROVE  /\ call[d].pc = "done" => Attempted(d, call[d].try)'
                      /\ OpOf[d] = "remember" =>
                            /\ call[d].pc = "failed" \/ call[d].try = 2 =>
                                  ~Attempted(d, 1)' /\ ~OnWire(d, 1)'
                            /\ call[d].pc = "refused" => /\ ~Attempted(d, call[d].try)'
                                                         /\ ~OnWire(d, call[d].try)'
        BY DEF SavesHold, Attempted, OnWire
  <2> QED
        BY <1>1 DEF Attempting, SavesHold
<1> QED
    BY <1>2, <1>3, <1>4 DEF Attempting

\* What an attempt that begins does.
LEMMA BeginStep ==
    ASSUME TypeOK, CallsHold, Attempting, NEW c \in Calls, NEW t \in 1..2,
           NEW s \in 0..MaxSessions, Begins(c, t), Attempt(c, t, s), Fixed
    PROVE  Attempting'
<1>1. CASE s # 0
  <2>1. s \in 1..MaxSessions /\ Send(c, t, s)
        BY <1>1, ConstantsAssumption DEF Attempt
  <2> QED
        BY <2>1, SendStep
<1>2. CASE s = 0
  <2>1. call' = [call EXCEPT ![c] = [pc |-> "activating", try |-> t, session |-> 0]] /\ wire' = wire
        BY <1>2 DEF Attempt
  <2>2. 0 \in 0..MaxSessions /\ "activating" \in Waiting
        BY ConstantsAssumption DEF Waiting
  <2>3. /\ call'[c].pc = "activating" /\ call'[c].try = t
        /\ \A d \in Calls \ {c} : call'[d] = call[d]
        BY <2>1, <2>2, CallBegins
  <2>4. ~Attempted(c, t) /\ ~OnWire(c, t)
        BY NothingYet DEF Attempting
  <2>5. call[c].try \in 1..2 /\ call[c].try <= t /\ call[c].pc \in {"new", "failed"}
        BY CallFields DEF Begins, CallsHold
  <2>6. OpOf[c] = "remember" /\ t = 2 => ~Attempted(c, 1) /\ ~OnWire(c, 1)
        BY DEF Attempting, SavesHold, Begins
  <2>7. \A r \in replies : r.call # c
        BY <2>5 DEF Attempting, RepliesHold
  <2>8. replies' \subseteq replies /\ executed' = executed /\ \A r \in replies' : r.call # c
        BY <2>7 DEF Fixed
  <2>9. OpOf[c] = "remember" =>
           /\ call'[c].pc = "failed" \/ call'[c].try = 2 => ~Attempted(c, 1) /\ ~OnWire(c, 1)
           /\ call'[c].pc = "refused" => ~Attempted(c, call'[c].try) /\ ~OnWire(c, call'[c].try)
        BY <2>3, <2>6
  <2>10. call'[c].pc = "activating" => ~Attempted(c, call'[c].try) /\ ~OnWire(c, call'[c].try)
        BY <2>3, <2>4
  <2> QED
        BY <2>1, <2>3, <2>5, <2>8, <2>9, <2>10, MoveStep
<1> QED
    BY <1>1, <1>2

\* A call that got no session is over, and had no request out.
LEMMA EndStep ==
    ASSUME TypeOK, CallsHold, Attempting, NEW c \in Calls, call[c].pc = "activating",
           call' = [call EXCEPT ![c].pc = "refused"], wire' = wire, Fixed
    PROVE  Attempting'
<1>1. "refused" \in {"unknown", "refused"}
    OBVIOUS
<1>2. "refused" \in {"new", "activating", "sent", "failed"} \cup Over
    BY <1>1 DEF Over
<1>3. /\ call'[c].pc = "refused" /\ call'[c].try = call[c].try
      /\ \A d \in Calls \ {c} : call'[d] = call[d]
    BY <1>2, CallMoves
<1>4. call[c].try \in 1..2
    BY CallFields
<1>5. ~Attempted(c, call[c].try) /\ ~OnWire(c, call[c].try)
    BY <1>4, NothingYet DEF Attempting
<1>6. OpOf[c] = "remember" /\ call[c].try = 2 => ~Attempted(c, 1) /\ ~OnWire(c, 1)
    BY DEF Attempting, SavesHold
<1>7. replies' \subseteq replies /\ executed' = executed /\ \A r \in replies' : r.call # c
    BY DEF Fixed, Attempting, RepliesHold
<1>8. OpOf[c] = "remember" =>
         /\ call'[c].pc = "failed" \/ call'[c].try = 2 => ~Attempted(c, 1) /\ ~OnWire(c, 1)
         /\ call'[c].pc = "refused" => ~Attempted(c, call'[c].try) /\ ~OnWire(c, call'[c].try)
    BY <1>1, <1>3, <1>5, <1>6
<1> QED
    BY <1>1, <1>3, <1>4, <1>7, <1>8, MoveStep DEF Over

\* The reply of an attempt.
LEMMA ReceiveStep ==
    ASSUME TypeOK, CallsHold, Attempting, NEW c \in Calls, Receive(c)
    PROVE  Attempting'
<1>1. PICK r \in replies : /\ r.call = c
                           /\ replies' = replies \ {r}
                           /\ IF r.result = "ok" THEN call' = [call EXCEPT ![c].pc = "done"] /\ UNCHANGED failed
                              ELSE Fails(c, r.result)
    BY DEF Receive
<1>2. call[c].pc = "sent" /\ wire' = wire /\ executed' = executed
    BY DEF Receive
<1>3. /\ call[c].try = r.try /\ ~OnWire(c, r.try)
      /\ (r.result = "ok") = Attempted(c, r.try) /\ r.result \notin {"transport", "garbled"}
    BY <1>1 DEF Attempting, RepliesHold, TypeOK, Reply
<1>4. replies' \subseteq replies /\ \A o \in replies' : o.call # c
    BY <1>1 DEF Attempting, RepliesHold
<1>5. CASE r.result = "ok"
  <2>1. /\ call'[c].pc = "done" /\ call'[c].try = call[c].try
        /\ \A d \in Calls \ {c} : call'[d] = call[d]
        BY <1>1, <1>5, CallMoves DEF Over
  <2>2. call[c].try \in 1..2
        BY CallFields
  <2>3. OpOf[c] = "remember" =>
           /\ call'[c].pc = "failed" \/ call'[c].try = 2 => ~Attempted(c, 1) /\ ~OnWire(c, 1)
           /\ call'[c].pc = "refused" => ~Attempted(c, call'[c].try) /\ ~OnWire(c, call'[c].try)
        BY <2>1 DEF Attempting, SavesHold
  <2>4. Attempted(c, r.try)
        BY <1>3, <1>5
  <2>5. /\ call'[c].pc \in {"activating", "failed"} \cup Over /\ call'[c].pc # "activating"
        /\ Attempted(c, call'[c].try)
        /\ call'[c].try \in 1..2 /\ call[c].try <= call'[c].try
        BY <1>3, <2>1, <2>2, <2>4 DEF Over
  <2> QED
        BY <1>2, <1>4, <2>1, <2>3, <2>5, MoveStep
<1>6. CASE r.result # "ok"
  <2>1. ~Attempted(c, call[c].try) /\ ~OnWire(c, call[c].try)
        BY <1>3, <1>6
  <2> QED
        BY <1>1, <1>2, <1>4, <1>6, <2>1, FailStep
<1> QED
    BY <1>5, <1>6

\* Every step keeps what is known of the attempts.
LEMMA StepAttempting == ASSUME TypeOK, CallsHold, Attempting, [Next]_vars PROVE Attempting'
<1>1. ASSUME NEW c \in Calls, Start(c) PROVE Attempting'
  <2>1. /\ Begins(c, 1) /\ 1 \in 1..2 /\ delegate[ProcOf[c]] \in 0..MaxSessions
        /\ Attempt(c, 1, delegate[ProcOf[c]]) /\ Fixed
        BY <1>1, CallFields DEF Start, Begins, Fixed
  <2> QED
        BY <2>1, BeginStep
<1>2. ASSUME NEW c \in Calls, Activate(c) PROVE Attempting'
  <2>1. /\ call[c].pc = "activating" /\ Send(c, call[c].try, Len(sessions')) /\ Fixed
        /\ Len(sessions') \in 1..MaxSessions /\ call[c].try \in 1..2
        BY <1>2, ActivatesTypes, CallFields DEF Activate, Activates, Fixed
  <2> QED
        BY <2>1, SendStep
<1>3. ASSUME NEW c \in Calls, ActivationFails(c) \/ ActivatedLate(c) PROVE Attempting'
    BY <1>3, EndStep DEF ActivationFails, ActivatedLate, Activates, Fixed
<1>4. ASSUME NEW c \in Calls, Receive(c) PROVE Attempting'
    BY <1>4, ReceiveStep
<1>5. ASSUME NEW c \in Calls, TimeOut(c) \/ Garbled(c) PROVE Attempting'
    BY <1>5, FailStep DEF TimeOut, Garbled
<1>6. ASSUME NEW c \in Calls, Again(c) PROVE Attempting'
  <2>1. /\ Begins(c, 2) /\ 2 \in 1..2 /\ Kept(c) \in 0..MaxSessions
        /\ Attempt(c, 2, Kept(c)) /\ Fixed
        BY <1>6, KeptType DEF Again, Begins, Fixed
  <2> QED
        BY <2>1, BeginStep
<1>7. ASSUME NEW r \in wire, Execute(r) PROVE Attempting'
    BY <1>7, ExecuteStep
<1>8. ASSUME NEW r \in wire \cup replies, Lose(r) PROVE Attempting'
    BY <1>8, LoseStep DEF Lose
<1>9. ASSUME UNCHANGED <<wire, replies, executed, call>> PROVE Attempting'
    BY <1>9, LoseStep
<1>10. ASSUME NEW s \in DOMAIN sessions, NEW how \in {"ended", "revoked"}, EndSession(s, how)
      PROVE  Attempting'
    BY <1>9, <1>10 DEF EndSession
<1>11. CASE Stop \/ Restart \/ UNCHANGED vars
    BY <1>9, <1>11 DEF Stop, Restart, vars
<1> QED
    BY <1>1, <1>2, <1>3, <1>4, <1>5, <1>6, <1>7, <1>8, <1>10, <1>11
       DEF Next, Adapter, Broker, Network
-----------------------------------------------------------------------------
(* Calls that wait, and the session of a process.                          *)

\* Calls that are over stay so, and failures are remembered.
LEMMA OverStays ==
    ASSUME TypeOK, CallsHold, [Next]_vars
    PROVE  failed \subseteq failed' /\ \A c \in Calls : call[c].pc \in Over => call'[c] = call[c]
<1> DEFINE Stays == failed \subseteq failed' /\ \A c \in Calls : call[c].pc \in Over => call'[c] = call[c]
<1>1. ASSUME NEW c \in Calls, Start(c) \/ Activate(c) \/ ActivationFails(c) \/ ActivatedLate(c) \/ Again(c)
      PROVE  Stays
  <2>1. call[c].pc \notin Over /\ failed' = failed
        BY <1>1 DEF Start, Activate, Activates, ActivationFails, ActivatedLate, Again, Over, broker
  <2>2. \A d \in Calls \ {c} : call'[d] = call[d]
        BY <1>1 DEF Start, Activate, Activates, ActivationFails, ActivatedLate, Again, Attempt, Send, TypeOK
  <2> QED
        BY <2>1, <2>2
<1>2. ASSUME NEW c \in Calls, Receive(c) \/ TimeOut(c) \/ Garbled(c) PROVE Stays
  <2>1. call[c].pc = "sent"
        BY <1>2 DEF Receive, TimeOut, Garbled
  <2>2. CASE \E how : Fails(c, how)
        BY <2>1, <2>2, FailsTypes DEF Over
  <2>3. CASE call' = [call EXCEPT ![c].pc = "done"] /\ UNCHANGED failed
        BY <2>1, <2>3 DEF TypeOK, Over
  <2> QED
        BY <1>2, <2>2, <2>3 DEF Receive, TimeOut, Garbled
<1>3. ASSUME UNCHANGED <<call, failed>> PROVE Stays
    BY <1>3
<1>4. ASSUME NEW r \in wire, Execute(r) PROVE Stays
    BY <1>3, <1>4 DEF Execute
<1>5. ASSUME NEW r \in wire \cup replies, Lose(r) PROVE Stays
    BY <1>3, <1>5 DEF Lose
<1>6. ASSUME NEW s \in DOMAIN sessions, NEW how \in {"ended", "revoked"}, EndSession(s, how)
      PROVE  Stays
    BY <1>3, <1>6 DEF EndSession
<1>7. CASE Stop \/ Restart \/ UNCHANGED vars
    BY <1>3, <1>7 DEF Stop, Restart, vars
<1> QED
    BY <1>1, <1>2, <1>4, <1>5, <1>6, <1>7 DEF Next, Adapter, Broker, Network

Calling == CallsHold /\ OneWaits

\* A call that is not waiting for a session: nobody else is disturbed.
LEMMA RestStep ==
    ASSUME TypeOK, Calling, NEW c \in Calls,
           \A d \in Calls \ {c} : call'[d] = call[d],
           delegate' = delegate, failed \subseteq failed',
           call'[c].pc \in {"failed"} \cup Over,
           call'[c].pc = "failed" => call'[c].try = 1 /\ call'[c].session \in failed'
    PROVE  Calling'
<1>1. CallsHold'
    BY DEF Calling, CallsHold, Over
<1>2. OneWaits'
    BY DEF Calling, OneWaits, Waiting, Over
<1> QED
    BY <1>1, <1>2 DEF Calling

\* An attempt begins when no call of its process waits.
LEMMA WaitStep ==
    ASSUME TypeOK, Calling, NEW c \in Calls, NEW t \in 1..2, NEW s \in 0..MaxSessions,
           ~Blocked(ProcOf[c]), Attempt(c, t, s),
           delegate' \in [Procs -> 0..MaxSessions], delegate'[ProcOf[c]] = s,
           \A p \in Procs \ {ProcOf[c]} : delegate'[p] = delegate[p],
           failed' = failed
    PROVE  Calling'
<1>1. /\ call'[c].pc = (IF s # 0 THEN "sent" ELSE "activating") /\ call'[c].session = s
      /\ \A d \in Calls \ {c} : call'[d] = call[d]
  <2>1. CASE s # 0
        BY <2>1 DEF Attempt, Send, TypeOK
  <2>2. CASE s = 0
        BY <2>2 DEF Attempt, TypeOK
  <2> QED
        BY <2>1, <2>2
<1>2. \A d \in Calls : ProcOf[d] = ProcOf[c] => call[d].pc \notin Waiting
    BY DEF Blocked, Waiting
<1>3. CallsHold'
  <2> SUFFICES ASSUME NEW d \in Calls
               PROVE  /\ call'[d].pc = "new" => call'[d].try = 1
                      /\ call'[d].pc = "activating" => call'[d].session = 0 /\ delegate'[ProcOf[d]] = 0
                      /\ call'[d].pc = "sent" => call'[d].session # 0
                      /\ call'[d].pc = "failed" => call'[d].try = 1 /\ call'[d].session \in failed'
        BY DEF CallsHold
  <2>1. CASE d = c
        BY <1>1, <2>1
  <2>2. CASE d # c
        BY <1>1, <1>2, <2>2, CallFields DEF Calling, CallsHold, Waiting
  <2> QED
        BY <2>1, <2>2
<1>4. OneWaits'
    BY <1>1, <1>2 DEF Calling, OneWaits
<1> QED
    BY <1>3, <1>4 DEF Calling

\* Every step leaves one call of a process waiting, with the session it is to use.
LEMMA StepCalling == ASSUME TypeOK, Calling, [Next]_vars PROVE Calling'
<1>1. ASSUME NEW c \in Calls, Start(c) PROVE Calling'
  <2>1. /\ ~Blocked(ProcOf[c]) /\ 1 \in 1..2 /\ delegate[ProcOf[c]] \in 0..MaxSessions
        /\ Attempt(c, 1, delegate[ProcOf[c]]) /\ delegate' = delegate /\ failed' = failed
        BY <1>1, CallFields DEF Start
  <2>2. delegate' \in [Procs -> 0..MaxSessions]
        BY <2>1 DEF TypeOK
  <2>3. /\ delegate'[ProcOf[c]] = delegate[ProcOf[c]]
        /\ \A p \in Procs \ {ProcOf[c]} : delegate'[p] = delegate[p]
        BY <2>1
  <2> QED
        BY <2>1, <2>2, <2>3, WaitStep
<1>2. ASSUME NEW c \in Calls, Activate(c) PROVE Calling'
  <2>1. /\ call[c].pc = "activating" /\ Len(sessions') \in 1..MaxSessions /\ failed' = failed
        /\ delegate' = [delegate EXCEPT ![ProcOf[c]] = Len(sessions')]
        BY <1>2, ActivatesTypes DEF Activate, Activates
  <2>2. /\ call'[c].pc = "sent" /\ call'[c].session = Len(sessions')
        /\ \A d \in Calls \ {c} : call'[d] = call[d]
        BY <1>2 DEF Activate, Send, TypeOK
  <2>3. \A d \in Calls \ {c} : ProcOf[d] = ProcOf[c] => call[d].pc \notin Waiting
        BY <2>1 DEF Calling, OneWaits, Waiting
  <2>4. CallsHold'
    <3> SUFFICES ASSUME NEW d \in Calls
                 PROVE  /\ call'[d].pc = "new" => call'[d].try = 1
                        /\ call'[d].pc = "activating" => call'[d].session = 0 /\ delegate'[ProcOf[d]] = 0
                        /\ call'[d].pc = "sent" => call'[d].session # 0
                        /\ call'[d].pc = "failed" => call'[d].try = 1 /\ call'[d].session \in failed'
        BY DEF CallsHold
    <3>1. CASE d = c
        BY <2>1, <2>2, <3>1, ConstantsAssumption
    <3>2. CASE d # c
      <4>1. call'[d] = call[d]
            BY <2>2, <3>2
      <4>2. call[d].pc = "activating" => delegate'[ProcOf[d]] = delegate[ProcOf[d]]
            BY <2>1, <2>3, <3>2, CallFields DEF Waiting, TypeOK
      <4> QED
            BY <2>1, <4>1, <4>2 DEF Calling, CallsHold
    <3> QED
        BY <3>1, <3>2
  <2>5. OneWaits'
        BY <2>1, <2>2, <2>3 DEF Calling, OneWaits
  <2> QED
        BY <2>4, <2>5 DEF Calling
<1>3. ASSUME NEW c \in Calls, ActivationFails(c) \/ ActivatedLate(c) PROVE Calling'
  <2>1. /\ call' = [call EXCEPT ![c].pc = "refused"] /\ delegate' = delegate /\ failed' = failed
        /\ "refused" \in Over
        BY <1>3 DEF ActivationFails, ActivatedLate, Over
  <2>2. call'[c].pc = "refused" /\ \A d \in Calls \ {c} : call'[d] = call[d]
        BY <2>1 DEF TypeOK
  <2>3. call'[c].pc # "failed"
        BY <2>1, <2>2 DEF Over
  <2> QED
        BY <2>1, <2>2, <2>3, RestStep
<1>4. ASSUME NEW c \in Calls, Receive(c) \/ TimeOut(c) \/ Garbled(c) PROVE Calling'
  <2>1. call[c].pc = "sent" /\ delegate' = delegate
        BY <1>4 DEF Receive, TimeOut, Garbled
  <2>2. ASSUME NEW how, Fails(c, how) PROVE Calling'
    <3>1. /\ failed \subseteq failed'
          /\ \A d \in Calls \ {c} : call'[d] = call[d]
          /\ call'[c].try = call[c].try /\ call'[c].session = call[c].session
          /\ \/ call'[c].pc = "failed" /\ call[c].try = 1 /\ call[c].session \in failed'
             \/ call'[c].pc = Told(c, how) /\ Told(c, how) \in {"unknown", "refused"}
        BY <2>1, <2>2, FailsTypes DEF Calling
    <3>2. /\ call'[c].pc \in {"failed"} \cup Over
          /\ call'[c].pc = "failed" => call'[c].try = 1 /\ call'[c].session \in failed'
        BY <3>1 DEF Over
    <3> QED
        BY <2>1, <3>1, <3>2, RestStep
  <2>3. ASSUME call' = [call EXCEPT ![c].pc = "done"], UNCHANGED failed PROVE Calling'
    <3>1. call'[c].pc = "done" /\ \A d \in Calls \ {c} : call'[d] = call[d]
        BY <2>3 DEF TypeOK
    <3> QED
        BY <2>1, <2>3, <3>1, RestStep DEF Over
  <2> QED
        BY <1>4, <2>2, <2>3 DEF Receive, TimeOut, Garbled
<1>5. ASSUME NEW c \in Calls, Again(c) PROVE Calling'
  <2>1. /\ ~Blocked(ProcOf[c]) /\ 2 \in 1..2 /\ Kept(c) \in 0..MaxSessions
        /\ Attempt(c, 2, Kept(c)) /\ failed' = failed
        /\ delegate' = [delegate EXCEPT ![ProcOf[c]] = Kept(c)]
        BY <1>5, KeptType DEF Again
  <2>2. /\ delegate' \in [Procs -> 0..MaxSessions] /\ delegate'[ProcOf[c]] = Kept(c)
        /\ \A p \in Procs \ {ProcOf[c]} : delegate'[p] = delegate[p]
        BY <2>1, CallFields DEF TypeOK
  <2> QED
        BY <2>1, <2>2, WaitStep
<1>6. ASSUME UNCHANGED <<call, delegate, failed>> PROVE Calling'
    BY <1>6 DEF Calling, CallsHold, OneWaits
<1>7. ASSUME NEW r \in wire, Execute(r) PROVE Calling'
    BY <1>6, <1>7 DEF Execute
<1>8. ASSUME NEW r \in wire \cup replies, Lose(r) PROVE Calling'
    BY <1>6, <1>8 DEF Lose
<1>9. ASSUME NEW s \in DOMAIN sessions, NEW how \in {"ended", "revoked"}, EndSession(s, how)
      PROVE  Calling'
    BY <1>6, <1>9 DEF EndSession
<1>10. CASE Stop \/ Restart \/ UNCHANGED vars
    BY <1>6, <1>10 DEF Stop, Restart, vars
<1> QED
    BY <1>1, <1>2, <1>3, <1>4, <1>5, <1>7, <1>8, <1>9, <1>10 DEF Next, Adapter, Broker, Network

\* A session that is not the delegate of its process: why.
Left(s) == \/ s \in failed
           \/ \E c \in Calls : /\ ProcOf[c] = sessions[s].proc
                               /\ call[c].pc \in Over /\ call[c].session = 0

\* Every step leaves the sessions of a process shared by its calls.
LEMMA StepSessions ==
    ASSUME TypeOK, Calling, SessionsHold, [Next]_vars
    PROVE  SessionsHold'
<1>1. failed \subseteq failed' /\ \A c \in Calls : call[c].pc \in Over => call'[c] = call[c]
    BY OverStays DEF Calling
<1>2. ASSUME NEW s \in DOMAIN sessions, Left(s), sessions'[s].proc = sessions[s].proc PROVE Left(s)'
    BY <1>1, <1>2 DEF Left
<1>3. \A s \in DOMAIN sessions : s # delegate[sessions[s].proc] => Left(s)
    BY DEF SessionsHold, Left
<1>4. \A s \in DOMAIN sessions : s # 0 /\ sessions[s].proc \in Procs
  <2>1. sessions \in Seq(Session)
        BY DEF TypeOK
  <2>2. \A s \in DOMAIN sessions : s # 0 /\ sessions[s] \in Session
        BY <2>1
  <2> QED
        BY <2>2 DEF Session
<1>5. ASSUME UNCHANGED <<sessions, delegate>> PROVE SessionsHold'
  <2>1. \A s \in DOMAIN sessions : s # delegate[sessions[s].proc] => Left(s)'
        BY <1>2, <1>3, <1>5
  <2> QED
        BY <1>5, <2>1 DEF SessionsHold, Left
<1>6. ASSUME NEW c \in Calls, Activate(c) PROVE SessionsHold'
  <2>1. /\ delegate' = [delegate EXCEPT ![ProcOf[c]] = Len(sessions')]
        /\ call[c].pc = "activating" /\ ProcOf[c] \in Procs
        BY <1>6, CallFields DEF Activate, Activates
  <2>2. /\ \A s \in DOMAIN sessions : s \in DOMAIN sessions' /\ sessions'[s] = sessions[s]
        /\ \A s \in DOMAIN sessions' : s \in DOMAIN sessions \/ s = Len(sessions')
        /\ sessions'[Len(sessions')].proc = ProcOf[c]
        BY <1>6, ActivatesTypes DEF Activate
  <2>3. delegate[ProcOf[c]] = 0
        BY <2>1 DEF Calling, CallsHold
  <2> SUFFICES ASSUME NEW s \in DOMAIN sessions', s # delegate'[sessions'[s].proc]
               PROVE  Left(s)'
        BY DEF SessionsHold, Left
  <2>4. s \in DOMAIN sessions /\ sessions'[s] = sessions[s]
        BY <2>1, <2>2 DEF TypeOK
  <2>5. s # delegate[sessions[s].proc]
        BY <1>4, <2>1, <2>3, <2>4 DEF TypeOK
  <2> QED
        BY <1>2, <1>3, <2>4, <2>5
<1>7. ASSUME NEW c \in Calls, ActivatedLate(c) PROVE SessionsHold'
  <2>1. /\ delegate' = delegate /\ call[c].pc = "activating"
        /\ call' = [call EXCEPT ![c].pc = "refused"] /\ "refused" \in Over
        BY <1>7 DEF ActivatedLate, Activates, Over
  <2>2. /\ \A s \in DOMAIN sessions : s \in DOMAIN sessions' /\ sessions'[s] = sessions[s]
        /\ \A s \in DOMAIN sessions' : s \in DOMAIN sessions \/ s = Len(sessions')
        /\ sessions'[Len(sessions')].proc = ProcOf[c]
        BY <1>7, ActivatesTypes DEF ActivatedLate
  <2>3. call'[c].pc \in Over /\ call'[c].session = 0
        BY <2>1 DEF Calling, CallsHold, TypeOK
  <2> SUFFICES ASSUME NEW s \in DOMAIN sessions', s # delegate'[sessions'[s].proc]
               PROVE  Left(s)'
        BY DEF SessionsHold, Left
  <2>4. CASE s = Len(sessions')
        BY <2>2, <2>3, <2>4 DEF Left
  <2>5. CASE s \in DOMAIN sessions
        BY <1>2, <1>3, <2>1, <2>2, <2>5
  <2> QED
        BY <2>2, <2>4, <2>5
<1>8. ASSUME NEW c \in Calls, Again(c) PROVE SessionsHold'
  <2>1. /\ delegate' = [delegate EXCEPT ![ProcOf[c]] = Kept(c)] /\ sessions' = sessions
        /\ call[c].pc = "failed" /\ ProcOf[c] \in Procs
        BY <1>8, CallFields DEF Again, broker
  <2>2. call[c].session \in failed
        BY <2>1 DEF Calling, CallsHold
  <2> SUFFICES ASSUME NEW s \in DOMAIN sessions, s # delegate'[sessions[s].proc]
               PROVE  Left(s)'
        BY <2>1 DEF SessionsHold, Left
  <2>3. CASE s = delegate[sessions[s].proc]
    <3>1. sessions[s].proc = ProcOf[c]
        BY <1>4, <2>1, <2>3 DEF TypeOK
    <3>2. Kept(c) # delegate[ProcOf[c]]
        BY <2>1, <2>3, <3>1 DEF TypeOK
    <3>3. s = call[c].session
        BY <2>3, <3>1, <3>2 DEF Kept
    <3> QED
        BY <1>1, <2>2, <3>3 DEF Left
  <2>4. CASE s # delegate[sessions[s].proc]
        BY <1>2, <1>3, <2>1, <2>4
  <2> QED
        BY <2>3, <2>4
<1>9. ASSUME NEW c \in Calls, Start(c) \/ ActivationFails(c) \/ Receive(c) \/ TimeOut(c)
                             \/ Garbled(c)
      PROVE  SessionsHold'
    BY <1>5, <1>9 DEF Start, ActivationFails, Receive, TimeOut, Garbled, broker
<1>10. ASSUME NEW r \in wire, Execute(r) PROVE SessionsHold'
    BY <1>5, <1>10 DEF Execute, broker
<1>11. ASSUME NEW r \in wire \cup replies, Lose(r) PROVE SessionsHold'
    BY <1>5, <1>11 DEF Lose, broker
<1>12. ASSUME NEW e \in DOMAIN sessions, NEW how \in {"ended", "revoked"}, EndSession(e, how)
      PROVE  SessionsHold'
  <2>1. /\ delegate' = delegate /\ DOMAIN sessions' = DOMAIN sessions
        /\ \A s \in DOMAIN sessions : sessions'[s].proc = sessions[s].proc
        BY <1>12 DEF EndSession, TypeOK, Session
  <2> SUFFICES ASSUME NEW s \in DOMAIN sessions, s # delegate[sessions[s].proc]
               PROVE  Left(s)'
        BY <2>1 DEF SessionsHold, Left
  <2> QED
        BY <1>2, <1>3, <2>1
<1>13. CASE Stop \/ Restart \/ UNCHANGED vars
    BY <1>5, <1>13 DEF Stop, Restart, vars, broker
<1> QED
    BY <1>6, <1>7, <1>8, <1>9, <1>10, <1>11, <1>12, <1>13 DEF Next, Adapter, Broker, Network

-----------------------------------------------------------------------------
(* The inductive invariant holds.                                          *)

LEMMA InitInvariant == Init => IInv
<1> SUFFICES ASSUME Init PROVE IInv
    OBVIOUS
<1> USE ConstantsAssumption DEF Init
<1>1. TypeOK
    BY DEF TypeOK, Fresh
<1>2. CallsHold /\ OneWaits
    BY DEF CallsHold, OneWaits, Fresh, Waiting
<1>3. RequestsHold /\ RepliesHold
    BY DEF RequestsHold, RepliesHold
<1>4. SavesHold
    BY DEF SavesHold, Fresh
<1>5. SessionsHold
    BY DEF SessionsHold
<1> QED
    BY <1>1, <1>2, <1>3, <1>4, <1>5 DEF IInv

LEMMA StepInvariant == IInv /\ [Next]_vars => IInv'
<1> SUFFICES ASSUME IInv, [Next]_vars PROVE IInv'
    OBVIOUS
<1>1. TypeOK /\ CallsHold /\ Calling /\ Attempting /\ SessionsHold
    BY DEF IInv, Calling, Attempting
<1>2. TypeOK'
    BY <1>1, NextTypes
<1>3. Calling' /\ Attempting' /\ SessionsHold'
    BY <1>1, StepCalling, StepAttempting, StepSessions
<1> QED
    BY <1>2, <1>3 DEF IInv, Calling, Attempting

\* The whole inductive invariant holds in every behaviour.
THEOREM CallsInductive == Spec => []IInv
<1> QED
    BY InitInvariant, StepInvariant, PTL DEF Spec

\* One call to remember has one attempt executed at most (#withReactivation).
THEOREM SavesAreSingle == Spec => []SavedOnce
<1>1. ASSUME IInv PROVE SavedOnce
  <2>1. TypeOK /\ RequestsHold /\ SavesHold
        BY <1>1 DEF IInv
  <2>2. ASSUME NEW c \in Calls, OpOf[c] = "remember" PROVE Cardinality(Attempts(c)) <= 1
    <3>1. call[c].try \in 1..2
        BY <2>1, CallFields
    <3>2. ASSUME NEW t \in 1..2, Attempted(c, t) PROVE t = call[c].try
      <4> DEFINE x == [call |-> c, try |-> t]
      <4>1. x \in executed /\ x.call = c /\ x.try = t
            BY <3>2 DEF Attempted
      <4> HIDE DEF x
      <4>2. t <= call[c].try
            BY <2>1, <4>1 DEF RequestsHold
      <4>3. ~(t = 1 /\ call[c].try = 2)
            BY <2>1, <2>2, <3>2 DEF SavesHold
      <4> QED
            BY <3>1, <4>2, <4>3
    <3>3. Attempts(c) = {} \/ Attempts(c) = {call[c].try}
        BY <3>2 DEF Attempts, Attempted
    <3>4. Cardinality({}) = 0 /\ Cardinality({call[c].try}) = 1
        BY FS_EmptySet, FS_Singleton
    <3> QED
        BY <3>3, <3>4
  <2> QED
        BY <2>1, <2>2 DEF SavedOnce
<1> QED
    BY <1>1, CallsInductive, PTL

\* What the connector tells of a save is so (withReactivation, toolFailure).
THEOREM SavesToldTruly == Spec => []SavesAreTold
<1>1. ASSUME IInv PROVE SavesAreTold
  <2>1. TypeOK /\ RequestsHold /\ SavesHold
        BY <1>1 DEF IInv
  <2> SUFFICES ASSUME NEW c \in Calls, OpOf[c] = "remember"
               PROVE  /\ call[c].pc = "done" => Attempts(c) # {}
                      /\ call[c].pc = "refused" =>
                            Attempts(c) = {} /\ ~\E r \in wire : r.call = c /\ Admits(r)
        BY DEF SavesAreTold
  <2>2. call[c].try \in 1..2
        BY <2>1, CallFields
  <2>3. ASSUME call[c].pc = "done" PROVE Attempts(c) # {}
        BY <2>1, <2>2, <2>3 DEF SavesHold, Attempts, Attempted
  <2>4. ASSUME call[c].pc = "refused", NEW t \in 1..2 PROVE ~Attempted(c, t) /\ ~OnWire(c, t)
    <3>1. /\ ~Attempted(c, call[c].try) /\ ~OnWire(c, call[c].try)
          /\ call[c].try = 2 => ~Attempted(c, 1) /\ ~OnWire(c, 1)
        BY <2>1, <2>4 DEF SavesHold
    <3>2. ASSUME t > call[c].try, Attempted(c, t) PROVE FALSE
      <4> DEFINE x == [call |-> c, try |-> t]
      <4>1. x \in executed /\ x.call = c /\ x.try = t
            BY <3>2 DEF Attempted
      <4> HIDE DEF x
      <4>2. t <= call[c].try
            BY <2>1, <4>1 DEF RequestsHold
      <4> QED
            BY <2>2, <3>2, <4>2
    <3>3. t > call[c].try => ~OnWire(c, t)
        BY <2>1, <2>2 DEF RequestsHold, OnWire
    <3>4. t = call[c].try \/ t > call[c].try \/ (t = 1 /\ call[c].try = 2)
        BY <2>2
    <3> QED
        BY <3>1, <3>2, <3>3, <3>4
  <2>5. ASSUME call[c].pc = "refused" PROVE ~\E r \in wire : r.call = c
    <3>1. \A r \in wire : r.try \in 1..2
        BY <2>1 DEF TypeOK, Request
    <3> QED
        BY <2>4, <2>5, <3>1 DEF OnWire
  <2> QED
        BY <2>3, <2>4, <2>5 DEF Attempts, Attempted
<1> QED
    BY <1>1, CallsInductive, PTL

\* A process works with another session only after a call failed on the one before
\* (#activated, #withReactivation).
THEOREM SessionsShared == Spec => []SessionsAreShared
<1>1. IInv => SessionsAreShared
    BY DEF IInv, SessionsHold, SessionsAreShared
<1> QED
    BY <1>1, CallsInductive, PTL

-----------------------------------------------------------------------------
(* The host's configuration: the inductive invariant.                      *)

Actions == {"none", "install", "remove", "rotate"}
CommandTypes == [at : Phases, action : Actions, read : [Names -> Forms], todo : Seq(Call)]

HostTyped ==
    /\ IdentTypeOK
    /\ host \in Hosts /\ config \in [Names -> Forms] /\ edits \in 0..MaxEdits
    /\ cmd \in [Commands -> CommandTypes] /\ behind \in [Commands -> SUBSET Names]

\* An approved rotation was approved for the identity it saw, and backed up before it goes on;
\* once it has compared for the last time it still stands on that one, unless it is overtaken.
RotationsHold ==
    \A c \in Commands :
       /\ rot[c].at = "asked" => rot[c].seen \in Ids /\ rot[c].next \in Ids
       /\ rot[c].at \in {"approved", "backed", "compared"} =>
             <<rot[c].seen, rot[c].next>> \in approvals
       /\ rot[c].at \in {"backed", "compared"} => rot[c].seen \in backups
       /\ (rot[c].at = "compared" /\ c \notin overtaken) => file = rot[c].seen

\* What a command still has to do: no call acts on an entry of somebody else's that it knows.
TodoHolds(c) ==
    \A i \in 1..Len(cmd[c].todo) :
       /\ cmd[c].todo[i][2] \in Names
       /\ cmd[c].todo[i][1] # "stop" =>
             cmd[c].todo[i][2] \in behind[c] \/ config[cmd[c].todo[i][2]] # "foreign"

\* The calls in q on the name n, of which there stands form, end with goal there.
Leaves(k, form) == k[1] # "stop" /\ Effect(k, form) = form
ComesTo(q, n, form, goal) ==
    \/ form = goal /\ \A i \in 1..Len(q) : q[i][2] # n
    \/ \E i \in 1..Len(q) : /\ q[i][2] = n /\ Leaves(q[i], goal)
                            /\ \A j \in 1..Len(q) : j > i => q[j][2] # n
Stops(q) == \E i \in 1..Len(q) : q[i][1] = "stop"

\* What a command knows of a name that nobody else changed since it last read it.
AsToday(n, form) == form = IF n = "current" THEN "own" ELSE "none"
Claiming == {"validating", "kept", "confirming", "installed"}
Acting == {"proving", "changing", "confirming", "undoing", "restoring"}
KnowsWell(c) ==
    /\ cmd[c].at \in Acting => \A n \in Names : cmd[c].read[n] # "foreign"
    /\ \A n \in Names \ behind[c] :
          /\ cmd[c].at \in Claiming => AsToday(n, config[n])
          /\ cmd[c].at = "removed" => config[n] = "none"
          /\ cmd[c].at = "failed" => config[n] = cmd[c].read[n]
          /\ (cmd[c].at = "restoring" /\ ~Stops(cmd[c].todo)) =>
                ComesTo(cmd[c].todo, n, config[n], cmd[c].read[n])

CommandsHold == \A c \in Commands : TodoHolds(c) /\ KnowsWell(c)
HostIInv == HostTyped /\ RotationsHold /\ CommandsHold

\* A step of a command leaves alone the entries of others that the command knows.
KeepsStrangers ==
    \A c \in Commands, n \in Names :
       (cmd'[c] # cmd[c] /\ config[n] = "foreign" /\ config'[n] # "foreign")
         => n \in behind[c]

\* An identity leaves its file for one approved in the place of what was inspected and backed
\* up, and it is that very one unless the command was overtaken.
KeepsIdentity ==
    file' # file =>
      \E c \in Commands : /\ rot'[c] # rot[c]
                          /\ <<rot[c].seen, file'>> \in approvals /\ rot[c].seen \in backups
                          /\ file = rot[c].seen \/ c \in overtaken

-----------------------------------------------------------------------------
(* The rotation of an identity.                                            *)

RotationTypes == [at : {"none", "asked", "approved", "backed", "compared", "rotated", "failed"},
                  seen : Ids \cup {None}, next : Ids \cup {None}]

LEMMA ToIs ==
    ASSUME rot \in [Commands -> RotationTypes], NEW c \in Commands, NEW at, To(c, at),
           at \in {"none", "asked", "approved", "backed", "compared", "rotated", "failed"}
    PROVE  /\ rot' \in [Commands -> RotationTypes]
           /\ rot'[c].at = at /\ rot'[c].seen = rot[c].seen /\ rot'[c].next = rot[c].next
           /\ \A d \in Commands : d # c => rot'[d] = rot[d]
  BY DEF To, RotationTypes

LEMMA RotationIs ==
    ASSUME IdentTypeOK, RotationsHold, NEW c \in Commands,
           Inspect(c) \/ Rotates(c) \/ UNCHANGED identVars
    PROVE  IdentTypeOK' /\ RotationsHold' /\ KeepsIdentity
<1>1. /\ rot \in [Commands -> RotationTypes] /\ file \in Ids /\ backups \subseteq Ids
      /\ gate \in Ids \cup {None} /\ approvals \subseteq Ids \X Ids /\ minted \in Ids
      /\ overtaken \subseteq Commands /\ MaxIds \in Nat
  BY IdsAssumption DEF IdentTypeOK, RotationTypes
<1>2. CASE UNCHANGED identVars
  BY <1>2 DEF identVars, IdentTypeOK, RotationsHold, KeepsIdentity
<1>3. CASE Inspect(c)
  <2>1. /\ minted + 1 \in Ids /\ minted' = minted + 1
        /\ rot' = [rot EXCEPT ![c] = [at |-> "asked", seen |-> file, next |-> minted + 1]]
        /\ UNCHANGED <<file, backups, gate, approvals, overtaken>>
    BY <1>1, <1>3 DEF Inspect, Ids
  <2>2. /\ rot' \in [Commands -> RotationTypes] /\ rot'[c].at = "asked"
        /\ rot'[c].seen \in Ids /\ rot'[c].next \in Ids
        /\ \A d \in Commands : d # c => rot'[d] = rot[d]
    BY <1>1, <2>1 DEF RotationTypes
  <2>3. RotationsHold'
    BY <2>1, <2>2 DEF RotationsHold
  <2> QED BY <1>1, <2>1, <2>2, <2>3 DEF IdentTypeOK, RotationTypes, KeepsIdentity
<1>4. CASE Approve(c)
  <2>1. /\ rot[c].at = "asked" /\ gate' = rot[c].next
        /\ approvals' = approvals \cup {<<rot[c].seen, rot[c].next>>}
        /\ UNCHANGED <<file, backups, minted, overtaken>>
        /\ rot[c].seen \in Ids /\ rot[c].next \in Ids
    BY <1>4 DEF Approve, RotationsHold
  <2>2. PICK at \in {"approved", "failed"} : To(c, at)
    BY <1>4 DEF Approve
  <2>3. /\ rot' \in [Commands -> RotationTypes]
        /\ rot'[c].at = at /\ rot'[c].seen = rot[c].seen /\ rot'[c].next = rot[c].next
        /\ \A d \in Commands : d # c => rot'[d] = rot[d]
    BY <1>1, <2>2, ToIs
  <2>4. RotationsHold'
    BY <2>1, <2>2, <2>3 DEF RotationsHold
  <2> QED BY <1>1, <2>1, <2>3, <2>4 DEF IdentTypeOK, RotationTypes, KeepsIdentity
<1>5. CASE Refuse(c)
  <2>1. To(c, "failed") /\ UNCHANGED <<file, backups, gate, approvals, minted, overtaken>>
    BY <1>5 DEF Refuse
  <2>2. /\ rot' \in [Commands -> RotationTypes] /\ rot'[c].at = "failed"
        /\ \A d \in Commands : d # c => rot'[d] = rot[d]
    BY <1>1, <2>1, ToIs
  <2>3. RotationsHold'
    BY <2>1, <2>2 DEF RotationsHold
  <2> QED BY <1>1, <2>1, <2>2, <2>3 DEF IdentTypeOK, RotationTypes, KeepsIdentity
<1>6. CASE Backup(c)
  <2>1. /\ rot[c].at = "approved" /\ UNCHANGED <<file, gate, approvals, minted, overtaken>>
        /\ \/ file = rot[c].seen /\ backups' = backups \cup {file} /\ To(c, "backed")
           \/ To(c, "failed") /\ backups' = backups
    BY <1>6 DEF Backup, Unchanged
  <2>2. PICK at \in {"backed", "failed"} :
          /\ To(c, at) /\ (at = "backed" => rot[c].seen \in backups')
          /\ backups \subseteq backups' /\ backups' \subseteq Ids
    BY <1>1, <2>1
  <2>3. /\ rot' \in [Commands -> RotationTypes]
        /\ rot'[c].at = at /\ rot'[c].seen = rot[c].seen /\ rot'[c].next = rot[c].next
        /\ \A d \in Commands : d # c => rot'[d] = rot[d]
    BY <1>1, <2>2, ToIs
  <2>4. RotationsHold'
    BY <2>1, <2>2, <2>3 DEF RotationsHold
  <2> QED BY <1>1, <2>1, <2>2, <2>3, <2>4 DEF IdentTypeOK, RotationTypes, KeepsIdentity
<1>7. CASE Compare(c)
  <2>1. /\ rot[c].at = "backed" /\ UNCHANGED <<file, backups, gate, approvals, minted, overtaken>>
        /\ \/ file = rot[c].seen /\ To(c, "compared")
           \/ To(c, "failed")
    BY <1>7 DEF Compare, Unchanged
  <2>2. PICK at \in {"compared", "failed"} : To(c, at) /\ (at = "compared" => file = rot[c].seen)
    BY <2>1
  <2>3. /\ rot' \in [Commands -> RotationTypes]
        /\ rot'[c].at = at /\ rot'[c].seen = rot[c].seen /\ rot'[c].next = rot[c].next
        /\ \A d \in Commands : d # c => rot'[d] = rot[d]
    BY <1>1, <2>2, ToIs
  <2>4. RotationsHold'
    BY <2>1, <2>2, <2>3 DEF RotationsHold
  <2> QED BY <1>1, <2>1, <2>3, <2>4 DEF IdentTypeOK, RotationTypes, KeepsIdentity
<1>8. CASE Replace(c)
  <2>1. /\ rot[c].at = "compared" /\ UNCHANGED <<backups, gate, approvals, minted>>
        /\ file' = rot[c].next /\ To(c, "rotated")
        /\ overtaken' = overtaken \cup {d \in Commands \ {c} : rot[d].at = "compared"}
    BY <1>8 DEF Replace
  <2>2. /\ <<rot[c].seen, rot[c].next>> \in approvals /\ rot[c].seen \in backups
        /\ file = rot[c].seen \/ c \in overtaken
    BY <2>1 DEF RotationsHold
  <2>3. /\ rot' \in [Commands -> RotationTypes] /\ rot'[c].at = "rotated"
        /\ \A d \in Commands : d # c => rot'[d] = rot[d]
    BY <1>1, <2>1, ToIs
  <2>4. file' \in Ids /\ overtaken' \subseteq Commands
    BY <1>1, <2>1, <2>2
  <2>5. ASSUME NEW d \in Commands
        PROVE  /\ rot'[d].at = "asked" => rot'[d].seen \in Ids /\ rot'[d].next \in Ids
               /\ rot'[d].at \in {"approved", "backed", "compared"} =>
                     <<rot'[d].seen, rot'[d].next>> \in approvals'
               /\ rot'[d].at \in {"backed", "compared"} => rot'[d].seen \in backups'
               /\ (rot'[d].at = "compared" /\ d \notin overtaken') => file' = rot'[d].seen
    <3>1. CASE d = c
      BY <2>3, <3>1
    <3>2. CASE d # c
      <4>1. rot'[d] = rot[d] /\ (rot[d].at = "compared" => d \in overtaken')
        BY <2>1, <2>3, <3>2
      <4> QED BY <2>1, <4>1 DEF RotationsHold
    <3> QED BY <3>1, <3>2
  <2>6. RotationsHold'
    BY <2>5 DEF RotationsHold, Ids
  <2>7. KeepsIdentity
    <3>1. rot'[c] # rot[c]
      BY <2>1, <2>3
    <3>2. <<rot[c].seen, file'>> \in approvals
      BY <2>1, <2>2
    <3> QED BY <2>2, <3>1, <3>2 DEF KeepsIdentity
  <2> QED BY <1>1, <2>1, <2>3, <2>4, <2>6, <2>7 DEF IdentTypeOK, RotationTypes
<1> QED BY <1>2, <1>3, <1>4, <1>5, <1>6, <1>7, <1>8 DEF Rotates

-----------------------------------------------------------------------------
(* Calls of the host's command line.                                       *)

LEMMA ConcatIs ==
    ASSUME NEW S, NEW p \in Seq(S), NEW q \in Seq(S)
    PROVE  /\ p \o q \in Seq(S) /\ Len(p) \in Nat /\ Len(q) \in Nat
           /\ Len(p \o q) = Len(p) + Len(q)
           /\ \A i \in 1..Len(p) : (p \o q)[i] = p[i] /\ i \in 1..Len(p \o q)
           /\ \A i \in 1..Len(q) : (p \o q)[Len(p) + i] = q[i] /\ Len(p) + i \in 1..Len(p \o q)
           /\ \A i \in 1..Len(p \o q) :
                 i \in 1..Len(p) \/ (i - Len(p) \in 1..Len(q) /\ (p \o q)[i] = q[i - Len(p)])
  OBVIOUS

LEMMA PairIs ==
    ASSUME NEW S, NEW a \in S, NEW b \in S
    PROVE  LET q == <<a>> \o <<b>>
           IN q \in Seq(S) /\ Len(q) = 2 /\ q[1] = a /\ q[2] = b
<1>1. /\ <<a>> \in Seq(S) /\ Len(<<a>>) = 1 /\ <<a>>[1] = a
      /\ <<b>> \in Seq(S) /\ Len(<<b>>) = 1 /\ <<b>>[1] = b
  OBVIOUS
<1> QED BY <1>1, ConcatIs

\* Calls that remove names, and nothing else.
OnlyRemoves(q) == \A i \in 1..Len(q) : q[i][1] = "remove" /\ q[i][2] \in Names

LEMMA RemovalIs ==
    ASSUME NEW n \in {"legacy", "current"}, NEW e
    PROVE  Removal(n, e) \in Seq(Call) /\ OnlyRemoves(Removal(n, e))
<1> DEFINE k == <<"remove", n>>
<1>1. k \in Call /\ k[1] = "remove" /\ k[2] = n
  BY DEF Call
<1> HIDE DEF k
<1>2. /\ <<k>> \in Seq(Call) /\ Len(<<k>>) = 1 /\ <<k>>[1] = k
      /\ <<>> \in Seq(Call) /\ Len(<<>>) = 0
  BY <1>1
<1>3. Removal(n, e) = IF n \in Names /\ e[n] # "none" THEN <<k>> ELSE <<>>
  BY DEF Removal, k
<1> QED BY <1>1, <1>2, <1>3 DEF OnlyRemoves

LEMMA RemovalsAre ==
    ASSUME NEW e
    PROVE  Removals(e) \in Seq(Call) /\ OnlyRemoves(Removals(e))
<1> DEFINE p == Removal("legacy", e)
           q == Removal("current", e)
<1>1. /\ p \in Seq(Call) /\ OnlyRemoves(p)
      /\ q \in Seq(Call) /\ OnlyRemoves(q)
  BY RemovalIs
<1>2. Removals(e) = p \o q
  BY DEF Removals
<1> HIDE DEF p, q
<1>3. OnlyRemoves(p \o q)
  BY <1>1, ConcatIs DEF OnlyRemoves
<1> QED BY <1>1, <1>2, <1>3, ConcatIs

\* The calls that bring a name back: none, a stop, or the removal and the addition.
LEMMA BackIs ==
    ASSUME NEW n \in {"legacy", "current"}, NEW now \in [Names -> Forms],
           NEW e \in [Names -> Forms]
    PROVE  LET q == Back(n, now, e)
           IN /\ q \in Seq(Call)
              /\ \A i \in 1..Len(q) : /\ q[i][2] = n /\ n \in Names
                                      /\ q[i][1] # "stop" => now[n] # "foreign"
              /\ (n \in Names /\ e[n] # "foreign") => Stops(q) \/ ComesTo(q, n, now[n], e[n])
<1> DEFINE q == Back(n, now, e)
           x == <<"stop", n>>
           r == <<"remove", n>>
           a == <<"add_own", n>>
           l == <<"add_lapsed", n>>
<1> SUFFICES /\ q \in Seq(Call)
             /\ \A i \in 1..Len(q) : /\ q[i][2] = n /\ n \in Names
                                     /\ q[i][1] # "stop" => now[n] # "foreign"
             /\ (n \in Names /\ e[n] # "foreign") => Stops(q) \/ ComesTo(q, n, now[n], e[n])
  OBVIOUS
<1>1. /\ x \in Call /\ x[1] = "stop" /\ x[2] = n
      /\ r \in Call /\ r[1] = "remove" /\ r[2] = n /\ Leaves(r, "none")
      /\ a \in Call /\ a[1] = "add_own" /\ a[2] = n /\ Leaves(a, "own")
      /\ l \in Call /\ l[1] = "add_lapsed" /\ l[2] = n /\ Leaves(l, "lapsed")
  BY DEF Call, Leaves, Effect
<1>2. /\ <<>> \in Seq(Call) /\ Len(<<>>) = 0
      /\ \A k \in Call : <<k>> \in Seq(Call) /\ Len(<<k>>) = 1 /\ <<k>>[1] = k
  OBVIOUS
<1>3. \A k \in Call : <<k>> \o <<>> = <<k>> /\ <<>> \o <<k>> = <<k>>
  BY <1>2, ConcatEmptySeq
<1>9. <<>> \o <<>> = <<>>
  BY <1>2, ConcatEmptySeq
<1>4. q = IF n \notin Names \/ now[n] = e[n] THEN <<>>
          ELSE IF now[n] = "foreign" THEN <<x>>
          ELSE (IF now[n] # "none" THEN <<r>> ELSE <<>>) \o
               (IF e[n] = "own" THEN <<a>> ELSE IF e[n] = "lapsed" THEN <<l>> ELSE <<>>)
  BY DEF Back, Removal, Addition
<1> HIDE DEF q, x, r, a, l
<1>5. CASE n \notin Names \/ now[n] = e[n]
  BY <1>2, <1>4, <1>5 DEF ComesTo
<1>6. CASE n \in Names /\ now[n] # e[n] /\ now[n] = "foreign"
  BY <1>1, <1>2, <1>4, <1>6 DEF Stops
<1>7. CASE n \in Names /\ now[n] # e[n] /\ now[n] # "foreign"
  <2>0. e[n] \in {"none", "own", "lapsed", "foreign"} /\ now[n] \in {"none", "own", "lapsed", "foreign"}
    BY <1>7 DEF Forms
  <2>1. CASE e[n] = "own"
    <3>1. q \in {<<r>> \o <<a>>, <<a>>}
      BY <1>1, <1>3, <1>4, <1>9, <1>7, <2>1
    <3>2. CASE q = <<a>>
      BY <1>1, <1>2, <1>7, <2>1, <3>2 DEF ComesTo
    <3>3. CASE q = <<r>> \o <<a>>
      <4>1. q \in Seq(Call) /\ Len(q) = 2 /\ q[1] = r /\ q[2] = a
        BY <1>1, <3>3, PairIs
      <4> QED BY <1>1, <1>7, <2>1, <4>1 DEF ComesTo
    <3> QED BY <3>1, <3>2, <3>3
  <2>2. CASE e[n] = "lapsed"
    <3>1. q \in {<<r>> \o <<l>>, <<l>>}
      BY <1>1, <1>3, <1>4, <1>9, <1>7, <2>2
    <3>2. CASE q = <<l>>
      BY <1>1, <1>2, <1>7, <2>2, <3>2 DEF ComesTo
    <3>3. CASE q = <<r>> \o <<l>>
      <4>1. q \in Seq(Call) /\ Len(q) = 2 /\ q[1] = r /\ q[2] = l
        BY <1>1, <3>3, PairIs
      <4> QED BY <1>1, <1>7, <2>2, <4>1 DEF ComesTo
    <3> QED BY <3>1, <3>2, <3>3
  <2>3. CASE e[n] = "none"
    <3>1. q = <<r>>
      BY <1>1, <1>3, <1>4, <1>9, <1>7, <2>3
    <3> QED BY <1>1, <1>2, <1>7, <2>3, <3>1 DEF ComesTo
  <2>4. CASE e[n] = "foreign"
    <3>1. q \in {<<r>>, <<>>}
      BY <1>1, <1>3, <1>4, <1>9, <1>7, <2>4
    <3>2. CASE q = <<r>>
      BY <1>1, <1>2, <1>7, <2>4, <3>2
    <3>3. CASE q = <<>>
      BY <1>2, <2>4, <3>3
    <3> QED BY <3>1, <3>2, <3>3
  <2> QED BY <2>0, <2>1, <2>2, <2>3, <2>4
<1> QED BY <1>5, <1>6, <1>7

LEMMA UndoIs ==
    ASSUME NEW now \in [Names -> Forms], NEW e \in [Names -> Forms]
    PROVE  LET q == Undo(now, e)
           IN /\ q \in Seq(Call)
              /\ \A i \in 1..Len(q) : /\ q[i][2] \in Names
                                      /\ q[i][1] # "stop" => now[q[i][2]] # "foreign"
              /\ \A n \in Names : e[n] # "foreign" => Stops(q) \/ ComesTo(q, n, now[n], e[n])
<1> DEFINE p == Back("current", now, e)
           r == Back("legacy", now, e)
           q == p \o r
<1>1. /\ p \in Seq(Call)
      /\ \A i \in 1..Len(p) : /\ p[i][2] = "current" /\ "current" \in Names
                              /\ p[i][1] # "stop" => now["current"] # "foreign"
      /\ ("current" \in Names /\ e["current"] # "foreign") =>
            Stops(p) \/ ComesTo(p, "current", now["current"], e["current"])
  BY BackIs
<1>2. /\ r \in Seq(Call)
      /\ \A i \in 1..Len(r) : /\ r[i][2] = "legacy" /\ "legacy" \in Names
                              /\ r[i][1] # "stop" => now["legacy"] # "foreign"
      /\ ("legacy" \in Names /\ e["legacy"] # "foreign") =>
            Stops(r) \/ ComesTo(r, "legacy", now["legacy"], e["legacy"])
  BY BackIs
<1>3. Undo(now, e) = q
  BY DEF Undo
<1> HIDE DEF p, r
<1>4. /\ q \in Seq(Call) /\ Len(p) \in Nat /\ Len(r) \in Nat /\ Len(q) = Len(p) + Len(r)
      /\ \A i \in 1..Len(p) : q[i] = p[i] /\ i \in 1..Len(q)
      /\ \A i \in 1..Len(r) : q[Len(p) + i] = r[i] /\ Len(p) + i \in 1..Len(q)
      /\ \A i \in 1..Len(q) : i \in 1..Len(p) \/ (i - Len(p) \in 1..Len(r) /\ q[i] = r[i - Len(p)])
  BY <1>1, <1>2, ConcatIs
<1> HIDE DEF q
<1>5. \A i \in 1..Len(q) : q[i][2] \in Names /\ (q[i][1] # "stop" => now[q[i][2]] # "foreign")
  <2> SUFFICES ASSUME NEW i \in 1..Len(q)
               PROVE  q[i][2] \in Names /\ (q[i][1] # "stop" => now[q[i][2]] # "foreign")
    OBVIOUS
  <2>1. CASE i \in 1..Len(p)
    BY <1>1, <1>4, <2>1
  <2>2. CASE i - Len(p) \in 1..Len(r) /\ q[i] = r[i - Len(p)]
    BY <1>2, <2>2
  <2> QED BY <1>4, <2>1, <2>2
<1>6. Stops(p) \/ Stops(r) => Stops(q)
  BY <1>4 DEF Stops
<1>7. ASSUME ComesTo(p, "current", now["current"], e["current"])
      PROVE  ComesTo(q, "current", now["current"], e["current"])
  <2>1. \A i \in 1..Len(q) : i \in 1..Len(p) \/ q[i][2] # "current"
    BY <1>2, <1>4
  <2>2. CASE now["current"] = e["current"] /\ \A i \in 1..Len(p) : p[i][2] # "current"
    BY <1>4, <2>1, <2>2 DEF ComesTo
  <2>3. ASSUME NEW i \in 1..Len(p), p[i][2] = "current", Leaves(p[i], e["current"]),
               \A j \in 1..Len(p) : j > i => p[j][2] # "current"
        PROVE  ComesTo(q, "current", now["current"], e["current"])
    <3>1. i \in 1..Len(q) /\ q[i] = p[i]
      BY <1>4
    <3>2. \A j \in 1..Len(q) : j > i => q[j][2] # "current"
      BY <1>4, <2>1, <2>3
    <3> QED BY <2>3, <3>1, <3>2 DEF ComesTo
  <2> QED BY <1>7, <2>2, <2>3 DEF ComesTo
<1>8. ASSUME ComesTo(r, "legacy", now["legacy"], e["legacy"])
      PROVE  ComesTo(q, "legacy", now["legacy"], e["legacy"])
  <2>1. \A i \in 1..Len(p) : q[i][2] # "legacy"
    BY <1>1, <1>4
  <2>2. CASE now["legacy"] = e["legacy"] /\ \A i \in 1..Len(r) : r[i][2] # "legacy"
    BY <1>4, <2>1, <2>2 DEF ComesTo
  <2>3. ASSUME NEW i \in 1..Len(r), r[i][2] = "legacy", Leaves(r[i], e["legacy"]),
               \A j \in 1..Len(r) : j > i => r[j][2] # "legacy"
        PROVE  ComesTo(q, "legacy", now["legacy"], e["legacy"])
    <3>1. Len(p) + i \in 1..Len(q) /\ q[Len(p) + i] = r[i]
      BY <1>4
    <3>2. ASSUME NEW j \in 1..Len(q), j > Len(p) + i
          PROVE  q[j][2] # "legacy"
      <4>1. j - Len(p) \in 1..Len(r) /\ q[j] = r[j - Len(p)] /\ j - Len(p) > i
        BY <1>4, <3>2
      <4> QED BY <2>3, <4>1
    <3> QED BY <2>3, <3>1, <3>2 DEF ComesTo
  <2> QED BY <1>8, <2>2, <2>3 DEF ComesTo
<1>9. Names \subseteq {"legacy", "current"}
  BY DEF Names, NamesOf
<1> QED BY <1>1, <1>2, <1>3, <1>4, <1>5, <1>6, <1>7, <1>8, <1>9

LEMMA CallIs ==
    ASSUME NEW k \in Call
    PROVE  /\ k[1] \in {"remove", "add_own", "add_lapsed", "stop"}
           /\ k[2] \in {"legacy", "current"}
  BY DEF Call

LEMMA EffectIs ==
    ASSUME NEW k \in Call, k[1] # "stop", NEW f, NEW g
    PROVE  /\ Effect(k, f) = Effect(k, g)
           /\ Effect(k, f) \in Forms /\ Effect(k, f) # "foreign"
  BY CallIs DEF Effect, Forms

\* One call less, and what is left comes to the same.
LEMMA ComesToStill ==
    ASSUME NEW q \in Seq(Call), q # <<>>, q[1][1] # "stop", NEW n, NEW form, NEW after, NEW goal,
           ComesTo(q, n, form, goal),
           after = IF q[1][2] = n THEN Effect(q[1], form) ELSE form
    PROVE  ComesTo(Tail(q), n, after, goal)
<1> DEFINE r == Tail(q)
<1>1. /\ Len(q) \in Nat \ {0} /\ Len(r) = Len(q) - 1 /\ r \in Seq(Call)
      /\ \A i \in 1..Len(r) : r[i] = q[i + 1] /\ i + 1 \in 1..Len(q)
      /\ 1 \in 1..Len(q)
  BY HeadTailProperties, EmptySeq
<1>2. q[1] \in Call
  BY <1>1, ElementOfSeq
<1> HIDE DEF r
<1>3. CASE form = goal /\ \A i \in 1..Len(q) : q[i][2] # n
  <2>1. \A i \in 1..Len(r) : r[i][2] # n
    BY <1>1, <1>3
  <2>2. after = goal
    BY <1>1, <1>3
  <2> QED BY <2>1, <2>2 DEF ComesTo, r
<1>4. ASSUME NEW i \in 1..Len(q), q[i][2] = n, Leaves(q[i], goal),
             \A j \in 1..Len(q) : j > i => q[j][2] # n
      PROVE  ComesTo(r, n, after, goal)
  <2>1. CASE i = 1
    <3>1. after = goal
      BY <1>2, <1>4, <2>1, EffectIs DEF Leaves
    <3>2. ASSUME NEW j \in 1..Len(r) PROVE r[j][2] # n
      <4>1. r[j] = q[j + 1] /\ j + 1 \in 1..Len(q) /\ j + 1 > i
        BY <1>1, <2>1
      <4> QED BY <1>4, <4>1
    <3> QED BY <3>1, <3>2 DEF ComesTo
  <2>2. CASE i # 1
    <3>1. i - 1 \in 1..Len(r) /\ r[i - 1] = q[i]
      BY <1>1, <2>2
    <3>2. \A j \in 1..Len(r) : j > i - 1 => r[j][2] # n
      BY <1>1, <1>4
    <3> QED BY <1>4, <3>1, <3>2 DEF ComesTo
  <2> QED BY <2>1, <2>2
<1> QED BY <1>3, <1>4 DEF ComesTo, r

-----------------------------------------------------------------------------
(* What a step does to a command.                                          *)

LEMMA NamesStay ==
    ASSUME host' = host
    PROVE  Names' = Names /\ CommandTypes' = CommandTypes
  BY DEF Names, CommandTypes

LEMMA CommandIs ==
    ASSUME HostIInv, NEW c \in Commands
    PROVE  /\ cmd \in [Commands -> CommandTypes] /\ cmd[c] \in CommandTypes
           /\ cmd[c].at \in Phases /\ cmd[c].read \in [Names -> Forms] /\ cmd[c].todo \in Seq(Call)
           /\ behind \in [Commands -> SUBSET Names] /\ config \in [Names -> Forms]
           /\ TodoHolds(c) /\ KnowsWell(c) /\ IdentTypeOK /\ RotationsHold
  BY DEF HostIInv, HostTyped, CommandTypes, CommandsHold

LEMMA MovesAre ==
    ASSUME cmd \in [Commands -> CommandTypes], NEW c \in Commands, NEW at \in Phases, Moves(c, at)
    PROVE  /\ cmd' \in [Commands -> CommandTypes]
           /\ cmd'[c].at = at /\ cmd'[c].action = cmd[c].action
           /\ cmd'[c].read = cmd[c].read /\ cmd'[c].todo = cmd[c].todo
           /\ \A d \in Commands : d # c => cmd'[d] = cmd[d]
  BY DEF Moves, CommandTypes

LEMMA PlansAre ==
    ASSUME cmd \in [Commands -> CommandTypes], NEW c \in Commands, NEW at \in Phases,
           NEW todo \in Seq(Call), Plans(c, at, todo)
    PROVE  /\ cmd' \in [Commands -> CommandTypes]
           /\ cmd'[c].at = at /\ cmd'[c].action = cmd[c].action
           /\ cmd'[c].read = cmd[c].read /\ cmd'[c].todo = todo
           /\ \A d \in Commands : d # c => cmd'[d] = cmd[d]
<1> DEFINE f == [cmd EXCEPT ![c].at = at]
<1>1. /\ f \in [Commands -> CommandTypes]
      /\ f[c].at = at /\ f[c].action = cmd[c].action /\ f[c].read = cmd[c].read
      /\ \A d \in Commands : d # c => f[d] = cmd[d]
  BY DEF CommandTypes
<1>2. cmd' = [f EXCEPT ![c].todo = todo]
  BY DEF Plans
<1> HIDE DEF f
<1> QED BY <1>1, <1>2 DEF CommandTypes

Goes(c, at, read, todo) == cmd' = [cmd EXCEPT ![c].at = at, ![c].read = read, ![c].todo = todo]

LEMMA ReadsAre ==
    ASSUME cmd \in [Commands -> CommandTypes], NEW c \in Commands, NEW at \in Phases,
           NEW read \in [Names -> Forms], NEW todo \in Seq(Call),
           Goes(c, at, read, todo)
    PROVE  /\ cmd' \in [Commands -> CommandTypes]
           /\ cmd'[c].at = at /\ cmd'[c].read = read /\ cmd'[c].todo = todo
           /\ \A d \in Commands : d # c => cmd'[d] = cmd[d]
<1>1. PICK g \in [Commands -> CommandTypes] :
         /\ cmd' = [g EXCEPT ![c].todo = todo] /\ g[c].at = at /\ g[c].read = read
         /\ \A d \in Commands : d # c => g[d] = cmd[d]
  <2>1. PICK f \in [Commands -> CommandTypes] :
           /\ cmd' = [f EXCEPT ![c].read = read, ![c].todo = todo] /\ f[c].at = at
           /\ \A d \in Commands : d # c => f[d] = cmd[d]
    <3> DEFINE f == [cmd EXCEPT ![c].at = at]
    <3>1. /\ f \in [Commands -> CommandTypes] /\ f[c].at = at
          /\ \A d \in Commands : d # c => f[d] = cmd[d]
      BY DEF CommandTypes
    <3>2. cmd' = [f EXCEPT ![c].read = read, ![c].todo = todo]
      BY DEF Goes
    <3> HIDE DEF f
    <3> QED BY <3>1, <3>2
  <2> DEFINE g == [f EXCEPT ![c].read = read]
  <2>2. /\ g \in [Commands -> CommandTypes] /\ g[c].at = at /\ g[c].read = read
        /\ \A d \in Commands : d # c => g[d] = cmd[d]
    BY <2>1 DEF CommandTypes
  <2>3. cmd' = [g EXCEPT ![c].todo = todo]
    BY <2>1
  <2> HIDE DEF g
  <2> QED BY <2>2, <2>3
<1> QED BY <1>1 DEF CommandTypes

\* A command that does not move knows what it knew, of the names nobody else changed.
LEMMA OthersHold ==
    ASSUME HostIInv, NEW d \in Commands, host' = host, cmd'[d] = cmd[d],
           behind[d] \subseteq behind'[d],
           \A n \in Names \ behind'[d] : config'[n] = config[n]
    PROVE  TodoHolds(d)' /\ KnowsWell(d)'
<1>1. Names' = Names /\ TodoHolds(d) /\ KnowsWell(d)
  BY NamesStay, CommandIs
<1>2. TodoHolds(d)'
  BY <1>1 DEF TodoHolds
<1>3. KnowsWell(d)'
  BY <1>1 DEF KnowsWell
<1> QED BY <1>2, <1>3

LEMMA StepHolds ==
    ASSUME HostIInv, NEW c \in Commands, host' = host,
           config' \in [Names -> Forms], edits' \in 0..MaxEdits,
           cmd' \in [Commands -> CommandTypes], behind' \in [Commands -> SUBSET Names],
           IdentTypeOK', RotationsHold',
           \A d \in Commands : d # c =>
              /\ cmd'[d] = cmd[d] /\ behind[d] \subseteq behind'[d]
              /\ \A n \in Names \ behind'[d] : config'[n] = config[n],
           TodoHolds(c)', KnowsWell(c)'
    PROVE  HostIInv'
<1>1. HostTyped'
  BY NamesStay DEF HostIInv, HostTyped
<1>2. ASSUME NEW d \in Commands
      PROVE  TodoHolds(d)' /\ KnowsWell(d)'
  <2>1. CASE d = c
    BY <2>1
  <2>2. CASE d # c
    BY <2>2, OthersHold
  <2> QED BY <2>1, <2>2
<1> QED BY <1>1, <1>2 DEF HostIInv, CommandsHold

\* A command goes on without looking at the configuration or changing it.
LEMMA QuietHolds ==
    ASSUME HostIInv, NEW c \in Commands, Quiet, IdentTypeOK', RotationsHold',
           cmd' \in [Commands -> CommandTypes],
           \A d \in Commands : d # c => cmd'[d] = cmd[d],
           cmd'[c].read = cmd[c].read, cmd'[c].todo \in {cmd[c].todo, <<>>},
           cmd'[c].at \in Acting => cmd[c].at \in Acting,
           cmd'[c].at \in Claiming => cmd[c].at \in Claiming,
           cmd'[c].at \notin {"removed", "restoring"},
           cmd'[c].at = "failed" => cmd[c].at = "restoring" /\ cmd[c].todo = <<>>
    PROVE  HostIInv' /\ KeepsStrangers
<1>1. /\ host' = host /\ config' = config /\ behind' = behind /\ edits' = edits
      /\ Names' = Names
  BY NamesStay DEF Quiet
<1>2. TodoHolds(c) /\ KnowsWell(c)
  BY CommandIs
<1>3. TodoHolds(c)'
  <2>1. CASE cmd'[c].todo = cmd[c].todo
    BY <1>1, <1>2, <2>1 DEF TodoHolds
  <2>2. CASE cmd'[c].todo = <<>>
    <3>1. Len(<<>>) = 0
      OBVIOUS
    <3> QED BY <2>2, <3>1 DEF TodoHolds
  <2> QED BY <2>1, <2>2
<1>4. KnowsWell(c)'
  <2>1. cmd'[c].at \in Acting => \A n \in Names' : cmd'[c].read[n] # "foreign"
    BY <1>1, <1>2 DEF KnowsWell
  <2>2. ASSUME NEW n \in Names \ behind[c]
        PROVE  /\ cmd'[c].at \in Claiming => AsToday(n, config[n])
               /\ cmd'[c].at = "failed" => config[n] = cmd[c].read[n]
    <3>1. cmd'[c].at \in Claiming => AsToday(n, config[n])
      BY <1>2 DEF KnowsWell
    <3>2. ASSUME cmd'[c].at = "failed"
          PROVE  config[n] = cmd[c].read[n]
      <4>1. cmd[c].at = "restoring" /\ cmd[c].todo = <<>> /\ Len(<<>>) = 0
        BY <3>2
      <4>2. ~Stops(cmd[c].todo)
        BY <4>1 DEF Stops
      <4>3. ComesTo(cmd[c].todo, n, config[n], cmd[c].read[n])
        BY <1>2, <4>1, <4>2 DEF KnowsWell
      <4> QED BY <4>1, <4>3 DEF ComesTo
    <3> QED BY <3>1, <3>2
  <2> QED BY <1>1, <2>1, <2>2 DEF KnowsWell
<1>5. HostIInv'
  <2>1. /\ config' \in [Names -> Forms] /\ edits' \in 0..MaxEdits
        /\ behind' \in [Commands -> SUBSET Names]
    BY <1>1 DEF HostIInv, HostTyped
  <2> QED BY <1>1, <1>3, <1>4, <2>1, StepHolds
<1>6. KeepsStrangers
  BY <1>1 DEF KeepsStrangers
<1> QED BY <1>5, <1>6

-----------------------------------------------------------------------------
(* The steps of a command.                                                 *)

LEMMA IdentityStays ==
    ASSUME HostIInv, UNCHANGED identVars
    PROVE  IdentTypeOK' /\ RotationsHold' /\ KeepsIdentity
  BY DEF HostIInv, HostTyped, identVars, IdentTypeOK, RotationsHold, KeepsIdentity


HostStep == HostIInv' /\ KeepsStrangers /\ KeepsIdentity

LEMMA BeginHolds ==
    ASSUME HostIInv, NEW c \in Commands, Begin(c)
    PROVE  HostStep
<1>1. PICK action \in {"install", "remove", "rotate"} :
        cmd' = [cmd EXCEPT ![c].action = action,
                           ![c].at = CASE action = "install" -> "probing"
                                       [] action = "rotate" -> "rotating"
                                       [] OTHER -> "reading"]
  BY DEF Begin
<1> DEFINE at == CASE action = "install" -> "probing"
                   [] action = "rotate" -> "rotating"
                   [] OTHER -> "reading"
           f == [cmd EXCEPT ![c].action = action]
<1>2. at \in {"probing", "rotating", "reading"} /\ at \in Phases
  BY DEF Phases
<1>3. cmd' = [f EXCEPT ![c].at = at]
  BY <1>1
<1> HIDE DEF at
<1>4. /\ f \in [Commands -> CommandTypes] /\ f[c].read = cmd[c].read /\ f[c].todo = cmd[c].todo
      /\ \A d \in Commands : d # c => f[d] = cmd[d]
  BY CommandIs DEF CommandTypes, Actions
<1> HIDE DEF f
<1>5. /\ cmd' \in [Commands -> CommandTypes] /\ cmd'[c].at = at
      /\ cmd'[c].read = f[c].read /\ cmd'[c].todo = f[c].todo
      /\ \A d \in Commands : d # c => cmd'[d] = f[d]
  BY <1>2, <1>3, <1>4 DEF CommandTypes
<1>6. Quiet /\ UNCHANGED identVars
  BY DEF Begin
<1>7. IdentTypeOK' /\ RotationsHold' /\ KeepsIdentity
  BY <1>6, IdentityStays
<1>8. cmd'[c].at \notin Acting \cup Claiming \cup {"removed", "restoring", "failed"}
  BY <1>2, <1>5 DEF Acting, Claiming
<1> QED BY <1>4, <1>5, <1>6, <1>7, <1>8, QuietHolds DEF HostStep

\* The moves that look at nothing.
LEMMA MoveHolds ==
    ASSUME HostIInv, NEW c \in Commands, NEW at \in Phases, Quiet,
           IdentTypeOK', RotationsHold', KeepsIdentity,
           Moves(c, at) \/ Plans(c, at, <<>>),
           at \in Acting => cmd[c].at \in Acting,
           at \in Claiming => cmd[c].at \in Claiming,
           at \notin {"removed", "restoring"},
           at = "failed" => cmd[c].at = "restoring" /\ cmd[c].todo = <<>>
    PROVE  HostStep
<1>1. cmd \in [Commands -> CommandTypes] /\ <<>> \in Seq(Call)
  BY CommandIs
<1>2. /\ cmd' \in [Commands -> CommandTypes] /\ cmd'[c].at = at
      /\ cmd'[c].read = cmd[c].read /\ cmd'[c].todo \in {cmd[c].todo, <<>>}
      /\ \A d \in Commands : d # c => cmd'[d] = cmd[d]
  <2>1. CASE Moves(c, at)
    BY <1>1, <2>1, MovesAre
  <2>2. CASE Plans(c, at, <<>>)
    BY <1>1, <2>2, PlansAre
  <2> QED BY <2>1, <2>2
<1> QED BY <1>2, QuietHolds DEF HostStep

LEMMA EnsureHolds ==
    ASSUME HostIInv, NEW c \in Commands, Ensure(c)
    PROVE  HostStep
<1>1. Quiet /\ UNCHANGED identVars
  BY DEF Ensure
<1>2. PICK at \in {"reading", "refused", "rotating"} : Moves(c, at)
  BY DEF Ensure
<1>3. at \in Phases /\ at \notin Acting \cup Claiming \cup {"removed", "restoring", "failed"}
  BY DEF Phases, EndPhases, Acting, Claiming
<1> QED BY <1>1, <1>2, <1>3, IdentityStays, MoveHolds

LEMMA RotatingHolds ==
    ASSUME HostIInv, NEW c \in Commands, Rotating(c)
    PROVE  HostStep
<1>1. Quiet /\ cmd[c].at = "rotating" /\ cmd[c] \in CommandTypes
      /\ cmd \in [Commands -> CommandTypes]
  BY CommandIs DEF Rotating
<1>2. CASE (Inspect(c) \/ Rotates(c)) /\ UNCHANGED cmd
  <2>1. IdentTypeOK' /\ RotationsHold' /\ KeepsIdentity
    BY <1>2, CommandIs, RotationIs
  <2>2. cmd'[c].at \notin Acting \cup Claiming \cup {"removed", "restoring", "failed"}
    BY <1>1, <1>2 DEF Acting, Claiming
  <2> QED BY <1>1, <1>2, <2>1, <2>2, QuietHolds DEF HostStep
<1>3. CASE UNCHANGED identVars /\ \E at \in {"refused", "probing", "rotated"} : Moves(c, at)
  <2>1. PICK at \in {"refused", "probing", "rotated"} : Moves(c, at)
    BY <1>3
  <2>2. at \in Phases /\ at \notin Acting \cup Claiming \cup {"removed", "restoring", "failed"}
    BY DEF Phases, EndPhases, Acting, Claiming
  <2> QED BY <1>1, <1>3, <2>1, <2>2, IdentityStays, MoveHolds
<1>4. \/ (Inspect(c) \/ Rotates(c)) /\ UNCHANGED cmd
      \/ UNCHANGED identVars /\ \E at \in {"refused", "probing", "rotated"} : Moves(c, at)
  BY DEF Rotating
<1> QED BY <1>2, <1>3, <1>4

LEMMA ValidatedHolds ==
    ASSUME HostIInv, NEW c \in Commands, Validated(c)
    PROVE  HostStep
<1>1. Quiet /\ UNCHANGED identVars /\ cmd[c].at = "validating"
  BY DEF Validated
<1>2. PICK at \in {"kept", "refused"} : Moves(c, at)
  BY DEF Validated
<1>3. /\ at \in Phases /\ at \notin Acting \cup {"removed", "restoring", "failed"}
      /\ cmd[c].at \in Claiming
  BY <1>1 DEF Phases, EndPhases, Acting, Claiming
<1> QED BY <1>1, <1>2, <1>3, IdentityStays, MoveHolds

LEMMA ProvedHolds ==
    ASSUME HostIInv, NEW c \in Commands, Proved(c)
    PROVE  HostStep
<1>1. Quiet /\ UNCHANGED identVars /\ cmd[c].at = "proving"
  BY DEF Proved
<1>2. PICK at \in {"refused", "offered", "changing"} : Moves(c, at) \/ Plans(c, at, <<>>)
  BY DEF Proved
<1>3. /\ at \in Phases /\ at \notin Claiming \cup {"removed", "restoring", "failed"}
      /\ cmd[c].at \in Acting
  BY <1>1 DEF Phases, EndPhases, Acting, Claiming
<1> QED BY <1>1, <1>2, <1>3, IdentityStays, MoveHolds

LEMMA ConfirmedHolds ==
    ASSUME HostIInv, NEW c \in Commands, Confirmed(c)
    PROVE  HostStep
<1>1. Quiet /\ UNCHANGED identVars /\ cmd[c].at = "confirming"
  BY DEF Confirmed
<1>2. PICK at \in {"installed", "undoing"} : Moves(c, at)
  BY DEF Confirmed
<1>3. /\ at \in Phases /\ at \notin {"removed", "restoring", "failed"}
      /\ cmd[c].at \in Acting /\ cmd[c].at \in Claiming
  BY <1>1 DEF Phases, EndPhases, Acting, Claiming
<1> QED BY <1>1, <1>2, <1>3, IdentityStays, MoveHolds

LEMMA RestoredHolds ==
    ASSUME HostIInv, NEW c \in Commands, Restored(c)
    PROVE  HostStep
<1>1. /\ Quiet /\ UNCHANGED identVars /\ cmd[c].at = "restoring" /\ cmd[c].todo = <<>>
      /\ Moves(c, "failed")
  BY DEF Restored
<1>2. "failed" \in Phases /\ "failed" \notin Acting \cup Claiming
  BY DEF Phases, EndPhases, Acting, Claiming
<1> QED BY <1>1, <1>2, IdentityStays, MoveHolds

LEMMA KillHolds ==
    ASSUME HostIInv, NEW c \in Commands, Kill(c)
    PROVE  HostStep
<1>1. Quiet /\ UNCHANGED identVars /\ Plans(c, "killed", <<>>)
  BY DEF Kill
<1>2. "killed" \in Phases /\ "killed" \notin Acting \cup Claiming
  BY DEF Phases, EndPhases, Acting, Claiming
<1> QED BY <1>1, <1>2, IdentityStays, MoveHolds

LEMMA UnreadableHolds ==
    ASSUME HostIInv, NEW c \in Commands, Unreadable(c)
    PROVE  HostStep
<1>1. Quiet /\ UNCHANGED identVars
  BY DEF Unreadable
<1>2. PICK at \in {"refused", "undoing", "unrestored"} :
        Moves(c, at) /\ (at = "undoing" => cmd[c].at = "changing")
  BY DEF Unreadable
<1>3. /\ at \in Phases /\ at \notin Claiming
      /\ at \in Acting => at = "undoing"
      /\ "changing" \in Acting
  BY <1>2 DEF Phases, EndPhases, Acting, Claiming
<1> QED BY <1>1, <1>2, <1>3, IdentityStays, MoveHolds

\* A command reads the configuration: it knows all of it.
LEMMA LooksHolds ==
    ASSUME HostIInv, NEW c \in Commands, Noticed(c), UNCHANGED <<host, config, edits, identVars>>,
           cmd' \in [Commands -> CommandTypes],
           \A d \in Commands : d # c => cmd'[d] = cmd[d],
           \A i \in 1..Len(cmd'[c].todo) :
              /\ cmd'[c].todo[i][2] \in Names
              /\ cmd'[c].todo[i][1] # "stop" => config[cmd'[c].todo[i][2]] # "foreign",
           cmd'[c].at # "failed",
           \A n \in Names :
              /\ cmd'[c].at \in Acting => cmd'[c].read[n] # "foreign"
              /\ cmd'[c].at \in Claiming => AsToday(n, config[n])
              /\ cmd'[c].at = "removed" => config[n] = "none"
              /\ (cmd'[c].at = "restoring" /\ ~Stops(cmd'[c].todo)) =>
                    ComesTo(cmd'[c].todo, n, config[n], cmd'[c].read[n])
    PROVE  HostStep
<1>1. /\ host' = host /\ config' = config /\ edits' = edits /\ UNCHANGED identVars
      /\ Names' = Names
  BY NamesStay
<1>2. /\ behind' \in [Commands -> SUBSET Names]
      /\ \A d \in Commands : d # c => behind'[d] = behind[d]
  BY CommandIs DEF Noticed
<1>3. IdentTypeOK' /\ RotationsHold' /\ KeepsIdentity
  BY <1>1, IdentityStays
<1>4. TodoHolds(c)'
  BY <1>1 DEF TodoHolds
<1>5. KnowsWell(c)'
  BY <1>1 DEF KnowsWell
<1>6. config' \in [Names -> Forms] /\ edits' \in 0..MaxEdits
  BY <1>1 DEF HostIInv, HostTyped
<1>7. HostIInv'
  BY <1>1, <1>2, <1>3, <1>4, <1>5, <1>6, StepHolds
<1>8. KeepsStrangers
  BY <1>1 DEF KeepsStrangers
<1> QED BY <1>3, <1>7, <1>8 DEF HostStep

LEMMA NamesAreFew ==
    /\ "current" \in Names /\ Names \subseteq {"legacy", "current"}
  BY DEF Names, NamesOf

LEMMA ReadHolds ==
    ASSUME HostIInv, NEW c \in Commands, Read(c)
    PROVE  HostStep
<1>1. /\ Noticed(c) /\ UNCHANGED <<host, config, edits, identVars>>
      /\ config \in [Names -> Forms] /\ cmd \in [Commands -> CommandTypes]
  BY CommandIs DEF Read
<1>2. ASSUME NEW at \in Phases, NEW todo \in Seq(Call), Goes(c, at, config, todo),
             \A i \in 1..Len(todo) : /\ todo[i][2] \in Names
                                     /\ todo[i][1] # "stop" => config[todo[i][2]] # "foreign",
             at \notin {"failed", "restoring"},
             \A n \in Names : /\ at \in Acting => config[n] # "foreign"
                              /\ at \in Claiming => AsToday(n, config[n])
                              /\ at = "removed" => config[n] = "none"
      PROVE  HostStep
  <2>1. /\ cmd' \in [Commands -> CommandTypes]
        /\ cmd'[c].at = at /\ cmd'[c].read = config /\ cmd'[c].todo = todo
        /\ \A d \in Commands : d # c => cmd'[d] = cmd[d]
    BY <1>1, <1>2, ReadsAre
  <2> QED BY <1>1, <1>2, <2>1, LooksHolds
<1>3. /\ {"validating", "proving", "refused", "removed", "changing"} \subseteq Phases
      /\ <<>> \in Seq(Call) /\ Len(<<>>) = 0
      /\ "refused" \notin Acting \cup Claiming /\ "removed" \notin Acting \cup Claiming
      /\ "validating" \in Claiming \ Acting
      /\ "proving" \in Acting \ Claiming /\ "changing" \in Acting \ Claiming
  BY DEF Phases, EndPhases, Acting, Claiming
<1>10. ASSUME NEW at \in Phases, Goes(c, at, config, <<>>), at \notin {"failed", "restoring"},
              at \notin Acting,
              \A n \in Names : (at \in Claiming => AsToday(n, config[n]))
                             /\ (at = "removed" => config[n] = "none")
       PROVE  HostStep
  <2>1. \A i \in 1..Len(<<>>) : FALSE
    BY <1>3
  <2> QED BY <1>2, <1>3, <1>10, <2>1
<1>11. "refused" \in Phases /\ "refused" \notin Acting \cup Claiming
  BY <1>3
<1>4. ASSUME Goes(c, "refused", config, <<>>)
      PROVE  HostStep
  BY <1>4, <1>10, <1>11
<1>5. ASSUME Healthy(config), Goes(c, "validating", config, <<>>)
      PROVE  HostStep
  <2>1. \A n \in Names : AsToday(n, config[n])
    BY <1>5 DEF Healthy, AsToday
  <2>2. "validating" \in Phases /\ "validating" \notin Acting
    BY <1>3
  <2> QED BY <1>5, <1>10, <2>1, <2>2
<1>6. ASSUME Installable(config), Goes(c, "proving", config, Removals(config) \o Additions)
      PROVE  HostStep
  <2> DEFINE p == Removals(config)
             q == Additions
  <2>1. \A n \in Names : config[n] # "foreign"
    BY <1>6 DEF Installable, Conflict
  <2>2. p \in Seq(Call) /\ \A i \in 1..Len(p) : p[i][2] \in Names
    BY RemovalsAre DEF OnlyRemoves
  <2>3. q \in Seq(Call) /\ \A i \in 1..Len(q) : q[i][2] \in Names
    <3> DEFINE k == <<"add_own", "current">>
    <3>1. k \in Call /\ k[2] \in Names
      BY NamesAreFew DEF Call
    <3>2. Additions = <<k>>
      BY DEF Additions
    <3> HIDE DEF k
    <3>3. <<k>> \in Seq(Call) /\ Len(<<k>>) = 1 /\ <<k>>[1] = k
      BY <3>1
    <3> QED BY <3>1, <3>2, <3>3
  <2>4. Goes(c, "proving", config, p \o q)
    BY <1>6
  <2> HIDE DEF p, q
  <2>5. p \o q \in Seq(Call) /\ \A i \in 1..Len(p \o q) : (p \o q)[i][2] \in Names
    BY <2>2, <2>3, ConcatIs
  <2> QED BY <1>2, <1>3, <2>1, <2>4, <2>5
<1>7. ASSUME Absent(config), Goes(c, "removed", config, <<>>)
      PROVE  HostStep
  <2>1. \A n \in Names : config[n] = "none"
    BY <1>7 DEF Absent
  <2>2. "removed" \in Phases /\ "removed" \notin Acting \cup Claiming
    BY <1>3
  <2> QED BY <1>7, <1>10, <2>1, <2>2
<1>8. ASSUME Healthy(config), Goes(c, "changing", config, Removals(config))
      PROVE  HostStep
  <2> DEFINE p == Removals(config)
  <2>1. \A n \in Names : config[n] # "foreign"
    BY <1>8 DEF Healthy
  <2>2. p \in Seq(Call) /\ \A i \in 1..Len(p) : p[i][2] \in Names
    BY RemovalsAre DEF OnlyRemoves
  <2> HIDE DEF p
  <2>3. Goes(c, "changing", config, p)
    BY <1>8 DEF p
  <2> QED BY <1>2, <1>3, <2>1, <2>2, <2>3
<1>9. \/ Goes(c, "refused", config, <<>>)
      \/ Healthy(config) /\ Goes(c, "validating", config, <<>>)
      \/ Installable(config) /\ Goes(c, "proving", config, Removals(config) \o Additions)
      \/ Absent(config) /\ Goes(c, "removed", config, <<>>)
      \/ Healthy(config) /\ Goes(c, "changing", config, Removals(config))
  BY DEF Read, Goes
<1> QED BY <1>4, <1>5, <1>6, <1>7, <1>8, <1>9

LEMMA RereadHolds ==
    ASSUME HostIInv, NEW c \in Commands, Reread(c)
    PROVE  HostStep
<1>1. /\ Noticed(c) /\ UNCHANGED <<host, config, edits, identVars>>
      /\ cmd[c].at = "changing" /\ cmd[c].todo = <<>> /\ Len(<<>>) = 0
      /\ cmd \in [Commands -> CommandTypes]
  BY CommandIs DEF Reread
<1>2. PICK at \in {"confirming", "removed", "undoing"} :
        /\ Moves(c, at)
        /\ at = "confirming" => Healthy(config)
        /\ at = "removed" => Absent(config)
  BY DEF Reread
<1>3. at \in Phases /\ "changing" \in Acting /\ "removed" \notin Claiming
      /\ "undoing" \notin Claiming
  BY DEF Phases, EndPhases, Acting, Claiming
<1>4. /\ cmd' \in [Commands -> CommandTypes]
      /\ cmd'[c].at = at /\ cmd'[c].read = cmd[c].read /\ cmd'[c].todo = <<>>
      /\ \A d \in Commands : d # c => cmd'[d] = cmd[d]
  BY <1>1, <1>2, <1>3, MovesAre
<1>5. ASSUME NEW n \in Names
      PROVE  /\ cmd[c].read[n] # "foreign"
             /\ at \in Claiming => AsToday(n, config[n])
             /\ at = "removed" => config[n] = "none"
  <2>1. cmd[c].read[n] # "foreign"
    BY <1>1, <1>3, CommandIs DEF KnowsWell
  <2>2. at \in Claiming => AsToday(n, config[n])
    BY <1>2, <1>3 DEF Healthy, AsToday
  <2>3. at = "removed" => config[n] = "none"
    BY <1>2 DEF Absent
  <2> QED BY <2>1, <2>2, <2>3
<1>6. at # "failed" /\ at # "restoring"
  BY <1>2
<1> QED BY <1>1, <1>4, <1>5, <1>6, LooksHolds

LEMMA RestoreHolds ==
    ASSUME HostIInv, NEW c \in Commands, Restore(c)
    PROVE  HostStep
<1> DEFINE q == Undo(config, cmd[c].read)
<1>1. /\ Noticed(c) /\ UNCHANGED <<host, config, edits, identVars>>
      /\ cmd[c].at = "undoing" /\ Plans(c, "restoring", q)
      /\ cmd \in [Commands -> CommandTypes]
  BY CommandIs DEF Restore
<1>2. \A n \in Names : cmd[c].read[n] # "foreign"
  BY <1>1, CommandIs DEF KnowsWell, Acting
<1>3. /\ q \in Seq(Call)
      /\ \A i \in 1..Len(q) : q[i][2] \in Names /\ (q[i][1] # "stop" => config[q[i][2]] # "foreign")
      /\ \A n \in Names : Stops(q) \/ ComesTo(q, n, config[n], cmd[c].read[n])
  BY <1>2, CommandIs, UndoIs
<1> HIDE DEF q
<1>4. "restoring" \in Phases /\ "restoring" \notin Claiming
  BY DEF Phases, Claiming
<1>5. /\ cmd' \in [Commands -> CommandTypes]
      /\ cmd'[c].at = "restoring" /\ cmd'[c].read = cmd[c].read /\ cmd'[c].todo = q
      /\ \A d \in Commands : d # c => cmd'[d] = cmd[d]
  BY <1>1, <1>3, <1>4, PlansAre
<1> QED BY <1>1, <1>2, <1>3, <1>4, <1>5, LooksHolds

LEMMA ToolHolds ==
    ASSUME HostIInv, NEW c \in Commands, Tool(c)
    PROVE  HostStep
<1> DEFINE q == cmd[c].todo
           k == Head(q)
           at == cmd[c].at
           lost == IF at = "changing" THEN "undoing" ELSE "unrestored"
<1>1. /\ at \in {"changing", "restoring"} /\ q # <<>>
      /\ host' = host /\ edits' = edits /\ UNCHANGED identVars /\ Names' = Names
      /\ \/ /\ k[1] # "stop" /\ config' = [config EXCEPT ![k[2]] = Effect(k, config[k[2]])]
            /\ Behind(c, k[2])
            /\ Plans(c, at, Tail(q)) \/ Plans(c, lost, <<>>)
         \/ Plans(c, lost, <<>>) /\ config' = config /\ behind' = behind
  BY NamesStay DEF Tool
<1>2. /\ q \in Seq(Call) /\ cmd \in [Commands -> CommandTypes] /\ config \in [Names -> Forms]
      /\ behind \in [Commands -> SUBSET Names] /\ at \in Phases
      /\ TodoHolds(c) /\ KnowsWell(c) /\ <<>> \in Seq(Call) /\ Len(<<>>) = 0
  BY CommandIs
<1>3. /\ k = q[1] /\ 1 \in 1..Len(q) /\ k \in Call /\ k[2] \in Names
      /\ Tail(q) \in Seq(Call) /\ Len(Tail(q)) = Len(q) - 1 /\ Len(q) \in Nat
      /\ \A i \in 1..Len(Tail(q)) : Tail(q)[i] = q[i + 1] /\ i + 1 \in 1..Len(q)
  <2>1. /\ k = q[1] /\ 1 \in 1..Len(q) /\ Len(q) \in Nat
        /\ Tail(q) \in Seq(Call) /\ Len(Tail(q)) = Len(q) - 1
        /\ \A i \in 1..Len(Tail(q)) : Tail(q)[i] = q[i + 1] /\ i + 1 \in 1..Len(q)
    BY <1>1, <1>2, HeadTailProperties, EmptySeq
  <2>2. k \in Call
    BY <1>2, <2>1, ElementOfSeq
  <2>3. k[2] \in Names
    BY <1>2, <2>1 DEF TodoHolds
  <2> QED BY <2>1, <2>2, <2>3
<1>4. IdentTypeOK' /\ RotationsHold' /\ KeepsIdentity
  BY <1>1, IdentityStays
<1>5. edits' \in 0..MaxEdits
  BY <1>1 DEF HostIInv, HostTyped
<1>6. /\ lost \in Phases /\ lost \notin Claiming \cup {"removed", "restoring", "failed"}
      /\ lost \in Acting => at = "changing"
      /\ at \in Acting \ (Claiming \cup {"removed", "failed"})
  BY <1>1 DEF Phases, EndPhases, Acting, Claiming
<1>7. \A n \in Names : cmd[c].read[n] # "foreign"
  BY <1>2, <1>6 DEF KnowsWell
<1>8. CASE Plans(c, lost, <<>>) /\ config' = config /\ behind' = behind
  <2>1. /\ cmd' \in [Commands -> CommandTypes] /\ cmd'[c].at = lost
        /\ cmd'[c].read = cmd[c].read /\ cmd'[c].todo = <<>>
        /\ \A d \in Commands : d # c => cmd'[d] = cmd[d]
    BY <1>2, <1>6, <1>8, PlansAre
  <2>2. Quiet
    BY <1>1, <1>8 DEF Quiet
  <2>3. /\ cmd'[c].todo \in {cmd[c].todo, <<>>}
        /\ cmd'[c].at \in Acting => cmd[c].at \in Acting
        /\ cmd'[c].at \notin Claiming \cup {"removed", "restoring", "failed"}
    BY <1>6, <2>1
  <2> HIDE DEF q, k, at, lost
  <2>4. HostIInv' /\ KeepsStrangers
    BY <1>4, <2>1, <2>2, <2>3, QuietHolds
  <2> QED BY <1>4, <2>4 DEF HostStep
<1>9. CASE /\ k[1] # "stop" /\ config' = [config EXCEPT ![k[2]] = Effect(k, config[k[2]])]
           /\ Behind(c, k[2])
           /\ Plans(c, at, Tail(q)) \/ Plans(c, lost, <<>>)
  <2> DEFINE m == k[2]
  <2>1. /\ config' \in [Names -> Forms] /\ config'[m] # "foreign"
        /\ config'[m] = Effect(k, config[m])
        /\ \A n \in Names : n # m => config'[n] = config[n]
    BY <1>2, <1>3, <1>9, EffectIs
  <2>2. /\ behind' \in [Commands -> SUBSET Names] /\ behind'[c] = behind[c]
        /\ \A d \in Commands : d # c => behind'[d] = behind[d] \cup {m}
    BY <1>2, <1>3, <1>9 DEF Behind
  <2>3. PICK to \in {at, lost}, r \in {Tail(q), <<>>} :
          /\ Plans(c, to, r)
          /\ (to = at /\ r = Tail(q)) \/ (to = lost /\ r = <<>>)
    BY <1>9
  <2>4. /\ cmd' \in [Commands -> CommandTypes] /\ cmd'[c].at = to
        /\ cmd'[c].read = cmd[c].read /\ cmd'[c].todo = r
        /\ \A d \in Commands : d # c => cmd'[d] = cmd[d]
    <3>1. to \in Phases /\ r \in Seq(Call)
      BY <1>2, <1>3, <1>6, <2>3
    <3>2. Plans(c, to, r)
      BY <2>3
    <3> HIDE DEF q, k, at, lost
    <3> QED BY <1>2, <3>1, <3>2, PlansAre
  <2>5. k[1] # "stop" /\ m \in Names
    BY <1>3, <1>9
  <2>6. TodoHolds(c)'
    <3> SUFFICES ASSUME NEW i \in 1..Len(r)
                 PROVE  /\ r[i][2] \in Names
                        /\ r[i][1] # "stop" => r[i][2] \in behind[c] \/ config'[r[i][2]] # "foreign"
      BY <1>1, <2>2, <2>4 DEF TodoHolds
    <3>1. r = Tail(q)
      BY <1>2, <2>3
    <3>2. i + 1 \in 1..Len(q) /\ r[i] = q[i + 1]
      BY <1>3, <3>1
    <3>3. /\ q[i + 1][2] \in Names
          /\ q[i + 1][1] # "stop" =>
                q[i + 1][2] \in behind[c] \/ config[q[i + 1][2]] # "foreign"
      BY <1>2, <3>2 DEF TodoHolds
    <3> QED BY <2>1, <3>2, <3>3
  <2>7. KnowsWell(c)'
    <3>1. to \notin Claiming \cup {"removed", "failed"}
      BY <1>6, <2>3
    <3>2. ASSUME NEW n \in Names \ behind[c], to = "restoring", ~Stops(r)
          PROVE  ComesTo(r, n, config'[n], cmd[c].read[n])
      <4>1. at = "restoring" /\ r = Tail(q)
        BY <1>6, <2>3, <3>2
      <4>2. ~Stops(q)
        <5> SUFFICES ASSUME NEW i \in 1..Len(q), q[i][1] = "stop"
                     PROVE  FALSE
          BY DEF Stops
        <5>1. i # 1 /\ i - 1 \in 1..Len(Tail(q)) /\ (i - 1) + 1 = i
          BY <1>3, <2>5
        <5>2. Tail(q)[i - 1] = q[i]
          BY <1>3, <5>1
        <5> QED BY <3>2, <4>1, <5>1, <5>2 DEF Stops
      <4>3. ComesTo(q, n, config[n], cmd[c].read[n])
        BY <1>2, <4>1, <4>2 DEF KnowsWell
      <4>4. config'[n] = IF q[1][2] = n THEN Effect(q[1], config[n]) ELSE config[n]
        BY <1>3, <2>1
      <4> HIDE DEF q
      <4> QED BY <1>1, <1>2, <1>3, <2>5, <4>1, <4>3, <4>4, ComesToStill
    <3> QED BY <1>1, <1>7, <2>2, <2>4, <3>1, <3>2 DEF KnowsWell
  <2>8. HostIInv'
    <3>1. \A d \in Commands : d # c => /\ cmd'[d] = cmd[d] /\ behind[d] \subseteq behind'[d]
                                       /\ \A n \in Names \ behind'[d] : config'[n] = config[n]
      BY <2>1, <2>2, <2>4
    <3> QED BY <1>1, <1>4, <1>5, <2>1, <2>2, <2>4, <2>6, <2>7, <3>1, StepHolds
  <2>9. KeepsStrangers
    <3> SUFFICES ASSUME NEW d \in Commands, NEW n \in Names, cmd'[d] # cmd[d],
                        config[n] = "foreign", config'[n] # "foreign"
                 PROVE  n \in behind[d]
      BY DEF KeepsStrangers
    <3>1. d = c /\ n = m
      BY <2>1, <2>4
    <3>2. k[2] \in behind[c] \/ config[k[2]] # "foreign"
      BY <1>2, <1>3, <2>5 DEF TodoHolds
    <3> QED BY <3>1, <3>2
  <2> QED BY <1>4, <2>8, <2>9 DEF HostStep
<1> QED BY <1>1, <1>8, <1>9

\* Whoever else changes an entry, every command is behind on it.
LEMMA EditHolds ==
    ASSUME HostIInv, NEW n \in Names, NEW form \in Forms, Edit(n, form)
    PROVE  HostStep
<1>1. /\ config' = [config EXCEPT ![n] = form] /\ edits' = edits + 1 /\ edits < MaxEdits
      /\ behind' = [c \in Commands |-> behind[c] \cup {n}]
      /\ host' = host /\ cmd' = cmd /\ UNCHANGED identVars /\ Names' = Names
      /\ CommandTypes' = CommandTypes
  BY NamesStay DEF Edit
<1>2. /\ config \in [Names -> Forms] /\ edits \in 0..MaxEdits /\ host \in Hosts
      /\ cmd \in [Commands -> CommandTypes] /\ behind \in [Commands -> SUBSET Names]
  BY DEF HostIInv, HostTyped
<1>3. IdentTypeOK' /\ RotationsHold' /\ KeepsIdentity
  BY <1>1, IdentityStays
<1>4. HostTyped'
  <2>1. edits + 1 \in 0..MaxEdits
    BY <1>1, <1>2, EditsAssumption
  <2>2. config' \in [Names -> Forms] /\ behind' \in [Commands -> SUBSET Names]
    BY <1>1, <1>2
  <2> QED BY <1>1, <1>2, <1>3, <2>1, <2>2 DEF HostTyped
<1>5. ASSUME NEW d \in Commands
      PROVE  TodoHolds(d)' /\ KnowsWell(d)'
  <2>1. behind[d] \subseteq behind'[d] /\ \A m \in Names \ behind'[d] : config'[m] = config[m]
    BY <1>1, <1>2
  <2> QED BY <1>1, <2>1, OthersHold
<1>6. KeepsStrangers
  BY <1>1 DEF KeepsStrangers
<1> QED BY <1>3, <1>4, <1>5, <1>6 DEF HostStep, HostIInv, CommandsHold

-----------------------------------------------------------------------------
(* The host's configuration: the theorems.                                 *)

LEMMA HostInitHolds ==
    ASSUME HostInit
    PROVE  HostIInv
<1>1. /\ file = 0 /\ backups = {} /\ gate = None /\ approvals = {} /\ minted = 0
      /\ overtaken = {} /\ rot = [c \in Commands |-> NoRotation] /\ 0 \in Ids
  BY IdsAssumption DEF HostInit, IdentInit, Ids
<1>2. IdentTypeOK /\ RotationsHold
  BY <1>1 DEF IdentTypeOK, RotationsHold, NoRotation
<1>3. /\ host \in Hosts /\ config \in [Names -> Forms] /\ edits = 0
      /\ cmd = [c \in Commands |-> [at |-> "idle", action |-> "none",
                                    read |-> [n \in Names |-> "none"], todo |-> <<>>]]
      /\ behind = [c \in Commands |-> {}]
  BY DEF HostInit
<1>4. /\ <<>> \in Seq(Call) /\ Len(<<>>) = 0 /\ "idle" \in Phases /\ "none" \in Actions
      /\ [n \in Names |-> "none"] \in [Names -> Forms]
      /\ "idle" \notin Acting \cup Claiming
  BY DEF Phases, Actions, Forms, Acting, Claiming
<1>5. /\ cmd \in [Commands -> CommandTypes] /\ behind \in [Commands -> SUBSET Names]
      /\ \A c \in Commands : cmd[c].at = "idle" /\ cmd[c].todo = <<>>
  BY <1>3, <1>4 DEF CommandTypes
<1>6. HostTyped
  BY <1>2, <1>3, <1>5, EditsAssumption DEF HostTyped
<1>7. CommandsHold
  <2> SUFFICES ASSUME NEW c \in Commands
               PROVE  TodoHolds(c) /\ KnowsWell(c)
    BY DEF CommandsHold
  <2>1. cmd[c].at = "idle" /\ cmd[c].todo = <<>>
    BY <1>5
  <2>2. TodoHolds(c)
    BY <1>4, <2>1 DEF TodoHolds
  <2>3. KnowsWell(c)
    BY <1>4, <2>1 DEF KnowsWell
  <2> QED BY <2>2, <2>3
<1> QED BY <1>2, <1>6, <1>7 DEF HostIInv

LEMMA HostNextHolds ==
    ASSUME HostIInv, [HostNext]_connectorVars
    PROVE  HostStep
<1>1. ASSUME NEW c \in Commands,
             \/ Begin(c) \/ Ensure(c) \/ Rotating(c) \/ Read(c) \/ Validated(c) \/ Proved(c)
             \/ Tool(c) \/ Reread(c) \/ Confirmed(c) \/ Restore(c) \/ Restored(c)
             \/ Unreadable(c) \/ Kill(c)
      PROVE  HostStep
  BY <1>1, BeginHolds, EnsureHolds, RotatingHolds, ReadHolds, ValidatedHolds, ProvedHolds,
     ToolHolds, RereadHolds, ConfirmedHolds, RestoreHolds, RestoredHolds,
     UnreadableHolds, KillHolds
<1>2. ASSUME NEW n \in Names, NEW form \in Forms, Edit(n, form)
      PROVE  HostStep
  BY <1>2, EditHolds
<1>3. CASE UNCHANGED connectorVars
  <2>1. UNCHANGED identVars /\ UNCHANGED <<host, config, cmd, behind, edits>>
    BY <1>3 DEF connectorVars, hostVars
  <2>2. IdentTypeOK' /\ RotationsHold' /\ KeepsIdentity
    BY <2>1, IdentityStays
  <2>3. HostTyped'
    BY <2>1, <2>2, NamesStay DEF HostIInv, HostTyped
  <2>4. \A d \in Commands : TodoHolds(d)' /\ KnowsWell(d)'
    BY <2>1, OthersHold
  <2> QED BY <2>1, <2>2, <2>3, <2>4 DEF HostStep, HostIInv, CommandsHold, KeepsStrangers
<1> QED BY <1>1, <1>2, <1>3 DEF HostNext

\* The inductive invariant: what each command knows of the entries nobody else changed since
\* it last read them, what the calls it has left come to, and that no rotation goes on
\* without its approval and its backup.
THEOREM HostInductive == HostSpec => []HostIInv
<1>1. HostInit => HostIInv
  BY HostInitHolds
<1>2. HostIInv /\ [HostNext]_connectorVars => HostIInv'
  BY HostNextHolds DEF HostStep
<1> QED BY <1>1, <1>2, PTL DEF HostSpec

\* What an install, a removal or a failure tells is so (applyInstall, remove and restore of
\* the adapters), whatever failed on the way and however many commands run at once.
THEOREM CommandsTellTruly == HostSpec => []AnswersAreTrue
<1>1. HostIInv => AnswersAreTrue
  <2> SUFFICES ASSUME HostIInv
               PROVE  AnswersAreTrue
    OBVIOUS
  <2>1. HostTypeOK
    <3>1. \A c \in Commands :
            /\ cmd[c].at \in Phases /\ cmd[c].action \in {"none", "install", "remove", "rotate"}
            /\ cmd[c].read \in [Names -> Forms]
            /\ \A i \in DOMAIN cmd[c].todo : cmd[c].todo[i] \in Call
            /\ behind[c] \subseteq Names
      BY ElementOfSeq DEF HostIInv, HostTyped, CommandTypes, Actions
    <3> QED BY <3>1 DEF HostIInv, HostTyped, HostTypeOK
  <2>2. ASSUME NEW c \in Commands, NEW n \in Names \ behind[c]
        PROVE  /\ cmd[c].at \in {"installed", "kept"} =>
                     config[n] = IF n = "current" THEN "own" ELSE "none"
               /\ cmd[c].at = "removed" => config[n] = "none"
               /\ cmd[c].at = "failed" => config[n] = cmd[c].read[n]
    BY CommandIs DEF KnowsWell, Claiming, AsToday
  <2> QED BY <2>1, <2>2 DEF AnswersAreTrue
<1> QED BY <1>1, HostInductive, PTL

\* No command removes or replaces an entry of somebody else's that it knows of
\* (conflictError, removalRefusedError and restore).
THEOREM StrangersStay == HostSpec => StrangersAreKept
<1>1. HostIInv /\ [HostNext]_connectorVars =>
        [\A c \in Commands, n \in Names :
           (cmd'[c] # cmd[c] /\ config[n] = "foreign" /\ config'[n] # "foreign")
             => n \in behind[c]]_connectorVars
  BY HostNextHolds DEF HostStep, KeepsStrangers
<1> QED BY <1>1, HostInductive, PTL DEF StrangersAreKept, HostSpec

\* An identity gives way only to the one the owner approved in its place, and is backed up,
\* except by a command overtaken between its last comparison and its rename: what that one
\* replaces is not what it inspected, backed up and had approved (rotateMcpClientIdentity).
THEOREM IdentitiesAreReplacedAsApproved == HostSpec => ReplacedAsApproved
<1>1. HostIInv /\ [HostNext]_connectorVars =>
        [file' # file =>
           \E c \in Commands :
             /\ rot'[c] # rot[c]
             /\ <<rot[c].seen, file'>> \in approvals /\ rot[c].seen \in backups
             /\ file = rot[c].seen \/ c \in overtaken]_identVars
  BY HostNextHolds DEF HostStep, KeepsIdentity
<1> QED BY <1>1, HostInductive, PTL DEF ReplacedAsApproved, HostSpec

============================================================================
