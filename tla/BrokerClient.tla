---------------------------- MODULE BrokerClient ----------------------------
(***************************************************************************)
(* A connector's side of the broker: its tool calls, the session they      *)
(* share, and the one retry of a call (mcp-broker-adapter.ts,              *)
(* vault-broker-client.ts).                                                *)
(*                                                                         *)
(* A connector is a process that has several calls under way but one       *)
(* request on the wire at a time: the XPC request blocks it.  Between the  *)
(* two attempts of a call another call of the process may run.  A request  *)
(* that timed out may still be executed.                                   *)
(***************************************************************************)
EXTENDS Naturals, Sequences, FiniteSets

CONSTANTS
    Procs,       \* processes of connectors
    Calls,       \* their tool calls
    ProcOf, OpOf,  \* the process and the tool of each
    MaxBoots, MaxSessions \* bounds

Ops == {"remember", "recall", "get_note"}

ASSUME ConstantsAssumption ==
    /\ ProcOf \in [Calls -> Procs] /\ OpOf \in [Calls -> Ops]
    /\ MaxBoots \in Nat \ {0} /\ MaxSessions \in Nat

VARIABLES
    boot, up,   \* the broker's boot, and whether it runs
    sessions,   \* every session it activated: whose, in which boot, its status
    wire,       \* requests that may still be executed
    replies,    \* replies on their way
    executed,   \* the requests the broker executed
    delegate,   \* the session each process works with, or 0
    call,       \* how far each call has come
    failed      \* history: the sessions a call failed on and may give up

broker == <<boot, up, sessions>>
vars == <<broker, wire, replies, executed, delegate, call, failed>>

-----------------------------------------------------------------------------
Session == [proc : Procs, boot : 1..MaxBoots, status : {"active", "ended", "revoked"}]
Request == [call : Calls, try : 1..2, session : 1..MaxSessions]
Reply == [call : Calls, try : 1..2, result : {"ok", "stale", "denied", "failed"}]
Fresh == [pc |-> "new", try |-> 1, session |-> 0]
\* A call is done, or ends with an error from which it is known that the last attempt was
\* not executed (refused), or with one that leaves it open (unknown).
Over == {"done", "refused", "unknown"}

\* The process waits for a reply, or for the owner, in a call that blocks its thread:
\* nothing else of it runs.
Blocked(p) == \E c \in Calls : ProcOf[c] = p /\ call[c].pc \in {"activating", "sent"}

Init ==
    /\ boot = 1 /\ up = TRUE /\ sessions = <<>>
    /\ wire = {} /\ replies = {} /\ executed = {} /\ failed = {}
    /\ delegate = [p \in Procs |-> 0]
    /\ call = [c \in Calls |-> Fresh]

-----------------------------------------------------------------------------
\* #execute over session s, which is #delegate or has just been activated.
Send(c, try, s) ==
    /\ wire' = wire \cup {[call |-> c, try |-> try, session |-> s]}
    /\ call' = [call EXCEPT ![c] = [pc |-> "sent", try |-> try, session |-> s]]

\* #activated: the delegate there is, or a new one, which may take the owner's answer.
Attempt(c, try, s) ==
    IF s # 0 THEN Send(c, try, s)
    ELSE /\ call' = [call EXCEPT ![c] = [pc |-> "activating", try |-> try, session |-> 0]]
         /\ UNCHANGED wire

Start(c) ==
    /\ call[c].pc = "new" /\ ~Blocked(ProcOf[c])
    /\ Attempt(c, 1, delegate[ProcOf[c]])
    /\ UNCHANGED <<broker, replies, executed, delegate, failed>>

\* The broker activates a session for c's process.
Activates(c) ==
    /\ up /\ call[c].pc = "activating" /\ Len(sessions) < MaxSessions
    /\ sessions' = Append(sessions, [proc |-> ProcOf[c], boot |-> boot, status |-> "active"])

\* The client has the session, and asks at once what it was activated for.
Activate(c) ==
    /\ Activates(c)
    /\ delegate' = [delegate EXCEPT ![ProcOf[c]] = Len(sessions')]
    /\ Send(c, call[c].try, Len(sessions'))
    /\ UNCHANGED <<boot, up, replies, executed, failed>>

\* The owner declines, the connector must be reconnected, or the broker cannot be reached:
\* nothing was sent.
ActivationFails(c) ==
    /\ call[c].pc = "activating"
    /\ call' = [call EXCEPT ![c].pc = "refused"]
    /\ UNCHANGED <<broker, wire, replies, executed, delegate, failed>>

\* The owner's approval comes after the client stopped waiting for it.
ActivatedLate(c) ==
    /\ Activates(c)
    /\ call' = [call EXCEPT ![c].pc = "refused"]
    /\ UNCHANGED <<boot, up, wire, replies, executed, delegate, failed>>

-----------------------------------------------------------------------------
\* #authorize: a session of this boot that has not ended.
Admits(r) == sessions[r.session].boot = boot /\ sessions[r.session].status = "active"

\* The boot is compared before the session is looked up.
Verdict(r) == IF Admits(r) THEN "ok"
              ELSE IF sessions[r.session].boot = boot /\ sessions[r.session].status = "revoked"
              THEN "denied" ELSE "stale"

\* Nobody waits for the reply to an attempt that timed out.
Awaited(r) == call[r.call].pc = "sent" /\ call[r.call].try = r.try

\* Instead of its verdict the broker may answer that the vault is locked, or that the
\* operation failed and was rolled back.
Execute(r) ==
    /\ up /\ r \in wire
    /\ wire' = wire \ {r}
    /\ \E result \in {Verdict(r), "failed"} :
          /\ executed' = IF result = "ok" THEN executed \cup {[call |-> r.call, try |-> r.try]}
                         ELSE executed
          /\ replies' = IF Awaited(r)
                           THEN replies \cup {[call |-> r.call, try |-> r.try, result |-> result]}
                           ELSE replies
    /\ UNCHANGED <<broker, delegate, call, failed>>

\* A request or a reply is lost with the broker or its gateway.
Lose(r) ==
    /\ r \in wire \cup replies
    /\ wire' = wire \ {r} /\ replies' = replies \ {r}
    /\ UNCHANGED <<broker, executed, delegate, call, failed>>

\* Its lifetime, a lock or a disconnect ends a session, or its client is revoked.
EndSession(s, how) ==
    /\ up /\ sessions[s].status = "active"
    /\ sessions' = [sessions EXCEPT ![s].status = how]
    /\ UNCHANGED <<boot, up, wire, replies, executed, delegate, call, failed>>

Stop ==
    /\ up /\ up' = FALSE
    /\ UNCHANGED <<boot, sessions, wire, replies, executed, delegate, call, failed>>

Restart ==
    /\ ~up /\ boot < MaxBoots
    /\ up' = TRUE /\ boot' = boot + 1
    /\ UNCHANGED <<sessions, wire, replies, executed, delegate, call, failed>>

-----------------------------------------------------------------------------
\* Mutant: a save is repeated when its reply does not come.
Reactivatable_Save(c, how) == how \in {"stale", "transport"}

\* #withReactivation: which failures of a first attempt lead to a second.
Reactivatable(c, how) == how = "stale" \/ (how = "transport" /\ OpOf[c] # "remember")

\* Mutant: a save whose reply did not come is told as one that was refused.
Told_Refused(c, how) == "refused"

\* The kind of error a call ends with.  One the broker answered says that the attempt was
\* not executed; no answer, or none that can be read, leaves that open.
Told(c, how) == IF how \in {"transport", "garbled"} THEN "unknown" ELSE "refused"

Fails(c, how) ==
    IF call[c].try = 1 /\ Reactivatable(c, how)
      THEN /\ call' = [call EXCEPT ![c].pc = "failed"]
           /\ failed' = failed \cup {call[c].session}
      ELSE call' = [call EXCEPT ![c].pc = Told(c, how)] /\ UNCHANGED failed

\* The reply to the attempt the call waits for.
Receive(c) ==
    /\ call[c].pc = "sent"
    /\ \E r \in replies :
          /\ r.call = c
          /\ replies' = replies \ {r}
          /\ IF r.result = "ok" THEN call' = [call EXCEPT ![c].pc = "done"] /\ UNCHANGED failed
             ELSE Fails(c, r.result)
    /\ UNCHANGED <<broker, wire, executed, delegate>>

\* The request timed out, or the service was gone.
TimeOut(c) ==
    /\ call[c].pc = "sent"
    /\ Fails(c, "transport")
    /\ replies' = {r \in replies : r.call # c}
    /\ UNCHANGED <<broker, wire, executed, delegate>>

\* The reply is no JSON, or none to this request: an error like any other, not one of the
\* transport.
Garbled(c) ==
    /\ call[c].pc = "sent" /\ \E r \in replies : r.call = c
    /\ Fails(c, "garbled")
    /\ replies' = {r \in replies : r.call # c}
    /\ UNCHANGED <<broker, wire, executed, delegate>>

\* Mutant: the delegate is given up, though another call has renewed it.
Kept_None(c) == 0

\* The delegate a second attempt finds: it gives up only the one it failed on.
Kept(c) == IF delegate[ProcOf[c]] = call[c].session THEN 0 ELSE delegate[ProcOf[c]]

Again(c) ==
    /\ call[c].pc = "failed" /\ ~Blocked(ProcOf[c])
    /\ delegate' = [delegate EXCEPT ![ProcOf[c]] = Kept(c)]
    /\ Attempt(c, 2, Kept(c))
    /\ UNCHANGED <<broker, replies, executed, failed>>

-----------------------------------------------------------------------------
Adapter == \E c \in Calls : \/ Start(c) \/ Activate(c) \/ ActivationFails(c) \/ ActivatedLate(c)
                            \/ Receive(c) \/ TimeOut(c) \/ Garbled(c) \/ Again(c)
Broker == \/ \E r \in wire : Execute(r)
          \/ \E s \in DOMAIN sessions, how \in {"ended", "revoked"} : EndSession(s, how)
          \/ Stop \/ Restart
Network == \E r \in wire \cup replies : Lose(r)

Next == Adapter \/ Broker \/ Network
Spec == Init /\ [][Next]_vars

-----------------------------------------------------------------------------
\* The types of the state.
TypeOK ==
    /\ boot \in 1..MaxBoots /\ up \in BOOLEAN
    /\ sessions \in Seq(Session) /\ Len(sessions) <= MaxSessions
    /\ wire \subseteq Request /\ replies \subseteq Reply
    /\ executed \subseteq [call : Calls, try : 1..2]
    /\ delegate \in [Procs -> 0..MaxSessions]
    /\ call \in [Calls -> [pc : {"new", "activating", "sent", "failed"} \cup Over,
                           try : 1..2, session : 0..MaxSessions]]
    /\ failed \subseteq 1..MaxSessions

Attempts(c) == {t \in 1..2 : [call |-> c, try |-> t] \in executed}

\* One call to remember stores one note at most, however late its requests arrive and though
\* it is attempted again after a session that ended (mcp-broker-adapter.ts:185).
SavedOnce ==
    /\ TypeOK
    /\ \A c \in Calls : OpOf[c] = "remember" => Cardinality(Attempts(c)) <= 1

\* A save that is reported was made, and one that ends with an error the broker answered, or
\* with an activation that failed, was not made and never will be (VaultBrokerRequestError,
\* vault-broker-client.ts:58).
SavesAreTold ==
    \A c \in Calls : OpOf[c] = "remember" =>
        /\ call[c].pc = "done" => Attempts(c) # {}
        /\ call[c].pc = "refused" => Attempts(c) = {} /\ ~\E r \in wire : r.call = c /\ Admits(r)

\* The calls of a process share a session: it works with another only after a call failed on
\* the one before, and calls that failed on the same one do not each activate another.
SessionsAreShared ==
    \A p \in Procs :
        delegate[p] # 0 =>
            \A s \in DOMAIN sessions :
                sessions[s].proc = p /\ s # delegate[p] =>
                    s \in failed \/ \E c \in Calls : ProcOf[c] = p /\ call[c].pc \in Over
                                                      /\ call[c].session = 0
=============================================================================
