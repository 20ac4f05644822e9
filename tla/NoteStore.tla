------------------------------- MODULE NoteStore -------------------------------
(* Notes, their revisions and the authorization log, as the worker of an     *)
(* open vault changes and reads them: notes saved by a connector, the        *)
(* owner's library (load, edit, page, delete after a prompt), and the        *)
(* decisions to forget a note that a connector asks for                      *)
(* (vault-broker-worker.ts, vault-broker.ts, sqlite-memory.ts).              *)
(* The worker answers one request at a time.  What can come between the      *)
(* commits of a request is the death of the process and the failure of a     *)
(* statement; between requests come other requests, the timer and the lock.  *)
EXTENDS Naturals, Sequences, FiniteSets

CONSTANTS
  Notes,        \* identifiers of notes
  Made,         \* those there at the start, in the order they were made
  Windows,      \* windows of the owner that hold a loaded note
  Decisions,    \* identifiers of forget decisions
  MaxRevs,      \* bound on the revisions of a note
  MaxEvents,    \* bound on the rows of the log
  MaxDeaths     \* bound on the deaths of the process

ASSUME MadeOnce ==
  IsFiniteSet(Notes) /\ Made \in Seq(Notes) /\ \A i, j \in DOMAIN Made : Made[i] = Made[j] => i = j

ASSUME BoundsAreNatural ==
  /\ MaxRevs \in Nat \ {0} /\ MaxEvents \in Nat /\ MaxDeaths \in Nat

VARIABLES
  rows,         \* notes: current revision (0: no row), text, creation stamp
  revs,         \* note_revisions: per note, the text and what it was made from
  listed,       \* note_smart_views of one view: the revision assigned, or 0
  audit,        \* broker_audit_events, by event
  pend,         \* the request being carried out
  editor,       \* per window: the note and revision it was loaded from
  prompt,       \* the delete prompt before the owner
  consented,    \* revisions of notes the owner has agreed to delete
  pager,        \* a walk through the pages of a list
  decision,     \* broker_forget_decisions
  live,         \* the session that asked for them is active, in this boot
  sweeper,      \* "ok", or "failed": every request is refused
  up,           \* a broker is open on the vault
  deaths

noteVars == <<rows, revs, listed>>
askVars == <<editor, prompt, consented, pager>>
forgetVars == <<decision, live, sweeper>>
vars == <<noteVars, audit, pend, askVars, forgetVars, up, deaths>>

Texts == {"plain", "task"}           \* the view lists the notes of one kind
Absent == [rev |-> 0, text |-> "plain", born |-> 0]
NoRequest == [op |-> "none"]
Ref(n, rev) == [note |-> n, rev |-> rev]
NoNote == [note |-> "none", rev |-> 0]
NoDecision == [status |-> "none", note |-> "none", rev |-> 0, event |-> 0, due |-> FALSE,
               locked |-> FALSE]
NoWalk == [at |-> "idle", list |-> "none", last |-> 0, shown |-> <<>>, through |-> {}]

Present == {n \in Notes : rows[n].rev > 0}
Refs == [note : Notes \cup {"none"}, rev : 0..MaxRevs]
Outcomes == {"authorized", "success", "error"}
Operations == {"remember", "update", "delete", "load", "page", "forget"}

TypeOK ==
  /\ rows \in [Notes -> [rev : 0..MaxRevs, text : Texts, born : 0..(Cardinality(Notes) + 1)]]
  /\ revs \in [Notes -> Seq([text : Texts, base : 0..MaxRevs])]
  /\ listed \in [Notes -> 0..MaxRevs]
  /\ audit \in Seq([op : Operations, outcome : Outcomes, ref : Refs])
  /\ editor \in [Windows -> Refs] /\ prompt \in Refs /\ consented \subseteq Refs
  /\ decision \in [Decisions -> {NoDecision} \cup
       [status : {"untold", "pending", "approved", "consumed", "expired"},
        note : Notes, rev : 1..MaxRevs, event : 1..MaxEvents, due : BOOLEAN,
        locked : BOOLEAN]]
  /\ live \in BOOLEAN /\ sweeper \in {"ok", "failed"} /\ up \in BOOLEAN

\* A vault with some notes of one revision, the first shown by every window.
Init ==
  /\ rows = [n \in Notes |-> IF \E i \in DOMAIN Made : Made[i] = n
                             THEN [rev |-> 1, text |-> "task",
                                   born |-> CHOOSE i \in DOMAIN Made : Made[i] = n]
                             ELSE Absent]
  /\ revs = [n \in Notes |-> IF rows[n].rev = 1 THEN <<[text |-> "task", base |-> 0]>> ELSE <<>>]
  /\ listed = [n \in Notes |-> rows[n].rev]
  /\ audit = <<>> /\ pend = NoRequest
  /\ editor = [w \in Windows |-> IF Made = <<>> THEN NoNote ELSE Ref(Made[1], 1)]
  /\ prompt = NoNote /\ consented = {} /\ pager = NoWalk
  /\ decision = [d \in Decisions |-> NoDecision] /\ live = TRUE /\ sweeper = "ok"
  /\ up = TRUE /\ deaths = 0

-------------------------------------------------------------------------------
(* The log.  A row is written authorized and made terminal once.             *)
Idle == up /\ pend = NoRequest
Admitted == Idle /\ sweeper = "ok" /\ Len(audit) < MaxEvents
Authorized(op) == Append(audit, [op |-> op, outcome |-> "authorized", ref |-> NoNote])
NewEvent == Len(audit) + 1

\* recordAudit: only an authorized row can be given its outcome.
Recordable(log, event) == log[event].outcome = "authorized"
Recorded(log, event, outcome, ref) ==
  [log EXCEPT ![event] = [op |-> @.op, outcome |-> outcome, ref |-> ref]]

-------------------------------------------------------------------------------
(* The requests.  Each begins with the row of the log, in a commit of its    *)
(* own, and waits in pend for what it does to the notes.                     *)
Begin(request) ==
  /\ Admitted
  /\ audit' = Authorized(request.op)
  /\ pend' = request
  /\ UNCHANGED <<noteVars, consented, forgetVars, up, deaths>>

\* A note is given an identifier never used before.
Remember(n, text) ==
  /\ rows[n].rev = 0 /\ revs[n] = <<>> /\ n \notin {c.note : c \in consented}
  /\ Begin([op |-> "remember", note |-> n, text |-> text, event |-> NewEvent])
  /\ UNCHANGED <<editor, prompt, pager>>

LoadNote(w, n) ==
  /\ Begin([op |-> "load", window |-> w, note |-> n, event |-> NewEvent])
  /\ UNCHANGED <<editor, prompt, pager>>

UpdateNote(w, text) ==
  /\ editor[w] # NoNote
  /\ Begin([op |-> "update", window |-> w, note |-> editor[w].note,
            expected |-> editor[w].rev, text |-> text, event |-> NewEvent])
  /\ UNCHANGED <<editor, prompt, pager>>

NextPage(list) ==
  /\ pager.at = "paging" => list = pager.list
  /\ Begin([op |-> "page", event |-> NewEvent])
  /\ pager' = IF pager.at = "paging" THEN pager
              ELSE [at |-> "paging", list |-> list, last |-> Cardinality(Notes) + 2, shown |-> <<>>,
                    through |-> {n \in Present : list = "recent" \/ listed[n] = rows[n].rev}]
  /\ UNCHANGED <<editor, prompt>>

\* Bug: the target is found by its identifier alone.
IsTarget_ById(n, rev) == rows[n].rev > 0

\* The note as the prompt to delete it named it, its description with it.
IsTarget(n, rev) == rows[n].rev = rev

\* library.delete is asked for the revision the window shows; it asks the
\* owner, or refuses a note that has changed, in the log.
RequestDelete(w) ==
  /\ Admitted /\ editor[w] # NoNote /\ prompt = NoNote
  /\ IF IsTarget(editor[w].note, editor[w].rev)
     THEN prompt' = editor[w] /\ UNCHANGED audit
     ELSE /\ audit' = Append(audit, [op |-> "delete", outcome |-> "error", ref |-> editor[w]])
          /\ UNCHANGED prompt
  /\ UNCHANGED <<noteVars, pend, editor, consented, pager, forgetVars, up, deaths>>

\* The owner's answer: the target is compared again before the deletion.
AnswerDelete ==
  /\ Admitted /\ prompt # NoNote /\ prompt' = NoNote
  /\ consented' = consented \cup {prompt}
  /\ IF IsTarget(prompt.note, prompt.rev)
     THEN /\ audit' = Authorized("delete")
          /\ pend' = [op |-> "delete", note |-> prompt.note, expected |-> prompt.rev,
                      event |-> NewEvent]
     ELSE /\ audit' = Append(audit, [op |-> "delete", outcome |-> "error", ref |-> prompt])
          /\ UNCHANGED pend
  /\ UNCHANGED <<noteVars, editor, pager, forgetVars, up, deaths>>

PromptEnds ==
  /\ prompt # NoNote /\ prompt' = NoNote
  /\ UNCHANGED <<noteVars, audit, pend, editor, consented, pager, forgetVars, up, deaths>>

-------------------------------------------------------------------------------
(* What a request does to the notes, in one transaction with the success     *)
(* row of the log; its projections (the view here) are replaced in it too.   *)
Stamps == {s \in 1..(Cardinality(Notes) + 1) : \A n \in Present : s > rows[n].born}

\* Bug: the revision the edit was made from is not compared.
Accepts_LastWins ==
  CASE pend.op = "remember" -> TRUE
    [] pend.op = "update" -> rows[pend.note].rev \in 1..(MaxRevs - 1)
    [] pend.op = "delete" -> IsTarget(pend.note, pend.expected)
    [] OTHER -> FALSE

Accepts ==
  CASE pend.op = "remember" -> TRUE
    [] pend.op = "update" -> rows[pend.note].rev = pend.expected /\ pend.expected < MaxRevs
    [] pend.op = "delete" -> IsTarget(pend.note, pend.expected)
    [] OTHER -> FALSE

Write(n, rev, text, born, base) ==
  /\ rows' = [rows EXCEPT ![n] = [rev |-> rev, text |-> text, born |-> born]]
  /\ revs' = [revs EXCEPT ![n] = Append(@, [text |-> text, base |-> base])]
  /\ listed' = [listed EXCEPT ![n] = IF text = "task" THEN rev ELSE 0]

\* The row goes and takes its revisions and assignments with it.
Erase(n) ==
  /\ rows' = [rows EXCEPT ![n] = Absent] /\ revs' = [revs EXCEPT ![n] = <<>>]
  /\ listed' = [listed EXCEPT ![n] = 0]

\* Bug: the success is left to be written after the transaction.
Succeeds_After(rev) == UNCHANGED audit

Succeeds(rev) == audit' = Recorded(audit, pend.event, "success", Ref(pend.note, rev))

\* A walk is owed the notes that stay in its list from its start.
StaysThrough ==
  pager' = [pager EXCEPT !.through =
    {n \in @ : rows'[n].rev > 0 /\ (pager.list = "recent" \/ listed'[n] = rows'[n].rev)}]

Commit ==
  /\ up /\ pend.op \in {"remember", "update", "delete"} /\ Accepts /\ pend' = NoRequest
  /\ \/ /\ pend.op = "remember" /\ Succeeds(1)
        /\ \E born \in Stamps : Write(pend.note, 1, pend.text, born, 0)
     \/ /\ pend.op = "update" /\ pend.text # rows[pend.note].text
        /\ LET n == pend.note IN
             /\ Write(n, rows[n].rev + 1, pend.text, rows[n].born, pend.expected)
             /\ Succeeds(rows[n].rev + 1)
     \/ /\ pend.op = "update" /\ pend.text = rows[pend.note].text
        /\ Succeeds(rows[pend.note].rev) /\ UNCHANGED noteVars
     \/ pend.op = "delete" /\ Succeeds(pend.expected) /\ Erase(pend.note)
  /\ StaysThrough
  /\ editor' = IF pend.op = "update"
               THEN [editor EXCEPT ![pend.window] = Ref(pend.note, rows'[pend.note].rev)]
               ELSE editor
  /\ UNCHANGED <<prompt, consented, forgetVars, up, deaths>>

\* It is refused, or one of its statements or its success row fails: all of
\* it is rolled back and the row made an error, or left authorized when that
\* fails too.
RollBack ==
  /\ up /\ pend.op \notin {"none", "forget"} /\ pend' = NoRequest
  /\ \/ audit' = Recorded(audit, pend.event, "error", NoNote)
     \/ UNCHANGED audit
  /\ UNCHANGED <<noteVars, askVars, forgetVars, up, deaths>>

Loaded ==
  /\ up /\ pend.op = "load" /\ rows[pend.note].rev > 0
  /\ LET ref == Ref(pend.note, rows[pend.note].rev) IN
       /\ editor' = [editor EXCEPT ![pend.window] = ref]
       /\ audit' = Recorded(audit, pend.event, "success", ref)
  /\ pend' = NoRequest
  /\ UNCHANGED <<noteVars, prompt, consented, pager, forgetVars, up, deaths>>

\* One note a page, the newest first: rows after the cursor's, one more than
\* a page to know whether another follows.
Rest == {n \in Present : rows[n].born < pager.last /\
                         (pager.list = "recent" \/ listed[n] = rows[n].rev)}
Newest(ns) == CHOOSE n \in ns : \A m \in ns : rows[m].born <= rows[n].born

\* Bug: the cursor is taken from the row that only tells there is another page.
Cursor_Ahead(ns) ==
  IF Cardinality(ns) > 1 THEN rows[Newest(ns \ {Newest(ns)})].born ELSE 0

\* The cursor names the last note shown; 0: there is no further page.
Cursor(ns) == IF Cardinality(ns) > 1 THEN rows[Newest(ns)].born ELSE 0

Paged ==
  /\ up /\ pend.op = "page" /\ pend' = NoRequest
  /\ pager' = [at |-> IF Cursor(Rest) = 0 THEN "done" ELSE pager.at,
               list |-> pager.list, last |-> Cursor(Rest),
               shown |-> IF Rest = {} THEN pager.shown ELSE Append(pager.shown, Newest(Rest)),
               through |-> pager.through]
  /\ audit' = Recorded(audit, pend.event, "success",
                       IF Rest = {} THEN NoNote ELSE Ref(Newest(Rest), rows[Newest(Rest)].rev))
  /\ UNCHANGED <<noteVars, editor, prompt, consented, forgetVars, up, deaths>>

-------------------------------------------------------------------------------
(* Decisions to forget: asked for by a session, approved by the owner's      *)
(* signature over note and revision, then executed once, or expired.  The    *)
(* field locked is history: it was a lock that expired the decision.         *)
\* Pending is "untold" until its identifier has been returned.
Open(d) == decision[d].status \in {"untold", "pending", "approved"}
Due == {d \in Decisions : Open(d) /\ decision[d].due}

AskForget(n) ==
  /\ live /\ Begin([op |-> "forget", note |-> n, inserted |-> NoNote, event |-> NewEvent])
  /\ UNCHANGED <<editor, prompt, pager>>

\* The decision, for the revision of the moment, in a commit of its own.
InsertDecision(d) ==
  /\ up /\ pend.op = "forget" /\ pend.inserted = NoNote
  /\ decision[d] = NoDecision /\ rows[pend.note].rev > 0
  /\ decision' = [decision EXCEPT ![d] =
       [status |-> "untold", note |-> pend.note, rev |-> rows[pend.note].rev,
        event |-> pend.event, due |-> FALSE, locked |-> FALSE]]
  /\ pend' = [pend EXCEPT !.inserted = Ref(pend.note, rows[pend.note].rev)]
  /\ UNCHANGED <<noteVars, audit, askVars, live, sweeper, up, deaths>>

\* The decision is returned with its transcript; or the note is unknown, or a
\* statement fails, before the decision was inserted or when it is read back,
\* and the row becomes an error.
Asked ==
  /\ up /\ pend.op = "forget" /\ pend' = NoRequest
  /\ \/ /\ pend.inserted # NoNote /\ UNCHANGED audit
        /\ decision' = [d \in Decisions |->
             IF decision[d].event = pend.event THEN [decision[d] EXCEPT !.status = "pending"]
                                               ELSE decision[d]]
     \/ audit' = Recorded(audit, pend.event, "error", NoNote) /\ UNCHANGED decision
  /\ UNCHANGED <<noteVars, askVars, live, sweeper, up, deaths>>

ApproveForget(d) ==
  /\ Idle /\ decision[d].status = "pending" /\ ~decision[d].due
  /\ decision' = [decision EXCEPT ![d].status = "approved"]
  /\ consented' = consented \cup {Ref(decision[d].note, decision[d].rev)}
  /\ UNCHANGED <<noteVars, audit, pend, editor, prompt, pager, live, sweeper, up, deaths>>

Ends(d, status) == decision' = [decision EXCEPT ![d].status = status]

\* executeApprovedForget: decision, note and log in one transaction.
ExecuteForget(d) ==
  LET n == decision[d].note  e == decision[d].event
      target == IsTarget(n, decision[d].rev)
  IN /\ Idle /\ decision[d].status = "approved" /\ ~decision[d].due
     /\ \/ /\ live /\ target /\ Recordable(audit, e)
           /\ Erase(n) /\ Ends(d, "consumed")
           /\ audit' = Recorded(audit, e, "success", Ref(n, decision[d].rev))
        \/ /\ ~live /\ Recordable(audit, e) /\ Ends(d, "expired") /\ UNCHANGED noteVars
           /\ audit' = Recorded(audit, e, "error", NoNote)
        \/ /\ live /\ ~target /\ Ends(d, "expired") /\ UNCHANGED noteVars
           /\ audit' = IF Recordable(audit, e) THEN Recorded(audit, e, "error", NoNote) ELSE audit
     /\ StaysThrough
     /\ UNCHANGED <<pend, editor, prompt, consented, live, sweeper, up, deaths>>

\* The session ends: its deadline, a disconnect, a revocation.
SessionEnds ==
  /\ live /\ live' = FALSE
  /\ UNCHANGED <<noteVars, audit, pend, askVars, decision, sweeper, up, deaths>>

TimePasses(d) ==
  /\ Open(d) /\ ~decision[d].due /\ decision' = [decision EXCEPT ![d].due = TRUE]
  /\ UNCHANGED <<noteVars, audit, pend, askVars, live, sweeper, up, deaths>>

\* A decision whose row of the log already has an outcome cannot be expired
\* with it, and no other is either: they are expired in one transaction.
Jammed == \E d \in Decisions : Open(d) /\ pend.op # "forget" /\
                               ~Recordable(audit, decision[d].event)

\* Bug: the row of the log is left as it is.
Expired_Unlogged == /\ decision' = [d \in Decisions |->
                         IF d \in Due THEN [decision[d] EXCEPT !.status = "expired"] ELSE decision[d]]
                    /\ UNCHANGED audit

Expired ==
  /\ decision' = [d \in Decisions |->
       IF d \in Due THEN [decision[d] EXCEPT !.status = "expired"] ELSE decision[d]]
  /\ audit' = [e \in DOMAIN audit |->
       IF \E d \in Due : decision[d].event = e
       THEN [audit[e] EXCEPT !.outcome = "error"] ELSE audit[e]]

Expirable == \A d \in Due : Recordable(audit, decision[d].event)

\* Bug: a failure is remembered for good.
Sweep_Latching ==
  /\ Idle /\ Expirable /\ (Due # {} \/ sweeper = "failed") /\ Expired
  /\ UNCHANGED <<noteVars, pend, askVars, live, sweeper, up, deaths>>

\* The timer: what is due is expired, and requests are served (again).
Sweep ==
  /\ Idle /\ Expirable /\ (Due # {} \/ sweeper = "failed") /\ Expired /\ sweeper' = "ok"
  /\ UNCHANGED <<noteVars, pend, askVars, live, up, deaths>>

\* The sweep fails; until one succeeds every request is refused.
SweepFails ==
  /\ Idle /\ Due # {} /\ sweeper' = "failed"
  /\ UNCHANGED <<noteVars, audit, pend, askVars, decision, live, up, deaths>>

\* Locking expires what is undecided, in an update of its own: the rows of the
\* log stay as they are, and no sweep finds these decisions any more.
Lock ==
  /\ Idle /\ sweeper = "ok" /\ (live \/ prompt # NoNote \/ \E d \in Decisions : Open(d))
  /\ decision' = [d \in Decisions |->
       IF Open(d) THEN [decision[d] EXCEPT !.status = "expired", !.locked = TRUE]
                  ELSE decision[d]]
  /\ live' = FALSE /\ prompt' = NoNote
  /\ UNCHANGED <<noteVars, audit, pend, editor, consented, pager, sweeper, up, deaths>>

Die ==
  /\ up /\ deaths < MaxDeaths /\ deaths' = deaths + 1 /\ up' = FALSE
  /\ pend' = NoRequest /\ prompt' = NoNote /\ live' = FALSE /\ sweeper' = "ok"
  /\ pager' = NoWalk
  /\ UNCHANGED <<noteVars, audit, editor, consented, decision>>

\* A broker is opened on the vault once it has swept.
Open_ ==
  /\ ~up /\ Expirable /\ Expired /\ up' = TRUE
  /\ UNCHANGED <<noteVars, pend, askVars, live, sweeper, deaths>>

Next ==
  \/ \E n \in Notes, text \in Texts : Remember(n, text)
  \/ \E w \in Windows : RequestDelete(w) \/ (\E n \in Notes : LoadNote(w, n))
                        \/ (\E text \in Texts : UpdateNote(w, text))
  \/ \E list \in {"recent", "view"} : NextPage(list)
  \/ AnswerDelete \/ PromptEnds \/ Commit \/ RollBack \/ Loaded \/ Paged
  \/ \E n \in Notes : AskForget(n)
  \/ \E d \in Decisions : InsertDecision(d) \/ ApproveForget(d) \/ ExecuteForget(d) \/ TimePasses(d)
  \/ Asked \/ SessionEnds \/ Sweep \/ SweepFails \/ Lock \/ Die \/ Open_

Fairness ==
  /\ SF_vars(Sweep) /\ WF_vars(Open_) /\ WF_vars(RollBack) /\ WF_vars(Asked)
  /\ \A d \in Decisions : WF_vars(TimePasses(d))

Spec == Init /\ [][Next]_vars
FairSpec == Spec /\ Fairness

-------------------------------------------------------------------------------
(* Safety.                                                                   *)

\* A note disappears only at a revision the owner agreed to delete, in the
\* window's prompt or by signing a decision, however it was edited, deleted or
\* locked in between (library.delete's handlers, executeApprovedForget).
DeletedAsConsented ==
  [][\A n \in Notes : rows[n].rev > 0 /\ rows'[n].rev = 0 => Ref(n, rows[n].rev) \in consented]_vars

\* No edit is lost: the revisions of a note are one line, each made from the
\* one before it, ending in the note; and the view lists exactly the notes it
\* should, at that revision (the comparison in updateNote, and the projections
\* that share its transaction).
EditsAreChained ==
  /\ TypeOK
  /\ \A n \in Notes :
    /\ Len(revs[n]) = rows[n].rev
    /\ \A i \in 2..Len(revs[n]) : revs[n][i].base = i - 1
    /\ rows[n].rev > 0 => /\ revs[n][rows[n].rev].text = rows[n].text
                          /\ (listed[n] = rows[n].rev) = (rows[n].text = "task")

\* A walk that reached its last page has shown once every note that stayed in
\* the list throughout, whatever was saved, edited and deleted meanwhile
\* (the keyset cursors of browseNotes and browseSmartView).
PagesAreWhole ==
  pager.at = "done" =>
    /\ \A n \in pager.through : \E i \in DOMAIN pager.shown : pager.shown[i] = n
    /\ \A i, j \in DOMAIN pager.shown : pager.shown[i] = pager.shown[j] => i = j

Turns(e, n, ops) == /\ audit'[e].outcome = "success" /\ audit'[e].op \in ops
                    /\ audit'[e].ref.note = n
                    /\ e \in DOMAIN audit => audit[e].outcome = "authorized"

\* The log and the notes change together: an outcome once written stands, a
\* note is removed in the very step that writes the success of its removal,
\* and a new revision in the one that writes its own (recordAudit inside the
\* transaction of executeNativeLibraryMutation and executeApprovedForget).
LoggedWithTheChange ==
  [][/\ \A e \in DOMAIN audit : audit[e].outcome # "authorized" => audit'[e] = audit[e]
     /\ \A n \in Notes :
          /\ (rows[n].rev > 0 /\ rows'[n].rev = 0)
               <=> \E e \in DOMAIN audit' : Turns(e, n, {"delete", "forget"})
          /\ rows'[n].rev > rows[n].rev =>
               \E e \in DOMAIN audit' : Turns(e, n, {"remember", "update"})
                                        /\ audit'[e].ref.rev = rows'[n].rev]_vars

\* What became of a decision is what its row of the log says, through failed
\* sweeps, deaths and restarts: consumed is a success at its revision, expired an
\* error, unless a lock expired it, which leaves the row as it was and which
\* nothing executes afterwards (sweepExpiredForgetDecisions,
\* executeApprovedForget, invalidateEphemeralAuthorityForLock).
DecisionsAreLogged ==
  \A d \in Decisions : decision[d].event # 0 =>
    LET row == audit[decision[d].event] IN
      /\ (decision[d].status = "consumed") = (row.outcome = "success")
      /\ row.outcome = "success" => row.ref = Ref(decision[d].note, decision[d].rev)
      /\ decision[d].status = "expired" /\ ~decision[d].locked => row.outcome = "error"
      /\ decision[d].locked => decision[d].status = "expired"

\* A sweep that failed does not close the vault for good: a later one succeeds
\* and requests are served again, unless a decision's row already has an
\* outcome (the timer of the broker).
ServesAgain == (sweeper = "failed") ~> (sweeper = "ok" \/ Jammed)
===============================================================================
