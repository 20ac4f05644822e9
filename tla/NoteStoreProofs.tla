---------------------------- MODULE NoteStoreProofs ----------------------------
(***************************************************************************)
(* Proofs about NoteStore, for any finite set of notes and all values of   *)
(* the bounds.                                                             *)
(*                                                                         *)
(* A request writes its row of the log in one commit and changes the notes *)
(* in another; what it read for the first is what it finds in the second,  *)
(* because nothing else is served in between (RequestsHold).  A decision   *)
(* outlives many requests; its row of the log is its own (DecisionsHold).  *)
(* A walk is made of many requests; the notes it has shown are behind its  *)
(* cursor, those it owes before it (PagerHolds).                           *)
(***************************************************************************)
EXTENDS NoteStore, FiniteSetTheorems, SequenceTheorems, WellFoundedInduction, TLAPS

-------------------------------------------------------------------------------
(* The inductive invariant.                                                *)

Request ==
       [op : {"remember"}, note : Notes, text : Texts, event : Nat]
  \cup [op : {"load"}, window : Windows, note : Notes, event : Nat]
  \cup [op : {"update"}, window : Windows, note : Notes, expected : 1..MaxRevs,
        text : Texts, event : Nat]
  \cup [op : {"page"}, event : Nat]
  \cup [op : {"delete"}, note : Notes, expected : 1..MaxRevs, event : Nat]
  \cup [op : {"forget"}, note : Notes, inserted : Refs, event : Nat]

LogRow == [op : Operations, outcome : Outcomes, ref : Refs]
Row == [rev : 0..MaxRevs, text : Texts, born : 0..(Cardinality(Notes) + 1)]
Named == {c.note : c \in consented}
Shown(n) == \E i \in DOMAIN pager.shown : pager.shown[i] = n
Listed(n) == pager.list = "recent" \/ listed[n] = rows[n].rev

\* A window shows, and a prompt names, a note at a revision it once had.
EditorsHold ==
  /\ \A w \in Windows : editor[w] # NoNote => editor[w].note \in Notes /\ editor[w].rev > 0
  /\ prompt # NoNote => prompt.note \in Notes /\ prompt.rev > 0

\* The request being carried out, and its row of the log.
RequestsHold ==
  /\ pend \in Request \cup {NoRequest}
  /\ pend # NoRequest => /\ up /\ pend.event \in DOMAIN audit
                         /\ audit[pend.event].op = pend.op
                         /\ audit[pend.event].outcome = "authorized"
  /\ pend.op = "remember" => rows[pend.note].rev = 0 /\ pend.note \notin Named
  /\ pend.op = "delete" => Ref(pend.note, pend.expected) \in consented
  /\ pend.op = "page" => pager.at = "paging"

\* A note, its revisions and its place in the view; notes made at different times.
NotesHold ==
  /\ \A n \in Notes :
       /\ Len(revs[n]) = rows[n].rev
       /\ \A i \in 2..Len(revs[n]) : revs[n][i].base = i - 1
       /\ rows[n].rev > 0 => /\ revs[n][rows[n].rev].text = rows[n].text
                             /\ (listed[n] = rows[n].rev) = (rows[n].text = "task")
                             /\ rows[n].born > 0
  /\ \A n, m \in Present : rows[n].born = rows[m].born => n = m

\* A decision and the row of the log it was asked for with.
DecisionHolds(d) ==
  decision[d] # NoDecision =>
    LET row == audit[decision[d].event] IN
      /\ decision[d].event \in DOMAIN audit /\ row.op = "forget"
      /\ decision[d].status \in {"untold", "pending", "approved"} => row.outcome # "success"
      /\ decision[d].status = "consumed" =>
           row.outcome = "success" /\ row.ref = Ref(decision[d].note, decision[d].rev)
      /\ decision[d].status = "expired" =>
           IF decision[d].locked THEN row.outcome # "success" ELSE row.outcome = "error"
      /\ decision[d].locked => decision[d].status = "expired"
      /\ decision[d].status = "approved" => Ref(decision[d].note, decision[d].rev) \in consented
      /\ pend.op = "forget" /\ pend.event = decision[d].event =>
           decision[d].status = "untold" /\ pend.inserted # NoNote
      /\ \A c \in Decisions : decision[c].event = decision[d].event => c = d

\* How far a walk has come.
PagerHolds ==
  /\ pager \in [at : {"idle", "paging", "done"}, list : {"none", "recent", "view"}, last : Nat,
                shown : Seq(Notes), through : SUBSET Notes]
  /\ \A n \in pager.through : rows[n].rev > 0 /\ Listed(n)
  /\ \A i, j \in DOMAIN pager.shown : pager.shown[i] = pager.shown[j] => i = j
  /\ pager.at = "paging" =>
       /\ \A n \in pager.through : Shown(n) \/ rows[n].born < pager.last
       /\ \A i \in DOMAIN pager.shown :
            IF rows[pager.shown[i]].rev > 0 THEN pager.last <= rows[pager.shown[i]].born
            ELSE pager.shown[i] \in Named
  /\ pager.at = "done" => \A n \in pager.through : Shown(n)

IInv == /\ TypeOK /\ EditorsHold /\ RequestsHold /\ NotesHold
        /\ (\A d \in Decisions : DecisionHolds(d)) /\ PagerHolds
        /\ Len(audit) <= MaxEvents

-------------------------------------------------------------------------------
(* What a step does to the log and to the notes.                           *)

Marks(e, outcome, ref) ==
  /\ e \in DOMAIN audit /\ audit[e].outcome = "authorized"
  /\ audit' = Recorded(audit, e, outcome, ref)

Logs ==
  \/ audit' = audit
  \/ \E row \in LogRow : /\ row.outcome # "success" /\ audit' = Append(audit, row)
                         /\ Len(audit) < MaxEvents
  \/ \E e \in DOMAIN audit, outcome \in Outcomes, ref \in Refs :
       Marks(e, outcome, ref) /\ (outcome = "success" => audit[e].op \notin {"delete", "forget"})
  \/ Expirable /\ Expired

Quiet == UNCHANGED noteVars /\ Logs

Saves ==
  \E n \in Notes, text \in Texts, born \in 1..(Cardinality(Notes) + 1), e \in DOMAIN audit :
    /\ rows[n].rev < MaxRevs
    /\ IF rows[n].rev = 0 THEN n \notin Named /\ born \in Stamps ELSE born = rows[n].born
    /\ Write(n, rows[n].rev + 1, text, born, rows[n].rev)
    /\ audit[e].op \in {"remember", "update"}
    /\ Marks(e, "success", Ref(n, rows[n].rev + 1))

Removes ==
  \E n \in Notes, e \in DOMAIN audit :
    /\ rows[n].rev > 0 /\ Ref(n, rows[n].rev) \in consented
    /\ Erase(n)
    /\ audit[e].op \in {"delete", "forget"}
    /\ Marks(e, "success", Ref(n, rows[n].rev))

\* Giving a row its outcome leaves the log a log, and its other rows as they were.
LEMMA LogMarked ==
  ASSUME NEW log \in Seq(LogRow), NEW e \in DOMAIN log, NEW outcome \in Outcomes, NEW ref \in Refs
  PROVE /\ Recorded(log, e, outcome, ref) \in Seq(LogRow)
        /\ DOMAIN Recorded(log, e, outcome, ref) = DOMAIN log
        /\ Len(Recorded(log, e, outcome, ref)) = Len(log)
        /\ Recorded(log, e, outcome, ref)[e] = [op |-> log[e].op, outcome |-> outcome, ref |-> ref]
        /\ \A x \in DOMAIN log : x # e => Recorded(log, e, outcome, ref)[x] = log[x]
<1> DEFINE new == Recorded(log, e, outcome, ref)
<1>1. PICK k \in Nat : log \in [1..k -> LogRow]
  BY SeqDef
<1>2. log[e] \in LogRow /\ DOMAIN log = 1..k
  BY <1>1
<1>3. [op |-> log[e].op, outcome |-> outcome, ref |-> ref] \in LogRow
  BY <1>2 DEF LogRow
<1>4. new \in [1..k -> LogRow]
  BY <1>1, <1>2, <1>3 DEF Recorded
<1>5. new \in Seq(LogRow)
  BY <1>4, SeqDef
<1>6. Len(log) = k /\ Len(new) = k
  BY <1>1, <1>4, <1>5
<1> QED BY <1>1, <1>2, <1>4, <1>5, <1>6 DEF Recorded

\* A row added at its end leaves the rows before it as they were.
LEMMA LogAppended ==
  ASSUME NEW log \in Seq(LogRow), NEW row \in LogRow
  PROVE /\ Append(log, row) \in Seq(LogRow)
        /\ DOMAIN Append(log, row) = DOMAIN log \cup {Len(log) + 1}
        /\ Len(Append(log, row)) = Len(log) + 1
        /\ Append(log, row)[Len(log) + 1] = row
        /\ \A x \in DOMAIN log : Append(log, row)[x] = log[x] /\ x # Len(log) + 1
OBVIOUS

\* What is due is made an error in the log, and only that.
LEMMA LogExpired ==
  ASSUME audit \in Seq(LogRow), Expired
  PROVE /\ audit' \in Seq(LogRow) /\ DOMAIN audit' = DOMAIN audit /\ Len(audit') = Len(audit)
        /\ \A x \in DOMAIN audit :
             /\ audit'[x].op = audit[x].op
             /\ (\E d \in Due : decision[d].event = x) => audit'[x].outcome = "error"
             /\ (\A d \in Due : decision[d].event # x) => audit'[x] = audit[x]
<1>1. PICK k \in Nat : audit \in [1..k -> LogRow]
  BY SeqDef
<1>2. \A x \in DOMAIN audit : /\ audit[x] \in LogRow
                              /\ [audit[x] EXCEPT !.outcome = "error"] \in LogRow
  BY <1>1 DEF LogRow, Outcomes
<1>3. audit' \in [1..k -> LogRow] /\ DOMAIN audit = 1..k
  BY <1>1, <1>2 DEF Expired
<1>4. audit' \in Seq(LogRow)
  BY <1>3, SeqDef
<1>5. \A x \in DOMAIN audit : audit'[x] = IF \E d \in Due : decision[d].event = x
                                         THEN [audit[x] EXCEPT !.outcome = "error"] ELSE audit[x]
  BY DEF Expired
<1>6. Len(audit) = k /\ Len(audit') = k
  BY <1>1, <1>3, <1>4
<1> QED BY <1>2, <1>3, <1>4, <1>5, <1>6 DEF LogRow

\* Whatever a step writes to the log, no row goes, none changes what it is
\* about, and an outcome once written stands.
LogKept == /\ audit' \in Seq(LogRow) /\ DOMAIN audit \subseteq DOMAIN audit'
           /\ \A x \in DOMAIN audit : audit'[x].op = audit[x].op
           /\ \A x \in DOMAIN audit : audit[x].outcome # "authorized" => audit'[x] = audit[x]
           /\ Len(audit') <= MaxEvents

LEMMA MarkKept ==
  ASSUME audit \in Seq(LogRow), NEW e, NEW outcome \in Outcomes, NEW ref \in Refs,
         Marks(e, outcome, ref), Len(audit) <= MaxEvents
  PROVE LogKept
<1>1. e \in DOMAIN audit /\ audit[e] \in LogRow /\ audit' = Recorded(audit, e, outcome, ref)
  BY SeqDef DEF Marks
<1>2. /\ audit' \in Seq(LogRow) /\ DOMAIN audit' = DOMAIN audit /\ Len(audit') = Len(audit)
      /\ audit'[e] = [op |-> audit[e].op, outcome |-> outcome, ref |-> ref]
      /\ \A x \in DOMAIN audit : x # e => audit'[x] = audit[x]
  BY <1>1, LogMarked
<1>3. audit'[e].op = audit[e].op /\ audit[e].outcome = "authorized"
  BY <1>2 DEF Marks
<1> QED BY <1>2, <1>3 DEF LogKept

LEMMA LogsKept ==
  ASSUME audit \in Seq(LogRow), Logs, Len(audit) <= MaxEvents
  PROVE LogKept
<1>1. CASE audit' = audit
  BY <1>1 DEF LogKept
<1>2. CASE \E row \in LogRow : audit' = Append(audit, row) /\ Len(audit) < MaxEvents
  <2>1. Len(audit) \in Nat /\ MaxEvents \in Nat
    BY BoundsAreNatural
  <2> QED BY <1>2, <2>1, LogAppended DEF LogKept
<1>3. CASE \E e \in DOMAIN audit, outcome \in Outcomes, ref \in Refs : Marks(e, outcome, ref)
  BY <1>3, MarkKept
<1>4. CASE Expirable /\ Expired
  <2>1. \A x \in DOMAIN audit : audit[x].outcome # "authorized" => \A d \in Due : decision[d].event # x
    BY <1>4 DEF Expirable, Recordable
  <2> QED BY <1>4, <2>1, LogExpired DEF LogKept
<1> QED BY <1>1, <1>2, <1>3, <1>4 DEF Logs

LEMMA RefsAre ==
  /\ NoNote \in Refs
  /\ \A n \in Notes, rev \in 0..MaxRevs : Ref(n, rev) \in Refs
BY BoundsAreNatural DEF NoNote, Refs, Ref

\* What is known of the request being carried out.
LEMMA RequestIs ==
  ASSUME IInv, pend # NoRequest
  PROVE /\ pend.op \in Operations /\ pend.event \in DOMAIN audit /\ up
        /\ audit[pend.event].op = pend.op /\ audit[pend.event].outcome = "authorized"
        /\ pend.op # "page" => pend.note \in Notes
        /\ pend.op \in {"remember", "update"} => pend.text \in Texts
        /\ pend.op \in {"load", "update"} => pend.window \in Windows
        /\ pend.op \in {"update", "delete"} => pend.expected \in 1..MaxRevs
        /\ pend.op = "forget" => pend.inserted \in Refs
<1>1. pend \in Request
  BY DEF IInv, RequestsHold
<1>2. pend.op \in Operations /\ (pend.op # "page" => pend.note \in Notes)
  BY <1>1 DEF Request, Operations
<1>3. /\ pend.op \in {"remember", "update"} => pend.text \in Texts
      /\ pend.op \in {"load", "update"} => pend.window \in Windows
      /\ pend.op \in {"update", "delete"} => pend.expected \in 1..MaxRevs
      /\ pend.op = "forget" => pend.inserted \in Refs
  BY <1>1 DEF Request
<1> QED BY <1>2, <1>3 DEF IInv, RequestsHold

LEMMA BusyOp ==
  ASSUME IInv, pend.op # "none"
  PROVE pend # NoRequest
BY DEF NoRequest

LEMMA BeginLogs ==
  ASSUME IInv, NEW request, request.op \in Operations, Begin(request)
  PROVE Quiet
<1>1. [op |-> request.op, outcome |-> "authorized", ref |-> NoNote] \in LogRow
  BY RefsAre DEF LogRow, Outcomes
<1>2. Logs
  BY <1>1 DEF Begin, Authorized, Admitted, Logs
<1> QED BY <1>2 DEF Begin, Quiet

\* A request that ends without a change of the notes.
LEMMA MarkLogs ==
  ASSUME IInv, pend # NoRequest, NEW outcome \in Outcomes, NEW ref \in Refs,
         audit' = Recorded(audit, pend.event, outcome, ref), UNCHANGED noteVars,
         outcome = "success" => pend.op \notin {"delete", "forget"}
  PROVE Quiet
<1>1. Marks(pend.event, outcome, ref) /\ pend.event \in DOMAIN audit
  BY RequestIs DEF Marks
<1>2. outcome = "success" => audit[pend.event].op \notin {"delete", "forget"}
  BY RequestIs
<1>3. Logs
  BY <1>1, <1>2 DEF Logs
<1> QED BY <1>3 DEF Quiet

LEMMA DeleteAskLogs ==
  ASSUME IInv, NEW ref \in Refs, UNCHANGED noteVars, Len(audit) < MaxEvents,
         audit' = Append(audit, [op |-> "delete", outcome |-> "error", ref |-> ref])
  PROVE Quiet
<1>1. [op |-> "delete", outcome |-> "error", ref |-> ref] \in LogRow
  BY DEF LogRow, Outcomes, Operations
<1>2. Logs
  BY <1>1 DEF Logs
<1> QED BY <1>2 DEF Quiet

LEMMA RowIs ==
  ASSUME IInv, NEW n \in Notes
  PROVE /\ rows[n].rev \in 0..MaxRevs /\ rows[n].text \in Texts
        /\ rows[n].born \in 0..(Cardinality(Notes) + 1)
        /\ Cardinality(Notes) \in Nat
        /\ rows[n].rev > 0 => rows[n].born > 0
<1>1. rows[n] \in [rev : 0..MaxRevs, text : Texts, born : 0..(Cardinality(Notes) + 1)]
  BY DEF IInv, TypeOK
<1>2. Cardinality(Notes) \in Nat
  BY MadeOnce, FS_CardinalityType
<1> QED BY <1>1, <1>2 DEF IInv, NotesHold

LEMMA CommitSteps ==
  ASSUME IInv, Commit
  PROVE Saves \/ Removes \/ Quiet
<1> DEFINE n == pend.note  e == pend.event
<1>1. pend # NoRequest /\ pend.op \in {"remember", "update", "delete"}
  BY DEF Commit, NoRequest
<1>2. /\ n \in Notes /\ e \in DOMAIN audit
      /\ audit[e].op = pend.op /\ audit[e].outcome = "authorized"
  BY <1>1, RequestIs
<1>3. \A rev : Succeeds(rev) => Marks(e, "success", Ref(n, rev))
  BY <1>2 DEF Succeeds, Marks
<1>4. rows[n].rev \in 0..MaxRevs /\ MaxRevs \in Nat \ {0}
  BY <1>2, RowIs, BoundsAreNatural
<1>5. CASE pend.op = "remember"
  <2>1. rows[n].rev = 0 /\ n \notin Named
    BY <1>5 DEF IInv, RequestsHold
  <2>2. Succeeds(1) /\ \E born \in Stamps : Write(n, 1, pend.text, born, 0)
    BY <1>5 DEF Commit
  <2>3. pend.text \in Texts
    BY <1>1, <1>5, RequestIs
  <2>4. PICK born \in Stamps : Write(n, 1, pend.text, born, 0)
    BY <2>2
  <2>5. born \in 1..(Cardinality(Notes) + 1)
    BY DEF Stamps
  <2>6. Write(n, rows[n].rev + 1, pend.text, born, rows[n].rev) /\ rows[n].rev < MaxRevs
    BY <2>1, <2>4, <1>4
  <2>7. Marks(e, "success", Ref(n, rows[n].rev + 1))
    BY <2>1, <2>2, <1>3
  <2>8. IF rows[n].rev = 0 THEN n \notin Named /\ born \in Stamps ELSE born = rows[n].born
    BY <2>1
  <2>9. Saves
    BY <1>2, <1>5, <2>3, <2>5, <2>6, <2>7, <2>8 DEF Saves
  <2> QED BY <2>9
<1>6. CASE pend.op = "update"
  <2>1. rows[n].rev = pend.expected /\ pend.expected < MaxRevs /\ pend.expected \in 1..MaxRevs
    BY <1>1, <1>6, RequestIs DEF Commit, Accepts
  <2>2. pend.text \in Texts
    BY <1>1, <1>6, RequestIs
  <2>3. CASE pend.text # rows[n].text
    <3>1. Write(n, rows[n].rev + 1, pend.text, rows[n].born, rows[n].rev) /\ Succeeds(rows[n].rev + 1)
      BY <1>6, <2>1, <2>3 DEF Commit
    <3>2. rows[n].born \in 1..(Cardinality(Notes) + 1) /\ rows[n].rev # 0
      BY <1>2, <2>1, RowIs
    <3>3. Marks(e, "success", Ref(n, rows[n].rev + 1)) /\ rows[n].rev < MaxRevs
      BY <1>3, <3>1, <2>1
    <3>4. Saves
      BY <1>2, <1>6, <2>2, <3>1, <3>2, <3>3 DEF Saves
    <3> QED BY <3>4
  <2>4. CASE pend.text = rows[n].text
    <3>1. Succeeds(rows[n].rev) /\ UNCHANGED noteVars
      BY <1>6, <2>4 DEF Commit
    <3>2. Ref(n, rows[n].rev) \in Refs /\ "success" \in Outcomes
      BY <1>2, <1>4, RefsAre DEF Outcomes
    <3>3. audit' = Recorded(audit, pend.event, "success", Ref(n, rows[n].rev))
      BY <3>1 DEF Succeeds
    <3>4. Quiet
      BY <1>1, <1>6, <3>1, <3>2, <3>3, MarkLogs
    <3> QED BY <3>4
  <2> QED BY <2>3, <2>4
<1>7. CASE pend.op = "delete"
  <2>1. Accepts /\ Succeeds(pend.expected) /\ Erase(n)
    BY <1>7 DEF Commit
  <2>2. rows[n].rev = pend.expected
    BY <1>7, <2>1 DEF Accepts, IsTarget
  <2>3. pend.expected \in 1..MaxRevs
    BY <1>1, <1>7, RequestIs
  <2>4. Ref(n, rows[n].rev) \in consented
    BY <1>7, <2>2 DEF IInv, RequestsHold
  <2>5. Marks(e, "success", Ref(n, rows[n].rev))
    BY <1>3, <2>1, <2>2
  <2>6. Removes
    BY <1>2, <1>7, <1>4, <2>1, <2>2, <2>3, <2>4, <2>5 DEF Removes
  <2> QED BY <2>6
<1> QED BY <1>1, <1>5, <1>6, <1>7

\* Of any notes there is a newest.
LEMMA NewestIs ==
  ASSUME IInv, NEW ns \in SUBSET Notes, ns # {}
  PROVE Newest(ns) \in ns /\ \A m \in ns : rows[m].born <= rows[Newest(ns)].born
<1> DEFINE After(n) == {m \in ns : rows[n].born < rows[m].born}
           Family == {After(n) : n \in ns}
           R == StrictSubsetOrdering(Notes)
<1>1. FiniteSubsetsOf(Notes) = SUBSET Notes
  BY MadeOnce, FS_FiniteSubsetsOfFinite
<1>2. IsWellFoundedOn(R, SUBSET Notes)
  BY <1>1, FS_StrictSubsetOrderingWellFounded
<1>3. Family \subseteq SUBSET Notes /\ Family # {}
  OBVIOUS
<1>4. PICK x \in Family : \A y \in Family : ~ (<<y, x>> \in R)
  <2> HIDE DEF Family, R
  <2> QED BY <1>2, <1>3, WFMin
<1>5. PICK n \in ns : x = After(n)
  BY <1>4
<1>6. \A m \in ns : rows[m].born \in Nat
  BY RowIs
<1>7. \A m \in ns : ~ (rows[n].born < rows[m].born)
  <2> SUFFICES ASSUME NEW m \in ns, rows[n].born < rows[m].born PROVE FALSE
    OBVIOUS
  <2>1. m \in After(n) /\ m \notin After(m)
    BY <1>6
  <2>2. After(m) \subseteq After(n)
    BY <1>6
  <2>3. <<After(m), After(n)>> \in R
    BY <2>1, <2>2 DEF StrictSubsetOrdering
  <2>4. After(m) \in Family
    OBVIOUS
  <2> QED BY <1>4, <1>5, <2>3, <2>4
<1>8. \A m \in ns : rows[m].born <= rows[n].born
  BY <1>6, <1>7
<1> QED BY <1>8 DEF Newest

\* The page shown next.
LEMMA RestIs ==
  ASSUME IInv
  PROVE /\ Rest \in SUBSET Notes /\ IsFiniteSet(Rest)
        /\ Rest # {} =>
             /\ Newest(Rest) \in Notes /\ rows[Newest(Rest)].rev > 0 /\ Newest(Rest) \in Rest
             /\ \A m \in Rest : rows[m].born <= rows[Newest(Rest)].born
             /\ Ref(Newest(Rest), rows[Newest(Rest)].rev) \in Refs
<1>1. Rest \in SUBSET Notes
  BY DEF Rest, Present
<1>2. IsFiniteSet(Rest)
  BY <1>1, MadeOnce, FS_Subset
<1>3. ASSUME Rest # {}
      PROVE /\ Newest(Rest) \in Notes /\ rows[Newest(Rest)].rev > 0 /\ Newest(Rest) \in Rest
            /\ \A m \in Rest : rows[m].born <= rows[Newest(Rest)].born
  <2>1. Newest(Rest) \in Rest /\ \A m \in Rest : rows[m].born <= rows[Newest(Rest)].born
    BY <1>1, <1>3, NewestIs
  <2> HIDE DEF Newest
  <2> QED BY <2>1 DEF Rest, Present
<1>4. ASSUME Rest # {} PROVE Ref(Newest(Rest), rows[Newest(Rest)].rev) \in Refs
  <2> HIDE DEF Rest, Newest
  <2>1. rows[Newest(Rest)].rev \in 0..MaxRevs
    BY <1>3, <1>4, RowIs
  <2> QED BY <1>3, <1>4, <2>1, RefsAre
<1> QED BY <1>1, <1>2, <1>3, <1>4

LEMMA EndLogs ==
  ASSUME IInv, RollBack \/ Loaded \/ Paged \/ Asked
  PROVE Quiet
<1>1. CASE RollBack
  <2>1. pend # NoRequest /\ UNCHANGED noteVars
    BY <1>1 DEF RollBack, NoRequest
  <2>2. "error" \in Outcomes /\ NoNote \in Refs
    BY RefsAre DEF Outcomes
  <2>3. CASE audit' = Recorded(audit, pend.event, "error", NoNote)
    BY <2>1, <2>2, <2>3, MarkLogs
  <2> QED BY <1>1, <2>1, <2>3 DEF RollBack, Quiet, Logs
<1>2. CASE Loaded
  <2> DEFINE ref == Ref(pend.note, rows[pend.note].rev)
  <2>1. pend # NoRequest /\ pend.op = "load" /\ UNCHANGED noteVars
    BY <1>2 DEF Loaded, NoRequest
  <2>2. pend.note \in Notes
    BY <2>1, RequestIs
  <2>3. ref \in Refs /\ "success" \in Outcomes
    BY <2>2, RowIs, RefsAre DEF Outcomes
  <2>4. audit' = Recorded(audit, pend.event, "success", ref)
    BY <1>2 DEF Loaded
  <2> HIDE DEF ref
  <2> QED BY <2>1, <2>3, <2>4, MarkLogs
<1>3. CASE Paged
  <2> DEFINE ref == IF Rest = {} THEN NoNote ELSE Ref(Newest(Rest), rows[Newest(Rest)].rev)
  <2>1. pend # NoRequest /\ pend.op = "page" /\ UNCHANGED noteVars
    BY <1>3 DEF Paged, NoRequest
  <2>2. ref \in Refs /\ "success" \in Outcomes
    <3> HIDE DEF Rest, Newest
    <3> QED BY RestIs, RefsAre DEF Outcomes
  <2>3. audit' = Recorded(audit, pend.event, "success", ref)
    BY <1>3 DEF Paged
  <2> HIDE DEF ref
  <2> QED BY <2>1, <2>2, <2>3, MarkLogs
<1>4. CASE Asked
  <2>1. pend # NoRequest /\ UNCHANGED noteVars
    BY <1>4 DEF Asked, NoRequest
  <2>2. "error" \in Outcomes /\ NoNote \in Refs
    BY RefsAre DEF Outcomes
  <2>3. CASE audit' = Recorded(audit, pend.event, "error", NoNote)
    BY <2>1, <2>2, <2>3, MarkLogs
  <2> QED BY <1>4, <2>1, <2>3 DEF Asked, Quiet, Logs
<1> QED BY <1>1, <1>2, <1>3, <1>4

Statuses == {"untold", "pending", "approved", "consumed", "expired"}

\* What is known of a decision that was asked for.
LEMMA DecisionIs ==
  ASSUME IInv, NEW d \in Decisions, decision[d] # NoDecision
  PROVE /\ decision[d].status \in Statuses /\ decision[d].note \in Notes
        /\ decision[d].rev \in 1..MaxRevs /\ decision[d].event \in 1..MaxEvents
        /\ decision[d].event \in DOMAIN audit /\ audit[decision[d].event].op = "forget"
        /\ DecisionHolds(d)
<1>1. decision[d] \in [status : Statuses, note : Notes, rev : 1..MaxRevs,
                       event : 1..MaxEvents, due : BOOLEAN, locked : BOOLEAN]
  BY DEF IInv, TypeOK, Statuses
<1>2. DecisionHolds(d)
  BY DEF IInv
<1> QED BY <1>1, <1>2 DEF DecisionHolds

LEMMA ExecuteSteps ==
  ASSUME IInv, NEW d \in Decisions, ExecuteForget(d)
  PROVE Removes \/ Quiet
<1> DEFINE n == decision[d].note  e == decision[d].event
<1>1. decision[d] # NoDecision
  BY DEF ExecuteForget, NoDecision
<1>2. /\ n \in Notes /\ decision[d].rev \in 1..MaxRevs /\ e \in DOMAIN audit
      /\ audit[e].op = "forget"
      /\ decision[d].status = "approved" => Ref(n, decision[d].rev) \in consented
  BY <1>1, DecisionIs DEF DecisionHolds
<1>3. CASE IsTarget(n, decision[d].rev) /\ Recordable(audit, e) /\ Erase(n)
           /\ audit' = Recorded(audit, e, "success", Ref(n, decision[d].rev))
  <2>1. rows[n].rev = decision[d].rev /\ decision[d].status = "approved"
    BY <1>3 DEF IsTarget, ExecuteForget
  <2>2. Marks(e, "success", Ref(n, rows[n].rev))
    BY <1>2, <1>3, <2>1 DEF Marks, Recordable
  <2>3. rows[n].rev > 0 /\ Ref(n, rows[n].rev) \in consented
    BY <1>2, <2>1
  <2>4. Removes
    BY <1>2, <1>3, <2>2, <2>3 DEF Removes
  <2> QED BY <2>4
<1>4. CASE UNCHANGED noteVars /\ Recordable(audit, e) /\ audit' = Recorded(audit, e, "error", NoNote)
  <2>1. Marks(e, "error", NoNote) /\ "error" \in Outcomes /\ NoNote \in Refs
    BY <1>2, <1>4, RefsAre DEF Marks, Recordable, Outcomes
  <2>2. Logs
    BY <1>2, <2>1 DEF Logs
  <2> QED BY <1>4, <2>2 DEF Quiet
<1>5. CASE UNCHANGED noteVars /\ audit' = audit
  BY <1>5 DEF Quiet, Logs
<1> QED BY <1>3, <1>4, <1>5 DEF ExecuteForget

LEMMA NextSteps ==
  ASSUME IInv, [Next]_vars
  PROVE Saves \/ Removes \/ Quiet
<1>2. ASSUME NEW n \in Notes, NEW text \in Texts, Remember(n, text) PROVE Quiet
  BY <1>2, BeginLogs DEF Remember, Operations
<1>3. ASSUME NEW w \in Windows, RequestDelete(w) PROVE Quiet
  <2>1. editor[w] \in Refs
    BY DEF IInv, TypeOK
  <2>2. CASE audit' = audit
    BY <1>3, <2>2 DEF RequestDelete, Quiet, Logs
  <2>3. CASE audit' = Append(audit, [op |-> "delete", outcome |-> "error", ref |-> editor[w]])
    BY <1>3, <2>1, <2>3, DeleteAskLogs DEF RequestDelete, Admitted
  <2> QED BY <1>3, <2>2, <2>3 DEF RequestDelete
<1>4. ASSUME NEW w \in Windows, NEW n \in Notes, LoadNote(w, n) PROVE Quiet
  BY <1>4, BeginLogs DEF LoadNote, Operations
<1>5. ASSUME NEW w \in Windows, NEW text \in Texts, UpdateNote(w, text) PROVE Quiet
  BY <1>5, BeginLogs DEF UpdateNote, Operations
<1>6. ASSUME NEW list, NextPage(list) PROVE Quiet
  BY <1>6, BeginLogs DEF NextPage, Operations
<1>7. CASE AnswerDelete
  <2>1. prompt \in Refs /\ UNCHANGED noteVars /\ Len(audit) < MaxEvents
    BY <1>7 DEF IInv, TypeOK, AnswerDelete, Admitted
  <2>2. CASE audit' = Authorized("delete")
    <3>1. [op |-> "delete", outcome |-> "authorized", ref |-> NoNote] \in LogRow
      BY RefsAre DEF LogRow, Outcomes, Operations
    <3>2. Logs
      BY <2>1, <2>2, <3>1 DEF Authorized, Logs
    <3> QED BY <2>1, <3>2 DEF Quiet
  <2>3. CASE audit' = Append(audit, [op |-> "delete", outcome |-> "error", ref |-> prompt])
    BY <2>1, <2>3, DeleteAskLogs
  <2> QED BY <1>7, <2>2, <2>3 DEF AnswerDelete
<1>8. CASE PromptEnds \/ SessionEnds \/ SweepFails \/ Lock \/ Die \/ UNCHANGED vars
  BY <1>8 DEF PromptEnds, SessionEnds, SweepFails, Lock, Die, vars, noteVars, Quiet, Logs
<1>9. CASE Commit \/ RollBack \/ Loaded \/ Paged \/ Asked
  BY <1>9, CommitSteps, EndLogs
<1>10. ASSUME NEW n \in Notes, AskForget(n) PROVE Quiet
  BY <1>10, BeginLogs DEF AskForget, Operations
<1>11. ASSUME NEW d \in Decisions, InsertDecision(d) \/ ApproveForget(d) \/ TimePasses(d) PROVE Quiet
  BY <1>11 DEF InsertDecision, ApproveForget, TimePasses, Quiet, Logs
<1>12. ASSUME NEW d \in Decisions, ExecuteForget(d) PROVE Removes \/ Quiet
  BY <1>12, ExecuteSteps
<1>13. CASE Sweep \/ Open_
  BY <1>13 DEF Sweep, Open_, Quiet, Logs
<1> QED BY <1>2, <1>3, <1>4, <1>5, <1>6, <1>7, <1>8, <1>9, <1>10, <1>11, <1>12, <1>13 DEF Next

-------------------------------------------------------------------------------
(* The notes.                                                              *)

Revision == [text : Texts, base : 0..MaxRevs]
NotesTyped == /\ rows \in [Notes -> Row] /\ revs \in [Notes -> Seq(Revision)]
              /\ listed \in [Notes -> 0..MaxRevs]

LEMMA NotesAreTyped ==
  ASSUME IInv
  PROVE NotesTyped
BY DEF IInv, TypeOK, NotesTyped, Row, Revision

LEMMA WrittenIs ==
  ASSUME NotesTyped, NEW n \in Notes, NEW rev \in 1..MaxRevs, NEW text \in Texts,
         NEW born \in 1..(Cardinality(Notes) + 1), NEW base \in 0..MaxRevs,
         Write(n, rev, text, born, base)
  PROVE /\ NotesTyped'
        /\ rows'[n] = [rev |-> rev, text |-> text, born |-> born]
        /\ revs'[n] = Append(revs[n], [text |-> text, base |-> base])
        /\ listed'[n] = IF text = "task" THEN rev ELSE 0
        /\ \A m \in Notes : m # n => /\ rows'[m] = rows[m] /\ revs'[m] = revs[m]
                                     /\ listed'[m] = listed[m]
<1> DEFINE row == [rev |-> rev, text |-> text, born |-> born]
           made == [text |-> text, base |-> base]
<1>1. row \in Row /\ made \in Revision /\ (IF text = "task" THEN rev ELSE 0) \in 0..MaxRevs
  BY MadeOnce, FS_CardinalityType, BoundsAreNatural DEF Row, Revision
<1>2. rows' = [rows EXCEPT ![n] = row] /\ rows \in [Notes -> Row]
  BY DEF Write, NotesTyped
<1>3. revs' = [revs EXCEPT ![n] = Append(revs[n], made)] /\ revs \in [Notes -> Seq(Revision)]
  BY DEF Write, NotesTyped
<1>4. listed' = [listed EXCEPT ![n] = IF text = "task" THEN rev ELSE 0]
      /\ listed \in [Notes -> 0..MaxRevs]
  BY DEF Write, NotesTyped
<1> HIDE DEF row, made
<1>5. Append(revs[n], made) \in Seq(Revision)
  BY <1>1, <1>3
<1>6. NotesTyped'
  BY <1>1, <1>2, <1>3, <1>4, <1>5 DEF NotesTyped
<1> QED BY <1>2, <1>3, <1>4, <1>6 DEF row, made

LEMMA ErasedIs ==
  ASSUME NotesTyped, NEW n \in Notes, Erase(n)
  PROVE /\ NotesTyped'
        /\ rows'[n] = Absent /\ revs'[n] = <<>> /\ listed'[n] = 0
        /\ \A m \in Notes : m # n => /\ rows'[m] = rows[m] /\ revs'[m] = revs[m]
                                     /\ listed'[m] = listed[m]
<1>1. Absent \in Row /\ <<>> \in Seq(Revision) /\ 0 \in 0..MaxRevs
  BY MadeOnce, FS_CardinalityType, BoundsAreNatural DEF Row, Absent, Texts
<1> QED BY <1>1 DEF Erase, NotesTyped

\* A note, its revisions and its place in the view stay together, and no two
\* notes are made at one time.
OneLine(n) ==
  /\ Len(revs[n]) = rows[n].rev
  /\ \A i \in 2..Len(revs[n]) : revs[n][i].base = i - 1
  /\ rows[n].rev > 0 => /\ revs[n][rows[n].rev].text = rows[n].text
                        /\ (listed[n] = rows[n].rev) = (rows[n].text = "task")
                        /\ rows[n].born > 0

Apart == \A n, m \in Present : rows[n].born = rows[m].born => n = m

LEMMA NotesAre == NotesHold <=> (\A n \in Notes : OneLine(n)) /\ Apart
BY DEF NotesHold, OneLine, Apart

LEMMA SavesKeepNotes ==
  ASSUME IInv, Saves
  PROVE NotesTyped' /\ NotesHold'
<1>1. NotesTyped /\ (\A n \in Notes : OneLine(n)) /\ Apart
  BY NotesAreTyped, NotesAre DEF IInv
<1>2. PICK n \in Notes, text \in Texts, born \in 1..(Cardinality(Notes) + 1) :
        /\ rows[n].rev < MaxRevs
        /\ IF rows[n].rev = 0 THEN n \notin Named /\ born \in Stamps ELSE born = rows[n].born
        /\ Write(n, rows[n].rev + 1, text, born, rows[n].rev)
  BY DEF Saves
<1>3. rows[n].rev \in 0..MaxRevs /\ rows[n].rev + 1 \in 1..MaxRevs
  BY <1>2, RowIs, BoundsAreNatural
<1>4. /\ NotesTyped'
      /\ rows'[n] = [rev |-> rows[n].rev + 1, text |-> text, born |-> born]
      /\ revs'[n] = Append(revs[n], [text |-> text, base |-> rows[n].rev])
      /\ listed'[n] = IF text = "task" THEN rows[n].rev + 1 ELSE 0
      /\ \A m \in Notes : m # n => /\ rows'[m] = rows[m] /\ revs'[m] = revs[m]
                                   /\ listed'[m] = listed[m]
  BY <1>1, <1>2, <1>3, WrittenIs
<1>5. revs[n] \in Seq(Revision) /\ Len(revs[n]) = rows[n].rev
  BY <1>1 DEF NotesTyped, OneLine
<1>6. OneLine(n)'
  <2>1. Len(revs'[n]) = rows[n].rev + 1 /\ rows'[n].rev = rows[n].rev + 1
    BY <1>4, <1>5
  <2>2. ASSUME NEW i \in 2..Len(revs'[n]) PROVE revs'[n][i].base = i - 1
    <3>1. CASE i <= Len(revs[n])
      <4>1. revs'[n][i] = revs[n][i] /\ i \in 2..Len(revs[n])
        BY <1>4, <1>5, <2>1, <3>1
      <4> QED BY <1>1, <4>1 DEF OneLine
    <3>2. CASE i = Len(revs[n]) + 1
      BY <1>3, <1>4, <1>5, <3>2
    <3> QED BY <1>5, <1>3, <2>1, <3>1, <3>2
  <2>3. revs'[n][rows'[n].rev].text = rows'[n].text
    BY <1>3, <1>4, <1>5, <2>1
  <2>4. (listed'[n] = rows'[n].rev) <=> (rows'[n].text = "task")
    BY <1>3, <1>4
  <2>5. rows'[n].born > 0
    BY <1>4
  <2> QED BY <2>1, <2>2, <2>3, <2>4, <2>5 DEF OneLine
<1>7. ASSUME NEW m \in Notes, m # n PROVE OneLine(m)'
  BY <1>1, <1>4, <1>7 DEF OneLine
<1>8. Apart'
  <2>1. \A m \in Notes : rows[m].born \in Nat
    BY RowIs
  <2>2. \A m \in Present : m # n => rows[m].born # born
    <3> SUFFICES ASSUME NEW m \in Present, m # n PROVE rows[m].born # born
      OBVIOUS
    <3>0. m \in Notes
      BY DEF Present
    <3>1. CASE rows[n].rev = 0
      BY <1>2, <2>1, <3>0, <3>1 DEF Stamps
    <3>2. CASE rows[n].rev # 0
      <4>1. n \in Present
        BY <1>3, <3>2 DEF Present
      <4> QED BY <1>1, <1>2, <3>2, <4>1 DEF Apart
    <3> QED BY <3>1, <3>2
  <2>3. \A m \in Notes : m \in Present' /\ m # n => m \in Present
    BY <1>4 DEF Present
  <2>4. rows'[n].born = born /\ \A m \in Notes : m # n => rows'[m].born = rows[m].born
    BY <1>4
  <2>5. Present' \subseteq Notes
    BY DEF Present
  <2>6. ASSUME NEW k \in Present', NEW m \in Present', rows'[k].born = rows'[m].born PROVE k = m
    BY <1>1, <2>2, <2>3, <2>4, <2>5, <2>6 DEF Apart
  <2> QED BY <2>6 DEF Apart
<1>9. (\A m \in Notes : OneLine(m))'
  BY <1>6, <1>7
<1>10. NotesHold'
  BY <1>8, <1>9 DEF NotesHold, OneLine, Apart
<1> QED BY <1>4, <1>10

LEMMA RemovesKeepNotes ==
  ASSUME IInv, Removes
  PROVE NotesTyped' /\ NotesHold'
<1>1. NotesTyped /\ (\A n \in Notes : OneLine(n)) /\ Apart
  BY NotesAreTyped, NotesAre DEF IInv
<1>2. PICK n \in Notes : Erase(n)
  BY DEF Removes
<1>3. /\ NotesTyped'
      /\ rows'[n] = Absent /\ revs'[n] = <<>> /\ listed'[n] = 0
      /\ \A m \in Notes : m # n => /\ rows'[m] = rows[m] /\ revs'[m] = revs[m]
                                   /\ listed'[m] = listed[m]
  BY <1>1, <1>2, ErasedIs
<1>4. OneLine(n)'
  BY <1>3 DEF OneLine, Absent
<1>5. \A m \in Notes : m # n => OneLine(m)'
  BY <1>1, <1>3 DEF OneLine
<1>6. Present' \subseteq Present \ {n}
  BY <1>3 DEF Present, Absent
<1>7. Apart'
  BY <1>1, <1>3, <1>6 DEF Apart, Present
<1>8. NotesHold'
  BY <1>4, <1>5, <1>7 DEF NotesHold, OneLine, Apart
<1> QED BY <1>3, <1>8

LEMMA QuietKeepsNotes ==
  ASSUME IInv, Quiet
  PROVE NotesTyped' /\ NotesHold'
BY NotesAreTyped DEF IInv, Quiet, noteVars, NotesTyped, NotesHold, Present

\* Whatever the step, the log is kept.
LEMMA StepKeepsLog ==
  ASSUME IInv, Saves \/ Removes \/ Quiet
  PROVE LogKept
<1>1. audit \in Seq(LogRow) /\ Len(audit) <= MaxEvents
  BY DEF IInv, TypeOK, LogRow
<1>2. CASE Quiet
  BY <1>1, <1>2, LogsKept DEF Quiet
<1>3. CASE Saves
  <2>1. PICK n \in Notes, e \in DOMAIN audit : rows[n].rev < MaxRevs /\ Marks(e, "success", Ref(n, rows[n].rev + 1))
    BY <1>3 DEF Saves
  <2>2. rows[n].rev + 1 \in 0..MaxRevs
    BY <2>1, RowIs, BoundsAreNatural
  <2>3. Ref(n, rows[n].rev + 1) \in Refs /\ "success" \in Outcomes
    BY <2>2, RefsAre DEF Outcomes
  <2> QED BY <1>1, <2>1, <2>3, MarkKept
<1>4. CASE Removes
  <2>1. PICK n \in Notes, e \in DOMAIN audit : Marks(e, "success", Ref(n, rows[n].rev))
    BY <1>4 DEF Removes
  <2>2. Ref(n, rows[n].rev) \in Refs /\ "success" \in Outcomes
    BY RowIs, RefsAre DEF Outcomes
  <2> QED BY <1>1, <2>1, <2>2, MarkKept
<1> QED BY <1>2, <1>3, <1>4

-------------------------------------------------------------------------------
(* A step on the log is a step on the notes.                               *)

Gone(n) == rows[n].rev > 0 /\ rows'[n].rev = 0
Removed(n) == \E e \in DOMAIN audit' : Turns(e, n, {"delete", "forget"})
Saved(n) == rows'[n].rev > rows[n].rev =>
               \E e \in DOMAIN audit' : Turns(e, n, {"remember", "update"})
                                        /\ audit'[e].ref.rev = rows'[n].rev

\* A step that leaves the notes alone writes no success of a removal.
LEMMA QuietIsLogged ==
  ASSUME IInv, Quiet, NEW n \in Notes
  PROVE ~Gone(n) /\ ~Removed(n) /\ Saved(n)
<1>1. rows' = rows /\ rows[n].rev \in Nat
  BY RowIs, BoundsAreNatural DEF Quiet, noteVars
<1>2. ~Gone(n) /\ Saved(n)
  BY <1>1 DEF Gone, Saved
<1>3. ASSUME NEW e \in DOMAIN audit', Turns(e, n, {"delete", "forget"}) PROVE FALSE
  <2>0. audit \in Seq(LogRow)
    BY DEF IInv, TypeOK, LogRow
  <2>1. CASE audit' = audit
    BY <1>3, <2>1 DEF Turns
  <2>2. CASE \E row \in LogRow : row.outcome # "success" /\ audit' = Append(audit, row)
    <3>1. PICK row \in LogRow : row.outcome # "success" /\ audit' = Append(audit, row)
      BY <2>2
    <3>2. CASE e = Len(audit) + 1
      BY <1>3, <2>0, <3>1, <3>2, LogAppended DEF Turns
    <3>3. CASE e # Len(audit) + 1
      <4>1. e \in DOMAIN audit /\ audit'[e] = audit[e]
        BY <2>0, <3>1, <3>3, LogAppended
      <4> QED BY <1>3, <4>1 DEF Turns
    <3> QED BY <3>2, <3>3
  <2>3. CASE \E x \in DOMAIN audit, outcome \in Outcomes, ref \in Refs :
               Marks(x, outcome, ref) /\ (outcome = "success" => audit[x].op \notin {"delete", "forget"})
    <3>1. PICK x \in DOMAIN audit, outcome \in Outcomes, ref \in Refs :
               Marks(x, outcome, ref) /\ (outcome = "success" => audit[x].op \notin {"delete", "forget"})
      BY <2>3
    <3>2. /\ DOMAIN audit' = DOMAIN audit
          /\ audit'[x] = [op |-> audit[x].op, outcome |-> outcome, ref |-> ref]
          /\ \A y \in DOMAIN audit : y # x => audit'[y] = audit[y]
      BY <2>0, <3>1, LogMarked DEF Marks
    <3>3. CASE e = x
      BY <1>3, <3>1, <3>2, <3>3 DEF Turns
    <3>4. CASE e # x
      BY <1>3, <3>2, <3>4 DEF Turns
    <3> QED BY <3>3, <3>4
  <2>4. CASE Expired
    <3>1. e \in DOMAIN audit /\ (audit'[e].outcome = "error" \/ audit'[e] = audit[e])
      BY <2>0, <2>4, LogExpired
    <3> QED BY <1>3, <3>1 DEF Turns
  <2> QED BY <2>1, <2>2, <2>3, <2>4 DEF Quiet, Logs
<1> QED BY <1>2, <1>3 DEF Removed

\* Marking one row a success turns that row and no other.
LEMMA MarkTurns ==
  ASSUME IInv, NEW m \in Notes, NEW rev \in 0..MaxRevs, NEW e \in DOMAIN audit,
         Marks(e, "success", Ref(m, rev)), NEW n \in Notes, NEW ops
  PROVE /\ DOMAIN audit' = DOMAIN audit
        /\ Turns(e, n, ops) <=> audit[e].op \in ops /\ n = m
        /\ audit'[e].ref = Ref(m, rev)
        /\ \A x \in DOMAIN audit : Turns(x, n, ops) => x = e
<1>1. audit \in Seq(LogRow) /\ Ref(m, rev) \in Refs /\ "success" \in Outcomes
  BY RefsAre DEF IInv, TypeOK, LogRow, Outcomes
<1>2. /\ DOMAIN audit' = DOMAIN audit
      /\ audit'[e] = [op |-> audit[e].op, outcome |-> "success", ref |-> Ref(m, rev)]
      /\ \A y \in DOMAIN audit : y # e => audit'[y] = audit[y]
  BY <1>1, LogMarked DEF Marks
<1>3. audit[e].outcome = "authorized" /\ Ref(m, rev).note = m
  BY DEF Marks, Ref
<1>4. audit'[e].op = audit[e].op /\ audit'[e].outcome = "success" /\ audit'[e].ref.note = m
  BY <1>2, <1>3
<1>5. ASSUME NEW x \in DOMAIN audit, x # e, Turns(x, n, ops) PROVE FALSE
  BY <1>2, <1>5 DEF Turns
<1> QED BY <1>2, <1>3, <1>4, <1>5 DEF Turns

LEMMA SavesIsLogged ==
  ASSUME IInv, Saves, NEW n \in Notes
  PROVE ~Gone(n) /\ ~Removed(n) /\ Saved(n)
<1>1. PICK m \in Notes, text \in Texts, born \in 1..(Cardinality(Notes) + 1), e \in DOMAIN audit :
        /\ rows[m].rev < MaxRevs
        /\ Write(m, rows[m].rev + 1, text, born, rows[m].rev)
        /\ audit[e].op \in {"remember", "update"}
        /\ Marks(e, "success", Ref(m, rows[m].rev + 1))
  BY DEF Saves
<1>2. rows[m].rev \in 0..MaxRevs /\ rows[m].rev + 1 \in 1..MaxRevs /\ rows[m].rev + 1 \in 0..MaxRevs
  BY <1>1, RowIs, BoundsAreNatural
<1>3. /\ rows'[m] = [rev |-> rows[m].rev + 1, text |-> text, born |-> born]
      /\ \A k \in Notes : k # m => rows'[k] = rows[k]
  <2> DEFINE base == rows[m].rev  rev == rows[m].rev + 1
  <2>1. NotesTyped /\ Write(m, rev, text, born, base)
    BY <1>1, NotesAreTyped
  <2>2. base \in 0..MaxRevs /\ rev \in 1..MaxRevs
    BY <1>2
  <2> HIDE DEF base, rev
  <2>3. /\ rows'[m] = [rev |-> rev, text |-> text, born |-> born]
        /\ \A k \in Notes : k # m => rows'[k] = rows[k]
    BY <2>1, <2>2, WrittenIs, ZenonT(30)
  <2> QED BY <2>3 DEF rev
<1>4. ~Gone(n)
  BY <1>2, <1>3 DEF Gone
<1>5. ASSUME NEW ops
      PROVE /\ DOMAIN audit' = DOMAIN audit
            /\ Turns(e, n, ops) <=> audit[e].op \in ops /\ n = m
            /\ audit'[e].ref = Ref(m, rows[m].rev + 1)
            /\ \A x \in DOMAIN audit : Turns(x, n, ops) => x = e
  <2> DEFINE rev == rows[m].rev + 1
  <2>1. rev \in 0..MaxRevs /\ Marks(e, "success", Ref(m, rev))
    BY <1>1, <1>2
  <2> HIDE DEF rev
  <2>2. /\ DOMAIN audit' = DOMAIN audit
        /\ Turns(e, n, ops) <=> audit[e].op \in ops /\ n = m
        /\ audit'[e].ref = Ref(m, rev)
        /\ \A x \in DOMAIN audit : Turns(x, n, ops) => x = e
    BY <2>1, MarkTurns
  <2> QED BY <2>2 DEF rev
<1>6. ~Removed(n)
  BY <1>1, <1>5 DEF Removed
<1>7. Saved(n)
  <2>1. CASE n = m
    <3>1. Turns(e, n, {"remember", "update"}) /\ e \in DOMAIN audit'
      BY <1>1, <1>5, <2>1
    <3>2. audit'[e].ref.rev = rows'[n].rev
      BY <1>3, <1>5, <2>1 DEF Ref
    <3> QED BY <3>1, <3>2 DEF Saved
  <2>2. CASE n # m
    <3>1. rows'[n].rev = rows[n].rev /\ rows[n].rev \in Nat
      BY <1>3, <2>2, RowIs, BoundsAreNatural
    <3> QED BY <3>1 DEF Saved
  <2> QED BY <2>1, <2>2
<1> QED BY <1>4, <1>6, <1>7

LEMMA RemovesIsLogged ==
  ASSUME IInv, Removes, NEW n \in Notes
  PROVE /\ Gone(n) <=> Removed(n)
        /\ Saved(n)
        /\ Gone(n) => Ref(n, rows[n].rev) \in consented
<1>1. PICK m \in Notes, e \in DOMAIN audit :
        /\ rows[m].rev > 0 /\ Ref(m, rows[m].rev) \in consented
        /\ Erase(m)
        /\ audit[e].op \in {"delete", "forget"}
        /\ Marks(e, "success", Ref(m, rows[m].rev))
  BY DEF Removes
<1>2. rows[m].rev \in 0..MaxRevs /\ rows[n].rev \in Nat
  BY RowIs, BoundsAreNatural
<1>3. rows'[m] = Absent /\ \A k \in Notes : k # m => rows'[k] = rows[k]
  BY <1>1, NotesAreTyped, ErasedIs
<1>4. Gone(n) <=> n = m
  BY <1>1, <1>2, <1>3 DEF Gone, Absent
<1>5. ASSUME NEW ops
      PROVE /\ DOMAIN audit' = DOMAIN audit
            /\ Turns(e, n, ops) <=> audit[e].op \in ops /\ n = m
            /\ \A x \in DOMAIN audit : Turns(x, n, ops) => x = e
  <2> DEFINE rev == rows[m].rev
  <2>1. rev \in 0..MaxRevs /\ Marks(e, "success", Ref(m, rev))
    BY <1>1, <1>2
  <2> HIDE DEF rev
  <2> QED BY <2>1, MarkTurns, SMTT(30)
<1>6. Removed(n) <=> n = m
  BY <1>1, <1>5 DEF Removed
<1>7. rows'[n].rev <= rows[n].rev
  BY <1>2, <1>3 DEF Absent
<1>8. ~(rows'[n].rev > rows[n].rev)
  BY <1>2, <1>3 DEF Absent
<1> QED BY <1>1, <1>4, <1>6, <1>8 DEF Saved

-------------------------------------------------------------------------------
(* A walk through the pages.                                               *)

Walk == [at : {"idle", "paging", "done"}, list : {"none", "recent", "view"}, last : Nat,
         shown : Seq(Notes), through : SUBSET Notes]

\* A note stays where it is in every list while it is there; one that goes
\* was agreed to, and is not made again.
LEMMA PlacesKept ==
  ASSUME IInv, Saves \/ Removes \/ Quiet, NEW n \in Notes
  PROVE /\ rows[n].rev > 0 /\ rows'[n].rev > 0 => rows'[n].born = rows[n].born
        /\ rows[n].rev > 0 /\ ~(rows'[n].rev > 0) => n \in Named
        /\ ~(rows[n].rev > 0) /\ rows'[n].rev > 0 => n \notin Named
<1>0. NotesTyped /\ rows[n].rev \in Nat
  BY NotesAreTyped, RowIs, BoundsAreNatural
<1>1. CASE Quiet
  BY <1>1 DEF Quiet, noteVars
<1>2. CASE Saves
  <2>1. PICK m \in Notes, text \in Texts, born \in 1..(Cardinality(Notes) + 1) :
          /\ rows[m].rev < MaxRevs
          /\ IF rows[m].rev = 0 THEN m \notin Named /\ born \in Stamps ELSE born = rows[m].born
          /\ Write(m, rows[m].rev + 1, text, born, rows[m].rev)
    BY <1>2 DEF Saves
  <2>2. rows[m].rev \in 0..MaxRevs /\ rows[m].rev + 1 \in 1..MaxRevs
    BY <2>1, RowIs, BoundsAreNatural
  <2>3. /\ rows'[m] = [rev |-> rows[m].rev + 1, text |-> text, born |-> born]
        /\ \A k \in Notes : k # m => rows'[k] = rows[k]
    <3> DEFINE base == rows[m].rev  rev == rows[m].rev + 1
    <3>1. base \in 0..MaxRevs /\ rev \in 1..MaxRevs /\ Write(m, rev, text, born, base)
      BY <2>1, <2>2
    <3> HIDE DEF base, rev
    <3>2. /\ rows'[m] = [rev |-> rev, text |-> text, born |-> born]
          /\ \A k \in Notes : k # m => rows'[k] = rows[k]
      BY <1>0, <3>1, WrittenIs, ZenonT(30)
    <3> QED BY <3>2 DEF rev
  <2>4. CASE n = m
    BY <2>1, <2>2, <2>3, <2>4
  <2>5. CASE n # m
    BY <2>3, <2>5
  <2> QED BY <2>4, <2>5
<1>3. CASE Removes
  <2>1. PICK m \in Notes : Ref(m, rows[m].rev) \in consented /\ Erase(m)
    BY <1>3 DEF Removes
  <2>2. rows'[m] = Absent /\ \A k \in Notes : k # m => rows'[k] = rows[k]
    BY <1>0, <2>1, ErasedIs
  <2>3. m \in Named
    BY <2>1 DEF Named, Ref
  <2>4. CASE n = m
    BY <2>2, <2>3, <2>4 DEF Absent
  <2>5. CASE n # m
    BY <2>2, <2>5
  <2> QED BY <2>4, <2>5
<1> QED BY <1>1, <1>2, <1>3

Walks ==
  \/ UNCHANGED noteVars /\ (pager' = pager \/ pager' = NoWalk)
  \/ \E list \in {"recent", "view"} : NextPage(list)
  \/ Paged
  \/ StaysThrough

LEMMA NextWalks ==
  ASSUME IInv, [Next]_vars
  PROVE Walks /\ consented \subseteq consented'
<1>1. ASSUME NEW n \in Notes, NEW text \in Texts, Remember(n, text)
      PROVE Walks /\ consented \subseteq consented'
  BY <1>1 DEF Remember, Begin, Walks, noteVars
<1>2. ASSUME NEW w \in Windows, RequestDelete(w) PROVE Walks /\ consented \subseteq consented'
  BY <1>2 DEF RequestDelete, Walks, noteVars
<1>3. ASSUME NEW w \in Windows, NEW n \in Notes, LoadNote(w, n)
      PROVE Walks /\ consented \subseteq consented'
  BY <1>3 DEF LoadNote, Begin, Walks, noteVars
<1>4. ASSUME NEW w \in Windows, NEW text \in Texts, UpdateNote(w, text)
      PROVE Walks /\ consented \subseteq consented'
  BY <1>4 DEF UpdateNote, Begin, Walks, noteVars
<1>5. ASSUME NEW list \in {"recent", "view"}, NextPage(list)
      PROVE Walks /\ consented \subseteq consented'
  <2>1. consented' = consented
    BY <1>5 DEF NextPage, Begin
  <2> QED BY <1>5, <2>1 DEF Walks
<1>6. CASE AnswerDelete \/ PromptEnds
  BY <1>6 DEF AnswerDelete, PromptEnds, Walks, noteVars
<1>7. CASE Commit
  BY <1>7 DEF Commit, Walks
<1>8. CASE Paged
  BY <1>8 DEF Paged, Walks
<1>9. CASE RollBack \/ Loaded \/ Asked
  BY <1>9 DEF RollBack, Loaded, Asked, Walks, noteVars, askVars
<1>10. ASSUME NEW n \in Notes, AskForget(n) PROVE Walks /\ consented \subseteq consented'
  BY <1>10 DEF AskForget, Begin, Walks, noteVars
<1>11. ASSUME NEW d \in Decisions, InsertDecision(d) \/ ApproveForget(d) \/ TimePasses(d)
       PROVE Walks /\ consented \subseteq consented'
  BY <1>11 DEF InsertDecision, ApproveForget, TimePasses, Walks, noteVars, askVars
<1>12. ASSUME NEW d \in Decisions, ExecuteForget(d) PROVE Walks /\ consented \subseteq consented'
  BY <1>12 DEF ExecuteForget, Walks
<1>13. CASE SessionEnds \/ Sweep \/ SweepFails \/ Lock \/ Die \/ Open_ \/ UNCHANGED vars
  BY <1>13 DEF SessionEnds, Sweep, SweepFails, Lock, Die, Open_, vars, Walks, noteVars, askVars
<1> QED BY <1>1, <1>2, <1>3, <1>4, <1>5, <1>6, <1>7, <1>8, <1>9, <1>10, <1>11, <1>12, <1>13 DEF Next

LEMMA NamedGrow ==
  ASSUME consented \subseteq consented' PROVE Named \subseteq Named'
BY DEF Named

LEMMA RestedWalk ==
  ASSUME IInv, UNCHANGED noteVars, consented \subseteq consented', pager' = pager \/ pager' = NoWalk
  PROVE PagerHolds'
<1>1. CASE pager' = pager
  <2>1. Named \subseteq Named'
    BY NamedGrow
  <2> QED BY <1>1, <2>1 DEF IInv, PagerHolds, Shown, Listed, noteVars
<1>2. CASE pager' = NoWalk
  <2>1. NoWalk \in Walk
    BY DEF NoWalk, Walk
  <2> QED BY <1>2, <2>1 DEF PagerHolds, Walk, NoWalk
<1> QED BY <1>1, <1>2

LEMMA BegunWalk ==
  ASSUME IInv, NEW list \in {"recent", "view"}, NextPage(list)
  PROVE PagerHolds'
<1>1. UNCHANGED noteVars /\ consented' = consented
  BY DEF NextPage, Begin
<1>2. CASE pager.at = "paging"
  <2>1. pager' = pager
    BY <1>2 DEF NextPage
  <2> QED BY <1>1, <2>1, RestedWalk
<1>3. CASE pager.at # "paging"
  <2> DEFINE owed == {n \in Present : list = "recent" \/ listed[n] = rows[n].rev}
  <2>1. pager' = [at |-> "paging", list |-> list, last |-> Cardinality(Notes) + 2,
                  shown |-> <<>>, through |-> owed]
    BY <1>3 DEF NextPage
  <2>2. Cardinality(Notes) \in Nat
    BY MadeOnce, FS_CardinalityType
  <2>3. pager' \in Walk
    BY <2>1, <2>2 DEF Walk, Present
  <2>4. \A n \in owed : rows[n].born < Cardinality(Notes) + 2 /\ rows[n].rev > 0
    BY RowIs DEF Present
  <2>5. \A n \in pager'.through : rows'[n].rev > 0 /\ Listed(n)'
    BY <1>1, <2>1, <2>4 DEF Listed, noteVars
  <2>6. \A n \in pager'.through : rows'[n].born < pager'.last
    BY <1>1, <2>1, <2>4 DEF noteVars
  <2>7. pager'.shown = <<>> /\ pager'.at = "paging"
    BY <2>1
  <2> QED BY <2>3, <2>5, <2>6, <2>7 DEF PagerHolds, Walk
<1> QED BY <1>2, <1>3

\* One page: the newest note behind the cursor is shown, and the cursor is
\* put on it unless it was the last.
LEMMA PagedWalk ==
  ASSUME IInv, Paged
  PROVE PagerHolds'
<1> DEFINE new == Newest(Rest)  cursor == Cursor(Rest)
<1>1. /\ pager \in Walk /\ pager.at = "paging"
      /\ \A n \in pager.through : rows[n].rev > 0 /\ Listed(n)
      /\ \A i, j \in DOMAIN pager.shown : pager.shown[i] = pager.shown[j] => i = j
      /\ \A n \in pager.through : Shown(n) \/ rows[n].born < pager.last
      /\ \A i \in DOMAIN pager.shown :
            IF rows[pager.shown[i]].rev > 0 THEN pager.last <= rows[pager.shown[i]].born
            ELSE pager.shown[i] \in Named
  BY DEF IInv, PagerHolds, RequestsHold, Paged, Walk
<1>2. UNCHANGED noteVars /\ consented' = consented
  BY DEF Paged
<1>3. pager' = [at |-> IF cursor = 0 THEN "done" ELSE pager.at,
                list |-> pager.list, last |-> cursor,
                shown |-> IF Rest = {} THEN pager.shown ELSE Append(pager.shown, new),
                through |-> pager.through]
  BY DEF Paged
<1>4. /\ IsFiniteSet(Rest) /\ Rest \in SUBSET Notes
      /\ Rest # {} => /\ new \in Notes /\ rows[new].rev > 0 /\ new \in Rest
                      /\ \A m \in Rest : rows[m].born <= rows[new].born
  BY RestIs
<1>5. \A m \in Rest : /\ rows[m].rev > 0 /\ rows[m].born < pager.last
                      /\ rows[m].born \in Nat /\ rows[m].born > 0 /\ m \in Present
  BY <1>4, RowIs DEF Rest, Present
<1>6. \A n \in pager.through : Shown(n) \/ n \in Rest
  BY <1>1 DEF Rest, Listed, Present, Walk
<1>7. cursor = (IF Cardinality(Rest) > 1 THEN rows[new].born ELSE 0)
  BY DEF Cursor
<1> HIDE DEF new, cursor
<1>8. CASE Rest = {}
  <2>1. cursor = 0
    BY <1>7, <1>8, FS_EmptySet
  <2>2. pager' = [at |-> "done", list |-> pager.list, last |-> 0, shown |-> pager.shown,
                  through |-> pager.through]
    BY <1>3, <1>8, <2>1
  <2>3. pager' \in Walk
    BY <1>1, <2>2 DEF Walk
  <2>4. \A n \in pager'.through : rows'[n].rev > 0 /\ Listed(n)'
    BY <1>1, <1>2, <2>2 DEF Listed, noteVars
  <2>5. \A n \in pager'.through : Shown(n)'
    BY <1>6, <1>8, <2>2 DEF Shown
  <2>6. pager'.shown = pager.shown /\ pager'.at = "done"
    BY <2>2
  <2> QED BY <1>1, <2>3, <2>4, <2>5, <2>6 DEF PagerHolds, Walk
<1>9. CASE Rest # {}
  <2>1. /\ new \in Notes /\ new \in Rest /\ rows[new].rev > 0
        /\ rows[new].born \in Nat /\ rows[new].born > 0 /\ rows[new].born < pager.last
        /\ \A m \in Rest : rows[m].born <= rows[new].born
    BY <1>4, <1>5, <1>9
  <2>2. pager.shown \in Seq(Notes) /\ pager.last \in Nat
    BY <1>1 DEF Walk
  <2>3. \A i \in DOMAIN pager.shown : pager.shown[i] # new
    BY <1>1, <2>1, <2>2
  <2> DEFINE shown == Append(pager.shown, new)
  <2>4. /\ shown \in Seq(Notes)
        /\ DOMAIN shown = DOMAIN pager.shown \cup {Len(pager.shown) + 1}
        /\ shown[Len(pager.shown) + 1] = new
        /\ \A i \in DOMAIN pager.shown : shown[i] = pager.shown[i]
    BY <2>1, <2>2
  <2>5. cursor \in Nat /\ pager'.shown = shown /\ pager'.through = pager.through
        /\ pager'.last = cursor /\ pager'.list = pager.list
        /\ pager'.at = IF cursor = 0 THEN "done" ELSE "paging"
    BY <1>1, <1>3, <1>7, <1>9, <2>1
  <2>6. pager' \in Walk
    <3>1. pager' = [at |-> IF cursor = 0 THEN "done" ELSE "paging", list |-> pager.list,
                    last |-> cursor, shown |-> shown, through |-> pager.through]
      BY <1>1, <1>3, <1>9
    <3>2. pager.list \in {"none", "recent", "view"} /\ pager.through \in SUBSET Notes
      BY <1>1 DEF Walk
    <3> HIDE DEF shown
    <3> QED BY <2>4, <2>5, <3>1, <3>2 DEF Walk
  <2> HIDE DEF shown
  <2>7. \A n \in pager'.through : rows'[n].rev > 0 /\ Listed(n)'
    BY <1>1, <1>2, <2>5 DEF Listed, noteVars
  <2>8. \A i, j \in DOMAIN pager'.shown : pager'.shown[i] = pager'.shown[j] => i = j
    BY <1>1, <2>3, <2>4, <2>5
  <2>9. \A n \in Notes : Shown(n) \/ n = new => Shown(n)'
    BY <2>4, <2>5 DEF Shown
  <2>10. ASSUME pager'.at = "paging"
         PROVE /\ \A n \in pager'.through : Shown(n)' \/ rows'[n].born < pager'.last
               /\ \A i \in DOMAIN pager'.shown :
                    IF rows'[pager'.shown[i]].rev > 0
                    THEN pager'.last <= rows'[pager'.shown[i]].born
                    ELSE pager'.shown[i] \in Named'
    <3>1. cursor = rows[new].born
      BY <1>7, <2>5, <2>10
    <3>2. ASSUME NEW n \in pager'.through PROVE Shown(n)' \/ rows'[n].born < pager'.last
      <4>1. n \in Notes /\ n \in pager.through
        BY <1>1, <2>5, <3>2 DEF Walk
      <4>2. CASE Shown(n) \/ n = new
        BY <2>9, <4>1, <4>2
      <4>3. CASE n # new /\ n \in Rest
        <5>1. rows[n].born # rows[new].born
          BY <1>5, <2>1, <4>3 DEF IInv, NotesHold
        <5>2. rows[n].born < rows[new].born
          BY <1>5, <2>1, <4>3, <5>1
        <5> QED BY <1>2, <2>5, <3>1, <5>2 DEF noteVars
      <4> QED BY <1>6, <4>1, <4>2, <4>3
    <3>3. ASSUME NEW i \in DOMAIN pager'.shown
          PROVE IF rows'[pager'.shown[i]].rev > 0
                THEN pager'.last <= rows'[pager'.shown[i]].born
                ELSE pager'.shown[i] \in Named'
      <4>1. rows' = rows /\ Named' = Named
        BY <1>2 DEF noteVars, Named
      <4>2. CASE i \in DOMAIN pager.shown
        <5>1. pager'.shown[i] = pager.shown[i] /\ pager.shown[i] \in Notes
          BY <2>2, <2>4, <2>5, <4>2
        <5>2. rows[pager.shown[i]].rev > 0 => cursor <= rows[pager.shown[i]].born
          BY <1>1, <2>1, <2>2, <3>1, <4>2, <5>1, RowIs
        <5> QED BY <1>1, <2>5, <4>1, <4>2, <5>1, <5>2
      <4>3. CASE i = Len(pager.shown) + 1
        BY <2>1, <2>4, <2>5, <3>1, <4>1, <4>3
      <4> QED BY <2>4, <2>5, <4>2, <4>3
    <3> QED BY <3>2, <3>3
  <2>11. ASSUME pager'.at = "done", NEW n \in pager'.through PROVE Shown(n)'
    <3>1. n \in Notes /\ n \in pager.through
      BY <1>1, <2>5, <2>11 DEF Walk
    <3>2. ~(Cardinality(Rest) > 1)
      BY <1>7, <2>1, <2>5, <2>11
    <3>3. Cardinality(Rest) = 1
      BY <1>4, <1>9, <3>2, FS_EmptySet, FS_CardinalityType
    <3>4. Rest = {new}
      BY <1>4, <2>1, <3>3, FS_Singleton
    <3> QED BY <1>6, <2>9, <3>1, <3>4
  <2> QED BY <2>6, <2>7, <2>8, <2>10, <2>11 DEF PagerHolds, Walk
<1> QED BY <1>8, <1>9

\* Notes change under a walk: what it is owed can only become less, and what
\* it showed stays where it was or does not come back.
LEMMA StayedWalk ==
  ASSUME IInv, Saves \/ Removes \/ Quiet, StaysThrough, consented \subseteq consented'
  PROVE PagerHolds'
<1> DEFINE owed == {n \in pager.through :
                      rows'[n].rev > 0 /\ (pager.list = "recent" \/ listed'[n] = rows'[n].rev)}
<1>1. PagerHolds /\ pager \in Walk
  BY DEF IInv, PagerHolds, Walk
<1>2. pager' = [pager EXCEPT !.through = owed]
  BY DEF StaysThrough
<1>3. owed \subseteq pager.through /\ \A n \in owed : n \in Notes
  BY <1>1 DEF Walk
<1>4. /\ pager'.at = pager.at /\ pager'.list = pager.list /\ pager'.last = pager.last
      /\ pager'.shown = pager.shown /\ pager'.through = owed /\ pager' \in Walk
  BY <1>1, <1>2, <1>3 DEF Walk
<1>5. \A n \in owed : rows'[n].rev > 0 /\ Listed(n)'
  BY <1>4 DEF Listed
<1>6. \A n \in owed : rows[n].rev > 0 /\ rows'[n].born = rows[n].born
  BY <1>1, <1>3, <1>5, PlacesKept DEF PagerHolds
<1>7. Named \subseteq Named'
  BY NamedGrow
<1>8. ASSUME pager.at = "paging"
      PROVE /\ \A n \in owed : Shown(n)' \/ rows'[n].born < pager'.last
            /\ \A i \in DOMAIN pager'.shown :
                 IF rows'[pager'.shown[i]].rev > 0 THEN pager'.last <= rows'[pager'.shown[i]].born
                 ELSE pager'.shown[i] \in Named'
  <2>1. \A n \in owed : Shown(n) \/ rows[n].born < pager.last
    BY <1>1, <1>3, <1>8 DEF PagerHolds
  <2>2. \A n \in owed : Shown(n)' \/ rows'[n].born < pager'.last
    BY <1>4, <1>6, <2>1 DEF Shown
  <2>3. ASSUME NEW i \in DOMAIN pager.shown
        PROVE IF rows'[pager.shown[i]].rev > 0 THEN pager.last <= rows'[pager.shown[i]].born
              ELSE pager.shown[i] \in Named'
    <3>1. pager.shown[i] \in Notes
      BY <1>1 DEF Walk
    <3>2. IF rows[pager.shown[i]].rev > 0 THEN pager.last <= rows[pager.shown[i]].born
          ELSE pager.shown[i] \in Named
      BY <1>1, <1>8 DEF PagerHolds
    <3> QED BY <1>7, <3>1, <3>2, PlacesKept
  <2> QED BY <1>4, <2>2, <2>3
<1>9. pager.at = "done" => \A n \in owed : Shown(n)'
  BY <1>1, <1>3, <1>4 DEF PagerHolds, Shown
<1>10. \A i, j \in DOMAIN pager'.shown : pager'.shown[i] = pager'.shown[j] => i = j
  BY <1>1, <1>4 DEF PagerHolds
<1> HIDE DEF owed
<1> QED BY <1>4, <1>5, <1>8, <1>9, <1>10 DEF PagerHolds, Walk

LEMMA PagerStep ==
  ASSUME IInv, [Next]_vars
  PROVE PagerHolds'
BY NextSteps, NextWalks, RestedWalk, BegunWalk, PagedWalk, StayedWalk DEF Walks

-------------------------------------------------------------------------------
(* What the owner is shown and asked.                                      *)

AsksTyped == /\ editor \in [Windows -> Refs] /\ prompt \in Refs /\ consented \subseteq Refs
             /\ live \in BOOLEAN /\ sweeper \in {"ok", "failed"} /\ up \in BOOLEAN

Shows == \/ editor' = editor
         \/ \E w \in Windows, n \in Notes, rev \in 1..MaxRevs :
              editor' = [editor EXCEPT ![w] = Ref(n, rev)]

Prompts == \/ prompt' = prompt \/ prompt' = NoNote
           \/ \E w \in Windows : editor[w] # NoNote /\ prompt' = editor[w]

LEMMA AskedOfOwner ==
  ASSUME IInv, Shows, Prompts, consented' \subseteq Refs, live' \in BOOLEAN,
         sweeper' \in {"ok", "failed"}, up' \in BOOLEAN
  PROVE AsksTyped' /\ EditorsHold'
<1>1. AsksTyped /\ EditorsHold
  BY DEF IInv, TypeOK, AsksTyped
<1>2. editor' \in [Windows -> Refs] /\
      \A w \in Windows : editor'[w] # NoNote => editor'[w].note \in Notes /\ editor'[w].rev > 0
  <2>1. CASE editor' = editor
    BY <1>1, <2>1 DEF AsksTyped, EditorsHold
  <2>2. CASE \E w \in Windows, n \in Notes, rev \in 1..MaxRevs :
               editor' = [editor EXCEPT ![w] = Ref(n, rev)]
    <3>1. PICK w \in Windows, n \in Notes, rev \in 1..MaxRevs :
            editor' = [editor EXCEPT ![w] = Ref(n, rev)]
      BY <2>2
    <3>2. Ref(n, rev) \in Refs /\ Ref(n, rev).note \in Notes /\ Ref(n, rev).rev > 0
      BY BoundsAreNatural DEF Refs, Ref
    <3> QED BY <1>1, <3>1, <3>2 DEF AsksTyped, EditorsHold
  <2> QED BY <2>1, <2>2 DEF Shows
<1>3. prompt' \in Refs /\ (prompt' # NoNote => prompt'.note \in Notes /\ prompt'.rev > 0)
  BY <1>1, RefsAre DEF Prompts, AsksTyped, EditorsHold
<1> QED BY <1>2, <1>3 DEF AsksTyped, EditorsHold

LEMMA AsksStep ==
  ASSUME IInv, [Next]_vars
  PROVE AsksTyped' /\ EditorsHold'
<1>0. AsksTyped
  BY DEF IInv, TypeOK, AsksTyped
<1> DEFINE Still == /\ Shows /\ Prompts /\ consented' \subseteq Refs /\ live' \in BOOLEAN
                    /\ sweeper' \in {"ok", "failed"} /\ up' \in BOOLEAN
<1> SUFFICES Still
  BY AskedOfOwner
<1>1. ASSUME NEW request, Begin(request), UNCHANGED <<editor, prompt>> PROVE Still
  BY <1>0, <1>1 DEF Begin, forgetVars, Shows, Prompts, AsksTyped
<1>2. ASSUME NEW n \in Notes, NEW text \in Texts, Remember(n, text) PROVE Still
  BY <1>1, <1>2 DEF Remember
<1>3. ASSUME NEW w \in Windows, RequestDelete(w) PROVE Still
  <2>1. /\ UNCHANGED <<editor, consented, live, sweeper, up>>
        /\ editor[w] # NoNote /\ (prompt' = editor[w] \/ prompt' = prompt)
    BY <1>3 DEF RequestDelete, forgetVars
  <2> QED BY <1>0, <2>1 DEF Shows, Prompts, AsksTyped
<1>4. ASSUME NEW w \in Windows, NEW n \in Notes, LoadNote(w, n) PROVE Still
  BY <1>1, <1>4 DEF LoadNote
<1>5. ASSUME NEW w \in Windows, NEW text \in Texts, UpdateNote(w, text) PROVE Still
  BY <1>1, <1>5 DEF UpdateNote
<1>6. ASSUME NEW list, NextPage(list) PROVE Still
  BY <1>1, <1>6 DEF NextPage
<1>7. CASE AnswerDelete
  BY <1>0, <1>7 DEF AnswerDelete, forgetVars, Shows, Prompts, AsksTyped
<1>8. CASE PromptEnds
  BY <1>0, <1>8 DEF PromptEnds, forgetVars, Shows, Prompts, AsksTyped
<1>9. CASE Commit
  <2>1. UNCHANGED <<prompt, consented, live, sweeper, up>>
    BY <1>9 DEF Commit, forgetVars
  <2>2. Shows
    <3>1. CASE pend.op # "update"
      BY <1>9, <3>1 DEF Commit, Shows
    <3>2. CASE pend.op = "update"
      <4> DEFINE n == pend.note
      <4>1. pend.window \in Windows /\ n \in Notes /\ pend.expected \in 1..MaxRevs
        BY <3>2, BusyOp, RequestIs
      <4>2. rows[n].rev = pend.expected /\ pend.expected < MaxRevs
        BY <1>9, <3>2 DEF Commit, Accepts
      <4>3. rows'[n].rev = rows[n].rev + 1 \/ rows'[n].rev = rows[n].rev
        <5>1. CASE rows' = rows
          BY <5>1
        <5>2. CASE Write(n, rows[n].rev + 1, pend.text, rows[n].born, pend.expected)
          BY <4>1, <5>2, NotesAreTyped DEF Write, NotesTyped
        <5> QED BY <1>9, <3>2, <5>1, <5>2 DEF Commit, noteVars
      <4>4. rows'[n].rev \in 1..MaxRevs
        BY <4>1, <4>2, <4>3, BoundsAreNatural
      <4>5. editor' = [editor EXCEPT ![pend.window] = Ref(n, rows'[n].rev)]
        BY <1>9, <3>2 DEF Commit
      <4> QED BY <4>1, <4>4, <4>5 DEF Shows
    <3> QED BY <3>1, <3>2
  <2> QED BY <1>0, <2>1, <2>2 DEF Prompts, AsksTyped
<1>10. CASE Loaded
  <2>1. UNCHANGED <<prompt, consented, live, sweeper, up>>
    BY <1>10 DEF Loaded, forgetVars
  <2>2. pend.op = "load" /\ rows[pend.note].rev > 0
    BY <1>10 DEF Loaded
  <2>3. pend.window \in Windows /\ pend.note \in Notes
    BY <2>2, BusyOp, RequestIs
  <2>4. rows[pend.note].rev \in 1..MaxRevs
    BY <2>2, <2>3, RowIs, BoundsAreNatural
  <2>5. editor' = [editor EXCEPT ![pend.window] = Ref(pend.note, rows[pend.note].rev)]
    BY <1>10 DEF Loaded
  <2>6. Shows
    BY <2>3, <2>4, <2>5 DEF Shows
  <2> QED BY <1>0, <2>1, <2>6 DEF Prompts, AsksTyped
<1>11. CASE RollBack \/ Paged \/ Asked
  BY <1>0, <1>11 DEF RollBack, Paged, Asked, askVars, forgetVars, Shows, Prompts, AsksTyped
<1>12. ASSUME NEW n \in Notes, AskForget(n) PROVE Still
  BY <1>1, <1>12 DEF AskForget
<1>13. ASSUME NEW d \in Decisions, ApproveForget(d) PROVE Still
  <2>1. decision[d] # NoDecision
    BY <1>13 DEF ApproveForget, NoDecision
  <2>2. Ref(decision[d].note, decision[d].rev) \in Refs
    BY <2>1, DecisionIs, RefsAre, BoundsAreNatural
  <2>3. UNCHANGED <<editor, prompt, live, sweeper, up>> /\
        consented' = consented \cup {Ref(decision[d].note, decision[d].rev)}
    BY <1>13 DEF ApproveForget
  <2> QED BY <1>0, <2>2, <2>3 DEF Shows, Prompts, AsksTyped
<1>14. ASSUME NEW d \in Decisions, InsertDecision(d) \/ ExecuteForget(d) \/ TimePasses(d) PROVE Still
  BY <1>0, <1>14 DEF InsertDecision, ExecuteForget, TimePasses, askVars, Shows, Prompts, AsksTyped
<1>15. CASE SessionEnds \/ Sweep \/ SweepFails \/ Open_ \/ UNCHANGED vars
  BY <1>0, <1>15 DEF SessionEnds, Sweep, SweepFails, Open_, vars, askVars, forgetVars,
     Shows, Prompts, AsksTyped
<1>16. CASE Lock \/ Die
  BY <1>0, <1>16 DEF Lock, Die, Shows, Prompts, AsksTyped
<1> QED
  BY <1>2, <1>3, <1>4, <1>5, <1>6, <1>7, <1>8, <1>9, <1>10, <1>11, <1>12, <1>13, <1>14, <1>15, <1>16
     DEF Next

-------------------------------------------------------------------------------
(* The request being carried out.                                          *)

LEMMA NoneWaits ==
  ASSUME pend' = NoRequest
  PROVE RequestsHold'
BY DEF RequestsHold, NoRequest

LEMMA WaitsStill ==
  ASSUME IInv, UNCHANGED <<noteVars, audit, pend, consented, pager, up>>
  PROVE RequestsHold'
BY DEF IInv, RequestsHold, Named, noteVars

LEMMA Begun ==
  ASSUME IInv, NEW request \in Request, request.event = NewEvent,
         up, audit' = Authorized(request.op), pend' = request, UNCHANGED noteVars, up',
         request.op = "remember" => rows[request.note].rev = 0 /\ request.note \notin Named',
         request.op = "delete" => Ref(request.note, request.expected) \in consented',
         request.op = "page" => pager'.at = "paging"
  PROVE RequestsHold'
<1>1. audit \in Seq(LogRow) /\ request.op \in Operations
  BY DEF IInv, TypeOK, LogRow, Request, Operations
<1> DEFINE row == [op |-> request.op, outcome |-> "authorized", ref |-> NoNote]
<1>2. row \in LogRow /\ audit' = Append(audit, row)
  BY <1>1, RefsAre DEF LogRow, Outcomes, Authorized
<1>3. NewEvent \in DOMAIN audit' /\ audit'[NewEvent] = row
  <2> HIDE DEF row
  <2> QED BY <1>1, <1>2, LogAppended DEF NewEvent
<1>4. audit'[pend'.event].op = pend'.op /\ audit'[pend'.event].outcome = "authorized"
  BY <1>3
<1>5. rows' = rows
  BY DEF noteVars
<1> QED BY <1>3, <1>4, <1>5 DEF RequestsHold

LEMMA RequestsStep ==
  ASSUME IInv, [Next]_vars
  PROVE RequestsHold'
<1>0. audit \in Seq(LogRow) /\ NewEvent \in Nat /\ EditorsHold /\ AsksTyped
  BY DEF IInv, TypeOK, LogRow, NewEvent, AsksTyped
<1>1. ASSUME NEW request \in Request, request.event = NewEvent, Begin(request),
             request.op = "remember" => rows[request.note].rev = 0 /\ request.note \notin Named,
             request.op # "delete", request.op = "page" => pager'.at = "paging"
      PROVE RequestsHold'
  <2>1. /\ up /\ up' /\ audit' = Authorized(request.op) /\ pend' = request
        /\ UNCHANGED noteVars /\ consented' = consented
    BY <1>1 DEF Begin, Admitted, Idle
  <2>2. Named' = Named
    BY <2>1 DEF Named
  <2> QED BY <1>1, <2>1, <2>2, Begun
<1>2. ASSUME NEW n \in Notes, NEW text \in Texts, Remember(n, text) PROVE RequestsHold'
  <2> DEFINE request == [op |-> "remember", note |-> n, text |-> text, event |-> NewEvent]
  <2>1. request \in Request
    BY <1>0 DEF Request
  <2>2. Begin(request) /\ rows[n].rev = 0 /\ n \notin Named
    BY <1>2 DEF Remember, Named
  <2>3. request.event = NewEvent /\ request.op = "remember" /\ request.note = n
    OBVIOUS
  <2> HIDE DEF request
  <2> QED BY <1>1, <2>1, <2>2, <2>3
<1>3. ASSUME NEW w \in Windows, NEW n \in Notes, LoadNote(w, n) PROVE RequestsHold'
  <2> DEFINE request == [op |-> "load", window |-> w, note |-> n, event |-> NewEvent]
  <2>1. request \in Request
    BY <1>0 DEF Request
  <2>2. Begin(request) /\ request.event = NewEvent /\ request.op = "load"
    BY <1>3 DEF LoadNote
  <2> HIDE DEF request
  <2> QED BY <1>1, <2>1, <2>2
<1>4. ASSUME NEW w \in Windows, NEW text \in Texts, UpdateNote(w, text) PROVE RequestsHold'
  <2> DEFINE request == [op |-> "update", window |-> w, note |-> editor[w].note,
                         expected |-> editor[w].rev, text |-> text, event |-> NewEvent]
  <2>1. editor[w] # NoNote /\ editor[w] \in Refs
    BY <1>0, <1>4 DEF UpdateNote, AsksTyped
  <2>2. editor[w].note \in Notes /\ editor[w].rev \in 1..MaxRevs
    BY <1>0, <2>1, BoundsAreNatural DEF EditorsHold, Refs
  <2>3. request \in Request
    BY <1>0, <2>2 DEF Request
  <2>4. Begin(request) /\ request.event = NewEvent /\ request.op = "update"
    BY <1>4 DEF UpdateNote
  <2> HIDE DEF request
  <2> QED BY <1>1, <2>3, <2>4
<1>5. ASSUME NEW list \in {"recent", "view"}, NextPage(list) PROVE RequestsHold'
  <2> DEFINE request == [op |-> "page", event |-> NewEvent]
  <2>1. request \in Request
    BY <1>0 DEF Request
  <2>2. Begin(request) /\ request.event = NewEvent /\ request.op = "page" /\ pager'.at = "paging"
    BY <1>5 DEF NextPage
  <2> HIDE DEF request
  <2> QED BY <1>1, <2>1, <2>2
<1>6. ASSUME NEW n \in Notes, AskForget(n) PROVE RequestsHold'
  <2> DEFINE request == [op |-> "forget", note |-> n, inserted |-> NoNote, event |-> NewEvent]
  <2>1. request \in Request
    BY <1>0, RefsAre DEF Request
  <2>2. Begin(request) /\ request.event = NewEvent /\ request.op = "forget"
    BY <1>6 DEF AskForget
  <2> HIDE DEF request
  <2> QED BY <1>1, <2>1, <2>2
<1>7. CASE AnswerDelete
  <2>1. /\ up /\ up' /\ UNCHANGED noteVars /\ pend = NoRequest /\ prompt # NoNote
        /\ consented' = consented \cup {prompt}
    BY <1>7 DEF AnswerDelete, Admitted, Idle
  <2>2. prompt.note \in Notes /\ prompt.rev \in 1..MaxRevs /\ Ref(prompt.note, prompt.rev) = prompt
    BY <1>0, <2>1, BoundsAreNatural DEF EditorsHold, AsksTyped, Refs, Ref
  <2>3. CASE UNCHANGED pend
    BY <2>1, <2>3, NoneWaits
  <2>4. CASE ~UNCHANGED pend
    <3> DEFINE request == [op |-> "delete", note |-> prompt.note, expected |-> prompt.rev,
                           event |-> NewEvent]
    <3>1. request \in Request
      BY <1>0, <2>2 DEF Request
    <3>2. audit' = Authorized(request.op) /\ pend' = request
      BY <1>7, <2>4 DEF AnswerDelete
    <3>3. request.event = NewEvent /\ request.op = "delete" /\
          Ref(request.note, request.expected) \in consented'
      BY <2>1, <2>2
    <3> HIDE DEF request
    <3> QED BY <2>1, <3>1, <3>2, <3>3, Begun
  <2> QED BY <2>3, <2>4
<1>8. CASE Commit \/ RollBack \/ Loaded \/ Paged \/ Asked \/ Die
  BY <1>8, NoneWaits DEF Commit, RollBack, Loaded, Paged, Asked, Die
<1>9. CASE PromptEnds \/ SessionEnds \/ UNCHANGED vars
  BY <1>9, WaitsStill DEF PromptEnds, SessionEnds, vars, askVars
<1>10. ASSUME NEW d \in Decisions, TimePasses(d) PROVE RequestsHold'
  BY <1>10, WaitsStill DEF TimePasses, askVars
<1>11. ASSUME NEW d \in Decisions, ApproveForget(d) \/ ExecuteForget(d) PROVE RequestsHold'
  BY <1>11, NoneWaits DEF ApproveForget, ExecuteForget, Idle
<1>12. ASSUME NEW w \in Windows, RequestDelete(w) PROVE RequestsHold'
  BY <1>12, NoneWaits DEF RequestDelete, Admitted, Idle
<1>13. CASE Sweep \/ SweepFails \/ Lock
  BY <1>13, NoneWaits DEF Sweep, SweepFails, Lock, Idle
<1>14. CASE Open_
  <2>1. pend = NoRequest /\ pend' = pend
    BY <1>14 DEF Open_, IInv, RequestsHold
  <2> QED BY <2>1, NoneWaits
<1>15. ASSUME NEW d \in Decisions, InsertDecision(d) PROVE RequestsHold'
  <2> DEFINE ref == Ref(pend.note, rows[pend.note].rev)
  <2>1. /\ pend.op = "forget" /\ pend' = [pend EXCEPT !.inserted = ref]
        /\ UNCHANGED <<noteVars, audit, consented, pager, up>>
    BY <1>15 DEF InsertDecision, askVars
  <2>2. pend # NoRequest /\ pend.note \in Notes
    BY <2>1, BusyOp, RequestIs
  <2>3. ref \in Refs
    BY <2>2, RowIs, RefsAre
  <2>4. pend \in [op : {"forget"}, note : Notes, inserted : Refs, event : Nat]
    BY <2>1, <2>2 DEF IInv, RequestsHold, Request
  <2> HIDE DEF ref
  <2>5. pend' \in [op : {"forget"}, note : Notes, inserted : Refs, event : Nat]
        /\ pend'.op = "forget" /\ pend'.event = pend.event
    BY <2>1, <2>3, <2>4
  <2>6. pend' \in Request
    BY <2>5 DEF Request
  <2> QED BY <2>1, <2>2, <2>5, <2>6 DEF IInv, RequestsHold
<1> QED BY <1>2, <1>3, <1>4, <1>5, <1>6, <1>7, <1>8, <1>9, <1>10, <1>11, <1>12, <1>13, <1>14, <1>15
        DEF Next

-------------------------------------------------------------------------------
(* Decisions and their rows of the log.                                    *)

Decision == [status : Statuses, note : Notes, rev : 1..MaxRevs, event : 1..MaxEvents,
             due : BOOLEAN, locked : BOOLEAN]
DecisionsTyped == decision \in [Decisions -> {NoDecision} \cup Decision]

LEMMA DecisionsAreTyped ==
  ASSUME IInv
  PROVE DecisionsTyped /\ \A d \in Decisions : DecisionHolds(d)
BY DEF IInv, TypeOK, DecisionsTyped, Decision, Statuses

\* A decision keeps what it was asked for.
Same(d) == /\ (decision'[d] = NoDecision) <=> (decision[d] = NoDecision)
           /\ decision'[d].event = decision[d].event
           /\ decision'[d].note = decision[d].note /\ decision'[d].rev = decision[d].rev

\* What a decision says is what its row of the log says.
Tells(d) ==
  LET row == audit[decision[d].event] IN
    /\ decision[d].status \in {"untold", "pending", "approved"} => row.outcome # "success"
    /\ decision[d].status = "consumed" =>
         row.outcome = "success" /\ row.ref = Ref(decision[d].note, decision[d].rev)
    /\ decision[d].status = "expired" =>
         IF decision[d].locked THEN row.outcome # "success" ELSE row.outcome = "error"
    /\ decision[d].locked => decision[d].status = "expired"
    /\ decision[d].status = "approved" => Ref(decision[d].note, decision[d].rev) \in consented
    /\ pend.op = "forget" /\ pend.event = decision[d].event =>
         decision[d].status = "untold" /\ pend.inserted # NoNote

LEMMA DecisionKept ==
  ASSUME IInv, LogKept, \A c \in Decisions : Same(c), NEW d \in Decisions,
         decision[d] # NoDecision => Tells(d)'
  PROVE DecisionHolds(d)'
<1> SUFFICES ASSUME decision'[d] # NoDecision PROVE DecisionHolds(d)'
  BY DEF DecisionHolds
<1>1. decision[d] # NoDecision
  BY DEF Same
<1>2. decision[d].event \in DOMAIN audit /\ audit[decision[d].event].op = "forget"
      /\ \A c \in Decisions : decision[c].event = decision[d].event => c = d
  BY <1>1, DecisionIs DEF DecisionHolds
<1>3. \A c \in Decisions : decision'[c].event = decision[c].event
  BY DEF Same
<1>4. decision'[d].event \in DOMAIN audit' /\ audit'[decision'[d].event].op = "forget"
  BY <1>2, <1>3 DEF LogKept
<1>5. \A c \in Decisions : decision'[c].event = decision'[d].event => c = d
  BY <1>2, <1>3
<1>6. Tells(d)'
  BY <1>1
<1> QED BY <1>4, <1>5, <1>6 DEF DecisionHolds, Tells

LEMMA DecisionTells ==
  ASSUME IInv, NEW d \in Decisions, decision[d] # NoDecision
  PROVE Tells(d)
BY DecisionIs DEF DecisionHolds, Tells

\* A step that is not about decisions leaves them and their rows alone.
Untouched(d) == LET e == decision[d].event IN
                  audit'[e] = audit[e] /\ (pend'.op = "forget" /\ pend'.event = e => pend' = pend)

LEMMA Aside ==
  ASSUME IInv, LogKept, decision' = decision, consented \subseteq consented',
         \A d \in Decisions : decision[d] # NoDecision => Untouched(d)
  PROVE DecisionsTyped' /\ \A d \in Decisions : DecisionHolds(d)'
<1>1. \A d \in Decisions : Same(d)
  BY DEF Same
<1>2. ASSUME NEW d \in Decisions, decision[d] # NoDecision PROVE Tells(d)'
  <2>1. Tells(d) /\ Untouched(d)
    BY <1>2, DecisionTells
  <2> QED BY <2>1 DEF Tells, Untouched
<1> QED BY <1>1, <1>2, DecisionsAreTyped, DecisionKept DEF DecisionsTyped

LEMMA AppendAside ==
  ASSUME IInv, NEW row \in LogRow, audit' = Append(audit, row),
         pend' = pend \/ pend'.op # "forget" \/ pend'.event = NewEvent,
         NEW d \in Decisions, decision[d] # NoDecision
  PROVE Untouched(d)
<1>1. decision[d].event \in DOMAIN audit /\ audit \in Seq(LogRow)
  BY DecisionIs DEF IInv, TypeOK, LogRow
<1>2. audit'[decision[d].event] = audit[decision[d].event] /\ decision[d].event # NewEvent
  BY <1>1, LogAppended DEF NewEvent
<1> QED BY <1>2 DEF Untouched

\* The row of another request is not that of a decision.
LEMMA MarkAside ==
  ASSUME IInv, pend # NoRequest, pend.op # "forget", NEW outcome, NEW ref,
         audit' = audit \/ audit' = Recorded(audit, pend.event, outcome, ref),
         pend' = NoRequest, NEW d \in Decisions, decision[d] # NoDecision
  PROVE Untouched(d)
<1>1. decision[d].event \in DOMAIN audit /\ audit[decision[d].event].op = "forget"
  BY DecisionIs
<1>2. audit[pend.event].op # "forget"
  BY RequestIs
<1>3. audit'[decision[d].event] = audit[decision[d].event]
  BY <1>1, <1>2 DEF Recorded
<1>4. pend'.op # "forget"
  BY DEF NoRequest
<1> QED BY <1>3, <1>4 DEF Untouched

\* The steps that are not about decisions.
LEMMA OtherSteps ==
  ASSUME IInv, LogKept, consented \subseteq consented',
         \/ \E n \in Notes, text \in Texts : Remember(n, text)
         \/ \E w \in Windows : RequestDelete(w) \/ (\E n \in Notes : LoadNote(w, n))
                               \/ (\E text \in Texts : UpdateNote(w, text))
         \/ \E list \in {"recent", "view"} : NextPage(list)
         \/ AnswerDelete \/ PromptEnds \/ Commit \/ RollBack \/ Loaded \/ Paged
         \/ \E n \in Notes : AskForget(n)
         \/ SessionEnds \/ SweepFails \/ Die \/ UNCHANGED vars
  PROVE DecisionsTyped' /\ \A d \in Decisions : DecisionHolds(d)'
<1> SUFFICES decision' = decision /\
             \A d \in Decisions : decision[d] # NoDecision => Untouched(d)
  BY Aside
<1>1. ASSUME NEW request, request.op \in Operations, request.event = NewEvent, Begin(request)
      PROVE decision' = decision /\ \A d \in Decisions : decision[d] # NoDecision => Untouched(d)
  <2>1. [op |-> request.op, outcome |-> "authorized", ref |-> NoNote] \in LogRow
    BY <1>1, RefsAre DEF LogRow, Outcomes
  <2>2. pend'.event = NewEvent /\ decision' = decision
    BY <1>1 DEF Begin, forgetVars
  <2> QED BY <1>1, <2>1, <2>2, AppendAside DEF Begin, Authorized
<1>2. ASSUME NEW n \in Notes, NEW text \in Texts, Remember(n, text)
      PROVE decision' = decision /\ \A d \in Decisions : decision[d] # NoDecision => Untouched(d)
  BY <1>1, <1>2 DEF Remember, Operations
<1>3. ASSUME NEW w \in Windows, NEW n \in Notes, LoadNote(w, n)
      PROVE decision' = decision /\ \A d \in Decisions : decision[d] # NoDecision => Untouched(d)
  BY <1>1, <1>3 DEF LoadNote, Operations
<1>4. ASSUME NEW w \in Windows, NEW text \in Texts, UpdateNote(w, text)
      PROVE decision' = decision /\ \A d \in Decisions : decision[d] # NoDecision => Untouched(d)
  BY <1>1, <1>4 DEF UpdateNote, Operations
<1>5. ASSUME NEW list, NextPage(list)
      PROVE decision' = decision /\ \A d \in Decisions : decision[d] # NoDecision => Untouched(d)
  BY <1>1, <1>5 DEF NextPage, Operations
<1>6. ASSUME NEW n \in Notes, AskForget(n)
      PROVE decision' = decision /\ \A d \in Decisions : decision[d] # NoDecision => Untouched(d)
  BY <1>1, <1>6 DEF AskForget, Operations
<1>7. ASSUME decision' = decision, audit' = audit, pend' = pend \/ pend' = NoRequest
      PROVE decision' = decision /\ \A d \in Decisions : decision[d] # NoDecision => Untouched(d)
  BY <1>7 DEF Untouched, NoRequest
<1>8. ASSUME decision' = decision, NEW ref \in Refs,
             audit' = Append(audit, [op |-> "delete", outcome |-> "error", ref |-> ref]),
             pend' = pend
      PROVE decision' = decision /\ \A d \in Decisions : decision[d] # NoDecision => Untouched(d)
  <2>1. [op |-> "delete", outcome |-> "error", ref |-> ref] \in LogRow
    BY DEF LogRow, Outcomes, Operations
  <2> QED BY <1>8, <2>1, AppendAside
<1>9. ASSUME NEW w \in Windows, RequestDelete(w)
      PROVE decision' = decision /\ \A d \in Decisions : decision[d] # NoDecision => Untouched(d)
  <2>1. editor[w] \in Refs /\ decision' = decision /\ pend' = pend
    BY <1>9 DEF IInv, TypeOK, RequestDelete, forgetVars
  <2> QED BY <1>7, <1>8, <1>9, <2>1 DEF RequestDelete
<1>10. CASE AnswerDelete
  <2>1. prompt \in Refs /\ decision' = decision
    BY <1>10 DEF IInv, TypeOK, AnswerDelete, forgetVars
  <2>2. CASE audit' = Authorized("delete") /\ pend'.event = NewEvent
    <3>1. [op |-> "delete", outcome |-> "authorized", ref |-> NoNote] \in LogRow
      BY RefsAre DEF LogRow, Outcomes, Operations
    <3> QED BY <2>1, <2>2, <3>1, AppendAside DEF Authorized
  <2> QED BY <1>8, <1>10, <2>1, <2>2 DEF AnswerDelete
<1>11. CASE PromptEnds \/ SessionEnds \/ SweepFails \/ Die \/ UNCHANGED vars
  BY <1>7, <1>11 DEF PromptEnds, SessionEnds, SweepFails, Die, vars, forgetVars
<1>12. ASSUME NEW outcome, NEW ref, pend.op \notin {"none", "forget"}, pend' = NoRequest,
              decision' = decision, audit' = audit \/ audit' = Recorded(audit, pend.event, outcome, ref)
       PROVE decision' = decision /\ \A d \in Decisions : decision[d] # NoDecision => Untouched(d)
  BY <1>12, BusyOp, MarkAside
<1>13. CASE Commit
  <2>1. pend.op \notin {"none", "forget"} /\ pend' = NoRequest /\ decision' = decision
    BY <1>13 DEF Commit, forgetVars
  <2>2. \E rev : Succeeds(rev)
    BY <1>13 DEF Commit
  <2> QED BY <1>12, <2>1, <2>2 DEF Succeeds
<1>14. CASE RollBack
  BY <1>12, <1>14 DEF RollBack, forgetVars
<1>15. CASE Loaded
  BY <1>12, <1>15 DEF Loaded, forgetVars
<1>16. CASE Paged
  <2>1. pend.op = "page" /\ pend' = NoRequest /\ decision' = decision
    BY <1>16 DEF Paged, forgetVars
  <2>2. \E ref : audit' = Recorded(audit, pend.event, "success", ref)
    BY <1>16 DEF Paged
  <2> QED BY <1>12, <2>1, <2>2
<1> QED BY <1>2, <1>3, <1>4, <1>5, <1>6, <1>9, <1>10, <1>11, <1>13, <1>14, <1>15, <1>16

LEMMA InsertStep ==
  ASSUME IInv, LogKept, NEW d \in Decisions, InsertDecision(d)
  PROVE DecisionsTyped' /\ \A c \in Decisions : DecisionHolds(c)'
<1> DEFINE ref == Ref(pend.note, rows[pend.note].rev)
           made == [status |-> "untold", note |-> pend.note, rev |-> rows[pend.note].rev,
                    event |-> pend.event, due |-> FALSE, locked |-> FALSE]
<1>1. /\ pend # NoRequest /\ pend.op = "forget" /\ pend.inserted = NoNote
      /\ rows[pend.note].rev > 0 /\ decision[d] = NoDecision
      /\ audit' = audit /\ consented' = consented
      /\ pend' = [pend EXCEPT !.inserted = ref]
      /\ decision' = [decision EXCEPT ![d] = made]
  BY DEF InsertDecision, askVars, NoRequest
<1>2. /\ pend.note \in Notes /\ pend.event \in DOMAIN audit
      /\ audit[pend.event].op = "forget" /\ audit[pend.event].outcome = "authorized"
  BY <1>1, RequestIs
<1>3. rows[pend.note].rev \in 1..MaxRevs
  BY <1>1, <1>2, RowIs, BoundsAreNatural
<1>4. pend.event \in 1..MaxEvents
  <2>1. Len(audit) <= MaxEvents /\ audit \in Seq(LogRow)
    BY DEF IInv, TypeOK, LogRow
  <2> QED BY <1>2, <2>1, BoundsAreNatural
<1>5. made \in Decision /\ made # NoDecision
  BY <1>2, <1>3, <1>4 DEF Decision, Statuses, NoDecision
<1>6. DecisionsTyped /\ \A c \in Decisions : DecisionHolds(c)
  BY DecisionsAreTyped
<1>7. ref # NoNote
  BY <1>3 DEF Ref, NoNote
<1>8. pend \in [op : {"forget"}, note : Notes, inserted : Refs, event : Nat]
  BY <1>1 DEF IInv, RequestsHold, Request
<1>9. pend'.op = "forget" /\ pend'.event = pend.event /\ pend'.inserted # NoNote
  BY <1>1, <1>7, <1>8
<1>10. decision'[d] = made /\ \A c \in Decisions : c # d => decision'[c] = decision[c]
  BY <1>1, <1>6 DEF DecisionsTyped
<1>11. made.event = pend.event /\ made.status = "untold" /\ ~made.locked
  OBVIOUS
<1>12. DecisionsTyped'
  <2> HIDE DEF made
  <2> QED BY <1>1, <1>5, <1>6 DEF DecisionsTyped
<1> HIDE DEF made, ref
\* No decision was asked for with this request before.
<1>13. \A c \in Decisions : decision[c].event # pend.event
  <2> SUFFICES ASSUME NEW c \in Decisions, decision[c].event = pend.event PROVE FALSE
    OBVIOUS
  <2>1. decision[c] # NoDecision
    BY <1>4 DEF NoDecision
  <2> QED BY <1>1, <1>6, <2>1 DEF DecisionHolds
<1>14. DecisionHolds(d)'
  BY <1>1, <1>2, <1>9, <1>10, <1>11, <1>13 DEF DecisionHolds
<1>15. ASSUME NEW c \in Decisions, c # d PROVE DecisionHolds(c)'
  <2> SUFFICES ASSUME decision'[c] # NoDecision PROVE DecisionHolds(c)'
    BY DEF DecisionHolds
  <2>1. decision'[c] = decision[c] /\ decision[c] # NoDecision
    BY <1>10, <1>15
  <2>2. DecisionHolds(c) /\ Tells(c)
    BY <1>6, <2>1, DecisionTells
  <2>3. decision'[c].event # pend.event
    BY <1>13, <2>1
  <2>4. \A b \in Decisions : decision'[b].event = decision'[c].event => b = c
    <3> SUFFICES ASSUME NEW b \in Decisions, decision'[b].event = decision'[c].event PROVE b = c
      OBVIOUS
    <3>1. CASE b = d
      BY <1>10, <1>11, <2>3, <3>1
    <3>2. CASE b # d
      BY <1>10, <2>1, <2>2, <3>2 DEF DecisionHolds
    <3> QED BY <3>1, <3>2
  <2>5. Tells(c)'
    BY <1>1, <1>9, <2>1, <2>2, <2>3 DEF Tells
  <2>6. decision'[c].event \in DOMAIN audit' /\ audit'[decision'[c].event].op = "forget"
    BY <1>1, <2>1, <2>2 DEF DecisionHolds
  <2> QED BY <2>4, <2>5, <2>6 DEF DecisionHolds, Tells
<1> QED BY <1>12, <1>14, <1>15

\* One decision becomes something else, and its row of the log with it.
LEMMA OneRestated ==
  ASSUME IInv, LogKept, NEW d \in Decisions, decision[d] # NoDecision,
         NEW status \in Statuses, NEW due \in BOOLEAN,
         decision' = [decision EXCEPT ![d] = [status |-> status, note |-> @.note, rev |-> @.rev,
                                             event |-> @.event, due |-> due,
                                             locked |-> decision[d].locked]],
         consented \subseteq consented', pend' = pend,
         \A x \in DOMAIN audit : x # decision[d].event => audit'[x] = audit[x],
         Tells(d)'
  PROVE DecisionsTyped' /\ \A c \in Decisions : DecisionHolds(c)'
<1> DEFINE new == [status |-> status, note |-> decision[d].note, rev |-> decision[d].rev,
                   event |-> decision[d].event, due |-> due, locked |-> decision[d].locked]
<1>1. DecisionsTyped /\ decision[d] \in Decision /\ decision' = [decision EXCEPT ![d] = new]
  BY DecisionsAreTyped DEF DecisionsTyped
<1>2. new \in Decision /\ new # NoDecision
  BY <1>1 DEF Decision, NoDecision
<1>3. new.note = decision[d].note /\ new.rev = decision[d].rev /\ new.event = decision[d].event
  OBVIOUS
<1> HIDE DEF new
<1>4. DecisionsTyped' /\ decision'[d] = new /\ \A c \in Decisions : c # d => decision'[c] = decision[c]
  BY <1>1, <1>2 DEF DecisionsTyped
<1>5. \A c \in Decisions : Same(c)
  BY <1>2, <1>3, <1>4 DEF Same
<1>6. ASSUME NEW c \in Decisions, c # d, decision[c] # NoDecision PROVE Tells(c)'
  <2>1. Tells(c) /\ decision[c].event # decision[d].event /\ decision[c].event \in DOMAIN audit
    BY <1>6, DecisionTells, DecisionIs DEF DecisionHolds
  <2>2. audit'[decision[c].event] = audit[decision[c].event] /\ decision'[c] = decision[c]
    BY <1>4, <1>6, <2>1
  <2> QED BY <2>1, <2>2 DEF Tells
<1> QED BY <1>4, <1>5, <1>6, DecisionKept

LEMMA StatusExcept ==
  ASSUME DecisionsTyped, NEW d \in Decisions, decision[d] # NoDecision, NEW status,
         decision' = [decision EXCEPT ![d].status = status]
  PROVE /\ decision[d].due \in BOOLEAN
        /\ decision' = [decision EXCEPT ![d] = [status |-> status, note |-> @.note, rev |-> @.rev,
                                               event |-> @.event, due |-> decision[d].due,
                                               locked |-> decision[d].locked]]
        /\ decision'[d].status = status /\ decision'[d].event = decision[d].event
        /\ decision'[d].note = decision[d].note /\ decision'[d].rev = decision[d].rev
        /\ decision'[d].locked = decision[d].locked
<1>1. decision[d] \in Decision
  BY DEF DecisionsTyped
<1>2. [decision[d] EXCEPT !.status = status]
        = [status |-> status, note |-> decision[d].note, rev |-> decision[d].rev,
           event |-> decision[d].event, due |-> decision[d].due,
                          locked |-> decision[d].locked]
  BY <1>1 DEF Decision
<1>3. decision' = [decision EXCEPT ![d] = [decision[d] EXCEPT !.status = status]]
  OBVIOUS
<1>4. decision'[d] = [decision[d] EXCEPT !.status = status]
  BY <1>3 DEF DecisionsTyped
<1> QED BY <1>1, <1>2, <1>3, <1>4 DEF Decision

LEMMA ApproveStep ==
  ASSUME IInv, LogKept, NEW d \in Decisions, ApproveForget(d)
  PROVE DecisionsTyped' /\ \A c \in Decisions : DecisionHolds(c)'
<1>1. /\ decision[d].status = "pending" /\ pend = NoRequest /\ pend' = pend /\ audit' = audit
      /\ decision' = [decision EXCEPT ![d].status = "approved"]
      /\ consented' = consented \cup {Ref(decision[d].note, decision[d].rev)}
  BY DEF ApproveForget, Idle
<1>2. decision[d] # NoDecision /\ DecisionsTyped /\ "approved" \in Statuses
  BY <1>1, DecisionsAreTyped DEF NoDecision, Statuses
<1>3. Tells(d)
  BY <1>2, DecisionTells
<1>4. /\ decision'[d].status = "approved" /\ decision'[d].event = decision[d].event
      /\ decision'[d].note = decision[d].note /\ decision'[d].rev = decision[d].rev
      /\ decision'[d].locked = decision[d].locked
  BY <1>1, <1>2, StatusExcept
<1>5. Tells(d)'
  BY <1>1, <1>3, <1>4 DEF Tells, NoRequest
<1>6. /\ decision[d].due \in BOOLEAN
      /\ decision' = [decision EXCEPT ![d] = [status |-> "approved", note |-> @.note, rev |-> @.rev,
                                             event |-> @.event, due |-> decision[d].due,
                                               locked |-> decision[d].locked]]
  BY <1>1, <1>2, StatusExcept
<1> QED BY <1>1, <1>2, <1>5, <1>6, OneRestated

LEMMA ExecuteStep ==
  ASSUME IInv, LogKept, NEW d \in Decisions, ExecuteForget(d)
  PROVE DecisionsTyped' /\ \A c \in Decisions : DecisionHolds(c)'
<1> DEFINE n == decision[d].note  e == decision[d].event
<1>1. /\ decision[d].status = "approved" /\ pend = NoRequest /\ pend' = pend
      /\ consented' = consented
  BY DEF ExecuteForget, Idle
<1>2. decision[d] # NoDecision /\ DecisionsTyped
  BY <1>1, DecisionsAreTyped DEF NoDecision
<1>3. /\ n \in Notes /\ decision[d].rev \in 1..MaxRevs /\ e \in DOMAIN audit /\ Tells(d)
      /\ audit \in Seq(LogRow)
  BY <1>2, DecisionIs, DecisionTells DEF IInv, TypeOK, LogRow
<1>4. Ref(n, decision[d].rev) \in Refs /\ NoNote \in Refs /\ {"error", "success"} \subseteq Outcomes
  BY <1>3, RefsAre, BoundsAreNatural DEF Outcomes
<1>5. \/ Ends(d, "consumed") /\ audit' = Recorded(audit, e, "success", Ref(n, decision[d].rev))
      \/ Ends(d, "expired") /\ audit' = Recorded(audit, e, "error", NoNote)
      \/ Ends(d, "expired") /\ audit' = audit /\ ~Recordable(audit, e)
  BY DEF ExecuteForget
<1>6. \A x \in DOMAIN audit : x # e => audit'[x] = audit[x]
  BY <1>5 DEF Recorded
<1>7. PICK status \in {"consumed", "expired"} : Ends(d, status)
  BY <1>5
<1>8. /\ decision[d].due \in BOOLEAN
      /\ decision' = [decision EXCEPT ![d] = [status |-> status, note |-> @.note, rev |-> @.rev,
                                             event |-> @.event, due |-> decision[d].due,
                                               locked |-> decision[d].locked]]
      /\ decision'[d].status = status /\ decision'[d].event = e
      /\ decision'[d].note = n /\ decision'[d].rev = decision[d].rev
      /\ decision'[d].locked = decision[d].locked /\ ~decision[d].locked
  BY <1>1, <1>2, <1>3, <1>7, StatusExcept DEF Ends, Tells
<1>9. Tells(d)'
  <2>1. CASE Ends(d, "consumed") /\ audit' = Recorded(audit, e, "success", Ref(n, decision[d].rev))
    <3>1. audit'[e].outcome = "success" /\ audit'[e].ref = Ref(n, decision[d].rev)
      <4> DEFINE ref == Ref(n, decision[d].rev)
      <4>1. ref \in Refs /\ "success" \in Outcomes /\ e \in DOMAIN audit
            /\ audit' = Recorded(audit, e, "success", ref)
        BY <1>3, <1>4, <2>1
      <4> HIDE DEF e, ref
      <4>2. audit'[e] = [op |-> audit[e].op, outcome |-> "success", ref |-> ref]
        BY <1>3, <4>1, LogMarked
      <4>3. audit'[e].outcome = "success" /\ audit'[e].ref = ref
        BY <4>2
      <4> QED BY <4>3 DEF ref
    <3>2. decision'[d].status = "consumed"
      BY <1>2, <2>1, StatusExcept DEF Ends
    <3> QED BY <1>1, <1>8, <3>1, <3>2 DEF Tells, NoRequest
  <2>2. CASE Ends(d, "expired") /\ audit' = Recorded(audit, e, "error", NoNote)
    <3>1. audit'[e].outcome = "error"
      <4>1. NoNote \in Refs /\ "error" \in Outcomes /\ e \in DOMAIN audit
            /\ audit' = Recorded(audit, e, "error", NoNote)
        BY <1>3, <1>4, <2>2
      <4> HIDE DEF e
      <4>2. audit'[e] = [op |-> audit[e].op, outcome |-> "error", ref |-> NoNote]
        BY <1>3, <4>1, LogMarked
      <4> QED BY <4>2
    <3>2. decision'[d].status = "expired"
      BY <1>2, <2>2, StatusExcept DEF Ends
    <3> QED BY <1>1, <1>8, <3>1, <3>2 DEF Tells, NoRequest
  <2>3. CASE Ends(d, "expired") /\ audit' = audit /\ ~Recordable(audit, e)
    \* An approved decision's row may be an error, not a success.
    <3>1. audit[e].outcome = "error"
      <4>1. audit[e].outcome \in Outcomes
        <5> HIDE DEF e
        <5>1. audit[e] \in LogRow
          BY <1>3
        <5> QED BY <5>1 DEF LogRow
      <4> QED BY <1>1, <1>3, <2>3, <4>1 DEF Tells, Recordable, Outcomes
    <3>2. decision'[d].status = "expired"
      BY <1>2, <2>3, StatusExcept DEF Ends
    <3> QED BY <1>1, <1>8, <2>3, <3>1, <3>2 DEF Tells, NoRequest
  <2> QED BY <1>5, <2>1, <2>2, <2>3
<1>10. status \in Statuses
  BY DEF Statuses
<1> QED BY <1>1, <1>2, <1>6, <1>8, <1>9, <1>10, OneRestated

LEMMA DueExcept ==
  ASSUME NEW made \in Decision, NEW due
  PROVE [made EXCEPT !.due = due] = [status |-> made.status, note |-> made.note,
                                     rev |-> made.rev, event |-> made.event, due |-> due,
                                     locked |-> made.locked]
BY DEF Decision

LEMMA TimeStep ==
  ASSUME IInv, LogKept, NEW d \in Decisions, TimePasses(d)
  PROVE DecisionsTyped' /\ \A c \in Decisions : DecisionHolds(c)'
<1>1. /\ Open(d) /\ decision' = [decision EXCEPT ![d].due = TRUE]
      /\ audit' = audit /\ pend' = pend /\ consented' = consented
  BY DEF TimePasses, askVars
<1>2. decision[d] # NoDecision /\ DecisionsTyped
  BY <1>1, DecisionsAreTyped DEF Open, NoDecision
<1>3. decision[d] \in Decision /\ decision[d].status \in Statuses
  BY <1>2 DEF DecisionsTyped, Decision
<1>4. [decision[d] EXCEPT !.due = TRUE]
        = [status |-> decision[d].status, note |-> decision[d].note, rev |-> decision[d].rev,
           event |-> decision[d].event, due |-> TRUE, locked |-> decision[d].locked]
  BY <1>3, DueExcept
<1>5. decision' = [decision EXCEPT ![d] = [status |-> decision[d].status, note |-> @.note,
                                          rev |-> @.rev, event |-> @.event, due |-> TRUE,
                                          locked |-> decision[d].locked]]
  BY <1>1, <1>4
<1>6. decision'[d] = [decision[d] EXCEPT !.due = TRUE]
  BY <1>1, <1>2 DEF DecisionsTyped
<1>7. /\ decision'[d].status = decision[d].status /\ decision'[d].event = decision[d].event
      /\ decision'[d].note = decision[d].note /\ decision'[d].rev = decision[d].rev
      /\ decision'[d].locked = decision[d].locked
  BY <1>3, <1>6 DEF Decision
<1>8. Tells(d)'
  BY <1>1, <1>2, <1>7, DecisionTells DEF Tells
<1> QED BY <1>1, <1>2, <1>3, <1>5, <1>8, OneRestated

\* A decision expires, by a sweep or by a lock.
Expires(d) ==
  /\ decision'[d] \in Decision /\ decision'[d].status = "expired"
  /\ decision'[d].event = decision[d].event
  /\ decision'[d].note = decision[d].note /\ decision'[d].rev = decision[d].rev
  /\ IF decision'[d].locked THEN audit'[decision[d].event].outcome # "success"
                            ELSE audit'[decision[d].event].outcome = "error"

\* Several decisions expire at once.
LEMMA ManyExpire ==
  ASSUME IInv, LogKept, NEW changed,
         \A d \in changed : d \in Decisions /\ decision[d] # NoDecision /\ Expires(d),
         decision' = [d \in Decisions |-> decision'[d]],
         \A d \in Decisions \ changed : decision'[d] = decision[d],
         consented' = consented, pend' = NoRequest,
         \A d \in Decisions \ changed : decision[d] # NoDecision =>
           audit'[decision[d].event] = audit[decision[d].event]
  PROVE DecisionsTyped' /\ \A c \in Decisions : DecisionHolds(c)'
<1>1. DecisionsTyped
  BY DecisionsAreTyped
<1>2. \A d \in changed : decision'[d] # NoDecision
  BY DEF Expires, NoDecision
<1>3. \A d \in Decisions : decision'[d] \in {NoDecision} \cup Decision
  BY <1>1 DEF DecisionsTyped, Expires
<1>4. DecisionsTyped'
  BY <1>3 DEF DecisionsTyped
<1>5. \A d \in Decisions : Same(d)
  BY <1>2 DEF Same, Expires
<1>6. ASSUME NEW d \in Decisions, decision[d] # NoDecision PROVE Tells(d)'
  <2>1. Tells(d)
    BY <1>6, DecisionTells
  <2>2. CASE d \notin changed
    BY <1>6, <2>1, <2>2 DEF Tells, NoRequest
  <2>3. CASE d \in changed
    BY <2>3 DEF Tells, NoRequest, Expires
  <2> QED BY <2>2, <2>3
<1> QED BY <1>4, <1>5, <1>6, DecisionKept

LEMMA ExpiredRecord ==
  ASSUME NEW made \in Decision, NEW now, ~made.locked,
         \/ now = [made EXCEPT !.status = "expired"]
         \/ now = [made EXCEPT !.status = "expired", !.locked = TRUE]
  PROVE /\ now \in Decision /\ now.status = "expired" /\ now.event = made.event
        /\ now.note = made.note /\ now.rev = made.rev
        /\ now = [made EXCEPT !.status = "expired"] => ~now.locked
<1>1. /\ now.status = "expired" /\ now.event = made.event
      /\ now.note = made.note /\ now.rev = made.rev
      /\ now \in Decision
  BY DEF Decision, Statuses
<1>2. now = [made EXCEPT !.status = "expired"] => ~now.locked
  BY DEF Decision
<1> QED BY <1>1, <1>2

LEMMA SweepStep ==
  ASSUME IInv, LogKept, Sweep \/ Open_
  PROVE DecisionsTyped' /\ \A c \in Decisions : DecisionHolds(c)'
<1>1. Expired /\ consented' = consented /\ pend' = NoRequest
  BY DEF Sweep, Open_, Idle, askVars, IInv, RequestsHold
<1>2. audit \in Seq(LogRow)
  BY DEF IInv, TypeOK, LogRow
<1>3. \A d \in Due : d \in Decisions /\ decision[d] # NoDecision
  BY DEF Due, Open, NoDecision
<1>4. \A d \in Due : audit'[decision[d].event].outcome = "error"
  <2> SUFFICES ASSUME NEW d \in Due PROVE audit'[decision[d].event].outcome = "error"
    OBVIOUS
  <2>1. decision[d].event \in DOMAIN audit
    BY <1>3, DecisionIs
  <2> QED BY <1>1, <1>2, <2>1, LogExpired
<1>5. ASSUME NEW d \in Decisions \ Due, decision[d] # NoDecision
      PROVE audit'[decision[d].event] = audit[decision[d].event]
  <2>1. decision[d].event \in DOMAIN audit
        /\ \A c \in Decisions : decision[c].event = decision[d].event => c = d
    BY <1>5, DecisionIs DEF DecisionHolds
  <2>2. \A c \in Due : decision[c].event # decision[d].event
    BY <1>3, <1>5, <2>1
  <2> QED BY <1>1, <1>2, <2>1, <2>2, LogExpired
<1>6. ASSUME NEW d \in Due PROVE Expires(d)
  <2>1. decision[d] \in Decision /\ decision'[d] = [decision[d] EXCEPT !.status = "expired"]
    BY <1>1, <1>3, <1>6, DecisionsAreTyped DEF DecisionsTyped, Expired
  <2>2. ~decision[d].locked
    BY <1>3, <1>6, DecisionTells DEF Tells, Due, Open
  <2>3. audit'[decision[d].event].outcome = "error"
    BY <1>4, <1>6
  <2>4. /\ decision'[d] \in Decision /\ decision'[d].status = "expired"
        /\ decision'[d].event = decision[d].event
        /\ decision'[d].note = decision[d].note /\ decision'[d].rev = decision[d].rev
        /\ ~decision'[d].locked
    BY <2>1, <2>2, ExpiredRecord
  <2> QED BY <2>3, <2>4 DEF Expires
<1>7. decision' = [d \in Decisions |-> decision'[d]]
      /\ \A d \in Decisions \ Due : decision'[d] = decision[d]
  BY <1>1 DEF Expired
<1> QED BY <1>1, <1>3, <1>5, <1>6, <1>7, ManyExpire

LEMMA LockStep ==
  ASSUME IInv, LogKept, Lock
  PROVE DecisionsTyped' /\ \A c \in Decisions : DecisionHolds(c)'
<1> DEFINE open == {d \in Decisions : Open(d)}
<1>1. audit' = audit /\ consented' = consented /\ pend' = NoRequest
  BY DEF Lock, Idle
<1>2. \A d \in open : d \in Decisions /\ decision[d] # NoDecision /\ Open(d)
  BY DEF Open, NoDecision
<1>3. ASSUME NEW d \in open PROVE Expires(d)
  <2>1. /\ decision[d] \in Decision
        /\ decision'[d] = [decision[d] EXCEPT !.status = "expired", !.locked = TRUE]
    BY <1>2, <1>3, DecisionsAreTyped DEF DecisionsTyped, Lock
  <2>2. audit'[decision[d].event].outcome # "success" /\ ~decision[d].locked
    BY <1>1, <1>2, <1>3, DecisionTells DEF Tells, Open
  <2>3. /\ decision'[d] \in Decision /\ decision'[d].status = "expired"
        /\ decision'[d].event = decision[d].event
        /\ decision'[d].note = decision[d].note /\ decision'[d].rev = decision[d].rev
    BY <2>1, <2>2, ExpiredRecord
  <2>4. decision'[d].locked
    BY <2>1 DEF Decision
  <2> QED BY <2>2, <2>3, <2>4 DEF Expires
<1>4. decision' = [d \in Decisions |-> decision'[d]]
      /\ \A d \in Decisions \ open : decision'[d] = decision[d]
  BY DEF Lock
<1> HIDE DEF open
<1> QED BY <1>1, <1>2, <1>3, <1>4, ManyExpire

\* The decision of a request is told, or its request fails.
LEMMA AskedStep ==
  ASSUME IInv, LogKept, Asked
  PROVE DecisionsTyped' /\ \A c \in Decisions : DecisionHolds(c)'
<1>1. /\ pend # NoRequest /\ pend.op = "forget" /\ pend' = NoRequest /\ consented' = consented
  BY DEF Asked, askVars, NoRequest
<1>2. /\ DecisionsTyped /\ audit \in Seq(LogRow) /\ pend.event \in DOMAIN audit
      /\ audit[pend.event].outcome = "authorized"
  BY <1>1, DecisionsAreTyped, RequestIs DEF IInv, TypeOK, LogRow
<1>3. CASE audit' = audit /\ decision' = [d \in Decisions |->
             IF decision[d].event = pend.event THEN [decision[d] EXCEPT !.status = "pending"]
                                               ELSE decision[d]]
  <2>1. ASSUME NEW d \in Decisions, decision[d].event = pend.event
        PROVE /\ decision[d] # NoDecision
              /\ decision'[d] \in Decision /\ decision'[d].status = "pending"
              /\ decision'[d].event = decision[d].event
              /\ decision'[d].note = decision[d].note /\ decision'[d].rev = decision[d].rev
              /\ decision'[d] # NoDecision /\ decision'[d].locked = decision[d].locked
    <3>1. decision[d] # NoDecision
      BY <1>2, <2>1 DEF NoDecision
    <3>2. decision[d] \in Decision /\ decision'[d] = [decision[d] EXCEPT !.status = "pending"]
      BY <1>2, <1>3, <2>1, <3>1 DEF DecisionsTyped
    <3>3. decision'[d] = [status |-> "pending", note |-> decision[d].note, rev |-> decision[d].rev,
                          event |-> decision[d].event, due |-> decision[d].due,
                          locked |-> decision[d].locked]
      BY <3>2 DEF Decision
    <3>4. decision'[d] \in Decision
      BY <3>2, <3>3 DEF Decision, Statuses
    <3> QED BY <3>1, <3>3, <3>4 DEF NoDecision
  <2>2. \A d \in Decisions : decision[d].event # pend.event => decision'[d] = decision[d]
    BY <1>3
  <2>3. DecisionsTyped'
    <3>1. \A d \in Decisions : decision'[d] \in {NoDecision} \cup Decision
      BY <1>2, <2>1, <2>2 DEF DecisionsTyped
    <3>2. \E f : decision' = [d \in Decisions |-> f[d]]
      <4> DEFINE f == [d \in Decisions |->
             IF decision[d].event = pend.event THEN [decision[d] EXCEPT !.status = "pending"]
                                               ELSE decision[d]]
      <4>1. decision' = f /\ f = [d \in Decisions |-> f[d]]
        BY <1>3
      <4> QED BY <4>1
    <3> QED BY <3>1, <3>2 DEF DecisionsTyped
  <2>4. \A d \in Decisions : Same(d)
    BY <2>1, <2>2 DEF Same
  <2>5. ASSUME NEW d \in Decisions, decision[d] # NoDecision PROVE Tells(d)'
    <3>1. Tells(d)
      BY <2>5, DecisionTells
    <3>2. CASE decision[d].event = pend.event
      <4>1. decision[d].status = "untold"
        BY <1>1, <3>1, <3>2 DEF Tells
      <4>2. ~decision[d].locked
        BY <3>1, <4>1 DEF Tells
      <4>3. ~decision'[d].locked
        BY <2>1, <3>2, <4>2
      <4> QED BY <1>1, <1>2, <1>3, <2>1, <3>2, <4>3 DEF Tells, NoRequest
    <3>3. CASE decision[d].event # pend.event
      BY <1>1, <1>3, <2>2, <3>1, <3>3 DEF Tells, NoRequest
    <3> QED BY <3>2, <3>3
  <2> QED BY <2>3, <2>4, <2>5, DecisionKept
<1>4. CASE audit' = Recorded(audit, pend.event, "error", NoNote) /\ decision' = decision
  <2>1. "error" \in Outcomes /\ NoNote \in Refs
    BY RefsAre DEF Outcomes
  <2>2. audit'[pend.event].outcome = "error"
        /\ \A x \in DOMAIN audit : x # pend.event => audit'[x] = audit[x]
    <3> DEFINE e == pend.event
    <3>1. e \in DOMAIN audit /\ audit' = Recorded(audit, e, "error", NoNote)
      BY <1>2, <1>4
    <3> HIDE DEF e
    <3>2. audit'[e] = [op |-> audit[e].op, outcome |-> "error", ref |-> NoNote]
          /\ \A x \in DOMAIN audit : x # e => audit'[x] = audit[x]
      BY <1>2, <2>1, <3>1, LogMarked
    <3> QED BY <3>2 DEF e
  <2>3. DecisionsTyped' /\ \A d \in Decisions : Same(d)
    BY <1>2, <1>4 DEF DecisionsTyped, Same
  <2>4. ASSUME NEW d \in Decisions, decision[d] # NoDecision PROVE Tells(d)'
    <3>1. Tells(d) /\ decision[d].event \in DOMAIN audit
      BY <2>4, DecisionTells, DecisionIs
    <3>2. CASE decision[d].event = pend.event
      <4>1. decision[d].status = "untold"
        BY <1>1, <3>1, <3>2 DEF Tells
      <4>2. ~decision[d].locked
        BY <3>1, <4>1 DEF Tells
      <4> QED BY <1>1, <1>4, <2>2, <3>2, <4>1, <4>2 DEF Tells, NoRequest
    <3>3. CASE decision[d].event # pend.event
      BY <1>1, <1>4, <2>2, <3>1, <3>3 DEF Tells, NoRequest
    <3> QED BY <3>2, <3>3
  <2> QED BY <2>3, <2>4, DecisionKept
<1> QED BY <1>3, <1>4 DEF Asked

LEMMA DecisionsStep ==
  ASSUME IInv, [Next]_vars
  PROVE DecisionsTyped' /\ \A d \in Decisions : DecisionHolds(d)'
<1>1. LogKept /\ consented \subseteq consented'
  BY NextSteps, StepKeepsLog, NextWalks
<1> QED BY <1>1, OtherSteps, InsertStep, ApproveStep, ExecuteStep, TimeStep, SweepStep, LockStep,
           AskedStep DEF Next

-------------------------------------------------------------------------------
(* The invariant.                                                          *)

\* There are no more notes at the start than notes.
LEMMA MadeFits ==
  Made \in Seq(Notes) /\ Len(Made) \in 0..Cardinality(Notes)
<1>1. Made \in Seq(Notes) /\ IsFiniteSet(Notes)
  BY MadeOnce
<1>2. PICK k \in Nat : Made \in [1..k -> Notes] /\ Len(Made) = k
  BY <1>1
<1>3. Made \in Injection(1..k, Notes)
  BY <1>2, MadeOnce DEF Injection, IsInjective
<1>4. Cardinality(1..k) <= Cardinality(Notes)
  BY <1>1, <1>3, FS_Injection
<1>5. Cardinality(1..k) = k
  BY FS_Interval
<1>6. Cardinality(Notes) \in Nat
  BY <1>1, FS_CardinalityType
<1> QED BY <1>1, <1>2, <1>4, <1>5, <1>6

LEMMA InitNotes ==
  ASSUME Init
  PROVE NotesTyped /\ NotesHold
<1> DEFINE At(n) == CHOOSE i \in DOMAIN Made : Made[i] = n
           There(n) == \E i \in DOMAIN Made : Made[i] = n
<1>1. /\ MaxRevs \in Nat \ {0} /\ Cardinality(Notes) \in Nat
      /\ DOMAIN Made = 1..Len(Made) /\ Len(Made) \in 0..Cardinality(Notes)
  BY MadeFits, BoundsAreNatural, MadeOnce, FS_CardinalityType
<1>2. \A n \in Notes : There(n) => At(n) \in 1..Len(Made) /\ Made[At(n)] = n
  BY <1>1
<1>3. rows = [n \in Notes |-> IF There(n) THEN [rev |-> 1, text |-> "task", born |-> At(n)]
                              ELSE Absent]
  BY DEF Init
<1>4. revs = [n \in Notes |-> IF rows[n].rev = 1 THEN <<[text |-> "task", base |-> 0]>> ELSE <<>>]
  BY DEF Init
<1>5. listed = [n \in Notes |-> rows[n].rev]
  BY DEF Init
<1> HIDE DEF At, There
<1>6. \A n \in Notes : IF There(n) THEN rows[n] = [rev |-> 1, text |-> "task", born |-> At(n)]
                       ELSE rows[n] = Absent
  BY <1>3
<1>7. ASSUME NEW n \in Notes
      PROVE rows[n] \in Row /\ rows[n].rev \in 0..1 /\ rows[n].text \in Texts
            /\ (rows[n].rev = 1 => rows[n].text = "task" /\ There(n) /\ rows[n].born = At(n))
  <2>1. CASE There(n)
    <3>1. At(n) \in 0..(Cardinality(Notes) + 1)
      BY <1>1, <1>2, <2>1
    <3>2. rows[n] = [rev |-> 1, text |-> "task", born |-> At(n)]
      BY <1>6, <2>1
    <3>3. [rev |-> 1, text |-> "task", born |-> At(n)] \in Row
      BY <1>1, <3>1 DEF Row, Texts
    <3> QED BY <2>1, <3>2, <3>3 DEF Texts
  <2>2. CASE ~There(n)
    <3>1. rows[n] = Absent
      BY <1>6, <2>2
    <3>2. Absent \in Row
      BY <1>1 DEF Row, Texts, Absent
    <3> QED BY <3>1, <3>2 DEF Texts, Absent
  <2> QED BY <2>1, <2>2
<1>8. [text |-> "task", base |-> 0] \in Revision
  BY <1>1 DEF Revision, Texts
<1>9. \A n \in Notes : revs[n] \in Seq(Revision)
  BY <1>4, <1>8
<1>10. NotesTyped
  <2>1. rows \in [Notes -> Row]
    BY <1>3, <1>7
  <2>2. revs \in [Notes -> Seq(Revision)]
    BY <1>4, <1>9
  <2>3. listed \in [Notes -> 0..MaxRevs]
    BY <1>1, <1>5, <1>7
  <2> QED BY <2>1, <2>2, <2>3 DEF NotesTyped
<1>11. ASSUME NEW n \in Notes PROVE OneLine(n)
  <2>1. CASE rows[n].rev = 1
    BY <1>1, <1>2, <1>4, <1>5, <1>7, <2>1 DEF OneLine
  <2>2. CASE rows[n].rev = 0
    BY <1>4, <2>2 DEF OneLine
  <2> QED BY <1>7, <2>1, <2>2
<1>12. Apart
  BY <1>2, <1>7 DEF Apart, Present
<1> QED BY <1>10, <1>11, <1>12, NotesAre

LEMMA InitInvariant ==
  ASSUME Init
  PROVE IInv
<1>1. NotesTyped /\ NotesHold
  BY InitNotes
<1>2. audit = <<>> /\ audit \in Seq(LogRow) /\ Len(audit) = 0
  BY DEF Init
<1>3. AsksTyped /\ EditorsHold
  <2>1. CASE Made = <<>>
    BY <2>1, RefsAre DEF Init, AsksTyped, EditorsHold
  <2>2. CASE Made # <<>>
    <3>1. Made[1] \in Notes
      BY <2>2, MadeFits
    <3>2. Ref(Made[1], 1) \in Refs /\ Ref(Made[1], 1).note \in Notes /\ Ref(Made[1], 1).rev > 0
      BY <3>1, BoundsAreNatural DEF Refs, Ref
    <3> QED BY <2>2, <3>2, RefsAre DEF Init, AsksTyped, EditorsHold
  <2> QED BY <2>1, <2>2
<1>4. DecisionsTyped /\ \A d \in Decisions : DecisionHolds(d)
  BY DEF Init, DecisionsTyped, DecisionHolds
<1>5. RequestsHold
  BY DEF Init, RequestsHold, NoRequest
<1>6. PagerHolds
  BY DEF Init, PagerHolds, NoWalk
<1>7. TypeOK
  BY <1>1, <1>2, <1>3, <1>4
     DEF TypeOK, NotesTyped, Row, Revision, AsksTyped, DecisionsTyped, Decision, Statuses, LogRow
<1> QED BY <1>1, <1>2, <1>3, <1>4, <1>5, <1>6, <1>7, BoundsAreNatural DEF IInv

LEMMA StepInvariant ==
  ASSUME IInv, [Next]_vars
  PROVE IInv'
<1>1. Saves \/ Removes \/ Quiet
  BY NextSteps
<1>2. NotesTyped' /\ NotesHold'
  BY <1>1, SavesKeepNotes, RemovesKeepNotes, QuietKeepsNotes
<1>3. audit' \in Seq(LogRow) /\ Len(audit') <= MaxEvents
  BY <1>1, StepKeepsLog DEF LogKept
<1>4. AsksTyped' /\ EditorsHold'
  BY AsksStep
<1>5. DecisionsTyped' /\ (\A d \in Decisions : DecisionHolds(d))'
  BY DecisionsStep
<1>6. RequestsHold' /\ PagerHolds'
  BY RequestsStep, PagerStep
<1>7. TypeOK'
  BY <1>2, <1>3, <1>4, <1>5
     DEF TypeOK, NotesTyped, Row, Revision, AsksTyped, DecisionsTyped, Decision, Statuses, LogRow
<1> QED BY <1>2, <1>3, <1>4, <1>5, <1>6, <1>7 DEF IInv

\* The invariant holds in every state: notes, log, requests, decisions, walks.
THEOREM StoreInductive == Spec => []IInv
<1>1. Init => IInv
  BY InitInvariant
<1>2. IInv /\ [Next]_vars => IInv'
  BY StepInvariant
<1> QED BY <1>1, <1>2, PTL DEF Spec

\* No edit of a note is lost: its revisions are one line, each made from the
\* one before, and the view lists it as its text says.
THEOREM EditsChained == Spec => []EditsAreChained
<1>1. IInv => EditsAreChained
  BY DEF IInv, NotesHold, EditsAreChained
<1> QED BY <1>1, StoreInductive, PTL

\* A walk that ended has shown, once, every note that stayed in its list.
THEOREM PagesWhole == Spec => []PagesAreWhole
<1>1. IInv => PagesAreWhole
  BY DEF IInv, PagerHolds, Shown, PagesAreWhole
<1> QED BY <1>1, StoreInductive, PTL

\* What became of a decision is what its row of the log says; one that a lock expired
\* leaves its row as it was, and nothing executes it.
THEOREM DecisionsLogged == Spec => []DecisionsAreLogged
<1>1. IInv => DecisionsAreLogged
  <2> SUFFICES ASSUME IInv, NEW d \in Decisions, decision[d].event # 0
               PROVE LET row == audit[decision[d].event] IN
                       /\ (decision[d].status = "consumed") = (row.outcome = "success")
                       /\ row.outcome = "success" => row.ref = Ref(decision[d].note, decision[d].rev)
                       /\ decision[d].status = "expired" /\ ~decision[d].locked =>
                            row.outcome = "error"
                       /\ decision[d].locked => decision[d].status = "expired"
    BY DEF DecisionsAreLogged
  <2>1. decision[d] # NoDecision
    BY DEF NoDecision
  <2>2. decision[d].status \in Statuses /\ DecisionHolds(d)
    BY <2>1, DecisionIs
  <2>3. (decision[d].status = "consumed") <=> (audit[decision[d].event].outcome = "success")
    BY <2>1, <2>2 DEF DecisionHolds, Statuses
  <2> QED BY <2>1, <2>2, <2>3 DEF DecisionHolds
<1> QED BY <1>1, StoreInductive, PTL

\* A note goes only at a revision the owner agreed to delete.
THEOREM DeletionsConsented == Spec => DeletedAsConsented
<1>1. IInv /\ [Next]_vars =>
        [\A n \in Notes : rows[n].rev > 0 /\ rows'[n].rev = 0 => Ref(n, rows[n].rev) \in consented]_vars
  <2> SUFFICES ASSUME IInv, [Next]_vars, NEW n \in Notes, rows[n].rev > 0 /\ rows'[n].rev = 0
               PROVE Ref(n, rows[n].rev) \in consented
    OBVIOUS
  <2>1. Gone(n) /\ (Saves \/ Removes \/ Quiet)
    BY NextSteps DEF Gone
  <2> QED BY <2>1, QuietIsLogged, SavesIsLogged, RemovesIsLogged
<1> QED BY <1>1, StoreInductive, PTL DEF Spec, DeletedAsConsented

\* The log and the notes change together, in one step.
THEOREM ChangesLogged == Spec => LoggedWithTheChange
<1>1. IInv /\ [Next]_vars =>
        [/\ \A e \in DOMAIN audit : audit[e].outcome # "authorized" => audit'[e] = audit[e]
         /\ \A n \in Notes :
              /\ (rows[n].rev > 0 /\ rows'[n].rev = 0)
                   <=> \E e \in DOMAIN audit' : Turns(e, n, {"delete", "forget"})
              /\ rows'[n].rev > rows[n].rev =>
                   \E e \in DOMAIN audit' : Turns(e, n, {"remember", "update"})
                                            /\ audit'[e].ref.rev = rows'[n].rev]_vars
  <2> SUFFICES ASSUME IInv, [Next]_vars
               PROVE /\ \A e \in DOMAIN audit : audit[e].outcome # "authorized" => audit'[e] = audit[e]
                     /\ \A n \in Notes : (Gone(n) <=> Removed(n)) /\ Saved(n)
    BY DEF Gone, Removed, Saved
  <2>1. Saves \/ Removes \/ Quiet
    BY NextSteps
  <2>2. \A e \in DOMAIN audit : audit[e].outcome # "authorized" => audit'[e] = audit[e]
    BY <2>1, StepKeepsLog DEF LogKept
  <2>3. \A n \in Notes : (Gone(n) <=> Removed(n)) /\ Saved(n)
    BY <2>1, QuietIsLogged, SavesIsLogged, RemovesIsLogged
  <2> QED BY <2>2, <2>3
<1> QED BY <1>1, StoreInductive, PTL DEF Spec, LoggedWithTheChange
===============================================================================
