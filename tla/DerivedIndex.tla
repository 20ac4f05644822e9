---------------------------- MODULE DerivedIndex ----------------------------
(***************************************************************************)
(* The semantic index of the notes and the recalls that read it            *)
(* (derived-index-coordinator.ts, and the hybrid recall and the embedding  *)
(* batches of sqlite-memory.ts).                                           *)
(*                                                                         *)
(* Saves queue work for a model that takes its time; the queue runs one    *)
(* task after another, and a recall gives up the thread wherever it waits  *)
(* for the queue, for the vector of its query, or for the reranker.        *)
(*                                                                         *)
(* A note is known by the order of its creation, a text is the number of   *)
(* the save that wrote it, and a model object is the generation that       *)
(* enabled it: enabling the descriptor in use again keeps the object.      *)
(* Vectors are the text, the revision and the descriptor they are of.      *)
(***************************************************************************)
EXTENDS Naturals, Sequences, FiniteSets

CONSTANTS
    MaxNotes,    \* bound: notes ever created
    Models,      \* descriptors of embedding models
    NoModel,
    Reranked,    \* the models that come with a reranker
    Hosts,       \* which hosts to consider, of "worker" and "process"
    BatchSize,   \* notes embedded at a time: 32
    Chunks,      \* how many chunks each text is cut into, each with a vector
    Zero,        \* <<m, s, k>>: model m gives chunk k of text s a vector of zeros
    MaxCandidates, \* chunks read for a search: 100000
    MaxSaves, MaxRecalls, MaxGen \* bounds

ASSUME ConstantsAssumption ==
    /\ NoModel \notin Models /\ Reranked \subseteq Models
    /\ Hosts \subseteq {"worker", "process"}
    /\ BatchSize \in Nat \ {0} /\ MaxCandidates \in Nat
    /\ Chunks \in [1..MaxSaves -> Nat \ {0}]
    /\ MaxNotes \in Nat /\ MaxSaves \in Nat /\ MaxRecalls \in Nat /\ MaxGen \in Nat

VARIABLES
    host,     \* "worker" answers one request before it reads the next
    cur,      \* the current revision of each note and its text
    emb,      \* the embedding rows
    undone,   \* history: the saves that were rolled back
    open,     \* the memory is open
    model, gen, preparing, failed, indexing,  \* the coordinator
    queue,    \* its promise chain
    batch,    \* what is being prepared or embedded
    cache,    \* the semantic index in memory
    recall,   \* the recall in flight, or the last one
    saves, recalls  \* counters for the bounds

coordinator == <<model, gen, preparing, failed, indexing>>
counters == <<saves, recalls>>
indexVars == <<host, cur, emb, undone, open, coordinator, queue, batch, cache, recall, counters>>

-----------------------------------------------------------------------------
Notes == 1..MaxNotes
Revs == 0..MaxSaves
Version == [note : Notes, rev : Revs, save : 1..MaxSaves]
Chunk == [note : Notes, rev : Revs, save : 1..MaxSaves, chunk : Nat]
Unborn(n) == cur[n].rev = 0
NoRow == [rev |-> 0, save |-> 0, model |-> NoModel]
Exists(n) == cur[n].save # 0
IsCurrent(v) == cur[v.note] = [rev |-> v.rev, save |-> v.save]
Current(N) == {[note |-> n, rev |-> cur[n].rev, save |-> cur[n].save] : n \in {m \in N : Exists(m)}}

\* The notes with vectors of their current revision by model m, when the rows are E.
IndexedBy(E, m) == {n \in Notes : Exists(n) /\ E[n].rev = cur[n].rev /\ E[n].model = m}
AllIndexed(E, m) == \A n \in Notes : Exists(n) => n \in IndexedBy(E, m)

State ==
    IF model = NoModel THEN "disabled"
    ELSE IF failed # {} THEN "degraded"
    ELSE IF preparing \/ indexing > 0 \/ ~AllIndexed(emb, model) THEN "indexing" ELSE "ready"

NoBatch == [gen |-> 0, of |-> {}]
NoCache == [rows |-> {}, built |-> FALSE]
Prepare(g) == [gen |-> g, prepare |-> TRUE, left |-> {}, size |-> 0]
Index(g, N) == [gen |-> g, prepare |-> FALSE, left |-> N, size |-> Cardinality(N)]

\* #schedule of the notes in N, a set of versions, as generation g.
Scheduled(g, N) == IF N = {} THEN <<>> ELSE <<Index(g, N)>>

Asleep == recall.pc \in {"none", "answered"}
\* The worker takes a request when it has answered the one before.
Free == open /\ (host = "worker" => Asleep)

-----------------------------------------------------------------------------
NoRecall == [pc |-> "none", gen |-> 0, lex |-> {}, sem |-> {}, ahead |-> 0]

IndexInit ==
    /\ host \in Hosts
    /\ cur = [n \in Notes |-> [rev |-> 0, save |-> 0]]
    /\ emb = [n \in Notes |-> NoRow] /\ undone = {}
    /\ open = FALSE /\ model = NoModel /\ gen = 0 /\ preparing = FALSE /\ failed = {}
    /\ indexing = 0 /\ queue = <<>> /\ batch = NoBatch /\ cache = NoCache
    /\ recall = NoRecall /\ saves = 0 /\ recalls = 0

\* #missingEmbeddingNotes: the notes without vectors of their current revision by m.
Missing(m) == Current(Notes \ IndexedBy(emb, m))

\* The coordinator takes model m: it is prepared, and then what is missing is embedded.
Takes(m) ==
    /\ gen < MaxGen
    /\ gen' = gen + 1 /\ model' = m /\ failed' = {} /\ cache' = NoCache
    /\ preparing' = TRUE
    /\ indexing' = Cardinality(Missing(m))
    /\ queue' = Append(queue, Prepare(gen')) \o Scheduled(gen', Missing(m))

\* It goes on without one: what is queued becomes stale.
Drops ==
    /\ gen < MaxGen
    /\ gen' = gen + 1 /\ model' = NoModel /\ failed' = {} /\ cache' = NoCache
    /\ preparing' = FALSE /\ indexing' = 0
    /\ UNCHANGED queue

\* #openVault, with the model discovered beside the vault, or none.
OpenMemory(m) ==
    /\ ~open /\ open' = TRUE
    /\ IF m = NoModel THEN Drops ELSE Takes(m)
    /\ UNCHANGED <<host, cur, emb, undone, batch, recall, counters>>

\* enableSemanticSearch: nothing is done for the model in use.
Enable(m) ==
    /\ Free /\ m # model
    /\ Takes(m)
    /\ UNCHANGED <<host, cur, emb, undone, open, batch, recall, counters>>

Disable ==
    /\ Free /\ Drops
    /\ UNCHANGED <<host, cur, emb, undone, open, batch, recall, counters>>

\* The memory is closed, by a lock or with its process: nothing that is awaited goes on.
Close ==
    /\ open /\ open' = FALSE
    /\ model' = NoModel /\ preparing' = FALSE /\ failed' = {} /\ indexing' = 0
    /\ queue' = <<>> /\ batch' = NoBatch /\ cache' = NoCache /\ recall' = NoRecall
    /\ UNCHANGED <<host, cur, emb, undone, gen, counters>>

-----------------------------------------------------------------------------
\* Mutant: the cache of the semantic index is kept over a save.
Saved_CacheKept(v) ==
    /\ indexing' = indexing + 1
    /\ queue' = Append(queue, Index(gen, {v}))
    /\ UNCHANGED cache

\* replace(note): the save is scheduled for the model in use.
Saved(v) ==
    /\ indexing' = indexing + 1
    /\ queue' = Append(queue, Index(gen, {v}))
    /\ cache' = NoCache

\* The transaction around a save may roll back after the save was scheduled.
Save(n, kept) ==
    /\ Free /\ saves < MaxSaves
    /\ saves' = saves + 1
    /\ LET v == [note |-> n, rev |-> cur[n].rev + 1, save |-> saves']
       IN /\ IF model = NoModel THEN UNCHANGED <<indexing, queue, cache>> ELSE Saved(v)
          /\ cur' = IF kept THEN [cur EXCEPT ![n] = [rev |-> v.rev, save |-> v.save]]
                    ELSE IF Exists(n) THEN cur ELSE [cur EXCEPT ![n].rev = 1]
          /\ undone' = IF kept THEN undone ELSE undone \cup {v}
    /\ UNCHANGED <<host, emb, open, model, gen, preparing, failed, batch, recall, recalls>>

\* The name of a note that was not to be is not used again.
Remember(n, kept) ==
    /\ Unborn(n) /\ ~\E m \in 1..n - 1 : Unborn(m)
    /\ Save(n, kept)

\* The text of the edit is another: an edit without one changes nothing.
Update(n, kept) == Exists(n) /\ Save(n, kept)

\* A note is deleted, and its rows with it.
Forget(n) ==
    /\ Free /\ Exists(n)
    /\ cur' = [cur EXCEPT ![n].save = 0]
    /\ emb' = [emb EXCEPT ![n] = NoRow]
    /\ cache' = NoCache
    /\ UNCHANGED <<host, undone, open, coordinator, queue, batch, recall, counters>>

-----------------------------------------------------------------------------
\* The queue.  A task of an earlier generation is dropped where it is next looked at.
Task == Head(queue)
Stale == Task.gen # gen
Busy == batch # NoBatch

\* Whoever waited for the queue as it was has one task less ahead.
Popped ==
    /\ queue' = Tail(queue) /\ batch' = NoBatch
    /\ recall' = IF recall.ahead > 0 THEN [recall EXCEPT !.ahead = @ - 1] ELSE recall

DropStale ==
    /\ open /\ queue # <<>> /\ Stale
    /\ Popped
    /\ UNCHANGED <<host, cur, emb, undone, open, coordinator, cache, counters>>

\* The next notes of a task, or its model, are taken up; their order is left open.
StartBatch ==
    /\ open /\ queue # <<>> /\ ~Busy /\ ~Stale
    /\ \E N \in SUBSET Task.left :
          /\ Cardinality(N) = BatchSize \/ (N = Task.left /\ Cardinality(N) < BatchSize)
          /\ batch' = [gen |-> gen, of |-> N]
          /\ queue' = [queue EXCEPT ![1].left = @ \ N]
    /\ UNCHANGED <<host, cur, emb, undone, open, coordinator, cache, recall, counters>>

\* The model is ready, or could not be made ready.
Prepared(ok) ==
    /\ open /\ Busy /\ ~Stale /\ Task.prepare
    /\ preparing' = FALSE
    /\ failed' = IF ok THEN failed ELSE failed \cup {"prepare"}
    /\ Popped
    /\ UNCHANGED <<host, cur, emb, undone, open, model, gen, indexing, cache, counters>>

\* A note that was edited or deleted while its batch was embedded is passed over.
FreshVersion(v) == Exists(v.note) /\ cur[v.note].rev = v.rev

\* Mutant: the vectors are filed under the revision the note has when they come.
VectorsWritten_AsCurrent ==
    [n \in Notes |->
        LET of == {v \in batch.of : v.note = n /\ Exists(n)}
        IN IF of = {} THEN emb[n]
           ELSE LET v == CHOOSE v \in of : TRUE
                IN [rev |-> cur[n].rev, save |-> v.save, model |-> model]]

VectorsWritten ==
    [n \in Notes |->
        LET of == {v \in batch.of : v.note = n /\ FreshVersion(v)}
        IN IF of = {} THEN emb[n]
           ELSE LET v == CHOOSE v \in of : TRUE
                IN [rev |-> v.rev, save |-> v.save, model |-> model]]

\* The vectors are written in one transaction.  With its last batch a task is done, and
\* an earlier failure is forgotten once every note has its vectors.
BatchWritten ==
    /\ open /\ Busy /\ ~Stale /\ ~Task.prepare
    /\ emb' = VectorsWritten
    /\ IF Task.left # {}
         THEN batch' = NoBatch /\ UNCHANGED <<queue, recall, failed, indexing>>
         ELSE /\ Popped
              /\ indexing' = indexing - Task.size
              /\ failed' = IF AllIndexed(emb', model) THEN failed \ {"index"} ELSE failed
    /\ UNCHANGED <<host, cur, undone, open, model, gen, preparing, cache, counters>>

\* Three attempts failed: this is reported, and the attempts go on more slowly.
BatchTires ==
    /\ open /\ Busy /\ ~Stale /\ ~Task.prepare
    /\ "index" \notin failed
    /\ failed' = failed \cup {"index"}
    /\ UNCHANGED <<host, cur, emb, undone, open, model, gen, preparing, indexing, queue, batch,
                   cache, recall, counters>>

\* Mutant: a task that failed is still counted as under way.
Finished_Counting == UNCHANGED indexing

Finished == indexing' = indexing - Task.size

\* The last attempt, or the transaction, failed: the rest of the task is given up.
BatchFails ==
    /\ open /\ Busy /\ ~Stale /\ ~Task.prepare
    /\ failed' = failed \cup {"index"}
    /\ Popped
    /\ Finished
    /\ UNCHANGED <<host, cur, emb, undone, open, model, gen, preparing, cache, counters>>

-----------------------------------------------------------------------------
\* A recall, from what is found literally (lex) to its answer.
SameModel == recall.gen = gen
Answer(hits) == [NoRecall EXCEPT !.pc = "answered", !.gen = recall.gen, !.lex = hits]

\* Mutant: what was found before the model was awaited is returned as it was found.
CurrentResults_AsFound(hits) == hits

\* #currentResults: the results still at their revision.
CurrentResults(hits) == {v \in hits : Exists(v.note) /\ cur[v.note].rev = v.rev}
Fallback == Answer(IF SameModel THEN CurrentResults(recall.lex) ELSE {})

\* What a recall does once it has waited for the index, or did not have to.
Looked(r) ==
    recall' = IF State = "ready" THEN [r EXCEPT !.pc = "embedding", !.ahead = 0]
              ELSE [NoRecall EXCEPT !.pc = "answered", !.gen = gen, !.lex = CurrentResults(r.lex)]

Ask(lex) ==
    /\ open /\ Asleep /\ model # NoModel /\ recalls < MaxRecalls
    /\ recalls' = recalls + 1
    /\ LET r == [NoRecall EXCEPT !.gen = gen, !.lex = lex]
       IN IF State = "indexing" /\ lex = {}
            THEN recall' = [r EXCEPT !.pc = "waiting", !.ahead = Len(queue)]
            ELSE Looked(r)
    /\ UNCHANGED <<host, cur, emb, undone, open, coordinator, queue, batch, cache, saves>>

Waited ==
    /\ open /\ recall.pc = "waiting" /\ recall.ahead = 0
    /\ IF SameModel THEN Looked(recall) ELSE recall' = Answer({})
    /\ UNCHANGED <<host, cur, emb, undone, open, coordinator, queue, batch, cache, counters>>

\* The deadline passed, the model failed, or a statement was interrupted.
GivesUp ==
    /\ open /\ recall.pc \in {"waiting", "embedding"}
    /\ recall' = Fallback
    /\ UNCHANGED <<host, cur, emb, undone, open, coordinator, queue, batch, cache, counters>>

\* The chunks of the model in use, at the revisions the notes have now.
ChunksOf(n) ==
    {[note |-> n, rev |-> emb[n].rev, save |-> emb[n].save, chunk |-> k] :
        k \in 1..Chunks[emb[n].save]}
Rows == UNION {ChunksOf(n) : n \in IndexedBy(emb, model)}

\* What the query may return of them: it has a limit and no order.
Fetched ==
    IF Cardinality(Rows) <= MaxCandidates THEN {Rows}
    ELSE {R \in SUBSET Rows : Cardinality(R) = MaxCandidates}

\* A vector without a direction is passed over.
Usable(R) == {c \in R : <<model, c.save, c.chunk>> \notin Zero}

\* #semanticIndex: the cache, or one that is built.
SemanticIndexes ==
    IF cache.built THEN {cache} ELSE {[rows |-> Usable(R), built |-> TRUE] : R \in Fetched}

\* #hydrateSemanticCandidates: the notes of the rows still at their revision, as they are.
Hydrated(rows) == Current({v.note : v \in CurrentResults(rows)})

\* The vector of the query is there.  The cache is built if there is none, and some of its
\* rows are near.
Embedded ==
    /\ open /\ recall.pc = "embedding"
    /\ IF ~SameModel THEN recall' = Answer({}) /\ UNCHANGED cache
       ELSE \E index \in SemanticIndexes :
              /\ cache' = index
              /\ \E near \in SUBSET Hydrated(index.rows) :
                    recall' = IF model \in Reranked THEN [recall EXCEPT !.pc = "ranking", !.sem = near]
                              ELSE Answer(recall.lex \cup {v \in near : v.note \notin {l.note : l \in recall.lex}})
    /\ UNCHANGED <<host, cur, emb, undone, open, coordinator, queue, batch, counters>>

\* The reranker keeps some of the candidates, and fails only back to what was literal.
Ranked ==
    /\ open /\ recall.pc = "ranking"
    /\ \E kept \in SUBSET (recall.lex \cup recall.sem) :
          recall' = Answer(IF SameModel THEN CurrentResults(kept) ELSE {})
    /\ UNCHANGED <<host, cur, emb, undone, open, coordinator, queue, batch, cache, counters>>

-----------------------------------------------------------------------------
Work == DropStale \/ StartBatch \/ Prepared(TRUE) \/ BatchWritten
Trouble == Prepared(FALSE) \/ BatchTires \/ BatchFails
Recalls == (\E N \in SUBSET Notes : Ask(Current(N))) \/ Waited \/ GivesUp \/ Embedded \/ Ranked
Owner == \E n \in Notes : (\E kept \in BOOLEAN : Remember(n, kept) \/ Update(n, kept)) \/ Forget(n)
Life == (\E m \in Models : OpenMemory(m) \/ Enable(m)) \/ OpenMemory(NoModel) \/ Disable \/ Close

IndexNext == Work \/ Trouble \/ Recalls \/ Owner \/ Life
IndexSpec == IndexInit /\ [][IndexNext]_indexVars

\* A model answers or fails in the end, and the promises of the queue are run in turn.
FairIndexSpec == IndexSpec /\ WF_indexVars(DropStale \/ StartBatch)
                 /\ WF_indexVars(BatchWritten \/ BatchFails \/ Prepared(TRUE) \/ Prepared(FALSE))

-----------------------------------------------------------------------------
\* The types of the state.
IndexTypeOK ==
    /\ host \in Hosts /\ open \in BOOLEAN /\ preparing \in BOOLEAN
    /\ cur \in [Notes -> [rev : Revs, save : 0..MaxSaves]]
    /\ emb \in [Notes -> [rev : Revs, save : 0..MaxSaves, model : Models \cup {NoModel}]]
    /\ undone \subseteq Version
    /\ model \in Models \cup {NoModel} /\ gen \in 0..MaxGen
    /\ failed \subseteq {"prepare", "index"}
    /\ indexing \in Nat
    /\ queue \in Seq([gen : 1..MaxGen, prepare : BOOLEAN, left : SUBSET Version, size : Nat])
    /\ batch \in [gen : 0..MaxGen, of : SUBSET Version]
    /\ cache \in [rows : SUBSET Chunk, built : BOOLEAN]
    /\ recall \in [pc : {"none", "waiting", "embedding", "ranking", "answered"}, gen : 0..MaxGen,
                   lex : SUBSET Version, sem : SUBSET Version, ahead : Nat]

\* What a model without a reranker finds is added to what was found literally before it
\* was awaited; only the worker, which lets nothing come between, may rely on that.
Unchecked == host # "worker" /\ recall.pc = "embedding" /\ model \notin Reranked

\* A recall answers with notes as they are when it answers, and with nothing once the model
\* it began with is gone, whatever was saved, deleted or enabled while it waited
\* (#hybridRecall, #rerankRecall and #currentResults; docs/SEMANTIC_RETRIEVAL.md:40).
AnswersAreCurrent ==
    [][recall'.pc = "answered" /\ recall' # recall /\ ~Unchecked =>
          \A v \in recall'.lex : IsCurrent(v)' /\ recall'.gen = gen']_indexVars

\* While the index says it is ready, vectors under the current revision of a note are of its
\* text, or of the text of a save of that same revision that was rolled back after it was
\* scheduled: neither a batch that came late nor one of another model is read as current.
IndexedAsSaved ==
    /\ IndexTypeOK
    /\ State = "ready" =>
           \A n \in Notes : Exists(n) =>
               \/ emb[n].save = cur[n].save
               \/ [note |-> n, rev |-> cur[n].rev, save |-> emb[n].save] \in undone

\* In the worker, an index that says it is ready is searched as it stands: the cache holds
\* nothing that was since replaced or deleted and, unless there are more chunks than one
\* query reads (100000, sqlite-memory.ts:1551; which ones are then left out is not said),
\* every chunk of every note whose vector has a direction.
CacheIsWhole ==
    host = "worker" /\ State = "ready" /\ cache.built =>
        /\ cache.rows \subseteq Usable(Rows)
        /\ Cardinality(Rows) <= MaxCandidates => cache.rows = Usable(Rows)

\* An index under way does not stay so: it comes to be ready, or says that it is degraded,
\* though tasks fail, and models and notes change, while it is.
Settles == (State = "indexing") ~> (State # "indexing")
=============================================================================
