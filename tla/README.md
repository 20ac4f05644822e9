# Afternote: models, checks and proofs

Afternote keeps a person's notes in one encrypted vault on their Mac, and lets
AI connectors (Codex, Claude Code, Claude Desktop) read and write them only as
far as the owner has agreed. This directory holds TLA+ models of the parts of it
where agreement, persistence and failure meet, the TLC instances that check
them, and proofs for every size of instance.

File names without a directory below are under `src/apps/local/src`.

## 1. The system

One background process, the *worker* (`vault-broker-worker.ts`), owns the vault.
A native *gateway* (`native/vault_broker_gateway.mm`) accepts XPC connections of
the owner's application and of the connectors' adapters, and hands the worker one
message at a time. The worker answers each before it takes the next: **there is
no parallelism between handlers**. What makes the system hard lies elsewhere:

* **Asked, then answered.** Whatever needs the owner is two messages. The first
  puts a prompt (`#pendingPresence`), the second carries the owner's answer.
  Anything may happen in between: other requests, the deadline of the prompt, a
  disconnect, a lock, another prompt about the same thing, a restart.
* **Two copies.** Much state is in process memory and in the vault (the work
  session, the lifecycle state and epoch, sessions), and a handler updates them in
  several commits.
* **Awaited.** The semantic index works through a queue of promises while notes
  change; the adapter of a connector has several calls under way over one session;
  a command about a connector waits for the host's tool and for the owner.
* **Stops.** launchd restarts the worker whenever it exits
  (`packaging/launch-agent.plist:35`), and it exits on purpose when it can no
  longer trust its state. A crash may come between any two commits or file
  operations, and inside a commit. The next worker may be of another build.
* **Time.** Windows, prompts, decisions and sessions expire by a wall clock that may
  step back.

### Inventory

| Component | State | Operations | Hard part | Correct when |
| --- | --- | --- | --- | --- |
| Work sessions, activations (`vault-broker.ts` 599-908, 1114-1237, 2515-2768) | the window in memory and its row, `broker_sessions`, begun activations | request, complete silently, approve, deny, authorize, inspect, set policy, disconnect, lock, restart | several commits per handler, clock, policy changed under a window | authority only inside a window the owner opened, never stretched, revived or reopened |
| Grants, pairing, revocation (`vault-broker.ts` 323-598, 1840-2340) | pairing requests, clients, grants, reconnect rows | request, approve, exchange, deny, revoke, rotate, prepare a reconnect | stale prompts, two requests for one key, A-B-A of the reconnect state | a revoked connector stays out until the owner lets it in; an answer does what its prompt showed |
| Vault lifecycle (`vault-broker-worker.ts` 447-1008, 2036-2217, 2676-2842, 3102-3380) | lock state, epoch, row, prompts, pending challenge ids, owner and library sessions, deferred audit | every request's admission, lock, unlock, recovery, prompts and answers, disconnect, close | a half-finished unlock, prompts across lock and restart, recovery excluding the rest | nothing is held under a lock; authority is of the epoch in force |
| Clean restore (`encrypted-vault-restore.ts`, `sqlite-memory.ts` 2371-2493) | marker, vault, baseline, seal, workspace, staging copy | begin, approve, import, publish, audit, seal, finalize, resume | crash at every file operation, changing export, other program's vault | ends with the approved export, audited once, and no leftovers |
| Encryption migration (`encrypted-vault-migration.ts`) | marker, candidate, rollback copy, plaintext artifacts | migrate, resume, finalize | as above, with an atomic exchange | no note lost, no plaintext kept that the owner had deleted |
| Forget decisions and audit (`vault-broker.ts` 943-1112, 1239-1275, 1354-1520, 2342-2480; `broker-audit-reader.ts`) | decisions, audit rows, `#maintenanceError` | request, approve, execute, sweep, record, read, prune | an authorization recorded before and an outcome after, a sweep that fails | every outcome is that of the change it records, and every change has one |
| Library sessions and mutations (`vault-broker-library.ts`, worker 1313-1480, 3256-3344) | sessions, note revisions named by prompts | open, read, create, update, delete | the note edited between prompt and answer | a deletion removes the revision that was shown, an edit replaces the one it was made from |
| Note store (`sqlite-memory.ts`, `note-database.ts`) | notes, revisions, projections, schema version | remember, revise, forget, browse, upgrade the schema | projections in the note's transaction, pages under change, an upgrade cut short | projections are those of the current revision, no old note is changed without a backup |
| Derived semantic index (`derived-index-coordinator.ts`, `sqlite-memory.ts` 1300-1560) | queue, generation, counters, vectors, cache, recall in flight | initialize, replace, remove, enable, disable, wait, recall | awaits between reads and writes of the index | an index called ready is that of the notes; an answer is of notes as they are |
| Retrieval, temporal, organization (`retrieval.ts`, `temporal.ts`, `organization.ts`) | none | pure functions | ties, boundaries | equal to a reference definition |
| Interchange, exports (`interchange.ts`, `exclusive-export.ts`, `markdown-export.ts`) | a file being written, its audit row | read, write, publish | exclusive publication, failure after it | never replaces a file, its outcome is true |
| SQLCipher binding (`sqlcipher-database.ts`, `native/sqlcipher_addon.cc`) | handles, statements, transaction depth | open, query, transaction, backup, exchange, lock | nested transactions, hot journals | all or nothing |
| Gateway and owner broker (`native/vault_broker_gateway.mm`, `owner_broker*.mm`) | connections, request numbers, worker process | route, answer, restart worker | late and duplicate replies | a reply reaches its asker |
| Notes window (`native/notes_retrieval.mm`, `note_editor_state.mm`) | query generation, draft, save in flight | search, edit, save, close | stale replies | a stale reply changes nothing, no draft is lost |
| Broker client, adapters (`vault-broker-client.ts`, `mcp-broker-adapter.ts`, `packages/mcp`) | session of the process, calls under way | pair, activate, call, retry | timeouts, retry after restart, calls that fail together | a save is executed at most once, and what is told of it is true |
| Connector integrations (`connector-lifecycle.ts`, `codex-integration.ts`, `claude-code-integration.ts`, `claude-desktop-connector.ts`) | entries in the host's configuration | install, remove, rotate, undo | one step of several failing, a user who edits | entries of others are kept, answers are true |
| Client identity (`mcp-client-identity.ts`) | identity file, backups, approvals | inspect, approve, back up, replace | another rotation while the owner is asked | replaced only as approved, with a backup |
| Installation (`packaging/*.sh`) | installed versions, active link, launch agent | install, activate, roll back, uninstall | failure after the switch | a version that works is active |
| Owner application views, command line, client signer, release scripts | presentation, one-shot | | | |

They interact like this. A connector's adapter (BrokerClient) calls the worker
through the gateway: pairing makes a client and a grant (ConnectorAuthority),
activation makes a session under that grant, silently if a work session is open
(WorkSessions); every request is authorized against session, grant and work
session, and logged before it changes a note and with the change (NoteStore). A
saved note is handed to the index (DerivedIndex). The owner's application asks and
answers prompts, and locks the vault: the lock (VaultLifecycle) ends all sessions,
work session and prompts, expires the open decisions (NoteStore), closes the vault's
handles and leaves only the lifecycle row. Recovery (CleanRestore,
EncryptedMigration) runs only when no handle of the vault is open and excludes
every other request while it is pending. An opened vault is first brought to the
schema of the build (VaultFiles). Connectors are put into their hosts by commands
(ConnectorHost), which rotate an identity with the owner's approval
(ClientIdentity) that prepares the broker for it (ConnectorAuthority).

## 2. The modules

| Module | Models | Role |
| --- | --- | --- |
| `WorkSessions` | work sessions and activations | detailed |
| `OwnerWindow` | what a work session promises | abstract; `WorkSessions!KeepsPromise` |
| `WorkSessionsProofs` | | theorems about `WorkSessions`, which implements `OwnerWindow` |
| `ConnectorAuthority` | pairing, grants, revocation, reconnect | detailed |
| `ConnectorAuthorityProofs` | | theorems about `ConnectorAuthority` |
| `VaultLifecycle` | lock, epochs, prompts, recovery | detailed |
| `VaultGate` | what the lock promises | abstract; `VaultLifecycle!KeepsGate` |
| `VaultLifecycleProofs` | | theorems about `VaultLifecycle`, which implements `VaultGate` |
| `CleanRestore` | restore of an export, crash by crash | detailed |
| `OneRestore` | what a clean restore promises | abstract; `CleanRestore!RestoresOnce` |
| `CleanRestoreProofs` | | theorems about `CleanRestore`, which implements `OneRestore` |
| `EncryptedMigration` | migration of plaintext notes, crash by crash | detailed |
| `EncryptedMigrationProofs` | | theorems about `EncryptedMigration` |
| `NoteStore` | notes, revisions, pages, deletion, forget decisions, the log | detailed |
| `NoteStoreProofs` | | theorems about `NoteStore` |
| `DerivedIndex` | the semantic index and the recalls that read it | detailed |
| `BrokerClient` | calls of a connector, their session and retry | detailed |
| `VaultFiles` | backups before an upgrade, exports | detailed |
| `NoteCopiesProofs` | | theorems about `VaultFiles` and about `DerivedIndex` |
| `ClientIdentity` | identity file and rotation | part of `ConnectorHost` |
| `ConnectorHost` | a host's configuration, with `ClientIdentity` | composition |
| `ConnectorSideProofs` | | theorems about `BrokerClient` and about `ConnectorHost` |
| `MC*` | constants and symmetry for TLC | instances |

An operator named `X_Something` placed before `X` and commented "Mutant" or "Bug"
is a variant of `X` with a plausible slip. No specification uses it; each property is
known to fail when it takes the place of `X`.

### WorkSessions

`ws` is `#trustedMcpWorkSession`, `wsRow` the row of
`broker_trusted_work_sessions`, `sess` the rows of `broker_sessions`, `begun` is
`#activationTtls`, `asked` the activations before the owner. `policy` is the
routine authentication window. `windows` is history: each window the owner
approved and whether it was withdrawn since.

Each action is a handler. Every handler about a connector begins with
`#liveTrustedMcpWorkSession`, which ends a lapsed window: `CheckedWs`,
`CheckedSess` and `KeepCheckedWs` are that check, and the handler goes on from
what it left. Handlers of several commits come with the variants that stop in
between: `ExpiryFails`, `ApproveFails`, `ApproveCrashes`, `SetPolicyFails`,
`Crash`.

Abstracted: signatures, nonces, the replay table, capabilities and the audit rows
of ordinary requests. A grant and its client are one fact (`live`). How long a
prompt stays open is `Deny`, the owner's no and the timeout alike. A handler reads
the clock once. A failing single statement leaves the state unchanged and is not
an action.

Two things the model shows that one might not expect, neither of them against a
promise of the code or its documents: an activation may be completed over another
connection than the one it is bound to; and if the last transaction that ends a
lapsed window fails, its riders stay `active` in their rows, although no request of
theirs is ever accepted (`UseInWindow`).

### ConnectorAuthority

`row`, `client`, `grants`, `sess`, `reconnect` are the tables; `prompts` the owner's
open prompts with the snapshot each took. A prompt's answer checks the snapshot
again in the transaction that acts on it. `ours` is what this boot made, `late` the
pairing requests past their time. `shown` and `moved` are history: the grants in
force that a prompt was about, and whether the clients of its kind changed since.

Connections are left out, so a disconnect may drop any prompt and end any session:
more behaviours than the code has. Left out are retention of old request rows,
scopes, the owner-inspection session, and all audit rows but terminal revocations.
`Slots` is how many prompts may be open (the code's limit of 32 is for pairing and
activation prompts only).

The late check `#activePairing` marks any row past its time as expired, a paired
one too (`CompleteLate`): the grant is unharmed. Two clients sharing an install
identity make a reconnection ambiguous for ever, which `RevokedIsReplaceable`
therefore excludes; the tests expect it (`vault-broker.test.ts:413`). Rotation and
replacement prompts exist in development builds only and lack the digest that
protects the reconnect prompt, so `PreparedAsShown` is about the others.

### VaultLifecycle

`state`, `epoch`, `loaded`, `bootId`, `open`, `prompts`, `pendingLifecycle`,
`pendingRecovery`, `sessions`, `deferred` are the worker's fields; `row` is
`broker_lifecycle_state`, `granted` the boots with active sessions in the vault,
`vault` and `marker` what is on disk. An epoch is a boot id or an id drawn by an
unlock: a number, from one counter, since both are random and fresh.

Every request goes through `Pruned` (expired prompts are dropped, with the pending id
that no longer has one) and `Admitted`. An answer is claimed first (`Claim`), whoever it
is for; then the action does what the handler of that kind of prompt does. Sessions of
the owner and of the library end by their own deadlines too. `UnlockFails` is an unlock
that stops after some rows of the deferred audit; `RecoverFails` and `RestoreStays` a
recovery that stops at a commit or leaves its marker. `Down` is the worker gone: memory
is lost.

Activations stand for all authority of the connectors in the vault. Pairing,
revocation and deletion prompts are cleared by a lock as the ones modelled are. A
failed lock transaction makes the worker exit and is a `Crash`. The branch of
`#completeLifecycleTransition` for a prompt of another state or epoch is a guard
here (`AsShown`) that no reachable state fails. The development bypass of owner
presence is not modelled.

### CleanRestore

`marker` is the recovery marker, `vault` what is at the vault's path, `temps`,
`bases`, `seals`, `stage` the other files, `journal` a rollback journal beside the
vault. `pc` is where the worker is inside the one long handler
(`#executeApprovedRecoveryRestore`): each step ends with one change that outlives
the process. Digests are the contents they are of, random names the number of the
attempt that chose them, `fsync` is taken to work, and the marker's temporary file
and `rename` are one change. Of all this `OneRestore` sees whose vault is at the path, what
it holds and how often it was audited, and whether there is a marker (`Once` is the
refinement mapping): crashes, temporary files, seals and the turns of the marker's phase
are invisible to it.

### EncryptedMigration

`vault`, `candidate`, `rollback`, `retained` are the files of those roles, each the
version of the notes in it and whether it is encrypted; `place` says where each
plaintext backup is, `marker` is the migration's marker, `journal` a rollback journal
beside the vault. `pc` is where the worker is inside the one handler
(`#executeApprovedRecoveryMigration`, then `migratePlaintextVault` or its resume),
`todo` the backups it still has to deal with. A failing step exits the worker
(`Fails`), and launchd starts it again (`Boot`).

A policy is the owner's two decisions, about the displaced plaintext and about the
backups; `Unattributed` is what a marker of the time before the broker says.
`asked` is the snapshot the prompt took, which the answer compares. `newest` and
`bound` are history: the notes as they were last written in plaintext, and the
backups the owner decided about. The comparison of the source and the exchange are
one step, since the lifecycle lock keeps other programs out; anywhere else an
older program may still change the plaintext (`Edit`). A move to another volume is
a copy and a removal, and a crash may come between.

Left out: unsafe paths and symbolic links, the comparison of rows (a copy is taken
to be right or absent), paths the owner names besides those that are found, and the
counts in the reply, which on a resume are only of what that attempt found.

Three things the model shows of the migration, which its liveness property
excepts. If the plaintext was moved, a crash between the marker `cleanup_complete` and
its removal makes every later attempt refuse the file at the destination, its own
(`validateCombinedLegacyMovePlan`, `:562`, runs before the branch for that marker,
`:267`). If the plaintext changed before a resume, see the finding below. A crash
inside a commit of the new vault leaves a rollback journal, which a read-only open
cannot play back. None loses a note. The encrypted rollback copy is kept by every
migration and removed by nothing, as `encrypted-vault-migration.test.ts:58` expects.

### NoteStore

`rows` are the notes, `revs` their revisions, `listed` one projection (a smart view,
which lists notes of one kind) for all of those that share the note's transaction.
`audit` is the log; `pend` the request being carried out, from the commit of its
`authorized` row to the one of its outcome. `editor` is what each window has loaded,
`prompt` the question whether to delete, `pager` a walk through the pages of a list.
`decision` is a decision to forget with its deadline (`due`), `sweeper`
`#maintenanceError`. `consented` is history: the revisions the owner agreed to
delete.

A mutation is `Begin`, then `Commit` (change, projections and success row in one
transaction) or `RollBack` (its outcome in another, which may fail too). A request to
forget is three commits: its row, the decision, the reply (`AskForget`, `InsertDecision`,
`Asked`). A decision that was inserted but not returned is `untold`; if reading it back
fails, its row already has an outcome when it is due, and `Sweep` fails for as long as it
is there: `Jammed`. A lock stores `expired` for the decisions that are open and leaves
their rows `authorized` (`vault-broker.ts:2352-2354`), where a sweep gives the row its
outcome; `locked` is history and says which of the two expired a decision. The path by
which a connector could forget a note by a prompt of the worker
(`vault-broker-worker.ts:960`, `:1111`) is never reached, since its operation is not one
the worker admits, and is not modelled.

Left out: signatures of a decision, search pages, the list of revisions, rate
limits, pruning of the log and paging through it, the other projections.

### DerivedIndex

`cur` is the current revision of each note and the save that wrote it, `emb` the rows of
vectors, `queue` the promise chain of the coordinator, `batch` what is awaited now, `gen`,
`preparing`, `failed` and `indexing` its counters, `cache` the semantic index in memory,
`recall` the search in flight with what it has found so far. A task of an old generation
is dropped (`DropStale`), a batch that failed is tried again as a whole
(`embedWithRetries`, `sqlite-memory.ts:2638-2666`: `BatchTires` is where this begins to be
reported, `BatchFails` where it ends), and a note that was edited in between is passed
over (`VectorsWritten`). `Update` and `Remember` come with a rollback (`kept`): the
coordinator has been told by then.

A text is cut into chunks (`Chunks`), each with a vector. What a search goes by is less
than all of them, although the index says it is ready: the query that builds the cache
has a limit of 100000 chunks and no order (`sqlite-memory.ts:148`, `:1551`), so beyond it
the database chooses (`Fetched`); and a vector that cannot be decoded or has no direction
is passed over without a word (`:1563-1569`, `Usable`). `CacheIsWhole` therefore promises
that the cache holds nothing outdated, and every usable chunk as long as the limit is not
exceeded. In the run the limit is 2: one of the texts has two chunks, and two notes may
exceed it.

`host` tells the worker, which serves no other request while a search is awaited, from a
process that uses the memory directly and does. In such a process, and with a model
without a reranker, `#hybridRecall` (`sqlite-memory.ts:1393-1433`) returns the notes it
found literally before it awaited the query's vector, without comparing them again as
the comment at `:1493` and `docs/SEMANTIC_RETRIEVAL.md:40` promise; `Unchecked` excepts
it from `AnswersAreCurrent`. The application only has the worker. Two more limits show
as exceptions: a save that was rolled back after it was scheduled can leave its vectors
under the revision that the next save takes (`undone`), and outside the worker the cache
can miss a note.

Left out: the components of vectors and scores (a search finds any subset), the reset of
an incompatible index, the files of a model.

### BrokerClient

`call` is how far each tool call of an adapter has come, `delegate` the session its
process works with, `wire` and `replies` what the gateway still holds, `executed` what
the broker has done, `sessions` those it has activated. One request of a process is on
the wire at a time. A request that timed out stays on the wire and may be executed
later (`Execute`); an admitted one may fail and be rolled back, and one of a locked vault
is answered with `vault_locked`, both `failed` here. A reply may be lost (`Lose`) or be no
reply to this request (`Garbled`), a session ends or is revoked at any time, and the
broker stops and restarts: a request of an earlier boot is told so before its session is
looked up (`Verdict`). `Reactivatable` is which failures let a call
be made once more; a save is not one of them after it may have been executed. A call that
ends otherwise ends with an error, of which the model keeps the kind (`Told`): one the
broker answered, or an activation that failed, says that this attempt was not executed
(`refused`); a timeout, a lost reply or one that cannot be read leaves it open
(`unknown`). `SessionsAreShared` says less once an activation has failed for a call: its
session may have come to be after the client stopped waiting, and no call works with it.

Left out: pairing as the client runs it, encodings and the schemas of the tools.

### VaultFiles

`vault` is the schema's version and the notes, `backups` the published backups by
their names, which are a version and a digest: two encrypted copies of one content
have different ones, two plaintext copies have the same (`Fresh`). `pc` is where the
worker is in opening the vault (`Copy`, `Place` or `Reuse`, `Recheck`, `Upgrade` once
per version) or in making an export (`Digest`, `WriteInterchange`, `WriteMarkdown`,
`Link`, `Record`). `Open(b)` is any build that may be installed, so that an upgrade cut
short is taken up by an older or a newer one. `Fault` counts what goes wrong: a death
(`Dies`), a damaged copy, a damaged backup, an export that fails at any of its steps,
after its file has its name too.

An export that fails after it was linked is told as an error though the file is there
and whole; a death leaves its row `authorized`. A plaintext vault that finds a damaged
file under the name of its backup cannot be opened until someone removes the file
(`Obstructed`); an encrypted one makes a copy of another name.

Left out: loss of power (backups are not synchronized), what each version changes, the
grammar of the files.

### ClientIdentity and ConnectorHost

`file` is the identity, `rot` the rotations of commands that run at once, `gate` and
`approvals` what the owner's application did for them: approved, revoked the old
identity and prepared the broker for the new. `config` is the host's entries by name
(Claude Code has an older name as well), `cmd` where each command stands, with what it
last read. `Tool` is one call of the host's tool, which may fail before or after its
effect. `behind` is history: the names changed by others since a command last read them.
A user may put an entry between that reading and the call, which has no comparison of
its own; the properties except those names. A reading may fail (`Unreadable`): before a
change that refuses the command, after one it has the change undone, and while undoing it
is reported as not restored. Claude Code's `remove` refuses
an entry of its older name that this installation made; its `install` removes it.

The last comparison of the identity (`mcp-client-identity.ts:147`) and the rename
(`:148`) are two steps, `Compare` and `Replace`: commands are processes of their own and
nothing locks the file. Two rotations that the owner approved for the same old identity
may both pass the comparison, and then the second rename discards the identity the first
one put there, which nobody approved to replace and of which there is no backup.
`overtaken` is history: the commands that had compared when another renamed.
`ReplacedAsApproved` excepts them and nobody else: the old identity they inspected was
approved to be replaced and is backed up, the one they discard is neither.

Left out: modes and owners of the files, the package for Claude Desktop. Of an entry the
model keeps whose it is and whether its program is there. When Codex's entry is put back,
only its command and arguments are (`codex-integration.ts:404-416`); an environment or
timeouts it had are lost without a word, which the properties, being about whose entries
there are, do not see.

## 3. What the runs check

| Run | Instance | What it shows |
| --- | --- | --- |
| `work_sessions` | two activations of a connector and one of the local interface, one connection, policies 1 and 2, clock to 2, two boots, two windows, two begun | the properties of `WorkSessions`, and the refinement of `OwnerWindow` |
| `connector_authority` | three requests (two of one key, one of a replacement), two prompts | pairing, revocation and reconnect of a connector, without sessions |
| `connector_sessions` | a connector and the local interface, whose key may pair again, one session, a development build | a revoked identity can always be replaced, and no session comes back with its key |
| `vault_lifecycle` | two connections, two prompts, five epochs, three refusals, two deferred rows | the invariants of the lifecycle and the refinement of `VaultGate`; no deadlock |
| `clean_restore` | two exports, three crashes, two edits, another vault, torn commits, six attempts (as many as those allow) | the end state of an interrupted restore, that it is reached, and the refinement of `OneRestore` |
| `encrypted_migration` | two backups, six policies, two crashes, two edits, an earlier migration, torn commits | the notes, the plaintext and the backups through an interrupted migration, and that it ends |
| `migration_discard` | one backup, plaintext kept, one crash, one edit | violation, see the findings |
| `note_store` | three notes (two at the start), two windows, one decision, three revisions, three rows of the log, one death | edits, deletions, pages, decisions and their log; a failed sweep does not last |
| `derived_index` | two notes, two models (one with a reranker), texts of one or two chunks, two chunks a query, vectors of zeros, batches of one, three saves, one search, two generations, both hosts | the index and the search against changes of notes and models; the index settles |
| `broker_client` | two saves and a search of one process, two boots, three sessions | at most one execution of a save, true answers, a shared session |
| `vault_files` | builds of three schemas, one destination, two edits, two exports, two faults | backups and exports through faults and changes of build; an opening can be repeated |
| `connector_host` | two commands, three hosts, one edit, two new identities | entries of others, answers of commands, rotation of the identity |

Why the bounds are enough. Two of everything that is exchanged between a question
and its answer (prompts, requests of one key, clients, windows, boots, commands) shows
every A-B-A the code guards against; the third request is the replacement. The
clock reaches one past the end of the shorter window and the end of the longer,
so that both lapse and inactivity happen, and steps back. A second boot restores
what the first stored, and a second window can be mistaken for the first.
`MaxDeferred` 2 with three refusals overflows the queue once. Five epochs are two
restarts and two unlocks; `Down` leaves one for the boot that follows. Three
crashes suffice for a resume of a resume that is itself interrupted. In the migration
two do, since all that a resume goes by is on disk; two edits make an outdated
candidate of an outdated candidate, and two backups let one be dealt with, or
appear, while the other waits. Three revisions let an edit be made from an outdated one;
three rows of the log are three requests, two of which may race the third. A page
of one note makes two pages of two notes, and the third note appears
between them. Two saves and a search fail over one session together, and one of them
renews it before the others come back. Of three schemas the middle one is where an
upgrade is cut short; two faults damage a backup and its repetition. Larger
counters add repetitions of the same states. Interchangeable identities are
symmetric; runs with liveness use no symmetry.

Deadlock is checked in `work_sessions`, the two runs of `ConnectorAuthority`,
`vault_lifecycle` and `vault_files`. The others end: after a restore or a migration there
is nothing left to ask for, and calls, commands and saves are used up.

What each property is for:

* *WorkSessions.* `WindowIsApproved`, `UseInWindow`, `SilenceInWindow`: authority is
  inside an approved, unwithdrawn window through crashes, policy changes and clock
  steps. `DecidedOnce`: no activation without its own answer or its own window, and
  none twice. `KeepsPromise`: each step is one `OwnerWindow` allows.
* *ConnectorAuthority.* `OneGrantEach`: authority is of one pairing;
  `RevokedKeyStaysOut`: neither an old request nor a race lets a revoked connector in;
  `RevokesWhatWasShown`, `PreparedAsShown`: an answer does what its prompt showed;
  `RevokedIsReplaceable`: a revocation is whole and leaves nothing that forbids a
  replacement.
* *VaultLifecycle.* `LockedIsBare`, `OneEpoch`: nothing is held under a lock or from
  an earlier epoch, and recovery and service exclude each other; `PendingIsAsked`: no
  decision stays pending that nobody can answer; `Accounted`: each refusal of an unlock
  is recorded once, or counted as dropped; `KeepsGate`: every step is one `VaultGate`
  allows.
* *CleanRestore.* `FinishedAsApproved`: what is left when it is over, down to the last
  temporary file. `RestoresOnce`: every step, interruptions and recoveries included, is
  one that a single restore of the approved export may take; so a vault of another
  program is not touched (`StrangerIsKept`, proved), and a restore that is over is not
  begun again. `ResumesUnhindered`: it is over in the end, unless it stays in one of the
  three states of `Hindered` (a torn commit, the other vault, another export).
* *EncryptedMigration.* `NotesAreKept`: no interruption, edit or exchange loses the
  newest notes; `AsDecided`: when it is over, the plaintext and the backups are as
  the owner decided. `ResumesUnhindered`: it is over in the end, unless it stays in one
  of the states of `Hindered`. There are six policies, each decision about the displaced
  plaintext with each other one about the backups.
* *NoteStore.* `EditsAreChained`: no edit is lost to another window or to a connector,
  and the view is that of the current revision; `PagesAreWhole`: a walk through pages
  misses and repeats nothing that stayed in its list; `DeletedAsConsented`: only the very
  revision the owner agreed to is deleted; `LoggedWithTheChange`, `DecisionsAreLogged`:
  log, notes and decisions say the same after every failure, but for the row of a decision
  that a lock expired; `ServesAgain`: a failed
  sweep does not close the vault for good.
* *DerivedIndex.* `IndexedAsSaved`, `CacheIsWhole`: an index called ready is that of the
  notes as saved, and what is searched is all of it that one query reads;
  `AnswersAreCurrent`: an answer is of notes as they are and of the model in use;
  `Settles`: an index does not stay under way.
* *BrokerClient.* `SavedOnce`, `SavesAreTold`: late requests, lost replies and the retry
  make no second note and no false answer; `SessionsAreShared`: calls that fail together
  renew their session once.
* *VaultFiles.* `BackedUp`, `ExportsAreWhole`, `Retryable`: no old note is changed
  without a whole backup of it, an export replaces nothing and its outcome is true, a
  failed opening can be repeated.
* *ConnectorHost.* `StrangersAreKept`, `AnswersAreTrue`, `ReplacedAsApproved`: entries of
  others survive every failure of the tool, an answer tells what is configured, an
  identity is replaced only by the one approved for it, unless a rename comes between the
  last comparison and the rename.

The type invariants (`TypeOK`) are part of the first invariant of each run; that of
`VaultFiles`, which has action properties only, is proved.

### Findings

All line numbers are of the file named last.

`migration_discard`: if the plaintext changed before a resume, the candidate, the
rollback copy and the marker are removed one after the other
(`encrypted-vault-migration.ts:364`), and `removeGeneratedFile` (`:898`) throws when
its file is not there. A crash after the first removal leaves a marker that calls
for a candidate that is gone, so every later attempt fails at the same place. The
worker's message says "rerun the same command to resume safely"
(`vault-broker-worker.ts:2417`). The plaintext notes themselves are untouched.

Also seen while modelling, and excepted by name in the properties above: a restore cut
short *inside* a commit of the published vault leaves `vault.db-journal`, which the
read-only verification of every later attempt (`encrypted-vault-restore.ts:672`, `:234`)
cannot play back and `removeRestoreDatabaseSidecars` (`:727`) does not remove, although
`docs/DATA_AND_NETWORK.md:14` says the files are "retained after interruption so recovery
can resume without guessing"; the moved plaintext of a migration; the search of a model
without a reranker outside the worker; the decision whose row of the log has an outcome
before it ends, and the one a lock expires, whose row never has one; the rename of an
identity that another command's rename overtakes.

## 4. Fairness

`CleanRestore` and `EncryptedMigration`: the worker finishes what it does (weak fairness
of its steps: a handler is sequential code), it is started again when it is gone
(launchd `KeepAlive`), the owner asks again after an interruption and prompts end (weak
fairness of `Begin` and `Reject`), and the owner who is asked again and again agrees in
the end (strong fairness of `Approve`). The last two are assumptions about a person:
without them nothing obliges a recovery to go on. Crashes are bounded, as in any claim
of recovery. In the migration an owner who is asked again often enough chooses what was
chosen the first time: the code refuses another decision once one is in the marker.

`NoteStore`: the sweep recurs on a timer, so that it is tried again whenever requests
leave it room (strong fairness of `Sweep`); a broker is opened again, a request that
cannot commit is rolled back and a request to forget is answered (weak fairness of
`Open_`, `RollBack`, `Asked`: steps of one handler); time passes.

`DerivedIndex`: the promises of the queue run in turn, and a model answers or fails in the
end (weak fairness of the start of a task and of its end, whichever it is).

`VaultFiles`: some build opens the vault again when it is closed, since clients keep
asking and launchd starts the worker, and each step of an opening is taken (weak
fairness). Nothing is assumed of exports.

The other modules promise safety only. What an owner, a connector or a command does next
is not the broker's to decide, so the code justifies no fairness there.

## 5. What is proved

`WorkSessionsProofs`, for every set of activations, clients, connections and
policies, and every bound, from `ConstantsAssumption` alone (each connector is a
client, policies are positive, the rest are numbers):

| Theorem | States |
| --- | --- |
| `TypeCorrect` | `Spec => []TypeOK` |
| `Inductive` | `Spec => []IInv` |
| `RowAgrees` | `Spec => []RowIsMemory` |
| `WindowApproved` | `Spec => []WindowIsApproved` |
| `SessionsBounded` | `Spec => [](NoSessionOutlivesWindow /\ ActiveOfThisBoot)` |
| `IdleIsWholeWindow` | `Spec => []IdleNeverLapses`: the inactivity limit is the whole window and never ends one |
| `UsesInWindow` | `Spec => []UseInWindow` |
| `SilentInWindow` | `Spec => []SilenceInWindow` |
| `DecidesOnce` | `Spec => DecidedOnce` |
| `AsksOnce` | `Spec => []OneAsking` |
| `Implements` | `Spec => KeepsPromise`, the refinement of `OwnerWindow` |

The argument. The properties are not inductive by themselves: that the work session
is the newest window needs to know that it was not withdrawn; that a live one has
begun needs how its own readings lie. `IInv` therefore adds `Sound(ws)` and
`Sound(wsRow)` (a work session numbered `n` is the newest window, open, with its
bounds, as long as the policy, and its start is not after its last activity or
reading) and `Forgotten` (a closed broker has nothing in memory). One clause matters
more than it looks: the clock may step back before the start of a window, and it is
the *stored reading* that makes the lapse check end the window then. Lemmas first
say what the operators do (`ObservedType`, `SoundTouched`, `CheckedSound`); then each
handler is one of three shapes: a quiet step that keeps the windows (`QuietStep`), a
step that withdraws the window (`WithdrawStep`), or one that activates a session
(`ActivatedBounds`). Type correctness is proved first, by itself, and cited.
`UseInWindow` and `SilenceInWindow` follow from `IInv` in each state: a request is
accepted only after the lapse check.

The refinement needs one fact more, `OneAsking`: an activation is before the owner at
most once, so that an answer takes it out of `asking`, and no session is of a boot to
come, so that a restart brings none back. Most handlers then only take away
(`FadeStep`, `CheckedFades`): the window keeps its bounds or is gone, and with it all
it let in, since no live connector session rides window 0 (`Unridden`). The rest ask,
answer (`ApprovalAgrees`) or activate under a live window. The proof corrected the
abstraction: when the clock steps back inside a window, the broker ends it at the next
check, and an answer in that check's handler opens another while the stored one would
still hold, by the clock alone. `OwnerWindow` therefore lets an answer replace an open
window. That takes a clock of 3 and policies of 3; the run's clock ends at 2.

`NoteCopiesProofs` is about two components that share no variable, both made of the
notes. `VaultFiles`, for any set of builds one of which is the newest, any destinations
and any number of edits, exports and faults (`BuildsAssumption`):

| Theorem | States |
| --- | --- |
| `FilesInductive` | `Spec => []IInv` |
| `FilesTypeCorrect` | `Spec => []TypeOK` |
| `AlwaysBackedUp` | `Spec => BackedUp` |
| `AlwaysWhole` | `Spec => ExportsAreWhole` |

The argument. An upgrade step knows only that `pc` is `upgrade`; that a backup is there
was checked steps before. `IInv` carries it along: while a copy is made the vault is at
the version that was read (`Unchanged`) and the copy is of the notes as they are
(`CopyIsTheirs`), what was placed is whole until it is verified (`Placed`), and while
an upgrade is under way there is a whole backup of that version and those very notes
(`Upgrading`), which no step can take away. For exports it says that one under way has
its event, still open, and that its file is there once it is linked (`Pending`).
Which steps change the vault, a destination or the log at all are lemmas of their own
(`VaultChanges`, `FilesChange`, `LogChange`).

`DerivedIndex`, for any number of notes, any models, some of them with a reranker, both
hosts, any batch size, and any number of saves and generations (`ConstantsAssumption`: a
batch holds a note at least, and the bounds are numbers):

| Theorem | States |
| --- | --- |
| `IndexInductive` | `IndexSpec => []IndexIInv` |
| `VectorsAreAsSaved` | `IndexSpec => []IndexedAsSaved` |
| `CacheHoldsWhatIsRead` | `IndexSpec => []CacheIsWhole` |
| `RecallsAnswerWithCurrentNotes` | `IndexSpec => AnswersAreCurrent` |

The argument. A batch is written long after it was queued, and what tells whether it is
still of the note is a comparison of revisions. So the invariant says of every version in
the queue, in the batch and in the rows that it is `Known`: it was saved under its
revision and replaced since, or its note deleted, or its save was rolled back
(`VectorsHold`, `QueueHolds`). Since a revision is never used twice but after a rollback,
a known version with the revision of a note is of that note's text, or is one of `undone`.
The cache and a recall rest on the count of tasks under way: `indexing` is the sum of the
sizes of the tasks of this generation that are queued (`LedgerHolds`, stated by the
partial sums), so that it is 0 only when none of them is left to write. While it is 0 in
the worker nothing changes the rows, and whatever adds a note makes it more than 0 or
drops the cache (`CacheHolds`). So a cache that is there is still what one query returned,
without the vectors that have no direction. A recall of the worker, finally, has the
worker to itself: no save and no change of model comes in before it answers, and it waits
for the queue to be done before it looks at vectors (`RecallHolds`).

`VaultLifecycleProofs`, for any connections, any finite set of prompts and all bounds
(`ConstantsAssumption`; the code keeps at most 32 prompts, and a set that is not finite
would have no number of refusals to count):

| Theorem | States |
| --- | --- |
| `LifecycleTypeCorrect`, `LifecycleInductive` | `Spec => []TypeOK`, `Spec => []IInv` |
| `LocksBare` | `Spec => []LockedIsBare` |
| `EpochIsOne` | `Spec => []OneEpoch` |
| `AlwaysAsked` | `Spec => []PendingIsAsked` |
| `AlwaysAccounted` | `Spec => []Accounted` |
| `KeepsTheGate` | `Spec => KeepsGate`, the refinement of `VaultGate` |

The argument. A prompt outlives many requests, so what makes its answer safe is that
what it was asked under cannot have changed while it was open: `PromptsHold` says it for
each kind (one that serves needs the vault open, an unlock a locked one, a recovery one
not loaded). `MemoryHolds` ties the worker's fields to each other and to the row,
`DiskHolds` bounds every epoch by the last that was drawn, so that a new boot or unlock is
never an old one. The refinement splits the steps in two: those that only ask, or take
away (`QuietGate`), and those that change the row; a request that opens the vault opens an
epoch of this very boot.

`ConnectorAuthorityProofs`, for any number of clients, requests, sessions and prompts and
every nonempty set of kinds (`ConstantsAssumption`):

| Theorem | States |
| --- | --- |
| `AuthorityTypeCorrect`, `AuthorityInductive` | `Spec => []TypeOK`, `Spec => []IInv` |
| `GrantsAreSingle` | `Spec => []OneGrantEach` |
| `RevocationsAreWhole` | `Spec => []RevokedIsReplaceable` |
| `RevokedKeysStayOut` | `Spec => RevokedKeyStaysOut` |
| `RevocationsAreAsShown` | `Spec => RevokesWhatWasShown` |
| `PreparationsAreAsShown` | `Spec => PreparedAsShown` |

The argument. A prompt and its answer are far apart, and what counts is what the prompt's
snapshot still says when it is compared. Revisions of a client only grow (`Grows`), and
grow with every change of its grants. So a client whose revision is the pinned one still
has the grants that were shown; and a connector whose clients have changed since has one
the snapshot will not match again, however the rest of its state comes back to what it
was. This is why the comparison of revisions is enough against an A-B-A, which the runs
show for two prompts only.

`ConnectorSideProofs` is about two components that share no variable, the client's side
of a connector. `BrokerClient`, for any processes, calls and assignment of one to the
other, and all bounds (`ConstantsAssumption`):

| Theorem | States |
| --- | --- |
| `CallsInductive` | `Spec => []IInv` |
| `SavesAreSingle` | `Spec => []SavedOnce` |
| `SavesToldTruly` | `Spec => []SavesAreTold` |
| `SessionsShared` | `Spec => []SessionsAreShared` |

The argument. Each of the two attempts of a call leaves the process once, and leaves the
wire when it is executed. A save has a second attempt only after a reply said that the
first was not executed, which then stays so, since nothing of it is on the wire. Timeouts,
lost replies and those that cannot be read end a save without a second attempt: what it is
then told is that the outcome is not known, which neither `done` nor `refused` claims.

`ConnectorHost` with `ClientIdentity`, for any commands and hosts, and any number of edits
and identities (`EditsAssumption`, `IdsAssumption`: the bounds are numbers):

| Theorem | States |
| --- | --- |
| `HostInductive` | `HostSpec => []HostIInv` |
| `CommandsTellTruly` | `HostSpec => []AnswersAreTrue` |
| `StrangersStay` | `HostSpec => StrangersAreKept` |
| `IdentitiesAreReplacedAsApproved` | `HostSpec => ReplacedAsApproved` |

The argument. A command reads the configuration once, plans calls of the host's tool from
it, and makes them one by one, each of which may fail before or after its effect. What it
read goes stale only for the names others change, which are `behind`; of every other name
the invariant says that no call left to it acts on an entry of somebody else
(`TodoHolds`), and, when it undoes, that the calls left come to the entry that stood there
first (`ComesTo`: the last call on the name leaves it so, whatever those before it did;
a call that was done but reported as failed is made again in vain). So an answer that claims
something claims it of what the calls came to (`KnowsWell`). The lemmas about the planned
calls (`RemovalsAre`, `BackIs`, `UndoIs`) hold for every configuration. A rotation carries
the identity it saw from approval to replacement; from its last comparison to its rename
that identity is the file, unless it is overtaken (`RotationsHold`).

`NoteStoreProofs`, for any finite set of notes, any windows, decisions and texts, and all
bounds (`MadeOnce`; a vault has finitely many notes, and the positions of the list are
counted):

| Theorem | States |
| --- | --- |
| `StoreInductive` | `Spec => []IInv` |
| `EditsChained` | `Spec => []EditsAreChained` |
| `PagesWhole` | `Spec => []PagesAreWhole` |
| `DecisionsLogged` | `Spec => []DecisionsAreLogged` |
| `DeletionsConsented` | `Spec => DeletedAsConsented` |
| `ChangesLogged` | `Spec => LoggedWithTheChange` |

The argument. A request writes its row of the log in one commit and changes the notes in
another; what it read for the first is what it finds in the second, because the worker
serves nothing in between (`RequestsHold`). Every step is therefore one of three: *quiet*
(the notes alone, no removal becomes a success), *saving* (one note, and one row to
success) or *removing* (one note the owner agreed to delete, at that revision, and one
row). A decision outlives many requests, and its row is its own: no request and no other
decision has it, so that whoever ends the decision finds the row as it left it
(`DecisionsHold`); one that a lock expired keeps its row open for good, since nothing
executes or sweeps an expired decision. A walk outlives many as well: the notes it has
shown are behind the cursor in the order of the list, those it owes before it, and a note
keeps its place while it is there; one that went was agreed to be deleted and is not made
again (`PagerHolds`).

`EncryptedMigrationProofs`, for any backups, any nonempty set of policies and any number
of crashes and edits, torn commits and earlier migrations included
(`ConstantsAssumption`):

| Theorem | States |
| --- | --- |
| `MigrationInductive` | `Spec => []IInv` |
| `NotesKept` | `Spec => []NotesAreKept` |
| `DecidedIsDone` | `Spec => []AsDecided` |

The argument. A crash may come between any two steps and the next attempt knows only the
disk, so the invariant is about the disk by the phase of the marker: in
`candidate_verified` the vault is plaintext and the candidate, if there is one, is of the
notes in the marker, or they are exchanged already; from `swapped` on the vault is the
encrypted one and the plaintext is at the candidate's place, or where it is kept, or gone
as decided (`DiskHolds`, `DisplacedHolds`). An attempt that starts with a marker goes by
the decision in it, so every backup that is not where it was found is where *this* decision
puts it, or on its way there (`ArtifactsHold`): a later attempt does the rest and undoes
nothing. A backup that appears after the owner was asked is not one that was shown, and the
theorem promises nothing of it until it is.

`CleanRestoreProofs`, for any exports and any number of attempts, crashes and changes of
the export (`ConstantsAssumption`):

| Theorem | States |
| --- | --- |
| `RestoreInductive` | `Spec => []IInv` |
| `FinishesAsApproved` | `Spec => []FinishedAsApproved` |
| `StrangersAreSafe` | `Spec => StrangerIsKept` |
| `ImplementsOneRestore` | `Spec => RestoresOnce`, the refinement of `OneRestore` |

The argument. As in the migration the next attempt knows only the disk. The phase of the
marker tells which files there may be, each of the attempt in the marker (`BesideHolds`),
and what the worker does next tells more (`WorkerHolds`). The audit is the delicate part:
an attempt may have audited the published vault and gone away before it sealed it. The
next one then finds a vault that is not the verified candidate, puts its baseline back
before it opens it, and audits again; so the vault that is sealed was audited once, whoever
opened the earlier ones (`VaultHolds`). The exchange happens only if nothing is
at the path or what is there was verified to be of the same export (`Safe`), so a
stranger's vault is never put aside. The refinement needs one fact more, `OfApproved`: a
marker is of the export approved last. Then most steps are invisible (`AsideTakes`,
`MarkerTurns`); a link or an exchange is the abstract `Place`, however often an attempt
repeats it (`PlaceTakes`), and the marker is removed only when the vault at the path is
the approved export audited once, which is `End` (`DropMarkerTakes`).

Every safety property and every refinement that a run checks is now a theorem, for all
values of the constants. Left to TLC for good: `ResumesUnhindered`, `ServesAgain`,
`Settles` and `Retryable` (liveness under fairness), the violation `Resumes`, and whatever
needs `ENABLED` or induction over data, which the proof system here does not do.
No module uses a `RECURSIVE` operator, so that each can be proved about.

## 6. Plan

Done: all modules of section 2, and theorems for every safety property of section 3.
Next, in this order:

1. An abstract specification, as `OneRestore` is of `CleanRestore`, that
   `EncryptedMigration` implements: the notes change their form at one moment, and the
   plaintext goes where the owner decided.
2. `Gateway`: connections, replies, owner sequence numbers, the classification of a vault
   at the start of the worker; composed with `VaultLifecycle`.
3. `NotesRetrieval`: query generations, drafts, saves in flight. `Installation`.
4. Pure algorithms: rank fusion, temporal ranges, as functions with a reference
   definition.

## 7. Not modelled, and why

Cryptography and signatures (taken to work), wire encoding, parsing and wording,
the text analysis of organization and retrieval models, keychain and code-signing
checks of the native side, views, build and release scripts (no protocol state of
their own). The native gateway is a wire that loses and delays frames in `BrokerClient`;
its own tables are not modelled. Pruning and reading of the log are left out where no
property is about them. The hazards that no property covers are two: the worker's
admission when a journal is left by a crash (modelled only where a recovery meets it) and
the owner's sequence numbers (kept in order by native code).
