# CortexDB: specifications, model checks and proofs

CortexDB is a memory store and knowledge graph for AI agents: a Go library that
keeps documents, memories, a property graph and RDF statements in one SQLite
file, optionally in PostgreSQL, with servers, clients and a live page around it.
Several processes may open one store at once (an MCP server, a CLI, a gRPC
server), so what is hard about it happens between goroutines, between
processes, and between a commit and whatever must learn of it afterwards.

This directory holds TLA+ modules for that part of the system, TLC
configurations that check them on small instances, and proofs checked by TLAPS.
Line numbers are those of the sources under `src/`.

- [1. The system](#1-the-system)
- [2. What can go wrong](#2-what-can-go-wrong)
- [3. Modules and the code they stand for](#3-modules-and-the-code-they-stand-for)
- [4. What is checked](#4-what-is-checked)
- [5. Where the code and its documentation part](#5-where-the-code-and-its-documentation-part)
- [6. What is proved](#6-what-is-proved)
- [7. Fairness](#7-fairness)
- [8. What is not modelled](#8-what-is-not-modelled)
- [9. Plan](#9-plan)
- [10. Running it](#10-running-it)

## 1. The system

### Layers

    clients, plugins, live page             clients/, plugins/, pkg/liveview
        | HTTP, gRPC, MCP
    servers and access control              pkg/rpcserver, pkg/httpapi, pkg/authz, cmd/
        |
    facade: knowledge, memory, ontology,    pkg/cortexdb  (+ agentmem, hindsight,
    inference, recall, change streams       memoryflow, graphflow, importflow, connector)
        |                     |
    vectors, chat, documents  |             pkg/core      (+ index, quantization)
        |            graph, RDF, rules,     pkg/graph     (+ cypher)
        |            change feed, inference
        +---------+-----------+
             SQLite or PostgreSQL

The facade opens one `SQLiteStore` (or its PostgreSQL counterpart) and one
`GraphStore` over the same database handle. Everything durable is rows. What
lives in memory beside them is: the vector index and the graph's node index
(copies of rows), the queue of writers, caches, the maintainer's
materialization, subscriptions, and the live page's hub.

### Components

For each: the state it keeps, its operations, whom it meets, and what makes it
correct. The list in `PROJECT.json` names the files.

**Change feed** (`pkg/graph/changefeed.go`). State: `change_log` (one event per
changed row), `change_log_meta.pruned_through`, on PostgreSQL a sequence for
`seq`. Row triggers on six tables write the events inside the writer's own
transaction. Operations: install, disable, `ReadChanges`/`Changes` (one page
after a cursor), `ChangesHead`, `SubscribeChanges` (a polling loop that
`NotifyChanges` can wake), `PruneChanges`. Used by inference maintenance, the
facade's `ChangesSince`, the live page and external mirrors. Correct when a
cursor can be a bare number: the visible prefix grows at its end only, pages
leave no gap, retention never removes events unnoticed, and replaying the
events gives the tables.

**Inference maintenance** (`inference_maintain.go`, `inference_dred.go`,
`rdfs.go`, `rdf.go`). State: inferred rows among `kg_triples`, a lease row with
the stored watermark, and per process a materialization, a cursor and a
watermark. One goroutine per process runs `step()`: look at the store, take or
renew the lease, build a baseline, then apply events and persist the diff with
the watermark, fenced on the lease. Users wait for the watermark. Meets writers
in every process, other maintainers, retention, and refreshes by hand. Correct
when the watermark never claims inferences the store lacks, a stalled holder
cannot write, explicit statements are never overwritten, and everything is
eventually inferred.

**Write turn** (`pkg/core/sqlite_writelock.go`). State: one channel with room
for one value per SQLite file and process, and per pooled connection whether it
is inside a transaction that holds the turn. Operations: wrap every BEGIN, exec,
query, prepared statement, commit, rollback and close. Meets every goroutine
that writes. Correct when there is one writer, the turn is never lost, given
back twice, or handed to a writer that stopped waiting, and nobody starves.

**Vector store** (`store*.go`, `index_sync.go` of `pkg/core`). State:
`embeddings`, `documents`, `collections`, an HNSW, IVF or flat index in memory,
and the read-write mutex `s.mu`. Operations: upsert, batch, delete by id, ids,
document, filter or collection, upsert in a caller's transaction with
`SyncUpsertedEmbeddings` after its commit, search. Hard: rows change first and
the index afterwards, in calls that mostly share a read lock; calls take `s.mu`
and the write turn in either order. Correct when the index settles to the
table's vectors, and no call is left holding or waiting for ever.

**Index snapshot** (`store_index.go`, `snapshot_*.go`, `store_close.go`,
`store_checkpoint.go`). State: the serialised index in chunks with a change
count. Operations: save, auto-save loop, load and reconcile, WAL checkpointer,
close. Hard: saving while mutations run, crashes between save and commit, close
against the loops. Correct when a loaded index, once reconciled, equals the
table, and a store that thinks it has nothing to save has nothing to lose.

**Property graph** (`graph*.go`). State: `graph_nodes`, `graph_edges`, a node
index in memory. Single-transaction CRUD, traversals, ranking.

**RDF statements, history, rules** (`rdf*.go`, `owl*.go`, `rules*.go`). State:
`kg_triples` with an inferred flag, quoted triples, history rows. Correct when
an inferred row is never mistaken for an explicit one.

**Temporal history** (`temporal*.go`). Validity intervals of rows: closed and
reopened by writes. Correct when the intervals of one row neither overlap nor
leave the present uncovered.

**SPARQL, Cypher, RDF syntaxes, SHACL.** Pure reads and parsers.

**Changes API** (`pkg/cortexdb/changes.go`). Pages over the feed's `Read`, with
a label per row; its cursor handling is the feed's.

**Knowledge and memory writes** (`knowledge_tx.go`, `memory_*.go`). A document,
its chunks, vectors, nodes and edges in one transaction; the in-memory indexes
are synchronised afterwards. A background healer embeds memories saved while
the embedder was down (wake channel, doubling backoff). Identical searches in
flight share one run. Correct when the index learns of every document
transaction, every vector missing is filled in, and nobody who shares a search
is cut off or left uncounted.

**Caches** (`embedder_cache.go`, `graph_pagerank_cache.go`). Entries against
computations in flight when the data or an invalidation moves.

**Recall log, decisions, executions, ontology.** Records written in single
transactions, and pure validation.

**Chat history** (`pkg/core/chat*.go`). Messages, and a cache of their decoded
vectors per bucket, behind a version that triggers bump in whatever process
writes. Correct when a search is answered from vectors its bucket held while it
ran.

**Connector** (`pkg/connector`). Change data capture from another database: an
event source, a mask, an apply to chunks and triples, and a checkpoint; polling
sources save a watermark after a full drain, position sources after each event.
Correct when a crash loses no change and a replay leaves what the rows are.

**Live page** (`pkg/liveview`). A poller follows the feed and the graph, a hub
sends both to every page's stream; a stream that reconnects gets a snapshot, a
replay from its last event id to the hub's cursor, then live events. Correct
when the hand-over drops and repeats nothing and the page's graph is the graph.

**Import, memory, graph flows, agent memory, hindsight.** Workflows over the
facade, decided mostly by a language model's answers.

**Vector indexes, quantization.** Approximate structures under one lock each.

**Servers, access control, observability, small libraries, clients.**
Conversion, pure decisions, counters.

### How they interact

- A writer's transaction takes the *write turn* (SQLite), changes rows, and its
  triggers append to *change_log*; commit publishes both.
- Subscribers poll the log: *inference maintenance* writes inferred rows, which
  are logged in turn; the *live page* and mirrors only read.
- Retention removes the log's oldest part; whoever is behind the prune mark is
  told so and starts over from the tables.
- After commit, and outside it, the facade updates the *vector index* and the
  node index; the *auto-save loop* writes the index as it is at some moment.
- A memory saved without a vector wakes the *healer*; its write bumps the
  bucket's version, which the next *search* compares with what it has cached.
- The *connector* writes documents and statements through the facade, and keeps
  its place in a table of the same store.

## 2. What can go wrong

`PROJECT.json` lists the hazards with their lines. The ones that shaped the
models:

| Hazard | Where | Caught by |
| --- | --- | --- |
| PostgreSQL commits two transactions in the other order than they drew seqs | changefeed.go:695 | `PrefixGrows`, `NoGap` |
| SQLite reuses a rowid once the log is emptied | changefeed.go:1240 | `ImplementsCommittedLog`, `MarkExact` |
| retention overtakes a cursor between two pages | changefeed.go:967 | `NoGap` |
| the head is read in two statements, and the rebuilt state after them | changefeed.go:788 | `ReplicaRight` |
| a crash between handling and saving the cursor | changefeed.go:1123 | `ReplicaRight`, `NoRepeat` |
| an event committed just before the subscriber goes to wait | changefeed.go:1118 | `Delivered` |
| pruning decides outside its transaction, then again inside | changefeed.go:1163 | `MarkExact`, `RowCapKept` |
| a holder that stalled past its lease writes after its successor | inference_maintain.go:945 | `StoredWatermarkSound` |
| the baseline reads head, vocabulary and rows in separate statements | inference_maintain.go:507 | `WatermarkSound` |
| a batch that predates an assertion stores or deletes the same statement | inference_maintain.go:1010 | `ExplicitKept` |
| a holder dies, and every other maintainer sleeps | inference_maintain.go:332 | `CatchesUp` |
| a cancelled or timed-out writer races the turn handed to it | sqlite_writelock.go:58 | `TurnAccounted`, `Served` |
| commit, late rollback and a dropped connection all end one transaction | sqlite_writelock.go:224 | `OneWriter`, `TurnAccounted` |
| a goroutine waits for a turn it holds itself | sqlite_writelock.go:136 | `Served` |
| a snapshot stamped with a change count it does not contain | store_index.go:448 | `CleanMeansSaved` |
| a snapshot older or newer than the table is loaded after a crash | snapshot_reconcile.go:114 | `IndexAgrees` |
| a document's rows are committed before the index is told, in two calls | store_tx.go:82 | `IndexAgrees` |
| a call asks for the read lock again behind a writer that waits | store_crud.go:95 | `OnlyNestingBlocks` |
| Close waits for the checkpointer, which reads under the lock Close needs | store_close.go:8 | `ClosedIsQuiet`, `OnlyNestingBlocks` |
| lock inside turn against turn inside lock | store_tx.go:15 | `OnlyNestingBlocks`, `NothingLeftLocked` |
| the hand-over from replay to live | stream.go:132 | `NoGap`, `NoDuplicate` |
| a page that does not drain is dropped in mid-publish | live.go:499 | `NoGap`, `GraphAgrees` |
| the graph's read fails after the feed's cursor has moved | server.go:481 | `CatchesUp` |
| a cycle of inferences outlives what it followed from, or goes with it wrongly | inference_dred.go:330 | `Exact`, `CreditsGrounded` |
| the row behind a statement changes while the statement stays | inference_dred.go:566 | `Explained` |
| a bucket's vectors are read after its version, with writes in between | chat_vector_cache.go:115 | `CacheCurrent`, `AnswerOfItsTime` |
| the healer is woken before the row it is to heal is written | memory_api.go:753 | `Healed` |
| the last waiter cancels a shared search while another joins | memory_search_coalesce.go:73 | `WaitersServed` |
| a crash between applying a source's change and saving the place | watcher.go:100 | `AtLeastOnce`, `DrainedMirrors` |
| the place saved and confirmed reaches past a transaction not applied | cdc_pg.go:116 | `AtLeastOnce` |
| polling's mark moves over a page of which a row fails | cdc_polling.go:58 | `PolledRowsApplied` |

Four of those listed in `PROJECT.json` have no property; their notes say why.
`NoGap` and `CatchesUp` are names of properties of two modules each.

## 3. Modules and the code they stand for

| Module | What it is |
| --- | --- |
| `ChangeFeed` | writers, the log, subscriptions, pruning by any cutoff, rebuilds; both backends |
| `CommittedLog` | what the feed promises: one growing sequence, contiguous delivery |
| `ChangeFeedRefinement` | the mapping under which `ChangeFeed` implements `CommittedLog` |
| `ChangeRetention` | how the cutoff is computed, statement by statement, against a clock |
| `InferenceMaintenance` | maintainers, lease, baseline, diff, watermark, over the log `ChangeFeed` promises |
| `DeleteRederive` | the materialization itself: rules, overdeletion, rederivation, the diff that is stored |
| `WriteTurn` | the channel and the wrapped connections |
| `StoreLock` | who waits for `s.mu`, for the turn inside and outside it, and for the checkpointer |
| `VectorStore` | rows, the index beside them, its snapshot, crashes and loads |
| `MemoryRecall` | memories without vectors and their healer, cached vectors, shared searches |
| `LiveStream` | poller, hub, stream handlers and pages, over the log `ChangeFeed` promises |
| `Connector` | the watcher over three kinds of sources, its checkpoint and replays |
| `ChangeFeedProofs` (with the refinement), `ChangeRetentionProofs`, `InferenceProofs` (maintenance, delete and rederive), `LockProofs` (`StoreLock`, `WriteTurn`), `VectorStoreProofs`, `MemoryRecallProofs`, `LiveStreamProofs`, `ConnectorProofs` | theorems |
| `MC...` | instances for TLC |

A definition whose comment begins with "Mutant" is a plausible mistake in the
code; no specification uses it. Each checked property is known to fail when one
of them takes the place of the definition after it.

### ChangeFeed

One action per step a transaction or a subscription can be interrupted at.

| Code | Model |
| --- | --- |
| rows of the logged tables | `rows`, one abstract value per row |
| a transaction's uncommitted writes and its rows in `change_log` | `mine[w]`, `pend[w]` |
| trigger's `WHEN` (no event if nothing visible changed) | `Changed` |
| trigger's INSERT: SQLite rowid, PostgreSQL `NULL` | `InsertSeq` |
| SQLite's write lock; PostgreSQL's advisory lock | `lock`, `MayWrite`, `DrawAllowed` |
| `change_log_assign_seq` at COMMIT, in order of `rid` | `AssignSeq`, one row at a time |
| COMMIT, ROLLBACK or a dead session | `Commit`, `Abort` |
| `ReadChanges`: oldest `BatchSize` events after the cursor, `ErrChangesPruned` | `Page`, `ReadOverPruned`, `Read` |
| `SubscribeChanges`: read, handle, move the cursor, wait | `Subscribe`, `Read`, `Handle`, `Advance`, `Wake`, `Stop` |
| `ChangesHead`: `MAX(seq)`, then the prune mark | `ReadMaxSeq`, `ReadPruneMark` |
| a consumer told that it was overtaken rebuilds from the tables | `Rebuild` |
| `PruneChanges` for any cutoff retention may choose | `PruneChanges`, `Cutoffs` |

The consumer is the one the package's documentation describes and inference
maintenance is: it applies events to a state of its own, saves the last seq of a
batch after handling it, and rebuilds at the head it read *before* the state. A
crash (`Stop`) may come at any point. An event's summary is abstracted to the
row it is about and the row's value afterwards. `hist`, `from` and `got` are
history: no guard reads them.

### ChangeRetention

`ChangeFeed` lets retention choose any cutoff above the mark and below the
newest event. This module computes it: `Look` is the look before the
transaction, with its queries as one step, for nothing it read is used again;
`BeginPrune`, `ReadAge`, `ReadRows`, `ReadNewest` and `DeletePruned` are the
statements of the transaction, with writers committing before and in between
where the backend lets them (PostgreSQL reads each statement from a snapshot of
its own; SQLite's no-op UPDATE takes the write lock first). An event carries the
time of its insertion, which on PostgreSQL is not the time of its commit.

### InferenceMaintenance

The log is the sequence `CommittedLog` promises. A statement is a row of
`kg_triples`: absent, explicit or inferred. What the rules derive is the
constant operator `Derived`, of which only this is assumed: it yields statements
not already explicit, and nothing without vocabulary. Statements are finitely
many. `mt[m]` is one process's
maintainer: its memory and where its `step()` stands.

| Code | Model |
| --- | --- |
| `step` and the loop around it | `Begin`, `Step` |
| `observe`: head, then does anything need maintaining | `Begin`, `Observe` |
| `holdLease`, its renewal at a third of the TTL, `releaseLease` | `HoldLease`, `FreshlyRenewed`, `ReleaseLease` |
| `baseline`: head, vocabulary, leftovers or explicit rows and inferred rows | `BaselineHead` ... `BaselineInferred` |
| `apply`: read everything committed, `update`, dormant and active | `ReadEvents` |
| `persistOnce`: fence, delete, upsert, watermark, one transaction | `Persist`, `FencePassed`, `Changes` |
| `maintainedInference.commit` or what is thrown away | `Committed`, `Refused`, `StepFails` |
| `flushWatermark`, at most once a second | `FlushWatermark`, `SkipFlush` |
| `RefreshRDFSInferences` under `Exclusive` | `RefreshClear`, `RefreshRead`, `RefreshWrite`, `RefreshFails` |
| `Close`, and a process that dies | `Close`, `Crash` |

A behaviour keeps to one *setting*: which processes there are, what writers
assert and retract, what else may happen, and how many events there may be.

Abstracted: the supports and rules behind `Derived`; rows owned by SHACL rules;
projection of inferences into the property graph; the split of one apply into
batches of at most 20 * `BatchLimit` events; how rarely the lease is looked at
(only a delay). A lock conflict that `persist` retries is the transaction not
having happened yet.

### WriteTurn

`full` is the channel, `queue` the senders blocked on it. A value received
passes to the longest-blocked sender, so the channel stays full from one turn to
the next: that is Go's channel, and external to the repository. `pc`, `inTx` and
`tx` are one wrapped connection, `user` the goroutine `database/sql` has lent it
to. `CloseConn` is a connection dropped in mid-transaction, after which the
`queuedTx` of its goroutine is still to be ended (`"dropped"`); `CancelTx` is
`database/sql` rolling back when a transaction's context ends, which may happen
while its goroutine waits elsewhere. Which SQL text counts as a write
(`writesSQL`) and the table from file paths to queues are not modelled.
`LockProofs` extends this module together with `StoreLock`, hence `WT` before
the usual names.

### DeleteRederive

What `InferenceMaintenance` takes as a step of its memory. A statement is a
triple, a rule a derivation: the premises it needs and what it concludes.
`Closure` is the reference: what computing afresh gives, found in rounds as the
code finds it. Rounds are a recursive function, not a recursive operator, so that
theorems can be about them. `InferenceProofs` extends this module together with
`InferenceMaintenance`, hence `DRed` before the usual names.

| Code | Model |
| --- | --- |
| `fire` of rdfs.go and owl.go | `ClassRules` ... `PairRules`, `Fire` |
| `explicitFacts`: rows by statement, the smallest id chosen, changes since the last batch | `stated`, `Chosen`, `Changed`, `SetRow`, `Drain` |
| `update`: what used a changed statement goes, what mentions it is looked at again | `Overdeleted`, `Candidates`, `Update` |
| the engine's rounds, and the supports a statement is credited with | `Propagate`, `Derive`, `Credits` |
| vocabulary it does not maintain: computed afresh, before or in the middle | `NeedsRecompute`, `Recompute`, `Propagate` |
| `commit`, against what changed, all that is stored, or that keeping what is live | `StoreDiff`, `Compared`, `Keeps` |
| a diff that fails to be stored; the next baseline | `Lose`, `TakeBaseline` |

Which of several derivations found in one round gets the credit depends on the
order of a Go map or of rules and is left open. Which statements may be stated
(`Statable`) is a constant, and so is what they can imply (`Derivable`); that the
rules lead no further is an assumption, which TLC evaluates.

### StoreLock

A call is the sequence of what it does to the mutex, the turn and the flag
`closed`, one entry per step: `Upsert`, `HybridSearch`, `Exclusive` (deletes),
`Ingest` (a document: turn first, then the lock three times), `Close`, and the
checkpointer's `CheckpointTurn`. Calls whose sequences are the same stand for
each other. The mutex is Go's: a writer announces itself, waits for the readers
of that moment and holds off those that come later, the same goroutine's
included (`RLock`, `Announce`, `Enter`, `Released`). A return in mid-call runs
the rollback and the deferred unlocks (`Deferred`). `TurnTimesOut` is
`writeTurnWait`, which passes only for a goroutine whose turn is held by one that
is kept waiting for `s.mu`.

### VectorStore

| Code | Model |
| --- | --- |
| `embeddings`, one row per id | `table`: vector and `created_at` |
| the HNSW index, soft-deleted nodes, its change count | `index`, `mutations`; `Forget`, `HnswUpsert` |
| `Upsert`, `Delete`, `DeleteByDocID`, `Clear` under the read lock | `StartShared`, `List`, `WriteRows`, `DeleteRows` |
| a delete whose listing of ids fails and which goes on (`idsToForget`) | `ListFails`, `DeleteUnlisted` |
| `DeleteBatch`, `DeleteByFilter`, `DeleteCollection`, `DeleteDocument` under the write lock | `StartExclusive` |
| `UpsertBatchTx`, COMMIT, the two Sync calls | `TxCommit`, `Sync` |
| `autoSaveLoop`, `saveIndexSnapshot` | `AutoSave`, `WriteSnapshot`, `SaveDone`, `SaveFails` |
| `loadIndexSnapshot`, `reconcileLoadedIndex`, a rebuild | `Open`, `Reconciled`, `Unusable` |
| `Close` | `StartClose`, `CloseSave`, `Shut` |
| another process on the file, its clock behind by the margin | `Foreign` |

A call starts when the lock it needs is granted; `StoreLock` shows what happens
before. `drift` is history: ids on which two calls, or another process, met while
one of them had rows and index apart, and those deleted without being listed. On
those the code leaves the outcome open
until the next restart, and a restart brings them back where the row is recent
or missing; `IndexAgrees` says so and excepts no others. A batch of the model is
one chunk of `DeleteBatch`'s five hundred ids. Vectors are values; dimensions,
collections' rows, quantized codes and the graph inside the index are left out.

### MemoryRecall

| Code | Model |
| --- | --- |
| memories: messages with a vector or none | `memory`; `Save`, `Edit`, `Annotate`, `Delete`, `EmbedContent`, `Write` |
| triggers that bump a bucket's version | `Bumps`, `Put` |
| the embedder, and what is noted of its failures | `embedder`, `Answers`, `Fails` |
| the healer's loop: timer, wake channel, backoff | `TimerFires`, `Woken`, `Look`, `EmbedBatch`, `StoreVector`, `PassEnds` |
| `sessionMessageVectors`: version, compare, load, keep within the limit | `ReadVersion`, `Compare`, `Load`, `Keep`, `Fits` |
| `searchMemoryShared`: join or start, leave, cancel, close and count | `Ask`, `Leave`, `Close`, `Done`, `Return` |

A vector is the text it was made from, so that a vector of another text shows.
Whether a vector comes from the model or from `embedCache` is open. The time of
a run (`sharedSearchTimeout`) may pass at any step. Keyword search, ranking,
metadata, sessions and the memory's node are left out.

### LiveStream

| Code | Model |
| --- | --- |
| the poller's tick: feed in pages, graph when something structural moved or it is due | `Tick`, `FeedPage`, `ReadGraph`, `FeedFails`, `ReadFails` |
| `publishSnapshot` and its delta, `publishChanges`, `publishReset` | `SendDelta`, `PublishItem`, `PublishDone`, `FeedPruned` |
| a subscriber's channel of bounded size | `Send`, `CutOff` |
| `handleStream`: probe, snapshot, replay, live | `Connect`, `Probe`, `WriteSnapshot`, `ReplayItem`, `ReplayNext`, `Live` |
| the page (`ui/src/live`): reducer and reconnects | `ApplySnapshot` ... `ApplyDelta`, `Connect` |
| retention, connections that break, a server that restarts | `Prune`, `Break`, `Restart` |

The hub's lock is held for one broadcast, and for all items of
`publishChanges`. A frame is received when it is written. `since` is history:
from where a page was promised everything, and whether its requests have named
the point it had reached. The page shows the last thousand changes only
(reducer.ts, `CHANGES_LIMIT`); the model's page keeps all it was sent, so what
is said of a gap is said of what the page was sent.

### Connector

| Code | Model |
| --- | --- |
| the source's table and its transactions | `log`, `open`, `Statement`, `Commit` (external) |
| what a slot or the binlog sends from a place | `Sends`, `ToCome`, `StartAt` |
| `readRowsWhere`, a page by cursor and key | `Beyond`, `PageOf`, `Poll` |
| `Run`, `LoadPosition`, `LoadWatermarks`, `Changes` | `Run`, `Resume`, `Receive` |
| `apply`: chunk, then triples | `ApplyChunk`, `ApplyFacts`, `DeleteFails` |
| `Checkpoint.Save` after an event, or after a drain | `Applied`, `SaveMark` |
| the place of a row: `WALStart` and the message's length | `Reach`, `Position`, saved by `Applied` |
| COMMIT messages, keepalives, the standby status | `ReceiveCommit`, `Keepalive`, `Standby` |
| an error, a process that dies, another `Run` | `Fail`, `Crash`, `Run` |

A row's content is a value; masking maps equal values to equal ones and is left
out, as are the mapping, further tables and changes of primary keys. A source
transaction that rolls back leaves nothing to be seen and is left out.

PostgreSQL's addresses count records of its log: an address between two records
is named by the one that begins last before it, which is all that a slot's
decision to send a transaction looks at. `cdc_pg.go:158` and `168` add the
length of the decoded message, its columns written as text, to the address the
message was placed at. How many records begin within that length is open:
`longer`, drawn for each row from the setting's `texts`. A COMMIT message is
placed at the end of its record and reaches into the one that follows. An UPDATE
leaves out a column that is stored out of line and did not change
(`cdc_pg.go:199`); the model takes the row whole, as where no column is stored
so.

## 4. What is checked

Twelve runs, all of which pass. State counts are distinct states.

| Run | Instance | Question |
| --- | --- | --- |
| `feed_sqlite` | 2 writers, 1 consumer, 2 rows, batches of 2, 4 events; 191 k | refinement and delivery on SQLite |
| `feed_pg` | the same on PostgreSQL, up to symmetry; 565 k | safety and refinement with interleaved transactions |
| `retention` | 2 writers, both backends, `MaxAge` 1, `MaxRows` 2, clock 4, 5 events; 607 k | is the cutoff right, is the mark exact |
| `inference_one` | 1 process, 3 statements, 4 events with crash, close, failure, prune, 5 with crash and prune; 2.3 M | watermarks and explicit rows with every failure |
| `inference_kept` | 2 processes with 5 events, 2 with a crash and 3, 1 with a refresh and 4; 1.4 M | fencing across hand-overs; does it catch up |
| `delete_rederive` | 7 statements that may be stated, 1 row of its own id, batches of 2; 1.7 M | is the materialization the closure, and explained |
| `write_turn` | 3 goroutines, 3 connections; 21 k | turn kept, and every wait ends |
| `store_lock` | 5 kinds of calls, 3 calls, 2 ticks of the checkpointer; 798 k | who can stand still for ever |
| `vector_store` | 4 ids, 2 callers, 2 vectors, 2 calls, 1 trouble, 1 restart; 2.1 M | does the index settle to the table |
| `memory_recall` | 2 writers, 2 memories, 3 writes, 2 outages; and 1 writer, 2 writes, 2 searches; 1.9 M | cached vectors, shared searches, the healer |
| `live_stream` | 1 node, 1 page, log of 6, pages of 2, channel of 2, 2 breaks, 1 trouble; 1.3 M | no gap, no duplicate, the same graph |
| `connector` | PostgreSQL with two writers, and with one and texts that reach 3 records further; MySQL; polling by 1 and by 2; 3 or 4 rows written, 1 or 2 troubles; 3.8 M | is every change applied, and what is left is the row |

A run whose instance is a set of *settings* checks them all: each behaviour
keeps to one. They let a run have two writers where writers matter and searches
where searches matter, without the product of both. Deadlock is checked where
the system does not stop; `store_lock`, `vector_store`, `memory_recall` and
`connector` bound calls, writes or troubles and come to rest at the bound.

**feed_sqlite, feed_pg.** `NoGap`: a running subscription has handled every
event committed between where it began and where it stands. `NoRepeat`: none
twice. `PrefixGrows`: nothing becomes visible at or below a seq that was ever
visible, or below the mark. `LogExplainsRows`: replaying the log gives the
tables. `ReplicaRight`: a consumer's copy of a row is right once the last event
about the row lies behind its saved cursor, through crashes, redelivery, pruning
and rebuilds. `ImplementsCommittedLog`: the abstract specification.
`Delivered`: a subscription that keeps running reaches every event, or is told
it was overtaken.

Four events are enough to have two writers' transactions of two rows overlap on
PostgreSQL, a rolled-back draw leave a hole, a full batch followed by another,
and retention cut in front of and behind a cursor. Two rows let replaying in the
wrong order show, and one value besides absence gives insert, no-op and delete.
A second consumer would add states and no behaviour: consumers share nothing
they write. Symmetry is used on PostgreSQL only, where no liveness is checked.

**retention.** `MarkExact`: what is gone is what the mark says, the newest event
survives, and no seq is given twice. `PrunesUpToExpired`, `RowCapKept`: what
goes is expired (on PostgreSQL: or lies below something that is), and the row
cap holds after a prune on SQLite. Commits and the clock may move between the
look and the transaction as well. Five events against a cap of two, and a clock
of four against an age of one, let both limits bind in either order, in one
prune and in two.

**inference_one, inference_kept.** `WatermarkSound`: whatever
`InferenceAppliedSeq` can answer, the stored inferences are those of the
explicit statements as of that seq or a later one, rows a writer has touched
since aside. `StoredWatermarkSound`: the same of the stored watermark, with two
maintainers; it excludes a holder that resumes an earlier tenure, and refreshes
by hand. `WatermarkMonotone`: the stored one never goes back. `ExplicitKept`:
maintenance never overwrites or deletes an explicit row. `CatchesUp`: a
maintainer that keeps running makes the inferences current, unless it went
dormant before another's first inferences. Section 5 tells why these are
excepted. Three statements (schema, fact, what they imply) are what one
derivation needs; five writer events allow deriving, retracting and deriving
again around a stall. In `inference_one` writers also assert the implied
statement but delete only the base ones. `CatchesUp` excepts the states where
the bounded clock can no longer let a dead holder's lease expire.

**delete_rederive.** `Exact`: after every batch the materialization is the
closure of the explicit statements, and the store holds what of it is not
explicit. `CreditsGrounded`: every inference is credited to a derivation that
stands, and following credits ends at statements, so no cycle lives on its own.
`Explained`: a stored inference cites rows that exist and from which a rule
derives it, rows kept by a recomputation aside (section 5). The seven statements
make a symmetric property with one below it (a cycle of derivations used in both
directions), a direct statement that is also derivable, a domain, and a property
that derives vocabulary answered by computing afresh. Two changes per batch let
one delete what another asserts. The row with an id of its own lets the row
behind a statement change while the statement stays.

**write_turn.** `OneWriter`, `TurnAccounted`, `Served`. Three goroutines and
three connections give two waiters behind a holder, a nested writer with a third
party in line, and a dropped connection whose turn is wanted. The model has no
counter and needs no bound.

**store_lock.** `ClosedIsQuiet`: when Close has let go of the handle, the
checkpointer has ended. `NothingLeftLocked`: a call that has returned, by
whichever way, holds neither lock nor turn. `OnlyNestingBlocks`: every call
returns, or a reader asked again behind a writer that waits. Three calls are a
reader that nests, a writer that announces itself in between, and a third that
wants the turn; two ticks let the checkpointer be in a turn when Close begins
and want another.

**vector_store.** `IndexAgrees`: index and table say the same of every id no
call is at work on, on which no two calls met, and which no delete that could not
list it removed. `CleanMeansSaved`: while the
change count stands at the count saved, the file holds the index. Four ids make
the reconciliation choose between patching and rebuilding (a third of the rows);
two calls overlap in every way, with a save and a restart in between and one
statement that fails or one write by another process. The clock of two against a
margin of one lets rows fall inside and outside of it.

**memory_recall.** `CacheCurrent`: an entry stamped with its bucket's version is
what the table holds. `AnswerOfItsTime`: what a search was answered from was in
its bucket while it ran. `WaitersServed`: nobody who waits is cancelled, nobody
answered is left uncounted. `Healed`: once the embedder answers and writers
rest, no vector is missing. `TypeOK` holds the cache to its limit. The first
setting has two memories, a batch of one and two outages, so that a pass can
heal one and fail the other, and be woken in between; the second has a memory
that moves between buckets under two searches that share a run or race two.

**live_stream.** `NoGap`, `NoDuplicate`: a page has every change from where it
was promised them to the last it saw; what waits in its channel is in order and
lies after all it has been sent. `GraphAgrees`: a drained page's graph is the
hub's. `CatchesUp`: when commits rest and nothing breaks any more, every page
shows the graph and every change. A log of six with pages of two needs more
pages than one replay (two) or one tick (two) reads; a channel of two overflows
within one publish; two breaks let a page reconnect to a replay and lose that
too; one trouble is a failed read, a restart, or a prune in front of or behind a
cursor.

**connector.** `AtLeastOnce`: a change not yet applied is sent to whoever resumes
at the saved place, from the slot as the standby status confirmed it.
`DrainedMirrors`: with everything received, chunk and triples of every row are
the row's, or gone with it, however often events were replayed and out of
whatever order. `PolledRowsApplied`: no row the saved mark has passed was passed
over, if the cursor grows as the commits do. The first two except the rest of a
MySQL statement of which a row was applied (`Torn`) and PostgreSQL transactions
that lie within what the length of an applied row's text, or of the COMMIT after
it, added to its address (`Overrun`); section 5 has both. Nothing else is
excepted: a position that reached further, such as the server's end of the log,
violates `AtLeastOnce` in this run.

Three rows written by two writers give transactions that overlap and commit in
either order, and a delete that is replayed over a row written anew. Texts that
reach three records further pass the commit of their own transaction, of two
rows or of one, and of the next. Four rows in the MySQL setting give a statement
of two rows followed by another. The streams have one trouble, which stops a Run
between any two steps; polling has two, one in the middle of a page and one in
its replay.

## 5. Where the code and its documentation part

Met while modelling. The models do what the code does; where a property of
section 4 would fail for one of these reasons, its definition excepts exactly
that case, as noted here.

**Change feed.** On PostgreSQL a transaction that inserted early and committed
late has an old time and a high seq. Pruning through it removes younger events
below it, within `MaxAge`, where changefeed.go:1154 promises "events older than
MaxAge and any beyond the newest MaxRows". `PrunesUpToExpired` allows this on
PostgreSQL only.

**Inference maintenance.** inference_maintain.go:22-26 says the watermark "can
never claim more than the store holds", 31-36 that a dead holder is replaced and
one that stalled "cannot overwrite its successor".
- A dormant maintainer moves its in-memory watermark over batches without
  vocabulary although another process is active and behind
  (inference_maintain.go:428). `WatermarkSound` is asked of one process.
- An implied statement that is asserted and deleted again has no row, while the
  explicit facts are as they were: no diff restores it and the watermark passes
  (inference_dred.go:565). `WatermarkSound` lets writers assert the implied
  statement and retract only base ones.
- An inferred row deleted by hand (`DeleteTriple`, rdf.go:579, deletes a row of
  either kind) goes unnoticed, for events about inferred rows are taken to be
  the maintainer's own (`applyChangeEvent`): the watermark goes on over it. In the
  runs writers retract base statements only; the theorems have it as a
  hypothesis (section 6).
- A holder stalls; a successor takes the lease, works and gives it back; the
  first renews (`holder IS NULL`) and goes on with the materialization of its
  earlier tenure (inference_maintain.go:838). `StoredWatermarkSound` excepts it.
- A maintainer that looked for vocabulary before the holder's first inferences
  looks in later events only; when the holder dies it never takes over, and
  inferred rows written behind its back stay (inference_maintain.go:332).
  `CatchesUp` excepts it.
- A refresh by hand reads the explicit statements in one transaction and upserts
  in another. One asserted in between becomes an inferred row (rdf.go:1219).
  `ExplicitKept` speaks of maintenance, not of refreshes.
- A recomputation keeps the provenance of a stored inference whose supports are
  all live (inference_dred.go:163-167), so two stored inferences can come to cite
  each other, which the credits in memory never do (`CreditsGrounded`).
  `Explained` excepts kept rows.

**Locks.** cortexdb.go:148-150 says "concurrent readers plus a serialized writer
are safe on local disk".
- A call that takes the read lock twice stands still for ever when a writer
  announces itself in between: Upsert into a named collection (store_crud.go:95),
  HybridSearch (advanced_search.go:61) and the searches that nest one in the
  same way (reranker.go:48, advanced_search.go:415, multi_vector.go:119), and a
  dump that asks for statistics (io.go:77). Everybody after the writer stands
  behind it. `OnlyNestingBlocks` says that nothing else blocks.
- A document's ingest holds the turn and wants the lock; `DeleteBatch` holds the
  lock and wants the turn. Both wait until `writeTurnWait` (30 s) is over.

**Vector store.** Two calls on one id under the read lock can reach the table in
one order and the index in the other (store_crud.go:15). The two stay apart
until a restart; `IndexAgrees` excepts these ids (`drift`). A `DeleteBatch` of
more than one chunk that fails at a later one has deleted rows the index still
holds (store_crud.go:486); the model's batch is one chunk. A delete that cannot
list the ids it will remove goes on without them (index_sync.go:63,
document.go:109, and the callers of `idsToForget`), and the index holds rows
that are gone until a restart, though index_sync.go:55-58 lists ids so that
deletes leave none behind. `IndexAgrees` excepts these ids too. `DeleteMemory`
racing `SaveMemory` can leave a node without its memory, or the reverse; that
race is not in a model.

**Memories.**
- The healer stores the vector of the text it read, whatever the text is by then
  (reembed.go:359-361); `UpdateMemory` without content writes back content and
  vector as it read them (memory_api.go:250). A vector may be of an older text
  for ever. `CacheCurrent` and `Healed` ask that it is the stored one, and that
  there is one.
- A caller counted in a shared search may be gone before the answer
  (memory_search_coalesce.go:77-78 says "every caller counted is one this answer
  reaches"). One that joins a run can be answered from before its own last
  write: `AnswerOfItsTime` speaks of the time of the run.
- Counting recalls writes back the whole metadata it read (memory_api.go:1619),
  over an edit made meanwhile.

**Live page.** stream.go:6-11 promises that a page that was away is made whole.
A page that reconnects without a cursor to name is not replayed
(connection.ts:21): reset and snapshot frames carry no id, so a page that saw
nothing else since has none that is current, and what happened while it was away
is in the graph but not in its list of changes. `NoGap` and `CatchesUp` begin
anew there.
A page that subscribes before the server has read the feed's head is promised
nothing either: the head is set as the cursor when it becomes known
(server.go:432), and what was committed between the page's snapshot and then is
neither published nor replayed, though live.go:353-358 says that "everything at or
below it was published before the subscription existed". `NoGap` and `CatchesUp`
except such a page until a later reset begins it anew.

**Connector.** watcher.go:101-102 says "apply is idempotent, so a replayed event
on restart is safe".
- A delete is not: deleting what is gone answers `ErrNotFound` (knowledge_api.go:436,
  document.go:79), and the connector stops at it on every restart.
  `DrainedMirrors` speaks of what has been received and applied.
- The MySQL source saves the position of the event's end with each of its rows
  (cdc_mysql.go:154); a crash after the first loses the others. `AtLeastOnce` and
  `DrainedMirrors` except them.
- The PostgreSQL source adds the length of the decoded message to the address it
  was placed at, and saves that (cdc_pg.go:168) and confirms it to the slot
  (cdc_pg.go:158). watcher.go:101-102 counts on events being replayed; two kinds
  are not. A row whose text is longer than what is left of its transaction in the
  log (timestamps, uuids, bytea, compressed values) puts the place past its
  transaction's commit, or past later ones: after a crash the server skips the
  rest of that transaction, and all of those. A COMMIT message of 26 bytes puts
  the position past a commit record that comes right after it, and when the
  standby status confirms that, a crash loses the transaction. `AtLeastOnce` and
  `DrainedMirrors` except exactly these (`Overrun`), and hold of all others.
- An UPDATE that leaves a column stored out of line unchanged arrives without it
  (cdc_pg.go:199), and the record is written without it. Not in the model.
- Before the first save there is no place: a restart begins at the current head.
- Polling asks for a cursor above the mark, so rows that tie with the last of a
  page, or commit later with a lower cursor, are passed over (cdc_polling.go:58).
  `PolledRowsApplied` is asked where the cursor grows as commits do.
- Triples of a row's former values stay, and so does the chunk of a former
  primary key.

## 6. What is proved

All theorems hold for every value of the constants that satisfies the module's
assumption: any sets of writers, consumers, rows, values, memories, calls and
goroutines, both backends, any positive batch size. Bounds such as `MaxWrites`
are there for TLC; the proofs need only that they are numbers, if that.

**`ChangeFeedProofs`: `TypeCorrect` (`Spec => []TypeOK`).** Inductive invariant
`TypeInv`: `TypeOK` and `SeqsBounded` (no seq in use exceeds `rid + seqgen`),
which is what makes `MaxSeq`, a `CHOOSE`, well defined without assuming
finite sets of rows (`MaxSeqIsMax`, `LeastNatural`).

**`ChangeFeedProofs`: `PrefixGrowsHolds` (`Spec => PrefixGrows`).** The action
property is not inductive by itself: that a commit lies after everything visible
has to be known while it is still pending. `OrderInv` says so:
`NumberedHoldLock` (a transaction with numbered events holds the lock, so there
is at most one), `NumberedAfterHist` (its events lie after all that was ever
committed), `NewestKept` (retention leaves the newest, so SQLite's rowid and
PostgreSQL's head keep above history), `MarkBehind`, and `SequenceAhead` (the
sequence is ahead of all drawn). One lemma per kind of action, then
`OnlyCommitShows` and `GrowthStep`.

**`ChangeFeedProofs`: `NoGapHolds`, `NoRepeatHolds`.** `DeliveryInv`:
`LogFinite` and `LogIsTail` (the log is history above the mark), `PointsKnown`
(cursors, saved points and heads are numbers nothing committed later falls
below), `PagesWhole` (a page taken is all of history between the cursor and its
end, whatever has been pruned or committed since), `FromBehind`, and `NoGap`.
The combinatorial part is that a page of the oldest `BatchSize` events is
downward closed (`PageDownClosed`, by cardinalities of finite sets) and so has
no hole (`PageWhole`). `NoRepeat` follows from `DeliveryInv`.

**`ChangeFeedProofs`: `LogExplainsRowsHolds` (`Spec => []LogExplainsRows`).**
`HistoryInv`, on top of `OrderInv`: `RowLocks` (two transactions never have
written the same row), `PendInOrder` (a transaction's events are numbered in the
order they were written), `WritesLogged` (what a transaction has made of a row is
what its last event about the row says), `SeqsDistinct`, and `RowsExplained`
(every row is what the newest committed event about it says). Replaying in order
of seq is a fold over a set put in order; that it gives the newest event's value
is an argument about the last position of the row (no induction).

**`ChangeFeedProofs`: `ReplicaRightHolds` (`Spec => []ReplicaRight`).**
`ReplicaInv`: `SavedIsCursor` (a running subscription stands at what is saved) and
`ReplicaReached` (each row of a consumer's state is as of some point at or after
what it has applied). The point differs from row to row, because a rebuild reads
tables that have moved past the head it noted, and a crash between handling and
saving leaves the state ahead.

**`ChangeFeedProofs`: `ImplementsCommittedLogHolds`
(`Spec => ImplementsCommittedLog`).** `ChangeFeed` implements `CommittedLog`, for
any constants and both backends. The committed sequence holds one number per
event, so a number given out twice would stand in it twice and no commit could
append it; `CountsHold` shows from `SeqsDistinct` that counting events is
counting numbers. The mapping puts a finite set of numbers in order; the lemmas
say that the positions of a set's numbers are 1 to its size (`PositionGrows` and
those after it), that what lies between two numbers of the
history is a stretch of its sequence, and that numbers above all others are
appended. `StandsInv` adds to `DeliveryInv` that a stopped subscription still
stands for a whole stretch that reaches what it saved. Then each action: a
commit that shows events is `Commit`, `Subscribe` is `Resume`, `Handle` is
`Deliver` (by `NoGap` and `PagesWhole`), a read that finds itself overtaken is
`Lose`, `Stop` is `Forget`, `Rebuild` is `StartOver`; every other step stutters.

**`ChangeRetentionProofs`: `MarkExactHolds`, `PrunesUpToExpiredHolds`,
`RowCapKeptHolds`.** `RetentionInv`: types, `LockInv` (SQLite's write lock keeps a
prune and its writers apart), `TimeInv` (nothing is stamped in the future; on
SQLite seqs follow the stamps), `MarkInv` (the log is what lies after the mark,
and empty only before the first event), and three parts about the cutoff a prune
has computed so far. `CutStays`: it leaves an event behind. `CutExpired`: what it
takes is expired, on PostgreSQL unless it lies before something that is; time only
grows, and what commits between the statements lies after everything the prune
has seen. `CutCaps`: on SQLite it leaves no more than `MaxRows`, because the lock
has kept the log as the statements found it. `PrunesUpToExpired` and `RowCapKept`
are action properties, proved of every step from it.

**`LockProofs`: `NothingLeftLockedHolds`, `ClosedIsQuietHolds`.** What a call
has still to do is a sequence of steps on mutex, turn and `closed`, which may be
cut short at many of them. `LockInv` says of each goroutine that what is left of
its call *leads* from what it holds now to holding nothing (`Leads`,
`OnItsWay`): there is a table of what it holds between any two of the remaining
steps, in which each step is one it may take. A wait counts as held, since the
call goes on when it has it. One lemma per operation lays the table out for the
whole call, one per kind of step takes the first row off it, one for leaving in
mid-call; the deferred unlocks must lead to nothing from wherever they may run.
The rest: `LockType`, `WriterWaits` (a writer that is announced waits, the one
that is in does not), goroutines not yet used are idle, and `ClosedIsQuiet`,
which follows where `Close` shuts the handle because it has waited for the
checkpointer. A wait for the turn that is given up skips turn and giving both,
which in `Close` stand side by side (`EachTurnGiven`). TLC checked `LockInv` on
an instance of 798,217 states before it was proved.

**`LockProofs`: `OneWriterHolds`, `TurnAccountedHolds`.** `TurnInv`:
`WTTypeOK`, `TxOpen`, `TxStates` (a connection that holds the turn through `inTx`
is in a transaction), `OneWriter`, `TurnAccounted`. One lemma per operation on
the channel (`TakeRight`, `GiveRight`, `KeepRight`, `LeaveRight`) over one about
sequences (`WithoutRight`: leaving the queue keeps everybody else in it once),
so that the step lemma only tells which operation each action makes.

**`VectorStoreProofs`: `CleanMeansSavedHolds`.** `SaveInv`: `Counts` (the
counters are numbers, the count saved not ahead of the index's), `Stored`,
`VersionsBegun` (a save goes by a count the index has had), `WroteCurrent` (what
it has written is the index, while that count stands), `DownIsQuiet` (a process
that is down has no call and no save), and `CleanMeansSaved`. The argument is
that every action that changes the index changes the count; it needs no typing
of rows or calls, and so covers whatever a call does to the table.

**`VectorStoreProofs`: `IndexAgreesHolds` (`Spec => []IndexAgrees`).** `AgreeInv`:
`SaveInv`; `Typed`, with the shapes the records of calls take (`Shape`); `Locks`
(whoever holds the write lock is alone); for each call `Told`: what it has changed
or is about to change in the table is as it will tell the index, ids in `drift`
aside (`Listing`, `Dropped`, `Written`, `Document`); `Settled`, that an id nobody
owes the index and nobody met on is right in it; and `SnapTold`, that the snapshot
is right about what reconciling will not look at again. An id goes from the table
through what a call `Owes` to the index; `Settled` alone is lost as soon as two
calls share an id, which is what `drift` records. `SnapTold` is what makes opening
right after any crash: every row changed since the snapshot is newer than the
cutoff, or missing, or its node is a tombstone or absent. `Settled` and the rest
were found inductive by TLC on the instance of `vector_store` and on one with
three callers before they were proved.

**`MemoryRecallProofs`: `CacheCurrentHolds`, `AnswerOfItsTimeHolds`.** `CacheInv`:
`VersionsRead` (a version a run has read was the bucket's then and is not ahead
of it), `LoadedCurrent` (what a run has loaded is what is stored, if the version
has not moved), `EntriesBehind`, and `CacheCurrent`. It is why the version is
read before the rows: an entry may be newer than its stamp, never older. `TimeInv`
adds the history of the run: `HeldNow`, `EntryOfItsTime`, `LoadedOfItsTime` and
`AnswerOfItsTime`.

**`MemoryRecallProofs`: `WaitersServedHolds`, `TypeOKHolds`.** `CallerInv`:
`PresentExact` (a run knows how many wait on it), `CancelledEmpty` (a run that is
cancelled has nobody waiting and cannot be joined), `RunningOpen` (a run that can
be joined has not been counted) and `AllCounted` (no fewer are counted than have,
or may still have, its answer). These are cardinalities of sets of callers, who
are finitely many although `Callers` need not be. `TypesInv` adds the types of
rows, writers and healer. Records and `None` must differ, which the assumption
says.

**`InferenceProofs`, of maintenance.** `TypeCorrect`; `WatermarkMonotoneHolds`, by
`FenceInv` (what the holder of the lease is about to commit is never below what is
stored, a stalled holder being no holder when it comes to write);
`ExplicitKeptHolds`, in settings without a refresh by hand (section 5), by the
guards of a diff's two statements, which decide by the row of the moment.

`StoredWatermarkSoundHolds` rests on `SoundInv`: `RowsExplained` (every row is
what the last event about it says, and only writers make one explicit),
`KnowsInv` (the explicit statements a maintainer remembers are those of an event
at or after the watermark it would store), `HoldsInv` (the diff the holder has
would still make the store what it wants), and that the stored inferences are
those of an event at or after the stored watermark (`Describes`). Hypothesis:
`DeletesAsserted`, no setting retracts a statement the rules derive; without it
TLC finds the violation described in section 5. That another holder resumes an
earlier tenure is what the property excepts (`stale`), and the invariant claims
nothing then.

`WatermarkSoundHolds` adds `OneProcess`: each setting has at most one process and
no refresh by hand. `AloneInv` says that what the process has in memory as its
watermark claims no more than the store holds, also while it is dormant. With
two processes a dormant one claims too much (section 5), so the hypothesis
cannot go. The settings of `inference_one` satisfy both hypotheses, those of
`inference_kept` the first.

**`InferenceProofs`, of delete and rederive: `ExactHolds`, `CreditsGroundedHolds`,
`ExplainedHolds`.** For any explicit statements, rows, ids and batches, over the
rules as they stand in rdfs.go and owl.go. First what a closure is: `ClosureUnder`
runs rounds until nothing is new, and `ClosureIsLeast` says that the result is the
least set that holds what it began with and is closed. What such a loop computes
cannot be had by induction over its input here; that the function exists and is
unique is shown by well-founded recursion on the size of what is left to find
(the universe is finite). After that only leastness is used.

`DRedInv`: `RowsType`; `SeenInv` (no two explicit statements are credited to one
row, and between rounds they are credited as the batch had them); `EngineInv`,
`StoredInv` and `EngineType`. The engine is `Sound` at every step: what it knows
and did not see stated is credited to known statements by a rule, and following
credits ends at stated ones. It is `Done` up to what is fresh: whatever follows
from indexed statements is known. `BaseSound` is why overdeleting is safe: it
spares only what is credited to what is spared, so a cycle that only supports
itself goes. `EachProper` is why looking again at `Candidates` is enough: in
every rule the conclusion's subject occurs in a premise, so a derivation of
something deleted that still stands is among those fired. With nothing fresh,
sound and done together are least, which is `Exact`. `StoredInv` says the store
is right about whatever the comparison to come will not look at, of which there
is something only when it goes by what changed; `IdsDiffer` (two known statements never have one id) turns
cited ids back into premises, for `Explained`. TLC checked `DRedInv` on the
instance of `delete_rederive` before it was proved.

**`LiveStreamProofs`: `NoGapHolds`, `NoDuplicateHolds`, `GraphAgreesHolds`,
`TypeCorrect`.** `LiveInv` is `TypeInv`, `PollInv` (the poller's cursor and the
hub's go together, and a batch begins where they stand) and, of each page, five
things. `Bounded`: nothing it or its handler speaks of is past the end of the
log. `Ordered`: what waits is in order and lies after what the page has been
sent, or, as long as its handler does not forward, after the head of the
subscription. `ChannelWhole`: what waits, with what the page holds, is a stretch
of the log that ends at `Frontier`, the last event the hub has sent; a reset
begins a new one, and a handler that does not yet forward begins its own at its
subscription's head. `PageWhole`: the page has every change up to its cursor,
and a replay will come to that head. `GraphOf`: the deltas waiting turn the
page's graph into the hub's. `NoGap` speaks of pages whose requests named no
later point than they had reached, and that did not subscribe before the feed's
head was known (section 5). Each part was checked by TLC on
the instance of `live_stream` before it was proved; it is the longest of the
proofs, since every step of the poller touches every page.

**`ConnectorProofs`: `AtLeastOnceHolds`, `DrainedMirrorsHolds`,
`PolledRowsAppliedHolds`.** `ConnectorInv` has four parts. `SourceInv`: types,
what Run holds at each of its steps, and `LogOrder`: on PostgreSQL a row's record
lies before its transaction's commit, and commits grow along the log; on MySQL
places do. So what is sent from a place is everything from some change on
(`LaterSent`). That is said of records, not of the places saved, which the texts
carry further: `PlaceInv` bounds those. A place saved, confirmed or held for the
standby lies past the end of the log only as far as an applied row's text, or the
COMMIT after it, reached (`Reached`), so that a transaction committed later and
yet skipped is one of `Overrun`; and a COMMIT is received when all of its
transaction was applied. `StreamInv`: a change is `Awaited` when a Run that goes
on still has it ahead, or, with no Run, when the next one will be sent it.
`PlaceBehind`: what a Run has ahead lies past the place the next would start
from, and past the position the standby will confirm, or is `Lost`, though the
saved place moves back with every replay. `AppliedOrAwaited` and `ToldOrAwaited`
follow the changes and the rows that are not lost; the second holds because an
older event applied over a newer one has the newer still ahead. `PollInv`: a row
the mark has passed is told of and is not to be applied (`Passed`), the page at
hand is in order of the cursor, and marks are cursors of changes, so that a new
change in order lies past all of them. The theorems hold for any lengths of
texts, `Lost` growing with them: where every text is shorter than what is left of
its transaction and no two commit records touch, nothing is lost on PostgreSQL.
The assumption added is that rows ever written have finitely many keys, which
makes the order of a page exist. `TypeOK` is a part of `AtLeastOnce`.

**Only model-checked.** Every invariant and every action property of the runs is
proved. `Delivered`, `Served`, `OnlyNestingBlocks`, `Healed` and both `CatchesUp`
stay with TLC: they are liveness under fairness, which, like `ENABLED`, is out of
this prover's reach. What they rest on (that a subscription's page is whole, that
the turn is never lost, that a call which ends holds nothing) is proved.

## 7. Fairness

- `ChangeFeed!FairSpec`: weak fairness of a subscription's loop. Its poll timer
  always fires (changefeed.go:1132), so nothing is assumed of `NotifyChanges`,
  nor of writers, retention or restarts.
- `InferenceMaintenance!FairSpec`: the clock passes, and the loop of a process
  that is running goes on (inference_maintain.go:262). A process that is not
  running need not be started, and failures, refreshes, crashes and writers are
  never forced.
- `WriteTurn!WTFairSpec`: calls into the driver return (weak); goroutines end
  their transactions and close their rows (strong, since a goroutine may be in
  another call again and again). The 30-second timeout is assumed to fire only
  for a writer that waits for a turn it holds itself, so `Served` shows that
  no other wait for the turn needs it, where holders wait for nothing but the
  database.
- `StoreLock!FairSpec`: as long as some goroutine can go on, one does. Here
  holders of the turn also wait for `s.mu`, and the timeout is what ends a wait
  of turn for lock and lock for turn; it is a step of the goroutine that waits.
- `LiveStream!FairSpec`: the poller ticks (weak) and is not shut out from full
  pages of the feed for ever (strong: a read may fail now and then, troubles are
  bounded); every page's connection is served or reconnects (strong, since it may
  break again and again). Writers and retention are never forced.
- `MemoryRecall!FairSpec`: weak fairness of the healer: its goroutine runs and
  its timer fires (reembed.go). The embedder is never forced to answer; `Healed`
  is about behaviours in which it does, and one that answers embeds every text.
- `VectorStore`, `ChangeRetention`, `DeleteRederive` and `Connector` state none.
  Nobody in the repository promises to call the connector's `Run` again after
  it failed, so what it reaches is stated of states in which everything is
  received (`DrainedMirrors`), not as something that must happen.

## 8. What is not modelled

- Parsers, serialisers, query evaluation, validation, scoring, formatting: pure
  functions with conformance suites and no concurrency. They are most of the
  repository's lines.
- Workflows whose decisions are a language model's answers.
- Conversion between wire and facade, generated code, clients, examples.
- Approximate nearest-neighbour structures (the graph inside HNSW, IVF, the
  quantizer): what they return is statistical. `VectorStore` models which ids
  and vectors the index holds, not what a search finds. IVF and flat indexes,
  and importing an index, are left out with them.
- Of the modelled components: installing, upgrading and disabling the feed and
  its mirror-row filter; incremental refresh of a neighbourhood
  (`RefreshRDFSInferencesIncremental`); SHACL rules' rows; which SQL text is a
  write; keyword ranking, metadata and sessions of memories; the connector's
  masking and mapping, and its unchanged columns stored out of line; the limit of
  a thousand changes on the live page.
- The cache of PageRank results: an invalidation that lands while a ranking is
  computed. Its fingerprint reads whole tables; section 9 plans it.

## 9. Plan

Done, in this order: `ChangeFeed`, since every other part that reacts to writes
rests on its cursor; `CommittedLog` and the refinement; `ChangeRetention`;
`InferenceMaintenance`, over the log the refinement justifies; `WriteTurn`;
`VectorStore` with its snapshot; `StoreLock`, which tells what calls wait for;
`LiveStream`, with its paging and the page itself; `DeleteRederive`, what
`InferenceMaintenance` takes as one step; `MemoryRecall`; `Connector`; the
theorems of section 6.

Next modules, in this order:

1. Knowledge ingest: the conditional ingest and deduplication on both backends,
   composed with `VectorStore`'s two Sync calls.
2. The PageRank cache: fingerprint, invalidation, a computation in between.
3. Installing, upgrading and disabling the feed while another process uses it.
4. The incremental refresh against `DeleteRederive`'s closure.

Theorems come with each of these modules. Of those there are, two could say
more: the refinement could carry `CommittedLog`'s promise into
`InferenceMaintenance` and `LiveStream`, which now take that log as theirs, and
`DeleteRederive` could be shown to implement the step of
`InferenceMaintenance`'s memory it stands for.

## 10. Running it

    tlc -workers 2 -config MCChangeFeed_pg.cfg MCChangeFeed
    tlapm ChangeFeedProofs.tla

Each run's module, configuration and properties are in `PROJECT.json`, with the
lines each definition stands for and the mistake each property was tried on.
No run takes more than four minutes on two cores; all proofs together take about
a quarter of an hour from nothing, those of `InferenceProofs` five minutes.
