------------------------------ MODULE VectorStore ------------------------------
(***************************************************************************)
(* The SQLite vector store (pkg/core): the embeddings table, the in-memory *)
(* index kept beside it, the snapshot of that index stored in the same     *)
(* database, and the read-write lock s.mu under which calls run.           *)
(*                                                                         *)
(* A write reaches the table first and the index afterwards, in steps that *)
(* only s.mu and the index's own lock order; calls that change rows mostly *)
(* share s.mu, so two of them interleave.  Writers in a transaction of the *)
(* caller's (UpsertBatchTx) hold no lock between their commit and the two  *)
(* Sync calls.  The snapshot is written while all this goes on, and loaded *)
(* and reconciled with the table after a restart.  StoreLock models how    *)
(* calls wait for s.mu; here a call starts when it is granted.             *)
(*                                                                         *)
(* Vectors are values of one dimension.  Content, collections, metadata,   *)
(* quantized codes and the graph inside the index are left out: an index   *)
(* is the vector it holds for each id, or a tombstone.                     *)
(***************************************************************************)
EXTENDS Integers, FiniteSets

CONSTANTS
    Ids,        \* ids of embeddings
    Vecs,       \* vectors
    None,       \* no row, no node
    Tomb,       \* a node HNSW has soft-deleted
    Callers,    \* goroutines that call the store
    Kinds,      \* the calls they make
    Batches,    \* the sets of ids upserts are about
    Deletes,    \* the sets of ids deletes are about: an id, a document, a filter
    Margin,     \* snapshotRefreshMargin, in ticks of the clock
    MinChanges, \* AutoSave.MinChanges
    MaxClock,   \* bound of the clock
    Bounds      \* bounds of the calls, of the restarts, and of the troubles: failed
                \* statements and writes of another process

ASSUME StoreAssumption ==
    /\ None \notin Vecs /\ Tomb \notin Vecs /\ None # Tomb
    /\ None \notin [vec : Vecs, at : 0..MaxClock]
    /\ IsFiniteSet(Ids) /\ Batches \cup Deletes \subseteq SUBSET Ids
    /\ Margin \in Nat /\ MinChanges \in Nat \ {0} /\ MaxClock \in Nat
    /\ Bounds \in [{"calls", "troubles", "restarts"} -> Nat]

VARIABLES
    table,      \* id -> its row in embeddings: the vector and created_at
    index,      \* id -> the node the index holds
    mutations,  \* the index's change counter
    saved,      \* savedMutations
    snap,       \* the rows of index_snapshots; none are a snapshot of nothing
    save,       \* the two places that save: the auto-save loop and Close
    call,       \* per caller: the call it is in, and the lock it holds for it
    up,         \* "open", "closed" (the handle is gone) or "down" (no process)
    clock,
    drift,      \* history: ids on which overlapping calls or another process met, and
                \* those deleted though not listed
    left        \* what is left of Bounds

vars == <<table, index, mutations, saved, snap, save, call, up,
          clock, drift, left>>
stored == <<table, snap>>
memory == <<index, mutations, saved>>

-----------------------------------------------------------------------------
(* Rows, nodes and the ids in between *)

Savers == {"auto", "close"}
Shared == {"upsert", "delete", "deleteDoc", "clearDocs"}
Exclusive == {"deleteBatch", "deleteFilter", "deleteCollection", "deleteDocument"}

NoUps == [i \in {} |-> None]
Idle == [kind |-> "none", pc |-> "idle", lock |-> "none",
         scope |-> {}, forget |-> {}, ups |-> NoUps]
NotSaving == [pc |-> "idle", version |-> 0]

Row(v, t) == [vec |-> v, at |-> t]
Present == {i \in Ids : table[i] # None}
Live(ix) == {i \in Ids : ix[i] \in Vecs}
Tombs(ix) == {i \in Ids : ix[i] = Tomb}
Largest(S) == CHOOSE n \in S : \A m \in S : m <= n

Node(i) == IF table[i] = None THEN None ELSE table[i].vec
Held(i) == IF index[i] = Tomb THEN None ELSE index[i]

\* The ids a call has changed, or has read in order to change them, and has
\* not told the index about.
Scope(c) ==
    LET r == call[c] IN
    CASE r.kind = "deleteDocument" -> IF r.pc \in {"forget", "table"} THEN r.scope ELSE {}
      [] r.kind \in {"deleteDoc", "deleteFilter"} /\ r.pc = "table" -> r.scope
      [] r.kind # "deleteDocument" /\ r.pc \in {"forget", "ups", "sync"} ->
             r.forget \cup DOMAIN r.ups
      [] OTHER -> {}
Unsettled == UNION {Scope(c) : c \in Callers}

\* c changes rows S and will tell the index of W: an id another call is at
\* work on may end up either way.
Drift(c, S, W) ==
    (drift \ W) \cup {i \in S \cup W : \E d \in Callers \ {c} : i \in Scope(d)}

Spend(what) == left[what] > 0 /\ left' = [left EXCEPT ![what] = @ - 1]

-----------------------------------------------------------------------------
(* Calls, and the lock they hold to their end: s.mu for reading or writing    *)

CanRead == \A c \in Callers : call[c].lock # "write"
CanWrite(c) == \A d \in Callers \ {c} : call[d].lock = "none"

FirstStep(kind) ==
    IF kind \in {"deleteDoc", "deleteFilter", "deleteDocument"} THEN "list" ELSE "table"

\* The vectors a call carries.
Carried(kind, S) == IF kind = "upsert" THEN [S -> Vecs] ELSE {NoUps}

\* Upsert, UpsertBatch, Delete, DeleteByDocID, Clear and ClearByDocID under the
\* read lock.
StartShared(c, kind, S) ==
    /\ up = "open" /\ call[c] = Idle /\ CanRead
    /\ kind = "delete" => Cardinality(S) = 1
    /\ \E u \in Carried(kind, S) :
         call' = [call EXCEPT ![c] = [Idle EXCEPT !.kind = kind, !.lock = "read", !.scope = S,
                                                  !.ups = u, !.pc = FirstStep(kind)]]
    /\ Spend("calls")
    /\ UNCHANGED <<stored, memory, save, up, clock, drift>>

\* DeleteBatch, DeleteByFilter, DeleteCollection and DeleteDocument under the
\* write lock.
StartExclusive(c, kind, S) ==
    /\ up = "open" /\ call[c] = Idle /\ CanWrite(c)
    /\ call' = [call EXCEPT ![c] = [Idle EXCEPT !.kind = kind, !.lock = "write",
                                                !.scope = S, !.pc = FirstStep(kind)]]
    /\ Spend("calls")
    /\ UNCHANGED <<stored, memory, save, up, clock, drift>>

-----------------------------------------------------------------------------
(* The table *)

\* idsToForget and its like: a statement of its own, before the DELETE.  When
\* it fails, DeleteByDocID, Clear and DeleteDocument go on with no ids.
Listed(c) == Present \cap call[c].scope
List(c) ==
    /\ call[c].pc = "list"
    /\ LET r == call[c]
           listed == [r EXCEPT !.forget = Listed(c), !.pc = "table"] IN
       call' = [call EXCEPT ![c] =
                  CASE Listed(c) # {} -> IF r.kind = "deleteDocument"
                                         THEN [listed EXCEPT !.pc = "forget"] ELSE listed
                    [] Listed(c) = {} -> IF r.kind = "deleteFilter" THEN Idle ELSE listed]
    /\ UNCHANGED <<stored, memory, save, up, clock, drift, left>>
ListFails(c) ==
    /\ call[c].pc = "list" /\ call[c].kind \in {"deleteDoc", "deleteDocument"}
    /\ Spend("troubles")
    /\ call' = [call EXCEPT ![c].pc = "table"]
    /\ drift' = drift \cup (Present \cap call[c].scope)
    /\ UNCHANGED <<stored, memory, save, up, clock>>

WriteRows(c) ==
    LET r == call[c]
        S == DOMAIN r.ups IN
    /\ r.pc = "table" /\ r.kind = "upsert"
    /\ table' = [i \in Ids |-> IF i \in S THEN Row(r.ups[i], clock) ELSE table[i]]
    /\ call' = [call EXCEPT ![c].pc = "ups"]
    /\ drift' = Drift(c, S, S)
    /\ UNCHANGED <<snap, memory, save, up, clock, left>>

\* What the call drops from the index once its rows are gone.
ToForget(c) ==
    LET r == call[c] IN
    CASE r.kind \in {"delete", "clearDocs", "deleteCollection"} -> Present \cap r.scope
      [] r.kind = "deleteBatch" -> IF Present \cap r.scope = {} THEN {} ELSE r.scope
      [] r.kind \in {"deleteDoc", "deleteFilter"} -> r.forget
      [] OTHER -> {}
DeleteRows(c) ==
    LET W == ToForget(c)
        S == Present \cap call[c].scope IN
    /\ call[c].pc = "table" /\ call[c].kind # "upsert"
    /\ table' = [i \in Ids |-> IF i \in S THEN None ELSE table[i]]
    /\ call' = [call EXCEPT ![c] = IF W = {} THEN Idle
                                   ELSE [@ EXCEPT !.pc = "forget", !.forget = W]]
    /\ drift' = Drift(c, S, W)
    /\ UNCHANGED <<snap, memory, save, up, clock, left>>

\* ClearByDocID and DeleteCollection list within the transaction that deletes, and
\* go on as well.
DeleteUnlisted(c) ==
    LET S == Present \cap call[c].scope IN
    /\ call[c].pc = "table" /\ call[c].kind \in {"clearDocs", "deleteCollection"}
    /\ Spend("troubles")
    /\ table' = [i \in Ids |-> IF i \in S THEN None ELSE table[i]]
    /\ call' = [call EXCEPT ![c] = Idle]
    /\ drift' = drift \cup S
    /\ UNCHANGED <<snap, memory, save, up, clock>>

\* The statement fails and the call returns; DeleteDocument has told the index
\* already.
TableFails(c) ==
    /\ call[c].pc = "table"
    /\ Spend("troubles")
    /\ call' = [call EXCEPT ![c] = Idle]
    /\ drift' = IF call[c].kind = "deleteDocument" THEN drift \cup call[c].scope ELSE drift
    /\ UNCHANGED <<stored, memory, save, up, clock>>

\* A transaction of the caller's that deletes rows and writes rows with
\* UpsertBatchTx commits; the two Sync calls come later.
TxCommit(c, S, D) ==
    /\ up = "open" /\ call[c] = Idle
    /\ \E u \in [S -> Vecs] :
         /\ table' = [i \in Ids |-> IF i \in S THEN Row(u[i], clock)
                                    ELSE IF i \in D THEN None ELSE table[i]]
         /\ call' = [call EXCEPT ![c] = [Idle EXCEPT !.kind = "tx", !.pc = "sync",
                                           !.forget = D \cap Present, !.ups = u]]
    /\ drift' = Drift(c, S \cup (D \cap Present), S \cup (D \cap Present))
    /\ Spend("calls")
    /\ UNCHANGED <<snap, memory, save, up, clock>>

\* SyncDeletedEmbeddingIDs, then SyncUpsertedEmbeddings, each under the write
\* lock; neither looks whether the store was closed.
Sync(c) ==
    /\ call[c].pc = "sync" /\ CanWrite(c)
    /\ call' = [call EXCEPT ![c].lock = "write",
                            ![c].pc = IF call[c].forget # {} THEN "forget" ELSE "ups"]
    /\ UNCHANGED <<stored, memory, save, up, clock, drift, left>>

-----------------------------------------------------------------------------
(* The index: each of its operations takes its own lock *)

\* HNSW.Delete counts a change whether or not there is a node to mark.
ForgetNext(r, i) ==
    LET rest == [r EXCEPT !.forget = @ \ {i}] IN
    IF rest.forget # {} THEN rest
    ELSE CASE r.kind = "deleteDocument" -> [rest EXCEPT !.pc = "table"]
           [] r.kind = "tx" /\ DOMAIN r.ups # {} -> [rest EXCEPT !.pc = "sync", !.lock = "none"]
           [] OTHER -> Idle
Forget(c) ==
    /\ call[c].pc = "forget"
    /\ \E i \in call[c].forget :
         /\ index' = IF index[i] = None THEN index ELSE [index EXCEPT ![i] = Tomb]
         /\ call' = [call EXCEPT ![c] = ForgetNext(@, i)]
    /\ mutations' = mutations + 1
    /\ UNCHANGED <<stored, saved, save, up, clock, drift, left>>

\* HNSW.Upsert counts none when the node holds that vector.
HnswUpsert(c) ==
    /\ call[c].pc = "ups"
    /\ \E i \in DOMAIN call[c].ups :
         LET r == call[c]
             rest == DOMAIN r.ups \ {i} IN
         /\ index' = [index EXCEPT ![i] = r.ups[i]]
         /\ mutations' = IF index[i] = r.ups[i] THEN mutations ELSE mutations + 1
         /\ call' = [call EXCEPT ![c] =
                       IF rest = {} THEN Idle
                       ELSE [r EXCEPT !.ups = [j \in rest |-> r.ups[j]]]]
    /\ UNCHANGED <<stored, saved, save, up, clock, drift, left>>

-----------------------------------------------------------------------------
(* Snapshots *)

\* autoSaveLoop, on its timer; it holds no lock while it saves.
AutoSave ==
    /\ up = "open" /\ CanRead /\ save["auto"].pc = "idle"
    /\ mutations - saved >= MinChanges
    /\ save' = [save EXCEPT !["auto"] = [pc |-> "begun", version |-> mutations]]
    /\ UNCHANGED <<stored, memory, call, up, clock, drift, left>>

AfterSave(s) ==
    call' = IF s = "auto" THEN call
            ELSE [c \in Callers |-> IF call[c].pc = "saving"
                                    THEN [call[c] EXCEPT !.pc = "shut"] ELSE call[c]]

\* One transaction: the index is encoded while it holds SQLite's write lock.
\* stale is history: ids the index may have been wrong about.
WriteSnapshot(s) ==
    /\ save[s].pc = "begun" /\ up = "open"
    /\ snap' = [nodes |-> index, at |-> clock, stale |-> drift \cup Unsettled]
    /\ save' = [save EXCEPT ![s].pc = "wrote"]
    /\ UNCHANGED <<table, memory, call, up, clock, drift, left>>
SaveFails(s) ==
    /\ save[s].pc = "begun"
    /\ IF up = "closed" THEN UNCHANGED left ELSE Spend("troubles")
    /\ save' = [save EXCEPT ![s] = NotSaving]
    /\ AfterSave(s)
    /\ UNCHANGED <<stored, memory, up, clock, drift>>
\* Mutant: changes made during the save count as saved.
SaveDoneLate(s) ==
    /\ save[s].pc = "wrote"
    /\ saved' = mutations
    /\ save' = [save EXCEPT ![s] = NotSaving]
    /\ AfterSave(s)
    /\ UNCHANGED <<stored, index, mutations, up, clock, drift, left>>
SaveDone(s) ==
    /\ save[s].pc = "wrote"
    /\ saved' = save[s].version
    /\ save' = [save EXCEPT ![s] = NotSaving]
    /\ AfterSave(s)
    /\ UNCHANGED <<stored, index, mutations, up, clock, drift, left>>

-----------------------------------------------------------------------------
(* Opening: load, reconcile or rebuild *)

\* reconcileLoadedIndex.
Missing(ix) == Present \ Live(ix)
Unseen(ix) == Live(ix) \ Present
Cutoff == snap.at - Margin
\* Mutant: rows written before the snapshot's time are trusted to be in it.
RecentSinceSnapshot == {i \in Present : table[i].at >= snap.at}
Recent == {i \in Present : table[i].at >= Cutoff}
RebuildLimit(ix) == (3 * Largest({Cardinality(Present), Cardinality(Live(ix)), 1})) \div 10
Unusable(ix) ==
    LET touched == Cardinality(Missing(ix)) + Cardinality(Unseen(ix)) IN
    Cardinality(Tombs(ix)) > Cardinality(Live(ix)) \/ touched > RebuildLimit(ix)
Reconciled(ix) ==
    [i \in Ids |-> IF i \in Unseen(ix) THEN Tomb
                   ELSE IF i \in Missing(ix) \cup (Recent \cap Live(ix)) THEN Node(i) ELSE ix[i]]
Patches(ix) == Cardinality({i \in Ids : Reconciled(ix)[i] # ix[i]})

Open ==
    /\ up = "down"
    /\ up' = "open"
    /\ saved' = 0
    /\ IF Unusable(snap.nodes)
       THEN /\ index' = [i \in Ids |-> Node(i)]
            /\ mutations' = IF Present = {} THEN 0 ELSE 1
            /\ drift' = {}
       ELSE /\ index' = Reconciled(snap.nodes)
            /\ mutations' = Patches(snap.nodes)
            /\ drift' = {i \in snap.stale \cap Present : table[i].at < Cutoff}
    /\ UNCHANGED <<stored, save, call, clock, left>>

Crash ==
    /\ up # "down"
    /\ Spend("restarts")
    /\ up' = "down"
    /\ index' = [i \in Ids |-> None] /\ mutations' = 0 /\ saved' = 0
    /\ call' = [c \in Callers |-> Idle]
    /\ save' = [s \in Savers |-> NotSaving]
    /\ UNCHANGED <<stored, clock, drift>>

-----------------------------------------------------------------------------
(* Close *)

StartClose(c) ==
    /\ up = "open" /\ call[c] = Idle /\ CanWrite(c)
    /\ call' = [call EXCEPT ![c] = [Idle EXCEPT !.kind = "close", !.lock = "write", !.pc = "save"]]
    /\ Spend("calls")
    /\ UNCHANGED <<stored, memory, save, up, clock, drift>>
CloseSave(c) ==
    /\ call[c].pc = "save"
    /\ IF mutations = saved
       THEN /\ call' = [call EXCEPT ![c].pc = "shut"]
            /\ UNCHANGED save
       ELSE /\ call' = [call EXCEPT ![c].pc = "saving"]
            /\ save' = [save EXCEPT !["close"] = [pc |-> "begun", version |-> mutations]]
    /\ UNCHANGED <<stored, memory, up, clock, drift, left>>
Shut(c) ==
    /\ call[c].pc = "shut"
    /\ up' = "closed"
    /\ call' = [call EXCEPT ![c] = Idle]
    /\ UNCHANGED <<stored, memory, save, clock, drift, left>>

-----------------------------------------------------------------------------
(* Another process on the same file, whose clock is behind by up to the margin *)

Foreign(i, skew) ==
    /\ Spend("troubles")
    /\ \/ \E v \in Vecs : table' = [table EXCEPT ![i] = Row(v, Largest({clock - skew, 0}))]
       \/ table[i] # None /\ table' = [table EXCEPT ![i] = None]
    /\ drift' = drift \cup {i}
    /\ UNCHANGED <<snap, memory, save, call, up, clock>>

Tick ==
    /\ clock < MaxClock
    /\ clock' = clock + 1
    /\ UNCHANGED <<stored, memory, save, call, up, drift, left>>

-----------------------------------------------------------------------------
(* A new store, or one opened again after a clean shutdown. *)
Init ==
    \E v \in Vecs \cup {None} :
    /\ table = [i \in Ids |-> IF v = None THEN None ELSE Row(v, 0)]
    /\ index = [i \in Ids |-> v]
    /\ mutations = 0 /\ saved = 0
    /\ snap = [nodes |-> index, at |-> 0, stale |-> {}]
    /\ save = [s \in Savers |-> NotSaving]
    /\ call = [c \in Callers |-> Idle]
    /\ up = "open"
    /\ clock = 0
    /\ drift = {}
    /\ left = Bounds

CallStep(c) ==
    \/ List(c) \/ WriteRows(c) \/ DeleteRows(c) \/ Sync(c)
    \/ Forget(c) \/ HnswUpsert(c) \/ CloseSave(c) \/ Shut(c)
Start(c) ==
    \/ \E kind \in Shared \cap Kinds :
            \E S \in IF kind = "upsert" THEN Batches ELSE Deletes : StartShared(c, kind, S)
    \/ \E kind \in Exclusive \cap Kinds, S \in Deletes : StartExclusive(c, kind, S)
    \/ \E S \in Batches, D \in Deletes \cup {{}} : "tx" \in Kinds /\ TxCommit(c, S, D)
    \/ "close" \in Kinds /\ StartClose(c)
SaveStep(s) == WriteSnapshot(s) \/ SaveDone(s)

Next ==
    \/ \E c \in Callers : CallStep(c) \/ Start(c) \/ ListFails(c) \/ DeleteUnlisted(c) \/ TableFails(c)
    \/ \E s \in Savers : SaveStep(s) \/ SaveFails(s)
    \/ AutoSave \/ Crash \/ Open
    \/ \E i \in UNION Batches, skew \in 0..Margin : Foreign(i, skew)
    \/ Tick

Spec == Init /\ [][Next]_vars

-----------------------------------------------------------------------------
(* Properties *)

TypeOK ==
    /\ table \in [Ids -> [vec : Vecs, at : 0..MaxClock] \cup {None}]
    /\ index \in [Ids -> Vecs \cup {None, Tomb}]
    /\ mutations \in Nat /\ saved \in Nat
    /\ \A c \in Callers :
         /\ call[c].lock \in {"none", "read", "write"}
         /\ call[c].forget \subseteq Ids /\ DOMAIN call[c].ups \subseteq Ids
    /\ save \in [Savers -> [pc : {"idle", "begun", "wrote"}, version : Nat]]
    /\ up \in {"open", "closed", "down"} /\ clock \in 0..MaxClock /\ drift \subseteq Ids

\* The index and the table say the same of every id that no call is at work on
\* and that overlapping calls or another process have not met on, nor a delete
\* whose listing failed: whatever calls, saves, crashes and restarts came before.
IndexAgrees ==
    /\ TypeOK
    /\ up # "down" => \A i \in Ids \ (drift \cup Unsettled) : Held(i) = Node(i)

\* When the index counts no change since its snapshot, the snapshot holds the
\* index: Close and the auto-save loop, which then write nothing, lose nothing.
CleanMeansSaved ==
    up # "down" /\ mutations = saved =>
        Live(index) = {} \/ snap.nodes = index

=============================================================================
