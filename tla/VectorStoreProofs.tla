-------------------------- MODULE VectorStoreProofs --------------------------
(***************************************************************************)
(* Proofs about VectorStore, for any ids, vectors, callers and bounds: a   *)
(* store that counts no change since its snapshot has saved its index, so  *)
(* that Close and the auto-save loop, which then write nothing, lose       *)
(* nothing; and the index settles to the table's vectors.                  *)
(*                                                                         *)
(* A save reads the count before it writes the index, and the index may    *)
(* change at any moment of it.  What makes this harmless is that whoever   *)
(* changes the index counts the change in the same step: a snapshot written*)
(* by a save whose count still stands holds the index as it is             *)
(* (WroteCurrent), whichever of the two savers wrote last.                 *)
(*                                                                         *)
(* Index and table are kept together by what each call owes the index from *)
(* the moment it changes a row until the index has heard of it; and a store*)
(* that opens by what the snapshot need not be told again, since whatever  *)
(* changed after it is newer than the cutoff or noticed as missing.        *)
(***************************************************************************)
EXTENDS VectorStore, FiniteSetTheorems, TLAPS

Counts == mutations \in Nat /\ saved \in Nat /\ saved <= mutations
Nodes(ix) == ix = [i \in Ids |-> ix[i]]
Stored == Nodes(index) /\ Nodes(snap.nodes)

\* A save in progress is of a count the index has had.
VersionsBegun ==
    /\ save \in [Savers -> [pc : {"idle", "begun", "wrote"}, version : Nat]]
    /\ \A s \in Savers : save[s].pc # "idle" => save[s].version <= mutations

\* Without a process there is no call and no save.
DownIsQuiet ==
    up = "down" => /\ \A c \in Callers : call[c].pc = "idle"
                   /\ \A s \in Savers : save[s].pc = "idle"

\* A snapshot written under the count that stands holds the index.
WroteCurrent ==
    \A s \in Savers :
        save[s].pc = "wrote" /\ save[s].version = mutations => snap.nodes = index

SaveInv ==
    Counts /\ Stored /\ VersionsBegun /\ DownIsQuiet /\ WroteCurrent /\ CleanMeansSaved

-----------------------------------------------------------------------------
\* A save begins with the count of the moment.
LEMMA BeginKeeps ==
    ASSUME SaveInv, up # "down", UNCHANGED <<index, mutations, saved, snap, up>>,
           NEW s \in Savers, save' = [save EXCEPT ![s] = [pc |-> "begun", version |-> mutations]]
    PROVE  SaveInv'
<1> USE DEF SaveInv
<1>1. save'[s].pc = "begun" /\ save'[s].version = mutations
  BY DEF VersionsBegun
<1>2. \A x \in Savers \ {s} : save'[x] = save[x]
  BY DEF VersionsBegun
<1>3. VersionsBegun'
  BY <1>1, <1>2 DEF VersionsBegun, Counts
<1>4. WroteCurrent'
  BY <1>1, <1>2 DEF WroteCurrent
<1> QED BY <1>3, <1>4 DEF Counts, Stored, Nodes, DownIsQuiet, CleanMeansSaved, Live

\* Steps of calls on the table, and of their locks.
LEMMA StillKeeps ==
    ASSUME SaveInv, UNCHANGED <<index, mutations, saved, snap, save>>,
           up' = "down" => up = "down" /\ \A c \in Callers : call'[c].pc = "idle",
           up = "down" => up' = "down"
    PROVE  SaveInv'
BY DEF SaveInv, Counts, Stored, Nodes, VersionsBegun, DownIsQuiet, WroteCurrent, CleanMeansSaved, Live

\* A change of the index is counted with it.
LEMMA CountedKeeps ==
    ASSUME SaveInv, UNCHANGED <<saved, save, snap, up>>, up # "down", Nodes(index'),
           mutations' = mutations + 1
    PROVE  SaveInv'
<1> USE DEF SaveInv, Counts
<1>1. \A s \in Savers : save[s].pc # "idle" => save[s].version # mutations'
  BY DEF VersionsBegun
<1>2. Counts' /\ saved' # mutations'
  OBVIOUS
<1>3. VersionsBegun' /\ DownIsQuiet' /\ WroteCurrent'
  BY <1>1 DEF VersionsBegun, DownIsQuiet, WroteCurrent
<1> QED BY <1>2, <1>3 DEF Stored, Nodes, CleanMeansSaved

\* The steps of an upsert or a delete keep what a snapshot promises.
LEMMA CallsKeep ==
    ASSUME SaveInv, NEW c \in Callers,
           CallStep(c) \/ Start(c) \/ ListFails(c) \/ DeleteUnlisted(c) \/ TableFails(c)
    PROVE  SaveInv'
<1>1. ASSUME call[c].pc # "idle" PROVE up # "down"
  BY <1>1 DEF SaveInv, DownIsQuiet
<1>2. Start(c) => SaveInv'
  BY StillKeeps DEF Start, StartShared, StartExclusive, TxCommit, StartClose, stored, memory
<1>3. \/ List(c) \/ WriteRows(c) \/ DeleteRows(c) \/ Sync(c)
      \/ ListFails(c) \/ DeleteUnlisted(c) \/ TableFails(c)
      => SaveInv'
  BY <1>1, StillKeeps
     DEF List, WriteRows, DeleteRows, Sync, ListFails, DeleteUnlisted, TableFails, stored, memory
<1>4. ASSUME Forget(c) PROVE SaveInv'
  <2>1. /\ UNCHANGED <<saved, save, snap, up>> /\ mutations' = mutations + 1
        /\ call[c].pc = "forget"
    BY <1>4 DEF Forget, stored
  <2>2. Nodes(index')
    BY <1>4 DEF Forget, SaveInv, Stored, Nodes
  <2> QED BY <1>1, <2>1, <2>2, CountedKeeps
<1>5. ASSUME HnswUpsert(c) PROVE SaveInv'
  <2>1. UNCHANGED <<saved, save, snap, up>> /\ up # "down"
    BY <1>1, <1>5 DEF HnswUpsert, stored
  <2>2. PICK i : /\ index' = [index EXCEPT ![i] = call[c].ups[i]]
                 /\ mutations' = IF index[i] = call[c].ups[i] THEN mutations ELSE mutations + 1
    BY <1>5 DEF HnswUpsert
  <2>3. Nodes(index)
    BY DEF SaveInv, Stored
  <2>4. CASE index[i] = call[c].ups[i]
    <3>1. index' = index /\ mutations' = mutations
      BY <2>2, <2>3, <2>4 DEF Nodes
    <3> QED BY <2>1, <3>1, StillKeeps
  <2>5. CASE index[i] # call[c].ups[i]
    <3>1. Nodes(index') /\ mutations' = mutations + 1
      BY <2>2, <2>3, <2>5 DEF Nodes
    <3> QED BY <2>1, <3>1, CountedKeeps
  <2> QED BY <2>4, <2>5
<1>6. ASSUME CloseSave(c) PROVE SaveInv'
  <2>1. UNCHANGED <<index, mutations, saved, snap, up>> /\ up # "down"
    BY <1>1, <1>6 DEF CloseSave, stored, memory
  <2>2. CASE mutations = saved
    BY <1>6, <2>1, <2>2, StillKeeps DEF CloseSave
  <2>3. CASE mutations # saved
    <3>1. save' = [save EXCEPT !["close"] = [pc |-> "begun", version |-> mutations]]
      BY <1>6, <2>3 DEF CloseSave
    <3> QED BY <2>1, <3>1, BeginKeeps DEF Savers
  <2> QED BY <2>2, <2>3
<1>7. ASSUME Shut(c) PROVE SaveInv'
  <2>1. up # "down" /\ up' = "closed" /\ UNCHANGED <<index, mutations, saved, snap, save>>
    BY <1>1, <1>7 DEF Shut, stored, memory
  <2> QED BY <2>1, StillKeeps
<1> QED BY <1>2, <1>3, <1>4, <1>5, <1>6, <1>7 DEF CallStep

\* The steps of a save, failing ones included, keep what a snapshot promises.
LEMMA SavesKeep ==
    ASSUME SaveInv, NEW s \in Savers, SaveStep(s) \/ SaveFails(s)
    PROVE  SaveInv'
<1> USE DEF SaveInv
<1>1. /\ UNCHANGED <<index, mutations, up>>
      /\ save[s].pc # "idle"
    BY DEF SaveStep, WriteSnapshot, SaveDone, SaveFails, memory
<1>2. up # "down"
  BY <1>1 DEF DownIsQuiet
<1>3. ASSUME WriteSnapshot(s) PROVE SaveInv'
  <2>1. /\ snap'.nodes = index /\ save' = [save EXCEPT ![s].pc = "wrote"]
        /\ UNCHANGED <<index, mutations, saved, up>>
    BY <1>3 DEF WriteSnapshot, memory
  <2>2. VersionsBegun' /\ WroteCurrent' /\ Stored' /\ Counts'
    BY <1>1, <2>1 DEF VersionsBegun, WroteCurrent, Stored, Nodes, Counts
  <2> QED BY <1>2, <2>1, <2>2 DEF DownIsQuiet, CleanMeansSaved
<1>4. ASSUME SaveDone(s) PROVE SaveInv'
  <2>1. /\ save[s].pc = "wrote" /\ saved' = save[s].version
        /\ save' = [save EXCEPT ![s] = NotSaving]
        /\ UNCHANGED <<snap, index, mutations, up>>
    BY <1>4 DEF SaveDone, stored
  <2>2. save[s].version \in Nat /\ save[s].version <= mutations
    BY <2>1 DEF VersionsBegun
  <2>3. Counts' /\ Stored'
    BY <2>1, <2>2 DEF Counts, Stored, Nodes
  <2>4. VersionsBegun' /\ WroteCurrent'
    BY <2>1 DEF VersionsBegun, WroteCurrent, NotSaving
  <2>5. CleanMeansSaved'
    BY <2>1 DEF CleanMeansSaved, WroteCurrent
  <2> QED BY <1>2, <2>1, <2>3, <2>4, <2>5 DEF DownIsQuiet
<1>5. ASSUME SaveFails(s) PROVE SaveInv'
  <2>1. save' = [save EXCEPT ![s] = NotSaving] /\ UNCHANGED <<snap, index, mutations, saved, up>>
    BY <1>5 DEF SaveFails, stored, memory
  <2>2. VersionsBegun' /\ WroteCurrent' /\ CleanMeansSaved'
    BY <2>1 DEF VersionsBegun, WroteCurrent, NotSaving, CleanMeansSaved, Live
  <2> QED BY <1>2, <2>1, <2>2 DEF DownIsQuiet, Counts, Stored, Nodes
<1> QED BY <1>3, <1>4, <1>5 DEF SaveStep

\* A store that opens has counted what reconciling changed.
LEMMA OpenKeeps ==
    ASSUME SaveInv, Open
    PROVE  SaveInv'
<1> USE DEF SaveInv
<1>1. /\ up = "down" /\ up' = "open" /\ saved' = 0 /\ UNCHANGED <<snap, save>>
      /\ \A s \in Savers : save[s].pc = "idle"
  BY DEF Open, DownIsQuiet, stored
<1>2. /\ mutations' \in Nat /\ Nodes(index')
      /\ mutations' = 0 => Live(index') = {} \/ index' = snap.nodes
  <2>1. CASE Unusable(snap.nodes)
    <3>1. /\ index' = [i \in Ids |-> Node(i)]
          /\ mutations' = IF Present = {} THEN 0 ELSE 1
      BY <2>1 DEF Open
    <3>2. Present = {} => Live(index') = {}
      BY <3>1, StoreAssumption DEF Present, Live, Node
    <3>3. Nodes(index')
      BY <3>1 DEF Nodes
    <3> QED BY <3>1, <3>2, <3>3
  <2>2. CASE ~Unusable(snap.nodes)
    <3> DEFINE D == {i \in Ids : Reconciled(snap.nodes)[i] # snap.nodes[i]}
    <3>1. index' = Reconciled(snap.nodes) /\ mutations' = Cardinality(D)
      BY <2>2 DEF Open, Patches
    <3>2. IsFiniteSet(D)
      BY StoreAssumption, FS_Subset
    <3>3. Cardinality(D) \in Nat /\ (Cardinality(D) = 0 <=> D = {})
      BY <3>2, FS_CardinalityType, FS_EmptySet
    <3>4. Nodes(Reconciled(snap.nodes))
      BY DEF Nodes, Reconciled
    <3>5. D = {} => Reconciled(snap.nodes) = snap.nodes
      BY <3>4 DEF Stored, Nodes
    <3> QED BY <3>1, <3>3, <3>4, <3>5
  <2> QED BY <2>1, <2>2
<1> QED BY <1>1, <1>2 DEF Counts, Stored, Nodes, VersionsBegun, DownIsQuiet, WroteCurrent, CleanMeansSaved

\* A crash loses the memory and keeps the file, so the snapshot's promise stays.
LEMMA CrashKeeps ==
    ASSUME SaveInv, Crash
    PROVE  SaveInv'
<1>1. /\ up' = "down" /\ index' = [i \in Ids |-> None] /\ mutations' = 0 /\ saved' = 0
      /\ call' = [c \in Callers |-> Idle] /\ save' = [s \in Savers |-> NotSaving]
      /\ UNCHANGED snap
  BY DEF Crash, stored
<1> QED BY <1>1 DEF SaveInv, Counts, Stored, Nodes, VersionsBegun, DownIsQuiet, WroteCurrent,
                    CleanMeansSaved, Idle, NotSaving

\* The timer only begins a save.
LEMMA AutoSaveKeeps ==
    ASSUME SaveInv, AutoSave
    PROVE  SaveInv'
<1>1. /\ up = "open" /\ UNCHANGED <<index, mutations, saved, snap, up>>
      /\ save' = [save EXCEPT !["auto"] = [pc |-> "begun", version |-> mutations]]
  BY DEF AutoSave, stored, memory
<1> QED BY <1>1, BeginKeeps DEF Savers

\* A new store with no snapshot has nothing to promise.
LEMMA InitSave == Init => SaveInv
<1> SUFFICES ASSUME Init PROVE SaveInv
  OBVIOUS
<1>1. /\ mutations = 0 /\ saved = 0 /\ up = "open" /\ snap.nodes = index
      /\ index = [i \in Ids |-> index[i]] /\ save = [s \in Savers |-> NotSaving]
  BY DEF Init
<1> QED BY <1>1 DEF SaveInv, Counts, Stored, Nodes, VersionsBegun, DownIsQuiet, WroteCurrent,
                    CleanMeansSaved, NotSaving

\* Every step keeps what a snapshot promises.
LEMMA StepSave == SaveInv /\ [Next]_vars => SaveInv'
<1> SUFFICES ASSUME SaveInv, [Next]_vars PROVE SaveInv'
  OBVIOUS
<1>1. ASSUME Tick \/ (\E i, skew : Foreign(i, skew)) \/ UNCHANGED vars PROVE SaveInv'
  <2>1. UNCHANGED <<index, mutations, saved, snap, save, up, call>>
    BY <1>1 DEF Tick, Foreign, stored, memory, vars
  <2> QED BY <2>1, StillKeeps DEF SaveInv, DownIsQuiet
<1> QED BY <1>1, CallsKeep, SavesKeep, OpenKeeps, CrashKeeps, AutoSaveKeeps DEF Next

\* What CleanMeansSaved says of Close and the auto-save loop: a store that counts
\* no change since its snapshot has saved its index.
THEOREM CleanMeansSavedHolds == Spec => []CleanMeansSaved
<1>1. SaveInv => CleanMeansSaved
  BY DEF SaveInv
<1> QED BY <1>1, InitSave, StepSave, PTL DEF Spec

-----------------------------------------------------------------------------
(* What index and table say of an id                                       *)
(*                                                                         *)
(* Between the statement that changes a row and the moment the index hears *)
(* of it, a call owes the index that id.  An id nobody owes and nobody met *)
(* on (drift) is one the index has right (Settled); for the rest, each call*)
(* must know enough of the rows it has changed for the id to be right when *)
(* it has paid: the rows it forgets are gone (Dropped), those it tells of  *)
(* still hold its vectors (Written), those it has not listed are absent    *)
(* (Listing), and what DeleteDocument will delete the index has dropped    *)
(* (Document).  The table may belie any of it, but only for an id in drift.*)

Vectors == UNION {[S -> Vecs] : S \in SUBSET Ids}
CallRecords ==
    [kind : Shared \cup Exclusive \cup {"tx", "close", "none"},
     pc : {"idle", "list", "table", "forget", "sync", "ups", "save", "saving", "shut"},
     lock : {"none", "read", "write"},
     scope : SUBSET Ids, forget : SUBSET Ids, ups : Vectors]

\* Which calls reach which of their steps, with what.
Shape(r) ==
    /\ r.pc = "idle" => r = Idle
    /\ r.lock = "none" => r.pc \in {"idle", "sync"}
    /\ r.kind = "deleteDocument" => r.lock = "write" /\ (r.pc = "table" => r.forget = {})
    /\ r.kind \notin {"upsert", "tx"} => DOMAIN r.ups = {}
    /\ r.kind = "upsert" \/ r.pc \in {"list", "ups"} => r.forget = {}
    /\ r.kind \in {"deleteDoc", "deleteFilter", "deleteDocument"} => r.forget \subseteq r.scope
    /\ r.pc = "list" => r.kind \in {"deleteDoc", "deleteFilter", "deleteDocument"}
    /\ r.pc = "table" => r.kind \in Shared \cup Exclusive
    /\ r.pc = "ups" => r.kind \in {"upsert", "tx"}
    /\ r.pc = "sync" => r.kind = "tx"
    /\ r.pc \in {"save", "saving", "shut"} => r.kind = "close"

Rows == [Ids -> [vec : Vecs, at : 0..MaxClock] \cup {None}]
Index == [Ids -> Vecs \cup {None, Tomb}]
Typed ==
    /\ table \in Rows /\ index \in Index /\ snap.nodes \in Index
    /\ clock \in 0..MaxClock /\ snap.at \in 0..clock
    /\ drift \subseteq Ids /\ up \in {"open", "closed", "down"}
    /\ call \in [Callers -> CallRecords]
    /\ \A c \in Callers : Shape(call[c])

\* Whoever writes alone is alone.
Locks == \A c, d \in Callers : c # d /\ call[c].lock = "write" => call[d].lock = "none"

\* The ids c has changed the rows of, or dropped, and not settled with the index.
Waits(c) == call[c].pc = "table" /\ call[c].kind \in {"deleteDoc", "deleteFilter"}
Owes(c) == IF Waits(c) THEN {} ELSE Scope(c)

Listing(c) ==
    Waits(c) => \A i \in call[c].scope \ call[c].forget : table[i] = None \/ i \in drift
Dropped(c) ==
    call[c].kind # "deleteDocument" /\ call[c].pc \in {"forget", "sync", "ups"} =>
        \A i \in call[c].forget \ DOMAIN call[c].ups : table[i] = None \/ i \in drift
Written(c) ==
    call[c].pc \in {"forget", "sync", "ups"} =>
        \A i \in DOMAIN call[c].ups : Node(i) = call[c].ups[i] \/ i \in drift
Document(c) ==
    call[c].kind = "deleteDocument" /\ call[c].pc \in {"forget", "table"} =>
        \A i \in call[c].scope \ call[c].forget :
            Held(i) = None \/ i \in drift \/ \E d \in Callers \ {c} : i \in Owes(d)
Told(c) == Listing(c) /\ Dropped(c) /\ Written(c) /\ Document(c)

Settled ==
    up # "down" =>
        \A i \in Ids \ drift : (\A c \in Callers : i \notin Owes(c)) => Held(i) = Node(i)

\* The snapshot is right about what reconciling will not look at again.
SnapTold ==
    \A i \in Ids \ snap.stale :
        table[i] # None /\ table[i].at < Cutoff /\ snap.nodes[i] \in Vecs =>
            snap.nodes[i] = table[i].vec

AgreeInv ==
    /\ SaveInv /\ Typed /\ Locks
    /\ \A c \in Callers : Told(c)
    /\ Settled /\ SnapTold

-----------------------------------------------------------------------------
\* Carried vectors are vectors.
LEMMA VectorsOf ==
    /\ NoUps \in Vectors /\ DOMAIN NoUps = {}
    /\ \A S \in SUBSET Ids : [S -> Vecs] \subseteq Vectors
    /\ \A u \in Vectors : /\ DOMAIN u \subseteq Ids
                          /\ \A i \in DOMAIN u : u[i] \in Vecs
                          /\ \A S \in SUBSET DOMAIN u : [i \in S |-> u[i]] \in Vectors
<1>1. \A S \in SUBSET Ids : [S -> Vecs] \subseteq Vectors
  BY DEF Vectors
<1>2. NoUps \in [{} -> Vecs] /\ DOMAIN NoUps = {}
  BY DEF NoUps
<1>3. ASSUME NEW u \in Vectors
      PROVE  /\ DOMAIN u \subseteq Ids
             /\ \A i \in DOMAIN u : u[i] \in Vecs
             /\ \A S \in SUBSET DOMAIN u : [i \in S |-> u[i]] \in Vectors
  <2>1. PICK S \in SUBSET Ids : u \in [S -> Vecs]
    BY DEF Vectors
  <2>2. \A T \in SUBSET S : [i \in T |-> u[i]] \in [T -> Vecs]
    BY <2>1
  <2> QED BY <1>1, <2>1, <2>2
<1> QED BY <1>1, <1>2, <1>3

\* What is in flight about an id, by the step the call is at.
LEMMA ScopeIs ==
    ASSUME Typed, NEW c \in Callers
    PROVE  LET r == call[c] IN
           /\ r \in CallRecords /\ Shape(r) /\ DOMAIN r.ups \subseteq Ids
           /\ r.kind = "deleteDocument" /\ r.pc \in {"forget", "table"} => Scope(c) = r.scope
           /\ Waits(c) => Scope(c) = r.scope
           /\ r.kind # "deleteDocument" /\ r.pc \in {"forget", "ups", "sync"} =>
                  Scope(c) = r.forget \cup DOMAIN r.ups
           /\ ~Waits(c) /\ r.pc \notin {"forget", "ups", "sync"}
                 /\ ~(r.kind = "deleteDocument" /\ r.pc = "table") => Scope(c) = {}
           /\ Scope(c) \subseteq Ids /\ Owes(c) \subseteq Scope(c)
<1>1. call[c] \in CallRecords /\ Shape(call[c])
  BY DEF Typed
<1>2. DOMAIN call[c].ups \subseteq Ids
  BY <1>1, VectorsOf DEF CallRecords
<1> DEFINE r == call[c]
<1>3. r.kind = "deleteDocument" =>
          Scope(c) = IF r.pc \in {"forget", "table"} THEN r.scope ELSE {}
  BY DEF Scope
<1>4. Waits(c) => Scope(c) = r.scope
  BY DEF Scope, Waits
<1>5. r.kind # "deleteDocument" /\ r.pc \in {"forget", "ups", "sync"} =>
          Scope(c) = r.forget \cup DOMAIN r.ups
  BY DEF Scope
<1>6. ASSUME ~Waits(c), r.pc \notin {"forget", "ups", "sync"},
             ~(r.kind = "deleteDocument" /\ r.pc = "table")
      PROVE  Scope(c) = {}
  <2>1. CASE r.kind = "deleteDocument"
    BY <1>3, <1>6, <2>1
  <2>2. CASE r.kind # "deleteDocument"
    BY <1>6, <2>2 DEF Scope, Waits
  <2> QED BY <2>1, <2>2
<1>7. r.pc \in {"ups", "sync"} => r.kind # "deleteDocument"
  BY <1>1 DEF Shape
<1>8. r.scope \subseteq Ids /\ r.forget \subseteq Ids
  BY <1>1 DEF CallRecords
<1>9. Scope(c) \subseteq Ids
  BY <1>2, <1>3, <1>4, <1>5, <1>6, <1>8
<1>10. Owes(c) \subseteq Scope(c)
  BY DEF Owes
<1> QED BY <1>1, <1>2, <1>3, <1>4, <1>5, <1>6, <1>7, <1>9, <1>10

\* A call that does not move, and whose ids nobody touched but to put them in
\* drift, knows of its rows what it knew.
LEMMA OthersKeep ==
    ASSUME AgreeInv, NEW d \in Callers, call'[d] = call[d],
           \A i \in Scope(d) : i \notin drift' => i \notin drift /\ table'[i] = table[i]
    PROVE  Listing(d)' /\ Dropped(d)' /\ Written(d)'
<1>1. Typed /\ Told(d)
  BY DEF AgreeInv
<1>2. Listing(d)'
  BY <1>1, ScopeIs DEF Told, Listing, Waits
<1>3. Dropped(d)'
  <2> SUFFICES ASSUME call[d].kind # "deleteDocument", call[d].pc \in {"forget", "sync", "ups"},
                      NEW i \in call[d].forget \ DOMAIN call[d].ups, i \notin drift'
               PROVE  table'[i] = None
    BY DEF Dropped
  <2>1. i \in Scope(d)
    BY <1>1, ScopeIs
  <2> QED BY <1>1, <2>1 DEF Told, Dropped
<1>4. Written(d)'
  <2> SUFFICES ASSUME call[d].pc \in {"forget", "sync", "ups"},
                      NEW i \in DOMAIN call[d].ups, i \notin drift'
               PROVE  Node(i)' = call[d].ups[i]
    BY DEF Written
  <2>1. call[d].kind # "deleteDocument"
    BY <1>1, ScopeIs DEF Shape
  <2>2. i \in Scope(d)
    BY <1>1, <2>1, ScopeIs
  <2> QED BY <1>1, <2>2 DEF Told, Written, Node
<1> QED BY <1>2, <1>3, <1>4

\* A step of caller c: what it must show of its own ids, and of those of others.
LEMMA CallerKeeps ==
    ASSUME AgreeInv, SaveInv', NEW c \in Callers,
           call' \in [Callers -> CallRecords], Shape(call'[c]),
           \A d \in Callers \ {c} : call'[d] = call[d],
           call'[c].lock \in {"none", call[c].lock} \/ (call'[c].lock = "read" /\ CanRead)
             \/ CanWrite(c),
           call[c].lock # "none" \/ CanWrite(c)
             \/ (call[c].pc = "idle" /\ call'[c].lock # "write" /\ UNCHANGED index),
           table' \in Rows, index' \in Index, drift' \subseteq Ids, UNCHANGED <<snap, clock>>,
           up' \in {"open", "closed"}, up # "down", SnapTold',
           \A d \in Callers \ {c} : \A i \in Scope(d) :
               i \notin drift' => i \notin drift /\ table'[i] = table[i],
           Told(c)',
           \A i \in Ids \ drift' :
               i \notin Owes(c)' /\ (\A d \in Callers \ {c} : i \notin Owes(d)) => Held(i)' = Node(i)'
    PROVE  AgreeInv'
<1>1. Typed /\ Locks /\ \A d \in Callers : Told(d)
  BY DEF AgreeInv
<1>2. Typed'
  BY <1>1 DEF Typed
<1>3. Locks'
  <2> SUFFICES ASSUME NEW d \in Callers, NEW e \in Callers, d # e, call'[d].lock = "write"
               PROVE  call'[e].lock = "none"
    BY DEF Locks
  <2>1. CASE d # c /\ e # c
    BY <1>1, <2>1 DEF Locks
  <2>2. CASE d = c
    BY <1>1, <2>2 DEF Locks, CanWrite
  <2>3. CASE e = c
    <3>1. call[d].lock = "write" /\ call[c].lock = "none"
      BY <1>1, <2>3 DEF Locks
    <3>2. ~CanRead /\ ~CanWrite(c)
      BY <2>3, <3>1 DEF CanRead, CanWrite
    <3> QED BY <2>3, <3>1, <3>2
  <2> QED BY <2>1, <2>2, <2>3
<1>4. \A d \in Callers \ {c} : Scope(d)' = Scope(d) /\ Owes(d)' = Owes(d)
  BY DEF Scope, Owes, Waits
<1>5. ASSUME NEW d \in Callers \ {c} PROVE Document(d)'
  <2> SUFFICES ASSUME call[d].kind = "deleteDocument", call[d].pc \in {"forget", "table"},
                      NEW i \in call[d].scope \ call[d].forget, i \notin drift'
               PROVE  Held(i)' = None \/ \E e \in Callers \ {d} : i \in Owes(e)'
    BY DEF Document
  <2>1. call[d].lock = "write" /\ Scope(d) = call[d].scope
    BY <1>1, ScopeIs DEF Shape
  <2>2. call[c].lock = "none" /\ ~CanWrite(c)
    BY <1>1, <2>1 DEF Locks, CanWrite
  <2>3. UNCHANGED index /\ call[c].pc = "idle"
    BY <2>2
  <2>4. Owes(c) = {}
    <3>1. Scope(c) = {} /\ ~Waits(c)
      BY <1>1, <2>3, ScopeIs DEF Waits
    <3> QED BY <3>1 DEF Owes
  <2>5. i \notin drift
    BY <2>1
  <2>6. Held(i) = None \/ \E e \in Callers \ {d} : i \in Owes(e)
    BY <1>1, <2>5 DEF Told, Document
  <2>7. Held(i)' = Held(i)
    BY <2>3 DEF Held
  <2> QED BY <1>4, <2>4, <2>6, <2>7
<1>6. \A d \in Callers : Told(d)'
  BY <1>5, OthersKeep DEF Told
<1>7. Settled'
  BY <1>4 DEF Settled
<1> QED BY <1>2, <1>3, <1>6, <1>7 DEF AgreeInv

\* Steps that touch no row, node or drift.
LEMMA NothingMoves ==
    ASSUME AgreeInv, SaveInv', NEW c \in Callers,
           call' \in [Callers -> CallRecords], Shape(call'[c]),
           \A d \in Callers \ {c} : call'[d] = call[d],
           call'[c].lock \in {"none", call[c].lock} \/ (call'[c].lock = "read" /\ CanRead)
             \/ CanWrite(c),
           call[c].lock # "none" \/ CanWrite(c)
             \/ (call[c].pc = "idle" /\ call'[c].lock # "write"),
           UNCHANGED <<table, index, drift, snap, clock>>,
           up' \in {"open", "closed"}, up # "down",
           Told(c)', Owes(c) \subseteq Owes(c)'
    PROVE  AgreeInv'
<1>1. Typed /\ Settled /\ SnapTold
  BY DEF AgreeInv
<1>2. SnapTold'
  BY <1>1 DEF SnapTold, Cutoff
<1>3. ASSUME NEW i \in Ids \ drift', i \notin Owes(c)', \A d \in Callers \ {c} : i \notin Owes(d)
      PROVE  Held(i)' = Node(i)'
  BY <1>1, <1>3 DEF Settled, Held, Node
<1>4. table' \in Rows /\ index' \in Index /\ drift' \subseteq Ids
  BY <1>1 DEF Typed
<1> QED BY <1>2, <1>3, <1>4, CallerKeeps

\* A call under the read lock, or a transaction, begins.
LEMMA StartSharedAgrees ==
    ASSUME AgreeInv, SaveInv', NEW c \in Callers, NEW kind \in Shared,
           NEW S \in SUBSET Ids, StartShared(c, kind, S)
    PROVE  AgreeInv'
<1>1. PICK u \in Carried(kind, S) :
          call' = [call EXCEPT ![c] = [Idle EXCEPT !.kind = kind, !.lock = "read", !.scope = S,
                                                   !.ups = u, !.pc = FirstStep(kind)]]
  BY DEF StartShared
<1>2. u \in Vectors /\ (kind # "upsert" => DOMAIN u = {})
  BY VectorsOf DEF Carried
<1>3. /\ call \in [Callers -> CallRecords] /\ call[c] = Idle /\ CanRead /\ up = "open"
      /\ UNCHANGED <<table, index, drift, snap, clock, up>>
  BY DEF AgreeInv, Typed, StartShared, stored, memory
<1>4. call'[c] = [kind |-> kind, pc |-> FirstStep(kind), lock |-> "read",
                  scope |-> S, forget |-> {}, ups |-> u]
  BY <1>1, <1>3 DEF Idle
<1>5. FirstStep(kind) = IF kind = "deleteDoc" THEN "list" ELSE "table"
  BY DEF FirstStep, Shared
<1>6. call' \in [Callers -> CallRecords] /\ \A d \in Callers \ {c} : call'[d] = call[d]
  <2>1. call'[c] \in CallRecords
    BY <1>2, <1>4, <1>5 DEF CallRecords
  <2> QED BY <1>1, <1>3, <2>1
<1>7. Shape(call'[c])
  BY <1>2, <1>4, <1>5 DEF Shape, Shared
<1>8. Told(c)'
  BY <1>4, <1>5 DEF Told, Listing, Dropped, Written, Document, Waits, Shared
<1>9. Owes(c) = {}
  BY <1>3 DEF Owes, Scope, Waits, Idle
<1>10. /\ call'[c].lock = "read" /\ call[c].pc = "idle" /\ call'[c].lock # "write"
       /\ up' \in {"open", "closed"} /\ up # "down"
  BY <1>3, <1>4 DEF Idle
<1>11. call'[c].lock \in {"none", call[c].lock} \/ (call'[c].lock = "read" /\ CanRead) \/ CanWrite(c)
  BY <1>3, <1>10
<1>12. call[c].lock # "none" \/ CanWrite(c) \/ (call[c].pc = "idle" /\ call'[c].lock # "write")
  BY <1>10
<1>13. Owes(c) \subseteq Owes(c)'
  BY <1>9
<1>14. UNCHANGED <<table, index, drift, snap, clock>>
  BY <1>3
<1>15. AgreeInv /\ SaveInv' /\ c \in Callers
  OBVIOUS
<1> QED BY ONLY <1>6, <1>7, <1>8, <1>10, <1>11, <1>12, <1>13, <1>14, <1>15, NothingMoves

\* A call under the write lock begins.
LEMMA StartAloneAgrees ==
    ASSUME AgreeInv, SaveInv', NEW c \in Callers, up = "open", call[c] = Idle, CanWrite(c),
           NEW kind \in Exclusive \cup {"close"}, NEW S \in SUBSET Ids,
           NEW pc \in {"list", "table", "save"},
           pc = IF kind = "close" THEN "save" ELSE FirstStep(kind),
           call' = [call EXCEPT ![c] = call'[c]],
           call'[c] = [kind |-> kind, pc |-> pc, lock |-> "write",
                       scope |-> S, forget |-> {}, ups |-> NoUps],
           UNCHANGED <<stored, memory, drift, clock, up>>
    PROVE  AgreeInv'
<1>1. call \in [Callers -> CallRecords] /\ UNCHANGED <<table, index, drift, snap, clock, up>>
  BY DEF AgreeInv, Typed, stored, memory
<1>2. call'[c] = [kind |-> kind, pc |-> pc, lock |-> "write",
                  scope |-> S, forget |-> {}, ups |-> NoUps]
  OBVIOUS
<1>3. /\ pc \in {"list", "table", "save"}
      /\ pc = "list" => kind \in {"deleteFilter", "deleteDocument"}
      /\ pc = "table" => kind \notin {"deleteDoc", "deleteFilter", "deleteDocument", "close"}
      /\ pc = "save" => kind = "close"
  BY DEF FirstStep, Exclusive
<1>4. call' \in [Callers -> CallRecords] /\ \A d \in Callers \ {c} : call'[d] = call[d]
  <2>1. /\ NoUps \in Vectors /\ S \in SUBSET Ids /\ {} \in SUBSET Ids
        /\ kind \in Shared \cup Exclusive \cup {"tx", "close", "none"}
        /\ pc \in {"idle", "list", "table", "forget", "sync", "ups", "save", "saving", "shut"}
    BY <1>3, VectorsOf
  <2>2. [kind |-> kind, pc |-> pc, lock |-> "write", scope |-> S, forget |-> {}, ups |-> NoUps]
            \in CallRecords
    BY <2>1 DEF CallRecords
  <2> QED BY <1>1, <1>2, <2>2
<1>5. Shape(call'[c])
  <2>1. DOMAIN NoUps = {} /\ kind \notin {"upsert", "tx", "deleteDoc"}
    BY VectorsOf DEF Exclusive
  <2>2. kind \in Exclusive \cup {"close"}
    OBVIOUS
  <2>3. Shape([kind |-> kind, pc |-> pc, lock |-> "write",
               scope |-> S, forget |-> {}, ups |-> NoUps])
    BY <1>3, <2>1, <2>2 DEF Shape
  <2> QED BY <1>2, <2>3
<1>6. Told(c)'
  BY <1>2, <1>3, VectorsOf DEF Told, Listing, Dropped, Written, Document, Waits
<1>7. Owes(c) = {}
  BY DEF Owes, Scope, Waits, Idle
<1> QED BY <1>1, <1>4, <1>5, <1>6, <1>7, NothingMoves

\* Any call begins.
LEMMA StartAgrees ==
    ASSUME AgreeInv, SaveInv', NEW c \in Callers,
           NEW kind, NEW S \in SUBSET Ids,
           \/ kind \in Shared /\ StartShared(c, kind, S)
           \/ kind \in Exclusive /\ StartExclusive(c, kind, S)
           \/ StartClose(c)
    PROVE  AgreeInv'
<1>1. call \in [Callers -> CallRecords]
  BY DEF AgreeInv, Typed
<1>2. CASE kind \in Exclusive /\ StartExclusive(c, kind, S)
  <2>1. /\ up = "open" /\ call[c] = Idle /\ CanWrite(c)
        /\ call' = [call EXCEPT ![c] = [Idle EXCEPT !.kind = kind, !.lock = "write",
                                                    !.scope = S, !.pc = FirstStep(kind)]]
        /\ UNCHANGED <<stored, memory, drift, clock, up>>
    BY <1>2 DEF StartExclusive
  <2>2. kind # "close"
    BY <1>2 DEF Exclusive
  <2>3. call' = [call EXCEPT ![c] = call'[c]]
    BY <1>1, <2>1
  <2>4. PICK pc \in {"list", "table", "save"} : pc = FirstStep(kind)
    BY <1>2 DEF FirstStep
  <2>5. call'[c] = [kind |-> kind, pc |-> pc, lock |-> "write",
                    scope |-> S, forget |-> {}, ups |-> NoUps]
    BY <1>1, <2>1, <2>4 DEF Idle
  <2>6. pc = IF kind = "close" THEN "save" ELSE FirstStep(kind)
    BY <2>2, <2>4
  <2>7. kind \in Exclusive \cup {"close"}
    BY <1>2
  <2>8. /\ up = "open" /\ call[c] = Idle /\ CanWrite(c)
        /\ UNCHANGED <<stored, memory, drift, clock, up>>
    BY <2>1
  <2> QED BY <2>3, <2>5, <2>6, <2>7, <2>8, StartAloneAgrees
<1>3. CASE StartClose(c)
  <2>1. /\ up = "open" /\ call[c] = Idle /\ CanWrite(c)
        /\ call' = [call EXCEPT ![c] = [Idle EXCEPT !.kind = "close", !.lock = "write", !.pc = "save"]]
        /\ UNCHANGED <<stored, memory, drift, clock, up>>
    BY <1>3 DEF StartClose
  <2>2. call' = [call EXCEPT ![c] = call'[c]]
    BY <1>1, <2>1
  <2>3. call'[c] = [kind |-> "close", pc |-> "save", lock |-> "write",
                    scope |-> {}, forget |-> {}, ups |-> NoUps]
    BY <1>1, <2>1 DEF Idle
  <2> QED BY <2>1, <2>2, <2>3, StartAloneAgrees
<1> QED BY <1>2, <1>3, StartSharedAgrees

\* A caller in a step of its call: it has a process, a lock, and no other has
\* its record.
LEMMA MovingCall ==
    ASSUME AgreeInv, NEW c \in Callers, call[c].pc # "idle"
    PROVE  /\ up # "down" /\ up \in {"open", "closed"}
           /\ call \in [Callers -> CallRecords] /\ call[c] \in CallRecords /\ Shape(call[c])
           /\ call[c] = [kind |-> call[c].kind, pc |-> call[c].pc, lock |-> call[c].lock,
                         scope |-> call[c].scope, forget |-> call[c].forget, ups |-> call[c].ups]
           /\ call[c].pc # "sync" => call[c].lock # "none"
           /\ Told(c)
<1>1. SaveInv /\ Typed /\ Told(c)
  BY DEF AgreeInv
<1>2. up # "down" /\ up \in {"open", "closed"}
  BY <1>1 DEF SaveInv, DownIsQuiet, Typed
<1>3. call \in [Callers -> CallRecords] /\ call[c] \in CallRecords /\ Shape(call[c])
  BY <1>1 DEF Typed
<1>4. call[c].pc # "sync" => call[c].lock # "none"
  BY <1>3 DEF Shape
<1>5. call[c] = [kind |-> call[c].kind, pc |-> call[c].pc, lock |-> call[c].lock,
                 scope |-> call[c].scope, forget |-> call[c].forget, ups |-> call[c].ups]
  BY <1>3 DEF CallRecords
<1> QED BY <1>1, <1>2, <1>3, <1>4, <1>5

\* A call that returns leaves nothing behind of its own.
LEMMA IdleIsSound ==
    /\ Idle \in CallRecords /\ Shape(Idle) /\ Idle.lock = "none"
    /\ \A c \in Callers : call[c] = Idle => Told(c) /\ Owes(c) = {} /\ Scope(c) = {}
<1>1. Idle \in CallRecords
  BY VectorsOf DEF Idle, CallRecords
<1>2. Shape(Idle) /\ Idle.lock = "none"
  BY VectorsOf DEF Idle, Shape
<1>3. ASSUME NEW c \in Callers, call[c] = Idle
      PROVE  Told(c) /\ Owes(c) = {} /\ Scope(c) = {}
  BY <1>3 DEF Idle, Told, Listing, Dropped, Written, Document, Waits, Owes, Scope
<1> QED BY <1>1, <1>2, <1>3

\* A caller's record after a step of its own.
LEMMA Moved ==
    ASSUME call \in [Callers -> CallRecords], NEW c \in Callers, NEW r \in CallRecords,
           call' = [call EXCEPT ![c] = r]
    PROVE  /\ call'[c] = r /\ call' \in [Callers -> CallRecords]
           /\ \A d \in Callers \ {c} : call'[d] = call[d]
OBVIOUS

\* A deletion lists its ids.
LEMMA ListAgrees ==
    ASSUME AgreeInv, SaveInv', NEW c \in Callers, List(c)
    PROVE  AgreeInv'
<1> DEFINE r == call[c]
           L == Listed(c)
           listed == [r EXCEPT !.forget = L, !.pc = "table"]
<1>1. r.pc = "list" /\ UNCHANGED <<table, index, drift, snap, clock, up>>
  BY DEF List, stored, memory
<1>2. /\ r \in CallRecords /\ Shape(r) /\ r.lock # "none"
      /\ up \in {"open", "closed"} /\ up # "down" /\ call \in [Callers -> CallRecords]
      /\ r.kind \in {"deleteDoc", "deleteFilter", "deleteDocument"}
      /\ r = [kind |-> r.kind, pc |-> "list", lock |-> r.lock,
              scope |-> r.scope, forget |-> r.forget, ups |-> r.ups]
  <2>1. r.kind \in {"deleteDoc", "deleteFilter", "deleteDocument"}
    BY <1>1, MovingCall DEF Shape
  <2> QED BY <1>1, <2>1, MovingCall
<1>3. L = {i \in r.scope : table[i] # None} /\ r.scope \subseteq Ids
  BY <1>2 DEF Listed, Present, CallRecords
<1>4. Owes(c) = {}
  BY <1>1, <1>2 DEF Owes, Scope, Waits
<1>5. PICK new \in CallRecords :
          /\ call' = [call EXCEPT ![c] = new]
          /\ \/ new = Idle
             \/ new = [kind |-> r.kind, pc |-> "table", lock |-> r.lock,
                       scope |-> r.scope, forget |-> L, ups |-> r.ups]
                /\ (r.kind = "deleteDocument" => L = {})
             \/ new = [kind |-> r.kind, pc |-> "forget", lock |-> r.lock,
                       scope |-> r.scope, forget |-> L, ups |-> r.ups]
                /\ r.kind = "deleteDocument"
  <2> DEFINE at(pc) == [kind |-> r.kind, pc |-> pc, lock |-> r.lock,
                        scope |-> r.scope, forget |-> L, ups |-> r.ups]
  <2>1. listed = at("table")
    <3>1. ASSUME NEW x, x = listed PROVE x = at("table")
      BY <1>2, <3>1
    <3> QED BY <3>1
  <2>2. [listed EXCEPT !.pc = "forget"] = at("forget")
    <3>1. ASSUME NEW x, x = [at("table") EXCEPT !.pc = "forget"] PROVE x = at("forget")
      BY <3>1
    <3> QED BY <2>1, <3>1
  <2>3. at("table") \in CallRecords /\ at("forget") \in CallRecords /\ Idle \in CallRecords
    BY <1>2, <1>3, IdleIsSound DEF CallRecords
  <2>4. \/ call' = [call EXCEPT ![c] = Idle]
        \/ call' = [call EXCEPT ![c] = listed] /\ (r.kind = "deleteDocument" => L = {})
        \/ call' = [call EXCEPT ![c] = [listed EXCEPT !.pc = "forget"]] /\ r.kind = "deleteDocument"
    <3>1. CASE L = {}
      BY <3>1 DEF List
    <3>2. CASE L # {}
      BY <3>2 DEF List
    <3> QED BY <3>1, <3>2
  <2> QED BY <2>1, <2>2, <2>3, <2>4
<1>6. /\ call'[c] = new /\ call' \in [Callers -> CallRecords]
      /\ \A d \in Callers \ {c} : call'[d] = call[d]
  BY <1>2, <1>5, Moved
<1>7. Shape(new) /\ new.lock \in {"none", r.lock}
  <2>1. CASE new = Idle
    BY <2>1, IdleIsSound
  <2>2. CASE new # Idle
    BY <1>2, <1>3, <1>5, <2>2 DEF Shape, Shared, Exclusive
  <2> QED BY <2>1, <2>2
<1>8. Document(c)'
  <2> SUFFICES ASSUME r.kind = "deleteDocument", new # Idle,
                      NEW i \in r.scope \ L, i \notin drift
               PROVE  Held(i) = None \/ \E d \in Callers \ {c} : i \in Owes(d)
    <3>1. \A d \in Callers \ {c} : Owes(d)' = Owes(d)
      BY <1>6 DEF Owes, Scope, Waits
    <3> QED BY <1>1, <1>5, <1>6, <3>1 DEF Document, Held, Idle
  <2>1. Node(i) = None /\ i \in Ids
    BY <1>3 DEF Node
  <2> QED BY <1>2, <1>4, <2>1 DEF AgreeInv, Settled
<1>9. Told(c)'
  <2>1. CASE new = Idle
    BY <1>6, <2>1 DEF Idle, Told, Listing, Dropped, Written, Document, Waits
  <2>2. CASE new # Idle
    <3>1. new.forget = L /\ new.scope = r.scope /\ new.kind = r.kind /\ DOMAIN new.ups = {}
      BY <1>2, <1>5, <2>2 DEF Shape
    <3>2. Listing(c)'
      BY <1>1, <1>3, <1>6, <3>1 DEF Listing
    <3>3. Dropped(c)'
      BY <1>2, <1>5, <1>6, <2>2 DEF Dropped
    <3>4. Written(c)'
      BY <1>6, <3>1 DEF Written
    <3> QED BY <1>8, <3>2, <3>3, <3>4 DEF Told
  <2> QED BY <2>1, <2>2
<1> QED BY <1>1, <1>2, <1>4, <1>6, <1>7, <1>9, NothingMoves

\* A row is a row, and tells its vector and its time.
LEMMA RowIs ==
    ASSUME NEW v \in Vecs, NEW t \in 0..MaxClock
    PROVE  /\ Row(v, t) \in [vec : Vecs, at : 0..MaxClock] /\ Row(v, t) # None
           /\ Row(v, t).vec = v /\ Row(v, t).at = t
BY StoreAssumption DEF Row

\* An id another call is at work on is in drift once this step has met it.
LEMMA Drifted ==
    ASSUME NEW c \in Callers, NEW S, NEW W, drift' = Drift(c, S, W),
           NEW d \in Callers \ {c}, NEW i \in Scope(d), i \notin drift'
    PROVE  i \notin drift /\ i \notin S /\ i \notin W
BY DEF Drift

\* Rows written since the snapshot are recent, unless gone.
LEMMA RowsSnap ==
    ASSUME Typed, SnapTold, UNCHANGED <<snap, clock>>,
           \A i \in Ids : table'[i] = table[i] \/ table'[i] = None \/ table'[i].at >= clock - Margin,
           \A i \in Ids : table'[i] # None => table'[i].at \in 0..MaxClock
    PROVE  SnapTold'
<1>1. snap.at \in 0..clock /\ clock \in 0..MaxClock /\ Margin \in Nat /\ MaxClock \in Nat
  BY StoreAssumption DEF Typed
<1> SUFFICES ASSUME NEW i \in Ids \ snap.stale, table'[i] # None, table'[i].at < snap.at - Margin,
                    snap.nodes[i] \in Vecs
             PROVE  snap.nodes[i] = table'[i].vec
  BY DEF SnapTold, Cutoff
<1>2. table'[i] = table[i]
  BY <1>1
<1> QED BY <1>2 DEF SnapTold, Cutoff

\* DeleteByDocID and DeleteDocument go on without the ids they could not list.
LEMMA ListFailsAgrees ==
    ASSUME AgreeInv, SaveInv', NEW c \in Callers, ListFails(c)
    PROVE  AgreeInv'
<1> DEFINE r == call[c]
<1>1. /\ r.pc = "list" /\ r.kind \in {"deleteDoc", "deleteDocument"}
      /\ UNCHANGED <<table, index, snap, clock, up>>
      /\ drift' = drift \cup (Present \cap r.scope)
      /\ call' = [call EXCEPT ![c].pc = "table"]
  BY DEF ListFails, stored, memory
<1>2. /\ r \in CallRecords /\ Shape(r) /\ r.lock # "none" /\ r.forget = {}
      /\ up \in {"open", "closed"} /\ up # "down" /\ call \in [Callers -> CallRecords]
      /\ r.scope \subseteq Ids /\ DOMAIN r.ups = {}
  <2>1. r.forget = {} /\ DOMAIN r.ups = {}
    BY <1>1, MovingCall DEF Shape
  <2> QED BY <1>1, <2>1, MovingCall DEF CallRecords
<1>3. /\ call'[c] \in CallRecords /\ call' \in [Callers -> CallRecords]
      /\ \A d \in Callers \ {c} : call'[d] = call[d]
      /\ call'[c].pc = "table" /\ call'[c].kind = r.kind /\ call'[c].lock = r.lock
      /\ call'[c].scope = r.scope /\ call'[c].forget = {} /\ call'[c].ups = r.ups
  BY <1>1, <1>2 DEF CallRecords
<1>4. Shape(call'[c])
  BY <1>1, <1>2, <1>3 DEF Shape, Shared, Exclusive
<1>5. Typed /\ Settled /\ SnapTold /\ table \in Rows /\ index \in Index /\ drift \subseteq Ids
  BY DEF AgreeInv, Typed
<1>6. SnapTold' /\ drift' \subseteq Ids
  BY <1>1, <1>2, <1>5 DEF SnapTold, Cutoff, Present
<1>7. Owes(c) = {}
  BY <1>1 DEF Owes, Scope, Waits
<1>8. ASSUME NEW i \in Ids \ drift', \A d \in Callers \ {c} : i \notin Owes(d)
      PROVE  Held(i) = Node(i) /\ Held(i)' = Held(i) /\ Node(i)' = Node(i)
  BY <1>1, <1>2, <1>5, <1>7, <1>8 DEF Settled, Held, Node
<1>9. Document(c)'
  <2> SUFFICES ASSUME NEW i \in r.scope, i \notin drift', \A d \in Callers \ {c} : i \notin Owes(d)
               PROVE  Held(i)' = None
    <3>1. \A d \in Callers \ {c} : Owes(d)' = Owes(d)
      BY <1>3 DEF Owes, Scope, Waits
    <3> QED BY <1>3, <3>1 DEF Document
  <2>1. Held(i)' = Node(i)
    BY <1>2, <1>8
  <2>2. table[i] = None
    BY <1>1, <1>2 DEF Present
  <2> QED BY <2>1, <2>2 DEF Node
<1>10. Told(c)'
  <2>1. Listing(c)'
    BY <1>1, <1>2, <1>3 DEF Listing, Present
  <2> QED BY <1>2, <1>3, <1>9, <2>1 DEF Told, Dropped, Written
<1> QED BY <1>1, <1>2, <1>3, <1>4, <1>5, <1>6, <1>8, <1>10, CallerKeeps

\* Rows deleted unlisted are in drift, and the call is over.
LEMMA DeleteUnlistedAgrees ==
    ASSUME AgreeInv, SaveInv', NEW c \in Callers, DeleteUnlisted(c)
    PROVE  AgreeInv'
<1> DEFINE r == call[c]
           S == Present \cap r.scope
<1>1. /\ r.pc = "table" /\ r.kind \in {"clearDocs", "deleteCollection"}
      /\ UNCHANGED <<index, snap, clock, up>>
      /\ table' = [i \in Ids |-> IF i \in S THEN None ELSE table[i]]
      /\ drift' = drift \cup S
      /\ call' = [call EXCEPT ![c] = Idle]
  BY DEF DeleteUnlisted, memory
<1>2. /\ r \in CallRecords /\ Shape(r) /\ r.lock # "none"
      /\ up \in {"open", "closed"} /\ up # "down" /\ call \in [Callers -> CallRecords]
      /\ S \subseteq Ids
  BY <1>1, MovingCall DEF Present
<1>3. /\ call'[c] = Idle /\ call' \in [Callers -> CallRecords]
      /\ \A d \in Callers \ {c} : call'[d] = call[d]
      /\ Shape(call'[c]) /\ call'[c].lock = "none"
  BY <1>1, <1>2, IdleIsSound, Moved
<1>4. Typed /\ Settled /\ SnapTold /\ table \in Rows /\ index \in Index /\ drift \subseteq Ids
  BY DEF AgreeInv, Typed
<1> HIDE DEF S
<1>5. \A i \in Ids : table'[i] = IF i \in S THEN None ELSE table[i]
  BY <1>1
<1>6. table' \in Rows /\ drift' \subseteq Ids
  BY <1>1, <1>2, <1>4, <1>5 DEF Rows
<1>7. SnapTold'
  BY <1>1, <1>4, <1>5 DEF SnapTold, Cutoff
<1>8. Told(c)'
  BY <1>3 DEF Idle, Told, Listing, Dropped, Written, Document, Waits
<1>9. Owes(c) = {}
  BY <1>1 DEF Owes, Scope, Waits
<1>10. ASSUME NEW i \in Ids \ drift', \A d \in Callers \ {c} : i \notin Owes(d)
       PROVE  Held(i)' = Node(i)'
  <2>1. Held(i) = Node(i) /\ i \notin S
    BY <1>1, <1>2, <1>4, <1>9, <1>10 DEF Settled
  <2> QED BY <1>1, <1>5, <2>1 DEF Held, Node
<1>11. \A d \in Callers \ {c} : \A i \in Scope(d) :
           i \notin drift' => i \notin drift /\ table'[i] = table[i]
  <2> SUFFICES ASSUME NEW d \in Callers \ {c}, NEW i \in Scope(d), i \notin drift'
               PROVE  i \notin drift /\ table'[i] = table[i]
    OBVIOUS
  <2>1. i \in Ids
    BY <1>4, ScopeIs
  <2> QED BY <1>1, <1>5, <2>1
<1> QED BY <1>1, <1>2, <1>3, <1>4, <1>6, <1>7, <1>8, <1>10, <1>11, CallerKeeps

\* A call whose statement fails returns; what DeleteDocument has dropped from the
\* index is in drift.
LEMMA TableFailsAgrees ==
    ASSUME AgreeInv, SaveInv', NEW c \in Callers, TableFails(c)
    PROVE  AgreeInv'
<1> DEFINE r == call[c]
<1>1. /\ r.pc = "table" /\ UNCHANGED <<table, index, snap, clock, up>>
      /\ drift' = IF r.kind = "deleteDocument" THEN drift \cup r.scope ELSE drift
      /\ call' = [call EXCEPT ![c] = Idle]
  BY DEF TableFails, stored, memory
<1>2. /\ r \in CallRecords /\ Shape(r) /\ r.lock # "none"
      /\ up \in {"open", "closed"} /\ up # "down" /\ call \in [Callers -> CallRecords]
      /\ r.scope \subseteq Ids
  BY <1>1, MovingCall DEF CallRecords
<1>3. /\ call'[c] = Idle /\ call' \in [Callers -> CallRecords]
      /\ \A d \in Callers \ {c} : call'[d] = call[d]
      /\ Shape(call'[c]) /\ call'[c].lock = "none"
  BY <1>1, <1>2, IdleIsSound, Moved
<1>4. Typed /\ Settled /\ SnapTold /\ table \in Rows /\ index \in Index /\ drift \subseteq Ids
  BY DEF AgreeInv, Typed
<1>5. SnapTold' /\ drift' \subseteq Ids /\ drift \subseteq drift'
  BY <1>1, <1>2, <1>4 DEF SnapTold, Cutoff
<1>6. Told(c)'
  BY <1>3 DEF Idle, Told, Listing, Dropped, Written, Document, Waits
<1>7. Owes(c) \subseteq drift'
  <2>1. CASE r.kind = "deleteDocument"
    BY <1>1, <1>4, <2>1, ScopeIs
  <2>2. CASE r.kind # "deleteDocument"
    BY <1>1, <1>4, <2>2, ScopeIs DEF Owes
  <2> QED BY <2>1, <2>2
<1>8. ASSUME NEW i \in Ids \ drift', \A d \in Callers \ {c} : i \notin Owes(d)
      PROVE  Held(i)' = Node(i)'
  <2>1. Held(i) = Node(i)
    BY <1>2, <1>4, <1>5, <1>7, <1>8 DEF Settled
  <2> QED BY <1>1, <2>1 DEF Held, Node
<1>9. table' \in Rows /\ index' \in Index /\ UNCHANGED <<snap, clock>> /\ up' \in {"open", "closed"}
  BY <1>1, <1>2, <1>4
<1>10. \A d \in Callers \ {c} : \A i \in Scope(d) :
           i \notin drift' => i \notin drift /\ table'[i] = table[i]
  BY <1>1, <1>5
<1> QED BY <1>2, <1>3, <1>5, <1>6, <1>8, <1>9, <1>10, CallerKeeps

\* Rows an upsert writes hold what it will tell the index.
LEMMA WriteRowsAgrees ==
    ASSUME AgreeInv, SaveInv', NEW c \in Callers, WriteRows(c)
    PROVE  AgreeInv'
<1> DEFINE r == call[c]
           S == DOMAIN r.ups
<1>1. /\ r.pc = "table" /\ r.kind = "upsert" /\ UNCHANGED <<index, snap, clock, up>>
      /\ table' = [i \in Ids |-> IF i \in S THEN Row(r.ups[i], clock) ELSE table[i]]
      /\ drift' = Drift(c, S, S)
      /\ call' = [call EXCEPT ![c].pc = "ups"]
  BY DEF WriteRows, memory
<1>2. /\ r \in CallRecords /\ Shape(r) /\ r.lock # "none" /\ r.forget = {}
      /\ up \in {"open", "closed"} /\ up # "down" /\ call \in [Callers -> CallRecords]
  <2>1. r.forget = {}
    BY <1>1, MovingCall DEF Shape
  <2> QED BY <1>1, <2>1, MovingCall
<1>3. Typed /\ Settled /\ SnapTold /\ table \in Rows /\ index \in Index /\ drift \subseteq Ids
      /\ clock \in 0..MaxClock /\ clock \in Nat /\ Margin \in Nat
  BY StoreAssumption DEF AgreeInv, Typed
<1>4. S \subseteq Ids /\ \A i \in S : r.ups[i] \in Vecs
  BY <1>2, VectorsOf DEF CallRecords
<1>5. /\ call'[c] \in CallRecords /\ call' \in [Callers -> CallRecords]
      /\ \A d \in Callers \ {c} : call'[d] = call[d]
      /\ call'[c].pc = "ups" /\ call'[c].kind = "upsert" /\ call'[c].lock = r.lock
      /\ call'[c].forget = {} /\ call'[c].ups = r.ups
  BY <1>1, <1>2 DEF CallRecords
<1>6. Shape(call'[c])
  BY <1>2, <1>5 DEF Shape
<1>7. \A i \in Ids : table'[i] = IF i \in S THEN Row(r.ups[i], clock) ELSE table[i]
  BY <1>1
<1>8. \A i \in S : /\ table'[i] \in [vec : Vecs, at : 0..MaxClock] /\ table'[i] # None
                   /\ table'[i].vec = r.ups[i] /\ table'[i].at = clock
  BY <1>3, <1>4, <1>7, RowIs
<1>9. table' \in Rows
  BY <1>1, <1>3, <1>7, <1>8 DEF Rows
<1>10. \A i \in Ids : table'[i] = table[i] \/ table'[i].at = clock
  BY <1>7, <1>8
<1>11. SnapTold'
  <2>1. \A i \in Ids : table'[i] # None => table'[i].at \in 0..MaxClock
    BY <1>9 DEF Rows
  <2>2. clock >= clock - Margin
    BY <1>3
  <2>3. \A i \in Ids : table'[i] = table[i] \/ table'[i] = None \/ table'[i].at >= clock - Margin
    BY <1>10, <2>2
  <2>4. UNCHANGED <<snap, clock>>
    BY <1>1
  <2> QED BY <1>3, <2>1, <2>3, <2>4, RowsSnap
<1>12. \A i \in Ids \ drift' : i \notin S => i \notin drift
  BY <1>1 DEF Drift
<1>13. drift' \subseteq Ids
  BY <1>1, <1>3, <1>4 DEF Drift
<1>14. \A d \in Callers \ {c} : \A i \in Scope(d) :
           i \notin drift' => i \notin drift /\ table'[i] = table[i]
  <2> SUFFICES ASSUME NEW d \in Callers \ {c}, NEW i \in Scope(d), i \notin drift'
               PROVE  i \notin drift /\ table'[i] = table[i]
    OBVIOUS
  <2>1. i \notin drift /\ i \notin S
    BY <1>1, Drifted
  <2>2. i \in Ids
    BY <1>3, ScopeIs
  <2> QED BY <1>7, <2>1, <2>2
<1>15. Told(c)'
  <2>1. \A i \in S : Node(i)' = r.ups[i]
    BY <1>8 DEF Node
  <2>2. Written(c)'
    BY <1>5, <2>1 DEF Written
  <2> QED BY <1>5, <2>2 DEF Told, Listing, Dropped, Document, Waits
<1>16. ASSUME NEW i \in Ids \ drift', i \notin Owes(c)', \A d \in Callers \ {c} : i \notin Owes(d)
       PROVE  Held(i)' = Node(i)'
  <2>1. i \notin S
    BY <1>5, <1>16 DEF Owes, Waits, Scope
  <2>2. Owes(c) = {}
    BY <1>1 DEF Owes, Waits, Scope
  <2>3. Held(i) = Node(i)
    BY <1>2, <1>3, <1>12, <1>16, <2>1, <2>2 DEF Settled
  <2> QED BY <1>1, <1>7, <2>1, <2>3 DEF Held, Node
<1> QED BY <1>1, <1>2, <1>3, <1>5, <1>6, <1>9, <1>11, <1>13, <1>14, <1>15, <1>16, CallerKeeps

\* A transaction that commits leaves its ids to the two Sync calls.
LEMMA TxCommitAgrees ==
    ASSUME AgreeInv, SaveInv', NEW c \in Callers, NEW S \in SUBSET Ids, NEW D \in SUBSET Ids,
           TxCommit(c, S, D)
    PROVE  AgreeInv'
<1> DEFINE F == D \cap Present
           W == S \cup F
<1>1. PICK u \in [S -> Vecs] :
        /\ table' = [i \in Ids |-> IF i \in S THEN Row(u[i], clock)
                                   ELSE IF i \in D THEN None ELSE table[i]]
        /\ call' = [call EXCEPT ![c] = [Idle EXCEPT !.kind = "tx", !.pc = "sync",
                                                    !.forget = F, !.ups = u]]
  BY DEF TxCommit
<1>2. /\ call[c] = Idle /\ up = "open" /\ UNCHANGED <<index, snap, clock, up>>
      /\ drift' = Drift(c, W, W)
  BY DEF TxCommit, memory
<1>3. Typed /\ Settled /\ SnapTold /\ table \in Rows /\ index \in Index /\ drift \subseteq Ids
      /\ clock \in 0..MaxClock /\ clock \in Nat /\ Margin \in Nat
      /\ call \in [Callers -> CallRecords]
  BY StoreAssumption DEF AgreeInv, Typed
<1>4. call'[c] = [kind |-> "tx", pc |-> "sync", lock |-> "none",
                  scope |-> {}, forget |-> F, ups |-> u]
  BY <1>1, <1>3 DEF Idle
<1>5. u \in Vectors /\ DOMAIN u = S /\ F \subseteq Ids
  BY VectorsOf
<1>6. /\ call'[c] \in CallRecords /\ call' \in [Callers -> CallRecords]
      /\ \A d \in Callers \ {c} : call'[d] = call[d]
  <2>1. [kind |-> "tx", pc |-> "sync", lock |-> "none", scope |-> {}, forget |-> F, ups |-> u]
            \in CallRecords
    BY <1>5 DEF CallRecords
  <2> QED BY <1>1, <1>3, <1>4, <2>1
<1>7. Shape(call'[c])
  BY <1>4 DEF Shape
<1>8. \A i \in Ids : table'[i] = IF i \in S THEN Row(u[i], clock)
                                 ELSE IF i \in D THEN None ELSE table[i]
  BY <1>1
<1>9. \A i \in S : /\ table'[i] \in [vec : Vecs, at : 0..MaxClock] /\ table'[i] # None
                   /\ table'[i].vec = u[i] /\ table'[i].at = clock
  BY <1>3, <1>8, RowIs
<1>10. \A i \in Ids \ W : table'[i] = table[i]
  BY <1>8 DEF Present
<1>11. table' \in Rows
  BY <1>1, <1>3, <1>8, <1>9 DEF Rows
<1>12. SnapTold'
  <2>1. \A i \in Ids : table'[i] # None => table'[i].at \in 0..MaxClock
    BY <1>11 DEF Rows
  <2>2. clock >= clock - Margin
    BY <1>3
  <2>3. \A i \in Ids : table'[i] = table[i] \/ table'[i] = None \/ table'[i].at >= clock - Margin
    BY <1>8, <1>9, <2>2
  <2> QED BY <1>2, <1>3, <2>1, <2>3, RowsSnap
<1>13. drift' \subseteq Ids /\ \A i \in Ids \ drift' : i \notin W => i \notin drift
  BY <1>2, <1>3, <1>5 DEF Drift
<1>14. \A d \in Callers \ {c} : \A i \in Scope(d) :
           i \notin drift' => i \notin drift /\ table'[i] = table[i]
  <2> SUFFICES ASSUME NEW d \in Callers \ {c}, NEW i \in Scope(d), i \notin drift'
               PROVE  i \notin drift /\ table'[i] = table[i]
    OBVIOUS
  <2>1. i \notin drift /\ i \notin W
    BY <1>2, Drifted
  <2>2. i \in Ids
    BY <1>3, ScopeIs
  <2> QED BY <1>10, <2>1, <2>2
<1>15. Told(c)'
  <2>1. \A i \in S : Node(i)' = u[i]
    BY <1>9 DEF Node
  <2>2. Written(c)'
    BY <1>4, <1>5, <2>1 DEF Written
  <2>3. \A i \in F \ S : table'[i] = None
    BY <1>5, <1>8
  <2>4. Dropped(c)'
    BY <1>4, <1>5, <2>3 DEF Dropped
  <2> QED BY <1>4, <2>2, <2>4 DEF Told, Listing, Document, Waits
<1>16. ASSUME NEW i \in Ids \ drift', i \notin Owes(c)', \A d \in Callers \ {c} : i \notin Owes(d)
       PROVE  Held(i)' = Node(i)'
  <2>1. i \notin W
    BY <1>4, <1>5, <1>16 DEF Owes, Waits, Scope
  <2>2. Owes(c) = {}
    BY <1>2 DEF Owes, Waits, Scope, Idle
  <2>3. Held(i) = Node(i)
    BY <1>2, <1>3, <1>13, <1>16, <2>1, <2>2 DEF Settled
  <2> QED BY <1>2, <1>10, <2>1, <2>3 DEF Held, Node
<1>17. /\ call[c].pc = "idle" /\ call'[c].lock = "none" /\ up # "down" /\ up' \in {"open", "closed"}
       /\ UNCHANGED <<snap, clock>> /\ index' \in Index
  BY <1>2, <1>3, <1>4 DEF Idle
<1> QED BY <1>2, <1>6, <1>7, <1>11, <1>12, <1>13, <1>14, <1>15, <1>16, <1>17, CallerKeeps

\* The rows a call deletes are the ones it will forget, or were met on before.
LEMMA DeleteRowsAgrees ==
    ASSUME AgreeInv, SaveInv', NEW c \in Callers, DeleteRows(c)
    PROVE  AgreeInv'
<1> DEFINE r == call[c]
           W == ToForget(c)
           S == Present \cap r.scope
           forgetting == [kind |-> r.kind, pc |-> "forget", lock |-> r.lock,
                          scope |-> r.scope, forget |-> W, ups |-> r.ups]
<1>1. /\ r.pc = "table" /\ r.kind # "upsert" /\ UNCHANGED <<index, snap, clock, up>>
      /\ table' = [i \in Ids |-> IF i \in S THEN None ELSE table[i]]
      /\ drift' = Drift(c, S, W)
      /\ call' = [call EXCEPT ![c] = IF W = {} THEN Idle
                                     ELSE [@ EXCEPT !.pc = "forget", !.forget = W]]
  BY DEF DeleteRows, memory
<1>2. /\ r \in CallRecords /\ Shape(r) /\ r.lock # "none" /\ r.scope \subseteq Ids
      /\ r.kind \in Shared \cup Exclusive /\ DOMAIN r.ups = {}
      /\ up \in {"open", "closed"} /\ up # "down" /\ call \in [Callers -> CallRecords]
      /\ Told(c)
  <2>1. /\ r.kind \in Shared \cup Exclusive /\ r.kind # "tx"
        /\ r.scope \subseteq Ids
    BY <1>1, MovingCall DEF Shape, Shared, Exclusive, CallRecords
  <2>2. DOMAIN r.ups = {}
    BY <1>1, <2>1, MovingCall DEF Shape
  <2> QED BY <1>1, <2>1, <2>2, MovingCall
<1>3. Typed /\ Settled /\ SnapTold /\ table \in Rows /\ index \in Index /\ drift \subseteq Ids
  BY DEF AgreeInv, Typed

\* What is forgotten was asked for; what is not, and is deleted, is in drift
\* unless DeleteDocument has told the index of it already.
<1>4. W \subseteq r.scope
  BY <1>2 DEF ToForget, Shape
<1>5. r.kind = "deleteDocument" => W = {}
  BY DEF ToForget
<1>6. ASSUME NEW i \in S, i \notin W, r.kind # "deleteDocument" PROVE i \in drift
  <2>1. CASE r.kind \in {"deleteDoc", "deleteFilter"}
    <3>1. W = r.forget
      BY <2>1 DEF ToForget
    <3>2. table[i] # None
      BY <1>6 DEF Present
    <3> QED BY <1>1, <1>2, <1>6, <2>1, <3>1, <3>2 DEF Told, Listing, Waits
  <2>2. CASE r.kind \in {"delete", "clearDocs", "deleteCollection"}
    BY <1>6, <2>2 DEF ToForget
  <2>3. CASE r.kind = "deleteBatch"
    BY <1>6, <2>3 DEF ToForget
  <2> QED BY <1>1, <1>2, <1>6, <2>1, <2>2, <2>3 DEF Shared, Exclusive
<1>7. PICK new \in CallRecords :
          /\ call' = [call EXCEPT ![c] = new]
          /\ IF W = {} THEN new = Idle ELSE new = forgetting
  <2>1. CASE W = {}
    BY <1>1, <2>1, IdleIsSound
  <2>2. CASE W # {}
    <3>1. forgetting \in CallRecords
      BY <1>2, <1>4 DEF CallRecords
    <3>2. ASSUME NEW x, x = [r EXCEPT !.pc = "forget", !.forget = W] PROVE x = forgetting
      <4>1. r = [kind |-> r.kind, pc |-> "table", lock |-> r.lock,
                 scope |-> r.scope, forget |-> r.forget, ups |-> r.ups]
        BY <1>1, MovingCall
      <4> QED BY <3>2, <4>1
    <3>3. call' = [call EXCEPT ![c] = [r EXCEPT !.pc = "forget", !.forget = W]]
      BY <1>1, <1>2, <2>2
    <3>4. call' = [call EXCEPT ![c] = forgetting]
      BY <3>2, <3>3
    <3> QED BY <2>2, <3>1, <3>4
  <2> QED BY <2>1, <2>2
<1> HIDE DEF W, S
<1>8. /\ call'[c] = new /\ call' \in [Callers -> CallRecords]
      /\ \A d \in Callers \ {c} : call'[d] = call[d]
  BY <1>2, <1>7, Moved
<1>9. Shape(new) /\ new.lock \in {"none", r.lock}
  <2>1. CASE W = {}
    BY <1>7, <2>1, IdleIsSound
  <2>2. CASE W # {}
    BY <1>1, <1>2, <1>4, <1>5, <1>7, <2>2 DEF Shape
  <2> QED BY <2>1, <2>2
<1>10. \A i \in Ids : table'[i] = IF i \in S THEN None ELSE table[i]
  BY <1>1
<1>11. table' \in Rows
  BY <1>1, <1>3, <1>10 DEF Rows
<1>12. \A i \in r.scope : table'[i] = None
  BY <1>2, <1>10 DEF S, Present
<1>13. SnapTold'
  BY <1>1, <1>3, <1>10 DEF SnapTold, Cutoff
<1>14. S \subseteq Ids /\ W \subseteq Ids
  BY <1>2, <1>4 DEF S
<1>15. drift' \subseteq Ids /\ \A i \in Ids \ drift' : i \notin W => i \notin drift
  BY <1>1, <1>3, <1>14 DEF Drift
<1>16. \A d \in Callers \ {c} : \A i \in Scope(d) :
           i \notin drift' => i \notin drift /\ table'[i] = table[i]
  <2> SUFFICES ASSUME NEW d \in Callers \ {c}, NEW i \in Scope(d), i \notin drift'
               PROVE  i \notin drift /\ table'[i] = table[i]
    OBVIOUS
  <2>1. i \notin drift /\ i \notin S
    BY <1>1, Drifted
  <2>2. i \in Ids
    BY <1>3, ScopeIs
  <2> QED BY <1>10, <2>1, <2>2
<1>17. Told(c)'
  <2>1. CASE W = {}
    BY <1>7, <1>8, <2>1 DEF Idle, Told, Listing, Dropped, Written, Document, Waits
  <2>2. CASE W # {}
    <3>1. /\ call'[c].pc = "forget" /\ call'[c].forget = W /\ DOMAIN call'[c].ups = {}
          /\ call'[c].kind # "deleteDocument"
      BY <1>2, <1>5, <1>7, <1>8, <2>2
    <3>2. Dropped(c)'
      BY <1>4, <1>12, <3>1 DEF Dropped
    <3> QED BY <3>1, <3>2 DEF Told, Listing, Written, Document, Waits
  <2> QED BY <2>1, <2>2
<1>18. ASSUME NEW i \in Ids \ drift', i \notin Owes(c)', \A d \in Callers \ {c} : i \notin Owes(d)
       PROVE  Held(i)' = Node(i)'
  <2>1. i \notin W
    <3>1. CASE W = {}
      BY <3>1
    <3>2. CASE W # {}
      <4>1. call'[c].pc = "forget" /\ call'[c].forget = W /\ call'[c].kind # "deleteDocument"
        BY <1>5, <1>7, <1>8, <3>2
      <4> QED BY <1>18, <4>1 DEF Owes, Waits, Scope
    <3> QED BY <3>1, <3>2
  <2>2. i \notin drift
    BY <1>15, <1>18, <2>1
  <2>3. CASE r.kind = "deleteDocument" /\ i \in r.scope
    <3>1. r.forget = {} /\ r.lock = "write"
      BY <1>1, <1>2, <2>3 DEF Shape
    <3>2. Held(i) = None \/ \E d \in Callers \ {c} : i \in Owes(d)
      BY <1>1, <1>2, <2>2, <2>3, <3>1 DEF Told, Document
    <3>3. Held(i) = None /\ Node(i)' = None
      BY <1>12, <1>18, <2>3, <3>2 DEF Node
    <3> QED BY <1>1, <3>3 DEF Held
  <2>4. CASE ~(r.kind = "deleteDocument" /\ i \in r.scope)
    <3>1. i \notin S
      BY <1>6, <2>1, <2>2, <2>4 DEF S
    <3>2. i \notin Owes(c)
      BY <1>1, <1>3, <2>4, ScopeIs DEF Owes
    <3>3. Held(i) = Node(i)
      BY <1>2, <1>3, <1>18, <2>2, <3>2 DEF Settled
    <3> QED BY <1>1, <1>10, <3>1, <3>3 DEF Held, Node
  <2> QED BY <2>3, <2>4
<1> QED BY <1>1, <1>2, <1>3, <1>8, <1>9, <1>11, <1>13, <1>15, <1>16, <1>17, <1>18, CallerKeeps

\* The first Sync call, or the second, takes the lock.
LEMMA SyncAgrees ==
    ASSUME AgreeInv, SaveInv', NEW c \in Callers, Sync(c)
    PROVE  AgreeInv'
<1> DEFINE r == call[c]
<1>1. /\ r.pc = "sync" /\ CanWrite(c) /\ UNCHANGED <<table, index, drift, snap, clock, up>>
      /\ call' = [call EXCEPT ![c].lock = "write",
                              ![c].pc = IF r.forget # {} THEN "forget" ELSE "ups"]
  BY DEF Sync, stored, memory
<1>2. /\ r \in CallRecords /\ Shape(r) /\ r.kind = "tx" /\ Told(c)
      /\ up \in {"open", "closed"} /\ up # "down" /\ call \in [Callers -> CallRecords]
  <2>1. r.kind = "tx"
    BY <1>1, MovingCall DEF Shape
  <2> QED BY <1>1, <2>1, MovingCall
<1>3. /\ call'[c] \in CallRecords /\ call' \in [Callers -> CallRecords]
      /\ \A d \in Callers \ {c} : call'[d] = call[d]
      /\ call'[c].lock = "write" /\ call'[c].kind = "tx"
      /\ call'[c].pc = IF r.forget # {} THEN "forget" ELSE "ups"
      /\ call'[c].forget = r.forget /\ call'[c].ups = r.ups
  BY <1>1, <1>2 DEF CallRecords
<1>4. Shape(call'[c])
  BY <1>2, <1>3 DEF Shape
<1>5. Dropped(c)'
  BY <1>1, <1>2, <1>3 DEF Told, Dropped
<1>6. Written(c)'
  BY <1>1, <1>2, <1>3 DEF Told, Written, Node
<1>7. Told(c)'
  BY <1>3, <1>5, <1>6 DEF Told, Listing, Document, Waits
<1>8. Owes(c) \subseteq Owes(c)'
  <2>1. Owes(c) = r.forget \cup DOMAIN r.ups
    BY <1>1, <1>2 DEF Owes, Waits, Scope
  <2>2. Owes(c)' = r.forget \cup DOMAIN r.ups
    BY <1>3 DEF Owes, Waits, Scope
  <2> QED BY <2>1, <2>2
<1> QED BY <1>1, <1>2, <1>3, <1>4, <1>7, <1>8, NothingMoves

\* What the call goes on with once the index has dropped i.
LEMMA ForgetNextIs ==
    ASSUME NEW r \in CallRecords, Shape(r), r.pc = "forget", NEW i \in r.forget
    PROVE  LET F == r.forget \ {i}
               at(pc, lock) == [kind |-> r.kind, pc |-> pc, lock |-> lock,
                                scope |-> r.scope, forget |-> F, ups |-> r.ups]
               next == ForgetNext(r, i) IN
           /\ next \in CallRecords
           /\ \/ next = at("forget", r.lock)
              \/ next = at("table", r.lock) /\ F = {} /\ r.kind = "deleteDocument"
              \/ next = at("sync", "none") /\ F = {} /\ r.kind = "tx"
              \/ next = Idle /\ F = {} /\ r.kind # "deleteDocument" /\ DOMAIN r.ups = {}
<1> DEFINE F == r.forget \ {i}
           at(pc, lock) == [kind |-> r.kind, pc |-> pc, lock |-> lock,
                            scope |-> r.scope, forget |-> F, ups |-> r.ups]
           rest == [r EXCEPT !.forget = @ \ {i}]
<1>1. r = [kind |-> r.kind, pc |-> "forget", lock |-> r.lock,
           scope |-> r.scope, forget |-> r.forget, ups |-> r.ups]
  BY DEF CallRecords
<1>2. rest = at("forget", r.lock)
  <2>1. ASSUME NEW x, x = rest PROVE x = at("forget", r.lock)
    BY <1>1, <2>1
  <2> QED BY <2>1
<1>3. /\ [at("forget", r.lock) EXCEPT !.pc = "table"] = at("table", r.lock)
      /\ [at("forget", r.lock) EXCEPT !.pc = "sync", !.lock = "none"] = at("sync", "none")
  <2>1. ASSUME NEW x, x = [at("forget", r.lock) EXCEPT !.pc = "table"] PROVE x = at("table", r.lock)
    BY <2>1
  <2>2. ASSUME NEW x, x = [at("forget", r.lock) EXCEPT !.pc = "sync", !.lock = "none"]
        PROVE  x = at("sync", "none")
    BY <2>2
  <2> QED BY <2>1, <2>2
<1>4. \A pc \in {"forget", "table", "sync"}, lock \in {"none", r.lock} : at(pc, lock) \in CallRecords
  BY DEF CallRecords
<1>5. r.kind \notin {"deleteDocument", "tx"} => DOMAIN r.ups = {}
  <2>1. r.kind # "upsert"
    BY DEF Shape
  <2> QED BY <2>1 DEF Shape
<1>6. ForgetNext(r, i) = IF F # {} THEN at("forget", r.lock)
                         ELSE CASE r.kind = "deleteDocument" -> at("table", r.lock)
                                [] r.kind = "tx" /\ DOMAIN r.ups # {} -> at("sync", "none")
                                [] OTHER -> Idle
  <2>1. rest.forget = F
    BY <1>2
  <2> HIDE DEF at, F
  <2> QED BY <1>2, <1>3, <2>1 DEF ForgetNext
<1> HIDE DEF at, F
<1>7. CASE F # {}
  BY <1>4, <1>6, <1>7 DEF F, at
<1>8. CASE F = {} /\ r.kind = "deleteDocument"
  BY <1>4, <1>6, <1>8 DEF F, at
<1>9. CASE F = {} /\ r.kind = "tx" /\ DOMAIN r.ups # {}
  BY <1>4, <1>6, <1>9 DEF F, at
<1>10. CASE F = {} /\ r.kind # "deleteDocument" /\ ~(r.kind = "tx" /\ DOMAIN r.ups # {})
  <2>1. ForgetNext(r, i) = Idle /\ DOMAIN r.ups = {}
    BY <1>5, <1>6, <1>10
  <2> QED BY <1>10, <2>1, IdleIsSound DEF F, at
<1> QED BY <1>7, <1>8, <1>9, <1>10

\* The index drops an id whose row is gone, or will be under the same lock.
LEMMA ForgetAgrees ==
    ASSUME AgreeInv, SaveInv', NEW c \in Callers, Forget(c)
    PROVE  AgreeInv'
<1> DEFINE r == call[c]
<1>1. PICK i \in r.forget :
          /\ index' = IF index[i] = None THEN index ELSE [index EXCEPT ![i] = Tomb]
          /\ call' = [call EXCEPT ![c] = ForgetNext(@, i)]
  BY DEF Forget
<1>2. r.pc = "forget" /\ UNCHANGED <<table, drift, snap, clock, up>>
  BY DEF Forget, stored
<1>3. /\ r \in CallRecords /\ Shape(r) /\ r.lock # "none" /\ Told(c)
      /\ up \in {"open", "closed"} /\ up # "down" /\ call \in [Callers -> CallRecords]
      /\ i \in Ids
  BY <1>2, MovingCall DEF CallRecords
<1>4. /\ Typed /\ Settled /\ SnapTold /\ table \in Rows /\ index \in Index /\ drift \subseteq Ids
      /\ Tomb # None
  BY StoreAssumption DEF AgreeInv, Typed
<1> DEFINE F == r.forget \ {i}
           at(pc, lock) == [kind |-> r.kind, pc |-> pc, lock |-> lock,
                            scope |-> r.scope, forget |-> F, ups |-> r.ups]
<1>5. PICK new \in CallRecords :
          /\ new = ForgetNext(r, i)
          /\ \/ new = at("forget", r.lock)
             \/ new = at("table", r.lock) /\ F = {} /\ r.kind = "deleteDocument"
             \/ new = at("sync", "none") /\ F = {} /\ r.kind = "tx"
             \/ new = Idle /\ F = {} /\ r.kind # "deleteDocument" /\ DOMAIN r.ups = {}
  BY <1>2, <1>3, ForgetNextIs
<1>6. /\ call'[c] = new /\ call' \in [Callers -> CallRecords]
      /\ \A d \in Callers \ {c} : call'[d] = call[d]
  <2>1. call' = [call EXCEPT ![c] = new]
    BY <1>1, <1>3, <1>5
  <2> QED BY <1>3, <2>1, Moved
<1>7. Shape(new) /\ new.lock \in {"none", r.lock}
  <2>1. CASE new = Idle
    BY <2>1, IdleIsSound
  <2>2. CASE new # Idle
    BY <1>2, <1>3, <1>5, <2>2 DEF Shape, Exclusive
  <2> QED BY <2>1, <2>2
<1>8. /\ index' \in Index /\ Held(i)' = None
      /\ \A j \in Ids \ {i} : Held(j)' = Held(j)
  BY <1>1, <1>3, <1>4 DEF Index, Held
<1>9. SnapTold'
  BY <1>2, <1>4 DEF SnapTold, Cutoff
<1>10. new # Idle => new.kind = r.kind /\ new.scope = r.scope /\ new.forget = F /\ new.ups = r.ups
  BY <1>5
<1>11. \A d \in Callers \ {c} : Owes(d)' = Owes(d)
  BY <1>6 DEF Owes, Scope, Waits
<1>12. Told(c)'
  <2>1. CASE new = Idle
    BY <1>6, <2>1 DEF Idle, Told, Listing, Dropped, Written, Document, Waits
  <2>2. CASE new # Idle
    <3>1. ~Waits(c)'
      BY <1>5, <1>6, <2>2 DEF Waits
    <3>2. Dropped(c)'
      BY <1>2, <1>3, <1>6, <1>10, <2>2 DEF Told, Dropped
    <3>3. Written(c)'
      BY <1>2, <1>3, <1>6, <1>10, <2>2 DEF Told, Written, Node
    <3>4. Document(c)'
      <4> SUFFICES ASSUME r.kind = "deleteDocument", NEW j \in r.scope \ F, j \notin drift
                   PROVE  Held(j)' = None \/ \E d \in Callers \ {c} : j \in Owes(d)
        BY <1>2, <1>6, <1>10, <1>11, <2>2 DEF Document
      <4>1. CASE j = i
        BY <1>8, <4>1
      <4>2. CASE j # i
        <5>1. j \in r.scope \ r.forget /\ j \in Ids
          BY <1>3, <4>2 DEF CallRecords
        <5>2. Held(j) = None \/ \E d \in Callers \ {c} : j \in Owes(d)
          BY <1>2, <1>3, <5>1 DEF Told, Document
        <5> QED BY <1>8, <4>2, <5>1, <5>2
      <4> QED BY <4>1, <4>2
    <3> QED BY <3>1, <3>2, <3>3, <3>4 DEF Told, Listing
  <2> QED BY <2>1, <2>2
<1>13. \A j \in Owes(c) : j \in Owes(c)' \/ (j = i /\ r.kind # "deleteDocument" /\ i \notin DOMAIN r.ups)
  <2>1. CASE r.kind = "deleteDocument"
    <3>1. Owes(c) = r.scope
      BY <1>2, <1>4, <2>1, ScopeIs DEF Owes, Waits
    <3>2. new.pc \in {"forget", "table"} /\ new.kind = "deleteDocument" /\ new.scope = r.scope
      BY <1>5, <2>1
    <3>3. Owes(c)' = r.scope
      BY <1>6, <3>2 DEF Owes, Waits, Scope
    <3> QED BY <3>1, <3>3
  <2>2. CASE r.kind # "deleteDocument"
    <3>1. Owes(c) = r.forget \cup DOMAIN r.ups
      BY <1>2, <1>4, <2>2, ScopeIs DEF Owes, Waits
    <3>2. CASE new = Idle
      BY <1>5, <2>2, <3>1, <3>2 DEF Idle
    <3>3. CASE new # Idle
      <4>1. new.pc \in {"forget", "sync"}
        BY <1>5, <2>2, <3>3
      <4>2. Owes(c)' = F \cup DOMAIN r.ups
        BY <1>6, <1>10, <2>2, <3>3, <4>1 DEF Owes, Waits, Scope
      <4> QED BY <2>2, <3>1, <4>2
    <3> QED BY <3>2, <3>3
  <2> QED BY <2>1, <2>2
<1>14. ASSUME NEW j \in Ids \ drift', j \notin Owes(c)', \A d \in Callers \ {c} : j \notin Owes(d)
       PROVE  Held(j)' = Node(j)'
  <2>1. CASE j = i /\ r.kind # "deleteDocument" /\ i \notin DOMAIN r.ups
    <3>1. table[i] = None
      BY <1>2, <1>3, <1>14, <2>1 DEF Told, Dropped
    <3> QED BY <1>2, <1>8, <2>1, <3>1 DEF Node
  <2>2. CASE j \notin Owes(c)
    <3>1. Held(j) = Node(j)
      BY <1>2, <1>3, <1>4, <1>14, <2>2 DEF Settled
    <3>2. CASE j = i
      <4>1. r.kind = "deleteDocument"
        BY <1>2, <1>4, <2>2, <3>2, ScopeIs DEF Owes, Waits
      <4>2. Owes(c) = r.scope /\ i \in r.scope
        BY <1>2, <1>3, <1>4, <4>1, ScopeIs DEF Owes, Waits, Shape
      <4> QED BY <2>2, <3>2, <4>2
    <3>3. CASE j # i
      BY <1>2, <1>8, <3>1, <3>3 DEF Node
    <3> QED BY <3>2, <3>3
  <2> QED BY <1>13, <1>14, <2>1, <2>2
<1> QED BY <1>2, <1>3, <1>4, <1>6, <1>7, <1>8, <1>9, <1>12, <1>14, CallerKeeps

\* The index takes the vector the row holds.
LEMMA HnswUpsertAgrees ==
    ASSUME AgreeInv, SaveInv', NEW c \in Callers, HnswUpsert(c)
    PROVE  AgreeInv'
<1> DEFINE r == call[c]
<1>1. r.pc = "ups" /\ UNCHANGED <<table, drift, snap, clock, up>>
  BY DEF HnswUpsert, stored
<1>2. PICK i \in DOMAIN r.ups :
          /\ index' = [index EXCEPT ![i] = r.ups[i]]
          /\ call' = [call EXCEPT ![c] =
                        IF DOMAIN r.ups \ {i} = {} THEN Idle
                        ELSE [r EXCEPT !.ups = [j \in DOMAIN r.ups \ {i} |-> r.ups[j]]]]
  BY DEF HnswUpsert
<1>3. /\ r \in CallRecords /\ Shape(r) /\ r.lock # "none" /\ Told(c)
      /\ r.forget = {} /\ r.kind \in {"upsert", "tx"} /\ r.ups \in Vectors
      /\ up \in {"open", "closed"} /\ up # "down" /\ call \in [Callers -> CallRecords]
  <2>1. r.forget = {} /\ r.kind \in {"upsert", "tx"}
    BY <1>1, MovingCall DEF Shape
  <2> QED BY <1>1, <2>1, MovingCall DEF CallRecords
<1>4. /\ Typed /\ Settled /\ SnapTold /\ table \in Rows /\ index \in Index /\ drift \subseteq Ids
      /\ Tomb \notin Vecs
  BY StoreAssumption DEF AgreeInv, Typed
<1>5. i \in Ids /\ r.ups[i] \in Vecs
  BY <1>3, VectorsOf
<1> DEFINE D == DOMAIN r.ups \ {i}
           u == [j \in D |-> r.ups[j]]
           told == [kind |-> r.kind, pc |-> "ups", lock |-> r.lock,
                    scope |-> r.scope, forget |-> {}, ups |-> u]
<1>6. u \in Vectors /\ DOMAIN u = D /\ \A j \in D : u[j] = r.ups[j]
  BY <1>3, VectorsOf
<1>7. PICK new \in CallRecords :
          /\ call' = [call EXCEPT ![c] = new]
          /\ \/ new = Idle /\ D = {}
             \/ new = told
  <2>1. CASE D = {}
    BY <1>2, <2>1, IdleIsSound
  <2>2. CASE D # {}
    <3>1. told \in CallRecords
      BY <1>3, <1>6 DEF CallRecords
    <3>2. ASSUME NEW x, x = [r EXCEPT !.ups = u] PROVE x = told
      <4>1. r = [kind |-> r.kind, pc |-> "ups", lock |-> r.lock,
                 scope |-> r.scope, forget |-> {}, ups |-> r.ups]
        BY <1>1, <1>3, MovingCall
      <4> HIDE DEF u
      <4> QED BY <3>2, <4>1
    <3>3. call' = [call EXCEPT ![c] = told]
      BY <1>2, <2>2, <3>2
    <3> QED BY <3>1, <3>3
  <2> QED BY <2>1, <2>2
<1> HIDE DEF u
<1>8. /\ call'[c] = new /\ call' \in [Callers -> CallRecords]
      /\ \A d \in Callers \ {c} : call'[d] = call[d]
  BY <1>3, <1>7, Moved
<1>9. Shape(new) /\ new.lock \in {"none", r.lock}
  <2>1. CASE new = Idle
    BY <2>1, IdleIsSound
  <2>2. CASE new # Idle
    BY <1>3, <1>7, <2>2 DEF Shape
  <2> QED BY <2>1, <2>2
<1>10. /\ index' \in Index /\ Held(i)' = r.ups[i]
       /\ \A j \in Ids \ {i} : Held(j)' = Held(j)
  BY <1>2, <1>4, <1>5 DEF Index, Held
<1>11. SnapTold'
  BY <1>1, <1>4 DEF SnapTold, Cutoff
<1>12. Told(c)'
  <2>1. CASE new = Idle
    BY <1>8, <2>1 DEF Idle, Told, Listing, Dropped, Written, Document, Waits
  <2>2. CASE new # Idle
    <3>1. /\ new.pc = "ups" /\ new.forget = {} /\ new.ups = u /\ new.kind \in {"upsert", "tx"}
      BY <1>3, <1>7, <2>2
    <3>2. Written(c)'
      BY <1>1, <1>3, <1>6, <1>8, <3>1 DEF Told, Written, Node
    <3> QED BY <1>8, <3>1, <3>2 DEF Told, Listing, Dropped, Document, Waits
  <2> QED BY <2>1, <2>2
<1>13. \A j \in Owes(c) : j \in Owes(c)' \/ j = i
  <2>1. Owes(c) = DOMAIN r.ups
    BY <1>1, <1>3 DEF Owes, Waits, Scope
  <2>2. CASE new = Idle
    <3>1. D = {}
      BY <1>7, <2>2 DEF Idle
    <3> QED BY <2>1, <3>1
  <2>3. CASE new # Idle
    <3>1. new.pc = "ups" /\ new.forget = {} /\ new.ups = u /\ new.kind \in {"upsert", "tx"}
      BY <1>3, <1>7, <2>3
    <3>2. Owes(c)' = D
      BY <1>6, <1>8, <3>1 DEF Owes, Waits, Scope
    <3> QED BY <2>1, <3>2
  <2> QED BY <2>2, <2>3
<1>14. ASSUME NEW j \in Ids \ drift', j \notin Owes(c)', \A d \in Callers \ {c} : j \notin Owes(d)
       PROVE  Held(j)' = Node(j)'
  <2>1. CASE j = i
    <3>1. Node(i) = r.ups[i]
      BY <1>1, <1>3, <1>14, <2>1 DEF Told, Written
    <3> QED BY <1>1, <1>10, <2>1, <3>1 DEF Node
  <2>2. CASE j # i
    <3>1. Held(j) = Node(j)
      BY <1>1, <1>3, <1>4, <1>13, <1>14, <2>2 DEF Settled
    <3> QED BY <1>1, <1>10, <2>2, <3>1 DEF Node
  <2> QED BY <2>1, <2>2
<1> QED BY <1>1, <1>3, <1>4, <1>8, <1>9, <1>10, <1>11, <1>12, <1>14, CallerKeeps

\* Steps that leave rows, nodes and drift alone, and of calls move only those of
\* Close.
LEMMA QuietAgrees ==
    ASSUME AgreeInv, SaveInv', UNCHANGED <<table, index, drift>>,
           call' \in [Callers -> CallRecords],
           \A c \in Callers : call'[c] = call[c] \/ (/\ call[c].kind = "close" /\ call'[c].kind = "close"
                                                     /\ call'[c].pc \in {"saving", "shut"}
                                                     /\ call[c].pc \in {"save", "saving"}
                                                     /\ call'[c].lock = call[c].lock
                                                     /\ Shape(call'[c])),
           up' \in {"open", "closed", "down"}, up = "down" => up' = "down",
           clock' \in clock..MaxClock,
           \/ snap' = snap
           \/ up # "down" /\ snap' = [nodes |-> index, at |-> clock, stale |-> drift \cup Unsettled]
    PROVE  AgreeInv'
<1>1. /\ Typed /\ Locks /\ Settled /\ SnapTold /\ \A c \in Callers : Told(c)
      /\ Margin \in Nat /\ MaxClock \in Nat
  BY StoreAssumption DEF AgreeInv
<1>2. clock \in Nat /\ clock <= MaxClock /\ clock' \in Nat /\ clock' <= MaxClock /\ clock <= clock'
  BY <1>1 DEF Typed
<1>3. Typed'
  <2>1. snap'.nodes \in Index /\ snap'.at \in 0..clock'
    BY <1>1, <1>2 DEF Typed
  <2>2. \A c \in Callers : Shape(call'[c])
    BY <1>1 DEF Typed
  <2> QED BY <1>1, <1>2, <2>1, <2>2 DEF Typed
<1>4. Locks'
  BY <1>1 DEF Locks
<1>5. \A c \in Callers : Scope(c)' = Scope(c) /\ Owes(c)' = Owes(c) /\ (Waits(c)' <=> Waits(c))
  <2> SUFFICES ASSUME NEW c \in Callers
               PROVE  Scope(c)' = Scope(c) /\ Owes(c)' = Owes(c) /\ (Waits(c)' <=> Waits(c))
    OBVIOUS
  <2>1. CASE call'[c] = call[c]
    BY <2>1 DEF Scope, Owes, Waits
  <2>2. CASE call'[c] # call[c]
    BY <2>2 DEF Scope, Owes, Waits
  <2> QED BY <2>1, <2>2
<1>6. ASSUME NEW c \in Callers PROVE Told(c)'
  <2>1. CASE call'[c] = call[c]
    <3>1. Listing(c)' /\ Dropped(c)' /\ Written(c)'
      BY <1>1, <2>1 DEF Told, Listing, Dropped, Written, Waits, Node
    <3>2. Document(c)'
      BY <1>1, <1>5, <2>1 DEF Told, Document, Held
    <3> QED BY <3>1, <3>2 DEF Told
  <2>2. CASE call'[c] # call[c]
    BY <2>2 DEF Told, Listing, Dropped, Written, Document, Waits
  <2> QED BY <2>1, <2>2
<1>7. Settled'
  BY <1>1, <1>5 DEF Settled, Held, Node
<1>8. SnapTold'
  <2>1. CASE snap' = snap
    BY <1>1, <2>1 DEF SnapTold, Cutoff
  <2>2. CASE up # "down" /\ snap' = [nodes |-> index, at |-> clock, stale |-> drift \cup Unsettled]
    <3> SUFFICES ASSUME NEW i \in Ids \ (drift \cup Unsettled), table[i] # None, index[i] \in Vecs
                 PROVE  index[i] = table[i].vec
      BY <2>2 DEF SnapTold
    <3>1. \A c \in Callers : i \notin Owes(c)
      BY <1>1, ScopeIs DEF Unsettled
    <3>2. Held(i) = Node(i) /\ index[i] # Tomb
      BY <1>1, <2>2, <3>1, StoreAssumption DEF Settled
    <3> QED BY <3>2 DEF Held, Node
  <2> QED BY <2>1, <2>2
<1> QED BY <1>3, <1>4, <1>6, <1>7, <1>8 DEF AgreeInv

\* Close, and the end of a save it waits for.
LEMMA CloseAgrees ==
    ASSUME AgreeInv, SaveInv', NEW c \in Callers, CloseSave(c)
    PROVE  AgreeInv'
<1>1. /\ call[c].pc = "save" /\ UNCHANGED <<table, index, drift, snap, clock, up>>
      /\ \E pc \in {"saving", "shut"} : call' = [call EXCEPT ![c].pc = pc]
  BY DEF CloseSave, stored, memory
<1>2. PICK pc \in {"saving", "shut"} : call' = [call EXCEPT ![c].pc = pc]
  BY <1>1
<1>3. /\ call \in [Callers -> CallRecords] /\ call[c] \in CallRecords /\ Shape(call[c])
      /\ call[c].kind = "close" /\ Typed /\ MaxClock \in Nat
  <2>1. call[c].kind = "close"
    BY <1>1, MovingCall DEF Shape
  <2> QED BY <1>1, <2>1, MovingCall, StoreAssumption DEF AgreeInv
<1>4. /\ call'[c] \in CallRecords /\ call' \in [Callers -> CallRecords]
      /\ \A d \in Callers \ {c} : call'[d] = call[d]
      /\ call'[c].pc = pc /\ call'[c].kind = "close" /\ call'[c].lock = call[c].lock
      /\ call'[c].forget = call[c].forget /\ call'[c].ups = call[c].ups
  BY <1>2, <1>3 DEF CallRecords
<1>5. Shape(call'[c])
  BY <1>1, <1>3, <1>4 DEF Shape
<1>6. up' \in {"open", "closed", "down"} /\ (up = "down" => up' = "down") /\ clock' \in clock..MaxClock
  BY <1>1, <1>3 DEF Typed
<1>7. \A d \in Callers : call'[d] = call[d] \/ (/\ call[d].kind = "close" /\ call'[d].kind = "close"
                                                /\ call'[d].pc \in {"saving", "shut"}
                                                /\ call[d].pc \in {"save", "saving"}
                                                /\ call'[d].lock = call[d].lock
                                                /\ Shape(call'[d]))
  BY <1>1, <1>3, <1>4, <1>5
<1> QED BY <1>1, <1>4, <1>6, <1>7, QuietAgrees

\* Close has let go.
LEMMA ShutAgrees ==
    ASSUME AgreeInv, SaveInv', NEW c \in Callers, Shut(c)
    PROVE  AgreeInv'
<1>1. /\ call[c].pc = "shut" /\ UNCHANGED <<table, index, drift, snap, clock>>
      /\ up' = "closed" /\ call' = [call EXCEPT ![c] = Idle]
  BY DEF Shut, stored, memory
<1>2. /\ call \in [Callers -> CallRecords] /\ up # "down" /\ call[c].lock # "none"
  BY <1>1, MovingCall
<1>3. /\ call'[c] = Idle /\ call' \in [Callers -> CallRecords]
      /\ \A d \in Callers \ {c} : call'[d] = call[d]
      /\ Shape(call'[c]) /\ call'[c].lock = "none"
  BY <1>1, <1>2, IdleIsSound, Moved
<1>4. Told(c)'
  BY <1>3 DEF Idle, Told, Listing, Dropped, Written, Document, Waits
<1>5. Owes(c) = {}
  BY <1>1 DEF Owes, Scope, Waits
<1> QED BY <1>1, <1>2, <1>3, <1>4, <1>5, NothingMoves

\* A save changes the snapshot only.
LEMMA SavesAgree ==
    ASSUME AgreeInv, SaveInv', NEW s \in Savers, SaveStep(s) \/ SaveFails(s)
    PROVE  AgreeInv'
<1>1. UNCHANGED <<table, index, drift, clock, up>>
  BY DEF SaveStep, WriteSnapshot, SaveDone, SaveFails, memory, stored
<1>2. /\ call \in [Callers -> CallRecords] /\ up \in {"open", "closed", "down"}
      /\ clock \in 0..MaxClock /\ MaxClock \in Nat /\ \A c \in Callers : Shape(call[c])
  BY StoreAssumption DEF AgreeInv, Typed
<1>3. clock' \in clock..MaxClock
  BY <1>1, <1>2
<1>4. CASE WriteSnapshot(s)
  <2>1. /\ up = "open" /\ UNCHANGED call
        /\ snap' = [nodes |-> index, at |-> clock, stale |-> drift \cup Unsettled]
    BY <1>4 DEF WriteSnapshot
  <2> QED BY <1>1, <1>2, <1>3, <2>1, QuietAgrees
<1>5. CASE SaveDone(s) \/ SaveFails(s)
  <2>1. snap' = snap /\ AfterSave(s)
    BY <1>5 DEF SaveDone, SaveFails, stored
  <2>2. \A c \in Callers :
            call'[c] = call[c] \/ (call[c].pc = "saving" /\ call'[c] = [call[c] EXCEPT !.pc = "shut"])
    BY <1>2, <2>1 DEF AfterSave
  <2>3. ASSUME NEW c \in Callers, call[c].pc = "saving", call'[c] = [call[c] EXCEPT !.pc = "shut"]
        PROVE  /\ call'[c] \in CallRecords /\ Shape(call'[c])
               /\ call'[c].kind = "close" /\ call[c].kind = "close"
               /\ call'[c].pc = "shut" /\ call'[c].lock = call[c].lock
    <3>1. call[c] \in CallRecords /\ Shape(call[c]) /\ call[c].kind = "close"
      BY <1>2, <2>3 DEF Shape
    <3>2. /\ call'[c] \in CallRecords /\ call'[c].kind = "close" /\ call'[c].pc = "shut"
          /\ call'[c].lock = call[c].lock /\ call'[c].forget = call[c].forget
          /\ call'[c].ups = call[c].ups
      BY <2>3, <3>1 DEF CallRecords
    <3>3. Shape(call'[c])
      BY <2>3, <3>1, <3>2 DEF Shape
    <3> QED BY <3>1, <3>2, <3>3
  <2>4. call' \in [Callers -> CallRecords]
    <3>1. \A c \in Callers : call'[c] \in CallRecords
      BY <1>2, <2>2, <2>3
    <3>2. call' = [c \in Callers |-> call'[c]]
      BY <1>2, <2>1 DEF AfterSave
    <3> QED BY <3>1, <3>2
  <2>5. \A c \in Callers : call'[c] = call[c] \/ (/\ call[c].kind = "close" /\ call'[c].kind = "close"
                                                  /\ call'[c].pc \in {"saving", "shut"}
                                                  /\ call[c].pc \in {"save", "saving"}
                                                  /\ call'[c].lock = call[c].lock
                                                  /\ Shape(call'[c]))
    BY <2>2, <2>3
  <2> QED BY <1>1, <1>2, <1>3, <2>1, <2>4, <2>5, QuietAgrees
<1> QED BY <1>4, <1>5 DEF SaveStep

\* Nothing happens.
LEMMA StillAgrees ==
    ASSUME AgreeInv, SaveInv', AutoSave \/ Tick \/ UNCHANGED vars
    PROVE  AgreeInv'
<1>1. UNCHANGED <<table, index, drift, call, snap, up>>
  BY DEF AutoSave, Tick, vars, stored, memory
<1>2. clock' \in {clock, clock + 1} /\ (clock' = clock \/ clock < MaxClock)
  BY DEF AutoSave, Tick, vars
<1>3. /\ call \in [Callers -> CallRecords] /\ up \in {"open", "closed", "down"}
      /\ clock \in 0..MaxClock /\ MaxClock \in Nat
  BY StoreAssumption DEF AgreeInv, Typed
<1>4. clock' \in clock..MaxClock
  BY <1>2, <1>3
<1> QED BY <1>1, <1>3, <1>4, QuietAgrees

\* Another process writes or deletes a row, and the id is in drift.
LEMMA ForeignAgrees ==
    ASSUME AgreeInv, SaveInv', NEW i \in Ids, NEW skew \in 0..Margin, Foreign(i, skew)
    PROVE  AgreeInv'
<1>1. /\ UNCHANGED <<index, snap, call, up, clock>> /\ drift' = drift \cup {i}
      /\ \/ \E v \in Vecs : table' = [table EXCEPT ![i] = Row(v, Largest({clock - skew, 0}))]
         \/ table' = [table EXCEPT ![i] = None]
  BY DEF Foreign, memory
<1>2. /\ Typed /\ Locks /\ Settled /\ SnapTold /\ \A c \in Callers : Told(c)
      /\ table \in Rows /\ clock \in 0..MaxClock /\ clock \in Nat /\ Margin \in Nat /\ MaxClock \in Nat
  BY StoreAssumption DEF AgreeInv, Typed
<1>3. PICK t \in 0..MaxClock : t = Largest({clock - skew, 0}) /\ t >= clock - Margin
  <2>1. PICK n \in {clock - skew, 0} : \A m \in {clock - skew, 0} : m <= n
    BY <1>2
  <2>2. \A x \in {clock - skew, 0} : (\A m \in {clock - skew, 0} : m <= x) => x = n
    BY <1>2, <2>1
  <2>3. Largest({clock - skew, 0}) = n
    BY <2>1, <2>2 DEF Largest
  <2> QED BY <1>2, <2>1, <2>3
<1>4. /\ \A j \in Ids \ {i} : table'[j] = table[j]
      /\ table'[i] = None \/ \E v \in Vecs : table'[i] = Row(v, t)
      /\ DOMAIN table' = Ids /\ table' = [j \in Ids |-> table'[j]]
  BY <1>1, <1>2, <1>3 DEF Rows
<1>5. table'[i] \in [vec : Vecs, at : 0..MaxClock] \cup {None}
      /\ (table'[i] # None => table'[i].at = t)
  BY <1>4, RowIs
<1>6. table' \in Rows
  BY <1>2, <1>4, <1>5 DEF Rows
<1>7. Typed'
  BY <1>1, <1>2, <1>6 DEF Typed
<1>8. Locks'
  BY <1>1, <1>2 DEF Locks
<1>9. SnapTold'
  <2>1. \A j \in Ids : table'[j] = table[j] \/ table'[j] = None \/ table'[j].at >= clock - Margin
    BY <1>3, <1>4, <1>5
  <2>2. \A j \in Ids : table'[j] # None => table'[j].at \in 0..MaxClock
    BY <1>6 DEF Rows
  <2> QED BY <1>1, <1>2, <2>1, <2>2, RowsSnap
<1>10. \A c \in Callers : Owes(c)' = Owes(c)
  BY <1>1 DEF Owes, Scope, Waits
<1>11. ASSUME NEW c \in Callers PROVE Told(c)'
  <2>1. \A j \in Scope(c) : j \notin drift' => j \notin drift /\ table'[j] = table[j]
    <3>1. Scope(c) \subseteq Ids
      BY <1>2, ScopeIs
    <3> QED BY <1>1, <1>4, <3>1
  <2>2. Listing(c)' /\ Dropped(c)' /\ Written(c)'
    BY <1>1, <2>1, OthersKeep
  <2>3. Document(c)'
    BY <1>1, <1>2, <1>10 DEF Told, Document, Held
  <2> QED BY <2>2, <2>3 DEF Told
<1>12. Settled'
  BY <1>1, <1>2, <1>4, <1>10 DEF Settled, Held, Node
<1> QED BY <1>7, <1>8, <1>9, <1>11, <1>12 DEF AgreeInv

\* Without calls there is nothing in flight.
LEMMA IdleCalls ==
    ASSUME \A c \in Callers : call[c] = Idle
    PROVE  Locks /\ (\A c \in Callers : Told(c)) /\ (\A c \in Callers : Owes(c) = {})
<1>1. Locks
  BY DEF Locks, Idle
<1>2. \A c \in Callers : Told(c) /\ Owes(c) = {}
  BY IdleIsSound
<1> QED BY <1>1, <1>2

\* A process ends.
LEMMA CrashAgrees ==
    ASSUME AgreeInv, SaveInv', Crash
    PROVE  AgreeInv'
<1>1. /\ up' = "down" /\ index' = [i \in Ids |-> None] /\ UNCHANGED <<table, snap, clock, drift>>
      /\ call' = [c \in Callers |-> Idle]
  BY DEF Crash, stored
<1>2. Typed /\ SnapTold
  BY DEF AgreeInv
<1>3. index' \in Index /\ call' \in [Callers -> CallRecords] /\ \A c \in Callers : Shape(call'[c])
  BY <1>1, IdleIsSound DEF Index
<1>4. Typed'
  BY <1>1, <1>2, <1>3 DEF Typed
<1>5. \A c \in Callers : call'[c] = Idle
  BY <1>1
<1>6. Locks' /\ \A c \in Callers : Told(c)'
  <2>1. Locks'
    BY <1>5 DEF Locks, Idle
  <2>2. \A c \in Callers : Told(c)'
    BY <1>5 DEF Idle, Told, Listing, Dropped, Written, Document, Waits
  <2> QED BY <2>1, <2>2
<1>7. Settled' /\ SnapTold'
  BY <1>1, <1>2 DEF Settled, SnapTold, Cutoff
<1> QED BY <1>4, <1>6, <1>7 DEF AgreeInv

\* Opening takes the snapshot's word only where it is to be believed.
LEMMA OpenAgrees ==
    ASSUME AgreeInv, SaveInv', Open
    PROVE  AgreeInv'
<1> DEFINE ix == snap.nodes
<1>1. up = "down" /\ up' = "open" /\ UNCHANGED <<table, snap, call, clock>>
  BY DEF Open, stored
<1>2. /\ Typed /\ SnapTold /\ table \in Rows /\ ix \in Index /\ None \notin Vecs /\ Tomb \notin Vecs
      /\ Tomb # None
  BY StoreAssumption DEF AgreeInv, Typed
<1>3. \A c \in Callers : call[c] = Idle
  BY <1>1 DEF AgreeInv, SaveInv, DownIsQuiet, Typed, Shape
<1>4. \A i \in Ids : Node(i) \in Vecs \cup {None} /\ (Node(i) = None <=> i \notin Present)
  BY <1>2 DEF Rows, Node, Present
<1>5. /\ index' \in Index /\ drift' \subseteq Ids
      /\ \A i \in Ids \ drift' : index'[i] = Node(i) \/ (index'[i] = Tomb /\ Node(i) = None)
  <2>1. CASE Unusable(ix)
    <3>1. index' = [i \in Ids |-> Node(i)] /\ drift' = {}
      BY <2>1 DEF Open
    <3> QED BY <1>4, <3>1 DEF Index
  <2>2. CASE ~Unusable(ix)
    <3>1. /\ index' = Reconciled(ix)
          /\ drift' = {i \in snap.stale \cap Present : table[i].at < Cutoff}
      BY <2>2 DEF Open
    <3>2. \A i \in Ids : index'[i] = IF i \in Unseen(ix) THEN Tomb
                                     ELSE IF i \in Missing(ix) \cup (Recent \cap Live(ix))
                                          THEN Node(i) ELSE ix[i]
      BY <3>1 DEF Reconciled
    <3>3. index' \in Index
      BY <1>2, <1>4, <3>1 DEF Index, Reconciled
    <3>4. ASSUME NEW i \in Ids \ drift'
          PROVE  index'[i] = Node(i) \/ (index'[i] = Tomb /\ Node(i) = None)
      <4>1. CASE i \in Live(ix) \ Present
        BY <1>4, <3>2, <4>1 DEF Unseen
      <4>2. CASE i \notin Live(ix) /\ i \in Present
        BY <3>2, <4>2 DEF Unseen, Missing
      <4>3. CASE i \notin Live(ix) /\ i \notin Present
        <5>1. index'[i] = ix[i]
          BY <3>2, <4>3 DEF Unseen, Missing
        <5>2. ix[i] \in {None, Tomb}
          BY <1>2, <4>3 DEF Live, Index
        <5> QED BY <1>4, <4>3, <5>1, <5>2
      <4>4. CASE i \in Live(ix) /\ i \in Present
        <5>1. CASE i \in Recent
          BY <3>2, <4>4, <5>1 DEF Unseen
        <5>2. CASE i \notin Recent
          <6>1. index'[i] = ix[i] /\ ix[i] \in Vecs /\ table[i] # None
            BY <3>2, <4>4, <5>2 DEF Unseen, Missing, Live, Present
          <6>2. table[i].at < Cutoff
            <7>1. table[i].at \in Int /\ Cutoff \in Int
              BY <1>2, <6>1, StoreAssumption DEF Rows, Typed, Cutoff
            <7> QED BY <4>4, <5>2, <7>1 DEF Recent
          <6>3. i \notin snap.stale
            BY <3>1, <3>4, <4>4, <6>2
          <6> QED BY <1>2, <6>1, <6>2, <6>3 DEF SnapTold, Node
        <5> QED BY <5>1, <5>2
      <4> QED BY <4>1, <4>2, <4>3, <4>4
    <3> QED BY <3>1, <3>3, <3>4 DEF Present
  <2> QED BY <2>1, <2>2
<1>6. Typed'
  BY <1>1, <1>2, <1>5 DEF Typed
<1>7. /\ \A c \in Callers : Told(c)'
      /\ Locks'
  <2>1. \A c \in Callers : call'[c] = Idle
    BY <1>1, <1>3
  <2>2. \A c \in Callers : Told(c)'
    BY <2>1 DEF Idle, Told, Listing, Dropped, Written, Document, Waits
  <2>3. Locks'
    BY <2>1 DEF Locks, Idle
  <2> QED BY <2>2, <2>3
<1>8. Settled'
  BY <1>1, <1>2, <1>4, <1>5 DEF Settled, Held, Node
<1>9. SnapTold'
  BY <1>1, <1>2 DEF SnapTold, Cutoff
<1> QED BY <1>6, <1>7, <1>8, <1>9 DEF AgreeInv

\* A new store's empty index agrees with its empty table.
LEMMA InitAgree == Init => AgreeInv
<1> SUFFICES ASSUME Init PROVE AgreeInv
  OBVIOUS
<1>1. PICK v \in Vecs \cup {None} :
        /\ table = [i \in Ids |-> IF v = None THEN None ELSE Row(v, 0)]
        /\ index = [i \in Ids |-> v]
        /\ snap = [nodes |-> index, at |-> 0, stale |-> {}]
  BY DEF Init
<1>2. /\ call = [c \in Callers |-> Idle] /\ up = "open" /\ clock = 0 /\ drift = {}
      /\ MaxClock \in Nat /\ Margin \in Nat /\ None \notin Vecs /\ Tomb \notin Vecs /\ Tomb # None
  BY StoreAssumption DEF Init
<1>3. \A i \in Ids : /\ table[i] \in [vec : Vecs, at : 0..MaxClock] \cup {None}
                     /\ Node(i) = v
                     /\ table[i] # None => table[i].vec = v
  <2>1. CASE v = None
    BY <1>1, <2>1 DEF Node
  <2>2. CASE v # None
    <3>1. v \in Vecs /\ 0 \in 0..MaxClock
      BY <1>2, <2>2
    <3> QED BY <1>1, <2>2, <3>1, RowIs DEF Node
  <2> QED BY <2>1, <2>2
<1>4. table \in Rows /\ index \in Index
  BY <1>1, <1>3 DEF Rows, Index
<1>5. \A c \in Callers : call[c] = Idle
  BY <1>2
<1>6. Typed
  BY <1>1, <1>2, <1>4, <1>5, IdleIsSound DEF Typed
<1>7. Settled
  BY <1>1, <1>2, <1>3 DEF Settled, Held
<1>8. SnapTold
  BY <1>1, <1>3 DEF SnapTold
<1> QED BY <1>5, <1>6, <1>7, <1>8, InitSave, IdleCalls DEF AgreeInv

\* Any step keeps what each call owes the index.
LEMMA StepAgrees == AgreeInv /\ [Next]_vars => AgreeInv'
<1> SUFFICES ASSUME AgreeInv, [Next]_vars PROVE AgreeInv'
  OBVIOUS
<1>1. SaveInv'
  BY StepSave DEF AgreeInv
<1>2. Batches \subseteq SUBSET Ids /\ Deletes \subseteq SUBSET Ids /\ UNION Batches \subseteq Ids
  BY StoreAssumption
<1>3. ASSUME NEW c \in Callers, CallStep(c) PROVE AgreeInv'
  BY <1>1, <1>3, ListAgrees, WriteRowsAgrees, DeleteRowsAgrees, SyncAgrees, ForgetAgrees,
     HnswUpsertAgrees, CloseAgrees, ShutAgrees DEF CallStep
<1>4. ASSUME NEW c \in Callers, Start(c) PROVE AgreeInv'
  <2>1. CASE \E kind \in Shared \cap Kinds :
               \E S \in IF kind = "upsert" THEN Batches ELSE Deletes : StartShared(c, kind, S)
    <3>1. PICK kind \in Shared \cap Kinds :
                 \E S \in IF kind = "upsert" THEN Batches ELSE Deletes : StartShared(c, kind, S)
      BY <2>1
    <3>2. PICK S \in SUBSET Ids : StartShared(c, kind, S)
      BY <1>2, <3>1
    <3> QED BY <1>1, <3>2, StartAgrees
  <2>2. CASE \E kind \in Exclusive \cap Kinds, S \in Deletes : StartExclusive(c, kind, S)
    BY <1>1, <1>2, <2>2, StartAgrees
  <2>3. CASE \E S \in Batches, D \in Deletes \cup {{}} : "tx" \in Kinds /\ TxCommit(c, S, D)
    BY <1>1, <1>2, <2>3, TxCommitAgrees
  <2>4. CASE "close" \in Kinds /\ StartClose(c)
    <3>1. {} \in SUBSET Ids
      OBVIOUS
    <3> QED BY <1>1, <2>4, <3>1, StartAgrees
  <2> QED BY <1>4, <2>1, <2>2, <2>3, <2>4 DEF Start
<1>5. ASSUME NEW c \in Callers, ListFails(c) \/ DeleteUnlisted(c) \/ TableFails(c) PROVE AgreeInv'
  BY <1>1, <1>5, ListFailsAgrees, DeleteUnlistedAgrees, TableFailsAgrees
<1>6. ASSUME NEW s \in Savers, SaveStep(s) \/ SaveFails(s) PROVE AgreeInv'
  BY <1>1, <1>6, SavesAgree
<1>7. AutoSave \/ Tick \/ UNCHANGED vars => AgreeInv'
  BY <1>1, StillAgrees
<1>8. (Crash => AgreeInv') /\ (Open => AgreeInv')
  BY <1>1, CrashAgrees, OpenAgrees
<1>9. ASSUME NEW i \in UNION Batches, NEW skew \in 0..Margin, Foreign(i, skew) PROVE AgreeInv'
  BY <1>1, <1>2, <1>9, ForeignAgrees
<1> QED BY <1>3, <1>4, <1>5, <1>6, <1>7, <1>8, <1>9 DEF Next

\* The index and the table say the same of every id that no call is at work on
\* and on which neither overlapping calls nor another process met, nor a delete
\* whose listing failed, however many writers, deletes, failed statements, saves,
\* crashes and restarts came before
\* (the write paths of pkg/core and reconcileLoadedIndex).
THEOREM IndexAgreesHolds == Spec => []IndexAgrees
<1>1. ASSUME AgreeInv PROVE IndexAgrees
  <2>1. Typed /\ Settled /\ SaveInv
    BY <1>1 DEF AgreeInv
  <2>2. \A c \in Callers : /\ call[c].lock \in {"none", "read", "write"}
                           /\ call[c].forget \subseteq Ids /\ DOMAIN call[c].ups \subseteq Ids
    BY <2>1, ScopeIs DEF CallRecords
  <2>3. TypeOK
    BY <2>1, <2>2 DEF TypeOK, Typed, Rows, Index, SaveInv, Counts, VersionsBegun
  <2>4. ASSUME up # "down", NEW i \in Ids \ (drift \cup Unsettled) PROVE Held(i) = Node(i)
    <3>1. \A c \in Callers : i \notin Owes(c)
      BY <2>1, <2>4, ScopeIs DEF Unsettled
    <3> QED BY <2>1, <2>4, <3>1 DEF Settled
  <2> QED BY <2>3, <2>4 DEF IndexAgrees
<1> QED BY <1>1, InitAgree, StepAgrees, PTL DEF Spec
=============================================================================
