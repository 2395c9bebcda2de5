------------------------------- MODULE StoreLock -------------------------------
(***************************************************************************)
(* Who waits for whom in the SQLite vector store (pkg/core): s.mu and the  *)
(* calls that take it, the write turn they take inside and outside it, the *)
(* write-ahead-log checkpointer, and Close, which waits for the            *)
(* checkpointer.  The auto-save loop, which only looks at closed under the *)
(* lock and is waited for by nobody, is in VectorStore; the channel behind *)
(* the turn, and who gets it next, in WriteTurn.                           *)
(*                                                                         *)
(* s.mu is a Go RWMutex.  A writer queues for the right to be the next one,*)
(* announces itself, and waits for the readers of that moment; readers that*)
(* come later wait until it is through, and then all go in before the next *)
(* writer.  A reader that asks again while it holds the lock is one that   *)
(* comes later.                                                            *)
(*                                                                         *)
(* A call is the sequence of what it does to the lock, the turn and        *)
(* closed; what it does to rows and indexes is in VectorStore.             *)
(***************************************************************************)
EXTENDS Integers, Sequences

CONSTANTS
    Kinds,       \* the calls that are made
    MaxCalls,    \* bound: how many
    MaxTicks     \* bound: turns of the checkpointer

ASSUME StoreLockAssumption ==
    /\ {MaxCalls, MaxTicks} \subseteq Nat
    /\ Kinds \subseteq {"upsert", "hybridSearch", "deleteBatch", "ingest", "close"}

VARIABLES
    todo,     \* per goroutine: what is left of its call
    reads,    \* per goroutine: how often it holds the lock for reading
    waits,    \* per goroutine: "none", or what it waits for
    writer,   \* "none", "announced" or "in", and whose
    turn,     \* who has the write turn, or Nobody
    closed,   \* s.closed, and the handle with it
    stop,     \* checkpointStop is closed
    made,     \* calls made; each is a goroutine of its own, numbered as they begin
    ticks     \* turns the checkpointer has taken

vars == <<todo, reads, waits, writer, turn, closed, stop, made, ticks>>
mutex == <<reads, waits, writer>>

Checkpointer == 0
Callers == 1..MaxCalls
Goroutines == Callers \cup {Checkpointer}
Nobody == -1

-----------------------------------------------------------------------------
(* The calls.  "closed?" returns when the store is closed; "turn" waits for    *)
(* the write turn, "give" gives it back; "look" takes the read lock for a      *)
(* moment.  Reading the database takes no turn and is left out.                *)

\* One statement that writes: a turn of its own.
Writes == <<"turn", "give">>
\* DeleteBatch, DeleteByFilter, DeleteCollection, DeleteDocument: the whole call
\* under the write lock.  Delete and its like do the same under the read lock.
Exclusive == <<"Lock", "closed?">> \o Writes \o <<"Unlock">>
\* GetCollection in Upsert and UpsertBatch; Search in HybridSearch,
\* SearchWithReranker, SearchWithDiversity and SearchMultiVector; Stats in Dump.
InnerRead == <<"RLock", "closed?", "RUnlock">>
\* Upsert looks at the dimension, then at closed without the lock; the first one
\* of a store sets the dimension; the rest is under the read lock.
Upsert == <<"look", "closed?", "Lock", "Unlock", "RLock">> \o InnerRead \o Writes \o <<"RUnlock">>
HybridSearch == <<"RLock", "closed?", "look", "closed?">> \o InnerRead \o <<"RUnlock">>
\* persistKnowledgeRecords: the transaction has the turn from its BEGIN to its
\* end; UpsertBatchTx looks at closed inside it, the two Sync calls come after.
Ingest == <<"turn", "look", "closed?", "give", "Lock", "Unlock", "Lock", "Unlock">>
\* Mutant: the write lock is held while the checkpointer is waited for.
CloseHolding == <<"Lock", "stop", "join", "closed?">> \o Writes \o Writes \o <<"shut", "Unlock">>
\* Close of a store whose index has changed since its snapshot: it writes the
\* snapshot, then folds the log.
Close ==
    <<"Lock", "Unlock", "stop", "join", "Lock", "closed?">> \o Writes \o Writes \o <<"shut", "Unlock">>

Program(kind) ==
    CASE kind = "upsert" -> Upsert
      [] kind = "hybridSearch" -> HybridSearch
      [] kind = "deleteBatch" -> Exclusive
      [] kind = "ingest" -> Ingest
      [] kind = "close" -> Close

\* checkpointWAL: the pragma takes a turn, with no lock held.
CheckpointTurn == <<"look", "closed?", "turn", "give">>

-----------------------------------------------------------------------------
(* The mutex *)

Idle(g) == todo[g] = << >>
Does(g, what) == waits[g] = "none" /\ todo[g] # << >> /\ Head(todo[g]) = what
Goes(g) == todo' = [todo EXCEPT ![g] = Tail(@)]

RLock(g) ==
    /\ Does(g, "RLock") /\ Goes(g)
    /\ IF writer.is = "none"
       THEN reads' = [reads EXCEPT ![g] = @ + 1] /\ UNCHANGED waits
       ELSE waits' = [waits EXCEPT ![g] = "reading"] /\ UNCHANGED reads
    /\ UNCHANGED <<writer, turn, closed, stop, made, ticks>>
RUnlock(g) ==
    /\ Does(g, "RUnlock") /\ Goes(g)
    /\ reads' = [reads EXCEPT ![g] = @ - 1]
    /\ UNCHANGED <<waits, writer, turn, closed, stop, made, ticks>>
Look(g) ==
    /\ Does(g, "look") /\ Goes(g)
    /\ writer.is = "none"
    /\ UNCHANGED <<mutex, turn, closed, stop, made, ticks>>

Lock(g) ==
    /\ Does(g, "Lock") /\ Goes(g)
    /\ waits' = [waits EXCEPT ![g] = "writing"]
    /\ UNCHANGED <<reads, writer, turn, closed, stop, made, ticks>>
Announce(g) ==
    /\ waits[g] = "writing" /\ writer.is = "none"
    /\ writer' = [is |-> "announced", who |-> g]
    /\ UNCHANGED <<todo, reads, waits, turn, closed, stop, made, ticks>>
Enter(g) ==
    /\ writer = [is |-> "announced", who |-> g]
    /\ \A h \in Goroutines : reads[h] = 0
    /\ writer' = [writer EXCEPT !.is = "in"]
    /\ waits' = [waits EXCEPT ![g] = "none"]
    /\ UNCHANGED <<todo, reads, turn, closed, stop, made, ticks>>
\* Every reader that waits goes in.
Released ==
    /\ writer' = [is |-> "none", who |-> Nobody]
    /\ reads' = [h \in Goroutines |-> IF waits[h] = "reading" THEN reads[h] + 1 ELSE reads[h]]
    /\ waits' = [h \in Goroutines |-> IF waits[h] = "reading" THEN "none" ELSE waits[h]]
Unlock(g) ==
    /\ Does(g, "Unlock") /\ Goes(g) /\ Released
    /\ UNCHANGED <<turn, closed, stop, made, ticks>>

-----------------------------------------------------------------------------
(* The rest of a call *)

\* Mutant: only the write lock is given back on an early return.
DeferredLockOnly(g) == IF writer.is = "in" /\ writer.who = g THEN <<"Unlock">> ELSE << >>
\* What a return at this point leaves to do: the rollback, and the deferred
\* unlocks.
Deferred(g) ==
    (IF turn = g THEN <<"give">> ELSE << >>) \o
    (IF writer.is = "in" /\ writer.who = g THEN <<"Unlock">>
     ELSE [i \in 1..reads[g] |-> "RUnlock"])
Returns(g) == todo' = [todo EXCEPT ![g] = Deferred(g)]

LooksClosed(g) ==
    /\ Does(g, "closed?")
    /\ IF closed THEN Returns(g) ELSE Goes(g)
    /\ UNCHANGED <<mutex, turn, closed, stop, made, ticks>>

\* The statement that begins to write; on a closed handle it fails.
TakeTurn(g) ==
    /\ Does(g, "turn")
    /\ \/ ~closed /\ turn = Nobody /\ turn' = g /\ Goes(g)
       \/ closed /\ Returns(g) /\ UNCHANGED turn
    /\ UNCHANGED <<mutex, closed, stop, made, ticks>>
GiveTurn(g) ==
    /\ Does(g, "give") /\ Goes(g)
    /\ turn' = Nobody
    /\ UNCHANGED <<mutex, closed, stop, made, ticks>>

\* writeTurnWait passes only for one who has the turn and is himself kept waiting
\* for s.mu.  The statement fails and the call returns; Close goes on.
WantsLock(g) ==
    waits[g] # "none" \/ (Does(g, "look") /\ writer.is # "none")
LongWait(g) ==
    Does(g, "turn") /\ turn # Nobody /\ WantsLock(turn)
TurnTimesOut(g) ==
    /\ LongWait(g)
    /\ IF \E i \in DOMAIN todo[g] : todo[g][i] = "shut"
       THEN todo' = [todo EXCEPT ![g] = SubSeq(@, Len(Writes) + 1, Len(@))]
       ELSE Returns(g)
    /\ UNCHANGED <<mutex, turn, closed, stop, made, ticks>>

Shut(g) ==
    /\ Does(g, "shut") /\ Goes(g)
    /\ closed' = TRUE
    /\ UNCHANGED <<mutex, turn, stop, made, ticks>>

\* stopWALCheckpointer: close(stop), then <-done.  The goroutine is done when it
\* is between two turns and sees stop; it starts no turn after that.
Stop(g) ==
    /\ Does(g, "stop") /\ Goes(g)
    /\ stop' = TRUE
    /\ UNCHANGED <<mutex, turn, closed, made, ticks>>
\* Mutant: Close does not wait for the checkpointer.
JoinAtOnce(g) ==
    /\ Does(g, "join") /\ Goes(g)
    /\ UNCHANGED <<mutex, turn, closed, stop, made, ticks>>
Join(g) ==
    /\ Does(g, "join") /\ Goes(g)
    /\ Idle(Checkpointer)
    /\ UNCHANGED <<mutex, turn, closed, stop, made, ticks>>

Call(kind) ==
    /\ made < MaxCalls
    /\ todo' = [todo EXCEPT ![made + 1] = Program(kind)]
    /\ made' = made + 1
    /\ UNCHANGED <<mutex, turn, closed, stop, ticks>>
CheckpointTick ==
    /\ Idle(Checkpointer) /\ ~stop /\ ticks < MaxTicks
    /\ todo' = [todo EXCEPT ![Checkpointer] = CheckpointTurn]
    /\ ticks' = ticks + 1
    /\ UNCHANGED <<mutex, turn, closed, stop, made>>
-----------------------------------------------------------------------------
Init ==
    /\ todo = [g \in Goroutines |-> << >>]
    /\ reads = [g \in Goroutines |-> 0]
    /\ waits = [g \in Goroutines |-> "none"]
    /\ writer = [is |-> "none", who |-> Nobody]
    /\ turn = Nobody /\ closed = FALSE /\ stop = FALSE
    /\ made = 0 /\ ticks = 0

Step(g) ==
    \/ Look(g) \/ RLock(g) \/ RUnlock(g) \/ Lock(g) \/ Enter(g) \/ Unlock(g)
    \/ LooksClosed(g) \/ TakeTurn(g) \/ GiveTurn(g) \/ TurnTimesOut(g)
    \/ Shut(g) \/ Stop(g) \/ Join(g)

Next ==
    \/ \E g \in Goroutines : Step(g) \/ Announce(g)
    \/ \E kind \in Kinds : Call(kind)
    \/ CheckpointTick

Spec == Init /\ [][Next]_vars
\* As long as some goroutine can go on, one does; calls and ticks are bounded, so
\* this is the fairness of Go's scheduler, mutex and channel, and no more.
FairSpec ==
    /\ Spec
    /\ WF_vars(\E g \in Goroutines : Step(g) \/ Announce(g))

-----------------------------------------------------------------------------
(* Properties *)

TypeOK ==
    /\ reads \in [Goroutines -> 0..2]
    /\ waits \in [Goroutines -> {"none", "reading", "writing"}]
    /\ writer.is \in {"none", "announced", "in"} /\ turn \in Goroutines \cup {Nobody}
    /\ closed \in BOOLEAN /\ stop \in BOOLEAN /\ made \in 0..MaxCalls /\ ticks \in 0..MaxTicks

\* store_close.go:8: once Close has let go of the handle the checkpointer has
\* ended, is in no turn, and starts none.
ClosedIsQuiet == closed => Idle(Checkpointer) /\ stop

\* Whichever way a call ended - a check, a failed statement, a wait that was given
\* up - it has let go of the lock, for reading and for writing, and of the turn.
NothingLeftLocked ==
    /\ TypeOK
    /\ \A g \in Goroutines : Idle(g) /\ waits[g] = "none" =>
          reads[g] = 0 /\ writer.who # g /\ turn # g

\* Every call returns, unless a writer waits that a reader's second request has
\* to wait for: what Close, the checkpointer, writers and readers wait for
\* otherwise comes, if only when a wait for the turn is given up.
NestedBehindWriter ==
    \E g \in Goroutines :
        /\ reads[g] > 0 /\ writer.is = "announced"
        /\ waits[g] = "reading" \/ Does(g, "look") \/ Does(g, "RLock")
AllIdle == \A g \in Callers : Idle(g)
OnlyNestingBlocks == <>[](AllIdle \/ NestedBehindWriter)
=============================================================================
