--------------------------- MODULE ChangeRetention ---------------------------
(***************************************************************************)
(* Retention of the change log: PruneChanges and pruneCutoff of            *)
(* pkg/graph/changefeed.go, statement by statement, against a clock and    *)
(* writers that commit meanwhile.  ChangeFeed treats the cutoff as given;  *)
(* here it is computed.                                                    *)
(*                                                                         *)
(* An event's "at" is the time its trigger inserted it, not the time it    *)
(* became visible: on PostgreSQL a transaction may stay open in between.   *)
(***************************************************************************)
EXTENDS Integers, FiniteSets

CONSTANTS
    Writers,     \* sessions that write logged tables, one event each at a time
    NoOne,       \* nobody holds SQLite's write lock
    Pruner,      \* the janitor as the holder of that lock
    Closed,      \* a writer has no transaction open
    Backends,    \* the databases considered: "sqlite", "postgres" or both
    MaxAge,      \* ChangeFeedRetention.MaxAge, 0 for no limit
    MaxRows,     \* ChangeFeedRetention.MaxRows, 0 for no limit
    MaxTime,     \* bound: the clock
    MaxSeqs      \* bound: events committed

ASSUME ChangeRetentionAssumption ==
    /\ Pruner # NoOne /\ {Pruner, NoOne} \cap Writers = {}
    /\ Backends \subseteq {"sqlite", "postgres"}
    /\ {MaxAge, MaxRows, MaxTime, MaxSeqs} \subseteq Nat
    /\ Closed \notin Nat

VARIABLES
    backend,  \* the database behind this store
    now,      \* the wall clock
    open,     \* per writer: "at" of its uncommitted event, or Closed
    lock,     \* SQLite's write lock
    log,      \* committed rows of change_log
    pruned,   \* change_log_meta.pruned_through
    hist,     \* history: every event ever committed
    pc,       \* where PruneChanges stands
    cutoff    \* the cutoff pruneCutoff has computed so far

vars == <<backend, now, open, lock, log, pruned, hist, pc, cutoff>>

Postgres == backend = "postgres"

MaxSeq(events) ==
    CHOOSE n \in {0} \cup {ev.seq : ev \in events} :
        \A ev \in events : ev.seq <= n

Larger(a, b) == IF a >= b THEN a ELSE b

Init ==
    /\ backend \in Backends
    /\ now = 0
    /\ open = [w \in Writers |-> Closed]
    /\ lock = NoOne
    /\ log = {}
    /\ pruned = 0
    /\ hist = {}
    /\ pc = "idle"
    /\ cutoff = 0

Tick ==
    /\ now < MaxTime
    /\ now' = now + 1
    /\ UNCHANGED <<backend, open, lock, log, pruned, hist, pc, cutoff>>

(* A write to a logged table: the trigger stamps its event. *)
Insert(w) ==
    /\ open[w] = Closed
    /\ ~Postgres => lock = NoOne
    /\ open' = [open EXCEPT ![w] = now]
    /\ lock' = IF Postgres THEN lock ELSE w
    /\ UNCHANGED <<backend, now, log, pruned, hist, pc, cutoff>>

(* The next seq: SQLite numbers from what the table holds, PostgreSQL from  *)
(* a sequence.                                                              *)
NextSeq == MaxSeq(IF Postgres THEN hist ELSE log) + 1

Commit(w) ==
    /\ open[w] # Closed
    /\ Cardinality(hist) < MaxSeqs
    /\ LET ev == [seq |-> NextSeq, at |-> open[w]]
       IN  /\ log' = log \cup {ev}
           /\ hist' = hist \cup {ev}
    /\ open' = [open EXCEPT ![w] = Closed]
    /\ lock' = IF lock = w THEN NoOne ELSE lock
    /\ UNCHANGED <<backend, now, pruned, pc, cutoff>>

Rollback(w) ==
    /\ open[w] # Closed
    /\ open' = [open EXCEPT ![w] = Closed]
    /\ lock' = IF lock = w THEN NoOne ELSE lock
    /\ UNCHANGED <<backend, now, log, pruned, hist, pc, cutoff>>

-----------------------------------------------------------------------------
(* pruneCutoff, one query at a time *)

(* SELECT MAX(seq) FROM change_log WHERE at < ? *)
AgeBound == MaxSeq({ev \in log : ev.at < now - MaxAge})

(* Mutant: the cap is applied one row late. *)
RowBoundOffByOne ==
    MaxSeq({ev \in log : Cardinality({l \in log : l.seq > ev.seq}) >= MaxRows + 1})

(* Mutant: one row too many goes. *)
RowBoundTooFar ==
    MaxSeq({ev \in log : Cardinality({l \in log : l.seq > ev.seq}) >= MaxRows - 1})

(* SELECT seq ... ORDER BY seq DESC LIMIT 1 OFFSET MaxRows *)
RowBound ==
    MaxSeq({ev \in log : Cardinality({l \in log : l.seq > ev.seq}) >= MaxRows})

(* The newest event always stays. *)
KeepNewest(bound) ==
    IF log # {} /\ bound >= MaxSeq(log) THEN MaxSeq(log) - 1 ELSE bound

WithAge(bound) == IF MaxAge > 0 THEN Larger(bound, AgeBound) ELSE bound
WithRows(bound) == IF MaxRows > 0 THEN Larger(bound, RowBound) ELSE bound

(* The look before the transaction: nothing is written when there is        *)
(* nothing to prune.  Its queries are one step; all of it is read again in  *)
(* the transaction, where the log and the clock may have moved on.          *)
WorthPruning == KeepNewest(WithRows(WithAge(pruned))) > pruned
Look ==
    /\ pc = "idle"
    /\ WorthPruning
    /\ pc' = "look"
    /\ UNCHANGED <<backend, now, open, lock, log, pruned, hist, cutoff>>

(* BEGIN and the no-op UPDATE of the prune mark, which on SQLite takes the  *)
(* write lock; then the mark is read.                                       *)
BeginPrune ==
    /\ pc = "look"
    /\ ~Postgres => lock = NoOne
    /\ lock' = IF Postgres THEN lock ELSE Pruner
    /\ cutoff' = pruned
    /\ pc' = "age"
    /\ UNCHANGED <<backend, now, open, log, pruned, hist>>

ReadAge ==
    /\ pc = "age"
    /\ cutoff' = WithAge(cutoff)
    /\ pc' = "rows"
    /\ UNCHANGED <<backend, now, open, lock, log, pruned, hist>>

ReadRows ==
    /\ pc = "rows"
    /\ cutoff' = WithRows(cutoff)
    /\ pc' = "newest"
    /\ UNCHANGED <<backend, now, open, lock, log, pruned, hist>>

ReadNewest ==
    /\ pc = "newest"
    /\ cutoff' = KeepNewest(cutoff)
    /\ pc' = "delete"
    /\ UNCHANGED <<backend, now, open, lock, log, pruned, hist>>

(* Mutant: the mark stays behind what was deleted. *)
MarkNotMoved == pruned

NewMark == cutoff

(* DELETE and the new mark, committed together; nothing when the second     *)
(* look finds nothing left to prune.                                        *)
DeletePruned ==
    /\ pc = "delete"
    /\ IF cutoff <= pruned
       THEN UNCHANGED <<log, pruned>>
       ELSE /\ log' = {ev \in log : ev.seq > cutoff}
            /\ pruned' = NewMark
    /\ cutoff' = 0
    /\ lock' = IF lock = Pruner THEN NoOne ELSE lock
    /\ pc' = "idle"
    /\ UNCHANGED <<backend, now, open, hist>>

(* An error or a crash before the commit: the rollback leaves no trace. *)
AbandonPrune ==
    /\ pc # "idle"
    /\ cutoff' = 0
    /\ lock' = IF lock = Pruner THEN NoOne ELSE lock
    /\ pc' = "idle"
    /\ UNCHANGED <<backend, now, open, log, pruned, hist>>

Next ==
    \/ Tick
    \/ \E w \in Writers : Insert(w) \/ Commit(w) \/ Rollback(w)
    \/ Look
    \/ BeginPrune
    \/ ReadAge
    \/ ReadRows
    \/ ReadNewest
    \/ DeletePruned
    \/ AbandonPrune

Spec == Init /\ [][Next]_vars

-----------------------------------------------------------------------------
(* Properties *)

(* What is gone is exactly what the prune mark says is gone, so that a      *)
(* reader whose cursor is not behind the mark has missed nothing.  And      *)
(* changefeed.go:1233: the newest event always stays, on which rests on     *)
(* SQLite that no seq is ever given to two events.                          *)
MarkExact ==
    /\ log = {ev \in hist : ev.seq > pruned}
    /\ \A ev \in hist : ev.seq = MaxSeq(hist) => ev \in log
    /\ \A a, b \in hist : a.seq = b.seq => a = b

(* Too old, or beyond the newest MaxRows. *)
Expired(ev) ==
    \/ MaxAge > 0 /\ ev.at < now - MaxAge
    \/ MaxRows > 0 /\ Cardinality({l \in log : l.seq > ev.seq}) >= MaxRows

(* changefeed.go:1154: PruneChanges removes events older than MaxAge and    *)
(* any beyond the newest MaxRows.  On SQLite it removes no other; on        *)
(* PostgreSQL, where seq and time need not agree, an event that is not      *)
(* expired goes only because one that is lies after it in the log.          *)
PrunesUpToExpired ==
    [][\A ev \in log \ log' :
          \/ Expired(ev)
          \/ Postgres /\ \E later \in log : ev.seq < later.seq /\ Expired(later)]_vars

(* A prune that removed anything leaves at most MaxRows events, and one at  *)
(* least: the row cap is what bounds the log's size.  On SQLite, where the  *)
(* prune holds the write lock from its first statement to its commit.       *)
RowCapKept ==
    [][pruned' # pruned /\ MaxRows > 0 /\ ~Postgres
          => Cardinality(log') \in 1..Larger(MaxRows, 1)]_vars
=============================================================================
