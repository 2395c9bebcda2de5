----------------------------- MODULE ChangeFeed -----------------------------
(***************************************************************************)
(* The change feed of pkg/graph/changefeed.go: row triggers write one      *)
(* event per changed row into change_log inside the writer's transaction,  *)
(* consumers read the log by cursor, retention removes its oldest part.    *)
(*                                                                         *)
(* A log row carries what the triggers record and consumers rely on: the   *)
(* row that changed and its state afterwards.  rid is PostgreSQL's         *)
(* BIGSERIAL key, the order in which a transaction's deferred triggers     *)
(* fire; seq is the cursor, 0 while it has not been drawn (SQL NULL).      *)
(***************************************************************************)
EXTENDS Integers, Sequences, FiniteSets

CONSTANTS
    Writers,      \* sessions that write logged tables
    Consumers,    \* users of SubscribeChanges
    Entities,     \* rows of the logged tables, mirror rows excluded
    Values,       \* visible states of a row
    Absent,       \* the row does not exist
    Unwritten,    \* a transaction has not written the row
    NoOne,        \* nobody holds the lock
    Postgres,     \* TRUE: PostgreSQL backend; FALSE: SQLite
    BatchSize,    \* SubscribeOptions.BatchSize
    MaxWrites     \* bound: events ever written, committed or not

ASSUME ChangeFeedAssumption ==
    /\ Absent \notin Values
    /\ Unwritten \notin Values \cup {Absent}
    /\ NoOne \notin Writers
    /\ Postgres \in BOOLEAN
    /\ BatchSize \in Nat \ {0}
    /\ MaxWrites \in Nat

VARIABLES
    rows,     \* committed rows of the logged tables
    mine,     \* per writer: its transaction's uncommitted writes
    pend,     \* per writer: its transaction's rows of change_log
    phase,    \* per writer: "open" until COMMIT starts running triggers
    lock,     \* SQLite: the database write lock; PostgreSQL: the advisory lock
    rid,      \* change_log_rid_seq, and the count MaxWrites bounds
    seqgen,   \* change_log_seq (PostgreSQL)
    log,      \* committed rows of change_log
    pruned,   \* change_log_meta.pruned_through
    hist,     \* history: every event ever committed
    pc,       \* per consumer: where SubscribeChanges stands
    cursor,   \* per consumer: the subscription's cursor
    saved,    \* per consumer: the last seq it persisted
    batch,    \* per consumer: the page handed to the handler
    head,     \* per consumer: what ChangesHead has computed so far
    replica,  \* per consumer: the state it keeps from events
    from,     \* history, per consumer: the cursor its subscription began at
    got       \* history, per consumer: seqs handled by this subscription

writerVars == <<rows, mine, pend, phase, lock, rid, seqgen, hist>>
consumerVars == <<pc, cursor, saved, batch, head, replica, from, got>>
vars == <<writerVars, log, pruned, consumerVars>>

Row == [rid : Nat, seq : Nat, id : Entities, after : Values \cup {Absent}]

Nothing == [e \in Entities |-> Unwritten]

(* SELECT COALESCE(MAX(seq), 0): NULL seqs are 0 here. *)
MaxSeq(events) ==
    CHOOSE n \in {0} \cup {ev.seq : ev \in events} :
        \A ev \in events : ev.seq <= n

Init ==
    /\ rows = [e \in Entities |-> Absent]
    /\ mine = [w \in Writers |-> Nothing]
    /\ pend = [w \in Writers |-> {}]
    /\ phase = [w \in Writers |-> "open"]
    /\ lock = NoOne
    /\ rid = 0
    /\ seqgen = 0
    /\ log = {}
    /\ pruned = 0
    /\ hist = {}
    /\ pc = [c \in Consumers |-> "off"]
    /\ cursor = [c \in Consumers |-> 0]
    /\ saved = [c \in Consumers |-> 0]
    /\ batch = [c \in Consumers |-> {}]
    /\ head = [c \in Consumers |-> 0]
    /\ replica = [c \in Consumers |-> rows]
    /\ from = [c \in Consumers |-> 0]
    /\ got = [c \in Consumers |-> {}]

-----------------------------------------------------------------------------
(* Writers *)

(* The row as the writer's own transaction sees it. *)
Seen(w, e) == IF mine[w][e] = Unwritten THEN rows[e] ELSE mine[w][e]

(* The seq a trigger's INSERT gives its row: SQLite's rowid, one more than  *)
(* the largest in the table; on PostgreSQL none until COMMIT.               *)
InsertSeq(w) == IF Postgres THEN 0 ELSE MaxSeq(log \cup pend[w]) + 1

(* Who may write: SQLite's one writer; on PostgreSQL whoever gets the row's *)
(* lock.                                                                    *)
MayWrite(w, e) ==
    /\ ~Postgres => lock \in {NoOne, w}
    /\ \A u \in Writers \ {w} : mine[u][e] = Unwritten

(* Mutant: no trigger runs after a DELETE. *)
ChangedNotDeleted(w, e, v) == v \notin {Seen(w, e), Absent}

(* The triggers' WHEN: a statement that leaves the row as it was is no event. *)
Changed(w, e, v) == v # Seen(w, e)

(* An INSERT, UPDATE or DELETE of one logged row.  A statement that leaves  *)
(* the row as it was takes the same locks and logs nothing.                 *)
Write(w, e, v) ==
    /\ phase[w] = "open"
    /\ MayWrite(w, e)
    /\ mine' = [mine EXCEPT ![w][e] = v]
    /\ lock' = IF Postgres THEN lock ELSE w
    /\ IF Changed(w, e, v)
       THEN /\ rid < MaxWrites
            /\ rid' = rid + 1
            /\ pend' = [pend EXCEPT ![w] = @ \cup
                   {[rid |-> rid + 1, seq |-> InsertSeq(w), id |-> e, after |-> v]}]
       ELSE UNCHANGED <<pend, rid>>
    /\ UNCHANGED <<rows, phase, seqgen, log, pruned, hist, consumerVars>>

(* Mutant: the seq is drawn without waiting for the advisory lock. *)
DrawUnlocked(w) == TRUE

(* pg_advisory_xact_lock: the lock is free or this transaction has it. *)
DrawAllowed(w) == lock \in {NoOne, w}

(* change_log_assign_seq: the deferred trigger of one row, run at COMMIT.   *)
(* It takes the advisory lock, which the transaction keeps, then draws.     *)
AssignSeq(w) ==
    /\ Postgres
    /\ DrawAllowed(w)
    /\ \E ev \in pend[w] :
        /\ ev.seq = 0
        /\ \A other \in pend[w] : other.seq = 0 => ev.rid <= other.rid
        /\ seqgen' = seqgen + 1
        /\ pend' = [pend EXCEPT ![w] = (@ \ {ev}) \cup {[ev EXCEPT !.seq = seqgen + 1]}]
    /\ lock' = w
    /\ phase' = [phase EXCEPT ![w] = "committing"]
    /\ UNCHANGED <<rows, mine, rid, log, pruned, hist, consumerVars>>

(* The end of a transaction: its locks go with it. *)
Finish(w) ==
    /\ mine' = [mine EXCEPT ![w] = Nothing]
    /\ pend' = [pend EXCEPT ![w] = {}]
    /\ phase' = [phase EXCEPT ![w] = "open"]
    /\ lock' = IF lock = w THEN NoOne ELSE lock

(* The commit becomes visible. *)
Commit(w) ==
    /\ mine[w] # Nothing
    /\ \A ev \in pend[w] : ev.seq # 0
    /\ rows' = [e \in Entities |-> Seen(w, e)]
    /\ log' = log \cup pend[w]
    /\ hist' = hist \cup pend[w]
    /\ Finish(w)
    /\ UNCHANGED <<rid, seqgen, pruned, consumerVars>>

(* ROLLBACK, a failed COMMIT or a crash of the session.  A sequence does    *)
(* not take back what it handed out.                                        *)
Abort(w) ==
    /\ mine[w] # Nothing
    /\ Finish(w)
    /\ UNCHANGED <<rows, rid, seqgen, log, pruned, hist, consumerVars>>

-----------------------------------------------------------------------------
(* Retention *)

(* Mutant: retention may empty the log. *)
CutoffsReachNewest == (pruned + 1)..MaxSeq(log)

(* Mutant: the new mark may lie behind the old one. *)
CutoffsUnbounded == (pruned - 1)..(MaxSeq(log) - 1)

(* PruneChanges, for whatever cutoff the policy asks for: pruneCutoff never *)
(* goes back behind the mark and never reaches the newest event.            *)
Cutoffs == (pruned + 1)..(MaxSeq(log) - 1)

PruneChanges ==
    /\ ~Postgres => lock = NoOne
    /\ \E cutoff \in Cutoffs :
        /\ log' = {ev \in log : ev.seq > cutoff}
        /\ pruned' = cutoff
    /\ UNCHANGED <<writerVars, consumerVars>>

-----------------------------------------------------------------------------
(* Consumers *)

(* Mutant: the event right after the cursor is left out. *)
PageOffByOne(after) ==
    {ev \in log : ev.seq > after + 1
                    /\ Cardinality({other \in log : after < other.seq /\ other.seq < ev.seq}) < BatchSize}

(* One forward page of ReadChanges: the oldest BatchSize events after the   *)
(* cursor.                                                                  *)
Page(after) ==
    LET later == {ev \in log : ev.seq > after}
    IN  {ev \in later :
            Cardinality({other \in later : other.seq < ev.seq}) < BatchSize}

(* Mutant: the oldest event of a row wins. *)
ReplayOldest(state, events) ==
    [e \in Entities |->
        LET own == {ev \in events : ev.id = e}
        IN  IF own = {} THEN state[e]
            ELSE (CHOOSE ev \in own : \A other \in own : ev.seq <= other.seq).after]

(* Replaying events over a state: a row takes the state its last event      *)
(* names.                                                                   *)
Replay(state, events) ==
    [e \in Entities |->
        LET own == {ev \in events : ev.id = e}
        IN  IF own = {} THEN state[e]
            ELSE (CHOOSE ev \in own : \A other \in own : other.seq <= ev.seq).after]

(* SubscribeChanges called with the cursor the consumer saved. *)
Subscribe(c) ==
    /\ pc[c] = "off"
    /\ pc' = [pc EXCEPT ![c] = "read"]
    /\ cursor' = [cursor EXCEPT ![c] = saved[c]]
    /\ from' = [from EXCEPT ![c] = saved[c]]
    /\ got' = [got EXCEPT ![c] = {}]
    /\ UNCHANGED <<writerVars, log, pruned, saved, batch, head, replica>>

(* Mutant: the prune mark is not compared with the cursor. *)
ReadIgnoresPruned(c) == FALSE

(* Changes: the page and the prune mark come from one snapshot. *)
ReadOverPruned(c) == cursor[c] < pruned

Read(c) ==
    /\ pc[c] = "read"
    /\ IF ReadOverPruned(c)
       THEN /\ pc' = [pc EXCEPT ![c] = "pruned"]
            /\ UNCHANGED batch
       ELSE /\ batch' = [batch EXCEPT ![c] = Page(cursor[c])]
            /\ pc' = [pc EXCEPT ![c] =
                   IF Page(cursor[c]) = {} THEN "wait" ELSE "handle"]
    /\ UNCHANGED <<writerVars, log, pruned, cursor, saved, head, replica, from, got>>

(* handle(events): the consumer brings its state up to the batch. *)
Handle(c) ==
    /\ pc[c] = "handle"
    /\ replica' = [replica EXCEPT ![c] = Replay(@, batch[c])]
    /\ got' = [got EXCEPT ![c] = @ \cup {ev.seq : ev \in batch[c]}]
    /\ pc' = [pc EXCEPT ![c] = "handled"]
    /\ UNCHANGED <<writerVars, log, pruned, cursor, saved, batch, head, from>>

(* Mutant: the cursor moves to the first event of the batch. *)
BatchStart(c) ==
    CHOOSE n \in {ev.seq : ev \in batch[c]} : \A ev \in batch[c] : n <= ev.seq

(* cursor = events[len(events)-1].Seq *)
BatchEnd(c) == MaxSeq(batch[c])

(* handle returned nil: the consumer has persisted the last seq, and the    *)
(* cursor moves; a full batch reads on without waiting.                     *)
Advance(c) ==
    /\ pc[c] = "handled"
    /\ saved' = [saved EXCEPT ![c] = BatchEnd(c)]
    /\ cursor' = [cursor EXCEPT ![c] = BatchEnd(c)]
    /\ batch' = [batch EXCEPT ![c] = {}]
    /\ pc' = [pc EXCEPT ![c] =
           IF Cardinality(batch[c]) = BatchSize THEN "read" ELSE "wait"]
    /\ UNCHANGED <<writerVars, log, pruned, head, replica, from, got>>

(* The poll timer fires, or NotifyChanges cuts the wait short. *)
Wake(c) ==
    /\ pc[c] = "wait"
    /\ pc' = [pc EXCEPT ![c] = "read"]
    /\ UNCHANGED <<writerVars, log, pruned, cursor, saved, batch, head, replica, from, got>>

(* The subscription ends: handle failed, ctx was cancelled, or the process  *)
(* died.  What the consumer saved and what it applied survive.              *)
Stop(c) ==
    /\ pc[c] # "off"
    /\ pc' = [pc EXCEPT ![c] = "off"]
    /\ batch' = [batch EXCEPT ![c] = {}]
    /\ head' = [head EXCEPT ![c] = 0]
    /\ UNCHANGED <<writerVars, log, pruned, cursor, saved, replica, from, got>>

(* Mutant: the head is the last number the sequence handed out, committed   *)
(* or not.                                                                  *)
LastDrawn == seqgen

(* SELECT COALESCE(MAX(seq), 0) FROM change_log. *)
TableHead == MaxSeq(log)

(* After ErrChangesPruned a consumer rebuilds from current state and        *)
(* resumes at the head it read before that state: ChangesHead reads         *)
(* MAX(seq) and the prune mark in two statements ...                        *)
ReadMaxSeq(c) ==
    /\ pc[c] = "pruned"
    /\ head' = [head EXCEPT ![c] = TableHead]
    /\ pc' = [pc EXCEPT ![c] = "head"]
    /\ UNCHANGED <<writerVars, log, pruned, cursor, saved, batch, replica, from, got>>

ReadPruneMark(c) ==
    /\ pc[c] = "head"
    /\ head' = [head EXCEPT ![c] = IF pruned > @ THEN pruned ELSE @]
    /\ pc' = [pc EXCEPT ![c] = "rebuild"]
    /\ UNCHANGED <<writerVars, log, pruned, cursor, saved, batch, replica, from, got>>

(* ... and the state is read after both. *)
Rebuild(c) ==
    /\ pc[c] = "rebuild"
    /\ replica' = [replica EXCEPT ![c] = rows]
    /\ saved' = [saved EXCEPT ![c] = head[c]]
    /\ cursor' = [cursor EXCEPT ![c] = head[c]]
    /\ from' = [from EXCEPT ![c] = head[c]]
    /\ got' = [got EXCEPT ![c] = {}]
    /\ head' = [head EXCEPT ![c] = 0]
    /\ pc' = [pc EXCEPT ![c] = "read"]
    /\ UNCHANGED <<writerVars, log, pruned, batch>>

-----------------------------------------------------------------------------

WriterStep(w) ==
    \/ \E e \in Entities, v \in Values \cup {Absent} : Write(w, e, v)
    \/ AssignSeq(w)
    \/ Commit(w)
    \/ Abort(w)

SubscriptionStep(c) ==
    \/ Read(c)
    \/ Handle(c)
    \/ Advance(c)
    \/ Wake(c)

ConsumerStep(c) ==
    \/ Subscribe(c)
    \/ SubscriptionStep(c)
    \/ Stop(c)
    \/ ReadMaxSeq(c)
    \/ ReadPruneMark(c)
    \/ Rebuild(c)

Next ==
    \/ \E w \in Writers : WriterStep(w)
    \/ PruneChanges
    \/ \E c \in Consumers : ConsumerStep(c)

Spec == Init /\ [][Next]_vars

(* The loop of a running subscription never stops by itself: its timer      *)
(* always fires.                                                            *)
FairSpec == Spec /\ \A c \in Consumers : WF_vars(SubscriptionStep(c))

-----------------------------------------------------------------------------
(* Properties *)

TypeOK ==
    /\ rows \in [Entities -> Values \cup {Absent}]
    /\ mine \in [Writers -> [Entities -> Values \cup {Absent, Unwritten}]]
    /\ pend \in [Writers -> SUBSET Row]
    /\ phase \in [Writers -> {"open", "committing"}]
    /\ lock \in Writers \cup {NoOne}
    /\ rid \in Nat
    /\ seqgen \in Nat
    /\ log \in SUBSET Row
    /\ pruned \in Nat
    /\ hist \in SUBSET Row
    /\ pc \in [Consumers -> {"off", "read", "handle", "handled", "wait",
                              "pruned", "head", "rebuild"}]
    /\ cursor \in [Consumers -> Nat]
    /\ saved \in [Consumers -> Nat]
    /\ batch \in [Consumers -> SUBSET Row]
    /\ head \in [Consumers -> Nat]
    /\ replica \in [Consumers -> [Entities -> Values \cup {Absent}]]
    /\ from \in [Consumers -> Nat]
    /\ got \in [Consumers -> SUBSET Nat]

(* changefeed.go:21-24: the visible prefix only ever grows at the end.      *)
(* Whatever becomes visible lies after everything that was ever visible,    *)
(* what retention has removed since included: this is what lets a consumer  *)
(* keep nothing but a number.                                               *)
GrowsAtEnd ==
    \A ev \in hist' \ hist :
        /\ pruned < ev.seq
        /\ \A old \in hist : old.seq < ev.seq

PrefixGrows == [][GrowsAtEnd]_vars

(* How far the events handed to a running subscription's handler reach. *)
Reached(c) == IF pc[c] = "handled" THEN MaxSeq(batch[c]) ELSE cursor[c]

(* A running subscription has handled every event committed between the     *)
(* cursor it began at and the point it has reached: none came late, none    *)
(* was pruned from under it, none was skipped.                              *)
NoGap ==
    \A c \in Consumers :
        pc[c] # "off" =>
            got[c] = {ev.seq : ev \in {h \in hist :
                                         from[c] < h.seq /\ h.seq <= Reached(c)}}

(* changefeed.go:1104: exactly once within one subscription.  A batch about *)
(* to be handled lies after everything handled before it.                   *)
NoRepeat ==
    \A c \in Consumers :
        pc[c] = "handle" => \A ev \in batch[c], n \in got[c] : n < ev.seq

(* For every row, the newest event about it names the state it is in: the   *)
(* log explains the tables, also when several writers contend for a row.    *)
LogExplainsRows ==
    rows = Replay([e \in Entities |-> Absent], hist)

(* inference_maintain.go:515: a row of a consumer's state is right once the *)
(* last event about it lies behind the saved cursor, through crashes        *)
(* between handling and saving, replays, pruning and rebuilds.              *)
ReplicaRight ==
    \A c \in Consumers, e \in Entities :
        (\A ev \in hist : ev.id = e => ev.seq <= saved[c])
            => replica[c][e] = rows[e]

(* Every committed event is reached by a subscription that keeps running,   *)
(* unless it is told that retention overtook it.                            *)
Delivered ==
    \A c \in Consumers, n \in 1..MaxWrites :
        (\E ev \in hist : ev.seq = n)
            ~> (cursor[c] >= n \/ pc[c] \in {"off", "pruned", "head", "rebuild"})

=============================================================================
