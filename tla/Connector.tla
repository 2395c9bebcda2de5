------------------------------- MODULE Connector -------------------------------
(***************************************************************************)
(* The connector (pkg/connector): a watcher that keeps a knowledge base in *)
(* step with the rows of a table of another database.  It learns of changes*)
(* from PostgreSQL's logical replication, from MySQL's binlog, or by       *)
(* polling a column that grows, applies each to the row's chunk and to its *)
(* triples, and keeps the place it has come to.                            *)
(*                                                                         *)
(* The source's writers are transactions with row locks; one that rolls    *)
(* back leaves nothing to be seen and is left out.  What the servers       *)
(* send is modelled from how cdc_pg.go and cdc_mysql.go use it.  A row's   *)
(* content is a value; masking, which maps equal values to equal ones, the *)
(* mapping to chunk and triples, and further tables are left out; a        *)
(* PostgreSQL row is taken whole, as with no column stored out of line.    *)
(* Run is called again, in the same process or a new one, or not.          *)
(***************************************************************************)
EXTENDS Integers, FiniteSets, SequencesExt

CONSTANTS
    Keys, Values,
    Writers,    \* sessions that write the source's table
    None,       \* no value: a row deleted, a chunk that is not there
    Settings    \* what a behaviour keeps to, one of: the kind of the source, which
                \* writers, which sets of rows a statement writes, how many records
                \* past its own a row's text may reach, BatchSize of polling, and
                \* bounds of the rows written and of failures and crashes of the watcher

ASSUME ConnectorAssumption ==
    /\ IsFiniteSet(Keys) /\ None \notin Values
    /\ Settings \subseteq [kind : {"postgres", "mysql", "polling"}, writers : SUBSET Writers,
                           statements : SUBSET SUBSET Keys, texts : SUBSET Nat,
                           batch : Nat \ {0}, events : Nat, troubles : Nat]

VARIABLES
    setting,
    lsn,        \* the end of the source's log; for polling, the newest cursor value
    log,        \* the committed changes of rows, in commit order
    open,       \* writer -> the changes its transaction has made
    slot,       \* confirmed_flush_lsn of the replication slot
    checkpoint, \* connector_sync_state, 0 for none
    watcher,    \* [pc, start, next, pos, mark, todo]: where Run is and what it holds;
                \* pos is clientXLogPos
    chunks,     \* the knowledge base: key -> content of its chunk, or None
    facts,      \* key -> the values its triples tell
    done,       \* history: changes of log applied in full
    began       \* history: where the last Run without a checkpoint started

vars == <<setting, lsn, log, open, slot, checkpoint, watcher, chunks, facts, done, began>>
source == <<lsn, log, open>>
base == <<chunks, facts, done>>

Postgres == setting.kind = "postgres"
MySQL == setting.kind = "mysql"
Polling == setting.kind = "polling"

-----------------------------------------------------------------------------
(* The source *)

Changes(k) == {n \in DOMAIN log : log[n].key = k}
Newest(k) == CHOOSE n \in Changes(k) : \A m \in Changes(k) : m <= n
Exists(k) == Changes(k) # {} /\ log[Newest(k)].val # None

MadeTo(w, k) == {i \in DOMAIN open[w] : open[w][i].key = k}
\* Whether w's transaction sees a row with that key.
Sees(w, k) ==
    IF MadeTo(w, k) = {} THEN Exists(k)
    ELSE \E i \in MadeTo(w, k) : (\A j \in MadeTo(w, k) : j <= i) /\ open[w][i].val # None

RowsMade == {p \in Writers \X (1..setting.events) : p[2] <= Len(open[p[1]])}

\* A statement writes or deletes rows; a row another transaction has written is
\* locked.  at: on PostgreSQL the row's record in the log, in MySQL the number of
\* its statement in the transaction, in a polled table the cursor's value, the same
\* for all rows of a statement and perhaps of the one before.  longer: so many
\* records begin after the row's own within the length of its text.
Statement(w, S, v) ==
    /\ S # {} /\ Len(log) + Cardinality(RowsMade) + Cardinality(S) <= setting.events
    /\ \A u \in Writers \ {w}, k \in S : MadeTo(u, k) = {}
    /\ v = None => \A k \in S : Sees(w, k)
    /\ \E at \in IF Polling THEN {Max({lsn, 1}), lsn + 1} ELSE {lsn + 1},
          longer \in [S -> setting.texts] :
         LET ks == SetToSeq(S)
             number == IF open[w] = << >> THEN 1 ELSE open[w][Len(open[w])].at + 1
             Place(i) == IF MySQL THEN number ELSE IF Postgres THEN lsn + i ELSE at
             Row(i) == [key |-> ks[i], val |-> v, at |-> Place(i), longer |-> longer[ks[i]]] IN
         /\ open' = [open EXCEPT ![w] = @ \o [i \in 1..Len(ks) |-> Row(i)]]
         /\ lsn' = IF MySQL THEN lsn ELSE IF Postgres THEN lsn + Len(ks) ELSE at
    /\ UNCHANGED <<setting, log, slot, checkpoint, watcher, base, began>>

\* The binlog receives a transaction when it commits; a rows event ends where the
\* next begins.
Commit(w) ==
    LET last == open[w][Len(open[w])].at
        Committed(r) == [key |-> r.key, val |-> r.val, commit |-> lsn + 1, longer |-> r.longer,
                         at |-> IF MySQL THEN lsn + r.at ELSE r.at] IN
    /\ open[w] # << >>
    /\ log' = log \o [i \in DOMAIN open[w] |-> Committed(open[w][i])]
    /\ lsn' = IF MySQL THEN lsn + last ELSE IF Postgres THEN lsn + 1 ELSE lsn
    /\ open' = [open EXCEPT ![w] = << >>]
    /\ UNCHANGED <<setting, slot, checkpoint, watcher, base, began>>

-----------------------------------------------------------------------------
(* What a server sends *)

\* An LSN is named by the last record that begins before it.  PostgreSQL sends a
\* transaction in full if its commit record does not begin before the start, MySQL
\* the rows events that end past it.
Sends(n, start) == IF Postgres THEN log[n].commit > start ELSE log[n].at > start
ToCome == {n \in DOMAIN log : n >= watcher.next /\ Sends(n, watcher.start)}
\* A slot is not moved back, and nothing before it is sent again.
StartAt(position) == IF Postgres THEN Max({position, slot}) ELSE position

\* The rows of a page, by cursor and key.
KeyOrder == SetToSeq(Keys)
RowBefore(m, n) ==
    \/ log[m].at < log[n].at
    \/ log[m].at = log[n].at /\ \E i, j \in DOMAIN KeyOrder :
            i < j /\ KeyOrder[i] = log[m].key /\ KeyOrder[j] = log[n].key
Beyond(mark) == {n \in {Newest(k) : k \in {l \in Keys : Exists(l)}} : log[n].at > mark}
PageOf(mark) ==
    LET rows == CHOOSE s \in SetToSeqs(Beyond(mark)) :
                    \A i, j \in DOMAIN s : i < j => RowBefore(s[i], s[j]) IN
    SubSeq(rows, 1, Min({setting.batch, Len(rows)}))

-----------------------------------------------------------------------------
(* Run *)

Off == [pc |-> "off", start |-> 0, next |-> 1, pos |-> 0, mark |-> 0, todo |-> << >>]
At(pc) == watcher.pc = pc
Event == log[Head(watcher.todo)]

\* Mutant: a source starts where its server is.
ResumeIgnored == lsn
Resume == IF checkpoint = 0 THEN lsn ELSE checkpoint

\* Load, LoadPosition or LoadWatermarks, and what Changes does first.  A polling
\* source keeps its mark from a Run that failed if nothing was saved.
Run ==
    /\ At("off")
    /\ IF Polling
       THEN /\ watcher' = [watcher EXCEPT !.pc = "poll",
                                          !.mark = IF checkpoint = 0 THEN @ ELSE checkpoint]
            /\ UNCHANGED began
       ELSE /\ watcher' = [Off EXCEPT !.pc = "stream", !.start = StartAt(Resume), !.pos = Resume]
            /\ began' = IF checkpoint = 0 THEN Resume ELSE began
    /\ UNCHANGED <<setting, source, slot, checkpoint, base>>

\* Mutant: the mark moves when rows are read.
MarkOnRead(page) == IF page = << >> THEN watcher.mark ELSE log[page[Len(page)]].at
MarkBefore(page) == watcher.mark
Poll ==
    /\ At("poll")
    /\ LET page == PageOf(watcher.mark) IN
       watcher' = [watcher EXCEPT !.pc = IF page = << >> THEN "finish" ELSE "chunk", !.todo = page,
                                  !.mark = MarkBefore(page)]
    /\ UNCHANGED <<setting, source, slot, checkpoint, base, began>>
Receive ==
    /\ At("stream") /\ ToCome # {}
    /\ LET n == CHOOSE n \in ToCome : \A m \in ToCome : n <= m IN
       watcher' = [watcher EXCEPT !.pc = "chunk", !.todo = <<n>>, !.next = n + 1]
    /\ UNCHANGED <<setting, source, slot, checkpoint, base, began>>

\* apply: SaveKnowledge or DeleteKnowledge, then UpsertKnowledgeGraph or
\* deleteEntity.  To delete a document that is not there is an error.
ApplyChunk ==
    /\ At("chunk") /\ (Event.val = None => chunks[Event.key] # None)
    /\ chunks' = [chunks EXCEPT ![Event.key] = Event.val]
    /\ watcher' = [watcher EXCEPT !.pc = "facts"]
    /\ UNCHANGED <<setting, source, slot, checkpoint, facts, done, began>>
ApplyFacts ==
    /\ At("facts")
    /\ facts' = [facts EXCEPT ![Event.key] = IF Event.val = None THEN {} ELSE @ \cup {Event.val}]
    /\ done' = done \cup {Head(watcher.todo)}
    /\ watcher' = [watcher EXCEPT !.pc = "save"]
    /\ UNCHANGED <<setting, source, slot, checkpoint, chunks, began>>

\* A row's message is placed at its record, and the length of the decoded text is
\* added: the sum names a record that may come after the transaction's commit.
Reach(n) == IF Postgres THEN log[n].at + log[n].longer ELSE log[n].at
Received == watcher.next - 1
EndsTransaction(n) == \A m \in n + 1 .. Len(log) : log[m].commit # log[n].commit

\* Mutant: the end of the server's log, which XLogData carries too.
ServerEnd(n) == IF Postgres THEN lsn ELSE log[n].at
Position(n) == Reach(n)

\* The position is saved after each event, the mark kept in memory.
Applied ==
    /\ At("save")
    /\ LET rest == Tail(watcher.todo) IN
       IF Polling
       THEN /\ watcher' = [watcher EXCEPT !.mark = Event.at, !.todo = rest,
                                          !.pc = IF rest = << >> THEN "finish" ELSE "chunk"]
            /\ UNCHANGED checkpoint
       ELSE /\ checkpoint' = Position(Received)
            /\ watcher' = [watcher EXCEPT
                  !.pc = IF Postgres /\ EndsTransaction(Received) THEN "commit" ELSE "stream",
                  !.pos = IF Postgres THEN Position(Received) ELSE @, !.todo = << >>]
    /\ UNCHANGED <<setting, source, slot, base, began>>
\* A drain has come to its end.
SaveMark ==
    /\ At("finish")
    /\ checkpoint' = watcher.mark
    /\ watcher' = [watcher EXCEPT !.pc = "off"]
    /\ UNCHANGED <<setting, source, slot, base, began>>

\* PostgreSQL's other messages, and its clock, are seen between two rows.
Waiting == Postgres /\ watcher.pc \in {"stream", "commit"}

\* The COMMIT message is placed at the commit's end, and its 26 bytes reach into the
\* record that follows, written or not.  (BEGIN and a relation's message only set
\* the position back.)
ReceiveCommit ==
    /\ At("commit")
    /\ watcher' = [watcher EXCEPT !.pc = "stream", !.pos = log[Received].commit + 1]
    /\ UNCHANGED <<setting, source, slot, checkpoint, base, began>>
\* A keepalive tells how far the server has sent its log.
Keepalive ==
    /\ Waiting
    /\ \E p \in watcher.pos + 1 .. lsn :
         /\ \A n \in ToCome \cup {m \in {Received} : At("commit")} : p < log[n].commit
         /\ watcher' = [watcher EXCEPT !.pos = p]
    /\ UNCHANGED <<setting, source, slot, checkpoint, base, began>>
\* The standby status confirms the position.
Standby ==
    /\ Waiting /\ watcher.pos > slot
    /\ slot' = watcher.pos
    /\ UNCHANGED <<setting, source, checkpoint, watcher, base, began>>

\* Run returns an error: a statement fails, the stream breaks, or a delete finds no
\* document.  Or the process dies.
Trouble == setting.troubles > 0 /\ setting' = [setting EXCEPT !.troubles = @ - 1]
Failed == [watcher EXCEPT !.pc = "off", !.start = 0, !.next = 1, !.pos = 0, !.todo = << >>]
Fail ==
    /\ ~At("off") /\ Trouble
    /\ watcher' = Failed
    /\ UNCHANGED <<source, slot, checkpoint, base, began>>
DeleteFails ==
    /\ At("chunk") /\ Event.val = None /\ chunks[Event.key] = None
    /\ watcher' = Failed
    /\ UNCHANGED <<setting, source, slot, checkpoint, base, began>>
Crash ==
    /\ ~At("off") \/ watcher # Off
    /\ Trouble
    /\ watcher' = Off
    /\ UNCHANGED <<source, slot, checkpoint, base, began>>

-----------------------------------------------------------------------------
Init ==
    /\ setting \in Settings
    /\ lsn = 0 /\ log = << >> /\ open = [w \in Writers |-> << >>]
    /\ slot = 0 /\ checkpoint = 0 /\ watcher = Off
    /\ chunks = [k \in Keys |-> None] /\ facts = [k \in Keys |-> {}]
    /\ done = {} /\ began = 0

Next ==
    \/ \E w \in setting.writers :
         \/ \E S \in setting.statements, v \in Values \cup {None} : Statement(w, S, v)
         \/ Commit(w)
    \/ Run \/ Poll \/ Receive \/ ApplyChunk \/ ApplyFacts \/ Applied \/ SaveMark
    \/ ReceiveCommit \/ Keepalive \/ Standby \/ Fail \/ DeleteFails \/ Crash

Spec == Init /\ [][Next]_vars

-----------------------------------------------------------------------------
(* Properties *)

TypeOK ==
    /\ {lsn, slot, checkpoint, began} \subseteq Nat
    /\ \A n \in DOMAIN log : log[n].key \in Keys /\ log[n].val \in Values \cup {None} /\ log[n].at <= lsn
    /\ watcher.pc \in {"off", "poll", "stream", "chunk", "facts", "save", "commit", "finish"}
    /\ \A i \in DOMAIN watcher.todo : watcher.todo[i] \in DOMAIN log
    /\ chunks \in [Keys -> Values \cup {None}] /\ facts \in [Keys -> SUBSET Values]
    /\ done \subseteq DOMAIN log

\* A row of a MySQL statement of which another row was applied: the position saved
\* for that one is the end of both.
Torn(n) == MySQL /\ \E m \in done : m # n /\ log[m].at = log[n].at

\* A transaction of PostgreSQL that commits no later than a place saved or confirmed
\* for one before it: the text of an earlier row reached that far, or its own commit
\* record comes right after an earlier one.
Overrun(n) ==
    Postgres /\ \E m \in done :
        m < n /\ (Reach(m) >= log[n].commit \/ log[m].commit + 1 = log[n].commit)
Lost(n) == Torn(n) \/ Overrun(n)

\* watcher.go:98: changes are applied at least once.  From the Run that started
\* without a position, a change that was not applied is sent again to whoever
\* resumes at the saved one, from the slot as it was confirmed - but for the rest of
\* a MySQL statement, and for transactions a PostgreSQL place was carried past.
AtLeastOnce ==
    /\ TypeOK
    /\ ~Polling /\ checkpoint # 0 =>
         \A n \in DOMAIN log :
            Sends(n, began) => n \in done \/ Sends(n, StartAt(checkpoint)) \/ Lost(n)

Tells(k) ==
    LET row == log[Newest(k)] IN
    /\ chunks[k] = row.val
    /\ IF row.val = None THEN facts[k] = {} ELSE row.val \in facts[k]

\* With everything received, replayed and out of turn as it may have been, chunk and
\* triples are those of the row as it is, or gone with it - but for a row whose last
\* change was lost.
DrainedMirrors ==
    At("stream") /\ ToCome = {} =>
        \A k \in Keys : Changes(k) # {} /\ Sends(Newest(k), began) => Tells(k) \/ Lost(Newest(k))

\* The cursor does what TableCursor asks of it: no other change ever shared this
\* one's value, and it was committed after all smaller ones.
InOrder(n) ==
    /\ \A m \in 1 .. n - 1 : log[m].at < log[n].at
    /\ \A m \in n + 1 .. Len(log) : log[m].at # log[n].at

\* cdc_polling.go:16: no row whose cursor the saved mark has passed was passed over.
PolledRowsApplied ==
    Polling => \A k \in Keys :
        Exists(k) /\ log[Newest(k)].at <= checkpoint /\ InOrder(Newest(k)) => Tells(k)
=============================================================================
