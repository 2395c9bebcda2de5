------------------------------ MODULE WriteTurn ------------------------------
(***************************************************************************)
(* The queue of pkg/core/sqlite_writelock.go: writers of one SQLite file   *)
(* in one process take turns on a channel with room for one value.  Every  *)
(* pooled connection is wrapped: a transaction that may write holds the    *)
(* turn from BEGIN to its end, a writing statement outside one holds it    *)
(* while it runs, a writing query until its rows are closed.               *)
(*                                                                         *)
(* The channel knows no owner: a value received is a turn given back,      *)
(* whoever took it.  Go hands a value received to the sender that has been *)
(* blocked longest, so the channel stays full from one turn to the next.   *)
(* Reads never queue and are left out.                                     *)
(***************************************************************************)
EXTENDS Naturals, Sequences

CONSTANTS
    Users,        \* goroutines that use the pools
    Conns,        \* connections of every pool open on the file
    NoOne         \* nobody uses the connection

ASSUME WriteTurnAssumption == NoOne \notin Users

VARIABLES
    full,    \* the channel holds its value
    queue,   \* connections blocked sending to it, longest first
    pc,      \* per connection: what is going on with it
    inTx,    \* queuedConn.inTx
    tx,      \* per connection: its queuedTx, "none", "read only" or "write"
    user     \* per connection: the goroutine that uses it

wtVars == <<full, queue, pc, inTx, tx, user>>

WTInit ==
    /\ full = FALSE
    /\ queue = << >>
    /\ pc = [c \in Conns |-> "idle"]
    /\ inTx = [c \in Conns |-> FALSE]
    /\ tx = [c \in Conns |-> "none"]
    /\ user = [c \in Conns |-> NoOne]

Waiting(c) == pc[c] \in {"waitBegin", "waitStmt"}

(* A call has not returned yet; a goroutine makes one at a time. *)
InCall(g) ==
    \E c \in Conns : user[c] = g /\ (Waiting(c) \/ pc[c] \in {"begin", "stmt", "txStmt"})

(* A connection of its own, or one more from the pool. *)
MayUse(g, c) == ~InCall(g) /\ user[c] \in {g, NoOne}

-----------------------------------------------------------------------------
(* The channel *)

(* take, when the turn is free or else behind everybody who waits. *)
Take(c, waiting, granted) ==
    IF full
    THEN /\ queue' = Append(queue, c)
         /\ pc' = [pc EXCEPT ![c] = waiting]
         /\ UNCHANGED full
    ELSE /\ full' = TRUE
         /\ pc' = [pc EXCEPT ![c] = granted]
         /\ UNCHANGED queue

Granted(waiting) == IF waiting = "waitBegin" THEN "begin" ELSE "stmt"

(* The queue without its i-th connection. *)
Without(i) == SubSeq(queue, 1, i - 1) \o SubSeq(queue, i + 1, Len(queue))

(* Go serves blocked senders in the order they arrived. *)
NextInLine == 1

(* give, as connection c goes on to "next".  On an empty channel it blocks. *)
Give(c, next) ==
    /\ full
    /\ IF queue = << >>
       THEN /\ full' = FALSE
            /\ pc' = [pc EXCEPT ![c] = next]
            /\ UNCHANGED queue
       ELSE /\ pc' = [pc EXCEPT ![c] = next,
                                ![queue[NextInLine]] = Granted(pc[queue[NextInLine]])]
            /\ queue' = Without(NextInLine)
            /\ UNCHANGED full

Keep(c, next) ==
    /\ pc' = [pc EXCEPT ![c] = next]
    /\ UNCHANGED <<full, queue>>

-----------------------------------------------------------------------------
(* Transactions *)

(* BeginTx takes the turn first ... *)
BeginTx(g, c) ==
    /\ pc[c] = "idle"
    /\ MayUse(g, c)
    /\ Take(c, "waitBegin", "begin")
    /\ user' = [user EXCEPT ![c] = g]
    /\ UNCHANGED <<inTx, tx>>

(* ... unless the transaction only reads. *)
BeginReadOnly(g, c) ==
    /\ pc[c] = "idle"
    /\ MayUse(g, c)
    /\ Keep(c, "tx")
    /\ tx' = [tx EXCEPT ![c] = "read only"]
    /\ user' = [user EXCEPT ![c] = g]
    /\ UNCHANGED inTx

BeginReturns(c) ==
    /\ pc[c] = "begin"
    /\ Keep(c, "tx")
    /\ inTx' = [inTx EXCEPT ![c] = TRUE]
    /\ tx' = [tx EXCEPT ![c] = "write"]
    /\ UNCHANGED user

(* The driver's BEGIN fails. *)
BeginFails(c) ==
    /\ pc[c] = "begin"
    /\ Give(c, "idle")
    /\ user' = [user EXCEPT ![c] = NoOne]
    /\ UNCHANGED <<inTx, tx>>

(* Mutant: the transaction's end gives back a turn it may no longer have. *)
EndGivesAlways(c) == TRUE

EndGives(c) == inTx[c]

(* queuedTx.Commit or Rollback, whether the driver's succeeds or not. *)
End(c) ==
    /\ IF EndGives(c) THEN Give(c, "idle") ELSE Keep(c, "idle")
    /\ inTx' = [inTx EXCEPT ![c] = FALSE]
    /\ tx' = [tx EXCEPT ![c] = "none"]
    /\ user' = [user EXCEPT ![c] = NoOne]

(* The goroutine ends its transaction, on a connection that may be gone. *)
EndTx(c) ==
    /\ pc[c] \in {"tx", "dropped"}
    /\ ~InCall(user[c])
    /\ End(c)

(* The transaction's context ends: database/sql rolls it back, whatever its *)
(* goroutine is doing with another connection.                              *)
CancelTx(c) ==
    /\ pc[c] = "tx"
    /\ End(c)

(* Mutant: a dropped connection takes the turn with it. *)
CloseGivesNever(c) == FALSE

CloseGives(c) == inTx[c]

(* queuedConn.Close, in mid-transaction. *)
CloseConn(c) ==
    /\ pc[c] = "tx"
    /\ IF CloseGives(c) THEN Give(c, "dropped") ELSE Keep(c, "dropped")
    /\ inTx' = [inTx EXCEPT ![c] = FALSE]
    /\ UNCHANGED <<tx, user>>

-----------------------------------------------------------------------------
(* Statements that write *)

(* turnFor: a statement of a transaction that holds the turn needs none. *)
NeedsTurn(c) == ~inTx[c]

Statement(g, c) ==
    /\ pc[c] \in {"idle", "tx"}
    /\ MayUse(g, c)
    /\ IF NeedsTurn(c) THEN Take(c, "waitStmt", "stmt") ELSE Keep(c, "txStmt")
    /\ user' = [user EXCEPT ![c] = g]
    /\ UNCHANGED <<inTx, tx>>

(* Where a connection stands between calls. *)
Between(c) == IF tx[c] = "none" THEN "idle" ELSE "tx"

Freed(c) == user' = IF tx[c] = "none" THEN [user EXCEPT ![c] = NoOne] ELSE user

(* ExecContext returns, or the driver's query failed: release. *)
StatementReturns(c) ==
    /\ \/ pc[c] = "stmt" /\ Give(c, Between(c))
       \/ pc[c] = "txStmt" /\ Keep(c, Between(c))
    /\ Freed(c)
    /\ UNCHANGED <<inTx, tx>>

(* QueryContext returns rows, which keep the turn ... *)
QueryReturnsRows(c) ==
    /\ pc[c] = "stmt"
    /\ Keep(c, "rows")
    /\ UNCHANGED <<inTx, tx, user>>

(* ... until they are closed. *)
CloseRows(c) ==
    /\ pc[c] = "rows"
    /\ ~InCall(user[c])
    /\ Give(c, Between(c))
    /\ Freed(c)
    /\ UNCHANGED <<inTx, tx>>

(* The wait ends with writeTurnWait or with the context. *)
GiveUp(c) ==
    /\ Waiting(c)
    /\ \E i \in 1..Len(queue) : queue[i] = c /\ queue' = Without(i)
    /\ pc' = [pc EXCEPT ![c] = Between(c)]
    /\ Freed(c)
    /\ UNCHANGED <<full, inTx, tx>>

-----------------------------------------------------------------------------

WTNext ==
    \E c \in Conns :
        \/ \E g \in Users : BeginTx(g, c) \/ BeginReadOnly(g, c) \/ Statement(g, c)
        \/ BeginReturns(c)
        \/ BeginFails(c)
        \/ EndTx(c)
        \/ CancelTx(c)
        \/ CloseConn(c)
        \/ StatementReturns(c)
        \/ QueryReturnsRows(c)
        \/ CloseRows(c)
        \/ GiveUp(c)

WTSpec == WTInit /\ [][WTNext]_wtVars

-----------------------------------------------------------------------------
(* Properties *)

WTTypeOK ==
    /\ full \in BOOLEAN
    /\ queue \in Seq(Conns)
    /\ pc \in [Conns -> {"idle", "waitBegin", "begin", "tx", "dropped",
                          "waitStmt", "stmt", "txStmt", "rows"}]
    /\ inTx \in [Conns -> BOOLEAN]
    /\ tx \in [Conns -> {"none", "read only", "write"}]
    /\ user \in [Conns -> Users \cup {NoOne}]

(* The connection has a turn it must give back. *)
Holds(c) == inTx[c] \/ pc[c] \in {"begin", "stmt", "rows"}

(* sqlite_writelock.go:18: writers in one process do not write at the same  *)
(* time, whatever ends a transaction, a connection or a wait first.         *)
OneWriter == \A c, d \in Conns : Holds(c) /\ Holds(d) => c = d

(* sqlite_writelock.go:127 of the test: the turn is always given back.  The *)
(* channel is full exactly while somebody holds the turn, so no giver       *)
(* blocks on it and no writer waits for a turn nobody has; and those who    *)
(* wait are in the queue once each, so no turn is handed to one that left.  *)
TurnAccounted ==
    /\ full <=> \E c \in Conns : Holds(c)
    /\ queue # << >> => full
    /\ \A c \in Conns : Waiting(c) <=> \E i \in 1..Len(queue) : queue[i] = c
    /\ \A i, j \in 1..Len(queue) : queue[i] = queue[j] => i = j

(* c's goroutine waits for a turn it holds itself through another           *)
(* connection.                                                              *)
SelfBlocked(c) ==
    /\ Waiting(c)
    /\ \E d \in Conns \ {c} : user[d] = user[c] /\ Holds(d)

(* Calls return, goroutines end what they began and close their rows.  Of   *)
(* the timeout no more is assumed than that it fires for a writer that      *)
(* waits for itself.                                                        *)
WTFairSpec ==
    /\ WTSpec
    /\ \A c \in Conns :
        /\ WF_wtVars(BeginReturns(c) \/ BeginFails(c))
        /\ WF_wtVars(StatementReturns(c) \/ QueryReturnsRows(c))
        /\ SF_wtVars(EndTx(c))
        /\ SF_wtVars(CloseRows(c))
        /\ WF_wtVars(SelfBlocked(c) /\ GiveUp(c))

(* sqlite_writelock.go:19: a queue has no starvation.  Every wait for a     *)
(* turn ends, a nested writer's included, and no other needs its timeout.   *)
Served == \A c \in Conns : Waiting(c) ~> ~Waiting(c)
=============================================================================
