------------------------ MODULE ChangeFeedRefinement ------------------------
(***************************************************************************)
(* ChangeFeed implements CommittedLog: seqs with their gaps, pages, the    *)
(* prune mark, the saved cursor and both backends' locking disappear.      *)
(***************************************************************************)
EXTENDS ChangeFeed

Seqs == {ev.seq : ev \in hist}

(* How many of a set of numbers lie at or before n. *)
Position(seqs, n) == Cardinality({m \in seqs : m <= n})

InSeqOrder(seqs) ==
    [i \in 1..Cardinality(seqs) |-> CHOOSE n \in seqs : Position(seqs, n) = i]

(* How many events numbered n or less were ever committed. *)
EventsTo(n) == Cardinality({ev \in hist : ev.seq <= n})

(* The numbers of the events that were ever committed, oldest first: a      *)
(* number given out twice would stand in it twice.                          *)
Committed ==
    [i \in 1..Cardinality(hist) |->
        CHOOSE n \in Seqs : EventsTo(n) >= i /\ \A m \in Seqs : EventsTo(m) >= i => n <= m]

(* The subscription returned ErrChangesPruned. *)
IsLost(at) == at \in {"pruned", "head", "rebuild"}

(* A subscription that ended still stands for what it delivered, until the  *)
(* next one resumes from the saved cursor.                                  *)
Start == [c \in Consumers |-> EventsTo(from[c])]
Given == [c \in Consumers |-> InSeqOrder(got[c])]
Lost == [c \in Consumers |-> IsLost(pc[c])]

Promise == INSTANCE CommittedLog WITH
    committed <- Committed, start <- Start, delivered <- Given, lost <- Lost

(* Committed events reach consumers as changefeed.go:97-106 promises: in    *)
(* commit order, after commit, exactly once within a subscription and at    *)
(* least once across restarts, with no gap a consumer is not told of.       *)
ImplementsCommittedLog == Promise!Spec
=============================================================================
