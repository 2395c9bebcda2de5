---------------------------- MODULE CommittedLog ----------------------------
(***************************************************************************)
(* What the change feed promises, with no database in it: one sequence of  *)
(* committed events that only grows at its end, and consumers that are     *)
(* given contiguous stretches of it.  A consumer that comes back starts at *)
(* or before the point it had reached (at least once, never a gap); only a *)
(* consumer that was told it lost events may start further on.             *)
(***************************************************************************)
EXTENDS Naturals, Sequences

CONSTANTS Consumers

VARIABLES
    committed,   \* the events, oldest first
    start,       \* per consumer: how many events precede its subscription
    delivered,   \* per consumer: what the subscription has been given
    lost         \* per consumer: it was told that events are gone

vars == <<committed, start, delivered, lost>>

Init ==
    /\ committed = << >>
    /\ start = [c \in Consumers |-> 0]
    /\ delivered = [c \in Consumers |-> << >>]
    /\ lost = [c \in Consumers |-> FALSE]

(* A transaction commits: its events follow all earlier ones. *)
Commit ==
    /\ Len(committed') > Len(committed)
    /\ SubSeq(committed', 1, Len(committed)) = committed
    /\ UNCHANGED <<start, delivered, lost>>

(* The subscription is given the next stretch. *)
Deliver(c) ==
    /\ ~lost[c]
    /\ \E n \in (Len(delivered[c]) + 1)..(Len(committed) - start[c]) :
        delivered' = [delivered EXCEPT
            ![c] = SubSeq(committed, start[c] + 1, start[c] + n)]
    /\ UNCHANGED <<committed, start, lost>>

(* A new subscription resumes where the consumer stood, or earlier. *)
Resume(c) ==
    /\ \E n \in 0..(start[c] + Len(delivered[c])) : start' = [start EXCEPT ![c] = n]
    /\ delivered' = [delivered EXCEPT ![c] = << >>]
    /\ lost' = [lost EXCEPT ![c] = FALSE]
    /\ UNCHANGED committed

(* Retention has overtaken the consumer and it is told so. *)
Lose(c) ==
    /\ lost' = [lost EXCEPT ![c] = TRUE]
    /\ UNCHANGED <<committed, start, delivered>>

(* A consumer that dies with that knowledge still gets no gap: it resumes,  *)
(* or is told again.                                                        *)
Forget(c) ==
    /\ lost' = [lost EXCEPT ![c] = FALSE]
    /\ UNCHANGED <<committed, start, delivered>>

(* A consumer that lost events starts over from a point it chooses. *)
StartOver(c) ==
    /\ lost[c]
    /\ \E n \in 0..Len(committed) : start' = [start EXCEPT ![c] = n]
    /\ delivered' = [delivered EXCEPT ![c] = << >>]
    /\ lost' = [lost EXCEPT ![c] = FALSE]
    /\ UNCHANGED committed

Next ==
    \/ Commit
    \/ \E c \in Consumers : Deliver(c) \/ Resume(c) \/ Lose(c) \/ Forget(c) \/ StartOver(c)

Spec == Init /\ [][Next]_vars
=============================================================================
