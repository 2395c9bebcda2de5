-------------------------- MODULE ChangeFeedProofs --------------------------
(***************************************************************************)
(* Proofs about ChangeFeed, for any number of writers, consumers, rows and *)
(* events and any batch size, on both backends: what the log holds, what   *)
(* its consumers are given, and that it implements CommittedLog.           *)
(***************************************************************************)
EXTENDS ChangeFeedRefinement, WellFoundedInduction, FiniteSetTheorems,
        SequenceTheorems, TLAPS

-----------------------------------------------------------------------------
(* The largest seq of a set of events *)

(* A non-empty set of naturals has a least element. *)
LEMMA LeastNatural ==
    ASSUME NEW T \in SUBSET Nat, T # {}
    PROVE  \E n \in T : \A m \in T : n <= m
<1> DEFINE Less == {p \in Nat \X Nat : p[1] < p[2]}
<1>1. IsWellFoundedOn(Less, Nat)
  BY NatLessThanWellFounded DEF OpToRel
<1>2. PICK n \in T : \A m \in T : <<m, n>> \notin Less
  <2> HIDE DEF Less
  <2> QED BY <1>1, WFMin
<1>3. ASSUME NEW m \in T
      PROVE  n <= m
  <2>1. m \in Nat /\ n \in Nat /\ (m < n => <<m, n>> \in Less)
    OBVIOUS
  <2>2. QED
    BY <1>2, <2>1
<1> QED
  BY <1>3

(* MaxSeq of a bounded set of events is what its name says. *)
LEMMA MaxSeqIsMax ==
    ASSUME NEW S \in SUBSET Row, NEW b \in Nat, \A ev \in S : ev.seq <= b
    PROVE  /\ MaxSeq(S) \in Nat
           /\ \A ev \in S : ev.seq <= MaxSeq(S)
           /\ MaxSeq(S) # 0 => \E ev \in S : ev.seq = MaxSeq(S)
<1> DEFINE Bounds == {n \in Nat : \A ev \in S : ev.seq <= n}
           Candidates == {0} \cup {ev.seq : ev \in S}
<1>1. \A ev \in S : ev.seq \in Nat
  BY DEF Row
<1>2. PICK n \in Bounds : \A m \in Bounds : n <= m
  BY LeastNatural
<1>3. n \in Candidates
  <2>1. SUFFICES ASSUME n # 0, \A ev \in S : ev.seq # n
                 PROVE  FALSE
    OBVIOUS
  <2>2. n - 1 \in Bounds
    BY <1>1, <2>1
  <2>3. QED
    BY <1>2, <2>2
<1>4. \E k \in Candidates : \A ev \in S : ev.seq <= k
  BY <1>2, <1>3
<1>5. MaxSeq(S) \in Candidates /\ \A ev \in S : ev.seq <= MaxSeq(S)
  BY <1>4 DEF MaxSeq
<1>6. QED
  BY <1>1, <1>5

-----------------------------------------------------------------------------
(* Types *)

(* No seq runs ahead of what was numbered so far: with it the set of events *)
(* the largest seq is taken of is bounded.                                  *)
SeqsBounded ==
    /\ \A ev \in log \cup hist : ev.seq <= rid + seqgen
    /\ \A w \in Writers : \A ev \in pend[w] : ev.seq <= rid + seqgen
    /\ \A c \in Consumers : \A ev \in batch[c] : ev.seq <= rid + seqgen

TypeInv == TypeOK /\ SeqsBounded

(* The largest seq of any set of events that is in the table, in a          *)
(* transaction or in a batch.                                               *)
LEMMA MaxSeqInState ==
    ASSUME TypeInv, NEW S \in SUBSET Row, \A ev \in S : ev.seq <= rid + seqgen
    PROVE  /\ MaxSeq(S) \in Nat
           /\ \A ev \in S : ev.seq <= MaxSeq(S)
           /\ MaxSeq(S) # 0 => \E ev \in S : ev.seq = MaxSeq(S)
           /\ MaxSeq(S) <= rid + seqgen
<1>1. rid + seqgen \in Nat /\ rid \in Nat /\ seqgen \in Nat
  BY DEF TypeInv, TypeOK
<1>2. /\ MaxSeq(S) \in Nat
      /\ \A ev \in S : ev.seq <= MaxSeq(S)
      /\ MaxSeq(S) # 0 => \E ev \in S : ev.seq = MaxSeq(S)
  BY <1>1, MaxSeqIsMax
<1>3. QED
  BY <1>1, <1>2

\* The tables of an installed feed with no rows have their types.
LEMMA TypeInit == Init => TypeInv
<1> SUFFICES ASSUME Init PROVE TypeInv
  OBVIOUS
<1>1. TypeOK
  BY ChangeFeedAssumption DEF Init, TypeOK, Nothing
<1>2. SeqsBounded
  BY DEF Init, SeqsBounded
<1> QED
  BY <1>1, <1>2 DEF TypeInv

(* Numbering a row of change_log. *)
LEMMA Numbered ==
    ASSUME NEW ev \in Row, NEW n \in Nat
    PROVE  /\ [ev EXCEPT !.seq = n] \in Row
           /\ [ev EXCEPT !.seq = n].seq = n
BY DEF Row

(* A writer's steps. *)
LEMMA TypeWriter ==
    ASSUME TypeInv, NEW w \in Writers, WriterStep(w)
    PROVE  TypeInv'
<1> USE ChangeFeedAssumption
<1>1. ASSUME NEW e \in Entities, NEW v \in Values \cup {Absent}, Write(w, e, v)
      PROVE  TypeInv'
  <2>1. /\ rid' \in Nat /\ rid <= rid' /\ seqgen' = seqgen
        /\ seqgen \in Nat /\ rid \in Nat
    BY <1>1 DEF Write, TypeInv, TypeOK
  <2>2. InsertSeq(w) \in Nat /\ InsertSeq(w) <= rid + seqgen + 1
    <3>1. log \cup pend[w] \in SUBSET Row
      BY DEF TypeInv, TypeOK
    <3>2. \A ev \in log \cup pend[w] : ev.seq <= rid + seqgen
      BY DEF TypeInv, SeqsBounded
    <3>3. MaxSeq(log \cup pend[w]) \in Nat /\ MaxSeq(log \cup pend[w]) <= rid + seqgen
      BY <3>1, <3>2, MaxSeqInState
    <3>4. QED
      BY <3>3, <2>1 DEF InsertSeq
  <2> DEFINE new == [rid |-> rid + 1, seq |-> InsertSeq(w), id |-> e, after |-> v]
  <2>3. /\ new \in Row /\ new.seq = InsertSeq(w)
        /\ \/ pend' = pend
           \/ pend' = [pend EXCEPT ![w] = @ \cup {new}] /\ rid' = rid + 1
    <3>1. new \in Row /\ new.seq = InsertSeq(w)
      BY <2>1, <2>2 DEF Row
    <3>2. CASE ~Changed(w, e, v)
      <4>1. pend' = pend
        BY <1>1, <3>2 DEF Write
      <4> HIDE DEF new
      <4>2. QED
        BY <3>1, <4>1
    <3>3. CASE Changed(w, e, v)
      BY <1>1, <3>1, <3>3 DEF Write
    <3>4. QED
      BY <3>2, <3>3
  <2> HIDE DEF new
  <2>8. pend' \in [Writers -> SUBSET Row]
    <3>1. pend \in [Writers -> SUBSET Row] /\ pend[w] \cup {new} \in SUBSET Row
      BY <2>3 DEF TypeInv, TypeOK
    <3>2. QED
      BY <2>3, <3>1
  <2>4. \A u \in Writers : \A ev \in pend'[u] : ev.seq <= rid' + seqgen'
    <3>1. \A u \in Writers : \A ev \in pend[u] : ev.seq \in Nat /\ ev.seq <= rid + seqgen
      BY DEF TypeInv, TypeOK, SeqsBounded, Row
    <3>2. CASE pend' = pend
      BY <3>1, <3>2, <2>1
    <3>3. CASE pend' = [pend EXCEPT ![w] = @ \cup {new}] /\ rid' = rid + 1
      <4>1. \A u \in Writers : \A ev \in pend'[u] : ev \in pend[u] \/ ev = new
        BY <3>3 DEF TypeInv, TypeOK
      <4>2. QED
        BY <4>1, <3>1, <3>3, <2>1, <2>2, <2>3
    <3>4. QED
      BY <2>3, <3>2, <3>3
  <2>5. /\ \A ev \in log' \cup hist' : ev.seq <= rid' + seqgen'
        /\ \A c \in Consumers : \A ev \in batch'[c] : ev.seq <= rid' + seqgen'
    <3>1. /\ \A ev \in log \cup hist : ev.seq \in Nat /\ ev.seq <= rid + seqgen
          /\ \A c \in Consumers : \A ev \in batch[c] : ev.seq \in Nat /\ ev.seq <= rid + seqgen
      BY DEF TypeInv, TypeOK, SeqsBounded, Row
    <3>2. log' = log /\ hist' = hist /\ batch' = batch
      BY <1>1 DEF Write, consumerVars
    <3>3. QED
      BY <3>1, <3>2, <2>1
  <2>6. TypeOK'
    BY <1>1, <2>1, <2>8 DEF Write, TypeInv, TypeOK, consumerVars
  <2>7. QED
    BY <2>4, <2>5, <2>6 DEF TypeInv, SeqsBounded
<1>2. ASSUME AssignSeq(w)
      PROVE  TypeInv'
  <2>1. seqgen' = seqgen + 1 /\ rid' = rid /\ seqgen \in Nat /\ rid \in Nat
    BY <1>2 DEF AssignSeq, TypeInv, TypeOK
  <2>2. PICK ev \in pend[w] :
            pend' = [pend EXCEPT ![w] = (@ \ {ev}) \cup {[ev EXCEPT !.seq = seqgen + 1]}]
    BY <1>2 DEF AssignSeq
  <2>3. [ev EXCEPT !.seq = seqgen + 1] \in Row /\ [ev EXCEPT !.seq = seqgen + 1].seq = seqgen + 1
    <3>1. ev \in Row /\ seqgen + 1 \in Nat
      BY <2>1, <2>2 DEF TypeInv, TypeOK
    <3>2. QED
      BY <3>1, Numbered
  <2>4. pend' \in [Writers -> SUBSET Row]
    BY <2>2, <2>3 DEF TypeInv, TypeOK
  <2>5. TypeOK'
    BY <1>2, <2>1, <2>4 DEF AssignSeq, TypeInv, TypeOK, consumerVars
  <2>6. SeqsBounded'
    <3>1. /\ \A x \in log \cup hist : x.seq \in Nat /\ x.seq <= rid + seqgen
          /\ \A u \in Writers : \A x \in pend[u] : x.seq \in Nat /\ x.seq <= rid + seqgen
          /\ \A c \in Consumers : \A x \in batch[c] : x.seq \in Nat /\ x.seq <= rid + seqgen
      BY DEF TypeInv, TypeOK, SeqsBounded, Row
    <3>2. log' = log /\ hist' = hist /\ batch' = batch
      BY <1>2 DEF AssignSeq, consumerVars
    <3>3. \A u \in Writers : \A x \in pend'[u] : x \in pend[u] \/ x.seq = seqgen + 1
      BY <2>2, <2>3 DEF TypeInv, TypeOK
    <3>4. QED
      BY <2>1, <3>1, <3>2, <3>3 DEF SeqsBounded
  <2>7. QED
    BY <2>5, <2>6 DEF TypeInv
<1>3. ASSUME Commit(w)
      PROVE  TypeInv'
  <2>1. rows' \in [Entities -> Values \cup {Absent}]
    BY <1>3 DEF Commit, Seen, TypeInv, TypeOK
  <2>2. TypeOK'
    BY <1>3, <2>1 DEF Commit, Finish, Nothing, TypeInv, TypeOK, consumerVars
  <2>3. SeqsBounded'
    BY <1>3 DEF Commit, Finish, TypeInv, TypeOK, SeqsBounded, consumerVars
  <2>4. QED
    BY <2>2, <2>3 DEF TypeInv
<1>4. ASSUME Abort(w)
      PROVE  TypeInv'
  <2>1. TypeOK'
    BY <1>4 DEF Abort, Finish, Nothing, TypeInv, TypeOK, consumerVars
  <2>2. SeqsBounded'
    BY <1>4 DEF Abort, Finish, TypeInv, TypeOK, SeqsBounded, consumerVars
  <2>3. QED
    BY <2>1, <2>2 DEF TypeInv
<1> QED
  BY <1>1, <1>2, <1>3, <1>4 DEF WriterStep

(* Retention's step. *)
LEMMA TypePrune ==
    ASSUME TypeInv, PruneChanges
    PROVE  TypeInv'
<1>1. MaxSeq(log) \in Nat
  <2>1. log \in SUBSET Row /\ \A ev \in log : ev.seq <= rid + seqgen
    BY DEF TypeInv, TypeOK, SeqsBounded
  <2>2. QED
    BY <2>1, MaxSeqInState
<1>2. PICK cutoff \in Cutoffs : log' = {ev \in log : ev.seq > cutoff} /\ pruned' = cutoff
  BY DEF PruneChanges
<1>3. pruned' \in Nat /\ log' \subseteq log
  BY <1>1, <1>2 DEF Cutoffs, TypeInv, TypeOK
<1>4. TypeOK'
  BY <1>3 DEF PruneChanges, TypeInv, TypeOK, writerVars, consumerVars
<1>5. SeqsBounded'
  BY <1>3 DEF PruneChanges, TypeInv, SeqsBounded, writerVars, consumerVars
<1> QED
  BY <1>4, <1>5 DEF TypeInv

(* Replaying events over a state gives a state. *)
LEMMA ReplayType ==
    ASSUME NEW state \in [Entities -> Values \cup {Absent}], NEW S \in SUBSET Row,
           NEW b \in Nat, \A ev \in S : ev.seq <= b
    PROVE  Replay(state, S) \in [Entities -> Values \cup {Absent}]
<1>1. ASSUME NEW e \in Entities, {ev \in S : ev.id = e} # {}
      PROVE  (CHOOSE ev \in {x \in S : x.id = e} :
                  \A other \in {x \in S : x.id = e} : other.seq <= ev.seq) \in Row
  <2> DEFINE own == {ev \in S : ev.id = e}
  <2>1. own \in SUBSET Row /\ \A ev \in own : ev.seq <= b
    OBVIOUS
  <2>2. /\ MaxSeq(own) \in Nat
        /\ \A ev \in own : ev.seq <= MaxSeq(own)
        /\ MaxSeq(own) # 0 => \E ev \in own : ev.seq = MaxSeq(own)
    <3> HIDE DEF own
    <3> QED BY <2>1, MaxSeqIsMax
  <2>3. \E ev \in own : ev.seq = MaxSeq(own)
    <3>1. CASE MaxSeq(own) # 0
      BY <2>2, <3>1
    <3>2. CASE MaxSeq(own) = 0
      <4>1. PICK ev \in own : TRUE
        BY <1>1
      <4>2. ev.seq \in Nat /\ ev.seq <= 0
        BY <2>1, <2>2, <3>2, <4>1 DEF Row
      <4>3. ev.seq = MaxSeq(own)
        BY ONLY <3>2, <4>2
      <4>4. QED
        BY <4>1, <4>3
    <3>3. QED
      BY <3>1, <3>2
  <2>4. \E ev \in own : \A other \in own : other.seq <= ev.seq
    <3> HIDE DEF own
    <3> QED BY <2>2, <2>3
  <2>5. QED
    BY <2>1, <2>4
<1>2. QED
  BY <1>1 DEF Replay, Row

(* A consumer's steps. *)
LEMMA TypeConsumer ==
    ASSUME TypeInv, NEW c \in Consumers, ConsumerStep(c)
    PROVE  TypeInv'
<1> USE ChangeFeedAssumption
<1>1. ASSUME Subscribe(c)
      PROVE  TypeInv'
  BY <1>1 DEF Subscribe, TypeInv, TypeOK, SeqsBounded, writerVars
<1>2. ASSUME Read(c)
      PROVE  TypeInv'
  <2>1. Page(cursor[c]) \subseteq log
    BY DEF Page
  <2>2. batch' \in [Consumers -> SUBSET Row]
    BY <1>2, <2>1 DEF Read, TypeInv, TypeOK
  <2>3. pc' \in [Consumers -> {"off", "read", "handle", "handled", "wait",
                                "pruned", "head", "rebuild"}]
    <3>1. \E p \in {"pruned", "wait", "handle"} : pc' = [pc EXCEPT ![c] = p]
      BY <1>2 DEF Read
    <3>2. QED
      BY <3>1 DEF TypeInv, TypeOK
  <2>4. TypeOK'
    BY <1>2, <2>2, <2>3 DEF Read, TypeInv, TypeOK, writerVars
  <2>5. \A d \in Consumers : \A ev \in batch'[d] : ev \in batch[d] \/ ev \in log
    BY <1>2, <2>1 DEF Read, TypeInv, TypeOK
  <2>6. SeqsBounded'
    BY <1>2, <2>5 DEF Read, TypeInv, SeqsBounded, writerVars
  <2>7. QED
    BY <2>4, <2>6 DEF TypeInv
<1>3. ASSUME Handle(c)
      PROVE  TypeInv'
  <2>1. /\ batch[c] \in SUBSET Row /\ \A ev \in batch[c] : ev.seq <= rid + seqgen
        /\ rid + seqgen \in Nat
    BY DEF TypeInv, TypeOK, SeqsBounded
  <2>2. Replay(replica[c], batch[c]) \in [Entities -> Values \cup {Absent}]
    BY <2>1, ReplayType DEF TypeInv, TypeOK
  <2>3. {ev.seq : ev \in batch[c]} \in SUBSET Nat
    BY <2>1 DEF Row
  <2>4. /\ replica' \in [Consumers -> [Entities -> Values \cup {Absent}]]
        /\ got' \in [Consumers -> SUBSET Nat]
    BY <1>3, <2>2, <2>3 DEF Handle, TypeInv, TypeOK
  <2>5. TypeOK'
    BY <1>3, <2>4 DEF Handle, TypeInv, TypeOK, writerVars
  <2>6. SeqsBounded'
    BY <1>3 DEF Handle, TypeInv, SeqsBounded, writerVars
  <2>7. QED
    BY <2>5, <2>6 DEF TypeInv
<1>4. ASSUME Advance(c)
      PROVE  TypeInv'
  <2>1. MaxSeq(batch[c]) \in Nat
    <3>1. batch[c] \in SUBSET Row /\ \A ev \in batch[c] : ev.seq <= rid + seqgen
      BY DEF TypeInv, TypeOK, SeqsBounded
    <3>2. QED
      BY <3>1, MaxSeqInState
  <2>2. TypeOK'
    BY <1>4, <2>1 DEF Advance, BatchEnd, TypeInv, TypeOK, writerVars
  <2>3. SeqsBounded'
    BY <1>4 DEF Advance, TypeInv, TypeOK, SeqsBounded, writerVars
  <2>4. QED
    BY <2>2, <2>3 DEF TypeInv
<1>5. ASSUME Wake(c)
      PROVE  TypeInv'
  BY <1>5 DEF Wake, TypeInv, TypeOK, SeqsBounded, writerVars
<1>6. ASSUME Stop(c)
      PROVE  TypeInv'
  BY <1>6 DEF Stop, TypeInv, TypeOK, SeqsBounded, writerVars
<1>7. ASSUME ReadMaxSeq(c)
      PROVE  TypeInv'
  <2>1. MaxSeq(log) \in Nat
    <3>1. log \in SUBSET Row /\ \A ev \in log : ev.seq <= rid + seqgen
      BY DEF TypeInv, TypeOK, SeqsBounded
    <3>2. QED
      BY <3>1, MaxSeqInState
  <2>2. QED
    BY <1>7, <2>1 DEF ReadMaxSeq, TableHead, TypeInv, TypeOK, SeqsBounded, writerVars
<1>8. ASSUME ReadPruneMark(c)
      PROVE  TypeInv'
  BY <1>8 DEF ReadPruneMark, TypeInv, TypeOK, SeqsBounded, writerVars
<1>9. ASSUME Rebuild(c)
      PROVE  TypeInv'
  BY <1>9 DEF Rebuild, TypeInv, TypeOK, SeqsBounded, writerVars
<1> QED
  BY <1>1, <1>2, <1>3, <1>4, <1>5, <1>6, <1>7, <1>8, <1>9 DEF ConsumerStep, SubscriptionStep

\* Every step keeps the types and the bound on sequence numbers.
LEMMA TypeStep == TypeInv /\ [Next]_vars => TypeInv'
<1> SUFFICES ASSUME TypeInv, [Next]_vars PROVE TypeInv'
  OBVIOUS
<1>1. CASE Next
  BY <1>1, TypeWriter, TypePrune, TypeConsumer DEF Next
<1>2. CASE UNCHANGED vars
  BY <1>2 DEF vars, writerVars, consumerVars, TypeInv, TypeOK, SeqsBounded
<1> QED
  BY <1>1, <1>2

(* Every variable keeps its type: each seq that MAX, the trigger or the     *)
(* cursor computes is a number.                                             *)
THEOREM TypeCorrect == Spec => []TypeOK
<1>1. Spec => []TypeInv
  BY TypeInit, TypeStep, PTL DEF Spec
<1>2. TypeInv => TypeOK
  BY DEF TypeInv
<1> QED
  BY <1>1, <1>2, PTL

-----------------------------------------------------------------------------
(* The visible prefix only grows at its end *)

(* A transaction whose rows are numbered holds the lock: SQLite's write     *)
(* lock, or the advisory lock taken before the sequence was drawn from.     *)
NumberedHoldLock ==
    \A w \in Writers : (\E ev \in pend[w] : ev.seq # 0) => lock = w

(* A numbered row that is not yet visible lies after everything visible.    *)
NumberedAfterHist ==
    \A w \in Writers : \A ev \in pend[w], old \in hist :
        ev.seq # 0 => old.seq < ev.seq

(* Retention leaves an event at least as new as any that ever was.          *)
NewestKept ==
    /\ log \subseteq hist
    /\ \A old \in hist : \E ev \in log : old.seq <= ev.seq

(* The prune mark lies before some event that was visible.                  *)
MarkBehind == pruned = 0 \/ \E old \in hist : pruned < old.seq

(* The sequence is never behind a number it gave out.                       *)
SequenceAhead ==
    Postgres =>
        /\ \A old \in hist : old.seq <= seqgen
        /\ \A w \in Writers : \A ev \in pend[w] : ev.seq <= seqgen

OrderInv ==
    /\ NumberedHoldLock
    /\ NumberedAfterHist
    /\ NewestKept
    /\ MarkBehind
    /\ SequenceAhead

\* An empty feed has its rows in the order of their commits.
LEMMA OrderInit == Init => OrderInv
BY DEF Init, OrderInv, NumberedHoldLock, NumberedAfterHist, NewestKept, MarkBehind,
       SequenceAhead

(* MaxSeq(log) is at least every event that ever was visible. *)
LEMMA HeadCoversHist ==
    ASSUME TypeInv, OrderInv
    PROVE  /\ MaxSeq(log) \in Nat
           /\ \A ev \in log : ev.seq <= MaxSeq(log)
           /\ \A old \in hist : old.seq <= MaxSeq(log)
           /\ MaxSeq(log) # 0 => \E ev \in log : ev.seq = MaxSeq(log)
<1>1. /\ MaxSeq(log) \in Nat
      /\ \A ev \in log : ev.seq <= MaxSeq(log)
      /\ MaxSeq(log) # 0 => \E ev \in log : ev.seq = MaxSeq(log)
  <2>1. log \in SUBSET Row /\ \A ev \in log : ev.seq <= rid + seqgen
    BY DEF TypeInv, TypeOK, SeqsBounded
  <2>2. QED
    BY <2>1, MaxSeqInState
<1>2. ASSUME NEW old \in hist
      PROVE  old.seq <= MaxSeq(log)
  <2>1. PICK ev \in log : old.seq <= ev.seq
    BY DEF OrderInv, NewestKept
  <2>2. old.seq \in Nat /\ ev.seq \in Nat
    BY DEF TypeInv, TypeOK, Row
  <2>3. QED
    BY <1>1, <2>1, <2>2
<1> QED
  BY <1>1, <1>2

(* A write numbers its row after everything visible, or not at all. *)
LEMMA OrderWrite ==
    ASSUME TypeInv, OrderInv, NEW w \in Writers, NEW e \in Entities,
           NEW v \in Values \cup {Absent}, Write(w, e, v)
    PROVE  OrderInv'
<1> USE ChangeFeedAssumption
<1>1. /\ log' = log /\ hist' = hist /\ pruned' = pruned /\ seqgen' = seqgen
      /\ lock' = IF Postgres THEN lock ELSE w
      /\ ~Postgres => lock \in {NoOne, w}
  BY DEF Write, MayWrite
<1>2. \A u \in Writers : \A ev \in pend'[u] :
          \/ ev \in pend[u]
          \/ u = w /\ ev.seq = InsertSeq(w)
  <2>1. CASE ~Changed(w, e, v)
    BY <2>1 DEF Write
  <2>2. CASE Changed(w, e, v)
    <3> DEFINE new == [rid |-> rid + 1, seq |-> InsertSeq(w), id |-> e, after |-> v]
    <3>1. pend' = [pend EXCEPT ![w] = @ \cup {new}] /\ new.seq = InsertSeq(w)
      BY <2>2 DEF Write
    <3> HIDE DEF new
    <3>2. QED
      BY <3>1 DEF TypeInv, TypeOK
  <2>3. QED
    BY <2>1, <2>2
<1>3. /\ Postgres => InsertSeq(w) = 0
      /\ ~Postgres => \A old \in hist : old.seq < InsertSeq(w)
  <2>1. ASSUME ~Postgres, NEW old \in hist
        PROVE  old.seq < InsertSeq(w)
    <3> DEFINE S == log \cup pend[w]
    <3>1. S \in SUBSET Row /\ \A ev \in S : ev.seq <= rid + seqgen
      BY DEF TypeInv, TypeOK, SeqsBounded
    <3>2. MaxSeq(S) \in Nat /\ \A ev \in S : ev.seq <= MaxSeq(S)
      <4> HIDE DEF S
      <4> QED BY <3>1, MaxSeqInState
    <3>3. PICK ev \in log : old.seq <= ev.seq
      BY DEF OrderInv, NewestKept
    <3>4. old.seq \in Nat /\ ev.seq \in Nat /\ ev.seq <= MaxSeq(S)
      BY <3>2 DEF TypeInv, TypeOK, Row
    <3>5. InsertSeq(w) = MaxSeq(S) + 1
      BY <2>1 DEF InsertSeq
    <3>6. QED
      BY <3>2, <3>3, <3>4, <3>5
  <2>2. QED
    BY <2>1 DEF InsertSeq
<1>4. NumberedHoldLock'
  <2> SUFFICES ASSUME NEW u \in Writers, NEW ev \in pend'[u], ev.seq # 0
               PROVE  lock' = u
    BY DEF NumberedHoldLock
  <2>1. CASE ev \in pend[u]
    <3>1. lock = u
      BY <2>1 DEF OrderInv, NumberedHoldLock
    <3>2. QED
      BY <1>1, <3>1
  <2>2. CASE u = w /\ ev.seq = InsertSeq(w)
    BY <1>1, <1>3, <2>2
  <2>3. QED
    BY <1>2, <2>1, <2>2
<1>5. NumberedAfterHist'
  <2> SUFFICES ASSUME NEW u \in Writers, NEW ev \in pend'[u], NEW old \in hist, ev.seq # 0
               PROVE  old.seq < ev.seq
    BY <1>1 DEF NumberedAfterHist
  <2>1. QED
    BY <1>2, <1>3 DEF OrderInv, NumberedAfterHist
<1>6. NewestKept' /\ MarkBehind'
  BY <1>1 DEF OrderInv, NewestKept, MarkBehind
<1>7. SequenceAhead'
  BY <1>1, <1>2, <1>3 DEF OrderInv, SequenceAhead, TypeInv, TypeOK
<1> QED
  BY <1>4, <1>5, <1>6, <1>7 DEF OrderInv

(* The sequence is drawn from under the lock, and so after every event      *)
(* that is visible and every number another transaction still holds.        *)
LEMMA OrderAssignSeq ==
    ASSUME TypeInv, OrderInv, NEW w \in Writers, AssignSeq(w)
    PROVE  OrderInv'
<1> USE ChangeFeedAssumption
<1>1. /\ log' = log /\ hist' = hist /\ pruned' = pruned /\ seqgen' = seqgen + 1
      /\ lock' = w /\ lock \in {NoOne, w} /\ Postgres /\ seqgen \in Nat
  BY DEF AssignSeq, DrawAllowed, TypeInv, TypeOK
<1>2. \A u \in Writers : \A ev \in pend'[u] :
          \/ ev \in pend[u]
          \/ u = w /\ ev.seq = seqgen + 1
  <2>1. PICK ev \in pend[w] :
            pend' = [pend EXCEPT ![w] = (@ \ {ev}) \cup {[ev EXCEPT !.seq = seqgen + 1]}]
    BY DEF AssignSeq
  <2>2. ev \in Row /\ seqgen + 1 \in Nat
    BY <1>1, <2>1 DEF TypeInv, TypeOK
  <2>3. [ev EXCEPT !.seq = seqgen + 1].seq = seqgen + 1
    BY <2>2, Numbered
  <2>4. QED
    BY <2>1, <2>3 DEF TypeInv, TypeOK
<1>3. /\ \A old \in hist : old.seq \in Nat /\ old.seq <= seqgen
      /\ \A u \in Writers : \A ev \in pend[u] : ev.seq \in Nat /\ ev.seq <= seqgen
  BY <1>1 DEF OrderInv, SequenceAhead, TypeInv, TypeOK, Row
<1>4. NumberedHoldLock'
  BY <1>1, <1>2 DEF OrderInv, NumberedHoldLock
<1>5. NumberedAfterHist'
  BY <1>1, <1>2, <1>3 DEF OrderInv, NumberedAfterHist
<1>6. NewestKept' /\ MarkBehind'
  BY <1>1 DEF OrderInv, NewestKept, MarkBehind
<1>7. SequenceAhead'
  BY <1>1, <1>2, <1>3 DEF SequenceAhead
<1> QED
  BY <1>4, <1>5, <1>6, <1>7 DEF OrderInv

(* A commit appends what its transaction numbered; nobody else has numbers. *)
LEMMA OrderCommit ==
    ASSUME TypeInv, OrderInv, NEW w \in Writers, Commit(w)
    PROVE  OrderInv'
<1>1. /\ log' = log \cup pend[w] /\ hist' = hist \cup pend[w]
      /\ pend' = [pend EXCEPT ![w] = {}]
      /\ lock' = IF lock = w THEN NoOne ELSE lock
      /\ pruned' = pruned /\ seqgen' = seqgen
      /\ \A ev \in pend[w] : ev.seq # 0
  BY DEF Commit, Finish
<1>2. \A u \in Writers : \A ev \in pend'[u] : u # w /\ ev \in pend[u]
  BY <1>1 DEF TypeInv, TypeOK
<1>3. \A u \in Writers : u # w => \A ev \in pend[u], x \in pend[w] : ev.seq = 0
  BY <1>1 DEF OrderInv, NumberedHoldLock
<1>4. NumberedHoldLock'
  BY <1>1, <1>2 DEF OrderInv, NumberedHoldLock
<1>5. NumberedAfterHist'
  BY <1>1, <1>2, <1>3 DEF OrderInv, NumberedAfterHist
<1>6. NewestKept'
  <2>1. \A ev \in pend[w] : ev.seq <= ev.seq
    BY DEF TypeInv, TypeOK, Row
  <2>2. QED
    BY <1>1, <2>1 DEF OrderInv, NewestKept
<1>7. MarkBehind' /\ SequenceAhead'
  BY <1>1, <1>2 DEF OrderInv, MarkBehind, SequenceAhead
<1> QED
  BY <1>4, <1>5, <1>6, <1>7 DEF OrderInv

\* A transaction that rolls back leaves the order of the committed rows alone.
LEMMA OrderAbort ==
    ASSUME TypeInv, OrderInv, NEW w \in Writers, Abort(w)
    PROVE  OrderInv'
<1>1. /\ log' = log /\ hist' = hist /\ pruned' = pruned /\ seqgen' = seqgen
      /\ pend' = [pend EXCEPT ![w] = {}]
      /\ lock' = IF lock = w THEN NoOne ELSE lock
  BY DEF Abort, Finish
<1>2. \A u \in Writers : \A ev \in pend'[u] : u # w /\ ev \in pend[u]
  BY <1>1 DEF TypeInv, TypeOK
<1> QED
  BY <1>1, <1>2 DEF OrderInv, NumberedHoldLock, NumberedAfterHist, NewestKept, MarkBehind,
                    SequenceAhead

(* The cutoff stops short of the newest event, which so outlives the prune. *)
LEMMA OrderPrune ==
    ASSUME TypeInv, OrderInv, PruneChanges
    PROVE  OrderInv'
<1>1. PICK cutoff \in Cutoffs : log' = {ev \in log : ev.seq > cutoff} /\ pruned' = cutoff
  BY DEF PruneChanges
<1>2. /\ hist' = hist /\ pend' = pend /\ lock' = lock /\ seqgen' = seqgen
  BY DEF PruneChanges, writerVars
<1>3. /\ MaxSeq(log) \in Nat
      /\ \A old \in hist : old.seq <= MaxSeq(log)
      /\ MaxSeq(log) # 0 => \E ev \in log : ev.seq = MaxSeq(log)
  BY HeadCoversHist
<1>4. cutoff \in Nat /\ cutoff < MaxSeq(log)
  BY <1>1, <1>3 DEF Cutoffs, TypeInv, TypeOK
<1>5. PICK newest \in log : newest.seq = MaxSeq(log)
  BY <1>3, <1>4
<1>6. newest \in log' /\ newest \in hist
  BY <1>1, <1>3, <1>4, <1>5 DEF OrderInv, NewestKept
<1>7. NewestKept'
  BY <1>1, <1>2, <1>3, <1>5, <1>6 DEF OrderInv, NewestKept
<1>8. MarkBehind'
  BY <1>1, <1>2, <1>4, <1>5, <1>6 DEF MarkBehind
<1>9. NumberedHoldLock' /\ NumberedAfterHist' /\ SequenceAhead'
  BY <1>2 DEF OrderInv, NumberedHoldLock, NumberedAfterHist, SequenceAhead
<1> QED
  BY <1>7, <1>8, <1>9 DEF OrderInv

\* A subscription only reads, so the order of the rows stays.
LEMMA OrderConsumer ==
    ASSUME OrderInv, NEW c \in Consumers, ConsumerStep(c)
    PROVE  OrderInv'
<1>1. UNCHANGED <<pend, lock, seqgen, hist, log, pruned>>
  BY DEF ConsumerStep, SubscriptionStep, Subscribe, Read, Handle, Advance, Wake, Stop,
         ReadMaxSeq, ReadPruneMark, Rebuild, writerVars
<1> QED
  BY <1>1 DEF OrderInv, NumberedHoldLock, NumberedAfterHist, NewestKept, MarkBehind,
              SequenceAhead

\* Every step keeps the order of the rows (sequence numbers follow commits).
LEMMA OrderStep == TypeInv /\ OrderInv /\ [Next]_vars => OrderInv'
<1> SUFFICES ASSUME TypeInv, OrderInv, [Next]_vars PROVE OrderInv'
  OBVIOUS
<1>1. CASE Next
  BY <1>1, OrderWrite, OrderAssignSeq, OrderCommit, OrderAbort, OrderPrune, OrderConsumer
     DEF Next, WriterStep
<1>2. CASE UNCHANGED vars
  BY <1>2 DEF vars, writerVars, consumerVars, OrderInv, NumberedHoldLock,
              NumberedAfterHist, NewestKept, MarkBehind, SequenceAhead
<1> QED
  BY <1>1, <1>2

(* Only a commit makes events visible, and its events are numbered. *)
LEMMA OnlyCommitShows ==
    ASSUME TypeInv, OrderInv, [Next]_vars, NEW ev \in hist' \ hist
    PROVE  \E w \in Writers : ev \in pend[w] /\ ev.seq # 0
<1>1. ASSUME NEW w \in Writers, WriterStep(w)
      PROVE  \E u \in Writers : ev \in pend[u] /\ ev.seq # 0
  BY <1>1 DEF WriterStep, Write, AssignSeq, Commit, Abort
<1>2. ASSUME PruneChanges
      PROVE  hist' = hist
  BY <1>2 DEF PruneChanges, writerVars
<1>3. ASSUME NEW c \in Consumers, ConsumerStep(c)
      PROVE  hist' = hist
  BY <1>3 DEF ConsumerStep, SubscriptionStep, Subscribe, Read, Handle, Advance, Wake, Stop,
              ReadMaxSeq, ReadPruneMark, Rebuild, writerVars
<1>4. ASSUME UNCHANGED vars
      PROVE  hist' = hist
  BY <1>4 DEF vars, writerVars
<1> QED
  BY <1>1, <1>2, <1>3, <1>4 DEF Next

\* A step adds rows to the history only above every row already committed.
LEMMA GrowthStep == TypeInv /\ OrderInv /\ [Next]_vars => [GrowsAtEnd]_vars
<1> SUFFICES ASSUME TypeInv, OrderInv, [Next]_vars, NEW ev \in hist' \ hist
             PROVE  pruned < ev.seq /\ \A old \in hist : old.seq < ev.seq
  BY DEF GrowsAtEnd
<1>1. PICK w \in Writers : ev \in pend[w] /\ ev.seq # 0
  BY OnlyCommitShows
<1>2. \A old \in hist : old.seq < ev.seq
  BY <1>1 DEF OrderInv, NumberedAfterHist
<1>3. /\ ev.seq \in Nat /\ pruned \in Nat
      /\ \A old \in hist : old.seq \in Nat
  BY <1>1 DEF TypeInv, TypeOK, Row
<1>4. pruned < ev.seq
  <2>1. CASE pruned = 0
    BY <1>1, <1>3, <2>1
  <2>2. CASE \E old \in hist : pruned < old.seq
    BY <1>2, <1>3, <2>2
  <2>3. QED
    BY <2>1, <2>2 DEF OrderInv, MarkBehind
<1> QED
  BY <1>2, <1>4

(* The visible prefix only ever grows at the end: whatever a commit makes   *)
(* visible lies after every event that was ever visible and after the prune *)
(* mark, on both backends, however writers, retention and aborts interleave.*)
THEOREM PrefixGrowsHolds == Spec => PrefixGrows
<1>1. TypeInv /\ OrderInv /\ [Next]_vars => TypeInv' /\ OrderInv'
  BY TypeStep, OrderStep
<1>2. Init => TypeInv /\ OrderInv
  BY TypeInit, OrderInit
<1> QED
  BY <1>1, <1>2, GrowthStep, PTL DEF Spec, PrefixGrows

-----------------------------------------------------------------------------
(* The log explains the tables *)

(* What the newest of some events about a row says its state is.            *)
LastSays(events, e, v) ==
    LET own == {ev \in events : ev.id = e}
    IN  \/ own = {} /\ v = Absent
        \/ \E ev \in own : v = ev.after /\ \A other \in own : other.seq <= ev.seq

(* Two transactions never have written the same row. *)
RowLocks ==
    \A u, w \in Writers, e \in Entities :
        u # w => mine[u][e] = Unwritten \/ mine[w][e] = Unwritten

(* A transaction's events are numbered in the order they were written.      *)
PendInOrder ==
    \A w \in Writers : \A a, b \in pend[w] :
        /\ a.rid <= rid
        /\ Postgres \/ a.seq # 0
        /\ a.rid = b.rid => a = b
        /\ a.rid < b.rid /\ b.seq # 0 => a.seq # 0 /\ a.seq < b.seq

(* What a transaction has made of a row is what its last event about it     *)
(* says; a row it has written without an event is as committed.             *)
WritesLogged ==
    \A w \in Writers, e \in Entities :
        LET own == {ev \in pend[w] : ev.id = e}
        IN  \/ own = {} /\ mine[w][e] \in {Unwritten, rows[e]}
            \/ \E ev \in own :
                   mine[w][e] = ev.after /\ \A other \in own : other.rid <= ev.rid

SeqsDistinct == \A a, b \in hist : a.seq = b.seq => a = b

RowsExplained == \A e \in Entities : LastSays(hist, e, rows[e])

HistoryInv ==
    /\ RowLocks
    /\ PendInOrder
    /\ WritesLogged
    /\ SeqsDistinct
    /\ RowsExplained

(* Replaying events with distinct seqs gives what the newest says.          *)
LEMMA ReplayLast ==
    ASSUME NEW S \in SUBSET Row, \A a, b \in S : a.seq = b.seq => a = b,
           NEW state, NEW e \in Entities, NEW v, LastSays(S, e, v)
    PROVE  Replay(state, S)[e] = IF {ev \in S : ev.id = e} = {} THEN state[e] ELSE v
<1> DEFINE own == {ev \in S : ev.id = e}
           Newest(ev) == \A other \in own : other.seq <= ev.seq
<1>1. CASE own = {}
  BY <1>1 DEF Replay
<1>2. CASE own # {}
  <2>1. PICK ev \in own : v = ev.after /\ Newest(ev)
    BY <1>2 DEF LastSays
  <2>2. \A x \in own : x.seq \in Nat
    BY DEF Row
  <2>3. \A x \in own : Newest(x) => x = ev
    <3>1. SUFFICES ASSUME NEW x \in own, Newest(x)
                   PROVE  x = ev
      OBVIOUS
    <3>2. x.seq <= ev.seq /\ ev.seq <= x.seq
      BY <2>1, <3>1
    <3>3. x.seq = ev.seq
      BY <2>2, <3>2
    <3> QED
      BY <3>3
  <2>4. (CHOOSE x \in own : Newest(x)) = ev
    <3> HIDE DEF own, Newest
    <3> QED BY <2>1, <2>3
  <2>5. Replay(state, S)[e] = (CHOOSE x \in own : Newest(x)).after
    BY <1>2 DEF Replay
  <2> QED
    BY <1>2, <2>1, <2>4, <2>5
<1> QED
  BY <1>1, <1>2

\* The empty history explains the empty tables.
LEMMA HistoryInit == Init => HistoryInv
<1> SUFFICES ASSUME Init PROVE HistoryInv
  OBVIOUS
<1>1. /\ \A w \in Writers, e \in Entities : mine[w][e] = Unwritten
      /\ \A w \in Writers : pend[w] = {}
      /\ \A e \in Entities : rows[e] = Absent
      /\ hist = {}
  BY DEF Init, Nothing
<1> QED
  BY <1>1 DEF HistoryInv, RowLocks, PendInOrder, WritesLogged, SeqsDistinct,
              RowsExplained, LastSays

(* A write takes the row, and its event, if it changes the row, is the last.*)
LEMMA HistoryWrite ==
    ASSUME TypeInv, HistoryInv, NEW w \in Writers, NEW e \in Entities,
           NEW v \in Values \cup {Absent}, Write(w, e, v)
    PROVE  HistoryInv'
<1> USE ChangeFeedAssumption
<1> DEFINE new == [rid |-> rid + 1, seq |-> InsertSeq(w), id |-> e, after |-> v]
<1>1. /\ rows' = rows /\ hist' = hist /\ rid \in Nat
      /\ mine' = [mine EXCEPT ![w][e] = v]
      /\ \A u \in Writers \ {w} : mine[u][e] = Unwritten
  BY DEF Write, MayWrite, TypeInv, TypeOK
<1>2. /\ mine'[w][e] = v
      /\ \A u \in Writers, f \in Entities : u # w \/ f # e => mine'[u][f] = mine[u][f]
  BY <1>1 DEF TypeInv, TypeOK
<1>3. \/ ~Changed(w, e, v) /\ pend' = pend /\ rid' = rid
      \/ Changed(w, e, v) /\ pend' = [pend EXCEPT ![w] = @ \cup {new}] /\ rid' = rid + 1
  <2> HIDE DEF new
  <2>1. Changed(w, e, v) => rid' = rid + 1 /\ pend' = [pend EXCEPT ![w] = @ \cup {new}]
    BY DEF Write, new
  <2>2. ~Changed(w, e, v) => pend' = pend /\ rid' = rid
    BY DEF Write
  <2> QED
    BY <2>1, <2>2
<1>4. new.rid = rid + 1 /\ new.seq = InsertSeq(w) /\ new.id = e /\ new.after = v
  OBVIOUS
<1> HIDE DEF new
<1>5. \A u \in Writers : \A ev \in pend[u] : ev.rid \in Nat /\ ev.seq \in Nat /\ ev.rid <= rid
  BY DEF TypeInv, TypeOK, Row, HistoryInv, PendInOrder
<1>6. \A u \in Writers : /\ u # w => pend'[u] = pend[u]
                         /\ pend'[u] = pend[u] \/ pend'[u] = pend[u] \cup {new}
  BY <1>3 DEF TypeInv, TypeOK
<1>7. InsertSeq(w) # 0 => InsertSeq(w) \in Nat /\ \A ev \in pend[w] : ev.seq < InsertSeq(w)
  <2> DEFINE S == log \cup pend[w]
  <2>1. S \in SUBSET Row /\ \A ev \in S : ev.seq <= rid + seqgen
    BY DEF TypeInv, TypeOK, SeqsBounded
  <2>2. MaxSeq(S) \in Nat /\ \A ev \in S : ev.seq <= MaxSeq(S)
    <3> HIDE DEF S
    <3> QED BY <2>1, MaxSeqInState
  <2>3. (InsertSeq(w) # 0 => InsertSeq(w) = MaxSeq(S) + 1) /\ pend[w] \subseteq S
    BY DEF InsertSeq
  <2> HIDE DEF S
  <2> QED
    BY <1>5, <2>2, <2>3
<1>8. Postgres \/ InsertSeq(w) # 0
  <2>1. log \cup pend[w] \in SUBSET Row /\ \A ev \in log \cup pend[w] : ev.seq <= rid + seqgen
    BY DEF TypeInv, TypeOK, SeqsBounded
  <2>2. MaxSeq(log \cup pend[w]) \in Nat
    BY <2>1, MaxSeqInState
  <2> QED
    BY <2>2 DEF InsertSeq
<1>9. RowLocks'
  <2> SUFFICES ASSUME NEW u \in Writers, NEW x \in Writers, NEW f \in Entities, u # x
               PROVE  mine'[u][f] = Unwritten \/ mine'[x][f] = Unwritten
    BY DEF RowLocks
  <2> QED
    BY <1>1, <1>2 DEF HistoryInv, RowLocks
<1>10. PendInOrder'
  <2> SUFFICES ASSUME NEW u \in Writers, NEW a \in pend'[u], NEW b \in pend'[u]
               PROVE  /\ a.rid <= rid'
                      /\ Postgres \/ a.seq # 0
                      /\ a.rid = b.rid => a = b
                      /\ a.rid < b.rid /\ b.seq # 0 => a.seq # 0 /\ a.seq < b.seq
    BY DEF PendInOrder
  <2>1. a \in pend[u] /\ b \in pend[u] =>
            /\ a.rid <= rid
            /\ Postgres \/ a.seq # 0
            /\ a.rid = b.rid => a = b
            /\ a.rid < b.rid /\ b.seq # 0 => a.seq # 0 /\ a.seq < b.seq
    BY DEF HistoryInv, PendInOrder
  <2>2. CASE pend'[u] = pend[u]
    BY <1>1, <1>3, <1>5, <2>1, <2>2
  <2>3. CASE u = w /\ pend'[w] = pend[w] \cup {new} /\ rid' = rid + 1
    <3>1. a = new /\ b \in pend[w] => ~(a.rid <= b.rid)
      BY <1>1, <1>4, <1>5
    <3>2. a \in pend[w] /\ b = new => a.rid < b.rid /\ (b.seq # 0 => a.seq < b.seq)
      BY <1>1, <1>4, <1>5, <1>7
    <3>3. b = new /\ b.seq # 0 => \A ev \in pend[w] : ev.seq # 0
      <4> SUFFICES ASSUME InsertSeq(w) # 0, NEW ev \in pend[w]
                   PROVE  ev.seq # 0
        BY <1>4
      <4>1. ~Postgres
        BY DEF InsertSeq
      <4> QED
        BY <4>1 DEF HistoryInv, PendInOrder
    <3> QED
      BY <1>1, <1>4, <1>5, <1>8, <2>1, <2>3, <3>1, <3>2, <3>3
  <2> QED
    BY <1>3, <1>6, <2>2, <2>3
<1>11. WritesLogged'
  <2> SUFFICES ASSUME NEW u \in Writers, NEW f \in Entities
               PROVE  LET own == {ev \in pend'[u] : ev.id = f}
                      IN  \/ own = {} /\ mine'[u][f] \in {Unwritten, rows'[f]}
                          \/ \E ev \in own :
                                mine'[u][f] = ev.after /\ \A other \in own : other.rid <= ev.rid
    BY DEF WritesLogged
  <2> DEFINE own == {ev \in pend[u] : ev.id = f}
  <2>1. \/ own = {} /\ mine[u][f] \in {Unwritten, rows[f]}
        \/ \E ev \in own : mine[u][f] = ev.after /\ \A other \in own : other.rid <= ev.rid
    BY DEF HistoryInv, WritesLogged
  <2>2. CASE u # w \/ f # e
    <3>1. {ev \in pend'[u] : ev.id = f} = own
      BY <1>4, <1>6, <2>2
    <3> HIDE DEF own
    <3> QED
      BY <1>1, <1>2, <2>1, <2>2, <3>1
  <2>3. CASE u = w /\ f = e /\ ~Changed(w, e, v)
    <3>1. pend' = pend /\ v = Seen(w, e) /\ mine'[w][e] = v
      BY <1>2, <1>3, <2>3 DEF Changed
    <3>2. v = IF mine[w][e] = Unwritten THEN rows[e] ELSE mine[w][e]
      BY <3>1 DEF Seen
    <3>3. \A ev \in own : ev.after # Unwritten
      BY DEF TypeInv, TypeOK, Row
    <3>4. \/ own = {} /\ v = rows[e]
          \/ \E ev \in own : v = ev.after /\ \A other \in own : other.rid <= ev.rid
      <4> HIDE DEF own
      <4> QED BY <2>1, <2>3, <3>2, <3>3
    <3> QED
      BY <1>1, <2>3, <3>1, <3>4
  <2>4. CASE u = w /\ f = e /\ Changed(w, e, v)
    <3>1. pend'[w] = pend[w] \cup {new}
      BY <1>3, <2>4 DEF TypeInv, TypeOK
    <3>2. \A other \in pend'[w] : other.rid <= new.rid
      BY <1>1, <1>4, <1>5, <3>1
    <3> QED
      BY <1>2, <1>4, <2>4, <3>1, <3>2
  <2> QED
    BY <2>2, <2>3, <2>4
<1> QED
  BY <1>1, <1>9, <1>10, <1>11 DEF HistoryInv, SeqsDistinct, RowsExplained

(* Numbering the first of a transaction's events that has no number keeps   *)
(* their order, and changes nothing that rows are explained by.             *)
LEMMA HistoryAssignSeq ==
    ASSUME TypeInv, OrderInv, HistoryInv, NEW w \in Writers, AssignSeq(w)
    PROVE  HistoryInv'
<1>1. /\ rows' = rows /\ hist' = hist /\ mine' = mine /\ rid' = rid
      /\ seqgen \in Nat /\ rid \in Nat /\ Postgres
  BY DEF AssignSeq, TypeInv, TypeOK
<1>2. PICK ev \in pend[w] :
          /\ ev.seq = 0
          /\ \A other \in pend[w] : other.seq = 0 => ev.rid <= other.rid
          /\ pend' = [pend EXCEPT ![w] = (@ \ {ev}) \cup {[ev EXCEPT !.seq = seqgen + 1]}]
  BY DEF AssignSeq
<1> DEFINE new == [ev EXCEPT !.seq = seqgen + 1]
<1>3. new.rid = ev.rid /\ new.id = ev.id /\ new.after = ev.after /\ new.seq = seqgen + 1
  BY <1>2 DEF TypeInv, TypeOK, Row
<1>4. \A u \in Writers : /\ u # w => pend'[u] = pend[u]
                         /\ u = w => pend'[u] = (pend[u] \ {ev}) \cup {new}
  BY <1>2 DEF TypeInv, TypeOK
<1> HIDE DEF new
<1>5. \A u \in Writers : \A x \in pend[u] :
          x.rid \in Nat /\ x.seq \in Nat /\ x.rid <= rid /\ x.seq <= seqgen
  BY <1>1 DEF TypeInv, TypeOK, Row, HistoryInv, PendInOrder, OrderInv, SequenceAhead
<1>6. PendInOrder'
  <2> SUFFICES ASSUME NEW u \in Writers, NEW a \in pend'[u], NEW b \in pend'[u]
               PROVE  /\ a.rid <= rid
                      /\ a.rid = b.rid => a = b
                      /\ a.rid < b.rid /\ b.seq # 0 => a.seq # 0 /\ a.seq < b.seq
    BY <1>1 DEF PendInOrder
  <2>1. \A x, y \in pend[u] :
            /\ x.rid <= rid
            /\ x.rid = y.rid => x = y
            /\ x.rid < y.rid /\ y.seq # 0 => x.seq # 0 /\ x.seq < y.seq
    BY DEF HistoryInv, PendInOrder
  <2>2. CASE a \in pend[u] /\ b \in pend[u]
    BY <2>1, <2>2
  <2>3. CASE u = w /\ a = new /\ b \in pend[u] \ {ev}
    BY <1>2, <1>3, <1>5, <2>1, <2>3
  <2>4. CASE u = w /\ b = new /\ a \in pend[u] \ {ev}
    BY <1>1, <1>2, <1>3, <1>5, <2>1, <2>4
  <2>5. CASE u = w /\ a = new /\ b = new
    BY <1>2, <1>3, <1>5, <2>5
  <2> QED
    BY <1>4, <2>2, <2>3, <2>4, <2>5
<1>7. WritesLogged'
  <2> SUFFICES ASSUME NEW u \in Writers, NEW f \in Entities
               PROVE  LET own == {x \in pend'[u] : x.id = f}
                      IN  \/ own = {} /\ mine[u][f] \in {Unwritten, rows[f]}
                          \/ \E x \in own :
                                mine[u][f] = x.after /\ \A other \in own : other.rid <= x.rid
    BY <1>1 DEF WritesLogged
  <2>1. CASE {x \in pend[u] : x.id = f} = {} /\ mine[u][f] \in {Unwritten, rows[f]}
    BY <1>2, <1>3, <1>4, <2>1
  <2>2. ASSUME NEW x \in pend[u], x.id = f, mine[u][f] = x.after,
               \A other \in pend[u] : other.id = f => other.rid <= x.rid
        PROVE  \E y \in pend'[u] : /\ y.id = f /\ mine[u][f] = y.after
                                   /\ \A other \in pend'[u] : other.id = f => other.rid <= y.rid
    <3>1. \A other \in pend'[u] : \E old \in pend[u] : old.rid = other.rid /\ old.id = other.id
      BY <1>2, <1>3, <1>4
    <3>2. \E y \in pend'[u] : y.rid = x.rid /\ y.id = x.id /\ y.after = x.after
      BY <1>2, <1>3, <1>4
    <3> QED
      BY <2>2, <3>1, <3>2
  <2> QED
    BY <2>1, <2>2 DEF HistoryInv, WritesLogged
<1> QED
  BY <1>1, <1>6, <1>7 DEF HistoryInv, RowLocks, SeqsDistinct, RowsExplained

(* A commit appends its events in the order they were written, and makes    *)
(* each row what the last of them says.                                     *)
LEMMA HistoryCommit ==
    ASSUME TypeInv, OrderInv, HistoryInv, NEW w \in Writers, Commit(w)
    PROVE  HistoryInv'
<1> USE ChangeFeedAssumption
<1>1. /\ rows' = [e \in Entities |-> Seen(w, e)]
      /\ hist' = hist \cup pend[w] /\ rid' = rid
      /\ mine' = [mine EXCEPT ![w] = Nothing]
      /\ pend' = [pend EXCEPT ![w] = {}]
      /\ \A ev \in pend[w] : ev.seq # 0
  BY DEF Commit, Finish
<1>2. \A u \in Writers : /\ u # w => pend'[u] = pend[u] /\ mine'[u] = mine[u]
                         /\ u = w => pend'[u] = {} /\ mine'[u] = Nothing
  BY <1>1 DEF TypeInv, TypeOK
<1>3. /\ \A ev \in pend[w] : ev.rid \in Nat /\ ev.seq \in Nat /\ ev.after # Unwritten
      /\ \A ev \in hist : ev.seq \in Nat
      /\ \A ev \in pend[w], old \in hist : old.seq < ev.seq
  BY <1>1 DEF TypeInv, TypeOK, Row, OrderInv, NumberedAfterHist
<1>4. \A a, b \in pend[w] : /\ a.rid = b.rid => a = b
                            /\ a.rid < b.rid => a.seq < b.seq
  BY <1>1 DEF HistoryInv, PendInOrder
<1>5. RowLocks'
  BY <1>2 DEF HistoryInv, RowLocks, Nothing
<1>6. PendInOrder'
  BY <1>1, <1>2 DEF HistoryInv, PendInOrder
<1>7. WritesLogged'
  <2> SUFFICES ASSUME NEW u \in Writers, NEW e \in Entities, u # w
               PROVE  LET own == {ev \in pend[u] : ev.id = e}
                      IN  \/ own = {} /\ mine[u][e] \in {Unwritten, rows'[e]}
                          \/ \E ev \in own :
                                mine[u][e] = ev.after /\ \A other \in own : other.rid <= ev.rid
    BY <1>2 DEF WritesLogged, Nothing
  <2>1. mine[u][e] # Unwritten => rows'[e] = rows[e]
    BY <1>1 DEF HistoryInv, RowLocks, Seen
  <2> QED
    BY <2>1 DEF HistoryInv, WritesLogged
<1>8. SeqsDistinct'
  <2> SUFFICES ASSUME NEW a \in hist \cup pend[w], NEW b \in hist \cup pend[w], a.seq = b.seq
               PROVE  a = b
    BY <1>1 DEF SeqsDistinct
  <2>1. CASE a \in hist /\ b \in hist
    BY <2>1 DEF HistoryInv, SeqsDistinct
  <2>2. CASE a \in pend[w] /\ b \in pend[w]
    BY <1>3, <1>4, <2>2
  <2>3. ~(a \in hist /\ b \in pend[w]) /\ ~(b \in hist /\ a \in pend[w])
    BY <1>3
  <2> QED
    BY <2>1, <2>2, <2>3
<1>9. RowsExplained'
  <2> SUFFICES ASSUME NEW e \in Entities
               PROVE  LastSays(hist \cup pend[w], e, Seen(w, e))
    BY <1>1 DEF RowsExplained
  <2>1. LastSays(hist, e, rows[e])
    BY DEF HistoryInv, RowsExplained
  <2>2. CASE {ev \in pend[w] : ev.id = e} = {} /\ mine[w][e] \in {Unwritten, rows[e]}
    <3>1. Seen(w, e) = rows[e]
      BY <2>2 DEF Seen
    <3>2. {ev \in hist \cup pend[w] : ev.id = e} = {ev \in hist : ev.id = e}
      BY <2>2
    <3> QED
      BY <2>1, <3>1, <3>2 DEF LastSays
  <2>3. ASSUME NEW ev \in pend[w], ev.id = e, mine[w][e] = ev.after,
               \A other \in pend[w] : other.id = e => other.rid <= ev.rid
        PROVE  LastSays(hist \cup pend[w], e, Seen(w, e))
    <3>1. Seen(w, e) = ev.after
      BY <1>3, <2>3 DEF Seen
    <3>2. \A other \in pend[w] : other.id = e => other.seq <= ev.seq
      BY <1>3, <1>4, <2>3
    <3>3. \A other \in hist : other.seq <= ev.seq
      BY <1>3
    <3> QED
      BY <2>3, <3>1, <3>2, <3>3 DEF LastSays
  <2>4. \/ {ev \in pend[w] : ev.id = e} = {} /\ mine[w][e] \in {Unwritten, rows[e]}
        \/ \E ev \in pend[w] :
               /\ ev.id = e /\ mine[w][e] = ev.after
               /\ \A other \in pend[w] : other.id = e => other.rid <= ev.rid
    BY DEF HistoryInv, WritesLogged
  <2> QED
    BY <2>2, <2>3, <2>4
<1> QED
  BY <1>5, <1>6, <1>7, <1>8, <1>9 DEF HistoryInv

(* A transaction that ends without a trace. *)
LEMMA HistoryAbort ==
    ASSUME TypeInv, HistoryInv, NEW w \in Writers, Abort(w)
    PROVE  HistoryInv'
<1>1. /\ rows' = rows /\ hist' = hist /\ rid' = rid
      /\ mine' = [mine EXCEPT ![w] = Nothing]
      /\ pend' = [pend EXCEPT ![w] = {}]
  BY DEF Abort, Finish
<1>2. \A u \in Writers : /\ u # w => pend'[u] = pend[u] /\ mine'[u] = mine[u]
                         /\ u = w => pend'[u] = {} /\ mine'[u] = Nothing
  BY <1>1 DEF TypeInv, TypeOK
<1>3. RowLocks'
  BY <1>2 DEF HistoryInv, RowLocks, Nothing
<1>4. PendInOrder'
  BY <1>1, <1>2 DEF HistoryInv, PendInOrder
<1>5. WritesLogged'
  BY <1>1, <1>2 DEF HistoryInv, WritesLogged, Nothing
<1> QED
  BY <1>1, <1>3, <1>4, <1>5 DEF HistoryInv, SeqsDistinct, RowsExplained

\* Every step keeps the history and the tables in agreement.
LEMMA HistoryStep == TypeInv /\ OrderInv /\ HistoryInv /\ [Next]_vars => HistoryInv'
<1> SUFFICES ASSUME TypeInv, OrderInv, HistoryInv, [Next]_vars PROVE HistoryInv'
  OBVIOUS
<1>1. ASSUME NEW w \in Writers, WriterStep(w)
      PROVE  HistoryInv'
  BY <1>1, HistoryWrite, HistoryAssignSeq, HistoryCommit, HistoryAbort DEF WriterStep
<1>2. CASE UNCHANGED <<rows, mine, pend, rid, hist>>
  BY <1>2 DEF HistoryInv, RowLocks, PendInOrder, WritesLogged, SeqsDistinct, RowsExplained
<1>3. ASSUME PruneChanges
      PROVE  UNCHANGED <<rows, mine, pend, rid, hist>>
  BY <1>3 DEF PruneChanges, writerVars
<1>4. ASSUME NEW c \in Consumers, ConsumerStep(c)
      PROVE  UNCHANGED <<rows, mine, pend, rid, hist>>
  BY <1>4 DEF ConsumerStep, SubscriptionStep, Subscribe, Read, Handle, Advance, Wake, Stop,
              ReadMaxSeq, ReadPruneMark, Rebuild, writerVars
<1>5. ASSUME UNCHANGED vars
      PROVE  UNCHANGED <<rows, mine, pend, rid, hist>>
  BY <1>5 DEF vars, writerVars
<1> QED
  BY <1>1, <1>2, <1>3, <1>4, <1>5 DEF Next

(* Replaying the whole history over nothing gives the committed rows: the   *)
(* log explains the tables, though writers' events interleave in it and     *)
(* PostgreSQL numbers them only when they commit.                           *)
THEOREM LogExplainsRowsHolds == Spec => []LogExplainsRows
<1>1. TypeInv /\ HistoryInv => LogExplainsRows
  <2> SUFFICES ASSUME TypeInv, HistoryInv PROVE LogExplainsRows
    OBVIOUS
  <2> DEFINE nothing == [e \in Entities |-> Absent]
  <2>1. hist \in SUBSET Row /\ \A a, b \in hist : a.seq = b.seq => a = b
    BY DEF TypeInv, TypeOK, HistoryInv, SeqsDistinct
  <2>2. ASSUME NEW e \in Entities
        PROVE  Replay(nothing, hist)[e] = rows[e]
    <3>1. LastSays(hist, e, rows[e])
      BY DEF HistoryInv, RowsExplained
    <3>2. Replay(nothing, hist)[e]
              = IF {ev \in hist : ev.id = e} = {} THEN nothing[e] ELSE rows[e]
      <4> HIDE DEF nothing
      <4> QED BY <2>1, <3>1, ReplayLast
    <3>3. {ev \in hist : ev.id = e} = {} => rows[e] = Absent
      BY <3>1 DEF LastSays
    <3> QED
      BY <3>2, <3>3
  <2>3. rows \in [Entities -> Values \cup {Absent}]
    BY DEF TypeInv, TypeOK
  <2>4. Replay(nothing, hist) = [e \in Entities |-> Replay(nothing, hist)[e]]
    BY DEF Replay
  <2>5. rows = [e \in Entities |-> rows[e]]
    BY <2>3
  <2>6. rows = Replay(nothing, hist)
    <3> HIDE DEF nothing
    <3> QED BY <2>2, <2>4, <2>5
  <2> QED
    BY <2>6 DEF LogExplainsRows
<1>2. Init => TypeInv /\ OrderInv /\ HistoryInv
  BY TypeInit, OrderInit, HistoryInit
<1>3. TypeInv /\ OrderInv /\ HistoryInv /\ [Next]_vars
          => TypeInv' /\ OrderInv' /\ HistoryInv'
  BY TypeStep, OrderStep, HistoryStep
<1> QED
  BY <1>1, <1>2, <1>3, PTL DEF Spec

-----------------------------------------------------------------------------
(***************************************************************************)
(* Proofs about what ChangeFeed's consumers are given, for any number of   *)
(* writers, consumers, rows and events and any batch size: no gap and no   *)
(* repeat within a subscription, and the state a consumer keeps right.     *)
(*                                                                         *)
(* The argument: what lies after the prune mark is all still in the table, *)
(* so a page read from a cursor that is not behind the mark is a whole     *)
(* stretch of the history; and whatever is committed later lies after      *)
(* every number a consumer can hold (PrefixGrows), so the stretch stays    *)
(* whole until it is handled.                                              *)
(***************************************************************************)

LogFinite == IsFiniteSet(log) /\ \A w \in Writers : IsFiniteSet(pend[w])

(* What is gone from the table is what the prune mark says is gone.         *)
LogIsTail == log = {ev \in hist : ev.seq > pruned}

(* A number that no event still to be committed will be behind.             *)
Known(n) == n = 0 \/ n <= pruned \/ \E old \in hist : n <= old.seq

PointsKnown ==
    \A c \in Consumers : Known(cursor[c]) /\ Known(saved[c]) /\ Known(head[c])

(* A page is every event between the cursor and its own last one.           *)
PagesWhole ==
    \A c \in Consumers :
        pc[c] \in {"handle", "handled"} =>
            /\ batch[c] # {}
            /\ batch[c] = {h \in hist : cursor[c] < h.seq /\ h.seq <= MaxSeq(batch[c])}

FromBehind == \A c \in Consumers : pc[c] # "off" => from[c] <= cursor[c]

DeliveryInv ==
    /\ LogFinite
    /\ LogIsTail
    /\ PointsKnown
    /\ PagesWhole
    /\ FromBehind
    /\ NoGap

\* When the feed is first read nobody has read anything, so the delivery invariant holds.
LEMMA DeliveryInit == Init => DeliveryInv
<1> SUFFICES ASSUME Init PROVE DeliveryInv
  OBVIOUS
<1>1. LogFinite
  BY FS_EmptySet DEF Init, LogFinite
<1>2. LogIsTail /\ PointsKnown
  BY DEF Init, LogIsTail, PointsKnown, Known
<1>3. \A c \in Consumers : pc[c] = "off"
  BY DEF Init
<1>4. PagesWhole /\ FromBehind /\ NoGap
  BY <1>3 DEF PagesWhole, FromBehind, NoGap
<1> QED
  BY <1>1, <1>2, <1>4 DEF DeliveryInv

-----------------------------------------------------------------------------
(* Facts about one state *)

(* The last event of a non-empty batch. *)
LEMMA BatchLast ==
    ASSUME TypeInv, NEW c \in Consumers
    PROVE  /\ batch[c] \in SUBSET Row
           /\ MaxSeq(batch[c]) \in Nat
           /\ \A ev \in batch[c] : ev.seq \in Nat /\ ev.seq <= MaxSeq(batch[c])
           /\ MaxSeq(batch[c]) # 0 => \E ev \in batch[c] : ev.seq = MaxSeq(batch[c])
<1>1. batch[c] \in SUBSET Row /\ \A ev \in batch[c] : ev.seq <= rid + seqgen
  BY DEF TypeInv, TypeOK, SeqsBounded
<1>2. \A ev \in batch[c] : ev.seq \in Nat
  BY <1>1 DEF Row
<1> QED
  BY <1>1, <1>2, MaxSeqInState

(* A page leaves nothing out below its own events. *)
LEMMA PageDownClosed ==
    ASSUME TypeInv, IsFiniteSet(log), BatchSize \in Nat, NEW after \in Nat,
           NEW ev \in Page(after), NEW other \in log,
           after < other.seq, other.seq <= ev.seq
    PROVE  other \in Page(after)
<1> DEFINE later == {x \in log : x.seq > after}
           below(x) == {y \in later : y.seq < x.seq}
<1>1. \A x \in log : x.seq \in Nat
  BY DEF TypeInv, TypeOK, Row
<1>2. ev \in later /\ other \in later /\ Cardinality(below(ev)) < BatchSize
  BY <1>1 DEF Page
<1>3. IsFiniteSet(later)
  <2>1. later \in SUBSET log
    OBVIOUS
  <2> QED
    BY <2>1, FS_Subset
<1>4. IsFiniteSet(below(ev))
  <2>1. below(ev) \in SUBSET later
    OBVIOUS
  <2> HIDE DEF later, below
  <2> QED
    BY <1>3, <2>1, FS_Subset
<1>5. below(other) \in SUBSET below(ev)
  <2>1. ASSUME NEW y \in below(other) PROVE y \in below(ev)
    <3>1. y \in later /\ y.seq < other.seq
      OBVIOUS
    <3>2. y.seq \in Nat /\ other.seq \in Nat /\ ev.seq \in Nat
      BY <1>1, <1>2, <3>1
    <3> QED
      BY <3>1, <3>2
  <2> QED
    BY <2>1
<1>6. IsFiniteSet(below(other)) /\ Cardinality(below(other)) <= Cardinality(below(ev))
  <2> HIDE DEF below, later
  <2> QED
    BY <1>4, <1>5, FS_Subset
<1>7. Cardinality(below(other)) \in Nat /\ Cardinality(below(ev)) \in Nat
  <2> HIDE DEF below, later
  <2> QED
    BY <1>4, <1>6, FS_CardinalityType
<1>8. Cardinality(below(other)) < BatchSize
  <2> HIDE DEF below, later
  <2> QED
    BY <1>2, <1>6, <1>7
<1> QED
  BY <1>2, <1>8 DEF Page

(* A page read from a cursor that is not behind the prune mark is every     *)
(* event of the history up to its last one.                                 *)
LEMMA PageWhole ==
    ASSUME TypeInv, LogFinite, LogIsTail, NEW n \in Nat, pruned <= n, Page(n) # {}
    PROVE  Page(n) = {h \in hist : n < h.seq /\ h.seq <= MaxSeq(Page(n))}
<1> USE ChangeFeedAssumption
<1>1. Page(n) \subseteq log /\ \A ev \in Page(n) : n < ev.seq
  BY DEF Page
<1>2. /\ Page(n) \in SUBSET Row
      /\ \A ev \in Page(n) : ev.seq <= rid + seqgen
  BY <1>1 DEF TypeInv, TypeOK, SeqsBounded
<1>3. /\ MaxSeq(Page(n)) \in Nat
      /\ \A ev \in Page(n) : ev.seq <= MaxSeq(Page(n))
      /\ MaxSeq(Page(n)) # 0 => \E ev \in Page(n) : ev.seq = MaxSeq(Page(n))
  BY <1>2, MaxSeqInState
<1>4. /\ \A h \in hist : h.seq \in Nat
      /\ pruned \in Nat
  BY DEF TypeInv, TypeOK, Row
<1>5. ASSUME NEW h \in hist, n < h.seq, h.seq <= MaxSeq(Page(n))
      PROVE  h \in Page(n)
  <2>1. h \in log
    BY <1>4, <1>5 DEF LogIsTail
  <2>2. MaxSeq(Page(n)) # 0
    BY <1>3, <1>4, <1>5
  <2>3. PICK ev \in Page(n) : ev.seq = MaxSeq(Page(n))
    BY <1>3, <2>2
  <2> QED
    BY <1>5, <2>1, <2>3, PageDownClosed DEF LogFinite
<1>6. Page(n) \subseteq hist
  BY <1>1 DEF LogIsTail
<1> QED
  BY <1>1, <1>3, <1>5, <1>6

-----------------------------------------------------------------------------
(* Steps of writers and of retention *)

(* The table and the mark change together, and finitely. *)
LEMMA LogStep ==
    ASSUME TypeInv, OrderInv, DeliveryInv, [Next]_vars
    PROVE  LogFinite' /\ LogIsTail' /\ hist \subseteq hist' /\ pruned <= pruned'
<1>1. pruned \in Nat /\ \A h \in hist : h.seq \in Nat
  BY DEF TypeInv, TypeOK, Row
<1>2. LogFinite /\ LogIsTail
  BY DEF DeliveryInv
<1>3. ASSUME NEW w \in Writers, NEW e \in Entities, NEW v \in Values \cup {Absent},
             Write(w, e, v)
      PROVE  LogFinite' /\ LogIsTail' /\ hist \subseteq hist' /\ pruned <= pruned'
  <2>1. log' = log /\ hist' = hist /\ pruned' = pruned
    BY <1>3 DEF Write
  <2>2. ASSUME NEW u \in Writers PROVE IsFiniteSet(pend'[u])
    <3> DEFINE new == [rid |-> rid + 1, seq |-> InsertSeq(w), id |-> e, after |-> v]
    <3>1. pend' = pend \/ pend' = [pend EXCEPT ![w] = @ \cup {new}]
      BY <1>3 DEF Write
    <3> HIDE DEF new
    <3>2. pend'[u] = pend[u] \/ pend'[u] = pend[u] \cup {new}
      BY <3>1 DEF TypeInv, TypeOK
    <3>3. IsFiniteSet(pend[u])
      BY <1>2 DEF LogFinite
    <3> QED
      BY <3>2, <3>3, FS_AddElement
  <2> QED
    BY <1>1, <1>2, <2>1, <2>2 DEF LogFinite, LogIsTail
<1>4. ASSUME NEW w \in Writers, AssignSeq(w)
      PROVE  LogFinite' /\ LogIsTail' /\ hist \subseteq hist' /\ pruned <= pruned'
  <2>1. log' = log /\ hist' = hist /\ pruned' = pruned
    BY <1>4 DEF AssignSeq
  <2>2. PICK ev \in pend[w] :
            pend' = [pend EXCEPT ![w] = (@ \ {ev}) \cup {[ev EXCEPT !.seq = seqgen + 1]}]
    BY <1>4 DEF AssignSeq
  <2>3. ASSUME NEW u \in Writers PROVE IsFiniteSet(pend'[u])
    <3> DEFINE numbered == [ev EXCEPT !.seq = seqgen + 1]
    <3>1. pend'[u] = pend[u] \/ pend'[u] = (pend[u] \ {ev}) \cup {numbered}
      BY <2>2 DEF TypeInv, TypeOK
    <3> HIDE DEF numbered
    <3>2. IsFiniteSet(pend[u])
      BY <1>2 DEF LogFinite
    <3>3. IsFiniteSet(pend[u] \ {ev})
      BY <3>2, FS_RemoveElement
    <3>4. IsFiniteSet((pend[u] \ {ev}) \cup {numbered})
      BY <3>3, FS_AddElement
    <3> QED
      BY <3>1, <3>2, <3>4
  <2> QED
    BY <1>1, <1>2, <2>1, <2>3 DEF LogFinite, LogIsTail
<1>5. ASSUME NEW w \in Writers, Commit(w)
      PROVE  LogFinite' /\ LogIsTail' /\ hist \subseteq hist' /\ pruned <= pruned'
  <2>1. /\ log' = log \cup pend[w] /\ hist' = hist \cup pend[w] /\ pruned' = pruned
        /\ pend' = [pend EXCEPT ![w] = {}]
    BY <1>5 DEF Commit, Finish
  <2>2. \A ev \in hist' \ hist : pruned < ev.seq
    <3>1. hist' # hist => GrowsAtEnd
      BY GrowthStep DEF vars, writerVars
    <3> QED
      BY <3>1 DEF GrowsAtEnd
  <2>3. LogIsTail'
    <3>1. ASSUME NEW ev \in pend[w] PROVE pruned < ev.seq /\ ev \in hist'
      <4>1. ev.seq # 0 /\ ev.seq \in Nat
        BY <1>5 DEF Commit, TypeInv, TypeOK, Row
      <4>2. ev \notin hist
        BY <4>1 DEF OrderInv, NumberedAfterHist
      <4> QED
        BY <2>1, <2>2, <4>2
    <3>2. \A ev \in hist' : ev \in hist \/ ev \in pend[w]
      BY <2>1
    <3>3. \A ev \in pend[w] : ev.seq \in Nat
      BY DEF TypeInv, TypeOK, Row
    <3> QED
      BY <1>1, <1>2, <2>1, <3>1, <3>2, <3>3 DEF LogIsTail
  <2>4. IsFiniteSet(log) /\ IsFiniteSet(pend[w])
    BY <1>2 DEF LogFinite
  <2>5. IsFiniteSet(log')
    BY <2>1, <2>4, FS_Union
  <2>6. \A u \in Writers : pend'[u] = pend[u] \/ pend'[u] = {}
    BY <2>1 DEF TypeInv, TypeOK
  <2>7. LogFinite'
    BY <1>2, <2>5, <2>6, FS_EmptySet DEF LogFinite
  <2> QED
    BY <1>1, <2>1, <2>3, <2>7
<1>6. ASSUME NEW w \in Writers, Abort(w)
      PROVE  LogFinite' /\ LogIsTail' /\ hist \subseteq hist' /\ pruned <= pruned'
  <2>1. /\ log' = log /\ hist' = hist /\ pruned' = pruned
        /\ pend' = [pend EXCEPT ![w] = {}]
    BY <1>6 DEF Abort, Finish
  <2>2. \A u \in Writers : pend'[u] = pend[u] \/ pend'[u] = {}
    BY <2>1 DEF TypeInv, TypeOK
  <2> QED
    BY <1>1, <1>2, <2>1, <2>2, FS_EmptySet DEF LogFinite, LogIsTail
<1>7. ASSUME PruneChanges
      PROVE  LogFinite' /\ LogIsTail' /\ hist \subseteq hist' /\ pruned <= pruned'
  <2>1. PICK cutoff \in Cutoffs : log' = {ev \in log : ev.seq > cutoff} /\ pruned' = cutoff
    BY <1>7 DEF PruneChanges
  <2>2. hist' = hist /\ pend' = pend
    BY <1>7 DEF PruneChanges, writerVars
  <2>3. cutoff \in Nat /\ pruned < cutoff
    BY <1>1, <2>1, HeadCoversHist DEF Cutoffs
  <2>4. LogIsTail'
    BY <1>1, <1>2, <2>1, <2>2, <2>3 DEF LogIsTail
  <2>5. IsFiniteSet(log')
    <3>1. log' \in SUBSET log
      BY <2>1
    <3> QED
      BY <1>2, <3>1, FS_Subset DEF LogFinite
  <2> QED
    BY <1>1, <1>2, <2>1, <2>2, <2>3, <2>4, <2>5 DEF LogFinite
<1>8. ASSUME UNCHANGED <<log, hist, pruned, pend>>
      PROVE  LogFinite' /\ LogIsTail' /\ hist \subseteq hist' /\ pruned <= pruned'
  BY <1>1, <1>2, <1>8 DEF LogFinite, LogIsTail
<1>9. ASSUME NEW c \in Consumers, ConsumerStep(c)
      PROVE  UNCHANGED <<log, hist, pruned, pend>>
  BY <1>9 DEF ConsumerStep, SubscriptionStep, Subscribe, Read, Handle, Advance, Wake, Stop,
              ReadMaxSeq, ReadPruneMark, Rebuild, writerVars
<1>10. ASSUME UNCHANGED vars
       PROVE  UNCHANGED <<log, hist, pruned, pend>>
  BY <1>10 DEF vars, writerVars
<1> QED
  BY <1>3, <1>4, <1>5, <1>6, <1>7, <1>8, <1>9, <1>10 DEF Next, WriterStep

(* A known number stays known. *)
LEMMA KnownStays ==
    ASSUME TypeInv, TypeInv', hist \subseteq hist', pruned <= pruned',
           NEW n \in Nat, Known(n)
    PROVE  n = 0 \/ n <= pruned' \/ \E old \in hist' : n <= old.seq
<1>1. pruned \in Nat /\ pruned' \in Nat
  BY DEF TypeInv, TypeOK
<1> QED
  BY <1>1 DEF Known

(* What becomes visible lies after every known number. *)
LEMMA NewAfterKnown ==
    ASSUME TypeInv, TypeInv', GrowsAtEnd, NEW n \in Nat, Known(n), NEW ev \in hist' \ hist
    PROVE  n < ev.seq
<1>1. /\ pruned \in Nat /\ ev.seq \in Nat
      /\ \A old \in hist : old.seq \in Nat
  BY DEF TypeInv, TypeOK, Row
<1>2. pruned < ev.seq /\ \A old \in hist : old.seq < ev.seq
  BY DEF GrowsAtEnd
<1> QED
  BY <1>1, <1>2 DEF Known

(* How far a running subscription has got is a known number. *)
LEMMA ReachedKnown ==
    ASSUME TypeInv, DeliveryInv, NEW c \in Consumers
    PROVE  /\ Reached(c) \in Nat /\ Known(Reached(c))
           /\ pc[c] \in {"handle", "handled"} =>
                 MaxSeq(batch[c]) \in Nat /\ Known(MaxSeq(batch[c]))
<1>1. cursor[c] \in Nat /\ Known(cursor[c])
  BY DEF TypeInv, TypeOK, DeliveryInv, PointsKnown
<1>2. ASSUME pc[c] \in {"handle", "handled"}
      PROVE  MaxSeq(batch[c]) \in Nat /\ Known(MaxSeq(batch[c]))
  <2>1. batch[c] \subseteq hist
    BY <1>2 DEF DeliveryInv, PagesWhole
  <2>2. MaxSeq(batch[c]) \in Nat
        /\ (MaxSeq(batch[c]) # 0 => \E ev \in batch[c] : ev.seq = MaxSeq(batch[c]))
    BY BatchLast
  <2> QED
    BY <2>1, <2>2 DEF Known
<1> QED
  BY <1>1, <1>2 DEF Reached

(* A step that leaves the consumers alone leaves them right. *)
LEMMA QuietStep ==
    ASSUME TypeInv, TypeInv', DeliveryInv, UNCHANGED consumerVars,
           hist \subseteq hist', pruned <= pruned', [GrowsAtEnd]_vars
    PROVE  PointsKnown' /\ PagesWhole' /\ FromBehind' /\ NoGap'
<1>1. UNCHANGED <<pc, cursor, saved, batch, head, from, got>>
  BY DEF consumerVars
<1>2. ASSUME NEW n \in Nat, Known(n), NEW ev \in hist' \ hist
      PROVE  n < ev.seq
  <2>1. GrowsAtEnd
    BY DEF vars, writerVars
  <2> QED
    BY <1>2, <2>1, NewAfterKnown
<1>3. /\ \A h \in hist' : h.seq \in Nat
      /\ \A c \in Consumers : cursor[c] \in Nat /\ saved[c] \in Nat /\ head[c] \in Nat
      /\ \A c \in Consumers : from[c] \in Nat
  BY DEF TypeInv, TypeOK, Row
<1>4. PointsKnown'
  <2>1. ASSUME NEW c \in Consumers
        PROVE  Known(cursor[c])' /\ Known(saved[c])' /\ Known(head[c])'
    <3>1. Known(cursor[c]) /\ Known(saved[c]) /\ Known(head[c])
      BY DEF DeliveryInv, PointsKnown
    <3> QED
      BY <1>1, <1>3, <3>1, KnownStays DEF Known
  <2> QED
    BY <2>1 DEF PointsKnown
<1>5. PagesWhole'
  <2>1. ASSUME NEW c \in Consumers, pc[c] \in {"handle", "handled"}
        PROVE  /\ batch[c] # {}
               /\ batch[c] = {h \in hist' : cursor[c] < h.seq /\ h.seq <= MaxSeq(batch[c])}
    <3>1. /\ batch[c] # {}
          /\ batch[c] = {h \in hist : cursor[c] < h.seq /\ h.seq <= MaxSeq(batch[c])}
      BY <2>1 DEF DeliveryInv, PagesWhole
    <3>2. MaxSeq(batch[c]) \in Nat /\ \A ev \in hist' \ hist : MaxSeq(batch[c]) < ev.seq
      BY <1>2, <2>1, ReachedKnown
    <3>3. \A ev \in hist' \ hist : ~(ev.seq <= MaxSeq(batch[c]))
      BY <1>3, <3>2
    <3> HIDE <1>1
    <3> QED
      BY <3>1, <3>3
  <2> QED
    BY <1>1, <2>1 DEF PagesWhole
<1>6. NoGap'
  <2>1. ASSUME NEW c \in Consumers, pc[c] # "off"
        PROVE  got[c] = {ev.seq : ev \in {h \in hist' :
                                            from[c] < h.seq /\ h.seq <= Reached(c)}}
    <3>1. got[c] = {ev.seq : ev \in {h \in hist :
                                        from[c] < h.seq /\ h.seq <= Reached(c)}}
      BY <2>1 DEF DeliveryInv, NoGap
    <3>2. Reached(c) \in Nat /\ \A ev \in hist' \ hist : Reached(c) < ev.seq
      BY <1>2, ReachedKnown
    <3>3. \A ev \in hist' \ hist : ~(ev.seq <= Reached(c))
      BY <1>3, <3>2
    <3>4. {h \in hist' : from[c] < h.seq /\ h.seq <= Reached(c)}
              = {h \in hist : from[c] < h.seq /\ h.seq <= Reached(c)}
      BY <3>3
    <3> QED
      BY <3>1, <3>4
  <2>2. \A c \in Consumers : Reached(c)' = Reached(c)
    BY <1>1 DEF Reached
  <2> QED
    BY <1>1, <2>1, <2>2 DEF NoGap
<1> QED
  BY <1>1, <1>4, <1>5, <1>6 DEF DeliveryInv, FromBehind

-----------------------------------------------------------------------------
(* Steps of consumers *)

(* One consumer moves; the others stand where they stood. *)
LEMMA Moved ==
    ASSUME DeliveryInv, UNCHANGED <<hist, pruned>>, NEW c \in Consumers,
           \A d \in Consumers \ {c} :
               /\ pc'[d] = pc[d] /\ cursor'[d] = cursor[d] /\ saved'[d] = saved[d]
               /\ batch'[d] = batch[d] /\ head'[d] = head[d]
               /\ from'[d] = from[d] /\ got'[d] = got[d],
           Known(cursor'[c]) /\ Known(saved'[c]) /\ Known(head'[c]),
           pc'[c] \in {"handle", "handled"} =>
               /\ batch'[c] # {}
               /\ batch'[c] = {h \in hist : cursor'[c] < h.seq /\ h.seq <= MaxSeq(batch'[c])},
           pc'[c] # "off" =>
               /\ from'[c] <= cursor'[c]
               /\ got'[c] = {ev.seq : ev \in {h \in hist :
                                 from'[c] < h.seq /\ h.seq <= Reached(c)'}}
    PROVE  PointsKnown' /\ PagesWhole' /\ FromBehind' /\ NoGap'
<1>1. PointsKnown'
  BY DEF DeliveryInv, PointsKnown, Known
<1>2. PagesWhole'
  BY DEF DeliveryInv, PagesWhole
<1>3. FromBehind'
  BY DEF DeliveryInv, FromBehind
<1>4. NoGap'
  <2>1. \A d \in Consumers \ {c} : Reached(d)' = Reached(d)
    BY DEF Reached
  <2> QED
    BY <2>1 DEF DeliveryInv, NoGap
<1> QED
  BY <1>1, <1>2, <1>3, <1>4

\* A step of a subscription (subscribing, reading a page, handling, resuming) keeps the delivery parts.
LEMMA ConsumerMoves ==
    ASSUME TypeInv, TypeInv', DeliveryInv, NEW c \in Consumers, ConsumerStep(c)
    PROVE  PointsKnown' /\ PagesWhole' /\ FromBehind' /\ NoGap'
<1> USE ChangeFeedAssumption
<1>1. /\ cursor[c] \in Nat /\ saved[c] \in Nat /\ head[c] \in Nat /\ from[c] \in Nat
      /\ pruned \in Nat
      /\ \A h \in hist : h.seq \in Nat
  BY DEF TypeInv, TypeOK, Row
<1>2. Known(cursor[c]) /\ Known(saved[c]) /\ Known(head[c])
  BY DEF DeliveryInv, PointsKnown
<1>3. pc[c] \in {"handle", "handled"} =>
          /\ batch[c] # {}
          /\ batch[c] = {h \in hist : cursor[c] < h.seq /\ h.seq <= MaxSeq(batch[c])}
  BY DEF DeliveryInv, PagesWhole
<1>4. pc[c] # "off" =>
          /\ from[c] <= cursor[c]
          /\ got[c] = {ev.seq : ev \in {h \in hist :
                          from[c] < h.seq /\ h.seq <= Reached(c)}}
  BY DEF DeliveryInv, FromBehind, NoGap
<1>5. UNCHANGED <<hist, pruned>>
  BY DEF ConsumerStep, SubscriptionStep, Subscribe, Read, Handle, Advance, Wake, Stop,
         ReadMaxSeq, ReadPruneMark, Rebuild, writerVars
<1>6. \A d \in Consumers \ {c} :
          /\ pc'[d] = pc[d] /\ cursor'[d] = cursor[d] /\ saved'[d] = saved[d]
          /\ batch'[d] = batch[d] /\ head'[d] = head[d]
          /\ from'[d] = from[d] /\ got'[d] = got[d]
  BY DEF ConsumerStep, SubscriptionStep, Subscribe, Read, Handle, Advance, Wake, Stop,
         ReadMaxSeq, ReadPruneMark, Rebuild, TypeInv, TypeOK
<1>7. \A n, k \in Nat : n <= k => {h \in hist : k < h.seq /\ h.seq <= n} = {}
  BY <1>1
<1>8. ASSUME Subscribe(c)
      PROVE  PointsKnown' /\ PagesWhole' /\ FromBehind' /\ NoGap'
  <2>1. /\ pc'[c] = "read" /\ cursor'[c] = saved[c] /\ from'[c] = saved[c] /\ got'[c] = {}
        /\ saved'[c] = saved[c] /\ head'[c] = head[c]
    BY <1>8 DEF Subscribe, TypeInv, TypeOK
  <2>2. Reached(c)' = saved[c]
    BY <2>1 DEF Reached
  <2>3. {ev.seq : ev \in {h \in hist : from'[c] < h.seq /\ h.seq <= Reached(c)'}} = {}
    BY <1>1, <1>7, <2>1, <2>2
  <2> QED
    BY <1>1, <1>2, <1>5, <1>6, <2>1, <2>3, Moved
<1>9. ASSUME Read(c)
      PROVE  PointsKnown' /\ PagesWhole' /\ FromBehind' /\ NoGap'
  <2>1. /\ cursor'[c] = cursor[c] /\ from'[c] = from[c] /\ got'[c] = got[c]
        /\ saved'[c] = saved[c] /\ head'[c] = head[c]
        /\ pc[c] = "read"
    BY <1>9 DEF Read
  <2>2. /\ pc'[c] \in {"pruned", "wait", "handle"}
        /\ pc'[c] = "handle" => /\ pruned <= cursor[c]
                                /\ Page(cursor[c]) # {}
                                /\ batch'[c] = Page(cursor[c])
    <3>1. CASE ReadOverPruned(c)
      BY <1>9, <3>1 DEF Read, TypeInv, TypeOK
    <3>2. CASE ~ReadOverPruned(c)
      <4>1. pruned <= cursor[c]
        BY <1>1, <3>2 DEF ReadOverPruned
      <4>2. /\ batch' = [batch EXCEPT ![c] = Page(cursor[c])]
            /\ pc' = [pc EXCEPT ![c] = IF Page(cursor[c]) = {} THEN "wait" ELSE "handle"]
        BY <1>9, <3>2 DEF Read
      <4> QED
        BY <4>1, <4>2 DEF TypeInv, TypeOK
    <3> QED
      BY <3>1, <3>2
  <2>3. pc'[c] = "handle" =>
            /\ batch'[c] # {}
            /\ batch'[c] = {h \in hist : cursor'[c] < h.seq /\ h.seq <= MaxSeq(batch'[c])}
    <3>1. LogFinite /\ LogIsTail
      BY DEF DeliveryInv
    <3> QED
      BY <1>1, <2>1, <2>2, <3>1, PageWhole
  <2>4. Reached(c)' = Reached(c)
    BY <2>1, <2>2 DEF Reached
  <2> QED
    BY <1>2, <1>4, <1>5, <1>6, <2>1, <2>2, <2>3, <2>4, Moved
<1>10. ASSUME Handle(c)
       PROVE  PointsKnown' /\ PagesWhole' /\ FromBehind' /\ NoGap'
  <2>1. /\ cursor'[c] = cursor[c] /\ from'[c] = from[c] /\ batch'[c] = batch[c]
        /\ saved'[c] = saved[c] /\ head'[c] = head[c]
        /\ pc[c] = "handle" /\ pc'[c] = "handled"
        /\ got'[c] = got[c] \cup {ev.seq : ev \in batch[c]}
    BY <1>10 DEF Handle, TypeInv, TypeOK
  <2>2. Reached(c) = cursor[c] /\ Reached(c)' = MaxSeq(batch[c])
    BY <2>1 DEF Reached
  <2>3. MaxSeq(batch[c]) \in Nat /\ cursor[c] <= MaxSeq(batch[c])
    <3>1. PICK ev \in batch[c] : cursor[c] < ev.seq /\ ev.seq <= MaxSeq(batch[c])
      BY <1>3, <2>1
    <3> QED
      BY <1>1, <3>1, BatchLast
  <2>4. {h \in hist : from[c] < h.seq /\ h.seq <= MaxSeq(batch[c])}
            = {h \in hist : from[c] < h.seq /\ h.seq <= cursor[c]} \cup batch[c]
    <3>1. /\ batch[c] \subseteq hist
          /\ \A h \in hist :
                h \in batch[c] <=> cursor[c] < h.seq /\ h.seq <= MaxSeq(batch[c])
      BY <1>3, <2>1
    <3>2. from[c] <= cursor[c]
      BY <1>4, <2>1
    <3>3. \A h \in hist :
              from[c] < h.seq /\ h.seq <= MaxSeq(batch[c])
                  <=> (from[c] < h.seq /\ h.seq <= cursor[c]) \/ h \in batch[c]
      BY <1>1, <2>3, <3>1, <3>2
    <3> QED
      BY <3>1, <3>3
  <2>5. got'[c] = {ev.seq : ev \in {h \in hist : from[c] < h.seq /\ h.seq <= Reached(c)'}}
    BY <1>4, <2>1, <2>2, <2>4
  <2> QED
    BY <1>2, <1>3, <1>4, <1>5, <1>6, <2>1, <2>5, Moved
<1>11. ASSUME Advance(c)
       PROVE  PointsKnown' /\ PagesWhole' /\ FromBehind' /\ NoGap'
  <2>1. /\ cursor'[c] = MaxSeq(batch[c]) /\ saved'[c] = MaxSeq(batch[c])
        /\ from'[c] = from[c] /\ got'[c] = got[c] /\ head'[c] = head[c]
        /\ pc[c] = "handled" /\ pc'[c] \in {"read", "wait"}
    BY <1>11 DEF Advance, BatchEnd, TypeInv, TypeOK
  <2>2. Reached(c) = MaxSeq(batch[c]) /\ Reached(c)' = MaxSeq(batch[c])
    BY <2>1 DEF Reached
  <2>3. Known(MaxSeq(batch[c])) /\ MaxSeq(batch[c]) \in Nat
    BY <2>1, ReachedKnown
  <2>4. from[c] <= MaxSeq(batch[c])
    <3>1. PICK ev \in batch[c] : cursor[c] < ev.seq /\ ev.seq <= MaxSeq(batch[c])
      BY <1>3, <2>1
    <3>2. ev.seq \in Nat
      BY BatchLast
    <3> QED
      BY <1>1, <1>4, <2>1, <2>3, <3>1, <3>2
  <2> QED
    BY <1>2, <1>4, <1>5, <1>6, <2>1, <2>2, <2>3, <2>4, Moved
<1>12. ASSUME Wake(c)
       PROVE  PointsKnown' /\ PagesWhole' /\ FromBehind' /\ NoGap'
  <2>1. /\ cursor'[c] = cursor[c] /\ from'[c] = from[c] /\ got'[c] = got[c]
        /\ saved'[c] = saved[c] /\ head'[c] = head[c]
        /\ pc[c] = "wait" /\ pc'[c] = "read"
    BY <1>12 DEF Wake, TypeInv, TypeOK
  <2>2. Reached(c)' = Reached(c)
    BY <2>1 DEF Reached
  <2> QED
    BY <1>2, <1>4, <1>5, <1>6, <2>1, <2>2, Moved
<1>13. ASSUME Stop(c)
       PROVE  PointsKnown' /\ PagesWhole' /\ FromBehind' /\ NoGap'
  <2>1. /\ cursor'[c] = cursor[c] /\ saved'[c] = saved[c] /\ head'[c] = 0
        /\ pc'[c] = "off"
    BY <1>13 DEF Stop, TypeInv, TypeOK
  <2>2. Known(head'[c])
    BY <2>1 DEF Known
  <2> QED
    BY <1>2, <1>5, <1>6, <2>1, <2>2, Moved
<1>14. ASSUME ReadMaxSeq(c)
       PROVE  PointsKnown' /\ PagesWhole' /\ FromBehind' /\ NoGap'
  <2>1. /\ cursor'[c] = cursor[c] /\ from'[c] = from[c] /\ got'[c] = got[c]
        /\ saved'[c] = saved[c] /\ head'[c] = MaxSeq(log)
        /\ pc[c] = "pruned" /\ pc'[c] = "head"
    BY <1>14 DEF ReadMaxSeq, TableHead, TypeInv, TypeOK
  <2>2. Reached(c)' = Reached(c)
    BY <2>1 DEF Reached
  <2>3. Known(MaxSeq(log))
    <3>1. log \in SUBSET Row /\ \A ev \in log : ev.seq <= rid + seqgen
      BY DEF TypeInv, TypeOK, SeqsBounded
    <3>2. /\ MaxSeq(log) \in Nat
          /\ MaxSeq(log) # 0 => \E ev \in log : ev.seq = MaxSeq(log)
      BY <3>1, MaxSeqInState
    <3>3. log \subseteq hist
      BY DEF DeliveryInv, LogIsTail
    <3> QED
      BY <3>2, <3>3 DEF Known
  <2> QED
    BY <1>2, <1>4, <1>5, <1>6, <2>1, <2>2, <2>3, Moved
<1>15. ASSUME ReadPruneMark(c)
       PROVE  PointsKnown' /\ PagesWhole' /\ FromBehind' /\ NoGap'
  <2>1. /\ cursor'[c] = cursor[c] /\ from'[c] = from[c] /\ got'[c] = got[c]
        /\ saved'[c] = saved[c]
        /\ head'[c] = IF pruned > head[c] THEN pruned ELSE head[c]
        /\ pc[c] = "head" /\ pc'[c] = "rebuild"
    BY <1>15 DEF ReadPruneMark, TypeInv, TypeOK
  <2>2. Reached(c)' = Reached(c)
    BY <2>1 DEF Reached
  <2>3. Known(head'[c])
    BY <1>1, <1>2, <2>1 DEF Known
  <2> QED
    BY <1>2, <1>4, <1>5, <1>6, <2>1, <2>2, <2>3, Moved
<1>16. ASSUME Rebuild(c)
       PROVE  PointsKnown' /\ PagesWhole' /\ FromBehind' /\ NoGap'
  <2>1. /\ cursor'[c] = head[c] /\ from'[c] = head[c] /\ saved'[c] = head[c]
        /\ got'[c] = {} /\ head'[c] = 0
        /\ pc'[c] = "read"
    BY <1>16 DEF Rebuild, TypeInv, TypeOK
  <2>2. Reached(c)' = head[c]
    BY <2>1 DEF Reached
  <2>3. {ev.seq : ev \in {h \in hist : from'[c] < h.seq /\ h.seq <= Reached(c)'}} = {}
    BY <1>1, <1>7, <2>1, <2>2
  <2>4. Known(head'[c])
    BY <2>1 DEF Known
  <2>5. from'[c] <= cursor'[c] /\ Known(cursor'[c]) /\ Known(saved'[c])
    BY <1>1, <1>2, <2>1
  <2> QED
    BY <1>5, <1>6, <2>1, <2>3, <2>4, <2>5, Moved
<1> QED
  BY <1>8, <1>9, <1>10, <1>11, <1>12, <1>13, <1>14, <1>15, <1>16
     DEF ConsumerStep, SubscriptionStep

-----------------------------------------------------------------------------
(* The theorems *)

\* Every step of writers, pruning and subscriptions keeps the delivery invariant.
LEMMA DeliveryStep ==
    TypeInv /\ OrderInv /\ DeliveryInv /\ [Next]_vars => DeliveryInv'
<1> SUFFICES ASSUME TypeInv, OrderInv, DeliveryInv, [Next]_vars PROVE DeliveryInv'
  OBVIOUS
<1>1. TypeInv'
  BY TypeStep
<1>2. LogFinite' /\ LogIsTail' /\ hist \subseteq hist' /\ pruned <= pruned'
  BY LogStep
<1>3. ASSUME UNCHANGED consumerVars
      PROVE  PointsKnown' /\ PagesWhole' /\ FromBehind' /\ NoGap'
  BY <1>1, <1>2, <1>3, GrowthStep, QuietStep
<1>4. CASE \E w \in Writers : WriterStep(w)
  <2>1. UNCHANGED consumerVars
    BY <1>4 DEF WriterStep, Write, AssignSeq, Commit, Abort
  <2> QED
    BY <1>2, <1>3, <2>1 DEF DeliveryInv
<1>5. CASE PruneChanges
  <2>1. UNCHANGED consumerVars
    BY <1>5 DEF PruneChanges
  <2> QED
    BY <1>2, <1>3, <2>1 DEF DeliveryInv
<1>6. CASE UNCHANGED vars
  <2>1. UNCHANGED consumerVars
    BY <1>6 DEF vars
  <2> QED
    BY <1>2, <1>3, <2>1 DEF DeliveryInv
<1>7. CASE \E c \in Consumers : ConsumerStep(c)
  <2>1. PICK c \in Consumers : ConsumerStep(c)
    BY <1>7
  <2>2. PointsKnown' /\ PagesWhole' /\ FromBehind' /\ NoGap'
    BY <1>1, <2>1, ConsumerMoves
  <2> QED
    BY <1>2, <2>2 DEF DeliveryInv
<1> QED
  BY <1>4, <1>5, <1>6, <1>7 DEF Next

\* The delivery invariant holds in every state of every behaviour.
LEMMA DeliveryAlways == Spec => [](TypeInv /\ DeliveryInv)
<1>1. Init => TypeInv /\ OrderInv /\ DeliveryInv
  BY TypeInit, OrderInit, DeliveryInit
<1>2. TypeInv /\ OrderInv /\ DeliveryInv /\ [Next]_vars
          => TypeInv' /\ OrderInv' /\ DeliveryInv'
  BY TypeStep, OrderStep, DeliveryStep
<1> QED
  BY <1>1, <1>2, PTL DEF Spec

(* A running subscription has handled every event committed between the     *)
(* cursor it began at and the point it has reached, whatever is committed,  *)
(* rolled back or pruned meanwhile.                                         *)
THEOREM NoGapHolds == Spec => []NoGap
<1>1. DeliveryInv => NoGap
  BY DEF DeliveryInv
<1> QED
  BY <1>1, DeliveryAlways, PTL

(* changefeed.go:1104: within one subscription no event is handled twice.   *)
THEOREM NoRepeatHolds == Spec => []NoRepeat
<1>1. TypeInv /\ DeliveryInv => NoRepeat
  <2> SUFFICES ASSUME TypeInv, DeliveryInv, NEW c \in Consumers, pc[c] = "handle",
                      NEW ev \in batch[c], NEW n \in got[c]
               PROVE  n < ev.seq
    BY DEF NoRepeat
  <2>1. ev \in hist /\ cursor[c] < ev.seq
    BY DEF DeliveryInv, PagesWhole
  <2>2. PICK h \in hist : n = h.seq /\ h.seq <= Reached(c)
    BY DEF DeliveryInv, NoGap
  <2>3. Reached(c) = cursor[c]
    BY DEF Reached
  <2>4. cursor[c] \in Nat /\ ev.seq \in Nat /\ h.seq \in Nat
    BY <2>1 DEF TypeInv, TypeOK, Row
  <2> QED
    BY <2>1, <2>2, <2>3, <2>4
<1> QED
  BY <1>1, DeliveryAlways, PTL

-----------------------------------------------------------------------------
(* A consumer's state *)

AsOf(n) == {ev \in hist : ev.seq <= n}

SavedIsCursor == \A c \in Consumers : pc[c] # "off" => cursor[c] = saved[c]

(* How far a consumer's state is known to have come: handling a batch takes *)
(* it to the end of the batch, before that is saved.                        *)
Applied(c) == IF pc[c] = "handled" THEN MaxSeq(batch[c]) ELSE saved[c]

(* Each row of a consumer's state is as of some point at or after what it   *)
(* has applied: after a crash between handling and saving it is ahead.      *)
ReplicaReached ==
    \A c \in Consumers, e \in Entities :
        \E n \in Nat : /\ Known(n) /\ Applied(c) <= n
                       /\ LastSays(AsOf(n), e, replica[c][e])

ReplicaInv == SavedIsCursor /\ ReplicaReached

(* Some event about a row is the newest of a bounded set. *)
LEMMA NewestExists ==
    ASSUME NEW S \in SUBSET Row, NEW b \in Nat, \A ev \in S : ev.seq <= b,
           NEW e, \E ev \in S : ev.id = e
    PROVE  \E ev \in S : ev.id = e /\ \A other \in S : other.id = e => other.seq <= ev.seq
<1> DEFINE own == {ev \in S : ev.id = e}
<1>1. own \in SUBSET Row /\ own # {} /\ \A ev \in own : ev.seq <= b /\ ev.seq \in Nat
  BY DEF Row
<1>2. /\ MaxSeq(own) \in Nat
      /\ \A ev \in own : ev.seq <= MaxSeq(own)
      /\ MaxSeq(own) # 0 => \E ev \in own : ev.seq = MaxSeq(own)
  <2> HIDE DEF own
  <2> QED BY <1>1, MaxSeqIsMax
<1>3. \E ev \in own : ev.seq = MaxSeq(own)
  <2> HIDE DEF own
  <2>1. CASE MaxSeq(own) = 0
    <3>1. PICK ev \in own : TRUE
      BY <1>1
    <3> QED
      BY <1>1, <1>2, <2>1, <3>1
  <2> QED
    BY <1>2, <2>1
<1> QED
  BY <1>2, <1>3

(* Events with distinct seqs say one thing of a row. *)
LEMMA LastSaysOne ==
    ASSUME NEW S \in SUBSET Row, \A a, b \in S : a.seq = b.seq => a = b,
           NEW e, NEW v, NEW u, LastSays(S, e, v), LastSays(S, e, u)
    PROVE  v = u
<1>1. \A ev \in S : ev.seq \in Nat
  BY DEF Row
<1>2. ASSUME NEW x \in S, NEW y \in S, x.id = e, y.id = e,
             \A other \in S : other.id = e => other.seq <= x.seq /\ other.seq <= y.seq
      PROVE  x = y
  <2>1. x.seq <= y.seq /\ y.seq <= x.seq
    BY <1>2
  <2>2. x.seq = y.seq
    BY <1>1, <2>1
  <2> QED
    BY <2>2
<1> QED
  BY <1>2 DEF LastSays

(* What has been applied lies at or after what is saved. *)
LEMMA AppliedAhead ==
    ASSUME TypeInv, DeliveryInv, SavedIsCursor, NEW c \in Consumers
    PROVE  Applied(c) \in Nat /\ saved[c] <= Applied(c)
<1>1. saved[c] \in Nat
  BY DEF TypeInv, TypeOK
<1>2. CASE pc[c] = "handled"
  <2>1. PICK ev \in batch[c] : cursor[c] < ev.seq /\ ev.seq <= MaxSeq(batch[c])
    BY <1>2 DEF DeliveryInv, PagesWhole
  <2>2. ev.seq \in Nat /\ MaxSeq(batch[c]) \in Nat
    BY BatchLast
  <2>3. cursor[c] = saved[c]
    BY <1>2 DEF SavedIsCursor
  <2> QED
    BY <1>1, <1>2, <2>1, <2>2, <2>3 DEF Applied
<1> QED
  BY <1>1, <1>2 DEF Applied

\* The replicas that start empty agree with the empty history.
LEMMA ReplicaInit == Init => ReplicaInv
<1> SUFFICES ASSUME Init PROVE ReplicaInv
  OBVIOUS
<1>1. /\ \A c \in Consumers : pc[c] = "off" /\ saved[c] = 0
      /\ \A c \in Consumers, e \in Entities : replica[c][e] = Absent
      /\ hist = {}
  BY DEF Init
<1>2. SavedIsCursor
  BY <1>1 DEF SavedIsCursor
<1>3. ASSUME NEW c \in Consumers, NEW e \in Entities
      PROVE  Known(0) /\ Applied(c) <= 0 /\ LastSays(AsOf(0), e, replica[c][e])
  BY <1>1 DEF Known, Applied, LastSays, AsOf
<1> QED
  BY <1>2, <1>3 DEF ReplicaInv, ReplicaReached

(* Whatever is committed later lies after the point a state is as of. *)
LEMMA ReplicaQuiet ==
    ASSUME TypeInv, TypeInv', ReplicaInv, UNCHANGED consumerVars,
           hist \subseteq hist', pruned <= pruned', [GrowsAtEnd]_vars
    PROVE  ReplicaInv'
<1>1. UNCHANGED <<pc, cursor, saved, batch, replica>>
  BY DEF consumerVars
<1>2. SavedIsCursor'
  BY <1>1 DEF ReplicaInv, SavedIsCursor
<1>3. \A c \in Consumers : Applied(c)' = Applied(c)
  BY <1>1 DEF Applied
<1>4. ASSUME NEW c \in Consumers, NEW e \in Entities
      PROVE  \E n \in Nat : /\ Known(n)' /\ Applied(c)' <= n
                            /\ LastSays(AsOf(n)', e, replica'[c][e])
  <2>1. PICK n \in Nat : /\ Known(n) /\ Applied(c) <= n
                         /\ LastSays(AsOf(n), e, replica[c][e])
    BY DEF ReplicaInv, ReplicaReached
  <2>2. \A ev \in hist' \ hist : n < ev.seq
    <3>1. hist' # hist => GrowsAtEnd
      BY DEF vars, writerVars
    <3> QED
      BY <2>1, <3>1, NewAfterKnown
  <2>3. \A ev \in hist' : ev.seq \in Nat
    BY DEF TypeInv, TypeOK, Row
  <2>4. AsOf(n)' = AsOf(n)
    BY <2>2, <2>3 DEF AsOf
  <2>5. Known(n)'
    BY <2>1, KnownStays DEF Known
  <2> QED
    BY <1>1, <1>3, <2>1, <2>4, <2>5
<1> QED
  BY <1>2, <1>4 DEF ReplicaInv, ReplicaReached, LastSays

(* One consumer moves, and each row of its state is as of a point it has    *)
(* applied.                                                                 *)
LEMMA ReplicaMoved ==
    ASSUME ReplicaInv, UNCHANGED <<hist, pruned>>, NEW c \in Consumers,
           \A d \in Consumers \ {c} :
               /\ pc'[d] = pc[d] /\ cursor'[d] = cursor[d] /\ saved'[d] = saved[d]
               /\ batch'[d] = batch[d] /\ replica'[d] = replica[d],
           pc'[c] # "off" => cursor'[c] = saved'[c],
           \A e \in Entities :
               \E n \in Nat : /\ Known(n) /\ Applied(c)' <= n
                              /\ LastSays(AsOf(n), e, replica'[c][e])
    PROVE  ReplicaInv'
<1>1. SavedIsCursor'
  BY DEF ReplicaInv, SavedIsCursor
<1>2. \A d \in Consumers \ {c} : Applied(d)' = Applied(d)
  BY DEF Applied
<1>3. \A n : Known(n)' = Known(n) /\ AsOf(n)' = AsOf(n)
  BY DEF Known, AsOf
<1>4. ASSUME NEW d \in Consumers, NEW e \in Entities
      PROVE  \E n \in Nat : /\ Known(n) /\ Applied(d)' <= n
                            /\ LastSays(AsOf(n), e, replica'[d][e])
  BY <1>2 DEF ReplicaInv, ReplicaReached
<1>5. ReplicaReached'
  BY <1>3, <1>4 DEF ReplicaReached, LastSays
<1> QED
  BY <1>1, <1>5 DEF ReplicaInv

\* An entity with an event in the batch has what the newest of them says.
LEMMA ReplayTold ==
    ASSUME NEW S \in SUBSET Row, \A a, b \in S : a.seq = b.seq => a = b,
           NEW state, NEW e \in Entities, NEW v, LastSays(S, e, v),
           NEW ev \in S, ev.id = e
    PROVE  Replay(state, S)[e] = v
<1>1. {x \in S : x.id = e} # {}
  OBVIOUS
<1>2. Replay(state, S)[e] = IF {x \in S : x.id = e} = {} THEN state[e] ELSE v
  BY ReplayLast, ZenonT(30)
<1> QED
  BY <1>1, <1>2

(* Handling a batch: the rows it speaks of become what they were at its     *)
(* end; the others did not change on the way there.                         *)
LEMMA ReplicaHandles ==
    ASSUME TypeInv, HistoryInv, DeliveryInv, ReplicaInv, NEW c \in Consumers, Handle(c),
           NEW e \in Entities
    PROVE  \E n \in Nat : /\ Known(n) /\ MaxSeq(batch[c]) <= n
                          /\ LastSays(AsOf(n), e, replica'[c][e])
<1> DEFINE end == MaxSeq(batch[c])
<1>1. /\ pc[c] = "handle" /\ replica'[c] = Replay(replica[c], batch[c])
      /\ cursor[c] = saved[c] /\ Applied(c) = cursor[c]
  BY DEF Handle, TypeInv, TypeOK, ReplicaInv, SavedIsCursor, Applied
<1>2. /\ batch[c] \in SUBSET Row /\ end \in Nat /\ Known(end)
      /\ \A ev \in batch[c] : ev.seq \in Nat /\ ev.seq <= end
  BY <1>1, BatchLast, ReachedKnown
<1>3. /\ batch[c] \subseteq hist
      /\ \A h \in hist : h \in batch[c] <=> cursor[c] < h.seq /\ h.seq <= end
  BY <1>1 DEF DeliveryInv, PagesWhole
<1>4. cursor[c] \in Nat /\ \A h \in hist : h.seq \in Nat
  BY DEF TypeInv, TypeOK, Row
<1>5. \A a, b \in batch[c] : a.seq = b.seq => a = b
  BY <1>3 DEF HistoryInv, SeqsDistinct
<1>6. PICK n \in Nat : /\ Known(n) /\ cursor[c] <= n
                       /\ LastSays(AsOf(n), e, replica[c][e])
  BY <1>1 DEF ReplicaInv, ReplicaReached
<1> HIDE DEF end
<1>7. CASE \E ev \in batch[c] : ev.id = e
  <2>1. PICK ev \in batch[c] :
            ev.id = e /\ \A other \in batch[c] : other.id = e => other.seq <= ev.seq
    BY <1>2, <1>7, NewestExists
  <2>2. LastSays(batch[c], e, ev.after)
    BY <2>1 DEF LastSays
  <2>3. Replay(replica[c], batch[c])[e] = ev.after
    <3>1. batch[c] \in SUBSET Row /\ e \in Entities
      BY <1>2
    <3> QED
      BY ONLY <1>5, <2>1, <2>2, <3>1, ReplayTold
  <2>4. cursor[c] < ev.seq /\ ev \in AsOf(end)
    BY <1>2, <1>3, <2>1 DEF AsOf
  <2>5. ASSUME NEW other \in AsOf(end), other.id = e
        PROVE  other.seq <= ev.seq
    <3>1. other \in hist /\ other.seq <= end
      BY DEF AsOf
    <3>2. other.seq \in Nat /\ ev.seq \in Nat
      BY <1>2, <1>4, <3>1
    <3> QED
      BY <1>3, <1>4, <2>1, <2>4, <2>5, <3>1, <3>2
  <2>6. LastSays(AsOf(end), e, ev.after)
    BY <2>1, <2>4, <2>5 DEF LastSays
  <2>7. end <= end
    BY <1>2
  <2> QED
    BY <1>1, <1>2, <2>3, <2>6, <2>7 DEF end
<1>8. CASE ~\E ev \in batch[c] : ev.id = e
  <2>1. replica'[c][e] = replica[c][e]
    BY <1>1, <1>8 DEF Replay
  <2>2. CASE end <= n
    BY <1>6, <2>1, <2>2 DEF end
  <2>3. CASE n < end
    <3>1. {ev \in AsOf(n) : ev.id = e} = {ev \in AsOf(end) : ev.id = e}
      BY <1>2, <1>3, <1>4, <1>6, <1>8, <2>3 DEF AsOf
    <3>2. LastSays(AsOf(end), e, replica[c][e])
      BY <1>6, <3>1 DEF LastSays
    <3>3. end <= end
      BY <1>2
    <3> QED
      BY <1>2, <2>1, <3>2, <3>3 DEF end
  <2> QED
    BY <1>2, <2>2, <2>3
<1> QED
  BY <1>7, <1>8

(* A rebuilt state is as of the end of history, which no head read before   *)
(* lies beyond.                                                             *)
LEMMA ReplicaRebuilds ==
    ASSUME TypeInv, OrderInv, HistoryInv, DeliveryInv, NEW c \in Consumers, NEW e \in Entities
    PROVE  \E n \in Nat : /\ Known(n) /\ head[c] <= n
                          /\ LastSays(AsOf(n), e, rows[e])
<1> DEFINE n == MaxSeq(log)
<1>1. /\ n \in Nat
      /\ \A old \in hist : old.seq <= n
      /\ n # 0 => \E ev \in log : ev.seq = n
  BY HeadCoversHist
<1>2. /\ head[c] \in Nat /\ pruned \in Nat
      /\ \A old \in hist : old.seq \in Nat
  BY DEF TypeInv, TypeOK, Row
<1>3. AsOf(n) = hist
  BY <1>1 DEF AsOf
<1>4. LastSays(AsOf(n), e, rows[e])
  BY <1>3 DEF HistoryInv, RowsExplained
<1>5. log \subseteq hist
  BY DEF OrderInv, NewestKept
<1>6. Known(n)
  BY <1>1, <1>5 DEF Known
<1> HIDE DEF n
<1>7. pruned <= n
  BY <1>1, <1>2 DEF OrderInv, MarkBehind
<1>8. Known(head[c])
  BY DEF DeliveryInv, PointsKnown
<1>9. head[c] <= n
  BY <1>1, <1>2, <1>7, <1>8 DEF Known
<1> QED
  BY <1>1, <1>4, <1>6, <1>9

\* Applying a page, or rebuilding after a gap, leaves a replica at a state the log has been in.
LEMMA ReplicaConsumer ==
    ASSUME TypeInv, OrderInv, HistoryInv, DeliveryInv, ReplicaInv,
           NEW c \in Consumers, ConsumerStep(c)
    PROVE  ReplicaInv'
<1> USE ChangeFeedAssumption
<1>1. UNCHANGED <<hist, pruned>>
  BY DEF ConsumerStep, SubscriptionStep, Subscribe, Read, Handle, Advance, Wake, Stop,
         ReadMaxSeq, ReadPruneMark, Rebuild, writerVars
<1>2. \A d \in Consumers \ {c} :
          /\ pc'[d] = pc[d] /\ cursor'[d] = cursor[d] /\ saved'[d] = saved[d]
          /\ batch'[d] = batch[d] /\ replica'[d] = replica[d]
  BY DEF ConsumerStep, SubscriptionStep, Subscribe, Read, Handle, Advance, Wake, Stop,
         ReadMaxSeq, ReadPruneMark, Rebuild, TypeInv, TypeOK
<1>3. /\ pc[c] # "off" => cursor[c] = saved[c]
      /\ \A e \in Entities :
            \E n \in Nat : /\ Known(n) /\ Applied(c) <= n
                           /\ LastSays(AsOf(n), e, replica[c][e])
  BY DEF ReplicaInv, SavedIsCursor, ReplicaReached
<1>4. ASSUME replica'[c] = replica[c], pc'[c] # "off" => cursor'[c] = saved'[c],
             Applied(c)' \in Nat, Applied(c)' <= Applied(c)
      PROVE  ReplicaInv'
  <2>1. Applied(c) \in Nat
    BY AppliedAhead DEF ReplicaInv
  <2>2. ASSUME NEW e \in Entities
        PROVE  \E n \in Nat : /\ Known(n) /\ Applied(c)' <= n
                              /\ LastSays(AsOf(n), e, replica'[c][e])
    <3>1. PICK n \in Nat : /\ Known(n) /\ Applied(c) <= n
                           /\ LastSays(AsOf(n), e, replica[c][e])
      BY <1>3
    <3>2. Applied(c)' <= n
      BY <1>4, <2>1, <3>1
    <3> QED
      BY <1>4, <3>1, <3>2
  <2> QED
    BY <1>1, <1>2, <1>4, <2>2, ReplicaMoved
<1>5. /\ saved[c] \in Nat /\ Applied(c) \in Nat /\ saved[c] <= Applied(c)
  BY AppliedAhead DEF ReplicaInv, TypeInv, TypeOK
<1>6. ASSUME Subscribe(c)
      PROVE  ReplicaInv'
  <2>1. /\ cursor'[c] = saved[c] /\ saved'[c] = saved[c] /\ pc'[c] = "read"
        /\ replica'[c] = replica[c]
    BY <1>6 DEF Subscribe, TypeInv, TypeOK
  <2> QED
    BY <1>4, <1>5, <2>1 DEF Applied
<1>7. ASSUME Read(c) \/ Wake(c) \/ ReadMaxSeq(c) \/ ReadPruneMark(c)
      PROVE  ReplicaInv'
  <2>1. /\ cursor'[c] = cursor[c] /\ saved'[c] = saved[c]
        /\ replica'[c] = replica[c] /\ pc[c] # "off" /\ pc'[c] # "handled"
    <3>1. ASSUME Read(c)
          PROVE  pc'[c] \in {"pruned", "wait", "handle"}
      BY <3>1 DEF Read, TypeInv, TypeOK
    <3> QED
      BY <1>7, <3>1 DEF Read, Wake, ReadMaxSeq, ReadPruneMark, TypeInv, TypeOK
  <2> QED
    BY <1>3, <1>4, <1>5, <2>1 DEF Applied
<1>8. ASSUME Stop(c)
      PROVE  ReplicaInv'
  <2>1. saved'[c] = saved[c] /\ replica'[c] = replica[c] /\ pc'[c] = "off"
    BY <1>8 DEF Stop, TypeInv, TypeOK
  <2> QED
    BY <1>4, <1>5, <2>1 DEF Applied
<1>9. ASSUME Handle(c)
      PROVE  ReplicaInv'
  <2>1. /\ cursor'[c] = cursor[c] /\ saved'[c] = saved[c] /\ batch'[c] = batch[c]
        /\ pc[c] = "handle" /\ pc'[c] = "handled"
    BY <1>9 DEF Handle, TypeInv, TypeOK
  <2>2. Applied(c)' = MaxSeq(batch[c])
    BY <2>1 DEF Applied
  <2>3. \A e \in Entities :
            \E n \in Nat : /\ Known(n) /\ Applied(c)' <= n
                           /\ LastSays(AsOf(n), e, replica'[c][e])
    BY <1>9, <2>2, ReplicaHandles
  <2> QED
    BY <1>1, <1>2, <1>3, <2>1, <2>3, ReplicaMoved
<1>10. ASSUME Advance(c)
       PROVE  ReplicaInv'
  <2>1. /\ cursor'[c] = saved'[c] /\ saved'[c] = MaxSeq(batch[c])
        /\ replica'[c] = replica[c]
        /\ pc[c] = "handled" /\ pc'[c] # "handled"
    BY <1>10 DEF Advance, BatchEnd, TypeInv, TypeOK
  <2>2. Applied(c)' = Applied(c)
    BY <2>1 DEF Applied
  <2> QED
    BY <1>4, <1>5, <2>1, <2>2
<1>11. ASSUME Rebuild(c)
       PROVE  ReplicaInv'
  <2>1. /\ cursor'[c] = head[c] /\ saved'[c] = head[c] /\ pc'[c] = "read"
        /\ replica'[c] = rows
    BY <1>11 DEF Rebuild, TypeInv, TypeOK
  <2>2. Applied(c)' = head[c]
    BY <2>1 DEF Applied
  <2>3. \A e \in Entities :
            \E n \in Nat : /\ Known(n) /\ Applied(c)' <= n
                           /\ LastSays(AsOf(n), e, replica'[c][e])
    BY <2>1, <2>2, ReplicaRebuilds
  <2> QED
    BY <1>1, <1>2, <2>1, <2>3, ReplicaMoved
<1> QED
  BY <1>6, <1>7, <1>8, <1>9, <1>10, <1>11 DEF ConsumerStep, SubscriptionStep

\* Every step keeps the invariant that a replica stands at a state of the log.
LEMMA ReplicaStep ==
    TypeInv /\ OrderInv /\ HistoryInv /\ DeliveryInv /\ ReplicaInv /\ [Next]_vars => ReplicaInv'
<1> SUFFICES ASSUME TypeInv, OrderInv, HistoryInv, DeliveryInv, ReplicaInv, [Next]_vars
             PROVE  ReplicaInv'
  OBVIOUS
<1>1. ASSUME UNCHANGED consumerVars
      PROVE  ReplicaInv'
  <2>1. TypeInv' /\ hist \subseteq hist' /\ pruned <= pruned' /\ [GrowsAtEnd]_vars
    BY TypeStep, LogStep, GrowthStep
  <2> QED
    BY <1>1, <2>1, ReplicaQuiet
<1>2. ASSUME \E w \in Writers : WriterStep(w)
      PROVE  UNCHANGED consumerVars
  BY <1>2 DEF WriterStep, Write, AssignSeq, Commit, Abort
<1>3. ASSUME PruneChanges \/ UNCHANGED vars
      PROVE  UNCHANGED consumerVars
  BY <1>3 DEF PruneChanges, vars
<1>4. ASSUME NEW c \in Consumers, ConsumerStep(c)
      PROVE  ReplicaInv'
  BY <1>4, ReplicaConsumer
<1> QED
  BY <1>1, <1>2, <1>3, <1>4 DEF Next

(* A row of a consumer's state is right once the last event about it lies   *)
(* behind the saved cursor: through crashes between handling and saving,    *)
(* batches handled again, pruning in front of the cursor, and a head read   *)
(* in two statements before the state it stands for.                        *)
THEOREM ReplicaRightHolds == Spec => []ReplicaRight
<1>1. TypeInv /\ HistoryInv /\ DeliveryInv /\ ReplicaInv => ReplicaRight
  <2> SUFFICES ASSUME TypeInv, HistoryInv, DeliveryInv, ReplicaInv,
                      NEW c \in Consumers, NEW e \in Entities,
                      \A ev \in hist : ev.id = e => ev.seq <= saved[c]
               PROVE  replica[c][e] = rows[e]
    BY DEF ReplicaRight
  <2>1. PICK n \in Nat : Applied(c) <= n /\ LastSays(AsOf(n), e, replica[c][e])
    BY DEF ReplicaInv, ReplicaReached
  <2>2. Applied(c) \in Nat /\ saved[c] \in Nat /\ saved[c] <= Applied(c)
    BY AppliedAhead DEF ReplicaInv, TypeInv, TypeOK
  <2>3. \A ev \in hist : ev.seq \in Nat
    BY DEF TypeInv, TypeOK, Row
  <2>4. {ev \in AsOf(n) : ev.id = e} = {ev \in hist : ev.id = e}
    BY <2>1, <2>2, <2>3 DEF AsOf
  <2>5. LastSays(hist, e, replica[c][e]) /\ LastSays(hist, e, rows[e])
    BY <2>1, <2>4 DEF LastSays, HistoryInv, RowsExplained
  <2>6. hist \in SUBSET Row /\ \A a, b \in hist : a.seq = b.seq => a = b
    BY DEF TypeInv, TypeOK, HistoryInv, SeqsDistinct
  <2> QED
    BY <2>5, <2>6, LastSaysOne
<1>2. Init => TypeInv /\ OrderInv /\ HistoryInv /\ DeliveryInv /\ ReplicaInv
  BY TypeInit, OrderInit, HistoryInit, DeliveryInit, ReplicaInit
<1>3. TypeInv /\ OrderInv /\ HistoryInv /\ DeliveryInv /\ ReplicaInv /\ [Next]_vars
          => TypeInv' /\ OrderInv' /\ HistoryInv' /\ DeliveryInv' /\ ReplicaInv'
  BY TypeStep, OrderStep, HistoryStep, DeliveryStep, ReplicaStep
<1> QED
  BY <1>1, <1>2, <1>3, PTL DEF Spec

-----------------------------------------------------------------------------
(***************************************************************************)
(* Proof that ChangeFeed implements CommittedLog, for any number of        *)
(* writers, consumers, rows and events and any batch size.                 *)
(*                                                                         *)
(* The argument: the numbers of the history, put in order, are the         *)
(* committed sequence; what lies between two numbers of the history is a   *)
(* contiguous stretch of it, so a page a consumer handles is its next      *)
(* stretch (NoGap, PagesWhole), and a commit, which lies after everything  *)
(* (PrefixGrows), appends.  Events may be counted by their numbers because *)
(* no number is given out twice (SeqsDistinct).                            *)
(***************************************************************************)

(* Putting a finite set of numbers in order *)

(* The position of a number is a count, and grows with the number. *)
LEMMA PositionGrows ==
    ASSUME NEW S \in SUBSET Nat, IsFiniteSet(S), NEW a \in Nat, NEW b \in Nat, a <= b
    PROVE  /\ Position(S, a) \in 0..Cardinality(S)
           /\ Position(S, b) \in 0..Cardinality(S)
           /\ Position(S, a) <= Position(S, b)
<1> DEFINE upto(n) == {m \in S : m <= n}
<1>1. upto(a) \in SUBSET upto(b) /\ upto(b) \in SUBSET S
  <2>1. \A m \in S : m \in Nat /\ (m <= a => m <= b)
    OBVIOUS
  <2> QED
    BY <2>1
<1>2. /\ IsFiniteSet(upto(b)) /\ Cardinality(upto(b)) <= Cardinality(S)
      /\ IsFiniteSet(upto(a)) /\ Cardinality(upto(a)) <= Cardinality(upto(b))
  <2> HIDE DEF upto
  <2> QED BY <1>1, FS_Subset
<1>3. /\ Cardinality(S) \in Nat /\ Cardinality(upto(a)) \in Nat
      /\ Cardinality(upto(b)) \in Nat
  <2> HIDE DEF upto
  <2> QED BY <1>2, FS_CardinalityType
<1>4. Position(S, a) = Cardinality(upto(a)) /\ Position(S, b) = Cardinality(upto(b))
  BY DEF Position
<1> HIDE DEF upto
<1> QED
  BY <1>2, <1>3, <1>4

(* A member has a position of its own. *)
LEMMA PositionMember ==
    ASSUME NEW S \in SUBSET Nat, IsFiniteSet(S), NEW a \in Nat, NEW b \in S, a < b
    PROVE  Position(S, a) < Position(S, b)
<1> DEFINE upto(n) == {m \in S : m <= n}
<1>1. b \in Nat
  OBVIOUS
<1>2. upto(a) \in SUBSET upto(b) /\ upto(b) \in SUBSET S /\ b \in upto(b) /\ b \notin upto(a)
  <2>1. \A m \in S : m \in Nat /\ (m <= a => m <= b)
    BY <1>1
  <2>2. b <= b /\ ~(b <= a)
    BY <1>1
  <2> QED
    BY <2>1, <2>2
<1>3. /\ IsFiniteSet(upto(b)) /\ IsFiniteSet(upto(a))
      /\ Cardinality(upto(a)) <= Cardinality(upto(b))
      /\ Cardinality(upto(a)) # Cardinality(upto(b))
  <2> HIDE DEF upto
  <2> QED BY <1>2, FS_Subset
<1>4. Cardinality(upto(a)) \in Nat /\ Cardinality(upto(b)) \in Nat
  <2> HIDE DEF upto
  <2> QED BY <1>3, FS_CardinalityType
<1>5. Position(S, a) = Cardinality(upto(a)) /\ Position(S, b) = Cardinality(upto(b))
  BY DEF Position
<1> HIDE DEF upto
<1> QED
  BY <1>3, <1>4, <1>5

(* Every position is some member's, and only one's. *)
LEMMA PositionTaken ==
    ASSUME NEW S \in SUBSET Nat, IsFiniteSet(S)
    PROVE  /\ \A n \in S : Position(S, n) \in 1..Cardinality(S)
           /\ \A n, m \in S : Position(S, n) = Position(S, m) => n = m
           /\ \A i \in 1..Cardinality(S) : \E n \in S : Position(S, n) = i
<1> DEFINE size == Cardinality(S)
           place == [n \in S |-> Position(S, n)]
<1>1. size \in Nat
  BY FS_CardinalityType
<1>2. ASSUME NEW n \in S PROVE Position(S, n) \in 1..size
  <2>1. n \in Nat
    OBVIOUS
  <2>2. Position(S, n) \in 0..size
    BY <2>1, PositionGrows
  <2>3. Position(S, n) # 0
    <3> DEFINE upto == {m \in S : m <= n}
    <3>1. n \in upto /\ upto \in SUBSET S
      BY <2>1
    <3>2. IsFiniteSet(upto) /\ upto # {}
      <4> HIDE DEF upto
      <4> QED BY <3>1, FS_Subset
    <3>3. Cardinality(upto) # 0
      <4> HIDE DEF upto
      <4> QED BY <3>2, FS_EmptySet
    <3> QED
      BY <3>3 DEF Position
  <2> QED
    BY <1>1, <2>2, <2>3
<1>3. ASSUME NEW n \in S, NEW m \in S, Position(S, n) = Position(S, m)
      PROVE  n = m
  <2>1. n \in Nat /\ m \in Nat
    OBVIOUS
  <2>2. Position(S, n) \in Nat /\ Position(S, m) \in Nat
    BY <1>1, <1>2
  <2>3. ~(n < m) /\ ~(m < n)
    BY <1>3, <2>1, <2>2, PositionMember
  <2> QED
    BY <2>1, <2>3
<1>4. place \in Injection(S, 1..size)
  BY <1>2, <1>3 DEF Injection, IsInjective
<1>5. IsFiniteSet(1..size) /\ Cardinality(1..size) = size
  <2>1. 1 \in Int /\ size \in Int
    BY <1>1
  <2>2. IsFiniteSet(1..size) /\ Cardinality(1..size) = IF 1 > size THEN 0 ELSE size - 1 + 1
    <3> HIDE DEF size
    <3> QED BY <2>1, FS_Interval
  <2> QED
    BY <1>1, <2>2
<1>6. place \in Surjection(S, 1..size)
  <2> HIDE DEF place
  <2>1. Cardinality(S) = Cardinality(1..size)
    BY <1>5
  <2> QED BY <1>4, <1>5, <2>1, FS_Injection
<1>7. ASSUME NEW i \in 1..size PROVE \E n \in S : Position(S, n) = i
  BY <1>6 DEF Surjection
<1> QED
  BY <1>2, <1>3, <1>7

(* The ordered sequence: each member at its position. *)
LEMMA InOrder ==
    ASSUME NEW S \in SUBSET Nat, IsFiniteSet(S)
    PROVE  /\ InSeqOrder(S) \in Seq(Nat)
           /\ Cardinality(S) \in Nat /\ Len(InSeqOrder(S)) = Cardinality(S)
           /\ \A n \in S : /\ Position(S, n) \in 1..Cardinality(S)
                           /\ InSeqOrder(S)[Position(S, n)] = n
           /\ \A i \in 1..Cardinality(S) :
                  InSeqOrder(S)[i] \in S /\ Position(S, InSeqOrder(S)[i]) = i
<1> DEFINE size == Cardinality(S)
           At(i) == CHOOSE n \in S : Position(S, n) = i
<1>1. size \in Nat
  BY FS_CardinalityType
<1>2. ASSUME NEW i \in 1..size PROVE At(i) \in S /\ Position(S, At(i)) = i
  <2>1. \E n \in S : Position(S, n) = i
    BY PositionTaken
  <2> QED
    BY <2>1
<1>3. InSeqOrder(S) = [i \in 1..size |-> At(i)]
  BY DEF InSeqOrder
<1>4. \A n, m \in S : Position(S, n) = Position(S, m) => n = m
  BY PositionTaken
<1>5. \A n \in S : Position(S, n) \in 1..size
  BY PositionTaken
<1> HIDE DEF At, size
<1>6. \A i \in 1..size : InSeqOrder(S)[i] = At(i)
  BY <1>3
<1>7. InSeqOrder(S) \in [1..size -> Nat]
  BY <1>2, <1>3
<1>8. InSeqOrder(S) \in Seq(Nat) /\ Len(InSeqOrder(S)) = size
  BY <1>1, <1>7
<1>9. ASSUME NEW n \in S PROVE InSeqOrder(S)[Position(S, n)] = n
  <2>1. At(Position(S, n)) \in S /\ Position(S, At(Position(S, n))) = Position(S, n)
    BY <1>2, <1>5
  <2>2. At(Position(S, n)) = n
    BY <1>4, <2>1
  <2> QED
    BY <1>5, <1>6, <2>2
<1> QED
  BY <1>1, <1>2, <1>5, <1>6, <1>8, <1>9 DEF size

(* The members of a set past a number and not past another. *)
Between(S, a, b) == {n \in S : a < n /\ n <= b}

(* What lies between two numbers is a contiguous stretch. *)
LEMMA Stretch ==
    ASSUME NEW S \in SUBSET Nat, IsFiniteSet(S), NEW a \in Nat, NEW b \in Nat, a <= b,
           NEW T, T = Between(S, a, b)
    PROVE  /\ IsFiniteSet(T) /\ T \in SUBSET Nat
           /\ Position(S, b) = Position(S, a) + Cardinality(T)
           /\ InSeqOrder(T) = SubSeq(InSeqOrder(S), Position(S, a) + 1, Position(S, b))
<1> USE DEF Between
<1>1. IsFiniteSet(T) /\ T \in SUBSET S
  BY FS_Subset
<1>2. ASSUME NEW n \in Nat, n <= b, a <= n
      PROVE  /\ Position(S, a) \in Nat /\ Position(T, n) \in Nat
             /\ Position(S, n) = Position(S, a) + Position(T, n)
  <2> DEFINE low == {m \in S : m <= a}
             high == {m \in T : m <= n}
             all == {m \in S : m <= n}
  <2>1. all = low \cup high /\ low \cap high = {} /\ low \in SUBSET S /\ high \in SUBSET T
    <3>1. \A m \in S : m \in Nat
      OBVIOUS
    <3>2. \A m \in S : /\ m <= n <=> (m <= a \/ (a < m /\ m <= b /\ m <= n))
                       /\ ~(m <= a /\ a < m)
      BY <1>2, <3>1
    <3>3. \A m \in S : m \in T <=> (a < m /\ m <= b)
      OBVIOUS
    <3> QED
      BY <1>1, <3>2, <3>3
  <2>2. IsFiniteSet(low) /\ IsFiniteSet(high)
    <3> HIDE DEF low, high
    <3> QED BY <1>1, <2>1, FS_Subset
  <2>3. Cardinality(low) \in Nat /\ Cardinality(high) \in Nat
    <3> HIDE DEF low, high
    <3> QED BY <2>2, FS_CardinalityType
  <2>4. Cardinality(all) = Cardinality(low) + Cardinality(high)
    <3> HIDE DEF low, high, all
    <3>1. Cardinality(low \cup high)
            = Cardinality(low) + Cardinality(high) - Cardinality(low \cap high)
      BY <2>2, FS_Union
    <3>2. Cardinality(low \cap high) = 0
      BY <2>1, FS_EmptySet
    <3>3. Cardinality(all) = Cardinality(low \cup high)
      BY <2>1
    <3> QED
      BY <2>3, <3>1, <3>2, <3>3
  <2> QED
    BY <2>3, <2>4 DEF Position
<1>3. Position(T, b) = Cardinality(T)
  <2>1. {m \in T : m <= b} = T
    OBVIOUS
  <2> QED
    BY <2>1 DEF Position
<1>4. /\ Position(S, a) \in Nat /\ Cardinality(T) \in Nat
      /\ Position(S, b) = Position(S, a) + Cardinality(T)
  <2>1. b <= b
    OBVIOUS
  <2> QED
    BY <1>2, <1>3, <2>1
<1>5. T \in SUBSET Nat
  BY <1>1
<1> DEFINE first == Position(S, a)
           size == Cardinality(T)
           ord == InSeqOrder(S)
           part == InSeqOrder(T)
<1>6. ASSUME NEW i \in 1..size
      PROVE  part[i] \in Nat /\ ord[first + i] = part[i]
  <2>1. part[i] \in T /\ Position(T, part[i]) = i
    BY <1>1, <1>5, InOrder
  <2>2. part[i] \in S /\ part[i] \in Nat /\ a <= part[i] /\ part[i] <= b
    <3>1. part[i] \in S /\ part[i] \in Nat
      BY <1>1, <2>1
    <3>2. a < part[i] /\ part[i] <= b
      BY <2>1
    <3> QED
      BY <3>1, <3>2
  <2>3. Position(S, part[i]) = first + i
    BY <1>2, <2>1, <2>2
  <2>4. ord[Position(S, part[i])] = part[i]
    BY <2>2, InOrder
  <2> QED
    BY <2>2, <2>3, <2>4
<1>7. part \in Seq(Nat) /\ Len(part) = size
  BY <1>1, <1>5, InOrder
<1>8. Position(S, b) = first + size /\ first \in Nat /\ size \in Nat
  BY <1>4
<1> HIDE DEF first, size, ord, part
<1>9. \A i \in first + 1..first + size : ord[i] \in Nat
  <2> SUFFICES ASSUME NEW i \in first + 1..first + size PROVE ord[i] \in Nat
    OBVIOUS
  <2>1. i - first \in 1..size /\ first + (i - first) = i
    BY <1>8
  <2> QED
    BY <1>6, <2>1
<1> DEFINE sub == SubSeq(ord, first + 1, first + size)
<1>10. /\ sub \in Seq(Nat)
       /\ Len(sub) = IF first + 1 <= first + size THEN (first + size) - (first + 1) + 1 ELSE 0
       /\ \A i \in 1..(first + size) - (first + 1) + 1 : sub[i] = ord[(first + 1) + i - 1]
  <2>1. first + 1 \in Int /\ first + size \in Int
    BY <1>8
  <2> QED
    BY <1>9, <2>1, SubSeqProperties
<1> HIDE DEF sub
<1>11. Len(sub) = size
  BY <1>8, <1>10
<1>12. ASSUME NEW i \in 1..size PROVE sub[i] = part[i]
  <2>1. i \in 1..(first + size) - (first + 1) + 1 /\ (first + 1) + i - 1 = first + i
    BY <1>8
  <2> QED
    BY <1>6, <1>10, <2>1
<1>13. part = sub
  BY <1>7, <1>10, <1>11, <1>12, SeqEqual
<1> QED
  BY <1>1, <1>5, <1>8, <1>13 DEF first, size, ord, part, sub

(* What is added behind everything is appended. *)
LEMMA Appended ==
    ASSUME NEW S \in SUBSET Nat, NEW T \in SUBSET Nat, IsFiniteSet(T), S \subseteq T,
           \A new \in T \ S, old \in S : old < new
    PROVE  /\ Cardinality(S) \in Nat /\ Cardinality(T) \in Nat
           /\ Cardinality(S) <= Cardinality(T)
           /\ Cardinality(S) = Cardinality(T) => S = T
           /\ SubSeq(InSeqOrder(T), 1, Len(InSeqOrder(S))) = InSeqOrder(S)
           /\ Len(InSeqOrder(S)) = Cardinality(S) /\ Len(InSeqOrder(T)) = Cardinality(T)
<1>1. /\ IsFiniteSet(S) /\ Cardinality(S) <= Cardinality(T)
      /\ Cardinality(T) = Cardinality(S) => T = S
  BY FS_Subset
<1>2. Cardinality(S) \in Nat /\ Cardinality(T) \in Nat
  BY <1>1, FS_CardinalityType
<1> DEFINE size == Cardinality(S)
           ord == InSeqOrder(T)
           part == InSeqOrder(S)
           sub == SubSeq(ord, 1, size)
<1>3. /\ part \in Seq(Nat) /\ Len(part) = size
      /\ ord \in Seq(Nat) /\ Len(ord) = Cardinality(T)
  BY <1>1, InOrder
<1>4. ASSUME NEW i \in 1..size PROVE ord[i] = part[i] /\ ord[i] \in Nat
  <2>1. part[i] \in S /\ Position(S, part[i]) = i
    BY <1>1, InOrder
  <2>2. part[i] \in T /\ part[i] \in Nat
    BY <2>1
  <2>3. {m \in T : m <= part[i]} = {m \in S : m <= part[i]}
    <3>1. \A m \in T : m \in Nat
      OBVIOUS
    <3>2. ASSUME NEW m \in T, m <= part[i] PROVE m \in S
      <4>1. m \notin S => part[i] < m
        BY <2>1
      <4> QED
        BY <2>2, <3>1, <3>2, <4>1
    <3> QED
      BY <3>2
  <2>4. Position(T, part[i]) = i
    BY <2>1, <2>3 DEF Position
  <2>5. ord[Position(T, part[i])] = part[i]
    BY <2>2, InOrder
  <2> QED
    BY <2>2, <2>4, <2>5
<1>5. /\ sub \in Seq(Nat)
      /\ Len(sub) = IF 1 <= size THEN size - 1 + 1 ELSE 0
      /\ \A i \in 1..size - 1 + 1 : sub[i] = ord[1 + i - 1]
  <2>1. 1 \in Int /\ size \in Int
    BY <1>2
  <2> HIDE DEF size, ord
  <2> QED
    BY <1>4, <2>1, SubSeqProperties
<1> HIDE DEF sub, ord, part, size
<1>6. Len(sub) = size /\ \A i \in 1..size : sub[i] = ord[i]
  BY <1>2, <1>5 DEF size
<1>7. sub = part
  BY <1>3, <1>4, <1>5, <1>6, SeqEqual
<1> QED
  BY <1>1, <1>2, <1>3, <1>7 DEF sub, ord, part, size

-----------------------------------------------------------------------------
(* Where a consumer stands *)

(* A consumer has been given a whole stretch that reaches what it saved.    *)
Whole(c) ==
    \E r \in Nat : /\ Known(r) /\ saved[c] <= r /\ from[c] <= r
                   /\ got[c] = {n \in Seqs : from[c] < n /\ n <= r}

StoppedWhole == \A c \in Consumers : pc[c] = "off" => Whole(c)

StandsInv == IsFiniteSet(hist) /\ StoppedWhole

\* Before any subscription nobody is stopped halfway.
LEMMA StandsInit == Init => StandsInv
<1> SUFFICES ASSUME Init PROVE StandsInv
  OBVIOUS
<1>1. IsFiniteSet(hist)
  BY FS_EmptySet DEF Init
<1>2. ASSUME NEW c \in Consumers
      PROVE  /\ Known(0) /\ saved[c] <= 0 /\ from[c] <= 0
             /\ got[c] = {n \in Seqs : from[c] < n /\ n <= 0}
  BY DEF Init, Known, Seqs
<1> QED
  BY <1>1, <1>2 DEF StandsInv, StoppedWhole, Whole

(* The numbers of the history are a finite set of naturals. *)
LEMMA SeqsFinite ==
    ASSUME TypeInv, StandsInv
    PROVE  Seqs \in SUBSET Nat /\ IsFiniteSet(Seqs)
<1>1. Seqs \in SUBSET Nat
  BY DEF TypeInv, TypeOK, Row, Seqs
<1>2. IsFiniteSet(hist)
  BY DEF StandsInv
<1> DEFINE seqOf == [ev \in hist |-> ev.seq]
<1>3. seqOf \in Surjection(hist, Seqs)
  BY DEF Surjection, Seqs
<1>4. IsFiniteSet(Seqs)
  <2> HIDE DEF seqOf
  <2> QED BY <1>2, <1>3, FS_Surjection
<1> QED
  BY <1>1, <1>4

(* Running or not, what a consumer was given is whole. *)
LEMMA AllWhole ==
    ASSUME TypeInv, DeliveryInv, SavedIsCursor, StandsInv, NEW c \in Consumers
    PROVE  Whole(c)
<1>1. CASE pc[c] = "off"
  BY <1>1 DEF StandsInv, StoppedWhole
<1>2. CASE pc[c] # "off"
  <2> DEFINE r == Reached(c)
  <2>1. r \in Nat /\ Known(r)
    BY ReachedKnown
  <2>2. saved[c] <= r
    <3>1. Applied(c) = r
      BY <1>2 DEF Applied, Reached, SavedIsCursor
    <3> QED
      BY <3>1, AppliedAhead
  <2>3. from[c] <= r
    <3>1. from[c] <= saved[c]
      BY <1>2 DEF DeliveryInv, FromBehind, SavedIsCursor
    <3>2. from[c] \in Nat /\ saved[c] \in Nat
      BY DEF TypeInv, TypeOK
    <3> QED
      BY <2>1, <2>2, <3>1, <3>2
  <2>4. got[c] = {ev.seq : ev \in {h \in hist : from[c] < h.seq /\ h.seq <= r}}
    BY <1>2 DEF DeliveryInv, NoGap
  <2>5. got[c] = {n \in Seqs : from[c] < n /\ n <= r}
    BY <2>4 DEF Seqs
  <2> QED
    BY <2>1, <2>2, <2>3, <2>5 DEF Whole
<1> QED
  BY <1>1, <1>2

(* What is committed lies after where every consumer stands. *)
LEMMA StandsQuiet ==
    ASSUME TypeInv, TypeInv', DeliveryInv, SavedIsCursor, StandsInv, UNCHANGED consumerVars,
           hist \subseteq hist', pruned <= pruned', [GrowsAtEnd]_vars, NEW c \in Consumers
    PROVE  /\ Whole(c)'
           /\ \A n \in Seqs' \ Seqs : from[c] < n
<1>1. PICK r \in Nat : /\ Known(r) /\ saved[c] <= r /\ from[c] <= r
                       /\ got[c] = {n \in Seqs : from[c] < n /\ n <= r}
  BY AllWhole DEF Whole
<1>2. ASSUME NEW n \in Seqs' \ Seqs PROVE r < n
  <2>1. PICK ev \in hist' \ hist : n = ev.seq
    BY DEF Seqs
  <2>2. GrowsAtEnd
    BY <2>1 DEF vars, writerVars
  <2> QED
    BY <1>1, <2>1, <2>2, NewAfterKnown
<1>3. \A n \in Seqs' : n \in Nat
  BY DEF TypeInv, TypeOK, Row, Seqs
<1>4. from[c] \in Nat
  BY DEF TypeInv, TypeOK
<1>5. Seqs \subseteq Seqs'
  BY DEF Seqs
<1>6. {n \in Seqs' : from[c] < n /\ n <= r} = {n \in Seqs : from[c] < n /\ n <= r}
  BY <1>2, <1>3, <1>5
<1>7. Known(r)'
  BY <1>1, KnownStays DEF Known
<1>8. saved'[c] = saved[c] /\ from'[c] = from[c] /\ got'[c] = got[c]
  BY DEF consumerVars
<1>9. Whole(c)'
  BY <1>1, <1>6, <1>7, <1>8 DEF Whole
<1>10. ASSUME NEW n \in Seqs' \ Seqs PROVE from[c] < n
  BY <1>1, <1>2, <1>3, <1>4
<1> QED
  BY <1>9, <1>10

(* The history stays finite. *)
LEMMA HistFinite ==
    ASSUME DeliveryInv, IsFiniteSet(hist), [Next]_vars
    PROVE  IsFiniteSet(hist')
<1>1. hist' = hist \/ \E w \in Writers : hist' = hist \cup pend[w]
  <2>1. ASSUME NEW w \in Writers, WriterStep(w)
        PROVE  hist' = hist \/ hist' = hist \cup pend[w]
    BY <2>1 DEF WriterStep, Write, AssignSeq, Commit, Abort, Finish
  <2>2. ASSUME PruneChanges \/ \E c \in Consumers : ConsumerStep(c)
        PROVE  hist' = hist
    BY <2>2 DEF PruneChanges, ConsumerStep, SubscriptionStep, Subscribe, Read, Handle,
                Advance, Wake, Stop, ReadMaxSeq, ReadPruneMark, Rebuild, writerVars
  <2>3. ASSUME UNCHANGED vars
        PROVE  hist' = hist
    BY <2>3 DEF vars, writerVars
  <2> QED
    BY <2>1, <2>2, <2>3 DEF Next
<1>2. \A w \in Writers : IsFiniteSet(pend[w])
  BY DEF DeliveryInv, LogFinite
<1>3. \A w \in Writers : IsFiniteSet(hist \cup pend[w])
  BY <1>2, FS_Union
<1> QED
  BY <1>1, <1>3

(* A consumer that moves leaves the others, and what was given to one that  *)
(* is stopped, alone.                                                       *)
LEMMA StandsConsumer ==
    ASSUME TypeInv, TypeInv', DeliveryInv, SavedIsCursor, StandsInv,
           NEW c \in Consumers, ConsumerStep(c)
    PROVE  StoppedWhole'
<1>1. /\ UNCHANGED <<hist, pruned>>
      /\ \A d \in Consumers \ {c} :
             pc'[d] = pc[d] /\ saved'[d] = saved[d] /\ from'[d] = from[d] /\ got'[d] = got[d]
      /\ pc'[c] = "off" => saved'[c] = saved[c] /\ from'[c] = from[c] /\ got'[c] = got[c]
  <2> USE DEF TypeInv, TypeOK, writerVars
  <2>1. CASE Subscribe(c)
    BY <2>1 DEF Subscribe
  <2>2. CASE Read(c) \/ Handle(c) \/ Advance(c) \/ Wake(c)
    BY <2>2 DEF Read, Handle, Advance, Wake
  <2>3. CASE Stop(c)
    BY <2>3 DEF Stop
  <2>4. CASE ReadMaxSeq(c) \/ ReadPruneMark(c) \/ Rebuild(c)
    BY <2>4 DEF ReadMaxSeq, ReadPruneMark, Rebuild
  <2> QED
    BY <2>1, <2>2, <2>3, <2>4 DEF ConsumerStep, SubscriptionStep
<1>2. Seqs' = Seqs /\ \A n : Known(n)' = Known(n)
  BY <1>1 DEF Seqs, Known
<1>3. ASSUME NEW d \in Consumers, pc'[d] = "off"
      PROVE  Whole(d)'
  <2>1. saved'[d] = saved[d] /\ from'[d] = from[d] /\ got'[d] = got[d]
    BY <1>1, <1>3
  <2>2. Whole(d)
    BY AllWhole
  <2> QED
    BY <1>2, <2>1, <2>2 DEF Whole
<1> QED
  BY <1>3 DEF StoppedWhole

\* A stopped subscription keeps standing for what it delivered.
LEMMA StandsStep ==
    ASSUME TypeInv, TypeInv', OrderInv, DeliveryInv, SavedIsCursor, StandsInv, [Next]_vars
    PROVE  StandsInv'
<1>1. IsFiniteSet(hist')
  BY HistFinite DEF StandsInv
<1>2. ASSUME UNCHANGED consumerVars
      PROVE  StoppedWhole'
  <2>1. hist \subseteq hist' /\ pruned <= pruned' /\ [GrowsAtEnd]_vars
    BY LogStep, GrowthStep
  <2>2. \A c \in Consumers : Whole(c)'
    BY <1>2, <2>1, StandsQuiet
  <2> QED
    BY <2>2 DEF StoppedWhole
<1>3. ASSUME \E w \in Writers : WriterStep(w)
      PROVE  UNCHANGED consumerVars
  BY <1>3 DEF WriterStep, Write, AssignSeq, Commit, Abort
<1>4. ASSUME PruneChanges \/ UNCHANGED vars
      PROVE  UNCHANGED consumerVars
  BY <1>4 DEF PruneChanges, vars
<1>5. ASSUME NEW c \in Consumers, ConsumerStep(c)
      PROVE  StoppedWhole'
  BY <1>5, StandsConsumer
<1>6. StoppedWhole'
  BY <1>2, <1>3, <1>4, <1>5 DEF Next
<1> QED
  BY <1>1, <1>6 DEF StandsInv

-----------------------------------------------------------------------------
(* The steps *)

(* Counting events is counting their numbers. *)
Counts ==
    /\ Committed = InSeqOrder(Seqs)
    /\ Start = [c \in Consumers |-> Position(Seqs, from[c])]

(* No number was given out twice, so it is. *)
LEMMA CountsHold ==
    ASSUME TypeInv, StandsInv, SeqsDistinct
    PROVE  Counts
<1>1. Seqs \in SUBSET Nat /\ IsFiniteSet(Seqs) /\ IsFiniteSet(hist)
  BY SeqsFinite DEF StandsInv
<1>2. ASSUME NEW E \in SUBSET hist
      PROVE  Cardinality(E) = Cardinality({ev.seq : ev \in E})
  <2> DEFINE N == {ev.seq : ev \in E}
             seqOf == [ev \in E |-> ev.seq]
  <2>1. seqOf \in [E -> N] /\ \A n \in N : \E ev \in E : seqOf[ev] = n
    OBVIOUS
  <2>2. \A a, b \in E : seqOf[a] = seqOf[b] => a = b
    BY DEF SeqsDistinct
  <2>3. IsFiniteSet(E)
    BY <1>1, FS_Subset
  <2>4. seqOf \in Injection(E, N)
    BY <2>1, <2>2 DEF Injection, IsInjective
  <2>5. seqOf \in Surjection(E, N)
    BY <2>1 DEF Surjection
  <2> HIDE DEF seqOf, N
  <2>6. seqOf \in Bijection(E, N)
    BY <2>4, <2>5 DEF Bijection
  <2>7. Cardinality(E) = Cardinality(N)
    BY <2>3, <2>6, FS_Bijection DEF ExistsBijection
  <2> QED
    BY <2>7 DEF N
<1>3. Cardinality(hist) = Cardinality(Seqs)
  BY <1>2 DEF Seqs
<1>4. ASSUME NEW n PROVE EventsTo(n) = Position(Seqs, n)
  <2>1. {ev.seq : ev \in {h \in hist : h.seq <= n}} = {m \in Seqs : m <= n}
    BY DEF Seqs
  <2>2. {h \in hist : h.seq <= n} \in SUBSET hist
    OBVIOUS
  <2> QED
    BY <1>2, <2>1, <2>2 DEF EventsTo, Position
<1>5. Start = [c \in Consumers |-> Position(Seqs, from[c])]
  BY <1>4 DEF Start
<1> DEFINE S == Seqs
           ord == InSeqOrder(S)
           size == Cardinality(S)
           Nth(n, i) == EventsTo(n) >= i /\ \A m \in S : EventsTo(m) >= i => n <= m
<1>6. /\ ord \in Seq(Nat) /\ size \in Nat /\ Len(ord) = size
      /\ \A n \in S : Position(S, n) \in 1..size
      /\ \A i \in 1..size : ord[i] \in S /\ Position(S, ord[i]) = i
  BY <1>1, InOrder
<1>7. \A a, b \in S : a < b => Position(S, a) < Position(S, b)
  BY <1>1, PositionMember
<1> HIDE DEF S, ord, size
<1>8. ASSUME NEW i \in 1..size PROVE (CHOOSE n \in S : Nth(n, i)) = ord[i]
  <2>1. ord[i] \in S /\ EventsTo(ord[i]) = i /\ i \in Nat
    BY <1>4, <1>6 DEF S
  <2>2. \A m \in S : m \in Nat /\ EventsTo(m) \in Nat
                     /\ (m < ord[i] => EventsTo(m) < i)
    BY <1>1, <1>4, <1>6, <1>7, <2>1 DEF S
  <2>3. Nth(ord[i], i)
    BY <2>1, <2>2
  <2>4. \A n \in S : Nth(n, i) => n = ord[i]
    <3> SUFFICES ASSUME NEW n \in S, Nth(n, i) PROVE n = ord[i]
      OBVIOUS
    <3>1. n <= ord[i] /\ ord[i] <= n
      BY <2>1, <2>2, <2>3
    <3> QED
      BY <2>1, <2>2, <3>1
  <2> HIDE DEF Nth
  <2> QED
    BY <2>1, <2>3, <2>4
<1>9. Committed = [i \in 1..size |-> CHOOSE n \in S : Nth(n, i)]
  BY <1>3 DEF Committed, S, size
<1>10. ord = [i \in 1..size |-> ord[i]]
  BY <1>6
<1>11. Committed = ord
  <2> HIDE DEF Nth
  <2> QED
    BY <1>8, <1>9, <1>10
<1> QED
  BY <1>5, <1>11 DEF Counts, ord, S

\* The initial states of the feed map to the initial states of the committed log.
LEMMA PromiseInit == Init => Promise!Init
<1> SUFFICES ASSUME Init PROVE Promise!Init
  OBVIOUS
<1>1. Cardinality({}) = 0
  BY FS_EmptySet
<1>2. InSeqOrder({}) = << >>
  BY <1>1 DEF InSeqOrder
<1>3. hist = {}
  BY DEF Init
<1>4. Committed = << >>
  BY <1>1, <1>3 DEF Committed
<1>5. \A n : EventsTo(n) = 0
  BY <1>1, <1>3 DEF EventsTo
<1>6. Start = [c \in Consumers |-> 0]
  BY <1>5 DEF Start
<1>7. \A c \in Consumers : got[c] = {} /\ pc[c] = "off"
  BY DEF Init
<1>8. Given = [c \in Consumers |-> << >>]
  BY <1>2, <1>7 DEF Given
<1>9. \A c \in Consumers : IsLost(pc[c]) = FALSE
  BY <1>7 DEF IsLost
<1>10. Lost = [c \in Consumers |-> FALSE]
  BY <1>9, Zenon DEF Lost
<1> QED
  BY <1>4, <1>6, <1>8, <1>10 DEF Promise!Init

(* What writers and retention do appends to the committed events or does    *)
(* not show.                                                                *)
LEMMA PromiseQuiet ==
    ASSUME TypeInv, TypeInv', DeliveryInv, SavedIsCursor, StandsInv, StandsInv', Counts, Counts',
           UNCHANGED consumerVars,
           hist \subseteq hist', pruned <= pruned', [GrowsAtEnd]_vars
    PROVE  Promise!Commit \/ UNCHANGED <<Committed, Start, Given, Lost>>
<1>1. Given' = Given /\ Lost' = Lost
  BY DEF Given, Lost, consumerVars
<1>2. /\ Seqs \in SUBSET Nat /\ Seqs' \in SUBSET Nat /\ IsFiniteSet(Seqs')
      /\ Seqs \subseteq Seqs'
  <2>1. Seqs \in SUBSET Nat
    BY SeqsFinite
  <2>2. IsFiniteSet(hist')
    BY DEF StandsInv
  <2> DEFINE seqOf == [ev \in hist' |-> ev.seq]
  <2>3. seqOf \in Surjection(hist', Seqs')
    BY DEF Surjection, Seqs
  <2>4. IsFiniteSet(Seqs')
    <3> HIDE DEF seqOf
    <3> QED BY <2>2, <2>3, FS_Surjection
  <2> QED
    BY <2>1, <2>4 DEF Seqs, TypeInv, TypeOK, Row
<1>3. ASSUME NEW new \in Seqs' \ Seqs, NEW old \in Seqs PROVE old < new
  <2>1. PICK ev \in hist' \ hist : new = ev.seq
    BY DEF Seqs
  <2>2. GrowsAtEnd
    BY <2>1 DEF vars, writerVars
  <2> QED
    BY <2>1, <2>2 DEF GrowsAtEnd, Seqs
<1>4. Start' = Start
  <2>1. ASSUME NEW c \in Consumers
        PROVE  Position(Seqs', from'[c]) = Position(Seqs, from[c])
    <3>1. \A n \in Seqs' \ Seqs : from[c] < n
      BY StandsQuiet
    <3>2. from[c] \in Nat /\ from'[c] = from[c]
      BY DEF TypeInv, TypeOK, consumerVars
    <3>3. \A n \in Seqs' : n \in Nat /\ (n <= from[c] => n \in Seqs)
      BY <1>2, <3>1, <3>2
    <3>4. {n \in Seqs' : n <= from[c]} = {n \in Seqs : n <= from[c]}
      BY <1>2, <3>3
    <3> QED
      BY <3>2, <3>4 DEF Position
  <2> QED
    BY <2>1 DEF Counts
<1>5. /\ Cardinality(Seqs) \in Nat /\ Cardinality(Seqs') \in Nat
      /\ Cardinality(Seqs) <= Cardinality(Seqs')
      /\ Cardinality(Seqs) = Cardinality(Seqs') => Seqs = Seqs'
      /\ SubSeq(InSeqOrder(Seqs'), 1, Len(InSeqOrder(Seqs))) = InSeqOrder(Seqs)
      /\ Len(InSeqOrder(Seqs)) = Cardinality(Seqs)
      /\ Len(InSeqOrder(Seqs')) = Cardinality(Seqs')
  BY <1>2, <1>3, Appended
<1>6. Committed = InSeqOrder(Seqs) /\ Committed' = InSeqOrder(Seqs')
  BY DEF Counts, InSeqOrder, Position
<1>7. CASE Cardinality(Seqs) = Cardinality(Seqs')
  BY <1>1, <1>4, <1>5, <1>6, <1>7
<1>8. CASE Cardinality(Seqs) # Cardinality(Seqs')
  <2>1. Len(Committed') > Len(Committed)
    BY <1>5, <1>6, <1>8
  <2>2. SubSeq(Committed', 1, Len(Committed)) = Committed
    BY <1>5, <1>6
  <2> QED
    BY <1>1, <1>4, <2>1, <2>2 DEF Promise!Commit
<1> QED
  BY <1>7, <1>8

(* What a consumer's step does to the four mapped variables. *)
LEMMA MappedMoves ==
    ASSUME TypeInv, Counts, Counts', UNCHANGED hist, NEW c \in Consumers,
           \A d \in Consumers \ {c} : pc'[d] = pc[d] /\ from'[d] = from[d] /\ got'[d] = got[d]
    PROVE  /\ Committed' = Committed
           /\ Start' = [Start EXCEPT ![c] = Position(Seqs, from'[c])]
           /\ from'[c] = from[c] => Start' = Start
           /\ Given' = [Given EXCEPT ![c] = InSeqOrder(got'[c])]
           /\ got'[c] = got[c] => Given' = Given
           /\ IsLost(pc'[c]) => Lost' = [Lost EXCEPT ![c] = TRUE]
           /\ ~IsLost(pc'[c]) => Lost' = [Lost EXCEPT ![c] = FALSE]
           /\ (IsLost(pc'[c]) <=> IsLost(pc[c])) => Lost' = Lost
<1>1. Seqs' = Seqs
  BY DEF Seqs
<1>2. Committed' = Committed
  BY <1>1 DEF Counts, InSeqOrder, Position
<1>3. Start' = [d \in Consumers |-> Position(Seqs, from'[d])]
  BY <1>1 DEF Counts, Position
<1>4. Given' = [d \in Consumers |-> InSeqOrder(got'[d])]
  BY DEF Given, InSeqOrder, Position
<1>5. /\ Start' = [Start EXCEPT ![c] = Position(Seqs, from'[c])]
      /\ from'[c] = from[c] => Start' = Start
  BY <1>3 DEF Counts
<1>6. /\ Given' = [Given EXCEPT ![c] = InSeqOrder(got'[c])]
      /\ got'[c] = got[c] => Given' = Given
  BY <1>4 DEF Given
<1>7. Lost' = [d \in Consumers |-> IF d = c THEN IsLost(pc'[c]) ELSE IsLost(pc[d])]
  <2>1. \A d \in Consumers :
            IsLost(pc'[d]) = (IF d = c THEN IsLost(pc'[c]) ELSE IsLost(pc[d]))
    <3> SUFFICES ASSUME NEW d \in Consumers
                 PROVE  IsLost(pc'[d]) = IF d = c THEN IsLost(pc'[c]) ELSE IsLost(pc[d])
      OBVIOUS
    <3>1. CASE d = c
      BY <3>1
    <3>2. CASE d # c
      <4>1. pc'[d] = pc[d]
        BY <3>2
      <4> QED
        BY <3>2, <4>1
    <3> QED
      BY <3>1, <3>2
  <2> QED
    BY <2>1, Zenon DEF Lost, IsLost
<1>8. IsLost(pc'[c]) \in BOOLEAN /\ IsLost(pc[c]) \in BOOLEAN
  BY DEF IsLost
<1>9. Lost' = [Lost EXCEPT ![c] = IsLost(pc'[c])]
  BY <1>7, Zenon DEF Lost
<1>10. /\ IsLost(pc'[c]) => IsLost(pc'[c]) = TRUE
       /\ ~IsLost(pc'[c]) => IsLost(pc'[c]) = FALSE
       /\ (IsLost(pc'[c]) <=> IsLost(pc[c])) => IsLost(pc'[c]) = IsLost(pc[c])
  BY <1>8
<1>11. (IsLost(pc'[c]) <=> IsLost(pc[c])) => Lost' = Lost
  BY <1>7, <1>10, Zenon DEF Lost
<1>12. /\ IsLost(pc'[c]) => Lost' = [Lost EXCEPT ![c] = TRUE]
       /\ ~IsLost(pc'[c]) => Lost' = [Lost EXCEPT ![c] = FALSE]
  BY <1>9, <1>10, Zenon
<1> QED
  BY <1>2, <1>5, <1>6, <1>11, <1>12

(* How far the mapped positions reach. *)
LEMMA MappedBounds ==
    ASSUME TypeInv, DeliveryInv, SavedIsCursor, StandsInv, Counts, NEW c \in Consumers
    PROVE  /\ Start[c] \in Nat /\ Given[c] \in Seq(Nat) /\ Len(Given[c]) \in Nat
           /\ Committed \in Seq(Nat) /\ Len(Committed) \in Nat
           /\ Position(Seqs, saved[c]) \in 0..(Start[c] + Len(Given[c]))
           /\ \A n \in Nat : Position(Seqs, n) \in 0..Len(Committed)
<1>1. Seqs \in SUBSET Nat /\ IsFiniteSet(Seqs)
  BY SeqsFinite
<1>2. from[c] \in Nat /\ saved[c] \in Nat
  BY DEF TypeInv, TypeOK
<1>3. PICK r \in Nat : /\ saved[c] <= r /\ from[c] <= r
                       /\ got[c] = {n \in Seqs : from[c] < n /\ n <= r}
  BY AllWhole DEF Whole
<1> DEFINE begun == from[c]
           kept == saved[c]
           given == got[c]
           S == Seqs
<1>4. /\ given \in SUBSET Nat /\ IsFiniteSet(given)
      /\ Position(S, r) = Position(S, begun) + Cardinality(given)
  <2>1. /\ begun \in Nat /\ r \in Nat /\ begun <= r /\ S \in SUBSET Nat /\ IsFiniteSet(S)
        /\ given = Between(S, begun, r)
    BY <1>1, <1>2, <1>3 DEF Between
  <2> HIDE DEF begun, given, S
  <2> QED
    BY ONLY <2>1, Stretch
<1>5. /\ InSeqOrder(given) \in Seq(Nat) /\ Cardinality(given) \in Nat
      /\ Len(InSeqOrder(given)) = Cardinality(given)
  <2> HIDE DEF given
  <2> QED
    BY <1>4, InOrder
<1>6. /\ InSeqOrder(S) \in Seq(Nat) /\ Cardinality(S) \in Nat
      /\ Len(InSeqOrder(S)) = Cardinality(S)
  BY <1>1, InOrder
<1>7. \A n \in Nat : Position(S, n) \in 0..Cardinality(S)
  <2>1. \A n \in Nat : n <= n
    OBVIOUS
  <2> QED
    BY <1>1, <2>1, PositionGrows
<1>8. Position(S, kept) <= Position(S, r)
  <2>1. kept \in Nat /\ kept <= r /\ S \in SUBSET Nat /\ IsFiniteSet(S)
    BY <1>1, <1>2, <1>3
  <2> HIDE DEF kept, S
  <2> QED
    BY <2>1, PositionGrows
<1>9. Start[c] = Position(S, begun) /\ Given[c] = InSeqOrder(given)
      /\ Committed = InSeqOrder(S) /\ begun \in Nat /\ kept \in Nat
  BY <1>2 DEF Counts, Given
<1> HIDE DEF begun, kept, given, S
<1>10. Position(S, begun) \in Nat /\ Position(S, kept) \in Nat /\ Position(S, r) \in Nat
  BY <1>6, <1>7, <1>9, SMTT(30)
<1>11. Position(S, kept) \in 0..(Start[c] + Len(Given[c]))
  BY <1>4, <1>5, <1>8, <1>9, <1>10
<1>12. \A n \in Nat : Position(S, n) \in 0..Len(Committed)
  BY <1>6, <1>7, <1>9
<1>13. Start[c] \in Nat /\ Given[c] \in Seq(Nat) /\ Len(Given[c]) \in Nat
  BY <1>5, <1>9, <1>10
<1>14. Committed \in Seq(Nat) /\ Len(Committed) \in Nat
  BY <1>6, <1>9
<1> QED
  BY <1>11, <1>12, <1>13, <1>14 DEF kept, S

(* Handling a page gives the subscription its next stretch. *)
LEMMA PromiseHandle ==
    ASSUME TypeInv, DeliveryInv, SavedIsCursor, StandsInv, Counts, Counts', NEW c \in Consumers,
           Handle(c)
    PROVE  Promise!Deliver(c)
<1> DEFINE begun == from[c]
           end == MaxSeq(batch[c])
           new == {ev.seq : ev \in batch[c]}
           given == got[c] \cup new
           S == Seqs
<1>1. /\ pc[c] = "handle" /\ hist' = hist
      /\ pc' = [pc EXCEPT ![c] = "handled"] /\ from' = from
      /\ got' = [got EXCEPT ![c] = @ \cup new]
  BY DEF Handle, writerVars
<1>2. S \in SUBSET Nat /\ IsFiniteSet(S)
  BY SeqsFinite
<1>3. begun \in Nat /\ cursor[c] \in Nat /\ begun <= cursor[c]
  BY <1>1 DEF TypeInv, TypeOK, DeliveryInv, FromBehind
<1>4. /\ batch[c] # {}
      /\ batch[c] = {h \in hist : cursor[c] < h.seq /\ h.seq <= end}
  BY <1>1 DEF DeliveryInv, PagesWhole
<1>5. end \in Nat
  BY <1>1, ReachedKnown
<1>6. got[c] = {n \in S : begun < n /\ n <= cursor[c]}
  <2>1. Reached(c) = cursor[c]
    BY <1>1 DEF Reached
  <2>2. got[c] = {ev.seq : ev \in {h \in hist : begun < h.seq /\ h.seq <= Reached(c)}}
    BY <1>1 DEF DeliveryInv, NoGap
  <2> QED
    BY <2>1, <2>2 DEF Seqs
<1>7. new = {n \in S : cursor[c] < n /\ n <= end}
  BY <1>4 DEF Seqs
<1>8. PICK first \in S : cursor[c] < first /\ first <= end
  BY <1>4 DEF Seqs
<1>9. pc'[c] = "handled" /\ from'[c] = begun /\ got'[c] = given
      /\ \A d \in Consumers \ {c} : pc'[d] = pc[d] /\ from'[d] = from[d] /\ got'[d] = got[d]
  BY <1>1 DEF TypeInv, TypeOK
<1> HIDE DEF begun, end, new, given, S
<1>10. cursor[c] <= end /\ begun <= end /\ first \in Nat
  BY <1>2, <1>3, <1>5, <1>8
<1>11. given = {n \in S : begun < n /\ n <= end}
  <2>1. \A n \in S : n \in Nat
    BY <1>2
  <2>2. \A n \in S : begun < n /\ n <= end
            <=> (begun < n /\ n <= cursor[c]) \/ (cursor[c] < n /\ n <= end)
    BY <1>3, <1>5, <1>10, <2>1
  <2> QED
    BY <1>6, <1>7, <2>2 DEF given
<1>12. /\ Position(S, end) = Position(S, begun) + Cardinality(given)
       /\ IsFiniteSet(given) /\ given \in SUBSET Nat
       /\ InSeqOrder(given) = SubSeq(InSeqOrder(S), Position(S, begun) + 1, Position(S, end))
  <2>1. /\ S \in SUBSET Nat /\ IsFiniteSet(S) /\ begun \in Nat /\ end \in Nat /\ begun <= end
        /\ given = Between(S, begun, end)
    BY <1>2, <1>3, <1>5, <1>10, <1>11 DEF Between
  <2> QED
    BY ONLY <2>1, Stretch
<1>13. /\ Position(S, cursor[c]) = Position(S, begun) + Cardinality(got[c])
       /\ IsFiniteSet(got[c]) /\ got[c] \in SUBSET Nat
  <2>1. /\ S \in SUBSET Nat /\ IsFiniteSet(S) /\ begun \in Nat /\ cursor[c] \in Nat
        /\ begun <= cursor[c] /\ got[c] = Between(S, begun, cursor[c])
    BY <1>2, <1>3, <1>6, <1>10 DEF Between
  <2> QED
    BY ONLY <2>1, Stretch
<1>14. Position(S, cursor[c]) < Position(S, end)
  <2>1. Position(S, cursor[c]) < Position(S, first)
    BY <1>2, <1>3, <1>8, PositionMember
  <2>2. /\ Position(S, first) <= Position(S, end)
        /\ Position(S, first) \in 0..Cardinality(S) /\ Position(S, end) \in 0..Cardinality(S)
    BY <1>2, <1>5, <1>8, <1>10, PositionGrows
  <2>3. Position(S, cursor[c]) \in 0..Cardinality(S)
    BY <1>2, <1>3, <1>5, <1>10, PositionGrows
  <2>4. Cardinality(S) \in Nat
    BY <1>2, FS_CardinalityType
  <2> QED
    BY <2>1, <2>2, <2>3, <2>4
<1>15. /\ Cardinality(got[c]) \in Nat /\ Len(InSeqOrder(got[c])) = Cardinality(got[c])
       /\ Cardinality(given) \in Nat /\ Cardinality(S) \in Nat
       /\ Len(InSeqOrder(S)) = Cardinality(S)
  BY <1>2, <1>12, <1>13, InOrder
<1>16. Position(S, end) \in 0..Cardinality(S) /\ Position(S, begun) \in 0..Cardinality(S)
  BY <1>2, <1>3, <1>5, <1>10, PositionGrows
<1>17. /\ Start[c] = Position(S, begun) /\ Given[c] = InSeqOrder(got[c])
       /\ Committed = InSeqOrder(S)
  BY DEF Counts, Given, S, begun
<1> DEFINE size == Cardinality(given)
<1>18. size \in (Len(Given[c]) + 1)..(Len(Committed) - Start[c])
  BY <1>12, <1>13, <1>14, <1>15, <1>16, <1>17
<1>19. InSeqOrder(given) = SubSeq(Committed, Start[c] + 1, Start[c] + size)
  BY <1>12, <1>17
<1>20. ~IsLost(pc[c]) /\ ~IsLost(pc'[c])
  BY <1>1, <1>9 DEF IsLost
<1>21. /\ Committed' = Committed /\ Start' = Start /\ Lost' = Lost
       /\ Given' = [Given EXCEPT ![c] = InSeqOrder(got'[c])]
  <2>1. from'[c] = from[c]
    BY <1>1
  <2> QED
    BY <1>1, <1>9, <1>20, <2>1, MappedMoves
<1>22. Given' = [Given EXCEPT ![c] = InSeqOrder(given)]
  BY <1>9, <1>21
<1>23. ~Lost[c]
  BY <1>20, Zenon DEF Lost
<1> HIDE DEF size
<1>24. Given' = [Given EXCEPT ![c] = SubSeq(Committed, Start[c] + 1, Start[c] + size)]
  BY <1>19, <1>22
<1> QED
  BY <1>18, <1>21, <1>23, <1>24 DEF Promise!Deliver

(* Each step of a consumer is one the promise allows it, or does not show.  *)
LEMMA PromiseConsumer ==
    ASSUME TypeInv, DeliveryInv, SavedIsCursor, StandsInv, Counts, Counts', NEW c \in Consumers,
           ConsumerStep(c)
    PROVE  \/ Promise!Deliver(c) \/ Promise!Resume(c) \/ Promise!Lose(c) \/ Promise!Forget(c)
           \/ Promise!StartOver(c)
           \/ UNCHANGED <<Committed, Start, Given, Lost>>
<1> USE DEF TypeInv, TypeOK
<1>1. CASE Subscribe(c)
  <2>1. /\ UNCHANGED hist /\ from'[c] = saved[c] /\ got'[c] = {} /\ pc'[c] = "read"
        /\ \A d \in Consumers \ {c} : pc'[d] = pc[d] /\ from'[d] = from[d] /\ got'[d] = got[d]
    BY <1>1 DEF Subscribe, writerVars
  <2>2. ~IsLost(pc'[c]) /\ InSeqOrder(got'[c]) = << >>
    <3>1. InSeqOrder({}) = << >>
      BY FS_EmptySet DEF InSeqOrder
    <3> QED
      BY <2>1, <3>1 DEF IsLost
  <2>3. Position(Seqs, saved[c]) \in 0..(Start[c] + Len(Given[c]))
    BY MappedBounds
  <2>4. /\ Committed' = Committed
        /\ Start' = [Start EXCEPT ![c] = Position(Seqs, saved[c])]
        /\ Given' = [Given EXCEPT ![c] = << >>]
        /\ Lost' = [Lost EXCEPT ![c] = FALSE]
    BY <2>1, <2>2, MappedMoves
  <2> QED
    BY <2>3, <2>4 DEF Promise!Resume
<1>2. CASE Read(c)
  <2>1. /\ UNCHANGED hist /\ from'[c] = from[c] /\ got'[c] = got[c] /\ pc[c] = "read"
        /\ \A d \in Consumers \ {c} : pc'[d] = pc[d] /\ from'[d] = from[d] /\ got'[d] = got[d]
        /\ pc'[c] \in {"pruned", "wait", "handle"}
    BY <1>2 DEF Read, writerVars
  <2>2. Committed' = Committed /\ Start' = Start /\ Given' = Given
    BY <2>1, MappedMoves
  <2>3. CASE pc'[c] = "pruned"
    <3>1. IsLost(pc'[c])
      BY <2>3 DEF IsLost
    <3>2. Lost' = [Lost EXCEPT ![c] = TRUE]
      BY <2>1, <3>1, MappedMoves
    <3> QED
      BY <2>2, <3>2 DEF Promise!Lose
  <2>4. CASE pc'[c] # "pruned"
    <3>1. IsLost(pc'[c]) <=> IsLost(pc[c])
      BY <2>1, <2>4 DEF IsLost
    <3>2. Lost' = Lost
      BY <2>1, <3>1, MappedMoves
    <3> QED
      BY <2>2, <3>2
  <2> QED
    BY <2>3, <2>4
<1>3. CASE Handle(c)
  BY <1>3, PromiseHandle
<1>4. CASE Advance(c) \/ Wake(c) \/ ReadMaxSeq(c) \/ ReadPruneMark(c)
  <2>1. /\ UNCHANGED hist /\ from'[c] = from[c] /\ got'[c] = got[c]
        /\ \A d \in Consumers \ {c} : pc'[d] = pc[d] /\ from'[d] = from[d] /\ got'[d] = got[d]
    BY <1>4 DEF Advance, Wake, ReadMaxSeq, ReadPruneMark, writerVars
  <2>2. IsLost(pc'[c]) <=> IsLost(pc[c])
    BY <1>4 DEF Advance, Wake, ReadMaxSeq, ReadPruneMark, IsLost
  <2> QED
    BY <2>1, <2>2, MappedMoves
<1>5. CASE Stop(c)
  <2>1. /\ UNCHANGED hist /\ from'[c] = from[c] /\ got'[c] = got[c] /\ pc'[c] = "off"
        /\ \A d \in Consumers \ {c} : pc'[d] = pc[d] /\ from'[d] = from[d] /\ got'[d] = got[d]
    BY <1>5 DEF Stop, writerVars
  <2>2. ~IsLost(pc'[c])
    BY <2>1 DEF IsLost
  <2>3. /\ Committed' = Committed /\ Start' = Start /\ Given' = Given
        /\ Lost' = [Lost EXCEPT ![c] = FALSE]
    BY <2>1, <2>2, MappedMoves
  <2> QED
    BY <2>3 DEF Promise!Forget
<1>6. CASE Rebuild(c)
  <2>1. /\ UNCHANGED hist /\ from'[c] = head[c] /\ got'[c] = {} /\ pc'[c] = "read"
        /\ \A d \in Consumers \ {c} : pc'[d] = pc[d] /\ from'[d] = from[d] /\ got'[d] = got[d]
        /\ pc[c] = "rebuild" /\ head[c] \in Nat
    BY <1>6 DEF Rebuild, writerVars
  <2>2. IsLost(pc[c]) /\ ~IsLost(pc'[c]) /\ InSeqOrder(got'[c]) = << >>
    <3>1. InSeqOrder({}) = << >>
      BY FS_EmptySet DEF InSeqOrder
    <3> QED
      BY <2>1, <3>1 DEF IsLost
  <2>3. Position(Seqs, head[c]) \in 0..Len(Committed)
    BY <2>1, MappedBounds
  <2>4. /\ Committed' = Committed
        /\ Start' = [Start EXCEPT ![c] = Position(Seqs, head[c])]
        /\ Given' = [Given EXCEPT ![c] = << >>]
        /\ Lost' = [Lost EXCEPT ![c] = FALSE]
    BY <2>1, <2>2, MappedMoves
  <2>5. Lost[c]
    BY <2>2, Zenon DEF Lost
  <2> QED
    BY <2>3, <2>4, <2>5 DEF Promise!StartOver
<1> QED
  BY <1>1, <1>2, <1>3, <1>4, <1>5, <1>6 DEF ConsumerStep, SubscriptionStep

\* Every step of the feed is one of what it promises, or none.
LEMMA PromiseStep ==
    ASSUME TypeInv, TypeInv', OrderInv, DeliveryInv, SavedIsCursor, StandsInv, StandsInv',
           Counts, Counts', [Next]_vars
    PROVE  Promise!Next \/ UNCHANGED <<Committed, Start, Given, Lost>>
<1>1. ASSUME UNCHANGED consumerVars
      PROVE  Promise!Next \/ UNCHANGED <<Committed, Start, Given, Lost>>
  <2>1. hist \subseteq hist' /\ pruned <= pruned' /\ [GrowsAtEnd]_vars
    BY LogStep, GrowthStep
  <2>2. Promise!Commit \/ UNCHANGED <<Committed, Start, Given, Lost>>
    BY <1>1, <2>1, PromiseQuiet
  <2> QED
    BY <2>2 DEF Promise!Next
<1>2. ASSUME \E w \in Writers : WriterStep(w)
      PROVE  UNCHANGED consumerVars
  BY <1>2 DEF WriterStep, Write, AssignSeq, Commit, Abort
<1>3. ASSUME PruneChanges \/ UNCHANGED vars
      PROVE  UNCHANGED consumerVars
  BY <1>3 DEF PruneChanges, vars
<1>4. ASSUME NEW c \in Consumers, ConsumerStep(c)
      PROVE  Promise!Next \/ UNCHANGED <<Committed, Start, Given, Lost>>
  <2>1. \/ Promise!Deliver(c) \/ Promise!Resume(c) \/ Promise!Lose(c) \/ Promise!Forget(c)
        \/ Promise!StartOver(c)
        \/ UNCHANGED <<Committed, Start, Given, Lost>>
    BY <1>4, PromiseConsumer
  <2> QED
    BY <2>1 DEF Promise!Next
<1> QED
  BY <1>1, <1>2, <1>3, <1>4 DEF Next

(* Committed events reach consumers as changefeed.go:97-106 promises: in    *)
(* commit order, after commit, exactly once within a subscription, at least *)
(* once across restarts, and never with a gap a consumer is not told of.    *)
THEOREM ImplementsCommittedLogHolds == Spec => ImplementsCommittedLog
<1>1. Init => /\ TypeInv /\ OrderInv /\ HistoryInv /\ DeliveryInv /\ ReplicaInv /\ StandsInv
              /\ Promise!Init
  BY TypeInit, OrderInit, HistoryInit, DeliveryInit, ReplicaInit, StandsInit, PromiseInit
<1>2. TypeInv /\ OrderInv /\ HistoryInv /\ DeliveryInv /\ ReplicaInv /\ StandsInv /\ [Next]_vars
          => TypeInv' /\ OrderInv' /\ HistoryInv' /\ DeliveryInv' /\ ReplicaInv' /\ StandsInv'
  <2> SUFFICES ASSUME TypeInv, OrderInv, HistoryInv, DeliveryInv, ReplicaInv, StandsInv,
                      [Next]_vars
               PROVE  /\ TypeInv' /\ OrderInv' /\ HistoryInv' /\ DeliveryInv' /\ ReplicaInv'
                      /\ StandsInv'
    OBVIOUS
  <2>1. TypeInv' /\ OrderInv' /\ HistoryInv' /\ DeliveryInv' /\ ReplicaInv'
    BY TypeStep, OrderStep, HistoryStep, DeliveryStep, ReplicaStep
  <2>2. StandsInv'
    BY <2>1, StandsStep DEF ReplicaInv
  <2> QED
    BY <2>1, <2>2
<1>3. TypeInv /\ OrderInv /\ HistoryInv /\ DeliveryInv /\ ReplicaInv /\ StandsInv
      /\ TypeInv' /\ HistoryInv' /\ StandsInv' /\ [Next]_vars
          => [Promise!Next]_(Promise!vars)
  <2> SUFFICES ASSUME TypeInv, OrderInv, HistoryInv, DeliveryInv, ReplicaInv, StandsInv,
                      TypeInv', HistoryInv', StandsInv', [Next]_vars
               PROVE  [Promise!Next]_(Promise!vars)
    OBVIOUS
  <2>1. SavedIsCursor /\ Counts
    BY CountsHold DEF ReplicaInv, HistoryInv
  <2>4. Counts'
    <3>1. SeqsDistinct'
      BY DEF HistoryInv
    <3>2. TypeInv /\ StandsInv /\ SeqsDistinct => Counts
      BY CountsHold
    <3>3. TypeInv' /\ StandsInv' /\ SeqsDistinct' => Counts'
      BY CountsHold, PTL
    <3> QED
      BY <3>1, <3>3
  <2>2. Promise!Next \/ UNCHANGED <<Committed, Start, Given, Lost>>
    BY <2>1, <2>4, PromiseStep
  <2>3. Promise!Next \/ UNCHANGED Promise!vars
    BY <2>2 DEF Promise!vars
  <2> QED
    BY <2>3
<1> QED
  BY <1>1, <1>2, <1>3, PTL DEF Spec, ImplementsCommittedLog, Promise!Spec
=============================================================================
