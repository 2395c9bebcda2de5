------------------------ MODULE ChangeRetentionProofs ------------------------
(***************************************************************************)
(* Proofs about ChangeRetention, for any writers, limits and bounds, on    *)
(* both backends: the prune mark says exactly what is gone, a prune takes  *)
(* nothing that is not expired, and the row cap is kept.                   *)
(*                                                                         *)
(* The argument: the cutoff is computed over several statements, and what  *)
(* it covers stays expired while it is: time only grows, and an event that *)
(* is committed meanwhile (PostgreSQL only) lies after everything.  On     *)
(* SQLite the write lock keeps the log as the statements found it, and seq *)
(* and time agree because one transaction is open at a time.               *)
(***************************************************************************)
EXTENDS ChangeRetention, WellFoundedInduction, FiniteSetTheorems, TLAPS

Event == [seq : Nat \ {0}, at : Nat]

TypeInv ==
    /\ backend \in Backends
    /\ now \in Nat
    /\ open \in [Writers -> Nat \cup {Closed}]
    /\ lock \in Writers \cup {NoOne, Pruner}
    /\ hist \subseteq Event /\ IsFiniteSet(hist)
    /\ \E b \in Nat : \A ev \in hist : ev.seq <= b
    /\ pruned \in Nat
    /\ pc \in {"idle", "look", "age", "rows", "newest", "delete"}
    /\ cutoff \in Nat

(* The janitor's transaction is open. *)
Pruning == pc \notin {"idle", "look"}

(* SQLite: whoever has a transaction open, a writer or the janitor, holds   *)
(* the write lock.                                                          *)
LockInv ==
    ~Postgres => /\ \A w \in Writers : open[w] # Closed => lock = w
                 /\ Pruning => lock = Pruner

(* Nothing is stamped in the future; on SQLite seqs follow the stamps.      *)
TimeInv ==
    /\ \A ev \in hist : ev.at <= now
    /\ \A w \in Writers : open[w] # Closed => open[w] <= now
    /\ ~Postgres =>
         /\ \A w \in Writers : open[w] # Closed => \A ev \in hist : ev.at <= open[w]
         /\ \A a, b \in hist : a.seq < b.seq => a.at <= b.at

SeqsDistinct == \A a, b \in hist : a.seq = b.seq => a = b

(* The log is what lies after the mark, and empty only before the first     *)
(* event.                                                                   *)
MarkInv ==
    /\ log = {ev \in hist : ev.seq > pruned}
    /\ SeqsDistinct
    /\ pruned = 0 \/ log # {}

(* May go: it is expired, or (PostgreSQL) one after it is.                  *)
MayGo(ev) ==
    \/ Expired(ev)
    \/ Postgres /\ \E later \in log : ev.seq < later.seq /\ Expired(later)

(* The cutoff does not pass the newest event, and stays behind it once the  *)
(* newest has been read.                                                    *)
CutStays ==
    Pruning =>
        \/ cutoff <= pruned
        \/ \E ev \in log : cutoff <= ev.seq /\ (pc = "delete" => cutoff < ev.seq)

(* What the cutoff covers may go.                                           *)
CutExpired == Pruning => \A ev \in log : ev.seq <= cutoff => MayGo(ev)

(* On SQLite what it leaves is within the cap.                              *)
CutCaps ==
    ~Postgres /\ MaxRows > 0 /\ pc \in {"newest", "delete"} =>
        Cardinality({ev \in log : ev.seq > cutoff}) <= MaxRows

RetentionInv ==
    TypeInv /\ LockInv /\ TimeInv /\ MarkInv /\ CutStays /\ CutExpired /\ CutCaps

-----------------------------------------------------------------------------
(* The largest seq of a set of events *)

(* A non-empty set of naturals has a least element. *)
LEMMA LeastNatural ==
    ASSUME NEW T \in SUBSET Nat, T # {}
    PROVE  \E n \in T : \A m \in T : n <= m
<1> DEFINE Less == {p \in Nat \X Nat : p[1] < p[2]}
<1>1. IsWellFoundedOn(Less, Nat)
  BY NatLessThanWellFounded DEF OpToRel
<1>2. PICK n \in T : \A m \in T : <<m, n>> \notin Less
  <2> HIDE DEF Less
  <2> QED BY <1>1, WFMin
<1>3. ASSUME NEW m \in T
      PROVE  n <= m
  <2>1. m \in Nat /\ n \in Nat /\ (m < n => <<m, n>> \in Less)
    OBVIOUS
  <2>2. QED
    BY <1>2, <2>1
<1> QED
  BY <1>3

(* MaxSeq of a bounded set of events is the largest of their seqs, and 0    *)
(* only when there are none.                                                *)
LEMMA MaxSeqIsMax ==
    ASSUME NEW S \in SUBSET Event, NEW b \in Nat, \A ev \in S : ev.seq <= b
    PROVE  /\ MaxSeq(S) \in Nat
           /\ \A ev \in S : ev.seq <= MaxSeq(S)
           /\ MaxSeq(S) # 0 => \E ev \in S : ev.seq = MaxSeq(S)
           /\ MaxSeq(S) = 0 => S = {}
<1> DEFINE Bounds == {n \in Nat : \A ev \in S : ev.seq <= n}
           Candidates == {0} \cup {ev.seq : ev \in S}
<1>1. \A ev \in S : ev.seq \in Nat /\ ev.seq # 0
  BY DEF Event
<1>2. PICK n \in Bounds : \A m \in Bounds : n <= m
  BY LeastNatural
<1>3. n \in Candidates
  <2>1. SUFFICES ASSUME n # 0, \A ev \in S : ev.seq # n
                 PROVE  FALSE
    OBVIOUS
  <2>2. n - 1 \in Bounds
    BY <1>1, <2>1
  <2>3. QED
    BY <1>2, <2>2
<1>4. \E k \in Candidates : \A ev \in S : ev.seq <= k
  BY <1>2, <1>3
<1>5. MaxSeq(S) \in Candidates /\ \A ev \in S : ev.seq <= MaxSeq(S)
  BY <1>4 DEF MaxSeq
<1>6. QED
  BY <1>1, <1>5

(* The same of any part of the history. *)
LEMMA MaxSeqOfPart ==
    ASSUME TypeInv, NEW S \in SUBSET hist
    PROVE  /\ MaxSeq(S) \in Nat
           /\ \A ev \in S : ev.seq <= MaxSeq(S)
           /\ MaxSeq(S) # 0 => \E ev \in S : ev.seq = MaxSeq(S)
           /\ MaxSeq(S) = 0 => S = {}
<1>1. S \in SUBSET Event
  BY DEF TypeInv
<1>2. PICK b \in Nat : \A ev \in S : ev.seq <= b
  BY DEF TypeInv
<1>3. QED
  BY <1>1, <1>2, MaxSeqIsMax

(* The newest of the history is in the log: the seq a commit gives is       *)
(* larger than any, on either backend.                                      *)
LEMMA NextSeqIsNew ==
    ASSUME TypeInv, MarkInv
    PROVE  /\ NextSeq \in Nat \ {0}
           /\ \A ev \in hist : ev.seq < NextSeq
           /\ pruned < NextSeq
<1>1. log \subseteq hist /\ \A ev \in hist : ev.seq \in Nat /\ ev.seq # 0
  BY DEF MarkInv, TypeInv, Event
<1>2. pruned \in Nat
  BY DEF TypeInv
<1>3. /\ MaxSeq(log) \in Nat /\ \A ev \in log : ev.seq <= MaxSeq(log)
      /\ MaxSeq(hist) \in Nat /\ \A ev \in hist : ev.seq <= MaxSeq(hist)
  BY <1>1, MaxSeqOfPart
<1>4. pruned <= MaxSeq(log)
  <2>1. CASE pruned = 0
    BY <2>1, <1>3
  <2>2. CASE log # {}
    BY <2>2, <1>1, <1>2, <1>3 DEF MarkInv
  <2>3. QED
    BY <2>1, <2>2 DEF MarkInv
<1>5. \A ev \in hist : ev.seq <= MaxSeq(log)
  <2>1. TAKE ev \in hist
  <2>2. CASE ev \in log
    BY <2>2, <1>3
  <2>3. CASE ev \notin log
    <3>1. ev.seq <= pruned
      BY <2>3, <1>1, <1>2 DEF MarkInv
    <3>2. QED
      BY <3>1, <1>1, <1>2, <1>3, <1>4
  <2>4. QED
    BY <2>2, <2>3
<1>6. pruned <= MaxSeq(hist)
  <2>1. CASE pruned = 0
    BY <2>1, <1>3
  <2>2. CASE log # {}
    BY <2>2, <1>1, <1>2, <1>3 DEF MarkInv
  <2>3. QED
    BY <2>1, <2>2 DEF MarkInv
<1>7. QED
  BY <1>1, <1>2, <1>3, <1>4, <1>5, <1>6 DEF NextSeq

-----------------------------------------------------------------------------
(* Expired events *)

(* How many events of a set lie after a seq, and that more of them lie in a *)
(* larger set, or after a smaller seq.                                      *)
LEMMA RowsAfter ==
    ASSUME NEW S, IsFiniteSet(S), NEW T \in SUBSET S,
           \A l \in S : l.seq \in Nat, NEW m \in Nat, NEW n \in Nat, n <= m
    PROVE  /\ Cardinality({l \in T : l.seq > m}) \in Nat
           /\ Cardinality({l \in S : l.seq > n}) \in Nat
           /\ Cardinality({l \in T : l.seq > m}) <= Cardinality({l \in S : l.seq > n})
<1> DEFINE few == {l \in T : l.seq > m}
           many == {l \in S : l.seq > n}
<1>1. few \in SUBSET many /\ many \in SUBSET S
  <2>1. \A l \in S : l.seq > m => l.seq > n
    OBVIOUS
  <2>2. QED
    BY <2>1
<1> HIDE DEF few, many
<1>2. IsFiniteSet(many)
  BY <1>1, FS_Subset
<1>3. IsFiniteSet(few) /\ Cardinality(few) <= Cardinality(many)
  BY <1>1, <1>2, FS_Subset
<1>4. Cardinality(few) \in Nat /\ Cardinality(many) \in Nat
  BY <1>2, <1>3, FS_CardinalityType
<1>5. QED
  BY <1>3, <1>4 DEF few, many

(* At most cap events are left after the bound for the row cap: were there  *)
(* more, the first of them would have cap others after it.                  *)
LEMMA RowBoundCaps ==
    ASSUME TypeInv, MarkInv, MaxRows \in Nat
    PROVE  /\ IsFiniteSet({ev \in log : ev.seq > RowBound})
           /\ Cardinality({ev \in log : ev.seq > RowBound}) <= MaxRows
<1> DEFINE Over == {ev \in log : Cardinality({l \in log : l.seq > ev.seq}) >= MaxRows}
           Left == {ev \in log : ev.seq > RowBound}
           Numbers == {ev.seq : ev \in Left}
<1>1. log \in SUBSET hist /\ IsFiniteSet(hist)
      /\ \A ev \in hist : ev.seq \in Nat
  BY DEF MarkInv, TypeInv, Event
<1>2. RowBound \in Nat /\ \A ev \in Over : ev.seq <= RowBound
  <2>1. Over \in SUBSET hist
    BY <1>1
  <2>2. QED
    BY <2>1, MaxSeqOfPart DEF RowBound
<1>3. Left \in SUBSET hist
  BY <1>1
<1>4. IsFiniteSet(Left) /\ Cardinality(Left) \in Nat
  <2> HIDE DEF Left
  <2> QED BY <1>1, <1>3, FS_Subset, FS_CardinalityType
<1>5. SUFFICES ASSUME Cardinality(Left) > MaxRows
               PROVE  FALSE
  BY <1>4
<1>6. Left # {}
  <2> HIDE DEF Left
  <2> QED BY <1>5, FS_EmptySet
<1>7. PICK n \in Numbers : \A m \in Numbers : n <= m
  <2>1. Numbers \in SUBSET Nat /\ Numbers # {}
    BY <1>1, <1>3, <1>6
  <2> HIDE DEF Numbers
  <2>2. QED
    BY <2>1, LeastNatural
<1>8. PICK first \in Left : first.seq = n
  BY <1>7
<1>9. \A ev \in Left : first.seq <= ev.seq
  BY <1>7, <1>8
<1>10. {l \in log : l.seq > first.seq} = Left \ {first}
  <2>1. ASSUME NEW l \in log, l.seq > first.seq
        PROVE  l \in Left \ {first}
    BY <2>1, <1>1, <1>2, <1>3
  <2>2. ASSUME NEW l \in Left, l # first
        PROVE  l \in log /\ l.seq > first.seq
    <3>1. l.seq # first.seq
      BY <2>2, <1>1, <1>3 DEF MarkInv, SeqsDistinct
    <3>2. QED
      BY <3>1, <1>1, <1>3, <1>9
  <2>3. QED
    BY <2>1, <2>2
<1>11. Cardinality(Left \ {first}) = Cardinality(Left) - 1
  <2> HIDE DEF Left
  <2> QED BY <1>4, <1>8, FS_RemoveElement
<1>12. first \in Over
  BY <1>4, <1>5, <1>8, <1>10, <1>11
<1>13. QED
  BY <1>1, <1>2, <1>3, <1>8, <1>12

(* What may go may go when time has passed and events have been committed   *)
(* after it.                                                                *)
LEMMA MayGoStays ==
    ASSUME TypeInv, TypeInv', log \subseteq hist, log \subseteq log', log' \subseteq hist',
           now <= now', UNCHANGED backend, MaxAge \in Nat, MaxRows \in Nat,
           NEW ev \in log, MayGo(ev)
    PROVE  MayGo(ev)'
<1>1. ASSUME NEW x \in log, Expired(x)
      PROVE  Expired(x)'
  <2>1. CASE MaxAge > 0 /\ x.at < now - MaxAge
    <3>1. x.at \in Nat /\ now \in Nat /\ now' \in Nat
      BY DEF TypeInv, Event
    <3>2. x.at < now' - MaxAge
      BY <2>1, <3>1
    <3>3. QED
      BY <2>1, <3>2 DEF Expired
  <2>2. CASE MaxRows > 0 /\ Cardinality({l \in log : l.seq > x.seq}) >= MaxRows
    <3>1. x.seq \in Nat /\ x.seq <= x.seq /\ (\A l \in log' : l.seq \in Nat)
      BY DEF TypeInv, Event
    <3>2. IsFiniteSet(log')
      <4>1. IsFiniteSet(hist')
        BY DEF TypeInv
      <4>2. QED
        BY <4>1, FS_Subset
    <3>3. /\ Cardinality({l \in log : l.seq > x.seq}) \in Nat
          /\ Cardinality({l \in log' : l.seq > x.seq}) \in Nat
          /\ Cardinality({l \in log : l.seq > x.seq})
               <= Cardinality({l \in log' : l.seq > x.seq})
      <4>1. log \in SUBSET log'
        OBVIOUS
      <4>2. QED
        BY ONLY <3>1, <3>2, <4>1, RowsAfter
    <3>4. Cardinality({l \in log' : l.seq > x.seq}) >= MaxRows
      BY <2>2, <3>3
    <3>5. QED
      BY <2>2, <3>4 DEF Expired
  <2>3. QED
    BY <1>1, <2>1, <2>2 DEF Expired
<1>2. CASE Expired(ev)
  BY <1>1, <1>2 DEF MayGo
<1>3. CASE Postgres /\ \E later \in log : ev.seq < later.seq /\ Expired(later)
  <2>1. PICK later \in log : ev.seq < later.seq /\ Expired(later)
    BY <1>3
  <2>2. Expired(later)' /\ later \in log' /\ Postgres'
    BY <1>1, <1>3, <2>1 DEF Postgres
  <2>3. QED
    BY <2>1, <2>2 DEF MayGo
<1>4. QED
  BY <1>2, <1>3 DEF MayGo

-----------------------------------------------------------------------------
(* The invariant *)

(* The initial state has every part of the invariant. *)
LEMMA RetentionInit == Init => RetentionInv
<1> SUFFICES ASSUME Init
             PROVE  RetentionInv
  OBVIOUS
<1>1. IsFiniteSet({})
  BY FS_EmptySet
<1>2. TypeInv
  BY <1>1 DEF Init, TypeInv
<1>3. QED
  BY <1>2 DEF Init, RetentionInv, LockInv, TimeInv, MarkInv, SeqsDistinct, CutStays, Pruning,
              CutExpired, CutCaps

(* What a commit adds is an event with a seq of its own. *)
LEMMA CommitAdds ==
    ASSUME TypeInv, MarkInv, NEW w \in Writers, Commit(w)
    PROVE  \E ev \in Event :
             /\ ev.seq = NextSeq /\ ev.at = open[w]
             /\ log' = log \cup {ev} /\ hist' = hist \cup {ev}
<1>1. open[w] \in Nat /\ NextSeq \in Nat \ {0}
  BY NextSeqIsNew DEF Commit, TypeInv
<1>2. [seq |-> NextSeq, at |-> open[w]] \in Event
  BY <1>1 DEF Event
<1>3. QED
  BY <1>2 DEF Commit

(* The bounds pruneCutoff computes are natural numbers. *)
LEMMA CutoffsTyped ==
    ASSUME TypeInv, MarkInv
    PROVE  WithAge(cutoff) \in Nat /\ WithRows(cutoff) \in Nat /\ KeepNewest(cutoff) \in Nat
<1>1. log \subseteq hist /\ cutoff \in Nat
  BY DEF MarkInv, TypeInv
<1>2. AgeBound \in Nat
  <2>1. {ev \in log : ev.at < now - MaxAge} \in SUBSET hist
    BY <1>1
  <2>2. QED
    BY <2>1, MaxSeqOfPart DEF AgeBound
<1>3. RowBound \in Nat
  <2>1. {ev \in log : Cardinality({l \in log : l.seq > ev.seq}) >= MaxRows} \in SUBSET hist
    BY <1>1
  <2>2. QED
    BY <2>1, MaxSeqOfPart DEF RowBound
<1>4. MaxSeq(log) \in Nat /\ (log # {} => MaxSeq(log) - 1 \in Nat)
  BY <1>1, MaxSeqOfPart
<1>5. QED
  BY <1>1, <1>2, <1>3, <1>4 DEF WithAge, WithRows, KeepNewest, Larger

(* Every step keeps the types. *)
LEMMA TypeStep == TypeInv /\ MarkInv /\ [Next]_vars => TypeInv'
<1> SUFFICES ASSUME TypeInv, MarkInv, [Next]_vars
             PROVE  TypeInv'
  OBVIOUS
<1> USE ChangeRetentionAssumption
<1>1. CASE Tick
  BY <1>1 DEF Tick, TypeInv
<1>2. ASSUME NEW w \in Writers, Insert(w)
      PROVE  TypeInv'
  BY <1>2 DEF Insert, TypeInv
<1>3. ASSUME NEW w \in Writers, Commit(w)
      PROVE  TypeInv'
  <2>1. PICK ev \in Event :
             /\ ev.seq = NextSeq /\ ev.at = open[w]
             /\ log' = log \cup {ev} /\ hist' = hist \cup {ev}
    BY <1>3, CommitAdds
  <2>2. hist' \subseteq Event /\ IsFiniteSet(hist')
    BY <2>1, FS_AddElement DEF TypeInv
  <2>3. \E b \in Nat : \A x \in hist' : x.seq <= b
    <3>1. NextSeq \in Nat /\ \A x \in hist : x.seq <= NextSeq
      BY NextSeqIsNew DEF TypeInv, Event
    <3>2. QED
      BY <2>1, <3>1
  <2>4. QED
    BY <1>3, <2>2, <2>3 DEF Commit, TypeInv
<1>4. ASSUME NEW w \in Writers, Rollback(w)
      PROVE  TypeInv'
  BY <1>4 DEF Rollback, TypeInv
<1>5. CASE Look \/ BeginPrune
  BY <1>5 DEF Look, BeginPrune, TypeInv
<1>6. CASE ReadAge
  BY <1>6, CutoffsTyped DEF ReadAge, TypeInv
<1>7. CASE ReadRows
  BY <1>7, CutoffsTyped DEF ReadRows, TypeInv
<1>8. CASE ReadNewest
  BY <1>8, CutoffsTyped DEF ReadNewest, TypeInv
<1>9. CASE DeletePruned
  BY <1>9 DEF DeletePruned, NewMark, TypeInv
<1>10. CASE AbandonPrune
  BY <1>10 DEF AbandonPrune, TypeInv
<1>11. CASE UNCHANGED vars
  BY <1>11 DEF vars, TypeInv
<1>12. QED
  BY <1>1, <1>2, <1>3, <1>4, <1>5, <1>6, <1>7, <1>8, <1>9, <1>10, <1>11 DEF Next

(* Every step keeps to the write lock. *)
LEMMA LockStep == TypeInv /\ LockInv /\ [Next]_vars => LockInv'
<1> SUFFICES ASSUME TypeInv, LockInv, [Next]_vars
             PROVE  LockInv'
  OBVIOUS
<1> USE ChangeRetentionAssumption
<1>1. CASE Tick
  BY <1>1 DEF Tick, LockInv, Pruning, Postgres
<1>2. ASSUME NEW w \in Writers, Insert(w)
      PROVE  LockInv'
  BY <1>2 DEF Insert, TypeInv, LockInv, Pruning, Postgres
<1>3. ASSUME NEW w \in Writers, Commit(w)
      PROVE  LockInv'
  BY <1>3 DEF Commit, TypeInv, LockInv, Pruning, Postgres
<1>4. ASSUME NEW w \in Writers, Rollback(w)
      PROVE  LockInv'
  BY <1>4 DEF Rollback, TypeInv, LockInv, Pruning, Postgres
<1>5. CASE Look \/ BeginPrune
  BY <1>5 DEF Look, BeginPrune, TypeInv, LockInv, Pruning, Postgres
<1>6. CASE ReadAge \/ ReadRows \/ ReadNewest
  BY <1>6 DEF ReadAge, ReadRows, ReadNewest, LockInv, Pruning, Postgres
<1>7. CASE DeletePruned
  BY <1>7 DEF DeletePruned, TypeInv, LockInv, Pruning, Postgres
<1>8. CASE AbandonPrune
  BY <1>8 DEF AbandonPrune, TypeInv, LockInv, Pruning, Postgres
<1>9. CASE UNCHANGED vars
  BY <1>9 DEF vars, LockInv, Pruning, Postgres
<1>10. QED
  BY <1>1, <1>2, <1>3, <1>4, <1>5, <1>6, <1>7, <1>8, <1>9 DEF Next

(* Every step keeps time: what is stamped is stamped now, and on SQLite     *)
(* nothing is stamped while another transaction is open.                    *)
LEMMA TimeStep ==
    TypeInv /\ LockInv /\ TimeInv /\ MarkInv /\ [Next]_vars => TimeInv'
<1> SUFFICES ASSUME TypeInv, LockInv, TimeInv, MarkInv, [Next]_vars
             PROVE  TimeInv'
  OBVIOUS
<1> USE ChangeRetentionAssumption
<1>1. CASE Tick
  <2>1. \A ev \in hist : ev.at \in Nat
    BY DEF TypeInv, Event
  <2>2. QED
    BY <1>1, <2>1 DEF Tick, TypeInv, TimeInv, Postgres
<1>2. ASSUME NEW w \in Writers, Insert(w)
      PROVE  TimeInv'
  BY <1>2 DEF Insert, TypeInv, LockInv, TimeInv, Postgres
<1>3. ASSUME NEW w \in Writers, Commit(w)
      PROVE  TimeInv'
  <2>1. PICK ev \in Event :
             /\ ev.seq = NextSeq /\ ev.at = open[w]
             /\ log' = log \cup {ev} /\ hist' = hist \cup {ev}
    BY <1>3, CommitAdds
  <2>2. open[w] \in Nat /\ open[w] <= now /\ now' = now
    BY <1>3 DEF Commit, TypeInv, TimeInv
  <2>3. \A x \in hist' : x.at <= now'
    BY <2>1, <2>2 DEF TimeInv
  <2>4. \A v \in Writers : open'[v] # Closed => v # w /\ open'[v] = open[v] /\ open[v] <= now'
    BY <1>3 DEF Commit, TypeInv, TimeInv
  <2>5. ASSUME ~Postgres
        PROVE  /\ \A v \in Writers : open'[v] = Closed
               /\ \A a, b \in hist' : a.seq < b.seq => a.at <= b.at
    <3>1. \A v \in Writers : open'[v] = Closed
      BY <1>3, <2>4, <2>5 DEF Commit, LockInv
    <3>2. \A x \in hist : x.at <= ev.at
      BY <1>3, <2>1, <2>5 DEF Commit, TimeInv
    <3>3. \A x \in hist : ~(ev.seq < x.seq) /\ ev.at \in Nat /\ x.at \in Nat
      BY <2>1, NextSeqIsNew DEF TypeInv, Event
    <3>4. ASSUME NEW a \in hist', NEW b \in hist', a.seq < b.seq
          PROVE  a.at <= b.at
      <4>1. CASE a \in hist /\ b \in hist
        BY <2>5, <3>4, <4>1 DEF TimeInv
      <4>2. CASE a \in hist /\ b = ev
        BY <3>2, <4>2
      <4>3. CASE a = ev
        BY <2>1, <3>3, <3>4, <4>3 DEF Event
      <4>4. QED
        BY <2>1, <4>1, <4>2, <4>3
    <3>5. QED
      BY <3>1, <3>4
  <2>6. Postgres' = Postgres
    BY <1>3 DEF Commit, Postgres
  <2>7. QED
    BY <2>3, <2>4, <2>5, <2>6 DEF TimeInv
<1>4. ASSUME NEW w \in Writers, Rollback(w)
      PROVE  TimeInv'
  BY <1>4 DEF Rollback, TypeInv, TimeInv, Postgres
<1>5. CASE Look \/ BeginPrune \/ ReadAge \/ ReadRows \/ ReadNewest \/ DeletePruned
           \/ AbandonPrune
  BY <1>5 DEF Look, BeginPrune, ReadAge, ReadRows, ReadNewest, DeletePruned, AbandonPrune,
              TimeInv, Postgres
<1>6. CASE UNCHANGED vars
  BY <1>6 DEF vars, TimeInv, Postgres
<1>7. QED
  BY <1>1, <1>2, <1>3, <1>4, <1>5, <1>6 DEF Next

(* Every step keeps the mark exact: a commit adds what lies after           *)
(* everything, a prune moves the mark to where it cuts, and cuts behind the *)
(* newest event.                                                            *)
LEMMA MarkStep ==
    TypeInv /\ MarkInv /\ CutStays /\ [Next]_vars => MarkInv'
<1> SUFFICES ASSUME TypeInv, MarkInv, CutStays, [Next]_vars
             PROVE  MarkInv'
  OBVIOUS
<1>1. ASSUME UNCHANGED <<log, hist, pruned>>
      PROVE  MarkInv'
  BY <1>1 DEF MarkInv, SeqsDistinct
<1>2. ASSUME NEW w \in Writers, Commit(w)
      PROVE  MarkInv'
  <2>1. PICK ev \in Event :
             /\ ev.seq = NextSeq /\ ev.at = open[w]
             /\ log' = log \cup {ev} /\ hist' = hist \cup {ev}
    BY <1>2, CommitAdds
  <2>2. pruned' = pruned /\ pruned < ev.seq /\ \A x \in hist : x.seq < ev.seq
    BY <1>2, <2>1, NextSeqIsNew DEF Commit
  <2>3. \A x \in hist : x.seq \in Nat /\ x.seq # ev.seq
    BY <2>1, <2>2, NextSeqIsNew DEF TypeInv, Event
  <2>4. log' = {x \in hist' : x.seq > pruned'}
    <3>1. pruned \in Nat /\ ev.seq \in Nat
      BY <2>1 DEF TypeInv, Event
    <3>2. QED
      BY <2>1, <2>2, <3>1 DEF MarkInv
  <2>5. SeqsDistinct'
    BY <2>1, <2>3 DEF MarkInv, SeqsDistinct
  <2>6. QED
    BY <2>1, <2>4, <2>5 DEF MarkInv
<1>3. CASE DeletePruned
  <2>1. CASE cutoff <= pruned
    BY <1>1, <1>3, <2>1 DEF DeletePruned
  <2>2. CASE ~(cutoff <= pruned)
    <3>1. log' = {x \in log : x.seq > cutoff} /\ pruned' = cutoff /\ hist' = hist
      BY <1>3, <2>2 DEF DeletePruned, NewMark
    <3>2. pruned < cutoff /\ pruned \in Nat /\ cutoff \in Nat /\ \A x \in hist : x.seq \in Nat
      BY <2>2 DEF TypeInv, Event
    <3>3. log' = {x \in hist' : x.seq > pruned'}
      BY <3>1, <3>2 DEF MarkInv
    <3>4. PICK x \in log : cutoff < x.seq
      BY <1>3, <2>2 DEF DeletePruned, CutStays, Pruning
    <3>5. log' # {}
      <4>1. log \subseteq hist
        BY DEF MarkInv
      <4>2. x \in log'
        BY <3>1, <3>2, <3>4, <4>1
      <4>3. QED
        BY <4>2
    <3>6. QED
      BY <3>1, <3>3, <3>5 DEF MarkInv, SeqsDistinct
  <2>3. QED
    BY <2>1, <2>2
<1>4. CASE Tick \/ (\E w \in Writers : Insert(w) \/ Rollback(w)) \/ Look \/ BeginPrune
           \/ ReadAge \/ ReadRows \/ ReadNewest \/ AbandonPrune \/ UNCHANGED vars
  BY <1>1, <1>4 DEF Tick, Insert, Rollback, Look, BeginPrune, ReadAge, ReadRows, ReadNewest,
                    AbandonPrune, vars
<1>5. QED
  BY <1>2, <1>3, <1>4 DEF Next

-----------------------------------------------------------------------------
(* What the cutoff covers *)

(* What is not of a prune leaves the cutoff's parts of the invariant alone: *)
(* it only lets time pass and adds events after everything.                 *)
LEMMA CutKept ==
    ASSUME TypeInv, TypeInv', MarkInv, CutStays, CutExpired,
           now <= now', UNCHANGED <<backend, pruned, pc, cutoff>>,
           log \subseteq log', log' \subseteq hist',
           \A ev \in log' \ log : NextSeq = ev.seq
    PROVE  CutStays' /\ CutExpired'
<1> USE ChangeRetentionAssumption
<1>1. log \subseteq hist
  BY DEF MarkInv
<1>2. CutStays'
  BY DEF CutStays, Pruning
<1>3. ASSUME Pruning, NEW ev \in log', ev.seq <= cutoff
      PROVE  MayGo(ev)'
  <2>1. ev \in log
    <3>1. SUFFICES ASSUME ev.seq = NextSeq
                   PROVE  FALSE
      OBVIOUS
    <3>2. cutoff \in Nat /\ pruned \in Nat /\ NextSeq \in Nat
      BY NextSeqIsNew DEF TypeInv
    <3>3. CASE cutoff <= pruned
      BY <1>3, <3>1, <3>2, <3>3, NextSeqIsNew
    <3>4. CASE \E x \in log : cutoff <= x.seq
      <4>1. PICK x \in log : cutoff <= x.seq
        BY <3>4
      <4>2. x.seq \in Nat /\ x.seq < NextSeq
        BY <1>1, NextSeqIsNew DEF TypeInv, Event
      <4>3. QED
        BY <1>3, <3>1, <3>2, <4>1, <4>2
    <3>5. QED
      BY <1>3, <3>3, <3>4 DEF CutStays
  <2>2. MayGo(ev)
    BY <1>3, <2>1 DEF CutExpired
  <2>3. QED
    BY <1>1, <2>1, <2>2, MayGoStays
<1>4. CutExpired'
  BY <1>3 DEF CutExpired, Pruning
<1>5. QED
  BY <1>2, <1>4

(* The bound for age is the seq of an event that is too old, so that what   *)
(* it covers may go: on SQLite what is before it is as old.                 *)
LEMMA AgeBoundMayGo ==
    ASSUME TypeInv, TimeInv, MarkInv, MaxAge > 0, MaxAge \in Nat
    PROVE  /\ AgeBound \in Nat
           /\ AgeBound # 0 => \E x \in log : x.seq = AgeBound
           /\ \A ev \in log : ev.seq <= AgeBound => MayGo(ev)
<1> DEFINE Old == {ev \in log : ev.at < now - MaxAge}
<1>1. log \in SUBSET hist /\ \A x \in hist : x.seq \in Nat /\ x.seq # 0 /\ x.at \in Nat
  BY DEF MarkInv, TypeInv, Event
<1>2. AgeBound \in Nat /\ (AgeBound # 0 => \E x \in Old : x.seq = AgeBound)
  <2>1. Old \in SUBSET hist
    BY <1>1
  <2>2. QED
    BY <2>1, MaxSeqOfPart DEF AgeBound
<1>3. ASSUME NEW ev \in log, ev.seq <= AgeBound
      PROVE  MayGo(ev)
  <2>1. AgeBound # 0
    BY <1>1, <1>2, <1>3
  <2>2. PICK x \in Old : x.seq = AgeBound
    BY <1>2, <2>1
  <2>3. Expired(x) /\ x \in log
    BY <2>2 DEF Expired
  <2>4. CASE ev.seq = x.seq
    <3>1. ev = x
      BY <1>1, <2>3, <2>4 DEF MarkInv, SeqsDistinct
    <3>2. QED
      BY <2>3, <3>1 DEF MayGo
  <2>5. CASE ev.seq < x.seq /\ Postgres
    BY <2>3, <2>5 DEF MayGo
  <2>6. CASE ev.seq < x.seq /\ ~Postgres
    <3>1. ev.at <= x.at
      BY <1>1, <2>3, <2>6 DEF TimeInv
    <3>2. ev.at < now - MaxAge
      BY <1>1, <2>2, <3>1 DEF TypeInv
    <3>3. QED
      BY <3>2 DEF Expired, MayGo
  <2>7. QED
    BY <1>1, <1>2, <1>3, <2>2, <2>3, <2>4, <2>5, <2>6
<1>4. QED
  BY <1>2, <1>3

(* The bound for the row cap is the seq of an event with MaxRows after it;  *)
(* so have all it covers.                                                   *)
LEMMA RowBoundMayGo ==
    ASSUME TypeInv, MarkInv, MaxRows > 0, MaxRows \in Nat
    PROVE  /\ RowBound \in Nat
           /\ RowBound # 0 => \E x \in log : x.seq = RowBound
           /\ \A ev \in log : ev.seq <= RowBound => MayGo(ev)
<1> DEFINE Over == {ev \in log : Cardinality({l \in log : l.seq > ev.seq}) >= MaxRows}
<1>1. log \in SUBSET hist /\ IsFiniteSet(log)
      /\ \A x \in hist : x.seq \in Nat /\ x.seq # 0
  <2>1. log \in SUBSET hist /\ IsFiniteSet(hist)
    BY DEF MarkInv, TypeInv
  <2>2. IsFiniteSet(log)
    BY <2>1, FS_Subset
  <2>3. QED
    BY <2>1, <2>2 DEF TypeInv, Event
<1>2. RowBound \in Nat /\ (RowBound # 0 => \E x \in Over : x.seq = RowBound)
  <2>1. Over \in SUBSET hist
    BY <1>1
  <2>2. QED
    BY <2>1, MaxSeqOfPart DEF RowBound
<1>3. ASSUME NEW ev \in log, ev.seq <= RowBound
      PROVE  MayGo(ev)
  <2>1. PICK x \in Over : x.seq = RowBound
    BY <1>1, <1>2, <1>3
  <2>2. /\ Cardinality({l \in log : l.seq > x.seq}) \in Nat
        /\ Cardinality({l \in log : l.seq > ev.seq}) \in Nat
        /\ Cardinality({l \in log : l.seq > x.seq}) <= Cardinality({l \in log : l.seq > ev.seq})
    <3>1. /\ IsFiniteSet(log) /\ log \in SUBSET log /\ x.seq \in Nat /\ ev.seq \in Nat
          /\ ev.seq <= x.seq /\ (\A l \in log : l.seq \in Nat)
      BY <1>1, <1>3, <2>1
    <3>2. QED
      BY ONLY <3>1, RowsAfter
  <2>3. Cardinality({l \in log : l.seq > x.seq}) >= MaxRows
    BY <2>1
  <2>4. Cardinality({l \in log : l.seq > ev.seq}) >= MaxRows
    BY <2>2, <2>3
  <2>5. QED
    BY <2>4 DEF Expired, MayGo
<1>4. QED
  BY <1>2, <1>3

(* Every step leaves a cutoff that does not pass the newest event and       *)
(* covers only what may go.                                                 *)
LEMMA CutStep ==
    TypeInv /\ TypeInv' /\ TimeInv /\ MarkInv /\ MarkInv' /\ CutStays /\ CutExpired
        /\ [Next]_vars => CutStays' /\ CutExpired'
<1> SUFFICES ASSUME TypeInv, TypeInv', TimeInv, MarkInv, MarkInv', CutStays, CutExpired,
                    [Next]_vars
             PROVE  CutStays' /\ CutExpired'
  OBVIOUS
<1> USE ChangeRetentionAssumption
<1>1. /\ log \subseteq hist /\ log' \subseteq hist'
      /\ pruned \in Nat /\ cutoff \in Nat /\ now \in Nat
      /\ \A ev \in hist : ev.seq \in Nat /\ ev.seq # 0
  BY DEF MarkInv, TypeInv, Event
<1>2. ASSUME UNCHANGED <<backend, pruned, pc, cutoff, log>>, now <= now'
      PROVE  CutStays' /\ CutExpired'
  BY <1>1, <1>2, CutKept
<1>3. CASE Tick
  BY <1>1, <1>2, <1>3 DEF Tick
<1>4. CASE (\E w \in Writers : Insert(w) \/ Rollback(w)) \/ UNCHANGED vars
  BY <1>1, <1>2, <1>4 DEF Insert, Rollback, vars
<1>5. ASSUME NEW w \in Writers, Commit(w)
      PROVE  CutStays' /\ CutExpired'
  <2>1. PICK ev \in Event :
             /\ ev.seq = NextSeq /\ ev.at = open[w]
             /\ log' = log \cup {ev} /\ hist' = hist \cup {ev}
    BY <1>5, CommitAdds
  <2>2. /\ now <= now' /\ UNCHANGED <<backend, pruned, pc, cutoff>> /\ log \subseteq log'
        /\ \A x \in log' \ log : NextSeq = x.seq
    BY <1>1, <1>5, <2>1 DEF Commit
  <2>3. QED
    BY <1>1, <2>2, CutKept
<1>6. ASSUME UNCHANGED <<backend, now, log, pruned>>,
             cutoff' <= pruned \/ (\E ev \in log : cutoff' <= ev.seq
                                     /\ (pc' = "delete" => cutoff' < ev.seq)),
             \A ev \in log : ev.seq <= cutoff' => MayGo(ev)
      PROVE  CutStays' /\ CutExpired'
  <2>1. \A ev \in log : MayGo(ev)' <=> MayGo(ev)
    BY <1>6 DEF MayGo, Expired, Postgres
  <2>2. QED
    BY <1>6, <2>1 DEF CutStays, CutExpired, Pruning
<1>7. CASE BeginPrune
  <2>1. cutoff' = pruned /\ UNCHANGED <<backend, now, log, pruned>>
    BY <1>7 DEF BeginPrune
  <2>2. \A ev \in log : ~(ev.seq <= pruned)
    BY <1>1 DEF MarkInv
  <2>3. QED
    BY <1>1, <1>6, <2>1, <2>2
<1>8. CASE ReadAge
  <2>1. /\ cutoff' = WithAge(cutoff) /\ Pruning /\ pc' # "delete"
        /\ UNCHANGED <<backend, now, log, pruned>>
    BY <1>8 DEF ReadAge, Pruning
  <2>2. CASE cutoff' = cutoff
    BY <1>6, <2>1, <2>2 DEF CutStays, CutExpired
  <2>3. CASE cutoff' # cutoff
    <3>1. MaxAge > 0 /\ cutoff' = AgeBound /\ MaxAge \in Nat
      BY <2>1, <2>3 DEF WithAge, Larger
    <3>2. /\ AgeBound # 0 => \E x \in log : x.seq = AgeBound
          /\ \A ev \in log : ev.seq <= AgeBound => MayGo(ev)
      BY <3>1, AgeBoundMayGo
    <3>3. cutoff' <= pruned \/ \E x \in log : cutoff' <= x.seq
      BY <1>1, <3>1, <3>2
    <3>4. QED
      BY <1>6, <2>1, <3>1, <3>2, <3>3
  <2>4. QED
    BY <2>2, <2>3
<1>9. CASE ReadRows
  <2>1. /\ cutoff' = WithRows(cutoff) /\ Pruning /\ pc' # "delete"
        /\ UNCHANGED <<backend, now, log, pruned>>
    BY <1>9 DEF ReadRows, Pruning
  <2>2. CASE cutoff' = cutoff
    BY <1>6, <2>1, <2>2 DEF CutStays, CutExpired
  <2>3. CASE cutoff' # cutoff
    <3>1. MaxRows > 0 /\ cutoff' = RowBound /\ MaxRows \in Nat
      BY <2>1, <2>3 DEF WithRows, Larger
    <3>2. /\ RowBound # 0 => \E x \in log : x.seq = RowBound
          /\ \A ev \in log : ev.seq <= RowBound => MayGo(ev)
      BY <3>1, RowBoundMayGo
    <3>3. cutoff' <= pruned \/ \E x \in log : cutoff' <= x.seq
      BY <1>1, <3>1, <3>2
    <3>4. QED
      BY <1>6, <2>1, <3>1, <3>2, <3>3
  <2>4. QED
    BY <2>2, <2>3
<1>10. CASE ReadNewest
  <2>1. /\ cutoff' = KeepNewest(cutoff) /\ pc = "newest"
        /\ UNCHANGED <<backend, now, log, pruned>>
    BY <1>10 DEF ReadNewest
  <2>2. /\ MaxSeq(log) \in Nat /\ (\A ev \in log : ev.seq <= MaxSeq(log))
        /\ (MaxSeq(log) # 0 => \E ev \in log : ev.seq = MaxSeq(log))
        /\ (MaxSeq(log) = 0 => log = {})
    BY <1>1, MaxSeqOfPart
  <2>3. cutoff' \in Nat /\ cutoff' <= cutoff
    <3>1. CASE log # {} /\ cutoff >= MaxSeq(log)
      BY <1>1, <2>1, <2>2, <3>1 DEF KeepNewest
    <3>2. CASE ~(log # {} /\ cutoff >= MaxSeq(log))
      BY <1>1, <2>1, <3>2 DEF KeepNewest
    <3>3. QED
      BY <3>1, <3>2
  <2>4. log # {} => \E ev \in log : cutoff' < ev.seq
    <3>1. ASSUME log # {}
          PROVE  cutoff' < MaxSeq(log)
      <4>1. CASE cutoff >= MaxSeq(log)
        BY <2>1, <2>2, <3>1, <4>1 DEF KeepNewest
      <4>2. CASE ~(cutoff >= MaxSeq(log))
        BY <1>1, <2>1, <2>2, <4>2 DEF KeepNewest
      <4>3. QED
        BY <4>1, <4>2
    <3>2. QED
      BY <2>2, <3>1
  <2>5. cutoff' <= pruned \/ \E ev \in log : cutoff' <= ev.seq /\ cutoff' < ev.seq
    <3>1. CASE log = {}
      <4>1. cutoff <= pruned
        BY <2>1, <3>1 DEF CutStays, Pruning
      <4>2. QED
        BY <1>1, <2>3, <4>1
    <3>2. CASE log # {}
      BY <1>1, <2>3, <2>4, <3>2
    <3>3. QED
      BY <3>1, <3>2
  <2>6. \A ev \in log : ev.seq <= cutoff' => MayGo(ev)
    <3>1. \A ev \in log : ev.seq <= cutoff' => ev.seq <= cutoff
      BY <1>1, <2>3
    <3>2. QED
      BY <2>1, <3>1 DEF CutExpired, Pruning
  <2>7. QED
    BY <1>6, <2>1, <2>5, <2>6
<1>11. CASE Look \/ DeletePruned \/ AbandonPrune
  BY <1>11 DEF Look, DeletePruned, AbandonPrune, CutStays, CutExpired, Pruning
<1>12. QED
  BY <1>3, <1>4, <1>5, <1>7, <1>8, <1>9, <1>10, <1>11 DEF Next

(* Every step keeps what the cutoff leaves within the row cap on SQLite:    *)
(* while the janitor holds the write lock the log does not change.          *)
LEMMA CapsStep ==
    TypeInv /\ TypeInv' /\ LockInv /\ MarkInv /\ CutCaps /\ [Next]_vars => CutCaps'
<1> SUFFICES ASSUME TypeInv, TypeInv', LockInv, MarkInv, CutCaps, [Next]_vars,
                    ~Postgres', MaxRows > 0, pc' \in {"newest", "delete"}
             PROVE  Cardinality({ev \in log' : ev.seq > cutoff'}) <= MaxRows
  BY DEF CutCaps
<1> USE ChangeRetentionAssumption
<1>1. /\ log \subseteq hist /\ cutoff \in Nat /\ cutoff' \in Nat
      /\ \A ev \in hist : ev.seq \in Nat /\ ev.seq # 0
  BY DEF MarkInv, TypeInv, Event
<1>2. backend' = backend /\ ~Postgres
  <2>1. backend' = backend
    BY DEF Next, Tick, Insert, Commit, Rollback, Look, BeginPrune, ReadAge, ReadRows, ReadNewest,
           DeletePruned, AbandonPrune, vars
  <2>2. QED
    BY <2>1 DEF Postgres
<1>3. ASSUME UNCHANGED <<log, cutoff, pc>>
      PROVE  Cardinality({ev \in log' : ev.seq > cutoff'}) <= MaxRows
  BY <1>2, <1>3 DEF CutCaps
<1>4. CASE Tick \/ (\E w \in Writers : Insert(w) \/ Rollback(w)) \/ UNCHANGED vars
  BY <1>3, <1>4 DEF Tick, Insert, Rollback, vars
<1>5. ASSUME NEW w \in Writers, Commit(w)
      PROVE  FALSE
  <2>1. lock = w
    BY <1>2, <1>5 DEF Commit, LockInv, Pruning
  <2>2. lock = Pruner
    BY <1>2, <1>5 DEF Commit, LockInv, Pruning
  <2>3. QED
    BY <2>1, <2>2
<1>6. CASE ReadRows
  <2>1. log' = log /\ cutoff' = Larger(cutoff, RowBound)
    BY <1>6 DEF ReadRows, WithRows
  <2>2. /\ IsFiniteSet({ev \in log : ev.seq > RowBound})
        /\ Cardinality({ev \in log : ev.seq > RowBound}) <= MaxRows
        /\ RowBound \in Nat
    BY RowBoundCaps, RowBoundMayGo
  <2>3. RowBound <= cutoff'
    BY <1>1, <2>1, <2>2 DEF Larger
  <2>4. {ev \in log : ev.seq > cutoff'} \in SUBSET {ev \in log : ev.seq > RowBound}
    BY <1>1, <2>2, <2>3
  <2>5. /\ Cardinality({ev \in log : ev.seq > cutoff'})
             <= Cardinality({ev \in log : ev.seq > RowBound})
        /\ IsFiniteSet({ev \in log : ev.seq > cutoff'})
    BY ONLY <2>2, <2>4, FS_Subset
  <2>6. /\ Cardinality({ev \in log : ev.seq > cutoff'}) \in Nat
        /\ Cardinality({ev \in log : ev.seq > RowBound}) \in Nat
    BY ONLY <2>2, <2>5, FS_CardinalityType
  <2>7. QED
    BY <2>1, <2>2, <2>5, <2>6
<1>7. CASE ReadNewest
  <2>1. log' = log /\ cutoff' = KeepNewest(cutoff) /\ pc = "newest"
    BY <1>7 DEF ReadNewest
  <2>2. CASE cutoff' = cutoff
    BY <1>2, <2>1, <2>2 DEF CutCaps
  <2>3. CASE cutoff' # cutoff
    <3>1. log # {} /\ cutoff' = MaxSeq(log) - 1
      BY <2>1, <2>3 DEF KeepNewest
    <3>2. /\ MaxSeq(log) \in Nat /\ (\A ev \in log : ev.seq <= MaxSeq(log))
          /\ (MaxSeq(log) # 0 => \E ev \in log : ev.seq = MaxSeq(log))
      BY <1>1, MaxSeqOfPart
    <3>3. PICK newest \in log : newest.seq = MaxSeq(log)
      BY <1>1, <3>1, <3>2
    <3>4. ASSUME NEW ev \in log, ev.seq > cutoff'
          PROVE  ev = newest
      <4>1. ev.seq = newest.seq
        BY <1>1, <3>1, <3>2, <3>3, <3>4
      <4>2. QED
        BY <1>1, <4>1 DEF MarkInv, SeqsDistinct
    <3>5. {ev \in log : ev.seq > cutoff'} = {newest}
      BY <1>1, <3>1, <3>2, <3>3, <3>4
    <3>6. Cardinality({newest}) = 1
      BY FS_Singleton
    <3>7. QED
      BY <2>1, <3>5, <3>6
  <2>4. QED
    BY <2>2, <2>3
<1>8. CASE Look \/ BeginPrune \/ ReadAge \/ DeletePruned \/ AbandonPrune
  BY <1>8 DEF Look, BeginPrune, ReadAge, DeletePruned, AbandonPrune
<1>9. QED
  BY <1>4, <1>5, <1>6, <1>7, <1>8 DEF Next

-----------------------------------------------------------------------------
(* Theorems *)

(* The invariant holds in every state. *)
LEMMA RetentionHolds == Spec => []RetentionInv
<1>1. Init => RetentionInv
  BY RetentionInit
<1>2. RetentionInv /\ [Next]_vars => RetentionInv'
  <2> SUFFICES ASSUME RetentionInv, [Next]_vars
               PROVE  RetentionInv'
    OBVIOUS
  <2>1. TypeInv' /\ MarkInv'
    BY TypeStep, MarkStep DEF RetentionInv
  <2>2. QED
    BY <2>1, LockStep, TimeStep, CutStep, CapsStep DEF RetentionInv
<1>3. QED
  BY <1>1, <1>2, PTL DEF Spec

(* changefeed.go:1233: whatever is pruned, while whatever is being written, *)
(* the log is the history after the prune mark, the newest event is in it,  *)
(* and no seq is given to two events.                                       *)
THEOREM MarkExactHolds == Spec => []MarkExact
<1>1. RetentionInv => MarkExact
  <2> SUFFICES ASSUME RetentionInv
               PROVE  MarkExact
    OBVIOUS
  <2>1. TypeInv /\ MarkInv
    BY DEF RetentionInv
  <2>2. ASSUME NEW ev \in hist, ev.seq = MaxSeq(hist)
        PROVE  ev \in log
    <3>1. /\ \A x \in hist : x.seq \in Nat /\ x.seq # 0 /\ x.seq <= ev.seq
          /\ pruned \in Nat
      BY <2>1, <2>2, MaxSeqOfPart DEF TypeInv, Event
    <3>2. ev.seq > pruned
      <4>1. CASE pruned = 0
        BY <3>1, <4>1
      <4>2. CASE log # {}
        <5>1. PICK x \in hist : x.seq > pruned
          BY <2>1, <4>2 DEF MarkInv
        <5>2. QED
          BY <3>1, <5>1
      <4>3. QED
        BY <2>1, <4>1, <4>2 DEF MarkInv
    <3>3. QED
      BY <2>1, <3>2 DEF MarkInv
  <2>3. QED
    BY <2>1, <2>2 DEF MarkInv, SeqsDistinct, MarkExact
<1>2. QED
  BY <1>1, RetentionHolds, PTL

(* What leaves the log leaves it in a prune. *)
LEMMA OnlyPruneRemoves ==
    ASSUME [Next]_vars, log \ log' # {} \/ pruned' # pruned
    PROVE  /\ DeletePruned /\ pc = "delete" /\ ~(cutoff <= pruned)
           /\ log' = {ev \in log : ev.seq > cutoff}
<1>1. ~Tick /\ ~Look /\ ~BeginPrune /\ ~ReadAge /\ ~ReadRows /\ ~ReadNewest /\ ~AbandonPrune
      /\ vars' # vars
  BY DEF Tick, Look, BeginPrune, ReadAge, ReadRows, ReadNewest, AbandonPrune, vars
<1>2. \A w \in Writers : ~Insert(w) /\ ~Commit(w) /\ ~Rollback(w)
  BY DEF Insert, Commit, Rollback
<1>3. DeletePruned
  BY <1>1, <1>2 DEF Next
<1>4. QED
  BY <1>3 DEF DeletePruned

(* changefeed.go:1154: what a prune removes is expired when it commits; on  *)
(* PostgreSQL, or lies before an event that is.                             *)
THEOREM PrunesUpToExpiredHolds == Spec => PrunesUpToExpired
<1>1. ASSUME RetentionInv, [Next]_vars, NEW ev \in log \ log'
      PROVE  \/ Expired(ev)
             \/ Postgres /\ \E later \in log : ev.seq < later.seq /\ Expired(later)
  <2>1. pc = "delete" /\ log' = {x \in log : x.seq > cutoff}
    BY <1>1, OnlyPruneRemoves
  <2>2. ev.seq \in Nat /\ cutoff \in Nat
    BY <1>1 DEF RetentionInv, TypeInv, MarkInv, Event
  <2>3. ev.seq <= cutoff
    BY <2>1, <2>2
  <2>4. QED
    BY <1>1, <2>1, <2>3 DEF RetentionInv, CutExpired, Pruning, MayGo
<1>2. RetentionInv /\ [Next]_vars =>
        [\A ev \in log \ log' :
            \/ Expired(ev)
            \/ Postgres /\ \E later \in log : ev.seq < later.seq /\ Expired(later)]_vars
  BY <1>1
<1>3. QED
  BY <1>2, RetentionHolds, PTL DEF Spec, PrunesUpToExpired

(* On SQLite a prune that removes anything leaves at least one event and at *)
(* most MaxRows.                                                            *)
THEOREM RowCapKeptHolds == Spec => RowCapKept
<1>1. ASSUME RetentionInv, RetentionInv', [Next]_vars, pruned' # pruned, MaxRows > 0, ~Postgres
      PROVE  Cardinality(log') \in 1..Larger(MaxRows, 1)
  <2>1. /\ pc = "delete" /\ ~(cutoff <= pruned) /\ log' = {x \in log : x.seq > cutoff}
    BY <1>1, OnlyPruneRemoves
  <2>2. IsFiniteSet(log') /\ log' # {}
    <3>1. IsFiniteSet(hist') /\ log' \in SUBSET hist'
      BY <1>1 DEF RetentionInv, TypeInv, MarkInv
    <3>2. IsFiniteSet(log')
      BY <3>1, FS_Subset
    <3>3. PICK x \in log : cutoff < x.seq
      BY <1>1, <2>1 DEF RetentionInv, CutStays, Pruning
    <3>4. x.seq \in Nat /\ cutoff \in Nat
      BY <1>1 DEF RetentionInv, TypeInv, MarkInv, Event
    <3>5. x \in log'
      BY <2>1, <3>3, <3>4
    <3>6. QED
      BY <3>2, <3>5
  <2>3. Cardinality(log') \in Nat /\ Cardinality(log') # 0
    BY <2>2, FS_CardinalityType, FS_EmptySet
  <2>4. Cardinality(log') <= MaxRows
    BY <1>1, <2>1 DEF RetentionInv, CutCaps
  <2>5. MaxRows \in Nat
    BY ChangeRetentionAssumption
  <2>6. QED
    BY <1>1, <2>3, <2>4, <2>5 DEF Larger
<1>2. RetentionInv /\ RetentionInv' /\ [Next]_vars =>
        [pruned' # pruned /\ MaxRows > 0 /\ ~Postgres
            => Cardinality(log') \in 1..Larger(MaxRows, 1)]_vars
  BY <1>1
<1>3. QED
  BY <1>2, RetentionHolds, PTL DEF Spec, RowCapKept
==============================================================================
