------------------------------ MODULE LockProofs ------------------------------
(***************************************************************************)
(* Proofs about the lock and the turn of the SQLite store.                 *)
(*                                                                         *)
(* Of StoreLock, for any number of calls and of checkpointer turns: a call *)
(* that has returned holds nothing, whichever way it ended, and nothing of *)
(* the checkpointer is left when Close lets go of the handle.  The         *)
(* invariant says of each goroutine that what is left of its call LEADS    *)
(* from what it holds now to holding nothing: there is a table of what it  *)
(* holds between any two of the remaining steps in which every step is one *)
(* it may take there - no lock asked for twice, none given back that it    *)
(* does not have, the handle shut only by one that has waited for the      *)
(* checkpointer.  A wait counts as held: the call goes on when it has it.  *)
(*                                                                         *)
(* Of WriteTurn, which is the channel behind that turn, for any number of  *)
(* goroutines and connections: at most one writer at a time, and a turn    *)
(* that is never lost, never given back twice and never handed to one that *)
(* left the queue.  OneWriter and TurnAccounted are inductive once it is   *)
(* known that a connection in a write transaction is between or inside     *)
(* statements of it.  Every action is one of four operations on the        *)
(* channel: take, give, keep what it has, leave the queue; there is a      *)
(* lemma for each.                                                         *)
(***************************************************************************)
EXTENDS StoreLock, WriteTurn, SequenceTheorems, TLAPS

-----------------------------------------------------------------------------
(* StoreLock *)

(* What a call does, one step at a time. *)
Operations ==
    {"RLock", "RUnlock", "look", "Lock", "Unlock", "closed?", "turn", "give",
     "stop", "join", "shut"}

(* What a goroutine holds, and whether it has told the checkpointer to stop
   and seen it end. *)
Records == [reads : 0..2, writes : BOOLEAN, turn : BOOLEAN, stopped : BOOLEAN, joined : BOOLEAN]
Holdings == {h \in Records : h.writes => h.reads = 0}

(* One step, from holding h to holding k: when it may be taken, and what it
   changes. *)
Moves(step, h, k) ==
    \/ step = "RLock" /\ ~h.writes /\ h.reads < 2 /\ k = [h EXCEPT !.reads = h.reads + 1]
    \/ step = "RUnlock" /\ h.reads > 0 /\ k = [h EXCEPT !.reads = h.reads - 1]
    \/ step \in {"look", "closed?"} /\ k = h
    \/ step = "Lock" /\ ~h.writes /\ h.reads = 0 /\ k = [h EXCEPT !.writes = TRUE]
    \/ step = "Unlock" /\ h.writes /\ k = [h EXCEPT !.writes = FALSE]
    \/ step = "turn" /\ ~h.turn /\ k = [h EXCEPT !.turn = TRUE]
    \/ step = "give" /\ h.turn /\ k = [h EXCEPT !.turn = FALSE]
    \/ step = "stop" /\ k = [h EXCEPT !.stopped = TRUE]
    \/ step = "join" /\ h.stopped /\ k = [h EXCEPT !.joined = TRUE]
    \/ step = "shut" /\ h.joined /\ k = h

(* Taking the steps of s leads from a to b. *)
Leads(s, a, b) ==
    \E H \in [0..Len(s) -> Holdings] :
        /\ H[0] = a /\ H[Len(s)] = b
        /\ \A i \in 1..Len(s) : Moves(s[i], H[i - 1], H[i])

Free(h) == h.reads = 0 /\ ~h.writes /\ ~h.turn

(* A call that shuts the handle gives each turn back at once: a wait for the
   turn that is given up skips both. *)
EachTurnGiven(s) ==
    (\E i \in 1..Len(s) : s[i] = "shut") =>
        \A i \in 1..Len(s) : s[i] = "turn" => i < Len(s) /\ s[i + 1] = "give"

(* What g holds or waits for. *)
ReadsOf(g) == reads[g] + (IF waits[g] = "reading" THEN 1 ELSE 0)
WritesOf(g) == waits[g] = "writing" \/ (writer.is = "in" /\ writer.who = g)

(* h says what g holds, and no more of the checkpointer than is so. *)
Has(g, h) ==
    /\ h.reads = ReadsOf(g)
    /\ h.writes <=> WritesOf(g)
    /\ h.turn <=> turn = g
    /\ h.stopped => stop
    /\ h.joined => stop /\ Idle(Checkpointer)

(* What is left of a call can be done, and leaves nothing held. *)
OnItsWay(g) ==
    /\ \E a, b \in Holdings : Leads(todo[g], a, b) /\ Has(g, a) /\ Free(b)
    /\ EachTurnGiven(todo[g])

(* Types; that a goroutine reads at most twice follows from OnItsWay. *)
LockType ==
    /\ todo \in [Goroutines -> Seq(Operations)]
    /\ reads \in [Goroutines -> Nat]
    /\ waits \in [Goroutines -> {"none", "reading", "writing"}]
    /\ writer \in [is : {"none", "announced", "in"}, who : Goroutines \cup {Nobody}]
    /\ turn \in Goroutines \cup {Nobody}
    /\ closed \in BOOLEAN /\ stop \in BOOLEAN /\ made \in 0..MaxCalls /\ ticks \in 0..MaxTicks

(* The writer that is announced waits, the one that is in does not. *)
WriterWaits ==
    /\ writer.is = "none" <=> writer.who = Nobody
    /\ writer.is = "announced" => waits[writer.who] = "writing"
    /\ writer.is = "in" => waits[writer.who] = "none"

LockInv ==
    /\ LockType
    /\ WriterWaits
    /\ \A g \in Goroutines : OnItsWay(g)
    /\ \A g \in Callers : g > made => Idle(g)
    /\ ClosedIsQuiet

-----------------------------------------------------------------------------
(* Doing nothing leads nowhere else. *)
LEMMA NoSteps ==
    ASSUME NEW a \in Holdings
    PROVE  Leads(<< >>, a, a)
<1> DEFINE H == [i \in 0..0 |-> a]
<1>1. Len(<< >>) = 0
  OBVIOUS
<1>2. H \in [0..0 -> Holdings] /\ H[0] = a
  OBVIOUS
<1>3. \A i \in 1..0 : FALSE
  OBVIOUS
<1> HIDE DEF H
<1> QED
  BY <1>1, <1>2, <1>3 DEF Leads

(* Nothing left to do: what is held is what the call ends with. *)
LEMMA NoStepsLead ==
    ASSUME NEW a, NEW b, Leads(<< >>, a, b)
    PROVE  a = b
BY DEF Leads

(* A single step leads where it moves. *)
LEMMA OneStep ==
    ASSUME NEW x, NEW a \in Holdings, NEW b \in Holdings, Moves(x, a, b)
    PROVE  Leads(<<x>>, a, b)
<1> DEFINE H == [i \in 0..1 |-> IF i = 0 THEN a ELSE b]
<1>1. Len(<<x>>) = 1 /\ <<x>>[1] = x
  OBVIOUS
<1>2. H \in [0..1 -> Holdings] /\ H[0] = a /\ H[1] = b
  OBVIOUS
<1>3. \A i \in 1..1 : Moves(<<x>>[i], H[i - 1], H[i])
  <2> HIDE DEF H
  <2> SUFFICES Moves(<<x>>[1], H[0], H[1])
    <3>1. \A i \in 1..1 : i = 1 /\ i - 1 = 0
      OBVIOUS
    <3> QED
      BY <3>1
  <2> QED
    BY <1>1, <1>2
<1> QED
  BY <1>1, <1>2, <1>3 DEF Leads

(* One sequence of steps after another. *)
LEMMA TwoParts ==
    ASSUME NEW S, NEW s \in Seq(S), NEW t \in Seq(S), NEW a, NEW b, NEW c,
           Leads(s, a, b), Leads(t, b, c)
    PROVE  Leads(s \o t, a, c)
<1>1. PICK H \in [0..Len(s) -> Holdings] :
          /\ H[0] = a /\ H[Len(s)] = b
          /\ \A i \in 1..Len(s) : Moves(s[i], H[i - 1], H[i])
  BY DEF Leads
<1>2. PICK K \in [0..Len(t) -> Holdings] :
          /\ K[0] = b /\ K[Len(t)] = c
          /\ \A i \in 1..Len(t) : Moves(t[i], K[i - 1], K[i])
  BY DEF Leads
<1> DEFINE m == Len(s)
           n == Len(t)
           G == [i \in 0..(m + n) |-> IF i <= m THEN H[i] ELSE K[i - m]]
<1>3. m \in Nat /\ n \in Nat /\ Len(s \o t) = m + n
  OBVIOUS
<1>4. /\ \A i \in 1..m : (s \o t)[i] = s[i]
      /\ \A i \in (m + 1)..(m + n) : (s \o t)[i] = t[i - m]
  OBVIOUS
<1> HIDE DEF m, n
<1>5. \A i \in 0..(m + n) : i > m => i - m \in 0..n
  BY <1>3
<1>a. H \in [0..m -> Holdings] /\ K \in [0..n -> Holdings] /\ H[m] = b
  BY <1>1, <1>2 DEF m, n
<1>6. G \in [0..(m + n) -> Holdings]
  BY <1>3, <1>5, <1>a
<1>7. \A i \in 0..m : G[i] = H[i]
  BY <1>3
<1>8. \A i \in 0..n : G[m + i] = K[i]
  <2> SUFFICES ASSUME NEW i \in 0..n
               PROVE  G[m + i] = K[i]
    OBVIOUS
  <2>1. CASE i = 0
    BY <2>1, <1>3, <1>1, <1>2, <1>7, <1>a
  <2>2. CASE i # 0
    <3>1. ~(m + i <= m) /\ m + i \in 0..(m + n) /\ (m + i) - m = i
      BY <2>2, <1>3
    <3>2. G[m + i] = K[(m + i) - m]
      BY <3>1
    <3> HIDE DEF G
    <3> QED
      BY <3>1, <3>2
  <2> QED
    BY <2>1, <2>2
<1>9. \A i \in 1..(m + n) : Moves((s \o t)[i], G[i - 1], G[i])
  <2> HIDE DEF G
  <2> SUFFICES ASSUME NEW i \in 1..(m + n)
               PROVE  Moves((s \o t)[i], G[i - 1], G[i])
    OBVIOUS
  <2>1. CASE i <= m
    <3>1. i \in 1..m /\ i \in 0..m /\ i - 1 \in 0..m
      BY <2>1, <1>3
    <3>2. Moves(s[i], H[i - 1], H[i])
      BY <3>1, <1>1 DEF m
    <3> QED
      BY <3>1, <3>2, <1>4, <1>7
  <2>2. CASE ~(i <= m)
    <3> DEFINE j == i - m
    <3>1. /\ i \in (m + 1)..(m + n) /\ j \in 1..n /\ j \in 0..n /\ j - 1 \in 0..n
          /\ m + j = i /\ m + (j - 1) = i - 1
      BY <2>2, <1>3
    <3>2. Moves(t[j], K[j - 1], K[j])
      BY <3>1, <1>2 DEF n
    <3>3. (s \o t)[i] = t[j]
      BY <3>1, <1>4
    <3>4. G[i] = K[j] /\ G[i - 1] = K[j - 1]
      <4> HIDE DEF j
      <4> QED
        BY <3>1, <1>8
    <3> QED
      BY <3>2, <3>3, <3>4
  <2> QED
    BY <2>1, <2>2
<1>10. G[0] = a /\ G[m + n] = c
  BY <1>1, <1>2, <1>3, <1>7, <1>8 DEF n
<1> QED
  <2> HIDE DEF G
  <2> QED
    BY <1>3, <1>6, <1>9, <1>10 DEF Leads

(* The first step of several, and the rest. *)
LEMMA NextStep ==
    ASSUME NEW S, NEW s \in Seq(S), s # << >>, NEW a, NEW c, Leads(s, a, c)
    PROVE  \E b \in Holdings : Moves(Head(s), a, b) /\ Leads(Tail(s), b, c)
<1>1. PICK H \in [0..Len(s) -> Holdings] :
          /\ H[0] = a /\ H[Len(s)] = c
          /\ \A i \in 1..Len(s) : Moves(s[i], H[i - 1], H[i])
  BY DEF Leads
<1> DEFINE t == Tail(s)
           n == Len(t)
           K == [i \in 0..n |-> H[i + 1]]
<1>2. /\ n \in Nat /\ Len(s) = n + 1 /\ Head(s) = s[1]
      /\ \A i \in 1..n : t[i] = s[i + 1]
  OBVIOUS
<1> HIDE DEF n, t
<1>3. \A i \in 0..n : i + 1 \in 0..Len(s)
  BY <1>2
<1>4. K \in [0..n -> Holdings]
  BY <1>3
<1>5. \A i \in 1..n : Moves(t[i], K[i - 1], K[i])
  <2> SUFFICES ASSUME NEW i \in 1..n
               PROVE  Moves(t[i], K[i - 1], K[i])
    OBVIOUS
  <2>1. /\ i + 1 \in 1..Len(s) /\ i \in 0..n /\ i - 1 \in 0..n
        /\ (i + 1) - 1 = i /\ (i - 1) + 1 = i
    BY <1>2
  <2>2. Moves(s[i + 1], H[i], H[i + 1])
    BY <2>1, <1>1
  <2>3. K[i] = H[i + 1] /\ K[i - 1] = H[i]
    BY <2>1
  <2> HIDE DEF K
  <2> QED
    BY <2>2, <2>3, <1>2
<1>6. K[0] = H[1] /\ K[n] = c
  BY <1>1, <1>2
<1>7. H[1] \in Holdings /\ Moves(Head(s), a, H[1])
  <2>1. 1 \in 1..Len(s) /\ 1 \in 0..Len(s) /\ 1 - 1 = 0
    BY <1>2
  <2>2. Moves(s[1], H[0], H[1])
    BY <2>1, <1>1
  <2> QED
    BY <2>1, <2>2, <1>1, <1>2
<1>8. Leads(t, H[1], c)
  <2> HIDE DEF K
  <2> QED
    BY <1>4, <1>5, <1>6 DEF Leads, n
<1> QED
  BY <1>7, <1>8 DEF t

(* Giving the read lock back as often as it is held. *)
LEMMA Unlocks ==
    ASSUME NEW a \in Holdings
    PROVE  Leads([i \in 1..a.reads |-> "RUnlock"], a, [a EXCEPT !.reads = 0])
<1> DEFINE r == a.reads
           s == [i \in 1..r |-> "RUnlock"]
           H == [i \in 0..r |-> [a EXCEPT !.reads = r - i]]
<1>1. a \in Records /\ r \in 0..2
  BY DEF Holdings, Records
<1>2. Len(s) = r
  BY <1>1
<1>3. \A i \in 0..r : [a EXCEPT !.reads = r - i] \in Holdings
  <2> SUFFICES ASSUME NEW i \in 0..r
               PROVE  [a EXCEPT !.reads = r - i] \in Holdings
    OBVIOUS
  <2>1. r - i \in 0..2 /\ (r = 0 => r - i = 0)
    BY <1>1
  <2> QED
    BY <2>1, <1>1 DEF Holdings, Records
<1>4. H \in [0..r -> Holdings]
  BY <1>3
<1>5. H[0] = a /\ H[r] = [a EXCEPT !.reads = 0]
  <2>1. r - 0 = r /\ r - r = 0 /\ 0 \in 0..r /\ r \in 0..r
    BY <1>1
  <2>2. H[0] = [a EXCEPT !.reads = r] /\ H[r] = [a EXCEPT !.reads = 0]
    BY <2>1
  <2>3. [a EXCEPT !.reads = r] = a
    BY <1>1 DEF Records
  <2> QED
    BY <2>2, <2>3
<1>6. \A i \in 1..r : Moves(s[i], H[i - 1], H[i])
  <2> SUFFICES ASSUME NEW i \in 1..r
               PROVE  Moves(s[i], H[i - 1], H[i])
    OBVIOUS
  <2> DEFINE h == [a EXCEPT !.reads = r - (i - 1)]
             k == [a EXCEPT !.reads = r - i]
  <2>1. /\ i \in 0..r /\ i - 1 \in 0..r /\ r - (i - 1) > 0 /\ (r - (i - 1)) - 1 = r - i
    BY <1>1
  <2>2. H[i - 1] = h /\ H[i] = k /\ s[i] = "RUnlock"
    BY <2>1
  <2>3. h.reads = r - (i - 1)
    BY <1>1 DEF Records
  <2>4. k = [h EXCEPT !.reads = h.reads - 1]
    <3>1. [h EXCEPT !.reads = r - i] = k
      BY <1>1 DEF Records
    <3> QED
      BY <3>1, <2>3, <2>1
  <2> HIDE DEF h, k, H, s
  <2> QED
    BY <2>1, <2>2, <2>3, <2>4 DEF Moves
<1> HIDE DEF H
<1> QED
  BY <1>2, <1>4, <1>5, <1>6 DEF Leads

(* Steps of a call that leaves the handle open. *)
Plain == Operations \ {"shut"}

(* TwoParts, of steps that leave the handle open. *)
LEMMA PlainParts ==
    ASSUME NEW s \in Seq(Plain), NEW t \in Seq(Plain), NEW a, NEW b, NEW c,
           Leads(s, a, b), Leads(t, b, c)
    PROVE  s \o t \in Seq(Plain) /\ Leads(s \o t, a, c)
<1>1. Leads(s \o t, a, c)
  BY TwoParts
<1> QED
  BY <1>1

(* Two single steps. *)
LEMMA TwoSteps ==
    ASSUME NEW x, NEW y, NEW a \in Holdings, NEW b \in Holdings, NEW c \in Holdings,
           Moves(x, a, b), Moves(y, b, c)
    PROVE  Leads(<<x, y>>, a, c)
<1> DEFINE s == <<x, y>>
           H == [i \in 0..2 |-> IF i = 0 THEN a ELSE IF i = 1 THEN b ELSE c]
<1>1. Len(s) = 2 /\ s[1] = x /\ s[2] = y
  OBVIOUS
<1>2. H \in [0..2 -> Holdings] /\ H[0] = a /\ H[1] = b /\ H[2] = c
  OBVIOUS
<1> HIDE DEF s, H
<1>3. \A i \in 1..2 : Moves(s[i], H[i - 1], H[i])
  <2>1. \A i \in 1..2 : (i = 1 /\ i - 1 = 0) \/ (i = 2 /\ i - 1 = 1)
    OBVIOUS
  <2> QED
    BY <2>1, <1>1, <1>2
<1>4. Leads(s, a, c)
  BY <1>1, <1>2, <1>3 DEF Leads
<1> QED
  BY <1>4 DEF s

(* TwoParts, of any steps. *)
LEMMA OperationParts ==
    ASSUME NEW s \in Seq(Operations), NEW t \in Seq(Operations), NEW a, NEW b, NEW c,
           Leads(s, a, b), Leads(t, b, c)
    PROVE  s \o t \in Seq(Operations) /\ Leads(s \o t, a, c)
<1>1. Leads(s \o t, a, c)
  BY TwoParts
<1> QED
  BY <1>1

(* What a goroutine holds that has not begun anything. *)
Begins == [reads |-> 0, writes |-> FALSE, turn |-> FALSE, stopped |-> FALSE, joined |-> FALSE]

(* Before a call nothing is held. *)
LEMMA BeginsFree ==
    Begins \in Holdings /\ Free(Begins)
BY DEF Begins, Holdings, Records, Free

(* A statement that writes gives its turn back. *)
LEMMA WritesLeads ==
    ASSUME NEW a \in Holdings, ~a.turn
    PROVE  Leads(Writes, a, a)
<1> DEFINE b == [a EXCEPT !.turn = TRUE]
<1>1. b \in Holdings /\ [b EXCEPT !.turn = FALSE] = a /\ b.turn
  BY DEF Holdings, Records
<1>2. Moves("turn", a, b)
  BY DEF Moves
<1>3. Moves("give", b, a)
  <2> HIDE DEF b
  <2> QED
    BY <1>1 DEF Moves
<1> QED
  BY <1>1, <1>2, <1>3, TwoSteps DEF Writes

(* A read inside a call gives the lock back. *)
LEMMA InnerReadLeads ==
    ASSUME NEW a \in Holdings, ~a.writes, a.reads < 2
    PROVE  Leads(InnerRead, a, a)
<1> DEFINE b == [a EXCEPT !.reads = a.reads + 1]
<1>0. a \in Records
  BY DEF Holdings
<1>1. b \in Holdings /\ b.reads > 0
  BY <1>0 DEF Holdings, Records
<1>1a. [b EXCEPT !.reads = b.reads - 1] = a
  <2>1. b.reads = a.reads + 1 /\ b.reads - 1 = a.reads
    BY <1>0 DEF Records
  <2>2. [b EXCEPT !.reads = a.reads] = a
    BY <1>0 DEF Records
  <2> QED
    BY <2>1, <2>2
<1>2a. Moves("RLock", a, b)
  BY DEF Moves
<1>2b. Moves("closed?", b, b) /\ Moves("RUnlock", b, a)
  <2> HIDE DEF b
  <2> QED
    BY <1>1, <1>1a DEF Moves
<1>2. Moves("RLock", a, b) /\ Moves("closed?", b, b) /\ Moves("RUnlock", b, a)
  BY <1>2a, <1>2b
<1>3. Leads(<<"RLock", "closed?">>, a, b) /\ Leads(<<"RUnlock">>, b, a)
  BY <1>1, <1>2, TwoSteps, OneStep
<1>4. /\ InnerRead = <<"RLock", "closed?">> \o <<"RUnlock">>
      /\ <<"RLock", "closed?">> \in Seq(Operations) /\ <<"RUnlock">> \in Seq(Operations)
  BY DEF InnerRead, Operations
<1> QED
  BY <1>3, <1>4, TwoParts

(* The write lock, taken and given back. *)
LEMMA LockUnlock ==
    ASSUME NEW a \in Holdings, ~a.writes, a.reads = 0
    PROVE  Leads(<<"Lock", "Unlock">>, a, a)
<1> DEFINE b == [a EXCEPT !.writes = TRUE]
<1>1. b \in Holdings /\ [b EXCEPT !.writes = FALSE] = a /\ b.writes
  BY DEF Holdings, Records
<1>2. Moves("Lock", a, b)
  BY DEF Moves
<1>3. Moves("Unlock", b, a)
  <2> HIDE DEF b
  <2> QED
    BY <1>1 DEF Moves
<1> QED
  BY <1>1, <1>2, <1>3, TwoSteps

(* DeleteBatch and its like end with nothing held. *)
LEMMA ExclusiveLeads ==
    ASSUME NEW a \in Holdings, Free(a)
    PROVE  Exclusive \in Seq(Plain) /\ Leads(Exclusive, a, a)
<1> DEFINE b == [a EXCEPT !.writes = TRUE]
<1>0. a \in Records /\ a.reads = 0 /\ ~a.writes /\ ~a.turn
  BY DEF Holdings, Free
<1>1. b \in Holdings /\ b.writes /\ ~b.turn
  BY <1>0 DEF Holdings, Records
<1>1a. [b EXCEPT !.writes = FALSE] = a
  BY <1>0 DEF Records
<1>2. Moves("Lock", a, b)
  BY <1>0 DEF Moves
<1> HIDE DEF b
<1>3. Moves("closed?", b, b) /\ Moves("Unlock", b, a)
  BY <1>1, <1>1a DEF Moves
<1>4. Leads(<<"Lock", "closed?">>, a, b) /\ Leads(<<"Unlock">>, b, a)
  BY <1>1, <1>2, <1>3, TwoSteps, OneStep
<1>5. Leads(Writes, b, b)
  BY <1>1, WritesLeads
<1>6. /\ <<"Lock", "closed?">> \in Seq(Plain) /\ Writes \in Seq(Plain)
      /\ <<"Unlock">> \in Seq(Plain)
  BY DEF Writes, Plain, Operations
<1>7. <<"Lock", "closed?">> \o Writes \in Seq(Plain) /\ Leads(<<"Lock", "closed?">> \o Writes, a, b)
  BY <1>4, <1>5, <1>6, PlainParts
<1>8. Exclusive \in Seq(Plain) /\ Leads(Exclusive, a, a)
  BY <1>4, <1>6, <1>7, PlainParts DEF Exclusive
<1> QED
  BY <1>8

(* Upsert ends with nothing held, although it reads inside a read. *)
LEMMA UpsertLeads ==
    ASSUME NEW a \in Holdings, Free(a)
    PROVE  Upsert \in Seq(Plain) /\ Leads(Upsert, a, a)
<1> DEFINE b == [a EXCEPT !.reads = a.reads + 1]
           p1 == <<"look", "closed?">>
           p2 == <<"Lock", "Unlock">>
           p3 == <<"RLock">>
           p4 == <<"RUnlock">>
<1>0. a \in Records /\ a.reads = 0 /\ ~a.writes /\ ~a.turn
  BY DEF Holdings, Free
<1>1. b \in Holdings /\ b.reads = 1 /\ ~b.writes /\ ~b.turn
  BY <1>0 DEF Holdings, Records
<1>1a. [b EXCEPT !.reads = b.reads - 1] = a
  <2>1. b.reads - 1 = 0
    BY <1>0 DEF Records
  <2>2. [b EXCEPT !.reads = 0] = a
    BY <1>0 DEF Records
  <2> QED
    BY <2>1, <2>2
<1>2. Moves("RLock", a, b)
  BY <1>0 DEF Moves
<1> HIDE DEF b
<1>3. Moves("RUnlock", b, a) /\ Moves("look", a, a) /\ Moves("closed?", a, a)
  BY <1>1, <1>1a DEF Moves
<1>4. Leads(p1, a, a) /\ Leads(p3, a, b) /\ Leads(p4, b, a)
  BY <1>1, <1>2, <1>3, TwoSteps, OneStep
<1>5. Leads(p2, a, a)
  BY LockUnlock DEF Free
<1>6. Leads(InnerRead, b, b) /\ Leads(Writes, b, b)
  BY <1>1, InnerReadLeads, WritesLeads
<1>7. /\ p1 \in Seq(Plain) /\ p2 \in Seq(Plain) /\ p3 \in Seq(Plain) /\ p4 \in Seq(Plain)
      /\ InnerRead \in Seq(Plain) /\ Writes \in Seq(Plain)
  BY DEF InnerRead, Writes, Plain, Operations
<1>8. <<"look", "closed?", "Lock", "Unlock", "RLock">> = (p1 \o p2) \o p3
  OBVIOUS
<1> HIDE DEF p1, p2, p3, p4
<1>9. p1 \o p2 \in Seq(Plain) /\ Leads(p1 \o p2, a, a)
  BY <1>4, <1>5, <1>7, PlainParts
<1>10. (p1 \o p2) \o p3 \in Seq(Plain) /\ Leads((p1 \o p2) \o p3, a, b)
  BY <1>4, <1>7, <1>9, PlainParts
<1> DEFINE q == (p1 \o p2) \o p3
<1> HIDE DEF q
<1>11. q \in Seq(Plain) /\ Leads(q, a, b) /\ Upsert = ((q \o InnerRead) \o Writes) \o p4
  BY <1>8, <1>10 DEF q, p4, Upsert
<1>12. q \o InnerRead \in Seq(Plain) /\ Leads(q \o InnerRead, a, b)
  BY <1>6, <1>7, <1>11, PlainParts
<1>13. (q \o InnerRead) \o Writes \in Seq(Plain) /\ Leads((q \o InnerRead) \o Writes, a, b)
  BY <1>6, <1>7, <1>12, PlainParts
<1>14. Upsert \in Seq(Plain) /\ Leads(Upsert, a, a)
  BY <1>4, <1>7, <1>11, <1>13, PlainParts
<1> QED
  BY <1>14

(* HybridSearch ends with nothing held, although it reads inside a read. *)
LEMMA HybridSearchLeads ==
    ASSUME NEW a \in Holdings, Free(a)
    PROVE  HybridSearch \in Seq(Plain) /\ Leads(HybridSearch, a, a)
<1> DEFINE b == [a EXCEPT !.reads = a.reads + 1]
           p1 == <<"RLock", "closed?">>
           p2 == <<"look", "closed?">>
           p3 == <<"RUnlock">>
<1>0. a \in Records /\ a.reads = 0 /\ ~a.writes /\ ~a.turn
  BY DEF Holdings, Free
<1>1. b \in Holdings /\ b.reads = 1 /\ ~b.writes
  BY <1>0 DEF Holdings, Records
<1>1a. [b EXCEPT !.reads = b.reads - 1] = a
  <2>1. b.reads - 1 = 0
    BY <1>0 DEF Records
  <2>2. [b EXCEPT !.reads = 0] = a
    BY <1>0 DEF Records
  <2> QED
    BY <2>1, <2>2
<1>2. Moves("RLock", a, b)
  BY <1>0 DEF Moves
<1> HIDE DEF b
<1>3. Moves("RUnlock", b, a) /\ Moves("look", b, b) /\ Moves("closed?", b, b)
  BY <1>1, <1>1a DEF Moves
<1>4. Leads(p1, a, b) /\ Leads(p2, b, b) /\ Leads(p3, b, a)
  BY <1>1, <1>2, <1>3, TwoSteps, OneStep
<1>5. Leads(InnerRead, b, b)
  BY <1>1, InnerReadLeads
<1>6. p1 \in Seq(Plain) /\ p2 \in Seq(Plain) /\ p3 \in Seq(Plain) /\ InnerRead \in Seq(Plain)
  BY DEF InnerRead, Plain, Operations
<1>7. <<"RLock", "closed?", "look", "closed?">> = p1 \o p2
  OBVIOUS
<1>8. HybridSearch = ((p1 \o p2) \o InnerRead) \o p3
  BY <1>7 DEF HybridSearch
<1> HIDE DEF p1, p2, p3
<1>9. p1 \o p2 \in Seq(Plain) /\ Leads(p1 \o p2, a, b)
  BY <1>4, <1>6, PlainParts
<1>10. (p1 \o p2) \o InnerRead \in Seq(Plain) /\ Leads((p1 \o p2) \o InnerRead, a, b)
  BY <1>5, <1>6, <1>9, PlainParts
<1>11. HybridSearch \in Seq(Plain) /\ Leads(HybridSearch, a, a)
  BY <1>4, <1>6, <1>8, <1>10, PlainParts
<1> QED
  BY <1>11

(* Ingesting ends with nothing held: it locks after it has given the turn back. *)
LEMMA IngestLeads ==
    ASSUME NEW a \in Holdings, Free(a)
    PROVE  Ingest \in Seq(Plain) /\ Leads(Ingest, a, a)
<1> DEFINE b == [a EXCEPT !.turn = TRUE]
           p1 == <<"turn", "look">>
           p2 == <<"closed?", "give">>
           p3 == <<"Lock", "Unlock">>
<1>0. a \in Records /\ a.reads = 0 /\ ~a.writes /\ ~a.turn
  BY DEF Holdings, Free
<1>1. b \in Holdings /\ b.turn
  BY <1>0 DEF Holdings, Records
<1>1a. [b EXCEPT !.turn = FALSE] = a
  BY <1>0 DEF Records
<1>2. Moves("turn", a, b)
  BY <1>0 DEF Moves
<1> HIDE DEF b
<1>3. Moves("look", b, b) /\ Moves("closed?", b, b) /\ Moves("give", b, a)
  BY <1>1, <1>1a DEF Moves
<1>4. Leads(p1, a, b) /\ Leads(p2, b, a)
  BY <1>1, <1>2, <1>3, TwoSteps
<1>5. Leads(p3, a, a)
  BY LockUnlock DEF Free
<1>6. p1 \in Seq(Plain) /\ p2 \in Seq(Plain) /\ p3 \in Seq(Plain)
  BY DEF Plain, Operations
<1>7. Ingest = ((p1 \o p2) \o p3) \o p3
  BY DEF Ingest
<1> HIDE DEF p1, p2, p3
<1>8. p1 \o p2 \in Seq(Plain) /\ Leads(p1 \o p2, a, a)
  BY <1>4, <1>6, PlainParts
<1>9. (p1 \o p2) \o p3 \in Seq(Plain) /\ Leads((p1 \o p2) \o p3, a, a)
  BY <1>5, <1>6, <1>8, PlainParts
<1>10. Ingest \in Seq(Plain) /\ Leads(Ingest, a, a)
  BY <1>5, <1>6, <1>7, <1>9, PlainParts
<1> QED
  BY <1>10

(* A turn of the checkpointer ends with nothing held. *)
LEMMA CheckpointTurnLeads ==
    ASSUME NEW a \in Holdings, Free(a)
    PROVE  CheckpointTurn \in Seq(Plain) /\ Leads(CheckpointTurn, a, a)
<1> DEFINE p1 == <<"look", "closed?">>
<1>1. Moves("look", a, a) /\ Moves("closed?", a, a)
  BY DEF Moves
<1>2. Leads(p1, a, a) /\ Leads(Writes, a, a)
  <2>1. ~a.turn
    BY DEF Free
  <2> QED
    BY <2>1, <1>1, TwoSteps, WritesLeads
<1>3. p1 \in Seq(Plain) /\ Writes \in Seq(Plain)
  BY DEF Writes, Plain, Operations
<1>4. CheckpointTurn = p1 \o Writes
  BY DEF CheckpointTurn, Writes
<1> HIDE DEF p1
<1>5. CheckpointTurn \in Seq(Plain) /\ Leads(CheckpointTurn, a, a)
  BY <1>2, <1>3, <1>4, PlainParts
<1> QED
  BY <1>5

(* Close ends with nothing held, and shuts the handle after it has joined. *)
LEMMA CloseLeads ==
    ASSUME NEW a \in Holdings, Free(a)
    PROVE  \E b \in Holdings : Leads(Close, a, b) /\ Free(b)
<1> DEFINE d == [a EXCEPT !.stopped = TRUE]
           b == [d EXCEPT !.joined = TRUE]
           c == [b EXCEPT !.writes = TRUE]
           p1 == <<"Lock", "Unlock">>
           p2 == <<"stop", "join">>
           p3 == <<"Lock", "closed?">>
           p4 == <<"shut", "Unlock">>
<1>1. a \in Records /\ a.reads = 0 /\ ~a.writes /\ ~a.turn
  BY DEF Holdings, Free
<1>2. d \in Holdings /\ d.stopped /\ d.reads = 0 /\ ~d.writes /\ ~d.turn
  BY <1>1 DEF Holdings, Records
<1>3. Moves("stop", a, d)
  BY DEF Moves
<1> HIDE DEF d
<1>4. b \in Holdings /\ b.joined /\ b.reads = 0 /\ ~b.writes /\ ~b.turn
  BY <1>2 DEF Holdings, Records
<1>5. Moves("join", d, b)
  BY <1>2 DEF Moves
<1> HIDE DEF b
<1>6. c \in Holdings /\ c.joined /\ c.reads = 0 /\ c.writes /\ ~c.turn
  BY <1>4 DEF Holdings, Records
<1>7. [c EXCEPT !.writes = FALSE] = b
  BY <1>4 DEF Holdings, Records
<1>8. Moves("Lock", b, c)
  BY <1>4 DEF Moves
<1> HIDE DEF c
<1>9. Moves("closed?", c, c) /\ Moves("shut", c, c) /\ Moves("Unlock", c, b)
  BY <1>6, <1>7 DEF Moves
<1>10. Leads(p1, a, a) /\ Leads(Writes, c, c)
  BY <1>1, <1>6, LockUnlock, WritesLeads
<1>11. Leads(p2, a, b) /\ Leads(p3, b, c) /\ Leads(p4, c, b)
  BY <1>2, <1>3, <1>4, <1>5, <1>6, <1>8, <1>9, TwoSteps
<1>12. /\ p1 \in Seq(Operations) /\ p2 \in Seq(Operations) /\ p3 \in Seq(Operations)
       /\ p4 \in Seq(Operations) /\ Writes \in Seq(Operations)
  BY DEF Writes, Operations
<1>13. <<"Lock", "Unlock", "stop", "join", "Lock", "closed?">> = (p1 \o p2) \o p3
  OBVIOUS
<1> DEFINE q == (p1 \o p2) \o p3
           r == q \o Writes
<1>14. Close = (r \o Writes) \o p4
  BY <1>13 DEF Close
<1> HIDE DEF p1, p2, p3, p4
<1>15. p1 \o p2 \in Seq(Operations) /\ Leads(p1 \o p2, a, b)
  BY <1>10, <1>11, <1>12, OperationParts
<1>16. q \in Seq(Operations) /\ Leads(q, a, c)
  BY <1>11, <1>12, <1>15, OperationParts
<1> HIDE DEF q
<1>17. r \in Seq(Operations) /\ Leads(r, a, c)
  BY <1>10, <1>12, <1>16, OperationParts
<1> HIDE DEF r
<1>18. r \o Writes \in Seq(Operations) /\ Leads(r \o Writes, a, c)
  BY <1>10, <1>12, <1>17, OperationParts
<1>19. Leads(Close, a, b)
  BY <1>11, <1>12, <1>14, <1>18, OperationParts
<1> QED
  BY <1>4, <1>19 DEF Free

(* EachTurnGiven, whether the handle is shut or not. *)
AllGiven(s) == \A i \in 1..Len(s) : s[i] = "turn" => i < Len(s) /\ s[i + 1] = "give"

(* One sequence after another, each giving its turns back at once. *)
LEMMA GivenParts ==
    ASSUME NEW s \in Seq(Operations), NEW t \in Seq(Operations), AllGiven(s), AllGiven(t)
    PROVE  s \o t \in Seq(Operations) /\ AllGiven(s \o t)
<1> DEFINE u == s \o t
           m == Len(s)
           n == Len(t)
<1>1. /\ u \in Seq(Operations) /\ m \in Nat /\ n \in Nat /\ Len(u) = m + n
      /\ \A i \in 1..m : u[i] = s[i]
      /\ \A i \in (m + 1)..(m + n) : u[i] = t[i - m]
  OBVIOUS
<1>2. /\ \A i \in 1..m : s[i] = "turn" => i < m /\ s[i + 1] = "give"
      /\ \A i \in 1..n : t[i] = "turn" => i < n /\ t[i + 1] = "give"
  BY DEF AllGiven
<1> HIDE DEF u, m, n
<1>3. ASSUME NEW i \in 1..(m + n), u[i] = "turn"
      PROVE  i < m + n /\ u[i + 1] = "give"
  <2>1. CASE i <= m
    <3>1. i \in 1..m /\ s[i] = "turn"
      BY <1>1, <1>3, <2>1
    <3>2. i < m /\ s[i + 1] = "give"
      BY <1>2, <3>1
    <3>3. i + 1 \in 1..m /\ i < m + n
      BY <1>1, <3>1, <3>2
    <3> QED
      BY <1>1, <3>2, <3>3
  <2>2. CASE ~(i <= m)
    <3> DEFINE j == i - m
    <3>1. i \in (m + 1)..(m + n) /\ j \in 1..n /\ i = m + j
      BY <1>1, <2>2
    <3>2. t[j] = "turn"
      BY <1>1, <1>3, <3>1
    <3>3. j < n /\ t[j + 1] = "give"
      BY <1>2, <3>1, <3>2
    <3>4. i + 1 \in (m + 1)..(m + n) /\ (i + 1) - m = j + 1 /\ i < m + n
      BY <1>1, <3>1, <3>3
    <3> QED
      BY <1>1, <3>3, <3>4
  <2> QED
    BY <2>1, <2>2
<1>4. AllGiven(u)
  BY <1>1, <1>3 DEF AllGiven
<1> QED
  BY <1>1, <1>4 DEF u

(* Close gives each of its turns back at once. *)
LEMMA ClosePrompt ==
    Close \in Seq(Operations) /\ EachTurnGiven(Close)
<1> DEFINE p == <<"Lock", "Unlock", "stop", "join", "Lock", "closed?">>
           q == <<"shut", "Unlock">>
           r == p \o Writes
<1>1. Close = (r \o Writes) \o q
  BY DEF Close
<1>2. /\ p \in Seq(Operations) /\ q \in Seq(Operations) /\ Writes \in Seq(Operations)
  BY DEF Writes, Operations
<1>3. AllGiven(p) /\ AllGiven(q) /\ AllGiven(Writes)
  BY DEF Writes, AllGiven
<1> HIDE DEF p, q
<1>4. r \in Seq(Operations) /\ AllGiven(r)
  BY <1>2, <1>3, GivenParts
<1> HIDE DEF r
<1>5. r \o Writes \in Seq(Operations) /\ AllGiven(r \o Writes)
  BY <1>2, <1>3, <1>4, GivenParts
<1>6. Close \in Seq(Operations) /\ AllGiven(Close)
  BY <1>1, <1>2, <1>3, <1>5, GivenParts
<1> QED
  BY <1>6 DEF AllGiven, EachTurnGiven

(* A call that leaves the handle open. *)
LEMMA PlainGives ==
    ASSUME NEW s \in Seq(Plain)
    PROVE  s \in Seq(Operations) /\ EachTurnGiven(s)
<1>1. \A i \in 1..Len(s) : s[i] \in Plain
  OBVIOUS
<1>2. s \in Seq(Operations)
  BY DEF Plain
<1> QED
  BY <1>1, <1>2 DEF EachTurnGiven, Plain

(* Every call leads from nothing held to nothing held. *)
LEMMA ProgramLeads ==
    ASSUME NEW kind \in Kinds, NEW a \in Holdings, Free(a)
    PROVE  /\ Program(kind) \in Seq(Operations)
           /\ EachTurnGiven(Program(kind))
           /\ \E b \in Holdings : Leads(Program(kind), a, b) /\ Free(b)
<1> DEFINE p == Program(kind)
<1>1. CASE kind = "upsert"
  <2>1. p = Upsert
    BY <1>1 DEF Program
  <2> QED
    BY <2>1, UpsertLeads, PlainGives
<1>2. CASE kind = "hybridSearch"
  <2>1. p = HybridSearch
    BY <1>2 DEF Program
  <2> QED
    BY <2>1, HybridSearchLeads, PlainGives
<1>3. CASE kind = "deleteBatch"
  <2>1. p = Exclusive
    BY <1>3 DEF Program
  <2> QED
    BY <2>1, ExclusiveLeads, PlainGives
<1>4. CASE kind = "ingest"
  <2>1. p = Ingest
    BY <1>4 DEF Program
  <2> QED
    BY <2>1, IngestLeads, PlainGives
<1>5. CASE kind = "close"
  <2>1. p = Close
    BY <1>5 DEF Program
  <2> QED
    BY <2>1, CloseLeads, ClosePrompt
<1> QED
  BY <1>1, <1>2, <1>3, <1>4, <1>5, StoreLockAssumption

(* What is left after a step still gives each turn back. *)
LEMMA TailGives ==
    ASSUME NEW s \in Seq(Operations), s # << >>, EachTurnGiven(s)
    PROVE  Tail(s) \in Seq(Operations) /\ EachTurnGiven(Tail(s))
<1> DEFINE t == Tail(s)
<1>1. /\ t \in Seq(Operations) /\ Len(s) = Len(t) + 1 /\ Len(t) \in Nat
      /\ \A i \in 1..Len(t) : t[i] = s[i + 1]
  OBVIOUS
<1> HIDE DEF t
<1>2. ASSUME NEW k \in 1..Len(t), t[k] = "shut", NEW i \in 1..Len(t), t[i] = "turn"
      PROVE  i < Len(t) /\ t[i + 1] = "give"
  <2>1. k + 1 \in 1..Len(s) /\ i + 1 \in 1..Len(s)
    BY <1>1
  <2>2. s[k + 1] = "shut" /\ s[i + 1] = "turn"
    BY <1>1, <1>2
  <2>3. i + 1 < Len(s) /\ s[(i + 1) + 1] = "give"
    BY <2>1, <2>2 DEF EachTurnGiven
  <2>4. i + 1 \in 1..Len(t)
    BY <1>1, <2>3
  <2> QED
    BY <1>1, <2>3, <2>4
<1>3. EachTurnGiven(t)
  BY <1>2 DEF EachTurnGiven
<1> QED
  BY <1>1, <1>3 DEF t

(* What a return leaves to do leads to nothing held, wherever the call was:
   the rollback and the deferred unlocks fit what it holds. *)
LEMMA DeferredLeads ==
    ASSUME LockType, NEW g \in Goroutines, waits[g] = "none",
           NEW a \in Holdings, Has(g, a)
    PROVE  /\ Deferred(g) \in Seq(Plain)
           /\ \E b \in Holdings : Leads(Deferred(g), a, b) /\ Free(b)
<1> DEFINE first == IF turn = g THEN <<"give">> ELSE << >>
           inside == writer.is = "in" /\ writer.who = g
           second == IF inside THEN <<"Unlock">> ELSE [i \in 1..reads[g] |-> "RUnlock"]
           b == [a EXCEPT !.turn = FALSE]
           c == [b EXCEPT !.reads = 0]
           d == [b EXCEPT !.writes = FALSE]
<1>1. /\ a \in Records /\ a.reads = reads[g] /\ (a.writes <=> inside) /\ (a.turn <=> turn = g)
      /\ (a.writes => a.reads = 0) /\ reads[g] \in Nat
  BY DEF Has, ReadsOf, WritesOf, Holdings, LockType
<1> HIDE DEF inside
<1>2. /\ b \in Holdings /\ b \in Records /\ b.reads = a.reads /\ (b.writes <=> a.writes) /\ ~b.turn
      /\ (~a.turn => b = a)
  BY <1>1 DEF Holdings, Records
<1>3. first \in Seq(Plain) /\ Leads(first, a, b)
  <2>1. CASE turn = g
    <3>1. Moves("give", a, b)
      BY <1>1, <2>1 DEF Moves
    <3>2. Leads(<<"give">>, a, b) /\ <<"give">> \in Seq(Plain)
      <4> HIDE DEF b
      <4>1. <<"give">> \in Seq(Plain)
        BY DEF Plain, Operations
      <4> QED
        BY <1>2, <3>1, <4>1, OneStep
    <3> QED
      BY <2>1, <3>2
  <2>2. CASE turn # g
    <3>1. b = a
      BY <1>1, <1>2, <2>2
    <3>2. Leads(<< >>, a, a) /\ << >> \in Seq(Plain)
      BY NoSteps
    <3> QED
      BY <2>2, <3>1, <3>2
  <2> QED
    BY <2>1, <2>2
<1> HIDE DEF b, first
<1>4. second \in Seq(Plain) /\ \E e \in Holdings : Leads(second, b, e) /\ Free(e)
  <2>1. CASE inside
    <3>1. d \in Holdings /\ Free(d)
      BY <2>1, <1>1, <1>2 DEF Holdings, Records, Free
    <3>2. Moves("Unlock", b, d)
      BY <2>1, <1>1, <1>2 DEF Moves
    <3>3. Leads(<<"Unlock">>, b, d)
      <4> HIDE DEF d
      <4> QED
        BY <3>1, <3>2, <1>2, OneStep
    <3>4. <<"Unlock">> \in Seq(Plain)
      BY DEF Plain, Operations
    <3>5. second = <<"Unlock">>
      BY <2>1
    <3> HIDE DEF d, second
    <3> QED
      BY <3>1, <3>3, <3>4, <3>5
  <2>2. CASE ~inside
    <3>1. c \in Holdings /\ Free(c)
      BY <2>2, <1>1, <1>2 DEF Holdings, Records, Free
    <3>2. second = [i \in 1..b.reads |-> "RUnlock"]
      BY <2>2, <1>1, <1>2
    <3>3. Leads(second, b, c)
      BY <3>2, <1>2, Unlocks
    <3>4. second \in Seq(Plain)
      <4>1. [i \in 1..reads[g] |-> "RUnlock"] \in Seq(Plain)
        BY <1>1 DEF Plain, Operations
      <4> QED
        BY <2>2, <4>1
    <3> HIDE DEF c, second
    <3> QED
      BY <3>1, <3>3, <3>4
  <2> QED
    BY <2>1, <2>2
<1>5. Deferred(g) = first \o second
  BY DEF Deferred, first, inside
<1> HIDE DEF second
<1>6. PICK e \in Holdings : Leads(second, b, e) /\ Free(e)
  BY <1>4
<1>7. first \o second \in Seq(Plain) /\ Leads(first \o second, a, e)
  BY <1>3, <1>4, <1>6, PlainParts
<1> QED
  BY <1>5, <1>6, <1>7

-----------------------------------------------------------------------------
(* A goroutine that takes its next step, by its table. *)
LEMMA Onward ==
    ASSUME LockInv, NEW g \in Goroutines, NEW x, Does(g, x), Goes(g)
    PROVE  /\ waits[g] = "none" /\ todo[g] # << >>
           /\ todo' = [todo EXCEPT ![g] = Tail(todo[g])]
           /\ Tail(todo[g]) \in Seq(Operations)
           /\ EachTurnGiven(Tail(todo[g]))
           /\ \E a, b, c \in Holdings :
                 Has(g, a) /\ Moves(x, a, b) /\ Leads(Tail(todo[g]), b, c) /\ Free(c)
<1>1. waits[g] = "none" /\ todo[g] # << >> /\ Head(todo[g]) = x
  BY DEF Does
<1>2. todo[g] \in Seq(Operations)
  BY DEF LockInv, LockType
<1>3. EachTurnGiven(todo[g])
  BY DEF LockInv, OnItsWay
<1>4. PICK a \in Holdings, c \in Holdings : Leads(todo[g], a, c) /\ Has(g, a) /\ Free(c)
  BY DEF LockInv, OnItsWay
<1>5. PICK b \in Holdings : Moves(x, a, b) /\ Leads(Tail(todo[g]), b, c)
  BY <1>1, <1>2, <1>4, NextStep
<1> QED
  BY <1>1, <1>2, <1>3, <1>4, <1>5, TailGives DEF Goes

(* A goroutine whose own share of the state stands still stays on its way. *)
LEMMA Others ==
    ASSUME LockInv, NEW h \in Goroutines,
           todo'[h] = todo[h], ReadsOf(h)' = ReadsOf(h), WritesOf(h)' <=> WritesOf(h),
           (turn' = h) <=> (turn = h), stop => stop',
           stop /\ Idle(Checkpointer) => Idle(Checkpointer)'
    PROVE  OnItsWay(h)'
<1>1. EachTurnGiven(todo[h])
  BY DEF LockInv, OnItsWay
<1>2. PICK a \in Holdings, c \in Holdings : Leads(todo[h], a, c) /\ Has(h, a) /\ Free(c)
  BY DEF LockInv, OnItsWay
<1>3. Has(h, a)'
  BY <1>2 DEF Has
<1> QED
  BY <1>1, <1>2, <1>3 DEF OnItsWay

(* A step of g, for the goroutines that take none. *)
LEMMA StepKeeps ==
    ASSUME LockInv, NEW g \in Goroutines, todo[g] # << >>,
           NEW s \in Seq(Operations), EachTurnGiven(s), todo' = [todo EXCEPT ![g] = s],
           NEW b \in Holdings, NEW c \in Holdings, Leads(s, b, c), Free(c), Has(g, b)',
           \A h \in Goroutines \ {g} :
               /\ ReadsOf(h)' = ReadsOf(h)
               /\ WritesOf(h)' <=> WritesOf(h)
               /\ (turn' = h) <=> (turn = h),
           reads' \in [Goroutines -> Nat],
           waits' \in [Goroutines -> {"none", "reading", "writing"}],
           writer' \in [is : {"none", "announced", "in"}, who : Goroutines \cup {Nobody}],
           WriterWaits',
           turn' \in Goroutines \cup {Nobody},
           closed' \in BOOLEAN, stop' \in BOOLEAN, stop => stop',
           closed' => closed \/ (stop /\ Idle(Checkpointer)),
           made' = made, ticks' = ticks
    PROVE  LockInv'
<1>1. LockType /\ LockType'
  BY DEF LockInv, LockType
<1>2. \A h \in Goroutines \ {g} : todo'[h] = todo[h]
  BY DEF LockInv, LockType
<1>3. todo'[g] = s
  BY DEF LockInv, LockType
<1>4. Idle(Checkpointer) => Idle(Checkpointer)'
  <2>1. Checkpointer \in Goroutines
    BY DEF Goroutines
  <2> QED
    BY <2>1, <1>2 DEF Idle
<1>5. OnItsWay(g)'
  BY <1>3 DEF OnItsWay
<1>6. \A h \in Goroutines \ {g} : OnItsWay(h)'
  BY <1>2, <1>4, Others
<1>7. \A h \in Callers : h > made => Idle(h)'
  <2> SUFFICES ASSUME NEW h \in Callers, h > made
               PROVE  Idle(h)'
    OBVIOUS
  <2>1. Idle(h) /\ h \in Goroutines
    BY DEF LockInv, Goroutines
  <2>2. h # g
    BY <2>1 DEF Idle
  <2> QED
    BY <2>1, <2>2, <1>2 DEF Idle
<1>8. ClosedIsQuiet'
  BY <1>4 DEF LockInv, ClosedIsQuiet
<1> QED
  <2>1. (\A h \in Callers : h > made => Idle(h))'
    BY <1>7
  <2>2. (\A h \in Goroutines : OnItsWay(h))'
    BY <1>5, <1>6
  <2> QED
    BY <1>1, <1>8, <2>1, <2>2 DEF LockInv

(* RLock, whether the lock is free or a writer is before it. *)
LEMMA RLockKeeps ==
    ASSUME LockInv, NEW g \in Goroutines, RLock(g)
    PROVE  LockInv'
<1>1. /\ waits[g] = "none" /\ todo[g] # << >>
      /\ todo' = [todo EXCEPT ![g] = Tail(todo[g])]
      /\ Tail(todo[g]) \in Seq(Operations)
      /\ EachTurnGiven(Tail(todo[g]))
  BY Onward DEF RLock
<1>2. PICK a \in Holdings, b \in Holdings, c \in Holdings :
          Has(g, a) /\ Moves("RLock", a, b) /\ Leads(Tail(todo[g]), b, c) /\ Free(c)
  BY Onward DEF RLock
<1>3. LockType /\ WriterWaits
  BY DEF LockInv
<1>4. /\ b.reads = a.reads + 1 /\ b.writes = a.writes /\ b.turn = a.turn /\ ~a.writes
      /\ b.stopped = a.stopped /\ b.joined = a.joined
  BY <1>2 DEF Moves, Holdings, Records
<1>5. UNCHANGED <<writer, turn, closed, stop, made, ticks>>
  BY DEF RLock
<1>6. /\ reads' \in [Goroutines -> Nat]
      /\ waits' \in [Goroutines -> {"none", "reading", "writing"}]
      /\ ReadsOf(g)' = ReadsOf(g) + 1
      /\ waits'[g] # "writing"
      /\ \A h \in Goroutines \ {g} : reads'[h] = reads[h] /\ waits'[h] = waits[h]
  <2>1. CASE writer.is = "none"
    <3>1. reads' = [reads EXCEPT ![g] = reads[g] + 1] /\ waits' = waits
      BY <2>1 DEF RLock
    <3> QED
      BY <3>1, <1>1, <1>3 DEF LockType, ReadsOf
  <2>2. CASE writer.is # "none"
    <3>1. reads' = reads /\ waits' = [waits EXCEPT ![g] = "reading"]
      BY <2>2 DEF RLock
    <3>2. waits'[g] = "reading" /\ reads'[g] = reads[g] /\ waits[g] # "reading"
      BY <3>1, <1>1, <1>3 DEF LockType
    <3>3. ReadsOf(g)' = ReadsOf(g) + 1
      BY <3>2, <1>3 DEF LockType, ReadsOf
    <3> QED
      BY <3>1, <3>2, <3>3, <1>3 DEF LockType
  <2> QED
    BY <2>1, <2>2
<1>7. WritesOf(g)' <=> WritesOf(g)
  BY <1>1, <1>5, <1>6 DEF WritesOf
<1>8. \A h \in Goroutines \ {g} :
          ReadsOf(h)' = ReadsOf(h) /\ (WritesOf(h)' <=> WritesOf(h))
  BY <1>5, <1>6 DEF ReadsOf, WritesOf
<1>9. Idle(Checkpointer) => Idle(Checkpointer)'
  BY <1>1, <1>3 DEF Idle, LockType, Goroutines
<1>10. Has(g, b)'
  BY <1>2, <1>4, <1>5, <1>6, <1>7, <1>9 DEF Has
<1>11. WriterWaits'
  <2>1. writer.is = "in" => writer.who # g
    BY <1>2, <1>4 DEF Has, WritesOf
  <2>2. writer.is = "announced" => writer.who # g
    BY <1>1, <1>3 DEF WriterWaits
  <2>3. writer.is # "none" => writer.who \in Goroutines
    BY <1>3 DEF WriterWaits, LockType
  <2> QED
    BY <2>1, <2>2, <2>3, <1>3, <1>5, <1>6 DEF WriterWaits, LockType
<1> QED
  BY <1>1, <1>2, <1>3, <1>5, <1>6, <1>8, <1>10, <1>11, StepKeeps DEF LockType

(* Nothing of the mutex changes. *)
LEMMA MutexStill ==
    ASSUME LockInv, UNCHANGED mutex
    PROVE  /\ reads' \in [Goroutines -> Nat]
           /\ waits' \in [Goroutines -> {"none", "reading", "writing"}]
           /\ writer' \in [is : {"none", "announced", "in"}, who : Goroutines \cup {Nobody}]
           /\ WriterWaits'
           /\ \A h \in Goroutines : ReadsOf(h)' = ReadsOf(h) /\ (WritesOf(h)' <=> WritesOf(h))
BY DEF LockInv, LockType, mutex, WriterWaits, ReadsOf, WritesOf

(* A step that leaves the mutex alone. *)
LEMMA StepBesideMutex ==
    ASSUME LockInv, NEW g \in Goroutines, todo[g] # << >>, UNCHANGED <<mutex, made, ticks>>,
           NEW s \in Seq(Operations), EachTurnGiven(s), todo' = [todo EXCEPT ![g] = s],
           NEW a \in Holdings, Has(g, a),
           NEW b \in Holdings, b.reads = a.reads, b.writes = a.writes,
           b.turn <=> turn' = g, b.stopped => stop',
           b.joined => stop' /\ Idle(Checkpointer)',
           NEW c \in Holdings, Leads(s, b, c), Free(c),
           \A h \in Goroutines \ {g} : (turn' = h) <=> (turn = h),
           turn' \in Goroutines \cup {Nobody},
           closed' \in BOOLEAN, stop' \in BOOLEAN, stop => stop',
           closed' => closed \/ (stop /\ Idle(Checkpointer))
    PROVE  LockInv'
<1>1. UNCHANGED mutex /\ made' = made /\ ticks' = ticks
  OBVIOUS
<1>2. /\ reads' \in [Goroutines -> Nat]
      /\ waits' \in [Goroutines -> {"none", "reading", "writing"}]
      /\ writer' \in [is : {"none", "announced", "in"}, who : Goroutines \cup {Nobody}]
      /\ WriterWaits'
      /\ \A h \in Goroutines : ReadsOf(h)' = ReadsOf(h) /\ (WritesOf(h)' <=> WritesOf(h))
  BY <1>1, MutexStill
<1>3. Has(g, b)'
  BY <1>2 DEF Has
<1>4. \A h \in Goroutines \ {g} :
          /\ ReadsOf(h)' = ReadsOf(h)
          /\ WritesOf(h)' <=> WritesOf(h)
          /\ (turn' = h) <=> (turn = h)
  BY <1>2
<1> QED
  BY <1>1, <1>2, <1>3, <1>4, StepKeeps

(* A step of another goroutine leaves the checkpointer idle. *)
LEMMA StillIdle ==
    ASSUME LockInv, NEW g \in Goroutines, todo[g] # << >>,
           NEW s, todo' = [todo EXCEPT ![g] = s]
    PROVE  Idle(Checkpointer) => Idle(Checkpointer)'
BY DEF LockInv, LockType, Idle, Goroutines

(* An early return, from any point of a call. *)
LEMMA ReturnsKeeps ==
    ASSUME LockInv, NEW g \in Goroutines, todo[g] # << >>, waits[g] = "none", Returns(g),
           UNCHANGED <<mutex, turn, closed, stop, made, ticks>>
    PROVE  LockInv'
<1>1. LockType
  BY DEF LockInv
<1>2. PICK a \in Holdings : Has(g, a)
  BY DEF LockInv, OnItsWay
<1>3. Deferred(g) \in Seq(Plain)
  BY <1>1, <1>2, DeferredLeads
<1>4. PICK c \in Holdings : Leads(Deferred(g), a, c) /\ Free(c)
  BY <1>1, <1>2, DeferredLeads
<1>5. Deferred(g) \in Seq(Operations) /\ EachTurnGiven(Deferred(g))
  BY <1>3, PlainGives
<1>6. todo' = [todo EXCEPT ![g] = Deferred(g)]
  BY DEF Returns
<1>7. Idle(Checkpointer) => Idle(Checkpointer)'
  BY <1>6, StillIdle
<1>8. /\ a.turn <=> turn' = g
      /\ a.stopped => stop'
      /\ a.joined => stop' /\ Idle(Checkpointer)'
  BY <1>2, <1>7 DEF Has
<1>9. /\ turn' \in Goroutines \cup {Nobody} /\ closed' \in BOOLEAN /\ stop' \in BOOLEAN
      /\ \A h \in Goroutines \ {g} : (turn' = h) <=> (turn = h)
      /\ closed' => closed \/ (stop /\ Idle(Checkpointer))
      /\ stop => stop'
      /\ UNCHANGED <<mutex, made, ticks>>
  BY <1>1 DEF LockType
<1> QED
  BY <1>2, <1>4, <1>5, <1>6, <1>8, <1>9, StepBesideMutex

(* A step that changes neither the mutex nor the turn. *)
LEMMA GoesKeeps ==
    ASSUME LockInv, NEW g \in Goroutines, NEW x, Does(g, x), Goes(g),
           x \in {"look", "closed?", "stop", "join", "shut"},
           UNCHANGED <<mutex, turn, made, ticks>>,
           stop' \in BOOLEAN, stop => stop', x = "stop" => stop',
           x = "join" => Idle(Checkpointer),
           closed' \in BOOLEAN, x # "shut" => closed' = closed
    PROVE  LockInv'
<1>1. /\ todo[g] # << >> /\ todo' = [todo EXCEPT ![g] = Tail(todo[g])]
      /\ Tail(todo[g]) \in Seq(Operations) /\ EachTurnGiven(Tail(todo[g]))
  BY Onward
<1>2. PICK a \in Holdings, b \in Holdings, c \in Holdings :
          Has(g, a) /\ Moves(x, a, b) /\ Leads(Tail(todo[g]), b, c) /\ Free(c)
  BY Onward
<1>3. Idle(Checkpointer) => Idle(Checkpointer)'
  BY <1>1, StillIdle
<1>4. /\ b.reads = a.reads /\ b.writes = a.writes /\ b.turn = a.turn
      /\ b.stopped => a.stopped \/ x = "stop"
      /\ b.joined => a.joined \/ (x = "join" /\ a.stopped)
      /\ x = "shut" => a.joined
  BY <1>2 DEF Moves, Holdings, Records
<1>5. turn' = turn /\ turn' \in Goroutines \cup {Nobody}
  BY DEF LockInv, LockType
<1>6. /\ a.turn <=> turn = g
      /\ a.stopped => stop
      /\ a.joined => stop /\ Idle(Checkpointer)
  BY <1>2 DEF Has
<1>7. /\ b.turn <=> turn' = g
      /\ b.stopped => stop'
      /\ b.joined => stop' /\ Idle(Checkpointer)'
      /\ closed' => closed \/ (stop /\ Idle(Checkpointer))
  BY <1>3, <1>4, <1>5, <1>6
<1> QED
  BY <1>1, <1>2, <1>4, <1>5, <1>7, StepBesideMutex

(* A look at closed, that finds the store open or returns. *)
LEMMA LooksClosedKeeps ==
    ASSUME LockInv, NEW g \in Goroutines, LooksClosed(g)
    PROVE  LockInv'
<1>1. Does(g, "closed?") /\ todo[g] # << >> /\ waits[g] = "none"
  BY DEF LooksClosed, Does
<1>2. UNCHANGED <<mutex, turn, closed, stop, made, ticks>>
  BY DEF LooksClosed
<1>3. stop' \in BOOLEAN /\ closed' \in BOOLEAN
  BY <1>2 DEF LockInv, LockType
<1>4. CASE closed
  BY <1>1, <1>2, <1>4, ReturnsKeeps DEF LooksClosed
<1>5. CASE ~closed
  <2>1. Goes(g)
    BY <1>5 DEF LooksClosed
  <2> QED
    BY <1>1, <1>2, <1>3, <2>1, GoesKeeps
<1> QED
  BY <1>4, <1>5

(* A look under the read lock. *)
LEMMA LookKeeps ==
    ASSUME LockInv, NEW g \in Goroutines, Look(g)
    PROVE  LockInv'
<1>1. Does(g, "look") /\ Goes(g) /\ UNCHANGED <<mutex, turn, closed, stop, made, ticks>>
  BY DEF Look
<1>2. stop' \in BOOLEAN /\ closed' \in BOOLEAN
  BY <1>1 DEF LockInv, LockType
<1> QED
  BY <1>1, <1>2, GoesKeeps

(* The handle is shut by one that has joined. *)
LEMMA ShutKeeps ==
    ASSUME LockInv, NEW g \in Goroutines, Shut(g)
    PROVE  LockInv'
<1>1. Does(g, "shut") /\ Goes(g) /\ UNCHANGED <<mutex, turn, stop, made, ticks>>
  BY DEF Shut
<1>2. stop' \in BOOLEAN /\ closed' \in BOOLEAN
  BY <1>1 DEF LockInv, LockType, Shut
<1> QED
  BY <1>1, <1>2, GoesKeeps

(* The checkpointer is told to stop. *)
LEMMA StopKeeps ==
    ASSUME LockInv, NEW g \in Goroutines, Stop(g)
    PROVE  LockInv'
<1>1. Does(g, "stop") /\ Goes(g) /\ UNCHANGED <<mutex, turn, closed, made, ticks>> /\ stop' = TRUE
  BY DEF Stop
<1>2. closed' \in BOOLEAN
  BY <1>1 DEF LockInv, LockType
<1> QED
  BY <1>1, <1>2, GoesKeeps

(* The checkpointer is seen to have ended. *)
LEMMA JoinKeeps ==
    ASSUME LockInv, NEW g \in Goroutines, Join(g)
    PROVE  LockInv'
<1>1. /\ Does(g, "join") /\ Goes(g) /\ UNCHANGED <<mutex, turn, closed, stop, made, ticks>>
      /\ Idle(Checkpointer)
  BY DEF Join
<1>2. stop' \in BOOLEAN /\ closed' \in BOOLEAN
  BY <1>1 DEF LockInv, LockType
<1> QED
  BY <1>1, <1>2, GoesKeeps

(* The turn is given back by the one that has it. *)
LEMMA GiveTurnKeeps ==
    ASSUME LockInv, NEW g \in Goroutines, GiveTurn(g)
    PROVE  LockInv'
<1>1. /\ Does(g, "give") /\ Goes(g) /\ turn' = Nobody
      /\ UNCHANGED <<mutex, closed, stop, made, ticks>>
  BY DEF GiveTurn
<1>2. /\ todo[g] # << >> /\ todo' = [todo EXCEPT ![g] = Tail(todo[g])]
      /\ Tail(todo[g]) \in Seq(Operations) /\ EachTurnGiven(Tail(todo[g]))
  BY <1>1, Onward
<1>3. PICK a \in Holdings, b \in Holdings, c \in Holdings :
          Has(g, a) /\ Moves("give", a, b) /\ Leads(Tail(todo[g]), b, c) /\ Free(c)
  BY <1>1, Onward
<1>4. Idle(Checkpointer) => Idle(Checkpointer)'
  BY <1>2, StillIdle
<1>5. /\ b.reads = a.reads /\ b.writes = a.writes /\ a.turn /\ ~b.turn
      /\ b.stopped = a.stopped /\ b.joined = a.joined
  BY <1>3 DEF Moves, Holdings, Records
<1>6. turn = g /\ (a.stopped => stop) /\ (a.joined => stop /\ Idle(Checkpointer))
  BY <1>3, <1>5 DEF Has
<1>7. \A h \in Goroutines : h # Nobody
  BY StoreLockAssumption DEF Goroutines, Callers, Checkpointer, Nobody
<1>8. /\ \A h \in Goroutines \ {g} : (turn' = h) <=> (turn = h)
      /\ b.turn <=> turn' = g
      /\ b.stopped => stop'
      /\ b.joined => stop' /\ Idle(Checkpointer)'
      /\ turn' \in Goroutines \cup {Nobody}
  BY <1>1, <1>4, <1>5, <1>6, <1>7
<1>9. /\ closed' \in BOOLEAN /\ stop' \in BOOLEAN
      /\ closed' => closed \/ (stop /\ Idle(Checkpointer))
      /\ stop => stop'
      /\ UNCHANGED <<mutex, made, ticks>>
  BY <1>1 DEF LockInv, LockType
<1> QED
  BY <1>1, <1>2, <1>3, <1>5, <1>8, <1>9, StepBesideMutex

(* The turn is taken when it is free, or the statement fails. *)
LEMMA TakeTurnKeeps ==
    ASSUME LockInv, NEW g \in Goroutines, TakeTurn(g)
    PROVE  LockInv'
<1>1. Does(g, "turn") /\ UNCHANGED <<mutex, closed, stop, made, ticks>>
  BY DEF TakeTurn
<1>2. CASE closed /\ Returns(g) /\ UNCHANGED turn
  <2>1. todo[g] # << >> /\ waits[g] = "none"
    BY <1>1 DEF Does
  <2> QED
    BY <1>1, <1>2, <2>1, ReturnsKeeps
<1>3. CASE turn = Nobody /\ turn' = g /\ Goes(g)
  <2>2. /\ todo[g] # << >> /\ todo' = [todo EXCEPT ![g] = Tail(todo[g])]
        /\ Tail(todo[g]) \in Seq(Operations) /\ EachTurnGiven(Tail(todo[g]))
    BY <1>1, <1>3, Onward
  <2>3. PICK a \in Holdings, b \in Holdings, c \in Holdings :
            Has(g, a) /\ Moves("turn", a, b) /\ Leads(Tail(todo[g]), b, c) /\ Free(c)
    BY <1>1, <1>3, Onward
  <2>4. Idle(Checkpointer) => Idle(Checkpointer)'
    BY <2>2, StillIdle
  <2>5. /\ b.reads = a.reads /\ b.writes = a.writes /\ b.turn
        /\ b.stopped = a.stopped /\ b.joined = a.joined
    BY <2>3 DEF Moves, Holdings, Records
  <2>6. (a.stopped => stop) /\ (a.joined => stop /\ Idle(Checkpointer))
    BY <2>3 DEF Has
  <2>7. \A h \in Goroutines : h # Nobody
    BY StoreLockAssumption DEF Goroutines, Callers, Checkpointer, Nobody
  <2>8. /\ \A h \in Goroutines \ {g} : (turn' = h) <=> (turn = h)
        /\ b.turn <=> turn' = g
        /\ b.stopped => stop'
        /\ b.joined => stop' /\ Idle(Checkpointer)'
        /\ turn' \in Goroutines \cup {Nobody}
    BY <1>1, <1>3, <2>4, <2>5, <2>6, <2>7
  <2>9. /\ closed' \in BOOLEAN /\ stop' \in BOOLEAN
        /\ closed' => closed \/ (stop /\ Idle(Checkpointer))
        /\ stop => stop'
        /\ UNCHANGED <<mutex, made, ticks>>
    BY <1>1 DEF LockInv, LockType
  <2> QED
    BY <1>1, <2>2, <2>3, <2>5, <2>8, <2>9, StepBesideMutex
<1> QED
  BY <1>2, <1>3 DEF TakeTurn

(* RUnlock, of one that reads. *)
LEMMA RUnlockKeeps ==
    ASSUME LockInv, NEW g \in Goroutines, RUnlock(g)
    PROVE  LockInv'
<1>1. /\ waits[g] = "none" /\ todo[g] # << >>
      /\ todo' = [todo EXCEPT ![g] = Tail(todo[g])]
      /\ Tail(todo[g]) \in Seq(Operations)
      /\ EachTurnGiven(Tail(todo[g]))
  BY Onward DEF RUnlock
<1>2. PICK a \in Holdings, b \in Holdings, c \in Holdings :
          Has(g, a) /\ Moves("RUnlock", a, b) /\ Leads(Tail(todo[g]), b, c) /\ Free(c)
  BY Onward DEF RUnlock
<1>3. LockType /\ WriterWaits
  BY DEF LockInv
<1>4. /\ b.reads = a.reads - 1 /\ a.reads > 0 /\ b.writes = a.writes /\ b.turn = a.turn
      /\ b.stopped = a.stopped /\ b.joined = a.joined
  BY <1>2 DEF Moves, Holdings, Records
<1>5. UNCHANGED <<waits, writer, turn, closed, stop, made, ticks>>
  BY DEF RUnlock
<1>6. reads[g] = a.reads /\ reads[g] \in Nat
  BY <1>1, <1>2, <1>3 DEF Has, ReadsOf, LockType
<1>7. reads' = [reads EXCEPT ![g] = reads[g] - 1] /\ reads[g] - 1 \in Nat
  BY <1>4, <1>6 DEF RUnlock
<1>8. /\ reads' \in [Goroutines -> Nat]
      /\ ReadsOf(g)' = ReadsOf(g) - 1
      /\ \A h \in Goroutines \ {g} : ReadsOf(h)' = ReadsOf(h)
      /\ \A h \in Goroutines : WritesOf(h)' <=> WritesOf(h)
  BY <1>1, <1>3, <1>5, <1>7 DEF LockType, ReadsOf, WritesOf
<1>9. Idle(Checkpointer) => Idle(Checkpointer)'
  BY <1>1, StillIdle
<1>10. Has(g, b)'
  BY <1>2, <1>4, <1>5, <1>8, <1>9 DEF Has
<1>11. WriterWaits'
  BY <1>3, <1>5 DEF WriterWaits
<1> QED
  BY <1>1, <1>2, <1>3, <1>5, <1>8, <1>10, <1>11, StepKeeps DEF LockType

(* A writer queues. *)
LEMMA LockKeeps ==
    ASSUME LockInv, NEW g \in Goroutines, Lock(g)
    PROVE  LockInv'
<1>1. /\ waits[g] = "none" /\ todo[g] # << >>
      /\ todo' = [todo EXCEPT ![g] = Tail(todo[g])]
      /\ Tail(todo[g]) \in Seq(Operations)
      /\ EachTurnGiven(Tail(todo[g]))
  BY Onward DEF Lock
<1>2. PICK a \in Holdings, b \in Holdings, c \in Holdings :
          Has(g, a) /\ Moves("Lock", a, b) /\ Leads(Tail(todo[g]), b, c) /\ Free(c)
  BY Onward DEF Lock
<1>3. LockType /\ WriterWaits
  BY DEF LockInv
<1>4. /\ b.reads = a.reads /\ ~a.writes /\ b.writes /\ b.turn = a.turn
      /\ b.stopped = a.stopped /\ b.joined = a.joined
  BY <1>2 DEF Moves, Holdings, Records
<1>5. UNCHANGED <<reads, writer, turn, closed, stop, made, ticks>>
  BY DEF Lock
<1>6. waits' = [waits EXCEPT ![g] = "writing"]
  BY DEF Lock
<1>7. /\ waits' \in [Goroutines -> {"none", "reading", "writing"}]
      /\ waits'[g] = "writing"
      /\ \A h \in Goroutines \ {g} : waits'[h] = waits[h]
  BY <1>3, <1>6 DEF LockType
<1>8. /\ ReadsOf(g)' = ReadsOf(g) /\ WritesOf(g)'
      /\ \A h \in Goroutines \ {g} : ReadsOf(h)' = ReadsOf(h) /\ (WritesOf(h)' <=> WritesOf(h))
  BY <1>1, <1>5, <1>7 DEF ReadsOf, WritesOf
<1>9. Idle(Checkpointer) => Idle(Checkpointer)'
  BY <1>1, StillIdle
<1>10. Has(g, b)'
  BY <1>2, <1>4, <1>5, <1>8, <1>9 DEF Has
<1>11. WriterWaits'
  <2>1. writer.is = "in" => writer.who # g
    BY <1>2, <1>4 DEF Has, WritesOf
  <2>2. writer.is = "announced" => writer.who # g
    BY <1>1, <1>3 DEF WriterWaits
  <2>3. writer.is # "none" => writer.who \in Goroutines
    BY <1>3 DEF WriterWaits, LockType
  <2> QED
    BY <2>1, <2>2, <2>3, <1>3, <1>5, <1>7 DEF WriterWaits, LockType
<1> QED
  BY <1>1, <1>2, <1>3, <1>5, <1>7, <1>8, <1>10, <1>11, StepKeeps DEF LockType

(* The writer leaves and every reader that waits goes in. *)
LEMMA UnlockKeeps ==
    ASSUME LockInv, NEW g \in Goroutines, Unlock(g)
    PROVE  LockInv'
<1>1. /\ waits[g] = "none" /\ todo[g] # << >>
      /\ todo' = [todo EXCEPT ![g] = Tail(todo[g])]
      /\ Tail(todo[g]) \in Seq(Operations)
      /\ EachTurnGiven(Tail(todo[g]))
  BY Onward DEF Unlock
<1>2. PICK a \in Holdings, b \in Holdings, c \in Holdings :
          Has(g, a) /\ Moves("Unlock", a, b) /\ Leads(Tail(todo[g]), b, c) /\ Free(c)
  BY Onward DEF Unlock
<1>3. LockType /\ WriterWaits
  BY DEF LockInv
<1>4. /\ b.reads = a.reads /\ a.writes /\ ~b.writes /\ b.turn = a.turn
      /\ b.stopped = a.stopped /\ b.joined = a.joined
  BY <1>2 DEF Moves, Holdings, Records
<1>5. UNCHANGED <<turn, closed, stop, made, ticks>>
  BY DEF Unlock
<1>6. writer.is = "in" /\ writer.who = g
  BY <1>1, <1>2, <1>4 DEF Has, WritesOf
<1>7. /\ writer' = [is |-> "none", who |-> Nobody]
      /\ reads' = [h \in Goroutines |-> IF waits[h] = "reading" THEN reads[h] + 1 ELSE reads[h]]
      /\ waits' = [h \in Goroutines |-> IF waits[h] = "reading" THEN "none" ELSE waits[h]]
  BY DEF Unlock, Released
<1>8. /\ reads' \in [Goroutines -> Nat]
      /\ waits' \in [Goroutines -> {"none", "reading", "writing"}]
      /\ writer' \in [is : {"none", "announced", "in"}, who : Goroutines \cup {Nobody}]
  <2>1. \A h \in Goroutines : reads[h] \in Nat /\ reads[h] + 1 \in Nat
    BY <1>3 DEF LockType
  <2> QED
    BY <1>3, <1>7, <2>1 DEF LockType
<1>9. \A h \in Goroutines : ReadsOf(h)' = ReadsOf(h)
  <2> SUFFICES ASSUME NEW h \in Goroutines
               PROVE  ReadsOf(h)' = ReadsOf(h)
    OBVIOUS
  <2>1. reads[h] \in Nat
    BY <1>3 DEF LockType
  <2> QED
    BY <1>7, <2>1 DEF ReadsOf
<1>10. /\ \A h \in Goroutines \ {g} : WritesOf(h)' <=> WritesOf(h)
       /\ ~WritesOf(g)'
  BY <1>1, <1>6, <1>7 DEF WritesOf
<1>11. Idle(Checkpointer) => Idle(Checkpointer)'
  BY <1>1, StillIdle
<1>12. Has(g, b)'
  BY <1>2, <1>4, <1>5, <1>9, <1>10, <1>11 DEF Has
<1>13. WriterWaits'
  BY <1>7 DEF WriterWaits
<1> QED
  BY <1>1, <1>2, <1>3, <1>5, <1>8, <1>9, <1>10, <1>12, <1>13, StepKeeps DEF LockType

(* A step of the mutex alone, in no call. *)
LEMMA MutexStep ==
    ASSUME LockInv, UNCHANGED <<todo, reads, turn, closed, stop, made, ticks>>,
           waits' \in [Goroutines -> {"none", "reading", "writing"}],
           writer' \in [is : {"none", "announced", "in"}, who : Goroutines \cup {Nobody}],
           WriterWaits',
           \A h \in Goroutines :
               ReadsOf(h)' = ReadsOf(h) /\ (WritesOf(h)' <=> WritesOf(h))
    PROVE  LockInv'
<1>1. \A h \in Goroutines : OnItsWay(h)'
  BY Others DEF Idle
<1>2. LockType'
  BY DEF LockInv, LockType
<1>3. ClosedIsQuiet' /\ \A h \in Callers : h > made' => Idle(h)'
  BY DEF LockInv, ClosedIsQuiet, Idle
<1> QED
  BY <1>1, <1>2, <1>3 DEF LockInv

(* The next writer is announced. *)
LEMMA AnnounceKeeps ==
    ASSUME LockInv, NEW g \in Goroutines, Announce(g)
    PROVE  LockInv'
<1>1. /\ waits[g] = "writing" /\ writer.is = "none"
      /\ writer' = [is |-> "announced", who |-> g]
      /\ UNCHANGED <<todo, reads, waits, turn, closed, stop, made, ticks>>
  BY DEF Announce
<1>2. g # Nobody
  BY StoreLockAssumption DEF Goroutines, Callers, Checkpointer, Nobody
<1>3. WriterWaits'
  BY <1>1, <1>2 DEF WriterWaits
<1>4. /\ waits' \in [Goroutines -> {"none", "reading", "writing"}]
      /\ writer' \in [is : {"none", "announced", "in"}, who : Goroutines \cup {Nobody}]
  BY <1>1 DEF LockInv, LockType
<1>5. \A h \in Goroutines : ReadsOf(h)' = ReadsOf(h) /\ (WritesOf(h)' <=> WritesOf(h))
  BY <1>1 DEF ReadsOf, WritesOf
<1> QED
  BY <1>1, <1>3, <1>4, <1>5, MutexStep

(* The announced writer goes in. *)
LEMMA EnterKeeps ==
    ASSUME LockInv, NEW g \in Goroutines, Enter(g)
    PROVE  LockInv'
<1>1. /\ writer = [is |-> "announced", who |-> g]
      /\ writer' = [writer EXCEPT !.is = "in"]
      /\ waits' = [waits EXCEPT ![g] = "none"]
      /\ UNCHANGED <<todo, reads, turn, closed, stop, made, ticks>>
  BY DEF Enter
<1>2. LockType /\ WriterWaits
  BY DEF LockInv
<1>3. g # Nobody
  BY StoreLockAssumption DEF Goroutines, Callers, Checkpointer, Nobody
<1>4. /\ writer.is = "announced" /\ writer.who = g /\ waits[g] = "writing"
      /\ writer'.is = "in" /\ writer'.who = g
      /\ writer' \in [is : {"none", "announced", "in"}, who : Goroutines \cup {Nobody}]
  BY <1>1, <1>2 DEF WriterWaits
<1>5. /\ waits' \in [Goroutines -> {"none", "reading", "writing"}]
      /\ waits'[g] = "none"
      /\ \A h \in Goroutines \ {g} : waits'[h] = waits[h]
  BY <1>1, <1>2 DEF LockType
<1>6. WriterWaits'
  BY <1>3, <1>4, <1>5 DEF WriterWaits
<1>7. \A h \in Goroutines : ReadsOf(h)' = ReadsOf(h) /\ (WritesOf(h)' <=> WritesOf(h))
  BY <1>1, <1>4, <1>5 DEF ReadsOf, WritesOf
<1> QED
  BY <1>1, <1>4, <1>5, <1>6, <1>7, MutexStep

(* The step after the next. *)
LEMMA SecondStep ==
    ASSUME NEW S, NEW s \in Seq(S), 1 < Len(s)
    PROVE  Tail(s) # << >> /\ Head(Tail(s)) = s[2]
<1> DEFINE t == Tail(s)
<1>1. /\ t \in Seq(S) /\ Len(t) = Len(s) - 1 /\ Len(s) \in Nat
      /\ \A i \in 1..Len(t) : t[i] = s[i + 1]
  OBVIOUS
<1> HIDE DEF t
<1>2. 1 \in 1..Len(t) /\ t[1] = s[1 + 1]
  BY <1>1
<1>3. t # << >> /\ Head(t) = t[1]
  BY <1>1, <1>2
<1> QED
  BY <1>2, <1>3 DEF t

(* A wait for the turn that is given up: Close goes on, any other call returns. *)
LEMMA TurnTimesOutKeeps ==
    ASSUME LockInv, NEW g \in Goroutines, TurnTimesOut(g)
    PROVE  LockInv'
<1> DEFINE s == todo[g]
           t == Tail(s)
           u == Tail(t)
           shuts == \E i \in DOMAIN s : s[i] = "shut"
<1>1. /\ Does(g, "turn") /\ waits[g] = "none" /\ s # << >> /\ Head(s) = "turn"
      /\ UNCHANGED <<mutex, turn, closed, stop, made, ticks>>
  BY DEF TurnTimesOut, LongWait, Does
<1>2. LockType
  BY DEF LockInv
<1>3. s \in Seq(Operations) /\ EachTurnGiven(s)
  BY DEF LockInv, LockType, OnItsWay
<1>4. CASE ~shuts
  <2>1. Returns(g)
    BY <1>4 DEF TurnTimesOut
  <2> QED
    BY <1>1, <2>1, ReturnsKeeps
<1>5. CASE shuts
  <2>1. todo' = [todo EXCEPT ![g] = SubSeq(s, Len(Writes) + 1, Len(s))]
    BY <1>5 DEF TurnTimesOut
  <2>2. Len(Writes) + 1 = 3
    BY DEF Writes
  <2>3. 1 < Len(s) /\ s[2] = "give"
    <3>1. Len(s) \in Nat /\ 1 \in 1..Len(s) /\ s[1] = "turn" /\ DOMAIN s = 1..Len(s) /\ 1 + 1 = 2
      BY <1>1, <1>3
    <3>2. \E i \in 1..Len(s) : s[i] = "shut"
      BY <1>5, <3>1
    <3>3. \A i \in 1..Len(s) : s[i] = "turn" => i < Len(s) /\ s[i + 1] = "give"
      BY <1>3, <3>2 DEF EachTurnGiven
    <3> QED
      BY <3>1, <3>3
  <2>4. t \in Seq(Operations) /\ t # << >> /\ Head(t) = "give" /\ EachTurnGiven(t)
    <3>1. t \in Seq(Operations) /\ EachTurnGiven(t)
      BY <1>1, <1>3, TailGives
    <3>2. t # << >> /\ Head(t) = s[2]
      BY <1>3, <2>3, SecondStep
    <3> QED
      BY <2>3, <3>1, <3>2
  <2>5. u \in Seq(Operations) /\ EachTurnGiven(u)
    BY <2>4, TailGives
  <2>6. SubSeq(s, 3, Len(s)) = u
    BY <1>3, <2>3
  <2>7. PICK a \in Holdings, c \in Holdings : Leads(s, a, c) /\ Has(g, a) /\ Free(c)
    BY DEF LockInv, OnItsWay
  <2>8. PICK b \in Holdings : Moves("turn", a, b) /\ Leads(t, b, c)
    BY <1>1, <1>3, <2>7, NextStep
  <2>9. PICK d \in Holdings : Moves("give", b, d) /\ Leads(u, d, c)
    BY <2>4, <2>8, NextStep
  <2>10. /\ d.reads = a.reads /\ d.writes = a.writes /\ d.turn = a.turn
         /\ d.stopped = a.stopped /\ d.joined = a.joined
    <3>1. ~a.turn /\ b = [a EXCEPT !.turn = TRUE]
      BY <2>8 DEF Moves
    <3>2. d = [b EXCEPT !.turn = FALSE]
      BY <2>9 DEF Moves
    <3> QED
      BY <3>1, <3>2 DEF Holdings, Records
  <2>11. todo' = [todo EXCEPT ![g] = u]
    BY <2>1, <2>2, <2>6
  <2> HIDE DEF s, t, u
  <2>12. Idle(Checkpointer) => Idle(Checkpointer)'
    BY <1>1, <2>11, StillIdle DEF s
  <2>13. /\ d.turn <=> turn' = g
         /\ d.stopped => stop'
         /\ d.joined => stop' /\ Idle(Checkpointer)'
    BY <1>1, <2>7, <2>10, <2>12 DEF Has
  <2>14. /\ turn' \in Goroutines \cup {Nobody} /\ closed' \in BOOLEAN /\ stop' \in BOOLEAN
         /\ \A h \in Goroutines \ {g} : (turn' = h) <=> (turn = h)
         /\ closed' => closed \/ (stop /\ Idle(Checkpointer))
         /\ stop => stop'
         /\ UNCHANGED <<mutex, made, ticks>>
    BY <1>1, <1>2 DEF LockType
  <2>15. todo[g] # << >>
    BY <1>1 DEF s
  <2> QED
    BY <2>5, <2>7, <2>9, <2>10, <2>11, <2>13, <2>14, <2>15, StepBesideMutex
<1> QED
  BY <1>4, <1>5

(* A goroutine that does nothing has nothing. *)
LEMMA IdleFree ==
    ASSUME LockInv, NEW g \in Goroutines, Idle(g)
    PROVE  /\ EachTurnGiven(todo[g])
           /\ \E a \in Holdings : Has(g, a) /\ Free(a)
<1>1. PICK a \in Holdings, c \in Holdings : Leads(todo[g], a, c) /\ Has(g, a) /\ Free(c)
  BY DEF LockInv, OnItsWay
<1>2. a = c
  BY <1>1, NoStepsLead DEF Idle
<1> QED
  BY <1>1, <1>2 DEF LockInv, OnItsWay

(* A goroutine begins. *)
LEMMA StartKeeps ==
    ASSUME LockInv, NEW g \in Goroutines, NEW s \in Seq(Operations), EachTurnGiven(s),
           todo' = [todo EXCEPT ![g] = s],
           NEW a \in Holdings, Has(g, a), NEW c \in Holdings, Leads(s, a, c), Free(c),
           UNCHANGED <<mutex, turn, closed, stop>>,
           g = Checkpointer => ~stop,
           made' \in 0..MaxCalls, ticks' \in 0..MaxTicks,
           g \in Callers => g <= made', made' >= made
    PROVE  LockInv'
<1>1. LockType
  BY DEF LockInv
<1>2. todo'[g] = s /\ \A h \in Goroutines \ {g} : todo'[h] = todo[h]
  BY <1>1 DEF LockType
<1>3. stop /\ Idle(Checkpointer) => Idle(Checkpointer)'
  <2>1. Checkpointer \in Goroutines
    BY DEF Goroutines
  <2> QED
    BY <2>1, <1>2 DEF Idle
<1>4. UNCHANGED mutex
  OBVIOUS
<1>5. /\ reads' \in [Goroutines -> Nat]
      /\ waits' \in [Goroutines -> {"none", "reading", "writing"}]
      /\ writer' \in [is : {"none", "announced", "in"}, who : Goroutines \cup {Nobody}]
      /\ WriterWaits'
      /\ \A h \in Goroutines : ReadsOf(h)' = ReadsOf(h) /\ (WritesOf(h)' <=> WritesOf(h))
  BY <1>4, MutexStill
<1>6. Has(g, a)'
  BY <1>3, <1>5 DEF Has
<1>7. OnItsWay(g)'
  BY <1>2, <1>6 DEF OnItsWay
<1>8. \A h \in Goroutines \ {g} : OnItsWay(h)'
  BY <1>2, <1>3, <1>5, Others
<1>9. LockType'
  BY <1>1, <1>5 DEF LockType
<1>10. ClosedIsQuiet'
  BY <1>3 DEF LockInv, ClosedIsQuiet
<1>11. \A h \in Callers : h > made' => Idle(h)'
  <2> SUFFICES ASSUME NEW h \in Callers, h > made'
               PROVE  Idle(h)'
    OBVIOUS
  <2>1. h # g /\ h > made /\ h \in Goroutines
    BY <1>1 DEF LockType, Callers, Goroutines
  <2>2. Idle(h)
    BY <2>1 DEF LockInv
  <2> QED
    BY <1>2, <2>1, <2>2 DEF Idle
<1> QED
  <2>1. (\A h \in Goroutines : OnItsWay(h))' /\ (\A h \in Callers : h > made => Idle(h))'
    BY <1>7, <1>8, <1>11
  <2> QED
    BY <1>5, <1>9, <1>10, <2>1 DEF LockInv

(* A call begins. *)
LEMMA CallKeeps ==
    ASSUME LockInv, NEW kind \in Kinds, Call(kind)
    PROVE  LockInv'
<1> DEFINE g == made + 1
<1>1. LockType
  BY DEF LockInv
<1>2. /\ g \in Callers /\ g \in Goroutines /\ g > made /\ g # Checkpointer
      /\ made' = g /\ made' \in 0..MaxCalls /\ ticks' \in 0..MaxTicks
  BY <1>1, StoreLockAssumption DEF Call, LockType, Callers, Goroutines, Checkpointer
<1>3. Idle(g)
  BY <1>2 DEF LockInv
<1>4. PICK a \in Holdings : Has(g, a) /\ Free(a)
  BY <1>2, <1>3, IdleFree
<1>5. Program(kind) \in Seq(Operations) /\ EachTurnGiven(Program(kind))
  BY <1>4, ProgramLeads
<1>6. PICK c \in Holdings : Leads(Program(kind), a, c) /\ Free(c)
  BY <1>4, ProgramLeads
<1>7. todo' = [todo EXCEPT ![g] = Program(kind)] /\ UNCHANGED <<mutex, turn, closed, stop>>
  BY DEF Call
<1>8. made' >= made /\ (g \in Callers => g <= made') /\ (g = Checkpointer => ~stop)
  BY <1>1, <1>2 DEF LockType
<1> HIDE DEF g
<1> QED
  BY <1>2, <1>4, <1>5, <1>6, <1>7, <1>8, StartKeeps

(* The checkpointer begins a turn, not having been stopped. *)
LEMMA CheckpointTickKeeps ==
    ASSUME LockInv, CheckpointTick
    PROVE  LockInv'
<1>1. LockType
  BY DEF LockInv
<1>2. /\ Idle(Checkpointer) /\ ~stop
      /\ todo' = [todo EXCEPT ![Checkpointer] = CheckpointTurn]
      /\ UNCHANGED <<mutex, turn, closed, stop, made>>
  BY DEF CheckpointTick
<1>3. ticks' \in 0..MaxTicks /\ made' \in 0..MaxCalls /\ made' >= made
  BY <1>1, StoreLockAssumption DEF CheckpointTick, LockType
<1>4. Checkpointer \in Goroutines /\ Checkpointer \notin Callers
  BY StoreLockAssumption DEF Goroutines, Callers, Checkpointer
<1>5. PICK a \in Holdings : Has(Checkpointer, a) /\ Free(a)
  BY <1>2, <1>4, IdleFree
<1>6. CheckpointTurn \in Seq(Operations) /\ EachTurnGiven(CheckpointTurn)
  BY <1>5, CheckpointTurnLeads, PlainGives
<1>7. Leads(CheckpointTurn, a, a)
  BY <1>5, CheckpointTurnLeads
<1> QED
  BY <1>2, <1>3, <1>4, <1>5, <1>6, <1>7, StartKeeps

(* In the beginning nobody does anything. *)
LEMMA LockInitially == Init => LockInv
<1> SUFFICES ASSUME Init
             PROVE  LockInv
  OBVIOUS
<1>1. LockType
  <2>1. 0 \in 0..MaxCalls /\ 0 \in 0..MaxTicks
    BY StoreLockAssumption
  <2>2. todo \in [Goroutines -> Seq(Operations)]
    BY DEF Init
  <2>3. /\ reads \in [Goroutines -> Nat]
        /\ waits \in [Goroutines -> {"none", "reading", "writing"}]
    BY DEF Init
  <2>4. writer \in [is : {"none", "announced", "in"}, who : Goroutines \cup {Nobody}]
    BY DEF Init
  <2>5. turn \in Goroutines \cup {Nobody} /\ closed \in BOOLEAN /\ stop \in BOOLEAN
    BY DEF Init
  <2> QED
    BY <2>1, <2>2, <2>3, <2>4, <2>5 DEF Init, LockType
<1>2. WriterWaits
  BY DEF Init, WriterWaits
<1>3. ASSUME NEW g \in Goroutines
      PROVE  OnItsWay(g)
  <2>1. todo[g] = << >>
    BY DEF Init
  <2>2. g # Nobody
    BY StoreLockAssumption DEF Goroutines, Callers, Checkpointer, Nobody
  <2>3. Has(g, Begins)
    BY <2>2 DEF Init, Has, ReadsOf, WritesOf, Begins
  <2>4. Leads(todo[g], Begins, Begins)
    BY <2>1, BeginsFree, NoSteps
  <2>5. EachTurnGiven(todo[g])
    BY <2>1 DEF EachTurnGiven
  <2> QED
    BY <2>3, <2>4, <2>5, BeginsFree DEF OnItsWay
<1>4. \A g \in Callers : g > made => Idle(g)
  BY DEF Init, Idle, Goroutines
<1>5. ClosedIsQuiet
  BY DEF Init, ClosedIsQuiet
<1> QED
  BY <1>1, <1>2, <1>3, <1>4, <1>5 DEF LockInv

(* Every step keeps the invariant. *)
LEMMA LockStep == LockInv /\ [Next]_vars => LockInv'
<1> SUFFICES ASSUME LockInv, [Next]_vars
             PROVE  LockInv'
  OBVIOUS
<1>1. ASSUME NEW g \in Goroutines, Step(g)
      PROVE  LockInv'
  BY <1>1, LookKeeps, RLockKeeps, RUnlockKeeps, LockKeeps, EnterKeeps, UnlockKeeps,
     LooksClosedKeeps, TakeTurnKeeps, GiveTurnKeeps, TurnTimesOutKeeps, ShutKeeps,
     StopKeeps, JoinKeeps DEF Step
<1>2. ASSUME NEW g \in Goroutines, Announce(g)
      PROVE  LockInv'
  BY <1>2, AnnounceKeeps
<1>3. ASSUME NEW kind \in Kinds, Call(kind)
      PROVE  LockInv'
  BY <1>3, CallKeeps
<1>4. CASE CheckpointTick
  BY <1>4, CheckpointTickKeeps
<1>5. CASE UNCHANGED vars
  <2>1. UNCHANGED mutex /\ UNCHANGED <<todo, reads, turn, closed, stop, made, ticks>>
    BY <1>5 DEF vars, mutex
  <2> QED
    BY <2>1, MutexStill, MutexStep
<1> QED
  BY <1>1, <1>2, <1>3, <1>4, <1>5 DEF Next

(* What the invariant says of calls that have ended and of a closed store. *)
LEMMA LockInvMeans == LockInv => ClosedIsQuiet /\ NothingLeftLocked
<1> SUFFICES ASSUME LockInv
             PROVE  ClosedIsQuiet /\ NothingLeftLocked
  OBVIOUS
<1>1. LockType /\ WriterWaits
  BY DEF LockInv
<1>2. ASSUME NEW g \in Goroutines
      PROVE  reads[g] \in 0..2
  <2>1. PICK a \in Holdings : Has(g, a)
    BY DEF LockInv, OnItsWay
  <2>2. a.reads \in 0..2 /\ reads[g] \in Nat
    BY <1>1 DEF Holdings, Records, LockType
  <2> QED
    BY <2>1, <2>2 DEF Has, ReadsOf
<1>3. TypeOK
  BY <1>1, <1>2 DEF TypeOK, LockType
<1>4. ASSUME NEW g \in Goroutines, Idle(g), waits[g] = "none"
      PROVE  reads[g] = 0 /\ writer.who # g /\ turn # g
  <2>1. PICK a \in Holdings : Has(g, a) /\ Free(a)
    BY <1>4, IdleFree
  <2>2. turn # g /\ ~(writer.is = "in" /\ writer.who = g)
    BY <2>1 DEF Has, Free, WritesOf
  <2>3. reads[g] = 0
    BY <1>1, <1>4, <2>1 DEF Has, Free, ReadsOf, LockType
  <2>4. writer.who # g
    <3>1. writer.is = "announced" => writer.who # g
      BY <1>1, <1>4 DEF WriterWaits
    <3>2. writer.is = "none" => writer.who # g
      BY <1>1, StoreLockAssumption DEF WriterWaits, Goroutines, Callers, Checkpointer, Nobody
    <3> QED
      BY <1>1, <2>2, <3>1, <3>2 DEF LockType
  <2> QED
    BY <2>2, <2>3, <2>4
<1> QED
  BY <1>3, <1>4 DEF LockInv, NothingLeftLocked

(* In every state of every behaviour each call can still end with nothing held. *)
THEOREM LockHolds == Spec => []LockInv
BY LockInitially, LockStep, PTL DEF Spec

(* Close lets go of the handle only when the checkpointer has ended, and it
   starts no turn after that (store_close.go:8). *)
THEOREM ClosedIsQuietHolds == Spec => []ClosedIsQuiet
BY LockHolds, LockInvMeans, PTL

(* Whichever way a call ended - by itself, at a check, with a failed statement,
   by a wait given up - it holds neither lock nor turn. *)
THEOREM NothingLeftLockedHolds == Spec => []NothingLeftLocked
BY LockHolds, LockInvMeans, PTL

-----------------------------------------------------------------------------
(* WriteTurn: the channel behind the turn, with its connections and users *)

TxStates == \A c \in Conns : inTx[c] => pc[c] \in {"tx", "txStmt"}

(* A transaction that holds the turn exists. *)
TxOpen == \A c \in Conns : inTx[c] => tx[c] # "none"

TurnInv == WTTypeOK /\ TxOpen /\ TxStates /\ OneWriter /\ TurnAccounted

(* What TurnInv says of the channel, the queue and the holders. *)
Channel == TxStates /\ OneWriter /\ TurnAccounted

(* The parts of WTTypeOK the channel operations rest on. *)
ChannelType ==
    /\ full \in BOOLEAN
    /\ queue \in Seq(Conns)
    /\ pc \in [Conns -> {"idle", "waitBegin", "begin", "tx", "dropped",
                          "waitStmt", "stmt", "txStmt", "rows"}]
    /\ inTx \in [Conns -> BOOLEAN]

(* A sequence without its k-th element. *)
LEMMA WithoutElement ==
    ASSUME NEW S, NEW q \in Seq(S), NEW k \in 1..Len(q),
           NEW r, r = SubSeq(q, 1, k - 1) \o SubSeq(q, k + 1, Len(q))
    PROVE  /\ r \in Seq(S)
           /\ Len(r) = Len(q) - 1
           /\ \A i \in 1..Len(r) : r[i] = IF i < k THEN q[i] ELSE q[i + 1]
<1> DEFINE a == SubSeq(q, 1, k - 1)
           b == SubSeq(q, k + 1, Len(q))
<1>0. /\ Len(q) \in Nat /\ k \in Int
      /\ \A i \in 1..(k - 1) : q[i] \in S
      /\ \A i \in (k + 1)..Len(q) : q[i] \in S
  OBVIOUS
<1>1. /\ a \in Seq(S)
      /\ Len(a) = k - 1
      /\ \A i \in 1..(k - 1) : a[i] = q[i]
  <2>1. /\ a \in Seq(S)
        /\ Len(a) = IF 1 <= k - 1 THEN (k - 1) - 1 + 1 ELSE 0
        /\ \A i \in 1..((k - 1) - 1 + 1) : a[i] = q[1 + i - 1]
    <3> HIDE DEF a
    <3>1. 1 \in Int /\ k - 1 \in Int
      BY <1>0
    <3> QED BY <1>0, <3>1, SubSeqProperties DEF a
  <2> HIDE DEF a
  <2> QED BY <1>0, <2>1
<1>2. /\ b \in Seq(S)
      /\ Len(b) = Len(q) - k
      /\ \A i \in 1..(Len(q) - k) : b[i] = q[k + i]
  <2>1. /\ b \in Seq(S)
        /\ Len(b) = IF k + 1 <= Len(q) THEN Len(q) - (k + 1) + 1 ELSE 0
        /\ \A i \in 1..(Len(q) - (k + 1) + 1) : b[i] = q[(k + 1) + i - 1]
    <3> HIDE DEF b
    <3>1. k + 1 \in Int /\ Len(q) \in Int
      BY <1>0
    <3> QED BY <1>0, <3>1, SubSeqProperties DEF b
  <2> HIDE DEF b
  <2> QED BY <1>0, <2>1
<1> HIDE DEF a, b
<1>3. r = a \o b
  BY DEF a, b
<1>4. /\ r \in Seq(S)
      /\ Len(r) = Len(a) + Len(b)
      /\ \A i \in 1..(Len(a) + Len(b)) : r[i] = IF i <= Len(a) THEN a[i] ELSE b[i - Len(a)]
  <2>1. a \in Seq(S) /\ b \in Seq(S)
    BY <1>1, <1>2
  <2>2. /\ a \o b \in Seq(S)
        /\ Len(a \o b) = Len(a) + Len(b)
        /\ \A i \in 1..(Len(a) + Len(b)) :
              (a \o b)[i] = IF i <= Len(a) THEN a[i] ELSE b[i - Len(a)]
    BY ONLY <2>1, ConcatProperties, Zenon
  <2> QED BY ONLY <1>3, <2>2, Zenon
<1>5. Len(r) = Len(q) - 1
  <2>1. Len(r) = Len(a) + Len(b) /\ Len(a) = k - 1 /\ Len(b) = Len(q) - k
    BY <1>1, <1>2, <1>4
  <2>2. k \in Int /\ Len(q) \in Int
    BY <1>0
  <2> QED BY ONLY <2>1, <2>2
<1>6. ASSUME NEW i \in 1..Len(r)
      PROVE  r[i] = IF i < k THEN q[i] ELSE q[i + 1]
  <2>1. i \in Int /\ 1 <= i /\ i <= Len(q) - 1
    <3>1. i \in 1..(Len(q) - 1)
      BY <1>5
    <3>2. Len(q) \in Int
      BY <1>0
    <3> QED BY <3>1, <3>2
  <2>2. CASE i < k
    <3>1. i \in 1..(k - 1) /\ i \in 1..(Len(a) + Len(b)) /\ i <= Len(a)
      BY <1>0, <1>1, <1>2, <2>1, <2>2
    <3> QED BY <1>1, <1>4, <2>2, <3>1
  <2>3. CASE ~(i < k)
    <3>1. /\ i \in 1..(Len(a) + Len(b)) /\ ~(i <= Len(a))
          /\ i - Len(a) = i - k + 1
          /\ i - k + 1 \in 1..(Len(q) - k)
          /\ k + (i - k + 1) = i + 1
      BY <1>0, <1>1, <1>2, <2>1, <2>3
    <3> QED BY <1>2, <1>4, <2>3, <3>1
  <2> QED BY <2>2, <2>3
<1> QED BY <1>4, <1>5, <1>6

\* Taking the k-th waiter out of the queue keeps the others in their order.
LEMMA WithoutRight ==
    ASSUME queue \in Seq(Conns), NEW k \in 1..Len(queue)
    PROVE  /\ Without(k) \in Seq(Conns)
           /\ Len(Without(k)) = Len(queue) - 1
           /\ \A i \in 1..Len(Without(k)) :
                 Without(k)[i] = IF i < k THEN queue[i] ELSE queue[i + 1]
<1>1. Without(k) = SubSeq(queue, 1, k - 1) \o SubSeq(queue, k + 1, Len(queue))
  BY DEF Without
<1>2. \A S : \A q \in Seq(S) : \A n \in 1..Len(q) : \A r :
         r = SubSeq(q, 1, n - 1) \o SubSeq(q, n + 1, Len(q)) =>
            /\ r \in Seq(S)
            /\ Len(r) = Len(q) - 1
            /\ \A i \in 1..Len(r) : r[i] = IF i < n THEN q[i] ELSE q[i + 1]
  BY WithoutElement
<1>3. \A r : r = SubSeq(queue, 1, k - 1) \o SubSeq(queue, k + 1, Len(queue)) =>
            /\ r \in Seq(Conns)
            /\ Len(r) = Len(queue) - 1
            /\ \A i \in 1..Len(r) : r[i] = IF i < k THEN queue[i] ELSE queue[i + 1]
  BY <1>2, Zenon
<1> QED BY <1>1, <1>3, Zenon

(* Taking a turn, for a connection that neither holds one nor waits. *)
LEMMA TakeRight ==
    ASSUME ChannelType, Channel,
           NEW c \in Conns, pc[c] \in {"idle", "tx"}, ~inTx[c],
           NEW waiting \in {"waitBegin", "waitStmt"}, NEW granted \in {"begin", "stmt"},
           Take(c, waiting, granted), UNCHANGED inTx
    PROVE  ChannelType' /\ Channel'
<1> USE DEF ChannelType
<1>1. CASE full
  <2>1. /\ queue' = Append(queue, c)
        /\ pc' = [pc EXCEPT ![c] = waiting]
        /\ full' = full
    BY <1>1 DEF Take
  <2>2. ChannelType'
    BY <2>1
  <2>3. \A i \in 1..Len(queue) : queue[i] # c
    BY DEF Channel, TurnAccounted, Waiting
  <2>4. TxStates'
    BY <2>1 DEF Channel, TxStates
  <2>5. \A d \in Conns : Holds(d)' <=> Holds(d)
    BY <2>1 DEF Holds
  <2>6. OneWriter'
    BY <2>5 DEF Channel, OneWriter
  <2>7. /\ full' <=> \E d \in Conns : Holds(d)'
        /\ queue' # << >> => full'
    BY <1>1, <2>1, <2>5 DEF Channel, TurnAccounted
  <2>8. /\ Len(queue') = Len(queue) + 1
        /\ queue'[Len(queue) + 1] = c
        /\ \A i \in 1..Len(queue) : queue'[i] = queue[i]
    BY <2>1
  <2>9. \A d \in Conns : Waiting(d)' <=> \E i \in 1..Len(queue') : queue'[i] = d
    <3> SUFFICES ASSUME NEW d \in Conns
                 PROVE  Waiting(d)' <=> \E i \in 1..Len(queue') : queue'[i] = d
      OBVIOUS
    <3>1. CASE d = c
      BY <2>1, <2>8, <3>1 DEF Waiting
    <3>2. CASE d # c
      BY <2>1, <2>8, <3>2 DEF Waiting, Channel, TurnAccounted
    <3> QED BY <3>1, <3>2
  <2>10. \A i, j \in 1..Len(queue') : queue'[i] = queue'[j] => i = j
    BY <2>3, <2>8 DEF Channel, TurnAccounted
  <2> QED BY <2>2, <2>4, <2>6, <2>7, <2>9, <2>10 DEF Channel, TurnAccounted
<1>2. CASE ~full
  <2>1. /\ full' = TRUE
        /\ pc' = [pc EXCEPT ![c] = granted]
        /\ queue' = queue
        /\ inTx' = inTx
    BY <1>2 DEF Take
  <2>2. \A d \in Conns : ~Holds(d)
    BY <1>2 DEF Channel, TurnAccounted
  <2>3. \A d \in Conns : Holds(d)' <=> d = c
    BY <2>1, <2>2 DEF Holds
  <2>4. TxStates'
    BY <2>1, <2>2 DEF TxStates, Holds
  <2>5. OneWriter'
    BY <2>3 DEF OneWriter
  <2>6. \A d \in Conns : Waiting(d)' <=> Waiting(d)
    BY <2>1 DEF Waiting
  <2>7. TurnAccounted'
    BY <2>1, <2>3, <2>6 DEF TurnAccounted, Channel
  <2> QED BY <2>1, <2>4, <2>5, <2>7 DEF Channel
<1> QED BY <1>1, <1>2

(* Giving the turn back, by the connection that holds it: it goes to the    *)
(* head of the queue or nobody has it.                                      *)
LEMMA GiveRight ==
    ASSUME ChannelType, Channel,
           NEW c \in Conns, Holds(c),
           NEW next \in {"idle", "tx", "dropped"}, Give(c, next),
           inTx' = [inTx EXCEPT ![c] = FALSE]
    PROVE  ChannelType' /\ Channel'
<1> USE DEF ChannelType
<1>0. \A d \in Conns : Holds(d) => d = c
  BY DEF Channel, OneWriter
<1>a. ~Waiting(c)
  BY DEF Channel, TxStates, Holds, Waiting
<1>1. CASE queue = << >>
  <2>1. full' = FALSE /\ pc' = [pc EXCEPT ![c] = next] /\ queue' = queue
    BY <1>1 DEF Give
  <2>2. \A d \in Conns : ~Holds(d)'
    BY <1>0, <2>1 DEF Holds
  <2>3. \A d \in Conns : Waiting(d)' <=> Waiting(d)
    BY <1>a, <2>1 DEF Waiting
  <2>4. TxStates'
    BY <2>2 DEF TxStates, Holds
  <2>5. OneWriter' /\ TurnAccounted'
    BY <1>1, <2>1, <2>2, <2>3 DEF OneWriter, TurnAccounted, Channel
  <2> QED BY <2>1, <2>4, <2>5 DEF Channel
<1>2. CASE queue # << >>
  <2> DEFINE d == queue[1]
  <2>1. Len(queue) \in Nat \ {0} /\ d \in Conns
    BY <1>2
  <2>2. Waiting(d) /\ d # c
    BY <1>a, <2>1 DEF Channel, TurnAccounted
  <2>3. /\ full' = full
        /\ pc' = [pc EXCEPT ![c] = next, ![d] = Granted(pc[d])]
        /\ queue' = Without(1)
    BY <1>2 DEF Give, NextInLine
  <2>4. /\ queue' \in Seq(Conns)
        /\ Len(queue') = Len(queue) - 1
        /\ \A i \in 1..Len(queue') : queue'[i] = queue[i + 1]
    <3>1. queue \in Seq(Conns) /\ 1 \in 1..Len(queue)
      BY <2>1
    <3>2. /\ queue' \in Seq(Conns)
          /\ Len(queue') = Len(queue) - 1
          /\ \A i \in 1..Len(queue') : queue'[i] = IF i < 1 THEN queue[i] ELSE queue[i + 1]
      BY <2>3, <3>1, WithoutRight
    <3>3. \A i \in 1..Len(queue') : ~(i < 1)
      BY <2>1, <3>2
    <3> QED BY <3>2, <3>3
  <2>5. Granted(pc[d]) \in {"begin", "stmt"}
    BY DEF Granted
  <2>6. ChannelType'
    BY <2>1, <2>3, <2>4, <2>5
  <2>7. /\ pc'[d] \in {"begin", "stmt"}
        /\ pc'[c] = next
        /\ \A e \in Conns \ {c, d} : pc'[e] = pc[e]
    BY <2>1, <2>2, <2>3, <2>5
  <2>8. \A e \in Conns : Holds(e)' <=> e = d
    BY <1>0, <2>1, <2>2, <2>7 DEF Holds
  <2>9. \A e \in Conns : inTx'[e] => inTx[e] /\ e # c
    OBVIOUS
  <2>10. \A e \in Conns : ~inTx'[e]
    BY <1>0, <2>9 DEF Holds
  <2>11. TxStates' /\ OneWriter'
    BY <2>8, <2>10 DEF TxStates, OneWriter
  <2>12. \A e \in Conns : Waiting(e)' <=> Waiting(e) /\ e # d
    BY <1>a, <2>2, <2>7 DEF Waiting
  <2>13. \A e \in Conns : Waiting(e)' <=> \E i \in 1..Len(queue') : queue'[i] = e
    <3> SUFFICES ASSUME NEW e \in Conns
                 PROVE  Waiting(e)' <=> \E i \in 1..Len(queue') : queue'[i] = e
      OBVIOUS
    <3>1. ASSUME Waiting(e), e # d
          PROVE  \E i \in 1..Len(queue') : queue'[i] = e
      <4>1. PICK i \in 1..Len(queue) : queue[i] = e
        BY <3>1 DEF Channel, TurnAccounted
      <4>2. i # 1
        BY <3>1, <4>1
      <4>3. i - 1 \in 1..Len(queue') /\ queue'[i - 1] = queue[(i - 1) + 1]
        BY <2>1, <2>4, <4>2
      <4>4. queue[(i - 1) + 1] = e
        BY <4>1
      <4> QED BY <4>3, <4>4
    <3>2. ASSUME NEW i \in 1..Len(queue'), queue'[i] = e
          PROVE  Waiting(e) /\ e # d
      <4>1. i + 1 \in 1..Len(queue) /\ queue[i + 1] = e /\ 1 \in 1..Len(queue) /\ i + 1 # 1
        BY <2>1, <2>4, <3>2
      <4> QED BY <4>1 DEF Channel, TurnAccounted
    <3> QED BY <2>12, <3>1, <3>2
  <2>14. \A i, j \in 1..Len(queue') : queue'[i] = queue'[j] => i = j
    <3> SUFFICES ASSUME NEW i \in 1..Len(queue'), NEW j \in 1..Len(queue'), queue'[i] = queue'[j]
                 PROVE  i = j
      OBVIOUS
    <3>1. i + 1 \in 1..Len(queue) /\ j + 1 \in 1..Len(queue) /\ queue[i + 1] = queue[j + 1]
      BY <2>1, <2>4
    <3> QED BY <3>1 DEF Channel, TurnAccounted
  <2>15. full' /\ d \in Conns
    BY <2>1, <2>3 DEF Give
  <2>16. TurnAccounted'
    BY <2>8, <2>13, <2>14, <2>15 DEF TurnAccounted
  <2> QED BY <2>6, <2>11, <2>16 DEF Channel
<1> QED BY <1>1, <1>2

(* Going on without touching the channel. *)
LEMMA KeepRight ==
    ASSUME ChannelType, Channel,
           NEW c \in Conns, ~Waiting(c),
           NEW next \in {"idle", "tx", "dropped", "txStmt", "rows"}, Keep(c, next),
           inTx' \in [Conns -> BOOLEAN],
           \A d \in Conns \ {c} : inTx'[d] = inTx[d],
           Holds(c)' <=> Holds(c),
           inTx'[c] => next \in {"tx", "txStmt"}
    PROVE  ChannelType' /\ Channel'
<1> USE DEF ChannelType
<1>1. pc' = [pc EXCEPT ![c] = next] /\ full' = full /\ queue' = queue
  BY DEF Keep
<1>2. \A d \in Conns : Holds(d)' <=> Holds(d)
  <2> SUFFICES ASSUME NEW d \in Conns \ {c} PROVE Holds(d)' <=> Holds(d)
    OBVIOUS
  <2> QED BY <1>1 DEF Holds
<1>3. \A d \in Conns : Waiting(d)' <=> Waiting(d)
  BY <1>1 DEF Waiting
<1>4. TxStates'
  BY <1>1 DEF TxStates, Channel
<1>5. OneWriter' /\ TurnAccounted'
  BY <1>1, <1>2, <1>3 DEF OneWriter, TurnAccounted, Channel
<1> QED BY <1>1, <1>4, <1>5 DEF Channel

(* Leaving the queue: the others keep their order, and their turn. *)
LEMMA LeaveRight ==
    ASSUME WTTypeOK, Channel, NEW c \in Conns, GiveUp(c)
    PROVE  ChannelType' /\ Channel'
<1> USE DEF ChannelType
<1>0. ChannelType
  BY DEF WTTypeOK
<1>1. PICK k \in 1..Len(queue) : queue[k] = c /\ queue' = Without(k)
  BY DEF GiveUp
<1>2. /\ Waiting(c)
      /\ pc' = [pc EXCEPT ![c] = Between(c)]
      /\ full' = full
      /\ inTx' = inTx
      /\ Between(c) \in {"idle", "tx"}
  BY DEF GiveUp, Between
<1>4. /\ queue' \in Seq(Conns)
      /\ Len(queue') = Len(queue) - 1
      /\ \A i \in 1..Len(queue') : queue'[i] = IF i < k THEN queue[i] ELSE queue[i + 1]
  <2>1. queue \in Seq(Conns)
    BY <1>0
  <2> QED BY <1>1, <2>1, WithoutRight
<1>5. ChannelType'
  BY <1>0, <1>2, <1>4
<1>6. ~Holds(c)
  BY <1>2 DEF Channel, TxStates, Holds, Waiting
<1>7. \A d \in Conns : Holds(d)' <=> Holds(d)
  BY <1>0, <1>2, <1>6 DEF Holds
<1>8. TxStates'
  BY <1>0, <1>2, <1>6 DEF TxStates, Channel, Holds
<1>9. \A d \in Conns : Waiting(d)' <=> Waiting(d) /\ d # c
  BY <1>0, <1>2 DEF Waiting
<1>10. \A d \in Conns : Waiting(d)' <=> \E i \in 1..Len(queue') : queue'[i] = d
  <2> SUFFICES ASSUME NEW d \in Conns
               PROVE  Waiting(d)' <=> \E i \in 1..Len(queue') : queue'[i] = d
    OBVIOUS
  <2>1. ASSUME Waiting(d), d # c
        PROVE  \E i \in 1..Len(queue') : queue'[i] = d
    <3>1. PICK i \in 1..Len(queue) : queue[i] = d
      BY <2>1 DEF Channel, TurnAccounted
    <3>2. i # k
      BY <1>1, <2>1, <3>1
    <3>3. CASE i < k
      BY <1>0, <1>4, <3>1, <3>3
    <3>4. CASE i > k
      <4>1. i - 1 \in 1..Len(queue') /\ ~(i - 1 < k) /\ (i - 1) + 1 = i
        BY <1>0, <1>4, <3>4
      <4> QED BY <1>4, <3>1, <4>1
    <3> QED BY <3>2, <3>3, <3>4
  <2>2. ASSUME NEW i \in 1..Len(queue'), queue'[i] = d
        PROVE  Waiting(d) /\ d # c
    <3>1. PICK j \in 1..Len(queue) : j # k /\ queue[j] = d
      <4>1. CASE i < k
        BY <1>0, <1>4, <2>2, <4>1
      <4>2. CASE ~(i < k)
        <5>1. i + 1 \in 1..Len(queue) /\ i + 1 # k /\ queue[i + 1] = d
          BY <1>0, <1>4, <2>2, <4>2
        <5> QED BY <5>1
      <4> QED BY <4>1, <4>2
    <3> QED BY <1>1, <3>1 DEF Channel, TurnAccounted
  <2> QED BY <1>9, <2>1, <2>2
<1>11. \A i, j \in 1..Len(queue') : queue'[i] = queue'[j] => i = j
  <2> SUFFICES ASSUME NEW i \in 1..Len(queue'), NEW j \in 1..Len(queue'), queue'[i] = queue'[j]
               PROVE  i = j
    OBVIOUS
  <2> DEFINE at(n) == IF n < k THEN n ELSE n + 1
  <2>1. at(i) \in 1..Len(queue) /\ at(j) \in 1..Len(queue)
    BY <1>0, <1>4
  <2>2. queue[at(i)] = queue[at(j)]
    BY <1>4
  <2>3. at(i) = at(j)
    BY <2>1, <2>2 DEF Channel, TurnAccounted
  <2> QED BY <2>3
<1>12. OneWriter'
  BY <1>7 DEF OneWriter, Channel
<1>13. full
  BY <1>0, <1>1 DEF Channel, TurnAccounted
<1>14. TurnAccounted'
  BY <1>2, <1>7, <1>10, <1>11, <1>13 DEF TurnAccounted, Channel
<1> QED BY <1>5, <1>8, <1>12, <1>14 DEF Channel

\* With no transaction the turn is free and nobody waits.
LEMMA TurnInit == WTInit => TurnInv
<1> SUFFICES ASSUME WTInit PROVE TurnInv
  OBVIOUS
<1>1. WTTypeOK
  <2>1. queue \in Seq(Conns)
    BY EmptySeq DEF WTInit
  <2> QED BY <2>1 DEF WTInit, WTTypeOK
<1>2. \A c \in Conns : ~inTx[c] /\ ~Holds(c) /\ ~Waiting(c)
  BY DEF WTInit, Holds, Waiting
<1>3. queue = << >> /\ Len(queue) = 0 /\ ~full
  BY DEF WTInit
<1>4. 1..Len(queue) = {}
  BY <1>3
<1>5. TxOpen /\ TxStates /\ OneWriter
  BY <1>2 DEF TxOpen, TxStates, OneWriter
<1>6. TurnAccounted
  BY <1>2, <1>3, <1>4 DEF TurnAccounted
<1> QED BY <1>1, <1>5, <1>6 DEF TurnInv

(* Types: what the channel lemmas leave over. *)
LEMMA TxType ==
    ASSUME WTTypeOK, WTNext
    PROVE  /\ tx' \in [Conns -> {"none", "read only", "write"}]
           /\ user' \in [Conns -> Users \cup {NoOne}]
<1> DEFINE Goal == /\ tx' \in [Conns -> {"none", "read only", "write"}]
                   /\ user' \in [Conns -> Users \cup {NoOne}]
<1> SUFFICES Goal
  OBVIOUS
<1> USE DEF WTTypeOK
<1>1. ASSUME NEW c \in Conns, NEW g \in Users, BeginTx(g, c) \/ Statement(g, c)
      PROVE  Goal
  <2>1. tx' = tx /\ user' = [user EXCEPT ![c] = g]
    BY <1>1 DEF BeginTx, Statement
  <2> QED BY <2>1
<1>2. ASSUME NEW c \in Conns, NEW g \in Users, BeginReadOnly(g, c)
      PROVE  Goal
  BY <1>2 DEF BeginReadOnly
<1>3. ASSUME NEW c \in Conns, BeginReturns(c)
      PROVE  Goal
  BY <1>3 DEF BeginReturns
<1>4. ASSUME NEW c \in Conns, BeginFails(c)
      PROVE  Goal
  <2>1. tx' = tx /\ user' = [user EXCEPT ![c] = NoOne]
    BY <1>4 DEF BeginFails
  <2> QED BY <2>1
<1>5. ASSUME NEW c \in Conns, EndTx(c) \/ CancelTx(c)
      PROVE  Goal
  <2>1. tx' = [tx EXCEPT ![c] = "none"] /\ user' = [user EXCEPT ![c] = NoOne]
    BY <1>5 DEF EndTx, CancelTx, End
  <2> QED BY <2>1
<1>6. ASSUME NEW c \in Conns, CloseConn(c) \/ QueryReturnsRows(c)
      PROVE  Goal
  <2>1. tx' = tx /\ user' = user
    BY <1>6 DEF CloseConn, QueryReturnsRows
  <2> QED BY <2>1
<1>7. ASSUME NEW c \in Conns, StatementReturns(c) \/ CloseRows(c) \/ GiveUp(c)
      PROVE  Goal
  <2>1. tx' = tx /\ (user' = user \/ user' = [user EXCEPT ![c] = NoOne])
    BY <1>7 DEF StatementReturns, CloseRows, GiveUp, Freed
  <2> QED BY <2>1
<1> HIDE DEF Goal, WTTypeOK
<1> QED BY <1>1, <1>2, <1>3, <1>4, <1>5, <1>6, <1>7 DEF WTNext

\* A step leaves no transaction holding the turn without existing.
LEMMA OpenStep ==
    ASSUME WTTypeOK, TxOpen, WTNext
    PROVE  TxOpen'
<1>1. PICK c \in Conns :
        \/ \E g \in Users : BeginTx(g, c) \/ BeginReadOnly(g, c) \/ Statement(g, c)
        \/ BeginReturns(c) \/ BeginFails(c)
        \/ EndTx(c) \/ CancelTx(c) \/ CloseConn(c)
        \/ StatementReturns(c) \/ QueryReturnsRows(c) \/ CloseRows(c)
        \/ GiveUp(c)
  BY DEF WTNext
<1>2. CASE UNCHANGED <<inTx, tx>>
  BY <1>2 DEF TxOpen
<1>3. CASE \E g \in Users : BeginReadOnly(g, c)
  BY <1>3 DEF BeginReadOnly, WTTypeOK, TxOpen
<1>4. CASE BeginReturns(c)
  BY <1>4 DEF BeginReturns, WTTypeOK, TxOpen
<1>5. CASE EndTx(c) \/ CancelTx(c)
  BY <1>5 DEF EndTx, CancelTx, End, WTTypeOK, TxOpen
<1>6. CASE CloseConn(c)
  BY <1>6 DEF CloseConn, WTTypeOK, TxOpen
<1> QED
  BY <1>1, <1>2, <1>3, <1>4, <1>5, <1>6
     DEF BeginTx, Statement, BeginFails, StatementReturns, QueryReturnsRows,
         CloseRows, GiveUp

(* The end of a transaction, whoever ends it. *)
LEMMA EndRight ==
    ASSUME ChannelType, Channel, NEW c \in Conns, pc[c] \in {"tx", "dropped"},
           NEW next \in {"idle", "dropped"},
           IF inTx[c] THEN Give(c, next) ELSE Keep(c, next),
           inTx' = [inTx EXCEPT ![c] = FALSE]
    PROVE  ChannelType' /\ Channel'
<1>1. CASE inTx[c]
  BY <1>1, GiveRight DEF Holds
<1>2. CASE ~inTx[c]
  <2>1. Keep(c, next) /\ ~Waiting(c) /\ ~Holds(c)
    BY <1>2 DEF Waiting, Holds
  <2>2. /\ inTx' \in [Conns -> BOOLEAN]
        /\ \A d \in Conns \ {c} : inTx'[d] = inTx[d]
        /\ ~inTx'[c]
    BY DEF ChannelType
  <2>3. ~Holds(c)'
    BY <2>1, <2>2 DEF Keep, Holds, ChannelType
  <2> QED BY <2>1, <2>2, <2>3, KeepRight
<1> QED BY <1>1, <1>2

\* Every step keeps the account of who holds the turn.
LEMMA TurnStep == TurnInv /\ [WTNext]_wtVars => TurnInv'
<1> SUFFICES ASSUME TurnInv, [WTNext]_wtVars
             PROVE  TurnInv'
  OBVIOUS
<1>a. WTTypeOK /\ ChannelType /\ Channel
  BY DEF TurnInv, WTTypeOK, ChannelType, Channel
<1>1. CASE UNCHANGED wtVars
  <2>1. /\ full' = full /\ queue' = queue /\ pc' = pc
        /\ inTx' = inTx /\ tx' = tx /\ user' = user
    BY <1>1 DEF wtVars
  <2>2. WTTypeOK' /\ TxOpen' /\ TxStates'
    BY <2>1 DEF TurnInv, WTTypeOK, TxOpen, TxStates
  <2>3. \A c \in Conns : (Holds(c)' <=> Holds(c)) /\ (Waiting(c)' <=> Waiting(c))
    BY <2>1 DEF Holds, Waiting
  <2>4. OneWriter' /\ TurnAccounted'
    BY <2>1, <2>3 DEF TurnInv, OneWriter, TurnAccounted
  <2> QED BY <2>2, <2>4 DEF TurnInv
<1>2. CASE WTNext
  <2>1. PICK c \in Conns :
          \/ \E g \in Users : BeginTx(g, c) \/ BeginReadOnly(g, c) \/ Statement(g, c)
          \/ BeginReturns(c) \/ BeginFails(c)
          \/ EndTx(c) \/ CancelTx(c) \/ CloseConn(c)
          \/ StatementReturns(c) \/ QueryReturnsRows(c) \/ CloseRows(c)
          \/ GiveUp(c)
    BY <1>2 DEF WTNext
  <2>a. pc[c] \in {"idle", "begin", "stmt", "rows"} => ~inTx[c]
    BY <1>a DEF Channel, TxStates
  <2>b. ~inTx[c] => inTx = [inTx EXCEPT ![c] = FALSE]
    BY <1>a DEF ChannelType
  <2>c. Between(c) \in {"idle", "tx"}
    BY DEF Between
  <2>d. inTx[c] => tx[c] # "none"
    BY DEF TurnInv, TxOpen
  <2>2. ChannelType' /\ Channel'
    <3>1. ASSUME NEW g \in Users, BeginTx(g, c)
          PROVE  ChannelType' /\ Channel'
      BY <1>a, <2>a, <3>1, TakeRight DEF BeginTx
    <3>2. ASSUME NEW g \in Users, BeginReadOnly(g, c)
          PROVE  ChannelType' /\ Channel'
      <4>1. Keep(c, "tx") /\ inTx' = inTx /\ pc[c] = "idle" /\ ~inTx[c]
        BY <2>a, <3>2 DEF BeginReadOnly
      <4>2. ~Waiting(c) /\ ~Holds(c) /\ ~Holds(c)'
        BY <1>a, <4>1 DEF Waiting, Holds, Keep, ChannelType
      <4> QED BY <1>a, <4>1, <4>2, KeepRight DEF ChannelType
    <3>3. ASSUME NEW g \in Users, Statement(g, c)
          PROVE  ChannelType' /\ Channel'
      <4>1. CASE ~inTx[c]
        BY <1>a, <3>3, <4>1, TakeRight DEF Statement, NeedsTurn
      <4>2. CASE inTx[c]
        <5>1. Keep(c, "txStmt") /\ inTx' = inTx /\ pc[c] \in {"idle", "tx"}
          BY <3>3, <4>2 DEF Statement, NeedsTurn
        <5>2. ~Waiting(c) /\ Holds(c) /\ Holds(c)'
          BY <4>2, <5>1 DEF Waiting, Holds
        <5> QED BY <1>a, <5>1, <5>2, KeepRight DEF ChannelType
      <4> QED BY <4>1, <4>2
    <3>4. ASSUME BeginReturns(c)
          PROVE  ChannelType' /\ Channel'
      <4>1. Keep(c, "tx") /\ inTx' = [inTx EXCEPT ![c] = TRUE] /\ pc[c] = "begin"
        BY <3>4 DEF BeginReturns
      <4>2. /\ inTx' \in [Conns -> BOOLEAN]
            /\ \A d \in Conns \ {c} : inTx'[d] = inTx[d]
            /\ inTx'[c]
        BY <1>a, <4>1 DEF ChannelType
      <4>3. ~Waiting(c) /\ Holds(c) /\ Holds(c)'
        BY <4>1, <4>2 DEF Waiting, Holds
      <4> QED BY <1>a, <4>1, <4>2, <4>3, KeepRight
    <3>5. ASSUME BeginFails(c)
          PROVE  ChannelType' /\ Channel'
      BY <1>a, <2>a, <2>b, <3>5, GiveRight DEF BeginFails, Holds
    <3>6. ASSUME EndTx(c) \/ CancelTx(c)
          PROVE  ChannelType' /\ Channel'
      BY <1>a, <3>6, EndRight DEF EndTx, CancelTx, End, EndGives
    <3>7. ASSUME CloseConn(c)
          PROVE  ChannelType' /\ Channel'
      BY <1>a, <3>7, EndRight DEF CloseConn, CloseGives
    <3>8. ASSUME StatementReturns(c)
          PROVE  ChannelType' /\ Channel'
      <4>1. CASE pc[c] = "stmt"
        BY <1>a, <2>a, <2>b, <2>c, <3>8, <4>1, GiveRight DEF StatementReturns, Holds
      <4>2. CASE pc[c] = "txStmt"
        <5>1. Keep(c, Between(c)) /\ inTx' = inTx
          BY <3>8, <4>2 DEF StatementReturns
        <5>2. inTx[c] => Between(c) = "tx"
          BY <2>d DEF Between
        <5>3. ~Waiting(c) /\ (Holds(c)' <=> Holds(c))
          BY <1>a, <2>c, <4>2, <5>1 DEF Waiting, Holds, Keep, ChannelType
        <5> QED BY <1>a, <2>c, <5>1, <5>2, <5>3, KeepRight DEF ChannelType
      <4> QED BY <3>8, <4>1, <4>2 DEF StatementReturns
    <3>9. ASSUME QueryReturnsRows(c)
          PROVE  ChannelType' /\ Channel'
      <4>1. Keep(c, "rows") /\ inTx' = inTx /\ pc[c] = "stmt" /\ ~inTx[c]
        BY <2>a, <3>9 DEF QueryReturnsRows
      <4>2. ~Waiting(c) /\ Holds(c) /\ Holds(c)'
        BY <1>a, <4>1 DEF Waiting, Holds, Keep, ChannelType
      <4> QED BY <1>a, <4>1, <4>2, KeepRight DEF ChannelType
    <3>10. ASSUME CloseRows(c)
           PROVE  ChannelType' /\ Channel'
      BY <1>a, <2>a, <2>b, <2>c, <3>10, GiveRight DEF CloseRows, Holds
    <3>11. ASSUME GiveUp(c)
           PROVE  ChannelType' /\ Channel'
      BY <1>a, <3>11, LeaveRight
    <3> QED BY <2>1, <3>1, <3>2, <3>3, <3>4, <3>5, <3>6, <3>7, <3>8, <3>9, <3>10, <3>11
  <2>3. WTTypeOK'
    BY <1>a, <1>2, <2>2, TxType DEF WTTypeOK, ChannelType
  <2>4. TxOpen'
    BY <1>a, <1>2, OpenStep DEF TurnInv
  <2> QED BY <2>2, <2>3, <2>4 DEF TurnInv, Channel
<1> QED BY <1>1, <1>2 DEF wtVars

\* The account of the turn holds in every state of every behaviour.
LEMMA TurnAlways == WTSpec => []TurnInv
<1>1. WTInit => TurnInv
  BY TurnInit
<1>2. TurnInv /\ [WTNext]_wtVars => TurnInv'
  BY TurnStep
<1> QED BY <1>1, <1>2, PTL DEF WTSpec

(* sqlite_writelock.go:18: at most one connection of the process writes at  *)
(* a time, whatever ends a transaction, a connection or a wait first.       *)
THEOREM OneWriterHolds == WTSpec => []OneWriter
<1>1. TurnInv => OneWriter
  BY DEF TurnInv
<1> QED BY <1>1, TurnAlways, PTL

(* The turn is always given back, once, and to somebody who still waits:    *)
(* the channel is full exactly while a connection holds the turn, and the   *)
(* queue holds exactly the connections that wait.                           *)
THEOREM TurnAccountedHolds == WTSpec => []TurnAccounted
<1>1. TurnInv => TurnAccounted
  BY DEF TurnInv
<1> QED BY <1>1, TurnAlways, PTL
=============================================================================
