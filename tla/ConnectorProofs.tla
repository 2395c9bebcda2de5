--------------------------- MODULE ConnectorProofs ---------------------------
(***************************************************************************)
(* Proofs about Connector, for any rows, values and writers and any kind   *)
(* of source: however often Run fails or dies, only such changes are lost  *)
(* as Connector's Lost tells of; once everything is received the knowledge *)
(* base tells of every other row as it is; and polling passes over no row  *)
(* whose cursor grows as commits do.                                       *)
(*                                                                         *)
(* What is sent to whoever resumes at the saved place is everything from   *)
(* some change on, in the order of the log (LogOrder).  A place may lie    *)
(* past the end of the log, or past changes not received, but only as far  *)
(* as the text or the COMMIT of a row already applied reaches (Reached).   *)
(* So a change that was neither applied nor lost is always ahead: ahead of *)
(* a Run that goes on, or of the place the next one will start from        *)
(* (Awaited); neither that place nor the position the standby would confirm*)
(* comes to lie beyond what the running one has still ahead (PlaceBehind), *)
(* though replays move the place back.  The same is true of a row of which *)
(* chunk and triples tell something else.  For polling, the mark passes a  *)
(* row only when the row is told (Passed).                                 *)
(***************************************************************************)
EXTENDS Connector, SequenceTheorems, FiniteSetTheorems, WellFoundedInduction, TLAPS

-----------------------------------------------------------------------------
(* Sets in order *)

\* A non-empty set of naturals has a least element.
LEMMA LeastNatural ==
    ASSUME NEW S \in SUBSET Nat, S # {}
    PROVE  \E n \in S : \A o \in S : n <= o
<1> DEFINE Less == {p \in Nat \X Nat : p[1] < p[2]}
<1>1. IsWellFoundedOn(Less, Nat)
  BY NatLessThanWellFounded DEF OpToRel
<1>2. PICK n \in S : \A o \in S : <<o, n>> \notin Less
  <2> HIDE DEF Less
  <2> QED BY <1>1, WFMin
<1>3. ASSUME NEW o \in S PROVE n <= o
  <2>1. o \in Nat /\ n \in Nat /\ (o < n => <<o, n>> \in Less)
    OBVIOUS
  <2> QED BY <1>2, <2>1
<1> QED BY <1>3

\* One that is bounded has a largest.
LEMMA LargestNatural ==
    ASSUME NEW b \in Nat, NEW S \in SUBSET 0..b, S # {}
    PROVE  \E n \in S : \A o \in S : o <= n
<1> DEFINE left == {l \in Nat : \E n \in S : l = b - n}
<1>1. left # {}
  <2>1. PICK n : n \in S
    OBVIOUS
  <2>2. n \in 0..b
    BY <2>1
  <2>3. b - n \in Nat /\ b - n \in left
    BY <2>1, <2>2
  <2> QED BY <2>3
<1>2. PICK l \in left : \A o \in left : l <= o
  <2>1. left \in SUBSET Nat
    OBVIOUS
  <2> HIDE DEF left
  <2> QED BY <1>1, <2>1, LeastNatural
<1>3. PICK n \in S : l = b - n
  BY <1>2
<1>4. ASSUME NEW o \in S PROVE o <= n
  <2>1. o \in 0..b /\ n \in 0..b
    OBVIOUS
  <2>2. b - o \in left
    BY <2>1
  <2>3. l <= b - o
    BY <1>2, <2>2
  <2> QED BY <1>3, <2>1, <2>3
<1> QED BY <1>4

\* The members of a finite set can be put in the order of a relation.
LEMMA Ordered ==
    ASSUME NEW S, IsFiniteSet(S), NEW R,
           \A a \in S : <<a, a>> \notin R,
           \A a, b \in S : a # b => <<a, b>> \in R \/ <<b, a>> \in R,
           \A a, b, c \in S : <<a, b>> \in R /\ <<b, c>> \in R => <<a, c>> \in R
    PROVE  \E s \in SetToSeqs(S) : \A i, j \in DOMAIN s : i < j => <<s[i], s[j]>> \in R
<1> DEFINE size == Cardinality(S)
           upTo(n) == {m \in S : m = n \/ <<m, n>> \in R}
           place == [n \in S |-> Cardinality(upTo(n))]
<1>1. size \in Nat
  BY FS_CardinalityType
<1>2. ASSUME NEW n \in S PROVE place[n] \in 1..size
  <2>1. n \in upTo(n) /\ upTo(n) \in SUBSET S
    OBVIOUS
  <2>2. IsFiniteSet(upTo(n)) /\ Cardinality(upTo(n)) <= size /\ Cardinality(upTo(n)) \in Nat
        /\ Cardinality(upTo(n)) # 0
    <3> HIDE DEF upTo
    <3> QED BY <2>1, FS_Subset, FS_CardinalityType, FS_EmptySet
  <2> QED BY <1>1, <2>2
<1>3. ASSUME NEW a \in S, NEW b \in S, a # b, <<a, b>> \in R
      PROVE  place[a] < place[b]
  <2>1. upTo(a) \in SUBSET upTo(b) /\ upTo(b) \in SUBSET S /\ b \in upTo(b) /\ b \notin upTo(a)
    BY <1>3
  <2>2. /\ IsFiniteSet(upTo(b)) /\ IsFiniteSet(upTo(a))
        /\ Cardinality(upTo(a)) <= Cardinality(upTo(b))
        /\ Cardinality(upTo(a)) # Cardinality(upTo(b))
    <3> HIDE DEF upTo
    <3> QED BY <2>1, FS_Subset
  <2>3. Cardinality(upTo(a)) \in Nat /\ Cardinality(upTo(b)) \in Nat
    <3> HIDE DEF upTo
    <3> QED BY <2>2, FS_CardinalityType
  <2> QED BY <2>2, <2>3
<1>4. place \in Injection(S, 1..size)
  <2>1. place \in [S -> 1..size]
    BY <1>2
  <2>2. \A a, b \in S : place[a] = place[b] => a = b
    <3> SUFFICES ASSUME NEW a \in S, NEW b \in S, place[a] = place[b], a # b PROVE FALSE
      OBVIOUS
    <3>1. place[a] < place[b] \/ place[b] < place[a]
      BY <1>3
    <3>2. place[a] \in Nat /\ place[b] \in Nat
      BY <1>1, <1>2
    <3> QED BY <3>1, <3>2
  <2> HIDE DEF place
  <2> QED BY <2>1, <2>2 DEF Injection, IsInjective
<1>5. IsFiniteSet(1..size) /\ Cardinality(1..size) = size
  <2>1. IsFiniteSet(1..size) /\ Cardinality(1..size) = IF 1 > size THEN 0 ELSE size - 1 + 1
    <3> HIDE DEF size
    <3> QED BY <1>1, FS_Interval
  <2> QED BY <1>1, <2>1
<1>6. place \in Surjection(S, 1..size)
  <2> HIDE DEF place
  <2> QED BY <1>4, <1>5, FS_Injection
<1> HIDE DEF place, upTo
<1> DEFINE s == [i \in 1..size |-> CHOOSE n \in S : place[n] = i]
<1>7. \A i \in 1..size : s[i] \in S /\ place[s[i]] = i
  BY <1>6 DEF Surjection
<1>8. s \in [1..size -> S] /\ \A i, j \in 1..size : i # j => s[i] # s[j]
  <2>1. s \in [1..size -> S]
    BY <1>7
  <2> HIDE DEF s
  <2> QED BY <1>7, <2>1
<1>9. s \in SetToSeqs(S)
  <2> HIDE DEF s
  <2> QED BY <1>8 DEF SetToSeqs
<1>10. ASSUME NEW i \in DOMAIN s, NEW j \in DOMAIN s, i < j PROVE <<s[i], s[j]>> \in R
  <2>1. i \in 1..size /\ j \in 1..size
    OBVIOUS
  <2>2. s[i] \in S /\ s[j] \in S /\ s[i] # s[j] /\ place[s[i]] = i /\ place[s[j]] = j
    <3> HIDE DEF s
    <3> QED BY <1>1, <1>7, <1>8, <1>10, <2>1
  <2> HIDE DEF s
  <2>3. CASE <<s[j], s[i]>> \in R
    BY <1>1, <1>3, <1>10, <2>1, <2>2, <2>3
  <2> QED BY <2>2, <2>3
<1> QED BY <1>9, <1>10

\* A finite set as a sequence.
LEMMA Listed ==
    ASSUME NEW S, IsFiniteSet(S)
    PROVE  /\ Cardinality(S) \in Nat /\ SetToSeq(S) \in Seq(S) /\ Len(SetToSeq(S)) = Cardinality(S)
           /\ \A i, j \in 1..Cardinality(S) : SetToSeq(S)[i] = SetToSeq(S)[j] => i = j
           /\ \A x \in S : \E i \in 1..Cardinality(S) : SetToSeq(S)[i] = x
<1> DEFINE n == Cardinality(S)
           g == SetToSeq(S)
<1>1. n \in Nat /\ ExistsBijection(1..n, S)
  BY FS_CardinalityType
<1>2. \E f \in [1..n -> S] : IsInjective(f)
  BY <1>1 DEF ExistsBijection, Bijection, Injection
<1>3. g \in [1..n -> S] /\ IsInjective(g)
  BY <1>2 DEF SetToSeq
<1>4. IsFiniteSet(1..n) /\ Cardinality(1..n) = n
  <2>1. IsFiniteSet(1..n) /\ Cardinality(1..n) = IF 1 > n THEN 0 ELSE n - 1 + 1
    <3> HIDE DEF n
    <3> QED BY <1>1, FS_Interval
  <2> QED BY <1>1, <2>1
<1> HIDE DEF g
<1>5. g \in Surjection(1..n, S)
  <2>1. g \in Injection(1..n, S)
    BY <1>3 DEF Injection
  <2> HIDE DEF n
  <2>2. Cardinality(1..n) = Cardinality(S)
    BY <1>4 DEF n
  <2> QED BY <1>4, <2>1, <2>2, FS_Injection
<1>6. \A x \in S : \E i \in 1..n : g[i] = x
  BY <1>5 DEF Surjection
<1>7. g \in Seq(S) /\ Len(g) = n
  <2> HIDE DEF n
  <2> QED BY <1>1, <1>3
<1>8. \A i, j \in 1..n : g[i] = g[j] => i = j
  BY <1>3 DEF IsInjective
<1> QED BY <1>1, <1>6, <1>7, <1>8 DEF g

-----------------------------------------------------------------------------
(* The inductive invariant *)

Setting == [kind : {"postgres", "mysql", "polling"}, writers : SUBSET Writers,
            statements : SUBSET SUBSET Keys, texts : SUBSET Nat, batch : Nat \ {0}, events : Nat,
            troubles : Nat]
Made == [key : Keys, val : Values \cup {None}, at : Nat \ {0}, longer : Nat]
Change == [key : Keys, val : Values \cup {None}, at : Nat, longer : Nat, commit : Nat]
Where == [pc : {"off", "poll", "stream", "chunk", "facts", "save", "commit", "finish"},
          start : Nat, next : 1 .. Len(log) + 1, pos : Nat, mark : 0..lsn, todo : Seq(DOMAIN log)]
Known == chunks \in [Keys -> Values \cup {None}] /\ facts \in [Keys -> SUBSET Values]

Typed ==
    /\ setting \in Setting
    /\ lsn \in Nat /\ log \in Seq(Change) /\ open \in [Writers -> Seq(Made)]
    /\ slot \in Nat /\ checkpoint \in Nat /\ began \in Nat
    /\ Polling => checkpoint <= lsn
    /\ watcher \in Where
    /\ Known /\ done \subseteq DOMAIN log

\* Where Run is, and what it holds there.
Working == watcher.pc \in {"chunk", "facts", "save"}
Steps ==
    /\ watcher.pc \in {"poll", "finish"} => Polling
    /\ At("stream") => ~Polling
    /\ At("commit") => Postgres
    /\ IF Working
       THEN /\ watcher.todo # << >>
            /\ ~Polling => /\ watcher.todo = <<watcher.next - 1>>
                           /\ Sends(watcher.next - 1, watcher.start)
       ELSE watcher.todo = << >>
    /\ At("facts") => chunks[Event.key] = Event.val
    /\ At("save") => Head(watcher.todo) \in done

OpenOrder ==
    \A w \in Writers : \A i, j \in DOMAIN open[w] :
        /\ ~MySQL => open[w][i].at <= lsn
        /\ MySQL /\ i < j => open[w][i].at <= open[w][j].at

LogOrder ==
    \A m, n \in DOMAIN log :
        /\ 0 < log[n].at /\ log[n].at <= lsn
        /\ Postgres => log[n].at < log[n].commit /\ log[n].commit <= lsn
        /\ Postgres /\ m < n => log[m].commit <= log[n].commit
        /\ MySQL /\ m < n => log[m].at <= log[n].at

SourceInv == Typed /\ Steps /\ OpenOrder /\ LogOrder

\* A place beyond the log was carried there by a row applied, or by the COMMIT that
\* followed it.
Reached(p) ==
    \/ p <= lsn
    \/ Postgres /\ \E m \in done : p <= Reach(m) \/ p <= log[m].commit + 1
\* A COMMIT is received after all rows of its transaction.
PlaceInv ==
    /\ Reached(slot) /\ Reached(checkpoint) /\ Reached(watcher.start) /\ Reached(watcher.pos)
    /\ At("commit") =>
         /\ Received \in done
         /\ \A n \in DOMAIN log : n > Received => log[Received].commit < log[n].commit

\* What Run has still ahead.
Coming(n) ==
    /\ Sends(n, watcher.start)
    /\ n >= watcher.next \/ (watcher.pc \in {"chunk", "facts"} /\ n = watcher.next - 1)
\* Where the next Run starts, and what is ahead of that or of this one.
Place == StartAt(checkpoint)
Awaited(n) == IF At("off") THEN checkpoint = 0 \/ Sends(n, Place) ELSE Coming(n)

\* Neither the place nor the position held for the standby has come to the change.
Behind(n) == Sends(n, Place) /\ (Postgres => watcher.pos < log[n].commit)
PlaceBehind == ~Polling /\ ~At("off") => \A n \in DOMAIN log : Coming(n) => Behind(n) \/ Lost(n)
AppliedOrAwaited ==
    ~Polling => \A n \in DOMAIN log : Sends(n, began) => n \in done \/ Lost(n) \/ Awaited(n)
ToldOrAwaited ==
    ~Polling => \A k \in Keys : Changes(k) # {} /\ Sends(Newest(k), began) =>
        Tells(k) \/ Lost(Newest(k)) \/ Awaited(Newest(k))
StreamInv == PlaceBehind /\ AppliedOrAwaited /\ ToldOrAwaited

Todo(i) == log[watcher.todo[i]]
NotTodo(k) == \A i \in DOMAIN watcher.todo : Todo(i).key # k
Marks ==
    /\ \A mark \in {watcher.mark, checkpoint} : mark = 0 \/ \E n \in DOMAIN log : mark = log[n].at
    /\ ~At("off") => checkpoint <= watcher.mark
Page ==
    \A i, j \in DOMAIN watcher.todo :
        /\ watcher.mark <= Todo(i).at
        /\ i < j => Todo(i).at <= Todo(j).at /\ Todo(i).key # Todo(j).key
Told(k) == Tells(k) /\ NotTodo(k)
Passed(k) ==
    LET n == Newest(k) IN
    Exists(k) /\ InOrder(n) =>
        /\ log[n].at <= watcher.mark \/ log[n].at <= checkpoint => Told(k)
        /\ \A i \in DOMAIN watcher.todo : log[n].at <= Todo(i).at =>
              Told(k) \/ \E j \in 1..i : watcher.todo[j] = n
        /\ At("save") /\ Head(watcher.todo) = n => Tells(k)
PollInv == Polling => Marks /\ Page /\ \A k \in Keys : Passed(k)

ConnectorInv == SourceInv /\ PlaceInv /\ StreamInv /\ PollInv

-----------------------------------------------------------------------------
(* Reading the state *)

\* The larger and the smaller of two numbers.
LEMMA OfTwo ==
    ASSUME NEW a \in Nat, NEW b \in Nat
    PROVE  /\ Max({a, b}) \in {a, b} /\ a <= Max({a, b}) /\ b <= Max({a, b})
           /\ Min({a, b}) \in {a, b} /\ Min({a, b}) <= a /\ Min({a, b}) <= b
<1>1. \E x \in {a, b} : \A y \in {a, b} : x >= y
  OBVIOUS
<1>2. \E x \in {a, b} : \A y \in {a, b} : x =< y
  OBVIOUS
<1>3. Max({a, b}) \in {a, b} /\ \A y \in {a, b} : Max({a, b}) >= y
  BY <1>1 DEF Max
<1>4. Min({a, b}) \in {a, b} /\ \A y \in {a, b} : Min({a, b}) =< y
  BY <1>2 DEF Min
<1> QED BY <1>3, <1>4

\* A change in the log.
LEMMA LogRead ==
    ASSUME Typed, NEW n \in DOMAIN log
    PROVE  /\ DOMAIN log = 1..Len(log) /\ Len(log) \in Nat /\ n \in 1..Len(log)
           /\ log[n].key \in Keys /\ log[n].val \in Values \cup {None}
           /\ log[n].at \in Nat /\ log[n].longer \in Nat /\ log[n].commit \in Nat
<1>1. log[n] \in Change
  BY DEF Typed
<1> QED BY <1>1 DEF Typed, Change

\* Where the watcher is.
LEMMA WatcherRead ==
    ASSUME Typed
    PROVE  /\ watcher.start \in Nat /\ watcher.next \in 1 .. Len(log) + 1 /\ watcher.pos \in Nat
           /\ watcher.mark \in 0..lsn /\ watcher.todo \in Seq(DOMAIN log)
           /\ DOMAIN log = 1..Len(log) /\ Len(log) \in Nat /\ lsn \in Nat
           /\ watcher.pc \in {"off", "poll", "stream", "chunk", "facts", "save", "commit", "finish"}
BY DEF Typed, Where

\* What is sent to whoever starts at a place.
LEMMA SentFrom ==
    ASSUME Typed, NEW p \in Nat, NEW n \in DOMAIN log
    PROVE  /\ StartAt(p) \in Nat /\ p <= StartAt(p)
           /\ Postgres => (Sends(n, StartAt(p)) <=> log[n].commit > p /\ log[n].commit > slot)
           /\ ~Postgres => (Sends(n, StartAt(p)) <=> log[n].at > p)
<1>1. p \in Nat /\ slot \in Nat
  BY DEF Typed
<1>2. /\ Max({p, slot}) \in {p, slot} /\ p <= Max({p, slot}) /\ slot <= Max({p, slot})
  BY <1>1, OfTwo
<1>3. log[n].at \in Nat /\ log[n].commit \in Nat
  BY LogRead
<1> QED BY <1>1, <1>2, <1>3 DEF StartAt, Sends

\* A row that was ever written has a newest change.
LEMMA NewestIs ==
    ASSUME Typed, NEW k, Changes(k) # {}
    PROVE  /\ Newest(k) \in DOMAIN log /\ log[Newest(k)].key = k
           /\ \A m \in DOMAIN log : log[m].key = k => m <= Newest(k)
<1>1. Changes(k) \in SUBSET 0..Len(log) /\ Len(log) \in Nat
  BY DEF Typed, Changes
<1>2. \E n \in Changes(k) : \A m \in Changes(k) : m <= n
  BY <1>1, LargestNatural
<1>3. Newest(k) \in Changes(k) /\ \A m \in Changes(k) : m <= Newest(k)
  BY <1>2 DEF Newest
<1> QED BY <1>3 DEF Changes

\* The event at hand is one of the log.
LEMMA AtHand ==
    ASSUME SourceInv, Working
    PROVE  /\ watcher.todo # << >> /\ Head(watcher.todo) = watcher.todo[1]
           /\ Head(watcher.todo) \in DOMAIN log
           /\ Event.key \in Keys /\ Event.val \in Values \cup {None} /\ Event.at \in 0..lsn
<1>1. watcher.todo \in Seq(DOMAIN log) /\ watcher.todo # << >>
  BY DEF SourceInv, Typed, Where, Steps
<1>2. Head(watcher.todo) = watcher.todo[1] /\ watcher.todo[1] \in DOMAIN log
  BY <1>1
<1>3. log[Head(watcher.todo)].at \in 0..lsn
  BY <1>2, LogRead DEF SourceInv, LogOrder, Typed
<1> QED BY <1>1, <1>2, <1>3, LogRead DEF SourceInv, Event

-----------------------------------------------------------------------------
(* The source *)

\* Steps of the watcher leave the source as it is.
LEMMA WatcherMoves ==
    ASSUME SourceInv, UNCHANGED <<lsn, log, open>>,
           setting' \in Setting, setting'.kind = setting.kind,
           slot' \in Nat, checkpoint' \in Nat, began' \in Nat, Polling => checkpoint' <= lsn,
           watcher' \in Where, Known', done' \subseteq DOMAIN log, Steps'
    PROVE  SourceInv'
<1>1. Postgres' = Postgres /\ MySQL' = MySQL /\ Polling' = Polling
  BY DEF Postgres, MySQL, Polling
<1>2. Typed'
  BY <1>1 DEF SourceInv, Typed, Where
<1>3. OpenOrder'
  BY <1>1 DEF SourceInv, OpenOrder
<1>4. LogOrder'
  BY <1>1 DEF SourceInv, LogOrder
<1> QED BY <1>2, <1>3, <1>4 DEF SourceInv

\* The log only grows.
LEMMA LogGrows ==
    ASSUME SourceInv, NEW more \in Seq(Change), log' = log \o more
    PROVE  /\ log' \in Seq(Change) /\ DOMAIN log \subseteq DOMAIN log'
           /\ DOMAIN log = 1..Len(log) /\ Len(log) \in Nat
           /\ DOMAIN log' = 1..(Len(log) + Len(more))
           /\ Len(more) \in Nat
           /\ \A n \in DOMAIN log : log'[n] = log[n]
           /\ \A n \in DOMAIN log' \ DOMAIN log :
                 n > Len(log) /\ n - Len(log) \in DOMAIN more /\ log'[n] = more[n - Len(log)]
           /\ 1 .. Len(log) + 1 \subseteq 1 .. Len(log') + 1
BY DEF SourceInv, Typed

\* The source moves on; the watcher does not.
LEMMA SourceMoves ==
    ASSUME SourceInv, NEW more \in Seq(Change), log' = log \o more, lsn' \in Nat, lsn <= lsn',
           open' \in [Writers -> Seq(Made)], OpenOrder', LogOrder',
           UNCHANGED <<setting, slot, checkpoint, watcher, base, began>>
    PROVE  SourceInv'
<1>1. Where \subseteq Where'
  <2>1. 0..lsn \subseteq 0..lsn' /\ 1 .. Len(log) + 1 \subseteq 1 .. Len(log') + 1
    BY LogGrows DEF SourceInv, Typed
  <2>2. Seq(DOMAIN log) \subseteq Seq(DOMAIN log')
    BY LogGrows
  <2> SUFFICES ASSUME NEW w \in Where PROVE w \in Where'
    OBVIOUS
  <2> QED BY <2>1, <2>2 DEF Where
<1>2. Typed'
  <2>1. /\ slot' \in Nat /\ checkpoint' \in Nat /\ began' \in Nat
        /\ Polling' => checkpoint' <= lsn'
    BY DEF SourceInv, Typed, Polling
  <2>2. watcher' \in Where' /\ done' \subseteq DOMAIN log' /\ Known' /\ log' \in Seq(Change)
    BY <1>1, LogGrows DEF SourceInv, Typed, Known, base
  <2>3. setting' \in Setting
    BY DEF SourceInv, Typed
  <2> HIDE DEF Where, Known
  <2> QED BY <2>1, <2>2, <2>3 DEF Typed
<1>3. Steps'
  <2>1. Working => Event' = Event
    <3>1. Working => Head(watcher.todo) \in DOMAIN log
      BY AtHand DEF SourceInv
    <3> QED BY <3>1, LogGrows DEF Event
  <2>2. At("facts") => chunks'[Event'.key] = Event'.val
    BY <2>1 DEF SourceInv, Steps, At, Working, base
  <2>3. Working /\ ~Polling => Sends(watcher.next - 1, watcher.start)'
    <3> SUFFICES ASSUME Working, ~Polling PROVE Sends(watcher.next - 1, watcher.start)'
      OBVIOUS
    <3>1. Sends(watcher.next - 1, watcher.start) /\ Head(watcher.todo) \in DOMAIN log
          /\ Head(watcher.todo) = watcher.next - 1
      BY AtHand DEF SourceInv, Steps
    <3> QED BY <3>1, LogGrows DEF Sends, Postgres
  <2> QED BY <2>2, <2>3 DEF SourceInv, Steps, At, Working, Polling, Postgres, base
<1> QED BY <1>2, <1>3 DEF SourceInv

\* The rows of a statement join its transaction.
LEMMA StatementKeeps ==
    ASSUME SourceInv, NEW w \in Writers, NEW S \in SUBSET Keys, NEW v \in Values \cup {None},
           Statement(w, S, v)
    PROVE  SourceInv' /\ lsn <= lsn'
<1>1. PICK at \in IF Polling THEN {Max({lsn, 1}), lsn + 1} ELSE {lsn + 1},
           longer \in [S -> setting.texts] :
         LET ks == SetToSeq(S)
             number == IF open[w] = << >> THEN 1 ELSE open[w][Len(open[w])].at + 1
             Spot(i) == IF MySQL THEN number ELSE IF Postgres THEN lsn + i ELSE at
             Row(i) == [key |-> ks[i], val |-> v, at |-> Spot(i), longer |-> longer[ks[i]]] IN
         /\ open' = [open EXCEPT ![w] = @ \o [i \in 1..Len(ks) |-> Row(i)]]
         /\ lsn' = IF MySQL THEN lsn ELSE IF Postgres THEN lsn + Len(ks) ELSE at
  BY DEF Statement
<1> DEFINE ks == SetToSeq(S)
           number == IF open[w] = << >> THEN 1 ELSE open[w][Len(open[w])].at + 1
           place(i) == IF MySQL THEN number ELSE IF Postgres THEN lsn + i ELSE at
           row(i) == [key |-> ks[i], val |-> v, at |-> place(i), longer |-> longer[ks[i]]]
           more == [i \in 1..Len(ks) |-> row(i)]
           new == open[w] \o more
<1>2. /\ open' = [open EXCEPT ![w] = new]
      /\ lsn' = IF MySQL THEN lsn ELSE IF Postgres THEN lsn + Len(ks) ELSE at
      /\ UNCHANGED <<setting, log, slot, checkpoint, watcher, base, began>>
  BY <1>1 DEF Statement
<1>3. ks \in Seq(Keys) /\ Len(ks) \in Nat /\ \A i \in 1..Len(ks) : longer[ks[i]] \in Nat
  <2>1. IsFiniteSet(S)
    BY ConnectorAssumption, FS_Subset
  <2>2. ks \in Seq(S)
    BY <2>1, Listed
  <2>3. \A k \in S : longer[k] \in Nat
    BY DEF SourceInv, Typed, Setting
  <2> QED BY <2>2, <2>3
<1>4. lsn \in Nat /\ at \in Nat \ {0} /\ lsn <= at
  <2>1. lsn \in Nat
    BY DEF SourceInv, Typed
  <2>2. at \in {Max({lsn, 1}), lsn + 1}
    OBVIOUS
  <2>3. Max({lsn, 1}) \in {lsn, 1} /\ lsn <= Max({lsn, 1}) /\ 1 <= Max({lsn, 1})
    BY <2>1, OfTwo
  <2> QED BY ONLY <2>1, <2>2, <2>3
<1>5. /\ open[w] \in Seq(Made) /\ Len(open[w]) \in Nat
      /\ number \in Nat \ {0}
      /\ MySQL => \A i \in DOMAIN open[w] : open[w][i].at <= number
  <2>1. open[w] \in Seq(Made)
    BY DEF SourceInv, Typed
  <2>2. CASE open[w] = << >>
    BY <2>1, <2>2
  <2>3. CASE open[w] # << >>
    <3>1. Len(open[w]) \in DOMAIN open[w] /\ Len(open[w]) \in Nat
      BY <2>1, <2>3
    <3>2. \A i \in DOMAIN open[w] : open[w][i].at \in Nat
      <4>1. \A i \in DOMAIN open[w] : open[w][i] \in Made
        BY <2>1
      <4> QED BY <4>1 DEF Made
    <3>3. MySQL => \A i \in DOMAIN open[w] : open[w][i].at <= open[w][Len(open[w])].at
      BY <2>1, <3>1, <3>2 DEF SourceInv, OpenOrder
    <3> QED BY <2>1, <2>3, <3>1, <3>2, <3>3
  <2> QED BY <2>2, <2>3
<1>6. \A i \in 1..Len(ks) : /\ place(i) \in Nat \ {0}
                            /\ MySQL => place(i) = number
                            /\ ~MySQL => place(i) <= lsn'
  <2> SUFFICES ASSUME NEW i \in 1..Len(ks)
               PROVE  /\ place(i) \in Nat \ {0}
                      /\ MySQL => place(i) = number
                      /\ ~MySQL => place(i) <= lsn'
    OBVIOUS
  <2> HIDE DEF ks, number
  <2>1. CASE MySQL
    BY <1>5, <2>1
  <2>2. CASE ~MySQL /\ Postgres
    BY <1>2, <1>3, <1>4, <2>2
  <2>3. CASE ~MySQL /\ ~Postgres
    BY <1>2, <1>4, <2>3
  <2> QED BY <2>1, <2>2, <2>3
<1>7. lsn' \in Nat /\ lsn <= lsn'
  BY <1>2, <1>3, <1>4
<1> HIDE DEF ks, number, place
<1>8. more \in Seq(Made) /\ Len(more) = Len(ks)
      /\ \A i \in 1..Len(ks) : more[i].at = place(i)
  <2>1. \A i \in 1..Len(ks) : row(i) \in Made
    BY <1>3, <1>6 DEF Made
  <2> QED BY <1>3, <2>1
<1> HIDE DEF more
<1>9. /\ new \in Seq(Made) /\ DOMAIN new = 1..(Len(open[w]) + Len(ks))
      /\ \A i \in 1..Len(open[w]) : new[i] = open[w][i]
      /\ \A i \in 1..(Len(open[w]) + Len(ks)) :
            i > Len(open[w]) =>
               i - Len(open[w]) \in 1..Len(ks) /\ new[i].at = place(i - Len(open[w]))
  <2>1. new \in Seq(Made) /\ Len(new) = Len(open[w]) + Len(ks)
    <3>1. open[w] \in Seq(Made) /\ more \in Seq(Made) /\ Len(more) = Len(ks)
      BY <1>5, <1>8
    <3>2. /\ open[w] \o more \in Seq(Made)
          /\ Len(open[w] \o more) = Len(open[w]) + Len(more)
      BY ONLY <3>1, ConcatProperties
    <3> QED BY <3>1, <3>2
  <2>2. \A i \in 1..Len(open[w]) : new[i] = open[w][i]
    BY <1>3, <1>5, <1>8
  <2>3. ASSUME NEW i \in 1..(Len(open[w]) + Len(ks)), i > Len(open[w])
        PROVE  i - Len(open[w]) \in 1..Len(ks) /\ new[i].at = place(i - Len(open[w]))
    <3>1. i - Len(open[w]) \in 1..Len(ks) /\ new[i] = more[i - Len(open[w])]
      BY <1>3, <1>5, <1>8, <2>3
    <3> QED BY <1>8, <3>1
  <2> HIDE DEF new
  <2> QED BY <1>3, <1>5, <2>1, <2>2, <2>3
<1>10. open' \in [Writers -> Seq(Made)] /\ open'[w] = new
       /\ \A u \in Writers \ {w} : open'[u] = open[u]
  BY <1>2, <1>9 DEF SourceInv, Typed
<1> HIDE DEF new
<1>11. OpenOrder'
  <2>1. \A u \in Writers : \A i \in DOMAIN open[u] : open[u][i].at \in Nat
    <3>1. \A u \in Writers : open[u] \in Seq(Made)
      BY DEF SourceInv, Typed
    <3>2. \A u \in Writers : \A i \in DOMAIN open[u] : open[u][i] \in Made
      BY <3>1
    <3> QED BY <3>2 DEF Made
  <2> SUFFICES ASSUME NEW u \in Writers, NEW i \in DOMAIN open'[u], NEW j \in DOMAIN open'[u]
               PROVE  /\ ~MySQL => open'[u][i].at <= lsn'
                      /\ MySQL /\ i < j => open'[u][i].at <= open'[u][j].at
    BY <1>2 DEF OpenOrder, MySQL
  <2>2. CASE u # w
    BY <1>4, <1>7, <1>10, <2>1, <2>2 DEF SourceInv, OpenOrder
  <2>3. CASE u = w
    <3>1. i \in 1..(Len(open[w]) + Len(ks)) /\ j \in 1..(Len(open[w]) + Len(ks))
      BY <1>9, <1>10, <2>3
    <3>2. ~MySQL => new[i].at <= lsn'
      <4>1. CASE i <= Len(open[w])
        <5>1. i \in DOMAIN open[w] /\ new[i] = open[w][i]
          BY <1>5, <1>9, <3>1, <4>1
        <5> QED BY <1>4, <1>7, <2>1, <5>1 DEF SourceInv, OpenOrder
      <4>2. CASE i > Len(open[w])
        BY <1>6, <1>9, <3>1, <4>2
      <4> QED BY <1>5, <3>1, <4>1, <4>2
    <3>3. ASSUME MySQL, i < j PROVE new[i].at <= new[j].at
      <4>1. CASE j <= Len(open[w])
        BY <1>5, <1>9, <3>1, <3>3, <4>1 DEF SourceInv, OpenOrder
      <4>2. CASE i <= Len(open[w]) /\ j > Len(open[w])
        <5>1. i \in DOMAIN open[w] /\ new[i] = open[w][i]
          BY <1>5, <1>9, <3>1, <4>2
        <5>2. new[j].at = number
          BY <1>5, <1>6, <1>9, <3>1, <3>3, <4>2
        <5> QED BY <1>5, <3>3, <5>1, <5>2
      <4>3. CASE i > Len(open[w])
        <5>1. j > Len(open[w])
          BY <1>3, <1>5, <3>1, <3>3, <4>3
        <5>2. i - Len(open[w]) \in 1..Len(ks) /\ new[i].at = place(i - Len(open[w]))
          BY <1>9, <3>1, <4>3
        <5>3. j - Len(open[w]) \in 1..Len(ks) /\ new[j].at = place(j - Len(open[w]))
          BY <1>9, <3>1, <5>1
        <5>4. new[i].at = number /\ new[j].at = number
          BY <1>6, <3>3, <5>2, <5>3
        <5> QED BY <1>5, <5>4
      <4> QED BY <1>5, <3>1, <4>1, <4>2, <4>3
    <3> QED BY <1>10, <2>3, <3>2, <3>3
  <2> QED BY <2>2, <2>3
<1>12. LogOrder'
  <2>1. log' = log /\ Postgres' = Postgres /\ MySQL' = MySQL
    BY <1>2 DEF Postgres, MySQL
  <2>2. \A n \in DOMAIN log : log[n].at \in Nat /\ log[n].commit \in Nat
    BY LogRead DEF SourceInv
  <2> QED BY <1>4, <1>7, <2>1, <2>2 DEF SourceInv, LogOrder
<1> QED
  <2>1. << >> \in Seq(Change) /\ log' = log \o << >>
    BY <1>2 DEF SourceInv, Typed
  <2> QED BY <1>2, <1>7, <1>10, <1>11, <1>12, <2>1, SourceMoves

\* A transaction's changes join the log.
LEMMA CommitKeeps ==
    ASSUME SourceInv, NEW w \in Writers, Commit(w)
    PROVE  /\ SourceInv'
           /\ \E more \in Seq(Change) :
                /\ log' = log \o more
                /\ \A i \in DOMAIN more :
                     /\ Postgres => more[i].commit = lsn + 1
                     /\ MySQL => more[i].at > lsn
                     /\ more[i].at > 0
           /\ lsn <= lsn'
<1> DEFINE last == open[w][Len(open[w])].at
           Committed(r) == [key |-> r.key, val |-> r.val, commit |-> lsn + 1,
                            longer |-> r.longer,
                            at |-> IF MySQL THEN lsn + r.at ELSE r.at]
           more == [i \in DOMAIN open[w] |-> Committed(open[w][i])]
<1>1. /\ open[w] # << >> /\ log' = log \o more
      /\ lsn' = IF MySQL THEN lsn + last ELSE IF Postgres THEN lsn + 1 ELSE lsn
      /\ open' = [open EXCEPT ![w] = << >>]
      /\ UNCHANGED <<setting, slot, checkpoint, watcher, base, began>>
  BY DEF Commit
<1>2. open[w] \in Seq(Made) /\ Len(open[w]) \in DOMAIN open[w]
      /\ DOMAIN open[w] = 1..Len(open[w]) /\ Len(open[w]) \in Nat
  BY <1>1 DEF SourceInv, Typed
<1>3. \A i \in DOMAIN open[w] : open[w][i].key \in Keys /\ open[w][i].val \in Values \cup {None}
                                /\ open[w][i].at \in Nat \ {0} /\ open[w][i].longer \in Nat
  <2>1. \A i \in DOMAIN open[w] : open[w][i] \in Made
    BY <1>2
  <2> QED BY <2>1 DEF Made
<1>4. lsn \in Nat /\ last \in Nat \ {0} /\ lsn' \in Nat /\ lsn <= lsn'
  <2>1. lsn \in Nat /\ last \in Nat \ {0}
    BY <1>2, <1>3 DEF SourceInv, Typed
  <2> HIDE DEF last
  <2> QED BY <1>1, <2>1
<1>5. \A i \in DOMAIN open[w] :
         /\ more[i].at = (IF MySQL THEN lsn + open[w][i].at ELSE open[w][i].at)
         /\ more[i].commit = lsn + 1
  OBVIOUS
<1>6. more \in Seq(Change) /\ DOMAIN more = DOMAIN open[w] /\ Len(more) = Len(open[w])
  <2>1. \A i \in DOMAIN open[w] : Committed(open[w][i]) \in Change
    BY <1>3, <1>4 DEF Change
  <2> HIDE DEF Committed
  <2> QED BY <1>2, <2>1
<1> HIDE DEF more
<1>7. /\ \A i \in DOMAIN open[w] : ~MySQL => open[w][i].at <= lsn
      /\ \A i, j \in DOMAIN open[w] : MySQL /\ i < j => open[w][i].at <= open[w][j].at
  BY DEF SourceInv, OpenOrder
<1>8. \A i \in DOMAIN more :
         /\ Postgres => more[i].at < more[i].commit /\ more[i].commit = lsn'
         /\ Postgres => more[i].commit > lsn
         /\ MySQL => more[i].at > lsn
         /\ 0 < more[i].at /\ more[i].at <= lsn'
         /\ more[i].at \in Nat
  <2> SUFFICES ASSUME NEW i \in DOMAIN more
               PROVE  /\ Postgres => more[i].at < more[i].commit /\ more[i].commit = lsn'
                      /\ Postgres => more[i].commit > lsn
                      /\ MySQL => more[i].at > lsn
                      /\ 0 < more[i].at /\ more[i].at <= lsn'
                      /\ more[i].at \in Nat
    OBVIOUS
  <2>1. i \in DOMAIN open[w] /\ open[w][i].at \in Nat \ {0}
    BY <1>3, <1>6
  <2>2. ~(MySQL /\ Postgres)
    BY DEF MySQL, Postgres
  <2>3. CASE MySQL
    <3>1. open[w][i].at <= last
      BY <1>2, <1>3, <1>4, <1>7, <2>1, <2>3
    <3>2. more[i].at = lsn + open[w][i].at /\ lsn' = lsn + last /\ ~Postgres
      BY <1>1, <1>5, <2>1, <2>2, <2>3
    <3>3. lsn \in Nat /\ last \in Nat /\ open[w][i].at \in Nat \ {0}
      BY <1>4, <2>1
    <3> HIDE DEF last, MySQL, Postgres
    <3> QED BY ONLY <3>1, <3>2, <3>3
  <2>4. CASE ~MySQL
    <3>1. more[i].at = open[w][i].at /\ more[i].commit = lsn + 1 /\ open[w][i].at <= lsn
      BY <1>5, <1>7, <2>1, <2>4
    <3>2. Postgres => lsn' = lsn + 1
      BY <1>1, <2>2
    <3>3. lsn \in Nat /\ lsn' \in Nat /\ lsn <= lsn' /\ open[w][i].at \in Nat \ {0}
      BY <1>4, <2>1
    <3> HIDE DEF MySQL, Postgres
    <3> QED BY ONLY <2>4, <3>1, <3>2, <3>3
  <2> QED BY <2>3, <2>4
<1>9. \A i, j \in DOMAIN more : MySQL /\ i < j => more[i].at <= more[j].at
  <2> SUFFICES ASSUME NEW i \in DOMAIN more, NEW j \in DOMAIN more, MySQL, i < j
               PROVE  more[i].at <= more[j].at
    OBVIOUS
  <2>1. i \in DOMAIN open[w] /\ j \in DOMAIN open[w]
    BY <1>6
  <2>2. open[w][i].at <= open[w][j].at
    BY <1>7, <2>1
  <2>3. more[i].at = lsn + open[w][i].at /\ more[j].at = lsn + open[w][j].at
    BY <1>5, <2>1
  <2>4. lsn \in Nat /\ open[w][i].at \in Nat /\ open[w][j].at \in Nat
    BY <1>3, <1>4, <2>1
  <2> QED BY ONLY <2>2, <2>3, <2>4
<1> HIDE DEF last
<1>10. /\ open' \in [Writers -> Seq(Made)] /\ open'[w] = << >>
       /\ \A u \in Writers \ {w} : open'[u] = open[u]
  BY <1>1 DEF SourceInv, Typed
<1>11. Postgres' = Postgres /\ MySQL' = MySQL
  BY <1>1 DEF Postgres, MySQL
<1>12. OpenOrder'
  <2> SUFFICES ASSUME NEW u \in Writers, NEW i \in DOMAIN open'[u], NEW j \in DOMAIN open'[u]
               PROVE  /\ ~MySQL => open'[u][i].at <= lsn'
                      /\ MySQL /\ i < j => open'[u][i].at <= open'[u][j].at
    BY <1>11 DEF OpenOrder
  <2>1. u # w /\ open'[u] = open[u]
    BY <1>10
  <2>2. open[u][i].at \in Nat
    <3>1. open[u] \in Seq(Made)
      BY DEF SourceInv, Typed
    <3>2. open[u][i] \in Made
      BY <2>1, <3>1
    <3> QED BY <3>2 DEF Made
  <2> QED BY <1>4, <2>1, <2>2 DEF SourceInv, OpenOrder
<1>13. LogOrder'
  <2> SUFFICES ASSUME NEW m \in DOMAIN log', NEW n \in DOMAIN log'
               PROVE  /\ 0 < log'[n].at /\ log'[n].at <= lsn'
                      /\ Postgres => log'[n].at < log'[n].commit /\ log'[n].commit <= lsn'
                      /\ Postgres /\ m < n => log'[m].commit <= log'[n].commit
                      /\ MySQL /\ m < n => log'[m].at <= log'[n].at
    BY <1>11 DEF LogOrder
  <2>1. /\ \A k \in DOMAIN log : log'[k] = log[k] /\ k <= Len(log)
        /\ \A k \in DOMAIN log' \ DOMAIN log :
              k > Len(log) /\ k - Len(log) \in DOMAIN more /\ log'[k] = more[k - Len(log)]
        /\ m \in Nat /\ n \in Nat /\ Len(log) \in Nat
    <3>1. /\ DOMAIN log = 1..Len(log) /\ Len(log) \in Nat
          /\ DOMAIN log' = 1..(Len(log) + Len(more)) /\ Len(more) \in Nat
          /\ \A k \in DOMAIN log : log'[k] = log[k]
          /\ \A k \in DOMAIN log' \ DOMAIN log :
                k > Len(log) /\ k - Len(log) \in DOMAIN more /\ log'[k] = more[k - Len(log)]
      BY <1>1, <1>6, LogGrows
    <3> QED BY <3>1
  <2>2. \A k \in DOMAIN log : log[k].at \in Nat /\ log[k].commit \in Nat
    BY LogRead DEF SourceInv
  <2>3. CASE n \in DOMAIN log /\ m \in DOMAIN log
    BY <1>4, <2>1, <2>2, <2>3 DEF SourceInv, LogOrder
  <2>4. CASE n \in DOMAIN log /\ m \notin DOMAIN log
    BY <1>4, <2>1, <2>2, <2>4 DEF SourceInv, LogOrder
  <2>5. CASE n \notin DOMAIN log /\ m \in DOMAIN log
    <3>1. log'[n] = more[n - Len(log)] /\ n - Len(log) \in DOMAIN more
      BY <2>1, <2>5
    <3>2. log[m].at <= lsn /\ (Postgres => log[m].commit <= lsn) /\ log'[m] = log[m]
      BY <2>1, <2>5 DEF SourceInv, LogOrder
    <3> QED BY <1>4, <1>8, <2>2, <2>5, <3>1, <3>2
  <2>6. CASE n \notin DOMAIN log /\ m \notin DOMAIN log
    <3>1. /\ log'[n] = more[n - Len(log)] /\ n - Len(log) \in DOMAIN more
          /\ log'[m] = more[m - Len(log)] /\ m - Len(log) \in DOMAIN more
      BY <2>1, <2>6
    <3>2. m < n => m - Len(log) < n - Len(log)
      BY <2>1
    <3> QED BY <1>4, <1>8, <1>9, <3>1, <3>2
  <2> QED BY <2>3, <2>4, <2>5, <2>6
<1>14. SourceInv'
  BY <1>1, <1>4, <1>6, <1>10, <1>12, <1>13, SourceMoves
<1> QED BY <1>1, <1>4, <1>5, <1>6, <1>8, <1>14

-----------------------------------------------------------------------------
(* A page *)

\* The rows past a mark, one change each.
LEMMA BeyondIs ==
    ASSUME SourceInv, NEW mark \in 0..lsn
    PROVE  /\ Beyond(mark) \subseteq DOMAIN log /\ IsFiniteSet(Beyond(mark))
           /\ \A n \in Beyond(mark) : mark < log[n].at /\ n = Newest(log[n].key)
           /\ \A k \in Keys : Exists(k) /\ mark < log[Newest(k)].at => Newest(k) \in Beyond(mark)
           /\ \A m, n \in Beyond(mark) : log[m].key = log[n].key => m = n
<1>1. \A k \in Keys : Exists(k) => Newest(k) \in DOMAIN log /\ log[Newest(k)].key = k
  BY NewestIs DEF Exists, SourceInv
<1>2. \A n \in Beyond(mark) :
         /\ n \in DOMAIN log /\ log[n].at > mark
         /\ \E k \in Keys : Exists(k) /\ n = Newest(k)
  BY <1>1 DEF Beyond
<1>3. \A n \in Beyond(mark) : n \in DOMAIN log /\ mark < log[n].at /\ n = Newest(log[n].key)
  <2> SUFFICES ASSUME NEW n \in Beyond(mark)
               PROVE  n \in DOMAIN log /\ mark < log[n].at /\ n = Newest(log[n].key)
    OBVIOUS
  <2>1. n \in DOMAIN log /\ log[n].at > mark /\ log[n].at \in Nat /\ mark \in Nat
    BY <1>2, LogRead DEF SourceInv, Typed
  <2>2. n = Newest(log[n].key)
    BY <1>1, <1>2
  <2> QED BY <2>1, <2>2
<1>4. IsFiniteSet(DOMAIN log)
  <2>1. DOMAIN log = 1..Len(log) /\ Len(log) \in Nat
    BY DEF SourceInv, Typed
  <2> QED BY <2>1, FS_Interval
<1>5. Beyond(mark) \subseteq DOMAIN log /\ IsFiniteSet(Beyond(mark))
  BY <1>3, <1>4, FS_Subset
<1>6. ASSUME NEW k \in Keys, Exists(k), mark < log[Newest(k)].at PROVE Newest(k) \in Beyond(mark)
  <2>1. log[Newest(k)].at \in Nat /\ mark \in Nat
    BY <1>1, <1>6, LogRead DEF SourceInv, Typed
  <2>2. log[Newest(k)].at > mark
    BY <1>6, <2>1
  <2> QED BY <1>6, <2>2 DEF Beyond
<1> QED BY <1>3, <1>5, <1>6

\* RowBefore is an order of the rows past a mark.
LEMMA RowsInOrder ==
    ASSUME SourceInv, NEW mark \in 0..lsn
    PROVE  LET B == Beyond(mark) IN
           /\ \A a \in B : ~RowBefore(a, a)
           /\ \A a, b \in B : a # b => RowBefore(a, b) \/ RowBefore(b, a)
           /\ \A a, b, c \in B : RowBefore(a, b) /\ RowBefore(b, c) => RowBefore(a, c)
           /\ \A a, b \in B : RowBefore(a, b) => log[a].at <= log[b].at
<1> DEFINE B == Beyond(mark)
           G == KeyOrder
           Lower(k, l) == \E i, j \in DOMAIN G : i < j /\ G[i] = k /\ G[j] = l
<1>1. /\ \A i \in DOMAIN G : i \in Nat
      /\ \A i, j \in DOMAIN G : G[i] = G[j] => i = j
      /\ \A k \in Keys : \E i \in DOMAIN G : G[i] = k
  <2>1. /\ Cardinality(Keys) \in Nat /\ G \in Seq(Keys) /\ Len(G) = Cardinality(Keys)
        /\ \A i, j \in 1..Cardinality(Keys) : G[i] = G[j] => i = j
        /\ \A x \in Keys : \E i \in 1..Cardinality(Keys) : G[i] = x
    BY Listed, ConnectorAssumption DEF KeyOrder
  <2>2. DOMAIN G = 1..Cardinality(Keys)
    BY <2>1
  <2> HIDE DEF G
  <2> QED BY <2>1, <2>2
<1>2. \A n \in B : log[n].key \in Keys /\ log[n].at \in Nat
  BY BeyondIs, LogRead DEF SourceInv
<1>3. \A a, b \in B : log[a].key = log[b].key => a = b
  BY BeyondIs
<1>4. \A a, b : RowBefore(a, b) <=> \/ log[a].at < log[b].at
                                    \/ log[a].at = log[b].at /\ Lower(log[a].key, log[b].key)
  BY DEF RowBefore
<1> HIDE DEF B, G
<1>5. /\ \A k : ~Lower(k, k)
      /\ \A k, l \in Keys : k # l => Lower(k, l) \/ Lower(l, k)
      /\ \A k, l, q : Lower(k, l) /\ Lower(l, q) => Lower(k, q)
  <2>1. \A k : ~Lower(k, k)
    BY <1>1
  <2>2. ASSUME NEW k \in Keys, NEW l \in Keys, k # l PROVE Lower(k, l) \/ Lower(l, k)
    <3>1. PICK i \in DOMAIN G : G[i] = k
      BY <1>1
    <3>2. PICK j \in DOMAIN G : G[j] = l
      BY <1>1
    <3>3. i < j \/ j < i
      BY <1>1, <2>2, <3>1, <3>2
    <3> QED BY <3>1, <3>2, <3>3
  <2>3. ASSUME NEW k, NEW l, NEW q, Lower(k, l), Lower(l, q) PROVE Lower(k, q)
    <3>1. PICK i \in DOMAIN G, j \in DOMAIN G : i < j /\ G[i] = k /\ G[j] = l
      BY <2>3
    <3>2. PICK e \in DOMAIN G, f \in DOMAIN G : e < f /\ G[e] = l /\ G[f] = q
      BY <2>3
    <3>3. j = e
      BY <1>1, <3>1, <3>2
    <3>4. i < f
      BY <1>1, <3>1, <3>2, <3>3
    <3> QED BY <3>1, <3>2, <3>4
  <2> QED BY <2>1, <2>2, <2>3
<1> HIDE DEF Lower
<1>6. \A a \in B : ~RowBefore(a, a)
  BY <1>2, <1>4, <1>5
<1>7. \A a, b \in B : a # b => RowBefore(a, b) \/ RowBefore(b, a)
  BY <1>2, <1>3, <1>4, <1>5
<1>8. \A a, b, c \in B : RowBefore(a, b) /\ RowBefore(b, c) => RowBefore(a, c)
  BY <1>2, <1>4, <1>5
<1>9. \A a, b \in B : RowBefore(a, b) => log[a].at <= log[b].at
  BY <1>2, <1>4
<1> QED BY <1>6, <1>7, <1>8, <1>9 DEF B

\* A page is the first of them, in order.
LEMMA PageIs ==
    ASSUME SourceInv, NEW mark \in 0..lsn
    PROVE  LET page == PageOf(mark) IN
           /\ page \in Seq(Beyond(mark))
           /\ \A i, j \in DOMAIN page : i < j => RowBefore(page[i], page[j])
           /\ \A n \in Beyond(mark) : \/ \E i \in DOMAIN page : page[i] = n
                                      \/ \A i \in DOMAIN page : RowBefore(page[i], n)
<1> DEFINE B == Beyond(mark)
           R == {p \in B \X B : RowBefore(p[1], p[2])}
           InTurn(s) == \A i, j \in DOMAIN s : i < j => RowBefore(s[i], s[j])
           rows == CHOOSE s \in SetToSeqs(B) : InTurn(s)
           size == Min({setting.batch, Len(rows)})
           page == SubSeq(rows, 1, size)
<1>1. IsFiniteSet(B)
  BY BeyondIs
<1>2. \E s \in SetToSeqs(B) : InTurn(s)
  <2>1. \A a, b \in B : <<a, b>> \in R <=> RowBefore(a, b)
    OBVIOUS
  <2>2. /\ \A a \in B : <<a, a>> \notin R
        /\ \A a, b \in B : a # b => <<a, b>> \in R \/ <<b, a>> \in R
        /\ \A a, b, c \in B : <<a, b>> \in R /\ <<b, c>> \in R => <<a, c>> \in R
    <3> HIDE DEF R
    <3> QED BY <2>1, RowsInOrder
  <2>3. PICK s \in SetToSeqs(B) : \A i, j \in DOMAIN s : i < j => <<s[i], s[j]>> \in R
    <3> HIDE DEF R, B
    <3> QED BY ONLY <1>1, <2>2, Ordered
  <2>4. ASSUME NEW i \in DOMAIN s, NEW j \in DOMAIN s, i < j PROVE RowBefore(s[i], s[j])
    <3>1. <<s[i], s[j]>> \in R
      BY <2>3, <2>4
    <3> QED BY <3>1
  <2> QED BY <2>4
<1>3. rows \in SetToSeqs(B) /\ InTurn(rows)
  <2> HIDE DEF InTurn
  <2> QED BY <1>2
<1>4. PageOf(mark) = page
  BY DEF PageOf
<1> HIDE DEF rows, B
<1>5. /\ Cardinality(B) \in Nat /\ rows \in [1..Cardinality(B) -> B]
      /\ \A i, j \in 1..Cardinality(B) : i # j => rows[i] # rows[j]
  BY <1>1, <1>3, FS_CardinalityType DEF SetToSeqs
<1>6. rows \in Seq(B) /\ Len(rows) = Cardinality(B)
  BY <1>5
<1>7. \A n \in B : \E i \in DOMAIN rows : rows[i] = n
  <2> DEFINE n == Cardinality(B)
  <2>1. IsFiniteSet(1..n) /\ Cardinality(1..n) = n
    <3>1. IsFiniteSet(1..n) /\ Cardinality(1..n) = IF 1 > n THEN 0 ELSE n - 1 + 1
      <4>1. n \in Nat
        BY <1>5
      <4> HIDE DEF n
      <4> QED BY <4>1, FS_Interval
    <3> QED BY <1>5, <3>1
  <2>2. rows \in Injection(1..n, B)
    BY <1>5 DEF Injection, IsInjective
  <2>3. rows \in Surjection(1..n, B)
    <3>1. Cardinality(1..n) = Cardinality(B)
      BY <2>1
    <3> HIDE DEF n
    <3> QED BY <1>1, <2>1, <2>2, <3>1, FS_Injection
  <2> QED BY <1>5, <2>3 DEF Surjection
<1>8. size \in Nat /\ size <= Len(rows)
  <2>1. setting.batch \in Nat /\ Len(rows) \in Nat
    BY <1>5, <1>6 DEF SourceInv, Typed, Setting
  <2> HIDE DEF rows
  <2> QED BY <2>1, OfTwo
<1> HIDE DEF size
<1>9. page \in Seq(B) /\ DOMAIN page = 1..size /\ \A i \in 1..size : page[i] = rows[i]
  BY <1>6, <1>8
<1>10. DOMAIN rows = 1..Len(rows) /\ Len(rows) \in Nat
  BY <1>6
<1> HIDE DEF page
<1>11. \A i, j \in DOMAIN page : i < j => RowBefore(page[i], page[j])
  <2> SUFFICES ASSUME NEW i \in DOMAIN page, NEW j \in DOMAIN page, i < j
               PROVE  RowBefore(page[i], page[j])
    OBVIOUS
  <2>1. i \in DOMAIN rows /\ j \in DOMAIN rows /\ page[i] = rows[i] /\ page[j] = rows[j]
    BY <1>8, <1>9, <1>10
  <2> QED BY <1>3, <2>1
<1>12. ASSUME NEW n \in B
       PROVE  \/ \E i \in DOMAIN page : page[i] = n
              \/ \A i \in DOMAIN page : RowBefore(page[i], n)
  <2>1. PICK e \in DOMAIN rows : rows[e] = n
    BY <1>7
  <2>2. CASE e <= size
    <3>1. e \in DOMAIN page /\ page[e] = n
      BY <1>8, <1>9, <1>10, <2>1, <2>2
    <3> QED BY <3>1
  <2>3. CASE size < e
    <3>1. ASSUME NEW i \in DOMAIN page PROVE RowBefore(page[i], n)
      <4>1. i \in DOMAIN rows /\ page[i] = rows[i] /\ i < e
        BY <1>8, <1>9, <1>10, <2>3
      <4> QED BY <1>3, <2>1, <4>1
    <3> QED BY <3>1
  <2> QED BY <1>8, <1>10, <2>2, <2>3
<1> QED BY <1>4, <1>9, <1>11, <1>12 DEF B

-----------------------------------------------------------------------------
(* Run, step by step *)

\* The kind of the source does not change.
Kinds == setting'.kind = setting.kind

\* The watcher, field by field.
LEMMA Parts ==
    ASSUME Typed
    PROVE  watcher = [pc |-> watcher.pc, start |-> watcher.start, next |-> watcher.next,
                      pos |-> watcher.pos, mark |-> watcher.mark, todo |-> watcher.todo]
BY DEF Typed, Where

\* What the kind of the source says stays true.
LEMMA KindsStay ==
    ASSUME Kinds
    PROVE  /\ Postgres' = Postgres /\ MySQL' = MySQL /\ Polling' = Polling
           /\ ~(Polling /\ Postgres) /\ ~(Polling /\ MySQL) /\ ~(MySQL /\ Postgres)
BY DEF Kinds, Postgres, MySQL, Polling

\* Run begins.
LEMMA RunMoves ==
    ASSUME SourceInv, Run
    PROVE  /\ SourceInv' /\ Kinds /\ At("off") /\ UNCHANGED <<lsn, log, slot, checkpoint, base>>
           /\ Polling => /\ watcher'.pc = "poll" /\ watcher'.todo = << >> /\ watcher.todo = << >>
                         /\ watcher'.mark = IF checkpoint = 0 THEN watcher.mark ELSE checkpoint
           /\ ~Polling => /\ watcher'.pc = "stream" /\ watcher'.start = StartAt(Resume)
                          /\ watcher'.pos = Resume /\ watcher'.next = 1 /\ watcher'.mark = 0
                          /\ watcher'.todo = << >>
                          /\ began' = IF checkpoint = 0 THEN Resume ELSE began
<1>1. /\ At("off") /\ UNCHANGED <<setting, lsn, log, open, slot, checkpoint, chunks, facts, done>>
  BY DEF Run, source, base
<1>2. /\ watcher.start \in Nat /\ watcher.next \in 1 .. Len(log) + 1 /\ watcher.mark \in 0..lsn
      /\ watcher.pos \in Nat /\ watcher.todo = << >> /\ lsn \in Nat /\ Len(log) \in Nat
      /\ checkpoint \in Nat /\ (Polling => checkpoint \in 0..lsn) /\ << >> \in Seq(DOMAIN log)
  BY <1>1, WatcherRead DEF SourceInv, Steps, Typed, At, Working
<1>3. CASE Polling
  <2>1. /\ watcher' = [watcher EXCEPT !.pc = "poll",
                                      !.mark = IF checkpoint = 0 THEN @ ELSE checkpoint]
        /\ began' = began
    BY <1>3 DEF Run
  <2>2. watcher' = [pc |-> "poll", start |-> watcher.start, next |-> watcher.next,
                    pos |-> watcher.pos, mark |-> IF checkpoint = 0 THEN watcher.mark ELSE checkpoint,
                    todo |-> watcher.todo]
    BY <2>1, Parts DEF SourceInv
  <2>3. watcher' \in Where
    BY <1>2, <1>3, <2>2 DEF Where
  <2>4. Steps'
    BY <1>1, <1>2, <1>3, <2>2 DEF Steps, Working, At, Polling
  <2>5. SourceInv'
    BY <1>1, <2>1, <2>3, <2>4, WatcherMoves DEF SourceInv, Typed, Known
  <2> QED BY <1>1, <1>2, <1>3, <2>2, <2>5 DEF Kinds, base
<1>4. CASE ~Polling
  <2>1. /\ watcher' = [Off EXCEPT !.pc = "stream", !.start = StartAt(Resume), !.pos = Resume]
        /\ began' = IF checkpoint = 0 THEN Resume ELSE began
    BY <1>4 DEF Run
  <2>2. watcher' = [pc |-> "stream", start |-> StartAt(Resume), next |-> 1, pos |-> Resume,
                    mark |-> 0, todo |-> << >>]
    BY <2>1 DEF Off
  <2>3. Resume \in Nat
    BY <1>2 DEF Resume
  <2>4. StartAt(Resume) \in Nat
    <3>1. slot \in Nat /\ Resume \in Nat
      BY <2>3 DEF SourceInv, Typed
    <3> HIDE DEF Resume
    <3>2. Max({Resume, slot}) \in {Resume, slot}
      BY <3>1, OfTwo
    <3> QED BY <2>3, <3>1, <3>2 DEF StartAt
  <2>5. watcher' \in Where
    BY <1>1, <1>2, <2>2, <2>3, <2>4 DEF Where
  <2>6. Steps'
    BY <1>1, <1>4, <2>2 DEF Steps, Working, At, Polling
  <2>7. began' \in Nat
    BY <2>1, <2>3 DEF SourceInv, Typed
  <2>8. SourceInv'
    BY <1>1, <1>4, <2>5, <2>6, <2>7, WatcherMoves DEF SourceInv, Typed, Known
  <2>9. /\ watcher'.pc = "stream" /\ watcher'.start = StartAt(Resume) /\ watcher'.pos = Resume
        /\ watcher'.next = 1 /\ watcher'.mark = 0 /\ watcher'.todo = << >>
    BY <2>2
  <2>10. Kinds /\ UNCHANGED <<lsn, log, slot, checkpoint, base>>
    BY <1>1 DEF Kinds, base
  <2> QED BY <1>1, <1>4, <2>1, <2>8, <2>9, <2>10
<1> QED BY <1>3, <1>4

\* A page is read.
LEMMA PollMoves ==
    ASSUME SourceInv, Poll
    PROVE  /\ SourceInv' /\ Kinds /\ At("poll") /\ Polling
           /\ UNCHANGED <<lsn, log, slot, checkpoint, base, began>>
           /\ watcher'.pc \in {"finish", "chunk"} /\ watcher'.mark = watcher.mark
           /\ watcher'.start = watcher.start /\ watcher'.pos = watcher.pos
           /\ watcher'.todo = PageOf(watcher.mark) /\ watcher.todo = << >>
<1> DEFINE page == PageOf(watcher.mark)
<1>1. /\ At("poll") /\ Polling /\ watcher.todo = << >>
      /\ UNCHANGED <<setting, lsn, log, open, slot, checkpoint, chunks, facts, done, began>>
      /\ watcher' = [watcher EXCEPT !.pc = IF page = << >> THEN "finish" ELSE "chunk",
                                    !.todo = page, !.mark = watcher.mark]
  BY DEF Poll, source, base, SourceInv, Steps, At, Working, MarkBefore
<1>2. /\ watcher.start \in Nat /\ watcher.next \in 1 .. Len(log) + 1 /\ watcher.mark \in 0..lsn
      /\ watcher.pos \in Nat
  BY WatcherRead DEF SourceInv
<1>3. page \in Seq(DOMAIN log)
  <2>1. page \in Seq(Beyond(watcher.mark)) /\ Beyond(watcher.mark) \subseteq DOMAIN log
    BY <1>2, PageIs, BeyondIs
  <2> HIDE DEF page
  <2> QED BY <2>1
<1> HIDE DEF page
<1>4. watcher' = [pc |-> IF page = << >> THEN "finish" ELSE "chunk", start |-> watcher.start,
                  next |-> watcher.next, pos |-> watcher.pos, mark |-> watcher.mark,
                  todo |-> page]
  BY <1>1, Parts DEF SourceInv
<1>5. watcher' \in Where
  BY <1>1, <1>2, <1>3, <1>4 DEF Where
<1>6. Steps'
  BY <1>1, <1>4 DEF Steps, Working, At, Polling
<1>7. SourceInv'
  BY <1>1, <1>5, <1>6, WatcherMoves DEF SourceInv, Typed, Known
<1> QED BY <1>1, <1>4, <1>7 DEF Kinds, base, page

\* The next change is received.
LEMMA ReceiveMoves ==
    ASSUME SourceInv, Receive
    PROVE  /\ SourceInv' /\ Kinds /\ At("stream") /\ ~Polling
           /\ UNCHANGED <<lsn, log, slot, checkpoint, base, began>>
           /\ watcher'.pc = "chunk" /\ watcher'.start = watcher.start
           /\ watcher'.pos = watcher.pos
           /\ watcher'.next - 1 \in ToCome /\ \A m \in ToCome : watcher'.next - 1 <= m
<1>0. PICK n : n = CHOOSE l \in ToCome : \A m \in ToCome : l <= m
  OBVIOUS
<1>1. /\ At("stream") /\ ~Polling /\ ToCome # {}
      /\ UNCHANGED <<setting, lsn, log, open, slot, checkpoint, chunks, facts, done, began>>
      /\ watcher' = [watcher EXCEPT !.pc = "chunk", !.todo = <<n>>, !.next = n + 1]
  BY <1>0 DEF Receive, source, base, SourceInv, Steps
<1>2. ToCome \in SUBSET Nat /\ ToCome \subseteq DOMAIN log /\ DOMAIN log = 1..Len(log)
      /\ Len(log) \in Nat
  BY DEF ToCome, SourceInv, Typed
<1>3. n \in ToCome /\ \A m \in ToCome : n <= m
  <2>1. \E l \in ToCome : \A m \in ToCome : l <= m
    BY <1>1, <1>2, LeastNatural
  <2> QED BY <1>0, <2>1
<1>4. /\ n \in 1..Len(log) /\ n \in Nat /\ n + 1 - 1 = n /\ Sends(n, watcher.start)
  BY <1>2, <1>3 DEF ToCome
<1>5. watcher' = [pc |-> "chunk", start |-> watcher.start, next |-> n + 1, pos |-> watcher.pos,
                  mark |-> watcher.mark, todo |-> <<n>>]
  BY <1>1, Parts DEF SourceInv
<1>6. watcher' \in Where
  <2>1. watcher.start \in Nat /\ watcher.pos \in Nat /\ watcher.mark \in 0..lsn
    BY WatcherRead DEF SourceInv
  <2>2. <<n>> \in Seq(DOMAIN log) /\ n + 1 \in 1 .. Len(log) + 1
    BY <1>2, <1>4
  <2> QED BY <1>1, <1>5, <2>1, <2>2 DEF Where
<1>7. Steps'
  <2>1. Sends(n, watcher.start)' /\ watcher'.start = watcher.start
    BY <1>1, <1>4, <1>5 DEF Sends, Postgres
  <2> QED BY <1>1, <1>4, <1>5, <2>1 DEF Steps, Working, At, Polling, Sends, Postgres
<1>8. SourceInv'
  BY <1>1, <1>6, <1>7, WatcherMoves DEF SourceInv, Typed, Known
<1> QED BY <1>1, <1>3, <1>4, <1>5, <1>8 DEF Kinds, base

\* The chunk of the row is what the event says.
LEMMA ChunkMoves ==
    ASSUME SourceInv, ApplyChunk
    PROVE  /\ SourceInv' /\ Kinds /\ At("chunk") /\ Working
           /\ UNCHANGED <<lsn, log, slot, checkpoint, facts, done, began>>
           /\ chunks' = [chunks EXCEPT ![Event.key] = Event.val]
           /\ watcher'.pc = "facts" /\ watcher'.start = watcher.start
           /\ watcher'.next = watcher.next /\ watcher'.pos = watcher.pos
           /\ watcher'.mark = watcher.mark /\ watcher'.todo = watcher.todo
<1>1. /\ At("chunk") /\ Working
      /\ UNCHANGED <<setting, lsn, log, open, slot, checkpoint, facts, done, began>>
      /\ chunks' = [chunks EXCEPT ![Event.key] = Event.val]
      /\ watcher' = [watcher EXCEPT !.pc = "facts"]
  BY DEF ApplyChunk, source, At, Working
<1>2. watcher' = [pc |-> "facts", start |-> watcher.start, next |-> watcher.next,
                  pos |-> watcher.pos, mark |-> watcher.mark, todo |-> watcher.todo]
  BY <1>1, Parts DEF SourceInv
<1>3. watcher' \in Where
  BY <1>2, WatcherRead DEF Where, SourceInv
<1>4. Event.key \in Keys /\ Event.val \in Values \cup {None}
  BY <1>1, AtHand
<1>5. Known' /\ chunks'[Event.key] = Event.val
  BY <1>1, <1>4 DEF SourceInv, Typed, Known
<1>6. Event' = Event
  BY <1>1, <1>2 DEF Event
<1>7. Steps'
  <2>1. /\ watcher.todo # << >>
        /\ ~Polling => watcher.todo = <<watcher.next - 1>> /\ Sends(watcher.next - 1, watcher.start)
    BY <1>1 DEF SourceInv, Steps
  <2>2. ~Polling => Sends(watcher.next - 1, watcher.start)'
    BY <1>1, <1>2, <2>1 DEF Sends, Postgres
  <2> QED BY <1>1, <1>2, <1>5, <1>6, <2>1, <2>2 DEF Steps, Working, At, Polling
<1>8. SourceInv'
  BY <1>1, <1>3, <1>5, <1>7, WatcherMoves DEF SourceInv, Typed
<1> QED BY <1>1, <1>2, <1>8 DEF Kinds

\* And its triples; the event is applied.
LEMMA FactsMoves ==
    ASSUME SourceInv, ApplyFacts
    PROVE  /\ SourceInv' /\ Kinds /\ At("facts") /\ Working /\ chunks[Event.key] = Event.val
           /\ UNCHANGED <<lsn, log, slot, checkpoint, chunks, began>>
           /\ facts' = [facts EXCEPT ![Event.key] = IF Event.val = None THEN {}
                                                    ELSE @ \cup {Event.val}]
           /\ done' = done \cup {Head(watcher.todo)}
           /\ watcher'.pc = "save" /\ watcher'.start = watcher.start
           /\ watcher'.next = watcher.next /\ watcher'.pos = watcher.pos
           /\ watcher'.mark = watcher.mark /\ watcher'.todo = watcher.todo
<1>1. /\ At("facts") /\ Working /\ chunks[Event.key] = Event.val
      /\ UNCHANGED <<setting, lsn, log, open, slot, checkpoint, chunks, began>>
      /\ facts' = [facts EXCEPT ![Event.key] = IF Event.val = None THEN {}
                                               ELSE @ \cup {Event.val}]
      /\ done' = done \cup {Head(watcher.todo)}
      /\ watcher' = [watcher EXCEPT !.pc = "save"]
  BY DEF ApplyFacts, source, At, Working, SourceInv, Steps
<1>2. watcher' = [pc |-> "save", start |-> watcher.start, next |-> watcher.next,
                  pos |-> watcher.pos, mark |-> watcher.mark, todo |-> watcher.todo]
  BY <1>1, Parts DEF SourceInv
<1>3. watcher' \in Where
  BY <1>2, WatcherRead DEF Where, SourceInv
<1>4. Event.key \in Keys /\ Event.val \in Values \cup {None} /\ Head(watcher.todo) \in DOMAIN log
  BY <1>1, AtHand
<1>5. Known'
  <2>1. facts[Event.key] \in SUBSET Values
    BY <1>4 DEF SourceInv, Typed, Known
  <2>2. (IF Event.val = None THEN {} ELSE facts[Event.key] \cup {Event.val}) \in SUBSET Values
    BY <1>4, <2>1
  <2> QED BY <1>1, <1>4, <2>2 DEF SourceInv, Typed, Known
<1>6. Steps'
  <2>1. /\ watcher.todo # << >>
        /\ ~Polling => watcher.todo = <<watcher.next - 1>> /\ Sends(watcher.next - 1, watcher.start)
    BY <1>1 DEF SourceInv, Steps
  <2>2. ~Polling => Sends(watcher.next - 1, watcher.start)'
    BY <1>1, <1>2, <2>1 DEF Sends, Postgres
  <2> QED BY <1>1, <1>2, <2>1, <2>2 DEF Steps, Working, At, Polling
<1>7. done' \subseteq DOMAIN log
  BY <1>1, <1>4 DEF SourceInv, Typed
<1>8. SourceInv'
  BY <1>1, <1>3, <1>5, <1>6, <1>7, WatcherMoves DEF SourceInv, Typed
<1> QED BY <1>1, <1>2, <1>8 DEF Kinds

\* The place of the event is saved, or its cursor the mark.
LEMMA AppliedMoves ==
    ASSUME SourceInv, Applied
    PROVE  /\ SourceInv' /\ Kinds /\ At("save") /\ Working /\ Head(watcher.todo) \in done
           /\ UNCHANGED <<lsn, log, slot, base, began>>
           /\ watcher'.start = watcher.start /\ watcher'.next = watcher.next
           /\ Polling => /\ checkpoint' = checkpoint /\ watcher'.mark = Event.at
                         /\ watcher'.pc \in {"finish", "chunk"} /\ watcher'.pos = watcher.pos
                         /\ watcher'.todo = Tail(watcher.todo)
           /\ ~Polling => /\ checkpoint' = Reach(Received) /\ Head(watcher.todo) = Received
                          /\ watcher'.pc = IF Postgres /\ EndsTransaction(Received)
                                           THEN "commit" ELSE "stream"
                          /\ watcher'.pos = IF Postgres THEN Reach(Received) ELSE watcher.pos
<1>1. /\ At("save") /\ Working /\ Head(watcher.todo) \in done
      /\ UNCHANGED <<setting, lsn, log, open, slot, chunks, facts, done, began>>
  BY DEF Applied, source, base, At, Working, SourceInv, Steps
<1>2. /\ watcher.start \in Nat /\ watcher.next \in 1 .. Len(log) + 1 /\ watcher.mark \in 0..lsn
      /\ watcher.pos \in Nat
      /\ watcher.todo \in Seq(DOMAIN log) /\ watcher.todo # << >> /\ Event.at \in 0..lsn
      /\ Head(watcher.todo) = watcher.todo[1]
  BY <1>1, WatcherRead, AtHand DEF SourceInv
<1>3. CASE Polling
  <2> DEFINE rest == Tail(watcher.todo)
  <2>1. /\ watcher' = [watcher EXCEPT !.mark = Event.at, !.todo = rest,
                                      !.pc = IF rest = << >> THEN "finish" ELSE "chunk"]
        /\ checkpoint' = checkpoint
    BY <1>3 DEF Applied
  <2>2. rest \in Seq(DOMAIN log)
    BY ONLY <1>2, HeadTailProperties
  <2> HIDE DEF rest
  <2>3. watcher' = [pc |-> IF rest = << >> THEN "finish" ELSE "chunk", start |-> watcher.start,
                    next |-> watcher.next, pos |-> watcher.pos, mark |-> Event.at,
                    todo |-> rest]
    BY <2>1, Parts DEF SourceInv
  <2>4. watcher' \in Where
    BY <1>1, <1>2, <2>2, <2>3 DEF Where
  <2>5. Steps'
    BY <1>1, <1>3, <2>3 DEF Steps, Working, At, Polling
  <2>6. SourceInv'
    BY <1>1, <2>1, <2>4, <2>5, WatcherMoves DEF SourceInv, Typed, Known
  <2> QED BY <1>1, <1>3, <2>1, <2>3, <2>6 DEF Kinds, base, rest
<1>4. CASE ~Polling
  <2> DEFINE after == IF Postgres /\ EndsTransaction(Received) THEN "commit" ELSE "stream"
             place == IF Postgres THEN Reach(Received) ELSE watcher.pos
  <2>1. /\ watcher' = [watcher EXCEPT !.pc = after, !.pos = place, !.todo = << >>]
        /\ checkpoint' = Reach(Received)
    BY <1>4 DEF Applied, Position
  <2>2. Head(watcher.todo) = Received
    <3>1. watcher.todo = <<watcher.next - 1>>
      BY <1>1, <1>4 DEF SourceInv, Steps
    <3> QED BY <3>1 DEF Received
  <2>3. Reach(Received) \in Nat /\ place \in Nat
    <3>1. Received \in DOMAIN log
      BY <1>1, <2>2, AtHand
    <3>2. log[Received].at \in Nat /\ log[Received].longer \in Nat
      BY <3>1, LogRead DEF SourceInv
    <3> QED BY <1>2, <3>2 DEF Reach
  <2>4. after \in {"commit", "stream"} /\ (after = "commit" => Postgres)
    OBVIOUS
  <2> HIDE DEF after, place
  <2>5. watcher' = [pc |-> after, start |-> watcher.start, next |-> watcher.next,
                    pos |-> place, mark |-> watcher.mark, todo |-> << >>]
    BY <2>1, Parts DEF SourceInv
  <2>6. watcher' \in Where
    <3>1. << >> \in Seq(DOMAIN log)
      OBVIOUS
    <3> QED BY <1>1, <1>2, <2>3, <2>4, <2>5, <3>1 DEF Where
  <2>7. Steps'
    BY <1>1, <1>4, <2>4, <2>5 DEF Steps, Working, At, Polling, Postgres
  <2>8. SourceInv'
    BY <1>1, <1>4, <2>1, <2>3, <2>6, <2>7, WatcherMoves DEF SourceInv, Typed, Known
  <2>9. watcher'.pc = after /\ watcher'.pos = place /\ UNCHANGED <<watcher.start, watcher.next>>
    BY <2>5
  <2> QED BY <1>1, <1>4, <2>1, <2>2, <2>8, <2>9 DEF Kinds, base, after, place
<1> QED BY <1>3, <1>4

\* A drain saves its mark.
LEMMA MarkMoves ==
    ASSUME SourceInv, SaveMark
    PROVE  /\ SourceInv' /\ Kinds /\ At("finish") /\ Polling
           /\ UNCHANGED <<lsn, log, slot, base, began>>
           /\ checkpoint' = watcher.mark /\ watcher'.pc = "off"
           /\ watcher'.mark = watcher.mark /\ watcher'.todo = << >> /\ watcher.todo = << >>
           /\ watcher'.start = watcher.start /\ watcher'.pos = watcher.pos
<1>1. /\ At("finish") /\ Polling /\ watcher.todo = << >>
      /\ UNCHANGED <<setting, lsn, log, open, slot, chunks, facts, done, began>>
      /\ checkpoint' = watcher.mark /\ watcher' = [watcher EXCEPT !.pc = "off"]
  BY DEF SaveMark, source, base, At, Working, SourceInv, Steps
<1>2. watcher' = [pc |-> "off", start |-> watcher.start, next |-> watcher.next,
                  pos |-> watcher.pos, mark |-> watcher.mark, todo |-> watcher.todo]
  BY <1>1, Parts DEF SourceInv
<1>3. watcher' \in Where /\ checkpoint' \in Nat /\ checkpoint' <= lsn
  <2>1. /\ watcher.start \in Nat /\ watcher.next \in 1 .. Len(log) + 1 /\ watcher.pos \in Nat
        /\ watcher.mark \in 0..lsn /\ watcher.todo \in Seq(DOMAIN log) /\ lsn \in Nat
    BY WatcherRead DEF SourceInv
  <2>2. watcher' \in Where
    BY <1>1, <1>2, <2>1 DEF Where
  <2> QED BY <1>1, <2>1, <2>2
<1>4. Steps'
  BY <1>1, <1>2 DEF Steps, Working, At, Polling
<1>5. SourceInv'
  BY <1>1, <1>3, <1>4, WatcherMoves DEF SourceInv, Typed, Known
<1> QED BY <1>1, <1>2, <1>5 DEF Kinds, base

\* The COMMIT of the transaction at hand.
LEMMA CommitMoves ==
    ASSUME SourceInv, PlaceInv, ReceiveCommit
    PROVE  /\ SourceInv' /\ Kinds /\ At("commit") /\ Postgres /\ Received \in done
           /\ UNCHANGED <<lsn, log, slot, checkpoint, base, began>>
           /\ watcher'.pc = "stream" /\ watcher'.start = watcher.start
           /\ watcher'.next = watcher.next /\ watcher'.pos = log[Received].commit + 1
<1>1. /\ At("commit") /\ Postgres /\ ~Polling /\ Received \in done /\ watcher.todo = << >>
      /\ UNCHANGED <<setting, lsn, log, open, slot, checkpoint, chunks, facts, done, began>>
      /\ watcher' = [watcher EXCEPT !.pc = "stream", !.pos = log[Received].commit + 1]
  BY DEF ReceiveCommit, source, base, SourceInv, Steps, PlaceInv, At, Working, Postgres, Polling
<1>2. log[Received].commit + 1 \in Nat
  <2>1. Received \in DOMAIN log
    BY <1>1 DEF SourceInv, Typed
  <2>2. log[Received].commit \in Nat
    BY <2>1, LogRead DEF SourceInv
  <2> QED BY <2>2
<1>3. watcher' = [pc |-> "stream", start |-> watcher.start, next |-> watcher.next,
                  pos |-> log[Received].commit + 1, mark |-> watcher.mark, todo |-> watcher.todo]
  BY <1>1, Parts DEF SourceInv
<1>4. watcher' \in Where
  BY <1>1, <1>2, <1>3, WatcherRead DEF Where, SourceInv
<1>5. Steps'
  BY <1>1, <1>3 DEF Steps, Working, At, Polling
<1>6. SourceInv'
  BY <1>1, <1>4, <1>5, WatcherMoves DEF SourceInv, Typed, Known
<1> QED BY <1>1, <1>3, <1>6 DEF Kinds, base

\* The position follows the server's, before what is to come.
LEMMA KeepaliveMoves ==
    ASSUME SourceInv, Keepalive
    PROVE  /\ SourceInv' /\ Kinds /\ watcher.pc \in {"stream", "commit"} /\ Postgres
           /\ UNCHANGED <<lsn, log, slot, checkpoint, base, began>>
           /\ watcher'.pc = watcher.pc /\ watcher'.start = watcher.start
           /\ watcher'.next = watcher.next /\ watcher'.pos \in Nat /\ watcher'.pos <= lsn
           /\ \A n \in ToCome : watcher'.pos < log[n].commit
<1>1. PICK p \in watcher.pos + 1 .. lsn :
         /\ \A n \in ToCome : p < log[n].commit
         /\ watcher' = [watcher EXCEPT !.pos = p]
  BY DEF Keepalive
<1>2. /\ watcher.pc \in {"stream", "commit"} /\ Postgres /\ ~Polling /\ watcher.todo = << >>
      /\ UNCHANGED <<setting, lsn, log, open, slot, checkpoint, chunks, facts, done, began>>
  BY DEF Keepalive, Waiting, source, base, SourceInv, Steps, At, Working, Postgres, Polling
<1>3. p \in Nat /\ p <= lsn
  BY WatcherRead DEF SourceInv
<1>4. watcher' = [pc |-> watcher.pc, start |-> watcher.start, next |-> watcher.next, pos |-> p,
                  mark |-> watcher.mark, todo |-> watcher.todo]
  BY <1>1, Parts DEF SourceInv
<1>5. watcher' \in Where
  BY <1>3, <1>4, WatcherRead DEF Where, SourceInv
<1>6. Steps'
  BY <1>2, <1>4 DEF Steps, Working, At, Polling, Postgres
<1>7. SourceInv'
  BY <1>2, <1>5, <1>6, WatcherMoves DEF SourceInv, Typed, Known
<1> QED BY <1>1, <1>2, <1>3, <1>4, <1>7 DEF Kinds, base

\* The slot moves to the position.
LEMMA StandbyMoves ==
    ASSUME SourceInv, Standby
    PROVE  /\ SourceInv' /\ Kinds /\ watcher.pc \in {"stream", "commit"} /\ Postgres
           /\ UNCHANGED <<lsn, log, checkpoint, watcher, base, began>>
           /\ slot' = watcher.pos /\ watcher.pos \in Nat
<1>1. /\ watcher.pc \in {"stream", "commit"} /\ Postgres /\ slot' = watcher.pos
      /\ UNCHANGED <<setting, lsn, log, open, checkpoint, watcher, chunks, facts, done, began>>
  BY DEF Standby, Waiting, source, base
<1>2. slot' \in Nat
  BY <1>1, WatcherRead DEF SourceInv
<1>3. Steps'
  BY <1>1 DEF SourceInv, Steps, At, Working, Polling, Postgres
<1>4. SourceInv'
  BY <1>1, <1>2, <1>3, WatcherMoves DEF SourceInv, Typed, Known
<1> QED BY <1>1, <1>2, <1>4 DEF Kinds, base

\* The ways a Run ends without its end.
Stops == Fail \/ DeleteFails \/ Crash

\* Run returns an error, or the process dies.
LEMMA StopMoves ==
    ASSUME SourceInv, Stops
    PROVE  /\ SourceInv' /\ Kinds
           /\ UNCHANGED <<lsn, log, slot, checkpoint, base, began>>
           /\ watcher'.pc = "off" /\ watcher'.mark \in {0, watcher.mark}
           /\ watcher'.todo = << >> /\ watcher'.start = 0 /\ watcher'.pos = 0
<1>1. /\ UNCHANGED <<lsn, log, open, slot, checkpoint, chunks, facts, done, began>>
      /\ watcher' = Failed \/ watcher' = Off
      /\ setting' = setting \/ Trouble
  BY DEF Stops, Fail, DeleteFails, Crash, source, base
<1>2. setting' \in Setting /\ setting'.kind = setting.kind
  <2>1. CASE Trouble
    <3>1. setting \in Setting /\ setting.troubles \in Nat /\ setting.troubles > 0
      BY <2>1 DEF SourceInv, Typed, Setting, Trouble
    <3>2. setting' = [setting EXCEPT !.troubles = setting.troubles - 1]
      BY <2>1 DEF Trouble
    <3>3. setting.troubles - 1 \in Nat
      BY <3>1
    <3> QED BY <3>1, <3>2, <3>3 DEF Setting
  <2> QED BY <1>1, <2>1 DEF SourceInv, Typed
<1>3. /\ watcher' \in Where /\ watcher'.pc = "off" /\ watcher'.mark \in {0, watcher.mark}
      /\ watcher'.todo = << >> /\ watcher'.start = 0 /\ watcher'.pos = 0
  <2>1. << >> \in Seq(DOMAIN log) /\ 1 \in 1 .. Len(log) + 1 /\ 0 \in 0..lsn
    BY WatcherRead DEF SourceInv
  <2>2. CASE watcher' = Failed
    <3>1. watcher' = [pc |-> "off", start |-> 0, next |-> 1, pos |-> 0, mark |-> watcher.mark,
                      todo |-> << >>]
      BY <2>2, Parts DEF Failed, SourceInv
    <3>2. watcher.mark \in 0..lsn
      BY WatcherRead DEF SourceInv
    <3> QED BY <2>1, <3>1, <3>2 DEF Where
  <2>3. CASE watcher' = Off
    BY <2>1, <2>3 DEF Where, Off
  <2> QED BY <1>1, <2>2, <2>3
<1>4. Steps'
  BY <1>3 DEF Steps, Working, At
<1>5. SourceInv'
  BY <1>1, <1>2, <1>3, <1>4, WatcherMoves DEF SourceInv, Typed, Known
<1> QED BY <1>1, <1>2, <1>3, <1>5 DEF Kinds, base

-----------------------------------------------------------------------------
(* What does not change with the watcher, or with the log *)

\* The order of the log, read at two changes.
LEMMA OrderRead ==
    ASSUME SourceInv, NEW m \in DOMAIN log, NEW n \in DOMAIN log
    PROVE  /\ m \in Nat /\ n \in Nat /\ log[m].at \in Nat /\ log[n].at \in Nat
           /\ log[m].commit \in Nat /\ log[n].commit \in Nat /\ lsn \in Nat
           /\ 0 < log[n].at /\ log[n].at <= lsn
           /\ Postgres => log[n].at < log[n].commit /\ log[n].commit <= lsn
           /\ Postgres /\ m < n => log[m].commit <= log[n].commit
           /\ MySQL /\ m < n => log[m].at <= log[n].at
BY LogRead DEF SourceInv, LogOrder, Typed

\* What is sent with a change is sent with the later ones.
LEMMA LaterSent ==
    ASSUME SourceInv, ~Polling, NEW m \in DOMAIN log, NEW n \in DOMAIN log, m < n,
           NEW p \in Nat, Sends(m, p)
    PROVE  Sends(n, p)
<1>1. Postgres \/ MySQL
  BY DEF SourceInv, Typed, Setting, Postgres, MySQL, Polling
<1>2. ~(MySQL /\ Postgres) /\ p \in Nat
  BY DEF MySQL, Postgres
<1> QED BY <1>1, <1>2, OrderRead DEF Sends

\* Steps of the watcher: the log says what it said.
LEMMA LogStays ==
    ASSUME Kinds, log' = log
    PROVE  /\ \A k : Changes(k)' = Changes(k) /\ Newest(k)' = Newest(k) /\ Exists(k)' = Exists(k)
           /\ \A n, p : Sends(n, p)' = Sends(n, p)
           /\ \A n : InOrder(n)' = InOrder(n)
<1>1. \A k : Changes(k)' = Changes(k)
  BY DEF Changes
<1>2. \A k : Newest(k)' = Newest(k)
  BY <1>1 DEF Newest
<1> QED BY <1>1, <1>2, KindsStay DEF Exists, Sends, InOrder

\* Where the next Run starts is what slot and position say.
LEMMA PlaceStays ==
    ASSUME Kinds, slot' = slot, checkpoint' = checkpoint
    PROVE  Place' = Place /\ \A p : StartAt(p)' = StartAt(p)
BY KindsStay DEF Place, StartAt

\* What lies past every place does while the places stay.
LEMMA BehindStays ==
    ASSUME Kinds, log' = log, slot' = slot, checkpoint' = checkpoint, watcher'.pos = watcher.pos
    PROVE  \A n : Behind(n)' <=> Behind(n)
<1>1. Place' = Place /\ \A n, p : Sends(n, p)' <=> Sends(n, p)
  BY PlaceStays, LogStays
<1> QED BY <1>1, KindsStay DEF Behind, Sends

\* What was lost stays lost.
LEMMA LostStays ==
    ASSUME Kinds, done \subseteq done', \A m \in done : log'[m] = log[m]
    PROVE  \A n : log'[n] = log[n] /\ Lost(n) => Lost(n)'
BY KindsStay DEF Lost, Torn, Overrun, Reach

\* Enough that StreamInv stays true when the watcher moves.
LEMMA StreamKeeps ==
    ASSUME SourceInv, StreamInv, Kinds, UNCHANGED <<log, began>>, done \subseteq done',
           PlaceBehind',
           \A n \in DOMAIN log : Awaited(n) => n \in done' \/ Lost(n)' \/ Awaited(n)',
           \A k \in Keys : Changes(k) # {} /\ (Tells(k) \/ Awaited(Newest(k))) =>
                Tells(k)' \/ Lost(Newest(k))' \/ Awaited(Newest(k))'
    PROVE  StreamInv'
<1>1. /\ Polling' = Polling /\ DOMAIN log' = DOMAIN log
      /\ \A n \in DOMAIN log : /\ Sends(n, began)' <=> Sends(n, began)
                               /\ Lost(n) => Lost(n)'
  BY LogStays, KindsStay, LostStays
<1>2. AppliedOrAwaited'
  <2> SUFFICES ASSUME ~Polling, NEW n \in DOMAIN log, Sends(n, began)
               PROVE  n \in done' \/ Lost(n)' \/ Awaited(n)'
    BY <1>1 DEF AppliedOrAwaited
  <2>1. n \in done \/ Lost(n) \/ Awaited(n)
    BY DEF StreamInv, AppliedOrAwaited
  <2> QED BY <1>1, <2>1
<1>3. ToldOrAwaited'
  <2>1. \A k : /\ Changes(k)' = Changes(k) /\ Newest(k)' = Newest(k)
               /\ Sends(Newest(k), began)' <=> Sends(Newest(k), began)
    BY LogStays, KindsStay DEF Sends
  <2> SUFFICES ASSUME ~Polling, NEW k \in Keys, Changes(k) # {}, Sends(Newest(k), began)
               PROVE  Tells(k)' \/ Lost(Newest(k))' \/ Awaited(Newest(k))'
    BY <1>1, <2>1 DEF ToldOrAwaited
  <2>2. PICK n \in DOMAIN log : n = Newest(k)
    BY NewestIs DEF SourceInv
  <2>3. Tells(k) \/ Lost(n) \/ Awaited(Newest(k))
    BY <2>2 DEF StreamInv, ToldOrAwaited
  <2>4. Lost(n) => Lost(Newest(k))'
    <3>1. Lost(n) => Lost(n)'
      BY <1>1
    <3> QED BY <2>1, <2>2, <3>1 DEF Lost, Torn, Overrun, Reach
  <2> QED BY <2>2, <2>3, <2>4
<1> QED BY <1>2, <1>3 DEF StreamInv

-----------------------------------------------------------------------------
(* No place is carried too far unseen *)

\* A place as it was, one in the log, or one that a row applied explains.
Allowed(p) ==
    \/ p \in {slot, checkpoint, watcher.start, watcher.pos}
    \/ p <= lsn
    \/ Postgres /\ \E m \in done : p <= Reach(m) \/ p <= log[m].commit + 1

\* Such a place is still explained when more is applied or the log grows.
LEMMA ReachedKeeps ==
    ASSUME SourceInv, PlaceInv, Kinds, lsn' \in Nat, lsn <= lsn', done \subseteq done',
           \A m \in done : log'[m] = log[m], NEW p \in Nat, Allowed(p)
    PROVE  \/ p <= lsn'
           \/ Postgres' /\ \E m \in done' : p <= Reach(m)' \/ p <= log'[m].commit + 1
<1>1. Reached(p)
  BY DEF Allowed, PlaceInv, Reached
<1>2. CASE p <= lsn
  BY <1>2 DEF SourceInv, Typed
<1>3. CASE Postgres /\ \E m \in done : p <= Reach(m) \/ p <= log[m].commit + 1
  <2>1. \A m \in done : Reach(m)' = Reach(m)
    BY KindsStay DEF Reach
  <2> QED BY <1>3, <2>1, KindsStay
<1> QED BY <1>1, <1>2, <1>3 DEF Reached

\* Enough that PlaceInv stays true when the watcher moves.
LEMMA PlacesKeep ==
    ASSUME SourceInv, SourceInv', PlaceInv, Kinds, UNCHANGED <<lsn, log>>, done \subseteq done',
           Allowed(slot'), Allowed(checkpoint'), Allowed(watcher'.start), Allowed(watcher'.pos),
           watcher'.pc = "commit" =>
              /\ watcher'.next - 1 \in done
              /\ \A n \in DOMAIN log : n > watcher'.next - 1 =>
                    log[watcher'.next - 1].commit < log[n].commit
    PROVE  PlaceInv'
<1>1. slot' \in Nat /\ checkpoint' \in Nat /\ watcher'.start \in Nat /\ watcher'.pos \in Nat
      /\ lsn' \in Nat /\ lsn <= lsn'
  BY DEF SourceInv, Typed, Where
<1>2. Reached(slot)'
  BY <1>1, ReachedKeeps DEF Reached
<1>3. Reached(checkpoint)'
  BY <1>1, ReachedKeeps DEF Reached
<1>4. Reached(watcher.start)'
  BY <1>1, ReachedKeeps DEF Reached
<1>5. Reached(watcher.pos)'
  BY <1>1, ReachedKeeps DEF Reached
<1> QED BY <1>2, <1>3, <1>4, <1>5 DEF PlaceInv, At, Received

\* New changes lie past the end of the log; the log grows by them.
Ahead(more) == \A i \in DOMAIN more : /\ Postgres => more[i].commit = lsn + 1
                                      /\ MySQL => more[i].at > lsn
                                      /\ more[i].at > 0
Grows(more) == Kinds /\ log' = log \o more /\ UNCHANGED <<slot, checkpoint, watcher, base, began>>

\* The source moves on.
LEMMA SourcePlaces ==
    ASSUME SourceInv, SourceInv', PlaceInv, NEW more \in Seq(Change), Grows(more), Ahead(more),
           lsn <= lsn'
    PROVE  PlaceInv'
<1>1. /\ Kinds /\ log' = log \o more /\ UNCHANGED <<slot, checkpoint, watcher, done>>
      /\ lsn \in Nat /\ lsn' \in Nat /\ slot \in Nat /\ checkpoint \in Nat
      /\ watcher.start \in Nat /\ watcher.pos \in Nat
  BY DEF SourceInv, Typed, Where, Grows, base
<1>2. /\ DOMAIN log = 1..Len(log) /\ Len(log) \in Nat /\ done \subseteq DOMAIN log
      /\ \A n \in DOMAIN log : log'[n] = log[n]
      /\ \A n \in DOMAIN log' \ DOMAIN log :
            n > Len(log) /\ n - Len(log) \in DOMAIN more /\ log'[n] = more[n - Len(log)]
  BY <1>1, LogGrows DEF SourceInv, Typed
<1>3. Reached(slot)'
  BY <1>1, <1>2, ReachedKeeps DEF Reached, Allowed
<1>4. Reached(checkpoint)'
  BY <1>1, <1>2, ReachedKeeps DEF Reached, Allowed
<1>5. Reached(watcher.start)'
  BY <1>1, <1>2, ReachedKeeps DEF Reached, Allowed
<1>6. Reached(watcher.pos)'
  BY <1>1, <1>2, ReachedKeeps DEF Reached, Allowed
<1>7. ASSUME At("commit"), NEW n \in DOMAIN log', n > Received
      PROVE  log'[Received].commit < log'[n].commit
  <2>1. /\ Received \in done /\ Postgres /\ log'[Received] = log[Received]
        /\ \A m \in DOMAIN log : m > Received => log[Received].commit < log[m].commit
    BY <1>2, <1>7 DEF PlaceInv, SourceInv, Steps
  <2>2. log[Received].commit \in Nat /\ log[Received].commit <= lsn
    BY <1>2, <2>1, OrderRead
  <2>3. CASE n \in DOMAIN log
    BY <1>2, <1>7, <2>1, <2>3
  <2>4. CASE n \notin DOMAIN log
    BY <1>1, <1>2, <2>1, <2>2, <2>4 DEF Ahead
  <2> QED BY <2>3, <2>4
<1> QED BY <1>1, <1>3, <1>4, <1>5, <1>6, <1>7 DEF PlaceInv, At, Received

\* A Run starts at a place there was, or where the source is.
LEMMA RunPlaces ==
    ASSUME SourceInv, PlaceInv, Run
    PROVE  PlaceInv'
<1>1. /\ SourceInv' /\ Kinds /\ UNCHANGED <<lsn, log, slot, checkpoint, done>>
      /\ watcher'.pc # "commit" /\ lsn \in Nat
  BY RunMoves DEF base, SourceInv, Typed
<1>2. Allowed(slot') /\ Allowed(checkpoint')
  BY <1>1 DEF Allowed
<1>3. CASE Polling
  <2>1. watcher' = [watcher EXCEPT !.pc = "poll",
                                   !.mark = IF checkpoint = 0 THEN @ ELSE checkpoint]
    BY <1>3 DEF Run
  <2>2. watcher'.start = watcher.start /\ watcher'.pos = watcher.pos
    BY <2>1, Parts DEF SourceInv
  <2> QED BY <1>1, <1>2, <2>2, PlacesKeep DEF Allowed
<1>4. CASE ~Polling
  <2>1. watcher'.start = StartAt(Resume) /\ watcher'.pos = Resume
    BY <1>4, RunMoves
  <2>2. Resume \in {lsn, checkpoint} /\ Resume \in Nat
    BY DEF Resume, SourceInv, Typed
  <2>3. StartAt(Resume) \in {Resume, slot}
    <3>1. Max({Resume, slot}) \in {Resume, slot}
      BY <2>2, OfTwo DEF SourceInv, Typed
    <3> QED BY <3>1 DEF StartAt
  <2>4. Allowed(Resume)
    BY <1>1, <2>2 DEF Allowed
  <2>5. Allowed(StartAt(Resume))
    BY <2>3, <2>4 DEF Allowed
  <2> QED BY <1>1, <1>2, <2>1, <2>4, <2>5, PlacesKeep
<1> QED BY <1>3, <1>4

\* Reading and applying moves no place.
LEMMA OtherPlaces ==
    ASSUME SourceInv, PlaceInv, Poll \/ Receive \/ ApplyChunk \/ ApplyFacts
    PROVE  PlaceInv'
<1>1. /\ SourceInv' /\ Kinds /\ UNCHANGED <<lsn, log, slot, checkpoint>>
      /\ watcher'.start = watcher.start /\ watcher'.pos = watcher.pos /\ watcher'.pc # "commit"
      /\ done \subseteq done'
  BY PollMoves, ReceiveMoves, ChunkMoves, FactsMoves DEF base
<1> QED BY <1>1, PlacesKeep DEF Allowed

\* A row carries the place no further than its text reaches.
LEMMA AppliedPlaces ==
    ASSUME SourceInv, PlaceInv, Applied
    PROVE  PlaceInv'
<1>1. /\ SourceInv' /\ Kinds /\ UNCHANGED <<lsn, log, slot, done>>
      /\ watcher'.start = watcher.start /\ watcher'.next = watcher.next
      /\ Head(watcher.todo) \in done
  BY AppliedMoves DEF base
<1>2. CASE Polling
  BY <1>1, <1>2, AppliedMoves, PlacesKeep DEF Allowed
<1>3. CASE ~Polling
  <2>1. /\ checkpoint' = Reach(Received) /\ Received \in done /\ Received \in DOMAIN log
        /\ watcher'.pc = IF Postgres /\ EndsTransaction(Received) THEN "commit" ELSE "stream"
        /\ watcher'.pos = IF Postgres THEN Reach(Received) ELSE watcher.pos
    BY <1>1, <1>3, AppliedMoves DEF SourceInv, Typed
  <2>2. Allowed(Reach(Received))
    <3>1. CASE Postgres
      <4>1. Reach(Received) \in Nat
        BY <1>1, <2>1 DEF SourceInv, Typed
      <4> QED BY <2>1, <3>1, <4>1 DEF Allowed
    <3>2. CASE ~Postgres
      <4>1. log[Received].at <= lsn
        BY <2>1, OrderRead
      <4> QED BY <3>2, <4>1 DEF Allowed, Reach
    <3> QED BY <3>1, <3>2
  <2>3. ASSUME Postgres, EndsTransaction(Received), NEW n \in DOMAIN log, n > Received
        PROVE  log[Received].commit < log[n].commit
    <3>1. n \in Received + 1 .. Len(log) /\ Received < n
      BY <2>1, <2>3 DEF SourceInv, Typed
    <3>2. log[n].commit # log[Received].commit
      BY <2>3, <3>1 DEF EndsTransaction
    <3> QED BY <2>1, <2>3, <3>1, <3>2, OrderRead
  <2>4. Allowed(slot') /\ Allowed(watcher'.start) /\ Allowed(watcher'.pos)
    BY <1>1, <2>1, <2>2 DEF Allowed
  <2> QED BY <1>1, <2>1, <2>2, <2>3, <2>4, PlacesKeep DEF Received
<1> QED BY <1>2, <1>3

\* Polling's mark is one in the log, and a Run that ends holds none.
LEMMA EndPlaces ==
    ASSUME SourceInv, PlaceInv, SaveMark \/ Stops
    PROVE  PlaceInv'
<1>1. /\ SourceInv' /\ Kinds /\ UNCHANGED <<lsn, log, slot, done>> /\ watcher'.pc = "off"
      /\ checkpoint' \in {checkpoint, watcher.mark}
      /\ watcher'.start \in {0, watcher.start} /\ watcher'.pos \in {0, watcher.pos}
  BY MarkMoves, StopMoves DEF base
<1>2. 0 <= lsn /\ watcher.mark <= lsn
  BY WatcherRead DEF SourceInv
<1> QED BY <1>1, <1>2, PlacesKeep DEF Allowed

\* Between rows: the COMMIT message, a keepalive, the standby status.
LEMMA WaitingPlaces ==
    ASSUME SourceInv, PlaceInv, ReceiveCommit \/ Keepalive \/ Standby
    PROVE  PlaceInv'
<1>1. CASE ReceiveCommit
  <2>1. /\ SourceInv' /\ Kinds /\ Postgres /\ Received \in done /\ watcher'.pc = "stream"
        /\ UNCHANGED <<lsn, log, slot, checkpoint, done>> /\ watcher'.start = watcher.start
        /\ watcher'.pos = log[Received].commit + 1
    BY <1>1, CommitMoves DEF base
  <2>2. watcher'.pos <= log[Received].commit + 1
    <3>1. watcher'.pos \in Nat
      BY <2>1 DEF SourceInv, Typed, Where
    <3> QED BY <2>1, <3>1
  <2>3. Allowed(watcher'.pos)
    BY <2>1, <2>2 DEF Allowed
  <2> QED BY <2>1, <2>3, PlacesKeep DEF Allowed
<1>2. ASSUME Keepalive \/ Standby PROVE PlaceInv'
  <2>1. /\ SourceInv' /\ Kinds /\ UNCHANGED <<lsn, log, checkpoint, done>>
        /\ watcher'.start = watcher.start /\ watcher'.pc = watcher.pc
        /\ watcher'.next = watcher.next /\ slot' \in {slot, watcher.pos}
        /\ watcher'.pos = watcher.pos \/ watcher'.pos <= lsn
    BY <1>2, KeepaliveMoves, StandbyMoves DEF base
  <2>2. Allowed(slot') /\ Allowed(checkpoint') /\ Allowed(watcher'.start) /\ Allowed(watcher'.pos)
    BY <2>1 DEF Allowed
  <2>3. watcher'.pc = "commit" =>
           /\ watcher'.next - 1 \in done
           /\ \A n \in DOMAIN log : n > watcher'.next - 1 =>
                 log[watcher'.next - 1].commit < log[n].commit
    BY <2>1 DEF PlaceInv, At, Received
  <2> QED BY <2>1, <2>2, <2>3, PlacesKeep
<1> QED BY <1>1, <1>2

-----------------------------------------------------------------------------
(* Nothing is lost: the stream *)

\* When the log grows, the newest change of a row is a new one or the same.
LEMMA NewestGrows ==
    ASSUME SourceInv, NEW more \in Seq(Change), log' = log \o more, NEW k, Changes(k)' # {}
    PROVE  /\ Newest(k)' \in DOMAIN log' /\ log'[Newest(k)'].key = k
           /\ \A m \in DOMAIN log' : log'[m].key = k => m <= Newest(k)'
           /\ Newest(k)' \in DOMAIN log =>
                /\ Changes(k) # {} /\ Newest(k) = Newest(k)' /\ Changes(k)' = Changes(k)
<1>1. /\ log' \in Seq(Change) /\ DOMAIN log \subseteq DOMAIN log'
      /\ DOMAIN log = 1..Len(log) /\ Len(log) \in Nat
      /\ \A n \in DOMAIN log : log'[n] = log[n]
      /\ \A n \in DOMAIN log' \ DOMAIN log : n > Len(log)
  BY LogGrows
<1>2. Changes(k)' \in SUBSET 0..Len(log') /\ Len(log') \in Nat
  BY <1>1 DEF Changes
<1>3. \E n \in Changes(k)' : \A m \in Changes(k)' : m <= n
  BY <1>2, LargestNatural
<1>4. Newest(k)' \in Changes(k)' /\ \A m \in Changes(k)' : m <= Newest(k)'
  BY <1>3 DEF Newest
<1>5. /\ Newest(k)' \in DOMAIN log' /\ log'[Newest(k)'].key = k
      /\ \A m \in DOMAIN log' : log'[m].key = k => m <= Newest(k)'
  BY <1>4 DEF Changes
<1>6. ASSUME Newest(k)' \in DOMAIN log
      PROVE  Changes(k) # {} /\ Newest(k) = Newest(k)' /\ Changes(k)' = Changes(k)
  <2>1. \A m \in DOMAIN log' : log'[m].key = k => m \in DOMAIN log
    <3> SUFFICES ASSUME NEW m \in DOMAIN log', log'[m].key = k, m \notin DOMAIN log PROVE FALSE
      OBVIOUS
    <3>1. m <= Newest(k)' /\ m > Len(log) /\ Newest(k)' <= Len(log) /\ m \in Nat
          /\ Newest(k)' \in Nat
      BY <1>1, <1>5, <1>6
    <3> QED BY <1>1, <3>1
  <2>2. Changes(k)' = Changes(k)
    BY <1>1, <2>1 DEF Changes
  <2>3. Newest(k)' = Newest(k)
    BY <2>2 DEF Newest
  <2> QED BY <1>4, <2>2, <2>3
<1> QED BY <1>5, <1>6

\* New changes are ahead of every place, or a row applied had carried it past them.
LEMMA SourceStream ==
    ASSUME SourceInv, SourceInv', PlaceInv, StreamInv, NEW more \in Seq(Change), Grows(more), Ahead(more)
    PROVE  StreamInv'
<1> SUFFICES ASSUME ~Polling PROVE StreamInv'
  BY KindsStay DEF StreamInv, PlaceBehind, AppliedOrAwaited, ToldOrAwaited, Grows
<1>1. /\ Polling' = Polling /\ Postgres' = Postgres /\ MySQL' = MySQL
      /\ ~(MySQL /\ Postgres) /\ (Postgres \/ MySQL)
  BY KindsStay DEF SourceInv, Typed, Setting, Postgres, MySQL, Polling, Grows
<1>2. /\ DOMAIN log \subseteq DOMAIN log' /\ DOMAIN log = 1..Len(log) /\ Len(log) \in Nat
      /\ DOMAIN log' = 1..(Len(log) + Len(more)) /\ Len(more) \in Nat
      /\ \A n \in DOMAIN log : log'[n] = log[n]
      /\ \A n \in DOMAIN log' \ DOMAIN log :
            n > Len(log) /\ n - Len(log) \in DOMAIN more /\ log'[n] = more[n - Len(log)]
  BY LogGrows DEF Grows
<1>3. \A n \in DOMAIN log : \A p : Sends(n, p)' <=> Sends(n, p)
  BY <1>1, <1>2 DEF Sends
<1>4. /\ watcher.start \in Nat /\ watcher.pos \in Nat /\ watcher.next \in 1 .. Len(log) + 1
      /\ slot \in Nat /\ checkpoint \in Nat /\ Place' = Place /\ watcher' = watcher
      /\ slot' = slot /\ checkpoint' = checkpoint /\ began' = began /\ base' = base
      /\ done' = done /\ done \subseteq DOMAIN log
  BY WatcherRead, PlaceStays DEF Grows, base, SourceInv, Typed
<1>5. ASSUME NEW n \in DOMAIN log' \ DOMAIN log, NEW p \in Nat, Reached(p)
      PROVE  Lost(n)' \/ (Sends(n, p)' /\ (Postgres => p < log'[n].commit))
  <2>1. n > Len(log) /\ n - Len(log) \in DOMAIN more /\ log'[n] = more[n - Len(log)]
    BY <1>2
  <2>2. (Postgres => log'[n].commit = lsn + 1) /\ (MySQL => log'[n].at > lsn)
    BY <2>1 DEF Ahead
  <2>3. log'[n].commit \in Nat /\ log'[n].at \in Nat /\ lsn \in Nat
    <3>1. log'[n] \in Change
      BY DEF SourceInv, Typed
    <3> QED BY <3>1 DEF Change, SourceInv, Typed
  <2>4. CASE p <= lsn
    BY <1>1, <2>2, <2>3, <2>4 DEF Sends
  <2>5. CASE ~(p <= lsn)
    <3>1. PICK m \in done : p <= Reach(m) \/ p <= log[m].commit + 1
      BY <1>5, <2>5 DEF Reached
    <3>2. /\ Postgres /\ m \in DOMAIN log /\ m \in done' /\ log'[m] = log[m] /\ m < n
          /\ Reach(m)' = Reach(m)
      <4>1. Postgres
        BY <1>5, <2>5 DEF Reached
      <4>2. m \in DOMAIN log /\ m \in done' /\ log'[m] = log[m]
        BY <1>2, <1>4
      <4>3. m < n
        BY <1>2, <2>1, <4>2
      <4> QED BY <1>1, <4>1, <4>2, <4>3 DEF Reach
    <3>3. Reach(m) \in Nat /\ log[m].commit \in Nat /\ log[m].commit <= lsn
      BY <3>2, LogRead, OrderRead DEF Reach, SourceInv
    <3>4. Reach(m) >= log'[n].commit \/ log[m].commit + 1 = log'[n].commit
      BY <2>2, <2>3, <2>5, <3>1, <3>2, <3>3
    <3>5. Overrun(n)'
      BY <1>1, <3>2, <3>4 DEF Overrun
    <3> QED BY <3>5 DEF Lost
  <2> QED BY <2>4, <2>5
<1>6. \A n \in DOMAIN log : /\ Coming(n)' <=> Coming(n)
                            /\ Awaited(n)' <=> Awaited(n)
                            /\ Sends(n, began)' <=> Sends(n, began)
                            /\ Behind(n)' <=> Behind(n)
  BY <1>1, <1>2, <1>3, <1>4 DEF Coming, Awaited, At, Behind, Sends
<1>7. \A n \in DOMAIN log : Lost(n) => Lost(n)'
  BY <1>2, <1>4, LostStays DEF Grows
<1>8. ASSUME NEW n \in DOMAIN log' \ DOMAIN log
      PROVE  (Lost(n)' \/ Behind(n)') /\ (Lost(n)' \/ Awaited(n)')
  <2>1. n >= watcher.next
    BY <1>2, <1>4
  <2>2. Place \in {checkpoint, slot}
    BY <1>4, OfTwo DEF Place, StartAt
  <2>3. Reached(slot) /\ Reached(checkpoint) /\ Reached(watcher.start) /\ Reached(watcher.pos)
    BY DEF PlaceInv
  <2>4. Place \in Nat /\ Reached(Place)
    BY <1>4, <2>2, <2>3 DEF Reached
  <2>5. Lost(n)' \/ Sends(n, Place)'
    <3>1. PICK p \in Nat : p = Place
      BY <2>4
    <3>2. Reached(p)
      BY <2>4, <3>1 DEF Reached
    <3>3. Lost(n)' \/ Sends(n, p)'
      BY <1>5, <3>2
    <3> QED BY <1>4, <3>1, <3>3 DEF Sends
  <2>6. Lost(n)' \/ (Postgres => watcher.pos < log'[n].commit)
    <3>1. PICK p \in Nat : p = watcher.pos
      BY <1>4
    <3>2. Reached(p)
      BY <2>3, <3>1 DEF Reached
    <3> QED BY <1>5, <3>1, <3>2
  <2>7. Lost(n)' \/ Coming(n)'
    <3>1. PICK p \in Nat : p = watcher.start
      BY <1>4
    <3>2. Reached(p)
      BY <2>3, <3>1 DEF Reached
    <3>3. Lost(n)' \/ Sends(n, p)'
      BY <1>5, <3>2
    <3> QED BY <1>4, <2>1, <3>1, <3>3 DEF Coming, Sends
  <2> QED BY <1>1, <1>4, <2>5, <2>6, <2>7 DEF Awaited, Behind
<1>9. PlaceBehind'
  BY <1>1, <1>4, <1>6, <1>7, <1>8 DEF StreamInv, PlaceBehind, At
<1>10. AppliedOrAwaited'
  BY <1>1, <1>4, <1>6, <1>7, <1>8 DEF StreamInv, AppliedOrAwaited, base
<1>11. ToldOrAwaited'
  <2> SUFFICES ASSUME NEW k \in Keys, Changes(k)' # {}, Sends(Newest(k), began)'
               PROVE  Tells(k)' \/ Lost(Newest(k))' \/ Awaited(Newest(k))'
    BY DEF ToldOrAwaited
  <2>1. PICK n : n = Newest(k)'
    OBVIOUS
  <2>2. n \in DOMAIN log' /\ (n \in DOMAIN log => Changes(k) # {} /\ Newest(k) = n)
    BY <2>1, NewestGrows DEF Grows
  <2>3. CASE n \notin DOMAIN log
    <3>1. Lost(n)' \/ Awaited(n)'
      BY <1>8, <2>2, <2>3
    <3> QED BY <2>1, <3>1 DEF Awaited, Coming, Sends, Lost, Torn, Overrun, Reach
  <2>4. CASE n \in DOMAIN log
    <3>1. Sends(n, began)
      <4>1. Sends(n, began)'
        BY <2>1 DEF Sends
      <4> QED BY <1>6, <2>4, <4>1
    <3>2. Tells(k) \/ Lost(n) \/ Awaited(n)
      BY <2>2, <2>4, <3>1 DEF StreamInv, ToldOrAwaited
    <3>3. Tells(k) => Tells(k)'
      BY <1>2, <1>4, <2>1, <2>2, <2>4 DEF Tells, base
    <3>4. Lost(n) => Lost(Newest(k))'
      <4>1. Lost(n) => Lost(n)'
        BY <1>7, <2>4
      <4> QED BY <2>1, <4>1 DEF Lost, Torn, Overrun, Reach
    <3>5. Awaited(n) => Awaited(Newest(k))'
      <4>1. Awaited(n) => Awaited(n)'
        BY <1>6, <2>4
      <4> QED BY <2>1, <4>1 DEF Awaited, Coming, Sends
    <3> QED BY <3>2, <3>3, <3>4, <3>5
  <2> QED BY <2>3, <2>4
<1> QED BY <1>9, <1>10, <1>11 DEF StreamInv

\* A Run starts at the place, or with no position where the source is.
LEMMA RunStream ==
    ASSUME SourceInv, StreamInv, Run
    PROVE  StreamInv'
<1> SUFFICES ASSUME ~Polling PROVE StreamInv'
  BY RunMoves, KindsStay DEF StreamInv, PlaceBehind, AppliedOrAwaited, ToldOrAwaited
<1>1. /\ Kinds /\ At("off") /\ UNCHANGED <<lsn, log, slot, checkpoint, base>>
      /\ watcher'.pc = "stream" /\ watcher'.start = StartAt(Resume) /\ watcher'.next = 1
      /\ watcher'.pos = Resume /\ began' = IF checkpoint = 0 THEN Resume ELSE began
  BY RunMoves
<1>2. /\ \A n, p : Sends(n, p)' <=> Sends(n, p)
      /\ \A k : Changes(k)' = Changes(k) /\ Newest(k)' = Newest(k)
  BY <1>1, LogStays
<1>3. Place' = Place
  BY <1>1, PlaceStays
<1>4. \A n \in DOMAIN log : Coming(n)' <=> Sends(n, StartAt(Resume))
  <2>1. \A n \in DOMAIN log : n >= 1
    BY DEF SourceInv, Typed
  <2> QED BY <1>1, <1>2, <2>1 DEF Coming, Sends
<1>5. CASE checkpoint = 0
  <2>1. Resume = lsn /\ began' = lsn /\ lsn \in Nat
    BY <1>1, <1>5 DEF Resume, SourceInv, Typed
  <2>2. ASSUME NEW n \in DOMAIN log PROVE ~Sends(n, StartAt(lsn)) /\ ~Sends(n, lsn)
    <3>1. (Postgres => log[n].commit <= lsn) /\ log[n].at <= lsn
          /\ log[n].commit \in Nat /\ log[n].at \in Nat
      BY OrderRead
    <3> QED BY <2>1, <3>1, SentFrom DEF Sends, SourceInv
  <2>3. \A n \in DOMAIN log : ~Coming(n)' /\ ~Sends(n, began)'
    BY <1>2, <1>4, <2>1, <2>2 DEF Sends
  <2>4. \A k : Changes(k) # {} => ~Sends(Newest(k), began)'
    <3> SUFFICES ASSUME NEW k, Changes(k) # {} PROVE ~Sends(Newest(k), began)'
      OBVIOUS
    <3>1. PICK n \in DOMAIN log : n = Newest(k)
      BY NewestIs DEF SourceInv
    <3>2. ~Sends(n, began)'
      BY <2>3
    <3> QED BY <1>2, <3>1, <3>2 DEF Sends
  <2> QED BY <1>1, <1>2, <2>3, <2>4 DEF StreamInv, PlaceBehind, AppliedOrAwaited, ToldOrAwaited
<1>6. CASE checkpoint # 0
  <2>1. Resume = checkpoint /\ began' = began /\ StartAt(Resume) = Place
    BY <1>1, <1>6 DEF Resume, Place
  <2>2. ASSUME NEW n \in DOMAIN log, Coming(n)' PROVE Behind(n)'
    <3>1. Sends(n, Place)
      BY <1>4, <2>1, <2>2
    <3>2. Postgres => checkpoint < log[n].commit
      BY <3>1, SentFrom, LogRead DEF Place, SourceInv, Typed
    <3>3. Sends(n, Place)'
      BY <1>2, <1>3, <3>1 DEF Sends
    <3> QED BY <1>1, <2>1, <3>2, <3>3, KindsStay DEF Behind
  <2>3. PlaceBehind'
    BY <1>1, <2>2 DEF PlaceBehind
  <2>4. \A n \in DOMAIN log : Awaited(n) => Awaited(n)'
    BY <1>1, <1>4, <1>6, <2>1 DEF Awaited, At
  <2>5. \A k \in Keys : Changes(k) # {} /\ (Tells(k) \/ Awaited(Newest(k))) =>
                Tells(k)' \/ Lost(Newest(k))' \/ Awaited(Newest(k))'
    <3> SUFFICES ASSUME NEW k \in Keys, Changes(k) # {}
                 PROVE  /\ Tells(k) => Tells(k)'
                        /\ Awaited(Newest(k)) => Awaited(Newest(k))'
      OBVIOUS
    <3>1. PICK n \in DOMAIN log : n = Newest(k)
      BY NewestIs DEF SourceInv
    <3>2. Awaited(n) => Awaited(n)'
      BY <2>4
    <3>3. Awaited(Newest(k))' <=> Awaited(n)'
      BY <1>2, <3>1 DEF Awaited, Coming, Sends
    <3>4. Tells(k) => Tells(k)'
      BY <1>1, <1>2 DEF Tells, base
    <3> QED BY <3>1, <3>2, <3>3, <3>4
  <2> QED BY <1>1, <2>1, <2>3, <2>4, <2>5, StreamKeeps DEF base
<1> QED BY <1>5, <1>6

\* A step that leaves the knowledge base alone.
LEMMA BaseStays ==
    ASSUME SourceInv, Kinds, UNCHANGED <<log, base>>,
           \A n \in DOMAIN log : Awaited(n) => Lost(n) \/ Awaited(n)'
    PROVE  /\ \A n \in DOMAIN log : Awaited(n) => n \in done' \/ Lost(n)' \/ Awaited(n)'
           /\ \A k \in Keys : Changes(k) # {} /\ (Tells(k) \/ Awaited(Newest(k))) =>
                Tells(k)' \/ Lost(Newest(k))' \/ Awaited(Newest(k))'
           /\ done \subseteq done'
<1>1. \A k : Newest(k)' = Newest(k)
  BY LogStays
<1>2. \A n \in DOMAIN log : Lost(n) => Lost(n)'
  BY LostStays DEF base
<1>3. ASSUME NEW k \in Keys, Changes(k) # {}
      PROVE  /\ Tells(k) => Tells(k)'
             /\ Awaited(Newest(k)) => Lost(Newest(k))' \/ Awaited(Newest(k))'
  <2>1. PICK n \in DOMAIN log : n = Newest(k)
    BY <1>3, NewestIs DEF SourceInv
  <2>2. Awaited(n) => Lost(n)' \/ Awaited(n)'
    BY <1>2
  <2>3. Awaited(Newest(k))' <=> Awaited(n)'
    BY <1>1, <2>1 DEF Awaited, Coming, Sends
  <2>4. Lost(Newest(k))' <=> Lost(n)'
    BY <1>1, <2>1 DEF Lost, Torn, Overrun, Reach
  <2>5. Tells(k) => Tells(k)'
    BY <1>1 DEF Tells, base
  <2> QED BY <2>1, <2>2, <2>3, <2>4, <2>5
<1> QED BY <1>2, <1>3 DEF base

\* The change received is still ahead.
LEMMA ReceiveStream ==
    ASSUME SourceInv, StreamInv, Receive
    PROVE  StreamInv'
<1>1. /\ SourceInv' /\ Kinds /\ At("stream") /\ ~Polling
      /\ UNCHANGED <<lsn, log, slot, checkpoint, base, began>>
      /\ watcher'.pc = "chunk" /\ watcher'.start = watcher.start /\ watcher'.pos = watcher.pos
      /\ watcher'.next - 1 \in ToCome /\ \A m \in ToCome : watcher'.next - 1 <= m
  BY ReceiveMoves
<1>2. \A n, p : Sends(n, p)' <=> Sends(n, p)
  BY <1>1, LogStays
<1>3. Place' = Place
  BY <1>1, PlaceStays
<1>4. /\ ToCome \in SUBSET Nat /\ watcher.next \in Nat /\ watcher'.next \in Nat
      /\ \A n \in DOMAIN log : n \in Nat
      /\ \A n \in ToCome : n \in DOMAIN log /\ n >= watcher.next /\ Sends(n, watcher.start)
  <2>1. watcher.next \in Nat /\ \A n \in DOMAIN log : n \in Nat
    BY WatcherRead DEF SourceInv
  <2>2. watcher'.next \in Nat
    <3>1. watcher' \in Where'
      BY <1>1 DEF SourceInv, Typed
    <3> QED BY <1>1, <3>1, WatcherRead DEF Where, SourceInv
  <2> QED BY <2>1, <2>2 DEF ToCome
<1>5. \A n \in DOMAIN log : Coming(n)' <=> Coming(n)
  <2> SUFFICES ASSUME NEW n \in DOMAIN log PROVE Coming(n)' <=> Coming(n)
    OBVIOUS
  <2>1. Coming(n) <=> n \in ToCome
    BY <1>1 DEF Coming, ToCome, At
  <2>2. Coming(n)' <=> Sends(n, watcher.start) /\ n >= watcher'.next - 1
    <3>1. Coming(n)' <=> /\ Sends(n, watcher.start)
                         /\ n >= watcher'.next \/ n = watcher'.next - 1
      BY <1>1, <1>2 DEF Coming, Sends
    <3> QED BY <1>4, <3>1
  <2>3. n >= watcher'.next - 1 => n >= watcher.next
    BY <1>1, <1>4
  <2> QED BY <1>1, <1>4, <2>1, <2>2, <2>3 DEF ToCome
<1>6. \A n \in DOMAIN log : Awaited(n) => Awaited(n)'
  BY <1>1, <1>5 DEF Awaited, At
<1>7. PlaceBehind'
  <2>1. \A n \in DOMAIN log : Lost(n) => Lost(n)'
    BY <1>1, LostStays DEF base
  <2>2. \A n \in DOMAIN log : Behind(n)' <=> Behind(n)
    BY <1>1, BehindStays
  <2>3. \A n \in DOMAIN log : Coming(n) => Behind(n) \/ Lost(n)
    BY <1>1 DEF StreamInv, PlaceBehind, At
  <2> QED BY <1>1, <1>5, <2>1, <2>2, <2>3 DEF PlaceBehind
<1> QED BY <1>1, <1>6, <1>7, BaseStays, StreamKeeps

\* The event at hand, in a stream.
LEMMA HandInStream ==
    ASSUME SourceInv, Working, ~Polling
    PROVE  LET h == watcher.next - 1 IN
           /\ h \in DOMAIN log /\ Head(watcher.todo) = h /\ Event = log[h]
           /\ Sends(h, watcher.start)
           /\ watcher.next \in Nat /\ \A n \in DOMAIN log : n \in Nat
           /\ Changes(Event.key) # {} /\ h <= Newest(Event.key)
           /\ Sends(Newest(Event.key), watcher.start)
<1> DEFINE h == watcher.next - 1
           n == Newest(Event.key)
<1>1. watcher.todo = <<h>> /\ Sends(h, watcher.start)
  BY DEF SourceInv, Steps
<1>2. Head(watcher.todo) = h /\ h \in DOMAIN log
  BY <1>1, AtHand
<1>3. Event = log[h]
  BY <1>2 DEF Event
<1>4. watcher.next \in Nat /\ watcher.start \in Nat /\ \A m \in DOMAIN log : m \in Nat
  BY WatcherRead DEF SourceInv
<1>5. Changes(Event.key) # {}
  BY <1>2, <1>3 DEF Changes
<1>6. n \in DOMAIN log /\ h <= n
  BY <1>2, <1>3, <1>5, NewestIs DEF SourceInv
<1> HIDE DEF h, n
<1>7. Sends(n, watcher.start)
  <2>1. CASE n = h
    BY <1>1, <2>1
  <2>2. CASE h < n
    BY <1>1, <1>2, <1>4, <1>6, <2>2, LaterSent
  <2> QED BY <1>2, <1>4, <1>6, <2>1, <2>2
<1> QED BY <1>1, <1>2, <1>3, <1>4, <1>5, <1>6, <1>7 DEF h, n

\* With a chunk of an older event, the newest is still ahead.
LEMMA ChunkStream ==
    ASSUME SourceInv, StreamInv, ApplyChunk
    PROVE  StreamInv'
<1> SUFFICES ASSUME ~Polling PROVE StreamInv'
  BY ChunkMoves, KindsStay DEF StreamInv, PlaceBehind, AppliedOrAwaited, ToldOrAwaited
<1>1. /\ Kinds /\ At("chunk") /\ Working
      /\ UNCHANGED <<lsn, log, slot, checkpoint, facts, done, began>>
      /\ chunks' = [chunks EXCEPT ![Event.key] = Event.val]
      /\ watcher'.pc = "facts" /\ watcher'.start = watcher.start /\ watcher'.next = watcher.next
      /\ watcher'.pos = watcher.pos
  BY ChunkMoves
<1>2. /\ \A n, p : Sends(n, p)' <=> Sends(n, p)
      /\ \A k : Changes(k)' = Changes(k) /\ Newest(k)' = Newest(k)
  BY <1>1, LogStays
<1>4. \A n \in DOMAIN log : Coming(n)' <=> Coming(n)
  BY <1>1, <1>2 DEF Coming, Sends, At
<1>5. \A n \in DOMAIN log : Awaited(n)' <=> Awaited(n)
  BY <1>1, <1>4 DEF Awaited, At
<1>6. \A n \in DOMAIN log : Lost(n) => Lost(n)'
  BY <1>1, LostStays
<1>7. PlaceBehind'
  <2>1. \A n \in DOMAIN log : Behind(n)' <=> Behind(n)
    BY <1>1, BehindStays
  <2>2. \A n \in DOMAIN log : Coming(n) => Behind(n) \/ Lost(n)
    BY <1>1 DEF StreamInv, PlaceBehind, At
  <2> QED BY <1>1, <1>4, <1>6, <2>1, <2>2 DEF PlaceBehind
<1>8. ASSUME NEW k \in Keys, Changes(k) # {}, Tells(k) \/ Awaited(Newest(k))
      PROVE  Tells(k)' \/ Lost(Newest(k))' \/ Awaited(Newest(k))'
  <2>1. PICK n \in DOMAIN log : n = Newest(k)
    BY <1>8, NewestIs DEF SourceInv
  <2>2. Awaited(Newest(k))' <=> Awaited(n)
    BY <1>2, <1>5, <2>1 DEF Awaited, Coming, Sends
  <2>3. CASE k = Event.key
    <3>1. Coming(n)
      <4>1. /\ Sends(n, watcher.start) /\ watcher.next - 1 <= n
            /\ watcher.next \in Nat /\ n \in Nat
        BY <1>1, <2>1, <2>3, HandInStream
      <4>2. n >= watcher.next \/ n = watcher.next - 1
        BY <4>1
      <4> QED BY <1>1, <4>1, <4>2 DEF Coming, At
    <3>2. Awaited(n)
      BY <1>1, <3>1 DEF Awaited, At
    <3> QED BY <2>2, <3>2
  <2>4. CASE k # Event.key
    <3>1. chunks'[k] = chunks[k]
      BY <1>1, <2>4 DEF SourceInv, Typed, Known
    <3>2. Tells(k) => Tells(k)'
      BY <1>1, <1>2, <3>1 DEF Tells
    <3> QED BY <1>8, <2>1, <2>2, <3>2
  <2> QED BY <2>3, <2>4
<1> QED BY <1>1, <1>5, <1>7, <1>8, StreamKeeps

\* The event is applied; what is ahead no longer needs it.
LEMMA FactsStream ==
    ASSUME SourceInv, StreamInv, ApplyFacts
    PROVE  StreamInv'
<1> SUFFICES ASSUME ~Polling PROVE StreamInv'
  BY FactsMoves, KindsStay DEF StreamInv, PlaceBehind, AppliedOrAwaited, ToldOrAwaited
<1> DEFINE h == watcher.next - 1
<1>1. /\ Kinds /\ At("facts") /\ Working /\ chunks[Event.key] = Event.val
      /\ UNCHANGED <<lsn, log, slot, checkpoint, chunks, began>>
      /\ facts' = [facts EXCEPT ![Event.key] = IF Event.val = None THEN {}
                                               ELSE @ \cup {Event.val}]
      /\ done' = done \cup {h}
      /\ watcher'.pc = "save" /\ watcher'.start = watcher.start /\ watcher'.next = watcher.next
      /\ watcher'.pos = watcher.pos
  BY FactsMoves, HandInStream
<1>2. /\ \A n, p : Sends(n, p)' <=> Sends(n, p)
      /\ \A k : Changes(k)' = Changes(k) /\ Newest(k)' = Newest(k)
  BY <1>1, LogStays
<1>3. Place' = Place
  BY <1>1, PlaceStays
<1>4. h \in DOMAIN log /\ Event = log[h] /\ h \in Nat /\ h \in done'
      /\ watcher.next \in Nat /\ \A n \in DOMAIN log : n \in Nat
  BY <1>1, HandInStream
<1>5. \A n \in DOMAIN log : Coming(n)' <=> Coming(n) /\ n # h
  BY <1>1, <1>2, <1>4 DEF Coming, Sends, At
<1>6. \A n \in DOMAIN log : Awaited(n)' <=> Awaited(n) /\ n # h
  BY <1>1, <1>5 DEF Awaited, At
<1>7. \A n \in DOMAIN log : Lost(n) => Lost(n)'
  BY <1>1, LostStays
<1>8. PlaceBehind'
  <2>1. \A n \in DOMAIN log : Behind(n)' <=> Behind(n)
    BY <1>1, BehindStays
  <2>2. \A n \in DOMAIN log : Coming(n) => Behind(n) \/ Lost(n)
    BY <1>1 DEF StreamInv, PlaceBehind, At
  <2> QED BY <1>1, <1>5, <1>7, <2>1, <2>2 DEF PlaceBehind
<1>9. ASSUME NEW k \in Keys, Changes(k) # {}, Tells(k) \/ Awaited(Newest(k))
      PROVE  Tells(k)' \/ Lost(Newest(k))' \/ Awaited(Newest(k))'
  <2>1. PICK n \in DOMAIN log : n = Newest(k) /\ log[n].key = k
    BY <1>9, NewestIs DEF SourceInv
  <2>2. Awaited(Newest(k))' <=> Awaited(n) /\ n # h
    <3>1. Awaited(Newest(k))' <=> Awaited(n)'
      BY <1>2, <2>1 DEF Awaited, Coming, Sends
    <3> QED BY <1>6, <3>1
  <2>3. CASE k = Event.key /\ n = h
    <3>1. facts'[k] = IF Event.val = None THEN {} ELSE facts[k] \cup {Event.val}
      BY <1>1, <2>3 DEF SourceInv, Typed, Known
    <3>2. /\ log'[Newest(k)'] = Event /\ chunks'[k] = Event.val
      BY <1>1, <1>2, <1>4, <2>1, <2>3
    <3>3. Tells(k)'
      BY <3>1, <3>2 DEF Tells
    <3> QED BY <3>3
  <2>4. CASE k = Event.key /\ n # h
    <3>1. Sends(n, watcher.start) /\ h <= n
      BY <1>1, <2>1, <2>4, HandInStream
    <3>2. n >= watcher.next
      BY <1>4, <2>4, <3>1
    <3>3. Awaited(n)
      BY <1>1, <3>1, <3>2 DEF Awaited, Coming, At
    <3> QED BY <2>2, <2>4, <3>3
  <2>5. CASE k # Event.key
    <3>1. n # h
      BY <1>4, <2>1, <2>5
    <3>2. facts'[k] = facts[k]
      BY <1>1, <2>5 DEF SourceInv, Typed, Known
    <3>3. Tells(k) => Tells(k)'
      BY <1>1, <1>2, <3>2 DEF Tells
    <3> QED BY <1>9, <2>1, <2>2, <3>1, <3>3
  <2> QED BY <2>3, <2>4, <2>5
<1>10. \A n \in DOMAIN log : Awaited(n) => n \in done' \/ Lost(n)' \/ Awaited(n)'
  BY <1>4, <1>6
<1> QED BY <1>1, <1>8, <1>9, <1>10, StreamKeeps

\* The position saved is before what is ahead, or the row carried it past that.
LEMMA AppliedStream ==
    ASSUME SourceInv, StreamInv, Applied
    PROVE  StreamInv'
<1> SUFFICES ASSUME ~Polling PROVE StreamInv'
  BY AppliedMoves, KindsStay DEF StreamInv, PlaceBehind, AppliedOrAwaited, ToldOrAwaited
<1> DEFINE h == watcher.next - 1
<1>1. /\ Kinds /\ At("save") /\ Working /\ h \in done /\ Head(watcher.todo) = h
      /\ UNCHANGED <<lsn, log, slot, base, began>> /\ checkpoint' = Reach(h)
      /\ watcher'.pc \in {"stream", "commit"} /\ (Postgres => watcher'.pos = Reach(h))
      /\ watcher'.start = watcher.start /\ watcher'.next = watcher.next
  BY AppliedMoves DEF Received
<1>2. \A n, p : Sends(n, p)' <=> Sends(n, p)
  BY <1>1, LogStays
<1>3. /\ h \in DOMAIN log /\ h \in Nat /\ watcher.next \in Nat
      /\ \A n \in DOMAIN log : n \in Nat
  BY <1>1, HandInStream
<1>4. \A n \in DOMAIN log : Coming(n)' <=> Coming(n)
  BY <1>1, <1>2 DEF Coming, Sends, At
<1>5. \A n \in DOMAIN log : Awaited(n) => Awaited(n)'
  BY <1>1, <1>4 DEF Awaited, At
<1>6. PlaceBehind'
  <2> SUFFICES ASSUME NEW n \in DOMAIN log, Coming(n) PROVE Behind(n)' \/ Lost(n)'
    BY <1>1, <1>4 DEF PlaceBehind
  <2>1. h < n
    BY <1>1, <1>3 DEF Coming, At
  <2>2. /\ Postgres' = Postgres /\ MySQL' = MySQL /\ ~(MySQL /\ Postgres) /\ (Postgres \/ MySQL)
    BY <1>1, KindsStay DEF SourceInv, Typed, Setting, Postgres, MySQL, Polling
  <2>3. /\ log[h].at \in Nat /\ log[n].at \in Nat /\ log[n].commit \in Nat /\ Reach(h) \in Nat
        /\ MySQL => log[h].at <= log[n].at /\ Reach(h) = log[h].at
    BY <1>3, <2>1, <2>2, OrderRead, LogRead DEF Reach, SourceInv
  <2>4. Lost(n) => Lost(n)'
    BY <1>1, LostStays DEF base
  <2>5. CASE Postgres /\ ~Lost(n)' /\ Reach(h) < log[n].commit
    <3>1. Sends(n, Place)
      BY <1>1, <2>2, <2>4, <2>5 DEF StreamInv, PlaceBehind, Behind, At
    <3>2. log[n].commit > slot /\ slot \in Nat
      BY <2>5, <3>1, SentFrom DEF SourceInv, Typed, Place
    <3>3. Place' = Max({Reach(h), slot})
      BY <1>1, <2>2, <2>5 DEF Place, StartAt
    <3>4. Max({Reach(h), slot}) \in {Reach(h), slot}
      BY ONLY <2>3, <3>2, OfTwo
    <3>5. log[n].commit > Place'
      BY <2>3, <2>5, <3>2, <3>3, <3>4
    <3> QED BY <1>1, <2>2, <2>5, <3>5 DEF Behind, Sends
  <2>6. CASE Postgres /\ ~(Reach(h) < log[n].commit)
    <3>1. PICK m \in done : m = h
      BY <1>1
    <3>2. Reach(m)' >= log'[n].commit /\ m \in done' /\ m < n
      BY <1>1, <2>1, <2>2, <2>3, <2>6, <3>1 DEF base, Reach
    <3>3. Overrun(n)'
      BY <2>2, <2>6, <3>2 DEF Overrun
    <3> QED BY <3>3 DEF Lost
  <2>7. CASE MySQL
    <3>1. Place' = log[h].at
      BY <1>1, <2>2, <2>3, <2>7 DEF Place, StartAt
    <3>2. CASE log[h].at < log[n].at
      BY <1>1, <2>2, <2>3, <2>7, <3>1, <3>2 DEF Behind, Sends
    <3>3. CASE log[h].at = log[n].at
      <4>1. done' = done /\ log' = log /\ h # n
        BY <1>1, <1>3, <2>1 DEF base
      <4> QED BY <1>1, <2>2, <2>7, <3>3, <4>1 DEF Lost, Torn
    <3> QED BY <2>3, <2>7, <3>2, <3>3
  <2> QED BY <2>2, <2>5, <2>6, <2>7
<1> QED BY <1>1, <1>5, <1>6, BaseStays, StreamKeeps

\* Between rows the position moves, and the slot to it, not past what is ahead - but
\* for a commit right after the one received.
LEMMA WaitingStream ==
    ASSUME SourceInv, PlaceInv, StreamInv, ReceiveCommit \/ Keepalive \/ Standby
    PROVE  StreamInv'
<1>1. /\ Kinds /\ watcher.pc \in {"stream", "commit"} /\ Postgres /\ ~Polling
      /\ UNCHANGED <<lsn, log, checkpoint, base, began>>
      /\ watcher'.pc \in {"stream", "commit"} /\ watcher'.start = watcher.start
      /\ watcher'.next = watcher.next
  BY CommitMoves, KeepaliveMoves, StandbyMoves, KindsStay DEF At
<1>2. \A n, p : Sends(n, p)' <=> Sends(n, p)
  BY <1>1, LogStays
<1>3. \A n \in DOMAIN log : Coming(n)' <=> Coming(n)
  BY <1>1, <1>2 DEF Coming, Sends
<1>4. \A n \in DOMAIN log : Awaited(n) => Awaited(n)'
  BY <1>1, <1>3 DEF Awaited, At
<1>5. \A n \in DOMAIN log : Lost(n) => Lost(n)'
  BY <1>1, LostStays DEF base
<1>6. PlaceBehind'
  <2> SUFFICES ASSUME NEW n \in DOMAIN log, Coming(n), ~Lost(n)' PROVE Behind(n)'
    BY <1>1, <1>3 DEF PlaceBehind
  <2>1. n >= watcher.next /\ n \in ToCome
    BY <1>1 DEF Coming, ToCome, At
  <2>2. Sends(n, Place) /\ watcher.pos < log[n].commit
    BY <1>1, <1>5 DEF StreamInv, PlaceBehind, Behind, At
  <2>3. /\ log[n].commit \in Nat /\ checkpoint \in Nat /\ slot \in Nat /\ watcher.pos \in Nat
        /\ log[n].commit > checkpoint /\ log[n].commit > slot
    BY <1>1, <2>2, SentFrom, LogRead, WatcherRead DEF SourceInv, Typed, Place
  <2>4. CASE ReceiveCommit
    <3>1. /\ At("commit") /\ Received \in done /\ slot' = slot
          /\ watcher'.pos = log[Received].commit + 1
      BY <2>4, CommitMoves
    <3>2. Received < n /\ n > Received /\ Received \in DOMAIN log
      BY <2>1, <3>1, WatcherRead DEF Received, SourceInv, Typed
    <3>3. log[Received].commit < log[n].commit /\ log[Received].commit \in Nat
      BY <3>1, <3>2, LogRead DEF PlaceInv, SourceInv
    <3>4. log[Received].commit + 1 # log[n].commit
      <4> SUFFICES ASSUME log[Received].commit + 1 = log[n].commit PROVE FALSE
        OBVIOUS
      <4>1. PICK m \in done : m = Received
        BY <3>1
      <4>2. m < n /\ log'[m].commit + 1 = log'[n].commit /\ m \in done' /\ Postgres'
        BY <1>1, <3>2, <4>1, KindsStay DEF base
      <4>3. Overrun(n)'
        BY <4>2 DEF Overrun
      <4> QED BY <4>3 DEF Lost
    <3>5. watcher'.pos < log'[n].commit
      BY <1>1, <2>3, <3>1, <3>3, <3>4
    <3>6. Place' = Place
      BY <1>1, <3>1, PlaceStays
    <3> QED BY <1>2, <2>2, <3>5, <3>6 DEF Behind, Sends
  <2>5. CASE Keepalive
    <3>1. slot' = slot /\ watcher'.pos < log'[n].commit
      BY <1>1, <2>1, <2>5, KeepaliveMoves
    <3>2. Place' = Place
      BY <1>1, <3>1, PlaceStays
    <3> QED BY <1>2, <2>2, <3>1, <3>2 DEF Behind, Sends
  <2>6. CASE Standby
    <3>1. slot' = watcher.pos /\ watcher' = watcher
      BY <2>6, StandbyMoves
    <3>2. Place' = Max({checkpoint, watcher.pos})
      BY <1>1, <3>1, KindsStay DEF Place, StartAt
    <3>3. Max({checkpoint, watcher.pos}) \in {checkpoint, watcher.pos}
      BY <2>3, OfTwo
    <3>4. log[n].commit > Place'
      BY <2>2, <2>3, <3>2, <3>3
    <3> QED BY <1>1, <2>2, <3>1, <3>4, KindsStay DEF Behind, Sends
  <2> QED BY <2>4, <2>5, <2>6
<1> QED BY <1>1, <1>4, <1>6, BaseStays, StreamKeeps

\* What was ahead of a Run that ends is ahead of the place.
LEMMA StopStream ==
    ASSUME SourceInv, StreamInv, Stops
    PROVE  StreamInv'
<1> SUFFICES ASSUME ~Polling PROVE StreamInv'
  BY StopMoves, KindsStay DEF StreamInv, PlaceBehind, AppliedOrAwaited, ToldOrAwaited
<1>1. /\ Kinds /\ UNCHANGED <<lsn, log, slot, checkpoint, base, began>> /\ watcher'.pc = "off"
  BY StopMoves
<1>2. \A n, p : Sends(n, p)' <=> Sends(n, p)
  BY <1>1, LogStays
<1>3. Place' = Place
  BY <1>1, PlaceStays
<1>4. PlaceBehind'
  BY <1>1 DEF PlaceBehind, At
<1>5. \A n \in DOMAIN log : Awaited(n) => Lost(n) \/ Awaited(n)'
  <2> SUFFICES ASSUME NEW n \in DOMAIN log, Awaited(n), ~Lost(n) PROVE Awaited(n)'
    OBVIOUS
  <2>1. checkpoint = 0 \/ Sends(n, Place)
    BY DEF Awaited, StreamInv, PlaceBehind, Behind
  <2> QED BY <1>1, <1>2, <1>3, <2>1 DEF Awaited, At, Sends
<1> QED BY <1>1, <1>4, <1>5, BaseStays, StreamKeeps

-----------------------------------------------------------------------------
(* Nothing is passed over: polling *)

\* The newest change of a row there is, and what a mark past it means.
LEMMA PassedRead ==
    ASSUME SourceInv, PollInv, Polling, NEW k \in Keys, NEW n, n = Newest(k), Exists(k), InOrder(n)
    PROVE  /\ n \in DOMAIN log /\ log[n].key = k
           /\ log[n].at <= watcher.mark \/ log[n].at <= checkpoint => Told(k)
           /\ \A i \in DOMAIN watcher.todo : log[n].at <= log[watcher.todo[i]].at =>
                 Told(k) \/ \E j \in 1..i : watcher.todo[j] = n
           /\ At("save") /\ Head(watcher.todo) = n => Tells(k)
<1>1. n \in DOMAIN log /\ log[n].key = k
  BY NewestIs DEF Exists, SourceInv
<1> QED BY <1>1 DEF PollInv, Passed, Todo

\* Enough that Passed stays true when the watcher moves.
LEMMA PassedWhen ==
    ASSUME SourceInv, Kinds, log' = log, NEW k \in Keys,
           \A n \in DOMAIN log : n = Newest(k) /\ log[n].key = k /\ Exists(k) /\ InOrder(n) =>
              /\ log[n].at <= watcher'.mark \/ log[n].at <= checkpoint' => Told(k)'
              /\ \A i \in DOMAIN watcher'.todo : log[n].at <= log[watcher'.todo[i]].at =>
                    Told(k)' \/ \E j \in 1..i : watcher'.todo[j] = n
              /\ watcher'.pc = "save" /\ Head(watcher'.todo) = n => Tells(k)'
    PROVE  Passed(k)'
<1>1. Newest(k)' = Newest(k) /\ Exists(k)' = Exists(k) /\ \A n : InOrder(n)' = InOrder(n)
  BY LogStays
<1>2. Exists(k) => Newest(k) \in DOMAIN log /\ log[Newest(k)].key = k
  BY NewestIs DEF Exists, SourceInv
<1> SUFFICES ASSUME Exists(k), InOrder(Newest(k))'
             PROVE  /\ (log[Newest(k)].at <= watcher.mark \/ log[Newest(k)].at <= checkpoint
                          => Told(k))'
                    /\ (\A i \in DOMAIN watcher.todo : log[Newest(k)].at <= Todo(i).at =>
                          Told(k) \/ \E j \in 1..i : watcher.todo[j] = Newest(k))'
                    /\ (At("save") /\ Head(watcher.todo) = Newest(k) => Tells(k))'
  BY <1>1 DEF Passed
<1>3. PICK n \in DOMAIN log : n = Newest(k) /\ log[n].key = k
  BY <1>2
<1>4. InOrder(n)
  BY <1>1, <1>3 DEF InOrder
<1> QED BY <1>1, <1>3, <1>4 DEF Todo, At

\* What Run holds in polling.
LEMMA PageRead ==
    ASSUME SourceInv, PollInv, Polling
    PROVE  /\ watcher.todo \in Seq(DOMAIN log) /\ Len(watcher.todo) \in Nat
           /\ DOMAIN watcher.todo = 1..Len(watcher.todo)
           /\ \A i \in DOMAIN watcher.todo : /\ watcher.todo[i] \in DOMAIN log
                                             /\ watcher.mark <= log[watcher.todo[i]].at
           /\ \A i, j \in DOMAIN watcher.todo : i < j =>
                 /\ log[watcher.todo[i]].at <= log[watcher.todo[j]].at
                 /\ log[watcher.todo[i]].key # log[watcher.todo[j]].key
           /\ ~At("off") => checkpoint <= watcher.mark
           /\ checkpoint \in Nat /\ watcher.mark \in Nat
<1>1. watcher.todo \in Seq(DOMAIN log) /\ watcher.mark \in 0..lsn /\ checkpoint \in Nat
      /\ lsn \in Nat
  BY WatcherRead DEF SourceInv, Typed
<1>2. /\ \A i \in DOMAIN watcher.todo : watcher.mark <= log[watcher.todo[i]].at
      /\ \A i, j \in DOMAIN watcher.todo : i < j =>
            /\ log[watcher.todo[i]].at <= log[watcher.todo[j]].at
            /\ log[watcher.todo[i]].key # log[watcher.todo[j]].key
      /\ ~At("off") => checkpoint <= watcher.mark
  BY DEF PollInv, Page, Todo, Marks
<1> QED BY <1>1, <1>2

\* New changes in order are beyond every mark.
LEMMA SourcePoll ==
    ASSUME SourceInv, SourceInv', PollInv, NEW more \in Seq(Change), Grows(more), Ahead(more)
    PROVE  PollInv'
<1> SUFFICES ASSUME Polling PROVE PollInv'
  BY KindsStay DEF PollInv, Grows
<1>1. /\ DOMAIN log \subseteq DOMAIN log' /\ DOMAIN log = 1..Len(log) /\ Len(log) \in Nat
      /\ DOMAIN log' = 1..(Len(log) + Len(more)) /\ Len(more) \in Nat
      /\ \A n \in DOMAIN log : log'[n] = log[n]
      /\ \A n \in DOMAIN log' \ DOMAIN log :
            n > Len(log) /\ n - Len(log) \in DOMAIN more /\ log'[n] = more[n - Len(log)]
  BY LogGrows DEF Grows
<1>2. watcher' = watcher /\ checkpoint' = checkpoint /\ chunks' = chunks /\ facts' = facts
  BY DEF Grows, base
<1>3. \A i \in DOMAIN watcher.todo : watcher.todo[i] \in DOMAIN log
  BY PageRead
<1>4. Marks'
  BY <1>1, <1>2 DEF PollInv, Marks, At
<1>5. Page'
  BY <1>1, <1>2, <1>3 DEF PollInv, Page, Todo
<1>6. ASSUME NEW k \in Keys PROVE Passed(k)'
  <2>1. PICK n : n = Newest(k)'
    OBVIOUS
  <2> SUFFICES ASSUME Exists(k)', InOrder(n)'
               PROVE  /\ log'[n].at <= watcher.mark \/ log'[n].at <= checkpoint => Told(k)'
                      /\ \A i \in DOMAIN watcher.todo : log'[n].at <= log'[watcher.todo[i]].at =>
                            Told(k)' \/ \E j \in 1..i : watcher.todo[j] = n
                      /\ At("save") /\ Head(watcher.todo) = n => Tells(k)'
    BY <1>2, <2>1 DEF Passed, InOrder, Todo, At
  <2>2. /\ n \in DOMAIN log' /\ log'[n].key = k
        /\ n \in DOMAIN log => Changes(k) # {} /\ Newest(k) = n
    BY <2>1, NewestGrows DEF Exists, Grows
  <2>3. CASE n \in DOMAIN log
    <3>1. Newest(k) = n /\ log'[n] = log[n] /\ Exists(k)
      BY <1>1, <2>1, <2>2, <2>3 DEF Exists
    <3>2. InOrder(n)
      <4>1. \A m \in 1 .. n - 1 : log[m].at < log[n].at
        <5>1. \A m \in 1 .. n - 1 : m \in DOMAIN log
          BY <1>1, <2>3
        <5> QED BY <1>1, <2>3, <5>1 DEF InOrder
      <4>2. \A m \in n + 1 .. Len(log) : log[m].at # log[n].at
        <5>1. \A m \in n + 1 .. Len(log) : m \in DOMAIN log /\ m \in n + 1 .. Len(log')
          <6>1. Len(log') = Len(log) + Len(more)
            BY DEF Grows, SourceInv, Typed
          <6> QED BY <1>1, <2>3, <6>1
        <5> QED BY <1>1, <2>3, <5>1 DEF InOrder
      <4> QED BY <4>1, <4>2 DEF InOrder
    <3>3. Tells(k) => Tells(k)'
      BY <1>2, <2>1, <3>1 DEF Tells
    <3>4. NotTodo(k) => NotTodo(k)'
      BY <1>1, <1>2, <1>3 DEF NotTodo, Todo
    <3>5. \A i \in DOMAIN watcher.todo : log'[watcher.todo[i]] = log[watcher.todo[i]]
      BY <1>1, <1>3
    <3> QED BY <3>1, <3>2, <3>3, <3>4, <3>5, PassedRead DEF Told
  <2>4. CASE n \notin DOMAIN log
    <3>1. n \in Nat /\ n > Len(log) /\ log'[n].at > 0 /\ log'[n].at \in Nat
      <4>1. log'[n] \in Change
        BY <2>2 DEF SourceInv, Typed
      <4>2. log'[n].at > 0
        BY <1>1, <2>2, <2>4 DEF Ahead
      <4> QED BY <1>1, <2>2, <2>4, <4>1, <4>2 DEF Change
    <3>2. \A m \in DOMAIN log : log[m].at < log'[n].at /\ log[m].at \in Nat
      <4>1. \A m \in DOMAIN log : m \in 1 .. n - 1
        BY <1>1, <3>1
      <4> QED BY <1>1, <4>1, LogRead DEF InOrder, SourceInv
    <3>3. watcher.mark < log'[n].at /\ checkpoint < log'[n].at
      BY <3>1, <3>2 DEF PollInv, Marks
    <3>4. \A i \in DOMAIN watcher.todo : log'[watcher.todo[i]].at < log'[n].at
                                         /\ log'[watcher.todo[i]].at \in Nat
      BY <1>1, <1>3, <3>2
    <3>5. At("save") => Head(watcher.todo) \in DOMAIN log
      BY AtHand DEF At, Working
    <3>6. watcher.mark \in Nat /\ checkpoint \in Nat
      BY PageRead
    <3> QED BY <2>4, <3>1, <3>3, <3>4, <3>5, <3>6
  <2> QED BY <2>3, <2>4
<1> QED BY <1>4, <1>5, <1>6 DEF PollInv

\* Run goes on from the mark saved, or the one it has.
LEMMA RunPoll ==
    ASSUME SourceInv, PollInv, Run
    PROVE  PollInv'
<1> SUFFICES ASSUME Polling PROVE PollInv'
  BY RunMoves, KindsStay DEF PollInv
<1>1. /\ Kinds /\ At("off") /\ UNCHANGED <<log, checkpoint, chunks, facts>>
      /\ watcher'.pc = "poll" /\ watcher'.todo = << >> /\ watcher.todo = << >>
      /\ watcher'.mark = IF checkpoint = 0 THEN watcher.mark ELSE checkpoint
  BY RunMoves DEF base
<1>2. watcher.mark \in Nat /\ checkpoint \in Nat
  BY PageRead
<1>3. Marks'
  BY <1>1, <1>2 DEF PollInv, Marks
<1>4. Page'
  BY <1>1 DEF Page
<1>5. ASSUME NEW k \in Keys PROVE Passed(k)'
  <2>1. Told(k) => Told(k)'
    BY <1>1, LogStays DEF Told, Tells, NotTodo
  <2>2. ASSUME NEW n \in DOMAIN log, n = Newest(k), Exists(k), InOrder(n),
               log[n].at <= watcher'.mark \/ log[n].at <= checkpoint'
        PROVE  Told(k)'
    BY <1>1, <2>1, <2>2, PassedRead
  <2> QED BY <1>1, <2>2, PassedWhen
<1> QED BY <1>3, <1>4, <1>5 DEF PollInv

\* The rows of a page that are not past its last one are in it.
LEMMA PollPoll ==
    ASSUME SourceInv, PollInv, Poll
    PROVE  PollInv'
<1> DEFINE page == PageOf(watcher.mark)
           B == Beyond(watcher.mark)
<1>1. /\ Kinds /\ At("poll") /\ Polling /\ UNCHANGED <<log, checkpoint, chunks, facts>>
      /\ watcher'.pc \in {"finish", "chunk"} /\ watcher'.mark = watcher.mark
      /\ watcher'.todo = page /\ watcher.todo = << >>
  BY PollMoves DEF base
<1>2. /\ checkpoint <= watcher.mark /\ watcher.mark \in Nat /\ checkpoint \in Nat
      /\ watcher.mark \in 0..lsn
  BY <1>1, PageRead, WatcherRead DEF At, SourceInv
<1>3. /\ page \in Seq(B)
      /\ \A i, j \in DOMAIN page : i < j => RowBefore(page[i], page[j])
      /\ \A n \in B : \/ \E i \in DOMAIN page : page[i] = n
                      \/ \A i \in DOMAIN page : RowBefore(page[i], n)
  BY <1>2, PageIs
<1>4. /\ B \subseteq DOMAIN log
      /\ \A n \in B : watcher.mark < log[n].at /\ n = Newest(log[n].key)
      /\ \A k \in Keys : Exists(k) /\ watcher.mark < log[Newest(k)].at => Newest(k) \in B
      /\ \A m, n \in B : log[m].key = log[n].key => m = n
      /\ \A n \in B : ~RowBefore(n, n)
      /\ \A m, n \in B : RowBefore(m, n) => log[m].at <= log[n].at
  BY <1>2, BeyondIs, RowsInOrder
<1> HIDE DEF page, B
<1>5. /\ DOMAIN page = 1..Len(page) /\ \A i \in DOMAIN page : page[i] \in B /\ i \in Nat
  BY <1>3
<1>6. \A n \in DOMAIN log : log[n].at \in Nat /\ n \in Nat /\ n \in 1..Len(log)
  BY LogRead DEF SourceInv
<1>7. Marks'
  BY <1>1, <1>2 DEF PollInv, Marks
<1>8. Page'
  <2> SUFFICES ASSUME NEW i \in DOMAIN page, NEW j \in DOMAIN page
               PROVE  /\ watcher.mark <= log[page[i]].at
                      /\ i < j => /\ log[page[i]].at <= log[page[j]].at
                                  /\ log[page[i]].key # log[page[j]].key
    BY <1>1 DEF Page, Todo
  <2>1. page[i] \in B /\ page[j] \in B
    BY <1>5
  <2>2. watcher.mark <= log[page[i]].at
    BY <1>2, <1>4, <1>6, <2>1
  <2>3. i < j => log[page[i]].at <= log[page[j]].at /\ log[page[i]].key # log[page[j]].key
    BY <1>3, <1>4, <2>1
  <2> QED BY <2>2, <2>3
<1>9. ASSUME NEW k \in Keys PROVE Passed(k)'
  <2> SUFFICES ASSUME NEW n \in DOMAIN log, n = Newest(k), log[n].key = k, Exists(k), InOrder(n)
               PROVE  /\ log[n].at <= watcher.mark \/ log[n].at <= checkpoint => Told(k)'
                      /\ \A i \in DOMAIN page : log[n].at <= log[page[i]].at =>
                            Told(k)' \/ \E j \in 1..i : page[j] = n
    BY <1>1, PassedWhen
  <2>1. log[n].at <= watcher.mark \/ log[n].at <= checkpoint => Told(k)'
    <3> SUFFICES ASSUME log[n].at <= watcher.mark \/ log[n].at <= checkpoint PROVE Told(k)'
      OBVIOUS
    <3>1. log[n].at <= watcher.mark
      BY <1>2, <1>6
    <3>2. Tells(k)
      BY <1>1, <3>1, PassedRead DEF Told
    <3>3. Tells(k)'
      BY <1>1, <3>2, LogStays DEF Tells
    <3>4. ASSUME NEW i \in DOMAIN page PROVE log[page[i]].key # k
      <4>1. page[i] \in B
        BY <1>5
      <4>2. log[page[i]].key = k => page[i] = n
        BY <1>4, <4>1
      <4>3. page[i] # n
        BY <1>2, <1>4, <1>6, <3>1, <4>1
      <4> QED BY <4>2, <4>3
    <3>5. NotTodo(k)'
      BY <1>1, <3>4 DEF NotTodo, Todo
    <3> QED BY <3>3, <3>5 DEF Told
  <2>2. ASSUME NEW i \in DOMAIN page, log[n].at <= log[page[i]].at
        PROVE  Told(k)' \/ \E j \in 1..i : page[j] = n
    <3>1. CASE log[n].at <= watcher.mark
      BY <2>1, <3>1
    <3>2. CASE watcher.mark < log[n].at
      <4>1. n \in B
        BY <1>4, <3>2
      <4>2. page[i] \in B /\ page[i] \in DOMAIN log
        BY <1>4, <1>5
      <4>3. ASSUME RowBefore(page[i], n) PROVE FALSE
        <5>1. log[page[i]].at = log[n].at /\ page[i] # n
          BY <1>4, <1>6, <2>2, <4>1, <4>2, <4>3
        <5>2. page[i] \in 1 .. n - 1 \/ page[i] \in n + 1 .. Len(log)
          <6>1. page[i] \in 1..Len(log) /\ n \in 1..Len(log) /\ Len(log) \in Nat
            BY <1>6, <4>2 DEF SourceInv, Typed
          <6> QED BY <5>1, <6>1
        <5> QED BY <1>6, <4>2, <5>1, <5>2 DEF InOrder
      <4>4. PICK j \in DOMAIN page : page[j] = n
        BY <1>3, <2>2, <4>1, <4>3
      <4>5. j <= i
        <5>1. i < j => RowBefore(page[i], n)
          BY <1>3, <4>4
        <5> QED BY <1>5, <4>3, <5>1
      <4>6. j \in 1..i
        BY <1>5, <4>5
      <4> QED BY <4>4, <4>6
    <3> QED BY <1>2, <1>6, <3>1, <3>2
  <2> QED BY <2>1, <2>2
<1> QED BY <1>7, <1>8, <1>9 DEF PollInv

\* A row with an event at hand is not yet past.
LEMMA HandIsTodo ==
    ASSUME SourceInv, Working
    PROVE  /\ Head(watcher.todo) = watcher.todo[1] /\ 1 \in DOMAIN watcher.todo
           /\ Event = log[watcher.todo[1]] /\ Head(watcher.todo) \in DOMAIN log
           /\ ~Told(Event.key)
<1>1. /\ watcher.todo # << >> /\ Head(watcher.todo) = watcher.todo[1]
      /\ Head(watcher.todo) \in DOMAIN log
  BY AtHand
<1>2. 1 \in DOMAIN watcher.todo
  <2>1. watcher.todo \in Seq(DOMAIN log)
    BY WatcherRead DEF SourceInv
  <2> QED BY <1>1, <2>1
<1> QED BY <1>1, <1>2 DEF Event, Told, NotTodo, Todo

\* The chunk is written of a row that is not past.
LEMMA ChunkPoll ==
    ASSUME SourceInv, PollInv, ApplyChunk
    PROVE  PollInv'
<1> SUFFICES ASSUME Polling PROVE PollInv'
  BY ChunkMoves, KindsStay DEF PollInv
<1>1. /\ Kinds /\ At("chunk") /\ Working /\ UNCHANGED <<log, checkpoint, facts>>
      /\ chunks' = [chunks EXCEPT ![Event.key] = Event.val]
      /\ watcher'.pc = "facts" /\ watcher'.mark = watcher.mark /\ watcher'.todo = watcher.todo
  BY ChunkMoves
<1>2. Marks'
  BY <1>1 DEF PollInv, Marks, At
<1>3. Page'
  BY <1>1 DEF PollInv, Page, Todo
<1>4. ASSUME NEW k \in Keys PROVE Passed(k)'
  <2>1. Told(k) => Told(k)'
    <3> SUFFICES ASSUME Told(k) PROVE Told(k)'
      OBVIOUS
    <3>1. k # Event.key
      BY <1>1, HandIsTodo
    <3>2. chunks'[k] = chunks[k]
      BY <1>1, <3>1 DEF SourceInv, Typed, Known
    <3>3. Tells(k)'
      BY <1>1, <3>2, LogStays DEF Told, Tells
    <3> QED BY <1>1, <3>3 DEF Told, NotTodo, Todo
  <2> QED BY <1>1, <2>1, PassedRead, PassedWhen
<1> QED BY <1>2, <1>3, <1>4 DEF PollInv

\* With its triples the row is told of.
LEMMA FactsPoll ==
    ASSUME SourceInv, PollInv, ApplyFacts
    PROVE  PollInv'
<1> SUFFICES ASSUME Polling PROVE PollInv'
  BY FactsMoves, KindsStay DEF PollInv
<1>1. /\ Kinds /\ At("facts") /\ Working /\ chunks[Event.key] = Event.val
      /\ UNCHANGED <<log, checkpoint, chunks>>
      /\ facts' = [facts EXCEPT ![Event.key] = IF Event.val = None THEN {}
                                               ELSE @ \cup {Event.val}]
      /\ watcher'.pc = "save" /\ watcher'.mark = watcher.mark /\ watcher'.todo = watcher.todo
  BY FactsMoves
<1>2. Marks'
  BY <1>1 DEF PollInv, Marks, At
<1>3. Page'
  BY <1>1 DEF PollInv, Page, Todo
<1>4. ASSUME NEW k \in Keys PROVE Passed(k)'
  <2>1. Told(k) => Told(k)'
    <3> SUFFICES ASSUME Told(k) PROVE Told(k)'
      OBVIOUS
    <3>1. k # Event.key
      BY <1>1, HandIsTodo
    <3>2. facts'[k] = facts[k]
      BY <1>1, <3>1 DEF SourceInv, Typed, Known
    <3>3. Tells(k)'
      BY <1>1, <3>2, LogStays DEF Told, Tells
    <3> QED BY <1>1, <3>3 DEF Told, NotTodo, Todo
  <2>2. ASSUME NEW n \in DOMAIN log, n = Newest(k), log[n].key = k, Head(watcher.todo) = n
        PROVE  Tells(k)'
    <3>1. Event = log[n] /\ Event.key = k
      BY <2>2 DEF Event
    <3>2. facts'[k] = IF Event.val = None THEN {} ELSE facts[k] \cup {Event.val}
      BY <1>1, <3>1 DEF SourceInv, Typed, Known
    <3>3. log'[Newest(k)'] = Event /\ chunks'[k] = Event.val
      BY <1>1, <2>2, <3>1, LogStays
    <3> QED BY <3>2, <3>3 DEF Tells
  <2> QED BY <1>1, <2>1, <2>2, PassedRead, PassedWhen
<1> QED BY <1>2, <1>3, <1>4 DEF PollInv

\* The mark passes the rows up to the one told.
LEMMA AppliedPoll ==
    ASSUME SourceInv, PollInv, Applied
    PROVE  PollInv'
<1> SUFFICES ASSUME Polling PROVE PollInv'
  BY AppliedMoves, KindsStay DEF PollInv
<1> DEFINE todo == watcher.todo
           rest == Tail(watcher.todo)
<1>1. /\ Kinds /\ At("save") /\ Working /\ UNCHANGED <<log, checkpoint, chunks, facts>>
      /\ watcher'.mark = Event.at /\ watcher'.pc \in {"finish", "chunk"}
      /\ watcher'.todo = rest
  BY AppliedMoves DEF base
<1>2. /\ Head(todo) = todo[1] /\ 1 \in DOMAIN todo /\ Event = log[todo[1]]
      /\ Head(todo) \in DOMAIN log /\ todo # << >>
  BY <1>1, HandIsTodo, AtHand
<1>3. /\ todo \in Seq(DOMAIN log) /\ Len(todo) \in Nat /\ DOMAIN todo = 1..Len(todo)
      /\ \A i \in DOMAIN todo : todo[i] \in DOMAIN log /\ watcher.mark <= log[todo[i]].at
      /\ \A i, j \in DOMAIN todo : i < j =>
            log[todo[i]].at <= log[todo[j]].at /\ log[todo[i]].key # log[todo[j]].key
      /\ checkpoint <= watcher.mark /\ checkpoint \in Nat /\ watcher.mark \in Nat
  BY <1>1, PageRead DEF At
<1> HIDE DEF todo
<1>4. /\ DOMAIN rest = 1 .. Len(todo) - 1
      /\ \A i \in DOMAIN rest : /\ rest[i] = todo[i + 1] /\ i + 1 \in DOMAIN todo
                               /\ i \in Nat /\ 1 < i + 1
  <2>1. rest = Tail(todo)
    BY DEF todo
  <2>2. Tail(todo) \in Seq(DOMAIN log) /\ Len(Tail(todo)) = Len(todo) - 1
        /\ \A i \in 1 .. Len(todo) - 1 : Tail(todo)[i] = todo[i + 1]
    BY <1>2, <1>3
  <2> HIDE DEF rest
  <2> QED BY <1>3, <2>1, <2>2
<1> HIDE DEF rest
<1>5. \A n \in DOMAIN log : log[n].at \in Nat
  BY LogRead DEF SourceInv
<1>6. Marks'
  <2>1. \E n \in DOMAIN log : Event.at = log[n].at
    BY <1>2
  <2>2. checkpoint <= Event.at
    BY <1>2, <1>3, <1>5
  <2> QED BY <1>1, <2>1, <2>2 DEF PollInv, Marks
<1>7. Page'
  <2> SUFFICES ASSUME NEW i \in DOMAIN rest, NEW j \in DOMAIN rest
               PROVE  /\ Event.at <= log[rest[i]].at
                      /\ i < j => /\ log[rest[i]].at <= log[rest[j]].at
                                  /\ log[rest[i]].key # log[rest[j]].key
    BY <1>1 DEF Page, Todo
  <2>1. /\ rest[i] = todo[i + 1] /\ rest[j] = todo[j + 1] /\ i + 1 \in DOMAIN todo
        /\ j + 1 \in DOMAIN todo /\ 1 < i + 1 /\ (i < j => i + 1 < j + 1)
    BY <1>4
  <2> QED BY <1>2, <1>3, <2>1
<1>8. ASSUME NEW k \in Keys PROVE Passed(k)'
  <2> SUFFICES ASSUME NEW n \in DOMAIN log, n = Newest(k), log[n].key = k, Exists(k), InOrder(n)
               PROVE  /\ log[n].at <= Event.at \/ log[n].at <= checkpoint => Told(k)'
                      /\ \A i \in DOMAIN rest : log[n].at <= log[rest[i]].at =>
                            Told(k)' \/ \E j \in 1..i : rest[j] = n
    BY <1>1, PassedWhen
  <2>1. Tells(k) => Tells(k)'
    BY <1>1, LogStays DEF Tells
  <2>2. Told(k) => Told(k)'
    <3> SUFFICES ASSUME Told(k) PROVE Told(k)'
      OBVIOUS
    <3>1. \A i \in DOMAIN todo : log[todo[i]].key # k
      BY DEF Told, NotTodo, Todo, todo
    <3>2. \A i \in DOMAIN rest : log[rest[i]].key # k
      BY <1>4, <3>1
    <3> QED BY <1>1, <2>1, <3>2 DEF Told, NotTodo, Todo
  <2>3. todo[1] = n => Told(k)'
    <3> SUFFICES ASSUME todo[1] = n PROVE Told(k)'
      OBVIOUS
    <3>1. Tells(k)
      BY <1>1, <1>2, PassedRead DEF todo
    <3>2. \A i \in DOMAIN rest : log[rest[i]].key # k
      BY <1>2, <1>3, <1>4
    <3> QED BY <1>1, <2>1, <3>1, <3>2 DEF Told, NotTodo, Todo
  <2>4. \A i \in DOMAIN todo : log[n].at <= log[todo[i]].at =>
           Told(k) \/ \E j \in 1..i : todo[j] = n
    BY PassedRead DEF todo
  <2>5. log[n].at <= Event.at => Told(k)'
    <3>1. log[n].at <= Event.at => Told(k) \/ todo[1] = n
      BY <1>2, <2>4
    <3> QED BY <2>2, <2>3, <3>1
  <2>6. log[n].at <= checkpoint => Told(k)'
    BY <2>2, PassedRead
  <2>7. ASSUME NEW i \in DOMAIN rest, log[n].at <= log[rest[i]].at
        PROVE  Told(k)' \/ \E j \in 1..i : rest[j] = n
    <3>1. Told(k) \/ \E j \in 1 .. i + 1 : todo[j] = n
      BY <1>4, <2>4, <2>7
    <3>2. ASSUME NEW j \in 1 .. i + 1, todo[j] = n, j # 1 PROVE \E l \in 1..i : rest[l] = n
      <4>1. j - 1 \in 1..i /\ j - 1 \in DOMAIN rest /\ j - 1 + 1 = j
        BY <1>3, <1>4, <3>2
      <4>2. rest[j - 1] = n
        BY <1>4, <3>2, <4>1
      <4> QED BY <4>1, <4>2
    <3> QED BY <2>2, <2>3, <3>1, <3>2
  <2> QED BY <2>5, <2>6, <2>7
<1> QED BY <1>6, <1>7, <1>8 DEF PollInv

\* The mark that is saved has passed only what was told.
LEMMA MarkPoll ==
    ASSUME SourceInv, PollInv, SaveMark
    PROVE  PollInv'
<1>1. /\ Kinds /\ Polling /\ UNCHANGED <<log, chunks, facts>> /\ checkpoint' = watcher.mark
      /\ watcher'.pc = "off" /\ watcher'.mark = watcher.mark
      /\ watcher'.todo = << >> /\ watcher.todo = << >>
  BY MarkMoves DEF base
<1>2. Marks'
  BY <1>1 DEF PollInv, Marks, At
<1>3. Page'
  BY <1>1 DEF Page
<1>4. ASSUME NEW k \in Keys PROVE Passed(k)'
  <2>1. Told(k) => Told(k)'
    BY <1>1, LogStays DEF Told, Tells, NotTodo
  <2> QED BY <1>1, <2>1, PassedRead, PassedWhen
<1> QED BY <1>2, <1>3, <1>4 DEF PollInv

\* The mark that is kept has too.
LEMMA StopPoll ==
    ASSUME SourceInv, PollInv, Stops
    PROVE  PollInv'
<1> SUFFICES ASSUME Polling PROVE PollInv'
  BY StopMoves, KindsStay DEF PollInv
<1>1. /\ Kinds /\ UNCHANGED <<log, checkpoint, chunks, facts>>
      /\ watcher'.pc = "off" /\ watcher'.mark \in {0, watcher.mark} /\ watcher'.todo = << >>
  BY StopMoves DEF base
<1>2. Marks'
  BY <1>1 DEF PollInv, Marks, At
<1>3. Page'
  BY <1>1 DEF Page
<1>4. ASSUME NEW k \in Keys PROVE Passed(k)'
  <2>1. Told(k) => Told(k)'
    BY <1>1, LogStays DEF Told, Tells, NotTodo
  <2>2. \A n \in DOMAIN log : ~(log[n].at <= 0)
    BY OrderRead
  <2> QED BY <1>1, <2>1, <2>2, PassedRead, PassedWhen
<1> QED BY <1>2, <1>3, <1>4 DEF PollInv

-----------------------------------------------------------------------------
(* The theorems *)

\* ConnectorInv holds at the start.
LEMMA InitHolds ==
    ASSUME Init
    PROVE  ConnectorInv
<1>1. /\ setting \in Setting /\ lsn = 0 /\ log = << >> /\ open = [w \in Writers |-> << >>]
      /\ slot = 0 /\ checkpoint = 0 /\ done = {} /\ began = 0
      /\ watcher = [pc |-> "off", start |-> 0, next |-> 1, pos |-> 0, mark |-> 0, todo |-> << >>]
      /\ chunks = [k \in Keys |-> None] /\ facts = [k \in Keys |-> {}]
  BY ConnectorAssumption DEF Init, Setting, Off
<1>2. DOMAIN log = {} /\ Len(log) = 0 /\ watcher.todo = << >> /\ DOMAIN watcher.todo = {}
  BY <1>1
<1>3. Typed
  <2>1. watcher \in Where
    <3>1. << >> \in Seq(DOMAIN log)
      OBVIOUS
    <3> QED BY <1>1, <1>2, <3>1 DEF Where
  <2>2. log \in Seq(Change) /\ open \in [Writers -> Seq(Made)] /\ Known /\ done \subseteq DOMAIN log
    BY <1>1 DEF Known
  <2> QED BY <1>1, <2>1, <2>2 DEF Typed
<1>4. Steps
  BY <1>1 DEF Steps, At, Working
<1>5. OpenOrder /\ LogOrder
  BY <1>1, <1>2 DEF OpenOrder, LogOrder
<1>6. \A k : Changes(k) = {} /\ ~Exists(k)
  BY <1>2 DEF Changes, Exists
<1>7. StreamInv
  BY <1>1, <1>2, <1>6 DEF StreamInv, PlaceBehind, AppliedOrAwaited, ToldOrAwaited
<1>8. PollInv
  BY <1>1, <1>2, <1>6 DEF PollInv, Marks, Page, Passed, At
<1>9. PlaceInv
  BY <1>1 DEF PlaceInv, Reached, At
<1> QED BY <1>3, <1>4, <1>5, <1>7, <1>8, <1>9 DEF ConnectorInv, SourceInv

\* Every step keeps it.
LEMMA StepHolds ==
    ASSUME ConnectorInv, [Next]_vars
    PROVE  ConnectorInv'
<1>1. SourceInv /\ PlaceInv /\ StreamInv /\ PollInv
  BY DEF ConnectorInv
<1>2. ASSUME NEW w \in setting.writers, NEW S \in setting.statements, NEW v \in Values \cup {None},
             Statement(w, S, v)
      PROVE  ConnectorInv'
  <2>1. w \in Writers /\ S \in SUBSET Keys
    BY <1>1 DEF SourceInv, Typed, Setting
  <2>2. SourceInv'
    BY <1>1, <1>2, <2>1, StatementKeeps
  <2>3. /\ << >> \in Seq(Change) /\ log' = log \o << >>
        /\ Ahead(<< >>) /\ Grows(<< >>)
    BY <1>1, <1>2 DEF Statement, Ahead, Grows, Kinds, SourceInv, Typed
  <2>4. lsn <= lsn'
    BY <1>1, <1>2, <2>1, StatementKeeps
  <2> QED BY <1>1, <2>2, <2>3, <2>4, SourcePlaces, SourceStream, SourcePoll DEF ConnectorInv
<1>3. ASSUME NEW w \in setting.writers, Commit(w)
      PROVE  ConnectorInv'
  <2>1. w \in Writers
    BY <1>1 DEF SourceInv, Typed, Setting
  <2>2. PICK more \in Seq(Change) : log' = log \o more /\ Ahead(more)
    BY <1>1, <1>3, <2>1, CommitKeeps DEF Ahead
  <2>3. SourceInv' /\ lsn <= lsn'
    BY <1>1, <1>3, <2>1, CommitKeeps
  <2>4. Grows(more)
    BY <1>3, <2>2 DEF Commit, Grows, Kinds
  <2> QED BY <1>1, <2>2, <2>3, <2>4, SourcePlaces, SourceStream, SourcePoll DEF ConnectorInv
<1>4. CASE Run
  BY <1>1, <1>4, RunMoves, RunPlaces, RunStream, RunPoll DEF ConnectorInv
<1>5. CASE Poll
  <2>1. StreamInv'
    BY <1>1, <1>5, PollMoves, KindsStay DEF StreamInv, PlaceBehind, AppliedOrAwaited, ToldOrAwaited
  <2> QED BY <1>1, <1>5, <2>1, PollMoves, OtherPlaces, PollPoll DEF ConnectorInv
<1>6. CASE Receive
  <2>1. PollInv'
    BY <1>1, <1>6, ReceiveMoves, KindsStay DEF PollInv
  <2> QED BY <1>1, <1>6, <2>1, ReceiveMoves, OtherPlaces, ReceiveStream DEF ConnectorInv
<1>7. CASE ApplyChunk
  BY <1>1, <1>7, ChunkMoves, OtherPlaces, ChunkStream, ChunkPoll DEF ConnectorInv
<1>8. CASE ApplyFacts
  BY <1>1, <1>8, FactsMoves, OtherPlaces, FactsStream, FactsPoll DEF ConnectorInv
<1>9. CASE Applied
  BY <1>1, <1>9, AppliedMoves, AppliedPlaces, AppliedStream, AppliedPoll DEF ConnectorInv
<1>10. CASE SaveMark
  <2>1. StreamInv'
    BY <1>1, <1>10, MarkMoves, KindsStay DEF StreamInv, PlaceBehind, AppliedOrAwaited, ToldOrAwaited
  <2> QED BY <1>1, <1>10, <2>1, MarkMoves, EndPlaces, MarkPoll DEF ConnectorInv
<1>11. CASE ReceiveCommit \/ Keepalive \/ Standby
  <2>1. SourceInv' /\ PollInv'
    BY <1>1, <1>11, CommitMoves, KeepaliveMoves, StandbyMoves, KindsStay DEF PollInv
  <2> QED BY <1>1, <1>11, <2>1, WaitingPlaces, WaitingStream DEF ConnectorInv
<1>12. CASE Stops
  BY <1>1, <1>12, StopMoves, EndPlaces, StopStream, StopPoll DEF ConnectorInv
<1>13. CASE UNCHANGED vars
  <2>1. UNCHANGED <<setting, lsn, log, open, slot, checkpoint, watcher, chunks, facts, done, began>>
    BY <1>13 DEF vars
  <2>2. SourceInv'
    <3>1. Typed'
      BY <1>1, <2>1 DEF SourceInv, Typed, Where, Known, Polling
    <3>2. Steps'
      BY <1>1, <2>1 DEF SourceInv, Steps, Working, At, Event, Sends, Polling, Postgres
    <3>3. OpenOrder' /\ LogOrder'
      BY <1>1, <2>1 DEF SourceInv, OpenOrder, LogOrder, Postgres, MySQL
    <3> QED BY <3>1, <3>2, <3>3 DEF SourceInv
  <2>3. << >> \in Seq(Change) /\ Ahead(<< >>) /\ Grows(<< >>)
    BY <1>1, <2>1 DEF Ahead, Grows, Kinds, base, SourceInv, Typed
  <2>4. lsn <= lsn'
    BY <1>1, <2>1 DEF SourceInv, Typed
  <2> QED BY <1>1, <2>2, <2>3, <2>4, SourcePlaces, SourceStream, SourcePoll DEF ConnectorInv
<1> QED BY <1>2, <1>3, <1>4, <1>5, <1>6, <1>7, <1>8, <1>9, <1>10, <1>11, <1>12, <1>13
        DEF Next, Stops

\* So it always holds.
LEMMA InvariantHolds == Spec => []ConnectorInv
<1>1. Init => ConnectorInv
  BY InitHolds
<1>2. ConnectorInv /\ [Next]_vars => ConnectorInv'
  BY StepHolds
<1> QED BY <1>1, <1>2, PTL DEF Spec

(* A change that was not applied is sent again to whoever resumes at the    *)
(* position saved, however Runs failed or died and the slot was moved - but *)
(* for the rest of a MySQL statement, and for PostgreSQL transactions that  *)
(* commit within the text of an applied row before them or right after its  *)
(* COMMIT; and every state has its type.                                    *)
THEOREM AtLeastOnceHolds == Spec => []AtLeastOnce
<1>1. ConnectorInv => AtLeastOnce
  <2> SUFFICES ASSUME ConnectorInv PROVE AtLeastOnce
    OBVIOUS
  <2>1. SourceInv /\ StreamInv
    BY DEF ConnectorInv
  <2>2. TypeOK
    <3>1. {lsn, slot, checkpoint, began} \subseteq Nat
      BY <2>1 DEF SourceInv, Typed
    <3>2. \A n \in DOMAIN log : log[n].key \in Keys /\ log[n].val \in Values \cup {None}
                                /\ log[n].at <= lsn
      BY <2>1, LogRead DEF SourceInv, LogOrder
    <3>3. /\ watcher.pc \in {"off", "poll", "stream", "chunk", "facts", "save", "commit", "finish"}
          /\ \A i \in DOMAIN watcher.todo : watcher.todo[i] \in DOMAIN log
      <4>1. Typed
        BY <2>1 DEF SourceInv
      <4>2. /\ watcher.pc \in {"off", "poll", "stream", "chunk", "facts", "save", "commit", "finish"}
            /\ watcher.todo \in Seq(DOMAIN log)
        BY <4>1, WatcherRead
      <4> QED BY ONLY <4>2
    <3> QED BY <2>1, <3>1, <3>2, <3>3 DEF TypeOK, SourceInv, Typed, Known
  <2>3. ASSUME ~Polling, checkpoint # 0, NEW n \in DOMAIN log, Sends(n, began)
        PROVE  n \in done \/ Sends(n, StartAt(checkpoint)) \/ Lost(n)
    <3>1. n \in done \/ Lost(n) \/ Awaited(n)
      BY <2>1, <2>3 DEF StreamInv, AppliedOrAwaited
    <3>2. Awaited(n) => Sends(n, Place) \/ Lost(n)
      BY <2>1, <2>3 DEF Awaited, StreamInv, PlaceBehind, Behind
    <3> QED BY <3>1, <3>2 DEF Place
  <2> QED BY <2>2, <2>3 DEF AtLeastOnce
<1> QED BY <1>1, InvariantHolds, PTL

(* When everything has been received, each row's chunk and triples tell of  *)
(* it as it is, whatever was replayed, or are gone with it - unless the     *)
(* row's last change is one of those just excepted.                         *)
THEOREM DrainedMirrorsHolds == Spec => []DrainedMirrors
<1>1. ConnectorInv => DrainedMirrors
  <2> SUFFICES ASSUME ConnectorInv, At("stream"), ToCome = {},
                      NEW k \in Keys, Changes(k) # {}, Sends(Newest(k), began)
               PROVE  Tells(k) \/ Lost(Newest(k))
    BY DEF DrainedMirrors
  <2>1. SourceInv /\ StreamInv /\ ~Polling
    BY DEF ConnectorInv, SourceInv, Steps
  <2>2. Tells(k) \/ Lost(Newest(k)) \/ Awaited(Newest(k))
    BY <2>1 DEF StreamInv, ToldOrAwaited
  <2>3. Newest(k) \in DOMAIN log
    BY <2>1, NewestIs DEF SourceInv
  <2>4. ~Awaited(Newest(k))
    BY <2>3 DEF Awaited, Coming, At, ToCome
  <2> QED BY <2>2, <2>4
<1> QED BY <1>1, InvariantHolds, PTL

(* Where the cursor grows as transactions commit, the saved mark has passed *)
(* no row that is not told.                                                 *)
THEOREM PolledRowsAppliedHolds == Spec => []PolledRowsApplied
<1>1. ConnectorInv => PolledRowsApplied
  BY DEF ConnectorInv, PollInv, Passed, Told, PolledRowsApplied
<1> QED BY <1>1, InvariantHolds, PTL
=============================================================================
