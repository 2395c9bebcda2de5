--------------------------- MODULE LiveStreamProofs ---------------------------
(***************************************************************************)
(* Proofs about LiveStream, for any nodes, pages, history, page sizes and  *)
(* buffer: a page's changes have no gap and no duplicate, and the graph it *)
(* holds is the hub's once its channel is drained.                         *)
(*                                                                         *)
(* The argument: what a page has, and what waits in its channel, is a      *)
(* stretch of the log up to the frontier, the last event the hub has sent. *)
(* A reset in the channel begins a new stretch at the head it names; a     *)
(* handler that is not forwarding yet begins its stretch at the cursor of  *)
(* its subscription, which a replay reaches before the channel is read.    *)
(***************************************************************************)
EXTENDS LiveStream, WellFoundedInduction, SequenceTheorems, TLAPS

Graphs == [Nodes -> Nat]
Deltas == UNION {[S -> Nat] : S \in SUBSET Nodes}
Changes == [is : {"change"}, seq : Nat \ {0}]
Resets == [is : {"reset"}, head : Nat]
GraphDeltas == [is : {"delta"}, version : Nat, set : Deltas]
Messages == Changes \cup Resets \cup GraphDeltas

Handlers ==
    [pc : {"off", "probe", "reset", "open", "replay", "live"},
     ch : Seq(Messages), dropped : BOOLEAN, after : Nat, head : Nat,
     snap : Graphs, version : Nat, replays : BOOLEAN, at : Nat, upto : Nat,
     more : BOOLEAN, pages : Nat, silent : BOOLEAN]
PageStates ==
    [cursor : Nat, lastId : Nat, url : Nat, changes : SUBSET Nat,
     graph : Graphs, version : Nat]
Promises == [seq : Nat, named : BOOLEAN]
PollStates ==
    [pc : {"idle", "head", "feed", "graph", "delta", "publish"}, cursor : Int,
     upto : Int, next : Nat, pages : Nat, seen : Nat, delta : Deltas]
Hubs == [cursor : Nat, snap : Graphs, version : Nat]

TypeInv ==
    /\ log \in Seq(Nodes \cup {"other", "bookkeeping"})
    /\ pruned \in 0..Head0
    /\ hub \in Hubs
    /\ poll \in PollStates
    /\ con \in [Pages -> Handlers]
    /\ page \in [Pages -> PageStates]
    /\ since \in [Pages -> Promises]

(* The last event the hub has sent to whoever listens.                      *)
Frontier == IF poll.pc = "publish" THEN poll.next - 1 ELSE hub.cursor

(* The poller and the hub's cursor go together; a batch begins where the    *)
(* cursor stands and is of events that exist.                               *)
PollInv ==
    /\ poll.cursor >= -1 /\ hub.cursor = Max2(poll.cursor, 0) /\ hub.cursor <= Head0
    /\ poll.pc = "head" => poll.cursor = -1
    /\ poll.pc = "feed" => 0 <= poll.cursor /\ poll.cursor <= poll.seen
    /\ poll.pc \in {"feed", "publish"} => poll.cursor <= poll.upto /\ poll.upto <= Head0
    /\ poll.pc = "publish" =>
          0 <= poll.cursor /\ poll.cursor < poll.next /\ poll.next <= poll.upto + 1
    /\ poll.pc \in {"graph", "delta"} =>
          \/ poll.upto = NoBatch
          \/ /\ 0 <= poll.cursor /\ poll.cursor <= poll.upto /\ poll.upto <= Head0
             /\ poll.next = poll.cursor + 1
    /\ poll.pc = "delta" => \A n \in DOMAIN poll.delta : poll.delta[n] = hub.snap[n]

-----------------------------------------------------------------------------
(* Of a channel ch *)

IsChange(ch, j) == ch[j].is = "change"
IsReset(ch, j) == ch[j].is = "reset"
IsDelta(ch, j) == ch[j].is = "delta"
NoReset(ch, r, j) == \A k \in r + 1 .. j : ~IsReset(ch, k)
OnlyDeltas(ch) == \A j \in 1..Len(ch) : IsDelta(ch, j)

(* Nothing in it is past event f, its changes are past event i, and each    *)
(* past what is before it.                                                  *)
Within(ch, f) ==
    \A j \in 1..Len(ch) :
        /\ IsChange(ch, j) => ch[j].seq <= f
        /\ IsReset(ch, j) => ch[j].head <= f
After(ch, i) == \A j \in 1..Len(ch) : IsChange(ch, j) => i < ch[j].seq
InOrder(ch) ==
    \A j \in 1..Len(ch) : IsChange(ch, j) =>
        \A k \in 1..j - 1 :
            /\ IsChange(ch, k) => ch[k].seq < ch[j].seq
            /\ IsReset(ch, k) => ch[k].head < ch[j].seq

(* What is shown after event a, up to event b, is held already or waits     *)
(* between the messages r and j.                                            *)
Covers(ch, r, j, a, b, held) ==
    \A i \in ShownIn(a, b) :
        i \in held \/ \E k \in r + 1 .. j : IsChange(ch, k) /\ ch[k].seq = i

(* The stretch that begins behind message r, after event a, has no gap: up  *)
(* to each of its changes, and, if nothing was lost and no reset ends it,   *)
(* up to the frontier f.                                                    *)
Stretch(ch, r, a, held, whole, f) ==
    /\ \A j \in r + 1 .. Len(ch) :
         IsChange(ch, j) /\ NoReset(ch, r, j) => Covers(ch, r, j, a, ch[j].seq, held)
    /\ whole /\ NoReset(ch, r, Len(ch)) => Covers(ch, r, Len(ch), a, f, held)
Stretches(ch, whole, f) ==
    \A r \in 1..Len(ch) : IsReset(ch, r) => Stretch(ch, r, ch[r].head, {}, whole, f)

(* Its deltas are of the hub's versions, in order; those newer than version *)
(* v that tell of node n, and what n is when they are applied to a graph.   *)
Versions(ch, v) ==
    \A j \in 1..Len(ch) : IsDelta(ch, j) =>
        /\ ch[j].version <= v
        /\ \A k \in 1..j - 1 : IsDelta(ch, k) => ch[k].version < ch[j].version
News(ch, v, n) ==
    {j \in 1..Len(ch) : IsDelta(ch, j) /\ ch[j].version > v /\ n \in DOMAIN ch[j].set}
Brings(ch, v, graph, snap, n) ==
    \/ \E j \in News(ch, v, n) :
          ch[j].set[n] = snap[n] /\ \A k \in News(ch, v, n) : k <= j
    \/ News(ch, v, n) = {} /\ graph[n] = snap[n]

-----------------------------------------------------------------------------
(* Of one page *)

(* Everything a page and its handler speak of has been committed.           *)
Bounded(p) ==
    /\ con[p].head <= Head0 /\ con[p].upto <= Head0 /\ con[p].at <= Head0
    /\ page[p].cursor <= Head0 /\ page[p].changes \subseteq 1..page[p].cursor
    /\ page[p].lastId <= Head0 /\ page[p].url <= Head0
    /\ Len(con[p].ch) <= Buffer
    /\ con[p].pc = "off" => con[p] = Off

(* What waits lies in order, after everything that was sent before, and     *)
(* nothing is sent before the poller knows the head.                        *)
Ordered(p) ==
    /\ poll.cursor < 0 => OnlyDeltas(con[p].ch)
    /\ poll.cursor >= 0 => page[p].changes \subseteq 1..Frontier
    /\ con[p].pc # "off" => con[p].head <= Frontier
    /\ Within(con[p].ch, Frontier) /\ InOrder(con[p].ch)
    /\ \A i \in page[p].changes : After(con[p].ch, i)
    /\ con[p].pc # "live" => After(con[p].ch, con[p].head)
    /\ con[p].pc = "replay" => con[p].at <= con[p].head

(* Where the stretch begins that a channel opens with, what the page has of *)
(* it already, and whether it is promised to be whole.                      *)
Start(p) == IF con[p].pc = "live" THEN since[p].seq ELSE con[p].head
Held(p) == IF con[p].pc = "live" THEN page[p].changes ELSE {}
Promised(p) == IF con[p].pc = "live" THEN since[p].named ELSE ~con[p].silent

ChannelWhole(p) ==
    /\ con[p].pc # "off" /\ Promised(p) =>
          Stretch(con[p].ch, 0, Start(p), Held(p), ~con[p].dropped, Frontier)
    /\ Stretches(con[p].ch, ~con[p].dropped, Frontier)

(* The page has every change up to its cursor; what opens a stream without  *)
(* a replay leaves nothing out, and a replay has come to where it stands    *)
(* and will come to its end.                                                *)
PageWhole(p) ==
    /\ since[p].named => ShownIn(since[p].seq, page[p].cursor) \subseteq page[p].changes
    /\ con[p].silent => ~since[p].named
    /\ con[p].pc = "probe" => con[p].after > 0 /\ (since[p].named => con[p].after <= page[p].cursor)
    /\ con[p].pc = "reset" => ~con[p].replays
    /\ con[p].pc = "open" /\ ~con[p].replays /\ since[p].named =>
          page[p].cursor = 0 \/ page[p].cursor >= con[p].head
    /\ con[p].pc \in {"open", "replay"} /\ con[p].replays =>
          /\ con[p].more \/ con[p].upto >= con[p].head
          /\ con[p].at > 0
          /\ con[p].pc = "open" => con[p].at <= con[p].head
          /\ con[p].pc = "open" /\ since[p].named => con[p].at <= page[p].cursor
    /\ con[p].pc = "replay" =>
          /\ con[p].replays
          /\ since[p].named => ShownIn(since[p].seq, con[p].at) \subseteq page[p].changes

(* The graph a page starts from, and its version; what waits in the channel *)
(* brings it to the hub's, unless a difference is still to be broadcast or  *)
(* a reset comes, or a message was lost.                                    *)
Base(p) == IF con[p].pc = "live" THEN page[p].graph ELSE con[p].snap
Version(p) == IF con[p].pc = "live" THEN page[p].version ELSE con[p].version
Announced == IF poll.pc = "delta" THEN hub.version - 1 ELSE hub.version

GraphOf(p) ==
    con[p].pc # "off" =>
        /\ Versions(con[p].ch, Announced)
        /\ NoReset(con[p].ch, 0, Len(con[p].ch)) => Version(p) <= hub.version
        /\ NoReset(con[p].ch, 0, Len(con[p].ch)) /\ ~con[p].dropped =>
              \A n \in Nodes :
                 \/ poll.pc = "delta" /\ n \in DOMAIN poll.delta /\ hub.version > Version(p)
                 \/ Brings(con[p].ch, Version(p), Base(p), hub.snap, n)
        /\ con[p].pc = "replay" => page[p].graph = con[p].snap /\ page[p].version = con[p].version

PageInv(p) == Bounded(p) /\ Ordered(p) /\ ChannelWhole(p) /\ PageWhole(p) /\ GraphOf(p)

LiveInv == TypeInv /\ PollInv /\ \A p \in Pages : PageInv(p)

-----------------------------------------------------------------------------
(* The log *)

(* A non-empty set of naturals has a least element. *)
LEMMA LeastNatural ==
    ASSUME NEW T \in SUBSET Nat, T # {}
    PROVE  \E n \in T : \A m \in T : n <= m
<1> DEFINE Less == {p \in Nat \X Nat : p[1] < p[2]}
<1>1. IsWellFoundedOn(Less, Nat)
  BY NatLessThanWellFounded DEF OpToRel
<1>2. PICK n \in T : \A m \in T : <<m, n>> \notin Less
  <2> HIDE DEF Less
  <2> QED BY <1>1, WFMin
<1>3. ASSUME NEW m \in T
      PROVE  n <= m
  <2>1. m \in Nat /\ n \in Nat /\ (m < n => <<m, n>> \in Less)
    OBVIOUS
  <2>2. QED
    BY <1>2, <2>1
<1> QED
  BY <1>3

(* A non-empty set of the first k numbers has a greatest element. *)
LEMMA GreatestOfFirst ==
    ASSUME NEW k \in Nat, NEW T \in SUBSET (1..k), T # {}
    PROVE  \E i \in T : \A j \in T : j <= i
<1> DEFINE Rest == {k - i : i \in T}
<1>1. Rest \in SUBSET Nat /\ Rest # {}
  <2>1. \A i \in T : k - i \in Nat
    OBVIOUS
  <2>2. QED
    BY <2>1
<1>2. PICK r \in Rest : \A m \in Rest : r <= m
  <2> HIDE DEF Rest
  <2> QED BY <1>1, LeastNatural
<1>3. PICK i \in T : r = k - i
  BY <1>2
<1>4. ASSUME NEW j \in T
      PROVE  j <= i
  <2>1. k - j \in Rest
    OBVIOUS
  <2>2. k - i <= k - j
    BY <1>2, <1>3, <2>1
  <2>3. i \in Int /\ j \in Int
    OBVIOUS
  <2>4. QED
    BY <2>2, <2>3
<1>5. QED
  BY <1>4

(* The graph says of every node which event told of it last. *)
LEMMA GraphTyped == \A k \in Nat : GraphAt(k) \in Graphs
<1> SUFFICES ASSUME NEW k \in Nat, NEW n \in Nodes, Touched(n, k) # {}
             PROVE  (CHOOSE i \in Touched(n, k) : \A j \in Touched(n, k) : j <= i) \in Nat
  BY DEF GraphAt, Graphs
<1>1. Touched(n, k) \in SUBSET (1..k)
  BY DEF Touched
<1>2. \E i \in Touched(n, k) : \A j \in Touched(n, k) : j <= i
  <2> HIDE DEF Touched
  <2> QED BY <1>1, GreatestOfFirst
<1>3. (CHOOSE i \in Touched(n, k) : \A j \in Touched(n, k) : j <= i) \in Touched(n, k)
  BY <1>2
<1>4. QED
  BY <1>1, <1>3

(* What is shown of a stretch that exists does not depend on what is        *)
(* committed after it.                                                      *)
LEMMA ShownKept ==
    ASSUME log' = log \/ \E kind : log' = Append(log, kind),
           log \in Seq(Nodes \cup {"other", "bookkeeping"})
    PROVE  \A a, b \in Nat : b <= Len(log) => ShownIn(a, b)' = ShownIn(a, b)
<1> SUFFICES ASSUME NEW a \in Nat, NEW b \in Nat, b <= Len(log)
             PROVE  ShownIn(a, b)' = ShownIn(a, b)
  OBVIOUS
<1>1. \A i \in a + 1 .. b : log'[i] = log[i]
  BY Len(log) \in Nat
<1>2. QED
  BY <1>1 DEF ShownIn, Shown

(* A stretch is the one up to a point and the one after it. *)
LEMMA ShownSplits ==
    ASSUME NEW a \in Nat, NEW b \in Nat, NEW c \in Nat
    PROVE  ShownIn(a, c) \subseteq ShownIn(a, b) \cup ShownIn(b, c)
BY DEF ShownIn

(* A stretch grows by its last event, when that is shown; one that ends     *)
(* before it begins is empty.                                               *)
LEMMA ShownNext ==
    ASSUME NEW a \in Nat, NEW b \in Nat
    PROVE  /\ ShownIn(a, b + 1) \subseteq ShownIn(a, b) \cup {b + 1}
           /\ ~Shown(b + 1) => ShownIn(a, b + 1) \subseteq ShownIn(a, b)
           /\ b <= a => ShownIn(a, b) = {}
           /\ \A c \in Nat : c <= b => ShownIn(a, c) \subseteq ShownIn(a, b)
           /\ ShownIn(a, b) \subseteq a + 1 .. b
BY DEF ShownIn

-----------------------------------------------------------------------------
(* Types *)

(* What the fields of the state's records are. *)
LEMMA HandlerFields ==
    ASSUME NEW c \in Handlers
    PROVE  /\ c.pc \in {"off", "probe", "reset", "open", "replay", "live"}
           /\ c.ch \in Seq(Messages) /\ c.dropped \in BOOLEAN
           /\ c.after \in Nat /\ c.head \in Nat /\ c.snap \in Graphs /\ c.version \in Nat
           /\ c.replays \in BOOLEAN /\ c.at \in Nat /\ c.upto \in Nat /\ c.more \in BOOLEAN
           /\ c.pages \in Nat /\ c.silent \in BOOLEAN
BY DEF Handlers

-----------------------------------------------------------------------------
(* Channels: what a message sent at the end, or read at the front, does *)

(* What the fields of a message are. *)
LEMMA MessageFields ==
    ASSUME NEW m \in Messages
    PROVE  /\ m.is \in {"change", "reset", "delta"}
           /\ m.is = "change" => m.seq \in Nat /\ m.seq > 0
           /\ m.is = "reset" => m.head \in Nat
           /\ m.is = "delta" => m.version \in Nat /\ m.set \in Deltas
BY DEF Messages, Changes, Resets, GraphDeltas

(* A channel is typed message by message. *)
LEMMA ChannelFields ==
    ASSUME NEW ch \in Seq(Messages)
    PROVE  /\ Len(ch) \in Nat
           /\ \A j \in 1..Len(ch) : ch[j] \in Messages
           /\ \A j \in 1..Len(ch) : IsChange(ch, j) => ch[j].seq \in Nat /\ ch[j].seq > 0
           /\ \A j \in 1..Len(ch) : IsReset(ch, j) => ch[j].head \in Nat
           /\ \A j \in 1..Len(ch) : IsDelta(ch, j) => ch[j].version \in Nat /\ ch[j].set \in Deltas
           /\ \A j \in 1..Len(ch) : IsChange(ch, j) => ~IsReset(ch, j) /\ ~IsDelta(ch, j)
           /\ \A j \in 1..Len(ch) : IsReset(ch, j) => ~IsDelta(ch, j)
<1>1. Len(ch) \in Nat /\ \A j \in 1..Len(ch) : ch[j] \in Messages
  OBVIOUS
<1>2. QED
  BY <1>1, MessageFields DEF IsChange, IsReset, IsDelta

(* What is sent comes last. *)
LEMMA Appended ==
    ASSUME NEW ch \in Seq(Messages), NEW m \in Messages
    PROVE  /\ Append(ch, m) \in Seq(Messages)
           /\ Len(Append(ch, m)) = Len(ch) + 1
           /\ Append(ch, m)[Len(ch) + 1] = m
           /\ \A j \in 1..Len(ch) : Append(ch, m)[j] = ch[j]
OBVIOUS

(* What is read was first. *)
LEMMA Taken ==
    ASSUME NEW ch \in Seq(Messages), ch # << >>
    PROVE  /\ Tail(ch) \in Seq(Messages)
           /\ Len(ch) > 0 /\ Len(Tail(ch)) = Len(ch) - 1
           /\ \A j \in 1..Len(Tail(ch)) : Tail(ch)[j] = ch[j + 1]
           /\ Head(ch) = ch[1] /\ ch[1] \in Messages
OBVIOUS

(* A message that was lost does not matter to what came before it. *)
LEMMA StretchLost ==
    ASSUME NEW ch, NEW r, NEW a, NEW held, NEW whole, NEW f, NEW g,
           Stretch(ch, r, a, held, whole, f)
    PROVE  Stretch(ch, r, a, held, FALSE, g)
BY DEF Stretch

(* A stretch stays one when it begins elsewhere, if the page has what is    *)
(* then shown that was not.                                                 *)
LEMMA StretchMoved ==
    ASSUME NEW ch \in Seq(Messages), NEW a \in Nat, NEW c \in Nat, NEW held, NEW more,
           NEW whole \in BOOLEAN, NEW f \in Nat, held \subseteq more,
           \A b \in Nat : ShownIn(c, b) \subseteq ShownIn(a, b) \cup more,
           Stretch(ch, 0, a, held, whole, f)
    PROVE  Stretch(ch, 0, c, more, whole, f)
<1>1. ASSUME NEW j \in Nat, NEW b \in Nat, Covers(ch, 0, j, a, b, held)
      PROVE  Covers(ch, 0, j, c, b, more)
  BY <1>1 DEF Covers
<1>2. \A j \in 0 + 1 .. Len(ch) : IsChange(ch, j) => ch[j].seq \in Nat /\ j \in Nat
  BY ChannelFields
<1>3. Len(ch) \in Nat
  OBVIOUS
<1>4. QED
  BY <1>1, <1>2, <1>3 DEF Stretch

(* An event that is not shown is passed over. *)
LEMMA NothingSent ==
    ASSUME NEW ch, NEW r, NEW a \in Nat, NEW held, NEW whole, NEW f \in Nat,
           ~Shown(f + 1), Stretch(ch, r, a, held, whole, f)
    PROVE  Stretch(ch, r, a, held, whole, f + 1)
<1>1. ShownIn(a, f + 1) \subseteq ShownIn(a, f)
  BY ShownNext
<1>2. QED
  BY <1>1 DEF Stretch, Covers

(* The parts of a channel that precede a message are the same with it.      *)
LEMMA SameBefore ==
    ASSUME NEW ch \in Seq(Messages), NEW m \in Messages, NEW r \in 0..Len(ch),
           NEW j \in 0..Len(ch)
    PROVE  /\ NoReset(Append(ch, m), r, j) <=> NoReset(ch, r, j)
           /\ \A a, b, held :
                Covers(ch, r, j, a, b, held) <=> Covers(Append(ch, m), r, j, a, b, held)
           /\ j > 0 => /\ IsChange(Append(ch, m), j) <=> IsChange(ch, j)
                       /\ IsReset(Append(ch, m), j) <=> IsReset(ch, j)
                       /\ Append(ch, m)[j] = ch[j]
<1> DEFINE d == Append(ch, m)
<1>1. \A k \in 1..Len(ch) : d[k] = ch[k]
  BY Appended
<1>2. \A k \in r + 1 .. j : k \in 1..Len(ch)
  OBVIOUS
<1> HIDE DEF d
<1>3. \A k \in r + 1 .. j : d[k] = ch[k]
  BY <1>1, <1>2
<1>4. NoReset(d, r, j) <=> NoReset(ch, r, j)
  BY <1>3 DEF NoReset, IsReset
<1>5. \A a, b, held : Covers(ch, r, j, a, b, held) <=> Covers(d, r, j, a, b, held)
  BY <1>3 DEF Covers, IsChange
<1>6. j > 0 => d[j] = ch[j]
  BY <1>1
<1>7. QED
  BY <1>4, <1>5, <1>6 DEF IsChange, IsReset, d

(* The next event, sent when it is shown, continues every stretch. *)
LEMMA ChangeSent ==
    ASSUME NEW ch \in Seq(Messages), NEW r \in 0..Len(ch), NEW a \in Nat, NEW held,
           NEW f \in Nat, NEW m \in Messages, m.is = "change", m.seq = f + 1,
           Stretch(ch, r, a, held, TRUE, f)
    PROVE  Stretch(Append(ch, m), r, a, held, TRUE, f + 1)
<1> DEFINE d == Append(ch, m)
<1>1. Len(d) = Len(ch) + 1 /\ d[Len(ch) + 1] = m /\ Len(ch) \in Nat /\ r \in Nat
  BY Appended
<1>2. \A j \in 0..Len(ch) :
        /\ NoReset(d, r, j) <=> NoReset(ch, r, j)
        /\ \A b : Covers(ch, r, j, a, b, held) <=> Covers(d, r, j, a, b, held)
        /\ j > 0 => (IsChange(d, j) <=> IsChange(ch, j)) /\ d[j] = ch[j]
  BY SameBefore
<1> HIDE DEF d
<1>3. NoReset(d, r, Len(d)) => NoReset(d, r, Len(ch))
  BY <1>1 DEF NoReset
<1>4. NoReset(d, r, Len(d)) => Covers(d, r, Len(d), a, f + 1, held)
  <2> SUFFICES ASSUME NoReset(d, r, Len(d)), NEW i \in ShownIn(a, f + 1), i \notin held
               PROVE  \E k \in r + 1 .. Len(d) : IsChange(d, k) /\ d[k].seq = i
    BY DEF Covers
  <2>1. Covers(d, r, Len(ch), a, f, held)
    BY <1>1, <1>2, <1>3 DEF Stretch
  <2>2. i \in ShownIn(a, f) \cup {f + 1}
    BY ShownNext
  <2>3. CASE i \in ShownIn(a, f)
    BY <2>1, <2>3, <1>1 DEF Covers
  <2>4. CASE i = f + 1
    BY <2>4, <1>1 DEF IsChange
  <2>5. QED
    BY <2>2, <2>3, <2>4
<1>5. ASSUME NEW j \in r + 1 .. Len(d), IsChange(d, j), NoReset(d, r, j)
      PROVE  Covers(d, r, j, a, d[j].seq, held)
  <2>1. CASE j = Len(d)
    BY <2>1, <1>5, <1>1, <1>4
  <2>2. CASE j \in r + 1 .. Len(ch)
    <3>1. j \in 0..Len(ch) /\ j > 0
      BY <2>2, <1>1
    <3>2. IsChange(ch, j) /\ NoReset(ch, r, j) /\ d[j] = ch[j]
      BY <3>1, <1>2, <1>5
    <3>3. Covers(ch, r, j, a, ch[j].seq, held)
      BY <3>2, <2>2 DEF Stretch
    <3>4. QED
      BY <3>1, <3>2, <3>3, <1>2
  <2>3. QED
    BY <2>1, <2>2, <1>1
<1>6. QED
  BY <1>4, <1>5 DEF Stretch, d

(* A reset ends every stretch, and begins one of its own; a delta has no    *)
(* part in it.                                                              *)
LEMMA OtherSent ==
    ASSUME NEW ch \in Seq(Messages), NEW r \in 0..Len(ch), NEW a \in Nat, NEW held,
           NEW f \in Nat, NEW g \in Nat, NEW m \in Messages,
           m.is = "reset" \/ (m.is = "delta" /\ g = f),
           Stretch(ch, r, a, held, TRUE, f)
    PROVE  Stretch(Append(ch, m), r, a, held, TRUE, g)
<1> DEFINE d == Append(ch, m)
<1>1. Len(d) = Len(ch) + 1 /\ d[Len(ch) + 1] = m /\ Len(ch) \in Nat /\ r \in Nat
  BY Appended
<1>2. \A j \in 0..Len(ch) :
        /\ NoReset(d, r, j) <=> NoReset(ch, r, j)
        /\ \A b : Covers(ch, r, j, a, b, held) <=> Covers(d, r, j, a, b, held)
        /\ j > 0 => (IsChange(d, j) <=> IsChange(ch, j)) /\ d[j] = ch[j]
  BY SameBefore
<1> HIDE DEF d
<1>3. NoReset(d, r, Len(d)) => NoReset(d, r, Len(ch)) /\ m.is = "delta"
  BY <1>1 DEF NoReset, IsReset
<1>4. NoReset(d, r, Len(d)) => Covers(d, r, Len(d), a, g, held)
  <2> SUFFICES ASSUME NoReset(d, r, Len(d)), NEW i \in ShownIn(a, g), i \notin held
               PROVE  \E k \in r + 1 .. Len(d) : IsChange(d, k) /\ d[k].seq = i
    BY DEF Covers
  <2>1. Covers(d, r, Len(ch), a, f, held) /\ g = f
    BY <1>1, <1>2, <1>3 DEF Stretch
  <2>2. QED
    BY <2>1, <1>1 DEF Covers
<1>5. ASSUME NEW j \in r + 1 .. Len(d), IsChange(d, j), NoReset(d, r, j)
      PROVE  Covers(d, r, j, a, d[j].seq, held)
  <2>1. j # Len(d)
    BY <1>1, <1>5 DEF IsChange
  <2>2. j \in 0..Len(ch) /\ j > 0 /\ j \in r + 1 .. Len(ch)
    BY <2>1, <1>1
  <2>3. IsChange(ch, j) /\ NoReset(ch, r, j) /\ d[j] = ch[j]
    BY <2>2, <1>2, <1>5
  <2>4. Covers(ch, r, j, a, ch[j].seq, held)
    BY <2>3, <2>2 DEF Stretch
  <2>5. QED
    BY <2>2, <2>3, <2>4, <1>2
<1>6. QED
  BY <1>4, <1>5 DEF Stretch, d

(* The stretch a reset begins is empty at first. *)
LEMMA ResetBegins ==
    ASSUME NEW ch \in Seq(Messages), NEW f \in Nat, NEW whole
    PROVE  Stretch(ch, Len(ch), f, {}, whole, f)
<1>1. Len(ch) + 1 .. Len(ch) = {}
  OBVIOUS
<1>2. ShownIn(f, f) = {}
  BY ShownNext
<1>3. QED
  BY <1>1, <1>2 DEF Stretch, Covers

(* Behind a message, a channel is the same once the first has been read,    *)
(* one place further to the front.                                          *)
LEMMA SameBehind ==
    ASSUME NEW ch \in Seq(Messages), ch # << >>, NEW r \in 0..Len(ch) - 1,
           NEW j \in 0..Len(ch) - 1
    PROVE  /\ NoReset(Tail(ch), r, j) <=> NoReset(ch, r + 1, j + 1)
           /\ \A a, b, held :
                Covers(ch, r + 1, j + 1, a, b, held) <=> Covers(Tail(ch), r, j, a, b, held)
           /\ j > 0 => /\ IsChange(Tail(ch), j) <=> IsChange(ch, j + 1)
                       /\ IsReset(Tail(ch), j) <=> IsReset(ch, j + 1)
                       /\ Tail(ch)[j] = ch[j + 1]
<1> DEFINE d == Tail(ch)
<1>1. Len(d) = Len(ch) - 1 /\ Len(ch) \in Nat /\ \A k \in 1..Len(d) : d[k] = ch[k + 1]
  BY Taken
<1> HIDE DEF d
<1>2. \A k \in r + 1 .. j : d[k] = ch[k + 1] /\ k + 1 \in (r + 1) + 1 .. j + 1
  BY <1>1
<1>3. \A k \in (r + 1) + 1 .. j + 1 :
        k - 1 \in r + 1 .. j /\ d[k - 1] = ch[k] /\ (k - 1) + 1 = k
  <2> SUFFICES ASSUME NEW k \in (r + 1) + 1 .. j + 1
               PROVE  k - 1 \in r + 1 .. j /\ d[k - 1] = ch[k] /\ (k - 1) + 1 = k
    OBVIOUS
  <2>1. k - 1 \in r + 1 .. j /\ (k - 1) + 1 = k
    OBVIOUS
  <2>2. QED
    BY <2>1, <1>2
<1>4. NoReset(d, r, j) <=> NoReset(ch, r + 1, j + 1)
  BY <1>2, <1>3, SMTT(30) DEF NoReset, IsReset
<1>5. ASSUME NEW a, NEW b, NEW held, Covers(ch, r + 1, j + 1, a, b, held)
      PROVE  Covers(d, r, j, a, b, held)
  <2> SUFFICES ASSUME NEW i \in ShownIn(a, b), i \notin held
               PROVE  \E k \in r + 1 .. j : IsChange(d, k) /\ d[k].seq = i
    BY DEF Covers
  <2>1. PICK k \in (r + 1) + 1 .. j + 1 : IsChange(ch, k) /\ ch[k].seq = i
    BY <1>5 DEF Covers
  <2>2. QED
    BY <2>1, <1>3 DEF IsChange
<1>6. ASSUME NEW a, NEW b, NEW held, Covers(d, r, j, a, b, held)
      PROVE  Covers(ch, r + 1, j + 1, a, b, held)
  <2> SUFFICES ASSUME NEW i \in ShownIn(a, b), i \notin held
               PROVE  \E k \in (r + 1) + 1 .. j + 1 : IsChange(ch, k) /\ ch[k].seq = i
    BY DEF Covers
  <2>1. PICK k \in r + 1 .. j : IsChange(d, k) /\ d[k].seq = i
    BY <1>6 DEF Covers
  <2>2. QED
    BY <2>1, <1>2 DEF IsChange
<1>7. j > 0 => d[j] = ch[j + 1]
  BY <1>1
<1>8. QED
  BY <1>4, <1>5, <1>6, <1>7 DEF IsChange, IsReset, d

(* A stretch behind the first message is not touched when that is read. *)
LEMMA StretchTaken ==
    ASSUME NEW ch \in Seq(Messages), ch # << >>, NEW r \in 0..Len(ch) - 1, NEW a \in Nat,
           NEW held, NEW whole, NEW f,
           Stretch(ch, r + 1, a, held, whole, f)
    PROVE  Stretch(Tail(ch), r, a, held, whole, f)
<1> DEFINE d == Tail(ch)
<1>1. Len(d) = Len(ch) - 1 /\ Len(ch) \in Nat /\ Len(ch) > 0
  BY Taken
<1>2. \A j \in 0..Len(ch) - 1 :
        /\ NoReset(d, r, j) <=> NoReset(ch, r + 1, j + 1)
        /\ \A b : Covers(ch, r + 1, j + 1, a, b, held) <=> Covers(d, r, j, a, b, held)
        /\ j > 0 => (IsChange(d, j) <=> IsChange(ch, j + 1)) /\ d[j] = ch[j + 1]
  BY SameBehind
<1> HIDE DEF d
<1>3. ASSUME NEW j \in r + 1 .. Len(d), IsChange(d, j), NoReset(d, r, j)
      PROVE  Covers(d, r, j, a, d[j].seq, held)
  <2>1. j \in 0..Len(ch) - 1 /\ j > 0 /\ j + 1 \in (r + 1) + 1 .. Len(ch)
    BY <1>1
  <2>2. IsChange(ch, j + 1) /\ NoReset(ch, r + 1, j + 1) /\ d[j] = ch[j + 1]
    BY <2>1, <1>2, <1>3
  <2>3. Covers(ch, r + 1, j + 1, a, ch[j + 1].seq, held)
    BY <2>1, <2>2 DEF Stretch
  <2>4. QED
    BY <2>1, <2>2, <2>3, <1>2
<1>4. Len(d) \in 0..Len(ch) - 1 /\ Len(d) + 1 = Len(ch)
  BY <1>1
<1>5. whole /\ NoReset(d, r, Len(d)) => Covers(d, r, Len(d), a, f, held)
  BY <1>4, <1>2 DEF Stretch
<1>6. QED
  BY <1>3, <1>5 DEF Stretch, d

(* A page that has read the first message goes on from what it has now. *)
LEMMA StretchRead ==
    ASSUME NEW ch \in Seq(Messages), ch # << >>, NEW a \in Nat,
           NEW held, NEW more, NEW whole, NEW f,
           ~IsReset(ch, 1), held \subseteq more, IsChange(ch, 1) => ch[1].seq \in more,
           Stretch(ch, 0, a, held, whole, f)
    PROVE  Stretch(Tail(ch), 0, a, more, whole, f)
<1>1. Len(ch) \in Nat /\ Len(ch) > 0
  BY Taken
<1>2. \A j \in 1..Len(ch) : NoReset(ch, 0, j) <=> NoReset(ch, 0 + 1, j)
  <2> SUFFICES ASSUME NEW j \in 1..Len(ch)
               PROVE  NoReset(ch, 0, j) <=> NoReset(ch, 1, j)
    OBVIOUS
  <2>1. \A k : k \in 0 + 1 .. j <=> k = 1 \/ k \in 1 + 1 .. j
    BY <1>1
  <2>2. QED
    BY <2>1 DEF NoReset
<1>3. ASSUME NEW j \in 1..Len(ch), NEW b, Covers(ch, 0, j, a, b, held)
      PROVE  Covers(ch, 0 + 1, j, a, b, more)
  <2> SUFFICES ASSUME NEW i \in ShownIn(a, b), i \notin more
               PROVE  \E k \in 1 + 1 .. j : IsChange(ch, k) /\ ch[k].seq = i
    BY DEF Covers
  <2>1. PICK k \in 0 + 1 .. j : IsChange(ch, k) /\ ch[k].seq = i
    BY <1>3 DEF Covers
  <2>2. k # 1
    BY <2>1
  <2>3. QED
    BY <2>1, <2>2, <1>1
<1>4. Stretch(ch, 0 + 1, a, more, whole, f)
  <2>1. ASSUME NEW j \in (0 + 1) + 1 .. Len(ch), IsChange(ch, j), NoReset(ch, 0 + 1, j)
        PROVE  Covers(ch, 0 + 1, j, a, ch[j].seq, more)
    <3>1. j \in 0 + 1 .. Len(ch) /\ j \in 1..Len(ch)
      BY <1>1
    <3>2. Covers(ch, 0, j, a, ch[j].seq, held)
      BY <3>1, <2>1, <1>2 DEF Stretch
    <3>3. QED
      BY <3>1, <3>2, <1>3
  <2>2. ASSUME whole, NoReset(ch, 0 + 1, Len(ch))
        PROVE  Covers(ch, 0 + 1, Len(ch), a, f, more)
    <3>1. Len(ch) \in 1..Len(ch)
      BY <1>1
    <3>2. Covers(ch, 0, Len(ch), a, f, held)
      BY <3>1, <2>2, <1>2 DEF Stretch
    <3>3. QED
      BY <3>1, <3>2, <1>3
  <2>3. QED
    BY <2>1, <2>2 DEF Stretch
<1>5. 0 \in 0..Len(ch) - 1
  BY <1>1
<1>6. QED
  BY <1>4, <1>5, StretchTaken

(* What the hub may send, and how far it then is: the next event, a reset   *)
(* to a head, or a difference of graphs.                                    *)
Follows(m, f, g) ==
    \/ m.is = "change" /\ m.seq = f + 1 /\ g = f + 1
    \/ m.is = "reset" /\ m.head = g /\ f <= g
    \/ m.is = "delta" /\ g = f

(* Whatever is sent continues or ends every stretch. *)
LEMMA StretchSent ==
    ASSUME NEW ch \in Seq(Messages), NEW r \in 0..Len(ch), NEW a \in Nat, NEW held,
           NEW f \in Nat, NEW g \in Nat, NEW m \in Messages, Follows(m, f, g),
           Stretch(ch, r, a, held, TRUE, f)
    PROVE  Stretch(Append(ch, m), r, a, held, TRUE, g)
<1>1. CASE m.is = "change"
  BY <1>1, ChangeSent DEF Follows
<1>2. CASE m.is # "change"
  <2>1. m.is = "reset" \/ (m.is = "delta" /\ g = f)
    BY <1>2 DEF Follows
  <2>2. QED
    BY <2>1, OtherSent
<1>3. QED
  BY <1>1, <1>2

(* Every stretch of the channel grows by what is sent; a reset begins one. *)
LEMMA StretchesSent ==
    ASSUME NEW ch \in Seq(Messages), NEW f \in Nat, NEW g \in Nat, NEW m \in Messages,
           Follows(m, f, g), Stretches(ch, TRUE, f)
    PROVE  Stretches(Append(ch, m), TRUE, g)
<1> DEFINE d == Append(ch, m)
<1>1. Len(d) = Len(ch) + 1 /\ d[Len(ch) + 1] = m /\ Len(ch) \in Nat /\ d \in Seq(Messages)
  BY Appended
<1>2. \A j \in 1..Len(ch) : d[j] = ch[j]
  BY Appended
<1>3. ASSUME NEW r \in 1..Len(ch), IsReset(d, r)
      PROVE  Stretch(d, r, d[r].head, {}, TRUE, g)
  <2>1. IsReset(ch, r) /\ d[r].head = ch[r].head /\ r \in 0..Len(ch)
    BY <1>2, <1>3 DEF IsReset
  <2>2. ch[r].head \in Nat
    BY <2>1, ChannelFields
  <2>3. Stretch(ch, r, ch[r].head, {}, TRUE, f)
    BY <2>1 DEF Stretches
  <2>4. Stretch(d, r, ch[r].head, {}, TRUE, g)
    BY <2>1, <2>2, <2>3, StretchSent
  <2>5. QED
    BY <2>1, <2>4
<1> HIDE DEF d
<1>4. ASSUME NEW r \in {Len(d)}, IsReset(d, r)
      PROVE  Stretch(d, r, d[r].head, {}, TRUE, g)
  <2>1. d[r].head = g
    BY <1>1, <1>4 DEF IsReset, Follows
  <2>2. Stretch(d, Len(d), g, {}, TRUE, g)
    BY <1>1, ResetBegins
  <2>3. QED
    BY <2>1, <2>2
<1>5. \A r \in 1..Len(d) : r \in 1..Len(ch) \/ r \in {Len(d)}
  BY <1>1
<1>6. QED
  BY <1>3, <1>4, <1>5 DEF Stretches, d

(* Of a channel that lost a message no stretch is said to be whole. *)
LEMMA StretchesLost ==
    ASSUME NEW ch, NEW whole, NEW f, NEW g, Stretches(ch, whole, f)
    PROVE  Stretches(ch, FALSE, g)
BY StretchLost DEF Stretches

(* An event that is not shown takes nothing from any stretch. *)
LEMMA StretchesPassed ==
    ASSUME NEW ch \in Seq(Messages), NEW whole, NEW f \in Nat, ~Shown(f + 1),
           Stretches(ch, whole, f)
    PROVE  Stretches(ch, whole, f + 1)
<1> SUFFICES ASSUME NEW r \in 1..Len(ch), IsReset(ch, r)
             PROVE  Stretch(ch, r, ch[r].head, {}, whole, f + 1)
  BY DEF Stretches
<1>1. ch[r].head \in Nat /\ Stretch(ch, r, ch[r].head, {}, whole, f)
  BY ChannelFields DEF Stretches
<1>2. QED
  BY <1>1, NothingSent

(* A message that is read leaves the stretches behind it as they were. *)
LEMMA StretchesTaken ==
    ASSUME NEW ch \in Seq(Messages), ch # << >>, NEW whole, NEW f, Stretches(ch, whole, f)
    PROVE  Stretches(Tail(ch), whole, f)
<1> SUFFICES ASSUME NEW r \in 1..Len(Tail(ch)), IsReset(Tail(ch), r)
             PROVE  Stretch(Tail(ch), r, Tail(ch)[r].head, {}, whole, f)
  BY DEF Stretches
<1>1. /\ Len(ch) \in Nat /\ Len(Tail(ch)) = Len(ch) - 1 /\ Tail(ch)[r] = ch[r + 1]
      /\ r \in 0..Len(ch) - 1 /\ r + 1 \in 1..Len(ch)
  BY Taken
<1>2. IsReset(ch, r + 1)
  BY <1>1 DEF IsReset
<1>3. ch[r + 1].head \in Nat /\ Stretch(ch, r + 1, ch[r + 1].head, {}, whole, f)
  BY <1>1, <1>2, ChannelFields DEF Stretches
<1>4. QED
  BY <1>1, <1>3, StretchTaken

(* What is sent comes after everything that was sent before. *)
LEMMA OrderSent ==
    ASSUME NEW ch \in Seq(Messages), NEW f \in Nat, NEW g \in Nat, NEW m \in Messages,
           Follows(m, f, g), Within(ch, f), InOrder(ch)
    PROVE  /\ Within(Append(ch, m), g) /\ InOrder(Append(ch, m))
           /\ \A i \in 0..f : After(ch, i) => After(Append(ch, m), i)
           /\ OnlyDeltas(ch) /\ m.is = "delta" => OnlyDeltas(Append(ch, m))
<1> DEFINE d == Append(ch, m)
<1>1. Len(d) = Len(ch) + 1 /\ d[Len(ch) + 1] = m /\ Len(ch) \in Nat /\ d \in Seq(Messages)
  BY Appended
<1>2. \A j \in 1..Len(ch) : d[j] = ch[j]
  BY Appended
<1> HIDE DEF d
<1>3. \A j \in 1..Len(d) : j \in 1..Len(ch) \/ (j = Len(d) /\ d[j] = m)
  BY <1>1
<1>4. Within(ch, g)
  BY ChannelFields DEF Within, Follows
<1>5. Within(d, g)
  BY <1>2, <1>3, <1>4 DEF Within, Follows, IsChange, IsReset
<1>6. ASSUME NEW j \in 1..Len(d), IsChange(d, j), NEW k \in 1..j - 1
      PROVE  /\ IsChange(d, k) => d[k].seq < d[j].seq
             /\ IsReset(d, k) => d[k].head < d[j].seq
  <2>1. k \in 1..Len(ch) /\ d[k] = ch[k]
    BY <1>1, <1>2
  <2>2. CASE j \in 1..Len(ch)
    BY <2>1, <2>2, <1>2, <1>6 DEF InOrder, IsChange, IsReset
  <2>3. CASE j = Len(d) /\ d[j] = m
    <3>1. d[j].seq = f + 1
      BY <2>3, <1>6 DEF IsChange, Follows
    <3>2. (IsChange(d, k) => d[k].seq <= f) /\ (IsReset(d, k) => d[k].head <= f)
      BY <2>1 DEF Within, IsChange, IsReset
    <3>3. (IsChange(d, k) => d[k].seq \in Nat) /\ (IsReset(d, k) => d[k].head \in Nat)
      BY <2>1, ChannelFields DEF IsChange, IsReset
    <3>4. QED
      BY <3>1, <3>2, <3>3
  <2>4. QED
    BY <2>2, <2>3, <1>3
<1>7. ASSUME NEW i \in 0..f, After(ch, i)
      PROVE  After(d, i)
  BY <1>2, <1>3, <1>7 DEF After, IsChange, Follows
<1>8. OnlyDeltas(ch) /\ m.is = "delta" => OnlyDeltas(d)
  BY <1>2, <1>3 DEF OnlyDeltas, IsDelta
<1>9. QED
  BY <1>5, <1>6, <1>7, <1>8 DEF InOrder, d

(* What has been passed over comes before all that is still to be sent. *)
LEMMA WithinMore ==
    ASSUME NEW ch \in Seq(Messages), NEW f \in Nat, NEW g \in Nat, f <= g, Within(ch, f)
    PROVE  Within(ch, g)
BY ChannelFields DEF Within

(* What is left when the first message has been read lies in order, and     *)
(* after it.                                                                *)
LEMMA OrderTaken ==
    ASSUME NEW ch \in Seq(Messages), ch # << >>, NEW f, Within(ch, f), InOrder(ch)
    PROVE  /\ Within(Tail(ch), f) /\ InOrder(Tail(ch))
           /\ \A i : After(ch, i) => After(Tail(ch), i)
           /\ OnlyDeltas(ch) => OnlyDeltas(Tail(ch))
           /\ IsChange(ch, 1) => After(Tail(ch), ch[1].seq) /\ ch[1].seq <= f
           /\ IsReset(ch, 1) => After(Tail(ch), ch[1].head) /\ ch[1].head <= f
<1> DEFINE d == Tail(ch)
<1>1. Len(d) = Len(ch) - 1 /\ Len(ch) \in Nat /\ Len(ch) > 0
  BY Taken
<1>2. \A j \in 1..Len(d) : d[j] = ch[j + 1]
  BY Taken
<1> HIDE DEF d
<1>3. \A j \in 1..Len(d) : d[j] = ch[j + 1] /\ j + 1 \in 1..Len(ch) /\ 1 \in 1..(j + 1) - 1
  BY <1>1, <1>2
<1>4. \A j \in 1..Len(d) : \A k \in 1..j - 1 :
        d[k] = ch[k + 1] /\ k + 1 \in 1..(j + 1) - 1
  BY <1>1, <1>2
<1>5. Within(d, f)
  BY <1>3 DEF Within, IsChange, IsReset
<1>6. InOrder(d)
  BY <1>3, <1>4 DEF InOrder, IsChange, IsReset
<1>7. \A i : After(ch, i) => After(d, i)
  BY <1>3 DEF After, IsChange
<1>8. OnlyDeltas(ch) => OnlyDeltas(d)
  BY <1>3 DEF OnlyDeltas, IsDelta
<1>9. IsChange(ch, 1) => After(d, ch[1].seq) /\ ch[1].seq <= f
  BY <1>1, <1>3 DEF After, InOrder, Within, IsChange
<1>10. IsReset(ch, 1) => After(d, ch[1].head) /\ ch[1].head <= f
  BY <1>1, <1>3 DEF After, InOrder, Within, IsChange, IsReset
<1>11. QED
  BY <1>5, <1>6, <1>7, <1>8, <1>9, <1>10 DEF d

(* A channel brings a page to the same graph, and to the same version, with *)
(* a message that is no difference of graphs.                               *)
LEMMA PlainSent ==
    ASSUME NEW ch \in Seq(Messages), NEW m \in Messages, m.is # "delta", NEW v
    PROVE  /\ Versions(ch, v) => Versions(Append(ch, m), v)
           /\ \A n : News(Append(ch, m), v, n) = News(ch, v, n)
           /\ \A graph, snap, n :
                Brings(ch, v, graph, snap, n) => Brings(Append(ch, m), v, graph, snap, n)
<1> DEFINE d == Append(ch, m)
<1>1. Len(d) = Len(ch) + 1 /\ d[Len(ch) + 1] = m /\ Len(ch) \in Nat
  BY Appended
<1>2. \A j \in 1..Len(ch) : d[j] = ch[j]
  BY Appended
<1> HIDE DEF d
<1>3. \A j \in 1..Len(d) : IsDelta(d, j) => j \in 1..Len(ch)
  BY <1>1 DEF IsDelta
<1>4. \A j \in 1..Len(ch) : j \in 1..Len(d) /\ d[j] = ch[j] /\ (IsDelta(d, j) <=> IsDelta(ch, j))
  BY <1>1, <1>2 DEF IsDelta
<1>5. ASSUME Versions(ch, v)
      PROVE  Versions(d, v)
  <2> SUFFICES ASSUME NEW j \in 1..Len(d), IsDelta(d, j)
               PROVE  /\ d[j].version <= v
                      /\ \A k \in 1..j - 1 : IsDelta(d, k) => d[k].version < d[j].version
    BY DEF Versions
  <2>1. j \in 1..Len(ch) /\ \A k \in 1..j - 1 : k \in 1..Len(ch)
    BY <1>1, <1>3
  <2>2. QED
    BY <2>1, <1>4, <1>5 DEF Versions
<1>6. ASSUME NEW n
      PROVE  News(d, v, n) = News(ch, v, n)
  BY <1>3, <1>4 DEF News
<1>7. ASSUME NEW graph, NEW snap, NEW n, Brings(ch, v, graph, snap, n)
      PROVE  Brings(d, v, graph, snap, n)
  <2>1. \A j \in News(ch, v, n) : d[j] = ch[j]
    BY <1>4 DEF News
  <2>2. QED
    BY <2>1, <1>6, <1>7 DEF Brings
<1>8. QED
  BY <1>5, <1>6, <1>7 DEF d

(* A difference of graphs brings a page, that is not ahead of it, the nodes *)
(* it tells of; for the others all stays as it is.                          *)
LEMMA DeltaSent ==
    ASSUME NEW ch \in Seq(Messages), NEW m \in Messages, m.is = "delta", NEW v \in Nat
    PROVE  /\ \A w \in Int : Versions(ch, w) /\ w < m.version => Versions(Append(ch, m), m.version)
           /\ \A graph, snap, n :
                n \in DOMAIN m.set /\ m.version > v /\ m.set[n] = snap[n] =>
                   Brings(Append(ch, m), v, graph, snap, n)
           /\ \A graph, snap, n :
                ~(n \in DOMAIN m.set /\ m.version > v) /\ Brings(ch, v, graph, snap, n) =>
                   Brings(Append(ch, m), v, graph, snap, n)
<1> DEFINE d == Append(ch, m)
<1>1. Len(d) = Len(ch) + 1 /\ d[Len(d)] = m /\ Len(ch) \in Nat /\ m.version \in Nat
  BY Appended, MessageFields
<1>2. \A j \in 1..Len(ch) : d[j] = ch[j]
  BY Appended
<1> HIDE DEF d
<1>3. \A j \in 1..Len(ch) : j \in 1..Len(d) /\ d[j] = ch[j] /\ (IsDelta(d, j) <=> IsDelta(ch, j))
  BY <1>1, <1>2 DEF IsDelta
<1>4. \A j \in 1..Len(d) : j \in 1..Len(ch) \/ j = Len(d)
  BY <1>1
<1>5. IsDelta(d, Len(d)) /\ Len(d) \in 1..Len(d) /\ Len(d) \notin 1..Len(ch)
  BY <1>1 DEF IsDelta
<1>6. ASSUME NEW w \in Int, Versions(ch, w), w < m.version
      PROVE  Versions(d, m.version)
  <2>1. \A j \in 1..Len(ch) : IsDelta(ch, j) => ch[j].version < m.version
    BY <1>1, <1>6, ChannelFields DEF Versions
  <2> SUFFICES ASSUME NEW j \in 1..Len(d), IsDelta(d, j)
               PROVE  /\ d[j].version <= m.version
                      /\ \A k \in 1..j - 1 : IsDelta(d, k) => d[k].version < d[j].version
    BY DEF Versions
  <2>2. \A k \in 1..j - 1 : k \in 1..Len(ch)
    BY <1>1
  <2>3. CASE j \in 1..Len(ch)
    <3>1. ch[j].version < m.version /\ ch[j].version \in Nat /\ d[j] = ch[j]
      BY <2>1, <2>3, <1>3, ChannelFields
    <3>2. \A k \in 1..j - 1 : IsDelta(ch, k) => ch[k].version < ch[j].version
      BY <1>6, <2>3, <1>3 DEF Versions
    <3>3. QED
      BY <3>1, <3>2, <2>2, <1>1, <1>3
  <2>4. CASE j = Len(d)
    BY <2>1, <2>2, <2>4, <1>1, <1>3
  <2>5. QED
    BY <2>3, <2>4, <1>4
<1>7. ASSUME NEW graph, NEW snap, NEW n, n \in DOMAIN m.set, m.version > v, m.set[n] = snap[n]
      PROVE  Brings(d, v, graph, snap, n)
  <2>1. Len(d) \in News(d, v, n)
    BY <1>1, <1>5, <1>7 DEF News
  <2>2. \A k \in News(d, v, n) : k <= Len(d)
    BY <1>1 DEF News
  <2>3. QED
    BY <2>1, <2>2, <1>1, <1>7 DEF Brings
<1>8. ASSUME NEW graph, NEW snap, NEW n, ~(n \in DOMAIN m.set /\ m.version > v),
             Brings(ch, v, graph, snap, n)
      PROVE  Brings(d, v, graph, snap, n)
  <2>1. Len(d) \notin News(d, v, n)
    BY <1>1, <1>8 DEF News
  <2>2. News(d, v, n) = News(ch, v, n)
    BY <2>1, <1>3, <1>4 DEF News
  <2>3. \A j \in News(ch, v, n) : d[j] = ch[j]
    BY <1>3 DEF News
  <2>4. QED
    BY <2>2, <2>3, <1>8 DEF Brings
<1>9. QED
  BY <1>6, <1>7, <1>8 DEF d

(* What is left brings a page to the same graph when the first message has  *)
(* been read: if it was a difference, its version is the page's now, and    *)
(* the graph what it made of it.                                            *)
LEMMA DeltasTaken ==
    ASSUME NEW ch \in Seq(Messages), ch # << >>, NEW v \in Nat, NEW w \in Nat,
           NEW limit, Versions(ch, limit),
           w = IF IsDelta(ch, 1) /\ ch[1].version > v THEN ch[1].version ELSE v
    PROVE  /\ Versions(Tail(ch), limit)
           /\ \A graph, next, snap, n :
                /\ Brings(ch, v, graph, snap, n)
                /\ next[n] = IF 1 \in News(ch, v, n) THEN ch[1].set[n] ELSE graph[n]
                => Brings(Tail(ch), w, next, snap, n)
<1> DEFINE d == Tail(ch)
<1>1. Len(d) = Len(ch) - 1 /\ Len(ch) \in Nat /\ Len(ch) > 0
  BY Taken
<1>2. \A j \in 1..Len(d) : d[j] = ch[j + 1]
  BY Taken
<1> HIDE DEF d
<1>3. \A j \in 1..Len(d) :
        /\ d[j] = ch[j + 1] /\ j + 1 \in 1..Len(ch) /\ 1 \in 1..(j + 1) - 1
        /\ IsDelta(d, j) <=> IsDelta(ch, j + 1)
        /\ \A k \in 1..j - 1 : k \in 1..Len(d) /\ k + 1 \in 1..(j + 1) - 1
  BY <1>1, <1>2 DEF IsDelta
<1>4. Versions(d, limit)
  <2> SUFFICES ASSUME NEW j \in 1..Len(d), IsDelta(d, j)
               PROVE  /\ d[j].version <= limit
                      /\ \A k \in 1..j - 1 : IsDelta(d, k) => d[k].version < d[j].version
    BY DEF Versions
  <2>1. IsDelta(ch, j + 1) /\ d[j] = ch[j + 1] /\ j + 1 \in 1..Len(ch)
    BY <1>3
  <2>2. \A k \in 1..(j + 1) - 1 : IsDelta(ch, k) => ch[k].version < ch[j + 1].version
    BY <2>1 DEF Versions
  <2>3. ASSUME NEW k \in 1..j - 1, IsDelta(d, k)
        PROVE  d[k].version < d[j].version
    <3>1. k \in 1..Len(d) /\ k + 1 \in 1..(j + 1) - 1
      BY <1>3
    <3>2. IsDelta(ch, k + 1) /\ d[k] = ch[k + 1]
      BY <3>1, <2>3, <1>3
    <3>3. QED
      BY <3>1, <3>2, <2>1, <2>2
  <2>4. QED
    BY <2>1, <2>3 DEF Versions
<1>5. ASSUME NEW n, NEW j \in 1..Len(d)
      PROVE  j \in News(d, w, n) <=> j + 1 \in News(ch, v, n)
  <2>1. IsDelta(ch, j + 1) =>
          /\ ch[j + 1].version \in Nat
          /\ IsDelta(ch, 1) => ch[1].version < ch[j + 1].version /\ ch[1].version \in Nat
    BY <1>1, <1>3, ChannelFields DEF Versions
  <2>2. IsDelta(ch, j + 1) => (ch[j + 1].version > w <=> ch[j + 1].version > v)
    BY <2>1
  <2>3. QED
    BY <2>2, <1>3 DEF News
<1>6. \A n : \A k \in News(ch, v, n) : k = 1 \/ (k - 1 \in 1..Len(d) /\ (k - 1) + 1 = k)
  BY <1>1 DEF News
<1>7. \A n : News(d, w, n) \subseteq 1..Len(d)
  BY DEF News
<1>8. ASSUME NEW graph, NEW next, NEW snap, NEW n, Brings(ch, v, graph, snap, n),
             next[n] = IF 1 \in News(ch, v, n) THEN ch[1].set[n] ELSE graph[n]
      PROVE  Brings(d, w, next, snap, n)
  <2>1. CASE News(d, w, n) = {}
    <3>1. News(ch, v, n) \subseteq {1}
      BY <2>1, <1>5, <1>6
    <3>2. next[n] = snap[n]
      BY <3>1, <1>8 DEF Brings
    <3>3. QED
      BY <2>1, <3>2 DEF Brings
  <2>2. CASE News(d, w, n) # {}
    <3>1. PICK i \in News(d, w, n) : TRUE
      BY <2>2
    <3>2. i \in 1..Len(d) /\ i + 1 \in News(ch, v, n)
      BY <3>1, <1>5, <1>7
    <3>3. PICK j \in News(ch, v, n) :
             ch[j].set[n] = snap[n] /\ \A k \in News(ch, v, n) : k <= j
      BY <3>2, <1>8 DEF Brings
    <3>4. j # 1
      BY <3>2, <3>3
    <3>5. j - 1 \in 1..Len(d) /\ (j - 1) + 1 = j
      BY <3>3, <3>4, <1>6
    <3>6. j - 1 \in News(d, w, n) /\ d[j - 1] = ch[j]
      BY <3>3, <3>5, <1>2, <1>5
    <3>7. ASSUME NEW k \in News(d, w, n)
          PROVE  k <= j - 1
      <4>1. k \in 1..Len(d) /\ k + 1 \in News(ch, v, n)
        BY <1>5, <1>7
      <4>2. k + 1 <= j
        BY <4>1, <3>3
      <4>3. QED
        BY <4>1, <4>2, <3>5
    <3>8. QED
      BY <3>3, <3>6, <3>7 DEF Brings
  <2>3. QED
    BY <2>1, <2>2
<1>9. QED
  BY <1>4, <1>8 DEF d

-----------------------------------------------------------------------------
(* Types: what each operator makes of a handler, a page and a graph *)

(* What the fields of a page are. *)
LEMMA PageFields ==
    ASSUME NEW pg \in PageStates
    PROVE  /\ pg.cursor \in Nat /\ pg.lastId \in Nat /\ pg.url \in Nat
           /\ pg.changes \in SUBSET Nat /\ pg.graph \in Graphs /\ pg.version \in Nat
BY DEF PageStates

(* What the fields of the poller are. *)
LEMMA PollFields ==
    ASSUME poll \in PollStates
    PROVE  /\ poll.pc \in {"idle", "head", "feed", "graph", "delta", "publish"}
           /\ poll.cursor \in Int /\ poll.upto \in Int /\ poll.next \in Nat
           /\ poll.pages \in Nat /\ poll.seen \in Nat /\ poll.delta \in Deltas
BY DEF PollStates

(* What the fields of the hub are. *)
LEMMA HubFields ==
    ASSUME hub \in Hubs
    PROVE  hub.cursor \in Nat /\ hub.snap \in Graphs /\ hub.version \in Nat
BY DEF Hubs

(* What of the state the proofs below speak of, with its types. *)
LEMMA Typed ==
    ASSUME TypeInv
    PROVE  /\ log \in Seq(Nodes \cup {"other", "bookkeeping"}) /\ Head0 \in Nat
           /\ pruned \in Nat /\ pruned <= Head0
           /\ hub \in Hubs /\ poll \in PollStates
           /\ hub.cursor \in Nat /\ hub.snap \in Graphs /\ hub.version \in Nat
           /\ poll.cursor \in Int /\ poll.upto \in Int /\ poll.next \in Nat
           /\ poll.seen \in Nat /\ poll.delta \in Deltas
           /\ con \in [Pages -> Handlers] /\ page \in [Pages -> PageStates]
           /\ since \in [Pages -> Promises]
           /\ \A p \in Pages :
                /\ con[p] \in Handlers /\ page[p] \in PageStates /\ since[p] \in Promises
                /\ since[p].seq \in Nat /\ since[p].named \in BOOLEAN
BY HubFields, PollFields DEF TypeInv, Head0, Promises

(* A page without a stream has a handler of the type, too. *)
LEMMA OffTyped == Off \in Handlers
<1>1. Empty \in Graphs
  BY DEF Empty, Graphs
<1>2. << >> \in Seq(Messages)
  OBVIOUS
<1>3. QED
  BY <1>1, <1>2 DEF Off, Handlers

(* What the graph is now. *)
LEMMA GraphNow == TypeInv => Graph \in Graphs
BY GraphTyped, Typed DEF Graph

(* What a broadcast does to one handler: nothing, a message lost that cuts  *)
(* it off, or a message more in its channel.                                *)
LEMMA SendEffect ==
    ASSUME NEW c \in Handlers, NEW m \in Messages, Len(c.ch) <= Buffer, Buffer \in Nat
    PROVE  /\ Send(c, m) \in Handlers
           /\ Len(Send(c, m).ch) <= Buffer
           /\ Send(c, m).pc = c.pc /\ Send(c, m).head = c.head /\ Send(c, m).at = c.at
           /\ Send(c, m).upto = c.upto /\ Send(c, m).snap = c.snap
           /\ Send(c, m).version = c.version /\ Send(c, m).after = c.after
           /\ Send(c, m).replays = c.replays /\ Send(c, m).more = c.more
           /\ Send(c, m).silent = c.silent
           /\ \/ Send(c, m) = c /\ (c.pc = "off" \/ c.dropped)
              \/ Send(c, m).ch = c.ch /\ Send(c, m).dropped /\ c.pc # "off"
              \/ /\ Send(c, m).ch = Append(c.ch, m) /\ ~Send(c, m).dropped /\ ~c.dropped
                 /\ c.pc # "off"
<1>1. c.ch \in Seq(Messages) /\ Len(c.ch) \in Nat /\ c.dropped \in BOOLEAN
  BY HandlerFields
<1>2. CASE c.pc = "off" \/ c.dropped
  BY <1>2 DEF Send
<1>3. CASE ~(c.pc = "off" \/ c.dropped) /\ Len(c.ch) = Buffer
  BY <1>1, <1>3 DEF Send, Handlers
<1>4. CASE ~(c.pc = "off" \/ c.dropped) /\ Len(c.ch) # Buffer
  <2>1. Append(c.ch, m) \in Seq(Messages) /\ Len(Append(c.ch, m)) = Len(c.ch) + 1
    BY <1>1, Appended
  <2>2. Len(c.ch) + 1 <= Buffer
    BY <1>1, <1>4
  <2>3. Send(c, m) = [c EXCEPT !.ch = Append(@, m)]
    BY <1>4 DEF Send
  <2>4. QED
    BY <1>4, <2>1, <2>2, <2>3 DEF Handlers
<1>5. QED
  BY <1>2, <1>3, <1>4

(* What is left of a handler that only forwards, and of one that resets. *)
LEMMA ForwardsEffect ==
    ASSUME NEW c \in Handlers
    PROVE  /\ Forwards(c) \in Handlers
           /\ Forwards(c).pc = "live" /\ Forwards(c).ch = c.ch
           /\ Forwards(c).dropped = c.dropped /\ Forwards(c).silent = c.silent
           /\ Forwards(c).head = 0 /\ Forwards(c).upto = 0 /\ Forwards(c).at = 0
           /\ Forwards(c).replays = FALSE
BY HandlerFields, OffTyped DEF Forwards, Off, Handlers

(* A handler about to write a reset keeps its channel and its snapshot. *)
LEMMA ResetEffect ==
    ASSUME NEW c \in Handlers
    PROVE  /\ Reset(c) \in Handlers
           /\ Reset(c).pc = "reset" /\ Reset(c).ch = c.ch
           /\ Reset(c).dropped = c.dropped /\ Reset(c).silent = c.silent
           /\ Reset(c).head = c.head /\ Reset(c).upto = 0 /\ Reset(c).at = 0
           /\ Reset(c).snap = c.snap /\ Reset(c).version = c.version
           /\ Reset(c).replays = FALSE
<1>1. PICK f \in Handlers :
        /\ f = Forwards(c) /\ f.ch = c.ch /\ f.dropped = c.dropped /\ f.silent = c.silent
        /\ f.upto = 0 /\ f.at = 0 /\ f.replays = FALSE
  BY ForwardsEffect
<1>2. Reset(c) = [f EXCEPT !.pc = "reset", !.head = c.head, !.snap = c.snap,
                          !.version = c.version]
  BY <1>1 DEF Reset
<1>3. c.head \in Nat /\ c.snap \in Graphs /\ c.version \in Nat
  BY HandlerFields
<1>4. QED
  BY <1>1, <1>2, <1>3 DEF Handlers

(* What frames make of a page. *)
LEMMA AppliedTyped ==
    ASSUME NEW pg \in PageStates
    PROVE  /\ \A s \in Graphs, v, k \in Nat : ApplySnapshot(pg, s, v, k) \in PageStates
           /\ \A k \in Nat : ApplyReset(pg, k) \in PageStates
           /\ \A i \in Nat : ApplyChange(pg, i) \in PageStates
           /\ \A m \in GraphDeltas : ApplyDelta(pg, m) \in PageStates
<1>1. \A s \in Graphs, v, k \in Nat : ApplySnapshot(pg, s, v, k) \in PageStates
  BY PageFields DEF ApplySnapshot, Backwards, PageStates
<1>2. \A k \in Nat : ApplyReset(pg, k) \in PageStates
  BY PageFields DEF ApplyReset, PageStates
<1>3. \A i \in Nat : ApplyChange(pg, i) \in PageStates
  <2> SUFFICES ASSUME NEW i \in Nat
               PROVE  ApplyChange(pg, i) \in PageStates
    OBVIOUS
  <2>1. Max2(pg.cursor, i) \in Nat /\ pg.changes \cup {i} \in SUBSET Nat
    BY PageFields DEF Max2
  <2>2. QED
    BY <2>1, PageFields DEF ApplyChange, PageStates
<1>4. \A m \in GraphDeltas : ApplyDelta(pg, m) \in PageStates
  <2> SUFFICES ASSUME NEW m \in GraphDeltas
               PROVE  ApplyDelta(pg, m) \in PageStates
    OBVIOUS
  <2> DEFINE g == [n \in Nodes |-> IF n \in DOMAIN m.set THEN m.set[n] ELSE pg.graph[n]]
  <2>1. m.version \in Nat /\ \A n \in DOMAIN m.set : m.set[n] \in Nat
    BY DEF GraphDeltas, Deltas
  <2>2. g \in Graphs
    BY <2>1, PageFields DEF Graphs
  <2> HIDE DEF g
  <2>3. ApplyDelta(pg, m) = pg \/ ApplyDelta(pg, m) = [pg EXCEPT !.version = m.version, !.graph = g]
    BY PageFields DEF ApplyDelta, g
  <2>4. QED
    BY <2>1, <2>2, <2>3 DEF PageStates
<1>5. QED
  BY <1>1, <1>2, <1>3, <1>4

(* What a reading changes is of nodes, and what they became. *)
LEMMA DiffTyped ==
    ASSUME NEW s \in Graphs, NEW t \in Graphs
    PROVE  /\ Diff(s, t) \in Deltas
           /\ \A n \in DOMAIN Diff(s, t) : Diff(s, t)[n] = t[n]
           /\ \A n \in Nodes : n \notin DOMAIN Diff(s, t) => s[n] = t[n]
<1> DEFINE S == {m \in Nodes : s[m] # t[m]}
<1>1. Diff(s, t) = [n \in S |-> t[n]]
  BY DEF Diff
<1>2. Diff(s, t) \in [S -> Nat] /\ S \in SUBSET Nodes
  BY <1>1 DEF Graphs
<1>3. QED
  BY <1>1, <1>2 DEF Deltas

-----------------------------------------------------------------------------
(* Types: the steps *)

(* A broadcast keeps the handlers if it is of a message. *)
LEMMA BroadcastTyped ==
    ASSUME TypeInv, \A p \in Pages : Len(con[p].ch) <= Buffer, NEW m \in Messages, Broadcast(m)
    PROVE  con' \in [Pages -> Handlers]
<1>1. ASSUME NEW p \in Pages
      PROVE  Send(con[p], m) \in Handlers
  BY SendEffect, Typed, LiveAssumption DEF LiveAssumption
<1>2. QED
  BY <1>1 DEF Broadcast

(* A promise that is changed stays one. *)
LEMMA PromisesTyped ==
    ASSUME since \in [Pages -> Promises], NEW p \in Pages
    PROVE  /\ \A s \in Nat, b \in BOOLEAN :
                [since EXCEPT ![p] = [seq |-> s, named |-> b]] \in [Pages -> Promises]
           /\ \A s \in Nat : [since EXCEPT ![p].seq = s] \in [Pages -> Promises]
           /\ \A b \in BOOLEAN : [since EXCEPT ![p].named = b] \in [Pages -> Promises]
BY DEF Promises

(* The poller between two ticks. *)
LEMMA IdleTyped == \A k \in Int : Idle(k) \in PollStates
<1>1. NoDelta \in Deltas
  <2>1. NoDelta \in [{} -> Nat]
    BY DEF NoDelta
  <2>2. QED
    BY <2>1 DEF Deltas
<1>2. QED
  BY <1>1 DEF Idle, PollStates, NoBatch

(* Where a page of the log ends. *)
LEMMA PageEndTyped ==
    ASSUME TypeInv, NEW k \in Nat
    PROVE  PageEnd(k) \in Nat /\ PageEnd(k) <= Head0 /\ (k <= Head0 => k <= PageEnd(k))
<1>1. PageSize \in Nat /\ PageSize > 0
  BY LiveAssumption DEF LiveAssumption
<1>2. Head0 \in Nat
  BY Typed
<1>3. QED
  BY <1>1, <1>2 DEF PageEnd, Min2

(* The poller's steps. *)
LEMMA PollerTyped ==
    ASSUME TypeInv, PollInv, \A p \in Pages : Len(con[p].ch) <= Buffer,
           \/ \E kind \in Kinds : Commit(kind)
           \/ Prune \/ Tick \/ LateHead \/ FeedFails \/ ReadFails \/ FeedPruned
           \/ \E due \in BOOLEAN : FeedPage(due)
           \/ ReadGraph \/ SendDelta \/ PublishItem \/ PublishDone
           \/ \E asked, read \in BOOLEAN : Restart(asked, read)
    PROVE  TypeInv'
<1>1. ASSUME NEW kind \in Kinds, Commit(kind)
      PROVE  TypeInv'
  BY <1>1, LiveAssumption DEF LiveAssumption, Commit, TypeInv, Head0
<1>2. CASE Prune
  BY <1>2, LiveAssumption DEF LiveAssumption, Prune, TypeInv, Head0
<1>3. CASE Tick
  <2>1. poll' \in PollStates
    BY <1>3, Typed DEF Tick, PollStates
  <2>2. QED
    BY <2>1, <1>3 DEF Tick, TypeInv, Head0
<1>4. CASE LateHead
  <2>1. PICK h \in Nat : h = Head0
    BY Typed
  <2>6. poll' = [poll EXCEPT !.pc = "feed", !.cursor = h, !.upto = h, !.seen = h]
    BY <1>4, <2>1 DEF LateHead
  <2>7. hub' = [hub EXCEPT !.cursor = h]
    BY <1>4, <2>1 DEF LateHead
  <2>9. poll \in PollStates /\ hub \in Hubs
    BY Typed
  <2>10. poll' \in PollStates
    <3>1. poll' = [pc |-> "feed", cursor |-> h, upto |-> h, seen |-> h, next |-> poll.next,
                   pages |-> poll.pages, delta |-> poll.delta]
      BY <2>6, <2>9 DEF PollStates
    <3>2. QED
      BY <2>9, <3>1 DEF PollStates
  <2>11. hub' \in Hubs
    BY <2>7, <2>9 DEF Hubs
  <2>8. poll' \in PollStates /\ hub' \in Hubs
    BY <2>10, <2>11
  <2>2. since' \in [Pages -> Promises]
    BY <1>4, Typed DEF LateHead, Promises
  <2>3. ASSUME NEW p \in Pages
        PROVE  [con[p] EXCEPT !.silent = TRUE] \in Handlers
    <3>1. con[p] \in Handlers
      BY Typed
    <3>2. QED
      BY <3>1 DEF Handlers
  <2>4. con' \in [Pages -> Handlers]
    BY <1>4, <2>3, Typed DEF LateHead
  <2>5. QED
    BY <1>4, <2>8, <2>2, <2>4 DEF LateHead, TypeInv, Head0
<1>5. CASE FeedFails
  <2>1. poll.cursor \in Int
    BY Typed
  <2>2. Idle(poll.cursor) \in PollStates
    BY <2>1, IdleTyped
  <2>3. poll' = [Idle(poll.cursor) EXCEPT !.pc = "graph"]
    BY <1>5 DEF FeedFails
  <2>4. poll' \in PollStates
    BY <2>2, <2>3 DEF PollStates
  <2>5. QED
    BY <1>5, <2>4 DEF FeedFails, TypeInv, Head0
<1>6. CASE ReadFails
  <2>1. poll' \in PollStates
    BY <1>6, Typed, IdleTyped DEF ReadFails, BatchKept
  <2>2. QED
    BY <1>6, <2>1 DEF ReadFails, TypeInv, Head0
<1>7. CASE FeedPruned
  <2>1. PICK head \in poll.seen..Head0 :
           /\ Broadcast([is |-> "reset", head |-> head])
           /\ hub' = [hub EXCEPT !.cursor = Max2(@, head)]
           /\ poll' = [Idle(head) EXCEPT !.pc = "graph"]
    BY <1>7 DEF FeedPruned
  <2>2. head \in Nat
    BY Typed
  <2>3. [is |-> "reset", head |-> head] \in Messages
    BY <2>2 DEF Messages, Resets
  <2>4. con' \in [Pages -> Handlers]
    BY <2>1, <2>3, BroadcastTyped
  <2>5. Idle(head) \in PollStates
    BY <2>2, IdleTyped
  <2>6. poll' \in PollStates
    BY <2>1, <2>5 DEF PollStates
  <2>7. hub' \in Hubs
    BY <2>1, <2>2, Typed DEF Hubs, Max2
  <2>8. QED
    BY <1>7, <2>4, <2>6, <2>7 DEF FeedPruned, TypeInv, Head0
<1>8. ASSUME NEW due \in BOOLEAN, FeedPage(due)
      PROVE  TypeInv'
  <2>1. poll.pc = "feed"
    BY <1>8 DEF FeedPage
  <2>2. 0 <= poll.cursor /\ poll.cursor <= poll.upto
    BY <2>1 DEF PollInv
  <2>3. poll.cursor \in Int /\ poll.upto \in Int
    BY Typed
  <2>4. poll.upto \in Nat /\ poll.cursor + 1 \in Nat
    BY <2>2, <2>3
  <2>5. PICK end \in Nat : end = PageEnd(poll.upto)
    BY <2>4, PageEndTyped
  <2>6. PICK again \in BOOLEAN, next \in {"feed", "graph", "publish"} :
          poll' = [poll EXCEPT
                    !.upto = end, !.pages = IF again THEN @ + 1 ELSE 0,
                    !.seen = IF again THEN Head0 ELSE 0,
                    !.next = poll.cursor + 1, !.pc = next]
    <3>1. PICK head \in poll.seen..Head0 :
            poll' = [poll EXCEPT
                      !.upto = end,
                      !.pages = IF More(poll.upto, head) /\ poll.pages + 1 < BatchPages THEN @ + 1 ELSE 0,
                      !.seen = IF More(poll.upto, head) /\ poll.pages + 1 < BatchPages THEN Head0 ELSE 0,
                      !.next = poll.cursor + 1,
                      !.pc = IF More(poll.upto, head) /\ poll.pages + 1 < BatchPages THEN "feed"
                             ELSE IF due \/ Structural(poll.cursor, end) THEN "graph"
                             ELSE "publish"]
      BY <1>8, <2>5 DEF FeedPage
    <3> DEFINE b == More(poll.upto, head) /\ poll.pages + 1 < BatchPages
               x == IF b THEN "feed"
                    ELSE IF due \/ Structural(poll.cursor, end) THEN "graph" ELSE "publish"
    <3>2. b \in BOOLEAN /\ x \in {"feed", "graph", "publish"}
      BY DEF More
    <3>3. QED
      BY <3>1, <3>2
  <2>7. poll' \in PollStates
    <3>1. poll \in PollStates /\ Head0 \in Nat
      BY Typed
    <3>2. PICK seen \in Nat, pages \in Nat, after \in Nat :
            poll' = [poll EXCEPT !.upto = end, !.pages = pages, !.seen = seen,
                                 !.next = after, !.pc = next]
      <4>1. poll.pages + 1 \in Nat
        BY <3>1, PollFields
      <4>2. QED
        BY <2>4, <2>6, <3>1, <4>1
    <3>3. poll' = [pc |-> next, cursor |-> poll.cursor, upto |-> end, seen |-> seen,
                   next |-> after, pages |-> pages, delta |-> poll.delta]
      BY <3>1, <3>2 DEF PollStates
    <3>4. QED
      BY <3>1, <3>3 DEF PollStates
  <2>8. QED
    BY <1>8, <2>7 DEF FeedPage, TypeInv, Head0
<1>9. CASE ReadGraph
  <2>1. Graph \in Graphs
    BY GraphNow
  <2>2. AfterGraph \in PollStates
    BY Typed, IdleTyped DEF AfterGraph, PollStates
  <2>3. Diff(hub.snap, Graph) \in Deltas
    BY <2>1, Typed, DiffTyped
  <2>4. poll' \in PollStates /\ hub' \in Hubs
    <3>1. CASE Graph = hub.snap
      BY <1>9, <3>1, <2>2, Typed DEF ReadGraph
    <3>2. CASE Graph # hub.snap
      <4>1. poll' = [poll EXCEPT !.pc = "delta", !.delta = Diff(hub.snap, Graph)]
        BY <1>9, <3>2 DEF ReadGraph
      <4>2. hub' = [hub EXCEPT !.snap = Graph, !.version = @ + 1]
        BY <1>9, <3>2 DEF ReadGraph
      <4>3. poll' \in PollStates
        <5>1. PICK d \in Deltas : d = Diff(hub.snap, Graph)
          BY <2>3
        <5>2. poll' = [poll EXCEPT !.pc = "delta", !.delta = d]
          BY <4>1, <5>1
        <5>3. poll \in PollStates
          BY Typed
        <5>4. QED
          BY <5>2, <5>3 DEF PollStates
      <4>4. hub' \in Hubs
        <5>1. hub \in Hubs /\ hub.version + 1 \in Nat
          BY Typed
        <5>2. hub' = [cursor |-> hub.cursor, snap |-> Graph, version |-> hub.version + 1]
          BY <4>2, <5>1 DEF Hubs
        <5>3. QED
          BY <2>1, <5>1, <5>2 DEF Hubs
      <4>5. QED
        BY <4>3, <4>4
    <3>3. QED
      BY <3>1, <3>2
  <2>5. QED
    BY <1>9, <2>4 DEF ReadGraph, TypeInv, Head0
<1>10. CASE SendDelta
  <2>1. [is |-> "delta", version |-> hub.version, set |-> poll.delta] \in Messages
    BY Typed DEF Messages, GraphDeltas
  <2>2. con' \in [Pages -> Handlers]
    BY <1>10, <2>1, BroadcastTyped DEF SendDelta
  <2>3. AfterGraph \in PollStates
    BY Typed, IdleTyped DEF AfterGraph, PollStates
  <2>4. NoDelta \in Deltas
    <3>1. NoDelta \in [{} -> Nat]
      BY DEF NoDelta
    <3>2. QED
      BY <3>1 DEF Deltas
  <2>5. poll' = [AfterGraph EXCEPT !.delta = NoDelta]
    BY <1>10 DEF SendDelta
  <2>6. poll' \in PollStates
    BY <2>3, <2>4, <2>5 DEF PollStates
  <2>7. QED
    BY <1>10, <2>2, <2>6 DEF SendDelta, TypeInv, Head0
<1>11. CASE PublishItem
  <2>1. [is |-> "change", seq |-> poll.next] \in Messages
    <3>1. poll.next \in Nat \ {0}
      BY <1>11, Typed DEF PublishItem, PollInv
    <3>2. QED
      BY <3>1 DEF Messages, Changes
  <2>2. con' \in [Pages -> Handlers]
    BY <1>11, <2>1, BroadcastTyped, Typed DEF PublishItem
  <2>3. poll' \in PollStates
    BY <1>11, Typed DEF PublishItem, PollStates
  <2>4. QED
    BY <1>11, <2>2, <2>3 DEF PublishItem, TypeInv, Head0
<1>12. CASE PublishDone
  <2>1. poll' \in PollStates
    BY <1>12, Typed, IdleTyped DEF PublishDone
  <2>2. hub' \in Hubs
    <3>1. Max2(hub.cursor, poll.upto) \in Nat
      BY Typed DEF Max2
    <3>2. QED
      BY <1>12, <3>1, Typed DEF PublishDone, Hubs
  <2>3. QED
    BY <1>12, <2>1, <2>2 DEF PublishDone, TypeInv, Head0
<1>13. ASSUME NEW asked \in BOOLEAN, NEW read \in BOOLEAN, Restart(asked, read)
       PROVE  TypeInv'
  <2>1. Graph \in Graphs /\ Empty \in Graphs
    BY GraphNow DEF Empty, Graphs
  <2>2. hub' \in Hubs
    BY <1>13, <2>1, Typed DEF Restart, Hubs
  <2>3. poll' \in PollStates
    BY <1>13, Typed, IdleTyped DEF Restart
  <2>4. con' \in [Pages -> Handlers]
    BY <1>13, OffTyped DEF Restart
  <2>5. QED
    BY <1>13, <2>2, <2>3, <2>4 DEF Restart, TypeInv, Head0
<1>14. QED
  BY <1>1, <1>2, <1>3, <1>4, <1>5, <1>6, <1>7, <1>8, <1>9, <1>10, <1>11, <1>12, <1>13

-----------------------------------------------------------------------------
(* The handlers' steps: what each does to the page it serves *)

(* A handler leaves the log, the hub, the poller and the other pages alone. *)
LEMMA HandlerStep ==
    ASSUME TypeInv, NEW p \in Pages, NEW c, NEW pg, Handler(p, c, pg)
    PROVE  /\ con'[p] = c /\ page'[p] = pg
           /\ \A q \in Pages : q # p => con'[q] = con[q] /\ page'[q] = page[q]
           /\ log' = log /\ pruned' = pruned /\ hub' = hub /\ poll' = poll
           /\ c \in Handlers /\ pg \in PageStates =>
                con' \in [Pages -> Handlers] /\ page' \in [Pages -> PageStates]
BY Typed DEF Handler

(* A step of a page's handler, seen from the page: the promise of no other  *)
(* page changes either.                                                     *)
Alone(p) ==
    /\ log' = log /\ pruned' = pruned /\ hub' = hub /\ poll' = poll
    /\ \A q \in Pages : q # p => con'[q] = con[q] /\ page'[q] = page[q] /\ since'[q] = since[q]
    /\ con' \in [Pages -> Handlers] /\ page' \in [Pages -> PageStates]
    /\ since' \in [Pages -> Promises]

(* A step of one handler keeps the types. *)
LEMMA AloneTyped ==
    ASSUME TypeInv, NEW p, Alone(p)
    PROVE  TypeInv'
BY DEF TypeInv, Alone, Head0

(* What a page's handler is after a step that keeps its channel. *)
SameChannel(p) ==
    con'[p].ch = con[p].ch /\ con'[p].dropped = con[p].dropped /\ con'[p].silent = con[p].silent
SameSnapshot(p) ==
    con'[p].head = con[p].head /\ con'[p].snap = con[p].snap /\ con'[p].version = con[p].version

(* Connect: a page opens a stream at the cursor and the graph of the hub. *)
LEMMA ConnectEffect ==
    ASSUME TypeInv, NEW p \in Pages, NEW reopens \in BOOLEAN, Connect(p, reopens)
    PROVE  /\ Alone(p) /\ HubFree /\ con[p].pc = "off"
           /\ con'[p].pc \in {"probe", "open"} /\ con'[p].ch = << >> /\ ~con'[p].dropped
           /\ con'[p].head = hub.cursor /\ con'[p].snap = hub.snap
           /\ con'[p].version = hub.version /\ ~con'[p].replays /\ con'[p].at = 0
           /\ con'[p].upto = 0 /\ ~con'[p].silent
           /\ con'[p].pc = "probe" => con'[p].after > 0
           /\ con'[p].pc = "open" => con'[p].after = 0 \/ con'[p].after = hub.cursor
           /\ page'[p].cursor = page[p].cursor /\ page'[p].changes = page[p].changes
           /\ page'[p].graph = page[p].graph /\ page'[p].version = page[p].version
           /\ page'[p].lastId \in {0, page[p].lastId}
           /\ page'[p].url \in {page[p].url, page[p].cursor}
           /\ since'[p].seq = since[p].seq
           /\ since'[p].named => /\ since[p].named
                                 /\ \/ con'[p].after = page[p].cursor
                                    \/ 0 < con'[p].after /\ con'[p].after < page[p].cursor
<1>1. PICK pg : pg = [page[p] EXCEPT !.url = IF reopens THEN page[p].cursor ELSE @,
                                     !.lastId = IF reopens THEN 0 ELSE @]
  OBVIOUS
<1>2. PICK after : after = IF pg.lastId > 0 THEN pg.lastId ELSE pg.url
  OBVIOUS
<1>3. PICK c : c = [Off EXCEPT !.pc = IF after > 0 /\ after # hub.cursor THEN "probe" ELSE "open",
                               !.after = after, !.head = hub.cursor,
                               !.snap = hub.snap, !.version = hub.version]
  OBVIOUS
<1>4. /\ Handler(p, c, pg) /\ con[p].pc = "off" /\ HubFree
      /\ since' = [since EXCEPT ![p].named =
                      @ /\ (after = pg.cursor \/ (0 < after /\ after < pg.cursor))]
  BY <1>1, <1>2, <1>3 DEF Connect
<1>5. page[p] \in PageStates /\ since[p] \in Promises /\ since \in [Pages -> Promises]
  BY Typed
<1>6. /\ pg \in PageStates
      /\ pg.cursor = page[p].cursor /\ pg.changes = page[p].changes /\ pg.graph = page[p].graph
      /\ pg.version = page[p].version /\ pg.lastId \in {0, page[p].lastId}
      /\ pg.url \in {page[p].url, page[p].cursor}
  BY <1>1, <1>5 DEF PageStates
<1>7. after \in Nat
  BY <1>2, <1>6, PageFields
<1>8. /\ c.pc = (IF after > 0 /\ after # hub.cursor THEN "probe" ELSE "open")
      /\ c = [pc |-> c.pc, ch |-> << >>, dropped |-> FALSE, after |-> after,
              head |-> hub.cursor, snap |-> hub.snap, version |-> hub.version,
              replays |-> FALSE, at |-> 0, upto |-> 0, more |-> FALSE, pages |-> 0,
              silent |-> FALSE]
  BY <1>3 DEF Off
<1>9. c.pc \in {"probe", "open"}
  BY <1>8
<1>10. hub.cursor \in Nat /\ hub.snap \in Graphs /\ hub.version \in Nat
  BY Typed
<1>11. c \in Handlers
  <2>1. << >> \in Seq(Messages)
    OBVIOUS
  <2>2. PICK pc \in {"probe", "open"} :
          c = [pc |-> pc, ch |-> << >>, dropped |-> FALSE, after |-> after,
               head |-> hub.cursor, snap |-> hub.snap, version |-> hub.version,
               replays |-> FALSE, at |-> 0, upto |-> 0, more |-> FALSE, pages |-> 0,
               silent |-> FALSE]
    BY <1>8, <1>9
  <2>3. QED
    BY <1>7, <1>10, <2>1, <2>2 DEF Handlers
<1>12. /\ c.ch = << >> /\ c.dropped = FALSE /\ c.after = after
       /\ c.head = hub.cursor /\ c.snap = hub.snap /\ c.version = hub.version
       /\ c.replays = FALSE /\ c.at = 0 /\ c.upto = 0 /\ c.silent = FALSE
  BY <1>8
<1>13. /\ c.pc = "probe" => after > 0
       /\ c.pc = "open" => after = 0 \/ after = hub.cursor
  BY <1>7, <1>8
<1>14. /\ since' \in [Pages -> Promises] /\ since'[p].seq = since[p].seq
       /\ since'[p].named <=>
             since[p].named /\ (after = pg.cursor \/ (0 < after /\ after < pg.cursor))
       /\ \A q \in Pages : q # p => since'[q] = since[q]
  BY <1>4, <1>5 DEF Promises
<1>15. con'[p] = c /\ page'[p] = pg /\ Alone(p)
  BY <1>4, <1>6, <1>11, <1>14, HandlerStep DEF Alone
<1>16. QED
  BY <1>4, <1>6, <1>9, <1>12, <1>13, <1>14, <1>15

(* Probe: a replay begins after what the page named, or a reset is written. *)
LEMMA ProbeEffect ==
    ASSUME TypeInv, NEW p \in Pages, Probe(p)
    PROVE  /\ Alone(p) /\ con[p].pc = "probe" /\ SameChannel(p) /\ SameSnapshot(p)
           /\ page'[p] = page[p] /\ since'[p] = since[p]
           /\ \/ con'[p].pc = "reset" /\ ~con'[p].replays /\ con'[p].at = 0 /\ con'[p].upto = 0
              \/ /\ con'[p].pc = "open" /\ con'[p].replays /\ con[p].after <= con[p].head
                 /\ con'[p].at = con[p].after /\ con'[p].upto = PageEnd(con[p].after)
                 /\ \E head \in con[p].head..Head0 : con'[p].more = More(con[p].after, head)
<1>1. PICK c \in Handlers : c = con[p]
  BY Typed
<1>2. page[p] \in PageStates /\ since \in [Pages -> Promises] /\ since' = since
  BY Typed DEF Probe
<1>3. c.pc = "probe" /\ c.after \in Nat /\ c.head \in Nat
  BY <1>1, HandlerFields DEF Probe
<1>4. CASE c.after > c.head \/ Overtaken(c.after)
  <2>1. PICK d \in Handlers : d = Reset(c)
    BY ResetEffect
  <2>2. Handler(p, d, page[p])
    <3>1. ~(con[p].after <= con[p].head /\ ~Overtaken(con[p].after))
      BY <1>1, <1>3, <1>4
    <3>2. Handler(p, Reset(con[p]), page[p])
      BY <3>1 DEF Probe
    <3>3. QED
      BY <1>1, <2>1, <3>2
  <2>3. con'[p] = d /\ page'[p] = page[p] /\ Alone(p)
    BY <1>2, <2>2, HandlerStep DEF Alone
  <2>4. /\ d.pc = "reset" /\ d.ch = c.ch /\ d.dropped = c.dropped /\ d.silent = c.silent
        /\ d.head = c.head /\ d.snap = c.snap /\ d.version = c.version /\ d.replays = FALSE
        /\ d.at = 0 /\ d.upto = 0
    BY <2>1, ResetEffect
  <2>5. QED
    BY <1>1, <1>2, <1>3, <2>3, <2>4 DEF SameChannel, SameSnapshot
<1>5. CASE ~(c.after > c.head \/ Overtaken(c.after))
  <2>1. PICK head \in c.head..Head0 :
          Handler(p, [c EXCEPT !.pc = "open", !.replays = TRUE, !.at = c.after, !.pages = 1,
                               !.upto = PageEnd(c.after), !.more = More(c.after, head)], page[p])
    BY <1>1, <1>5 DEF Probe
  <2>2. PICK upto \in Nat, more \in BOOLEAN : upto = PageEnd(c.after) /\ more = More(c.after, head)
    <3>1. PageEnd(c.after) \in Nat
      BY <1>3, PageEndTyped
    <3>2. More(c.after, head) \in BOOLEAN
      BY DEF More
    <3>3. QED
      BY <3>1, <3>2
  <2>3. PICK d : d = [c EXCEPT !.pc = "open", !.replays = TRUE, !.at = c.after, !.pages = 1,
                               !.upto = upto, !.more = more]
    OBVIOUS
  <2>4. Handler(p, d, page[p])
    BY <2>1, <2>2, <2>3
  <2>5. d = [pc |-> "open", ch |-> c.ch, dropped |-> c.dropped, after |-> c.after,
             head |-> c.head, snap |-> c.snap, version |-> c.version, replays |-> TRUE,
             at |-> c.after, upto |-> upto, more |-> more, pages |-> 1, silent |-> c.silent]
    BY <2>3 DEF Handlers
  <2>6. d \in Handlers
    BY <2>5, HandlerFields DEF Handlers
  <2>7. con'[p] = d /\ page'[p] = page[p] /\ Alone(p)
    BY <1>2, <2>4, <2>6, HandlerStep DEF Alone
  <2>8. c.after <= c.head
    BY <1>3, <1>5
  <2>9. /\ d.pc = "open" /\ d.ch = c.ch /\ d.dropped = c.dropped /\ d.silent = c.silent
        /\ d.head = c.head /\ d.snap = c.snap /\ d.version = c.version /\ d.replays = TRUE
        /\ d.at = c.after /\ d.upto = upto /\ d.more = more
    BY <2>5
  <2>10. QED
    BY <1>1, <1>2, <1>3, <2>1, <2>2, <2>7, <2>8, <2>9 DEF SameChannel, SameSnapshot
<1>6. QED
  BY <1>4, <1>5

(* WriteReset: the page starts over at the cursor of the subscription. *)
LEMMA WriteResetEffect ==
    ASSUME TypeInv, NEW p \in Pages, WriteReset(p)
    PROVE  /\ Alone(p) /\ con[p].pc = "reset" /\ SameChannel(p) /\ SameSnapshot(p)
           /\ con'[p].pc = "open" /\ con'[p].replays = con[p].replays
           /\ con'[p].at = con[p].at /\ con'[p].upto = con[p].upto
           /\ page'[p].changes = {} /\ page'[p].cursor = con[p].head
           /\ page'[p].lastId = page[p].lastId /\ page'[p].url = page[p].url
           /\ since'[p].seq = con[p].head /\ since'[p].named = ~con[p].silent
<1> DEFINE c == con[p]
<1>1. c \in Handlers /\ page[p] \in PageStates /\ since \in [Pages -> Promises]
  BY Typed
<1>2. /\ c.pc = "reset" /\ Handler(p, [c EXCEPT !.pc = "open"], ApplyReset(page[p], c.head))
      /\ since' = [since EXCEPT ![p] = [seq |-> c.head, named |-> ~c.silent]]
  BY DEF WriteReset
<1>3. c.head \in Nat /\ c.silent \in BOOLEAN
  BY <1>1, HandlerFields
<1>4. ApplyReset(page[p], c.head) \in PageStates
  BY <1>1, <1>3, AppliedTyped
<1>5. [c EXCEPT !.pc = "open"] \in Handlers
  BY <1>1 DEF Handlers
<1>6. since' \in [Pages -> Promises]
  BY <1>1, <1>2, <1>3, PromisesTyped
<1>7. Alone(p) /\ con'[p] = [c EXCEPT !.pc = "open"] /\ page'[p] = ApplyReset(page[p], c.head)
  BY <1>1, <1>2, <1>4, <1>5, <1>6, HandlerStep DEF Alone
<1>8. SameChannel(p) /\ SameSnapshot(p) /\ con'[p].pc = "open" /\ con'[p].replays = c.replays
      /\ con'[p].at = c.at /\ con'[p].upto = c.upto
  BY <1>1, <1>7 DEF Handlers, SameChannel, SameSnapshot
<1>9. /\ page'[p].changes = {} /\ page'[p].cursor = con[p].head
      /\ page'[p].lastId = page[p].lastId /\ page'[p].url = page[p].url
  BY <1>1, <1>7 DEF ApplyReset, PageStates
<1>10. since'[p].seq = con[p].head /\ since'[p].named = ~con[p].silent
  BY <1>1, <1>2
<1>11. QED
  BY <1>2, <1>7, <1>8, <1>9, <1>10

(* WriteSnapshot: the page takes the graph, and the cursor when it is the   *)
(* lesser one.                                                              *)
LEMMA WriteSnapshotEffect ==
    ASSUME TypeInv, NEW p \in Pages, WriteSnapshot(p)
    PROVE  /\ Alone(p) /\ con[p].pc = "open" /\ SameChannel(p)
           /\ IF con[p].replays
              THEN /\ con'[p].pc = "replay" /\ SameSnapshot(p) /\ con'[p].replays
                   /\ con'[p].at = con[p].at /\ con'[p].upto = con[p].upto
                   /\ con'[p].more = con[p].more
              ELSE /\ con'[p].pc = "live" /\ con'[p].head = 0 /\ con'[p].at = 0
                   /\ con'[p].upto = 0
           /\ page'[p].graph = con[p].snap /\ page'[p].version = con[p].version
           /\ page'[p].lastId = page[p].lastId /\ page'[p].url = page[p].url
           /\ since'[p].named = since[p].named
           /\ IF page[p].cursor = 0 \/ con[p].head < page[p].cursor
              THEN page'[p].cursor = con[p].head /\ since'[p].seq = con[p].head
              ELSE page'[p].cursor = page[p].cursor /\ since'[p].seq = since[p].seq
           /\ page'[p].changes =
                 IF page[p].cursor # 0 /\ con[p].head < page[p].cursor THEN {} ELSE page[p].changes
<1>1. PICK c \in Handlers : c = con[p]
  BY Typed
<1>2. PICK pg \in PageStates : pg = page[p]
  BY Typed
<1>3. since \in [Pages -> Promises]
  BY Typed
<1>4. c.pc = "open" /\ c.head \in Nat /\ c.snap \in Graphs /\ c.version \in Nat /\ c.replays \in BOOLEAN
  BY <1>1, HandlerFields DEF WriteSnapshot
<1>5. PICK d : d = (IF c.replays THEN [c EXCEPT !.pc = "replay"] ELSE Forwards(c))
  OBVIOUS
<1>6. PICK new : new = ApplySnapshot(pg, c.snap, c.version, c.head)
  OBVIOUS
<1>7. /\ Handler(p, d, new)
      /\ since' = IF page[p].cursor = 0 \/ Backwards(page[p], c.head)
                  THEN [since EXCEPT ![p].seq = c.head] ELSE since
  BY <1>1, <1>2, <1>5, <1>6 DEF WriteSnapshot
<1>8. d \in Handlers
  <2>1. [c EXCEPT !.pc = "replay"] \in Handlers
    BY DEF Handlers
  <2>2. QED
    BY <1>5, <2>1, ForwardsEffect
<1>9. /\ d.ch = c.ch /\ d.dropped = c.dropped /\ d.silent = c.silent
      /\ c.replays => /\ d.pc = "replay" /\ d.head = c.head /\ d.snap = c.snap
                      /\ d.version = c.version /\ d.replays = TRUE /\ d.at = c.at
                      /\ d.upto = c.upto /\ d.more = c.more
      /\ ~c.replays => d.pc = "live" /\ d.head = 0 /\ d.at = 0 /\ d.upto = 0
  <2>1. CASE c.replays
    <3>1. d = [c EXCEPT !.pc = "replay"] /\ c.replays = TRUE
      BY <1>4, <1>5, <2>1
    <3>2. QED
      BY <2>1, <3>1 DEF Handlers
  <2>2. CASE ~c.replays
    <3>1. d = Forwards(c)
      BY <1>5, <2>2
    <3>2. QED
      BY <2>2, <3>1, ForwardsEffect
  <2>3. QED
    BY <2>1, <2>2
<1>10. new \in PageStates
  BY <1>4, <1>6, AppliedTyped
<1>11. pg.cursor \in Nat
  BY PageFields
<1>12. /\ new.graph = c.snap /\ new.version = c.version /\ new.lastId = pg.lastId /\ new.url = pg.url
       /\ new.cursor = IF pg.cursor = 0 \/ c.head < pg.cursor THEN c.head ELSE pg.cursor
       /\ new.changes = IF pg.cursor # 0 /\ c.head < pg.cursor THEN {} ELSE pg.changes
  BY <1>6 DEF ApplySnapshot, Backwards, PageStates
<1>13. /\ since' \in [Pages -> Promises] /\ since'[p].named = since[p].named
       /\ since'[p].seq = IF pg.cursor = 0 \/ c.head < pg.cursor THEN c.head ELSE since[p].seq
       /\ \A q \in Pages : q # p => since'[q] = since[q]
  <2>1. Backwards(page[p], c.head) <=> pg.cursor # 0 /\ c.head < pg.cursor
    BY <1>2 DEF Backwards
  <2>2. CASE pg.cursor = 0 \/ c.head < pg.cursor
    <3>1. since' = [since EXCEPT ![p].seq = c.head]
      BY <1>2, <1>7, <2>1, <2>2
    <3>2. QED
      BY <1>3, <1>4, <2>2, <3>1 DEF Promises
  <2>3. CASE ~(pg.cursor = 0 \/ c.head < pg.cursor)
    <3>1. since' = since
      BY <1>2, <1>7, <2>1, <2>3
    <3>2. QED
      BY <1>3, <2>3, <3>1
  <2>4. QED
    BY <2>2, <2>3
<1>14. con'[p] = d /\ page'[p] = new /\ Alone(p)
  BY <1>7, <1>8, <1>10, <1>13, HandlerStep DEF Alone
<1>15. QED
  BY <1>1, <1>2, <1>4, <1>9, <1>12, <1>13, <1>14 DEF SameChannel, SameSnapshot

(* ReplayItem: one event of the log is written if it is shown. *)
LEMMA ReplayItemEffect ==
    ASSUME TypeInv, NEW p \in Pages, ReplayItem(p)
    PROVE  /\ Alone(p) /\ con[p].pc = "replay" /\ con[p].at < con[p].upto /\ con[p].at < con[p].head
           /\ SameChannel(p) /\ SameSnapshot(p) /\ con'[p].pc = "replay"
           /\ con'[p].replays = con[p].replays /\ con'[p].upto = con[p].upto
           /\ con'[p].more = con[p].more
           /\ con'[p].at = con[p].at + 1 /\ since'[p] = since[p]
           /\ page'[p].graph = page[p].graph /\ page'[p].version = page[p].version
           /\ page'[p].url = page[p].url
           /\ IF Shown(con[p].at + 1)
              THEN /\ page'[p].changes = page[p].changes \cup {con[p].at + 1}
                   /\ page'[p].cursor = Max2(page[p].cursor, con[p].at + 1)
                   /\ page'[p].lastId = con[p].at + 1
              ELSE page'[p] = page[p]
<1>1. PICK c \in Handlers : c = con[p]
  BY Typed
<1>2. PICK pg \in PageStates : pg = page[p]
  BY Typed
<1>3. since \in [Pages -> Promises] /\ since' = since
  BY Typed DEF ReplayItem
<1>4. c.pc = "replay" /\ c.at \in Nat /\ c.upto \in Nat /\ c.head \in Nat /\ c.at < ReplayEnd(c)
  BY <1>1, HandlerFields DEF ReplayItem
<1>5. c.at < c.upto /\ c.at < c.head
  BY <1>4 DEF ReplayEnd, Min2
<1>6. PICK i \in Nat : i = c.at + 1
  BY <1>4
<1>7. PICK d : d = [c EXCEPT !.at = i]
  OBVIOUS
<1>8. PICK new : new = IF Shown(i) THEN ApplyChange(pg, i) ELSE pg
  OBVIOUS
<1>9. Handler(p, d, new)
  BY <1>1, <1>2, <1>6, <1>7, <1>8 DEF ReplayItem
<1>10. d \in Handlers
  BY <1>7 DEF Handlers
<1>11. /\ d.pc = "replay" /\ d.ch = c.ch /\ d.dropped = c.dropped /\ d.silent = c.silent
       /\ d.head = c.head /\ d.snap = c.snap /\ d.version = c.version
       /\ d.replays = c.replays /\ d.upto = c.upto /\ d.more = c.more /\ d.at = i
  BY <1>4, <1>7 DEF Handlers
<1>12. new \in PageStates
  BY <1>8, AppliedTyped
<1>13. /\ new.graph = pg.graph /\ new.version = pg.version /\ new.url = pg.url
       /\ Shown(i) => /\ new.changes = pg.changes \cup {i}
                      /\ new.cursor = Max2(pg.cursor, i) /\ new.lastId = i
       /\ ~Shown(i) => new = pg
  <2>1. CASE Shown(i)
    <3>1. new = ApplyChange(pg, i)
      BY <1>8, <2>1
    <3>2. QED
      BY <2>1, <3>1 DEF ApplyChange, PageStates
  <2>2. CASE ~Shown(i)
    BY <1>8, <2>2
  <2>3. QED
    BY <2>1, <2>2
<1>14. con'[p] = d /\ page'[p] = new /\ Alone(p)
  BY <1>3, <1>9, <1>10, <1>12, HandlerStep DEF Alone
<1>15. QED
  BY <1>1, <1>2, <1>3, <1>4, <1>5, <1>6, <1>11, <1>13, <1>14 DEF SameChannel, SameSnapshot

(* ReplayNext: the handler forwards, gives up, or reads the next page of    *)
(* the log.                                                                 *)
LEMMA ReplayNextEffect ==
    ASSUME TypeInv, NEW p \in Pages, ReplayNext(p)
    PROVE  /\ Alone(p) /\ con[p].pc = "replay" /\ SameChannel(p)
           /\ con[p].at >= con[p].upto \/ con[p].at >= con[p].head
           /\ page'[p] = page[p] /\ since'[p] = since[p]
           /\ \/ /\ con'[p].pc = "live" /\ con'[p].head = 0 /\ con'[p].at = 0 /\ con'[p].upto = 0
                 /\ ~con[p].more \/ con[p].upto >= con[p].head
              \/ /\ con'[p].pc = "reset" /\ SameSnapshot(p) /\ ~con'[p].replays
                 /\ con'[p].at = 0 /\ con'[p].upto = 0
              \/ /\ con'[p].pc = "replay" /\ SameSnapshot(p) /\ con'[p].replays = con[p].replays
                 /\ con'[p].at = con[p].at /\ con'[p].upto = PageEnd(con[p].upto)
                 /\ \E head \in con[p].head..Head0 : con'[p].more = More(con[p].upto, head)
<1>1. PICK c \in Handlers : c = con[p]
  BY Typed
<1>2. page[p] \in PageStates /\ since \in [Pages -> Promises] /\ since' = since
  BY Typed DEF ReplayNext
<1>3. /\ c.pc = "replay" /\ c.at >= ReplayEnd(c) /\ c.at \in Nat /\ c.upto \in Nat /\ c.head \in Nat
  BY <1>1, HandlerFields DEF ReplayNext
<1>4. c.at >= c.upto \/ c.at >= c.head
  BY <1>3 DEF ReplayEnd, Min2
<1>5. CASE (~c.more \/ c.upto >= c.head) /\ Handler(p, Forwards(c), page[p])
  <2>1. PICK d \in Handlers : d = Forwards(c)
    BY ForwardsEffect
  <2>2. con'[p] = d /\ page'[p] = page[p] /\ Alone(p)
    BY <1>2, <1>5, <2>1, HandlerStep DEF Alone
  <2>3. /\ d.pc = "live" /\ d.ch = c.ch /\ d.dropped = c.dropped /\ d.silent = c.silent
        /\ d.head = 0 /\ d.at = 0 /\ d.upto = 0
    BY <2>1, ForwardsEffect
  <2>4. QED
    BY <1>1, <1>2, <1>3, <1>4, <1>5, <2>2, <2>3 DEF SameChannel
<1>6. CASE Handler(p, Reset(c), page[p])
  <2>1. PICK d \in Handlers : d = Reset(c)
    BY ResetEffect
  <2>2. con'[p] = d /\ page'[p] = page[p] /\ Alone(p)
    BY <1>2, <1>6, <2>1, HandlerStep DEF Alone
  <2>3. /\ d.pc = "reset" /\ d.ch = c.ch /\ d.dropped = c.dropped /\ d.silent = c.silent
        /\ d.head = c.head /\ d.snap = c.snap /\ d.version = c.version /\ d.replays = FALSE
        /\ d.at = 0 /\ d.upto = 0
    BY <2>1, ResetEffect
  <2>4. QED
    BY <1>1, <1>2, <1>3, <1>4, <2>2, <2>3 DEF SameChannel, SameSnapshot
<1>7. ASSUME NEW head \in c.head..Head0,
             Handler(p, [c EXCEPT !.pages = @ + 1, !.upto = PageEnd(c.upto),
                                  !.more = More(c.upto, head)], page[p])
      PROVE  /\ Alone(p) /\ SameChannel(p) /\ SameSnapshot(p) /\ page'[p] = page[p]
             /\ con'[p].pc = "replay" /\ con'[p].replays = c.replays /\ con'[p].at = c.at
             /\ con'[p].upto = PageEnd(c.upto) /\ con'[p].more = More(c.upto, head)
  <2>1. PICK upto \in Nat, more \in BOOLEAN : upto = PageEnd(c.upto) /\ more = More(c.upto, head)
    <3>1. PageEnd(c.upto) \in Nat
      BY <1>3, PageEndTyped
    <3>2. More(c.upto, head) \in BOOLEAN
      BY DEF More
    <3>3. QED
      BY <3>1, <3>2
  <2>2. PICK pages \in Nat : pages = c.pages + 1
    BY HandlerFields
  <2>3. PICK d : d = [c EXCEPT !.pages = pages, !.upto = upto, !.more = more]
    OBVIOUS
  <2>4. Handler(p, d, page[p])
    BY <1>7, <2>1, <2>2, <2>3
  <2>5. d \in Handlers
    BY <2>3 DEF Handlers
  <2>6. con'[p] = d /\ page'[p] = page[p] /\ Alone(p)
    BY <1>2, <2>4, <2>5, HandlerStep DEF Alone
  <2>7. /\ d.pc = c.pc /\ d.ch = c.ch /\ d.dropped = c.dropped /\ d.silent = c.silent
        /\ d.head = c.head /\ d.snap = c.snap /\ d.version = c.version /\ d.replays = c.replays
        /\ d.at = c.at /\ d.upto = upto /\ d.more = more
    BY <2>3 DEF Handlers
  <2>8. QED
    BY <1>1, <1>3, <2>1, <2>6, <2>7 DEF SameChannel, SameSnapshot
<1>8. \/ (~c.more \/ c.upto >= c.head) /\ Handler(p, Forwards(c), page[p])
      \/ Handler(p, Reset(c), page[p])
      \/ \E head \in c.head..Head0 :
           Handler(p, [c EXCEPT !.pages = @ + 1, !.upto = PageEnd(c.upto),
                                !.more = More(c.upto, head)], page[p])
  BY <1>1 DEF ReplayNext
<1>9. CASE \E head \in c.head..Head0 :
             Handler(p, [c EXCEPT !.pages = @ + 1, !.upto = PageEnd(c.upto),
                                  !.more = More(c.upto, head)], page[p])
  <2>1. PICK head \in c.head..Head0 :
             Handler(p, [c EXCEPT !.pages = @ + 1, !.upto = PageEnd(c.upto),
                                  !.more = More(c.upto, head)], page[p])
    BY <1>9
  <2>2. QED
    BY <1>1, <1>2, <1>3, <1>4, <1>7, <2>1
<1>10. QED
  BY <1>5, <1>6, <1>8, <1>9

(* ReplayFails: the handler gives up. *)
LEMMA ReplayFailsEffect ==
    ASSUME TypeInv, NEW p \in Pages, ReplayFails(p)
    PROVE  /\ Alone(p) /\ con[p].pc \in {"probe", "replay"} /\ SameChannel(p) /\ SameSnapshot(p)
           /\ con'[p].pc = "reset" /\ ~con'[p].replays /\ con'[p].at = 0 /\ con'[p].upto = 0
           /\ page'[p] = page[p] /\ since'[p] = since[p]
<1>1. PICK c \in Handlers : c = con[p]
  BY Typed
<1>2. page[p] \in PageStates /\ since \in [Pages -> Promises] /\ since' = since
  BY Typed DEF ReplayFails
<1>3. PICK d \in Handlers : d = Reset(c)
  BY ResetEffect
<1>4. Handler(p, d, page[p]) /\ c.pc \in {"probe", "replay"}
  BY <1>1, <1>3 DEF ReplayFails
<1>5. con'[p] = d /\ page'[p] = page[p] /\ Alone(p)
  BY <1>2, <1>4, HandlerStep DEF Alone
<1>6. /\ d.pc = "reset" /\ d.ch = c.ch /\ d.dropped = c.dropped /\ d.silent = c.silent
      /\ d.head = c.head /\ d.snap = c.snap /\ d.version = c.version /\ d.replays = FALSE
      /\ d.at = 0 /\ d.upto = 0
  BY <1>3, ResetEffect
<1>7. QED
  BY <1>1, <1>2, <1>4, <1>5, <1>6 DEF SameChannel, SameSnapshot

(* What a handler that only forwards does with the first message. *)
LEMMA LiveEffect ==
    ASSUME TypeInv, NEW p \in Pages, Live(p)
    PROVE  /\ Alone(p) /\ con[p].pc = "live" /\ con[p].ch # << >>
           /\ con'[p].ch = Tail(con[p].ch) /\ con'[p].dropped = con[p].dropped
           /\ since'[p] = since[p]
           /\ page'[p].url = page[p].url
           /\ \/ /\ IsChange(con[p].ch, 1) /\ con'[p].pc = "live"
                 /\ con'[p].head = con[p].head /\ con'[p].at = con[p].at
                 /\ con'[p].upto = con[p].upto /\ con'[p].silent = con[p].silent
                 /\ page'[p].changes = page[p].changes \cup {con[p].ch[1].seq}
                 /\ page'[p].cursor = Max2(page[p].cursor, con[p].ch[1].seq)
                 /\ page'[p].lastId = con[p].ch[1].seq
                 /\ page'[p].graph = page[p].graph /\ page'[p].version = page[p].version
              \/ /\ IsDelta(con[p].ch, 1) /\ con'[p].pc = "live"
                 /\ con'[p].head = con[p].head /\ con'[p].at = con[p].at
                 /\ con'[p].upto = con[p].upto /\ con'[p].silent = con[p].silent
                 /\ page'[p].changes = page[p].changes /\ page'[p].cursor = page[p].cursor
                 /\ page'[p].lastId = page[p].lastId
                 /\ page'[p].version = IF con[p].ch[1].version > page[p].version
                                       THEN con[p].ch[1].version ELSE page[p].version
                 /\ \A n \in Nodes :
                      page'[p].graph[n] =
                         IF con[p].ch[1].version > page[p].version /\ n \in DOMAIN con[p].ch[1].set
                         THEN con[p].ch[1].set[n] ELSE page[p].graph[n]
              \/ /\ IsReset(con[p].ch, 1) /\ con'[p].pc = "reset" /\ HubFree
                 /\ con'[p].head = con[p].ch[1].head /\ con'[p].at = 0 /\ con'[p].upto = 0
                 /\ con'[p].snap = hub.snap /\ con'[p].version = hub.version
                 /\ ~con'[p].silent /\ ~con'[p].replays /\ page'[p] = page[p]
<1>1. PICK c \in Handlers : c = con[p]
  BY Typed
<1>2. PICK pg \in PageStates : pg = page[p]
  BY Typed
<1>3. since \in [Pages -> Promises] /\ since' = since
  BY Typed DEF Live
<1>4. c.pc = "live" /\ c.ch # << >> /\ c.ch \in Seq(Messages)
  BY <1>1, HandlerFields DEF Live
<1>5. PICK m \in Messages : m = Head(c.ch) /\ m = c.ch[1]
  BY <1>4, Taken
<1>6. PICK ch \in Seq(Messages) : ch = Tail(c.ch)
  BY <1>4, Taken
<1>7. PICK rest : rest = [c EXCEPT !.ch = ch]
  OBVIOUS
<1>8. rest \in Handlers
  BY <1>7 DEF Handlers
<1>9. /\ rest.pc = c.pc /\ rest.ch = ch /\ rest.dropped = c.dropped /\ rest.silent = c.silent
      /\ rest.head = c.head /\ rest.at = c.at /\ rest.upto = c.upto
  BY <1>7 DEF Handlers
<1>10. m.is \in {"change", "reset", "delta"}
  BY MessageFields
<1>11. rest = [c EXCEPT !.ch = Tail(@)]
  BY <1>6, <1>7
<1>12. CASE m.is = "change"
  <2>1. PICK new : new = ApplyChange(pg, m.seq)
    OBVIOUS
  <2>2. Handler(p, rest, new)
    BY <1>1, <1>2, <1>5, <1>11, <1>12, <2>1 DEF Live
  <2>3. m.seq \in Nat
    BY <1>12, MessageFields
  <2>4. new \in PageStates
    BY <2>1, <2>3, AppliedTyped
  <2>5. /\ new.changes = pg.changes \cup {m.seq} /\ new.cursor = Max2(pg.cursor, m.seq)
        /\ new.lastId = m.seq /\ new.graph = pg.graph /\ new.version = pg.version
        /\ new.url = pg.url
    BY <2>1 DEF ApplyChange, PageStates
  <2>6. con'[p] = rest /\ page'[p] = new /\ Alone(p)
    BY <1>3, <1>8, <2>2, <2>4, HandlerStep DEF Alone
  <2>7. QED
    BY <1>1, <1>2, <1>3, <1>4, <1>5, <1>6, <1>9, <1>12, <2>5, <2>6 DEF IsChange
<1>13. CASE m.is = "delta"
  <2>1. PICK new : new = ApplyDelta(pg, m)
    OBVIOUS
  <2>2. Handler(p, rest, new)
    BY <1>1, <1>2, <1>5, <1>11, <1>13, <2>1 DEF Live
  <2>3. m \in GraphDeltas /\ m.version \in Nat /\ pg.version \in Nat
    BY <1>13, PageFields DEF Messages, Changes, Resets, GraphDeltas
  <2>4. new \in PageStates
    BY <2>1, <2>3, AppliedTyped
  <2>5. /\ new.changes = pg.changes /\ new.cursor = pg.cursor /\ new.lastId = pg.lastId
        /\ new.url = pg.url
        /\ new.version = IF m.version > pg.version THEN m.version ELSE pg.version
        /\ \A n \in Nodes :
             new.graph[n] = IF m.version > pg.version /\ n \in DOMAIN m.set
                            THEN m.set[n] ELSE pg.graph[n]
    <3>1. CASE m.version <= pg.version
      <4>1. new = pg /\ ~(m.version > pg.version)
        BY <2>1, <2>3, <3>1 DEF ApplyDelta
      <4>2. QED
        BY <4>1
    <3>2. CASE ~(m.version <= pg.version)
      <4>1. m.version > pg.version
        BY <2>3, <3>2
      <4>2. PICK g : g = [n \in Nodes |-> IF n \in DOMAIN m.set THEN m.set[n] ELSE pg.graph[n]]
        OBVIOUS
      <4>3. new = [pg EXCEPT !.version = m.version, !.graph = g]
        BY <2>1, <3>2, <4>2 DEF ApplyDelta, PageStates
      <4>4. /\ new.changes = pg.changes /\ new.cursor = pg.cursor /\ new.lastId = pg.lastId
            /\ new.url = pg.url /\ new.version = m.version /\ new.graph = g
        BY <4>3 DEF PageStates
      <4>5. QED
        BY <4>1, <4>2, <4>4
    <3>3. QED
      BY <3>1, <3>2
  <2>6. con'[p] = rest /\ page'[p] = new /\ Alone(p)
    BY <1>3, <1>8, <2>2, <2>4, HandlerStep DEF Alone
  <2>7. QED
    BY <1>1, <1>2, <1>3, <1>4, <1>5, <1>6, <1>9, <1>13, <2>5, <2>6 DEF IsDelta
<1>14. CASE m.is = "reset"
  <2>1. PICK d : d = [rest EXCEPT !.head = m.head, !.snap = hub.snap,
                                  !.version = hub.version, !.silent = FALSE]
    OBVIOUS
  <2>2. HubFree /\ Handler(p, Reset(d), page[p])
    <3>1. d = [[con[p] EXCEPT !.ch = Tail(@)] EXCEPT !.head = Head(con[p].ch).head,
                    !.snap = hub.snap, !.version = hub.version, !.silent = FALSE]
      BY <1>1, <1>5, <1>11, <2>1
    <3>2. Head(con[p].ch).is = "reset"
      BY <1>1, <1>5, <1>14
    <3>3. QED
      BY <3>1, <3>2 DEF Live
  <2>3. m.head \in Nat /\ hub.snap \in Graphs /\ hub.version \in Nat
    BY <1>14, MessageFields, Typed
  <2>4. d \in Handlers
    BY <1>8, <2>1, <2>3 DEF Handlers
  <2>5. /\ d.ch = ch /\ d.dropped = c.dropped /\ d.silent = FALSE /\ d.head = m.head
        /\ d.snap = hub.snap /\ d.version = hub.version
    BY <1>8, <1>9, <2>1 DEF Handlers
  <2>6. PICK e \in Handlers : e = Reset(d)
    BY <2>4, ResetEffect
  <2>7. /\ e.pc = "reset" /\ e.ch = ch /\ e.dropped = c.dropped /\ e.silent = FALSE
        /\ e.head = m.head /\ e.snap = hub.snap /\ e.version = hub.version /\ e.replays = FALSE
        /\ e.at = 0 /\ e.upto = 0
    BY <2>4, <2>5, <2>6, ResetEffect
  <2>8. con'[p] = e /\ page'[p] = page[p] /\ Alone(p)
    BY <1>2, <1>3, <2>2, <2>6, HandlerStep DEF Alone
  <2>9. QED
    BY <1>1, <1>3, <1>4, <1>5, <1>6, <1>14, <2>2, <2>7, <2>8 DEF IsReset
<1>15. QED
  BY <1>10, <1>12, <1>13, <1>14

(* A page that is cut off, or whose connection breaks, has no handler. *)
LEMMA OffEffect ==
    ASSUME TypeInv, NEW p \in Pages, CutOff(p) \/ Break(p)
    PROVE  Alone(p) /\ con'[p] = Off /\ page'[p] = page[p] /\ since'[p] = since[p]
<1>1. Handler(p, Off, page[p]) /\ since' = since
  BY DEF CutOff, Break
<1>2. QED
  BY <1>1, HandlerStep, OffTyped, Typed DEF Alone

(* The types hold in every step. *)
LEMMA TypeStep ==
    ASSUME TypeInv, PollInv, \A p \in Pages : Len(con[p].ch) <= Buffer, [Next]_vars
    PROVE  TypeInv'
<1>1. CASE \/ \E kind \in Kinds : Commit(kind)
           \/ Prune \/ Tick \/ LateHead \/ FeedFails \/ ReadFails \/ FeedPruned
           \/ \E due \in BOOLEAN : FeedPage(due)
           \/ ReadGraph \/ SendDelta \/ PublishItem \/ PublishDone
           \/ \E asked, read \in BOOLEAN : Restart(asked, read)
  BY <1>1, PollerTyped
<1>2. ASSUME NEW p \in Pages,
             \/ Stream(p) \/ ReplayFails(p) \/ Break(p)
             \/ \E reopens \in BOOLEAN : Connect(p, reopens)
      PROVE  TypeInv'
  <2>1. Alone(p)
    BY <1>2, ConnectEffect, ProbeEffect, WriteResetEffect, WriteSnapshotEffect,
       ReplayItemEffect, ReplayNextEffect, ReplayFailsEffect, LiveEffect, OffEffect DEF Stream
  <2>2. QED
    BY <2>1, AloneTyped
<1>3. CASE UNCHANGED vars
  BY <1>3 DEF vars, TypeInv, Head0
<1>4. QED
  BY <1>1, <1>2, <1>3 DEF Next, Poller

-----------------------------------------------------------------------------
(* The poller's steps *)

(* What a step that sends nothing leaves as it is: the pages and their      *)
(* channels, the frontier, and whether the poller knows the head.           *)
Resting ==
    /\ con' = con /\ page' = page /\ since' = since /\ Frontier' = Frontier
    /\ poll'.cursor < 0 <=> poll.cursor < 0
    /\ log' = log \/ \E kind : log' = Append(log, kind)
    /\ Head0 <= Head0'

(* What one that reads no graph leaves as it is: the hub's graph, and the   *)
(* difference that is still to be broadcast.                                *)
GraphResting ==
    /\ hub'.snap = hub.snap /\ hub'.version = hub.version
    /\ poll'.pc = "delta" <=> poll.pc = "delta"
    /\ poll.pc = "delta" => poll'.delta = poll.delta

(* The fields of what the poller becomes. *)
LEMMA IdleFields ==
    ASSUME NEW k
    PROVE  /\ Idle(k).pc = "idle" /\ Idle(k).cursor = k /\ Idle(k).upto = NoBatch
           /\ Idle(k).next = 0 /\ Idle(k).seen = 0 /\ Idle(k).delta = NoDelta
BY DEF Idle

(* What is committed or pruned is not sent yet. *)
LEMMA LogSteps ==
    ASSUME TypeInv, PollInv, \/ \E kind \in Kinds : Commit(kind)
                             \/ Prune
    PROVE  Resting /\ GraphResting /\ PollInv'
<1>1. Head0 \in Nat /\ poll.cursor \in Int /\ poll.upto \in Int /\ hub.cursor \in Nat
  BY Typed
<1>2. /\ con' = con /\ page' = page /\ since' = since /\ poll' = poll /\ hub' = hub
      /\ log' = log \/ \E kind : log' = Append(log, kind)
  BY DEF Commit, Prune
<1>3. Head0 <= Head0' /\ Head0' \in Nat
  BY <1>1, <1>2, Typed DEF Head0
<1>4. Resting /\ GraphResting
  BY <1>2, <1>3 DEF Resting, GraphResting, Frontier
<1>5. PollInv'
  BY <1>1, <1>2, <1>3 DEF PollInv, Max2
<1>6. QED
  BY <1>4, <1>5

(* A tick that begins, and one that fails, sends nothing. *)
LEMMA TickSteps ==
    ASSUME TypeInv, PollInv, Tick \/ FeedFails \/ ReadFails
    PROVE  Resting /\ GraphResting /\ PollInv'
<1>1. /\ Head0 \in Nat /\ poll.cursor \in Int /\ poll.upto \in Int /\ hub.cursor \in Nat
      /\ poll \in PollStates
  BY Typed
<1>2. con' = con /\ page' = page /\ since' = since /\ log' = log /\ hub' = hub /\ Head0' = Head0
  BY DEF Tick, FeedFails, ReadFails, Head0
<1>3. CASE Tick
  <2>1. /\ poll.pc = "idle" /\ poll'.cursor = poll.cursor /\ poll'.upto = poll.cursor
        /\ poll'.pc = IF poll.cursor < 0 THEN "head" ELSE "feed"
        /\ poll'.seen = Head0
    BY <1>1, <1>3 DEF Tick, PollStates
  <2>2. Resting /\ GraphResting
    BY <1>1, <1>2, <2>1 DEF Resting, GraphResting, Frontier
  <2>3. PollInv'
    BY <1>1, <1>2, <2>1 DEF PollInv, Max2
  <2>4. QED
    BY <2>2, <2>3
<1>4. CASE FeedFails
  <2>1. poll.pc \in {"head", "feed"} /\ poll' = [Idle(poll.cursor) EXCEPT !.pc = "graph"]
    BY <1>4 DEF FeedFails
  <2>2. poll'.pc = "graph" /\ poll'.cursor = poll.cursor /\ poll'.upto = NoBatch
    BY <2>1 DEF Idle
  <2>3. Resting /\ GraphResting
    BY <1>1, <1>2, <2>1, <2>2 DEF Resting, GraphResting, Frontier
  <2>4. PollInv'
    BY <1>1, <1>2, <2>1, <2>2 DEF PollInv, Max2
  <2>5. QED
    BY <2>3, <2>4
<1>5. CASE ReadFails
  <2>1. poll.pc = "graph" /\ poll' = Idle(poll.cursor)
    BY <1>5 DEF ReadFails, BatchKept
  <2>2. poll'.pc = "idle" /\ poll'.cursor = poll.cursor
    BY <2>1, IdleFields
  <2>3. Resting /\ GraphResting
    BY <1>1, <1>2, <2>1, <2>2 DEF Resting, GraphResting, Frontier
  <2>4. PollInv'
    BY <1>1, <1>2, <2>1, <2>2 DEF PollInv, Max2
  <2>5. QED
    BY <2>3, <2>4
<1>6. QED
  BY <1>3, <1>4, <1>5

(* Reading a page of the feed sends nothing; a batch begins after the       *)
(* cursor.                                                                  *)
LEMMA FeedPageStep ==
    ASSUME TypeInv, PollInv, NEW due \in BOOLEAN, FeedPage(due)
    PROVE  Resting /\ GraphResting /\ PollInv'
<1>1. /\ Head0 \in Nat /\ poll.cursor \in Int /\ poll.upto \in Int /\ hub.cursor \in Nat
      /\ poll \in PollStates /\ poll.seen \in Nat
  BY Typed
<1>2. con' = con /\ page' = page /\ since' = since /\ log' = log /\ hub' = hub /\ Head0' = Head0
  BY DEF FeedPage, Head0
<1>3. poll.pc = "feed"
  BY DEF FeedPage
<1>4. /\ 0 <= poll.cursor /\ poll.cursor <= poll.upto /\ poll.upto <= Head0
      /\ hub.cursor = poll.cursor
  BY <1>1, <1>3 DEF PollInv, Max2
<1>5. PICK end \in Nat : end = PageEnd(poll.upto) /\ poll.upto <= end /\ end <= Head0
  BY <1>1, <1>4, PageEndTyped
<1>6. /\ poll'.cursor = poll.cursor /\ poll'.upto = end /\ poll'.next = poll.cursor + 1
      /\ poll'.pc \in {"feed", "graph", "publish"}
      /\ poll'.pc = "feed" => poll'.seen = Head0
  <2>1. PICK head \in poll.seen..Head0 :
            poll' = [poll EXCEPT
                      !.upto = end,
                      !.pages = IF More(poll.upto, head) /\ poll.pages + 1 < BatchPages THEN @ + 1 ELSE 0,
                      !.seen = IF More(poll.upto, head) /\ poll.pages + 1 < BatchPages THEN Head0 ELSE 0,
                      !.next = poll.cursor + 1,
                      !.pc = IF More(poll.upto, head) /\ poll.pages + 1 < BatchPages THEN "feed"
                             ELSE IF due \/ Structural(poll.cursor, end) THEN "graph"
                             ELSE "publish"]
    BY <1>5 DEF FeedPage
  <2>2. PICK again, seen, pages, next, pc :
          /\ poll' = [poll EXCEPT !.upto = end, !.pages = pages, !.seen = seen,
                                  !.next = next, !.pc = pc]
          /\ again = (More(poll.upto, head) /\ poll.pages + 1 < BatchPages)
          /\ seen = IF again THEN Head0 ELSE 0
          /\ next = poll.cursor + 1
          /\ pc = IF again THEN "feed"
                  ELSE IF due \/ Structural(poll.cursor, end) THEN "graph" ELSE "publish"
    BY <2>1
  <2>3. /\ poll'.cursor = poll.cursor /\ poll'.upto = end /\ poll'.next = next
        /\ poll'.pc = pc /\ poll'.seen = seen
    BY <1>1, <2>2 DEF PollStates
  <2>4. pc \in {"feed", "graph", "publish"} /\ (pc = "feed" => seen = Head0)
    BY <2>2
  <2>5. QED
    BY <2>2, <2>3, <2>4
<1>7. Resting /\ GraphResting
  BY <1>1, <1>2, <1>3, <1>4, <1>6 DEF Resting, GraphResting, Frontier
<1>8. PollInv'
  BY <1>1, <1>2, <1>4, <1>5, <1>6 DEF PollInv, Max2
<1>9. QED
  BY <1>7, <1>8

(* The cursor moves to where the frontier has come to. *)
LEMMA PublishDoneStep ==
    ASSUME TypeInv, PollInv, PublishDone
    PROVE  Resting /\ GraphResting /\ PollInv'
<1>1. /\ Head0 \in Nat /\ poll.cursor \in Int /\ poll.upto \in Int /\ hub.cursor \in Nat
      /\ hub \in Hubs /\ poll.next \in Nat
  BY Typed
<1>2. con' = con /\ page' = page /\ since' = since /\ log' = log /\ Head0' = Head0
  BY DEF PublishDone, Head0
<1>3. /\ poll.pc = "publish" /\ poll.next > poll.upto
      /\ hub' = [hub EXCEPT !.cursor = Max2(@, poll.upto)] /\ poll' = Idle(poll.upto)
  BY DEF PublishDone
<1>4. /\ 0 <= poll.cursor /\ poll.cursor <= poll.upto /\ poll.upto <= Head0
      /\ hub.cursor = poll.cursor /\ poll.next = poll.upto + 1
  BY <1>1, <1>3 DEF PollInv, Max2
<1>5. hub'.cursor = poll.upto /\ hub'.snap = hub.snap /\ hub'.version = hub.version
  BY <1>1, <1>3, <1>4 DEF Hubs, Max2
<1>6. poll'.pc = "idle" /\ poll'.cursor = poll.upto
  BY <1>3, IdleFields
<1>7. Resting /\ GraphResting
  BY <1>1, <1>2, <1>3, <1>4, <1>5, <1>6 DEF Resting, GraphResting, Frontier
<1>8. PollInv'
  BY <1>1, <1>2, <1>4, <1>5, <1>6 DEF PollInv, Max2
<1>9. QED
  BY <1>7, <1>8

(* A reading of the graph sends nothing: the hub takes the new graph, and   *)
(* what differs is still to be broadcast.                                   *)
LEMMA ReadGraphStep ==
    ASSUME TypeInv, PollInv, ReadGraph
    PROVE  /\ Resting /\ PollInv' /\ poll.pc = "graph"
           /\ \/ GraphResting
              \/ /\ poll'.pc = "delta" /\ hub'.version = hub.version + 1
                 /\ \A n \in Nodes : n \notin DOMAIN poll'.delta => hub'.snap[n] = hub.snap[n]
<1>1. /\ Head0 \in Nat /\ poll.cursor \in Int /\ poll.upto \in Int /\ hub.cursor \in Nat
      /\ hub \in Hubs /\ poll \in PollStates /\ poll.next \in Nat /\ hub.snap \in Graphs
  BY Typed
<1>2. con' = con /\ page' = page /\ since' = since /\ log' = log /\ Head0' = Head0
  BY DEF ReadGraph, Head0
<1>3. poll.pc = "graph"
  BY DEF ReadGraph
<1>4. CASE Graph = hub.snap
  <2>1. hub' = hub /\ poll' = AfterGraph
    BY <1>4 DEF ReadGraph
  <2>2. CASE poll.upto = NoBatch
    <3>1. poll' = Idle(poll.cursor)
      BY <2>1, <2>2 DEF AfterGraph
    <3>2. poll'.pc = "idle" /\ poll'.cursor = poll.cursor
      BY <3>1, IdleFields
    <3>3. Resting /\ GraphResting
      BY <1>1, <1>2, <1>3, <2>1, <3>2 DEF Resting, GraphResting, Frontier
    <3>4. PollInv'
      BY <1>1, <1>2, <1>3, <2>1, <3>2 DEF PollInv, Max2
    <3>5. QED
      BY <1>3, <3>3, <3>4
  <2>3. CASE poll.upto # NoBatch
    <3>1. poll' = [poll EXCEPT !.pc = "publish"]
      BY <2>1, <2>3 DEF AfterGraph
    <3>2. /\ poll'.pc = "publish" /\ poll'.cursor = poll.cursor /\ poll'.upto = poll.upto
          /\ poll'.next = poll.next
      BY <1>1, <3>1 DEF PollStates
    <3>3. /\ 0 <= poll.cursor /\ poll.cursor <= poll.upto /\ poll.upto <= Head0
          /\ poll.next = poll.cursor + 1 /\ hub.cursor = poll.cursor
      BY <1>1, <1>3, <2>3 DEF PollInv, Max2
    <3>4. Resting /\ GraphResting
      BY <1>1, <1>2, <1>3, <2>1, <3>2, <3>3 DEF Resting, GraphResting, Frontier
    <3>5. PollInv'
      BY <1>1, <1>2, <1>3, <2>1, <3>2, <3>3 DEF PollInv, Max2
    <3>6. QED
      BY <1>3, <3>4, <3>5
  <2>4. QED
    BY <2>2, <2>3
<1>5. CASE Graph # hub.snap
  <2>1. PICK g \in Graphs : g = Graph
    BY GraphNow
  <2>2. PICK d : d = Diff(hub.snap, g)
    OBVIOUS
  <2>3. poll' = [poll EXCEPT !.pc = "delta", !.delta = d]
    BY <1>5, <2>1, <2>2 DEF ReadGraph
  <2>4. hub' = [hub EXCEPT !.snap = g, !.version = @ + 1]
    BY <1>5, <2>1 DEF ReadGraph
  <2>5. /\ poll'.pc = "delta" /\ poll'.cursor = poll.cursor /\ poll'.upto = poll.upto
        /\ poll'.next = poll.next /\ poll'.delta = d
    BY <1>1, <2>3 DEF PollStates
  <2>6. hub'.cursor = hub.cursor /\ hub'.snap = g /\ hub'.version = hub.version + 1
    BY <1>1, <2>4 DEF Hubs
  <2>7. Resting
    BY <1>1, <1>2, <1>3, <2>5, <2>6 DEF Resting, Frontier
  <2>8. /\ \A n \in DOMAIN d : d[n] = g[n]
        /\ \A n \in Nodes : n \notin DOMAIN d => g[n] = hub.snap[n]
    BY <1>1, <2>1, <2>2, DiffTyped
  <2>9. PollInv'
    BY <1>1, <1>2, <1>3, <2>5, <2>6, <2>8 DEF PollInv, Max2
  <2>10. QED
    BY <1>3, <2>5, <2>6, <2>7, <2>8, <2>9
<1>6. QED
  BY <1>4, <1>5

(* A broadcast of m: what follows the frontier, and, unless it is a         *)
(* difference of graphs, is sent by a poller that knows the head.           *)
Sending(m) ==
    /\ m \in Messages /\ \A p \in Pages : con'[p] = Send(con[p], m)
    /\ page' = page /\ since' = since /\ log' = log
    /\ Follows(m, Frontier, Frontier')
    /\ \/ m.is = "delta" /\ (poll'.cursor < 0 <=> poll.cursor < 0)
       \/ poll.cursor >= 0 /\ poll'.cursor >= 0

(* A poller that was overtaken sends a reset, and the frontier moves to the *)
(* head.                                                                    *)
LEMMA FeedPrunedStep ==
    ASSUME TypeInv, PollInv, FeedPruned
    PROVE  GraphResting /\ PollInv' /\ \E m : m.is # "delta" /\ Sending(m)
<1>1. /\ Head0 \in Nat /\ poll.cursor \in Int /\ poll.upto \in Int /\ hub.cursor \in Nat
      /\ hub \in Hubs /\ poll.seen \in Nat
  BY Typed
<1>2. PICK head \in poll.seen..Head0 :
        /\ Broadcast([is |-> "reset", head |-> head])
        /\ hub' = [hub EXCEPT !.cursor = Max2(@, head)]
        /\ poll' = [Idle(head) EXCEPT !.pc = "graph"]
  BY DEF FeedPruned
<1>3. /\ poll.pc = "feed" /\ page' = page /\ since' = since /\ log' = log /\ Head0' = Head0
  BY DEF FeedPruned, Head0
<1>4. /\ 0 <= poll.cursor /\ poll.cursor <= poll.seen /\ hub.cursor = poll.cursor
      /\ head \in Nat /\ poll.cursor <= head /\ head <= Head0
  BY <1>1, <1>3 DEF PollInv, Max2
<1>5. hub'.cursor = head /\ hub'.snap = hub.snap /\ hub'.version = hub.version
  BY <1>1, <1>2, <1>4 DEF Hubs, Max2
<1>6. poll'.pc = "graph" /\ poll'.cursor = head /\ poll'.upto = NoBatch
  BY <1>2 DEF Idle
<1>7. PICK m : m = [is |-> "reset", head |-> head]
  OBVIOUS
<1>8. m \in Messages /\ m.is = "reset" /\ m.head = head
  BY <1>4, <1>7 DEF Messages, Resets
<1>9. \A p \in Pages : con'[p] = Send(con[p], m)
  BY <1>2, <1>7 DEF Broadcast
<1>10. Follows(m, Frontier, Frontier')
  BY <1>1, <1>3, <1>4, <1>5, <1>6, <1>8 DEF Follows, Frontier
<1>11. Sending(m)
  BY <1>1, <1>3, <1>4, <1>6, <1>8, <1>9, <1>10 DEF Sending
<1>12. GraphResting
  BY <1>3, <1>5, <1>6 DEF GraphResting
<1>13. PollInv'
  BY <1>1, <1>3, <1>4, <1>5, <1>6 DEF PollInv, Max2, NoBatch
<1>14. QED
  BY <1>8, <1>11, <1>12, <1>13

(* The difference that was read is sent, and is no longer to come. *)
LEMMA SendDeltaStep ==
    ASSUME TypeInv, PollInv, SendDelta
    PROVE  /\ PollInv' /\ poll.pc = "delta" /\ poll'.pc # "delta"
           /\ hub' = hub
           /\ \E m : /\ Sending(m) /\ m.is = "delta" /\ m.version = hub.version
                     /\ m.set = poll.delta
<1>1. /\ Head0 \in Nat /\ poll.cursor \in Int /\ poll.upto \in Int /\ hub.cursor \in Nat
      /\ hub.version \in Nat /\ poll.delta \in Deltas /\ poll \in PollStates /\ poll.next \in Nat
  BY Typed
<1>2. PICK m : m = [is |-> "delta", version |-> hub.version, set |-> poll.delta]
  OBVIOUS
<1>3. /\ poll.pc = "delta" /\ Broadcast(m) /\ poll' = [AfterGraph EXCEPT !.delta = NoDelta]
      /\ page' = page /\ since' = since /\ log' = log /\ hub' = hub /\ Head0' = Head0
  BY <1>2 DEF SendDelta, Head0
<1>4. m \in Messages /\ m.is = "delta" /\ m.version = hub.version /\ m.set = poll.delta
  BY <1>1, <1>2 DEF Messages, GraphDeltas
<1>5. \A p \in Pages : con'[p] = Send(con[p], m)
  BY <1>3 DEF Broadcast
<1>6. poll'.cursor = poll.cursor /\ poll'.pc # "delta" /\ PollInv' /\ Frontier' = Frontier
  <2>1. CASE poll.upto = NoBatch
    <3>1. AfterGraph = Idle(poll.cursor)
      BY <2>1 DEF AfterGraph
    <3>2. poll'.pc = "idle" /\ poll'.cursor = poll.cursor
      BY <1>3, <3>1 DEF Idle
    <3>3. PollInv'
      BY <1>1, <1>3, <3>2 DEF PollInv, Max2
    <3>4. QED
      BY <1>3, <3>2, <3>3 DEF Frontier
  <2>2. CASE poll.upto # NoBatch
    <3>1. AfterGraph = [poll EXCEPT !.pc = "publish"]
      BY <2>2 DEF AfterGraph
    <3>2. poll' = [poll EXCEPT !.pc = "publish", !.delta = NoDelta]
      BY <1>3, <3>1
    <3>3. /\ poll'.pc = "publish" /\ poll'.cursor = poll.cursor /\ poll'.upto = poll.upto
          /\ poll'.next = poll.next
      BY <1>1, <3>2 DEF PollStates
    <3>4. /\ 0 <= poll.cursor /\ poll.cursor <= poll.upto /\ poll.upto <= Head0
          /\ poll.next = poll.cursor + 1 /\ hub.cursor = poll.cursor
      BY <1>1, <1>3, <2>2 DEF PollInv, Max2
    <3>5. PollInv'
      BY <1>1, <1>3, <3>3, <3>4 DEF PollInv, Max2
    <3>6. Frontier' = Frontier
      BY <1>1, <1>3, <3>3, <3>4 DEF Frontier
    <3>7. QED
      BY <3>3, <3>5, <3>6
  <2>3. QED
    BY <2>1, <2>2
<1>7. Sending(m)
  BY <1>3, <1>4, <1>5, <1>6 DEF Sending, Follows
<1>8. QED
  BY <1>3, <1>4, <1>6, <1>7

(* The next event is sent if it is shown, and the frontier moves past it. *)
LEMMA PublishItemStep ==
    ASSUME TypeInv, PollInv, PublishItem
    PROVE  /\ GraphResting /\ PollInv'
           /\ \/ \E m : m.is # "delta" /\ Sending(m)
              \/ /\ con' = con /\ page' = page /\ since' = since /\ log' = log
                 /\ ~Shown(Frontier + 1) /\ Frontier' = Frontier + 1 /\ Frontier \in Nat
                 /\ poll.cursor >= 0 /\ poll'.cursor >= 0
<1>1. /\ Head0 \in Nat /\ poll.cursor \in Int /\ poll.upto \in Int /\ hub.cursor \in Nat
      /\ poll \in PollStates /\ poll.next \in Nat
  BY Typed
<1>2. /\ poll.pc = "publish" /\ poll.next <= poll.upto /\ poll' = [poll EXCEPT !.next = @ + 1]
      /\ page' = page /\ since' = since /\ log' = log /\ hub' = hub /\ Head0' = Head0
  BY DEF PublishItem, Head0
<1>3. /\ poll'.pc = "publish" /\ poll'.cursor = poll.cursor /\ poll'.upto = poll.upto
      /\ poll'.next = poll.next + 1
  BY <1>1, <1>2 DEF PollStates
<1>4. /\ 0 <= poll.cursor /\ poll.cursor < poll.next /\ poll.upto <= Head0
      /\ poll.cursor <= poll.upto /\ hub.cursor = poll.cursor
  BY <1>1, <1>2 DEF PollInv, Max2
<1>5. Frontier = poll.next - 1 /\ Frontier' = poll.next /\ Frontier \in Nat
  BY <1>1, <1>2, <1>3, <1>4 DEF Frontier
<1>6. GraphResting
  BY <1>2, <1>3 DEF GraphResting
<1>7. PollInv'
  BY <1>1, <1>2, <1>3, <1>4 DEF PollInv, Max2
<1>8. CASE Shown(poll.next)
  <2>1. PICK m : m = [is |-> "change", seq |-> poll.next]
    OBVIOUS
  <2>2. m \in Messages /\ m.is = "change" /\ m.seq = poll.next
    <3>1. poll.next \in Nat \ {0}
      BY <1>1, <1>4
    <3>2. QED
      BY <2>1, <3>1 DEF Messages, Changes
  <2>3. Broadcast(m)
    BY <1>8, <2>1 DEF PublishItem
  <2>4. \A p \in Pages : con'[p] = Send(con[p], m)
    BY <2>3 DEF Broadcast
  <2>5. Follows(m, Frontier, Frontier')
    BY <1>1, <1>5, <2>2 DEF Follows
  <2>6. Sending(m)
    BY <1>1, <1>2, <1>3, <1>4, <2>2, <2>4, <2>5 DEF Sending
  <2>7. QED
    BY <1>6, <1>7, <2>2, <2>6
<1>9. CASE ~Shown(poll.next)
  <2>1. con' = con
    BY <1>9 DEF PublishItem
  <2>2. Frontier + 1 = poll.next
    BY <1>1, <1>5
  <2>3. QED
    BY <1>1, <1>2, <1>3, <1>4, <1>5, <1>6, <1>7, <1>9, <2>1, <2>2
<1>10. QED
  BY <1>8, <1>9

(* The poller that could not ask for the head has it now. *)
LEMMA LateHeadStep ==
    ASSUME TypeInv, PollInv, LateHead
    PROVE  /\ GraphResting /\ PollInv' /\ page' = page /\ log' = log
           /\ poll.cursor < 0 /\ poll'.cursor >= 0 /\ Frontier' = Head0 /\ Frontier = 0
           /\ \A p \in Pages :
                /\ since'[p].seq = since[p].seq
                /\ IF Subscribed(p)
                   THEN /\ ~since'[p].named /\ con'[p].silent
                        /\ con'[p].pc = con[p].pc /\ con'[p].ch = con[p].ch
                        /\ con'[p].dropped = con[p].dropped /\ con'[p].after = con[p].after
                        /\ con'[p].head = con[p].head /\ con'[p].snap = con[p].snap
                        /\ con'[p].version = con[p].version /\ con'[p].replays = con[p].replays
                        /\ con'[p].at = con[p].at /\ con'[p].upto = con[p].upto
                        /\ con'[p].more = con[p].more
                   ELSE con'[p] = con[p] /\ since'[p] = since[p]
<1>1. /\ Head0 \in Nat /\ poll.cursor \in Int /\ hub.cursor \in Nat
      /\ poll \in PollStates /\ hub \in Hubs
  BY Typed
<1>2. PICK h \in Nat : h = Head0
  BY <1>1
<1>3. /\ poll.pc = "head" /\ page' = page /\ log' = log /\ Head0' = Head0
      /\ poll' = [poll EXCEPT !.pc = "feed", !.cursor = h, !.upto = h, !.seen = h]
      /\ hub' = [hub EXCEPT !.cursor = h]
  BY <1>2 DEF LateHead, Head0
<1>4. /\ poll'.pc = "feed" /\ poll'.cursor = h /\ poll'.upto = h /\ poll'.seen = h
  BY <1>1, <1>3 DEF PollStates
<1>5. hub'.cursor = h /\ hub'.snap = hub.snap /\ hub'.version = hub.version
  BY <1>1, <1>3 DEF Hubs
<1>6. poll.cursor = -1 /\ hub.cursor = 0
  BY <1>3 DEF PollInv, Max2
<1>7. GraphResting
  BY <1>3, <1>4, <1>5 DEF GraphResting
<1>8. PollInv'
  BY <1>1, <1>2, <1>3, <1>4, <1>5 DEF PollInv, Max2
<1>9. Frontier = 0 /\ Frontier' = Head0
  BY <1>2, <1>3, <1>4, <1>5, <1>6 DEF Frontier
<1>10. ASSUME NEW p \in Pages
       PROVE  /\ since'[p].seq = since[p].seq
              /\ IF Subscribed(p)
                 THEN /\ ~since'[p].named /\ con'[p].silent
                      /\ con'[p].pc = con[p].pc /\ con'[p].ch = con[p].ch
                      /\ con'[p].dropped = con[p].dropped /\ con'[p].after = con[p].after
                      /\ con'[p].head = con[p].head /\ con'[p].snap = con[p].snap
                      /\ con'[p].version = con[p].version /\ con'[p].replays = con[p].replays
                      /\ con'[p].at = con[p].at /\ con'[p].upto = con[p].upto
                      /\ con'[p].more = con[p].more
                 ELSE con'[p] = con[p] /\ since'[p] = since[p]
  <2>1. con[p] \in Handlers /\ since[p] \in Promises
    BY Typed
  <2>2. CASE Subscribed(p)
    <3>1. con'[p] = [con[p] EXCEPT !.silent = TRUE] /\ since'[p] = [since[p] EXCEPT !.named = FALSE]
      BY <2>2 DEF LateHead
    <3>2. PICK c \in Handlers : c = con[p]
      BY <2>1
    <3>3. PICK d : d = [c EXCEPT !.silent = TRUE]
      OBVIOUS
    <3>4. /\ d.silent = TRUE /\ d.pc = c.pc /\ d.ch = c.ch /\ d.dropped = c.dropped
          /\ d.after = c.after /\ d.head = c.head /\ d.snap = c.snap /\ d.version = c.version
          /\ d.replays = c.replays /\ d.at = c.at /\ d.upto = c.upto /\ d.more = c.more
      BY <3>3 DEF Handlers
    <3>5. since'[p].named = FALSE /\ since'[p].seq = since[p].seq
      BY <2>1, <3>1 DEF Promises
    <3>6. QED
      BY <2>2, <3>1, <3>2, <3>3, <3>4, <3>5
  <2>3. CASE ~Subscribed(p)
    BY <2>3 DEF LateHead
  <2>4. QED
    BY <2>2, <2>3
<1>11. poll.cursor < 0 /\ poll'.cursor >= 0
  BY <1>2, <1>4, <1>6
<1>12. QED
  BY <1>3, <1>7, <1>8, <1>9, <1>10, <1>11

(* A server that is started again has no streams and sends nothing. *)
LEMMA RestartStep ==
    ASSUME TypeInv, NEW asked \in BOOLEAN, NEW read \in BOOLEAN, Restart(asked, read)
    PROVE  /\ PollInv' /\ page' = page /\ since' = since /\ log' = log
           /\ \A p \in Pages : con'[p] = Off
           /\ poll'.cursor >= 0 => Frontier' = Head0
<1>1. Head0 \in Nat
  BY Typed
<1>2. PICK k \in Nat, c \in Int :
        /\ hub' = [cursor |-> k, snap |-> IF read THEN Graph ELSE Empty, version |-> 0]
        /\ poll' = Idle(c) /\ page' = page /\ since' = since /\ log' = log /\ Head0' = Head0
        /\ k = IF asked THEN Head0 ELSE 0
        /\ c = IF asked THEN Head0 ELSE -1
        /\ con' = [p \in Pages |-> Off]
  BY <1>1 DEF Restart, Head0
<1>3. hub'.cursor = k /\ poll'.pc = "idle" /\ poll'.cursor = c
  BY <1>2, IdleFields
<1>4. PollInv'
  BY <1>1, <1>2, <1>3 DEF PollInv, Max2
<1>5. poll'.cursor >= 0 => Frontier' = Head0
  BY <1>1, <1>2, <1>3 DEF Frontier
<1>6. QED
  BY <1>2, <1>4, <1>5

(* The poller's own invariant holds in every step. *)
LEMMA PollStep ==
    ASSUME TypeInv, PollInv, [Next]_vars
    PROVE  PollInv'
<1>1. CASE hub' = hub /\ poll' = poll /\ log' = log
  BY <1>1 DEF PollInv, Head0
<1>2. ASSUME NEW p \in Pages,
             \/ Stream(p) \/ ReplayFails(p) \/ Break(p)
             \/ \E reopens \in BOOLEAN : Connect(p, reopens)
      PROVE  PollInv'
  <2>1. Alone(p)
    BY <1>2, ConnectEffect, ProbeEffect, WriteResetEffect, WriteSnapshotEffect,
       ReplayItemEffect, ReplayNextEffect, ReplayFailsEffect, LiveEffect, OffEffect DEF Stream
  <2>2. QED
    BY <2>1, <1>1 DEF Alone
<1>3. CASE UNCHANGED vars
  BY <1>3, <1>1 DEF vars
<1>4. CASE Poller
  BY <1>4, TickSteps, LateHeadStep, FeedPrunedStep, FeedPageStep, ReadGraphStep, SendDeltaStep,
     PublishItemStep, PublishDoneStep DEF Poller
<1>5. CASE \/ \E kind \in Kinds : Commit(kind)
           \/ Prune
  BY <1>5, LogSteps
<1>6. CASE FeedFails \/ ReadFails
  BY <1>6, TickSteps
<1>7. CASE \E asked, read \in BOOLEAN : Restart(asked, read)
  BY <1>7, RestartStep
<1>8. QED
  BY <1>2, <1>3, <1>4, <1>5, <1>6, <1>7 DEF Next

-----------------------------------------------------------------------------
(* A page that a step leaves alone *)

(* The frontier is within the log, and never behind the hub's cursor. *)
LEMMA FrontierTyped ==
    ASSUME TypeInv, PollInv
    PROVE  Frontier \in Nat /\ Frontier <= Head0 /\ hub.cursor <= Frontier
<1>1. /\ Head0 \in Nat /\ poll.cursor \in Int /\ poll.upto \in Int /\ hub.cursor \in Nat
      /\ poll.next \in Nat
  BY Typed
<1>2. QED
  BY <1>1 DEF PollInv, Frontier, Max2

(* Stretches of what has been committed do not depend on what is committed  *)
(* after them.                                                              *)
LEMMA StretchKept ==
    ASSUME log' = log \/ \E kind : log' = Append(log, kind),
           log \in Seq(Nodes \cup {"other", "bookkeeping"}),
           NEW ch \in Seq(Messages), NEW f \in Nat, f <= Head0, Within(ch, f)
    PROVE  /\ \A r \in 0..Len(ch), a \in Nat : \A held, whole :
                Stretch(ch, r, a, held, whole, f) => Stretch(ch, r, a, held, whole, f)'
           /\ \A whole : Stretches(ch, whole, f) => Stretches(ch, whole, f)'
<1>1. \A a, b \in Nat : b <= f => ShownIn(a, b)' = ShownIn(a, b)
  BY ShownKept DEF Head0
<1>2. \A j \in 1..Len(ch) : IsChange(ch, j) => ch[j].seq \in Nat /\ ch[j].seq <= f
  BY ChannelFields DEF Within
<1>3. ASSUME NEW r \in 0..Len(ch), NEW a \in Nat, NEW held, NEW whole,
             Stretch(ch, r, a, held, whole, f)
      PROVE  Stretch(ch, r, a, held, whole, f)'
  <2>1. \A j \in r + 1 .. Len(ch) : j \in 1..Len(ch)
    OBVIOUS
  <2>2. ASSUME NEW j, NEW b \in Nat, b <= f, Covers(ch, r, j, a, b, held)
        PROVE  Covers(ch, r, j, a, b, held)'
    BY <1>1, <2>2 DEF Covers
  <2>3. QED
    BY <1>2, <1>3, <2>1, <2>2 DEF Stretch
<1>4. ASSUME NEW whole, Stretches(ch, whole, f)
      PROVE  Stretches(ch, whole, f)'
  <2>1. \A r \in 1..Len(ch) : r \in 0..Len(ch) /\ (IsReset(ch, r) => ch[r].head \in Nat)
    BY ChannelFields
  <2>2. QED
    BY <1>3, <1>4, <2>1 DEF Stretches
<1>5. QED
  BY <1>3, <1>4

(* Nothing a step may change matters to a stretch but the log. *)
LEMMA StretchSame ==
    ASSUME log' = log
    PROVE  /\ \A ch, r, a, held, whole, f :
                Stretch(ch, r, a, held, whole, f)' <=> Stretch(ch, r, a, held, whole, f)
           /\ \A ch, whole, f : Stretches(ch, whole, f)' <=> Stretches(ch, whole, f)
           /\ \A a, b : ShownIn(a, b)' = ShownIn(a, b)
<1>1. \A a, b : ShownIn(a, b)' = ShownIn(a, b)
  BY DEF ShownIn, Shown
<1>2. \A ch, r, j, a, b, held : Covers(ch, r, j, a, b, held)' <=> Covers(ch, r, j, a, b, held)
  BY <1>1 DEF Covers
<1>3. \A ch, r, a, held, whole, f :
        Stretch(ch, r, a, held, whole, f)' <=> Stretch(ch, r, a, held, whole, f)
  BY <1>2 DEF Stretch
<1>4. \A ch, whole, f : Stretches(ch, whole, f)' <=> Stretches(ch, whole, f)
  BY <1>3 DEF Stretches
<1>5. QED
  BY <1>1, <1>3, <1>4

(* The page's state, its handler's and its promise are as they were. *)
KeptPage(p) == con'[p] = con[p] /\ page'[p] = page[p] /\ since'[p] = since[p]

(* What is said of a page and its stream stays true when its state does and *)
(* nothing is sent.                                                         *)
LEMMA PageKept ==
    ASSUME TypeInv, PollInv, NEW p \in Pages, KeptPage(p),
           Frontier' = Frontier, poll'.cursor < 0 <=> poll.cursor < 0,
           log' = log \/ \E kind : log' = Append(log, kind), Head0 <= Head0',
           Head0' \in Nat, poll'.cursor \in Int,
           Bounded(p), Ordered(p), ChannelWhole(p), PageWhole(p)
    PROVE  Bounded(p)' /\ Ordered(p)' /\ ChannelWhole(p)' /\ PageWhole(p)'
<1>1. PICK c \in Handlers : c = con[p] /\ c = con'[p]
  BY Typed DEF KeptPage
<1>2. PICK pg \in PageStates : pg = page[p] /\ pg = page'[p]
  BY Typed DEF KeptPage
<1>3. PICK s \in Promises : s = since[p] /\ s = since'[p]
  BY Typed DEF KeptPage
<1>4. PICK f \in Nat : f = Frontier /\ f = Frontier' /\ f <= Head0
  BY FrontierTyped
<1>5. /\ Head0 \in Nat /\ poll.cursor \in Int /\ s.seq \in Nat /\ c.head \in Nat /\ c.upto \in Nat
      /\ c.at \in Nat /\ pg.cursor \in Nat /\ pg.lastId \in Nat /\ pg.url \in Nat
      /\ c.ch \in Seq(Messages) /\ log \in Seq(Nodes \cup {"other", "bookkeeping"})
  BY <1>3, Typed, HandlerFields, PageFields
<1>6. Bounded(p)'
  <2>1. /\ c.head <= Head0 /\ c.upto <= Head0 /\ c.at <= Head0
        /\ pg.cursor <= Head0 /\ pg.changes \subseteq 1..pg.cursor
        /\ pg.lastId <= Head0 /\ pg.url <= Head0
        /\ Len(c.ch) <= Buffer
        /\ c.pc = "off" => c = Off
    BY <1>1, <1>2 DEF Bounded
  <2>2. /\ c.head <= Head0' /\ c.upto <= Head0' /\ c.at <= Head0'
        /\ pg.cursor <= Head0' /\ pg.lastId <= Head0' /\ pg.url <= Head0'
    <3>1. \A n \in Nat : n <= Head0 => n <= Head0'
      BY <1>5
    <3>2. QED
      BY <1>5, <2>1, <3>1
  <2>3. QED
    BY <1>1, <1>2, <2>1, <2>2 DEF Bounded
<1>7. Ordered(p)'
  BY <1>1, <1>2, <1>4, <1>5 DEF Ordered
<1>8. ChannelWhole(p)'
  <2>1. Within(c.ch, f)
    BY <1>1, <1>4 DEF Ordered
  <2>2. PICK a \in Nat : a = Start(p) /\ a = Start(p)'
    BY <1>1, <1>3, <1>5 DEF Start
  <2>3. PICK held : held = Held(p) /\ held = Held(p)'
    BY <1>1, <1>2 DEF Held
  <2>4. Promised(p)' <=> Promised(p)
    BY <1>1, <1>3 DEF Promised
  <2>5. /\ c.pc # "off" /\ Promised(p) => Stretch(c.ch, 0, a, held, ~c.dropped, f)
        /\ Stretches(c.ch, ~c.dropped, f)
    BY <1>1, <1>4, <2>2, <2>3 DEF ChannelWhole
  <2>6. 0 \in 0..Len(c.ch)
    BY <1>5
  <2>7. /\ c.pc # "off" /\ Promised(p) => Stretch(c.ch, 0, a, held, ~c.dropped, f)'
        /\ Stretches(c.ch, ~c.dropped, f)'
    BY <1>4, <1>5, <2>1, <2>5, <2>6, StretchKept
  <2>8. QED
    BY <1>1, <1>4, <2>2, <2>3, <2>4, <2>7 DEF ChannelWhole
<1>9. PageWhole(p)'
  <2>1. /\ ShownIn(s.seq, pg.cursor)' = ShownIn(s.seq, pg.cursor)
        /\ ShownIn(s.seq, c.at)' = ShownIn(s.seq, c.at)
    <3>1. pg.cursor <= Len(log) /\ c.at <= Len(log)
      BY <1>1, <1>2 DEF Bounded, Head0
    <3>2. QED
      BY <1>5, <3>1, ShownKept
  <2>2. QED
    BY <1>1, <1>2, <1>3, <2>1 DEF PageWhole
<1>10. QED
  BY <1>6, <1>7, <1>8, <1>9

(* What a page is sent over, and the snapshot it began with, are as they    *)
(* were.                                                                    *)
SameStream(p) ==
    /\ con'[p].pc = con[p].pc /\ con'[p].ch = con[p].ch /\ con'[p].dropped = con[p].dropped
    /\ con'[p].snap = con[p].snap /\ con'[p].version = con[p].version

(* What is said of a page's graph stays true when neither its stream        *)
(* changes nor the hub's graph.                                             *)
LEMMA GraphKept ==
    ASSUME NEW p \in Pages, SameStream(p), page'[p] = page[p], GraphResting, GraphOf(p)
    PROVE  GraphOf(p)'
<1>1. PICK pg : pg = page[p] /\ pg = page'[p]
  OBVIOUS
<1>2. PICK pc, ch, dropped, snap, version :
        /\ pc = con[p].pc /\ pc = con'[p].pc /\ ch = con[p].ch /\ ch = con'[p].ch
        /\ dropped = con[p].dropped /\ dropped = con'[p].dropped
        /\ snap = con[p].snap /\ snap = con'[p].snap
        /\ version = con[p].version /\ version = con'[p].version
  BY DEF SameStream
<1>3. /\ Announced' = Announced /\ hub'.version = hub.version /\ hub'.snap = hub.snap
      /\ Version(p)' = Version(p) /\ Base(p)' = Base(p)
  BY <1>1, <1>2 DEF GraphResting, Announced, Version, Base
<1>4. \A n : poll'.pc = "delta" /\ n \in DOMAIN poll'.delta
              <=> poll.pc = "delta" /\ n \in DOMAIN poll.delta
  BY DEF GraphResting
<1>5. QED
  BY <1>1, <1>2, <1>3, <1>4 DEF GraphOf

-----------------------------------------------------------------------------
(* A page that is sent a message, or passed over *)

(* What is sent comes after all a page has and waits for; its stretches go  *)
(* on, or a message is lost and the page is cut off.                        *)
LEMMA PageSent ==
    ASSUME TypeInv, PollInv, TypeInv', PollInv', NEW p \in Pages, NEW m, Sending(m),
           Bounded(p), Ordered(p), ChannelWhole(p), PageWhole(p)
    PROVE  Bounded(p)' /\ Ordered(p)' /\ ChannelWhole(p)' /\ PageWhole(p)'
<1>1. PICK c \in Handlers : c = con[p]
  BY Typed
<1>2. PICK pg \in PageStates : pg = page[p] /\ pg = page'[p]
  BY Typed DEF Sending
<1>3. PICK s \in Promises : s = since[p] /\ s = since'[p]
  BY Typed DEF Sending
<1>4. PICK f \in Nat : f = Frontier /\ f <= Head0
  BY FrontierTyped
<1>5. PICK g \in Nat : g = Frontier' /\ g <= Head0'
  <2>1. (Frontier \in Nat /\ Frontier <= Head0 /\ hub.cursor <= Frontier)'
    BY FrontierTyped, PTL
  <2>2. QED
    BY <2>1
<1>6. /\ Head0 \in Nat /\ Head0' = Head0 /\ s.seq \in Nat /\ c.head \in Nat /\ c.at \in Nat
      /\ c.ch \in Seq(Messages) /\ poll.cursor \in Int /\ pg.changes \in SUBSET Nat
      /\ c.dropped \in BOOLEAN /\ log' = log /\ m \in Messages
  BY <1>3, Typed, HandlerFields, PageFields DEF Sending, Head0
<1>7. poll'.cursor \in Int
  <2>1. poll' \in PollStates
    BY DEF TypeInv
  <2>2. QED
    BY <2>1 DEF PollStates
<1>8. Follows(m, f, g) /\ f <= g
  BY <1>4, <1>5 DEF Sending, Follows
<1>9. Len(c.ch) <= Buffer /\ Buffer \in Nat
  BY <1>1, LiveAssumption DEF Bounded, LiveAssumption
<1>10. PICK d : d = Send(c, m) /\ d = con'[p]
  BY <1>1 DEF Sending
<1>11. /\ d \in Handlers /\ Len(d.ch) <= Buffer /\ d.pc = c.pc /\ d.head = c.head /\ d.at = c.at
       /\ d.upto = c.upto /\ d.after = c.after /\ d.replays = c.replays /\ d.more = c.more
       /\ d.silent = c.silent
       /\ \/ d = c /\ (c.pc = "off" \/ c.dropped)
          \/ d.ch = c.ch /\ d.dropped /\ c.pc # "off"
          \/ d.ch = Append(c.ch, m) /\ ~d.dropped /\ ~c.dropped /\ c.pc # "off"
  <2>1. m \in Messages
    BY <1>6
  <2>2. d = Send(c, m)
    BY <1>10
  <2>3. QED
    BY <1>9, <2>1, <2>2, SendEffect
<1>12. c.pc = "off" => c = Off
  BY <1>1 DEF Bounded
<1>13. Bounded(p)'
  <2>1. /\ c.head <= Head0 /\ c.upto <= Head0 /\ c.at <= Head0
        /\ pg.cursor <= Head0 /\ pg.changes \subseteq 1..pg.cursor
        /\ pg.lastId <= Head0 /\ pg.url <= Head0
    BY <1>1, <1>2 DEF Bounded
  <2>2. d.pc = "off" => d = Off
    BY <1>11, <1>12
  <2>3. /\ d.head <= Head0 /\ d.upto <= Head0 /\ d.at <= Head0
    BY <1>11, <2>1
  <2>4. QED
    BY <1>2, <1>6, <1>10, <1>11, <2>1, <2>2, <2>3 DEF Bounded
<1>14. /\ Within(c.ch, f) /\ InOrder(c.ch) /\ \A i \in pg.changes : After(c.ch, i)
       /\ c.pc # "live" => After(c.ch, c.head)
       /\ c.pc # "off" => c.head <= f
       /\ poll.cursor < 0 => OnlyDeltas(c.ch)
       /\ poll.cursor >= 0 => pg.changes \subseteq 1..f
       /\ c.pc = "replay" => c.at <= c.head
  BY <1>1, <1>2, <1>4 DEF Ordered
<1>15. Ordered(p)'
  <2>1. poll'.cursor < 0 => poll.cursor < 0 /\ m.is = "delta"
    BY <1>6, <1>7 DEF Sending
  <2>2. poll'.cursor >= 0 => poll.cursor >= 0
    BY <1>6, <1>7 DEF Sending
  <2>3. poll'.cursor >= 0 => pg.changes \subseteq 1..g
    BY <1>8, <1>14, <2>2, <1>6, <1>7
  <2>4. c.pc # "off" => c.head <= g
    BY <1>6, <1>8, <1>14
  <2>5. CASE d.ch = c.ch
    <3>1. Within(c.ch, g)
      BY <1>6, <1>8, <1>14, WithinMore
    <3>2. poll'.cursor < 0 => OnlyDeltas(c.ch)
      BY <1>14, <2>1
    <3>3. QED
      BY <1>2, <1>5, <1>10, <1>11, <1>14, <2>3, <2>4, <2>5, <3>1, <3>2 DEF Ordered
  <2>6. CASE d.ch = Append(c.ch, m) /\ c.pc # "off" /\ ~d.dropped /\ ~c.dropped
    <3>1. /\ Within(d.ch, g) /\ InOrder(d.ch)
          /\ \A i \in 0..f : After(c.ch, i) => After(d.ch, i)
          /\ OnlyDeltas(c.ch) /\ m.is = "delta" => OnlyDeltas(d.ch)
      BY <1>6, <1>8, <1>14, <2>6, OrderSent
    <3>2. ASSUME NEW i \in pg.changes
          PROVE  After(d.ch, i)
      <4>1. CASE poll.cursor >= 0
        <5>1. i \in 0..f
          BY <1>14, <4>1
        <5>2. QED
          BY <1>14, <3>1, <5>1
      <4>2. CASE poll.cursor < 0
        <5>1. m.is = "delta"
          BY <1>6, <4>2 DEF Sending
        <5>2. OnlyDeltas(d.ch)
          BY <1>14, <3>1, <4>2, <5>1
        <5>3. QED
          BY <5>2 DEF OnlyDeltas, After, IsDelta, IsChange
      <4>3. QED
        BY <1>6, <4>1, <4>2
    <3>3. c.pc # "live" => After(d.ch, c.head)
      <4>1. c.head \in 0..f
        BY <1>6, <1>14, <2>6
      <4>2. QED
        BY <1>14, <3>1, <4>1
    <3>4. poll'.cursor < 0 => OnlyDeltas(d.ch)
      BY <1>14, <2>1, <3>1
    <3>5. QED
      BY <1>2, <1>5, <1>10, <1>11, <1>14, <2>3, <2>4, <3>1, <3>2, <3>3, <3>4 DEF Ordered
  <2>7. QED
    BY <1>11, <2>5, <2>6
<1>16. ChannelWhole(p)'
  <2>1. PICK a \in Nat : a = Start(p) /\ a = Start(p)'
    BY <1>1, <1>3, <1>6, <1>10, <1>11 DEF Start
  <2>2. PICK held : held = Held(p) /\ held = Held(p)'
    BY <1>1, <1>2, <1>10, <1>11 DEF Held
  <2>3. Promised(p)' <=> Promised(p)
    BY <1>1, <1>3, <1>10, <1>11 DEF Promised
  <2>4. /\ c.pc # "off" /\ Promised(p) => Stretch(c.ch, 0, a, held, ~c.dropped, f)
        /\ Stretches(c.ch, ~c.dropped, f)
    BY <1>1, <1>4, <2>1, <2>2 DEF ChannelWhole
  <2>5. /\ d.pc # "off" /\ Promised(p) => Stretch(d.ch, 0, a, held, ~d.dropped, g)
        /\ Stretches(d.ch, ~d.dropped, g)
    <3>1. CASE d = c /\ c.pc = "off"
      <4>1. Len(d.ch) = 0
        BY <1>12, <3>1 DEF Off
      <4>2. QED
        BY <3>1, <4>1 DEF Stretches
    <3>2. CASE d.ch = c.ch /\ d.dropped
      <4>1. (~d.dropped) = FALSE
        BY <3>2
      <4>2. Stretches(c.ch, FALSE, g)
        BY <2>4, StretchesLost
      <4>3. c.pc # "off" /\ Promised(p) => Stretch(c.ch, 0, a, held, FALSE, g)
        BY <2>4, StretchLost
      <4>4. QED
        BY <1>11, <3>2, <4>1, <4>2, <4>3
    <3>3. CASE d.ch = Append(c.ch, m) /\ ~d.dropped /\ ~c.dropped
      <4>1. (~d.dropped) = TRUE /\ (~c.dropped) = TRUE /\ 0 \in 0..Len(c.ch)
        BY <1>6, <3>3
      <4>2. Stretches(d.ch, TRUE, g)
        BY <1>6, <1>8, <2>4, <3>3, <4>1, StretchesSent
      <4>3. c.pc # "off" /\ Promised(p) => Stretch(d.ch, 0, a, held, TRUE, g)
        BY <1>6, <1>8, <2>4, <3>3, <4>1, StretchSent
      <4>4. QED
        BY <1>11, <4>1, <4>2, <4>3
    <3>4. QED
      BY <1>11, <3>1, <3>2, <3>3
  <2>6. /\ d.pc # "off" /\ Promised(p) => Stretch(d.ch, 0, a, held, ~d.dropped, g)'
        /\ Stretches(d.ch, ~d.dropped, g)'
    BY <1>6, <2>5, StretchSame
  <2>7. QED
    BY <1>5, <1>10, <2>1, <2>2, <2>3, <2>6 DEF ChannelWhole
<1>17. PageWhole(p)'
  <2>1. \A a, b : ShownIn(a, b)' = ShownIn(a, b)
    BY <1>6, StretchSame
  <2>2. QED
    BY <1>1, <1>2, <1>3, <1>10, <1>11, <2>1 DEF PageWhole
<1>18. QED
  BY <1>13, <1>15, <1>16, <1>17

(* An event that is not shown moves the frontier past it, and nothing else. *)
LEMMA PagePassed ==
    ASSUME TypeInv, PollInv, NEW p \in Pages, KeptPage(p), log' = log,
           ~Shown(Frontier + 1), Frontier' = Frontier + 1, poll.cursor >= 0, poll'.cursor >= 0,
           TypeInv',
           Bounded(p), Ordered(p), ChannelWhole(p), PageWhole(p)
    PROVE  Bounded(p)' /\ Ordered(p)' /\ ChannelWhole(p)' /\ PageWhole(p)'
<1>1. PICK c \in Handlers : c = con[p] /\ c = con'[p]
  BY Typed DEF KeptPage
<1>2. PICK pg \in PageStates : pg = page[p] /\ pg = page'[p]
  BY Typed DEF KeptPage
<1>3. PICK s \in Promises : s = since[p] /\ s = since'[p]
  BY Typed DEF KeptPage
<1>4. PICK f \in Nat : f = Frontier /\ Frontier' = f + 1
  BY FrontierTyped
<1>5. /\ Head0' = Head0 /\ s.seq \in Nat /\ c.head \in Nat /\ c.ch \in Seq(Messages)
      /\ pg.changes \in SUBSET Nat /\ poll.cursor \in Int
  BY <1>3, Typed, HandlerFields, PageFields DEF Head0
<1>6. poll'.cursor \in Int
  <2>1. poll' \in PollStates
    BY DEF TypeInv
  <2>2. QED
    BY <2>1 DEF PollStates
<1>7. Bounded(p)'
  <2>1. /\ c.head <= Head0 /\ c.upto <= Head0 /\ c.at <= Head0
        /\ pg.cursor <= Head0 /\ pg.changes \subseteq 1..pg.cursor
        /\ pg.lastId <= Head0 /\ pg.url <= Head0
        /\ Len(c.ch) <= Buffer
        /\ c.pc = "off" => c = Off
    BY <1>1, <1>2 DEF Bounded
  <2>2. QED
    BY <1>1, <1>2, <1>5, <2>1 DEF Bounded
<1>8. Ordered(p)'
  <2>1. /\ Within(c.ch, f) /\ InOrder(c.ch) /\ \A i \in pg.changes : After(c.ch, i)
        /\ c.pc # "live" => After(c.ch, c.head)
        /\ c.pc # "off" => c.head <= f
        /\ pg.changes \subseteq 1..f
        /\ c.pc = "replay" => c.at <= c.head
    BY <1>1, <1>2, <1>4 DEF Ordered
  <2>2. Within(c.ch, f + 1)
    BY <1>5, <2>1, WithinMore
  <2>3. (c.pc # "off" => c.head <= f + 1) /\ pg.changes \subseteq 1..f + 1
    BY <1>5, <2>1
  <2>4. ~(poll'.cursor < 0)
    BY <1>6
  <2>5. QED
    BY <1>1, <1>2, <1>4, <2>1, <2>2, <2>3, <2>4 DEF Ordered
<1>9. ChannelWhole(p)'
  <2>1. PICK a \in Nat : a = Start(p) /\ a = Start(p)'
    BY <1>1, <1>3, <1>5 DEF Start
  <2>2. PICK held : held = Held(p) /\ held = Held(p)'
    BY <1>1, <1>2 DEF Held
  <2>3. Promised(p)' <=> Promised(p)
    BY <1>1, <1>3 DEF Promised
  <2>4. /\ c.pc # "off" /\ Promised(p) => Stretch(c.ch, 0, a, held, ~c.dropped, f)
        /\ Stretches(c.ch, ~c.dropped, f)
    BY <1>1, <1>4, <2>1, <2>2 DEF ChannelWhole
  <2>5. ~Shown(f + 1)
    BY <1>4
  <2>6. /\ c.pc # "off" /\ Promised(p) => Stretch(c.ch, 0, a, held, ~c.dropped, f + 1)
        /\ Stretches(c.ch, ~c.dropped, f + 1)
    BY <1>5, <2>4, <2>5, NothingSent, StretchesPassed
  <2>7. /\ c.pc # "off" /\ Promised(p) => Stretch(c.ch, 0, a, held, ~c.dropped, f + 1)'
        /\ Stretches(c.ch, ~c.dropped, f + 1)'
    BY <2>6, StretchSame
  <2>8. QED
    BY <1>1, <1>4, <2>1, <2>2, <2>3, <2>7 DEF ChannelWhole
<1>10. PageWhole(p)'
  <2>1. \A a, b : ShownIn(a, b)' = ShownIn(a, b)
    BY StretchSame
  <2>2. QED
    BY <1>1, <1>2, <1>3, <2>1 DEF PageWhole
<1>11. QED
  BY <1>7, <1>8, <1>9, <1>10

(* A page that has no handler any more waits for nothing. *)
LEMMA PageOff ==
    ASSUME TypeInv, NEW p \in Pages, con'[p] = Off, page'[p] = page[p], since'[p] = since[p],
           log' = log, poll'.cursor >= 0 => page[p].changes \subseteq 1..Frontier',
           Bounded(p), PageWhole(p)
    PROVE  PageInv(p)'
<1>1. PICK pg \in PageStates : pg = page[p] /\ pg = page'[p]
  BY Typed
<1>2. PICK s \in Promises : s = since[p] /\ s = since'[p]
  BY Typed
<1>3. /\ Off.pc = "off" /\ Off.ch = << >> /\ Off.head = 0 /\ Off.upto = 0 /\ Off.at = 0
      /\ Off.silent = FALSE /\ Len(<< >>) = 0
  BY DEF Off
<1>4. Head0' = Head0 /\ Head0 \in Nat /\ Buffer \in Nat
  BY Typed, LiveAssumption DEF Head0, LiveAssumption
<1>5. Bounded(p)'
  <2>1. /\ pg.cursor <= Head0 /\ pg.changes \subseteq 1..pg.cursor
        /\ pg.lastId <= Head0 /\ pg.url <= Head0
    BY <1>1 DEF Bounded
  <2>2. 0 <= Head0 /\ 0 <= Buffer
    BY <1>4
  <2>3. QED
    BY <1>1, <1>3, <1>4, <2>1, <2>2 DEF Bounded
<1>6. Ordered(p)'
  <2>1. \A j \in 1..Len(<< >>) : FALSE
    BY <1>3
  <2>2. /\ OnlyDeltas(<< >>) /\ Within(<< >>, Frontier') /\ InOrder(<< >>)
        /\ \A i : After(<< >>, i)
    BY <2>1 DEF OnlyDeltas, Within, InOrder, After
  <2>3. QED
    BY <1>1, <1>3, <2>2 DEF Ordered
<1>7. ChannelWhole(p)'
  <2>1. \A w, g : Stretches(<< >>, w, g)'
    BY <1>3 DEF Stretches
  <2>2. QED
    BY <1>3, <2>1 DEF ChannelWhole
<1>8. PageWhole(p)'
  <2>1. ShownIn(s.seq, pg.cursor)' = ShownIn(s.seq, pg.cursor)
    BY StretchSame
  <2>2. QED
    BY <1>1, <1>2, <1>3, <2>1 DEF PageWhole
<1>9. GraphOf(p)'
  BY <1>3 DEF GraphOf
<1>10. QED
  BY <1>5, <1>6, <1>7, <1>8, <1>9 DEF PageInv

(* The poller has the head, and tells no page: what is promised to one that *)
(* is there now is no longer whole, and deltas are all that waits.          *)
LEMMA PageHead ==
    ASSUME TypeInv, PollInv, TypeInv', NEW p \in Pages, LateHead, PageInv(p)
    PROVE  PageInv(p)'
<1>1. PICK c \in Handlers : c = con[p]
  BY Typed
<1>2. PICK d \in Handlers : d = con'[p]
  BY DEF TypeInv
<1>3. PICK pg \in PageStates : pg = page[p] /\ pg = page'[p]
  BY LateHeadStep, Typed
<1>4. PICK h \in Nat : h = Head0 /\ h = Head0' /\ h = Frontier'
  BY LateHeadStep, Typed DEF Head0
<1>5. /\ poll.cursor < 0 /\ poll'.cursor >= 0 /\ Frontier = 0 /\ log' = log /\ GraphResting
      /\ poll.cursor \in Int
  BY LateHeadStep, Typed
<1>6. PICK seq \in Nat : seq = since[p].seq /\ seq = since'[p].seq
  BY LateHeadStep, Typed
<1>7. /\ d.pc = c.pc /\ d.ch = c.ch /\ d.dropped = c.dropped /\ d.after = c.after
      /\ d.head = c.head /\ d.snap = c.snap /\ d.version = c.version /\ d.replays = c.replays
      /\ d.at = c.at /\ d.upto = c.upto /\ d.more = c.more
      /\ \/ ~since'[p].named /\ d.silent /\ c.pc # "off" /\ ~c.dropped
         \/ d = c /\ since'[p] = since[p] /\ (c.pc = "off" \/ c.dropped)
  <2>1. CASE Subscribed(p)
    BY <1>1, <1>2, <2>1, LateHeadStep DEF Subscribed
  <2>2. CASE ~Subscribed(p)
    BY <1>1, <1>2, <2>2, LateHeadStep DEF Subscribed
  <2>3. QED
    BY <2>1, <2>2
<1>8. /\ c.head \in Nat /\ c.ch \in Seq(Messages) /\ c.dropped \in BOOLEAN
      /\ pg.changes \in SUBSET Nat /\ pg.cursor \in Nat
  BY HandlerFields, PageFields
<1>9. /\ c.head <= h /\ c.upto <= h /\ c.at <= h
      /\ pg.cursor <= h /\ pg.changes \subseteq 1..pg.cursor
      /\ pg.lastId <= h /\ pg.url <= h
      /\ Len(c.ch) <= Buffer /\ (c.pc = "off" => c = Off)
  BY <1>1, <1>3, <1>4 DEF PageInv, Bounded
<1>10. Bounded(p)'
  BY <1>2, <1>3, <1>4, <1>7, <1>9 DEF Bounded
<1>11. /\ OnlyDeltas(c.ch) /\ Within(c.ch, 0) /\ InOrder(c.ch)
       /\ \A i \in pg.changes : After(c.ch, i)
       /\ c.pc # "live" => After(c.ch, c.head)
       /\ c.pc = "replay" => c.at <= c.head
  BY <1>1, <1>3, <1>5 DEF PageInv, Ordered
<1>12. Ordered(p)'
  <2>1. Within(c.ch, h)
    BY <1>8, <1>11, WithinMore
  <2>2. pg.changes \subseteq 1..h
    BY <1>8, <1>9
  <2>3. ~(poll'.cursor < 0)
    <3>1. poll' \in PollStates
      BY DEF TypeInv
    <3>2. poll'.cursor \in Int
      BY <3>1 DEF PollStates
    <3>3. QED
      BY <1>5, <3>2
  <2>4. QED
    BY <1>2, <1>3, <1>4, <1>7, <1>9, <1>11, <2>1, <2>2, <2>3 DEF Ordered
<1>13. ChannelWhole(p)'
  <2>1. \A w, g : Stretches(c.ch, w, g)
    BY <1>8, <1>11, ChannelFields DEF OnlyDeltas, Stretches
  <2>2. Stretches(c.ch, ~c.dropped, h)'
    BY <1>5, <2>1, StretchSame
  <2>3. CASE ~since'[p].named /\ d.silent
    <3>1. ~Promised(p)'
      BY <1>2, <2>3 DEF Promised
    <3>2. QED
      BY <1>2, <1>4, <1>7, <2>2, <3>1 DEF ChannelWhole
  <2>4. CASE d = c /\ since'[p] = since[p] /\ (c.pc = "off" \/ c.dropped)
    <3>1. PICK a : a = Start(p) /\ a = Start(p)'
      BY <1>1, <1>2, <2>4 DEF Start
    <3>2. PICK held : held = Held(p) /\ held = Held(p)'
      BY <1>1, <1>2, <1>3, <2>4 DEF Held
    <3>3. Promised(p)' <=> Promised(p)
      BY <1>1, <1>2, <2>4 DEF Promised
    <3>4. c.pc # "off" /\ Promised(p) => Stretch(c.ch, 0, a, held, ~c.dropped, Frontier)
      BY <1>1, <3>1, <3>2 DEF PageInv, ChannelWhole
    <3>5. c.pc # "off" => (~c.dropped) = FALSE
      BY <1>8, <2>4
    <3>6. c.pc # "off" /\ Promised(p) => Stretch(c.ch, 0, a, held, ~c.dropped, h)
      BY <3>4, <3>5, StretchLost
    <3>7. c.pc # "off" /\ Promised(p) => Stretch(c.ch, 0, a, held, ~c.dropped, h)'
      BY <1>5, <3>6, StretchSame
    <3>8. QED
      BY <1>2, <1>4, <2>2, <2>4, <3>1, <3>2, <3>3, <3>7 DEF ChannelWhole
  <2>5. QED
    BY <1>7, <2>3, <2>4
<1>14. PageWhole(p)'
  <2>1. \A a, b : ShownIn(a, b)' = ShownIn(a, b)
    BY <1>5, StretchSame
  <2>2. PageWhole(p)
    BY DEF PageInv
  <2>3. CASE ~since'[p].named /\ d.silent
    BY <1>1, <1>2, <1>7, <2>2, <2>3 DEF PageWhole
  <2>4. CASE d = c /\ since'[p] = since[p]
    BY <1>1, <1>2, <1>3, <2>1, <2>2, <2>4 DEF PageWhole
  <2>5. QED
    BY <1>7, <2>3, <2>4
<1>15. GraphOf(p)'
  <2>1. SameStream(p) /\ page'[p] = page[p]
    BY <1>1, <1>2, <1>3, <1>7 DEF SameStream
  <2>2. QED
    BY <1>5, <2>1, GraphKept DEF PageInv
<1>16. QED
  BY <1>10, <1>12, <1>13, <1>14, <1>15 DEF PageInv

(* A change or a reset tells nothing of the graph. *)
LEMMA GraphPlainSent ==
    ASSUME TypeInv, NEW p \in Pages, NEW m, m.is # "delta", Sending(m), GraphResting,
           Bounded(p), GraphOf(p)
    PROVE  GraphOf(p)'
<1>1. PICK c \in Handlers : c = con[p]
  BY Typed
<1>2. PICK pg : pg = page[p] /\ pg = page'[p]
  BY DEF Sending
<1>3. Len(c.ch) <= Buffer /\ Buffer \in Nat /\ m \in Messages /\ c.ch \in Seq(Messages)
  BY <1>1, LiveAssumption, HandlerFields DEF Bounded, LiveAssumption, Sending
<1>4. PICK d : d = Send(c, m) /\ d = con'[p]
  BY <1>1 DEF Sending
<1>5. /\ d.pc = c.pc /\ d.snap = c.snap /\ d.version = c.version
      /\ \/ d = c /\ (c.pc = "off" \/ c.dropped)
         \/ d.ch = c.ch /\ d.dropped /\ c.pc # "off"
         \/ d.ch = Append(c.ch, m) /\ ~d.dropped /\ ~c.dropped /\ c.pc # "off"
  <2>1. d = Send(c, m)
    BY <1>4
  <2>2. QED
    BY <1>3, <2>1, SendEffect
<1>6. CASE d = c
  <2>1. SameStream(p) /\ page'[p] = page[p]
    BY <1>1, <1>2, <1>4, <1>6 DEF SameStream
  <2>2. QED
    BY <2>1, GraphKept
<1>7. PICK v : v = Version(p) /\ v = Version(p)'
  BY <1>1, <1>2, <1>4, <1>5 DEF Version
<1>8. PICK base : base = Base(p) /\ base = Base(p)'
  BY <1>1, <1>2, <1>4, <1>5 DEF Base
<1>9. PICK limit, hv, snap :
        /\ limit = Announced /\ limit = Announced' /\ hv = hub.version /\ hv = hub'.version
        /\ snap = hub.snap /\ snap = hub'.snap
  BY DEF GraphResting, Announced
<1>10. \A n : poll'.pc = "delta" /\ n \in DOMAIN poll'.delta
               <=> poll.pc = "delta" /\ n \in DOMAIN poll.delta
  BY DEF GraphResting
<1>11. /\ c.pc # "off" => Versions(c.ch, limit)
       /\ c.pc # "off" /\ NoReset(c.ch, 0, Len(c.ch)) => v <= hv
       /\ c.pc # "off" /\ NoReset(c.ch, 0, Len(c.ch)) /\ ~c.dropped =>
             \A n \in Nodes : \/ poll.pc = "delta" /\ n \in DOMAIN poll.delta /\ hv > v
                              \/ Brings(c.ch, v, base, snap, n)
       /\ c.pc = "replay" => pg.graph = c.snap /\ pg.version = c.version
  BY <1>1, <1>2, <1>7, <1>8, <1>9 DEF GraphOf
<1>12. CASE d.ch = c.ch /\ d.dropped /\ c.pc # "off"
  BY <1>2, <1>4, <1>5, <1>7, <1>9, <1>11, <1>12 DEF GraphOf
<1>13. CASE d.ch = Append(c.ch, m) /\ ~d.dropped /\ ~c.dropped /\ c.pc # "off"
  <2>1. Versions(d.ch, limit)
    BY <1>3, <1>11, <1>13, PlainSent
  <2>2. \A n : Brings(c.ch, v, base, snap, n) => Brings(d.ch, v, base, snap, n)
    BY <1>3, <1>13, PlainSent
  <2>3. NoReset(d.ch, 0, Len(d.ch)) => NoReset(c.ch, 0, Len(c.ch))
    <3>1. Len(d.ch) = Len(c.ch) + 1 /\ Len(c.ch) \in Nat
      BY <1>3, <1>13, Appended
    <3>2. NoReset(d.ch, 0, Len(c.ch)) <=> NoReset(c.ch, 0, Len(c.ch))
      BY <1>3, <1>13, <3>1, SameBefore
    <3>3. NoReset(d.ch, 0, Len(d.ch)) => NoReset(d.ch, 0, Len(c.ch))
      BY <3>1 DEF NoReset
    <3>4. QED
      BY <3>2, <3>3
  <2>4. \A n \in Nodes : NoReset(d.ch, 0, Len(d.ch)) =>
           \/ poll'.pc = "delta" /\ n \in DOMAIN poll'.delta /\ hv > v
           \/ Brings(d.ch, v, base, snap, n)
    BY <1>10, <1>11, <1>13, <2>2, <2>3
  <2>5. QED
    BY <1>2, <1>4, <1>5, <1>7, <1>8, <1>9, <1>11, <1>13, <2>1, <2>3, <2>4 DEF GraphOf
<1>14. QED
  BY <1>5, <1>6, <1>12, <1>13

(* The difference that was still to be broadcast is: it brings the nodes it *)
(* tells of, and the rest has been there before.                            *)
LEMMA GraphDeltaSent ==
    ASSUME TypeInv, PollInv, NEW p \in Pages, SendDelta, Bounded(p), GraphOf(p)
    PROVE  GraphOf(p)'
<1>1. PICK m : Sending(m) /\ m.is = "delta" /\ m.version = hub.version /\ m.set = poll.delta
  BY SendDeltaStep
<1>2. PICK c \in Handlers : c = con[p]
  BY Typed
<1>3. PICK pg \in PageStates : pg = page[p] /\ pg = page'[p]
  BY <1>1, Typed DEF Sending
<1>4. Len(c.ch) <= Buffer /\ Buffer \in Nat /\ m \in Messages /\ c.ch \in Seq(Messages)
  BY <1>1, <1>2, LiveAssumption, HandlerFields DEF Bounded, LiveAssumption, Sending
<1>5. PICK d : d = Send(c, m) /\ d = con'[p]
  BY <1>1, <1>2 DEF Sending
<1>6. /\ d.pc = c.pc /\ d.snap = c.snap /\ d.version = c.version
      /\ \/ d = c /\ (c.pc = "off" \/ c.dropped)
         \/ d.ch = c.ch /\ d.dropped /\ c.pc # "off"
         \/ d.ch = Append(c.ch, m) /\ ~d.dropped /\ ~c.dropped /\ c.pc # "off"
  <2>1. d = Send(c, m)
    BY <1>5
  <2>2. QED
    BY <1>4, <2>1, SendEffect
<1>7. PICK v \in Nat : v = Version(p) /\ v = Version(p)'
  <2>1. c.version \in Nat /\ pg.version \in Nat
    BY HandlerFields, PageFields
  <2>2. QED
    BY <1>2, <1>3, <1>5, <1>6, <2>1 DEF Version
<1>8. PICK base : base = Base(p) /\ base = Base(p)'
  BY <1>2, <1>3, <1>5, <1>6 DEF Base
<1>9. PICK hv \in Nat, snap \in {hub.snap} :
        hv = hub.version /\ hv = hub'.version /\ snap = hub.snap /\ snap = hub'.snap
  BY SendDeltaStep, Typed
<1>10. /\ Announced = hv - 1 /\ Announced' = hv /\ poll.pc = "delta" /\ poll'.pc # "delta"
       /\ \A n \in DOMAIN poll.delta : poll.delta[n] = snap[n]
  BY <1>9, SendDeltaStep DEF Announced, PollInv
<1>11. CASE c.pc = "off"
  BY <1>5, <1>6, <1>11 DEF GraphOf
<1>12. CASE c.pc # "off"
  <2>1. /\ Versions(c.ch, hv - 1)
        /\ NoReset(c.ch, 0, Len(c.ch)) => v <= hv
        /\ NoReset(c.ch, 0, Len(c.ch)) /\ ~c.dropped =>
              \A n \in Nodes : \/ n \in DOMAIN poll.delta /\ hv > v
                               \/ Brings(c.ch, v, base, snap, n)
        /\ c.pc = "replay" => pg.graph = c.snap /\ pg.version = c.version
    BY <1>2, <1>3, <1>7, <1>8, <1>9, <1>10, <1>12 DEF GraphOf
  <2>2. Versions(c.ch, hv)
    BY <1>4, <2>1, ChannelFields DEF Versions
  <2>3. CASE d.ch = c.ch /\ d.dropped
    BY <1>3, <1>5, <1>6, <1>7, <1>9, <1>10, <2>1, <2>2, <2>3 DEF GraphOf
  <2>4. CASE d.ch = Append(c.ch, m) /\ ~d.dropped /\ ~c.dropped
    <3>1. m.version = hv /\ m.set = poll.delta
      BY <1>1, <1>9
    <3>2. Versions(d.ch, hv)
      <4>1. hv - 1 \in Int /\ hv - 1 < m.version
        BY <3>1
      <4>2. QED
        BY <1>1, <1>4, <2>1, <2>4, <3>1, <4>1, DeltaSent
    <3>3. NoReset(d.ch, 0, Len(d.ch)) => NoReset(c.ch, 0, Len(c.ch))
      <4>1. Len(d.ch) = Len(c.ch) + 1 /\ Len(c.ch) \in Nat
        BY <1>4, <2>4, Appended
      <4>2. NoReset(d.ch, 0, Len(c.ch)) <=> NoReset(c.ch, 0, Len(c.ch))
        BY <1>4, <2>4, <4>1, SameBefore
      <4>3. NoReset(d.ch, 0, Len(d.ch)) => NoReset(d.ch, 0, Len(c.ch))
        BY <4>1 DEF NoReset
      <4>4. QED
        BY <4>2, <4>3
    <3>4. ASSUME NEW n \in Nodes, NoReset(d.ch, 0, Len(d.ch))
          PROVE  Brings(d.ch, v, base, snap, n)
      <4>1. (n \in DOMAIN m.set /\ hv > v) \/ Brings(c.ch, v, base, snap, n)
        BY <2>1, <2>4, <3>1, <3>3, <3>4
      <4>2. CASE n \in DOMAIN m.set /\ hv > v
        <5>1. m.set[n] = snap[n] /\ m.version > v
          BY <1>10, <3>1, <4>2
        <5>2. QED
          BY <1>1, <1>4, <2>4, <4>2, <5>1, DeltaSent
      <4>3. CASE ~(n \in DOMAIN m.set /\ hv > v)
        <5>1. ~(n \in DOMAIN m.set /\ m.version > v) /\ Brings(c.ch, v, base, snap, n)
          BY <3>1, <4>1, <4>3
        <5>2. QED
          BY <1>1, <1>4, <2>4, <5>1, DeltaSent
      <4>4. QED
        BY <4>2, <4>3
    <3>5. QED
      BY <1>3, <1>5, <1>6, <1>7, <1>8, <1>9, <1>10, <2>1, <3>2, <3>3, <3>4 DEF GraphOf
  <2>5. QED
    BY <1>6, <2>3, <2>4, <1>12, <2>2
<1>13. QED
  BY <1>11, <1>12

(* A reading of the graph announces what differs from what the pages were   *)
(* told before.                                                             *)
LEMMA GraphRead ==
    ASSUME TypeInv, PollInv, NEW p \in Pages, ReadGraph, GraphOf(p)
    PROVE  GraphOf(p)'
<1>1. con' = con /\ page' = page
  BY ReadGraphStep DEF Resting
<1>2. CASE GraphResting
  BY <1>1, <1>2, GraphKept DEF SameStream
<1>3. CASE /\ poll'.pc = "delta" /\ hub'.version = hub.version + 1
           /\ \A n \in Nodes : n \notin DOMAIN poll'.delta => hub'.snap[n] = hub.snap[n]
  <2>1. PICK c \in Handlers : c = con[p] /\ c = con'[p]
    BY <1>1, Typed
  <2>2. PICK pg \in PageStates : pg = page[p] /\ pg = page'[p]
    BY <1>1, Typed
  <2>3. PICK v \in Nat : v = Version(p) /\ v = Version(p)'
    <3>1. c.version \in Nat /\ pg.version \in Nat
      BY HandlerFields, PageFields
    <3>2. QED
      BY <2>1, <2>2, <3>1 DEF Version
  <2>4. PICK base : base = Base(p) /\ base = Base(p)'
    BY <2>1, <2>2 DEF Base
  <2>5. PICK hv \in Nat : hv = hub.version /\ hub'.version = hv + 1
    BY <1>3, Typed
  <2>6. poll.pc = "graph" /\ Announced = hv /\ Announced' = hv
    BY <1>3, <2>5, ReadGraphStep DEF Announced
  <2>7. CASE c.pc = "off"
    BY <2>1, <2>7 DEF GraphOf
  <2>8. CASE c.pc # "off"
    <3>1. /\ Versions(c.ch, hv)
          /\ NoReset(c.ch, 0, Len(c.ch)) => v <= hv
          /\ NoReset(c.ch, 0, Len(c.ch)) /\ ~c.dropped =>
                \A n \in Nodes : Brings(c.ch, v, base, hub.snap, n)
          /\ c.pc = "replay" => pg.graph = c.snap /\ pg.version = c.version
      BY <2>1, <2>2, <2>3, <2>4, <2>5, <2>6, <2>8 DEF GraphOf
    <3>2. NoReset(c.ch, 0, Len(c.ch)) => v <= hv + 1 /\ hv + 1 > v
      BY <3>1
    <3>3. \A n \in Nodes : NoReset(c.ch, 0, Len(c.ch)) /\ ~c.dropped =>
             \/ n \in DOMAIN poll'.delta
             \/ Brings(c.ch, v, base, hub'.snap, n)
      <4> SUFFICES ASSUME NEW n \in Nodes, NoReset(c.ch, 0, Len(c.ch)), ~c.dropped,
                          n \notin DOMAIN poll'.delta
                   PROVE  Brings(c.ch, v, base, hub'.snap, n)
        OBVIOUS
      <4>1. Brings(c.ch, v, base, hub.snap, n) /\ hub'.snap[n] = hub.snap[n]
        BY <1>3, <3>1
      <4>2. QED
        BY <4>1 DEF Brings
    <3>4. QED
      BY <1>3, <2>1, <2>2, <2>3, <2>4, <2>5, <2>6, <3>1, <3>2, <3>3 DEF GraphOf
  <2>9. QED
    BY <2>7, <2>8
<1>4. QED
  BY <1>2, <1>3, ReadGraphStep

(* A handler that keeps its channel, and starts from the same graph, keeps  *)
(* what is said of it.                                                      *)
LEMMA GraphMoved ==
    ASSUME NEW p \in Pages, con[p].pc # "off", con'[p].ch = con[p].ch,
           con'[p].dropped = con[p].dropped, hub' = hub, poll' = poll,
           Version(p)' = Version(p), Base(p)' = Base(p), GraphOf(p),
           con'[p].pc = "replay" =>
               page'[p].graph = con'[p].snap /\ page'[p].version = con'[p].version
    PROVE  GraphOf(p)'
<1>1. PICK ch, dropped : /\ ch = con[p].ch /\ ch = con'[p].ch
                         /\ dropped = con[p].dropped /\ dropped = con'[p].dropped
  OBVIOUS
<1>2. Announced' = Announced
  BY DEF Announced
<1>3. QED
  BY <1>1, <1>2 DEF GraphOf

(* A page that reads a message is brought to the same graph by the rest. *)
LEMMA GraphTaken ==
    ASSUME TypeInv, PollInv, NEW p \in Pages, Live(p), GraphOf(p)
    PROVE  GraphOf(p)'
<1>1. PICK c \in Handlers : c = con[p]
  BY Typed
<1>2. PICK d : d = con'[p]
  OBVIOUS
<1>3. PICK pg \in PageStates : pg = page[p]
  BY Typed
<1>4. PICK new : new = page'[p]
  OBVIOUS
<1>5. /\ c.pc = "live" /\ c.ch # << >> /\ d.ch = Tail(c.ch) /\ d.dropped = c.dropped
      /\ c.ch \in Seq(Messages) /\ pg.version \in Nat /\ hub' = hub /\ poll' = poll
  BY <1>1, <1>2, <1>3, LiveEffect, HandlerFields, PageFields DEF Alone
<1>6. PICK hv \in Nat, snap \in {hub.snap}, limit \in Int :
        /\ hv = hub.version /\ hv = hub'.version /\ snap = hub.snap /\ snap = hub'.snap
        /\ limit = Announced /\ limit = Announced' /\ limit <= hv /\ limit \in Int
        /\ poll.pc = "delta" => limit < hv
  BY <1>5, Typed DEF Announced
<1>7. /\ Versions(c.ch, limit)
      /\ NoReset(c.ch, 0, Len(c.ch)) => pg.version <= hv
      /\ NoReset(c.ch, 0, Len(c.ch)) /\ ~c.dropped =>
            \A n \in Nodes :
               \/ poll.pc = "delta" /\ n \in DOMAIN poll.delta /\ hv > pg.version
               \/ Brings(c.ch, pg.version, pg.graph, snap, n)
  BY <1>1, <1>3, <1>5, <1>6 DEF GraphOf, Version, Base
<1>8. /\ Len(c.ch) \in Nat /\ Len(c.ch) > 0 /\ Len(d.ch) = Len(c.ch) - 1
      /\ d.ch \in Seq(Messages) /\ 1 \in 1..Len(c.ch)
  BY <1>5, Taken
<1>9. ~IsReset(c.ch, 1) /\ NoReset(d.ch, 0, Len(d.ch)) => NoReset(c.ch, 0, Len(c.ch))
  <2>1. 0 \in 0..Len(c.ch) - 1 /\ Len(d.ch) \in 0..Len(c.ch) - 1 /\ Len(d.ch) + 1 = Len(c.ch)
    BY <1>8
  <2>2. NoReset(d.ch, 0, Len(d.ch)) <=> NoReset(c.ch, 0 + 1, Len(d.ch) + 1)
    BY <1>5, <2>1, SameBehind
  <2>3. ~IsReset(c.ch, 1) /\ NoReset(c.ch, 0 + 1, Len(c.ch)) => NoReset(c.ch, 0, Len(c.ch))
    <3>1. \A k \in 0 + 1 .. Len(c.ch) : k = 1 \/ k \in (0 + 1) + 1 .. Len(c.ch)
      BY <1>8
    <3>2. QED
      BY <3>1 DEF NoReset
  <2>4. QED
    BY <2>1, <2>2, <2>3
<1>10. ASSUME NEW w \in Nat, ~IsReset(c.ch, 1), d.pc = "live", new.version = w,
              w = (IF IsDelta(c.ch, 1) /\ c.ch[1].version > pg.version
                   THEN c.ch[1].version ELSE pg.version),
              \A n \in Nodes : new.graph[n] = IF 1 \in News(c.ch, pg.version, n)
                                              THEN c.ch[1].set[n] ELSE pg.graph[n]
       PROVE  GraphOf(p)'
  <2>1. Version(p)' = w /\ Base(p)' = new.graph
    BY <1>2, <1>4, <1>10 DEF Version, Base
  <2>2. Versions(d.ch, limit)
    BY <1>5, <1>7, <1>10, DeltasTaken
  <2>3. IsDelta(c.ch, 1) => c.ch[1].version <= limit /\ c.ch[1].version \in Nat
    BY <1>5, <1>7, <1>8, ChannelFields DEF Versions
  <2>4. NoReset(d.ch, 0, Len(d.ch)) => w <= hv
    BY <1>5, <1>6, <1>7, <1>9, <1>10, <2>3
  <2>5. ASSUME NEW n \in Nodes, NoReset(d.ch, 0, Len(d.ch)), ~d.dropped
        PROVE  \/ poll.pc = "delta" /\ n \in DOMAIN poll.delta /\ hv > w
               \/ Brings(d.ch, w, new.graph, snap, n)
    <3>1. \/ poll.pc = "delta" /\ n \in DOMAIN poll.delta /\ hv > pg.version
          \/ Brings(c.ch, pg.version, pg.graph, snap, n)
      BY <1>5, <1>7, <1>9, <1>10, <2>5
    <3>2. CASE poll.pc = "delta" /\ n \in DOMAIN poll.delta /\ hv > pg.version
      <4>1. hv > w
        BY <1>6, <1>10, <2>3, <3>2
      <4>2. QED
        BY <3>2, <4>1
    <3>3. CASE Brings(c.ch, pg.version, pg.graph, snap, n)
      <4>1. Brings(Tail(c.ch), w, new.graph, snap, n)
        BY <1>5, <1>7, <1>10, <3>3, DeltasTaken
      <4>2. QED
        BY <1>5, <4>1
    <3>4. QED
      BY <3>1, <3>2, <3>3
  <2>6. d.pc # "replay"
    BY <1>10
  <2>7. QED
    BY <1>2, <1>5, <1>6, <2>1, <2>2, <2>4, <2>5, <2>6 DEF GraphOf
<1>11. CASE IsChange(c.ch, 1) /\ d.pc = "live" /\ new.graph = pg.graph /\ new.version = pg.version
  <2>1. ~IsReset(c.ch, 1) /\ ~IsDelta(c.ch, 1)
    BY <1>5, <1>8, <1>11, ChannelFields
  <2>2. \A n \in Nodes : 1 \notin News(c.ch, pg.version, n)
    BY <2>1 DEF News
  <2>3. QED
    BY <1>5, <1>10, <1>11, <2>1, <2>2
<1>12. CASE /\ IsDelta(c.ch, 1) /\ d.pc = "live"
            /\ new.version = IF c.ch[1].version > pg.version THEN c.ch[1].version ELSE pg.version
            /\ \A n \in Nodes :
                 new.graph[n] = IF c.ch[1].version > pg.version /\ n \in DOMAIN c.ch[1].set
                                THEN c.ch[1].set[n] ELSE pg.graph[n]
  <2>1. ~IsReset(c.ch, 1) /\ c.ch[1].version \in Nat
    BY <1>5, <1>8, <1>12, ChannelFields
  <2>2. \A n : 1 \in News(c.ch, pg.version, n)
                 <=> c.ch[1].version > pg.version /\ n \in DOMAIN c.ch[1].set
    BY <1>8, <1>12 DEF News
  <2>3. new.version \in Nat
    BY <1>5, <1>12, <2>1
  <2>4. QED
    BY <1>10, <1>12, <2>1, <2>2, <2>3
<1>13. CASE d.pc = "reset" /\ d.snap = hub.snap /\ d.version = hub.version /\ IsReset(c.ch, 1)
  <2>1. Versions(d.ch, limit)
    <3>1. PICK w \in Nat : w = (IF IsDelta(c.ch, 1) /\ c.ch[1].version > pg.version
                                THEN c.ch[1].version ELSE pg.version)
      BY <1>5, <1>8, ChannelFields
    <3>2. QED
      BY <1>5, <1>7, <3>1, DeltasTaken
  <2>2. Version(p)' = hv /\ Base(p)' = snap
    BY <1>2, <1>6, <1>13 DEF Version, Base
  <2>3. ASSUME NEW n \in Nodes
        PROVE  Brings(d.ch, hv, snap, snap, n)
    <3>1. \A j \in 1..Len(d.ch) : IsDelta(d.ch, j) => ~(d.ch[j].version > hv)
      <4> SUFFICES ASSUME NEW j \in 1..Len(d.ch), IsDelta(d.ch, j)
                   PROVE  ~(d.ch[j].version > hv)
        OBVIOUS
      <4>1. d.ch[j].version \in Nat
        BY <1>8, ChannelFields
      <4>2. d.ch[j].version <= limit
        BY <2>1 DEF Versions
      <4>3. QED
        BY <1>6, <4>1, <4>2
    <3>2. News(d.ch, hv, n) = {}
      BY <3>1 DEF News
    <3>3. QED
      BY <3>2 DEF Brings
  <2>4. QED
    BY <1>2, <1>6, <1>13, <2>1, <2>2, <2>3 DEF GraphOf
<1>14. QED
  BY <1>1, <1>2, <1>3, <1>4, <1>11, <1>12, <1>13, LiveEffect

-----------------------------------------------------------------------------
(* A step of a page's own handler *)

(* It leaves the frontier and the log where they are. *)
LEMMA AloneStill ==
    ASSUME NEW p \in Pages, Alone(p)
    PROVE  /\ Frontier' = Frontier /\ Head0' = Head0
           /\ \A ch, r, a, held, whole, f :
                Stretch(ch, r, a, held, whole, f)' <=> Stretch(ch, r, a, held, whole, f)
           /\ \A ch, whole, f : Stretches(ch, whole, f)' <=> Stretches(ch, whole, f)
           /\ \A a, b : ShownIn(a, b)' = ShownIn(a, b)
<1>1. log' = log /\ hub' = hub /\ poll' = poll
  BY DEF Alone
<1>2. Frontier' = Frontier /\ Head0' = Head0
  BY <1>1 DEF Frontier, Head0
<1>3. QED
  BY <1>1, <1>2, StretchSame

(* A handler that does not forward yet keeps its stretch, while it does not.*)
LEMMA ChannelHeld ==
    ASSUME TypeInv, NEW p \in Pages, Alone(p), SameChannel(p),
           con[p].pc \notin {"off", "live"}, con'[p].pc \notin {"off", "live"},
           con'[p].head = con[p].head, ChannelWhole(p)
    PROVE  ChannelWhole(p)'
<1>1. PICK c, d : c = con[p] /\ d = con'[p]
  OBVIOUS
<1>2. d.ch = c.ch /\ d.dropped = c.dropped /\ d.silent = c.silent /\ d.head = c.head
  BY <1>1 DEF SameChannel
<1>3. PICK f : f = Frontier /\ f = Frontier'
  BY AloneStill
<1>4. /\ ~c.silent => Stretch(c.ch, 0, c.head, {}, ~c.dropped, f)
      /\ Stretches(c.ch, ~c.dropped, f)
  BY <1>1, <1>3 DEF ChannelWhole, Promised, Start, Held
<1>5. /\ ~c.silent => Stretch(c.ch, 0, c.head, {}, ~c.dropped, f)'
      /\ Stretches(c.ch, ~c.dropped, f)'
  BY <1>4, AloneStill
<1>6. QED
  BY <1>1, <1>2, <1>3, <1>5 DEF ChannelWhole, Promised, Start, Held

(* When it begins to forward, the page has what is before the stretch.      *)
LEMMA ChannelOpens ==
    ASSUME TypeInv, PollInv, NEW p \in Pages, Alone(p), SameChannel(p),
           con[p].pc \notin {"off", "live"}, con'[p].pc = "live", ChannelWhole(p),
           since'[p].named => /\ ~con[p].silent
                              /\ ShownIn(since'[p].seq, con[p].head) \subseteq page'[p].changes
    PROVE  ChannelWhole(p)'
<1>1. PICK c \in Handlers, d \in {con'[p]} : c = con[p] /\ d = con'[p]
  BY Typed
<1>2. d.ch = c.ch /\ d.dropped = c.dropped
  BY <1>1 DEF SameChannel
<1>3. PICK f \in Nat : f = Frontier /\ f = Frontier'
  BY AloneStill, FrontierTyped
<1>4. PICK s \in Promises : s = since'[p]
  BY DEF Alone
<1>5. PICK more : more = page'[p].changes
  OBVIOUS
<1>6. c.head \in Nat /\ s.seq \in Nat /\ c.ch \in Seq(Messages) /\ c.dropped \in BOOLEAN
  BY HandlerFields DEF Promises
<1>7. /\ ~c.silent => Stretch(c.ch, 0, c.head, {}, ~c.dropped, f)
      /\ Stretches(c.ch, ~c.dropped, f)
  BY <1>1, <1>3 DEF ChannelWhole, Promised, Start, Held
<1>8. s.named => Stretch(c.ch, 0, s.seq, more, ~c.dropped, f)
  <2> SUFFICES ASSUME s.named
               PROVE  Stretch(c.ch, 0, s.seq, more, ~c.dropped, f)
    OBVIOUS
  <2>1. ShownIn(s.seq, c.head) \subseteq more /\ ~c.silent
    BY <1>1, <1>4, <1>5
  <2>2. ASSUME NEW b \in Nat
        PROVE  ShownIn(s.seq, b) \subseteq ShownIn(c.head, b) \cup more
    BY <1>6, <2>1, ShownSplits
  <2>3. PICK whole \in BOOLEAN : whole = ~c.dropped
    OBVIOUS
  <2>4. Stretch(c.ch, 0, c.head, {}, whole, f) /\ {} \subseteq more
    BY <1>7, <2>1, <2>3
  <2>5. Stretch(c.ch, 0, s.seq, more, whole, f)
    BY <1>6, <2>2, <2>4, StretchMoved
  <2>6. QED
    BY <2>3, <2>5
<1>9. /\ s.named => Stretch(c.ch, 0, s.seq, more, ~c.dropped, f)'
      /\ Stretches(c.ch, ~c.dropped, f)'
  BY <1>7, <1>8, AloneStill
<1>10. QED
  BY <1>1, <1>2, <1>3, <1>4, <1>5, <1>9 DEF ChannelWhole, Promised, Start, Held

(* What it has written so far is before all that waits. *)
LEMMA OrderHeld ==
    ASSUME TypeInv, PollInv, NEW p \in Pages, Alone(p), SameChannel(p),
           con[p].pc \notin {"off", "live"}, Ordered(p), con'[p].pc # "off",
           IF con'[p].pc = "live" THEN con'[p].head = 0 ELSE con'[p].head = con[p].head,
           con'[p].pc = "replay" => con'[p].at <= con'[p].head,
           page'[p].changes \subseteq page[p].changes \cup 1..con[p].head
    PROVE  Ordered(p)'
<1>1. PICK c \in Handlers, d \in {con'[p]} : c = con[p] /\ d = con'[p]
  BY Typed
<1>2. d.ch = c.ch
  BY <1>1 DEF SameChannel
<1>3. PICK f \in Nat : f = Frontier /\ f = Frontier'
  BY AloneStill, FrontierTyped
<1>4. PICK old, new : old = page[p].changes /\ new = page'[p].changes
  OBVIOUS
<1>5. c.head \in Nat /\ c.ch \in Seq(Messages) /\ poll.cursor \in Int /\ poll' = poll
  BY HandlerFields, Typed DEF Alone
<1>6. /\ poll.cursor < 0 => OnlyDeltas(c.ch)
      /\ poll.cursor >= 0 => old \subseteq 1..f
      /\ c.head <= f
      /\ Within(c.ch, f) /\ InOrder(c.ch)
      /\ \A i \in old : After(c.ch, i)
      /\ After(c.ch, c.head)
  BY <1>1, <1>3, <1>4 DEF Ordered
<1>7. poll.cursor >= 0 => new \subseteq 1..f
  BY <1>1, <1>4, <1>5, <1>6
<1>8. ASSUME NEW i \in new
      PROVE  After(c.ch, i)
  <2>1. CASE i \in old
    BY <1>6, <2>1
  <2>2. CASE i \in 1..c.head
    <3>1. \A j \in 1..Len(c.ch) : IsChange(c.ch, j) => c.ch[j].seq \in Nat
      BY <1>5, ChannelFields
    <3>2. QED
      BY <1>5, <1>6, <2>2, <3>1 DEF After
  <2>3. QED
    BY <1>1, <1>4, <2>1, <2>2
<1>9. d.head <= f /\ (d.pc # "live" => After(c.ch, d.head))
  BY <1>1, <1>3, <1>5, <1>6
<1>10. QED
  BY <1>1, <1>2, <1>3, <1>4, <1>5, <1>6, <1>7, <1>8, <1>9 DEF Ordered

(* Its graph is still the snapshot it will write or has written. *)
LEMMA GraphHeld ==
    ASSUME NEW p \in Pages, Alone(p), SameChannel(p), con[p].pc \notin {"off", "live"},
           con'[p].pc # "live" => SameSnapshot(p),
           con'[p].pc \in {"live", "replay"} =>
               page'[p].graph = con[p].snap /\ page'[p].version = con[p].version,
           GraphOf(p)
    PROVE  GraphOf(p)'
<1>1. hub' = hub /\ poll' = poll
  BY DEF Alone
<1>2. con'[p].ch = con[p].ch /\ con'[p].dropped = con[p].dropped
  BY DEF SameChannel
<1>3. Version(p)' = Version(p) /\ Base(p)' = Base(p)
  BY DEF Version, Base, SameSnapshot
<1>4. con'[p].pc = "replay" =>
          page'[p].graph = con'[p].snap /\ page'[p].version = con'[p].version
  BY DEF SameSnapshot
<1>5. QED
  BY <1>1, <1>2, <1>3, <1>4, GraphMoved

(* What a step of its handler leaves alone stays bounded. *)
LEMMA BoundedHeld ==
    ASSUME NEW p \in Pages, Alone(p), SameChannel(p), Bounded(p), con'[p].pc # "off",
           con'[p].head <= Head0, con'[p].upto <= Head0, con'[p].at <= Head0,
           page'[p].cursor <= Head0, page'[p].changes \subseteq 1..page'[p].cursor,
           page'[p].lastId <= Head0, page'[p].url <= Head0
    PROVE  Bounded(p)'
<1>1. Head0' = Head0 /\ con'[p].ch = con[p].ch /\ Len(con[p].ch) <= Buffer
  BY AloneStill DEF SameChannel, Bounded
<1>2. QED
  BY <1>1 DEF Bounded

(* A page of the log is followed by more, or it ends past the cursor of the *)
(* subscription.                                                            *)
LEMMA MoreOrAll ==
    ASSUME TypeInv, NEW k \in Nat, NEW h \in Nat, NEW head \in h..Head0
    PROVE  More(k, head) \/ PageEnd(k) >= h
<1>1. Head0 \in Nat /\ PageSize \in Nat
  BY Typed, LiveAssumption DEF LiveAssumption
<1>2. PageEnd(k) = k + PageSize \/ PageEnd(k) = Head0
  BY DEF PageEnd, Min2
<1>3. PageEnd(k) \in Nat
  BY PageEndTyped
<1>4. CASE PageEnd(k) < head
  <2>1. PageEnd(k) = k + PageSize
    BY <1>1, <1>2, <1>4
  <2>2. QED
    BY <1>4, <2>1 DEF More
<1>5. CASE ~(PageEnd(k) < head)
  BY <1>1, <1>3, <1>5
<1>6. QED
  BY <1>4, <1>5

(* A handler that gives up on a replay, or was not asked for one it can     *)
(* give, is about to write a reset.                                         *)
LEMMA ToReset ==
    ASSUME TypeInv, PollInv, NEW p \in Pages, PageInv(p), Alone(p), SameChannel(p),
           SameSnapshot(p), con[p].pc \notin {"off", "live"},
           con'[p].pc = "reset", ~con'[p].replays, con'[p].at = 0, con'[p].upto = 0,
           page'[p] = page[p], since'[p] = since[p]
    PROVE  PageInv(p)'
<1>1. PICK c \in Handlers, d \in {con'[p]} : c = con[p] /\ d = con'[p]
  BY Typed
<1>2. PICK pg \in PageStates : pg = page[p] /\ pg = page'[p]
  BY Typed
<1>3. PICK s \in Promises : s = since[p] /\ s = since'[p]
  BY Typed
<1>4. d.head = c.head /\ d.silent = c.silent /\ Head0 \in Nat
  BY <1>1, Typed DEF SameSnapshot, SameChannel
<1>5. Bounded(p)'
  <2>1. /\ c.head <= Head0 /\ pg.cursor <= Head0 /\ pg.changes \subseteq 1..pg.cursor
        /\ pg.lastId <= Head0 /\ pg.url <= Head0 /\ Bounded(p)
    BY <1>1, <1>2 DEF PageInv, Bounded
  <2>2. 0 <= Head0
    BY <1>4
  <2>3. QED
    BY <1>1, <1>2, <1>4, <2>1, <2>2, BoundedHeld
<1>6. Ordered(p)'
  BY <1>1, <1>2, <1>4, OrderHeld DEF PageInv
<1>7. ChannelWhole(p)'
  BY <1>1, <1>4, ChannelHeld DEF PageInv
<1>8. PageWhole(p)'
  <2>1. /\ s.named => ShownIn(s.seq, pg.cursor) \subseteq pg.changes
        /\ c.silent => ~s.named
    BY <1>1, <1>2, <1>3 DEF PageInv, PageWhole
  <2>2. ShownIn(s.seq, pg.cursor)' = ShownIn(s.seq, pg.cursor)
    BY AloneStill
  <2>3. QED
    BY <1>1, <1>2, <1>3, <1>4, <2>1, <2>2 DEF PageWhole
<1>9. GraphOf(p)'
  BY GraphHeld DEF PageInv
<1>10. QED
  BY <1>5, <1>6, <1>7, <1>8, <1>9 DEF PageInv

(* A replay that can be given starts where the page has come to. *)
LEMMA ProbeStep ==
    ASSUME TypeInv, PollInv, NEW p \in Pages, PageInv(p), Probe(p)
    PROVE  PageInv(p)'
<1>1. /\ Alone(p) /\ con[p].pc = "probe" /\ SameChannel(p) /\ SameSnapshot(p)
      /\ page'[p] = page[p] /\ since'[p] = since[p]
  BY ProbeEffect
<1>2. CASE con'[p].pc = "reset" /\ ~con'[p].replays /\ con'[p].at = 0 /\ con'[p].upto = 0
  BY <1>1, <1>2, ToReset
<1>3. CASE /\ con'[p].pc = "open" /\ con'[p].replays /\ con[p].after <= con[p].head
           /\ con'[p].at = con[p].after /\ con'[p].upto = PageEnd(con[p].after)
           /\ \E head \in con[p].head..Head0 : con'[p].more = More(con[p].after, head)
  <2>1. PICK c \in Handlers, d \in {con'[p]} : c = con[p] /\ d = con'[p]
    BY Typed
  <2>2. PICK pg \in PageStates : pg = page[p] /\ pg = page'[p]
    BY <1>1, Typed
  <2>3. PICK s \in Promises : s = since[p] /\ s = since'[p]
    BY <1>1, Typed
  <2>4. d.head = c.head /\ d.silent = c.silent /\ Head0 \in Nat /\ c.head \in Nat /\ c.after \in Nat
    BY <1>1, <2>1, Typed, HandlerFields DEF SameSnapshot, SameChannel
  <2>5. PICK head \in c.head..Head0 : d.more = More(c.after, head)
    BY <1>3, <2>1
  <2>6. /\ d.more \/ d.upto >= d.head
        /\ d.upto <= Head0
    <3>1. More(c.after, head) \/ PageEnd(c.after) >= c.head
      BY <2>4, MoreOrAll
    <3>2. PageEnd(c.after) <= Head0
      BY <2>4, PageEndTyped
    <3>3. QED
      BY <1>3, <2>1, <2>4, <2>5, <3>1, <3>2
  <2>7. Bounded(p)'
    <3>1. /\ c.head <= Head0 /\ pg.cursor <= Head0 /\ pg.changes \subseteq 1..pg.cursor
          /\ pg.lastId <= Head0 /\ pg.url <= Head0 /\ Bounded(p)
      BY <2>1, <2>2 DEF PageInv, Bounded
    <3>2. d.at <= Head0
      BY <1>3, <2>1, <2>4, <3>1
    <3>3. QED
      BY <1>1, <1>3, <2>1, <2>2, <2>4, <2>6, <3>1, <3>2, BoundedHeld
  <2>8. Ordered(p)'
    BY <1>1, <1>3, <2>1, <2>2, <2>4, OrderHeld DEF PageInv
  <2>9. ChannelWhole(p)'
    BY <1>1, <1>3, <2>1, <2>4, ChannelHeld DEF PageInv
  <2>10. PageWhole(p)'
    <3>1. /\ s.named => ShownIn(s.seq, pg.cursor) \subseteq pg.changes
          /\ c.silent => ~s.named
          /\ c.after > 0 /\ (s.named => c.after <= pg.cursor)
      BY <1>1, <2>1, <2>2, <2>3 DEF PageInv, PageWhole
    <3>2. ShownIn(s.seq, pg.cursor)' = ShownIn(s.seq, pg.cursor)
      BY <1>1, AloneStill
    <3>3. QED
      BY <1>3, <2>1, <2>2, <2>3, <2>4, <2>6, <3>1, <3>2 DEF PageWhole
  <2>11. GraphOf(p)'
    BY <1>1, <1>3, GraphHeld DEF PageInv
  <2>12. QED
    BY <2>7, <2>8, <2>9, <2>10, <2>11 DEF PageInv
<1>4. QED
  BY <1>2, <1>3, ProbeEffect

(* A reset starts the page over at the cursor of the subscription. *)
LEMMA WriteResetStep ==
    ASSUME TypeInv, PollInv, NEW p \in Pages, PageInv(p), WriteReset(p)
    PROVE  PageInv(p)'
<1>1. PICK c \in Handlers, d \in {con'[p]} : c = con[p] /\ d = con'[p]
  BY Typed
<1>2. PICK pg \in PageStates, new \in {page'[p]} : pg = page[p] /\ new = page'[p]
  BY Typed
<1>3. /\ Alone(p) /\ c.pc = "reset" /\ SameChannel(p) /\ SameSnapshot(p)
      /\ d.pc = "open" /\ d.replays = c.replays
      /\ d.at = c.at /\ d.upto = c.upto /\ d.head = c.head /\ d.silent = c.silent
      /\ new.changes = {} /\ new.cursor = c.head
      /\ new.lastId = pg.lastId /\ new.url = pg.url
      /\ since'[p].seq = c.head /\ since'[p].named = ~c.silent
      /\ c.head \in Nat /\ Head0 \in Nat
  BY <1>1, <1>2, WriteResetEffect, HandlerFields, Typed DEF SameChannel, SameSnapshot
<1>4. Bounded(p)'
  <2>1. /\ c.head <= Head0 /\ c.upto <= Head0 /\ c.at <= Head0
        /\ pg.lastId <= Head0 /\ pg.url <= Head0 /\ Bounded(p)
    BY <1>1, <1>2 DEF PageInv, Bounded
  <2>2. QED
    BY <1>1, <1>2, <1>3, <2>1, BoundedHeld
<1>5. Ordered(p)'
  BY <1>1, <1>2, <1>3, OrderHeld DEF PageInv
<1>6. ChannelWhole(p)'
  BY <1>1, <1>3, ChannelHeld DEF PageInv
<1>7. PageWhole(p)'
  <2>1. ~c.replays
    BY <1>1, <1>3 DEF PageInv, PageWhole
  <2>2. ShownIn(c.head, c.head) = {}
    BY <1>3, ShownNext
  <2>3. ShownIn(c.head, c.head)' = {}
    BY <1>3, <2>2, AloneStill
  <2>4. c.head >= c.head
    BY <1>3
  <2>5. QED
    BY <1>1, <1>2, <1>3, <2>1, <2>3, <2>4 DEF PageWhole
<1>8. GraphOf(p)'
  BY <1>1, <1>3, GraphHeld DEF PageInv
<1>9. QED
  BY <1>4, <1>5, <1>6, <1>7, <1>8 DEF PageInv

(* A snapshot leaves a page's changes alone, unless its cursor is past the  *)
(* snapshot's: what it has then is of another log.  Without a replay        *)
(* nothing lies between what the page has and the channel.                  *)
LEMMA WriteSnapshotStep ==
    ASSUME TypeInv, PollInv, NEW p \in Pages, PageInv(p), WriteSnapshot(p)
    PROVE  PageInv(p)'
<1>1. PICK c \in Handlers, d \in {con'[p]} : c = con[p] /\ d = con'[p]
  BY Typed
<1>2. PICK pg \in PageStates, new \in {page'[p]} : pg = page[p] /\ new = page'[p]
  BY Typed
<1>3. PICK s \in Promises : s = since[p]
  BY Typed
<1>4. PICK t \in Promises : t = since'[p]
  BY WriteSnapshotEffect DEF Alone
<1>5. /\ Alone(p) /\ c.pc = "open" /\ SameChannel(p) /\ d.silent = c.silent
      /\ new.graph = c.snap /\ new.version = c.version
      /\ new.lastId = pg.lastId /\ new.url = pg.url /\ t.named = s.named
  BY <1>1, <1>2, <1>3, <1>4, WriteSnapshotEffect DEF SameChannel
<1>6. /\ c.replays => /\ d.pc = "replay" /\ SameSnapshot(p) /\ d.replays /\ d.head = c.head
                      /\ d.at = c.at /\ d.upto = c.upto /\ d.more = c.more
      /\ ~c.replays => d.pc = "live" /\ d.head = 0 /\ d.at = 0 /\ d.upto = 0
  BY <1>1, WriteSnapshotEffect DEF SameSnapshot
<1>7. /\ IF pg.cursor = 0 \/ c.head < pg.cursor
         THEN new.cursor = c.head /\ t.seq = c.head
         ELSE new.cursor = pg.cursor /\ t.seq = s.seq
      /\ new.changes = IF pg.cursor # 0 /\ c.head < pg.cursor THEN {} ELSE pg.changes
  BY <1>1, <1>2, <1>3, <1>4, WriteSnapshotEffect
<1>8. /\ c.head \in Nat /\ c.at \in Nat /\ pg.cursor \in Nat /\ Head0 \in Nat
      /\ s.seq \in Nat /\ t.seq \in Nat /\ pg.changes \in SUBSET Nat
  BY HandlerFields, PageFields, Typed DEF Promises
<1>9. /\ c.head <= Head0 /\ c.upto <= Head0 /\ c.at <= Head0 /\ Bounded(p)
      /\ pg.cursor <= Head0 /\ pg.changes \subseteq 1..pg.cursor
      /\ pg.lastId <= Head0 /\ pg.url <= Head0
  BY <1>1, <1>2 DEF PageInv, Bounded
<1>10. /\ s.named => ShownIn(s.seq, pg.cursor) \subseteq pg.changes
       /\ c.silent => ~s.named
       /\ ~c.replays /\ s.named => pg.cursor = 0 \/ pg.cursor >= c.head
       /\ c.replays => /\ c.more \/ c.upto >= c.head
                       /\ c.at > 0 /\ c.at <= c.head
                       /\ s.named => c.at <= pg.cursor
  BY <1>1, <1>2, <1>3, <1>5 DEF PageInv, PageWhole
<1>11. new.changes \subseteq 1..new.cursor /\ new.cursor <= Head0 /\ new.changes \subseteq pg.changes
  BY <1>7, <1>8, <1>9
<1>12. Bounded(p)'
  <2>1. d.head <= Head0 /\ d.upto <= Head0 /\ d.at <= Head0 /\ d.pc # "off"
    BY <1>6, <1>8, <1>9
  <2>2. QED
    BY <1>1, <1>2, <1>5, <1>9, <1>11, <2>1, BoundedHeld
<1>13. Ordered(p)'
  <2>1. d.pc # "off" /\ (IF d.pc = "live" THEN d.head = 0 ELSE d.head = c.head)
    BY <1>6
  <2>2. d.pc = "replay" => d.at <= d.head
    BY <1>6, <1>10
  <2>3. QED
    BY <1>1, <1>2, <1>5, <1>11, <2>1, <2>2, OrderHeld DEF PageInv
<1>14. /\ s.named => ShownIn(t.seq, new.cursor) \subseteq new.changes
       /\ s.named /\ ~c.replays => ShownIn(t.seq, c.head) \subseteq new.changes
       /\ s.named /\ c.replays => ShownIn(t.seq, c.at) \subseteq new.changes
  <2>1. CASE pg.cursor = 0 \/ c.head < pg.cursor
    <3>1. ShownIn(c.head, c.head) = {} /\ (c.replays => ShownIn(c.head, c.at) = {})
      BY <1>8, <1>10, ShownNext
    <3>2. QED
      BY <1>7, <2>1, <3>1
  <2>2. CASE ~(pg.cursor = 0 \/ c.head < pg.cursor)
    <3>1. t.seq = s.seq /\ new.cursor = pg.cursor /\ new.changes = pg.changes
      BY <1>7, <2>2
    <3>2. s.named /\ ~c.replays => c.head = pg.cursor
      BY <1>8, <1>10, <2>2
    <3>3. s.named /\ c.replays => ShownIn(s.seq, c.at) \subseteq ShownIn(s.seq, pg.cursor)
      BY <1>8, <1>10, ShownNext
    <3>4. QED
      BY <1>10, <3>1, <3>2, <3>3
  <2>3. QED
    BY <2>1, <2>2
<1>15. ChannelWhole(p)'
  <2>1. CASE c.replays
    BY <1>1, <1>5, <1>6, <2>1, ChannelHeld DEF PageInv
  <2>2. CASE ~c.replays
    BY <1>1, <1>2, <1>4, <1>5, <1>6, <1>10, <1>14, <2>2, ChannelOpens DEF PageInv
  <2>3. QED
    BY <2>1, <2>2
<1>16. PageWhole(p)'
  <2>1. \A a, b : ShownIn(a, b)' = ShownIn(a, b)
    BY <1>5, AloneStill
  <2>2. CASE c.replays
    BY <1>1, <1>2, <1>4, <1>5, <1>6, <1>10, <1>14, <2>1, <2>2 DEF PageWhole
  <2>3. CASE ~c.replays
    BY <1>1, <1>2, <1>4, <1>5, <1>6, <1>10, <1>14, <2>1, <2>3 DEF PageWhole
  <2>4. QED
    BY <2>2, <2>3
<1>17. GraphOf(p)'
  BY <1>1, <1>2, <1>5, <1>6, GraphHeld DEF PageInv
<1>18. QED
  BY <1>12, <1>13, <1>15, <1>16, <1>17 DEF PageInv

(* A replay adds the next event of the log, which is before all that waits. *)
LEMMA ReplayItemStep ==
    ASSUME TypeInv, PollInv, NEW p \in Pages, PageInv(p), ReplayItem(p)
    PROVE  PageInv(p)'
<1>1. PICK c \in Handlers, d \in {con'[p]} : c = con[p] /\ d = con'[p]
  BY Typed
<1>2. PICK pg \in PageStates, new \in {page'[p]} : pg = page[p] /\ new = page'[p]
  BY Typed
<1>3. PICK s \in Promises : s = since[p] /\ s = since'[p]
  BY ReplayItemEffect, Typed
<1>4. /\ Alone(p) /\ c.pc = "replay" /\ c.at < c.upto /\ c.at < c.head
      /\ SameChannel(p) /\ SameSnapshot(p) /\ d.pc = "replay"
      /\ d.replays = c.replays /\ d.upto = c.upto /\ d.more = c.more /\ d.head = c.head
      /\ d.at = c.at + 1 /\ d.silent = c.silent
      /\ new.graph = pg.graph /\ new.version = pg.version /\ new.url = pg.url
  BY <1>1, <1>2, ReplayItemEffect DEF SameChannel, SameSnapshot
<1>5. IF Shown(c.at + 1)
      THEN /\ new.changes = pg.changes \cup {c.at + 1}
           /\ new.cursor = Max2(pg.cursor, c.at + 1) /\ new.lastId = c.at + 1
      ELSE new = pg
  BY <1>1, <1>2, ReplayItemEffect
<1>6. /\ c.head \in Nat /\ c.at \in Nat /\ c.upto \in Nat /\ pg.cursor \in Nat /\ Head0 \in Nat
      /\ s.seq \in Nat /\ pg.changes \in SUBSET Nat
  BY HandlerFields, PageFields, Typed DEF Promises
<1>7. /\ c.head <= Head0 /\ c.upto <= Head0 /\ Bounded(p)
      /\ pg.cursor <= Head0 /\ pg.changes \subseteq 1..pg.cursor
      /\ pg.lastId <= Head0 /\ pg.url <= Head0
  BY <1>1, <1>2 DEF PageInv, Bounded
<1>8. Bounded(p)'
  <2>1. c.at + 1 <= Head0
    BY <1>4, <1>6, <1>7
  <2>2. new.cursor <= Head0 /\ new.changes \subseteq 1..new.cursor /\ new.lastId <= Head0
    <3>1. CASE Shown(c.at + 1)
      BY <1>5, <1>6, <1>7, <2>1, <3>1 DEF Max2
    <3>2. CASE ~Shown(c.at + 1)
      BY <1>5, <1>7, <3>2
    <3>3. QED
      BY <3>1, <3>2
  <2>3. QED
    BY <1>1, <1>2, <1>4, <1>7, <2>1, <2>2, BoundedHeld
<1>9. Ordered(p)'
  <2>1. new.changes \subseteq pg.changes \cup 1..c.head
    BY <1>4, <1>5, <1>6
  <2>2. d.at <= d.head
    BY <1>4, <1>6
  <2>3. QED
    BY <1>1, <1>2, <1>4, <2>1, <2>2, OrderHeld DEF PageInv
<1>10. ChannelWhole(p)'
  BY <1>1, <1>4, ChannelHeld DEF PageInv
<1>11. PageWhole(p)'
  <2>1. /\ s.named => ShownIn(s.seq, pg.cursor) \subseteq pg.changes
        /\ c.silent => ~s.named
        /\ c.replays /\ (c.more \/ c.upto >= c.head) /\ c.at > 0
        /\ s.named => ShownIn(s.seq, c.at) \subseteq pg.changes
    BY <1>1, <1>2, <1>3, <1>4 DEF PageInv, PageWhole
  <2>2. s.named => ShownIn(s.seq, c.at + 1) \subseteq new.changes
    <3>1. /\ ShownIn(s.seq, c.at + 1) \subseteq ShownIn(s.seq, c.at) \cup {c.at + 1}
          /\ ~Shown(c.at + 1) => ShownIn(s.seq, c.at + 1) \subseteq ShownIn(s.seq, c.at)
      BY <1>6, ShownNext
    <3>2. QED
      BY <1>5, <2>1, <3>1
  <2>3. s.named => ShownIn(s.seq, new.cursor) \subseteq new.changes
    <3>1. new.cursor = pg.cursor \/ new.cursor = c.at + 1
      BY <1>5 DEF Max2
    <3>2. pg.changes \subseteq new.changes
      BY <1>5
    <3>3. QED
      BY <2>1, <2>2, <3>1, <3>2
  <2>4. \A a, b : ShownIn(a, b)' = ShownIn(a, b)
    BY <1>4, AloneStill
  <2>5. d.at > 0
    BY <1>4, <1>6
  <2>6. QED
    BY <1>1, <1>2, <1>3, <1>4, <2>1, <2>2, <2>3, <2>4, <2>5 DEF PageWhole
<1>12. GraphOf(p)'
  <2>1. pg.graph = c.snap /\ pg.version = c.version
    BY <1>1, <1>2, <1>4 DEF PageInv, GraphOf
  <2>2. QED
    BY <1>1, <1>2, <1>4, <2>1, GraphHeld DEF PageInv
<1>13. QED
  BY <1>8, <1>9, <1>10, <1>11, <1>12 DEF PageInv

(* A replay that has come to the cursor of the subscription is whole, and   *)
(* one that has not goes on with the next page of the log.                  *)
LEMMA ReplayNextStep ==
    ASSUME TypeInv, PollInv, NEW p \in Pages, PageInv(p), ReplayNext(p)
    PROVE  PageInv(p)'
<1>1. PICK c \in Handlers, d \in {con'[p]} : c = con[p] /\ d = con'[p]
  BY Typed
<1>2. PICK pg \in PageStates : pg = page[p] /\ pg = page'[p]
  BY ReplayNextEffect, Typed
<1>3. PICK s \in Promises : s = since[p] /\ s = since'[p]
  BY ReplayNextEffect, Typed
<1>4. /\ Alone(p) /\ c.pc = "replay" /\ SameChannel(p) /\ d.silent = c.silent
      /\ c.at >= c.upto \/ c.at >= c.head
  BY <1>1, ReplayNextEffect DEF SameChannel
<1>5. /\ c.head \in Nat /\ c.at \in Nat /\ c.upto \in Nat /\ pg.cursor \in Nat /\ Head0 \in Nat
      /\ s.seq \in Nat /\ pg.changes \in SUBSET Nat
  BY HandlerFields, PageFields, Typed DEF Promises
<1>6. /\ c.head <= Head0 /\ c.at <= Head0 /\ Bounded(p)
      /\ pg.cursor <= Head0 /\ pg.changes \subseteq 1..pg.cursor
      /\ pg.lastId <= Head0 /\ pg.url <= Head0
  BY <1>1, <1>2 DEF PageInv, Bounded
<1>7. /\ s.named => ShownIn(s.seq, pg.cursor) \subseteq pg.changes
      /\ c.silent => ~s.named
      /\ c.replays /\ (c.more \/ c.upto >= c.head) /\ c.at > 0
      /\ s.named => ShownIn(s.seq, c.at) \subseteq pg.changes
  BY <1>1, <1>2, <1>3, <1>4 DEF PageInv, PageWhole
<1>8. c.at <= c.head /\ pg.graph = c.snap /\ pg.version = c.version
  BY <1>1, <1>2, <1>4 DEF PageInv, Ordered, GraphOf
<1>9. \A a, b : ShownIn(a, b)' = ShownIn(a, b)
  BY <1>4, AloneStill
<1>10. CASE /\ d.pc = "live" /\ d.head = 0 /\ d.at = 0 /\ d.upto = 0
            /\ ~c.more \/ c.upto >= c.head
  <2>1. Bounded(p)'
    <3>1. 0 <= Head0
      BY <1>5
    <3>2. QED
      BY <1>1, <1>2, <1>4, <1>6, <1>10, <3>1, BoundedHeld
  <2>2. Ordered(p)'
    BY <1>1, <1>2, <1>4, <1>10, OrderHeld DEF PageInv
  <2>3. ChannelWhole(p)'
    <3>1. c.at = c.head
      BY <1>4, <1>5, <1>7, <1>8, <1>10
    <3>2. s.named => ~c.silent /\ ShownIn(s.seq, c.head) \subseteq pg.changes
      BY <1>7, <3>1
    <3>3. QED
      BY <1>1, <1>2, <1>3, <1>4, <1>10, <3>2, ChannelOpens DEF PageInv
  <2>4. PageWhole(p)'
    BY <1>1, <1>2, <1>3, <1>4, <1>7, <1>9, <1>10 DEF PageWhole
  <2>5. GraphOf(p)'
    BY <1>1, <1>2, <1>4, <1>8, <1>10, GraphHeld DEF PageInv
  <2>6. QED
    BY <2>1, <2>2, <2>3, <2>4, <2>5 DEF PageInv
<1>11. CASE d.pc = "reset" /\ SameSnapshot(p) /\ ~d.replays /\ d.at = 0 /\ d.upto = 0
  BY <1>1, <1>2, <1>3, <1>4, <1>11, ToReset
<1>12. CASE /\ d.pc = "replay" /\ SameSnapshot(p) /\ d.replays = c.replays
            /\ d.at = c.at /\ d.upto = PageEnd(c.upto)
            /\ \E head \in c.head..Head0 : d.more = More(c.upto, head)
  <2>1. d.head = c.head
    BY <1>1, <1>12 DEF SameSnapshot
  <2>2. (d.more \/ d.upto >= d.head) /\ d.upto <= Head0
    <3>1. PICK head \in c.head..Head0 : d.more = More(c.upto, head)
      BY <1>12
    <3>2. More(c.upto, head) \/ PageEnd(c.upto) >= c.head
      BY <1>5, MoreOrAll
    <3>3. PageEnd(c.upto) <= Head0
      BY <1>5, PageEndTyped
    <3>4. QED
      BY <1>12, <2>1, <3>1, <3>2, <3>3
  <2>3. Bounded(p)'
    BY <1>1, <1>2, <1>4, <1>6, <1>12, <2>1, <2>2, BoundedHeld
  <2>4. Ordered(p)'
    BY <1>1, <1>2, <1>4, <1>8, <1>12, <2>1, OrderHeld DEF PageInv
  <2>5. ChannelWhole(p)'
    BY <1>1, <1>4, <1>12, <2>1, ChannelHeld DEF PageInv
  <2>6. PageWhole(p)'
    BY <1>1, <1>2, <1>3, <1>4, <1>7, <1>9, <1>12, <2>2 DEF PageWhole
  <2>7. GraphOf(p)'
    BY <1>1, <1>2, <1>4, <1>8, <1>12, GraphHeld DEF PageInv
  <2>8. QED
    BY <2>3, <2>4, <2>5, <2>6, <2>7 DEF PageInv
<1>13. QED
  BY <1>1, <1>10, <1>11, <1>12, ReplayNextEffect

(* A page that opens a stream hears from the hub's cursor on; what it named *)
(* is the point it has come to, or nothing is promised to it.               *)
LEMMA ConnectStep ==
    ASSUME TypeInv, PollInv, NEW p \in Pages, NEW reopens \in BOOLEAN, PageInv(p),
           Connect(p, reopens)
    PROVE  PageInv(p)'
<1>1. PICK d \in Handlers : d = con'[p]
  BY ConnectEffect DEF Alone
<1>2. PICK pg \in PageStates, new \in {page'[p]} : pg = page[p] /\ new = page'[p]
  BY Typed
<1>3. PICK s \in Promises, t \in {since'[p]} : s = since[p] /\ t = since'[p]
  BY Typed
<1>4. /\ Alone(p) /\ HubFree
      /\ d.pc \in {"probe", "open"} /\ d.ch = << >> /\ ~d.dropped
      /\ d.head = hub.cursor /\ d.snap = hub.snap /\ d.version = hub.version
      /\ ~d.replays /\ d.at = 0 /\ d.upto = 0 /\ ~d.silent
      /\ d.pc = "probe" => d.after > 0
      /\ d.pc = "open" => d.after = 0 \/ d.after = hub.cursor
  BY <1>1, ConnectEffect
<1>5. /\ new.cursor = pg.cursor /\ new.changes = pg.changes
      /\ new.lastId \in {0, pg.lastId} /\ new.url \in {pg.url, pg.cursor}
      /\ t.seq = s.seq
      /\ t.named => /\ s.named
                    /\ d.after = pg.cursor \/ (0 < d.after /\ d.after < pg.cursor)
  BY <1>1, <1>2, <1>3, ConnectEffect
<1>6. PICK f \in Nat : /\ f = Frontier /\ f = Frontier' /\ f = hub.cursor /\ f <= Head0
                       /\ hub' = hub /\ poll' = poll
  BY <1>4, AloneStill, FrontierTyped DEF HubFree, Frontier, Alone
<1>7. /\ d.after \in Nat /\ pg.cursor \in Nat /\ Head0 \in Nat /\ Head0' = Head0
      /\ s.seq \in Nat /\ Buffer \in Nat /\ poll.cursor \in Int
  BY <1>4, HandlerFields, PageFields, Typed, AloneStill, LiveAssumption
     DEF Promises, LiveAssumption
<1>8. Len(<< >>) = 0 /\ 1..0 = {}
  OBVIOUS
<1>9. Bounded(p)'
  <2>1. /\ pg.cursor <= Head0 /\ pg.changes \subseteq 1..pg.cursor
        /\ pg.lastId <= Head0 /\ pg.url <= Head0
    BY <1>2 DEF PageInv, Bounded
  <2>2. 0 <= Head0 /\ 0 <= Buffer /\ d.head <= Head0 /\ d.pc # "off"
    BY <1>4, <1>6, <1>7
  <2>3. QED
    BY <1>1, <1>2, <1>4, <1>5, <1>7, <1>8, <2>1, <2>2 DEF Bounded
<1>10. Ordered(p)'
  <2>1. /\ OnlyDeltas(<< >>) /\ Within(<< >>, f) /\ InOrder(<< >>) /\ \A i : After(<< >>, i)
    BY <1>8 DEF OnlyDeltas, Within, InOrder, After
  <2>2. poll.cursor >= 0 => pg.changes \subseteq 1..f
    BY <1>2, <1>6 DEF PageInv, Ordered
  <2>3. d.head <= f /\ d.pc # "replay"
    BY <1>4, <1>6
  <2>4. QED
    BY <1>1, <1>2, <1>4, <1>5, <1>6, <2>1, <2>2, <2>3 DEF Ordered
<1>11. ChannelWhole(p)'
  <2>1. Stretch(<< >>, 0, f, {}, TRUE, f)
    <3>1. ShownIn(f, f) = {}
      BY <1>6, ShownNext
    <3>2. QED
      BY <1>8, <3>1 DEF Stretch, Covers
  <2>2. Stretches(<< >>, TRUE, f)
    BY <1>8 DEF Stretches
  <2>3. Stretch(<< >>, 0, f, {}, TRUE, f)' /\ Stretches(<< >>, TRUE, f)'
    BY <1>4, <2>1, <2>2, AloneStill
  <2>4. (~d.dropped) = TRUE /\ d.pc # "live"
    BY <1>4
  <2>5. QED
    BY <1>1, <1>4, <1>6, <2>3, <2>4 DEF ChannelWhole, Start, Held
<1>12. PageWhole(p)'
  <2>1. s.named => ShownIn(s.seq, pg.cursor) \subseteq pg.changes
    BY <1>2, <1>3 DEF PageInv, PageWhole
  <2>2. ShownIn(s.seq, pg.cursor)' = ShownIn(s.seq, pg.cursor)
    BY <1>4, AloneStill
  <2>3. t.named => d.after <= pg.cursor
    BY <1>5, <1>7
  <2>4. d.pc = "open" /\ t.named => pg.cursor = 0 \/ pg.cursor >= d.head
    BY <1>4, <1>5, <1>6, <1>7
  <2>5. QED
    BY <1>1, <1>2, <1>3, <1>4, <1>5, <2>1, <2>2, <2>3, <2>4 DEF PageWhole
<1>13. GraphOf(p)'
  <2>1. Versions(<< >>, Announced') /\ \A v, n : News(<< >>, v, n) = {}
    BY <1>8 DEF Versions, News
  <2>2. hub'.version = hub.version /\ hub'.snap = hub.snap /\ hub.version \in Nat
    BY <1>6, Typed
  <2>3. Version(p)' = hub.version /\ Base(p)' = hub.snap
    BY <1>1, <1>4 DEF Version, Base
  <2>4. \A n : Brings(<< >>, hub.version, hub.snap, hub.snap, n)
    BY <2>1 DEF Brings
  <2>5. hub.version <= hub.version /\ d.pc # "replay"
    BY <1>4, <2>2
  <2>6. QED
    BY <1>1, <1>4, <2>1, <2>2, <2>3, <2>4, <2>5 DEF GraphOf
<1>14. QED
  BY <1>9, <1>10, <1>11, <1>12, <1>13 DEF PageInv

(* A change that is read continues what the page has.                       *)
LEMMA ChangeRead ==
    ASSUME TypeInv, PollInv, NEW p \in Pages, PageInv(p), Live(p), IsChange(con[p].ch, 1)
    PROVE  Bounded(p)' /\ Ordered(p)' /\ ChannelWhole(p)' /\ PageWhole(p)'
<1>1. PICK c \in Handlers, d \in {con'[p]} : c = con[p] /\ d = con'[p]
  BY Typed
<1>2. PICK pg \in PageStates, new \in {page'[p]} : pg = page[p] /\ new = page'[p]
  BY Typed
<1>3. PICK s \in Promises : s = since[p] /\ s = since'[p]
  BY LiveEffect, Typed
<1>4. PICK f \in Nat : f = Frontier /\ f = Frontier' /\ f <= Head0
  BY LiveEffect, AloneStill, FrontierTyped
<1>5. /\ c.ch \in Seq(Messages) /\ c.ch # << >> /\ Len(c.ch) \in Nat /\ 1 \in 1..Len(c.ch)
      /\ Len(Tail(c.ch)) = Len(c.ch) - 1
  <2>1. c.ch \in Seq(Messages) /\ c.ch # << >>
    BY <1>1, LiveEffect, HandlerFields
  <2>2. QED
    BY <2>1, Taken
<1>6. PICK i \in Nat : i = c.ch[1].seq /\ i > 0
  BY <1>1, <1>5, ChannelFields
<1>7. ~IsReset(c.ch, 1) /\ ~IsDelta(c.ch, 1) /\ IsChange(c.ch, 1)
  BY <1>1, <1>5, ChannelFields
<1>8. /\ Alone(p) /\ c.pc = "live" /\ d.ch = Tail(c.ch) /\ d.dropped = c.dropped
      /\ new.url = pg.url
      /\ d.pc = "live" /\ d.head = c.head /\ d.at = c.at /\ d.upto = c.upto
      /\ d.silent = c.silent
      /\ new.changes = pg.changes \cup {i} /\ new.cursor = Max2(pg.cursor, i)
      /\ new.lastId = i
  BY <1>1, <1>2, <1>6, <1>7, LiveEffect
<1>9. /\ pg.cursor \in Nat /\ Head0 \in Nat /\ Head0' = Head0 /\ s.seq \in Nat
      /\ pg.changes \in SUBSET Nat /\ poll.cursor \in Int /\ poll' = poll /\ Buffer \in Nat
  BY <1>8, PageFields, Typed, AloneStill, LiveAssumption DEF Promises, Alone, LiveAssumption
<1>10. /\ Within(c.ch, f) /\ InOrder(c.ch) /\ \A j \in pg.changes : After(c.ch, j)
       /\ poll.cursor < 0 => OnlyDeltas(c.ch)
       /\ poll.cursor >= 0 => pg.changes \subseteq 1..f
       /\ c.head <= f
  BY <1>1, <1>2, <1>4, <1>8 DEF PageInv, Ordered
<1>11. /\ Within(d.ch, f) /\ InOrder(d.ch)
       /\ \A j : After(c.ch, j) => After(d.ch, j)
       /\ OnlyDeltas(c.ch) => OnlyDeltas(d.ch)
       /\ After(d.ch, i) /\ i <= f
  BY <1>5, <1>6, <1>7, <1>8, <1>10, OrderTaken
<1>12. Bounded(p)'
  <2>1. /\ c.head <= Head0 /\ c.upto <= Head0 /\ c.at <= Head0
        /\ pg.cursor <= Head0 /\ pg.changes \subseteq 1..pg.cursor
        /\ pg.url <= Head0 /\ Len(c.ch) <= Buffer
    BY <1>1, <1>2 DEF PageInv, Bounded
  <2>2. /\ new.cursor <= Head0 /\ new.changes \subseteq 1..new.cursor /\ new.lastId <= Head0
    <3>1. i <= Head0
      BY <1>4, <1>9, <1>11
    <3>2. new.cursor \in Nat /\ pg.cursor <= new.cursor /\ i <= new.cursor /\ new.cursor <= Head0
      BY <1>8, <1>9, <2>1, <3>1 DEF Max2
    <3>3. pg.changes \subseteq 1..new.cursor /\ i \in 1..new.cursor
      BY <1>6, <1>9, <2>1, <3>2
    <3>4. QED
      BY <1>8, <3>1, <3>2, <3>3
  <2>3. Len(d.ch) <= Buffer
    BY <1>5, <1>8, <1>9, <2>1
  <2>4. d.pc # "off"
    BY <1>8
  <2>5. QED
    BY <1>1, <1>2, <1>8, <1>9, <2>1, <2>2, <2>3, <2>4 DEF Bounded
<1>13. Ordered(p)'
  <2>1. poll.cursor >= 0 => new.changes \subseteq 1..f
    BY <1>6, <1>8, <1>10, <1>11
  <2>2. \A j \in new.changes : After(d.ch, j)
    BY <1>8, <1>10, <1>11
  <2>3. poll.cursor < 0 => OnlyDeltas(d.ch)
    BY <1>10, <1>11
  <2>4. d.pc = "live" /\ d.head <= f
    BY <1>8, <1>10
  <2>5. QED
    BY <1>1, <1>2, <1>4, <1>9, <1>11, <2>1, <2>2, <2>3, <2>4 DEF Ordered
<1>14. /\ s.named => Stretch(c.ch, 0, s.seq, pg.changes, ~c.dropped, f)
       /\ Stretches(c.ch, ~c.dropped, f)
  BY <1>1, <1>2, <1>3, <1>4, <1>8 DEF PageInv, ChannelWhole, Promised, Start, Held
<1>15. ChannelWhole(p)'
  <2>1. Stretches(d.ch, ~c.dropped, f)
    BY <1>5, <1>8, <1>14, StretchesTaken
  <2>2. s.named => Stretch(d.ch, 0, s.seq, new.changes, ~c.dropped, f)
    <3>1. pg.changes \subseteq new.changes /\ c.ch[1].seq \in new.changes
      BY <1>6, <1>8
    <3>2. QED
      BY <1>5, <1>7, <1>8, <1>9, <1>14, <3>1, StretchRead
  <2>3. /\ Stretches(d.ch, ~c.dropped, f)'
        /\ s.named => Stretch(d.ch, 0, s.seq, new.changes, ~c.dropped, f)'
    BY <1>8, <2>1, <2>2, AloneStill
  <2>4. QED
    BY <1>1, <1>2, <1>3, <1>4, <1>8, <2>3 DEF ChannelWhole, Promised, Start, Held
<1>16. PageWhole(p)'
  <2>1. /\ s.named => ShownIn(s.seq, pg.cursor) \subseteq pg.changes
        /\ c.silent => ~s.named
    BY <1>1, <1>2, <1>3 DEF PageInv, PageWhole
  <2>2. s.named => ShownIn(s.seq, i) \subseteq new.changes
    <3> SUFFICES ASSUME s.named
                 PROVE  ShownIn(s.seq, i) \subseteq new.changes
      OBVIOUS
    <3>1. 1 \in 0 + 1 .. Len(c.ch) /\ NoReset(c.ch, 0, 1)
      BY <1>5, <1>7 DEF NoReset
    <3>2. Covers(c.ch, 0, 1, s.seq, i, pg.changes)
      BY <1>6, <1>7, <1>14, <3>1 DEF Stretch
    <3>3. \A k \in 0 + 1 .. 1 : k = 1
      OBVIOUS
    <3>4. QED
      BY <1>6, <1>8, <3>2, <3>3 DEF Covers
  <2>3. s.named => ShownIn(s.seq, new.cursor) \subseteq new.changes
    <3>1. new.cursor = pg.cursor \/ new.cursor = i
      BY <1>8 DEF Max2
    <3>2. pg.changes \subseteq new.changes
      BY <1>8
    <3>3. QED
      BY <2>1, <2>2, <3>1, <3>2
  <2>4. ShownIn(s.seq, new.cursor)' = ShownIn(s.seq, new.cursor)
    BY <1>8, AloneStill
  <2>5. QED
    BY <1>1, <1>2, <1>3, <1>8, <2>1, <2>3, <2>4 DEF PageWhole
<1>17. QED
  BY <1>12, <1>13, <1>15, <1>16

(* A delta that is read says nothing of the changes. *)
LEMMA DeltaRead ==
    ASSUME TypeInv, PollInv, NEW p \in Pages, PageInv(p), Live(p), IsDelta(con[p].ch, 1)
    PROVE  Bounded(p)' /\ Ordered(p)' /\ ChannelWhole(p)' /\ PageWhole(p)'
<1>1. PICK c \in Handlers, d \in {con'[p]} : c = con[p] /\ d = con'[p]
  BY Typed
<1>2. PICK pg \in PageStates, new \in {page'[p]} : pg = page[p] /\ new = page'[p]
  BY Typed
<1>3. PICK s \in Promises : s = since[p] /\ s = since'[p]
  BY LiveEffect, Typed
<1>4. PICK f \in Nat : f = Frontier /\ f = Frontier' /\ f <= Head0
  BY LiveEffect, AloneStill, FrontierTyped
<1>5. /\ c.ch \in Seq(Messages) /\ c.ch # << >> /\ Len(c.ch) \in Nat /\ 1 \in 1..Len(c.ch)
      /\ Len(Tail(c.ch)) = Len(c.ch) - 1
  <2>1. c.ch \in Seq(Messages) /\ c.ch # << >>
    BY <1>1, LiveEffect, HandlerFields
  <2>2. QED
    BY <2>1, Taken
<1>6. ~IsReset(c.ch, 1) /\ ~IsChange(c.ch, 1) /\ IsDelta(c.ch, 1)
  BY <1>1, <1>5, ChannelFields
<1>7. /\ Alone(p) /\ c.pc = "live" /\ d.ch = Tail(c.ch) /\ d.dropped = c.dropped
      /\ new.url = pg.url
      /\ d.pc = "live" /\ d.head = c.head /\ d.at = c.at /\ d.upto = c.upto
      /\ d.silent = c.silent
      /\ new.changes = pg.changes /\ new.cursor = pg.cursor /\ new.lastId = pg.lastId
  BY <1>1, <1>2, <1>6, LiveEffect
<1>8. /\ s.seq \in Nat /\ Head0' = Head0 /\ poll' = poll /\ Buffer \in Nat
  BY <1>7, Typed, AloneStill, LiveAssumption DEF Promises, Alone, LiveAssumption
<1>9. /\ Within(c.ch, f) /\ InOrder(c.ch) /\ \A j \in pg.changes : After(c.ch, j)
      /\ poll.cursor < 0 => OnlyDeltas(c.ch)
      /\ poll.cursor >= 0 => pg.changes \subseteq 1..f
      /\ c.head <= f
  BY <1>1, <1>2, <1>4, <1>7 DEF PageInv, Ordered
<1>10. /\ Within(d.ch, f) /\ InOrder(d.ch)
       /\ \A j : After(c.ch, j) => After(d.ch, j)
       /\ OnlyDeltas(c.ch) => OnlyDeltas(d.ch)
  BY <1>5, <1>7, <1>9, OrderTaken
<1>11. Bounded(p)'
  <2>1. /\ c.head <= Head0 /\ c.upto <= Head0 /\ c.at <= Head0
        /\ pg.cursor <= Head0 /\ pg.changes \subseteq 1..pg.cursor
        /\ pg.lastId <= Head0 /\ pg.url <= Head0 /\ Len(c.ch) <= Buffer
    BY <1>1, <1>2 DEF PageInv, Bounded
  <2>2. Len(d.ch) <= Buffer
    BY <1>5, <1>7, <1>8, <2>1
  <2>3. d.pc # "off"
    BY <1>7
  <2>4. QED
    BY <1>1, <1>2, <1>7, <1>8, <2>1, <2>2, <2>3 DEF Bounded
<1>12. Ordered(p)'
  BY <1>1, <1>2, <1>4, <1>7, <1>8, <1>9, <1>10 DEF Ordered
<1>13. ChannelWhole(p)'
  <2>1. /\ s.named => Stretch(c.ch, 0, s.seq, pg.changes, ~c.dropped, f)
        /\ Stretches(c.ch, ~c.dropped, f)
    BY <1>1, <1>2, <1>3, <1>4, <1>7 DEF PageInv, ChannelWhole, Promised, Start, Held
  <2>2. Stretches(d.ch, ~c.dropped, f)
    BY <1>5, <1>7, <2>1, StretchesTaken
  <2>3. s.named => Stretch(d.ch, 0, s.seq, pg.changes, ~c.dropped, f)
    <3>1. pg.changes \subseteq pg.changes
      OBVIOUS
    <3>2. QED
      BY <1>5, <1>6, <1>7, <1>8, <2>1, <3>1, StretchRead
  <2>4. /\ Stretches(d.ch, ~c.dropped, f)'
        /\ s.named => Stretch(d.ch, 0, s.seq, pg.changes, ~c.dropped, f)'
    BY <1>7, <2>2, <2>3, AloneStill
  <2>5. QED
    BY <1>1, <1>2, <1>3, <1>4, <1>7, <2>4 DEF ChannelWhole, Promised, Start, Held
<1>14. PageWhole(p)'
  <2>1. /\ s.named => ShownIn(s.seq, pg.cursor) \subseteq pg.changes
        /\ c.silent => ~s.named
    BY <1>1, <1>2, <1>3 DEF PageInv, PageWhole
  <2>2. ShownIn(s.seq, pg.cursor)' = ShownIn(s.seq, pg.cursor)
    BY <1>7, AloneStill
  <2>3. QED
    BY <1>1, <1>2, <1>3, <1>7, <2>1, <2>2 DEF PageWhole
<1>15. QED
  BY <1>11, <1>12, <1>13, <1>14

(* A reset that is read ends the stretch of the page; the one it begins is  *)
(* whole.                                                                   *)
LEMMA ResetRead ==
    ASSUME TypeInv, PollInv, NEW p \in Pages, PageInv(p), Live(p), IsReset(con[p].ch, 1)
    PROVE  Bounded(p)' /\ Ordered(p)' /\ ChannelWhole(p)' /\ PageWhole(p)'
<1>1. PICK c \in Handlers, d \in {con'[p]} : c = con[p] /\ d = con'[p]
  BY Typed
<1>2. PICK pg \in PageStates : pg = page[p]
  BY Typed
<1>3. PICK s \in Promises : s = since[p] /\ s = since'[p]
  BY LiveEffect, Typed
<1>4. PICK f \in Nat : f = Frontier /\ f = Frontier' /\ f <= Head0
  BY LiveEffect, AloneStill, FrontierTyped
<1>5. /\ c.ch \in Seq(Messages) /\ c.ch # << >> /\ Len(c.ch) \in Nat /\ 1 \in 1..Len(c.ch)
      /\ Len(Tail(c.ch)) = Len(c.ch) - 1
  <2>1. c.ch \in Seq(Messages) /\ c.ch # << >>
    BY <1>1, LiveEffect, HandlerFields
  <2>2. QED
    BY <2>1, Taken
<1>6. ~IsDelta(c.ch, 1) /\ ~IsChange(c.ch, 1) /\ IsReset(c.ch, 1)
  BY <1>1, <1>5, ChannelFields
<1>7. PICK h \in Nat : h = c.ch[1].head
  BY <1>5, <1>6, ChannelFields
<1>8. /\ Alone(p) /\ c.pc = "live" /\ d.ch = Tail(c.ch) /\ d.dropped = c.dropped
      /\ d.pc = "reset" /\ d.head = h /\ d.at = 0 /\ d.upto = 0
      /\ ~d.silent /\ ~d.replays /\ page'[p] = pg
  BY <1>1, <1>2, <1>6, <1>7, LiveEffect
<1>9. /\ Head0' = Head0 /\ Head0 \in Nat /\ poll' = poll /\ Buffer \in Nat
  BY <1>8, Typed, AloneStill, LiveAssumption DEF Alone, LiveAssumption
<1>10. /\ Within(c.ch, f) /\ InOrder(c.ch) /\ \A j \in pg.changes : After(c.ch, j)
       /\ poll.cursor < 0 => OnlyDeltas(c.ch)
       /\ poll.cursor >= 0 => pg.changes \subseteq 1..f
  BY <1>1, <1>2, <1>4 DEF PageInv, Ordered
<1>11. /\ Within(d.ch, f) /\ InOrder(d.ch)
       /\ \A j : After(c.ch, j) => After(d.ch, j)
       /\ OnlyDeltas(c.ch) => OnlyDeltas(d.ch)
       /\ After(d.ch, h) /\ h <= f
  BY <1>5, <1>6, <1>7, <1>8, <1>10, OrderTaken
<1>12. Bounded(p)'
  <2>1. /\ pg.cursor <= Head0 /\ pg.changes \subseteq 1..pg.cursor
        /\ pg.lastId <= Head0 /\ pg.url <= Head0 /\ Len(c.ch) <= Buffer
    BY <1>1, <1>2 DEF PageInv, Bounded
  <2>2. Len(d.ch) <= Buffer
    BY <1>5, <1>8, <1>9, <2>1
  <2>3. h <= Head0 /\ 0 <= Head0
    BY <1>4, <1>9, <1>11
  <2>4. d.pc # "off"
    BY <1>8
  <2>5. QED
    BY <1>1, <1>2, <1>8, <1>9, <2>1, <2>2, <2>3, <2>4 DEF Bounded
<1>13. Ordered(p)'
  BY <1>1, <1>2, <1>4, <1>8, <1>9, <1>10, <1>11 DEF Ordered
<1>14. ChannelWhole(p)'
  <2>1. Stretches(c.ch, ~c.dropped, f)
    BY <1>1, <1>4 DEF PageInv, ChannelWhole
  <2>2. Stretches(d.ch, ~c.dropped, f)
    BY <1>5, <1>8, <2>1, StretchesTaken
  <2>3. Stretch(d.ch, 0, h, {}, ~c.dropped, f)
    <3>1. Stretch(c.ch, 0 + 1, h, {}, ~c.dropped, f)
      BY <1>5, <1>6, <1>7, <2>1 DEF Stretches
    <3>2. 0 \in 0..Len(c.ch) - 1
      BY <1>5
    <3>3. QED
      BY <1>5, <1>8, <3>1, <3>2, StretchTaken
  <2>4. Stretches(d.ch, ~c.dropped, f)' /\ Stretch(d.ch, 0, h, {}, ~c.dropped, f)'
    BY <1>8, <2>2, <2>3, AloneStill
  <2>5. QED
    BY <1>1, <1>4, <1>8, <2>4 DEF ChannelWhole, Start, Held
<1>15. PageWhole(p)'
  <2>1. s.named => ShownIn(s.seq, pg.cursor) \subseteq pg.changes
    BY <1>2, <1>3 DEF PageInv, PageWhole
  <2>2. ShownIn(s.seq, pg.cursor)' = ShownIn(s.seq, pg.cursor)
    BY <1>8, AloneStill
  <2>3. QED
    BY <1>1, <1>2, <1>3, <1>8, <2>1, <2>2 DEF PageWhole
<1>16. QED
  BY <1>12, <1>13, <1>14, <1>15

(* A page that reads its channel. *)
LEMMA LiveStep ==
    ASSUME TypeInv, PollInv, NEW p \in Pages, PageInv(p), Live(p)
    PROVE  PageInv(p)'
<1>1. IsChange(con[p].ch, 1) \/ IsDelta(con[p].ch, 1) \/ IsReset(con[p].ch, 1)
  BY LiveEffect
<1>2. Bounded(p)' /\ Ordered(p)' /\ ChannelWhole(p)' /\ PageWhole(p)'
  BY <1>1, ChangeRead, DeltaRead, ResetRead
<1>3. GraphOf(p)'
  BY GraphTaken DEF PageInv
<1>4. QED
  BY <1>2, <1>3 DEF PageInv

(* A page whose connection ends. *)
LEMMA LeaveStep ==
    ASSUME TypeInv, PollInv, NEW p \in Pages, PageInv(p), CutOff(p) \/ Break(p)
    PROVE  PageInv(p)'
<1>1. Alone(p) /\ con'[p] = Off /\ page'[p] = page[p] /\ since'[p] = since[p]
  BY OffEffect
<1>2. log' = log /\ poll' = poll /\ Frontier' = Frontier
  BY <1>1, AloneStill DEF Alone
<1>3. poll'.cursor >= 0 => page[p].changes \subseteq 1..Frontier'
  BY <1>2 DEF PageInv, Ordered
<1>4. QED
  BY <1>1, <1>2, <1>3, PageOff DEF PageInv

-----------------------------------------------------------------------------
(* Every step *)

(* A step that sends nothing and leaves a page's handler alone. *)
LEMMA RestingStep ==
    ASSUME TypeInv, PollInv, TypeInv', NEW p \in Pages, PageInv(p), KeptPage(p),
           Frontier' = Frontier, poll'.cursor < 0 <=> poll.cursor < 0,
           log' = log \/ \E kind : log' = Append(log, kind), Head0 <= Head0'
    PROVE  /\ Bounded(p)' /\ Ordered(p)' /\ ChannelWhole(p)' /\ PageWhole(p)'
           /\ GraphResting => GraphOf(p)'
<1>1. Head0' \in Nat
  BY DEF TypeInv, Head0
<1>2. poll'.cursor \in Int
  <2>1. poll' \in PollStates
    BY DEF TypeInv
  <2>2. QED
    BY <2>1 DEF PollStates
<1>3. Bounded(p)' /\ Ordered(p)' /\ ChannelWhole(p)' /\ PageWhole(p)'
  BY <1>1, <1>2, PageKept DEF PageInv
<1>4. GraphResting => GraphOf(p)'
  <2>1. SameStream(p) /\ page'[p] = page[p]
    BY DEF KeptPage, SameStream
  <2>2. QED
    BY <2>1, GraphKept DEF PageInv
<1>5. QED
  BY <1>3, <1>4

(* A step of one page's handler does nothing to another page. *)
LEMMA OthersKept ==
    ASSUME TypeInv, PollInv, TypeInv', NEW p \in Pages, NEW q \in Pages, q # p, Alone(p),
           PageInv(q)
    PROVE  PageInv(q)'
<1>1. KeptPage(q) /\ hub' = hub /\ poll' = poll /\ log' = log
  BY DEF Alone, KeptPage
<1>2. Frontier' = Frontier /\ Head0' = Head0 /\ Head0 \in Nat
  BY AloneStill, Typed
<1>3. Head0 <= Head0' /\ GraphResting
  BY <1>1, <1>2 DEF GraphResting
<1>4. QED
  BY <1>1, <1>2, <1>3, RestingStep DEF PageInv

(* A server that is started again has no streams, and pages keep what they  *)
(* have.                                                                    *)
LEMMA RestartPage ==
    ASSUME TypeInv, NEW asked \in BOOLEAN, NEW read \in BOOLEAN, Restart(asked, read),
           NEW p \in Pages, PageInv(p)
    PROVE  PageInv(p)'
<1>1. /\ con'[p] = Off /\ page'[p] = page[p] /\ since'[p] = since[p] /\ log' = log
      /\ poll'.cursor >= 0 => Frontier' = Head0
  BY RestartStep
<1>2. poll'.cursor >= 0 => page[p].changes \subseteq 1..Frontier'
  <2>1. PICK pg \in PageStates : pg = page[p]
    BY Typed
  <2>2. pg.changes \subseteq 1..pg.cursor /\ pg.cursor <= Head0
    BY <2>1 DEF PageInv, Bounded
  <2>3. pg.cursor \in Nat /\ Head0 \in Nat
    BY PageFields, Typed
  <2>4. pg.changes \subseteq 1..Head0
    BY <2>2, <2>3
  <2>5. QED
    BY <1>1, <2>1, <2>4
<1>3. QED
  BY <1>1, <1>2, PageOff DEF PageInv

(* What is said of a page stays true in every step of the system. *)
LEMMA PageStep ==
    ASSUME LiveInv, [Next]_vars, NEW p \in Pages
    PROVE  PageInv(p)'
<1>1. TypeInv /\ PollInv /\ PageInv(p) /\ \A q \in Pages : Len(con[q].ch) <= Buffer
  BY DEF LiveInv, PageInv, Bounded
<1>2. TypeInv' /\ PollInv'
  BY <1>1, TypeStep, PollStep
<1>3. Head0 \in Nat
  BY <1>1, Typed
<1>4. ASSUME Resting
      PROVE  /\ Bounded(p)' /\ Ordered(p)' /\ ChannelWhole(p)' /\ PageWhole(p)'
             /\ GraphResting => GraphOf(p)'
  <2>1. KeptPage(p)
    BY <1>4 DEF Resting, KeptPage
  <2>2. QED
    BY <1>1, <1>2, <1>4, <2>1, RestingStep DEF Resting
<1>5. ASSUME NEW m, m.is # "delta", Sending(m), GraphResting
      PROVE  PageInv(p)'
  <2>1. Bounded(p)' /\ Ordered(p)' /\ ChannelWhole(p)' /\ PageWhole(p)'
    BY <1>1, <1>2, <1>5, PageSent DEF PageInv
  <2>2. GraphOf(p)'
    BY <1>1, <1>5, GraphPlainSent DEF PageInv
  <2>3. QED
    BY <2>1, <2>2 DEF PageInv
<1>6. CASE \/ \E kind \in Kinds : Commit(kind)
           \/ Prune \/ Tick \/ FeedFails \/ ReadFails \/ PublishDone
           \/ \E due \in BOOLEAN : FeedPage(due)
  <2>1. Resting /\ GraphResting
    BY <1>1, <1>6, LogSteps, TickSteps, FeedPageStep, PublishDoneStep
  <2>2. QED
    BY <1>4, <2>1 DEF PageInv
<1>7. CASE ReadGraph
  <2>1. Resting
    BY <1>1, <1>7, ReadGraphStep
  <2>2. GraphOf(p)'
    BY <1>1, <1>7, GraphRead DEF PageInv
  <2>3. QED
    BY <1>4, <2>1, <2>2 DEF PageInv
<1>8. CASE FeedPruned
  <2>1. GraphResting /\ \E m : m.is # "delta" /\ Sending(m)
    BY <1>1, <1>8, FeedPrunedStep
  <2>2. QED
    BY <1>5, <2>1
<1>9. CASE SendDelta
  <2>1. \E m : Sending(m)
    BY <1>1, <1>9, SendDeltaStep
  <2>2. Bounded(p)' /\ Ordered(p)' /\ ChannelWhole(p)' /\ PageWhole(p)'
    BY <1>1, <1>2, <2>1, PageSent DEF PageInv
  <2>3. GraphOf(p)'
    BY <1>1, <1>9, GraphDeltaSent DEF PageInv
  <2>4. QED
    BY <2>2, <2>3 DEF PageInv
<1>10. CASE PublishItem
  <2>1. GraphResting
    BY <1>1, <1>10, PublishItemStep
  <2>2. CASE \E m : m.is # "delta" /\ Sending(m)
    BY <1>5, <2>1, <2>2
  <2>3. CASE /\ con' = con /\ page' = page /\ since' = since /\ log' = log
             /\ ~Shown(Frontier + 1) /\ Frontier' = Frontier + 1
             /\ poll.cursor >= 0 /\ poll'.cursor >= 0
    <3>1. KeptPage(p) /\ SameStream(p) /\ page'[p] = page[p]
      BY <2>3 DEF KeptPage, SameStream
    <3>2. Bounded(p)' /\ Ordered(p)' /\ ChannelWhole(p)' /\ PageWhole(p)'
      BY <1>1, <1>2, <2>3, <3>1, PagePassed DEF PageInv
    <3>3. GraphOf(p)'
      BY <1>1, <2>1, <3>1, GraphKept DEF PageInv
    <3>4. QED
      BY <3>2, <3>3 DEF PageInv
  <2>4. QED
    BY <1>1, <1>10, <2>2, <2>3, PublishItemStep
<1>11. CASE LateHead
  BY <1>1, <1>2, <1>11, PageHead
<1>12. CASE \E asked, read \in BOOLEAN : Restart(asked, read)
  BY <1>1, <1>12, RestartPage
<1>13. ASSUME NEW q \in Pages,
              \/ Stream(q) \/ ReplayFails(q) \/ Break(q)
              \/ \E reopens \in BOOLEAN : Connect(q, reopens)
       PROVE  PageInv(p)'
  <2>1. Alone(q)
    BY <1>1, <1>13, ConnectEffect, ProbeEffect, WriteResetEffect, WriteSnapshotEffect,
       ReplayItemEffect, ReplayNextEffect, ReplayFailsEffect, LiveEffect, OffEffect DEF Stream
  <2>2. CASE p # q
    BY <1>1, <1>2, <2>1, <2>2, OthersKept
  <2>3. CASE p = q
    <3>1. CASE ReplayFails(p)
      <4>1. /\ Alone(p) /\ con[p].pc \in {"probe", "replay"} /\ SameChannel(p) /\ SameSnapshot(p)
            /\ con'[p].pc = "reset" /\ ~con'[p].replays /\ con'[p].at = 0 /\ con'[p].upto = 0
            /\ page'[p] = page[p] /\ since'[p] = since[p]
        BY <1>1, <3>1, ReplayFailsEffect
      <4>2. QED
        BY <1>1, <4>1, ToReset
    <3>2. CASE CutOff(p) \/ Break(p)
      BY <1>1, <3>2, LeaveStep
    <3>3. CASE Probe(p) \/ WriteReset(p) \/ WriteSnapshot(p)
      BY <1>1, <3>3, ProbeStep, WriteResetStep, WriteSnapshotStep
    <3>4. CASE ReplayItem(p) \/ ReplayNext(p) \/ Live(p)
      BY <1>1, <3>4, ReplayItemStep, ReplayNextStep, LiveStep
    <3>5. CASE \E reopens \in BOOLEAN : Connect(p, reopens)
      BY <1>1, <3>5, ConnectStep
    <3>6. QED
      BY <1>13, <2>3, <3>1, <3>2, <3>3, <3>4, <3>5 DEF Stream
  <2>4. QED
    BY <2>2, <2>3
<1>14. CASE UNCHANGED vars
  <2>1. Head0' = Head0 /\ Frontier' = Frontier
    BY <1>14 DEF vars, Head0, Frontier
  <2>2. Resting /\ GraphResting
    BY <1>3, <1>14, <2>1 DEF vars, Resting, GraphResting
  <2>3. QED
    BY <1>4, <2>2 DEF PageInv
<1>15. QED
  BY <1>6, <1>7, <1>8, <1>9, <1>10, <1>11, <1>12, <1>13, <1>14 DEF Next, Poller

(* A server that has started, and pages that have what is up to the cursor  *)
(* they come with.                                                          *)
LEMMA LiveInit == Init => LiveInv
<1> SUFFICES ASSUME Init
             PROVE  LiveInv
  OBVIOUS
<1>1. PICK c \in [Pages -> Reached] :
        /\ page = [p \in Pages |-> [NewPage EXCEPT !.cursor = c[p], !.url = c[p]]]
        /\ since = [p \in Pages |-> [seq |-> c[p], named |-> TRUE]]
  BY DEF Init
<1>2. /\ log = History /\ pruned = 0
      /\ hub = [cursor |-> Started, snap |-> GraphAt(Started), version |-> 0]
      /\ poll = Idle(Started) /\ con = [p \in Pages |-> Off]
  BY DEF Init
<1>3. /\ log \in Seq(Nodes \cup {"other", "bookkeeping"}) /\ Head0 \in Nat
      /\ Started \in Nat /\ Started <= Head0 /\ Buffer \in Nat
      /\ \A p \in Pages : c[p] \in Nat /\ c[p] <= Started
  <2>1. Len(History) \in Nat
    BY LiveAssumption DEF LiveAssumption
  <2>2. \A p \in Pages : c[p] \in 0..Started
    BY <1>1, LiveAssumption DEF LiveAssumption
  <2>3. QED
    BY <1>2, <2>1, <2>2, LiveAssumption DEF LiveAssumption, Head0
<1>4. Empty \in Graphs
  BY DEF Empty, Graphs
<1>5. \A p \in Pages : page[p] = [cursor |-> c[p], lastId |-> 0, url |-> c[p], changes |-> {},
                                  graph |-> Empty, version |-> 0]
  BY <1>1 DEF NewPage
<1>6. TypeInv
  <2>1. hub \in Hubs
    BY <1>2, <1>3, GraphTyped DEF Hubs
  <2>2. poll \in PollStates
    BY <1>2, <1>3, IdleTyped
  <2>3. con \in [Pages -> Handlers]
    BY <1>2, OffTyped
  <2>4. page \in [Pages -> PageStates]
    <3>1. ASSUME NEW p \in Pages
          PROVE  page[p] \in PageStates
      <4>1. page[p] = [cursor |-> c[p], lastId |-> 0, url |-> c[p], changes |-> {},
                       graph |-> Empty, version |-> 0]
        BY <1>5
      <4>2. {} \in SUBSET Nat /\ 0 \in Nat /\ c[p] \in Nat
        BY <1>3
      <4>3. QED
        BY <1>4, <4>1, <4>2 DEF PageStates
    <3>2. page = [p \in Pages |-> page[p]]
      BY <1>1
    <3>3. QED
      BY <3>1, <3>2
  <2>5. since \in [Pages -> Promises]
    BY <1>1, <1>3 DEF Promises
  <2>6. pruned \in 0..Head0
    BY <1>2, <1>3
  <2>7. QED
    BY <1>3, <2>1, <2>2, <2>3, <2>4, <2>5, <2>6 DEF TypeInv
<1>7. poll.pc = "idle" /\ poll.cursor = Started /\ hub.cursor = Started
  BY <1>2, IdleFields
<1>8. PollInv
  BY <1>3, <1>7 DEF PollInv, Max2
<1>9. ASSUME NEW p \in Pages
      PROVE  PageInv(p)
  <2>1. con[p] = Off
    BY <1>2
  <2>2. /\ Off.pc = "off" /\ Off.ch = << >> /\ Off.head = 0 /\ Off.upto = 0 /\ Off.at = 0
        /\ Off.silent = FALSE /\ Len(<< >>) = 0 /\ 1..0 = {}
    BY DEF Off
  <2>3. /\ page[p].cursor = c[p] /\ page[p].lastId = 0 /\ page[p].url = c[p]
        /\ page[p].changes = {}
    <3>1. page[p] = [cursor |-> c[p], lastId |-> 0, url |-> c[p], changes |-> {},
                     graph |-> Empty, version |-> 0]
      BY <1>5
    <3>2. QED
      BY <3>1
  <2>4. since[p].seq = c[p]
    BY <1>1
  <2>5. Bounded(p)
    <3>1. c[p] <= Head0 /\ 0 <= Head0 /\ 0 <= Buffer
      BY <1>3
    <3>2. QED
      BY <2>1, <2>2, <2>3, <3>1 DEF Bounded
  <2>6. Ordered(p)
    <3>1. OnlyDeltas(<< >>) /\ Within(<< >>, Frontier) /\ InOrder(<< >>)
      BY <2>2 DEF OnlyDeltas, Within, InOrder
    <3>2. After(<< >>, 0)
      BY <2>2 DEF After
    <3>3. QED
      BY <2>1, <2>2, <2>3, <3>1, <3>2 DEF Ordered
  <2>7. ChannelWhole(p)
    BY <2>1, <2>2 DEF ChannelWhole, Stretches
  <2>8. PageWhole(p)
    <3>1. ShownIn(c[p], c[p]) = {}
      BY <1>3, ShownNext
    <3>2. QED
      BY <2>1, <2>2, <2>3, <2>4, <3>1 DEF PageWhole
  <2>9. GraphOf(p)
    BY <2>1, <2>2 DEF GraphOf
  <2>10. QED
    BY <2>5, <2>6, <2>7, <2>8, <2>9 DEF PageInv
<1>10. QED
  BY <1>6, <1>8, <1>9 DEF LiveInv

(* The invariant holds of every state. *)
THEOREM LiveHolds == Spec => []LiveInv
<1>1. LiveInv /\ [Next]_vars => LiveInv'
  <2> SUFFICES ASSUME LiveInv, [Next]_vars
               PROVE  LiveInv'
    OBVIOUS
  <2>1. TypeInv /\ PollInv /\ \A p \in Pages : Len(con[p].ch) <= Buffer
    BY DEF LiveInv, PageInv, Bounded
  <2>2. TypeInv' /\ PollInv'
    BY <2>1, TypeStep, PollStep
  <2>3. \A p \in Pages : PageInv(p)'
    BY PageStep
  <2>4. QED
    BY <2>2, <2>3 DEF LiveInv
<1>2. QED
  BY <1>1, LiveInit, PTL DEF Spec

-----------------------------------------------------------------------------
(* What the runs check *)

(* Type correctness: every cursor is of an event that exists, and no        *)
(* channel holds more than a subscriber's buffer.                           *)
LEMMA TypeOf == LiveInv => TypeOK
<1> SUFFICES ASSUME LiveInv
             PROVE  TypeOK
  OBVIOUS
<1>1. TypeInv /\ PollInv
  BY DEF LiveInv
<1>2. /\ log \in Seq(Nodes \cup {"other", "bookkeeping"}) /\ pruned \in 0..Head0
      /\ Head0 \in Nat /\ hub.cursor \in Nat /\ poll.cursor \in Int
  BY <1>1, Typed DEF TypeInv
<1>3. hub.cursor \in 0..Head0 /\ poll.cursor \in -1..Head0
  BY <1>1, <1>2 DEF PollInv, Max2
<1>4. ASSUME NEW p \in Pages
      PROVE  /\ Len(con[p].ch) <= Buffer
             /\ con[p].head <= Head0 /\ con[p].upto <= Head0
             /\ page[p].changes \subseteq 1..Head0 /\ page[p].cursor \in 0..Head0
  <2>1. Bounded(p)
    BY DEF LiveInv, PageInv
  <2>2. PICK pg \in PageStates : pg = page[p]
    BY <1>1, Typed
  <2>3. pg.cursor \in Nat /\ pg.cursor <= Head0 /\ pg.changes \subseteq 1..pg.cursor
    BY <2>1, <2>2, PageFields DEF Bounded
  <2>4. pg.cursor \in 0..Head0 /\ pg.changes \subseteq 1..Head0
    BY <1>2, <2>3
  <2>5. QED
    BY <2>1, <2>2, <2>4 DEF Bounded
<1>5. QED
  BY <1>2, <1>3, <1>4 DEF TypeOK

(* Type correctness holds of every state. *)
THEOREM TypeCorrect == Spec => []TypeOK
BY LiveHolds, TypeOf, PTL

(* stream.go:21: there is no gap.  A page whose requests named no later     *)
(* point than it had reached, and that subscribed when the feed's head was  *)
(* known, has every change from the one its first snapshot or its last      *)
(* reset stood at to the last it has seen, and, once its channel is         *)
(* drained, to the hub's cursor.                                            *)
THEOREM NoGapHolds == Spec => []NoGap
<1>1. LiveInv => NoGap
  <2> SUFFICES ASSUME LiveInv, NEW p \in Pages, since[p].named
               PROVE  Whole(p)
    BY DEF NoGap
  <2>1. TypeInv /\ PollInv /\ PageInv(p)
    BY DEF LiveInv
  <2>2. PICK pg \in PageStates : pg = page[p]
    BY <2>1, Typed
  <2>3. PICK seq \in Nat : seq = since[p].seq
    BY <2>1, Typed
  <2>4. PICK f \in Nat : f = Frontier /\ hub.cursor <= f /\ hub.cursor \in Nat
    BY <2>1, FrontierTyped, Typed
  <2>5. /\ ShownIn(seq, pg.cursor) \subseteq pg.changes
        /\ pg.cursor \in Nat /\ pg.changes \subseteq 1..pg.cursor /\ pg.changes \in SUBSET Nat
    BY <2>1, <2>2, <2>3, PageFields DEF PageInv, PageWhole, Bounded
  <2>6. ASSUME NEW k \in pg.changes
        PROVE  ShownIn(seq, k) \subseteq pg.changes
    <3>1. k \in Nat /\ k <= pg.cursor
      BY <2>5
    <3>2. ShownIn(seq, k) \subseteq ShownIn(seq, pg.cursor)
      BY <2>5, <3>1, ShownNext
    <3>3. QED
      BY <2>5, <3>2
  <2>7. ASSUME Drained(p)
        PROVE  ShownIn(seq, hub.cursor) \subseteq pg.changes
    <3>1. con[p].pc = "live" /\ con[p].ch = << >> /\ (~con[p].dropped) = TRUE
      BY <2>7 DEF Drained
    <3>2. Stretch(<< >>, 0, seq, pg.changes, TRUE, f)
      BY <2>1, <2>2, <2>3, <2>4, <3>1 DEF PageInv, ChannelWhole, Promised, Start, Held
    <3>3. Len(<< >>) = 0 /\ \A k \in 0 + 1 .. 0 : FALSE
      OBVIOUS
    <3>4. Covers(<< >>, 0, 0, seq, f, pg.changes)
      BY <3>2, <3>3 DEF Stretch, NoReset
    <3>5. ShownIn(seq, f) \subseteq pg.changes
      BY <3>3, <3>4 DEF Covers
    <3>6. ShownIn(seq, hub.cursor) \subseteq ShownIn(seq, f)
      BY <2>4, ShownNext
    <3>7. QED
      BY <3>5, <3>6
  <2>8. QED
    BY <2>2, <2>3, <2>6, <2>7 DEF Whole
<1>2. QED
  BY <1>1, LiveHolds, PTL

(* stream.go:21: nor a duplicate.  What waits in a channel is in order, and *)
(* after everything the page has been sent, replayed or live.               *)
THEOREM NoDuplicateHolds == Spec => []NoDuplicate
<1>1. LiveInv => NoDuplicate
  <2> SUFFICES ASSUME LiveInv, NEW p \in Pages, NEW b \in Waiting(p)
               PROVE  /\ \A a \in Waiting(p) : a < b => con[p].ch[a].seq < con[p].ch[b].seq
                      /\ \A i \in page[p].changes : i < con[p].ch[b].seq
    BY DEF NoDuplicate
  <2>1. PICK ch \in Seq(Messages) : ch = con[p].ch
    BY Typed, HandlerFields DEF LiveInv
  <2>2. InOrder(ch) /\ \A i \in page[p].changes : After(ch, i)
    BY <2>1 DEF LiveInv, PageInv, Ordered
  <2>3. b \in 1..Len(ch) /\ IsChange(ch, b)
    BY <2>1 DEF Waiting, IsChange
  <2>4. ASSUME NEW a \in Waiting(p), a < b
        PROVE  ch[a].seq < ch[b].seq
    <3>1. a \in 1..b - 1 /\ IsChange(ch, a)
      BY <2>1, <2>3, <2>4 DEF Waiting, IsChange
    <3>2. QED
      BY <2>2, <2>3, <3>1 DEF InOrder
  <2>5. \A i \in page[p].changes : i < ch[b].seq
    BY <2>2, <2>3 DEF After
  <2>6. QED
    BY <2>1, <2>4, <2>5
<1>2. QED
  BY <1>1, LiveHolds, PTL

(* The graph a page holds is the hub's once its channel is drained,         *)
(* whatever snapshots and deltas overtook each other.                       *)
THEOREM GraphAgreesHolds == Spec => []GraphAgrees
<1>1. LiveInv => GraphAgrees
  <2> SUFFICES ASSUME LiveInv, NEW p \in Pages, Drained(p), poll.pc # "delta"
               PROVE  page[p].graph = hub.snap
    BY TypeOf DEF GraphAgrees
  <2>1. TypeInv /\ GraphOf(p)
    BY DEF LiveInv, PageInv
  <2>2. PICK pg \in PageStates : pg = page[p]
    BY <2>1, Typed
  <2>3. con[p].pc = "live" /\ con[p].ch = << >> /\ ~con[p].dropped
    BY DEF Drained
  <2>4. Len(<< >>) = 0 /\ \A k \in 0 + 1 .. 0 : FALSE
    OBVIOUS
  <2>5. \A n \in Nodes : Brings(<< >>, pg.version, pg.graph, hub.snap, n)
    BY <2>1, <2>2, <2>3, <2>4 DEF GraphOf, NoReset, Version, Base
  <2>6. \A n : News(<< >>, pg.version, n) = {}
    BY <2>4 DEF News
  <2>7. \A n \in Nodes : pg.graph[n] = hub.snap[n]
    BY <2>5, <2>6 DEF Brings
  <2>8. pg.graph \in [Nodes -> Nat] /\ hub.snap \in [Nodes -> Nat]
    BY <2>1, Typed, PageFields DEF Graphs
  <2>9. QED
    BY <2>2, <2>7, <2>8
<1>2. QED
  BY <1>1, LiveHolds, PTL
==============================================================================
