------------------------------- MODULE LiveStream -------------------------------
(***************************************************************************)
(* The live view (pkg/liveview): the poller that reads the change feed and *)
(* the graph, the hub that fans both out, one stream handler per open page,*)
(* and the page itself (ui/src/live).                                      *)
(*                                                                         *)
(* The log is read as ChangeFeed has it: a cursor stands for a prefix, and *)
(* retention takes the oldest events away, never the newest.  An event is  *)
(* about a node of the graph, about something else the page shows, or is   *)
(* bookkeeping the page does not show; its seq is its place in the log.    *)
(*                                                                         *)
(* A frame is received when it is written: one that a broken connection    *)
(* loses is one that was not written.  Activity frames, pinned pages and   *)
(* what an item says are left out.                                         *)
(***************************************************************************)
EXTENDS Integers, Sequences, FiniteSets

CONSTANTS
    Nodes,        \* nodes of the graph
    Kinds,        \* kinds of events: a node, "other" or "bookkeeping"
    Pages,        \* open pages
    History,      \* the log at first, and how much of it there was when the server
    Started,      \* started
    Reached,      \* the cursors pages come with, 0 for none
    MaxLog,       \* bound: events in the log
    Cuts,         \* bound: where retention may cut it
    PageSize,     \* feedPageSize
    BatchPages,   \* feedBatchPages
    ReplayPages,  \* replayPages
    Buffer,       \* subscriberBuffer
    Bounds        \* bounds of broken connections, and of the troubles: failed reads,
                  \* restarts and prunes

ASSUME LiveAssumption ==
    /\ {"other", "bookkeeping"} \cap Nodes = {}
    /\ Kinds \subseteq Nodes \cup {"other", "bookkeeping"}
    /\ {PageSize, BatchPages, ReplayPages, Buffer} \subseteq Nat \ {0}
    /\ History \in Seq(Nodes \cup {"other", "bookkeeping"}) /\ Reached \subseteq 0..Started
    /\ Started \in 0..Len(History) /\ MaxLog \in Nat /\ Cuts \subseteq Nat
    /\ Bounds \in [{"breaks", "troubles"} -> Nat]

VARIABLES
    log,      \* the events, oldest first
    pruned,   \* the prune mark
    hub,      \* cursor, snap, version
    poll,     \* the poller: where it is in a tick, its cursor, and its batch
    con,      \* per page: its stream handler and the channel it reads
    page,     \* per page: what it holds, and what the browser holds for it
    since,    \* history: the seq from which a page was promised every change, and
              \* whether its requests have named the point it had reached and the head
              \* was known when it subscribed
    left      \* what is left of Bounds

vars == <<log, pruned, hub, poll, con, page, since, left>>

-----------------------------------------------------------------------------
(* The feed and the graph *)

Max2(a, b) == IF a > b THEN a ELSE b
Min2(a, b) == IF a < b THEN a ELSE b

Head0 == Len(log)
Shown(i) == log[i] # "bookkeeping"
ShownIn(a, b) == {i \in a + 1 .. b : Shown(i)}

\* A node as the graph has it: the last event about it.
Touched(n, k) == {i \in 1..k : log[i] = n}
GraphAt(k) == [n \in Nodes |-> IF Touched(n, k) = {} THEN 0
                               ELSE CHOOSE i \in Touched(n, k) : \A j \in Touched(n, k) : j <= i]
Graph == GraphAt(Head0)
Empty == [n \in Nodes |-> 0]

\* ChangesSince reads the head in one statement and the page in another: the
\* head it answers with may be any since the request began.
PageEnd(after) == Min2(after + PageSize, Head0)
More(after, head) == PageEnd(after) = after + PageSize /\ PageEnd(after) < head

Spend(what) == left[what] > 0 /\ left' = [left EXCEPT ![what] = @ - 1]

Commit(kind) ==
    /\ Head0 < MaxLog
    /\ log' = Append(log, kind)
    /\ UNCHANGED <<pruned, hub, poll, con, page, since, left>>
Prune ==
    /\ Spend("troubles")
    /\ \E n \in Cuts : pruned < n /\ n < Head0 /\ pruned' = n
    /\ UNCHANGED <<log, hub, poll, con, page, since>>

-----------------------------------------------------------------------------
(* The hub.  Its lock is held for one broadcast, and for all the items of    *)
(* publishChanges.                                                           *)

Off == [pc |-> "off", ch |-> << >>, dropped |-> FALSE, after |-> 0, head |-> 0,
        snap |-> Empty, version |-> 0, replays |-> FALSE, at |-> 0, upto |-> 0,
        more |-> FALSE, pages |-> 0, silent |-> FALSE]
Subscribed(p) == con[p].pc # "off" /\ ~con[p].dropped
HubFree == poll.pc # "publish"

\* Mutant: a page that does not drain loses the message and listens on.
SendLossy(c, msg) ==
    IF c.pc = "off" \/ c.dropped \/ Len(c.ch) = Buffer THEN c
    ELSE [c EXCEPT !.ch = Append(@, msg)]
\* broadcastLocked: a page that does not drain is cut off; what its channel
\* holds is still written.
Send(c, msg) ==
    IF c.pc = "off" \/ c.dropped THEN c
    ELSE IF Len(c.ch) = Buffer THEN [c EXCEPT !.dropped = TRUE]
    ELSE [c EXCEPT !.ch = Append(@, msg)]
Broadcast(msg) == con' = [p \in Pages |-> Send(con[p], msg)]

-----------------------------------------------------------------------------
(* The poller *)

NoDelta == [n \in {} |-> 0]
NoBatch == -1
Idle(cursor) == [pc |-> "idle", cursor |-> cursor, upto |-> NoBatch, next |-> 0,
                 pages |-> 0, seen |-> 0, delta |-> NoDelta]
Structural(a, b) == \E i \in a + 1 .. b : log[i] \in Nodes

Tick ==
    /\ poll.pc = "idle"
    /\ poll' = [poll EXCEPT !.pc = IF poll.cursor < 0 THEN "head" ELSE "feed",
                            !.upto = poll.cursor, !.seen = Head0]
    /\ UNCHANGED <<log, pruned, hub, con, page, since, left>>

\* A server that could not ask for the head when it started asks on its ticks;
\* setCursor tells the pages nothing (silent, a history: what was up to now will
\* not reach them).
LateHead ==
    /\ poll.pc = "head"
    /\ poll' = [poll EXCEPT !.pc = "feed", !.cursor = Head0, !.upto = Head0, !.seen = Head0]
    /\ hub' = [hub EXCEPT !.cursor = Head0]
    /\ since' = [p \in Pages |-> IF Subscribed(p) THEN [since[p] EXCEPT !.named = FALSE]
                                 ELSE since[p]]
    /\ con' = [p \in Pages |-> IF Subscribed(p) THEN [con[p] EXCEPT !.silent = TRUE] ELSE con[p]]
    /\ UNCHANGED <<log, pruned, page, left>>

FeedFails ==
    /\ poll.pc \in {"head", "feed"}
    /\ Spend("troubles")
    /\ poll' = [Idle(poll.cursor) EXCEPT !.pc = "graph"]
    /\ UNCHANGED <<log, pruned, hub, con, page, since>>

Overtaken(after) == after < pruned

\* One page of readFeed.  due: fullReadEvery has passed since the graph was last
\* read.
FeedPage(due) ==
    /\ poll.pc = "feed" /\ ~Overtaken(poll.upto)
    /\ \E head \in poll.seen..Head0 :
         LET end == PageEnd(poll.upto)
             again == More(poll.upto, head) /\ poll.pages + 1 < BatchPages IN
         poll' = [poll EXCEPT
                    !.upto = end, !.pages = IF again THEN @ + 1 ELSE 0,
                    !.seen = IF again THEN Head0 ELSE 0,
                    !.next = poll.cursor + 1,
                    !.pc = IF again THEN "feed"
                           ELSE IF due \/ Structural(poll.cursor, end) THEN "graph"
                           ELSE "publish"]
    /\ UNCHANGED <<log, pruned, hub, con, page, since, left>>

\* Retention has overtaken the poller: publishReset.
FeedPruned ==
    /\ poll.pc = "feed" /\ Overtaken(poll.upto)
    /\ \E head \in poll.seen..Head0 :
         /\ Broadcast([is |-> "reset", head |-> head])
         /\ hub' = [hub EXCEPT !.cursor = Max2(@, head)]
         /\ poll' = [Idle(head) EXCEPT !.pc = "graph"]
    /\ UNCHANGED <<log, pruned, page, since, left>>

\* publishSnapshot takes the new graph, and broadcasts the difference when it
\* has let go of the lock.  Readings that differ in nothing are not counted in
\* version, which only orders deltas and snapshots.
AfterGraph == IF poll.upto = NoBatch THEN Idle(poll.cursor) ELSE [poll EXCEPT !.pc = "publish"]
Diff(prev, next) == [n \in {m \in Nodes : prev[m] # next[m]} |-> next[n]]
ReadGraph ==
    /\ poll.pc = "graph"
    /\ IF Graph = hub.snap
       THEN poll' = AfterGraph /\ UNCHANGED hub
       ELSE /\ poll' = [poll EXCEPT !.pc = "delta", !.delta = Diff(hub.snap, Graph)]
            /\ hub' = [hub EXCEPT !.snap = Graph, !.version = @ + 1]
    /\ UNCHANGED <<log, pruned, con, page, since, left>>
SendDelta ==
    /\ poll.pc = "delta"
    /\ Broadcast([is |-> "delta", version |-> hub.version, set |-> poll.delta])
    /\ poll' = [AfterGraph EXCEPT !.delta = NoDelta]
    /\ UNCHANGED <<log, pruned, hub, page, since, left>>

\* Mutant: the cursor moves on although the batch was not published.
BatchLost == Idle(Max2(poll.cursor, poll.upto))
\* The batch is dropped and read again by the next tick.
BatchKept == Idle(poll.cursor)
ReadFails ==
    /\ poll.pc = "graph"
    /\ Spend("troubles")
    /\ poll' = BatchKept
    /\ UNCHANGED <<log, pruned, hub, con, page, since>>

\* publishChanges: the items one by one, then the cursor, under one lock.
PublishItem ==
    /\ poll.pc = "publish" /\ poll.next <= poll.upto
    /\ IF Shown(poll.next) THEN Broadcast([is |-> "change", seq |-> poll.next])
       ELSE UNCHANGED con
    /\ poll' = [poll EXCEPT !.next = @ + 1]
    /\ UNCHANGED <<log, pruned, hub, page, since, left>>
PublishDone ==
    /\ poll.pc = "publish" /\ poll.next > poll.upto
    /\ hub' = [hub EXCEPT !.cursor = Max2(@, poll.upto)]
    /\ poll' = Idle(poll.upto)
    /\ UNCHANGED <<log, pruned, con, page, since, left>>

-----------------------------------------------------------------------------
(* The page (ui/src/live/reducer.ts) *)

NewPage == [cursor |-> 0, lastId |-> 0, url |-> 0, changes |-> {},
            graph |-> Empty, version |-> 0]

Backwards(pg, cursor) == pg.cursor # 0 /\ cursor < pg.cursor
ApplySnapshot(pg, snap, version, cursor) ==
    [pg EXCEPT !.graph = snap, !.version = version,
               !.cursor = IF @ = 0 \/ cursor < @ THEN cursor ELSE @,
               !.changes = IF Backwards(pg, cursor) THEN {} ELSE @]
ApplyReset(pg, head) == [pg EXCEPT !.changes = {}, !.cursor = head]
\* The list is taken to be shorter than CHANGES_LIMIT, beyond which its oldest go.
ApplyChange(pg, i) ==
    [pg EXCEPT !.changes = @ \cup {i}, !.cursor = Max2(@, i), !.lastId = i]
ApplyDelta(pg, d) ==
    IF d.version <= pg.version THEN pg
    ELSE [pg EXCEPT !.version = d.version,
                    !.graph = [n \in Nodes |-> IF n \in DOMAIN d.set THEN d.set[n] ELSE @[n]]]

-----------------------------------------------------------------------------
(* The stream (handleStream) *)

Handler(p, c, pg) ==
    /\ con' = [con EXCEPT ![p] = c]
    /\ page' = [page EXCEPT ![p] = pg]
    /\ UNCHANGED <<log, pruned, hub, poll>>

\* The browser reconnects by itself with the address it has and the id of the
\* last change, or the page opens a new EventSource with its cursor.
Connect(p, reopens) ==
    LET pg == [page[p] EXCEPT !.url = IF reopens THEN page[p].cursor ELSE @,
                              !.lastId = IF reopens THEN 0 ELSE @]
        after == IF pg.lastId > 0 THEN pg.lastId ELSE pg.url
        head == hub.cursor IN
    /\ con[p].pc = "off" /\ HubFree
    /\ Handler(p, [Off EXCEPT !.pc = IF after > 0 /\ after # head THEN "probe" ELSE "open",
                              !.after = after, !.head = head,
                              !.snap = hub.snap, !.version = hub.version], pg)
    /\ since' = [since EXCEPT ![p].named =
                    @ /\ (after = pg.cursor \/ (0 < after /\ after < pg.cursor))]
    /\ UNCHANGED left

\* What is left of the handler's state once it only forwards.
Forwards(c) == [Off EXCEPT !.pc = "live", !.ch = c.ch, !.dropped = c.dropped, !.silent = c.silent]
Reset(c) == [Forwards(c) EXCEPT !.pc = "reset", !.head = c.head, !.snap = c.snap,
                                !.version = c.version]
\* probeResume
Probe(p) ==
    LET c == con[p] IN
    /\ c.pc = "probe"
    /\ \/ /\ c.after > c.head \/ Overtaken(c.after)
          /\ Handler(p, Reset(c), page[p])
       \/ /\ c.after <= c.head /\ ~Overtaken(c.after)
          /\ \E head \in c.head..Head0 :
               Handler(p, [c EXCEPT !.pc = "open", !.replays = TRUE, !.at = c.after, !.pages = 1,
                                    !.upto = PageEnd(c.after), !.more = More(c.after, head)],
                       page[p])
    /\ UNCHANGED <<since, left>>

WriteReset(p) ==
    LET c == con[p] IN
    /\ c.pc = "reset"
    /\ Handler(p, [c EXCEPT !.pc = "open"], ApplyReset(page[p], c.head))
    /\ since' = [since EXCEPT ![p] = [seq |-> c.head, named |-> ~c.silent]]
    /\ UNCHANGED left
WriteSnapshot(p) ==
    LET c == con[p] IN
    /\ c.pc = "open"
    /\ Handler(p, IF c.replays THEN [c EXCEPT !.pc = "replay"] ELSE Forwards(c),
               ApplySnapshot(page[p], c.snap, c.version, c.head))
    /\ since' = IF page[p].cursor = 0 \/ Backwards(page[p], c.head)
                THEN [since EXCEPT ![p].seq = c.head] ELSE since
    /\ UNCHANGED left

\* Mutant: a page of the log is replayed to its end.
ReplayEndOfPage(c) == c.upto
\* What is past the cursor of the subscription arrives on the channel.
ReplayEnd(c) == Min2(c.upto, c.head)
ReplayItem(p) ==
    LET c == con[p]
        i == c.at + 1 IN
    /\ c.pc = "replay" /\ c.at < ReplayEnd(c)
    /\ Handler(p, [c EXCEPT !.at = i], IF Shown(i) THEN ApplyChange(page[p], i) ELSE page[p])
    /\ UNCHANGED <<since, left>>
ReplayNext(p) ==
    LET c == con[p] IN
    /\ c.pc = "replay" /\ c.at >= ReplayEnd(c)
    /\ \/ /\ ~c.more \/ c.upto >= c.head
          /\ Handler(p, Forwards(c), page[p])
       \/ /\ c.more /\ c.upto < c.head
          /\ c.pages >= ReplayPages \/ Overtaken(c.upto)
          /\ Handler(p, Reset(c), page[p])
       \/ /\ c.more /\ c.upto < c.head
          /\ c.pages < ReplayPages /\ ~Overtaken(c.upto)
          /\ \E head \in c.head..Head0 :
               Handler(p, [c EXCEPT !.pages = @ + 1, !.upto = PageEnd(c.upto),
                                    !.more = More(c.upto, head)], page[p])
    /\ UNCHANGED <<since, left>>
\* The log cannot be read for a replay.
ReplayFails(p) ==
    LET c == con[p] IN
    /\ \/ c.pc = "probe" /\ c.after <= c.head
       \/ c.pc = "replay" /\ c.at >= ReplayEnd(c) /\ c.more /\ c.upto < c.head
            /\ c.pages < ReplayPages
    /\ Spend("troubles")
    /\ Handler(p, Reset(c), page[p])
    /\ UNCHANGED since

\* A message of the channel is written.  For a reset the handler asks the hub
\* for the graph and the page starts over.
Live(p) ==
    LET c == con[p]
        msg == Head(c.ch)
        rest == [c EXCEPT !.ch = Tail(@)] IN
    /\ c.pc = "live" /\ c.ch # << >>
    /\ CASE msg.is = "change" -> Handler(p, rest, ApplyChange(page[p], msg.seq))
         [] msg.is = "delta" -> Handler(p, rest, ApplyDelta(page[p], msg))
         [] msg.is = "reset" ->
              /\ HubFree
              /\ Handler(p, Reset([rest EXCEPT !.head = msg.head, !.snap = hub.snap,
                                               !.version = hub.version, !.silent = FALSE]), page[p])
    /\ UNCHANGED <<since, left>>
CutOff(p) ==
    /\ con[p].pc = "live" /\ con[p].ch = << >> /\ con[p].dropped
    /\ Handler(p, Off, page[p])
    /\ UNCHANGED <<since, left>>
Break(p) ==
    /\ con[p].pc # "off"
    /\ Spend("breaks")
    /\ Handler(p, Off, page[p])
    /\ UNCHANGED since

\* The server is started again.  It asks for the head, then reads the graph;
\* either may fail.
Restart(asked, read) ==
    /\ Spend("troubles")
    /\ hub' = [cursor |-> IF asked THEN Head0 ELSE 0,
               snap |-> IF read THEN Graph ELSE Empty, version |-> 0]
    /\ poll' = Idle(IF asked THEN Head0 ELSE -1)
    /\ con' = [p \in Pages |-> Off]
    /\ UNCHANGED <<log, pruned, page, since>>

-----------------------------------------------------------------------------
\* A server that has started over a brain with a history, and pages that come
\* back to it with a cursor or open for the first time.
Init ==
    /\ log = History /\ pruned = 0
    /\ hub = [cursor |-> Started, snap |-> GraphAt(Started), version |-> 0]
    /\ poll = Idle(Started)
    /\ con = [p \in Pages |-> Off]
    /\ \E c \in [Pages -> Reached] :
         /\ page = [p \in Pages |-> [NewPage EXCEPT !.cursor = c[p], !.url = c[p]]]
         /\ since = [p \in Pages |-> [seq |-> c[p], named |-> TRUE]]
    /\ left = Bounds

Poller ==
    \/ Tick \/ LateHead \/ FeedPruned \/ (\E due \in BOOLEAN : FeedPage(due))
    \/ ReadGraph \/ SendDelta \/ PublishItem \/ PublishDone
Stream(p) ==
    \/ Probe(p) \/ WriteReset(p) \/ WriteSnapshot(p) \/ ReplayItem(p) \/ ReplayNext(p)
    \/ Live(p) \/ CutOff(p)

Next ==
    \/ \E kind \in Kinds : Commit(kind)
    \/ Prune
    \/ Poller \/ FeedFails \/ ReadFails
    \/ \E p \in Pages :
         Stream(p) \/ ReplayFails(p) \/ Break(p) \/ \E reopens \in BOOLEAN : Connect(p, reopens)
    \/ \E asked, read \in BOOLEAN : Restart(asked, read)

Spec == Init /\ [][Next]_vars

\* The poller's and the handlers' goroutines run and get the hub's lock, browsers
\* reconnect, and minutes pass.
FairSpec ==
    /\ Spec
    /\ WF_vars(Poller) /\ SF_vars(FeedPage(TRUE))
    /\ \A p \in Pages : SF_vars(Stream(p) \/ \E reopens \in BOOLEAN : Connect(p, reopens))

-----------------------------------------------------------------------------
(* Properties *)

TypeOK ==
    /\ log \in Seq(Nodes \cup {"other", "bookkeeping"}) /\ pruned \in 0..Head0
    /\ hub.cursor \in 0..Head0 /\ poll.cursor \in -1..Head0
    /\ \A p \in Pages :
         /\ Len(con[p].ch) <= Buffer
         /\ con[p].head <= Head0 /\ con[p].upto <= Head0
         /\ page[p].changes \subseteq 1..Head0 /\ page[p].cursor \in 0..Head0

Drained(p) == con[p].pc = "live" /\ con[p].ch = << >> /\ ~con[p].dropped

\* stream.go:21: there is no gap.  A page has every change from the one its first
\* snapshot or its last reset stood at to the last one it has seen, and with its
\* channel drained to the hub's cursor.
Whole(p) ==
    LET upto == IF Drained(p) THEN page[p].changes \cup {hub.cursor} ELSE page[p].changes IN
    \A k \in upto : ShownIn(since[p].seq, k) \subseteq page[p].changes

\* The same, of pages whose requests named no later point than they had reached, and
\* that did not subscribe before the server knew the feed's head: LateHead's cursor
\* skips what had happened by then, though live.go:356 says that everything at or
\* below the cursor was published or is replayed.
NoGap == \A p \in Pages : since[p].named => Whole(p)

\* stream.go:21: nor a duplicate.  What waits in the channel is in order, and
\* after everything the page has been sent, replayed or live.
Waiting(p) == {a \in 1..Len(con[p].ch) : con[p].ch[a].is = "change"}
NoDuplicate ==
    \A p \in Pages : con[p].pc # "off" =>
        \A b \in Waiting(p) :
            /\ \A a \in Waiting(p) : a < b => con[p].ch[a].seq < con[p].ch[b].seq
            /\ \A i \in page[p].changes : i < con[p].ch[b].seq

\* The graph a page holds is the hub's once its channel is drained, whatever
\* snapshots and deltas overtook each other.
GraphAgrees ==
    /\ TypeOK
    /\ \A p \in Pages : Drained(p) /\ poll.pc # "delta" => page[p].graph = hub.snap

\* When writers rest and nothing breaks any more, every page comes to show the
\* graph, and every change it was promised.
CatchesUp ==
    <>[](\A p \in Pages :
            /\ page[p].graph = Graph
            /\ since[p].named => ShownIn(since[p].seq, Head0) \subseteq page[p].changes)
=============================================================================
