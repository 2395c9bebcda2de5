------------------------------ MODULE MemoryRecall ------------------------------
(***************************************************************************)
(* The vectors of memories: saved, edited and deleted (memory_api.go),     *)
(* filled in later when the embedder was down (memory_vector_heal.go,      *)
(* reembed.go), kept decoded per bucket behind a version that triggers bump*)
(* (core/chat_vector_cache.go), and searched by callers who share one run  *)
(* of the same search (memory_search_coalesce.go).                         *)
(*                                                                         *)
(* A vector is the text it was made from.  Left out: keyword and graph     *)
(* search and ranking, metadata and what a recall counts in it, the        *)
(* memory's graph node, sessions.  Searches of one bucket stand for the    *)
(* identical searches that share a run.                                    *)
(***************************************************************************)
EXTENDS Integers, FiniteSets, Sequences, FiniteSetsExt

CONSTANTS
    Ids, Texts, Buckets,
    Writers,      \* goroutines that write, of any process
    Callers,      \* goroutines that search
    None,         \* no row, no vector, no entry, no answer
    HealBatch,    \* memories embedded in one call to the embedder
    MaxCached,    \* vectors kept: maxCachedMessageVectors
    Settings      \* what a behaviour keeps to, one of: whether there is a healer, who
                  \* writes which memories, and bounds on writes begun, searches
                  \* asked for and times the embedder stops answering

ASSUME MemoryRecallAssumption ==
    /\ IsFiniteSet(Ids) /\ None \notin Texts
    /\ None \notin {"left", "error", "answer"}
    /\ None \notin [flight : Nat, got : {None, "left", "error", "answer"}]
    /\ HealBatch \in Nat \ {0}
    /\ MaxCached \in Nat
    /\ Settings \subseteq [heals : BOOLEAN, writers : SUBSET Writers, ids : SUBSET Ids,
                           writes : Nat, searches : Nat, outages : Nat]

VARIABLES
    setting,  \* the setting this behaviour keeps to
    memory,   \* messages: id -> [bucket, text, vector], or None
    version,  \* message_vector_versions: bucket -> number
    writer,   \* writer -> the call it makes, or None
    begun,    \* writes begun
    embedder, \* [up, failing, outages]: whether it answers, and what was noted of it
    heal,     \* the healer: [pc, wake, timer, todo, embedded, failed, healed]
    cache,    \* bucket -> [version, vectors], or None
    flights,  \* the runs so far, and what became of them
    running,  \* bucket -> the run that callers may join, or 0
    caller    \* caller -> [flight, got], or None

rows == <<setting, memory, version, writer, begun>>
vars == <<rows, embedder, heal, cache, flights, running, caller>>

-----------------------------------------------------------------------------
(* Rows *)

VectorsIn(m, b) ==
    LET has == {i \in Ids : m[i] # None /\ m[i].bucket = b /\ m[i].vector # None} IN
    [i \in has |-> m[i].vector]
Vectors(b) == VectorsIn(memory, b)

HasVector(row) == row # None /\ row.vector # None
\* Mutant: a memory that moves counts for the bucket it comes to only.
BumpsNew(old, new) ==
    IF old = None \/ new = None THEN {r.bucket : r \in {x \in {old, new} : HasVector(x)}}
    ELSE {new.bucket}
\* messages_vv_ai, messages_vv_ad and messages_vv_au: the buckets whose version
\* moves.  An update moves it whether or not the vector changes, and twice, which
\* is once here, where the bucket stays.
Bumps(old, new) ==
    IF old = None \/ new = None THEN {r.bucket : r \in {x \in {old, new} : HasVector(x)}}
    ELSE {old.bucket, new.bucket}

Put(i, row) ==
    /\ memory' = [memory EXCEPT ![i] = row]
    /\ version' = [b \in Buckets |-> IF b \in Bumps(memory[i], row) THEN version[b] + 1 ELSE version[b]]
    /\ flights' = [n \in DOMAIN flights |->
                     IF flights[n].pc = "done" THEN flights[n]
                     ELSE [flights[n] EXCEPT !.during = @ \cup {VectorsIn(memory', flights[n].bucket)}]]

-----------------------------------------------------------------------------
(* The embedder *)

Answers == embedder' = [embedder EXCEPT !.failing = FALSE]
Fails == ~embedder.up /\ embedder' = [embedder EXCEPT !.failing = TRUE]

Outage ==
    /\ embedder.up /\ embedder.outages < setting.outages
    /\ embedder' = [embedder EXCEPT !.up = FALSE, !.outages = @ + 1]
    /\ UNCHANGED <<rows, heal, cache, flights, running, caller>>
Recovery ==
    /\ ~embedder.up
    /\ embedder' = [embedder EXCEPT !.up = TRUE]
    /\ UNCHANGED <<rows, heal, cache, flights, running, caller>>

-----------------------------------------------------------------------------
(* Writers *)

Begin(w, call) ==
    /\ writer[w] = None /\ begun < setting.writes
    /\ writer' = [writer EXCEPT ![w] = call]
    /\ begun' = begun + 1
    /\ UNCHANGED <<setting, memory, version, embedder, heal, cache, flights, running, caller>>

\* SaveMemory: embed, then insert or overwrite.
Save(w, i, b, t) ==
    Begin(w, [does |-> "save", pc |-> "embed", id |-> i, bucket |-> b, text |-> t, vector |-> None])
\* UpdateMemory with new content: the row is read, the content embedded.
Edit(w, i, t) ==
    /\ memory[i] # None
    /\ Begin(w, [does |-> "update", pc |-> "embed", id |-> i, bucket |-> memory[i].bucket,
                 text |-> t, vector |-> None])
\* UpdateMemory without: content and vector go back as they were read.
Annotate(w, i) ==
    /\ memory[i] # None
    /\ Begin(w, [does |-> "update", pc |-> "write", id |-> i, bucket |-> memory[i].bucket,
                 text |-> memory[i].text, vector |-> memory[i].vector])
Delete(w, i) ==
    /\ memory[i] # None
    /\ Begin(w, [does |-> "delete", pc |-> "write", id |-> i, bucket |-> memory[i].bucket,
                 text |-> memory[i].text, vector |-> None])

\* embedMemoryContent.  A text embedded before is answered from embedCache.
\* Without an answer the memory is kept without vector, and the healer is woken.
EmbedContent(w) ==
    /\ writer[w] # None /\ writer[w].pc = "embed"
    /\ \/ /\ Answers
          /\ writer' = [writer EXCEPT ![w].pc = "write", ![w].vector = writer[w].text]
          /\ UNCHANGED heal
       \/ /\ Fails
          /\ writer' = [writer EXCEPT ![w].pc = "write"]
          /\ heal' = [heal EXCEPT !.wake = TRUE]
    /\ UNCHANGED <<setting, memory, version, begun, cache, flights, running, caller>>

Write(w) ==
    /\ writer[w] # None /\ writer[w].pc = "write"
    /\ LET c == writer[w] IN
         \/ /\ c.does = "save"
            /\ Put(c.id, [bucket |-> c.bucket, text |-> c.text, vector |-> c.vector])
         \/ /\ c.does = "update" /\ memory[c.id] # None
            /\ Put(c.id, [memory[c.id] EXCEPT !.text = c.text, !.vector = c.vector])
         \/ /\ c.does = "delete" /\ memory[c.id] # None
            /\ Put(c.id, None)
         \/ /\ c.does # "save" /\ memory[c.id] = None
            /\ UNCHANGED <<memory, version, flights>>
    /\ writer' = [writer EXCEPT ![w] = None]
    /\ UNCHANGED <<setting, begun, embedder, heal, cache, running, caller>>

-----------------------------------------------------------------------------
(* The healer *)

Missing == {i \in Ids : memory[i] # None /\ memory[i].vector = None}
Resting == [pc |-> "wait", wake |-> FALSE, timer |-> "now", todo |-> {}, embedded |-> {},
            failed |-> FALSE, healed |-> FALSE]

\* The loop's select: its timer, or a wake-up, which counts for nothing while the
\* embedder is known to fail.
TimerFires ==
    /\ setting.heals
    /\ heal.pc = "wait" /\ heal.timer # "never"
    /\ heal' = [heal EXCEPT !.pc = "look"]
    /\ UNCHANGED <<rows, embedder, cache, flights, running, caller>>
Woken ==
    /\ setting.heals
    /\ heal.pc = "wait" /\ heal.wake
    /\ heal' = [heal EXCEPT !.wake = FALSE, !.pc = IF embedder.failing THEN "wait" ELSE "look"]
    /\ UNCHANGED <<rows, embedder, cache, flights, running, caller>>

\* Mutant: with nothing missing it sleeps until a save wakes it.
NextLookWoken(failure, more) == IF failure THEN "backoff" ELSE IF more THEN "now" ELSE "never"
NextLook(failure, more) == IF failure THEN "backoff" ELSE IF more THEN "now" ELSE "idle"
PassOver(failure, more) ==
    heal' = [Resting EXCEPT !.wake = heal.wake, !.timer = NextLook(failure, more)]

\* healMemoryVectors and ReembedMemoryVectors: count, list what the limit allows,
\* embed in batches, and store each vector by the memory's id.
Look ==
    /\ heal.pc = "look"
    /\ IF Missing = {} THEN PassOver(FALSE, FALSE)
       ELSE \E listed \in SUBSET Missing :
              /\ listed # {}
              /\ heal' = [heal EXCEPT !.pc = "fill",
                                      !.todo = {[id |-> i, text |-> memory[i].text] : i \in listed}]
    /\ UNCHANGED <<rows, embedder, cache, flights, running, caller>>
EmbedBatch ==
    /\ heal.pc = "fill" /\ heal.embedded = {} /\ heal.todo # {}
    /\ \E batch \in SUBSET heal.todo :
         /\ batch # {} /\ (Cardinality(batch) = HealBatch \/ batch = heal.todo)
         /\ Cardinality(batch) <= HealBatch
         /\ \/ /\ embedder.up /\ Answers
               /\ heal' = [heal EXCEPT !.todo = @ \ batch, !.embedded = batch]
            \/ /\ Fails
               /\ heal' = [heal EXCEPT !.todo = @ \ batch, !.failed = TRUE]
    /\ UNCHANGED <<rows, cache, flights, running, caller>>
StoreVector ==
    /\ heal.pc = "fill"
    /\ \E m \in heal.embedded :
         /\ heal' = [heal EXCEPT !.embedded = @ \ {m}, !.healed = TRUE]
         /\ IF memory[m.id] = None THEN UNCHANGED <<memory, version, flights>>
            ELSE Put(m.id, [memory[m.id] EXCEPT !.vector = m.text])
    /\ UNCHANGED <<setting, writer, begun, embedder, cache, running, caller>>
PassEnds ==
    /\ heal.pc = "fill" /\ heal.todo = {} /\ heal.embedded = {}
    /\ PassOver(heal.failed /\ ~heal.healed, Missing # {} /\ heal.healed)
    /\ UNCHANGED <<rows, embedder, cache, flights, running, caller>>

Healer == TimerFires \/ Woken \/ Look \/ EmbedBatch \/ StoreVector \/ PassEnds

-----------------------------------------------------------------------------
(* Shared searches *)

NewRun(b) ==
    [bucket |-> b, pc |-> "embed", waiters |-> 1, present |-> 1, cancelled |-> FALSE,
     version |-> 0, vectors |-> None, failed |-> FALSE, counted |-> 0,
     during |-> {Vectors(b)}]
Asked == MapThenSumSet(LAMBDA n : flights[n].waiters, DOMAIN flights)
Waiting(c) == caller[c] # None /\ caller[c].got = None

\* searchMemoryShared: join the run of the same search, or start one.
Ask(c, b) ==
    /\ ~Waiting(c) /\ Asked < setting.searches
    /\ IF running[b] # 0
       THEN /\ flights' = [flights EXCEPT ![running[b]].waiters = @ + 1,
                                          ![running[b]].present = @ + 1]
            /\ caller' = [caller EXCEPT ![c] = [flight |-> running[b], got |-> None]]
            /\ UNCHANGED running
       ELSE /\ flights' = Append(flights, NewRun(b))
            /\ running' = [running EXCEPT ![b] = Len(flights) + 1]
            /\ caller' = [caller EXCEPT ![c] = [flight |-> Len(flights) + 1, got |-> None]]
    /\ UNCHANGED <<rows, embedder, heal, cache>>

ClosedToNewcomers(n) == [b \in Buckets |-> IF running[b] = n THEN 0 ELSE running[b]]

\* Its context ends; the last to leave cancels the run.
Leave(c) ==
    /\ Waiting(c)
    /\ LET n == caller[c].flight
           last == flights[n].present = 1
       IN /\ flights' = [flights EXCEPT ![n].present = @ - 1, ![n].cancelled = @ \/ last]
          /\ running' = IF last THEN ClosedToNewcomers(n) ELSE running
    /\ caller' = [caller EXCEPT ![c].got = "left"]
    /\ UNCHANGED <<rows, embedder, heal, cache>>
Return(c) ==
    /\ Waiting(c)
    /\ LET run == flights[caller[c].flight] IN
         /\ run.pc = "done"
         /\ caller' = [caller EXCEPT ![c].got = IF run.failed THEN "error" ELSE "answer"]
    /\ UNCHANGED <<rows, embedder, heal, cache, flights, running>>

At(n, pc) == flights[n].pc = pc

\* The keyword search answers alone; or it fails as well, and the search with it.
ByKeyword(n) ==
    \E fails \in BOOLEAN :
        flights' = [flights EXCEPT ![n].pc = "answered", ![n].vectors = None, ![n].failed = fails]

\* The query's vector, from the model or embedCache, or none in queryEmbedTimeout.
EmbedQuery(n) ==
    /\ At(n, "embed")
    /\ \/ Answers /\ flights' = [flights EXCEPT ![n].pc = "version"]
       \/ Fails /\ ByKeyword(n)
       \/ embedder.up /\ ByKeyword(n) /\ UNCHANGED embedder
    /\ UNCHANGED <<rows, heal, cache, running, caller>>

\* sessionMessageVectors
ReadVersion(n) ==
    /\ At(n, "version")
    /\ flights' = [flights EXCEPT ![n].pc = "compare", ![n].version = version[flights[n].bucket]]
    /\ UNCHANGED <<rows, embedder, heal, cache, running, caller>>
Compare(n) ==
    /\ At(n, "compare")
    /\ LET entry == cache[flights[n].bucket] IN
         IF entry # None /\ entry.version = flights[n].version
         THEN flights' = [flights EXCEPT ![n].pc = "answered", ![n].vectors = entry.vectors]
         ELSE flights' = [flights EXCEPT ![n].pc = "load"]
    /\ UNCHANGED <<rows, embedder, heal, cache, running, caller>>
Load(n) ==
    /\ At(n, "load")
    /\ flights' = [flights EXCEPT ![n].pc = "keep", ![n].vectors = Vectors(flights[n].bucket)]
    /\ UNCHANGED <<rows, embedder, heal, cache, running, caller>>

\* Mutant: the entry is said to be as of now.
EntryVersionNow(n) == version[flights[n].bucket]
EntryVersion(n) == flights[n].version
VectorsKept(c) ==
    MapThenSumSet(LAMBDA b : Cardinality(DOMAIN c[b].vectors), {b \in Buckets : c[b] # None})
Without(c, B) == [b \in Buckets |-> IF b \in B THEN None ELSE c[b]]
\* What is kept is the new entry, unless it is too large, and the others that were
\* not the oldest; a bucket's old entry goes in any case.
WithEntry(n, evicted) ==
    LET b == flights[n].bucket IN
    IF Cardinality(DOMAIN flights[n].vectors) > MaxCached THEN Without(cache, {b})
    ELSE [Without(cache, evicted) EXCEPT ![b] = [version |-> EntryVersion(n),
                                                 vectors |-> flights[n].vectors]]
\* Mutant: what is about to be kept is not counted.
FitsBefore(n, evicted) == VectorsKept(Without(cache, evicted)) <= MaxCached
Fits(n, evicted) == VectorsKept(WithEntry(n, evicted)) <= MaxCached
Keep(n) ==
    /\ At(n, "keep")
    /\ \E evicted \in SUBSET (Buckets \ {flights[n].bucket}) :
         /\ Fits(n, evicted)
         /\ evicted = {} \/ \E b \in evicted : cache[b] # None /\ ~Fits(n, evicted \ {b})
         /\ cache' = WithEntry(n, evicted)
    /\ flights' = [flights EXCEPT ![n].pc = "answered"]
    /\ UNCHANGED <<rows, embedder, heal, running, caller>>

\* A query fails; the run is cancelled, or past sharedSearchTimeout.
VectorSearchFails(n) ==
    /\ flights[n].pc \in {"version", "compare", "load"}
    /\ ByKeyword(n)
    /\ UNCHANGED <<rows, embedder, heal, cache, running, caller>>

\* Mutant: callers are counted while they may still join.
CountFirst(n) ==
    /\ running' = running
    /\ flights' = [flights EXCEPT ![n].pc = "counted", ![n].counted = flights[n].waiters]
\* Closed to newcomers before the recalls are counted.
CloseAndCount(n) ==
    /\ running' = ClosedToNewcomers(n)
    /\ flights' = [flights EXCEPT ![n].pc = "counted", ![n].counted = flights[n].waiters]
Close(n) ==
    /\ At(n, "answered")
    /\ CloseAndCount(n)
    /\ UNCHANGED <<rows, embedder, heal, cache, caller>>
\* Its goroutine ends; what is left is what callers still take from it.
Done(n) ==
    /\ At(n, "counted")
    /\ flights' = [flights EXCEPT ![n].pc = "done", ![n].version = 0, ![n].vectors = None,
                                  ![n].during = {}, ![n].cancelled = FALSE]
    /\ UNCHANGED <<rows, embedder, heal, cache, running, caller>>

Search(n) ==
    EmbedQuery(n) \/ ReadVersion(n) \/ Compare(n) \/ Load(n) \/ Keep(n) \/ VectorSearchFails(n)
    \/ Close(n) \/ Done(n)

-----------------------------------------------------------------------------
Init ==
    /\ setting \in Settings
    /\ memory = [i \in Ids |-> None] /\ version = [b \in Buckets |-> 0]
    /\ writer = [w \in Writers |-> None] /\ begun = 0
    /\ embedder = [up |-> TRUE, failing |-> FALSE, outages |-> 0]
    /\ heal = Resting
    /\ cache = [b \in Buckets |-> None]
    /\ flights = << >> /\ running = [b \in Buckets |-> 0]
    /\ caller = [c \in Callers |-> None]

Next ==
    \/ \E w \in setting.writers, i \in setting.ids :
         \/ \E b \in Buckets, t \in Texts : Save(w, i, b, t)
         \/ \E t \in Texts : Edit(w, i, t)
         \/ Annotate(w, i) \/ Delete(w, i)
    \/ \E w \in Writers : EmbedContent(w) \/ Write(w)
    \/ Outage \/ Recovery
    \/ Healer
    \/ \E c \in Callers : (\E b \in Buckets : Ask(c, b)) \/ Leave(c) \/ Return(c)
    \/ \E n \in DOMAIN flights : Search(n)

Spec == Init /\ [][Next]_vars

\* The healer's goroutine runs, and its timer fires.
FairSpec == Spec /\ WF_vars(Healer)

-----------------------------------------------------------------------------
(* Properties *)

\* Rows, entries and runs are of their types; an entry is no newer than its
\* bucket's version, and the cache keeps no more vectors than it may.
TypeOK ==
    /\ \A i \in Ids : memory[i] # None =>
         memory[i] \in [bucket : Buckets, text : Texts, vector : Texts \cup {None}]
    /\ version \in [Buckets -> Nat]
    /\ \A b \in Buckets : cache[b] # None => cache[b].version <= version[b]
    /\ VectorsKept(cache) <= MaxCached
    /\ running \in [Buckets -> 0..Len(flights)]
    /\ \A n \in DOMAIN flights :
         flights[n].present = Cardinality({c \in Callers : Waiting(c) /\ caller[c].flight = n})
         \/ flights[n].pc = "done"

\* chat_vector_cache.go:115: the cache can lag a write by one reload, never miss
\* one.  An entry of the current version holds what the table does.
CacheCurrent ==
    \A b \in Buckets :
        cache[b] # None /\ cache[b].version = version[b] => cache[b].vectors = Vectors(b)

\* chat_vector_cache.go:22: a stale entry is reloaded, never served.  What a search
\* found is what its bucket held at some moment while it ran.
AnswerOfItsTime ==
    \A n \in DOMAIN flights :
        flights[n].vectors # None => flights[n].vectors \in flights[n].during

\* memory_search_coalesce.go:61: one caller's leaving does not fail the others: a
\* run is cancelled only when nobody waits for it, or ever will.  And :77:
\* everybody an answer reaches was counted.
WaitersServed ==
    \A n \in DOMAIN flights :
        LET still == {c \in Callers : caller[c] # None /\ caller[c].flight = n
                                       /\ caller[c].got \in {None, "answer"}} IN
        /\ flights[n].cancelled /\ ~At(n, "done") => \A c \in still : ~Waiting(c)
        /\ flights[n].pc \in {"counted", "done"} => Cardinality(still) <= flights[n].counted

\* memory_vector_heal.go:3: a vector missing is a gap a later pass fills.  Once the
\* embedder answers and writers rest, every memory has one.
Healed == setting.heals /\ <>[]embedder.up => <>[](Missing = {})
=============================================================================
