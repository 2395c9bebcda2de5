------------------------- MODULE MemoryRecallProofs -------------------------
(***************************************************************************)
(* Proofs about MemoryRecall, for any number of memories, buckets, writers,*)
(* callers and runs: an entry of the current version holds what the table  *)
(* does; a search finds what its bucket held while it ran; nobody's leaving*)
(* fails the others who wait on the same run, and everybody a run's answer *)
(* reaches was counted; and the cache keeps no more than it may.           *)
(*                                                                         *)
(* The first rests on what a run knows between reading the version and     *)
(* keeping what it loaded: that the version read is no newer than the      *)
(* bucket's, and that what was loaded is what the bucket holds unless the  *)
(* version has moved since.  The second needs in addition that vectors     *)
(* another run loaded for the version this one has read were in the bucket *)
(* while this one ran.  The third rests on what a run counts of its        *)
(* callers: as many are present as wait, no fewer were counted than may    *)
(* have an answer, and a run that can still be joined is neither cancelled *)
(* nor counted.                                                            *)
(***************************************************************************)
EXTENDS MemoryRecall, SequenceTheorems, FiniteSetTheorems, TLAPS

-----------------------------------------------------------------------------
(* Runs *)

RunFields == {"bucket", "pc", "waiters", "present", "cancelled", "version", "vectors",
              "failed", "counted", "during"}
IsRun(r) == r = [f \in RunFields |-> r[f]] /\ r.bucket \in Buckets

Runs(s) == {s[n] : n \in DOMAIN s}
IsRuns(s) == s \in Seq(Runs(s)) /\ \A n \in DOMAIN s : IsRun(s[n])

(* The inductive invariant *)

Functions ==
    /\ memory = [i \in Ids |-> memory[i]]
    /\ version \in [Buckets -> Nat]
    /\ cache = [b \in Buckets |-> cache[b]]
    /\ IsRuns(flights)

\* The version a run has read is no newer than its bucket's.
VersionsRead ==
    \A n \in DOMAIN flights : flights[n].pc \in {"compare", "load", "keep"} =>
        /\ flights[n].version \in Nat
        /\ flights[n].version <= version[flights[n].bucket]

\* What a run is about to keep is what the bucket holds, or the version has moved.
LoadedCurrent ==
    \A n \in DOMAIN flights :
        /\ flights[n].pc = "keep"
        /\ flights[n].version = version[flights[n].bucket]
        => flights[n].vectors = Vectors(flights[n].bucket)

EntriesBehind ==
    \A b \in Buckets : cache[b] # None =>
        cache[b].version \in Nat /\ cache[b].version <= version[b]

CacheInv == Functions /\ VersionsRead /\ LoadedCurrent /\ EntriesBehind /\ CacheCurrent

\* What the bucket holds is among what it held while a run ran.
HeldNow ==
    \A n \in DOMAIN flights :
        flights[n].pc # "done" => Vectors(flights[n].bucket) \in flights[n].during

\* An entry of the version a run has read was in the bucket while the run ran.
EntryOfItsTime ==
    \A n \in DOMAIN flights :
        LET entry == cache[flights[n].bucket] IN
        /\ flights[n].pc = "compare"
        /\ entry # None /\ entry.version = flights[n].version
        => entry.vectors \in flights[n].during

\* So was what another run is about to keep as of that version.
LoadedOfItsTime ==
    \A n, m \in DOMAIN flights :
        /\ flights[n].pc = "compare" /\ flights[m].pc = "keep"
        /\ flights[n].bucket = flights[m].bucket /\ flights[n].version = flights[m].version
        => flights[m].vectors \in flights[n].during

TimeInv == HeldNow /\ EntryOfItsTime /\ LoadedOfItsTime /\ AnswerOfItsTime
RecallInv == CacheInv /\ TimeInv

-----------------------------------------------------------------------------
(* Sequences of runs *)

\* Changing runs one by one leaves a sequence of runs of the same length.
LEMMA SameRuns ==
    ASSUME NEW s, IsRuns(s), NEW t, t = [n \in DOMAIN s |-> t[n]],
           \A n \in DOMAIN s : IsRun(t[n])
    PROVE  IsRuns(t) /\ DOMAIN t = DOMAIN s
<1>1. Len(s) \in Nat /\ DOMAIN s = 1..Len(s)
  BY LenProperties DEF IsRuns
<1>2. DOMAIN t = 1..Len(s)
  BY <1>1
<1>3. t \in [1..Len(s) -> Runs(t)]
  BY <1>1, <1>2 DEF Runs
<1>4. t \in Seq(Runs(t))
  BY <1>1, <1>3
<1> QED BY <1>1, <1>2, <1>4 DEF IsRuns

\* One run more leaves the others as they are.
LEMMA OneMore ==
    ASSUME NEW s, IsRuns(s), NEW r, IsRun(r)
    PROVE  /\ IsRuns(Append(s, r))
           /\ DOMAIN Append(s, r) = DOMAIN s \cup {Len(s) + 1}
           /\ Len(s) + 1 \notin DOMAIN s
           /\ \A n \in DOMAIN s : Append(s, r)[n] = s[n]
           /\ Append(s, r)[Len(s) + 1] = r
<1> DEFINE S == Runs(s) \cup {r}
<1>1. s \in Seq(S)
  BY SeqMonotonic DEF IsRuns
<1>2. Len(s) \in Nat /\ DOMAIN s = 1..Len(s)
  BY LenProperties DEF IsRuns
<1>3. /\ Append(s, r) \in Seq(S)
      /\ Len(Append(s, r)) = Len(s) + 1
      /\ \A n \in 1..Len(s) : Append(s, r)[n] = s[n]
      /\ Append(s, r)[Len(s) + 1] = r
  BY <1>1, <1>2
<1>4. DOMAIN Append(s, r) = 1 .. Len(s) + 1 /\ 1 .. Len(s) + 1 = 1..Len(s) \cup {Len(s) + 1}
  BY <1>2, <1>3, LenProperties
<1>5. \A n \in DOMAIN Append(s, r) : IsRun(Append(s, r)[n])
  BY <1>2, <1>3, <1>4 DEF IsRuns
<1>6. Append(s, r) \in Seq(Runs(Append(s, r)))
  <2> DEFINE t == Append(s, r)
  <2>1. t \in [1 .. Len(s) + 1 -> S]
    BY <1>3, LenProperties
  <2>2. t \in [1 .. Len(s) + 1 -> Runs(t)]
    BY <2>1, <1>4 DEF Runs
  <2>3. Len(s) + 1 \in Nat
    BY <1>2
  <2> HIDE DEF t
  <2>4. t \in Seq(Runs(t))
    BY <2>2, <2>3
  <2> QED BY <2>4 DEF t
<1> QED BY <1>2, <1>3, <1>4, <1>5, <1>6 DEF IsRuns

-----------------------------------------------------------------------------
(* Rows *)

\* What Put does to a bucket whose version stays.
LEMMA PutBumps ==
    ASSUME NEW m, m = [i \in Ids |-> m[i]], NEW j, NEW row,
           NEW b, b \notin Bumps(m[j], row)
    PROVE  VectorsIn([m EXCEPT ![j] = row], b) = VectorsIn(m, b)
<1> DEFINE w == [m EXCEPT ![j] = row]
           Has(x) == {i \in Ids : x[i] # None /\ x[i].bucket = b /\ x[i].vector # None}
<1>1. \A i \in Ids : i # j => w[i] = m[i]
  OBVIOUS
<1>2. j \in Ids => w[j] = row
  OBVIOUS
<1>3. j \in Has(m) <=> j \in Has(w)
  BY <1>2 DEF Bumps, HasVector
<1>4. j \notin Has(m)
  BY DEF Bumps, HasVector
<1>5. Has(w) = Has(m)
  BY <1>1, <1>3
<1>6. \A i \in Has(m) : w[i].vector = m[i].vector
  BY <1>1, <1>4
<1> HIDE DEF w
<1>7. [i \in Has(w) |-> w[i].vector] = [i \in Has(m) |-> m[i].vector]
  BY <1>5, <1>6
<1> QED BY <1>7 DEF w, VectorsIn

-----------------------------------------------------------------------------
(* Steps *)

\* A write: the buckets whose vectors it changes get a later version.
LEMMA PutKeeps ==
    ASSUME RecallInv, NEW j, NEW row, Put(j, row), UNCHANGED cache
    PROVE  RecallInv'
<1> USE DEF RecallInv, CacheInv
<1>1. /\ memory' = [i \in Ids |-> memory'[i]]
      /\ memory' = [memory EXCEPT ![j] = row]
  BY DEF Functions, Put
<1>2. version' \in [Buckets -> Nat] /\ \A b \in Buckets : version[b] <= version'[b]
  BY DEF Functions, Put
<1>3. \A b \in Buckets : version'[b] = version[b] => VectorsIn(memory', b) = Vectors(b)
  <2> SUFFICES ASSUME NEW b \in Buckets, version'[b] = version[b]
               PROVE  VectorsIn(memory', b) = VectorsIn(memory, b)
    BY DEF Vectors
  <2>1. b \notin Bumps(memory[j], row)
    BY DEF Functions, Put
  <2>2. memory = [i \in Ids |-> memory[i]]
    BY DEF Functions
  <2> QED BY <1>1, <2>1, <2>2, PutBumps
<1>4. \A n \in DOMAIN flights :
        /\ IsRun(flights'[n])
        /\ \A f \in RunFields \ {"during"} : flights'[n][f] = flights[n][f]
        /\ flights'[n].during = IF flights[n].pc = "done" THEN flights[n].during
                                ELSE flights[n].during \cup {VectorsIn(memory', flights[n].bucket)}
  BY DEF Functions, IsRuns, IsRun, RunFields, Put
<1>5. IsRuns(flights') /\ DOMAIN flights' = DOMAIN flights
  <2>1. flights' = [n \in DOMAIN flights |-> flights'[n]]
    BY DEF Put
  <2>2. IsRuns(flights)
    BY DEF Functions
  <2> QED BY <1>4, <2>1, <2>2, SameRuns
<1>6. \A n \in DOMAIN flights :
        /\ flights'[n].bucket = flights[n].bucket /\ flights'[n].pc = flights[n].pc
        /\ flights'[n].version = flights[n].version /\ flights'[n].vectors = flights[n].vectors
        /\ flights[n].during \subseteq flights'[n].during
        /\ flights[n].bucket \in Buckets
  BY <1>4, ZenonT(30) DEF RunFields, Functions, IsRuns, IsRun
<1>7. Functions'
  BY <1>1, <1>2, <1>5 DEF Functions
<1>8. VersionsRead' /\ EntriesBehind'
  BY <1>2, <1>5, <1>6 DEF VersionsRead, EntriesBehind, Functions
<1>9. LoadedCurrent' /\ CacheCurrent'
  <2>1. ASSUME NEW n \in DOMAIN flights, flights'[n].pc = "keep",
               flights'[n].version = version'[flights'[n].bucket]
        PROVE  flights'[n].vectors = VectorsIn(memory', flights[n].bucket)
    <3>1. flights[n].version = version[flights[n].bucket]
      BY <1>2, <1>6, <2>1 DEF VersionsRead, Functions
    <3> QED BY <1>3, <1>6, <2>1, <3>1 DEF LoadedCurrent
  <2>2. ASSUME NEW b \in Buckets, cache[b] # None, cache[b].version = version'[b]
        PROVE  cache[b].vectors = VectorsIn(memory', b)
    <3>1. cache[b].version = version[b]
      BY <1>2, <2>2 DEF EntriesBehind, Functions
    <3> QED BY <1>3, <2>2, <3>1 DEF CacheCurrent
  <2> QED BY <1>5, <1>6, <2>1, <2>2 DEF LoadedCurrent, CacheCurrent, Vectors
<1>10. HeldNow'
  <2>1. \A n \in DOMAIN flights : flights[n].pc # "done" =>
          VectorsIn(memory', flights[n].bucket) \in flights'[n].during
    BY <1>4
  <2> QED BY <1>5, <1>6, <2>1 DEF HeldNow, Vectors
<1>11. EntryOfItsTime' /\ LoadedOfItsTime' /\ AnswerOfItsTime'
  BY <1>5, <1>6 DEF TimeInv, EntryOfItsTime, LoadedOfItsTime, AnswerOfItsTime
<1> QED BY <1>7, <1>8, <1>9, <1>10, <1>11 DEF TimeInv

\* What a run may come to, r, when it moves on and no row does.
Sound(n, r) ==
    LET b == r.bucket IN
    /\ IsRun(r) /\ b = flights[n].bucket
    /\ r.pc \in {"compare", "load", "keep"} => r.version \in Nat /\ r.version <= version[b]
    /\ r.pc = "keep" /\ r.version = version[b] => r.vectors = Vectors(b)
    /\ r.pc # "done" => flights[n].pc # "done" /\ r.during = flights[n].during
    /\ r.pc = "compare" /\ cache[b] # None /\ cache[b].version = r.version
         => cache[b].vectors \in r.during
    /\ \A m \in DOMAIN flights \ {n} : flights[m].bucket = b /\ flights[m].version = r.version =>
         /\ r.pc = "compare" /\ flights[m].pc = "keep" => flights[m].vectors \in r.during
         /\ r.pc = "keep" /\ flights[m].pc = "compare" => r.vectors \in flights[m].during
    /\ r.vectors # None => r.vectors \in r.during

\* A run that moves on soundly.
LEMMA MoveKeeps ==
    ASSUME RecallInv, NEW n, NEW r, flights' = [flights EXCEPT ![n] = r],
           n \in DOMAIN flights => Sound(n, r), UNCHANGED <<memory, version, cache>>
    PROVE  RecallInv'
<1> USE DEF RecallInv, CacheInv
<1>1. CASE n \notin DOMAIN flights
  <2>1. flights' = flights
    <3>1. IsRuns(flights)
      BY DEF Functions
    <3>2. flights = [m \in DOMAIN flights |-> flights[m]]
      BY <3>1, LenProperties DEF IsRuns
    <3> QED BY <1>1, <3>2
  <2> QED BY <2>1 DEF Functions, VersionsRead, LoadedCurrent, EntriesBehind, CacheCurrent, Vectors,
                      TimeInv, HeldNow, EntryOfItsTime, LoadedOfItsTime, AnswerOfItsTime
<1>2. CASE n \in DOMAIN flights
  <2>1. /\ flights'[n] = r /\ \A m \in DOMAIN flights \ {n} : flights'[m] = flights[m]
        /\ flights' = [m \in DOMAIN flights |-> flights'[m]]
    BY <1>2
  <2>2. Sound(n, r)
    BY <1>2
  <2>3. IsRuns(flights') /\ DOMAIN flights' = DOMAIN flights
    <3>1. \A m \in DOMAIN flights : IsRun(flights'[m])
      BY <2>1, <2>2 DEF Sound, Functions, IsRuns
    <3>2. IsRuns(flights)
      BY DEF Functions
    <3> QED BY <2>1, <3>1, <3>2, SameRuns
  <2>4. Functions' /\ EntriesBehind' /\ CacheCurrent'
    BY <2>3 DEF Functions, EntriesBehind, CacheCurrent, Vectors
  <2>5. VersionsRead' /\ LoadedCurrent'
    BY <2>1, <2>2, <2>3 DEF Sound, VersionsRead, LoadedCurrent, Vectors
  <2>6. HeldNow' /\ EntryOfItsTime' /\ AnswerOfItsTime'
    BY <2>1, <2>2, <2>3 DEF Sound, TimeInv, HeldNow, EntryOfItsTime, AnswerOfItsTime, Vectors
  <2>7. LoadedOfItsTime'
    <3> SUFFICES ASSUME NEW k \in DOMAIN flights, NEW m \in DOMAIN flights,
                        flights'[k].pc = "compare", flights'[m].pc = "keep",
                        flights'[k].bucket = flights'[m].bucket,
                        flights'[k].version = flights'[m].version
                 PROVE  flights'[m].vectors \in flights'[k].during
      BY <2>3 DEF LoadedOfItsTime
    <3>1. k # m
      OBVIOUS
    <3>2. CASE k = n
      BY <2>1, <2>2, <3>1, <3>2 DEF Sound
    <3>3. CASE m = n
      BY <2>1, <2>2, <3>1, <3>3 DEF Sound
    <3>4. CASE k # n /\ m # n
      BY <2>1, <3>4 DEF TimeInv, LoadedOfItsTime
    <3> QED BY <3>2, <3>3, <3>4
  <2> QED BY <2>4, <2>5, <2>6, <2>7 DEF TimeInv
<1> QED BY <1>1, <1>2

\* A run that is at no point where the cache matters.
LEMMA AwaySound ==
    ASSUME RecallInv, NEW n \in DOMAIN flights, NEW r, IsRun(r), r.bucket = flights[n].bucket,
           r.pc \notin {"compare", "load", "keep"}, r.vectors \in {None, flights[n].vectors},
           r.pc # "done" => flights[n].pc # "done" /\ r.during = flights[n].during,
           r.pc = "done" => r.vectors = None
    PROVE  Sound(n, r)
<1>1. r.vectors # None => r.vectors \in r.during
  BY DEF RecallInv, TimeInv, AnswerOfItsTime
<1> QED BY <1>1 DEF Sound

\* A run whose callers change, and nothing else.
LEMMA CallersSound ==
    ASSUME RecallInv, NEW n \in DOMAIN flights, NEW r, IsRun(r),
           \A f \in {"bucket", "pc", "version", "vectors", "during"} : r[f] = flights[n][f]
    PROVE  Sound(n, r)
<1>1. /\ r.bucket = flights[n].bucket /\ r.pc = flights[n].pc /\ r.version = flights[n].version
      /\ r.vectors = flights[n].vectors /\ r.during = flights[n].during
  OBVIOUS
<1> QED BY <1>1 DEF RecallInv, CacheInv, VersionsRead, LoadedCurrent, TimeInv, EntryOfItsTime,
                    LoadedOfItsTime, AnswerOfItsTime, Sound

\* A new run has read nothing yet.
LEMMA NewRunKeeps ==
    ASSUME RecallInv, NEW b \in Buckets, flights' = Append(flights, NewRun(b)),
           UNCHANGED <<memory, version, cache>>
    PROVE  RecallInv'
<1> USE DEF RecallInv, CacheInv
<1> DEFINE k == Len(flights) + 1
<1>1. IsRun(NewRun(b))
  BY DEF IsRun, RunFields, NewRun
<1>2. IsRuns(flights)
  BY DEF Functions
<1>3. /\ IsRuns(flights') /\ DOMAIN flights' = DOMAIN flights \cup {k} /\ k \notin DOMAIN flights
      /\ \A n \in DOMAIN flights : flights'[n] = flights[n]
      /\ flights'[k] = NewRun(b)
  BY <1>1, <1>2, OneMore
<1> HIDE DEF k
<1>4. /\ flights'[k].pc = "embed" /\ flights'[k].vectors = None /\ flights'[k].bucket = b
      /\ Vectors(b) \in flights'[k].during
  BY <1>3 DEF NewRun
<1>5. Functions' /\ EntriesBehind' /\ CacheCurrent'
  BY <1>3 DEF Functions, EntriesBehind, CacheCurrent, Vectors
<1>6. VersionsRead' /\ LoadedCurrent'
  BY <1>3, <1>4 DEF VersionsRead, LoadedCurrent, Vectors
<1>7. HeldNow' /\ EntryOfItsTime' /\ LoadedOfItsTime' /\ AnswerOfItsTime'
  BY <1>3, <1>4 DEF TimeInv, HeldNow, EntryOfItsTime, LoadedOfItsTime, AnswerOfItsTime, Vectors
<1> QED BY <1>5, <1>6, <1>7 DEF TimeInv

\* What is kept says of itself what the run that loaded it knows.
LEMMA KeepKeeps ==
    ASSUME RecallInv, NEW n \in DOMAIN flights, Keep(n)
    PROVE  RecallInv'
<1> USE DEF RecallInv, CacheInv
<1> DEFINE c == flights[n].bucket
           entry == [version |-> flights[n].version, vectors |-> flights[n].vectors]
<1>1. /\ flights[n].pc = "keep" /\ UNCHANGED <<memory, version>>
      /\ flights' = [flights EXCEPT ![n].pc = "answered"]
  BY DEF Keep, At, rows
<1>2. /\ cache' = [b \in Buckets |-> cache'[b]]
      /\ \A b \in Buckets : cache'[b] \in {None, cache[b]} \/ (b = c /\ cache'[b] = entry)
  <2> PICK evicted \in SUBSET (Buckets \ {c}) : cache' = WithEntry(n, evicted)
    BY DEF Keep
  <2> HIDE DEF c, entry
  <2>1. \/ cache' = Without(cache, {c})
        \/ cache' = [Without(cache, evicted) EXCEPT ![c] = entry]
    BY DEF WithEntry, EntryVersion, c, entry
  <2>2. \A B : /\ Without(cache, B) = [b \in Buckets |-> Without(cache, B)[b]]
              /\ \A b \in Buckets : Without(cache, B)[b] \in {None, cache[b]}
    BY DEF Without
  <2>3. CASE cache' = Without(cache, {c})
    BY <2>2, <2>3
  <2>4. CASE cache' = [Without(cache, evicted) EXCEPT ![c] = entry]
    <3> DEFINE w == Without(cache, evicted)
    <3>1. w = [b \in Buckets |-> w[b]] /\ \A b \in Buckets : w[b] \in {None, cache[b]}
      BY <2>2
    <3>2. cache' = [w EXCEPT ![c] = entry]
      BY <2>4
    <3> HIDE DEF w
    <3> QED BY <3>1, <3>2
  <2> QED BY <2>1, <2>3, <2>4
<1>3. IsRuns(flights) /\ \A m \in DOMAIN flights : IsRun(flights[m])
  BY DEF Functions, IsRuns
<1>4. \A m \in DOMAIN flights :
        /\ IsRun(flights'[m])
        /\ \A f \in RunFields \ {"pc"} : flights'[m][f] = flights[m][f]
        /\ flights'[m].pc = IF m = n THEN "answered" ELSE flights[m].pc
  BY <1>1, <1>3 DEF IsRun, RunFields
<1>5. flights' = [m \in DOMAIN flights |-> flights'[m]]
  BY <1>1
<1>6. IsRuns(flights') /\ DOMAIN flights' = DOMAIN flights
  BY <1>3, <1>4, <1>5, SameRuns
<1>7. \A m \in DOMAIN flights :
        /\ flights'[m].bucket = flights[m].bucket /\ flights'[m].version = flights[m].version
        /\ flights'[m].vectors = flights[m].vectors /\ flights'[m].during = flights[m].during
        /\ flights[m].bucket \in Buckets
  BY <1>3, <1>4 DEF RunFields, IsRun
<1>8. /\ entry.version = flights[n].version /\ entry.vectors = flights[n].vectors
      /\ c \in Buckets
  BY <1>3 DEF IsRun
<1> HIDE DEF entry
<1>9. Functions'
  BY <1>1, <1>2, <1>6 DEF Functions
<1>10. VersionsRead' /\ LoadedCurrent'
  BY <1>1, <1>4, <1>6, <1>7 DEF VersionsRead, LoadedCurrent, Vectors
<1>11. EntriesBehind' /\ CacheCurrent'
  <2>1. /\ entry.version \in Nat /\ entry.version <= version[c]
        /\ entry.version = version[c] => entry.vectors = Vectors(c)
    BY <1>1, <1>8 DEF VersionsRead, LoadedCurrent
  <2> QED BY <1>1, <1>2, <2>1 DEF EntriesBehind, CacheCurrent, Vectors
<1>12. HeldNow' /\ LoadedOfItsTime' /\ AnswerOfItsTime'
  BY <1>1, <1>4, <1>6, <1>7 DEF TimeInv, HeldNow, LoadedOfItsTime, AnswerOfItsTime, Vectors
<1>13. EntryOfItsTime'
  <2> SUFFICES ASSUME NEW m \in DOMAIN flights, flights'[m].pc = "compare",
                      cache'[flights[m].bucket] # None,
                      cache'[flights[m].bucket].version = flights[m].version
               PROVE  cache'[flights[m].bucket].vectors \in flights[m].during
    BY <1>6, <1>7 DEF EntryOfItsTime
  <2>1. flights[m].pc = "compare" /\ flights[m].bucket \in Buckets
    BY <1>4, <1>7
  <2>2. CASE cache'[flights[m].bucket] = cache[flights[m].bucket]
    BY <2>1, <2>2 DEF TimeInv, EntryOfItsTime
  <2>3. CASE flights[m].bucket = c /\ cache'[flights[m].bucket] = entry
    BY <1>1, <1>8, <2>1, <2>3 DEF TimeInv, LoadedOfItsTime
  <2> QED BY <1>2, <2>1, <2>2, <2>3
<1> QED BY <1>9, <1>10, <1>11, <1>12, <1>13 DEF TimeInv

-----------------------------------------------------------------------------
(* Theorems *)

\* With an empty cache and no search under way the recall invariant holds.
LEMMA InitRecall == Init => RecallInv
<1> SUFFICES ASSUME Init PROVE RecallInv
  OBVIOUS
<1>1. DOMAIN flights = {} /\ IsRuns(flights)
  <2>1. flights \in Seq(Runs(flights))
    BY EmptySeq DEF Init
  <2> QED BY <2>1 DEF Init, IsRuns
<1>2. Functions
  BY <1>1 DEF Init, Functions
<1>3. \A b \in Buckets : cache[b] = None
  BY DEF Init
<1> QED BY <1>1, <1>2, <1>3 DEF RecallInv, CacheInv, VersionsRead, LoadedCurrent, EntriesBehind,
      CacheCurrent, TimeInv, HeldNow, EntryOfItsTime, LoadedOfItsTime, AnswerOfItsTime

\* Steps that touch neither rows nor runs nor the cache.
LEMMA StillKeeps ==
    ASSUME RecallInv, UNCHANGED <<memory, version, cache, flights>>
    PROVE  RecallInv'
BY DEF RecallInv, CacheInv, Functions, VersionsRead, LoadedCurrent, EntriesBehind, CacheCurrent, Vectors,
       TimeInv, HeldNow, EntryOfItsTime, LoadedOfItsTime, AnswerOfItsTime

\* Asking, leaving and returning change no vector a search has read.
LEMMA CallersKeep ==
    ASSUME RecallInv, NEW c \in Callers,
           (\E b \in Buckets : Ask(c, b)) \/ Leave(c) \/ Return(c)
    PROVE  RecallInv'
<1>1. IsRuns(flights)
  BY DEF RecallInv, CacheInv, Functions
<1>2. ASSUME NEW b \in Buckets, Ask(c, b) PROVE RecallInv'
  <2>1. UNCHANGED <<memory, version, cache>>
    BY <1>2 DEF Ask, rows
  <2>2. CASE running[b] # 0
    <3> DEFINE n == running[b]
               r == [flights[n] EXCEPT !.waiters = @ + 1, !.present = @ + 1]
    <3>1. flights' = [flights EXCEPT ![n] = r]
      BY <1>2, <2>2 DEF Ask
    <3>2. n \in DOMAIN flights => IsRun(flights[n])
      BY <1>1 DEF IsRuns
    <3>3. ASSUME n \in DOMAIN flights PROVE Sound(n, r)
      <4>1. /\ IsRun(r)
            /\ \A f \in {"bucket", "pc", "version", "vectors", "during"} : r[f] = flights[n][f]
        BY <3>2, <3>3 DEF IsRun, RunFields
      <4> HIDE DEF r, n
      <4> QED BY <3>3, <4>1, CallersSound
    <3> HIDE DEF n, r
    <3> QED BY <2>1, <3>1, <3>3, MoveKeeps
  <2>3. CASE running[b] = 0
    BY <1>2, <2>1, <2>3, NewRunKeeps DEF Ask
  <2> QED BY <2>2, <2>3
<1>3. ASSUME Leave(c) PROVE RecallInv'
  <2> DEFINE n == caller[c].flight
             r == [flights[n] EXCEPT !.present = @ - 1,
                                     !.cancelled = @ \/ flights[n].present = 1]
  <2>1. UNCHANGED <<memory, version, cache>> /\ flights' = [flights EXCEPT ![n] = r]
    BY <1>3 DEF Leave, rows
  <2>2. ASSUME n \in DOMAIN flights PROVE Sound(n, r)
    <3>1. IsRun(flights[n])
      BY <1>1, <2>2 DEF IsRuns
    <3>2. /\ IsRun(r)
          /\ \A f \in {"bucket", "pc", "version", "vectors", "during"} : r[f] = flights[n][f]
      BY <3>1 DEF IsRun, RunFields
    <3> HIDE DEF r, n
    <3> QED BY <2>2, <3>2, CallersSound
  <2> HIDE DEF n, r
  <2> QED BY <2>1, <2>2, MoveKeeps
<1>4. Return(c) => RecallInv'
  BY StillKeeps DEF Return, rows
<1> QED BY <1>2, <1>3, <1>4

\* Each step of the shared search (load, score, publish) keeps the recall invariant.
LEMMA SearchKeeps ==
    ASSUME RecallInv, NEW n \in DOMAIN flights, Search(n)
    PROVE  RecallInv'
<1> DEFINE b == flights[n].bucket
<1>1. IsRun(flights[n]) /\ b \in Buckets
  BY DEF RecallInv, CacheInv, Functions, IsRuns, IsRun
<1>2. ASSUME ByKeyword(n), flights[n].pc \in {"embed", "version", "compare", "load"},
             UNCHANGED <<memory, version, cache>>
      PROVE  RecallInv'
  <2> PICK fails \in BOOLEAN :
        flights' = [flights EXCEPT ![n].pc = "answered", ![n].vectors = None, ![n].failed = fails]
    BY <1>2 DEF ByKeyword
  <2> DEFINE r == [flights[n] EXCEPT !.pc = "answered", !.vectors = None, !.failed = fails]
  <2>1. flights' = [flights EXCEPT ![n] = r]
    OBVIOUS
  <2>2. /\ IsRun(r) /\ r.bucket = b /\ r.pc = "answered" /\ r.vectors = None
        /\ r.during = flights[n].during
    BY <1>1 DEF IsRun, RunFields
  <2> HIDE DEF r
  <2>3. flights[n].pc # "done"
    BY <1>2
  <2>4. Sound(n, r)
    BY <2>2, <2>3, AwaySound
  <2> QED BY <1>2, <2>1, <2>4, MoveKeeps
<1>3. ASSUME EmbedQuery(n) PROVE RecallInv'
  <2>1. UNCHANGED <<memory, version, cache>> /\ flights[n].pc = "embed"
    BY <1>3 DEF EmbedQuery, At, rows
  <2>2. CASE ByKeyword(n)
    BY <1>2, <2>1, <2>2
  <2>3. CASE flights' = [flights EXCEPT ![n].pc = "version"]
    <3> DEFINE r == [flights[n] EXCEPT !.pc = "version"]
    <3>1. flights' = [flights EXCEPT ![n] = r]
      BY <2>3
    <3>2. /\ IsRun(r) /\ r.bucket = b /\ r.pc = "version" /\ r.vectors = flights[n].vectors
          /\ r.during = flights[n].during
      BY <1>1 DEF IsRun, RunFields
    <3> HIDE DEF r
    <3> QED BY <2>1, <3>1, <3>2, AwaySound, MoveKeeps
  <2> QED BY <1>3, <2>2, <2>3 DEF EmbedQuery
<1>4. ASSUME ReadVersion(n) PROVE RecallInv'
  <2> DEFINE r == [flights[n] EXCEPT !.pc = "compare", !.version = version[b]]
  <2>1. /\ flights' = [flights EXCEPT ![n] = r]
        /\ UNCHANGED <<memory, version, cache>> /\ flights[n].pc = "version"
    BY <1>4 DEF ReadVersion, At, rows
  <2>2. /\ IsRun(r) /\ r.bucket = b /\ r.pc = "compare" /\ r.version = version[b]
        /\ r.vectors = flights[n].vectors /\ r.during = flights[n].during
    BY <1>1 DEF IsRun, RunFields
  <2> HIDE DEF r
  <2>3. version[b] \in Nat /\ Vectors(b) \in r.during
    BY <1>1, <2>1, <2>2 DEF RecallInv, CacheInv, Functions, TimeInv, HeldNow
  <2>4. cache[b] # None /\ cache[b].version = r.version => cache[b].vectors \in r.during
    BY <1>1, <2>2, <2>3 DEF RecallInv, CacheInv, CacheCurrent
  <2>5. \A m \in DOMAIN flights :
          /\ flights[m].pc = "keep" /\ flights[m].bucket = b /\ flights[m].version = r.version
          => flights[m].vectors \in r.during
    BY <2>2, <2>3 DEF RecallInv, CacheInv, LoadedCurrent
  <2>6. r.vectors # None => r.vectors \in r.during
    BY <2>2 DEF RecallInv, TimeInv, AnswerOfItsTime
  <2>7. Sound(n, r)
    BY <2>1, <2>2, <2>3, <2>4, <2>5, <2>6 DEF Sound
  <2> QED BY <2>1, <2>7, MoveKeeps
<1>5. ASSUME Compare(n) PROVE RecallInv'
  <2>1. UNCHANGED <<memory, version, cache>> /\ flights[n].pc = "compare"
    BY <1>5 DEF Compare, At, rows
  <2>2. CASE cache[b] # None /\ cache[b].version = flights[n].version
    <3> DEFINE r == [flights[n] EXCEPT !.pc = "answered", !.vectors = cache[b].vectors]
    <3>1. flights' = [flights EXCEPT ![n] = r]
      BY <1>5, <2>2 DEF Compare
    <3>2. /\ IsRun(r) /\ r.bucket = b /\ r.pc = "answered" /\ r.vectors = cache[b].vectors
          /\ r.during = flights[n].during
      BY <1>1 DEF IsRun, RunFields
    <3> HIDE DEF r
    <3>3. cache[b].vectors \in flights[n].during
      BY <2>1, <2>2 DEF RecallInv, TimeInv, EntryOfItsTime
    <3>4. Sound(n, r)
      BY <2>1, <3>2, <3>3 DEF Sound
    <3> QED BY <2>1, <3>1, <3>4, MoveKeeps
  <2>3. CASE ~(cache[b] # None /\ cache[b].version = flights[n].version)
    <3> DEFINE r == [flights[n] EXCEPT !.pc = "load"]
    <3>1. flights' = [flights EXCEPT ![n] = r]
      BY <1>5, <2>3 DEF Compare
    <3>2. /\ IsRun(r) /\ r.bucket = b /\ r.pc = "load" /\ r.version = flights[n].version
          /\ r.vectors = flights[n].vectors /\ r.during = flights[n].during
      BY <1>1 DEF IsRun, RunFields
    <3> HIDE DEF r
    <3>3. flights[n].version \in Nat /\ flights[n].version <= version[b]
      BY <2>1 DEF RecallInv, CacheInv, VersionsRead
    <3>4. Sound(n, r)
      BY <2>1, <3>2, <3>3 DEF RecallInv, TimeInv, AnswerOfItsTime, Sound
    <3> QED BY <2>1, <3>1, <3>4, MoveKeeps
  <2> QED BY <2>2, <2>3
<1>6. ASSUME Load(n) PROVE RecallInv'
  <2> DEFINE r == [flights[n] EXCEPT !.pc = "keep", !.vectors = Vectors(b)]
  <2>1. /\ flights' = [flights EXCEPT ![n] = r]
        /\ UNCHANGED <<memory, version, cache>> /\ flights[n].pc = "load"
    BY <1>6 DEF Load, At, rows
  <2>2. /\ IsRun(r) /\ r.bucket = b /\ r.pc = "keep" /\ r.version = flights[n].version
        /\ r.vectors = Vectors(b) /\ r.during = flights[n].during
    BY <1>1 DEF IsRun, RunFields
  <2> HIDE DEF r
  <2>3. flights[n].version \in Nat /\ flights[n].version <= version[b]
    BY <2>1 DEF RecallInv, CacheInv, VersionsRead
  <2>4. \A m \in DOMAIN flights : flights[m].pc # "done" /\ flights[m].bucket = b =>
          Vectors(b) \in flights[m].during
    BY DEF RecallInv, TimeInv, HeldNow
  <2>5. Sound(n, r)
    BY <2>1, <2>2, <2>3, <2>4 DEF Sound
  <2> QED BY <2>1, <2>5, MoveKeeps
<1>7. ASSUME VectorSearchFails(n) PROVE RecallInv'
  BY <1>2, <1>7 DEF VectorSearchFails, rows
<1>8. ASSUME Close(n) PROVE RecallInv'
  <2> DEFINE r == [flights[n] EXCEPT !.pc = "counted", !.counted = flights[n].waiters]
  <2>1. /\ flights' = [flights EXCEPT ![n] = r]
        /\ UNCHANGED <<memory, version, cache>> /\ flights[n].pc = "answered"
    BY <1>8 DEF Close, CloseAndCount, At, rows
  <2>2. /\ IsRun(r) /\ r.bucket = b /\ r.pc = "counted" /\ r.vectors = flights[n].vectors
        /\ r.during = flights[n].during
    BY <1>1 DEF IsRun, RunFields
  <2> HIDE DEF r
  <2> QED BY <2>1, <2>2, AwaySound, MoveKeeps
<1>9. ASSUME Done(n) PROVE RecallInv'
  <2> DEFINE r == [flights[n] EXCEPT !.pc = "done", !.version = 0, !.vectors = None,
                                     !.during = {}, !.cancelled = FALSE]
  <2>1. flights' = [flights EXCEPT ![n] = r] /\ UNCHANGED <<memory, version, cache>>
    BY <1>9 DEF Done, rows
  <2>2. IsRun(r) /\ r.bucket = b /\ r.pc = "done" /\ r.vectors = None
    BY <1>1 DEF IsRun, RunFields
  <2> HIDE DEF r
  <2> QED BY <2>1, <2>2, AwaySound, MoveKeeps
<1> QED BY <1>3, <1>4, <1>5, <1>6, <1>7, <1>8, <1>9, KeepKeeps DEF Search

\* Embedding a text and writing the memory keep the recall invariant.
LEMMA WritersKeep ==
    ASSUME RecallInv, NEW w \in Writers, EmbedContent(w) \/ Write(w)
    PROVE  RecallInv'
<1>1. EmbedContent(w) => RecallInv'
  BY StillKeeps DEF EmbedContent
<1>2. ASSUME Write(w) PROVE RecallInv'
  <2>1. UNCHANGED cache
    BY <1>2 DEF Write
  <2>2. (\E j, row : Put(j, row)) \/ UNCHANGED <<memory, version, flights>>
    BY <1>2 DEF Write
  <2> QED BY <2>1, <2>2, PutKeeps, StillKeeps
<1> QED BY <1>1, <1>2

\* Beginning a save, an edit or a delete writes nothing yet.
LEMMA BeginsKeep ==
    ASSUME RecallInv, NEW w, NEW i,
           \/ \E b \in Buckets, t \in Texts : Save(w, i, b, t)
           \/ \E t \in Texts : Edit(w, i, t)
           \/ Annotate(w, i) \/ Delete(w, i)
    PROVE  RecallInv'
<1>1. UNCHANGED <<memory, version, cache, flights>>
  BY DEF Save, Edit, Annotate, Delete, Begin
<1> QED BY <1>1, StillKeeps

\* The healer writes vectors by the same row write as everyone else.
LEMMA HealerKeeps ==
    ASSUME RecallInv, Healer
    PROVE  RecallInv'
<1>1. TimerFires \/ Woken \/ Look \/ EmbedBatch \/ PassEnds => RecallInv'
  BY StillKeeps DEF TimerFires, Woken, Look, EmbedBatch, PassEnds, rows
<1>2. ASSUME StoreVector PROVE RecallInv'
  <2>1. UNCHANGED cache
    BY <1>2 DEF StoreVector
  <2>2. (\E j, row : Put(j, row)) \/ UNCHANGED <<memory, version, flights>>
    BY <1>2 DEF StoreVector
  <2> QED BY <2>1, <2>2, PutKeeps, StillKeeps
<1> QED BY <1>1, <1>2 DEF Healer

\* Every step keeps the recall invariant.
LEMMA StepRecall == RecallInv /\ [Next]_vars => RecallInv'
<1> SUFFICES ASSUME RecallInv, [Next]_vars PROVE RecallInv'
  OBVIOUS
<1>1. Outage \/ Recovery => RecallInv'
  BY StillKeeps DEF Outage, Recovery, rows
<1>2. UNCHANGED vars => RecallInv'
  BY StillKeeps DEF vars, rows
<1> QED BY <1>1, <1>2, BeginsKeep, WritersKeep, HealerKeeps, CallersKeep, SearchKeeps DEF Next

\* chat_vector_cache.go:115: an entry of the current version holds what the table
\* does.
THEOREM CacheCurrentHolds == Spec => []CacheCurrent
<1>1. RecallInv => CacheCurrent
  BY DEF RecallInv, CacheInv
<1> QED BY <1>1, InitRecall, StepRecall, PTL DEF Spec

\* chat_vector_cache.go:22: a search finds what its bucket held while it ran.
THEOREM AnswerOfItsTimeHolds == Spec => []AnswerOfItsTime
<1>1. RecallInv => AnswerOfItsTime
  BY DEF RecallInv, TimeInv
<1> QED BY <1>1, InitRecall, StepRecall, PTL DEF Spec

-----------------------------------------------------------------------------
(* Callers *)

\* What callers know of runs, and runs of callers.
CallersTyped ==
    /\ caller = [c \in Callers |-> caller[c]]
    /\ IsFiniteSet({c \in Callers : caller[c] # None})
    /\ \A c \in Callers : caller[c] # None =>
         caller[c] \in [flight : DOMAIN flights, got : {None, "left", "error", "answer"}]
RunsTyped ==
    /\ running = [b \in Buckets |-> running[b]]
    /\ \A b \in Buckets : running[b] # 0 => running[b] \in DOMAIN flights
    /\ \A n \in DOMAIN flights :
         flights[n].waiters \in Nat /\ flights[n].counted \in Nat /\ flights[n].cancelled \in BOOLEAN

WaitingOn(n) == {c \in Callers : Waiting(c) /\ caller[c].flight = n}
Still(n) ==
    {c \in Callers : caller[c] # None /\ caller[c].flight = n /\ caller[c].got \in {None, "answer"}}
Closed(n) == flights[n].pc \in {"counted", "done"}

\* Newcomers join only runs that have not been counted.
RunningOpen == \A b \in Buckets : running[b] # 0 => ~Closed(running[b])

PresentExact ==
    \A n \in DOMAIN flights : ~At(n, "done") => flights[n].present = Cardinality(WaitingOn(n))

\* A run that is cancelled has nobody waiting, and nobody can join it.
CancelledEmpty ==
    \A n \in DOMAIN flights : flights[n].cancelled /\ ~At(n, "done") =>
        WaitingOn(n) = {} /\ \A b \in Buckets : running[b] # n

\* Everybody who has an answer of a run, or may have one, is counted.
AllCounted ==
    \A n \in DOMAIN flights :
        Cardinality(Still(n)) <= IF Closed(n) THEN flights[n].counted ELSE flights[n].waiters

CallerInv ==
    CallersTyped /\ RunsTyped /\ RunningOpen /\ PresentExact /\ CancelledEmpty /\ AllCounted

\* Those who wait on a run are finitely many, and may have an answer of it.
LEMMA FewWait ==
    ASSUME CallersTyped, NEW n
    PROVE  /\ IsFiniteSet(WaitingOn(n)) /\ IsFiniteSet(Still(n))
           /\ Cardinality(WaitingOn(n)) \in Nat /\ Cardinality(Still(n)) \in Nat
<1>1. /\ WaitingOn(n) \in SUBSET {c \in Callers : caller[c] # None}
      /\ Still(n) \in SUBSET {c \in Callers : caller[c] # None}
  BY DEF WaitingOn, Still, Waiting
<1>2. IsFiniteSet(WaitingOn(n)) /\ IsFiniteSet(Still(n))
  BY <1>1, FS_Subset DEF CallersTyped
<1> QED BY <1>2, FS_CardinalityType

\* Callers who may still have an answer do not become more by being fewer.
LEMMA FewerCount ==
    ASSUME NEW S, NEW T, IsFiniteSet(S), T \subseteq S
    PROVE  IsFiniteSet(T) /\ Cardinality(T) \in Nat /\ Cardinality(T) <= Cardinality(S)
<1>1. T \in SUBSET S
  OBVIOUS
<1> QED BY <1>1, FS_Subset, FS_CardinalityType

\* Runs move on, callers do not.
LEMMA RunsMoveOn ==
    ASSUME CallerInv, UNCHANGED <<caller, running>>, DOMAIN flights' = DOMAIN flights,
           \A n \in DOMAIN flights :
             /\ flights'[n].waiters = flights[n].waiters /\ flights'[n].present = flights[n].present
             /\ flights'[n].cancelled = flights[n].cancelled
             /\ flights'[n].counted = flights[n].counted
             /\ flights'[n].pc # flights[n].pc => ~Closed(n) /\ ~Closed(n)'
    PROVE  CallerInv'
<1>1. \A n : WaitingOn(n)' = WaitingOn(n) /\ Still(n)' = Still(n)
  BY DEF WaitingOn, Still, Waiting
<1>2. \A n \in DOMAIN flights : (Closed(n)' <=> Closed(n)) /\ (At(n, "done")' <=> At(n, "done"))
  BY DEF Closed, At
<1>3. CallersTyped' /\ RunsTyped'
  BY DEF CallerInv, CallersTyped, RunsTyped
<1>4. RunningOpen'
  BY <1>2 DEF CallerInv, RunsTyped, RunningOpen
<1>5. PresentExact' /\ CancelledEmpty'
  BY <1>1, <1>2 DEF CallerInv, PresentExact, CancelledEmpty
<1>6. AllCounted'
  BY <1>1, <1>2 DEF CallerInv, AllCounted
<1> QED BY <1>3, <1>4, <1>5, <1>6 DEF CallerInv

\* A caller comes to a run that is open, or to a new one.
LEMMA AskCounts ==
    ASSUME RecallInv, CallerInv, NEW c \in Callers, NEW b \in Buckets, Ask(c, b)
    PROVE  CallerInv'
<1> USE DEF CallerInv
<1> PICK k : k = IF running[b] # 0 THEN running[b] ELSE Len(flights) + 1
  OBVIOUS
<1> DEFINE old(f) == IF k \in DOMAIN flights THEN flights[k][f] ELSE 0
           to == [flight |-> k, got |-> None]
<1>1. IsRuns(flights)
  BY DEF RecallInv, CacheInv, Functions
<1>2. /\ k \in DOMAIN flights' /\ DOMAIN flights' = DOMAIN flights \cup {k}
      /\ \A n \in DOMAIN flights \ {k} : flights'[n] = flights[n]
      /\ flights'[k].waiters = old("waiters") + 1 /\ flights'[k].present = old("present") + 1
      /\ ~Closed(k)' /\ flights'[k].cancelled = FALSE /\ flights'[k].counted \in Nat
      /\ k \in DOMAIN flights => ~Closed(k)
  <2>1. CASE running[b] # 0
    <3>1. k = running[b] /\ k \in DOMAIN flights /\ ~Closed(k) /\ ~flights[k].cancelled
      BY <2>1 DEF RunsTyped, RunningOpen, CancelledEmpty, Closed, At
    <3>2. IsRun(flights[k])
      BY <1>1, <3>1 DEF IsRuns
    <3> DEFINE r == [flights[k] EXCEPT !.waiters = @ + 1, !.present = @ + 1]
    <3>3. flights' = [flights EXCEPT ![k] = r]
      BY <2>1 DEF Ask
    <3>4. /\ r.waiters = flights[k].waiters + 1 /\ r.present = flights[k].present + 1
          /\ r.pc = flights[k].pc /\ r.cancelled = flights[k].cancelled
          /\ r.counted = flights[k].counted
      BY <3>2 DEF IsRun, RunFields
    <3> HIDE DEF r
    <3>5. flights'[k] = r /\ DOMAIN flights' = DOMAIN flights
      BY <3>1, <3>3
    <3>6. flights[k].cancelled = FALSE /\ flights[k].counted \in Nat
      BY <3>1 DEF RunsTyped
    <3> QED BY <3>1, <3>3, <3>4, <3>5, <3>6 DEF Closed
  <2>2. CASE running[b] = 0
    <3>1. k = Len(flights) + 1 /\ flights' = Append(flights, NewRun(b))
      BY <2>2 DEF Ask
    <3>2. IsRun(NewRun(b))
      BY DEF IsRun, RunFields, NewRun
    <3>3. /\ DOMAIN flights' = DOMAIN flights \cup {k} /\ k \notin DOMAIN flights
          /\ \A n \in DOMAIN flights : flights'[n] = flights[n]
          /\ flights'[k] = NewRun(b)
      BY <1>1, <3>1, <3>2, OneMore
    <3> QED BY <3>3 DEF NewRun, Closed
  <2> QED BY <2>1, <2>2
<1>3. /\ caller' = [caller EXCEPT ![c] = to] /\ ~Waiting(c)
      /\ running' = running \/ running' = [running EXCEPT ![b] = k]
  BY DEF Ask
<1>4. k \in Nat
  BY <1>1, LenProperties DEF IsRuns, RunsTyped
<1>5. to # None /\ to.flight = k /\ to.got = None
  <2>1. to \in [flight : Nat, got : {None, "left", "error", "answer"}]
    BY <1>4
  <2> QED BY <2>1, MemoryRecallAssumption
<1>6. to \in [flight : DOMAIN flights', got : {None, "left", "error", "answer"}]
  BY <1>2
<1> HIDE DEF to
<1>7. caller'[c] = to /\ \A d \in Callers \ {c} : caller'[d] = caller[d]
  BY <1>3 DEF CallersTyped
<1>8. CallersTyped'
  <2>1. IsFiniteSet({d \in Callers : caller[d] # None} \cup {c})
    BY FS_AddElement DEF CallersTyped
  <2>2. {d \in Callers : caller'[d] # None} \subseteq {d \in Callers : caller[d] # None} \cup {c}
    BY <1>7
  <2>3. IsFiniteSet({d \in Callers : caller'[d] # None})
    BY <2>1, <2>2, FewerCount
  <2>4. \A d \in Callers : caller'[d] # None =>
          caller'[d] \in [flight : DOMAIN flights', got : {None, "left", "error", "answer"}]
    BY <1>2, <1>6, <1>7 DEF CallersTyped
  <2>5. caller' = [d \in Callers |-> caller'[d]]
    BY <1>3 DEF CallersTyped
  <2> QED BY <2>3, <2>4, <2>5 DEF CallersTyped
<1>9. /\ WaitingOn(k)' = WaitingOn(k) \cup {c} /\ c \notin WaitingOn(k)
      /\ Still(k)' = Still(k) \cup {c}
      /\ \A n : n # k => WaitingOn(n)' = WaitingOn(n) /\ Still(n)' \subseteq Still(n)
  BY <1>3, <1>5, <1>7 DEF WaitingOn, Still, Waiting
<1>10. /\ IsFiniteSet(WaitingOn(k)) /\ IsFiniteSet(Still(k))
       /\ Cardinality(WaitingOn(k)) \in Nat /\ Cardinality(Still(k)) \in Nat
  BY FewWait
<1>11. /\ Cardinality(WaitingOn(k)') = Cardinality(WaitingOn(k)) + 1
       /\ Cardinality(Still(k)') <= Cardinality(Still(k)) + 1
  <2>1. Cardinality(WaitingOn(k) \cup {c}) = Cardinality(WaitingOn(k)) + 1
    BY <1>9, <1>10, FS_AddElement
  <2>2. Cardinality(Still(k) \cup {c}) <= Cardinality(Still(k)) + 1
    <3>1. Cardinality(Still(k) \cup {c}) =
            IF c \in Still(k) THEN Cardinality(Still(k)) ELSE Cardinality(Still(k)) + 1
      BY <1>10, FS_AddElement
    <3> QED BY <1>10, <3>1
  <2> QED BY <1>9, <2>1, <2>2
<1>12. old("present") = Cardinality(WaitingOn(k)) /\ Cardinality(Still(k)) <= old("waiters")
       /\ old("waiters") \in Nat
  <2>1. CASE k \in DOMAIN flights
    BY <1>2, <2>1 DEF PresentExact, AllCounted, RunsTyped, Closed, At
  <2>2. CASE k \notin DOMAIN flights
    <3>1. WaitingOn(k) = {} /\ Still(k) = {}
      BY <2>2 DEF CallersTyped, WaitingOn, Still, Waiting
    <3>2. Cardinality(WaitingOn(k)) = 0 /\ Cardinality(Still(k)) = 0
      BY <3>1, FS_EmptySet
    <3>3. old("present") = 0 /\ old("waiters") = 0
      BY <2>2
    <3> QED BY <3>2, <3>3
  <2> QED BY <2>1, <2>2
<1> HIDE DEF old
<1>13. RunsTyped' /\ RunningOpen'
  <2>1. \A n \in DOMAIN flights' : flights'[n].waiters \in Nat /\ flights'[n].counted \in Nat
                                  /\ flights'[n].cancelled \in BOOLEAN
    <3>1. \A n \in DOMAIN flights \ {k} :
            flights'[n].waiters \in Nat /\ flights'[n].counted \in Nat /\ flights'[n].cancelled \in BOOLEAN
      BY <1>2 DEF RunsTyped
    <3>2. flights'[k].waiters \in Nat
      BY <1>2, <1>12
    <3>3. flights'[k].counted \in Nat /\ flights'[k].cancelled \in BOOLEAN
      BY <1>2
    <3> QED BY <1>2, <3>1, <3>2, <3>3
  <2>2. running' = [x \in Buckets |-> running'[x]]
    BY <1>3 DEF RunsTyped
  <2>3. \A x \in Buckets : running'[x] = running[x] \/ running'[x] = k
    BY <1>3 DEF RunsTyped
  <2>4. ASSUME NEW x \in Buckets, running'[x] # 0
        PROVE  running'[x] \in DOMAIN flights' /\ flights'[running'[x]].pc \notin {"counted", "done"}
    <3>1. CASE running'[x] = k
      BY <1>2, <3>1 DEF Closed
    <3>2. CASE running'[x] = running[x] /\ running[x] # k
      BY <1>2, <2>4, <3>2 DEF RunsTyped, RunningOpen, Closed
    <3> QED BY <2>3, <3>1, <3>2
  <2> QED BY <2>1, <2>2, <2>4 DEF RunsTyped, RunningOpen, Closed
<1>14. PresentExact'
  BY <1>2, <1>9, <1>11, <1>12 DEF PresentExact, At
<1>15. CancelledEmpty'
  BY <1>2, <1>3, <1>9 DEF RunsTyped, CancelledEmpty, At
<1>16. AllCounted'
  <2>1. \A n \in DOMAIN flights : n # k => Cardinality(Still(n)') <= Cardinality(Still(n))
                                          /\ Cardinality(Still(n)') \in Nat
    BY <1>9, FewWait, FewerCount
  <2>2. Cardinality(Still(k)') <= flights'[k].waiters
    <3>1. Cardinality(Still(k)') \in Nat
      BY <1>9, <1>10, FS_AddElement, FS_CardinalityType
    <3> QED BY <1>2, <1>10, <1>11, <1>12, <3>1
  <2>3. \A n \in DOMAIN flights : n # k => (Closed(n)' <=> Closed(n)) /\ flights'[n] = flights[n]
    BY <1>2 DEF Closed
  <2>4. \A n \in DOMAIN flights : Cardinality(Still(n)) \in Nat
    BY FewWait
  <2>5. ASSUME NEW n \in DOMAIN flights, n # k
        PROVE  Cardinality(Still(n)') <= IF Closed(n)' THEN flights'[n].counted ELSE flights'[n].waiters
    BY <2>1, <2>3, <2>4, <2>5 DEF AllCounted, RunsTyped
  <2> QED BY <1>2, <2>2, <2>5 DEF AllCounted
<1> QED BY <1>8, <1>13, <1>14, <1>15, <1>16

\* A caller that goes takes itself from the run; one that is answered was counted.
LEMMA LeaveCounts ==
    ASSUME RecallInv, CallerInv, NEW c \in Callers, Leave(c) \/ Return(c)
    PROVE  CallerInv'
<1> USE DEF CallerInv
<1> PICK n : n = caller[c].flight
  OBVIOUS
<1>1. IsRuns(flights) /\ IsRun(flights[n]) /\ n \in DOMAIN flights /\ n # 0
  <2>1. IsRuns(flights)
    BY DEF RecallInv, CacheInv, Functions
  <2>2. n \in DOMAIN flights
    BY DEF CallersTyped, Leave, Return, Waiting
  <2>3. Len(flights) \in Nat /\ DOMAIN flights = 1..Len(flights)
    BY <2>1, LenProperties DEF IsRuns
  <2> QED BY <2>1, <2>2, <2>3 DEF IsRuns
<1>2. Waiting(c) /\ caller[c] # None /\ caller[c].flight = n /\ caller[c].got = None
  BY DEF Leave, Return, Waiting
<1>3. PICK got \in {"left", "error", "answer"} :
        /\ caller' = [caller EXCEPT ![c] = [caller[c] EXCEPT !.got = got]]
        /\ Leave(c) => got = "left"
  BY DEF Leave, Return
<1>4. \/ caller'[c] = None
      \/ caller'[c].flight = n /\ caller'[c].got = got
  BY <1>2, <1>3 DEF CallersTyped
<1>5. /\ caller' = [d \in Callers |-> caller'[d]]
      /\ \A d \in Callers \ {c} : caller'[d] = caller[d]
      /\ caller'[c] \in [flight : DOMAIN flights, got : {None, "left", "error", "answer"}]
  BY <1>2, <1>3 DEF CallersTyped
<1>6. got # None
  BY MemoryRecallAssumption
<1>7. /\ WaitingOn(n)' = WaitingOn(n) \ {c} /\ c \in WaitingOn(n)
      /\ \A m : m # n => WaitingOn(m)' = WaitingOn(m)
      /\ \A m : Still(m)' \subseteq Still(m)
  BY <1>2, <1>4, <1>5, <1>6 DEF WaitingOn, Still, Waiting
<1>8. /\ IsFiniteSet(WaitingOn(n)') /\ Cardinality(WaitingOn(n)') = Cardinality(WaitingOn(n)) - 1
      /\ Cardinality(WaitingOn(n)) \in Nat
  <2>1. IsFiniteSet(WaitingOn(n)) /\ Cardinality(WaitingOn(n)) \in Nat
    BY FewWait
  <2>2. IsFiniteSet(WaitingOn(n) \ {c}) /\ Cardinality(WaitingOn(n) \ {c}) = Cardinality(WaitingOn(n)) - 1
    BY <1>7, <2>1, FS_RemoveElement
  <2> QED BY <1>7, <2>1, <2>2
<1>9. \A m : Cardinality(Still(m)') <= Cardinality(Still(m)) /\ Cardinality(Still(m)') \in Nat
             /\ Cardinality(Still(m)) \in Nat
  BY <1>7, FewWait, FewerCount
<1>10. DOMAIN flights' = DOMAIN flights => CallersTyped'
  <2>1. {d \in Callers : caller'[d] # None} \subseteq {d \in Callers : caller[d] # None}
    BY <1>2, <1>5
  <2>2. IsFiniteSet({d \in Callers : caller'[d] # None})
    BY <2>1, FewerCount DEF CallersTyped
  <2> QED BY <1>5, <2>2 DEF CallersTyped
<1>11. ASSUME Leave(c) PROVE CallerInv'
  <2> DEFINE last == flights[n].present = 1
             r == [flights[n] EXCEPT !.present = @ - 1, !.cancelled = @ \/ last]
  <2>1. /\ flights' = [flights EXCEPT ![n] = r]
        /\ running' = IF last THEN ClosedToNewcomers(n) ELSE running
    BY <1>11 DEF Leave
  <2>2. /\ r.waiters = flights[n].waiters /\ r.counted = flights[n].counted /\ r.pc = flights[n].pc
        /\ r.present = flights[n].present - 1
        /\ r.cancelled = (flights[n].cancelled \/ last)
    BY <1>1 DEF IsRun, RunFields
  <2> HIDE DEF r
  <2>3. /\ DOMAIN flights' = DOMAIN flights /\ flights'[n] = r
        /\ \A m \in DOMAIN flights \ {n} : flights'[m] = flights[m]
    BY <1>1, <2>1
  <2>4. \A m \in DOMAIN flights : /\ Closed(m)' <=> Closed(m)
                                  /\ At(m, "done")' <=> At(m, "done")
                                  /\ flights'[m].waiters = flights[m].waiters
                                  /\ flights'[m].counted = flights[m].counted
    BY <2>2, <2>3 DEF Closed, At
  <2>5. running' = [b \in Buckets |-> running'[b]]
        /\ \A b \in Buckets : running'[b] = running[b] \/ running'[b] = 0
    BY <2>1 DEF RunsTyped, ClosedToNewcomers
  <2>6. RunsTyped' /\ RunningOpen'
    <3>1. \A m \in DOMAIN flights : flights'[m].cancelled \in BOOLEAN
      BY <2>2, <2>3 DEF RunsTyped
    <3>2. \A b \in Buckets : running'[b] # 0 => running'[b] \in DOMAIN flights'
                                               /\ flights'[running'[b]].pc \notin {"counted", "done"}
      BY <2>2, <2>3, <2>5 DEF RunsTyped, RunningOpen, Closed
    <3>3. \A m \in DOMAIN flights : flights'[m].waiters \in Nat /\ flights'[m].counted \in Nat
      BY <2>4 DEF RunsTyped
    <3>4. RunningOpen'
      BY <3>2 DEF RunningOpen, Closed
    <3> QED BY <2>3, <2>5, <3>1, <3>2, <3>3, <3>4 DEF RunsTyped
  <2>7. PresentExact'
    <3>1. ~At(n, "done") => flights'[n].present = Cardinality(WaitingOn(n)')
      BY <1>1, <1>8, <2>2, <2>3 DEF PresentExact
    <3>2. \A m \in DOMAIN flights : m # n /\ ~At(m, "done") =>
            flights'[m].present = Cardinality(WaitingOn(m)')
      BY <1>7, <2>3 DEF PresentExact
    <3> QED BY <2>3, <2>4, <3>1, <3>2 DEF PresentExact
  <2>8. CancelledEmpty'
    <3>1. ASSUME ~At(n, "done"), r.cancelled
          PROVE  WaitingOn(n)' = {} /\ \A b \in Buckets : running'[b] # n
      <4>1. ~flights[n].cancelled
        BY <1>1, <1>7, <3>1 DEF CancelledEmpty
      <4>2. flights[n].present = 1
        BY <2>2, <3>1, <4>1
      <4>3. Cardinality(WaitingOn(n)') = 0
        BY <1>1, <1>8, <3>1, <4>2 DEF PresentExact
      <4>4. WaitingOn(n)' = {}
        BY <1>8, <4>3, FS_EmptySet
      <4>5. \A b \in Buckets : running'[b] # n
        BY <1>1, <2>1, <4>2 DEF ClosedToNewcomers
      <4> QED BY <4>4, <4>5
    <3>2. ASSUME NEW m \in DOMAIN flights, m # n, flights[m].cancelled, ~At(m, "done")
          PROVE  WaitingOn(m)' = {} /\ \A b \in Buckets : running'[b] # m
      <4>1. m # 0
        BY <1>1, LenProperties DEF IsRuns
      <4> QED BY <1>7, <2>5, <3>2, <4>1 DEF CancelledEmpty
    <3> QED BY <2>3, <2>4, <3>1, <3>2 DEF CancelledEmpty
  <2>9. AllCounted'
    BY <1>9, <2>3, <2>4 DEF AllCounted, RunsTyped
  <2> QED BY <1>10, <2>3, <2>6, <2>7, <2>8, <2>9
<1>12. ASSUME Return(c) PROVE CallerInv'
  <2>1. UNCHANGED <<flights, running>> /\ At(n, "done")
    BY <1>12 DEF Return, At
  <2>2. RunsTyped' /\ RunningOpen'
    BY <2>1 DEF RunsTyped, RunningOpen, Closed
  <2>3. PresentExact' /\ CancelledEmpty'
    BY <1>7, <2>1 DEF PresentExact, CancelledEmpty, At
  <2>4. AllCounted'
    BY <1>9, <2>1 DEF AllCounted, RunsTyped, Closed
  <2> QED BY <1>10, <2>1, <2>2, <2>3, <2>4
<1> QED BY <1>11, <1>12

\* A run is closed to newcomers as it is counted, and then done.
LEMMA CloseCounts ==
    ASSUME RecallInv, CallerInv, NEW n \in DOMAIN flights, Close(n) \/ Done(n)
    PROVE  CallerInv'
<1> USE DEF CallerInv
<1> DEFINE pc == IF At(n, "answered") THEN "counted" ELSE "done"
<1>1. IsRuns(flights) /\ IsRun(flights[n])
  BY DEF RecallInv, CacheInv, Functions, IsRuns
<1>2. PICK r : /\ flights' = [flights EXCEPT ![n] = r]
               /\ r.waiters = flights[n].waiters /\ r.present = flights[n].present
               /\ r.counted = IF Closed(n) THEN flights[n].counted ELSE flights[n].waiters
               /\ \/ r.pc = "done"
                  \/ r.pc = "counted" /\ flights[n].pc = "answered" /\ r.cancelled = flights[n].cancelled
                     /\ running' = ClosedToNewcomers(n)
               /\ r.cancelled \in BOOLEAN
  <2>1. CASE Close(n)
    <3> DEFINE r == [flights[n] EXCEPT !.pc = "counted", !.counted = flights[n].waiters]
    <3>1. flights' = [flights EXCEPT ![n] = r] /\ running' = ClosedToNewcomers(n)
          /\ flights[n].pc = "answered"
      BY <2>1 DEF Close, CloseAndCount, At
    <3>2. /\ r.waiters = flights[n].waiters /\ r.present = flights[n].present
          /\ r.counted = flights[n].waiters /\ r.pc = "counted" /\ r.cancelled = flights[n].cancelled
      BY <1>1 DEF IsRun, RunFields
    <3> HIDE DEF r
    <3> QED BY <3>1, <3>2 DEF Closed, RunsTyped
  <2>2. CASE Done(n)
    <3> DEFINE r == [flights[n] EXCEPT !.pc = "done", !.version = 0, !.vectors = None,
                                       !.during = {}, !.cancelled = FALSE]
    <3>1. flights' = [flights EXCEPT ![n] = r] /\ flights[n].pc = "counted"
      BY <2>2 DEF Done, At
    <3>2. /\ r.waiters = flights[n].waiters /\ r.present = flights[n].present
          /\ r.counted = flights[n].counted /\ r.pc = "done" /\ r.cancelled = FALSE
      BY <1>1 DEF IsRun, RunFields
    <3> HIDE DEF r
    <3> QED BY <3>1, <3>2 DEF Closed
  <2> QED BY <2>1, <2>2
<1>3. /\ UNCHANGED caller
      /\ running' = running \/ running' = ClosedToNewcomers(n)
      /\ Closed(n) \/ running' = ClosedToNewcomers(n)
  BY DEF Close, CloseAndCount, Done, At, Closed
<1>4. /\ DOMAIN flights' = DOMAIN flights /\ flights'[n] = r
      /\ \A m \in DOMAIN flights \ {n} : flights'[m] = flights[m]
  BY <1>2
<1>5. \A m : WaitingOn(m)' = WaitingOn(m) /\ Still(m)' = Still(m)
  BY <1>3 DEF WaitingOn, Still, Waiting
<1>6. CallersTyped'
  BY <1>3, <1>4 DEF CallersTyped
<1>7. /\ running' = [b \in Buckets |-> running'[b]]
      /\ \A b \in Buckets : running'[b] \in {running[b], 0}
      /\ \A b \in Buckets : running'[b] # 0 => running'[b] # n
  <2>1. \A b \in Buckets : running[b] # 0 /\ Closed(n) => running[b] # n
    BY DEF RunningOpen
  <2> QED BY <1>3, <2>1 DEF RunsTyped, ClosedToNewcomers
<1>8. RunsTyped' /\ RunningOpen'
  <2>1. \A m \in DOMAIN flights :
          flights'[m].waiters \in Nat /\ flights'[m].counted \in Nat /\ flights'[m].cancelled \in BOOLEAN
    BY <1>2, <1>4 DEF RunsTyped
  <2>2. \A b \in Buckets : running'[b] # 0 => /\ running'[b] \in DOMAIN flights
                                              /\ flights'[running'[b]] = flights[running[b]]
                                              /\ ~Closed(running[b])
    BY <1>4, <1>7 DEF RunsTyped, RunningOpen
  <2> QED BY <1>4, <1>7, <2>1, <2>2 DEF RunsTyped, RunningOpen, Closed
<1>9. PresentExact'
  BY <1>2, <1>4, <1>5 DEF PresentExact, At
<1>10. CancelledEmpty'
  <2>1. \A m \in DOMAIN flights : m # 0
    BY <1>1, LenProperties DEF IsRuns
  <2>2. ASSUME NEW m \in DOMAIN flights, flights'[m].cancelled, flights'[m].pc # "done"
        PROVE  WaitingOn(m) = {} /\ \A b \in Buckets : running'[b] # m
    <3>1. flights[m].cancelled /\ flights[m].pc # "done"
      BY <1>2, <1>4, <2>2
    <3> QED BY <1>7, <2>1, <3>1 DEF CancelledEmpty, At
  <2> QED BY <1>4, <1>5, <2>2 DEF CancelledEmpty, At
<1>11. AllCounted'
  BY <1>2, <1>4, <1>5 DEF AllCounted, Closed
<1> QED BY <1>6, <1>8, <1>9, <1>10, <1>11

\* Until it is counted, a run leaves what its callers are counted by alone.
LEMMA SearchCounts ==
    ASSUME RecallInv, CallerInv, NEW n \in DOMAIN flights, Search(n)
    PROVE  CallerInv'
<1> DEFINE Moved == /\ DOMAIN flights' = DOMAIN flights
                    /\ \A m \in DOMAIN flights \ {n} : flights'[m] = flights[m]
                    /\ flights'[n].waiters = flights[n].waiters
                    /\ flights'[n].present = flights[n].present
                    /\ flights'[n].cancelled = flights[n].cancelled
                    /\ flights'[n].counted = flights[n].counted
                    /\ flights'[n].pc \notin {"counted", "done"}
<1>1. IsRun(flights[n])
  BY DEF RecallInv, CacheInv, Functions, IsRuns
<1>2. ASSUME NEW r, flights' = [flights EXCEPT ![n] = r], r.pc \notin {"counted", "done"},
             \A f \in {"waiters", "present", "cancelled", "counted"} : r[f] = flights[n][f]
      PROVE  Moved
  BY <1>2
<1>3. ASSUME ByKeyword(n) PROVE Moved
  <2> PICK fails \in BOOLEAN :
        flights' = [flights EXCEPT ![n].pc = "answered", ![n].vectors = None, ![n].failed = fails]
    BY <1>3 DEF ByKeyword
  <2> DEFINE r == [flights[n] EXCEPT !.pc = "answered", !.vectors = None, !.failed = fails]
  <2>1. flights' = [flights EXCEPT ![n] = r]
    OBVIOUS
  <2>2. r.pc = "answered" /\ \A f \in {"waiters", "present", "cancelled", "counted"} : r[f] = flights[n][f]
    BY <1>1 DEF IsRun, RunFields
  <2> HIDE DEF r, Moved
  <2> QED BY <1>2, <2>1, <2>2
<1>4. ASSUME NEW pc, pc \notin {"counted", "done"}, flights' = [flights EXCEPT ![n].pc = pc]
      PROVE  Moved
  <2> DEFINE r == [flights[n] EXCEPT !.pc = pc]
  <2>1. flights' = [flights EXCEPT ![n] = r]
    BY <1>4
  <2>2. r.pc = pc /\ \A f \in {"waiters", "present", "cancelled", "counted"} : r[f] = flights[n][f]
    BY <1>1 DEF IsRun, RunFields
  <2> HIDE DEF r, Moved
  <2> QED BY <1>2, <1>4, <2>1, <2>2
<1>5. ASSUME NEW pc, pc \notin {"counted", "done"}, NEW vs,
             flights' = [flights EXCEPT ![n].pc = pc, ![n].vectors = vs]
      PROVE  Moved
  <2> DEFINE r == [flights[n] EXCEPT !.pc = pc, !.vectors = vs]
  <2>1. flights' = [flights EXCEPT ![n] = r]
    BY <1>5
  <2>2. r.pc = pc /\ \A f \in {"waiters", "present", "cancelled", "counted"} : r[f] = flights[n][f]
    BY <1>1 DEF IsRun, RunFields
  <2> HIDE DEF r, Moved
  <2> QED BY <1>2, <1>5, <2>1, <2>2
<1>6. ReadVersion(n) => Moved
  <2> SUFFICES ASSUME ReadVersion(n) PROVE Moved
    OBVIOUS
  <2> DEFINE r == [flights[n] EXCEPT !.pc = "compare", !.version = version[flights[n].bucket]]
  <2>1. flights' = [flights EXCEPT ![n] = r]
    BY DEF ReadVersion
  <2>2. r.pc = "compare" /\ \A f \in {"waiters", "present", "cancelled", "counted"} : r[f] = flights[n][f]
    BY <1>1 DEF IsRun, RunFields
  <2> HIDE DEF r, Moved
  <2> QED BY <1>2, <2>1, <2>2
<1>7. ASSUME Moved, At(n, "counted") = FALSE, At(n, "done") = FALSE, UNCHANGED <<caller, running>>
      PROVE  CallerInv'
  <2>1. ~Closed(n) /\ ~Closed(n)'
    BY <1>7 DEF At, Closed
  <2>2. \A m \in DOMAIN flights :
          /\ flights'[m].waiters = flights[m].waiters /\ flights'[m].present = flights[m].present
          /\ flights'[m].cancelled = flights[m].cancelled
          /\ flights'[m].counted = flights[m].counted
          /\ flights'[m].pc # flights[m].pc => ~Closed(m) /\ ~Closed(m)'
    BY <1>7, <2>1
  <2> QED BY <1>7, <2>2, RunsMoveOn
<1> HIDE DEF Moved
<1>8. ASSUME EmbedQuery(n) \/ ReadVersion(n) \/ Compare(n) \/ Load(n) \/ Keep(n) \/ VectorSearchFails(n)
      PROVE  CallerInv'
  <2>1. UNCHANGED <<caller, running>> /\ At(n, "counted") = FALSE /\ At(n, "done") = FALSE
    BY <1>8 DEF EmbedQuery, ReadVersion, Compare, Load, Keep, VectorSearchFails, At
  <2>2. EmbedQuery(n) \/ VectorSearchFails(n) => Moved
    BY <1>3, <1>4 DEF EmbedQuery, VectorSearchFails
  <2>3. Compare(n) \/ Load(n) \/ Keep(n) => Moved
    <3>1. ASSUME Keep(n) PROVE Moved
      <4>1. flights' = [flights EXCEPT ![n].pc = "answered"]
        BY <3>1 DEF Keep
      <4>2. "answered" \notin {"counted", "done"}
        OBVIOUS
      <4> QED BY ONLY <1>4, <4>1, <4>2
    <3>2. Load(n) => Moved
      BY <1>5 DEF Load
    <3>3. ASSUME Compare(n) PROVE Moved
      <4> DEFINE kept == cache[flights[n].bucket].vectors
      <4>1. \/ flights' = [flights EXCEPT ![n].pc = "answered", ![n].vectors = kept]
            \/ flights' = [flights EXCEPT ![n].pc = "load"]
        BY <3>3 DEF Compare
      <4> HIDE DEF kept
      <4>2. CASE flights' = [flights EXCEPT ![n].pc = "answered", ![n].vectors = kept]
        BY <1>5, <4>2
      <4>3. CASE flights' = [flights EXCEPT ![n].pc = "load"]
        <5>1. "load" \notin {"counted", "done"}
          OBVIOUS
        <5> QED BY <1>4, <4>3, <5>1, Zenon
      <4> QED BY <4>1, <4>2, <4>3
    <3> QED BY <3>1, <3>2, <3>3
  <2> QED BY <1>6, <1>7, <1>8, <2>1, <2>2, <2>3
<1> QED BY <1>8, CloseCounts DEF Search

\* A write adds to what runs have seen, and nothing else.
LEMMA PutCounts ==
    ASSUME RecallInv, CallerInv, NEW j, NEW row, Put(j, row), UNCHANGED <<caller, running>>
    PROVE  CallerInv'
<1>1. \A n \in DOMAIN flights : IsRun(flights[n])
  BY DEF RecallInv, CacheInv, Functions, IsRuns
<1>2. DOMAIN flights' = DOMAIN flights
      /\ \A n \in DOMAIN flights :
           /\ flights'[n].waiters = flights[n].waiters /\ flights'[n].present = flights[n].present
           /\ flights'[n].cancelled = flights[n].cancelled
           /\ flights'[n].counted = flights[n].counted /\ flights'[n].pc = flights[n].pc
  BY <1>1 DEF Put, IsRun, RunFields
<1> QED BY <1>2, RunsMoveOn

\* A step that leaves searches and callers alone leaves the count of waiters right.
LEMMA StillCounts ==
    ASSUME CallerInv, UNCHANGED <<flights, caller, running>>
    PROVE  CallerInv'
BY RunsMoveOn

\* With no search under way every waiter is counted.
LEMMA InitCounts == Init => CallerInv
<1> SUFFICES ASSUME Init PROVE CallerInv
  OBVIOUS
<1>1. {c \in Callers : caller[c] # None} = {}
  BY DEF Init
<1>2. CallersTyped
  BY <1>1, FS_EmptySet DEF Init, CallersTyped
<1>3. DOMAIN flights = {} /\ running = [b \in Buckets |-> 0]
  BY DEF Init
<1> QED BY <1>2, <1>3 DEF CallerInv, RunsTyped, RunningOpen, PresentExact, CancelledEmpty, AllCounted

\* Any step keeps the count of a run's callers.
LEMMA StepCounts == RecallInv /\ CallerInv /\ [Next]_vars => CallerInv'
<1> SUFFICES ASSUME RecallInv, CallerInv, [Next]_vars PROVE CallerInv'
  OBVIOUS
<1>1. ASSUME NEW w, NEW i,
             \/ \E b \in Buckets, t \in Texts : Save(w, i, b, t)
             \/ \E t \in Texts : Edit(w, i, t)
             \/ Annotate(w, i) \/ Delete(w, i)
      PROVE  CallerInv'
  <2>1. UNCHANGED <<flights, caller, running>>
    BY <1>1 DEF Save, Edit, Annotate, Delete, Begin
  <2> QED BY <2>1, StillCounts
<1>2. ASSUME NEW w, EmbedContent(w) \/ Write(w) PROVE CallerInv'
  <2>1. UNCHANGED <<caller, running>> /\ ((\E j, row : Put(j, row)) \/ UNCHANGED flights)
    BY <1>2 DEF EmbedContent, Write
  <2> QED BY <2>1, PutCounts, StillCounts
<1>3. Healer => CallerInv'
  <2>1. ASSUME Healer
        PROVE  UNCHANGED <<caller, running>> /\ ((\E j, row : Put(j, row)) \/ UNCHANGED flights)
    BY <2>1 DEF Healer, TimerFires, Woken, Look, EmbedBatch, StoreVector, PassEnds
  <2> QED BY <2>1, PutCounts, StillCounts
<1>4. Outage \/ Recovery \/ UNCHANGED vars => CallerInv'
  BY StillCounts DEF Outage, Recovery, vars
<1> QED BY <1>1, <1>2, <1>3, <1>4, AskCounts, LeaveCounts, SearchCounts DEF Next

\* memory_search_coalesce.go:61 and :77: a run is cancelled only when nobody waits
\* for it, and everybody its answer reaches was counted.
THEOREM WaitersServedHolds == Spec => []WaitersServed
<1>1. CallerInv => WaitersServed
  <2> SUFFICES ASSUME CallerInv, NEW n \in DOMAIN flights
               PROVE  /\ flights[n].cancelled /\ ~At(n, "done") => \A c \in Still(n) : ~Waiting(c)
                      /\ Closed(n) => Cardinality(Still(n)) <= flights[n].counted
    BY DEF WaitersServed, Still, Closed
  <2>1. \A c \in Still(n) : Waiting(c) => c \in WaitingOn(n)
    BY DEF Still, WaitingOn
  <2> QED BY <2>1 DEF CallerInv, CancelledEmpty, AllCounted
<1> QED BY <1>1, InitRecall, StepRecall, InitCounts, StepCounts, PTL DEF Spec

-----------------------------------------------------------------------------
(* Types *)

Row == [bucket : Buckets, text : Texts, vector : Texts \cup {None}]
Call == [does : {"save", "update", "delete"}, pc : {"embed", "write"}, id : Ids,
         bucket : Buckets, text : Texts, vector : Texts \cup {None}]
Listed == SUBSET [id : Ids, text : Texts]
HealerState ==
    [pc : {"wait", "look", "fill"}, wake : BOOLEAN, timer : {"now", "idle", "backoff", "never"},
     todo : Listed, embedded : Listed, failed : BOOLEAN, healed : BOOLEAN]

RowsTyped == \A i \in Ids : memory[i] # None => memory[i] \in Row
TypesInv ==
    /\ setting \in Settings
    /\ RowsTyped
    /\ writer = [w \in Writers |-> writer[w]]
    /\ \A w \in Writers : writer[w] # None => writer[w] \in Call
    /\ heal \in HealerState
    /\ embedder.failing \in BOOLEAN /\ embedder = [f \in {"up", "failing", "outages"} |-> embedder[f]]
    /\ VectorsKept(cache) <= MaxCached

\* The memory table, the cache and the callers start with their types.
LEMMA InitTyped == Init => TypesInv
<1> SUFFICES ASSUME Init PROVE TypesInv
  OBVIOUS
<1>1. RowsTyped /\ setting \in Settings /\ writer = [w \in Writers |-> None]
  BY DEF Init, RowsTyped
<1>2. heal \in HealerState
  BY DEF Init, Resting, HealerState, Listed
<1>3. embedder = [up |-> TRUE, failing |-> FALSE, outages |-> 0]
  BY DEF Init
<1>4. embedder.failing \in BOOLEAN /\ embedder = [f \in {"up", "failing", "outages"} |-> embedder[f]]
  BY <1>3
<1>5. VectorsKept(cache) = 0
  <2>1. {b \in Buckets : cache[b] # None} = {}
    BY DEF Init
  <2>2. MapThenSumSet(LAMBDA b : Cardinality(DOMAIN cache[b].vectors), {}) = 0
    BY DEF MapThenSumSet, MapThenFoldSet
  <2> QED BY <2>1, <2>2 DEF VectorsKept
<1> QED BY <1>1, <1>2, <1>4, <1>5, MemoryRecallAssumption DEF TypesInv

\* A row is put with what a call or the healer knows.
LEMMA PutTyped ==
    ASSUME RecallInv, RowsTyped, NEW i, NEW row, row = None \/ row \in Row, Put(i, row)
    PROVE  RowsTyped'
<1>1. memory = [j \in Ids |-> memory[j]] /\ memory' = [memory EXCEPT ![i] = row]
  BY DEF RecallInv, CacheInv, Functions, Put
<1>2. \A j \in Ids : memory'[j] = memory[j] \/ memory'[j] = row
  BY <1>1
<1> QED BY <1>2 DEF RowsTyped

\* A call begins.
LEMMA BeginTyped ==
    ASSUME TypesInv, NEW w, NEW call \in Call, Begin(w, call)
    PROVE  TypesInv'
<1>1. writer' = [writer EXCEPT ![w] = call] /\ UNCHANGED <<setting, memory, embedder, heal, cache>>
  BY DEF Begin
<1>2. /\ writer' = [x \in Writers |-> writer'[x]]
      /\ \A x \in Writers : writer'[x] = writer[x] \/ writer'[x] = call
  BY <1>1 DEF TypesInv
<1>3. VectorsKept(cache)' = VectorsKept(cache)
  BY <1>1
<1> QED BY <1>1, <1>2, <1>3 DEF TypesInv, RowsTyped

\* Any step keeps types.
LEMMA StepTyped == RecallInv /\ TypesInv /\ [Next]_vars => TypesInv'
<1> SUFFICES ASSUME RecallInv, TypesInv, [Next]_vars PROVE TypesInv'
  OBVIOUS
<1>1. cache' = cache => VectorsKept(cache)' = VectorsKept(cache)
  OBVIOUS
<1>2. ASSUME NEW w, NEW i \in Ids,
             \/ \E b \in Buckets, t \in Texts : Save(w, i, b, t)
             \/ \E t \in Texts : Edit(w, i, t)
             \/ Annotate(w, i) \/ Delete(w, i)
      PROVE  TypesInv'
  <2>1. memory[i] # None => memory[i].bucket \in Buckets /\ memory[i].text \in Texts
                            /\ memory[i].vector \in Texts \cup {None}
    BY DEF TypesInv, RowsTyped, Row
  <2>2. \E call \in Call : Begin(w, call)
    BY <1>2, <2>1 DEF Save, Edit, Annotate, Delete, Call
  <2> QED BY <2>2, BeginTyped
<1>3. ASSUME NEW w \in Writers, EmbedContent(w) PROVE TypesInv'
  <2>1. /\ UNCHANGED <<setting, memory, cache>> /\ writer[w] \in Call
        /\ heal' = heal \/ heal' = [heal EXCEPT !.wake = TRUE]
        /\ \/ writer' = [writer EXCEPT ![w].pc = "write", ![w].vector = writer[w].text]
           \/ writer' = [writer EXCEPT ![w].pc = "write"]
        /\ embedder' = [embedder EXCEPT !.failing = FALSE] \/ embedder' = [embedder EXCEPT !.failing = TRUE]
    BY <1>3 DEF EmbedContent, Answers, Fails, TypesInv
  <2>2. /\ [writer[w] EXCEPT !.pc = "write", !.vector = writer[w].text] \in Call
        /\ [writer[w] EXCEPT !.pc = "write"] \in Call
    BY <2>1 DEF Call
  <2>3. PICK c \in Call : writer' = [writer EXCEPT ![w] = c]
    BY <2>1, <2>2
  <2>4. /\ writer' = [x \in Writers |-> writer'[x]]
        /\ \A x \in Writers : writer'[x] # None => writer'[x] \in Call
    BY <2>3 DEF TypesInv
  <2>5. heal' \in HealerState
    BY <2>1 DEF TypesInv, HealerState
  <2>6. embedder'.failing \in BOOLEAN /\ embedder' = [f \in {"up", "failing", "outages"} |-> embedder'[f]]
    BY <2>1 DEF TypesInv
  <2>7. RowsTyped'
    BY <2>1 DEF TypesInv, RowsTyped
  <2> QED BY <1>1, <2>1, <2>4, <2>5, <2>6, <2>7 DEF TypesInv
<1>4. ASSUME NEW w \in Writers, Write(w) PROVE TypesInv'
  <2>1. /\ UNCHANGED <<setting, embedder, heal, cache>>
        /\ writer' = [writer EXCEPT ![w] = None] /\ writer[w] \in Call
    BY <1>4 DEF Write, TypesInv
  <2>2. /\ writer' = [x \in Writers |-> writer'[x]]
        /\ \A x \in Writers : writer'[x] # None => writer'[x] \in Call
    BY <2>1 DEF TypesInv
  <2>3. RowsTyped'
    <3> DEFINE c == writer[w]
    <3>1. /\ c.id \in Ids
          /\ [bucket |-> c.bucket, text |-> c.text, vector |-> c.vector] \in Row
      BY <2>1 DEF Call, Row
    <3>2. memory[c.id] # None => [memory[c.id] EXCEPT !.text = c.text, !.vector = c.vector] \in Row
      <4>1. memory[c.id] # None => memory[c.id] \in Row
        BY <3>1 DEF TypesInv, RowsTyped
      <4>2. c.text \in Texts /\ c.vector \in Texts \cup {None}
        BY <2>1 DEF Call
      <4> HIDE DEF c
      <4> QED BY <4>1, <4>2 DEF Row
    <3>3. \/ \E row : Put(c.id, row) /\ (row = None \/ row \in Row)
          \/ UNCHANGED memory
      BY <1>4, <3>1, <3>2 DEF Write
    <3> HIDE DEF c
    <3>4. CASE UNCHANGED memory
      BY <3>4 DEF TypesInv, RowsTyped
    <3> QED BY <3>3, <3>4, PutTyped DEF TypesInv
  <2> QED BY <1>1, <2>1, <2>2, <2>3 DEF TypesInv
<1>5. ASSUME Outage \/ Recovery PROVE TypesInv'
  <2>1. /\ UNCHANGED <<setting, memory, writer, heal, cache>>
        /\ embedder'.failing \in BOOLEAN
        /\ embedder' = [f \in {"up", "failing", "outages"} |-> embedder'[f]]
    BY <1>5 DEF Outage, Recovery, rows, TypesInv
  <2> QED BY <1>1, <2>1 DEF TypesInv, RowsTyped
<1>6. ASSUME Healer PROVE TypesInv'
  <2>1. heal' \in HealerState
    <3>1. TimerFires \/ Woken => heal' \in HealerState
      BY DEF TimerFires, Woken, TypesInv, HealerState
    <3>2. \A failure, more : PassOver(failure, more) => heal' \in HealerState
      BY DEF PassOver, Resting, NextLook, TypesInv, HealerState, Listed
    <3>3. ASSUME Look PROVE heal' \in HealerState
      <4>1. CASE Missing = {}
        BY <3>2, <3>3, <4>1 DEF Look
      <4>2. CASE Missing # {}
        <5> PICK listed \in SUBSET Missing :
              heal' = [heal EXCEPT !.pc = "fill",
                                   !.todo = {[id |-> i, text |-> memory[i].text] : i \in listed}]
          BY <3>3, <4>2 DEF Look
        <5> DEFINE todo == {[id |-> i, text |-> memory[i].text] : i \in listed}
        <5>1. \A i \in listed : i \in Ids /\ memory[i].text \in Texts
          BY DEF Missing, TypesInv, RowsTyped, Row
        <5>2. todo \in Listed
          BY <5>1 DEF Listed
        <5>3. heal' = [heal EXCEPT !.pc = "fill", !.todo = todo]
          OBVIOUS
        <5> HIDE DEF todo
        <5> QED BY <5>2, <5>3 DEF TypesInv, HealerState
      <4> QED BY <4>1, <4>2
    <3>4. EmbedBatch => heal' \in HealerState
      <4> SUFFICES ASSUME EmbedBatch PROVE heal' \in HealerState
        OBVIOUS
      <4>1. heal \in HealerState
        BY DEF TypesInv
      <4>2. PICK batch \in SUBSET heal.todo :
              \/ heal' = [heal EXCEPT !.todo = @ \ batch, !.embedded = batch]
              \/ heal' = [heal EXCEPT !.todo = @ \ batch, !.failed = TRUE]
        BY DEF EmbedBatch
      <4>3. heal.todo \ batch \in Listed /\ batch \in Listed
        BY <4>1 DEF HealerState, Listed
      <4> QED BY <4>1, <4>2, <4>3 DEF HealerState
    <3>5. StoreVector => heal' \in HealerState
      BY ZenonT(30) DEF StoreVector, TypesInv, HealerState, Listed
    <3>6. PassEnds => heal' \in HealerState
      BY <3>2 DEF PassEnds
    <3> QED BY <1>6, <3>1, <3>3, <3>4, <3>5, <3>6 DEF Healer
  <2>2. UNCHANGED <<setting, writer, cache>>
    BY <1>6 DEF Healer, TimerFires, Woken, Look, EmbedBatch, StoreVector, PassEnds, rows
  <2>3. embedder'.failing \in BOOLEAN /\ embedder' = [f \in {"up", "failing", "outages"} |-> embedder'[f]]
    BY <1>6 DEF Healer, TimerFires, Woken, Look, EmbedBatch, StoreVector, PassEnds, Answers, Fails,
                TypesInv
  <2>4. RowsTyped'
    <3>1. CASE UNCHANGED memory
      BY <3>1 DEF TypesInv, RowsTyped
    <3>2. ASSUME StoreVector, memory' # memory PROVE RowsTyped'
      <4> PICK m \in heal.embedded :
            memory[m.id] # None /\ Put(m.id, [memory[m.id] EXCEPT !.vector = m.text])
        BY <3>2 DEF StoreVector
      <4>1. m \in [id : Ids, text : Texts]
        BY DEF TypesInv, HealerState, Listed
      <4>2. memory[m.id] \in Row
        BY <4>1 DEF TypesInv, RowsTyped
      <4>3. [memory[m.id] EXCEPT !.vector = m.text] \in Row
        BY <4>1, <4>2 DEF Row
      <4> QED BY <4>3, PutTyped DEF TypesInv
    <3>3. StoreVector \/ UNCHANGED memory
      BY <1>6 DEF Healer, TimerFires, Woken, Look, EmbedBatch, PassEnds, rows
    <3> QED BY <3>1, <3>2, <3>3
  <2> QED BY <1>1, <2>1, <2>2, <2>3, <2>4 DEF TypesInv
<1>7. ASSUME NEW c, (\E b \in Buckets : Ask(c, b)) \/ Leave(c) \/ Return(c) PROVE TypesInv'
  <2>1. UNCHANGED <<setting, memory, writer, embedder, heal, cache>>
    BY <1>7 DEF Ask, Leave, Return, rows
  <2> QED BY <1>1, <2>1 DEF TypesInv, RowsTyped
<1>8. ASSUME NEW n, Search(n) PROVE TypesInv'
  <2>1. UNCHANGED <<setting, memory, writer, heal>>
    BY <1>8 DEF Search, EmbedQuery, ReadVersion, Compare, Load, Keep, VectorSearchFails, Close, Done, rows
  <2>2. embedder'.failing \in BOOLEAN /\ embedder' = [f \in {"up", "failing", "outages"} |-> embedder'[f]]
    BY <1>8 DEF Search, EmbedQuery, ReadVersion, Compare, Load, Keep, VectorSearchFails, Close, Done,
                Answers, Fails, TypesInv
  <2>3. VectorsKept(cache)' <= MaxCached
    <3>1. CASE cache' = cache
      BY <1>1, <3>1 DEF TypesInv
    <3>2. ASSUME Keep(n) PROVE VectorsKept(cache)' <= MaxCached
      <4> PICK evicted : Fits(n, evicted) /\ cache' = WithEntry(n, evicted)
        BY <3>2 DEF Keep
      <4> QED BY DEF Fits
    <3>3. Keep(n) \/ cache' = cache
      BY <1>8 DEF Search, EmbedQuery, ReadVersion, Compare, Load, VectorSearchFails, Close, Done
    <3> QED BY <3>1, <3>2, <3>3
  <2> QED BY <2>1, <2>2, <2>3 DEF TypesInv, RowsTyped
<1>9. UNCHANGED vars => TypesInv'
  BY <1>1 DEF vars, rows, TypesInv, RowsTyped
<1>10. setting.ids \subseteq Ids
  BY MemoryRecallAssumption DEF TypesInv
<1> QED BY <1>2, <1>3, <1>4, <1>5, <1>6, <1>7, <1>8, <1>9, <1>10 DEF Next

\* Rows, versions and runs are of their types; an entry is no newer than its bucket's
\* version; the cache keeps no more than it may; a run knows who waits for it.
THEOREM TypeOKHolds == Spec => []TypeOK
<1>1. RecallInv /\ CallerInv /\ TypesInv => TypeOK
  <2> SUFFICES ASSUME RecallInv, CallerInv, TypesInv PROVE TypeOK
    OBVIOUS
  <2>1. running \in [Buckets -> 0..Len(flights)]
    <3>1. IsRuns(flights)
      BY DEF RecallInv, CacheInv, Functions
    <3>2. Len(flights) \in Nat /\ DOMAIN flights = 1..Len(flights)
      BY <3>1, LenProperties DEF IsRuns
    <3>3. \A b \in Buckets : running[b] \in 0..Len(flights)
      BY <3>2 DEF CallerInv, RunsTyped
    <3> QED BY <3>3 DEF CallerInv, RunsTyped
  <2>2. \A i \in Ids : memory[i] # None =>
          memory[i] \in [bucket : Buckets, text : Texts, vector : Texts \cup {None}]
    BY DEF TypesInv, RowsTyped, Row
  <2>3. \A n \in DOMAIN flights :
          flights[n].present = Cardinality({c \in Callers : Waiting(c) /\ caller[c].flight = n})
          \/ flights[n].pc = "done"
    BY DEF CallerInv, PresentExact, WaitingOn, At
  <2>4. /\ version \in [Buckets -> Nat]
        /\ \A b \in Buckets : cache[b] # None => cache[b].version <= version[b]
        /\ VectorsKept(cache) <= MaxCached
    BY DEF RecallInv, CacheInv, Functions, EntriesBehind, TypesInv
  <2> QED BY <2>1, <2>2, <2>3, <2>4 DEF TypeOK
<1> QED BY <1>1, InitRecall, StepRecall, InitCounts, StepCounts, InitTyped, StepTyped, PTL DEF Spec
=============================================================================
