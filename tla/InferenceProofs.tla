---------------------- MODULE InferenceProofs ----------------------
(***************************************************************************)
(* Proofs about InferenceMaintenance, for any number of maintainers and    *)
(* statements, any rules, and behaviours of any length; and, at the end,   *)
(* about DeleteRederive, for any explicit statements, rows and batches.    *)
(*                                                                         *)
(* The holder of the lease is the only one the fence lets write, and it    *)
(* never holds less than is stored (FenceInv), so the stored watermark only*)
(* grows.  What it stores is right because of three things it can rely on  *)
(* between looking and writing: the log explains the rows (RowsExplained); *)
(* the explicit statements it remembers are those of an event at or after  *)
(* the watermark it is about to store (Knows); and nobody else changes     *)
(* inferred rows, so the diff it computed would still make the store what  *)
(* it wants (Holds).  Writers break the last one where they delete rows the*)
(* rules derive, and a refresh by hand does: the theorems that rest on it  *)
(* say so.  A watermark in the memory of a process needs one thing more,   *)
(* that no other process maintains the store (AloneInv).                   *)
(*                                                                         *)
(* Deleting and deriving again is right for two reasons.  Overdeleting     *)
(* spares only what is credited, from the ground up, to what is spared, so *)
(* what is left follows from the explicit statements as they now stand     *)
(* (Sound).  And a rule's conclusion is about the subject of one of its    *)
(* premises, so whatever can still be derived is found by firing what      *)
(* mentions a subject of what was overdeleted (Done).  Closures are least  *)
(* closed sets; that the loop which computes one ends there is shown by    *)
(* the size of what it has left (LoopsLeast).                              *)
(***************************************************************************)
EXTENDS InferenceMaintenance, DeleteRederive, SequenceTheorems, FiniteSetTheorems,
        WellFoundedInduction, NaturalsInduction, TLAPS

-----------------------------------------------------------------------------
(* Lists and functions *)

\* A set of row changes is logged as one event each, by the maintainer.
LEMMA Logged ==
    ASSUME NEW c, IsFiniteSet(DOMAIN c), DOMAIN c \subseteq Statements,
           \A s \in DOMAIN c : c[s] \in RowStates
    PROVE  LET log == LogOf(c) IN
           /\ log \in Seq(Event)
           /\ \A i \in 1..Len(log) : log[i].id \in DOMAIN c /\ log[i].after = c[log[i].id]
                                     /\ log[i].by = "maintainer"
           /\ \A i, j \in 1..Len(log) : log[i].id = log[j].id => i = j
           /\ \A s \in DOMAIN c : \E i \in 1..Len(log) : log[i].id = s
<1> DEFINE D == DOMAIN c
           n == Cardinality(D)
           g == SetToSeq(D)
<1>1. n \in Nat /\ ExistsBijection(1..n, D)
  BY FS_CardinalityType
<1>2. \E f \in [1..n -> D] : IsInjective(f)
  <2>1. PICK f : f \in Bijection(1..n, D)
    BY <1>1 DEF ExistsBijection
  <2>2. f \in [1..n -> D] /\ IsInjective(f)
    BY <2>1 DEF Bijection, Injection
  <2> QED BY <2>2
<1>3. g \in [1..n -> D] /\ IsInjective(g)
  BY <1>2 DEF SetToSeq
<1>4. \A s \in D : \E i \in 1..n : g[i] = s
  <2>1. IsFiniteSet(1..n) /\ Cardinality(1..n) = n
    BY <1>1, FS_Interval
  <2>2. g \in Injection(1..n, D)
    BY <1>3 DEF Injection
  <2>3. g \in Surjection(1..n, D)
    BY <2>1, <2>2, FS_Injection
  <2> QED BY <2>3 DEF Surjection
<1>5. LogOf(c) = [i \in 1..n |-> [id |-> g[i], after |-> c[g[i]], by |-> "maintainer"]]
  BY DEF LogOf
<1> HIDE DEF n, g
<1>6. \A i \in 1..n : g[i] \in D /\ g[i] \in Statements /\ c[g[i]] \in RowStates
  BY <1>3
<1>7. LogOf(c) \in [1..n -> Event]
  BY <1>5, <1>6 DEF Event, RowStates
<1>8. LogOf(c) \in Seq(Event) /\ Len(LogOf(c)) = n
  BY <1>1, <1>7
<1>9. \A i, j \in 1..n : g[i] = g[j] => i = j
  BY <1>3 DEF IsInjective
<1>10. \A i \in 1..n : LogOf(c)[i].id = g[i] /\ LogOf(c)[i].after = c[g[i]]
                        /\ LogOf(c)[i].by = "maintainer"
  BY <1>5
<1> DEFINE log == LogOf(c)
<1>11. log \in Seq(Event) /\ Len(log) = n
  BY <1>8
<1>12. \A i \in 1..n : log[i].id = g[i] /\ log[i].after = c[g[i]] /\ log[i].by = "maintainer"
  BY <1>10
<1> HIDE DEF log, g
<1>13. \A i \in 1..n : log[i].id \in D /\ log[i].after = c[log[i].id] /\ log[i].by = "maintainer"
  BY <1>6, <1>12
<1>14. \A s \in D : \E i \in 1..n : log[i].id = s
  BY <1>4, <1>12
<1>15. \A i, j \in 1..n : log[i].id = log[j].id => i = j
  BY <1>9, <1>12
<1> QED BY <1>11, <1>13, <1>14, <1>15 DEF log

\* What one log followed by another holds.
LEMMA Followed ==
    ASSUME NEW log \in Seq(Event), NEW more \in Seq(Event)
    PROVE  /\ log \o more \in Seq(Event)
           /\ Len(log) \in Nat /\ Len(more) \in Nat /\ Len(log \o more) = Len(log) + Len(more)
           /\ \A i \in 1..Len(log) : (log \o more)[i] = log[i]
           /\ \A i \in 1..Len(more) : (log \o more)[Len(log) + i] = more[i]
<1>1. Len(log) \in Nat /\ Len(more) \in Nat
  BY LenProperties
<1>2. log \o more \in Seq(Event) /\ Len(log \o more) = Len(log) + Len(more)
  BY ConcatProperties
<1>3. \A i \in 1 .. Len(log) + Len(more) :
        (log \o more)[i] = IF i <= Len(log) THEN log[i] ELSE more[i - Len(log)]
  BY ConcatProperties
<1>4. \A i \in 1..Len(log) : (log \o more)[i] = log[i]
  BY <1>1, <1>3
<1>5. ASSUME NEW i \in 1..Len(more) PROVE (log \o more)[Len(log) + i] = more[i]
  <2>1. Len(log) + i \in 1 .. Len(log) + Len(more) /\ ~(Len(log) + i <= Len(log))
        /\ Len(log) + i - Len(log) = i
    BY <1>1
  <2> QED BY <1>3, <2>1
<1> QED BY <1>1, <1>2, <1>4, <1>5

-----------------------------------------------------------------------------
(* Types *)

\* What some of the rows become.
IsChange(c) == DOMAIN c \subseteq Statements /\ \A s \in DOMAIN c : c[s] \in RowStates

\* Logging a change of rows keeps rows and log well typed.
LEMMA ChangeTyped ==
    ASSUME TypeOK, NEW c, IsChange(c)
    PROVE  /\ Over(c, rows) \in [Statements -> RowStates]
           /\ events \o LogOf(c) \in Seq(Event)
           /\ Len(events \o LogOf(c)) \in Nat
           /\ Len(events) \in Nat /\ Len(events) <= Len(events \o LogOf(c))
<1>1. IsFiniteSet(DOMAIN c)
  <2>1. DOMAIN c \in SUBSET Statements
    BY DEF IsChange
  <2> QED BY <2>1, InferenceMaintenanceAssumption, FS_Subset
<1>2. LogOf(c) \in Seq(Event)
  BY <1>1, Logged DEF IsChange
<1>3. events \in Seq(Event)
  BY DEF TypeOK
<1>4. Over(c, rows) \in [Statements -> RowStates]
  BY DEF TypeOK, IsChange, Over
<1>5. /\ events \o LogOf(c) \in Seq(Event)
      /\ Len(events) \in Nat /\ Len(LogOf(c)) \in Nat
      /\ Len(events \o LogOf(c)) = Len(events) + Len(LogOf(c))
  BY <1>2, <1>3, Followed
<1> QED BY <1>4, <1>5

\* Memory stays of its type as time and the log go on.
LEMMA MemoryGrows ==
    ASSUME TypeOK, now' \in Nat, now <= now', Len(events') \in Nat, Len(events) <= Len(events')
    PROVE  \A r \in Memory : r \in Memory'
<1>1. Len(events) \in Nat /\ now \in Nat
  BY LenProperties DEF TypeOK
<1>2. 0..now \subseteq 0..now' /\ 0..ChangesHead \subseteq 0..ChangesHead'
  BY <1>1 DEF ChangesHead
<1> QED BY <1>2 DEF Memory

\* One maintainer's memory changes.
LEMMA SetTyped ==
    ASSUME TypeOK, NEW m, NEW r, Set(m, r), r \in Memory', \A q \in Memory : q \in Memory'
    PROVE  mt' \in [Maintainers -> Memory']
<1>1. mt \in [Maintainers -> Memory']
  BY DEF TypeOK
<1>2. mt' = [mt EXCEPT ![m] = r]
  BY DEF Set
<1> HIDE DEF Memory
<1> QED BY <1>1, <1>2

LeaseRow == [holder : Maintainers \cup {Nobody, Dead}, until : Nat, applied : 0..ChangesHead]

\* A step that changes one maintainer's memory, and at most the lease besides.
LEMMA MemoryStep ==
    ASSUME TypeOK, NEW m, NEW r \in Memory, Set(m, r), lease' \in LeaseRow, stale' \in BOOLEAN,
           UNCHANGED <<setting, rows, events, pruned, now>>
    PROVE  TypeOK'
<1>1. Memory' = Memory /\ LeaseRow' = LeaseRow
  BY DEF Memory, LeaseRow, ChangesHead
<1>2. mt' \in [Maintainers -> Memory']
  BY <1>1, SetTyped
<1> QED BY <1>1, <1>2 DEF TypeOK, LeaseRow, ChangesHead

\* What one reads of a maintainer's memory.
LEMMA MemoryFields ==
    ASSUME TypeOK, NEW m \in Maintainers
    PROVE  /\ mt[m] \in Memory
           /\ mt[m].cursor \in 0..ChangesHead /\ mt[m].flushed \in 0..ChangesHead
           /\ mt[m].applied \in 0..ChangesHead /\ mt[m].head \in 0..ChangesHead
           /\ mt[m].explicit \subseteq Statements /\ mt[m].persisted \subseteq Statements
           /\ mt[m].upserts \subseteq Statements /\ mt[m].deletes \subseteq Statements
           /\ ChangesHead \in Nat /\ ChangesHead \in 0..ChangesHead /\ pruned \in 0..ChangesHead
           /\ now \in Nat
<1>1. ChangesHead \in Nat
  BY LenProperties DEF TypeOK, ChangesHead
<1>2. mt[m] \in Memory
  BY DEF TypeOK
<1> QED BY <1>1, <1>2, SMTT(30) DEF TypeOK, Memory

\* Looking again and asking for the lease end the step and forget the state, not the watermark.
LEMMA StartsOver ==
    ASSUME TypeOK, NEW m \in Maintainers
    PROVE  \A x \in {LookAgain(mt[m]), AskForLease(mt[m]), AskForLease(NoDiff(mt[m])),
                     LookAgain(NoDiff(mt[m])), LookAgain([mt[m] EXCEPT !.holding = FALSE]),
                     AskForLease([mt[m] EXCEPT !.holding = FALSE])} :
              x.pc = "idle" /\ x.state = "nil" /\ x.applied = mt[m].applied
<1> DEFINE None == NoDiff(mt[m])
           Gone == [mt[m] EXCEPT !.holding = FALSE]
<1>1. mt[m] \in Memory
  BY DEF TypeOK
<1>2. None \in Memory /\ None.applied = mt[m].applied
  BY <1>1 DEF NoDiff, Memory
<1>3. Gone \in Memory /\ Gone.applied = mt[m].applied
  BY <1>1 DEF Memory
<1>4. ASSUME NEW r \in Memory
      PROVE  /\ LookAgain(r).pc = "idle" /\ LookAgain(r).state = "nil"
             /\ LookAgain(r).applied = r.applied
             /\ AskForLease(r).pc = "idle" /\ AskForLease(r).state = "nil"
             /\ AskForLease(r).applied = r.applied
  BY <1>4 DEF LookAgain, AskForLease, Memory
<1> HIDE DEF None, Gone
<1>5. \A x \in {LookAgain(mt[m]), AskForLease(mt[m]), AskForLease(None), LookAgain(None),
                LookAgain(Gone), AskForLease(Gone)} :
         x.pc = "idle" /\ x.state = "nil" /\ x.applied = mt[m].applied
  BY <1>1, <1>2, <1>3, <1>4
<1> QED BY <1>5 DEF None, Gone

\* What follows from statements are statements.
LEMMA Follows ==
    ASSUME NEW E, E \subseteq Statements
    PROVE  /\ Derived(E) \subseteq Statements \ E
           /\ E \cap Vocabulary = {} => Derived(E) = {}
<1>1. E \in SUBSET Statements
  OBVIOUS
<1> QED BY <1>1, InferenceMaintenanceAssumption

\* A memory well typed now stays so as the log grows.
LEMMA InLater ==
    ASSUME NEW h \in Nat, NEW a \in 0..h, NEW b \in 0..h
    PROVE  Later(a, b) \in 0..h /\ Later(a, b) >= a /\ Later(a, b) >= b /\ Later(a, b) \in {a, b}
BY DEF Later

\* What is replayed are statements.
LEMMA ReplayTyped ==
    ASSUME TypeOK, NEW E, E \subseteq Statements, NEW c \in 0..ChangesHead
    PROVE  Replay(E, c, ChangesHead) \subseteq Statements
<1> DEFINE Touched == {events[i].id : i \in (c + 1)..ChangesHead}
<1>1. Replay(E, c, ChangesHead) \subseteq E \cup Touched
  BY DEF Replay
<1>2. Touched \subseteq Statements
  <2>1. events \in Seq(Event) /\ Len(events) \in Nat
    BY LenProperties DEF TypeOK
  <2>2. \A i \in 1..Len(events) : events[i] \in Event
    BY <2>1
  <2> QED BY <2>1, <2>2 DEF Event, ChangesHead
<1> QED BY <1>1, <1>2

\* The lease, the stored state and the maintainers start with their types.
LEMMA TypeInit == Init => TypeOK
<1> SUFFICES ASSUME Init PROVE TypeOK
  OBVIOUS
<1>1. ChangesHead = 0 /\ events \in Seq(Event)
  BY DEF Init, ChangesHead
<1>2. 0 \in 0..ChangesHead /\ 0 \in 0..now
  BY <1>1 DEF Init
<1>3. Fresh \in Memory
  BY <1>2 DEF Fresh, Memory
<1> QED BY <1>1, <1>2, <1>3 DEF Init, TypeOK, RowStates

\* The steps of a maintainer that change no row.
LEMMA TypeQuiet ==
    ASSUME TypeOK, NEW m \in Maintainers,
           \/ Begin(m) \/ Observe(m) \/ HoldLease(m) \/ ReleaseLease(m)
           \/ BaselineHead(m) \/ BaselineVocabulary(m) \/ BaselineLeftovers(m)
           \/ BaselineExplicit(m) \/ BaselineInferred(m)
           \/ FlushWatermark(m) \/ SkipFlush(m) \/ StepFails(m)
           \/ RefreshRead(m) \/ RefreshFails(m) \/ Close(m) \/ Crash(m)
    PROVE  TypeOK'
<1> DEFINE r == mt[m]
<1>1. /\ r \in Memory /\ r.head \in 0..ChangesHead /\ r.cursor \in 0..ChangesHead
      /\ r.explicit \subseteq Statements
      /\ ChangesHead \in Nat /\ ChangesHead \in 0..ChangesHead
      /\ now \in Nat /\ now \in 0..now /\ r.applied \in 0..ChangesHead
      /\ lease \in LeaseRow /\ lease.applied \in 0..ChangesHead
  BY MemoryFields DEF TypeOK, LeaseRow
<1>2. /\ \A l \in Nat : [lease EXCEPT !.holder = m, !.until = l] \in LeaseRow
      /\ [lease EXCEPT !.holder = Nobody, !.until = 0] \in LeaseRow
      /\ [lease EXCEPT !.holder = Dead] \in LeaseRow
      /\ [lease EXCEPT !.applied = r.cursor] \in LeaseRow
  BY <1>1 DEF LeaseRow
<1>3. UNCHANGED <<setting, rows, events, pruned, now>> /\ stale' \in BOOLEAN
  BY DEF Begin, Observe, HoldLease, ReleaseLease, BaselineHead, BaselineVocabulary, BaselineLeftovers,
         BaselineExplicit, BaselineInferred, FlushWatermark, SkipFlush, StepFails, RefreshRead,
         RefreshFails, Close, Crash, TypeOK
<1>4. lease' \in LeaseRow
  <2>1. now + LeaseTTL \in Nat
    BY <1>1, InferenceMaintenanceAssumption
  <2> QED BY <1>1, <1>2, <2>1 DEF Begin, Observe, HoldLease, ReleaseLease, BaselineHead,
         BaselineVocabulary, BaselineLeftovers, BaselineExplicit, BaselineInferred, FlushWatermark,
         SkipFlush, StepFails, RefreshRead, RefreshFails, Close, Crash
<1>5. \A stage \in {"idle", "observe", "lease", "head", "vocabulary", "leftovers", "explicit", "inferred",
                 "persistLeftovers", "persistBaseline", "read", "persist", "flush", "release",
                 "releaseThenRead", "refreshRead", "refreshWrite"} :
        [r EXCEPT !.pc = stage] \in Memory
  BY <1>1 DEF Memory
<1>6. LookAgain(r) \in Memory /\ AskForLease(r) \in Memory /\ NoDiff(r) \in Memory
      /\ [r EXCEPT !.holding = FALSE] \in Memory
  BY <1>1 DEF Memory, LookAgain, AskForLease, NoDiff
<1>7. /\ AskForLease(NoDiff(r)) \in Memory /\ LookAgain(NoDiff(r)) \in Memory
      /\ AskForLease([r EXCEPT !.holding = FALSE]) \in Memory
      /\ LookAgain([r EXCEPT !.holding = FALSE]) \in Memory
  BY <1>1 DEF Memory, LookAgain, AskForLease, NoDiff
<1>8. /\ \A stage \in {"persistLeftovers", "persistBaseline"}, S \in SUBSET Statements,
            T \in SUBSET Statements : [r EXCEPT !.pc = stage, !.upserts = S, !.deletes = T] \in Memory
      /\ \A stage \in {"inferred", "refreshWrite", "idle"}, S \in SUBSET Statements :
            [r EXCEPT !.pc = stage, !.explicit = S] \in Memory
  <2>1. ASSUME NEW stage \in {"persistLeftovers", "persistBaseline"}, NEW S \in SUBSET Statements,
               NEW T \in SUBSET Statements
        PROVE  [r EXCEPT !.pc = stage, !.upserts = S, !.deletes = T] \in Memory
    BY <1>1 DEF Memory
  <2>2. ASSUME NEW stage \in {"inferred", "refreshWrite", "idle"}, NEW S \in SUBSET Statements
        PROVE  [r EXCEPT !.pc = stage, !.explicit = S] \in Memory
    BY <1>1 DEF Memory
  <2> QED BY <2>1, <2>2
<1>9. StatementsIn("inferred") \in SUBSET Statements /\ StatementsIn("explicit") \in SUBSET Statements
      /\ Derived(r.explicit) \subseteq Statements
  BY <1>1, Follows DEF StatementsIn
<1>10. \E q \in Memory : Set(m, q)
  <2>1. Begin(m) => \E q \in Memory : Set(m, q)
    <3>1. [r EXCEPT !.pc = "observe", !.head = ChangesHead] \in Memory
      BY <1>1 DEF Memory
    <3> HIDE DEF Memory
    <3> QED BY <1>5, <3>1 DEF Begin
  <2>2. Observe(m) => \E q \in Memory : Set(m, q)
    <3>1. Later(r.applied, r.head) \in 0..ChangesHead
      BY <1>1, InLater
    <3>2. [r EXCEPT !.pc = "lease", !.wantLease = TRUE] \in Memory
      BY <1>1 DEF Memory
    <3>3. [r EXCEPT !.pc = "read", !.state = "dormant", !.cursor = r.head,
                    !.applied = Later(r.applied, r.head)] \in Memory
      BY <1>1, <3>1 DEF Memory
    <3> QED BY <3>2, <3>3 DEF Observe
  <2>3. HoldLease(m) => \E q \in Memory : Set(m, q)
    <3>1. AfterLease(m) \in {"read", "head"}
      BY DEF AfterLease
    <3>2. [r EXCEPT !.pc = AfterLease(m), !.holding = TRUE, !.renewed = now] \in Memory
      BY <1>1, <3>1 DEF Memory
    <3> QED BY <1>5, <1>7, <3>1, <3>2 DEF HoldLease
  <2>4. ReleaseLease(m) => \E q \in Memory : Set(m, q)
    <3>1. \A stage \in {"idle", "read"} : [r EXCEPT !.holding = FALSE, !.pc = stage] \in Memory
      BY <1>1 DEF Memory
    <3> QED BY <3>1 DEF ReleaseLease
  <2>5. BaselineHead(m) => \E q \in Memory : Set(m, q)
    <3>1. [r EXCEPT !.pc = "vocabulary", !.head = ChangesHead] \in Memory
      BY <1>1 DEF Memory
    <3> QED BY <3>1 DEF BaselineHead, BaselineFrom
  <2>6. BaselineVocabulary(m) => \E q \in Memory : Set(m, q)
    BY <1>5 DEF BaselineVocabulary
  <2>7. BaselineLeftovers(m) => \E q \in Memory : Set(m, q)
    BY <1>8, <1>9 DEF BaselineLeftovers
  <2>8. BaselineExplicit(m) \/ RefreshRead(m) \/ RefreshFails(m) => \E q \in Memory : Set(m, q)
    BY <1>8, <1>9 DEF BaselineExplicit, RefreshRead, RefreshFails
  <2>9. BaselineInferred(m) => \E q \in Memory : Set(m, q)
    BY <1>8, <1>9 DEF BaselineInferred
  <2>10. FlushWatermark(m) \/ SkipFlush(m) => \E q \in Memory : Set(m, q)
    <3>1. [r EXCEPT !.pc = "idle", !.flushed = r.cursor] \in Memory
      BY <1>1 DEF Memory
    <3> QED BY <1>5, <1>7, <3>1 DEF FlushWatermark, SkipFlush
  <2>11. StepFails(m) => \E q \in Memory : Set(m, q)
    BY <1>5, <1>7 DEF StepFails
  <2>12. Close(m) \/ Crash(m) => \E q \in Memory : Set(m, q)
    <3>1. Fresh \in Memory
      BY <1>1 DEF Fresh, Memory
    <3> QED BY <3>1 DEF Close, Crash, Set
  <2> QED BY <2>1, <2>2, <2>3, <2>4, <2>5, <2>6, <2>7, <2>8, <2>9, <2>10, <2>11, <2>12
<1> QED BY <1>3, <1>4, <1>10, MemoryStep

\* Reading a batch: the next diff, or events passed over.
LEMMA TypeRead ==
    ASSUME TypeOK, NEW m \in Maintainers, ReadEvents(m)
    PROVE  TypeOK'
<1> DEFINE r == mt[m]
           H == ChangesHead
<1>1. /\ r \in Memory /\ r.applied \in 0..H /\ r.explicit \subseteq Statements
      /\ r.persisted \subseteq Statements
      /\ r.cursor \in 0..H /\ pruned \in 0..H /\ H \in Nat /\ H \in 0..H
  BY MemoryFields
<1>2. Later(r.applied, H) \in 0..H /\ ReadFrom(m) \in 0..H
  BY <1>1, InLater DEF ReadFrom
<1> DEFINE E == Replay(r.explicit, ReadFrom(m), H)
           D == Derived(E)
<1>3. E \subseteq Statements
  BY <1>1, <1>2, ReplayTyped
<1>4. D \subseteq Statements
  BY <1>3, Follows
<1>5. /\ LookAgain(r) \in Memory /\ AskForLease(r) \in Memory
      /\ [r EXCEPT !.pc = "flush"] \in Memory /\ [r EXCEPT !.pc = "idle"] \in Memory
  BY <1>1 DEF Memory, LookAgain, AskForLease
<1> HIDE DEF E
<1>6. [r EXCEPT !.pc = "idle", !.cursor = H, !.applied = Later(r.applied, H)] \in Memory
  BY <1>1, <1>2 DEF Memory
<1>7. [r EXCEPT !.pc = "idle", !.explicit = E, !.cursor = H, !.applied = Later(r.applied, H)] \in Memory
  BY <1>1, <1>2, <1>3 DEF Memory
<1>8. [r EXCEPT !.pc = "persist", !.explicit = E, !.head = H,
                !.upserts = D \ r.persisted, !.deletes = r.persisted \ D] \in Memory
  BY <1>1, <1>3, <1>4 DEF Memory
<1>9. \E q \in Memory : Set(m, q)
  <2> HIDE DEF Memory
  <2> QED BY <1>5, <1>6, <1>7, <1>8 DEF ReadEvents, E
<1>10. UNCHANGED <<setting, rows, events, pruned, now>> /\ lease' \in LeaseRow /\ stale' \in BOOLEAN
  BY DEF ReadEvents, TypeOK, LeaseRow
<1> QED BY <1>9, <1>10, MemoryStep

\* What a maintainer writes.
LEMMA ChangesAre ==
    ASSUME TypeOK, NEW m \in Maintainers
    PROVE  /\ IsChange(Changes(m))
           /\ \A s \in Statements :
                /\ s \in DOMAIN Changes(m) <=> \/ s \in mt[m].deletes /\ rows[s] = "inferred"
                                               \/ s \in mt[m].upserts /\ rows[s] = "absent"
                /\ s \in DOMAIN Changes(m) =>
                     Changes(m)[s] = IF rows[s] = "inferred" THEN "absent" ELSE "inferred"
<1>1. mt[m].upserts \subseteq Statements /\ mt[m].deletes \subseteq Statements
  BY MemoryFields
<1>2. Changes(m) = [s \in {d \in mt[m].deletes : rows[d] = "inferred"}
                            \cup {u \in mt[m].upserts : rows[u] = "absent"} |->
                       IF s \in {d \in mt[m].deletes : rows[d] = "inferred"}
                       THEN "absent" ELSE "inferred"]
  BY DEF Changes, Deletable, Upsertable
<1> QED BY <1>1, <1>2 DEF IsChange, RowStates

\* Storing a diff keeps types.
LEMMA TypePersist ==
    ASSUME TypeOK, NEW m \in Maintainers, Persist(m)
    PROVE  TypeOK'
<1> DEFINE r == mt[m]
           h == Watermark(m)
<1>1. /\ r \in Memory /\ r.applied \in 0..ChangesHead /\ r.explicit \subseteq Statements
      /\ h \in 0..ChangesHead /\ ChangesHead \in Nat /\ now \in Nat /\ h = r.head
  BY MemoryFields DEF Watermark
<1>2. r.pc \in {"persist", "persistBaseline", "persistLeftovers"}
  BY DEF Persist
<1>3. Later(r.applied, h) \in 0..ChangesHead
  BY <1>1, InLater
<1>4. Derived(r.explicit) \subseteq Statements
  BY <1>1, Follows
<1>5. NoDiff([Committed(r) EXCEPT !.cursor = h, !.applied = Later(r.applied, h)]) \in Memory
      /\ Committed(r).applied = r.applied
  <2>1. Committed(r) \in Memory /\ Committed(r).applied = r.applied
    <3>1. CASE r.pc = "persist"
      BY <1>1, <1>4, <3>1 DEF Committed, Memory
    <3>2. CASE r.pc = "persistBaseline"
      BY <1>1, <1>4, <3>2 DEF Committed, Memory
    <3>3. CASE r.pc = "persistLeftovers"
      BY <1>1, <3>3 DEF Committed, Memory
    <3> QED BY <1>2, <3>1, <3>2, <3>3
  <2> DEFINE c == Committed(r)
  <2>2. c \in Memory /\ c.applied = r.applied
    BY <2>1
  <2> HIDE DEF c
  <2>3. NoDiff([c EXCEPT !.cursor = h, !.applied = Later(r.applied, h)]) \in Memory
    BY <1>1, <1>3, <2>2 DEF Memory, NoDiff
  <2> QED BY <2>2, <2>3 DEF c
<1>6. NoDiff([Refused(r) EXCEPT !.holding = FALSE]) \in Memory
  BY <1>1 DEF Refused, NoDiff, LookAgain, AskForLease, Memory
<1>7. CASE FencePassed(m)
  <2>1. IsChange(Changes(m))
    BY ChangesAre
  <2>2. /\ rows' = Over(Changes(m), rows) /\ events' = events \o LogOf(Changes(m))
        /\ lease' = [lease EXCEPT !.applied = h]
        /\ Set(m, NoDiff([Committed(r) EXCEPT !.cursor = h, !.applied = Later(Committed(r).applied, h)]))
        /\ UNCHANGED <<setting, pruned, now, stale>>
    BY <1>7 DEF Persist
  <2>3. /\ rows' \in [Statements -> RowStates] /\ events' \in Seq(Event)
        /\ Len(events') \in Nat /\ Len(events) \in Nat /\ Len(events) <= Len(events')
    BY <2>1, <2>2, ChangeTyped
  <2>4. now' \in Nat /\ now <= now'
    BY <1>1, <2>2
  <2>5. \A q \in Memory : q \in Memory'
    BY <2>3, <2>4, MemoryGrows
  <2>6. mt' \in [Maintainers -> Memory']
    BY <1>5, <2>2, <2>5, SetTyped
  <2>7. 0..ChangesHead \subseteq 0..ChangesHead'
    BY <2>3 DEF ChangesHead
  <2>8. lease' \in LeaseRow' /\ pruned' \in 0..ChangesHead'
    BY <1>1, <2>2, <2>7 DEF TypeOK, LeaseRow
  <2> QED BY <2>2, <2>3, <2>4, <2>6, <2>8 DEF TypeOK, LeaseRow
<1>8. CASE ~FencePassed(m)
  <2>1. /\ UNCHANGED <<setting, rows, events, pruned, now, lease, stale>>
        /\ Set(m, NoDiff([Refused(r) EXCEPT !.holding = FALSE]))
    BY <1>8 DEF Persist
  <2>2. lease' \in LeaseRow /\ stale' \in BOOLEAN
    BY <2>1 DEF TypeOK, LeaseRow
  <2> QED BY <1>6, <2>1, <2>2, MemoryStep
<1> QED BY <1>7, <1>8

\* What a refresh by hand clears, and what it writes.
Cleared == [s \in StatementsIn("inferred") |-> "absent"]
Written(m) == [s \in {d \in Derived(mt[m].explicit) : rows[d] # "inferred"} |-> "inferred"]

\* What a refresh by hand clears and writes are changes of rows.
LEMMA RefreshesAre ==
    ASSUME TypeOK, NEW m \in Maintainers
    PROVE  IsChange(Cleared) /\ IsChange(Written(m))
<1>1. Derived(mt[m].explicit) \subseteq Statements
  BY MemoryFields, Follows
<1> QED BY <1>1 DEF IsChange, Cleared, Written, StatementsIn, RowStates

\* A refresh by hand keeps types.
LEMMA TypeRefresh ==
    ASSUME TypeOK, NEW m \in Maintainers, RefreshClear(m) \/ RefreshWrite(m)
    PROVE  TypeOK'
<1> DEFINE r == mt[m]
<1>1. PICK c :
        /\ IsChange(c) /\ rows' = Over(c, rows) /\ events' = events \o LogOf(c)
        /\ \E q \in Memory : Set(m, q)
  <2>1. r \in Memory
    BY MemoryFields
  <2>2. [LookAgain(r) EXCEPT !.pc = "refreshRead"] \in Memory
        /\ [r EXCEPT !.pc = "idle", !.explicit = {}] \in Memory
    BY <2>1 DEF LookAgain, Memory
  <2>3. CASE RefreshClear(m)
    <3>1. rows' = Over(Cleared, rows) /\ events' = events \o LogOf(Cleared)
          /\ Set(m, [LookAgain(r) EXCEPT !.pc = "refreshRead"])
      BY <2>3 DEF RefreshClear, Cleared
    <3>2. IsChange(Cleared)
      BY RefreshesAre
    <3> QED BY <2>2, <3>1, <3>2
  <2>4. CASE RefreshWrite(m)
    <3>1. rows' = Over(Written(m), rows) /\ events' = events \o LogOf(Written(m))
          /\ Set(m, [r EXCEPT !.pc = "idle", !.explicit = {}])
      BY <2>4 DEF RefreshWrite, Written
    <3>2. IsChange(Written(m))
      BY RefreshesAre
    <3> QED BY <2>2, <3>1, <3>2
  <2> QED BY <2>3, <2>4
<1>2. /\ rows' \in [Statements -> RowStates] /\ events' \in Seq(Event)
      /\ Len(events') \in Nat /\ Len(events) \in Nat /\ Len(events) <= Len(events')
  BY <1>1, ChangeTyped
<1>3. UNCHANGED <<setting, pruned, lease, now, stale>> /\ now \in Nat /\ now <= now
  BY DEF RefreshClear, RefreshWrite, TypeOK
<1>4. \A p \in Memory : p \in Memory'
  BY <1>2, <1>3, MemoryGrows
<1>5. mt' \in [Maintainers -> Memory']
  BY <1>1, <1>4, SetTyped
<1>6. 0..ChangesHead \subseteq 0..ChangesHead'
  BY <1>2 DEF ChangesHead
<1> QED BY <1>2, <1>3, <1>5, <1>6 DEF TypeOK

\* Every step of writers and maintainers keeps the types.
LEMMA TypeStep == TypeOK /\ [Next]_vars => TypeOK'
<1> SUFFICES ASSUME TypeOK, [Next]_vars PROVE TypeOK'
  OBVIOUS
<1>1. Len(events) \in Nat /\ events \in Seq(Event) /\ now \in Nat
  BY LenProperties DEF TypeOK
<1>2. ASSUME NEW s \in Statements, UpsertTriple(s) \/ DeleteTriple(s) PROVE TypeOK'
  <2>1. PICK state \in {"explicit", "absent"} : WriteRow(s, state)
    BY <1>2 DEF UpsertTriple, DeleteTriple
  <2> DEFINE e == [id |-> s, after |-> state, by |-> "writer"]
  <2>2. e \in Event /\ events' = Append(events, e)
    BY <2>1 DEF Event, RowStates, WriteRow
  <2>3. /\ events' \in Seq(Event) /\ Len(events') = Len(events) + 1
    BY <1>1, <2>2
  <2>4. UNCHANGED <<setting, pruned, lease, now, mt, stale>>
    BY <2>1 DEF WriteRow
  <2>5. rows' \in [Statements -> RowStates]
    BY <2>1 DEF WriteRow, TypeOK, RowStates
  <2>6. \A q \in Memory : q \in Memory'
    BY <1>1, <2>3, <2>4, MemoryGrows
  <2>7. 0..ChangesHead \subseteq 0..ChangesHead'
    BY <1>1, <2>3 DEF ChangesHead
  <2>8. mt' \in [Maintainers -> Memory']
    <3> HIDE DEF Memory
    <3> QED BY <2>4, <2>6 DEF TypeOK
  <2> QED BY <2>3, <2>4, <2>5, <2>7, <2>8 DEF TypeOK
<1>3. ASSUME Prune PROVE TypeOK'
  BY <1>1, <1>3, SMTT(30) DEF Prune, TypeOK, ChangesHead, Memory
<1>4. ASSUME Tick PROVE TypeOK'
  <2>1. /\ now' = now + 1 /\ UNCHANGED <<setting, rows, events, pruned, lease, mt, stale>>
    BY <1>4 DEF Tick
  <2>2. \A q \in Memory : q \in Memory'
    BY <1>1, <2>1, MemoryGrows
  <2>3. mt' \in [Maintainers -> Memory']
    <3> HIDE DEF Memory
    <3> QED BY <2>1, <2>2 DEF TypeOK
  <2> QED BY <1>1, <2>1, <2>3 DEF TypeOK, ChangesHead
<1>5. UNCHANGED vars => TypeOK'
  BY DEF vars, TypeOK, Memory, ChangesHead
<1>6. setting.processes \subseteq Maintainers /\ setting.asserted \cup setting.retracted \subseteq Statements
  BY InferenceMaintenanceAssumption DEF TypeOK
<1>7. ASSUME NEW m \in Maintainers, Step(m) \/ StepFails(m) \/ Refresh(m) \/ Close(m) \/ Crash(m)
      PROVE  TypeOK'
  BY <1>7, TypeQuiet, TypeRead, TypePersist, TypeRefresh DEF Step, Refresh
<1> QED BY <1>2, <1>3, <1>4, <1>5, <1>6, <1>7 DEF Next

\* Rows, cursors and watermarks are of their types, and never past the head.
THEOREM TypeCorrect == Spec => []TypeOK
BY TypeInit, TypeStep, PTL DEF Spec

-----------------------------------------------------------------------------
(* The stored watermark *)

Baseline == {"vocabulary", "leftovers", "explicit", "inferred", "persistBaseline", "persistLeftovers"}

Act(m) == Step(m) \/ StepFails(m) \/ Refresh(m) \/ Close(m) \/ Crash(m)

\* A step of one maintainer: the log only grows, the memory of the others
\* stays, and so does the lease when another has it.
LEMMA ActsAlone ==
    ASSUME TypeOK, NEW m \in Maintainers, Act(m)
    PROVE  /\ ChangesHead \in Nat /\ ChangesHead' \in Nat /\ ChangesHead <= ChangesHead'
           /\ \A n \in Maintainers \ {m} : mt'[n] = mt[n]
           /\ \E r : mt' = [mt EXCEPT ![m] = r]
           /\ lease.holder # m => lease'.applied = lease.applied
           /\ \A n \in Maintainers \ {m} : lease'.holder = n => lease.holder = n
           /\ setting' = setting
<1>1. Len(events) \in Nat
  BY LenProperties DEF TypeOK
<1>2. ChangesHead' \in Nat /\ ChangesHead <= ChangesHead'
  <2>1. CASE UNCHANGED events
    BY <1>1, <2>1 DEF ChangesHead
  <2>2. CASE Persist(m) /\ FencePassed(m)
    <3>1. events' = events \o LogOf(Changes(m)) /\ IsChange(Changes(m))
      BY <2>2, ChangesAre DEF Persist
    <3> QED BY <3>1, ChangeTyped DEF ChangesHead
  <2>3. CASE RefreshClear(m)
    <3>1. events' = events \o LogOf(Cleared) /\ IsChange(Cleared)
      BY <2>3, RefreshesAre DEF RefreshClear, Cleared
    <3> QED BY <3>1, ChangeTyped DEF ChangesHead
  <2>4. CASE RefreshWrite(m)
    <3>1. events' = events \o LogOf(Written(m)) /\ IsChange(Written(m))
      BY <2>4, RefreshesAre DEF RefreshWrite, Written
    <3> QED BY <3>1, ChangeTyped DEF ChangesHead
  <2>5. UNCHANGED events \/ (Persist(m) /\ FencePassed(m)) \/ RefreshClear(m) \/ RefreshWrite(m)
    BY DEF Act, Step, Refresh, Begin, Observe, HoldLease, ReleaseLease, BaselineHead,
           BaselineVocabulary, BaselineLeftovers, BaselineExplicit, BaselineInferred, ReadEvents,
           Persist, FlushWatermark, SkipFlush, StepFails, RefreshRead, RefreshFails, Close, Crash
  <2> QED BY <2>1, <2>2, <2>3, <2>4, <2>5
<1>3. \E r : mt' = [mt EXCEPT ![m] = r]
  BY Zenon DEF Act, Step, Refresh, Begin, Observe, HoldLease, ReleaseLease, BaselineHead,
           BaselineVocabulary, BaselineLeftovers, BaselineExplicit, BaselineInferred, ReadEvents,
           Persist, FlushWatermark, SkipFlush, StepFails, RefreshClear, RefreshRead, RefreshWrite,
           RefreshFails, Close, Crash, Set
<1>4. \A n \in Maintainers \ {m} : mt'[n] = mt[n]
  BY <1>3 DEF TypeOK
<1>5. lease \in LeaseRow /\ m \notin {Nobody, Dead}
  BY InferenceMaintenanceAssumption DEF TypeOK, LeaseRow
<1>6. \/ lease' = lease
      \/ lease' = [lease EXCEPT !.holder = m, !.until = now + LeaseTTL]
      \/ lease' = [lease EXCEPT !.holder = Nobody, !.until = 0]
      \/ lease' = [lease EXCEPT !.holder = Dead]
      \/ lease.holder = m /\ \E n : lease' = [lease EXCEPT !.applied = n]
  BY DEF Act, Step, Refresh, Begin, Observe, HoldLease, ReleaseLease, BaselineHead,
         BaselineVocabulary, BaselineLeftovers, BaselineExplicit, BaselineInferred, ReadEvents,
         Persist, FencePassed, FlushWatermark, SkipFlush, StepFails, RefreshClear, RefreshRead,
         RefreshWrite, RefreshFails, Close, Crash
<1>7. lease.holder # m => lease'.applied = lease.applied
  BY <1>5, <1>6 DEF LeaseRow
<1>8. \A n \in Maintainers \ {m} : lease'.holder = n => lease.holder = n
  BY <1>5, <1>6, InferenceMaintenanceAssumption DEF LeaseRow
<1>9. setting' = setting
  BY DEF Act, Step, Refresh, Begin, Observe, HoldLease, ReleaseLease, BaselineHead,
         BaselineVocabulary, BaselineLeftovers, BaselineExplicit, BaselineInferred, ReadEvents,
         Persist, FlushWatermark, SkipFlush, StepFails, RefreshClear, RefreshRead, RefreshWrite,
         RefreshFails, Close, Crash
<1> QED BY <1>1, <1>2, <1>3, <1>4, <1>7, <1>8, <1>9 DEF ChangesHead

\* What the holder is about to commit is never below what is stored.
NotBehind(m) ==
    /\ mt[m].pc \in Baseline \cup {"persist"} => lease.applied <= mt[m].head
    /\ mt[m].pc = "flush" => lease.applied <= mt[m].cursor

FenceInv == \A m \in Maintainers : lease.holder = m => NotBehind(m)

\* What memory holds after the diff was written, or refused.
LEMMA AfterPersist ==
    ASSUME TypeOK, NEW m \in Maintainers, Persist(m)
    PROVE  LET r == mt[m]
               q == mt'[m]
           IN
           /\ q.upserts = {} /\ q.deletes = {}
           /\ FencePassed(m) =>
                /\ q.cursor = r.head /\ q.applied = Later(r.applied, r.head)
                /\ r.pc = "persistLeftovers" => q.pc = "releaseThenRead" /\ q.state = "dormant"
                /\ r.pc = "persistBaseline" =>
                     /\ q.pc = "lease" /\ q.state = "active"
                     /\ q.explicit = r.explicit /\ q.persisted = Derived(r.explicit)
                /\ r.pc = "persist" =>
                     \/ /\ q.pc = "release" /\ q.state = "dormant"
                        /\ r.explicit \cap Vocabulary = {} /\ Derived(r.explicit) = {}
                     \/ /\ q.pc = "idle" /\ q.state = r.state
                        /\ q.explicit = r.explicit /\ q.persisted = Derived(r.explicit)
           /\ ~FencePassed(m) => q.pc = "idle" /\ q.state = "nil" /\ q.applied = r.applied
<1> DEFINE r == mt[m]
           q == mt'[m]
           h == Watermark(m)
<1>1. r \in Memory /\ mt \in [Maintainers -> Memory]
  BY MemoryFields DEF TypeOK
<1>2. \A x : Set(m, x) => q = x
  BY <1>1 DEF Set
<1>3. CASE FencePassed(m)
  <2> DEFINE c == Committed(r)
  <2>1. q = NoDiff([c EXCEPT !.cursor = h, !.applied = Later(c.applied, h)])
    BY <1>2, <1>3 DEF Persist
  <2>2. r.pc \in {"persist", "persistBaseline", "persistLeftovers"} /\ h = r.head
    BY DEF Persist, Watermark
  <2>3. Derived(r.explicit) \subseteq Statements
    BY MemoryFields, Follows
  <2>4. /\ c \in Memory /\ c.applied = r.applied
        /\ r.pc = "persistLeftovers" => c.pc = "releaseThenRead" /\ c.state = "dormant"
        /\ r.pc = "persistBaseline" =>
             /\ c.pc = "lease" /\ c.state = "active"
             /\ c.explicit = r.explicit /\ c.persisted = Derived(r.explicit)
        /\ r.pc = "persist" =>
             \/ /\ c.pc = "release" /\ c.state = "dormant"
                /\ r.explicit \cap Vocabulary = {} /\ Derived(r.explicit) = {}
             \/ /\ c.pc = "idle" /\ c.state = r.state
                /\ c.explicit = r.explicit /\ c.persisted = Derived(r.explicit)
    <3>1. CASE r.pc = "persistLeftovers"
      <4>1. c = [r EXCEPT !.pc = "releaseThenRead", !.state = "dormant", !.wantLease = FALSE]
        BY <3>1 DEF Committed
      <4> HIDE DEF c
      <4> QED BY <1>1, <3>1, <4>1 DEF Memory
    <3>2. CASE r.pc = "persistBaseline"
      <4>1. c = [r EXCEPT !.pc = "lease", !.state = "active", !.wantLease = FALSE,
                          !.persisted = Derived(r.explicit), !.flushed = r.head]
        BY <3>2 DEF Committed
      <4> HIDE DEF c
      <4> QED BY <1>1, <2>3, <3>2, <4>1 DEF Memory
    <3>3. CASE r.pc = "persist"
      <4>1. CASE r.explicit \cap Vocabulary = {} /\ Derived(r.explicit) = {}
        <5>1. c = [r EXCEPT !.pc = "release", !.state = "dormant", !.explicit = {}, !.persisted = {}]
          BY <3>3, <4>1 DEF Committed
        <5> HIDE DEF c
        <5>2. c \in Memory /\ c.pc = "release" /\ c.state = "dormant" /\ c.applied = r.applied
          BY <1>1, <5>1 DEF Memory
        <5> QED BY <3>3, <4>1, <5>2
      <4>2. CASE ~(r.explicit \cap Vocabulary = {} /\ Derived(r.explicit) = {})
        <5>1. c = [r EXCEPT !.pc = "idle", !.persisted = Derived(r.explicit), !.flushed = r.head]
          BY <3>3, <4>2 DEF Committed
        <5> HIDE DEF c
        <5>2. c \in Memory
          BY <1>1, <2>3, <5>1 DEF Memory
        <5>3. /\ c.pc = "idle" /\ c.state = r.state /\ c.applied = r.applied
              /\ c.explicit = r.explicit /\ c.persisted = Derived(r.explicit)
          BY <1>1, <5>1 DEF Memory
        <5> QED BY <3>3, <5>2, <5>3
      <4> QED BY <4>1, <4>2
    <3> QED BY <2>2, <3>1, <3>2, <3>3
  <2> HIDE DEF c
  <2> HIDE DEF q, h
  <2>5. PICK a : a = Later(c.applied, h)
    OBVIOUS
  <2>6. /\ q.upserts = {} /\ q.deletes = {} /\ q.cursor = h
        /\ q.pc = c.pc /\ q.state = c.state /\ q.explicit = c.explicit /\ q.persisted = c.persisted
        /\ q.applied = a
    <3>1. q = [[c EXCEPT !.cursor = h, !.applied = a] EXCEPT !.upserts = {}, !.deletes = {}]
      BY <2>1, <2>5 DEF NoDiff
    <3>2. c \in Memory
      BY <2>4
    <3> QED BY <3>1, <3>2 DEF Memory
  <2> HIDE DEF r
  <2>7. /\ r.pc = "persistLeftovers" => q.pc = "releaseThenRead" /\ q.state = "dormant"
        /\ r.pc = "persistBaseline" =>
             /\ q.pc = "lease" /\ q.state = "active"
             /\ q.explicit = r.explicit /\ q.persisted = Derived(r.explicit)
        /\ r.pc = "persist" =>
             \/ /\ q.pc = "release" /\ q.state = "dormant"
                /\ r.explicit \cap Vocabulary = {} /\ Derived(r.explicit) = {}
             \/ /\ q.pc = "idle" /\ q.state = r.state
                /\ q.explicit = r.explicit /\ q.persisted = Derived(r.explicit)
        /\ q.cursor = r.head /\ q.applied = Later(r.applied, r.head)
    BY <2>2, <2>4, <2>5, <2>6
  <2> QED BY <1>3, <2>6, <2>7 DEF q, r
<1>4. CASE ~FencePassed(m)
  <2>1. q = NoDiff([Refused(r) EXCEPT !.holding = FALSE])
    BY <1>2, <1>4 DEF Persist
  <2> HIDE DEF q
  <2> QED BY <1>1, <1>4, <2>1 DEF NoDiff, Refused, LookAgain, AskForLease, Memory, q
<1> QED BY <1>3, <1>4

\* Every step of a maintainer that holds the lease, or gets it.
LEMMA OwnFence ==
    ASSUME TypeOK, FenceInv, NEW m \in Maintainers, Act(m)
    PROVE  /\ lease'.holder = m => NotBehind(m)'
           /\ lease'.applied >= lease.applied
<1> DEFINE r == mt[m]
           q == mt'[m]
           H == ChangesHead
<1>1. /\ r \in Memory /\ r.head \in 0..H /\ r.cursor \in 0..H /\ H \in Nat
      /\ lease \in LeaseRow /\ lease.applied \in 0..H /\ mt \in [Maintainers -> Memory]
  BY MemoryFields DEF TypeOK, LeaseRow
<1>2. \A x : Set(m, x) => q = x
  BY <1>1 DEF Set
<1>3. CASE Step(m) /\ ~Persist(m) /\ ~FlushWatermark(m)
  <2>1. lease'.applied = lease.applied
    BY <1>1, <1>3 DEF LeaseRow, Step, Begin, Observe, HoldLease, ReleaseLease, BaselineHead,
           BaselineVocabulary, BaselineLeftovers, BaselineExplicit, BaselineInferred, ReadEvents,
           SkipFlush
  <2>2. CASE Begin(m) \/ Observe(m) \/ HoldLease(m) \/ ReleaseLease(m) \/ SkipFlush(m)
    <3>1. q.pc \in {"idle", "observe", "lease", "read", "head"}
      BY <1>1, <1>2, <2>2, ZenonT(30) DEF Begin, Observe, HoldLease, AfterLease, AskForLease, ReleaseLease,
                              SkipFlush, Memory
    <3> QED BY <1>1, <2>1, <3>1 DEF NotBehind, Baseline
  <2>3. CASE BaselineHead(m)
    <3>1. q.pc = "vocabulary" /\ q.head = H
      BY <1>1, <1>2, <2>3 DEF BaselineHead, BaselineFrom, Memory
    <3> QED BY <1>1, <2>1, <3>1 DEF NotBehind, Baseline
  <2>4. CASE BaselineVocabulary(m) \/ BaselineLeftovers(m) \/ BaselineExplicit(m) \/ BaselineInferred(m)
    <3>1. q.pc \in Baseline /\ q.head = r.head /\ r.pc \in Baseline /\ lease' = lease
      BY <1>1, <1>2, <2>4 DEF BaselineVocabulary, BaselineLeftovers, BaselineExplicit,
                              BaselineInferred, Memory, Baseline
    <3>2. lease.holder = m => lease.applied <= r.head
      BY <3>1 DEF FenceInv, NotBehind
    <3> QED BY <1>1, <3>1, <3>2 DEF NotBehind, Baseline
  <2>5. CASE ReadEvents(m)
    <3>1. \/ q.pc = "idle"
          \/ q.pc = "flush" /\ q.cursor = H
          \/ q.pc = "persist" /\ q.head = H
      <4>1. \/ Set(m, LookAgain(r)) \/ Set(m, AskForLease(r))
            \/ \E stage \in {"flush", "idle"} : Set(m, [r EXCEPT !.pc = stage]) /\ r.cursor = H
            \/ Set(m, [r EXCEPT !.pc = "idle", !.cursor = H, !.applied = Later(@, H)])
            \/ \E X : Set(m, [r EXCEPT !.pc = "idle", !.explicit = X, !.cursor = H,
                                       !.applied = Later(@, H)])
            \/ \E X, Y, Z : Set(m, [r EXCEPT !.pc = "persist", !.explicit = X, !.head = H,
                                             !.upserts = Y, !.deletes = Z])
        BY <2>5, ZenonT(30) DEF ReadEvents
      <4>2. DOMAIN r = {"pc", "state", "wantLease", "holding", "renewed", "cursor",
                  "flushed", "applied", "explicit", "persisted", "head", "upserts", "deletes"}
        BY <1>1 DEF Memory
      <4>3. LookAgain(r).pc = "idle" /\ AskForLease(r).pc = "idle"
        BY StartsOver
      <4>4. \A stage : [r EXCEPT !.pc = stage].pc = stage /\ [r EXCEPT !.pc = stage].cursor = r.cursor
        BY <4>2
      <4>5. \A h, a : [r EXCEPT !.pc = "idle", !.cursor = h, !.applied = a].pc = "idle"
        BY <4>2
      <4>6. \A X, h, a : [r EXCEPT !.pc = "idle", !.explicit = X, !.cursor = h, !.applied = a].pc = "idle"
        BY <4>2
      <4>7. \A X, Y, Z, h : LET x == [r EXCEPT !.pc = "persist", !.explicit = X, !.head = h,
                                              !.upserts = Y, !.deletes = Z]
                          IN  x.pc = "persist" /\ x.head = h
        BY <4>2
      <4> DEFINE Ends(x) == x.pc = "idle" \/ (x.pc = "flush" /\ x.cursor = H)
                              \/ (x.pc = "persist" /\ x.head = H)
      <4>8. \A x : Set(m, x) /\ Ends(x) => Ends(q)
        BY <1>2
      <4>9. CASE Set(m, LookAgain(r)) \/ Set(m, AskForLease(r))
        BY <4>3, <4>8, <4>9
      <4>10. CASE \E stage \in {"flush", "idle"} : Set(m, [r EXCEPT !.pc = stage]) /\ r.cursor = H
        <5>1. PICK stage \in {"flush", "idle"} : Set(m, [r EXCEPT !.pc = stage]) /\ r.cursor = H
          BY <4>10
        <5>2. Ends([r EXCEPT !.pc = stage])
          BY <4>4, <5>1
        <5> QED BY <4>8, <5>1, <5>2
      <4>11. CASE Set(m, [r EXCEPT !.pc = "idle", !.cursor = H, !.applied = Later(@, H)])
        <5>1. Ends([r EXCEPT !.pc = "idle", !.cursor = H, !.applied = Later(@, H)])
          BY <4>5
        <5> QED BY <4>8, <4>11, <5>1
      <4>12. CASE \E X : Set(m, [r EXCEPT !.pc = "idle", !.explicit = X, !.cursor = H,
                                         !.applied = Later(@, H)])
        <5>1. PICK X : Set(m, [r EXCEPT !.pc = "idle", !.explicit = X, !.cursor = H,
                                        !.applied = Later(@, H)])
          BY <4>12
        <5>2. Ends([r EXCEPT !.pc = "idle", !.explicit = X, !.cursor = H, !.applied = Later(@, H)])
          BY <4>6
        <5> QED BY <4>8, <5>1, <5>2
      <4>13. CASE \E X, Y, Z : Set(m, [r EXCEPT !.pc = "persist", !.explicit = X, !.head = H,
                                               !.upserts = Y, !.deletes = Z])
        <5>1. PICK X, Y, Z : Set(m, [r EXCEPT !.pc = "persist", !.explicit = X, !.head = H,
                                              !.upserts = Y, !.deletes = Z])
          BY <4>13
        <5>2. Ends([r EXCEPT !.pc = "persist", !.explicit = X, !.head = H, !.upserts = Y,
                             !.deletes = Z])
          BY <4>7
        <5> QED BY <4>8, <5>1, <5>2
      <4> QED BY <4>1, <4>9, <4>10, <4>11, <4>12, <4>13
    <3> QED BY <1>1, <2>1, <3>1 DEF NotBehind, Baseline
  <2> QED BY <1>3, <2>2, <2>3, <2>4, <2>5 DEF Step
<1>4. CASE Persist(m)
  <2>1. r.pc \in {"persist", "persistBaseline", "persistLeftovers"}
    BY <1>4 DEF Persist
  <2>2. q.pc \in {"idle", "lease", "release", "releaseThenRead"}
    BY <1>4, <2>1, AfterPersist
  <2>3. lease' = lease \/ (lease.holder = m /\ lease'.applied = r.head)
    <3>1. \/ lease' = lease
          \/ lease.holder = m /\ lease' = [lease EXCEPT !.applied = r.head]
      BY <1>4 DEF Persist, FencePassed, Watermark
    <3>2. lease \in LeaseRow
      BY <1>1
    <3>3. \A h : [lease EXCEPT !.applied = h].applied = h
      BY <3>2 DEF LeaseRow
    <3> QED BY <3>1, <3>3
  <2>4. lease.holder = m => lease.applied <= r.head
    BY <2>1 DEF FenceInv, NotBehind, Baseline
  <2> QED BY <1>1, <2>2, <2>3, <2>4 DEF NotBehind, Baseline
<1>5. CASE FlushWatermark(m)
  <2>1. q.pc = "idle" /\ r.pc = "flush"
    <3>1. \/ Set(m, [r EXCEPT !.pc = "idle", !.flushed = r.cursor])
          \/ Set(m, AskForLease([r EXCEPT !.holding = FALSE]))
      BY <1>5 DEF FlushWatermark
    <3>2. [r EXCEPT !.pc = "idle", !.flushed = r.cursor].pc = "idle"
          /\ AskForLease([r EXCEPT !.holding = FALSE]).pc = "idle"
      BY <1>1 DEF AskForLease, Memory
    <3>3. r.pc = "flush"
      BY <1>5 DEF FlushWatermark
    <3> QED BY <1>2, <3>1, <3>2, <3>3
  <2>2. lease' = lease \/ (lease.holder = m /\ lease'.applied = r.cursor)
    <3>1. \/ lease' = lease
          \/ lease.holder = m /\ lease' = [lease EXCEPT !.applied = r.cursor]
      BY <1>5 DEF FlushWatermark, FencePassed
    <3>2. lease \in LeaseRow
      BY <1>1
    <3>3. \A h : [lease EXCEPT !.applied = h].applied = h
      BY <3>2 DEF LeaseRow
    <3> QED BY <3>1, <3>3
  <2>3. lease.holder = m => lease.applied <= r.cursor
    BY <2>1 DEF FenceInv, NotBehind
  <2> QED BY <1>1, <2>1, <2>2, <2>3 DEF NotBehind, Baseline
<1>6. CASE StepFails(m) \/ Refresh(m) \/ Close(m) \/ Crash(m)
  <2>1. q.pc \in {"idle", "refreshRead", "refreshWrite"}
    <3>1. StepFails(m) => q.pc = "idle"
      <4>1. StepFails(m) =>
              \/ Set(m, [r EXCEPT !.pc = "idle"])
              \/ \E x \in {AskForLease(NoDiff(r)), LookAgain(NoDiff(r)),
                           LookAgain([r EXCEPT !.holding = FALSE])} : Set(m, x)
        BY DEF StepFails
      <4>2. [r EXCEPT !.pc = "idle"].pc = "idle"
        BY <1>1 DEF Memory
      <4> QED BY <1>2, <4>1, <4>2, StartsOver
    <3>2. Refresh(m) => q.pc \in {"idle", "refreshRead", "refreshWrite"}
      BY <1>1, <1>2 DEF Refresh, RefreshClear, RefreshRead, RefreshWrite, RefreshFails, LookAgain, Memory
    <3>3. Close(m) \/ Crash(m) => q.pc = "idle"
      BY <1>1, <1>2 DEF Close, Crash, Fresh, Set
    <3> QED BY <1>6, <3>1, <3>2, <3>3
  <2>2. lease'.applied = lease.applied
    BY <1>1, <1>6 DEF StepFails, Refresh, RefreshClear, RefreshRead, RefreshWrite, RefreshFails,
           Close, Crash, LeaseRow
  <2> QED BY <1>1, <2>1, <2>2 DEF NotBehind, Baseline
<1> QED BY <1>3, <1>4, <1>5, <1>6 DEF Act

\* What leaves the lease and the maintainers alone.
LEMMA Others ==
    ASSUME TypeOK,
           \/ \E s \in setting.asserted : UpsertTriple(s)
           \/ \E s \in setting.retracted : DeleteTriple(s)
           \/ Prune \/ Tick \/ UNCHANGED vars
    PROVE  UNCHANGED <<setting, lease, mt, stale>>
BY DEF UpsertTriple, DeleteTriple, WriteRow, Prune, Tick, vars

\* Who moves: a writer, retention, the clock or a running maintainer.
LEMMA NextIs ==
    ASSUME TypeOK, [Next]_vars
    PROVE  \/ \E s \in setting.asserted : UpsertTriple(s)
           \/ \E s \in setting.retracted : DeleteTriple(s)
           \/ Prune \/ Tick \/ UNCHANGED vars
           \/ \E m \in setting.processes : m \in Maintainers /\ Act(m)
BY InferenceMaintenanceAssumption DEF Next, Act, TypeOK

\* Every step of a running maintainer is a step of the whole.
LEMMA ActNext ==
    ASSUME NEW m, m \in setting.processes, Act(m)
    PROVE  [Next]_vars
BY DEF Next, Act

\* No step puts the holder behind the stored watermark, or takes that back.
LEMMA FenceStep ==
    TypeOK /\ FenceInv /\ [Next]_vars => FenceInv' /\ lease'.applied >= lease.applied
<1> SUFFICES ASSUME TypeOK, FenceInv, [Next]_vars
             PROVE  FenceInv' /\ lease'.applied >= lease.applied
  OBVIOUS
<1>1. lease.applied \in 0..ChangesHead
  BY DEF TypeOK
<1>2. CASE UNCHANGED <<setting, lease, mt, stale>>
  BY <1>1, <1>2 DEF FenceInv, NotBehind
<1>3. ASSUME NEW m \in Maintainers, Act(m)
      PROVE  FenceInv' /\ lease'.applied >= lease.applied
  <2>1. ASSUME NEW n \in Maintainers, lease'.holder = n PROVE NotBehind(n)'
    <3>1. CASE n = m
      BY <1>3, <2>1, <3>1, OwnFence
    <3>2. CASE n # m
      <4>1. n \in Maintainers \ {m} /\ n # m
        BY <3>2
      <4>2. mt'[n] = mt[n] /\ lease.holder = n
        BY <1>3, <2>1, <4>1, ActsAlone
      <4>3. lease'.applied = lease.applied
        BY <1>3, <4>1, <4>2, ActsAlone
      <4>4. NotBehind(n)
        BY <4>2 DEF FenceInv
      <4> QED BY <4>2, <4>3, <4>4 DEF NotBehind
    <3> QED BY <3>1, <3>2
  <2>2. lease'.applied >= lease.applied
    BY <1>3, OwnFence
  <2> QED BY <2>1, <2>2 DEF FenceInv
<1> QED BY <1>2, <1>3, NextIs, Others

\* The stored watermark never goes back: the fence lets only the holder write
\* it, and what the holder is about to write is not below it.
THEOREM WatermarkMonotoneHolds == Spec => WatermarkMonotone
<1>1. Init => FenceInv
  BY InferenceMaintenanceAssumption DEF Init, FenceInv
<1>2. TypeOK /\ FenceInv /\ [Next]_vars => [lease'.applied >= lease.applied]_vars
  BY FenceStep
<1> QED BY <1>1, <1>2, TypeInit, TypeStep, FenceStep, PTL DEF Spec, WatermarkMonotone

-----------------------------------------------------------------------------
(* Behaviours without a refresh by hand *)

Unrefreshed ==
    "refresh" \notin setting.may =>
        \A m \in Maintainers : mt[m].pc \notin {"refreshRead", "refreshWrite"}

\* Without refreshes nobody gets into one.
LEMMA UnrefreshedStep == TypeOK /\ Unrefreshed /\ [Next]_vars => Unrefreshed'
<1> SUFFICES ASSUME TypeOK, Unrefreshed, [Next]_vars PROVE Unrefreshed'
  OBVIOUS
<1>1. CASE UNCHANGED <<setting, lease, mt, stale>>
  BY <1>1 DEF Unrefreshed
<1>2. ASSUME NEW m \in Maintainers, Act(m), "refresh" \notin setting.may
      PROVE  mt'[m].pc \notin {"refreshRead", "refreshWrite"}
  <2> DEFINE r == mt[m]
             q == mt'[m]
  <2>1. r \in Memory /\ mt \in [Maintainers -> Memory]
    BY MemoryFields DEF TypeOK
  <2>2. \A x : Set(m, x) => q = x
    BY <2>1 DEF Set
  <2>3. r.pc \notin {"refreshRead", "refreshWrite"}
    BY <1>2 DEF Unrefreshed
  <2>4. ~Refresh(m)
    BY <1>2, <2>3 DEF Refresh, RefreshClear, RefreshRead, RefreshWrite, RefreshFails
  <2>5. CASE Persist(m)
    <3>1. q.pc \in {"idle", "lease", "release", "releaseThenRead"}
      <4>1. r.pc \in {"persist", "persistBaseline", "persistLeftovers"}
        BY <2>5 DEF Persist
      <4> QED BY <2>5, <4>1, AfterPersist
    <3> QED BY <3>1
  <2>6. CASE StepFails(m) \/ Close(m) \/ Crash(m)
    <3>1. StepFails(m) => q.pc = "idle"
      BY <2>1, <2>2, ZenonT(30) DEF StepFails, NoDiff, LookAgain, AskForLease, Memory
    <3>2. Close(m) \/ Crash(m) => q.pc = "idle"
      BY <2>1, <2>2 DEF Close, Crash, Fresh, Set
    <3> QED BY <2>6, <3>1, <3>2
  <2>7. CASE Begin(m) \/ Observe(m) \/ HoldLease(m) \/ ReleaseLease(m) \/ SkipFlush(m)
    BY <2>1, <2>2, <2>7, ZenonT(30) DEF Begin, Observe, HoldLease, AfterLease, AskForLease, ReleaseLease,
                            SkipFlush, Memory
  <2>8. CASE BaselineHead(m) \/ BaselineVocabulary(m) \/ BaselineLeftovers(m) \/ BaselineExplicit(m)
             \/ BaselineInferred(m)
    BY <2>1, <2>2, <2>8 DEF BaselineHead, BaselineVocabulary, BaselineLeftovers, BaselineExplicit,
                            BaselineInferred, Memory
  <2>9. CASE ReadEvents(m) \/ FlushWatermark(m)
    BY <2>1, <2>2, <2>9, ZenonT(30) DEF ReadEvents, FlushWatermark, LookAgain, AskForLease, Memory
  <2> QED BY <1>2, <2>4, <2>5, <2>6, <2>7, <2>8, <2>9 DEF Act, Step
<1>3. ASSUME NEW m \in Maintainers, Act(m) PROVE Unrefreshed'
  <2>1. setting' = setting /\ \A n \in Maintainers \ {m} : mt'[n] = mt[n]
    BY <1>3, ActsAlone
  <2> QED BY <1>2, <1>3, <2>1 DEF Unrefreshed
<1> QED BY <1>1, <1>3, NextIs, Others

\* Without refreshes a maintainer changes rows when it holds the lease and
\* persists, and then no explicit one.
LEMMA RowsBy ==
    ASSUME TypeOK, Unrefreshed, "refresh" \notin setting.may, NEW m \in Maintainers, Act(m)
    PROVE  \/ UNCHANGED <<rows, events>>
           \/ /\ Persist(m) /\ FencePassed(m)
              /\ rows' = Over(Changes(m), rows) /\ events' = events \o LogOf(Changes(m))
<1>1. ~Refresh(m)
  BY DEF Unrefreshed, Refresh, RefreshClear, RefreshRead, RefreshWrite, RefreshFails
<1>2. CASE Persist(m)
  BY <1>2 DEF Persist
<1>3. CASE ~Persist(m)
  BY <1>1, <1>3 DEF Act, Step, Begin, Observe, HoldLease, ReleaseLease, BaselineHead,
         BaselineVocabulary, BaselineLeftovers, BaselineExplicit, BaselineInferred, ReadEvents,
         FlushWatermark, SkipFlush, StepFails, Close, Crash
<1> QED BY <1>2, <1>3

\* Maintenance never takes over or deletes an explicit row, however old the
\* diff it writes; only writers do.  A refresh by hand may: it is left out.
THEOREM ExplicitKeptHolds ==
    (\A s \in Settings : "refresh" \notin s.may) => (Spec => ExplicitKept)
<1> SUFFICES ASSUME \A s \in Settings : "refresh" \notin s.may PROVE Spec => ExplicitKept
  OBVIOUS
<1> DEFINE Kept == \A s \in Statements :
                      rows[s] = "explicit" /\ rows'[s] # "explicit"
                          => events'[Len(events')].by = "writer"
<1>1. TypeOK /\ Unrefreshed /\ [Next]_vars => [Kept]_vars
  <2> SUFFICES ASSUME TypeOK, Unrefreshed, [Next]_vars PROVE Kept \/ UNCHANGED vars
    OBVIOUS
  <2>1. ASSUME NEW s \in Statements, UpsertTriple(s) \/ DeleteTriple(s) PROVE Kept
    <3>1. PICK state \in {"explicit", "absent"} : WriteRow(s, state)
      BY <2>1 DEF UpsertTriple, DeleteTriple
    <3> DEFINE e == [id |-> s, after |-> state, by |-> "writer"]
    <3>2. e \in Event /\ events' = Append(events, e)
      BY <3>1 DEF Event, RowStates, WriteRow
    <3>3. events \in Seq(Event)
      BY DEF TypeOK
    <3>4. Len(events') = Len(events) + 1 /\ events'[Len(events) + 1] = e
      BY <3>2, <3>3
    <3> QED BY <3>4
  <2>2. Prune \/ Tick => Kept
    BY DEF Prune, Tick
  <2>3. ASSUME NEW m \in Maintainers, Act(m) PROVE Kept
    <3>1. CASE UNCHANGED <<rows, events>>
      BY <3>1
    <3>2. CASE rows' = Over(Changes(m), rows)
      <4>1. \A s \in Statements : rows[s] = "explicit" => s \notin DOMAIN Changes(m)
        BY ChangesAre
      <4>2. \A s \in Statements : rows[s] = "explicit" => rows'[s] = "explicit"
        BY <3>2, <4>1 DEF Over, TypeOK
      <4> QED BY <4>2
    <3>3. "refresh" \notin setting.may
      BY DEF TypeOK
    <3> QED BY <2>3, <3>1, <3>2, <3>3, RowsBy
  <2>4. setting.asserted \cup setting.retracted \subseteq Statements
    BY InferenceMaintenanceAssumption DEF TypeOK
  <2> QED BY <2>1, <2>2, <2>3, <2>4, NextIs
<1>2. Init => Unrefreshed
  BY DEF Init, Unrefreshed, Fresh
<1> QED BY <1>1, <1>2, TypeInit, TypeStep, UnrefreshedStep, PTL DEF Spec, ExplicitKept

-----------------------------------------------------------------------------
(* What a log says of each statement *)

\* Event i is the last of the first k about s.
LastOn(log, s, k, i) ==
    /\ i \in 1..k /\ log[i].id = s
    /\ \A j \in (i + 1)..k : log[j].id # s

\* The explicit statements after the first k events.
ExplicitAt(log, k) ==
    {s \in Statements : \E i \in 1..k : LastOn(log, s, k, i) /\ log[i].after = "explicit"}

\* A statement has one last event up to a point.
LEMMA LastIsOne ==
    ASSUME NEW log, NEW s, NEW k \in Nat, NEW i, NEW j, LastOn(log, s, k, i), LastOn(log, s, k, j)
    PROVE  i = j
<1>1. i \in 1..k /\ j \in 1..k
  BY DEF LastOn
<1>2. ~(i < j) /\ ~(j < i)
  BY <1>1 DEF LastOn
<1> QED BY <1>1, <1>2

\* A non-empty set of naturals has a least element.
LEMMA LeastNatural ==
    ASSUME NEW S \in SUBSET Nat, S # {}
    PROVE  \E n \in S : \A o \in S : n <= o
<1> DEFINE Less == {p \in Nat \X Nat : p[1] < p[2]}
<1>1. IsWellFoundedOn(Less, Nat)
  BY NatLessThanWellFounded DEF OpToRel
<1>2. PICK n \in S : \A o \in S : <<o, n>> \notin Less
  <2> HIDE DEF Less
  <2> QED BY <1>1, WFMin
<1>3. ASSUME NEW o \in S PROVE n <= o
  <2>1. o \in Nat /\ n \in Nat /\ (o < n => <<o, n>> \in Less)
    OBVIOUS
  <2> QED BY <1>2, <2>1
<1> QED BY <1>3

\* A statement some event is about has a last one.
LEMMA LastExists ==
    ASSUME NEW log, NEW s, NEW k \in Nat, NEW h \in 1..k, log[h].id = s
    PROVE  \E i \in h..k : LastOn(log, s, k, i)
<1> DEFINE left == {n \in Nat : \E i \in h..k : n = k - i /\ log[i].id = s}
<1>1. k - h \in left
  OBVIOUS
<1>2. PICK n \in left : \A o \in left : n <= o
  BY <1>1, LeastNatural
<1>3. PICK i \in h..k : n = k - i /\ log[i].id = s
  BY <1>2
<1>4. ASSUME NEW j \in (i + 1)..k, log[j].id = s PROVE FALSE
  <2>1. k - j \in left
    BY <1>3, <1>4
  <2>2. k - i <= k - j
    BY <1>2, <1>3, <2>1
  <2> QED BY <1>3, <1>4, <2>2
<1> QED BY <1>3, <1>4 DEF LastOn

\* Replaying follows the last event on each statement, where there is one.
LEMMA ReplayIs ==
    ASSUME NEW k \in Nat, NEW c \in 0..k, NEW E, NEW s
    PROVE  /\ \A i \in (c + 1)..k : LastOn(events, s, k, i) =>
                (s \in Replay(E, c, k) <=> events[i].after = "explicit")
           /\ (\A i \in (c + 1)..k : ~LastOn(events, s, k, i)) =>
                (s \in Replay(E, c, k) <=> s \in E)
<1> DEFINE Touched == {events[i].id : i \in (c + 1)..k}
           ThisOne(i) == events[i].id = s /\ \A j \in (i + 1)..k : events[j].id # s
           Final == events[CHOOSE i \in (c + 1)..k : ThisOne(i)].after
<1>1. s \in Replay(E, c, k) <=>
        (s \in E /\ s \notin Touched) \/ (s \in Touched /\ Final = "explicit")
  BY DEF Replay
<1>2. ASSUME NEW i \in (c + 1)..k, LastOn(events, s, k, i)
      PROVE  s \in Replay(E, c, k) <=> events[i].after = "explicit"
  <2>1. ThisOne(i) /\ s \in Touched
    BY <1>2 DEF LastOn
  <2>2. PICK x : x = CHOOSE j \in (c + 1)..k : ThisOne(j)
    OBVIOUS
  <2>3. x \in (c + 1)..k /\ ThisOne(x)
    BY <2>1, <2>2
  <2>4. LastOn(events, s, k, x)
    BY <2>3 DEF LastOn
  <2>5. x = i
    BY <1>2, <2>4, LastIsOne
  <2>6. Final = events[i].after
    BY <2>2, <2>5
  <2> HIDE DEF Touched, Final
  <2> QED BY <1>1, <2>1, <2>6
<1>3. ASSUME \A i \in (c + 1)..k : ~LastOn(events, s, k, i)
      PROVE  s \in Replay(E, c, k) <=> s \in E
  <2>1. ASSUME NEW h \in (c + 1)..k, events[h].id = s PROVE FALSE
    <3>1. h \in 1..k
      OBVIOUS
    <3>2. PICK i \in h..k : LastOn(events, s, k, i)
      BY <2>1, <3>1, LastExists
    <3> QED BY <1>3, <3>2
  <2>2. s \notin Touched
    BY <2>1
  <2> HIDE DEF Touched, Final
  <2> QED BY <1>1, <2>2
<1> QED BY <1>2, <1>3

\* What is explicit after k events is what the last event on each says.
LEMMA ExplicitIs ==
    ASSUME NEW log, NEW k \in Nat, NEW s \in Statements
    PROVE  /\ \A i : LastOn(log, s, k, i) =>
                (s \in ExplicitAt(log, k) <=> log[i].after = "explicit")
           /\ (\A i : ~LastOn(log, s, k, i)) => s \notin ExplicitAt(log, k)
<1>1. s \in ExplicitAt(log, k) <=>
        \E i \in 1..k : LastOn(log, s, k, i) /\ log[i].after = "explicit"
  BY DEF ExplicitAt
<1>2. \A i : LastOn(log, s, k, i) => i \in 1..k
  BY DEF LastOn
<1>3. \A i, j : LastOn(log, s, k, i) /\ LastOn(log, s, k, j) => i = j
  BY LastIsOne
<1> QED BY <1>1, <1>2, <1>3

\* Replaying any tail of the log over what was explicit where the tail begins,
\* or later, gives what is explicit at the end.
LEMMA ReplayReaches ==
    ASSUME TypeOK, NEW k \in 0..ChangesHead, NEW j \in 0..k, NEW c \in 0..j
    PROVE  Replay(ExplicitAt(events, j), c, k) = ExplicitAt(events, k)
<1> DEFINE E == ExplicitAt(events, j)
<1>1. events \in Seq(Event) /\ ChangesHead \in Nat /\ ChangesHead = Len(events)
  BY LenProperties DEF TypeOK, ChangesHead
<1>2. k \in Nat /\ j \in Nat /\ c \in Nat /\ c <= j /\ j <= k /\ k <= Len(events) /\ c \in 0..k
  BY <1>1
<1>3. \A s : s \in E \/ s \in ExplicitAt(events, k) => s \in Statements
  BY DEF ExplicitAt
<1>4. \A s \in Replay(E, c, k) : s \in Statements
  <2>1. \A i \in 1..Len(events) : events[i].id \in Statements
    <3>1. \A i \in 1..Len(events) : events[i] \in Event
      BY <1>1
    <3> QED BY <3>1 DEF Event
  <2> QED BY <1>2, <1>3, <2>1 DEF Replay
<1>5. ASSUME NEW s \in Statements PROVE s \in Replay(E, c, k) <=> s \in ExplicitAt(events, k)
  <2>1. CASE \E i \in (c + 1)..k : LastOn(events, s, k, i)
    <3>1. PICK i \in (c + 1)..k : LastOn(events, s, k, i)
      BY <2>1
    <3> HIDE DEF E
    <3>2. s \in Replay(E, c, k) <=> events[i].after = "explicit"
      BY <1>2, <3>1, ReplayIs
    <3>3. s \in ExplicitAt(events, k) <=> events[i].after = "explicit"
      BY <1>2, <3>1, ExplicitIs
    <3> QED BY <3>2, <3>3
  <2>2. CASE \A i \in (c + 1)..k : ~LastOn(events, s, k, i)
    <3>1. s \in Replay(E, c, k) <=> s \in E
      <4> HIDE DEF E
      <4> QED BY <1>2, <2>2, ReplayIs
    <3>2. s \in E <=> s \in ExplicitAt(events, k)
      <4>1. CASE \E i : LastOn(events, s, k, i)
        <5>1. PICK i : LastOn(events, s, k, i)
          BY <4>1
        <5>2. i \in 1..k /\ i \notin (c + 1)..k
          BY <2>2, <5>1 DEF LastOn
        <5>3. i \in 1..j
          BY <1>2, <5>2
        <5>4. LastOn(events, s, j, i)
          BY <1>2, <5>1, <5>3 DEF LastOn
        <5>5. s \in E <=> events[i].after = "explicit"
          BY <1>2, <5>4, ExplicitIs
        <5>6. s \in ExplicitAt(events, k) <=> events[i].after = "explicit"
          BY <1>2, <5>1, ExplicitIs
        <5> QED BY <5>5, <5>6
      <4>2. CASE \A i : ~LastOn(events, s, k, i)
        <5>1. ASSUME NEW i, LastOn(events, s, j, i) PROVE FALSE
          <6>1. i \in 1..k /\ events[i].id = s
            BY <1>2, <5>1 DEF LastOn
          <6>2. PICK x \in i..k : LastOn(events, s, k, x)
            BY <1>2, <6>1, LastExists
          <6> QED BY <4>2, <6>2
        <5>2. s \notin E
          BY <1>2, <5>1, ExplicitIs
        <5>3. s \notin ExplicitAt(events, k)
          BY <1>2, <4>2, ExplicitIs
        <5> QED BY <5>2, <5>3
      <4> QED BY <4>1, <4>2
    <3> QED BY <3>1, <3>2
  <2> QED BY <2>1, <2>2
<1> HIDE DEF E
<1>6. Replay(E, c, k) = ExplicitAt(events, k)
  BY <1>3, <1>4, <1>5
<1> QED BY <1>6 DEF E

\* The whole log gives it from nothing.
LEMMA ReplayWhole ==
    ASSUME TypeOK, NEW k \in 0..ChangesHead
    PROVE  Replay({}, 0, k) = ExplicitAt(events, k)
<1>1. ChangesHead \in Nat /\ 0 \in 0..k /\ 0 \in 0..0
  BY LenProperties DEF TypeOK, ChangesHead
<1>2. ExplicitAt(events, 0) = {}
  BY DEF ExplicitAt
<1>3. Replay(ExplicitAt(events, 0), 0, k) = ExplicitAt(events, k)
  BY <1>1, ReplayReaches
<1> QED BY <1>2, <1>3

\* What the log said stays when it grows.
LEMMA ExplicitStays ==
    ASSUME NEW log, NEW more, NEW k \in Nat, \A i \in 1..k : more[i] = log[i]
    PROVE  ExplicitAt(more, k) = ExplicitAt(log, k)
BY DEF ExplicitAt, LastOn

\* Every row is what the last event on it says; only writers make one explicit.
RowsExplained ==
    /\ \A i \in 1..ChangesHead : events[i].after = "explicit" => events[i].by = "writer"
    /\ \A s \in Statements :
        /\ \A i : LastOn(events, s, ChangesHead, i) => rows[s] = events[i].after
        /\ (\A i \in 1..ChangesHead : events[i].id # s) => rows[s] = "absent"

\* A transaction that logs one event for each row it changes keeps it so.
LEMMA RowsStayExplained ==
    ASSUME TypeOK, RowsExplained, NEW more \in Seq(Event), events' = events \o more,
           \A i, j \in 1..Len(more) : more[i].id = more[j].id => i = j,
           \A i \in 1..Len(more) : /\ rows'[more[i].id] = more[i].after
                                   /\ more[i].after = "explicit" => more[i].by = "writer",
           \A s \in Statements : (\A i \in 1..Len(more) : more[i].id # s) => rows'[s] = rows[s]
    PROVE  /\ RowsExplained'
           /\ Len(events) \in Nat /\ Len(events') \in Nat /\ Len(events) <= Len(events')
           /\ \A i \in 1..Len(events) : events'[i] = events[i]
<1> DEFINE H == Len(events)
           n == Len(more)
           J == Len(events')
<1>1. /\ H \in Nat /\ n \in Nat /\ J = H + n
      /\ \A i \in 1..H : events'[i] = events[i]
      /\ \A i \in 1..n : events'[H + i] = more[i]
  BY Followed DEF TypeOK
<1>2. ASSUME NEW i \in 1..J PROVE i \in 1..H \/ (i - H \in 1..n /\ events'[i] = more[i - H])
  <2>1. CASE i <= H
    BY <1>1, <2>1
  <2>2. CASE i > H
    <3>1. i - H \in 1..n /\ H + (i - H) = i
      BY <1>1, <2>2
    <3> QED BY <1>1, <3>1
  <2> QED BY <1>1, <2>1, <2>2
<1>3. \A i \in 1..n : H + i \in 1..J
  BY <1>1
<1>4. \A i \in 1..H : i \in 1..J
  BY <1>1
<1>5. H = ChangesHead /\ ChangesHead' = J
  BY DEF ChangesHead
<1>6. J \in Nat /\ H <= J
  BY <1>1
<1>7. ASSUME NEW i \in 1..J, events'[i].after = "explicit" PROVE events'[i].by = "writer"
  <2>1. CASE i \in 1..H
    <3>1. events'[i] = events[i]
      BY <1>1, <2>1
    <3> HIDE DEF H, J
    <3> QED BY <1>5, <1>7, <2>1, <3>1 DEF RowsExplained
  <2>2. CASE i - H \in 1..n /\ events'[i] = more[i - H]
    <3> HIDE DEF H, J, n
    <3>1. \A j \in 1..n : more[j].after = "explicit" => more[j].by = "writer"
      BY DEF n
    <3> QED BY <1>7, <2>2, <3>1
  <2> QED BY <1>2, <2>1, <2>2
<1>8. ASSUME NEW s \in Statements, NEW i, LastOn(events', s, J, i) PROVE rows'[s] = events'[i].after
  <2>1. i \in 1..J /\ events'[i].id = s /\ \A j \in (i + 1)..J : events'[j].id # s
    BY <1>8 DEF LastOn
  <2>2. CASE i \in 1..H
    <3>1. \A j \in 1..n : more[j].id # s
      <4>1. \A j \in 1..n : H + j \in (i + 1)..J
        BY <1>1, <2>2
      <4> HIDE DEF H, J, n
      <4>2. ASSUME NEW j \in 1..n PROVE more[j].id # s
        <5>1. H + j \in (i + 1)..J /\ events'[H + j] = more[j]
          BY <1>1, <4>1
        <5>2. PICK x : x = H + j
          OBVIOUS
        <5>3. events'[x].id # s
          BY <2>1, <5>1, <5>2
        <5> QED BY <5>1, <5>2, <5>3
      <4> QED BY <4>2
    <3>2. \A j \in (i + 1)..H : events[j].id # s
      <4>1. \A j \in (i + 1)..H : j \in (i + 1)..J /\ j \in 1..H
        BY <1>1, <2>2
      <4> QED BY <1>1, <2>1, <4>1
    <3>3. LastOn(events, s, H, i)
      BY <1>1, <2>1, <2>2, <3>2 DEF LastOn
    <3>4. rows[s] = events[i].after
      BY <1>5, <3>3 DEF RowsExplained
    <3> QED BY <1>1, <2>2, <3>1, <3>4
  <2>3. CASE i \notin 1..H
    <3>1. i - H \in 1..n /\ events'[i] = more[i - H]
      BY <1>2, <2>1, <2>3
    <3> QED BY <2>1, <3>1
  <2> QED BY <2>2, <2>3
<1>9. ASSUME NEW s \in Statements, \A i \in 1..J : events'[i].id # s PROVE rows'[s] = "absent"
  <2>1. \A i \in 1..n : more[i].id # s
    BY <1>1, <1>3, <1>9
  <2>2. \A i \in 1..H : events[i].id # s
    BY <1>1, <1>4, <1>9
  <2>3. rows[s] = "absent"
    BY <1>5, <2>2 DEF RowsExplained
  <2> QED BY <2>1, <2>3
<1> HIDE DEF J, H
<1>10. RowsExplained'
  BY <1>5, <1>7, <1>8, <1>9 DEF RowsExplained
<1> QED BY <1>1, <1>6, <1>10 DEF H, J

\* What is stored as explicit is what the log says.
LEMMA ExplicitStored ==
    ASSUME TypeOK, RowsExplained
    PROVE  StatementsIn("explicit") = ExplicitAt(events, ChangesHead)
<1>1. ChangesHead \in Nat
  BY LenProperties DEF TypeOK, ChangesHead
<1>2. ASSUME NEW s \in Statements
      PROVE  rows[s] = "explicit" <=> s \in ExplicitAt(events, ChangesHead)
  <2>1. CASE \E i : LastOn(events, s, ChangesHead, i)
    <3>1. PICK i : LastOn(events, s, ChangesHead, i)
      BY <2>1
    <3>2. rows[s] = events[i].after
      BY <3>1 DEF RowsExplained
    <3>3. s \in ExplicitAt(events, ChangesHead) <=> events[i].after = "explicit"
      BY <1>1, <3>1, ExplicitIs
    <3> QED BY <3>2, <3>3
  <2>2. CASE \A i : ~LastOn(events, s, ChangesHead, i)
    <3>1. s \notin ExplicitAt(events, ChangesHead)
      BY <1>1, <2>2, ExplicitIs
    <3>2. ASSUME NEW h \in 1..ChangesHead, events[h].id = s PROVE FALSE
      <4>1. \E i \in h..ChangesHead : LastOn(events, s, ChangesHead, i)
        BY <1>1, <3>2, LastExists
      <4> QED BY <2>2, <4>1
    <3>3. rows[s] = "absent"
      BY <3>2 DEF RowsExplained
    <3> QED BY <3>1, <3>3
  <2> QED BY <2>1, <2>2
<1>3. ExplicitAt(events, ChangesHead) \subseteq Statements
  BY DEF ExplicitAt
<1> QED BY <1>2, <1>3 DEF StatementsIn

\* What the steps of writers and maintainers do to the log.
LEMMA WriterLogs ==
    ASSUME TypeOK, RowsExplained, NEW s \in Statements, UpsertTriple(s) \/ DeleteTriple(s)
    PROVE  /\ RowsExplained'
           /\ Len(events) \in Nat /\ Len(events') \in Nat /\ Len(events) <= Len(events')
           /\ \A i \in 1..Len(events) : events'[i] = events[i]
<1>0. events \in Seq(Event)
  BY DEF TypeOK
<1>1. PICK state \in {"explicit", "absent"} : WriteRow(s, state)
  BY DEF UpsertTriple, DeleteTriple
<1> DEFINE e == [id |-> s, after |-> state, by |-> "writer"]
           more == <<e>>
<1>2. e \in Event /\ events' = Append(events, e)
  BY <1>1 DEF Event, RowStates, WriteRow
<1>3. more \in Seq(Event) /\ Len(more) = 1 /\ more[1] = e /\ events' = events \o more
  BY <1>0, <1>2
<1>4. rows' = [rows EXCEPT ![s] = state] /\ rows \in [Statements -> RowStates]
  BY <1>1 DEF WriteRow, TypeOK
<1> HIDE DEF more
<1>5. \A i, j \in 1..Len(more) : more[i].id = more[j].id => i = j
  BY <1>3
<1>6. \A i \in 1..Len(more) : /\ rows'[more[i].id] = more[i].after
                              /\ more[i].after = "explicit" => more[i].by = "writer"
  BY <1>3, <1>4
<1>7. \A o \in Statements : (\A i \in 1..Len(more) : more[i].id # o) => rows'[o] = rows[o]
  BY <1>3, <1>4
<1> QED BY <1>3, <1>5, <1>6, <1>7, RowsStayExplained

\* The rows a maintainer changes are explained by the events it logs.
LEMMA MaintainerLogs ==
    ASSUME TypeOK, RowsExplained, NEW m \in Maintainers, rows' = Over(Changes(m), rows),
           events' = events \o LogOf(Changes(m))
    PROVE  /\ RowsExplained'
           /\ Len(events) \in Nat /\ Len(events') \in Nat /\ Len(events) <= Len(events')
           /\ \A i \in 1..Len(events) : events'[i] = events[i]
<1> DEFINE c == Changes(m)
           more == LogOf(c)
<1>1. IsChange(c) /\ \A s \in DOMAIN c : c[s] # "explicit"
  BY ChangesAre DEF IsChange
<1>2. IsFiniteSet(DOMAIN c)
  <2>1. DOMAIN c \in SUBSET Statements
    BY <1>1 DEF IsChange
  <2> QED BY <2>1, InferenceMaintenanceAssumption, FS_Subset
<1>3. rows' = Over(c, rows) /\ events' = events \o more
  OBVIOUS
<1> HIDE DEF c
<1>4. /\ more \in Seq(Event)
      /\ \A i \in 1..Len(more) : more[i].id \in DOMAIN c /\ more[i].after = c[more[i].id]
      /\ \A i, j \in 1..Len(more) : more[i].id = more[j].id => i = j
      /\ \A s \in DOMAIN c : \E i \in 1..Len(more) : more[i].id = s
  BY <1>1, <1>2, Logged DEF IsChange
<1>5. \A s \in Statements : rows'[s] = IF s \in DOMAIN c THEN c[s] ELSE rows[s]
  BY <1>3 DEF Over, TypeOK
<1> HIDE DEF more
<1>6. \A i \in 1..Len(more) : /\ rows'[more[i].id] = more[i].after
                              /\ more[i].after = "explicit" => more[i].by = "writer"
  BY <1>1, <1>4, <1>5 DEF IsChange
<1>7. \A s \in Statements : (\A i \in 1..Len(more) : more[i].id # s) => rows'[s] = rows[s]
  BY <1>4, <1>5
<1> QED BY <1>3, <1>4, <1>6, <1>7, RowsStayExplained

-----------------------------------------------------------------------------
(* The stored inferences and the stored watermark *)

\* The inferred rows are those of P, explicit rows aside.
StoredIn(table, P) ==
    \A s \in Statements : table[s] # "explicit" => (table[s] = "inferred" <=> s \in P)

\* What a diff is to leave in the store, and that it would.
Wanted(r) == IF r.pc = "persistLeftovers" THEN {} ELSE Derived(r.explicit)

WouldStore(table, r) ==
    \A s \in Statements : table[s] # "explicit" =>
        (s \in Wanted(r) <=> \/ table[s] = "inferred" /\ s \notin r.deletes
                             \/ table[s] = "absent" /\ s \in r.upserts)

\* What a maintainer remembers was so at an event not before the one it would
\* put down as its watermark.
Knows(log, r) ==
    /\ r.pc = "observe" => r.state = "nil"
    /\ r.pc = "lease" => r.state # "dormant"
    /\ r.pc \in Baseline \cup {"head"} => r.state = "nil"
    /\ r.pc = "flush" => r.state = "active"
    /\ r.pc \in {"leftovers", "persistLeftovers"} =>
          \E k \in r.head..Len(log) : ExplicitAt(log, k) \cap Vocabulary = {}
    /\ r.pc \in {"inferred", "persistBaseline", "persist"} =>
          \E k \in r.head..Len(log) : r.explicit = ExplicitAt(log, k)
    /\ r.state = "active" /\ r.pc # "persist" =>
          /\ \E k \in r.cursor..Len(log) : r.explicit = ExplicitAt(log, k)
          /\ r.persisted = Derived(r.explicit)

\* What the holder of the lease remembers of the store is still so.
Holds(table, r) ==
    /\ r.pc \in {"persist", "persistBaseline", "persistLeftovers"} => WouldStore(table, r)
    /\ r.state = "active" /\ r.pc # "persist" => StoredIn(table, r.persisted)

\* The stored inferences are those of an event not before the stored watermark.
Describes(table, log, n) == \E k \in n..Len(log) : StoredIn(table, Derived(ExplicitAt(log, k)))

\* Writers delete only statements the rules do not derive.
DeletesAsserted ==
    \A s \in Settings, E \in SUBSET Statements : Derived(E) \cap s.retracted = {}

NeverInferred == \A s \in setting.retracted : rows[s] # "inferred"

KnowsInv == \A m \in Maintainers : Knows(events, mt[m]) /\ mt[m].upserts \cap setting.retracted = {}

HoldsInv == \A m \in Maintainers : lease.holder = m => Holds(rows, mt[m])

SoundInv ==
    "refresh" \notin setting.may =>
        /\ RowsExplained
        /\ NeverInferred
        /\ KnowsInv
        /\ ~stale => Describes(rows, events, lease.applied) /\ HoldsInv

\* What was known stays known as the log goes on.
LEMMA KnownStays ==
    ASSUME NEW log, NEW more, NEW r, Len(log) \in Nat, Len(more) \in Nat, Len(log) <= Len(more),
           \A i \in 1..Len(log) : more[i] = log[i], r.head \in Nat, r.cursor \in Nat, Knows(log, r)
    PROVE  Knows(more, r)
<1>1. \A a \in Nat : \A k \in a..Len(log) : k \in a..Len(more) /\ k \in Nat /\ k <= Len(log)
  OBVIOUS
<1>2. \A k \in Nat : k <= Len(log) => ExplicitAt(more, k) = ExplicitAt(log, k)
  <2>1. ASSUME NEW k \in Nat, k <= Len(log) PROVE ExplicitAt(more, k) = ExplicitAt(log, k)
    <3>1. \A i \in 1..k : more[i] = log[i]
      BY <2>1
    <3> QED BY <3>1, ExplicitStays
  <2> QED BY <2>1
<1> QED BY <1>1, <1>2 DEF Knows

\* What an event described it describes in a longer log.
LEMMA DescribesStays ==
    ASSUME NEW table, NEW log, NEW more, NEW n \in Nat, Len(log) \in Nat, Len(more) \in Nat,
           Len(log) <= Len(more), \A i \in 1..Len(log) : more[i] = log[i], Describes(table, log, n)
    PROVE  Describes(table, more, n)
<1>1. PICK k \in n..Len(log) : StoredIn(table, Derived(ExplicitAt(log, k)))
  BY DEF Describes
<1>2. k \in Nat /\ k \in n..Len(more) /\ \A i \in 1..k : more[i] = log[i]
  BY <1>1
<1>3. ExplicitAt(more, k) = ExplicitAt(log, k)
  BY <1>2, ExplicitStays
<1> QED BY <1>1, <1>2, <1>3 DEF Describes

\* What holds of the rows holds after a writer's change to one of them.
LEMMA WriterSpares ==
    ASSUME TypeOK, DeletesAsserted, NEW s \in Statements, NEW P, NEW r \in Memory,
           \/ rows' = [rows EXCEPT ![s] = "explicit"]
           \/ rows' = [rows EXCEPT ![s] = "absent"] /\ s \in setting.retracted
    PROVE  /\ StoredIn(rows, Derived(P)) /\ P \subseteq Statements => StoredIn(rows', Derived(P))
           /\ WouldStore(rows, r) /\ r.upserts \cap setting.retracted = {} => WouldStore(rows', r)
           /\ NeverInferred => \A o \in setting.retracted : rows'[o] # "inferred"
<1>1. /\ rows \in [Statements -> RowStates] /\ setting \in Settings
      /\ setting.retracted \subseteq Statements
  BY InferenceMaintenanceAssumption DEF TypeOK
<1>2. \A E \in SUBSET Statements : Derived(E) \cap setting.retracted = {}
  BY <1>1 DEF DeletesAsserted
<1>3. CASE rows' = [rows EXCEPT ![s] = "explicit"]
  <2>1. \A o \in Statements : rows'[o] # "explicit" => rows'[o] = rows[o]
    BY <1>1, <1>3
  <2>2. \A o \in setting.retracted : rows'[o] = "inferred" => rows[o] = "inferred"
    BY <1>1, <1>3
  <2> QED BY <2>1, <2>2 DEF StoredIn, WouldStore, NeverInferred
<1>4. CASE rows' = [rows EXCEPT ![s] = "absent"] /\ s \in setting.retracted
  <2>1. rows'[s] = "absent" /\ \A o \in Statements : o # s => rows'[o] = rows[o]
    BY <1>1, <1>4
  <2>2. P \subseteq Statements => s \notin Derived(P)
    <3>1. P \subseteq Statements => P \in SUBSET Statements
      OBVIOUS
    <3> QED BY <1>2, <1>4, <3>1
  <2>3. s \notin Wanted(r)
    <3>1. r.explicit \in SUBSET Statements
      BY DEF Memory
    <3> QED BY <1>2, <1>4, <3>1 DEF Wanted
  <2>4. r.upserts \cap setting.retracted = {} => s \notin r.upserts
    BY <1>4
  <2>5. StoredIn(rows, Derived(P)) /\ P \subseteq Statements => StoredIn(rows', Derived(P))
    BY <2>1, <2>2 DEF StoredIn
  <2>6. WouldStore(rows, r) /\ r.upserts \cap setting.retracted = {} => WouldStore(rows', r)
    BY <2>1, <2>3, <2>4 DEF WouldStore
  <2>7. NeverInferred => \A o \in setting.retracted : rows'[o] # "inferred"
    BY <1>1, <2>1 DEF NeverInferred
  <2> QED BY <2>5, <2>6, <2>7
<1> QED BY <1>3, <1>4

\* Steps that leave what is remembered of the store alone, or forget it.
LEMMA Carried ==
    ASSUME NEW log, NEW table, NEW r, NEW q, Knows(log, r), r.pc # "persist",
           q.state = r.state, q.cursor = r.cursor, q.explicit = r.explicit, q.persisted = r.persisted,
           q.pc \in {"idle", "observe", "lease", "head", "vocabulary", "explicit", "read", "flush"},
           q.pc = "observe" => q.state = "nil",
           q.pc = "lease" => q.state # "dormant",
           q.pc \in {"head", "vocabulary", "explicit"} => q.state = "nil",
           q.pc = "flush" => q.state = "active"
    PROVE  Knows(log, q) /\ (Holds(table, r) => Holds(table, q))
<1>1. q.pc \notin {"leftovers", "persistLeftovers", "inferred", "persistBaseline", "persist"}
  OBVIOUS
<1> QED BY <1>1 DEF Knows, Holds, Baseline

\* A maintainer that starts over has nothing to be wrong about.
LEMMA Forgotten ==
    ASSUME NEW log, NEW table, NEW q, q.state # "active",
           q.pc \in {"idle", "read", "release", "releaseThenRead", "refreshRead", "refreshWrite"}
    PROVE  Knows(log, q) /\ Holds(table, q)
BY DEF Knows, Holds, Baseline

\* What a step that changes no row is to leave of m's memory.
StepKeeps(m) ==
    LET q == mt'[m] IN
    /\ Knows(events, q) /\ q.upserts \cap setting.retracted = {}
    /\ lease'.holder = m /\ ~stale' /\ (lease.holder = m => Holds(rows, mt[m])) => Holds(rows, q)

\* Looking at the store, the lease and its release.
LEMMA LoopKeeps ==
    ASSUME TypeOK, KnowsInv, NEW m \in Maintainers,
           Begin(m) \/ Observe(m) \/ HoldLease(m) \/ ReleaseLease(m) \/ SkipFlush(m)
           \/ FlushWatermark(m) \/ BaselineHead(m)
    PROVE  StepKeeps(m)
<1> DEFINE r == mt[m]
           q == mt'[m]
           Same == /\ q.state = r.state /\ q.cursor = r.cursor /\ q.explicit = r.explicit
                   /\ q.persisted = r.persisted /\ q.upserts = r.upserts
<1>1. /\ r \in Memory /\ mt \in [Maintainers -> Memory] /\ m \notin {Nobody, Dead}
      /\ lease \in LeaseRow
  BY MemoryFields, InferenceMaintenanceAssumption DEF TypeOK, LeaseRow
<1>2. \A x : Set(m, x) => q = x
  BY <1>1 DEF Set
<1>3. Knows(events, r) /\ r.upserts \cap setting.retracted = {}
  BY DEF KnowsInv
<1>4. CASE Begin(m)
  <2>1. r.pc = "idle" /\ Same /\ lease' = lease
    BY <1>1, <1>2, <1>4, ZenonT(30) DEF Begin, Memory
  <2>2. \/ q.pc = "observe" /\ q.state = "nil"
        \/ q.pc = "lease" /\ q.state \in {"nil", "active"}
        \/ q.pc = "read"
    BY <1>1, <1>2, <1>4 DEF Begin, Memory
  <2> HIDE DEF q, r
  <2>3. Knows(events, q) /\ (Holds(rows, r) => Holds(rows, q))
    BY <1>3, <2>1, <2>2, Carried
  <2> QED BY <1>3, <2>1, <2>3 DEF StepKeeps, q, r
<1>5. CASE Observe(m)
  <2>1. r.pc = "observe" /\ r.state = "nil" /\ lease' = lease
    BY <1>3, <1>5 DEF Observe, Knows
  <2>2. \/ q.pc = "lease" /\ Same
        \/ q.pc = "read" /\ q.state = "dormant" /\ q.upserts = r.upserts
    BY <1>1, <1>2, <1>5, ZenonT(30) DEF Observe, Memory
  <2> HIDE DEF q, r
  <2>3. CASE q.pc = "lease" /\ Same
    <3>1. Knows(events, q) /\ (Holds(rows, r) => Holds(rows, q))
      BY <1>3, <2>1, <2>3, Carried
    <3> QED BY <1>3, <2>1, <2>3, <3>1 DEF StepKeeps, q, r
  <2>4. CASE q.pc = "read" /\ q.state = "dormant" /\ q.upserts = r.upserts
    <3>1. Knows(events, q) /\ Holds(rows, q)
      BY <2>4, Forgotten
    <3> QED BY <1>3, <2>4, <3>1 DEF StepKeeps, q, r
  <2> QED BY <2>2, <2>3, <2>4
<1>6. CASE HoldLease(m)
  <2>1. r.pc = "lease" /\ r.state # "dormant" /\ r.state \in {"nil", "dormant", "active"}
    BY <1>1, <1>3, <1>6 DEF HoldLease, Knows, Memory
  <2>2. \/ q.pc = "idle" /\ q.state = "nil" /\ q.upserts = r.upserts
        \/ /\ Same /\ q.pc = IF r.state = "active" THEN "read" ELSE "head"
           /\ lease.holder = m \/ lease' = lease \/ (stale' \/ r.state # "active")
    <3>1. CASE FreshlyRenewed(m)
      <4>1. Set(m, [r EXCEPT !.pc = AfterLease(m)]) /\ lease' = lease
        BY <1>6, <3>1 DEF HoldLease
      <4> QED BY <1>1, <1>2, <4>1 DEF AfterLease, Memory
    <3>2. CASE ~FreshlyRenewed(m) /\ MayTakeLease(m)
      <4>1. /\ Set(m, [r EXCEPT !.pc = AfterLease(m), !.holding = TRUE, !.renewed = now])
            /\ stale' = (stale \/ (r.state = "active" /\ lease.holder # m))
        BY <1>6, <3>2 DEF HoldLease
      <4>2. lease.holder = m \/ stale' \/ r.state # "active"
        BY <4>1
      <4>3. q = [r EXCEPT !.pc = AfterLease(m), !.holding = TRUE, !.renewed = now]
        BY <1>2, <4>1
      <4>4. Same
        BY <1>1, <4>3, ZenonT(30) DEF Memory
      <4>5. q.pc = AfterLease(m)
        BY <1>1, <4>3, ZenonT(30) DEF Memory
      <4> QED BY <4>2, <4>4, <4>5 DEF AfterLease
    <3>3. CASE ~FreshlyRenewed(m) /\ ~MayTakeLease(m)
      <4>1. Set(m, AskForLease([r EXCEPT !.holding = FALSE]))
        BY <1>6, <3>3 DEF HoldLease
      <4>2. q = [[r EXCEPT !.holding = FALSE] EXCEPT !.pc = "idle", !.state = "nil",
                                                     !.wantLease = TRUE]
        BY <1>2, <4>1 DEF AskForLease
      <4>3. q.pc = "idle" /\ q.state = "nil"
        BY <1>1, <4>2, ZenonT(30) DEF Memory
      <4>4. q.upserts = r.upserts
        BY <1>1, <4>2, ZenonT(30) DEF Memory
      <4> QED BY <4>3, <4>4
    <3> QED BY <3>1, <3>2, <3>3
  <2> HIDE DEF q, r
  <2>3. CASE q.pc = "idle" /\ q.state = "nil" /\ q.upserts = r.upserts
    <3>1. Knows(events, q) /\ Holds(rows, q)
      BY <2>3, Forgotten
    <3> QED BY <1>3, <2>3, <3>1 DEF StepKeeps, q, r
  <2>4. CASE /\ Same /\ q.pc = IF r.state = "active" THEN "read" ELSE "head"
             /\ lease.holder = m \/ lease' = lease \/ (stale' \/ r.state # "active")
    <3>1. Knows(events, q) /\ (Holds(rows, r) => Holds(rows, q))
      BY <1>3, <2>1, <2>4, Carried
    <3>2. r.state # "active" => Holds(rows, q)
      BY <2>1, <2>4 DEF Holds
    <3> QED BY <1>3, <2>4, <3>1, <3>2 DEF StepKeeps, q, r
  <2> QED BY <2>2, <2>3, <2>4
<1>7. CASE ReleaseLease(m) \/ SkipFlush(m) \/ FlushWatermark(m) \/ BaselineHead(m)
  <2>1. lease'.holder = m => lease.holder = m
    BY <1>1, <1>7 DEF ReleaseLease, SkipFlush, FlushWatermark, BaselineHead, LeaseRow
  <2>2. r.pc \in {"release", "releaseThenRead", "flush", "head"}
    BY <1>7 DEF ReleaseLease, SkipFlush, FlushWatermark, BaselineHead
  <2>3. \/ Same /\ q.pc \in {"idle", "read"}
        \/ q.state = "nil" /\ q.pc = "idle" /\ q.upserts = r.upserts
        \/ Same /\ r.pc = "head" /\ q.pc = "vocabulary"
    <3>1. ReleaseLease(m) => Same /\ q.pc \in {"idle", "read"}
      BY <1>1, <1>2, ZenonT(30) DEF ReleaseLease, Memory
    <3>2. SkipFlush(m) => Same /\ q.pc = "idle"
      BY <1>1, <1>2 DEF SkipFlush, Memory
    <3>3. BaselineHead(m) => Same /\ r.pc = "head" /\ q.pc = "vocabulary"
      BY <1>1, <1>2 DEF BaselineHead, Memory
    <3>4. FlushWatermark(m) => \/ Same /\ q.pc = "idle"
                               \/ q.state = "nil" /\ q.pc = "idle" /\ q.upserts = r.upserts
      <4>1. FlushWatermark(m) => \/ Set(m, [r EXCEPT !.pc = "idle", !.flushed = r.cursor])
                                 \/ Set(m, AskForLease([r EXCEPT !.holding = FALSE]))
        BY DEF FlushWatermark
      <4>2. Set(m, [r EXCEPT !.pc = "idle", !.flushed = r.cursor]) => Same /\ q.pc = "idle"
        BY <1>1, <1>2 DEF Memory
      <4>3. Set(m, AskForLease([r EXCEPT !.holding = FALSE])) =>
               q.state = "nil" /\ q.pc = "idle" /\ q.upserts = r.upserts
        BY <1>1, <1>2, ZenonT(30) DEF AskForLease, Memory
      <4> QED BY <4>1, <4>2, <4>3
    <3> QED BY <1>7, <3>1, <3>2, <3>3, <3>4
  <2> HIDE DEF q, r
  <2>4. CASE q.state = "nil" /\ q.pc = "idle" /\ q.upserts = r.upserts
    <3>1. Knows(events, q) /\ Holds(rows, q)
      BY <2>4, Forgotten
    <3> QED BY <1>3, <2>4, <3>1 DEF StepKeeps, q, r
  <2>5. CASE Same /\ (q.pc \in {"idle", "read"} \/ (r.pc = "head" /\ q.pc = "vocabulary"))
    <3>1. r.pc = "head" => r.state = "nil"
      BY <1>3 DEF Knows
    <3>2. Knows(events, q) /\ (Holds(rows, r) => Holds(rows, q))
      BY <1>3, <2>2, <2>5, <3>1, Carried
    <3> QED BY <1>3, <2>1, <2>5, <3>2 DEF StepKeeps, q, r
  <2> QED BY <2>3, <2>4, <2>5
<1> QED BY <1>4, <1>5, <1>6, <1>7

\* The statements of a baseline.
LEMMA BaselineKeeps ==
    ASSUME TypeOK, RowsExplained, KnowsInv, DeletesAsserted, NEW m \in Maintainers,
           BaselineVocabulary(m) \/ BaselineLeftovers(m) \/ BaselineExplicit(m) \/ BaselineInferred(m)
    PROVE  StepKeeps(m)
<1> DEFINE r == mt[m]
           q == mt'[m]
           H == Len(events)
           X == ExplicitAt(events, H)
           R == setting.retracted
<1>1. /\ r \in Memory /\ mt \in [Maintainers -> Memory] /\ r.head \in 0..H /\ H \in Nat
      /\ r.explicit \subseteq Statements
  BY MemoryFields DEF TypeOK, ChangesHead
<1>2. \A x : Set(m, x) => q = x
  BY <1>1 DEF Set
<1>3. Knows(events, r) /\ r.upserts \cap R = {}
  BY DEF KnowsInv
<1>4. StatementsIn("explicit") = X /\ H \in r.head..H
  BY <1>1, ExplicitStored DEF ChangesHead
<1>5. lease' = lease /\ r.state = "nil"
  BY <1>3 DEF BaselineVocabulary, BaselineLeftovers, BaselineExplicit, BaselineInferred, Knows, Baseline
<1>6. \A E \in SUBSET Statements : Derived(E) \cap R = {} /\ (E \cap Vocabulary = {} => Derived(E) = {})
  BY InferenceMaintenanceAssumption DEF TypeOK, DeletesAsserted
<1>7. \A k : ExplicitAt(events, k) \in SUBSET Statements
  BY DEF ExplicitAt
<1>8. CASE BaselineVocabulary(m)
  <2>1. /\ q.state = "nil" /\ q.upserts = r.upserts /\ q.head = r.head
        /\ q.pc = IF HasVocabulary THEN "explicit" ELSE "leftovers"
    BY <1>1, <1>2, <1>5, <1>8 DEF BaselineVocabulary, Memory
  <2>2. ~HasVocabulary => X \cap Vocabulary = {}
    BY <1>4 DEF HasVocabulary
  <2> HIDE DEF q, r, X
  <2>3. q.pc = "leftovers" => \E k \in q.head..H : ExplicitAt(events, k) \cap Vocabulary = {}
    BY <1>4, <2>1, <2>2 DEF X
  <2>4. Knows(events, q) /\ Holds(rows, q)
    BY <2>1, <2>3 DEF Knows, Holds, Baseline
  <2> QED BY <1>3, <2>1, <2>4 DEF StepKeeps, q, r
<1>9. CASE BaselineLeftovers(m)
  <2>1. /\ q.state = "nil" /\ q.upserts = {} /\ q.head = r.head /\ q.pc = "persistLeftovers"
        /\ q.deletes = StatementsIn("inferred") /\ r.pc = "leftovers"
    BY <1>1, <1>2, <1>5, <1>9 DEF BaselineLeftovers, Memory
  <2> HIDE DEF q, r
  <2>2. PICK k \in r.head..H : ExplicitAt(events, k) \cap Vocabulary = {}
    BY <1>3, <2>1 DEF Knows
  <2>4. Knows(events, q)
    BY <2>1, <2>2 DEF Knows, Baseline
  <2>5. WouldStore(rows, q)
    BY <2>1 DEF WouldStore, Wanted, StatementsIn
  <2>6. Holds(rows, q)
    BY <2>1, <2>5 DEF Holds
  <2> QED BY <2>1, <2>4, <2>6 DEF StepKeeps, q
<1>10. CASE BaselineExplicit(m)
  <2>1. /\ q.state = "nil" /\ q.upserts = r.upserts /\ q.head = r.head /\ q.pc = "inferred"
        /\ q.explicit = X
    BY <1>1, <1>2, <1>4, <1>5, <1>10 DEF BaselineExplicit, Memory
  <2> HIDE DEF q, r, X
  <2>2. \E k \in q.head..H : q.explicit = ExplicitAt(events, k)
    BY <1>4, <2>1 DEF X
  <2>3. Knows(events, q) /\ Holds(rows, q)
    BY <2>1, <2>2 DEF Knows, Holds, Baseline
  <2> QED BY <1>3, <2>1, <2>3 DEF StepKeeps, q, r
<1>11. CASE BaselineInferred(m)
  <2>1. /\ q.state = "nil" /\ q.head = r.head /\ q.pc = "persistBaseline" /\ q.explicit = r.explicit
        /\ q.upserts = Derived(r.explicit) \ StatementsIn("inferred")
        /\ q.deletes = StatementsIn("inferred") \ Derived(r.explicit)
        /\ r.pc = "inferred"
    BY <1>1, <1>2, <1>5, <1>11 DEF BaselineInferred, Memory
  <2>2. r.explicit \in SUBSET Statements
    BY <1>1
  <2> HIDE DEF q, r
  <2>3. PICK k \in r.head..H : r.explicit = ExplicitAt(events, k)
    BY <1>3, <2>1 DEF Knows
  <2>4. Knows(events, q)
    BY <2>1, <2>3 DEF Knows, Baseline
  <2>5. WouldStore(rows, q)
    <3>1. \A s \in Statements : rows[s] \in {"absent", "explicit", "inferred"}
      BY DEF TypeOK, RowStates
    <3>2. Wanted(q) = Derived(r.explicit)
      BY <2>1 DEF Wanted
    <3>3. \A s \in Statements : s \in StatementsIn("inferred") <=> rows[s] = "inferred"
      BY DEF StatementsIn
    <3> QED BY <2>1, <3>1, <3>2, <3>3 DEF WouldStore
  <2>6. Holds(rows, q)
    BY <2>1, <2>5 DEF Holds
  <2>7. q.upserts \cap R = {}
    BY <1>6, <2>1, <2>2
  <2> QED BY <2>4, <2>6, <2>7 DEF StepKeeps, q
<1> QED BY <1>8, <1>9, <1>10, <1>11

\* A batch read gives the next diff, or nothing to do.
LEMMA ReadKeeps ==
    ASSUME TypeOK, KnowsInv, DeletesAsserted, NEW m \in Maintainers, ReadEvents(m)
    PROVE  StepKeeps(m)
<1> DEFINE r == mt[m]
           q == mt'[m]
           H == Len(events)
           X == ExplicitAt(events, H)
           R == setting.retracted
<1>1. /\ r \in Memory /\ mt \in [Maintainers -> Memory] /\ r.cursor \in 0..H /\ H \in Nat
      /\ pruned \in 0..H /\ ChangesHead = H /\ H \in 0..H
  BY MemoryFields DEF TypeOK, ChangesHead
<1>2. \A x : Set(m, x) => q = x
  BY <1>1 DEF Set
<1>3. Knows(events, r) /\ r.upserts \cap R = {} /\ r.pc = "read" /\ lease' = lease
  BY DEF KnowsInv, ReadEvents
<1>4. \A E \in SUBSET Statements : Derived(E) \cap R = {}
  BY DEF TypeOK, DeletesAsserted
<1>5. CASE Overtaken(m)
  <2>1. q.state = "nil" /\ q.pc = "idle" /\ q.upserts = r.upserts
    BY <1>1, <1>2, <1>5, ZenonT(30) DEF ReadEvents, LookAgain, Memory
  <2> HIDE DEF q, r
  <2>2. Knows(events, q) /\ Holds(rows, q)
    BY <2>1, Forgotten
  <2> QED BY <1>3, <2>1, <2>2 DEF StepKeeps, q, r
<1>6. CASE ~Overtaken(m) /\ r.cursor = H
  <2>1. /\ q.state = r.state /\ q.cursor = r.cursor /\ q.explicit = r.explicit
        /\ q.persisted = r.persisted /\ q.upserts = r.upserts
        /\ q.pc = "idle" \/ (q.pc = "flush" /\ q.state = "active")
    BY <1>1, <1>2, <1>6 DEF ReadEvents, Memory
  <2> HIDE DEF q, r
  <2>2. Knows(events, q) /\ (Holds(rows, r) => Holds(rows, q))
    BY <1>3, <2>1, Carried
  <2> QED BY <1>3, <2>1, <2>2 DEF StepKeeps, q, r
<1>7. CASE ~Overtaken(m) /\ r.cursor < H /\ r.state = "dormant"
  <2>1. q.state # "active" /\ q.pc = "idle" /\ q.upserts = r.upserts
    <3>1. \/ Set(m, AskForLease(r))
          \/ Set(m, [r EXCEPT !.pc = "idle", !.cursor = H, !.applied = Later(r.applied, H)])
      BY <1>1, <1>7 DEF ReadEvents
    <3>2. CASE Set(m, AskForLease(r))
      <4>1. q = [r EXCEPT !.pc = "idle", !.state = "nil", !.wantLease = TRUE]
        BY <1>2, <3>2 DEF AskForLease
      <4> QED BY <1>1, <4>1, ZenonT(30) DEF Memory
    <3>3. CASE Set(m, [r EXCEPT !.pc = "idle", !.cursor = H, !.applied = Later(r.applied, H)])
      <4>1. q = [r EXCEPT !.pc = "idle", !.cursor = H, !.applied = Later(r.applied, H)]
        BY <1>2, <3>3
      <4> QED BY <1>1, <1>7, <4>1, ZenonT(30) DEF Memory
    <3> QED BY <3>1, <3>2, <3>3
  <2> HIDE DEF q, r
  <2>2. Knows(events, q) /\ Holds(rows, q)
    BY <2>1, Forgotten
  <2> QED BY <1>3, <2>1, <2>2 DEF StepKeeps, q, r
<1>8. CASE ~Overtaken(m) /\ r.cursor < H /\ r.state = "active"
  <2> DEFINE E == Replay(r.explicit, ReadFrom(m), H)
             D == Derived(E)
  <2>1. PICK k \in r.cursor..H : r.explicit = ExplicitAt(events, k)
    BY <1>3, <1>8 DEF Knows
  <2>2. E = X
    <3>1. ReadFrom(m) = r.cursor
      BY <1>1, <1>8 DEF ReadFrom, Later, Overtaken
    <3>2. r.cursor \in 0..k /\ k \in 0..H
      BY <1>1, <2>1
    <3>3. Replay(ExplicitAt(events, k), r.cursor, H) = X
      BY <1>1, <3>2, ReplayReaches
    <3> QED BY <2>1, <3>1, <3>3
  <2>3. X \in SUBSET Statements /\ Derived(X) \cap R = {}
    BY <1>4 DEF ExplicitAt
  <2>4. r.persisted = Derived(r.explicit)
    BY <1>3, <1>8 DEF Knows
  <2>5. \/ Set(m, [r EXCEPT !.pc = "idle", !.explicit = E, !.cursor = H, !.applied = Later(r.applied, H)])
           /\ D = r.persisted
        \/ Set(m, [r EXCEPT !.pc = "persist", !.explicit = E, !.head = H,
                            !.upserts = D \ r.persisted, !.deletes = r.persisted \ D])
    <3> HIDE DEF r
    <3>1. (D \ r.persisted) \cup (r.persisted \ D) = {} => D = r.persisted
      BY Zenon
    <3>2. \/ Set(m, [mt[m] EXCEPT !.pc = "idle", !.explicit = E, !.cursor = H, !.applied = Later(mt[m].applied, H)])
             /\ (D \ mt[m].persisted) \cup (mt[m].persisted \ D) = {}
          \/ Set(m, [mt[m] EXCEPT !.pc = "persist", !.explicit = E, !.head = H,
                            !.upserts = D \ mt[m].persisted, !.deletes = mt[m].persisted \ D])
      BY <1>1, <1>8 DEF ReadEvents, r
    <3> QED BY <3>1, <3>2 DEF r
  <2> HIDE DEF E, X
  <2>6. CASE q.pc = "idle" /\ q.explicit = X /\ q.cursor = H /\ Derived(X) = q.persisted
             /\ q.persisted = r.persisted /\ q.upserts = r.upserts
    <3> HIDE DEF q, r
    <3>1. \E j \in q.cursor..H : q.explicit = ExplicitAt(events, j)
      BY <1>1, <2>6 DEF X
    <3>2. Knows(events, q)
      BY <2>6, <3>1 DEF Knows, Baseline
    <3>3. Holds(rows, r) => Holds(rows, q)
      BY <1>3, <1>8, <2>6 DEF Holds
    <3> QED BY <1>3, <2>6, <3>2, <3>3 DEF StepKeeps, q, r
  <2>7. CASE q.pc = "persist" /\ q.explicit = X /\ q.head = H
             /\ q.upserts = Derived(X) \ r.persisted /\ q.deletes = r.persisted \ Derived(X)
    <3> HIDE DEF q, r
    <3>1. \E j \in q.head..H : q.explicit = ExplicitAt(events, j)
      BY <1>1, <2>7 DEF X
    <3>2. Knows(events, q)
      BY <2>7, <3>1 DEF Knows, Baseline
    <3>3. StoredIn(rows, r.persisted) => WouldStore(rows, q)
      <4>1. rows \in [Statements -> RowStates]
        BY DEF TypeOK
      <4>2. Wanted(q) = Derived(X)
        BY <2>7 DEF Wanted
      <4> QED BY <2>7, <4>1, <4>2 DEF StoredIn, WouldStore, RowStates
    <3>4. Holds(rows, r) => Holds(rows, q)
      BY <1>3, <1>8, <2>7, <3>3 DEF Holds
    <3>5. q.upserts \cap R = {}
      BY <2>3, <2>7
    <3> QED BY <1>3, <3>2, <3>4, <3>5 DEF StepKeeps, q, r
  <2>8. CASE Set(m, [r EXCEPT !.pc = "idle", !.explicit = E, !.cursor = H, !.applied = Later(r.applied, H)])
             /\ D = r.persisted
    <3>1. q = [r EXCEPT !.pc = "idle", !.explicit = E, !.cursor = H, !.applied = Later(r.applied, H)]
      BY <1>2, <2>8
    <3>2. q.pc = "idle" /\ q.explicit = E /\ q.cursor = H /\ q.persisted = r.persisted
          /\ q.upserts = r.upserts
      <4> HIDE DEF q
      <4> QED BY <1>1, <3>1 DEF Memory
    <3> QED BY <2>2, <2>6, <2>8, <3>2
  <2>9. CASE Set(m, [r EXCEPT !.pc = "persist", !.explicit = E, !.head = H,
                              !.upserts = D \ r.persisted, !.deletes = r.persisted \ D])
    <3>1. q = [r EXCEPT !.pc = "persist", !.explicit = E, !.head = H,
                        !.upserts = D \ r.persisted, !.deletes = r.persisted \ D]
      BY <1>2, <2>9
    <3>2. q.pc = "persist" /\ q.explicit = E /\ q.head = H /\ q.upserts = D \ r.persisted
          /\ q.deletes = r.persisted \ D
      <4> HIDE DEF q
      <4> QED BY <1>1, <3>1 DEF Memory
    <3> QED BY <2>2, <2>7, <3>2
  <2> QED BY <2>5, <2>8, <2>9
<1>9. r.cursor = H \/ r.cursor < H
  BY <1>1
<1>10. r.cursor < H /\ ~Overtaken(m) => r.state \in {"dormant", "active"}
  BY <1>1 DEF ReadEvents
<1> QED BY <1>5, <1>6, <1>7, <1>8, <1>9, <1>10

\* Whatever ends a step early, and a process that ends.
LEMMA EndKeeps ==
    ASSUME TypeOK, KnowsInv, NEW m \in Maintainers,
           StepFails(m) \/ Close(m) \/ Crash(m) \/ (Persist(m) /\ ~FencePassed(m))
    PROVE  StepKeeps(m)
<1> DEFINE r == mt[m]
           q == mt'[m]
<1>1. r \in Memory /\ mt \in [Maintainers -> Memory] /\ lease \in LeaseRow /\ m \notin {Nobody, Dead}
  BY MemoryFields, InferenceMaintenanceAssumption DEF TypeOK, LeaseRow
<1>2. \A x : Set(m, x) => q = x
  BY <1>1 DEF Set
<1>3. Knows(events, r) /\ r.upserts \cap setting.retracted = {}
  BY DEF KnowsInv
<1>4. \/ q.state = "nil" /\ q.pc = "idle" /\ (q.upserts = {} \/ q.upserts = r.upserts)
      \/ /\ q.state = r.state /\ q.cursor = r.cursor /\ q.explicit = r.explicit
         /\ q.persisted = r.persisted /\ q.upserts = r.upserts
         /\ q.pc = "idle" /\ r.pc # "persist" /\ lease' = lease
  <2>1. CASE StepFails(m)
    <3>1. \/ Set(m, [r EXCEPT !.pc = "idle"]) /\ r.pc # "persist" /\ lease' = lease
          \/ Set(m, AskForLease(NoDiff(r)))
          \/ Set(m, LookAgain(NoDiff(r)))
          \/ Set(m, LookAgain([r EXCEPT !.holding = FALSE]))
      BY <2>1 DEF StepFails
    <3> QED BY <1>1, <1>2, <3>1, ZenonT(30) DEF AskForLease, LookAgain, NoDiff, Memory
  <2>2. CASE Close(m) \/ Crash(m)
    <3>1. q = Fresh
      BY <1>1, <2>2 DEF Close, Crash
    <3> QED BY <3>1 DEF Fresh
  <2>3. CASE Persist(m) /\ ~FencePassed(m)
    BY <2>3, AfterPersist
  <2> QED BY <2>1, <2>2, <2>3
<1> HIDE DEF q, r
<1>5. CASE q.state = "nil" /\ q.pc = "idle" /\ (q.upserts = {} \/ q.upserts = r.upserts)
  <2>1. Knows(events, q) /\ Holds(rows, q)
    BY <1>5, Forgotten
  <2> QED BY <1>3, <1>5, <2>1 DEF StepKeeps, q, r
<1>6. CASE /\ q.state = r.state /\ q.cursor = r.cursor /\ q.explicit = r.explicit
           /\ q.persisted = r.persisted /\ q.upserts = r.upserts
           /\ q.pc = "idle" /\ r.pc # "persist" /\ lease' = lease
  <2>1. Knows(events, q) /\ (Holds(rows, r) => Holds(rows, q))
    BY <1>3, <1>6, Carried
  <2> QED BY <1>3, <1>6, <2>1 DEF StepKeeps, q, r
<1> QED BY <1>4, <1>5, <1>6

\* The step that writes: the store becomes what the diff was to leave.
LEMMA PersistStores ==
    ASSUME TypeOK, KnowsInv, NeverInferred, NEW m \in Maintainers, Persist(m), FencePassed(m),
           Len(events) \in Nat, Len(events') \in Nat, Len(events) <= Len(events'),
           \A i \in 1..Len(events) : events'[i] = events[i]
    PROVE  /\ Knows(events', mt'[m]) /\ mt'[m].upserts \cap setting.retracted = {}
           /\ \A s \in setting.retracted : rows'[s] # "inferred"
           /\ Holds(rows, mt[m]) => /\ Describes(rows', events', lease'.applied)
                                    /\ Holds(rows', mt'[m])
                                    /\ StoredIn(rows', Wanted(mt[m]))
           /\ lease'.applied = mt[m].head
<1> DEFINE r == mt[m]
           q == mt'[m]
           W == Wanted(r)
<1>1. /\ r \in Memory /\ r.head \in Nat /\ lease \in LeaseRow /\ rows \in [Statements -> RowStates]
      /\ r.state \in {"nil", "dormant", "active"}
  BY MemoryFields, SMTT(30) DEF TypeOK, LeaseRow, Memory
<1>2. r.pc \in {"persist", "persistBaseline", "persistLeftovers"}
  BY DEF Persist
<1>3. /\ q.upserts = {} /\ q.cursor = r.head
      /\ r.pc = "persistLeftovers" => q.pc = "releaseThenRead" /\ q.state = "dormant"
      /\ r.pc = "persistBaseline" =>
           /\ q.pc = "lease" /\ q.state = "active"
           /\ q.explicit = r.explicit /\ q.persisted = Derived(r.explicit)
      /\ r.pc = "persist" =>
           \/ q.pc = "release" /\ q.state = "dormant"
           \/ /\ q.pc = "idle" /\ q.state = r.state
              /\ q.explicit = r.explicit /\ q.persisted = Derived(r.explicit)
  BY AfterPersist
<1>4. Knows(events, r) /\ r.upserts \cap setting.retracted = {}
  BY DEF KnowsInv
<1>5. lease'.applied = r.head
  <2>1. lease' = [lease EXCEPT !.applied = r.head]
    BY DEF Persist, Watermark
  <2> QED BY <1>1, <2>1 DEF LeaseRow
<1>6. rows' = Over(Changes(m), rows)
  BY DEF Persist
<1>7. ASSUME NEW s \in Statements
      PROVE  rows'[s] = IF rows[s] = "inferred" /\ s \in r.deletes THEN "absent"
                        ELSE IF rows[s] = "absent" /\ s \in r.upserts THEN "inferred"
                        ELSE rows[s]
  <2> DEFINE c == Changes(m)
  <2>1. /\ s \in DOMAIN c <=> (s \in r.deletes /\ rows[s] = "inferred")
                              \/ (s \in r.upserts /\ rows[s] = "absent")
        /\ s \in DOMAIN c => c[s] = IF rows[s] = "inferred" THEN "absent" ELSE "inferred"
    BY ChangesAre
  <2>2. rows'[s] = IF s \in DOMAIN c THEN c[s] ELSE rows[s]
    BY <1>1, <1>6 DEF Over
  <2> HIDE DEF c, r
  <2> QED BY <2>1, <2>2
<1> HIDE DEF q, r
<1>8. \A s \in setting.retracted : rows'[s] # "inferred"
  <2>1. setting.retracted \subseteq Statements
    BY InferenceMaintenanceAssumption DEF TypeOK
  <2> QED BY <1>4, <1>7, <2>1 DEF NeverInferred
<1>9. WouldStore(rows, r) => StoredIn(rows', W)
  <2> HIDE DEF W
  <2>1. \A s \in Statements : rows[s] \in {"absent", "explicit", "inferred"}
    BY <1>1 DEF RowStates
  <2>2. SUFFICES ASSUME WouldStore(rows, r), NEW s \in Statements, rows'[s] # "explicit"
                 PROVE  rows'[s] = "inferred" <=> s \in W
    BY DEF StoredIn
  <2>3. rows[s] # "explicit"
    BY <1>7, <2>2
  <2>4. s \in W <=> \/ rows[s] = "inferred" /\ s \notin r.deletes
                    \/ rows[s] = "absent" /\ s \in r.upserts
    BY <2>2, <2>3 DEF WouldStore, W
  <2> QED BY <1>7, <2>1, <2>3, <2>4
<1>10. \E k \in r.head..Len(events) : W = Derived(ExplicitAt(events, k))
  <2>1. CASE r.pc = "persistLeftovers"
    <3>1. PICK k \in r.head..Len(events) : ExplicitAt(events, k) \cap Vocabulary = {}
      BY <1>4, <2>1 DEF Knows
    <3>2. ExplicitAt(events, k) \subseteq Statements
      BY DEF ExplicitAt
    <3>3. Derived(ExplicitAt(events, k)) = {}
      BY <3>1, <3>2, Follows
    <3> QED BY <2>1, <3>1, <3>3 DEF Wanted
  <2>2. CASE r.pc # "persistLeftovers"
    <3>1. PICK k \in r.head..Len(events) : r.explicit = ExplicitAt(events, k)
      BY <1>2, <1>4, <2>2 DEF Knows
    <3>2. W = Derived(r.explicit)
      BY <2>2 DEF Wanted
    <3> QED BY <3>1, <3>2
  <2> QED BY <2>1, <2>2
<1>11. WouldStore(rows, r) => Describes(rows', events', r.head)
  <2>1. SUFFICES ASSUME WouldStore(rows, r) PROVE Describes(rows', events', r.head)
    OBVIOUS
  <2> HIDE DEF W
  <2>2. Describes(rows', events, r.head)
    BY <1>9, <1>10, <2>1 DEF Describes
  <2> QED BY <1>1, <2>2, DescribesStays
<1>12. Knows(events, q)
  <2>1. CASE q.state = "dormant" /\ q.pc \in {"releaseThenRead", "release"}
    BY <2>1, Forgotten
  <2>2. CASE /\ q.pc \in {"lease", "idle"} /\ q.explicit = r.explicit
             /\ r.pc \in {"persist", "persistBaseline"}
             /\ q.persisted = Derived(r.explicit) /\ (q.pc = "lease" => q.state = "active")
    <3>1. PICK k \in r.head..Len(events) : r.explicit = ExplicitAt(events, k)
      BY <1>4, <2>2 DEF Knows
    <3>2. \E j \in q.cursor..Len(events) : q.explicit = ExplicitAt(events, j)
      BY <1>3, <2>2, <3>1
    <3> QED BY <2>2, <3>2 DEF Knows, Baseline
  <2> QED BY <1>2, <1>3, <2>1, <2>2
<1>13. mt' \in [Maintainers -> Memory'] /\ q.head \in Nat /\ q.cursor \in Nat
  <2>1. TypeOK'
    BY TypePersist
  <2>2. mt'[m] \in Memory' /\ ChangesHead' \in Nat
    BY <2>1 DEF TypeOK, ChangesHead
  <2>3. q.head \in 0..ChangesHead' /\ q.cursor \in 0..ChangesHead'
    BY <2>2 DEF Memory, q
  <2> QED BY <2>1, <2>2, <2>3 DEF TypeOK
<1>14. Knows(events', q)
  BY <1>12, <1>13, KnownStays
<1>15. WouldStore(rows, r) => Holds(rows', q)
  <2>1. CASE q.state = "dormant" /\ q.pc \in {"releaseThenRead", "release"}
    BY <2>1, Forgotten
  <2>2. CASE /\ q.pc \in {"lease", "idle"} /\ q.persisted = Derived(r.explicit)
             /\ r.pc # "persistLeftovers"
    <3>1. W = q.persisted
      BY <2>2 DEF Wanted
    <3> HIDE DEF W
    <3> QED BY <1>9, <2>2, <3>1 DEF Holds
  <2> QED BY <1>2, <1>3, <2>1, <2>2
<1>16. Holds(rows, r) => WouldStore(rows, r)
  BY <1>2 DEF Holds
<1> QED BY <1>3, <1>5, <1>8, <1>9, <1>11, <1>14, <1>15, <1>16 DEF q, r

\* What the steps that write no row leave true.
LEMMA QuietKeeps ==
    ASSUME TypeOK, Unrefreshed, "refresh" \notin setting.may, RowsExplained, KnowsInv,
           DeletesAsserted, NEW m \in Maintainers, Act(m), ~(Persist(m) /\ FencePassed(m))
    PROVE  StepKeeps(m)
<1>1. ~Refresh(m)
  BY DEF Unrefreshed, Refresh, RefreshClear, RefreshRead, RefreshWrite, RefreshFails
<1>2. \/ Begin(m) \/ Observe(m) \/ HoldLease(m) \/ ReleaseLease(m) \/ SkipFlush(m)
      \/ FlushWatermark(m) \/ BaselineHead(m)
      \/ BaselineVocabulary(m) \/ BaselineLeftovers(m) \/ BaselineExplicit(m) \/ BaselineInferred(m)
      \/ ReadEvents(m)
      \/ StepFails(m) \/ Close(m) \/ Crash(m) \/ (Persist(m) /\ ~FencePassed(m))
  BY <1>1 DEF Act, Step
<1> QED BY <1>2, LoopKeeps, BaselineKeeps, ReadKeeps, EndKeeps

\* A watermark flushed without a diff was already described by the store.
LEMMA FlushDescribes ==
    ASSUME TypeOK, KnowsInv, HoldsInv, Describes(rows, events, lease.applied),
           NEW m \in Maintainers, Act(m), UNCHANGED <<rows, events>>, ~(Persist(m) /\ FencePassed(m))
    PROVE  Describes(rows, events, lease'.applied)
<1>1. lease \in LeaseRow
  BY DEF TypeOK, LeaseRow
<1>2. CASE FlushWatermark(m) /\ FencePassed(m)
  <2> DEFINE r == mt[m]
  <2>1. lease' = [lease EXCEPT !.applied = r.cursor] /\ r.pc = "flush" /\ lease.holder = m
    BY <1>2 DEF FlushWatermark, FencePassed
  <2>2. lease'.applied = r.cursor
    BY <1>1, <2>1 DEF LeaseRow
  <2>3. Knows(events, r) /\ Holds(rows, r)
    BY <2>1 DEF KnowsInv, HoldsInv
  <2> HIDE DEF r
  <2>4. r.state = "active"
    BY <2>1, <2>3 DEF Knows
  <2>5. PICK k \in r.cursor..Len(events) : r.explicit = ExplicitAt(events, k)
    BY <2>1, <2>3, <2>4 DEF Knows
  <2>6. StoredIn(rows, r.persisted) /\ r.persisted = Derived(r.explicit)
    BY <2>1, <2>3, <2>4 DEF Knows, Holds
  <2> QED BY <2>2, <2>5, <2>6 DEF Describes
<1>3. CASE ~(FlushWatermark(m) /\ FencePassed(m))
  <2>1. \/ lease' = lease
        \/ lease' = [lease EXCEPT !.holder = m, !.until = now + LeaseTTL]
        \/ lease' = [lease EXCEPT !.holder = Nobody, !.until = 0]
        \/ lease' = [lease EXCEPT !.holder = Dead]
    BY <1>3 DEF Act, Step, Refresh, Begin, Observe, HoldLease, ReleaseLease, BaselineHead,
         BaselineVocabulary, BaselineLeftovers, BaselineExplicit, BaselineInferred, ReadEvents,
         Persist, FlushWatermark, SkipFlush, StepFails, RefreshClear, RefreshRead,
         RefreshWrite, RefreshFails, Close, Crash
  <2>2. lease'.applied = lease.applied
    BY <1>1, <2>1 DEF LeaseRow
  <2> QED BY <2>2
<1> QED BY <1>2, <1>3

\* A maintainer's step.
LEMMA SoundAct ==
    ASSUME TypeOK, Unrefreshed, "refresh" \notin setting.may, SoundInv, DeletesAsserted,
           NEW m \in Maintainers, Act(m)
    PROVE  SoundInv'
<1>1. /\ RowsExplained /\ NeverInferred /\ KnowsInv
      /\ ~stale => Describes(rows, events, lease.applied) /\ HoldsInv
  BY DEF SoundInv
<1>2. /\ setting' = setting
      /\ \A n \in Maintainers \ {m} : mt'[n] = mt[n]
      /\ \A n \in Maintainers \ {m} : lease'.holder = n => lease.holder = n
  BY ActsAlone
<1>4. stale => stale'
  BY DEF Act, Step, Refresh, Begin, Observe, HoldLease, ReleaseLease, BaselineHead,
         BaselineVocabulary, BaselineLeftovers, BaselineExplicit, BaselineInferred, ReadEvents,
         Persist, FlushWatermark, SkipFlush, StepFails, RefreshClear, RefreshRead,
         RefreshWrite, RefreshFails, Close, Crash
<1>5. CASE Persist(m) /\ FencePassed(m)
  <2>1. /\ RowsExplained'
        /\ Len(events) \in Nat /\ Len(events') \in Nat /\ Len(events) <= Len(events')
        /\ \A i \in 1..Len(events) : events'[i] = events[i]
    <3>1. rows' = Over(Changes(m), rows) /\ events' = events \o LogOf(Changes(m))
      BY <1>5 DEF Persist
    <3> QED BY <1>1, <3>1, MaintainerLogs
  <2>2. /\ Knows(events', mt'[m]) /\ mt'[m].upserts \cap setting.retracted = {}
        /\ \A s \in setting.retracted : rows'[s] # "inferred"
        /\ Holds(rows, mt[m]) => /\ Describes(rows', events', lease'.applied)
                                 /\ Holds(rows', mt'[m])
    BY <1>1, <1>5, <2>1, PersistStores
  <2>3. ASSUME NEW n \in Maintainers \ {m}
        PROVE  Knows(events', mt'[n]) /\ mt'[n].upserts \cap setting.retracted = {}
    <3>1. mt[n].head \in Nat /\ mt[n].cursor \in Nat
      BY MemoryFields
    <3>2. Knows(events, mt[n]) /\ mt[n].upserts \cap setting.retracted = {}
      BY DEF SoundInv, KnowsInv
    <3>3. Knows(events', mt[n])
      BY <2>1, <3>1, <3>2, KnownStays
    <3> QED BY <1>2, <3>2, <3>3
  <2>4. KnowsInv'
    BY <1>2, <2>2, <2>3 DEF KnowsInv
  <2>5. NeverInferred'
    BY <1>2, <2>2 DEF NeverInferred
  <2>6. lease.holder = m
    BY <1>5 DEF FencePassed
  <2>7. ~stale' => Describes(rows', events', lease'.applied) /\ HoldsInv'
    <3>1. SUFFICES ASSUME ~stale' PROVE Describes(rows', events', lease'.applied) /\ HoldsInv'
      OBVIOUS
    <3>2. Holds(rows, mt[m])
      BY <1>1, <1>4, <2>6, <3>1 DEF HoldsInv
    <3>3. \A n \in Maintainers : lease'.holder = n => n = m
      BY <1>2, <2>6
    <3> QED BY <2>2, <3>2, <3>3 DEF HoldsInv
  <2> QED BY <2>1, <2>4, <2>5, <2>7 DEF SoundInv
<1>6. CASE ~(Persist(m) /\ FencePassed(m))
  <2>1. UNCHANGED <<rows, events>>
    BY <1>6, RowsBy
  <2>2. StepKeeps(m)
    BY <1>1, <1>6, QuietKeeps
  <2>3. KnowsInv'
    BY <1>1, <1>2, <2>1, <2>2 DEF KnowsInv, StepKeeps
  <2>4. RowsExplained' /\ NeverInferred'
    BY <1>1, <1>2, <2>1 DEF RowsExplained, NeverInferred, ChangesHead
  <2>5. ~stale' => Describes(rows', events', lease'.applied) /\ HoldsInv'
    <3>1. SUFFICES ASSUME ~stale' PROVE Describes(rows', events', lease'.applied) /\ HoldsInv'
      OBVIOUS
    <3>2. Describes(rows, events, lease.applied) /\ HoldsInv
      BY <1>1, <1>4, <3>1
    <3>3. Describes(rows', events', lease'.applied)
      BY <1>1, <1>6, <2>1, <3>2, FlushDescribes
    <3>4. ASSUME NEW n \in Maintainers, lease'.holder = n PROVE Holds(rows', mt'[n])
      <4>1. CASE n = m
        BY <2>1, <2>2, <3>1, <3>2, <3>4, <4>1 DEF StepKeeps, HoldsInv
      <4>2. CASE n # m
        BY <1>2, <2>1, <3>2, <3>4, <4>2 DEF HoldsInv
      <4> QED BY <4>1, <4>2
    <3> QED BY <3>3, <3>4 DEF HoldsInv
  <2> QED BY <2>3, <2>4, <2>5 DEF SoundInv
<1> QED BY <1>5, <1>6

\* A writer's step.
LEMMA SoundWrite ==
    ASSUME TypeOK, Unrefreshed, "refresh" \notin setting.may, SoundInv, DeletesAsserted,
           NEW s \in Statements, UpsertTriple(s) \/ (DeleteTriple(s) /\ s \in setting.retracted)
    PROVE  SoundInv'
<1>1. /\ RowsExplained /\ NeverInferred /\ KnowsInv
      /\ ~stale => Describes(rows, events, lease.applied) /\ HoldsInv
  BY DEF SoundInv
<1>2. UNCHANGED <<setting, lease, mt, stale>>
  BY DEF UpsertTriple, DeleteTriple, WriteRow
<1>3. /\ RowsExplained'
      /\ Len(events) \in Nat /\ Len(events') \in Nat /\ Len(events) <= Len(events')
      /\ \A i \in 1..Len(events) : events'[i] = events[i]
  BY <1>1, WriterLogs
<1>4. \/ rows' = [rows EXCEPT ![s] = "explicit"]
      \/ rows' = [rows EXCEPT ![s] = "absent"] /\ s \in setting.retracted
  BY DEF UpsertTriple, DeleteTriple, WriteRow
<1>5. ASSUME NEW m \in Maintainers
      PROVE  /\ mt[m] \in Memory /\ mt[m].head \in Nat /\ mt[m].cursor \in Nat
             /\ mt[m].explicit \subseteq Statements
             /\ Knows(events, mt[m]) /\ mt[m].upserts \cap setting.retracted = {}
  BY <1>1, MemoryFields DEF KnowsInv
<1>6. KnowsInv'
  <2>1. ASSUME NEW m \in Maintainers PROVE Knows(events', mt[m])
    BY <1>3, <1>5, KnownStays
  <2> QED BY <1>2, <1>5, <2>1 DEF KnowsInv
<1>7. NeverInferred'
  <2>1. Fresh \in Memory
    <3>1. 0 \in 0..ChangesHead /\ 0 \in 0..now
      BY LenProperties DEF TypeOK, ChangesHead
    <3> QED BY <3>1 DEF Fresh, Memory
  <2>2. \A o \in setting.retracted : rows'[o] # "inferred"
    BY <1>1, <1>4, <2>1, WriterSpares
  <2> QED BY <1>2, <2>2 DEF NeverInferred
<1>8. ASSUME ~stale' PROVE Describes(rows', events', lease'.applied) /\ HoldsInv'
  <2>1. Describes(rows, events, lease.applied) /\ HoldsInv
    BY <1>1, <1>2, <1>8
  <2>2. Describes(rows', events, lease.applied)
    <3>1. PICK k \in lease.applied..Len(events) : StoredIn(rows, Derived(ExplicitAt(events, k)))
      BY <2>1 DEF Describes
    <3>2. Fresh \in Memory
      <4>1. 0 \in 0..ChangesHead /\ 0 \in 0..now
        BY LenProperties DEF TypeOK, ChangesHead
      <4> QED BY <4>1 DEF Fresh, Memory
    <3>3. ExplicitAt(events, k) \subseteq Statements
      BY DEF ExplicitAt
    <3>4. StoredIn(rows', Derived(ExplicitAt(events, k)))
      BY <1>4, <3>1, <3>2, <3>3, WriterSpares
    <3> QED BY <3>1, <3>4 DEF Describes
  <2>3. Describes(rows', events', lease.applied)
    <3>1. lease.applied \in Nat
      BY DEF TypeOK
    <3> QED BY <1>3, <2>2, <3>1, DescribesStays
  <2>4. ASSUME NEW m \in Maintainers, lease.holder = m PROVE Holds(rows', mt[m])
    <3> DEFINE r == mt[m]
    <3>1. Holds(rows, r) /\ Knows(events, r)
      BY <1>5, <2>1, <2>4 DEF HoldsInv
    <3>2. /\ StoredIn(rows, Derived(r.explicit)) => StoredIn(rows', Derived(r.explicit))
          /\ WouldStore(rows, r) => WouldStore(rows', r)
      BY <1>4, <1>5, WriterSpares
    <3> HIDE DEF r
    <3>3. r.state = "active" /\ r.pc # "persist" => r.persisted = Derived(r.explicit)
      BY <3>1 DEF Knows
    <3>4. Holds(rows', r)
      BY <3>1, <3>2, <3>3 DEF Holds
    <3> QED BY <3>4 DEF r
  <2> QED BY <1>2, <2>3, <2>4 DEF HoldsInv
<1> QED BY <1>3, <1>6, <1>7, <1>8 DEF SoundInv

\* Any step keeps the stored inferences those of an event not yet passed.
LEMMA SoundStep ==
    ASSUME DeletesAsserted
    PROVE  TypeOK /\ Unrefreshed /\ SoundInv /\ [Next]_vars => SoundInv'
<1> SUFFICES ASSUME TypeOK, Unrefreshed, SoundInv, [Next]_vars PROVE SoundInv'
  OBVIOUS
<1>1. setting' = setting
  BY NextIs, Others, ActsAlone
<1>2. CASE "refresh" \in setting.may
  BY <1>1, <1>2 DEF SoundInv
<1>3. CASE "refresh" \notin setting.may
  <2>1. CASE Prune \/ Tick \/ UNCHANGED vars
    <3>1. UNCHANGED <<setting, rows, events, lease, mt, stale>>
      BY <2>1 DEF Prune, Tick, vars
    <3> QED BY <3>1 DEF SoundInv, RowsExplained, NeverInferred, KnowsInv, HoldsInv, ChangesHead
  <2>2. setting.asserted \cup setting.retracted \subseteq Statements
    BY InferenceMaintenanceAssumption DEF TypeOK
  <2>3. ASSUME NEW s \in setting.asserted, UpsertTriple(s) PROVE SoundInv'
    BY <1>3, <2>2, <2>3, SoundWrite
  <2>4. ASSUME NEW s \in setting.retracted, DeleteTriple(s) PROVE SoundInv'
    BY <1>3, <2>2, <2>4, SoundWrite
  <2>5. ASSUME NEW m \in Maintainers, Act(m) PROVE SoundInv'
    BY <1>3, <2>5, SoundAct
  <2> QED BY <2>1, <2>3, <2>4, <2>5, NextIs
<1> QED BY <1>2, <1>3

\* With no rows and no stored watermark the watermark is sound.
LEMMA SoundInit == Init => SoundInv
<1> SUFFICES ASSUME Init PROVE SoundInv
  OBVIOUS
<1>1. ChangesHead = 0 /\ Len(events) = 0 /\ \A s \in Statements : rows[s] = "absent"
  BY DEF Init, ChangesHead
<1>2. RowsExplained
  BY <1>1 DEF RowsExplained, LastOn
<1>3. setting.retracted \subseteq Statements
  BY InferenceMaintenanceAssumption DEF Init
<1>4. NeverInferred
  BY <1>1, <1>3 DEF NeverInferred
<1>5. ASSUME NEW m \in Maintainers
      PROVE  Knows(events, mt[m]) /\ Holds(rows, mt[m]) /\ mt[m].upserts = {}
  <2>1. mt[m] = Fresh
    BY DEF Init
  <2>2. mt[m].state # "active" /\ mt[m].pc = "idle" /\ mt[m].upserts = {}
    BY <2>1 DEF Fresh
  <2> QED BY <2>2, Forgotten
<1>6. Describes(rows, events, lease.applied)
  <2>1. ExplicitAt(events, 0) = {}
    BY DEF ExplicitAt
  <2>2. Derived({}) = {}
    BY Follows
  <2>3. StoredIn(rows, {})
    BY <1>1 DEF StoredIn
  <2>4. lease.applied = 0 /\ 0 \in 0..Len(events)
    BY <1>1 DEF Init
  <2> QED BY <2>1, <2>2, <2>3, <2>4 DEF Describes
<1> QED BY <1>2, <1>4, <1>5, <1>6 DEF SoundInv, KnowsInv, HoldsInv

\* What the log explains and the store describes is what the watermark claims.
LEMMA DescribesReflects ==
    ASSUME TypeOK, RowsExplained, NEW n \in 0..ChangesHead, Describes(rows, events, n)
    PROVE  Reflects(n)
<1>1. ChangesHead \in Nat /\ n \in 0..ChangesHead /\ ChangesHead = Len(events)
  BY LenProperties DEF TypeOK, ChangesHead
<1>2. PICK k \in n..ChangesHead : StoredIn(rows, Derived(ExplicitAt(events, k)))
  BY <1>1 DEF Describes
<1>3. k \in 0..ChangesHead /\ k \in Nat
  BY <1>1, <1>2
<1>4. Replay({}, 0, k) = ExplicitAt(events, k)
  BY <1>3, ReplayWhole
<1>5. Derived(ExplicitAt(events, k)) \subseteq Statements \ ExplicitAt(events, k)
  <2>1. ExplicitAt(events, k) \subseteq Statements
    BY DEF ExplicitAt
  <2> QED BY <2>1, Follows
<1>6. ASSUME NEW s \in Statements, ~WrittenAfter(s, n)
      PROVE  rows[s] = "inferred" <=> s \in Derived(ExplicitAt(events, k))
  <2>1. CASE rows[s] # "explicit"
    BY <1>2, <2>1 DEF StoredIn
  <2>2. CASE rows[s] = "explicit"
    <3>1. PICK h \in 1..ChangesHead : events[h].id = s
      BY <2>2 DEF RowsExplained
    <3>2. PICK i \in h..ChangesHead : LastOn(events, s, ChangesHead, i)
      BY <1>1, <3>1, LastExists
    <3>3. events[i].after = "explicit" /\ i \in 1..ChangesHead /\ events[i].id = s
      BY <2>2, <3>2 DEF RowsExplained, LastOn
    <3>4. events[i].by = "writer"
      BY <3>3 DEF RowsExplained
    <3>5. i \in 1..k
      BY <1>1, <1>2, <1>6, <3>3, <3>4 DEF WrittenAfter
    <3>6. LastOn(events, s, k, i)
      <4>1. \A j \in (i + 1)..k : j \in (i + 1)..ChangesHead
        BY <1>1, <1>3, <3>5
      <4> QED BY <3>2, <3>5, <4>1 DEF LastOn
    <3>7. s \in ExplicitAt(events, k)
      BY <1>3, <3>3, <3>6, ExplicitIs
    <3> QED BY <1>5, <2>2, <3>7
  <2> QED BY <2>1, <2>2
<1> QED BY <1>2, <1>4, <1>6 DEF Reflects

\* Which is what the stored watermark claims.
LEMMA SoundReflects == TypeOK /\ SoundInv => StoredWatermarkSound
<1> SUFFICES ASSUME TypeOK, SoundInv, ~stale, "refresh" \notin setting.may
             PROVE  Reflects(lease.applied)
  BY DEF StoredWatermarkSound
<1>1. RowsExplained /\ Describes(rows, events, lease.applied)
  BY DEF SoundInv
<1>2. lease.applied \in 0..ChangesHead
  BY DEF TypeOK
<1> QED BY <1>1, <1>2, DescribesReflects

\* The watermark in the store never claims more than the store holds, unless
\* writers delete rows the rules derive.
THEOREM StoredWatermarkSoundHolds == DeletesAsserted => (Spec => []StoredWatermarkSound)
<1> SUFFICES ASSUME DeletesAsserted PROVE Spec => []StoredWatermarkSound
  OBVIOUS
<1>1. Init => Unrefreshed
  BY DEF Init, Unrefreshed, Fresh
<1>2. TypeOK /\ Unrefreshed /\ SoundInv /\ [Next]_vars => SoundInv'
  BY SoundStep
<1> QED BY <1>1, <1>2, TypeInit, TypeStep, UnrefreshedStep, SoundInit, SoundReflects, PTL DEF Spec

-----------------------------------------------------------------------------
(* Every watermark, where one process maintains the store *)

\* A maintainer that sleeps: nothing is inferred, and there was no vocabulary
\* when it last looked.
Asleep(table, log, r) ==
    /\ \A s \in Statements : table[s] # "inferred"
    /\ \E k \in r.cursor..Len(log) : ExplicitAt(log, k) \cap Vocabulary = {}

\* What its memory claims is in the store.
Claims(table, log, r) ==
    /\ Describes(table, log, r.applied)
    /\ r.pc \in Baseline \cup {"persist"} => r.applied <= r.head
    /\ r.pc = "persist" => r.state = "active"
    /\ r.pc \in {"release", "releaseThenRead"} => r.state = "dormant"
    /\ r.state = "dormant" => Asleep(table, log, r)

\* A setting of this kind: at most one process, and no refresh by hand.
OneProcess ==
    \A s \in Settings : "refresh" \notin s.may /\ \A m, n \in s.processes : m = n

AloneInv ==
    /\ ~stale
    /\ \A m \in Maintainers :
        /\ m \notin setting.processes => mt[m] = Fresh
        /\ mt[m].state = "active" => lease.holder = m
        /\ Claims(rows, events, mt[m])

\* A claim up to some event is one up to every earlier event.
LEMMA ClaimsLess ==
    ASSUME NEW table, NEW log, NEW a \in Nat, NEW b \in Nat, a <= b, Len(log) \in Nat,
           Describes(table, log, b)
    PROVE  Describes(table, log, a)
<1>1. \A k \in b..Len(log) : k \in a..Len(log)
  OBVIOUS
<1> QED BY <1>1 DEF Describes

\* A store without inferences and vocabulary is up to date.
LEMMA AsleepDescribes ==
    ASSUME NEW table, NEW log, NEW r, NEW n \in Nat, Len(log) \in Nat, n <= Len(log),
           \A s \in Statements : table[s] # "inferred",
           ExplicitAt(log, Len(log)) \cap Vocabulary = {}
    PROVE  Describes(table, log, n)
<1>1. ExplicitAt(log, Len(log)) \subseteq Statements
  BY DEF ExplicitAt
<1>2. Derived(ExplicitAt(log, Len(log))) = {}
  BY <1>1, Follows
<1>3. Len(log) \in n..Len(log)
  OBVIOUS
<1>4. StoredIn(table, Derived(ExplicitAt(log, Len(log))))
  BY <1>2 DEF StoredIn
<1> QED BY <1>3, <1>4 DEF Describes

\* Events that state no vocabulary bring none.
LEMMA StillAsleep ==
    ASSUME TypeOK, NEW c \in 0..ChangesHead, NEW k \in c..ChangesHead,
           ExplicitAt(events, k) \cap Vocabulary = {}, ~CarryVocabulary(c, ChangesHead)
    PROVE  ExplicitAt(events, ChangesHead) \cap Vocabulary = {}
<1> DEFINE H == ChangesHead
<1>1. H \in Nat /\ c \in Nat /\ k \in Nat /\ k <= H /\ c <= k
  BY LenProperties DEF TypeOK, ChangesHead
<1> HIDE DEF H
<1>2. SUFFICES ASSUME NEW s \in ExplicitAt(events, H), s \in Vocabulary PROVE FALSE
  BY DEF H
<1>3. s \in Statements
  BY DEF ExplicitAt
<1>4. PICK i \in 1..H : LastOn(events, s, H, i) /\ events[i].after = "explicit"
  BY DEF ExplicitAt
<1>5. events[i].id = s
  BY <1>4 DEF LastOn
<1>6. i \notin (c + 1)..H
  BY <1>2, <1>4, <1>5 DEF CarryVocabulary, H
<1>7. i \in 1..k
  BY <1>1, <1>4, <1>6
<1>8. LastOn(events, s, k, i)
  <2>1. \A j \in (i + 1)..k : j \in (i + 1)..H
    BY <1>1, <1>7
  <2> QED BY <1>4, <1>7, <2>1 DEF LastOn
<1>9. s \in ExplicitAt(events, k)
  BY <1>3, <1>4, <1>7, <1>8 DEF ExplicitAt
<1> QED BY <1>2, <1>9

\* Steps that leave the claim alone, or give it up.
LEMMA ClaimsCarried ==
    ASSUME NEW table, NEW log, NEW r, NEW q, Claims(table, log, r),
           q.applied = r.applied, q.state = "nil" \/ (q.state = r.state /\ q.cursor = r.cursor),
           q.pc \in {"idle", "observe", "lease", "head", "read", "flush"}
    PROVE  Claims(table, log, q)
BY DEF Claims, Asleep, Baseline

\* What a step that writes no row is to leave of m's claim.
ClaimKept(m) ==
    /\ Claims(rows, events, mt'[m])
    /\ mt'[m].state = "active" => lease'.holder = m

\* Looking at the store, the lease and its release.
LEMMA LoopClaims ==
    ASSUME TypeOK, RowsExplained, KnowsInv, AloneInv, NEW m \in Maintainers,
           Begin(m) \/ Observe(m) \/ HoldLease(m) \/ ReleaseLease(m) \/ SkipFlush(m)
           \/ FlushWatermark(m) \/ StepFails(m) \/ (Persist(m) /\ ~FencePassed(m))
    PROVE  ClaimKept(m) /\ ~stale'
<1> DEFINE r == mt[m]
           q == mt'[m]
           H == Len(events)
           Same == /\ q.applied = r.applied
                   /\ q.state = "nil" \/ (q.state = r.state /\ q.cursor = r.cursor)
                   /\ q.pc \in {"idle", "observe", "lease", "head", "read", "flush"}
<1>1. /\ r \in Memory /\ mt \in [Maintainers -> Memory] /\ m \notin {Nobody, Dead}
      /\ lease \in LeaseRow /\ r.head \in 0..H /\ r.applied \in 0..H /\ H \in Nat
  BY MemoryFields, InferenceMaintenanceAssumption DEF TypeOK, LeaseRow, ChangesHead
<1>2. \A x : Set(m, x) => q = x
  BY <1>1 DEF Set
<1>3. Claims(rows, events, r) /\ (r.state = "active" => lease.holder = m) /\ ~stale
  BY DEF AloneInv
<1>4. CASE Observe(m) /\ ~(HasVocabulary \/ StatementsIn("inferred") # {})
  <2>1. q.pc = "read" /\ q.state = "dormant" /\ q.cursor = r.head
        /\ q.applied = Later(r.applied, r.head) /\ stale' = stale
    BY <1>1, <1>2, <1>4 DEF Observe, Memory
  <2>2. ExplicitAt(events, H) \cap Vocabulary = {}
    BY <1>4, ExplicitStored DEF HasVocabulary, ChangesHead
  <2>3. \A s \in Statements : rows[s] # "inferred"
    BY <1>4 DEF StatementsIn
  <2>4. q.applied \in Nat /\ q.applied <= H
    BY <1>1, <2>1, InLater
  <2> HIDE DEF q, r
  <2>5. Describes(rows, events, q.applied)
    BY <1>1, <2>2, <2>3, <2>4, AsleepDescribes
  <2>6. H \in q.cursor..H
    BY <1>1, <2>1
  <2>7. Asleep(rows, events, q)
    BY <2>2, <2>3, <2>6 DEF Asleep
  <2>8. Claims(rows, events, q)
    BY <2>1, <2>5, <2>7 DEF Claims, Baseline
  <2> QED BY <1>3, <2>1, <2>8 DEF ClaimKept, q
<1>5. CASE ~(Observe(m) /\ ~(HasVocabulary \/ StatementsIn("inferred") # {}))
  <2>1. Same
    <3>1. CASE Begin(m) \/ SkipFlush(m)
      BY <1>1, <1>2, <3>1, ZenonT(30) DEF Begin, SkipFlush, Memory
    <3>2. CASE Observe(m)
      <4>1. Set(m, [r EXCEPT !.pc = "lease", !.wantLease = TRUE])
        BY <1>5, <3>2 DEF Observe
      <4> QED BY <1>1, <1>2, <4>1 DEF Memory
    <3>3. CASE HoldLease(m)
      <4>1. AfterLease(m) \in {"read", "head"}
        BY DEF AfterLease
      <4>2. \/ Set(m, [r EXCEPT !.pc = AfterLease(m)])
            \/ Set(m, [r EXCEPT !.pc = AfterLease(m), !.holding = TRUE, !.renewed = now])
            \/ Set(m, AskForLease([r EXCEPT !.holding = FALSE]))
        BY <3>3 DEF HoldLease
      <4> QED BY <1>1, <1>2, <4>1, <4>2, ZenonT(30) DEF AskForLease, Memory
    <3>4. CASE ReleaseLease(m)
      BY <1>1, <1>2, <3>4, ZenonT(30) DEF ReleaseLease, Memory
    <3>5. CASE FlushWatermark(m)
      <4>1. \/ Set(m, [r EXCEPT !.pc = "idle", !.flushed = r.cursor])
            \/ Set(m, AskForLease([r EXCEPT !.holding = FALSE]))
        BY <3>5 DEF FlushWatermark
      <4> QED BY <1>1, <1>2, <4>1, ZenonT(30) DEF AskForLease, Memory
    <3>6. CASE StepFails(m)
      <4>1. \/ Set(m, [r EXCEPT !.pc = "idle"])
            \/ Set(m, AskForLease(NoDiff(r)))
            \/ Set(m, LookAgain(NoDiff(r)))
            \/ Set(m, LookAgain([r EXCEPT !.holding = FALSE]))
        BY <3>6 DEF StepFails
      <4>2. Set(m, [r EXCEPT !.pc = "idle"]) => Same
        BY <1>1, <1>2 DEF Memory
      <4>3. \A x \in {AskForLease(NoDiff(r)), LookAgain(NoDiff(r)), LookAgain([r EXCEPT !.holding = FALSE])} :
              x.applied = r.applied /\ x.state = "nil" /\ x.pc = "idle"
        BY StartsOver DEF r
      <4> QED BY <1>2, <4>1, <4>2, <4>3
    <3>7. CASE Persist(m) /\ ~FencePassed(m)
      BY <3>7, AfterPersist
    <3> QED BY <3>1, <3>2, <3>3, <3>4, <3>5, <3>6, <3>7
  <2>2. ~stale'
    BY <1>3 DEF Begin, Observe, HoldLease, ReleaseLease, SkipFlush, FlushWatermark, StepFails, Persist
  <2>3. q.state = "active" => lease'.holder = m
    <3>1. CASE ReleaseLease(m)
      <4>1. r.state = "dormant"
        BY <1>3, <3>1 DEF Claims, ReleaseLease
      <4> QED BY <2>1, <4>1
    <3>2. CASE ~ReleaseLease(m)
      <4>1. lease'.holder \in {m, lease.holder}
        BY <1>1, <3>2 DEF Begin, Observe, HoldLease, SkipFlush, FlushWatermark, StepFails, Persist,
                          FencePassed, LeaseRow
      <4> QED BY <1>3, <2>1, <4>1
    <3> QED BY <3>1, <3>2
  <2> HIDE DEF q, r
  <2>4. Claims(rows, events, q)
    BY <1>3, <2>1, ClaimsCarried
  <2> QED BY <2>2, <2>3, <2>4 DEF ClaimKept, q
<1> QED BY <1>4, <1>5

\* The statements of a baseline.
LEMMA BaselineClaims ==
    ASSUME TypeOK, KnowsInv, AloneInv, NEW m \in Maintainers,
           BaselineHead(m) \/ BaselineVocabulary(m) \/ BaselineLeftovers(m) \/ BaselineExplicit(m)
           \/ BaselineInferred(m)
    PROVE  ClaimKept(m) /\ ~stale'
<1> DEFINE r == mt[m]
           q == mt'[m]
<1>1. /\ r \in Memory /\ mt \in [Maintainers -> Memory] /\ r.applied \in 0..ChangesHead
      /\ ChangesHead \in Nat /\ r.head \in 0..ChangesHead
  BY MemoryFields DEF TypeOK
<1>2. \A x : Set(m, x) => q = x
  BY <1>1 DEF Set
<1>3. r.pc \in Baseline \cup {"head"} /\ stale' = stale
  BY DEF BaselineHead, BaselineVocabulary, BaselineLeftovers, BaselineExplicit, BaselineInferred, Baseline
<1>4. Claims(rows, events, r) /\ r.state = "nil" /\ ~stale
  BY <1>3 DEF AloneInv, KnowsInv, Knows
<1>5. r.pc # "head" => r.applied <= r.head
  BY <1>3, <1>4 DEF Claims
<1>6. q.pc \in Baseline /\ q.state = r.state /\ q.applied = r.applied /\ q.head \in {r.head, ChangesHead}
      /\ (r.pc = "head" => q.head = ChangesHead)
  <2>1. BaselineHead(m) => q.pc \in Baseline /\ q.state = r.state /\ q.applied = r.applied
                           /\ q.head = ChangesHead
    BY <1>1, <1>2 DEF BaselineHead, BaselineFrom, Baseline, Memory
  <2>2. BaselineVocabulary(m) \/ BaselineLeftovers(m) \/ BaselineExplicit(m) \/ BaselineInferred(m) =>
           /\ q.pc \in Baseline /\ q.state = r.state /\ q.applied = r.applied
           /\ q.head = r.head /\ r.pc # "head"
    BY <1>1, <1>2, ZenonT(30) DEF BaselineVocabulary, BaselineLeftovers, BaselineExplicit, BaselineInferred,
                      Baseline, Memory
  <2> QED BY <2>1, <2>2
<1> HIDE DEF q, r
<1>7. q.applied <= q.head
  BY <1>1, <1>5, <1>6
<1>8. Claims(rows, events, q)
  BY <1>4, <1>6, <1>7 DEF Claims, Baseline
<1> QED BY <1>3, <1>4, <1>6, <1>8 DEF ClaimKept, q

\* A batch read.
LEMMA ReadClaims ==
    ASSUME TypeOK, KnowsInv, HoldsInv, AloneInv, DeletesAsserted, NEW m \in Maintainers, ReadEvents(m)
    PROVE  ClaimKept(m) /\ ~stale'
<1> DEFINE r == mt[m]
           q == mt'[m]
           H == ChangesHead
<1>1. /\ r \in Memory /\ mt \in [Maintainers -> Memory] /\ r.cursor \in 0..H /\ H \in Nat
      /\ pruned \in 0..H /\ Len(events) = H /\ H \in 0..H /\ r.applied \in 0..H
  BY MemoryFields DEF TypeOK, ChangesHead
<1>2. \A x : Set(m, x) => q = x
  BY <1>1 DEF Set
<1>3. /\ Claims(rows, events, r) /\ (r.state = "active" => lease.holder = m) /\ ~stale
      /\ r.pc = "read" /\ lease' = lease /\ stale' = stale
  BY DEF AloneInv, ReadEvents
<1>4. StepKeeps(m)
  BY ReadKeeps
<1> DEFINE Same == /\ q.applied = r.applied
                   /\ q.state = "nil" \/ (q.state = r.state /\ q.cursor = r.cursor)
                   /\ q.pc \in {"idle", "observe", "lease", "head", "read", "flush"}
<1>5. CASE Overtaken(m) \/ r.cursor = H
  <2>1. Same
    <3>1. \/ Set(m, LookAgain(r))
          \/ Set(m, [r EXCEPT !.pc = "flush"])
          \/ Set(m, [r EXCEPT !.pc = "idle"])
      BY <1>1, <1>5 DEF ReadEvents
    <3>2. CASE Set(m, LookAgain(r))
      BY <1>1, <1>2, <3>2, ZenonT(30) DEF LookAgain, Memory
    <3>3. ASSUME NEW stage \in {"flush", "idle"}, Set(m, [r EXCEPT !.pc = stage]) PROVE Same
      BY <1>1, <1>2, <3>3 DEF Memory
    <3> QED BY <3>1, <3>2, <3>3
  <2> HIDE DEF q, r
  <2>2. Claims(rows, events, q)
    BY <1>3, <2>1, ClaimsCarried
  <2> QED BY <1>3, <2>1, <2>2 DEF ClaimKept, q
<1>6. CASE ~Overtaken(m) /\ r.cursor < H /\ r.state = "dormant"
  <2>1. \/ Set(m, AskForLease(r))
        \/ /\ Set(m, [r EXCEPT !.pc = "idle", !.cursor = H, !.applied = Later(r.applied, H)])
           /\ ~CarryVocabulary(ReadFrom(m), H)
    BY <1>1, <1>6 DEF ReadEvents
  <2>2. CASE Set(m, AskForLease(r))
    <3>1. Same
      BY <1>1, <1>2, <2>2, ZenonT(30) DEF AskForLease, Memory
    <3> HIDE DEF q, r
    <3>2. Claims(rows, events, q)
      BY <1>3, <3>1, ClaimsCarried
    <3> QED BY <1>3, <3>1, <3>2 DEF ClaimKept, q
  <2>3. CASE /\ Set(m, [r EXCEPT !.pc = "idle", !.cursor = H, !.applied = Later(r.applied, H)])
             /\ ~CarryVocabulary(ReadFrom(m), H)
    <3>1. q.pc = "idle" /\ q.state = "dormant" /\ q.cursor = H /\ q.applied = Later(r.applied, H)
      BY <1>1, <1>2, <1>6, <2>3, ZenonT(30) DEF Memory
    <3>2. ReadFrom(m) = r.cursor
      BY <1>1, <1>6 DEF ReadFrom, Later, Overtaken
    <3>3. Asleep(rows, events, r)
      BY <1>3, <1>6 DEF Claims
    <3>4. PICK k \in r.cursor..H : ExplicitAt(events, k) \cap Vocabulary = {}
      BY <1>1, <3>3 DEF Asleep
    <3>5. ExplicitAt(events, H) \cap Vocabulary = {}
      BY <1>1, <2>3, <3>2, <3>4, StillAsleep
    <3>6. q.applied \in Nat /\ q.applied <= H
      BY <1>1, <3>1, InLater
    <3> HIDE DEF q, r, H
    <3>7. (\A s \in Statements : rows[s] # "inferred") /\ H \in q.cursor..H
      BY <1>1, <3>1, <3>3 DEF Asleep
    <3>8. Describes(rows, events, q.applied)
      BY <1>1, <3>5, <3>6, <3>7, AsleepDescribes
    <3>9. Asleep(rows, events, q)
      BY <1>1, <3>5, <3>7 DEF Asleep
    <3>10. Claims(rows, events, q)
      BY <3>1, <3>8, <3>9 DEF Claims, Baseline
    <3> QED BY <1>3, <3>1, <3>10 DEF ClaimKept, q
  <2> QED BY <2>1, <2>2, <2>3
<1>7. CASE ~Overtaken(m) /\ r.cursor < H /\ r.state = "active"
  <2> DEFINE E == Replay(r.explicit, ReadFrom(m), H)
             D == Derived(E)
  <2>1. \/ Set(m, [r EXCEPT !.pc = "idle", !.explicit = E, !.cursor = H, !.applied = Later(r.applied, H)])
        \/ Set(m, [r EXCEPT !.pc = "persist", !.explicit = E, !.head = H,
                            !.upserts = D \ r.persisted, !.deletes = r.persisted \ D])
    BY <1>1, <1>7 DEF ReadEvents
  <2> HIDE DEF E, D
  <2>2. /\ q.state = "active"
        /\ \/ q.pc = "idle" /\ q.cursor = H /\ q.applied = Later(r.applied, H)
           \/ q.pc = "persist" /\ q.head = H /\ q.applied = r.applied
    <3>1. PICK u, d, a : u = D \ r.persisted /\ d = r.persisted \ D /\ a = Later(r.applied, H)
      OBVIOUS
    <3>2. \/ q = [r EXCEPT !.pc = "idle", !.explicit = E, !.cursor = H, !.applied = a]
          \/ q = [r EXCEPT !.pc = "persist", !.explicit = E, !.head = H, !.upserts = u, !.deletes = d]
      BY <1>2, <2>1, <3>1
    <3> HIDE DEF q, H
    <3>3. \/ q.state = r.state /\ q.pc = "idle" /\ q.cursor = H /\ q.applied = a
          \/ q.state = r.state /\ q.pc = "persist" /\ q.head = H /\ q.applied = r.applied
      BY <1>1, <3>2 DEF Memory
    <3> QED BY <1>7, <3>1, <3>3
  <2>3. Knows(events, q) /\ Holds(rows, q)
    BY <1>3, <1>4, <1>7 DEF StepKeeps, HoldsInv
  <2>4. q.applied \in 0..H
    BY <1>1, <2>2, InLater
  <2> HIDE DEF q, r, H
  <2>5. q.pc = "idle" => Describes(rows, events, q.applied)
    <3>1. SUFFICES ASSUME q.pc = "idle" PROVE Describes(rows, events, q.applied)
      OBVIOUS
    <3>2. PICK k \in q.cursor..Len(events) : q.explicit = ExplicitAt(events, k)
      BY <2>2, <2>3, <3>1 DEF Knows
    <3>3. StoredIn(rows, Derived(ExplicitAt(events, k)))
      BY <2>2, <2>3, <3>1, <3>2 DEF Knows, Holds
    <3>4. Describes(rows, events, q.cursor) /\ q.cursor = H
      BY <2>2, <3>1, <3>2, <3>3 DEF Describes
    <3>5. q.applied \in Nat /\ q.applied <= H
      BY <1>1, <2>4
    <3> QED BY <1>1, <3>4, <3>5, ClaimsLess
  <2>6. q.pc = "persist" => Describes(rows, events, q.applied) /\ q.applied <= q.head
    BY <1>1, <1>3, <2>2 DEF Claims
  <2>7. Claims(rows, events, q)
    BY <2>2, <2>5, <2>6 DEF Claims, Baseline
  <2> QED BY <1>3, <1>7, <2>7 DEF ClaimKept, q
<1>8. r.cursor = H \/ r.cursor < H
  BY <1>1
<1>9. r.cursor < H /\ ~Overtaken(m) => r.state \in {"dormant", "active"}
  BY <1>1 DEF ReadEvents
<1> QED BY <1>5, <1>6, <1>7, <1>8, <1>9

\* The step that writes.
LEMMA PersistClaims ==
    ASSUME TypeOK, KnowsInv, HoldsInv, NeverInferred, AloneInv,
           NEW m \in Maintainers, Persist(m), FencePassed(m),
           Len(events) \in Nat, Len(events') \in Nat, Len(events) <= Len(events'),
           \A i \in 1..Len(events) : events'[i] = events[i]
    PROVE  /\ Claims(rows', events', mt'[m])
           /\ mt'[m].state = "active" => lease'.holder = m
           /\ ~stale'
<1> DEFINE r == mt[m]
           q == mt'[m]
<1>1. /\ r.pc \in {"persist", "persistBaseline", "persistLeftovers"} /\ lease.holder = m
      /\ lease \in LeaseRow /\ r.head \in Nat /\ r.applied \in Nat
      /\ stale' = stale /\ ~stale
  BY MemoryFields DEF Persist, FencePassed, TypeOK, LeaseRow, AloneInv
<1>2. Claims(rows, events, r) /\ Knows(events, r) /\ Holds(rows, r)
  BY <1>1 DEF AloneInv, KnowsInv, HoldsInv
<1>3. /\ q.cursor = r.head /\ q.applied = Later(r.applied, r.head)
      /\ r.pc = "persistLeftovers" => q.pc = "releaseThenRead" /\ q.state = "dormant"
      /\ r.pc = "persistBaseline" => q.pc = "lease" /\ q.state = "active"
      /\ r.pc = "persist" =>
           \/ /\ q.pc = "release" /\ q.state = "dormant"
              /\ r.explicit \cap Vocabulary = {} /\ Derived(r.explicit) = {}
           \/ q.pc = "idle" /\ q.state = r.state
  BY AfterPersist
<1>4. /\ Describes(rows', events', lease'.applied) /\ lease'.applied = r.head
      /\ StoredIn(rows', Wanted(r))
  BY <1>2, PersistStores
<1>5. lease'.holder = m
  <2>1. \E h : lease' = [lease EXCEPT !.applied = h]
    BY DEF Persist
  <2> QED BY <1>1, <2>1 DEF LeaseRow
<1> HIDE DEF q, r
<1>6. q.applied = r.head
  BY <1>1, <1>2, <1>3 DEF Claims, Baseline, Later
<1>7. ASSUME q.state = "dormant" PROVE Asleep(rows', events', q)
  <2>1. r.pc # "persistBaseline" /\ (r.pc = "persist" => /\ r.explicit \cap Vocabulary = {}
                                                       /\ Derived(r.explicit) = {})
    BY <1>2, <1>3, <1>7 DEF Claims
  <2>2. Wanted(r) = {}
    BY <1>1, <2>1 DEF Wanted
  <2>3. \A s \in Statements : rows'[s] # "inferred"
    BY <1>4, <2>2 DEF StoredIn
  <2>4. PICK k \in r.head..Len(events) : ExplicitAt(events, k) \cap Vocabulary = {}
    <3>1. CASE r.pc = "persistLeftovers"
      BY <1>2, <3>1 DEF Knows
    <3>2. CASE r.pc = "persist"
      BY <1>2, <2>1, <3>2 DEF Knows
    <3> QED BY <1>1, <2>1, <3>1, <3>2
  <2>5. k \in Nat /\ k \in r.head..Len(events') /\ \A i \in 1..k : events'[i] = events[i]
    BY <1>1, <2>4
  <2>6. ExplicitAt(events', k) = ExplicitAt(events, k)
    BY <2>5, ExplicitStays
  <2> QED BY <1>3, <2>3, <2>4, <2>5, <2>6 DEF Asleep
<1>8. q.pc \in {"idle", "lease", "release", "releaseThenRead"}
      /\ (q.pc \in {"release", "releaseThenRead"} => q.state = "dormant")
  BY <1>1, <1>3
<1>9. Claims(rows', events', q)
  BY <1>4, <1>6, <1>7, <1>8 DEF Claims, Baseline
<1> QED BY <1>1, <1>5, <1>9 DEF q

\* A step of the one process.
LEMMA AloneAct ==
    ASSUME TypeOK, Unrefreshed, SoundInv, AloneInv, DeletesAsserted, OneProcess,
           NEW m \in Maintainers, m \in setting.processes, Act(m)
    PROVE  AloneInv'
<1>1. setting \in Settings /\ "refresh" \notin setting.may
      /\ \A n \in Maintainers \ {m} : n \notin setting.processes
  BY DEF TypeOK, OneProcess
<1>2. /\ setting' = setting
      /\ \A n \in Maintainers \ {m} : mt'[n] = mt[n]
  BY ActsAlone
<1>3. RowsExplained /\ NeverInferred /\ KnowsInv /\ HoldsInv /\ ~stale
  BY <1>1 DEF SoundInv, AloneInv
<1>4. /\ Len(events) \in Nat /\ Len(events') \in Nat
      /\ mt[m] \in Memory /\ mt[m].applied \in Nat
  BY ActsAlone, MemoryFields DEF ChangesHead
<1>5. Claims(rows', events', mt'[m]) /\ (mt'[m].state = "active" => lease'.holder = m) /\ ~stale'
  <2>1. CASE Persist(m) /\ FencePassed(m)
    <3>1. rows' = Over(Changes(m), rows) /\ events' = events \o LogOf(Changes(m))
      BY <2>1 DEF Persist
    <3>2. Len(events) <= Len(events') /\ \A i \in 1..Len(events) : events'[i] = events[i]
      BY <1>3, <3>1, MaintainerLogs
    <3> QED BY <1>3, <1>4, <2>1, <3>2, PersistClaims
  <2>2. CASE ~(Persist(m) /\ FencePassed(m))
    <3>1. UNCHANGED <<rows, events>>
      BY <1>1, <2>2, RowsBy
    <3>2. ~Refresh(m)
      BY <1>1 DEF Unrefreshed, Refresh, RefreshClear, RefreshRead, RefreshWrite, RefreshFails
    <3>3. CASE Close(m) \/ Crash(m)
      <4>1. mt'[m] = Fresh /\ stale' = stale
        BY <3>3 DEF Close, Crash, TypeOK
      <4>2. Describes(rows, events, mt[m].applied)
        BY DEF AloneInv, Claims
      <4>3. 0 \in Nat /\ 0 <= mt[m].applied
        BY <1>4
      <4>4. Describes(rows, events, 0)
        BY <1>4, <4>2, <4>3, ClaimsLess
      <4>5. Claims(rows, events, Fresh)
        BY <4>4 DEF Claims, Fresh, Baseline
      <4> QED BY <1>3, <3>1, <4>1, <4>5 DEF Fresh
    <3>4. CASE Begin(m) \/ Observe(m) \/ HoldLease(m) \/ ReleaseLease(m) \/ SkipFlush(m)
               \/ FlushWatermark(m) \/ StepFails(m) \/ (Persist(m) /\ ~FencePassed(m))
      BY <1>3, <3>1, <3>4, LoopClaims DEF ClaimKept
    <3>5. CASE BaselineHead(m) \/ BaselineVocabulary(m) \/ BaselineLeftovers(m)
               \/ BaselineExplicit(m) \/ BaselineInferred(m)
      BY <1>3, <3>1, <3>5, BaselineClaims DEF ClaimKept
    <3>6. CASE ReadEvents(m)
      BY <1>3, <3>1, <3>6, ReadClaims DEF ClaimKept
    <3> QED BY <2>2, <3>2, <3>3, <3>4, <3>5, <3>6 DEF Act, Step
  <2> QED BY <2>1, <2>2
<1>6. ASSUME NEW n \in Maintainers \ {m}
      PROVE  mt'[n] = Fresh /\ Claims(rows', events', mt'[n])
  <2>1. mt'[n] = Fresh
    BY <1>1, <1>2 DEF AloneInv
  <2>2. Describes(rows', events', mt'[m].applied)
    BY <1>5 DEF Claims
  <2>3. mt'[m].applied \in Nat
    <3>1. TypeOK'
      BY TypeStep, ActNext
    <3>2. mt'[m] \in Memory'
      BY <3>1 DEF TypeOK
    <3>3. mt'[m].applied \in 0..ChangesHead'
      BY <3>2 DEF Memory
    <3> QED BY <1>4, <3>3
  <2>4. 0 \in Nat /\ 0 <= mt'[m].applied
    BY <2>3
  <2>5. Describes(rows', events', 0)
    BY <1>4, <2>2, <2>3, <2>4, ClaimsLess
  <2>6. Claims(rows', events', Fresh)
    BY <2>5 DEF Claims, Fresh, Baseline
  <2> QED BY <2>1, <2>6
<1>7. ASSUME NEW n \in Maintainers
      PROVE  /\ n \notin setting'.processes => mt'[n] = Fresh
             /\ mt'[n].state = "active" => lease'.holder = n
             /\ Claims(rows', events', mt'[n])
  <2>1. CASE n = m
    BY <1>2, <1>5, <2>1
  <2>2. CASE n # m
    BY <1>6, <2>2 DEF Fresh
  <2> QED BY <2>1, <2>2
<1> QED BY <1>5, <1>7 DEF AloneInv

\* Any step keeps what the one process claims.
LEMMA AloneStep ==
    ASSUME DeletesAsserted, OneProcess
    PROVE  TypeOK /\ Unrefreshed /\ SoundInv /\ AloneInv /\ [Next]_vars => AloneInv'
<1> SUFFICES ASSUME TypeOK, Unrefreshed, SoundInv, AloneInv, [Next]_vars PROVE AloneInv'
  OBVIOUS
<1>1. "refresh" \notin setting.may
  BY DEF TypeOK, OneProcess
<1>2. CASE Prune \/ Tick \/ UNCHANGED vars
  <2>1. UNCHANGED <<setting, rows, events, lease, mt, stale>>
    BY <1>2 DEF Prune, Tick, vars
  <2> QED BY <2>1 DEF AloneInv
<1>3. ASSUME NEW s \in Statements, UpsertTriple(s) \/ (DeleteTriple(s) /\ s \in setting.retracted)
      PROVE  AloneInv'
  <2>1. UNCHANGED <<setting, lease, mt, stale>>
    BY <1>3 DEF UpsertTriple, DeleteTriple, WriteRow
  <2>2. RowsExplained
    BY <1>1 DEF SoundInv
  <2>3. /\ Len(events) \in Nat /\ Len(events') \in Nat /\ Len(events) <= Len(events')
        /\ \A i \in 1..Len(events) : events'[i] = events[i]
    BY <1>3, <2>2, WriterLogs
  <2>4. \/ rows' = [rows EXCEPT ![s] = "explicit"]
        \/ rows' = [rows EXCEPT ![s] = "absent"] /\ s \in setting.retracted
    BY <1>3 DEF UpsertTriple, DeleteTriple, WriteRow
  <2>5. ASSUME NEW m \in Maintainers PROVE Claims(rows', events', mt[m])
    <3> DEFINE r == mt[m]
    <3>1. r \in Memory /\ r.applied \in Nat /\ r.cursor \in Nat
      BY MemoryFields
    <3>2. Claims(rows, events, r)
      BY DEF AloneInv
    <3> HIDE DEF r
    <3>3. Describes(rows', events, r.applied)
      <4>1. PICK k \in r.applied..Len(events) : StoredIn(rows, Derived(ExplicitAt(events, k)))
        BY <3>2 DEF Claims, Describes
      <4>2. ExplicitAt(events, k) \subseteq Statements
        BY DEF ExplicitAt
      <4>3. StoredIn(rows', Derived(ExplicitAt(events, k)))
        BY <2>4, <3>1, <4>1, <4>2, WriterSpares
      <4> QED BY <4>1, <4>3 DEF Describes
    <3>4. Describes(rows', events', r.applied)
      BY <2>3, <3>1, <3>3, DescribesStays
    <3>5. Asleep(rows, events, r) => Asleep(rows', events', r)
      <4>1. SUFFICES ASSUME Asleep(rows, events, r) PROVE Asleep(rows', events', r)
        OBVIOUS
      <4>2. \A o \in Statements : rows'[o] # "inferred"
        BY <2>4, <4>1 DEF Asleep, TypeOK
      <4>3. PICK k \in r.cursor..Len(events) : ExplicitAt(events, k) \cap Vocabulary = {}
        BY <4>1 DEF Asleep
      <4>4. k \in Nat /\ k \in r.cursor..Len(events') /\ \A i \in 1..k : events'[i] = events[i]
        BY <2>3, <3>1, <4>3
      <4>5. ExplicitAt(events', k) = ExplicitAt(events, k)
        BY <4>4, ExplicitStays
      <4> QED BY <4>2, <4>3, <4>4, <4>5 DEF Asleep
    <3>6. Claims(rows', events', r)
      BY <3>2, <3>4, <3>5 DEF Claims
    <3> QED BY <3>6 DEF r
  <2> QED BY <2>1, <2>5 DEF AloneInv
<1>4. setting.asserted \cup setting.retracted \subseteq Statements /\ setting.processes \subseteq Maintainers
  BY InferenceMaintenanceAssumption DEF TypeOK
<1>5. ASSUME NEW m \in setting.processes, Act(m) PROVE AloneInv'
  BY <1>4, <1>5, AloneAct
<1> QED BY <1>2, <1>3, <1>4, <1>5, NextIs

\* Where one process maintains the store, no watermark it answers with claims
\* more than the store holds, unless writers delete rows the rules derive.
THEOREM WatermarkSoundHolds ==
    DeletesAsserted /\ OneProcess => (Spec => []WatermarkSound)
<1> SUFFICES ASSUME DeletesAsserted, OneProcess PROVE Spec => []WatermarkSound
  OBVIOUS
<1>1. Init => Unrefreshed
  BY DEF Init, Unrefreshed, Fresh
<1>2. TypeOK /\ Unrefreshed /\ SoundInv /\ [Next]_vars => SoundInv'
  BY SoundStep
<1>3. Init => AloneInv
  <2>1. SUFFICES ASSUME Init PROVE AloneInv
    OBVIOUS
  <2>2. "refresh" \notin setting.may /\ ~stale /\ lease.applied = 0
    BY <2>1 DEF Init, OneProcess
  <2>3. Describes(rows, events, 0)
    BY <2>1, <2>2, SoundInit DEF SoundInv
  <2>4. Claims(rows, events, Fresh)
    BY <2>3 DEF Claims, Fresh, Baseline
  <2> QED BY <2>1, <2>4 DEF Init, AloneInv, Fresh
<1>4. TypeOK /\ Unrefreshed /\ SoundInv /\ AloneInv /\ [Next]_vars => AloneInv'
  BY AloneStep
<1>5. TypeOK /\ SoundInv /\ AloneInv => WatermarkSound
  <2>1. SUFFICES ASSUME TypeOK, SoundInv, AloneInv PROVE \A n \in Watermarks : Reflects(n)
    BY DEF WatermarkSound
  <2>2. "refresh" \notin setting.may
    BY <2>1 DEF TypeOK, OneProcess
  <2>3. RowsExplained /\ Describes(rows, events, lease.applied)
    BY <2>1, <2>2 DEF SoundInv, AloneInv
  <2>4. lease.applied \in 0..ChangesHead
    BY <2>1 DEF TypeOK
  <2>5. Reflects(lease.applied)
    BY <2>1, <2>3, <2>4, DescribesReflects
  <2>6. ASSUME NEW m \in Maintainers PROVE Reflects(mt[m].applied)
    <3>1. mt[m].applied \in 0..ChangesHead
      BY <2>1, MemoryFields
    <3>2. Describes(rows, events, mt[m].applied)
      BY <2>1 DEF AloneInv, Claims
    <3> QED BY <2>1, <2>3, <3>1, <3>2, DescribesReflects
  <2> QED BY <2>5, <2>6 DEF Watermarks
<1> QED BY <1>1, <1>2, <1>3, <1>4, <1>5, TypeInit, TypeStep, UnrefreshedStep, SoundInit, PTL DEF Spec

-----------------------------------------------------------------------------
(* Closures in DeleteRederive *)

(* T is closed under the derivations R. *)
Shut(R, T) == \A d \in R : d.from \subseteq T => d.then \in T
(* R derives nothing outside the universe. *)
Within(R) == \A d \in R : d.then \in Universe
(* What is in every closed set that holds S. *)
LeastOver(R, S) ==
    {f \in Universe : \A T \in SUBSET Universe : S \subseteq T /\ Shut(R, T) => f \in T}

(* It holds S, is closed, and is in every closed set that holds S. *)
LEMMA LeastIsShut ==
    ASSUME NEW R, Within(R), NEW S \in SUBSET Universe
    PROVE  /\ S \subseteq LeastOver(R, S) /\ LeastOver(R, S) \in SUBSET Universe
           /\ Shut(R, LeastOver(R, S))
           /\ \A T \in SUBSET Universe : S \subseteq T /\ Shut(R, T) => LeastOver(R, S) \subseteq T
<1>1. S \subseteq LeastOver(R, S) /\ LeastOver(R, S) \in SUBSET Universe
  BY DEF LeastOver
<1>2. \A T \in SUBSET Universe : S \subseteq T /\ Shut(R, T) => LeastOver(R, S) \subseteq T
  BY DEF LeastOver
<1>3. ASSUME NEW d \in R, d.from \subseteq LeastOver(R, S)
      PROVE  d.then \in LeastOver(R, S)
  <2>1. d.then \in Universe
    BY DEF Within
  <2>2. ASSUME NEW T \in SUBSET Universe, S \subseteq T, Shut(R, T)
        PROVE  d.then \in T
    BY <1>2, <1>3, <2>2 DEF Shut
  <2> QED
    BY <2>1, <2>2 DEF LeastOver
<1> QED
  BY <1>1, <1>2, <1>3 DEF Shut

(* A round stays in the universe, and adds nothing exactly to closed sets. *)
LEMMA RoundStays ==
    ASSUME NEW R, Within(R), NEW S \in SUBSET Universe
    PROVE  /\ S \subseteq Round(R, S) /\ Round(R, S) \in SUBSET Universe
           /\ Round(R, S) = S <=> Shut(R, S)
  BY DEF Round, Conclusions, Within, Shut

(* A closed set that holds S holds a round over S. *)
LEMMA RoundBelow ==
    ASSUME NEW R, NEW S, NEW T, S \subseteq T, Shut(R, T)
    PROVE  Round(R, S) \subseteq T
  BY DEF Round, Conclusions, Shut

(* So a round changes nothing about what is least. *)
LEMMA LeastOfRound ==
    ASSUME NEW R, Within(R), NEW S \in SUBSET Universe
    PROVE  LeastOver(R, Round(R, S)) = LeastOver(R, S)
<1>1. \A T : Shut(R, T) => (S \subseteq T <=> Round(R, S) \subseteq T)
  BY RoundStays, RoundBelow
<1> QED
  BY <1>1 DEF LeastOver

LEMMA LeastOfShut ==
    ASSUME NEW R, Within(R), NEW S \in SUBSET Universe, Shut(R, S)
    PROVE  LeastOver(R, S) = S
  BY LeastIsShut

(* The loop: what a function that computes closures in rounds satisfies. *)
Loops(R, c) ==
    c = [T \in SUBSET Universe |-> IF Round(R, T) = T THEN T ELSE c[Round(R, T)]]

(* There is such a function, *)
LEMMA LeastLoops ==
    ASSUME NEW R, Within(R)
    PROVE  Loops(R, [T \in SUBSET Universe |-> LeastOver(R, T)])
<1> DEFINE c == [T \in SUBSET Universe |-> LeastOver(R, T)]
<1>1. ASSUME NEW T \in SUBSET Universe
      PROVE  LeastOver(R, T) = IF Round(R, T) = T THEN T ELSE c[Round(R, T)]
  <2>1. Round(R, T) \in SUBSET Universe
    BY RoundStays
  <2>2. c[Round(R, T)] = LeastOver(R, T)
    BY <2>1, LeastOfRound
  <2>3. Round(R, T) = T => LeastOver(R, T) = T
    BY RoundStays, LeastOfShut
  <2> HIDE DEF c
  <2> QED
    BY <2>2, <2>3
<1> QED
  BY <1>1 DEF Loops

(* and only one: a round that adds something leaves less to add. *)
LEMMA LoopsLeast ==
    ASSUME NEW R, Within(R), NEW c, Loops(R, c), IsFiniteSet(Universe)
    PROVE  \A T \in SUBSET Universe : c[T] = LeastOver(R, T)
<1> DEFINE Left(T) == Cardinality(Universe \ T)
           Wrong(n) == \E T \in SUBSET Universe : Left(T) = n /\ c[T] # LeastOver(R, T)
<1>1. ASSUME NEW T \in SUBSET Universe PROVE Left(T) \in Nat /\ IsFiniteSet(Universe \ T)
  BY FS_Subset, FS_CardinalityType
<1>2. ASSUME NEW n \in Nat, Wrong(n)
      PROVE  \E m \in Nat : m < n /\ Wrong(m)
  <2>1. PICK T \in SUBSET Universe : Left(T) = n /\ c[T] # LeastOver(R, T)
    BY <1>2
  <2> DEFINE N == Round(R, T)
  <2>2. T \subseteq N /\ N \in SUBSET Universe
    BY RoundStays
  <2>3. c[T] = IF N = T THEN T ELSE c[N]
    BY DEF Loops
  <2>4. N # T
    BY <2>1, <2>3, RoundStays, LeastOfShut
  <2>5. c[N] # LeastOver(R, N)
    BY <2>1, <2>3, <2>4, LeastOfRound
  <2>6. Left(N) < n /\ Left(N) \in Nat
    <3>1. Universe \ N \subseteq Universe \ T /\ Universe \ N # Universe \ T
      BY <2>2, <2>4
    <3>2. IsFiniteSet(Universe \ T) /\ Universe \ N \in SUBSET (Universe \ T)
      BY <3>1, <1>1
    <3>3. Cardinality(Universe \ N) <= Cardinality(Universe \ T)
          /\ Cardinality(Universe \ T) # Cardinality(Universe \ N)
      BY <3>1, <3>2, FS_Subset
    <3>4. Left(N) \in Nat /\ Left(T) \in Nat /\ Left(T) = n
      BY <1>1, <2>1, <2>2
    <3> QED
      BY <3>3, <3>4
  <2> QED
    BY <2>2, <2>5, <2>6
<1>3. \A n \in Nat : ~Wrong(n)
  <2> DEFINE Below == {p \in Nat \X Nat : p[1] < p[2]}
             Bad == {n \in Nat : Wrong(n)}
  <2>1. IsWellFoundedOn(Below, Nat)
    BY NatLessThanWellFounded DEF OpToRel
  <2> HIDE DEF Below, Wrong
  <2>2. SUFFICES ASSUME Bad # {} PROVE FALSE
    OBVIOUS
  <2>3. PICK n \in Bad : \A m \in Bad : <<m, n>> \notin Below
    BY <2>1, <2>2, WFMin
  <2>4. PICK m \in Nat : m < n /\ Wrong(m)
    BY <1>2
  <2> QED
    BY <2>3, <2>4 DEF Below
<1> QED
  <2> SUFFICES ASSUME NEW T \in SUBSET Universe, c[T] # LeastOver(R, T) PROVE FALSE
    OBVIOUS
  <2>1. Left(T) \in Nat /\ Wrong(Left(T))
    BY <1>1
  <2> QED
    BY <2>1, <1>3

(* What ClosureUnder computes is least. *)
LEMMA ClosureIsLeast ==
    ASSUME NEW R, Within(R), NEW S \in SUBSET Universe, IsFiniteSet(Universe)
    PROVE  ClosureUnder(R, S) = LeastOver(R, S)
<1> DEFINE c == CHOOSE c : Loops(R, c)
<1>1. Loops(R, c)
  BY LeastLoops
<1>2. ClosureUnder(R, S) = c[S]
  BY DEF ClosureUnder, Loops
<1> HIDE DEF c
<1> QED
  BY <1>1, <1>2, LoopsLeast

-----------------------------------------------------------------------------
(* The rules *)

(* A rule has premises and a conclusion, and one of the premises mentions   *)
(* the subject of the conclusion: what rederiving looks for.                *)
Proper(d) ==
    /\ d = [from |-> d.from, then |-> d.then]
    /\ d.from # {} /\ d.from \subseteq Universe
    /\ \E g \in d.from : Mentions(g, d.then[1])

LEMMA EachProper == \A d \in Rules : Proper(d)
<1>1. \A d \in ClassRules(Universe) : Proper(d)
  BY SMT DEF ClassRules, Proper, With, At, Rule, Mentions
<1>2. \A d \in PropertyRules(Universe) : Proper(d)
  BY SMT DEF PropertyRules, Proper, With, At, Rule, Mentions
<1>3. \A d \in PairRules(Universe) : Proper(d)
  BY SMT DEF PairRules, Proper, With, At, Rule, Mentions, Declared
<1>4. \A which : \A d \in EndRules(Universe, which, 1) \cup EndRules(Universe, which, 3) : Proper(d)
  BY SMT DEF EndRules, Proper, With, At, Rule, Mentions
<1>5. \A which, sub : \A d \in EquivalenceRules(Universe, which, sub) : Proper(d)
  BY SMT DEF EquivalenceRules, Proper, With, At, Rule, Mentions
<1> QED
  BY <1>1, <1>2, <1>3, <1>4, <1>5 DEF Rules, RulesOver

LEMMA RulesWithin == Within(Rules) /\ IsFiniteSet(Universe)
  BY DRedAssumption DEF Within, Conclusions
-----------------------------------------------------------------------------
(* What the engine knows *)

DrainedOf(s) == {f \in Statable : s[f] # Nothing}
InferredOf(k) == {f \in DOMAIN k : ~k[f].explicit}
CreditsOf(k) == {[from |-> k[f].from, then |-> f] : f \in InferredOf(k)}

(* k is right about what the explicit statements s leave explicit, and      *)
(* credits the rest to rules, from the ground up.                           *)
Sound(k, s) ==
    /\ DOMAIN k \subseteq Universe
    /\ DrainedOf(s) \subseteq DOMAIN k
    /\ \A f \in DOMAIN k : /\ k[f].explicit <=> f \in DrainedOf(s)
                           /\ k[f].explicit \in BOOLEAN
                           /\ k[f].id = IF f \in DrainedOf(s) THEN s[f] ELSE f
    /\ CreditsOf(k) \subseteq Derivations(DOMAIN k)
    /\ DOMAIN k \subseteq LeastOver(CreditsOf(k), DrainedOf(s))

(* Nothing that derives from F without W is missing in F. *)
Done(F, W) == \A d \in Derivations(F \ W) : d.then \in F

(* Credits stay in the universe. *)
LEMMA CreditsWithin ==
    ASSUME NEW k, DOMAIN k \subseteq Universe
    PROVE  Within(CreditsOf(k))
  BY DEF Within, CreditsOf, InferredOf

(* From the explicit statements alone. *)
LEMMA ScratchSound ==
    ASSUME NEW k, NEW s, DOMAIN k = DrainedOf(s),
           \A f \in DOMAIN k : k[f] = [id |-> s[f], explicit |-> TRUE, from |-> {}]
    PROVE  Sound(k, s) /\ Done(DOMAIN k, DOMAIN k)
<1>1. DOMAIN k \subseteq Universe
  BY DEF DrainedOf, Universe
<1>2. InferredOf(k) = {} /\ CreditsOf(k) = {}
  BY DEF InferredOf, CreditsOf
<1>3. DOMAIN k \subseteq LeastOver(CreditsOf(k), DrainedOf(s))
  BY <1>1 DEF LeastOver
<1>4. Done(DOMAIN k, DOMAIN k)
  BY EachProper DEF Done, Derivations, Proper
<1>5. ASSUME NEW f \in DOMAIN k
      PROVE  /\ k[f].explicit <=> f \in DrainedOf(s)
             /\ k[f].explicit \in BOOLEAN
             /\ k[f].id = IF f \in DrainedOf(s) THEN s[f] ELSE f
  <2>1. k[f].id = s[f] /\ k[f].explicit = TRUE
    OBVIOUS
  <2>2. k[f].explicit <=> f \in DrainedOf(s)
    BY <2>1, Zenon
  <2> QED
    BY <2>1, <2>2
<1>6. CreditsOf(k) \subseteq Derivations(DOMAIN k)
  BY <1>2
<1>7. Sound(k, s)
  BY <1>1, <1>3, <1>5, <1>6, Zenon DEF Sound
<1> QED
  BY <1>4, <1>7

(* k is base and what the derivations found conclude beyond it. *)
Grows(k, base, found) ==
    /\ DOMAIN k = DOMAIN base \cup Conclusions(found)
    /\ \A f \in DOMAIN base : k[f] = base[f]
    /\ \A f \in DOMAIN k \ DOMAIN base :
          \E d \in found : d.then = f /\ k[f] = [id |-> f, explicit |-> FALSE, from |-> d.from]

(* What was right stays right when what rules derive from it is added. *)
LEMMA GrowsSound ==
    ASSUME NEW k, NEW base, NEW found, NEW s,
           Sound(base, s), found \subseteq Derivations(DOMAIN base), Grows(k, base, found)
    PROVE  Sound(k, s)
<1>1. found \subseteq Rules /\ \A d \in found : d.from \subseteq DOMAIN base
  BY DEF Derivations
<1>2. DOMAIN k \subseteq Universe /\ DOMAIN base \subseteq DOMAIN k
  BY <1>1, RulesWithin DEF Sound, Grows, Within, Conclusions
<1>3. DrainedOf(s) \subseteq DOMAIN k
  BY <1>2 DEF Sound
<1>4. ASSUME NEW f \in DOMAIN k
      PROVE  /\ k[f].explicit <=> f \in DrainedOf(s)
             /\ k[f].explicit \in BOOLEAN
             /\ k[f].id = IF f \in DrainedOf(s) THEN s[f] ELSE f
  <2>1. CASE f \in DOMAIN base
    BY <2>1 DEF Sound, Grows
  <2>2. CASE f \notin DOMAIN base
    <3>1. f \notin DrainedOf(s)
      BY <2>2 DEF Sound
    <3>2. k[f].id = f /\ k[f].explicit = FALSE
      <4>1. PICK d \in found : k[f] = [id |-> f, explicit |-> FALSE, from |-> d.from]
        BY <2>2 DEF Grows
      <4> QED
        BY <4>1
    <3>3. k[f].explicit <=> f \in DrainedOf(s)
      BY <3>1, <3>2, Zenon
    <3> QED
      BY <3>1, <3>2, <3>3
  <2> QED
    BY <2>1, <2>2
<1>5. ASSUME NEW f \in InferredOf(k)
      PROVE  [from |-> k[f].from, then |-> f] \in Derivations(DOMAIN k)
  <2>1. CASE f \in DOMAIN base
    <3>1. f \in InferredOf(base) /\ k[f] = base[f]
      BY <2>1 DEF InferredOf, Grows
    <3>2. [from |-> base[f].from, then |-> f] \in Derivations(DOMAIN base)
      BY <3>1 DEF Sound, CreditsOf
    <3> QED
      BY <3>1, <3>2, <1>2 DEF Derivations
  <2>2. CASE f \notin DOMAIN base
    <3>1. PICK d \in found : d.then = f /\ k[f] = [id |-> f, explicit |-> FALSE, from |-> d.from]
      BY <2>2 DEF Grows, InferredOf
    <3>2. d = [from |-> d.from, then |-> d.then] /\ d \in Rules /\ d.from \subseteq DOMAIN k
      BY <1>1, <1>2, EachProper DEF Proper
    <3>3. k[f].from = d.from
      BY <3>1
    <3>4. [from |-> k[f].from, then |-> f] = d
      BY <3>1, <3>2, <3>3
    <3> QED
      BY <3>2, <3>3, <3>4 DEF Derivations
  <2> QED
    BY <2>1, <2>2
<1>6. ASSUME NEW T \in SUBSET Universe, DrainedOf(s) \subseteq T, Shut(CreditsOf(k), T)
      PROVE  DOMAIN k \subseteq T
  <2>1. ASSUME NEW f \in InferredOf(base) PROVE [from |-> base[f].from, then |-> f] \in CreditsOf(k)
    <3>1. f \in InferredOf(k) /\ k[f] = base[f]
      BY <1>2 DEF InferredOf, Grows
    <3> QED
      BY <3>1 DEF CreditsOf
  <2>2. Shut(CreditsOf(base), T)
    BY <1>6, <2>1 DEF Shut, CreditsOf
  <2>3. DOMAIN base \subseteq T
    BY <2>2, <1>6 DEF Sound, LeastOver
  <2>4. ASSUME NEW f \in DOMAIN k \ DOMAIN base PROVE f \in T
    <3>1. PICK d \in found : d.then = f /\ k[f] = [id |-> f, explicit |-> FALSE, from |-> d.from]
      BY DEF Grows
    <3>2. k[f].from = d.from /\ f \in InferredOf(k)
      BY <3>1 DEF InferredOf
    <3>3. [from |-> d.from, then |-> f] \in CreditsOf(k)
      BY <3>2 DEF CreditsOf
    <3>4. d.from \subseteq T
      BY <1>1, <2>3
    <3> QED
      BY <3>3, <3>4, <1>6 DEF Shut
  <2> QED
    BY <2>3, <2>4
<1>7. DOMAIN k \subseteq LeastOver(CreditsOf(k), DrainedOf(s))
  BY <1>2, <1>6 DEF LeastOver
<1>8. CreditsOf(k) \subseteq Derivations(DOMAIN k)
  BY <1>5 DEF CreditsOf
<1> QED
  BY <1>2, <1>3, <1>4, <1>7, <1>8 DEF Sound

(* A round that fires what was not indexed leaves only what it found to be  *)
(* fired.                                                                   *)
LEMMA GrowsDone ==
    ASSUME NEW k, NEW base, NEW found, NEW fired, NEW rest, Grows(k, base, found),
           Fire(fired, DOMAIN base) \subseteq found,
           \A d \in Derivations(DOMAIN base) : d.from \cap fired = {} => d.then \in DOMAIN base,
           rest = Conclusions(found) \ DOMAIN base
    PROVE  Done(DOMAIN k, rest)
<1>1. DOMAIN k \ rest = DOMAIN base
  BY DEF Grows
<1>2. ASSUME NEW d \in Derivations(DOMAIN base) PROVE d.then \in DOMAIN k
  <2>1. CASE d.from \cap fired = {}
    BY <2>1 DEF Grows
  <2>2. CASE d.from \cap fired # {}
    <3>1. d \in found
      BY <2>2 DEF Fire
    <3> QED
      BY <3>1 DEF Grows, Conclusions
  <2> QED
    BY <2>1, <2>2
<1> QED
  BY <1>1, <1>2 DEF Done

(* The explicit statements that changed from s to t. *)
Restated(s, t) == {f \in Statable : t[f] # s[f]}

(* gone is enough to overdelete when the explicit statements change from s  *)
(* to t, and base is what is left with those that are new.                  *)
Overdeletes(k, s, t, gone) ==
    /\ Restated(s, t) \cap DOMAIN k \subseteq gone /\ gone \subseteq DOMAIN k
    /\ \A f \in gone : f \in Restated(s, t) \/ f \in InferredOf(k)
    /\ \A d \in Derivations(DOMAIN k) :
          d.from \cap gone # {} /\ d.then \in InferredOf(k) => d.then \in gone
TakesOver(k, s, t, gone, base) ==
    /\ DOMAIN base = (DOMAIN k \ gone) \cup (Restated(s, t) \cap DrainedOf(t))
    /\ \A f \in DOMAIN base :
          base[f] = IF f \in Restated(s, t) THEN [id |-> t[f], explicit |-> TRUE, from |-> {}]
                                           ELSE k[f]
Again(s, t, gone, base) ==
    Candidates(DOMAIN base, gone) \cup (Restated(s, t) \cap DrainedOf(t))

(* Overdeleting and taking over the explicit statements as they now stand   *)
(* leaves what is right, and what is left derives nothing new without a     *)
(* fact that is new or mentions the subject of one overdeleted.             *)
LEMMA BaseSound ==
    ASSUME NEW k, NEW s, NEW t, NEW gone, NEW base,
           Sound(k, s), Done(DOMAIN k, {}),
           Overdeletes(k, s, t, gone), TakesOver(k, s, t, gone, base)
    PROVE  /\ Sound(base, t)
           /\ \A d \in Derivations(DOMAIN base) :
                 d.from \cap Again(s, t, gone, base) = {} => d.then \in DOMAIN base
<1> USE DEF Overdeletes, TakesOver, Again
<1>1. /\ DOMAIN base \subseteq Universe
      /\ \A f \in DOMAIN base \ Restated(s, t) : f \in DOMAIN k \ gone /\ base[f] = k[f]
      /\ \A f \in DOMAIN base \cap Restated(s, t) : f \in DrainedOf(t)
      /\ \A f \in DOMAIN k \ gone : f \in DOMAIN base \ Restated(s, t)
  BY DEF Sound, DrainedOf, Universe
<1>2. \A f : f \notin Restated(s, t) =>
             (f \in DrainedOf(t) <=> f \in DrainedOf(s)) /\ (f \in DrainedOf(s) => t[f] = s[f])
  BY DEF Restated, DrainedOf
<1>3. ASSUME NEW f \in DrainedOf(t) PROVE f \in DOMAIN base
  <2>1. CASE f \in Restated(s, t)
    BY <2>1
  <2>2. CASE f \notin Restated(s, t)
    <3>1. f \in DOMAIN k /\ k[f].explicit
      BY <2>2, <1>2 DEF Sound
    <3>2. f \notin gone
      BY <3>1, <2>2 DEF InferredOf
    <3> QED
      BY <3>1, <3>2
  <2> QED
    BY <2>1, <2>2
<1>4. ASSUME NEW f \in DOMAIN base
      PROVE  /\ base[f].explicit <=> f \in DrainedOf(t)
             /\ base[f].explicit \in BOOLEAN
             /\ base[f].id = IF f \in DrainedOf(t) THEN t[f] ELSE f
  <2>1. CASE f \in Restated(s, t)
    <3>1. base[f].explicit = TRUE /\ base[f].id = t[f]
      <4>1. base[f] = [id |-> t[f], explicit |-> TRUE, from |-> {}]
        BY <2>1
      <4> QED
        BY <4>1
    <3>2. f \in DrainedOf(t)
      BY <2>1, <1>1
    <3>3. base[f].explicit <=> f \in DrainedOf(t)
      BY <3>1, <3>2, Zenon
    <3> QED
      BY <3>1, <3>2, <3>3
  <2>2. CASE f \notin Restated(s, t)
    <3>1. base[f] = k[f] /\ f \in DOMAIN k
      BY <2>2, <1>1
    <3>2. /\ k[f].explicit <=> f \in DrainedOf(s)
          /\ k[f].explicit \in BOOLEAN
          /\ k[f].id = IF f \in DrainedOf(s) THEN s[f] ELSE f
      BY <3>1 DEF Sound
    <3> QED
      BY <3>1, <3>2, <2>2, <1>2
  <2> QED
    BY <2>1, <2>2
<1>5. ASSUME NEW f \in InferredOf(base)
      PROVE  /\ f \in InferredOf(k) /\ f \notin gone /\ base[f] = k[f]
             /\ f \notin Restated(s, t)
  <2>1. f \notin Restated(s, t)
    <3>1. ~base[f].explicit /\ f \in DOMAIN base
      BY DEF InferredOf
    <3> QED
      BY <3>1, <1>1, <1>4
  <2> QED
    BY <2>1, <1>1 DEF InferredOf
<1>6. ASSUME NEW f \in InferredOf(k), f \notin gone
      PROVE  /\ [from |-> k[f].from, then |-> f] \in Derivations(DOMAIN k)
             /\ k[f].from \cap gone = {}
             /\ f \in InferredOf(base) /\ base[f] = k[f]
  <2>1. [from |-> k[f].from, then |-> f] \in Derivations(DOMAIN k)
    BY DEF Sound, CreditsOf
  <2>2. k[f].from \cap gone = {}
    BY <2>1, <1>6
  <2>3. f \in DOMAIN base \ Restated(s, t) /\ base[f] = k[f]
    BY <1>1, <1>6 DEF InferredOf
  <2> QED
    BY <2>1, <2>2, <2>3 DEF InferredOf
<1>7. ASSUME NEW f \in InferredOf(base)
      PROVE  [from |-> base[f].from, then |-> f] \in Derivations(DOMAIN base)
  BY <1>5, <1>6 DEF Derivations
<1>8. ASSUME NEW T \in SUBSET Universe, DrainedOf(t) \subseteq T, Shut(CreditsOf(base), T)
      PROVE  DOMAIN base \subseteq T
  <2>1. T \cup gone \in SUBSET Universe
    BY DEF Sound
  <2>2. DrainedOf(s) \subseteq T \cup gone
    BY <1>2, <1>8 DEF Sound
  <2>3. ASSUME NEW f \in InferredOf(k), k[f].from \subseteq T \cup gone PROVE f \in T \cup gone
    <3>1. SUFFICES ASSUME f \notin gone PROVE f \in T
      OBVIOUS
    <3>2. k[f].from \subseteq T /\ f \in InferredOf(base) /\ base[f] = k[f]
      BY <1>6, <2>3, <3>1
    <3>3. [from |-> k[f].from, then |-> f] \in CreditsOf(base)
      BY <3>2 DEF CreditsOf
    <3> QED
      BY <3>2, <3>3, <1>8 DEF Shut
  <2>4. Shut(CreditsOf(k), T \cup gone)
    BY <2>3 DEF Shut, CreditsOf
  <2>5. DOMAIN k \subseteq T \cup gone
    BY <2>1, <2>2, <2>4 DEF Sound, LeastOver
  <2> QED
    BY <2>5, <1>1, <1>8
<1>9. Sound(base, t)
  <2>1. DOMAIN base \subseteq LeastOver(CreditsOf(base), DrainedOf(t))
    BY <1>1, <1>8 DEF LeastOver
  <2>2. CreditsOf(base) \subseteq Derivations(DOMAIN base)
    BY <1>7 DEF CreditsOf
  <2>3. DrainedOf(t) \subseteq DOMAIN base
    BY <1>3
  <2> QED
    BY <1>1, <2>1, <2>2, <2>3, <1>4, Zenon DEF Sound
<1>10. ASSUME NEW d \in Derivations(DOMAIN base),
              d.from \cap Again(s, t, gone, base) = {}
       PROVE  d.then \in DOMAIN base
  <2>1. d \in Rules /\ d.from \subseteq DOMAIN base
    BY DEF Derivations
  <2>2. d.from \subseteq DOMAIN k \ gone
    BY <2>1, <1>1, <1>10
  <2>3. d \in Derivations(DOMAIN k)
    BY <2>1, <2>2 DEF Derivations
  <2>4. d.then \in DOMAIN k
    BY <2>3 DEF Done
  <2>5. PICK g \in d.from : Mentions(g, d.then[1])
    BY <2>1, EachProper DEF Proper
  <2>6. d.then \notin gone
    BY <2>1, <2>5, <1>10 DEF Candidates
  <2> QED
    BY <2>4, <2>6
<1> QED
  BY <1>9, <1>10

-----------------------------------------------------------------------------
(* Steps of the engine *)

(* What is overdeleted holds what changed, only facts, of the explicit ones *)
(* only those that changed, and whatever one of them helps derive.          *)
LEMMA OverdeletedRight ==
    ASSUME Sound(known, seen), NEW S \in SUBSET Facts
    PROVE  /\ S \subseteq Overdeleted(S) /\ Overdeleted(S) \subseteq Facts
           /\ \A f \in Overdeleted(S) : f \in S \/ f \in InferredOf(known)
           /\ \A d \in Derivations(Facts) :
                 d.from \cap Overdeleted(S) # {} /\ d.then \in InferredOf(known)
                 => d.then \in Overdeleted(S)
<1> DEFINE gone == Overdeleted(S)
<1>1. Facts \subseteq Universe /\ S \in SUBSET Universe
  BY DEF Sound, Facts
<1>2. Within(Helps)
  BY <1>1 DEF Within, Helps
<1>3. gone = LeastOver(Helps, S)
  BY <1>1, <1>2, RulesWithin, ClosureIsLeast DEF Overdeleted
<1>4. /\ S \subseteq gone /\ gone \in SUBSET Universe /\ Shut(Helps, gone)
      /\ \A T \in SUBSET Universe : S \subseteq T /\ Shut(Helps, T) => gone \subseteq T
  BY <1>1, <1>2, <1>3, LeastIsShut
<1> HIDE DEF gone
<1>5. gone \subseteq S \cup InferredOf(known)
  <2> DEFINE T == S \cup InferredOf(known)
  <2>1. T \in SUBSET Universe /\ S \subseteq T
    BY <1>1 DEF InferredOf, Facts
  <2>2. Shut(Helps, T)
    BY DEF Shut, Helps, InferredOf, Facts
  <2> QED
    BY <2>1, <2>2, <1>4
<1>6. ASSUME NEW d \in Derivations(Facts), d.from \cap gone # {}, d.then \in InferredOf(known)
      PROVE  d.then \in gone
  <2>1. PICK f \in d.from : f \in gone
    BY <1>6
  <2>2. [from |-> {f}, then |-> d.then] \in Helps
    <3>1. d \in {e \in Derivations(Facts) : e.then \in Facts /\ ~known[e.then].explicit}
      BY <1>6 DEF InferredOf, Facts
    <3>2. [from |-> {f}, then |-> d.then] \in {[from |-> {g}, then |-> d.then] : g \in d.from}
      OBVIOUS
    <3> QED
      BY <3>1, <3>2 DEF Helps
  <2> QED
    BY <2>1, <2>2, <1>4 DEF Shut
<1> QED
  BY <1>4, <1>5, <1>6 DEF gone, InferredOf, Facts

(* Derive adds what was found, and that is what is to be fired next. *)
LEMMA DeriveGrows ==
    ASSUME NEW base, NEW found, Derive(base, found)
    PROVE  Grows(known', base, found) /\ fresh' = Conclusions(found) \ DOMAIN base
<1> DEFINE new == Conclusions(found) \ DOMAIN base
<1>1. PICK credit \in Credits(new, found) :
         /\ known' = [f \in DOMAIN base \cup new |->
                        IF f \in new THEN Inferred(f, credit[f].from) ELSE base[f]]
         /\ fresh' = new
  BY DEF Derive
<1>2. \A f \in new : credit[f] \in found /\ credit[f].then = f
  BY DEF Credits
<1>3. ASSUME NEW f \in DOMAIN known' \ DOMAIN base
      PROVE  \E d \in found : d.then = f
                 /\ known'[f] = [id |-> f, explicit |-> FALSE, from |-> d.from]
  <2>1. f \in new /\ known'[f] = Inferred(f, credit[f].from)
    BY <1>1
  <2>2. known'[f] = [id |-> f, explicit |-> FALSE, from |-> credit[f].from]
    BY <2>1 DEF Inferred
  <2> QED
    BY <2>1, <2>2, <1>2
<1>4. DOMAIN known' = DOMAIN base \cup Conclusions(found) /\ \A f \in DOMAIN base : known'[f] = base[f]
  BY <1>1
<1> QED
  BY <1>1, <1>3, <1>4 DEF Grows

-----------------------------------------------------------------------------
(* The invariant *)

(* Every row makes a statement it may make. *)
RowsType ==
    /\ stated \in [Ids -> Statable \cup {Nothing}]
    /\ \A id \in Ids : stated[id] \in MayState(id) \cup {Nothing}

(* No two statements are credited to one row, and none to the digest of     *)
(* another.                                                                 *)
SeenRight(s) ==
    /\ \A f \in DrainedOf(s) : s[f] \in Ids /\ (s[f] \in Statable => s[f] = f)
    /\ \A f, g \in DrainedOf(s) : s[f] = s[g] => f = g

(* Between rounds, what is stated is as it was when the batch was drained.  *)
ChosenNow == [f \in Statable |-> Chosen(f)]
SeenInv ==
    /\ seen \in [Statable -> Ids \cup {Nothing}] /\ SeenRight(seen)
    /\ pc \in {"deriving", "persisting"} => seen = ChosenNow

(* What the engine knows is sound, and complete once nothing is fresh.      *)
EngineInv ==
    /\ fresh \subseteq Facts
    /\ pc \in {"idle", "persisting"} => fresh = {}
    /\ pc # "lost" => Sound(known, seen) /\ Done(Facts, fresh)
    /\ pc = "lost" => Facts = {}

(* What a stored inference is like. *)
Kept(r) == r = [supports |-> r.supports, kept |-> r.kept] /\ r.kept \in BOOLEAN

(* The store is right about whatever a comparison to come does not look at. *)
Looked == IF pc = "idle" THEN {} ELSE removed \cup fresh
RightIn(k, s, f) ==
    /\ f \in DOMAIN stored <=> f \in DOMAIN k \ DrainedOf(s)
    /\ f \in DOMAIN stored /\ ~stored[f].kept =>
          stored[f].supports = {k[g].id : g \in k[f].from}
StoredInv ==
    /\ DOMAIN stored \subseteq Universe /\ \A f \in DOMAIN stored : Kept(stored[f])
    /\ pc = "idle" \/ (pc \in {"deriving", "persisting"} /\ mode = "changed") =>
          \A f \in Universe \ Looked : RightIn(known, seen, f)

EngineType ==
    /\ removed \subseteq Universe
    /\ pc \in {"idle", "deriving", "persisting", "lost"}
    /\ mode \in {"changed", "all", "keepLive"}

DRedInv == RowsType /\ SeenInv /\ EngineInv /\ StoredInv /\ EngineType

(* The statements are credited to rows that make them. *)
LEMMA ChosenRight ==
    ASSUME RowsType
    PROVE  /\ SeenRight(ChosenNow) /\ ChosenNow \in [Statable -> Ids \cup {Nothing}]
           /\ DrainedOf(ChosenNow) = Explicit
<1>1. ASSUME NEW f \in Statable
      PROVE  /\ Chosen(f) \in Ids \cup {Nothing}
             /\ Chosen(f) # Nothing => Chosen(f) \in Ids /\ stated[Chosen(f)] = f
  <2>1. CASE Holders(f) = {}
    BY <2>1 DEF Chosen
  <2>2. CASE Holders(f) # {}
    <3>1. Least(Holders(f)) \in Holders(f)
      BY <2>2 DEF Least
    <3> QED
      BY <3>1, <2>2 DEF Chosen, Holders
  <2> QED
    BY <2>1, <2>2
<1>2. ASSUME NEW f \in Statable, Chosen(f) # Nothing, Chosen(f) \in Statable
      PROVE  Chosen(f) = f
  <2>1. stated[Chosen(f)] = f /\ Chosen(f) \in Ids /\ Chosen(f) \notin OwnIds
    BY <1>1, <1>2, DRedAssumption DEF OwnIds, Universe
  <2>2. stated[Chosen(f)] \in {Chosen(f), Nothing}
    BY <2>1 DEF RowsType, MayState
  <2>3. f # Nothing
    BY DRedAssumption DEF Universe
  <2> QED
    BY <2>1, <2>2, <2>3
<1>3. \A f \in DrainedOf(ChosenNow) : f \in Statable /\ ChosenNow[f] = Chosen(f) /\ Chosen(f) # Nothing
  BY DEF DrainedOf, ChosenNow
<1>4. SeenRight(ChosenNow)
  BY <1>1, <1>2, <1>3 DEF SeenRight
<1>5. ChosenNow \in [Statable -> Ids \cup {Nothing}]
  BY <1>1 DEF ChosenNow
<1>6. DrainedOf(ChosenNow) = Explicit
  BY DEF DrainedOf, ChosenNow, Explicit
<1> QED
  BY <1>4, <1>5, <1>6

LEMMA DRedInitInv == DRedInit => DRedInv
<1> SUFFICES ASSUME DRedInit PROVE DRedInv
  OBVIOUS
<1> USE DEF DRedInit
<1>1. RowsType
  BY DEF RowsType
<1>2. DrainedOf(seen) = {}
  BY DEF DrainedOf
<1>3. SeenInv
  BY <1>2 DEF SeenInv, SeenRight
<1>4. Facts = {} /\ DOMAIN known = {}
  BY DEF Facts
<1>5. Sound(known, seen) /\ Done(DOMAIN known, DOMAIN known)
  BY <1>2, <1>4, ScratchSound
<1>6. EngineInv
  BY <1>4, <1>5 DEF EngineInv, Facts
<1>7. \A f : RightIn(known, seen, f)
  BY <1>4 DEF RightIn
<1>8. StoredInv
  BY <1>7 DEF StoredInv
<1> QED
  BY <1>1, <1>3, <1>6, <1>8 DEF DRedInv, EngineType

(* A row changes: nobody has looked at it yet. *)
LEMMA SetRowKeeps ==
    ASSUME DRedInv, NEW id \in Ids, SetRow(id)
    PROVE  DRedInv'
<1>1. RowsType'
  <2>1. PICK f \in MayState(id) \cup {Nothing} : stated' = [stated EXCEPT ![id] = f]
    BY DEF SetRow
  <2>2. f \in Statable \cup {Nothing}
    BY DRedAssumption DEF MayState, OwnIds, Ids
  <2>3. stated' \in [Ids -> Statable \cup {Nothing}]
    BY <2>1, <2>2 DEF DRedInv, RowsType
  <2>4. \A i \in Ids : stated'[i] \in MayState(i) \cup {Nothing}
    BY <2>1 DEF DRedInv, RowsType
  <2> QED
    BY <2>3, <2>4 DEF RowsType, Ids, MayState, OwnIds
<1>2. /\ pc = "idle" /\ UNCHANGED <<seen, known, fresh, removed, pc, mode, stored>>
  BY DEF SetRow, engine
<1>3. SeenInv'
  BY <1>2 DEF DRedInv, SeenInv, Ids, OwnIds
<1>4. EngineInv' /\ StoredInv' /\ EngineType'
  BY <1>2 DEF DRedInv, EngineInv, StoredInv, EngineType, Facts, Looked, RightIn
<1> QED
  BY <1>1, <1>3, <1>4 DEF DRedInv

(* Which rows are chosen is a matter of the rows. *)
LEMMA SameChosen ==
    ASSUME stated' = stated
    PROVE  ChosenNow' = ChosenNow /\ (RowsType => RowsType')
  BY DEF ChosenNow, Chosen, Holders, Ids, OwnIds, RowsType, MayState

(* Computing afresh begins with what is stated, and will look at every row. *)
LEMMA ScratchKeeps ==
    ASSUME DRedInv, NEW how \in {"all", "keepLive"}, FromScratch(how),
           seen' = ChosenNow, UNCHANGED <<stated, stored>>
    PROVE  DRedInv'
<1>1. RowsType /\ RowsType' /\ ChosenNow' = ChosenNow
  BY SameChosen DEF DRedInv
<1>2. SeenRight(seen') /\ DrainedOf(seen') = Explicit /\ seen' \in [Statable -> Ids \cup {Nothing}]
  BY <1>1, ChosenRight
<1>3. SeenInv'
  BY <1>1, <1>2 DEF SeenInv
<1>4. DOMAIN known' = Explicit /\ Facts' = Explicit
  BY DEF FromScratch, Facts
<1>5. \A f \in DOMAIN known' : known'[f] = [id |-> seen'[f], explicit |-> TRUE, from |-> {}]
  BY DEF FromScratch, Stated, Explicit, ChosenNow
<1>6. Sound(known', seen') /\ Done(DOMAIN known', DOMAIN known')
  BY <1>2, <1>4, <1>5, ScratchSound
<1>7. fresh' = Facts' /\ Facts' = DOMAIN known'
  BY <1>4 DEF FromScratch
<1>8. EngineInv'
  BY <1>6, <1>7 DEF EngineInv, FromScratch
<1>9. StoredInv'
  BY DEF FromScratch, DRedInv, StoredInv
<1>10. EngineType'
  BY DEF FromScratch, EngineType
<1> QED
  BY <1>1, <1>3, <1>8, <1>9, <1>10 DEF DRedInv

LEMMA RecomputeKeeps ==
    ASSUME DRedInv, Recompute \/ TakeBaseline
    PROVE  DRedInv'
<1>1. seen' = ChosenNow /\ UNCHANGED <<stated, stored>>
  BY DEF Recompute, TakeBaseline, Drain, ChosenNow
<1>2. CASE Recompute
  BY <1>1, <1>2, ScratchKeeps DEF Recompute
<1>3. CASE TakeBaseline
  BY <1>1, <1>3, ScratchKeeps DEF TakeBaseline
<1> QED
  BY <1>2, <1>3

(* Nothing changed: what was drained is what is drained. *)
LEMMA NothingChangedKeeps ==
    ASSUME DRedInv, NothingChanged
    PROVE  DRedInv'
<1>1. UNCHANGED <<stated, known, fresh, removed, pc, mode, stored>> /\ pc = "idle"
  BY DEF NothingChanged, engine
<1>2. seen' = seen
  BY DEF NothingChanged, Drain, Changed, DRedInv, SeenInv
<1>3. RowsType' /\ SeenInv'
  BY <1>1, <1>2, SameChosen DEF DRedInv, SeenInv, Ids, OwnIds
<1> QED
  BY <1>1, <1>2, <1>3
     DEF DRedInv, EngineInv, StoredInv, EngineType, Facts, Looked, RightIn

(* The loop ends, or everything is lost. *)
LEMMA SettledKeeps ==
    ASSUME DRedInv, Settled
    PROVE  DRedInv'
<1>1. UNCHANGED <<stated, seen, known, fresh, removed, mode, stored>>
      /\ pc = "deriving" /\ pc' = "persisting" /\ fresh = {}
  BY DEF Settled, engine
<1>2. RowsType' /\ SeenInv'
  BY <1>1, SameChosen DEF DRedInv, SeenInv, Ids, OwnIds
<1> QED
  BY <1>1, <1>2
     DEF DRedInv, EngineInv, StoredInv, EngineType, Facts, Looked, RightIn

LEMMA LoseKeeps ==
    ASSUME DRedInv, Lose
    PROVE  DRedInv'
<1>1. UNCHANGED <<stated, seen, stored>> /\ pc' = "lost" /\ fresh' = {} /\ Facts' = {}
      /\ mode' = "all" /\ removed' = {}
  BY DEF Lose, Facts
<1>2. RowsType' /\ SeenInv'
  BY <1>1, SameChosen DEF DRedInv, SeenInv, Ids, OwnIds
<1> QED
  BY <1>1, <1>2 DEF DRedInv, EngineInv, StoredInv, EngineType

(* The diff is stored: what it looked at is right now, the rest was. *)
LEMMA StoreDiffKeeps ==
    ASSUME DRedInv, StoreDiff
    PROVE  DRedInv'
<1>1. UNCHANGED <<stated, seen, known, fresh>> /\ pc = "persisting" /\ pc' = "idle"
      /\ mode' = "all" /\ removed' = {} /\ fresh = {}
  BY DEF StoreDiff, DRedInv, EngineInv
<1>2. RowsType' /\ SeenInv'
  BY <1>1, SameChosen DEF DRedInv, SeenInv, Ids, OwnIds
<1>3. EngineInv'
  BY <1>1 DEF DRedInv, EngineInv, Facts
<1>4. Sound(known, seen) /\ Facts = DOMAIN known
  BY <1>1 DEF DRedInv, EngineInv, Facts
<1>5. \A f : f \in Inferences <=> f \in Facts \ DrainedOf(seen)
  BY <1>4 DEF Sound, Inferences
<1>6. DOMAIN stored' = (DOMAIN stored \ Compared) \cup (Compared \cap Inferences)
  BY DEF StoreDiff
<1>7. DOMAIN stored' \subseteq Universe
  BY <1>4, <1>6 DEF Sound, Inferences, DRedInv, StoredInv
<1>8. ASSUME NEW f \in DOMAIN stored'
      PROVE  Kept(stored'[f]) /\ (f \in Compared /\ ~stored'[f].kept =>
                stored'[f].supports = {known[g].id : g \in known[f].from})
  <2>1. CASE f \notin Compared
    <3>1. stored'[f] = stored[f] /\ f \in DOMAIN stored
      BY <2>1, <1>6 DEF StoreDiff
    <3> QED
      BY <3>1, <2>1 DEF DRedInv, StoredInv
  <2>2. CASE f \in Compared /\ Keeps(f)
    <3>1. stored'[f] = [stored[f] EXCEPT !.kept = TRUE] /\ Kept(stored[f])
      BY <2>2 DEF StoreDiff, Keeps, DRedInv, StoredInv
    <3>2. stored'[f] = [supports |-> stored[f].supports, kept |-> TRUE]
      BY <3>1 DEF Kept
    <3> QED
      BY <3>2 DEF Kept
  <2>3. CASE f \in Compared /\ ~Keeps(f)
    <3>1. stored'[f] = [supports |-> Supports(f), kept |-> FALSE]
      BY <2>3 DEF StoreDiff
    <3> QED
      BY <3>1 DEF Kept, Supports, IdOf
  <2> QED
    BY <2>1, <2>2, <2>3
<1>9. ASSUME NEW f \in Universe
      PROVE  RightIn(known, seen, f)'
  <2>1. CASE f \in Compared
    BY <2>1, <1>1, <1>4, <1>5, <1>6, <1>8 DEF RightIn
  <2>2. CASE f \notin Compared
    <3>1. f \in DOMAIN stored' <=> f \in DOMAIN stored
      BY <2>2, <1>6
    <3>2. f \in DOMAIN stored => stored'[f] = stored[f]
      BY <2>2 DEF StoreDiff
    <3>3. CASE mode = "changed"
      <4>1. f \notin Looked
        BY <3>3, <2>2, <1>1 DEF Compared, Looked
      <4>2. RightIn(known, seen, f)
        BY <4>1, <3>3, <1>1 DEF DRedInv, StoredInv
      <4> QED
        BY <4>2, <3>1, <3>2, <1>1 DEF RightIn
    <3>4. CASE mode # "changed"
      <4>1. f \notin Facts /\ f \notin DOMAIN stored
        BY <3>4, <2>2 DEF Compared
      <4> QED
        BY <4>1, <3>1, <1>1, <1>4 DEF RightIn
    <3> QED
      BY <3>3, <3>4
  <2> QED
    BY <2>1, <2>2
<1>10. StoredInv'
  BY <1>7, <1>8, <1>9 DEF StoredInv
<1> QED
  BY <1>1, <1>2, <1>3, <1>10 DEF DRedInv, EngineType

(* What a stored inference is credited to is known as before, if that and   *)
(* the inference are.                                                       *)
LEMMA StaysRight ==
    ASSUME NEW k, NEW s, NEW j, NEW t, NEW f, Sound(k, s), RightIn(k, s, f),
           f \in DOMAIN k \ DrainedOf(s) <=> f \in DOMAIN j \ DrainedOf(t),
           f \in InferredOf(k) => j[f] = k[f] /\ \A g \in k[f].from : j[g] = k[g]
    PROVE  RightIn(j, t, f)
<1>1. f \in DOMAIN stored => f \in InferredOf(k)
  BY DEF RightIn, Sound, InferredOf
<1>2. f \in InferredOf(k) => {j[g].id : g \in j[f].from} = {k[g].id : g \in k[f].from}
  OBVIOUS
<1> QED
  BY <1>1, <1>2 DEF RightIn

(* One round. *)
LEMMA PropagateKeeps ==
    ASSUME DRedInv, Propagate
    PROVE  DRedInv'
<1>1. pc = "deriving" /\ UNCHANGED <<stated, seen, stored>> /\ seen = ChosenNow
  BY DEF Propagate, DRedInv, SeenInv
<1>2. CASE mode = "changed" /\ \E f \in fresh : Recomputed(f)
  <2>1. FromScratch("keepLive") /\ seen' = ChosenNow
    BY <1>1, <1>2 DEF Propagate
  <2> QED
    BY <1>1, <2>1, ScratchKeeps
<1>3. CASE ~(mode = "changed" /\ \E f \in fresh : Recomputed(f))
  <2> DEFINE found == Fire(fresh, Facts)
  <2>1. /\ Derive(known, found) /\ pc' = pc /\ mode' = mode
        /\ removed' = IF mode = "changed" THEN removed \cup fresh ELSE removed
    BY <1>3 DEF Propagate
  <2>2. /\ Sound(known, seen) /\ Done(Facts, fresh) /\ fresh \subseteq Facts
        /\ Facts = DOMAIN known /\ Facts' = DOMAIN known' /\ removed \subseteq Universe
    BY <1>1 DEF DRedInv, EngineInv, EngineType, Facts
  <2>3. found \subseteq Derivations(DOMAIN known)
    BY <2>2 DEF Fire
  <2>4. Grows(known', known, found) /\ fresh' = Conclusions(found) \ DOMAIN known
    BY <2>1, DeriveGrows
  <2>5. \A d \in Derivations(DOMAIN known) : d.from \cap fresh = {} => d.then \in DOMAIN known
    BY <2>2 DEF Done, Derivations
  <2>6. Fire(fresh, DOMAIN known) \subseteq found
    BY <2>2
  <2> HIDE DEF found
  <2>7. Sound(known', seen)
    BY <2>2, <2>3, <2>4, GrowsSound
  <2>8. Done(DOMAIN known', fresh')
    BY <2>4, <2>5, <2>6, GrowsDone
  <2>9. fresh' \subseteq Facts'
    BY <2>2, <2>4 DEF Grows
  <2>10. EngineInv'
    BY <1>1, <2>1, <2>2, <2>7, <2>8, <2>9 DEF EngineInv
  <2>11. RowsType' /\ SeenInv'
    BY <1>1, <2>1, SameChosen DEF DRedInv, SeenInv, Ids, OwnIds
  <2>12. ASSUME mode = "changed", NEW f \in Universe \ Looked'
         PROVE  RightIn(known', seen, f)
    <3>1. f \notin Looked /\ f \notin fresh'
      BY <2>12, <2>1, <1>1 DEF Looked
    <3>2. RightIn(known, seen, f)
      BY <3>1, <2>12, <1>1 DEF DRedInv, StoredInv
    <3>3. f \in DOMAIN known <=> f \in DOMAIN known'
      BY <3>1, <2>4 DEF Grows
    <3>4. f \in InferredOf(known) => known[f].from \subseteq DOMAIN known
      <4>1. f \in InferredOf(known) =>
               [from |-> known[f].from, then |-> f] \in Derivations(DOMAIN known)
        BY <2>2 DEF Sound, CreditsOf
      <4> QED
        BY <4>1 DEF Derivations
    <3>5. f \in InferredOf(known) =>
             known'[f] = known[f] /\ \A g \in known[f].from : known'[g] = known[g]
      BY <3>4, <2>4 DEF Grows, InferredOf
    <3> QED
      BY <3>2, <3>3, <3>5, <2>2, StaysRight
  <2>13. StoredInv'
    BY <2>12, <2>1, <1>1 DEF DRedInv, StoredInv, RightIn
  <2>14. EngineType'
    BY <2>1, <2>2, <1>1 DEF DRedInv, EngineType, Sound
  <2> QED
    BY <2>10, <2>11, <2>13, <2>14 DEF DRedInv
<1> QED
  BY <1>2, <1>3

(* Overdelete, take over the explicit statements, derive again. *)
LEMMA UpdateKeeps ==
    ASSUME DRedInv, Update
    PROVE  DRedInv'
<1> DEFINE gone == Overdeleted(Changed \cap Facts)
           added == Changed \cap Explicit
           base == [f \in (Facts \ gone) \cup added |-> IF f \in added THEN Stated(f) ELSE known[f]]
           again == Candidates(DOMAIN base, gone) \cup added
           found == Fire(again, DOMAIN base)
<1>1. /\ pc = "idle" /\ pc' = "deriving" /\ mode' = "changed" /\ UNCHANGED <<stated, stored>>
      /\ seen' = ChosenNow
      /\ Derive(base, found) /\ removed' = gone \cup Changed
  BY DEF Update, Drain, ChosenNow
<1>2. /\ Sound(known, seen) /\ Done(Facts, {}) /\ Facts = DOMAIN known /\ Facts' = DOMAIN known'
      /\ Looked = {}
  BY <1>1 DEF DRedInv, EngineInv, Facts, Looked
<1>3. Changed = Restated(seen, ChosenNow) /\ Explicit = DrainedOf(ChosenNow)
  BY ChosenRight DEF Changed, Restated, ChosenNow, DRedInv
<1>4. /\ Changed \cap Facts \subseteq gone /\ gone \subseteq Facts
      /\ \A f \in gone : f \in Changed \/ f \in InferredOf(known)
      /\ \A d \in Derivations(Facts) :
            d.from \cap gone # {} /\ d.then \in InferredOf(known) => d.then \in gone
  <2>1. Changed \cap Facts \in SUBSET Facts
    OBVIOUS
  <2> QED
    BY <2>1, <1>2, OverdeletedRight
<1> HIDE DEF gone
<1>5. DOMAIN base = (DOMAIN known \ gone) \cup (Changed \cap Explicit)
  BY <1>2
<1>6. ASSUME NEW f \in DOMAIN base
      PROVE  base[f] = IF f \in Changed THEN [id |-> ChosenNow[f], explicit |-> TRUE, from |-> {}]
                                       ELSE known[f]
  <2>1. f \in Changed => f \in added
    BY <1>4, <1>6
  <2>2. f \in Changed => Stated(f) = [id |-> ChosenNow[f], explicit |-> TRUE, from |-> {}]
    BY DEF Stated, ChosenNow, Changed
  <2> QED
    BY <2>1, <2>2
<1>7. again = Candidates(DOMAIN base, gone) \cup (Changed \cap Explicit)
  OBVIOUS
<1> HIDE DEF base, again
<1>8. /\ Sound(base, ChosenNow)
      /\ \A d \in Derivations(DOMAIN base) : d.from \cap again = {} => d.then \in DOMAIN base
  <2>1. \A f \in DOMAIN base :
           base[f] = IF f \in Restated(seen, ChosenNow)
                     THEN [id |-> ChosenNow[f], explicit |-> TRUE, from |-> {}] ELSE known[f]
    BY <1>3, <1>6
  <2>2. Overdeletes(known, seen, ChosenNow, gone)
    BY <1>2, <1>3, <1>4 DEF Overdeletes
  <2>3. TakesOver(known, seen, ChosenNow, gone, base)
    BY <1>3, <1>5, <2>1 DEF TakesOver
  <2>4. again = Again(seen, ChosenNow, gone, base)
    BY <1>3, <1>7 DEF Again
  <2>5. Sound(known, seen) /\ Done(DOMAIN known, {})
    BY <1>2
  <2> QED
    BY <2>2, <2>3, <2>4, <2>5, BaseSound
<1>9. found \subseteq Derivations(DOMAIN base) /\ Fire(again, DOMAIN base) \subseteq found
  BY DEF Fire
<1> HIDE DEF found
<1>10. Grows(known', base, found) /\ fresh' = Conclusions(found) \ DOMAIN base
  BY <1>1, DeriveGrows
<1>11. Sound(known', ChosenNow)
  BY <1>8, <1>9, <1>10, GrowsSound
<1>12. Done(DOMAIN known', fresh')
  BY <1>8, <1>9, <1>10, GrowsDone
<1>13. EngineInv'
  <2>1. fresh' \subseteq Facts'
    BY <1>2, <1>10 DEF Grows
  <2> QED
    BY <2>1, <1>1, <1>2, <1>11, <1>12 DEF EngineInv
<1>14. RowsType' /\ SeenInv'
  BY <1>1, SameChosen, ChosenRight DEF DRedInv, SeenInv, Ids, OwnIds
<1>15. ASSUME NEW f \in Universe \ Looked'
       PROVE  RightIn(known', ChosenNow, f)
  <2>1. f \notin gone /\ f \notin Changed /\ f \notin fresh'
    BY <1>1 DEF Looked
  <2>2. RightIn(known, seen, f)
    BY <1>1, <1>2 DEF DRedInv, StoredInv
  <2>3. f \in DOMAIN known <=> f \in DOMAIN known'
    BY <2>1, <1>5, <1>10 DEF Grows
  <2>4. f \in DrainedOf(seen) <=> f \in DrainedOf(ChosenNow)
    BY <2>1, <1>3 DEF Restated, DrainedOf
  <2>5. \A g \in DOMAIN known \ gone : g \in DOMAIN base /\ known'[g] = known[g]
    <3>1. ASSUME NEW g \in DOMAIN known \ gone PROVE g \in DOMAIN base /\ known'[g] = known[g]
      <4>1. g \in DOMAIN base /\ g \notin Changed
        BY <1>2, <1>4, <1>5
      <4>2. base[g] = known[g]
        BY <4>1, <1>6
      <4> QED
        BY <4>1, <4>2, <1>10 DEF Grows
    <3> QED
      BY <3>1
  <2>6. f \in InferredOf(known) =>
           known'[f] = known[f] /\ \A g \in known[f].from : known'[g] = known[g]
    <3>1. SUFFICES ASSUME f \in InferredOf(known)
                   PROVE  known'[f] = known[f] /\ \A g \in known[f].from : known'[g] = known[g]
      OBVIOUS
    <3>2. [from |-> known[f].from, then |-> f] \in Derivations(Facts)
      BY <3>1, <1>2 DEF Sound, CreditsOf
    <3>3. known[f].from \subseteq DOMAIN known /\ known[f].from \cap gone = {}
      BY <3>1, <3>2, <2>1, <1>2, <1>4 DEF Derivations
    <3> QED
      BY <3>1, <3>3, <2>1, <2>5 DEF InferredOf
  <2> QED
    BY <2>2, <2>3, <2>4, <2>6, <1>2, StaysRight
<1>16. StoredInv'
  BY <1>15, <1>1 DEF DRedInv, StoredInv, RightIn
<1>17. EngineType'
  BY <1>1, <1>2, <1>4 DEF EngineType, Sound, Changed, Universe
<1> QED
  BY <1>13, <1>14, <1>16, <1>17 DEF DRedInv

-----------------------------------------------------------------------------
(* What follows *)

(* Whatever happens to rows, batches and writes, the invariant holds. *)
THEOREM DRedHolds == DRedSpec => []DRedInv
<1>1. DRedInv /\ [DRedNext]_dredVars => DRedInv'
  <2> SUFFICES ASSUME DRedInv, [DRedNext]_dredVars PROVE DRedInv'
    OBVIOUS
  <2>1. CASE \E id \in Ids : SetRow(id)
    BY <2>1, SetRowKeeps
  <2>2. CASE Update
    BY <2>2, UpdateKeeps
  <2>3. CASE Recompute \/ TakeBaseline
    BY <2>3, RecomputeKeeps
  <2>4. CASE NothingChanged
    BY <2>4, NothingChangedKeeps
  <2>5. CASE Propagate
    BY <2>5, PropagateKeeps
  <2>6. CASE Settled
    BY <2>6, SettledKeeps
  <2>7. CASE StoreDiff
    BY <2>7, StoreDiffKeeps
  <2>8. CASE Lose
    BY <2>8, LoseKeeps
  <2>9. CASE UNCHANGED dredVars
    <3>1. UNCHANGED <<stated, seen, known, fresh, removed, pc, mode, stored>>
      BY <2>9 DEF dredVars
    <3>2. RowsType' /\ SeenInv'
      BY <3>1, SameChosen DEF DRedInv, SeenInv, Ids, OwnIds
    <3> QED
      BY <3>1, <3>2 DEF DRedInv, EngineInv, StoredInv, EngineType, Facts, Looked, RightIn
  <2> QED
    BY <2>1, <2>2, <2>3, <2>4, <2>5, <2>6, <2>7, <2>8, <2>9 DEF DRedNext
<1> QED
  BY <1>1, DRedInitInv, PTL DEF DRedSpec

LEMMA DRedTypes == DRedInv => DRedTypeOK
<1> SUFFICES ASSUME DRedInv PROVE DRedTypeOK
  OBVIOUS
<1>1. Facts \subseteq Universe
  BY DEF DRedInv, EngineInv, EngineType, Sound, Facts
<1> QED
  BY <1>1 DEF DRedTypeOK, DRedInv, EngineInv, EngineType, RowsType, SeenInv, StoredInv

(* Known by another name. *)
LEMMA SameNames ==
    Facts = DOMAIN known /\ Inferences = InferredOf(known) /\ Credited = CreditsOf(known)
    /\ Drained = DrainedOf(seen)
  BY DEF Facts, Inferences, InferredOf, Credited, CreditsOf, Drained, DrainedOf

(* inference_dred.go:13-25: the materialization is the least fixed point of *)
(* the rules over the explicit statements, and the store holds what of it   *)
(* is not explicit.                                                         *)
THEOREM ExactHolds == DRedSpec => []Exact
<1>1. DRedInv => Exact
  <2> SUFFICES ASSUME DRedInv PROVE Exact
    OBVIOUS
  <2>1. ASSUME pc \in {"idle", "persisting"} PROVE Facts = Closure(Drained)
    <3>1. Sound(known, seen) /\ Done(Facts, {}) /\ Facts = DOMAIN known /\ Drained = DrainedOf(seen)
      BY <2>1, SameNames DEF DRedInv, EngineInv
    <3>2. Drained \in SUBSET Universe /\ Facts \in SUBSET Universe /\ Drained \subseteq Facts
      BY <3>1 DEF Sound
    <3>3. Closure(Drained) = LeastOver(Rules, Drained)
      BY <3>2, RulesWithin, ClosureIsLeast DEF Closure
    <3>4. Shut(Rules, Facts)
      BY <3>1 DEF Done, Shut, Derivations
    <3>5. LeastOver(Rules, Drained) \subseteq Facts
      BY <3>2, <3>4, RulesWithin, LeastIsShut
    <3>6. ASSUME NEW T \in SUBSET Universe, Drained \subseteq T, Shut(Rules, T)
          PROVE  Facts \subseteq T
      <4>1. Shut(CreditsOf(known), T)
        BY <3>1, <3>6 DEF Sound, Shut, Derivations
      <4> QED
        BY <3>1, <3>6, <4>1 DEF Sound, LeastOver
    <3>7. Facts \subseteq LeastOver(Rules, Drained)
      BY <3>2, <3>6 DEF LeastOver
    <3> QED
      BY <3>3, <3>5, <3>7
  <2>2. ASSUME pc = "idle" PROVE DOMAIN stored = Facts \ Drained
    <3>1. \A f \in Universe : f \in DOMAIN stored <=> f \in Facts \ Drained
      BY <2>2, SameNames DEF DRedInv, StoredInv, Looked, RightIn
    <3>2. DOMAIN stored \subseteq Universe /\ Facts \subseteq Universe
      BY DRedTypes DEF DRedTypeOK
    <3> QED
      BY <3>1, <3>2
  <2> QED
    BY <2>1, <2>2, DRedTypes DEF Exact
<1> QED
  BY <1>1, DRedHolds, PTL

(* Every inferred statement is credited to statements that are known, by a  *)
(* rule, and the credits end at explicit statements.                        *)
THEOREM CreditsGroundedHolds == DRedSpec => []CreditsGrounded
<1>1. DRedInv => CreditsGrounded
  <2> SUFFICES ASSUME DRedInv, pc \in {"idle", "persisting"}
               PROVE  /\ Credited \subseteq Derivations(Facts)
                      /\ Facts \subseteq ClosureUnder(Credited, Drained)
    BY DEF CreditsGrounded
  <2>1. Sound(known, seen)
    BY DEF DRedInv, EngineInv
  <2>2. Within(CreditsOf(known)) /\ DrainedOf(seen) \in SUBSET Universe
    BY <2>1, CreditsWithin DEF Sound
  <2>3. ClosureUnder(CreditsOf(known), DrainedOf(seen)) = LeastOver(CreditsOf(known), DrainedOf(seen))
    BY <2>2, RulesWithin, ClosureIsLeast
  <2> QED
    BY <2>1, <2>3, SameNames DEF Sound
<1> QED
  BY <1>1, DRedHolds, PTL

(* What is known is known by different ids. *)
LEMMA IdsDiffer ==
    ASSUME SeenInv, Sound(known, seen), NEW f \in Facts, NEW g \in Facts, IdOf(f) = IdOf(g)
    PROVE  f = g
<1>1. \A h \in Facts : h \in Universe /\ IdOf(h) = IF h \in DrainedOf(seen) THEN seen[h] ELSE h
  BY DEF Sound, Facts, IdOf
<1>2. ASSUME NEW a \in DrainedOf(seen), NEW b \in Universe, seen[a] = b PROVE a = b
  <2>1. seen[a] \in Ids /\ (seen[a] \in Statable => seen[a] = a)
    BY DEF SeenInv, SeenRight
  <2>2. seen[a] \notin OwnIds
    BY <1>2, DRedAssumption DEF OwnIds
  <2> QED
    BY <1>2, <2>1, <2>2 DEF Ids
<1> QED
  BY <1>1, <1>2 DEF SeenInv, SeenRight

(* What is stored of an inference cites rows that stand, from which a rule  *)
(* derives it.                                                              *)
THEOREM ExplainedHolds == DRedSpec => []Explained
<1>1. DRedInv => Explained
  <2> SUFFICES ASSUME DRedInv, pc = "idle", NEW f \in DOMAIN stored, ~stored[f].kept
               PROVE  Explains(f)
    BY DEF Explained
  <2>1. Sound(known, seen) /\ SeenInv /\ f \in Universe /\ Facts = DOMAIN known
    BY SameNames DEF DRedInv, EngineInv, StoredInv
  <2>2. f \in DOMAIN known \ DrainedOf(seen) /\ stored[f].supports = {known[g].id : g \in known[f].from}
    BY <2>1 DEF DRedInv, StoredInv, Looked, RightIn
  <2>3. f \in InferredOf(known)
    BY <2>1, <2>2 DEF Sound, InferredOf
  <2>4. [from |-> known[f].from, then |-> f] \in Derivations(Facts)
    BY <2>1, <2>3 DEF Sound, CreditsOf
  <2>5. known[f].from \subseteq Facts /\ [from |-> known[f].from, then |-> f] \in Rules
    BY <2>4 DEF Derivations
  <2>6. stored[f].supports = {IdOf(g) : g \in known[f].from}
    BY <2>2 DEF IdOf
  <2>7. Cited(f) = known[f].from
    <3>1. \A g \in Facts, h \in known[f].from : IdOf(g) = IdOf(h) => g = h
      BY <2>1, <2>5, IdsDiffer
    <3> QED
      BY <3>1, <2>5, <2>6 DEF Cited
  <2> QED
    BY <2>5, <2>6, <2>7 DEF Explains
<1> QED
  BY <1>1, DRedHolds, PTL
=============================================================================
