------------------------ MODULE InferenceMaintenance ------------------------
(***************************************************************************)
(* Automatic maintenance of materialized inferences:                       *)
(* pkg/graph/inference_maintain.go, over the change log that ChangeFeed    *)
(* promises (one sequence, each change of a row an event, in commit order).*)
(* Every process that opens the store runs one maintainer; a lease row     *)
(* elects the one that does the work.                                      *)
(*                                                                         *)
(* A statement is one row of kg_triples, named by its content.  What the   *)
(* rules derive from a set of explicit statements is the constant operator *)
(* Derived: this module is about keeping the stored copy of it current.    *)
(***************************************************************************)
EXTENDS Integers, Sequences, FiniteSets, SequencesExt

CONSTANTS
    Maintainers,   \* processes that run a maintainer
    Statements,    \* rows of kg_triples
    Vocabulary,    \* isInferenceVocabulary
    Derived(_),    \* what a set of explicit statements implies beyond itself
    Nobody,        \* holder IS NULL
    Dead,          \* holder names a process that no longer exists
    LeaseTTL,      \* InferenceMaintenanceConfig.LeaseTTL
    MaxTime,       \* bound: the clock
    Settings       \* what a behaviour keeps to, one of: the processes, what
                   \* writers assert and retract, what else may happen, and the
                   \* number of events below which writes and refreshes begin

ASSUME InferenceMaintenanceAssumption ==
    /\ IsFiniteSet(Statements)
    /\ Vocabulary \subseteq Statements
    /\ \A E \in SUBSET Statements :
        /\ Derived(E) \subseteq Statements \ E
        /\ E \cap Vocabulary = {} => Derived(E) = {}
    /\ Nobody # Dead /\ {Nobody, Dead} \cap Maintainers = {}
    /\ {LeaseTTL, MaxTime} \subseteq Nat
    /\ \A s \in Settings :
        /\ s.processes \subseteq Maintainers
        /\ s.asserted \cup s.retracted \subseteq Statements
        /\ s.may \subseteq {"crash", "close", "fail", "prune", "refresh"}
        /\ s.events \in Nat

VARIABLES
    setting,   \* the setting this behaviour keeps to
    rows,      \* kg_triples: each statement absent, explicit or inferred
    events,    \* the change log; an event's seq is its index
    pruned,    \* change_log_meta.pruned_through
    lease,     \* the inference_maintenance row
    now,       \* the wall clock
    mt,        \* per maintainer: its memory and where its step() stands
    stale      \* history: a maintainer got the lease back, after another had
               \* it, with the materialization of its earlier tenure

vars == <<setting, rows, events, pruned, lease, now, mt, stale>>

RowStates == {"absent", "explicit", "inferred"}

Event == [id : Statements, after : RowStates, by : {"writer", "maintainer"}]

(* A process that has just started: state is nil. *)
Fresh ==
    [ pc |-> "idle",
      state |-> "nil",        \* "nil", "dormant" or "active"
      wantLease |-> FALSE,
      holding |-> FALSE,
      renewed |-> 0,
      cursor |-> 0,           \* maintenanceState.cursor
      flushed |-> 0,          \* maintenanceState.flushed
      applied |-> 0,          \* the watermark in memory
      explicit |-> {},        \* explicitFacts
      persisted |-> {},       \* maintainedInference.persisted
      head |-> 0,             \* step(): the head read, or the batch's last seq
      upserts |-> {},         \* step(): the diff to persist
      deletes |-> {} ]

Init ==
    /\ setting \in Settings
    /\ rows = [s \in Statements |-> "absent"]
    /\ events = << >>
    /\ pruned = 0
    /\ lease = [holder |-> Nobody, until |-> 0, applied |-> 0]
    /\ now = 0
    /\ mt = [m \in Maintainers |-> Fresh]
    /\ stale = FALSE

-----------------------------------------------------------------------------
(* The store *)

StatementsIn(state) == {s \in Statements : rows[s] = state}

ChangesHead == Len(events)

(* storeHasInferenceVocabulary: any explicit stored row is vocabulary. *)
HasVocabulary == StatementsIn("explicit") \cap Vocabulary # {}

(* A write by anything but a maintainer, one transaction per row. *)
WriteRow(s, state) ==
    /\ ChangesHead < setting.events
    /\ rows[s] # state
    /\ rows' = [rows EXCEPT ![s] = state]
    /\ events' = Append(events, [id |-> s, after |-> state, by |-> "writer"])
    /\ UNCHANGED <<setting, pruned, lease, now, mt, stale>>

(* An inferred row of the same content becomes explicit. *)
UpsertTriple(s) == WriteRow(s, "explicit")

(* The row goes, whichever kind it is. *)
DeleteTriple(s) == WriteRow(s, "absent")

(* PruneChanges; the newest event stays. *)
Prune ==
    /\ "prune" \in setting.may
    /\ \E cutoff \in (pruned + 1)..(ChangesHead - 1) : pruned' = cutoff
    /\ UNCHANGED <<setting, rows, events, lease, now, mt, stale>>

Tick ==
    /\ now < MaxTime
    /\ now' = now + 1
    /\ UNCHANGED <<setting, rows, events, pruned, lease, mt, stale>>

-----------------------------------------------------------------------------
(* Helpers of one step *)

(* m's memory becomes r. *)
Set(m, r) == mt' = [mt EXCEPT ![m] = r]

(* g, except where f says something else. *)
Over(f, g) == [x \in DOMAIN g |-> IF x \in DOMAIN f THEN f[x] ELSE g[x]]

Later(a, b) == IF a >= b THEN a ELSE b

(* The explicit statements after events cursor+1..last, starting from E:    *)
(* applyChangeEvent sets each row to the state its event names.             *)
Replay(E, cursor, last) ==
    LET Touched == {events[i].id : i \in (cursor + 1)..last}
        Final(s) == events[CHOOSE i \in (cursor + 1)..last :
                               /\ events[i].id = s
                               /\ \A j \in (i + 1)..last : events[j].id # s].after
    IN  (E \ Touched) \cup {s \in Touched : Final(s) = "explicit"}

(* eventsCarryVocabulary: some event states an explicit vocabulary row. *)
CarryVocabulary(cursor, last) ==
    \E i \in (cursor + 1)..last :
        events[i].after = "explicit" /\ events[i].id \in Vocabulary

(* Forget the materialization and look at the store again ... *)
LookAgain(r) == [r EXCEPT !.pc = "idle", !.state = "nil", !.wantLease = FALSE]

(* ... or ask for the lease at the next step. *)
AskForLease(r) == [r EXCEPT !.pc = "idle", !.state = "nil", !.wantLease = TRUE]

(* The diff at hand, written or not, is dropped. *)
NoDiff(r) == [r EXCEPT !.upserts = {}, !.deletes = {}]

-----------------------------------------------------------------------------
(* step(): looking at the store *)

(* The next iteration of the loop. *)
Begin(m) ==
    /\ mt[m].pc = "idle"
    /\ \/ /\ mt[m].state = "nil" /\ ~mt[m].wantLease
          /\ Set(m, [mt[m] EXCEPT !.pc = "observe", !.head = ChangesHead])
       \/ /\ \/ mt[m].state = "nil" /\ mt[m].wantLease
             \/ mt[m].state = "active"
          /\ Set(m, [mt[m] EXCEPT !.pc = "lease"])
       \/ /\ mt[m].state = "dormant"
          /\ Set(m, [mt[m] EXCEPT !.pc = "read"])
    /\ UNCHANGED <<setting, rows, events, pruned, lease, now, stale>>

(* observe, after ChangesHead: storeNeedsInferenceMaintenance. *)
Observe(m) ==
    /\ mt[m].pc = "observe"
    /\ IF HasVocabulary \/ StatementsIn("inferred") # {}
       THEN Set(m, [mt[m] EXCEPT !.pc = "lease", !.wantLease = TRUE])
       ELSE Set(m, [mt[m] EXCEPT !.pc = "read", !.state = "dormant", !.cursor = mt[m].head,
                                 !.applied = Later(@, mt[m].head)])
    /\ UNCHANGED <<setting, rows, events, pruned, lease, now, stale>>

-----------------------------------------------------------------------------
(* step(): the lease *)

(* A third of the TTL has not passed since the last renewal. *)
FreshlyRenewed(m) == mt[m].holding /\ 3 * (now - mt[m].renewed) < LeaseTTL

(* Mutant: a lease that has expired is not taken over. *)
MayTakeLeaseGivenBack(m) == lease.holder \in {m, Nobody}

(* WHERE holder = ? OR holder IS NULL OR lease_until < ? *)
MayTakeLease(m) == lease.holder \in {m, Nobody} \/ lease.until < now

AfterLease(m) == IF mt[m].state = "active" THEN "read" ELSE "head"

(* holdLease: renew or take the lease, or find that another has it.         *)
HoldLease(m) ==
    /\ mt[m].pc = "lease"
    /\ \/ /\ FreshlyRenewed(m)
          /\ Set(m, [mt[m] EXCEPT !.pc = AfterLease(m)])
          /\ UNCHANGED <<lease, stale>>
       \/ /\ ~FreshlyRenewed(m)
          /\ MayTakeLease(m)
          /\ lease' = [lease EXCEPT !.holder = m, !.until = now + LeaseTTL]
          /\ Set(m, [mt[m] EXCEPT !.pc = AfterLease(m), !.holding = TRUE, !.renewed = now])
          /\ stale' = (stale \/ (mt[m].state = "active" /\ lease.holder # m))
       \/ /\ ~FreshlyRenewed(m)
          /\ ~MayTakeLease(m)
          /\ Set(m, AskForLease([mt[m] EXCEPT !.holding = FALSE]))
          /\ UNCHANGED <<lease, stale>>
    /\ UNCHANGED <<setting, rows, events, pruned, now>>

(* releaseLease, after the last inference went. *)
ReleaseLease(m) ==
    /\ mt[m].pc \in {"release", "releaseThenRead"}
    /\ lease' = IF mt[m].holding /\ lease.holder = m
                THEN [lease EXCEPT !.holder = Nobody, !.until = 0] ELSE lease
    /\ Set(m, [mt[m] EXCEPT !.holding = FALSE,
                            !.pc = IF @ = "release" THEN "idle" ELSE "read"])
    /\ UNCHANGED <<setting, rows, events, pruned, now, stale>>

-----------------------------------------------------------------------------
(* step(): baseline *)

(* The head is read first ... *)
BaselineFrom == ChangesHead

BaselineHead(m) ==
    /\ mt[m].pc = "head"
    /\ Set(m, [mt[m] EXCEPT !.pc = "vocabulary", !.head = BaselineFrom])
    /\ UNCHANGED <<setting, rows, events, pruned, lease, now, stale>>

(* ... and the store after it. *)
BaselineVocabulary(m) ==
    /\ mt[m].pc = "vocabulary"
    /\ Set(m, [mt[m] EXCEPT !.pc = IF HasVocabulary THEN "explicit" ELSE "leftovers"])
    /\ UNCHANGED <<setting, rows, events, pruned, lease, now, stale>>

(* Without vocabulary, anything stored as inferred is stale. *)
BaselineLeftovers(m) ==
    /\ mt[m].pc = "leftovers"
    /\ Set(m, [mt[m] EXCEPT !.pc = "persistLeftovers", !.upserts = {},
                            !.deletes = StatementsIn("inferred")])
    /\ UNCHANGED <<setting, rows, events, pruned, lease, now, stale>>

BaselineExplicit(m) ==
    /\ mt[m].pc = "explicit"
    /\ Set(m, [mt[m] EXCEPT !.pc = "inferred", !.explicit = StatementsIn("explicit")])
    /\ UNCHANGED <<setting, rows, events, pruned, lease, now, stale>>

(* What is stored, and fullDiff against what should be. *)
BaselineInferred(m) ==
    /\ mt[m].pc = "inferred"
    /\ LET stored == StatementsIn("inferred")
           wanted == Derived(mt[m].explicit)
       IN  Set(m, [mt[m] EXCEPT !.pc = "persistBaseline",
                                !.upserts = wanted \ stored, !.deletes = stored \ wanted])
    /\ UNCHANGED <<setting, rows, events, pruned, lease, now, stale>>

-----------------------------------------------------------------------------
(* step(): events *)

(* Mutant: retention that overtook the cursor goes unnoticed. *)
OvertakenIgnored(m) == FALSE

(* Changes answers ErrChangesPruned. *)
Overtaken(m) == mt[m].cursor < pruned

(* The events that are gone cannot be read. *)
ReadFrom(m) == Later(mt[m].cursor, pruned)

(* Reading everything committed so far, and apply up to what it persists.   *)
ReadEvents(m) ==
    /\ mt[m].pc = "read"
    /\ \/ /\ Overtaken(m)
          /\ Set(m, LookAgain(mt[m]))
       \/ /\ ~Overtaken(m) /\ mt[m].cursor = ChangesHead
          /\ Set(m, [mt[m] EXCEPT !.pc =
                 IF mt[m].state = "active" /\ mt[m].flushed # mt[m].cursor THEN "flush" ELSE "idle"])
       \/ /\ ~Overtaken(m) /\ mt[m].cursor < ChangesHead
          /\ mt[m].state = "dormant"
          /\ IF CarryVocabulary(ReadFrom(m), ChangesHead)
             THEN Set(m, AskForLease(mt[m]))
             ELSE Set(m, [mt[m] EXCEPT !.pc = "idle", !.cursor = ChangesHead,
                                       !.applied = Later(@, ChangesHead)])
       \/ /\ ~Overtaken(m) /\ mt[m].cursor < ChangesHead
          /\ mt[m].state = "active"
          /\ LET explicit == Replay(mt[m].explicit, ReadFrom(m), ChangesHead)
                 upserts == Derived(explicit) \ mt[m].persisted
                 deletes == mt[m].persisted \ Derived(explicit)
             IN  IF upserts \cup deletes = {}
                 THEN Set(m, [mt[m] EXCEPT !.pc = "idle", !.explicit = explicit,
                                           !.cursor = ChangesHead,
                                           !.applied = Later(@, ChangesHead)])
                 ELSE Set(m, [mt[m] EXCEPT !.pc = "persist", !.explicit = explicit,
                                           !.head = ChangesHead,
                                           !.upserts = upserts, !.deletes = deletes])
    /\ UNCHANGED <<setting, rows, events, pruned, lease, now, stale>>

-----------------------------------------------------------------------------
(* step(): writing *)

(* Mutant: the write is not fenced on the lease. *)
FencePassedAlways(m) == TRUE

(* UPDATE inference_maintenance SET applied_seq ... AND holder = ? *)
FencePassed(m) == lease.holder = m

(* Mutant: the upsert takes over an explicit row. *)
UpsertableAny(s) == rows[s] # "inferred"

(* INSERT ... ON CONFLICT leaves an explicit row as it is. *)
Upsertable(s) == rows[s] = "absent"

(* DELETE ... AND inferred = 1 *)
Deletable(s) == rows[s] = "inferred"

(* The rows a diff changes, and the state each gets. *)
Changes(m) ==
    LET gone == {d \in mt[m].deletes : Deletable(d)}
        come == {u \in mt[m].upserts : Upsertable(u)}
    IN  [s \in gone \cup come |-> IF s \in gone THEN "absent" ELSE "inferred"]

LogOf(changes) ==
    [i \in 1..Cardinality(DOMAIN changes) |->
        LET s == SetToSeq(DOMAIN changes)[i]
        IN  [id |-> s, after |-> changes[s], by |-> "maintainer"]]

(* commit(diff): what memory holds once the diff is in the store. *)
Committed(r) ==
    CASE r.pc = "persistLeftovers" ->
            [r EXCEPT !.pc = "releaseThenRead", !.state = "dormant", !.wantLease = FALSE]
      [] r.pc = "persistBaseline" ->
            [r EXCEPT !.pc = "lease", !.state = "active", !.wantLease = FALSE,
                      !.persisted = Derived(r.explicit), !.flushed = r.head]
      [] r.pc = "persist" ->
            IF r.explicit \cap Vocabulary = {} /\ Derived(r.explicit) = {}
            THEN [r EXCEPT !.pc = "release", !.state = "dormant", !.explicit = {}, !.persisted = {}]
            ELSE [r EXCEPT !.pc = "idle", !.persisted = Derived(r.explicit), !.flushed = r.head]

(* What memory holds when the lease turns out to be lost. *)
Refused(r) == IF r.pc = "persist" THEN LookAgain(r) ELSE AskForLease(r)

(* The seq persist commits with a diff: the last event it accounts for. *)
Watermark(m) == mt[m].head

(* persist: the fence, the diff and the watermark in one transaction.  A    *)
(* lock conflict is retried, which is the transaction not yet happening.    *)
Persist(m) ==
    /\ mt[m].pc \in {"persist", "persistBaseline", "persistLeftovers"}
    /\ IF FencePassed(m)
       THEN /\ rows' = Over(Changes(m), rows)
            /\ events' = events \o LogOf(Changes(m))
            /\ lease' = [lease EXCEPT !.applied = Watermark(m)]
            /\ Set(m, NoDiff([Committed(mt[m]) EXCEPT !.cursor = Watermark(m),
                                                     !.applied = Later(@, Watermark(m))]))
       ELSE /\ Set(m, NoDiff([Refused(mt[m]) EXCEPT !.holding = FALSE]))
            /\ UNCHANGED <<rows, events, lease>>
    /\ UNCHANGED <<setting, pruned, now, stale>>

(* flushWatermark, when a second has passed since the last write ...        *)
FlushWatermark(m) ==
    /\ mt[m].pc = "flush"
    /\ IF FencePassed(m)
       THEN /\ lease' = [lease EXCEPT !.applied = mt[m].cursor]
            /\ Set(m, [mt[m] EXCEPT !.pc = "idle", !.flushed = mt[m].cursor])
       ELSE /\ Set(m, AskForLease([mt[m] EXCEPT !.holding = FALSE]))
            /\ UNCHANGED lease
    /\ UNCHANGED <<setting, rows, events, pruned, now, stale>>

(* ... and when it has not. *)
SkipFlush(m) ==
    /\ mt[m].pc = "flush"
    /\ Set(m, [mt[m] EXCEPT !.pc = "idle"])
    /\ UNCHANGED <<setting, rows, events, pruned, lease, now, stale>>

(* A database call of step() fails, persist has given up on a lock, or the  *)
(* UPDATE behind releaseLease is lost.  An error from baseline or apply     *)
(* drops the materialization; any other leaves memory as it is.             *)
StepFails(m) ==
    /\ "fail" \in setting.may
    /\ \/ /\ mt[m].pc \in {"observe", "lease", "read", "flush"}
          /\ Set(m, [mt[m] EXCEPT !.pc = "idle"])
       \/ /\ mt[m].pc \in {"head", "vocabulary", "leftovers", "explicit", "inferred",
                           "persistBaseline", "persistLeftovers"}
          /\ Set(m, AskForLease(NoDiff(mt[m])))
       \/ /\ mt[m].pc = "persist"
          /\ Set(m, LookAgain(NoDiff(mt[m])))
       \/ /\ mt[m].pc \in {"release", "releaseThenRead"}
          /\ Set(m, LookAgain([mt[m] EXCEPT !.holding = FALSE]))
    /\ UNCHANGED <<setting, rows, events, pruned, lease, now, stale>>

-----------------------------------------------------------------------------
(* Processes *)

(* Exclusive: a refresh by hand runs between steps of this process's        *)
(* maintainer, which starts over afterwards.  RefreshRDFSInferences deletes *)
(* every inferred row in a transaction of its own ...                       *)
RefreshClear(m) ==
    /\ "refresh" \in setting.may
    /\ mt[m].pc = "idle"
    /\ ChangesHead < setting.events
    /\ LET cleared == [s \in StatementsIn("inferred") |-> "absent"]
       IN  rows' = Over(cleared, rows) /\ events' = events \o LogOf(cleared)
    /\ Set(m, [LookAgain(mt[m]) EXCEPT !.pc = "refreshRead"])
    /\ UNCHANGED <<setting, pruned, lease, now, stale>>

(* ... reads what is explicit ... *)
RefreshRead(m) ==
    /\ mt[m].pc = "refreshRead"
    /\ Set(m, [mt[m] EXCEPT !.pc = "refreshWrite", !.explicit = StatementsIn("explicit")])
    /\ UNCHANGED <<setting, rows, events, pruned, lease, now, stale>>

(* ... and upserts what follows from it, whatever the row holds by then. *)
RefreshWrite(m) ==
    /\ mt[m].pc = "refreshWrite"
    /\ LET written == [s \in {d \in Derived(mt[m].explicit) : rows[d] # "inferred"}
                            |-> "inferred"]
       IN  rows' = Over(written, rows) /\ events' = events \o LogOf(written)
    /\ Set(m, [mt[m] EXCEPT !.pc = "idle", !.explicit = {}])
    /\ UNCHANGED <<setting, pruned, lease, now, stale>>

(* One of its transactions fails: the earlier ones stay. *)
RefreshFails(m) ==
    /\ mt[m].pc \in {"refreshRead", "refreshWrite"}
    /\ Set(m, [mt[m] EXCEPT !.pc = "idle", !.explicit = {}])
    /\ UNCHANGED <<setting, rows, events, pruned, lease, now, stale>>

(* Close: the step under way is cancelled, the lease is given back, and     *)
(* another process may start in the same place.                             *)
Close(m) ==
    /\ "close" \in setting.may
    /\ mt[m] # Fresh
    /\ lease' = IF mt[m].holding /\ lease.holder = m
                THEN [lease EXCEPT !.holder = Nobody, !.until = 0] ELSE lease
    /\ mt' = [mt EXCEPT ![m] = Fresh]
    /\ UNCHANGED <<setting, rows, events, pruned, now, stale>>

(* The process dies; the lease row keeps naming it until it expires. *)
Crash(m) ==
    /\ "crash" \in setting.may
    /\ mt[m] # Fresh
    /\ lease' = IF lease.holder = m THEN [lease EXCEPT !.holder = Dead] ELSE lease
    /\ mt' = [mt EXCEPT ![m] = Fresh]
    /\ UNCHANGED <<setting, rows, events, pruned, now, stale>>

-----------------------------------------------------------------------------

Step(m) ==
    \/ Begin(m)
    \/ Observe(m)
    \/ HoldLease(m)
    \/ ReleaseLease(m)
    \/ BaselineHead(m)
    \/ BaselineVocabulary(m)
    \/ BaselineLeftovers(m)
    \/ BaselineExplicit(m)
    \/ BaselineInferred(m)
    \/ ReadEvents(m)
    \/ Persist(m)
    \/ FlushWatermark(m)
    \/ SkipFlush(m)

Refresh(m) ==
    \/ RefreshClear(m)
    \/ RefreshRead(m)
    \/ RefreshWrite(m)
    \/ RefreshFails(m)

Next ==
    \/ \E s \in setting.asserted : UpsertTriple(s)
    \/ \E s \in setting.retracted : DeleteTriple(s)
    \/ Prune
    \/ Tick
    \/ \E m \in setting.processes :
        Step(m) \/ StepFails(m) \/ Refresh(m) \/ Close(m) \/ Crash(m)

Spec == Init /\ [][Next]_vars

(* The loop of every running maintainer ticks, and time passes; a process   *)
(* that is not running need not be started.                                 *)
FairSpec ==
    /\ Spec
    /\ WF_vars(Tick)
    /\ \A m \in Maintainers : WF_vars(mt[m] # Fresh /\ Step(m))

-----------------------------------------------------------------------------
(* Properties *)

Memory ==
    [ pc : {"idle", "observe", "lease", "head", "vocabulary", "leftovers",
            "explicit", "inferred", "persistLeftovers", "persistBaseline",
            "read", "persist", "flush", "release", "releaseThenRead",
            "refreshRead", "refreshWrite"},
      state : {"nil", "dormant", "active"},
      wantLease : BOOLEAN,
      holding : BOOLEAN,
      renewed : 0..now,
      cursor : 0..ChangesHead,
      flushed : 0..ChangesHead,
      applied : 0..ChangesHead,
      explicit : SUBSET Statements,
      persisted : SUBSET Statements,
      head : 0..ChangesHead,
      upserts : SUBSET Statements,
      deletes : SUBSET Statements ]

(* Types, cursors and watermarks never past the head. *)
TypeOK ==
    /\ setting \in Settings
    /\ rows \in [Statements -> RowStates]
    /\ events \in Seq(Event)
    /\ pruned \in 0..ChangesHead
    /\ lease \in [holder : Maintainers \cup {Nobody, Dead}, until : Nat,
                  applied : 0..ChangesHead]
    /\ now \in Nat
    /\ mt \in [Maintainers -> Memory]
    /\ stale \in BOOLEAN

WrittenAfter(s, n) ==
    \E i \in (n + 1)..ChangesHead : events[i].id = s /\ events[i].by = "writer"

(* The stored inferences are those of the explicit statements as of some    *)
(* seq from n on, rows a writer has touched after n aside.                  *)
Reflects(n) ==
    \E upto \in n..ChangesHead :
        LET wanted == Derived(Replay({}, 0, upto))
        IN  \A s \in Statements :
                ~WrittenAfter(s, n) => (rows[s] = "inferred" <=> s \in wanted)

(* What InferenceAppliedSeq can answer, in one process or another. *)
Watermarks == {lease.applied} \cup {mt[m].applied : m \in Maintainers}

(* inference_maintain.go:25: a watermark never claims more than the store   *)
(* holds.                                                                   *)
WatermarkSound == TypeOK /\ \A n \in Watermarks : Reflects(n)

(* inference_maintain.go:25: the watermark is committed with the inferences *)
(* it describes, so the one in the store never claims too much - as long as *)
(* no maintainer has resumed an earlier tenure after another one held the   *)
(* lease, and nobody refreshes by hand, which deletes inferences first.     *)
StoredWatermarkSound ==
    ~stale /\ "refresh" \notin setting.may => Reflects(lease.applied)

(* The stored watermark never goes back, whoever writes it: what a process  *)
(* has waited for stays reached.                                            *)
WatermarkMonotone == [][lease'.applied >= lease.applied]_vars

(* inference_maintain.go:973: maintenance never overwrites or deletes an    *)
(* explicit row, however old the batch it works from.                       *)
ExplicitKept ==
    [][\A s \in Statements :
          rows[s] = "explicit" /\ rows'[s] # "explicit"
              => events'[Len(events')].by = "writer"]_vars

(* Everything has been reasoned over, and the store shows it. *)
Current ==
    /\ StatementsIn("inferred") = Derived(StatementsIn("explicit"))
    /\ \E m \in Maintainers : mt[m].applied = ChangesHead

(* The lease of a dead process can no longer expire before the clock's      *)
(* bound.                                                                   *)
ClockExhausted == lease.holder = Dead /\ lease.until >= MaxTime

(* A maintainer that went dormant before another one's first inferences     *)
(* looks for vocabulary in later events only, and sleeps although observe   *)
(* would not let it.                                                        *)
Blind(m) ==
    mt[m].state = "dormant" /\ (HasVocabulary \/ StatementsIn("inferred") # {})

(* inference_maintain.go:31: a holder that dies is replaced, by its own     *)
(* process or another.  Whichever maintainer keeps running, is not paused   *)
(* by refreshes for ever and does not sleep blindly, once writers rest the  *)
(* inferences become current and stay so.                                   *)
CatchesUp ==
    \A m \in Maintainers :
        \/ []<>( \/ mt[m] = Fresh
                \/ mt[m].pc \in {"refreshRead", "refreshWrite"}
                \/ ClockExhausted
                \/ stale )
        \/ <>[]Current
        \/ <>[](Cardinality(setting.processes) > 1 /\ Blind(m))
=============================================================================
