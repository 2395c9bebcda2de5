----------------------------- MODULE DeleteRederive -----------------------------
(***************************************************************************)
(* The materialization a maintainer holds (pkg/graph/inference_dred.go):   *)
(* what the rules of rdfs.go and owl.go derive from the explicit           *)
(* statements, kept current by deleting and deriving again, or computed    *)
(* afresh where that does not do, and compared with the stored inferences. *)
(* InferenceMaintenance is about when this happens and who may write; there*)
(* the materialization is what an abstract closure says.                   *)
(*                                                                         *)
(* A statement is <<subject, predicate, object>>.  Graphs, literals and    *)
(* the sameAs classes are left out; a predicate of Unincremental stands for*)
(* owl:sameAs and the OWL 2 RL vocabulary, which are answered by computing *)
(* afresh.  Which of several derivations found in one round a statement is *)
(* credited to is left open.  InferenceProofs extends this module together *)
(* with InferenceMaintenance, hence DRed before the usual names.           *)
(***************************************************************************)
EXTENDS Integers, FiniteSetsExt, TLC

CONSTANTS
    Statable,       \* statements that may be explicit
    OwnRows,        \* id that a caller gives to a row -> the statements it may come to
                    \* make; other rows and all inferences have the digest of their
                    \* statement, here the statement itself
    Derivable,      \* statements the rules derive from those and from one another
    Unincremental,  \* predicates whose statements are not maintained
    Nothing,        \* no statement, no row
    MaxBatch        \* bound: changes of rows in a batch

VARIABLES
    stated,    \* id -> the statement its row makes, or Nothing
    batch,     \* rows changed since the last batch
    seen,      \* statement -> the row it was credited to when the last batch was drained
    known,     \* the engine: statement -> how it is known
    fresh,     \* statements derived and not yet indexed
    removed,   \* statements overdeleted in this batch
    pc,        \* "idle", "deriving", "persisting" or "lost"
    mode,      \* the comparison to come: "changed", "all" or "keepLive"
    stored     \* the inferred rows of the store: statement -> supports, and whether
               \* the last comparison kept them against the engine's (history)

dredVars == <<stated, batch, seen, known, fresh, removed, pc, mode, stored>>
engine == <<known, fresh, removed>>

-----------------------------------------------------------------------------
(* The rules: fire in rdfs.go and owl.go.  A derivation is what it needs and  *)
(* what it concludes.                                                         *)

At(end, term, F) == {f \in F : f[end] = term}
With(p, F) == At(2, p, F)
Rule(premises, s, p, o) == [from |-> premises, then |-> <<s, p, o>>]

ClassRules(F) ==
    LET sub == With("subClassOf", F) IN
    {Rule({f}, f[1], "type", "Class") : f \in sub}
    \cup {Rule({f}, f[3], "type", "Class") : f \in sub}
    \cup {Rule({f}, f[1], "subClassOf", f[1]) : f \in At(3, "Class", With("type", F))}
    \cup (UNION {{Rule({f, g}, f[1], f[2], g[3]) : g \in At(1, f[3], sub)} : f \in sub})
    \cup (UNION {{Rule({f, g}, f[1], "type", g[3]) : g \in At(1, f[3], sub)} :
                 f \in With("type", F)})

PropertyRules(F) ==
    LET sub == With("subPropertyOf", F) IN
    {Rule({f}, f[1], "type", "Property") : f \in sub}
    \cup {Rule({f}, f[3], "type", "Property") : f \in sub}
    \cup {Rule({f}, f[1], "subPropertyOf", f[1]) : f \in At(3, "Property", With("type", F))}
    \cup (UNION {{Rule({f, g}, f[1], f[2], g[3]) : g \in At(1, f[3], sub)} : f \in sub})
    \cup (UNION {{Rule({f, g}, f[1], g[3], f[3]) : f \in With(g[1], F)} : g \in sub})

\* What a property says of the subjects and the objects of its statements.
EndRules(F, which, end) ==
    LET says == With(which, F) IN
    {Rule({f}, f[1], "type", "Property") : f \in says}
    \cup {Rule({f}, f[3], "type", "Class") : f \in says}
    \cup (UNION {{Rule({f, g}, f[end], "type", g[3]) : f \in With(g[1], F)} : g \in says})

EquivalenceRules(F, which, sub) ==
    LET says == With(which, F) IN
    {Rule({f}, f[1], sub, f[3]) : f \in says} \cup {Rule({f}, f[3], sub, f[1]) : f \in says}

Declared(kind, F) == At(3, kind, With("type", F))
PairRules(F) ==
    LET inverses == With("inverseOf", F) IN
    (UNION {{Rule({f, g}, f[3], f[2], f[1]) : f \in With(g[1], F)} : g \in Declared("Symmetric", F)})
    \cup (UNION {{Rule({f, g}, f[3], g[3], f[1]) : f \in With(g[1], F)} : g \in inverses})
    \cup (UNION {{Rule({f, g}, f[3], g[1], f[1]) : f \in With(g[3], F)} : g \in inverses})
    \cup (UNION {UNION {{Rule({f, g, h}, f[1], h[1], g[3]) : g \in At(1, f[3], With(h[1], F))} :
                        f \in With(h[1], F)} : h \in Declared("Transitive", F)})

RulesOver(F) ==
    ClassRules(F) \cup PropertyRules(F) \cup PairRules(F)
    \cup EndRules(F, "domain", 1) \cup EndRules(F, "range", 3)
    \cup EquivalenceRules(F, "equivalentClass", "subClassOf")
    \cup EquivalenceRules(F, "equivalentProperty", "subPropertyOf")
Conclusions(derivations) == {d.then : d \in derivations}

\* Every statement and every derivation there can be, found once.
Universe == Statable \cup Derivable
Rules == RulesOver(Universe)

ASSUME DRedAssumption ==
    /\ IsFiniteSet(Universe)
    /\ Conclusions(Rules) \subseteq Universe
    /\ DOMAIN OwnRows \cap Universe = {}
    /\ \A id \in DOMAIN OwnRows : OwnRows[id] \subseteq Statable
    /\ Nothing \notin Universe \cup DOMAIN OwnRows /\ MaxBatch \in Nat \ {0}

\* The least set that holds S and is closed under derivations, found in rounds.
Round(derivations, S) == S \cup Conclusions({d \in derivations : d.from \subseteq S})
ClosureUnder(derivations, S) ==
    LET close[T \in SUBSET Universe] ==
            LET more == Round(derivations, T) IN IF more = T THEN T ELSE close[more]
    IN close[S]

\* What a refresh computes, and the reference for everything below.
Closure(F) == ClosureUnder(Rules, F)

Derivations(F) == {d \in Rules : d.from \subseteq F}
\* fire: a record in every premise position, joined with what is indexed.
Fire(S, indexed) == {d \in Derivations(indexed) : d.from \cap S # {}}

-----------------------------------------------------------------------------
(* The explicit statements *)

OwnIds == DOMAIN OwnRows
Ids == OwnIds \cup Statable
MayState(id) == IF id \in OwnIds THEN OwnRows[id] ELSE {id}
\* An own id is smaller than a digest.
Least(S) == IF S \cap OwnIds # {} THEN CHOOSE i \in S \cap OwnIds : TRUE ELSE CHOOSE i \in S : TRUE

\* chosen: the row with the smallest id.
Holders(f) == {id \in Ids : stated[id] = f}
Chosen(f) == IF Holders(f) = {} THEN Nothing ELSE Least(Holders(f))
\* Mutant: only statements that came or went count as changed.
ChangedPresence == {f \in Statable : (Chosen(f) = Nothing) # (seen[f] = Nothing)}
\* drainChanged
Changed == {f \in Statable : Chosen(f) # seen[f]}
Explicit == {f \in Statable : Chosen(f) # Nothing}

\* A change event is applied (explicitFacts.set).
SetRow(id) ==
    /\ pc = "idle" /\ Cardinality(batch) < MaxBatch /\ id \notin batch
    /\ \E f \in MayState(id) \cup {Nothing} : f # stated[id] /\ stated' = [stated EXCEPT ![id] = f]
    /\ batch' = batch \cup {id}
    /\ UNCHANGED <<seen, engine, pc, mode, stored>>

-----------------------------------------------------------------------------
(* Delete and derive again *)

Stated(f) == [id |-> Chosen(f), explicit |-> TRUE, from |-> {}]
Inferred(f, premises) == [id |-> f, explicit |-> FALSE, from |-> premises]
IdOf(f) == known[f].id
Facts == DOMAIN known
Indexed == Facts \ fresh

\* Every way to credit each of the statements to a derivation the round found.
Combined(statements, found) ==
    FoldSet(LAMBDA f, partial : {c @@ (f :> d) : c \in partial, d \in {e \in found : e.then = f}},
            {[f \in {} |-> Nothing]}, statements)
Credits(statements, found) ==
    {c \in Combined(statements, found) : \A f \in statements : c[f] \in found /\ c[f].then = f}

\* What the engine knows already keeps its credit.
Derive(base, found) ==
    LET new == Conclusions(found) \ DOMAIN base IN
    \E credit \in Credits(new, found) :
        /\ known' = [f \in DOMAIN base \cup new |->
                       IF f \in new THEN Inferred(f, credit[f].from) ELSE base[f]]
        /\ fresh' = new

\* A fact, and an inferred one that it helps derive.
Helps == UNION {{[from |-> {f}, then |-> d.then] : f \in d.from} :
                d \in {e \in Derivations(Facts) : e.then \in Facts /\ ~known[e.then].explicit}}
\* Mutant: only what was derived directly is overdeleted.
OverdeletedOnce(S) == Round(Helps, S)
Overdeleted(S) == ClosureUnder(Helps, S)

Mentions(f, term) == term \in {f[1], f[2], f[3]}
\* Mutant: only statements about the subject are looked at again.
CandidatesBySubject(rest, gone) == {f \in rest : \E g \in gone : f[1] = g[1]}
Candidates(rest, gone) == {f \in rest : \E g \in gone : Mentions(f, g[1])}

Recomputed(f) == f[2] \in Unincremental
NeedsRecompute ==
    \/ \E f \in Explicit \cup Changed : Recomputed(f)
    \/ \E f \in Overdeleted(Changed \cap Facts) : Recomputed(f)

Drain ==
    /\ seen' = [f \in Statable |-> Chosen(f)]
    /\ batch' = {}

\* update: overdelete, take over the explicit statements, look again at whatever
\* mentions the subject of something overdeleted.
Update ==
    /\ pc = "idle" /\ Changed # {} /\ ~NeedsRecompute
    /\ Drain
    /\ LET gone == Overdeleted(Changed \cap Facts)
           added == Changed \cap Explicit
           base == [f \in (Facts \ gone) \cup added |-> IF f \in added THEN Stated(f) ELSE known[f]]
           again == Candidates(DOMAIN base, gone) \cup added
       IN /\ Derive(base, Fire(again, DOMAIN base))
          /\ removed' = gone \cup Changed
    /\ pc' = "deriving" /\ mode' = "changed"
    /\ UNCHANGED <<stated, stored>>

\* materializeEngine: from the explicit statements alone, to compare with all
\* that is stored.
FromScratch(how) ==
    /\ known' = [f \in Explicit |-> Stated(f)]
    /\ fresh' = Explicit /\ removed' = {}
    /\ pc' = "deriving" /\ mode' = how
Recompute ==
    /\ pc = "idle" /\ Changed # {} /\ NeedsRecompute
    /\ Drain
    /\ FromScratch("keepLive")
    /\ UNCHANGED <<stated, stored>>
NothingChanged ==
    /\ pc = "idle" /\ batch # {} /\ Changed = {}
    /\ Drain
    /\ UNCHANGED <<stated, engine, pc, mode, stored>>

\* One round: index what the last one found, and fire it.
Propagate ==
    /\ pc = "deriving" /\ fresh # {}
    /\ IF mode = "changed" /\ \E f \in fresh : Recomputed(f)
       THEN FromScratch("keepLive")
       ELSE /\ Derive(known, Fire(fresh, Facts))
            /\ removed' = IF mode = "changed" THEN removed \cup fresh ELSE removed
            /\ UNCHANGED <<pc, mode>>
    /\ UNCHANGED <<stated, batch, seen, stored>>
Settled ==
    /\ pc = "deriving" /\ fresh = {}
    /\ pc' = "persisting"
    /\ UNCHANGED <<stated, batch, seen, engine, mode, stored>>

-----------------------------------------------------------------------------
(* The store *)

Inferences == {f \in Facts : ~known[f].explicit}
Supports(f) == {IdOf(g) : g \in known[f].from}
Live(ids) == ids # {} /\ ids \subseteq {IdOf(f) : f \in Facts}

\* diffKeys, and which statements it is about.
Compared == IF mode = "changed" THEN removed ELSE Facts \cup DOMAIN stored
Keeps(f) ==
    /\ f \in DOMAIN stored /\ stored[f].supports # Supports(f)
    /\ mode = "keepLive" /\ Live(stored[f].supports)
StoreDiff ==
    /\ pc = "persisting"
    /\ stored' = [f \in (DOMAIN stored \ Compared) \cup (Compared \cap Inferences) |->
                    IF f \notin Compared THEN stored[f]
                    ELSE IF Keeps(f) THEN [stored[f] EXCEPT !.kept = TRUE]
                    ELSE [supports |-> Supports(f), kept |-> FALSE]]
    /\ pc' = "idle" /\ mode' = "all" /\ removed' = {}
    /\ UNCHANGED <<stated, batch, seen, known, fresh>>

\* The write fails, or the process dies: the next baseline starts from the rows
\* as the store has them by then.
Lose ==
    /\ pc # "lost"
    /\ known' = [f \in {} |-> Nothing] /\ fresh' = {} /\ removed' = {}
    /\ pc' = "lost" /\ mode' = "all"
    /\ UNCHANGED <<stated, batch, seen, stored>>
TakeBaseline ==
    /\ pc = "lost"
    /\ Drain
    /\ FromScratch("all")
    /\ UNCHANGED <<stated, stored>>

-----------------------------------------------------------------------------
DRedInit ==
    /\ stated = [id \in Ids |-> Nothing]
    /\ batch = {} /\ seen = [f \in Statable |-> Nothing]
    /\ known = [f \in {} |-> Nothing] /\ fresh = {} /\ removed = {}
    /\ pc = "idle" /\ mode = "all"
    /\ stored = [f \in {} |-> Nothing]

DRedNext ==
    \/ \E id \in Ids : SetRow(id)
    \/ Update \/ Recompute \/ NothingChanged \/ Propagate \/ Settled
    \/ StoreDiff \/ Lose \/ TakeBaseline

DRedSpec == DRedInit /\ [][DRedNext]_dredVars

-----------------------------------------------------------------------------
(* Properties *)

DRedTypeOK ==
    /\ \A id \in Ids : stated[id] \in MayState(id) \cup {Nothing}
    /\ Facts \cup DOMAIN stored \cup removed \subseteq Universe /\ fresh \subseteq Facts
    /\ seen \in [Statable -> Ids \cup {Nothing}]
    /\ pc \in {"idle", "deriving", "persisting", "lost"}
    /\ mode \in {"changed", "all", "keepLive"}

Drained == {f \in Statable : seen[f] # Nothing}

\* inference_dred.go:13-25: whatever was deleted, derived again and inserted, the
\* materialization is the least fixed point of the rules over the explicit
\* statements; cycles that only support themselves are gone.  And :85: between
\* batches the store holds what of it is not explicit, and nothing else.
Exact ==
    /\ DRedTypeOK
    /\ pc \in {"idle", "persisting"} => Facts = Closure(Drained)
    /\ pc = "idle" => DOMAIN stored = Facts \ Drained

\* The engine credits an inferred statement to others that are known, by a rule,
\* and following the credits ends at explicit statements.
Credited == {[from |-> known[f].from, then |-> f] : f \in Inferences}
CreditsGrounded ==
    pc \in {"idle", "persisting"} =>
        /\ Credited \subseteq Derivations(Facts)
        /\ Facts \subseteq ClosureUnder(Credited, Drained)

\* A stored inference cites rows that stand now, and from which a rule derives it.
Cited(f) == {g \in Facts : IdOf(g) \in stored[f].supports}
Explains(f) ==
    /\ stored[f].supports \subseteq {IdOf(g) : g \in Facts}
    /\ [from |-> Cited(f), then |-> f] \in Rules
Explained ==
    pc = "idle" => \A f \in DOMAIN stored : ~stored[f].kept => Explains(f)
=============================================================================
