------------------------ MODULE MCInferenceMaintenance ------------------------
(* Instances of InferenceMaintenance for TLC: a schema statement and a fact,  *)
(* which together imply a statement, and a rule that implies it on its own.   *)
EXTENDS InferenceMaintenance

CONSTANTS m1, m2, schema, rule, fact, implied

MCMaintainers == {m1, m2}
MCStatements == {schema, rule, fact, implied}
MCVocabulary == {schema, rule}
MCDerived(E) == IF {schema, fact} \subseteq E \/ rule \in E THEN {implied} \ E ELSE {}

(* One process, and everything that can befall it; and longer histories with  *)
(* less of that.  Writers delete what they state, but not what may be implied. *)
MCOne ==
    { [processes |-> {m1}, asserted |-> {schema, fact, implied}, retracted |-> {schema, fact},
       may |-> {"crash", "close", "fail", "prune"}, events |-> 4],
      [processes |-> {m1}, asserted |-> {schema, fact, implied}, retracted |-> {schema, fact},
       may |-> {"crash", "prune"}, events |-> 5] }

(* Two processes that hand the lease over, one of which may die for the other *)
(* to replace it; and one that must go on whatever befalls it.                *)
MCKept ==
    { [processes |-> {m1, m2}, asserted |-> {rule}, retracted |-> {rule},
       may |-> {}, events |-> 5],
      [processes |-> {m1, m2}, asserted |-> {rule}, retracted |-> {rule},
       may |-> {"crash"}, events |-> 3],
      [processes |-> {m1}, asserted |-> {schema, fact}, retracted |-> {schema, fact},
       may |-> {"crash", "close", "prune", "refresh"}, events |-> 4] }
=============================================================================
