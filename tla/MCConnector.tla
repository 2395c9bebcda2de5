----------------------------- MODULE MCConnector -----------------------------
(* Instances of Connector for TLC: one for each kind of source. *)
EXTENDS Connector

CONSTANTS k1, k2
Single == {{k1}, {k2}}
MCSettings ==
    {[kind |-> "postgres", writers |-> Writers, statements |-> Single, texts |-> {0},
      batch |-> 1, events |-> 3, troubles |-> 1],
     [kind |-> "polling", writers |-> Writers, statements |-> Single, texts |-> {0},
      batch |-> 1, events |-> 3, troubles |-> 2],
     [kind |-> "polling", writers |-> Writers, statements |-> Single, texts |-> {0},
      batch |-> 2, events |-> 3, troubles |-> 2]}
    \cup UNION {{
     [kind |-> "postgres", writers |-> {w}, statements |-> {{k1}, {k1, k2}}, texts |-> {0, 3},
      batch |-> 1, events |-> 3, troubles |-> 1],
     [kind |-> "mysql", writers |-> {w}, statements |-> Single \cup {{k1, k2}}, texts |-> {0},
      batch |-> 1, events |-> 4, troubles |-> 1]} : w \in Writers}
MCSymmetry == Permutations(Values) \cup Permutations(Writers)
=============================================================================
