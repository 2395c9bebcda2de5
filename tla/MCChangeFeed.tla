---------------------------- MODULE MCChangeFeed ----------------------------
(* Instances of ChangeFeed and its refinement for TLC. *)
EXTENDS ChangeFeedRefinement, TLC

CONSTANTS w1, w2, c1, r1, r2, new

MCWriters == {w1, w2}
MCConsumers == {c1}
MCEntities == {r1, r2}
MCValues == {new}

(* Writers, and rows, are interchangeable; used where no property is a      *)
(* liveness property.                                                       *)
MCSymmetry == Permutations(MCWriters) \cup Permutations(MCEntities)
=============================================================================
