---------------------------- MODULE MCVectorStore ----------------------------
(* Instances of VectorStore for TLC. *)
EXTENDS VectorStore, TLC

MCIds == 1..4
MCBatches == {{1}}
MCDeletes == {{1}, {1, 2}}
MCBounds == [calls |-> 2, troubles |-> 1, restarts |-> 1]
MCSymmetry == Permutations(Callers) \cup Permutations(Vecs)
=============================================================================
