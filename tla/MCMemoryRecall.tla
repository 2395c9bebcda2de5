---------------------------- MODULE MCMemoryRecall ----------------------------
(* Instances of MemoryRecall for TLC: one in which vectors are missing and    *)
(* nobody searches, and one in which searches race writes and each other.     *)
EXTENDS MemoryRecall

CONSTANTS i1, i2, w1, w2
MCSettings ==
    {[heals |-> TRUE, writers |-> {w1, w2}, ids |-> {i1, i2}, writes |-> 3, searches |-> 0, outages |-> 2],
     [heals |-> FALSE, writers |-> {w1}, ids |-> {i1}, writes |-> 2, searches |-> 2, outages |-> 0]}
=============================================================================
