----------------------------- MODULE MCLiveStream -----------------------------
(* Instances of LiveStream for TLC. *)
EXTENDS LiveStream

CONSTANT n1
MCHistory == <<"other", n1, "other", "other", n1>>
MCBounds == [breaks |-> 2, troubles |-> 1]
=============================================================================
