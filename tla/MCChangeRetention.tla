-------------------------- MODULE MCChangeRetention --------------------------
(* Instances of ChangeRetention for TLC. *)
EXTENDS ChangeRetention

CONSTANTS w1, w2

MCWriters == {w1, w2}
MCBoth == {"sqlite", "postgres"}
=============================================================================
