----------------------------- MODULE MCWriteTurn -----------------------------
(* An instance of WriteTurn for TLC. *)
EXTENDS WriteTurn

CONSTANTS g1, g2, g3, k1, k2, k3

MCUsers == {g1, g2, g3}
MCConns == {k1, k2, k3}
=============================================================================
