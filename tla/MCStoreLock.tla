----------------------------- MODULE MCStoreLock -----------------------------
(* Instances of StoreLock for TLC. *)
EXTENDS StoreLock
=============================================================================
