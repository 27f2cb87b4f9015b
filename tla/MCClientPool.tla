----------------------------- MODULE MCClientPool -----------------------------
(* ClientPool for TLC. *)
EXTENDS ClientPool
=============================================================================
