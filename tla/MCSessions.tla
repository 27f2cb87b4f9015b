------------------------------ MODULE MCSessions ------------------------------
(* Sessions for TLC. *)
EXTENDS Sessions

Symmetry == Permutations(Request) \cup Permutations(Identity) \cup Permutations(Session)
=============================================================================
