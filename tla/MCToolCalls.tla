----------------------------- MODULE MCToolCalls -----------------------------
(* ToolCalls for TLC. *)
EXTENDS ToolCalls

Symmetry == Permutations(Key) \cup Permutations(Client) \cup Permutations(Call)
=============================================================================
