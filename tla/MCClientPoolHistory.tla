-------------------------- MODULE MCClientPoolHistory --------------------------
(* ClientPoolHistory for TLC. *)
EXTENDS ClientPoolHistory

Symmetry == Permutations(Key) \cup Permutations(Client) \cup Permutations(Call)
=============================================================================
