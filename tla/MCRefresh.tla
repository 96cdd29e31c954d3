------------------------------- MODULE MCRefresh -------------------------------
(* Small instances of Refresh for TLC. *)
EXTENDS Refresh, TLC

Symmetry == Permutations(Poster) \cup Permutations(Timed)
===============================================================================
