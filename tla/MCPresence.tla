------------------------------ MODULE MCPresence ------------------------------
(* Small instances of Presence for TLC. *)
EXTENDS Presence

Symmetry == Permutations(Conn) \cup Permutations(Uid) \cup Permutations(Addr)
===============================================================================
