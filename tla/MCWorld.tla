-------------------------------- MODULE MCWorld --------------------------------
(* Small instances of World for TLC. *)
EXTENDS World, TLC

Symmetry == Permutations(Win) \cup Permutations(Sender) \cup Permutations(Room)
              \cup Permutations(Name)
===============================================================================
