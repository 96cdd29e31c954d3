------------------------------ MODULE MCSendGate ------------------------------
(* Small instances of SendGate for TLC. *)
EXTENDS SendGate, TLC

Symmetry == Permutations(Req \ Admin) \cup Permutations(Ip)
              \cup Permutations(Token)
===============================================================================
