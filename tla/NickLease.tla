------------------------------ MODULE NickLease ------------------------------
(***************************************************************************)
(* What the presence map of a channel promises about nicknames, and        *)
(* nothing else: a nickname is leased to one address at a time, and it     *)
(* passes to another address only after it has been given back.            *)
(***************************************************************************)
CONSTANTS Uid,      \* nicknames
          Addr,     \* client addresses
          Free      \* the holder of a nickname nobody uses, not in Addr

VARIABLE holder     \* holder[u] : the address that uses u, or Free

LeaseTypeOK == holder \in [Uid -> Addr \cup {Free}]

Init == holder = [u \in Uid |-> Free]

Acquire(u, a) ==
  /\ holder[u] = Free
  /\ holder' = [holder EXCEPT ![u] = a]

Release(u) ==
  /\ holder[u] # Free
  /\ holder' = [holder EXCEPT ![u] = Free]

Next == \E u \in Uid : Release(u) \/ \E a \in Addr : Acquire(u, a)

Spec == Init /\ [][Next]_holder
==============================================================================
