----------------------------- MODULE WorldProofs -----------------------------
(***************************************************************************)
(* Proofs about World: its types, one open room per name, the messages     *)
(* that are found again, and the number of users, for any number of names, *)
(* rooms, windows, messages and restarts.                                  *)
(***************************************************************************)
EXTENDS World, FiniteSetTheorems, TLAPS

USE WorldAssumption

LEMMA InitTypeOK == Init => TypeOK
<1> SUFFICES ASSUME Init PROVE TypeOK
  OBVIOUS
<1> USE DEF Init
<1>1. /\ channels \in [Name -> Room \cup {None}]
      /\ home \in [Room -> Name \cup {None}]
      /\ closed \in [Room -> BOOLEAN]
      /\ onlines \in [Room -> SUBSET Win]
      /\ data \in [Room -> SUBSET Sender]
      /\ held \in [Room -> BOOLEAN]
      /\ store \in [Name -> SUBSET Sender]
  OBVIOUS
<1>2. /\ pc \in [Proc -> {"idle"}]
      /\ want \in [Proc -> Name \cup {None}]
      /\ at \in [Proc -> Room \cup {None}]
      /\ pinged \in [Win -> BOOLEAN]
  OBVIOUS
<1>3. total \in Nat /\ restarts \in 0..MaxRestarts
  OBVIOUS
<1>4. /\ purger = "asleep" /\ todo \in SUBSET Name /\ cur = None
      /\ late \in SUBSET Sender /\ stayed = {} /\ counted = {}
  OBVIOUS
<1> HIDE DEF Init
<1> QED  BY <1>1, <1>2, <1>3, <1>4 DEF TypeOK

(* What a user count adds is a number.                                     *)
LEMMA CountIsNat ==
  ASSUME NEW S \in SUBSET Win
  PROVE  Cardinality(S) \in Nat
BY FS_Subset, FS_CardinalityType

LEMMA StreamTypeOK ==
  ASSUME TypeOK, NEW w \in Win,
         (\E n \in Name : Ask(w, n)) \/ Stream(w) \/ Ping(w) \/ Elapse(w)
           \/ Break(w) \/ TimeOut(w) \/ Leave(w)
  PROVE  TypeOK'
<1> USE DEF TypeOK, Proc, roomVars, purgeVars
<1>1. CASE \E n \in Name : Ask(w, n)
  BY <1>1 DEF Ask
<1>2. CASE Lookup(w)
  <2> PICK o \in Room :
         /\ IF Known(want[w]) THEN channels[want[w]] = o
                                   /\ UNCHANGED <<channels, roomVars>>
                              ELSE Load(o, want[w])
         /\ at' = [at EXCEPT ![w] = o]
    BY <1>2 DEF Lookup
  <2>1. at' \in [Proc -> Room \cup {None}]
    OBVIOUS
  <2>2. /\ channels' \in [Name -> Room \cup {None}]
        /\ home' \in [Room -> Name \cup {None}]
        /\ closed' \in [Room -> BOOLEAN]
        /\ onlines' \in [Room -> SUBSET Win]
        /\ data' \in [Room -> SUBSET Sender]
        /\ held' \in [Room -> BOOLEAN]
    <3>1. CASE Known(want[w])
      BY <3>1
    <3>2. CASE ~Known(want[w])
      <4> USE <3>2 DEF Load
      <4>1. /\ channels' = [channels EXCEPT ![want[w]] = o]
            /\ home' = [home EXCEPT ![o] = want[w]]
            /\ closed' = [closed EXCEPT ![o] = FALSE]
            /\ onlines' = [onlines EXCEPT ![o] = {}]
            /\ data' = [data EXCEPT ![o] = store[want[w]]]
            /\ held' = [held EXCEPT ![o] = FALSE]
        OBVIOUS
      <4>2. want[w] \in Name
        BY <1>2 DEF Lookup
      <4> QED  BY <4>1, <4>2
    <3> QED  BY <3>1, <3>2
  <2> QED  BY <1>2, <2>1, <2>2 DEF Lookup
<1>3. CASE Join(w)
  BY <1>3 DEF Join
<1>4. CASE Leave(w)
  BY <1>4 DEF Leave
<1>5. CASE Ping(w) \/ Elapse(w) \/ Leaves(w)
  BY <1>5 DEF Ping, Elapse, Leaves
<1> QED  BY <1>1, <1>2, <1>3, <1>4, <1>5 DEF Stream, Break, TimeOut

LEMMA HoldTypeOK ==
  ASSUME TypeOK, NEW o \in Room, Hold(o) \/ Release(o)
  PROVE  TypeOK'
BY DEF Hold, Release, TypeOK, Proc, procVars, purgeVars

LEMMA SendTypeOK ==
  ASSUME TypeOK, NEW s \in Sender,
         (\E n \in Name : Post(s, n)) \/ Send(s)
  PROVE  TypeOK'
<1> USE DEF TypeOK, Proc, roomVars, purgeVars
<1>1. CASE \E n \in Name : Post(s, n)
  BY <1>1 DEF Post
<1>2. CASE Find(s)
  BY <1>2 DEF Find
<1>3. CASE Append_(s)
  BY <1>3 DEF Append_
<1>4. CASE Commit(s)
  <2>1. store' \in [Name -> SUBSET Sender] /\ late' \in SUBSET Sender
    BY <1>4 DEF Commit
  <2>2. /\ pc' \in [Proc -> {"idle", "lookup", "join", "on", "leave", "find",
                      "append", "commit", "ok", "error", "nowhere", "lost"}]
        /\ \A p \in Proc : pc'[p] # "idle" => want[p] \in Name
        /\ \A p \in Proc :
             pc'[p] \in {"join", "on", "leave", "append", "commit"}
               => at'[p] \in Room
        /\ at' \in [Proc -> Room \cup {None}]
    BY <1>4 DEF Commit
  <2> QED  BY <1>4, <2>1, <2>2 DEF Commit
<1> QED  BY <1>1, <1>2, <1>3, <1>4 DEF Send

(* The names purgeWorld has still to visit, and the one it is at, keep     *)
(* their rooms.                                                            *)
PurgeKnows ==
  /\ \A n \in todo : Known(n)
  /\ purger \in {"look", "close", "count"} => cur \in Name \ todo /\ Known(cur)

LEMMA PurgeTypeOK == TypeOK /\ PurgeKnows /\ Purge => TypeOK'
<1> SUFFICES ASSUME TypeOK, PurgeKnows, Purge PROVE TypeOK'
  OBVIOUS
<1> USE DEF TypeOK, roomVars, procVars
<1>1. CASE PurgeStart
  BY <1>1 DEF PurgeStart, Reset
<1>2. CASE (\E n \in Name : PurgeNext(n)) \/ PurgeLook
  BY <1>2 DEF PurgeNext, PurgeLook
<1>3. CASE PurgeClose
  BY <1>3 DEF PurgeClose, Forget
<1>4. CASE PurgeCount
  <2>1. channels[cur] \in Room
    BY <1>4 DEF PurgeCount, PurgeKnows, Known
  <2>2. Cardinality(onlines[channels[cur]]) \in Nat
    BY <2>1, CountIsNat
  <2>3. total' \in Nat
    BY <1>4, <2>2 DEF PurgeCount
  <2>4. counted' \in SUBSET Win
    BY <1>4, <2>1 DEF PurgeCount
  <2> QED  BY <1>4, <2>3, <2>4 DEF PurgeCount
<1>5. CASE PurgeEnd
  BY <1>5 DEF PurgeEnd
<1> QED  BY <1>1, <1>2, <1>3, <1>4, <1>5 DEF Purge

LEMMA RestartTypeOK == TypeOK /\ Restart => TypeOK'
<1> SUFFICES ASSUME TypeOK, Restart PROVE TypeOK'
  OBVIOUS
<1> USE DEF TypeOK, Restart
<1>1. /\ channels' \in [Name -> Room \cup {None}]
      /\ onlines' \in [Room -> SUBSET Win]
      /\ held' \in [Room -> BOOLEAN]
      /\ at' \in [Proc -> Room \cup {None}]
      /\ want' \in [Proc -> Name \cup {None}]
      /\ pinged' \in [Win -> BOOLEAN]
  OBVIOUS
<1>2. pc' \in [Proc -> {"idle", "lookup", "join", "on", "leave", "find",
                      "append", "commit", "ok", "error", "nowhere", "lost"}]
  <2>1. \A p \in Proc : pc[p] \in {"idle", "lookup", "join", "on", "leave",
             "find", "append", "commit", "ok", "error", "nowhere", "lost"}
    OBVIOUS
  <2>2. pc' = [p \in Proc |-> IF p \in Win THEN "idle"
                  ELSE IF pc[p] \in AtRest THEN pc[p] ELSE "lost"]
    OBVIOUS
  <2> HIDE DEF TypeOK, Restart
  <2> QED  BY <2>1, <2>2
<1>3. \A p \in Proc : pc'[p] # "idle" => want'[p] \in Name
  <2> SUFFICES ASSUME NEW p \in Proc, pc'[p] # "idle" PROVE want'[p] \in Name
    OBVIOUS
  <2>1. p \notin Win
    OBVIOUS
  <2>2. pc[p] # "idle"
    BY <2>1 DEF AtRest
  <2> QED  BY <2>1, <2>2
<1>4. \A p \in Proc : pc'[p] \notin {"join", "on", "leave", "append",
                                   "commit"}
  BY DEF AtRest
<1>5. restarts' \in 0..MaxRestarts
  OBVIOUS
<1>6. /\ total' \in Nat /\ purger' = "asleep" /\ todo' \in SUBSET Name
      /\ cur' = None /\ stayed' = {} /\ counted' = {}
  OBVIOUS
<1>7. UNCHANGED <<home, closed, data, store, late>>
  OBVIOUS
<1> HIDE DEF Restart
<1> QED  BY <1>1, <1>2, <1>3, <1>4, <1>5, <1>6, <1>7

-------------------------------------------------------------------------------
(* Rooms.                                                                  *)

(* A room that is found is open and has the name it is found under, and a  *)
(* room in use that is open is found.                                      *)
Rooms ==
  /\ \A n \in Name : Known(n) => home[channels[n]] = n /\ ~closed[channels[n]]
  /\ \A o \in Room : InUse(o) => home[o] \in Name
  /\ \A o \in Room : InUse(o) /\ ~closed[o] => channels[home[o]] = o

LEMMA RoomsSuffice == TypeOK /\ Rooms => OneRoomPerName
BY DEF TypeOK, Rooms, OneRoomPerName, Known

(* A step that keeps channels, home and closed, and in which nobody takes  *)
(* a room that was not in use before.                                      *)
LEMMA RoomsKept ==
  ASSUME Rooms, UNCHANGED <<channels, home, closed>>,
         \A p \in Proc : at'[p] \in Room => InUse(at'[p])
  PROVE  Rooms'
<1>1. \A o \in Room : InUse(o)' => InUse(o)
  BY DEF InUse
<1> QED  BY <1>1 DEF Rooms, Known

LEMMA NextRooms == TypeOK /\ PurgeKnows /\ Rooms /\ [Next]_vars => Rooms'
<1> SUFFICES ASSUME TypeOK, PurgeKnows, Rooms, [Next]_vars PROVE Rooms'
  OBVIOUS
<1>1. CASE UNCHANGED <<channels, home, closed, at>>
  BY <1>1, RoomsKept DEF InUse
<1>2. CASE \E w \in Win : Lookup(w)
  <2> PICK w \in Win : Lookup(w)
    BY <1>2
  <2>1. PICK o \in Room :
         /\ IF Known(want[w]) THEN channels[want[w]] = o
                                   /\ UNCHANGED <<channels, roomVars>>
                              ELSE Load(o, want[w])
         /\ at' = [at EXCEPT ![w] = o]
    BY DEF Lookup
  <2>2. want[w] \in Name
    BY DEF Lookup, TypeOK, Proc
  <2>3. CASE Known(want[w])
    <3>1. UNCHANGED <<channels, home, closed>> /\ channels[want[w]] = o
      BY <2>1, <2>3 DEF roomVars
    <3>2. \A p \in Proc : at'[p] \in Room => InUse(at'[p])
      BY <2>1, <2>2, <3>1 DEF InUse, TypeOK
    <3> QED  BY <3>1, <3>2, RoomsKept
  <2>4. CASE ~Known(want[w])
    <3> DEFINE n == want[w]
    <3>1. /\ ~InUse(o)
          /\ channels' = [channels EXCEPT ![n] = o]
          /\ home' = [home EXCEPT ![o] = n]
          /\ closed' = [closed EXCEPT ![o] = FALSE]
      BY <2>1, <2>4 DEF Load
    <3>2. channels[n] = None
      BY <2>4 DEF Known
    <3>3. \A q \in Room : q # o /\ InUse(q)' => InUse(q)
      BY <2>1, <2>2, <3>1 DEF InUse, TypeOK
    <3>4. \A m \in Name : channels[m] # o
      BY <3>1 DEF InUse
    <3>5. \A m \in Name : Known(m)' =>
              home'[channels'[m]] = m /\ ~closed'[channels'[m]]
      BY <2>2, <3>1, <3>4 DEF Rooms, Known, TypeOK
    <3>6. \A q \in Room : InUse(q)' => home'[q] \in Name
      BY <2>2, <3>1, <3>3 DEF Rooms, TypeOK
    <3>7. \A q \in Room : InUse(q)' /\ ~closed'[q] => channels'[home'[q]] = q
      <4> SUFFICES ASSUME NEW q \in Room, InUse(q)', ~closed'[q]
                   PROVE  channels'[home'[q]] = q
        OBVIOUS
      <4>1. CASE q = o
        BY <4>1, <2>2, <3>1 DEF TypeOK
      <4>2. CASE q # o
        <5>1. channels[home[q]] = q /\ home[q] \in Name
          BY <4>2, <3>1, <3>3 DEF Rooms, TypeOK
        <5>2. home[q] # n
          BY <5>1, <3>2
        <5> QED  BY <4>2, <5>1, <5>2, <3>1 DEF TypeOK
      <4> QED  BY <4>1, <4>2
    <3> QED  BY <3>5, <3>6, <3>7 DEF Rooms
  <2> QED  BY <2>3, <2>4
<1>3. CASE \E w \in Win : Leave(w)
  BY <1>3, RoomsKept DEF Leave, InUse, TypeOK, Proc
<1>4. CASE \E s \in Sender : Find(s)
  <2> PICK s \in Sender : Find(s)
    BY <1>4
  <2>1. at' = [at EXCEPT ![s] = channels[want[s]]] /\ want[s] \in Name
    BY DEF Find, TypeOK, Proc
  <2>2. \A p \in Proc : at'[p] \in Room => InUse(at'[p])
    BY <2>1 DEF InUse, TypeOK
  <2> QED  BY <2>2, RoomsKept DEF Find, roomVars
<1>5. CASE \E s \in Sender : Commit(s)
  BY <1>5, RoomsKept DEF Commit, InUse, TypeOK, Proc, roomVars
<1>6. CASE PurgeClose
  <2>1. /\ cur \in Name /\ channels[cur] \in Room
        /\ channels' = [channels EXCEPT ![cur] = None]
        /\ closed' = [closed EXCEPT ![channels[cur]] = TRUE]
        /\ home' = home /\ at' = at
    BY <1>6 DEF PurgeClose, PurgeKnows, Known, TypeOK, Forget, procVars
  <2>2. \A q \in Room : InUse(q)' => InUse(q)
    BY <2>1 DEF InUse, TypeOK
  <2>3. \A m \in Name : Known(m)' =>
              home'[channels'[m]] = m /\ ~closed'[channels'[m]]
    <3> SUFFICES ASSUME NEW m \in Name, Known(m)'
                 PROVE  home'[channels'[m]] = m /\ ~closed'[channels'[m]]
      OBVIOUS
    <3>1. m # cur /\ channels'[m] = channels[m] /\ Known(m)
      BY <2>1 DEF Known, TypeOK
    <3>2. channels[m] \in Room /\ home[channels[m]] = m /\ ~closed[channels[m]]
      BY <3>1 DEF Rooms, Known, TypeOK
    <3>3. home[channels[cur]] = cur
      BY <2>1 DEF Rooms, Known
    <3>4. channels[m] # channels[cur]
      BY <3>1, <3>2, <3>3
    <3> QED  BY <2>1, <3>1, <3>2, <3>4 DEF TypeOK
  <2>4. \A q \in Room : InUse(q)' => home'[q] \in Name
    BY <2>1, <2>2 DEF Rooms
  <2>5. \A q \in Room : InUse(q)' /\ ~closed'[q] => channels'[home'[q]] = q
    <3> SUFFICES ASSUME NEW q \in Room, InUse(q)', ~closed'[q]
                 PROVE  channels'[home'[q]] = q
      OBVIOUS
    <3>1. q # channels[cur] /\ ~closed[q]
      BY <2>1 DEF TypeOK
    <3>2. channels[home[q]] = q /\ home[q] \in Name
      BY <2>2, <3>1 DEF Rooms
    <3>3. home[q] # cur
      BY <3>1, <3>2
    <3> QED  BY <2>1, <3>2, <3>3 DEF TypeOK
  <2> QED  BY <2>3, <2>4, <2>5 DEF Rooms
<1>7. CASE Restart
  <2>1. \A n \in Name : channels'[n] = None
    BY <1>7 DEF Restart
  <2>2. \A p \in Proc : at'[p] = None
    BY <1>7 DEF Restart
  <2> QED  BY <2>1, <2>2 DEF Rooms, InUse, Known
<1>8. CASE \E w \in Win : \/ \E n \in Name : Ask(w, n)
                          \/ Join(w) \/ Leaves(w) \/ Ping(w) \/ Elapse(w)
  BY <1>1, <1>8 DEF Ask, Join, Leaves, Ping, Elapse, roomVars
<1>9. CASE \E s \in Sender : (\E n \in Name : Post(s, n)) \/ Append_(s)
  BY <1>1, <1>9 DEF Post, Append_, roomVars
<1>10. CASE \/ PurgeStart \/ (\E n \in Name : PurgeNext(n))
            \/ PurgeLook \/ PurgeCount \/ PurgeEnd
            \/ \E o \in Room : Hold(o) \/ Release(o)
  BY <1>1, <1>10 DEF PurgeStart, PurgeNext, PurgeLook, PurgeCount, PurgeEnd,
                     Hold, Release, roomVars, procVars
<1>11. CASE UNCHANGED vars
  BY <1>1, <1>11 DEF vars, roomVars, procVars
<1> QED  BY <1>2, <1>3, <1>4, <1>5, <1>6, <1>7, <1>8, <1>9, <1>10, <1>11
         DEF Next, Stream, Break, TimeOut, Send, Purge

LEMMA NextPurgeKnows == TypeOK /\ PurgeKnows /\ [Next]_vars => PurgeKnows'
<1> SUFFICES ASSUME TypeOK, PurgeKnows, [Next]_vars PROVE PurgeKnows'
  OBVIOUS
<1> USE DEF PurgeKnows, Known
<1>1. CASE UNCHANGED <<channels, purger, todo, cur>>
  BY <1>1
<1>2. CASE \E w \in Win : Lookup(w)
  <2> PICK w \in Win : Lookup(w)
    BY <1>2
  <2>1. \A n \in Name : channels[n] # None => channels'[n] # None
    BY DEF Lookup, Load, TypeOK, roomVars
  <2>2. UNCHANGED <<purger, todo, cur>>
    BY DEF Lookup, purgeVars
  <2> QED  BY <2>1, <2>2 DEF TypeOK
<1>3. CASE PurgeStart
  BY <1>3 DEF PurgeStart
<1>4. CASE (\E n \in Name : PurgeNext(n)) \/ PurgeLook
  BY <1>4 DEF PurgeNext, PurgeLook, roomVars
<1>5. CASE PurgeClose
  <2>1. /\ channels' = [channels EXCEPT ![cur] = None] /\ todo' = todo
        /\ purger' = "scan" /\ cur \notin todo
    BY <1>5 DEF PurgeClose, Forget
  <2> QED  BY <2>1 DEF TypeOK
<1>6. CASE PurgeCount \/ PurgeEnd
  BY <1>6 DEF PurgeCount, PurgeEnd
<1>7. CASE Restart
  BY <1>7 DEF Restart
<1>8. CASE \E w \in Win : \/ \E n \in Name : Ask(w, n)
                          \/ Join(w) \/ Leaves(w) \/ Leave(w)
                          \/ Ping(w) \/ Elapse(w)
  BY <1>1, <1>8 DEF Ask, Join, Leaves, Leave, Ping, Elapse, purgeVars
<1>9. CASE \E s \in Sender : \/ \E n \in Name : Post(s, n)
                             \/ Find(s) \/ Append_(s) \/ Commit(s)
  BY <1>1, <1>9 DEF Post, Find, Append_, Commit, purgeVars
<1>10. CASE UNCHANGED vars \/ \E o \in Room : Hold(o) \/ Release(o)
  BY <1>1, <1>10 DEF vars, Hold, Release, purgeVars
<1> QED  BY <1>2, <1>3, <1>4, <1>5, <1>6, <1>7, <1>8, <1>9, <1>10
         DEF Next, Stream, Break, TimeOut, Send, Purge

LEMMA InitPurgeKnows == Init => PurgeKnows
BY DEF Init, PurgeKnows

(* The types, and what purgeWorld relies on, go together.                  *)
LEMMA TypesInvariant == Spec => [](TypeOK /\ PurgeKnows)
<1>1. TypeOK /\ PurgeKnows /\ [Next]_vars => TypeOK'
  <2> SUFFICES ASSUME TypeOK, PurgeKnows, [Next]_vars PROVE TypeOK'
    OBVIOUS
  <2>1. CASE UNCHANGED vars
    BY <2>1 DEF TypeOK, vars, roomVars, procVars, purgeVars
  <2>2. CASE Purge
    BY <2>2, PurgeTypeOK
  <2>3. CASE Restart
    BY <2>3, RestartTypeOK
  <2>4. CASE \E w \in Win : \/ \E n \in Name : Ask(w, n)
                            \/ Stream(w) \/ Ping(w) \/ Elapse(w)
                            \/ Break(w) \/ TimeOut(w) \/ Leave(w)
    BY <2>4, StreamTypeOK
  <2>5. CASE \E s \in Sender : (\E n \in Name : Post(s, n)) \/ Send(s)
    BY <2>5, SendTypeOK
  <2>6. CASE \E o \in Room : Hold(o) \/ Release(o)
    BY <2>6, HoldTypeOK
  <2> QED  BY <2>1, <2>2, <2>3, <2>4, <2>5, <2>6 DEF Next
<1> QED  BY <1>1, InitTypeOK, InitPurgeKnows, NextPurgeKnows, PTL DEF Spec

(* The fields of the registry and of its rooms keep their types, and every *)
(* request keeps its name and room until it is answered.                   *)
THEOREM TypeCorrect == Spec => []TypeOK
BY TypesInvariant, PTL

(* A name has at most one open room, which is the one found under it,      *)
(* whatever streams, sends, purges and restarts do.                        *)
THEOREM RoomsCorrect == Spec => []OneRoomPerName
<1>1. Init => Rooms
  BY DEF Init, Rooms, InUse, Known
<1> QED  BY <1>1, NextRooms, RoomsSuffice, TypesInvariant, PTL DEF Spec

-------------------------------------------------------------------------------
(* Messages.                                                               *)

(* An accepted message is in the store, where later rooms find it; one     *)
(* that waits for its commit is in the room it was appended to.            *)
Messages ==
  /\ \A s \in Sender : pc[s] = "ok" => s \in store[want[s]]
  /\ \A s \in Sender : pc[s] = "commit" => s \in data[at[s]]
  /\ \A s \in Sender :
       pc[s] \in {"append", "commit"} => home[at[s]] = want[s]
  /\ LostOnlyWithItsRoom

(* A step that keeps the registry, the messages and the senders.           *)
LEMMA MessagesKept ==
  ASSUME TypeOK, Messages,
         \A s \in Sender : pc'[s] = pc[s] /\ want'[s] = want[s] /\ at'[s] = at[s],
         UNCHANGED <<channels, home, data, store, late>>
  PROVE  Messages'
BY DEF Messages, LostOnlyWithItsRoom, TypeOK

LEMMA NextMessages ==
  TypeOK /\ PurgeKnows /\ Rooms /\ Messages /\ [Next]_vars => Messages'
<1> SUFFICES ASSUME TypeOK, PurgeKnows, Rooms, Messages, [Next]_vars
             PROVE  Messages'
  OBVIOUS
<1>1. CASE \E w \in Win : Lookup(w)
  <2> PICK w \in Win : Lookup(w)
    BY <1>1
  <2>1. \A s \in Sender : pc'[s] = pc[s] /\ want'[s] = want[s] /\ at'[s] = at[s]
    BY DEF Lookup, TypeOK, Proc
  <2>2. UNCHANGED <<store, late>> /\ want[w] \in Name
    BY DEF Lookup, TypeOK, Proc
  <2>3. PICK o \in Room : IF Known(want[w]) THEN UNCHANGED <<channels, roomVars>>
                                            ELSE Load(o, want[w])
    BY DEF Lookup
  <2>4. CASE Known(want[w])
    BY <2>1, <2>2, <2>3, <2>4, MessagesKept DEF roomVars
  <2>5. CASE ~Known(want[w])
    <3>1. /\ ~InUse(o)
          /\ channels' = [channels EXCEPT ![want[w]] = o]
          /\ home' = [home EXCEPT ![o] = want[w]]
          /\ data' = [data EXCEPT ![o] = store[want[w]]]
      BY <2>3, <2>5 DEF Load
    <3>2. \A s \in Sender : at[s] # o
      BY <3>1 DEF InUse, Proc
    <3>3. \A n \in Name : channels[n] # o
      BY <3>1 DEF InUse
    <3>4. \A s \in Sender : pc'[s] = "ok" => s \in store'[want'[s]]
      BY <2>1, <2>2 DEF Messages
    <3>5. \A s \in Sender : pc'[s] = "commit" => s \in data'[at'[s]]
      BY <2>1, <3>1, <3>2 DEF Messages, TypeOK, Proc
    <3>6. \A s \in Sender : pc'[s] \in {"append", "commit"} =>
                              home'[at'[s]] = want'[s]
      BY <2>1, <3>1, <3>2 DEF Messages, TypeOK, Proc
    <3>7. LostOnlyWithItsRoom'
      <4> SUFFICES ASSUME NEW s \in Sender, pc'[s] = "ok",
                          channels'[want'[s]] # None, s \notin late'
                   PROVE  s \in data'[channels'[want'[s]]]
        BY DEF LostOnlyWithItsRoom
      <4>1. pc[s] = "ok" /\ s \notin late /\ want'[s] = want[s]
        BY <2>1, <2>2
      <4>2. want[s] \in Name /\ s \in store[want[s]]
        BY <4>1 DEF Messages, TypeOK, Proc
      <4>3. CASE want[s] = want[w]
        BY <3>1, <4>1, <4>2, <4>3 DEF TypeOK
      <4>4. CASE want[s] # want[w]
        <5>1. channels'[want[s]] = channels[want[s]]
          BY <3>1, <4>2, <4>4 DEF TypeOK
        <5>2. s \in data[channels[want[s]]]
          BY <4>1, <5>1 DEF Messages, LostOnlyWithItsRoom
        <5>3. channels[want[s]] \in Room /\ channels[want[s]] # o
          BY <3>3, <4>1, <4>2, <5>1 DEF TypeOK
        <5> QED  BY <3>1, <4>1, <5>1, <5>2, <5>3 DEF TypeOK
      <4> QED  BY <4>3, <4>4
    <3> QED  BY <3>4, <3>5, <3>6, <3>7 DEF Messages
  <2> QED  BY <2>4, <2>5
<1>2. CASE \E w \in Win : \/ \E n \in Name : Ask(w, n)
                          \/ Join(w) \/ Leaves(w) \/ Leave(w)
                          \/ Ping(w) \/ Elapse(w)
  <2> PICK w \in Win : \/ \E n \in Name : Ask(w, n)
                       \/ Join(w) \/ Leaves(w) \/ Leave(w)
                       \/ Ping(w) \/ Elapse(w)
    BY <1>2
  <2>1. \A s \in Sender : s # w
    OBVIOUS
  <2>2. \A s \in Sender : pc'[s] = pc[s] /\ want'[s] = want[s] /\ at'[s] = at[s]
    BY <2>1 DEF Ask, Join, Leaves, Leave, Ping, Elapse, TypeOK, Proc
  <2>3. UNCHANGED <<channels, home, data, store, late>>
    BY DEF Ask, Join, Leaves, Leave, Ping, Elapse, roomVars
  <2> QED  BY <2>2, <2>3, MessagesKept
<1>3. CASE \E s \in Sender : (\E n \in Name : Post(s, n)) \/ Find(s)
  <2> PICK s \in Sender : (\E n \in Name : Post(s, n)) \/ Find(s)
    BY <1>3
  <2>1. UNCHANGED <<channels, home, data, store, late>>
    BY DEF Post, Find, roomVars
  <2>2. \A q \in Sender \ {s} :
          pc'[q] = pc[q] /\ want'[q] = want[q] /\ at'[q] = at[q]
    BY DEF Post, Find, TypeOK, Proc
  <2>3. /\ pc'[s] \in {"find", "nowhere", "append"}
        /\ pc'[s] = "append" => home[at'[s]] = want'[s]
    <3>1. CASE \E n \in Name : Post(s, n)
      BY <3>1 DEF Post, TypeOK, Proc
    <3>2. CASE Find(s)
      <4>1. /\ at'[s] = channels[want[s]] /\ want' = want /\ want[s] \in Name
            /\ pc'[s] = IF channels[want[s]] = None THEN "nowhere" ELSE "append"
        BY <3>2 DEF Find, TypeOK, Proc
      <4> QED  BY <4>1 DEF Rooms, Known
    <3> QED  BY <3>1, <3>2
  <2> QED  BY <2>1, <2>2, <2>3 DEF Messages, LostOnlyWithItsRoom
<1>4. CASE \E s \in Sender : Append_(s)
  <2> PICK s \in Sender : Append_(s)
    BY <1>4
  <2>1. /\ UNCHANGED <<channels, home, want, at, store, late>>
        /\ data' = [data EXCEPT ![at[s]] = @ \cup {s}]
        /\ pc' = [pc EXCEPT ![s] = "commit"] /\ pc[s] = "append"
    BY DEF Append_
  <2>2. \A o \in Room : data[o] \subseteq data'[o]
    BY <2>1 DEF TypeOK
  <2>3. at[s] \in Room /\ s \in data'[at[s]]
    BY <2>1 DEF TypeOK, Proc
  <2>4. \A q \in Sender \ {s} : pc'[q] = pc[q]
    BY <2>1 DEF TypeOK, Proc
  <2>5. pc'[s] = "commit"
    BY <2>1 DEF TypeOK, Proc
  <2>6. \A q \in Sender : pc'[q] = "commit" => q \in data'[at'[q]]
    BY <2>1, <2>2, <2>3, <2>4 DEF Messages, TypeOK, Proc
  <2>7. LostOnlyWithItsRoom'
    BY <2>1, <2>2, <2>4, <2>5 DEF Messages, LostOnlyWithItsRoom, TypeOK, Proc
  <2> QED  BY <2>1, <2>4, <2>5, <2>6, <2>7 DEF Messages
<1>5. CASE \E s \in Sender : Commit(s)
  <2> PICK s \in Sender : Commit(s)
    BY <1>5
  <2>1. /\ UNCHANGED <<channels, home, want, data>>
        /\ pc[s] = "commit"
        /\ at[s] \in Room /\ home[at[s]] = want[s] /\ s \in data[at[s]]
        /\ want[s] \in Name
    BY DEF Commit, roomVars, Messages, TypeOK, Proc
  <2>2. \A q \in Sender \ {s} : pc'[q] = pc[q] /\ at'[q] = at[q]
    BY DEF Commit, TypeOK, Proc
  <2>3. CASE pc'[s] = "ok"
    <3>1. /\ store' = [store EXCEPT ![want[s]] = @ \cup {s}]
          /\ late' = IF closed[at[s]] THEN late \cup {s} ELSE late
      BY <2>1, <2>3 DEF Commit, TypeOK, Proc
    <3>2. \A n \in Name : store[n] \subseteq store'[n]
      BY <3>1 DEF TypeOK
    <3>3. s \in store'[want[s]]
      BY <2>1, <3>1 DEF TypeOK
    <3>4. s \in late' \/ s \in data[channels[want[s]]]
      <4>1. CASE closed[at[s]]
        BY <3>1, <4>1
      <4>2. CASE ~closed[at[s]]
        <5>1. channels[want[s]] = at[s]
          BY <2>1, <4>2 DEF Rooms, InUse, Proc
        <5> QED  BY <2>1, <5>1
      <4> QED  BY <4>1, <4>2
    <3>5. late \subseteq late'
      BY <3>1
    <3>6. \A q \in Sender : pc'[q] = "ok" => q \in store'[want'[q]]
      BY <2>1, <2>2, <3>2, <3>3 DEF Messages, TypeOK, Proc
    <3>7. LostOnlyWithItsRoom'
      BY <2>1, <2>2, <3>4, <3>5 DEF Messages, LostOnlyWithItsRoom
    <3> QED  BY <2>1, <2>2, <2>3, <3>6, <3>7 DEF Messages
  <2>4. CASE pc'[s] # "ok"
    <3>1. pc'[s] = "error" /\ UNCHANGED <<store, late>>
      BY <2>4 DEF Commit, TypeOK, Proc
    <3> QED  BY <2>1, <2>2, <3>1 DEF Messages, LostOnlyWithItsRoom
  <2> QED  BY <2>3, <2>4
<1>6. CASE PurgeClose
  <2>1. UNCHANGED <<home, data, store, late, pc, want, at>>
    BY <1>6 DEF PurgeClose, procVars
  <2>2. \A n \in Name : channels'[n] # None => channels'[n] = channels[n]
    BY <1>6 DEF PurgeClose, Forget, TypeOK
  <2>3. \A s \in Sender : pc[s] = "ok" => want[s] \in Name
    BY DEF TypeOK, Proc
  <2> QED  BY <2>1, <2>2, <2>3 DEF Messages, LostOnlyWithItsRoom
<1>7. CASE Restart
  <2>1. UNCHANGED <<home, data, store, late>>
    BY <1>7 DEF Restart
  <2>2. \A s \in Sender : s \notin Win
    OBVIOUS
  <2>3. \A s \in Sender : want'[s] = want[s]
    BY <1>7, <2>2 DEF Restart, TypeOK, Proc
  <2>4. \A s \in Sender : /\ pc'[s] \in AtRest \cup {"lost"}
                          /\ pc'[s] = "ok" => pc[s] = "ok"
    BY <1>7, <2>2 DEF Restart, TypeOK, Proc
  <2>5. \A n \in Name : channels'[n] = None
    BY <1>7 DEF Restart
  <2>6. \A s \in Sender : pc[s] = "ok" => want[s] \in Name
    BY DEF TypeOK, Proc
  <2>7. LostOnlyWithItsRoom'
    BY <2>3, <2>4, <2>5, <2>6 DEF LostOnlyWithItsRoom
  <2> QED  BY <2>1, <2>3, <2>4, <2>7 DEF Messages, AtRest
<1>8. CASE \/ PurgeStart \/ (\E n \in Name : PurgeNext(n))
           \/ PurgeLook \/ PurgeCount \/ PurgeEnd
           \/ \E o \in Room : Hold(o) \/ Release(o)
  BY <1>8, MessagesKept DEF PurgeStart, PurgeNext, PurgeLook, PurgeCount,
     PurgeEnd, Hold, Release, roomVars, procVars
<1>9. CASE UNCHANGED vars
  BY <1>9, MessagesKept DEF vars, roomVars, procVars
<1> QED  BY <1>1, <1>2, <1>3, <1>4, <1>5, <1>6, <1>7, <1>8, <1>9
         DEF Next, Stream, Break, TimeOut, Send, Purge

(* A message whose sender got no error is found in the room of its name,   *)
(* through purges and restarts, unless its room had been purged before the *)
(* message was committed.                                                  *)
THEOREM MessagesCorrect == Spec => []LostOnlyWithItsRoom
<1>1. Init => Rooms
  BY DEF Init, Rooms, InUse, Known
<1>2. Init => Messages
  BY DEF Init, Messages, LostOnlyWithItsRoom, Proc
<1>3. Messages => LostOnlyWithItsRoom
  BY DEF Messages
<1> QED  BY <1>1, <1>2, <1>3, NextRooms, NextMessages, TypesInvariant, PTL
         DEF Spec

-------------------------------------------------------------------------------
(* The number of users.                                                    *)

(* A window is in the room it has found, and in no other.                  *)
InPlace == \A w \in Win, o \in Room :
             w \in onlines[o] => at[w] = o /\ pc[w] \in Seated

(* The names whose users purgeWorld has still to count.                    *)
Ahead == IF purger \in {"look", "count"} THEN todo \cup {cur} ELSE todo

(* Who has been counted is not in a room that is still to be counted, and  *)
(* who has been there all the time is in one unless counted.               *)
Tally ==
  ~Unlocked =>
    /\ total = Cardinality(counted)
    /\ \A w \in counted, n \in Ahead : at[w] # channels[n]
    /\ \A w \in stayed : \/ w \in counted
                         \/ \E n \in Ahead : w \in onlines[channels[n]]

LEMMA TallySuffices == PurgeKnows /\ Tally => TotalExact
<1> SUFFICES ASSUME PurgeKnows, Tally, ~Unlocked, todo = {}, cur = None
             PROVE  stayed \subseteq counted
  BY DEF Tally, TotalExact
<1>1. purger \notin {"look", "count"}
  BY DEF PurgeKnows
<1> QED  BY <1>1 DEF Tally, Ahead

(* A window enters by Join and goes by Leave, and nobody is in a room that *)
(* is loaded anew.                                                         *)
LEMMA NextInPlace == TypeOK /\ InPlace /\ [Next]_vars => InPlace'
<1> SUFFICES ASSUME TypeOK, InPlace, [Next]_vars PROVE InPlace'
  OBVIOUS
<1>1. ASSUME UNCHANGED onlines,
             \A w \in Win : pc[w] \in Seated => at'[w] = at[w] /\ pc'[w] \in Seated
      PROVE  InPlace'
  BY <1>1 DEF InPlace
<1>2. CASE \E w \in Win : Lookup(w)
  <2> PICK w \in Win : Lookup(w)
    BY <1>2
  <2>1. \A o \in Room : onlines'[o] \subseteq onlines[o]
    <3> PICK o \in Room :
          IF Known(want[w]) THEN UNCHANGED <<channels, roomVars>>
                            ELSE Load(o, want[w])
      BY DEF Lookup
    <3>1. onlines' = onlines \/ onlines' = [onlines EXCEPT ![o] = {}]
      BY DEF Load, roomVars
    <3> QED  BY <3>1 DEF TypeOK
  <2>2. \A v \in Win :
          pc[v] \in Seated => at'[v] = at[v] /\ pc'[v] \in Seated
    BY DEF Lookup, TypeOK, Proc, Seated
  <2> QED  BY <2>1, <2>2 DEF InPlace
<1>3. CASE \E w \in Win : Join(w)
  <2> PICK w \in Win : Join(w)
    BY <1>3
  <2>1. /\ pc[w] = "join" /\ at' = at
        /\ onlines' = [onlines EXCEPT ![at[w]] = @ \cup {w}]
        /\ pc' = [pc EXCEPT ![w] = "on"]
    BY DEF Join
  <2>2. \A v \in Win : pc'[v] = IF v = w THEN "on" ELSE pc[v]
    BY <2>1 DEF TypeOK, Proc
  <2>3. \A v \in Win, o \in Room :
          v \in onlines'[o] => v \in onlines[o] \/ (v = w /\ o = at[w])
    BY <2>1 DEF TypeOK
  <2> QED  BY <2>1, <2>2, <2>3 DEF InPlace, Seated
<1>4. CASE \E w \in Win : Leave(w)
  <2> PICK w \in Win : Leave(w)
    BY <1>4
  <2>1. /\ onlines' = [onlines EXCEPT ![at[w]] = @ \ {w}]
        /\ pc' = [pc EXCEPT ![w] = "idle"]
        /\ at' = [at EXCEPT ![w] = None]
    BY DEF Leave
  <2>2. \A v \in Win : v # w => pc'[v] = pc[v] /\ at'[v] = at[v]
    BY <2>1 DEF TypeOK, Proc
  <2>3. \A o \in Room : onlines'[o] \subseteq onlines[o] /\ w \notin onlines'[o]
    BY <2>1 DEF InPlace, TypeOK
  <2> QED  BY <2>2, <2>3 DEF InPlace
<1>5. CASE Restart
  BY <1>5 DEF Restart, InPlace
<1>6. CASE \E w \in Win : \/ \E n \in Name : Ask(w, n)
                          \/ Ping(w) \/ Elapse(w) \/ Leaves(w)
  BY <1>1, <1>6 DEF Ask, Ping, Elapse, Leaves, TypeOK, Proc, roomVars, Seated
<1>7. CASE \E s \in Sender : (\E n \in Name : Post(s, n)) \/ Send(s)
  <2> PICK s \in Sender : (\E n \in Name : Post(s, n)) \/ Send(s)
    BY <1>7
  <2>1. onlines' = onlines
    BY DEF Post, Send, Find, Append_, Commit, roomVars
  <2>2. s \notin Win
    OBVIOUS
  <2>3. \A w \in Win : at'[w] = at[w] /\ pc'[w] = pc[w]
    BY <2>2 DEF Post, Send, Find, Append_, Commit, TypeOK, Proc
  <2> QED  BY <1>1, <2>1, <2>3
<1>8. CASE Purge \/ \E o \in Room : Hold(o) \/ Release(o)
  BY <1>1, <1>8 DEF Purge, PurgeStart, PurgeNext, PurgeLook, PurgeClose,
                    PurgeCount, PurgeEnd, Hold, Release, roomVars, procVars
<1>9. CASE UNCHANGED vars
  BY <1>1, <1>9 DEF vars, roomVars, procVars
<1> QED  BY <1>2, <1>3, <1>4, <1>5, <1>6, <1>7, <1>8, <1>9
         DEF Next, Stream, Break, TimeOut

(* The room purgeWorld counts has nobody in common with those it has       *)
(* counted: they have other names, and a window is in one room.            *)
LEMMA CountAdds ==
  ASSUME TypeOK, PurgeKnows, Rooms, InPlace, Tally, PurgeCount
  PROVE  Tally'
<1> DEFINE here == onlines[channels[cur]]
<1>1. /\ purger = "count" /\ purger' = "scan" /\ ~Unlocked
      /\ UNCHANGED <<channels, onlines, todo, at, stayed>>
      /\ total' = total + Cardinality(here)
      /\ counted' = counted \cup here
  BY DEF PurgeCount, roomVars, procVars, Unlocked
<1>2. cur \in Name \ todo /\ channels[cur] # None /\ channels[cur] \in Room
  BY <1>1 DEF PurgeKnows, Known, TypeOK
<1>3. Ahead = todo \cup {cur} /\ Ahead' = todo
  BY <1>1 DEF Ahead
<1>4. here \subseteq Win /\ \A w \in here : at[w] = channels[cur]
  BY <1>2 DEF TypeOK, InPlace
<1> HIDE DEF here
<1>5. counted \cap here = {}
  BY <1>1, <1>3, <1>4 DEF Tally
<1>6. total' = Cardinality(counted')
  <2>1. IsFiniteSet(counted) /\ IsFiniteSet(here)
    BY <1>4, FS_Subset DEF TypeOK
  <2>2. Cardinality(counted \cup here)
          = Cardinality(counted) + Cardinality(here)
              - Cardinality(counted \cap here)
    BY <2>1, FS_Union
  <2>3. Cardinality(counted \cap here) = 0
    BY <1>5, FS_EmptySet
  <2>4. Cardinality(counted) \in Nat /\ Cardinality(here) \in Nat
    BY <2>1, FS_CardinalityType
  <2>5. Cardinality(counted \cup here)
          = Cardinality(counted) + Cardinality(here)
    BY <2>2, <2>3, <2>4
  <2>6. total = Cardinality(counted)
    BY <1>1 DEF Tally
  <2> QED  BY <1>1, <2>5, <2>6
<1>7. \A w \in counted', n \in Ahead' : at'[w] # channels'[n]
  <2> SUFFICES ASSUME NEW w \in counted \cup here, NEW n \in todo
               PROVE  at[w] # channels[n]
    BY <1>1, <1>3
  <2>1. CASE w \in counted
    BY <1>1, <1>3, <2>1 DEF Tally
  <2>2. CASE w \in here
    <3>1. n \in Name /\ n # cur /\ channels[n] # None
      BY <1>2 DEF PurgeKnows, Known, TypeOK
    <3>2. home[channels[n]] = n /\ home[channels[cur]] = cur
      BY <1>2, <3>1 DEF Rooms, Known
    <3> QED  BY <1>4, <2>2, <3>1, <3>2
  <2> QED  BY <2>1, <2>2
<1>8. \A w \in stayed' : \/ w \in counted'
                         \/ \E n \in Ahead' : w \in onlines'[channels'[n]]
  <2> SUFFICES ASSUME NEW w \in stayed
               PROVE  \/ w \in counted \cup here
                      \/ \E n \in todo : w \in onlines[channels[n]]
    BY <1>1, <1>3
  <2> QED  BY <1>1, <1>3 DEF Tally, here
<1> QED  BY <1>6, <1>7, <1>8 DEF Tally

(* While the purge stands still, windows may come to any room, and those   *)
(* that leave are not among those who stayed.                              *)
LEMMA TallyKept ==
  ASSUME TypeOK, PurgeKnows, Tally, UNCHANGED <<channels, purgeVars>>,
         stayed' \subseteq stayed,
         \A w \in Win : at'[w] \in {at[w], None},
         \A w \in stayed', o \in Room : w \in onlines[o] => w \in onlines'[o]
  PROVE  Tally'
<1> SUFFICES ASSUME ~Unlocked PROVE Tally'
  BY DEF Tally, Unlocked, purgeVars
<1>1. /\ Ahead' = Ahead /\ total' = total /\ counted' = counted
      /\ channels' = channels
  BY DEF Ahead, purgeVars
<1>2. \A n \in Ahead : channels[n] # None /\ channels[n] \in Room
  BY DEF Ahead, PurgeKnows, Known, TypeOK
<1>3. \A w \in counted, n \in Ahead : at'[w] # channels[n]
  BY <1>2 DEF Tally, TypeOK
<1>4. \A w \in stayed' : \/ w \in counted
                         \/ \E n \in Ahead : w \in onlines'[channels[n]]
  BY <1>2 DEF Tally
<1> QED  BY <1>1, <1>3, <1>4 DEF Tally

LEMMA NextTally ==
  TypeOK /\ PurgeKnows /\ Rooms /\ InPlace /\ Tally /\ [Next]_vars => Tally'
<1> SUFFICES ASSUME TypeOK, PurgeKnows, Rooms, InPlace, Tally, [Next]_vars
             PROVE  Tally'
  OBVIOUS
<1>1. CASE (\E w \in Win : Lookup(w)) \/ PurgeEnd \/ Restart
  <2>1. purger' = "asleep"
    BY <1>1 DEF Lookup, PurgeEnd, Restart, Unlocked, purgeVars
  <2> QED  BY <2>1 DEF Tally, Unlocked
<1>2. CASE PurgeStart
  <2>1. /\ purger' = "scan" /\ total' = 0 /\ counted' = {}
        /\ UNCHANGED <<channels, onlines>>
        /\ todo' = {n \in Name : channels[n] # None}
        /\ stayed' = {w \in Win : \E n \in Name :
                        channels[n] # None /\ w \in onlines[channels[n]]}
    BY <1>2 DEF PurgeStart, Reset, roomVars
  <2>2. Cardinality({}) = 0
    BY FS_EmptySet
  <2>3. Ahead' = todo'
    BY <2>1 DEF Ahead
  <2> QED  BY <2>1, <2>2, <2>3 DEF Tally
<1>3. CASE \E n \in Name : PurgeNext(n)
  <2> PICK n \in Name : PurgeNext(n)
    BY <1>3
  <2>1. /\ purger = "scan" /\ purger' = "look" /\ n \in todo
        /\ cur' = n /\ todo' = todo \ {n}
        /\ UNCHANGED <<channels, onlines, at, total, counted, stayed>>
    BY DEF PurgeNext, roomVars, procVars
  <2>2. Ahead' = Ahead
    BY <2>1 DEF Ahead
  <2> QED  BY <2>1, <2>2 DEF Tally, Unlocked
<1>4. CASE PurgeLook
  <2>1. /\ purger = "look" /\ ~Unlocked
        /\ purger' = IF Deserted(channels[cur]) THEN "close" ELSE "count"
        /\ UNCHANGED <<channels, onlines, at, total, todo, cur, counted, stayed>>
    BY <1>4 DEF PurgeLook, roomVars, procVars, Unlocked
  <2>2. CASE Deserted(channels[cur])
    <3>1. Ahead = todo \cup {cur} /\ Ahead' = todo
      BY <2>1, <2>2 DEF Ahead
    <3>2. onlines[channels[cur]] = {}
      BY <2>2 DEF Deserted
    <3> QED  BY <2>1, <3>1, <3>2 DEF Tally
  <2>3. CASE ~Deserted(channels[cur])
    <3>1. Ahead' = Ahead
      BY <2>1, <2>3 DEF Ahead
    <3> QED  BY <2>1, <3>1 DEF Tally
  <2> QED  BY <2>2, <2>3
<1>5. CASE PurgeClose
  <2>1. /\ purger = "close" /\ purger' = "scan" /\ ~Unlocked
        /\ channels' = [channels EXCEPT ![cur] = None]
        /\ UNCHANGED <<onlines, at, total, todo, counted, stayed>>
    BY <1>5 DEF PurgeClose, Forget, procVars, Unlocked
  <2>2. Ahead = todo /\ Ahead' = todo /\ cur \notin todo /\ todo \subseteq Name
    BY <2>1 DEF Ahead, PurgeKnows, TypeOK
  <2>3. \A n \in todo : channels'[n] = channels[n]
    BY <2>1, <2>2 DEF TypeOK
  <2> QED  BY <2>1, <2>2, <2>3 DEF Tally
<1>6. CASE PurgeCount
  BY <1>6, CountAdds
<1>7. CASE \E w \in Win : Leave(w)
  <2> PICK w \in Win : Leave(w)
    BY <1>7
  <2>1. /\ UNCHANGED <<channels, purgeVars>> /\ stayed' = stayed \ {w}
        /\ at' = [at EXCEPT ![w] = None]
        /\ onlines' = [onlines EXCEPT ![at[w]] = @ \ {w}]
    BY DEF Leave
  <2>2. \A v \in Win : at'[v] \in {at[v], None}
    BY <2>1 DEF TypeOK, Proc
  <2>3. \A v \in stayed', o \in Room : v \in onlines[o] => v \in onlines'[o]
    BY <2>1 DEF TypeOK
  <2> QED  BY <2>1, <2>2, <2>3, TallyKept
<1>8. CASE \E w \in Win : Join(w)
  <2> PICK w \in Win : Join(w)
    BY <1>8
  <2>1. /\ UNCHANGED <<channels, purgeVars, stayed, at>>
        /\ onlines' = [onlines EXCEPT ![at[w]] = @ \cup {w}]
    BY DEF Join
  <2>2. \A v \in stayed', o \in Room : v \in onlines[o] => v \in onlines'[o]
    BY <2>1 DEF TypeOK
  <2> QED  BY <2>1, <2>2, TallyKept
<1>9. CASE \/ \E w \in Win : \/ \E n \in Name : Ask(w, n)
                             \/ Ping(w) \/ Elapse(w) \/ Leaves(w)
           \/ \E o \in Room : Hold(o) \/ Release(o)
           \/ UNCHANGED vars
  <2>1. UNCHANGED <<channels, purgeVars, stayed, at, onlines>>
    BY <1>9 DEF Ask, Ping, Elapse, Leaves, Hold, Release, vars, roomVars,
                procVars
  <2> QED  BY <2>1, TallyKept
<1>10. CASE \E s \in Sender : (\E n \in Name : Post(s, n)) \/ Send(s)
  <2> PICK s \in Sender : (\E n \in Name : Post(s, n)) \/ Send(s)
    BY <1>10
  <2>1. UNCHANGED <<channels, purgeVars, stayed, onlines>>
    BY DEF Post, Send, Find, Append_, Commit, roomVars
  <2>2. s \notin Win
    OBVIOUS
  <2>3. \A w \in Win : at'[w] = at[w]
    BY <2>2 DEF Post, Send, Find, Append_, Commit, TypeOK, Proc
  <2> QED  BY <2>1, <2>3, TallyKept
<1> QED  BY <1>1, <1>2, <1>3, <1>4, <1>5, <1>6, <1>7, <1>8, <1>9, <1>10
         DEF Next, Stream, Break, TimeOut, Purge

(* purgeWorld counts each user once, although rooms are counted one after  *)
(* the other and users come and go, and misses nobody who stays.           *)
THEOREM TotalCorrect == Spec => []TotalExact
<1>1. Init => Rooms
  BY DEF Init, Rooms, InUse, Known
<1>2. Init => InPlace /\ Tally
  BY DEF Init, InPlace, Tally, Unlocked
<1> QED  BY <1>1, <1>2, TallySuffices, NextRooms, NextInPlace, NextTally,
            TypesInvariant, PTL DEF Spec
===============================================================================
