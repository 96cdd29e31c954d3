---------------------------- MODULE PresenceProofs ----------------------------
(***************************************************************************)
(* Theorems about Presence, for any number of windows, nicknames and       *)
(* addresses and any capacity of the queues.                               *)
(***************************************************************************)
EXTENDS Presence, FiniteSetTheorems, SequenceTheorems, TLAPS

(* What the removal from a list without duplicates leaves.                 *)
LEMMA RemoveFirstProperties ==
  ASSUME NEW S, NEW s \in Seq(S), NEW k \in 1..Len(s),
         \A i, j \in 1..Len(s) : s[i] = s[j] => i = j
  PROVE  /\ RemoveFirst(s, s[k]) \in Seq(S)
         /\ Len(RemoveFirst(s, s[k])) = Len(s) - 1
         /\ \A i \in 1..(Len(s) - 1) :
              RemoveFirst(s, s[k])[i] = IF i < k THEN s[i] ELSE s[i + 1]
<1> DEFINE I == {i \in 1..Len(s) : s[i] = s[k]}
<1>1. I = {k}
  OBVIOUS
<1>2. Min(I) = k
  <2>1. \A x \in {k} : (\A y \in {k} : x =< y) <=> x = k
    OBVIOUS
  <2>2. QED
    BY <1>1, <2>1 DEF Min
<1>3. SelectInSeq(s, LAMBDA v : v = s[k]) = k
  BY <1>1, <1>2 DEF SelectInSeq
<1>4. RemoveFirst(s, s[k]) = SubSeq(s, 1, k - 1) \o SubSeq(s, k + 1, Len(s))
  BY <1>3 DEF RemoveFirst, RemoveAt
<1> DEFINE l == SubSeq(s, 1, k - 1)
           r == SubSeq(s, k + 1, Len(s))
<1>5. /\ l \in Seq(S) /\ Len(l) = k - 1
      /\ \A i \in 1..(k - 1) : l[i] = s[i]
  BY SubSeqProperties
<1>6. /\ r \in Seq(S) /\ Len(r) = Len(s) - k
      /\ \A i \in 1..(Len(s) - k) : r[i] = s[k + i]
  BY SubSeqProperties
<1> HIDE DEF l, r
<1>7. /\ l \o r \in Seq(S) /\ Len(l \o r) = Len(s) - 1
      /\ \A i \in 1..(Len(s) - 1) :
           (l \o r)[i] = IF i < k THEN l[i] ELSE r[i - (k - 1)]
  <2>1. Len(l) + Len(r) = Len(s) - 1 /\ Len(s) \in Nat /\ k \in Int
    BY <1>5, <1>6
  <2>2. QED
    BY <1>5, <1>6, <2>1, ConcatProperties
<1>8. \A i \in 1..(Len(s) - 1) : (l \o r)[i] = IF i < k THEN s[i] ELSE s[i + 1]
  <2> TAKE i \in 1..(Len(s) - 1)
  <2>1. i < k => i \in 1..(k - 1)
    OBVIOUS
  <2>2. ~(i < k) => /\ i - (k - 1) \in 1..(Len(s) - k)
                    /\ k + (i - (k - 1)) = i + 1
    OBVIOUS
  <2>3. QED
    BY <1>5, <1>6, <1>7, <2>1, <2>2
<1>9. QED
  BY <1>4, <1>7, <1>8 DEF l, r

-------------------------------------------------------------------------------
(* While a window tells the older ones to go it holds ch.mu, and its own   *)
(* nickname keeps the windows, of its own address, that it found there.    *)
KickHoldsMutex ==
  \A c \in Conn : pc[c] = "kick" =>
    /\ mu = c
    /\ UidOf(c) \in keys
    /\ SameAddr(c)

IInv == TypeOK /\ MapMatchesThreads /\ OneAddressPerNick /\ KickHoldsMutex

LEMMA InitIInv == Init => IInv
<1> SUFFICES ASSUME Init PROVE IInv
  OBVIOUS
<1>1. TypeOK
  <2>1. <<>> \in Seq(Conn) /\ <<>> \in Seq(Note)
    OBVIOUS
  <2>2. /\ onlines \in [Uid -> Seq(Conn)] /\ recv \in [Conn -> Seq(Note)]
        /\ balance \in [Uid -> Int] /\ firing \in [Conn -> Nat]
        /\ fires \in [Conn -> Nat] /\ rivals \in [Conn -> SUBSET Conn]
    BY <2>1 DEF Init
  <2>3. QED
    BY <2>2 DEF Init, TypeOK, PC, Note, Control, Thread
<1>2. MapMatchesThreads
  BY DEF Init, MapMatchesThreads, Registered
<1>3. OneAddressPerNick /\ KickHoldsMutex
  BY DEF Init, OneAddressPerNick, KickHoldsMutex
<1>4. QED
  BY <1>1, <1>2, <1>3 DEF IInv

LEMMA ListedOnce ==
  ASSUME IInv, NEW c \in Conn, pc[c] \in Registered
  PROVE  /\ UidOf(c) \in Uid
         /\ onlines[UidOf(c)] \in Seq(Conn)
         /\ \E k \in 1..Len(onlines[UidOf(c)]) : onlines[UidOf(c)][k] = c
         /\ \A i, j \in 1..Len(onlines[UidOf(c)]) :
              onlines[UidOf(c)][i] = onlines[UidOf(c)][j] => i = j
<1>1. UidOf(c) \in Uid
  BY DEF IInv, TypeOK, UidOf
<1>2. QED
  BY <1>1 DEF IInv, TypeOK, MapMatchesThreads

LEMMA TypeStep == IInv /\ [Next]_vars => TypeOK'
<1> SUFFICES ASSUME IInv, [Next]_vars PROVE TypeOK'
  OBVIOUS
<1> USE PresenceAssumption DEF TypeOK, PC, Note, Control, Thread, Goto, Put,
        lockVars, mapVars, vars
<1>0. TypeOK
  BY DEF IInv
<1>1. ASSUME NEW c \in Conn, Joining(c) PROVE TypeOK'
  <2>1. UidOf(c) \in Uid
    BY <1>0 DEF UidOf
  <2>2. ASSUME Register(c)
        PROVE  /\ keys' \in SUBSET Uid /\ onlines' \in [Uid -> Seq(Conn)]
               /\ recv' \in [Conn -> Seq(Note)] /\ armed' \in SUBSET Conn
    <3>1. <<>> \in Seq(Note) /\ <<"img">> \in Seq(Note)
      OBVIOUS
    <3>2. recv' \in [Conn -> Seq(Note)]
      BY <1>0, <2>2, <3>1 DEF Register
    <3>3. onlines' \in [Uid -> Seq(Conn)]
      BY <1>0, <2>1, <2>2 DEF Register
    <3>4. QED
      BY <1>0, <2>1, <2>2, <3>2, <3>3 DEF Register
  <2>3. CASE JoinFirst(c)
    BY <1>0, <2>2, <2>3 DEF JoinFirst
  <2>4. CASE JoinRefused(c)
    BY <1>0, <2>4 DEF JoinRefused
  <2>5. CASE JoinSwitch(c)
    <3>1. ToSet(onlines[UidOf(c)]) \in SUBSET Conn
      BY <1>0, <2>1 DEF ToSet
    <3>2. rivals' \in [Conn -> SUBSET Conn]
      <4>1. rivals' = [w \in Conn |-> IF w \in ToSet(onlines[UidOf(c)])
                                     THEN rivals[w] \cup {c} ELSE rivals[w]]
        BY <2>5 DEF JoinSwitch
      <4>2. \A w \in Conn : rivals[w] \cup {c} \in SUBSET Conn
        BY <1>0
      <4>3. QED
        BY <1>0, <4>1, <4>2
    <3>3. QED
      BY <1>0, <2>5, <3>1, <3>2 DEF JoinSwitch
  <2>6. CASE Admit(c)
    BY <1>0, <2>2, <2>6 DEF Admit
  <2>7. CASE Announce(c)
    BY <1>0, <2>1, <2>7 DEF Announce
  <2>8. ASSUME NEW w \in Conn, Kick(c, w) PROVE TypeOK'
    BY <1>0, <2>8 DEF Kick
  <2>9. QED
    BY <1>1, <2>3, <2>4, <2>5, <2>6, <2>7, <2>8 DEF Joining
<1>2. ASSUME NEW c \in Conn, Streaming(c) PROVE TypeOK'
  <2>1. UidOf(c) \in Uid
    BY <1>0 DEF UidOf
  <2>2. CASE Hijack(c)
    BY <1>0, <2>2 DEF Hijack
  <2>3. CASE Receive(c)
    <3>1. Head(recv[c]) \in Note /\ Tail(recv[c]) \in Seq(Note)
      BY <1>0, <2>3, HeadTailProperties DEF Receive
    <3>2. recv' \in [Conn -> Seq(Note)] /\ note' \in [Conn -> Note]
      BY <1>0, <2>3, <3>1 DEF Receive
    <3>3. QED
      BY <1>0, <2>3, <3>2 DEF Receive
  <2>4. CASE Write(c)
    BY <1>0, <2>4 DEF Write
  <2>5. CASE Leave(c)
    <3> DEFINE s == onlines[UidOf(c)]
    <3>1. PICK k \in 1..Len(s) : s[k] = c
      BY <2>5, ListedOnce DEF Leave, Registered
    <3>2. RemoveFirst(s, c) \in Seq(Conn)
      <4>1. /\ s \in Seq(Conn)
            /\ \A i, j \in 1..Len(s) : s[i] = s[j] => i = j
        BY <2>5, ListedOnce DEF Leave, Registered
      <4> HIDE DEF s
      <4>2. RemoveFirst(s, s[k]) \in Seq(Conn)
        BY <3>1, <4>1, RemoveFirstProperties
      <4>3. QED
        BY <3>1, <4>2
    <3>3. onlines' = [onlines EXCEPT ![UidOf(c)] = RemoveFirst(s, c)]
      BY <2>5 DEF Leave, Remaining
    <3>4. onlines' \in [Uid -> Seq(Conn)]
      BY <1>0, <2>1, <3>2, <3>3
    <3>5. QED
      <4>1. keys' \in SUBSET Uid
        BY <1>0, <2>5 DEF Leave, KeysAfter
      <4>2. recv' \in [Conn -> Seq(Note)]
        BY <1>0, <2>5 DEF Leave
      <4>3. firing' \in [Conn -> Nat] /\ armed' \in SUBSET Conn
        BY <1>0, <2>5 DEF Leave
      <4>4. note' \in [Conn -> Note] /\ pc' \in [Conn -> PC]
        BY <1>0, <2>5 DEF Leave
      <4>5. rivals' \in [Conn -> SUBSET Conn]
        BY <1>0, <2>5 DEF Leave
      <4>6. QED
        BY <1>0, <2>5, <3>4, <4>1, <4>2, <4>3, <4>4, <4>5 DEF Leave
  <2>6. CASE Farewell(c)
    BY <1>0, <2>1, <2>6 DEF Farewell
  <2>7. QED
    BY <1>2, <2>2, <2>3, <2>4, <2>5, <2>6 DEF Streaming
<1>3. ASSUME NEW c \in Conn, RefreshThrottled(c) PROVE TypeOK'
  BY <1>0, <1>3 DEF RefreshThrottled, AfterRefresh
<1>4. ASSUME NEW c \in Conn, Fire(c) \/ SendTimeout(c) PROVE TypeOK'
  <2>1. CASE Fire(c)
    <3>1. fires' \in [Conn -> Nat]
      BY <1>0, <2>1, SMTT(30) DEF Fire
    <3>2. firing' \in [Conn -> Nat]
      BY <1>0, <2>1, SMTT(30) DEF Fire
    <3>3. QED
      BY <1>0, <2>1, <3>1, <3>2 DEF Fire
  <2>2. CASE SendTimeout(c)
    <3>1. firing[c] \in Nat /\ firing[c] > 0
      BY <1>0, <2>2 DEF SendTimeout, Due
    <3>2. firing' \in [Conn -> Nat]
      <4>1. firing' = [firing EXCEPT ![c] = @ - 1] /\ firing[c] - 1 \in Nat
        BY <2>2, <3>1 DEF SendTimeout
      <4>2. QED
        BY <1>0, <4>1
    <3>3. QED
      BY <1>0, <2>2, <3>2 DEF SendTimeout
  <2>3. QED
    BY <1>4, <2>1, <2>2
<1>5. ASSUME NEW t \in Thread, RefreshLock(t) PROVE TypeOK'
  BY <1>0, <1>5 DEF RefreshLock, Listed
<1>6. CASE Broadcast
  <2>1. ASSUME NEW w \in Conn, Visit(w) PROVE TypeOK'
    BY <1>0, <2>1 DEF Visit
  <2>2. CASE DropPicture
    BY <1>0, <2>2, HeadTailProperties DEF DropPicture, Keeps
  <2>3. CASE TakeControl
    BY <1>0, <2>3, HeadTailProperties DEF TakeControl, Keeps
  <2>4. CASE PutBack
    BY <1>0, <2>4 DEF PutBack
  <2>5. CASE SeeEmpty
    BY <1>0, <2>5 DEF SeeEmpty
  <2>6. CASE Offer
    <3>1. recv' = [recv EXCEPT ![at] = Append(@, "img")] \/ recv' = recv
      BY <2>6 DEF Offer
    <3>2. at \in Conn /\ "img" \in Note
      BY <1>0, <2>6 DEF Offer
    <3>3. Append(recv[at], "img") \in Seq(Note)
      BY <1>0, <3>2, AppendProperties
    <3>4. recv' \in [Conn -> Seq(Note)]
      BY <1>0, <3>1, <3>2, <3>3
    <3>5. QED
      BY <1>0, <2>6, <3>4 DEF Offer
  <2>7. CASE RefreshUnlock
    BY <1>0, <2>7 DEF RefreshUnlock, AfterRefresh
  <2>8. QED
    BY <1>6, <2>1, <2>2, <2>3, <2>4, <2>5, <2>6, <2>7 DEF Broadcast
<1>7. ASSUME NEW u \in Uid, Ping(u) PROVE TypeOK'
  <2>1. onlines[u] \in Seq(Conn) /\ onlines[u] # <<>>
    BY <1>0, <1>7 DEF Ping, IInv, MapMatchesThreads
  <2>2. Last(onlines[u]) \in Conn
    BY <2>1 DEF Last
  <2>3. QED
    BY <1>0, <1>7, <2>2 DEF Ping
<1>8. CASE UNCHANGED vars
  BY <1>0, <1>8
<1>9. QED
  BY <1>1, <1>2, <1>3, <1>4, <1>5, <1>6, <1>7, <1>8 DEF Next

-------------------------------------------------------------------------------
(* Three operations change the map of the channel.  All others leave it    *)
(* alone, and with it which goroutines are registered.                     *)
MapStays ==
  /\ UNCHANGED <<who, keys, onlines>>
  /\ \A c \in Conn : pc'[c] \in Registered <=> pc[c] \in Registered

LEMMA MapChanges ==
  IInv /\ [Next]_vars =>
    MapStays \/ \E c \in Conn : JoinFirst(c) \/ Admit(c) \/ Leave(c)
<1> SUFFICES ASSUME IInv, [Next]_vars,
                    ~ \E c \in Conn : JoinFirst(c) \/ Admit(c) \/ Leave(c)
             PROVE  MapStays
  OBVIOUS
<1>0. TypeOK
  BY DEF IInv
<1> USE <1>0, PresenceAssumption
    DEF MapStays, TypeOK, Registered, Goto, mapVars, vars
<1>1. ASSUME NEW c \in Conn, Joining(c) PROVE MapStays
  <2>1. JoinRefused(c) \/ JoinSwitch(c) \/ Announce(c)
        \/ \E w \in Conn : Kick(c, w)
    BY <1>1 DEF Joining
  <2>2. QED
    BY <2>1 DEF JoinRefused, JoinSwitch, Announce, Kick
<1>2. ASSUME NEW c \in Conn, Streaming(c) PROVE MapStays
  <2>1. Hijack(c) \/ Receive(c) \/ Write(c) \/ Farewell(c)
    BY <1>2 DEF Streaming
  <2>2. QED
    BY <2>1, SMTT(30) DEF Hijack, Receive, Write, Farewell
<1>3. ASSUME NEW c \in Conn, RefreshThrottled(c) PROVE MapStays
  BY <1>3 DEF RefreshThrottled, Refreshing, AfterRefresh
<1>4. ASSUME NEW c \in Conn, Fire(c) \/ SendTimeout(c) PROVE MapStays
  BY <1>4 DEF Fire, SendTimeout
<1>5. ASSUME NEW t \in Thread, RefreshLock(t) PROVE MapStays
  BY <1>5 DEF RefreshLock
<1>6. CASE Broadcast
  <2>1. CASE RefreshUnlock
    BY <2>1 DEF RefreshUnlock, Broadcasting, Refreshing, AfterRefresh, Thread
  <2>2. CASE \/ \E w \in Conn : Visit(w)
             \/ DropPicture \/ TakeControl \/ PutBack \/ SeeEmpty \/ Offer
    BY <2>2 DEF Visit, DropPicture, TakeControl, PutBack, SeeEmpty, Offer
  <2>3. QED
    BY <1>6, <2>1, <2>2 DEF Broadcast
<1>7. ASSUME NEW u \in Uid, Ping(u) PROVE MapStays
  BY <1>7 DEF Ping
<1>8. CASE UNCHANGED vars
  BY <1>8
<1>9. QED
  BY <1>1, <1>2, <1>3, <1>4, <1>5, <1>6, <1>7, <1>8 DEF Next

(* Nobody disturbs a window that kicks: it holds ch.mu.                    *)
LEMMA KickingIsExclusive ==
  ASSUME IInv, [Next]_vars, NEW c \in Conn, pc'[c] = "kick"
  PROVE  \/ JoinSwitch(c)
         \/ pc[c] = "kick" /\ mu' = mu /\ UNCHANGED <<who, keys, onlines>>
<1>0. TypeOK
  BY DEF IInv
<1>a. pc[c] = "kick" => mu = c /\ c # Nobody /\ ~MuFree
  BY PresenceAssumption DEF IInv, KickHoldsMutex, MuFree
<1> DEFINE Stays == /\ pc[c] = "kick" /\ mu' = mu
                    /\ UNCHANGED <<who, keys, onlines>>
<1> USE <1>0, <1>a, PresenceAssumption
    DEF TypeOK, Goto, mapVars, lockVars, vars
<1>1. ASSUME NEW d \in Conn, Joining(d) PROVE JoinSwitch(c) \/ Stays
  <2>1. CASE JoinFirst(d) \/ JoinRefused(d) \/ Announce(d)
    BY <2>1 DEF JoinFirst, JoinRefused, Announce
  <2>2. CASE JoinSwitch(d)
    BY <2>2 DEF JoinSwitch
  <2>3. CASE Admit(d)
    <3>1. mu = d
      BY <2>3 DEF Admit, IInv, KickHoldsMutex
    <3>2. QED
      BY <2>3, <3>1 DEF Admit
  <2>4. ASSUME NEW w \in Conn, Kick(d, w) PROVE Stays
    BY <2>4 DEF Kick
  <2>5. QED
    BY <1>1, <2>1, <2>2, <2>3, <2>4 DEF Joining
<1>2. ASSUME NEW d \in Conn, Streaming(d) PROVE Stays
  BY <1>2 DEF Streaming, Hijack, Receive, Write, Leave, Farewell
<1>3. ASSUME NEW d \in Conn, RefreshThrottled(d) PROVE Stays
  BY <1>3 DEF RefreshThrottled, AfterRefresh
<1>4. ASSUME NEW d \in Conn, Fire(d) \/ SendTimeout(d) PROVE Stays
  BY <1>4 DEF Fire, SendTimeout
<1>5. ASSUME NEW t \in Thread, RefreshLock(t) PROVE Stays
  BY <1>5 DEF RefreshLock
<1>6. CASE Broadcast
  <2>1. CASE RefreshUnlock
    <3>1. pc[c] # "kick"
      BY <2>1 DEF RefreshUnlock, Broadcasting, Refreshing
    <3>2. QED
      BY <2>1, <3>1 DEF RefreshUnlock, AfterRefresh
  <2>2. CASE \/ \E w \in Conn : Visit(w)
             \/ DropPicture \/ TakeControl \/ PutBack \/ SeeEmpty \/ Offer
    BY <2>2 DEF Visit, DropPicture, TakeControl, PutBack, SeeEmpty, Offer
  <2>3. QED
    BY <1>6, <2>1, <2>2 DEF Broadcast
<1>7. ASSUME NEW u \in Uid, Ping(u) PROVE Stays
  BY <1>7 DEF Ping
<1>8. CASE UNCHANGED vars
  BY <1>8
<1>9. QED
  BY <1>1, <1>2, <1>3, <1>4, <1>5, <1>6, <1>7, <1>8 DEF Next

(* What a registration and a removal do to the lists.                      *)
LEMMA RegisterEffect ==
  ASSUME TypeOK, NEW c \in Conn, Register(c)
  PROVE  LET u == UidOf(c)
         IN  /\ u \in Uid
             /\ Len(onlines[u]) \in Nat
             /\ Len(onlines'[u]) = Len(onlines[u]) + 1
             /\ onlines'[u][Len(onlines[u]) + 1] = c
             /\ \A i \in 1..Len(onlines[u]) : onlines'[u][i] = onlines[u][i]
             /\ \A v \in Uid \ {u} : onlines'[v] = onlines[v]
             /\ keys' = keys \cup {u}
<1> DEFINE u == UidOf(c)
<1>1. u \in Uid
  BY DEF TypeOK, UidOf
<1>2. onlines[u] \in Seq(Conn) /\ onlines'[u] = Append(onlines[u], c)
  BY <1>1 DEF TypeOK, Register
<1>3. \A v \in Uid \ {u} : onlines'[v] = onlines[v]
  BY <1>1 DEF TypeOK, Register
<1>4. QED
  BY <1>1, <1>2, <1>3, AppendProperties DEF Register

LEMMA LeaveEffect ==
  ASSUME IInv, NEW c \in Conn, Leave(c)
  PROVE  LET u == UidOf(c)
         IN  /\ u \in Uid
             /\ \A v \in Uid \ {u} : onlines'[v] = onlines[v]
             /\ keys' = IF onlines'[u] = <<>> THEN keys \ {u} ELSE keys
             /\ onlines'[u] \in Seq(Conn)
             /\ \E k \in 1..Len(onlines[u]) :
                  /\ onlines[u][k] = c
                  /\ Len(onlines[u]) \in Nat
                  /\ Len(onlines'[u]) = Len(onlines[u]) - 1
                  /\ \A i \in 1..(Len(onlines[u]) - 1) :
                       onlines'[u][i] = IF i < k THEN onlines[u][i]
                                                 ELSE onlines[u][i + 1]
<1> DEFINE u == UidOf(c)
           s == onlines[u]
<1>0. TypeOK /\ pc[c] \in Registered
  BY DEF IInv, Leave, Registered
<1>1. PICK k \in 1..Len(s) : s[k] = c
  BY <1>0, ListedOnce
<1>2. u \in Uid /\ s \in Seq(Conn)
      /\ \A i, j \in 1..Len(s) : s[i] = s[j] => i = j
  BY <1>0, ListedOnce
<1>3. onlines' = [onlines EXCEPT ![u] = RemoveFirst(s, c)]
  BY DEF Leave, Remaining
<1>4. onlines'[u] = RemoveFirst(s, c)
      /\ \A v \in Uid \ {u} : onlines'[v] = onlines[v]
  BY <1>0, <1>2, <1>3 DEF TypeOK
<1>5. /\ RemoveFirst(s, c) \in Seq(Conn)
      /\ Len(RemoveFirst(s, c)) = Len(s) - 1
      /\ \A i \in 1..(Len(s) - 1) :
           RemoveFirst(s, c)[i] = IF i < k THEN s[i] ELSE s[i + 1]
  <2> HIDE DEF s
  <2>1. /\ RemoveFirst(s, s[k]) \in Seq(Conn)
        /\ Len(RemoveFirst(s, s[k])) = Len(s) - 1
        /\ \A i \in 1..(Len(s) - 1) :
             RemoveFirst(s, s[k])[i] = IF i < k THEN s[i] ELSE s[i + 1]
    BY <1>1, <1>2, RemoveFirstProperties
  <2>2. QED
    BY <1>1, <2>1
<1>6. keys' = IF onlines'[u] = <<>> THEN keys \ {u} ELSE keys
  BY <1>4 DEF Leave, KeysAfter, Remaining
<1>7. Len(s) \in Nat
  BY <1>2
<1>8. QED
  BY <1>1, <1>2, <1>4, <1>5, <1>6, <1>7

-------------------------------------------------------------------------------
LEMMA MapStep == IInv /\ [Next]_vars => MapMatchesThreads'
<1> SUFFICES ASSUME IInv, [Next]_vars PROVE MapMatchesThreads'
  OBVIOUS
<1>0. TypeOK /\ MapMatchesThreads
  BY DEF IInv
<1>1. CASE MapStays
  BY <1>0, <1>1 DEF MapStays, MapMatchesThreads, UidOf
<1>2. ASSUME NEW c \in Conn, Register(c), who' = who,
             pc[c] \notin Registered, pc'[c] \in Registered,
             \A d \in Conn \ {c} : pc'[d] = pc[d]
      PROVE  MapMatchesThreads'
  <2> DEFINE u == UidOf(c)
             n == Len(onlines[u])
  <2>1. /\ u \in Uid /\ n \in Nat
        /\ Len(onlines'[u]) = n + 1 /\ onlines'[u][n + 1] = c
        /\ \A i \in 1..n : onlines'[u][i] = onlines[u][i]
        /\ \A v \in Uid \ {u} : onlines'[v] = onlines[v]
        /\ keys' = keys \cup {u}
    BY <1>0, <1>2, RegisterEffect
  <2>2. \A v \in Uid : \A i \in 1..Len(onlines[v]) : onlines[v][i] # c
    BY <1>0, <1>2 DEF MapMatchesThreads
  <2>3. ASSUME NEW v \in Uid, NEW d \in Conn
        PROVE  (\E i \in 1..Len(onlines'[v]) : onlines'[v][i] = d)
                 <=> (UidOf(d) = v /\ pc'[d] \in Registered)
    <3>1. CASE v # u
      BY <1>0, <1>2, <2>1, <2>2, <3>1, SMTT(30) DEF MapMatchesThreads, UidOf
    <3>2. CASE v = u /\ d = c
      BY <1>2, <2>1, <3>2
    <3>3. CASE v = u /\ d # c
      <4>1. (\E i \in 1..(n + 1) : onlines'[u][i] = d)
              <=> (\E i \in 1..n : onlines[u][i] = d)
        BY <2>1, <3>3
      <4>2. QED
        BY <1>0, <1>2, <2>1, <3>3, <4>1 DEF MapMatchesThreads
    <3>4. QED
      BY <3>1, <3>2, <3>3
  <2>4. ASSUME NEW v \in Uid,
               NEW i \in 1..Len(onlines'[v]), NEW j \in 1..Len(onlines'[v]),
               onlines'[v][i] = onlines'[v][j]
        PROVE  i = j
    <3>1. CASE v # u
      BY <1>0, <2>1, <2>4, <3>1 DEF MapMatchesThreads
    <3>2. CASE v = u
      <4>1. \A k \in 1..(n + 1) : k \in 1..n \/ k = n + 1
        BY <2>1
      <4>2. i \in 1..(n + 1) /\ j \in 1..(n + 1)
        BY <2>1, <2>4, <3>2
      <4>3. QED
        <5>1. \A k, m \in 1..n : onlines[u][k] = onlines[u][m] => k = m
          BY <1>0, <2>1 DEF MapMatchesThreads
        <5>2. \A k \in 1..n : onlines'[u][k] # c
          BY <2>1, <2>2
        <5>3. CASE i \in 1..n /\ j \in 1..n
          BY <2>1, <2>4, <3>2, <5>1, <5>3
        <5>4. CASE i = n + 1
          BY <2>1, <2>4, <3>2, <4>1, <4>2, <5>2, <5>4
        <5>5. CASE j = n + 1
          BY <2>1, <2>4, <3>2, <4>1, <4>2, <5>2, <5>5
        <5>6. QED
          BY <4>1, <4>2, <5>3, <5>4, <5>5
    <3>3. QED
      BY <3>1, <3>2
  <2>5. keys' = {v \in Uid : onlines'[v] # <<>>}
    <3>1. onlines'[u] # <<>>
      BY <2>1
    <3>2. QED
      BY <1>0, <2>1, <3>1 DEF MapMatchesThreads
  <2>6. QED
    BY <1>2, <2>3, <2>4, <2>5 DEF MapMatchesThreads, UidOf
<1>3. ASSUME NEW c \in Conn, JoinFirst(c) \/ Admit(c) PROVE MapMatchesThreads'
  <2>1. /\ Register(c) /\ who' = who
        /\ pc[c] \notin Registered /\ pc'[c] \in Registered
        /\ \A d \in Conn \ {c} : pc'[d] = pc[d]
    BY <1>0, <1>3 DEF JoinFirst, Admit, Goto, Registered, TypeOK
  <2>2. QED
    BY <1>2, <2>1
<1>4. ASSUME NEW c \in Conn, Leave(c) PROVE MapMatchesThreads'
  <2> DEFINE u == UidOf(c)
             n == Len(onlines[u])
  <2>1. PICK k \in 1..n :
          /\ onlines[u][k] = c
          /\ n \in Nat
          /\ Len(onlines'[u]) = n - 1
          /\ \A i \in 1..(n - 1) :
               onlines'[u][i] = IF i < k THEN onlines[u][i]
                                         ELSE onlines[u][i + 1]
    BY <1>4, LeaveEffect
  <2>2. /\ u \in Uid
        /\ \A v \in Uid \ {u} : onlines'[v] = onlines[v]
        /\ keys' = IF onlines'[u] = <<>> THEN keys \ {u} ELSE keys
    BY <1>4, LeaveEffect
  <2>3. /\ who' = who /\ pc[c] \in Registered /\ pc'[c] \notin Registered
        /\ \A d \in Conn \ {c} : pc'[d] = pc[d]
    BY <1>0, <1>4 DEF Leave, Goto, Registered, TypeOK
  <2>4. \A i, j \in 1..n : onlines[u][i] = onlines[u][j] => i = j
    BY <1>0, <2>2 DEF MapMatchesThreads
  <2>5. ASSUME NEW v \in Uid, NEW d \in Conn
        PROVE  (\E i \in 1..Len(onlines'[v]) : onlines'[v][i] = d)
                 <=> (UidOf(d) = v /\ pc'[d] \in Registered)
    <3>1. CASE v # u
      BY <1>0, <2>2, <2>3, <3>1 DEF MapMatchesThreads, UidOf
    <3>2. CASE v = u /\ d = c
      <4>1. \A i \in 1..(n - 1) : onlines'[u][i] # c
        BY <2>1, <2>4
      <4>2. QED
        BY <2>1, <2>3, <3>2, <4>1
    <3>3. CASE v = u /\ d # c
      <4>1. ASSUME NEW i \in 1..n, onlines[u][i] = d
            PROVE  \E j \in 1..(n - 1) : onlines'[u][j] = d
        <5>1. CASE i < k
          BY <2>1, <4>1, <5>1
        <5>2. CASE i > k
          <6>1. i - 1 \in 1..(n - 1) /\ ~(i - 1 < k)
            BY <2>1, <5>2
          <6>2. onlines'[u][i - 1] = onlines[u][(i - 1) + 1]
            BY <2>1, <6>1
          <6>3. (i - 1) + 1 = i
            BY <2>1
          <6>4. QED
            BY <4>1, <6>1, <6>2, <6>3
        <5>3. QED
          BY <2>1, <3>3, <4>1, <5>1, <5>2
      <4>2. ASSUME NEW j \in 1..(n - 1), onlines'[u][j] = d
            PROVE  \E i \in 1..n : onlines[u][i] = d
        BY <2>1, <4>2
      <4>3. QED
        BY <1>0, <2>1, <2>2, <2>3, <3>3, <4>1, <4>2, SMTT(30) DEF MapMatchesThreads
    <3>4. QED
      BY <3>1, <3>2, <3>3
  <2>6. ASSUME NEW v \in Uid,
               NEW i \in 1..Len(onlines'[v]), NEW j \in 1..Len(onlines'[v]),
               onlines'[v][i] = onlines'[v][j]
        PROVE  i = j
    <3>1. CASE v # u
      BY <1>0, <2>2, <2>6, <3>1 DEF MapMatchesThreads
    <3>2. CASE v = u
      BY <2>1, <2>4, <2>6, <3>2, SMTT(30)
    <3>3. QED
      BY <3>1, <3>2
  <2>7. keys' = {v \in Uid : onlines'[v] # <<>>}
    <3>1. u \in keys
      BY <1>0, <2>1, <2>2 DEF MapMatchesThreads
    <3>2. QED
      BY <1>0, <2>2, <3>1 DEF MapMatchesThreads
  <2>8. QED
    BY <2>3, <2>5, <2>6, <2>7 DEF MapMatchesThreads, UidOf
<1>5. QED
  BY <1>1, <1>3, <1>4, MapChanges

-------------------------------------------------------------------------------
LEMMA KickStep == IInv /\ [Next]_vars => KickHoldsMutex'
<1> SUFFICES ASSUME IInv, [Next]_vars, NEW c \in Conn, pc'[c] = "kick"
             PROVE  mu' = c /\ UidOf(c)' \in keys' /\ SameAddr(c)'
  BY DEF KickHoldsMutex
<1>1. CASE JoinSwitch(c)
  BY <1>1 DEF JoinSwitch, mapVars, UidOf, SameAddr
<1>2. CASE pc[c] = "kick" /\ mu' = mu /\ UNCHANGED <<who, keys, onlines>>
  BY <1>2 DEF IInv, KickHoldsMutex, UidOf, SameAddr
<1>3. QED
  BY <1>1, <1>2, KickingIsExclusive

(* The newest window of a nickname speaks for all of them.                 *)
LEMMA NewestHasTheAddress ==
  ASSUME IInv, NEW u \in Uid, NEW i \in 1..Len(onlines[u])
  PROVE  /\ onlines[u] # <<>> /\ Last(onlines[u]) \in Conn
         /\ who[onlines[u][i]].ip = who[Last(onlines[u])].ip
<1>1. onlines[u] \in Seq(Conn)
  BY DEF IInv, TypeOK
<1>2. Len(onlines[u]) \in 1..Len(onlines[u])
  BY <1>1
<1>3. QED
  BY <1>1, <1>2 DEF IInv, OneAddressPerNick, Last

LEMMA AddressStep == IInv /\ [Next]_vars => OneAddressPerNick'
<1> SUFFICES ASSUME IInv, [Next]_vars PROVE OneAddressPerNick'
  OBVIOUS
<1>0. TypeOK /\ OneAddressPerNick
  BY DEF IInv
<1>1. CASE MapStays
  BY <1>0, <1>1 DEF MapStays, OneAddressPerNick
<1>2. ASSUME NEW c \in Conn, JoinFirst(c) \/ Admit(c)
      PROVE  OneAddressPerNick'
  <2> DEFINE u == UidOf(c)
             n == Len(onlines[u])
  <2>1. Register(c) /\ who' = who
    BY <1>2 DEF JoinFirst, Admit
  <2>2. /\ u \in Uid /\ n \in Nat
        /\ Len(onlines'[u]) = n + 1 /\ onlines'[u][n + 1] = c
        /\ \A i \in 1..n : onlines'[u][i] = onlines[u][i]
        /\ \A v \in Uid \ {u} : onlines'[v] = onlines[v]
    BY <1>0, <2>1, RegisterEffect
  <2>3. \A i \in 1..n : who[onlines[u][i]].ip = who[c].ip
    <3>1. CASE JoinFirst(c)
      <4>1. onlines[u] = <<>>
        BY <2>2, <3>1 DEF JoinFirst, IInv, MapMatchesThreads
      <4>2. QED
        BY <4>1
    <3>2. CASE Admit(c)
      <4>1. SameAddr(c)
        BY <3>2 DEF Admit, IInv, KickHoldsMutex
      <4>2. QED
        BY <2>2, <4>1, NewestHasTheAddress DEF SameAddr
    <3>3. QED
      BY <1>2, <3>1, <3>2
  <2>4. ASSUME NEW i \in 1..Len(onlines'[u])
        PROVE  who[onlines'[u][i]].ip = who[c].ip
    <3>1. i \in 1..n \/ i = n + 1
      BY <2>2, <2>4
    <3>2. QED
      BY <2>2, <2>3, <3>1
  <2>5. QED
    <3> HIDE DEF u
    <3>1. \A v \in Uid : \A i, j \in 1..Len(onlines'[v]) :
            who[onlines'[v][i]].ip = who[onlines'[v][j]].ip
      <4> TAKE v \in Uid
      <4>1. CASE v # u
        BY <1>0, <2>2, <4>1 DEF OneAddressPerNick
      <4>2. CASE v = u
        BY <2>4, <4>2
      <4>3. QED
        BY <4>1, <4>2
    <3>2. QED
      BY <2>1, <3>1 DEF OneAddressPerNick
<1>3. ASSUME NEW c \in Conn, Leave(c) PROVE OneAddressPerNick'
  <2> DEFINE u == UidOf(c)
             n == Len(onlines[u])
  <2>1. PICK k \in 1..n :
          /\ n \in Nat
          /\ Len(onlines'[u]) = n - 1
          /\ \A i \in 1..(n - 1) :
               onlines'[u][i] = IF i < k THEN onlines[u][i]
                                         ELSE onlines[u][i + 1]
    BY <1>3, LeaveEffect
  <2>2. /\ u \in Uid
        /\ \A v \in Uid \ {u} : onlines'[v] = onlines[v]
        /\ who' = who
    BY <1>3, LeaveEffect DEF Leave
  <2>3. \A i \in 1..(n - 1) :
          \E j \in 1..n : onlines'[u][i] = onlines[u][j]
    BY <2>1, SMTT(30)
  <2>4. QED
    <3> HIDE DEF u
    <3>1. \A v \in Uid : \A i, j \in 1..Len(onlines'[v]) :
            who[onlines'[v][i]].ip = who[onlines'[v][j]].ip
      <4> TAKE v \in Uid
      <4>1. CASE v # u
        BY <1>0, <2>2, <4>1 DEF OneAddressPerNick
      <4>2. CASE v = u
        <5>1. \A i, j \in 1..n : who[onlines[u][i]].ip = who[onlines[u][j]].ip
          BY <1>0, <2>2 DEF OneAddressPerNick
        <5>2. \A i, j \in 1..(n - 1) :
                who[onlines'[u][i]].ip = who[onlines'[u][j]].ip
          <6> HIDE DEF n
          <6> TAKE i, j \in 1..(n - 1)
          <6>1. PICK p \in 1..n : onlines'[u][i] = onlines[u][p]
            BY <2>3
          <6>2. PICK m \in 1..n : onlines'[u][j] = onlines[u][m]
            BY <2>3
          <6>3. QED
            BY <5>1, <6>1, <6>2
        <5>3. QED
          BY <2>1, <4>2, <5>2
      <4>3. QED
        BY <4>1, <4>2
    <3>2. QED
      BY <2>2, <3>1 DEF OneAddressPerNick
<1>4. QED
  BY <1>1, <1>2, <1>3, MapChanges

LEMMA Invariance == Spec => []IInv
<1>1. Init => IInv
  BY InitIInv
<1>2. IInv /\ [Next]_vars => IInv'
  BY TypeStep, MapStep, AddressStep, KickStep DEF IInv
<1>3. QED
  BY <1>1, <1>2, PTL DEF Spec

(* Every variable keeps its type: no index into the map of a channel, no   *)
(* queue operation and no counter leaves its range.                        *)
THEOREM TypeCorrect == Spec => []TypeOK
BY Invariance, PTL DEF IInv

(* Join, the kick loop, the removal at the end of Join and Refresh keep    *)
(* ch.onlines and the goroutines in agreement.                             *)
THEOREM MapCorrect == Spec => []MapMatchesThreads
BY Invariance, PTL DEF IInv

(* All windows of a nickname come from one address.                        *)
THEOREM AddressCorrect == Spec => []OneAddressPerNick
BY Invariance, PTL DEF IInv

-------------------------------------------------------------------------------
(* The lease that the map implements: who holds a nickname, before and     *)
(* after a step.                                                           *)
holder == [u \in Uid |-> IF onlines[u] = <<>> THEN Nobody
                         ELSE who[Last(onlines[u])].ip]

LEMMA LeaseStep == IInv /\ [Next]_vars /\ IInv' => [Lease!Next]_holder
<1> SUFFICES ASSUME IInv, [Next]_vars, IInv' PROVE [Lease!Next]_holder
  OBVIOUS
<1>0. /\ TypeOK /\ MapMatchesThreads
      /\ TypeOK' /\ MapMatchesThreads'
  BY DEF IInv
<1> USE DEF holder
<1>1. ASSUME MapStays PROVE UNCHANGED holder
  BY <1>1 DEF MapStays
<1>2. ASSUME NEW c \in Conn, JoinFirst(c)
      PROVE  Lease!Acquire(UidOf(c), who[c].ip)
  <2> DEFINE u == UidOf(c)
  <2>1. Register(c) /\ who' = who /\ u \notin keys
    BY <1>2 DEF JoinFirst
  <2>2. /\ u \in Uid /\ Len(onlines[u]) \in Nat
        /\ Len(onlines'[u]) = Len(onlines[u]) + 1
        /\ onlines'[u][Len(onlines[u]) + 1] = c
        /\ \A v \in Uid \ {u} : onlines'[v] = onlines[v]
        /\ keys' = keys \cup {u}
    BY <1>0, <2>1, RegisterEffect
  <2>3. Last(onlines'[u]) = c /\ onlines'[u] # <<>>
    BY <2>2 DEF Last
  <2>4. onlines[u] = <<>>
    BY <1>0, <2>1, <2>2 DEF MapMatchesThreads
  <2>5. QED
    BY <2>1, <2>2, <2>3, <2>4 DEF Lease!Acquire
<1>3. ASSUME NEW c \in Conn, Admit(c) PROVE UNCHANGED holder
  <2> DEFINE u == UidOf(c)
  <2>1. Register(c) /\ who' = who /\ u \in keys /\ SameAddr(c)
    BY <1>3 DEF Admit, IInv, KickHoldsMutex
  <2>2. /\ u \in Uid /\ Len(onlines[u]) \in Nat
        /\ Len(onlines'[u]) = Len(onlines[u]) + 1
        /\ onlines'[u][Len(onlines[u]) + 1] = c
        /\ \A v \in Uid \ {u} : onlines'[v] = onlines[v]
        /\ keys' = keys \cup {u}
    BY <1>0, <2>1, RegisterEffect
  <2>3. Last(onlines'[u]) = c /\ onlines'[u] # <<>>
    BY <2>2 DEF Last
  <2>4. onlines[u] # <<>>
    BY <1>0, <2>1, <2>2 DEF MapMatchesThreads
  <2>5. QED
    BY <2>1, <2>2, <2>3, <2>4 DEF SameAddr
<1>4. ASSUME NEW c \in Conn, Leave(c)
      PROVE  Lease!Release(UidOf(c)) \/ UNCHANGED holder
  <2> DEFINE u == UidOf(c)
             n == Len(onlines[u])
  <2>1. PICK k \in 1..n :
          /\ n \in Nat
          /\ Len(onlines'[u]) = n - 1
          /\ \A i \in 1..(n - 1) :
               onlines'[u][i] = IF i < k THEN onlines[u][i]
                                         ELSE onlines[u][i + 1]
    BY <1>4, LeaveEffect
  <2>2. /\ u \in Uid
        /\ \A v \in Uid \ {u} : onlines'[v] = onlines[v]
        /\ onlines'[u] \in Seq(Conn)
        /\ who' = who
    BY <1>4, LeaveEffect DEF Leave
  <2>3. onlines[u] # <<>> /\ Last(onlines[u]) \in Conn
    BY <2>1, <2>2, NewestHasTheAddress
  <2>4. CASE onlines'[u] = <<>>
    <3>1. who[Last(onlines[u])].ip \in Addr
      BY <1>0, <2>3 DEF TypeOK
    <3>2. QED
      BY <2>2, <2>3, <2>4, <3>1, PresenceAssumption DEF Lease!Release
  <2>5. CASE onlines'[u] # <<>>
    <3>1. n - 1 \in 1..(n - 1)
      BY <2>1, <2>2, <2>5
    <3>2. PICK j \in 1..n : Last(onlines'[u]) = onlines[u][j]
      <4>1. Last(onlines'[u]) = onlines'[u][n - 1]
        BY <2>1 DEF Last
      <4>2. onlines'[u][n - 1] = IF n - 1 < k THEN onlines[u][n - 1]
                                              ELSE onlines[u][(n - 1) + 1]
        BY <2>1, <3>1
      <4>3. n - 1 \in 1..n /\ (n - 1) + 1 \in 1..n
        BY <2>1, <3>1
      <4>4. QED
        BY <4>1, <4>2, <4>3
    <3>3. who[Last(onlines'[u])].ip = who[Last(onlines[u])].ip
      BY <2>2, <3>2, NewestHasTheAddress
    <3>4. QED
      BY <2>2, <2>3, <2>5, <3>3
  <2>6. QED
    BY <2>4, <2>5
<1>5. QED
  <2>1. ASSUME NEW c \in Conn
        PROVE  UidOf(c) \in Uid /\ who[c].ip \in Addr
    BY <1>0 DEF TypeOK, UidOf
  <2>2. ASSUME NEW c \in Conn, JoinFirst(c) \/ Admit(c) \/ Leave(c)
        PROVE  Lease!Next \/ UNCHANGED holder
    <3> HIDE DEF holder
    <3>1. CASE JoinFirst(c)
      <4>1. Lease!Acquire(UidOf(c), who[c].ip)
        BY <1>2, <3>1
      <4>2. QED
        BY <2>1, <4>1 DEF Lease!Next, Lease!Acquire, Lease!Release
    <3>2. CASE Admit(c)
      BY <1>3, <3>2
    <3>3. CASE Leave(c)
      <4>1. Lease!Release(UidOf(c)) \/ UNCHANGED holder
        BY <1>4, <3>3
      <4>2. QED
        BY <2>1, <4>1 DEF Lease!Next, Lease!Acquire, Lease!Release
    <3>4. QED
      BY <2>2, <3>1, <3>2, <3>3
  <2>3. QED
    BY <1>1, <2>2, MapChanges

(* ch.onlines hands out nicknames like leases: an address gets one that is *)
(* free, and loses it only when its last window under it is gone; windows  *)
(* that replace one another never let another address in between.          *)
THEOREM LeaseCorrect == Spec => LeaseSpec
<1>1. Init => Lease!Init
  BY DEF Init, Lease!Init
<1>2. IInv /\ [Next]_vars /\ IInv' => [Lease!Next]_holder
  BY LeaseStep
<1>3. QED
  BY <1>1, <1>2, Invariance, PTL DEF Spec, LeaseSpec, Lease!Spec, holder
-------------------------------------------------------------------------------
(* What an Append and a Tail do to the notes in a queue.                   *)
NoPicture(s) == \A i \in 1..Len(s) : s[i] # "img"
OnePicture(s) == \A i, j \in 1..Len(s) : s[i] = "img" /\ s[j] = "img" => i = j

LEMMA AppendNote ==
  ASSUME NEW s \in Seq(Note), NEW n \in Note
  PROVE  /\ n # "img" /\ NoPicture(s) => NoPicture(Append(s, n))
         /\ (n # "img" \/ NoPicture(s)) /\ OnePicture(s)
              => OnePicture(Append(s, n))
         /\ Contains(s, "kick") \/ n = "kick" => Contains(Append(s, n), "kick")
<1> DEFINE a == Append(s, n)
<1>1. /\ Len(s) \in Nat /\ Len(a) = Len(s) + 1 /\ a[Len(s) + 1] = n
      /\ \A i \in 1..Len(s) : a[i] = s[i]
  BY AppendProperties
<1> HIDE DEF a
<1>2. \A i \in 1..Len(a) : i \in 1..Len(s) \/ i = Len(s) + 1
  BY <1>1
<1>3. n # "img" /\ NoPicture(s) => NoPicture(a)
  BY <1>1, <1>2 DEF NoPicture
<1>4. (n # "img" \/ NoPicture(s)) /\ OnePicture(s) => OnePicture(a)
  BY <1>1, <1>2 DEF NoPicture, OnePicture
<1>5. Contains(s, "kick") \/ n = "kick" => Contains(a, "kick")
  <2>1. Len(s) + 1 \in 1..Len(a) /\ \A i \in 1..Len(s) : i \in 1..Len(a)
    BY <1>1
  <2>2. QED
    BY <1>1, <2>1 DEF Contains
<1>6. QED
  BY <1>3, <1>4, <1>5 DEF a

LEMMA TailNote ==
  ASSUME NEW s \in Seq(Note), s # <<>>
  PROVE  /\ NoPicture(s) => NoPicture(Tail(s))
         /\ OnePicture(s) => OnePicture(Tail(s))
         /\ Contains(s, "kick") /\ Head(s) # "kick"
              => Contains(Tail(s), "kick")
<1> DEFINE t == Tail(s)
<1>1. /\ Len(s) \in Nat /\ Len(s) > 0 /\ Len(t) = Len(s) - 1 /\ Head(s) = s[1]
      /\ \A i \in 1..Len(t) : t[i] = s[i + 1]
  BY HeadTailProperties
<1> HIDE DEF t
<1>2. \A i \in 1..Len(t) : i + 1 \in 1..Len(s)
  BY <1>1
<1>3. NoPicture(s) => NoPicture(t)
  BY <1>1, <1>2 DEF NoPicture
<1>4. OnePicture(s) => OnePicture(t)
  BY <1>1, <1>2 DEF OnePicture
<1>5. Contains(s, "kick") /\ Head(s) # "kick" => Contains(t, "kick")
  <2>1. ASSUME NEW i \in 1..Len(s), s[i] = "kick", s[1] # "kick"
        PROVE  \E j \in 1..Len(t) : t[j] = "kick"
    <3>1. i - 1 \in 1..Len(t) /\ (i - 1) + 1 = i
      BY <1>1, <2>1
    <3>2. QED
      BY <1>1, <2>1, <3>1
  <2>2. QED
    BY <1>1, <2>1 DEF Contains
<1>6. QED
  BY <1>3, <1>4, <1>5 DEF t

(* Pictures.  Refresh offers its picture only to a window whose queue it   *)
(* saw empty; until then no other picture gets there, as ch.mu is held.    *)
OfferIsAlone ==
  cast = "offer" => Broadcasting /\ at # Nobody /\ NoPicture(recv[at])

Pictures == OfferIsAlone /\ \A c \in Conn : OnePicture(recv[c])

LEMMA PicturesInit == Init => Pictures
BY DEF Init, Pictures, OfferIsAlone, OnePicture

LEMMA PicturesStep == IInv /\ Pictures /\ [Next]_vars => Pictures'
<1> SUFFICES ASSUME IInv, Pictures, [Next]_vars PROVE Pictures'
  OBVIOUS
<1>0. /\ TypeOK /\ OfferIsAlone
      /\ \A c \in Conn : OnePicture(recv[c])
      /\ \A c \in Conn : recv[c] \in Seq(Note)
  BY DEF IInv, Pictures, TypeOK
<1>a. "kick" \in Note /\ "time" \in Note /\ "img" \in Note
      /\ "kick" # "img" /\ "time" # "img" /\ "offer" \notin Control
  BY DEF Note, Control
<1>b. /\ OnePicture(<<>>) /\ OnePicture(<<"img">>) /\ NoPicture(<<>>)
  BY DEF OnePicture, NoPicture
<1> USE DEF Pictures, OfferIsAlone, Broadcasting, Refreshing
<1>1. ASSUME NEW c \in Conn, Register(c), cast' = cast, cast # "offer"
      PROVE  Pictures'
  BY <1>0, <1>1, <1>b DEF Register, TypeOK
<1>2. ASSUME NEW c \in Conn, NEW n \in Note, n # "img", Put(c, n),
             cast' = cast, at' = at, mu' = mu, pc' = pc
      PROVE  Pictures'
  <2>1. recv' = [recv EXCEPT ![c] = Append(@, n)]
    BY <1>2 DEF Put
  <2>2. OnePicture(Append(recv[c], n))
        /\ (NoPicture(recv[c]) => NoPicture(Append(recv[c], n)))
    BY <1>0, <1>2, AppendNote
  <2>3. QED
    BY <1>0, <1>2, <2>1, <2>2 DEF TypeOK
<1>3. ASSUME NEW c \in Conn, recv[c] # <<>>,
             recv' = [recv EXCEPT ![c] = Tail(@)]
      PROVE  /\ \A d \in Conn : OnePicture(recv'[d])
             /\ \A d \in Conn : NoPicture(recv[d]) => NoPicture(recv'[d])
  <2>1. OnePicture(Tail(recv[c]))
        /\ (NoPicture(recv[c]) => NoPicture(Tail(recv[c])))
    BY <1>0, <1>3, TailNote
  <2>2. QED
    BY <1>0, <1>3, <2>1 DEF TypeOK
<1>4. ASSUME NEW c \in Conn, Joining(c) PROVE Pictures'
  <2>1. CASE JoinFirst(c)
    BY <1>0, <1>1, <2>1 DEF JoinFirst, MuFree, lockVars
  <2>2. CASE JoinRefused(c) \/ JoinSwitch(c) \/ Announce(c)
    BY <1>0, <2>2 DEF JoinRefused, JoinSwitch, Announce, MuFree, lockVars,
                      Goto, TypeOK
  <2>3. CASE Admit(c)
    <3>1. mu = c
      BY <2>3 DEF Admit, IInv, KickHoldsMutex
    <3>2. cast # "offer"
      BY <1>0, <2>3, <3>1, PresenceAssumption DEF Admit
    <3>3. QED
      BY <1>1, <2>3, <3>2 DEF Admit
  <2>4. ASSUME NEW w \in Conn, Kick(c, w) PROVE Pictures'
    BY <1>2, <1>a, <2>4 DEF Kick
  <2>5. QED
    BY <1>4, <2>1, <2>2, <2>3, <2>4 DEF Joining
<1>5. ASSUME NEW c \in Conn, Streaming(c) PROVE Pictures'
  <2>1. CASE Hijack(c) \/ Write(c) \/ Farewell(c)
    BY <1>0, <2>1 DEF Hijack, Write, Farewell, lockVars, Goto, TypeOK
  <2>2. CASE Receive(c)
    <3>1. /\ \A d \in Conn : OnePicture(recv'[d])
          /\ \A d \in Conn : NoPicture(recv[d]) => NoPicture(recv'[d])
      BY <1>3, <2>2 DEF Receive
    <3>2. QED
      BY <1>0, <2>2, <3>1 DEF Receive, lockVars, Goto, TypeOK
  <2>3. CASE Leave(c)
    BY <1>0, <1>b, <2>3 DEF Leave, MuFree, lockVars, TypeOK
  <2>4. QED
    BY <1>5, <2>1, <2>2, <2>3 DEF Streaming
<1>6. ASSUME NEW c \in Conn, RefreshThrottled(c) PROVE Pictures'
  BY <1>0, <1>6 DEF RefreshThrottled, lockVars, Goto, TypeOK
<1>7. ASSUME NEW c \in Conn, Fire(c) \/ SendTimeout(c) PROVE Pictures'
  <2>1. CASE Fire(c)
    BY <1>0, <2>1 DEF Fire, lockVars
  <2>2. CASE SendTimeout(c)
    BY <1>2, <1>a, <2>2 DEF SendTimeout, lockVars
  <2>3. QED
    BY <1>7, <2>1, <2>2
<1>8. ASSUME NEW t \in Thread, RefreshLock(t) PROVE Pictures'
  BY <1>0, <1>8 DEF RefreshLock, MuFree
<1>9. CASE Broadcast
  <2>1. ASSUME NEW w \in Conn, Visit(w) PROVE Pictures'
    BY <1>0, <2>1 DEF Visit
  <2>2. CASE DropPicture \/ TakeControl
    <3>1. at \in Conn /\ recv[at] # <<>>
          /\ recv' = [recv EXCEPT ![at] = Tail(@)]
      BY <1>0, <2>2 DEF DropPicture, TakeControl, TypeOK
    <3>2. cast' # "offer"
      BY <1>a, <2>2 DEF DropPicture, TakeControl, Keeps, lockVars
    <3>3. QED
      BY <1>3, <3>1, <3>2
  <2>3. CASE PutBack
    <3>1. at \in Conn /\ cast \in Note /\ cast # "img" /\ cast' # "offer"
      BY <1>0, <1>a, <2>3 DEF PutBack, TypeOK, Note, Control
    <3>2. recv' = [recv EXCEPT ![at] = Append(@, cast)]
      BY <2>3 DEF PutBack, Put
    <3>3. OnePicture(Append(recv[at], cast))
      BY <1>0, <3>1, AppendNote
    <3>4. QED
      BY <1>0, <3>1, <3>2, <3>3 DEF TypeOK
  <2>4. CASE SeeEmpty
    BY <1>0, <1>b, <2>4 DEF SeeEmpty, Drained
  <2>5. CASE Offer
    <3>1. at \in Conn /\ cast' # "offer" /\ NoPicture(recv[at])
      BY <1>0, <2>5 DEF Offer, TypeOK
    <3>2. recv' = recv \/ recv' = [recv EXCEPT ![at] = Append(@, "img")]
      BY <2>5 DEF Offer, Put
    <3>3. OnePicture(Append(recv[at], "img"))
      BY <1>0, <1>a, <3>1, AppendNote
    <3>4. QED
      BY <1>0, <3>1, <3>2, <3>3 DEF TypeOK
  <2>6. CASE RefreshUnlock
    BY <1>0, <2>6 DEF RefreshUnlock
  <2>7. QED
    BY <1>9, <2>1, <2>2, <2>3, <2>4, <2>5, <2>6 DEF Broadcast
<1>10. ASSUME NEW u \in Uid, Ping(u) PROVE Pictures'
  BY <1>0, <1>10 DEF Ping, lockVars
<1>11. CASE UNCHANGED vars
  BY <1>0, <1>11 DEF vars
<1>12. QED
  BY <1>4, <1>5, <1>6, <1>7, <1>8, <1>9, <1>10, <1>11 DEF Next

(* However many Refreshes, registrations and time-outs meet at a window,   *)
(* its queue never holds two pictures.                                     *)
THEOREM PictureCorrect == Spec => []OnePictureQueued
<1>1. Init => Pictures
  BY PicturesInit
<1>2. IInv /\ Pictures /\ [Next]_vars => Pictures'
  BY PicturesStep
<1>3. Pictures => OnePictureQueued
  BY DEF Pictures, OnePicture, OnePictureQueued
<1>4. QED
  BY <1>1, <1>2, <1>3, Invariance, PTL DEF Spec

-------------------------------------------------------------------------------
(* Takeovers.  A window has been told to go when its kick is on the way,   *)
(* was taken, or it goes anyway.  Nobody takes another note after a kick,  *)
(* and a window that kicks has told all but those it has not come to yet.  *)
Told(c) == KickPending(c) \/ note[c] = "kick" \/ pc[c] = "leave"
KickEnds == \A c \in Conn : note[c] = "kick" => pc[c] \in {"write", "leave"}
KickTells ==
  \A c \in Conn : pc[c] = "kick" =>
    \A i \in 1..Len(onlines[UidOf(c)]) :
      onlines[UidOf(c)][i] \in todo \/ Told(onlines[UidOf(c)][i])

Takeovers == KickEnds /\ KickTells /\ SupersededAreTold

LEMMA TakeoversInit == Init => Takeovers
BY DEF Init, Takeovers, KickEnds, KickTells, SupersededAreTold

LEMMA KickEndsStep == TypeOK /\ KickEnds /\ [Next]_vars => KickEnds'
<1> SUFFICES ASSUME TypeOK, KickEnds, [Next]_vars PROVE KickEnds'
  OBVIOUS
<1> USE DEF KickEnds, TypeOK, Goto, mapVars, lockVars, vars
<1>1. ASSUME NEW c \in Conn, Joining(c) PROVE KickEnds'
  BY <1>1 DEF Joining, JoinFirst, JoinRefused, JoinSwitch, Admit, Announce,
              Kick
<1>2. ASSUME NEW c \in Conn, Streaming(c) PROVE KickEnds'
  BY <1>2 DEF Streaming, Hijack, Receive, Write, Leave, Farewell, Control
<1>3. ASSUME NEW c \in Conn, RefreshThrottled(c) PROVE KickEnds'
  BY <1>3, PresenceAssumption DEF RefreshThrottled, Refreshing
<1>4. ASSUME NEW c \in Conn, Fire(c) \/ SendTimeout(c) PROVE KickEnds'
  BY <1>4 DEF Fire, SendTimeout
<1>5. ASSUME NEW t \in Thread, RefreshLock(t) PROVE KickEnds'
  BY <1>5 DEF RefreshLock
<1>6. CASE Broadcast
  <2>1. CASE RefreshUnlock
    BY <2>1 DEF RefreshUnlock, Broadcasting, Refreshing, Thread
  <2>2. CASE \/ \E w \in Conn : Visit(w)
             \/ DropPicture \/ TakeControl \/ PutBack \/ SeeEmpty \/ Offer
    BY <2>2 DEF Visit, DropPicture, TakeControl, PutBack, SeeEmpty, Offer
  <2>3. QED
    BY <1>6, <2>1, <2>2 DEF Broadcast
<1>7. ASSUME NEW u \in Uid, Ping(u) PROVE KickEnds'
  BY <1>7 DEF Ping
<1>8. CASE UNCHANGED vars
  BY <1>8
<1>9. QED
  BY <1>1, <1>2, <1>3, <1>4, <1>5, <1>6, <1>7, <1>8 DEF Next

(* What was said stays said as long as the window is listed, whoever       *)
(* handles its queue.                                                      *)
LEMMA ToldStays ==
  ASSUME IInv, KickEnds, [Next]_vars, NEW w \in Conn,
         pc[w] \in Registered, pc'[w] \in Registered, Told(w)
  PROVE  Told(w)'
<1>0. TypeOK /\ \A c \in Conn : recv[c] \in Seq(Note)
  BY DEF IInv, TypeOK
<1>a. "kick" \in Note /\ "time" \in Note /\ "img" \in Note
  BY DEF Note, Control
<1> DEFINE Pending == Contains(recv[w], "kick")
           InHand  == at = w /\ cast = "kick"
<1>b. Told(w) <=> Pending \/ InHand \/ note[w] = "kick" \/ pc[w] = "leave"
  BY DEF Told, KickPending
<1>c. Told(w)' <=> Pending' \/ InHand' \/ note'[w] = "kick" \/ pc'[w] = "leave"
  BY DEF Told, KickPending
<1> HIDE DEF Pending, InHand
<1> DEFINE Same == /\ InHand => InHand'
                   /\ note'[w] = note[w]
                   /\ pc[w] = "leave" => pc'[w] = "leave"
<1>d. ASSUME Same, Pending => Pending' PROVE Told(w)'
  BY <1>b, <1>c, <1>d
<1>e. ASSUME recv' = recv PROVE Pending => Pending'
  BY <1>e DEF Pending
<1>f. ASSUME lockVars' = lockVars \/ (at' = at /\ cast' = cast)
      PROVE  InHand => InHand'
  BY <1>f DEF InHand, lockVars
<1>1. ASSUME NEW c \in Conn, NEW n \in Note, Put(c, n)
      PROVE  Pending => Pending'
  <2>1. Contains(recv[c], "kick") => Contains(Append(recv[c], n), "kick")
    BY <1>0, AppendNote
  <2>2. QED
    BY <1>0, <1>1, <2>1 DEF Pending, Put, TypeOK
<1>2. ASSUME NEW c \in Conn, recv[c] # <<>>, Head(recv[c]) # "kick",
             recv' = [recv EXCEPT ![c] = Tail(@)]
      PROVE  Pending => Pending'
  <2>1. Contains(recv[c], "kick") => Contains(Tail(recv[c]), "kick")
    BY <1>0, <1>2, TailNote
  <2>2. QED
    BY <1>0, <1>2, <2>1 DEF Pending, TypeOK
<1>3. ASSUME NEW c \in Conn, recv' = [recv EXCEPT ![c] = Tail(@)], c # w
      PROVE  Pending => Pending'
  BY <1>0, <1>3 DEF Pending, TypeOK
<1> USE DEF Goto, TypeOK, Registered
<1>4. ASSUME NEW c \in Conn, Joining(c) PROVE Told(w)'
  <2>1. CASE JoinFirst(c) \/ Admit(c)
    <3>1. c # w /\ Register(c)
      BY <2>1 DEF JoinFirst, Admit
    <3>2. Pending => Pending'
      BY <1>0, <3>1 DEF Register, Pending
    <3>3. Same
      BY <1>0, <1>f, <2>1, <3>1 DEF JoinFirst, Admit
    <3>4. QED
      BY <1>d, <3>2, <3>3
  <2>2. CASE JoinRefused(c) \/ JoinSwitch(c) \/ Announce(c)
    BY <1>0, <1>d, <1>e, <1>f, <2>2 DEF JoinRefused, JoinSwitch, Announce
  <2>3. ASSUME NEW v \in Conn, Kick(c, v) PROVE Told(w)'
    BY <1>d, <1>f, <1>1, <1>a, <2>3 DEF Kick
  <2>4. QED
    BY <1>4, <2>1, <2>2, <2>3 DEF Joining
<1>5. ASSUME NEW c \in Conn, Streaming(c) PROVE Told(w)'
  <2>1. CASE Hijack(c) \/ Farewell(c)
    BY <1>0, <1>d, <1>e, <1>f, <2>1 DEF Hijack, Farewell
  <2>2. CASE Receive(c)
    <3>1. CASE c # w
      BY <1>0, <1>d, <1>f, <1>3, <2>2, <3>1 DEF Receive
    <3>2. CASE c = w
      <4>1. note[w] # "kick" /\ pc[w] # "leave"
        BY <2>2, <3>2 DEF Receive, KickEnds
      <4>2. CASE Head(recv[w]) = "kick"
        BY <1>0, <1>c, <2>2, <3>2, <4>2 DEF Receive
      <4>3. CASE Head(recv[w]) # "kick"
        <5>1. Pending => Pending'
          BY <1>2, <2>2, <3>2, <4>3 DEF Receive
        <5>2. InHand => InHand'
          BY <1>f, <2>2 DEF Receive
        <5>3. QED
          BY <1>b, <1>c, <4>1, <5>1, <5>2
      <4>4. QED
        BY <4>2, <4>3
    <3>3. QED
      BY <3>1, <3>2
  <2>3. CASE Write(c)
    <3>1. (Pending => Pending') /\ (InHand => InHand') /\ note' = note
      BY <1>e, <1>f, <2>3 DEF Write
    <3>2. CASE c = w
      <4>1. pc[w] # "leave" /\ (note[w] = "kick" => pc'[w] = "leave")
        BY <1>0, <2>3, <3>2 DEF Write, Control
      <4>2. QED
        BY <1>b, <1>c, <3>1, <4>1
    <3>3. CASE c # w
      <4>1. pc'[w] = pc[w]
        BY <1>0, <2>3, <3>3 DEF Write
      <4>2. QED
        BY <1>d, <3>1, <4>1
    <3>4. QED
      BY <3>2, <3>3
  <2>4. CASE Leave(c)
    <3>1. c # w
      BY <1>0, <2>4 DEF Leave
    <3>2. Pending => Pending'
      BY <1>0, <2>4, <3>1 DEF Leave, Pending
    <3>3. Same
      BY <1>0, <1>f, <2>4, <3>1 DEF Leave
    <3>4. QED
      BY <1>d, <3>2, <3>3
  <2>5. QED
    BY <1>5, <2>1, <2>2, <2>3, <2>4 DEF Streaming
<1>6. ASSUME NEW c \in Conn, RefreshThrottled(c) PROVE Told(w)'
  <2>1. pc[w] = "leave" => pc'[w] = "leave"
    BY <1>0, <1>6, PresenceAssumption DEF RefreshThrottled, Refreshing
  <2>2. QED
    BY <1>d, <1>e, <1>f, <1>6, <2>1 DEF RefreshThrottled
<1>7. ASSUME NEW c \in Conn, Fire(c) \/ SendTimeout(c) PROVE Told(w)'
  BY <1>d, <1>e, <1>f, <1>1, <1>a, <1>7 DEF Fire, SendTimeout
<1>8. ASSUME NEW t \in Thread, RefreshLock(t) PROVE Told(w)'
  BY <1>d, <1>e, <1>f, <1>8 DEF RefreshLock
<1>9. CASE Broadcast
  <2>1. ASSUME NEW v \in Conn, Visit(v) PROVE Told(w)'
    <3>1. ~InHand
      BY <2>1, PresenceAssumption DEF Visit, InHand
    <3>2. QED
      BY <1>d, <1>e, <2>1, <3>1 DEF Visit
  <2>2. CASE DropPicture
    <3>1. at \in Conn /\ Head(recv[at]) # "kick"
      BY <1>0, <2>2 DEF DropPicture, Keeps, Control
    <3>2. QED
      BY <1>d, <1>f, <1>2, <2>2, <3>1 DEF DropPicture
  <2>3. CASE TakeControl
    <3>1. at \in Conn /\ ~InHand
      BY <1>0, <2>3 DEF TakeControl, InHand
    <3>2. CASE Pending /\ at = w /\ Head(recv[w]) = "kick"
      <4>1. InHand'
        BY <2>3, <3>2 DEF TakeControl, InHand
      <4>2. QED
        BY <1>c, <4>1
    <3>3. CASE ~(at = w /\ Head(recv[w]) = "kick")
      <4>1. Pending => Pending'
        BY <1>2, <1>3, <2>3, <3>1, <3>3 DEF TakeControl
      <4>2. QED
        BY <1>d, <2>3, <3>1, <4>1 DEF TakeControl
    <3>4. CASE ~Pending
      BY <1>b, <1>c, <2>3, <3>1, <3>4 DEF TakeControl
    <3>5. QED
      BY <3>2, <3>3, <3>4
  <2>4. CASE PutBack
    <3>1. at \in Conn /\ cast \in Note
      BY <1>0, <2>4 DEF PutBack, Note
    <3>2. Pending => Pending'
      BY <1>1, <2>4, <3>1 DEF PutBack
    <3>3. InHand => Pending'
      <4>1. ASSUME InHand PROVE Contains(Append(recv[w], "kick"), "kick")
        BY <1>0, <1>a, AppendNote
      <4>2. ASSUME InHand PROVE recv'[w] = Append(recv[w], "kick")
        BY <1>0, <2>4, <4>2 DEF PutBack, Put, InHand
      <4>3. QED
        BY <4>1, <4>2 DEF Pending
    <3>4. QED
      BY <1>b, <1>c, <2>4, <3>2, <3>3 DEF PutBack
  <2>5. CASE SeeEmpty
    <3>1. ~InHand
      BY <2>5 DEF SeeEmpty, InHand
    <3>2. QED
      BY <1>d, <1>e, <2>5, <3>1 DEF SeeEmpty
  <2>6. CASE Offer
    <3>1. ~InHand /\ at \in Conn
      BY <1>0, <2>6 DEF Offer, InHand
    <3>2. Pending => Pending'
      BY <1>a, <1>e, <1>1, <2>6, <3>1 DEF Offer
    <3>3. QED
      BY <1>d, <2>6, <3>1, <3>2 DEF Offer
  <2>7. CASE RefreshUnlock
    <3>1. pc[w] = "leave" => pc'[w] = "leave"
      BY <1>0, <2>7 DEF RefreshUnlock, Broadcasting, Refreshing, Thread
    <3>2. QED
      BY <1>d, <1>e, <1>f, <2>7, <3>1 DEF RefreshUnlock
  <2>8. QED
    BY <1>9, <2>1, <2>2, <2>3, <2>4, <2>5, <2>6, <2>7 DEF Broadcast
<1>10. ASSUME NEW u \in Uid, Ping(u) PROVE Told(w)'
  BY <1>d, <1>e, <1>f, <1>10 DEF Ping
<1>11. CASE UNCHANGED vars
  BY <1>d, <1>e, <1>f, <1>11 DEF vars
<1>12. QED
  BY <1>4, <1>5, <1>6, <1>7, <1>8, <1>9, <1>10, <1>11 DEF Next

(* While a window kicks, only its own loop takes windows out of todo, and  *)
(* it sends each of them its kick.                                         *)
LEMMA KickLoop ==
  ASSUME IInv, [Next]_vars, NEW c \in Conn, pc[c] = "kick", pc'[c] = "kick",
         NEW w \in todo
  PROVE  w \in todo' \/ (w \in Conn /\ Told(w)')
<1>0. TypeOK /\ mu = c /\ ~MuFree /\ c # Ticker /\ w \in Conn
  BY PresenceAssumption DEF IInv, TypeOK, KickHoldsMutex, MuFree
<1>1. ~Broadcasting
  BY <1>0 DEF Broadcasting, Refreshing
<1> USE DEF TypeOK, Goto, lockVars, vars
<1>2. ASSUME NEW d \in Conn, Joining(d) PROVE w \in todo' \/ Told(w)'
  <2>1. CASE JoinFirst(d) \/ JoinRefused(d) \/ JoinSwitch(d) \/ Announce(d)
    BY <1>0, <2>1 DEF JoinFirst, JoinRefused, JoinSwitch, Announce
  <2>2. CASE Admit(d)
    BY <1>0, <2>2 DEF Admit
  <2>3. ASSUME NEW v \in Conn, Kick(d, v) PROVE w \in todo' \/ Told(w)'
    <3>1. CASE v # w
      BY <2>3, <3>1 DEF Kick
    <3>2. CASE v = w
      <4>1. recv'[w] = Append(recv[w], "kick") /\ recv[w] \in Seq(Note)
        BY <1>0, <2>3, <3>2 DEF Kick, Put
      <4>2. "kick" \in Note
        BY DEF Note, Control
      <4>3. QED
        BY <4>1, <4>2, AppendNote DEF Told, KickPending
    <3>3. QED
      BY <3>1, <3>2
  <2>4. QED
    BY <1>2, <2>1, <2>2, <2>3 DEF Joining
<1>3. ASSUME NEW d \in Conn, Streaming(d) PROVE w \in todo'
  BY <1>3 DEF Streaming, Hijack, Receive, Write, Leave, Farewell
<1>4. ASSUME NEW d \in Conn,
             RefreshThrottled(d) \/ Fire(d) \/ SendTimeout(d)
      PROVE  w \in todo'
  BY <1>4 DEF RefreshThrottled, Fire, SendTimeout
<1>5. ASSUME NEW t \in Thread, RefreshLock(t) PROVE w \in todo'
  BY <1>0, <1>5 DEF RefreshLock
<1>6. ~Broadcast
  BY <1>1 DEF Broadcast, Visit, DropPicture, TakeControl, PutBack, SeeEmpty,
              Offer, RefreshUnlock
<1>7. ASSUME NEW u \in Uid, Ping(u) PROVE w \in todo'
  BY <1>7 DEF Ping
<1>8. QED
  BY <1>0, <1>2, <1>3, <1>4, <1>5, <1>6, <1>7 DEF Next

LEMMA KickTellsStep ==
  IInv /\ KickEnds /\ KickTells /\ [Next]_vars => KickTells'
<1> SUFFICES ASSUME IInv, KickEnds, KickTells, [Next]_vars,
                    NEW c \in Conn, pc'[c] = "kick",
                    NEW i \in 1..Len(onlines[UidOf(c)])'
             PROVE  (\/ onlines[UidOf(c)][i] \in todo
                     \/ Told(onlines[UidOf(c)][i]))'
  BY DEF KickTells
<1> DEFINE u == UidOf(c)
<1>0. u \in Uid /\ onlines[u] \in Seq(Conn)
  BY DEF IInv, TypeOK, UidOf
<1>1. CASE JoinSwitch(c)
  <2>1. /\ onlines' = onlines /\ UidOf(c)' = u
        /\ todo' = ToSet(onlines[u])
    BY <1>1 DEF JoinSwitch, mapVars, UidOf
  <2>2. onlines[u][i] \in ToSet(onlines[u])
    BY <1>0, <2>1 DEF ToSet
  <2>3. QED
    BY <2>1, <2>2
<1>2. CASE pc[c] = "kick" /\ mu' = mu /\ UNCHANGED <<who, keys, onlines>>
  <2>1. onlines' = onlines /\ UidOf(c)' = u
    BY <1>2 DEF UidOf
  <2>2. PICK w \in Conn : i \in 1..Len(onlines[u]) /\ w = onlines[u][i]
    BY <1>0, <2>1
  <2>3. CASE w \in todo
    BY <1>2, <2>1, <2>2, <2>3, KickLoop
  <2>4. CASE Told(w)
    <3>1. pc[w] \in Registered
      BY <1>0, <2>2 DEF IInv, MapMatchesThreads
    <3>2. pc'[w] \in Registered
      <4>1. MuFree = FALSE
        BY <1>2, PresenceAssumption DEF IInv, KickHoldsMutex, MuFree
      <4>2. ~Leave(w)
        BY <4>1 DEF Leave
      <4>3. \A d \in Conn : ~JoinFirst(d) /\ ~Leave(d)
        BY <4>1 DEF JoinFirst, Leave
      <4>4. \A d \in Conn : ~Admit(d)
        BY <1>2, PresenceAssumption DEF Admit, IInv, KickHoldsMutex
      <4>5. MapStays
        BY <4>3, <4>4, MapChanges
      <4>6. QED
        BY <2>2, <3>1, <4>5 DEF MapStays
    <3>3. Told(w)'
      BY <2>2, <2>4, <3>1, <3>2, ToldStays
    <3>4. QED
      BY <2>1, <2>2, <3>3
  <2>5. QED
    BY <1>2, <2>2, <2>3, <2>4 DEF KickTells
<1>3. QED
  BY <1>1, <1>2, KickingIsExclusive

LEMMA ToldStep ==
  IInv /\ IInv' /\ Takeovers /\ [Next]_vars => SupersededAreTold'
<1> SUFFICES ASSUME IInv, IInv', Takeovers, [Next]_vars,
                    NEW u \in Uid, NEW i \in 1..Len(onlines'[u]),
                    i < Len(onlines'[u])
             PROVE  Told(onlines[u][i])'
  BY DEF SupersededAreTold, Told
<1>a. PICK w \in Conn : w = onlines'[u][i]
  <2>1. onlines'[u] \in Seq(Conn)
    BY DEF IInv, TypeOK
  <2>2. onlines'[u][i] \in Conn
    BY <2>1
  <2>3. QED
    BY <2>2
<1>0. /\ onlines[u] \in Seq(Conn) /\ onlines'[u] \in Seq(Conn)
      /\ pc'[w] \in Registered
  BY <1>a DEF IInv, TypeOK, MapMatchesThreads
(* It is enough that the window was listed and told before the step.       *)
<1>1. ASSUME NEW j \in 1..Len(onlines[u]), onlines[u][j] = w, Told(w)
      PROVE  Told(w)'
  <2>1. pc[w] \in Registered
    BY <1>0, <1>1 DEF IInv, MapMatchesThreads
  <2>2. QED
    BY <1>0, <1>1, <2>1, ToldStays DEF Takeovers
<1>2. ASSUME NEW j \in 1..Len(onlines[u]), onlines[u][j] = w,
             j < Len(onlines[u])
      PROVE  Told(w)
  BY <1>2 DEF Takeovers, SupersededAreTold, Told
<1>3. CASE MapStays
  BY <1>a, <1>1, <1>2, <1>3 DEF MapStays
<1>4. ASSUME NEW c \in Conn, JoinFirst(c) \/ Admit(c) PROVE Told(w)'
  <2> DEFINE n == Len(onlines[UidOf(c)])
  <2>1. Register(c) /\ TypeOK
    BY <1>4 DEF JoinFirst, Admit, IInv
  <2>2. /\ UidOf(c) \in Uid /\ n \in Nat
        /\ Len(onlines'[UidOf(c)]) = n + 1
        /\ \A k \in 1..n : onlines'[UidOf(c)][k] = onlines[UidOf(c)][k]
        /\ \A v \in Uid \ {UidOf(c)} : onlines'[v] = onlines[v]
    BY <2>1, RegisterEffect
  <2>3. CASE u # UidOf(c)
    BY <1>a, <1>1, <1>2, <2>2, <2>3
  <2>4. CASE u = UidOf(c)
    <3>1. i \in 1..n /\ onlines[u][i] = w
      BY <1>a, <2>2, <2>4
    <3>2. CASE JoinFirst(c)
      <4>1. onlines[u] = <<>>
        BY <2>4, <3>2 DEF JoinFirst, IInv, MapMatchesThreads
      <4>2. QED
        BY <2>4, <3>1, <4>1
    <3>3. CASE Admit(c)
      <4>1. Told(w)
        BY <2>4, <3>1, <3>3 DEF Admit, Takeovers, KickTells
      <4>2. QED
        BY <1>1, <2>4, <3>1, <4>1
    <3>4. QED
      BY <1>4, <3>2, <3>3
  <2>5. QED
    BY <2>3, <2>4
<1>5. ASSUME NEW c \in Conn, Leave(c) PROVE Told(w)'
  <2> DEFINE n == Len(onlines[UidOf(c)])
  <2>1. PICK k \in 1..n :
          /\ n \in Nat
          /\ Len(onlines'[UidOf(c)]) = n - 1
          /\ \A j \in 1..(n - 1) :
               onlines'[UidOf(c)][j] = IF j < k THEN onlines[UidOf(c)][j]
                                                ELSE onlines[UidOf(c)][j + 1]
    BY <1>5, LeaveEffect
  <2>2. \A v \in Uid \ {UidOf(c)} : onlines'[v] = onlines[v]
    BY <1>5, LeaveEffect
  <2>3. CASE u # UidOf(c)
    BY <1>a, <1>1, <1>2, <2>2, <2>3
  <2>4. CASE u = UidOf(c)
    <3>1. i \in 1..(n - 1) /\ i < n - 1 /\ n = Len(onlines[u])
      BY <2>1, <2>4
    <3>2. \E j \in 1..n : j < n /\ onlines[u][j] = w
      <4>1. CASE i < k
        BY <1>a, <2>1, <2>4, <3>1, <4>1, SMTT(30)
      <4>2. CASE ~(i < k)
        <5>1. i + 1 \in 1..n /\ i + 1 < n
          BY <2>1, <3>1
        <5>2. onlines[u][i + 1] = w
          BY <1>a, <2>1, <2>4, <3>1, <4>2
        <5>3. QED
          BY <5>1, <5>2
      <4>3. QED
        BY <4>1, <4>2
    <3>3. QED
      BY <1>1, <1>2, <3>1, <3>2
  <2>5. QED
    BY <2>3, <2>4
<1>6. QED
  BY <1>a, <1>3, <1>4, <1>5, MapChanges

(* A window that another one of its nickname replaced has its kick before  *)
(* it, or behind it: no Refresh loses it, and no other note overtakes it.  *)
THEOREM ToldCorrect == Spec => []SupersededAreTold
<1>1. Init => Takeovers
  BY TakeoversInit
<1>2. IInv /\ IInv' /\ Takeovers /\ [Next]_vars => Takeovers'
  BY KickEndsStep, KickTellsStep, ToldStep DEF IInv, Takeovers
<1>3. QED
  BY <1>1, <1>2, Invariance, PTL DEF Spec, Takeovers

-------------------------------------------------------------------------------
(* Room in the queues and notices on their way.  Only a listed window has  *)
(* a timer; a Refresh holds ch.mu while it is at a window, and a note is   *)
(* in its hand only there; a window that kicks has only other windows of   *)
(* its nickname before it.                                                 *)
Quiet ==
  \A w \in Conn : pc[w] \notin Registered => w \notin armed /\ firing[w] = 0
HandHeld ==
  /\ at # Nobody => Broadcasting
  /\ at = Nobody => cast = "poll"
OthersOnly ==
  \A c \in Conn : pc[c] = "kick" =>
    \A w \in todo : w # c /\ UidOf(w) = UidOf(c)

Bystanders == Quiet /\ HandHeld /\ OthersOnly

LEMMA BystandersInit == Init => Bystanders
BY DEF Init, Bystanders, Quiet, HandHeld, OthersOnly

LEMMA QuietStep == IInv /\ Quiet /\ [Next]_vars => Quiet'
<1> SUFFICES ASSUME IInv, Quiet, [Next]_vars PROVE Quiet'
  OBVIOUS
<1>0. TypeOK /\ MapMatchesThreads
  BY DEF IInv
<1> USE <1>0, PresenceAssumption
    DEF Quiet, TypeOK, Registered, Goto, mapVars, vars
<1>1. ASSUME NEW c \in Conn, Joining(c) PROVE Quiet'
  <2>1. CASE JoinFirst(c) \/ Admit(c)
    <3>1. /\ armed' = armed \cup {c} /\ firing' = firing
          /\ pc' \in {[pc EXCEPT ![c] = "announce"],
                     [pc EXCEPT ![c] = "refreshIn"]}
      BY <2>1 DEF JoinFirst, Admit, Register
    <3>2. pc'[c] \in Registered /\ \A d \in Conn \ {c} : pc'[d] = pc[d]
      BY <3>1
    <3>3. QED
      BY <3>1, <3>2
  <2>2. CASE JoinRefused(c) \/ JoinSwitch(c) \/ Announce(c)
    BY <2>2 DEF JoinRefused, JoinSwitch, Announce
  <2>3. ASSUME NEW w \in Conn, Kick(c, w) PROVE Quiet'
    BY <2>3 DEF Kick
  <2>4. QED
    BY <1>1, <2>1, <2>2, <2>3 DEF Joining
<1>2. ASSUME NEW c \in Conn, Streaming(c) PROVE Quiet'
  BY <1>2 DEF Streaming, Hijack, Receive, Write, Leave, Farewell
<1>3. ASSUME NEW c \in Conn, RefreshThrottled(c) PROVE Quiet'
  BY <1>3 DEF RefreshThrottled, Refreshing, AfterRefresh
<1>4. ASSUME NEW c \in Conn, Fire(c) \/ SendTimeout(c) PROVE Quiet'
  BY <1>4 DEF Fire, SendTimeout, Due
<1>5. ASSUME NEW t \in Thread, RefreshLock(t) PROVE Quiet'
  BY <1>5 DEF RefreshLock
<1>6. CASE Broadcast
  <2>1. CASE RefreshUnlock
    BY <2>1 DEF RefreshUnlock, Broadcasting, Refreshing, AfterRefresh, Thread
  <2>2. CASE \/ \E w \in Conn : Visit(w)
             \/ DropPicture \/ TakeControl \/ PutBack \/ SeeEmpty \/ Offer
    BY <2>2 DEF Visit, DropPicture, TakeControl, PutBack, SeeEmpty, Offer
  <2>3. QED
    BY <1>6, <2>1, <2>2 DEF Broadcast
<1>7. ASSUME NEW u \in Uid, Ping(u) PROVE Quiet'
  <2>1. onlines[u] \in Seq(Conn) /\ onlines[u] # <<>>
    BY <1>7 DEF Ping, MapMatchesThreads
  <2>2. Len(onlines[u]) \in 1..Len(onlines[u]) /\ Last(onlines[u]) \in Conn
    BY <2>1 DEF Last
  <2>3. pc[Last(onlines[u])] \in Registered
    BY <2>2 DEF MapMatchesThreads, Last
  <2>4. QED
    BY <1>7, <2>2, <2>3 DEF Ping
<1>8. CASE UNCHANGED vars
  BY <1>8
<1>9. QED
  BY <1>1, <1>2, <1>3, <1>4, <1>5, <1>6, <1>7, <1>8 DEF Next

LEMMA HandStep == IInv /\ HandHeld /\ [Next]_vars => HandHeld'
<1> SUFFICES ASSUME IInv, HandHeld, [Next]_vars PROVE HandHeld'
  OBVIOUS
<1>0. TypeOK
  BY DEF IInv
<1> USE <1>0, PresenceAssumption
    DEF HandHeld, Broadcasting, Refreshing, MuFree, TypeOK, Goto, lockVars, vars
<1>1. ASSUME NEW c \in Conn, Joining(c) PROVE HandHeld'
  <2>1. pc[c] = "kick" => mu = c
    BY DEF IInv, KickHoldsMutex
  <2>2. CASE JoinFirst(c) \/ JoinRefused(c) \/ JoinSwitch(c) \/ Announce(c)
    BY <2>2 DEF JoinFirst, JoinRefused, JoinSwitch, Announce
  <2>3. CASE Admit(c)
    BY <2>1, <2>3 DEF Admit
  <2>4. ASSUME NEW w \in Conn, Kick(c, w) PROVE HandHeld'
    BY <2>1, <2>4 DEF Kick
  <2>5. QED
    BY <1>1, <2>2, <2>3, <2>4 DEF Joining
<1>2. ASSUME NEW c \in Conn, Streaming(c) PROVE HandHeld'
  BY <1>2, SMTT(30) DEF Streaming, Hijack, Receive, Write, Leave, Farewell
<1>3. ASSUME NEW c \in Conn, RefreshThrottled(c) PROVE HandHeld'
  BY <1>3 DEF RefreshThrottled
<1>4. ASSUME NEW c \in Conn, Fire(c) \/ SendTimeout(c) PROVE HandHeld'
  BY <1>4 DEF Fire, SendTimeout
<1>5. ASSUME NEW t \in Thread, RefreshLock(t) PROVE HandHeld'
  BY <1>5 DEF RefreshLock
<1>6. CASE Broadcast
  BY <1>6 DEF Broadcast, Visit, DropPicture, TakeControl, PutBack, SeeEmpty,
              Offer, RefreshUnlock
<1>7. ASSUME NEW u \in Uid, Ping(u) PROVE HandHeld'
  BY <1>7 DEF Ping
<1>8. CASE UNCHANGED vars
  BY <1>8
<1>9. QED
  BY <1>1, <1>2, <1>3, <1>4, <1>5, <1>6, <1>7, <1>8 DEF Next

(* Only the loop of a kicking window itself takes windows off its list.    *)
LEMMA LoopShrinks ==
  ASSUME IInv, [Next]_vars, NEW c \in Conn, pc[c] = "kick", pc'[c] = "kick"
  PROVE  todo' \subseteq todo
<1>0. TypeOK /\ mu = c /\ ~MuFree /\ c # Ticker /\ ~Broadcasting
  BY PresenceAssumption DEF IInv, TypeOK, KickHoldsMutex, MuFree,
     Broadcasting, Refreshing
<1> USE <1>0 DEF Goto, lockVars, vars
<1>1. ASSUME NEW d \in Conn, Joining(d) PROVE todo' \subseteq todo
  BY <1>1 DEF Joining, JoinFirst, JoinRefused, JoinSwitch, Admit, Announce, Kick
<1>2. ASSUME NEW d \in Conn, Streaming(d) PROVE todo' = todo
  BY <1>2 DEF Streaming, Hijack, Receive, Write, Leave, Farewell
<1>3. ASSUME NEW d \in Conn,
             RefreshThrottled(d) \/ Fire(d) \/ SendTimeout(d)
      PROVE  todo' = todo
  BY <1>3 DEF RefreshThrottled, Fire, SendTimeout
<1>4. \A t \in Thread : ~RefreshLock(t)
  BY DEF RefreshLock
<1>5. ~Broadcast
  BY DEF Broadcast, Visit, DropPicture, TakeControl, PutBack, SeeEmpty,
         Offer, RefreshUnlock
<1>6. ASSUME NEW u \in Uid, Ping(u) PROVE todo' = todo
  BY <1>6 DEF Ping
<1>7. QED
  BY <1>1, <1>2, <1>3, <1>4, <1>5, <1>6 DEF Next

LEMMA OthersOnlyStep == IInv /\ OthersOnly /\ [Next]_vars => OthersOnly'
<1> SUFFICES ASSUME IInv, OthersOnly, [Next]_vars, NEW c \in Conn, pc'[c] = "kick",
                    NEW w \in todo'
             PROVE  w # c /\ UidOf(w)' = UidOf(c)'
  BY DEF OthersOnly
<1>1. CASE JoinSwitch(c)
  <2> DEFINE s == onlines[UidOf(c)]
  <2>1. /\ UidOf(c) \in Uid /\ s \in Seq(Conn)
        /\ w \in ToSet(s) /\ who' = who /\ pc[c] = "idle"
    BY <1>1 DEF IInv, TypeOK, UidOf, JoinSwitch
  <2>2. PICK i \in 1..Len(s) : s[i] = w
    BY <2>1 DEF ToSet
  <2>3. w \in Conn /\ pc[w] \in Registered /\ UidOf(w) = UidOf(c)
    <3>1. s[i] \in Conn
      BY <2>1
    <3>2. QED
      BY <2>1, <2>2, <3>1 DEF IInv, MapMatchesThreads
  <2>4. QED
    BY <2>1, <2>3 DEF Registered, UidOf
<1>2. CASE pc[c] = "kick" /\ mu' = mu /\ UNCHANGED <<who, keys, onlines>>
  BY <1>2, LoopShrinks DEF OthersOnly, UidOf
<1>3. QED
  BY <1>1, <1>2, KickingIsExclusive

LEMMA BystandersStep == IInv /\ Bystanders /\ [Next]_vars => Bystanders'
BY QuietStep, HandStep, OthersOnlyStep DEF Bystanders

(* Join notices on their way, leave notices on their way, and whether a    *)
(* window is left that will post one: it kicks, or nobody told it to go.   *)
Announces(u) == {c \in Conn : pc[c] = "announce" /\ UidOf(c) = u}
Farewells(u) == {c \in Conn : pc[c] = "farewell" /\ UidOf(c) = u}
Alone(c) == \/ pc[c] = "kick"
            \/ pc[c] \in Registered /\ ~KickPending(c) /\ note[c] # "kick"
Speaker(u) == IF \E c \in Conn : UidOf(c) = u /\ Alone(c) THEN 1 ELSE 0

(* What the notices in ch.data and those on their way add up to.           *)
Owed ==
  \A u \in Uid :
    /\ IsFiniteSet(Announces(u)) /\ IsFiniteSet(Farewells(u))
    /\ balance[u] + Cardinality(Announces(u))
         <= Cardinality(Farewells(u)) + Speaker(u)

LEMMA OwedInit == Init => Owed
<1> SUFFICES ASSUME Init, NEW u \in Uid
             PROVE  /\ IsFiniteSet(Announces(u)) /\ IsFiniteSet(Farewells(u))
                    /\ balance[u] + Cardinality(Announces(u))
                         <= Cardinality(Farewells(u)) + Speaker(u)
  BY DEF Owed
<1>1. Announces(u) = {} /\ Farewells(u) = {} /\ balance[u] = 0
  BY DEF Init, Announces, Farewells
<1>2. QED
  BY <1>1, FS_EmptySet DEF Speaker

(* An Append or a Tail brings no kick into a queue without one.            *)
LEMMA NoKickNote ==
  ASSUME NEW s \in Seq(Note), ~Contains(s, "kick")
  PROVE  /\ \A n \in Note \ {"kick"} : ~Contains(Append(s, n), "kick")
         /\ s # <<>> => Head(s) # "kick" /\ ~Contains(Tail(s), "kick")
<1>1. ASSUME NEW n \in Note, n # "kick" PROVE ~Contains(Append(s, n), "kick")
  <2> DEFINE a == Append(s, n)
  <2>1. /\ Len(s) \in Nat /\ Len(a) = Len(s) + 1 /\ a[Len(s) + 1] = n
        /\ \A i \in 1..Len(s) : a[i] = s[i]
    BY AppendProperties
  <2> HIDE DEF a
  <2>2. \A i \in 1..Len(a) : i \in 1..Len(s) \/ i = Len(s) + 1
    BY <2>1
  <2>3. ~Contains(a, "kick")
    BY <1>1, <2>1, <2>2 DEF Contains
  <2>4. QED
    BY <2>3 DEF a
<1>2. ASSUME s # <<>> PROVE Head(s) # "kick" /\ ~Contains(Tail(s), "kick")
  <2> DEFINE t == Tail(s)
  <2>1. /\ Len(s) \in Nat /\ Len(s) > 0 /\ Len(t) = Len(s) - 1
        /\ Head(s) = s[1] /\ \A i \in 1..Len(t) : t[i] = s[i + 1]
    BY <1>2, HeadTailProperties
  <2> HIDE DEF t
  <2>2. 1 \in 1..Len(s) /\ \A i \in 1..Len(t) : i + 1 \in 1..Len(s)
    BY <2>1
  <2>3. Head(s) # "kick" /\ ~Contains(t, "kick")
    BY <2>1, <2>2 DEF Contains
  <2>4. QED
    BY <2>3 DEF t
<1>3. QED
  BY <1>1, <1>2

LEMMA WhoStays == IInv /\ [Next]_vars => who' = who
BY MapChanges DEF MapStays, JoinFirst, Admit, Leave

(* A window that kicks still does, or is the newest of its nickname now.   *)
LEMMA KickerStays ==
  ASSUME IInv, KickEnds, HandHeld, [Next]_vars, NEW c \in Conn,
         pc[c] = "kick"
  PROVE  Alone(c)'
<1>0. /\ TypeOK /\ mu = c /\ ~MuFree /\ c # Ticker /\ ~Broadcasting
      /\ note[c] # "kick" /\ at # c
  BY PresenceAssumption DEF IInv, TypeOK, KickHoldsMutex, MuFree, KickEnds,
     HandHeld, Broadcasting, Refreshing
<1>1. CASE Admit(c)
  <2>1. recv'[c] = <<"img">> \/ recv'[c] = <<>>
    BY <1>0, <1>1 DEF Admit, Register, TypeOK
  <2>2. ~Contains(recv'[c], "kick")
    BY <2>1 DEF Contains
  <2>3. pc'[c] = "refreshIn" /\ note' = note /\ at' = at
    BY <1>0, <1>1 DEF Admit, Goto, TypeOK
  <2>4. QED
    BY <1>0, <2>2, <2>3 DEF Alone, KickPending, Registered
<1>2. ASSUME ~Admit(c) PROVE pc'[c] = "kick"
  <2> USE <1>0 DEF TypeOK, Goto, vars
  <2>1. ASSUME NEW d \in Conn, Joining(d) PROVE pc'[c] = "kick"
    BY <1>2, <2>1 DEF Joining, JoinFirst, JoinRefused, JoinSwitch, Admit,
       Announce, Kick
  <2>2. ASSUME NEW d \in Conn, Streaming(d) PROVE pc'[c] = "kick"
    BY <2>2 DEF Streaming, Hijack, Receive, Write, Leave, Farewell
  <2>3. ASSUME NEW d \in Conn,
               RefreshThrottled(d) \/ Fire(d) \/ SendTimeout(d)
        PROVE  pc'[c] = "kick"
    BY <2>3, PresenceAssumption DEF RefreshThrottled, Refreshing, Fire,
       SendTimeout
  <2>4. \A t \in Thread : ~RefreshLock(t)
    BY DEF RefreshLock
  <2>5. ~Broadcast
    BY DEF Broadcast, Visit, DropPicture, TakeControl, PutBack, SeeEmpty,
           Offer, RefreshUnlock
  <2>6. ASSUME NEW u \in Uid, Ping(u) PROVE pc'[c] = "kick"
    BY <2>6 DEF Ping
  <2>7. QED
    BY <2>1, <2>2, <2>3, <2>4, <2>5, <2>6 DEF Next
<1>3. QED
  BY <1>1, <1>2 DEF Alone

(* A window that nobody told to go is not told by anything but the kick    *)
(* loop of another window of its nickname.                                 *)
LEMMA UntoldStays ==
  ASSUME IInv, Bystanders, [Next]_vars, NEW c \in Conn,
         pc[c] \in Registered, ~KickPending(c), note[c] # "kick", ~Leave(c)
  PROVE  Alone(c)' \/ \E d \in Conn : Kick(d, c)
<1>0. /\ TypeOK /\ HandHeld /\ \A d \in Conn : recv[d] \in Seq(Note)
      /\ ~Contains(recv[c], "kick") /\ ~(at = c /\ cast = "kick")
  BY DEF IInv, TypeOK, Bystanders, KickPending
<1>a. "time" \in Note \ {"kick"} /\ "img" \in Note \ {"kick"}
      /\ "kick" \in Note
  BY DEF Note, Control
<1> DEFINE NoKick == ~Contains(recv[c], "kick")
           NoHand == ~(at = c /\ cast = "kick")
           Listed_c == pc[c] \in Registered
<1>b. ASSUME NoKick', NoHand', note'[c] # "kick", Listed_c' PROVE Alone(c)'
  BY <1>b DEF Alone, KickPending
<1>c. ASSUME recv'[c] = recv[c] PROVE NoKick'
  BY <1>0, <1>c
<1>d. ASSUME NEW d \in Conn, NEW n \in Note \ {"kick"}, Put(d, n)
      PROVE  NoKick'
  BY <1>0, <1>d, NoKickNote DEF Put, TypeOK
<1>e. ASSUME NEW d \in Conn, recv[d] # <<>>,
             recv' = [recv EXCEPT ![d] = Tail(@)]
      PROVE  NoKick'
  BY <1>0, <1>e, NoKickNote DEF TypeOK
<1>f. ASSUME at' = at /\ cast' = cast PROVE NoHand'
  BY <1>0, <1>f
<1>g. ASSUME note' = note PROVE note'[c] # "kick"
  BY <1>g
<1> HIDE DEF NoKick, NoHand
<1> USE DEF TypeOK, Goto, Registered, lockVars, vars
<1>1. ASSUME NEW d \in Conn, Joining(d)
      PROVE  Alone(c)' \/ \E e \in Conn : Kick(e, c)
  <2>1. CASE JoinFirst(d) \/ Admit(d)
    <3>1. d # c /\ recv'[c] = recv[c]
      BY <1>0, <2>1 DEF JoinFirst, Admit, Register
    <3>2. QED
      BY <1>0, <1>b, <1>c, <1>f, <1>g, <2>1, <3>1 DEF JoinFirst, Admit
  <2>2. CASE JoinRefused(d) \/ JoinSwitch(d) \/ Announce(d)
    BY <1>0, <1>b, <1>c, <1>f, <1>g, <2>2
    DEF JoinRefused, JoinSwitch, Announce
  <2>3. ASSUME NEW w \in Conn, Kick(d, w)
        PROVE  Alone(c)' \/ \E e \in Conn : Kick(e, c)
    <3>1. CASE w = c
      BY <2>3, <3>1
    <3>2. CASE w # c
      <4>1. recv'[c] = recv[c]
        BY <1>0, <2>3, <3>2 DEF Kick, Put
      <4>2. QED
        BY <1>0, <1>b, <1>c, <1>f, <1>g, <2>3, <4>1 DEF Kick
    <3>3. QED
      BY <3>1, <3>2
  <2>4. QED
    BY <1>1, <2>1, <2>2, <2>3 DEF Joining
<1>2. ASSUME NEW d \in Conn, Streaming(d) PROVE Alone(c)'
  <2>1. CASE Hijack(d) \/ Write(d) \/ Farewell(d)
    BY <1>0, <1>b, <1>c, <1>f, <1>g, <2>1 DEF Hijack, Write, Farewell
  <2>2. CASE Receive(d)
    <3>1. NoKick' /\ NoHand'
      BY <1>e, <1>f, <2>2 DEF Receive
    <3>2. note'[c] # "kick"
      BY <1>0, <2>2, NoKickNote DEF Receive
    <3>3. pc'[c] \in Registered
      BY <1>0, <2>2 DEF Receive
    <3>4. QED
      BY <1>b, <3>1, <3>2, <3>3
  <2>3. CASE Leave(d)
    <3>1. d # c
      BY <2>3
    <3>2. /\ recv'[c] = recv[c] /\ note'[c] = note[c] /\ pc'[c] = pc[c]
          /\ at' = at /\ cast' = cast
      BY <1>0, <2>3, <3>1 DEF Leave
    <3>3. QED
      BY <1>b, <1>c, <1>f, <3>2
  <2>4. QED
    BY <1>2, <2>1, <2>2, <2>3 DEF Streaming
<1>3. ASSUME NEW d \in Conn, RefreshThrottled(d) PROVE Alone(c)'
  <2>1. pc'[c] \in Registered
    BY <1>0, <1>3, PresenceAssumption
    DEF RefreshThrottled, Refreshing, AfterRefresh
  <2>2. QED
    BY <1>b, <1>c, <1>f, <1>g, <1>3, <2>1 DEF RefreshThrottled
<1>4. ASSUME NEW d \in Conn, Fire(d) \/ SendTimeout(d) PROVE Alone(c)'
  <2>1. NoKick'
    BY <1>a, <1>c, <1>d, <1>4 DEF Fire, SendTimeout
  <2>2. QED
    BY <1>b, <1>f, <1>g, <1>4, <2>1 DEF Fire, SendTimeout
<1>5. ASSUME NEW t \in Thread, RefreshLock(t) PROVE Alone(c)'
  BY <1>b, <1>c, <1>f, <1>g, <1>5 DEF RefreshLock
<1>6. CASE Broadcast
  <2>1. ASSUME NEW w \in Conn, Visit(w) PROVE Alone(c)'
    <3>1. NoHand'
      BY <1>0, <2>1 DEF Visit, HandHeld, NoHand
    <3>2. QED
      BY <1>b, <1>c, <1>g, <2>1, <3>1 DEF Visit
  <2>2. CASE DropPicture
    BY <1>0, <1>b, <1>e, <1>f, <1>g, <2>2, PresenceAssumption DEF DropPicture
  <2>3. CASE TakeControl
    <3>1. at \in Conn /\ (at = c => Head(recv[c]) # "kick")
      BY <1>0, <2>3, NoKickNote DEF TakeControl
    <3>2. NoKick'
      BY <1>e, <2>3, <3>1 DEF TakeControl
    <3>3. NoHand'
      BY <2>3, <3>1 DEF TakeControl, NoHand
    <3>4. QED
      BY <1>b, <1>g, <2>3, <3>2, <3>3 DEF TakeControl
  <2>4. CASE PutBack
    <3>1. at \in Conn /\ cast \in Note
      BY <1>0, <2>4 DEF PutBack, Note
    <3>2. CASE cast = "kick"
      <4>1. at # c
        BY <1>0, <3>2
      <4>2. recv'[c] = recv[c]
        BY <1>0, <2>4, <3>1, <4>1 DEF PutBack, Put
      <4>3. QED
        BY <1>b, <1>c, <1>g, <2>4, <4>2 DEF PutBack, NoHand
    <3>3. CASE cast # "kick"
      <4>1. NoKick'
        BY <1>d, <2>4, <3>1, <3>3 DEF PutBack
      <4>2. QED
        BY <1>b, <1>g, <2>4, <4>1 DEF PutBack, NoHand
    <3>4. QED
      BY <3>2, <3>3
  <2>5. CASE SeeEmpty
    BY <1>b, <1>c, <1>g, <2>5 DEF SeeEmpty, NoHand
  <2>6. CASE Offer
    <3>1. NoKick'
      BY <1>0, <1>a, <1>c, <1>d, <2>6 DEF Offer
    <3>2. QED
      BY <1>b, <1>g, <2>6, <3>1 DEF Offer, NoHand
  <2>7. CASE RefreshUnlock
    <3>1. pc'[c] \in Registered
      BY <1>0, <2>7 DEF RefreshUnlock, Broadcasting, Refreshing, AfterRefresh,
         Thread
    <3>2. QED
      BY <1>b, <1>c, <1>f, <1>g, <2>7, <3>1 DEF RefreshUnlock
  <2>8. QED
    BY <1>6, <2>1, <2>2, <2>3, <2>4, <2>5, <2>6, <2>7 DEF Broadcast
<1>7. ASSUME NEW u \in Uid, Ping(u) PROVE Alone(c)'
  BY <1>b, <1>c, <1>f, <1>g, <1>7 DEF Ping
<1>8. CASE UNCHANGED vars
  BY <1>b, <1>c, <1>f, <1>g, <1>8
<1>9. QED
  BY <1>1, <1>2, <1>3, <1>4, <1>5, <1>6, <1>7, <1>8 DEF Next

(* A nickname that still has somebody to post a leave notice keeps one     *)
(* until a window of it leaves.                                            *)
LEMMA SpeakerStays ==
  ASSUME IInv, KickEnds, Bystanders, [Next]_vars, NEW u \in Uid,
         \A c \in Conn : UidOf(c) = u /\ Alone(c) => ~Leave(c)
  PROVE  Speaker(u) <= Speaker(u)'
<1>1. \A c \in Conn : UidOf(c)' = UidOf(c)
  BY WhoStays DEF UidOf
<1>2. ASSUME NEW c \in Conn, UidOf(c) = u, Alone(c)
      PROVE  \E d \in Conn : UidOf(d)' = u /\ Alone(d)'
  <2>1. CASE pc[c] = "kick"
    BY <1>1, <1>2, <2>1, KickerStays DEF Bystanders
  <2>2. CASE pc[c] # "kick"
    <3>1. Alone(c)' \/ \E d \in Conn : Kick(d, c)
      BY <1>2, <2>2, UntoldStays DEF Alone
    <3>2. ASSUME NEW d \in Conn, Kick(d, c) PROVE UidOf(d) = u /\ Alone(d)'
      <4>1. pc[d] = "kick" /\ c \in todo
        BY <3>2 DEF Kick, Foremost
      <4>2. UidOf(d) = u
        BY <1>2, <4>1 DEF Bystanders, OthersOnly
      <4>3. QED
        BY <4>1, <4>2, KickerStays DEF Bystanders
    <3>3. QED
      BY <1>1, <1>2, <3>1, <3>2
  <2>3. QED
    BY <2>1, <2>2
<1>3. QED
  BY <1>2 DEF Speaker

(* Four operations touch a notice; all others leave those in ch.data and   *)
(* those on their way alone.                                               *)
NoticesStay ==
  /\ UNCHANGED balance
  /\ \A c \in Conn : /\ pc'[c] = "announce" <=> pc[c] = "announce"
                     /\ pc'[c] = "farewell" <=> pc[c] = "farewell"

LEMMA NoticeChanges ==
  IInv /\ [Next]_vars =>
    NoticesStay
    \/ \E c \in Conn : JoinFirst(c) \/ Announce(c) \/ Leave(c) \/ Farewell(c)
<1> SUFFICES ASSUME IInv, [Next]_vars,
                    ~ \E c \in Conn : JoinFirst(c) \/ Announce(c) \/ Leave(c)
                                     \/ Farewell(c)
             PROVE  NoticesStay
  OBVIOUS
<1>0. TypeOK
  BY DEF IInv
<1> USE <1>0, PresenceAssumption DEF NoticesStay, TypeOK, Goto, vars
<1>1. ASSUME NEW c \in Conn, Joining(c) PROVE NoticesStay
  <2>1. JoinRefused(c) \/ JoinSwitch(c) \/ Admit(c)
        \/ \E w \in Conn : Kick(c, w)
    BY <1>1 DEF Joining
  <2>2. QED
    BY <2>1 DEF JoinRefused, JoinSwitch, Admit, Kick
<1>2. ASSUME NEW c \in Conn, Streaming(c) PROVE NoticesStay
  <2>1. Hijack(c) \/ Receive(c) \/ Write(c)
    BY <1>2 DEF Streaming
  <2>2. QED
    BY <2>1 DEF Hijack, Receive, Write
<1>3. ASSUME NEW c \in Conn, RefreshThrottled(c) PROVE NoticesStay
  BY <1>3 DEF RefreshThrottled, Refreshing, AfterRefresh
<1>4. ASSUME NEW c \in Conn, Fire(c) \/ SendTimeout(c) PROVE NoticesStay
  BY <1>4 DEF Fire, SendTimeout
<1>5. ASSUME NEW t \in Thread, RefreshLock(t) PROVE NoticesStay
  BY <1>5 DEF RefreshLock
<1>6. CASE Broadcast
  <2>1. CASE RefreshUnlock
    BY <2>1 DEF RefreshUnlock, Broadcasting, Refreshing, AfterRefresh, Thread
  <2>2. CASE \/ \E w \in Conn : Visit(w)
             \/ DropPicture \/ TakeControl \/ PutBack \/ SeeEmpty \/ Offer
    BY <2>2 DEF Visit, DropPicture, TakeControl, PutBack, SeeEmpty, Offer
  <2>3. QED
    BY <1>6, <2>1, <2>2 DEF Broadcast
<1>7. ASSUME NEW u \in Uid, Ping(u) PROVE NoticesStay
  BY <1>7 DEF Ping
<1>8. CASE UNCHANGED vars
  BY <1>8
<1>9. QED
  BY <1>1, <1>2, <1>3, <1>4, <1>5, <1>6, <1>7, <1>8 DEF Next

LEMMA OwedStep ==
  IInv /\ KickEnds /\ Bystanders /\ Owed /\ [Next]_vars => Owed'
<1> SUFFICES ASSUME IInv, KickEnds, Bystanders, Owed, [Next]_vars,
                    NEW u \in Uid
             PROVE  (/\ IsFiniteSet(Announces(u)) /\ IsFiniteSet(Farewells(u))
                     /\ balance[u] + Cardinality(Announces(u))
                          <= Cardinality(Farewells(u)) + Speaker(u))'
  BY DEF Owed
<1> DEFINE A == Announces(u)
           F == Farewells(u)
           Fine == /\ IsFiniteSet(A) /\ IsFiniteSet(F)
                   /\ balance[u] + Cardinality(A) <= Cardinality(F) + Speaker(u)
<1>0. /\ TypeOK /\ who' = who
      /\ IsFiniteSet(A) /\ Cardinality(A) \in Nat
      /\ IsFiniteSet(F) /\ Cardinality(F) \in Nat
      /\ balance[u] \in Int /\ Speaker(u) \in 0..1 /\ Speaker(u)' \in 0..1
      /\ balance[u] + Cardinality(A) <= Cardinality(F) + Speaker(u)
  <2>1. Speaker(u) \in 0..1 /\ Speaker(u)' \in 0..1
    BY DEF Speaker
  <2>2. TypeOK /\ who' = who /\ balance[u] \in Int
    BY WhoStays DEF IInv, TypeOK
  <2>3. /\ IsFiniteSet(A) /\ IsFiniteSet(F)
        /\ balance[u] + Cardinality(A) <= Cardinality(F) + Speaker(u)
    BY DEF Owed
  <2>4. Cardinality(A) \in Nat /\ Cardinality(F) \in Nat
    BY <2>3, FS_CardinalityType
  <2>5. QED
    BY <2>1, <2>2, <2>3, <2>4
<1>a. \A c \in Conn : UidOf(c)' = UidOf(c)
  BY <1>0 DEF UidOf
<1>b. (\A c \in Conn : ~Leave(c)) => Speaker(u) <= Speaker(u)'
  BY SpeakerStays
<1>1. CASE NoticesStay /\ \A c \in Conn : ~Leave(c)
  <2>1. A' = A /\ F' = F /\ balance' = balance
    BY <1>a, <1>1 DEF NoticesStay, Announces, Farewells
  <2>2. QED
    BY <1>0, <1>b, <1>1, <2>1
<1>2. ASSUME NEW c \in Conn, JoinFirst(c) PROVE Fine'
  <2>1. /\ pc[c] = "idle" /\ pc'[c] = "announce" /\ balance' = balance
        /\ \A d \in Conn \ {c} : pc'[d] = pc[d]
    BY <1>0, <1>2 DEF JoinFirst, Goto, TypeOK
  <2>2. F' = F
    BY <1>a, <2>1 DEF Farewells
  <2>3. \A d \in Conn : ~Leave(d)
    BY <1>0, <1>2, <2>1 DEF Leave, Goto, TypeOK
  <2>4. CASE UidOf(c) # u
    <3>1. A' = A
      BY <1>a, <2>1, <2>4 DEF Announces
    <3>2. QED
      BY <1>0, <1>b, <2>1, <2>2, <2>3, <3>1
  <2>5. CASE UidOf(c) = u
    <3>1. A' = A \cup {c} /\ c \notin A
      BY <1>a, <2>1, <2>5 DEF Announces
    <3>2. Speaker(u) = 0
      <4>1. u \notin keys /\ onlines[u] = <<>>
        BY <1>2, <2>5 DEF JoinFirst, IInv, MapMatchesThreads
      <4>2. \A d \in Conn : UidOf(d) = u =>
              pc[d] # "kick" /\ pc[d] \notin Registered
        BY <4>1 DEF IInv, KickHoldsMutex, MapMatchesThreads
      <4>3. QED
        BY <4>2 DEF Speaker, Alone
    <3>3. Speaker(u)' = 1
      <4>1. /\ note[c] # "kick" /\ note' = note
            /\ at = Nobody /\ at' = at /\ c # Nobody
        BY <1>2, <2>1, PresenceAssumption
        DEF KickEnds, JoinFirst, MuFree, lockVars, Bystanders, HandHeld,
            Broadcasting
      <4>2. recv'[c] = <<"img">> \/ recv'[c] = <<>>
        BY <1>0, <1>2 DEF JoinFirst, Register, TypeOK
      <4>3. ~Contains(recv'[c], "kick")
        BY <4>2 DEF Contains
      <4>4. Alone(c)'
        BY <2>1, <4>1, <4>3 DEF Alone, KickPending, Registered
      <4>5. QED
        BY <1>a, <2>5, <4>4 DEF Speaker
    <3>4. IsFiniteSet(A') /\ Cardinality(A') = Cardinality(A) + 1
      BY <1>0, <3>1, FS_AddElement
    <3>5. QED
      BY <1>0, <2>1, <2>2, <3>2, <3>3, <3>4
  <2>6. QED
    BY <2>4, <2>5
<1>3. ASSUME NEW c \in Conn, Announce(c) \/ Farewell(c) PROVE Fine'
  <2>1. \A d \in Conn \ {c} : pc'[d] = pc[d]
    BY <1>0, <1>3 DEF Announce, Farewell, Goto, TypeOK
  <2>2. pc'[c] \notin {"announce", "farewell"}
    BY <1>0, <1>3 DEF Announce, Farewell, Goto, TypeOK
  <2>3. \A d \in Conn : ~Leave(d)
    BY <1>0, <1>3, <2>2 DEF Leave, Announce, Farewell, Goto, TypeOK
  <2>4. CASE UidOf(c) # u
    <3>1. A' = A /\ F' = F
      BY <1>a, <2>1, <2>4 DEF Announces, Farewells
    <3>2. balance'[u] = balance[u]
      BY <1>0, <1>3, <2>4 DEF Announce, Farewell, TypeOK
    <3>3. QED
      BY <1>0, <1>b, <2>3, <3>1, <3>2
  <2>5. CASE UidOf(c) = u /\ Announce(c)
    <3>1. A' = A \ {c} /\ c \in A /\ F' = F
      BY <1>a, <2>1, <2>2, <2>5 DEF Announces, Farewells, Announce
    <3>2. balance'[u] = balance[u] + 1
      BY <1>0, <2>5 DEF Announce, TypeOK
    <3>3. IsFiniteSet(A') /\ Cardinality(A') = Cardinality(A) - 1
      BY <1>0, <3>1, FS_RemoveElement
    <3>4. QED
      BY <1>0, <1>b, <2>3, <3>1, <3>2, <3>3
  <2>6. CASE UidOf(c) = u /\ Farewell(c)
    <3>1. F' = F \ {c} /\ c \in F /\ A' = A
      BY <1>a, <2>1, <2>2, <2>6 DEF Announces, Farewells, Farewell
    <3>2. balance'[u] = balance[u] - 1
      BY <1>0, <2>6 DEF Farewell, TypeOK
    <3>3. IsFiniteSet(F') /\ Cardinality(F') = Cardinality(F) - 1
      BY <1>0, <3>1, FS_RemoveElement
    <3>4. QED
      BY <1>0, <1>b, <2>3, <3>1, <3>2, <3>3
  <2>7. QED
    BY <1>3, <2>4, <2>5, <2>6
<1>4. ASSUME NEW c \in Conn, Leave(c) PROVE Fine'
  <2>1. /\ pc[c] = "leave" /\ balance' = balance
        /\ \A d \in Conn \ {c} : pc'[d] = pc[d]
        /\ pc'[c] = IF note[c] = "kick" THEN "refreshOut" ELSE "farewell"
    BY <1>0, <1>4 DEF Leave, LeavesSilently, Goto, TypeOK
  <2>2. A' = A
    BY <1>a, <2>1 DEF Announces
  <2>3. ASSUME NEW d \in Conn, d # c PROVE ~Leave(d)
    BY <1>0, <1>4, <2>1, <2>3 DEF Leave, LeavesSilently, Goto, TypeOK
  <2>4. CASE UidOf(c) = u /\ note[c] # "kick"
    <3>1. F' = F \cup {c} /\ c \notin F
      BY <1>a, <2>1, <2>4 DEF Farewells
    <3>2. IsFiniteSet(F') /\ Cardinality(F') = Cardinality(F) + 1
      BY <1>0, <3>1, FS_AddElement
    <3>3. QED
      BY <1>0, <2>1, <2>2, <3>2
  <2>5. CASE UidOf(c) # u \/ note[c] = "kick"
    <3>1. F' = F
      BY <1>a, <2>1, <2>5 DEF Farewells
    <3>2. \A d \in Conn : UidOf(d) = u /\ Alone(d) => ~Leave(d)
      BY <2>1, <2>3, <2>5 DEF Alone
    <3>3. Speaker(u) <= Speaker(u)'
      BY <3>2, SpeakerStays
    <3>4. QED
      BY <1>0, <2>1, <2>2, <3>1, <3>3
  <2>6. QED
    BY <2>4, <2>5
<1>5. QED
  BY <1>1, <1>2, <1>3, <1>4, NoticeChanges

(* When a nickname has no window left, no window of it kicks or waits to   *)
(* post: what remains of its join notices are leave notices on their way.  *)
LEMMA NobodyLeft == IInv /\ Owed => NoSilentExit
<1> SUFFICES ASSUME IInv, Owed, NEW u \in Uid, u \notin keys
             PROVE  balance[u] <= Cardinality(Farewells(u))
  BY DEF NoSilentExit, Farewells
<1>1. onlines[u] = <<>> /\ balance[u] \in Int
  BY DEF IInv, MapMatchesThreads, TypeOK
<1>2. \A d \in Conn : UidOf(d) = u =>
        pc[d] # "kick" /\ pc[d] \notin Registered
  BY <1>1 DEF IInv, KickHoldsMutex, MapMatchesThreads
<1>3. Speaker(u) = 0
  BY <1>2 DEF Speaker, Alone
<1>4. Cardinality(Announces(u)) \in Nat /\ Cardinality(Farewells(u)) \in Nat
  BY FS_CardinalityType DEF Owed
<1>5. QED
  BY <1>1, <1>3, <1>4 DEF Owed

(* However the kicks, the time-outs and the broken connections of the      *)
(* windows of a nickname meet, the last of them says goodbye.              *)
THEOREM ExitCorrect == Spec => []NoSilentExit
<1> DEFINE Inv == KickEnds /\ Bystanders /\ Owed
<1>1. Init => Inv
  BY TakeoversInit, BystandersInit, OwedInit DEF Takeovers
<1>2. IInv /\ Inv /\ [Next]_vars => Inv'
  BY KickEndsStep, BystandersStep, OwedStep DEF IInv
<1>3. IInv /\ Inv => NoSilentExit
  BY NobodyLeft
<1>4. QED
  BY <1>1, <1>2, <1>3, Invariance, PTL DEF Spec

-------------------------------------------------------------------------------
(* Room.  The takeovers that have kicked a window are those that found it  *)
(* and have gone past it.  A queue, with what a Refresh has in its hand    *)
(* and the timer has to send, holds a picture, one kick of each of them    *)
(* and the expirations of its timer.                                       *)
Kickers(w) == {c \in rivals[w] : /\ pc[c] # "idle"
                                 /\ pc[c] = "kick" => w \notin todo}
PictureIn(s) == IF NoPicture(s) THEN 0 ELSE 1
InHand(w) == IF at = w /\ cast \in Control THEN 1 ELSE 0

Fits(w) == Len(recv[w]) + InHand(w) + firing[w]
             <= PictureIn(recv[w]) + Cardinality(Kickers(w)) + fires[w]

(* A window that is still to be kicked has been found by who kicks.        *)
Rivalry == \A w \in Conn :
             /\ IsFiniteSet(rivals[w])
             /\ \A c \in Conn : pc[c] = "kick" /\ w \in todo => c \in rivals[w]

RoomKept == Rivalry /\ \A w \in Conn : Fits(w)

LEMMA PictureNote ==
  ASSUME NEW s \in Seq(Note)
  PROVE  /\ \A n \in Note : /\ Append(s, n) \in Seq(Note)
                           /\ Len(Append(s, n)) = Len(s) + 1
                           /\ PictureIn(s) <= PictureIn(Append(s, n))
         /\ NoPicture(s)
              => PictureIn(s) = 0 /\ PictureIn(Append(s, "img")) = 1
         /\ s # <<>> => /\ Len(Tail(s)) = Len(s) - 1
                        /\ PictureIn(s) - 1 <= PictureIn(Tail(s))
                        /\ Head(s) # "img"
                             => PictureIn(s) <= PictureIn(Tail(s))
<1>1. ASSUME NEW n \in Note
      PROVE  /\ Append(s, n) \in Seq(Note)
             /\ Len(Append(s, n)) = Len(s) + 1
             /\ PictureIn(s) <= PictureIn(Append(s, n))
             /\ n = "img" => PictureIn(Append(s, n)) = 1
  <2> DEFINE a == Append(s, n)
  <2>1. /\ a \in Seq(Note)
        /\ Len(s) \in Nat /\ Len(a) = Len(s) + 1 /\ a[Len(s) + 1] = n
        /\ \A i \in 1..Len(s) : a[i] = s[i]
    BY AppendProperties
  <2> HIDE DEF a
  <2>2. Len(s) + 1 \in 1..Len(a) /\ \A i \in 1..Len(s) : i \in 1..Len(a)
    BY <2>1
  <2>3. NoPicture(a) => NoPicture(s) /\ n # "img"
    BY <2>1, <2>2 DEF NoPicture
  <2>4. QED
    BY <2>1, <2>3 DEF a, PictureIn
<1>2. ASSUME s # <<>>
      PROVE  /\ Len(Tail(s)) = Len(s) - 1
             /\ PictureIn(s) - 1 <= PictureIn(Tail(s))
             /\ Head(s) # "img" => PictureIn(s) <= PictureIn(Tail(s))
  <2> DEFINE t == Tail(s)
  <2>1. /\ Len(s) \in Nat /\ Len(s) > 0 /\ Len(t) = Len(s) - 1
        /\ Head(s) = s[1] /\ \A i \in 1..Len(t) : t[i] = s[i + 1]
    BY <1>2, HeadTailProperties
  <2> HIDE DEF t
  <2>2. ASSUME Head(s) # "img", NoPicture(t) PROVE NoPicture(s)
    <3> SUFFICES ASSUME NEW i \in 1..Len(s) PROVE s[i] # "img"
      BY DEF NoPicture
    <3>1. CASE i = 1
      BY <2>1, <2>2, <3>1
    <3>2. CASE i # 1
      <4>1. i - 1 \in 1..Len(t) /\ (i - 1) + 1 = i
        BY <2>1, <3>2
      <4>2. QED
        BY <2>1, <2>2, <4>1 DEF NoPicture
    <3>3. QED
      BY <3>1, <3>2
  <2>3. PictureIn(s) - 1 <= PictureIn(t)
    BY DEF PictureIn
  <2>4. Head(s) # "img" => PictureIn(s) <= PictureIn(t)
    BY <2>2 DEF PictureIn
  <2>5. QED
    BY <2>1, <2>3, <2>4 DEF t
<1>3. "img" \in Note
  BY DEF Note
<1>4. QED
  BY <1>1, <1>2, <1>3 DEF PictureIn

(* The takeovers that have found a window are forgotten when it leaves.    *)
LEMMA RivalsStay ==
  ASSUME IInv, [Next]_vars, NEW w \in Conn
  PROVE  Leave(w) \/ rivals[w] \subseteq rivals'[w]
<1>0. TypeOK
  BY DEF IInv
<1> USE <1>0 DEF TypeOK, vars
<1>1. ASSUME NEW c \in Conn, Joining(c) PROVE rivals[w] \subseteq rivals'[w]
  BY <1>1 DEF Joining, JoinFirst, JoinRefused, JoinSwitch, Admit, Announce, Kick
<1>2. ASSUME NEW c \in Conn, Streaming(c)
      PROVE  Leave(w) \/ rivals[w] \subseteq rivals'[w]
  BY <1>2 DEF Streaming, Hijack, Receive, Write, Leave, Farewell
<1>3. ASSUME NEW c \in Conn, RefreshThrottled(c) \/ Fire(c) \/ SendTimeout(c)
      PROVE  rivals' = rivals
  BY <1>3 DEF RefreshThrottled, Fire, SendTimeout
<1>4. ASSUME NEW t \in Thread, RefreshLock(t) PROVE rivals' = rivals
  BY <1>4 DEF RefreshLock
<1>5. Broadcast => rivals' = rivals
  BY DEF Broadcast, Visit, DropPicture, TakeControl, PutBack, SeeEmpty, Offer,
         RefreshUnlock
<1>6. ASSUME NEW u \in Uid, Ping(u) PROVE rivals' = rivals
  BY <1>6 DEF Ping
<1>7. QED
  BY <1>1, <1>2, <1>3, <1>4, <1>5, <1>6 DEF Next

(* Who has kicked a window keeps having done so.                           *)
LEMMA KickersGrow ==
  ASSUME IInv, [Next]_vars, NEW w \in Conn, ~Leave(w)
  PROVE  Kickers(w) \subseteq Kickers(w)'
<1> SUFFICES ASSUME NEW c \in rivals[w], pc[c] # "idle",
                    pc[c] = "kick" => w \notin todo
             PROVE  pc'[c] # "idle" /\ (pc'[c] = "kick" => w \notin todo')
  BY RivalsStay DEF Kickers
<1>0. TypeOK /\ c \in Conn
  BY DEF IInv, TypeOK
<1>1. pc'[c] # "idle"
  <2> USE <1>0 DEF TypeOK, Goto, vars
  <2>1. ASSUME NEW d \in Conn, Joining(d) PROVE pc'[c] # "idle"
    BY <2>1 DEF Joining, JoinFirst, JoinRefused, JoinSwitch, Admit, Announce,
                Kick
  <2>2. ASSUME NEW d \in Conn, Streaming(d) PROVE pc'[c] # "idle"
    BY <2>2 DEF Streaming, Hijack, Receive, Write, Leave, Farewell
  <2>3. ASSUME NEW d \in Conn,
               RefreshThrottled(d) \/ Fire(d) \/ SendTimeout(d)
        PROVE  pc'[c] # "idle"
    BY <2>3 DEF RefreshThrottled, AfterRefresh, Fire, SendTimeout
  <2>4. ASSUME NEW t \in Thread, RefreshLock(t) PROVE pc'[c] # "idle"
    BY <2>4 DEF RefreshLock
  <2>5. CASE Broadcast
    BY <2>5 DEF Broadcast, Visit, DropPicture, TakeControl, PutBack, SeeEmpty,
                Offer, RefreshUnlock, AfterRefresh
  <2>6. ASSUME NEW u \in Uid, Ping(u) PROVE pc'[c] # "idle"
    BY <2>6 DEF Ping
  <2>7. CASE UNCHANGED vars
    BY <2>7
  <2>8. QED
    BY <2>1, <2>2, <2>3, <2>4, <2>5, <2>6, <2>7 DEF Next
<1>2. ASSUME pc'[c] = "kick" PROVE w \notin todo'
  <2>1. pc[c] = "kick"
    BY <1>0, <1>2, KickingIsExclusive DEF JoinSwitch
  <2>2. QED
    BY <1>0, <1>2, <2>1, LoopShrinks
<1>3. QED
  BY <1>1, <1>2

LEMMA KickersCounted ==
  ASSUME IInv, [Next]_vars, NEW w \in Conn,
         IsFiniteSet(rivals[w]), IsFiniteSet(rivals'[w])
  PROVE  /\ Cardinality(Kickers(w)) \in Nat
         /\ Cardinality(Kickers(w)') \in Nat
         /\ ~Leave(w) => Cardinality(Kickers(w)) <= Cardinality(Kickers(w)')
         /\ ~Leave(w) => \A c \in Kickers(w)' \ Kickers(w) :
              Cardinality(Kickers(w)) + 1 <= Cardinality(Kickers(w)')
<1> DEFINE K == Kickers(w)
           L == Kickers(w)'
<1>1. K \subseteq rivals[w] /\ L \subseteq rivals'[w]
  BY DEF Kickers
<1>2. IsFiniteSet(K) /\ IsFiniteSet(L)
  BY <1>1, FS_Subset
<1>3. ~Leave(w) => K \subseteq L
  BY KickersGrow
<1> HIDE DEF K, L
<1>4. Cardinality(K) \in Nat /\ Cardinality(L) \in Nat
  BY <1>2, FS_CardinalityType
<1>5. ~Leave(w) => Cardinality(K) <= Cardinality(L)
  BY <1>2, <1>3, FS_Subset
<1>6. ASSUME ~Leave(w), NEW c \in L \ K
      PROVE  Cardinality(K) + 1 <= Cardinality(L)
  <2>1. IsFiniteSet(K \cup {c}) /\ Cardinality(K \cup {c}) = Cardinality(K) + 1
    BY <1>2, FS_AddElement
  <2>2. K \cup {c} \in SUBSET L
    BY <1>3, <1>6
  <2>3. QED
    BY <1>2, <2>1, <2>2, FS_Subset
<1>7. QED
  BY <1>4, <1>5, <1>6 DEF K, L

LEMMA RivalryStep == IInv /\ Rivalry /\ [Next]_vars => Rivalry'
<1> SUFFICES ASSUME IInv, Rivalry, [Next]_vars, NEW w \in Conn
             PROVE  /\ IsFiniteSet(rivals'[w])
                    /\ \A c \in Conn : pc'[c] = "kick" /\ w \in todo'
                                         => c \in rivals'[w]
  BY DEF Rivalry
<1>0. TypeOK /\ IsFiniteSet(rivals[w])
  BY DEF IInv, Rivalry
<1>1. IsFiniteSet(rivals'[w])
  <2> USE <1>0 DEF TypeOK, vars
  <2>1. ASSUME NEW c \in Conn, JoinSwitch(c) PROVE IsFiniteSet(rivals'[w])
    <3>1. rivals'[w] \in {rivals[w], rivals[w] \cup {c}}
      BY <2>1 DEF JoinSwitch
    <3>2. IsFiniteSet(rivals[w] \cup {c})
      BY FS_AddElement
    <3>3. QED
      BY <3>1, <3>2
  <2>2. ASSUME NEW c \in Conn, Leave(c) PROVE IsFiniteSet(rivals'[w])
    <3>1. rivals'[w] \in {rivals[w], {}}
      BY <2>2 DEF Leave
    <3>2. QED
      BY <3>1, FS_EmptySet
  <2>3. ASSUME NEW c \in Conn, Joining(c) \/ Streaming(c)
        PROVE  JoinSwitch(c) \/ Leave(c) \/ rivals' = rivals
    BY <2>3 DEF Joining, JoinFirst, JoinRefused, Admit, Announce, Kick,
                Streaming, Hijack, Receive, Write, Farewell
  <2>4. ASSUME NEW c \in Conn, RefreshThrottled(c) \/ Fire(c) \/ SendTimeout(c)
        PROVE  rivals' = rivals
    BY <2>4 DEF RefreshThrottled, Fire, SendTimeout
  <2>5. ASSUME NEW t \in Thread, RefreshLock(t) PROVE rivals' = rivals
    BY <2>5 DEF RefreshLock
  <2>6. Broadcast => rivals' = rivals
    BY DEF Broadcast, Visit, DropPicture, TakeControl, PutBack, SeeEmpty,
           Offer, RefreshUnlock
  <2>7. ASSUME NEW u \in Uid, Ping(u) PROVE rivals' = rivals
    BY <2>7 DEF Ping
  <2>8. QED
    BY <2>1, <2>2, <2>3, <2>4, <2>5, <2>6, <2>7 DEF Next
<1>2. ASSUME NEW c \in Conn, pc'[c] = "kick", w \in todo'
      PROVE  c \in rivals'[w]
  <2>1. CASE JoinSwitch(c)
    BY <1>0, <1>2, <2>1 DEF JoinSwitch, TypeOK
  <2>2. CASE pc[c] = "kick"
    <3>1. c \in rivals[w]
      BY <1>2, <2>2, LoopShrinks DEF Rivalry
    <3>2. ~Leave(w)
      BY <2>2, PresenceAssumption DEF Leave, MuFree, IInv, KickHoldsMutex
    <3>3. QED
      BY <3>1, <3>2, RivalsStay
  <2>3. QED
    BY <1>2, <2>1, <2>2, KickingIsExclusive
<1>3. QED
  BY <1>1, <1>2

LEMMA RoomInit == Init => RoomKept
<1> SUFFICES ASSUME Init PROVE RoomKept
  OBVIOUS
<1>1. Rivalry
  BY FS_EmptySet DEF Init, Rivalry
<1> SUFFICES ASSUME NEW w \in Conn PROVE Fits(w)
  BY <1>1 DEF RoomKept
<1>2. Kickers(w) = {} /\ InHand(w) = 0 /\ recv[w] = <<>>
      /\ firing[w] = 0 /\ fires[w] = 0
  BY PresenceAssumption DEF Init, Kickers, InHand
<1>3. QED
  BY <1>2, FS_EmptySet DEF Fits, PictureIn

LEMMA RoomLeave ==
  ASSUME IInv, Bystanders, RoomKept, NEW w \in Conn, Leave(w)
  PROVE  Fits(w)'
<1>0. TypeOK /\ IsFiniteSet(Kickers(w)')
  <2>1. TypeOK
    BY DEF IInv
  <2>2. rivals'[w] = {}
    BY <2>1 DEF Leave, TypeOK
  <2>3. Kickers(w)' = {}
    BY <2>2 DEF Kickers
  <2>4. QED
    BY <2>1, <2>3, FS_EmptySet
<1>1. recv'[w] = <<>> /\ firing'[w] = 0 /\ fires'[w] \in Nat
  BY <1>0 DEF Leave, TypeOK
<1>2. at' = Nobody /\ w # Nobody
  BY PresenceAssumption
  DEF Leave, lockVars, MuFree, Bystanders, HandHeld, Broadcasting
<1>3. InHand(w)' = 0 /\ Len(recv'[w]) = 0 /\ PictureIn(recv[w])' \in 0..1
  BY <1>1, <1>2 DEF InHand, PictureIn
<1>4. Cardinality(Kickers(w)') \in Nat
  BY <1>0, FS_CardinalityType
<1>5. QED
  BY <1>1, <1>3, <1>4 DEF Fits

LEMMA RoomStep ==
  ASSUME IInv, Bystanders, OfferIsAlone, RoomKept, [Next]_vars,
         NEW w \in Conn, ~Leave(w)
  PROVE  Fits(w)'
<1> DEFINE L == Len(recv[w])
           P == PictureIn(recv[w])
           H == InHand(w)
           K == Cardinality(Kickers(w))
<1>0. /\ TypeOK /\ HandHeld /\ \A c \in Conn : recv[c] \in Seq(Note)
      /\ MuFree => at = Nobody
  BY PresenceAssumption
  DEF IInv, TypeOK, Bystanders, HandHeld, Broadcasting, MuFree
<1>r. IsFiniteSet(rivals[w]) /\ IsFiniteSet(rivals'[w])
  BY RivalryStep DEF RoomKept, Rivalry
<1>a. K \in Nat /\ K' \in Nat /\ K <= K'
  BY <1>r, KickersCounted
<1>k. \A c \in Kickers(w)' \ Kickers(w) : K + 1 <= K'
  BY <1>r, KickersCounted
<1>b. /\ L \in Nat /\ P \in 0..1 /\ H \in 0..1
      /\ firing[w] \in Nat /\ fires[w] \in Nat
  BY <1>0 DEF PictureIn, InHand, TypeOK
<1>c. /\ L' \in Nat /\ P' \in 0..1 /\ H' \in 0..1
      /\ firing'[w] \in Nat /\ fires'[w] \in Nat
  <2>1. TypeOK'
    BY TypeStep
  <2>2. QED
    BY <2>1 DEF PictureIn, InHand, TypeOK
<1>d. L + H + firing[w] <= P + K + fires[w]
  BY DEF RoomKept, Fits
<1>f. ASSUME at' = at, cast' = cast PROVE H' = H
  BY <1>f DEF InHand
<1>g. ASSUME recv'[w] = recv[w] PROVE L' = L /\ P' = P
  BY <1>g DEF PictureIn, NoPicture
<1>h. ASSUME NEW n \in Note, recv'[w] = Append(recv[w], n)
      PROVE  L' = L + 1 /\ P <= P'
  <2>1. Len(recv'[w]) = Len(recv[w]) + 1
        /\ PictureIn(recv[w]) <= PictureIn(recv'[w])
    BY <1>0, <1>h, PictureNote
  <2>2. QED
    BY <2>1 DEF PictureIn, NoPicture
<1>i. ASSUME recv[w] # <<>>, recv'[w] = Tail(recv[w])
      PROVE  /\ L' = L - 1 /\ P - 1 <= P'
             /\ Head(recv[w]) # "img" => P <= P'
  <2>1. /\ Len(recv'[w]) = Len(recv[w]) - 1
        /\ PictureIn(recv[w]) - 1 <= PictureIn(recv'[w])
        /\ Head(recv[w]) # "img" => PictureIn(recv[w]) <= PictureIn(recv'[w])
    BY <1>0, <1>i, PictureNote
  <2>2. QED
    BY <2>1 DEF PictureIn, NoPicture
<1>l. (L' + H' + firing'[w] <= P' + K' + fires'[w]) <=> Fits(w)'
  BY DEF Fits
<1> HIDE DEF L, P, H, K
(* A queue that starts, or ends, with nothing to come fits.                *)
<1>m. ASSUME L' <= P', H' = 0, firing'[w] = 0 PROVE Fits(w)'
  <2> DEFINE k == K'
             r == fires'[w]
             l == L'
             p == P'
             h == H'
             f == firing'[w]
  <2>1. /\ k \in Nat /\ r \in Nat /\ l \in Nat /\ p \in Nat
        /\ l <= p /\ h = 0 /\ f = 0
    BY <1>a, <1>c, <1>m
  <2>2. (l + h + f <= p + k + r) <=> Fits(w)'
    BY <1>l
  <2> HIDE DEF k, r, l, p, h, f
  <2>3. l + h + f <= p + k + r
    BY <2>1
  <2>4. QED
    BY <2>2, <2>3
(* The step leaves the queue and the hand at least as well covered.        *)
<1>e. ASSUME L' + H' + firing'[w] + P + fires[w]
               <= L + H + firing[w] + P' + fires'[w]
      PROVE  Fits(w)'
  <2>1. L' + H' + firing'[w] <= P' + K' + fires'[w]
    BY <1>a, <1>b, <1>c, <1>d, <1>e
  <2>2. QED
    BY <1>l, <2>1
<1>j. ASSUME UNCHANGED <<recv, at, cast, firing, fires>> PROVE Fits(w)'
  BY <1>b, <1>e, <1>f, <1>g, <1>j
<1> USE DEF Goto, TypeOK, lockVars, vars
<1>1. ASSUME NEW c \in Conn, Joining(c) PROVE Fits(w)'
  <2>1. CASE JoinFirst(c) \/ Admit(c)
    <3>1. /\ Register(c) /\ UNCHANGED <<at, cast, firing, fires>>
          /\ pc[c] \notin Registered
      BY <2>1 DEF JoinFirst, Admit, Registered
    <3>2. CASE c # w
      <4>1. recv'[w] = recv[w]
        BY <1>0, <3>1, <3>2 DEF Register
      <4>2. QED
        BY <1>b, <1>e, <1>f, <1>g, <3>1, <4>1
    <3>3. CASE c = w
      <4>1. at = Nobody /\ w # Nobody
        BY <1>0, <2>1, PresenceAssumption
        DEF JoinFirst, Admit, IInv, KickHoldsMutex, HandHeld, Broadcasting,
            Refreshing
      <4>2. H' = 0 /\ firing'[w] = 0
        BY <3>1, <3>3, <4>1 DEF H, InHand, Bystanders, Quiet
      <4>3. L' <= P'
        <5>1. recv'[w] = <<"img">> \/ recv'[w] = <<>>
          BY <1>0, <3>1, <3>3 DEF Register
        <5>2. /\ Len(<<>>) = 0 /\ PictureIn(<<>>) \in 0..1
              /\ Len(<<"img">>) = 1 /\ PictureIn(<<"img">>) = 1
          BY DEF NoPicture, PictureIn
        <5>3. Len(recv'[w]) <= PictureIn(recv'[w])
          <6>1. CASE recv'[w] = <<"img">>
            BY <5>2, <6>1
          <6>2. CASE recv'[w] = <<>>
            BY <5>2, <6>2
          <6>3. QED
            BY <5>1, <6>1, <6>2
        <5>4. QED
          BY <5>3 DEF L, P, PictureIn, NoPicture
      <4>4. QED
        BY <1>m, <4>2, <4>3
    <3>4. QED
      BY <3>2, <3>3
  <2>2. CASE JoinRefused(c) \/ JoinSwitch(c) \/ Announce(c)
    BY <1>j, <2>2 DEF JoinRefused, JoinSwitch, Announce
  <2>3. ASSUME NEW v \in Conn, Kick(c, v) PROVE Fits(w)'
    <3>1. UNCHANGED <<at, cast, firing, fires, rivals>>
      BY <2>3 DEF Kick
    <3>2. CASE v # w
      <4>1. recv'[w] = recv[w]
        BY <1>0, <2>3, <3>2 DEF Kick, Put
      <4>2. QED
        BY <1>b, <1>e, <1>f, <1>g, <3>1, <4>1
    <3>3. CASE v = w
      <4>1. /\ pc[c] = "kick" /\ pc'[c] = "kick"
            /\ w \in todo /\ w \notin todo'
        BY <2>3, <3>3 DEF Kick, Foremost
      <4>2. c \in Kickers(w)' \ Kickers(w)
        BY <3>1, <4>1 DEF Kickers, RoomKept, Rivalry
      <4>3. K + 1 <= K'
        BY <1>k, <4>2
      <4>4. L' = L + 1 /\ P <= P'
        <5>1. "kick" \in Note /\ recv'[w] = Append(recv[w], "kick")
          BY <1>0, <2>3, <3>3 DEF Kick, Put, Note, Control
        <5>2. QED
          BY <1>h, <5>1
      <4>5. H' = H
        BY <1>f, <3>1
      <4>6. L' + H' + firing'[w] <= P' + K' + fires'[w]
        BY <1>a, <1>b, <1>c, <1>d, <3>1, <4>3, <4>4, <4>5
      <4>7. QED
        BY <1>l, <4>6
    <3>4. QED
      BY <3>2, <3>3
  <2>4. QED
    BY <1>1, <2>1, <2>2, <2>3 DEF Joining
<1>2. ASSUME NEW c \in Conn, Streaming(c) PROVE Fits(w)'
  <2>1. CASE Hijack(c) \/ Write(c) \/ Farewell(c)
    BY <1>j, <2>1 DEF Hijack, Write, Farewell
  <2>2. CASE Receive(c)
    <3>1. H' = H /\ UNCHANGED <<firing, fires>>
      BY <1>f, <2>2 DEF Receive
    <3>2. CASE c # w
      <4>1. recv'[w] = recv[w]
        BY <1>0, <2>2, <3>2 DEF Receive
      <4>2. QED
        BY <1>b, <1>e, <1>g, <3>1, <4>1
    <3>3. CASE c = w
      <4>1. recv[w] # <<>> /\ recv'[w] = Tail(recv[w])
        BY <1>0, <2>2, <3>3 DEF Receive
      <4>2. L' = L - 1 /\ P - 1 <= P'
        BY <1>i, <4>1
      <4>3. QED
        BY <1>b, <1>c, <1>e, <3>1, <4>2
    <3>4. QED
      BY <3>2, <3>3
  <2>3. CASE Leave(c)
    <3>1. UNCHANGED <<at, cast, fires>>
      BY <2>3 DEF Leave
    <3>2. CASE c # w
      <4>1. recv'[w] = recv[w] /\ firing'[w] = firing[w]
        BY <1>0, <2>3, <3>2 DEF Leave
      <4>2. QED
        BY <1>b, <1>e, <1>f, <1>g, <3>1, <4>1
    <3>3. QED
      BY <2>3, <3>2
  <2>4. QED
    BY <1>2, <2>1, <2>2, <2>3 DEF Streaming
<1>3. ASSUME NEW c \in Conn, RefreshThrottled(c) PROVE Fits(w)'
  BY <1>j, <1>3 DEF RefreshThrottled
<1>4. ASSUME NEW c \in Conn, Fire(c) PROVE Fits(w)'
  <2>1. /\ recv' = recv /\ UNCHANGED <<at, cast>>
        /\ firing'[w] - firing[w] = fires'[w] - fires[w]
    BY <1>0, <1>b, <1>4 DEF Fire
  <2>2. L' = L /\ P' = P /\ H' = H
    BY <1>f, <1>g, <2>1
  <2>3. QED
    BY <1>b, <1>c, <1>e, <2>1, <2>2
<1>5. ASSUME NEW c \in Conn, SendTimeout(c) PROVE Fits(w)'
  <2>1. UNCHANGED <<at, cast, fires>>
    BY <1>5 DEF SendTimeout
  <2>2. CASE c # w
    <3>1. recv'[w] = recv[w] /\ firing'[w] = firing[w]
      BY <1>0, <1>5, <2>2 DEF SendTimeout, Put
    <3>2. QED
      BY <1>b, <1>e, <1>f, <1>g, <2>1, <3>1
  <2>3. CASE c = w
    <3>1. recv'[w] = Append(recv[w], "time") /\ "time" \in Note
          /\ firing'[w] = firing[w] - 1
      BY <1>0, <1>5, <2>3 DEF SendTimeout, Put, Note, Control
    <3>2. L' = L + 1 /\ P <= P' /\ H' = H
      BY <1>f, <1>h, <2>1, <3>1
    <3>3. QED
      BY <1>b, <1>c, <1>e, <2>1, <3>1, <3>2, SMTT(30)
  <2>4. QED
    BY <2>2, <2>3
<1>6. ASSUME NEW t \in Thread, RefreshLock(t) PROVE Fits(w)'
  BY <1>j, <1>6 DEF RefreshLock
<1>7. CASE Broadcast
  <2>1. ASSUME NEW v \in Conn, Visit(v) PROVE Fits(w)'
    <3>1. H = 0 /\ H' = 0
      BY <1>0, <2>1 DEF Visit, HandHeld, H, InHand, Control
    <3>2. recv' = recv /\ UNCHANGED <<firing, fires>>
      BY <2>1 DEF Visit
    <3>3. QED
      BY <1>b, <1>e, <1>g, <3>1, <3>2
  <2>2. CASE DropPicture
    <3>1. UNCHANGED <<at, cast, firing, fires>> /\ at \in Conn
      BY <1>0, <2>2 DEF DropPicture
    <3>2. CASE at # w
      <4>1. recv'[w] = recv[w]
        BY <1>0, <2>2, <3>2 DEF DropPicture
      <4>2. QED
        BY <1>b, <1>e, <1>f, <1>g, <3>1, <4>1
    <3>3. CASE at = w
      <4>1. recv[w] # <<>> /\ recv'[w] = Tail(recv[w])
        BY <1>0, <2>2, <3>3 DEF DropPicture
      <4>2. L' = L - 1 /\ P - 1 <= P' /\ H' = H
        BY <1>f, <1>i, <3>1, <4>1
      <4>3. QED
        BY <1>b, <1>c, <1>e, <3>1, <4>2
    <3>4. QED
      BY <3>2, <3>3
  <2>3. CASE TakeControl
    <3>1. UNCHANGED <<at, firing, fires>> /\ at \in Conn
      BY <1>0, <2>3 DEF TakeControl
    <3>2. CASE at # w
      <4>1. recv'[w] = recv[w]
        BY <1>0, <2>3, <3>2 DEF TakeControl
      <4>2. H = 0 /\ H' = 0
        BY <3>1, <3>2 DEF H, InHand
      <4>3. QED
        BY <1>b, <1>e, <1>g, <3>1, <4>1, <4>2
    <3>3. CASE at = w
      <4>1. /\ recv[w] # <<>> /\ recv'[w] = Tail(recv[w])
            /\ Head(recv[w]) # "img"
        BY <1>0, <2>3, <3>3 DEF TakeControl, Keeps, Control
      <4>2. L' = L - 1 /\ P <= P'
        BY <1>i, <4>1
      <4>3. H = 0
        BY <2>3 DEF TakeControl, H, InHand, Control
      <4>4. QED
        BY <1>b, <1>c, <1>e, <3>1, <4>2, <4>3
    <3>4. QED
      BY <3>2, <3>3
  <2>4. CASE PutBack
    <3>1. /\ UNCHANGED <<firing, fires>> /\ at \in Conn /\ cast \in Note
          /\ cast \in Control /\ cast' = "poll"
      BY <1>0, <2>4 DEF PutBack, Note
    <3>2. H' = 0
      BY <3>1 DEF H, InHand, Control
    <3>3. CASE at # w
      <4>1. recv'[w] = recv[w] /\ H = 0
        BY <1>0, <2>4, <3>3 DEF PutBack, Put, H, InHand
      <4>2. QED
        BY <1>b, <1>e, <1>g, <3>1, <3>2, <4>1
    <3>4. CASE at = w
      <4>1. recv'[w] = Append(recv[w], cast) /\ H = 1
        BY <1>0, <2>4, <3>1, <3>4 DEF PutBack, Put, H, InHand
      <4>2. L' = L + 1 /\ P <= P'
        BY <1>h, <3>1, <4>1
      <4>3. QED
        BY <1>b, <1>c, <1>e, <3>1, <3>2, <4>1, <4>2
    <3>5. QED
      BY <3>3, <3>4
  <2>5. CASE SeeEmpty
    <3>1. H = 0 /\ H' = 0
      BY <2>5 DEF SeeEmpty, H, InHand, Control
    <3>2. recv' = recv /\ UNCHANGED <<firing, fires>>
      BY <2>5 DEF SeeEmpty
    <3>3. QED
      BY <1>b, <1>e, <1>g, <3>1, <3>2
  <2>6. CASE Offer
    <3>1. /\ UNCHANGED <<firing, fires>> /\ at \in Conn
          /\ NoPicture(recv[at])
      BY <1>0, <2>6 DEF Offer, OfferIsAlone
    <3>2. H = 0 /\ H' = 0
      BY <2>6 DEF Offer, H, InHand, Control
    <3>3. CASE recv'[w] = recv[w]
      BY <1>b, <1>e, <1>g, <3>1, <3>2, <3>3
    <3>4. CASE recv'[w] # recv[w]
      <4>1. at = w /\ recv'[w] = Append(recv[w], "img") /\ "img" \in Note
        BY <1>0, <2>6, <3>1, <3>4 DEF Offer, Put, Note
      <4>2. L' = L + 1
        BY <1>h, <4>1
      <4>3. PictureIn(recv[w]) = 0 /\ PictureIn(recv'[w]) = 1
        BY <1>0, <3>1, <4>1, PictureNote
      <4>4. P = 0 /\ P' = 1
        BY <4>3 DEF P, PictureIn, NoPicture
      <4>5. QED
        BY <1>b, <1>c, <1>e, <3>1, <3>2, <4>2, <4>4
    <3>5. QED
      BY <3>3, <3>4
  <2>7. CASE RefreshUnlock
    BY <1>j, <2>7 DEF RefreshUnlock
  <2>8. QED
    BY <1>7, <2>1, <2>2, <2>3, <2>4, <2>5, <2>6, <2>7 DEF Broadcast
<1>8. ASSUME NEW u \in Uid, Ping(u) PROVE Fits(w)'
  BY <1>j, <1>8 DEF Ping
<1>9. CASE UNCHANGED vars
  BY <1>j, <1>9
<1>10. QED
  BY <1>1, <1>2, <1>3, <1>4, <1>5, <1>6, <1>7, <1>8, <1>9 DEF Next

(* A window that is still to be kicked has not had the kick of the window  *)
(* that kicks; what a Refresh holds in its hand is not in the queue.       *)
LEMMA CrowdsWait ==
  ASSUME IInv, Bystanders, RoomKept PROVE WaitsOnlyInCrowds
<1> SUFFICES ASSUME NEW w \in Conn, Awaited(w)
             PROVE  Cap <= Cardinality(rivals[w]) + fires[w]
  BY DEF WaitsOnlyInCrowds
<1> DEFINE l == Len(recv[w])
           p == PictureIn(recv[w])
           k == Cardinality(Kickers(w))
           n == Cardinality(rivals[w])
           h == InHand(w)
<1>0. TypeOK /\ Cap \in Nat /\ IsFiniteSet(rivals[w])
  BY PresenceAssumption DEF IInv, RoomKept, Rivalry
<1>1. Kickers(w) \subseteq rivals[w]
  BY DEF Kickers
<1>2. IsFiniteSet(Kickers(w)) /\ k <= n
  BY <1>0, <1>1, FS_Subset
<1>3. /\ k \in Nat /\ n \in Nat /\ l \in Nat /\ p \in 0..1 /\ h \in 0..1
      /\ firing[w] \in Nat /\ fires[w] \in Nat
  BY <1>0, <1>2, FS_CardinalityType DEF TypeOK, PictureIn, InHand
<1>4. l + h + firing[w] <= p + k + fires[w]
  BY DEF RoomKept, Fits
<1>5. l >= Cap
  BY <1>0, <1>3 DEF Awaited, HasRoom
<1> HIDE DEF l, p, k, n, h
<1>6. CASE w \in todo /\ \E c \in Conn : pc[c] = "kick"
  <2>1. PICK c \in Conn : pc[c] = "kick"
    BY <1>6
  <2>2. c \in rivals[w] /\ c \notin Kickers(w)
    BY <1>6, <2>1 DEF RoomKept, Rivalry, Kickers
  <2>3. k + 1 <= n
    <3>1. /\ IsFiniteSet(Kickers(w) \cup {c})
          /\ Cardinality(Kickers(w) \cup {c}) = k + 1
      BY <1>2, <2>2, FS_AddElement DEF k
    <3>2. Kickers(w) \cup {c} \in SUBSET rivals[w]
      BY <1>1, <2>2
    <3>3. QED
      BY <1>0, <3>1, <3>2, FS_Subset DEF n
  <2>4. Cap <= n + fires[w]
    BY <1>0, <1>3, <1>4, <1>5, <2>3
  <2>5. QED
    BY <2>4 DEF n
<1>7. CASE w = at /\ cast \in Control
  <2>1. h = 1
    BY <1>7 DEF h, InHand
  <2>2. Cap <= n + fires[w]
    BY <1>0, <1>2, <1>3, <1>4, <1>5, <2>1
  <2>3. QED
    BY <2>2 DEF n
<1>8. QED
  BY <1>6, <1>7 DEF Awaited

(* Neither the kick loop of Join nor the broadcast of Refresh waits for a  *)
(* window while it holds ch.mu, unless as many takeovers and expirations   *)
(* have come to that window as its queue has places: ten in the code.      *)
THEOREM CrowdCorrect == Spec => []WaitsOnlyInCrowds
<1> DEFINE Inv == Bystanders /\ Pictures /\ RoomKept
<1>1. Init => Inv
  BY BystandersInit, PicturesInit, RoomInit
<1>2. IInv /\ Inv /\ [Next]_vars => Inv'
  <2> SUFFICES ASSUME IInv, Inv, [Next]_vars PROVE Inv'
    OBVIOUS
  <2>1. Bystanders' /\ Pictures'
    BY BystandersStep, PicturesStep
  <2>2. Rivalry'
    BY RivalryStep DEF RoomKept
  <2>3. \A w \in Conn : Fits(w)'
    BY RoomStep, RoomLeave DEF Pictures
  <2>4. QED
    BY <2>1, <2>2, <2>3 DEF RoomKept
<1>3. IInv /\ Inv => WaitsOnlyInCrowds
  BY CrowdsWait
<1>4. QED
  BY <1>1, <1>2, <1>3, Invariance, PTL DEF Spec
===============================================================================
