----------------------------- MODULE HistoryProofs -----------------------------
(***************************************************************************)
(* Proofs about History, for any number of senders, any limit and any      *)
(* range of numbers: what is on the screen is in order, the store has the  *)
(* newest of the accepted messages, however late they are committed, and   *)
(* neither grows beyond the limit.                                         *)
(***************************************************************************)
EXTENDS History, FiniteSetTheorems, SequenceTheorems, TLAPS

USE HistoryAssumption

(* Each sender's message is accepted at most once, under its ID.  The      *)
(* sequence of the bucket counts the accepted messages.                    *)
Stored ==
  /\ IsFiniteSet(done) /\ seq = Cardinality(done)
  /\ bucket \subseteq done
  /\ \A e \in done : stage[e.msg] = "ok" /\ e.id = id[e.msg]
  /\ \A p \in Sender : stage[p] = "ok" => [id |-> id[p], msg |-> p] \in done

Bounded ==
  /\ Len(data) <= Limit
  /\ Cardinality(bucket) <= Limit /\ Cardinality(bucket) <= seq

Given(p) == stage[p] \in {"commit", "ok"}

(* As long as the IDs rise, the last one is the highest, and no two        *)
(* messages share one.                                                     *)
Ordered ==
  rising =>
    /\ \A i \in 1..Len(data) : data[i].id <= lastId
    /\ \A p \in Sender : Given(p) => id[p] <= lastId
    /\ \A p, q \in Sender : Given(p) /\ Given(q) /\ p # q => id[p] # id[q]

(* The bucket has as many entries as it may, and those left out are older. *)
Top ==
  rising =>
    /\ Cardinality(bucket) = IF seq < Limit THEN seq ELSE Limit
    /\ \A b \in bucket : \A d \in done \ bucket : d.id < b.id

(* An entry on the screen is its sender's.                                 *)
OnScreen ==
  \A i \in 1..Len(data) :
    data[i].msg # Notice =>
      /\ data[i].id = id[data[i].msg]
      /\ stage[data[i].msg] \in {"commit", "ok", "error", "lost"}

(* No message is from second 0, which would be no stamp.                   *)
Stamped ==
  \A p \in Sender :
    stage[p] = "commit" => id[p] >= Ctrs /\ (~old[p] => active > 0)

IInv ==
  /\ HistoryTypeOK /\ Stored /\ Bounded /\ Ordered /\ InOrder /\ Top /\ OnScreen
  /\ SortedOnce /\ Stamped

-------------------------------------------------------------------------------
(* Lemmas about the operators.                                             *)

(* An ID belongs to a second from 1 on.                                    *)
LEMMA IdBounds ==
  ASSUME NEW t \in 1..MaxNow, NEW c \in 0..(Ctrs - 1)
  PROVE  IdOf(t, c) \in Id /\ IdOf(t, c) >= Ctrs
<1>1. t * Ctrs \in Nat /\ t * Ctrs >= Ctrs
  BY SMT
<1>2. t * Ctrs <= MaxNow * Ctrs
  BY SMT
<1>3. (MaxNow + 1) * Ctrs = MaxNow * Ctrs + Ctrs /\ MaxNow * Ctrs \in Nat
  BY SMT
<1> QED
  BY <1>1, <1>2, <1>3 DEF IdOf, Id

LEMMA NextCtrType ==
  ASSUME idctr \in 0..(Ctrs - 1)
  PROVE  NextCtr \in 0..(Ctrs - 1)
BY DEF NextCtr

LEMMA SecondType ==
  ASSUME NEW i \in Nat, i >= Ctrs
  PROVE  SecondOf(i) \in Nat /\ SecondOf(i) >= 1
BY SMT DEF SecondOf

(* r is s with e behind it, without the first k entries.                   *)
Moved(r, s, e, k) ==
  /\ Len(r) = Len(s) + 1 - k
  /\ \A i \in 1..Len(r) : r[i] = IF i + k <= Len(s) THEN s[i + k] ELSE e

(* Keep drops nothing, or the oldest entry of one too many.                *)
LEMMA KeepFits ==
  ASSUME NEW s \in Seq(Entry), Len(s) <= Limit, NEW e \in Entry,
         NEW r, r = Keep(Append(s, e))
  PROVE  /\ r \in Seq(Entry) /\ Len(r) <= Limit
         /\ Moved(r, s, e, 0) \/ Moved(r, s, e, 1)
<1> DEFINE a == Append(s, e)
<1>1. a \in Seq(Entry) /\ Len(a) = Len(s) + 1
        /\ \A i \in 1..Len(a) : a[i] = IF i <= Len(s) THEN s[i] ELSE e
  OBVIOUS
<1>2. CASE Len(a) <= Limit
  BY <1>1, <1>2 DEF Keep, Moved
<1>3. CASE Len(a) > Limit
  <2>1. r = Tail(a)
    BY <1>3 DEF Keep
  <2> HIDE DEF a
  <2>2. r \in Seq(Entry) /\ Len(r) = Len(a) - 1
          /\ \A i \in 1..Len(r) : r[i] = a[i + 1]
    BY <1>1, <2>1, HeadTailProperties, TailIsSubSeq, SubSeqProperties
  <2>3. Len(r) = Len(s) + 1 - 1 /\ Len(r) <= Limit
    BY <1>1, <2>2
  <2>4. \A i \in 1..Len(r) : r[i] = IF i + 1 <= Len(s) THEN s[i + 1] ELSE e
    BY <1>1, <2>2
  <2> QED
    BY <2>2, <2>3, <2>4 DEF Moved
<1> QED
  BY <1>1, <1>2, <1>3

ByKey(S) == \A e, f \in S : e.id = f.id => e = f

(* A finite set of entries with a key each can be put in order: an entry's *)
(* place is the number of entries up to it.                                *)
LEMMA KeyOrder ==
  ASSUME NEW S, IsFiniteSet(S), \A e \in S : e.id \in Nat, ByKey(S)
  PROVE  /\ InKeyOrder(S) \in [1..Cardinality(S) -> S]
         /\ \A i, j \in 1..Cardinality(S) :
              i < j => InKeyOrder(S)[i].id < InKeyOrder(S)[j].id
<1> DEFINE n == Cardinality(S)
           upTo(e) == {f \in S : f.id <= e.id}
           place == [e \in S |-> Cardinality(upTo(e))]
<1>1. n \in Nat
  BY FS_CardinalityType
<1>2. \A e \in S : IsFiniteSet(upTo(e)) /\ Cardinality(upTo(e)) \in 1..n
  <2> TAKE e \in S
  <2>1. upTo(e) \in SUBSET S /\ upTo(e) # {}
    OBVIOUS
  <2>2. IsFiniteSet(upTo(e)) /\ Cardinality(upTo(e)) <= n
    BY <2>1, FS_Subset
  <2>3. Cardinality(upTo(e)) \in Nat /\ Cardinality(upTo(e)) # 0
    BY <2>1, <2>2, FS_CardinalityType, FS_EmptySet
  <2> QED
    BY <1>1, <2>2, <2>3
<1>3. \A e, f \in S : e.id < f.id => place[e] < place[f]
  <2> TAKE e, f \in S
  <2> HAVE e.id < f.id
  <2>1. upTo(e) \in SUBSET upTo(f) /\ f \in upTo(f) /\ f \notin upTo(e)
    OBVIOUS
  <2>2. Cardinality(upTo(e)) <= Cardinality(upTo(f))
          /\ Cardinality(upTo(e)) # Cardinality(upTo(f))
    BY <1>2, <2>1, FS_Subset
  <2> HIDE DEF upTo, n
  <2>3. Cardinality(upTo(e)) \in Nat /\ Cardinality(upTo(f)) \in Nat
    BY <1>1, <1>2
  <2>4. place[e] = Cardinality(upTo(e)) /\ place[f] = Cardinality(upTo(f))
    OBVIOUS
  <2> HIDE DEF place
  <2> QED
    BY <2>2, <2>3, <2>4
<1>4. place \in Injection(S, 1..n)
  <2>1. place \in [S -> 1..n]
    BY <1>2
  <2>2. \A e, f \in S : place[e] = place[f] => e = f
    <3> TAKE e, f \in S
    <3> HAVE place[e] = place[f]
    <3>1. place[e] \in Int
      BY <1>1, <2>1
    <3> HIDE DEF place
    <3>2. ~(e.id < f.id) /\ ~(f.id < e.id)
      BY <1>3, <3>1
    <3> QED
      BY <3>2 DEF ByKey
  <2> QED
    BY <2>1, <2>2 DEF Injection, IsInjective
<1>5. place \in Surjection(S, 1..n)
  <2>1. IsFiniteSet(1..n) /\ Cardinality(1..n) = n
    BY <1>1, FS_Interval
  <2> QED
    BY <1>4, <2>1, FS_Injection
<1>6. \A i \in 1..n : \E e \in S : place[e] = i
  BY <1>5 DEF Surjection
<1> DEFINE s == [i \in 1..n |-> CHOOSE e \in S : place[e] = i]
<1>7. s \in [1..n -> S] /\ \A i \in 1..n : place[s[i]] = i
  BY <1>6
<1>8. \A i, j \in 1..n : i < j => s[i].id < s[j].id
  <2> TAKE i, j \in 1..n
  <2> HAVE i < j
  <2>1. s[i] \in S /\ s[j] \in S /\ place[s[i]] = i /\ place[s[j]] = j
    BY <1>7
  <2> HIDE DEF s, place
  <2>2. ~(s[j].id < s[i].id) /\ s[i] # s[j]
    BY <1>3, <2>1
  <2> QED
    BY <2>1, <2>2 DEF ByKey
<1>9. \E t \in [1..n -> S] : \A i, j \in DOMAIN t : i < j => t[i].id < t[j].id
  <2>1. DOMAIN s = 1..n
    OBVIOUS
  <2> HIDE DEF s
  <2> QED
    BY <1>7, <1>8, <2>1
<1> HIDE DEF n
<1> QED
  BY <1>9 DEF InKeyOrder, n

(* The entry with the lowest ID.                                           *)
LEMMA OldestIsOne ==
  ASSUME NEW S, IsFiniteSet(S), \A e \in S : e.id \in Nat, ByKey(S), S # {}
  PROVE  Oldest(S) \in S /\ \A f \in S : Oldest(S).id <= f.id
<1> DEFINE n == Cardinality(S)
           s == InKeyOrder(S)
           upTo == {e \in S : e.id <= s[1].id}
<1>1. n \in Nat /\ n # 0
  BY FS_CardinalityType, FS_EmptySet
<1>2. s \in [1..n -> S] /\ \A i, j \in 1..n : i < j => s[i].id < s[j].id
  BY KeyOrder
<1>3. s \in Injection(1..n, S)
  <2> HIDE DEF s, n
  <2>1. \A i, j \in 1..n : i # j => s[i].id # s[j].id
    <3> TAKE i, j \in 1..n
    <3>1. s[i].id \in Nat /\ s[j].id \in Nat
      BY <1>2
    <3> QED
      BY <1>1, <1>2, <3>1
  <2> QED
    BY <1>2, <2>1 DEF Injection, IsInjective
<1>4. s \in Surjection(1..n, S)
  <2>1. IsFiniteSet(1..n) /\ Cardinality(1..n) = n
    BY <1>1, FS_Interval
  <2> QED
    BY <1>3, <2>1, FS_Injection
<1>5. \A f \in S : s[1].id <= f.id
  <2> TAKE f \in S
  <2>1. PICK i \in 1..n : s[i] = f
    BY <1>4 DEF Surjection
  <2>2. s[1].id \in Nat /\ f.id \in Nat
    BY <1>1, <1>2
  <2> HIDE DEF s, n
  <2> QED
    BY <1>1, <1>2, <2>1, <2>2
<1>6. s[1] \in S
  BY <1>1, <1>2
<1> HIDE DEF s
<1> QED
  BY <1>5, <1>6 DEF Oldest

-------------------------------------------------------------------------------
(* The invariant is inductive.                                             *)

LEMMA InitIInv == HistoryInit => IInv
<1> SUFFICES ASSUME HistoryInit PROVE IInv
  OBVIOUS
<1> USE DEF HistoryInit
<1>1. data \in Seq(Entry) /\ Len(data) = 0
  OBVIOUS
<1>2. HistoryTypeOK
  <2>1. old \in [Sender -> BOOLEAN] /\ rising \in BOOLEAN
    BY Zenon
  <2>2. 0 \in Id
    BY IdBounds DEF Id
  <2> QED
    BY <1>1, <2>1, <2>2 DEF HistoryTypeOK, Open
<1>3. Stored /\ Bounded
  BY <1>1, FS_EmptySet DEF Stored, Bounded
<1>4. Ordered /\ InOrder /\ OnScreen /\ Stamped
  BY <1>1 DEF Ordered, InOrder, OnScreen, Stamped, Given
<1>5. Top
  BY FS_EmptySet DEF Top
<1>6. SortedOnce
  BY FS_EmptySet DEF SortedOnce
<1> QED
  BY <1>2, <1>3, <1>4, <1>5, <1>6 DEF IInv

(* Steps that touch neither memory nor store.                              *)
LEMMA StepQuiet ==
  ASSUME IInv, UNCHANGED <<memVars, id, old, storeVars, loads, pastVars>>,
         \/ now' = now
         \/ Tick,
         \/ stage' = stage
         \/ \E p \in Sender : Find(p) \/ Fail(p)
  PROVE  IInv'
<1> USE DEF memVars, storeVars, pastVars
<1>1. now' \in 1..MaxNow
  BY DEF IInv, HistoryTypeOK, Tick
<1>2. stage' \in [Sender -> Open \cup {"ok", "error", "lost"}]
  BY DEF IInv, HistoryTypeOK, Find, Fail, Open
<1>3. \A p \in Sender : /\ stage'[p] = "ok" <=> stage[p] = "ok"
                        /\ stage'[p] = "commit" => stage[p] = "commit"
                        /\ stage[p] \in {"commit", "ok", "error", "lost"}
                             => stage'[p] \in {"commit", "ok", "error", "lost"}
  BY DEF IInv, HistoryTypeOK, Find, Fail
<1>4. HistoryTypeOK'
  BY <1>1, <1>2 DEF IInv, HistoryTypeOK
<1>5. Stored'
  BY <1>3 DEF IInv, HistoryTypeOK, Stored
<1>6. Bounded' /\ Top' /\ InOrder' /\ SortedOnce'
  BY DEF IInv, Bounded, Top, InOrder, SortedOnce
<1>7. Ordered'
  BY <1>3 DEF IInv, Ordered, Given
<1>8. OnScreen'
  <2>1. data \in Seq(Entry)
    BY DEF IInv, HistoryTypeOK
  <2>2. \A i \in 1..Len(data) : data[i].msg \in Sender \cup {Notice}
    <3>1. \A i \in 1..Len(data) : data[i] \in Entry
      BY <2>1, ElementOfSeq
    <3> QED
      BY <3>1 DEF Entry
  <2> QED
    BY <1>3, <2>2 DEF IInv, OnScreen
<1>9. Stamped'
  BY <1>3 DEF IInv, Stamped
<1> QED
  BY <1>4, <1>5, <1>6, <1>7, <1>8, <1>9 DEF IInv

(* What Append does under ch.mu.                                           *)
LEMMA Remembered ==
  ASSUME IInv, NEW m \in Sender \cup {Notice}, Remember(m)
  PROVE  /\ active' = now /\ idctr' \in 0..(Ctrs - 1)
         /\ lastId' \in Id /\ lastId' >= Ctrs
         /\ rising' \in BOOLEAN
         /\ rising' => rising /\ lastId' > lastId
         /\ data' \in Seq(Entry) /\ Len(data') <= Limit
         /\ \A i \in 1..Len(data') :
              \/ data'[i] = [id |-> lastId', msg |-> m]
              \/ \E j \in 1..Len(data) : data'[i] = data[j]
         /\ InOrder'
<1> DEFINE e == [id |-> IdOf(now, NextCtr), msg |-> m]
<1>1. NextCtr \in 0..(Ctrs - 1)
  BY NextCtrType DEF IInv, HistoryTypeOK
<1>2. IdOf(now, NextCtr) \in Id /\ IdOf(now, NextCtr) >= Ctrs
  BY <1>1, IdBounds DEF IInv, HistoryTypeOK
<1>3. /\ active' = now /\ idctr' = NextCtr /\ lastId' = IdOf(now, NextCtr)
      /\ rising' = (rising /\ lastId' > lastId)
      /\ data' = Keep(Append(data, e))
  BY DEF Remember, Number
<1>4. e \in Entry /\ e.id = lastId'
  BY <1>2, <1>3 DEF Entry
<1>5. rising' \in BOOLEAN /\ (rising' => rising /\ lastId' > lastId)
  <2>1. rising \in BOOLEAN
    BY DEF IInv, HistoryTypeOK
  <2> QED
    BY <1>3, <2>1, Zenon
<1>6. data \in Seq(Entry) /\ Len(data) <= Limit
  BY DEF IInv, HistoryTypeOK, Bounded
<1> HIDE DEF e
<1>7. data' \in Seq(Entry) /\ Len(data') <= Limit
  BY <1>3, <1>4, <1>6, KeepFits
<1>8. PICK k \in 0..1 : Moved(data', data, e, k)
  BY <1>3, <1>4, <1>6, KeepFits
<1>9. Len(data) \in Nat /\ Len(data') \in Nat
  BY <1>6, <1>7
<1>10. \A i \in 1..Len(data') :
         data'[i] = e \/ \E j \in 1..Len(data) : data'[i] = data[j]
  BY <1>8, <1>9 DEF Moved
<1>11. InOrder'
  <2> SUFFICES ASSUME rising', NEW i \in 1..Len(data'), NEW j \in 1..Len(data'),
                      i < j
               PROVE  data'[i].id < data'[j].id
    BY DEF InOrder
  <2>1. \A n \in 1..Len(data) : data[n].id \in Nat
    <3>1. \A n \in 1..Len(data) : data[n] \in Entry
      BY <1>6, ElementOfSeq
    <3> QED
      BY <3>1 DEF Entry, Id
  <2>2. /\ \A n \in 1..Len(data) : data[n].id <= lastId
        /\ \A a, b \in 1..Len(data) : a < b => data[a].id < data[b].id
        /\ lastId \in Nat
    <3>1. rising
      BY <1>5
    <3>2. \A n \in 1..Len(data) : data[n].id <= lastId
      BY <3>1 DEF IInv, Ordered
    <3>3. \A a, b \in 1..Len(data) : a < b => data[a].id < data[b].id
      BY <3>1 DEF IInv, InOrder
    <3>4. lastId \in Nat
      BY DEF IInv, HistoryTypeOK, Id
    <3> QED
      BY <3>2, <3>3, <3>4
  <2>3. i + k \in 1..Len(data) /\ data'[i] = data[i + k]
    <3>1. Len(data') = Len(data) + 1 - k
      BY <1>8 DEF Moved
    <3>2. i + k \in 1..Len(data)
      BY <1>9, <3>1
    <3>3. data'[i] = IF i + k <= Len(data) THEN data[i + k] ELSE e
      BY <1>8 DEF Moved
    <3> QED
      BY <3>2, <3>3
  <2>4. CASE j + k <= Len(data)
    <3>1. j + k \in 1..Len(data) /\ data'[j] = data[j + k]
      BY <1>8, <1>9, <2>4 DEF Moved
    <3> QED
      BY <2>2, <2>3, <3>1
  <2>5. CASE ~(j + k <= Len(data))
    <3>1. data'[j] = e /\ lastId' \in Nat
      BY <1>2, <1>3, <1>8, <2>5 DEF Id, Moved
    <3> QED
      BY <1>4, <1>5, <2>1, <2>2, <2>3, <3>1
  <2> QED
    BY <2>4, <2>5
<1> QED
  BY <1>1, <1>2, <1>3, <1>4, <1>5, <1>7, <1>10, <1>11 DEF e

(* An entry that was on the screen has an ID.                              *)
LEMMA ScreenIds ==
  ASSUME IInv
  PROVE  /\ Len(data) \in Nat
         /\ \A i \in 1..Len(data) : /\ data[i].id \in Nat
                                    /\ data[i].msg \in Sender \cup {Notice}
<1>1. data \in Seq(Entry)
  BY DEF IInv, HistoryTypeOK
<1>2. \A i \in 1..Len(data) : data[i] \in Entry
  BY <1>1, ElementOfSeq
<1> QED
  BY <1>1, <1>2 DEF Entry, Id

(* A sender that has got the next ID.                                      *)
LEMMA Numbered ==
  ASSUME IInv, NEW p \in Sender, stage[p] = "append",
         stage' = [stage EXCEPT ![p] = "commit"], id' = [id EXCEPT ![p] = lastId'],
         lastId' \in Id, rising' => rising /\ lastId' > lastId,
         UNCHANGED <<bucket, seq, done>>
  PROVE  /\ stage' \in [Sender -> Open \cup {"ok", "error", "lost"}]
         /\ id' \in [Sender -> Id]
         /\ Stored'
         /\ rising' =>
              /\ \A q \in Sender : Given(q)' => id'[q] <= lastId'
              /\ \A q, r \in Sender :
                   Given(q)' /\ Given(r)' /\ q # r => id'[q] # id'[r]
<1>1. stage \in [Sender -> Open \cup {"ok", "error", "lost"}] /\ id \in [Sender -> Id]
        /\ done \subseteq [id : Id, msg : Sender] /\ lastId \in Id
  BY DEF IInv, HistoryTypeOK
<1>2. stage' \in [Sender -> Open \cup {"ok", "error", "lost"}] /\ id' \in [Sender -> Id]
  BY <1>1 DEF Open
<1>3. /\ \A q \in Sender : q # p => stage'[q] = stage[q] /\ id'[q] = id[q]
      /\ stage'[p] = "commit" /\ id'[p] = lastId'
  BY <1>1
<1>4. Stored'
  <2>1. \A e \in done : e.msg \in Sender /\ e.msg # p
    BY <1>1 DEF IInv, Stored
  <2> QED
    BY <1>3, <2>1 DEF IInv, Stored
<1>5. ASSUME rising'
      PROVE  /\ \A q \in Sender : Given(q)' => id'[q] <= lastId'
             /\ \A q, r \in Sender :
                  Given(q)' /\ Given(r)' /\ q # r => id'[q] # id'[r]
  <2>1. rising /\ lastId' > lastId
    BY <1>5
  <2>2. /\ \A q \in Sender : Given(q) => id[q] <= lastId
        /\ \A q, r \in Sender : Given(q) /\ Given(r) /\ q # r => id[q] # id[r]
    BY <2>1 DEF IInv, Ordered
  <2>3. \A q \in Sender : q # p => (Given(q)' <=> Given(q))
    BY <1>3 DEF Given
  <2>4. \A q \in Sender : id[q] \in Nat /\ lastId \in Nat /\ lastId' \in Nat
    BY <1>1 DEF Id
  <2> QED
    BY <1>3, <2>1, <2>2, <2>3, <2>4
<1> QED
  BY <1>2, <1>4, <1>5

(* What stays as it is when the store does.                                *)
LEMMA StoreKept ==
  ASSUME IInv, UNCHANGED <<storeVars, done>>, rising' => rising
  PROVE  Top' /\ SortedOnce' /\ Cardinality(bucket') <= Limit
           /\ Cardinality(bucket') <= seq'
BY DEF IInv, Bounded, Top, SortedOnce, storeVars

LEMMA StepNotice == IInv /\ AppendNotice => IInv'
<1> SUFFICES ASSUME IInv, AppendNotice PROVE IInv'
  OBVIOUS
<1> USE DEF AppendNotice, procVars, storeVars
<1>1. Remember(Notice)
  OBVIOUS
<1>2. /\ active' = now /\ idctr' \in 0..(Ctrs - 1)
      /\ lastId' \in Id /\ lastId' >= Ctrs /\ rising' \in BOOLEAN
      /\ rising' => rising /\ lastId' > lastId
      /\ data' \in Seq(Entry) /\ Len(data') <= Limit
      /\ InOrder'
  BY <1>1, Remembered
<1>3. \A i \in 1..Len(data') :
        \/ data'[i] = [id |-> lastId', msg |-> Notice]
        \/ \E j \in 1..Len(data) : data'[i] = data[j]
  BY <1>1, Remembered
<1>4. HistoryTypeOK'
  BY <1>2 DEF IInv, HistoryTypeOK
<1>5. Stored'
  BY DEF IInv, Stored
<1>6. Top' /\ SortedOnce' /\ Bounded'
  BY <1>2, StoreKept DEF Bounded
<1>7. Ordered'
  <2> SUFFICES ASSUME rising'
               PROVE  /\ \A i \in 1..Len(data') : data'[i].id <= lastId'
                      /\ \A p \in Sender : Given(p)' => id'[p] <= lastId'
                      /\ \A p, q \in Sender :
                           Given(p)' /\ Given(q)' /\ p # q => id'[p] # id'[q]
    BY DEF Ordered
  <2>1. /\ \A i \in 1..Len(data) : data[i].id <= lastId
        /\ \A p \in Sender : Given(p) => id[p] <= lastId
        /\ \A p, q \in Sender : Given(p) /\ Given(q) /\ p # q => id[p] # id[q]
    BY <1>2 DEF IInv, Ordered
  <2>2. lastId \in Nat /\ lastId' \in Nat /\ lastId' > lastId
          /\ \A p \in Sender : id[p] \in Nat
    BY <1>2 DEF IInv, HistoryTypeOK, Id
  <2>3. \A i \in 1..Len(data') : data'[i].id <= lastId'
    BY <1>3, <2>1, <2>2, ScreenIds, SMTT(30)
  <2> QED
    BY <2>1, <2>2, <2>3 DEF Given
<1>8. OnScreen'
  BY <1>3 DEF IInv, OnScreen
<1>9. Stamped'
  BY <1>2 DEF IInv, HistoryTypeOK, Stamped
<1> QED
  BY <1>2, <1>4, <1>5, <1>6, <1>7, <1>8, <1>9 DEF IInv

LEMMA StepText ==
  ASSUME NEW p \in Sender
  PROVE  IInv /\ AppendText(p) => IInv'
<1> SUFFICES ASSUME IInv, AppendText(p) PROVE IInv'
  OBVIOUS
<1> USE DEF AppendText, storeVars
<1>1. Remember(p)
  OBVIOUS
<1>2. /\ active' = now /\ idctr' \in 0..(Ctrs - 1)
      /\ lastId' \in Id /\ lastId' >= Ctrs /\ rising' \in BOOLEAN
      /\ rising' => rising /\ lastId' > lastId
      /\ data' \in Seq(Entry) /\ Len(data') <= Limit
      /\ InOrder'
  BY <1>1, Remembered
<1>3. \A i \in 1..Len(data') :
        \/ data'[i] = [id |-> lastId', msg |-> p]
        \/ \E j \in 1..Len(data) : data'[i] = data[j]
  BY <1>1, Remembered
<1>4. /\ stage' \in [Sender -> Open \cup {"ok", "error", "lost"}]
      /\ id' \in [Sender -> Id]
      /\ Stored'
      /\ rising' =>
           /\ \A q \in Sender : Given(q)' => id'[q] <= lastId'
           /\ \A q, r \in Sender :
                Given(q)' /\ Given(r)' /\ q # r => id'[q] # id'[r]
  BY <1>2, Numbered
<1>5. /\ \A q \in Sender : q # p => stage'[q] = stage[q] /\ id'[q] = id[q]
      /\ stage[p] = "append" /\ stage'[p] = "commit" /\ id'[p] = lastId'
  BY DEF IInv, HistoryTypeOK
<1>6. HistoryTypeOK'
  BY <1>2, <1>4 DEF IInv, HistoryTypeOK
<1>7. Top' /\ SortedOnce' /\ Bounded'
  BY <1>2, StoreKept DEF Bounded
<1>8. Ordered'
  <2>1. ASSUME rising' PROVE \A i \in 1..Len(data') : data'[i].id <= lastId'
    <3>1. \A i \in 1..Len(data) : data[i].id <= lastId
      BY <1>2, <2>1 DEF IInv, Ordered
    <3>2. lastId \in Nat /\ lastId' \in Nat /\ lastId' > lastId
      BY <1>2, <2>1 DEF IInv, HistoryTypeOK, Id
    <3> QED
      BY <1>3, <3>1, <3>2, ScreenIds
  <2> QED
    BY <1>4, <2>1 DEF Ordered
<1>9. OnScreen'
  <2>1. \A i \in 1..Len(data) : data[i].msg # Notice =>
          /\ data[i].msg # p
          /\ data[i].id = id'[data[i].msg]
          /\ stage'[data[i].msg] \in {"commit", "ok", "error", "lost"}
    BY <1>5, ScreenIds DEF IInv, OnScreen
  <2> QED
    BY <1>3, <1>5, <2>1 DEF OnScreen
<1>10. Stamped'
  BY <1>2, <1>5 DEF IInv, HistoryTypeOK, Stamped
<1> QED
  BY <1>2, <1>4, <1>6, <1>7, <1>8, <1>9, <1>10 DEF IInv

LEMMA StepOld ==
  ASSUME NEW p \in Sender
  PROVE  IInv /\ AppendOld(p) => IInv'
<1> SUFFICES ASSUME IInv, AppendOld(p) PROVE IInv'
  OBVIOUS
<1> USE DEF AppendOld, storeVars, memVars
<1>1. PICK c \in 0..(Ctrs - 1) : Number(IdOf(now, c))
  OBVIOUS
<1>2. lastId' \in Id /\ lastId' >= Ctrs
  BY <1>1, IdBounds DEF IInv, HistoryTypeOK, Number
<1>3. rising' \in BOOLEAN /\ (rising' => rising /\ lastId' > lastId)
  <2>1. rising \in BOOLEAN /\ rising' = (rising /\ lastId' > lastId)
    BY <1>1 DEF IInv, HistoryTypeOK, Number
  <2> QED
    BY <2>1, Zenon
<1>4. /\ stage' \in [Sender -> Open \cup {"ok", "error", "lost"}]
      /\ id' \in [Sender -> Id]
      /\ Stored'
      /\ rising' =>
           /\ \A q \in Sender : Given(q)' => id'[q] <= lastId'
           /\ \A q, r \in Sender :
                Given(q)' /\ Given(r)' /\ q # r => id'[q] # id'[r]
  BY <1>2, <1>3, Numbered
<1>5. /\ \A q \in Sender : q # p => stage'[q] = stage[q] /\ id'[q] = id[q]
      /\ stage[p] = "append" /\ stage'[p] = "commit" /\ id'[p] = lastId' /\ old[p]
  BY DEF IInv, HistoryTypeOK
<1>6. HistoryTypeOK'
  BY <1>2, <1>3, <1>4 DEF IInv, HistoryTypeOK
<1>7. Top' /\ SortedOnce' /\ Bounded'
  BY <1>3, StoreKept DEF IInv, Bounded
<1>8. Ordered' /\ InOrder'
  <2>1. ASSUME rising' PROVE \A i \in 1..Len(data') : data'[i].id <= lastId'
    <3>1. \A i \in 1..Len(data) : data[i].id <= lastId
      BY <1>3, <2>1 DEF IInv, Ordered
    <3>2. lastId \in Nat /\ lastId' \in Nat /\ lastId' > lastId
      BY <1>2, <1>3, <2>1 DEF IInv, HistoryTypeOK, Id
    <3> QED
      BY <3>1, <3>2, ScreenIds
  <2>2. Ordered'
    BY <1>4, <2>1 DEF Ordered
  <2> QED
    BY <1>3, <2>2 DEF IInv, InOrder
<1>9. OnScreen'
  BY <1>5, ScreenIds DEF IInv, OnScreen
<1>10. Stamped'
  BY <1>2, <1>5 DEF IInv, Stamped
<1> QED
  BY <1>4, <1>6, <1>7, <1>8, <1>9, <1>10 DEF IInv

-------------------------------------------------------------------------------
(* The transaction.                                                        *)

(* The bucket with an entry put in place of the one that had its key.      *)
LEMMA PutFits ==
  ASSUME IInv, NEW p \in Sender, stage[p] = "commit",
         NEW e, e = [id |-> id[p], msg |-> p],
         NEW B, B = Put(bucket, e)
  PROVE  /\ e \notin done /\ e \in [id : Id, msg : Sender]
         /\ IsFiniteSet(bucket) /\ IsFiniteSet(B)
         /\ B \subseteq done \cup {e} /\ e \in B
         /\ B \subseteq [id : Id, msg : Sender]
         /\ \A f \in B : f.id \in Nat
         /\ ByKey(B)
         /\ Cardinality(bucket) \in Nat
         /\ Cardinality(B) \in 1..(Cardinality(bucket) + 1)
         /\ rising => B = bucket \cup {e}
                        /\ Cardinality(B) = Cardinality(bucket) + 1
<1>1. /\ bucket \subseteq [id : Id, msg : Sender]
      /\ done \subseteq [id : Id, msg : Sender]
      /\ id \in [Sender -> Id] /\ ByKey(bucket)
  BY DEF IInv, HistoryTypeOK, ByKey
<1>2. e \notin done /\ e \in [id : Id, msg : Sender] /\ e.id = id[p]
  BY <1>1 DEF IInv, Stored
<1>3. IsFiniteSet(bucket) /\ Cardinality(bucket) \in Nat
  BY FS_Subset, FS_CardinalityType DEF IInv, Stored
<1>4. bucket \subseteq done
  BY DEF IInv, Stored
<1>5. B \subseteq bucket \cup {e} /\ e \in B
        /\ \A f \in B : f = e \/ (f \in bucket /\ f.id # e.id)
  BY DEF Put
<1>6. e \notin bucket
  BY <1>2, <1>4
<1>7. IsFiniteSet(bucket \cup {e})
        /\ Cardinality(bucket \cup {e}) = Cardinality(bucket) + 1
  BY <1>3, <1>6, FS_AddElement
<1>8. IsFiniteSet(B) /\ Cardinality(B) <= Cardinality(bucket) + 1
  BY <1>5, <1>7, FS_Subset
<1>9. Cardinality(B) \in Nat /\ Cardinality(B) # 0
  BY <1>5, <1>8, FS_CardinalityType, FS_EmptySet
<1>10. B \subseteq [id : Id, msg : Sender] /\ ByKey(B)
  BY <1>1, <1>2, <1>5 DEF ByKey
<1>11. \A f \in B : f.id \in Nat
  BY <1>10 DEF Id
<1>12. ASSUME rising PROVE B = bucket \cup {e}
  <2>1. \A f \in bucket : f.id # e.id
    <3> TAKE f \in bucket
    <3>1. f.msg \in Sender /\ stage[f.msg] = "ok" /\ f.id = id[f.msg]
      BY <1>1, <1>4 DEF IInv, Stored
    <3>2. f.msg # p
      BY <3>1
    <3> QED
      BY <1>2, <1>12, <3>1, <3>2 DEF IInv, Ordered, Given
  <2> QED
    BY <2>1 DEF Put
<1>13. Cardinality(B) \in 1..(Cardinality(bucket) + 1)
  BY <1>3, <1>8, <1>9
<1>14. B \subseteq done \cup {e} /\ e \in B
  BY <1>4, <1>5
<1>15. rising => B = bucket \cup {e} /\ Cardinality(B) = Cardinality(bucket) + 1
  BY <1>7, <1>12
<1> QED
  BY <1>2, <1>3, <1>8, <1>10, <1>11, <1>13, <1>14, <1>15

(* The bucket after the deletion, if there is one.                         *)
LEMMA TrimFits ==
  ASSUME IInv, NEW p \in Sender, stage[p] = "commit",
         NEW e, e = [id |-> id[p], msg |-> p],
         bucket' = Trimmed(Put(bucket, e), seq + 1),
         done' = done \cup {e}, seq' = seq + 1, rising' = rising
  PROVE  /\ bucket' \subseteq Put(bucket, e)
         /\ IsFiniteSet(done') /\ Cardinality(done') = seq'
         /\ Cardinality(bucket') <= Limit /\ Cardinality(bucket') <= seq'
         /\ Top'
<1> DEFINE B == Put(bucket, e)
           o == Oldest(B)
<1>1. /\ e \notin done
      /\ IsFiniteSet(bucket) /\ IsFiniteSet(B)
      /\ B \subseteq done \cup {e} /\ e \in B
      /\ \A f \in B : f.id \in Nat
      /\ ByKey(B)
      /\ Cardinality(bucket) \in Nat
      /\ Cardinality(B) \in 1..(Cardinality(bucket) + 1)
      /\ rising => B = bucket \cup {e}
                     /\ Cardinality(B) = Cardinality(bucket) + 1
  BY PutFits
<1>2. o \in B /\ \A f \in B : o.id <= f.id
  BY <1>1, OldestIsOne
<1>3. bucket' = IF seq + 1 > Limit THEN B \ {o} ELSE B
  BY DEF Trimmed
<1> HIDE DEF B, o
<1>4. /\ IsFiniteSet(done) /\ seq = Cardinality(done) /\ seq \in Nat
      /\ bucket \subseteq done
      /\ Cardinality(bucket) <= Limit /\ Cardinality(bucket) <= seq
      /\ rising =>
           /\ Cardinality(bucket) = IF seq < Limit THEN seq ELSE Limit
           /\ \A b \in bucket : \A d \in done \ bucket : d.id < b.id
  BY DEF IInv, HistoryTypeOK, Stored, Bounded, Top
<1>5. IsFiniteSet(done') /\ Cardinality(done') = seq'
  BY <1>1, <1>4, FS_AddElement
<1>6. IsFiniteSet(B \ {o}) /\ Cardinality(B \ {o}) = Cardinality(B) - 1
  BY <1>1, <1>2, FS_RemoveElement
<1>7. Cardinality(bucket') <= Limit /\ Cardinality(bucket') <= seq'
  <2>1. CASE seq + 1 > Limit
    <3>1. bucket' = B \ {o}
      BY <1>3, <2>1
    <3>2. Cardinality(bucket') = Cardinality(B) - 1
      BY <1>6, <3>1
    <3> QED
      BY <1>1, <1>4, <3>2
  <2>2. CASE ~(seq + 1 > Limit)
    BY <1>1, <1>3, <1>4, <2>2
  <2> QED
    BY <2>1, <2>2
<1>8. ASSUME rising
      PROVE  /\ Cardinality(bucket') = IF seq' < Limit THEN seq' ELSE Limit
             /\ \A b \in bucket' : \A d \in done' \ bucket' : d.id < b.id
  <2>1. B = bucket \cup {e} /\ Cardinality(B) = Cardinality(bucket) + 1
    BY <1>1, <1>8
  <2>2. CASE seq + 1 > Limit
    <3>1. bucket' = B \ {o} /\ Cardinality(bucket') = Limit
      <4>1. bucket' = B \ {o}
        BY <1>3, <2>2
      <4>2. Cardinality(bucket') = Cardinality(B) - 1
        BY <1>6, <4>1
      <4>3. Cardinality(bucket) = Limit
        BY <1>4, <1>8, <2>2
      <4> QED
        BY <1>1, <2>1, <4>1, <4>2, <4>3
    <3>2. ~(seq' < Limit)
      BY <1>4, <2>2
    <3>3. ASSUME NEW b \in bucket', NEW d \in done' \ bucket'
          PROVE  d.id < b.id
      <4>1. b \in B /\ b # o /\ o.id < b.id /\ o.id \in Nat /\ b.id \in Nat
        BY <1>1, <1>2, <3>1, <3>3 DEF ByKey
      <4>2. CASE d = o
        BY <4>1, <4>2
      <4>3. CASE d # o
        <5>1. d \in done \ bucket
          BY <1>1, <2>1, <3>1, <3>3, <4>3
        <5>2. CASE b \in bucket
          BY <1>4, <1>8, <5>1, <5>2
        <5>3. CASE b \notin bucket
          <6>1. o \in bucket
            BY <1>2, <2>1, <4>1, <5>3
          <6>2. d.id < o.id
            BY <1>4, <1>8, <5>1, <6>1
          <6>3. d.id \in Nat
            BY <5>1 DEF IInv, HistoryTypeOK, Id
          <6> QED
            BY <4>1, <6>2, <6>3
        <5> QED
          BY <5>2, <5>3
      <4> QED
        BY <4>2, <4>3
    <3> QED
      BY <3>1, <3>2, <3>3
  <2>3. CASE ~(seq + 1 > Limit)
    <3>1. Cardinality(bucket) = Cardinality(done)
      BY <1>4, <1>8, <2>3
    <3>2. bucket = done
      BY <1>4, <3>1, FS_Subset
    <3>3. bucket' = done' /\ Cardinality(bucket') = seq'
      BY <1>3, <1>5, <2>1, <2>3, <3>2
    <3>4. Cardinality(bucket') = IF seq' < Limit THEN seq' ELSE Limit
      BY <1>4, <2>3, <3>3
    <3> QED
      BY <3>3, <3>4
  <2> QED
    BY <2>2, <2>3
<1>9. bucket' \subseteq B
  BY <1>3
<1> QED
  BY <1>5, <1>7, <1>8, <1>9 DEF B, Top

LEMMA StepCommit ==
  ASSUME NEW p \in Sender
  PROVE  IInv /\ Commit(p) => IInv'
<1> SUFFICES ASSUME IInv, Commit(p) PROVE IInv'
  OBVIOUS
<1> DEFINE e == [id |-> id[p], msg |-> p]
<1>1. /\ stage[p] = "commit"
      /\ bucket' = Trimmed(Put(bucket, e), seq + 1)
      /\ done' = done \cup {e} /\ seq' = seq + 1
      /\ count' = IF stamp = 0 THEN count + 1 ELSE count
      /\ stage' = [stage EXCEPT ![p] = "ok"]
      /\ UNCHANGED <<now, memVars, id, old, loads, lastId, rising>>
  BY DEF Commit
<1>2. PICK t \in IF old[p] THEN SecondOf(id[p])..now ELSE {active} :
        sorted' = Unsort(sorted) \cup {t} /\ stamp' = t
  BY DEF Commit
<1> USE DEF memVars
<1> HIDE DEF e
<1>3. /\ e \notin done /\ e \in [id : Id, msg : Sender]
      /\ Put(bucket, e) \subseteq done \cup {e}
      /\ Put(bucket, e) \subseteq [id : Id, msg : Sender]
      /\ ByKey(Put(bucket, e))
  BY <1>1, PutFits DEF e
<1>4. /\ bucket' \subseteq Put(bucket, e)
      /\ IsFiniteSet(done') /\ Cardinality(done') = seq'
      /\ Cardinality(bucket') <= Limit /\ Cardinality(bucket') <= seq'
      /\ Top'
  BY <1>1, TrimFits DEF e
<1>5. /\ \A q \in Sender : q # p => stage'[q] = stage[q]
      /\ stage'[p] = "ok" /\ id' = id
      /\ stage' \in [Sender -> Open \cup {"ok", "error", "lost"}]
  BY <1>1 DEF IInv, HistoryTypeOK
<1>6. t \in 1..MaxNow
  <2>1. now \in 1..MaxNow /\ active \in 0..MaxNow /\ id[p] \in Nat
    BY DEF IInv, HistoryTypeOK, Id
  <2>2. id[p] >= Ctrs /\ (~old[p] => active > 0)
    BY <1>1 DEF IInv, Stamped
  <2>3. SecondOf(id[p]) \in Nat /\ SecondOf(id[p]) >= 1
    BY <2>1, <2>2, SecondType
  <2>4. CASE old[p]
    BY <1>2, <2>1, <2>3, <2>4
  <2>5. CASE ~old[p]
    BY <1>2, <2>1, <2>2, <2>5
  <2> QED
    BY <2>4, <2>5
<1>7. SortedOnce'
  <2>1. sorted = {stamp} \ {0} /\ count = Cardinality(sorted)
    BY DEF IInv, SortedOnce
  <2>2. sorted' = {t} /\ stamp' = t /\ t # 0
    BY <1>2, <1>6, <2>1 DEF Unsort
  <2>3. Cardinality({t}) = 1 /\ Cardinality({stamp}) = 1 /\ Cardinality({}) = 0
    BY FS_Singleton, FS_EmptySet
  <2>4. CASE stamp = 0
    <3>1. sorted = {}
      BY <2>1, <2>4
    <3>2. count = 0
      BY <2>1, <2>3, <3>1
    <3>3. count' = 1
      BY <1>1, <2>4, <3>2
    <3>4. sorted' = {stamp'} \ {0} /\ Cardinality(sorted') = 1
      BY <2>2, <2>3
    <3> QED
      BY <3>3, <3>4 DEF SortedOnce
  <2>5. CASE stamp # 0
    <3>1. sorted = {stamp}
      BY <2>1, <2>5
    <3> QED
      BY <1>1, <2>1, <2>2, <2>3, <2>5, <3>1 DEF SortedOnce
  <2> QED
    BY <2>4, <2>5
<1>8. HistoryTypeOK'
  <2>1. \A f, g \in bucket' : f.id = g.id => f = g
    BY <1>3, <1>4 DEF ByKey
  <2>2. /\ bucket' \subseteq [id : Id, msg : Sender]
        /\ done' \subseteq [id : Id, msg : Sender]
    BY <1>1, <1>3, <1>4 DEF IInv, HistoryTypeOK
  <2>3. sorted' \subseteq 1..MaxNow /\ stamp' \in 0..MaxNow
    <3>1. sorted \subseteq 1..MaxNow /\ MaxNow \in Nat
      BY DEF IInv, HistoryTypeOK
    <3>2. sorted' = (sorted \ {stamp}) \cup {t} /\ stamp' = t
      BY <1>2 DEF Unsort
    <3>3. sorted' \subseteq 1..MaxNow
      BY <1>6, <3>1, <3>2, Zenon
    <3>4. stamp' \in 1..MaxNow
      BY <1>6, <3>2, Zenon
    <3> QED
      BY <3>1, <3>3, <3>4
  <2>4. count' \in Nat /\ seq' \in Nat
    BY <1>1 DEF IInv, HistoryTypeOK
  <2> QED
    BY <1>1, <1>5, <2>1, <2>2, <2>3, <2>4 DEF IInv, HistoryTypeOK
<1>9. Stored'
  <2>1. bucket' \subseteq done'
    BY <1>1, <1>3, <1>4
  <2>2. \A f \in done' : stage'[f.msg] = "ok" /\ f.id = id[f.msg]
    <3>1. e.msg = p /\ e.id = id[p]
      BY DEF e
    <3>2. \A f \in done : f.msg \in Sender /\ stage[f.msg] = "ok" /\ f.id = id[f.msg]
      BY DEF IInv, HistoryTypeOK, Stored
    <3> QED
      BY <1>1, <1>5, <3>1, <3>2
  <2>3. \A q \in Sender : stage'[q] = "ok" => [id |-> id[q], msg |-> q] \in done'
    BY <1>1, <1>5 DEF e, IInv, Stored
  <2> QED
    BY <1>4, <1>5, <2>1, <2>2, <2>3 DEF Stored
<1>10. Bounded'
  BY <1>1, <1>4 DEF IInv, Bounded
<1>11. Ordered' /\ InOrder'
  BY <1>1, <1>5 DEF IInv, Ordered, Given, InOrder
<1>12. OnScreen'
  BY <1>1, <1>5, ScreenIds DEF IInv, OnScreen
<1>13. Stamped'
  BY <1>1, <1>5 DEF IInv, Stamped
<1> QED
  BY <1>4, <1>7, <1>8, <1>9, <1>10, <1>11, <1>12, <1>13 DEF IInv

-------------------------------------------------------------------------------
(* What a load reads: the bucket in the order of its keys.                 *)
LEMMA Loaded ==
  ASSUME IInv, Load
  PROVE  /\ loads' \in 0..MaxLoads /\ active' = 0 /\ idctr' \in 0..(Ctrs - 1)
         /\ data' \in Seq(Entry) /\ Len(data') <= Limit
         /\ \A i \in 1..Len(data') : data'[i] \in bucket
         /\ \A i, j \in 1..Len(data') : i < j => data'[i].id < data'[j].id
<1> DEFINE n == Cardinality(bucket)
<1>1. /\ IsFiniteSet(bucket) /\ n \in Nat /\ n <= Limit
      /\ bucket \subseteq [id : Id, msg : Sender] /\ ByKey(bucket)
  BY FS_Subset, FS_CardinalityType DEF IInv, HistoryTypeOK, Stored, Bounded, ByKey
<1>2. \A e \in bucket : e.id \in Nat /\ e \in Entry
  BY <1>1 DEF Id, Entry
<1>3. /\ data' \in [1..n -> bucket]
      /\ \A i, j \in 1..n : i < j => data'[i].id < data'[j].id
  BY <1>1, <1>2, KeyOrder DEF Load
<1> HIDE DEF n
<1>4. data' \in [1..n -> Entry]
  BY <1>2, <1>3
<1>5. data' \in Seq(Entry) /\ Len(data') = n
  BY <1>1, <1>4, SeqDef, LenProperties
<1>6. loads' \in 0..MaxLoads /\ active' = 0 /\ idctr' \in 0..(Ctrs - 1)
  BY DEF Load, IInv, HistoryTypeOK
<1> QED
  BY <1>1, <1>3, <1>5, <1>6

LEMMA StepLoad == IInv /\ (Reload \/ Restart) => IInv'
<1> SUFFICES ASSUME IInv, Reload \/ Restart PROVE IInv'
  OBVIOUS
<1> USE DEF storeVars, pastVars
<1>1. /\ loads' \in 0..MaxLoads /\ active' = 0 /\ idctr' \in 0..(Ctrs - 1)
      /\ data' \in Seq(Entry) /\ Len(data') <= Limit
      /\ \A i \in 1..Len(data') : data'[i] \in bucket
      /\ \A i, j \in 1..Len(data') : i < j => data'[i].id < data'[j].id
  BY Loaded DEF Reload, Restart
<1>2. UNCHANGED <<now, id, storeVars, pastVars>>
  BY DEF Reload, Restart
<1>3. /\ stage' \in [Sender -> Open \cup {"ok", "error", "lost"}]
      /\ old' \in [Sender -> BOOLEAN]
  <2>1. CASE Reload
    <3>1. \A p \in Sender : (old[p] \/ stage[p] \in {"append", "commit"}) \in BOOLEAN
      BY Zenon
    <3>2. old' \in [Sender -> BOOLEAN]
      BY <2>1, <3>1, Zenon DEF Reload
    <3> QED
      BY <2>1, <3>2 DEF Reload, IInv, HistoryTypeOK
  <2>2. CASE Restart
    BY <2>2 DEF Restart, IInv, HistoryTypeOK, Open
  <2> QED
    BY <2>1, <2>2
<1>4. \A p \in Sender : /\ stage'[p] = "ok" <=> stage[p] = "ok"
                        /\ stage'[p] = "commit" => stage[p] = "commit" /\ old'[p]
  BY DEF Reload, Restart, IInv, HistoryTypeOK
<1>5. HistoryTypeOK'
  BY <1>1, <1>2, <1>3, SMTT(30) DEF IInv, HistoryTypeOK
<1>6. \A e \in bucket : e.msg \in Sender /\ stage[e.msg] = "ok" /\ e.id = id[e.msg]
  BY DEF IInv, HistoryTypeOK, Stored
<1>7. Stored'
  BY <1>2, <1>4 DEF IInv, HistoryTypeOK, Stored
<1>8. Bounded' /\ Top' /\ SortedOnce'
  BY <1>1, <1>2 DEF IInv, Bounded, Top, SortedOnce
<1>9. InOrder'
  BY <1>1 DEF InOrder
<1>10. Ordered'
  <2> SUFFICES ASSUME rising
               PROVE  /\ \A i \in 1..Len(data') : data'[i].id <= lastId
                      /\ \A p \in Sender : Given(p)' => id[p] <= lastId
                      /\ \A p, q \in Sender :
                           Given(p)' /\ Given(q)' /\ p # q => id[p] # id[q]
    BY <1>2 DEF Ordered
  <2>1. /\ \A p \in Sender : Given(p) => id[p] <= lastId
        /\ \A p, q \in Sender : Given(p) /\ Given(q) /\ p # q => id[p] # id[q]
    BY DEF IInv, Ordered
  <2>2. \A p \in Sender : Given(p)' => Given(p)
    BY <1>4 DEF Given
  <2>3. \A i \in 1..Len(data') : data'[i].id <= lastId
    BY <1>1, <1>6, <2>1 DEF Given
  <2> QED
    BY <2>1, <2>2, <2>3
<1>11. OnScreen'
  BY <1>1, <1>2, <1>4, <1>6 DEF OnScreen
<1>12. Stamped'
  BY <1>2, <1>4 DEF IInv, Stamped
<1> QED
  BY <1>5, <1>7, <1>8, <1>9, <1>10, <1>11, <1>12 DEF IInv

THEOREM Invariance == HistorySpec => []IInv
<1>1. HistoryInit => IInv
  BY InitIInv
<1>2. IInv /\ [HistoryNext]_historyVars => IInv'
  <2> SUFFICES ASSUME IInv, [HistoryNext]_historyVars PROVE IInv'
    OBVIOUS
  <2>1. CASE UNCHANGED historyVars
    BY <2>1, StepQuiet DEF historyVars, memVars, procVars, storeVars, pastVars
  <2>2. CASE Tick
    BY <2>2, StepQuiet DEF Tick, procVars
  <2>3. ASSUME NEW p \in Sender, Find(p) \/ Fail(p) PROVE IInv'
    <3>1. UNCHANGED <<now, memVars, id, old, storeVars, loads, pastVars>>
      BY <2>3 DEF Find, Fail
    <3> QED
      BY <2>3, <3>1, StepQuiet
  <2>4. ASSUME NEW p \in Sender, AppendText(p) \/ AppendOld(p) \/ Commit(p)
        PROVE  IInv'
    BY <2>4, StepText, StepOld, StepCommit
  <2>5. CASE AppendNotice
    BY <2>5, StepNotice
  <2>6. CASE Reload \/ Restart
    BY <2>6, StepLoad
  <2> QED
    BY <2>1, <2>2, <2>3, <2>4, <2>5, <2>6 DEF HistoryNext
<1> QED
  BY <1>1, <1>2, PTL DEF HistorySpec

-------------------------------------------------------------------------------
(* The properties.                                                         *)

(* An accepted message is left out only if the bucket is full of newer     *)
(* ones.                                                                   *)
LEMMA LeftOut ==
  ASSUME IInv, rising, NEW d \in done \ bucket
  PROVE  Cardinality(bucket) = Limit /\ \A b \in bucket : d.id < b.id
<1>1. /\ IsFiniteSet(done) /\ seq = Cardinality(done) /\ bucket \subseteq done
      /\ Cardinality(bucket) = IF seq < Limit THEN seq ELSE Limit
      /\ \A b \in bucket : d.id < b.id
  BY DEF IInv, Stored, Top
<1>2. bucket # done
  OBVIOUS
<1>3. Cardinality(bucket) # seq
  BY <1>1, <1>2, FS_Subset
<1> QED
  BY <1>1, <1>3

(* Every field, bucket entry and history variable keeps its type: the IDs  *)
(* fit, the keys of the bucket are unique and the stamps are seconds.      *)
THEOREM TypeCorrect == HistorySpec => []HistoryTypeOK
<1>1. IInv => HistoryTypeOK
  BY DEF IInv
<1> QED
  BY <1>1, Invariance, PTL

(* What is on the screen is in the order in which it was appended, before  *)
(* and after any load, as long as the IDs rise (Append, loadChannel).      *)
THEOREM OrderCorrect == HistorySpec => []InOrder
<1>1. IInv => InOrder
  BY DEF IInv
<1> QED
  BY <1>1, Invariance, PTL

(* The transactions of Append keep at most Limit messages, and the newest  *)
(* of the accepted ones, in whatever order they commit, as long as the IDs *)
(* rise.                                                                   *)
THEOREM NewestCorrect == HistorySpec => []NewestKept
<1>1. IInv => NewestKept
  <2> SUFFICES ASSUME IInv, rising
               PROVE  bucket = {e \in done :
                          Cardinality({f \in done : f.id > e.id}) < Limit}
    BY DEF IInv, Bounded, NewestKept
  <2>1. IsFiniteSet(done) /\ bucket \subseteq done /\ \A e \in done : e.id \in Nat
    BY DEF IInv, HistoryTypeOK, Stored, Id
  <2>2. IsFiniteSet(bucket) /\ Cardinality(bucket) \in Nat
          /\ Cardinality(bucket) <= Limit
    BY <2>1, FS_Subset, FS_CardinalityType DEF IInv, Bounded
  <2>3. ASSUME NEW e \in bucket
        PROVE  Cardinality({f \in done : f.id > e.id}) < Limit
    <3> DEFINE A == {f \in done : f.id > e.id}
    <3>1. A \subseteq bucket \ {e}
      <4>1. ASSUME NEW f \in A PROVE f \in bucket \ {e}
        <5>1. f \in done /\ f.id > e.id /\ f.id \in Nat /\ e.id \in Nat
          BY <2>1
        <5>2. f # e
          BY <5>1
        <5>3. f \notin bucket => f.id < e.id
          BY <5>1, LeftOut
        <5> QED
          BY <5>1, <5>2, <5>3
      <4> QED
        BY <4>1
    <3>2. IsFiniteSet(bucket \ {e})
            /\ Cardinality(bucket \ {e}) = Cardinality(bucket) - 1
      BY <2>2, FS_RemoveElement
    <3>3. Cardinality(A) <= Cardinality(bucket \ {e}) /\ Cardinality(A) \in Nat
      BY <3>1, <3>2, FS_Subset, FS_CardinalityType
    <3> HIDE DEF A
    <3>4. Cardinality(A) < Limit
      BY <2>2, <3>2, <3>3
    <3> QED
      BY <3>4 DEF A
  <2>4. ASSUME NEW e \in done \ bucket
        PROVE  ~(Cardinality({f \in done : f.id > e.id}) < Limit)
    <3> DEFINE A == {f \in done : f.id > e.id}
    <3>1. Cardinality(bucket) = Limit /\ \A b \in bucket : e.id < b.id
      BY LeftOut
    <3>2. bucket \subseteq A
      BY <2>1, <3>1
    <3>3. IsFiniteSet(A)
      BY <2>1, FS_Subset
    <3>4. Cardinality(bucket) <= Cardinality(A) /\ Cardinality(A) \in Nat
      BY <3>2, <3>3, FS_Subset, FS_CardinalityType
    <3> HIDE DEF A
    <3>5. ~(Cardinality(A) < Limit)
      BY <3>1, <3>4
    <3> QED
      BY <3>5 DEF A
  <2> QED
    BY <2>1, <2>3, <2>4
<1> QED
  BY <1>1, Invariance, PTL

(* An accepted message on the screen is in the store, unless Limit newer   *)
(* ones are (loadChannel shows what Append showed).                        *)
THEOREM ShownCorrect == HistorySpec => []ShownIsStored
<1>1. IInv => ShownIsStored
  <2> SUFFICES ASSUME IInv, rising, NEW i \in 1..Len(data),
                      data[i].msg # Notice, stage[data[i].msg] = "ok",
                      data[i] \notin bucket
               PROVE  Cardinality({f \in bucket : f.id > data[i].id}) >= Limit
    BY DEF ShownIsStored
  <2> DEFINE e == data[i]
  <2>1. e \in Entry
    BY ElementOfSeq DEF IInv, HistoryTypeOK
  <2>2. e.msg \in Sender /\ e = [id |-> e.id, msg |-> e.msg]
    BY <2>1 DEF Entry
  <2>3. e.id = id[e.msg]
    BY DEF IInv, OnScreen
  <2>4. [id |-> id[e.msg], msg |-> e.msg] \in done
    BY <2>2 DEF IInv, Stored
  <2>5. e \in done \ bucket
    BY <2>2, <2>3, <2>4
  <2>6. Cardinality(bucket) = Limit /\ \A b \in bucket : e.id < b.id
    BY <2>5, LeftOut
  <2>7. \A b \in bucket : b.id \in Nat /\ e.id \in Nat
    <3>1. e.id \in Nat
      BY ScreenIds
    <3>2. bucket \subseteq [id : Id, msg : Sender]
      BY DEF IInv, HistoryTypeOK
    <3> QED
      BY <3>1, <3>2 DEF Id
  <2> HIDE DEF e
  <2>8. \A b \in bucket : b.id > e.id
    <3> TAKE b \in bucket
    <3>1. e.id < b.id /\ e.id \in Nat /\ b.id \in Nat
      BY <2>6, <2>7
    <3> QED
      BY <3>1
  <2>9. {f \in bucket : f.id > e.id} = bucket
    BY <2>8, Zenon
  <2>10. Cardinality(bucket) >= Limit
    BY <2>6
  <2> QED
    BY <2>9, <2>10 DEF e
<1> QED
  BY <1>1, Invariance, PTL

(* The channel has one key in "channelsort" and is counted once, however   *)
(* the commits of its senders interleave with loads (Append).              *)
THEOREM SortedCorrect == HistorySpec => []SortedOnce
<1>1. IInv => SortedOnce
  BY DEF IInv
<1> QED
  BY <1>1, Invariance, PTL
===============================================================================
