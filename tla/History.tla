------------------------------- MODULE History -------------------------------
(***************************************************************************)
(* The messages of one channel (channel.go): the last Limit entries in     *)
(* ch.data, and the bucket "channel-<name>" that loadChannel reads them    *)
(* back from.  Channel.Append numbers and keeps an entry under ch.mu, and  *)
(* commits it in a transaction of its own later on, in any order with the  *)
(* others.  Notices (joined, left) are kept but not stored.  An ID is the  *)
(* second of the entry followed by the low bits of ch.idctr, which every   *)
(* load sets at random; the bucket is ordered by ID.                       *)
(*                                                                         *)
(* The clock does not go backwards.  Senders, what they post and what      *)
(* their messages say are one value each.                                  *)
(***************************************************************************)
EXTENDS Naturals, FiniteSets, SequencesExt

CONSTANTS
  Sender,    \* handleSend goroutines, each with its message
  Notice,    \* what a notice has instead of a sender
  Limit,     \* entries kept (50 in the code)
  Ctrs,      \* values of the low bits of idctr (65536 in the code)
  MaxNow,    \* bound: seconds
  MaxLoads   \* bound: loads after the first

ASSUME HistoryAssumption ==
  /\ Notice \notin Sender
  /\ {Limit, Ctrs, MaxNow, MaxLoads} \subseteq Nat \ {0}

VARIABLES
  now,      \* the running second, from 1
  active,   \* ch.Active, 0 if nothing was appended since the load
  idctr,    \* ch.idctr, its low bits
  data,     \* ch.data
  stage,    \* stage[p]: where sender p is
  id,       \* id[p]: the ID its message got
  old,      \* old[p]: its channel object has been replaced by a load
  bucket,   \* the entries in bucket "channel-<name>"
  seq,      \* its sequence
  stamp,    \* the channel's value in bucket "channel", 0 if there is none
  sorted,   \* the channel's keys in bucket "channelsort"
  count,    \* sequence of bucket "channel", as far as this channel goes
  loads,    \* number of loads
  done,     \* history variable: the entries ever committed
  lastId,   \* history variable: the last ID given
  rising    \* history variable: whether every ID was above those before it

memVars     == <<active, idctr, data>>
procVars    == <<stage, id, old>>
storeVars   == <<bucket, seq, stamp, sorted, count>>
pastVars    == <<done, lastId, rising>>
historyVars == <<now, memVars, procVars, storeVars, loads, pastVars>>

Id == 0 .. (MaxNow + 1) * Ctrs - 1
IdOf(t, c) == t * Ctrs + c
SecondOf(i) == i \div Ctrs
Entry == [id : Id, msg : Sender \cup {Notice}]
Open == {"idle", "append", "commit"}

(* The types of the fields and buckets; a bucket has one entry per key.    *)
HistoryTypeOK ==
  /\ now \in 1..MaxNow
  /\ active \in 0..MaxNow
  /\ idctr \in 0..Ctrs - 1
  /\ data \in Seq(Entry)
  /\ stage \in [Sender -> Open \cup {"ok", "error", "lost"}]
  /\ id \in [Sender -> Id]
  /\ old \in [Sender -> BOOLEAN]
  /\ bucket \subseteq [id : Id, msg : Sender]
  /\ \A e, f \in bucket : e.id = f.id => e = f
  /\ seq \in Nat
  /\ stamp \in 0..MaxNow
  /\ sorted \subseteq 1..MaxNow
  /\ count \in Nat
  /\ loads \in 0..MaxLoads
  /\ done \subseteq [id : Id, msg : Sender]
  /\ lastId \in Id
  /\ rising \in BOOLEAN

(* A new channel, loaded from an empty store.                              *)
HistoryInit ==
  /\ now = 1
  /\ active = 0
  /\ idctr \in 0..Ctrs - 1
  /\ data = <<>>
  /\ stage = [p \in Sender |-> "idle"]
  /\ id = [p \in Sender |-> 0]
  /\ old = [p \in Sender |-> FALSE]
  /\ bucket = {} /\ seq = 0
  /\ stamp = 0 /\ sorted = {} /\ count = 0
  /\ loads = 0
  /\ done = {} /\ lastId = 0 /\ rising = TRUE

-------------------------------------------------------------------------------
Tick ==
  /\ now < MaxNow
  /\ now' = now + 1
  /\ UNCHANGED <<memVars, procVars, storeVars, loads, pastVars>>

(* handleSend has found the channel object.                                *)
Find(p) ==
  /\ stage[p] = "idle"
  /\ stage' = [stage EXCEPT ![p] = "append"]
  /\ UNCHANGED <<now, memVars, id, old, storeVars, loads, pastVars>>

Keep(s) == IF Len(s) > Limit THEN Tail(s) ELSE s

Number(i) ==
  /\ lastId' = i
  /\ rising' = (rising /\ i > lastId)

(* Append's part under ch.mu, in the channel object that is loaded.        *)
NextCtr == (idctr + 1) % Ctrs

Remember(m) ==
  LET i == IdOf(now, NextCtr)
  IN  /\ active' = now
      /\ idctr' = NextCtr
      /\ data' = Keep(Append(data, [id |-> i, msg |-> m]))
      /\ Number(i)

AppendNotice ==
  /\ Remember(Notice)
  /\ UNCHANGED <<now, procVars, storeVars, loads, done>>

AppendText(p) ==
  /\ stage[p] = "append" /\ ~old[p]
  /\ Remember(p)
  /\ id' = [id EXCEPT ![p] = lastId']
  /\ stage' = [stage EXCEPT ![p] = "commit"]
  /\ UNCHANGED <<now, old, storeVars, loads, done>>

(* The same in an object that has been replaced, which nobody sees; its    *)
(* idctr can be anything.                                                  *)
AppendOld(p) ==
  /\ stage[p] = "append" /\ old[p]
  /\ \E c \in 0..Ctrs - 1 : Number(IdOf(now, c))
  /\ id' = [id EXCEPT ![p] = lastId']
  /\ stage' = [stage EXCEPT ![p] = "commit"]
  /\ UNCHANGED <<now, memVars, old, storeVars, loads, done>>

-------------------------------------------------------------------------------
(* The transaction.                                                        *)

Oldest(S) == CHOOSE e \in S : \A f \in S : e.id <= f.id

(* Put replaces the entry that has the key; then Delete of the first key.  *)
Put(S, e) == {f \in S : f.id # e.id} \cup {e}

Trimmed_Late(S, n) == IF n > Limit + 1 THEN S \ {Oldest(S)} ELSE S
Newest(S) == CHOOSE e \in S : \A f \in S : e.id >= f.id
Trimmed_Newest(S, n) == IF n > Limit THEN S \ {Newest(S)} ELSE S
Trimmed(S, n) == IF n > Limit THEN S \ {Oldest(S)} ELSE S

Unsort_Not(S) == S
Unsort(S) == S \ {stamp}

(* ch.Active is read without ch.mu: it is that of the last entry of the    *)
(* object, whose second a replaced object may have been appended to.       *)
Commit(p) ==
  /\ stage[p] = "commit"
  /\ LET e == [id |-> id[p], msg |-> p]
     IN  /\ bucket' = Trimmed(Put(bucket, e), seq + 1)
         /\ done' = done \cup {e}
  /\ seq' = seq + 1
  /\ \E t \in IF old[p] THEN SecondOf(id[p])..now ELSE {active} :
       /\ sorted' = Unsort(sorted) \cup {t}
       /\ stamp' = t
  /\ count' = IF stamp = 0 THEN count + 1 ELSE count
  /\ stage' = [stage EXCEPT ![p] = "ok"]
  /\ UNCHANGED <<now, memVars, id, old, loads, lastId, rising>>

(* Begin or Commit fails: nothing is stored, "Internal error".             *)
Fail(p) ==
  /\ stage[p] = "commit"
  /\ stage' = [stage EXCEPT ![p] = "error"]
  /\ UNCHANGED <<now, memVars, id, old, storeVars, loads, pastVars>>

-------------------------------------------------------------------------------
(* loadChannel: all entries of the bucket, in the order of their keys.     *)
InKeyOrder_Down(S) ==
  CHOOSE s \in [1..Cardinality(S) -> S] :
    \A i, j \in DOMAIN s : i < j => s[i].id > s[j].id
InKeyOrder(S) ==
  CHOOSE s \in [1..Cardinality(S) -> S] :
    \A i, j \in DOMAIN s : i < j => s[i].id < s[j].id

Load ==
  /\ loads < MaxLoads
  /\ loads' = loads + 1
  /\ active' = 0
  /\ idctr' \in 0..Ctrs - 1
  /\ data' = InKeyOrder(bucket)

(* The channel was purged: senders that have found the old object go on.   *)
Reload ==
  /\ Load
  /\ old' = [p \in Sender |-> old[p] \/ stage[p] \in {"append", "commit"}]
  /\ UNCHANGED <<now, stage, id, storeVars, pastVars>>

(* The server was restarted.                                               *)
Restart ==
  /\ Load
  /\ stage' = [p \in Sender |->
                IF stage[p] \in {"append", "commit"} THEN "lost" ELSE stage[p]]
  /\ UNCHANGED <<now, id, old, storeVars, pastVars>>

HistoryNext ==
  \/ \E p \in Sender : Find(p) \/ AppendText(p) \/ AppendOld(p)
                       \/ Commit(p) \/ Fail(p)
  \/ AppendNotice \/ Tick \/ Reload \/ Restart

HistorySpec == HistoryInit /\ [][HistoryNext]_historyVars

-------------------------------------------------------------------------------
(* Properties.                                                             *)

(* As long as the IDs rise, what is on the screen is in the order in which *)
(* it was appended, before and after any load, whatever the order of the   *)
(* commits.                                                                *)
InOrder ==
  rising => \A i, j \in 1..Len(data) : i < j => data[i].id < data[j].id

(* Neither memory nor the store keeps more than Limit entries, whatever    *)
(* the IDs are.  As long as they rise, those in the store are the Limit    *)
(* newest of all the accepted messages, also when they are committed out   *)
(* of order.                                                               *)
NewestKept ==
  /\ Len(data) <= Limit /\ Cardinality(bucket) <= Limit
  /\ rising => bucket = {e \in done :
                           Cardinality({f \in done : f.id > e.id}) < Limit}

(* An accepted message on the screen is in the store, unless Limit newer   *)
(* ones are: a load never makes a message disappear from the middle.       *)
ShownIsStored ==
  rising => \A i \in 1..Len(data) :
    LET e == data[i]
    IN  (e.msg # Notice /\ stage[e.msg] = "ok")
          => \/ e \in bucket
             \/ Cardinality({f \in bucket : f.id > e.id}) >= Limit

(* The channel has one key in "channelsort", the one "channel" names, and  *)
(* is counted once, however its commits interleave with loads.             *)
SortedOnce == sorted = {stamp} \ {0} /\ count = Cardinality(sorted)
===============================================================================
