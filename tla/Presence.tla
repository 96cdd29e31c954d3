------------------------------- MODULE Presence -------------------------------
(***************************************************************************)
(* The windows of one channel (channel.go): every GET of /~stream runs     *)
(* Channel.Join in a goroutine of its own, registers a channelOnline in    *)
(* ch.onlines under its nickname, and then forwards what arrives on the    *)
(* channelOnline's recv queue to the browser until it is kicked by a newer *)
(* window of the same nickname, times out for lack of pings, or the        *)
(* connection fails.  Channel.Refresh puts pictures into the queues.       *)
(*                                                                         *)
(* A critical section of ch.mu that cannot block is one action, enabled    *)
(* when the mutex is free.  Two critical sections send on a bounded queue  *)
(* while they hold ch.mu and can block there: the kick loop of Join and    *)
(* the broadcast of Refresh.  Those take the mutex (mu) and run step by    *)
(* step, interleaved with the receivers and the timers, which use the      *)
(* queues without the mutex.                                               *)
(***************************************************************************)
EXTENDS Integers, Sequences, FiniteSets, SequencesExt

CONSTANTS
  Conn,          \* calls of Join, one per window that is ever opened
  Uid,           \* nicknames
  Addr,          \* client addresses
  Ticker,        \* any caller of Refresh other than Join: timer, handleSend
  Nobody,        \* no thread, no window
  Cap,           \* capacity of recv (10 in the code)
  MaxFires,      \* bound: expirations of ping timers in a behaviour
  HijackMayFail  \* whether the branches where Hijack fails are taken

ASSUME PresenceAssumption ==
  /\ Ticker \notin Conn
  /\ Nobody \notin Conn \cup Addr \cup {Ticker}
  /\ Cap \in Nat \ {0}
  /\ MaxFires \in Nat
  /\ HijackMayFail \in BOOLEAN

VARIABLES
  who,       \* who[c]: nickname and address of the request that runs Join
  pc,        \* pc[c]: where that call of Join is
  keys,      \* the keys of the map ch.onlines
  onlines,   \* onlines[u]: the windows of u, oldest first
  recv,      \* recv[c]: the queue of window c
  note,      \* note[c]: what c took from its queue last; the zero note
             \* before the first has no flag set, like a picture
  armed,     \* windows whose ping timer is running
  firing,    \* firing[c]: callbacks of c's timer that still have to send
  fires,     \* fires[c]: expirations of c's timer
  rivals,    \* history variable, rivals[c]: the takeovers that have found c
             \* in ch.onlines
  mu,        \* holder of ch.mu, when it keeps it over several steps
  todo,      \* windows the loop of the holder has not come to yet
  at,        \* window the broadcast is at, or Nobody
  cast,      \* what the broadcast is doing there
  pictured,  \* whether ch.lastImgData holds a picture
  balance    \* balance[u]: join notices minus leave notices in ch.data

lockVars == <<mu, todo, at, cast>>
mapVars  == <<keys, onlines>>
vars == <<who, pc, keys, onlines, recv, note, armed, firing, fires,
          rivals, mu, todo, at, cast, pictured, balance>>

Control == {"kick", "time"}
Note    == Control \cup {"img"}
Thread  == Conn \cup {Ticker}
PC == {"idle", "kick", "announce", "refreshIn", "hijack", "recv",
       "write", "leave", "farewell", "refreshOut", "done", "zombie"}

UidOf(c) == who[c].uid
Listed == {c \in Conn : \E u \in keys : Contains(onlines[u], c)}
Goto(c, l) == pc' = [pc EXCEPT ![c] = l]
Put(c, n) == recv' = [recv EXCEPT ![c] = Append(@, n)]
HasRoom_One(c) == Len(recv[c]) < 1
HasRoom(c) == Len(recv[c]) < Cap
MuFree == mu = Nobody

(* The types: what a channelOnline, its queue and ch.onlines may hold.     *)
TypeOK ==
  /\ who \in [Conn -> [uid : Uid, ip : Addr]]
  /\ pc \in [Conn -> PC]
  /\ keys \in SUBSET Uid
  /\ onlines \in [Uid -> Seq(Conn)]
  /\ recv \in [Conn -> Seq(Note)]
  /\ note \in [Conn -> Note]
  /\ armed \in SUBSET Conn
  /\ firing \in [Conn -> Nat]
  /\ fires \in [Conn -> Nat]
  /\ rivals \in [Conn -> SUBSET Conn]
  /\ mu \in Thread \cup {Nobody}
  /\ todo \in SUBSET Conn
  /\ at \in Conn \cup {Nobody}
  /\ cast \in Control \cup {"poll", "offer"}
  /\ pictured \in BOOLEAN
  /\ balance \in [Uid -> Int]

Init ==
  /\ who \in [Conn -> [uid : Uid, ip : Addr]]
  /\ pc = [c \in Conn |-> "idle"]
  /\ keys = {}
  /\ onlines = [u \in Uid |-> <<>>]
  /\ recv = [c \in Conn |-> <<>>]
  /\ note = [c \in Conn |-> "img"]
  /\ armed = {}
  /\ firing = [c \in Conn |-> 0]
  /\ fires = [c \in Conn |-> 0]
  /\ rivals = [c \in Conn |-> {}]
  /\ mu = Nobody
  /\ todo = {}
  /\ at = Nobody
  /\ cast = "poll"
  /\ pictured = FALSE
  /\ balance = [u \in Uid |-> 0]

-------------------------------------------------------------------------------
(* Join: registration, under ch.mu.                                        *)

(* The new channelOnline goes to the end of its nickname's windows, finds  *)
(* the last picture in its queue and has its ping timer started.           *)
Register(c) ==
  /\ keys' = keys \cup {UidOf(c)}
  /\ onlines' = [onlines EXCEPT ![UidOf(c)] = Append(@, c)]
  /\ recv' = [recv EXCEPT ![c] = IF pictured THEN <<"img">> ELSE <<>>]
  /\ armed' = armed \cup {c}

SameAddr_Unchecked(c) == TRUE
SameAddr(c) == who[c].ip = who[Last(onlines[UidOf(c)])].ip

JoinFirst(c) ==
  /\ pc[c] = "idle" /\ MuFree
  /\ UidOf(c) \notin keys
  /\ Register(c)
  /\ Goto(c, "announce")
  /\ UNCHANGED <<who, note, firing, fires, rivals, lockVars, pictured,
                 balance>>

JoinRefused(c) ==
  /\ pc[c] = "idle" /\ MuFree
  /\ UidOf(c) \in keys /\ ~SameAddr(c)
  /\ Goto(c, "done")
  /\ UNCHANGED <<who, mapVars, recv, note, armed, firing, fires, rivals,
                 lockVars, pictured, balance>>

(* A loop over the windows of a nickname goes from the oldest to the       *)
(* newest.                                                                 *)
Foremost(w) ==
  /\ w \in todo
  /\ \A i, j \in 1..Len(onlines[UidOf(w)]) :
       i < j /\ onlines[UidOf(w)][j] = w => onlines[UidOf(w)][i] \notin todo

(* Another window of the same nickname and address: Join keeps the mutex   *)
(* and tells every older window, one blocking send after the other.        *)
JoinSwitch(c) ==
  /\ pc[c] = "idle" /\ MuFree
  /\ UidOf(c) \in keys /\ SameAddr(c)
  /\ mu' = c
  /\ todo' = ToSet(onlines[UidOf(c)])
  /\ rivals' = [w \in Conn |-> IF w \in ToSet(onlines[UidOf(c)])
                               THEN rivals[w] \cup {c} ELSE rivals[w]]
  /\ Goto(c, "kick")
  /\ UNCHANGED <<who, mapVars, recv, note, armed, firing, fires, at, cast,
                 pictured, balance>>

Kick(c, w) ==
  /\ pc[c] = "kick"
  /\ Foremost(w) /\ HasRoom(w)
  /\ Put(w, "kick")
  /\ todo' = todo \ {w}
  /\ UNCHANGED <<who, pc, mapVars, note, armed, firing, fires, rivals, mu, at,
                 cast, pictured, balance>>

Admit(c) ==
  /\ pc[c] = "kick" /\ todo = {}
  /\ Register(c)
  /\ mu' = Nobody
  /\ Goto(c, "refreshIn")
  /\ UNCHANGED <<who, note, firing, fires, rivals, todo, at, cast, pictured,
                 balance>>

(* Append of the MessageJoin, which a switching window skips.              *)
Announce(c) ==
  /\ pc[c] = "announce" /\ MuFree
  /\ balance' = [balance EXCEPT ![UidOf(c)] = @ + 1]
  /\ Goto(c, "refreshIn")
  /\ UNCHANGED <<who, mapVars, recv, note, armed, firing, fires, rivals,
                 lockVars, pictured>>

-------------------------------------------------------------------------------
(* Refresh, as far as the windows see it.                                  *)

AfterRefresh(l) == IF l = "refreshIn" THEN "hijack" ELSE "done"
Refreshing(t) == t = Ticker \/ (t \in Conn /\ pc[t] \in {"refreshIn", "refreshOut"})
Broadcasting == mu # Nobody /\ Refreshing(mu)

(* Refresh returns at once when another one ran in the same second; when   *)
(* that is so depends on the clock, here on a free choice.                 *)
RefreshThrottled(c) ==
  /\ Refreshing(c) /\ mu # c
  /\ Goto(c, AfterRefresh(pc[c]))
  /\ UNCHANGED <<who, mapVars, recv, note, armed, firing, fires, rivals,
                 lockVars, pictured, balance>>

(* Otherwise it renders and takes the mutex for the broadcast.             *)
RefreshLock(t) ==
  /\ Refreshing(t) /\ MuFree
  /\ mu' = t
  /\ todo' = Listed
  /\ pictured' = TRUE
  /\ UNCHANGED <<who, pc, mapVars, recv, note, armed, firing, fires, rivals,
                 at, cast, balance>>

(* The loop comes to the next window: oldest first within a nickname, the  *)
(* nicknames in any order (they may alternate here, as they cannot there). *)
Visit(w) ==
  /\ Broadcasting /\ at = Nobody /\ Foremost(w)
  /\ at' = w
  /\ todo' = todo \ {w}
  /\ UNCHANGED <<who, pc, mapVars, recv, note, armed, firing, fires, rivals,
                 mu, cast, pictured, balance>>

(* EXHAUST: pictures in the queue are thrown away.                         *)
Keeps_TimeoutsOnly(n) == n = "time"
Keeps(n) == n \in Control

DropPicture ==
  /\ Broadcasting /\ at # Nobody /\ cast = "poll"
  /\ recv[at] # <<>> /\ ~Keeps(Head(recv[at]))
  /\ recv' = [recv EXCEPT ![at] = Tail(@)]
  /\ UNCHANGED <<who, pc, mapVars, note, armed, firing, fires, rivals,
                 lockVars, pictured, balance>>

(* A kick or a timeout is taken out of the queue ...                       *)
TakeControl ==
  /\ Broadcasting /\ at # Nobody /\ cast = "poll"
  /\ recv[at] # <<>> /\ Keeps(Head(recv[at]))
  /\ cast' = Head(recv[at])
  /\ recv' = [recv EXCEPT ![at] = Tail(@)]
  /\ UNCHANGED <<who, pc, mapVars, note, armed, firing, fires, rivals, mu,
                 todo, at, pictured, balance>>

(* ... and sent again, behind what came meanwhile: a blocking send.        *)
PutBack ==
  /\ Broadcasting /\ at # Nobody /\ cast \in Control
  /\ HasRoom(at)
  /\ Put(at, cast)
  /\ at' = Nobody /\ cast' = "poll"
  /\ UNCHANGED <<who, pc, mapVars, note, armed, firing, fires, rivals, mu,
                 todo, pictured, balance>>

Drained_Unchecked(w) == TRUE
Drained(w) == recv[w] = <<>>

SeeEmpty ==
  /\ Broadcasting /\ at # Nobody /\ cast = "poll"
  /\ Drained(at)
  /\ cast' = "offer"
  /\ UNCHANGED <<who, pc, mapVars, recv, note, armed, firing, fires, rivals,
                 mu, todo, at, pictured, balance>>

(* The picture itself is offered without blocking.                         *)
Offer ==
  /\ Broadcasting /\ at # Nobody /\ cast = "offer"
  /\ IF HasRoom(at) THEN Put(at, "img") ELSE UNCHANGED recv
  /\ at' = Nobody /\ cast' = "poll"
  /\ UNCHANGED <<who, pc, mapVars, note, armed, firing, fires, rivals, mu,
                 todo, pictured, balance>>

RefreshUnlock ==
  /\ Broadcasting /\ at = Nobody /\ todo = {}
  /\ mu' = Nobody
  /\ pc' = IF mu = Ticker THEN pc
           ELSE [pc EXCEPT ![mu] = AfterRefresh(@)]
  /\ UNCHANGED <<who, mapVars, recv, note, armed, firing, fires, rivals, todo,
                 at, cast, pictured, balance>>

-------------------------------------------------------------------------------
(* Join: the connection.                                                   *)

(* When Hijack fails Join returns and leaves its channelOnline behind.     *)
Hijack(c) ==
  /\ pc[c] = "hijack"
  /\ \/ Goto(c, "recv")
     \/ HijackMayFail /\ Goto(c, "zombie")
  /\ UNCHANGED <<who, mapVars, recv, note, armed, firing, fires, rivals,
                 lockVars, pictured, balance>>

Receive(c) ==
  /\ pc[c] = "recv" /\ recv[c] # <<>>
  /\ note' = [note EXCEPT ![c] = Head(recv[c])]
  /\ recv' = [recv EXCEPT ![c] = Tail(@)]
  /\ Goto(c, "write")
  /\ UNCHANGED <<who, mapVars, armed, firing, fires, rivals, lockVars,
                 pictured, balance>>

(* Four writes with a deadline: all succeed, or one fails.                 *)
Write(c) ==
  /\ pc[c] = "write"
  /\ \/ Goto(c, IF note[c] \in Control THEN "leave" ELSE "recv")
     \/ Goto(c, "leave")
  /\ UNCHANGED <<who, mapVars, recv, note, armed, firing, fires, rivals,
                 lockVars, pictured, balance>>

(* The window takes itself out of the map, and only the window itself;     *)
(* the nickname goes with its last window.  From here on only the timer    *)
(* and its callbacks reach the queue, and nobody reads it: they are left   *)
(* out of the model, which forgets all three, and the note with them.      *)
Remaining_DropsNewest(c) == Front(onlines[UidOf(c)])
Remaining(c) == RemoveFirst(onlines[UidOf(c)], c)
KeysAfter_AlwaysDeletes(c) == keys \ {UidOf(c)}
KeysAfter(c) == IF Remaining(c) = <<>> THEN keys \ {UidOf(c)} ELSE keys
LeavesSilently_OnTimeout(c) == note[c] \in Control
LeavesSilently(c) == note[c] = "kick"

Leave(c) ==
  /\ pc[c] = "leave" /\ MuFree
  /\ onlines' = [onlines EXCEPT ![UidOf(c)] = Remaining(c)]
  /\ keys' = KeysAfter(c)
  /\ recv' = [recv EXCEPT ![c] = <<>>]
  /\ armed' = armed \ {c}
  /\ firing' = [firing EXCEPT ![c] = 0]
  /\ rivals' = [rivals EXCEPT ![c] = {}]
  /\ Goto(c, IF LeavesSilently(c) THEN "refreshOut" ELSE "farewell")
  /\ note' = [note EXCEPT ![c] = "img"]
  /\ UNCHANGED <<who, fires, lockVars, pictured, balance>>

(* Append of the MessageLeave, which a kicked window skips.                *)
Farewell(c) ==
  /\ pc[c] = "farewell" /\ MuFree
  /\ balance' = [balance EXCEPT ![UidOf(c)] = @ - 1]
  /\ Goto(c, "refreshOut")
  /\ UNCHANGED <<who, mapVars, recv, note, armed, firing, fires, rivals,
                 lockVars, pictured>>

-------------------------------------------------------------------------------
(* The ping timer and handlePing.                                          *)

Expirations == FoldFunction(LAMBDA m, n : m + n, 0, fires)

Fire(c) ==
  /\ c \in armed /\ Expirations < MaxFires
  /\ armed' = armed \ {c}
  /\ firing' = [firing EXCEPT ![c] = @ + 1]
  /\ fires' = [fires EXCEPT ![c] = @ + 1]
  /\ UNCHANGED <<who, pc, mapVars, recv, note, rivals, lockVars, pictured,
                 balance>>

(* The callback sends on a goroutine of its own and may wait for room.     *)
Due(c) == firing[c] > 0

SendTimeout(c) ==
  /\ Due(c) /\ HasRoom(c)
  /\ Put(c, "time")
  /\ firing' = [firing EXCEPT ![c] = @ - 1]
  /\ UNCHANGED <<who, pc, mapVars, note, armed, fires, rivals, lockVars,
                 pictured, balance>>

(* A ping restarts the timer of the newest window, expired or not.  Time   *)
(* is abstracted: restarting a timer that runs is a step that changes      *)
(* nothing.                                                                *)
Ping(u) ==
  /\ MuFree /\ u \in keys
  /\ armed' = armed \cup {Last(onlines[u])}
  /\ UNCHANGED <<who, pc, mapVars, recv, note, firing, fires, rivals,
                 lockVars, pictured, balance>>

-------------------------------------------------------------------------------
Joining(c) == JoinFirst(c) \/ JoinRefused(c) \/ JoinSwitch(c)
              \/ Admit(c) \/ Announce(c) \/ (\E w \in Conn : Kick(c, w))
Streaming(c) == Hijack(c) \/ Receive(c) \/ Write(c) \/ Leave(c) \/ Farewell(c)
Broadcast == (\E w \in Conn : Visit(w)) \/ DropPicture \/ TakeControl
             \/ PutBack \/ SeeEmpty \/ Offer \/ RefreshUnlock

Next ==
  \/ \E c \in Conn : Joining(c) \/ Streaming(c) \/ RefreshThrottled(c)
                     \/ Fire(c) \/ SendTimeout(c)
  \/ \E t \in Thread : RefreshLock(t)
  \/ Broadcast
  \/ \E u \in Uid : Ping(u)

Spec == Init /\ [][Next]_vars
-------------------------------------------------------------------------------
(* Properties.                                                             *)

Registered == {"announce", "refreshIn", "hijack", "recv", "write", "leave",
               "zombie"}

(* The map of a channel and the goroutines agree: a window is listed under *)
(* its own nickname, once, exactly from its registration to its removal,   *)
(* and a nickname is a key exactly while it has a window.  Join and        *)
(* handlePing index the last window of every key without a check.          *)
MapMatchesThreads ==
  /\ \A u \in Uid, c \in Conn :
       (\E i \in 1..Len(onlines[u]) : onlines[u][i] = c)
         <=> (UidOf(c) = u /\ pc[c] \in Registered)
  /\ \A u \in Uid : \A i, j \in 1..Len(onlines[u]) :
       onlines[u][i] = onlines[u][j] => i = j
  /\ keys = {u \in Uid : onlines[u] # <<>>}

(* Join compares a new window with the newest one only; still all windows  *)
(* of a nickname come from one address.                                    *)
OneAddressPerNick ==
  \A u \in Uid : \A i, j \in 1..Len(onlines[u]) :
    who[onlines[u][i]].ip = who[onlines[u][j]].ip

(* Kicks still on their way: in the queue, or in the hand of a Refresh.    *)
KickPending(c) == Contains(recv[c], "kick") \/ (at = c /\ cast = "kick")

(* Every window but the newest of its nickname has been told so, whatever  *)
(* Refresh did to its queue since: its kick is still on the way, or the    *)
(* window has taken it, or it is leaving for a reason of its own.          *)
SupersededAreTold ==
  \A u \in Uid : \A i \in 1..Len(onlines[u]) :
    i < Len(onlines[u]) =>
      LET c == onlines[u][i]
      IN  KickPending(c) \/ note[c] = "kick" \/ pc[c] = "leave"

(* A slow browser never has more than one picture waiting: join, any       *)
(* number of Refreshes and the timer never pile pictures up.               *)
OnePictureQueued ==
  \A c \in Conn : \A i, j \in 1..Len(recv[c]) :
    recv[c][i] = "img" /\ recv[c][j] = "img" => i = j

(* Nobody vanishes silently: when a nickname has no window, each of its    *)
(* join notices is matched by a leave notice posted or about to be, though *)
(* kicked windows post none.                                               *)
NoSilentExit ==
  \A u \in Uid \ keys :
    balance[u] <= Cardinality({c \in Conn : pc[c] = "farewell"
                                            /\ UidOf(c) = u})

(* Whoever holds ch.mu is kept waiting only by a crowd: when a queue has   *)
(* no room for a kick, or for the note a Refresh puts back, takeovers and  *)
(* expirations have come to that window as often as recv has places.       *)
(* Pictures, put-back notes and other nicknames never fill it.             *)
Awaited(w) ==
  /\ ~HasRoom(w)
  /\ \/ w \in todo /\ \E c \in Conn : pc[c] = "kick"
     \/ w = at /\ cast \in Control
WaitsOnlyInCrowds ==
  \A w \in Conn : Awaited(w) => Cap <= Cardinality(rivals[w]) + fires[w]

(* Who holds the lease of a nickname: the address of its newest window.    *)
Lease == INSTANCE NickLease WITH
  Free <- Nobody,
  holder <- [u \in Uid |-> IF onlines[u] = <<>> THEN Nobody
                           ELSE who[Last(onlines[u])].ip]

(* The presence map implements a lease of nicknames to addresses: Join     *)
(* never hands a nickname from one address to another in between.          *)
LeaseSpec == Lease!Spec

-------------------------------------------------------------------------------
(* Liveness.  A goroutine runs; a Write ends because it has a deadline;    *)
(* sync.Mutex does not starve a waiting goroutine, and a channel serves    *)
(* its waiting senders and receivers first.  So what a goroutine can do    *)
(* again and again it does (strong fairness).  Browsers, timers and pings  *)
(* owe nothing, and neither does the Ticker start a Refresh; whether a     *)
(* Refresh is throttled stays open.                                        *)
Runs(c) == Admit(c) \/ (\E w \in Conn : Kick(c, w)) \/ Announce(c)
           \/ RefreshLock(c) \/ Streaming(c)

Fairness ==
  /\ WF_vars(Broadcast)
  /\ \A c \in Conn : SF_vars(Runs(c)) /\ SF_vars(SendTimeout(c))

FairSpec == Spec /\ Fairness

(* A window that was kicked or whose timer expired goes away: a Refresh    *)
(* that races with it never swallows the note that ends it.                *)
Doomed(c) == Due(c) \/ KickPending(c) \/ Contains(recv[c], "time")
DoomedLeave == \A c \in Conn : Doomed(c) ~> pc[c] = "done"

(* "Chat has been opened elsewhere" is what a kicked window shows          *)
(* (channel.go:243): the window that kicks the others does get listed.     *)
TakeoverCompletes == \A c \in Conn : pc[c] = "kick" ~> pc[c] # "kick"
===============================================================================
