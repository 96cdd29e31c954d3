-------------------------------- MODULE World --------------------------------
(***************************************************************************)
(* The channels of the server (main.go): world.channels maps the name of a *)
(* channel to its Channel object.  A request for /~stream finds the object *)
(* or loads it from the store, releases world.Mutex and joins it; a        *)
(* message sent to a name goes to the object found under it; once a minute *)
(* purgeWorld closes and forgets the objects nobody is in.  The store is   *)
(* all that survives a restart.                                            *)
(*                                                                         *)
(* A Channel object is a room.  Everything that happens in a room while it *)
(* is used is the business of Presence and Refresh, but that its mutex     *)
(* ch.mu may be held for a while, by a takeover or a broadcast that waits  *)
(* for room in the queue of a window; here every window has a nickname of  *)
(* its own.  Rooms nobody refers to any more are garbage, and a new room   *)
(* may take the identity of one.                                           *)
(***************************************************************************)
EXTENDS Naturals, FiniteSets

CONSTANTS
  Name,         \* names of channels
  Room,         \* identities of Channel objects
  Win,          \* browser windows, each with its requests for /~stream
  Sender,       \* POST requests for /~send/, each with its message
  None,         \* no room, no name
  MaxRestarts   \* bound: restarts of the server

ASSUME WorldAssumption ==
  /\ IsFiniteSet(Win)
  /\ Win \cap Sender = {}
  /\ None \notin Room /\ None \notin Name
  /\ MaxRestarts \in Nat

VARIABLES
  channels,  \* world.channels
  home,      \* home[o]: the Name of room o
  closed,    \* closed[o]: its closed
  onlines,   \* onlines[o]: the windows in its onlines
  data,      \* data[o]: the messages in its data
  held,      \* held[o]: a takeover or a broadcast keeps its ch.mu
  pc,        \* pc[p]: where the request of p is
  want,      \* want[p]: the name it is for
  at,        \* at[p]: the room it has found
  pinged,    \* pinged[w]: whether w's timer has been reset in the last 30s
  store,     \* store[n]: the messages in bucket "channel-n"
  total,     \* world.totalUsers
  purger,    \* where purgeWorld is; it holds world.Mutex unless "asleep"
  todo,      \* the names its loop has still to visit
  cur,       \* the name it is at
  late,      \* the messages whose room was closed before they were committed
  stayed,    \* history variable: who has been in a room that is found ever
             \* since purgeWorld began
  counted,   \* history variable: the users purgeWorld has counted
  restarts   \* number of restarts

roomVars   == <<home, closed, onlines, data, held>>
procVars   == <<pc, want, at, pinged>>
purgeVars  == <<total, purger, todo, cur, counted>>
vars == <<channels, roomVars, procVars, store, purgeVars, late, stayed,
          restarts>>

Proc == Win \cup Sender

(* The types of the fields and locals; a request has a name, and a room    *)
(* from its lookup until it is answered.                                   *)
TypeOK ==
  /\ channels \in [Name -> Room \cup {None}]
  /\ home \in [Room -> Name \cup {None}]
  /\ closed \in [Room -> BOOLEAN]
  /\ onlines \in [Room -> SUBSET Win]
  /\ data \in [Room -> SUBSET Sender]
  /\ held \in [Room -> BOOLEAN]
  /\ pc \in [Proc -> {"idle", "lookup", "join", "on", "leave", "find",
                      "append", "commit", "ok", "error", "nowhere", "lost"}]
  /\ want \in [Proc -> Name \cup {None}]
  /\ at \in [Proc -> Room \cup {None}]
  /\ \A p \in Proc : pc[p] # "idle" => want[p] \in Name
  /\ \A p \in Proc :
       pc[p] \in {"join", "on", "leave", "append", "commit"} => at[p] \in Room
  /\ pinged \in [Win -> BOOLEAN]
  /\ store \in [Name -> SUBSET Sender]
  /\ total \in Nat
  /\ purger \in {"asleep", "scan", "look", "close", "count"}
  /\ todo \in SUBSET Name
  /\ cur \in Name \cup {None}
  /\ late \in SUBSET Sender
  /\ stayed \in SUBSET Win /\ counted \in SUBSET Win
  /\ restarts \in 0..MaxRestarts

Unlocked == purger = "asleep"
InUse(o) == (\E n \in Name : channels[n] = o) \/ (\E p \in Proc : at[p] = o)

(* main: an empty map, and a purgeWorld that has nothing to purge.         *)
Init ==
  /\ channels = [n \in Name |-> None]
  /\ home = [o \in Room |-> None]
  /\ closed = [o \in Room |-> FALSE]
  /\ onlines = [o \in Room |-> {}]
  /\ data = [o \in Room |-> {}]
  /\ held = [o \in Room |-> FALSE]
  /\ pc = [p \in Proc |-> "idle"]
  /\ want = [p \in Proc |-> None]
  /\ at = [p \in Proc |-> None]
  /\ pinged = [w \in Win |-> FALSE]
  /\ store = [n \in Name |-> {}]
  /\ total = 0
  /\ purger = "asleep" /\ todo = {} /\ cur = None
  /\ late = {}
  /\ stayed = {} /\ counted = {}
  /\ restarts = 0

-------------------------------------------------------------------------------
(* /~stream.                                                               *)

Ask(w, n) ==
  /\ w \in Win /\ pc[w] = "idle"
  /\ pc' = [pc EXCEPT ![w] = "lookup"]
  /\ want' = [want EXCEPT ![w] = n]
  /\ UNCHANGED <<channels, roomVars, at, pinged, store, purgeVars, stayed,
                 late, restarts>>

(* loadChannel: the room starts with what the store has at that moment.    *)
Load_Blank(o, n) ==
  /\ ~InUse(o)
  /\ home' = [home EXCEPT ![o] = n]
  /\ closed' = [closed EXCEPT ![o] = FALSE]
  /\ onlines' = [onlines EXCEPT ![o] = {}]
  /\ held' = [held EXCEPT ![o] = FALSE]
  /\ data' = [data EXCEPT ![o] = {}]
  /\ channels' = [channels EXCEPT ![n] = o]
Load(o, n) ==
  /\ ~InUse(o)
  /\ home' = [home EXCEPT ![o] = n]
  /\ closed' = [closed EXCEPT ![o] = FALSE]
  /\ onlines' = [onlines EXCEPT ![o] = {}]
  /\ held' = [held EXCEPT ![o] = FALSE]
  /\ data' = [data EXCEPT ![o] = store[n]]
  /\ channels' = [channels EXCEPT ![n] = o]

Known_Never(n) == FALSE
Known(n) == channels[n] # None

(* Under world.Mutex, loading included.                                    *)
Lookup(w) ==
  /\ pc[w] = "lookup" /\ Unlocked
  /\ \E o \in Room :
       /\ IF Known(want[w]) THEN channels[want[w]] = o
                                 /\ UNCHANGED <<channels, roomVars>>
                            ELSE Load(o, want[w])
       /\ at' = [at EXCEPT ![w] = o]
  /\ pc' = [pc EXCEPT ![w] = "join"]
  /\ UNCHANGED <<want, pinged, store, purgeVars, stayed, late, restarts>>

(* Channel.Join registers the window; world.Mutex is not held.             *)
Join(w) ==
  /\ pc[w] = "join" /\ ~held[at[w]]
  /\ onlines' = [onlines EXCEPT ![at[w]] = @ \cup {w}]
  /\ pinged' = [pinged EXCEPT ![w] = TRUE]
  /\ pc' = [pc EXCEPT ![w] = "on"]
  /\ UNCHANGED <<channels, home, closed, data, held, want, at, store,
                 purgeVars, stayed, late, restarts>>

(* The loop of Join ends: the connection breaks, or the timeout has come.  *)
Leaves(w) ==
  /\ pc[w] = "on"
  /\ pc' = [pc EXCEPT ![w] = "leave"]
  /\ UNCHANGED <<channels, roomVars, want, at, pinged, store, purgeVars,
                 stayed, late, restarts>>

Break(w)   == Leaves(w)
TimeOut(w) == Leaves(w) /\ ~pinged[w]

(* The window takes itself out of the room.                                *)
Leave(w) ==
  /\ pc[w] = "leave" /\ ~held[at[w]]
  /\ onlines' = [onlines EXCEPT ![at[w]] = @ \ {w}]
  /\ pc' = [pc EXCEPT ![w] = "idle"]
  /\ want' = [want EXCEPT ![w] = None]
  /\ at' = [at EXCEPT ![w] = None]
  /\ pinged' = [pinged EXCEPT ![w] = FALSE]
  /\ stayed' = stayed \ {w}
  /\ UNCHANGED <<channels, home, closed, data, held, store, purgeVars, late,
                 restarts>>

(* handlePing reaches the window only if the room it is in is still the    *)
(* one found under the name.  To a window that leaves it makes no odds.    *)
Reaches_Name(w) == channels[want[w]] # None
Reaches(w) == channels[want[w]] = at[w]

Ping(w) ==
  /\ pc[w] = "on" /\ Unlocked /\ Reaches(w) /\ ~held[at[w]]
  /\ pinged' = [pinged EXCEPT ![w] = TRUE]
  /\ UNCHANGED <<channels, roomVars, pc, want, at, store, purgeVars, stayed,
                 late, restarts>>

(* pingTimeout passes: first without, then with the window's timeout.      *)
Elapse(w) ==
  /\ pc[w] = "on" /\ pinged[w]
  /\ pinged' = [pinged EXCEPT ![w] = FALSE]
  /\ UNCHANGED <<channels, roomVars, pc, want, at, store, purgeVars, stayed,
                 late, restarts>>

(* A takeover or a broadcast takes ch.mu and waits for a queue; Presence   *)
(* says when it lets go again.  It needs a window it can wait for.         *)
Hold(o) ==
  /\ ~held[o] /\ onlines[o] # {}
  /\ held' = [held EXCEPT ![o] = TRUE]
  /\ UNCHANGED <<channels, home, closed, onlines, data, procVars, store,
                 purgeVars, stayed, late, restarts>>

Release(o) ==
  /\ held[o]
  /\ held' = [held EXCEPT ![o] = FALSE]
  /\ UNCHANGED <<channels, home, closed, onlines, data, procVars, store,
                 purgeVars, stayed, late, restarts>>

-------------------------------------------------------------------------------
(* /~send/: the lookup in handleSend, then Channel.Append.                 *)

Post(s, n) ==
  /\ s \in Sender /\ pc[s] = "idle"
  /\ pc' = [pc EXCEPT ![s] = "find"]
  /\ want' = [want EXCEPT ![s] = n]
  /\ UNCHANGED <<channels, roomVars, at, pinged, store, purgeVars, stayed,
                 late, restarts>>

(* A message for a name without a room is dropped without an error.        *)
Find(s) ==
  /\ pc[s] = "find" /\ Unlocked
  /\ at' = [at EXCEPT ![s] = channels[want[s]]]
  /\ pc' = [pc EXCEPT ![s] = IF channels[want[s]] = None THEN "nowhere"
                                                         ELSE "append"]
  /\ UNCHANGED <<channels, roomVars, want, pinged, store, purgeVars, stayed,
                 late, restarts>>

Append_(s) ==
  /\ pc[s] = "append" /\ ~held[at[s]]
  /\ data' = [data EXCEPT ![at[s]] = @ \cup {s}]
  /\ pc' = [pc EXCEPT ![s] = "commit"]
  /\ UNCHANGED <<channels, home, closed, onlines, held, want, at, pinged,
                 store, purgeVars, stayed, late, restarts>>

(* The transaction of Append commits, or "Internal error".                 *)
Commit(s) ==
  /\ pc[s] = "commit"
  /\ \/ /\ store' = [store EXCEPT ![home[at[s]]] = @ \cup {s}]
        /\ late' = IF closed[at[s]] THEN late \cup {s} ELSE late
        /\ pc' = [pc EXCEPT ![s] = "ok"]
     \/ /\ pc' = [pc EXCEPT ![s] = "error"]
        /\ UNCHANGED <<store, late>>
  /\ at' = [at EXCEPT ![s] = None]
  /\ UNCHANGED <<channels, roomVars, want, pinged, purgeVars, stayed,
                 restarts>>

-------------------------------------------------------------------------------
(* purgeWorld.  It holds world.Mutex throughout, and ch.mu only inside     *)
(* each ch.Len(), which waits for it.                                      *)

Reset_Never == total
Reset == 0

PurgeStart ==
  /\ purger = "asleep"
  /\ purger' = "scan"
  /\ todo' = {n \in Name : channels[n] # None}
  /\ total' = Reset /\ counted' = {}
  /\ stayed' = {w \in Win : \E n \in Name :
                   channels[n] # None /\ w \in onlines[channels[n]]}
  /\ UNCHANGED <<channels, roomVars, procVars, store, cur, late, restarts>>

(* The next room, in any order.                                            *)
PurgeNext(n) ==
  /\ purger = "scan" /\ n \in todo
  /\ cur' = n
  /\ todo' = todo \ {n}
  /\ purger' = "look"
  /\ UNCHANGED <<channels, roomVars, procVars, store, total, counted, stayed,
                 late, restarts>>

Deserted_Unread(o) == onlines[o] = {} /\ data[o] = {}
Deserted(o) == onlines[o] = {}

(* The first ch.Len().                                                     *)
PurgeLook ==
  /\ purger = "look" /\ ~held[channels[cur]]
  /\ purger' = IF Deserted(channels[cur]) THEN "close" ELSE "count"
  /\ UNCHANGED <<channels, roomVars, procVars, store, total, todo, cur,
                 counted, stayed, late, restarts>>

(* ch.Close() and delete.                                                  *)
Forget_Not(n) == channels
Forget(n) == [channels EXCEPT ![n] = None]

PurgeClose ==
  /\ purger = "close"
  /\ closed' = [closed EXCEPT ![channels[cur]] = TRUE]
  /\ channels' = Forget(cur)
  /\ purger' = "scan" /\ cur' = None
  /\ UNCHANGED <<home, onlines, data, held, procVars, store, total, todo,
                 counted, stayed, late, restarts>>

(* The second ch.Len().                                                    *)
PurgeCount ==
  /\ purger = "count" /\ ~held[channels[cur]]
  /\ total' = total + Cardinality(onlines[channels[cur]])
  /\ counted' = counted \cup onlines[channels[cur]]
  /\ purger' = "scan" /\ cur' = None
  /\ UNCHANGED <<channels, roomVars, procVars, store, todo, stayed, late,
                 restarts>>

PurgeEnd_Wait ==
  /\ purger = "scan" /\ todo = {}
  /\ purger' = IF \E n \in Name : Known(n) THEN "asleep" ELSE "scan"
  /\ stayed' = {} /\ counted' = {}
  /\ UNCHANGED <<channels, roomVars, procVars, store, total, todo, cur, late,
                 restarts>>
PurgeEnd ==
  /\ purger = "scan" /\ todo = {}
  /\ purger' = "asleep"
  /\ stayed' = {} /\ counted' = {}
  /\ UNCHANGED <<channels, roomVars, procVars, store, total, todo, cur, late,
                 restarts>>

-------------------------------------------------------------------------------
(* The server stops at any point and starts again.  Connections break,     *)
(* requests that were not answered are lost.                               *)
AtRest == {"idle", "ok", "error", "nowhere", "lost"}
Restart ==
  /\ restarts < MaxRestarts
  /\ restarts' = restarts + 1
  /\ channels' = [n \in Name |-> None]
  /\ onlines' = [o \in Room |-> {}]
  /\ held' = [o \in Room |-> FALSE]
  /\ pc' = [p \in Proc |-> IF p \in Win THEN "idle"
                           ELSE IF pc[p] \in AtRest THEN pc[p] ELSE "lost"]
  /\ want' = [p \in Proc |-> IF p \in Win THEN None ELSE want[p]]
  /\ at' = [p \in Proc |-> None]
  /\ pinged' = [w \in Win |-> FALSE]
  /\ total' = 0
  /\ purger' = "asleep" /\ todo' = {} /\ cur' = None
  /\ stayed' = {} /\ counted' = {}
  /\ UNCHANGED <<home, closed, data, store, late>>

-------------------------------------------------------------------------------
Stream(w) == Lookup(w) \/ Join(w)
Goes(w)   == Stream(w) \/ Elapse(w) \/ TimeOut(w) \/ Leave(w)
Send(s)   == Find(s) \/ Append_(s) \/ Commit(s)
Purge     == PurgeStart \/ (\E n \in Name : PurgeNext(n)) \/ PurgeLook
             \/ PurgeClose \/ PurgeCount \/ PurgeEnd

Next ==
  \/ \E w \in Win : \/ \E n \in Name : Ask(w, n)
                    \/ Stream(w) \/ Ping(w) \/ Elapse(w)
                    \/ Break(w) \/ TimeOut(w) \/ Leave(w)
  \/ \E s \in Sender : (\E n \in Name : Post(s, n)) \/ Send(s)
  \/ \E o \in Room : Hold(o) \/ Release(o)
  \/ Purge \/ Restart

Spec == Init /\ [][Next]_vars

(* Requests and purgeWorld run, sync.Mutex starves nobody (so those that   *)
(* wait for world.Mutex or a ch.mu are treated strongly fairly) and timers *)
(* expire; of a window only one of these is due at a time.  Nobody has to  *)
(* come, to send, to break or to ping, and who has taken a ch.mu for       *)
(* longer need not release it.                                             *)
FairSpec ==
  /\ Spec
  /\ \A w \in Win : SF_vars(Goes(w))
  /\ \A s \in Sender : SF_vars(Send(s))
  /\ SF_vars(Purge)

-------------------------------------------------------------------------------
(* Properties.                                                             *)

(* Every room somebody refers to is either open and the one found under    *)
(* its name, or closed and not found any more: a name has at most one open *)
(* room, no room is forgotten without stopping its timers (closed), and    *)
(* none is found that has stopped refreshing.                              *)
OneRoomPerName ==
  \A o \in Room : InUse(o) => (~closed[o] <=> channels[home[o]] = o)

(* An accepted message is among those of the room found under its name,    *)
(* also after purges and restarts, except when the room it was appended to *)
(* had been purged before it was committed.                                *)
LostOnlyWithItsRoom ==
  \A s \in Sender :
    (pc[s] = "ok" /\ channels[want[s]] # None)
      => \/ s \in data[channels[want[s]]]
         \/ s \in late

(* What purgeWorld adds up while users come and go: each of them once, and *)
(* in the end everybody who has been there all the time, in whatever order *)
(* the rooms come (main.go:46-58).                                         *)
TotalExact ==
  ~Unlocked =>
    /\ total = Cardinality(counted)
    /\ todo = {} /\ cur = None => stayed \subseteq counted

(* Whoever takes a ch.mu releases it, sooner or later: what presence_live  *)
(* shows of a room, and presence_stuck refutes where queues run full.      *)
RoomsReleased == \A o \in Room : []<>~held[o]

(* A window that has joined a closed room cannot stay there: its pings do  *)
(* not find the room, and it times out, unless ch.mu is held for ever.     *)
Seated == {"on", "leave"}
OrphansLeave ==
  RoomsReleased =>
    \A w \in Win :
      (pc[w] \in Seated /\ closed[at[w]]) ~> pc[w] \notin Seated

(* No room is found and empty for ever: it goes away, unless somebody      *)
(* comes, or some ch.mu is held for ever: purgeWorld waits for all of them.*)
EmptyRoomsGo ==
  RoomsReleased =>
    \A n \in Name : []<>(~Known(n) \/ onlines[channels[n]] # {})

(* Nobody waits for world.Mutex or a ch.mu for ever, unless some ch.mu is  *)
(* held for ever, of whatever room: purgeWorld would wait for it under     *)
(* world.Mutex, and everybody for purgeWorld (main.go:48).                 *)
Waiting == {"lookup", "join", "leave", "find", "append"}
RequestsServed ==
  RoomsReleased => \A p \in Proc : []<>(pc[p] \notin Waiting)

(* "channel %s is empty and purged" (main.go:51).                          *)
PurgedIsEmpty == \A o \in Room : InUse(o) /\ closed[o] => onlines[o] = {}
===============================================================================
