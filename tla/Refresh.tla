------------------------------- MODULE Refresh -------------------------------
(***************************************************************************)
(* How a channel's messages become pictures (channel.go): Channel.Append   *)
(* adds a message, Channel.Refresh renders the messages once per screen    *)
(* width and publishes the pictures, at most once per second: a Refresh    *)
(* that finds another one in its own second only winds the autoRefresh     *)
(* timer, whose callback doAutoRefresh calls Refresh later.  Refresh and   *)
(* doAutoRefresh run in many goroutines at once; only the reading of       *)
(* ch.data and the publication hold ch.mu.                                 *)
(*                                                                         *)
(* Messages are counted: version n of the chat has its first n entries,    *)
(* and version 1 is the history loadChannel reads.  Seconds are given by   *)
(* their age: 0 is the running second, 1 the last one.                     *)
(***************************************************************************)
EXTENDS Naturals, Sequences, FiniteSets

CONSTANTS
  Poster,    \* goroutines that append: handleSend, and Join for its notices
  Timed,     \* goroutines of doAutoRefresh that can run at the same time
  Widths,    \* number of screen widths (2 in the code)
  MaxLag,    \* bound: seconds from time.Now() to the CompareAndSwap behind it
  MaxStray,  \* bound: armed timers ch.autoRefresh does not point to any more
  MayBeSlow  \* whether a Refresh may take more than 600 ms

ASSUME RefreshAssumption ==
  /\ Poster \cap Timed = {}
  /\ Widths \in Nat \ {0}
  /\ MaxLag \in Nat
  /\ MaxStray \in Nat \ {0}
  /\ MayBeSlow \in BOOLEAN

VARIABLES
  pc,        \* pc[t]: where goroutine t is
  posted,    \* version of ch.data
  throt,     \* age of the second in refreshThrot; Ancient, if before any start
  start,     \* start[t]: age of the second in which t called Refresh
  old,       \* old[t]: age of the second that t loaded from refreshThrot ...
  intact,    \* intact[t]: ... and whether it has not been replaced since
  won,       \* ages of the seconds whose Refresh proceeded
  setBack,   \* history variable: the last Refresh to proceed in this second
             \* was called in an earlier one and has set the throttle back
  outs,      \* outs[t]: pictures t has rendered
  code,      \* code[t]: encoding t has chosen for the picture it renders
  last,      \* ch.lastImgData
  sent,      \* what the windows were sent last
  slow,      \* ch.lastElapsed > 600
  degrade,   \* ch.degradeJPEG
  ptr,       \* whether the timer ch.autoRefresh points to is armed
  stray,     \* number of other timers that are armed
  online,    \* ch.Len() > 0
  purging,   \* purgeWorld has found ch.Len() to be 0 and closes the channel
  closed     \* ch.closed

clockVars == <<throt, start, old, intact, won, setBack>>
picVars   == <<outs, code, last, sent, slow, degrade>>
timerVars == <<ptr, stray>>
envVars   == <<online, purging, closed>>
vars == <<pc, posted, clockVars, picVars, timerVars, envVars>>

Thread  == Poster \cup Timed
Ancient == MaxLag + 1
Code    == {"webp", "jpeg"}
Picture == [ver : Nat, code : Code, label : Code]
Labelled(p, l) == [ver |-> p.ver, code |-> p.code, label |-> l]
Deciding == {"load", "swap"}

(* The types of the channel's fields and of the locals of Refresh.         *)
TypeOK ==
  /\ pc \in [Thread -> {"idle", "wind", "store", "auto", "refresh", "load",
                        "swap", "throttled", "choose", "render", "encode",
                        "rearm", "done"}]
  /\ posted \in Nat
  /\ throt \in 0..Ancient
  /\ start \in [Thread -> 0..MaxLag]
  /\ old \in [Thread -> 0..Ancient]
  /\ intact \in [Thread -> BOOLEAN]
  /\ won \in SUBSET (0..MaxLag) /\ setBack \in BOOLEAN
  /\ outs \in [Thread -> Seq(Picture)]
  /\ code \in [Thread -> Code]
  /\ last \in {<<>>} \cup [1..Widths -> Picture]
  /\ sent \in {<<>>} \cup [1..Widths -> Picture]
  /\ slow \in BOOLEAN /\ degrade \in BOOLEAN
  /\ ptr \in BOOLEAN /\ stray \in 0..MaxStray
  /\ online \in BOOLEAN /\ purging \in BOOLEAN /\ closed \in BOOLEAN

Goto(t, l) == pc' = [pc EXCEPT ![t] = l]

(* loadChannel has armed the timer and stored the running second; its own  *)
(* Refresh came to nothing, or, when the second changed in between, it     *)
(* published pictures that do not have the history yet.                    *)
Init ==
  /\ pc = [t \in Thread |-> "idle"]
  /\ posted = 1
  /\ throt = 0
  /\ start = [t \in Thread |-> 0]
  /\ old = [t \in Thread |-> Ancient]
  /\ intact = [t \in Thread |-> FALSE]
  /\ outs = [t \in Thread |-> <<>>]
  /\ code = [t \in Thread |-> "webp"]
  /\ last \in {<<>>, [i \in 1..Widths |->
                        [ver |-> 0, code |-> "webp", label |-> "webp"]]}
  /\ won = IF last = <<>> THEN {} ELSE {0}
  /\ setBack = FALSE
  /\ sent = <<>>
  /\ slow = FALSE /\ degrade = FALSE
  /\ ptr = TRUE /\ stray = 0
  /\ online = FALSE /\ purging = FALSE /\ closed = FALSE

-------------------------------------------------------------------------------
(* Append, and what its callers do with the result.                        *)

Append_(t) ==
  /\ t \in Poster /\ pc[t] = "idle"
  /\ posted' = posted + 1
  /\ Goto(t, "wind")
  /\ UNCHANGED <<clockVars, picVars, timerVars, envVars>>

(* autoRefresh.Reset(10s).                                                 *)
Wind(t) ==
  /\ pc[t] = "wind"
  /\ ptr' = TRUE
  /\ Goto(t, "store")
  /\ UNCHANGED <<posted, clockVars, picVars, stray, envVars>>

(* A message that cannot be stored stays in ch.data, but handleSend does   *)
(* not refresh; notices are not stored and always refresh.                 *)
Store(t) ==
  /\ pc[t] = "store"
  /\ Goto(t, "refresh") \/ Goto(t, "done")
  /\ UNCHANGED <<posted, clockVars, picVars, timerVars, envVars>>

-------------------------------------------------------------------------------
(* Refresh: the throttle.                                                  *)

Begin(t) ==
  /\ pc[t] = "refresh"
  /\ start' = [start EXCEPT ![t] = 0]
  /\ Goto(t, "load")
  /\ UNCHANGED <<posted, throt, old, intact, won, setBack, picVars, timerVars,
                 envVars>>

(* start and old are of no use any more.                                   *)
Forget(t) ==
  /\ start' = [start EXCEPT ![t] = 0]
  /\ old' = [old EXCEPT ![t] = Ancient]

Load(t) ==
  /\ pc[t] = "load"
  /\ IF start[t] # throt
     THEN /\ old' = [old EXCEPT ![t] = throt]
          /\ intact' = [intact EXCEPT ![t] = TRUE]
          /\ Goto(t, "swap")
          /\ UNCHANGED start
     ELSE Forget(t) /\ Goto(t, "throttled") /\ UNCHANGED intact
  /\ UNCHANGED <<posted, throt, won, setBack, picVars, timerVars, envVars>>

(* Two equal ages are the same second, but Ancient stands for many: an     *)
(* ancient value is the one t has loaded only if nobody has replaced it.   *)
Unchanged_Always(t) == TRUE
Unchanged(t) == throt = old[t] /\ (old[t] = Ancient => intact[t])

Win(t) ==
  /\ pc[t] = "swap" /\ Unchanged(t)
  /\ throt' = start[t]
  /\ intact' = [s \in Thread |-> FALSE]
  /\ won' = won \cup {start[t]}
  /\ setBack' = (start[t] > 0)
  /\ Forget(t) /\ Goto(t, "choose")
  /\ UNCHANGED <<posted, picVars, timerVars, envVars>>

Lose(t) ==
  /\ pc[t] = "swap" /\ ~Unchanged(t)
  /\ intact' = [intact EXCEPT ![t] = FALSE]
  /\ Forget(t) /\ Goto(t, "throttled")
  /\ UNCHANGED <<posted, throt, won, setBack, picVars, timerVars, envVars>>

After(t) == IF t \in Timed THEN "rearm" ELSE "done"

(* autoRefresh.Reset(1s).                                                  *)
Throttled(t) ==
  /\ pc[t] = "throttled"
  /\ ptr' = TRUE
  /\ Goto(t, After(t))
  /\ UNCHANGED <<posted, clockVars, picVars, stray, envVars>>

(* A second passes.                                                        *)
Older(a) == IF a = Ancient THEN Ancient ELSE a + 1
Tick ==
  /\ \A t \in Thread : pc[t] \in Deciding => start[t] < MaxLag
  /\ throt' = Older(throt)
  /\ old' = [t \in Thread |-> Older(old[t])]
  /\ start' = [t \in Thread |-> IF pc[t] \in Deciding THEN start[t] + 1
                                                      ELSE start[t]]
  /\ won' = {a + 1 : a \in won \ {MaxLag}}
  /\ setBack' = FALSE
  /\ UNCHANGED <<pc, posted, intact, picVars, timerVars, envVars>>

-------------------------------------------------------------------------------
(* Refresh: the pictures.                                                  *)

Complete(t) == Len(outs[t]) = Widths

Choose(t) ==
  /\ pc[t] = "choose" /\ ~Complete(t)
  /\ code' = [code EXCEPT ![t] = IF slow \/ degrade THEN "jpeg" ELSE "webp"]
  /\ Goto(t, "render")
  /\ UNCHANGED <<posted, clockVars, outs, last, sent, slow, degrade, timerVars,
                 envVars>>

(* render takes its copy of ch.data under ch.mu.                           *)
Render(t) ==
  /\ pc[t] = "render"
  /\ outs' = [outs EXCEPT ![t] =
                Append(@, [ver |-> posted, code |-> code[t], label |-> "webp"])]
  /\ Goto(t, "encode")
  /\ UNCHANGED <<posted, clockVars, code, last, sent, slow, degrade,
                 timerVars, envVars>>

(* The label is read from ch.degradeJPEG after the encoding, which others  *)
(* may have set meanwhile.                                                 *)
Encode(t) ==
  /\ pc[t] = "encode"
  /\ degrade' = (degrade \/ code[t] = "jpeg")
  /\ outs' = [outs EXCEPT ![t][Len(outs[t])] =
                Labelled(@, IF degrade' THEN "jpeg" ELSE "webp")]
  /\ Goto(t, "choose")
  /\ UNCHANGED <<posted, clockVars, code, last, sent, slow, timerVars, envVars>>

(* Under ch.mu.  The windows are sent the encoded picture without the flag *)
(* that says how it is encoded.                                            *)
Publish(t) ==
  /\ pc[t] = "choose" /\ Complete(t)
  /\ last' = outs[t]
  /\ sent' = [i \in DOMAIN outs[t] |-> Labelled(outs[t][i], "webp")]
  /\ outs' = [outs EXCEPT ![t] = <<>>]
  /\ slow' \in IF MayBeSlow THEN BOOLEAN ELSE {FALSE}
  /\ Goto(t, After(t))
  /\ UNCHANGED <<posted, clockVars, code, degrade, timerVars, envVars>>

-------------------------------------------------------------------------------
(* doAutoRefresh and the timers.                                           *)

Fire(t) ==
  /\ t \in Timed /\ pc[t] = "idle"
  /\ \/ ptr /\ ptr' = FALSE /\ UNCHANGED stray
     \/ stray > 0 /\ stray' = stray - 1 /\ UNCHANGED ptr
  /\ Goto(t, "auto")
  /\ UNCHANGED <<posted, clockVars, picVars, envVars>>

AutoNext_Once == IF closed THEN "idle"
                 ELSE IF online /\ last = <<>> THEN "refresh" ELSE "rearm"
AutoNext_Alone == IF ~closed /\ online THEN "refresh" ELSE "idle"
AutoNext_Closed == IF online THEN "refresh" ELSE "rearm"
AutoNext == IF closed THEN "idle" ELSE IF online THEN "refresh" ELSE "rearm"

AutoStart(t) ==
  /\ pc[t] = "auto"
  /\ Goto(t, AutoNext)
  /\ UNCHANGED <<posted, clockVars, picVars, timerVars, envVars>>

(* A new timer takes the place of the one ch.autoRefresh pointed to, which *)
(* a Reset may have armed again: it then runs on beside the new one.       *)
Rearm(t) ==
  /\ pc[t] = "rearm"
  /\ stray' = IF ptr /\ stray < MaxStray THEN stray + 1 ELSE stray
  /\ ptr' = TRUE
  /\ Goto(t, "idle")
  /\ UNCHANGED <<posted, clockVars, picVars, envVars>>

-------------------------------------------------------------------------------
(* The windows come and go (Presence).  A request that has looked the      *)
(* channel up joins it even if it has been closed in the meantime.         *)
Come ==
  /\ ~online
  /\ online' = TRUE
  /\ UNCHANGED <<pc, posted, clockVars, picVars, timerVars, purging, closed>>

Go ==
  /\ online
  /\ online' = FALSE
  /\ UNCHANGED <<pc, posted, clockVars, picVars, timerVars, purging, closed>>

(* purgeWorld (World): a channel that was found empty is closed, whoever   *)
(* has come since.                                                         *)
FoundEmpty ==
  /\ ~online /\ ~purging /\ ~closed
  /\ purging' = TRUE
  /\ UNCHANGED <<pc, posted, clockVars, picVars, timerVars, online, closed>>

Close ==
  /\ purging
  /\ purging' = FALSE /\ closed' = TRUE
  /\ UNCHANGED <<pc, posted, clockVars, picVars, timerVars, online>>

-------------------------------------------------------------------------------
Runs(t) == \/ Wind(t) \/ Store(t)
           \/ Begin(t) \/ Load(t) \/ Win(t) \/ Lose(t) \/ Throttled(t)
           \/ Choose(t) \/ Render(t) \/ Encode(t) \/ Publish(t)
           \/ AutoStart(t) \/ Rearm(t)

Next ==
  \/ \E t \in Thread : Append_(t) \/ Runs(t) \/ Fire(t)
  \/ Tick \/ Come \/ Go \/ FoundEmpty \/ Close

Spec == Init /\ [][Next]_vars

(* Goroutines run, armed timers fire, and time passes (strongly fair: the  *)
(* bound MaxLag only holds the clock back while a decision is being made). *)
(* Nobody has to post, to come or to go, and nothing to be purged.         *)
FairSpec ==
  /\ Spec
  /\ \A t \in Thread : WF_vars(Runs(t))
  /\ WF_vars(\E t \in Timed : Fire(t))
  /\ SF_vars(Tick)

-------------------------------------------------------------------------------
(* Properties.                                                             *)

(* An open channel never loses its heartbeat: a timer is armed, or a       *)
(* doAutoRefresh is on its way to arm one.                                 *)
TimerAlive == closed \/ ptr \/ stray > 0 \/ \E t \in Timed : pc[t] # "idle"

(* "1 refresh per second" (channel.go:80): no two calls of Refresh that    *)
(* were made in the same second both proceed.                              *)
OnePerSecond == [][\A t \in Thread : Win(t) => start[t] \notin won]_vars

(* What is true of it: a call proceeds in a second that had its Refresh    *)
(* only if it decides later than in the second it was made in, or right    *)
(* after such a call has set refreshThrot back (channel.go:176).           *)
OncePerSecondUnlessLate ==
  [][\A t \in Thread :
       Win(t) /\ start[t] \in won => start[t] > 0 \/ setBack]_vars

(* The pictures at hand for new windows have the first v entries.          *)
Shows(v) == last # <<>> /\ \A i \in 1..Len(last) : last[i].ver >= v

(* While somebody watches an open channel, every entry gets into the       *)
(* pictures, whether the Refresh behind it was throttled, failed to follow,*)
(* or lost its race.  A closed channel has no doAutoRefresh, and nothing   *)
(* but a Refresh of its own that proceeds shows an entry to a window that  *)
(* came too late (channel.go:102, main.go:48).                             *)
EntriesShown ==
  \A v \in 1..(Cardinality(Poster) + 1) :
    (posted >= v /\ online /\ ~closed) ~> (Shows(v) \/ ~online \/ closed)

(* A picture that a slow Refresh publishes after a newer one does not      *)
(* stay: once the windows stay in an open channel, the pictures become and *)
(* remain complete (channel.go:197).                                       *)
PicturesSettle == <>[](online /\ ~closed) => <>[]Shows(posted)

(* A closed channel falls silent, also with a window in it: its timers run *)
(* out, whatever Resets them (channel.go:102, 136).                        *)
ClosedFallsSilent ==
  closed ~> (~ptr /\ stray = 0 /\ \A t \in Timed : pc[t] = "idle")
===============================================================================
