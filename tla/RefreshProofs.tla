---------------------------- MODULE RefreshProofs ----------------------------
(***************************************************************************)
(* Proofs about Refresh: its types, the heartbeat of an open channel, and  *)
(* what the throttle guarantees however long its decisions take.           *)
(***************************************************************************)
EXTENDS Refresh, TLAPS

USE RefreshAssumption

LEMMA InitTypeOK == Init => TypeOK
<1> SUFFICES ASSUME Init PROVE TypeOK
  OBVIOUS
<1> USE DEF Init, Ancient
<1>1. last \in {<<>>} \cup [1..Widths -> Picture]
  BY DEF Picture, Code
<1>2. outs \in [Thread -> Seq(Picture)]
  <2>1. <<>> \in Seq(Picture)
    OBVIOUS
  <2> QED  BY <2>1
<1>3. won \in SUBSET (0..MaxLag)
  OBVIOUS
<1>4. code \in [Thread -> Code]
  BY DEF Code
<1>5. /\ throt \in 0..Ancient
      /\ start \in [Thread -> 0..MaxLag]
      /\ old \in [Thread -> 0..Ancient]
      /\ intact \in [Thread -> BOOLEAN]
  <2>1. Ancient \in 0..Ancient /\ 0 \in 0..Ancient
    OBVIOUS
  <2> HIDE DEF Ancient
  <2> QED  BY <2>1
<1>9. setBack \in BOOLEAN /\ purging \in BOOLEAN
  OBVIOUS
<1>6. sent = <<>> /\ posted \in Nat /\ stray \in 0..MaxStray
  OBVIOUS
<1>7. /\ slow \in BOOLEAN /\ degrade \in BOOLEAN /\ ptr \in BOOLEAN
      /\ online \in BOOLEAN /\ closed \in BOOLEAN
  OBVIOUS
<1>8. pc \in [Thread -> {"idle"}]
  OBVIOUS
<1> HIDE DEF Init, Ancient
<1> QED  BY <1>1, <1>2, <1>3, <1>4, <1>5, <1>6, <1>7, <1>8, <1>9 DEF TypeOK

LEMMA NextTypeOK == TypeOK /\ [Next]_vars => TypeOK'
<1> SUFFICES ASSUME TypeOK, [Next]_vars PROVE TypeOK'
  OBVIOUS
<1>1. CASE UNCHANGED vars
  BY <1>1 DEF TypeOK, vars, clockVars, picVars, timerVars, envVars
<1>2. CASE Tick
  <2>1. throt' \in 0..Ancient
    BY <1>2 DEF Tick, TypeOK, Older, Ancient
  <2>2. old' \in [Thread -> 0..Ancient]
    BY <1>2 DEF Tick, TypeOK, Older, Ancient
  <2>3. start' \in [Thread -> 0..MaxLag]
    BY <1>2 DEF Tick, TypeOK
  <2>4. won' \in SUBSET (0..MaxLag)
    BY <1>2 DEF Tick, TypeOK
  <2> QED  BY <1>2, <2>1, <2>2, <2>3, <2>4
           DEF Tick, TypeOK, picVars, timerVars, envVars
<1>3. CASE Come \/ Go \/ FoundEmpty \/ Close
  BY <1>3 DEF Come, Go, FoundEmpty, Close, TypeOK, clockVars, picVars, timerVars
<1>4. CASE \E t \in Thread : Append_(t) \/ Runs(t) \/ Fire(t)
  <2> PICK t \in Thread : Append_(t) \/ Runs(t) \/ Fire(t)
    BY <1>4
  <2> USE DEF clockVars, picVars, timerVars, envVars, Goto
  <2>1. CASE Append_(t)
    BY <2>1 DEF Append_, TypeOK
  <2>12. CASE Wind(t) \/ Store(t)
    BY <2>12 DEF Wind, Store, TypeOK
  <2>13. CASE Begin(t)
    BY <2>13 DEF Begin, TypeOK
  <2>15. ASSUME Forget(t)
         PROVE  start' \in [Thread -> 0..MaxLag] /\ old' \in [Thread -> 0..Ancient]
    BY <2>15 DEF Forget, TypeOK, Ancient
  <2>14. CASE Lose(t)
    BY <2>14, <2>15 DEF Lose, TypeOK
  <2>2. CASE Load(t)
    <3>1. start' \in [Thread -> 0..MaxLag] /\ old' \in [Thread -> 0..Ancient]
      BY <2>2, <2>15, ZenonT(40) DEF Load, TypeOK
    <3> QED  BY <2>2, <3>1 DEF Load, TypeOK
  <2>3. CASE Win(t)
    <3>1. throt' \in 0..Ancient /\ won' \in SUBSET (0..MaxLag)
      <4>1. start[t] \in 0..MaxLag
        BY DEF TypeOK
      <4>2. throt' = start[t] /\ won' = won \cup {start[t]}
        BY <2>3 DEF Win
      <4>3. won \in SUBSET (0..MaxLag)
        BY DEF TypeOK
      <4>4. start[t] \in 0..Ancient
        BY <4>1 DEF Ancient
      <4> QED  BY <4>1, <4>2, <4>3, <4>4
    <3>2. intact' \in [Thread -> BOOLEAN]
      BY <2>3 DEF Win
    <3>3. pc' = [pc EXCEPT ![t] = "choose"]
      BY <2>3 DEF Win
    <3>4. /\ UNCHANGED <<posted, outs, code, last, sent, slow, degrade, ptr,
                         stray, online, purging, closed>>
          /\ setBack' \in BOOLEAN
          /\ start' \in [Thread -> 0..MaxLag] /\ old' \in [Thread -> 0..Ancient]
      BY <2>3, <2>15 DEF Win
    <3>5. pc' \in [Thread -> {"idle", "wind", "store", "auto", "refresh",
                              "load", "swap", "throttled", "choose", "render",
                              "encode", "rearm", "done"}]
      BY <3>3 DEF TypeOK
    <3> QED  BY <3>1, <3>2, <3>4, <3>5 DEF TypeOK
  <2>4. CASE Throttled(t)
    BY <2>4 DEF Throttled, After, TypeOK
  <2>5. CASE Choose(t)
    BY <2>5 DEF Choose, TypeOK, Code
  <2>6. CASE Render(t)
    <3> DEFINE pic == [ver |-> posted, code |-> code[t], label |-> "webp"]
    <3>1. pic \in Picture
      BY DEF TypeOK, Picture, Code
    <3>2. outs' \in [Thread -> Seq(Picture)]
      <4>1. outs' = [outs EXCEPT ![t] = Append(outs[t], pic)]
        BY <2>6 DEF Render
      <4>2. outs[t] \in Seq(Picture)
        BY DEF TypeOK
      <4> HIDE DEF pic
      <4>3. Append(outs[t], pic) \in Seq(Picture)
        BY <3>1, <4>2
      <4> QED  BY <4>1, <4>3 DEF TypeOK
    <3> QED  BY <2>6, <3>2 DEF Render, TypeOK
  <2>7. CASE Encode(t)
    <3> DEFINE lab == IF degrade' THEN "jpeg" ELSE "webp"
               s == [outs[t] EXCEPT ![Len(outs[t])] =
                       Labelled(outs[t][Len(outs[t])], lab)]
    <3>1. lab \in Code
      BY DEF Code
    <3> HIDE DEF lab
    <3>2. outs[t] \in Seq(Picture)
      BY DEF TypeOK
    <3>3. \A i \in DOMAIN outs[t] : outs[t][i] \in Picture
      BY <3>2
    <3>4. \A p \in Picture : Labelled(p, lab) \in Picture
      BY <3>1 DEF Picture, Labelled
    <3>5. s \in Seq(Picture)
      <4>1. DOMAIN s = DOMAIN outs[t]
        OBVIOUS
      <4>2. \A i \in DOMAIN outs[t] : s[i] \in Picture
        BY <3>3, <3>4
      <4>3. PICK n \in Nat : DOMAIN outs[t] = 1..n
        BY <3>2
      <4> HIDE DEF s
      <4>4. s \in [1..n -> Picture]
        <5>1. s = [i \in DOMAIN outs[t] |-> s[i]]
          BY DEF s
        <5> QED  BY <4>2, <4>3, <5>1
      <4> QED  BY <4>4
    <3>6. outs' \in [Thread -> Seq(Picture)]
      <4>1. outs' = [outs EXCEPT ![t] = s]
        BY <2>7 DEF Encode, lab
      <4> HIDE DEF s
      <4> QED  BY <3>5, <4>1 DEF TypeOK
    <3>7. degrade' \in BOOLEAN
      BY <2>7 DEF Encode, TypeOK
    <3> QED  BY <2>7, <3>6, <3>7 DEF Encode, TypeOK
  <2>8. CASE Publish(t)
    <3>1. outs[t] \in [1..Widths -> Picture]
      BY <2>8 DEF Publish, Complete, TypeOK
    <3>2. last' \in [1..Widths -> Picture]
      BY <2>8, <3>1 DEF Publish
    <3>3. sent' \in [1..Widths -> Picture]
      <4>1. \A p \in Picture : Labelled(p, "webp") \in Picture
        BY DEF Picture, Code, Labelled
      <4>2. sent' = [i \in 1..Widths |-> Labelled(outs[t][i], "webp")]
        BY <2>8, <3>1 DEF Publish
      <4> QED  BY <3>1, <4>1, <4>2
    <3>4. outs' \in [Thread -> Seq(Picture)]
      <4>1. <<>> \in Seq(Picture)
        OBVIOUS
      <4> QED  BY <2>8, <4>1 DEF Publish, TypeOK
    <3>5. pc' \in [Thread -> {"idle", "wind", "store", "auto", "refresh",
                              "load", "swap", "throttled", "choose", "render",
                              "encode", "rearm", "done"}]
      BY <2>8 DEF Publish, After, TypeOK
    <3>6. slow' \in BOOLEAN
      BY <2>8 DEF Publish
    <3> QED  BY <2>8, <3>2, <3>3, <3>4, <3>5, <3>6 DEF Publish, TypeOK
  <2>9. CASE AutoStart(t)
    BY <2>9 DEF AutoStart, AutoNext, TypeOK
  <2>10. CASE Rearm(t)
    BY <2>10 DEF Rearm, TypeOK
  <2>11. CASE Fire(t)
    <3>1. ptr' \in BOOLEAN /\ stray' \in 0..MaxStray
      <4>1. ptr' \in BOOLEAN
        BY <2>11 DEF Fire, TypeOK
      <4>2. stray' = stray \/ (stray > 0 /\ stray' = stray - 1)
        BY <2>11 DEF Fire
      <4>3. stray \in 0..MaxStray
        BY DEF TypeOK
      <4>4. stray' \in 0..MaxStray
        BY <4>2, <4>3
      <4> QED  BY <4>1, <4>4
    <3>2. UNCHANGED <<posted, throt, start, old, intact, won, setBack, outs,
                      code, last, sent, slow, degrade, online, purging, closed>>
      BY <2>11 DEF Fire
    <3>3. pc' \in [Thread -> {"idle", "wind", "store", "auto", "refresh",
                              "load", "swap", "throttled", "choose", "render",
                              "encode", "rearm", "done"}]
      BY <2>11 DEF Fire, TypeOK
    <3> QED  BY <3>1, <3>2, <3>3 DEF TypeOK
  <2> QED  BY <2>1, <2>2, <2>3, <2>4, <2>5, <2>6, <2>7, <2>8, <2>9, <2>10,
              <2>11, <2>12, <2>13, <2>14 DEF Runs
<1> QED  BY <1>1, <1>2, <1>3, <1>4 DEF Next

(* The channel's fields and the locals of every Refresh have their types,  *)
(* and a publication always has one picture per screen width.              *)
THEOREM TypeCorrect == Spec => []TypeOK
BY InitTypeOK, NextTypeOK, PTL DEF Spec

-------------------------------------------------------------------------------
(* The heartbeat.  A goroutine of doAutoRefresh that is under way only     *)
(* stops after arming a timer, or when it finds the channel closed.        *)

LEMMA AutoKeepsGoing ==
  ASSUME TypeOK, NEW t \in Timed, Runs(t)
  PROVE  pc'[t] # "idle" \/ closed' \/ ptr'
<1> USE DEF TypeOK, Thread, Goto, envVars, timerVars
<1>1. CASE Wind(t) \/ Store(t) \/ Begin(t) \/ Load(t) \/ Win(t) \/ Lose(t)
  BY <1>1 DEF Wind, Store, Begin, Load, Win, Lose
<1>2. CASE Throttled(t) \/ Choose(t) \/ Render(t) \/ Encode(t) \/ Publish(t)
  BY <1>2 DEF Throttled, Choose, Render, Encode, Publish, After
<1>3. CASE AutoStart(t) \/ Rearm(t)
  BY <1>3 DEF AutoStart, AutoNext, Rearm
<1> QED  BY <1>1, <1>2, <1>3 DEF Runs

(* The other goroutines never disarm a timer.                              *)
LEMMA OthersDoNotDisarm ==
  ASSUME TypeOK, NEW t \in Thread, Append_(t) \/ Runs(t)
  PROVE  /\ ptr => ptr'
         /\ stray' \in Nat /\ stray' >= stray
         /\ closed' = closed
         /\ \A s \in Thread \ {t} : pc'[s] = pc[s]
<1> USE DEF TypeOK, Goto, envVars, timerVars
<1>1. CASE Append_(t) \/ Wind(t) \/ Store(t) \/ Begin(t) \/ Load(t)
  BY <1>1 DEF Append_, Wind, Store, Begin, Load
<1>2. CASE Win(t) \/ Lose(t) \/ Throttled(t) \/ Choose(t) \/ Render(t)
  BY <1>2 DEF Win, Lose, Throttled, Choose, Render
<1>3. CASE Encode(t)
  BY <1>3 DEF Encode
<1>5. CASE Publish(t)
  BY <1>5 DEF Publish
<1>6. CASE AutoStart(t)
  BY <1>6 DEF AutoStart
<1>4. CASE Rearm(t)
  BY <1>4 DEF Rearm
<1> QED  BY <1>1, <1>2, <1>3, <1>4, <1>5, <1>6 DEF Runs

LEMMA NextTimerAlive == TypeOK /\ TimerAlive /\ [Next]_vars => TimerAlive'
<1> SUFFICES ASSUME TypeOK, TimerAlive, [Next]_vars PROVE TimerAlive'
  OBVIOUS
<1>1. CASE UNCHANGED vars \/ Tick \/ Come \/ Go \/ FoundEmpty \/ Close
  BY <1>1 DEF TimerAlive, vars, Tick, Come, Go, FoundEmpty, Close, timerVars,
              envVars
<1>2. CASE \E t \in Thread : Append_(t) \/ Runs(t)
  <2> PICK t \in Thread : Append_(t) \/ Runs(t)
    BY <1>2
  <2>1. CASE t \in Timed
    <3>1. CASE Append_(t)
      BY <2>1, <3>1 DEF Append_
    <3>2. CASE Runs(t)
      BY <2>1, <3>2, AutoKeepsGoing DEF TimerAlive
    <3> QED  BY <3>1, <3>2
  <2>2. CASE t \notin Timed
    <3>1. \A s \in Thread \ {t} : pc'[s] = pc[s]
      BY OthersDoNotDisarm
    <3>2. \A s \in Timed : pc'[s] = pc[s]
      BY <2>2, <3>1 DEF Thread
    <3>3. (ptr => ptr') /\ stray' >= stray /\ closed' = closed /\ stray' \in Nat
      BY OthersDoNotDisarm
    <3>4. stray \in Nat
      BY DEF TypeOK
    <3> QED  BY <3>2, <3>3, <3>4 DEF TimerAlive
  <2> QED  BY <2>1, <2>2
<1>3. CASE \E t \in Thread : Fire(t)
  BY <1>3 DEF Fire, TimerAlive, Goto, TypeOK
<1> QED  BY <1>1, <1>2, <1>3 DEF Next

(* An open channel never loses its heartbeat, however the goroutines that  *)
(* reset and replace ch.autoRefresh interleave.                            *)
THEOREM HeartbeatCorrect == Spec => []TimerAlive
<1>1. Init => TimerAlive
  BY DEF Init, TimerAlive
<1> QED  BY <1>1, NextTimerAlive, TypeCorrect, PTL DEF Spec

-------------------------------------------------------------------------------
(* The throttle.                                                           *)

(* Whoever is about to swap has loaded another second than its own; and    *)
(* when a Refresh of the running second has proceeded, refreshThrot shows  *)
(* it, or a late one has set it back.                                      *)
ThrottleInv ==
  /\ \A t \in Thread : pc[t] = "swap" => old[t] # start[t]
  /\ 0 \in won => throt = 0 \/ setBack

LEMMA NextThrottleInv == TypeOK /\ ThrottleInv /\ [Next]_vars => ThrottleInv'
<1> SUFFICES ASSUME TypeOK, ThrottleInv, [Next]_vars PROVE ThrottleInv'
  OBVIOUS
<1>1. CASE UNCHANGED vars \/ Come \/ Go \/ FoundEmpty \/ Close
  BY <1>1 DEF ThrottleInv, vars, clockVars, Come, Go, FoundEmpty, Close
<1>2. CASE Tick
  <2>1. ASSUME NEW t \in Thread, pc'[t] = "swap" PROVE old'[t] # start'[t]
    <3>1. pc[t] = "swap" /\ old[t] # start[t] /\ start[t] < MaxLag
      BY <1>2, <2>1 DEF Tick, ThrottleInv, Deciding
    <3>2. old'[t] = Older(old[t]) /\ start'[t] = start[t] + 1
      BY <1>2, <3>1 DEF Tick, Deciding
    <3>3. old[t] \in 0..Ancient /\ start[t] \in 0..MaxLag
      BY DEF TypeOK
    <3> QED  BY <3>1, <3>2, <3>3 DEF Older, Ancient
  <2>2. 0 \notin won'
    BY <1>2 DEF Tick, TypeOK
  <2> QED  BY <2>1, <2>2 DEF ThrottleInv
<1>3. CASE \E t \in Thread : Append_(t) \/ Runs(t) \/ Fire(t)
  <2> PICK t \in Thread : Append_(t) \/ Runs(t) \/ Fire(t)
    BY <1>3
  <2> USE DEF ThrottleInv, TypeOK, clockVars, Goto, Forget
  <2>1. CASE Load(t)
    <3>1. UNCHANGED <<won, throt, setBack>>
      BY <2>1 DEF Load
    <3>2. \A s \in Thread : pc'[s] = "swap" => old'[s] # start'[s]
      BY <2>1 DEF Load
    <3> QED  BY <3>1, <3>2
  <2>2. CASE Win(t)
    <3>1. \A s \in Thread : pc'[s] = "swap" => old'[s] # start'[s]
      BY <2>2 DEF Win
    <3>2. throt' = start[t] /\ start[t] \in 0..MaxLag
      BY <2>2 DEF Win
    <3>3. start[t] > 0 => setBack'
      BY <2>2 DEF Win
    <3>4. throt' = 0 \/ setBack'
      BY <3>2, <3>3
    <3> QED  BY <3>1, <3>4
  <2>3. CASE Begin(t)
    BY <2>3 DEF Begin
  <2>4. CASE Append_(t) \/ Wind(t) \/ Store(t) \/ Fire(t)
    BY <2>4 DEF Append_, Wind, Store, Fire
  <2>7. CASE Lose(t)
    <3>1. UNCHANGED <<won, throt, setBack>>
      BY <2>7 DEF Lose
    <3>2. \A s \in Thread : pc'[s] = "swap" => old'[s] # start'[s]
      BY <2>7 DEF Lose
    <3> QED  BY <3>1, <3>2
  <2>5. CASE Throttled(t) \/ Choose(t) \/ Render(t) \/ Encode(t)
    BY <2>5 DEF Throttled, Choose, Render, Encode, After
  <2>6. CASE Publish(t) \/ AutoStart(t) \/ Rearm(t)
    BY <2>6 DEF Publish, AutoStart, Rearm, After, AutoNext
  <2> QED  BY <2>1, <2>2, <2>3, <2>4, <2>5, <2>6, <2>7 DEF Runs
<1> QED  BY <1>1, <1>2, <1>3 DEF Next

(* Two calls of one second both proceed only where one decides later than  *)
(* in the second it was made in, for any number of goroutines and however  *)
(* late (channel.go:176-178).                                              *)
THEOREM ThrottleCorrect == Spec => OncePerSecondUnlessLate
<1>1. Init => ThrottleInv
  BY DEF Init, ThrottleInv
<1>2. TypeOK /\ ThrottleInv
        => [\A t \in Thread :
              Win(t) /\ start[t] \in won => start[t] > 0 \/ setBack]_vars
  <2> SUFFICES ASSUME TypeOK, ThrottleInv, NEW t \in Thread, Win(t),
                      start[t] \in won, ~(start[t] > 0)
               PROVE  setBack
    OBVIOUS
  <2>1. start[t] = 0
    BY DEF TypeOK
  <2>2. throt # 0
    BY <2>1 DEF Win, Unchanged, ThrottleInv
  <2> QED  BY <2>1, <2>2 DEF ThrottleInv
<1> QED
  BY <1>1, <1>2, NextThrottleInv, TypeCorrect, PTL
     DEF Spec, OncePerSecondUnlessLate
===============================================================================
