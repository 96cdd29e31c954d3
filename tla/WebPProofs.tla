------------------------------ MODULE WebPProofs -------------------------------
(***************************************************************************)
(* Proofs about Worker: its types, that no two sides wait for each other,  *)
(* that no job and no error is lost, and that each of its steps is one of  *)
(* JobSlot's, for any number of jobs and any order of the calls.           *)
(* Then about the two encoders that have a worker do part of their work,   *)
(* StreamEncoder and Encoder: that each answers right and leaves nothing   *)
(* behind, for all pictures.  Last about RowPipeline, the decoder that has *)
(* a worker finish its rows: that what it puts is the picture, also if it  *)
(* stops between two rows and in one, as IncDecoder does.                  *)
(***************************************************************************)
EXTENDS RowPipeline, StreamEncoder, Encoder, TLAPS

USE WorkerAssumption

(* What status says about the two sides.  A thread that is asleep has      *)
(* nothing to do, since main wakes it when it assigns a status; main       *)
(* sleeps only over a job, whose end wakes it.                             *)
Coupled ==
  /\ ~impl => thread = "none" /\ status = "NOT_OK" /\ main = "out"
  /\ impl => thread # "none"
  /\ impl /\ status = "NOT_OK" => main \in {"created", "join"}
  /\ main \in {"created", "join"} => status = "NOT_OK"
  /\ main = "created" => thread = "lock"
  /\ main = "join" => new = "NOT_OK"
  /\ main = "blocked" => status = "WORK"
  /\ thread = "finished" => main = "join"
  /\ thread = "hook" => status = "WORK"
  /\ thread = "blocked" => status = "OK"

Counted ==
  /\ EveryJobOnce
  /\ main \in {"lock", "blocked", "woken"} /\ new = "WORK" => launched < MaxJobs
  /\ quiet => status # "WORK"

IInv == WorkerTypeOK /\ Coupled /\ Counted /\ ErrorsKept

LEMMA InitIInv == WorkerInit => IInv
<1> SUFFICES ASSUME WorkerInit PROVE IInv
  OBVIOUS
<1> USE DEF WorkerInit
<1>1. WorkerTypeOK
  <2>1. impl \in BOOLEAN /\ had_error \in BOOLEAN /\ quiet \in BOOLEAN
          /\ bad \in BOOLEAN
    BY Zenon
  <2>2. launched \in 0..MaxJobs /\ ran \in 0..MaxJobs
    BY SMT
  <2> QED
    BY <2>1, <2>2 DEF WorkerTypeOK, Status
<1>2. Coupled
  BY DEF Coupled
<1>3. Counted
  BY DEF Counted, EveryJobOnce
<1>4. ErrorsKept
  BY Zenon DEF ErrorsKept
<1> QED
  BY <1>1, <1>2, <1>3, <1>4 DEF IInv

-------------------------------------------------------------------------------
(* The invariant is inductive.                                             *)

LEMMA StepType == IInv /\ [WorkerNext]_workerVars => WorkerTypeOK'
<1> SUFFICES ASSUME IInv, [WorkerNext]_workerVars
             PROVE  WorkerTypeOK'
  OBVIOUS
<1> USE DEF IInv, WorkerTypeOK, Status, implVars, bookVars
<1>1. CASE AnyCall
  <2>1. CASE Create \/ CreateFails \/ ResetIdle
    BY <2>1 DEF Create, CreateFails, ResetIdle, ClearError
  <2>2. CASE Sync \/ Launch \/ End
    BY <2>2 DEF Sync, Launch, End, ChangeState
  <2>3. CASE \E well \in BOOLEAN : Execute(well)
    BY <2>3 DEF Execute
  <2> QED
    BY <1>1, <2>1, <2>2, <2>3 DEF AnyCall
<1>2. CASE MainRuns
  <2>1. CASE Created \/ Waits \/ Join
    BY <2>1 DEF Created, Waits, Join
  <2>2. CASE Assigns
    <3>1. thread' \in {"none", "lock", "blocked", "woken", "hook", "finished"}
      BY <2>2 DEF Assigns, SignalThread, Woken
    <3>2. launched' \in 0..MaxJobs
      BY <2>2 DEF Assigns, Locks, Counted
    <3> QED
      BY <2>2, <3>1, <3>2 DEF Assigns
  <2> QED
    BY <1>2, <2>1, <2>2 DEF MainRuns
<1>3. CASE ThreadRuns
  <2>1. CASE Idles \/ Takes \/ Quits
    BY <2>1 DEF Idles, Takes, Quits, SignalMain, Woken
  <2>2. CASE \E well \in BOOLEAN : Ran(well)
    <3>1. ran' \in 0..MaxJobs
      BY <2>2 DEF Ran, Coupled, Counted, EveryJobOnce
    <3> QED
      BY <2>2, <3>1 DEF Ran, KeptError, DoneStatus, SignalMain, Woken
  <2> QED
    BY <1>3, <2>1, <2>2 DEF ThreadRuns
<1>4. CASE Spurious
  BY <1>4 DEF Spurious
<1>5. CASE UNCHANGED workerVars
  BY <1>5 DEF workerVars
<1> QED
  BY <1>1, <1>2, <1>3, <1>4, <1>5 DEF WorkerNext

LEMMA StepCoupled == IInv /\ [WorkerNext]_workerVars => Coupled'
<1> SUFFICES ASSUME IInv, [WorkerNext]_workerVars
             PROVE  Coupled'
  OBVIOUS
<1> USE DEF IInv, WorkerTypeOK, Status, implVars, bookVars, Coupled
<1>1. CASE AnyCall
  <2>1. CASE Create \/ CreateFails \/ ResetIdle
    BY <2>1 DEF Create, CreateFails, ResetIdle, ClearError
  <2>2. CASE Sync \/ Launch \/ End
    BY <2>2 DEF Sync, Launch, End, ChangeState
  <2>3. CASE \E well \in BOOLEAN : Execute(well)
    BY <2>3 DEF Execute
  <2> QED
    BY <1>1, <2>1, <2>2, <2>3 DEF AnyCall
<1>2. CASE MainRuns
  <2>1. CASE Created \/ Join
    BY <2>1 DEF Created, Join, Joined
  <2>2. CASE Waits
    BY <2>2 DEF Waits, Locks, MustWait
  <2>3. CASE Assigns
    <3>1. status = "OK" /\ impl /\ thread # "hook" /\ thread # "finished"
      BY <2>3 DEF Assigns, Locks, MustWait, Unlocked
    <3> QED
      BY <2>3, <3>1 DEF Assigns, SignalThread, Woken
  <2> QED
    BY <1>2, <2>1, <2>2, <2>3 DEF MainRuns
<1>3. CASE ThreadRuns
  <2>1. CASE Idles \/ Takes
    BY <2>1 DEF Idles, Takes, ThreadLocks, Unlocked
  <2>2. CASE Quits
    BY <2>2 DEF Quits, ThreadLocks, Unlocked, SignalMain, Woken
  <2>3. CASE \E well \in BOOLEAN : Ran(well)
    BY <2>3 DEF Ran, DoneStatus, SignalMain, Woken
  <2> QED
    BY <1>3, <2>1, <2>2, <2>3 DEF ThreadRuns
<1>4. CASE Spurious
  BY <1>4 DEF Spurious
<1>5. CASE UNCHANGED workerVars
  BY <1>5 DEF workerVars
<1> QED
  BY <1>1, <1>2, <1>3, <1>4, <1>5 DEF WorkerNext

LEMMA StepCounted == IInv /\ [WorkerNext]_workerVars => Counted'
<1> SUFFICES ASSUME IInv, [WorkerNext]_workerVars
             PROVE  Counted'
  OBVIOUS
<1> USE DEF IInv, WorkerTypeOK, Status, implVars, bookVars, Counted,
            EveryJobOnce
<1>1. CASE AnyCall
  <2>1. CASE Create \/ CreateFails \/ ResetIdle
    BY <2>1 DEF Create, CreateFails, ResetIdle, ClearError
  <2>2. CASE Sync \/ Launch \/ End
    BY <2>2 DEF Sync, Launch, End, ChangeState
  <2>3. CASE \E well \in BOOLEAN : Execute(well)
    BY <2>3 DEF Execute
  <2> QED
    BY <1>1, <2>1, <2>2, <2>3 DEF AnyCall
<1>2. CASE MainRuns
  <2>1. CASE Created \/ Waits \/ Join
    BY <2>1 DEF Created, Waits, Locks, Join, Coupled
  <2>2. CASE Assigns
    <3>1. status = "OK" /\ launched = ran
      BY <2>2 DEF Assigns, MustWait
    <3>2. /\ launched' = ran' + (IF status' = "WORK" THEN 1 ELSE 0)
          /\ main' \in {"join", "out"}
      BY <2>2, <3>1 DEF Assigns
    <3>3. quiet' => status' # "WORK"
      BY <2>2 DEF Assigns
    <3> QED
      BY <3>2, <3>3
  <2> QED
    BY <1>2, <2>1, <2>2 DEF MainRuns
<1>3. CASE ThreadRuns
  <2>1. CASE Idles \/ Takes \/ Quits
    BY <2>1 DEF Idles, Takes, Quits, SignalMain, Woken
  <2>2. CASE \E well \in BOOLEAN : Ran(well)
    <3>1. status = "WORK"
      BY <2>2 DEF Ran, Coupled
    <3> QED
      BY <2>2, <3>1 DEF Ran, KeptError, DoneStatus, SignalMain, Woken
  <2> QED
    BY <1>3, <2>1, <2>2 DEF ThreadRuns
<1>4. CASE Spurious
  BY <1>4 DEF Spurious
<1>5. CASE UNCHANGED workerVars
  BY <1>5 DEF workerVars
<1> QED
  BY <1>1, <1>2, <1>3, <1>4, <1>5 DEF WorkerNext

(* What fails is counted as failed on both sides.                          *)
LEMMA StepErrors == IInv /\ [WorkerNext]_workerVars => ErrorsKept'
<1> SUFFICES ASSUME ErrorsKept, [WorkerNext]_workerVars
             PROVE  ErrorsKept'
  BY DEF IInv
<1> USE DEF ErrorsKept, implVars, bookVars
<1>1. CASE \/ Create \/ CreateFails \/ ResetIdle
  BY <1>1, Zenon DEF Create, CreateFails, ResetIdle, ClearError
<1>2. CASE (\E well \in BOOLEAN : Execute(well)) \/ (\E well \in BOOLEAN : Ran(well))
  BY <1>2, Zenon DEF Execute, Ran, KeptError
<1>3. CASE UNCHANGED <<had_error, bad>>
  BY <1>3, Zenon
<1>4. CASE Sync \/ Launch \/ End \/ MainRuns
  BY <1>4, <1>3 DEF Sync, Launch, End, ChangeState, MainRuns, Created, Waits,
                    Assigns, Join
<1>5. CASE Idles \/ Takes \/ Quits \/ Spurious \/ UNCHANGED workerVars
  BY <1>5, <1>3 DEF Idles, Takes, Quits, Spurious, workerVars
<1> QED
  BY <1>1, <1>2, <1>4, <1>5 DEF WorkerNext, AnyCall, ThreadRuns

LEMMA NextIInv == IInv /\ [WorkerNext]_workerVars => IInv'
  BY StepType, StepCoupled, StepCounted, StepErrors DEF IInv

LEMMA Invariance == WorkerSpec => []IInv
  BY InitIInv, NextIInv, PTL DEF WorkerSpec

-------------------------------------------------------------------------------
(* The fields keep their types, and no more jobs run than were launched.   *)
THEOREM TypeCorrect == WorkerSpec => []WorkerTypeOK
BY Invariance, PTL DEF IInv

LEMMA WorkerSays == IInv => WorkerSound
<1>1. IInv => NeverBothWait
  BY DEF IInv, Coupled, NeverBothWait
<1>2. IInv => EveryJobOnce /\ ErrorsKept
  BY DEF IInv, Counted
<1>3. IInv => NothingLeft
  BY DEF IInv, Coupled, NothingLeft
<1> QED  BY <1>1, <1>2, <1>3 DEF WorkerSound

(* Main and the thread never wait for each other on their one condition,   *)
(* every launched job is executed once or about to be, Sync tells of every *)
(* failure since Reset, and a worker that is not up has neither a thread   *)
(* nor a job (thread_utils.c).                                             *)
THEOREM SoundCorrect == WorkerSpec => []WorkerSound
  BY WorkerSays, Invariance, PTL

-------------------------------------------------------------------------------
(* JobSlot.                                                                *)

LEMMA SlotStep == IInv /\ [WorkerNext]_workerVars
                    => [Slot!SlotNext]_(Slot!slotVars)
<1> SUFFICES ASSUME IInv, [WorkerNext]_workerVars
             PROVE  Slot!SlotNext \/ UNCHANGED Slot!slotVars
  OBVIOUS
<1> USE DEF IInv, WorkerTypeOK, Status, Coupled, Counted, implVars, bookVars, CallOf
<1>1. CASE AnyCall
  <2>1. CASE Create
    <3>1. Slot!StartThread
      BY <2>1 DEF Create, Slot!StartThread
    <3> QED
      BY <3>1 DEF Slot!SlotNext
  <2>2. CASE CreateFails
    <3>1. Slot!StartFails
      BY <2>2 DEF CreateFails, Slot!StartFails
    <3> QED
      BY <3>1 DEF Slot!SlotNext
  <2>3. CASE ResetIdle
    <3>1. Slot!Restart
      BY <2>3 DEF ResetIdle, ClearError, Slot!Restart
    <3> QED
      BY <3>1 DEF Slot!SlotNext
  <2>4. CASE Sync \/ Launch \/ End
    <3>1. CASE impl
      <4>1. CASE Sync
        <5>1. Slot!Ask("Sync")
          BY <4>1, <3>1 DEF Sync, ChangeState, Slot!Ask
        <5> QED
          BY <5>1 DEF Slot!SlotNext, Slot!Calls
      <4>2. CASE Launch
        <5>1. Slot!Ask("Launch")
          BY <4>2, <3>1 DEF Launch, ChangeState, Slot!Ask
        <5> QED
          BY <5>1 DEF Slot!SlotNext, Slot!Calls
      <4>3. CASE End
        <5>1. Slot!Ask("End")
          BY <4>3, <3>1 DEF End, ChangeState, Slot!Ask
        <5> QED
          BY <5>1 DEF Slot!SlotNext, Slot!Calls
      <4> QED
        BY <2>4, <4>1, <4>2, <4>3
    <3>2. CASE ~impl
      BY <2>4, <3>2 DEF Sync, Launch, End, ChangeState, Slot!slotVars
    <3> QED
      BY <3>1, <3>2
  <2>5. CASE \E well \in BOOLEAN : Execute(well)
    <3>1. Slot!DoItMyself
      BY <2>5 DEF Execute, Slot!DoItMyself
    <3> QED
      BY <3>1 DEF Slot!SlotNext
  <2> QED
    BY <1>1, <2>1, <2>2, <2>3, <2>4, <2>5 DEF AnyCall
<1>2. CASE MainRuns
  <2>1. CASE Created
    <3>1. Slot!Return
      BY <2>1 DEF Created, Slot!Return
    <3> QED
      BY <3>1 DEF Slot!SlotNext
  <2>2. CASE Waits
    BY <2>2 DEF Waits, Locks, Slot!slotVars
  <2>3. CASE Assigns /\ new = "NOT_OK"
    BY <2>3 DEF Assigns, Locks, MustWait, Slot!slotVars
  <2>4. CASE Assigns /\ new # "NOT_OK"
    <3>1. status = "OK" /\ impl
      BY <2>4 DEF Assigns, Locks, MustWait
    <3>2. Slot!Return
      BY <2>4, <3>1 DEF Assigns, Locks, Slot!Return
    <3> QED
      BY <3>2 DEF Slot!SlotNext
  <2>5. CASE Join
    <3>1. Slot!Return
      BY <2>5 DEF Join, Slot!Return
    <3> QED
      BY <3>1 DEF Slot!SlotNext
  <2> QED
    BY <1>2, <2>1, <2>2, <2>3, <2>4, <2>5 DEF MainRuns
<1>3. CASE ThreadRuns
  <2>1. CASE Idles \/ Takes
    BY <2>1 DEF Idles, Takes, Slot!slotVars
  <2>2. CASE Quits
    BY <2>2 DEF Quits, SignalMain, Woken, Slot!slotVars
  <2>3. CASE \E well \in BOOLEAN : Ran(well)
    <3>1. Slot!JobDone
      BY <2>3 DEF Ran, KeptError, DoneStatus, SignalMain, Woken, Slot!JobDone
    <3> QED
      BY <3>1 DEF Slot!SlotNext
  <2> QED
    BY <1>3, <2>1, <2>2, <2>3 DEF ThreadRuns
<1>4. CASE Spurious
  BY <1>4 DEF Spurious, Slot!slotVars
<1>5. CASE UNCHANGED workerVars
  BY <1>5 DEF workerVars, Slot!slotVars
<1> QED
  BY <1>1, <1>2, <1>3, <1>4, <1>5 DEF WorkerNext

(* The code does nothing that JobSlot does not promise to the callers.     *)
THEOREM SlotCorrect == WorkerSpec => Slot!SlotSteps
<1>1. WorkerInit => Slot!SlotInit
  BY DEF WorkerInit, Slot!SlotInit, CallOf
<1>2. IInv /\ [WorkerNext]_workerVars => [Slot!SlotNext]_(Slot!slotVars)
  BY SlotStep
<1> QED
  BY <1>1, <1>2, Invariance, PTL DEF WorkerSpec, Slot!SlotSteps

-------------------------------------------------------------------------------
(* The stream encoder.                                                     *)

(* How the configurations are divided.                                     *)
LEMMA Halves ==
  ASSUME NEW s \in Streams
  PROVE  /\ SideConfigs(s) \in Nat /\ MainConfigs(s) \in Nat \ {0}
         /\ MainConfigs(s) + SideConfigs(s) = s.configs
         /\ s.configs \in Nat
<1>1. s.configs \in Nat \ {0} /\ s.threads \in BOOLEAN
  BY StreamsAssumption
<1>2. \A n \in Nat \ {0} : n \div 2 \in Nat /\ n \div 2 < n
  OBVIOUS
<1>3. SideConfigs(s) \in Nat /\ SideConfigs(s) < s.configs
  BY <1>1, <1>2 DEF SideConfigs
<1> QED  BY <1>1, <1>3 DEF MainConfigs

(* Whatever the stream encoder does, it does to the worker what any owner  *)
(* may do.                                                                 *)
LEMMA StreamWorks == StreamNext => [WorkerNext]_workerVars
<1> SUFFICES ASSUME StreamNext PROVE WorkerNext \/ UNCHANGED workerVars
  OBVIOUS
<1> USE DEF WorkerNext, AnyCall, MainRuns, ThreadRuns
<1>1. CASE StreamCalls
  <2>1. CASE NewEncoder \/ EncoderAnalyze \/ SideWriterInit \/ CloneWriter
               \/ NewSideEncoder \/ ChooseStream \/ CleanUp
    BY <2>1 DEF NewEncoder, EncoderAnalyze, SideWriterInit, CloneWriter,
                NewSideEncoder, ChooseStream, CleanUp
  <2>2. CASE ResetSide \/ LaunchStream \/ SyncStream \/ EndStream
    BY <2>2 DEF ResetSide, LaunchStream, SyncStream, EndStream, SyncsSide,
                EndsSide
  <2>3. CASE Prepares("main") \/ TryConfig("main")
    BY <2>3 DEF Prepares, TryConfig
  <2>4. CASE \E e \in {NoError} \cup Errors : HookEnds("main", e)
    BY <2>4 DEF HookEnds
  <2> QED  BY <1>1, <2>1, <2>2, <2>3, <2>4 DEF StreamCalls
<1>2. CASE StreamJobs
  <2>1. CASE Prepares("side") \/ TryConfig("side")
    BY <2>1 DEF Prepares, TryConfig
  <2>2. ASSUME NEW e \in {NoError} \cup Errors, HookEnds("side", e)
        PROVE  WorkerNext
    <3>1. Ran(e = NoError) /\ (e = NoError) \in BOOLEAN
      BY <2>2 DEF HookEnds
    <3> QED  BY <3>1
  <2> QED  BY <1>2, <2>1, <2>2 DEF StreamJobs
<1>3. CASE StreamWaits \/ (Spurious /\ UNCHANGED streamVars)
  BY <1>3 DEF StreamWaits
<1> QED  BY <1>1, <1>2, <1>3 DEF StreamNext

-------------------------------------------------------------------------------
(* The inductive invariant of the stream encoder.                          *)

Early == {"new", "analyse", "init", "clone", "side", "reset"}
Late  == {"error", "returned", "crashed"}

(* Which call of the worker main is in, and that there is a thread from    *)
(* the Reset to the End of its worker.                                     *)
Asks ==
  /\ main = "created" => phase = "launch"
  /\ phase = "launch" => main \in {"created", "out"}
  /\ main \notin {"created", "out"} =>
       \/ phase = "hook" /\ new = "WORK"
       \/ phase = "end" /\ new = "OK"
       \/ phase = "choose" /\ new = "NOT_OK"
  /\ impl <=> /\ SideConfigs(stream) > 0
              /\ \/ phase \in {"launch", "hook", "sync", "end"}
                 \/ phase = "choose" /\ main # "out"
  /\ phase \in {"clone", "side", "reset"} => SideConfigs(stream) > 0

(* The side has one job at most, which main waits for.                     *)
OneJob ==
  /\ launched <= 1
  /\ phase \in Early \cup {"launch"} \/ (phase = "hook" /\ main # "out")
       => launched = 0
  /\ SideConfigs(stream) > 0
       /\ (phase \in {"sync", "end", "choose"} \/ (phase = "hook" /\ main = "out"))
       => launched = 1
  /\ SideConfigs(stream) = 0 => launched = 0
  /\ (phase = "end" /\ main = "out") \/ phase = "choose" => status # "WORK"

(* The configurations a hook has tried, of which it keeps the best.        *)
Offset(s) == IF s = "main" THEN 0 ELSE MainConfigs(stream)
Tried(s)  == {c \in 1..stream.configs :
                Offset(s) < c /\ c < Offset(s) + next[s]}
BestKept  ==
  \A s \in Sides :
    /\ next[s] <= Configs(s) + 1
    /\ next[s] > 1 =>
         /\ best[s] \in Tried(s)
         /\ \A c \in Tried(s) : stream.size[c] >= stream.size[best[s]]

(* A hook that has returned has failed or tried them all.                  *)
Ended(s) == err[s] # NoError \/ next[s] = Configs(s) + 1
Results ==
  /\ ran = 0 => err["side"] = NoError
  /\ ran = 1 => Ended("side")
  /\ phase \in Early \cup {"launch", "hook"} => err["main"] = NoError
  /\ phase \in {"sync", "end", "choose"} => Ended("main")

(* The errors that have occurred are in one of the three places.           *)
Told ==
  /\ phase \notin Late => /\ err["all"] = NoError
                          /\ troubles = {err["main"], err["side"]} \ {NoError}
  /\ phase \in Late => IF troubles = {} THEN err["all"] = NoError
                                        ELSE err["all"] \in troubles

Chosen ==
  phase \in Late /\ err["all"] = NoError =>
    /\ winner \in 1..stream.configs
    /\ \A c \in 1..stream.configs : stream.size[c] >= stream.size[winner]

StreamFreed == phase = "returned" => encs = {} /\ bw_side = "freed"

StreamInv ==
  /\ IInv /\ StreamTypeOK
  /\ Asks /\ OneJob /\ BestKept /\ Results /\ Told /\ Chosen /\ StreamFreed

(* Whoever has not begun yet has the types.                                *)
LEMMA StreamFields == ASSUME NEW p, StreamStart(p) PROVE StreamDataOK
<1> USE DEF StreamStart
<1>1. stream \in Streams
  OBVIOUS
<1>2. SideConfigs(stream) \in Nat /\ stream.configs \in Nat
  BY <1>1, Halves
<1> QED  BY <1>2 DEF StreamDataOK, Sides, NoError, Errors

LEMMA InitStream == WorkerInit /\ StreamInit => StreamInv
<1> SUFFICES ASSUME WorkerInit, StreamInit PROVE StreamInv
  OBVIOUS
<1>1. IInv
  BY InitIInv
<1> USE DEF StreamInit, StreamStart
<1>2. stream \in Streams /\ phase = "new"
  OBVIOUS
<1>3. /\ SideConfigs(stream) \in Nat /\ MainConfigs(stream) \in Nat \ {0}
      /\ stream.configs \in Nat
  BY <1>2, Halves
<1>4. StreamTypeOK
  BY StreamFields DEF StreamTypeOK
<1>5. Asks /\ OneJob
  BY DEF WorkerInit, Asks, OneJob, Early
<1>6. BestKept
  BY <1>3 DEF BestKept, Configs
<1>7. Results /\ Told /\ Chosen /\ StreamFreed
  BY DEF WorkerInit, Results, Told, Chosen, StreamFreed, Sides, NoError, Early,
         Late
<1> HIDE DEF StreamInit
<1> QED  BY <1>1, <1>4, <1>5, <1>6, <1>7 DEF StreamInv

(* An error has a code of its own.                                         *)
LEMMA Failing ==
  ASSUME StreamDataOK, Fails(1)
  PROVE  /\ err' \in [Sides \cup {"all"} -> {NoError} \cup Errors]
         /\ troubles' \subseteq Errors
         /\ phase' = "error"
<1>1. 1 \in Errors /\ troubles \subseteq Errors
        /\ err \in [Sides \cup {"all"} -> {NoError} \cup Errors]
  BY DEF StreamDataOK, Errors
<1>2. err' = [err EXCEPT !["all"] = 1] /\ troubles' = troubles \cup {1}
        /\ phase' = "error"
  BY DEF Fails
<1> QED  BY <1>1, <1>2

LEMMA NextStreamType == StreamInv /\ [StreamNext]_losslessVars => StreamTypeOK'
<1> SUFFICES ASSUME StreamTypeOK, [StreamNext]_losslessVars PROVE StreamTypeOK'
  BY DEF StreamInv
<1> USE DEF StreamTypeOK
<1>1. CASE UNCHANGED streamVars
  BY <1>1 DEF streamVars, StreamDataOK
<1>2. CASE NewEncoder \/ NewSideEncoder
  <2>1. encs' \subseteq Sides
    BY <1>2 DEF NewEncoder, NewSideEncoder, Sides, StreamDataOK
  <2>2. UNCHANGED <<stream, next, best, winner, bw_side>>
    BY <1>2 DEF NewEncoder, NewSideEncoder
  <2>3. CASE Fails(1)
    BY <2>1, <2>2, <2>3, Failing DEF StreamDataOK
  <2>4. CASE Goes("analyse") \/ Goes("reset")
    BY <2>1, <2>2, <2>4 DEF StreamDataOK, Goes
  <2> QED  BY <1>2, <2>3, <2>4 DEF NewEncoder, NewSideEncoder
<1>3. CASE EncoderAnalyze \/ CloneWriter \/ ResetSide \/ LaunchStream
             \/ SyncStream \/ EndStream
  <2>1. UNCHANGED <<stream, next, best, winner, encs, bw_side>>
    BY <1>3 DEF EncoderAnalyze, CloneWriter, ResetSide, LaunchStream, SyncStream,
                EndStream
  <2>2. CASE Fails(1)
    BY <2>1, <2>2, Failing DEF StreamDataOK
  <2>3. CASE \E p \in {"init", "side", "launch", "hook", "end", "choose"} : Goes(p)
    BY <2>1, <2>3 DEF StreamDataOK, Goes
  <2> QED  BY <1>3, <2>2, <2>3 DEF EncoderAnalyze, CloneWriter, ResetSide,
                LaunchStream, SyncStream, EndStream
<1>4. CASE SideWriterInit
  <2>1. UNCHANGED <<stream, next, best, winner, encs>>
          /\ bw_side' \in {"open", "freed"}
    BY <1>4 DEF SideWriterInit
  <2>2. CASE Fails(1)
    BY <2>1, <2>2, Failing DEF StreamDataOK
  <2>3. CASE Goes("clone") \/ Goes("hook")
    BY <2>1, <2>3 DEF StreamDataOK, Goes
  <2> QED  BY <1>4, <2>2, <2>3 DEF SideWriterInit
<1>5. CASE ChooseStream
  BY <1>5 DEF ChooseStream, JobError, Sides, StreamDataOK
<1>6. CASE CleanUp
  BY <1>6 DEF CleanUp, Frees, Goes, StreamDataOK
<1>7. ASSUME NEW s \in Sides, Prepares(s) \/ TryConfig(s) PROVE StreamTypeOK'
  <2>1. /\ SideConfigs(stream) \in Nat /\ MainConfigs(stream) \in Nat \ {0}
        /\ MainConfigs(stream) + SideConfigs(stream) = stream.configs
        /\ stream.configs \in Nat
    BY Halves DEF StreamDataOK
  <2>2. CASE Prepares(s)
    BY <2>1, <2>2 DEF Prepares, StreamDataOK
  <2>3. CASE TryConfig(s)
    <3>1. next[s] \in 1..Configs(s) /\ Configs(s) <= stream.configs
            /\ Configs(s) \in Nat
      BY <2>1, <2>3 DEF TryConfig, Configs, StreamDataOK
    <3>2. ConfigAt(s) \in 1..stream.configs
      BY <2>1, <3>1 DEF ConfigAt, SideFirstConfig, Configs, Sides
    <3>3. next' \in [Sides -> 0..(stream.configs + 1)]
      BY <2>1, <2>3, <3>1 DEF TryConfig, StreamDataOK
    <3>4. best' \in [Sides -> 0..stream.configs]
      <4>1. best' = [best EXCEPT ![s] =
                  IF next[s] = 1 \/ Better(s, ConfigAt(s)) THEN ConfigAt(s) ELSE @]
        BY <2>3 DEF TryConfig
      <4> QED  BY <2>1, <3>2, <4>1 DEF StreamDataOK
    <3> QED  BY <2>3, <3>3, <3>4 DEF TryConfig, StreamDataOK
  <2> QED  BY <1>7, <2>2, <2>3
<1>8. ASSUME NEW s \in Sides, NEW e \in {NoError} \cup Errors, HookEnds(s, e)
      PROVE  StreamTypeOK'
  BY <1>8 DEF HookEnds, HookError, StreamDataOK, Goes
<1> QED
  BY <1>1, <1>2, <1>3, <1>4, <1>5, <1>6, <1>7, <1>8
     DEF StreamNext, StreamCalls, StreamWaits, StreamJobs, losslessVars, Sides

LEMMA NextWorks == StreamInv /\ [StreamNext]_losslessVars => IInv'
<1> SUFFICES ASSUME IInv, [StreamNext]_losslessVars PROVE IInv'
  BY DEF StreamInv
<1>1. [WorkerNext]_workerVars
  BY StreamWorks DEF losslessVars
<1> QED  BY <1>1, StepType, StepCoupled, StepCounted, StepErrors DEF IInv

LEMMA NextAsks == StreamInv /\ [StreamNext]_losslessVars => Asks'
<1> SUFFICES ASSUME StreamInv, [StreamNext]_losslessVars PROVE Asks'
  OBVIOUS
<1>1. Asks /\ Coupled /\ WorkerTypeOK
  BY DEF StreamInv, IInv
<1>2. /\ main = "created" => phase = "launch"
      /\ phase = "launch" => main \in {"created", "out"}
      /\ main \notin {"created", "out"} =>
           \/ phase = "hook" /\ new = "WORK"
           \/ phase = "end" /\ new = "OK"
           \/ phase = "choose" /\ new = "NOT_OK"
      /\ impl <=> /\ SideConfigs(stream) > 0
                  /\ \/ phase \in {"launch", "hook", "sync", "end"}
                     \/ phase = "choose" /\ main # "out"
      /\ phase \in {"clone", "side", "reset"} => SideConfigs(stream) > 0
  BY <1>1 DEF Asks
<1>3. CASE NewEncoder \/ EncoderAnalyze \/ SideWriterInit \/ CloneWriter
             \/ NewSideEncoder \/ ChooseStream \/ CleanUp
             \/ Prepares("main") \/ TryConfig("main")
             \/ Prepares("side") \/ TryConfig("side")
  <2>1. UNCHANGED <<main, new, impl, stream>>
    BY <1>3 DEF NewEncoder, EncoderAnalyze, SideWriterInit, CloneWriter,
         NewSideEncoder, ChooseStream, CleanUp, Prepares, TryConfig, workerVars,
         implVars
  <2>2. SideConfigs(stream)' = SideConfigs(stream)
    BY <2>1
  <2>3. CASE UNCHANGED phase
    BY <1>2, <2>1, <2>2, <2>3 DEF Asks
  <2>4. CASE phase' # phase
    <3>1. /\ phase \in {"new", "analyse", "init", "clone", "side", "choose", "error"}
          /\ phase = "choose" => main = "out"
          /\ phase' \in {"analyse", "init", "clone", "side", "reset", "hook",
                         "error", "returned", "crashed"}
          /\ phase' = "hook" => phase = "init" /\ ~(SideConfigs(stream) > 0)
          /\ phase' = "clone" => SideConfigs(stream) > 0
          /\ phase' \in {"side", "reset"} => phase \in {"clone", "side"}
      BY <1>3, <2>4 DEF NewEncoder, EncoderAnalyze, SideWriterInit, CloneWriter,
           NewSideEncoder, ChooseStream, CleanUp, Prepares, TryConfig, Goes, Fails
    <3>2. phase = "init" => ~impl
      BY <1>2
    <3> QED  BY <1>2, <2>1, <2>2, <3>1, <3>2 DEF Asks
  <2> QED  BY <2>3, <2>4
<1>4. CASE ResetSide
  BY <1>1, <1>4 DEF ResetSide, Create, CreateFails, Goes, Fails, Asks
<1>5. CASE LaunchStream
  BY <1>1, <1>5 DEF LaunchStream, Launch, ChangeState, Goes, Asks, implVars
<1>6. CASE SyncStream
  BY <1>1, <1>6 DEF SyncStream, SyncsSide, Sync, ChangeState, Goes, Asks,
                    implVars, workerVars
<1>7. CASE EndStream
  BY <1>1, <1>7 DEF EndStream, EndsSide, End, ChangeState, Goes, Asks,
                    implVars, workerVars
<1>8. ASSUME NEW s \in Sides, NEW e \in {NoError} \cup Errors, HookEnds(s, e)
      PROVE  Asks'
  <2>1. CASE s = "main"
    BY <1>1, <1>8, <2>1 DEF HookEnds, Hooked, Asks, workerVars, implVars
  <2>2. CASE s # "main"
    BY <1>1, <1>8, <2>2 DEF HookEnds, Ran, SignalMain, Woken, Asks
  <2> QED  BY <2>1, <2>2
<1>9. CASE StreamWaits
  <2>1. CASE Join
    BY <1>1, <1>9, <2>1 DEF StreamWaits, streamVars, Join, Asks, Coupled
  <2>2. CASE Created \/ Waits \/ Assigns
    BY <1>1, <1>9, <2>2 DEF StreamWaits, streamVars, Created, Waits, Assigns,
         Locks, implVars, Asks, Coupled
  <2> QED  BY <1>9, <2>1, <2>2 DEF StreamWaits
<1>10. CASE (Idles \/ Takes \/ Quits) /\ UNCHANGED streamVars
  BY <1>1, <1>10 DEF streamVars, Idles, Takes, Quits, SignalMain, Woken, implVars,
                     Asks, Coupled
<1>11. CASE Spurious /\ UNCHANGED streamVars
  BY <1>1, <1>11 DEF streamVars, Spurious, implVars, Asks
<1>12. CASE UNCHANGED losslessVars
  BY <1>1, <1>12 DEF losslessVars, streamVars, workerVars, implVars, Asks
<1> QED
  BY <1>3, <1>4, <1>5, <1>6, <1>7, <1>8, <1>9, <1>10, <1>11, <1>12
     DEF StreamNext, StreamCalls, StreamJobs, Sides

LEMMA NextOneJob == StreamInv /\ [StreamNext]_losslessVars => OneJob'
<1> SUFFICES ASSUME StreamInv, [StreamNext]_losslessVars PROVE OneJob'
  OBVIOUS
<1>1. OneJob /\ Asks /\ Coupled /\ WorkerTypeOK /\ StreamTypeOK
  BY DEF StreamInv, IInv
<1>2. SideConfigs(stream) \in Nat /\ launched \in Nat
  BY <1>1, Halves DEF StreamTypeOK, StreamDataOK, WorkerTypeOK
<1> USE DEF OneJob, Early
<1>3. CASE NewEncoder \/ EncoderAnalyze \/ SideWriterInit \/ CloneWriter
             \/ NewSideEncoder \/ ChooseStream \/ CleanUp
             \/ Prepares("main") \/ TryConfig("main")
             \/ Prepares("side") \/ TryConfig("side")
  <2>1. /\ UNCHANGED <<main, launched, status, stream>>
        /\ SideConfigs(stream)' = SideConfigs(stream)
    BY <1>3 DEF NewEncoder, EncoderAnalyze, SideWriterInit, CloneWriter,
         NewSideEncoder, ChooseStream, CleanUp, Prepares, TryConfig, workerVars,
         implVars, bookVars
  <2>2. CASE UNCHANGED phase
    BY <1>1, <2>1, <2>2
  <2>3. CASE phase' # phase
    <3>1. /\ phase' = "hook" => phase = "init" /\ main = "out" /\ SideConfigs(stream) = 0
          /\ phase' \notin {"sync", "end", "choose"}
          /\ phase' \in Early => phase \in Early
          /\ phase' # "launch"
      <4>1. CASE SideWriterInit
        <5>1. phase = "init" => main = "out"
          BY <1>1 DEF Asks
        <5> QED  BY <1>2, <4>1, <5>1 DEF SideWriterInit, Goes, Fails
      <4>2. CASE ~SideWriterInit
        BY <1>3, <2>3, <4>2 DEF NewEncoder, EncoderAnalyze, CloneWriter,
             NewSideEncoder, ChooseStream, CleanUp, Prepares, TryConfig, Goes, Fails
      <4> QED  BY <4>1, <4>2
    <3> QED  BY <1>1, <2>1, <3>1
  <2> QED  BY <2>2, <2>3
<1>4. CASE ResetSide
  BY <1>1, <1>2, <1>4 DEF ResetSide, Create, CreateFails, Goes, Fails, Asks
<1>5. CASE LaunchStream
  BY <1>1, <1>2, <1>5 DEF LaunchStream, Launch, ChangeState, Goes, Asks, implVars,
                          bookVars
<1>6. CASE SyncStream
  BY <1>1, <1>2, <1>6 DEF SyncStream, SyncsSide, Sync, ChangeState, Goes, Asks,
                    implVars, workerVars, bookVars, Coupled
<1>7. CASE EndStream
  BY <1>1, <1>2, <1>7 DEF EndStream, EndsSide, End, ChangeState, Goes, Asks,
                    implVars, workerVars, bookVars, Coupled
<1>8. ASSUME NEW s \in Sides, NEW e \in {NoError} \cup Errors, HookEnds(s, e)
      PROVE  OneJob'
  <2>1. CASE s = "main"
    BY <1>1, <1>2, <1>8, <2>1 DEF HookEnds, Hooked, workerVars, implVars, bookVars
  <2>2. CASE s # "main"
    BY <1>1, <1>2, <1>8, <2>2 DEF HookEnds, Ran, SignalMain, Woken, Coupled,
                                  DoneStatus
  <2> QED  BY <2>1, <2>2
<1>9. CASE StreamWaits
  <2>1. CASE Created
    BY <1>1, <1>2, <1>9, <2>1 DEF StreamWaits, streamVars, Created, bookVars, Asks
  <2>2. CASE Join
    BY <1>1, <1>2, <1>9, <2>2 DEF StreamWaits, streamVars, Join, bookVars, Asks,
                                  Coupled
  <2>3. CASE Waits
    BY <1>1, <1>2, <1>9, <2>3 DEF StreamWaits, streamVars, Waits, Locks, bookVars,
                                  implVars
  <2>4. CASE Assigns
    BY <1>1, <1>2, <1>9, <2>4 DEF StreamWaits, streamVars, Assigns, Locks, Asks,
                                  Coupled, MustWait
  <2> QED  BY <1>9, <2>1, <2>2, <2>3, <2>4 DEF StreamWaits
<1>10. CASE (Idles \/ Takes \/ Quits) /\ UNCHANGED streamVars
  BY <1>1, <1>2, <1>10 DEF streamVars, Idles, Takes, Quits, SignalMain, Woken,
                     implVars, bookVars
<1>11. CASE Spurious /\ UNCHANGED streamVars
  BY <1>1, <1>2, <1>11 DEF streamVars, Spurious, implVars, bookVars
<1>12. CASE UNCHANGED losslessVars
  BY <1>1, <1>2, <1>12 DEF losslessVars, streamVars, workerVars, implVars, bookVars
<1> QED
  BY <1>3, <1>4, <1>5, <1>6, <1>7, <1>8, <1>9, <1>10, <1>11, <1>12
     DEF StreamNext, StreamCalls, StreamJobs, Sides

(* Only a turn of a hook changes what it has tried.                        *)
LEMMA NextBestKept == StreamInv /\ [StreamNext]_losslessVars => BestKept'
<1> SUFFICES ASSUME StreamInv, [StreamNext]_losslessVars PROVE BestKept'
  OBVIOUS
<1>1. BestKept /\ StreamDataOK
  BY DEF StreamInv, StreamTypeOK
<1>2. /\ SideConfigs(stream) \in Nat /\ MainConfigs(stream) \in Nat
      /\ MainConfigs(stream) + SideConfigs(stream) = stream.configs
      /\ stream.configs \in Nat
      /\ \A c \in 1..stream.configs : stream.size[c] \in Nat
  BY <1>1, Halves, StreamsAssumption DEF StreamDataOK
<1>3. \A s \in Sides : /\ Configs(s) \in Nat /\ Offset(s) \in Nat
                       /\ Offset(s) + Configs(s) <= stream.configs
  BY <1>2 DEF Configs, Offset, Sides
<1>4. ASSUME NEW s \in Sides, Prepares(s) PROVE BestKept'
  <2>1. /\ next' = [next EXCEPT ![s] = 1] /\ next[s] = 0
        /\ UNCHANGED <<best, stream>>
    BY <1>4 DEF Prepares
  <2>2. next'[s] = 1 /\ \A t \in Sides \ {s} : next'[t] = next[t]
    BY <1>1, <2>1 DEF StreamDataOK
  <2> SUFFICES ASSUME NEW t \in Sides
               PROVE  /\ next'[t] <= Configs(t) + 1
                      /\ next'[t] > 1 =>
                           /\ best[t] \in Tried(t)'
                           /\ \A c \in Tried(t)' : stream.size[c] >= stream.size[best[t]]
    BY <2>1 DEF BestKept, Configs
  <2>3. CASE t = s
    BY <1>3, <2>2, <2>3
  <2>4. CASE t # s
    <3>1. Tried(t)' = Tried(t)
      BY <2>1, <2>2, <2>4 DEF Tried, Offset
    <3> QED  BY <1>1, <2>2, <2>4, <3>1 DEF BestKept
  <2> QED  BY <2>3, <2>4
<1>5. ASSUME NEW s \in Sides, TryConfig(s) PROVE BestKept'
  <2> DEFINE c == ConfigAt(s)
  <2>1. /\ next' = [next EXCEPT ![s] = next[s] + 1] /\ next[s] \in 1..Configs(s)
        /\ best' = [best EXCEPT ![s] =
                      IF next[s] = 1 \/ Better(s, c) THEN c ELSE best[s]]
        /\ UNCHANGED stream
    BY <1>5 DEF TryConfig
  <2>2. /\ next'[s] = next[s] + 1 /\ next[s] \in Nat
        /\ best'[s] = IF next[s] = 1 \/ Better(s, c) THEN c ELSE best[s]
        /\ \A t \in Sides \ {s} : next'[t] = next[t] /\ best'[t] = best[t]
    BY <1>1, <1>3, <2>1 DEF StreamDataOK
  <2>3. c = next[s] + Offset(s) /\ c \in 1..stream.configs
    BY <1>2, <1>3, <2>1 DEF ConfigAt, Offset, SideFirstConfig
  <2>4. Tried(s)' = Tried(s) \cup {c} /\ Tried(s) \subseteq 1..stream.configs
    BY <1>3, <2>1, <2>2, <2>3 DEF Tried, Offset
  <2> SUFFICES ASSUME NEW t \in Sides
               PROVE  /\ next'[t] <= Configs(t) + 1
                      /\ next'[t] > 1 =>
                           /\ best'[t] \in Tried(t)'
                           /\ \A d \in Tried(t)' : stream.size[d] >= stream.size[best'[t]]
    BY <2>1 DEF BestKept, Configs
  <2>5. CASE t # s
    <3>1. Tried(t)' = Tried(t)
      BY <2>1, <2>2, <2>5 DEF Tried, Offset
    <3> QED  BY <1>1, <2>2, <2>5, <3>1 DEF BestKept
  <2>6. CASE t = s
    <3>1. next'[s] <= Configs(s) + 1
      BY <1>3, <2>1, <2>2
    <3>2. best'[s] \in Tried(s)'
            /\ \A d \in Tried(s)' : stream.size[d] >= stream.size[best'[s]]
      <4>1. CASE next[s] = 1
        <5>1. Tried(s) = {}
          BY <1>3, <4>1 DEF Tried
        <5> QED  BY <1>2, <2>2, <2>3, <2>4, <4>1, <5>1
      <4>2. CASE next[s] # 1
        <5>1. /\ best[s] \in Tried(s)
              /\ \A d \in Tried(s) : stream.size[d] >= stream.size[best[s]]
          BY <1>1, <2>1, <2>2, <4>2 DEF BestKept
        <5>2. best[s] \in 1..stream.configs
          BY <2>4, <5>1
        <5>3. Better(s, c) <=> stream.size[c] < stream.size[best[s]]
          BY <2>3, <5>2 DEF Better, Bytes
        <5>4. /\ stream.size[c] \in Nat /\ stream.size[best[s]] \in Nat
              /\ \A d \in Tried(s) : stream.size[d] \in Nat
          BY <1>2, <2>3, <2>4, <5>2
        <5> HIDE DEF c
        <5>5. CASE Better(s, c)
          BY <2>2, <2>4, <4>2, <5>1, <5>3, <5>4, <5>5
        <5>6. CASE ~Better(s, c)
          BY <2>2, <2>4, <4>2, <5>1, <5>3, <5>4, <5>6
        <5> QED  BY <5>5, <5>6
      <4> QED  BY <4>1, <4>2
    <3> QED  BY <2>6, <3>1, <3>2
  <2> QED  BY <2>5, <2>6
<1>6. CASE UNCHANGED <<next, best, stream>>
  BY <1>1, <1>6 DEF BestKept, Tried, Configs, Offset
<1>7. \/ UNCHANGED <<next, best, stream>>
      \/ \E s \in Sides : Prepares(s) \/ TryConfig(s)
  BY DEF StreamNext, StreamCalls, StreamJobs, StreamWaits, losslessVars, streamVars,
         Sides, NewEncoder, EncoderAnalyze, SideWriterInit, CloneWriter,
         NewSideEncoder, ResetSide, LaunchStream, SyncStream, EndStream,
         ChooseStream, CleanUp, HookEnds
<1> QED  BY <1>4, <1>5, <1>6, <1>7

(* The side executes its job while main waits for it at most, and nothing  *)
(* has failed in it yet.                                                   *)
LEMMA SideHooks ==
  ASSUME StreamInv, thread = "hook"
  PROVE  /\ status = "WORK" /\ ran = 0 /\ SideConfigs(stream) > 0
         /\ phase \notin Early \cup Late \cup {"choose"}
         /\ ~(phase = "end" /\ main = "out")
<1>1. OneJob /\ Asks /\ Coupled /\ WorkerTypeOK /\ StreamTypeOK /\ EveryJobOnce
  BY DEF StreamInv, IInv, Counted
<1>2. status = "WORK" /\ impl
  BY <1>1 DEF Coupled
<1>3. ran = 0
  BY <1>1, <1>2 DEF EveryJobOnce, OneJob, WorkerTypeOK
<1>4. /\ SideConfigs(stream) > 0
      /\ \/ phase \in {"launch", "hook", "sync", "end"}
         \/ phase = "choose" /\ main # "out"
  BY <1>1, <1>2 DEF Asks
<1>5. (phase = "end" /\ main = "out") \/ phase = "choose" => status # "WORK"
  BY <1>1 DEF OneJob
<1> QED  BY <1>2, <1>3, <1>4, <1>5 DEF Early, Late

(* Nothing but the end of a hook changes its error.                        *)
LEMMA ErrorsOnlyThere ==
  ASSUME StreamDataOK, [StreamNext]_losslessVars,
         ~ \E s \in Sides, e \in {NoError} \cup Errors : HookEnds(s, e)
  PROVE  /\ err'["main"] = err["main"] /\ err'["side"] = err["side"]
         /\ UNCHANGED ran
<1> USE DEF StreamDataOK, Sides
<1>1. CASE NewEncoder \/ EncoderAnalyze \/ SideWriterInit \/ CloneWriter
             \/ NewSideEncoder
  BY <1>1 DEF NewEncoder, EncoderAnalyze, SideWriterInit, CloneWriter,
       NewSideEncoder, Goes, Fails, workerVars, bookVars
<1>2. CASE ResetSide \/ LaunchStream \/ SyncStream \/ EndStream
  BY <1>2 DEF ResetSide, LaunchStream, SyncStream, EndStream, Create, CreateFails,
       Launch, SyncsSide, EndsSide, Sync, End, ChangeState, Goes, Fails, workerVars,
       bookVars
<1>3. CASE ChooseStream \/ CleanUp
  BY <1>3 DEF ChooseStream, CleanUp, Goes, workerVars, bookVars
<1>4. CASE Prepares("main") \/ TryConfig("main") \/ Prepares("side") \/ TryConfig("side")
  BY <1>4 DEF Prepares, TryConfig, workerVars, bookVars
<1>5. CASE StreamWaits
  BY <1>5 DEF StreamWaits, Created, Waits, Assigns, Join, streamVars, bookVars
<1>6. CASE (Idles \/ Takes \/ Quits \/ Spurious) /\ UNCHANGED streamVars
  BY <1>6 DEF Idles, Takes, Quits, Spurious, streamVars, bookVars
<1>7. CASE UNCHANGED losslessVars
  BY <1>7 DEF losslessVars, workerVars, bookVars, streamVars
<1> QED
  BY <1>1, <1>2, <1>3, <1>4, <1>5, <1>6, <1>7 DEF StreamNext, StreamCalls, StreamJobs

LEMMA NextResults == StreamInv /\ [StreamNext]_losslessVars => Results'
<1> SUFFICES ASSUME StreamInv, [StreamNext]_losslessVars PROVE Results'
  OBVIOUS
<1>1. Results /\ StreamDataOK /\ WorkerTypeOK
  BY DEF StreamInv, IInv, StreamTypeOK
<1>2. UNCHANGED stream
  BY DEF StreamNext, StreamCalls, StreamJobs, StreamWaits, losslessVars, streamVars,
         Prepares, TryConfig, NewEncoder, EncoderAnalyze, SideWriterInit,
         CloneWriter, NewSideEncoder, ResetSide, LaunchStream, SyncStream,
         EndStream, ChooseStream, CleanUp, HookEnds
<1>3. ASSUME HookEnds("main", NoError) \/ \E e \in Errors : HookEnds("main", e)
      PROVE  Results'
  <2> PICK e \in {NoError} \cup Errors : HookEnds("main", e)
    BY <1>3
  <2>1. /\ phase = "hook" /\ phase' = "sync"
        /\ (e = NoError => next["main"] = Configs("main") + 1)
        /\ err' = [err EXCEPT !["main"] = e]
        /\ UNCHANGED <<ran, next>>
    BY DEF HookEnds, Hooked, HookError, workerVars, bookVars
  <2>2. err'["main"] = e /\ err'["side"] = err["side"]
    BY <1>1, <2>1 DEF StreamDataOK, Sides
  <2>3. Configs("main")' = Configs("main") /\ Configs("side")' = Configs("side")
    BY <1>2 DEF Configs
  <2> QED  BY <1>1, <2>1, <2>2, <2>3 DEF Results, Ended, Early
<1>4. ASSUME \E e \in {NoError} \cup Errors : HookEnds("side", e) PROVE Results'
  <2> PICK e \in {NoError} \cup Errors : HookEnds("side", e)
    BY <1>4
  <2>1. /\ thread = "hook" /\ ran' = ran + 1
        /\ (e = NoError => next["side"] = Configs("side") + 1)
        /\ err' = [err EXCEPT !["side"] = e]
        /\ UNCHANGED <<phase, next>>
    BY DEF HookEnds, Hooked, HookError, Ran
  <2>2. err'["side"] = e /\ err'["main"] = err["main"]
    BY <1>1, <2>1 DEF StreamDataOK, Sides
  <2>3. ran' = 1
    BY <2>1, SideHooks
  <2>4. Configs("main")' = Configs("main") /\ Configs("side")' = Configs("side")
    BY <1>2 DEF Configs
  <2> QED  BY <1>1, <2>1, <2>2, <2>3, <2>4 DEF Results, Ended
<1>5. CASE ~ \E s \in Sides, e \in {NoError} \cup Errors : HookEnds(s, e)
  <2>1. /\ err'["main"] = err["main"] /\ err'["side"] = err["side"]
        /\ UNCHANGED ran
    BY <1>1, <1>5, ErrorsOnlyThere
  <2>2. Configs("main")' = Configs("main") /\ Configs("side")' = Configs("side")
    BY <1>2 DEF Configs
  <2>3. CASE Prepares("main") \/ TryConfig("main")
    <3>1. phase = "hook" /\ phase' = phase /\ next'["side"] = next["side"]
      BY <1>1, <2>3 DEF Prepares, TryConfig, Hooked, StreamDataOK, Sides
    <3> QED  BY <1>1, <2>1, <2>2, <3>1 DEF Results, Ended
  <2>4. CASE Prepares("side") \/ TryConfig("side")
    <3>1. thread = "hook" /\ phase' = phase /\ next'["main"] = next["main"]
      BY <1>1, <2>4 DEF Prepares, TryConfig, Hooked, StreamDataOK, Sides
    <3>2. ran = 0
      BY <3>1, SideHooks
    <3> QED  BY <1>1, <2>1, <2>2, <3>1, <3>2 DEF Results, Ended
  <2>5. CASE ~(Prepares("main") \/ TryConfig("main") \/ Prepares("side") \/ TryConfig("side"))
    <3>1. /\ UNCHANGED next
          /\ \/ UNCHANGED phase
             \/ phase' \in Early \cup {"launch", "hook"} /\ phase \in Early \cup {"launch"}
             \/ phase' \in {"end", "choose"} /\ phase \in {"sync", "end"}
             \/ phase' \in Late
      BY <1>5, <2>5 DEF StreamNext, StreamCalls, StreamJobs, StreamWaits, losslessVars,
         streamVars, NewEncoder, EncoderAnalyze, SideWriterInit,
         CloneWriter, NewSideEncoder, ResetSide, LaunchStream, SyncStream,
         EndStream, ChooseStream, CleanUp, Goes, Fails, Early, Late, Sides
    <3> QED  BY <1>1, <2>1, <2>2, <3>1 DEF Results, Ended, Early, Late
  <2> QED  BY <2>3, <2>4, <2>5
<1> QED  BY <1>3, <1>4, <1>5 DEF Sides

LEMMA NextTold == StreamInv /\ [StreamNext]_losslessVars => Told'
<1> SUFFICES ASSUME StreamInv, [StreamNext]_losslessVars PROVE Told'
  OBVIOUS
<1>1. Told /\ Results /\ StreamDataOK /\ WorkerTypeOK
  BY DEF StreamInv, IInv, StreamTypeOK
<1>2. /\ err["main"] \in {NoError} \cup Errors /\ err["side"] \in {NoError} \cup Errors
      /\ troubles \subseteq Errors /\ NoError \notin Errors /\ 1 \in Errors
  BY <1>1 DEF StreamDataOK, Sides, NoError, Errors
<1>3. ASSUME NEW e \in {NoError} \cup Errors, HookEnds("main", e) PROVE Told'
  <2>1. /\ phase = "hook" /\ phase' = "sync" /\ troubles' = troubles \cup ({e} \ {NoError})
        /\ err' = [err EXCEPT !["main"] = e]
    BY <1>3 DEF HookEnds, Hooked, HookError
  <2>2. err'["main"] = e /\ err'["side"] = err["side"] /\ err'["all"] = err["all"]
    BY <1>1, <2>1 DEF StreamDataOK, Sides
  <2>3. err["main"] = NoError /\ phase \notin Late /\ phase' \notin Late
    BY <1>1, <2>1 DEF Results, Late
  <2> QED  BY <1>1, <1>2, <2>1, <2>2, <2>3 DEF Told
<1>4. ASSUME NEW e \in {NoError} \cup Errors, HookEnds("side", e) PROVE Told'
  <2>1. /\ thread = "hook" /\ phase' = phase /\ troubles' = troubles \cup ({e} \ {NoError})
        /\ err' = [err EXCEPT !["side"] = e]
    BY <1>4 DEF HookEnds, Hooked, HookError
  <2>2. err'["side"] = e /\ err'["main"] = err["main"] /\ err'["all"] = err["all"]
    BY <1>1, <2>1 DEF StreamDataOK, Sides
  <2>3. err["side"] = NoError /\ phase \notin Late
    BY <1>1, <2>1, SideHooks DEF Results
  <2> QED  BY <1>1, <1>2, <2>1, <2>2, <2>3 DEF Told
<1>5. CASE ~ \E s \in Sides, e \in {NoError} \cup Errors : HookEnds(s, e)
  <2>1. err'["main"] = err["main"] /\ err'["side"] = err["side"]
    BY <1>1, <1>5, ErrorsOnlyThere
  <2>2. CASE UNCHANGED <<err, troubles>> /\ (phase' \in Late <=> phase \in Late)
    BY <1>1, <2>1, <2>2 DEF Told
  <2>3. CASE Fails(1)
    BY <1>1, <1>2, <2>1, <2>3 DEF Fails, Told, Late, StreamDataOK
  <2>4. CASE ChooseStream
    <3>1. /\ err' = [err EXCEPT !["all"] = JobError] /\ phase = "choose"
          /\ phase' = "error" /\ UNCHANGED troubles
      BY <2>4 DEF ChooseStream
    <3>2. err'["all"] = JobError
      BY <1>1, <3>1 DEF StreamDataOK
    <3> QED  BY <1>1, <1>2, <2>1, <3>1, <3>2 DEF Told, Late, JobError
  <2> QED
    BY <1>5, <2>2, <2>3, <2>4 DEF StreamNext, StreamCalls, StreamJobs, StreamWaits,
         losslessVars, streamVars, NewEncoder, EncoderAnalyze, SideWriterInit,
         CloneWriter, NewSideEncoder, ResetSide, LaunchStream, SyncStream,
         EndStream, CleanUp, Goes, Prepares, TryConfig, Late, Sides
<1> QED  BY <1>3, <1>4, <1>5 DEF Sides

(* Both hooks have returned when main looks at what they have got.         *)
LEMMA BothEnded ==
  ASSUME StreamInv, phase = "choose"
  PROVE  /\ Ended("main") /\ (SideConfigs(stream) > 0 => Ended("side"))
         /\ status # "WORK"
<1>1. OneJob /\ Results /\ WorkerTypeOK /\ EveryJobOnce
  BY DEF StreamInv, IInv, Counted
<1>2. status # "WORK" /\ Ended("main")
  BY <1>1 DEF OneJob, Results
<1>3. SideConfigs(stream) > 0 => ran = 1
  BY <1>1, <1>2 DEF OneJob, EveryJobOnce, WorkerTypeOK
<1> QED  BY <1>1, <1>2, <1>3 DEF Results

LEMMA NextChosen == StreamInv /\ [StreamNext]_losslessVars => Chosen'
<1> SUFFICES ASSUME StreamInv, [StreamNext]_losslessVars PROVE Chosen'
  OBVIOUS
<1>1. Chosen /\ StreamDataOK /\ BestKept
  BY DEF StreamInv, StreamTypeOK
<1>2. /\ SideConfigs(stream) \in Nat /\ MainConfigs(stream) \in Nat \ {0}
      /\ MainConfigs(stream) + SideConfigs(stream) = stream.configs
      /\ stream.configs \in Nat
      /\ \A c \in 1..stream.configs : stream.size[c] \in Nat
  BY <1>1, Halves, StreamsAssumption DEF StreamDataOK
<1>3. CASE ChooseStream
  <2>1. /\ phase = "choose" /\ err' = [err EXCEPT !["all"] = JobError]
        /\ JobError = NoError =>
             winner' = IF SideIsShorter THEN best["side"] ELSE best["main"]
        /\ UNCHANGED stream
    BY <1>3 DEF ChooseStream
  <2>2. err'["all"] = JobError
    BY <1>1, <2>1 DEF StreamDataOK
  <2> SUFFICES ASSUME JobError = NoError
               PROVE  /\ winner' \in 1..stream.configs
                      /\ \A c \in 1..stream.configs :
                           stream.size[c] >= stream.size[winner']
    BY <2>1, <2>2 DEF Chosen
  <2>3. err["main"] = NoError /\ err["side"] = NoError
    BY DEF JobError
  <2>4. /\ next["main"] = MainConfigs(stream) + 1
        /\ SideConfigs(stream) > 0 => next["side"] = SideConfigs(stream) + 1
    BY <2>1, <2>3, BothEnded DEF Ended, Configs
  <2>5. /\ Tried("main") = 1..MainConfigs(stream)
        /\ SideConfigs(stream) > 0 =>
             Tried("side") = (MainConfigs(stream) + 1)..stream.configs
    BY <1>2, <2>4 DEF Tried, Offset
  <2>6. /\ best["main"] \in 1..MainConfigs(stream)
        /\ \A c \in 1..MainConfigs(stream) : stream.size[c] >= stream.size[best["main"]]
    BY <1>1, <1>2, <2>4, <2>5 DEF BestKept, Sides
  <2>7. ASSUME SideConfigs(stream) > 0
        PROVE  /\ best["side"] \in (MainConfigs(stream) + 1)..stream.configs
               /\ \A c \in (MainConfigs(stream) + 1)..stream.configs :
                    stream.size[c] >= stream.size[best["side"]]
    BY <1>1, <1>2, <2>4, <2>5, <2>7 DEF BestKept, Sides
  <2>8. CASE SideConfigs(stream) = 0
    BY <1>2, <2>1, <2>6, <2>8 DEF SideIsShorter
  <2>9. CASE SideConfigs(stream) > 0
    <3>1. SideIsShorter <=> stream.size[best["side"]] < stream.size[best["main"]]
      BY <1>2, <2>6, <2>7, <2>9 DEF SideIsShorter, Bytes
    <3>2. /\ best["main"] \in 1..stream.configs /\ best["side"] \in 1..stream.configs
          /\ \A c \in 1..stream.configs : \/ c \in 1..MainConfigs(stream)
                                          \/ c \in (MainConfigs(stream) + 1)..stream.configs
      BY <1>2, <2>6, <2>7, <2>9
    <3>3. CASE SideIsShorter
      BY <1>2, <2>1, <2>6, <2>7, <2>9, <3>1, <3>2, <3>3
    <3>4. CASE ~SideIsShorter
      BY <1>2, <2>1, <2>6, <2>7, <2>9, <3>1, <3>2, <3>4
    <3> QED  BY <3>3, <3>4
  <2> QED  BY <1>2, <2>8, <2>9
<1>4. CASE Fails(1)
  <2>1. err'["all"] = 1
    BY <1>1, <1>4 DEF Fails, StreamDataOK
  <2> QED  BY <2>1 DEF Chosen, NoError
<1>5. CASE /\ UNCHANGED <<stream, winner>> /\ err'["all"] = err["all"]
           /\ phase' \in Late => phase \in Late
  BY <1>1, <1>5 DEF Chosen
<1>6. ASSUME NEW s \in Sides, NEW e \in {NoError} \cup Errors, HookEnds(s, e)
      PROVE  Chosen'
  <2>1. err'["all"] = err["all"] /\ UNCHANGED <<stream, winner>>
          /\ (phase' = "sync" \/ UNCHANGED phase)
    BY <1>1, <1>6 DEF HookEnds, HookError, StreamDataOK, Sides
  <2> QED  BY <1>1, <2>1 DEF Chosen, Late
<1> QED
  BY <1>3, <1>4, <1>5, <1>6 DEF StreamNext, StreamCalls, StreamJobs, StreamWaits,
       losslessVars, streamVars, NewEncoder, EncoderAnalyze, SideWriterInit,
       CloneWriter, NewSideEncoder, ResetSide, LaunchStream, SyncStream,
       EndStream, CleanUp, Goes, Prepares, TryConfig, Late, Sides

LEMMA NextFreed == StreamInv /\ [StreamNext]_losslessVars => StreamFreed'
<1> SUFFICES ASSUME StreamFreed, [StreamNext]_losslessVars PROVE StreamFreed'
  BY DEF StreamInv
<1>1. CASE CleanUp
  BY <1>1 DEF CleanUp, Frees, Goes, StreamFreed
<1>2. CASE phase' # "returned"
  BY <1>2 DEF StreamFreed
<1>3. CASE UNCHANGED <<phase, encs, bw_side>>
  BY <1>3 DEF StreamFreed
<1> QED
  BY <1>1, <1>2, <1>3 DEF StreamNext, StreamCalls, StreamJobs, StreamWaits, losslessVars,
       streamVars, NewEncoder, EncoderAnalyze, SideWriterInit,
       CloneWriter, NewSideEncoder, ResetSide, LaunchStream, SyncStream,
       EndStream, ChooseStream, HookEnds, Goes, Fails, Prepares, TryConfig, Sides

LEMMA NextStream == StreamInv /\ [StreamNext]_losslessVars => StreamInv'
  BY NextWorks, NextStreamType, NextAsks, NextOneJob, NextBestKept, NextResults,
     NextTold, NextChosen, NextFreed DEF StreamInv

LEMMA StreamInvariance == StreamSpec => []StreamInv
  BY InitStream, NextStream, PTL DEF StreamSpec

(* The types of the stream encoder's variables (vp8l_enc.c:1646).          *)
THEOREM StreamTypeCorrect == StreamSpec => []StreamTypeOK
<1>1. StreamInv => StreamTypeOK
  BY DEF StreamInv
<1> QED  BY <1>1, StreamInvariance, PTL

LEMMA StreamSays == StreamInv => StreamSound
<1>1. StreamInv => ShortestIsKept
  <2> SUFFICES ASSUME StreamInv, phase = "returned", err["all"] = NoError
               PROVE  /\ winner # 0
                      /\ \A c \in DOMAIN stream.size :
                           stream.size[c] >= stream.size[winner]
    BY DEF ShortestIsKept
  <2>1. DOMAIN stream.size = 1..stream.configs
    BY StreamsAssumption DEF StreamInv, StreamTypeOK, StreamDataOK
  <2> QED  BY <2>1 DEF StreamInv, Chosen, Late
<1>2. StreamInv => StreamErrorTold
  BY DEF StreamInv, Told, StreamErrorTold, Late
<1>3. StreamInv => StreamLeavesNothing
  <2> SUFFICES ASSUME StreamInv PROVE StreamLeavesNothing
    OBVIOUS
  <2>1. Asks /\ OneJob /\ Coupled /\ StreamFreed
    BY DEF StreamInv, IInv
  <2>2. phase \in {"error", "returned"} => ~impl /\ thread = "none" /\ status = "NOT_OK"
    BY <2>1 DEF Asks, Coupled
  <2>3. phase = "choose" => status # "WORK" /\ thread # "hook"
    BY <2>1 DEF OneJob, Coupled
  <2> QED  BY <2>1, <2>2, <2>3 DEF StreamLeavesNothing, StreamFreed
<1> QED  BY <1>1, <1>2, <1>3 DEF StreamSound

(* VP8LEncodeStream's answer is the shortest of the streams, or an error   *)
(* that has occurred in one of the two jobs, and no encoder, bit writer or *)
(* thread is left, for any number of configurations of any sizes           *)
(* (vp8l_enc.c:1762).                                                      *)
THEOREM StreamCorrect == StreamSpec => []StreamSound
  BY StreamSays, StreamInvariance, PTL
-------------------------------------------------------------------------------
(* The inductive invariant of the encoder.                                 *)

(* Whether there are two jobs of the analysis, and one for the alpha plane.*)
TwoJobs  == shot.segments /\ InParallel
AlphaJob == shot.alpha /\ shot.thread
SideJobs == IF TwoJobs THEN 1 ELSE 0

Analysis == {"reset", "execute", "sync", "end"}
Coding   == {"loop", "stat", "token", "code", "emit", "finish", "synced", "write"}
Ending   == {"free", "ask", "delete", "freed", "over"}

(* Which call of the worker main is in, and when there is a thread.        *)
Calls ==
  /\ stage # "idle"
  /\ main = "created" => stage \in {"reset", "launch"}
  /\ stage \in {"reset", "launch"} => main \in {"created", "out"}
  /\ main \notin {"created", "out"} =>
       \/ stage \in {"execute", "loop"} /\ new = "WORK"
       \/ stage \in {"sync", "synced", "delete"} /\ new = "OK"
       \/ stage \in {"end", "freed"} /\ new = "NOT_OK"
  /\ stage \in {"analyze", "alpha", "over"} => ~impl
  /\ stage \in Analysis => shot.segments
  /\ stage = "reset" => TwoJobs
  /\ stage \in {"execute", "sync"} => (impl <=> TwoJobs)
  /\ stage = "end" => (impl <=> main # "out")
  /\ stage = "launch" => AlphaJob
  /\ stage \in {"launch"} \cup Coding => (impl <=> AlphaJob)
  /\ stage \in Ending /\ impl => AlphaJob
  /\ stage = "freed" => (impl <=> main # "out")

(* How many jobs have been launched, and when main has waited for them.    *)
JobsCounted ==
  /\ stage \in {"analyze", "reset"} => launched = 0
  /\ stage \in {"execute", "sync"} =>
       launched = (IF stage = "execute" /\ main # "out" THEN 0 ELSE SideJobs)
  /\ stage = "end" /\ ok => launched = SideJobs
  /\ stage \in {"alpha", "launch"} => launched = SideJobs
  /\ stage \in Coding =>
       launched = SideJobs + (IF AlphaJob /\ ~(stage = "loop" /\ main # "out")
                                THEN 1 ELSE 0)
  /\ (stage \in {"sync", "synced", "delete"} /\ main = "out")
       \/ (stage = "loop" /\ main # "out")
       \/ stage \in {"end", "launch", "write", "freed"} => status # "WORK"

(* A job has counted the rows from its first one up to the one it is at.   *)
FirstRow(j) == IF j = "main" THEN 0 ELSE SplitRow
EndRow(j)   == IF j = "main" /\ InParallel THEN SplitRow ELSE shot.rows
RowsLeft ==
  /\ stage = "analyze" => row = [j \in Jobs |-> 0] /\ ~mainbad
  /\ stage \in Analysis /\ (stage = "end" => ok) =>
       /\ IF mainbad THEN left["main"] = 0
                     ELSE row["main"] + left["main"] = EndRow("main")
       /\ TwoJobs => /\ SplitRow <= row["side"]
                     /\ row["side"] + left["side"] = shot.rows
                     /\ ran = 1 => left["side"] = 0
  /\ stage \in {"sync", "end"} /\ ok => ~mainbad /\ left["main"] = 0
RowsCounted ==
  /\ seen = [j \in Jobs |-> [y \in Rows(shot) |->
               IF FirstRow(j) <= y /\ y < row[j] THEN 1 ELSE 0]]
  /\ RowsLeft

(* The alpha job has left data or an error.                                *)
AlphaCompressed ==
  /\ stage \in {"analyze", "alpha"} \cup Analysis => ~alphadata /\ ~bad
  /\ stage \in {"launch"} \cup Coding =>
       IF AlphaJob THEN IF ran = SideJobs + 1 THEN alphadata <=> ~bad
                                              ELSE ~alphadata /\ ~bad
                   ELSE alphadata = shot.alpha /\ ~bad
  /\ ~AlphaJob => ~bad
  /\ stage = "write" => ~bad
  /\ stage = "over" => ~alphadata

(* Coded once, by the last pass.                                           *)
PassesCounted ==
  /\ passes # 0
  /\ stage \in {"analyze", "alpha", "launch", "loop", "stat", "token", "code"}
       \cup Analysis => counted = 0
  /\ stage \in {"emit", "finish", "synced", "write"} => counted = 1

(* What ok says, and the bit writers.                                      *)
OkTells ==
  /\ stage \in {"analyze", "reset", "execute"} => ok /\ (failed <=> mainbad)
  /\ stage = "sync" => (ok <=> ~mainbad)
  /\ stage \notin {"analyze", "reset", "execute", "freed", "over"} => (ok <=> ~failed)
  /\ stage \in {"alpha", "launch"} \cup Coding => ok
  /\ stage \in {"freed", "over"} => (ok <=> ~failed /\ ~bad)
  /\ stage = "free" /\ ok => ~parts
  /\ stage \in {"ask", "delete", "freed", "over"} => ~parts

EncInv ==
  /\ IInv /\ EncTypeOK
  /\ HookIsMains /\ EveryRowOnce
  /\ Calls /\ JobsCounted /\ RowsCounted /\ AlphaCompressed /\ PassesCounted
  /\ OkTells

(* Where the second job begins.                                            *)
LEMMA Splits ==
  ASSUME NEW s \in Shots, shot = s
  PROVE  SplitRow \in 1..shot.rows /\ shot.rows \in Nat \ {0}
<1>1. s.rows \in Nat \ {0}
  BY ShotsAssumption
<1>2. \A n \in Nat \ {0} : (9 * n + 15) \div 16 \in 1..n
  OBVIOUS
<1>3. (9 * s.rows + 15) \div 16 \in 1..s.rows
  BY <1>1, <1>2
<1> QED  BY <1>1, <1>3 DEF SplitRow

(* An encoder that has not begun has the types.                            *)
LEMMA EncFields == ASSUME NEW s, EncStart(s) PROVE EncDataOK
<1> USE DEF EncStart
<1>1. shot \in Shots /\ shot.rows \in Nat \ {0} /\ shot.pass \in Nat \ {0}
        /\ shot.bits \in Nat
  BY ShotsAssumption
<1>2. row \in [Jobs -> 0..shot.rows] /\ left \in [Jobs -> 0..shot.rows]
        /\ seen \in [Jobs -> [Rows(shot) -> 0..2]]
  BY <1>1
<1>3. passes \in 0..shot.pass /\ bits \in 0..shot.bits
  BY <1>1
<1>4. /\ ok \in BOOLEAN /\ mainbad \in BOOLEAN /\ settled \in BOOLEAN
      /\ odd \in BOOLEAN /\ parts \in BOOLEAN /\ alphadata \in BOOLEAN
      /\ failed \in BOOLEAN /\ aborted \in BOOLEAN
  BY Zenon
<1> QED  BY <1>1, <1>2, <1>3, <1>4 DEF EncDataOK

LEMMA InitEnc == WorkerInit /\ EncInit => EncInv
<1> SUFFICES ASSUME WorkerInit, EncInit PROVE EncInv
  OBVIOUS
<1>1. IInv
  BY InitIInv
<1> USE DEF EncInit, EncStart
<1>2. shot \in Shots /\ stage = "analyze" /\ shot.rows \in Nat \ {0}
        /\ shot.pass \in Nat \ {0} /\ shot.bits \in Nat
  BY ShotsAssumption
<1>3. EncTypeOK
  BY EncFields DEF EncTypeOK
<1>4. HookIsMains /\ EveryRowOnce
  BY DEF HookIsMains, EveryRowOnce
<1>5. Calls /\ JobsCounted
  BY DEF WorkerInit, Calls, JobsCounted, Analysis, Coding, Ending
<1>6. RowsCounted
  <2>1. \A j \in Jobs, y \in Rows(shot) : ~(FirstRow(j) <= y /\ y < row[j])
    BY <1>2 DEF Rows
  <2>2. seen = [j \in Jobs |-> [y \in Rows(shot) |->
                  IF FirstRow(j) <= y /\ y < row[j] THEN 1 ELSE 0]]
    BY <2>1
  <2> QED  BY <2>2 DEF RowsCounted, RowsLeft, Analysis
<1>7. AlphaCompressed /\ PassesCounted /\ OkTells
  BY <1>2 DEF WorkerInit, AlphaCompressed, PassesCounted, OkTells, Analysis, Coding
<1> HIDE DEF EncInit
<1> QED  BY <1>1, <1>3, <1>4, <1>5, <1>6, <1>7 DEF EncInv

(* The encoder does to the worker what any owner may do.                   *)
LEMMA EncWorks == EncNext => [WorkerNext]_workerVars
<1> SUFFICES ASSUME EncNext PROVE WorkerNext \/ UNCHANGED workerVars
  OBVIOUS
<1> USE DEF WorkerNext, AnyCall, MainRuns, ThreadRuns
<1>1. CASE SplitJobs \/ LaunchSide \/ SyncSide \/ EndSide
  BY <1>1 DEF SplitJobs, LaunchSide, SyncSide, EndSide
<1>2. CASE StartAlpha \/ LaunchAlpha \/ FinishAlpha \/ DeleteSync \/ DeleteEnd
  BY <1>2 DEF StartAlpha, LaunchAlpha, FinishAlpha, SyncsAlpha, DeleteSync, DeleteEnd
<1>3. CASE AssignSegments \/ StatAborted \/ TokenFails \/ FreeBitWriters
             \/ DeleteFrees \/ CountRow("main") \/ CountRow("side")
  BY <1>3 DEF AssignSegments, StatAborted, TokenFails, FreeBitWriters, DeleteFrees,
              CountRow
<1>4. ASSUME NEW b \in BOOLEAN, NEW c \in BOOLEAN, NEW d \in BOOLEAN,
             \/ HookReturns("main", b) \/ HookReturns("side", b)
             \/ OneSegment(b) \/ AlphaFinished(b) \/ PreLoopInitialize(b)
             \/ StatPass(b, c) \/ TokenPass(b, c) \/ CodePicture(b, c)
             \/ EmitTokens(b, c) \/ EncWrite(b, c, d)
      PROVE  UNCHANGED workerVars
  BY <1>4 DEF HookReturns, OneSegment, AlphaFinished, PreLoopInitialize, StatPass,
              TokenPass, CodePicture, EmitTokens, EncWrite
<1>5. CASE SideDone
  <2>1. Ran(TRUE) /\ TRUE \in BOOLEAN
    BY <1>5 DEF SideDone
  <2> QED  BY <2>1
<1>6. ASSUME NEW b \in BOOLEAN, AlphaDone(b) PROVE WorkerNext
  BY <1>6 DEF AlphaDone
<1>7. CASE EncMainWaits \/ ((Idles \/ Takes \/ Quits) /\ UNCHANGED encVars)
             \/ (Spurious /\ UNCHANGED encVars)
  BY <1>7 DEF EncMainWaits
<1> QED
  BY <1>1, <1>2, <1>3, <1>4, <1>5, <1>6, <1>7 DEF EncNext, MainCalls, JobSteps

LEMMA NextEncWorks == EncInv /\ [EncNext]_shotVars => IInv'
<1> SUFFICES ASSUME IInv, [EncNext]_shotVars PROVE IInv'
  BY DEF EncInv
<1>1. [WorkerNext]_workerVars
  BY EncWorks DEF shotVars
<1> QED  BY <1>1, StepType, StepCoupled, StepCounted, StepErrors DEF IInv

(* The steps that are not the analysis' and leave its variables alone.     *)
Later ==
  \/ OneSegment(TRUE) \/ OneSegment(FALSE) \/ StartAlpha \/ LaunchAlpha
  \/ FinishAlpha \/ StatAborted \/ TokenFails \/ FreeBitWriters
  \/ DeleteSync \/ DeleteEnd \/ DeleteFrees
  \/ \E b \in BOOLEAN : AlphaFinished(b) \/ PreLoopInitialize(b) \/ AlphaDone(b)
  \/ \E b, c \in BOOLEAN : StatPass(b, c) \/ TokenPass(b, c)
  \/ \E b, c \in BOOLEAN : CodePicture(b, c) \/ EmitTokens(b, c)
  \/ \E b, c, d \in BOOLEAN : EncWrite(b, c, d)

(* What the encoder has no part in.                                        *)
OnlyWorker ==
  /\ UNCHANGED encVars
  /\ Created \/ Waits \/ Assigns \/ Join \/ Idles \/ Takes \/ Quits \/ Spurious
       \/ UNCHANGED workerVars

LEMMA EncSteps ==
  ASSUME [EncNext]_shotVars
  PROVE  \/ SplitJobs \/ LaunchSide \/ SyncSide \/ EndSide \/ AssignSegments
         \/ \E j \in Jobs : CountRow(j)
         \/ \E j \in Jobs, b \in BOOLEAN : HookReturns(j, b)
         \/ SideDone
         \/ Later
         \/ OnlyWorker
<1>1. CASE MainCalls
  BY <1>1 DEF MainCalls, Later, Jobs
<1>2. CASE JobSteps
  BY <1>2 DEF JobSteps, Later, Jobs, OnlyWorker
<1>3. CASE EncMainWaits \/ (Spurious /\ UNCHANGED encVars) \/ UNCHANGED shotVars
  BY <1>3 DEF EncMainWaits, OnlyWorker, shotVars
<1> QED  BY <1>1, <1>2, <1>3 DEF EncNext

LEMMA LaterKeeps == Later => UNCHANGED <<shot, jobVars>>
  BY DEF Later, OneSegment, StartAlpha, LaunchAlpha, FinishAlpha, StatAborted,
         TokenFails, FreeBitWriters, DeleteSync, DeleteEnd, DeleteFrees,
         AlphaFinished, PreLoopInitialize, AlphaDone, StatPass, TokenPass,
         CodePicture, EmitTokens, EncWrite

LEMMA ShotKept == [EncNext]_shotVars => shot' = shot
<1> SUFFICES ASSUME [EncNext]_shotVars PROVE shot' = shot
  OBVIOUS
<1> QED
  BY EncSteps, LaterKeeps DEF SplitJobs, LaunchSide, SyncSide, EndSide,
     AssignSegments, CountRow, HookReturns, SideDone, OnlyWorker, encVars

(* Only three steps have to do with the passes.                            *)
LEMMA PassesThere ==
  ASSUME [EncNext]_shotVars
  PROVE  \/ UNCHANGED passVars
         \/ \E b, c \in BOOLEAN : StatPass(b, c) \/ TokenPass(b, c)
         \/ \E b, c \in BOOLEAN : CodePicture(b, c)
<1>1. CASE Later
  BY <1>1 DEF Later, OneSegment, StartAlpha, LaunchAlpha, FinishAlpha,
       StatAborted, TokenFails, FreeBitWriters, DeleteSync, DeleteEnd, DeleteFrees,
       AlphaFinished, PreLoopInitialize, AlphaDone, EmitTokens, EncWrite
<1>2. CASE ~Later
  BY <1>2, EncSteps DEF SplitJobs, LaunchSide, SyncSide, EndSide, AssignSegments,
       CountRow, HookReturns, SideDone, OnlyWorker, encVars
<1> QED  BY <1>1, <1>2

(* A pass goes from one stage to another.                                  *)
LEMMA PassType ==
  ASSUME EncTypeOK, PassesCounted, NEW b \in BOOLEAN, NEW c \in BOOLEAN,
         StatPass(b, c) \/ TokenPass(b, c)
  PROVE  /\ passes' \in 1..shot.pass /\ bits' \in 0..shot.bits
         /\ settled' \in BOOLEAN /\ odd' \in BOOLEAN
         /\ counted' \in 0..1
         /\ stage = "stat" => stage' \in {"stat", "code"} /\ counted' = counted
         /\ stage = "token" => \/ stage' = "token" /\ counted' = 0
                               \/ stage' = "emit" /\ counted' = 1
<1>1. /\ passes \in 1..shot.pass /\ bits \in 0..shot.bits /\ settled \in BOOLEAN
      /\ odd \in BOOLEAN /\ counted \in 0..1 /\ shot.bits \in Nat
      /\ shot.pass \in Nat /\ shot.search \in BOOLEAN
      /\ stage \in {"token", "stat"} => counted = 0
  BY ShotsAssumption DEF EncTypeOK, EncDataOK, PassesCounted
<1>2. Halved \in 0..shot.bits
  <2>1. \A n \in Nat : n \div 2 \in Nat /\ n \div 2 <= n
    OBVIOUS
  <2>2. bits \in Nat
    BY <1>1
  <2> QED  BY <1>1, <2>1, <2>2 DEF Halved
<1>3. odd' \in BOOLEAN
  BY <1>1 DEF StatPass, TokenPass
<1>4. CASE StatPass(b, c)
  <2>1. stage = "stat" /\ counted' = counted
    BY <1>4 DEF StatPass
  <2>2. CASE ~Restart(b) /\ ~IsLastPass /\ shot.search /\ c
    BY <1>1, <1>3, <1>4, <2>1, <2>2 DEF StatPass, IsLastPass, Enters
  <2>3. CASE AfterPass(b, c, "stat", "code")
    <3>1. CASE Restart(b)
      BY <1>1, <1>2, <1>3, <2>1, <2>3, <3>1 DEF AfterPass, Enters
    <3>2. CASE ~Restart(b) /\ IsLastPass
      BY <1>1, <1>3, <2>1, <2>3, <3>2 DEF AfterPass, Enters
    <3>3. CASE ~Restart(b) /\ ~IsLastPass
      BY <1>1, <1>3, <2>1, <2>3, <3>3 DEF AfterPass, Enters, IsLastPass, Searches
    <3> QED  BY <3>1, <3>2, <3>3
  <2> QED  BY <1>4, <2>2, <2>3 DEF StatPass
<1>5. CASE TokenPass(b, c)
  <2>1. /\ stage = "token" /\ AfterPass(b, c, "token", "emit")
        /\ counted' = IF Restart(b) THEN (IF IsLastPass THEN TakenBack(SideInfo)
                                          ELSE SideInfo)
                      ELSE SideInfo
    BY <1>1, <1>5 DEF TokenPass
  <2>2. SideInfo = IF IsLastPass THEN 1 ELSE 0
    BY <1>1, <2>1 DEF SideInfo
  <2>3. CASE Restart(b)
    BY <1>1, <1>2, <1>3, <2>1, <2>2, <2>3 DEF AfterPass, Enters, TakenBack
  <2>4. CASE ~Restart(b) /\ IsLastPass
    BY <1>1, <1>3, <2>1, <2>2, <2>4 DEF AfterPass, Enters
  <2>5. CASE ~Restart(b) /\ ~IsLastPass
    BY <1>1, <1>3, <2>1, <2>2, <2>5 DEF AfterPass, Enters, IsLastPass, Searches
  <2> QED  BY <2>3, <2>4, <2>5
<1> QED  BY <1>4, <1>5

(* Where each other step leads.                                            *)
Moves(s, t) == stage = s /\ stage' = t
LEMMA StagesThere ==
  ASSUME [EncNext]_shotVars, EncTypeOK
  PROVE  \/ stage' = stage
         \/ stage = "analyze" /\ stage' \in {"alpha", "reset", "execute", "end"}
         \/ Moves("reset", "execute") \/ Moves("execute", "sync")
         \/ Moves("sync", "end")
         \/ (Moves("end", "alpha") /\ ok) \/ (Moves("end", "free") /\ ~ok)
         \/ stage = "alpha" /\ stage' \in {"launch", "loop", "free"}
         \/ Moves("launch", "loop")
         \/ stage = "loop" /\ stage' \in {"token", "stat", "free"}
         \/ Moves("stat", "code") /\ counted' = counted
         \/ stage = "code" /\ stage' \in {"finish", "free"} /\ counted' = counted + 1
         \/ Moves("token", "emit") /\ odd' = ~odd
         \/ Moves("token", "free")
         \/ stage = "emit" /\ stage' \in {"finish", "free"}
         \/ Moves("finish", "synced")
         \/ stage = "synced" /\ stage' \in {"write", "free"}
         \/ Moves("write", "free") \/ Moves("free", "ask") \/ Moves("ask", "delete")
         \/ Moves("delete", "freed") \/ Moves("freed", "over")
<1> USE DEF Moves, Enters, Succeeds, Coded
<1>1. CASE SplitJobs \/ LaunchSide \/ SyncSide \/ EndSide \/ AssignSegments
  BY <1>1 DEF SplitJobs, LaunchSide, SyncSide, EndSide, AssignSegments
<1>2. CASE \/ \E j \in Jobs : CountRow(j)
           \/ \E j \in Jobs, b \in BOOLEAN : HookReturns(j, b)
           \/ SideDone \/ OnlyWorker
  BY <1>2 DEF CountRow, HookReturns, SideDone, OnlyWorker, encVars
<1>3. CASE \/ OneSegment(TRUE) \/ OneSegment(FALSE) \/ StartAlpha \/ LaunchAlpha
           \/ FinishAlpha \/ StatAborted \/ TokenFails \/ FreeBitWriters
           \/ DeleteSync \/ DeleteEnd \/ DeleteFrees
  BY <1>3, ZenonT(60) DEF OneSegment, StartAlpha, LaunchAlpha, FinishAlpha, StatAborted,
         TokenFails, FreeBitWriters, DeleteSync, DeleteEnd, DeleteFrees, passVars
<1>4. ASSUME NEW b \in BOOLEAN, NEW c \in BOOLEAN, NEW d \in BOOLEAN,
             \/ AlphaFinished(b) \/ PreLoopInitialize(b) \/ AlphaDone(b)
             \/ CodePicture(b, c) \/ EmitTokens(b, c) \/ EncWrite(b, c, d)
      PROVE  \/ stage' = stage
             \/ stage = "loop" /\ stage' \in {"token", "stat", "free"}
             \/ stage = "code" /\ stage' \in {"finish", "free"}
                  /\ counted' = counted + 1
             \/ stage = "emit" /\ stage' \in {"finish", "free"}
             \/ stage = "synced" /\ stage' \in {"write", "free"}
             \/ Moves("write", "free")
  BY <1>4 DEF AlphaFinished, PreLoopInitialize, AlphaDone, CodePicture, EmitTokens,
         EncWrite
<1>5. ASSUME NEW b \in BOOLEAN, NEW c \in BOOLEAN, StatPass(b, c) \/ TokenPass(b, c)
      PROVE  stage' = stage \/ (Moves("stat", "code") /\ counted' = counted)
               \/ (Moves("token", "emit") /\ odd' = ~odd)
  BY <1>5 DEF StatPass, TokenPass, AfterPass
<1> QED
  BY <1>1, <1>2, <1>3, <1>4, <1>5, EncSteps DEF Later

LEMMA NextPasses == EncInv /\ [EncNext]_shotVars => PassesCounted'
<1> SUFFICES ASSUME EncTypeOK, PassesCounted, [EncNext]_shotVars
             PROVE  PassesCounted'
  BY DEF EncInv
<1> USE DEF PassesCounted, Moves, Analysis
<1>1. CASE UNCHANGED passVars
  BY <1>1, StagesThere DEF EncTypeOK, EncDataOK, passVars
<1>2. ASSUME NEW b \in BOOLEAN, NEW c \in BOOLEAN, StatPass(b, c) \/ TokenPass(b, c)
      PROVE  PassesCounted'
  <2>1. stage \in {"stat", "token"}
    BY <1>2 DEF StatPass, TokenPass
  <2>2. passes' # 0
    BY <1>2, PassType
  <2> QED  BY <1>2, <2>1, <2>2, PassType
<1>3. ASSUME NEW b \in BOOLEAN, NEW c \in BOOLEAN, CodePicture(b, c)
      PROVE  PassesCounted'
  BY <1>3 DEF CodePicture, Coded, Succeeds, Enters
<1> QED  BY <1>1, <1>2, <1>3, PassesThere

LEMMA NextHook == EncInv /\ [EncNext]_shotVars => HookIsMains'
<1> SUFFICES ASSUME HookIsMains, [EncNext]_shotVars PROVE HookIsMains'
  BY DEF EncInv
<1>1. ASSUME NEW j \in Jobs, CountRow(j) PROVE HookIsMains'
  BY <1>1 DEF CountRow, DeltaProgress, HookIsMains, Jobs
<1>2. CASE ~ \E j \in Jobs : CountRow(j)
  <2>1. hooked' \subseteq hooked
    BY <1>2, EncSteps, LaterKeeps DEF jobVars, SplitJobs, LaunchSide, SyncSide,
       EndSide, AssignSegments, HookReturns, SideDone, OnlyWorker, encVars
  <2> QED  BY <2>1 DEF HookIsMains
<1> QED  BY <1>1, <1>2

(* The flags are flags.                                                    *)
LEMMA FlagType ==
  ASSUME [EncNext]_shotVars, EncTypeOK, had_error \in BOOLEAN
  PROVE  /\ ok' \in BOOLEAN /\ mainbad' \in BOOLEAN /\ parts' \in BOOLEAN
         /\ alphadata' \in BOOLEAN /\ failed' \in BOOLEAN /\ aborted' \in BOOLEAN
<1>1. /\ ok \in BOOLEAN /\ mainbad \in BOOLEAN /\ parts \in BOOLEAN
      /\ alphadata \in BOOLEAN /\ failed \in BOOLEAN /\ aborted \in BOOLEAN
      /\ shot.alpha \in BOOLEAN
  BY ShotsAssumption DEF EncTypeOK, EncDataOK
<1> USE DEF Succeeds, Reports, Coded, CompressAlpha
<1>2. CASE SplitJobs \/ LaunchSide \/ SyncSide \/ EndSide \/ AssignSegments
  BY <1>1, <1>2, Zenon DEF SplitJobs, LaunchSide, SyncSide, EndSide,
     AssignSegments, tellVars, jobVars, InitSegmentJobs
<1>3. CASE (\E j \in Jobs : CountRow(j)) \/ SideDone \/ OnlyWorker
  BY <1>1, <1>3 DEF CountRow, SideDone, OnlyWorker, encVars, jobVars, tellVars
<1>4. ASSUME NEW j \in Jobs, NEW b \in BOOLEAN, HookReturns(j, b)
      PROVE  /\ ok' \in BOOLEAN /\ mainbad' \in BOOLEAN /\ parts' \in BOOLEAN
             /\ alphadata' \in BOOLEAN /\ failed' \in BOOLEAN /\ aborted' \in BOOLEAN
  BY <1>1, <1>4 DEF HookReturns
<1>5. CASE \/ OneSegment(TRUE) \/ OneSegment(FALSE) \/ LaunchAlpha
           \/ FinishAlpha \/ StatAborted \/ FreeBitWriters
           \/ DeleteSync \/ DeleteEnd \/ DeleteFrees
  BY <1>1, <1>5 DEF OneSegment, LaunchAlpha, FinishAlpha, StatAborted,
     FreeBitWriters, DeleteSync, DeleteEnd, DeleteFrees, jobVars, tellVars
<1>6. CASE StartAlpha \/ TokenFails
  BY <1>1, <1>6 DEF StartAlpha, TokenFails, jobVars
<1>7. ASSUME NEW b \in BOOLEAN, NEW c \in BOOLEAN, NEW d \in BOOLEAN,
             \/ AlphaFinished(b) \/ PreLoopInitialize(b) \/ AlphaDone(b)
             \/ CodePicture(b, c) \/ EmitTokens(b, c) \/ EncWrite(b, c, d)
             \/ StatPass(b, c) \/ TokenPass(b, c)
      PROVE  /\ ok' \in BOOLEAN /\ mainbad' \in BOOLEAN /\ parts' \in BOOLEAN
             /\ alphadata' \in BOOLEAN /\ failed' \in BOOLEAN /\ aborted' \in BOOLEAN
  BY <1>1, <1>7, ZenonT(60) DEF AlphaFinished, PreLoopInitialize, AlphaDone, CodePicture,
     EmitTokens, EncWrite, StatPass, TokenPass, jobVars, tellVars
<1> QED  BY <1>2, <1>3, <1>4, <1>5, <1>6, <1>7, EncSteps DEF Later

LEMMA NextOk == EncInv /\ [EncNext]_shotVars => OkTells'
<1> SUFFICES ASSUME EncInv, [EncNext]_shotVars PROVE OkTells'
  OBVIOUS
<1>1. /\ OkTells /\ EncTypeOK /\ WorkerTypeOK /\ ErrorsKept /\ RowsCounted
      /\ AlphaCompressed /\ Calls /\ JobsCounted /\ Coupled
  BY DEF EncInv, IInv
<1>2. /\ ok \in BOOLEAN /\ mainbad \in BOOLEAN /\ parts \in BOOLEAN
      /\ failed \in BOOLEAN /\ had_error \in BOOLEAN /\ bad \in BOOLEAN
      /\ had_error = bad
  BY <1>1 DEF EncTypeOK, EncDataOK, WorkerTypeOK, ErrorsKept
<1>3. /\ stage \in {"analyze", "alpha"} \cup Analysis => ~bad
      /\ stage = "analyze" => ~mainbad
  BY <1>1 DEF AlphaCompressed, RowsCounted, RowsLeft
<1>4. shot.thread = FALSE \/ stage = "write" => ~bad
  BY <1>1 DEF AlphaCompressed, AlphaJob
<1> USE DEF OkTells, Enters, Analysis, Coding
<1>5. CASE SplitJobs
  BY <1>1, <1>2, <1>5 DEF SplitJobs, RowsCounted, RowsLeft
<1>6. CASE LaunchSide \/ SyncSide
  <2>1. CASE LaunchSide
    BY <1>1, <1>2, <2>1 DEF LaunchSide, tellVars, jobVars
  <2>2. CASE SyncSide
    <3>1. stage = "execute" /\ stage' = "sync" /\ ok' = ~mainbad
            /\ UNCHANGED <<failed, mainbad, parts>>
      BY <2>2 DEF SyncSide, tellVars, jobVars
    <3>2. failed <=> mainbad
      BY <1>1, <3>1
    <3> QED  BY <1>2, <3>1, <3>2
  <2> QED  BY <1>6, <2>1, <2>2
<1>7. CASE EndSide \/ AssignSegments
  BY <1>1, <1>2, <1>3, <1>7 DEF EndSide, AssignSegments, tellVars
<1>8. ASSUME NEW j \in Jobs, CountRow(j) PROVE OkTells'
  BY <1>1, <1>2, <1>8 DEF CountRow, tellVars, workerVars, bookVars
<1>9. ASSUME NEW j \in Jobs, NEW b \in BOOLEAN, HookReturns(j, b) PROVE OkTells'
  <2>1. stage = "execute" /\ j = "main"
    BY <1>9 DEF HookReturns, EncInv, HookIsMains, Doing
  <2> QED  BY <1>1, <1>2, <1>9, <2>1 DEF HookReturns, workerVars, bookVars
<1>10. CASE SideDone
  BY <1>1, <1>2, <1>10 DEF SideDone, Ran, encVars, Doing, tellVars, jobVars
<1>11. CASE OnlyWorker
  BY <1>1, <1>2, <1>11 DEF OnlyWorker, encVars, tellVars, jobVars, Created, Waits,
     Assigns, Join, Idles, Takes, Quits, Spurious, workerVars, bookVars
<1>12. CASE OneSegment(TRUE) \/ OneSegment(FALSE) \/ LaunchAlpha
            \/ FinishAlpha \/ StatAborted \/ FreeBitWriters \/ DeleteSync
  <2>1. CASE OneSegment(TRUE) \/ OneSegment(FALSE) \/ LaunchAlpha \/ FinishAlpha
             \/ StatAborted
    <3>1. /\ UNCHANGED <<ok, failed, parts>>
          /\ \/ stage = "analyze" /\ stage' = "alpha"
             \/ stage = "launch" /\ stage' = "loop"
             \/ stage = "finish" /\ stage' = "synced"
             \/ stage = "stat" /\ stage' = "code"
      BY <2>1 DEF OneSegment, LaunchAlpha, FinishAlpha, StatAborted, tellVars
    <3>2. stage = "analyze" => ~failed
      BY <1>1, <1>3
    <3> QED  BY <1>1, <3>1, <3>2
  <2>2. CASE FreeBitWriters
    BY <1>1, <1>2, <2>2 DEF FreeBitWriters, FreesWriters, tellVars
  <2>3. CASE DeleteSync
    BY <1>1, <1>2, <2>3 DEF DeleteSync, tellVars
  <2> QED  BY <1>12, <2>1, <2>2, <2>3
<1>13. CASE StartAlpha \/ TokenFails
  BY <1>1, <1>2, <1>13 DEF StartAlpha, TokenFails, Succeeds, Coded
<1>14. CASE DeleteEnd
  <2>1. UNCHANGED <<parts, failed>> /\ stage = "delete" /\ stage' = "freed"
          /\ ok' = (ok /\ (shot.thread => ~had_error))
    BY <1>14 DEF DeleteEnd, tellVars
  <2>2. UNCHANGED bad
    BY <1>14 DEF DeleteEnd, End, ChangeState, workerVars, bookVars
  <2>3. ~shot.thread => ~bad
    BY <1>1 DEF AlphaCompressed, AlphaJob
  <2> QED  BY <1>1, <1>2, <2>1, <2>2, <2>3
<1>15. CASE DeleteFrees
  BY <1>1, <1>2, <1>15 DEF DeleteFrees, tellVars, workerVars, bookVars
<1>16. ASSUME NEW b \in BOOLEAN, AlphaDone(b) PROVE OkTells'
  <2>1. status = "WORK"
    BY <1>1, <1>16 DEF AlphaDone, InAlphaJob, Coupled
  <2>2. stage \notin {"freed", "over"}
    BY <1>1, <2>1 DEF JobsCounted, Calls, Coupled
  <2> QED  BY <1>1, <1>2, <1>16, <2>2 DEF AlphaDone, tellVars, jobVars
<1>17. ASSUME NEW b \in BOOLEAN, NEW c \in BOOLEAN, NEW d \in BOOLEAN,
              \/ AlphaFinished(b) \/ PreLoopInitialize(b)
              \/ CodePicture(b, c) \/ EmitTokens(b, c) \/ EncWrite(b, c, d)
       PROVE  OkTells'
  BY <1>1, <1>2, <1>17 DEF AlphaFinished, PreLoopInitialize, CodePicture,
     EmitTokens, EncWrite, Succeeds, Coded
<1>18. ASSUME NEW b \in BOOLEAN, NEW c \in BOOLEAN, StatPass(b, c) \/ TokenPass(b, c)
       PROVE  OkTells'
  <2>1. UNCHANGED <<ok, parts, failed, mainbad>> /\ stage \in {"stat", "token"}
          /\ stage' \in {"stat", "token", "code", "emit"}
    BY <1>18 DEF StatPass, TokenPass, AfterPass, tellVars, jobVars
  <2> QED  BY <1>1, <2>1
<1> QED
  BY <1>5, <1>6, <1>7, <1>8, <1>9, <1>10, <1>11, <1>12, <1>13, <1>14, <1>15,
     <1>16, <1>17, <1>18, EncSteps DEF Later

(* The steps that have nothing to do with the worker.                      *)
Alone ==
  \/ AssignSegments \/ \E j \in Jobs : CountRow(j)
  \/ \E j \in Jobs, b \in BOOLEAN : HookReturns(j, b)
  \/ OneSegment(TRUE) \/ OneSegment(FALSE) \/ StatAborted \/ TokenFails
  \/ FreeBitWriters \/ DeleteFrees
  \/ \E b \in BOOLEAN : AlphaFinished(b) \/ PreLoopInitialize(b)
  \/ \E b, c \in BOOLEAN : StatPass(b, c) \/ TokenPass(b, c)
  \/ \E b, c \in BOOLEAN : CodePicture(b, c) \/ EmitTokens(b, c)
  \/ \E b, c, d \in BOOLEAN : EncWrite(b, c, d)

LEMMA EncCalls ==
  ASSUME [EncNext]_shotVars
  PROVE  \/ Alone \/ OnlyWorker
         \/ SplitJobs \/ LaunchSide \/ SyncSide \/ EndSide \/ SideDone
         \/ StartAlpha \/ LaunchAlpha \/ FinishAlpha
         \/ \E b \in BOOLEAN : AlphaDone(b)
         \/ DeleteSync \/ DeleteEnd
  BY EncSteps DEF Alone, Later

(* Where they lead.                                                        *)
LEMMA AloneMoves ==
  ASSUME Alone, EncTypeOK, Calls
  PROVE  /\ UNCHANGED <<workerVars, shot>>
         /\ \/ stage' = stage
            \/ Moves("analyze", "alpha") /\ ~shot.segments
            \/ Moves("end", "alpha") /\ ok /\ main = "out"
            \/ Moves("end", "free") /\ main = "out"
            \/ stage \in Coding /\ stage' \in Coding \cup {"free"} /\ main = "out"
                 /\ (stage' = "write" => stage = "synced" /\ ~had_error)
                 /\ stage' \notin {"loop", "synced"}
            \/ Moves("free", "ask")
            \/ Moves("freed", "over") /\ main = "out" /\ ~alphadata'
<1> USE DEF Moves, Enters, Succeeds, Coded, Coding
<1>1. CASE \/ AssignSegments \/ \E j \in Jobs : CountRow(j)
           \/ \E j \in Jobs, b \in BOOLEAN : HookReturns(j, b)
  BY <1>1 DEF AssignSegments, CountRow, HookReturns
<1>2. CASE \/ OneSegment(TRUE) \/ OneSegment(FALSE) \/ StatAborted \/ TokenFails
           \/ FreeBitWriters \/ DeleteFrees
  BY <1>2 DEF OneSegment, StatAborted, TokenFails, FreeBitWriters, DeleteFrees, Calls
<1>3. ASSUME NEW b \in BOOLEAN, NEW c \in BOOLEAN, NEW d \in BOOLEAN,
             \/ AlphaFinished(b) \/ PreLoopInitialize(b)
             \/ CodePicture(b, c) \/ EmitTokens(b, c) \/ EncWrite(b, c, d)
      PROVE  /\ UNCHANGED <<workerVars, shot>>
             /\ \/ stage' = stage
                \/ stage \in Coding /\ stage' \in Coding \cup {"free"} /\ main = "out"
                     /\ (stage' = "write" => stage = "synced" /\ ~had_error)
                     /\ stage' \notin {"loop", "synced"}
  BY <1>3, ShotsAssumption DEF AlphaFinished, PreLoopInitialize, CodePicture,
     EmitTokens, EncWrite, Calls, EncTypeOK, EncDataOK
<1>4. ASSUME NEW b \in BOOLEAN, NEW c \in BOOLEAN, StatPass(b, c) \/ TokenPass(b, c)
      PROVE  /\ UNCHANGED <<workerVars, shot>>
             /\ stage \in {"stat", "token"}
             /\ stage' \in {"stat", "code", "token", "emit"} /\ main = "out"
  BY <1>4 DEF StatPass, TokenPass, AfterPass, Calls
<1> QED  BY <1>1, <1>2, <1>3, <1>4 DEF Alone

LEMMA NextCalls == EncInv /\ [EncNext]_shotVars => Calls'
<1> SUFFICES ASSUME EncInv, [EncNext]_shotVars PROVE Calls'
  OBVIOUS
<1>1. Calls /\ Coupled /\ EncTypeOK /\ OkTells
  BY DEF EncInv, IInv
<1>2. shot' = shot /\ InParallel' = InParallel /\ TwoJobs' = TwoJobs
        /\ AlphaJob' = AlphaJob
  BY ShotKept DEF InParallel, SplitRow, TwoJobs, AlphaJob
<1> USE DEF Analysis, Coding, Ending
<1>3. CASE Alone
  <2>1. UNCHANGED <<main, new, impl>>
    BY <1>1, <1>3, AloneMoves DEF workerVars, implVars
  <2>2. CASE stage' = stage
    BY <1>1, <1>2, <2>1, <2>2 DEF Calls
  <2>3. CASE stage' # stage
    BY <1>1, <1>2, <1>3, <2>1, <2>3, AloneMoves DEF Calls, Moves
  <2> QED  BY <2>2, <2>3
<1>4. CASE SplitJobs
  <2>1. TwoJobs <=> InParallel
    BY <1>4 DEF SplitJobs, TwoJobs
  <2> QED
    BY <1>1, <1>2, <1>4, <2>1 DEF SplitJobs, Create, CreateFails, Enters, Calls,
       workerVars, implVars
<1>5. CASE LaunchSide
  BY <1>1, <1>2, <1>5 DEF LaunchSide, Launch, ChangeState, Enters, Calls, implVars
<1>6. CASE SyncSide \/ EndSide
  <2>1. TwoJobs <=> InParallel
    BY <1>1, <1>6 DEF SyncSide, EndSide, TwoJobs, Calls
  <2> QED
    BY <1>1, <1>2, <1>6, <2>1 DEF SyncSide, EndSide, Sync, End, ChangeState, Enters,
       Calls, implVars, workerVars
<1>7. CASE SideDone
  BY <1>1, <1>2, <1>7 DEF SideDone, encVars, Ran, SignalMain, Woken, Calls
<1>8. CASE StartAlpha
  BY <1>1, <1>2, <1>8 DEF StartAlpha, Create, CreateFails, Enters, Succeeds, Calls,
     workerVars, implVars, AlphaJob
<1>9. CASE LaunchAlpha
  BY <1>1, <1>2, <1>9 DEF LaunchAlpha, Launch, ChangeState, Enters, Calls, implVars
<1>10. CASE FinishAlpha
  BY <1>1, <1>2, <1>10 DEF FinishAlpha, SyncsAlpha, Sync, ChangeState, Enters,
     Calls, implVars, workerVars, AlphaJob
<1>11. ASSUME NEW b \in BOOLEAN, AlphaDone(b) PROVE Calls'
  BY <1>1, <1>2, <1>11 DEF AlphaDone, Ran, SignalMain, Woken, Calls
<1>12. CASE DeleteSync \/ DeleteEnd
  <2>1. AlphaJob => shot.thread
    BY DEF AlphaJob
  <2> QED
    BY <1>1, <1>2, <1>12, <2>1 DEF DeleteSync, DeleteEnd, DeleteEnds, Sync, End,
       ChangeState, Enters, Calls, implVars, workerVars
<1>13. CASE OnlyWorker
  <2>1. UNCHANGED stage
    BY <1>13 DEF OnlyWorker, encVars
  <2>2. CASE Join
    BY <1>1, <1>2, <2>1, <2>2 DEF Join, Calls, Coupled
  <2>3. CASE Created \/ Waits \/ Assigns
    BY <1>1, <1>2, <2>1, <2>3 DEF Created, Waits, Assigns, Locks, implVars, Calls,
       Coupled
  <2>4. CASE Idles \/ Takes \/ Quits
    BY <1>1, <1>2, <2>1, <2>4 DEF Idles, Takes, Quits, SignalMain, Woken, implVars,
       Calls, Coupled
  <2>5. CASE Spurious \/ UNCHANGED workerVars
    BY <1>1, <1>2, <2>1, <2>5 DEF Spurious, implVars, workerVars, Calls
  <2> QED  BY <1>13, <2>2, <2>3, <2>4, <2>5 DEF OnlyWorker
<1> QED
  BY <1>3, <1>4, <1>5, <1>6, <1>7, <1>8, <1>9, <1>10, <1>11, <1>12, <1>13, EncCalls

LEMMA NextJobs == EncInv /\ [EncNext]_shotVars => JobsCounted'
<1> SUFFICES ASSUME EncInv, [EncNext]_shotVars PROVE JobsCounted'
  OBVIOUS
<1>1. JobsCounted /\ Calls /\ Coupled /\ EncTypeOK /\ OkTells /\ WorkerTypeOK
  BY DEF EncInv, IInv
<1>2. shot' = shot /\ SideJobs' = SideJobs /\ TwoJobs' = TwoJobs
        /\ AlphaJob' = AlphaJob
  BY ShotKept DEF InParallel, SplitRow, TwoJobs, AlphaJob, SideJobs
<1>3. SideJobs \in {0, 1} /\ launched \in Nat
  BY <1>1 DEF SideJobs, WorkerTypeOK
<1> USE DEF Analysis, Coding, Ending
<1>4. CASE Alone
  <2>1. UNCHANGED <<main, launched, status>>
    BY <1>1, <1>4, AloneMoves DEF workerVars, implVars, bookVars
  <2>2. CASE stage' = stage
    <3>1. stage = "end" /\ ok' => ok
      BY <1>4, <2>2 DEF Alone, AssignSegments, CountRow, HookReturns, OneSegment,
         StatAborted, TokenFails, FreeBitWriters, DeleteFrees, AlphaFinished,
         PreLoopInitialize, StatPass, TokenPass, CodePicture, EmitTokens, EncWrite
    <3> QED  BY <1>1, <1>2, <2>1, <2>2, <3>1 DEF JobsCounted
  <2>3. CASE stage' # stage
    <3>1. stage = "analyze" /\ ~shot.segments => SideJobs = 0
      BY DEF SideJobs, TwoJobs
    <3> QED
      BY <1>1, <1>2, <1>3, <1>4, <2>1, <2>3, <3>1, AloneMoves
         DEF JobsCounted, Calls, Moves
  <2> QED  BY <2>2, <2>3
<1>5. CASE SplitJobs
  <2>1. launched' = launched /\ status' = status /\ stage = "analyze" /\ ~impl
    BY <1>1, <1>5 DEF SplitJobs, Create, CreateFails, Calls, workerVars, implVars,
       bookVars
  <2>2. \/ stage' = "reset"
        \/ stage' = "execute" /\ ~InParallel /\ main' = main
        \/ stage' = "end" /\ ok' = FALSE
    BY <1>5 DEF SplitJobs, Enters, workerVars
  <2>3. status # "WORK" /\ main = "out"
    BY <1>1, <2>1 DEF Coupled
  <2>4. ~InParallel => SideJobs = 0
    BY DEF SideJobs, TwoJobs
  <2> QED  BY <1>1, <1>2, <2>1, <2>2, <2>3, <2>4 DEF JobsCounted
<1>6. CASE LaunchSide
  BY <1>1, <1>2, <1>6 DEF LaunchSide, Launch, ChangeState, Enters, JobsCounted,
     implVars, bookVars
<1>7. CASE SyncSide
  <2>1. TwoJobs <=> InParallel
    BY <1>1, <1>7 DEF SyncSide, TwoJobs, Calls
  <2> QED
    BY <1>1, <1>2, <1>3, <1>7, <2>1 DEF SyncSide, Sync, ChangeState, Enters,
       JobsCounted, Calls, Coupled, implVars, workerVars, bookVars, SideJobs
<1>8. CASE EndSide
  BY <1>1, <1>2, <1>3, <1>8 DEF EndSide, End, ChangeState, Enters, JobsCounted,
     implVars, workerVars, bookVars
<1>9. CASE SideDone
  BY <1>1, <1>2, <1>9 DEF SideDone, encVars, Ran, DoneStatus, SignalMain, Woken,
     JobsCounted, Coupled
<1>10. CASE StartAlpha
  BY <1>1, <1>2, <1>3, <1>10 DEF StartAlpha, Create, CreateFails, Enters, Succeeds,
     JobsCounted, Calls, Coupled, workerVars, implVars, bookVars, AlphaJob
<1>11. CASE LaunchAlpha
  BY <1>1, <1>2, <1>3, <1>11 DEF LaunchAlpha, Launch, ChangeState, Enters,
     JobsCounted, implVars, bookVars
<1>12. CASE FinishAlpha
  BY <1>1, <1>2, <1>3, <1>12 DEF FinishAlpha, SyncsAlpha, Sync, ChangeState, Enters,
     JobsCounted, Calls, Coupled, implVars, workerVars, bookVars, AlphaJob
<1>13. ASSUME NEW b \in BOOLEAN, AlphaDone(b) PROVE JobsCounted'
  BY <1>1, <1>2, <1>13 DEF AlphaDone, Ran, DoneStatus, SignalMain, Woken,
     JobsCounted, Coupled
<1>14. CASE DeleteSync \/ DeleteEnd
  <2>1. impl => shot.thread
    BY <1>1, <1>14 DEF AlphaJob, Calls, DeleteSync, DeleteEnd
  <2> QED
    BY <1>1, <1>2, <1>3, <1>14, <2>1 DEF DeleteSync, DeleteEnd, DeleteEnds, Sync,
       End, ChangeState, Enters, JobsCounted, Coupled, implVars, workerVars, bookVars
<1>15. CASE OnlyWorker
  <2>1. UNCHANGED <<stage, ok>>
    BY <1>15 DEF OnlyWorker, encVars
  <2>2. CASE Created
    BY <1>1, <1>2, <1>3, <2>1, <2>2 DEF Created, JobsCounted, Calls, Coupled,
       bookVars
  <2>3. CASE Waits
    BY <1>1, <1>2, <1>3, <2>1, <2>3 DEF Waits, Locks, JobsCounted, Coupled,
       implVars, bookVars
  <2>4. CASE Assigns
    <3>1. /\ main \notin {"created", "out"} /\ main' \in {"join", "out"}
          /\ status' = new /\ impl /\ (new = "NOT_OK" <=> main' = "join")
          /\ launched' = launched + (IF new = "WORK" THEN 1 ELSE 0)
      BY <1>1, <2>4 DEF Assigns, Locks, Coupled
    <3>2. stage = "execute" => SideJobs = 1
      BY <1>1, <3>1 DEF Calls, SideJobs
    <3>3. stage = "loop" => AlphaJob
      BY <1>1, <3>1 DEF Calls
    <3> QED  BY <1>1, <1>2, <1>3, <2>1, <3>1, <3>2, <3>3 DEF JobsCounted, Calls
  <2>5. CASE Join
    BY <1>1, <1>2, <1>3, <2>1, <2>5 DEF Join, JobsCounted, Calls, Coupled, bookVars
  <2>6. CASE Idles \/ Takes \/ Quits
    BY <1>1, <1>2, <1>3, <2>1, <2>6 DEF Idles, Takes, Quits, SignalMain, Woken,
       JobsCounted, Coupled, implVars, bookVars
  <2>7. CASE Spurious \/ UNCHANGED workerVars
    BY <1>1, <1>2, <1>3, <2>1, <2>7 DEF Spurious, JobsCounted, implVars, bookVars,
       workerVars
  <2> QED  BY <1>15, <2>2, <2>3, <2>4, <2>5, <2>6, <2>7 DEF OnlyWorker
<1> QED
  BY <1>4, <1>5, <1>6, <1>7, <1>8, <1>9, <1>10, <1>11, <1>12, <1>13, <1>14, <1>15,
     EncCalls

LEMMA NextAlpha == EncInv /\ [EncNext]_shotVars => AlphaCompressed'
<1> SUFFICES ASSUME EncInv, [EncNext]_shotVars PROVE AlphaCompressed'
  OBVIOUS
<1>1. /\ AlphaCompressed /\ JobsCounted /\ Calls /\ Coupled /\ EncTypeOK
      /\ EveryJobOnce /\ WorkerTypeOK
  BY DEF EncInv, IInv, Counted
<1>2. shot' = shot /\ SideJobs' = SideJobs /\ AlphaJob' = AlphaJob
  BY ShotKept DEF InParallel, SplitRow, TwoJobs, AlphaJob, SideJobs
<1>3. /\ SideJobs \in {0, 1} /\ launched \in Nat /\ ran \in Nat
      /\ launched = ran + (IF status = "WORK" THEN 1 ELSE 0)
      /\ bad \in BOOLEAN /\ had_error \in BOOLEAN /\ (had_error <=> bad)
      /\ alphadata \in BOOLEAN /\ shot.alpha \in BOOLEAN /\ shot.thread \in BOOLEAN
  BY <1>1, ShotsAssumption
     DEF SideJobs, WorkerTypeOK, EveryJobOnce, EncTypeOK, EncDataOK, EncInv, IInv,
         ErrorsKept
<1> USE DEF Analysis, Coding, Ending
<1>4. CASE Alone
  <2>1. UNCHANGED <<bad, ran>>
    BY <1>1, <1>4, AloneMoves DEF workerVars, bookVars
  <2>2. CASE DeleteFrees
    BY <1>1, <1>2, <2>1, <2>2 DEF DeleteFrees, Enters, AlphaCompressed
  <2>3. CASE ~DeleteFrees
    <3>1. alphadata' = alphadata
      BY <1>4, <2>3 DEF Alone, AssignSegments, CountRow, HookReturns, OneSegment,
         StatAborted, TokenFails, FreeBitWriters, AlphaFinished,
         PreLoopInitialize, StatPass, TokenPass, CodePicture, EmitTokens, EncWrite
    <3>2. CASE stage' = stage
      BY <1>1, <1>2, <2>1, <3>1, <3>2 DEF AlphaCompressed
    <3>3. CASE stage' # stage
      BY <1>1, <1>2, <1>3, <1>4, <2>1, <3>1, <3>3, AloneMoves
         DEF AlphaCompressed, Moves
    <3> QED  BY <3>2, <3>3
  <2> QED  BY <2>2, <2>3
<1>5. CASE SplitJobs
  <2>1. alphadata' = alphadata /\ stage = "analyze" /\ (bad' = FALSE \/ bad' = bad)
          /\ stage' \in {"reset", "execute", "end"}
    BY <1>5 DEF SplitJobs, Create, CreateFails, Enters, workerVars, bookVars
  <2> QED  BY <1>1, <1>2, <2>1 DEF AlphaCompressed
<1>6. CASE LaunchSide \/ SyncSide \/ EndSide \/ LaunchAlpha \/ FinishAlpha
  <2>1. UNCHANGED <<bad, ran, alphadata>>
    BY <1>6 DEF LaunchSide, SyncSide, EndSide, LaunchAlpha, FinishAlpha, Launch, Sync,
       End, SyncsAlpha, ChangeState, bookVars, workerVars
  <2>2. \/ stage \in Analysis /\ stage' \in Analysis
        \/ stage \in {"launch", "finish"} /\ stage' \in {"loop", "synced"}
    BY <1>6 DEF LaunchSide, SyncSide, EndSide, LaunchAlpha, FinishAlpha, Enters
  <2> QED  BY <1>1, <1>2, <2>1, <2>2 DEF AlphaCompressed
<1>7. CASE DeleteSync \/ DeleteEnd
  <2>1. UNCHANGED <<bad, ran, alphadata>>
    BY <1>7 DEF DeleteSync, DeleteEnd, Sync, End, ChangeState, bookVars, workerVars
  <2>2. stage' \in {"delete", "freed"}
    BY <1>7 DEF DeleteSync, DeleteEnd, Enters
  <2> QED  BY <1>1, <1>2, <2>1, <2>2 DEF AlphaCompressed
<1>8. CASE SideDone
  <2>1. /\ thread = "hook" /\ stage \in {"execute", "sync"}
        /\ UNCHANGED <<stage, alphadata>> /\ bad' = (bad \/ ~TRUE)
    BY <1>8 DEF SideDone, Doing, Ran, encVars
  <2> QED  BY <1>1, <1>2, <2>1 DEF AlphaCompressed
<1>9. CASE StartAlpha
  <2>1. stage = "alpha" /\ ~alphadata /\ ~bad
    BY <1>1, <1>9 DEF StartAlpha, AlphaCompressed
  <2>2. CASE ~shot.alpha
    BY <1>1, <1>2, <1>3, <1>9, <2>1, <2>2 DEF StartAlpha, Enters, AlphaCompressed,
       AlphaJob, workerVars, bookVars
  <2>3. CASE shot.alpha /\ shot.thread
    <3>1. alphadata' = alphadata /\ ran' = ran /\ bad' = FALSE
            /\ stage' \in {"launch", "free"}
      BY <1>9, <2>3 DEF StartAlpha, Create, CreateFails, Enters, Succeeds
    <3>2. ran # SideJobs + 1
      BY <1>1, <1>3, <2>1 DEF JobsCounted
    <3> QED  BY <1>1, <1>2, <1>3, <2>1, <2>3, <3>1, <3>2 DEF AlphaCompressed, AlphaJob
  <2>4. CASE shot.alpha /\ ~shot.thread
    <3>1. PICK well \in BOOLEAN : CompressAlpha(well) /\ Succeeds(well, "loop")
      BY <1>9, <2>4 DEF StartAlpha
    <3>2. alphadata' = well /\ bad' = bad /\ stage' = IF well THEN "loop" ELSE "free"
      BY <1>9, <2>4, <3>1 DEF StartAlpha, CompressAlpha, Succeeds, Enters, workerVars,
         bookVars
    <3> QED  BY <1>1, <1>2, <1>3, <2>1, <2>4, <3>2 DEF AlphaCompressed, AlphaJob
  <2> QED  BY <1>3, <2>2, <2>3, <2>4
<1>10. ASSUME NEW b \in BOOLEAN, AlphaDone(b) PROVE AlphaCompressed'
  <2>1. /\ thread = "hook" /\ stage \notin {"execute", "sync"} /\ stage' = stage
        /\ alphadata' = b /\ bad' = (bad \/ ~b) /\ ran' = ran + 1
    BY <1>10 DEF AlphaDone, InAlphaJob, CompressAlpha, Ran
  <2>2. status = "WORK" /\ impl
    BY <1>1, <2>1 DEF Coupled
  <2>3. stage \in {"launch"} \cup Coding \cup Ending /\ AlphaJob
          /\ stage \notin {"launch", "write", "freed", "over"}
    <3>1. stage \notin {"reset", "launch", "end", "write", "freed"}
      BY <1>1, <1>3, <2>2 DEF JobsCounted
    <3>2. stage \notin {"analyze", "alpha", "over", "idle"}
      BY <1>1, <2>2 DEF Calls
    <3>3. stage \in Coding \cup Ending
      BY <1>1, <2>1, <3>1, <3>2 DEF EncTypeOK
    <3> QED  BY <1>1, <2>2, <3>1, <3>2, <3>3 DEF Calls
  <2>4. stage \in Coding => ran = SideJobs
    BY <1>1, <1>3, <2>2, <2>3 DEF JobsCounted
  <2>5. CASE stage \in Coding
    <3>1. ran' = SideJobs + 1 /\ ~bad
      BY <1>1, <1>3, <2>1, <2>3, <2>4, <2>5 DEF AlphaCompressed
    <3> QED  BY <1>1, <1>2, <2>1, <2>3, <2>5, <3>1 DEF AlphaCompressed
  <2>6. CASE stage \in Ending
    BY <1>1, <1>2, <2>1, <2>3, <2>6 DEF AlphaCompressed
  <2> QED  BY <2>3, <2>5, <2>6
<1>11. CASE OnlyWorker
  <2>1. UNCHANGED <<stage, alphadata, bad, ran>>
    BY <1>11 DEF OnlyWorker, encVars, Created, Waits, Assigns, Join, Idles, Takes,
       Quits, Spurious, workerVars, bookVars
  <2> QED  BY <1>1, <1>2, <2>1 DEF AlphaCompressed
<1> QED
  BY <1>4, <1>5, <1>6, <1>7, <1>8, <1>9, <1>10, <1>11, EncCalls

(* What a job has counted when it is at row n.                             *)
CountedTo(j, n) ==
  [y \in Rows(shot) |-> IF FirstRow(j) <= y /\ y < n THEN 1 ELSE 0]

(* One turn of a job.                                                      *)
LEMMA RowCounted ==
  ASSUME EncInv, NEW j \in Jobs, CountRow(j)
  PROVE  /\ seen' = [i \in Jobs |-> CountedTo(i, row'[i])]
         /\ stage \in {"execute", "sync"} /\ UNCHANGED <<stage, shot, mainbad, ran, ok>>
         /\ j = "main" => stage = "execute" /\ ~mainbad
         /\ j = "side" => TwoJobs /\ ran = 0
         /\ row' = [row EXCEPT ![j] = row[j] + 1]
         /\ left' = [left EXCEPT ![j] = left[j] - 1]
         /\ row[j] \in FirstRow(j)..(shot.rows - 1) /\ left[j] \in 1..shot.rows
<1>1. /\ EncTypeOK /\ RowsCounted /\ Calls /\ Coupled /\ JobsCounted /\ EveryJobOnce
      /\ WorkerTypeOK
  BY DEF EncInv, IInv, Counted
<1>2. /\ shot \in Shots /\ shot.rows \in Nat \ {0} /\ SplitRow \in 1..shot.rows
      /\ row \in [Jobs -> 0..shot.rows] /\ left \in [Jobs -> 0..shot.rows]
      /\ seen = [i \in Jobs |-> CountedTo(i, row[i])]
      /\ "main" \in Jobs /\ "side" \in Jobs
  <2>1. shot \in Shots
    BY <1>1 DEF EncTypeOK, EncDataOK
  <2> QED  BY <1>1, <2>1, Splits DEF EncTypeOK, EncDataOK, RowsCounted,
       RowsLeft, CountedTo, Jobs
<1>3. /\ UNCHANGED <<stage, shot, mainbad, ran, ok>>
      /\ row' = [row EXCEPT ![j] = row[j] + 1]
      /\ Doing(j) /\ left[j] # 0
  BY DEF CountRow, IsDone, workerVars, bookVars, passVars
<1>4. left[j] \in 1..shot.rows /\ left' = [left EXCEPT ![j] = left[j] - 1]
  BY <1>2, <1>3 DEF CountRow
<1>5. j = "side" => TwoJobs /\ stage \in {"execute", "sync"} /\ ran = 0
  <2> SUFFICES ASSUME j = "side"
               PROVE  TwoJobs /\ stage \in {"execute", "sync"} /\ ran = 0
    OBVIOUS
  <2>1. thread = "hook" /\ stage \in {"execute", "sync"}
    BY <1>3 DEF Doing
  <2>2. impl /\ status = "WORK" /\ TwoJobs
    BY <1>1, <2>1 DEF Coupled, Calls
  <2>3. launched \in {0, 1} /\ launched = ran + 1 /\ ran \in Nat
    BY <1>1, <2>1, <2>2 DEF JobsCounted, EveryJobOnce, SideJobs, WorkerTypeOK
  <2> QED  BY <2>1, <2>2, <2>3
<1>6. j = "main" => stage = "execute" /\ ~mainbad
  BY <1>1, <1>3 DEF Doing, RowsCounted, RowsLeft, Analysis
<1>7. stage \in {"execute", "sync"}
  BY <1>5, <1>6 DEF Jobs
<1>8. row[j] \in FirstRow(j)..(shot.rows - 1)
  <2>1. CASE j = "main"
    <3>1. row["main"] + left["main"] = EndRow("main")
      BY <1>1, <1>6, <1>7, <2>1 DEF RowsCounted, RowsLeft, Analysis
    <3> QED  BY <1>2, <1>4, <2>1, <3>1 DEF EndRow, FirstRow
  <2>2. CASE j = "side"
    <3>1. SplitRow <= row["side"] /\ row["side"] + left["side"] = shot.rows
      BY <1>1, <1>5, <1>7, <2>2 DEF RowsCounted, RowsLeft, Analysis
    <3> QED  BY <1>2, <1>4, <2>2, <3>1 DEF FirstRow
  <2> QED  BY <2>1, <2>2 DEF Jobs
<1>9. seen' = [i \in Jobs |-> CountedTo(i, row'[i])]
  <2>1. DOMAIN seen[j] = Rows(shot) /\ row[j] \in Rows(shot)
    <3>1. FirstRow(j) \in Nat
      BY <1>2 DEF FirstRow
    <3> QED  BY <1>2, <1>8, <3>1 DEF CountedTo, Rows
  <2>2. seen' = [seen EXCEPT ![j] = [y \in Rows(shot) |->
                   seen[j][y] + (IF y = row[j] THEN 1 ELSE 0)]]
    <3>1. Rows(shot) \cup {row[j]} = Rows(shot)
      BY <2>1
    <3> QED  BY <2>1, <3>1 DEF CountRow
  <2>3. [y \in Rows(shot) |-> seen[j][y] + (IF y = row[j] THEN 1 ELSE 0)]
          = CountedTo(j, row[j] + 1)
    <3>1. \A y \in Rows(shot) :
             seen[j][y] + (IF y = row[j] THEN 1 ELSE 0)
               = IF FirstRow(j) <= y /\ y < row[j] + 1 THEN 1 ELSE 0
      <4> TAKE y \in Rows(shot)
      <4>1. seen[j][y] = IF FirstRow(j) <= y /\ y < row[j] THEN 1 ELSE 0
        BY <1>2 DEF CountedTo
      <4>2. y \in Nat /\ row[j] \in Nat /\ FirstRow(j) \in Nat /\ FirstRow(j) <= row[j]
        BY <1>2, <1>8 DEF Rows, FirstRow
      <4> QED  BY <4>1, <4>2
    <3> QED  BY <3>1 DEF CountedTo
  <2>4. \A i \in Jobs : row'[i] = IF i = j THEN row[j] + 1 ELSE row[i]
    BY <1>2, <1>3
  <2> QED  BY <1>2, <2>2, <2>3, <2>4
<1> QED  BY <1>3, <1>4, <1>5, <1>6, <1>7, <1>8, <1>9

LEMMA NextRows == EncInv /\ [EncNext]_shotVars => RowsCounted'
<1> SUFFICES ASSUME EncInv, [EncNext]_shotVars PROVE RowsCounted'
  OBVIOUS
<1>1. /\ EncTypeOK /\ RowsCounted /\ Calls /\ Coupled /\ JobsCounted /\ EveryJobOnce
      /\ WorkerTypeOK /\ HookIsMains /\ RowsLeft
  BY DEF EncInv, IInv, Counted, RowsCounted
<1>2. /\ shot' = shot /\ InParallel' = InParallel /\ TwoJobs' = TwoJobs
      /\ SplitRow' = SplitRow /\ Rows(shot)' = Rows(shot)
      /\ \A j \in Jobs : FirstRow(j)' = FirstRow(j) /\ EndRow(j)' = EndRow(j)
  BY ShotKept DEF InParallel, SplitRow, TwoJobs, FirstRow, EndRow, Rows
<1>3. /\ shot \in Shots /\ shot.rows \in Nat \ {0} /\ SplitRow \in 1..shot.rows
      /\ row \in [Jobs -> 0..shot.rows] /\ left \in [Jobs -> 0..shot.rows]
      /\ "main" \in Jobs /\ "side" \in Jobs
      /\ mainbad \in BOOLEAN /\ ok \in BOOLEAN
  <2>1. shot \in Shots
    BY <1>1 DEF EncTypeOK, EncDataOK
  <2> QED  BY <1>1, <2>1, Splits DEF EncTypeOK, EncDataOK, Jobs
<1>4. seen = [j \in Jobs |-> CountedTo(j, row[j])]
  BY <1>1 DEF RowsCounted, CountedTo
<1>5. ASSUME seen' = [j \in Jobs |-> CountedTo(j, row'[j])], RowsLeft'
      PROVE  RowsCounted'
  <2>1. seen' = [j \in Jobs |-> [y \in Rows(shot)' |->
                   IF FirstRow(j)' <= y /\ y < row'[j] THEN 1 ELSE 0]]
    BY <1>2, <1>5 DEF CountedTo
  <2> QED  BY <1>5, <2>1 DEF RowsCounted
<1>6. ASSUME UNCHANGED <<seen, row, left, mainbad, ran>>,
             \/ stage' = stage /\ ok' = ok
             \/ stage' \notin {"analyze"} \cup Analysis
             \/ stage = "reset" /\ stage' = "execute"
             \/ /\ stage = "execute" /\ stage' = "sync"
                /\ ok' => ~mainbad /\ left["main"] = 0
             \/ stage = "sync" /\ stage' = "end" /\ (ok' => ok)
      PROVE  RowsCounted'
  <2>1. RowsLeft'
    BY <1>1, <1>2, <1>3, <1>6 DEF RowsLeft, Analysis
  <2> QED  BY <1>4, <1>5, <1>6, <2>1
<1>7. ASSUME NEW j \in Jobs, CountRow(j) PROVE RowsCounted'
  <2>1. /\ seen' = [i \in Jobs |-> CountedTo(i, row'[i])]
        /\ stage \in {"execute", "sync"} /\ UNCHANGED <<stage, shot, mainbad, ran, ok>>
        /\ j = "main" => stage = "execute" /\ ~mainbad
        /\ j = "side" => TwoJobs /\ ran = 0
        /\ row' = [row EXCEPT ![j] = row[j] + 1]
        /\ left' = [left EXCEPT ![j] = left[j] - 1]
        /\ row[j] \in FirstRow(j)..(shot.rows - 1) /\ left[j] \in 1..shot.rows
    BY <1>7, RowCounted
  <2>2. CASE j = "main"
    <3>1. /\ row'["main"] + left'["main"] = row["main"] + left["main"]
          /\ row'["side"] = row["side"] /\ left'["side"] = left["side"]
      BY <1>3, <2>1, <2>2
    <3>8. RowsLeft'
      BY <1>1, <1>2, <1>5, <2>1, <2>2, <3>1 DEF RowsLeft, Analysis
    <3> QED  BY <1>4, <1>5, <2>1, <3>8
  <2>3. CASE j = "side"
    <3>1. /\ row'["side"] + left'["side"] = row["side"] + left["side"]
          /\ row'["main"] = row["main"] /\ left'["main"] = left["main"]
          /\ SplitRow <= row'["side"]
      BY <1>3, <2>1, <2>3 DEF FirstRow
    <3>8. RowsLeft'
      BY <1>1, <1>2, <1>3, <2>1, <2>3, <3>1 DEF RowsLeft, Analysis
    <3> QED  BY <1>4, <1>5, <2>1, <3>8
  <2> QED  BY <2>2, <2>3 DEF Jobs
<1>8. ASSUME NEW j \in Jobs, NEW b \in BOOLEAN, HookReturns(j, b) PROVE RowsCounted'
  <2>1. /\ j = "main" /\ stage = "execute" /\ UNCHANGED <<stage, ok, seen, row, ran>>
        /\ \/ UNCHANGED <<left, mainbad>>
           \/ mainbad' = TRUE /\ left' = [left EXCEPT !["main"] = 0]
    BY <1>1, <1>8 DEF HookReturns, Doing, HookIsMains, workerVars, bookVars
  <2>2. CASE UNCHANGED <<left, mainbad>>
    BY <1>6, <2>1, <2>2
  <2>3. CASE mainbad' = TRUE /\ left' = [left EXCEPT !["main"] = 0]
    <3>1. left'["main"] = 0 /\ left'["side"] = left["side"]
      BY <1>3, <2>3
    <3>8. RowsLeft'
      BY <1>1, <1>2, <1>4, <1>5, <2>1, <2>3, <3>1 DEF RowsLeft, Analysis
    <3> QED  BY <1>4, <1>5, <2>1, <3>8
  <2> QED  BY <2>1, <2>2, <2>3
<1>9. CASE SplitJobs
  <2>1. /\ stage = "analyze" /\ row = [j \in Jobs |-> 0] /\ mainbad' = FALSE
        /\ shot.segments /\ UNCHANGED <<seen, ran>>
        /\ stage' \in {"reset", "execute"} \/ (stage' = "end" /\ ok' = FALSE)
    BY <1>1, <1>3, <1>9 DEF SplitJobs, RowsLeft, Enters, Create, CreateFails,
       workerVars, bookVars
  <2>2. ran' = 0
    BY <1>1, <2>1 DEF JobsCounted, EveryJobOnce, WorkerTypeOK
  <2>3. CASE InParallel
    <3>1. /\ row' = [row EXCEPT !["side"] = SplitRow]
          /\ left' = [main |-> SplitRow, side |-> shot.rows - SplitRow]
      BY <1>9, <2>3 DEF SplitJobs, InitSegmentJobs, SideFirst
    <3>2. /\ row'["side"] = SplitRow /\ row'["main"] = 0
          /\ left'["main"] = SplitRow /\ left'["side"] = shot.rows - SplitRow
      BY <1>3, <2>1, <3>1
    <3>3. /\ row'["main"] + left'["main"] = EndRow("main")
          /\ row'["side"] + left'["side"] = shot.rows
      BY <1>3, <2>3, <3>2 DEF EndRow
    <3>4. \A j \in Jobs : CountedTo(j, row'[j]) = CountedTo(j, row[j])
      <4>1. \A y \in Rows(shot) : y \in Nat /\ ~(SplitRow <= y /\ y < SplitRow)
              /\ ~(SplitRow <= y /\ y < 0)
        BY <1>3 DEF Rows
      <4>2. CountedTo("side", SplitRow) = CountedTo("side", 0)
        BY <4>1 DEF CountedTo, FirstRow
      <4> QED  BY <2>1, <3>2, <4>2 DEF Jobs
    <3>5. seen' = [j \in Jobs |-> CountedTo(j, row'[j])]
      BY <1>4, <2>1, <3>4
    <3>8. RowsLeft'
      BY <1>2, <1>3, <1>5, <2>1, <2>2, <3>2, <3>3, <3>5 DEF RowsLeft, Analysis
    <3> QED  BY <1>5, <3>5, <3>8
  <2>4. CASE ~InParallel
    <3>1. left' = [left EXCEPT !["main"] = shot.rows] /\ row' = row
      BY <1>9, <2>4 DEF SplitJobs, InitSegmentJobs
    <3>2. row'["main"] + left'["main"] = EndRow("main") /\ ~TwoJobs
      BY <1>3, <2>1, <2>4, <3>1 DEF EndRow, TwoJobs
    <3>8. RowsLeft'
      BY <1>2, <1>3, <2>1, <3>1, <3>2 DEF RowsLeft, Analysis
    <3> QED  BY <1>4, <1>5, <2>1, <3>1, <3>8
  <2> QED  BY <2>3, <2>4
<1>10. CASE SideDone
  <2>1. UNCHANGED <<stage, ok, seen, row, left, mainbad>> /\ left["side"] = 0
    BY <1>10 DEF SideDone, encVars, jobVars
  <2>8. RowsLeft'
    BY <1>1, <1>2, <1>3, <2>1 DEF RowsLeft, Analysis
  <2> QED  BY <1>4, <1>5, <2>1, <2>8
<1>11. CASE LaunchSide \/ SyncSide \/ EndSide \/ AssignSegments
  <2>1. UNCHANGED <<seen, row, left, mainbad, ran>>
    BY <1>11 DEF LaunchSide, SyncSide, EndSide, AssignSegments, Launch, Sync, End,
       ChangeState, jobVars, workerVars, bookVars
  <2>2. \/ stage' \notin {"analyze"} \cup Analysis
        \/ stage = "reset" /\ stage' = "execute"
        \/ /\ stage = "execute" /\ stage' = "sync"
           /\ ok' => ~mainbad /\ left["main"] = 0
        \/ stage = "sync" /\ stage' = "end" /\ (ok' => ok)
    BY <1>11 DEF LaunchSide, SyncSide, EndSide, AssignSegments, Enters, Analysis
  <2> QED  BY <1>6, <2>1, <2>2
<1>12. CASE Later
  <2>1. UNCHANGED <<seen, row, left, mainbad>>
    BY <1>12, LaterKeeps DEF jobVars
  <2>2. stage' \notin {"analyze"} \cup Analysis
    <3>1. ASSUME NEW b \in BOOLEAN, AlphaDone(b)
          PROVE  stage' \notin {"analyze"} \cup Analysis
      <4>1. /\ status = "WORK" /\ impl /\ stage' = stage /\ stage \notin {"execute", "sync"}
            /\ launched = ran + 1 /\ ran \in Nat
        BY <1>1, <3>1 DEF AlphaDone, InAlphaJob, Coupled, EveryJobOnce, WorkerTypeOK
      <4> QED  BY <1>1, <4>1 DEF JobsCounted, Calls, Analysis
    <3>2. CASE \/ OneSegment(TRUE) \/ OneSegment(FALSE) \/ StartAlpha \/ LaunchAlpha
               \/ FinishAlpha \/ StatAborted \/ TokenFails \/ FreeBitWriters
               \/ DeleteSync \/ DeleteEnd \/ DeleteFrees
      BY <3>2 DEF OneSegment, StartAlpha, LaunchAlpha, FinishAlpha, StatAborted,
         TokenFails, FreeBitWriters, DeleteSync, DeleteEnd, DeleteFrees, Enters,
         Succeeds, Coded, Analysis
    <3>3. ASSUME NEW b \in BOOLEAN, NEW c \in BOOLEAN, NEW d \in BOOLEAN,
                 \/ AlphaFinished(b) \/ PreLoopInitialize(b)
                 \/ CodePicture(b, c) \/ EmitTokens(b, c) \/ EncWrite(b, c, d)
                 \/ StatPass(b, c) \/ TokenPass(b, c)
          PROVE  stage' \notin {"analyze"} \cup Analysis
      BY <3>3 DEF AlphaFinished, PreLoopInitialize, CodePicture, EmitTokens, EncWrite,
         StatPass, TokenPass, AfterPass, Enters, Succeeds, Coded, Analysis
    <3> QED  BY <1>12, <3>1, <3>2, <3>3 DEF Later
  <2>8. RowsLeft'
    BY <1>2, <1>4, <1>5, <2>1, <2>2 DEF RowsLeft, Analysis
  <2> QED  BY <1>4, <1>5, <2>1, <2>8
<1>13. CASE OnlyWorker
  <2>1. UNCHANGED <<seen, row, left, mainbad, stage, ok>>
    BY <1>13 DEF OnlyWorker, encVars, jobVars
  <2>2. ran' = ran
    BY <1>13 DEF OnlyWorker, Created, Waits, Assigns, Join, Idles, Takes, Quits,
       Spurious, workerVars, bookVars
  <2> QED  BY <1>6, <2>1, <2>2
<1> QED  BY <1>7, <1>8, <1>9, <1>10, <1>11, <1>12, <1>13, EncSteps

(* What the jobs have counted together when segments are assigned.         *)
LEMMA NextMerged == EncInv /\ [EncNext]_shotVars => EveryRowOnce'
<1> SUFFICES ASSUME EncInv, [EncNext]_shotVars PROVE EveryRowOnce'
  OBVIOUS
<1>1. /\ EncTypeOK /\ RowsCounted /\ Calls /\ Coupled /\ JobsCounted /\ EveryJobOnce
      /\ WorkerTypeOK /\ EveryRowOnce
  BY DEF EncInv, IInv, Counted
<1>2. shot' = shot /\ Rows(shot)' = Rows(shot)
  BY ShotKept DEF Rows
<1>3. CASE merged' = merged
  BY <1>1, <1>2, <1>3 DEF EveryRowOnce
<1>4. CASE AssignSegments /\ ok
  <2>1. stage = "end" /\ main = "out" /\ merged' = AllAlphas
    BY <1>4 DEF AssignSegments
  <2>2. /\ shot \in Shots /\ shot.rows \in Nat \ {0} /\ SplitRow \in 1..shot.rows
        /\ row \in [Jobs -> 0..shot.rows] /\ left \in [Jobs -> 0..shot.rows]
        /\ "main" \in Jobs /\ "side" \in Jobs
    <3>1. shot \in Shots
      BY <1>1 DEF EncTypeOK, EncDataOK
    <3> QED  BY <1>1, <3>1, Splits DEF EncTypeOK, EncDataOK, Jobs
  <2>3. /\ shot.segments /\ ~mainbad /\ left["main"] = 0
        /\ row["main"] + left["main"] = EndRow("main")
        /\ launched = SideJobs /\ status # "WORK"
    BY <1>1, <1>4, <2>1 DEF RowsCounted, RowsLeft, Calls, JobsCounted, Analysis
  <2>4. row["main"] = EndRow("main")
    BY <2>2, <2>3 DEF EndRow
  <2>5. /\ seen["main"] = CountedTo("main", EndRow("main"))
        /\ seen["side"] = CountedTo("side", row["side"])
    BY <1>1, <2>2, <2>4 DEF RowsCounted, RowsLeft, CountedTo
  <2>6. CASE InParallel
    <3>1. ran = 1
      BY <1>1, <2>3, <2>6 DEF SideJobs, TwoJobs, EveryJobOnce, WorkerTypeOK
    <3>2. row["side"] + left["side"] = shot.rows /\ left["side"] = 0
      BY <1>1, <1>4, <2>1, <2>3, <2>6, <3>1 DEF RowsCounted, RowsLeft, Analysis, TwoJobs
    <3>3. row["side"] = shot.rows
      BY <2>2, <3>2
    <3>4. /\ seen["main"] = [y \in Rows(shot) |-> IF 0 <= y /\ y < SplitRow THEN 1 ELSE 0]
          /\ seen["side"] = [y \in Rows(shot) |->
                               IF SplitRow <= y /\ y < shot.rows THEN 1 ELSE 0]
      BY <2>5, <2>6, <3>3 DEF CountedTo, FirstRow, EndRow
    <3>5. \A y \in Rows(shot) :
            (IF 0 <= y /\ y < SplitRow THEN 1 ELSE 0)
              + (IF SplitRow <= y /\ y < shot.rows THEN 1 ELSE 0) = 1
      BY <2>2 DEF Rows
    <3>6. Sum_(seen["main"], seen["side"]) = [y \in Rows(shot) |-> 1]
      BY <3>4, <3>5 DEF Sum_
    <3> QED  BY <1>2, <2>1, <2>6, <3>6 DEF AllAlphas, EveryRowOnce
  <2>7. CASE ~InParallel
    <3>1. seen["main"] = [y \in Rows(shot) |-> IF 0 <= y /\ y < shot.rows THEN 1 ELSE 0]
      BY <2>5, <2>7 DEF CountedTo, FirstRow, EndRow
    <3>2. \A y \in Rows(shot) : (IF 0 <= y /\ y < shot.rows THEN 1 ELSE 0) = 1
      BY <2>2 DEF Rows
    <3>3. seen["main"] = [y \in Rows(shot) |-> 1]
      BY <3>1, <3>2
    <3> QED  BY <1>2, <2>1, <2>7, <3>3 DEF AllAlphas, EveryRowOnce
  <2> QED  BY <2>6, <2>7
<1>5. CASE ~(AssignSegments /\ ok)
  <2>1. merged' = merged
    BY <1>5, EncSteps, LaterKeeps DEF jobVars, SplitJobs, LaunchSide, SyncSide,
       EndSide, AssignSegments, CountRow, HookReturns, SideDone, OnlyWorker, encVars
  <2> QED  BY <1>3, <2>1
<1> QED  BY <1>4, <1>5

LEMMA NextEncType == EncInv /\ [EncNext]_shotVars => EncTypeOK'
<1> SUFFICES ASSUME EncInv, [EncNext]_shotVars PROVE EncTypeOK'
  OBVIOUS
<1>1. EncTypeOK /\ PassesCounted /\ WorkerTypeOK /\ RowsCounted /\ HookIsMains
  BY DEF EncInv, IInv
<1>2. /\ shot \in Shots /\ shot' = shot /\ shot.rows \in Nat \ {0}
      /\ SplitRow \in 1..shot.rows /\ Rows(shot)' = Rows(shot)
      /\ row \in [Jobs -> 0..shot.rows] /\ left \in [Jobs -> 0..shot.rows]
      /\ "main" \in Jobs /\ "side" \in Jobs
  <2>1. shot \in Shots
    BY <1>1 DEF EncTypeOK, EncDataOK
  <2> QED  BY <1>1, <2>1, Splits, ShotKept DEF EncTypeOK, EncDataOK, Jobs, Rows
<1>3. /\ ok' \in BOOLEAN /\ mainbad' \in BOOLEAN /\ parts' \in BOOLEAN
      /\ alphadata' \in BOOLEAN /\ failed' \in BOOLEAN /\ aborted' \in BOOLEAN
  BY <1>1, FlagType DEF WorkerTypeOK
<1>4. /\ passes' \in 0..shot.pass /\ bits' \in 0..shot.bits
      /\ settled' \in BOOLEAN /\ odd' \in BOOLEAN /\ counted' \in 0..1
  <2>1. CASE UNCHANGED passVars
    BY <1>1, <2>1 DEF EncTypeOK, EncDataOK, passVars
  <2>2. ASSUME NEW b \in BOOLEAN, NEW c \in BOOLEAN, StatPass(b, c) \/ TokenPass(b, c)
        PROVE  /\ passes' \in 0..shot.pass /\ bits' \in 0..shot.bits
               /\ settled' \in BOOLEAN /\ odd' \in BOOLEAN /\ counted' \in 0..1
    <3>1. shot.pass \in Nat
      BY <1>2, ShotsAssumption
    <3>2. passes' \in 1..shot.pass
      BY <1>1, <2>2, PassType
    <3> QED  BY <1>1, <2>2, <3>1, <3>2, PassType
  <2>3. ASSUME NEW b \in BOOLEAN, NEW c \in BOOLEAN, CodePicture(b, c)
        PROVE  /\ passes' \in 0..shot.pass /\ bits' \in 0..shot.bits
               /\ settled' \in BOOLEAN /\ odd' \in BOOLEAN /\ counted' \in 0..1
    <3>1. stage = "code" /\ counted' = counted + 1
          /\ UNCHANGED <<passes, bits, settled, odd>>
      BY <2>3 DEF CodePicture
    <3>2. counted = 0
      BY <1>1, <3>1 DEF PassesCounted
    <3> QED  BY <1>1, <3>1, <3>2 DEF EncTypeOK, EncDataOK
  <2> QED  BY <2>1, <2>2, <2>3, PassesThere
<1>5. /\ row' \in [Jobs -> 0..shot.rows] /\ left' \in [Jobs -> 0..shot.rows]
  <2>1. CASE UNCHANGED <<row, left>>
    BY <1>2, <2>1
  <2>2. ASSUME NEW j \in Jobs, CountRow(j)
        PROVE  row' \in [Jobs -> 0..shot.rows] /\ left' \in [Jobs -> 0..shot.rows]
    <3>1. /\ row' = [row EXCEPT ![j] = row[j] + 1]
          /\ left' = [left EXCEPT ![j] = left[j] - 1]
          /\ row[j] \in FirstRow(j)..(shot.rows - 1) /\ left[j] \in 1..shot.rows
      BY <2>2, RowCounted
    <3>2. row[j] \in 0..shot.rows
      BY <1>2
    <3>3. FirstRow(j) \in Nat
      BY <1>2 DEF FirstRow
    <3>4. row[j] + 1 \in 0..shot.rows /\ left[j] - 1 \in 0..shot.rows
      BY <1>2, <3>1, <3>2, <3>3
    <3> QED  BY <1>2, <3>1, <3>4
  <2>3. ASSUME NEW j \in Jobs, NEW b \in BOOLEAN, HookReturns(j, b)
        PROVE  row' \in [Jobs -> 0..shot.rows] /\ left' \in [Jobs -> 0..shot.rows]
    <3>1. row' = row /\ (left' = left \/ left' = [left EXCEPT ![j] = 0])
      BY <2>3 DEF HookReturns
    <3> QED  BY <1>2, <3>1
  <2>4. CASE SplitJobs
    <3>1. InParallel =>
            /\ row' = [row EXCEPT !["side"] = SplitRow]
            /\ left' = [main |-> SplitRow, side |-> shot.rows - SplitRow]
      BY <2>4 DEF SplitJobs, InitSegmentJobs, SideFirst
    <3>2. ~InParallel => row' = row /\ left' = [left EXCEPT !["main"] = shot.rows]
      BY <2>4 DEF SplitJobs, InitSegmentJobs
    <3>3. SplitRow \in 0..shot.rows /\ shot.rows - SplitRow \in 0..shot.rows
            /\ shot.rows \in 0..shot.rows
      BY <1>2
    <3>4. [main |-> SplitRow, side |-> shot.rows - SplitRow] \in [Jobs -> 0..shot.rows]
      BY <3>3 DEF Jobs
    <3> QED  BY <1>2, <3>1, <3>2, <3>3, <3>4
  <2>5. CASE LaunchSide \/ SyncSide \/ EndSide \/ AssignSegments \/ SideDone \/ OnlyWorker
    BY <2>1, <2>5 DEF LaunchSide, SyncSide, EndSide, AssignSegments, SideDone,
       OnlyWorker, jobVars, encVars
  <2>6. CASE Later
    BY <2>1, <2>6, LaterKeeps DEF jobVars
  <2> QED  BY <2>2, <2>3, <2>4, <2>5, <2>6, EncSteps
<1>6. seen' \in [Jobs -> [Rows(shot) -> 0..2]]
  <2>1. RowsCounted'
    BY NextRows
  <2>2. seen' = [j \in Jobs |-> [y \in Rows(shot) |->
                  IF FirstRow(j)' <= y /\ y < row'[j] THEN 1 ELSE 0]]
    BY <1>2, <2>1 DEF RowsCounted
  <2> QED  BY <2>2
<1>7. merged' = None \/ merged' \in [Rows(shot) -> 0..2]
  BY <1>2, NextMerged DEF EveryRowOnce
<1>8. hooked' \subseteq Jobs
  BY NextHook DEF HookIsMains, Jobs
<1>9. stage' \in {"analyze", "reset", "execute", "sync", "end", "alpha",
                "launch", "loop", "stat", "code", "token", "emit", "finish", "synced",
                "write", "free", "ask", "delete", "freed", "over", "idle"}
  BY <1>1, StagesThere DEF EncTypeOK, Moves
<1> QED
  BY <1>2, <1>3, <1>4, <1>5, <1>6, <1>7, <1>8, <1>9 DEF EncTypeOK, EncDataOK

LEMMA NextEnc == EncInv /\ [EncNext]_shotVars => EncInv'
<1> SUFFICES ASSUME EncInv, [EncNext]_shotVars PROVE EncInv'
  OBVIOUS
<1>1. IInv' /\ EncTypeOK' /\ HookIsMains' /\ EveryRowOnce' /\ Calls'
  BY NextEncWorks, NextEncType, NextHook, NextMerged, NextCalls
<1>2. JobsCounted' /\ RowsCounted' /\ AlphaCompressed' /\ PassesCounted' /\ OkTells'
  BY NextJobs, NextRows, NextAlpha, NextPasses, NextOk
<1> QED  BY <1>1, <1>2 DEF EncInv

LEMMA EncInvariance == EncSpec => []EncInv
  BY InitEnc, NextEnc, PTL DEF EncSpec

(* The fields and locals of the encoder keep their types, whatever the     *)
(* picture, the number of its rows and of the passes (WebPEncode,          *)
(* webp_enc.c:323).                                                        *)
THEOREM EncTypeCorrect == EncSpec => []EncTypeOK
<1>1. EncInv => EncTypeOK
  BY DEF EncInv
<1> QED  BY <1>1, EncInvariance, PTL

LEMMA EncSays == EncInv => EncoderSound
<1> SUFFICES ASSUME EncInv PROVE EncoderSound
  OBVIOUS
<1>1. /\ EncTypeOK /\ Calls /\ Coupled /\ JobsCounted /\ AlphaCompressed
      /\ PassesCounted /\ OkTells /\ EveryJobOnce /\ WorkerTypeOK
  BY DEF EncInv, IInv, Counted
<1>2. AlphaIsWhole
  <2> SUFFICES ASSUME stage = "write"
               PROVE  thread # "hook" /\ status # "WORK" /\ alphadata = shot.alpha
    BY DEF AlphaIsWhole
  <2>1. status # "WORK" /\ thread # "hook"
    BY <1>1 DEF JobsCounted, Coupled
  <2>2. launched = SideJobs + (IF AlphaJob THEN 1 ELSE 0)
    BY <1>1 DEF JobsCounted, Coding
  <2>3. ran = launched
    BY <1>1, <2>1 DEF EveryJobOnce, WorkerTypeOK
  <2>4. ~bad /\ alphadata \in BOOLEAN /\ shot.alpha \in BOOLEAN
    BY <1>1, ShotsAssumption DEF AlphaCompressed, EncTypeOK, EncDataOK
  <2>5. CASE AlphaJob
    BY <1>1, <2>2, <2>3, <2>4, <2>5, <2>1 DEF AlphaCompressed, Coding, AlphaJob
  <2>6. CASE ~AlphaJob
    BY <1>1, <2>1, <2>6 DEF AlphaCompressed, Coding
  <2> QED  BY <2>5, <2>6
<1>3. LastPassIsKept
  BY <1>1 DEF PassesCounted, LastPassIsKept
<1>4. EncoderLeavesNothing
  BY <1>1 DEF EncoderLeavesNothing, Calls, Coupled, AlphaCompressed,
     OkTells
<1>5. ResultTold
  BY <1>1 DEF ResultTold, OkTells
<1> QED  BY <1>2, <1>3, <1>4, <1>5 DEF EncInv, EncoderSound

(* Every row counts once whatever the split, the alpha plane that is       *)
(* written is whole, the last pass alone is kept, and whatever fails is    *)
(* told and leaves no thread and no data behind (webp_enc.c:386).          *)
THEOREM EncoderCorrect == EncSpec => []EncoderSound
  BY EncSays, EncInvariance, PTL
-------------------------------------------------------------------------------
(* The rows of a decoder, RowPipeline.                                     *)

(* What the two decoders do.  Beside that of RowPipeline, the incremental  *)
(* one parses a row in several steps ...                                   *)
RowHeld == mb_data[mine] = mb_y /\ (pic.filter > 0 => f_info[fmine] = mb_y)
ParsesOn ==
  /\ at \in {"parse", "mb"} /\ Goto("mb")
  /\ Parsed(mb_y) \/ (RowHeld /\ UNCHANGED <<mb_data, f_info>>)
  /\ UNCHANGED <<workerVars, pic, mb_y, cache_id, ctx, setup, mine, fmine,
                 finishVars>>

(* ... and returns to the user in between: before the first row, in one,   *)
(* and after the last.                                                     *)
Headers == {"headers", "frame", "parts0"}
Fresh ==
  /\ ~impl /\ ~setup /\ mb_y = 0 /\ rebuilt = 0 /\ finish = "no"
  /\ cache_id = 0 /\ out = <<>>
Pauses ==
  /\ \/ at = "mb" /\ at' = IF pic.mt = 0 THEN "direct" ELSE "sync"
     \/ at = "mb" /\ at' = "exit"
     \/ at = "starved" /\ main = "out" /\ at' = IF had_error THEN "exit" ELSE "user"
     \/ at = "user" /\ setup /\ at' \in {"user", "parse", "exit"}
     \/ at = "user" /\ ~setup /\ at' \in {"user", "clear"}
     \/ at = "user" /\ Fresh /\ at' \in Headers
     \/ at \in Headers /\ at' \in Headers \cup {"user", "setup"}
  /\ UNCHANGED <<workerVars, pic, mb_y, cache_id, ctx, setup, bufferVars, finishVars>>
Starves ==
  /\ at = "mb" /\ Goto("starved")
  /\ IF pic.mt > 0 THEN Sync ELSE UNCHANGED workerVars
  /\ UNCHANGED <<pic, mb_y, cache_id, ctx, setup, bufferVars, finishVars>>

ByPieces == ParsesOn \/ Pauses \/ Starves

(* There are L rows, those below the crop area included or not.            *)
AnyRows(L) ==
  \/ \E well \in BOOLEAN : \/ EnterCritical(well, "clear") \/ EnterCritical(well, "user")
                         \/ AllocateMemory(well)
  \/ InitThread \/ ParseRow \/ ParseFails \/ ByPieces
  \/ ProcessSteps \/ NextRow(L, "parse", "last") \/ NextRow(L, "parse", "exit")
  \/ LastJob \/ ExitCritical \/ Teardown("clear") \/ Teardown("user") \/ Clear \/ Free
  \/ FinishSteps \/ TakeRow \/ MainWaits \/ ThreadWaits \/ WorkerSpurious

(* Which call of the worker main is in, and when there is a worker.        *)
Decoding == {"parse", "mb", "starved", "direct", "sync", "hand", "launched", "next",
             "last"}
Before == Headers \cup {"setup", "init"}
Halted == at = "user" /\ setup
RowCalls ==
  /\ main = "created" => at = "alloc"
  /\ main \notin {"created", "out"} =>
       \/ at \in {"starved", "hand", "exit", "teardown"} /\ new = "OK"
       \/ at = "launched" /\ new = "WORK"
       \/ at = "over" /\ new = "NOT_OK"
  /\ at \in {"sync", "hand", "launched"} => pic.mt > 0
  /\ at = "direct" => pic.mt = 0
  /\ impl => pic.mt > 0
  /\ at \in {"alloc"} \cup Decoding \/ Halted => (pic.mt > 0 => impl)
  /\ at \in Before \cup {"off"} \/ (at = "over" /\ main = "out") => ~impl

(* From setup() to teardown() something may be put, and a job may be under *)
(* way only between two calls that wait for it.                            *)
SetupOpen ==
  at # "user" => (setup <=> at \in {"init", "alloc", "exit", "teardown"} \cup Decoding)
NoJob ==
  /\ at \in Before \cup {"alloc", "user", "clear", "over", "off"} => status # "WORK"
  /\ at \in {"starved", "hand", "teardown"} /\ main = "out" => status # "WORK"
  /\ at = "launched" /\ main # "out" => status # "WORK"

(* FinishRow is called by the hook of the job, or by main.                 *)
WhoFinishes ==
  /\ thread = "hook" <=> finish # "no" /\ pic.mt > 0
  /\ finish # "no" /\ pic.mt = 0 => at = "direct"
  /\ finish = "rebuild" => pic.mt = 2

(* A row has been handed over and is not finished; with mt_method_ 2 it is *)
(* to be rebuilt yet.                                                      *)
Pending == \/ finish # "no" \/ status = "WORK"
           \/ at = "launched" /\ main # "out"
ToRebuild == Pending /\ pic.mt = 2 /\ finish \in {"no", "rebuild"}
ToFilter == Pending /\ ~ToRebuild /\ finish # "put"
Started == rebuilt + (IF ToRebuild THEN 1 ELSE 0)

(* The cache the next row goes to.                                         *)
NextId == IF ctx.id + 1 = Caches(pic) THEN 0 ELSE ctx.id + 1

(* The rows handed over, main's row and that of the context.  Behind the   *)
(* crop area it does not matter what becomes of a row.                     *)
InCrop(m) == m < BrRow(pic)
RowNumbers(L) ==
  /\ BrRow(pic) <= L /\ L <= pic.mb_h
  /\ mb_y <= Started /\ Started <= L
  /\ at \in {"launched", "next"} \/ (at = "direct" /\ finish # "no") =>
       Started = mb_y + 1
  /\ at \in Before \cup {"alloc", "parse", "mb", "starved", "sync", "hand", "last"} =>
       Started = mb_y
  /\ Halted \/ (at = "direct" /\ finish = "no") => Started = mb_y
  /\ at \in Before \cup {"alloc"} => mb_y = 0
  /\ at \in (Before \cup {"alloc"} \cup Decoding) \ {"last"} \/ Halted => mb_y < L
  /\ mb_y = L => Started = mb_y
  /\ at = "last" => mb_y = L
  /\ Pending => Started > 0
  /\ Started > 0 => ctx.mb_y = Started - 1
  /\ Started = 0 => cache_id = 0
  /\ at = "launched" => cache_id = ctx.id
  /\ Started > 0 /\ at # "launched" => cache_id = NextId
  /\ Pending /\ InCrop(ctx.mb_y) =>
       (ctx.filter_row <=> pic.filter > 0 /\ ctx.mb_y >= TlRow(pic))

(* Each buffer holds the row of the one who uses it.                       *)
BuffersHold ==
  /\ at \in {"mb", "starved", "sync", "hand", "direct"} => RowHeld
  /\ ToRebuild => mb_data[Handed] = ctx.mb_y
  /\ ToRebuild \/ ToFilter =>
       (ctx.filter_row => f_info[FHanded] = ctx.mb_y)

(* Line l of the cache is line y of the picture, filtered n times.         *)
Holds(l, y, n) == cache[l] = Line(y, n, TRUE)

(* The lines above row m, if it is to be in the cache from line b on: held *)
(* back, and filtered once, provided that the row they belong to is.       *)
HeldBack(m, b) ==
  pic.filter > 0 /\ m - 1 >= TlRow(pic) =>
    \A l \in (b - Extra(pic.filter))..(b - 1) :
      Holds(l, 16 * m + l - b, 1)
Own(m, b) == \A l \in b..(b + 15) : Holds(l, 16 * m + l - b, 0)

(* What the filter leaves.  The first line of the first row that it works  *)
(* on is wrong if there are rows above; it is outside the crop area then.  *)
AboveDone(m, b) ==
  pic.filter > 0 /\ m - 1 >= TlRow(pic) =>
    \A l \in (b - Extra(pic.filter))..(b - 1) :
      Holds(l, 16 * m + l - b, IF l >= b - Writes(pic.filter) THEN 2 ELSE 1)
OwnDone(m, b) ==
  /\ pic.filter = 0 => Own(m, b)
  /\ pic.filter > 0 /\ m >= TlRow(pic) =>
       \A l \in b..(b + 15) :
         l > b \/ m = 0 \/ m > TlRow(pic) =>
           Holds(l, 16 * m + l - b, 1)

(* Nothing has failed so far.                                              *)
GoesOn ==
  IF pic.mt > 0 THEN ~had_error
  ELSE \/ at \in Before \cup {"alloc"} \cup Decoding \/ Halted
       \/ mb_y >= BrRow(pic)

CacheHolds ==
  /\ (ToRebuild \/ ToFilter) /\ InCrop(ctx.mb_y) => HeldBack(ctx.mb_y, 16 * ctx.id)
  /\ ToFilter /\ InCrop(ctx.mb_y) => Own(ctx.mb_y, 16 * ctx.id)
  /\ finish = "put" /\ InCrop(ctx.mb_y) =>
       AboveDone(ctx.mb_y, 16 * ctx.id) /\ OwnDone(ctx.mb_y, 16 * ctx.id)
  /\ ~Pending /\ GoesOn /\ 0 < Started /\ InCrop(Started) =>
       HeldBack(Started, 16 * NextId)

(* Before row m is put, everything above it has been, but what it changes. *)
PutUpTo(m) ==
  IF out = <<>> THEN m = 0 \/ 16 * m - Extra(pic.filter) <= pic.top
  ELSE /\ m > 0 /\ pic.top <= 16 * m - Extra(pic.filter)
       /\ out[Len(out)].to = 16 * m - Extra(pic.filter)
OutHolds ==
  /\ LinesInOrder /\ LinesFinal
  /\ Started = 0 => out = <<>>
  /\ Pending => IF InCrop(ctx.mb_y) THEN PutUpTo(ctx.mb_y) ELSE AllPut
  /\ ~Pending /\ GoesOn => IF InCrop(Started) THEN PutUpTo(Started) ELSE AllPut

AnyTypeOK ==
  /\ RowDataOK
  /\ at \in Before \cup Decoding \cup {"user", "alloc", "exit", "teardown", "clear",
                                       "over", "off"}
RowsInv(L) ==
  /\ IInv /\ AnyTypeOK
  /\ RowCalls /\ SetupOpen /\ NoJob /\ WhoFinishes
  /\ RowNumbers(L) /\ BuffersHold /\ CacheHolds /\ OutHolds

(* The rows that are filtered and decoded.                                 *)
LEMMA RowLimits ==
  ASSUME NEW p \in Pictures
  PROVE  /\ p.filter \in 0..2 /\ p.mt \in 0..2 /\ p.mb_h \in Nat \ {0}
         /\ p.top \in Nat /\ p.bottom \in Nat /\ p.top < p.bottom
         /\ Extra(p.filter) = (IF p.filter = 0 THEN 0 ELSE IF p.filter = 1 THEN 2 ELSE 8)
         /\ Reads(p.filter) = Extra(p.filter)
         /\ Writes(p.filter) = (IF p.filter = 0 THEN 0 ELSE IF p.filter = 1 THEN 1 ELSE 6)
         /\ Caches(p) \in 1..3 /\ (p.mt = 0 => Caches(p) = 1)
         /\ TlRow(p) \in Nat /\ BrRow(p) \in Nat \ {0} /\ BrRow(p) <= p.mb_h
         /\ p.filter = 2 => TlRow(p) = 0
         /\ p.filter = 1 /\ TlRow(p) > 0 => 16 * TlRow(p) + 2 <= p.top
         /\ p.filter = 1 => p.top < 16 * TlRow(p) + 18
         /\ p.bottom <= 16 * BrRow(p)
         /\ BrRow(p) < p.mb_h => p.bottom + Extra(p.filter) <= 16 * BrRow(p)
         /\ 16 * (BrRow(p) - 1) - Extra(p.filter) < p.bottom
<1>1. /\ p.filter \in 0..2 /\ p.mt \in 0..2 /\ p.mb_h \in Nat \ {0}
      /\ p.top \in Nat /\ p.bottom \in Nat /\ p.top < p.bottom
      /\ p.bottom <= 16 * p.mb_h
  BY PicturesAssumption
<1>2. /\ Extra(p.filter) = (IF p.filter = 0 THEN 0 ELSE IF p.filter = 1 THEN 2 ELSE 8)
      /\ Reads(p.filter) = Extra(p.filter)
      /\ Writes(p.filter) = (IF p.filter = 0 THEN 0 ELSE IF p.filter = 1 THEN 1 ELSE 6)
  <2>1. p.filter = 0 \/ p.filter = 1 \/ p.filter = 2
    BY <1>1
  <2> QED  BY <2>1 DEF Extra, Reads, Writes
<1>3. Caches(p) \in 1..3 /\ (p.mt = 0 => Caches(p) = 1)
  BY <1>1 DEF Caches
<1>4. \A n \in Nat : n \div 16 \in Nat /\ 16 * (n \div 16) <= n
                       /\ n < 16 * (n \div 16) + 16
  OBVIOUS
<1>5. /\ TlRow(p) \in Nat
      /\ p.filter = 2 => TlRow(p) = 0
      /\ p.filter = 1 /\ TlRow(p) > 0 => 16 * TlRow(p) + 2 <= p.top
      /\ p.filter = 1 => p.top < 16 * TlRow(p) + 18
  <2>1. CASE p.filter = 2 \/ p.top < Extra(p.filter)
    BY <1>1, <1>2, <2>1 DEF TlRow
  <2>2. CASE ~(p.filter = 2 \/ p.top < Extra(p.filter))
    <3>1. PICK n \in Nat : n = p.top - Extra(p.filter)
      BY <1>1, <1>2, <2>2
    <3>2. TlRow(p) = n \div 16
      BY <2>2, <3>1 DEF TlRow
    <3>3. PICK q \in Nat : q = n \div 16 /\ 16 * q <= n /\ n < 16 * q + 16
      BY <1>4, <3>1
    <3> QED  BY <1>1, <1>2, <2>2, <3>1, <3>2, <3>3
  <2> QED  BY <2>1, <2>2
<1>6. PICK n \in Nat : n = p.bottom + 15 + Extra(p.filter)
  BY <1>1, <1>2
<1>7. PICK q \in Nat : q = n \div 16 /\ 16 * q <= n /\ n < 16 * q + 16
  BY <1>4, <1>6
<1>8. BrRow(p) = IF q > p.mb_h THEN p.mb_h ELSE q
  BY <1>6, <1>7 DEF BrRow, Clip
<1>9. q > 0
  <2>1. n >= 16
    BY <1>1, <1>2, <1>6
  <2> QED  BY <1>7, <2>1
<1>10. /\ BrRow(p) \in Nat \ {0} /\ BrRow(p) <= p.mb_h
       /\ p.bottom <= 16 * BrRow(p)
       /\ BrRow(p) < p.mb_h => p.bottom + Extra(p.filter) <= 16 * BrRow(p)
       /\ 16 * (BrRow(p) - 1) - Extra(p.filter) < p.bottom
  BY <1>1, <1>2, <1>6, <1>7, <1>8, <1>9
<1> QED  BY <1>1, <1>2, <1>3, <1>5, <1>10

(* Whatever the rows do, they do to the worker what any owner may do.      *)
rowsVars == <<workerVars, rowVars>>

LEMMA RowsWork ==
  ASSUME NEW L \in Nat, [AnyRows(L)]_rowsVars
  PROVE  [WorkerNext]_workerVars
<1> SUFFICES WorkerNext \/ UNCHANGED workerVars
  OBVIOUS
<1> USE DEF WorkerNext, AnyCall, MainRuns, ThreadRuns
<1>1. ASSUME NEW well \in BOOLEAN,
             EnterCritical(well, "clear") \/ EnterCritical(well, "user") \/ AllocateMemory(well)
      PROVE  UNCHANGED workerVars
  BY <1>1 DEF EnterCritical, AllocateMemory
<1>2. CASE InitThread
  BY <1>2 DEF InitThread
<1>3. CASE \/ ParseRow \/ ParseFails \/ Direct \/ JobFailed \/ Launched
           \/ NextRow(L, "parse", "last") \/ NextRow(L, "parse", "exit") \/ Teardown("clear") \/ Teardown("user") \/ Free
           \/ Rebuild \/ FilterRow
  BY <1>3 DEF ParseRow, ParseFails, Direct, JobFailed, Launched, NextRow, Teardown,
              Free, Rebuild, FilterRow
<1>4. CASE SyncJob \/ LastJob \/ ExitCritical \/ Clear \/ Hand
  BY <1>4 DEF SyncJob, AwaitsJob, LastJob, ExitCritical, ExitSyncs, Clear, Hand
<1>5. ASSUME NEW well \in BOOLEAN, FinishReturns(well)
      PROVE  WorkerNext \/ UNCHANGED workerVars
  BY <1>5 DEF FinishReturns
<1>6. CASE AlphaFails \/ \E well \in BOOLEAN : Put(well)
  BY <1>5, <1>6 DEF AlphaFails, Put
<1>7. CASE TakeRow \/ MainWaits \/ ThreadWaits \/ WorkerSpurious
  BY <1>7 DEF TakeRow, MainWaits, ThreadWaits, WorkerSpurious
<1>8. CASE UNCHANGED rowsVars
  BY <1>8 DEF rowsVars
<1>9. CASE ParsesOn \/ Pauses \/ Starves
  BY <1>9 DEF ParsesOn, Pauses, Starves
<1> QED
  BY <1>1, <1>2, <1>3, <1>4, <1>6, <1>7, <1>8, <1>9
     DEF AnyRows, ByPieces, ProcessSteps, FinishSteps

(* The worker's invariant is kept.                                         *)
LEMMA NextRowsWork == ASSUME NEW L \in Nat, IInv, [AnyRows(L)]_rowsVars PROVE IInv'
  BY RowsWork, StepType, StepCoupled, StepCounted, StepErrors DEF IInv

(* The steps that are neither main's in the decoder nor FinishRow's: those *)
(* of the worker, in which FinishRow is entered at most.                   *)
OfWorker == MainWaits \/ ThreadWaits \/ WorkerSpurious \/ TakeRow

LEMMA RowSteps ==
  ASSUME NEW L \in Nat, [AnyRows(L)]_rowsVars
  PROVE  \/ \E well \in BOOLEAN :
              EnterCritical(well, "clear") \/ EnterCritical(well, "user") \/ AllocateMemory(well) \/ Put(well)
         \/ InitThread \/ ParseRow \/ ParseFails \/ Direct \/ SyncJob
         \/ JobFailed \/ Hand \/ Launched \/ NextRow(L, "parse", "last") \/ NextRow(L, "parse", "exit")
         \/ LastJob \/ ExitCritical \/ Teardown("clear") \/ Teardown("user") \/ Clear \/ Free
         \/ Rebuild \/ FilterRow \/ AlphaFails \/ ParsesOn \/ Pauses \/ Starves
         \/ OfWorker
         \/ UNCHANGED rowsVars
  BY DEF AnyRows, ByPieces, ProcessSteps, FinishSteps, OfWorker

(* What the worker's own steps do.                                         *)
LEMMA OfWorkerDoes ==
  ASSUME IInv, OfWorker
  PROVE  /\ UNCHANGED <<pic, at, mb_y, cache_id, ctx, setup, bufferVars, rebuilt,
                        cache, out, had_error, new>>
         /\ \/ UNCHANGED finish /\ ~Takes
            \/ Takes /\ TakeRow /\ UNCHANGED <<main, impl, status>>
         /\ main' # main =>
              \/ main = "created" /\ main' = "out"
              \/ main \in {"lock", "woken"} /\ main' = "out" /\ status = "OK"
                   /\ status' = new /\ new # "NOT_OK"
              \/ main \in {"lock", "woken"} /\ main' = "join" /\ new = "NOT_OK"
              \/ main = "join" /\ main' = "out"
              \/ main' \in {"blocked", "woken"}
                   /\ main \in {"lock", "woken", "blocked"} /\ status' = status
         /\ status' # status =>
              \/ main = "created" /\ status' = "OK"
              \/ main \in {"lock", "woken"} /\ status = "OK" /\ status' = new
                   /\ main' = IF new = "NOT_OK" THEN "join" ELSE "out"
         /\ thread' = "hook" <=> thread = "hook" \/ Takes
         /\ main' # "join" /\ main = "join" => ~impl'
         /\ ~(main = "join" /\ main' = "out") => impl' = impl
<1> USE DEF IInv, Coupled
<1>1. CASE MainWaits
  <2> USE DEF MainWaits, rowVars, bufferVars, finishVars, Takes, ThreadLocks,
              implVars, bookVars, WorkerTypeOK
  <2>1. CASE Created
    BY <1>1, <2>1 DEF Created
  <2>2. CASE Waits
    BY <1>1, <2>2 DEF Waits, Locks
  <2>3. CASE Assigns
    BY <1>1, <2>3 DEF Assigns, Locks, MustWait, SignalThread, Woken, Status
  <2>4. CASE Join
    BY <1>1, <2>4 DEF Join, Joined
  <2> QED  BY <1>1, <2>1, <2>2, <2>3, <2>4 DEF MainRuns
<1>2. CASE ThreadWaits
  BY <1>2 DEF ThreadWaits, rowVars, bufferVars, finishVars, Takes, ThreadLocks,
              Idles, Quits, SignalMain, Woken, implVars, WorkerTypeOK
<1>3. CASE WorkerSpurious
  BY <1>3 DEF WorkerSpurious, Spurious, rowVars, bufferVars, finishVars, Takes,
              ThreadLocks, implVars, WorkerTypeOK
<1>4. CASE TakeRow
  BY <1>4 DEF TakeRow, Takes, bufferVars, implVars
<1> QED  BY <1>1, <1>2, <1>3, <1>4 DEF OfWorker

(* Main is in the call of the worker that its place in the decoder tells.  *)
LEMMA NextRowCalls ==
  ASSUME NEW L \in Nat, RowsInv(L), [AnyRows(L)]_rowsVars
  PROVE  RowCalls'
<1>1. IInv /\ Coupled /\ WorkerTypeOK /\ RowCalls /\ SetupOpen /\ pic \in Pictures
  BY DEF RowsInv, IInv, AnyTypeOK, RowDataOK
<1>2. pic.mt \in 0..2
  BY <1>1, RowLimits
<1> USE DEF RowCalls, Decoding, Before, Headers, Halted
<1>3. ASSUME NEW well \in BOOLEAN,
             EnterCritical(well, "clear") \/ EnterCritical(well, "user") \/ AllocateMemory(well)
      PROVE  RowCalls'
  BY <1>1, <1>2, <1>3 DEF EnterCritical, AllocateMemory, Goto, workerVars, implVars
<1>4. ASSUME NEW well \in BOOLEAN, Put(well) \/ AlphaFails
      PROVE  RowCalls'
  <2>1. FinishReturns(well) \/ FinishReturns(FALSE)
    BY <1>4 DEF Put, AlphaFails
  <2>2. UNCHANGED <<pic, setup>> /\ finish # "no" /\ finish' = "no"
    BY <1>4 DEF Put, AlphaFails
  <2>3. WhoFinishes
    BY DEF RowsInv
  <2>4. CASE pic.mt = 0
    <3>1. UNCHANGED workerVars /\ at = "direct" /\ at' \in {"next", "exit"}
      BY <2>1, <2>2, <2>3, <2>4 DEF FinishReturns, Goto, WhoFinishes
    <3> QED  BY <1>1, <2>2, <2>4, <3>1 DEF workerVars, implVars
  <2>5. CASE pic.mt # 0
    <3>1. Ran(TRUE) \/ Ran(FALSE)
      BY <2>1, <2>5 DEF FinishReturns
    <3>2. UNCHANGED <<at, new, impl>> /\ main' = Woken(main)
      BY <2>1, <2>5, <3>1 DEF FinishReturns, Ran, SignalMain
    <3> QED  BY <1>1, <2>2, <2>5, <3>2 DEF Woken
  <2> QED  BY <2>4, <2>5
<1>5. CASE InitThread
  BY <1>1, <1>2, <1>5 DEF InitThread, Create, CreateFails, Goto, workerVars, implVars
<1>6. CASE ParseRow \/ ParseFails \/ JobFailed \/ Launched \/ Free
             \/ NextRow(L, "parse", "last") \/ NextRow(L, "parse", "exit") \/ Teardown("clear") \/ Teardown("user")
  BY <1>1, <1>2, <1>6 DEF ParseRow, ParseFails, JobFailed, Launched, NextRow,
       Teardown, Free, Goto, workerVars, implVars
<1>7. CASE Direct \/ Rebuild \/ FilterRow
  BY <1>1, <1>7 DEF Direct, Rebuild, FilterRow, workerVars, implVars
<1>8. CASE SyncJob \/ LastJob \/ ExitCritical
  BY <1>1, <1>2, <1>8 DEF SyncJob, AwaitsJob, LastJob, ExitCritical, ExitSyncs,
       Sync, ChangeState, Goto, workerVars, implVars
<1>9. CASE Clear
  BY <1>1, <1>2, <1>9 DEF Clear, End, ChangeState, Goto, workerVars, implVars
<1>10. CASE Hand
  BY <1>1, <1>2, <1>10 DEF Hand, Launch, ChangeState, Goto, implVars
<1>11. CASE OfWorker
  BY <1>1, <1>2, <1>11, OfWorkerDoes DEF Coupled
<1>12. CASE UNCHANGED rowsVars
  BY <1>1, <1>12 DEF rowsVars, workerVars, implVars, rowVars
<1>13. CASE ParsesOn \/ Pauses \/ Starves
  <2>1. CASE ParsesOn
    BY <1>1, <1>2, <2>1 DEF ParsesOn, Goto, workerVars, implVars
  <2>2. CASE Pauses
    BY <1>1, <1>2, <2>2 DEF Pauses, Fresh, SetupOpen, workerVars, implVars
  <2>3. CASE Starves
    BY <1>1, <1>2, <2>3 DEF Starves, Sync, ChangeState, Goto, workerVars, implVars
  <2> QED  BY <1>13, <2>1, <2>2, <2>3
<1> QED
  BY <1>3, <1>4, <1>5, <1>6, <1>7, <1>8, <1>9, <1>10, <1>11, <1>12, <1>13, RowSteps

(* setup is open in those places only.                                     *)
LEMMA NextSetupOpen ==
  ASSUME NEW L \in Nat, RowsInv(L), [AnyRows(L)]_rowsVars
  PROVE  SetupOpen'
<1>1. IInv /\ SetupOpen /\ RowCalls /\ WhoFinishes /\ RowDataOK
  BY DEF RowsInv, AnyTypeOK
<1> USE DEF SetupOpen, Decoding, Headers
<1>2. ASSUME NEW well \in BOOLEAN,
             EnterCritical(well, "clear") \/ EnterCritical(well, "user") \/ AllocateMemory(well)
      PROVE  SetupOpen'
  BY <1>1, <1>2 DEF EnterCritical, AllocateMemory, Goto
<1>3. ASSUME NEW well \in BOOLEAN, Put(well) \/ AlphaFails
      PROVE  SetupOpen'
  <2>1. ((at = "direct" /\ at' \in {"next", "exit"}) \/ at' = at) /\ setup' = setup
    BY <1>1, <1>3 DEF Put, AlphaFails, FinishReturns, Goto, WhoFinishes
  <2> QED  BY <1>1, <2>1
<1>4. CASE InitThread \/ ParseRow \/ ParseFails \/ JobFailed \/ Launched \/ Free
             \/ NextRow(L, "parse", "last") \/ NextRow(L, "parse", "exit") \/ Teardown("clear") \/ Teardown("user")
  BY <1>1, <1>4 DEF InitThread, ParseRow, ParseFails, JobFailed, Launched, NextRow,
       Teardown, Free, Goto, RowDataOK
<1>5. CASE Direct \/ Rebuild \/ FilterRow
  BY <1>1, <1>5 DEF Direct, Rebuild, FilterRow
<1>6. CASE SyncJob \/ LastJob \/ ExitCritical \/ Clear \/ Hand
  BY <1>1, <1>6 DEF SyncJob, LastJob, ExitCritical, Clear, Hand, Goto
<1>7. CASE OfWorker
  BY <1>1, <1>7, OfWorkerDoes
<1>8. CASE UNCHANGED rowsVars
  BY <1>1, <1>8 DEF rowsVars, rowVars
<1>9. CASE ParsesOn \/ Pauses \/ Starves
  BY <1>1, <1>9 DEF ParsesOn, Pauses, Starves, Goto, Fresh
<1> QED  BY <1>2, <1>3, <1>4, <1>5, <1>6, <1>7, <1>8, <1>9, RowSteps

(* No job is under way where there must be none.                           *)
LEMMA NextNoJob ==
  ASSUME NEW L \in Nat, RowsInv(L), [AnyRows(L)]_rowsVars
  PROVE  NoJob'
<1>1. IInv /\ Coupled /\ WorkerTypeOK /\ NoJob /\ RowCalls /\ WhoFinishes
      /\ pic \in Pictures
  BY DEF RowsInv, AnyTypeOK, RowDataOK, IInv
<1>2. pic.mt \in 0..2
  BY <1>1, RowLimits
<1> USE DEF NoJob, Before, Headers
<1>3. ASSUME NEW well \in BOOLEAN,
             EnterCritical(well, "clear") \/ EnterCritical(well, "user") \/ AllocateMemory(well)
      PROVE  NoJob'
  BY <1>1, <1>3 DEF EnterCritical, AllocateMemory, Goto, workerVars, implVars
<1>4. ASSUME NEW well \in BOOLEAN, Put(well) \/ AlphaFails
      PROVE  NoJob'
  <2>1. FinishReturns(well) \/ FinishReturns(FALSE)
    BY <1>4 DEF Put, AlphaFails
  <2>2. pic' = pic /\ finish # "no"
    BY <1>4 DEF Put, AlphaFails
  <2>3. CASE pic.mt = 0
    <3>1. at' \in {"next", "exit"}
      BY <2>1, <2>2, <2>3 DEF FinishReturns, Goto
    <3> QED  BY <3>1
  <2>4. CASE pic.mt # 0
    <3>1. Ran(TRUE) \/ Ran(FALSE)
      BY <2>1, <2>4 DEF FinishReturns
    <3> QED  BY <3>1 DEF Ran, DoneStatus
  <2> QED  BY <2>3, <2>4
<1>5. CASE InitThread
  BY <1>1, <1>5 DEF InitThread, Create, CreateFails, Goto, workerVars, implVars
<1>6. CASE ParseRow \/ ParseFails \/ JobFailed \/ Launched \/ Free
             \/ NextRow(L, "parse", "last") \/ NextRow(L, "parse", "exit") \/ Teardown("clear") \/ Teardown("user")
  BY <1>1, <1>6 DEF ParseRow, ParseFails, JobFailed, Launched, NextRow,
       Teardown, Free, Goto, workerVars, implVars
<1>7. CASE Direct \/ Rebuild \/ FilterRow
  BY <1>1, <1>7 DEF Direct, Rebuild, FilterRow, workerVars, implVars
<1>8. CASE SyncJob \/ LastJob \/ ExitCritical
  BY <1>1, <1>2, <1>8 DEF SyncJob, AwaitsJob, LastJob, ExitCritical, ExitSyncs,
       Sync, ChangeState, Goto, workerVars, implVars, Coupled, RowCalls, Decoding
<1>9. CASE Clear
  BY <1>1, <1>9 DEF Clear, End, ChangeState, Goto, implVars
<1>10. CASE Hand
  BY <1>1, <1>10 DEF Hand, Launch, ChangeState, Goto, implVars
<1>11. CASE OfWorker
  BY <1>1, <1>11, OfWorkerDoes DEF Coupled, RowCalls
<1>12. CASE UNCHANGED rowsVars
  BY <1>1, <1>12 DEF rowsVars, workerVars, implVars, rowVars
<1>13. CASE ParsesOn \/ Pauses \/ Starves
  <2>1. CASE ParsesOn
    BY <1>1, <2>1 DEF ParsesOn, Goto, workerVars, implVars
  <2>2. CASE Pauses
    BY <1>1, <2>2 DEF Pauses, workerVars, implVars
  <2>3. CASE Starves
    BY <1>1, <1>2, <2>3 DEF Starves, Sync, ChangeState, Goto, workerVars, implVars,
       Coupled, RowCalls, Decoding
  <2> QED  BY <1>13, <2>1, <2>2, <2>3
<1> QED
  BY <1>3, <1>4, <1>5, <1>6, <1>7, <1>8, <1>9, <1>10, <1>11, <1>12, <1>13, RowSteps

(* The hook runs FinishRow, or main does without a worker.                 *)
LEMMA NextWhoFinishes ==
  ASSUME NEW L \in Nat, RowsInv(L), [AnyRows(L)]_rowsVars
  PROVE  WhoFinishes'
<1>1. IInv /\ Coupled /\ WorkerTypeOK /\ NoJob /\ RowCalls /\ WhoFinishes
      /\ pic \in Pictures /\ finish \in {"no", "rebuild", "filter", "put"}
  BY DEF RowsInv, AnyTypeOK, RowDataOK, IInv
<1>2. pic.mt \in 0..2
  BY <1>1, RowLimits
<1> USE DEF WhoFinishes
<1>3. ASSUME NEW well \in BOOLEAN,
             EnterCritical(well, "clear") \/ EnterCritical(well, "user") \/ AllocateMemory(well)
      PROVE  WhoFinishes'
  BY <1>1, <1>3 DEF EnterCritical, AllocateMemory, Goto, workerVars, finishVars
<1>4. ASSUME NEW well \in BOOLEAN, Put(well) \/ AlphaFails
      PROVE  WhoFinishes'
  <2>1. FinishReturns(well) \/ FinishReturns(FALSE)
    BY <1>4 DEF Put, AlphaFails
  <2>2. pic' = pic /\ finish # "no" /\ finish' = "no"
    BY <1>4 DEF Put, AlphaFails
  <2>3. CASE pic.mt = 0
    BY <1>1, <2>1, <2>2, <2>3 DEF FinishReturns, workerVars
  <2>4. CASE pic.mt # 0
    <3>1. Ran(TRUE) \/ Ran(FALSE)
      BY <2>1, <2>4 DEF FinishReturns
    <3> QED  BY <2>2, <3>1 DEF Ran
  <2> QED  BY <2>3, <2>4
<1>5. CASE InitThread
  BY <1>1, <1>5 DEF InitThread, Create, CreateFails, Goto, workerVars, finishVars,
                    Coupled
<1>6. CASE ParseRow \/ ParseFails \/ JobFailed \/ Launched \/ Free
             \/ NextRow(L, "parse", "last") \/ NextRow(L, "parse", "exit") \/ Teardown("clear") \/ Teardown("user")
  BY <1>1, <1>6 DEF ParseRow, ParseFails, JobFailed, Launched, NextRow,
       Teardown, Free, Goto, workerVars, finishVars
<1>7. CASE Direct
  BY <1>1, <1>7 DEF Direct, workerVars, RowCalls, Coupled
<1>8. CASE Rebuild \/ FilterRow
  BY <1>1, <1>8 DEF Rebuild, FilterRow, workerVars
<1>9. CASE SyncJob \/ LastJob \/ ExitCritical \/ Clear \/ Hand
  BY <1>1, <1>2, <1>9 DEF SyncJob, AwaitsJob, LastJob, ExitCritical, ExitSyncs,
       Clear, Hand, Sync, End, Launch, ChangeState, Goto, workerVars, finishVars
<1>10. CASE OfWorker
  <2>1. CASE ~Takes
    BY <1>1, <1>10, <2>1, OfWorkerDoes
  <2>2. CASE Takes
    <3>1. TakeRow /\ thread' = "hook" /\ thread # "hook"
      BY <1>1, <1>10, <2>2, OfWorkerDoes DEF Takes, ThreadLocks
    <3>2. pic.mt > 0
      BY <1>1, <2>2, <3>1 DEF Takes, ThreadLocks, Coupled, RowCalls
    <3> QED  BY <3>1, <3>2 DEF TakeRow
  <2> QED  BY <2>1, <2>2
<1>11. CASE UNCHANGED rowsVars
  BY <1>1, <1>11 DEF rowsVars, workerVars, rowVars, finishVars
<1>12. CASE ParsesOn \/ Pauses \/ Starves
  <2>1. CASE ParsesOn
    BY <1>1, <2>1 DEF ParsesOn, Goto, workerVars, finishVars
  <2>2. CASE Pauses
    BY <1>1, <2>2 DEF Pauses, Headers, workerVars, finishVars
  <2>3. CASE Starves
    BY <1>1, <1>2, <2>3 DEF Starves, Sync, ChangeState, Goto, workerVars, finishVars
  <2> QED  BY <1>12, <2>1, <2>2, <2>3
<1> QED
  BY <1>3, <1>4, <1>5, <1>6, <1>7, <1>8, <1>9, <1>10, <1>11, <1>12, RowSteps

-------------------------------------------------------------------------------
(* A row is handed over, rebuilt, filtered and finished in turn; all other *)
(* steps leave it as it is.                                                *)
RowStays ==
  /\ UNCHANGED <<pic, ctx, rebuilt, cache, out>>
  /\ Pending' <=> Pending
  /\ ToRebuild' <=> ToRebuild
  /\ ToFilter' <=> ToFilter
  /\ finish' = "put" <=> finish = "put"
  /\ GoesOn' => GoesOn \/ Started = 0

(* Main comes by with no row under way.                                    *)
LEMMA NothingPending ==
  ASSUME NEW L \in Nat, RowsInv(L),
         \/ at = "hand" /\ main = "out"
         \/ at = "direct" /\ finish = "no"
  PROVE  ~Pending
<1>1. Coupled /\ NoJob /\ RowCalls /\ WhoFinishes /\ pic \in Pictures
  BY DEF RowsInv, AnyTypeOK, RowDataOK, IInv
<1>2. pic.mt \in 0..2
  BY <1>1, RowLimits
<1>3. CASE at = "hand" /\ main = "out"
  BY <1>1, <1>2, <1>3 DEF Coupled, NoJob, RowCalls, WhoFinishes, Pending
<1>4. CASE at = "direct" /\ finish = "no"
  BY <1>1, <1>2, <1>4 DEF Coupled, RowCalls, Pending
<1> QED  BY <1>3, <1>4

(* All steps but six leave the row alone.                                  *)
LEMMA Stays ==
  ASSUME NEW L \in Nat, RowsInv(L), [AnyRows(L)]_rowsVars
  PROVE  \/ RowStays
         \/ Hand \/ Direct \/ Rebuild \/ FilterRow \/ AlphaFails
         \/ \E well \in BOOLEAN : Put(well)
<1>1. IInv /\ Coupled /\ NoJob /\ RowCalls /\ WhoFinishes /\ RowNumbers(L)
      /\ pic \in Pictures
  BY DEF RowsInv, AnyTypeOK, RowDataOK, IInv
<1>2. pic.mt \in 0..2
  BY <1>1, RowLimits
<1> USE DEF RowStays, Pending, ToRebuild, ToFilter, GoesOn, Decoding, Before, Headers,
             Halted
<1>3. ASSUME NEW well \in BOOLEAN,
             EnterCritical(well, "clear") \/ EnterCritical(well, "user") \/ AllocateMemory(well)
      PROVE  RowStays
  BY <1>1, <1>3 DEF EnterCritical, AllocateMemory, Goto, workerVars, implVars,
                    finishVars
<1>4. CASE InitThread
  BY <1>1, <1>4 DEF InitThread, Create, CreateFails, Goto, workerVars, implVars,
                    finishVars, RowNumbers
<1>5. CASE ParseRow \/ ParseFails \/ JobFailed \/ Launched \/ Free
             \/ Teardown("clear") \/ Teardown("user")
  BY <1>1, <1>5 DEF ParseRow, ParseFails, JobFailed, Launched,
       Teardown, Free, Goto, workerVars, implVars, finishVars
<1>6. CASE NextRow(L, "parse", "last") \/ NextRow(L, "parse", "exit")
  BY <1>1, <1>6 DEF NextRow, Goto, workerVars, implVars, finishVars
<1>7. CASE SyncJob \/ LastJob \/ ExitCritical \/ Clear
  BY <1>1, <1>2, <1>7 DEF SyncJob, AwaitsJob, LastJob, ExitCritical, ExitSyncs,
       Clear, Sync, End, ChangeState, Goto, workerVars, implVars, finishVars,
       RowNumbers
<1>8. CASE OfWorker
  <2>1. UNCHANGED <<pic, at, setup, mb_y, ctx, rebuilt, cache, out, had_error>>
    BY <1>1, <1>8, OfWorkerDoes
  <2>2. GoesOn' => GoesOn
    BY <2>1
  <2>3. CASE ~Takes
    <3>1. finish' = finish
      BY <1>1, <1>8, <2>3, OfWorkerDoes
    <3>2. \/ status' = "WORK"
          \/ at' = "launched" /\ main' # "out"
          <=> \/ status = "WORK"
              \/ at = "launched" /\ main # "out"
      BY <1>1, <1>8, <2>1, OfWorkerDoes DEF RowCalls, NoJob, Coupled
    <3> QED  BY <2>1, <2>2, <3>1, <3>2
  <2>4. CASE Takes
    <3>1. TakeRow /\ UNCHANGED <<main, status>> /\ status = "WORK" /\ thread # "hook"
      BY <1>1, <1>8, <2>4, OfWorkerDoes DEF Takes, ThreadLocks
    <3>2. impl /\ pic.mt > 0
      BY <1>1, <3>1 DEF Coupled, RowCalls
    <3>3. finish = "no" /\ finish' = IF pic.mt = 2 THEN "rebuild" ELSE "filter"
      BY <1>1, <3>1, <3>2 DEF TakeRow, WhoFinishes
    <3> QED  BY <2>1, <2>2, <3>1, <3>2, <3>3
  <2> QED  BY <2>3, <2>4
<1>9. CASE UNCHANGED rowsVars
  BY <1>9 DEF rowsVars, workerVars, implVars, rowVars, finishVars
<1>10. CASE ParsesOn
  BY <1>1, <1>10 DEF ParsesOn, Goto, workerVars, implVars, finishVars
<1>11. CASE Pauses
  BY <1>1, <1>2, <1>11 DEF Pauses, Fresh, Started, workerVars, implVars, finishVars
<1>12. CASE Starves
  BY <1>1, <1>2, <1>12 DEF Starves, Sync, ChangeState, Goto, workerVars, implVars,
                           finishVars
<1> QED
  BY <1>3, <1>4, <1>5, <1>6, <1>7, <1>8, <1>9, <1>10, <1>11, <1>12, RowSteps

(* The others, one by one.                                                 *)
LEMMA Turns ==
  ASSUME NEW L \in Nat, RowsInv(L)
  PROVE  /\ Hand \/ Direct =>
              /\ ~Pending /\ Pending' /\ GoesOn /\ UNCHANGED <<pic, out>>
              /\ ctx' = [id |-> cache_id, mb_y |-> mb_y, filter_row |-> FiltersRow]
              /\ Started = mb_y /\ mb_y < L
              /\ finish' # "put"
              /\ ToFilter' <=> ~ToRebuild'
              /\ IF ToRebuild' THEN UNCHANGED <<cache, rebuilt>>
                 ELSE ReconstructRow(mine) /\ mb_data[mine] = mb_y
         /\ Rebuild => /\ ToRebuild /\ ~ToRebuild' /\ ToFilter' /\ Pending'
                       /\ UNCHANGED <<pic, ctx, out>>
                       /\ finish' # "put"
         /\ FilterRow => /\ ToFilter /\ ~ToRebuild' /\ ~ToFilter' /\ Pending'
                         /\ UNCHANGED <<pic, ctx, rebuilt, out>>
                         /\ finish' = "put"
         /\ \A well \in BOOLEAN : Put(well) \/ AlphaFails =>
              /\ Pending /\ ~Pending' /\ UNCHANGED <<pic, ctx, rebuilt>>
              /\ ~ToRebuild /\ ~ToRebuild' /\ ~ToFilter'
              /\ finish = "put" /\ finish' = "no"
              /\ GoesOn' => (Put(well) /\ well) \/ ~InCrop(ctx.mb_y)
<1>1. IInv /\ WorkerTypeOK /\ Coupled /\ NoJob /\ RowCalls /\ WhoFinishes
      /\ RowNumbers(L) /\ BuffersHold
      /\ RowDataOK /\ pic \in Pictures /\ finish \in {"no", "rebuild", "filter", "put"}
  BY DEF RowsInv, AnyTypeOK, RowDataOK, IInv
<1>2. pic.mt \in 0..2 /\ (pic.mt = 0 => Caches(pic) = 1)
  BY <1>1, RowLimits
<1> USE DEF Pending, ToRebuild, ToFilter
<1>3. CASE Hand
  <2>1. ~Pending
    BY <1>3, NothingPending DEF Hand
  <2>2. main' # "out" /\ status' = status /\ at' = "launched" /\ pic.mt > 0
        /\ UNCHANGED <<pic, out, finish>> /\ at = "hand" /\ ~had_error
    BY <1>1, <1>3 DEF Hand, Launch, ChangeState, Goto, implVars, RowCalls
  <2>3. finish = "no" /\ GoesOn /\ Pending'
    BY <2>1, <2>2 DEF GoesOn
  <2>4. Started = mb_y /\ mb_y < L /\ mb_data[mine] = mb_y
    <3>1. Started = mb_y
      BY <1>1, <2>2 DEF RowNumbers
    <3>2. mb_y < L
      BY <1>1, <2>2 DEF RowNumbers, Decoding
    <3>3. mb_data[mine] = mb_y
      BY <1>1, <2>2 DEF BuffersHold, RowHeld
    <3> QED  BY <3>1, <3>2, <3>3
  <2>5. ToRebuild' <=> pic.mt = 2
    BY <2>2, <2>3
  <2>6. ToFilter' <=> ~ToRebuild'
    BY <2>2, <2>3
  <2>7. IF ToRebuild' THEN UNCHANGED <<cache, rebuilt>> ELSE ReconstructRow(mine)
    BY <1>2, <1>3, <2>2, <2>5 DEF Hand
  <2>8. ctx' = [id |-> cache_id, mb_y |-> mb_y, filter_row |-> FiltersRow]
    BY <1>3 DEF Hand
  <2> QED
    BY <1>3, <2>1, <2>2, <2>3, <2>4, <2>5, <2>6, <2>7, <2>8
       DEF Direct, Rebuild, FilterRow, Put, AlphaFails
<1>4. CASE Direct
  <2>1. ~Pending
    BY <1>4, NothingPending DEF Direct
  <2>2. /\ UNCHANGED <<pic, out, status>> /\ at = "direct" /\ finish = "no"
        /\ finish' = "filter" /\ pic.mt = 0
    BY <1>1, <1>4 DEF Direct, workerVars, implVars, RowCalls
  <2>3. GoesOn /\ Pending' /\ ~ToRebuild' /\ ToFilter'
    BY <2>2 DEF GoesOn, Decoding
  <2>4. Started = mb_y /\ mb_y < L /\ mb_data[mine] = mb_y
    <3>1. Started = mb_y
      BY <1>1, <2>2 DEF RowNumbers
    <3>2. mb_y < L
      BY <1>1, <2>2 DEF RowNumbers, Decoding
    <3>3. mb_data[mine] = mb_y
      BY <1>1, <2>2 DEF BuffersHold, RowHeld
    <3> QED  BY <3>1, <3>2, <3>3
  <2>5. ReconstructRow(mine)
    BY <1>4, <2>2 DEF Direct, Handed
  <2>6. cache_id = 0
    BY <1>1, <1>2, <2>2 DEF RowDataOK
  <2>7. ctx' = [id |-> cache_id, mb_y |-> mb_y, filter_row |-> FiltersRow]
    BY <1>4, <2>6 DEF Direct
  <2> QED
    BY <1>4, <2>1, <2>2, <2>3, <2>4, <2>5, <2>7
       DEF Hand, Rebuild, FilterRow, Put, AlphaFails
<1>5. CASE Rebuild
  BY <1>1, <1>5 DEF Rebuild, Hand, Direct, FilterRow, Put, AlphaFails, workerVars,
                    implVars, WhoFinishes
<1>6. CASE FilterRow
  BY <1>1, <1>6 DEF Rebuild, Hand, Direct, FilterRow, Put, AlphaFails, workerVars,
                    implVars, WhoFinishes
<1>7. ASSUME NEW well \in BOOLEAN, Put(well) \/ AlphaFails
      PROVE  /\ Pending /\ ~Pending' /\ UNCHANGED <<pic, ctx, rebuilt>>
             /\ ~ToRebuild /\ ~ToRebuild' /\ ~ToFilter'
             /\ finish = "put" /\ finish' = "no"
             /\ GoesOn' => (Put(well) /\ well) \/ ~InCrop(ctx.mb_y)
  <2>1. /\ UNCHANGED <<pic, ctx, rebuilt, mb_y>>
        /\ finish = "put" /\ finish' = "no"
        /\ \/ FinishReturns(FALSE)
           \/ Put(well) /\ FinishReturns(well)
    BY <1>7 DEF Put, AlphaFails
  <2>2. CASE pic.mt = 0
    <3>1. at = "direct" /\ UNCHANGED workerVars
          /\ (at' = "exit" \/ (at' = "next" /\ Put(well) /\ well))
      BY <1>1, <2>1, <2>2 DEF FinishReturns, Goto, WhoFinishes
    <3>2. status # "WORK" /\ status' = status
      BY <1>1, <2>2, <3>1 DEF workerVars, implVars, RowCalls, Coupled
    <3>3. GoesOn' => at' # "exit" \/ mb_y >= BrRow(pic)
      BY <2>1, <2>2 DEF GoesOn, Decoding, Before, Headers, Halted
    <3>4. ctx.mb_y = mb_y /\ mb_y \in Nat /\ BrRow(pic) \in Nat
      BY <1>1, <2>1, <3>1, RowLimits DEF RowNumbers, RowDataOK
    <3> QED  BY <2>1, <3>1, <3>2, <3>3, <3>4 DEF InCrop
  <2>3. CASE pic.mt # 0
    <3>1. PICK w \in BOOLEAN : Ran(w) /\ (w => Put(well) /\ well) /\ UNCHANGED at
      BY <2>1, <2>3 DEF FinishReturns
    <3>2. status = "WORK" /\ status' = "OK" /\ (at = "launched" => main = "out")
          /\ main' = Woken(main)
      BY <1>1, <3>1 DEF Ran, DoneStatus, SignalMain, Coupled, NoJob
    <3>3. GoesOn' => w
      <4>1. pic'.mt > 0
        BY <1>2, <2>1, <2>3
      <4>2. had_error' = (had_error \/ ~w)
        BY <3>1 DEF Ran, KeptError
      <4> QED  BY <4>1, <4>2 DEF GoesOn
    <3> QED  BY <2>1, <3>1, <3>2, <3>3 DEF Woken
  <2> QED  BY <2>2, <2>3
<1>8. ASSUME NEW well \in BOOLEAN, Put(well) \/ AlphaFails
      PROVE  ~Hand /\ ~Direct /\ ~Rebuild /\ ~FilterRow
  <2>1. finish = "put" /\ finish' = "no"
    BY <1>8 DEF Put, AlphaFails
  <2> QED  BY <2>1 DEF Hand, Direct, Rebuild, FilterRow
<1>9. ~(Hand \/ Direct \/ Rebuild \/ FilterRow) =>
         \A well \in BOOLEAN : Put(well) \/ AlphaFails =>
              /\ Pending /\ ~Pending' /\ UNCHANGED <<pic, ctx, rebuilt>>
              /\ ~ToRebuild /\ ~ToRebuild' /\ ~ToFilter'
              /\ finish = "put" /\ finish' = "no"
              /\ GoesOn' => (Put(well) /\ well) \/ ~InCrop(ctx.mb_y)
  BY <1>7
<1> QED  BY <1>3, <1>4, <1>5, <1>6, <1>9

-------------------------------------------------------------------------------
(* The types.                                                              *)
CacheType(p) ==
  [Lines(p) -> [y : -1..(16 * p.mb_h), n : 0..2, right : BOOLEAN]]

(* A line is one of the cache's.                                           *)
LEMMA LineType ==
  ASSUME NEW h \in Nat, NEW y \in -1..h, NEW n \in 0..2, NEW r \in BOOLEAN
  PROVE  Line(y, n, r) \in [y : -1..h, n : 0..2, right : BOOLEAN]
  BY DEF Line

(* Lines of the cache that the steps of row i in cache id deal with.       *)
LEMMA LinesThere ==
  ASSUME NEW p \in Pictures, NEW id \in 0..(Caches(p) - 1),
         NEW l \in (16 * id - Extra(p.filter))..(16 * id + 15)
  PROVE  l \in Lines(p)
<1>1. Caches(p) \in 1..3 /\ Extra(p.filter) \in 0..8
  BY RowLimits
<1> QED  BY <1>1 DEF Lines

(* A row rebuilt into the cache leaves it a cache.                         *)
LEMMA RebuiltType ==
  ASSUME pic \in Pictures, cache \in CacheType(pic), NEW b,
         ctx'.id \in 0..(Caches(pic) - 1), ctx'.mb_y \in 0..(pic.mb_h - 1),
         ReconstructRow(b)
  PROVE  cache' \in CacheType(pic) /\ rebuilt' = ctx'.mb_y + 1
<1>1. pic.mb_h \in Nat \ {0} /\ Caches(pic) \in 1..3 /\ Extra(pic.filter) \in 0..8
  BY RowLimits
<1>2. PICK h \in Nat : h = 16 * pic.mb_h
  BY <1>1
<1>3. ASSUME NEW l \in Lines(pic), NEW r \in BOOLEAN
      PROVE  (IF l \in (16 * ctx'.id)..(16 * ctx'.id + 15)
              THEN Line(16 * ctx'.mb_y + l - 16 * ctx'.id, 0, r)
              ELSE cache[l]) \in [y : -1..h, n : 0..2, right : BOOLEAN]
  <2>1. CASE l \in (16 * ctx'.id)..(16 * ctx'.id + 15)
    <3>1. 16 * ctx'.mb_y + l - 16 * ctx'.id \in -1..h
      BY <1>1, <1>2, <2>1
    <3> QED  BY <2>1, <3>1, LineType
  <2>2. CASE l \notin (16 * ctx'.id)..(16 * ctx'.id + 15)
    BY <1>2, <2>2 DEF CacheType
  <2> QED  BY <2>1, <2>2
<1>4. DOMAIN cache = Lines(pic)
  BY DEF CacheType
<1>5. PICK r \in BOOLEAN : r <=> mb_data[b] = ctx'.mb_y /\ rebuilt = ctx'.mb_y
  OBVIOUS
<1>6. rebuilt' = ctx'.mb_y + 1
      /\ cache' = [l \in Lines(pic) |->
                    IF l \in (16 * ctx'.id)..(16 * ctx'.id + 15)
                    THEN Line(16 * ctx'.mb_y + l - 16 * ctx'.id, 0,
                              mb_data[b] = ctx'.mb_y /\ rebuilt = ctx'.mb_y)
                    ELSE cache[l]]
  BY <1>4 DEF ReconstructRow, WithRow
<1>7. (mb_data[b] = ctx'.mb_y /\ rebuilt = ctx'.mb_y) = r
  BY <1>5
<1>8. cache' = [l \in Lines(pic) |->
                  IF l \in (16 * ctx'.id)..(16 * ctx'.id + 15)
                  THEN Line(16 * ctx'.mb_y + l - 16 * ctx'.id, 0, r)
                  ELSE cache[l]]
  BY <1>6, <1>7, Zenon
<1> QED
  BY <1>2, <1>3, <1>6, <1>8 DEF CacheType

(* So does the filter ...                                                  *)
LEMMA FilteredType ==
  ASSUME pic \in Pictures, cache \in CacheType(pic)
  PROVE  Filtered \in CacheType(pic)
<1>1. pic.mb_h \in Nat \ {0}
  BY RowLimits
<1>2. PICK h \in Nat : h = 16 * pic.mb_h
  BY <1>1
<1>3. DOMAIN cache = Lines(pic)
  BY DEF CacheType
<1>4. ASSUME NEW l \in Lines(pic), NEW r \in BOOLEAN
      PROVE  Line(cache[l].y, Clip(cache[l].n + 1, 2), r)
               \in [y : -1..h, n : 0..2, right : BOOLEAN]
  <2>1. cache[l].y \in -1..h /\ cache[l].n \in 0..2
    BY <1>2 DEF CacheType
  <2>2. Clip(cache[l].n + 1, 2) \in 0..2
    BY <2>1 DEF Clip
  <2> QED  BY <2>1, <2>2, LineType
<1>5. \A l \in Lines(pic) : cache[l] \in [y : -1..h, n : 0..2, right : BOOLEAN]
  BY <1>2 DEF CacheType
<1> QED  BY <1>2, <1>3, <1>4, <1>5 DEF Filtered, CacheType

(* ... and the move of the lines held back.                                *)
LEMMA RotatedType ==
  ASSUME pic \in Pictures, cache \in CacheType(pic)
  PROVE  Rotated \in CacheType(pic)
<1>1. Caches(pic) \in 1..3 /\ Extra(pic.filter) \in 0..8
  BY RowLimits
<1>2. DOMAIN cache = Lines(pic)
  BY DEF CacheType
<1>3. \A l \in Lines(pic) : l < 0 => l + 16 * Caches(pic) \in Lines(pic)
  BY <1>1 DEF Lines
<1> QED  BY <1>2, <1>3 DEF Rotated, CacheType

(* The lines that are put of row m.                                        *)
LEMMA Region ==
  ASSUME pic \in Pictures, NEW m \in Nat, m < BrRow(pic), ctx.mb_y = m
  PROVE  /\ IsLast <=> m + 1 = BrRow(pic)
         /\ YStart \in Nat /\ pic.top <= YStart
         /\ YStart = IF m = 0 \/ 16 * m - Extra(pic.filter) < pic.top THEN pic.top
                     ELSE 16 * m - Extra(pic.filter)
         /\ YEnd \in Nat /\ YEnd <= pic.bottom
         /\ YEnd = IF m + 1 = BrRow(pic) THEN pic.bottom
                   ELSE 16 * (m + 1) - Extra(pic.filter)
         /\ m + 1 = BrRow(pic) => YEnd <= 16 * (m + 1) /\ YStart < YEnd
<1>1. /\ pic.top \in Nat /\ pic.bottom \in Nat /\ pic.top < pic.bottom
      /\ Extra(pic.filter) \in 0..8 /\ BrRow(pic) \in Nat \ {0}
      /\ pic.bottom <= 16 * BrRow(pic)
      /\ 16 * (BrRow(pic) - 1) - Extra(pic.filter) < pic.bottom
  BY RowLimits
<1>2. IsLast <=> m + 1 = BrRow(pic)
  BY <1>1 DEF IsLast
<1>3. /\ YStart \in Nat /\ pic.top <= YStart
      /\ YStart = IF m = 0 \/ 16 * m - Extra(pic.filter) < pic.top THEN pic.top
                  ELSE 16 * m - Extra(pic.filter)
  BY <1>1 DEF YStart
<1>4. CASE m + 1 = BrRow(pic)
  <2>1. YEnd = IF 16 * (m + 1) - 0 > pic.bottom THEN pic.bottom ELSE 16 * (m + 1) - 0
    BY <1>2, <1>4 DEF YEnd, Clip
  <2>2. pic.bottom <= 16 * (m + 1) /\ 16 * m - Extra(pic.filter) < pic.bottom
    BY <1>1, <1>4
  <2>3. YEnd = pic.bottom
    BY <1>1, <2>1, <2>2
  <2>4. YStart < pic.bottom
    BY <1>1, <1>3, <2>2
  <2> QED  BY <1>1, <1>2, <1>3, <1>4, <2>2, <2>3, <2>4
<1>5. CASE m + 1 # BrRow(pic)
  <2>1. 16 * (m + 1) - Extra(pic.filter) <= 16 * (BrRow(pic) - 1) - Extra(pic.filter)
    BY <1>1, <1>5
  <2>2. 16 * (m + 1) - Extra(pic.filter) \in Nat
    BY <1>1
  <2> QED  BY <1>1, <1>2, <1>3, <1>5, <2>1, <2>2 DEF YEnd, Clip
<1> QED  BY <1>2, <1>3, <1>4, <1>5

(* Of a row behind the crop area nothing is put.                           *)
LEMMA Beyond ==
  ASSUME pic \in Pictures, NEW m \in Nat, m >= BrRow(pic), m < pic.mb_h, ctx.mb_y = m
  PROVE  ~(YStart < YEnd)
<1>1. PICK b \in Nat, e \in Nat, r \in Nat, t \in Nat :
        /\ b = pic.bottom /\ e = Extra(pic.filter) /\ r = BrRow(pic) /\ t = pic.top
        /\ r < pic.mb_h => b + e <= 16 * r
        /\ r > 0 /\ pic.mb_h \in Nat
  <2>1. Extra(pic.filter) \in Nat
    BY RowLimits
  <2> QED  BY <2>1, RowLimits, SMTT(30)
<1>2. b + e <= 16 * r /\ 16 * r <= 16 * m /\ m # 0
  BY <1>1
<1>3. YStart >= b
  BY <1>1, <1>2 DEF YStart
<1>4. YEnd <= b /\ YEnd \in Int /\ YStart \in Int
  BY <1>1 DEF YEnd, Clip, YStart
<1> QED  BY <1>1, <1>3, <1>4

(* The picture stays the same.                                             *)
LEMMA PicStays ==
  ASSUME NEW L \in Nat, [AnyRows(L)]_rowsVars
  PROVE  pic' = pic
<1>1. CASE MainWaits \/ ThreadWaits \/ WorkerSpurious \/ TakeRow
  BY <1>1 DEF MainWaits, ThreadWaits, WorkerSpurious, TakeRow, rowVars
<1> QED
  BY <1>1, RowSteps DEF EnterCritical, AllocateMemory, Put, InitThread, ParseRow,
     ParseFails, Direct, SyncJob, JobFailed, Hand, Launched, NextRow, LastJob,
     ExitCritical, Teardown, Clear, Free, Rebuild, FilterRow, AlphaFails, OfWorker,
     ParsesOn, Pauses, Starves, rowsVars, rowVars

(* The type of everything but what FinishRow works on.                     *)
FieldsOK ==
  /\ mb_y \in 0..pic.mb_h
  /\ cache_id \in 0..(Caches(pic) - 1)
  /\ mb_data \in [0..1 -> -1..pic.mb_h] /\ f_info \in [0..1 -> -1..pic.mb_h]
  /\ mine \in 0..1 /\ fmine \in 0..1
  /\ ctx \in [id : 0..(Caches(pic) - 1), mb_y : 0..pic.mb_h,
              filter_row : BOOLEAN]
  /\ finish \in {"no", "rebuild", "filter", "put"}
  /\ setup \in BOOLEAN
  /\ at \in Before \cup Decoding \cup {"user", "alloc", "exit", "teardown", "clear",
                                       "over", "off"}

(* The fields that FinishRow does not write keep their types.              *)
LEMMA NextFields ==
  ASSUME NEW L \in Nat, RowsInv(L), [AnyRows(L)]_rowsVars
  PROVE  FieldsOK'
<1>1. FieldsOK /\ RowNumbers(L) /\ pic \in Pictures
  BY DEF RowsInv, AnyTypeOK, RowDataOK, FieldsOK
<1>2. /\ pic.mb_h \in Nat \ {0} /\ BrRow(pic) \in Nat /\ BrRow(pic) <= pic.mb_h
      /\ Caches(pic) \in 1..3
  BY <1>1, RowLimits
<1>3. pic' = pic
  BY PicStays
<1>4. UNCHANGED <<pic, Caches(pic)>>
  BY <1>3
<1> USE DEF FieldsOK, Before, Headers, Decoding
<1>5. ASSUME NEW well \in BOOLEAN,
             EnterCritical(well, "clear") \/ EnterCritical(well, "user") \/ AllocateMemory(well)
      PROVE  FieldsOK'
  BY <1>1, <1>4, <1>5 DEF EnterCritical, AllocateMemory, Goto, bufferVars, finishVars
<1>6. ASSUME NEW well \in BOOLEAN, Put(well) \/ AlphaFails
      PROVE  FieldsOK'
  BY <1>1, <1>4, <1>6 DEF Put, AlphaFails, FinishReturns, Goto, bufferVars
<1>7. CASE InitThread \/ JobFailed \/ ParseFails \/ Teardown("clear") \/ Teardown("user")
             \/ Free \/ SyncJob \/ LastJob \/ ExitCritical \/ Clear
  BY <1>1, <1>4, <1>7 DEF InitThread, JobFailed, ParseFails, Teardown,
     Free, SyncJob, LastJob, ExitCritical, Clear, Goto, bufferVars, finishVars
<1>8. CASE ParseRow
  BY <1>1, <1>4, <1>8 DEF ParseRow, Parsed, Goto, bufferVars, finishVars
<1>9. CASE NextRow(L, "parse", "last") \/ NextRow(L, "parse", "exit")
  <2>1. mb_y + 1 \in 0..pic.mb_h
    BY <1>1, <1>2, <1>9 DEF NextRow, RowNumbers, Before, Decoding
  <2> QED
    BY <1>1, <1>4, <1>9, <2>1 DEF NextRow, Goto, bufferVars, finishVars
<1>10. CASE Launched
  <2>1. (cache_id + 1) % Caches(pic) \in 0..(Caches(pic) - 1)
    BY <1>1, <1>2
  <2> QED
    BY <1>1, <1>4, <1>10, <2>1 DEF Launched, Goto, bufferVars, finishVars
<1>11. CASE Hand
  <2>1. FiltersRow \in BOOLEAN
    BY DEF FiltersRow
  <2>2. mine' \in 0..1 /\ fmine' \in 0..1
    BY <1>1, <1>11 DEF Hand
  <2>3. ctx' \in [id : 0..(Caches(pic) - 1), mb_y : 0..pic.mb_h,
              filter_row : BOOLEAN]
    BY <1>1, <1>11, <2>1 DEF Hand
  <2> QED
    BY <1>1, <1>4, <1>11, <2>2, <2>3 DEF Hand, Goto
<1>12. CASE Direct
  <2>1. FiltersRow \in BOOLEAN
    BY DEF FiltersRow
  <2>2. ctx' \in [id : 0..(Caches(pic) - 1), mb_y : 0..pic.mb_h,
              filter_row : BOOLEAN]
    BY <1>1, <1>2, <1>12, <2>1 DEF Direct
  <2> QED
    BY <1>1, <1>4, <1>12, <2>2 DEF Direct, bufferVars
<1>13. CASE Rebuild \/ FilterRow
  BY <1>1, <1>4, <1>13 DEF Rebuild, FilterRow, bufferVars
<1>14. CASE OfWorker
  <2>1. UNCHANGED <<pic, at, mb_y, cache_id, ctx, setup, bufferVars>>
    BY <1>14, OfWorkerDoes DEF RowsInv
  <2>2. finish' \in {"no", "rebuild", "filter", "put"}
    BY <1>1, <1>14, OfWorkerDoes DEF RowsInv, TakeRow
  <2> QED  BY <1>1, <1>4, <2>1, <2>2 DEF bufferVars
<1>15. CASE UNCHANGED rowsVars
  BY <1>1, <1>4, <1>15 DEF rowsVars, rowVars, bufferVars, finishVars
<1>16. CASE Pauses \/ Starves
  BY <1>1, <1>4, <1>16 DEF Pauses, Starves, Goto, bufferVars, finishVars
<1>17. CASE ParsesOn
  <2>1. /\ UNCHANGED <<mb_y, cache_id, ctx, setup, mine, fmine, finish>> /\ at' = "mb"
        /\ \/ mb_data' = [mb_data EXCEPT ![mine] = mb_y]
           \/ mb_data' = mb_data
        /\ \/ f_info' = [f_info EXCEPT ![fmine] = mb_y]
           \/ f_info' = f_info
    BY <1>17 DEF ParsesOn, Parsed, Goto, finishVars
  <2>2. mb_data' \in [0..1 -> -1..pic.mb_h] /\ f_info' \in [0..1 -> -1..pic.mb_h]
    BY <1>1, <1>2, <2>1
  <2> QED  BY <1>1, <1>4, <2>1, <2>2
<1> QED
  BY <1>5, <1>6, <1>7, <1>8, <1>9, <1>10, <1>11, <1>12, <1>13, <1>14, <1>15,
     <1>16, <1>17, RowSteps

(* The row that is under way, and its place.                               *)
LEMMA TheRow ==
  ASSUME NEW L \in Nat, RowsInv(L)
  PROVE  /\ pic \in Pictures /\ Caches(pic) \in 1..3
         /\ BrRow(pic) \in Nat \ {0} /\ BrRow(pic) <= pic.mb_h
         /\ mb_y \in Nat /\ rebuilt \in Nat /\ Started \in Nat
         /\ cache \in CacheType(pic)
         /\ ctx.id \in 0..(Caches(pic) - 1) /\ ctx.mb_y \in Nat
         /\ NextId \in 0..(Caches(pic) - 1)
         /\ L <= pic.mb_h /\ pic.mb_h \in Nat /\ BrRow(pic) <= L
         /\ Pending => ctx.mb_y < L
<1>1. pic \in Pictures /\ RowDataOK /\ RowNumbers(L)
  BY DEF RowsInv, AnyTypeOK, RowDataOK
<1>2. /\ Caches(pic) \in 1..3 /\ BrRow(pic) \in Nat \ {0} /\ BrRow(pic) <= pic.mb_h
      /\ pic.mb_h \in Nat
  BY <1>1, RowLimits
<1>3. mb_y \in Nat /\ rebuilt \in Nat /\ cache \in CacheType(pic)
      /\ ctx.id \in 0..(Caches(pic) - 1) /\ ctx.mb_y \in Nat
  BY <1>1, <1>2 DEF RowDataOK, CacheType
<1>4. Started \in Nat
  BY <1>3 DEF Started
<1>5. /\ Pending => ctx.mb_y < L
      /\ L <= pic.mb_h /\ BrRow(pic) <= L
  BY <1>1, <1>2, <1>3, <1>4 DEF RowNumbers
<1>6. NextId \in 0..(Caches(pic) - 1)
  BY <1>2, <1>3 DEF NextId
<1> QED  BY <1>1, <1>2, <1>3, <1>4, <1>5, <1>6

PutType(p) == [from : 0..p.bottom, to : 0..p.bottom, right : BOOLEAN]
(* All types are kept.                                                     *)
LEMMA NextRowsType ==
  ASSUME NEW L \in Nat, RowsInv(L), [AnyRows(L)]_rowsVars
  PROVE  AnyTypeOK'
<1>1. /\ pic \in Pictures /\ rebuilt \in 0..pic.mb_h /\ cache \in CacheType(pic)
      /\ out \in Seq(PutType(pic)) /\ RowNumbers(L)
  BY DEF RowsInv, AnyTypeOK, RowDataOK, CacheType, PutType
<1>2. FieldsOK' /\ pic' = pic
  BY NextFields, PicStays
<1>3. /\ pic.mb_h \in Nat \ {0} /\ BrRow(pic) \in Nat /\ L <= pic.mb_h
      /\ pic.bottom \in Nat
  BY <1>1, RowLimits, TheRow
<1>4. ctx'.id \in 0..(Caches(pic) - 1)
  BY <1>2 DEF FieldsOK
<1>5. rebuilt' \in 0..pic.mb_h /\ cache' \in CacheType(pic)
  <2>1. ASSUME NEW b, ReconstructRow(b), ctx'.mb_y \in Nat, ctx'.mb_y < L
        PROVE  rebuilt' \in 0..pic.mb_h /\ cache' \in CacheType(pic)
    <3>1. ctx'.mb_y \in 0..(pic.mb_h - 1)
      BY <1>3, <2>1
    <3> QED  BY <1>1, <1>3, <1>4, <2>1, <3>1, RebuiltType
  <2>2. CASE RowStays
    BY <1>1, <2>2 DEF RowStays
  <2>3. CASE Hand \/ Direct
    <3>1. ctx'.mb_y = mb_y /\ mb_y < L
          /\ (UNCHANGED <<cache, rebuilt>> \/ ReconstructRow(mine))
      BY <2>3, Turns
    <3> QED  BY <1>1, <2>1, <3>1, TheRow
  <2>4. CASE Rebuild
    <3>1. Pending /\ ctx' = ctx
      BY <2>4, Turns DEF ToRebuild
    <3> QED  BY <2>1, <2>4, <3>1, TheRow DEF Rebuild
  <2>5. CASE FilterRow
    BY <1>1, <2>5, FilteredType DEF FilterRow
  <2>6. CASE AlphaFails \/ \E well \in BOOLEAN : Put(well)
    BY <1>1, <2>6, RotatedType DEF AlphaFails, Put
  <2> QED  BY <2>2, <2>3, <2>4, <2>5, <2>6, Stays
<1>6. out' \in Seq(PutType(pic))
  <2>1. CASE out' = out
    BY <1>1, <2>1
  <2>2. CASE out' # out
    <3>1. PICK well \in BOOLEAN : Put(well)
      BY <2>2, Stays, Turns DEF RowStays, AlphaFails
    <3>2. Pending
      BY <3>1, Turns
    <3>4. YStart < YEnd
          /\ out' = Append(out, [from |-> YStart, to |-> YEnd,
                              right |-> \A y \in YStart..(YEnd - 1) : Final(y)])
      BY <2>2, <3>1 DEF Put
    <3>3. /\ YStart \in Nat /\ YEnd \in Nat /\ YEnd <= pic.bottom
      <4>1. ctx.mb_y \in Nat /\ ctx.mb_y < pic.mb_h /\ BrRow(pic) \in Nat
        BY <3>2, TheRow
      <4>2. CASE ctx.mb_y < BrRow(pic)
        BY <1>1, <4>1, <4>2, Region
      <4>3. CASE ctx.mb_y >= BrRow(pic)
        BY <1>1, <3>4, <4>1, <4>3, Beyond
      <4> QED  BY <4>1, <4>2, <4>3
    <3>5. [from |-> YStart, to |-> YEnd,
           right |-> \A y \in YStart..(YEnd - 1) : Final(y)] \in PutType(pic)
      BY <1>3, <3>3, <3>4 DEF PutType
    <3>6. \A r \in PutType(pic) : Append(out, r) \in Seq(PutType(pic))
      BY <1>1
    <3> QED  BY <3>4, <3>5, <3>6, Zenon
  <2> QED  BY <2>1, <2>2
<1> QED
  BY <1>1, <1>2, <1>5, <1>6
     DEF AnyTypeOK, RowDataOK, FieldsOK, CacheType, PutType

-------------------------------------------------------------------------------
(* The numbers of rows.                                                    *)
LEMMA StartedNext ==
  ASSUME NEW L \in Nat, RowsInv(L), [AnyRows(L)]_rowsVars
  PROVE  /\ Hand \/ Direct => Started' = mb_y + 1
         /\ ~(Hand \/ Direct) => Started' = Started /\ ctx' = ctx
         /\ Pending' => Pending \/ Hand \/ Direct
<1>1. /\ rebuilt \in Nat /\ mb_y \in Nat /\ ctx.mb_y \in Nat /\ Started \in Nat
      /\ RowNumbers(L)
  BY TheRow DEF RowsInv
<1>2. CASE RowStays
  <2>1. ~(Hand \/ Direct)
    BY <1>2, Turns DEF RowStays
  <2> QED  BY <1>2, <2>1 DEF RowStays, Started
<1>3. CASE Hand \/ Direct
  <2>1. ~ToRebuild /\ Started = mb_y /\ ctx'.mb_y = mb_y
    BY <1>3, Turns DEF ToRebuild
  <2>2. rebuilt = mb_y
    BY <1>1, <2>1 DEF Started
  <2>3. CASE ToRebuild'
    BY <1>3, <2>2, <2>3, <1>1, Turns DEF Started
  <2>4. CASE ~ToRebuild'
    <3>1. rebuilt' = mb_y + 1
      BY <1>3, <2>1, <2>4, Turns DEF ReconstructRow
    <3> QED  BY <1>1, <1>3, <2>4, <3>1 DEF Started
  <2> QED  BY <2>3, <2>4
<1>4. CASE Rebuild
  <2>1. ToRebuild /\ ~ToRebuild' /\ ctx' = ctx /\ Pending /\ ~(Hand \/ Direct)
    BY <1>4, Turns DEF ToRebuild
  <2>2. rebuilt' = ctx.mb_y + 1
    BY <1>4, <2>1 DEF Rebuild, ReconstructRow
  <2>3. ctx.mb_y = Started - 1 /\ Started = rebuilt + 1
    BY <1>1, <2>1 DEF RowNumbers, Started
  <2> QED  BY <1>1, <2>1, <2>2, <2>3 DEF Started
<1>5. CASE FilterRow
  BY <1>5, Turns DEF Started, ToFilter
<1>6. CASE AlphaFails \/ \E well \in BOOLEAN : Put(well)
  BY <1>6, Turns DEF Started
<1> QED  BY <1>2, <1>3, <1>4, <1>5, <1>6, Stays

(* The numbers of rows agree after any step.                               *)
LEMMA NextRowNumbers ==
  ASSUME NEW L \in Nat, RowsInv(L), [AnyRows(L)]_rowsVars
  PROVE  RowNumbers(L)'
<1>1. /\ IInv /\ Coupled /\ RowNumbers(L) /\ RowCalls /\ WhoFinishes /\ SetupOpen
      /\ RowDataOK
      /\ finish \in {"no", "rebuild", "filter", "put"}
  BY DEF RowsInv, IInv, AnyTypeOK, RowDataOK
<1>2. /\ mb_y \in Nat /\ ctx.mb_y \in Nat /\ Started \in Nat
      /\ BrRow(pic) \in Nat \ {0} /\ Caches(pic) \in 1..3
      /\ ctx.id \in 0..(Caches(pic) - 1)
      /\ pic \in Pictures /\ pic.mt \in 0..2 /\ (pic.mt = 0 => Caches(pic) = 1)
      /\ TlRow(pic) \in Nat /\ BrRow(pic) <= L /\ L <= pic.mb_h /\ pic.mb_h \in Nat
  BY TheRow, RowLimits
<1>3. pic' = pic
  BY PicStays
<1>4. BrRow(pic)' = BrRow(pic) /\ pic.mb_h' = pic.mb_h
  BY <1>3
<1> USE DEF RowNumbers, Before, Headers, Decoding, Halted, InCrop
(* A step that leaves ctx alone.                                           *)
<1>5. ASSUME ~Hand, ~Direct
      PROVE  /\ Started' = Started /\ ctx' = ctx /\ NextId' = NextId
             /\ Pending' => Pending
             /\ (ctx'.filter_row <=> pic'.filter > 0 /\ ctx'.mb_y >= TlRow(pic'))
                  <=> (ctx.filter_row <=> pic.filter > 0 /\ ctx.mb_y >= TlRow(pic))
  BY <1>3, <1>5, StartedNext DEF NextId
<1>6. ASSUME ~Hand, ~Direct, UNCHANGED <<at, setup, mb_y, cache_id>>,
             at = "direct" => (finish' = "no" <=> finish = "no")
      PROVE  RowNumbers(L)'
  BY <1>1, <1>4, <1>5, <1>6
<1>7. ASSUME NEW well \in BOOLEAN,
             EnterCritical(well, "clear") \/ EnterCritical(well, "user") \/ AllocateMemory(well)
      PROVE  RowNumbers(L)'
  <2>1. ~Hand /\ ~Direct
    BY <1>7 DEF EnterCritical, AllocateMemory, Hand, Direct
  <2>2. /\ UNCHANGED <<mb_y, cache_id, finish>>
        /\ at \in {"setup", "alloc"} /\ at' \in {"init", "clear", "user", "parse", "exit"}
        /\ at' = "init" => at = "setup"
        /\ at' = "user" => ~setup'
    BY <1>7 DEF EnterCritical, AllocateMemory, Goto, finishVars
  <2> QED  BY <1>1, <1>2, <1>4, <1>5, <2>1, <2>2
<1>8. CASE InitThread \/ ParseRow \/ ParseFails \/ JobFailed
  <2>1. ~Hand /\ ~Direct
    BY <1>1, <1>8 DEF InitThread, ParseRow, ParseFails, JobFailed, Hand, Direct
  <2>2. /\ UNCHANGED <<mb_y, cache_id, finish>>
        /\ at \in {"init", "parse", "hand"}
        /\ at' \in {"alloc", "exit", "sync", "direct"}
        /\ at' = "alloc" => at = "init"
        /\ at' \in {"sync", "direct"} => at = "parse"
    BY <1>8 DEF InitThread, ParseRow, ParseFails, JobFailed, Goto, finishVars
  <2>3. at = "parse" /\ at' = "direct" => finish = "no"
    BY <1>1, <1>8, <2>2 DEF WhoFinishes, ParseRow, InitThread, ParseFails, JobFailed,
                            Goto
  <2> QED  BY <1>1, <1>2, <1>4, <1>5, <2>1, <2>2, <2>3
<1>9. CASE Teardown("clear") \/ Teardown("user") \/ Free \/ SyncJob \/ LastJob \/ ExitCritical \/ Clear
  <2>1. ~Hand /\ ~Direct
    BY <1>9 DEF Teardown, Free, SyncJob, LastJob, ExitCritical, Clear, Hand, Direct
  <2>2. /\ UNCHANGED <<mb_y, cache_id, finish>>
        /\ at \notin {"launched", "direct"}
        /\ at' \in {"hand", "exit", "teardown", "clear", "over", "off", "user"}
        /\ at' = "hand" => at = "sync"
        /\ at' = "user" => ~setup'
    BY <1>9 DEF Teardown, Free, SyncJob, LastJob, ExitCritical, Clear, Goto,
                finishVars
  <2> QED  BY <1>1, <1>2, <1>4, <1>5, <2>1, <2>2
<1>10. CASE NextRow(L, "parse", "last") \/ NextRow(L, "parse", "exit")
  <2>1. ~Hand /\ ~Direct /\ at = "next"
    BY <1>10 DEF NextRow, Hand, Direct
  <2>2. /\ mb_y' = mb_y + 1 /\ UNCHANGED cache_id
        /\ at' \in IF mb_y + 1 < L THEN {"parse"} ELSE {"last", "exit"}
    BY <1>10 DEF NextRow, Goto
  <2> QED  BY <1>1, <1>2, <1>4, <1>5, <2>1, <2>2
<1>11. CASE Launched
  <2>1. ~Hand /\ ~Direct
    BY <1>11 DEF Launched, Hand, Direct
  <2>2. /\ UNCHANGED mb_y /\ at = "launched" /\ at' = "next"
        /\ cache_id' = (cache_id + 1) % Caches(pic)
    BY <1>11 DEF Launched, Goto
  <2>3. cache_id' = NextId
    <3>1. cache_id = ctx.id
      BY <1>1, <2>2
    <3>2. \A c \in 1..3 : \A i \in 0..(c - 1) :
            (i + 1) % c = IF i + 1 = c THEN 0 ELSE i + 1
      OBVIOUS
    <3> QED  BY <1>2, <2>2, <3>1, <3>2 DEF NextId
  <2> QED  BY <1>1, <1>2, <1>4, <1>5, <2>1, <2>2, <2>3
<1>12. CASE Hand
  <2>1. /\ Started' = mb_y + 1 /\ mb_y < L
        /\ ctx' = [id |-> cache_id, mb_y |-> mb_y, filter_row |-> FiltersRow]
    BY <1>12, StartedNext, Turns
  <2>2. at = "hand" /\ at' = "launched" /\ UNCHANGED <<mb_y, cache_id>>
    BY <1>12 DEF Hand, Goto
  <2>3. ctx'.mb_y = mb_y /\ ctx'.id = cache_id
        /\ (mb_y < BrRow(pic) =>
              (ctx'.filter_row <=> pic.filter > 0 /\ mb_y >= TlRow(pic)))
    <3>1. mb_y < BrRow(pic) => (FiltersRow <=> pic.filter > 0 /\ mb_y >= TlRow(pic))
      BY <1>2, <2>1 DEF FiltersRow
    <3> QED  BY <2>1, <3>1
  <2> QED  BY <1>1, <1>2, <1>3, <1>4, <2>1, <2>2, <2>3
<1>13. CASE Direct
  <2>1. /\ Started' = mb_y + 1 /\ mb_y < L
        /\ ctx' = [id |-> cache_id, mb_y |-> mb_y, filter_row |-> FiltersRow]
    BY <1>13, StartedNext, Turns
  <2>2. at = "direct" /\ UNCHANGED <<at, mb_y, cache_id>> /\ finish' = "filter"
    BY <1>13 DEF Direct
  <2>3. ctx'.mb_y = mb_y /\ ctx'.id = cache_id
        /\ (mb_y < BrRow(pic) =>
              (ctx'.filter_row <=> pic.filter > 0 /\ mb_y >= TlRow(pic)))
    <3>1. mb_y < BrRow(pic) => (FiltersRow <=> pic.filter > 0 /\ mb_y >= TlRow(pic))
      BY <1>2, <2>1 DEF FiltersRow
    <3> QED  BY <2>1, <3>1
  <2>4. cache_id' = NextId'
    BY <1>1, <1>2, <1>3, <2>2, <2>3 DEF NextId, RowCalls, RowDataOK
  <2> QED  BY <1>1, <1>2, <1>3, <1>4, <2>1, <2>2, <2>3, <2>4
<1>14. CASE Rebuild \/ FilterRow
  BY <1>6, <1>14, Turns DEF Rebuild, FilterRow, Hand, Direct
<1>15. ASSUME NEW well \in BOOLEAN, Put(well) \/ AlphaFails
       PROVE  RowNumbers(L)'
  <2>1. ~Hand /\ ~Direct /\ UNCHANGED <<setup, mb_y, cache_id>>
        /\ finish # "no" /\ finish' = "no"
    BY <1>15 DEF Put, AlphaFails, Hand, Direct
  <2>2. CASE at' = at
    <3>1. at # "direct"
      BY <1>1, <1>15, <2>1, <2>2 DEF Put, AlphaFails, FinishReturns, Goto, RowCalls
    <3> QED  BY <1>6, <2>1, <2>2, <3>1
  <2>3. CASE at' # at
    <3>1. at = "direct" /\ at' \in {"next", "exit"}
      BY <1>1, <1>15, <2>1, <2>3 DEF Put, AlphaFails, FinishReturns, Goto, WhoFinishes
    <3> QED  BY <1>1, <1>2, <1>4, <1>5, <2>1, <3>1
  <2> QED  BY <2>2, <2>3
<1>16. CASE OfWorker
  <2>1. UNCHANGED <<pic, at, setup, mb_y, cache_id, ctx, rebuilt>>
    BY <1>1, <1>16, OfWorkerDoes
  <2>2. at = "direct" => finish' = finish
    BY <1>1, <1>16, OfWorkerDoes DEF RowCalls, Takes, Coupled, ThreadLocks
  <2>3. ~Hand /\ ~Direct
    BY <2>1, <2>2 DEF Hand, Goto, Direct
  <2> QED  BY <1>6, <2>1, <2>2, <2>3
<1>17. CASE UNCHANGED rowsVars
  <2>1. UNCHANGED <<at, setup, mb_y, cache_id, finish>>
    BY <1>17 DEF rowsVars, rowVars, finishVars
  <2>2. ~Hand /\ ~Direct
    BY <2>1 DEF Hand, Goto, Direct
  <2> QED  BY <1>6, <2>1, <2>2
<1>18. CASE ParsesOn \/ Pauses \/ Starves
  <2>1. UNCHANGED <<mb_y, cache_id, finish, setup, rebuilt, pic>>
    BY <1>18 DEF ParsesOn, Pauses, Starves, finishVars
  <2>2. ~Hand /\ ~Direct
    BY <1>1, <1>18, <2>1 DEF ParsesOn, Pauses, Starves, Goto, Hand, Direct, WhoFinishes
  <2>3. /\ at' = "direct" => finish = "no"
        /\ at' \in Before \cup {"alloc"} => Started = 0 /\ mb_y = 0
        /\ at' \in {"parse", "mb", "starved", "sync", "hand", "direct"} \/ Halted' =>
             Started = mb_y /\ mb_y < L
        /\ at' \notin {"last", "launched", "next"} /\ at # "launched"
    <3>1. CASE ParsesOn
      BY <1>1, <2>1, <3>1 DEF ParsesOn, Goto
    <3>2. CASE Starves
      BY <1>1, <2>1, <3>2 DEF Starves, Goto
    <3>3. ASSUME Fresh PROVE Started = 0 /\ mb_y = 0
      BY <1>1, <3>3 DEF Fresh, Started, ToRebuild, Pending, Coupled
    <3>4. CASE Pauses
      BY <1>1, <2>1, <3>3, <3>4 DEF Pauses, WhoFinishes, SetupOpen
    <3> QED  BY <1>18, <3>1, <3>2, <3>4
  <2> QED  BY <1>1, <1>2, <1>4, <1>5, <2>1, <2>2, <2>3
<1> QED
  BY <1>7, <1>8, <1>9, <1>10, <1>11, <1>12, <1>13, <1>14, <1>15, <1>16, <1>17,
     <1>18, RowSteps

(* A buffer is not written before it has been used.                        *)
LEMMA NextBuffers ==
  ASSUME NEW L \in Nat, RowsInv(L), [AnyRows(L)]_rowsVars
  PROVE  BuffersHold'
<1>1. /\ IInv /\ Coupled /\ RowCalls /\ WhoFinishes /\ BuffersHold /\ RowDataOK
      /\ pic \in Pictures
  BY DEF RowsInv, IInv, AnyTypeOK, RowDataOK
<1>2. pic.mt \in 0..2 /\ pic.filter \in 0..2 /\ pic' = pic
  BY <1>1, RowLimits, PicStays
<1>3. /\ mb_data \in [0..1 -> -1..pic.mb_h] /\ f_info \in [0..1 -> -1..pic.mb_h]
      /\ mine \in 0..1 /\ fmine \in 0..1
  BY <1>1 DEF RowDataOK
<1>4. ASSUME ~Hand, ~Direct
      PROVE  /\ ctx' = ctx
             /\ ToRebuild' => ToRebuild
             /\ ToRebuild' \/ ToFilter' => ToRebuild \/ ToFilter
  <2>1. ctx' = ctx
    BY <1>4, StartedNext
  <2>2. CASE RowStays
    BY <2>1, <2>2 DEF RowStays
  <2>3. CASE ~RowStays
    BY <1>4, <2>1, <2>3, Stays, Turns
  <2> QED  BY <2>2, <2>3
<1> USE DEF BuffersHold, RowHeld
<1>5. ASSUME ~Hand, ~Direct, UNCHANGED <<mb_y, bufferVars>>,
             at' \in {"mb", "starved", "sync", "hand", "direct"} => at \in {"mb", "starved", "sync", "hand", "direct"}
      PROVE  BuffersHold'
  BY <1>1, <1>2, <1>4, <1>5 DEF bufferVars, Handed, FHanded
<1>6. ASSUME NEW well \in BOOLEAN,
             EnterCritical(well, "clear") \/ EnterCritical(well, "user") \/ AllocateMemory(well)
      PROVE  BuffersHold'
  BY <1>5, <1>6 DEF EnterCritical, AllocateMemory, Goto, Hand, Direct
<1>7. CASE InitThread \/ ParseFails \/ JobFailed \/ Teardown("clear") \/ Teardown("user") \/ Free
             \/ SyncJob \/ LastJob \/ ExitCritical \/ Clear \/ Launched
  <2>1. ~Hand /\ ~Direct
    BY <1>7 DEF InitThread, ParseFails, JobFailed, Teardown, Free, SyncJob, LastJob,
                ExitCritical, Clear, Launched, Hand, Direct
  <2>2. /\ UNCHANGED <<mb_y, bufferVars>>
        /\ at' \in {"mb", "starved", "sync", "hand", "direct"} => at \in {"mb", "starved", "sync", "hand", "direct"}
    BY <1>7 DEF InitThread, ParseFails, JobFailed, Teardown, Free, SyncJob, LastJob,
                ExitCritical, Clear, Launched, Goto
  <2> QED  BY <1>5, <2>1, <2>2
<1>8. CASE NextRow(L, "parse", "last") \/ NextRow(L, "parse", "exit")
  <2>1. ~Hand /\ ~Direct /\ at' \notin {"mb", "starved", "sync", "hand", "direct"}
        /\ UNCHANGED bufferVars
    BY <1>8 DEF NextRow, Goto, Hand, Direct
  <2> QED  BY <1>1, <1>2, <1>4, <2>1 DEF bufferVars, Handed, FHanded
<1>9. CASE ParseRow \/ (ParsesOn /\ Parsed(mb_y))
  <2>1. ~Hand /\ ~Direct /\ at # "direct" /\ UNCHANGED <<mb_y, mine, fmine>>
        /\ mb_data' = [mb_data EXCEPT ![mine] = mb_y]
        /\ f_info' = IF pic.filter > 0 THEN [f_info EXCEPT ![fmine] = mb_y] ELSE f_info
    BY <1>9 DEF ParseRow, ParsesOn, Parsed, Hand, Direct
  <2>2. mb_data'[mine] = mb_y /\ mb_data'[1 - mine] = mb_data[1 - mine]
    BY <1>3, <2>1
  <2>3. (pic.filter > 0 => f_info'[fmine] = mb_y) /\ f_info'[1 - fmine] = f_info[1 - fmine]
    BY <1>3, <2>1
  <2>4. ToRebuild => pic.mt = 2
    BY DEF ToRebuild
  <2>5. ToFilter => pic.mt > 0
    BY <1>1, <1>2, <2>1 DEF ToFilter, Pending, WhoFinishes, Coupled, RowCalls
  <2> QED  BY <1>1, <1>2, <1>4, <2>1, <2>2, <2>3, <2>4, <2>5 DEF Handed, FHanded
<1>10. CASE Hand
  <2>1. /\ at = "hand" /\ at' = "launched" /\ UNCHANGED <<mb_y, mb_data, f_info>>
        /\ mine' = IF Swaps THEN 1 - mine ELSE mine
        /\ fmine' = IF FSwaps THEN 1 - fmine ELSE fmine
        /\ ctx' = [id |-> cache_id, mb_y |-> mb_y, filter_row |-> FiltersRow]
        /\ pic.mt > 0
    BY <1>1, <1>10 DEF Hand, Goto, RowCalls
  <2>2. ToRebuild' => mb_data'[Handed'] = ctx'.mb_y
    <3>1. ToRebuild' => pic.mt = 2
      BY <1>2 DEF ToRebuild
    <3>2. pic.mt = 2 => Handed' = mine
      BY <1>2, <1>3, <2>1 DEF Handed, Swaps
    <3> QED  BY <1>1, <2>1, <3>1, <3>2
  <2>3. ctx'.filter_row => f_info'[FHanded'] = ctx'.mb_y
    <3>0. ctx'.filter_row = FiltersRow
      BY <2>1
    <3>1. ctx'.filter_row => FiltersRow /\ pic.filter > 0
      BY <3>0 DEF FiltersRow
    <3>2. FiltersRow => fmine' = 1 - fmine
      BY <2>1 DEF FSwaps
    <3>3. FiltersRow => FHanded' = fmine
      BY <1>2, <1>3, <2>1, <3>2 DEF FHanded
    <3> QED  BY <1>1, <2>1, <3>1, <3>3
  <2> QED  BY <2>1, <2>2, <2>3
<1>11. CASE Direct
  <2>1. /\ at = "direct" /\ UNCHANGED <<at, mb_y, bufferVars>>
        /\ ctx' = [id |-> 0, mb_y |-> mb_y, filter_row |-> FiltersRow]
        /\ pic.mt = 0
    BY <1>1, <1>11 DEF Direct, RowCalls
  <2>2. ~ToRebuild'
    BY <1>2, <2>1 DEF ToRebuild
  <2>3. ctx'.filter_row => f_info'[FHanded'] = ctx'.mb_y
    <3>0. ctx'.filter_row = FiltersRow
      BY <2>1
    <3>1. ctx'.filter_row => pic.filter > 0
      BY <3>0 DEF FiltersRow
    <3>2. FHanded' = fmine
      BY <1>2, <2>1 DEF FHanded, bufferVars
    <3> QED  BY <1>1, <2>1, <3>1, <3>2 DEF bufferVars
  <2> QED  BY <1>1, <1>2, <2>1, <2>2, <2>3 DEF bufferVars
<1>12. CASE Rebuild \/ FilterRow
  BY <1>5, <1>12 DEF Rebuild, FilterRow, Hand, Direct
<1>13. ASSUME NEW well \in BOOLEAN, Put(well) \/ AlphaFails
       PROVE  BuffersHold'
  <2>1. ~Hand /\ ~Direct
    BY <1>13 DEF Put, AlphaFails, Hand, Direct
  <2>2. /\ UNCHANGED <<mb_y, bufferVars>>
        /\ at' = at \/ at' \in {"next", "exit"}
    BY <1>1, <1>13 DEF Put, AlphaFails, FinishReturns, Goto, WhoFinishes
  <2> QED  BY <1>5, <2>1, <2>2
<1>14. CASE OfWorker \/ UNCHANGED rowsVars
  <2>1. UNCHANGED <<at, mb_y, ctx, rebuilt, bufferVars>>
    <3>1. CASE OfWorker
      BY <1>1, <3>1, OfWorkerDoes
    <3>2. CASE UNCHANGED rowsVars
      BY <3>2 DEF rowsVars, rowVars, finishVars
    <3> QED  BY <1>14, <3>1, <3>2
  <2>2. at = "direct" => finish' = finish
    BY <1>1, <1>14, OfWorkerDoes DEF RowCalls, Takes, Coupled, ThreadLocks, rowsVars,
       rowVars, finishVars
  <2>3. ~Hand /\ ~Direct
    BY <2>1, <2>2 DEF Hand, Direct, Goto
  <2> QED  BY <1>5, <2>1, <2>3
<1>15. CASE ParsesOn /\ RowHeld /\ UNCHANGED <<mb_data, f_info>>
  <2>1. ~Hand /\ ~Direct /\ UNCHANGED <<mb_y, bufferVars>>
    BY <1>15 DEF ParsesOn, Goto, Hand, Direct, bufferVars
  <2> QED  BY <1>1, <1>2, <1>4, <1>15, <2>1 DEF bufferVars, Handed, FHanded
<1>16. CASE Pauses \/ Starves
  <2>1. ~Hand /\ ~Direct
    BY <1>1, <1>16 DEF Pauses, Starves, Goto, Hand, Direct, Headers
  <2>2. /\ UNCHANGED <<mb_y, bufferVars>>
        /\ at' \in {"mb", "starved", "sync", "hand", "direct"} =>
             at \in {"mb", "starved", "sync", "hand", "direct"}
    BY <1>16 DEF Pauses, Starves, Goto, Headers
  <2> QED  BY <1>5, <2>1, <2>2
<1> QED
  BY <1>6, <1>7, <1>8, <1>9, <1>10, <1>11, <1>12, <1>13, <1>14,
     <1>15, <1>16, RowSteps DEF ParsesOn

-------------------------------------------------------------------------------
(* What becomes of the lines in the cache.                                 *)
LEMMA RowRebuilt ==
  ASSUME pic \in Pictures, pic' = pic, cache \in CacheType(pic), NEW m \in Nat,
         NEW i \in 0..(Caches(pic) - 1), NEW b,
         ctx'.id = i, ctx'.mb_y = m, mb_data[b] = m, rebuilt = m,
         ReconstructRow(b), HeldBack(m, 16 * i)
  PROVE  HeldBack(m, 16 * i)' /\ Own(m, 16 * i)'
<1>1. /\ Extra(pic.filter) \in 0..8 /\ Caches(pic) \in 1..3
  BY RowLimits
<1>2. DOMAIN cache = Lines(pic)
  BY DEF CacheType
<1>3. \A l \in Lines(pic) :
        cache'[l] = IF l \in (16 * i)..(16 * i + 15)
                    THEN Line(16 * m + l - 16 * i, 0, TRUE) ELSE cache[l]
  <2>1. (mb_data[b] = m /\ rebuilt = m) = TRUE
    OBVIOUS
  <2> QED  BY <1>2, <2>1 DEF ReconstructRow, WithRow
<1>4. \A l \in (16 * i - Extra(pic.filter))..(16 * i + 15) : l \in Lines(pic)
  BY LinesThere
<1>5. Own(m, 16 * i)'
  <2>1. \A l \in (16 * i)..(16 * i + 15) :
          l \in (16 * i - Extra(pic.filter))..(16 * i + 15)
    BY <1>1
  <2> QED  BY <1>3, <1>4, <2>1 DEF Own, Holds
<1>6. HeldBack(m, 16 * i)'
  <2>1. \A l \in (16 * i - Extra(pic.filter))..(16 * i - 1) :
          /\ l \in (16 * i - Extra(pic.filter))..(16 * i + 15)
          /\ l \notin (16 * i)..(16 * i + 15)
    BY <1>1
  <2> QED  BY <1>3, <1>4, <2>1 DEF HeldBack, Holds
<1> QED  BY <1>5, <1>6

(* The fields of a line that is right.                                     *)
LEMMA Held ==
  ASSUME NEW y, NEW n, NEW l, Holds(l, y, n)
  PROVE  cache[l].y = y /\ cache[l].n = n /\ cache[l].right
  BY DEF Holds, Line

(* The filter finds its row and the lines held back, and leaves both final.*)
LEMMA RowFiltered ==
  ASSUME pic \in Pictures, pic' = pic, cache \in CacheType(pic), NEW m \in Nat,
         NEW i \in 0..(Caches(pic) - 1), ctx.id = i, ctx.mb_y = m,
         ctx.filter_row <=> pic.filter > 0 /\ m >= TlRow(pic),
         ctx.filter_row => f_info[FHanded] = m,
         cache' = IF ctx.filter_row THEN Filtered ELSE cache,
         HeldBack(m, 16 * i), Own(m, 16 * i)
  PROVE  AboveDone(m, 16 * i)' /\ OwnDone(m, 16 * i)'
<1>1. /\ pic.filter \in 0..2 /\ Caches(pic) \in 1..3
      /\ TlRow(pic) \in Nat /\ (pic.filter = 2 => TlRow(pic) = 0)
      /\ Extra(pic.filter) = IF pic.filter = 0 THEN 0 ELSE IF pic.filter = 1 THEN 2 ELSE 8
      /\ Reads(pic.filter) = Extra(pic.filter)
      /\ Writes(pic.filter) = IF pic.filter = 0 THEN 0 ELSE IF pic.filter = 1 THEN 1 ELSE 6
  BY RowLimits
<1>2. DOMAIN cache = Lines(pic)
  BY DEF CacheType
<1>3. CASE ~ctx.filter_row
  <2>1. cache' = cache /\ ~(pic.filter > 0 /\ m >= TlRow(pic))
    BY <1>3
  <2>2. OwnDone(m, 16 * i)'
    BY <1>1, <2>1 DEF OwnDone, Own, Holds
  <2>3. AboveDone(m, 16 * i)'
    BY <1>1, <2>1 DEF AboveDone
  <2> QED  BY <2>2, <2>3
<1>4. CASE ctx.filter_row
  <2>1. /\ pic.filter > 0 /\ m >= TlRow(pic) /\ cache' = Filtered
        /\ f_info[FHanded] = m
    BY <1>4
  <2>2. PICK base \in Nat : base = 16 * i
    BY <1>1
  <2>3. PICK e \in Nat, w \in Nat :
             /\ e = Extra(pic.filter) /\ w = Writes(pic.filter) /\ 0 < w /\ w < e
             /\ e <= 8 /\ Reads(pic.filter) = e
    <3>1. CASE pic.filter = 1
      BY <1>1, <3>1
    <3>2. CASE pic.filter = 2
      BY <1>1, <3>2
    <3> QED  BY <1>1, <2>1, <3>1, <3>2
  <2> DEFINE own == base..(base + 15)
             above == IF m = 0 THEN {} ELSE (base - e)..(base - 1)
             edge == IF m = 0 THEN {} ELSE (base - w)..(base - 1)
             Is(l, n) == cache[l].y = 16 * m + l - base /\ cache[l].right
                           /\ cache[l].n = n
             OwnRight == f_info[FHanded] = m /\ \A l \in own : Is(l, 0)
             AboveRight == \A l \in above : Is(l, 1)
             Depends(l) == pic.filter = 2 \/ l <= base
  <2>4. \A l \in Lines(pic) : cache'[l] =
          IF l \in own \cup edge
          THEN Line(cache[l].y, Clip(cache[l].n + 1, 2),
                    OwnRight /\ (l \in own \/ cache[l].right)
                      /\ (Depends(l) => AboveRight))
          ELSE cache[l]
    BY <1>2, <2>1, <2>2, <2>3 DEF Filtered
  <2>5. \A l \in (base - e)..(base + 15) : l \in Lines(pic)
    BY <2>2, <2>3, LinesThere
  <2>6. \A l \in own : Holds(l, 16 * m + l - base, 0)
    BY <2>2 DEF Own
  <2>7. OwnRight
    <3>1. ASSUME NEW l \in own PROVE Is(l, 0)
      <4>1. PICK y \in Int : y = 16 * m + l - base
        BY <2>2
      <4>2. Holds(l, y, 0)
        BY <2>6, <4>1
      <4> QED  BY <4>1, <4>2, Held
    <3> QED  BY <2>1, <3>1
  <2>8. m - 1 >= TlRow(pic) =>
          \A l \in (base - e)..(base - 1) : Holds(l, 16 * m + l - base, 1)
    BY <2>1, <2>2, <2>3 DEF HeldBack
  <2>9. m = 0 \/ m > TlRow(pic) => AboveRight
    <3>1. ASSUME m - 1 >= TlRow(pic), NEW l \in (base - e)..(base - 1)
          PROVE  Is(l, 1)
      <4>1. PICK y \in Int : y = 16 * m + l - base
        BY <2>2, <2>3
      <4>2. Holds(l, y, 1)
        BY <2>8, <3>1, <4>1
      <4> QED  BY <4>1, <4>2, Held
    <3>2. m = 0 => AboveRight
      OBVIOUS
    <3>3. m > TlRow(pic) => m - 1 >= TlRow(pic) /\ m # 0
      BY <1>1
    <3> QED  BY <3>1, <3>2, <3>3
  <2>10. \A l \in own : l > base \/ m = 0 \/ m > TlRow(pic) => (Depends(l) => AboveRight)
    BY <1>1, <2>1, <2>2, <2>9
  <2> HIDE DEF OwnRight, AboveRight, Depends
  <2>11. \A l \in own : l > base \/ m = 0 \/ m > TlRow(pic) =>
                          Holds(l, 16 * m + l - base, 1)'
    <3> SUFFICES ASSUME NEW l \in own, l > base \/ m = 0 \/ m > TlRow(pic)
                 PROVE  Holds(l, 16 * m + l - base, 1)'
      OBVIOUS
    <3>1. l \in (base - e)..(base + 15)
      BY <2>2, <2>3
    <3>2. l \in Lines(pic)
      BY <2>5, <3>1
    <3>3. (OwnRight /\ (l \in own \/ cache[l].right) /\ (Depends(l) => AboveRight)) = TRUE
      BY <2>7, <2>10
    <3>4. cache'[l] = Line(cache[l].y, Clip(cache[l].n + 1, 2), TRUE)
      BY <2>4, <3>2, <3>3
    <3>5. PICK y \in Int : y = 16 * m + l - base
      BY <2>2
    <3>6. cache[l].y = y /\ cache[l].n = 0
      <4>1. Holds(l, y, 0)
        BY <2>6, <3>5
      <4> QED  BY <4>1, Held
    <3>7. Clip(cache[l].n + 1, 2) = 1
      BY <3>6 DEF Clip
    <3>8. cache'[l] = Line(y, 1, TRUE)
      BY <3>4, <3>6, <3>7
    <3>9. Holds(l, y, 1)'
      BY <3>8 DEF Holds
    <3> QED  BY <3>5, <3>9
  <2>12. m - 1 >= TlRow(pic) =>
           \A l \in (base - e)..(base - 1) :
             Holds(l, 16 * m + l - base, IF l >= base - w THEN 2 ELSE 1)'
    <3> SUFFICES ASSUME m - 1 >= TlRow(pic), NEW l \in (base - e)..(base - 1)
                 PROVE  Holds(l, 16 * m + l - base,
                              IF l >= base - w THEN 2 ELSE 1)'
      OBVIOUS
    <3>1. l \in (base - e)..(base + 15) /\ l \notin own /\ l < base
      BY <2>2, <2>3
    <3>2. l \in Lines(pic)
      BY <2>5, <3>1
    <3>3. PICK y \in Int : y = 16 * m + l - base
      BY <2>2, <2>3
    <3>6. Holds(l, y, 1)
      BY <2>8, <3>3
    <3>7. cache[l].y = y /\ cache[l].n = 1 /\ cache[l].right
      BY <3>6, Held
    <3>4. CASE l >= base - w
      <4>1. l \in edge
        BY <1>1, <2>2, <2>3, <3>4
      <4>2. AboveRight
        BY <1>1, <2>9
      <4>3. (OwnRight /\ (l \in own \/ cache[l].right) /\ (Depends(l) => AboveRight)) = TRUE
        BY <2>7, <3>7, <4>2
      <4>4. cache'[l] = Line(cache[l].y, Clip(cache[l].n + 1, 2), TRUE)
        BY <2>4, <3>2, <4>1, <4>3
      <4>5. Clip(cache[l].n + 1, 2) = 2
        BY <3>7 DEF Clip
      <4>6. cache'[l] = Line(y, 2, TRUE)
        BY <3>7, <4>4, <4>5
      <4>7. Holds(l, y, 2)'
        BY <4>6 DEF Holds
      <4> QED  BY <3>3, <3>4, <4>7
    <3>5. CASE ~(l >= base - w)
      <4>1. l \notin own \cup edge
        BY <2>2, <2>3, <3>1, <3>5
      <4>2. cache'[l] = cache[l]
        BY <2>4, <3>2, <4>1
      <4>3. Holds(l, y, 1)'
        BY <3>6, <4>2 DEF Holds
      <4> QED  BY <3>3, <3>5, <4>3
    <3> QED  BY <3>4, <3>5
  <2>13. OwnDone(m, 16 * i)'
    <3>1. \A l \in (16 * i)..(16 * i + 15) :
            l > 16 * i \/ m = 0 \/ m > TlRow(pic) =>
              Holds(l, 16 * m + l - 16 * i, 1)'
      BY <2>2, <2>11
    <3> QED  BY <2>1, <3>1 DEF OwnDone
  <2>14. AboveDone(m, 16 * i)'
    BY <1>1, <2>2, <2>3, <2>12 DEF AboveDone
  <2> QED  BY <2>13, <2>14
<1> QED  BY <1>3, <1>4

(* A line's row and its place there.                                       *)
LEMMA InRow ==
  ASSUME NEW k \in Nat, NEW y \in Int, 16 * k <= y, y < 16 * k + 16
  PROVE  y \div 16 = k /\ y % 16 = y - 16 * k
<1>1. PICK d \in Int, r \in Int : d = y \div 16 /\ r = y % 16
  OBVIOUS
<1>2. y = 16 * d + r /\ 0 <= r /\ r < 16
  BY <1>1
<1>3. d = k
  BY <1>2
<1> QED  BY <1>1, <1>2, <1>3

(* What is put of row m, in cache i, is final.                             *)
LEMMA RowFinal ==
  ASSUME pic \in Pictures, NEW m \in Nat, NEW i \in 0..2, m < BrRow(pic),
         ctx.mb_y = m, ctx.id = i, AboveDone(m, 16 * i), OwnDone(m, 16 * i),
         NEW y \in YStart..(YEnd - 1)
  PROVE  Final(y)
<1>1. /\ pic.filter \in 0..2 /\ pic.mb_h \in Nat \ {0}
      /\ pic.top \in Nat /\ pic.bottom \in Nat
      /\ TlRow(pic) \in Nat /\ BrRow(pic) \in Nat /\ BrRow(pic) <= pic.mb_h
      /\ pic.filter = 2 => TlRow(pic) = 0
      /\ pic.filter = 1 /\ TlRow(pic) > 0 => 16 * TlRow(pic) + 2 <= pic.top
      /\ BrRow(pic) < pic.mb_h => pic.bottom + Extra(pic.filter) <= 16 * BrRow(pic)
  BY RowLimits
<1>2. PICK e \in Nat, w \in Nat :
        /\ e = Extra(pic.filter) /\ w = Writes(pic.filter)
        /\ pic.filter = 0 => e = 0
        /\ pic.filter > 0 => 0 < w /\ w < e /\ e <= 8
  BY RowLimits
<1>3. PICK t \in Nat, br \in Nat, h \in Nat, top \in Nat, bottom \in Nat :
        /\ t = TlRow(pic) /\ br = BrRow(pic) /\ h = pic.mb_h
        /\ top = pic.top /\ bottom = pic.bottom
  BY <1>1
<1>4. /\ top <= YStart /\ YStart \in Nat /\ YEnd \in Nat
      /\ m > 0 => 16 * m - e <= YStart
      /\ YEnd <= bottom
      /\ m + 1 = br => YEnd <= 16 * (m + 1)
      /\ m + 1 # br => YEnd = 16 * (m + 1) - e
  BY <1>1, <1>2, <1>3, Region
<1>5. /\ y \in Nat /\ top <= y /\ y < bottom
      /\ m > 0 => 16 * m - e <= y
      /\ y < 16 * (m + 1)
      /\ m + 1 # br => y < 16 * (m + 1) - e
  BY <1>2, <1>3, <1>4
<1>6. PICK l \in Int : \E n : l = 16 * i + y - 16 * m /\ n = Passes(y)
  OBVIOUS
<1>6a. PICK n : l = 16 * i + y - 16 * m /\ n = Passes(y)
  BY <1>6
<1>7. 16 * m + l - 16 * i = y
  BY <1>5, <1>6a
<1>8. SUFFICES Holds(l, y, n)
  BY <1>6a DEF Final, Holds
<1>9. CASE pic.filter = 0
  <2>1. l \in (16 * i)..(16 * i + 15)
    <3>1. 16 * m <= y
      BY <1>2, <1>5, <1>9
    <3> QED  BY <1>5, <1>6a, <3>1
  <2>2. Holds(l, y, 0)
    BY <1>7, <1>9, <2>1 DEF OwnDone, Own
  <2>3. n = 0
    <3>1. Writes(pic.filter) = 0 /\ y % 16 < 16
      BY <1>5, <1>9 DEF Writes
    <3> QED  BY <1>5, <1>6a, <1>9, <3>1 DEF Passes
  <2> QED  BY <2>2, <2>3
<1>10. CASE pic.filter > 0 /\ y >= 16 * m
  <2>1. l \in (16 * i)..(16 * i + 15)
    BY <1>5, <1>6a, <1>10
  <2>2. pic.filter = 1 \/ t = 0
    BY <1>1, <1>3, <1>10
  <2>3. m >= t
    <3>1. CASE t = 0
      BY <3>1
    <3>2. CASE t > 0
      <4>1. 16 * t + 2 <= top
        BY <1>1, <1>3, <2>2, <3>2
      <4> QED  BY <1>5, <4>1
    <3> QED  BY <3>1, <3>2
  <2>4. l > 16 * i \/ m = 0 \/ m > t
    <3>1. CASE t > 0 /\ m = t
      <4>1. 16 * t + 2 <= top
        BY <1>1, <1>3, <2>2, <3>1
      <4> QED  BY <1>5, <1>6a, <3>1, <4>1
    <3> QED  BY <2>3, <3>1
  <2>5. Holds(l, y, 1)
    BY <1>3, <1>7, <1>10, <2>1, <2>3, <2>4 DEF OwnDone
  <2>6. y \div 16 = m /\ y % 16 = y - 16 * m
    BY <1>5, <1>10, InRow
  <2>7. ~(y % 16 >= 16 - w /\ y \div 16 + 1 < h)
    <3>1. CASE m + 1 # br
      BY <1>2, <1>5, <1>10, <2>6, <3>1
    <3>2. CASE m + 1 = br
      <4>1. SUFFICES ASSUME br < h PROVE y % 16 < 16 - w
        BY <2>6, <3>2
      <4>2. bottom + e <= 16 * br
        BY <1>1, <1>2, <1>3, <4>1
      <4> QED  BY <1>2, <1>5, <1>10, <2>6, <3>2, <4>2
    <3> QED  BY <3>1, <3>2
  <2>8. n = 1
    BY <1>1, <1>2, <1>3, <1>6a, <1>10, <2>7 DEF Passes
  <2> QED  BY <2>5, <2>8
<1>11. CASE pic.filter > 0 /\ y < 16 * m
  <2>1. m > 0
    BY <1>5, <1>11
  <2>2. l \in (16 * i - e)..(16 * i - 1)
    BY <1>5, <1>6a, <1>11, <2>1
  <2>3. pic.filter = 1 \/ t = 0
    BY <1>1, <1>3, <1>11
  <2>4. m - 1 >= t
    <3>1. CASE t = 0
      BY <2>1, <3>1
    <3>2. CASE t > 0
      <4>1. 16 * t + 2 <= top
        BY <1>1, <1>3, <2>3, <3>2
      <4> QED  BY <1>5, <1>11, <4>1
    <3> QED  BY <3>1, <3>2
  <2>5. Holds(l, y, IF l >= 16 * i - w THEN 2 ELSE 1)
    BY <1>2, <1>3, <1>7, <1>11, <2>2, <2>4 DEF AboveDone
  <2>6. PICK k \in Nat : k = m - 1
    BY <2>1
  <2>7. y \div 16 = k /\ y % 16 = y - 16 * k
    <3>1. 16 * k <= y /\ y < 16 * k + 16
      BY <1>2, <1>5, <1>11, <2>1, <2>6
    <3> QED  BY <3>1, InRow, <1>5
  <2>8. k + 1 < h
    BY <1>1, <1>3, <2>6
  <2>9. y % 16 >= 16 - w <=> l >= 16 * i - w
    BY <1>5, <1>6a, <2>6, <2>7
  <2>10. n = IF l >= 16 * i - w THEN 2 ELSE 1
    BY <1>1, <1>2, <1>3, <1>6a, <1>11, <2>7, <2>8, <2>9 DEF Passes
  <2> QED  BY <2>5, <2>10
<1> QED  BY <1>1, <1>5, <1>9, <1>10, <1>11

(* What is held back of row m is where the next row will look for it.      *)
LEMMA RowHeldBack ==
  ASSUME pic \in Pictures, pic' = pic, ctx' = ctx, cache \in CacheType(pic),
         NEW m \in Nat, NEW i \in 0..(Caches(pic) - 1), m + 1 < BrRow(pic),
         ctx.mb_y = m, ctx.id = i, OwnDone(m, 16 * i),
         cache' = IF Rotates THEN Rotated ELSE cache
  PROVE  HeldBack(m + 1, 16 * NextId)'
<1>1. /\ Caches(pic) \in 1..3 /\ Extra(pic.filter) \in 0..8
      /\ BrRow(pic) \in Nat /\ TlRow(pic) \in Nat
  BY RowLimits
<1>2. PICK e \in Nat, c \in Nat : e = Extra(pic.filter) /\ c = Caches(pic) /\ e <= 8
  BY <1>1
<1>3. DOMAIN cache = Lines(pic)
  BY DEF CacheType
<1>4. ~IsLast
  BY <1>1 DEF IsLast
<1>5. PICK b \in Nat : b = 16 * NextId /\ 16 * NextId' = b
                         /\ b = IF i + 1 = c THEN 0 ELSE 16 * i + 16
  BY <1>1, <1>2 DEF NextId
<1> SUFFICES ASSUME pic.filter > 0, m >= TlRow(pic)
             PROVE  \A l \in (b - e)..(b - 1) :
                      cache'[l] = Line(16 * (m + 1) + l - b, 1, TRUE)
  <2>1. (m + 1) - 1 >= TlRow(pic') => m >= TlRow(pic)
    OBVIOUS
  <2>2. HeldBack(m + 1, 16 * NextId)' <=>
          (pic'.filter > 0 /\ (m + 1) - 1 >= TlRow(pic') =>
             \A l \in (16 * NextId' - Extra(pic'.filter))..(16 * NextId' - 1) :
               cache'[l] = Line(16 * (m + 1) + l - 16 * NextId', 1, TRUE))
    BY DEF HeldBack, Holds
  <2> QED  BY <1>2, <1>5, <2>1, <2>2
<1>6. SUFFICES ASSUME NEW l \in (b - e)..(b - 1)
               PROVE  cache'[l] = Line(16 * (m + 1) + l - b, 1, TRUE)
  OBVIOUS
<1>7. \A k \in (16 * i)..(16 * i + 15) :
        k > 16 * i => cache[k] = Line(16 * m + k - 16 * i, 1, TRUE)
  BY DEF OwnDone, Holds
<1>8. CASE i + 1 = c
  <2>1. Rotates
    BY <1>2, <1>4, <1>8 DEF Rotates
  <2>2. l \in Lines(pic) /\ l < 0
    BY <1>1, <1>2, <1>5, <1>8 DEF Lines
  <2>3. cache'[l] = cache[l + 16 * c]
    BY <1>2, <1>3, <2>1, <2>2 DEF Rotated
  <2>4. PICK k \in Int : k = l + 16 * c
    BY <1>5
  <2>5. k \in (16 * i)..(16 * i + 15) /\ k > 16 * i
    BY <1>2, <1>5, <1>8, <2>4
  <2>6. cache[k] = Line(16 * m + k - 16 * i, 1, TRUE)
    BY <1>7, <2>5
  <2>7. 16 * m + k - 16 * i = 16 * (m + 1) + l - b
    BY <1>5, <1>8, <2>4
  <2> QED  BY <2>3, <2>4, <2>6, <2>7
<1>9. CASE i + 1 # c
  <2>1. cache' = cache
    BY <1>2, <1>9 DEF Rotates
  <2>2. l \in (16 * i)..(16 * i + 15) /\ l > 16 * i
    BY <1>2, <1>5, <1>9
  <2>3. cache[l] = Line(16 * m + l - 16 * i, 1, TRUE)
    BY <1>7, <2>2
  <2>4. 16 * m + l - 16 * i = 16 * (m + 1) + l - b
    BY <1>5, <1>9
  <2> QED  BY <2>1, <2>3, <2>4
<1> QED  BY <1>8, <1>9

(* The cache holds what the next step will need.                           *)
LEMMA NextCache ==
  ASSUME NEW L \in Nat, RowsInv(L), [AnyRows(L)]_rowsVars
  PROVE  CacheHolds'
<1>1. /\ CacheHolds /\ RowNumbers(L) /\ BuffersHold
      /\ pic \in Pictures /\ pic' = pic /\ cache \in CacheType(pic)
      /\ Started \in Nat /\ rebuilt \in Nat /\ mb_y \in Nat
      /\ cache_id \in 0..(Caches(pic) - 1)
      /\ BrRow(pic) \in Nat \ {0} /\ Caches(pic) \in 1..3 /\ TlRow(pic) \in Nat
      /\ ctx.id \in 0..(Caches(pic) - 1) /\ ctx.mb_y \in Nat
  BY TheRow, PicStays, RowLimits DEF RowsInv, AnyTypeOK, RowDataOK
<1>2. CASE RowStays
  <2>1. /\ UNCHANGED <<pic, ctx, cache>> /\ NextId' = NextId
        /\ finish' = "put" <=> finish = "put"
        /\ Started' = Started
        /\ ToRebuild' \/ ToFilter' <=> ToRebuild \/ ToFilter
        /\ ToFilter' <=> ToFilter
    BY <1>2 DEF RowStays, NextId, Started
  <2>2. (InCrop(Started)' <=> InCrop(Started)) /\ (InCrop(ctx.mb_y)' <=> InCrop(ctx.mb_y))
    BY <2>1 DEF InCrop
  <2>3. ~Pending' /\ GoesOn' /\ 0 < Started' => ~Pending /\ GoesOn /\ 0 < Started
    BY <1>1, <1>2, <2>1 DEF RowStays
  <2>4. HeldBack(ctx.mb_y, 16 * ctx.id)' <=> HeldBack(ctx.mb_y, 16 * ctx.id)
    BY <2>1 DEF HeldBack, Holds
  <2>5. Own(ctx.mb_y, 16 * ctx.id)' <=> Own(ctx.mb_y, 16 * ctx.id)
    BY <2>1 DEF Own, Holds
  <2>6. AboveDone(ctx.mb_y, 16 * ctx.id)' <=> AboveDone(ctx.mb_y, 16 * ctx.id)
    BY <2>1 DEF AboveDone, Holds
  <2>7. OwnDone(ctx.mb_y, 16 * ctx.id)' <=> OwnDone(ctx.mb_y, 16 * ctx.id)
    BY <2>1 DEF OwnDone, Own, Holds
  <2>8. HeldBack(Started, 16 * NextId)' <=> HeldBack(Started, 16 * NextId)
    BY <2>1 DEF HeldBack, Holds
  <2> QED
    BY <1>1, <2>1, <2>2, <2>3, <2>4, <2>5, <2>6, <2>7, <2>8 DEF CacheHolds
<1>3. CASE Hand \/ Direct
  <2>1. /\ ~Pending /\ Pending' /\ GoesOn
        /\ ctx' = [id |-> cache_id, mb_y |-> mb_y, filter_row |-> FiltersRow]
        /\ Started = mb_y /\ mb_y < L
        /\ finish' # "put"
        /\ ToFilter' <=> ~ToRebuild'
        /\ IF ToRebuild' THEN UNCHANGED <<cache, rebuilt>>
           ELSE ReconstructRow(mine) /\ mb_data[mine] = mb_y
    BY <1>3, Turns
  <2>2. ctx'.id = cache_id /\ ctx'.mb_y = mb_y
    BY <2>1
  <2>3. at # "launched"
    BY <1>3 DEF Hand, Direct
  <2>7. CASE ~InCrop(mb_y)
    <3>1. ~InCrop(ctx.mb_y)'
      BY <1>1, <2>2, <2>7 DEF InCrop
    <3> QED  BY <2>1, <3>1 DEF CacheHolds
  <2>4. InCrop(mb_y) => HeldBack(mb_y, 16 * cache_id)
    <3>1. CASE mb_y = 0
      BY <1>1, <3>1 DEF HeldBack
    <3>2. CASE mb_y > 0
      <4>1. cache_id = NextId
        BY <1>1, <2>1, <2>3, <3>2 DEF RowNumbers
      <4> QED  BY <1>1, <2>1, <3>2, <4>1 DEF CacheHolds
    <3> QED  BY <1>1, <3>1, <3>2
  <2>5. CASE ToRebuild' /\ InCrop(mb_y)
    <3>1. HeldBack(ctx.mb_y, 16 * ctx.id)'
      BY <1>1, <2>1, <2>2, <2>4, <2>5 DEF HeldBack, Holds
    <3> QED  BY <2>1, <2>5, <3>1 DEF CacheHolds
  <2>6. CASE ~ToRebuild' /\ InCrop(mb_y)
    <3>1. rebuilt = mb_y
      BY <1>1, <2>1 DEF Started, ToRebuild
    <3>2. PICK i \in 0..(Caches(pic) - 1), m \in Nat : i = cache_id /\ m = mb_y
      BY <1>1
    <3>3. HeldBack(m, 16 * i)' /\ Own(m, 16 * i)'
      BY <1>1, <2>1, <2>2, <2>4, <2>6, <3>1, <3>2, RowRebuilt
    <3> QED  BY <2>1, <2>2, <2>6, <3>2, <3>3 DEF CacheHolds
  <2> QED  BY <2>5, <2>6, <2>7
<1>7. CASE (Rebuild \/ FilterRow) /\ ~InCrop(ctx.mb_y)
  <2>1. ~InCrop(ctx.mb_y)' /\ Pending'
    BY <1>1, <1>7, Turns DEF InCrop
  <2> QED  BY <2>1 DEF CacheHolds
<1>4. CASE Rebuild /\ InCrop(ctx.mb_y)
  <2>1. /\ ToRebuild /\ ~ToRebuild' /\ ToFilter' /\ Pending' /\ ctx' = ctx
        /\ finish' # "put" /\ Pending
    BY <1>4, Turns DEF ToRebuild
  <2>2. rebuilt = ctx.mb_y /\ mb_data[Handed] = ctx.mb_y
    BY <1>1, <2>1 DEF RowNumbers, Started, BuffersHold
  <2>3. ReconstructRow(Handed) /\ HeldBack(ctx.mb_y, 16 * ctx.id)
    BY <1>1, <1>4, <2>1 DEF Rebuild, CacheHolds
  <2>4. PICK i \in 0..(Caches(pic) - 1), m \in Nat : i = ctx.id /\ m = ctx.mb_y
    BY <1>1
  <2>5. HeldBack(m, 16 * i)' /\ Own(m, 16 * i)'
    BY <1>1, <2>1, <2>2, <2>3, <2>4, RowRebuilt
  <2> QED  BY <2>1, <2>4, <2>5 DEF CacheHolds
<1>5. CASE FilterRow /\ InCrop(ctx.mb_y)
  <2>1. /\ ToFilter /\ ~ToRebuild' /\ ~ToFilter' /\ Pending' /\ Pending
        /\ ctx' = ctx /\ finish' = "put"
    BY <1>5, Turns DEF ToFilter
  <2>2. /\ ctx.filter_row <=> pic.filter > 0 /\ ctx.mb_y >= TlRow(pic)
        /\ ctx.filter_row => f_info[FHanded] = ctx.mb_y
        /\ HeldBack(ctx.mb_y, 16 * ctx.id) /\ Own(ctx.mb_y, 16 * ctx.id)
    BY <1>1, <1>5, <2>1 DEF RowNumbers, BuffersHold, CacheHolds
  <2>3. PICK i \in 0..(Caches(pic) - 1), m \in Nat : i = ctx.id /\ m = ctx.mb_y
    BY <1>1
  <2>4. cache' = IF ctx.filter_row THEN Filtered ELSE cache
    BY <1>5 DEF FilterRow
  <2>5. AboveDone(m, 16 * i)' /\ OwnDone(m, 16 * i)'
    BY <1>1, <2>2, <2>3, <2>4, RowFiltered
  <2> QED  BY <2>1, <2>3, <2>5 DEF CacheHolds
<1>6. ASSUME NEW well \in BOOLEAN, Put(well) \/ AlphaFails
      PROVE  CacheHolds'
  <2>1. /\ Pending /\ ~Pending' /\ ctx' = ctx
        /\ ~ToRebuild' /\ ~ToFilter' /\ finish = "put" /\ finish' # "put"
        /\ GoesOn' => Put(well) \/ ~InCrop(ctx.mb_y)
    BY <1>6, Turns
  <2>2. ~(Hand \/ Direct)
    BY <1>6 DEF Put, AlphaFails, Hand, Direct
  <2>3. Started' = Started /\ Started > 0 /\ ctx.mb_y = Started - 1
    BY <1>1, <2>1, <2>2, StartedNext DEF RowNumbers
  <2>4. ASSUME GoesOn', Started < BrRow(pic)
        PROVE  HeldBack(Started, 16 * NextId)'
    <3>6. Put(well) /\ InCrop(ctx.mb_y)
      BY <1>1, <2>1, <2>3, <2>4 DEF InCrop
    <3>1. cache' = IF Rotates THEN Rotated ELSE cache
      BY <3>6 DEF Put
    <3>2. PICK i \in 0..(Caches(pic) - 1), m \in Nat : i = ctx.id /\ m = ctx.mb_y
      BY <1>1
    <3>3. OwnDone(m, 16 * i)
      BY <1>1, <2>1, <3>2, <3>6 DEF CacheHolds
    <3>4. m + 1 = Started /\ m + 1 = Started'
      BY <1>1, <2>3, <3>2
    <3>5. HeldBack(m + 1, 16 * NextId)'
      BY <1>1, <2>1, <2>4, <3>1, <3>2, <3>3, <3>4, RowHeldBack
    <3> QED  BY <3>4, <3>5
  <2> QED  BY <1>1, <2>1, <2>3, <2>4 DEF CacheHolds, InCrop
<1> QED  BY <1>2, <1>3, <1>4, <1>5, <1>6, <1>7, Stays

(* What put() got so far.                                                  *)
LEMMA NextOut ==
  ASSUME NEW L \in Nat, RowsInv(L), [AnyRows(L)]_rowsVars
  PROVE  OutHolds'
<1>1. /\ OutHolds /\ CacheHolds /\ RowNumbers(L) /\ pic' = pic
      /\ out \in Seq(PutType(pic)) /\ pic \in Pictures
  BY PicStays DEF RowsInv, AnyTypeOK, RowDataOK, PutType
<1>2. /\ Started \in Nat /\ mb_y \in Nat /\ ctx.mb_y \in Nat
      /\ BrRow(pic) \in Nat \ {0} /\ Caches(pic) \in 1..3
      /\ ctx.id \in 0..(Caches(pic) - 1)
      /\ Pending => ctx.mb_y < L
      /\ L <= pic.mb_h /\ pic.mb_h \in Nat
  BY TheRow
<1>3. CASE RowStays
  <2>1. /\ UNCHANGED <<pic, ctx, out>> /\ Started' = Started
        /\ Pending' <=> Pending /\ (GoesOn' => GoesOn \/ Started = 0)
    BY <1>3 DEF RowStays, Started
  <2>2. (InCrop(Started)' <=> InCrop(Started)) /\ (InCrop(ctx.mb_y)' <=> InCrop(ctx.mb_y))
        /\ InCrop(0)
    BY <1>2, <2>1 DEF InCrop
  <2>3. LinesInOrder' /\ LinesFinal' /\ (AllPut' <=> AllPut)
    BY <1>1, <2>1 DEF OutHolds, LinesInOrder, LinesFinal, AllPut
  <2>4. PutUpTo(ctx.mb_y)' <=> PutUpTo(ctx.mb_y)
    BY <2>1 DEF PutUpTo
  <2>5. PutUpTo(Started)' <=> PutUpTo(Started)
    BY <2>1 DEF PutUpTo
  <2>6. Started = 0 => PutUpTo(Started)
    BY <1>1 DEF OutHolds, PutUpTo
  <2> QED
    BY <1>1, <1>2, <1>3, <2>1, <2>2, <2>3, <2>4, <2>5, <2>6 DEF OutHolds, RowStays
<1>4. CASE Hand \/ Direct
  <2>1. /\ ~Pending /\ Pending' /\ GoesOn /\ out' = out
        /\ ctx' = [id |-> cache_id, mb_y |-> mb_y, filter_row |-> FiltersRow]
        /\ Started = mb_y /\ mb_y < L
    BY <1>4, Turns
  <2>2. ctx'.mb_y = Started /\ Started' = Started + 1
    BY <1>4, <2>1, StartedNext
  <2>3. LinesInOrder' /\ LinesFinal'
    BY <1>1, <2>1 DEF OutHolds, LinesInOrder, LinesFinal
  <2>4. IF InCrop(Started) THEN PutUpTo(Started) ELSE AllPut
    BY <1>1, <2>1 DEF OutHolds
  <2>5. PutUpTo(ctx.mb_y)' <=> PutUpTo(Started)
    BY <1>1, <2>1, <2>2 DEF PutUpTo
  <2>6. (InCrop(ctx.mb_y)' <=> InCrop(Started)) /\ (AllPut' <=> AllPut)
    BY <1>1, <2>1, <2>2 DEF InCrop, AllPut
  <2> QED  BY <1>2, <2>1, <2>2, <2>3, <2>4, <2>5, <2>6 DEF OutHolds
<1>5. CASE Rebuild \/ FilterRow
  <2>1. /\ Pending /\ Pending' /\ UNCHANGED <<pic, ctx, out>>
    BY <1>5, Turns DEF ToRebuild, ToFilter
  <2>2. ~(Hand \/ Direct)
    BY <1>5 DEF Rebuild, FilterRow, Hand, Direct
  <2>3. Started' = Started
    BY <2>2, StartedNext
  <2>4. LinesInOrder' /\ LinesFinal'
    BY <1>1, <2>1 DEF OutHolds, LinesInOrder, LinesFinal
  <2>5. /\ PutUpTo(ctx.mb_y)' <=> PutUpTo(ctx.mb_y)
        /\ InCrop(ctx.mb_y)' <=> InCrop(ctx.mb_y)
        /\ AllPut' <=> AllPut
    BY <2>1 DEF PutUpTo, InCrop, AllPut
  <2> QED  BY <1>1, <2>1, <2>3, <2>4, <2>5 DEF OutHolds
<1>6. ASSUME NEW well \in BOOLEAN, Put(well) \/ AlphaFails
      PROVE  OutHolds'
  <2>1. /\ Pending /\ ~Pending' /\ ctx' = ctx /\ finish = "put"
        /\ GoesOn' => Put(well) \/ ~InCrop(ctx.mb_y)
    BY <1>6, Turns
  <2>2. ~(Hand \/ Direct)
    BY <1>6 DEF Put, AlphaFails, Hand, Direct
  <2>3. Started' = Started /\ Started > 0 /\ ctx.mb_y = Started - 1
    BY <1>1, <2>1, <2>2, StartedNext DEF RowNumbers
  <2>6. InCrop(Started)' => InCrop(ctx.mb_y)
    BY <1>1, <1>2, <2>1, <2>3 DEF InCrop
  <2>7. CASE ~InCrop(ctx.mb_y)
    <3>1. out' = out
      <4>1. ctx.mb_y < pic.mb_h /\ ctx.mb_y >= BrRow(pic)
        BY <1>2, <2>1, <2>7 DEF InCrop
      <4>2. ~(YStart < YEnd)
        BY <1>1, <1>2, <4>1, Beyond
      <4> QED  BY <1>6, <4>2 DEF AlphaFails, Put
    <3>2. LinesInOrder' /\ LinesFinal' /\ (AllPut' <=> AllPut)
      BY <1>1, <3>1 DEF OutHolds, LinesInOrder, LinesFinal, AllPut
    <3> QED  BY <1>1, <1>2, <2>1, <2>3, <2>6, <2>7, <3>2 DEF OutHolds
  <2>4. CASE ~Put(well) /\ InCrop(ctx.mb_y)
    <3>1. out' = out
      BY <1>6, <2>4 DEF AlphaFails
    <3>2. LinesInOrder' /\ LinesFinal'
      BY <1>1, <3>1 DEF OutHolds, LinesInOrder, LinesFinal
    <3> QED  BY <2>1, <2>3, <2>4, <3>2 DEF OutHolds
  <2>5. CASE Put(well) /\ InCrop(ctx.mb_y)
    <3>1. PICK i \in 0..2, m \in Nat, br \in Nat, e \in Nat :
            /\ i = ctx.id /\ m = ctx.mb_y /\ br = BrRow(pic) /\ e = Extra(pic.filter)
            /\ m < br /\ m + 1 = Started /\ e <= 8
      <4>1. Extra(pic.filter) \in Nat /\ Extra(pic.filter) <= 8
        BY <1>1, RowLimits
      <4> QED  BY <1>2, <2>1, <2>3, <2>5, <4>1 DEF InCrop
    <3>2. AboveDone(m, 16 * i) /\ OwnDone(m, 16 * i)
      BY <1>1, <2>1, <2>5, <3>1 DEF CacheHolds
    <3>3. \A y \in YStart..(YEnd - 1) : Final(y)
      BY <1>1, <3>1, <3>2, RowFinal
    <3>4. PutUpTo(m)
      BY <1>1, <2>1, <2>5, <3>1 DEF OutHolds
    <3>5. PICK from \in Nat, to \in Nat, top \in Nat, bottom \in Nat :
            /\ from = YStart /\ to = YEnd /\ top = pic.top /\ bottom = pic.bottom
            /\ top <= from
            /\ from = IF m = 0 \/ 16 * m - e < top THEN top ELSE 16 * m - e
            /\ to = IF m + 1 = br THEN bottom ELSE 16 * (m + 1) - e
            /\ m + 1 = br => from < to
      BY <1>1, <3>1, Region, RowLimits
    <3> DEFINE r == [from |-> from, to |-> to, right |-> TRUE]
    <3>6. out' = IF from < to THEN Append(out, r) ELSE out
      <4>1. (\A y \in YStart..(YEnd - 1) : Final(y)) = TRUE
        BY <3>3
      <4> QED  BY <2>5, <3>5, <4>1 DEF Put
    <3>7. LinesInOrder' /\ LinesFinal' /\ (m + 1 < br => PutUpTo(m + 1)')
          /\ (m + 1 = br => AllPut')
      <4>1. CASE ~(from < to)
        <5>1. out' = out /\ m + 1 # br
          BY <3>5, <3>6, <4>1
        <5>2. LinesInOrder' /\ LinesFinal'
          BY <1>1, <5>1 DEF OutHolds, LinesInOrder, LinesFinal
        <5>3. 16 * (m + 1) - e <= from
          BY <3>5, <4>1, <5>1
        <5>4. out = <<>> /\ from = top
          <6>1. out # <<>> => m > 0 /\ top <= 16 * m - e
            BY <3>1, <3>4, <3>5 DEF PutUpTo
          <6>2. out = <<>>
            <7>1. m > 0 /\ top <= 16 * m - e => from = 16 * m - e
              BY <3>5
            <7>2. 16 * m - e < 16 * (m + 1) - e
              BY <3>1
            <7> QED  BY <3>5, <5>3, <6>1, <7>1, <7>2
          <6>3. m = 0 \/ 16 * m - e <= top
            BY <3>1, <3>4, <3>5, <6>2 DEF PutUpTo
          <6> QED  BY <3>5, <6>2, <6>3
        <5>5. PutUpTo(m + 1)'
          BY <1>1, <3>1, <3>5, <5>1, <5>3, <5>4 DEF PutUpTo
        <5> QED  BY <5>1, <5>2, <5>5
      <4>2. CASE from < to
        <5>1. out' = Append(out, r)
          BY <3>6, <4>2
        <5>2. PICK n \in Nat : n = Len(out)
          BY <1>1
        <5> HIDE DEF r
        <5>3. /\ out' # <<>> /\ Len(out') = n + 1 /\ DOMAIN out' = 1..(n + 1)
              /\ out'[n + 1] = r /\ DOMAIN out = 1..n
              /\ \A j \in 1..n : out'[j] = out[j]
              /\ out = <<>> <=> n = 0
          BY <1>1, <5>1, <5>2
        <5>4. r.from = from /\ r.to = to /\ r.right
          BY DEF r
        <5>5. LinesFinal'
          <6>1. SUFFICES ASSUME NEW j \in 1..(n + 1) PROVE out'[j].right
            BY <5>3 DEF LinesFinal
          <6>2. CASE j = n + 1
            BY <5>3, <5>4, <6>2
          <6>3. CASE j # n + 1
            <7>1. j \in 1..n
              BY <6>3
            <7> QED  BY <1>1, <5>3, <7>1 DEF OutHolds, LinesFinal
          <6> QED  BY <6>2, <6>3
        <5>6. from = IF n = 0 THEN top ELSE out[n].to
          <6>1. CASE n = 0
            <7>1. m = 0 \/ 16 * m - e <= top
              BY <3>1, <3>4, <3>5, <5>3, <6>1 DEF PutUpTo
            <7> QED  BY <3>5, <6>1, <7>1
          <6>2. CASE n # 0
            <7>1. m > 0 /\ top <= 16 * m - e /\ out[n].to = 16 * m - e
              BY <3>1, <3>4, <3>5, <5>2, <5>3, <6>2 DEF PutUpTo
            <7> QED  BY <3>5, <6>2, <7>1
          <6> QED  BY <6>1, <6>2
        <5>7. LinesInOrder'
          <6>1. SUFFICES ASSUME NEW j \in 1..(n + 1)
                         PROVE  out'[j].from = IF j = 1 THEN top ELSE out'[j - 1].to
            BY <1>1, <3>5, <5>3 DEF LinesInOrder
          <6>2. CASE j = n + 1
            <7>1. n # 0 => out'[n] = out[n]
              BY <5>3
            <7> QED  BY <5>3, <5>4, <5>6, <6>2, <7>1
          <6>3. CASE j # n + 1
            <7>1. j \in 1..n /\ (j # 1 => j - 1 \in 1..n)
              BY <6>3
            <7>2. out[j].from = IF j = 1 THEN top ELSE out[j - 1].to
              BY <1>1, <3>5, <5>3, <7>1 DEF OutHolds, LinesInOrder
            <7> QED  BY <5>3, <7>1, <7>2
          <6> QED  BY <6>2, <6>3
        <5>8. out'[Len(out')].to = to
          BY <5>3, <5>4
        <5>9. m + 1 < br => PutUpTo(m + 1)'
          <6>1. SUFFICES ASSUME m + 1 < br PROVE PutUpTo(m + 1)'
            OBVIOUS
          <6>2. to = 16 * (m + 1) - e /\ top <= to
            BY <3>1, <3>5, <4>2, <6>1
          <6>3. m + 1 > 0 /\ Extra(pic'.filter) = e /\ pic'.top = top
            BY <1>1, <3>1, <3>5
          <6> QED  BY <5>3, <5>8, <6>2, <6>3 DEF PutUpTo
        <5>10. m + 1 = br => AllPut'
          BY <1>1, <3>5, <5>3, <5>8 DEF AllPut
        <5> QED  BY <5>5, <5>7, <5>9, <5>10
      <4> QED  BY <4>1, <4>2
    <3>8. PutUpTo(Started)' <=> PutUpTo(m + 1)'
      BY <2>3, <3>1 DEF PutUpTo
    <3>9. (InCrop(Started)' <=> m + 1 < br) /\ (m + 1 < br \/ m + 1 = br)
      BY <1>1, <2>3, <3>1 DEF InCrop
    <3> QED  BY <1>1, <2>1, <2>3, <3>1, <3>7, <3>8, <3>9 DEF OutHolds
  <2> QED  BY <2>4, <2>5, <2>7
<1> QED  BY <1>3, <1>4, <1>5, <1>6, Stays

(* Whoever decodes, a picture that is not begun has the types.             *)
LEMMA RowFields == ASSUME NEW a, RowsStart(a) PROVE RowDataOK
<1>1. /\ pic \in Pictures /\ at = a /\ mb_y = 0 /\ cache_id = 0
      /\ mb_data = [b \in 0..1 |-> -1] /\ f_info = [b \in 0..1 |-> -1]
      /\ mine = 0 /\ fmine = 0
      /\ ctx = [id |-> 0, mb_y |-> 0, filter_row |-> FALSE]
      /\ finish = "no" /\ rebuilt = 0
      /\ cache = [l \in Lines(pic) |-> Line(-1, 0, FALSE)]
      /\ setup = FALSE /\ out = <<>>
  BY DEF RowsStart
<1>2. pic.mb_h \in Nat \ {0} /\ Caches(pic) \in 1..3 /\ pic.bottom \in Nat
  BY <1>1, RowLimits
<1>3. cache \in [Lines(pic) -> [y : -1..(16 * pic.mb_h), n : 0..2, right : BOOLEAN]]
  <2>1. PICK h \in Nat : h = 16 * pic.mb_h
    BY <1>2
  <2>2. Line(-1, 0, FALSE) \in [y : -1..h, n : 0..2, right : BOOLEAN]
    BY <2>1 DEF Line
  <2> QED  BY <1>1, <2>1, <2>2
<1>4. ctx \in [id : 0..(Caches(pic) - 1), mb_y : 0..pic.mb_h, filter_row : BOOLEAN]
  BY <1>1, <1>2
<1>5. mb_data \in [0..1 -> -1..pic.mb_h] /\ f_info \in [0..1 -> -1..pic.mb_h]
  BY <1>1, <1>2
<1>6. out \in Seq([from : 0..pic.bottom, to : 0..pic.bottom, right : BOOLEAN])
  BY <1>1
<1>7. /\ mb_y \in 0..pic.mb_h /\ cache_id \in 0..(Caches(pic) - 1)
      /\ rebuilt \in 0..pic.mb_h /\ mine \in 0..1 /\ fmine \in 0..1
  BY <1>1, <1>2
<1>8. setup \in BOOLEAN /\ finish \in {"no", "rebuild", "filter", "put"}
  BY <1>1
<1> QED  BY <1>1, <1>3, <1>4, <1>5, <1>6, <1>7, <1>8 DEF RowDataOK

(* Nothing is decoded yet.                                                 *)
LEMMA StartRows ==
  ASSUME WorkerInit, NEW a \in {"setup", "user"}, RowsStart(a),
         NEW L \in Nat, BrRow(pic) <= L, L <= pic.mb_h
  PROVE  RowsInv(L)
<1>1. IInv
  BY InitIInv
<1>2. /\ pic \in Pictures /\ at = a /\ mb_y = 0 /\ cache_id = 0
      /\ mb_data = [b \in 0..1 |-> -1] /\ f_info = [b \in 0..1 |-> -1]
      /\ mine = 0 /\ fmine = 0
      /\ ctx = [id |-> 0, mb_y |-> 0, filter_row |-> FALSE]
      /\ finish = "no" /\ rebuilt = 0
      /\ cache = [l \in Lines(pic) |-> Line(-1, 0, FALSE)]
      /\ setup = FALSE /\ out = <<>>
  BY DEF RowsStart
<1>3. impl = FALSE /\ status = "NOT_OK" /\ main = "out" /\ thread = "none"
  BY DEF WorkerInit
<1>4. /\ pic.mb_h \in Nat \ {0} /\ Caches(pic) \in 1..3
      /\ BrRow(pic) \in Nat \ {0} /\ pic.bottom \in Nat
  BY <1>2, RowLimits
<1>5. AnyTypeOK
  BY <1>2, RowFields DEF AnyTypeOK, Before
<1>6. ~Pending /\ Started = 0
  BY <1>2, <1>3 DEF Pending, ToRebuild, Started
<1>7. ~ToRebuild /\ ~ToFilter
  BY <1>6 DEF ToRebuild, ToFilter
<1>8. RowCalls /\ SetupOpen /\ NoJob /\ WhoFinishes
  BY <1>2, <1>3 DEF RowCalls, SetupOpen, NoJob, WhoFinishes, Decoding, Before, Headers,
                    Halted
<1>9. RowNumbers(L)
  BY <1>2, <1>4, <1>6 DEF RowNumbers, Before, Headers, Decoding, Halted
<1>10. BuffersHold /\ CacheHolds
  BY <1>2, <1>6, <1>7 DEF BuffersHold, CacheHolds
<1>11. OutHolds
  BY <1>2, <1>4, <1>6 DEF OutHolds, LinesInOrder, LinesFinal, PutUpTo, InCrop
<1> QED  BY <1>1, <1>5, <1>8, <1>9, <1>10, <1>11 DEF RowsInv

(* A step keeps the invariant.                                             *)
LEMMA RowsStep ==
  ASSUME NEW L \in Nat, RowsInv(L), [AnyRows(L)]_rowsVars
  PROVE  RowsInv(L)' /\ pic' = pic
<1>1. IInv
  BY DEF RowsInv
<1> QED
  BY <1>1, NextRowsWork, NextRowsType, NextRowCalls, NextSetupOpen, NextNoJob,
     NextWhoFinishes, NextRowNumbers, NextBuffers, NextCache, NextOut, PicStays
     DEF RowsInv

(* What has been put is right whoever decodes the rows.                    *)
LEMMA RowsAreSound ==
  ASSUME NEW L \in Nat, RowsInv(L)
  PROVE  /\ RowsSound
         /\ at \in {"user", "clear", "over", "off"} => status # "WORK" /\ finish = "no"
         /\ at = "teardown" /\ main = "out" /\ mb_y = L /\ ~had_error => AllPut
<1>1. /\ IInv /\ Coupled /\ RowCalls /\ SetupOpen /\ NoJob /\ WhoFinishes
      /\ RowNumbers(L) /\ OutHolds /\ AnyTypeOK /\ pic \in Pictures
  BY DEF RowsInv, IInv, AnyTypeOK, RowDataOK
<1>2. /\ pic.mt \in 0..2 /\ BrRow(pic) \in Nat /\ Started \in Nat /\ mb_y \in Nat
      /\ BrRow(pic) <= L
  BY <1>1, RowLimits, TheRow
<1>3. \/ at \in Before \cup {"user", "clear", "over", "off"}
      \/ at = "teardown" /\ main = "out"
      => finish = "no" /\ status # "WORK" /\ ~Pending
  BY <1>1, <1>2 DEF NoJob, WhoFinishes, Coupled, Pending, Before, Headers
<1>4. NoPutAfterTeardown /\ TeardownOnce
  BY <1>1, <1>3 DEF NoPutAfterTeardown, TeardownOnce, SetupOpen, AnyTypeOK, Before
<1>5. NothingLeftOver
  BY <1>1 DEF NothingLeftOver, SetupOpen, Decoding, RowCalls, Coupled
<1>6. ASSUME GoesOn, ~Pending, mb_y >= BrRow(pic)
      PROVE  AllPut
  BY <1>1, <1>2, <1>6 DEF OutHolds, RowNumbers, InCrop
<1>7. ~had_error /\ mb_y >= BrRow(pic) => GoesOn
  BY DEF GoesOn
<1>8. AllLinesPut
  BY <1>2, <1>3, <1>6, <1>7 DEF AllLinesPut
<1> QED  BY <1>1, <1>2, <1>3, <1>4, <1>5, <1>6, <1>7, <1>8 DEF RowsSound, OutHolds

-------------------------------------------------------------------------------
(* The decoder that has all data from the start: its rows are those of the *)
(* crop area, and it never stops between two of them.                      *)
Places == {"setup", "init", "alloc", "parse", "sync", "hand", "launched", "direct",
           "next", "last", "exit", "teardown", "clear", "over", "off"}
AllInv == RowsInv(BrRow(pic)) /\ at \in Places

LEMMA InitRows == WorkerInit /\ RowsInit => AllInv
<1> SUFFICES ASSUME WorkerInit, RowsInit PROVE AllInv
  OBVIOUS
<1>1. RowsStart("setup") /\ pic \in Pictures /\ at = "setup"
  BY DEF RowsInit, RowsStart
<1>2. PICK L \in Nat : L = BrRow(pic) /\ L <= pic.mb_h
  BY <1>1, RowLimits
<1> QED  BY <1>1, <1>2, StartRows DEF AllInv, Places

LEMMA NextAll == AllInv /\ [RowsNext]_rowsVars => AllInv'
<1> SUFFICES ASSUME AllInv, [RowsNext]_rowsVars PROVE AllInv'
  OBVIOUS
<1>1. pic \in Pictures /\ IInv /\ at \in Places
  BY DEF AllInv, RowsInv, AnyTypeOK, RowDataOK
<1>2. PICK L \in Nat : L = BrRow(pic)
  BY <1>1, RowLimits
<1>3. [AnyRows(L)]_rowsVars
  BY <1>2 DEF RowsNext, RowsGoOn, DecodeSteps, AnyRows
<1>4. RowsInv(L)' /\ pic' = pic
  BY <1>2, <1>3, RowsStep DEF AllInv
<1>5. RowsInv(BrRow(pic))'
  <2>1. BrRow(pic') = L
    BY <1>2, <1>4
  <2> QED  BY <1>4, <2>1 DEF RowsInv, RowNumbers
<1>6. at' \in Places
  <2>1. CASE OfWorker
    BY <1>1, <2>1, OfWorkerDoes
  <2>2. CASE UNCHANGED rowsVars
    BY <1>1, <2>2 DEF rowsVars, rowVars
  <2>3. CASE ~OfWorker /\ RowsNext
    BY <1>1, <2>3 DEF Places, OfWorker, RowsNext, RowsGoOn, DecodeSteps, ProcessSteps,
       FinishSteps, EnterCritical, AllocateMemory, Put, InitThread, ParseRow, ParseFails,
       Direct, SyncJob, JobFailed, Hand, Launched, NextRow, LastJob, ExitCritical,
       Teardown, Clear, Free, Rebuild, FilterRow, AlphaFails, FinishReturns, Goto
  <2> QED  BY <2>1, <2>2, <2>3
<1> QED  BY <1>5, <1>6 DEF AllInv

LEMMA AllSays == AllInv => RowsTypeOK /\ RowsSound
<1> SUFFICES ASSUME AllInv PROVE RowsTypeOK /\ RowsSound
  OBVIOUS
<1>1. RowsTypeOK /\ pic \in Pictures
  BY DEF AllInv, RowsInv, AnyTypeOK, RowsTypeOK, RowDataOK, Places
<1>2. PICK L \in Nat : L = BrRow(pic)
  BY <1>1, RowLimits
<1> QED  BY <1>1, <1>2, RowsAreSound DEF AllInv

LEMMA RowsInvariance == RowsSpec => []AllInv
  BY InitRows, NextAll, PTL DEF RowsSpec, rowsVars

(* Every field and local of the row decoder has its type: the rows counted *)
(* are those of the picture, main's and the worker's, and the cache in turn*)
(* is one of them (frame_dec.c:506-540).                                   *)
THEOREM RowsTypeCorrect == RowsSpec => []RowsTypeOK
  BY AllSays, RowsInvariance, PTL

(* put() gets each line of the crop area once, in order, with the samples  *)
(* that decoding in one thread gives it, and only between setup() and      *)
(* teardown(), for pictures of any height, cropped anywhere, with either   *)
(* filter and any of the three ways to use the worker's thread             *)
(* (frame_dec.c:433-482, 523, 551, 608; thread_utils.c:220).               *)
THEOREM RowsCorrect == RowsSpec => []RowsSound
  BY AllSays, RowsInvariance, PTL
===============================================================================
