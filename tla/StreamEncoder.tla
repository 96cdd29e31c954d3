---------------------------- MODULE StreamEncoder -----------------------------
(***************************************************************************)
(* The lossless encoder's main stream (VP8LEncodeStream in vp8l_enc.c): it *)
(* tries several configurations of transforms on the picture and keeps the *)
(* shortest stream.  With a thread_level a worker tries the second half of *)
(* them meanwhile, with an encoder and a bit writer of its own.            *)
(*                                                                         *)
(* What a configuration makes of the picture is a size; any of the steps   *)
(* may run out of memory or fail.  Code is 0 for VP8_ENC_OK.               *)
(***************************************************************************)
EXTENDS Worker, Sequences

CONSTANT Streams  \* bound: what is encoded, and how

ASSUME StreamsAssumption ==
  \A s \in Streams :
    /\ s.threads \in BOOLEAN         \* config->thread_level > 0
    /\ s.configs \in Nat \ {0}       \* crunch_configs_size
    /\ DOMAIN s.size = 1..s.configs  \* crunch_configs
    /\ \A c \in 1..s.configs : s.size[c] \in Nat

VARIABLES
  stream,     \* the picture and its parameters
  phase,      \* where VP8LEncodeStream is
  next,       \* idx of each EncodeStreamHook
  best,       \* what is in each one's bw_best: a configuration, 0 if none
  err,        \* params->err_ of each, and err itself
  winner,       \* what is in bw_main at the end
  encs,       \* the encoders that have memory: enc_main, enc_side
  bw_side,    \* "raw" until VP8LBitWriterInit, "open", "freed"
  troubles    \* history variable: the errors there have been

streamVars == <<stream, phase, next, best, err, winner, encs, bw_side, troubles>>
losslessVars == <<workerVars, streamVars>>

Sides == {"main", "side"}
Errors == 1..2
NoError == 0

(* num_crunch_configs_side and _main.                                      *)
SideConfigs(s) == IF s.threads THEN s.configs \div 2 ELSE 0
MainConfigs(s) == s.configs - SideConfigs(s)

(* The types of the fields and locals.                                     *)
StreamDataOK ==
  /\ stream \in Streams
  /\ next \in [Sides -> 0..(stream.configs + 1)]
  /\ best \in [Sides -> 0..stream.configs]
  /\ err \in [Sides \cup {"all"} -> {NoError} \cup Errors]
  /\ winner \in 0..stream.configs
  /\ encs \subseteq Sides
  /\ bw_side \in {"raw", "open", "freed"}
  /\ troubles \subseteq Errors
StreamTypeOK ==
  /\ StreamDataOK
  /\ phase \in {"new", "analyse", "init", "clone", "side", "reset", "launch",
                "hook", "sync", "end", "choose", "error", "returned", "crashed",
                "idle"}

StreamStart(p) ==
  /\ stream \in Streams
  /\ phase = p
  /\ next = [s \in Sides |-> 0] /\ best = [s \in Sides |-> 0]
  /\ err = [s \in Sides \cup {"all"} |-> NoError]
  /\ winner = 0 /\ encs = {} /\ bw_side = "raw" /\ troubles = {}
StreamInit == StreamStart("new")

(* goto Error.                                                             *)
Fails(e) ==
  /\ err' = [err EXCEPT !["all"] = e]
  /\ troubles' = troubles \cup {e}
  /\ phase' = "error"
Goes(p) == phase' = p /\ UNCHANGED <<err, troubles>>

-------------------------------------------------------------------------------
(* The encoder, the analysis that finds the configurations, and the bit    *)
(* writer of the side.                                                     *)
NewEncoder ==
  /\ phase = "new"
  /\ \/ encs' = {"main"} /\ Goes("analyse")
     \/ Fails(1) /\ UNCHANGED encs
  /\ UNCHANGED <<workerVars, stream, next, best, winner, bw_side>>

EncoderAnalyze ==
  /\ phase = "analyse"
  /\ Goes("init") \/ Fails(1)
  /\ UNCHANGED <<workerVars, stream, next, best, winner, encs, bw_side>>

SideWriterInit ==
  /\ phase = "init"
  /\ \/ bw_side' = "open" /\ Goes(IF SideConfigs(stream) > 0 THEN "clone" ELSE "hook")
     \/ Fails(1) /\ bw_side' = "freed"
  /\ UNCHANGED <<workerVars, stream, next, best, winner, encs>>

(* The parameters of the side: its half of the configurations.             *)
SideFirstConfig_AtHalf == SideConfigs(stream) + 1
SideFirstConfig == MainConfigs(stream) + 1

CloneWriter ==
  /\ phase = "clone"
  /\ Goes("side") \/ Fails(1)
  /\ UNCHANGED <<workerVars, stream, next, best, winner, encs, bw_side>>

NewSideEncoder ==
  /\ phase = "side"
  /\ \/ encs' = encs \cup {"side"} /\ (Goes("reset") \/ Fails(1))
     \/ UNCHANGED encs /\ Fails(1)
  /\ UNCHANGED <<workerVars, stream, next, best, winner, bw_side>>

ResetSide ==
  /\ phase = "reset"
  /\ \/ Create /\ Goes("launch")
     \/ CreateFails /\ Fails(1)
  /\ UNCHANGED <<stream, next, best, winner, encs, bw_side>>

LaunchStream ==
  /\ phase = "launch" /\ main = "out"
  /\ Launch /\ Goes("hook")
  /\ UNCHANGED <<stream, next, best, winner, encs, bw_side>>

-------------------------------------------------------------------------------
(* EncodeStreamHook: main executes it itself.                              *)
Hooked(s) == IF s = "main" THEN phase = "hook" /\ main = "out" ELSE thread = "hook"
Configs(s) == IF s = "main" THEN MainConfigs(stream) ELSE SideConfigs(stream)
ConfigAt(s) == next[s] + (IF s = "main" THEN 0 ELSE SideFirstConfig - 1)

(* The bit writer bw_best, and the copy that each turn starts from.        *)
Prepares(s) ==
  /\ Hooked(s) /\ next[s] = 0
  /\ next' = [next EXCEPT ![s] = 1]
  /\ UNCHANGED <<workerVars, stream, phase, best, err, winner, encs, bw_side, troubles>>

(* A turn of the loop; the shortest stream is kept, the first of them if   *)
(* there are several.                                                      *)
Bytes(c) == IF c = 0 THEN 0 ELSE stream.size[c]
Better(s, c) == Bytes(c) < Bytes(best[s])

TryConfig(s) ==
  /\ Hooked(s) /\ next[s] \in 1..Configs(s)
  /\ LET c == ConfigAt(s)
     IN best' = [best EXCEPT ![s] = IF next[s] = 1 \/ Better(s, c) THEN c ELSE @]
  /\ next' = [next EXCEPT ![s] = @ + 1]
  /\ UNCHANGED <<workerVars, stream, phase, err, winner, encs, bw_side, troubles>>

(* It returns, with an error or after the last configuration.              *)
HookError_Dropped(s, e) == UNCHANGED err
HookError(s, e) == err' = [err EXCEPT ![s] = e]

HookEnds(s, e) ==
  /\ Hooked(s) /\ (e = NoError => next[s] = Configs(s) + 1)
  /\ HookError(s, e)
  /\ troubles' = troubles \cup ({e} \ {NoError})
  /\ IF s = "main" THEN phase' = "sync" /\ UNCHANGED workerVars
     ELSE Ran(e = NoError) /\ UNCHANGED phase
  /\ UNCHANGED <<stream, next, best, winner, encs, bw_side>>

-------------------------------------------------------------------------------
(* The worker is waited for and ended before anybody looks at the errors.  *)
SyncsSide == IF SideConfigs(stream) > 0 THEN Sync ELSE UNCHANGED workerVars

SyncStream ==
  /\ phase = "sync" /\ main = "out"
  /\ SyncsSide /\ Goes("end")
  /\ UNCHANGED <<stream, next, best, winner, encs, bw_side>>

EndsSide_IfOk == IF SideConfigs(stream) > 0 /\ err["main"] = NoError THEN End
                 ELSE UNCHANGED workerVars
EndsSide == IF SideConfigs(stream) > 0 THEN End ELSE UNCHANGED workerVars

EndStream ==
  /\ phase = "end" /\ main = "out"
  /\ EndsSide /\ Goes("choose")
  /\ UNCHANGED <<stream, next, best, winner, encs, bw_side>>

(* The error of main's job, or else of the side's, and otherwise the       *)
(* shorter of the two streams.                                             *)
JobError == IF err["main"] # NoError THEN err["main"] ELSE err["side"]
SideIsShorter == SideConfigs(stream) > 0
                   /\ Bytes(best["side"]) < Bytes(best["main"])

ChooseStream ==
  /\ phase = "choose" /\ main = "out"
  /\ err' = [err EXCEPT !["all"] = JobError]
  /\ winner' = IF JobError # NoError THEN winner
             ELSE IF SideIsShorter THEN best["side"] ELSE best["main"]
  /\ phase' = "error"
  /\ UNCHANGED <<workerVars, stream, next, best, encs, bw_side, troubles>>

(* The label Error.  A bit writer that has not been initialised is wiped   *)
(* out as well: that is undefined, and ends well or in a crash.            *)
Frees == {}
CleanUp ==
  /\ phase = "error"
  /\ \/ bw_side' = "freed" /\ encs' = Frees /\ Goes("returned")
     \/ bw_side = "raw" /\ Goes("crashed") /\ UNCHANGED <<bw_side, encs>>
  /\ UNCHANGED <<workerVars, stream, next, best, winner>>

-------------------------------------------------------------------------------
StreamCalls ==
  \/ NewEncoder \/ EncoderAnalyze \/ SideWriterInit \/ CloneWriter
  \/ NewSideEncoder \/ ResetSide \/ LaunchStream \/ SyncStream \/ EndStream
  \/ ChooseStream \/ CleanUp
  \/ Prepares("main") \/ TryConfig("main")
  \/ \E e \in {NoError} \cup Errors : HookEnds("main", e)

StreamWaits == (Created \/ Waits \/ Assigns \/ Join) /\ UNCHANGED streamVars

StreamJobs ==
  \/ Prepares("side") \/ TryConfig("side")
  \/ \E e \in {NoError} \cup Errors : HookEnds("side", e)
  \/ (Idles \/ Takes \/ Quits) /\ UNCHANGED streamVars

StreamNext ==
  StreamCalls \/ StreamWaits \/ StreamJobs \/ (Spurious /\ UNCHANGED streamVars)

(* Both threads are scheduled.                                             *)
StreamFairness ==
  /\ WF_losslessVars(StreamCalls) /\ WF_losslessVars(StreamWaits)
  /\ WF_losslessVars(StreamJobs)

StreamSpec ==
  WorkerInit /\ StreamInit /\ [][StreamNext]_losslessVars /\ StreamFairness

-------------------------------------------------------------------------------
(* Properties.                                                             *)

(* No configuration would have given a shorter stream, whichever thread    *)
(* has tried it (vp8l_enc.c:1792).                                         *)
ShortestIsKept ==
  phase = "returned" /\ err["all"] = NoError =>
    /\ winner # 0
    /\ \A c \in DOMAIN stream.size : stream.size[c] >= stream.size[winner]

(* It succeeds exactly if nothing has failed in either job, and else tells *)
(* of an error that has really occurred (vp8l_enc.c:1788).                 *)
StreamErrorTold ==
  phase = "returned" =>
    IF troubles = {} THEN err["all"] = NoError ELSE err["all"] \in troubles

(* Nothing is freed under a running job, and nothing is left: encoders,    *)
(* bit writer, thread (vp8l_enc.c:1786).                                   *)
StreamLeavesNothing ==
  /\ phase \in {"choose", "error"} /\ main = "out" => thread # "hook" /\ status # "WORK"
  /\ phase = "returned" => encs = {} /\ bw_side = "freed" /\ ~impl /\ thread = "none"

(* The answer is right and leaves nothing behind.                          *)
StreamSound == ShortestIsKept /\ StreamErrorTold /\ StreamLeavesNothing

(* It returns, unless what it does is undefined.                           *)
StreamReturns == phase = "clone" \/ phase = "hook" ~> phase = "returned"
===============================================================================
