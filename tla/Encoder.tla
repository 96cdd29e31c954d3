------------------------------- MODULE Encoder --------------------------------
(***************************************************************************)
(* The lossy encoder (WebPEncode in webp_enc.c and what it calls in        *)
(* analysis_enc.c, alpha_enc.c, frame_enc.c and syntax_enc.c).  With a     *)
(* thread_level the analysis of the lower rows, and after it the alpha     *)
(* plane, are jobs of a worker; the two never exist at the same time, so   *)
(* one worker stands for both.  Main goes on meanwhile: it analyses the    *)
(* upper rows, and codes the picture in as many passes as it takes.        *)
(*                                                                         *)
(* Rows stand for their macroblocks, a count for a histogram, and what a   *)
(* pass costs, or whether a partition gets too long, is left open.  The    *)
(* hook of the user that reports progress takes its time during the        *)
(* analysis, where a second thread could enter it; anywhere else only main *)
(* is there to call it, and its answer is part of the step.                *)
(***************************************************************************)
EXTENDS Worker, FiniteSets

CONSTANT Shots  \* bound: what is encoded, and how

ASSUME ShotsAssumption ==
  \A s \in Shots :
    /\ s.thread \in BOOLEAN    \* enc->thread_level_ > 0
    /\ s.alpha \in BOOLEAN     \* enc->has_alpha_
    /\ s.rows \in Nat \ {0}    \* enc->mb_h_
    /\ s.segments \in BOOLEAN  \* do_segments
    /\ s.tokens \in BOOLEAN    \* enc->use_tokens_
    /\ s.search \in BOOLEAN    \* enc->do_search_
    /\ s.pass \in Nat \ {0}    \* config->pass
    /\ s.bits \in Nat          \* enc->max_i4_header_bits_

VARIABLES
  shot,       \* the picture and its parameters
  stage,      \* where WebPEncode is
  ok,         \* its ok
  row,        \* the row each job is at: it->y_
  left,       \* the rows it still has to do: it->count_down_
  seen,       \* how often a job has counted a row: job->alphas
  mainbad,    \* main_job.worker.had_error
  merged,     \* what AssignSegments gets
  hooked,     \* who is in progress_hook
  passes,     \* num_pass_left
  bits,       \* enc->max_i4_header_bits_
  settled,    \* |stats.dq| <= DQ_LIMIT
  odd,        \* history variable: parity of the passes, so that each is a step
  counted,    \* how often enc->block_count_ has counted a macroblock
  parts,      \* the bit writers of the partitions have memory
  alphadata,  \* enc->alpha_data_ is not NULL
  failed,     \* history variable: a step has failed and the code looked at it
  aborted     \* history variable: the user has asked for an end

jobVars  == <<row, left, seen, mainbad, merged, hooked>>
passVars == <<passes, bits, settled, odd, counted>>
tellVars == <<failed, aborted>>
encVars  == <<shot, stage, ok, jobVars, passVars, parts, alphadata, tellVars>>
shotVars == <<workerVars, encVars>>

Jobs == {"main", "side"}
Rows(s) == 0..(s.rows - 1)
None == [y \in {} |-> 0]

(* The types of the fields and locals.                                     *)
EncDataOK ==
  /\ shot \in Shots /\ ok \in BOOLEAN
  /\ row \in [Jobs -> 0..shot.rows] /\ left \in [Jobs -> 0..shot.rows]
  /\ seen \in [Jobs -> [Rows(shot) -> 0..2]]
  /\ mainbad \in BOOLEAN
  /\ merged = None \/ merged \in [Rows(shot) -> 0..2]
  /\ hooked \subseteq Jobs
  /\ passes \in 0..shot.pass /\ bits \in 0..shot.bits
  /\ settled \in BOOLEAN /\ odd \in BOOLEAN /\ counted \in 0..1
  /\ parts \in BOOLEAN /\ alphadata \in BOOLEAN
  /\ failed \in BOOLEAN /\ aborted \in BOOLEAN
EncTypeOK ==
  /\ EncDataOK
  /\ stage \in {"analyze", "reset", "execute", "sync", "end", "alpha",
                "launch", "loop", "stat", "code", "token", "emit", "finish", "synced",
                "write", "free", "ask", "delete", "freed", "over", "idle"}

EncStart(s) ==
  /\ shot \in Shots
  /\ stage = s /\ ok = TRUE
  /\ row = [j \in Jobs |-> 0] /\ left = [j \in Jobs |-> 0]
  /\ seen = [j \in Jobs |-> [y \in Rows(shot) |-> 0]]
  /\ mainbad = FALSE /\ merged = None /\ hooked = {}
  /\ passes = shot.pass /\ bits = shot.bits /\ settled = FALSE /\ odd = FALSE
  /\ counted = 0
  /\ parts = FALSE /\ alphadata = FALSE
  /\ failed = FALSE /\ aborted = FALSE
EncInit == EncStart("analyze")

(* A step of WebPEncode ends: ok decides whether the next one is done.     *)
Enters(s) == stage' = s
Succeeds_GoesOn(well, s) ==
  ok' = well /\ failed' = (failed \/ ~well) /\ Enters(s)
Succeeds(well, s) ==
  /\ ok' = well /\ failed' = (failed \/ ~well)
  /\ Enters(IF well THEN s ELSE "free")

(* The user may ask for an end in the hook.                                *)
Reports(goOn) == aborted' = (aborted \/ ~goOn)

-------------------------------------------------------------------------------
(* VP8EncAnalyze.                                                          *)

SplitRow == (9 * shot.rows + 15) \div 16
InParallel == shot.thread /\ SplitRow >= 2

(* Without segments the progress is reported, and the answer not looked at.*)
OneSegment(goOn) ==
  /\ stage = "analyze" /\ ~shot.segments
  /\ Reports(goOn)
  /\ Enters("alpha")
  /\ UNCHANGED <<workerVars, shot, ok, jobVars, passVars, parts, alphadata, failed>>

(* InitSegmentJob, for both jobs or for the only one.                      *)
SideFirst_Next == SplitRow + 1
SideFirst == SplitRow
InitSegmentJobs ==
  IF InParallel
    THEN /\ row'  = [row EXCEPT !["side"] = SideFirst]
         /\ left' = [main |-> SplitRow, side |-> shot.rows - SplitRow]
    ELSE /\ left' = [left EXCEPT !["main"] = shot.rows]
         /\ UNCHANGED row

SplitJobs ==
  /\ stage = "analyze" /\ shot.segments
  /\ InitSegmentJobs
  /\ IF InParallel
       THEN \/ Create /\ Enters("reset") /\ UNCHANGED <<ok, failed>>
            \/ CreateFails /\ Enters("end") /\ ok' = FALSE /\ failed' = TRUE
       ELSE Enters("execute") /\ UNCHANGED <<workerVars, ok, failed>>
  /\ UNCHANGED <<shot, seen, mainbad, merged, hooked, passVars, parts, alphadata,
                 aborted>>

LaunchSide ==
  /\ stage = "reset" /\ main = "out"
  /\ Launch /\ Enters("execute")
  /\ UNCHANGED <<shot, ok, jobVars, passVars, parts, alphadata, tellVars>>

(* One turn of DoSegmentsJob's loop: a row is counted, and the main job    *)
(* reports it.                                                             *)
Doing(j) == IF j = "main" THEN stage = "execute" /\ main = "out"
            ELSE thread = "hook" /\ stage \in {"execute", "sync"}
DeltaProgress_Both(j) == 20
DeltaProgress(j) == IF j = "main" THEN 20 ELSE 0
IsDone_Never(j) == FALSE
IsDone(j) == left[j] = 0

CountRow(j) ==
  /\ Doing(j) /\ j \notin hooked /\ ~IsDone(j)
  /\ seen' = [seen EXCEPT ![j] = [y \in DOMAIN seen[j] \cup {row[j]} |->
                IF y \in DOMAIN seen[j]
                  THEN seen[j][y] + (IF y = row[j] THEN 1 ELSE 0) ELSE 1]]
  /\ row' = [row EXCEPT ![j] = @ + 1]
  /\ left' = [left EXCEPT ![j] = IF @ = 0 THEN 0 ELSE @ - 1]
  /\ hooked' = IF DeltaProgress(j) > 0 THEN hooked \cup {j} ELSE hooked
  /\ UNCHANGED <<workerVars, shot, stage, ok, mainbad, merged, passVars, parts,
                 alphadata, tellVars>>

HookReturns(j, goOn) ==
  /\ Doing(j) /\ j \in hooked
  /\ hooked' = hooked \ {j}
  /\ Reports(goOn)
  /\ IF goOn THEN UNCHANGED <<left, mainbad, failed>>
     ELSE /\ left' = [left EXCEPT ![j] = 0]
          /\ failed' = TRUE /\ mainbad' = TRUE
  /\ UNCHANGED <<workerVars, shot, stage, ok, row, seen, merged, passVars, parts,
                 alphadata>>

SideDone ==
  /\ Doing("side") /\ "side" \notin hooked /\ left["side"] = 0
  /\ Ran(TRUE)
  /\ UNCHANGED encVars

(* Execute has returned: Sync of both workers, and End.                    *)
SyncSide ==
  /\ stage = "execute" /\ main = "out" /\ "main" \notin hooked /\ left["main"] = 0
  /\ IF InParallel THEN Sync ELSE UNCHANGED workerVars
  /\ ok' = ~mainbad /\ Enters("sync")
  /\ UNCHANGED <<shot, jobVars, passVars, parts, alphadata, tellVars>>

EndSide ==
  /\ stage = "sync" /\ main = "out"
  /\ ok' = (ok /\ ~had_error)
  /\ IF InParallel THEN End ELSE UNCHANGED workerVars
  /\ Enters("end")
  /\ UNCHANGED <<shot, jobVars, passVars, parts, alphadata, tellVars>>

(* MergeJobs, and AssignSegments uses the sum.                             *)
Sum_(f, g) == [y \in DOMAIN f \cup DOMAIN g |->
                (IF y \in DOMAIN f THEN f[y] ELSE 0)
                  + (IF y \in DOMAIN g THEN g[y] ELSE 0)]
AllAlphas == IF InParallel THEN Sum_(seen["main"], seen["side"])
             ELSE seen["main"]

AssignSegments ==
  /\ stage = "end" /\ main = "out"
  /\ merged' = IF ok THEN AllAlphas ELSE merged
  /\ Enters(IF ok THEN "alpha" ELSE "free")
  /\ UNCHANGED <<workerVars, shot, ok, row, left, seen, mainbad, hooked, passVars,
                 parts, alphadata, tellVars>>

-------------------------------------------------------------------------------
(* The alpha plane.                                                        *)

(* CompressAlphaJob, by main itself.                                       *)
CompressAlpha(well) == alphadata' = well

StartAlpha ==
  /\ stage = "alpha"
  /\ CASE ~shot.alpha -> Enters("loop") /\ UNCHANGED <<workerVars, ok, alphadata, failed>>
       [] shot.alpha /\ shot.thread ->
            /\ \/ Create /\ Enters("launch") /\ UNCHANGED <<ok, failed>>
               \/ CreateFails /\ Succeeds(FALSE, "loop")
            /\ UNCHANGED alphadata
       [] OTHER -> /\ \E well \in BOOLEAN : CompressAlpha(well) /\ Succeeds(well, "loop")
                   /\ UNCHANGED workerVars
  /\ UNCHANGED <<shot, jobVars, passVars, parts, aborted>>

LaunchAlpha ==
  /\ stage = "launch" /\ main = "out"
  /\ Launch /\ Enters("loop")
  /\ UNCHANGED <<shot, ok, jobVars, passVars, parts, alphadata, tellVars>>

InAlphaJob == thread = "hook" /\ stage \notin {"execute", "sync"}
AlphaDone(well) ==
  /\ InAlphaJob
  /\ Ran(well)
  /\ CompressAlpha(well)
  /\ UNCHANGED <<shot, stage, ok, jobVars, passVars, parts, tellVars>>

(* VP8EncFinishAlpha: the job is waited for, then the progress is reported.*)
SyncsAlpha_Never == UNCHANGED workerVars
SyncsAlpha == IF shot.alpha /\ shot.thread THEN Sync ELSE UNCHANGED workerVars

FinishAlpha ==
  /\ stage = "finish" /\ main = "out"
  /\ SyncsAlpha /\ Enters("synced")
  /\ UNCHANGED <<shot, ok, jobVars, passVars, parts, alphadata, tellVars>>

AlphaFinished(goOn) ==
  /\ stage = "synced" /\ main = "out"
  /\ IF had_error THEN UNCHANGED aborted ELSE Reports(goOn)
  /\ Succeeds(~had_error /\ goOn, "write")
  /\ UNCHANGED <<workerVars, shot, jobVars, passVars, parts, alphadata>>

-------------------------------------------------------------------------------
(* Coding: passes that look for the quality or gather statistics, and one  *)
(* that is kept.                                                           *)

(* PreLoopInitialize, without memory it frees the bit writers again.       *)
PreLoopInitialize(well) ==
  /\ stage = "loop" /\ main = "out"
  /\ parts' = well
  /\ Succeeds(well, IF shot.tokens THEN "token" ELSE "stat")
  /\ UNCHANGED <<workerVars, shot, jobVars, passVars, alphadata, aborted>>

(* A pass is the last one if the quality has settled, if no passes are     *)
(* left, or if there is nothing left to make partition 0 shorter with.     *)
IsLastPass == settled \/ passes = 1 \/ bits = 0

(* Partition 0 is too long: the pass is done once more, with fewer bits    *)
(* for the modes.                                                          *)
Halved_Keep == bits
Halved == bits \div 2
Restart(toolong) == toolong /\ bits > 0

(* After a pass: once more, another quality, or the end.                   *)
Searches(steady) == settled' = IF shot.search THEN steady ELSE settled
AfterPass(toolong, steady, again, then) ==
  CASE Restart(toolong) ->
         bits' = Halved /\ Enters(again) /\ UNCHANGED <<passes, settled>>
    [] ~Restart(toolong) /\ IsLastPass ->
         Enters(then) /\ UNCHANGED <<bits, passes, settled>>
    [] OTHER -> /\ passes' = passes - 1 /\ UNCHANGED bits
                /\ Searches(steady) /\ Enters(again)

(* A turn of StatLoop, whose result VP8EncLoop does not look at: an end    *)
(* the user asks for only ends the statistics.  A new quality that has     *)
(* settled needs no pass of its own here.                                  *)
StatPass(toolong, steady) ==
  /\ stage = "stat"
  /\ odd' = ~odd
  /\ IF ~Restart(toolong) /\ ~IsLastPass /\ shot.search /\ steady
       THEN /\ Enters("code") /\ settled' = TRUE
            /\ passes' = passes - 1 /\ UNCHANGED bits
       ELSE AfterPass(toolong, steady, "stat", "code")
  /\ UNCHANGED <<workerVars, shot, ok, jobVars, counted, parts, alphadata, tellVars>>

StatAborted ==
  /\ stage = "stat"
  /\ Reports(FALSE) /\ Enters("code")
  /\ UNCHANGED <<workerVars, shot, ok, jobVars, passVars, parts, alphadata, failed>>

(* The final turn over the picture, and PostLoopFinalize, which frees the  *)
(* bit writers if anything has failed, the user's no included.             *)
Coded(well, goOn) ==
  /\ Reports(goOn)
  /\ Succeeds(well /\ goOn, "finish")
  /\ parts' = (parts /\ well /\ goOn)

CodePicture(well, goOn) ==
  /\ stage = "code"
  /\ counted' = counted + 1
  /\ Coded(well, goOn)
  /\ UNCHANGED <<workerVars, shot, jobVars, passes, bits, settled, odd, alphadata>>

(* A turn of VP8EncTokenLoop.  Only the last pass has side effects, which  *)
(* are taken back if it is not the last one after all.                     *)
TakenBack_Never(n) == n
TakenBack(n) == 0
SideInfo == counted + (IF IsLastPass THEN 1 ELSE 0)

TokenPass(toolong, steady) ==
  /\ stage = "token"
  /\ odd' = ~odd
  /\ counted' = IF Restart(toolong) THEN (IF IsLastPass THEN TakenBack(SideInfo)
                                          ELSE SideInfo)
                ELSE SideInfo
  /\ IF passes = 0 THEN Enters("emit") /\ UNCHANGED <<passes, bits, settled>>
     ELSE AfterPass(toolong, steady, "token", "emit")
  /\ UNCHANGED <<workerVars, shot, ok, jobVars, parts, alphadata, tellVars>>

TokenFails ==
  /\ stage = "token"
  /\ \E goOn \in BOOLEAN : (goOn \/ IsLastPass) /\ Coded(FALSE, goOn)
  /\ UNCHANGED <<workerVars, shot, jobVars, passVars, alphadata>>

(* VP8EmitTokens and the progress.                                         *)
EmitTokens(well, goOn) ==
  /\ stage = "emit"
  /\ Coded(well, goOn)
  /\ UNCHANGED <<workerVars, shot, jobVars, passVars, alphadata>>

-------------------------------------------------------------------------------
(* The end.                                                                *)

(* VP8EncWrite; the bit writers are freed unless partition 0 fails.        *)
EncWrite(well, part0, goOn) ==
  /\ stage = "write"
  /\ well => part0
  /\ parts' = ~part0
  /\ Reports(goOn)
  /\ Succeeds(well /\ goOn, "free")
  /\ UNCHANGED <<workerVars, shot, jobVars, passVars, alphadata>>

FreesWriters == ~ok
FreeBitWriters ==
  /\ stage = "free"
  /\ parts' = (parts /\ ~FreesWriters)
  /\ Enters("ask")
  /\ UNCHANGED <<workerVars, shot, ok, jobVars, passVars, alphadata, tellVars>>

(* DeleteVP8Encoder, always: Sync of the alpha worker, and End.            *)
DeleteSync ==
  /\ stage = "ask" /\ main = "out"
  /\ IF shot.thread THEN Sync ELSE UNCHANGED workerVars
  /\ Enters("delete")
  /\ UNCHANGED <<shot, ok, jobVars, passVars, parts, alphadata, tellVars>>

DeleteEnds_IfOk == ok
DeleteEnds == shot.thread
DeleteEnd ==
  /\ stage = "delete" /\ main = "out"
  /\ ok' = (ok /\ (shot.thread => ~had_error))
  /\ IF DeleteEnds THEN End ELSE UNCHANGED workerVars
  /\ Enters("freed")
  /\ UNCHANGED <<shot, jobVars, passVars, parts, alphadata, tellVars>>

DeleteFrees ==
  /\ stage = "freed" /\ main = "out"
  /\ alphadata' = FALSE
  /\ Enters("over")
  /\ UNCHANGED <<workerVars, shot, ok, jobVars, passVars, parts, tellVars>>

-------------------------------------------------------------------------------
MainCalls ==
  \/ SplitJobs \/ LaunchSide \/ SyncSide \/ EndSide \/ AssignSegments
  \/ StartAlpha \/ LaunchAlpha \/ FinishAlpha \/ StatAborted \/ TokenFails
  \/ FreeBitWriters \/ DeleteSync \/ DeleteEnd \/ DeleteFrees
  \/ CountRow("main") \/ \E goOn \in BOOLEAN : HookReturns("main", goOn)
  \/ \E goOn \in BOOLEAN : OneSegment(goOn) \/ AlphaFinished(goOn)
  \/ \E well \in BOOLEAN : PreLoopInitialize(well)
  \/ \E toolong, steady \in BOOLEAN : StatPass(toolong, steady) \/ TokenPass(toolong, steady)
  \/ \E well, goOn \in BOOLEAN : CodePicture(well, goOn) \/ EmitTokens(well, goOn)
  \/ \E well, part0, goOn \in BOOLEAN : EncWrite(well, part0, goOn)

EncMainWaits == (Created \/ Waits \/ Assigns \/ Join) /\ UNCHANGED encVars

JobSteps ==
  \/ CountRow("side") \/ \E goOn \in BOOLEAN : HookReturns("side", goOn)
  \/ SideDone \/ \E well \in BOOLEAN : AlphaDone(well)
  \/ (Idles \/ Takes \/ Quits) /\ UNCHANGED encVars

EncNext == MainCalls \/ EncMainWaits \/ JobSteps \/ (Spurious /\ UNCHANGED encVars)

(* Both threads are scheduled, and the user's hook returns.                *)
EncFairness ==
  /\ WF_shotVars(MainCalls) /\ WF_shotVars(EncMainWaits) /\ WF_shotVars(JobSteps)

EncSpec == WorkerInit /\ EncInit /\ [][EncNext]_shotVars /\ EncFairness

-------------------------------------------------------------------------------
(* Properties.                                                             *)

(* Only main calls the user's hook, which need not be safe to call from    *)
(* two threads (analysis_enc.c:474).                                       *)
HookIsMains == hooked \subseteq {"main"}

(* Both jobs together have counted every row once when segments are        *)
(* assigned, whatever the split, and the empty half of two rows included   *)
(* (analysis_enc.c:488, 441).                                              *)
EveryRowOnce == merged = None \/ merged = [y \in Rows(shot) |-> 1]

(* The file is written from a whole alpha plane that nobody still works on *)
(* (webp_enc.c:386).                                                       *)
AlphaIsWhole ==
  stage = "write" => thread # "hook" /\ status # "WORK" /\ alphadata = shot.alpha

(* What is written has been coded by the last pass, whose side information *)
(* is counted once, however often the pass had to be done again            *)
(* (frame_enc.c:856).                                                      *)
LastPassIsKept == stage \in {"finish", "write"} => counted = 1

(* Nothing is left when WebPEncode returns, whatever has failed: no job    *)
(* that uses the encoder, no alpha data and no bit writer                  *)
(* (webp_enc.c:391).                                                       *)
EncoderLeavesNothing ==
  stage = "over" => ~impl /\ thread = "none" /\ ~alphadata /\ ~parts

(* WebPEncode succeeds exactly if everything it looks at has, the alpha    *)
(* job included, which may fail after main has given up (webp_enc.c:391).  *)
ResultTold == stage = "over" => (ok <=> ~failed /\ ~bad)

(* What is written is the picture, coded once and by all who had to, and a *)
(* failure is told and leaves nothing.                                     *)
EncoderSound ==
  /\ HookIsMains /\ EveryRowOnce /\ AlphaIsWhole /\ LastPassIsKept
  /\ EncoderLeavesNothing /\ ResultTold

(* WebPEncode returns: it does not start over for ever (frame_enc.c:854).  *)
EncodeReturns == stage \notin {"over", "idle"} ~> stage = "over"
===============================================================================
