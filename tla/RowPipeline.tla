----------------------------- MODULE RowPipeline ------------------------------
(***************************************************************************)
(* The rows of a lossy picture on their way out (frame_dec.c, and VP8Decode*)
(* in vp8_dec.c).  Main parses one row of macroblocks after the other and  *)
(* hands each to FinishRow, which rebuilds the samples, filters the edges  *)
(* and puts the lines that are final.  With mt_method_ 2 FinishRow is a    *)
(* job of the worker, and main parses the next row meanwhile into the      *)
(* other one of two buffers.  The filter of a row still changes lines of   *)
(* the row above, so the last lines of a row are held back and kept in a   *)
(* cache that is used in turn.                                             *)
(*                                                                         *)
(* Samples are abstracted to lines of the whole width.  A line in the cache*)
(* says which line of the picture it is, how often the filter has changed  *)
(* it, and whether all that it was made of was what it should be.  Chroma  *)
(* has half the lines, so what the complex filter reads and writes of it   *)
(* counts twice.                                                           *)
(***************************************************************************)
EXTENDS Worker, Integers, Sequences

CONSTANT Pictures  \* bound: what is decoded, and how

ASSUME PicturesAssumption ==
  \A p \in Pictures :
    /\ p.filter \in 0..2      \* dec->filter_type_
    /\ p.mt \in 0..2          \* dec->mt_method_
    /\ p.mb_h \in Nat \ {0}   \* rows of macroblocks
    /\ p.top \in Nat /\ p.bottom \in Nat  \* io->crop_top, io->crop_bottom
    /\ p.alpha \in BOOLEAN    \* it has an alpha plane
    /\ p.top % 2 = 0 /\ p.top < p.bottom /\ p.bottom <= 16 * p.mb_h

VARIABLES
  pic,        \* the picture
  at,         \* where main is in the decoder
  mb_y,       \* dec->mb_y_
  cache_id,   \* dec->cache_id_
  mb_data,    \* the rows whose data the two buffers hold
  f_info,     \* the same for the filter strengths
  mine,       \* which of mb_data main writes: dec->mb_data_
  fmine,      \* which of f_info
  ctx,        \* dec->thread_ctx_: id_, mb_y_, filter_row_
  finish,     \* where FinishRow is
  rebuilt,    \* rows rebuilt so far, which the next one is predicted from
  cache,      \* dec->cache_y_
  setup,      \* history variable: setup() without a teardown() yet
  out         \* history variable: what put() got

bufferVars == <<mb_data, f_info, mine, fmine>>
finishVars == <<finish, rebuilt, cache, out>>
rowVars == <<pic, at, mb_y, cache_id, ctx, setup, bufferVars, finishVars>>

(* kFilterExtraRows, and how far above an edge the filter reads and writes.*)
Extra_Less(f)  == <<0, 0, 4>>[f + 1]
Extra(f)  == <<0, 2, 8>>[f + 1]
Reads(f)  == <<0, 2, 8>>[f + 1]
Writes(f) == <<0, 1, 6>>[f + 1]

(* num_caches_.                                                            *)
Caches(p) == IF p.mt = 0 THEN 1 ELSE IF p.filter > 0 THEN 3 ELSE 2

(* The rows that have to be filtered, and those that have to be decoded.   *)
Clip(n, hi) == IF n > hi THEN hi ELSE n
TlRow(p) == IF p.filter = 2 \/ p.top < Extra(p.filter) THEN 0
            ELSE (p.top - Extra(p.filter)) \div 16
BrRow(p) == Clip((p.bottom + 15 + Extra(p.filter)) \div 16, p.mb_h)

Line(y, n, right) == [y |-> y, n |-> n, right |-> right]
Lines(p) == (-Extra(p.filter))..(16 * Caches(p) - 1)

(* The types of the fields and locals.                                     *)
RowDataOK ==
  /\ pic \in Pictures
  /\ mb_y \in 0..pic.mb_h
  /\ cache_id \in 0..(Caches(pic) - 1)
  /\ mb_data \in [0..1 -> -1..pic.mb_h] /\ f_info \in [0..1 -> -1..pic.mb_h]
  /\ mine \in 0..1 /\ fmine \in 0..1
  /\ ctx \in [id : 0..(Caches(pic) - 1), mb_y : 0..pic.mb_h,
              filter_row : BOOLEAN]
  /\ finish \in {"no", "rebuild", "filter", "put"}
  /\ rebuilt \in 0..pic.mb_h
  /\ cache \in [Lines(pic) -> [y : -1..(16 * pic.mb_h), n : 0..2,
                               right : BOOLEAN]]
  /\ setup \in BOOLEAN
  /\ out \in Seq([from : 0..pic.bottom, to : 0..pic.bottom, right : BOOLEAN])
RowsTypeOK ==
  /\ RowDataOK
  /\ at \in {"setup", "init", "alloc", "parse", "sync", "hand", "launched",
             "direct", "next", "last", "exit", "teardown", "clear", "over",
             "off"}  \* "none" if nothing is decoded

RowsStart(a) ==
  /\ pic \in Pictures
  /\ at = a /\ mb_y = 0 /\ cache_id = 0
  /\ mb_data = [b \in 0..1 |-> -1] /\ f_info = [b \in 0..1 |-> -1]
  /\ mine = 0 /\ fmine = 0
  /\ ctx = [id |-> 0, mb_y |-> 0, filter_row |-> FALSE]
  /\ finish = "no" /\ rebuilt = 0
  /\ cache = [l \in Lines(pic) |-> Line(-1, 0, FALSE)]
  /\ setup = FALSE /\ out = <<>>
RowsInit == RowsStart("setup")

Goto(a) == at' = a

-------------------------------------------------------------------------------
(* VP8EnterCritical and VP8InitFrame.                                      *)

EnterCritical(ok, failed) ==
  /\ at = "setup"
  /\ setup' = ok /\ Goto(IF ok THEN "init" ELSE failed)
  /\ UNCHANGED <<workerVars, pic, mb_y, cache_id, ctx, bufferVars, finishVars>>

(* The worker is reset, if there is to be one.                             *)
InitThread ==
  /\ at = "init"
  /\ IF pic.mt = 0 THEN Goto("alloc") /\ UNCHANGED workerVars
     ELSE \/ Create /\ Goto("alloc")
          \/ CreateFails /\ Goto("exit")
  /\ UNCHANGED <<pic, mb_y, cache_id, ctx, setup, bufferVars, finishVars>>

AllocateMemory(ok) ==
  /\ at = "alloc" /\ main = "out"
  /\ Goto(IF ok THEN "parse" ELSE "exit")
  /\ UNCHANGED <<workerVars, pic, mb_y, cache_id, ctx, setup, bufferVars,
                 finishVars>>

-------------------------------------------------------------------------------
(* Main parses.                                                            *)

(* The data of a row and, for a filter, its strengths, are parsed into     *)
(* main's buffers.                                                         *)
Parsed(row) ==
  /\ mb_data' = [mb_data EXCEPT ![mine] = row]
  /\ f_info' = IF pic.filter > 0 THEN [f_info EXCEPT ![fmine] = row]
                                 ELSE f_info

ParseRow ==
  /\ at = "parse"
  /\ Parsed(mb_y)
  /\ Goto(IF pic.mt = 0 THEN "direct" ELSE "sync")
  /\ UNCHANGED <<workerVars, pic, mb_y, cache_id, ctx, mine, fmine, setup,
                 finishVars>>

(* The data end too early.                                                 *)
ParseFails ==
  /\ at = "parse"
  /\ Goto("exit")
  /\ UNCHANGED <<workerVars, pic, mb_y, cache_id, ctx, setup, bufferVars,
                 finishVars>>

-------------------------------------------------------------------------------
(* FinishRow, by the worker or by main itself.                             *)

(* A row of samples is rebuilt into its place in the cache.                *)
WithRow(row) ==
  [l \in DOMAIN cache |->
     IF l \in (16 * ctx'.id)..(16 * ctx'.id + 15)
     THEN Line(16 * ctx'.mb_y + l - 16 * ctx'.id, 0,
               row = ctx'.mb_y /\ rebuilt = ctx'.mb_y)
     ELSE cache[l]]

ReconstructRow(b) == cache' = WithRow(mb_data[b]) /\ rebuilt' = ctx'.mb_y + 1

(* The buffer that is not main's, if there are two.                        *)
Handed == IF pic.mt = 2 THEN 1 - mine ELSE mine
FHanded == IF pic.mt > 0 THEN 1 - fmine ELSE fmine

Rebuild ==
  /\ finish = "rebuild"
  /\ UNCHANGED ctx
  /\ ReconstructRow(Handed)
  /\ finish' = "filter"
  /\ UNCHANGED <<workerVars, pic, at, mb_y, cache_id, setup, bufferVars, out>>

(* What the filter of row m makes of the lines it reads and writes: each   *)
(* must be made of samples that only the filters of the rows before have   *)
(* changed.  The simple one leaves the lines below the edge but one alone, *)
(* the complex one passes a difference on down to the end of the row.      *)
Filtered ==
  LET m == ctx.mb_y
      base == 16 * ctx.id
      own == base..(base + 15)
      above == IF m = 0 THEN {} ELSE (base - Reads(pic.filter))..(base - 1)
      edge == IF m = 0 THEN {} ELSE (base - Writes(pic.filter))..(base - 1)
      Is(l, n) == cache[l].y = 16 * m + l - base /\ cache[l].right
                    /\ cache[l].n = n
      OwnRight == f_info[FHanded] = m /\ \A l \in own : Is(l, 0)
      AboveRight == \A l \in above : Is(l, 1)
      Depends(l) == pic.filter = 2 \/ l <= base
  IN [l \in DOMAIN cache |->
        IF l \in own \cup edge
        THEN Line(cache[l].y, Clip(cache[l].n + 1, 2),
                  OwnRight /\ (l \in own \/ cache[l].right)
                    /\ (Depends(l) => AboveRight))
        ELSE cache[l]]

FilterRow ==
  /\ finish = "filter"
  /\ cache' = IF ctx.filter_row THEN Filtered ELSE cache
  /\ finish' = "put"
  /\ UNCHANGED <<workerVars, pic, at, mb_y, cache_id, ctx, setup, bufferVars,
                 rebuilt, out>>

(* The lines that are final now: those of the row and those held back of   *)
(* the row above, but not those that the next row will change; clipped.    *)
IsLast_Never == ctx.mb_y >= BrRow(pic)
IsLast == ctx.mb_y >= BrRow(pic) - 1
YStart == LET y == 16 * ctx.mb_y - (IF ctx.mb_y = 0 THEN 0 ELSE Extra(pic.filter))
          IN IF y < pic.top THEN pic.top ELSE y
YEnd_All == Clip(16 * (ctx.mb_y + 1), pic.bottom)
YEnd == Clip(16 * (ctx.mb_y + 1) - (IF IsLast THEN 0 ELSE Extra(pic.filter)),
             pic.bottom)

(* How often the filter changes a line.                                    *)
Passes(y) ==
  CASE pic.filter = 0 -> 0
    [] y % 16 >= 16 - Writes(pic.filter) /\ y \div 16 + 1 < pic.mb_h -> 2
    [] OTHER -> 1

Final(y) == cache[16 * ctx.id + y - 16 * ctx.mb_y] = Line(y, Passes(y), TRUE)

(* The lines held back move in front of the cache's first line when that   *)
(* is where the next row goes.                                             *)
Rotates == ctx.id + 1 = Caches(pic) /\ ~IsLast
Rotated ==
  [l \in DOMAIN cache |-> IF l < 0 THEN cache[l + 16 * Caches(pic)] ELSE cache[l]]

(* Back from FinishRow, to ThreadLoop or to VP8ProcessRow.                 *)
FinishReturns(ok) ==
  IF pic.mt = 0 THEN Goto(IF ok THEN "next" ELSE "exit") /\ UNCHANGED workerVars
                ELSE Ran(ok) /\ UNCHANGED at

Put(ok) ==
  /\ finish = "put"
  /\ out' = IF YStart < YEnd
            THEN Append(out, [from |-> YStart, to |-> YEnd,
                              right |-> \A y \in YStart..(YEnd - 1) : Final(y)])
            ELSE out
  /\ cache' = IF Rotates THEN Rotated ELSE cache
  /\ finish' = "no"
  /\ FinishReturns(ok)
  /\ UNCHANGED <<pic, mb_y, cache_id, ctx, setup, bufferVars, rebuilt>>

(* The alpha plane cannot be decoded: nothing is put.                      *)
AlphaFails ==
  /\ finish = "put" /\ pic.alpha
  /\ finish' = "no"
  /\ FinishReturns(FALSE)
  /\ UNCHANGED <<pic, mb_y, cache_id, ctx, setup, bufferVars, rebuilt, cache,
                 out>>

-------------------------------------------------------------------------------
(* VP8ProcessRow.                                                          *)

FiltersRow == pic.filter > 0 /\ mb_y \in TlRow(pic)..BrRow(pic)

(* Without a worker.                                                       *)
Direct ==
  /\ at = "direct" /\ finish = "no"
  /\ ctx' = [id |-> 0, mb_y |-> mb_y, filter_row |-> FiltersRow]
  /\ ReconstructRow(Handed)
  /\ finish' = "filter"
  /\ UNCHANGED <<workerVars, pic, at, mb_y, cache_id, setup, bufferVars, out>>

(* The job before is waited for, before its context is changed.            *)
AwaitsJob == Sync

SyncJob ==
  /\ at = "sync"
  /\ AwaitsJob
  /\ Goto("hand")
  /\ UNCHANGED <<pic, mb_y, cache_id, ctx, setup, bufferVars, finishVars>>

Swaps_Never == FALSE
Swaps == pic.mt = 2
FSwaps == FiltersRow

(* It has failed.                                                          *)
JobFailed ==
  /\ at = "hand" /\ main = "out" /\ had_error
  /\ Goto("exit")
  /\ UNCHANGED <<workerVars, pic, mb_y, cache_id, ctx, setup, bufferVars,
                 finishVars>>

(* Context and buffers are handed over; mt_method_ 1 rebuilds here.        *)
Hand ==
  /\ at = "hand" /\ main = "out" /\ ~had_error
  /\ ctx' = [id |-> cache_id, mb_y |-> mb_y, filter_row |-> FiltersRow]
  /\ mine' = IF Swaps THEN 1 - mine ELSE mine
  /\ fmine' = IF FSwaps THEN 1 - fmine ELSE fmine
  /\ IF pic.mt = 1 THEN ReconstructRow(mine) ELSE UNCHANGED <<cache, rebuilt>>
  /\ Launch
  /\ Goto("launched")
  /\ UNCHANGED <<pic, mb_y, cache_id, mb_data, f_info, finish, setup, out>>

Launched ==
  /\ at = "launched" /\ main = "out"
  /\ cache_id' = (cache_id + 1) % Caches(pic)
  /\ Goto("next")
  /\ UNCHANGED <<workerVars, pic, mb_y, ctx, setup, bufferVars, finishVars>>

(* The worker's thread calls the hook.                                     *)
TakeRow ==
  /\ Takes
  /\ finish' = IF pic.mt = 2 THEN "rebuild" ELSE "filter"
  /\ UNCHANGED <<pic, at, mb_y, cache_id, ctx, setup, bufferVars, rebuilt, cache,
                 out>>

-------------------------------------------------------------------------------
(* The loop over the rows, up to limit.                                    *)
NextRow(limit, again, end) ==
  /\ at = "next"
  /\ mb_y' = mb_y + 1
  /\ Goto(IF mb_y + 1 < limit THEN again ELSE end)
  /\ UNCHANGED <<workerVars, pic, cache_id, ctx, setup, bufferVars, finishVars>>

(* ParseFrame waits for the last job, and VP8ExitCritical does, again.     *)
LastJob ==
  /\ at = "last"
  /\ IF pic.mt > 0 THEN Sync ELSE UNCHANGED workerVars
  /\ Goto("exit")
  /\ UNCHANGED <<pic, mb_y, cache_id, ctx, setup, bufferVars, finishVars>>

ExitSyncs_Never == UNCHANGED workerVars
ExitSyncs == IF pic.mt > 0 THEN Sync ELSE UNCHANGED workerVars
ExitCritical ==
  /\ at = "exit" /\ main = "out"
  /\ ExitSyncs
  /\ Goto("teardown")
  /\ UNCHANGED <<pic, mb_y, cache_id, ctx, setup, bufferVars, finishVars>>

Teardown(then) ==
  /\ at = "teardown" /\ main = "out"
  /\ setup' = FALSE
  /\ Goto(then)
  /\ UNCHANGED <<workerVars, pic, mb_y, cache_id, ctx, bufferVars, finishVars>>

(* VP8Clear ends the worker; then the memory is freed.                     *)
Clear ==
  /\ at = "clear"
  /\ End
  /\ Goto("over")
  /\ UNCHANGED <<pic, mb_y, cache_id, ctx, setup, bufferVars, finishVars>>

Free ==
  /\ at = "over" /\ main = "out"
  /\ Goto("off")
  /\ UNCHANGED <<workerVars, pic, mb_y, cache_id, ctx, setup, bufferVars,
                 finishVars>>

-------------------------------------------------------------------------------
(* The worker's own steps that the hook has no part in.                    *)
MainWaits == MainRuns /\ UNCHANGED rowVars
ThreadWaits == (Idles \/ Quits) /\ UNCHANGED rowVars

WorkerSpurious == Spurious /\ UNCHANGED rowVars

FinishSteps == Rebuild \/ FilterRow \/ AlphaFails \/ \E ok \in BOOLEAN : Put(ok)
ProcessSteps == Direct \/ SyncJob \/ JobFailed \/ Hand \/ Launched

DecodeSteps ==
  \/ \E ok \in BOOLEAN : EnterCritical(ok, "clear") \/ AllocateMemory(ok)
  \/ InitThread \/ ParseRow \/ ParseFails
  \/ ProcessSteps \/ NextRow(BrRow(pic), "parse", "last")
  \/ LastJob \/ ExitCritical \/ Teardown("clear") \/ Clear \/ Free

RowsGoOn == DecodeSteps \/ FinishSteps \/ TakeRow \/ MainWaits \/ ThreadWaits

RowsNext == RowsGoOn \/ WorkerSpurious

RowsSpec == WorkerInit /\ RowsInit /\ [][RowsNext]_<<workerVars, rowVars>>
              /\ WF_<<workerVars, rowVars>>(DecodeSteps)
              /\ WF_<<workerVars, rowVars>>(MainWaits)
              /\ WF_<<workerVars, rowVars>>(FinishSteps \/ TakeRow \/ ThreadWaits)

-------------------------------------------------------------------------------
(* Properties.                                                             *)

(* put() gets the lines of the crop area from top to bottom, every line    *)
(* once (frame_dec.c:433-482).                                             *)
LinesInOrder ==
  \A i \in DOMAIN out :
    out[i].from = IF i = 1 THEN pic.top ELSE out[i - 1].to

(* Each is final, as decoding the whole picture in one thread would make   *)
(* it, although the next row was parsed meanwhile, its filter was not      *)
(* there yet and the cache was used in turn (frame_dec.c:485, 523, 532).   *)
LinesFinal == \A i \in DOMAIN out : out[i].right

(* A decoder that ends without an error has put all of the crop area.      *)
AllPut == out # <<>> /\ out[Len(out)].to = pic.bottom
AllLinesPut == at = "clear" /\ mb_y = BrRow(pic) /\ ~had_error => AllPut

(* While no setup() is open, or none any more, no job of the worker runs   *)
(* put(), and memory and worker go after the last job only                 *)
(* (frame_dec.c:604).                                                      *)
NoPutAfterTeardown ==
  ~setup /\ at # "none" => finish = "no" /\ status # "WORK"
NothingLeftOver == at = "off" => ~impl /\ ~setup /\ thread = "none"

(* teardown() is called once for each setup() that has succeeded, an error *)
(* of the last job, and a decoder deleted afterwards, included             *)
(* (frame_dec.c:551, 608; idec_dec.c:285, 502, 670).                       *)
TeardownOnce == at = "teardown" => setup

(* What is put is the picture, while it may be put, and nothing else is    *)
(* left of it.                                                             *)
RowsSound ==
  /\ LinesInOrder /\ LinesFinal /\ AllLinesPut
  /\ NoPutAfterTeardown /\ TeardownOnce /\ NothingLeftOver
===============================================================================
