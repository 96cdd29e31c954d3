------------------------------ MODULE IncDecoder ------------------------------
(***************************************************************************)
(* The incremental decoder of lossy pictures (idec_dec.c), on top of the   *)
(* rows of RowPipeline.  The data come in pieces, which WebPIAppend copies *)
(* to a buffer of its own and WebPIUpdate finds in the user's, and after   *)
(* each piece the decoder goes as far as it can.  It is a state machine of *)
(* headers, partition 0 (the modes of all rows) and macroblocks, whose     *)
(* data are in one partition or, row by row, in several.                   *)
(*                                                                         *)
(* A piece is a number of units: one for the headers, with the alpha plane,*)
(* two for partition 0 and two for each macroblock, which may be there in  *)
(* part.  A position is the number of units before it in the stream, so    *)
(* that moving the buffer does not change it; that a pointer is not moved  *)
(* along makes it stale.  Lossless pictures are in LosslessDecoder.        *)
(***************************************************************************)
EXTENDS RowPipeline, FiniteSets

CONSTANT Pieces  \* bound: how many units come at a time

ASSUME IncDecoderAssumption ==
  /\ Pieces \subseteq Nat
  /\ \A p \in Pictures :
       /\ p.mb_w \in Nat \ {0}     \* macroblocks in a row
       /\ p.parts \in {1, 2} /\ p.parts <= p.mb_h
       /\ p.bad \in Nat  \* number of a corrupt macroblock; 0 if none

VARIABLES
  state,     \* idec->state_
  mode,      \* mem_.mode_
  end,       \* mem_.end_
  start,     \* mem_.start_
  kept,      \* the first unit that is still in the buffer
  pos,       \* parts_[p].buf_
  stop,      \* parts_[p].buf_end_
  stale,     \* the readers that point to where the buffer has been
  modes,     \* rows whose modes have been read from partition 0
  last_mb_y, \* idec->last_mb_y_
  mb_x,      \* dec->mb_x_
  saved,     \* the position in the context to restore; -1 if there is none
  rowok,     \* history variable: the row's data are what the stream says
  alpha,     \* "no"; "needed" while the compressed data are; "decoded"
  deleting,  \* WebPIDelete has been called
  answer     \* what the last call returned

memVars  == <<mode, end, start, kept, stale>>
partVars == <<pos, stop, modes, last_mb_y, mb_x, saved, rowok>>
idecVars == <<state, memVars, partVars, alpha, deleting, answer>>
allVars  == <<workerVars, rowVars, idecVars>>

(* Where the parts of the stream are.                                      *)
Parts == 0..(pic.parts - 1)
LastPart == pic.parts - 1
Modes == 2  \* the readers beside those of Parts: br_, and alpha_data_
Alpha == 3
PartOf(row) == row % pic.parts
RowsOf(p, n) == Cardinality({r \in 0..(n - 1) : PartOf(r) = p})
Part0 == 1
Part0Size == 2
MbSize == 2
Begin(p) == Part0 + Part0Size
              + (IF p = 0 THEN 0 ELSE MbSize * pic.mb_w * RowsOf(0, pic.mb_h))
Total == Part0 + Part0Size + MbSize * pic.mb_w * pic.mb_h

(* The types of the fields and locals.                                     *)
IDecTypeOK ==
  /\ RowDataOK
  /\ state \in {"WEBP_HEADER", "VP8_HEADER", "VP8_PARTS0", "VP8_DATA", "DONE",
                "ERROR"}
  /\ mode \in {"NONE", "APPEND", "MAP"}
  /\ end \in 0..Total /\ start \in 0..end /\ kept \in 0..start
  /\ pos \in [Parts -> 0..Total] /\ stop \in [Parts -> 0..Total]
  /\ stale \subseteq {Modes, Alpha} \cup Parts
  /\ modes \in 0..pic.mb_h /\ last_mb_y \in -1..pic.mb_h
  /\ mb_x \in 0..pic.mb_w /\ saved \in -1..Total /\ rowok \in BOOLEAN
  /\ alpha \in {"no", "needed", "decoded"} /\ deleting \in BOOLEAN
  /\ answer \in {"OK", "SUSPENDED", "ERROR", "OUT_OF_MEMORY", "INVALID_PARAM"}
  /\ at \in {"user", "headers", "frame", "parts0", "setup", "init", "alloc",
             "parse", "mb", "starved", "direct", "sync", "hand", "launched",
             "next", "exit", "teardown", "clear", "over", "off", "none"}

IDecFields ==
  /\ state = "WEBP_HEADER" /\ mode = "NONE"
  /\ end = 0 /\ start = 0 /\ kept = 0 /\ stale = {}
  /\ pos = [p \in Parts |-> 0] /\ stop = [p \in Parts |-> 0]
  /\ modes = 0 /\ last_mb_y = -1 /\ mb_x = 0 /\ saved = -1 /\ rowok = TRUE
  /\ alpha = "no" /\ deleting = FALSE /\ answer = "SUSPENDED"
IDecInit == WorkerInit /\ RowsStart("user") /\ IDecFields

-------------------------------------------------------------------------------
(* WebPIAppend and WebPIUpdate.                                            *)

rowUnchanged == UNCHANGED <<workerVars, pic, mb_y, cache_id, ctx, setup,
                            bufferVars, finishVars>>

Answers(a) == answer' = a /\ Goto("user")

(* The readers that point into the buffer.  In a buffer of its own the     *)
(* decoder has copied partition 0 before.                                  *)
InBuffer ==
  IF state # "VP8_DATA" THEN (IF alpha = "needed" THEN {Alpha} ELSE {})
  ELSE Parts \cup (IF mode = "MAP" THEN {Modes} ELSE {})
             \cup (IF alpha = "needed" THEN {Alpha} ELSE {})

(* DoRemap moves the pointers along and gives the last partition the new   *)
(* data.                                                                   *)
Remapped == Parts \cup (IF mode = "MAP" THEN {Modes} ELSE {})
                  \cup (IF alpha = "needed" THEN {Alpha} ELSE {})
DoRemap(moved) ==
  /\ stale' = IF moved THEN stale \cup (InBuffer \ Remapped) ELSE stale
  /\ stop' = IF state = "VP8_DATA" THEN [stop EXCEPT ![LastPart] = end'] ELSE stop

(* Where the next call goes on.                                            *)
IDecode ==
  Goto(CASE state = "WEBP_HEADER" -> "headers"
         [] state = "VP8_HEADER" -> "frame"
         [] state = "VP8_PARTS0" -> "parts0"
         [] state = "VP8_DATA" -> "parse")

Open == at = "user" /\ state \notin {"DONE", "ERROR"}

(* A piece is appended.  A buffer that is too small is copied, from what   *)
(* is still needed on.                                                     *)
KeepsFrom_Start == start
KeepsFrom == IF alpha = "needed" THEN kept ELSE start

Append_(n, grows) ==
  /\ Open /\ mode # "MAP" /\ end + n <= Total
  /\ mode' = "APPEND"
  /\ end' = end + n
  /\ kept' = IF grows THEN KeepsFrom ELSE kept
  /\ DoRemap(grows)
  /\ IDecode
  /\ rowUnchanged
  /\ UNCHANGED <<state, start, pos, modes, last_mb_y, mb_x, saved, rowok, alpha,
                 deleting, answer>>

(* No memory for it: the piece is not taken.                               *)
AppendFails ==
  /\ Open /\ mode # "MAP"
  /\ mode' = "APPEND"
  /\ Answers("OUT_OF_MEMORY")
  /\ rowUnchanged
  /\ UNCHANGED <<state, end, start, kept, stale, partVars, alpha, deleting>>

(* All the data so far, perhaps at another place.                          *)
Update(n, moved) ==
  /\ Open /\ mode # "APPEND" /\ end + n <= Total
  /\ mode' = "MAP"
  /\ end' = end + n
  /\ DoRemap(moved)
  /\ IDecode
  /\ rowUnchanged
  /\ UNCHANGED <<state, start, kept, pos, modes, last_mb_y, mb_x, saved, rowok,
                 alpha, deleting, answer>>

(* The other one of the two calls, or less than there was.                 *)
Refuse ==
  /\ Open /\ mode # "NONE"
  /\ Answers("INVALID_PARAM")
  /\ rowUnchanged
  /\ UNCHANGED <<state, memVars, partVars, alpha, deleting>>

-------------------------------------------------------------------------------
(* Headers and partition 0.                                                *)

Has(n) == end - start >= n

(* ParsePartitions: all partitions but the last have to be there, for only *)
(* the last one grows later.                                               *)
PartitionsThere_Always == TRUE
PartitionsThere == end > Begin(LastPart)

Enough == CASE at = "headers" -> Has(Part0) [] at = "frame" -> Has(1)
            [] at = "parts0" -> Has(Part0Size) /\ PartitionsThere

Suspends ==
  /\ at \in {"headers", "frame", "parts0"} /\ ~Enough
  /\ Answers("SUSPENDED")
  /\ rowUnchanged
  /\ UNCHANGED <<state, memVars, partVars, alpha, deleting>>

(* The data are wrong, or memory for the output or partition 0 is short.   *)
HeadersFail ==
  /\ at \in {"headers", "frame", "parts0"} /\ Enough
  /\ state' = "ERROR" /\ Answers("ERROR")
  /\ rowUnchanged
  /\ UNCHANGED <<memVars, partVars, alpha, deleting>>

(* No memory for the decoder: this is not kept.                            *)
NewFails ==
  /\ at = "headers" /\ Enough
  /\ Answers("OUT_OF_MEMORY")
  /\ rowUnchanged
  /\ UNCHANGED <<state, memVars, partVars, alpha, deleting>>

DecodeWebPHeaders ==
  /\ at = "headers" /\ Enough
  /\ state' = "VP8_HEADER" /\ start' = start + Part0
  /\ alpha' = IF pic.alpha THEN "needed" ELSE "no"
  /\ Goto("frame")
  /\ rowUnchanged
  /\ UNCHANGED <<mode, end, kept, stale, partVars, deleting, answer>>

DecodeVP8FrameHeader ==
  /\ at = "frame" /\ Enough
  /\ state' = "VP8_PARTS0"
  /\ Goto("parts0")
  /\ rowUnchanged
  /\ UNCHANGED <<memVars, partVars, alpha, deleting, answer>>

(* start_ moves on by the size of the partition, not of the frame header.  *)
DecodePartition0 ==
  /\ at = "parts0" /\ Enough
  /\ pos' = [p \in Parts |-> Clip(Begin(p), end)]
  /\ stop' = [p \in Parts |-> IF p = LastPart THEN end ELSE Clip(Begin(p + 1), end)]
  /\ start' = start + Part0Size - 1
  /\ Goto("setup")
  /\ rowUnchanged
  /\ UNCHANGED <<state, mode, end, kept, stale, modes, last_mb_y, mb_x, saved,
                 rowok, alpha, deleting, answer>>

EntersData ==
  /\ EnterCritical(TRUE, "user")
  /\ state' = "VP8_DATA"
  /\ UNCHANGED <<memVars, partVars, alpha, deleting, answer>>

SetupFails ==
  /\ EnterCritical(FALSE, "user")
  /\ state' = "ERROR" /\ answer' = "ERROR"
  /\ UNCHANGED <<memVars, partVars, alpha, deleting>>

-------------------------------------------------------------------------------
(* DecodeRemaining.                                                        *)

(* The modes of a row are read once, even if it takes several calls.       *)
ModesDue == last_mb_y # mb_y

ParseModes ==
  /\ at = "parse"
  /\ IF ModesDue
     THEN /\ modes' = Clip(modes + 1, pic.mb_h) /\ rowok' = (modes = mb_y)
          /\ last_mb_y' = mb_y
          /\ Parsed(mb_y)
     ELSE UNCHANGED <<modes, rowok, last_mb_y, mb_data, f_info>>
  /\ Goto("mb")
  /\ UNCHANGED <<workerVars, pic, mb_y, cache_id, ctx, setup, mine, fmine,
                 finishVars, state, memVars, pos, stop, mb_x, saved, alpha,
                 deleting, answer>>

(* IDecError in the data: what is open gets closed on the way of "exit".   *)
ModesFail ==
  /\ at = "parse" /\ ModesDue
  /\ Goto("exit")
  /\ rowUnchanged /\ UNCHANGED idecVars

Reader == PartOf(mb_y)
MbNumber == mb_y * pic.mb_w + mb_x + 1
MbThere == pos[Reader] + MbSize <= stop[Reader] /\ MbNumber # pic.bad

(* What is read is what the stream has for this macroblock.                *)
MbRight ==
  /\ Reader \notin stale /\ Modes \notin stale
  /\ pos[Reader] >= kept
  /\ pos[Reader] = Begin(Reader)
                     + MbSize * (RowsOf(Reader, mb_y) * pic.mb_w + mb_x)
  /\ saved = -1

DecodeMB ==
  /\ at = "mb" /\ mb_x < pic.mb_w /\ MbThere
  /\ pos' = [pos EXCEPT ![Reader] = @ + MbSize]
  /\ mb_x' = mb_x + 1
  /\ rowok' = (rowok /\ MbRight)
  /\ Parsed(IF rowok' THEN mb_y ELSE -1)
  /\ start' = IF pic.parts = 1 THEN pos[Reader] + MbSize ELSE start
  /\ UNCHANGED <<workerVars, pic, at, mb_y, cache_id, ctx, setup, mine, fmine,
                 finishVars, state, mode, end, kept, stale, stop, modes,
                 last_mb_y, saved, alpha, deleting, answer>>

RowParsed ==
  /\ at = "mb" /\ mb_x = pic.mb_w
  /\ mb_x' = 0
  /\ Goto(IF pic.mt = 0 THEN "direct" ELSE "sync")
  /\ rowUnchanged
  /\ UNCHANGED <<state, memVars, pos, stop, modes, last_mb_y, saved, rowok, alpha,
                 deleting, answer>>

(* More data than a macroblock can have, and still not enough: an error.   *)
TooMuchData == pic.parts = 1 /\ end - start > MbSize

MbCorrupt ==
  /\ at = "mb" /\ mb_x < pic.mb_w /\ ~MbThere /\ TooMuchData
  /\ Goto("exit")
  /\ rowUnchanged /\ UNCHANGED idecVars

(* Otherwise the reader has run to the end of the data, and the thread is  *)
(* waited for before the user is told to come again.                       *)
StarvedSyncs_Never == UNCHANGED workerVars
StarvedSyncs == IF pic.mt > 0 THEN Sync ELSE UNCHANGED workerVars

MbStarves ==
  /\ at = "mb" /\ mb_x < pic.mb_w /\ ~MbThere /\ ~TooMuchData
  /\ saved' = pos[Reader]
  /\ pos' = [pos EXCEPT ![Reader] = stop[Reader]]
  /\ StarvedSyncs
  /\ Goto("starved")
  /\ UNCHANGED <<pic, mb_y, cache_id, ctx, setup, bufferVars, finishVars, state,
                 memVars, stop, modes, last_mb_y, mb_x, rowok, alpha, deleting,
                 answer>>

StarvedFails ==
  /\ at = "starved" /\ main = "out" /\ had_error
  /\ Goto("exit")
  /\ rowUnchanged /\ UNCHANGED idecVars

RestoredPos_Keep == pos
RestoredPos == [pos EXCEPT ![Reader] = saved]

RestoreContext ==
  /\ at = "starved" /\ main = "out" /\ ~had_error
  /\ pos' = RestoredPos /\ saved' = -1
  /\ Answers("SUSPENDED")
  /\ rowUnchanged
  /\ UNCHANGED <<state, memVars, stop, modes, last_mb_y, mb_x, rowok, alpha,
                 deleting>>

(* The compressed alpha plane is used up with the last line of the crop    *)
(* area.                                                                   *)
IDecPut(ok) ==
  /\ Put(ok)
  /\ alpha' = IF alpha = "needed" /\ YEnd = pic.bottom THEN "decoded" ELSE alpha
  /\ UNCHANGED <<state, memVars, partVars, deleting, answer>>

(* After teardown(): the end of DecodeRemaining, of IDecError or of        *)
(* WebPIDelete.                                                            *)
Complete_Rows == mb_y >= pic.mb_h - 1
Complete == mb_y = pic.mb_h /\ ~had_error

Closes ==
  /\ Teardown(IF deleting THEN "clear" ELSE "user")
  /\ IF deleting THEN UNCHANGED <<state, answer>>
     ELSE /\ state' = IF Complete THEN "DONE" ELSE "ERROR"
          /\ answer' = IF Complete THEN "OK" ELSE "ERROR"
  /\ UNCHANGED <<memVars, partVars, alpha, deleting>>

-------------------------------------------------------------------------------
(* WebPIDelete, at any time that no other call is under way.               *)
DeletesOpen_Never == FALSE
DeletesOpen_Always == state # "WEBP_HEADER"
DeletesOpen == state = "VP8_DATA"

WebPIDelete ==
  /\ at = "user"
  /\ deleting' = TRUE
  /\ Goto(IF DeletesOpen THEN "exit" ELSE "clear")
  /\ rowUnchanged
  /\ UNCHANGED <<state, memVars, partVars, alpha, answer>>

-------------------------------------------------------------------------------
UserCalls ==
  \/ \E n \in Pieces, there \in BOOLEAN : Append_(n, there) \/ Update(n, there)
  \/ AppendFails \/ Refuse \/ WebPIDelete

OfRows ==
  /\ \/ InitThread \/ \E ok \in BOOLEAN : AllocateMemory(ok)
     \/ ProcessSteps \/ NextRow(pic.mb_h, "parse", "exit") \/ ExitCritical
     \/ Clear \/ Free
  /\ UNCHANGED idecVars

DecoderSteps ==
  \/ Suspends \/ HeadersFail \/ NewFails \/ DecodeWebPHeaders
  \/ DecodeVP8FrameHeader \/ DecodePartition0 \/ EntersData \/ SetupFails
  \/ ParseModes \/ ModesFail \/ DecodeMB \/ RowParsed \/ MbCorrupt
  \/ MbStarves \/ StarvedFails \/ RestoreContext \/ Closes
  \/ OfRows

ThreadSteps ==
  \/ \E ok \in BOOLEAN : IDecPut(ok)
  \/ (Rebuild \/ FilterRow \/ AlphaFails \/ TakeRow \/ ThreadWaits)
       /\ UNCHANGED idecVars

IDecNext ==
  \/ UserCalls \/ DecoderSteps \/ ThreadSteps
  \/ (MainWaits \/ WorkerSpurious) /\ UNCHANGED idecVars

(* Calls go on and the thread does; the user need not come again.          *)
IDecFairness ==
  /\ WF_allVars(DecoderSteps)
  /\ WF_allVars(MainWaits /\ UNCHANGED idecVars)
  /\ WF_allVars(ThreadSteps)

IDecSpec == IDecInit /\ [][IDecNext]_allVars /\ IDecFairness

-------------------------------------------------------------------------------
(* Properties.  LinesInOrder and LinesFinal hold here as well: what comes  *)
(* out does not depend on the pieces the data come in.                     *)

(* Whenever the user has control the worker has nothing to do, so that the *)
(* buffer may be moved and the decoder deleted (idec_dec.c:476, 284, 670). *)
IdleOutside == at = "user" => status # "WORK" /\ thread # "hook"

(* No reader is left behind when the buffer moves, and nothing that will   *)
(* be read again is dropped from it (idec_dec.c:112, 170, 487).            *)
ReadersFollow ==
  at = "user" /\ state = "VP8_DATA" =>
    /\ stale = {}
    /\ \A p \in Parts : pos[p] >= kept
    /\ stop[LastPart] = end
    /\ alpha = "needed" => kept = 0

(* The caller is asked for more data only if some are missing or corrupt   *)
(* (idec_dec.c:482, vp8_dec.c:225).                                        *)
AskedForAReason ==
  at = "user" /\ ~deleting /\ answer = "SUSPENDED" /\ end = Total => pic.bad # 0

(* The whole picture has been put when the decoder says so                 *)
(* (idec_dec.c:499).                                                       *)
DoneIsComplete == state = "DONE" => AllPut

(* What the user of the decoder may rely on between two pieces.            *)
PiecesSound == IdleOutside /\ ReadersFollow /\ AskedForAReason /\ DoneIsComplete

(* Every call returns, and a decoder without a user, RowPipeline's, ends.  *)
IDecReturns == at \notin {"user", "none"} ~> at \in {"user", "off"}
===============================================================================
