--------------------------- MODULE LosslessDecoder ----------------------------
(***************************************************************************)
(* The incremental decoder of lossless pictures: the VP8L states of        *)
(* idec_dec.c, and DecodeImageData in vp8l_dec.c.  The header is read from *)
(* its beginning in every call until it is there as a whole.  The pixels   *)
(* are decoded symbol by symbol.  From time to time a checkpoint is made   *)
(* of the bit reader, the number of pixels and the color cache; when the   *)
(* data end within a symbol the decoder goes back there and is suspended.  *)
(* Rows go out in blocks of up to 16, also such as are decoded again after *)
(* the decoder has gone back before them.                                  *)
(*                                                                         *)
(* A symbol says how many pixels it stands for and which unit of the data  *)
(* it ends with; its position in the stream stands for that of the reader. *)
(* What the pixels are is abstracted to whether all were made of the right *)
(* symbols.  Data behind the chunk are left out.                           *)
(***************************************************************************)
EXTENDS Integers, Sequences

CONSTANTS
  Images,   \* bound: the pictures, numbered
  Portions  \* bound: how many units of data come at a time

SymbolType == [kind : {"literal", "trivial", "copy", "key"}, len : Nat \ {0},
               first : Nat, end : Nat]

ASSUME LosslessAssumption ==
  /\ Portions \subseteq Nat
  /\ \A i \in DOMAIN Images :
       LET p == Images[i]
       IN  /\ p.width \in Nat \ {0}
           /\ p.height \in Nat \ {0}
           /\ p.height <= 16384        \* VP8L_IMAGE_SIZE_BITS
           /\ p.top \in Nat /\ p.bottom \in (p.top + 1)..p.height
           /\ p.chunk \in Nat \ {0}    \* units in its chunk: too few, perhaps
           /\ p.header \in Nat \ {0}   \* units of the header in the chunk
           /\ p.cache \in BOOLEAN      \* it has a color cache
           /\ p.symbols \in Seq(SymbolType) /\ p.symbols # <<>>
           /\ p.symbols[1].first = 0
           /\ \A k \in 1..Len(p.symbols) :
                LET sym == p.symbols[k]
                IN /\ sym.kind # "copy" => sym.len = 1
                   /\ sym.kind = "key" => p.cache
                   /\ sym.first + sym.len = IF k = Len(p.symbols)
                                            THEN p.width * p.height
                                            ELSE p.symbols[k + 1].first

VARIABLES
  file,       \* which picture it is
  lstate,     \* idec->state_
  lat,        \* where the call is
  lmode,      \* mem_.mode_
  arrived,    \* units in the buffer; the first one is the header of the file
  reader,     \* dec->br_: the symbol it is at, eos_, and whether its buffer
              \* is where the data have been
  src,        \* pixels decoded: dec->last_pixel_, in the loop src - data
  colors,     \* dec->hdr_.color_cache_: the pixels in it; -1 if not the first
  last_cached,   \* how many have been given to it in this call
  incremental,   \* dec->incremental_
  next_sync_row,
  checkpoint, \* saved_br_, saved_last_pixel_ and saved_color_cache_
  ready,      \* dec->state_ is READ_DATA
  last_row,   \* dec->last_row_
  correct,    \* history variable: every pixel is what the stream says
  rows,       \* history variable: the rows that were put out
  told        \* what the last call returned

loopVars == <<last_cached, incremental, next_sync_row, checkpoint>>
pixelVars == <<reader, src, colors, ready, last_row, correct, rows>>
vp8lVars == <<file, lstate, lat, lmode, arrived, loopVars, pixelVars, told>>

image == Images[file]
Symbols == Len(image.symbols)
Chunk == image.chunk                                  \* idec->chunk_size_
InChunk == IF arrived = 0 THEN 0 ELSE arrived - 1     \* MemDataSize
Never == 16777216                                     \* 1 << 24
RowOf(n) == n \div image.width
SrcLast == image.width * image.bottom
SrcEnd == image.width * image.height

(* The types of the fields and locals.                                     *)
LosslessTypeOK ==
  /\ file \in DOMAIN Images
  /\ lstate \in {"WEBP_HEADER", "VP8L_HEADER", "VP8L_DATA", "DONE", "ERROR"}
  /\ lat \in {"user", "headers", "header", "data", "loop", "gone", "none"}
  /\ lmode \in {"NONE", "APPEND", "MAP"}
  /\ arrived \in 0..(Chunk + 1)
  /\ reader \in [at : 0..(Symbols + 1), eos : BOOLEAN, stale : BOOLEAN]
  /\ src \in 0..SrcEnd /\ colors \in -1..SrcEnd
  /\ last_cached \in 0..SrcEnd /\ incremental \in BOOLEAN
  /\ next_sync_row \in 0..Never
  /\ checkpoint \in [reader : [at : 0..(Symbols + 1), eos : BOOLEAN,
                               stale : BOOLEAN],
                     src : 0..SrcEnd, colors : -1..SrcEnd]
  /\ last_row \in 0..image.height
  /\ ready \in BOOLEAN /\ correct \in BOOLEAN
  /\ rows \in Seq([from : 0..image.height, to : 0..image.height,
                   right : BOOLEAN])
  /\ told \in {"OK", "SUSPENDED", "ERROR", "OUT_OF_MEMORY", "INVALID_PARAM"}

AtBegin == [at |-> 1, eos |-> FALSE, stale |-> FALSE]
Nowhere == [at |-> 0, eos |-> FALSE, stale |-> TRUE]

LosslessStart(a) ==
  /\ file \in DOMAIN Images
  /\ lstate = "WEBP_HEADER" /\ lat = a /\ lmode = "NONE" /\ arrived = 0
  /\ reader = AtBegin /\ src = 0 /\ colors = 0
  /\ last_cached = 0 /\ incremental = FALSE /\ next_sync_row = 0
  /\ checkpoint = [reader |-> Nowhere, src |-> 0, colors |-> 0]
  /\ ready = FALSE /\ last_row = 0 /\ correct = TRUE /\ rows = <<>>
  /\ told = "SUSPENDED"
LosslessInit == LosslessStart("user")

Return(a) == told' = a /\ lat' = "user"
Fail(a) == lstate' = "ERROR" /\ Return(a)

-------------------------------------------------------------------------------
(* WebPIAppend and WebPIUpdate.                                            *)

Listens == lat = "user" /\ lstate \notin {"DONE", "ERROR"}

(* A portion is there, and all of the data perhaps at another place.       *)
(* DoRemap takes the reader there, and not the checkpoint.                 *)
Bring(n, m, moved) ==
  /\ Listens /\ lmode \in {"NONE", m} /\ arrived + n <= Chunk + 1
  /\ lmode' = m
  /\ arrived' = arrived + n
  /\ reader' = [reader EXCEPT !.stale = FALSE]
  /\ checkpoint' = [checkpoint EXCEPT !.reader.stale = @ \/ moved]
  /\ lat' = CASE lstate = "WEBP_HEADER" -> "headers"
              [] lstate = "VP8L_HEADER" -> "header"
              [] lstate = "VP8L_DATA" -> "data"
  /\ UNCHANGED <<file, lstate, last_cached, incremental, next_sync_row, src,
                 colors, ready, last_row, correct, rows, told>>

(* No memory to append it, or the other one of the two calls.              *)
BringFails ==
  /\ Listens
  /\ \/ lmode # "MAP" /\ lmode' = "APPEND" /\ Return("OUT_OF_MEMORY")
     \/ lmode # "NONE" /\ Return("INVALID_PARAM") /\ UNCHANGED lmode
  /\ UNCHANGED <<file, lstate, arrived, loopVars, pixelVars>>

-------------------------------------------------------------------------------
(* The headers.                                                            *)

FileHeader ==
  /\ lat = "headers"
  /\ IF arrived = 0 THEN Return("SUSPENDED") /\ UNCHANGED lstate
     ELSE \/ lstate' = "VP8L_HEADER" /\ lat' = "header" /\ UNCHANGED told
          \/ Fail("ERROR")
          \/ Return("OUT_OF_MEMORY") /\ UNCHANGED lstate
  /\ UNCHANGED <<file, lmode, arrived, loopVars, pixelVars>>

(* A header that breaks off looks like a wrong one; what was read of it is *)
(* thrown away.  Memory may be short before and after that.                *)
DecodeVP8LHeader ==
  /\ lat = "header"
  /\ IF InChunk < Chunk \div 8 \/ InChunk < image.header
     THEN /\ \/ InChunk < Chunk /\ Return("SUSPENDED") /\ UNCHANGED lstate
             \/ InChunk >= Chunk \div 8 /\ Fail("ERROR")
          /\ UNCHANGED <<reader, src, colors>>
     ELSE \/ /\ lstate' = "VP8L_DATA" /\ lat' = "data"
             /\ reader' = AtBegin /\ src' = 0 /\ colors' = 0
             /\ UNCHANGED told
          \/ Fail("ERROR") /\ UNCHANGED <<reader, src, colors>>
  /\ UNCHANGED <<file, lmode, arrived, loopVars, ready, last_row, correct,
                 rows>>

-------------------------------------------------------------------------------
(* DecodeVP8LData and DecodeImageData.                                     *)

FirstSync_Next == RowOf(src) + 8
FirstSync == RowOf(src)
NextSync_Once == Never
NextSync == RowOf(src) + 8

DecodeVP8LData ==
  /\ lat = "data"
  /\ \/ /\ incremental' = (InChunk < Chunk)
        /\ next_sync_row' = IF incremental' THEN FirstSync ELSE Never
        /\ last_cached' = src
        /\ ready' = TRUE
        /\ lat' = "loop" /\ UNCHANGED <<lstate, told>>
     \/ /\ ~ready /\ Fail("ERROR")
        /\ UNCHANGED <<last_cached, incremental, next_sync_row, ready>>
  /\ UNCHANGED <<file, lmode, arrived, checkpoint, reader, src, colors,
                 last_row, correct, rows>>

(* ProcessRows, for the rows decoded after the last call; the buffer takes *)
(* 16 of them.                                                             *)
ProcessRows(s, row) ==
  LET from == IF s.last < image.top THEN image.top ELSE s.last
      to == IF row > image.bottom THEN image.bottom ELSE row
  IN [last |-> row,
      rows |-> IF row > s.last /\ from < to
               THEN Append(s.rows, [from |-> from, to |-> to,
                                    right |-> correct' /\ row <= s.last + 16])
               ELSE s.rows]

(* Of the rows that the pixels up to n complete, every 16th one calls it.  *)
IsBlock(r) == r % 16 = 0 /\ r <= image.bottom
Passed(n) ==
  LET P[k \in 0..(RowOf(n) - RowOf(src))] ==
        IF k = 0 THEN [last |-> last_row, rows |-> rows]
        ELSE IF IsBlock(RowOf(src) + k) THEN ProcessRows(P[k - 1], RowOf(src) + k)
        ELSE P[k - 1]
  IN P[RowOf(n) - RowOf(src)]
Process(s) == last_row' = s.last /\ rows' = s.rows

(* The color cache gets the pixels from last_cached up to n, if it has     *)
(* those before, and only those.                                           *)
Inserted(n) == IF last_cached >= n THEN colors
               ELSE IF colors = last_cached THEN n ELSE -1

Symbol == image.symbols[reader.at]
IsThere == Symbol.kind = "trivial" \/ image.header + Symbol.end <= InChunk

(* A checkpoint is made before the first symbol and every 8 rows.          *)
Synced ==
  IF RowOf(src) >= next_sync_row
  THEN /\ checkpoint' = [reader |-> reader, src |-> src, colors |-> colors]
       /\ next_sync_row' = NextSync
  ELSE UNCHANGED <<checkpoint, next_sync_row>>

(* Pixels enter the cache at the end of a row, after a copy, and before a  *)
(* color is looked up.                                                     *)
DecodeSymbol ==
  /\ lat = "loop" /\ src < SrcLast /\ ~reader.eos /\ IsThere
  /\ Synced
  /\ LET n == src + Symbol.len
         looked == IF Symbol.kind = "key" THEN Inserted(src) ELSE colors
         upto == IF Symbol.kind = "copy" \/ RowOf(n) > RowOf(src) THEN n
                 ELSE IF Symbol.kind = "key" THEN src ELSE last_cached
     IN /\ correct' = (/\ correct /\ ~reader.stale /\ Symbol.first = src
                       /\ Symbol.kind = "key" => looked = src)
        /\ src' = n
        /\ reader' = [reader EXCEPT !.at = @ + 1]
        /\ colors' = IF image.cache THEN Inserted(upto) ELSE colors
        /\ last_cached' = IF image.cache /\ upto > last_cached THEN upto
                          ELSE last_cached
        /\ Process(Passed(n))
  /\ UNCHANGED <<file, lstate, lat, lmode, arrived, incremental, ready, told>>

(* The data end within a symbol.                                           *)
EndOfStream ==
  /\ lat = "loop" /\ src < SrcLast /\ ~reader.eos /\ ~IsThere
  /\ Synced
  /\ reader' = [reader EXCEPT !.eos = TRUE]
  /\ UNCHANGED <<file, lstate, lat, lmode, arrived, last_cached, incremental,
                 src, colors, ready, last_row, correct, rows, told>>

(* A copy from before the first pixel or to behind the last one.           *)
WrongSymbol ==
  /\ lat = "loop" /\ src < SrcLast /\ ~reader.eos /\ IsThere
  /\ Symbol.kind = "copy"
  /\ Synced
  /\ Fail("ERROR")
  /\ UNCHANGED <<file, lmode, arrived, last_cached, incremental, pixelVars>>

RestoredColors_Keep == colors
RestoredColors == checkpoint.colors

RestoreState ==
  /\ lat = "loop" /\ incremental /\ reader.eos /\ src < SrcEnd
  /\ reader' = checkpoint.reader
  /\ src' = checkpoint.src
  /\ colors' = RestoredColors
  /\ Return("SUSPENDED")
  /\ UNCHANGED <<file, lstate, lmode, arrived, loopVars, ready, last_row,
                 correct, rows>>

(* All rows of the crop area are there.                                    *)
Finish ==
  /\ lat = "loop" /\ src >= SrcLast /\ ~reader.eos
  /\ UNCHANGED correct
  /\ Process(ProcessRows([last |-> last_row, rows |-> rows],
                         IF RowOf(src) > image.bottom THEN image.bottom
                         ELSE RowOf(src)))
  /\ lstate' = "DONE" /\ Return("OK")
  /\ UNCHANGED <<file, lmode, arrived, loopVars, reader, src, colors, ready>>

(* The chunk is there as a whole, and still too short.                     *)
TooShort ==
  /\ lat = "loop" /\ reader.eos /\ (~incremental \/ src >= SrcEnd)
  /\ Fail("ERROR")
  /\ UNCHANGED <<file, lmode, arrived, loopVars, pixelVars>>

(* WebPIDelete, between two calls.                                         *)
DeleteLossless ==
  /\ lat = "user"
  /\ lat' = "gone"
  /\ UNCHANGED <<file, lstate, lmode, arrived, loopVars, pixelVars, told>>

-------------------------------------------------------------------------------
LosslessUser ==
  \/ \E n \in Portions, m \in {"APPEND", "MAP"}, moved \in BOOLEAN :
       Bring(n, m, moved)
  \/ BringFails \/ DeleteLossless
LosslessSteps ==
  \/ FileHeader \/ DecodeVP8LHeader \/ DecodeVP8LData \/ DecodeSymbol
  \/ EndOfStream \/ WrongSymbol \/ RestoreState \/ Finish \/ TooShort

LosslessNext == LosslessUser \/ LosslessSteps

(* A call goes on; the user need not come again.                           *)
LosslessSpec ==
  LosslessInit /\ [][LosslessNext]_vp8lVars /\ WF_vp8lVars(LosslessSteps)

-------------------------------------------------------------------------------
(* Properties.                                                             *)

(* However the data are cut into portions, and although rows are decoded   *)
(* again, every row of the crop area is put out once and in order, made of *)
(* the right pixels, and never more than fit (vp8l_dec.c:788, 1140, 1234). *)
RowsOnce ==
  \A i \in DOMAIN rows :
    /\ rows[i].from = IF i = 1 THEN image.top ELSE rows[i - 1].to
    /\ rows[i].right

(* The next call goes on from a state that decoding in one go has, too:    *)
(* reader, pixels and color cache belong together, and a row is left to be *)
(* put out (vp8l_dec.c:1105, 1133).                                        *)
Resumable ==
  lat = "user" /\ lstate = "VP8L_DATA" =>
    /\ ~reader.eos /\ reader.at \in DOMAIN image.symbols
    /\ image.symbols[reader.at].first = src
    /\ image.cache => colors = src
    /\ last_row < image.bottom

(* A user with all the data is not asked for more, and who is told that    *)
(* the picture is done has all of it (idec_dec.c:551, 557).                *)
AskedOrDone ==
  /\ lat = "user" /\ told = "SUSPENDED" => arrived < Chunk + 1
  /\ lstate = "DONE" => rows # <<>> /\ rows[Len(rows)].to = image.bottom

LosslessSound == RowsOnce /\ Resumable /\ AskedOrDone

(* Every call returns.                                                     *)
LosslessReturns == lat \notin {"user", "none"} ~> lat \in {"user", "gone"}
===============================================================================
