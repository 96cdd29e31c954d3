-------------------------------- MODULE MCWebP --------------------------------
(***************************************************************************)
(* The thread worker and the programs that use it, one at a time: client   *)
(* says which.  What belongs to the others stays as it is.                 *)
(*   "any"     calls in any order a worker allows                          *)
(*   "batch"   the rows of a picture that is there as a whole              *)
(*   "inc"     the decoder of a picture that comes in pieces               *)
(*   "lossless"   the same for lossless pictures                           *)
(*   "lossy"   the encoder                                                 *)
(*   "stream"  the lossless encoder's main stream                          *)
(***************************************************************************)
EXTENDS IncDecoder, LosslessDecoder, Encoder, StreamEncoder

VARIABLE client

webpVars == <<client, workerVars, rowVars, idecVars, vp8lVars, encVars,
              streamVars>>

(* What the clients do not share; two decoders have rowVars in common, and *)
(* the lossless one needs no worker.                                       *)
OthersStay(c) ==
  /\ c \notin {"batch", "inc"} => UNCHANGED rowVars
  /\ c # "inc" => UNCHANGED idecVars
  /\ IF c = "lossless" THEN UNCHANGED workerVars ELSE UNCHANGED vp8lVars
  /\ c # "lossy" => UNCHANGED encVars
  /\ c # "stream" => UNCHANGED streamVars
With(c, A) == client = c /\ A /\ OthersStay(c) /\ UNCHANGED client

(* The whole picture, seven crops of it and all the methods; pieces for    *)
(* three pictures, one of which has a row below the crop area.             *)
Crops == {<<0, 64>>, <<0, 61>>, <<2, 16>>, <<16, 34>>, <<18, 24>>, <<32, 58>>,
          <<34, 40>>}
BatchPictures ==
  {[filter |-> f, mt |-> t, mb_h |-> 4, top |-> c[1], bottom |-> c[2],
    alpha |-> c[2] # 24, mb_w |-> 1, parts |-> 1, bad |-> 0] :
     f \in 0..2, t \in 0..2, c \in Crops}
Piecewise(f, t, z, n, b, a) ==
  [filter |-> f, mt |-> t, mb_h |-> 3, top |-> 0, bottom |-> z, alpha |-> a,
   mb_w |-> 2, parts |-> n, bad |-> b]
PiecePictures ==
  {Piecewise(2, 0, 40, 1, 4, FALSE), Piecewise(2, 2, 40, 1, 0, TRUE),
   Piecewise(1, 2, 24, 2, 0, FALSE)}
LossyPictures == BatchPictures \cup PiecePictures

(* Lossless pictures: streams of literals, copies over many rows and keys  *)
(* of the color cache, each but the trivial ones a unit of data long; with *)
(* and without a crop area; one whose chunk ends a unit too early.         *)
Many(n, kind) == [k \in 1..n |-> <<kind, 1>>]
Stream(list) ==
  LET First[k \in DOMAIN list] ==
        IF k = 1 THEN 0 ELSE First[k - 1] + list[k - 1][2]
      Units[k \in 0..Len(list)] ==
        IF k = 0 THEN 0
        ELSE Units[k - 1] + (IF list[k][1] = "trivial" THEN 0 ELSE 1)
  IN [k \in DOMAIN list |-> [kind |-> list[k][1], len |-> list[k][2],
                             first |-> First[k], end |-> Units[k]]]
Lossless(w, h, crop, keys, missing, list) ==
  LET s == Stream(list)
  IN [width |-> w, height |-> h, top |-> crop[1], bottom |-> crop[2],
      header |-> 2, cache |-> keys, symbols |-> s,
      chunk |-> 2 + s[Len(s)].end - missing]
LosslessPictures ==
  <<Lossless(1, 36, <<0, 36>>, FALSE, 0, Many(36, "literal")),
    Lossless(1, 36, <<3, 30>>, TRUE, 0,
            Many(6, "literal") \o <<<<"copy", 3>>, <<"key", 1>>, <<"copy", 7>>,
                                    <<"literal", 1>>, <<"copy", 14>>>>
            \o Many(4, "key")),
    Lossless(2, 20, <<0, 18>>, TRUE, 0,
            Many(5, "literal") \o <<<<"copy", 20>>>> \o Many(6, "key")
            \o <<<<"copy", 3>>>> \o Many(6, "trivial")),
    Lossless(2, 20, <<17, 20>>, FALSE, 1,
            <<<<"literal", 1>>, <<"copy", 30>>>> \o Many(9, "literal"))>>

(* One to three rows, threads or none, one pass or three.                  *)
Shot(t, a, n, k, s) ==
  [thread |-> t, alpha |-> a, rows |-> n, segments |-> n > 0, tokens |-> k,
   search |-> s, pass |-> IF s THEN 3 ELSE 1, bits |-> IF t THEN 4 ELSE 0]
Encodings ==
  {Shot(t, a, n, k, s) : t, a, k, s \in BOOLEAN, n \in {2, 3}}
  \cup {[Shot(TRUE, TRUE, 1, k, TRUE) EXCEPT !.segments = FALSE] : k \in BOOLEAN}
  \cup {[Shot(TRUE, FALSE, 1, k, FALSE) EXCEPT !.pass = 2] : k \in BOOLEAN}

(* A single configuration, or the four or five that are tried at most, the *)
(* shortest one in the first half, in the second or in both.               *)
Tries(t, z) == [threads |-> t, configs |-> Len(z), size |-> z]
StreamTries ==
  {Tries(t, z) : t \in BOOLEAN,
     z \in {<<5>>, <<5, 3, 4, 4>>, <<3, 3, 4, 2>>, <<9, 8, 7, 7, 6>>,
            <<4, 5, 6, 3, 3>>, <<5, 4, 6, 9, 9>>}}

(* TLC works out again and again what a constant is replaced by, but a     *)
(* definition that is named there only once.                               *)
MCPictures == LossyPictures
MCImages == LosslessPictures
MCShots == Encodings
MCStreams == StreamTries

Some(S) == CHOOSE x \in S : TRUE
Start(c) ==
  /\ CASE c = "batch" -> RowsStart("setup") /\ pic \in BatchPictures
       [] c = "inc" -> RowsStart("user") /\ pic \in PiecePictures
       [] OTHER -> RowsStart("none") /\ pic = Some(PiecePictures)
  /\ IDecFields
  /\ IF c = "lossless" THEN LosslessStart("user")
     ELSE LosslessStart("none") /\ file = 1
  /\ IF c = "lossy" THEN EncStart("analyze")
     ELSE EncStart("idle") /\ shot = Some(Encodings)
  /\ IF c = "stream" THEN StreamStart("new")
     ELSE StreamStart("idle") /\ stream = Some(StreamTries)

Init ==
  /\ client \in {"any", "batch", "inc", "lossless", "lossy", "stream"}
  /\ WorkerInit
  /\ Start(client)

Next ==
  \/ With("any", WorkerNext)
  \/ With("batch", RowsNext)
  \/ With("inc", IDecNext)
  \/ With("lossless", LosslessNext)
  \/ With("lossy", EncNext)
  \/ With("stream", StreamNext)

(* Each client's own fairness: that of its calls, of the worker's calls,   *)
(* and of the worker's thread.                                             *)
Calling ==
  \/ With("batch", DecodeSteps) \/ With("inc", DecoderSteps)
  \/ With("lossless", LosslessSteps)
  \/ With("lossy", MainCalls) \/ With("stream", StreamCalls)
Waiting ==
  \/ With("any", MainRuns)
  \/ With("batch", MainWaits) \/ With("inc", MainWaits /\ UNCHANGED idecVars)
  \/ With("lossy", EncMainWaits) \/ With("stream", StreamWaits)
Working ==
  \/ With("any", ThreadRuns)
  \/ With("batch", FinishSteps \/ TakeRow \/ ThreadWaits)
  \/ With("inc", ThreadSteps)
  \/ With("lossy", JobSteps) \/ With("stream", StreamJobs)
Fairness ==
  WF_webpVars(Calling) /\ WF_webpVars(Waiting) /\ WF_webpVars(Working)

Spec == Init /\ [][Next]_webpVars /\ Fairness

(* The types of all of them.                                               *)
WebPTypeOK ==
  /\ WorkerTypeOK /\ LosslessTypeOK /\ EncTypeOK /\ StreamTypeOK
  /\ IF client = "batch" THEN RowsTypeOK ELSE IDecTypeOK

(* Pictures that come in pieces, lossy and lossless: however they are cut, *)
(* what comes out is what comes out of the whole (idec_dec.c).             *)
DecodersSound == PiecesSound /\ LosslessSound

(* Every call of the library returns: a worker is the job slot it is said  *)
(* to be, and whoever waits for it goes on.                                *)
CallsReturn ==
  SlotKept /\ IDecReturns /\ LosslessReturns /\ EncodeReturns /\ StreamReturns
===============================================================================
