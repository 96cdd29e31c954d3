----------------------------- MODULE DecoderProofs ----------------------------
(***************************************************************************)
(* Proofs about the decoders of pictures that come in pieces: about        *)
(* LosslessDecoder, that what comes out is the picture, and about          *)
(* IncDecoder, that the same is true of its rows, which are those of       *)
(* WebPProofs, and that its buffer may move between two pieces.  Last      *)
(* about MCWebP, which has all programs that use the library.              *)
(***************************************************************************)
EXTENDS MCWebP, WebPProofs, WellFoundedInduction, SequenceTheorems, FiniteSetTheorems

-------------------------------------------------------------------------------
(* The decoder of lossless pictures, LosslessDecoder.                      *)

(* The reader is at a symbol and the pixels before it are decoded, or it   *)
(* is behind the last one.                                                 *)
Follows(p, r, s) ==
  /\ r.at \in 1..(Len(p.symbols) + 1)
  /\ IF r.at <= Len(p.symbols) THEN p.symbols[r.at].first = s
     ELSE s = p.width * p.height

(* What has been put out, up to row last.                                  *)
PutSoFar(p, rs, last) ==
  /\ rs \in Seq([from : 0..p.height, to : 0..p.height, right : BOOLEAN])
  /\ last \in 0..p.bottom
  /\ \A i \in 1..Len(rs) :
       rs[i].from = (IF i = 1 THEN p.top ELSE rs[i - 1].to) /\ rs[i].right
  /\ IF rs = <<>> THEN last <= p.top
     ELSE last > p.top /\ rs[Len(rs)].to = last

(* Every block before row r is put out, and of what follows less than the  *)
(* rows from one checkpoint to the next.                                   *)
BlocksPut(last, r) == last % 16 = 0 /\ 16 * (r \div 16) <= last /\ last < r + 8

(* A state to go on from.                                                  *)
RowAt(p, s) == s \div p.width
GoodPoint(p, r, s, c) ==
  /\ Follows(p, r, s) /\ ~r.eos
  /\ RowAt(p, s) < p.bottom
  /\ p.cache => c = s

Settled == lstate \in {"DONE", "ERROR"}
LHeaders == lstate \in {"WEBP_HEADER", "VP8L_HEADER"}

(* In the loop the data are decoded from a checkpoint on, which is made    *)
(* before the next symbol if a row has been completed that asks for it.    *)
LoopHolds ==
  /\ lstate = "VP8L_DATA"
  /\ incremental => InChunk < Chunk
  /\ last_cached <= src /\ (image.cache => colors = last_cached)
  /\ reader.eos => RowAt(image, src) < image.bottom
  /\ IF ~incremental THEN next_sync_row = Never
     ELSE IF RowAt(image, src) >= next_sync_row /\ ~reader.eos
     THEN image.cache => colors = src
     ELSE /\ GoodPoint(image, checkpoint.reader, checkpoint.src, checkpoint.colors)
          /\ ~checkpoint.reader.stale
          /\ BlocksPut(last_row, RowAt(image, checkpoint.src))
          /\ next_sync_row = RowAt(image, checkpoint.src) + 8

Where ==
  /\ Follows(image, reader, src)
  /\ RowAt(image, src) < image.bottom =>
       BlocksPut(last_row, RowAt(image, src)) /\ last_row < image.bottom
  /\ RowAt(image, src) >= image.bottom => image.bottom <= last_row + 16
  /\ lat # "loop" => GoodPoint(image, reader, src, colors)
  /\ LHeaders => src = 0 /\ last_row = 0

Control ==
  /\ lat \in {"headers", "header", "data", "loop"} => ~Settled /\ ~reader.stale
  /\ lat = "headers" => lstate = "WEBP_HEADER"
  /\ lat = "header" => lstate = "VP8L_HEADER"
  /\ lat = "data" => lstate = "VP8L_DATA"
  /\ lat = "user" /\ told = "SUSPENDED" => arrived < Chunk + 1

Completed == lstate = "DONE" => rows # <<>> /\ rows[Len(rows)].to = image.bottom

(* LosslessTypeOK, in parts.                                               *)
ReaderType(p) == [at : 0..(Len(p.symbols) + 1), eos : BOOLEAN, stale : BOOLEAN]
PixelType(p, r, s, c) ==
  r \in ReaderType(p) /\ s \in 0..(p.width * p.height) /\ c \in -1..(p.width * p.height)
LoopType(p, l, i, n, c) ==
  /\ l \in 0..(p.width * p.height) /\ i \in BOOLEAN /\ n \in 0..Never
  /\ c \in [reader : ReaderType(p), src : 0..(p.width * p.height),
             colors : -1..(p.width * p.height)]
ControlType ==
  /\ lstate \in {"WEBP_HEADER", "VP8L_HEADER", "VP8L_DATA", "DONE", "ERROR"}
  /\ lat \in {"user", "headers", "header", "data", "loop", "gone", "none"}
  /\ lmode \in {"NONE", "APPEND", "MAP"}
  /\ told \in {"OK", "SUSPENDED", "ERROR", "OUT_OF_MEMORY", "INVALID_PARAM"}
LTypes ==
  /\ file \in DOMAIN Images /\ ControlType
  /\ arrived \in 0..(image.chunk + 1)
  /\ PixelType(image, reader, src, colors)
  /\ LoopType(image, last_cached, incremental, next_sync_row, checkpoint)
  /\ ready \in BOOLEAN /\ correct = TRUE

LInv ==
  /\ LTypes
  /\ PutSoFar(image, rows, last_row)
  /\ Control
  /\ lat = "loop" => LoopHolds
  /\ ~Settled => Where
  /\ Completed

-------------------------------------------------------------------------------
(* Numbers.                                                                *)

(* Sets of numbers that hold 0 and every number's successor.               *)
LEMMA UpTo ==
  ASSUME NEW S \in SUBSET Nat, 0 \in S, \A n \in S : n + 1 \in S
  PROVE  S = Nat
<1>1. IsWellFoundedOn(OpToRel(<, Nat), Nat)
  BY NatLessThanWellFounded
<1>2. SUFFICES ASSUME Nat \ S # {} PROVE FALSE
  OBVIOUS
<1>3. PICK x \in Nat \ S : \A y \in Nat \ S : ~(<<y, x>> \in OpToRel(<, Nat))
  BY <1>1, <1>2, WFMin
<1>4. x # 0 /\ x - 1 \in Nat /\ x - 1 < x /\ (x - 1) + 1 = x
  <2>1. x \in Nat /\ x \notin S
    BY <1>3, Zenon
  <2>2. x # 0
    BY <2>1, Zenon
  <2> QED  BY <2>1, <2>2
<1>5. <<x - 1, x>> \in OpToRel(<, Nat)
  BY <1>4 DEF OpToRel
<1> QED  BY <1>3, <1>4, <1>5

LEMMA DivIs ==
  ASSUME NEW w \in Nat \ {0}, NEW n \in Nat
  PROVE  /\ n \div w \in Nat
         /\ w * (n \div w) <= n /\ n < w * (n \div w) + w
  OBVIOUS

(* A product grows with its factors, and a quotient with its dividend.     *)
LEMMA TimesMono ==
  ASSUME NEW w \in Nat, NEW a \in Nat, NEW b \in Nat, a <= b
  PROVE  w * a <= w * b
<1>1. PICK d \in Nat : b = a + d
  <2>1. b - a \in Nat /\ b = a + (b - a)
    OBVIOUS
  <2> QED  BY <2>1
<1>2. w * d \in Nat /\ w * b = w * a + w * d
  BY <1>1
<1> QED  BY <1>2

LEMMA DivBelow ==
  ASSUME NEW w \in Nat \ {0}, NEW n \in Nat, NEW b \in Nat
  PROVE  n < w * b <=> n \div w < b
<1> DEFINE q == n \div w
<1>1. q \in Nat /\ w * q <= n /\ n < w * q + w
  BY DivIs
<1> HIDE DEF q
<1>2. q < b => w * (q + 1) <= w * b
  BY <1>1, TimesMono
<1>3. b <= q => w * b <= w * q
  BY <1>1, TimesMono
<1>4. w * (q + 1) = w * q + w /\ w * b \in Nat /\ w * q \in Nat /\ w * (q + 1) \in Nat
  BY <1>1
<1>5. n < w * b <=> q < b
  <2>1. q < b \/ b <= q
    BY <1>1
  <2>2. CASE q < b
    BY <1>1, <1>2, <1>4, <2>2
  <2>3. CASE b <= q
    BY <1>1, <1>3, <1>4, <2>3
  <2> QED  BY <2>1, <2>2, <2>3
<1> QED  BY <1>5 DEF q

LEMMA DivMono ==
  ASSUME NEW w \in Nat \ {0}, NEW n \in Nat, NEW m \in Nat, n <= m
  PROVE  n \div w <= m \div w
<1>1. m \div w \in Nat /\ n \div w \in Nat /\ m < w * (m \div w + 1)
  BY DivIs
<1>2. n < w * (m \div w + 1)
  <2>1. m \div w + 1 \in Nat
    BY <1>1
  <2>2. w * (m \div w + 1) \in Nat
    BY <2>1
  <2> QED  BY <1>1, <2>2
<1>3. n \div w < m \div w + 1
  BY <1>1, <1>2, DivBelow
<1> QED  BY <1>1, <1>3

-------------------------------------------------------------------------------
(* The picture.                                                            *)

LEMMA ImageIs ==
  ASSUME file \in DOMAIN Images
  PROVE  /\ image.width \in Nat \ {0} /\ image.height \in Nat \ {0}
         /\ image.top \in Nat /\ image.bottom \in (image.top + 1)..image.height
         /\ image.chunk \in Nat \ {0} /\ image.header \in Nat \ {0}
         /\ image.cache \in BOOLEAN
<1> DEFINE p == Images[file]
<1>1. /\ p.width \in Nat \ {0} /\ p.height \in Nat \ {0}
      /\ p.top \in Nat /\ p.bottom \in (p.top + 1)..p.height
      /\ p.chunk \in Nat \ {0} /\ p.header \in Nat \ {0}
      /\ p.cache \in BOOLEAN
  BY LosslessAssumption, SMT
<1> QED  BY <1>1 DEF image

LEMMA NeverIs ==
  ASSUME file \in DOMAIN Images PROVE Never \in Nat /\ image.height + 8 < Never
<1>1. image.height \in Nat /\ image.height <= 16384
  BY LosslessAssumption, SMT DEF image
<1> QED  BY <1>1, SMT DEF Never

LEMMA SymbolsAre ==
  ASSUME file \in DOMAIN Images
  PROVE  /\ image.symbols \in Seq(SymbolType)
         /\ Symbols \in Nat \ {0}
         /\ image.symbols[1].first = 0
         /\ \A k \in 1..Symbols :
              /\ image.symbols[k] \in SymbolType
              /\ image.symbols[k].kind # "copy" => image.symbols[k].len = 1
              /\ image.symbols[k].kind = "key" => image.cache
              /\ image.symbols[k].first + image.symbols[k].len =
                   IF k = Symbols THEN SrcEnd ELSE image.symbols[k + 1].first
<1> DEFINE p == Images[file]
<1>1. /\ p.symbols \in Seq(SymbolType) /\ p.symbols # <<>>
      /\ p.symbols[1].first = 0
  BY LosslessAssumption, SMT
<1>2. ASSUME NEW k \in 1..Len(p.symbols)
      PROVE  /\ p.symbols[k].kind # "copy" => p.symbols[k].len = 1
             /\ p.symbols[k].kind = "key" => p.cache
             /\ p.symbols[k].first + p.symbols[k].len =
                  IF k = Len(p.symbols) THEN p.width * p.height
                  ELSE p.symbols[k + 1].first
  BY LosslessAssumption, SMT
<1>3. Len(p.symbols) \in Nat \ {0}
  BY <1>1, EmptySeq
<1>4. \A k \in 1..Len(p.symbols) : p.symbols[k] \in SymbolType
  BY <1>1
<1> QED  BY <1>1, <1>2, <1>3, <1>4 DEF Symbols, SrcEnd, image

LEMMA RowFacts ==
  ASSUME file \in DOMAIN Images
  PROVE  /\ SrcLast \in Nat /\ SrcEnd \in Nat /\ SrcLast <= SrcEnd
         /\ \A n \in Nat : /\ RowOf(n) \in Nat
                           /\ n < SrcLast <=> RowOf(n) < image.bottom
         /\ \A m, n \in Nat : m <= n => RowOf(m) <= RowOf(n)
<1>1. image.width \in Nat \ {0} /\ image.bottom \in Nat /\ image.height \in Nat
      /\ image.bottom <= image.height
  BY ImageIs
<1>2. SrcLast \in Nat /\ SrcEnd \in Nat /\ SrcLast <= SrcEnd
  BY <1>1, TimesMono DEF SrcLast, SrcEnd
<1>3. \A n \in Nat : RowOf(n) \in Nat /\ (n < SrcLast <=> RowOf(n) < image.bottom)
  BY <1>1, DivIs, DivBelow DEF RowOf, SrcLast
<1>4. \A m, n \in Nat : m <= n => RowOf(m) <= RowOf(n)
  BY <1>1, DivMono DEF RowOf
<1> QED  BY <1>2, <1>3, <1>4

(* No symbol stands for pixels behind the last one.                        *)
LEMMA FirstsBelow ==
  ASSUME file \in DOMAIN Images
  PROVE  \A k \in 1..Symbols : image.symbols[k].first + image.symbols[k].len \in 0..SrcEnd
<1> DEFINE sum(k) == image.symbols[k].first + image.symbols[k].len
           S == {n \in Nat : n < Symbols => sum(Symbols - n) \in 0..SrcEnd}
<1>1. /\ Symbols \in Nat \ {0} /\ SrcEnd \in Nat
      /\ \A k \in 1..Symbols : /\ image.symbols[k].first \in Nat
                               /\ image.symbols[k].len \in Nat
                               /\ sum(k) = IF k = Symbols THEN SrcEnd
                                           ELSE image.symbols[k + 1].first
  BY SymbolsAre, RowFacts DEF SymbolType
<1>2. 0 \in S
  BY <1>1
<1>3. ASSUME NEW n \in S PROVE n + 1 \in S
  <2> SUFFICES ASSUME n + 1 < Symbols PROVE sum(Symbols - (n + 1)) \in 0..SrcEnd
    OBVIOUS
  <2> DEFINE k == Symbols - (n + 1)
  <2>1. k \in 1..Symbols /\ k + 1 = Symbols - n /\ k + 1 \in 1..Symbols /\ k # Symbols
    BY <1>1
  <2>2. sum(k + 1) \in 0..SrcEnd
    BY <1>1, <2>1
  <2> HIDE DEF k
  <2>3. sum(k) \in 0..SrcEnd
    BY <1>1, <2>1, <2>2
  <2> QED  BY <2>3 DEF k
<1>4. S = Nat
  <2> HIDE DEF S
  <2>1. S \in SUBSET Nat
    BY DEF S
  <2> QED  BY <1>2, <1>3, <2>1, UpTo
<1>5. ASSUME NEW k \in 1..Symbols PROVE sum(k) \in 0..SrcEnd
  <2>1. Symbols - k \in Nat /\ Symbols - k < Symbols /\ Symbols - (Symbols - k) = k
    BY <1>1
  <2>2. Symbols - k \in S
    <3> HIDE DEF S
    <3> QED  BY <1>4, <2>1
  <2> QED  BY <2>1, <2>2
<1> QED  BY <1>5

-------------------------------------------------------------------------------
(* Rows put out.                                                           *)

LEMMA RowPut ==
  ASSUME file \in DOMAIN Images, NEW s, NEW upto \in Nat,
         PutSoFar(image, s.rows, s.last), s.last <= upto, upto <= s.last + 16,
         upto <= image.bottom, correct'
  PROVE  LET t == ProcessRows(s, upto) IN t.last = upto /\ PutSoFar(image, t.rows, upto)
<1> SUFFICES ASSUME NEW t, t = ProcessRows(s, upto)
             PROVE  t.last = upto /\ PutSoFar(image, t.rows, upto)
  OBVIOUS
<1> DEFINE from == IF s.last < image.top THEN image.top ELSE s.last
           e == [from |-> from, to |-> upto, right |-> TRUE]
           T == [from : 0..image.height, to : 0..image.height, right : BOOLEAN]
<1>1. /\ image.height \in Nat /\ image.top \in Nat /\ image.bottom \in Nat
      /\ image.top < image.bottom /\ image.bottom <= image.height
  BY ImageIs
<1>2. s.rows \in Seq(T) /\ s.last \in 0..image.bottom
  BY DEF PutSoFar
<1>3. /\ t.last = upto
      /\ t.rows = IF upto > s.last /\ from < upto THEN Append(s.rows, e) ELSE s.rows
  <2> DEFINE to == IF upto > image.bottom THEN image.bottom ELSE upto
             right == correct' /\ upto <= s.last + 16
             d == [from |-> from, to |-> to, right |-> right]
  <2>1. to = upto
    BY <1>1
  <2>2. right = TRUE
    OBVIOUS
  <2>3. t = [last |-> upto,
             rows |-> IF upto > s.last /\ from < to THEN Append(s.rows, d) ELSE s.rows]
    BY DEF ProcessRows
  <2> HIDE DEF from, to, right
  <2>4. d = e
    BY <2>1, <2>2
  <2> HIDE DEF d, e
  <2> QED  BY <2>1, <2>3, <2>4
<1>4. CASE ~(upto > s.last /\ from < upto)
  <2>1. t.rows = s.rows
    BY <1>3, <1>4
  <2>2. upto \in 0..image.bottom
    BY <1>1
  <2>3. CASE upto = s.last
    BY <1>3, <2>1, <2>3
  <2>4. CASE s.last < upto
    <3>1. upto <= image.top /\ s.last < image.top
      BY <1>1, <1>2, <1>4, <2>4
    <3>2. s.rows = <<>>
      BY <1>1, <1>2, <3>1 DEF PutSoFar
    <3>3. PutSoFar(image, s.rows, upto)
      BY <2>2, <3>1, <3>2 DEF PutSoFar
    <3> QED  BY <1>3, <2>1, <3>3
  <2> QED  BY <1>2, <2>3, <2>4
<1>5. CASE upto > s.last /\ from < upto
  <2>1. e \in T
    BY <1>1, <1>2, <1>5
  <2>2. /\ t.rows \in Seq(T) /\ Len(t.rows) = Len(s.rows) + 1 /\ t.rows # <<>>
        /\ \A i \in 1..Len(s.rows) : t.rows[i] = s.rows[i]
        /\ t.rows[Len(s.rows) + 1] = e
        /\ Len(s.rows) \in Nat /\ (s.rows # <<>> => Len(s.rows) # 0)
        /\ (s.rows = <<>> => Len(s.rows) = 0)
    <3>1. t.rows = Append(s.rows, e)
      BY <1>3, <1>5
    <3>2. Len(s.rows) \in Nat /\ (s.rows = <<>> <=> Len(s.rows) = 0)
      BY <1>2, EmptySeq
    <3> HIDE DEF e, T
    <3>3. t.rows # <<>>
      BY <1>2, <2>1, <3>1
    <3> QED  BY <1>2, <2>1, <3>1, <3>2, <3>3, AppendProperties
  <2>3. s.rows # <<>> => s.rows[Len(s.rows)].to = from
    BY <1>1, <1>2 DEF PutSoFar
  <2>4. s.rows = <<>> => from = image.top
    BY <1>1, <1>2 DEF PutSoFar
  <2>5. e.from = from /\ e.to = upto /\ e.right
    OBVIOUS
  <2>6. upto > image.top
    BY <1>1, <1>2, <1>5
  <2>7. \A i \in 1..Len(s.rows) :
          s.rows[i].from = (IF i = 1 THEN image.top ELSE s.rows[i - 1].to)
          /\ s.rows[i].right
    BY DEF PutSoFar
  <2> HIDE DEF e, from
  <2>8. ASSUME NEW i \in 1..Len(t.rows)
        PROVE  t.rows[i].from = (IF i = 1 THEN image.top ELSE t.rows[i - 1].to)
               /\ t.rows[i].right
    <3>1. CASE i \in 1..Len(s.rows)
      <4>1. i # 1 => i - 1 \in 1..Len(s.rows)
        BY <2>2, <3>1, SMTT(30)
      <4> QED  BY <2>2, <2>7, <3>1, <4>1
    <3>2. CASE i = Len(s.rows) + 1
      <4>1. i # 1 => i - 1 \in 1..Len(s.rows) /\ i - 1 = Len(s.rows) /\ s.rows # <<>>
        BY <2>2, <3>2
      <4>2. i = 1 => s.rows = <<>>
        BY <2>2, <3>2
      <4>3. t.rows[i] = e
        BY <2>2, <3>2
      <4>4. i # 1 => t.rows[i - 1].to = from
        BY <2>2, <2>3, <4>1
      <4> QED  BY <2>4, <2>5, <4>2, <4>3, <4>4
    <3> QED  BY <2>2, <3>1, <3>2, SMTT(30)
  <2>9. upto \in 0..image.bottom
    BY <1>1
  <2>10. PutSoFar(image, t.rows, upto)
    BY <2>2, <2>5, <2>6, <2>8, <2>9 DEF PutSoFar, T
  <2> QED  BY <1>3, <2>10
<1> QED  BY <1>4, <1>5

(* The function that Passed chooses.                                       *)
PassedBy(f, m) ==
  f = [k \in 0..m |->
         IF k = 0 THEN [last |-> last_row, rows |-> rows]
         ELSE IF IsBlock(RowOf(src) + k) THEN ProcessRows(f[k - 1], RowOf(src) + k)
         ELSE f[k - 1]]

LEMMA PassedThere == \A m \in Nat : \E f : PassedBy(f, m)
<1> DEFINE S == {m \in Nat : \E f : PassedBy(f, m)}
           begin == [last |-> last_row, rows |-> rows]
           step(s, k) == IF IsBlock(RowOf(src) + k)
                         THEN ProcessRows(s, RowOf(src) + k) ELSE s
<1>0. ASSUME NEW f, NEW m \in Nat
      PROVE  PassedBy(f, m)
               <=> f = [k \in 0..m |-> IF k = 0 THEN begin ELSE step(f[k - 1], k)]
  BY DEF PassedBy
<1> HIDE DEF begin, step
<1>1. 0 \in S
  <2> DEFINE h == [k \in 0..0 |-> begin]
  <2>1. h = [k \in 0..0 |-> IF k = 0 THEN begin ELSE step(h[k - 1], k)]
    OBVIOUS
  <2> HIDE DEF h
  <2> QED  BY <1>0, <2>1
<1>2. ASSUME NEW m \in S PROVE m + 1 \in S
  <2>1. PICK f : f = [k \in 0..m |-> IF k = 0 THEN begin ELSE step(f[k - 1], k)]
    BY <1>0
  <2> DEFINE h == [k \in 0..(m + 1) |-> IF k <= m THEN f[k] ELSE step(f[k - 1], k)]
  <2>2. ASSUME NEW k \in 0..(m + 1)
        PROVE  h[k] = IF k = 0 THEN begin ELSE step(h[k - 1], k)
    <3>1. k # 0 => k - 1 \in 0..m /\ k - 1 \in 0..(m + 1) /\ h[k - 1] = f[k - 1]
      OBVIOUS
    <3>2. k <= m => f[k] = IF k = 0 THEN begin ELSE step(f[k - 1], k)
      <4>1. k <= m => k \in 0..m
        OBVIOUS
      <4> QED  BY <2>1, <4>1
    <3>3. h[k] = IF k <= m THEN f[k] ELSE step(f[k - 1], k)
      OBVIOUS
    <3>4. k > m => k # 0
      OBVIOUS
    <3> HIDE DEF h
    <3> QED  BY <3>1, <3>2, <3>3, <3>4
  <2>3. h = [k \in 0..(m + 1) |-> IF k = 0 THEN begin ELSE step(h[k - 1], k)]
    <3>1. h = [k \in 0..(m + 1) |-> h[k]]
      OBVIOUS
    <3> HIDE DEF h
    <3>2. [k \in 0..(m + 1) |-> h[k]]
            = [k \in 0..(m + 1) |-> IF k = 0 THEN begin ELSE step(h[k - 1], k)]
      BY <2>2
    <3> QED  BY <3>1, <3>2
  <2> HIDE DEF h
  <2>4. m + 1 \in Nat
    OBVIOUS
  <2>5. PassedBy(h, m + 1)
    BY <1>0, <2>3, <2>4
  <2> QED  BY <2>4, <2>5
<1>3. S = Nat
  <2> HIDE DEF S
  <2>1. S \in SUBSET Nat
    BY DEF S
  <2> QED  BY <1>1, <1>2, <2>1, UpTo
<1> QED  BY <1>3

(* What the pixels up to n put out.                                        *)
PutOnTo(s, r) ==
  /\ PutSoFar(image, s.rows, s.last) /\ s.last % 16 = 0
  /\ last_row <= s.last /\ (s.last <= last_row \/ s.last <= r)
  /\ r <= image.bottom => 16 * (r \div 16) <= s.last
  /\ r > image.bottom => 16 * (image.bottom \div 16) <= s.last

LEMMA RowPassed ==
  ASSUME file \in DOMAIN Images, correct', PutSoFar(image, rows, last_row),
         NEW first \in Nat, last_row < first + 8,
         NEW r \in Nat, first < r, NEW s, PutOnTo(s, r - 1), s.last \in Nat,
         last_row \in Nat
  PROVE  PutOnTo(IF IsBlock(r) THEN ProcessRows(s, r) ELSE s, r)
<1>1. image.bottom \in Nat
  BY ImageIs
<1>2. CASE ~IsBlock(r)
  <2>1. r <= image.bottom => r % 16 # 0 /\ r - 1 <= image.bottom
    BY <1>1, <1>2 DEF IsBlock
  <2>2. r % 16 # 0 => r \div 16 = (r - 1) \div 16
    OBVIOUS
  <2>3. PutOnTo(s, r)
    BY <1>1, <2>1, <2>2 DEF PutOnTo
  <2> QED  BY <1>2, <2>3
<1>3. CASE IsBlock(r)
  <2>1. r % 16 = 0 /\ r <= image.bottom
    BY <1>3 DEF IsBlock
  <2>2. 16 * ((r - 1) \div 16) <= s.last /\ s.last % 16 = 0
        /\ last_row <= s.last /\ (s.last <= last_row \/ s.last <= r - 1)
    BY <1>1, <2>1 DEF PutOnTo
  <2>3. r = 16 * ((r - 1) \div 16) + 16
    BY <2>1
  <2>4. s.last <= r /\ r <= s.last + 16
    BY <2>1, <2>2, <2>3
  <2> DEFINE t == ProcessRows(s, r)
  <2>5. t.last = r /\ PutSoFar(image, t.rows, r)
    BY <2>1, <2>4, RowPut DEF PutOnTo
  <2>6. 16 * (r \div 16) = r
    BY <2>1
  <2> HIDE DEF t
  <2>7. PutOnTo(t, r)
    <3>1. PutSoFar(image, t.rows, t.last) /\ t.last % 16 = 0
      BY <2>1, <2>5
    <3>2. last_row <= t.last /\ t.last <= r
      BY <2>2, <2>4, <2>5
    <3>3. ~(r > image.bottom)
      BY <1>1, <2>1
    <3> HIDE DEF PutSoFar
    <3> QED  BY <2>5, <2>6, <3>1, <3>2, <3>3 DEF PutOnTo
  <2> QED  BY <1>3, <2>7 DEF t
<1> QED  BY <1>2, <1>3

LEMMA PassedPuts ==
  ASSUME file \in DOMAIN Images, correct', PutSoFar(image, rows, last_row), src \in Nat,
         RowOf(src) < image.bottom, BlocksPut(last_row, RowOf(src)),
         NEW n \in Nat, src <= n
  PROVE  PutOnTo(Passed(n), RowOf(n))
<1> DEFINE m == RowOf(n) - RowOf(src)
<1>1. m \in Nat /\ RowOf(src) \in Nat /\ RowOf(n) \in Nat /\ RowOf(n) = RowOf(src) + m
  BY RowFacts
<1> HIDE DEF m
<1>2. PICK f : PassedBy(f, m) /\ Passed(n) = f[m]
  <2> DEFINE g == CHOOSE f : PassedBy(f, m)
  <2>1. PassedBy(g, m)
    BY <1>1, PassedThere
  <2>2. Passed(n) = g[m]
    BY DEF Passed, PassedBy, m
  <2> QED  BY <2>1, <2>2
<1>3. /\ f[0] = [last |-> last_row, rows |-> rows]
      /\ \A k \in 1..m : f[k] = IF IsBlock(RowOf(src) + k)
                                THEN ProcessRows(f[k - 1], RowOf(src) + k)
                                ELSE f[k - 1]
  BY <1>1, <1>2 DEF PassedBy
<1>4. last_row \in Nat /\ last_row < RowOf(src) + 8 /\ image.bottom \in Nat
  BY <1>1, ImageIs DEF PutSoFar, BlocksPut
<1> DEFINE S == {k \in Nat : k <= m => PutOnTo(f[k], RowOf(src) + k)}
<1>5. 0 \in S
  <2>1. f[0].last = last_row /\ f[0].rows = rows
    BY <1>3
  <2>2. RowOf(src) + 0 = RowOf(src)
    BY <1>1
  <2>3. PutOnTo(f[0], RowOf(src))
    BY <1>1, <1>4, <2>1 DEF PutOnTo, BlocksPut
  <2> QED  BY <2>2, <2>3
<1>6. ASSUME NEW k \in S PROVE k + 1 \in S
  <2> SUFFICES ASSUME k + 1 <= m PROVE PutOnTo(f[k + 1], RowOf(src) + (k + 1))
    OBVIOUS
  <2>1. k + 1 \in 1..m /\ k <= m /\ (k + 1) - 1 = k
    BY <1>1
  <2> DEFINE r == RowOf(src) + (k + 1)
  <2>2. r \in Nat /\ r - 1 = RowOf(src) + k /\ RowOf(src) < r
    BY <1>1
  <2>3. PutOnTo(f[k], r - 1)
    BY <2>1, <2>2
  <2>4. f[k + 1] = IF IsBlock(r) THEN ProcessRows(f[k], r) ELSE f[k]
    BY <1>3, <2>1
  <2>5. f[k].last \in Nat
    BY <1>4, <2>3 DEF PutOnTo, PutSoFar
  <2> HIDE DEF r, S
  <2>6. PutOnTo(f[k + 1], r)
    BY <1>1, <1>4, <2>2, <2>3, <2>4, <2>5, RowPassed
  <2> QED  BY <2>6 DEF r
<1>7. S = Nat
  <2> HIDE DEF S
  <2>1. S \in SUBSET Nat
    BY DEF S
  <2> QED  BY <1>5, <1>6, <2>1, UpTo
<1>8. PutOnTo(f[m], RowOf(src) + m)
  <2>1. m <= m
    BY <1>1
  <2> QED  BY <1>1, <1>7, <2>1
<1> QED  BY <1>1, <1>2, <1>8
-------------------------------------------------------------------------------
(* Every step keeps LInv.                                                  *)

LEMMA TypesAre == ASSUME LInv PROVE LosslessTypeOK
<1>1. image.bottom \in Nat /\ image.bottom <= image.height /\ image.height \in Nat
  BY ImageIs DEF LInv, LTypes
<1>2. /\ last_row \in 0..image.height
      /\ rows \in Seq([from : 0..image.height, to : 0..image.height, right : BOOLEAN])
  BY <1>1 DEF LInv, PutSoFar
<1>3. LTypes
  BY DEF LInv
<1> QED  BY <1>2, <1>3
         DEF LTypes, ControlType, PixelType, LoopType, ReaderType, LosslessTypeOK,
         Symbols, Chunk, SrcEnd

LEMMA LosslessStarts ==
  ASSUME NEW a \in {"user", "none"}, LosslessStart(a)
  PROVE  LInv
<1> USE DEF LosslessStart
<1>1. file \in DOMAIN Images
  OBVIOUS
<1>2. /\ image.height \in Nat \ {0} /\ image.width \in Nat \ {0} /\ image.top \in Nat
      /\ image.bottom \in Nat /\ 0 < image.bottom /\ image.bottom <= image.height
      /\ Chunk \in Nat \ {0}
  BY <1>1, ImageIs DEF Chunk
<1>3. /\ Symbols \in Nat \ {0} /\ image.symbols[1].first = 0 /\ Len(image.symbols) = Symbols
      /\ SrcEnd \in Nat /\ image.width * image.height = SrcEnd
  BY <1>1, SymbolsAre, RowFacts DEF Symbols, SrcEnd
<1>4. LTypes
  <2>1. PixelType(image, reader, src, colors)
    BY <1>3 DEF PixelType, ReaderType, AtBegin
  <2>2. LoopType(image, last_cached, incremental, next_sync_row, checkpoint)
    <3>1. /\ 0 \in 0..(image.width * image.height) /\ 0 \in -1..(image.width * image.height)
          /\ 0 \in 0..Never
      BY <1>3, <1>1, NeverIs
    <3>2. Nowhere \in ReaderType(image)
      BY <1>3 DEF Nowhere, ReaderType
    <3>3. incremental \in BOOLEAN /\ last_cached = 0 /\ next_sync_row = 0
          /\ checkpoint = [reader |-> Nowhere, src |-> 0, colors |-> 0]
      OBVIOUS
    <3> QED  BY <3>1, <3>2, <3>3 DEF LoopType
  <2>3. ControlType /\ ready \in BOOLEAN /\ correct = TRUE
    BY DEF ControlType
  <2>4. arrived \in 0..(image.chunk + 1)
    BY <1>2 DEF Chunk
  <2> QED  BY <1>1, <2>1, <2>2, <2>3, <2>4 DEF LTypes
<1>5. PutSoFar(image, rows, last_row)
  BY <1>2 DEF PutSoFar
<1>6. RowAt(image, 0) = 0
  BY <1>2 DEF RowAt
<1>7. Follows(image, reader, src)
  BY <1>3 DEF Follows, AtBegin
<1>8. Where
  BY <1>2, <1>6, <1>7 DEF Where, GoodPoint, BlocksPut, AtBegin
<1>9. Control /\ Completed
  BY <1>2 DEF Control, Settled, Completed
<1> QED  BY <1>4, <1>5, <1>8, <1>9 DEF LInv

(* What the provers should know of a picture and of where main is in it.   *)
LEMMA ImageStays == ASSUME file' = file PROVE image' = image
  BY DEF image

LEMMA TypeThere ==
  ASSUME LInv
  PROVE  /\ file \in DOMAIN Images
         /\ src \in Nat /\ arrived \in Nat /\ last_cached \in Nat
         /\ Symbols \in Nat \ {0} /\ Chunk \in Nat \ {0} /\ SrcEnd \in Nat
         /\ RowAt(image, src) = RowOf(src) /\ RowAt(image, src) \in Nat
         /\ (src < SrcLast <=> RowAt(image, src) < image.bottom)
         /\ SrcLast \in Nat /\ SrcLast <= SrcEnd
         /\ image.bottom \in Nat \ {0} /\ image.bottom <= image.height
         /\ Never \in Nat
<1>1. file \in DOMAIN Images
  BY DEF LInv, LTypes
<1>2. Symbols \in Nat \ {0} /\ Chunk \in Nat \ {0} /\ SrcEnd \in Nat
  BY <1>1, ImageIs, SymbolsAre, RowFacts DEF Chunk
<1>3. src \in Nat /\ arrived \in Nat /\ last_cached \in Nat
  BY <1>1, <1>2 DEF LInv, LTypes, PixelType, LoopType, SrcEnd, Chunk
<1>4. RowAt(image, src) = RowOf(src)
  BY DEF RowAt, RowOf
<1>5. image.bottom \in Nat \ {0} /\ image.bottom <= image.height
  BY <1>1, ImageIs
<1> QED  BY <1>1, <1>2, <1>3, <1>4, <1>5, RowFacts, NeverIs

LEMMA BringKeeps ==
  ASSUME LInv, NEW n \in Portions, NEW m \in {"APPEND", "MAP"}, NEW moved \in BOOLEAN,
         Bring(n, m, moved)
  PROVE  LInv'
<1> USE DEF Bring, Listens
<1>1. image' = image
  BY ImageStays
<1>2. n \in Nat
  BY LosslessAssumption, SMT
<1>3. lstate \in {"WEBP_HEADER", "VP8L_HEADER", "VP8L_DATA"} /\ lat = "user"
  BY DEF LInv, LTypes, ControlType
<1>4. /\ lat' = IF lstate = "WEBP_HEADER" THEN "headers"
                ELSE IF lstate = "VP8L_HEADER" THEN "header" ELSE "data"
      /\ lstate' = lstate
  BY <1>3
<1>5. /\ reader' \in ReaderType(image)
      /\ reader'.at = reader.at /\ reader'.eos = reader.eos /\ ~reader'.stale
  BY DEF LInv, LTypes, PixelType, ReaderType
<1>6. checkpoint' \in [reader : ReaderType(image), src : 0..(image.width * image.height),
                       colors : -1..(image.width * image.height)]
  BY DEF LInv, LTypes, LoopType, ReaderType
<1>7. LTypes'
  <2>1. arrived' \in 0..(image.chunk + 1)
    BY <1>2, TypeThere DEF Chunk
  <2>2. PixelType(image, reader', src', colors')
    BY <1>5 DEF LInv, LTypes, PixelType
  <2>3. LoopType(image, last_cached', incremental', next_sync_row', checkpoint')
    BY <1>6 DEF LInv, LTypes, LoopType
  <2>4. ControlType'
    BY <1>3, <1>4 DEF LInv, LTypes, ControlType
  <2> QED  BY <1>1, <2>1, <2>2, <2>3, <2>4 DEF LInv, LTypes
<1>8. Where'
  BY <1>1, <1>3, <1>4, <1>5 DEF LInv, Where, GoodPoint, Follows, Settled, LHeaders
<1>9. Control' /\ Completed'
  BY <1>3, <1>4, <1>5 DEF LInv, Control, Completed, Settled
<1> QED  BY <1>1, <1>4, <1>7, <1>8, <1>9 DEF LInv

(* A call that returns at once, a header that is read, an error.           *)
LEMMA ControlKeeps ==
  ASSUME LInv, \/ BringFails \/ DeleteLossless \/ FileHeader \/ TooShort
               \/ UNCHANGED vp8lVars
  PROVE  LInv'
<1>1. image' = image /\ UNCHANGED <<file, arrived, loopVars, pixelVars>>
  BY ImageStays DEF BringFails, DeleteLossless, FileHeader, TooShort, vp8lVars
<1>2. LTypes'
  <2>1. ControlType'
    BY DEF LInv, LTypes, ControlType, BringFails, DeleteLossless, FileHeader, TooShort,
       vp8lVars, Return, Fail
  <2> QED  BY <1>1, <2>1 DEF LInv, LTypes, loopVars, pixelVars
<1>3. \/ UNCHANGED <<lstate, lat>>
      \/ lat' \in {"user", "gone"} /\ lstate' = lstate /\ lat # "loop"
      \/ lat = "headers" /\ lat' = "header" /\ lstate' = "VP8L_HEADER"
      \/ lat' = "user" /\ lstate' = "ERROR"
  BY DEF BringFails, DeleteLossless, FileHeader, TooShort, vp8lVars, Return, Fail,
     Listens
<1>4. (lat' = "user" /\ told' = "SUSPENDED") => arrived' < image.chunk + 1
  <2>1. \/ UNCHANGED <<told, lat>> \/ told' # "SUSPENDED" \/ arrived = 0 \/ lat' # "user"
    BY DEF BringFails, DeleteLossless, FileHeader, TooShort, vp8lVars, Return, Fail
  <2> QED  BY <1>1, <2>1, TypeThere DEF LInv, Control, Chunk
<1>5. Control' /\ Completed'
  BY <1>1, <1>3, <1>4 DEF LInv, Control, Completed, Settled, pixelVars, Chunk
<1>6. lat' = "loop" => LoopHolds'
  BY <1>1, <1>3 DEF LInv, LoopHolds, pixelVars, loopVars, InChunk, Chunk
<1>7. ~Settled' => Where'
  BY <1>1, <1>3 DEF LInv, Where, Settled, LHeaders, pixelVars, Control
<1> QED  BY <1>1, <1>2, <1>5, <1>6, <1>7 DEF LInv, pixelVars

LEMMA HeaderKeeps == ASSUME LInv, DecodeVP8LHeader PROVE LInv'
<1> USE DEF DecodeVP8LHeader
<1>1. image' = image
  BY ImageStays
<1>2. lstate = "VP8L_HEADER" /\ ~reader.stale /\ src = 0 /\ last_row = 0
  BY DEF LInv, Control, Where, Settled, LHeaders
<1>3. \/ /\ lstate' = lstate /\ lat' = "user" /\ UNCHANGED <<reader, src, colors>>
         /\ told' = "SUSPENDED" /\ InChunk < Chunk
      \/ /\ lstate' = "ERROR" /\ lat' = "user" /\ UNCHANGED <<reader, src, colors>>
         /\ told' = "ERROR"
      \/ /\ lstate' = "VP8L_DATA" /\ lat' = "data" /\ told' = told
         /\ reader' = AtBegin /\ src' = 0 /\ colors' = 0
  BY <1>2 DEF Return, Fail
<1>4. LTypes'
  <2>1. ControlType'
    BY <1>3 DEF LInv, LTypes, ControlType
  <2>2. PixelType(image, reader', src', colors')
    <3>1. AtBegin \in ReaderType(image) /\ 0 \in 0..(image.width * image.height)
          /\ 0 \in -1..(image.width * image.height)
      BY TypeThere DEF AtBegin, ReaderType, Symbols, SrcEnd
    <3> QED  BY <1>3, <3>1 DEF LInv, LTypes, PixelType
  <2> QED  BY <1>1, <2>1, <2>2 DEF LInv, LTypes, loopVars
<1>5. Control' /\ Completed'
  BY <1>1, <1>2, <1>3, TypeThere
  DEF LInv, Control, Completed, Settled, InChunk, AtBegin, Chunk
<1>6. ~Settled' => Where'
  <2>1. CASE lstate' = lstate /\ lat' = "user" /\ UNCHANGED <<reader, src, colors>>
    BY <1>1, <1>2, <2>1 DEF LInv, Where, Settled, LHeaders
  <2>2. CASE reader' = AtBegin /\ src' = 0 /\ colors' = 0 /\ lat' = "data"
             /\ lstate' = "VP8L_DATA"
    <3>1. Follows(image, reader', src')
      BY <2>2, TypeThere, SymbolsAre DEF Follows, AtBegin, Symbols
    <3> QED  BY <1>1, <1>2, <2>2, <3>1 DEF LInv, Where, GoodPoint, AtBegin, Settled, LHeaders
  <2> QED  BY <1>3, <2>1, <2>2 DEF Settled
<1> QED  BY <1>1, <1>3, <1>4, <1>5, <1>6 DEF LInv

LEMMA DataKeeps == ASSUME LInv, DecodeVP8LData PROVE LInv'
<1> USE DEF DecodeVP8LData
<1>1. image' = image
  BY ImageStays
<1>2. lstate = "VP8L_DATA" /\ ~reader.stale /\ GoodPoint(image, reader, src, colors)
  BY DEF LInv, Control, Where, Settled
<1>3. \/ /\ lstate' = lstate /\ lat' = "loop" /\ told' = told /\ ready' = TRUE
         /\ incremental' = (InChunk < Chunk)
         /\ next_sync_row' = IF incremental' THEN RowOf(src) ELSE Never
         /\ last_cached' = src
      \/ /\ lstate' = "ERROR" /\ lat' = "user" /\ told' = "ERROR"
         /\ UNCHANGED <<last_cached, incremental, next_sync_row, ready>>
  BY DEF Return, Fail, FirstSync
<1>4. RowOf(src) \in Nat /\ RowOf(src) < Never
  <2>1. image.height \in Nat
    BY TypeThere, ImageIs
  <2> QED  BY <1>2, <2>1, TypeThere, NeverIs DEF GoodPoint
<1>5. LTypes'
  <2>1. LoopType(image, last_cached', incremental', next_sync_row', checkpoint')
        /\ ready' \in BOOLEAN
    <3>1. last_cached' \in 0..(image.width * image.height) /\ next_sync_row' \in 0..Never
      BY <1>3, <1>4, TypeThere DEF LInv, LTypes, LoopType, PixelType
    <3>2. incremental' \in BOOLEAN /\ ready' \in BOOLEAN
      <4>1. (InChunk < Chunk) \in BOOLEAN
        OBVIOUS
      <4>2. incremental \in BOOLEAN /\ ready \in BOOLEAN
        BY DEF LInv, LTypes, LoopType
      <4> QED  BY <1>3, <4>1, <4>2
    <3>3. checkpoint' = checkpoint
      OBVIOUS
    <3> QED  BY <3>1, <3>2, <3>3 DEF LInv, LTypes, LoopType
  <2>2. ControlType'
    BY <1>3 DEF LInv, LTypes, ControlType
  <2> QED  BY <1>1, <2>1, <2>2 DEF LInv, LTypes
<1>6. Control' /\ Completed'
  BY <1>1, <1>2, <1>3 DEF LInv, Control, Completed, Settled
<1>7. ~Settled' => Where'
  BY <1>1, <1>2, <1>3 DEF LInv, Where, Settled, LHeaders
<1>8. lat' = "loop" => LoopHolds'
  <2> SUFFICES ASSUME lat' = "loop" PROVE LoopHolds'
    OBVIOUS
  <2>1. /\ lstate' = lstate /\ incremental' = (InChunk < Chunk) /\ last_cached' = src
        /\ next_sync_row' = IF incremental' THEN RowOf(src) ELSE Never
    BY <1>3
  <2>2. InChunk' = InChunk /\ Chunk' = Chunk
    BY <1>1 DEF InChunk, Chunk
  <2>3. image.cache => colors = src
    BY <1>2 DEF GoodPoint
  <2>4. ~reader'.eos /\ src' = src /\ colors' = colors
    BY <1>2 DEF GoodPoint
  <2>5. incremental' => InChunk' < Chunk'
    BY <2>1, <2>2
  <2>6. incremental' => RowAt(image, src') >= next_sync_row'
    BY <1>4, <2>1, TypeThere
  <2>7. ~incremental' => next_sync_row' = Never
    BY <2>1
  <2>8. last_cached' <= src' /\ (image.cache => colors' = last_cached')
    BY <2>1, <2>3, <2>4, TypeThere
  <2> QED  BY <1>1, <1>2, <2>1, <2>3, <2>4, <2>5, <2>6, <2>7, <2>8 DEF LoopHolds
<1> QED  BY <1>1, <1>5, <1>6, <1>7, <1>8 DEF LInv

(* Where the next symbol begins there is a checkpoint to go back to.       *)
LEMMA SyncedPoint ==
  ASSUME LInv, lat = "loop", src < SrcLast, ~reader.eos, Synced
  PROVE  /\ LoopType(image, last_cached, incremental, next_sync_row', checkpoint')
         /\ ~incremental => next_sync_row' = Never
         /\ incremental =>
              /\ GoodPoint(image, checkpoint'.reader, checkpoint'.src, checkpoint'.colors)
              /\ ~checkpoint'.reader.stale
              /\ BlocksPut(last_row, RowAt(image, checkpoint'.src))
              /\ next_sync_row' = RowAt(image, checkpoint'.src) + 8
              /\ RowAt(image, src) < next_sync_row'
<1>1. /\ LoopHolds /\ Where /\ ~reader.stale
      /\ LoopType(image, last_cached, incremental, next_sync_row, checkpoint)
      /\ PixelType(image, reader, src, colors)
  BY DEF LInv, LTypes, Control, Settled, LoopHolds
<1>2. RowOf(src) = RowAt(image, src) /\ RowAt(image, src) \in Nat /\ RowAt(image, src) < image.bottom
  BY TypeThere
<1>3. image.bottom \in Nat /\ image.height \in Nat /\ image.bottom <= image.height
      /\ Never \in Nat /\ image.height + 8 < Never
  BY TypeThere, ImageIs, NeverIs
<1>4. next_sync_row \in Nat
  BY <1>1, <1>3 DEF LoopType
<1>5. CASE RowOf(src) >= next_sync_row
  <2>1. /\ checkpoint' = [reader |-> reader, src |-> src, colors |-> colors]
        /\ next_sync_row' = RowAt(image, src) + 8
    BY <1>2, <1>5 DEF Synced, NextSync
  <2>2. incremental
    BY <1>1, <1>2, <1>3, <1>5 DEF LoopHolds
  <2>3. GoodPoint(image, reader, src, colors)
    BY <1>1, <1>2, <1>5, <2>2 DEF LoopHolds, Where, GoodPoint
  <2>4. checkpoint'.reader = reader /\ checkpoint'.src = src /\ checkpoint'.colors = colors
    BY <2>1
  <2>5. LoopType(image, last_cached, incremental, next_sync_row', checkpoint')
    <3>1. next_sync_row' \in 0..Never
      BY <1>2, <1>3, <2>1
    <3> QED  BY <1>1, <2>1, <3>1 DEF LoopType, PixelType
  <2>6. BlocksPut(last_row, RowAt(image, src))
    BY <1>1, <1>2 DEF Where
  <2>7. RowAt(image, src) < next_sync_row' /\ next_sync_row' = RowAt(image, src) + 8
    BY <1>2, <2>1
  <2> HIDE DEF LoopType, GoodPoint, BlocksPut
  <2> QED  BY <1>1, <2>2, <2>3, <2>4, <2>5, <2>6, <2>7
<1>6. CASE ~(RowOf(src) >= next_sync_row)
  <2>1. UNCHANGED <<checkpoint, next_sync_row>>
    BY <1>6 DEF Synced
  <2>2. RowAt(image, src) < next_sync_row
    BY <1>2, <1>4, <1>6
  <2> QED  BY <1>1, <1>2, <1>4, <2>1, <2>2 DEF LoopHolds
<1> QED  BY <1>5, <1>6

LEMMA EndKeeps == ASSUME LInv, EndOfStream PROVE LInv'
<1> USE DEF EndOfStream
<1>1. image' = image
  BY ImageStays
<1>2. /\ LoopHolds /\ Where /\ ~reader.stale /\ lstate = "VP8L_DATA"
      /\ PixelType(image, reader, src, colors)
  BY DEF LInv, LTypes, Control, LoopHolds, Settled
<1>3. reader' \in ReaderType(image) /\ reader'.at = reader.at /\ reader'.eos
      /\ reader'.stale = reader.stale
  BY <1>2 DEF PixelType, ReaderType
<1>4. LTypes'
  <2>1. LoopType(image, last_cached', incremental', next_sync_row', checkpoint')
    BY SyncedPoint
  <2>2. PixelType(image, reader', src', colors')
    BY <1>2, <1>3 DEF PixelType
  <2>3. ControlType'
    BY DEF LInv, LTypes, ControlType
  <2> QED  BY <1>1, <2>1, <2>2, <2>3 DEF LInv, LTypes
<1>5. Control' /\ Completed'
  BY <1>1, <1>2, <1>3 DEF LInv, Control, Completed, Settled
<1>6. Where'
  BY <1>1, <1>2, <1>3 DEF Where, Follows, LHeaders
<1>7. LoopHolds'
  <2>1. InChunk' = InChunk /\ Chunk' = Chunk
    BY <1>1 DEF InChunk, Chunk
  <2> QED  BY <1>1, <1>2, <1>3, <2>1, SyncedPoint, TypeThere DEF LoopHolds
<1> QED  BY <1>1, <1>4, <1>5, <1>6, <1>7 DEF LInv

LEMMA WrongKeeps == ASSUME LInv, WrongSymbol PROVE LInv'
<1> USE DEF WrongSymbol, Fail, Return
<1>1. image' = image
  BY ImageStays
<1>2. LTypes'
  <2>1. LoopType(image, last_cached', incremental', next_sync_row', checkpoint')
    BY SyncedPoint
  <2>2. ControlType'
    BY DEF LInv, LTypes, ControlType
  <2> QED  BY <1>1, <2>1, <2>2 DEF LInv, LTypes, pixelVars
<1>3. Control' /\ Completed'
  BY DEF LInv, Control, Completed, Settled
<1> QED  BY <1>1, <1>2, <1>3 DEF LInv, Settled, pixelVars

LEMMA RestoredKeeps == ASSUME LInv, RestoreState PROVE LInv'
<1> USE DEF RestoreState, Return, RestoredColors
<1>1. image' = image
  BY ImageStays
<1>2. /\ LoopHolds /\ Where /\ lstate = "VP8L_DATA"
      /\ LoopType(image, last_cached, incremental, next_sync_row, checkpoint)
  BY DEF LInv, LTypes, Control, LoopHolds, Settled
<1>3. /\ GoodPoint(image, reader', src', colors') /\ ~reader'.stale
      /\ BlocksPut(last_row, RowAt(image, src'))
      /\ last_row < image.bottom
      /\ InChunk < Chunk
  BY <1>2 DEF LoopHolds, Where
<1>4. LTypes'
  <2>1. PixelType(image, reader', src', colors')
    BY <1>2 DEF LoopType, PixelType
  <2>2. ControlType'
    BY DEF LInv, LTypes, ControlType
  <2> QED  BY <1>1, <1>2, <2>1, <2>2 DEF LInv, LTypes, loopVars
<1>5. Control' /\ Completed'
  BY <1>1, <1>2, <1>3, TypeThere DEF LInv, Control, Completed, Settled, InChunk, Chunk
<1>6. Where'
  <2>1. src' \in Nat
    BY <1>2, TypeThere DEF LoopType, SrcEnd
  <2>2. RowAt(image, src') \in Nat /\ RowAt(image, src') < image.bottom /\ image.bottom \in Nat
    BY <1>3, <2>1, RowFacts, TypeThere DEF GoodPoint, RowAt, RowOf
  <2>3. Follows(image, reader', src') /\ ~LHeaders'
    BY <1>2, <1>3 DEF GoodPoint, LHeaders
  <2> HIDE DEF Follows, GoodPoint, BlocksPut, RowAt
  <2> QED  BY <1>1, <1>3, <2>2, <2>3 DEF Where
<1> QED  BY <1>1, <1>4, <1>5, <1>6 DEF LInv

LEMMA FinishKeeps == ASSUME LInv, Finish PROVE LInv'
<1> USE DEF Finish, Return
<1>1. image' = image
  BY ImageStays
<1>2. /\ LoopHolds /\ Where /\ lstate = "VP8L_DATA"
      /\ PutSoFar(image, rows, last_row) /\ correct = TRUE
  BY DEF LInv, LTypes, Control, LoopHolds, Settled
<1>3. /\ RowAt(image, src) = RowOf(src) /\ RowOf(src) \in Nat /\ RowOf(src) >= image.bottom
      /\ image.bottom \in Nat
  BY TypeThere
<1> DEFINE t == ProcessRows([last |-> last_row, rows |-> rows], image.bottom)
<1>4. last_row' = t.last /\ rows' = t.rows
  <2>1. (IF RowOf(src) > image.bottom THEN image.bottom ELSE RowOf(src)) = image.bottom
    BY <1>3
  <2> QED  BY <2>1 DEF Process
<1>5. last_row \in 0..image.bottom /\ image.bottom <= last_row + 16
  BY <1>2, <1>3 DEF Where, PutSoFar
<1>6. last_row' = image.bottom /\ PutSoFar(image, rows', image.bottom)
  <2> DEFINE s == [last |-> last_row, rows |-> rows]
  <2>1. s.last = last_row /\ s.rows = rows
    OBVIOUS
  <2>2. file \in DOMAIN Images /\ correct'
    BY <1>2, TypeThere
  <2> HIDE DEF s
  <2>3. LET u == ProcessRows(s, image.bottom)
        IN  u.last = image.bottom /\ PutSoFar(image, u.rows, image.bottom)
    BY <1>2, <1>3, <1>5, <2>1, <2>2, RowPut
  <2> QED  BY <1>4, <2>3 DEF s
<1>7. LTypes'
  <2>1. ControlType'
    BY <1>2 DEF LInv, LTypes, ControlType
  <2> QED  BY <1>1, <2>1 DEF LInv, LTypes, loopVars
<1>8. Control'
  BY DEF Control
<1>9. Completed'
  BY <1>1, <1>6, TypeThere, ImageIs, SMTT(30) DEF Completed, PutSoFar
<1> QED  BY <1>1, <1>6, <1>7, <1>8, <1>9 DEF LInv, Settled

LEMMA SymbolKeeps == ASSUME LInv, DecodeSymbol PROVE LInv'
<1> DEFINE n == src + Symbol.len
           looked == IF Symbol.kind = "key" THEN Inserted(src) ELSE colors
           upto == IF Symbol.kind = "copy" \/ RowOf(n) > RowOf(src) THEN n
                   ELSE IF Symbol.kind = "key" THEN src ELSE last_cached
<1>1. /\ lat = "loop" /\ src < SrcLast /\ ~reader.eos /\ Synced
      /\ correct' = (/\ correct /\ ~reader.stale /\ Symbol.first = src
                     /\ Symbol.kind = "key" => looked = src)
      /\ src' = n
      /\ reader' = [reader EXCEPT !.at = @ + 1]
      /\ colors' = IF image.cache THEN Inserted(upto) ELSE colors
      /\ last_cached' = IF image.cache /\ upto > last_cached THEN upto ELSE last_cached
      /\ last_row' = Passed(n).last /\ rows' = Passed(n).rows
      /\ UNCHANGED <<file, lstate, lat, lmode, arrived, incremental, ready, told>>
  BY DEF DecodeSymbol, Process
<1>2. image' = image
  BY <1>1, ImageStays
<1>3. /\ LoopHolds /\ Where /\ ~reader.stale /\ lstate = "VP8L_DATA" /\ correct = TRUE
      /\ PixelType(image, reader, src, colors)
      /\ PutSoFar(image, rows, last_row)
  BY <1>1 DEF LInv, LTypes, Control, LoopHolds, Settled
<1>4. /\ src \in Nat /\ last_cached \in Nat /\ last_cached <= src
      /\ file \in DOMAIN Images /\ SrcEnd \in Nat /\ image.bottom \in Nat
      /\ SrcEnd = image.width * image.height /\ Symbols = Len(image.symbols)
      /\ RowAt(image, src) = RowOf(src) /\ RowOf(src) < image.bottom /\ RowOf(src) \in Nat
  BY <1>1, <1>3, TypeThere DEF LoopHolds, SrcEnd, Symbols
<1>5. reader.at \in 1..Symbols /\ Symbols \in Nat
  BY <1>1, <1>3, <1>4, TypeThere DEF Where, Follows
<1>6. /\ Symbol = image.symbols[reader.at] /\ Symbol \in SymbolType
      /\ Symbol.first = src /\ n \in 0..SrcEnd
      /\ (Symbol.kind = "key" => image.cache)
      /\ n = IF reader.at = Symbols THEN SrcEnd ELSE image.symbols[reader.at + 1].first
  <2>1. Symbol = image.symbols[reader.at] /\ Symbol.first = src
    BY <1>3, <1>4, <1>5 DEF Where, Follows, Symbol
  <2> QED  BY <1>4, <1>5, <2>1, SymbolsAre, FirstsBelow
<1>7. n \in Nat /\ src <= n /\ Symbol.len \in Nat
  BY <1>4, <1>6 DEF SymbolType
<1> HIDE DEF n
<1>8. /\ RowOf(n) \in Nat /\ RowOf(src) <= RowOf(n) /\ RowAt(image, n) = RowOf(n)
  BY <1>4, <1>7, RowFacts DEF RowAt, RowOf
(* The color cache. *)
<1>9. image.cache => /\ colors = last_cached
                     /\ looked = (IF Symbol.kind = "key" THEN src ELSE colors)
  BY <1>3, <1>4 DEF LoopHolds, Inserted
<1>10. /\ upto \in 0..n
       /\ RowOf(n) > RowOf(src) => upto = n
  BY <1>4, <1>7
<1> HIDE DEF upto
<1>11. /\ last_cached' \in 0..n
       /\ image.cache => colors' = last_cached'
       /\ image.cache /\ RowOf(n) > RowOf(src) => colors' = n
       /\ ~image.cache => colors' = colors
  <2>1. CASE ~image.cache
    BY <1>1, <1>4, <1>7, <2>1
  <2>2. CASE image.cache /\ upto > last_cached
    <3>1. Inserted(upto) = upto
      BY <1>4, <1>9, <1>10, <2>2 DEF Inserted
    <3> QED  BY <1>1, <1>10, <2>2, <3>1
  <2>3. CASE image.cache /\ ~(upto > last_cached)
    <3>1. Inserted(upto) = colors
      BY <1>4, <1>10, <2>3 DEF Inserted
    <3>2. RowOf(n) > RowOf(src) => last_cached = n
      BY <1>4, <1>7, <1>10, <2>3
    <3> QED  BY <1>1, <1>4, <1>7, <1>9, <2>3, <3>1, <3>2
  <2> QED  BY <2>1, <2>2, <2>3
<1>12. correct' = TRUE
  <2>1. Symbol.kind = "key" => looked = src
    BY <1>6, <1>9
  <2> HIDE DEF looked
  <2> QED  BY <1>1, <1>3, <1>6, <2>1
(* The rows. *)
<1>13. PutOnTo(Passed(n), RowOf(n))
  <2>1. BlocksPut(last_row, RowOf(src))
    BY <1>3, <1>4 DEF Where
  <2>2. correct'
    BY <1>12
  <2> QED  BY <1>3, <1>4, <1>7, <2>1, <2>2, PassedPuts
<1>14. /\ PutSoFar(image, rows', last_row') /\ last_row' % 16 = 0
       /\ last_row <= last_row' /\ (last_row' <= last_row \/ last_row' <= RowOf(n))
       /\ RowOf(n) <= image.bottom => 16 * (RowOf(n) \div 16) <= last_row'
       /\ RowOf(n) > image.bottom => 16 * (image.bottom \div 16) <= last_row'
       /\ last_row \in Nat /\ last_row' \in Nat
       /\ last_row % 16 = 0 /\ last_row < RowOf(src) + 8 /\ last_row < image.bottom
  BY <1>1, <1>3, <1>4, <1>13 DEF PutOnTo, PutSoFar, Where, BlocksPut
<1>15. RowOf(n) < image.bottom =>
         BlocksPut(last_row', RowOf(n)) /\ last_row' < image.bottom
  <2> SUFFICES ASSUME RowOf(n) < image.bottom
               PROVE  BlocksPut(last_row', RowOf(n)) /\ last_row' < image.bottom
    OBVIOUS
  <2>1. last_row' < RowOf(n) + 8 /\ last_row' < image.bottom
    BY <1>4, <1>8, <1>14
  <2>2. RowOf(n) <= image.bottom
    BY <1>4, <1>8
  <2>3. 16 * (RowOf(n) \div 16) <= last_row' /\ last_row' % 16 = 0
    BY <1>14, <2>2
  <2> QED  BY <2>1, <2>3 DEF BlocksPut
<1>16. RowOf(n) >= image.bottom => image.bottom <= last_row' + 16
  BY <1>4, <1>8, <1>14
(* Both. *)
<1>17. reader' \in ReaderType(image) /\ reader'.at = reader.at + 1
       /\ ~reader'.eos /\ ~reader'.stale
  BY <1>1, <1>3, <1>4, <1>5, SMTT(30) DEF PixelType, ReaderType
<1>18. Follows(image, reader', src')
  BY <1>1, <1>4, <1>5, <1>6, <1>17 DEF Follows
<1>19. LTypes'
  <2>1. LoopType(image, last_cached', incremental', next_sync_row', checkpoint')
    <3>1. last_cached' \in 0..SrcEnd
      BY <1>4, <1>6, <1>7, <1>11
    <3>2. LoopType(image, last_cached, incremental, next_sync_row', checkpoint')
      BY <1>1, SyncedPoint
    <3> QED  BY <1>1, <1>4, <3>1, <3>2 DEF LoopType
  <2>2. PixelType(image, reader', src', colors')
    <3>1. colors' \in -1..SrcEnd
      BY <1>3, <1>4, <1>6, <1>7, <1>11 DEF PixelType
    <3> QED  BY <1>1, <1>4, <1>6, <1>17, <3>1 DEF PixelType
  <2>3. ControlType'
    BY <1>1 DEF LInv, LTypes, ControlType
  <2> QED  BY <1>1, <1>2, <1>12, <2>1, <2>2, <2>3 DEF LInv, LTypes
<1>20. Control' /\ Completed'
  BY <1>1, <1>3, <1>17 DEF Control, Completed, Settled
<1>21. Where'
  BY <1>1, <1>2, <1>3, <1>8, <1>15, <1>16, <1>18 DEF Where, LHeaders
<1>22. LoopHolds'
  <2>1. incremental' => InChunk' < Chunk'
    BY <1>1, <1>2, <1>3 DEF LoopHolds, InChunk, Chunk
  <2>2. last_cached' <= src' /\ (image.cache => colors' = last_cached')
    BY <1>1, <1>7, <1>11
  <2>3. ~incremental' => next_sync_row' = Never
    BY <1>1, SyncedPoint
  <2>4. incremental' => \/ /\ RowAt(image, src') >= next_sync_row'
                           /\ image.cache => colors' = src'
                        \/ /\ RowAt(image, src') < next_sync_row'
                           /\ GoodPoint(image, checkpoint'.reader, checkpoint'.src,
                                        checkpoint'.colors)
                           /\ ~checkpoint'.reader.stale
                           /\ BlocksPut(last_row', RowAt(image, checkpoint'.src))
                           /\ next_sync_row' = RowAt(image, checkpoint'.src) + 8
    <3> SUFFICES ASSUME incremental
                 PROVE  \/ /\ RowAt(image, src') >= next_sync_row'
                           /\ image.cache => colors' = src'
                        \/ /\ RowAt(image, src') < next_sync_row'
                           /\ GoodPoint(image, checkpoint'.reader, checkpoint'.src,
                                        checkpoint'.colors)
                           /\ ~checkpoint'.reader.stale
                           /\ BlocksPut(last_row', RowAt(image, checkpoint'.src))
                           /\ next_sync_row' = RowAt(image, checkpoint'.src) + 8
      BY <1>1
    <3>1. /\ GoodPoint(image, checkpoint'.reader, checkpoint'.src, checkpoint'.colors)
          /\ ~checkpoint'.reader.stale
          /\ BlocksPut(last_row, RowAt(image, checkpoint'.src))
          /\ next_sync_row' = RowAt(image, checkpoint'.src) + 8
          /\ RowAt(image, src) < next_sync_row'
      BY <1>1, SyncedPoint
    <3>2. RowAt(image, src') = RowOf(n)
      BY <1>1, <1>8
    <3>3. next_sync_row' \in Nat
      BY <1>4, <1>19, TypeThere DEF LTypes, LoopType
    <3>4. CASE RowOf(n) >= next_sync_row'
      <4>1. RowOf(n) > RowOf(src)
        BY <1>4, <1>8, <3>1, <3>3, <3>4
      <4> QED  BY <1>1, <1>11, <3>2, <3>4, <4>1
    <3>5. CASE RowOf(n) < next_sync_row'
      <4>1. BlocksPut(last_row', RowAt(image, checkpoint'.src))
        <5> DEFINE c == RowAt(image, checkpoint'.src)
        <5>1. c + 8 \in Nat /\ last_row < c + 8 /\ 16 * (c \div 16) <= last_row
              /\ RowOf(n) < c + 8
          BY <3>1, <3>3, <3>5 DEF BlocksPut
        <5>2. c \in Int /\ c \div 16 \in Int
          <6>1. checkpoint'.src \in Nat
            BY <1>1, <1>4, SyncedPoint DEF LoopType
          <6>2. RowOf(checkpoint'.src) \in Nat
            BY <6>1, <1>4, RowFacts
          <6> QED  BY <6>2 DEF RowAt, RowOf
        <5>3. 16 * (c \div 16) \in Int /\ 16 * (c \div 16) <= last_row'
          <6> HIDE DEF c
          <6> QED  BY <1>14, <5>1, <5>2
        <5>4. last_row' < c + 8
          <6> HIDE DEF c
          <6> QED  BY <1>8, <1>14, <5>1, <5>2
        <5> QED  BY <1>14, <5>3, <5>4 DEF BlocksPut
      <4> QED  BY <3>1, <3>2, <3>5, <4>1
    <3> QED  BY <1>8, <3>3, <3>4, <3>5
  <2>5. lstate' = "VP8L_DATA" /\ ~reader'.eos
    BY <1>1, <1>3, <1>17
  <2>6. incremental' \in BOOLEAN /\ RowAt(image, src') \in Nat /\ next_sync_row' \in Nat
    BY <1>1, <1>8, <1>19, TypeThere DEF LTypes, LoopType
  <2> HIDE DEF RowAt, GoodPoint, BlocksPut
  <2> QED  BY <1>2, <2>1, <2>2, <2>3, <2>4, <2>5, <2>6 DEF LoopHolds
<1> QED  BY <1>1, <1>2, <1>14, <1>19, <1>20, <1>21, <1>22 DEF LInv

-------------------------------------------------------------------------------
LEMMA NextL == LInv /\ [LosslessNext]_vp8lVars => LInv'
  BY BringKeeps, ControlKeeps, HeaderKeeps, DataKeeps, SymbolKeeps, EndKeeps, WrongKeeps,
     RestoredKeeps, FinishKeeps
  DEF LosslessNext, LosslessUser, LosslessSteps

LEMMA LosslessInvariance == LosslessSpec => []LInv
<1>1. LosslessInit => LInv
  BY LosslessStarts DEF LosslessInit
<1>2. LInv /\ [LosslessNext]_vp8lVars => LInv'
  BY NextL
<1> QED  BY <1>1, <1>2, PTL DEF LosslessSpec

(* The fields of the lossless decoder have their types, however the data   *)
(* arrive and wherever they break off (idec_dec.c, vp8l_dec.c).            *)
THEOREM LosslessTypeCorrect == LosslessSpec => []LosslessTypeOK
<1>1. LInv => LosslessTypeOK
  BY TypesAre
<1> QED  BY <1>1, LosslessInvariance, PTL

(* LInv is what users of the lossless decoder rely on.                     *)
LEMMA SoundL == LInv => LosslessSound
<1> SUFFICES ASSUME LInv PROVE LosslessSound
  OBVIOUS
<1>1. RowsOnce
  <2>1. DOMAIN rows = 1..Len(rows)
    BY DEF LInv, PutSoFar
  <2> QED  BY <2>1 DEF LInv, PutSoFar, RowsOnce
<1>2. Resumable
  <2> SUFFICES ASSUME lat = "user", lstate = "VP8L_DATA"
               PROVE  /\ ~reader.eos /\ reader.at \in DOMAIN image.symbols
                      /\ image.symbols[reader.at].first = src
                      /\ image.cache => colors = src
                      /\ last_row < image.bottom
    BY DEF Resumable
  <2>1. GoodPoint(image, reader, src, colors) /\ Where
    BY DEF LInv, Where, Settled
  <2>2. src < SrcLast /\ SrcLast <= SrcEnd /\ src \in Nat /\ SrcLast \in Nat /\ SrcEnd \in Nat
        /\ Symbols \in Nat /\ Symbols = Len(image.symbols)
        /\ SrcEnd = image.width * image.height
    BY <2>1, TypeThere DEF GoodPoint, Symbols, SrcEnd
  <2>3. DOMAIN image.symbols = 1..Symbols
    BY TypeThere, SymbolsAre DEF Symbols
  <2>4. reader.at \in 1..Symbols /\ image.symbols[reader.at].first = src
    BY <2>1, <2>2 DEF GoodPoint, Follows
  <2> QED  BY <2>1, <2>3, <2>4 DEF GoodPoint, Where
<1>3. AskedOrDone
  BY DEF LInv, Control, Completed, AskedOrDone
<1> QED  BY <1>1, <1>2, <1>3 DEF LosslessSound

(* A lossless picture that comes in pieces is put out as it is: every row  *)
(* once, in order, of the right pixels and in blocks that fit; whenever    *)
(* the decoder is suspended it can go on (vp8l_dec.c:788, 1105, 1140).     *)
THEOREM LosslessCorrect == LosslessSpec => []LosslessSound
  BY LosslessInvariance, SoundL, PTL

-------------------------------------------------------------------------------
(* The incremental decoder of lossy pictures, IncDecoder.                  *)

(* The units of the rows of part p before row n, where part p begins and   *)
(* where the stream ends.                                                  *)
RowsIn(k, p, n) == {r \in 0..(n - 1) : r % k = p}
Units(q, p, n) == Cardinality(RowsIn(q.parts, p, n)) * q.mb_w
From(q, p) == 3 + (IF p = 0 THEN 0 ELSE 2 * Units(q, 0, q.mb_h))
Size(q) == From(q, q.parts - 1) + 2 * Units(q, q.parts - 1, q.mb_h)

LEMMA Product ==
  ASSUME NEW a \in Nat, NEW b \in Nat, NEW w \in Nat \ {0}
  PROVE  /\ a * w \in Nat /\ (a + 1) * w = a * w + w
         /\ a <= b => a * w <= b * w
         /\ a > 0 => a * w > 0
         /\ 0 * w = 0 /\ (a + b) * w = a * w + b * w
<1>1. a * w \in Nat /\ (a + 1) * w = a * w + w /\ 0 * w = 0 /\ (a + b) * w = a * w + b * w
  OBVIOUS
<1>2. a <= b => a * w <= b * w
  <2> SUFFICES ASSUME a <= b PROVE a * w <= b * w
    OBVIOUS
  <2>1. PICK c \in Nat : b = a + c
    <3>1. b - a \in Nat /\ b = a + (b - a)
      OBVIOUS
    <3> QED  BY <3>1
  <2>2. b * w = a * w + c * w /\ c * w \in Nat /\ a * w \in Nat
    BY <2>1
  <2> QED  BY <2>2
<1>3. a > 0 => a * w > 0
  <2> SUFFICES ASSUME a > 0 PROVE a * w > 0
    OBVIOUS
  <2>1. a - 1 \in Nat /\ a = (a - 1) + 1
    OBVIOUS
  <2>2. a * w = (a - 1) * w + w /\ (a - 1) * w \in Nat
    BY <2>1
  <2> QED  BY <2>2
<1> QED  BY <1>1, <1>2, <1>3

(* Rows are counted one by one.                                            *)
LEMMA RowCounts ==
  ASSUME NEW k \in {1, 2}, NEW p \in 0..(k - 1), NEW n \in Nat
  PROVE  /\ IsFiniteSet(RowsIn(k, p, n)) /\ Cardinality(RowsIn(k, p, n)) \in Nat
         /\ Cardinality(RowsIn(k, p, 0)) = 0
         /\ n % k = p =>
              Cardinality(RowsIn(k, p, n + 1)) = Cardinality(RowsIn(k, p, n)) + 1
         /\ n % k # p =>
              Cardinality(RowsIn(k, p, n + 1)) = Cardinality(RowsIn(k, p, n))
<1>1. IsFiniteSet(RowsIn(k, p, n)) /\ Cardinality(RowsIn(k, p, n)) \in Nat
  <2>1. IsFiniteSet(0..(n - 1))
    BY FS_Interval
  <2>2. RowsIn(k, p, n) \in SUBSET (0..(n - 1))
    BY DEF RowsIn
  <2>3. IsFiniteSet(RowsIn(k, p, n))
    BY <2>1, <2>2, FS_Subset
  <2> QED  BY <2>3, FS_CardinalityType
<1>2. Cardinality(RowsIn(k, p, 0)) = 0
  <2>1. RowsIn(k, p, 0) = {}
    BY DEF RowsIn
  <2> QED  BY <2>1, FS_EmptySet
<1>3. n \notin RowsIn(k, p, n)
  BY DEF RowsIn
<1>4. CASE n % k = p
  <2>1. RowsIn(k, p, n + 1) = RowsIn(k, p, n) \cup {n}
    <3>1. 0..((n + 1) - 1) = (0..(n - 1)) \cup {n}
      OBVIOUS
    <3> QED  BY <1>4, <3>1 DEF RowsIn
  <2>2. Cardinality(RowsIn(k, p, n) \cup {n}) = Cardinality(RowsIn(k, p, n)) + 1
    BY <1>1, <1>3, FS_AddElement
  <2> QED  BY <1>1, <1>2, <1>4, <2>1, <2>2
<1>5. CASE n % k # p
  <2>1. RowsIn(k, p, n + 1) = RowsIn(k, p, n)
    <3>1. 0..((n + 1) - 1) = (0..(n - 1)) \cup {n}
      OBVIOUS
    <3> QED  BY <1>5, <3>1 DEF RowsIn
  <2> QED  BY <1>1, <1>2, <1>5, <2>1
<1> QED  BY <1>4, <1>5

(* All rows are in some part, and no part is empty.                        *)
LEMMA RowTotals ==
  ASSUME NEW k \in {1, 2}, NEW p \in 0..(k - 1), NEW h \in Nat, k <= h, NEW n \in 0..h
  PROVE  /\ Cardinality(RowsIn(k, p, n)) <= Cardinality(RowsIn(k, p, h))
         /\ Cardinality(RowsIn(k, p, h)) > 0
         /\ k = 1 => Cardinality(RowsIn(k, 0, h)) = h
         /\ k = 2 => Cardinality(RowsIn(k, 0, h)) + Cardinality(RowsIn(k, 1, h)) = h
<1>1. /\ IsFiniteSet(RowsIn(k, p, h)) /\ Cardinality(RowsIn(k, p, h)) \in Nat
      /\ IsFiniteSet(RowsIn(k, p, n)) /\ Cardinality(RowsIn(k, p, n)) \in Nat
  <2>1. n \in Nat
    OBVIOUS
  <2>2. IsFiniteSet(RowsIn(k, p, h)) /\ Cardinality(RowsIn(k, p, h)) \in Nat
    BY RowCounts
  <2>3. IsFiniteSet(RowsIn(k, p, n)) /\ Cardinality(RowsIn(k, p, n)) \in Nat
    BY <2>1, RowCounts
  <2> QED  BY <2>2, <2>3
<1>2. Cardinality(RowsIn(k, p, n)) <= Cardinality(RowsIn(k, p, h))
  <2>1. RowsIn(k, p, n) \in SUBSET RowsIn(k, p, h)
    BY DEF RowsIn
  <2> QED  BY <1>1, <2>1, FS_Subset
<1>3. Cardinality(RowsIn(k, p, h)) > 0
  <2>1. p \in RowsIn(k, p, h)
    <3>1. p % k = p
      OBVIOUS
    <3> QED  BY <3>1 DEF RowsIn
  <2>2. Cardinality(RowsIn(k, p, h)) # 0
    BY <1>1, <2>1, FS_EmptySet
  <2> QED  BY <1>1, <2>2
<1>4. IsFiniteSet(0..(h - 1)) /\ Cardinality(0..(h - 1)) = h
  <2>1. /\ IsFiniteSet(0..(h - 1))
        /\ Cardinality(0..(h - 1)) = IF 0 > h - 1 THEN 0 ELSE (h - 1) - 0 + 1
    BY FS_Interval
  <2>2. (IF 0 > h - 1 THEN 0 ELSE (h - 1) - 0 + 1) = h
    OBVIOUS
  <2> QED  BY <2>1, <2>2
<1>5. CASE k = 1
  <2>1. RowsIn(k, 0, h) = 0..(h - 1)
    <3>1. \A r \in 0..(h - 1) : r % 1 = 0
      OBVIOUS
    <3> QED  BY <1>5, <3>1 DEF RowsIn
  <2> QED  BY <1>2, <1>3, <1>4, <1>5, <2>1
<1>6. CASE k = 2
  <2>1. RowsIn(k, 0, h) \cup RowsIn(k, 1, h) = 0..(h - 1)
    <3>1. \A r \in 0..(h - 1) : r % 2 = 0 \/ r % 2 = 1
      OBVIOUS
    <3> QED  BY <1>6, <3>1 DEF RowsIn
  <2>2. RowsIn(k, 0, h) \cap RowsIn(k, 1, h) = {}
    BY DEF RowsIn
  <2>3. /\ IsFiniteSet(RowsIn(k, 0, h)) /\ Cardinality(RowsIn(k, 0, h)) \in Nat
        /\ IsFiniteSet(RowsIn(k, 1, h)) /\ Cardinality(RowsIn(k, 1, h)) \in Nat
    BY <1>6, RowCounts
  <2>4. Cardinality({}) = 0
    BY FS_EmptySet
  <2>5. Cardinality(RowsIn(k, 0, h) \cup RowsIn(k, 1, h)) =
          Cardinality(RowsIn(k, 0, h)) + Cardinality(RowsIn(k, 1, h))
            - Cardinality(RowsIn(k, 0, h) \cap RowsIn(k, 1, h))
    BY <2>3, FS_Union
  <2>6. Cardinality(RowsIn(k, 0, h)) + Cardinality(RowsIn(k, 1, h)) - 0 = h
    BY <1>4, <2>1, <2>2, <2>4, <2>5
  <2>7. Cardinality(RowsIn(k, 0, h)) + Cardinality(RowsIn(k, 1, h)) = h
    BY <2>3, <2>6
  <2> QED  BY <1>2, <1>3, <1>6, <2>7
<1> QED  BY <1>5, <1>6

(* So much for a picture: where its rows are in the stream.                *)
LEMMA PictureUnits ==
  ASSUME NEW q \in Pictures
  PROVE  /\ q.parts \in {1, 2} /\ q.mb_w \in Nat \ {0} /\ q.mb_h \in Nat \ {0}
         /\ q.bad \in Nat
         /\ \A p \in 0..(q.parts - 1) :
              /\ Units(q, p, 0) = 0
              /\ Units(q, p, q.mb_h) > 0
              /\ \A n \in 0..q.mb_h :
                   /\ Units(q, p, n) \in Nat
                   /\ Units(q, p, n) <= Units(q, p, q.mb_h)
                   /\ Units(q, p, n + 1) =
                        Units(q, p, n) + (IF n % q.parts = p THEN q.mb_w ELSE 0)
<1>1. /\ q.parts \in {1, 2} /\ q.mb_w \in Nat \ {0} /\ q.mb_h \in Nat \ {0}
      /\ q.parts <= q.mb_h /\ q.bad \in Nat
  BY PicturesAssumption, IncDecoderAssumption
<1>2. PICK k \in {1, 2}, w \in Nat \ {0}, h \in Nat : k = q.parts /\ w = q.mb_w /\ h = q.mb_h
  BY <1>1
<1>3. SUFFICES ASSUME NEW p \in 0..(k - 1), NEW n \in 0..h
               PROVE  /\ Units(q, p, 0) = 0
                      /\ Units(q, p, h) > 0
                      /\ Units(q, p, n) \in Nat
                      /\ Units(q, p, n) <= Units(q, p, h)
                      /\ Units(q, p, n + 1) = Units(q, p, n) + (IF n % k = p THEN w ELSE 0)
  BY <1>1, <1>2
<1>4. PICK a \in Nat, b \in Nat :
        /\ a = Cardinality(RowsIn(k, p, n)) /\ b = Cardinality(RowsIn(k, p, h))
        /\ a <= b /\ b > 0
        /\ Cardinality(RowsIn(k, p, n + 1)) = a + (IF n % k = p THEN 1 ELSE 0)
        /\ Cardinality(RowsIn(k, p, 0)) = 0
  <2>1. n \in Nat /\ k <= h
    BY <1>1, <1>2
  <2>2. /\ Cardinality(RowsIn(k, p, n)) \in Nat
        /\ Cardinality(RowsIn(k, p, 0)) = 0
        /\ Cardinality(RowsIn(k, p, n + 1)) =
             Cardinality(RowsIn(k, p, n)) + (IF n % k = p THEN 1 ELSE 0)
    <3>1. /\ Cardinality(RowsIn(k, p, n)) \in Nat
          /\ Cardinality(RowsIn(k, p, 0)) = 0
          /\ n % k = p =>
               Cardinality(RowsIn(k, p, n + 1)) = Cardinality(RowsIn(k, p, n)) + 1
          /\ n % k # p =>
               Cardinality(RowsIn(k, p, n + 1)) = Cardinality(RowsIn(k, p, n))
      BY <1>2, <1>3, <2>1, RowCounts
    <3> QED  BY <3>1
  <2>3. Cardinality(RowsIn(k, p, h)) \in Nat
    BY RowCounts
  <2>4. /\ Cardinality(RowsIn(k, p, n)) <= Cardinality(RowsIn(k, p, h))
        /\ Cardinality(RowsIn(k, p, h)) > 0
    BY <2>1, RowTotals
  <2> QED  BY <2>2, <2>3, <2>4
<1>5. /\ Units(q, p, 0) = 0 * w /\ Units(q, p, n) = a * w /\ Units(q, p, h) = b * w
      /\ Units(q, p, n + 1) = (a + (IF n % k = p THEN 1 ELSE 0)) * w
  BY <1>2, <1>4 DEF Units
<1>6. /\ a * w \in Nat /\ (a + 1) * w = a * w + w /\ a * w <= b * w /\ b * w > 0
      /\ 0 * w = 0 /\ (a + 0) * w = a * w
  BY <1>4, Product
<1> QED  BY <1>5, <1>6

(* It is what the model says.                                              *)
LEMMA InStream ==
  ASSUME pic \in Pictures
  PROVE  /\ \A p \in Parts : Begin(p) = From(pic, p)
         /\ Total = Size(pic)
         /\ \A p, n : RowsOf(p, n) * pic.mb_w = Units(pic, p, n)
<1>1. \A p, n : RowsOf(p, n) = Cardinality(RowsIn(pic.parts, p, n))
  BY DEF RowsOf, RowsIn, PartOf
<1>2. \A p, n : RowsOf(p, n) * pic.mb_w = Units(pic, p, n)
  BY <1>1 DEF Units
<1>3. /\ pic.parts \in {1, 2} /\ pic.mb_w \in Nat \ {0} /\ pic.mb_h \in Nat \ {0}
      /\ pic.parts <= pic.mb_h
  BY PicturesAssumption, IncDecoderAssumption
<1>4. PICK k \in {1, 2}, w \in Nat \ {0}, h \in Nat :
        k = pic.parts /\ w = pic.mb_w /\ h = pic.mb_h /\ k <= h
  BY <1>3
<1>5. PICK a \in Nat : a = RowsOf(0, h)
  <2>1. 0 \in 0..(k - 1)
    OBVIOUS
  <2>2. Cardinality(RowsIn(k, 0, h)) \in Nat
    BY <2>1, RowCounts
  <2> QED  BY <1>1, <1>4, <2>2
<1>6. 2 * w * a = 2 * Units(pic, 0, h)
  <2>1. 2 * w * a = 2 * (a * w)
    OBVIOUS
  <2> QED  BY <1>2, <1>4, <1>5, <2>1
<1>7. \A p \in Parts : Begin(p) = From(pic, p)
  <2> SUFFICES ASSUME NEW p \in Parts PROVE Begin(p) = From(pic, p)
    OBVIOUS
  <2>1. CASE p = 0
    BY <2>1 DEF Begin, From, Part0, Part0Size
  <2>2. CASE p # 0
    <3>1. Begin(p) = 1 + 2 + 2 * w * a
      BY <1>4, <1>5, <2>2 DEF Begin, Part0, Part0Size, MbSize
    <3>2. From(pic, p) = 3 + 2 * Units(pic, 0, h)
      BY <1>4, <2>2 DEF From
    <3> QED  BY <1>6, <3>1, <3>2
  <2> QED  BY <2>1, <2>2
<1>8. Total = 3 + 2 * w * h
  BY <1>4 DEF Total, Part0, Part0Size, MbSize
<1>9. Total = Size(pic)
  <2>1. CASE k = 1
    <3>1. a = h
      BY <1>1, <1>4, <1>5, <2>1, RowTotals
    <3>2. Size(pic) = 3 + 2 * Units(pic, 0, h)
      BY <1>4, <2>1 DEF Size, From
    <3> QED  BY <1>6, <1>8, <3>1, <3>2
  <2>2. CASE k = 2
    <3>1. PICK b \in Nat : b = RowsOf(1, h) /\ a + b = h
      <4>1. 1 \in 0..(k - 1) /\ h \in 0..h
        BY <2>2
      <4>2. Cardinality(RowsIn(k, 1, h)) \in Nat
        BY <4>1, RowCounts
      <4>3. Cardinality(RowsIn(k, 0, h)) + Cardinality(RowsIn(k, 1, h)) = h
        BY <1>4, <2>2, <4>1, RowTotals
      <4> QED  BY <1>1, <1>4, <1>5, <4>2, <4>3
    <3>2. Size(pic) = 3 + 2 * Units(pic, 0, h) + 2 * Units(pic, 1, h)
      BY <1>4, <2>2 DEF Size, From
    <3>3. 2 * w * h = 2 * w * a + 2 * (b * w)
      BY <3>1
    <3>4. Units(pic, 1, h) = b * w
      BY <1>2, <1>4, <3>1
    <3> QED  BY <1>6, <1>8, <3>2, <3>3, <3>4
  <2> QED  BY <2>1, <2>2
<1> QED  BY <1>2, <1>7, <1>9

(* The parts are not empty.                                                *)
LEMMA FromIsNumber ==
  ASSUME pic \in Pictures
  PROVE  /\ pic.parts \in {1, 2} /\ LastPart \in Parts
         /\ \A p \in Parts : /\ From(pic, p) \in Nat /\ From(pic, p) >= 3
                             /\ From(pic, p) <= From(pic, LastPart)
                             /\ (p # LastPart =>
                                   From(pic, p + 1) = From(pic, p) + 2 * Units(pic, p, pic.mb_h))
         /\ Size(pic) = From(pic, LastPart) + 2 * Units(pic, LastPart, pic.mb_h)
         /\ Size(pic) \in Nat /\ Size(pic) > From(pic, LastPart)
<1>1. pic.parts \in {1, 2} /\ LastPart \in Parts /\ pic.mb_h \in Nat
  BY PictureUnits DEF LastPart, Parts
<1>2. \A p \in Parts : Units(pic, p, pic.mb_h) \in Nat /\ Units(pic, p, pic.mb_h) > 0
  <2>1. pic.mb_h \in 0..pic.mb_h
    BY <1>1
  <2> QED  BY <2>1, PictureUnits DEF Parts
<1>3. 0 \in Parts
  BY <1>1 DEF Parts
<1>4. \A p \in Parts : p = 0 \/ (p = 1 /\ LastPart = 1)
  BY <1>1 DEF Parts, LastPart
<1>5. From(pic, 0) = 3 /\ From(pic, 1) = 3 + 2 * Units(pic, 0, pic.mb_h)
  BY DEF From
<1>6. Size(pic) = From(pic, LastPart) + 2 * Units(pic, LastPart, pic.mb_h)
  BY DEF Size, LastPart
<1>7. \A p \in Parts : /\ From(pic, p) \in Nat /\ From(pic, p) >= 3
                       /\ From(pic, p) <= From(pic, LastPart)
                       /\ (p # LastPart =>
                             From(pic, p + 1) = From(pic, p) + 2 * Units(pic, p, pic.mb_h))
  <2> SUFFICES ASSUME NEW p \in Parts
               PROVE  /\ From(pic, p) \in Nat /\ From(pic, p) >= 3
                      /\ From(pic, p) <= From(pic, LastPart)
                      /\ (p # LastPart =>
                            From(pic, p + 1) = From(pic, p) + 2 * Units(pic, p, pic.mb_h))
    OBVIOUS
  <2>1. LastPart = 0 \/ LastPart = 1
    BY <1>1 DEF LastPart
  <2>2. CASE p = 0
    BY <1>2, <1>3, <1>5, <2>1, <2>2
  <2>3. CASE p = 1 /\ LastPart = 1
    BY <1>2, <1>3, <1>5, <2>3
  <2> QED  BY <1>4, <2>2, <2>3
<1> QED  BY <1>1, <1>2, <1>6, <1>7

HeaderStates == {"WEBP_HEADER", "VP8_HEADER", "VP8_PARTS0"}

(* The fields of the incremental decoder, but for those of RowPipeline.    *)
IncTypes ==
  /\ state \in HeaderStates \cup {"VP8_DATA", "DONE", "ERROR"}
  /\ mode \in {"NONE", "APPEND", "MAP"}
  /\ end \in 0..Size(pic) /\ start \in 0..end /\ kept \in 0..start
  /\ pos \in [Parts -> 0..Size(pic)] /\ stop \in [Parts -> 0..Size(pic)]
  /\ modes \in 0..pic.mb_h /\ last_mb_y \in -1..pic.mb_h
  /\ mb_x \in 0..pic.mb_w /\ saved \in -1..Size(pic) /\ rowok \in BOOLEAN
  /\ alpha \in {"no", "needed", "decoded"} /\ deleting \in BOOLEAN
  /\ answer \in {"OK", "SUSPENDED", "ERROR", "OUT_OF_MEMORY", "INVALID_PARAM"}

(* Where main is tells the state; before the first row nothing has begun.  *)
StateAt ==
  /\ at \notin {"last", "none"}
  /\ at = "headers" => state = "WEBP_HEADER"
  /\ at = "frame" => state = "VP8_HEADER"
  /\ at \in {"parts0", "setup"} => state = "VP8_PARTS0"
  /\ at \in {"init", "alloc", "exit", "teardown"} \cup Decoding => state = "VP8_DATA"
  /\ at = "user" => (setup <=> state = "VP8_DATA")
  /\ state = "DONE" => AllPut /\ at \in {"user", "clear", "over", "off"}
Untouched ==
  /\ state \in HeaderStates /\ at = "user" => Fresh
  /\ state = "WEBP_HEADER" => start = 0
  /\ state = "VP8_HEADER" => start = 1
  /\ state = "VP8_PARTS0" => start = IF at = "setup" THEN 2 ELSE 1
  /\ state \in HeaderStates \/ at \in {"init", "alloc"} =>
       last_mb_y = -1 /\ modes = 0 /\ mb_x = 0 /\ saved = -1 /\ rowok

(* Nothing that is needed is dropped from the buffer, and nobody is left   *)
(* behind when it moves.                                                   *)
BufferKept == stale = {} /\ (alpha = "needed" => kept = 0)

(* The partitions are being read: main's row has begun, or the next one.   *)
Live ==
  at \in {"setup", "init", "alloc"} \cup Decoding \/ (at = "user" /\ state = "VP8_DATA")
RowsRead ==
  IF at \in {"sync", "hand", "direct", "launched", "next"} THEN mb_y + 1 ELSE mb_y
Place(p) == IF at = "starved" /\ p = Reader THEN saved ELSE pos[p]
Placed ==
  Live =>
    /\ end > From(pic, LastPart)
    /\ \A p \in Parts :
         /\ stop[p] = IF p = LastPart THEN end ELSE From(pic, p + 1)
         /\ Place(p) = From(pic, p)
                         + 2 * (Units(pic, p, RowsRead) + IF p = Reader THEN mb_x ELSE 0)
         /\ start <= Place(p)

(* The modes of main's row have been read exactly if last_mb_y says so.    *)
ModesRead ==
  Live =>
    /\ rowok /\ last_mb_y <= mb_y
    /\ modes = IF last_mb_y = mb_y THEN mb_y + 1 ELSE mb_y
    /\ at \in {"mb", "starved", "sync", "hand", "direct", "launched", "next"} =>
         last_mb_y = mb_y
    /\ at \in {"user", "parse"} /\ last_mb_y = mb_y => RowHeld
    /\ at \notin {"user", "parse", "mb", "starved"} => mb_x = 0
    /\ at # "starved" => saved = -1
    /\ at = "starved" => mb_x < pic.mb_w /\ (end = Size(pic) => pic.bad # 0)

Reasoned ==
  at = "user" /\ ~deleting /\ answer = "SUSPENDED" /\ end = Size(pic) => pic.bad # 0

IncKept ==
  IncTypes /\ StateAt /\ Untouched /\ BufferKept /\ Placed /\ ModesRead /\ Reasoned
IncInv == RowsInv(pic.mb_h) /\ IncKept

(* What the rows say of the decoder.                                       *)
LEMMA OfTheRows ==
  ASSUME IncInv
  PROVE  /\ pic \in Pictures /\ mb_y \in 0..pic.mb_h
         /\ at \in Before \cup Decoding \cup {"user", "alloc", "exit", "teardown",
                                              "clear", "over", "off"}
         /\ at \in Headers => Fresh
         /\ at # "user" =>
              (setup <=> at \in {"init", "alloc", "exit", "teardown"} \cup Decoding)
         /\ at \in {"setup", "init", "alloc"} => mb_y = 0
         /\ Live => mb_y < pic.mb_h
         /\ at \in {"mb", "starved"} => RowHeld
         /\ at \in {"user", "clear", "over", "off"} => status # "WORK" /\ finish = "no"
         /\ at = "teardown" /\ main = "out" /\ mb_y = pic.mb_h /\ ~had_error => AllPut
         /\ finish = "put" /\ pic.mt = 0 => at = "direct"
         /\ ~impl => thread = "none" /\ main = "out"
<1>1. /\ RowsInv(pic.mb_h) /\ pic \in Pictures /\ mb_y \in 0..pic.mb_h /\ AnyTypeOK
      /\ RowCalls /\ SetupOpen /\ NoJob /\ WhoFinishes /\ RowNumbers(pic.mb_h)
      /\ BuffersHold /\ OutHolds /\ StateAt /\ IInv /\ Coupled
  BY DEF IncInv, IncKept, RowsInv, AnyTypeOK, RowDataOK, IInv
<1>2. pic.mb_h \in Nat /\ rebuilt \in Nat /\ pic.mt \in 0..2
  BY <1>1, PicturesAssumption DEF AnyTypeOK, RowDataOK
<1>3. at \in Headers => Fresh
  <2> SUFFICES ASSUME at \in Headers PROVE Fresh
    OBVIOUS
  <2>1. at \in Before /\ at \notin Decoding \cup {"user", "init", "alloc", "exit", "teardown"}
    BY DEF Before, Headers, Decoding
  <2>2. ~impl /\ ~setup /\ mb_y = 0 /\ status # "WORK"
    BY <1>1, <2>1 DEF RowCalls, SetupOpen, RowNumbers, NoJob
  <2>3. finish = "no"
    BY <1>1, <1>2, <2>1, <2>2 DEF WhoFinishes, Coupled, Headers
  <2>4. Started = 0 /\ ~Pending
    BY <1>1, <2>1, <2>2, <2>3 DEF RowNumbers, Pending, Headers
  <2>5. rebuilt = 0 /\ out = <<>> /\ cache_id = 0
    BY <1>1, <1>2, <2>4 DEF RowNumbers, OutHolds, Started, ToRebuild
  <2> QED  BY <2>2, <2>3, <2>5 DEF Fresh
<1>4. at \in {"setup", "init", "alloc"} => mb_y = 0
  BY <1>1 DEF RowNumbers, Before
<1>5. Live => mb_y < pic.mb_h
  BY <1>1, <1>4 DEF RowNumbers, Live, StateAt, Halted, Before, Headers, Decoding
<1>6. at \in {"mb", "starved"} => RowHeld
  BY <1>1 DEF BuffersHold
<1>7. /\ at \in {"user", "clear", "over", "off"} => status # "WORK" /\ finish = "no"
      /\ at = "teardown" /\ main = "out" /\ mb_y = pic.mb_h /\ ~had_error => AllPut
  BY <1>1, <1>2, RowsAreSound
<1> QED
  BY <1>1, <1>2, <1>3, <1>4, <1>5, <1>6, <1>7 DEF SetupOpen, WhoFinishes, AnyTypeOK, Coupled

(* The macroblock that is decoded is the right one.                        *)
LEMMA RightMB ==
  ASSUME IncInv, at = "mb"
  PROVE  MbRight /\ rowok
<1>1. /\ pic \in Pictures /\ mb_y \in 0..pic.mb_h /\ mb_y < pic.mb_h
  BY OfTheRows DEF Live, Decoding
<1>2. /\ IncTypes /\ BufferKept /\ Placed /\ ModesRead /\ Live
  BY DEF IncInv, IncKept, Live, Decoding
<1>3. pic.parts \in {1, 2} /\ pic.mb_w \in Nat /\ mb_y \in Nat
  BY <1>1, PictureUnits
<1>4. Reader \in Parts
  BY <1>3 DEF Reader, PartOf, Parts
<1>5. /\ pos[Reader] = From(pic, Reader) + 2 * (Units(pic, Reader, mb_y) + mb_x)
      /\ start <= pos[Reader]
  BY <1>2, <1>4 DEF Placed, Place, RowsRead
<1>6. /\ Begin(Reader) = From(pic, Reader)
      /\ RowsOf(Reader, mb_y) * pic.mb_w = Units(pic, Reader, mb_y)
  BY <1>1, <1>4, InStream
<1>7. pos[Reader] = Begin(Reader) + MbSize * (RowsOf(Reader, mb_y) * pic.mb_w + mb_x)
  BY <1>5, <1>6 DEF MbSize
<1>8. pos[Reader] >= kept
  BY <1>2, <1>4, <1>5 DEF IncTypes
<1> QED  BY <1>2, <1>7, <1>8 DEF MbRight, BufferKept, ModesRead

(* Where the next piece takes it.                                          *)
LEMMA IDecodes ==
  ASSUME IncTypes, state \notin {"DONE", "ERROR"}, IDecode
  PROVE  \/ state = "WEBP_HEADER" /\ at' = "headers" /\ state \in HeaderStates
         \/ state = "VP8_HEADER" /\ at' = "frame" /\ state \in HeaderStates
         \/ state = "VP8_PARTS0" /\ at' = "parts0" /\ state \in HeaderStates
         \/ state = "VP8_DATA" /\ at' = "parse"
  BY DEF IncTypes, IDecode, Goto, HeaderStates

(* What it does with the rows is what RowPipeline's rows allow.            *)
LEMMA IncRows ==
  ASSUME IncInv, [IDecNext]_allVars
  PROVE  [AnyRows(pic.mb_h)]_rowsVars
<1> USE OfTheRows
<1>1. /\ StateAt /\ Untouched /\ ModesRead /\ IncTypes
  BY DEF IncInv, IncKept
<1>2. CASE UserCalls
  <2>1. at = "user" /\ rowUnchanged
    BY <1>2 DEF UserCalls, Append_, AppendFails, Update, Refuse, WebPIDelete, Open
  <2>2. /\ at' \in {"user", "parse", "exit", "clear"} \cup Headers
        /\ at' = "parse" \/ at' = "exit" => state = "VP8_DATA"
        /\ at' = "clear" => state # "VP8_DATA"
        /\ at' \in Headers => state \in HeaderStates
    <3>1. CASE \E n \in Pieces, there \in BOOLEAN : Append_(n, there) \/ Update(n, there)
      BY <1>1, <3>1, IDecodes DEF Append_, Update, Open, Headers
    <3>2. CASE AppendFails \/ Refuse \/ WebPIDelete
      BY <3>2 DEF AppendFails, Refuse, WebPIDelete, Goto, Answers, DeletesOpen, Headers
    <3> QED  BY <1>2, <3>1, <3>2 DEF UserCalls
  <2>3. Pauses
    BY <1>1, <2>1, <2>2 DEF Pauses, StateAt, Untouched, rowUnchanged, Headers
  <2> QED  BY <2>3 DEF AnyRows, ByPieces
<1>3. CASE Suspends \/ HeadersFail \/ NewFails \/ DecodeWebPHeaders \/ DecodeVP8FrameHeader
             \/ DecodePartition0
  <2>1. Pauses
    BY <1>3 DEF Suspends, HeadersFail, NewFails, DecodeWebPHeaders, DecodeVP8FrameHeader,
       DecodePartition0, Pauses, Headers, Answers, Goto, rowUnchanged
  <2> QED  BY <2>1 DEF AnyRows, ByPieces
<1>4. CASE EntersData \/ SetupFails \/ Closes
  BY <1>4 DEF EntersData, SetupFails, Closes, AnyRows
<1>5. CASE ParseModes
  <2>1. ParsesOn
    BY <1>1, <1>5 DEF ParseModes, ParsesOn, ModesDue, ModesRead, Live, Decoding
  <2> QED  BY <2>1 DEF AnyRows, ByPieces
<1>6. CASE ModesFail
  BY <1>6 DEF ModesFail, rowUnchanged, ParseFails, AnyRows
<1>7. CASE DecodeMB
  <2>1. rowok' /\ at = "mb"
    BY <1>7, RightMB DEF DecodeMB
  <2>2. ParsesOn
    BY <1>7, <2>1 DEF DecodeMB, ParsesOn, Goto
  <2> QED  BY <2>2 DEF AnyRows, ByPieces
<1>8. CASE RowParsed \/ MbCorrupt \/ StarvedFails \/ RestoreContext
  <2>1. Pauses
    BY <1>8 DEF RowParsed, MbCorrupt, StarvedFails, RestoreContext, Pauses, Answers, Goto,
       rowUnchanged
  <2> QED  BY <2>1 DEF AnyRows, ByPieces
<1>9. CASE MbStarves
  <2>1. Starves
    BY <1>9 DEF MbStarves, Starves, StarvedSyncs, Goto
  <2> QED  BY <2>1 DEF AnyRows, ByPieces
<1>10. CASE OfRows
  BY <1>10 DEF OfRows, AnyRows
<1>11. CASE ThreadSteps \/ ((MainWaits \/ WorkerSpurious) /\ UNCHANGED idecVars)
  BY <1>11 DEF ThreadSteps, IDecPut, AnyRows, FinishSteps
<1>12. CASE UNCHANGED allVars
  BY <1>12 DEF allVars, rowsVars
<1> QED
  BY <1>2, <1>3, <1>4, <1>5, <1>6, <1>7, <1>8, <1>9, <1>10, <1>11, <1>12
     DEF IDecNext, DecoderSteps

(* The rows' own steps move main on, and leave the rest to it.             *)
RowsMove ==
  /\ UNCHANGED <<pic, setup, state, memVars, partVars, deleting, answer>>
  /\ alpha' \in {alpha, "decoded"}
  /\ at \in {"user", "clear", "over", "off"} => out' = out
  /\ at = "user" /\ Fresh => Fresh'
  /\ \/ UNCHANGED <<at, mb_y, bufferVars>>
     \/ /\ mb_y' = mb_y
        /\ \/ at = "init" /\ at' \in {"alloc", "exit"}
           \/ at = "alloc" /\ at' \in {"parse", "exit"}
           \/ at = "direct" /\ at' \in {"next", "exit"}
           \/ at = "sync" /\ at' = "hand"
           \/ at = "hand" /\ at' \in {"launched", "exit"}
           \/ at = "launched" /\ at' = "next"
           \/ at = "exit" /\ at' = "teardown"
           \/ at = "clear" /\ at' = "over"
           \/ at = "over" /\ at' = "off"
     \/ /\ at = "next" /\ mb_y' = mb_y + 1
        /\ at' = IF mb_y + 1 < pic.mb_h THEN "parse" ELSE "exit"

LEMMA RowsMoveOn ==
  ASSUME IncInv,
         OfRows \/ ThreadSteps \/ ((MainWaits \/ WorkerSpurious) /\ UNCHANGED idecVars)
         \/ UNCHANGED allVars
  PROVE  RowsMove
<1> USE OfTheRows
<1>1. CASE OfRows
  BY <1>1 DEF OfRows, RowsMove, InitThread, AllocateMemory, ProcessSteps, Direct, SyncJob,
     JobFailed, Hand, Launched, NextRow, ExitCritical, Clear, Free, Goto, idecVars,
     finishVars
<1>2. CASE \E well \in BOOLEAN : IDecPut(well)
  BY <1>2 DEF IDecPut, Put, FinishReturns, RowsMove, Goto, Fresh
<1>3. CASE (Rebuild \/ FilterRow \/ TakeRow \/ ThreadWaits) /\ UNCHANGED idecVars
  BY <1>3 DEF Rebuild, FilterRow, TakeRow, ThreadWaits, RowsMove, idecVars, rowVars,
     finishVars, Fresh, Takes, Idles, Quits, ThreadLocks
<1>4. CASE AlphaFails /\ UNCHANGED idecVars
  BY <1>4 DEF AlphaFails, FinishReturns, RowsMove, Goto, idecVars, Fresh
<1>5. CASE (MainWaits \/ WorkerSpurious) /\ UNCHANGED idecVars
  BY <1>5 DEF MainWaits, WorkerSpurious, RowsMove, idecVars, rowVars, finishVars, Fresh,
     MainRuns, Created, Waits, Assigns, Join, Locks, Spurious
<1>6. CASE UNCHANGED allVars
  BY <1>6 DEF allVars, RowsMove, idecVars, rowVars, finishVars, Fresh, workerVars, implVars
<1> QED  BY <1>1, <1>2, <1>3, <1>4, <1>5, <1>6 DEF ThreadSteps

LEMMA PlacedStays ==
  ASSUME Placed, UNCHANGED <<pic, end, start, pos, stop, saved, mb_x>>,
         Live' => Live /\ RowsRead' = RowsRead /\ (at' = "starved" <=> at = "starved"),
         mb_y' = mb_y \/ (mb_x = 0 /\ at # "starved")
  PROVE  Placed'
<1> SUFFICES ASSUME Live' PROVE Placed'
  BY DEF Placed
<1>1. Live /\ RowsRead' = RowsRead /\ Parts' = Parts /\ LastPart' = LastPart
  BY DEF Parts, LastPart
<1>2. \A p \in Parts : Place(p)' = Place(p)
  BY DEF Place, Reader, PartOf
<1>3. \A p \in Parts : (IF p = Reader THEN mb_x ELSE 0)' = IF p = Reader THEN mb_x ELSE 0
  BY DEF Reader, PartOf
<1> QED  BY <1>1, <1>2, <1>3 DEF Placed

LEMMA RowsMoveKeeps ==
  ASSUME IncInv, RowsMove
  PROVE  IncKept'
<1> USE OfTheRows
<1>1. IncTypes /\ StateAt /\ Untouched /\ BufferKept /\ Placed /\ ModesRead /\ Reasoned
  BY DEF IncInv, IncKept
<1>2. pic.mb_h \in Nat
  BY PictureUnits
<1>3. IncTypes'
  BY <1>1 DEF RowsMove, IncTypes, memVars, partVars, Parts
<1>4. StateAt'
  BY <1>1 DEF RowsMove, StateAt, Decoding, AllPut, memVars, partVars
<1>5. Untouched'
  <2>1. state \in HeaderStates => at \in {"user", "setup", "clear", "over", "off"} \cup Headers
    BY <1>1 DEF StateAt, HeaderStates, Before, Decoding, Headers
  <2>2. UNCHANGED at \/ at' \notin {"user", "init", "setup"}
    BY DEF RowsMove
  <2>3. state \in HeaderStates /\ at = "user" => Fresh'
    BY <1>1 DEF RowsMove, Untouched
  <2> QED  BY <1>1, <2>1, <2>2, <2>3 DEF RowsMove, Untouched, memVars, partVars
<1>6. BufferKept'
  BY <1>1 DEF RowsMove, BufferKept, memVars, partVars
<1>7. Placed'
  <2>1. Live' => Live /\ RowsRead' = RowsRead /\ (at' = "starved" <=> at = "starved")
    BY <1>2 DEF RowsMove, Live, RowsRead, Decoding
  <2>2. Live' => mb_y' = mb_y \/ (mb_x = 0 /\ at # "starved")
    BY <1>1, <2>1 DEF RowsMove, ModesRead
  <2> QED  BY <1>1, <2>1, <2>2, PlacedStays DEF RowsMove, memVars, partVars, Placed
<1>8. ModesRead'
  <2> SUFFICES ASSUME Live' PROVE ModesRead'
    BY DEF ModesRead
  <2> USE DEF ModesRead, memVars, partVars
  <2>1. Live /\ (at' = "starved" <=> at = "starved")
    BY DEF RowsMove, Live, Decoding
  <2>2. CASE UNCHANGED <<at, mb_y, bufferVars>>
    BY <1>1, <2>1, <2>2 DEF RowsMove, RowHeld, bufferVars
  <2>3. CASE at = "next" /\ mb_y' = mb_y + 1
    BY <1>1, <1>2, <2>1, <2>3 DEF RowsMove, IncTypes, Live, Decoding
  <2>4. CASE at # "next" /\ ~UNCHANGED <<at, mb_y, bufferVars>>
    <3>1. /\ mb_y' = mb_y /\ at' \notin {"user", "starved", "mb"}
          /\ at' = "parse" => at = "alloc"
      BY <2>1, <2>4 DEF RowsMove, Live, Decoding
    <3>2. at' = "parse" => last_mb_y # mb_y
      BY <1>1, <1>2, <3>1 DEF Untouched
    <3>3. at' \in {"sync", "hand", "direct", "launched", "next"} =>
            at \in {"sync", "hand", "direct", "launched", "next"}
      BY <2>4 DEF RowsMove
    <3>4. at \notin {"user", "parse", "mb", "starved"}
      BY <2>4 DEF RowsMove
    <3> QED  BY <1>1, <2>1, <3>1, <3>2, <3>3, <3>4 DEF RowsMove
  <2> QED  BY <2>2, <2>3, <2>4 DEF RowsMove
<1>9. Reasoned'
  BY <1>1 DEF RowsMove, Reasoned, memVars, partVars
<1> QED  BY <1>3, <1>4, <1>5, <1>6, <1>7, <1>8, <1>9 DEF IncKept

(* The user's calls.  A piece makes the last partition longer; that the    *)
(* buffer moves changes nothing.                                           *)
LEMMA PieceKeeps ==
  ASSUME IncInv, NEW n \in Pieces, NEW there \in BOOLEAN,
         Append_(n, there) \/ Update(n, there)
  PROVE  IncKept'
<1> USE OfTheRows
<1>1. /\ IncTypes /\ StateAt /\ Untouched /\ BufferKept /\ Placed /\ ModesRead /\ Reasoned
      /\ pic \in Pictures
  BY DEF IncInv, IncKept
<1>2. /\ at = "user" /\ state \notin {"DONE", "ERROR"} /\ IDecode
      /\ mode' \in {"APPEND", "MAP"}
      /\ end' = end + n /\ end' <= Size(pic) /\ kept' \in {kept, KeepsFrom}
      /\ UNCHANGED <<state, start, pos, modes, last_mb_y, mb_x, saved, rowok, alpha,
                     deleting, answer, pic, mb_y, setup, out, bufferVars>>
    BY <1>1, InStream DEF Append_, Update, Open, rowUnchanged, finishVars
<1>3. /\ stale' = {}
      /\ stop' = IF state = "VP8_DATA" THEN [stop EXCEPT ![LastPart] = end'] ELSE stop
  <2>1. InBuffer \subseteq Remapped
    BY DEF InBuffer, Remapped
  <2>2. DoRemap(there)
    BY DEF Append_, Update
  <2> QED  BY <1>1, <2>1, <2>2 DEF DoRemap, BufferKept
<1>4. n \in Nat /\ end \in Nat /\ end' \in Nat /\ Size(pic) \in Int /\ end <= end'
  <2>1. n \in Nat
    BY IncDecoderAssumption
  <2>2. Size(pic) \in Int
    BY <1>1, FromIsNumber
  <2> QED  BY <1>1, <1>2, <2>1, <2>2 DEF IncTypes
<1>5. kept' \in 0..start /\ (alpha = "needed" => kept' = 0)
  BY <1>1, <1>2 DEF IncTypes, KeepsFrom, BufferKept
<1>6. \/ state \in HeaderStates /\ at' \in Headers
      \/ state = "VP8_DATA" /\ at' = "parse"
  BY <1>1, <1>2, IDecodes DEF Headers
<1>7. pic.parts \in {1, 2} /\ LastPart \in Parts
  BY <1>1, PictureUnits DEF LastPart, Parts
<1>8. IncTypes'
  <2>1. stop' \in [Parts -> 0..Size(pic)]
    BY <1>1, <1>2, <1>3, <1>4, <1>7 DEF IncTypes
  <2> QED  BY <1>1, <1>2, <1>4, <1>5, <2>1 DEF IncTypes, Parts
<1>9. StateAt'
  BY <1>1, <1>2, <1>6, IDecodes DEF StateAt, Decoding, HeaderStates, Headers
<1>10. Untouched'
  BY <1>1, <1>2, <1>6 DEF Untouched, HeaderStates, Headers
<1>11. BufferKept'
  BY <1>2, <1>3, <1>5 DEF BufferKept
<1>12. Placed'
  <2> SUFFICES ASSUME Live' PROVE Placed'
    BY DEF Placed
  <2>1. Live /\ RowsRead' = RowsRead /\ at' = "parse" /\ state = "VP8_DATA"
    BY <1>2, <1>6 DEF Live, RowsRead, Headers, Decoding
  <2>2. /\ Parts' = Parts /\ LastPart' = LastPart
        /\ \A p \in Parts : Place(p)' = Place(p) /\ (p = Reader)' = (p = Reader)
    BY <1>2, <2>1 DEF Parts, LastPart, Place, Reader, PartOf
  <2>3. \A p \in Parts : stop'[p] = IF p = LastPart THEN end' ELSE From(pic, p + 1)
    BY <1>1, <1>3, <1>7, <2>1 DEF Placed, IncTypes
  <2>4. end' > From(pic, LastPart)
    <3>1. end > From(pic, LastPart)
      BY <1>1, <2>1 DEF Placed
    <3>2. From(pic, LastPart) \in Int
      BY <1>1, <1>7, FromIsNumber
    <3> QED  BY <1>4, <3>1, <3>2
  <2> QED  BY <1>1, <1>2, <2>1, <2>2, <2>3, <2>4 DEF Placed
<1>13. ModesRead'
  BY <1>1, <1>2, <1>6 DEF ModesRead, Live, Headers, Decoding, RowHeld, bufferVars
<1>14. Reasoned'
  BY <1>6 DEF Reasoned, Headers
<1> QED  BY <1>8, <1>9, <1>10, <1>11, <1>12, <1>13, <1>14 DEF IncKept

LEMMA CallKeeps ==
  ASSUME IncInv, AppendFails \/ Refuse \/ WebPIDelete
  PROVE  IncKept'
<1> USE OfTheRows
<1>1. IncTypes /\ StateAt /\ Untouched /\ BufferKept /\ Placed /\ ModesRead /\ Reasoned
  BY DEF IncInv, IncKept
<1>2. /\ at = "user" /\ rowUnchanged
      /\ UNCHANGED <<end, start, kept, stale, state, partVars, alpha>>
      /\ mode' \in {mode, "APPEND"} /\ deleting' \in BOOLEAN
      /\ \/ at' = "user" /\ answer' \in {"OUT_OF_MEMORY", "INVALID_PARAM"}
         \/ at' = "exit" /\ state = "VP8_DATA" /\ answer' = answer
         \/ at' = "clear" /\ state # "VP8_DATA" /\ answer' = answer
  BY <1>1 DEF AppendFails, Refuse, WebPIDelete, Open, Answers, Goto, DeletesOpen, memVars,
     IncTypes
<1>3. IncTypes'
  BY <1>1, <1>2 DEF IncTypes, rowUnchanged, partVars, Parts
<1>4. StateAt'
  BY <1>1, <1>2 DEF StateAt, rowUnchanged, finishVars, Decoding, AllPut
<1>5. Untouched'
  BY <1>1, <1>2 DEF Untouched, rowUnchanged, finishVars, partVars, Fresh, workerVars,
     implVars, HeaderStates
<1>6. BufferKept'
  BY <1>1, <1>2 DEF BufferKept
<1>7. Placed'
  BY <1>1, <1>2, PlacedStays DEF rowUnchanged, partVars, Live, RowsRead, Decoding
<1>8. ModesRead'
  BY <1>1, <1>2 DEF ModesRead, rowUnchanged, partVars, Live, Decoding, RowHeld, bufferVars
<1>9. Reasoned'
  BY <1>1, <1>2 DEF Reasoned
<1> QED  BY <1>3, <1>4, <1>5, <1>6, <1>7, <1>8, <1>9 DEF IncKept

(* Headers and partition 0.                                                *)
LEMMA HeadersKeep ==
  ASSUME IncInv,
         Suspends \/ HeadersFail \/ NewFails \/ DecodeWebPHeaders \/ DecodeVP8FrameHeader
  PROVE  IncKept'
<1> USE OfTheRows
<1>1. /\ IncTypes /\ StateAt /\ Untouched /\ BufferKept /\ Placed /\ ModesRead /\ Reasoned
      /\ pic \in Pictures
  BY DEF IncInv, IncKept
<1>2. /\ at \in Headers /\ at' \in Headers \cup {"user"} /\ rowUnchanged /\ Fresh /\ ~setup
      /\ state \in HeaderStates
  BY <1>1 DEF Suspends, HeadersFail, NewFails, DecodeWebPHeaders, DecodeVP8FrameHeader,
     Answers, Goto, Headers, StateAt, HeaderStates, Fresh
<1>3. Fresh' /\ AllPut' = AllPut
  BY <1>2 DEF rowUnchanged, Fresh, workerVars, implVars, finishVars, AllPut
<1>4. CASE Suspends
  <2>1. /\ at' = "user" /\ answer' = "SUSPENDED" /\ ~Enough
        /\ UNCHANGED <<state, memVars, partVars, alpha, deleting>>
    BY <1>4 DEF Suspends, Answers, Goto
  <2>2. end # Size(pic)
    <3> SUFFICES ASSUME end = Size(pic) PROVE FALSE
      OBVIOUS
    <3>1. /\ LastPart \in Parts /\ From(pic, LastPart) \in Nat /\ From(pic, LastPart) >= 3
          /\ Size(pic) > From(pic, LastPart) /\ Size(pic) \in Nat
      BY <1>1, FromIsNumber
    <3>2. Begin(LastPart) = From(pic, LastPart)
      BY <1>1, <3>1, InStream
    <3>3. start = IF at = "headers" THEN 0 ELSE 1
      BY <1>1, <1>2 DEF Untouched, StateAt, Headers
    <3>4. end \in Nat /\ end > From(pic, LastPart) /\ end > 3 /\ start \in 0..1
      BY <1>2, <3>1, <3>3
    <3>5. PartitionsThere /\ (at = "headers" => Has(1)) /\ (at = "frame" => Has(1)) /\ Has(2)
      BY <3>2, <3>3, <3>4 DEF Has, PartitionsThere
    <3>6. Enough
      BY <1>2, <3>5 DEF Enough, Part0, Part0Size, Headers
    <3> QED  BY <2>1, <3>6
  <2>3. IncTypes'
    BY <1>1, <1>2, <2>1, <2>2 DEF IncTypes, memVars, partVars, rowUnchanged, Parts,
       HeaderStates
  <2>4. StateAt' /\ ~Live'
    BY <1>1, <1>2, <1>3, <2>1 DEF StateAt, rowUnchanged, Live, HeaderStates, Decoding, Fresh
  <2>5. Untouched'
    BY <1>1, <1>2, <1>3, <2>1 DEF Untouched, memVars, partVars, rowUnchanged, HeaderStates,
       Headers
  <2>6. BufferKept' /\ Placed' /\ ModesRead' /\ Reasoned'
    BY <1>1, <1>2, <2>1, <2>2, <2>4 DEF BufferKept, Placed, ModesRead, Reasoned, memVars,
       rowUnchanged
  <2> QED  BY <2>3, <2>4, <2>5, <2>6 DEF IncKept
<1>5. CASE HeadersFail \/ NewFails
  <2>1. /\ at' = "user" /\ answer' \in {"ERROR", "OUT_OF_MEMORY"}
        /\ state' \in {state, "ERROR"}
        /\ UNCHANGED <<memVars, partVars, alpha, deleting>>
    BY <1>5 DEF HeadersFail, NewFails, Answers, Goto
  <2>2. IncTypes'
    BY <1>1, <1>2, <2>1 DEF IncTypes, memVars, partVars, rowUnchanged, Parts,
       HeaderStates
  <2>3. StateAt' /\ ~Live'
    BY <1>1, <1>2, <1>3, <2>1 DEF StateAt, rowUnchanged, Live, HeaderStates, Decoding, Fresh
  <2>4. Untouched'
    BY <1>1, <1>2, <1>3, <2>1 DEF Untouched, memVars, partVars, rowUnchanged, HeaderStates,
       Headers
  <2>5. BufferKept' /\ Placed' /\ ModesRead' /\ Reasoned'
    BY <1>1, <1>2, <2>1, <2>3 DEF BufferKept, Placed, ModesRead, Reasoned, memVars,
       rowUnchanged
  <2> QED  BY <2>2, <2>3, <2>4, <2>5 DEF IncKept
<1>6. CASE DecodeWebPHeaders
  <2>1. /\ at' = "frame" /\ state' = "VP8_HEADER" /\ start = 0 /\ start' = 1
        /\ end \in Nat /\ 1 <= end
        /\ alpha' \in {"needed", "no"}
        /\ UNCHANGED <<mode, end, kept, stale, partVars, deleting, answer>>
    BY <1>1, <1>6 DEF DecodeWebPHeaders, Goto, Enough, Has, Part0, StateAt, Untouched, IncTypes
  <2>2. kept = 0
    BY <1>1, <2>1 DEF IncTypes
  <2>3. IncTypes'
    BY <1>1, <1>2, <2>1, <2>2 DEF IncTypes, memVars, partVars, rowUnchanged, Parts,
       HeaderStates
  <2>4. StateAt' /\ ~Live'
    BY <1>1, <1>2, <1>3, <2>1 DEF StateAt, rowUnchanged, Live, HeaderStates, Decoding, Fresh
  <2>5. Untouched'
    BY <1>1, <1>2, <1>3, <2>1 DEF Untouched, memVars, partVars, rowUnchanged, HeaderStates,
       Headers
  <2>6. BufferKept' /\ Placed' /\ ModesRead' /\ Reasoned'
    BY <1>1, <1>2, <2>1, <2>2, <2>4 DEF BufferKept, Placed, ModesRead, Reasoned, memVars,
       rowUnchanged
  <2> QED  BY <2>3, <2>4, <2>5, <2>6 DEF IncKept
<1>7. CASE DecodeVP8FrameHeader
  <2>1. /\ at' = "parts0" /\ state' = "VP8_PARTS0" /\ state = "VP8_HEADER"
        /\ UNCHANGED <<memVars, partVars, alpha, deleting, answer>>
    BY <1>1, <1>7 DEF DecodeVP8FrameHeader, Goto, StateAt
  <2>2. IncTypes'
    BY <1>1, <1>2, <2>1 DEF IncTypes, memVars, partVars, rowUnchanged, Parts,
       HeaderStates
  <2>3. StateAt' /\ ~Live'
    BY <1>1, <1>2, <1>3, <2>1 DEF StateAt, rowUnchanged, Live, HeaderStates, Decoding, Fresh
  <2>4. Untouched'
    BY <1>1, <1>2, <1>3, <2>1 DEF Untouched, memVars, partVars, rowUnchanged, HeaderStates,
       Headers
  <2>5. BufferKept' /\ Placed' /\ ModesRead' /\ Reasoned'
    BY <1>1, <1>2, <2>1, <2>3 DEF BufferKept, Placed, ModesRead, Reasoned, memVars,
       rowUnchanged
  <2> QED  BY <2>2, <2>3, <2>4, <2>5 DEF IncKept
<1> QED  BY <1>4, <1>5, <1>6, <1>7

LEMMA PartitionsKeep ==
  ASSUME IncInv, DecodePartition0
  PROVE  IncKept'
<1> USE OfTheRows
<1>1. /\ IncTypes /\ StateAt /\ Untouched /\ BufferKept /\ Placed /\ ModesRead /\ Reasoned
      /\ pic \in Pictures
  BY DEF IncInv, IncKept
<1>2. /\ at = "parts0" /\ Enough /\ at' = "setup" /\ rowUnchanged /\ Fresh
      /\ pos' = [p \in Parts |-> Clip(Begin(p), end)]
      /\ stop' = [p \in Parts |-> IF p = LastPart THEN end ELSE Clip(Begin(p + 1), end)]
      /\ start' = start + Part0Size - 1
      /\ UNCHANGED <<state, mode, end, kept, stale, modes, last_mb_y, mb_x, saved,
                     rowok, alpha, deleting, answer>>
  BY DEF DecodePartition0, Goto, Headers
<1>3. /\ state = "VP8_PARTS0" /\ start = 1 /\ start' = 2 /\ mb_y = 0
      /\ last_mb_y = -1 /\ modes = 0 /\ mb_x = 0 /\ saved = -1 /\ rowok
  BY <1>1, <1>2 DEF StateAt, Untouched, HeaderStates, Fresh, Part0Size
<1>4. /\ LastPart \in Parts /\ Size(pic) \in Nat
      /\ \A p \in Parts : /\ From(pic, p) \in Nat /\ From(pic, p) >= 3
                          /\ From(pic, p) <= From(pic, LastPart)
                          /\ p # LastPart => p + 1 \in Parts
  <2>1. \A p \in Parts : p # LastPart => p + 1 \in Parts
    BY FromIsNumber, <1>1 DEF Parts, LastPart
  <2> QED  BY <1>1, <2>1, FromIsNumber
<1>5. end \in 0..Size(pic) /\ end > From(pic, LastPart) /\ end > 2 /\ kept \in 0..1
  <2>1. end > Begin(LastPart)
    BY <1>2 DEF Enough, PartitionsThere
  <2>2. end > From(pic, LastPart)
    BY <1>1, <1>4, <2>1, InStream
  <2> QED  BY <1>1, <1>3, <1>4, <2>2 DEF IncTypes
<1>6. /\ pos' = [p \in Parts |-> From(pic, p)]
      /\ stop' = [p \in Parts |-> IF p = LastPart THEN end ELSE From(pic, p + 1)]
  <2>1. \A p \in Parts : Clip(Begin(p), end) = From(pic, p)
    <3> SUFFICES ASSUME NEW p \in Parts PROVE Clip(Begin(p), end) = From(pic, p)
      OBVIOUS
    <3>1. Begin(p) = From(pic, p) /\ From(pic, p) \in Nat /\ From(pic, p) <= end
      BY <1>1, <1>4, <1>5, InStream
    <3> QED  BY <1>5, <3>1 DEF Clip
  <2> QED  BY <1>2, <1>4, <2>1
<1>7. IncTypes'
  <2>1. \A p \in Parts : From(pic, p) \in 0..Size(pic)
    BY <1>4, <1>5
  <2>2. pos' \in [Parts -> 0..Size(pic)] /\ stop' \in [Parts -> 0..Size(pic)]
    BY <1>4, <1>5, <1>6, <2>1
  <2> QED  BY <1>1, <1>2, <1>3, <1>5, <2>2 DEF IncTypes, rowUnchanged, Parts
<1>8. StateAt'
  BY <1>1, <1>2, <1>3 DEF StateAt, Decoding
<1>9. Untouched'
  BY <1>1, <1>2, <1>3 DEF Untouched
<1>10. BufferKept'
  BY <1>1, <1>2 DEF BufferKept
<1>11. Placed'
  <2>1. \A p \in Parts : Units(pic, p, 0) = 0
    BY <1>1, PictureUnits DEF Parts
  <2>2. /\ Parts' = Parts /\ LastPart' = LastPart /\ pic' = pic /\ RowsRead' = 0
        /\ mb_x' = 0 /\ end' = end /\ at' # "starved"
    BY <1>2, <1>3 DEF rowUnchanged, Parts, LastPart, RowsRead
  <2>3. \A p \in Parts : Place(p)' = From(pic, p)
    BY <1>6, <2>2 DEF Place
  <2> QED  BY <1>3, <1>4, <1>5, <1>6, <2>1, <2>2, <2>3 DEF Placed
<1>12. ModesRead'
  BY <1>2, <1>3 DEF ModesRead, rowUnchanged
<1>13. Reasoned'
  BY <1>2 DEF Reasoned
<1> QED  BY <1>7, <1>8, <1>9, <1>10, <1>11, <1>12, <1>13 DEF IncKept

LEMMA SetupKeeps ==
  ASSUME IncInv, EntersData \/ SetupFails
  PROVE  IncKept'
<1> USE OfTheRows
<1>1. IncTypes /\ StateAt /\ Untouched /\ BufferKept /\ Placed /\ ModesRead /\ Reasoned
  BY DEF IncInv, IncKept
<1>2. /\ at = "setup" /\ UNCHANGED <<pic, mb_y, memVars, partVars, alpha, deleting>>
      /\ mb_y = 0 /\ state = "VP8_PARTS0"
      /\ last_mb_y = -1 /\ modes = 0 /\ mb_x = 0 /\ saved = -1 /\ rowok
      /\ \/ at' = "init" /\ setup' /\ state' = "VP8_DATA" /\ answer' = answer
         \/ at' = "user" /\ ~setup' /\ state' = "ERROR" /\ answer' = "ERROR"
  BY <1>1 DEF EntersData, SetupFails, EnterCritical, Goto, StateAt, Untouched, HeaderStates
<1>3. IncTypes'
  BY <1>1, <1>2 DEF IncTypes, memVars, partVars, Parts
<1>4. StateAt'
  BY <1>1, <1>2 DEF StateAt, Decoding
<1>5. Untouched'
  BY <1>1, <1>2 DEF Untouched, HeaderStates, memVars, partVars
<1>6. BufferKept'
  BY <1>1, <1>2 DEF BufferKept, memVars
<1>7. Placed'
  BY <1>1, <1>2, PlacedStays DEF memVars, partVars, Live, RowsRead
<1>8. ModesRead'
  BY <1>1, <1>2 DEF ModesRead, memVars, partVars, Live, Decoding
<1>9. Reasoned'
  BY <1>2 DEF Reasoned
<1> QED  BY <1>3, <1>4, <1>5, <1>6, <1>7, <1>8, <1>9 DEF IncKept

-------------------------------------------------------------------------------
(* The rows' data.                                                         *)
LEMMA ModesKeep ==
  ASSUME IncInv, ParseModes
  PROVE  IncKept'
<1> USE OfTheRows
<1>1. /\ IncTypes /\ StateAt /\ Untouched /\ BufferKept /\ Placed /\ ModesRead /\ Reasoned
      /\ pic \in Pictures
  BY DEF IncInv, IncKept
<1>2. /\ at = "parse" /\ at' = "mb"
      /\ UNCHANGED <<pic, mb_y, setup, state, memVars, pos, stop, mb_x, saved, alpha,
                     deleting, answer>>
      /\ IF last_mb_y # mb_y
         THEN /\ modes' = Clip(modes + 1, pic.mb_h) /\ rowok' = (modes = mb_y)
              /\ last_mb_y' = mb_y
         ELSE UNCHANGED <<modes, rowok, last_mb_y>>
  BY DEF ParseModes, ModesDue, Goto
<1>3. Live /\ mb_y < pic.mb_h /\ mb_y \in Nat /\ pic.mb_h \in Nat /\ state = "VP8_DATA"
  BY <1>1, <1>2, PictureUnits DEF Live, Decoding, StateAt
<1>4. /\ modes' = mb_y + 1 /\ last_mb_y' = mb_y /\ rowok' = TRUE
  <2>1. /\ rowok = TRUE
        /\ modes = IF last_mb_y = mb_y THEN mb_y + 1 ELSE mb_y
    BY <1>1, <1>3 DEF ModesRead, IncTypes
  <2>2. CASE last_mb_y = mb_y
    BY <1>2, <2>1, <2>2
  <2>3. CASE last_mb_y # mb_y
    <3>1. modes = mb_y /\ Clip(mb_y + 1, pic.mb_h) = mb_y + 1
      BY <1>3, <2>1, <2>3 DEF Clip
    <3> QED  BY <1>2, <2>3, <3>1
  <2> QED  BY <2>2, <2>3
<1>5. IncTypes'
  BY <1>1, <1>2, <1>3, <1>4 DEF IncTypes, memVars, Parts
<1>6. StateAt'
  BY <1>1, <1>2, <1>3 DEF StateAt
<1>7. Untouched'
  BY <1>1, <1>2, <1>3 DEF Untouched, HeaderStates, memVars
<1>8. BufferKept'
  BY <1>1, <1>2 DEF BufferKept, memVars
<1>9. Placed'
  BY <1>1, <1>2, <1>3, PlacedStays DEF memVars, RowsRead
<1>10. ModesRead'
  BY <1>1, <1>2, <1>3, <1>4 DEF ModesRead
<1>11. Reasoned'
  BY <1>2 DEF Reasoned
<1> QED  BY <1>5, <1>6, <1>7, <1>8, <1>9, <1>10, <1>11 DEF IncKept

LEMMA ErrorKeeps ==
  ASSUME IncInv, ModesFail \/ MbCorrupt \/ StarvedFails
  PROVE  IncKept'
<1> USE OfTheRows
<1>1. IncTypes /\ StateAt /\ Untouched /\ BufferKept /\ Placed /\ ModesRead /\ Reasoned
  BY DEF IncInv, IncKept
<1>2. at \in {"parse", "mb", "starved"} /\ at' = "exit" /\ rowUnchanged /\ UNCHANGED idecVars
  BY DEF ModesFail, MbCorrupt, StarvedFails, Goto
<1>3. state = "VP8_DATA"
  BY <1>1, <1>2 DEF StateAt, Decoding
<1> USE DEF idecVars, memVars, partVars, rowUnchanged
<1>4. IncTypes'
  BY <1>1, <1>2 DEF IncTypes, Parts
<1>5. StateAt' /\ ~Live'
  BY <1>1, <1>2, <1>3 DEF StateAt, Live, Decoding
<1>6. Untouched'
  BY <1>1, <1>2, <1>3 DEF Untouched, HeaderStates
<1>7. BufferKept' /\ Placed' /\ ModesRead' /\ Reasoned'
  BY <1>1, <1>2, <1>5 DEF BufferKept, Placed, ModesRead, Reasoned
<1> QED  BY <1>4, <1>5, <1>6, <1>7 DEF IncKept

(* Where the reader is within its part: a macroblock more is there if the  *)
(* whole stream is.                                                        *)
LEMMA ReaderAt ==
  ASSUME IncInv, at = "mb"
  PROVE  /\ Reader \in Parts /\ pos[Reader] \in Nat /\ stop[Reader] \in Nat
         /\ pos[Reader] = From(pic, Reader) + 2 * (Units(pic, Reader, mb_y) + mb_x)
         /\ start <= pos[Reader] /\ stop[Reader] <= Size(pic) /\ Size(pic) \in Nat
         /\ pic.parts = 1 => stop[Reader] = end
         /\ mb_x < pic.mb_w /\ end = Size(pic) => pos[Reader] + 2 <= stop[Reader]
<1>1. /\ pic \in Pictures /\ mb_y \in 0..pic.mb_h /\ mb_y < pic.mb_h
  BY OfTheRows DEF Live, Decoding
<1>2. IncTypes /\ Placed /\ ModesRead /\ Live
  BY DEF IncInv, IncKept, Live, Decoding
<1>3. /\ pic.parts \in {1, 2} /\ pic.mb_w \in Nat /\ pic.mb_h \in Nat
      /\ LastPart \in Parts /\ Size(pic) \in Nat
  BY <1>1, PictureUnits, FromIsNumber
<1>4. Reader \in Parts /\ mb_y % pic.parts = Reader
  BY <1>1, <1>3 DEF Reader, PartOf, Parts
<1>5. /\ pos[Reader] = From(pic, Reader) + 2 * (Units(pic, Reader, mb_y) + mb_x)
      /\ start <= pos[Reader]
      /\ stop[Reader] = IF Reader = LastPart THEN end ELSE From(pic, Reader + 1)
  BY <1>2, <1>4 DEF Placed, Place, RowsRead
<1>6. /\ pos[Reader] \in 0..Size(pic) /\ stop[Reader] \in 0..Size(pic) /\ mb_x \in Nat
  BY <1>2, <1>3, <1>4 DEF IncTypes
<1>7. pic.parts = 1 => Reader = LastPart
  BY <1>4 DEF Parts, LastPart
<1>8. PICK u \in Nat, v \in Nat, t \in Nat :
        /\ u = Units(pic, Reader, mb_y) /\ t = Units(pic, Reader, pic.mb_h)
        /\ v = Units(pic, Reader, mb_y + 1)
        /\ v = u + pic.mb_w /\ v <= t
  <2>1. mb_y \in 0..pic.mb_h /\ mb_y + 1 \in 0..pic.mb_h /\ pic.mb_h \in 0..pic.mb_h
    BY <1>1, <1>3
  <2>2. /\ Units(pic, Reader, mb_y) \in Nat /\ Units(pic, Reader, pic.mb_h) \in Nat
        /\ Units(pic, Reader, mb_y + 1) \in Nat
        /\ Units(pic, Reader, mb_y + 1) <= Units(pic, Reader, pic.mb_h)
        /\ Units(pic, Reader, mb_y + 1) = Units(pic, Reader, mb_y) + pic.mb_w
    BY <1>1, <1>4, <2>1, PictureUnits DEF Parts
  <2> QED  BY <2>2
<1>9. PICK f \in Nat : f = From(pic, Reader)
  BY <1>1, <1>4, FromIsNumber
<1>10. end = Size(pic) => stop[Reader] = f + 2 * t
  BY <1>1, <1>4, <1>5, <1>8, <1>9, FromIsNumber
<1>11. mb_x < pic.mb_w /\ end = Size(pic) => pos[Reader] + 2 <= stop[Reader]
  BY <1>3, <1>5, <1>6, <1>8, <1>9, <1>10
<1> QED  BY <1>3, <1>4, <1>5, <1>6, <1>7, <1>11

LEMMA MBKeeps ==
  ASSUME IncInv, DecodeMB
  PROVE  IncKept'
<1> USE OfTheRows
<1>1. /\ IncTypes /\ StateAt /\ Untouched /\ BufferKept /\ Placed /\ ModesRead /\ Reasoned
      /\ pic \in Pictures
  BY DEF IncInv, IncKept
<1>2. /\ at = "mb" /\ mb_x < pic.mb_w /\ pos[Reader] + 2 <= stop[Reader]
      /\ pos' = [pos EXCEPT ![Reader] = @ + 2]
      /\ mb_x' = mb_x + 1 /\ rowok' = (rowok /\ MbRight)
      /\ start' = IF pic.parts = 1 THEN pos[Reader] + 2 ELSE start
      /\ UNCHANGED <<pic, at, mb_y, setup, state, mode, end, kept, stale, stop, modes,
                     last_mb_y, saved, alpha, deleting, answer>>
  BY DEF DecodeMB, MbThere, MbSize
<1>3. Live /\ state = "VP8_DATA" /\ saved = -1 /\ last_mb_y = mb_y
  BY <1>1, <1>2 DEF Live, Decoding, StateAt, ModesRead
<1>4. rowok' = TRUE
  BY <1>2, RightMB
<1>5. /\ Reader \in Parts /\ pos[Reader] \in Nat /\ stop[Reader] \in Nat
      /\ start <= pos[Reader] /\ stop[Reader] <= Size(pic) /\ Size(pic) \in Nat
      /\ (pic.parts = 1 => stop[Reader] = end)
  BY <1>2, ReaderAt
<1>6. pic.mb_w \in Nat /\ pic.mb_h \in Nat
  BY <1>1, PictureUnits
<1>7. start' \in 0..end /\ start <= start' /\ (pic.parts # 1 => start' = start)
  BY <1>1, <1>2, <1>5 DEF IncTypes
<1>8. IncTypes'
  <2>1. pos' \in [Parts -> 0..Size(pic)]
    BY <1>1, <1>2, <1>5 DEF IncTypes
  <2> QED  BY <1>1, <1>2, <1>4, <1>6, <1>7, <2>1, SMTT(30) DEF IncTypes, Parts
<1>9. StateAt'
  BY <1>1, <1>2, <1>3 DEF StateAt
<1>10. Untouched'
  BY <1>1, <1>2, <1>3 DEF Untouched, HeaderStates
<1>11. BufferKept'
  BY <1>1, <1>2 DEF BufferKept
<1>12. Placed'
  <2>1. Live' /\ RowsRead' = RowsRead /\ Parts' = Parts /\ LastPart' = LastPart /\ Reader' = Reader
    BY <1>2, <1>3 DEF Live, RowsRead, Parts, LastPart, Reader, PartOf
  <2>2. \A p \in Parts :
          /\ Place(p) = From(pic, p)
                          + 2 * (Units(pic, p, RowsRead) + IF p = Reader THEN mb_x ELSE 0)
          /\ start <= Place(p)
          /\ stop[p] = IF p = LastPart THEN end ELSE From(pic, p + 1)
    BY <1>1, <1>3 DEF Placed
  <2>3. /\ end > From(pic, LastPart) /\ RowsRead = mb_y
        /\ \A p \in Parts : Place(p) = pos[p] /\ Place(p)' = pos'[p]
    BY <1>1, <1>2, <1>3, <2>1 DEF Placed, Place, RowsRead
  <2>4. ASSUME NEW p \in Parts
        PROVE  /\ pos'[p] = From(pic, p)
                              + 2 * (Units(pic, p, RowsRead) + IF p = Reader THEN mb_x' ELSE 0)
               /\ start' <= pos'[p]
    <3>1. CASE p # Reader
      <4>1. pic.parts # 1
        BY <1>5, <3>1 DEF Parts
      <4> QED  BY <1>1, <1>2, <1>7, <2>2, <2>3, <3>1, <4>1 DEF IncTypes
    <3>2. CASE p = Reader
      <4>1. pos'[p] = pos[p] + 2 /\ pos[p] \in Nat
        BY <1>1, <1>2, <1>5, <3>2 DEF IncTypes
      <4>2. Units(pic, p, RowsRead) \in Nat /\ From(pic, p) \in Nat /\ mb_x \in Nat
        <5>1. RowsRead \in 0..pic.mb_h
          BY <2>3
        <5> QED  BY <1>1, <5>1, FromIsNumber, PictureUnits DEF Parts, IncTypes
      <4>3. pos[p] = From(pic, p) + 2 * (Units(pic, p, RowsRead) + mb_x)
        BY <2>2, <2>3, <3>2
      <4>4. start' <= pos[p] + 2
        BY <1>1, <1>2, <1>5, <3>2 DEF IncTypes
      <4> QED  BY <1>2, <3>2, <4>1, <4>2, <4>3, <4>4
    <3> QED  BY <3>1, <3>2
  <2> QED  BY <1>2, <2>1, <2>2, <2>3, <2>4 DEF Placed
<1>13. ModesRead'
  BY <1>1, <1>2, <1>3, <1>4 DEF ModesRead
<1>14. Reasoned'
  BY <1>2 DEF Reasoned
<1> QED  BY <1>8, <1>9, <1>10, <1>11, <1>12, <1>13, <1>14 DEF IncKept

LEMMA RowParsedKeeps ==
  ASSUME IncInv, RowParsed
  PROVE  IncKept'
<1> USE OfTheRows
<1>1. /\ IncTypes /\ StateAt /\ Untouched /\ BufferKept /\ Placed /\ ModesRead /\ Reasoned
      /\ pic \in Pictures
  BY DEF IncInv, IncKept
<1>2. /\ at = "mb" /\ mb_x = pic.mb_w /\ mb_x' = 0 /\ at' \in {"direct", "sync"}
      /\ UNCHANGED <<pic, mb_y, setup, state, memVars, pos, stop, modes, last_mb_y, saved,
                     rowok, alpha, deleting, answer>>
  BY DEF RowParsed, Goto, rowUnchanged
<1>3. Live /\ Live' /\ state = "VP8_DATA" /\ last_mb_y = mb_y
  BY <1>1, <1>2 DEF Live, Decoding, StateAt, ModesRead
<1>4. pic.mb_w \in Nat /\ pic.mb_h \in Nat /\ pic.parts \in {1, 2}
  BY <1>1, PictureUnits
<1>5. IncTypes'
  BY <1>1, <1>2, <1>4 DEF IncTypes, memVars, Parts
<1>6. StateAt'
  BY <1>1, <1>2, <1>3 DEF StateAt, Decoding
<1>7. Untouched'
  BY <1>1, <1>2, <1>3 DEF Untouched, HeaderStates, memVars
<1>8. BufferKept'
  BY <1>1, <1>2 DEF BufferKept, memVars
<1>9. Placed'
  <2>1. /\ Parts' = Parts /\ LastPart' = LastPart /\ RowsRead = mb_y /\ RowsRead' = mb_y + 1
        /\ \A p \in Parts : Place(p) = pos[p] /\ Place(p)' = pos[p]
    BY <1>2 DEF Parts, LastPart, RowsRead, Place
  <2>2. ASSUME NEW p \in Parts
        PROVE  Units(pic, p, mb_y + 1) =
                 Units(pic, p, mb_y) + (IF p = Reader THEN mb_x ELSE 0)
    BY <1>1, <1>2, PictureUnits DEF Reader, PartOf, Parts
  <2>3. ASSUME NEW p \in Parts
        PROVE  pos[p] = From(pic, p) + 2 * (Units(pic, p, mb_y + 1) + 0)
    <3>1. pos[p] = From(pic, p)
                     + 2 * (Units(pic, p, mb_y) + IF p = Reader THEN mb_x ELSE 0)
      BY <1>1, <1>3, <2>1 DEF Placed
    <3>2. Units(pic, p, mb_y) \in Nat /\ mb_x \in Nat
      BY <1>1, PictureUnits DEF Parts, IncTypes
    <3> QED  BY <2>2, <3>1, <3>2
  <2> QED  BY <1>1, <1>2, <1>3, <2>1, <2>3 DEF Placed, memVars
<1>10. ModesRead'
  BY <1>1, <1>2, <1>3 DEF ModesRead, memVars
<1>11. Reasoned'
  BY <1>2 DEF Reasoned
<1> QED  BY <1>5, <1>6, <1>7, <1>8, <1>9, <1>10, <1>11 DEF IncKept

LEMMA StarvesKeeps ==
  ASSUME IncInv, MbStarves
  PROVE  IncKept'
<1> USE OfTheRows
<1>1. /\ IncTypes /\ StateAt /\ Untouched /\ BufferKept /\ Placed /\ ModesRead /\ Reasoned
      /\ pic \in Pictures
  BY DEF IncInv, IncKept
<1>2. /\ at = "mb" /\ mb_x < pic.mb_w /\ ~MbThere /\ at' = "starved"
      /\ saved' = pos[Reader] /\ pos' = [pos EXCEPT ![Reader] = stop[Reader]]
      /\ UNCHANGED <<pic, mb_y, setup, state, memVars, stop, modes, last_mb_y, mb_x, rowok,
                     alpha, deleting, answer>>
  BY DEF MbStarves, Goto
<1>3. Live /\ Live' /\ state = "VP8_DATA" /\ last_mb_y = mb_y
  BY <1>1, <1>2 DEF Live, Decoding, StateAt, ModesRead
<1>4. /\ Reader \in Parts /\ pos[Reader] \in Nat /\ stop[Reader] \in Nat
      /\ start <= pos[Reader] /\ stop[Reader] <= Size(pic) /\ Size(pic) \in Nat
      /\ (end = Size(pic) => pos[Reader] + 2 <= stop[Reader])
  BY <1>2, ReaderAt
<1>5. /\ pos[Reader] <= Size(pic) /\ pos \in [Parts -> 0..Size(pic)]
      /\ stop \in [Parts -> 0..Size(pic)] /\ mb_x \in Nat
  BY <1>1, <1>4 DEF IncTypes
<1>6. end = Size(pic) => pic.bad # 0
  <2> SUFFICES ASSUME end = Size(pic) PROVE pic.bad # 0
    OBVIOUS
  <2>1. MbNumber = pic.bad
    BY <1>2, <1>4 DEF MbThere, MbSize
  <2>2. PICK y \in Nat, w \in Nat \ {0} : y = mb_y /\ w = pic.mb_w /\ y * w \in Nat
    <3>1. mb_y \in Nat /\ pic.mb_w \in Nat \ {0}
      BY <1>1, PictureUnits
    <3> QED  BY <3>1, Product
  <2>3. MbNumber = y * w + mb_x + 1
    BY <2>2 DEF MbNumber
  <2> QED  BY <1>5, <2>1, <2>2, <2>3
<1>7. IncTypes'
  BY <1>1, <1>2, <1>4, <1>5 DEF IncTypes, memVars, Parts
<1>8. StateAt'
  BY <1>1, <1>2, <1>3 DEF StateAt, Decoding
<1>9. Untouched'
  BY <1>1, <1>2, <1>3 DEF Untouched, HeaderStates, memVars
<1>10. BufferKept'
  BY <1>1, <1>2 DEF BufferKept, memVars
<1>11. Placed'
  <2>1. /\ Parts' = Parts /\ LastPart' = LastPart /\ RowsRead' = RowsRead /\ Reader' = Reader
        /\ \A p \in Parts : Place(p)' = Place(p)
    BY <1>2, <1>4, <1>5 DEF Parts, LastPart, RowsRead, Reader, PartOf, Place
  <2> QED  BY <1>1, <1>2, <1>3, <2>1 DEF Placed, memVars
<1>12. ModesRead'
  BY <1>1, <1>2, <1>3, <1>6 DEF ModesRead, memVars
<1>13. Reasoned'
  BY <1>2 DEF Reasoned
<1> QED  BY <1>7, <1>8, <1>9, <1>10, <1>11, <1>12, <1>13 DEF IncKept

LEMMA RestoreKeeps ==
  ASSUME IncInv, RestoreContext
  PROVE  IncKept'
<1> USE OfTheRows
<1>1. /\ IncTypes /\ StateAt /\ Untouched /\ BufferKept /\ Placed /\ ModesRead /\ Reasoned
      /\ pic \in Pictures
  BY DEF IncInv, IncKept
<1>2. /\ at = "starved" /\ at' = "user" /\ answer' = "SUSPENDED" /\ saved' = -1
      /\ pos' = [pos EXCEPT ![Reader] = saved]
      /\ UNCHANGED <<pic, mb_y, setup, bufferVars, state, memVars, stop, modes, last_mb_y,
                     mb_x, rowok, alpha, deleting>>
  BY DEF RestoreContext, RestoredPos, Answers, Goto, rowUnchanged
<1>3. /\ Live /\ Live' /\ state = "VP8_DATA" /\ last_mb_y = mb_y /\ setup /\ RowHeld
  BY <1>1, <1>2 DEF Live, Decoding, StateAt, ModesRead
<1>4. Reader \in Parts
  BY <1>1, PictureUnits DEF Reader, PartOf, Parts
<1>5. saved \in 0..Size(pic)
  <2>1. saved \in -1..Size(pic) /\ start \in Nat /\ Size(pic) \in Nat
    BY <1>1, FromIsNumber DEF IncTypes
  <2>2. start <= saved
    BY <1>1, <1>2, <1>3, <1>4 DEF Placed, Place
  <2> QED  BY <2>1, <2>2
<1>6. IncTypes'
  <2>1. Size(pic) \in Nat
    BY <1>1, FromIsNumber
  <2> QED  BY <1>1, <1>2, <1>4, <1>5, <2>1 DEF IncTypes, memVars, Parts
<1>7. StateAt'
  BY <1>1, <1>2, <1>3 DEF StateAt, Decoding
<1>8. Untouched'
  BY <1>1, <1>2, <1>3 DEF Untouched, HeaderStates, memVars
<1>9. BufferKept'
  BY <1>1, <1>2 DEF BufferKept, memVars
<1>10. Placed'
  <2>1. /\ Parts' = Parts /\ LastPart' = LastPart /\ RowsRead' = RowsRead /\ Reader' = Reader
        /\ \A p \in Parts : Place(p)' = Place(p)
    BY <1>1, <1>2, <1>4 DEF Parts, LastPart, RowsRead, Reader, PartOf, Place, IncTypes
  <2> QED  BY <1>1, <1>2, <1>3, <2>1 DEF Placed, memVars
<1>11. ModesRead'
  BY <1>1, <1>2, <1>3 DEF ModesRead, memVars, RowHeld, bufferVars
<1>12. Reasoned'
  BY <1>1, <1>2, <1>3 DEF Reasoned, ModesRead, memVars
<1> QED  BY <1>6, <1>7, <1>8, <1>9, <1>10, <1>11, <1>12 DEF IncKept

LEMMA ClosesKeeps ==
  ASSUME IncInv, Closes
  PROVE  IncKept'
<1> USE OfTheRows
<1>1. IncTypes /\ StateAt /\ Untouched /\ BufferKept /\ Placed /\ ModesRead /\ Reasoned
  BY DEF IncInv, IncKept
<1>2. /\ at = "teardown" /\ main = "out" /\ ~setup'
      /\ UNCHANGED <<pic, mb_y, out, memVars, partVars, alpha, deleting>>
      /\ state = "VP8_DATA"
      /\ \/ at' = "clear" /\ UNCHANGED <<state, answer>>
         \/ /\ at' = "user" /\ answer' \in {"OK", "ERROR"} /\ state' \in {"DONE", "ERROR"}
            /\ (state' = "DONE" => Complete)
  BY <1>1 DEF Closes, Teardown, Goto, StateAt, finishVars
<1>3. state' = "DONE" => AllPut'
  BY <1>2 DEF Complete, AllPut
<1> USE DEF memVars, partVars
<1>4. IncTypes'
  BY <1>1, <1>2 DEF IncTypes, Parts
<1>5. StateAt' /\ ~Live'
  BY <1>1, <1>2, <1>3 DEF StateAt, Live, Decoding
<1>6. Untouched'
  BY <1>1, <1>2 DEF Untouched, HeaderStates
<1>7. BufferKept' /\ Placed' /\ ModesRead' /\ Reasoned'
  BY <1>1, <1>2, <1>5 DEF BufferKept, Placed, ModesRead, Reasoned
<1> QED  BY <1>4, <1>5, <1>6, <1>7 DEF IncKept

-------------------------------------------------------------------------------
(* The fields of a decoder without data.                                   *)
LEMMA IDecStarts ==
  ASSUME pic \in Pictures, IDecFields
  PROVE  IncTypes /\ Size(pic) \in Nat \ {0}
<1>1. /\ Size(pic) \in Nat \ {0} /\ pic.mb_w \in Nat /\ pic.mb_h \in Nat
  <2>1. /\ LastPart \in Parts /\ From(pic, LastPart) \in Nat
        /\ Size(pic) > From(pic, LastPart) /\ Size(pic) \in Nat
    BY FromIsNumber
  <2> QED  BY <2>1, PictureUnits
<1>2. pos \in [Parts -> 0..Size(pic)] /\ stop \in [Parts -> 0..Size(pic)]
  BY <1>1 DEF IDecFields
<1>3. /\ state = "WEBP_HEADER" /\ mode = "NONE" /\ end = 0 /\ start = 0 /\ kept = 0
      /\ modes = 0 /\ last_mb_y = -1 /\ mb_x = 0 /\ saved = -1 /\ rowok = TRUE
      /\ alpha = "no" /\ deleting = FALSE /\ answer = "SUSPENDED"
  BY DEF IDecFields
<1>4. /\ end \in 0..Size(pic) /\ start \in 0..end /\ kept \in 0..start
      /\ modes \in 0..pic.mb_h /\ mb_x \in 0..pic.mb_w
  BY <1>1, <1>3
<1>5. last_mb_y \in -1..pic.mb_h /\ saved \in -1..Size(pic)
  BY <1>1, <1>3
<1> QED  BY <1>1, <1>2, <1>3, <1>4, <1>5 DEF IncTypes, HeaderStates

LEMMA InitInc == IDecInit => IncInv
<1> SUFFICES ASSUME IDecInit PROVE IncInv
  OBVIOUS
<1>1. WorkerInit /\ RowsStart("user") /\ IDecFields
  BY DEF IDecInit
<1>2. /\ pic \in Pictures /\ at = "user" /\ mb_y = 0 /\ cache_id = 0 /\ finish = "no"
      /\ rebuilt = 0 /\ setup = FALSE /\ out = <<>> /\ impl = FALSE
  BY <1>1 DEF RowsStart, WorkerInit
<1>3. RowsInv(pic.mb_h)
  <2>1. BrRow(pic) \in Nat /\ BrRow(pic) <= pic.mb_h /\ pic.mb_h \in Nat
    BY <1>2, RowLimits
  <2>2. PICK L \in Nat : L = pic.mb_h
    BY <2>1
  <2> QED  BY <1>1, <2>1, <2>2, StartRows
<1>4. Size(pic) \in Nat \ {0} /\ IncTypes
  BY <1>1, <1>2, IDecStarts
<1>5. Untouched
  BY <1>1, <1>2 DEF IDecFields, Untouched, Fresh
<1>6. StateAt /\ BufferKept /\ Placed /\ ModesRead /\ Reasoned
  <2>1. state = "WEBP_HEADER" /\ stale = {} /\ alpha = "no" /\ end = 0
    BY <1>1 DEF IDecFields
  <2>2. StateAt /\ ~Live
    BY <1>2, <2>1 DEF StateAt, Live, Decoding
  <2> QED  BY <1>4, <2>1, <2>2 DEF BufferKept, Placed, ModesRead, Reasoned
<1> QED  BY <1>3, <1>4, <1>5, <1>6 DEF IncInv, IncKept

LEMMA NextInc == IncInv /\ [IDecNext]_allVars => IncInv'
<1> SUFFICES ASSUME IncInv, [IDecNext]_allVars PROVE IncInv'
  OBVIOUS
<1>1. [AnyRows(pic.mb_h)]_rowsVars
  BY IncRows
<1>2. pic \in Pictures /\ RowsInv(pic.mb_h)
  BY OfTheRows DEF IncInv
<1>3. PICK L \in Nat : L = pic.mb_h
  BY <1>2, PictureUnits
<1>4. RowsInv(L)' /\ pic' = pic
  BY <1>1, <1>2, <1>3, RowsStep
<1>5. RowsInv(pic.mb_h)'
  <2>1. pic'.mb_h = L
    BY <1>3, <1>4
  <2> QED  BY <1>4, <2>1 DEF RowsInv, RowNumbers
<1>6. IncKept'
  <2>1. CASE UserCalls
    BY <2>1, PieceKeeps, CallKeeps DEF UserCalls
  <2>2. CASE OfRows \/ ThreadSteps \/ ((MainWaits \/ WorkerSpurious) /\ UNCHANGED idecVars)
             \/ UNCHANGED allVars
    BY <2>2, RowsMoveOn, RowsMoveKeeps
  <2>3. CASE DecoderSteps /\ ~OfRows
    BY <2>3, HeadersKeep, PartitionsKeep, SetupKeeps, ModesKeep, ErrorKeeps, MBKeeps,
       RowParsedKeeps, StarvesKeeps, RestoreKeeps, ClosesKeeps DEF DecoderSteps
  <2> QED  BY <2>1, <2>2, <2>3 DEF IDecNext
<1> QED  BY <1>5, <1>6 DEF IncInv

(* What the invariant says of the properties.                              *)
LEMMA IncSays ==
  ASSUME IncInv
  PROVE  IDecTypeOK /\ RowsSound /\ PiecesSound
<1>1. /\ IncTypes /\ StateAt /\ Untouched /\ BufferKept /\ Placed /\ ModesRead /\ Reasoned
      /\ pic \in Pictures
      /\ RowsInv(pic.mb_h) /\ IInv /\ Coupled /\ AnyTypeOK
  BY OfTheRows DEF IncInv, IncKept, RowsInv, IInv
<1>2. Total = Size(pic)
  BY <1>1, InStream
<1>3. IDecTypeOK
  <2>1. at \in {"user", "headers", "frame", "parts0", "setup", "init", "alloc",
               "parse", "mb", "starved", "direct", "sync", "hand", "launched",
               "next", "exit", "teardown", "clear", "over", "off", "none"}
    BY <1>1 DEF AnyTypeOK, StateAt, Before, Headers, Decoding
  <2>2. stale \subseteq {Modes, Alpha} \cup Parts
    BY <1>1 DEF BufferKept
  <2>3. state \in {"WEBP_HEADER", "VP8_HEADER", "VP8_PARTS0", "VP8_DATA", "DONE", "ERROR"}
    BY <1>1 DEF IncTypes, HeaderStates
  <2> QED  BY <1>1, <1>2, <2>1, <2>2, <2>3 DEF IDecTypeOK, IncTypes, AnyTypeOK
<1>4. RowsSound
  <2>1. PICK L \in Nat : L = pic.mb_h
    BY <1>1, PictureUnits
  <2> QED  BY <1>1, <2>1, RowsAreSound
<1>5. IdleOutside
  BY <1>1, OfTheRows DEF IdleOutside, Coupled
<1>6. ReadersFollow
  <2> SUFFICES ASSUME at = "user", state = "VP8_DATA" PROVE ReadersFollow
    BY DEF ReadersFollow
  <2>1. Live /\ LastPart \in Parts
    BY <1>1, FromIsNumber DEF Live
  <2>2. \A p \in Parts : start <= pos[p] /\ pos[p] \in Nat
    BY <1>1, <2>1 DEF Placed, Place, IncTypes
  <2>3. stop[LastPart] = end
    BY <1>1, <2>1 DEF Placed
  <2>4. \A p \in Parts : pos[p] >= kept
    BY <1>1, <2>2 DEF IncTypes
  <2> QED  BY <1>1, <2>3, <2>4 DEF ReadersFollow, BufferKept
<1>7. AskedForAReason
  BY <1>1, <1>2 DEF Reasoned, AskedForAReason
<1>8. DoneIsComplete
  BY <1>1 DEF StateAt, DoneIsComplete
<1> QED  BY <1>3, <1>4, <1>5, <1>6, <1>7, <1>8 DEF PiecesSound

LEMMA IncInvariance == IDecSpec => []IncInv
  BY InitInc, NextInc, PTL DEF IDecSpec

(* Every field of the incremental decoder has its type, wherever the data  *)
(* break off, and so have those of the row decoder it drives (idec_dec.c,  *)
(* frame_dec.c).                                                           *)
THEOREM IDecTypeCorrect == IDecSpec => []IDecTypeOK
  BY IncInvariance, IncSays, PTL

(* However a lossy picture is cut into pieces, in whichever of the two     *)
(* ways they are handed over and with whatever use of the thread, put()    *)
(* gets the lines of the crop area once, in order and as decoding the      *)
(* whole picture would make them, and only between setup() and teardown(), *)
(* although rows are parsed again and the worker is at the one before      *)
(* (idec_dec.c:440-486, frame_dec.c:433-482).                              *)
THEOREM PieceRowsCorrect == IDecSpec => []RowsSound
  BY IncInvariance, IncSays, PTL

(* Between two pieces the worker is idle, no reader points into a buffer   *)
(* that has moved or to data that are dropped, more data are asked for     *)
(* only if some are missing or corrupt, and a decoder that says it is done *)
(* has put the whole picture (idec_dec.c:112, 170, 476, 499).              *)
THEOREM PiecesCorrect == IDecSpec => []PiecesSound
  BY IncInvariance, IncSays, PTL

-------------------------------------------------------------------------------
(* The programs together, MCWebP: the worker is everyone's, and each is as *)
(* sound as alone while the others rest.                                   *)

RowsRest ==
  /\ RowDataOK /\ IncTypes /\ stale = {}
  /\ at = "none" /\ state = "WEBP_HEADER" /\ out = <<>>
EncRest == EncDataOK /\ stage = "idle" /\ hooked = {} /\ merged = None
StreamRest == StreamDataOK /\ phase = "idle"

(* The lossless decoder's invariant holds of one that rests as well.       *)
WebPInv ==
  /\ client \in {"any", "batch", "inc", "lossless", "lossy", "stream"}
  /\ IInv /\ LInv
  /\ client = "batch" => AllInv /\ state = "WEBP_HEADER"
  /\ client = "inc" => IncInv
  /\ client \notin {"batch", "inc"} => RowsRest
  /\ IF client = "lossy" THEN EncInv ELSE EncRest
  /\ IF client = "stream" THEN StreamInv ELSE StreamRest

(* Whoever rests does so until the end.                                    *)
LEMMA RowsRestStays ==
  ASSUME RowsRest, UNCHANGED rowVars, UNCHANGED idecVars
  PROVE  RowsRest'
<1>1. UNCHANGED <<pic, at, mb_y, cache_id, ctx, setup, mb_data, f_info, mine, fmine,
                  finish, rebuilt, cache, out>>
  BY DEF rowVars, bufferVars, finishVars
<1>2. UNCHANGED <<state, mode, end, start, kept, stale, pos, stop, modes, last_mb_y,
                  mb_x, saved, rowok, alpha, deleting, answer>>
  BY DEF idecVars, memVars, partVars
<1>3. RowDataOK'
  BY <1>1 DEF RowsRest, RowDataOK
<1>4. IncTypes'
  BY <1>1, <1>2 DEF RowsRest, IncTypes, Parts
<1> QED  BY <1>1, <1>2, <1>3, <1>4 DEF RowsRest

LEMMA EncRestStays == ASSUME EncRest, UNCHANGED encVars PROVE EncRest'
<1>1. UNCHANGED <<shot, stage, ok, row, left, seen, mainbad, merged, hooked, passes,
                  bits, settled, odd, counted, parts, alphadata, failed, aborted>>
  BY DEF encVars, jobVars, passVars, tellVars
<1> QED  BY <1>1 DEF EncRest, EncDataOK

LEMMA StreamRestStays == ASSUME StreamRest, UNCHANGED streamVars PROVE StreamRest'
  BY DEF StreamRest, StreamDataOK, streamVars

LEMMA InitWebP == Init => WebPInv
<1> SUFFICES ASSUME Init PROVE WebPInv
  OBVIOUS
<1>1. /\ client \in {"any", "batch", "inc", "lossless", "lossy", "stream"}
      /\ WorkerInit /\ Start(client)
  BY DEF Init
<1>2. IInv
  BY <1>1, InitIInv
<1>3. LInv
  BY <1>1, LosslessStarts DEF Start
<1>4. IDecFields /\ state = "WEBP_HEADER" /\ stale = {}
  BY <1>1 DEF Start, IDecFields
<1>5. client = "batch" => AllInv
  BY <1>1, InitRows DEF Start, RowsInit
<1>6. client = "inc" => IncInv
  BY <1>1, <1>4, InitInc DEF Start, IDecInit
<1>7. client \notin {"batch", "inc"} => RowsRest
  <2> SUFFICES ASSUME client \notin {"batch", "inc"} PROVE RowsRest
    OBVIOUS
  <2>1. RowsStart("none")
    BY <1>1 DEF Start
  <2>2. pic \in Pictures /\ at = "none" /\ out = <<>> /\ RowDataOK
    BY <2>1, RowFields DEF RowsStart
  <2> QED  BY <1>4, <2>2, IDecStarts DEF RowsRest
<1>8. IF client = "lossy" THEN EncInv ELSE EncRest
  <2>1. CASE client = "lossy"
    BY <1>1, <2>1, InitEnc DEF Start, EncInit
  <2>2. CASE client # "lossy"
    <3>1. EncStart("idle")
      BY <1>1, <2>2 DEF Start
    <3> QED  BY <2>2, <3>1, EncFields DEF EncRest, EncStart
  <2> QED  BY <2>1, <2>2
<1>9. IF client = "stream" THEN StreamInv ELSE StreamRest
  <2>1. CASE client = "stream"
    BY <1>1, <2>1, InitStream DEF Start, StreamInit
  <2>2. CASE client # "stream"
    <3>1. StreamStart("idle")
      BY <1>1, <2>2 DEF Start
    <3> QED  BY <2>2, <3>1, StreamFields DEF StreamRest, StreamStart
  <2> QED  BY <2>1, <2>2
<1> QED  BY <1>1, <1>2, <1>3, <1>4, <1>5, <1>6, <1>7, <1>8, <1>9 DEF WebPInv

(* A step is one of the client that is there.                              *)
LEMMA NextWebP == WebPInv /\ [Next]_webpVars => WebPInv'
<1> SUFFICES ASSUME WebPInv, [Next]_webpVars PROVE WebPInv'
  OBVIOUS
<1> DEFINE c == client
<1>1. client' = client
  BY DEF Next, With, webpVars
<1>2. /\ c = "any" => [WorkerNext]_workerVars
      /\ c = "batch" => [RowsNext]_rowsVars
      /\ c = "inc" => [IDecNext]_allVars
      /\ c = "lossless" => UNCHANGED workerVars
      /\ c = "lossy" => [EncNext]_shotVars
      /\ c = "stream" => [StreamNext]_losslessVars
  BY DEF Next, With, webpVars, rowsVars, allVars, shotVars, losslessVars, OthersStay
<1>3. [LosslessNext]_vp8lVars
  BY DEF Next, With, webpVars, OthersStay
<1>4. /\ c \notin {"batch", "inc"} => UNCHANGED rowVars
      /\ c # "inc" => UNCHANGED idecVars
      /\ c # "lossy" => UNCHANGED encVars
      /\ c # "stream" => UNCHANGED streamVars
  BY DEF Next, With, webpVars, OthersStay
<1>5. /\ c \in {"any", "batch", "inc", "lossless", "lossy", "stream"} /\ IInv /\ LInv
      /\ c = "batch" => AllInv /\ state = "WEBP_HEADER"
      /\ c = "inc" => IncInv
      /\ c \notin {"batch", "inc"} => RowsRest
      /\ IF c = "lossy" THEN EncInv ELSE EncRest
      /\ IF c = "stream" THEN StreamInv ELSE StreamRest
  BY DEF WebPInv
<1> HIDE DEF c
<1>6. LInv'
  BY <1>3, <1>5, NextL
<1>7. c = "batch" => AllInv' /\ state' = "WEBP_HEADER"
  BY <1>2, <1>4, <1>5, NextAll DEF idecVars
<1>8. c = "inc" => IncInv'
  BY <1>2, <1>5, NextInc
<1>9. c \notin {"batch", "inc"} => RowsRest'
  BY <1>4, <1>5, RowsRestStays
<1>10. IF c = "lossy" THEN EncInv' ELSE EncRest'
  BY <1>2, <1>4, <1>5, NextEnc, EncRestStays
<1>11. IF c = "stream" THEN StreamInv' ELSE StreamRest'
  BY <1>2, <1>4, <1>5, NextStream, StreamRestStays
<1>12. IInv'
  <2>1. CASE c \in {"any", "lossless"}
    BY <1>2, <1>5, <2>1, NextIInv
  <2>2. CASE c = "batch"
    BY <1>7, <2>2 DEF AllInv, RowsInv
  <2>3. CASE c = "inc"
    BY <1>8, <2>3 DEF IncInv, RowsInv
  <2>4. CASE c = "lossy"
    BY <1>10, <2>4 DEF EncInv
  <2>5. CASE c = "stream"
    BY <1>11, <2>5 DEF StreamInv
  <2> QED  BY <1>5, <2>1, <2>2, <2>3, <2>4, <2>5
<1>13. client' = c
  BY <1>1 DEF c
<1> QED
  BY <1>5, <1>6, <1>7, <1>8, <1>9, <1>10, <1>11, <1>12, <1>13 DEF WebPInv

LEMMA WebPInvariance == Spec => []WebPInv
  BY InitWebP, NextWebP, PTL DEF Spec

(* Who rests has the types and does nothing that is not sound.             *)
LEMMA RestSays ==
  ASSUME RowsRest
  PROVE  IDecTypeOK /\ RowsSound /\ PiecesSound
<1>1. pic \in Pictures /\ out = <<>> /\ at = "none" /\ state = "WEBP_HEADER"
  BY DEF RowsRest, RowDataOK
<1>2. Total = Size(pic)
  BY <1>1, InStream
<1>3. IDecTypeOK
  BY <1>2 DEF RowsRest, IncTypes, HeaderStates, IDecTypeOK
<1>4. RowsSound
  BY <1>1 DEF RowsSound, LinesInOrder, LinesFinal, AllLinesPut, NoPutAfterTeardown,
     TeardownOnce, NothingLeftOver
<1>5. PiecesSound
  BY <1>1 DEF PiecesSound, IdleOutside, ReadersFollow, AskedForAReason, DoneIsComplete
<1> QED  BY <1>3, <1>4, <1>5

LEMMA OthersSay ==
  ASSUME WebPInv
  PROVE  /\ EncTypeOK /\ EncoderSound
         /\ StreamTypeOK /\ StreamSound
<1>1. EncRest => EncTypeOK /\ EncoderSound
  BY DEF EncRest, EncTypeOK, EncoderSound, HookIsMains, EveryRowOnce, AlphaIsWhole,
     LastPassIsKept, EncoderLeavesNothing, ResultTold
<1>2. EncInv => EncTypeOK /\ EncoderSound
  BY EncSays DEF EncInv
<1>3. StreamRest => StreamTypeOK /\ StreamSound
  BY DEF StreamRest, StreamTypeOK, StreamSound, ShortestIsKept, StreamErrorTold,
     StreamLeavesNothing
<1>4. StreamInv => StreamTypeOK /\ StreamSound
  BY StreamSays DEF StreamInv
<1> QED  BY <1>1, <1>2, <1>3, <1>4 DEF WebPInv

LEMMA RowsSay ==
  ASSUME WebPInv
  PROVE  /\ IF client = "batch" THEN RowsTypeOK ELSE IDecTypeOK
         /\ RowsSound /\ PiecesSound
<1>1. CASE client = "batch"
  <2>1. AllInv /\ state = "WEBP_HEADER"
    BY <1>1 DEF WebPInv
  <2>2. at # "user"
    BY <2>1 DEF AllInv, Places
  <2>3. PiecesSound
    BY <2>1, <2>2 DEF PiecesSound, IdleOutside, ReadersFollow, AskedForAReason,
       DoneIsComplete
  <2> QED  BY <1>1, <2>1, <2>3, AllSays
<1>2. CASE client = "inc"
  BY <1>2, IncSays DEF WebPInv
<1>3. CASE client \notin {"batch", "inc"}
  BY <1>3, RestSays DEF WebPInv
<1> QED  BY <1>1, <1>2, <1>3

(* Whichever program uses the worker, all its fields and those of the      *)
(* programs keep their types (src/dec, src/enc, src/utils/thread_utils.c). *)
THEOREM WebPTypeCorrect == Spec => []WebPTypeOK
<1>1. WebPInv => WebPTypeOK
  <2> SUFFICES ASSUME WebPInv PROVE WebPTypeOK
    OBVIOUS
  <2>1. WorkerTypeOK /\ LosslessTypeOK
    BY TypesAre DEF WebPInv, IInv
  <2> QED  BY <2>1, OthersSay, RowsSay DEF WebPTypeOK
<1> QED  BY <1>1, WebPInvariance, PTL

(* Pictures that come in pieces, lossy and lossless, beside other programs *)
(* that use the library: what comes out is what comes out of the whole,    *)
(* whatever the sizes of the pieces (idec_dec.c:440, 551).                 *)
THEOREM DecodersCorrect == Spec => []DecodersSound
<1>1. WebPInv => DecodersSound
  BY RowsSay, SoundL DEF WebPInv, DecodersSound
<1> QED  BY <1>1, WebPInvariance, PTL

(* The worker, its users and the lossless decoder side by side: what each  *)
(* promises alone it keeps here.                                           *)
THEOREM ClientsCorrect ==
  Spec => [](WorkerSound /\ RowsSound /\ DecodersSound /\ EncoderSound /\ StreamSound)
<1>1. WebPInv => WorkerSound /\ RowsSound /\ DecodersSound /\ EncoderSound /\ StreamSound
  BY WorkerSays, RowsSay, SoundL, OthersSay DEF WebPInv, DecodersSound
<1> QED  BY <1>1, WebPInvariance, PTL
===============================================================================
