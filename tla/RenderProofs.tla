------------------------------ MODULE RenderProofs -----------------------------
(***************************************************************************)
(* Proofs about the two halves of render.  Layout: lines lose no rune and  *)
(* stay inside the picture, probeEmoji finds the longest emoji, and the    *)
(* emojis lie on the gaps that are left for them.  Links: its types, and   *)
(* what a request to /~link/ is answered with, for any number of requests  *)
(* and overlapping Refreshes.                                              *)
(***************************************************************************)
EXTENDS Links, Layout, SequenceTheorems, FiniteSetTheorems, WellFoundedInduction,
        TLAPS

-------------------------------------------------------------------------------
(* FlattenSeq.                                                             *)

(* Sets of numbers that hold 0 and every number's successor.               *)
LEMMA Upwards ==
  ASSUME NEW S \in SUBSET Nat, 0 \in S, \A n \in S : n + 1 \in S
  PROVE  S = Nat
<1>1. IsWellFoundedOn(OpToRel(<, Nat), Nat)
  BY NatLessThanWellFounded
<1>2. SUFFICES ASSUME Nat \ S # {} PROVE FALSE
  OBVIOUS
<1>3. PICK x \in Nat \ S : \A y \in Nat \ S : ~(<<y, x>> \in OpToRel(<, Nat))
  BY <1>1, <1>2, WFMin
<1>4. x # 0 /\ x - 1 \in Nat /\ x - 1 < x /\ (x - 1) + 1 = x
  <2>1. x \in Nat /\ x \notin S
    BY <1>3, Zenon
  <2>2. x # 0
    BY <2>1, Zenon
  <2> QED  BY <2>1, <2>2
<1>5. <<x - 1, x>> \in OpToRel(<, Nat)
  BY <1>4 DEF OpToRel
<1> QED  BY <1>3, <1>4, <1>5

(* The functions that FlattenSeq chooses from.                             *)
Flattens(f, ss, n) ==
  f = [i \in 1..n |-> IF i = 1 THEN ss[i] ELSE f[i - 1] \o ss[i]]

LEMMA FlattenExists == ASSUME NEW ss PROVE \A n \in Nat : \E f : Flattens(f, ss, n)
<1> DEFINE S == {n \in Nat : \E f : Flattens(f, ss, n)}
<1>1. 0 \in S
  <2> DEFINE h == [i \in 1..0 |-> ss]
  <2>1. Flattens(h, ss, 0)
    BY DEF Flattens
  <2> QED  BY <2>1
<1>2. ASSUME NEW n \in S PROVE n + 1 \in S
  <2>1. PICK f : Flattens(f, ss, n)
    OBVIOUS
  <2> DEFINE h == [i \in 1..(n + 1) |->
                     IF i <= n THEN f[i] ELSE IF i = 1 THEN ss[i] ELSE f[i - 1] \o ss[i]]
  <2>2. ASSUME NEW i \in 1..(n + 1)
        PROVE  h[i] = IF i = 1 THEN ss[i] ELSE h[i - 1] \o ss[i]
    <3>1. i # 1 => i - 1 \in 1..n /\ h[i - 1] = f[i - 1]
      OBVIOUS
    <3>2. i <= n => f[i] = IF i = 1 THEN ss[i] ELSE f[i - 1] \o ss[i]
      <4>1. i <= n => i \in 1..n
        OBVIOUS
      <4> QED  BY <2>1, <4>1 DEF Flattens
    <3>3. h[i] = IF i <= n THEN f[i] ELSE IF i = 1 THEN ss[i] ELSE f[i - 1] \o ss[i]
      OBVIOUS
    <3> HIDE DEF h
    <3> QED  BY <3>1, <3>2, <3>3
  <2>3. Flattens(h, ss, n + 1)
    <3>1. h = [i \in 1..(n + 1) |-> h[i]]
      OBVIOUS
    <3> HIDE DEF h
    <3>2. [i \in 1..(n + 1) |-> h[i]]
            = [i \in 1..(n + 1) |-> IF i = 1 THEN ss[i] ELSE h[i - 1] \o ss[i]]
      BY <2>2
    <3> QED  BY <3>1, <3>2 DEF Flattens
  <2> QED  BY <2>3
<1>3. S = Nat
  <2> HIDE DEF S
  <2>1. S \in SUBSET Nat
    BY DEF S
  <2> QED  BY <1>1, <1>2, <2>1, Upwards
<1> QED  BY <1>3

LEMMA FlattenIs ==
  ASSUME NEW T, NEW ss \in Seq(T), ss # <<>>
  PROVE  \E f : Flattens(f, ss, Len(ss)) /\ FlattenSeq(ss) = f[Len(ss)]
<1> DEFINE F == CHOOSE f : Flattens(f, ss, Len(ss))
<1>1. Len(ss) \in Nat \ {0}
  BY EmptySeq
<1>2. Flattens(F, ss, Len(ss))
  BY <1>1, FlattenExists
<1>3. FlattenSeq(ss) = F[Len(ss)]
  BY <1>1 DEF FlattenSeq, Flattens
<1> QED  BY <1>2, <1>3

LEMMA FlattenEmpty == FlattenSeq(<<>>) = <<>>
  BY DEF FlattenSeq

LEMMA FlattenType ==
  ASSUME NEW T, NEW ss \in Seq(Seq(T)) PROVE FlattenSeq(ss) \in Seq(T)
<1>1. CASE ss = <<>>
  BY <1>1, FlattenEmpty, EmptySeq
<1>2. CASE ss # <<>>
  <2>1. PICK f : Flattens(f, ss, Len(ss)) /\ FlattenSeq(ss) = f[Len(ss)]
    BY <1>2, FlattenIs
  <2>2. Len(ss) \in Nat \ {0}
    BY <1>2, EmptySeq
  <2> DEFINE S == {n \in Nat : n + 1 \in 1..Len(ss) => f[n + 1] \in Seq(T)}
  <2>3. \A i \in 1..Len(ss) : f[i] = IF i = 1 THEN ss[i] ELSE f[i - 1] \o ss[i]
    BY <2>1 DEF Flattens
  <2>4. 0 \in S
    BY <2>2, <2>3
  <2>5. ASSUME NEW n \in S PROVE n + 1 \in S
    <3> SUFFICES ASSUME (n + 1) + 1 \in 1..Len(ss) PROVE f[(n + 1) + 1] \in Seq(T)
      OBVIOUS
    <3>1. n + 1 \in 1..Len(ss) /\ (n + 1) + 1 # 1 /\ ((n + 1) + 1) - 1 = n + 1
      BY <2>2
    <3>2. f[n + 1] \in Seq(T) /\ ss[(n + 1) + 1] \in Seq(T)
      BY <3>1
    <3>3. f[(n + 1) + 1] = f[n + 1] \o ss[(n + 1) + 1]
      BY <2>3, <3>1
    <3> QED  BY <3>2, <3>3, ConcatProperties
  <2>6. S = Nat
    <3> HIDE DEF S
    <3>1. S \in SUBSET Nat
      BY DEF S
    <3> QED  BY <2>4, <2>5, <3>1, Upwards
  <2>7. Len(ss) - 1 \in Nat /\ (Len(ss) - 1) + 1 = Len(ss)
    BY <2>2
  <2>8. Len(ss) - 1 \in S
    <3> HIDE DEF S
    <3> QED  BY <2>6, <2>7
  <2> QED  BY <2>1, <2>2, <2>7, <2>8
<1> QED  BY <1>1, <1>2

LEMMA FlattenAppend ==
  ASSUME NEW T, NEW ss \in Seq(Seq(T)), NEW s \in Seq(T)
  PROVE  FlattenSeq(Append(ss, s)) = FlattenSeq(ss) \o s
<1> DEFINE n == Len(ss)
           tt == Append(ss, s)
<1>1. /\ n \in Nat /\ tt \in Seq(Seq(T)) /\ Len(tt) = n + 1 /\ tt # <<>>
      /\ \A i \in 1..n : tt[i] = ss[i]
      /\ tt[n + 1] = s
  BY AppendProperties
<1> HIDE DEF n, tt
<1>2. PICK g : Flattens(g, tt, n + 1) /\ FlattenSeq(tt) = g[n + 1]
  BY <1>1, FlattenIs
<1>3. \A i \in 1..(n + 1) : g[i] = IF i = 1 THEN tt[i] ELSE g[i - 1] \o tt[i]
  BY <1>2 DEF Flattens
<1>4. CASE ss = <<>>
  <2>1. n = 0
    BY <1>4 DEF n
  <2>2. FlattenSeq(tt) = s
    BY <1>1, <1>2, <1>3, <2>1
  <2>3. <<>> \o s = s
    BY ConcatEmptySeq
  <2> QED  BY <1>4, <2>2, <2>3, FlattenEmpty DEF tt
<1>5. CASE ss # <<>>
  <2>0. n \in Nat \ {0}
    BY <1>5, EmptySeq DEF n
  <2>1. PICK f : Flattens(f, ss, n) /\ FlattenSeq(ss) = f[n]
    BY <1>5, FlattenIs DEF n
  <2>2. \A i \in 1..n : f[i] = IF i = 1 THEN ss[i] ELSE f[i - 1] \o ss[i]
    BY <2>1 DEF Flattens
  <2> DEFINE S == {k \in Nat : k + 1 \in 1..n => g[k + 1] = f[k + 1]}
  <2>3. 0 \in S
    <3>1. 1 \in 1..n /\ 1 \in 1..(n + 1)
      BY <2>0
    <3> QED  BY <1>1, <1>3, <2>2, <3>1
  <2>4. ASSUME NEW k \in S PROVE k + 1 \in S
    <3> SUFFICES ASSUME (k + 1) + 1 \in 1..n PROVE g[(k + 1) + 1] = f[(k + 1) + 1]
      OBVIOUS
    <3>1. /\ k + 1 \in 1..n /\ (k + 1) + 1 # 1 /\ ((k + 1) + 1) - 1 = k + 1
          /\ (k + 1) + 1 \in 1..(n + 1)
      BY <2>0
    <3>2. g[k + 1] = f[k + 1] /\ tt[(k + 1) + 1] = ss[(k + 1) + 1]
      BY <1>1, <3>1
    <3>3. f[(k + 1) + 1] = f[k + 1] \o ss[(k + 1) + 1]
      BY <2>2, <3>1
    <3>4. g[(k + 1) + 1] = g[k + 1] \o tt[(k + 1) + 1]
      BY <1>3, <3>1
    <3> QED  BY <3>2, <3>3, <3>4
  <2>5. S = Nat
    <3> HIDE DEF S
    <3>1. S \in SUBSET Nat
      BY DEF S
    <3> QED  BY <2>3, <2>4, <3>1, Upwards
  <2>6. g[n] = f[n]
    <3>1. n - 1 \in Nat /\ (n - 1) + 1 = n
      BY <2>0
    <3>2. n - 1 \in S
      <4> HIDE DEF S
      <4> QED  BY <2>5, <3>1
    <3> QED  BY <2>0, <3>1, <3>2
  <2>7. g[n + 1] = g[n] \o s
    <3>1. n + 1 \in 1..(n + 1) /\ n + 1 # 1 /\ (n + 1) - 1 = n
      BY <2>0
    <3> QED  BY <1>1, <1>3, <3>1
  <2> QED  BY <1>2, <2>1, <2>6, <2>7 DEF tt
<1> QED  BY <1>4, <1>5

(* Concatenation, in a form that the provers do not unfold.                *)
Associates(a, c, d) == (a \o c) \o d = a \o (c \o d)
LEMMA Associative ==
  ASSUME NEW T PROVE \A a, c, d \in Seq(T) : Associates(a, c, d)
  BY ConcatAssociative DEF Associates

(* A sequence that is not empty, without its last element.                 *)
LEMMA AllButLast ==
  ASSUME NEW T, NEW ss \in Seq(T), ss # <<>>
  PROVE  \E hh \in Seq(T), l \in T : ss = Append(hh, l) /\ Len(hh) = Len(ss) - 1
<1>1. Len(ss) \in Nat \ {0}
  BY EmptySeq
<1>2. PICK n \in Nat : Len(ss) = n + 1
  <2>1. Len(ss) - 1 \in Nat /\ Len(ss) = (Len(ss) - 1) + 1
    BY <1>1
  <2> QED  BY <2>1
<1> DEFINE hh == [i \in 1..n |-> ss[i]]
           l == ss[n + 1]
<1>3. hh \in Seq(T) /\ Len(hh) = n /\ l \in T /\ \A i \in 1..n : hh[i] = ss[i]
  <2>1. \A i \in 1..(n + 1) : ss[i] \in T
    BY <1>2
  <2>2. hh \in [1..n -> T]
    BY <2>1
  <2>3. hh \in Seq(T) /\ Len(hh) = n
    BY <2>2, SeqDef, LenProperties
  <2> QED  BY <2>1, <2>3
<1> HIDE DEF hh
<1>4. /\ Append(hh, l) \in Seq(T) /\ Len(Append(hh, l)) = n + 1
      /\ \A i \in 1..n : Append(hh, l)[i] = hh[i]
      /\ Append(hh, l)[n + 1] = l
  BY <1>3, AppendProperties
<1>5. ss = Append(hh, l)
  BY <1>2, <1>3, <1>4, SeqEqual
<1> QED  BY <1>2, <1>3, <1>5

Appends(a, b, l) == a \o Append(b, l) = Append(a \o b, l)
LEMMA ConcatAppend ==
  ASSUME NEW S, NEW a \in Seq(S), NEW b \in Seq(S), NEW l \in S
  PROVE  Appends(a, b, l)
<1>1. <<l>> \in Seq(S)
  OBVIOUS
<1>2. Append(b, l) = b \o <<l>>
  BY AppendIsConcat
<1>3. a \o b \in Seq(S)
  BY ConcatProperties
<1>4. Append(a \o b, l) = (a \o b) \o <<l>>
  BY <1>3, AppendIsConcat
<1>5. (a \o b) \o <<l>> = a \o (b \o <<l>>)
  BY <1>1, ConcatAssociative
<1> QED  BY <1>2, <1>4, <1>5, Zenon DEF Appends

LEMMA FlattenCons ==
  ASSUME NEW T, NEW s \in Seq(T)
  PROVE  \A ss \in Seq(Seq(T)) : FlattenSeq(<<s>> \o ss) = s \o FlattenSeq(ss)
<1> DEFINE Claim(ss) == FlattenSeq(<<s>> \o ss) = s \o FlattenSeq(ss)
           S == {n \in Nat : \A ss \in Seq(Seq(T)) : Len(ss) = n => Claim(ss)}
<1>0. <<s>> \in Seq(Seq(T))
  OBVIOUS
<1>a. \A hh \in Seq(Seq(T)), l \in Seq(T) : Appends(<<s>>, hh, l)
  <2> HIDE DEF S
  <2> TAKE hh \in Seq(Seq(T)), l \in Seq(T)
  <2>1. PICK U : U = Seq(T)
    OBVIOUS
  <2>2. <<s>> \in Seq(U) /\ hh \in Seq(U) /\ l \in U
    BY <1>0, <2>1
  <2> QED  BY <2>2, ConcatAppend
<1>1. Claim(<<>>)
  <2>1. <<s>> \o <<>> = <<s>> /\ s \o <<>> = s
    BY <1>0, ConcatEmptySeq
  <2>2. <<s>> = Append(<<>>, s) /\ <<>> \o s = s /\ <<>> \in Seq(Seq(T))
    BY ConcatEmptySeq
  <2>3. FlattenSeq(<<s>>) = s
    BY <2>2, FlattenAppend, FlattenEmpty
  <2> QED  BY <2>1, <2>3, FlattenEmpty
<1>2. ASSUME NEW n \in S, NEW ss \in Seq(Seq(T)), Len(ss) = n + 1 PROVE Claim(ss)
  <2>1. PICK hh \in Seq(Seq(T)), l \in Seq(T) : ss = Append(hh, l) /\ Len(hh) = n
    <3>1. ss # <<>> /\ (n + 1) - 1 = n
      BY <1>2
    <3> QED  BY <1>2, <3>1, AllButLast
  <2>2. Claim(hh)
    BY <2>1
  <2>3. <<s>> \o ss = Append(<<s>> \o hh, l)
    <3>1. Appends(<<s>>, hh, l)
      BY <1>a
    <3> QED  BY <2>1, <3>1, Zenon DEF Appends
  <2>4. <<s>> \o hh \in Seq(Seq(T))
    BY <1>0, <2>1, ConcatProperties
  <2>5. FlattenSeq(<<s>> \o ss) = FlattenSeq(<<s>> \o hh) \o l
    BY <2>1, <2>3, <2>4, FlattenAppend
  <2>6. FlattenSeq(ss) = FlattenSeq(hh) \o l
    BY <2>1, FlattenAppend
  <2>7. PICK f \in Seq(T) : f = FlattenSeq(hh)
    BY <2>1, FlattenType
  <2>8. (s \o f) \o l = s \o (f \o l)
    <3>1. Associates(s, f, l)
      BY <2>1, <2>7, Associative
    <3> QED  BY <3>1 DEF Associates
  <2> QED  BY <2>2, <2>5, <2>6, <2>7, <2>8
<1>3. S = Nat
  <2>1. 0 \in S
    <3>1. \A ss \in Seq(Seq(T)) : Len(ss) = 0 => ss = <<>>
      BY EmptySeq
    <3> HIDE DEF Claim
    <3> QED  BY <1>1, <3>1
  <2>2. \A n \in S : n + 1 \in S
    <3> TAKE n \in S
    <3>1. n + 1 \in Nat
      OBVIOUS
    <3>2. \A ss \in Seq(Seq(T)) : Len(ss) = n + 1 => Claim(ss)
      <4> HIDE DEF Claim, S
      <4> QED  BY <1>2
    <3> HIDE DEF Claim
    <3> QED  BY <3>1, <3>2
  <2> HIDE DEF S
  <2>3. S \in SUBSET Nat
    BY DEF S
  <2> QED  BY <2>1, <2>2, <2>3, Upwards
<1>4. \A ss \in Seq(Seq(T)) : Len(ss) \in Nat
  OBVIOUS
<1> HIDE DEF Claim
<1>5. \A ss \in Seq(Seq(T)) : Claim(ss)
  BY <1>3, <1>4
<1> QED  BY <1>5 DEF Claim
-------------------------------------------------------------------------------
(* Parts of sequences.                                                     *)

LEMMA PartIs ==
  ASSUME NEW T, NEW s \in Seq(T), NEW a \in Nat \ {0}, NEW b \in Nat, a <= b + 1, b <= Len(s)
  PROVE  /\ SubSeq(s, a, b) \in Seq(T)
         /\ Len(SubSeq(s, a, b)) = (b + 1) - a
         /\ \A j \in 1..((b + 1) - a) : SubSeq(s, a, b)[j] = s[(a - 1) + j]
<1>1. Len(s) \in Nat
  OBVIOUS
<1>2. \A j \in a..b : s[j] \in T
  BY <1>1
<1>3. a \in Int /\ b \in Int
  OBVIOUS
<1>4. /\ SubSeq(s, a, b) \in Seq(T)
      /\ Len(SubSeq(s, a, b)) = IF a <= b THEN b - a + 1 ELSE 0
      /\ \A j \in 1..(b - a + 1) : SubSeq(s, a, b)[j] = s[a + j - 1]
  BY <1>2, <1>3, SubSeqProperties
<1>5. (IF a <= b THEN b - a + 1 ELSE 0) = (b + 1) - a /\ b - a + 1 = (b + 1) - a
  OBVIOUS
<1>6. \A j \in 1..((b + 1) - a) : a + j - 1 = (a - 1) + j
  OBVIOUS
<1> QED  BY <1>4, <1>5, <1>6

LEMMA PartSplit ==
  ASSUME NEW T, NEW s \in Seq(T), NEW a \in Nat \ {0}, NEW b \in Nat, NEW c \in Nat,
         a <= b + 1, b <= c, c <= Len(s)
  PROVE  SubSeq(s, a, b) \o SubSeq(s, b + 1, c) = SubSeq(s, a, c)
<1> DEFINE u == SubSeq(s, a, b)
           v == SubSeq(s, b + 1, c)
           w == SubSeq(s, a, c)
<1>0. Len(s) \in Nat
  OBVIOUS
<1>1. /\ u \in Seq(T) /\ Len(u) = (b + 1) - a
      /\ \A j \in 1..((b + 1) - a) : u[j] = s[(a - 1) + j]
  <2>1. b <= Len(s)
    BY <1>0
  <2> QED  BY <2>1, PartIs
<1>2. /\ v \in Seq(T) /\ Len(v) = (c + 1) - (b + 1)
      /\ \A j \in 1..((c + 1) - (b + 1)) : v[j] = s[((b + 1) - 1) + j]
  <2>1. b + 1 \in Nat \ {0} /\ b + 1 <= c + 1
    OBVIOUS
  <2> QED  BY <2>1, PartIs
<1>3. /\ w \in Seq(T) /\ Len(w) = (c + 1) - a
      /\ \A j \in 1..((c + 1) - a) : w[j] = s[(a - 1) + j]
  <2>1. a <= c + 1
    OBVIOUS
  <2> QED  BY <2>1, PartIs
<1> HIDE DEF u, v, w
<1>4. /\ u \o v \in Seq(T) /\ Len(u \o v) = Len(u) + Len(v)
      /\ \A j \in 1..(Len(u) + Len(v)) :
           (u \o v)[j] = IF j <= Len(u) THEN u[j] ELSE v[j - Len(u)]
  BY <1>1, <1>2, ConcatProperties
<1>5. Len(u) + Len(v) = (c + 1) - a
  BY <1>1, <1>2
<1>6. ASSUME NEW j \in 1..((c + 1) - a) PROVE (u \o v)[j] = w[j]
  <2>1. (u \o v)[j] = IF j <= Len(u) THEN u[j] ELSE v[j - Len(u)]
    BY <1>4, <1>5
  <2>2. CASE j <= Len(u)
    <3>1. j \in 1..((b + 1) - a)
      BY <1>1, <2>2
    <3> QED  BY <1>1, <1>3, <2>1, <2>2, <3>1
  <2>3. CASE ~(j <= Len(u))
    <3>1. /\ j - Len(u) \in 1..((c + 1) - (b + 1))
          /\ ((b + 1) - 1) + (j - Len(u)) = (a - 1) + j
      BY <1>1, <2>3
    <3>2. v[j - Len(u)] = s[((b + 1) - 1) + (j - Len(u))]
      BY <1>2, <3>1
    <3> QED  BY <1>3, <2>1, <2>3, <3>1, <3>2
  <2> QED  BY <2>2, <2>3
<1>7. u \o v = w
  BY <1>3, <1>4, <1>5, <1>6, SeqEqual
<1> QED  BY <1>7 DEF u, v, w

LEMMA PartWhole ==
  ASSUME NEW T, NEW s \in Seq(T) PROVE SubSeq(s, 1, Len(s)) = s
  BY SubSeqFull

LEMMA PartNone ==
  ASSUME NEW T, NEW s \in Seq(T), NEW a \in Nat \ {0}, a = Len(s) + 1
  PROVE  SubSeq(s, a, Len(s)) = <<>>
<1>1. Len(s) \in Nat /\ a <= Len(s) + 1 /\ (Len(s) + 1) - a = 0
  OBVIOUS
<1>2. SubSeq(s, a, Len(s)) \in Seq(T) /\ Len(SubSeq(s, a, Len(s))) = (Len(s) + 1) - a
  <2>1. Len(s) <= Len(s)
    BY <1>1
  <2> QED  BY <1>1, <2>1, PartIs
<1>3. Len(SubSeq(s, a, Len(s))) = 0
  BY <1>1, <1>2, Zenon
<1> QED  BY <1>2, <1>3, EmptySeq

LEMMA ReplaceOne ==
  ASSUME NEW T, NEW s \in Seq(T), NEW n, NEW v, n \in 1..Len(s) => v \in T
  PROVE  /\ [s EXCEPT ![n] = v] \in Seq(T)
         /\ Len([s EXCEPT ![n] = v]) = Len(s)
         /\ \A j \in 1..Len(s) : [s EXCEPT ![n] = v][j] = IF j = n THEN v ELSE s[j]
<1>1. Len(s) \in Nat /\ DOMAIN s = 1..Len(s)
  OBVIOUS
<1>2. \A j \in 1..Len(s) : [s EXCEPT ![n] = v][j] = IF j = n THEN v ELSE s[j]
  BY <1>1
<1>3. [s EXCEPT ![n] = v] \in [1..Len(s) -> T]
  <2>1. \A j \in 1..Len(s) : [s EXCEPT ![n] = v][j] \in T
    BY <1>2
  <2>2. [s EXCEPT ![n] = v] = [j \in 1..Len(s) |-> [s EXCEPT ![n] = v][j]]
    BY <1>1
  <2> QED  BY <2>1, <2>2
<1> QED  BY <1>1, <1>2, <1>3, SeqDef, LenProperties

-------------------------------------------------------------------------------
(* The text that is broken into lines.                                     *)

(* A new line of the text: all of it is still to come.                     *)
LEMMA NewLine ==
  ASSUME NEW T, NEW text \in Seq(Seq(T)), NEW k \in Nat \ {0}, k <= Len(text) + 1,
         NEW F \in Seq(T)
  PROVE  F \o (IF k <= Len(text) THEN SubSeq(text[k], 1, Len(text[k])) ELSE <<>>)
           \o FlattenSeq(SubSeq(text, k + 1, Len(text)))
         = F \o FlattenSeq(SubSeq(text, k, Len(text)))
<1> DEFINE m == Len(text)
           H == FlattenSeq(SubSeq(text, k + 1, m))
<1>1. m \in Nat
  OBVIOUS
<1>2. CASE k <= m
  <2>1. /\ SubSeq(text, k + 1, m) \in Seq(Seq(T)) /\ text[k] \in Seq(T)
        /\ k + 1 \in Nat \ {0} /\ k + 1 <= m + 1
    <3>1. k + 1 \in Nat \ {0} /\ k + 1 <= m + 1 /\ k \in 1..m
      BY <1>1, <1>2
    <3> QED  BY <3>1, PartIs
  <2>2. SubSeq(text, k, k) \o SubSeq(text, k + 1, m) = SubSeq(text, k, m)
    BY <1>2, PartSplit
  <2>3. SubSeq(text, k, k) = <<text[k]>>
    <3>1. k <= k + 1 /\ (k + 1) - k = 1 /\ (k - 1) + 1 = k
      OBVIOUS
    <3>2. /\ SubSeq(text, k, k) \in Seq(Seq(T)) /\ Len(SubSeq(text, k, k)) = 1
          /\ SubSeq(text, k, k)[1] = text[k]
      <4>1. /\ SubSeq(text, k, k) \in Seq(Seq(T))
            /\ Len(SubSeq(text, k, k)) = (k + 1) - k
            /\ \A j \in 1..((k + 1) - k) : SubSeq(text, k, k)[j] = text[(k - 1) + j]
        BY <1>2, <3>1, PartIs
      <4>2. 1 \in 1..((k + 1) - k)
        BY <3>1
      <4> QED  BY <3>1, <4>1, <4>2
    <3> DEFINE z == SubSeq(text, k, k)
    <3>3. z \in Seq(Seq(T)) /\ Len(z) = 1 /\ z[1] = text[k]
      BY <3>2
    <3> HIDE DEF z
    <3>4. z = <<z[1]>>
      BY <3>3
    <3> QED  BY <3>3, <3>4 DEF z
  <2>4. FlattenSeq(<<text[k]>> \o SubSeq(text, k + 1, m)) = text[k] \o H
    BY <2>1, FlattenCons
  <2>5. FlattenSeq(SubSeq(text, k, m)) = text[k] \o H
    BY <2>2, <2>3, <2>4
  <2>6. SubSeq(text[k], 1, Len(text[k])) = text[k]
    BY <2>1, PartWhole
  <2>7. H \in Seq(T)
    BY <2>1, FlattenType
  <2> DEFINE t == text[k]
  <2>8. Associates(F, t, H)
    <3> HIDE DEF H
    <3> QED  BY <2>1, <2>7, Associative
  <2>9. (F \o t) \o H = F \o (t \o H)
    BY <2>8 DEF Associates
  <2> QED  BY <1>2, <2>5, <2>6, <2>9
<1>3. CASE k > m
  <2>1. k = m + 1 /\ ~(k <= m)
    BY <1>1, <1>3
  <2>2. SubSeq(text, k, m) = <<>>
    BY <2>1, PartNone
  <2>3. SubSeq(text, k + 1, m) = <<>>
    <3>1. k + 1 > m /\ k + 1 \in Int /\ m \in Int
      BY <1>1, <2>1
    <3>2. /\ SubSeq(text, k + 1, m) \in Seq(Seq(T))
          /\ Len(SubSeq(text, k + 1, m)) = IF k + 1 <= m THEN m - (k + 1) + 1 ELSE 0
      <4>1. \A j \in (k + 1)..m : text[j] \in Seq(T)
        BY <3>1
      <4> QED  BY <3>1, <4>1, SubSeqProperties
    <3>3. Len(SubSeq(text, k + 1, m)) = 0
      BY <3>1, <3>2
    <3> QED  BY <3>2, <3>3, EmptySeq
  <2>4. F \o <<>> = F
    BY ConcatEmptySeq
  <2> QED  BY <2>1, <2>2, <2>3, <2>4, FlattenEmpty
<1>4. k <= m \/ k > m
  BY <1>1
<1> QED  BY <1>2, <1>3, <1>4
-------------------------------------------------------------------------------
(* The invariant.  The pen stays left of the margin, no more of a line has *)
(* been put than there is, and nothing is left over from the message before*)
PlanFits(p, w) ==
  \A y \in DOMAIN p : \A n \in DOMAIN p[y] : p[y][n].x + Margins <= w

WrapInv ==
  /\ at.k <= Len(setting.text) + 1
  /\ at.k <= Len(setting.text) => at.i <= Len(Line)
  /\ pen + Margins < setting.w
  /\ plan # <<>>

LayoutInv ==
  /\ LayoutTypeOK /\ TextKept
  /\ PlanFits(plan, setting.w)
  /\ at = [k |-> at.k, i |-> at.i, prevI |-> at.prevI] /\ at.k >= 1
  /\ row = [y |-> row.y, i |-> row.i] /\ row.y >= 1
  /\ stage = "none" => /\ setting = NoSetting /\ at = Top /\ pen = ContentLeft
                       /\ lines = <<>> /\ plan = <<<<>>>>
  /\ stage = "wrap" => WrapInv

(* What emojiTable knows to follow fits into the line.                     *)
LEMMA EmojiFits ==
  ASSUME setting.table \in Tables, NEW line \in Seq(Rune), NEW n \in 1..Len(line),
         NEW t \in EmojiAt(line, n)
  PROVE  Len(t) \in Nat /\ n + Len(t) <= Len(line)
<1> DEFINE s == SubSeq(line, n + 1, Len(line))
<1>1. t \in Cands(line[n]) /\ IsPrefix(t, s)
  BY DEF EmojiAt, Probe
<1>2. t \in Seq(Rune)
  BY <1>1, LayoutAssumption DEF Cands
<1>3. Len(line) \in Nat /\ n + 1 \in Nat \ {0} /\ n + 1 <= Len(line) + 1
  OBVIOUS
<1>4. Len(s) = (Len(line) + 1) - (n + 1)
  BY <1>3, PartIs
<1>5. Len(t) <= Len(s) /\ Len(t) \in Nat
  BY <1>1, <1>2 DEF IsPrefix
<1> HIDE DEF s
<1>6. Len(t) <= Len(line) - n
  BY <1>3, <1>4, <1>5, SMTT(30)
<1> QED  BY <1>3, <1>5, <1>6

(* One more on the last line of the plan.                                  *)
LEMMA PutFits ==
  ASSUME NEW p \in Seq(Seq(Item)), p # <<>>, NEW w \in Nat, PlanFits(p, w),
         NEW e \in BOOLEAN, NEW x \in Nat, x + Margins <= w
  PROVE  LET q == [p EXCEPT ![Len(p)] = Append(@, [emoji |-> e, x |-> x])]
         IN  /\ q \in Seq(Seq(Item)) /\ q # <<>> /\ PlanFits(q, w)
             /\ Append(q, <<>>) \in Seq(Seq(Item)) /\ Append(q, <<>>) # <<>>
             /\ PlanFits(Append(q, <<>>), w)
<1> DEFINE l == Len(p)
           it == [emoji |-> e, x |-> x]
           r == Append(p[l], it)
           q == [p EXCEPT ![Len(p)] = Append(@, [emoji |-> e, x |-> x])]
<1>1. l \in Nat \ {0} /\ l \in 1..Len(p)
  BY EmptySeq
<1>2. p[l] \in Seq(Item) /\ it \in Item
  BY <1>1 DEF Item
<1> HIDE DEF it
<1>3. /\ r \in Seq(Item) /\ Len(r) = Len(p[l]) + 1 /\ Len(p[l]) \in Nat
      /\ \A n \in 1..Len(p[l]) : r[n] = p[l][n]
      /\ r[Len(p[l]) + 1] = it
  BY <1>2, AppendProperties
<1>4. q = [p EXCEPT ![l] = r]
  BY DEF it
<1> HIDE DEF r, l, q
<1>5. /\ q \in Seq(Seq(Item)) /\ Len(q) = Len(p)
      /\ \A j \in 1..Len(p) : q[j] = IF j = l THEN r ELSE p[j]
  <2>1. l \in 1..Len(p) => r \in Seq(Item)
    BY <1>3
  <2>2. /\ [p EXCEPT ![l] = r] \in Seq(Seq(Item))
        /\ Len([p EXCEPT ![l] = r]) = Len(p)
        /\ \A j \in 1..Len(p) : [p EXCEPT ![l] = r][j] = IF j = l THEN r ELSE p[j]
    BY <2>1, ReplaceOne
  <2> QED  BY <1>4, <2>2, Zenon
<1>6. \A n \in DOMAIN r : r[n].x + Margins <= w
  <2> TAKE n \in DOMAIN r
  <2>1. n \in 1..(Len(p[l]) + 1)
    BY <1>3
  <2>2. CASE n = Len(p[l]) + 1
    BY <1>3, <2>2 DEF it
  <2>3. CASE n # Len(p[l]) + 1
    <3>1. n \in 1..Len(p[l])
      BY <1>3, <2>1, <2>3
    <3>2. l \in DOMAIN p /\ n \in DOMAIN p[l]
      BY <1>1, <1>2, <3>1
    <3> QED  BY <1>3, <3>1, <3>2 DEF PlanFits
  <2> QED  BY <2>2, <2>3
<1>7. PlanFits(q, w)
  <2>1. \A y \in 1..Len(p) : \A n \in DOMAIN q[y] : q[y][n].x + Margins <= w
    <3> TAKE y \in 1..Len(p)
    <3>1. CASE y = l
      BY <1>5, <1>6, <3>1
    <3>2. CASE y # l
      <4>1. q[y] = p[y] /\ y \in DOMAIN p
        BY <1>5, <3>2
      <4> QED  BY <4>1 DEF PlanFits
    <3> QED  BY <3>1, <3>2
  <2>2. DOMAIN q = 1..Len(p)
    BY <1>5
  <2> QED  BY <2>1, <2>2 DEF PlanFits
<1>8. q # <<>>
  BY <1>1, <1>5
<1> DEFINE z == Append(q, <<>>)
<1>9. /\ z \in Seq(Seq(Item)) /\ Len(z) = Len(p) + 1 /\ Len(p) \in Nat
      /\ \A y \in 1..Len(p) : z[y] = q[y]
      /\ z[Len(p) + 1] = <<>>
  BY <1>5, AppendProperties
<1> HIDE DEF z
<1>10. PlanFits(z, w)
  <2>1. \A y \in 1..(Len(p) + 1) : y \in 1..Len(p) \/ y = Len(p) + 1
    BY <1>9
  <2>2. DOMAIN z = 1..(Len(p) + 1) /\ DOMAIN q = 1..Len(p)
    BY <1>5, <1>9
  <2>3. ASSUME NEW y \in DOMAIN z PROVE \A n \in DOMAIN z[y] : z[y][n].x + Margins <= w
    <3>1. CASE y \in 1..Len(p)
      BY <1>7, <1>9, <2>2, <3>1 DEF PlanFits
    <3>2. CASE y = Len(p) + 1
      BY <1>9, <3>2
    <3> QED  BY <2>1, <2>2, <3>1, <3>2
  <2> QED  BY <2>3 DEF PlanFits
<1>11. z # <<>>
  BY <1>9
<1> QED  BY <1>5, <1>7, <1>8, <1>9, <1>10, <1>11 DEF z, q

LEMMA InitLayout == LayoutInit => LayoutInv
<1> SUFFICES ASSUME LayoutInit PROVE LayoutInv
  OBVIOUS
<1> USE DEF LayoutInit
<1>1. LayoutTypeOK
  BY DEF LayoutTypeOK, Top, Origin, ContentLeft
<1>2. TextKept
  BY DEF TextKept
<1>3. PlanFits(plan, setting.w)
  BY DEF PlanFits
<1>4. /\ at = [k |-> at.k, i |-> at.i, prevI |-> at.prevI] /\ at.k >= 1
      /\ row = [y |-> row.y, i |-> row.i] /\ row.y >= 1
  BY DEF Top, Origin
<1> QED  BY <1>1, <1>2, <1>3, <1>4 DEF LayoutInv
(* What the lines of the text mean while it is broken.                     *)
LEMMA WrapShape ==
  ASSUME LayoutInv, stage = "wrap"
  PROVE  /\ setting.text \in Seq(Seq(Rune)) /\ Len(setting.text) \in Nat
         /\ setting.table \in Tables /\ setting.w \in Nat
         /\ ContentLeft + Margins < setting.w /\ ContentLeft \in Nat /\ Margins \in Nat
         /\ at.k \in 1..(Len(setting.text) + 1) /\ at.i \in Nat /\ at.prevI \in 0..at.i
         /\ lines \in Seq(Seq(Rune)) /\ plan \in Seq(Seq(Item)) /\ pen \in Nat
         /\ pen + Margins < setting.w /\ plan # <<>> /\ PlanFits(plan, setting.w)
         /\ Wrapping => /\ at.k \in 1..Len(setting.text) /\ Line \in Seq(Rune)
                        /\ Len(Line) \in Nat /\ at.i <= Len(Line)
         /\ ~Wrapping => at.k = Len(setting.text) + 1
<1>1. setting \in [table : Tables, text : Texts, w : WidthsOf]
  BY DEF LayoutInv, LayoutTypeOK
<1>2. /\ setting.text \in Seq(Seq(Rune)) /\ setting.table \in Tables /\ setting.w \in Nat
      /\ ContentLeft + Margins < setting.w
  BY <1>1, LayoutAssumption
<1>3. Len(setting.text) \in Nat
  BY <1>2
<1>4. /\ at.k \in Nat /\ at.k >= 1 /\ at.k <= Len(setting.text) + 1
      /\ at.k <= Len(setting.text) => at.i <= Len(Line)
      /\ pen + Margins < setting.w /\ plan # <<>> /\ PlanFits(plan, setting.w)
  BY DEF LayoutInv, LayoutTypeOK, WrapInv
<1>5. /\ at.i \in Nat /\ at.prevI \in 0..at.i
      /\ lines \in Seq(Seq(Rune)) /\ plan \in Seq(Seq(Item)) /\ pen \in Nat
  BY DEF LayoutInv, LayoutTypeOK
<1>6. Wrapping <=> at.k <= Len(setting.text)
  BY DEF Wrapping
<1>7. at.k \in 1..Len(setting.text) => Line \in Seq(Rune) /\ Len(Line) \in Nat
  BY <1>2 DEF Line
<1>8. ContentLeft \in Nat /\ Margins \in Nat
  BY DEF ContentLeft, Margins
<1> QED  BY <1>2, <1>3, <1>4, <1>5, <1>6, <1>7, <1>8

(* Something is put: the part of the line up to i may become a line.       *)
LEMMA PutKeeps ==
  ASSUME LayoutInv, Wrapping, NEW e \in BOOLEAN, NEW i \in Nat, at.i < i, i <= Len(Line),
         NEW adv \in Nat, PutItem(e, i, adv), UNCHANGED <<stage, setting, row, seen>>
  PROVE  LayoutInv'
<1> DEFINE text == setting.text
           m == Len(text)
           n == Len(Line)
           p == at.prevI
           R == FlattenSeq(SubSeq(text, at.k + 1, m))
           F == FlattenSeq(lines)
           put == [plan EXCEPT ![Len(plan)] = Append(@, [emoji |-> e, x |-> pen])]
<1>1. /\ stage = "wrap" /\ LayoutTypeOK /\ TextKept
      /\ at = [k |-> at.k, i |-> at.i, prevI |-> at.prevI]
      /\ row = [y |-> row.y, i |-> row.i] /\ row.y >= 1
  BY DEF LayoutInv, Wrapping
<1>2. /\ text \in Seq(Seq(Rune)) /\ m \in Nat /\ setting.w \in Nat
      /\ ContentLeft + Margins < setting.w /\ ContentLeft \in Nat /\ Margins \in Nat
      /\ at.k \in 1..m /\ at.i \in Nat /\ p \in 0..at.i
      /\ lines \in Seq(Seq(Rune)) /\ plan \in Seq(Seq(Item)) /\ pen \in Nat
      /\ pen + Margins < setting.w /\ plan # <<>> /\ PlanFits(plan, setting.w)
      /\ Line \in Seq(Rune) /\ n \in Nat
  BY <1>1, WrapShape
<1>3. /\ put \in Seq(Seq(Item)) /\ put # <<>> /\ PlanFits(put, setting.w)
      /\ Append(put, <<>>) \in Seq(Seq(Item)) /\ Append(put, <<>>) # <<>>
      /\ PlanFits(Append(put, <<>>), setting.w)
  <2>1. pen + Margins <= setting.w
    BY <1>2
  <2> QED  BY <1>2, <2>1, PutFits
<1>4. F \o SubSeq(Line, p + 1, n) \o R = FlattenSeq(text)
  BY <1>1 DEF TextKept
<1>17. /\ m \in Nat /\ at.k \in 1..m /\ at.i \in Nat /\ p \in 0..at.i /\ n \in Nat
       /\ pen \in Nat /\ ContentLeft \in Nat /\ Margins \in Nat
  BY <1>2
<1>18. PICK w \in Nat :
         w = setting.w /\ ContentLeft + Margins < w /\ pen + Margins < w
  BY <1>2
<1>5. (pen + adv) + Margins < w \/ Full(pen + adv)
  <2>1. Full(pen + adv) <=> pen + adv >= w - Margins
    BY <1>18 DEF Full
  <2> QED  BY <1>17, <1>18, <2>1
<1>6. \/ /\ Full(pen + adv)
         /\ lines' = Append(lines, SubSeq(Line, p + 1, i))
         /\ plan' = Append(put, <<>>) /\ pen' = ContentLeft
         /\ at' = [k |-> at.k, i |-> i, prevI |-> i]
      \/ /\ ~Full(pen + adv)
         /\ plan' = put /\ pen' = pen + adv /\ lines' = lines
         /\ at' = [k |-> at.k, i |-> i, prevI |-> p]
  <2> HIDE DEF put
  <2>1. IF Full(pen + adv)
        THEN /\ lines' = Append(lines, SubSeq(Line, p + 1, i))
             /\ plan' = Append(put, <<>>) /\ pen' = ContentLeft
             /\ at' = [at EXCEPT !.i = i, !.prevI = i]
        ELSE /\ plan' = put /\ pen' = pen + adv /\ lines' = lines
             /\ at' = [at EXCEPT !.i = i]
    BY DEF PutItem, GoOnAt, put
  <2> QED  BY <1>1, <2>1
<1> HIDE DEF put, R, F, n, m, p, text
<1>7. /\ at'.k = at.k /\ at'.i = i /\ at' = [k |-> at'.k, i |-> at'.i, prevI |-> at'.prevI]
      /\ at'.prevI \in 0..i
  <2>1. p \in 0..i /\ i \in 0..i
    BY <1>17
  <2> QED  BY <1>6, <2>1
<1>8. pen' \in Nat /\ pen' + Margins < setting.w
  <2>1. pen' = ContentLeft \/ (~Full(pen + adv) /\ pen' = pen + adv)
    BY <1>6
  <2>2. pen' \in Nat /\ pen' + Margins < w
    BY <1>5, <1>17, <1>18, <2>1
  <2> QED  BY <1>18, <2>2
<1>9. plan' \in Seq(Seq(Item)) /\ plan' # <<>> /\ PlanFits(plan', setting.w)
  BY <1>3, <1>6
<1>10. /\ SubSeq(Line, p + 1, i) \in Seq(Rune)
       /\ SubSeq(Line, p + 1, i) \o SubSeq(Line, i + 1, n) = SubSeq(Line, p + 1, n)
       /\ SubSeq(Line, i + 1, n) \in Seq(Rune)
  <2>1. p + 1 \in Nat \ {0} /\ p + 1 <= i + 1 /\ i <= n /\ i \in Nat /\ n <= Len(Line)
        /\ i + 1 \in Nat \ {0} /\ i + 1 <= n + 1
    BY <1>17 DEF n
  <2>2. Line \in Seq(Rune)
    BY <1>2
  <2>3. SubSeq(Line, p + 1, i) \in Seq(Rune)
    <3>1. i <= Len(Line)
      OBVIOUS
    <3> QED  BY <2>1, <2>2, <3>1, PartIs
  <2>4. SubSeq(Line, i + 1, n) \in Seq(Rune)
    BY <1>17, <2>1, <2>2, PartIs
  <2>5. SubSeq(Line, p + 1, i) \o SubSeq(Line, i + 1, n) = SubSeq(Line, p + 1, n)
    BY <1>17, <2>1, <2>2, PartSplit
  <2> QED  BY <2>3, <2>4, <2>5
<1>11. lines' \in Seq(Seq(Rune))
  <2>1. Append(lines, SubSeq(Line, p + 1, i)) \in Seq(Seq(Rune))
    BY <1>2, <1>10, AppendProperties
  <2> QED  BY <1>2, <1>6, <2>1
<1>12. Line' = Line /\ Wrapping'
  BY <1>7 DEF Wrapping, Line
<1>13. TextKept'
  <2>1. FlattenSeq(lines') \o SubSeq(Line, at'.prevI + 1, n) \o R = FlattenSeq(text)
    <3>1. CASE Full(pen + adv)
      <4>1. PICK a \in Seq(Rune) : a = SubSeq(Line, p + 1, i)
        BY <1>10
      <4>2. PICK b \in Seq(Rune) : b = SubSeq(Line, i + 1, n)
        BY <1>10
      <4>3. F \in Seq(Rune)
        BY <1>2, FlattenType DEF F
      <4>4. FlattenSeq(lines') = F \o a
        BY <1>2, <1>6, <3>1, <4>1, FlattenAppend DEF F
      <4>5. Associates(F, a, b)
        BY <4>1, <4>2, <4>3, Associative
      <4>6. (F \o a) \o b = F \o SubSeq(Line, p + 1, n)
        BY <1>10, <4>1, <4>2, <4>5 DEF Associates
      <4>7. at'.prevI = i
        BY <1>6, <3>1
      <4> QED  BY <1>4, <4>2, <4>4, <4>6, <4>7
    <3>2. CASE ~Full(pen + adv)
      <4>1. lines' = lines /\ at'.prevI = p
        BY <1>6, <3>2
      <4> QED  BY <1>4, <4>1 DEF F
    <3> QED  BY <3>1, <3>2
  <2>2. /\ R = FlattenSeq(SubSeq(setting.text, at.k + 1, Len(setting.text)))
        /\ n = Len(Line) /\ text = setting.text
    BY DEF R, m, text, n
  <2> HIDE DEF R
  <2> QED  BY <1>7, <1>12, <2>1, <2>2 DEF TextKept
<1>14. LayoutTypeOK'
  BY <1>1, <1>2, <1>7, <1>8, <1>9, <1>11 DEF LayoutTypeOK
<1>15. WrapInv'
  <2>1. at'.k <= Len(setting.text) + 1
    <3>1. at.k <= m + 1
      BY <1>17
    <3> QED  BY <1>7, <3>1 DEF m, text
  <2>2. at'.i <= Len(Line)
    BY <1>7
  <2> QED  BY <1>8, <1>9, <1>12, <2>1, <2>2 DEF WrapInv
<1>16. at'.k >= 1
  BY <1>2, <1>7, SMTT(30)
<1> QED  BY <1>1, <1>7, <1>9, <1>13, <1>14, <1>15, <1>16 DEF LayoutInv
LEMMA NextStart == LayoutInv /\ Start => LayoutInv'
<1> SUFFICES ASSUME LayoutInv, Start PROVE LayoutInv'
  OBVIOUS
<1>1. /\ stage = "none" /\ stage' = "wrap"
      /\ setting' \in [table : Tables, text : Texts, w : WidthsOf]
      /\ UNCHANGED <<at, pen, lines, plan, row, seen>>
  BY DEF Start
<1>2. /\ LayoutTypeOK /\ at = Top /\ pen = ContentLeft /\ lines = <<>> /\ plan = <<<<>>>>
      /\ row = [y |-> row.y, i |-> row.i] /\ row.y >= 1
  BY <1>1 DEF LayoutInv
<1>3. /\ setting'.text \in Seq(Seq(Rune)) /\ setting'.w \in Nat
      /\ ContentLeft + Margins < setting'.w
  BY <1>1, LayoutAssumption
<1>4. Len(setting'.text) \in Nat /\ 1 <= Len(setting'.text) + 1
  BY <1>3
<1>5. /\ at' = [k |-> 1, i |-> 0, prevI |-> 0]
  BY <1>1, <1>2 DEF Top
<1>6. TextKept'
  <2> DEFINE T == setting'.text
  <2>1. <<>> \o (IF 1 <= Len(T) THEN SubSeq(T[1], 1, Len(T[1])) ELSE <<>>)
          \o FlattenSeq(SubSeq(T, 1 + 1, Len(T))) = <<>> \o FlattenSeq(SubSeq(T, 1, Len(T)))
    <3>1. <<>> \in Seq(Rune) /\ 1 \in Nat \ {0}
      BY EmptySeq
    <3> HIDE DEF T
    <3> QED  BY <1>3, <1>4, <3>1, NewLine DEF T
  <2>2. SubSeq(T, 1, Len(T)) = T /\ FlattenSeq(T) \in Seq(Rune)
    BY <1>3, PartWhole, FlattenType
  <2>3. <<>> \o FlattenSeq(T) = FlattenSeq(T)
    BY <2>2, ConcatEmptySeq
  <2>4. Wrapping' <=> 1 <= Len(T)
    BY <1>1, <1>5 DEF Wrapping
  <2>5. Line' = T[1] /\ at'.prevI + 1 = 1 /\ at'.k = 1
    BY <1>5 DEF Line
  <2>6. FlattenSeq(lines') = <<>>
    BY <1>1, <1>2, FlattenEmpty
  <2>7. FlattenSeq(lines')
          \o (IF Wrapping' THEN SubSeq(Line', at'.prevI + 1, Len(Line')) ELSE <<>>)
          \o FlattenSeq(SubSeq(T, at'.k + 1, Len(T))) = FlattenSeq(T)
    BY <2>1, <2>2, <2>3, <2>4, <2>5, <2>6
  <2> HIDE DEF T
  <2> QED  BY <2>7 DEF TextKept, T
<1>7. LayoutTypeOK'
  BY <1>1, <1>2, <1>5 DEF LayoutTypeOK
<1>8. WrapInv'
  <2>1. at'.k <= Len(setting'.text) + 1
    BY <1>4, <1>5
  <2>2. at'.k <= Len(setting'.text) => at'.i <= Len(Line')
    <3> SUFFICES ASSUME 1 <= Len(setting'.text) PROVE 0 <= Len(Line')
      BY <1>5
    <3>1. Line' = setting'.text[1]
      BY <1>5 DEF Line
    <3>2. setting'.text[1] \in Seq(Rune)
      BY <1>3, <1>4
    <3> QED  BY <3>1, <3>2
  <2>3. pen' + Margins < setting'.w /\ plan' # <<>>
    BY <1>1, <1>2, <1>3
  <2> QED  BY <2>1, <2>2, <2>3 DEF WrapInv
<1>9. PlanFits(plan', setting'.w)
  BY <1>1, <1>2 DEF PlanFits
<1> QED  BY <1>1, <1>2, <1>5, <1>6, <1>7, <1>8, <1>9 DEF LayoutInv

LEMMA NextRuneIs ==
  ASSUME LayoutInv, Wrapping, at.i < Len(Line)
  PROVE  /\ at.i + 1 \in 1..Len(Line) /\ Len(Line) \in Nat /\ Line \in Seq(Rune)
         /\ setting.table \in Tables /\ NextRune \in Rune
         /\ GlyphWidth[NextRune] \in Nat /\ EmojiAdvance \in Nat
<1>1. /\ setting.table \in Tables /\ at.i \in Nat /\ Line \in Seq(Rune) /\ Len(Line) \in Nat
  BY WrapShape DEF Wrapping
<1>2. at.i + 1 \in 1..Len(Line)
  BY <1>1
<1>3. NextRune \in Rune
  BY <1>1, <1>2 DEF NextRune
<1>4. GlyphWidth[NextRune] \in 1..Margins /\ Margins \in Nat /\ EmojiAdvance \in Nat
  BY <1>3, LayoutAssumption DEF Margins, EmojiAdvance
<1> QED  BY <1>1, <1>2, <1>3, <1>4

LEMMA NextPlace == LayoutInv /\ (PlaceEmoji \/ PlaceGlyph) => LayoutInv'
<1>1. ASSUME LayoutInv, PlaceEmoji PROVE LayoutInv'
  <2>1. PICK t \in EmojiAt(Line, at.i + 1) :
          PutItem(TRUE, at.i + 1 + Len(t), EmojiAdvance)
    BY <1>1 DEF PlaceEmoji
  <2>2. Wrapping /\ at.i < Len(Line) /\ UNCHANGED <<stage, setting, row, seen>>
    BY <1>1 DEF PlaceEmoji
  <2>3. /\ at.i + 1 \in 1..Len(Line) /\ Len(Line) \in Nat /\ Line \in Seq(Rune)
        /\ setting.table \in Tables /\ EmojiAdvance \in Nat
    BY <1>1, <2>2, NextRuneIs
  <2>4. Len(t) \in Nat /\ at.i + 1 + Len(t) <= Len(Line)
    BY <2>3, EmojiFits
  <2>5. at.i \in Nat
    BY <1>1 DEF LayoutInv, LayoutTypeOK
  <2>6. at.i + 1 + Len(t) \in Nat /\ at.i < at.i + 1 + Len(t)
    BY <2>4, <2>5
  <2> QED  BY <1>1, <2>1, <2>2, <2>3, <2>4, <2>6, PutKeeps
<1>2. ASSUME LayoutInv, PlaceGlyph PROVE LayoutInv'
  <2>1. /\ Wrapping /\ at.i < Len(Line) /\ UNCHANGED <<stage, setting, row, seen>>
        /\ PutItem(FALSE, at.i + 1, GlyphWidth[NextRune])
    BY <1>2 DEF PlaceGlyph
  <2>2. /\ at.i + 1 \in 1..Len(Line) /\ GlyphWidth[NextRune] \in Nat /\ Len(Line) \in Nat
    BY <1>2, <2>1, NextRuneIs
  <2>3. at.i \in Nat
    BY <1>2 DEF LayoutInv, LayoutTypeOK
  <2>4. at.i + 1 \in Nat /\ at.i < at.i + 1 /\ at.i + 1 <= Len(Line)
    BY <2>2, <2>3
  <2> QED  BY <1>2, <2>1, <2>2, <2>4, PutKeeps
<1> QED  BY <1>1, <1>2

LEMMA NextSkip == LayoutInv /\ SkipNoDraw => LayoutInv'
<1> SUFFICES ASSUME LayoutInv, SkipNoDraw PROVE LayoutInv'
  OBVIOUS
<1>1. /\ Wrapping /\ at.i < Len(Line) /\ at' = [at EXCEPT !.i = @ + 1]
      /\ UNCHANGED <<stage, setting, pen, lines, plan, row, seen>>
  BY DEF SkipNoDraw
<1>2. /\ LayoutTypeOK /\ TextKept /\ PlanFits(plan, setting.w)
      /\ at = [k |-> at.k, i |-> at.i, prevI |-> at.prevI] /\ at.k >= 1
      /\ row = [y |-> row.y, i |-> row.i] /\ row.y >= 1
      /\ stage = "wrap" /\ WrapInv
  BY <1>1 DEF LayoutInv, Wrapping
<1>3. at.i + 1 \in 1..Len(Line) /\ Len(Line) \in Nat
  BY <1>1, NextRuneIs
<1>4. at' = [k |-> at.k, i |-> at.i + 1, prevI |-> at.prevI]
  BY <1>1, <1>2
<1>5. at'.k = at.k /\ at'.i = at.i + 1 /\ at'.prevI = at.prevI
  BY <1>4
<1>6. Line' = Line /\ Wrapping'
  BY <1>1, <1>5 DEF Line, Wrapping
<1>7. TextKept'
  BY <1>1, <1>2, <1>5, <1>6 DEF TextKept
<1>8. LayoutTypeOK'
  <2>1. at'.k \in Nat /\ at'.i \in Nat /\ at'.prevI \in 0..at'.i
    BY <1>2, <1>5 DEF LayoutTypeOK
  <2> QED  BY <1>1, <1>2, <2>1 DEF LayoutTypeOK
<1>9. WrapInv'
  <2>1. at'.i <= Len(Line')
    BY <1>3, <1>5, <1>6
  <2> QED  BY <1>1, <1>2, <1>5, <1>6, <2>1 DEF WrapInv
<1> QED  BY <1>1, <1>2, <1>4, <1>5, <1>7, <1>8, <1>9 DEF LayoutInv

LEMMA NextEndLine == LayoutInv /\ EndLine => LayoutInv'
<1> SUFFICES ASSUME LayoutInv, EndLine PROVE LayoutInv'
  OBVIOUS
<1> DEFINE T == setting.text
           F == FlattenSeq(lines)
           F2 == FlattenSeq(lines')
           k2 == at.k + 1
<1>1. /\ Wrapping /\ at.i >= Len(Line) /\ UNCHANGED <<stage, setting, row, seen>>
      /\ \/ RestOf # <<>> /\ lines' = Append(lines, RestOf) /\ plan' = Append(plan, <<>>)
         \/ RestOf = <<>> /\ lines' = lines /\ plan' = plan
      /\ pen' = ContentLeft /\ at' = [k |-> k2, i |-> 0, prevI |-> 0]
  BY DEF EndLine
<1>2. /\ LayoutTypeOK /\ TextKept /\ stage = "wrap"
      /\ row = [y |-> row.y, i |-> row.i] /\ row.y >= 1
  BY <1>1 DEF LayoutInv, Wrapping
<1>3. /\ T \in Seq(Seq(Rune)) /\ Len(T) \in Nat /\ setting.w \in Nat
      /\ ContentLeft + Margins < setting.w /\ ContentLeft \in Nat
      /\ at.k \in 1..Len(T) /\ Line \in Seq(Rune) /\ Len(Line) \in Nat
      /\ at.i \in Nat /\ at.prevI \in 0..at.i /\ at.i <= Len(Line)
      /\ lines \in Seq(Seq(Rune)) /\ plan \in Seq(Seq(Item)) /\ plan # <<>>
      /\ PlanFits(plan, setting.w)
  BY <1>1, <1>2, WrapShape
<1>11. /\ at.k \in 1..Len(T) /\ Len(T) \in Nat /\ at.prevI \in 0..at.i
       /\ at.i \in Nat /\ at.i <= Len(Line) /\ Len(Line) \in Nat
  BY <1>3
<1>4. k2 \in Nat \ {0} /\ k2 <= Len(T) + 1
  BY <1>11
<1>5. RestOf \in Seq(Rune)
  <2>1. /\ at.prevI + 1 \in Nat \ {0} /\ at.prevI + 1 <= Len(Line) + 1
        /\ Len(Line) <= Len(Line)
    BY <1>11
  <2> QED  BY <1>3, <2>1, PartIs DEF RestOf
<1>6. lines' \in Seq(Seq(Rune)) /\ F2 = F \o RestOf /\ F \in Seq(Rune) /\ F2 \in Seq(Rune)
  <2>1. F \in Seq(Rune)
    BY <1>3, FlattenType
  <2>2. CASE RestOf # <<>>
    <3>1. lines' = Append(lines, RestOf)
      BY <1>1, <2>2
    <3>2. lines' \in Seq(Seq(Rune))
      BY <1>3, <1>5, <3>1, AppendProperties
    <3>3. F2 = F \o RestOf
      BY <1>3, <1>5, <3>1, FlattenAppend
    <3> QED  BY <2>1, <3>2, <3>3, FlattenType
  <2>3. CASE RestOf = <<>>
    <3>1. lines' = lines
      BY <1>1, <2>3
    <3> HIDE DEF F, F2
    <3>2. F \o <<>> = F
      BY <2>1, ConcatEmptySeq
    <3>3. F2 = F
      BY <3>1 DEF F, F2
    <3> QED  BY <1>3, <2>1, <2>3, <3>1, <3>2, <3>3
  <2> QED  BY <2>2, <2>3
<1>7. plan' \in Seq(Seq(Item)) /\ plan' # <<>> /\ PlanFits(plan', setting.w)
  <2>1. CASE plan' = plan
    BY <1>3, <2>1
  <2>2. CASE plan' = Append(plan, <<>>)
    <3>1. /\ plan' \in Seq(Seq(Item)) /\ Len(plan') = Len(plan) + 1 /\ Len(plan) \in Nat
          /\ \A y \in 1..Len(plan) : plan'[y] = plan[y]
          /\ plan'[Len(plan) + 1] = <<>>
      BY <1>3, <2>2, AppendProperties
    <3>2. ASSUME NEW y \in DOMAIN plan'
          PROVE  \A n \in DOMAIN plan'[y] : plan'[y][n].x + Margins <= setting.w
      <4>1. y \in 1..Len(plan) \/ y = Len(plan) + 1
        BY <3>1
      <4>2. CASE y \in 1..Len(plan)
        <5>1. plan'[y] = plan[y]
          BY <3>1, <4>2
        <5>2. y \in DOMAIN plan /\ PlanFits(plan, setting.w)
          BY <1>3, <4>2
        <5> QED  BY <5>1, <5>2 DEF PlanFits
      <4>3. CASE y = Len(plan) + 1
        <5>1. DOMAIN plan'[y] = {}
          BY <3>1, <4>3
        <5> QED  BY <5>1
      <4> QED  BY <4>1, <4>2, <4>3
    <3>3. plan' # <<>>
      BY <3>1
    <3> QED  BY <3>1, <3>2, <3>3 DEF PlanFits
  <2> QED  BY <1>1, <2>1, <2>2
<1>8. TextKept'
  <2> DEFINE G == FlattenSeq(SubSeq(T, k2, Len(T)))
             X == IF k2 <= Len(T) THEN SubSeq(T[k2], 1, Len(T[k2])) ELSE <<>>
             H == FlattenSeq(SubSeq(T, k2 + 1, Len(T)))
  <2>1. (F \o RestOf) \o G = FlattenSeq(T)
    BY <1>1, <1>2 DEF TextKept, RestOf
  <2>2. (F2 \o X) \o H = F2 \o G
    <3> HIDE DEF F2, T, k2
    <3>1. T \in Seq(Seq(Rune)) /\ F2 \in Seq(Rune)
      BY <1>3, <1>6
    <3> QED  BY <1>4, <3>1, NewLine
  <2>3. X = IF Wrapping' THEN SubSeq(Line', at'.prevI + 1, Len(Line')) ELSE <<>>
    <3>1. Wrapping' <=> k2 <= Len(T)
      BY <1>1, <1>2 DEF Wrapping
    <3>2. Line' = T[k2] /\ at'.prevI + 1 = 1
      BY <1>1 DEF Line
    <3> HIDE DEF T, k2
    <3> QED  BY <3>1, <3>2
  <2>5. setting'.text = T /\ at'.k = k2
    BY <1>1
  <2> HIDE DEF X, G, F, T, k2
  <2>6. (F2 \o X) \o H = FlattenSeq(T)
    BY <1>6, <2>1, <2>2
  <2> QED  BY <2>3, <2>5, <2>6 DEF TextKept
<1>9. LayoutTypeOK'
  <2>1. /\ at'.k \in Nat /\ at'.i \in Nat /\ at'.prevI \in 0..at'.i
    BY <1>1, <1>4
  <2> QED  BY <1>1, <1>2, <1>3, <1>6, <1>7, <2>1 DEF LayoutTypeOK
<1>10. WrapInv'
  <2>1. at'.k <= Len(setting'.text) + 1
    BY <1>1, <1>4
  <2>2. at'.k <= Len(setting'.text) => at'.i <= Len(Line')
    <3> SUFFICES ASSUME k2 <= Len(T) PROVE 0 <= Len(Line')
      BY <1>1
    <3>1. Line' = T[k2]
      BY <1>1 DEF Line
    <3>2. T[k2] \in Seq(Rune)
      BY <1>3, <1>4, SMTT(30)
    <3> QED  BY <3>1, <3>2
  <2>3. pen' + Margins < setting'.w
    BY <1>1, <1>3
  <2> QED  BY <1>7, <2>1, <2>2, <2>3 DEF WrapInv
<1> QED  BY <1>1, <1>2, <1>4, <1>7, <1>8, <1>9, <1>10 DEF LayoutInv
LEMMA NextDrawing ==
  LayoutInv /\ (SkipDrawing \/ OmitEmoji \/ DrawGlyph \/ NextRow \/ Shown) => LayoutInv'
<1> SUFFICES ASSUME LayoutInv, SkipDrawing \/ OmitEmoji \/ DrawGlyph \/ NextRow \/ Shown
             PROVE  LayoutInv'
  OBVIOUS
<1>1. /\ stage = "draw" /\ stage' \in {"draw", "shown"}
      /\ UNCHANGED <<setting, at, lines, plan>>
  BY DEF SkipDrawing, OmitEmoji, DrawGlyph, NextRow, Shown, Drawing, DrawItem
<1>2. /\ LayoutTypeOK /\ PlanFits(plan, setting.w)
      /\ at = [k |-> at.k, i |-> at.i, prevI |-> at.prevI] /\ at.k >= 1
      /\ row = [y |-> row.y, i |-> row.i] /\ row.y >= 1
  BY DEF LayoutInv
<1>3. /\ row.y \in Nat /\ row.i \in Nat /\ pen \in Nat /\ seen \in Seq(Seq(Item))
      /\ lines \in Seq(Seq(Rune)) /\ setting.table \in Tables
  BY <1>1, <1>2 DEF LayoutTypeOK
<1>4. ASSUME NEW e \in BOOLEAN, NEW i \in Nat, NEW adv \in Nat, DrawItem(e, i, adv)
      PROVE  /\ row' = [y |-> row'.y, i |-> row'.i] /\ row'.y = row.y /\ row'.i = i
             /\ pen' \in Nat /\ seen' \in Seq(Seq(Item))
  <2> DEFINE it == [emoji |-> e, x |-> pen]
             s == Append(seen[row.y], it)
  <2>1. seen' = [seen EXCEPT ![row.y] = s] /\ pen' = pen + adv
        /\ row' = [row EXCEPT !.i = i]
    BY <1>4 DEF DrawItem
  <2>2. row.y \in 1..Len(seen) => s \in Seq(Item)
    <3> SUFFICES ASSUME row.y \in 1..Len(seen) PROVE s \in Seq(Item)
      OBVIOUS
    <3>1. seen[row.y] \in Seq(Item) /\ it \in Item
      BY <1>3 DEF Item
    <3> HIDE DEF it
    <3> QED  BY <3>1, AppendProperties
  <2> HIDE DEF s
  <2>3. [seen EXCEPT ![row.y] = s] \in Seq(Seq(Item))
    BY <1>3, <2>2, ReplaceOne
  <2>4. seen' \in Seq(Seq(Item))
    BY <2>1, <2>3, Zenon
  <2>5. row' = [y |-> row.y, i |-> i]
    BY <1>2, <2>1
  <2>6. pen' \in Nat
    BY <1>3, <2>1
  <2>7. row' = [y |-> row'.y, i |-> row'.i] /\ row'.y = row.y /\ row'.i = i
    BY <2>5
  <2> QED  BY <2>4, <2>6, <2>7
<1>5. ASSUME Drawing, row.i < Len(lines[row.y])
      PROVE  /\ row.i + 1 \in 1..Len(lines[row.y]) /\ lines[row.y] \in Seq(Rune)
             /\ EmojiAdvance \in Nat /\ GlyphWidth[NextDrawn] \in Nat
  <2>1. row.y \in 1..Len(lines)
    BY <1>2, <1>3, <1>5 DEF Drawing
  <2>2. lines[row.y] \in Seq(Rune) /\ Len(lines[row.y]) \in Nat
    BY <1>3, <2>1
  <2>3. row.i + 1 \in 1..Len(lines[row.y])
    BY <1>3, <1>5, <2>2
  <2>4. NextDrawn \in Rune
    BY <2>2, <2>3 DEF NextDrawn
  <2>5. GlyphWidth[NextDrawn] \in 1..Margins /\ Margins \in Nat /\ EmojiAdvance \in Nat
    BY <2>4, LayoutAssumption DEF Margins, EmojiAdvance
  <2> QED  BY <2>2, <2>3, <2>5
<1>6. /\ row' = [y |-> row'.y, i |-> row'.i] /\ row'.y >= 1 /\ row'.y \in Nat
      /\ row'.i \in Nat /\ pen' \in Nat /\ seen' \in Seq(Seq(Item))
  <2>1. CASE SkipDrawing
    <3>1. row' = [row EXCEPT !.i = @ + 1] /\ pen' = pen /\ seen' = seen
      BY <2>1 DEF SkipDrawing
    <3>2. row' = [y |-> row.y, i |-> row.i + 1]
      BY <1>2, <3>1
    <3>3. row' = [y |-> row'.y, i |-> row'.i] /\ row'.y = row.y /\ row'.i = row.i + 1
      BY <3>2
    <3>4. row.i + 1 \in Nat
      BY <1>3
    <3> QED  BY <1>2, <1>3, <3>1, <3>3, <3>4
  <2>2. CASE OmitEmoji
    <3>1. PICK t \in EmojiAt(lines[row.y], row.i + 1) :
            DrawItem(TRUE, row.i + 1 + Len(t), EmojiAdvance)
      BY <2>2 DEF OmitEmoji
    <3>2. /\ row.i + 1 \in 1..Len(lines[row.y]) /\ lines[row.y] \in Seq(Rune)
          /\ EmojiAdvance \in Nat
      BY <1>5, <2>2 DEF OmitEmoji
    <3>3. Len(t) \in Nat
      BY <1>3, <3>2, EmojiFits
    <3>4. row.i + 1 + Len(t) \in Nat
      BY <1>3, <3>3
    <3>5. /\ row' = [y |-> row'.y, i |-> row'.i] /\ row'.y = row.y /\ row'.i = row.i + 1 + Len(t)
          /\ pen' \in Nat /\ seen' \in Seq(Seq(Item))
      BY <1>4, <3>1, <3>2, <3>4
    <3> QED  BY <1>2, <1>3, <3>4, <3>5
  <2>3. CASE DrawGlyph
    <3>1. DrawItem(FALSE, row.i + 1, GlyphWidth[NextDrawn])
      BY <2>3 DEF DrawGlyph
    <3>2. GlyphWidth[NextDrawn] \in Nat
      BY <1>5, <2>3 DEF DrawGlyph
    <3>3. row.i + 1 \in Nat
      BY <1>3
    <3>5. /\ row' = [y |-> row'.y, i |-> row'.i] /\ row'.y = row.y /\ row'.i = row.i + 1
          /\ pen' \in Nat /\ seen' \in Seq(Seq(Item))
      BY <1>4, <3>1, <3>2, <3>3
    <3> QED  BY <1>2, <1>3, <3>3, <3>5
  <2>4. CASE NextRow
    <3>1. row' = [y |-> row.y + 1, i |-> 0] /\ pen' = ContentLeft /\ seen' = Append(seen, <<>>)
      BY <2>4 DEF NextRow
    <3>2. Append(seen, <<>>) \in Seq(Seq(Item)) /\ ContentLeft \in Nat
      BY <1>3, AppendProperties DEF ContentLeft
    <3> QED  BY <1>2, <1>3, <3>1, <3>2
  <2>5. CASE Shown
    <3>1. row' = row /\ pen' = pen /\ seen' = seen
      BY <2>5 DEF Shown
    <3> QED  BY <1>2, <1>3, <3>1
  <2> QED  BY <2>1, <2>2, <2>3, <2>4, <2>5
<1>7. LayoutTypeOK'
  BY <1>1, <1>2, <1>6 DEF LayoutTypeOK
<1>8. TextKept'
  BY <1>1 DEF TextKept
<1> QED  BY <1>1, <1>2, <1>6, <1>7, <1>8 DEF LayoutInv

LEMMA LayoutInvariance == LayoutSpec => []LayoutInv
<1>1. LayoutInv /\ [LayoutNext]_layoutVars => LayoutInv'
  <2> SUFFICES ASSUME LayoutInv, [LayoutNext]_layoutVars PROVE LayoutInv'
    OBVIOUS
  <2>1. CASE AllBroken
    <3>1. stage = "wrap" /\ stage' = "draw" /\ UNCHANGED <<setting, at, pen, lines, plan, row, seen>>
      BY <2>1 DEF AllBroken
    <3>2. LayoutTypeOK /\ TextKept'
      BY <3>1 DEF LayoutInv, TextKept
    <3> QED  BY <3>1, <3>2 DEF LayoutInv, LayoutTypeOK
  <2>2. CASE NextMessage
    <3>1. LayoutInit'
      BY <2>2 DEF NextMessage, LayoutInit
    <3>2. LayoutTypeOK'
      BY <3>1 DEF LayoutInit, LayoutTypeOK, Top, Origin, ContentLeft
    <3>3. TextKept' /\ PlanFits(plan', setting'.w)
      BY <3>1 DEF LayoutInit, TextKept, PlanFits
    <3>4. /\ at' = [k |-> at'.k, i |-> at'.i, prevI |-> at'.prevI] /\ at'.k >= 1
          /\ row' = [y |-> row'.y, i |-> row'.i] /\ row'.y >= 1
      BY <3>1 DEF LayoutInit, Top, Origin
    <3> QED  BY <3>1, <3>2, <3>3, <3>4 DEF LayoutInv, LayoutInit
  <2>3. CASE UNCHANGED layoutVars
    BY <2>3 DEF layoutVars, LayoutInv, LayoutTypeOK, TextKept, WrapInv, Wrapping, Line
  <2> QED
    BY <2>1, <2>2, <2>3, NextStart, NextSkip, NextPlace, NextEndLine, NextDrawing
       DEF LayoutNext
<1> QED  BY <1>1, InitLayout, PTL DEF LayoutSpec

(* No rune of a message gets lost or is written twice where its lines are  *)
(* broken, and nothing sticks out of the picture, whatever font, emojis    *)
(* and width (channel.go:463, 474).                                        *)
THEOREM LayoutCorrect == LayoutSpec => []LaidOut
<1>1. LayoutInv => LaidOut
  BY DEF LayoutInv, LaidOut, InsideThePicture, PlanFits
<1> QED  BY <1>1, LayoutInvariance, PTL
-------------------------------------------------------------------------------
(* The order of strings.                                                   *)

Continues(s, t) == Len(s) < Len(t) /\ \A n \in 1..Len(s) : s[n] = t[n]
Differ(s, t, j) == s[j] < t[j] /\ \A n \in 1..(j - 1) : s[n] = t[n]

LEMMA PrefixIs ==
  ASSUME NEW s \in Seq(Nat), NEW t \in Seq(Nat)
  PROVE  /\ IsPrefix(s, t) <=> Len(s) <= Len(t) /\ \A n \in 1..Len(s) : s[n] = t[n]
         /\ IsStrictPrefix(s, t) <=> Continues(s, t)
<1> DEFINE a == Len(s)
           b == Len(t)
<1>1. a \in Nat /\ b \in Nat
  OBVIOUS
<1>2. IsPrefix(s, t) <=> a <= b /\ \A n \in 1..a : s[n] = t[n]
  <2>1. SubSeq(s, 1, a) = s
    BY SubSeqFull
  <2>2. ASSUME a <= b
        PROVE  SubSeq(t, 1, a) = s <=> \A n \in 1..a : s[n] = t[n]
    <3> DEFINE u == SubSeq(t, 1, a)
    <3>1. /\ u \in Seq(Nat) /\ Len(u) = (a + 1) - 1
          /\ \A n \in 1..((a + 1) - 1) : u[n] = t[(1 - 1) + n]
      <4>1. 1 \in Nat \ {0} /\ 1 <= a + 1
        BY <1>1
      <4> HIDE DEF a
      <4> QED  BY <1>1, <2>2, <4>1, PartIs
    <3>2. (a + 1) - 1 = a /\ \A n \in 1..a : (1 - 1) + n = n
      BY <1>1
    <3>3. \A n \in 1..a : u[n] = t[n]
      BY <3>1, <3>2
    <3>4. Len(u) = a
      BY <3>1, <3>2, Zenon
    <3> HIDE DEF u
    <3>5. (\A n \in 1..a : s[n] = t[n]) => u = s
      BY <3>1, <3>3, <3>4, SeqEqual
    <3>6. u = s => \A n \in 1..a : s[n] = t[n]
      BY <3>3
    <3> QED  BY <3>5, <3>6 DEF u
  <2> QED  BY <2>1, <2>2 DEF IsPrefix
<1>3. ASSUME a <= b, \A n \in 1..a : s[n] = t[n] PROVE s # t <=> a < b
  <2>1. a = b => s = t
    BY <1>3, SeqEqual
  <2> QED  BY <1>1, <1>3, <2>1
<1> QED  BY <1>1, <1>2, <1>3 DEF IsStrictPrefix, Continues

LEMMA BelowIs ==
  ASSUME NEW s \in Seq(Nat), NEW t \in Seq(Nat)
  PROVE  Below(s, t) <=> \/ Continues(s, t)
                         \/ \E j \in 1..Len(s) : j <= Len(t) /\ Differ(s, t, j)
<1>1. DOMAIN s = 1..Len(s) /\ DOMAIN t = 1..Len(t) /\ Len(s) \in Nat /\ Len(t) \in Nat
  OBVIOUS
<1>2. \A j : j \in DOMAIN s \cap DOMAIN t <=> j \in 1..Len(s) /\ j <= Len(t)
  BY <1>1
<1> QED  BY <1>2, PrefixIs DEF Below, Differ

LEMMA BelowItself == ASSUME NEW s \in Seq(Nat) PROVE ~Below(s, s)
<1>1. \A j \in 1..Len(s) : s[j] \in Nat
  OBVIOUS
<1>2. Len(s) \in Nat
  OBVIOUS
<1> QED  BY <1>1, <1>2, BelowIs DEF Continues, Differ

LEMMA BelowTransitive ==
  ASSUME NEW s \in Seq(Nat), NEW t \in Seq(Nat), NEW u \in Seq(Nat),
         Below(s, t), Below(t, u)
  PROVE  Below(s, u)
<1> DEFINE a == Len(s)
           b == Len(t)
           c == Len(u)
<1>1. a \in Nat /\ b \in Nat /\ c \in Nat
  OBVIOUS
<1>2. /\ \A j \in 1..a : s[j] \in Nat
      /\ \A j \in 1..b : t[j] \in Nat
      /\ \A j \in 1..c : u[j] \in Nat
  OBVIOUS
<1>3. Continues(s, t) \/ \E j \in 1..a : j <= b /\ Differ(s, t, j)
  BY BelowIs
<1>4. Continues(t, u) \/ \E j \in 1..b : j <= c /\ Differ(t, u, j)
  BY BelowIs
<1>5. CASE Continues(s, t) /\ Continues(t, u)
  <2>1. Continues(s, u)
    <3>1. a < b /\ b < c /\ a < c
      BY <1>1, <1>5 DEF Continues
    <3>2. \A n \in 1..a : s[n] = t[n] /\ n \in 1..b
      BY <1>1, <1>5, <3>1 DEF Continues
    <3>3. \A n \in 1..b : t[n] = u[n]
      BY <1>5 DEF Continues
    <3> HIDE DEF a, b, c
    <3>4. \A n \in 1..a : s[n] = u[n]
      BY <3>2, <3>3
    <3> QED  BY <3>1, <3>4 DEF Continues, a, b, c
  <2> QED  BY <2>1, BelowIs
<1>6. ASSUME NEW j \in 1..b, j <= c, Differ(t, u, j), Continues(s, t) PROVE Below(s, u)
  <2>1. t[j] < u[j] /\ \A n \in 1..(j - 1) : t[n] = u[n]
    BY <1>6 DEF Differ
  <2>2. a < b /\ \A n \in 1..a : s[n] = t[n]
    BY <1>6 DEF Continues
  <2>3. CASE j <= a
    <3>1. j \in 1..a /\ \A n \in 1..(j - 1) : n \in 1..a
      BY <1>1, <2>3
    <3>2. s[j] = t[j] /\ \A n \in 1..(j - 1) : s[n] = t[n]
      BY <2>2, <3>1
    <3>3. Differ(s, u, j)
      BY <2>1, <3>2 DEF Differ
    <3> QED  BY <1>6, <3>1, <3>3, BelowIs
  <2>4. CASE ~(j <= a)
    <3>1. a < c /\ \A n \in 1..a : n \in 1..(j - 1)
      BY <1>1, <1>6, <2>4
    <3>2. \A n \in 1..a : s[n] = u[n]
      BY <2>1, <2>2, <3>1
    <3>3. Continues(s, u)
      BY <3>1, <3>2 DEF Continues
    <3> QED  BY <3>3, BelowIs
  <2> QED  BY <2>3, <2>4
<1>7. ASSUME NEW j \in 1..a, j <= b, Differ(s, t, j), Continues(t, u) PROVE Below(s, u)
  <2>1. s[j] < t[j] /\ \A n \in 1..(j - 1) : s[n] = t[n]
    BY <1>7 DEF Differ
  <2>2. b < c /\ \A n \in 1..b : t[n] = u[n]
    BY <1>7 DEF Continues
  <2>3. j \in 1..b /\ j <= c /\ \A n \in 1..(j - 1) : n \in 1..b
    BY <1>1, <1>7, <2>2
  <2>4. t[j] = u[j] /\ \A n \in 1..(j - 1) : t[n] = u[n]
    BY <2>2, <2>3
  <2>5. Differ(s, u, j)
    BY <2>1, <2>4 DEF Differ
  <2> QED  BY <1>7, <2>3, <2>5, BelowIs
<1>8. ASSUME NEW j \in 1..a, j <= b, Differ(s, t, j),
             NEW k \in 1..b, k <= c, Differ(t, u, k)
      PROVE  Below(s, u)
  <2>1. s[j] < t[j] /\ \A n \in 1..(j - 1) : s[n] = t[n]
    BY <1>8 DEF Differ
  <2>2. t[k] < u[k] /\ \A n \in 1..(k - 1) : t[n] = u[n]
    BY <1>8 DEF Differ
  <2>3. CASE j < k
    <3>1. j \in 1..(k - 1) /\ j <= c /\ \A n \in 1..(j - 1) : n \in 1..(k - 1)
      BY <1>1, <1>8, <2>3
    <3>2. t[j] = u[j] /\ \A n \in 1..(j - 1) : t[n] = u[n]
      BY <2>2, <3>1
    <3>3. Differ(s, u, j)
      BY <2>1, <3>2 DEF Differ
    <3> QED  BY <3>1, <3>3, BelowIs
  <2>4. CASE k < j
    <3>1. k \in 1..(j - 1) /\ k \in 1..a /\ \A n \in 1..(k - 1) : n \in 1..(j - 1)
      BY <1>1, <1>8, <2>4
    <3>2. s[k] = t[k] /\ \A n \in 1..(k - 1) : s[n] = t[n]
      BY <2>1, <3>1
    <3>3. Differ(s, u, k)
      BY <2>2, <3>2 DEF Differ
    <3> QED  BY <1>8, <3>1, <3>3, BelowIs
  <2>5. CASE j = k
    <3>1. s[j] < u[j]
      <4>1. j \in 1..a /\ j \in 1..b /\ j \in 1..c
        BY <1>1, <1>8, <2>5
      <4>2. PICK x \in Nat, y \in Nat, z \in Nat : x = s[j] /\ y = t[j] /\ z = u[j]
        BY <1>2, <4>1
      <4>3. x < y /\ y < z
        BY <2>1, <2>2, <2>5, <4>2
      <4>4. x < z
        BY <4>3
      <4> QED  BY <4>2, <4>4
    <3>2. Differ(s, u, j)
      BY <2>1, <2>2, <2>5, <3>1 DEF Differ
    <3> QED  BY <1>8, <2>5, <3>2, BelowIs
  <2> QED  BY <1>1, <1>8, <2>3, <2>4, <2>5
<1> HIDE DEF a, b, c
<1> QED  BY <1>3, <1>4, <1>5, <1>6, <1>7, <1>8

(* Above every string of a finite set is one that is above all the others  *)
(* or at least not below any: the one with the fewest above it.            *)
LEMMA Highest ==
  ASSUME NEW S \in SUBSET Seq(Nat), IsFiniteSet(S), NEW t \in S
  PROVE  \E m \in S : /\ m = t \/ Below(t, m)
                      /\ \A u \in S : ~Below(m, u)
<1> DEFINE Above(m) == {u \in S : Below(m, u)}
           M == {m \in S : m = t \/ Below(t, m)}
           N == {n \in Nat : \E m \in M : n = Cardinality(Above(m))}
<1>1. \A m \in S : IsFiniteSet(Above(m)) /\ Cardinality(Above(m)) \in Nat
  <2> TAKE m \in S
  <2>1. IsFiniteSet(Above(m))
    <3>1. Above(m) \subseteq S
      OBVIOUS
    <3> HIDE DEF Above
    <3> QED  BY <3>1, FS_Subset
  <2> HIDE DEF Above
  <2> QED  BY <2>1, FS_CardinalityType
<1>2. N # {}
  <2>1. t \in M
    OBVIOUS
  <2>2. Cardinality(Above(t)) \in Nat
    BY <1>1
  <2> HIDE DEF Above, M
  <2> QED  BY <2>1, <2>2
<1>3. PICK n \in N : \A k \in N : ~(<<k, n>> \in OpToRel(<, Nat))
  <2>1. N \subseteq Nat
    OBVIOUS
  <2> HIDE DEF N
  <2> QED  BY <1>2, <2>1, NatLessThanWellFounded, WFMin
<1>4. PICK m \in M : n = Cardinality(Above(m))
  OBVIOUS
<1>5. ASSUME NEW u \in S, Below(m, u) PROVE FALSE
  <2>1. m \in S /\ (m = t \/ Below(t, m))
    OBVIOUS
  <2>2. u \in M
    BY <1>5, <2>1, BelowTransitive
  <2>3. Above(u) \subseteq Above(m)
    BY <1>5, <2>1, BelowTransitive
  <2>4. u \in Above(m) /\ u \notin Above(u)
    BY <1>5, BelowItself
  <2>5. IsFiniteSet(Above(m)) /\ Cardinality(Above(m)) \in Nat /\ Cardinality(Above(u)) \in Nat
    BY <1>1, <2>1
  <2>6. Cardinality(Above(u)) < Cardinality(Above(m))
    <3> HIDE DEF Above
    <3>1. Cardinality(Above(u)) <= Cardinality(Above(m))
      BY <2>3, <2>5, FS_Subset
    <3>2. Cardinality(Above(u)) # Cardinality(Above(m))
      BY <2>3, <2>4, <2>5, FS_Subset
    <3> QED  BY <2>5, <3>1, <3>2
  <2>7. Cardinality(Above(u)) \in N
    <3> HIDE DEF Above, M
    <3> QED  BY <2>2, <2>5
  <2>8. <<Cardinality(Above(u)), n>> \in OpToRel(<, Nat)
    <3> HIDE DEF Above
    <3> QED  BY <1>4, <2>5, <2>6 DEF OpToRel
  <2> HIDE DEF N
  <2> QED  BY <1>3, <2>7, <2>8
<1> QED  BY <1>5

LEMMA Probing ==
  ASSUME NEW cands \in SUBSET Seq(Nat), IsFiniteSet(cands), NEW s \in Seq(Nat)
  PROVE  LongestOrNone(cands, s)
<1> DEFINE from == {t \in cands : ~Below(t, s)}
           idx  == {t \in from : ~\E u \in from : Below(u, t)}
           below == {t \in cands : Below(t, s)}
           last == {t \in below : ~\E u \in below : Below(t, u)}
           found(q) == {t \in q : IsPrefix(t, s)}
           fitting == {t \in cands : IsPrefix(t, s)}
           p == Probe(cands, s)
<1>1. p = IF found(idx) # {} THEN found(idx) ELSE found(last)
  <2>1. cands \ from = below
    OBVIOUS
  <2> QED  BY <2>1 DEF Probe
<1>2. \A t \in found(idx) : t = s
  <2> TAKE t \in found(idx)
  <2>1. t \in Seq(Nat) /\ ~Below(t, s) /\ IsPrefix(t, s)
    OBVIOUS
  <2> QED  BY <2>1 DEF Below, IsStrictPrefix
<1>3. s \in cands => s \in found(idx)
  <2> SUFFICES ASSUME s \in cands PROVE s \in found(idx)
    OBVIOUS
  <2>1. s \in from
    BY BelowItself
  <2>2. \A u \in from : ~Below(u, s)
    OBVIOUS
  <2>3. IsPrefix(s, s)
    BY PrefixIs
  <2> QED  BY <2>1, <2>2, <2>3
<1>4. p \subseteq fitting
  BY <1>1
<1>5. ASSUME NEW t \in p, NEW u \in fitting PROVE Len(u) <= Len(t)
  <2>0. t \in Seq(Nat) /\ u \in Seq(Nat) /\ IsPrefix(t, s) /\ IsPrefix(u, s)
    BY <1>4, <1>5
  <2>1. /\ Len(t) \in Nat /\ Len(u) \in Nat /\ Len(s) \in Nat
        /\ Len(u) <= Len(s) /\ \A n \in 1..Len(u) : u[n] = s[n]
        /\ Len(t) <= Len(s) /\ \A n \in 1..Len(t) : t[n] = s[n]
    BY <2>0, PrefixIs
  <2>2. CASE t \in found(idx)
    BY <1>2, <2>1, <2>2
  <2>3. CASE t \in found(last) /\ found(idx) = {}
    <3>1. u # s
      BY <1>3, <1>5, <2>3
    <3>2. u \in below
      BY <1>5, <2>0, <3>1 DEF Below, IsStrictPrefix
    <3>3. ~Below(t, u)
      BY <2>3, <3>2
    <3>4. ~Continues(t, u)
      BY <2>0, <3>3, BelowIs
    <3>5. Len(t) < Len(u) => Continues(t, u)
      <4> SUFFICES ASSUME Len(t) < Len(u) PROVE \A n \in 1..Len(t) : t[n] = u[n]
        BY DEF Continues
      <4> TAKE n \in 1..Len(t)
      <4>1. n \in 1..Len(u)
        BY <2>1
      <4> QED  BY <2>1, <4>1
    <3> QED  BY <2>1, <3>4, <3>5
  <2> QED  BY <1>1, <1>5, <2>2, <2>3
<1>6. ASSUME p = {}, NEW t \in fitting
      PROVE  \E u \in cands \ fitting : Below(t, u) /\ Below(u, s)
  <2>1. found(idx) = {} /\ found(last) = {}
    BY <1>1, <1>6
  <2>2. t # s
    BY <1>3, <2>1
  <2>3. t \in below
    BY <2>2 DEF Below, IsStrictPrefix
  <2>4. below \in SUBSET Seq(Nat) /\ IsFiniteSet(below)
    <3>1. below \subseteq cands
      OBVIOUS
    <3> HIDE DEF below
    <3> QED  BY <3>1, FS_Subset
  <2>5. PICK m \in below : (m = t \/ Below(t, m)) /\ \A u \in below : ~Below(m, u)
    <3> HIDE DEF below
    <3> QED  BY <2>3, <2>4, Highest
  <2>6. m \in last
    BY <2>5
  <2>7. ~IsPrefix(m, s)
    BY <2>1, <2>6
  <2> QED  BY <2>5, <2>7
<1> HIDE DEF from, idx, below, last, found
<1> QED  BY <1>4, <1>5, <1>6 DEF LongestOrNone

(* Wherever a text is probed, probeEmoji finds the longest emoji, or none  *)
(* although one fits, but then because one that does not fit sorts between *)
(* it and the text, whatever emojis there are (draw.go:176).               *)
THEOREM ProbeCorrect == LayoutSpec => []ProbeIsLongest
<1>1. LayoutInv => ProbeIsLongest
  <2> SUFFICES ASSUME LayoutInv, stage = "wrap", Wrapping, at.i < Len(Line)
               PROVE  LongestOrNone(Cands(NextRune), SubSeq(Line, at.i + 2, Len(Line)))
    BY DEF ProbeIsLongest
  <2>1. /\ at.i + 1 \in 1..Len(Line) /\ Len(Line) \in Nat /\ Line \in Seq(Rune)
        /\ setting.table \in Tables
    BY NextRuneIs
  <2>2. at.i \in Nat
    BY DEF LayoutInv, LayoutTypeOK
  <2>3. \A q \in Seq(Rune) : q \in Seq(Nat)
    BY LayoutAssumption, SeqMonotonic
  <2>4. SubSeq(Line, at.i + 2, Len(Line)) \in Seq(Nat)
    <3>1. at.i + 2 \in Nat \ {0} /\ at.i + 2 <= Len(Line) + 1 /\ Len(Line) <= Len(Line)
      BY <2>1, <2>2
    <3>2. SubSeq(Line, at.i + 2, Len(Line)) \in Seq(Rune)
      BY <2>1, <3>1, PartIs
    <3> QED  BY <2>3, <3>2
  <2>5. Cands(NextRune) \in SUBSET Seq(Rune) /\ IsFiniteSet(Cands(NextRune))
    BY <2>1, LayoutAssumption, FS_EmptySet DEF Cands
  <2>6. Cands(NextRune) \in SUBSET Seq(Nat)
    BY <2>3, <2>5
  <2> QED  BY <2>4, <2>5, <2>6, Probing
<1> QED  BY <1>1, LayoutInvariance, PTL

-------------------------------------------------------------------------------
(* Gaps and emojis.  Both passes go through a line in the same way; only   *)
(* what they see behind a rune differs.                                    *)

(* If the second pass sees less, but all of the emoji that the first one   *)
(* has found, it finds one of the same length.                             *)
SeesLess(C, s, u, t) ==
  /\ C \in SUBSET Seq(Nat) /\ IsFiniteSet(C)
  /\ s \in Seq(Nat) /\ u \in Seq(Nat) /\ IsPrefix(u, s)
  /\ t \in Probe(C, s) /\ Len(t) <= Len(u)
LEMMA SameEmoji ==
  ASSUME NEW C, NEW s, NEW u, NEW t, SeesLess(C, s, u, t)
  PROVE  /\ Probe(C, u) # {}
         /\ \A v \in Probe(C, u) : Len(v) = Len(t)
<1>a. /\ C \in SUBSET Seq(Nat) /\ IsFiniteSet(C)
      /\ s \in Seq(Nat) /\ u \in Seq(Nat) /\ IsPrefix(u, s)
      /\ t \in Probe(C, s) /\ Len(t) <= Len(u)
  BY DEF SeesLess
<1> USE <1>a
<1> DEFINE Fits1(q, z) == {v \in q : IsPrefix(v, z)}
<1>1. /\ Probe(C, s) \subseteq Fits1(C, s)
      /\ \A v \in Probe(C, s) : \A z \in Fits1(C, s) : Len(z) <= Len(v)
  BY Probing DEF LongestOrNone
<1>2. /\ Probe(C, u) \subseteq Fits1(C, u)
      /\ \A v \in Probe(C, u) : \A z \in Fits1(C, u) : Len(z) <= Len(v)
      /\ Probe(C, u) = {} => \A v \in Fits1(C, u) :
           \E z \in C \ Fits1(C, u) : Below(v, z) /\ Below(z, u)
  BY Probing DEF LongestOrNone
<1>3. t \in C /\ t \in Seq(Nat) /\ IsPrefix(t, s) /\ Len(t) \in Nat
  BY <1>1
<1>4. IsPrefix(t, u)
  <2>1. \A n \in 1..Len(t) : t[n] = s[n]
    BY <1>3, PrefixIs
  <2>2. \A n \in 1..Len(u) : u[n] = s[n]
    BY PrefixIs
  <2>3. \A n \in 1..Len(t) : n \in 1..Len(u)
    BY <1>3
  <2> QED  BY <1>3, <2>1, <2>2, <2>3, PrefixIs
<1>5. ASSUME NEW v \in Probe(C, u) PROVE Len(v) = Len(t)
  <2>1. v \in C /\ v \in Seq(Nat) /\ IsPrefix(v, u) /\ Len(v) \in Nat
    BY <1>2
  <2>2. IsPrefix(v, s)
    <3>1. Len(v) <= Len(u) /\ \A n \in 1..Len(v) : v[n] = u[n]
      BY <2>1, PrefixIs
    <3>2. Len(u) <= Len(s) /\ \A n \in 1..Len(u) : u[n] = s[n]
      BY PrefixIs
    <3>3. Len(u) \in Nat /\ Len(s) \in Nat
      OBVIOUS
    <3>4. Len(v) <= Len(s) /\ \A n \in 1..Len(v) : n \in 1..Len(u)
      BY <2>1, <3>1, <3>2, <3>3
    <3> QED  BY <2>1, <3>1, <3>2, <3>4, PrefixIs
  <2>3. Len(t) <= Len(v)
    BY <1>2, <1>3, <1>4
  <2>4. Len(v) <= Len(t)
    BY <1>1, <2>1, <2>2
  <2> QED  BY <1>3, <2>1, <2>3, <2>4
<1>6. Probe(C, u) # {}
  <2> SUFFICES ASSUME Probe(C, u) = {} PROVE FALSE
    OBVIOUS
  <2>1. PICK z \in C : Below(t, z) /\ Below(z, u)
    BY <1>2, <1>3, <1>4
  <2>2. z \in Seq(Nat)
    BY <2>1
  <2>3. Below(z, s)
    <3>1. u = s \/ Below(u, s)
      BY DEF Below, IsStrictPrefix
    <3> QED  BY <2>1, <2>2, <3>1, BelowTransitive
  <2> DEFINE from == {v \in C : ~Below(v, s)}
             idx  == {v \in from : ~\E w \in from : Below(w, v)}
             last == {v \in C \ from : ~\E w \in C \ from : Below(v, w)}
  <2>4. \/ t \in idx
        \/ t \in last
    BY DEF Probe
  <2>5. CASE t \in idx
    <3>1. t = s
      BY <1>3, <2>5 DEF Below, IsStrictPrefix
    <3> QED  BY <2>1, <2>2, <2>3, <3>1, BelowTransitive, BelowItself
  <2>6. CASE t \in last
    <3>1. z \in C \ from
      BY <2>1, <2>3
    <3> QED  BY <2>1, <2>6, <3>1
  <2> QED  BY <2>4, <2>5, <2>6
<1> QED  BY <1>5, <1>6

(* What emojiTable says of rune n of a line.                               *)
Emojis(table, line, n) ==
  Probe(IF line[n] \in DOMAIN table THEN table[line[n]] ELSE {},
        SubSeq(line, n + 1, Len(line)))

(* The spots of what is put on a line: which runes of a text stand there.  *)
(* Between two spots, and behind the last one, there is nothing to draw.   *)
Spot == [from : Nat, to : Nat]
Blank(line, i, j) == \A m \in (i + 1)..j : line[m] \in NoDraw
ItemWidth(line, i, emoji) == IF emoji THEN EmojiAdvance ELSE GlyphWidth[line[i + 1]]
Takes(table, line, emoji, i, j) ==
  IF emoji THEN \E t \in Emojis(table, line, i + 1) : j = i + 1 + Len(t)
  ELSE Emojis(table, line, i + 1) = {} /\ j = i + 1

SpotEnd(d, n, a) == IF n = 1 THEN a ELSE d[n - 1].to
PenAt(line, p, d, n) ==
  IF n = 1 THEN ContentLeft
  ELSE p[n - 1].x + ItemWidth(line, d[n - 1].from, p[n - 1].emoji)
Sits(table, line, a, b, p, d, n) ==
  /\ SpotEnd(d, n, a) <= d[n].from /\ d[n].from < d[n].to /\ d[n].to <= b
  /\ Blank(line, SpotEnd(d, n, a), d[n].from) /\ line[d[n].from + 1] \notin NoDraw
  /\ Takes(table, line, p[n].emoji, d[n].from, d[n].to)
  /\ p[n].x = PenAt(line, p, d, n)

(* A pass that has gone from a to b has put p, and the pen is at x.        *)
Passed(table, line, a, b, p, d, x) ==
  /\ d \in Seq(Spot) /\ Len(d) = Len(p)
  /\ \A n \in 1..Len(p) : Sits(table, line, a, b, p, d, n)
  /\ SpotEnd(d, Len(p) + 1, a) <= b
  /\ Blank(line, SpotEnd(d, Len(p) + 1, a), b)
  /\ x = PenAt(line, p, d, Len(p) + 1)

(* A pass begins.                                                          *)
LEMMA PassBegins ==
  ASSUME NEW table, NEW line, NEW a \in Nat
  PROVE  Passed(table, line, a, a, <<>>, <<>>, ContentLeft)
  BY DEF Passed, SpotEnd, PenAt, Blank

(* A pass that has gone nowhere has put nothing.                           *)
LEMMA PassedNothing ==
  ASSUME NEW table, NEW line, NEW a \in Nat, NEW p \in Seq(Item), NEW d, NEW x,
         Passed(table, line, a, a, p, d, x)
  PROVE  p = <<>>
<1>1. Len(p) \in Nat /\ d \in Seq(Spot) /\ Len(d) = Len(p)
  BY DEF Passed
<1>2. ASSUME Len(p) >= 1 PROVE FALSE
  <2>1. 1 \in 1..Len(p) /\ 1 \in 1..Len(d)
    BY <1>1, <1>2
  <2>2. d[1] \in Spot
    BY <1>1, <2>1
  <2>3. a <= d[1].from /\ d[1].from < d[1].to /\ d[1].to <= a
    BY <2>1 DEF Passed, Sits, SpotEnd
  <2> QED  BY <2>2, <2>3 DEF Spot
<1> QED  BY <1>1, <1>2, EmptySeq

(* It goes past a rune that is not drawn.                                  *)
LEMMA PassSkips ==
  ASSUME NEW table, NEW line, NEW a \in Nat, NEW b \in Nat, NEW p \in Seq(Item), NEW d,
         NEW x, Passed(table, line, a, b, p, d, x), line[b + 1] \in NoDraw
  PROVE  Passed(table, line, a, b + 1, p, d, x)
<1> DEFINE l == Len(p)
<1>1. l \in Nat /\ d \in Seq(Spot) /\ Len(d) = l
  BY DEF Passed
<1>2. \A n \in 1..l : d[n] \in Spot
  BY <1>1
<1>3. \A n \in 1..l : Sits(table, line, a, b + 1, p, d, n)
  <2> TAKE n \in 1..l
  <2>1. Sits(table, line, a, b, p, d, n) /\ d[n].to \in Nat
    BY <1>2 DEF Passed, Spot
  <2>2. d[n].to <= b + 1
    BY <2>1 DEF Sits
  <2> QED  BY <2>1, <2>2 DEF Sits
<1>4. SpotEnd(d, l + 1, a) \in Nat
  BY <1>1, <1>2 DEF SpotEnd, Spot
<1>5. SpotEnd(d, l + 1, a) <= b /\ Blank(line, SpotEnd(d, l + 1, a), b)
  BY DEF Passed
<1>6. Blank(line, SpotEnd(d, l + 1, a), b + 1)
  <2> DEFINE z == SpotEnd(d, l + 1, a)
  <2> SUFFICES ASSUME NEW m \in (z + 1)..(b + 1) PROVE line[m] \in NoDraw
    BY DEF Blank
  <2>1. m = b + 1 \/ m \in (z + 1)..b
    BY <1>4
  <2> QED  BY <1>5, <2>1 DEF Blank
<1>7. SpotEnd(d, l + 1, a) <= b + 1
  BY <1>4, <1>5
<1> QED  BY <1>1, <1>3, <1>6, <1>7 DEF Passed

(* It puts one more.                                                       *)
LEMMA PassPuts ==
  ASSUME NEW table, NEW line, NEW a \in Nat, NEW b \in Nat, NEW p \in Seq(Item), NEW d,
         NEW x \in Nat, Passed(table, line, a, b, p, d, x), line[b + 1] \notin NoDraw,
         NEW e \in BOOLEAN, NEW j \in Nat, b < j, Takes(table, line, e, b, j)
  PROVE  Passed(table, line, a, j, Append(p, [emoji |-> e, x |-> x]),
                Append(d, [from |-> b, to |-> j]), x + ItemWidth(line, b, e))
<1> DEFINE l == Len(p)
           it == [emoji |-> e, x |-> x]
           sp == [from |-> b, to |-> j]
           q == Append(p, it)
           f == Append(d, sp)
<1>1. l \in Nat /\ d \in Seq(Spot) /\ Len(d) = l /\ it \in Item /\ sp \in Spot
  BY DEF Passed, Item, Spot
<1>2. /\ q \in Seq(Item) /\ Len(q) = l + 1 /\ q[l + 1] = it
      /\ \A n \in 1..l : q[n] = p[n]
  BY <1>1, AppendProperties
<1>3. /\ f \in Seq(Spot) /\ Len(f) = l + 1 /\ f[l + 1] = sp
      /\ \A n \in 1..l : f[n] = d[n]
  BY <1>1, AppendProperties
<1>4. \A n \in 1..l : d[n] \in Spot /\ Sits(table, line, a, b, p, d, n)
  BY <1>1 DEF Passed
<1>5. it.emoji = e /\ it.x = x /\ sp.from = b /\ sp.to = j
  OBVIOUS
<1> HIDE DEF it, sp, q, f
<1>6. \A n \in 1..(l + 1) : SpotEnd(f, n, a) = SpotEnd(d, n, a)
                            /\ PenAt(line, q, f, n) = PenAt(line, p, d, n)
  <2> TAKE n \in 1..(l + 1)
  <2>1. n = 1 \/ n - 1 \in 1..l
    BY <1>1
  <2>2. n # 1 => f[n - 1] = d[n - 1] /\ q[n - 1] = p[n - 1]
    BY <1>2, <1>3, <2>1
  <2> QED  BY <2>2 DEF SpotEnd, PenAt
<1>7. ASSUME NEW n \in 1..(l + 1) PROVE Sits(table, line, a, j, q, f, n)
  <2>1. CASE n \in 1..l
    <3>1. Sits(table, line, a, b, p, d, n) /\ f[n] = d[n] /\ q[n] = p[n] /\ d[n].to \in Nat
      BY <1>2, <1>3, <1>4, <2>1 DEF Spot
    <3>2. d[n].to <= j
      BY <3>1 DEF Sits
    <3> QED  BY <1>6, <3>1, <3>2 DEF Sits
  <2>2. CASE n = l + 1
    <3>1. f[n].from = b /\ f[n].to = j /\ q[n].emoji = e /\ q[n].x = x
      BY <1>2, <1>3, <1>5, <2>2
    <3>2. /\ SpotEnd(d, n, a) <= b /\ Blank(line, SpotEnd(d, n, a), b)
          /\ x = PenAt(line, p, d, n)
      BY <2>2 DEF Passed
    <3> QED  BY <1>6, <3>1, <3>2 DEF Sits
  <2> QED  BY <1>1, <2>1, <2>2
<1>8. /\ SpotEnd(f, (l + 1) + 1, a) = j
      /\ PenAt(line, q, f, (l + 1) + 1) = x + ItemWidth(line, b, e)
  <2>1. ((l + 1) + 1) - 1 = l + 1 /\ (l + 1) + 1 # 1
    BY <1>1
  <2> QED  BY <1>2, <1>3, <1>5, <2>1 DEF SpotEnd, PenAt
<1>9. Blank(line, j, j)
  BY DEF Blank
<1> QED  BY <1>2, <1>3, <1>7, <1>8, <1>9 DEF Passed, it, sp, q, f

(* Where both passes have come to the same place they find the same next   *)
(* spot, for the second one has the runes of the first up to b.            *)
SameSoFar(p, d, q, f, a, n) ==
  /\ n <= Len(p) /\ n <= Len(q)
  /\ \A j \in 1..n : q[j] = p[j] /\ d[j].from = a + f[j].from /\ d[j].to = a + f[j].to

(* The runes from a to b of a line, and what both passes put there.        *)
CutOf(cut, line, a, b) ==
  /\ line \in Seq(Rune) /\ cut \in Seq(Rune)
  /\ a \in Nat /\ b \in Nat /\ a < b /\ b <= Len(line)
  /\ Len(cut) = b - a /\ \A j \in 1..(b - a) : cut[j] = line[a + j]
BothPasses(table, line, a, b, p, d, x, cut, q, f, z) ==
  /\ table \in Tables /\ CutOf(cut, line, a, b) /\ p \in Seq(Item) /\ q \in Seq(Item)
  /\ Passed(table, line, a, b, p, d, x)
  /\ Passed(table, cut, 0, b - a, q, f, z)

LEMMA NextSpots ==
  ASSUME NEW table, NEW line, NEW a, NEW b, NEW p, NEW d, NEW x, NEW cut, NEW q, NEW f, NEW z,
         BothPasses(table, line, a, b, p, d, x, cut, q, f, z),
         NEW n \in Nat, SameSoFar(p, d, q, f, a, n)
  PROVE  /\ n + 1 <= Len(p) <=> n + 1 <= Len(q)
         /\ n + 1 <= Len(p) => /\ d[n + 1].from = a + f[n + 1].from
                               /\ p[n + 1].x = q[n + 1].x
                               /\ f[n + 1].from \in Nat /\ a + f[n + 1].from < b
<1>0. /\ line \in Seq(Rune) /\ a \in Nat /\ b \in Nat /\ a < b /\ b <= Len(line)
      /\ p \in Seq(Item) /\ Passed(table, line, a, b, p, d, x)
      /\ cut \in Seq(Rune) /\ Len(cut) = b - a /\ \A j \in 1..(b - a) : cut[j] = line[a + j]
      /\ q \in Seq(Item) /\ Passed(table, cut, 0, b - a, q, f, z)
  BY DEF BothPasses, CutOf
<1> USE <1>0
<1> DEFINE u == SpotEnd(d, n + 1, a)
           v == SpotEnd(f, n + 1, 0)
<1>1. /\ Len(p) \in Nat /\ Len(q) \in Nat /\ d \in Seq(Spot) /\ f \in Seq(Spot)
      /\ Len(d) = Len(p) /\ Len(f) = Len(q)
  BY DEF Passed
<1>2. /\ \A j \in 1..Len(p) : d[j].from \in Nat /\ d[j].to \in Nat
      /\ \A j \in 1..Len(q) : f[j].from \in Nat /\ f[j].to \in Nat
  <2>1. \A j \in 1..Len(p) : d[j] \in Spot
    BY <1>1
  <2>2. \A j \in 1..Len(q) : f[j] \in Spot
    BY <1>1
  <2> QED  BY <2>1, <2>2 DEF Spot
<1>3. n # 0 => n \in 1..Len(p) /\ n \in 1..Len(q) /\ n \in 1..n
  BY <1>1 DEF SameSoFar
<1>4. (n + 1) - 1 = n /\ (n + 1 = 1 <=> n = 0)
  OBVIOUS
<1>5. u \in Nat /\ v \in Nat /\ u = a + v
  <2>1. CASE n = 0
    BY <2>1 DEF SpotEnd
  <2>2. CASE n # 0
    <3>1. u = d[n].to /\ v = f[n].to
      BY <1>4, <2>2 DEF SpotEnd
    <3>2. d[n].to = a + f[n].to
      BY <1>3, <2>2 DEF SameSoFar
    <3> QED  BY <1>2, <1>3, <2>2, <3>1, <3>2
  <2> QED  BY <2>1, <2>2
<1>6. PenAt(line, p, d, n + 1) = PenAt(cut, q, f, n + 1)
  <2>1. CASE n = 0
    BY <2>1 DEF PenAt
  <2>2. CASE n # 0
    <3>1. /\ q[n] = p[n] /\ d[n].from = a + f[n].from
          /\ f[n].from \in Nat /\ f[n].to \in Nat
      BY <1>2, <1>3, <2>2 DEF SameSoFar
    <3>2. Sits(table, cut, 0, b - a, q, f, n)
      BY <1>3, <2>2 DEF Passed
    <3>3. f[n].from < f[n].to /\ f[n].to <= b - a
      BY <3>2 DEF Sits
    <3>4. f[n].from + 1 \in 1..(b - a) /\ a + (f[n].from + 1) = d[n].from + 1
      <4> DEFINE i == f[n].from
                 j == d[n].from
                 k == f[n].to
      <4>1. i \in Nat /\ k \in Nat /\ j = a + i /\ i < k /\ k <= b - a
        BY <3>1, <3>3
      <4> HIDE DEF i, j, k
      <4>2. i + 1 \in 1..(b - a) /\ a + (i + 1) = j + 1
        BY <4>1
      <4> QED  BY <4>2 DEF i, j
    <3>5. cut[f[n].from + 1] = line[d[n].from + 1]
      <4> DEFINE i == f[n].from + 1
      <4>1. i \in 1..(b - a) /\ a + i = d[n].from + 1
        BY <3>4
      <4> HIDE DEF i
      <4>2. cut[i] = line[a + i]
        BY <4>1
      <4> QED  BY <4>1, <4>2, Zenon DEF i
    <3> QED  BY <1>4, <2>2, <3>1, <3>5 DEF PenAt, ItemWidth
  <2> QED  BY <2>1, <2>2
<1> HIDE DEF u, v
<1>7. ASSUME n + 1 <= Len(p)
      PROVE  /\ u <= d[n + 1].from /\ d[n + 1].from < b /\ Blank(line, u, d[n + 1].from)
             /\ line[d[n + 1].from + 1] \notin NoDraw
             /\ p[n + 1].x = PenAt(line, p, d, n + 1) /\ d[n + 1].from \in Nat
  <2>1. n + 1 \in 1..Len(p)
    BY <1>1, <1>7
  <2> DEFINE i == d[n + 1].from
             j == d[n + 1].to
  <2>2. Sits(table, line, a, b, p, d, n + 1)
    BY <2>1 DEF Passed
  <2>3. i \in Nat /\ j \in Nat
    BY <1>2, <2>1
  <2>4. i < j /\ j <= b
    BY <2>2 DEF Sits
  <2>5. i < b
    <3> HIDE DEF i, j
    <3> QED  BY <2>3, <2>4
  <2> QED  BY <2>2, <2>3, <2>5 DEF Sits, u
<1>8. ASSUME n + 1 <= Len(q)
      PROVE  /\ v <= f[n + 1].from /\ f[n + 1].from < b - a /\ Blank(cut, v, f[n + 1].from)
             /\ cut[f[n + 1].from + 1] \notin NoDraw
             /\ q[n + 1].x = PenAt(cut, q, f, n + 1) /\ f[n + 1].from \in Nat
  <2>1. n + 1 \in 1..Len(q)
    BY <1>1, <1>8
  <2> DEFINE i == f[n + 1].from
             j == f[n + 1].to
  <2>2. Sits(table, cut, 0, b - a, q, f, n + 1)
    BY <2>1 DEF Passed
  <2>3. i \in Nat /\ j \in Nat
    BY <1>2, <2>1
  <2>4. i < j /\ j <= b - a
    BY <2>2 DEF Sits
  <2>5. i < b - a
    <3> HIDE DEF i, j
    <3> QED  BY <2>3, <2>4
  <2> QED  BY <2>2, <2>3, <2>5 DEF Sits, v
<1>9. ~(n + 1 <= Len(p)) => Blank(line, u, b)
  <2>1. ~(n + 1 <= Len(p)) => Len(p) = n
    BY <1>1 DEF SameSoFar
  <2> QED  BY <2>1 DEF Passed, u
<1>10. ~(n + 1 <= Len(q)) => Blank(cut, v, b - a)
  <2>1. ~(n + 1 <= Len(q)) => Len(q) = n
    BY <1>1 DEF SameSoFar
  <2> QED  BY <2>1 DEF Passed, v
<1>11. n + 1 <= Len(p) => ~Blank(cut, v, b - a)
  <2> SUFFICES ASSUME n + 1 <= Len(p), Blank(cut, v, b - a) PROVE FALSE
    OBVIOUS
  <2> DEFINE i == d[n + 1].from
  <2>1. u <= i /\ i < b /\ line[i + 1] \notin NoDraw /\ i \in Nat
    BY <1>7
  <2> HIDE DEF i
  <2>2. (i - a) + 1 \in (v + 1)..(b - a) /\ (i - a) + 1 \in 1..(b - a)
        /\ a + ((i - a) + 1) = i + 1
    BY <1>5, <2>1
  <2> QED  BY <2>1, <2>2 DEF Blank
<1>12. n + 1 <= Len(q) => ~Blank(line, u, b)
  <2> SUFFICES ASSUME n + 1 <= Len(q), Blank(line, u, b) PROVE FALSE
    OBVIOUS
  <2> DEFINE i == f[n + 1].from
  <2>1. v <= i /\ i < b - a /\ cut[i + 1] \notin NoDraw /\ i \in Nat
    BY <1>8
  <2> HIDE DEF i
  <2>2. i + 1 \in 1..(b - a) /\ a + (i + 1) \in (u + 1)..b
    BY <1>5, <2>1
  <2> QED  BY <2>1, <2>2 DEF Blank
<1>13. n + 1 <= Len(p) <=> n + 1 <= Len(q)
  BY <1>9, <1>10, <1>11, <1>12
<1>14. ASSUME n + 1 <= Len(p), n + 1 <= Len(q)
       PROVE  d[n + 1].from = a + f[n + 1].from
  <2> DEFINE i == d[n + 1].from
             j == f[n + 1].from
  <2>1. /\ u <= i /\ i < b /\ line[i + 1] \notin NoDraw /\ i \in Nat /\ Blank(line, u, i)
        /\ v <= j /\ j < b - a /\ cut[j + 1] \notin NoDraw /\ j \in Nat /\ Blank(cut, v, j)
    BY <1>7, <1>8, <1>14
  <2> HIDE DEF i, j
  <2>2. ~(i < a + j)
    <3> SUFFICES ASSUME i < a + j PROVE FALSE
      OBVIOUS
    <3>1. (i - a) + 1 \in (v + 1)..j /\ (i - a) + 1 \in 1..(b - a)
          /\ a + ((i - a) + 1) = i + 1
      BY <1>5, <2>1
    <3>2. cut[(i - a) + 1] = line[i + 1]
      BY <3>1
    <3> QED  BY <2>1, <3>1, <3>2 DEF Blank
  <2>3. ~(a + j < i)
    <3> SUFFICES ASSUME a + j < i PROVE FALSE
      OBVIOUS
    <3>1. j + 1 \in 1..(b - a) /\ a + (j + 1) \in (u + 1)..i
      BY <1>5, <2>1
    <3>2. cut[j + 1] = line[a + (j + 1)]
      BY <3>1
    <3> QED  BY <2>1, <3>1, <3>2 DEF Blank
  <2>4. i = a + j
    BY <2>1, <2>2, <2>3
  <2> QED  BY <2>4 DEF i, j
<1>15. ASSUME n + 1 <= Len(p), n + 1 <= Len(q)
       PROVE  /\ p[n + 1].x = q[n + 1].x
              /\ f[n + 1].from \in Nat /\ a + f[n + 1].from < b
  <2>1. p[n + 1].x = q[n + 1].x
    BY <1>6, <1>7, <1>8, <1>15
  <2>2. f[n + 1].from < b - a /\ f[n + 1].from \in Nat
    BY <1>8, <1>15
  <2> QED  BY <2>1, <2>2
<1> QED  BY <1>13, <1>14, <1>15

(* What follows a rune of the cut line begins what follows it in the whole *)
(* one, and is that if nothing has been cut off.                           *)
RestIs(cut, line, a, b, i) ==
  LET s == SubSeq(line, (a + i + 1) + 1, Len(line))
      u == SubSeq(cut, (i + 1) + 1, Len(cut))
  IN  /\ s \in Seq(Nat) /\ u \in Seq(Nat) /\ IsPrefix(u, s)
      /\ Len(u) = (b - a) - (i + 1)
      /\ b = Len(line) => u = s
      /\ cut[i + 1] = line[a + i + 1]
LEMMA RestOfCut ==
  ASSUME NEW line, NEW a, NEW b, NEW cut, CutOf(cut, line, a, b),
         NEW i \in Nat, a + i < b
  PROVE  RestIs(cut, line, a, b, i)
<1> DEFINE s == SubSeq(line, (a + i + 1) + 1, Len(line))
           u == SubSeq(cut, (i + 1) + 1, Len(cut))
           l == Len(line)
<1>a. /\ line \in Seq(Rune) /\ a \in Nat /\ b \in Nat /\ a < b /\ b <= Len(line)
      /\ cut \in Seq(Rune) /\ Len(cut) = b - a /\ \A j \in 1..(b - a) : cut[j] = line[a + j]
  BY DEF CutOf
<1> USE <1>a
<1>0. \A r \in Seq(Rune) : r \in Seq(Nat)
  BY LayoutAssumption, SeqMonotonic
<1>1. l \in Nat
  OBVIOUS
<1>2. /\ (a + i + 1) + 1 \in Nat \ {0} /\ (a + i + 1) + 1 <= l + 1 /\ l <= Len(line)
      /\ (l + 1) - ((a + i + 1) + 1) = l - (a + i + 1)
      /\ ((a + i + 1) + 1) - 1 = a + i + 1
  BY <1>1
<1>3. /\ (i + 1) + 1 \in Nat \ {0} /\ (i + 1) + 1 <= (b - a) + 1 /\ b - a \in Nat
      /\ ((b - a) + 1) - ((i + 1) + 1) = (b - a) - (i + 1)
      /\ ((i + 1) + 1) - 1 = i + 1
  OBVIOUS
<1>4. /\ s \in Seq(Rune) /\ Len(s) = l - (a + i + 1)
      /\ \A j \in 1..(l - (a + i + 1)) : s[j] = line[(a + i + 1) + j]
  <2>1. /\ s \in Seq(Rune)
        /\ Len(s) = (l + 1) - ((a + i + 1) + 1)
        /\ \A j \in 1..((l + 1) - ((a + i + 1) + 1)) : s[j] = line[(((a + i + 1) + 1) - 1) + j]
    BY <1>1, <1>2, PartIs
  <2> HIDE DEF s, l
  <2> QED  BY <1>2, <2>1
<1>5. /\ u \in Seq(Rune) /\ Len(u) = (b - a) - (i + 1)
      /\ \A j \in 1..((b - a) - (i + 1)) : u[j] = cut[(i + 1) + j]
  <2> DEFINE c == b - a
  <2>1. c \in Nat /\ c <= Len(cut) /\ u = SubSeq(cut, (i + 1) + 1, c)
    BY <1>3
  <2> HIDE DEF u, c
  <2>2. /\ u \in Seq(Rune)
        /\ Len(u) = (c + 1) - ((i + 1) + 1)
        /\ \A j \in 1..((c + 1) - ((i + 1) + 1)) : u[j] = cut[(((i + 1) + 1) - 1) + j]
    BY <1>3, <2>1, PartIs DEF c
  <2> QED  BY <1>3, <2>2 DEF c
<1> HIDE DEF s, u
<1>6. \A j \in 1..((b - a) - (i + 1)) :
        u[j] = s[j] /\ j \in 1..(l - (a + i + 1))
  <2> TAKE j \in 1..((b - a) - (i + 1))
  <2>1. /\ (i + 1) + j \in 1..(b - a) /\ a + ((i + 1) + j) = (a + i + 1) + j
        /\ j \in 1..(l - (a + i + 1))
    BY <1>1
  <2>2. cut[(i + 1) + j] = line[(a + i + 1) + j]
    BY <2>1
  <2> QED  BY <1>4, <1>5, <2>1, <2>2
<1>7. Len(u) <= Len(s)
  BY <1>1, <1>4, <1>5
<1>8. s \in Seq(Nat) /\ u \in Seq(Nat)
  BY <1>0, <1>4, <1>5
<1>9. IsPrefix(u, s)
  BY <1>5, <1>6, <1>7, <1>8, PrefixIs
<1>10. b = Len(line) => u = s
  <2> SUFFICES ASSUME b = l PROVE u = s
    OBVIOUS
  <2>1. (b - a) - (i + 1) = l - (a + i + 1)
    BY <1>1
  <2> HIDE DEF l
  <2> QED  BY <1>4, <1>5, <1>6, <2>1, SeqEqual
<1>11. i + 1 \in 1..(b - a) /\ a + (i + 1) = a + i + 1
  OBVIOUS
<1>12. cut[i + 1] = line[a + i + 1]
  BY <1>11
<1> QED  BY <1>5, <1>8, <1>9, <1>10, <1>12 DEF s, u, RestIs

(* So they put the same there, unless the second one finds an emoji only   *)
(* because what follows is on the next line.                               *)
AtOneSpot(table, cut, line, a, b, i, e, k, g, m) ==
  /\ table \in Tables /\ CutOf(cut, line, a, b)
  /\ i \in Nat /\ a + i < b /\ e \in BOOLEAN /\ g \in BOOLEAN /\ m \in Nat
  /\ k \in Nat /\ a + i < k /\ k <= b
  /\ Takes(table, line, e, a + i, k) /\ Takes(table, cut, g, i, m)
LEMMA SameItem ==
  ASSUME NEW table, NEW cut, NEW line, NEW a, NEW b, NEW i, NEW e, NEW k, NEW g, NEW m,
         AtOneSpot(table, cut, line, a, b, i, e, k, g, m)
  PROVE  \/ e = g /\ k = a + m
         \/ g /\ ~e /\ b < Len(line)
<1> DEFINE c == line[a + i + 1]
           C == IF c \in DOMAIN table THEN table[c] ELSE {}
           s == SubSeq(line, (a + i + 1) + 1, Len(line))
           u == SubSeq(cut, (i + 1) + 1, Len(cut))
<1>0. \A r \in Seq(Rune) : r \in Seq(Nat)
  BY LayoutAssumption, SeqMonotonic
<1>a. /\ line \in Seq(Rune) /\ a \in Nat /\ b \in Nat /\ a < b /\ b <= Len(line)
      /\ table \in Tables /\ CutOf(cut, line, a, b)
      /\ i \in Nat /\ a + i < b /\ e \in BOOLEAN /\ g \in BOOLEAN /\ m \in Nat
      /\ k \in Nat /\ a + i < k /\ k <= b
      /\ Takes(table, line, e, a + i, k) /\ Takes(table, cut, g, i, m)
  BY DEF CutOf, AtOneSpot
<1> USE <1>a
<1>1. C \in SUBSET Seq(Nat) /\ IsFiniteSet(C)
  <2>1. C \in SUBSET Seq(Rune) /\ IsFiniteSet(C)
    BY LayoutAssumption, FS_EmptySet
  <2> HIDE DEF C
  <2> QED  BY <1>0, <2>1
<1>2. /\ s \in Seq(Nat) /\ u \in Seq(Nat) /\ IsPrefix(u, s)
      /\ Len(u) = (b - a) - (i + 1)
      /\ b = Len(line) => u = s
      /\ cut[i + 1] = c
  <2>1. RestIs(cut, line, a, b, i)
    BY RestOfCut
  <2> QED  BY <2>1, Zenon DEF RestIs
<1>3. Emojis(table, line, a + i + 1) = Probe(C, s) /\ Emojis(table, cut, i + 1) = Probe(C, u)
  BY <1>2 DEF Emojis
<1>4. Takes(table, line, e, a + i, k) <=>
        IF e THEN \E t \in Probe(C, s) : k = a + i + 1 + Len(t)
        ELSE Probe(C, s) = {} /\ k = a + i + 1
  BY <1>3 DEF Takes
<1>5. Takes(table, cut, g, i, m) <=>
        IF g THEN \E t \in Probe(C, u) : m = i + 1 + Len(t)
        ELSE Probe(C, u) = {} /\ m = i + 1
  BY <1>3 DEF Takes
<1> HIDE DEF C, s, u
<1>6. CASE e
  <2>1. PICK t \in Probe(C, s) : k = a + i + 1 + Len(t)
    BY <1>4, <1>6
  <2>2. t \in Seq(Nat) /\ Len(t) \in Nat
    <3>1. LongestOrNone(C, s)
      BY <1>1, <1>2, Probing
    <3> QED  BY <1>1, <3>1 DEF LongestOrNone
  <2>3. Len(t) <= Len(u)
    BY <1>2, <2>1, <2>2
  <2>4. Probe(C, u) # {} /\ \A v \in Probe(C, u) : Len(v) = Len(t)
    <3>1. SeesLess(C, s, u, t)
      BY <1>1, <1>2, <2>3 DEF SeesLess
    <3> QED  BY <3>1, SameEmoji
  <2>5. g
    BY <1>5, <2>4
  <2>6. PICK v \in Probe(C, u) : m = i + 1 + Len(v)
    BY <1>5, <2>5
  <2>7. Len(v) = Len(t)
    BY <2>4
  <2>8. k = a + m
    BY <2>1, <2>2, <2>6, <2>7
  <2> QED  BY <1>6, <2>5, <2>8
<1>7. CASE ~e
  <2>1. Probe(C, s) = {} /\ k = a + i + 1
    BY <1>4, <1>7
  <2>2. CASE g
    <3>1. Probe(C, u) # {}
      BY <1>5, <2>2
    <3>2. b # Len(line)
      BY <1>2, <2>1, <3>1
    <3>3. b < Len(line)
      BY <3>2
    <3> QED  BY <1>7, <2>2, <3>3, Zenon
  <2>3. CASE ~g
    <3>1. m = i + 1
      BY <1>5, <2>3
    <3> QED  BY <1>7, <2>1, <2>3, <3>1
  <2> QED  BY <2>2, <2>3
<1> QED  BY <1>6, <1>7

LEMMA SameStep ==
  ASSUME NEW table, NEW line, NEW a, NEW b, NEW p, NEW d, NEW x, NEW cut, NEW q, NEW f, NEW z,
         BothPasses(table, line, a, b, p, d, x, cut, q, f, z),
         NEW n \in Nat, SameSoFar(p, d, q, f, a, n), n + 1 <= Len(p)
  PROVE  \/ SameSoFar(p, d, q, f, a, n + 1)
         \/ /\ b < Len(line) /\ n + 1 \in 1..Len(p) /\ n + 1 \in 1..Len(q)
            /\ q[n + 1].x = p[n + 1].x /\ q[n + 1].emoji /\ ~p[n + 1].emoji
<1> DEFINE i == f[n + 1].from
           m == f[n + 1].to
           k == d[n + 1].to
           e == p[n + 1].emoji
           g == q[n + 1].emoji
<1>1. /\ n + 1 <= Len(q) /\ d[n + 1].from = a + i
      /\ p[n + 1].x = q[n + 1].x /\ i \in Nat /\ a + i < b
  BY NextSpots
<1>a. /\ a \in Nat /\ b \in Nat /\ p \in Seq(Item) /\ Passed(table, line, a, b, p, d, x)
      /\ table \in Tables /\ CutOf(cut, line, a, b)
      /\ q \in Seq(Item) /\ Passed(table, cut, 0, b - a, q, f, z)
  BY DEF BothPasses, CutOf
<1>2. n + 1 \in 1..Len(p) /\ n + 1 \in 1..Len(q) /\ Len(p) \in Nat /\ Len(q) \in Nat
  BY <1>1, <1>a
<1>3. p[n + 1] \in Item /\ q[n + 1] \in Item /\ d[n + 1] \in Spot /\ f[n + 1] \in Spot
  BY <1>2, <1>a DEF Passed
<1>4. e \in BOOLEAN /\ g \in BOOLEAN /\ k \in Nat /\ m \in Nat
  BY <1>3 DEF Item, Spot
<1>5. Sits(table, line, a, b, p, d, n + 1)
  BY <1>2, <1>a DEF Passed
<1>6. Sits(table, cut, 0, b - a, q, f, n + 1)
  BY <1>2, <1>a DEF Passed
<1>7. a + i < k /\ k <= b /\ Takes(table, line, e, a + i, k)
  BY <1>1, <1>5 DEF Sits
<1>8. Takes(table, cut, g, i, m)
  BY <1>6 DEF Sits
<1> HIDE DEF i, m, k, e, g
<1>9. (e = g /\ k = a + m) \/ (g /\ ~e /\ b < Len(line))
  <2>1. AtOneSpot(table, cut, line, a, b, i, e, k, g, m)
    BY <1>1, <1>4, <1>7, <1>8, <1>a DEF AtOneSpot
  <2> QED  BY <2>1, SameItem
<1>10. CASE e = g /\ k = a + m
  <2>1. q[n + 1] = p[n + 1]
    <3>1. p[n + 1].x = q[n + 1].x /\ p[n + 1].emoji = q[n + 1].emoji
      BY <1>1, <1>10 DEF e, g
    <3> QED  BY <1>3, <3>1 DEF Item
  <2>2. \A j \in 1..(n + 1) : j \in 1..n \/ j = n + 1
    OBVIOUS
  <2>3. \A j \in 1..(n + 1) :
          q[j] = p[j] /\ d[j].from = a + f[j].from /\ d[j].to = a + f[j].to
    BY <1>1, <1>10, <2>1, <2>2 DEF SameSoFar, i, k, m
  <2> QED  BY <1>1, <2>3 DEF SameSoFar
<1>11. CASE g /\ ~e /\ b < Len(line)
  BY <1>1, <1>2, <1>11 DEF e, g
<1> QED  BY <1>9, <1>10, <1>11

(* What the second pass draws is what the first one has planned, but for   *)
(* such an emoji and what follows it.                                      *)
LEMMA SamePass ==
  ASSUME NEW table, NEW line, NEW a, NEW b, NEW p, NEW d, NEW x, NEW cut, NEW q, NEW f, NEW z,
         BothPasses(table, line, a, b, p, d, x, cut, q, f, z)
  PROVE  \/ q = p
         \/ /\ b < Len(line)
            /\ \E n \in DOMAIN q \cap DOMAIN p :
                 /\ SubSeq(q, 1, n - 1) = SubSeq(p, 1, n - 1)
                 /\ q[n].x = p[n].x
                 /\ q[n].emoji /\ ~p[n].emoji
<1> DEFINE S == {n \in Nat : SameSoFar(p, d, q, f, a, n)}
<1>1. p \in Seq(Item) /\ q \in Seq(Item) /\ Len(p) \in Nat /\ Len(q) \in Nat
  BY DEF BothPasses
<1>2. 0 \in S
  BY <1>1 DEF SameSoFar
<1>3. PICK n \in S : n + 1 \notin S
  <2> SUFFICES ASSUME \A n \in S : n + 1 \in S PROVE FALSE
    OBVIOUS
  <2>1. S \in SUBSET Nat
    OBVIOUS
  <2>2. S = Nat
    <3> HIDE DEF S
    <3> QED  BY <1>2, <2>1, Upwards
  <2>3. Len(p) + 1 \in S
    BY <1>1, <2>2
  <2> QED  BY <1>1, <2>3 DEF SameSoFar
<1>4. /\ n \in Nat /\ n + 1 \in Nat /\ SameSoFar(p, d, q, f, a, n)
      /\ ~SameSoFar(p, d, q, f, a, n + 1)
  BY <1>3
<1>5. n + 1 <= Len(p) <=> n + 1 <= Len(q)
  BY <1>4, NextSpots
<1>6. n <= Len(p) /\ n <= Len(q) /\ \A j \in 1..n : q[j] = p[j]
  BY <1>4 DEF SameSoFar
<1> HIDE DEF S
<1>7. CASE ~(n + 1 <= Len(p))
  <2>1. Len(p) = n /\ Len(q) = n
    BY <1>1, <1>4, <1>5, <1>6, <1>7
  <2>2. q = p
    BY <1>1, <1>6, <2>1, SeqEqual
  <2> QED  BY <2>2
<1>8. CASE n + 1 <= Len(p)
  <2>1. /\ b < Len(line) /\ n + 1 \in 1..Len(p) /\ n + 1 \in 1..Len(q)
        /\ q[n + 1].x = p[n + 1].x /\ q[n + 1].emoji /\ ~p[n + 1].emoji
    BY <1>4, <1>8, SameStep
  <2>2. SubSeq(q, 1, n) = SubSeq(p, 1, n)
    <3>1. 1 \in Nat \ {0} /\ 1 <= n + 1 /\ (n + 1) - 1 = n /\ \A j \in 1..n : (1 - 1) + j = j
      BY <1>4
    <3>2. /\ SubSeq(q, 1, n) \in Seq(Item) /\ Len(SubSeq(q, 1, n)) = (n + 1) - 1
          /\ \A j \in 1..((n + 1) - 1) : SubSeq(q, 1, n)[j] = q[(1 - 1) + j]
      BY <1>1, <1>4, <1>6, <3>1, PartIs
    <3>3. /\ SubSeq(p, 1, n) \in Seq(Item) /\ Len(SubSeq(p, 1, n)) = (n + 1) - 1
          /\ \A j \in 1..((n + 1) - 1) : SubSeq(p, 1, n)[j] = p[(1 - 1) + j]
      BY <1>1, <1>4, <1>6, <3>1, PartIs
    <3> DEFINE u == SubSeq(q, 1, n)
               v == SubSeq(p, 1, n)
    <3>4. \A j \in 1..n : u[j] = v[j]
      BY <1>6, <3>1, <3>2, <3>3
    <3>5. u \in Seq(Item) /\ v \in Seq(Item) /\ Len(u) = n /\ Len(v) = n
      BY <3>1, <3>2, <3>3
    <3> HIDE DEF u, v
    <3>6. u = v
      BY <3>4, <3>5, SeqEqual
    <3> QED  BY <3>6 DEF u, v
  <2>3. (n + 1) - 1 = n
    BY <1>4
  <2>4. n + 1 \in DOMAIN q \cap DOMAIN p
    BY <1>1, <2>1
  <2>5. SubSeq(q, 1, (n + 1) - 1) = SubSeq(p, 1, (n + 1) - 1)
    BY <2>2, <2>3
  <2> QED  BY <2>1, <2>4, <2>5
<1> QED  BY <1>7, <1>8

(* The rune behind which a line of the text begins.                        *)
Begins(text, k) == Len(FlattenSeq(SubSeq(text, 1, k - 1)))

LEMMA CutThere ==
  ASSUME NEW line \in Seq(Rune), NEW a \in Nat, NEW b \in Nat, a < b, b <= Len(line)
  PROVE  CutOf(SubSeq(line, a + 1, b), line, a, b)
<1> DEFINE cut == SubSeq(line, a + 1, b)
<1>1. /\ a + 1 \in Nat \ {0} /\ a + 1 <= b + 1 /\ (b + 1) - (a + 1) = b - a
      /\ (a + 1) - 1 = a
  OBVIOUS
<1>2. /\ cut \in Seq(Rune) /\ Len(cut) = (b + 1) - (a + 1)
      /\ \A j \in 1..((b + 1) - (a + 1)) : cut[j] = line[((a + 1) - 1) + j]
  BY <1>1, PartIs
<1> HIDE DEF cut
<1>3. Len(cut) = b - a /\ \A j \in 1..(b - a) : cut[j] = line[a + j]
  BY <1>1, <1>2
<1> QED  BY <1>2, <1>3 DEF CutOf, cut

(* The runes of the lines before the next one.                             *)
LEMMA NextBegins ==
  ASSUME NEW text \in Seq(Seq(Rune)), NEW k \in 1..Len(text)
  PROVE  /\ Begins(text, k) \in Nat /\ Begins(text, k + 1) \in Nat
         /\ text[k] \in Seq(Rune) /\ Len(text[k]) \in Nat
         /\ Begins(text, k + 1) = Begins(text, k) + Len(text[k])
<1> DEFINE h == SubSeq(text, 1, k - 1)
           g == SubSeq(text, 1, k)
           l == text[k]
<1>1. /\ Len(text) \in Nat /\ k \in Nat /\ k - 1 \in Nat /\ (k - 1) + 1 = k /\ (k + 1) - 1 = k
      /\ 1 \in Nat \ {0} /\ 1 <= (k - 1) + 1 /\ k - 1 <= Len(text)
      /\ 1 <= k + 1 /\ k <= Len(text)
  OBVIOUS
<1>2. /\ h \in Seq(Seq(Rune)) /\ Len(h) = ((k - 1) + 1) - 1
      /\ \A j \in 1..(((k - 1) + 1) - 1) : h[j] = text[(1 - 1) + j]
  BY <1>1, PartIs
<1>3. /\ g \in Seq(Seq(Rune)) /\ Len(g) = (k + 1) - 1
      /\ \A j \in 1..((k + 1) - 1) : g[j] = text[(1 - 1) + j]
  BY <1>1, PartIs
<1>4. l \in Seq(Rune)
  OBVIOUS
<1> HIDE DEF h, g, l
<1>5. /\ Len(h) = k - 1 /\ \A j \in 1..(k - 1) : h[j] = text[j]
      /\ Len(g) = k /\ \A j \in 1..k : g[j] = text[j]
  <2>1. \A j \in Nat : (1 - 1) + j = j
    OBVIOUS
  <2> QED  BY <1>1, <1>2, <1>3, <2>1
<1>6. /\ Append(h, l) \in Seq(Seq(Rune)) /\ Len(Append(h, l)) = (k - 1) + 1
      /\ \A j \in 1..(k - 1) : Append(h, l)[j] = h[j]
      /\ Append(h, l)[(k - 1) + 1] = l
  BY <1>2, <1>4, <1>5, AppendProperties
<1>7. g = Append(h, l)
  <2>1. \A j \in 1..k : g[j] = Append(h, l)[j]
    <3> TAKE j \in 1..k
    <3>1. j \in 1..(k - 1) \/ j = k
      BY <1>1
    <3> QED  BY <1>1, <1>5, <1>6, <3>1 DEF l
  <2>2. Len(Append(h, l)) = k
    BY <1>1, <1>6
  <2> QED  BY <1>3, <1>5, <1>6, <2>1, <2>2, SeqEqual
<1>8. FlattenSeq(g) = FlattenSeq(h) \o l /\ FlattenSeq(h) \in Seq(Rune)
  BY <1>2, <1>4, <1>7, FlattenAppend, FlattenType
<1>9. Len(FlattenSeq(h) \o l) = Len(FlattenSeq(h)) + Len(l)
  BY <1>4, <1>8, ConcatProperties
<1>10. Begins(text, k) = Len(FlattenSeq(h)) /\ Begins(text, k + 1) = Len(FlattenSeq(g))
  BY <1>1 DEF Begins, h, g
<1>11. Len(FlattenSeq(h)) \in Nat /\ Len(l) \in Nat
  BY <1>4, <1>8
<1>12. Len(FlattenSeq(g)) = Len(FlattenSeq(h)) + Len(l)
  BY <1>8, <1>9
<1>13. Begins(text, k + 1) = Begins(text, k) + Len(l) /\ Begins(text, k) \in Nat
  BY <1>10, <1>11, <1>12
<1>14. Begins(text, k + 1) \in Nat
  BY <1>11, <1>13
<1> QED  BY <1>4, <1>11, <1>13, <1>14 DEF l

(* They get no fewer.                                                      *)
LEMMA BeginsUp ==
  ASSUME NEW text \in Seq(Seq(Rune)), NEW i \in 1..(Len(text) + 1), NEW k \in 1..(Len(text) + 1),
         i <= k
  PROVE  /\ Begins(text, i) \in Nat /\ Begins(text, k) \in Nat
         /\ Begins(text, i) <= Begins(text, k)
<1> DEFINE B(n) == Begins(text, n)
           S == {n \in Nat : i + n <= Len(text) + 1 => B(i + n) \in Nat /\ B(i) <= B(i + n)}
<1>1. Len(text) \in Nat
  OBVIOUS
<1>2. \A n \in 1..(Len(text) + 1) : B(n) \in Nat
  <2> TAKE n \in 1..(Len(text) + 1)
  <2>1. CASE n \in 1..Len(text)
    BY <2>1, NextBegins
  <2>2. CASE n = Len(text) + 1
    <3>1. CASE Len(text) = 0
      <4>1. text = <<>> /\ n - 1 = 0
        BY <2>2, <3>1, EmptySeq
      <4>2. SubSeq(text, 1, 0) = <<>>
        BY <4>1
      <4> QED  BY <4>1, <4>2, FlattenEmpty DEF Begins
    <3>2. CASE Len(text) # 0
      <4>1. Len(text) \in 1..Len(text)
        BY <1>1, <3>2
      <4> QED  BY <2>2, <4>1, NextBegins
    <3> QED  BY <3>1, <3>2
  <2>3. n \in 1..Len(text) \/ n = Len(text) + 1
    BY <1>1
  <2> HIDE DEF B
  <2> QED  BY <2>1, <2>2, <2>3
<1>3. 0 \in S
  <2>1. i + 0 = i /\ B(i) \in Nat
    BY <1>2
  <2> HIDE DEF B
  <2> QED  BY <2>1
<1>4. ASSUME NEW n \in S PROVE n + 1 \in S
  <2> SUFFICES ASSUME i + (n + 1) <= Len(text) + 1
               PROVE  B(i + (n + 1)) \in Nat /\ B(i) <= B(i + (n + 1))
    OBVIOUS
  <2>1. i + n \in 1..Len(text) /\ i + (n + 1) = (i + n) + 1 /\ i + n <= Len(text) + 1
    BY <1>1
  <2>2. B(i + n) \in Nat /\ B(i) <= B(i + n) /\ B(i) \in Nat
    BY <1>2, <2>1
  <2>3. /\ B((i + n) + 1) = B(i + n) + Len(text[i + n]) /\ Len(text[i + n]) \in Nat
        /\ B((i + n) + 1) \in Nat
    BY <2>1, NextBegins
  <2> HIDE DEF B
  <2>4. B(i) <= B((i + n) + 1)
    BY <2>2, <2>3
  <2> QED  BY <2>1, <2>3, <2>4
<1>5. S = Nat
  <2>1. S \in SUBSET Nat
    OBVIOUS
  <2> HIDE DEF S
  <2> QED  BY <1>3, <1>4, <2>1, Upwards
<1>6. k - i \in S /\ i + (k - i) = k
  <2>1. k - i \in Nat /\ i + (k - i) = k
    OBVIOUS
  <2> HIDE DEF S
  <2> QED  BY <1>5, <2>1
<1>7. i + (k - i) <= Len(text) + 1
  OBVIOUS
<1> QED  BY <1>2, <1>6, <1>7

(* What there is of the lines: each is a part of a line of the text, the   *)
(* first pass has planned it, and it ends with rune e of the text.         *)
Made(st, cut, p, e) ==
  \E k \in 1..Len(st.text), a \in Nat, b \in Nat : \E d, x :
    /\ CutOf(cut, st.text[k], a, b)
    /\ Passed(st.table, st.text[k], a, b, p, d, x)
    /\ e = Begins(st.text, k) + b
LinesMade ==
  \A y \in 1..Len(lines) :
    Made(setting, lines[y], plan[y], Len(FlattenSeq(SubSeq(lines, 1, y))))

(* While the text is broken, the current line is planned up to at.i.       *)
WrapHolds ==
  /\ Len(FlattenSeq(lines)) = Begins(setting.text, at.k) + at.prevI
  /\ Wrapping => \E d : Passed(setting.table, Line, at.prevI, at.i, plan[Len(plan)], d, pen)
  /\ ~Wrapping => pen = ContentLeft

(* Then the lines before row are drawn to the end, and row up to row.i.    *)
RowDrawn(table, line, i, p, x) == \E d : Passed(table, line, 0, i, p, d, x)
DrawHolds ==
  /\ Len(seen) = row.y /\ row.y <= Len(lines) + 1
  /\ \A y \in 1..(row.y - 1) : 
       \E x : RowDrawn(setting.table, lines[y], Len(lines[y]), seen[y], x)
  /\ row.y <= Len(lines) =>
       /\ row.i <= Len(lines[row.y])
       /\ RowDrawn(setting.table, lines[row.y], row.i, seen[row.y], pen)

GapsInv ==
  /\ Len(plan) = Len(lines) + 1
  /\ LinesMade
  /\ stage \in {"none", "wrap"} => row = Origin /\ seen = <<<<>>>>
  /\ stage = "wrap" => WrapHolds
  /\ stage \in {"draw", "shown"} => DrawHolds
  /\ stage = "shown" => row.y > Len(lines)

(* The lines stay, or there is one more.                                   *)
LEMMA LinesStay ==
  ASSUME LinesMade, UNCHANGED <<setting, lines>>, \A y \in 1..Len(lines) : plan'[y] = plan[y]
  PROVE  LinesMade'
  BY DEF LinesMade

LEMMA LinesGrow ==
  ASSUME LinesMade, setting' = setting, lines \in Seq(Seq(Rune)), NEW l \in Seq(Rune),
         lines' = Append(lines, l), \A y \in 1..Len(lines) : plan'[y] = plan[y],
         Made(setting, l, plan'[Len(lines) + 1], Len(FlattenSeq(lines')))
  PROVE  LinesMade'
<1> DEFINE n == Len(lines)
           z == Append(lines, l)
<1>1. /\ n \in Nat /\ z \in Seq(Seq(Rune)) /\ Len(z) = n + 1
      /\ \A y \in 1..n : z[y] = lines[y]
      /\ z[n + 1] = l
  BY AppendProperties
<1> HIDE DEF z
<1>2. ASSUME NEW y \in 1..n PROVE SubSeq(z, 1, y) = SubSeq(lines, 1, y)
  <2> DEFINE u == SubSeq(z, 1, y)
             v == SubSeq(lines, 1, y)
  <2>1. /\ 1 \in Nat \ {0} /\ y \in Nat /\ 1 <= y + 1 /\ y <= Len(z) /\ y <= Len(lines)
        /\ (y + 1) - 1 = y /\ \A j \in 1..y : (1 - 1) + j = j /\ j \in 1..n
    BY <1>1
  <2>2. /\ u \in Seq(Seq(Rune)) /\ Len(u) = (y + 1) - 1
        /\ \A j \in 1..((y + 1) - 1) : u[j] = z[(1 - 1) + j]
    BY <1>1, <2>1, PartIs
  <2>3. /\ v \in Seq(Seq(Rune)) /\ Len(v) = (y + 1) - 1
        /\ \A j \in 1..((y + 1) - 1) : v[j] = lines[(1 - 1) + j]
    BY <1>1, <2>1, PartIs
  <2> HIDE DEF u, v
  <2>4. Len(u) = y /\ Len(v) = y /\ \A j \in 1..y : u[j] = v[j]
    BY <1>1, <2>1, <2>2, <2>3
  <2>5. u = v
    BY <2>2, <2>3, <2>4, SeqEqual
  <2> QED  BY <2>5 DEF u, v
<1>3. SubSeq(z, 1, n + 1) = z
  BY <1>1, SubSeqFull
<1>4. ASSUME NEW y \in 1..(n + 1)
      PROVE  Made(setting, z[y], plan'[y], Len(FlattenSeq(SubSeq(z, 1, y))))
  <2>1. CASE y \in 1..n
    <3>1. Made(setting, lines[y], plan[y], Len(FlattenSeq(SubSeq(lines, 1, y))))
      BY <2>1 DEF LinesMade
    <3>2. z[y] = lines[y] /\ plan'[y] = plan[y] /\ SubSeq(z, 1, y) = SubSeq(lines, 1, y)
      BY <1>1, <1>2, <2>1
    <3> QED  BY <3>1, <3>2
  <2>2. CASE y = n + 1
    <3>1. lines' = z
      BY DEF z
    <3> QED  BY <1>1, <1>3, <2>2, <3>1
  <2> QED  BY <1>1, <2>1, <2>2
<1>5. lines' = z /\ Len(lines') = n + 1
  BY <1>1 DEF z
<1> HIDE DEF n
<1> QED  BY <1>4, <1>5 DEF LinesMade

(* A line of the text up to i becomes a line.                              *)
LEMMA CutMade ==
  ASSUME LayoutInv, Wrapping, WrapHolds, NEW b \in Nat, at.prevI < b, b <= Len(Line),
         NEW p, NEW d, NEW x, Passed(setting.table, Line, at.prevI, b, p, d, x),
         lines' = Append(lines, SubSeq(Line, at.prevI + 1, b))
  PROVE  /\ SubSeq(Line, at.prevI + 1, b) \in Seq(Rune)
         /\ Len(FlattenSeq(lines')) = Begins(setting.text, at.k) + b
         /\ Made(setting, SubSeq(Line, at.prevI + 1, b), p, Len(FlattenSeq(lines')))
<1> DEFINE cut == SubSeq(Line, at.prevI + 1, b)
           a == at.prevI
           F == FlattenSeq(lines)
<1>1. /\ at.k \in 1..Len(setting.text) /\ Line \in Seq(Rune) /\ a \in Nat
      /\ setting.text \in Seq(Seq(Rune)) /\ lines \in Seq(Seq(Rune)) /\ Line = setting.text[at.k]
  <2>1. stage = "wrap"
    BY DEF Wrapping
  <2>2. /\ at.k \in 1..Len(setting.text) /\ Line \in Seq(Rune) /\ at.prevI \in 0..at.i
        /\ at.i \in Nat /\ setting.text \in Seq(Seq(Rune)) /\ lines \in Seq(Seq(Rune))
    BY <2>1, WrapShape
  <2>3. Line = setting.text[at.k] /\ at.prevI \in Nat
    BY <2>2 DEF Line
  <2> QED  BY <2>2, <2>3
<1>2. CutOf(cut, Line, a, b)
  BY <1>1, CutThere
<1>3. cut \in Seq(Rune) /\ Len(cut) = b - a
  BY <1>2 DEF CutOf
<1>4. F \in Seq(Rune) /\ Len(F) = Begins(setting.text, at.k) + a
  BY <1>1, FlattenType DEF WrapHolds
<1>5. Begins(setting.text, at.k) \in Nat
  BY <1>1, NextBegins
<1> HIDE DEF cut, a, F
<1>6. FlattenSeq(lines') = F \o cut
  BY <1>1, <1>3, FlattenAppend DEF F, cut, a
<1>7. Len(F \o cut) = Len(F) + Len(cut)
  BY <1>3, <1>4, ConcatProperties
<1>8. Len(FlattenSeq(lines')) = Begins(setting.text, at.k) + b
  <2>1. Len(FlattenSeq(lines')) = Len(F) + Len(cut)
    BY <1>6, <1>7
  <2> DEFINE B == Begins(setting.text, at.k)
  <2>2. B \in Nat /\ Len(F) = B + a /\ Len(cut) = b - a /\ a \in Nat
    BY <1>1, <1>3, <1>4, <1>5
  <2> HIDE DEF B
  <2>3. Len(FlattenSeq(lines')) = B + b
    BY <2>1, <2>2
  <2> QED  BY <2>3 DEF B
<1>9. Made(setting, cut, p, Len(FlattenSeq(lines')))
  <2>1. Passed(setting.table, Line, a, b, p, d, x)
    BY DEF a
  <2> QED  BY <1>1, <1>2, <1>8, <2>1 DEF Made
<1> QED  BY <1>3, <1>8, <1>9 DEF cut, a

LEMMA InitGaps == LayoutInit => GapsInv
<1> SUFFICES ASSUME LayoutInit PROVE GapsInv
  OBVIOUS
<1>1. stage = "none" /\ lines = <<>> /\ plan = <<<<>>>> /\ row = Origin /\ seen = <<<<>>>>
  BY DEF LayoutInit
<1>2. Len(lines) = 0 /\ Len(plan) = 1
  BY <1>1
<1> QED  BY <1>1, <1>2 DEF GapsInv, LinesMade

LEMMA StartGaps == ASSUME LayoutInv, LayoutInv', GapsInv, Start PROVE GapsInv'
<1>1. /\ stage = "none" /\ stage' = "wrap"
      /\ UNCHANGED <<at, pen, lines, plan, row, seen>>
  BY DEF Start
<1>2. /\ at = Top /\ pen = ContentLeft /\ lines = <<>> /\ plan = <<<<>>>>
      /\ row = Origin /\ seen = <<<<>>>>
  BY <1>1 DEF LayoutInv, GapsInv
<1>3. at'.k = 1 /\ at'.i = 0 /\ at'.prevI = 0 /\ Len(lines') = 0 /\ Len(plan') = 1 /\ plan'[1] = <<>>
  BY <1>1, <1>2 DEF Top
<1>4. setting'.text \in Seq(Seq(Rune))
  <2>1. setting' \in [table : Tables, text : Texts, w : WidthsOf]
    BY DEF Start
  <2> QED  BY <2>1, LayoutAssumption
<1>5. Begins(setting'.text, 1) = 0
  <2>1. SubSeq(setting'.text, 1, 0) = <<>> /\ 1 - 1 = 0
    BY <1>4
  <2>2. Len(FlattenSeq(<<>>)) = 0
    BY FlattenEmpty
  <2> QED  BY <2>1, <2>2, Zenon DEF Begins
<1>6. Len(FlattenSeq(lines')) = 0
  BY <1>1, <1>2, FlattenEmpty
<1>7. Passed(setting'.table, Line', 0, 0, <<>>, <<>>, ContentLeft)
  BY PassBegins
<1>8. WrapHolds'
  <2>1. \E d : Passed(setting'.table, Line', at'.prevI, at'.i, plan'[Len(plan')], d, pen')
    <3>1. pen' = ContentLeft
      BY <1>1, <1>2
    <3>2. Passed(setting'.table, Line', at'.prevI, at'.i, plan'[Len(plan')], <<>>, pen')
      BY <1>3, <1>7, <3>1
    <3> QED  BY <3>2
  <2>2. Len(FlattenSeq(lines')) = Begins(setting'.text, at'.k) + at'.prevI
    BY <1>3, <1>5, <1>6
  <2>3. pen' = ContentLeft
    BY <1>1, <1>2
  <2> QED  BY <2>1, <2>2, <2>3 DEF WrapHolds
<1>9. LinesMade'
  BY <1>3 DEF LinesMade
<1>10. stage' = "wrap" /\ row' = Origin /\ seen' = <<<<>>>> /\ Len(plan') = Len(lines') + 1
  BY <1>1, <1>2, <1>3
<1> QED  BY <1>8, <1>9, <1>10 DEF GapsInv

LEMMA SkipGaps == ASSUME LayoutInv, GapsInv, SkipNoDraw PROVE GapsInv'
<1>1. /\ Wrapping /\ at.i < Len(Line) /\ NextRune \in NoDraw
      /\ at' = [at EXCEPT !.i = @ + 1]
      /\ UNCHANGED <<stage, setting, pen, lines, plan, row, seen>>
  BY DEF SkipNoDraw
<1>2. stage = "wrap" /\ stage' = "wrap"
  BY <1>1 DEF Wrapping
<1>3. /\ at = [k |-> at.k, i |-> at.i, prevI |-> at.prevI]
      /\ at.i \in Nat /\ at.prevI \in 0..at.i /\ plan \in Seq(Seq(Item)) /\ plan # <<>>
  BY <1>2, WrapShape DEF LayoutInv
<1>4. at'.k = at.k /\ at'.i = at.i + 1 /\ at'.prevI = at.prevI
  <2>1. at' = [k |-> at.k, i |-> at.i + 1, prevI |-> at.prevI]
    BY <1>1, <1>3
  <2> QED  BY <2>1
<1>5. Line' = Line /\ Wrapping'
  BY <1>1, <1>4 DEF Line, Wrapping
<1>6. WrapHolds
  BY <1>2 DEF GapsInv
<1>7. PICK d : Passed(setting.table, Line, at.prevI, at.i, plan[Len(plan)], d, pen)
  BY <1>1, <1>6 DEF WrapHolds
<1>8. Passed(setting.table, Line, at.prevI, at.i + 1, plan[Len(plan)], d, pen)
  <2>1. plan[Len(plan)] \in Seq(Item)
    BY <1>3, EmptySeq
  <2>2. Line[at.i + 1] \in NoDraw /\ at.prevI \in Nat
    BY <1>1, <1>3 DEF NextRune
  <2> QED  BY <1>3, <1>7, <2>1, <2>2, PassSkips
<1>9. WrapHolds'
  BY <1>1, <1>4, <1>5, <1>6, <1>8 DEF WrapHolds
<1>10. LinesMade'
  BY <1>1, LinesStay DEF GapsInv
<1> QED  BY <1>1, <1>2, <1>9, <1>10 DEF GapsInv

LEMMA PutGaps ==
  ASSUME LayoutInv, GapsInv, Wrapping, at.i < Len(Line), NextRune \notin NoDraw,
         NEW e \in BOOLEAN, NEW i \in Nat, at.i < i, i <= Len(Line),
         Takes(setting.table, Line, e, at.i, i), NEW adv, adv = ItemWidth(Line, at.i, e),
         PutItem(e, i, adv), UNCHANGED <<stage, setting, row, seen>>
  PROVE  GapsInv'
<1> DEFINE n == Len(plan)
           it == [emoji |-> e, x |-> pen]
           q == Append(plan[n], it)
           put == [plan EXCEPT ![Len(plan)] = Append(@, [emoji |-> e, x |-> pen])]
           cut == SubSeq(Line, at.prevI + 1, i)
<1>1. stage = "wrap" /\ stage' = "wrap"
  BY DEF Wrapping
<1>2. /\ at = [k |-> at.k, i |-> at.i, prevI |-> at.prevI] /\ Line \in Seq(Rune)
      /\ at.i \in Nat /\ at.prevI \in 0..at.i /\ plan \in Seq(Seq(Item)) /\ plan # <<>>
      /\ pen \in Nat /\ lines \in Seq(Seq(Rune)) /\ at.k \in 1..Len(setting.text)
  BY <1>1, WrapShape DEF LayoutInv
<1>3. n \in Nat \ {0} /\ n \in 1..n /\ n = Len(lines) + 1 /\ Len(lines) \in Nat
  BY <1>2, EmptySeq DEF GapsInv
<1>4. plan[n] \in Seq(Item) /\ it \in Item
  BY <1>2, <1>3 DEF Item
<1>5. WrapHolds
  BY <1>1 DEF GapsInv
<1>6. PICK d : Passed(setting.table, Line, at.prevI, at.i, plan[n], d, pen)
  BY <1>5 DEF WrapHolds
<1> DEFINE f == Append(d, [from |-> at.i, to |-> i])
<1>7. Passed(setting.table, Line, at.prevI, i, q, f, pen + adv)
  <2>1. Line[at.i + 1] \notin NoDraw /\ at.prevI \in Nat
    BY <1>2 DEF NextRune
  <2> QED  BY <1>2, <1>4, <1>6, <2>1, PassPuts
<1>8. /\ q \in Seq(Item) /\ put = [plan EXCEPT ![n] = q]
  BY <1>4, AppendProperties
<1> HIDE DEF q, f, put, it
<1>9. /\ put \in Seq(Seq(Item)) /\ Len(put) = n
      /\ \A y \in 1..n : put[y] = IF y = n THEN q ELSE plan[y]
  <2> HIDE DEF n
  <2>1. /\ [plan EXCEPT ![n] = q] \in Seq(Seq(Item))
        /\ Len([plan EXCEPT ![n] = q]) = Len(plan)
        /\ \A y \in 1..Len(plan) : [plan EXCEPT ![n] = q][y] = IF y = n THEN q ELSE plan[y]
    <3>1. n \in 1..Len(plan) => q \in Seq(Item)
      BY <1>8
    <3>2. plan \in Seq(Seq(Item))
      BY <1>2
    <3> DEFINE P == plan
    <3>3. P \in Seq(Seq(Item))
      BY <3>2
    <3> HIDE DEF P
    <3>4. /\ [P EXCEPT ![n] = q] \in Seq(Seq(Item))
          /\ Len([P EXCEPT ![n] = q]) = Len(P)
          /\ \A y \in 1..Len(P) : [P EXCEPT ![n] = q][y] = IF y = n THEN q ELSE P[y]
      <4>1. n \in 1..Len(P) => q \in Seq(Item)
        BY <3>1 DEF P
      <4> QED  BY <3>3, <4>1, ReplaceOne
    <3> QED  BY <3>4 DEF P
  <2> QED  BY <1>8, <2>1, Zenon DEF n
<1>10. IF Full(pen + adv)
       THEN /\ lines' = Append(lines, cut)
            /\ plan' = Append(put, <<>>)
            /\ pen' = ContentLeft
            /\ at' = [at EXCEPT !.i = i, !.prevI = i]
       ELSE /\ plan' = put
            /\ pen' = pen + adv
            /\ at' = [at EXCEPT !.i = i]
            /\ lines' = lines
  BY DEF PutItem, GoOnAt, put
<1> HIDE DEF n
<1>11. CASE ~Full(pen + adv)
  <2>1. /\ plan' = put /\ pen' = pen + adv /\ lines' = lines
        /\ at' = [k |-> at.k, i |-> i, prevI |-> at.prevI]
    BY <1>2, <1>10, <1>11
  <2>2. at'.k = at.k /\ at'.i = i /\ at'.prevI = at.prevI
    BY <2>1
  <2>3. Line' = Line /\ Wrapping'
    BY <2>2 DEF Line, Wrapping
  <2>4. Len(plan') = n /\ plan'[n] = q
    BY <1>3, <1>9, <2>1
  <2>5. \E g : Passed(setting.table, Line, at.prevI, i, plan'[Len(plan')], g, pen + adv)
    BY <1>7, <2>4
  <2>6. WrapHolds'
    BY <1>5, <2>1, <2>2, <2>3, <2>5 DEF WrapHolds
  <2>7. \A y \in 1..Len(lines) : plan'[y] = plan[y]
    <3>1. \A y \in 1..Len(lines) : y \in 1..n /\ y # n
      BY <1>3
    <3> QED  BY <1>9, <2>1, <3>1
  <2>8. LinesMade'
    BY <2>1, <2>7, LinesStay DEF GapsInv
  <2>9. Len(plan') = Len(lines') + 1
    BY <1>3, <2>1, <2>4
  <2> QED  BY <1>1, <2>6, <2>8, <2>9 DEF GapsInv
<1>12. CASE Full(pen + adv)
  <2>1. /\ plan' = Append(put, <<>>) /\ pen' = ContentLeft /\ lines' = Append(lines, cut)
        /\ at' = [k |-> at.k, i |-> i, prevI |-> i]
    BY <1>2, <1>10, <1>12
  <2>2. at'.k = at.k /\ at'.i = i /\ at'.prevI = i
    BY <2>1
  <2>3. Line' = Line /\ Wrapping'
    BY <2>2 DEF Line, Wrapping
  <2>4. /\ Len(plan') = n + 1 /\ plan'[n + 1] = <<>>
        /\ \A y \in 1..n : plan'[y] = put[y]
    BY <1>3, <1>9, <2>1, AppendProperties
  <2>5. /\ cut \in Seq(Rune)
        /\ Len(FlattenSeq(lines')) = Begins(setting.text, at.k) + i
        /\ Made(setting, cut, q, Len(FlattenSeq(lines')))
    <3>1. at.prevI < i
      BY <1>2
    <3> QED  BY <1>5, <1>7, <2>1, <3>1, CutMade
  <2> HIDE DEF cut
  <2>6. WrapHolds'
    <3>1. Passed(setting.table, Line, i, i, <<>>, <<>>, ContentLeft)
      BY PassBegins
    <3>2. Passed(setting'.table, Line', at'.prevI, at'.i, plan'[Len(plan')], <<>>, pen')
      BY <2>1, <2>2, <2>3, <2>4, <3>1
    <3>3. Len(FlattenSeq(lines')) = Begins(setting'.text, at'.k) + at'.prevI
      BY <2>2, <2>5
    <3> QED  BY <2>3, <3>2, <3>3 DEF WrapHolds
  <2>7. \A y \in 1..Len(lines) : plan'[y] = plan[y]
    <3>1. \A y \in 1..Len(lines) : y \in 1..n /\ y # n
      BY <1>3
    <3> QED  BY <1>9, <2>4, <3>1
  <2>8. LinesMade'
    <3>1. plan'[Len(lines) + 1] = q
      BY <1>3, <1>9, <2>4
    <3> QED  BY <1>2, <2>1, <2>5, <2>7, <3>1, LinesGrow DEF GapsInv
  <2>9. Len(plan') = Len(lines') + 1
    BY <1>2, <1>3, <2>1, <2>4, <2>5, AppendProperties
  <2> QED  BY <1>1, <2>6, <2>8, <2>9 DEF GapsInv
<1> QED  BY <1>11, <1>12

LEMMA PlaceGaps == ASSUME LayoutInv, GapsInv, PlaceEmoji \/ PlaceGlyph PROVE GapsInv'
<1>1. Wrapping /\ at.i < Len(Line) /\ NextRune \notin NoDraw
      /\ UNCHANGED <<stage, setting, row, seen>>
  BY DEF PlaceEmoji, PlaceGlyph
<1>2. /\ at.i + 1 \in 1..Len(Line) /\ Len(Line) \in Nat /\ Line \in Seq(Rune)
      /\ setting.table \in Tables /\ at.i \in Nat
  BY <1>1, NextRuneIs DEF LayoutInv, LayoutTypeOK
<1>3. EmojiAt(Line, at.i + 1) = Emojis(setting.table, Line, at.i + 1)
  BY DEF EmojiAt, Emojis, Cands
<1>4. CASE PlaceEmoji
  <2>1. PICK t \in EmojiAt(Line, at.i + 1) :
          PutItem(TRUE, at.i + 1 + Len(t), EmojiAdvance)
    BY <1>4 DEF PlaceEmoji
  <2>2. Len(t) \in Nat /\ at.i + 1 + Len(t) <= Len(Line)
    BY <1>2, EmojiFits
  <2>3. at.i + 1 + Len(t) \in Nat /\ at.i < at.i + 1 + Len(t)
    BY <1>2, <2>2
  <2>4. Takes(setting.table, Line, TRUE, at.i, at.i + 1 + Len(t))
    BY <1>3 DEF Takes
  <2>5. EmojiAdvance = ItemWidth(Line, at.i, TRUE)
    BY DEF ItemWidth
  <2> QED  BY <1>1, <2>1, <2>2, <2>3, <2>4, <2>5, PutGaps
<1>5. CASE PlaceGlyph
  <2>1. EmojiAt(Line, at.i + 1) = {} /\ PutItem(FALSE, at.i + 1, GlyphWidth[NextRune])
    BY <1>5 DEF PlaceGlyph
  <2>2. at.i + 1 \in Nat /\ at.i < at.i + 1 /\ at.i + 1 <= Len(Line)
    BY <1>2
  <2>3. Takes(setting.table, Line, FALSE, at.i, at.i + 1)
    BY <1>3, <2>1 DEF Takes
  <2>4. GlyphWidth[NextRune] = ItemWidth(Line, at.i, FALSE)
    BY DEF ItemWidth, NextRune
  <2> QED  BY <1>1, <2>1, <2>2, <2>3, <2>4, PutGaps
<1> QED  BY <1>4, <1>5

LEMMA EndGaps == ASSUME LayoutInv, LayoutInv', GapsInv, EndLine PROVE GapsInv'
<1> DEFINE T == setting.text
           k2 == at.k + 1
           n == Len(plan)
<1>1. /\ Wrapping /\ at.i >= Len(Line) /\ UNCHANGED <<stage, setting, row, seen>>
      /\ \/ RestOf # <<>> /\ lines' = Append(lines, RestOf) /\ plan' = Append(plan, <<>>)
         \/ RestOf = <<>> /\ lines' = lines /\ plan' = plan
      /\ pen' = ContentLeft /\ at' = [k |-> k2, i |-> 0, prevI |-> 0]
  BY DEF EndLine
<1>2. stage = "wrap" /\ stage' = "wrap"
  BY <1>1 DEF Wrapping
<1>3. /\ Line \in Seq(Rune) /\ Len(Line) \in Nat /\ T \in Seq(Seq(Rune))
      /\ at.i \in Nat /\ at.prevI \in 0..at.i /\ plan \in Seq(Seq(Item)) /\ plan # <<>>
      /\ lines \in Seq(Seq(Rune)) /\ at.k \in 1..Len(T) /\ at.i <= Len(Line)
  BY <1>1, <1>2, WrapShape
<1>4. at.i = Len(Line) /\ at.prevI \in Nat /\ at.prevI <= Len(Line)
  BY <1>1, <1>3
<1>5. WrapHolds
  BY <1>2 DEF GapsInv
<1>6. PICK d : Passed(setting.table, Line, at.prevI, Len(Line), plan[n], d, pen)
  BY <1>1, <1>4, <1>5 DEF WrapHolds
<1>7. n \in 1..n /\ n = Len(lines) + 1 /\ Len(lines) \in Nat /\ plan[n] \in Seq(Item)
  BY <1>3, EmptySeq DEF GapsInv
<1>8. /\ Begins(T, k2) = Begins(T, at.k) + Len(Line) /\ Begins(T, at.k) \in Nat
      /\ at'.k = k2 /\ at'.i = 0 /\ at'.prevI = 0
  BY <1>1, <1>3, NextBegins DEF Line
<1>9. /\ LinesMade' /\ Len(plan') = Len(lines') + 1 /\ plan'[Len(plan')] = <<>>
      /\ Len(FlattenSeq(lines')) = Begins(T, at.k) + Len(Line)
  <2>1. CASE RestOf # <<>>
    <3>1. lines' = Append(lines, RestOf) /\ plan' = Append(plan, <<>>)
      BY <1>1, <2>1
    <3>2. at.prevI < Len(Line)
      <4> SUFFICES ASSUME at.prevI = Len(Line) PROVE FALSE
        BY <1>3, <1>4
      <4>1. at.prevI + 1 \in Nat \ {0} /\ at.prevI + 1 = Len(Line) + 1
        BY <1>3
      <4> QED  BY <1>3, <2>1, <4>1, PartNone DEF RestOf
    <3>3. /\ RestOf \in Seq(Rune)
          /\ Len(FlattenSeq(lines')) = Begins(T, at.k) + Len(Line)
          /\ Made(setting, RestOf, plan[n], Len(FlattenSeq(lines')))
      <4>1. lines' = Append(lines, SubSeq(Line, at.prevI + 1, Len(Line)))
        BY <3>1 DEF RestOf
      <4>2. Len(Line) <= Len(Line)
        BY <1>3
      <4> QED  BY <1>1, <1>3, <1>5, <1>6, <3>2, <4>1, <4>2, CutMade DEF RestOf
    <3>4. /\ Len(plan') = n + 1 /\ plan'[n + 1] = <<>>
          /\ \A y \in 1..n : plan'[y] = plan[y]
      BY <1>3, <3>1, AppendProperties
    <3> HIDE DEF n
    <3>5. plan'[Len(lines) + 1] = plan[n] /\ \A y \in 1..Len(lines) : plan'[y] = plan[y]
      BY <1>7, <3>4
    <3>6. LinesMade'
      BY <1>1, <1>3, <3>1, <3>3, <3>5, LinesGrow DEF GapsInv
    <3>7. Len(lines') = Len(lines) + 1
      BY <1>3, <3>1, <3>3, AppendProperties
    <3> QED  BY <1>7, <3>3, <3>4, <3>6, <3>7
  <2>2. CASE RestOf = <<>>
    <3>1. lines' = lines /\ plan' = plan
      BY <1>1, <2>2
    <3>2. at.prevI = Len(Line)
      <4>1. /\ at.prevI + 1 \in Nat \ {0} /\ at.prevI + 1 <= Len(Line) + 1
            /\ Len(Line) <= Len(Line)
        BY <1>3, <1>4, SMTT(30)
      <4>2. Len(RestOf) = (Len(Line) + 1) - (at.prevI + 1)
        BY <1>3, <4>1, PartIs, SMTT(30) DEF RestOf
      <4>3. Len(RestOf) = 0
        BY <2>2
      <4> DEFINE l == Len(Line)
                 a == at.prevI
      <4>4. (l + 1) - (a + 1) = 0 /\ l \in Nat /\ a \in Nat
        BY <1>3, <1>4, <4>2, <4>3
      <4> HIDE DEF l, a
      <4>5. a = l
        BY <4>4
      <4> QED  BY <4>5 DEF a, l
    <3>3. plan[n] = <<>>
      BY <1>3, <1>6, <1>7, <3>2, PassedNothing
    <3>4. LinesMade'
      BY <1>1, <3>1, LinesStay DEF GapsInv
    <3>5. Len(FlattenSeq(lines')) = Begins(T, at.k) + Len(Line)
      BY <1>5, <3>1, <3>2 DEF WrapHolds
    <3> QED  BY <1>7, <3>1, <3>3, <3>4, <3>5
  <2> QED  BY <2>1, <2>2
<1>10. WrapHolds'
  <2>1. Passed(setting'.table, Line', 0, 0, <<>>, <<>>, ContentLeft)
    BY PassBegins
  <2>2. Passed(setting'.table, Line', at'.prevI, at'.i, plan'[Len(plan')], <<>>, pen')
    BY <1>1, <1>8, <1>9, <2>1
  <2>3. Len(FlattenSeq(lines')) = Begins(setting'.text, at'.k) + at'.prevI
    <3>1. Begins(setting'.text, at'.k) = Begins(T, k2)
      BY <1>1, <1>8
    <3>2. Len(FlattenSeq(lines')) \in Nat
      BY <1>3, <1>8, <1>9
    <3> HIDE DEF k2, T
    <3> QED  BY <1>8, <1>9, <3>1, <3>2
  <2>4. pen' = ContentLeft
    BY <1>1
  <2> QED  BY <2>2, <2>3, <2>4 DEF WrapHolds
<1> QED  BY <1>1, <1>2, <1>9, <1>10 DEF GapsInv

LEMMA DrawBegins == ASSUME LayoutInv, GapsInv, AllBroken PROVE GapsInv'
<1>1. /\ stage = "wrap" /\ stage' = "draw" /\ at.k > Len(setting.text)
      /\ UNCHANGED <<setting, at, pen, lines, plan, row, seen>>
  BY DEF AllBroken
<1>2. /\ row = Origin /\ seen = <<<<>>>> /\ WrapHolds /\ LinesMade
      /\ Len(plan) = Len(lines) + 1
  BY <1>1 DEF GapsInv
<1>3. /\ lines \in Seq(Seq(Rune)) /\ Len(lines) \in Nat /\ at.k \in Nat
      /\ Len(setting.text) \in Nat
  BY <1>1, WrapShape, SMTT(30)
<1>4. ~Wrapping
  BY <1>1, <1>3 DEF Wrapping
<1>5. pen = ContentLeft
  BY <1>2, <1>4 DEF WrapHolds
<1>6. Passed(setting.table, lines[1], 0, 0, <<>>, <<>>, ContentLeft)
  BY PassBegins
<1>7. row.y = 1 /\ row.i = 0 /\ Len(seen) = 1 /\ seen[1] = <<>>
  BY <1>2 DEF Origin
<1>8. DrawHolds'
  <2>1. row'.y = 1 /\ row'.i = 0 /\ Len(seen') = 1 /\ seen'[1] = <<>> /\ lines' = lines
    BY <1>1, <1>7
  <2>2. RowDrawn(setting'.table, lines'[1], 0, seen'[1], pen')
    BY <1>1, <1>5, <1>6, <1>7 DEF RowDrawn
  <2>3. 1 <= Len(lines) => 0 <= Len(lines[1])
    <3> SUFFICES ASSUME 1 <= Len(lines) PROVE Len(lines[1]) \in Nat
      OBVIOUS
    <3>1. 1 \in 1..Len(lines)
      BY <1>3
    <3> QED  BY <1>3, <3>1
  <2>4. 1 <= Len(lines) + 1 /\ 1..(1 - 1) = {}
    BY <1>3
  <2> QED  BY <2>1, <2>2, <2>3, <2>4 DEF DrawHolds
<1>9. LinesMade'
  BY <1>1, <1>2, LinesStay
<1> QED  BY <1>1, <1>2, <1>8, <1>9 DEF GapsInv

(* What the drawing leaves alone.                                          *)
LEMMA DrawingIs ==
  ASSUME LayoutInv, GapsInv, stage = "draw"
  PROVE  /\ setting.table \in Tables /\ lines \in Seq(Seq(Rune)) /\ Len(lines) \in Nat
         /\ seen \in Seq(Seq(Item)) /\ row = [y |-> row.y, i |-> row.i]
         /\ row.y \in Nat \ {0} /\ row.i \in Nat /\ pen \in Nat
         /\ DrawHolds /\ row.y \in 1..Len(seen) /\ seen[row.y] \in Seq(Item)
<1>1. /\ setting.table \in Tables /\ lines \in Seq(Seq(Rune)) /\ Len(lines) \in Nat
      /\ seen \in Seq(Seq(Item)) /\ row = [y |-> row.y, i |-> row.i]
      /\ row.y \in Nat \ {0} /\ row.i \in Nat /\ pen \in Nat
  BY DEF LayoutInv, LayoutTypeOK
<1>2. DrawHolds /\ Len(seen) = row.y
  BY DEF GapsInv, DrawHolds
<1>3. row.y \in 1..Len(seen)
  BY <1>1, <1>2
<1> QED  BY <1>1, <1>2, <1>3

LEMMA LinesRemain ==
  ASSUME GapsInv, stage = "draw", UNCHANGED <<stage, setting, lines, plan>>, DrawHolds'
  PROVE  GapsInv'
<1>1. LinesMade'
  BY LinesStay DEF GapsInv
<1> QED  BY <1>1 DEF GapsInv

LEMMA SkipDrawnGaps == ASSUME LayoutInv, GapsInv, SkipDrawing PROVE GapsInv'
<1>1. /\ stage = "draw" /\ row.y <= Len(lines) /\ row.i < Len(lines[row.y])
      /\ NextDrawn \in NoDraw /\ row' = [row EXCEPT !.i = @ + 1]
      /\ UNCHANGED <<stage, setting, at, pen, lines, plan, seen>>
  BY DEF SkipDrawing, Drawing
<1>2. /\ row = [y |-> row.y, i |-> row.i] /\ row.i \in Nat /\ row.y \in Nat \ {0}
      /\ DrawHolds /\ seen[row.y] \in Seq(Item) /\ Len(lines) \in Nat
      /\ lines \in Seq(Seq(Rune))
  BY <1>1, DrawingIs
<1>3. row'.y = row.y /\ row'.i = row.i + 1
  <2>1. row' = [y |-> row.y, i |-> row.i + 1]
    BY <1>1, <1>2
  <2> QED  BY <2>1
<1>4. PICK d : Passed(setting.table, lines[row.y], 0, row.i, seen[row.y], d, pen)
  BY <1>1, <1>2 DEF DrawHolds, RowDrawn
<1>5. Passed(setting.table, lines[row.y], 0, row.i + 1, seen[row.y], d, pen)
  <2>1. lines[row.y][row.i + 1] \in NoDraw
    BY <1>1 DEF NextDrawn
  <2> QED  BY <1>2, <1>4, <2>1, PassSkips
<1>6. DrawHolds'
  <2>1. RowDrawn(setting'.table, lines'[row.y], row.i + 1, seen'[row.y], pen')
    BY <1>1, <1>3, <1>5 DEF RowDrawn
  <2>2. row.i + 1 <= Len(lines[row.y])
    <3>1. row.y \in 1..Len(lines)
      BY <1>1, <1>2
    <3>2. Len(lines[row.y]) \in Nat
      BY <1>2, <3>1
    <3> QED  BY <1>1, <1>2, <3>2
  <2>3. \A y \in 1..(row.y - 1) :
          \E x : RowDrawn(setting'.table, lines'[y], Len(lines'[y]), seen'[y], x)
    BY <1>1, <1>2 DEF DrawHolds
  <2>4. Len(seen) = row.y /\ row.y <= Len(lines) + 1
    BY <1>2 DEF DrawHolds
  <2> QED  BY <1>1, <1>3, <2>1, <2>2, <2>3, <2>4 DEF DrawHolds
<1> QED  BY <1>1, <1>6, LinesRemain

LEMMA DrawGaps ==
  ASSUME LayoutInv, GapsInv, Drawing, row.i < Len(lines[row.y]), NextDrawn \notin NoDraw,
         NEW e \in BOOLEAN, NEW i \in Nat, row.i < i, i <= Len(lines[row.y]),
         Takes(setting.table, lines[row.y], e, row.i, i),
         NEW adv, adv = ItemWidth(lines[row.y], row.i, e), DrawItem(e, i, adv)
  PROVE  GapsInv'
<1> DEFINE r == row.y
           it == [emoji |-> e, x |-> pen]
           q == Append(seen[r], it)
<1>1. /\ stage = "draw" /\ r <= Len(lines)
      /\ seen' = [seen EXCEPT ![r] = q] /\ pen' = pen + adv /\ row' = [row EXCEPT !.i = i]
      /\ UNCHANGED <<stage, setting, at, lines, plan>>
  BY DEF DrawItem, Drawing
<1>2. /\ row = [y |-> row.y, i |-> row.i] /\ row.i \in Nat /\ r \in Nat \ {0} /\ pen \in Nat
      /\ DrawHolds /\ seen[r] \in Seq(Item) /\ seen \in Seq(Seq(Item)) /\ r \in 1..Len(seen)
  BY <1>1, DrawingIs
<1>3. row'.y = r /\ row'.i = i
  <2>1. row' = [y |-> row.y, i |-> i]
    BY <1>1, <1>2
  <2> QED  BY <2>1
<1>4. PICK d : Passed(setting.table, lines[r], 0, row.i, seen[r], d, pen)
  BY <1>1, <1>2 DEF DrawHolds, RowDrawn
<1> DEFINE f == Append(d, [from |-> row.i, to |-> i])
<1>5. Passed(setting.table, lines[r], 0, i, q, f, pen + adv)
  <2>1. lines[r][row.i + 1] \notin NoDraw
    BY DEF NextDrawn
  <2> QED  BY <1>2, <1>4, <2>1, PassPuts
<1>6. q \in Seq(Item)
  <2>1. it \in Item
    BY <1>2 DEF Item
  <2> HIDE DEF it
  <2> QED  BY <1>2, <2>1, AppendProperties
<1> HIDE DEF r, it, q, f
<1>7. Len(seen') = Len(seen) /\ \A y \in 1..Len(seen) : seen'[y] = IF y = r THEN q ELSE seen[y]
  <2> DEFINE P == seen
  <2>1. P \in Seq(Seq(Item))
    BY <1>2
  <2> HIDE DEF P
  <2>2. /\ Len([P EXCEPT ![r] = q]) = Len(P)
        /\ \A y \in 1..Len(P) : [P EXCEPT ![r] = q][y] = IF y = r THEN q ELSE P[y]
    <3>1. r \in 1..Len(P) => q \in Seq(Item)
      BY <1>6
    <3> QED  BY <2>1, <3>1, ReplaceOne
  <2> QED  BY <1>1, <2>2 DEF P
<1>8. DrawHolds'
  <2>1. RowDrawn(setting'.table, lines'[r], i, seen'[r], pen')
    <3>1. seen'[r] = q
      BY <1>2, <1>7
    <3> QED  BY <1>1, <1>5, <3>1 DEF RowDrawn
  <2>2. \A y \in 1..(r - 1) :
          \E x : RowDrawn(setting'.table, lines'[y], Len(lines'[y]), seen'[y], x)
    <3> TAKE y \in 1..(r - 1)
    <3>1. y \in 1..Len(seen) /\ y # r
      BY <1>2
    <3>2. seen'[y] = seen[y]
      BY <1>7, <3>1
    <3>3. PICK x : RowDrawn(setting.table, lines[y], Len(lines[y]), seen[y], x)
      BY <1>2 DEF DrawHolds, r
    <3> QED  BY <1>1, <3>2, <3>3
  <2>3. Len(seen) = r /\ r <= Len(lines) + 1
    BY <1>2 DEF DrawHolds, r
  <2>4. i <= Len(lines[r])
    BY DEF r
  <2> QED  BY <1>1, <1>3, <1>7, <2>1, <2>2, <2>3, <2>4 DEF DrawHolds
<1> QED  BY <1>1, <1>8, LinesRemain

LEMMA DrawnGaps == ASSUME LayoutInv, GapsInv, OmitEmoji \/ DrawGlyph PROVE GapsInv'
<1> DEFINE l == lines[row.y]
<1>1. Drawing /\ row.i < Len(l) /\ NextDrawn \notin NoDraw
  BY DEF OmitEmoji, DrawGlyph
<1>2. stage = "draw" /\ row.y <= Len(lines)
  BY <1>1 DEF Drawing
<1>3. /\ setting.table \in Tables /\ row.i \in Nat /\ row.y \in Nat \ {0}
      /\ lines \in Seq(Seq(Rune)) /\ Len(lines) \in Nat
  BY <1>2, DrawingIs
<1>4. l \in Seq(Rune) /\ Len(l) \in Nat
  <2>1. row.y \in 1..Len(lines)
    BY <1>2, <1>3
  <2> QED  BY <1>3, <2>1
<1>5. row.i + 1 \in 1..Len(l) /\ row.i + 1 \in Nat /\ row.i < row.i + 1 /\ row.i + 1 <= Len(l)
  BY <1>1, <1>3, <1>4
<1>6. EmojiAt(l, row.i + 1) = Emojis(setting.table, l, row.i + 1)
  BY DEF EmojiAt, Emojis, Cands
<1>7. CASE OmitEmoji
  <2>1. PICK t \in EmojiAt(l, row.i + 1) : DrawItem(TRUE, row.i + 1 + Len(t), EmojiAdvance)
    BY <1>7 DEF OmitEmoji
  <2>2. Len(t) \in Nat /\ row.i + 1 + Len(t) <= Len(l)
    BY <1>3, <1>4, <1>5, EmojiFits
  <2>3. row.i + 1 + Len(t) \in Nat /\ row.i < row.i + 1 + Len(t)
    BY <1>3, <2>2
  <2>4. Takes(setting.table, l, TRUE, row.i, row.i + 1 + Len(t))
    BY <1>6 DEF Takes
  <2>5. EmojiAdvance = ItemWidth(l, row.i, TRUE)
    BY DEF ItemWidth
  <2> QED  BY <1>1, <2>1, <2>2, <2>3, <2>4, <2>5, DrawGaps
<1>8. CASE DrawGlyph
  <2>1. EmojiAt(l, row.i + 1) = {} /\ DrawItem(FALSE, row.i + 1, GlyphWidth[NextDrawn])
    BY <1>8 DEF DrawGlyph
  <2>2. Takes(setting.table, l, FALSE, row.i, row.i + 1)
    BY <1>6, <2>1 DEF Takes
  <2>3. GlyphWidth[NextDrawn] = ItemWidth(l, row.i, FALSE)
    BY DEF ItemWidth, NextDrawn
  <2> QED  BY <1>1, <1>5, <2>1, <2>2, <2>3, DrawGaps
<1> QED  BY <1>7, <1>8

LEMMA RowGaps == ASSUME LayoutInv, GapsInv, NextRow PROVE GapsInv'
<1>1. /\ stage = "draw" /\ row.y <= Len(lines) /\ row.i >= Len(lines[row.y])
      /\ row' = [y |-> row.y + 1, i |-> 0] /\ seen' = Append(seen, <<>>)
      /\ pen' = ContentLeft /\ UNCHANGED <<stage, setting, at, lines, plan>>
  BY DEF NextRow, Drawing
<1>2. /\ row.y \in Nat \ {0} /\ row.i \in Nat /\ DrawHolds /\ seen \in Seq(Seq(Item))
      /\ lines \in Seq(Seq(Rune)) /\ Len(lines) \in Nat
  BY <1>1, DrawingIs
<1>3. row'.y = row.y + 1 /\ row'.i = 0
  BY <1>1
<1>4. Len(seen) = row.y /\ row.i <= Len(lines[row.y])
      /\ RowDrawn(setting.table, lines[row.y], row.i, seen[row.y], pen)
  BY <1>1, <1>2 DEF DrawHolds
<1>5. /\ Len(seen') = row.y + 1 /\ seen'[row.y + 1] = <<>>
      /\ \A y \in 1..row.y : seen'[y] = seen[y]
  BY <1>1, <1>2, <1>4, AppendProperties
<1>6. row.i = Len(lines[row.y])
  <2>1. row.y \in 1..Len(lines)
    BY <1>1, <1>2
  <2>2. Len(lines[row.y]) \in Nat
    BY <1>2, <2>1
  <2> QED  BY <1>1, <1>2, <1>4, <2>2
<1>7. ASSUME NEW y \in 1..row.y
      PROVE  \E x : RowDrawn(setting'.table, lines'[y], Len(lines'[y]), seen'[y], x)
  <2>1. PICK x : RowDrawn(setting.table, lines[y], Len(lines[y]), seen[y], x)
    <3>1. y = row.y \/ y \in 1..(row.y - 1)
      BY <1>2
    <3> QED  BY <1>2, <1>4, <1>6, <3>1 DEF DrawHolds
  <2> QED  BY <1>1, <1>5, <2>1
<1>8. RowDrawn(setting'.table, lines'[row.y + 1], 0, seen'[row.y + 1], pen')
  <2>1. Passed(setting.table, lines[row.y + 1], 0, 0, <<>>, <<>>, ContentLeft)
    BY PassBegins
  <2> QED  BY <1>1, <1>5, <2>1 DEF RowDrawn
<1>9. row.y + 1 <= Len(lines) => 0 <= Len(lines[row.y + 1])
  <2> SUFFICES ASSUME row.y + 1 <= Len(lines) PROVE Len(lines[row.y + 1]) \in Nat
    OBVIOUS
  <2>1. row.y + 1 \in 1..Len(lines)
    BY <1>2
  <2> QED  BY <1>2, <2>1
<1>10. DrawHolds'
  <2>1. (row.y + 1) - 1 = row.y /\ row.y + 1 <= Len(lines) + 1
    BY <1>1, <1>2
  <2> QED  BY <1>1, <1>3, <1>5, <1>7, <1>8, <1>9, <2>1 DEF DrawHolds
<1> QED  BY <1>1, <1>10, LinesRemain

LEMMA NextGaps ==
  LayoutInv /\ LayoutInv' /\ GapsInv /\ [LayoutNext]_layoutVars => GapsInv'
<1> SUFFICES ASSUME LayoutInv, LayoutInv', GapsInv, [LayoutNext]_layoutVars PROVE GapsInv'
  OBVIOUS
<1>1. CASE Shown
  <2>1. /\ stage = "draw" /\ stage' = "shown" /\ row.y > Len(lines)
        /\ UNCHANGED <<setting, at, pen, lines, plan, row, seen>>
    BY <1>1 DEF Shown
  <2>2. LinesMade' /\ Len(plan) = Len(lines) + 1
    BY <2>1, LinesStay DEF GapsInv
  <2>3. DrawHolds'
    BY <2>1 DEF GapsInv, DrawHolds, RowDrawn
  <2> QED  BY <2>1, <2>2, <2>3 DEF GapsInv
<1>2. CASE NextMessage
  <2>1. /\ stage' = "none" /\ lines' = <<>> /\ plan' = <<<<>>>>
        /\ row' = Origin /\ seen' = <<<<>>>>
    BY <1>2 DEF NextMessage
  <2>2. Len(lines') = 0 /\ Len(plan') = 1
    BY <2>1
  <2>3. LinesMade'
    BY <2>2 DEF LinesMade
  <2> QED  BY <2>1, <2>2, <2>3 DEF GapsInv
<1>3. CASE UNCHANGED layoutVars
  <2>1. UNCHANGED <<stage, setting, at, pen, lines, plan, row, seen>>
    BY <1>3 DEF layoutVars
  <2>2. LinesMade'
    BY <2>1, LinesStay DEF GapsInv
  <2>3. WrapHolds => WrapHolds'
    BY <2>1 DEF WrapHolds, Wrapping, Line
  <2>4. DrawHolds => DrawHolds'
    BY <2>1 DEF DrawHolds, RowDrawn
  <2> QED  BY <2>1, <2>2, <2>3, <2>4 DEF GapsInv
<1> QED
  BY <1>1, <1>2, <1>3, StartGaps, SkipGaps, PlaceGaps, EndGaps, DrawBegins, SkipDrawnGaps,
     DrawnGaps, RowGaps
     DEF LayoutNext

(* A line that does not go to the end of its text's line is one that was   *)
(* ended for want of room.                                                 *)
LEMMA WasBroken ==
  ASSUME setting.text \in Seq(Seq(Rune)), NEW y,
         NEW k \in 1..Len(setting.text), NEW b \in Nat, 0 < b, b < Len(setting.text[k]),
         Len(FlattenSeq(SubSeq(lines, 1, y))) = Begins(setting.text, k) + b
  PROVE  Broken(y)
<1> DEFINE text == setting.text
           e == Begins(text, k) + b
<1>1. /\ Begins(text, k) \in Nat /\ Begins(text, k + 1) = Begins(text, k) + Len(text[k])
      /\ Len(text) \in Nat /\ Len(text[k]) \in Nat /\ Begins(text, k + 1) \in Nat
  BY NextBegins, SMTT(30)
<1>2. ASSUME NEW j \in 0..Len(text) PROVE Ends[j] # e
  <2>1. Ends[j] = Begins(text, j + 1)
    <3>1. (j + 1) - 1 = j
      BY <1>1
    <3> QED  BY <3>1 DEF Ends, Begins
  <2>2. j + 1 \in 1..(Len(text) + 1) /\ k \in 1..(Len(text) + 1) /\ k + 1 \in 1..(Len(text) + 1)
        /\ (j + 1 <= k \/ k + 1 <= j + 1)
    <3>1. Len(text) \in Nat /\ j \in 0..Len(text) /\ k \in 1..Len(text)
      BY <1>1
    <3> HIDE DEF text
    <3>2. j \in Int /\ k \in Int /\ 0 <= j /\ j <= Len(text) /\ 1 <= k /\ k <= Len(text)
      BY <3>1
    <3> QED  BY <3>1, <3>2
  <2>3. CASE j + 1 <= k
    <3>1. Begins(text, j + 1) <= Begins(text, k) /\ Begins(text, j + 1) \in Nat
      BY <2>2, <2>3, BeginsUp
    <3> QED  BY <1>1, <2>1, <3>1
  <2>4. CASE k + 1 <= j + 1
    <3>1. Begins(text, k + 1) <= Begins(text, j + 1) /\ Begins(text, j + 1) \in Nat
      BY <2>2, <2>4, BeginsUp
    <3>2. b \in Nat /\ Len(text[k]) \in Nat /\ b < Len(text[k])
      BY <1>1
    <3>3. e < Begins(text, k + 1) /\ e \in Nat
      <4> DEFINE u == Begins(text, k)
                 l == Len(text[k])
      <4>1. e = u + b /\ Begins(text, k + 1) = u + l /\ u \in Nat /\ l \in Nat /\ b \in Nat /\ b < l
        BY <1>1, <3>2
      <4> HIDE DEF e, u, l
      <4> QED  BY <4>1
    <3> HIDE DEF e
    <3> QED  BY <1>1, <2>1, <3>1, <3>3
  <2> QED  BY <2>2, <2>3, <2>4
<1>3. DOMAIN Ends = 0..Len(text)
  BY DEF Ends
<1> QED  BY <1>2, <1>3 DEF Broken

(* The emojis lie on the gaps, whatever the text, the emojis, the font and *)
(* the width: only on a broken line may the second pass leave a gap where  *)
(* the first one has planned a glyph (channel.go:446, draw.go:143).        *)
THEOREM GapsCorrect == LayoutSpec => []GapsAsPlanned
<1>1. LayoutInv /\ GapsInv => GapsAsPlanned
  <2> SUFFICES ASSUME LayoutInv, GapsInv, stage = "shown", NEW y \in DOMAIN lines
               PROVE  \/ seen[y] = plan[y]
                      \/ /\ Broken(y)
                         /\ \E n \in DOMAIN seen[y] \cap DOMAIN plan[y] :
                              /\ SubSeq(seen[y], 1, n - 1) = SubSeq(plan[y], 1, n - 1)
                              /\ seen[y][n].x = plan[y][n].x
                              /\ seen[y][n].emoji /\ ~plan[y][n].emoji
    BY DEF GapsAsPlanned
  <2>1. /\ setting \in [table : Tables, text : Texts, w : WidthsOf]
        /\ lines \in Seq(Seq(Rune)) /\ plan \in Seq(Seq(Item)) /\ seen \in Seq(Seq(Item))
        /\ row.y \in Nat
    BY DEF LayoutInv, LayoutTypeOK
  <2>2. setting.table \in Tables /\ setting.text \in Seq(Seq(Rune))
    BY <2>1, LayoutAssumption
  <2>3. /\ Len(plan) = Len(lines) + 1 /\ LinesMade /\ DrawHolds /\ row.y > Len(lines)
    BY DEF GapsInv
  <2>4. Len(lines) \in Nat /\ y \in 1..Len(lines) /\ lines[y] \in Seq(Rune)
    BY <2>1
  <2>5. Len(seen) = row.y /\ y \in 1..(row.y - 1) /\ y \in 1..Len(seen) /\ y \in 1..Len(plan)
    <3>1. Len(seen) = row.y
      BY <2>3 DEF DrawHolds
    <3>2. y \in 1..(row.y - 1) /\ y \in 1..row.y /\ y \in 1..(Len(lines) + 1)
      BY <2>1, <2>3, <2>4
    <3> QED  BY <2>3, <3>1, <3>2
  <2>6. seen[y] \in Seq(Item) /\ plan[y] \in Seq(Item)
    BY <2>1, <2>5
  <2>7. PICK z, f : Passed(setting.table, lines[y], 0, Len(lines[y]), seen[y], f, z)
    BY <2>3, <2>5 DEF DrawHolds, RowDrawn
  <2>8. PICK k \in 1..Len(setting.text), a \in Nat, b \in Nat : \E d, x :
          /\ CutOf(lines[y], setting.text[k], a, b)
          /\ Passed(setting.table, setting.text[k], a, b, plan[y], d, x)
          /\ Len(FlattenSeq(SubSeq(lines, 1, y))) = Begins(setting.text, k) + b
    BY <2>3, <2>4 DEF LinesMade, Made
  <2>9. PICK d, x :
          /\ CutOf(lines[y], setting.text[k], a, b)
          /\ Passed(setting.table, setting.text[k], a, b, plan[y], d, x)
          /\ Len(FlattenSeq(SubSeq(lines, 1, y))) = Begins(setting.text, k) + b
    BY <2>8
  <2>10. Len(lines[y]) = b - a /\ a < b
    BY <2>9 DEF CutOf
  <2>11. BothPasses(setting.table, setting.text[k], a, b, plan[y], d, x,
                    lines[y], seen[y], f, z)
    BY <2>2, <2>6, <2>7, <2>9, <2>10 DEF BothPasses
  <2>12. \/ seen[y] = plan[y]
         \/ /\ b < Len(setting.text[k])
            /\ \E n \in DOMAIN seen[y] \cap DOMAIN plan[y] :
                 /\ SubSeq(seen[y], 1, n - 1) = SubSeq(plan[y], 1, n - 1)
                 /\ seen[y][n].x = plan[y][n].x
                 /\ seen[y][n].emoji /\ ~plan[y][n].emoji
    BY <2>11, SamePass
  <2>13. b < Len(setting.text[k]) => Broken(y)
    <3>1. 0 < b
      BY <2>9, <2>10
    <3> QED  BY <2>2, <2>9, <3>1, WasBroken
  <2> QED  BY <2>12, <2>13
<1> QED  BY <1>1, LayoutInvariance, InitGaps, NextGaps, PTL DEF LayoutSpec

-------------------------------------------------------------------------------
(* The types of Links.  A Refresh has rendered no more pictures than there *)
(* are widths, and all of them when it publishes them.                     *)
MadeCounted ==
  \A f \in Refresher :
    /\ pc[f] = "idle" => Len(made[f]) = 0
    /\ pc[f] \in {"copy", "draw"} => Len(made[f]) < Widths
    /\ pc[f] = "publish" => Len(made[f]) = Widths

LinksInv == TypeOK /\ MadeCounted

LEMMA LinksSizes ==
  /\ Widths \in Nat \ {0} /\ Fits \in Seq(Nat \ {0})
  /\ MaxTags \in Nat /\ MaxLinks \in Nat /\ MaxPosts \in Nat
  /\ Refresher \cap Reader = {}
<1>1. Widths \in Nat
  BY LinksAssumption DEF Widths
<1> QED  BY <1>1, LinksAssumption

LEMMA FirstOfIs ==
  ASSUME NEW T, NEW s \in Seq(T), NEW n \in Nat
  PROVE  FirstOf(s, n) \in Seq(T) /\ Len(FirstOf(s, n)) <= n
<1> DEFINE k == IF Len(s) <= n THEN Len(s) ELSE n
<1>1. Len(s) \in Nat
  OBVIOUS
<1>2. k \in Nat /\ 1 <= k + 1 /\ k <= Len(s) /\ k <= n /\ (k + 1) - 1 = k /\ 1 \in Nat \ {0}
  BY <1>1
<1>3. FirstOf(s, n) = SubSeq(s, 1, k)
  BY DEF FirstOf
<1> HIDE DEF k
<1>4. SubSeq(s, 1, k) \in Seq(T) /\ Len(SubSeq(s, 1, k)) = (k + 1) - 1
  BY <1>2, PartIs
<1>5. Len(SubSeq(s, 1, k)) = k
  BY <1>2, <1>4, Zenon
<1> QED  BY <1>2, <1>3, <1>4, <1>5

(* The tags of a picture are links of its messages, and not too many.      *)
LEMMA NumberedIs ==
  ASSUME TypeOK, NEW n \in 0..Len(data), NEW w \in 1..Widths
  PROVE  Numbered(n, w) \in Seq(Link) /\ Len(Numbered(n, w)) <= MaxTags
<1> DEFINE ms == OnPicture(n, w)
           ll == [i \in DOMAIN ms |-> LinksOf(ms[i])]
<1>1. /\ data \in Seq(0..MaxLinks) /\ Len(data) \in Nat /\ Len(data) <= MaxPosts
      /\ MaxLinks \in Nat /\ MaxPosts \in Nat /\ MaxTags \in Nat /\ Widths \in Nat
  BY LinksSizes DEF TypeOK
<1>2. Fits[w] \in Nat
  <2>1. w \in 1..Len(Fits)
    BY DEF Widths
  <2> QED  BY <2>1, LinksSizes
<1>3. PICK k \in Nat : k <= n /\ ms = [i \in 1..k |-> n + 1 - i]
  <2>1. CASE n <= Fits[w]
    <3>1. ms = [i \in 1..n |-> n + 1 - i]
      BY <2>1 DEF OnPicture
    <3> QED  BY <1>1, <3>1
  <2>2. CASE ~(n <= Fits[w])
    <3>1. ms = [i \in 1..Fits[w] |-> n + 1 - i] /\ Fits[w] <= n
      BY <1>1, <1>2, <2>2 DEF OnPicture
    <3> QED  BY <1>2, <3>1
  <2> QED  BY <2>1, <2>2
<1> HIDE DEF ms
<1>4. \A m \in 1..Len(data) : LinksOf(m) \in Seq(Link)
  <2> TAKE m \in 1..Len(data)
  <2>1. data[m] \in 0..MaxLinks
    BY <1>1
  <2>2. \A j \in 1..data[m] : <<m, j>> \in Link
    BY <1>1, <2>1 DEF Link
  <2>3. PICK d \in Nat : d = data[m]
    BY <1>1, <2>1
  <2>4. [j \in 1..d |-> <<m, j>>] \in [1..d -> Link]
    BY <2>2, <2>3
  <2>5. [j \in 1..d |-> <<m, j>>] \in Seq(Link)
    BY <2>3, <2>4, SeqDef
  <2> QED  BY <2>3, <2>5 DEF LinksOf
<1>5. ll \in Seq(Seq(Link))
  <2>1. \A i \in 1..k : ms[i] \in 1..Len(data)
    BY <1>1, <1>3
  <2>2. DOMAIN ms = 1..k
    BY <1>3
  <2>3. ll \in [1..k -> Seq(Link)]
    BY <1>4, <2>1, <2>2
  <2> QED  BY <1>3, <2>3, SeqDef
<1>6. Numbered(n, w) = FirstOf(FlattenSeq(ll), MaxTags)
  BY DEF Numbered, ms
<1> HIDE DEF ll
<1>7. FlattenSeq(ll) \in Seq(Link)
  BY <1>5, FlattenType
<1> QED  BY <1>1, <1>6, <1>7, FirstOfIs

LEMMA OpenIs ==
  ASSUME NEW l \in Seq(Link), NEW n \in Nat
  PROVE  Open(l, n) \in Link \cup {Missing}
<1>1. CASE n < Len(l)
  <2>1. n + 1 \in 1..Len(l)
    BY <1>1
  <2> QED  BY <1>1, <2>1 DEF Open
<1>2. CASE ~(n < Len(l))
  BY <1>2 DEF Open
<1> QED  BY <1>1, <1>2

LEMMA InitLinks == Init => LinksInv
<1> SUFFICES ASSUME Init PROVE LinksInv
  OBVIOUS
<1>1. <<>> \in Seq(0..MaxLinks) /\ <<>> \in Seq(Link) /\ Len(<<>>) = 0 /\ <<>> \in Seq(0..0)
  BY EmptySeq
<1>2. TypeOK
  BY <1>1, LinksSizes DEF Init, TypeOK
<1>3. MadeCounted
  BY <1>1, LinksSizes DEF Init, MadeCounted
<1> QED  BY <1>2, <1>3 DEF LinksInv

LEMMA RefresherMoves ==
  ASSUME LinksInv, NEW f \in Refresher, Begin(f) \/ Renders(f)
  PROVE  LinksInv'
<1> USE DEF LinksInv
<1>0. f \notin Reader
  BY LinksSizes
<1>1. CASE Begin(f)
  <2>1. pc' = [pc EXCEPT ![f] = "copy"] /\ pc[f] = "idle"
        /\ UNCHANGED <<data, links, snap, made, shown, tag, copy, answer, moments>>
    BY <1>1 DEF Begin, Goto, refreshVars, readVars
  <2>2. TypeOK'
    BY <2>1 DEF TypeOK
  <2>3. MadeCounted'
    BY <2>1, LinksSizes DEF MadeCounted, TypeOK
  <2> QED  BY <2>2, <2>3
<1>2. CASE Copy(f)
  <2>1. /\ pc[f] = "copy" /\ snap' = [snap EXCEPT ![f] = Len(data)]
        /\ pc' = [pc EXCEPT ![f] = "draw"]
        /\ UNCHANGED <<data, links, made, shown, tag, copy, answer, moments>>
    BY <1>2 DEF Copy, Goto, readVars
  <2>2. Len(data) \in 0..Len(data)
    BY DEF TypeOK
  <2>3. TypeOK'
    BY <2>1, <2>2 DEF TypeOK
  <2>4. MadeCounted'
    BY <2>1 DEF MadeCounted, TypeOK
  <2> QED  BY <2>3, <2>4
<1>3. CASE Draw(f)
  <2> DEFINE l == Numbered(snap[f], Len(made[f]) + 1)
  <2>1. /\ pc[f] = "draw" /\ made' = [made EXCEPT ![f] = Append(@, snap[f])]
        /\ links' = l
        /\ moments' = [c \in Reader |-> IF Asking(c)
                                        THEN moments[c] \cup {Open(links', tag[c])}
                                        ELSE moments[c]]
        /\ pc' = [pc EXCEPT ![f] = IF Len(made[f]) + 1 < Widths THEN "copy" ELSE "publish"]
        /\ UNCHANGED <<data, snap, shown, tag, copy, answer>>
    BY <1>3 DEF Draw, Goto, readVars
  <2>2. /\ made[f] \in Seq(0..Len(data)) /\ snap[f] \in 0..Len(data) /\ Len(made[f]) \in Nat
        /\ Len(made[f]) < Widths /\ Widths \in Nat
    BY <2>1, LinksSizes DEF TypeOK, MadeCounted
  <2>3. l \in Seq(Link) /\ Len(l) <= MaxTags
    <3>1. Len(made[f]) + 1 \in 1..Widths
      BY <2>2
    <3> QED  BY <2>2, <3>1, NumberedIs
  <2> HIDE DEF l
  <2>4. /\ Append(made[f], snap[f]) \in Seq(0..Len(data))
        /\ Len(Append(made[f], snap[f])) = Len(made[f]) + 1
    BY <2>2, AppendProperties
  <2>5. made' \in [Refresher -> Seq(0..Len(data))]
    BY <2>1, <2>4 DEF TypeOK
  <2>6. moments' \in [Reader -> SUBSET (Link \cup {Missing})]
    <3>1. \A c \in Reader : Open(l, tag[c]) \in Link \cup {Missing}
      BY <2>3, OpenIs, LinksSizes DEF TypeOK
    <3>2. \A c \in Reader : moments[c] \in SUBSET (Link \cup {Missing})
      BY DEF TypeOK
    <3> QED  BY <2>1, <3>1, <3>2
  <2>7. TypeOK'
    <3>1. pc' \in [Refresher \cup Reader -> {"idle", "copy", "draw", "publish",
                                             "check", "index", "done"}]
      BY <2>1 DEF TypeOK
    <3> QED  BY <2>1, <2>3, <2>5, <2>6, <3>1 DEF TypeOK
  <2>8. MadeCounted'
    <3> SUFFICES ASSUME NEW g \in Refresher
                 PROVE  /\ pc'[g] = "idle" => Len(made'[g]) = 0
                        /\ pc'[g] \in {"copy", "draw"} => Len(made'[g]) < Widths
                        /\ pc'[g] = "publish" => Len(made'[g]) = Widths
      BY DEF MadeCounted, Widths
    <3>1. CASE g = f
      <4>1. made'[g] = Append(made[f], snap[f])
        BY <2>1, <3>1 DEF TypeOK
      <4>2. pc'[g] = IF Len(made[f]) + 1 < Widths THEN "copy" ELSE "publish"
        BY <2>1, <3>1 DEF TypeOK
      <4>3. Len(made'[g]) = Len(made[f]) + 1
        BY <2>4, <4>1
      <4> QED  BY <2>2, <4>2, <4>3
    <3>2. CASE g # f
      <4>1. made'[g] = made[g] /\ pc'[g] = pc[g]
        BY <2>1, <3>2 DEF TypeOK
      <4> QED  BY <4>1 DEF MadeCounted
    <3> QED  BY <3>1, <3>2
  <2> QED  BY <2>7, <2>8
<1>4. CASE Publish(f)
  <2>1. /\ pc[f] = "publish" /\ shown' = made[f] /\ made' = [made EXCEPT ![f] = <<>>]
        /\ pc' = [pc EXCEPT ![f] = "idle"]
        /\ UNCHANGED <<data, links, snap, tag, copy, answer, moments>>
    BY <1>4 DEF Publish, Goto, readVars
  <2>2. made[f] \in Seq(0..Len(data)) /\ Len(made[f]) = Widths
    BY <2>1 DEF TypeOK, MadeCounted
  <2>3. shown' \in [1..Widths -> 0..Len(data)]
    BY <2>1, <2>2
  <2>4. <<>> \in Seq(0..Len(data)) /\ Len(<<>>) = 0
    BY EmptySeq
  <2>5. TypeOK'
    BY <2>1, <2>3, <2>4 DEF TypeOK
  <2>6. MadeCounted'
    BY <2>1, <2>4 DEF MadeCounted, TypeOK
  <2> QED  BY <2>5, <2>6
<1> QED  BY <1>1, <1>2, <1>3, <1>4 DEF Renders

LEMMA ReaderMoves ==
  ASSUME LinksInv, NEW c \in Reader,
         (\E n \in 0..MaxTags : Ask(c, n)) \/ CopyLinks(c) \/ Check(c) \/ Index(c)
  PROVE  LinksInv'
<1> USE DEF LinksInv
<1>0. c \notin Refresher
  BY LinksSizes
<1>1. UNCHANGED <<data, links, snap, made, shown>> /\ \A f \in Refresher : pc'[f] = pc[f]
  BY <1>0 DEF Ask, CopyLinks, Check, Index, Goto, refreshVars, TypeOK
<1>2. MadeCounted'
  BY <1>1 DEF MadeCounted, Widths
<1>3. ASSUME NEW n \in 0..MaxTags, Ask(c, n) PROVE TypeOK'
  <2>1. Open(links, n) \in Link \cup {Missing}
    BY OpenIs, LinksSizes DEF TypeOK
  <2> QED  BY <1>3, <2>1 DEF Ask, Goto, refreshVars, TypeOK
<1>7. /\ pc \in [Refresher \cup Reader -> {"idle", "copy", "draw", "publish",
                                         "check", "index", "done"}]
      /\ copy \in [Reader -> Seq(Link)] /\ links \in Seq(Link)
      /\ answer \in [Reader -> Link \cup {Missing, Panic}]
      /\ copy[c] \in Seq(Link) /\ tag[c] \in Nat
  BY LinksSizes DEF TypeOK
<1>8. ASSUME UNCHANGED <<tag, moments>>, copy' \in [Reader -> Seq(Link)],
             answer' \in [Reader -> Link \cup {Missing, Panic}],
             \E l \in {"check", "index", "done"} : Goto(c, l)
      PROVE  TypeOK'
  <2>1. pc' \in [Refresher \cup Reader -> {"idle", "copy", "draw", "publish",
                                           "check", "index", "done"}]
    BY <1>7, <1>8 DEF Goto
  <2> QED  BY <1>1, <1>8, <2>1 DEF TypeOK
<1>4. CASE CopyLinks(c)
  <2>1. /\ copy' = [copy EXCEPT ![c] = links] /\ Goto(c, "check")
        /\ UNCHANGED <<tag, answer, moments>>
    BY <1>4 DEF CopyLinks
  <2>2. copy' \in [Reader -> Seq(Link)]
    BY <1>7, <2>1
  <2>3. /\ UNCHANGED <<tag, moments>>
        /\ answer' \in [Reader -> Link \cup {Missing, Panic}]
        /\ \E l \in {"check", "index", "done"} : Goto(c, l)
    BY <1>7, <2>1
  <2> QED  BY <1>2, <1>8, <2>2, <2>3
<1>5. CASE Check(c)
  <2>1. /\ UNCHANGED <<tag, copy, moments>>
        /\ \/ Goto(c, "index") /\ answer' = answer
           \/ Goto(c, "done") /\ answer' = [answer EXCEPT ![c] = Missing]
    BY <1>5 DEF Check
  <2>2. answer' \in [Reader -> Link \cup {Missing, Panic}]
    BY <1>7, <2>1
  <2>3. copy' \in [Reader -> Seq(Link)]
    BY <1>7, <2>1
  <2>4. UNCHANGED <<tag, moments>> /\ \E l \in {"check", "index", "done"} : Goto(c, l)
    BY <2>1
  <2> QED  BY <1>2, <1>8, <2>2, <2>3, <2>4
<1>6. CASE Index(c)
  <2>1. Indexed(c) \in Link \cup {Missing, Panic}
    <3>1. tag[c] < Len(copy[c]) => tag[c] + 1 \in 1..Len(copy[c])
      BY <1>7
    <3> QED  BY <1>7, <3>1 DEF Indexed
  <2>2. /\ UNCHANGED <<tag, copy, moments>> /\ Goto(c, "done")
        /\ answer' = [answer EXCEPT ![c] = Indexed(c)]
    BY <1>6 DEF Index
  <2>3. answer' \in [Reader -> Link \cup {Missing, Panic}] /\ copy' \in [Reader -> Seq(Link)]
    BY <1>7, <2>1, <2>2
  <2>4. UNCHANGED <<tag, moments>> /\ \E l \in {"check", "index", "done"} : Goto(c, l)
    BY <2>2
  <2> QED  BY <1>2, <1>8, <2>3, <2>4
<1> QED  BY <1>2, <1>3, <1>4, <1>5, <1>6

(* Whatever is posted, rendered and asked, every field and local of render *)
(* and handleLink keeps its type, a Refresh publishes one picture per width*)
(* and ch.links never has more links than there are tags (channel.go:428,  *)
(* 573, index.go:96).                                                      *)
THEOREM LinksTypeCorrect == Spec => []TypeOK
<1>1. LinksInv /\ [Next]_vars => LinksInv'
  <2> SUFFICES ASSUME LinksInv, [Next]_vars PROVE LinksInv'
    OBVIOUS
  <2>1. ASSUME NEW k \in 0..MaxLinks, Post(k) PROVE LinksInv'
    <3>1. /\ data' = Append(data, k) /\ Len(data) < MaxPosts
          /\ UNCHANGED <<links, pc, snap, made, shown, tag, copy, answer, moments>>
      BY <2>1 DEF Post, refreshVars, readVars
    <3>2. TypeOK /\ MadeCounted'
      BY <3>1 DEF LinksInv, MadeCounted, Widths
    <3>3. data' \in Seq(0..MaxLinks) /\ Len(data') = Len(data) + 1 /\ Len(data) \in Nat
      BY <3>1, <3>2, AppendProperties DEF TypeOK
    <3>4. 0..Len(data) \subseteq 0..Len(data')
      BY <3>3
    <3>5. made \in [Refresher -> Seq(0..Len(data'))]
      <4>1. \A s \in Seq(0..Len(data)) : s \in Seq(0..Len(data'))
        BY <3>4, SeqMonotonic
      <4> QED  BY <3>2, <4>1 DEF TypeOK
    <3>6. shown \in [1..Widths -> 0..Len(data')] /\ snap \in [Refresher -> 0..Len(data')]
      BY <3>2, <3>4 DEF TypeOK
    <3>7. Len(data') <= MaxPosts
      BY <3>1, <3>3, LinksSizes
    <3> QED  BY <3>1, <3>2, <3>3, <3>5, <3>6, <3>7 DEF LinksInv, TypeOK
  <2>2. CASE UNCHANGED vars
    BY <2>2 DEF vars, refreshVars, readVars, LinksInv, TypeOK, MadeCounted, Widths
  <2> QED  BY <2>1, <2>2, RefresherMoves, ReaderMoves DEF Next
<1>2. LinksInv => TypeOK
  BY DEF LinksInv
<1> QED  BY <1>1, <1>2, InitLinks, PTL DEF Spec

-------------------------------------------------------------------------------
USE LinksAssumption

(* What is needed of the types: which threads and requests there are.      *)
Shape ==
  /\ pc = [t \in Refresher \cup Reader |-> pc[t]]
  /\ tag = [c \in Reader |-> tag[c]]
  /\ copy = [c \in Reader |-> copy[c]]
  /\ answer = [c \in Reader |-> answer[c]]
  /\ moments = [c \in Reader |-> moments[c]]

(* A request that is under way could be answered with what is in ch.links  *)
(* now, and with what is in its copy.                                      *)
Answerable ==
  /\ \A c \in Reader : Asking(c) => Open(links, tag[c]) \in moments[c]
  /\ \A c \in Reader :
       pc[c] \in {"check", "index"} => Open(copy[c], tag[c]) \in moments[c]
  /\ AnswerWasTrue

IInv == Shape /\ Answerable

LEMMA InitIInv == Init => IInv
BY DEF Init, IInv, Shape, Answerable, Asking, AnswerWasTrue

(* A step of somebody else leaves c as it was and takes no moment away.    *)
LEMMA OthersKept ==
  ASSUME Answerable, NEW c \in Reader,
         pc'[c] = pc[c], tag'[c] = tag[c], copy'[c] = copy[c],
         answer'[c] = answer[c], moments[c] \subseteq moments'[c],
         links' = links \/ (Asking(c) => Open(links', tag[c]) \in moments'[c])
  PROVE  /\ Asking(c)' => Open(links', tag'[c]) \in moments'[c]
         /\ pc'[c] \in {"check", "index"}
              => Open(copy'[c], tag'[c]) \in moments'[c]
         /\ pc'[c] = "done" => answer'[c] \in moments'[c] \cup {Panic}
<1>1. Asking(c)' <=> Asking(c)
  BY DEF Asking
<1>2. Open(links', tag'[c]) = Open(links', tag[c])
  BY DEF Open
<1>3. Open(copy'[c], tag'[c]) = Open(copy[c], tag[c])
  BY DEF Open
<1> QED  BY <1>1, <1>2, <1>3 DEF Answerable, AnswerWasTrue

(* A step in which no request moves.                                       *)
LEMMA RequestsKept ==
  ASSUME Answerable, UNCHANGED <<links, tag, copy, answer, moments>>,
         \A c \in Reader : pc'[c] = pc[c]
  PROVE  Answerable'
BY OthersKept DEF Answerable, AnswerWasTrue

(* A step of request c that keeps ch.links, and the others as they were.   *)
LEMMA OneMoves ==
  ASSUME Answerable, NEW c \in Reader, links' = links,
         \A d \in Reader \ {c} :
            /\ pc'[d] = pc[d] /\ tag'[d] = tag[d] /\ copy'[d] = copy[d]
            /\ answer'[d] = answer[d] /\ moments'[d] = moments[d],
         Asking(c)' => Open(links', tag'[c]) \in moments'[c],
         pc'[c] \in {"check", "index"}
           => Open(copy'[c], tag'[c]) \in moments'[c],
         pc'[c] = "done" => answer'[c] \in moments'[c] \cup {Panic}
  PROVE  Answerable'
<1>1. ASSUME NEW d \in Reader
      PROVE  /\ Asking(d)' => Open(links', tag'[d]) \in moments'[d]
             /\ pc'[d] \in {"check", "index"}
                  => Open(copy'[d], tag'[d]) \in moments'[d]
             /\ pc'[d] = "done" => answer'[d] \in moments'[d] \cup {Panic}
  <2>1. CASE d = c
    BY <2>1
  <2>2. CASE d # c
    BY <2>2, OthersKept
  <2> QED  BY <2>1, <2>2
<1> QED  BY <1>1 DEF Answerable, AnswerWasTrue

LEMMA NextIInv == IInv /\ [Next]_vars => IInv'
<1> SUFFICES ASSUME Shape, Answerable, [Next]_vars PROVE Shape' /\ Answerable'
  BY DEF IInv
<1> USE DEF Goto, refreshVars, readVars
<1>1. CASE UNCHANGED vars
  BY <1>1, RequestsKept DEF vars, Shape
<1>2. CASE \E k \in 0..MaxLinks : Post(k)
  BY <1>2, RequestsKept DEF Post, Shape
<1>3. ASSUME NEW f \in Refresher, Begin(f) \/ Renders(f)
      PROVE  Shape' /\ Answerable'
  <2>1. \A c \in Reader : c # f
    BY DEF LinksAssumption
  <2>2. CASE Begin(f) \/ Copy(f) \/ Publish(f)
    <3>1. UNCHANGED <<links, tag, copy, answer, moments>>
      BY <2>2 DEF Begin, Copy, Publish
    <3>2. \E l : pc' = [pc EXCEPT ![f] = l]
      BY <2>2 DEF Begin, Copy, Publish
    <3>3. \A c \in Reader : pc'[c] = pc[c]
      BY <2>1, <3>2 DEF Shape
    <3>4. Shape'
      BY <3>1, <3>2 DEF Shape
    <3> QED  BY <3>1, <3>3, <3>4, RequestsKept
  <2>3. CASE Draw(f)
    <3>1. /\ moments' = [c \in Reader |->
                           IF Asking(c)
                           THEN moments[c] \cup {Open(links', tag[c])}
                           ELSE moments[c]]
          /\ UNCHANGED <<tag, copy, answer>>
      BY <2>3 DEF Draw
    <3>2. \E l : pc' = [pc EXCEPT ![f] = l]
      BY <2>3 DEF Draw
    <3>3. \A c \in Reader : pc'[c] = pc[c]
      BY <2>1, <3>2 DEF Shape
    <3>4. Shape'
      BY <3>1, <3>2 DEF Shape
    <3>5. \A c \in Reader :
            /\ moments[c] \subseteq moments'[c]
            /\ Asking(c) => Open(links', tag[c]) \in moments'[c]
      BY <3>1
    <3>6. Answerable'
      BY <3>1, <3>3, <3>5, OthersKept DEF Answerable, AnswerWasTrue
    <3> QED  BY <3>4, <3>6
  <2> QED  BY <1>3, <2>2, <2>3 DEF Renders
<1>4. ASSUME NEW c \in Reader,
             (\E n \in 0..MaxTags : Ask(c, n)) \/ CopyLinks(c) \/ Check(c)
               \/ Index(c)
      PROVE  Shape' /\ Answerable'
  <2>1. ASSUME NEW n, Ask(c, n) PROVE Shape' /\ Answerable'
    <3>1. Shape'
      BY <2>1 DEF Ask, Shape
    <3>2. Answerable'
      BY <2>1, OneMoves DEF Ask, Shape
    <3> QED  BY <3>1, <3>2
  <2>2. CASE CopyLinks(c)
    <3>1. Shape'
      BY <2>2 DEF CopyLinks, Shape
    <3>2. Open(links, tag[c]) \in moments[c]
      BY <2>2 DEF CopyLinks, Answerable, Asking
    <3>3. Answerable'
      BY <2>2, <3>2, OneMoves DEF CopyLinks, Shape
    <3> QED  BY <3>1, <3>3
  <2>3. CASE Check(c)
    <3>1. Shape'
      BY <2>3 DEF Check, Shape
    <3>2. /\ Open(links, tag[c]) \in moments[c]
          /\ Open(copy[c], tag[c]) \in moments[c]
      BY <2>3 DEF Check, Answerable, Asking
    <3>3. CASE tag[c] < Len(links) /\ Goto(c, "index") /\ UNCHANGED answer
      BY <2>3, <3>2, <3>3, OneMoves DEF Check, Shape
    <3>4. CASE /\ ~(tag[c] < Len(links))
               /\ answer' = [answer EXCEPT ![c] = Missing]
               /\ Goto(c, "done")
      <4>1. Open(links, tag[c]) = Missing
        BY <3>4 DEF Open
      <4> QED  BY <2>3, <3>2, <3>4, <4>1, OneMoves DEF Check, Shape, Asking
    <3> QED  BY <2>3, <3>1, <3>3, <3>4 DEF Check
  <2>4. CASE Index(c)
    <3>1. Shape'
      BY <2>4 DEF Index, Shape
    <3>2. Indexed(c) \in moments[c] \cup {Panic}
      BY <2>4 DEF Index, Indexed, Open, Answerable
    <3>3. Answerable'
      BY <2>4, <3>2, OneMoves DEF Index, Shape, Asking
    <3> QED  BY <3>1, <3>3
  <2> QED  BY <1>4, <2>1, <2>2, <2>3, <2>4
<1> QED  BY <1>1, <1>2, <1>3, <1>4 DEF Next

(* A request to /~link/ that does not panic gets what ch.links held under  *)
(* its tag at some moment since it came (index.go:94-124).                 *)
THEOREM AnswersCorrect == Spec => []AnswerWasTrue
<1>1. IInv => AnswerWasTrue
  BY DEF IInv, Answerable
<1> QED  BY <1>1, InitIInv, NextIInv, PTL DEF Spec
===============================================================================
