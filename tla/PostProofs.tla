------------------------------ MODULE PostProofs ------------------------------
(***************************************************************************)
(* Proofs about what a post goes through.                                  *)
(* Text: what sanitizeStrict and sanitizeMessage build, why a sanitized    *)
(* name stays what it is, why Unmarshal reads what Marshal has written.    *)
(* What is shown of the digits of a varint rests on LEMMA Induct,          *)
(* well-founded induction stated for sets.                                 *)
(* SendGate: its types, tokens, cooldowns and timers.                      *)
(***************************************************************************)
EXTENDS SendGate, Text, SequenceTheorems, FiniteSetTheorems,
        WellFoundedInduction, TLAPS

-------------------------------------------------------------------------------
(* Sets of numbers that hold every number whose predecessors they hold.    *)
LEMMA Induct ==
  ASSUME NEW S \in SUBSET Nat,
         \A n \in Nat : (\A m \in Nat : m < n => m \in S) => n \in S
  PROVE  S = Nat
<1>1. IsWellFoundedOn(OpToRel(<, Nat), Nat)
  BY NatLessThanWellFounded
<1>2. SUFFICES ASSUME Nat \ S # {} PROVE FALSE
  OBVIOUS
<1>3. PICK x \in Nat \ S : \A y \in Nat \ S : ~(<<y, x>> \in OpToRel(<, Nat))
  BY <1>1, <1>2, WFMin
<1>4. \A y \in Nat : y < x => <<y, x>> \in OpToRel(<, Nat)
  BY DEF OpToRel
<1> QED  BY <1>3, <1>4

(* Division by the base of the digits.                                     *)
LEMMA Based == Base \in Nat /\ Base > 1
  BY TextAssumption

LEMMA Division ==
  ASSUME NEW n \in Nat
  PROVE  /\ n % Base \in 0..(Base - 1)
         /\ n >= Base => n \div Base \in Nat /\ n \div Base < n
         /\ n \div Base \in Nat
         /\ Base * (n \div Base) + (n % Base) = n
         /\ n < Base => n % Base = n
<1>1. \A B \in Nat : B > 1 => n % B \in 0..(B - 1)
  OBVIOUS
<1>5. ASSUME NEW B \in Nat, B > 1 PROVE n \div B \in Nat
  BY <1>5
<1>2. ASSUME NEW B \in Nat, B > 1 PROVE B * (n \div B) + (n % B) = n
  BY <1>2
<1>3. \A B \in Nat : B > 1 /\ n >= B => n \div B < n
  OBVIOUS
<1>4. \A B \in Nat : B > 1 /\ n < B => n % B = n
  OBVIOUS
<1> QED  BY <1>1, <1>2, <1>3, <1>4, <1>5, Based

LEMMA Marked ==
  ASSUME NEW n \in 0..(Base - 1)
  PROVE  (Base + n) % Base = n
<1>1. ASSUME NEW B \in Nat, B > 1, NEW m \in 0..(B - 1) PROVE (B + m) % B = m
  BY <1>1
<1> QED  BY <1>1, Based

-------------------------------------------------------------------------------
(* The digits of a number are those of what it is divided by the base, and *)
(* one more.  That there is such a function has to be proved: DigitsTo(n)  *)
(* are the functions that know the numbers up to n.                        *)
LastDigit(n) == <<<<"digit", n>>>>
MarkedDigit(n) == <<<<"digit", Base + (n % Base)>>>>
DigitsTo(f, n) ==
  f = [m \in 0..n |-> IF m < Base THEN LastDigit(m)
                                  ELSE MarkedDigit(m) \o f[m \div Base]]

LEMMA DigitsAgree ==
  ASSUME NEW n \in Nat, NEW f, DigitsTo(f, n),
         NEW m \in Nat, NEW g, DigitsTo(g, m)
  PROVE  \A k \in Nat : k <= n /\ k <= m => f[k] = g[k]
<1> DEFINE S == {k \in Nat : k <= n /\ k <= m => f[k] = g[k]}
<1>1. ASSUME NEW k \in Nat, \A i \in Nat : i < k => i \in S PROVE k \in S
  <2> SUFFICES ASSUME k <= n, k <= m PROVE f[k] = g[k]
    OBVIOUS
  <2>1. /\ f[k] = IF k < Base THEN LastDigit(k) ELSE MarkedDigit(k) \o f[k \div Base]
        /\ g[k] = IF k < Base THEN LastDigit(k) ELSE MarkedDigit(k) \o g[k \div Base]
    <3>1. k \in 0..n /\ k \in 0..m
      OBVIOUS
    <3> QED  BY <3>1 DEF DigitsTo
  <2>2. CASE k >= Base
    <3>1. k \div Base \in Nat /\ k \div Base < k
      BY <2>2, Division
    <3>2. f[k \div Base] = g[k \div Base]
      BY <1>1, <3>1
    <3> QED  BY <2>1, <2>2, <3>2
  <2> QED  BY <2>1, <2>2, Based
<1>2. S = Nat
  BY <1>1, Induct
<1> QED  BY <1>2

LEMMA DigitsExist == \A n \in Nat : \E f : DigitsTo(f, n)
<1> DEFINE S == {n \in Nat : \E f : DigitsTo(f, n)}
<1>1. ASSUME NEW n \in Nat, \A m \in Nat : m < n => m \in S PROVE n \in S
  <2>1. CASE n < Base
    <3> DEFINE h == [m \in 0..n |-> LastDigit(m)]
    <3>1. \A m \in 0..n : m < Base
      BY <2>1, Based
    <3>2. DigitsTo(h, n)
      BY <3>1 DEF DigitsTo
    <3> QED  BY <3>2
  <2>2. CASE n >= Base
    <3>1. n - 1 \in Nat /\ n - 1 < n /\ n \div Base \in 0..(n - 1)
      BY <2>2, Division
    <3>2. PICK f : DigitsTo(f, n - 1)
      BY <1>1, <3>1
    <3> DEFINE h == [m \in 0..n |-> IF m < n THEN f[m]
                                    ELSE MarkedDigit(n) \o f[n \div Base]]
    <3>3. ASSUME NEW m \in 0..n
          PROVE  h[m] = IF m < Base THEN LastDigit(m)
                                    ELSE MarkedDigit(m) \o h[m \div Base]
      <4>1. CASE m = n
        BY <2>2, <3>1, <4>1, Based
      <4>2. CASE m < n
        <5>1. f[m] = IF m < Base THEN LastDigit(m) ELSE MarkedDigit(m) \o f[m \div Base]
          <6>1. m \in 0..(n - 1)
            BY <3>1, <4>2
          <6> QED  BY <3>2, <6>1 DEF DigitsTo
        <5>2. m >= Base => m \div Base \in 0..(n - 1)
          BY <4>2, Division
        <5>3. h[m] = f[m] /\ (m >= Base => h[m \div Base] = f[m \div Base])
          BY <4>2, <5>2
        <5> QED  BY <5>1, <5>3, Based
      <4> QED  BY <4>1, <4>2
    <3>4. DigitsTo(h, n)
      <4> HIDE DEF h
      <4>1. h = [m \in 0..n |-> h[m]]
        BY DEF h
      <4>2. [m \in 0..n |-> h[m]] = [m \in 0..n |->
              IF m < Base THEN LastDigit(m) ELSE MarkedDigit(m) \o h[m \div Base]]
        BY <3>3
      <4> QED  BY <4>1, <4>2 DEF DigitsTo
    <3> QED  BY <3>4
  <2> QED  BY <2>1, <2>2, Based
<1>2. S = Nat
  BY <1>1, Induct
<1> QED  BY <1>2

LEMMA DigitsAre ==
  \A n \in Nat : Digits[n] = IF n < Base THEN LastDigit(n)
                             ELSE MarkedDigit(n) \o Digits[n \div Base]
<1> DEFINE F(n) == CHOOSE f : DigitsTo(f, n)
           g == [n \in Nat |-> F(n)[n]]
<1>1. \A n \in Nat : DigitsTo(F(n), n)
  BY DigitsExist
<1>2. ASSUME NEW n \in Nat
      PROVE  g[n] = IF n < Base THEN LastDigit(n) ELSE MarkedDigit(n) \o g[n \div Base]
  <2>1. F(n)[n] = IF n < Base THEN LastDigit(n)
                              ELSE MarkedDigit(n) \o F(n)[n \div Base]
    <3>1. n \in 0..n
      OBVIOUS
    <3> QED  BY <1>1, <3>1, ZenonT(40) DEF DigitsTo
  <2>2. CASE n >= Base
    <3>1. n \div Base \in Nat /\ n \div Base < n
      BY <2>2, Division
    <3>2. F(n)[n \div Base] = F(n \div Base)[n \div Base]
      <4> HIDE DEF F
      <4> QED  BY <1>1, <3>1, DigitsAgree
    <3> QED  BY <2>1, <2>2, <3>1, <3>2
  <2> QED  BY <2>1, <2>2, Based
<1>3. g = [n \in Nat |-> IF n < Base THEN LastDigit(n)
                         ELSE MarkedDigit(n) \o g[n \div Base]]
  <2> HIDE DEF F
  <2>1. g = [n \in Nat |-> g[n]]
    OBVIOUS
  <2> HIDE DEF g
  <2> QED  BY <1>2, <2>1
<1> HIDE DEF g
<1> QED  BY <1>3 DEF Digits, LastDigit, MarkedDigit
(* The numbers whose last digits a varint is made of: n, what n is divided *)
(* by the base, and so on, L of them.                                      *)
Spells(d, n, L, q) ==
  /\ L \in Nat \ {0} /\ q \in [1..L -> Nat] /\ q[1] = n
  /\ \A k \in 1..(L - 1) : q[k] >= Base /\ q[k + 1] = q[k] \div Base
  /\ q[L] < Base
  /\ d \in Seq({"digit"} \X Nat) /\ Len(d) = L
  /\ \A k \in 1..(L - 1) : d[k] = <<"digit", Base + (q[k] % Base)>>
  /\ d[L] = <<"digit", q[L]>>

LEMMA DigitsSpell == \A n \in Nat : \E L, q : Spells(Digits[n], n, L, q)
<1> DEFINE S == {n \in Nat : \E L, q : Spells(Digits[n], n, L, q)}
<1>1. ASSUME NEW n \in Nat, \A m \in Nat : m < n => m \in S PROVE n \in S
  <2>0. Base \in Nat /\ Base > 1
    BY Based
  <2>1. CASE n < Base
    <3>1. Digits[n] = <<<<"digit", n>>>>
      BY <2>1, DigitsAre DEF LastDigit
    <3>2. Spells(Digits[n], n, 1, [k \in 1..1 |-> n])
      BY <2>0, <2>1, <3>1 DEF Spells
    <3> QED  BY <3>2
  <2>2. CASE n >= Base
    <3>1. n \div Base \in Nat /\ n \div Base < n /\ (n % Base) \in Nat
      BY <2>0, <2>2, Division
    <3> DEFINE m == n \div Base
               d == Digits[m]
               b == <<"digit", Base + (n % Base)>>
    <3>2. PICK M, p : Spells(d, m, M, p)
      BY <1>1, <3>1
    <3>3. /\ M \in Nat \ {0} /\ p \in [1..M -> Nat] /\ p[1] = m
          /\ \A k \in 1..(M - 1) : p[k] >= Base /\ p[k + 1] = p[k] \div Base
          /\ p[M] < Base
          /\ d \in Seq({"digit"} \X Nat) /\ Len(d) = M
          /\ \A k \in 1..(M - 1) : d[k] = <<"digit", Base + (p[k] % Base)>>
          /\ d[M] = <<"digit", p[M]>>
      BY <3>2 DEF Spells
    <3>4. Digits[n] = <<b>> \o d
      <4>1. ~(n < Base)
        BY <2>0, <2>2
      <4>2. Digits[n] = MarkedDigit(n) \o Digits[n \div Base]
        BY <4>1, DigitsAre
      <4> QED  BY <4>2 DEF MarkedDigit
    <3> DEFINE q == [k \in 1..(M + 1) |-> IF k = 1 THEN n ELSE p[k - 1]]
    <3>5. b \in {"digit"} \X Nat
      BY <2>0, <3>1
    <3> HIDE DEF d, b
    <3>6. /\ <<b>> \o d \in Seq({"digit"} \X Nat) /\ Len(<<b>> \o d) = M + 1
          /\ (<<b>> \o d)[1] = b
          /\ \A k \in 1..M : (<<b>> \o d)[k + 1] = d[k]
      BY <3>3, <3>5
    <3>7. /\ q \in [1..(M + 1) -> Nat] /\ q[1] = n
          /\ \A k \in 1..M : q[k + 1] = p[k]
      BY <3>3
    <3> HIDE DEF q
    <3>8. \A k \in 1..M : q[k] >= Base /\ q[k + 1] = q[k] \div Base
      <4> TAKE k \in 1..M
      <4>1. CASE k = 1
        BY <2>0, <2>2, <3>3, <3>7, <4>1
      <4>2. CASE k # 1
        <5>1. k - 1 \in 1..(M - 1) /\ (k - 1) + 1 = k /\ k - 1 \in 1..M
          BY <3>3, <4>2
        <5>2. p[k - 1] >= Base /\ p[(k - 1) + 1] = p[k - 1] \div Base
          BY <3>3, <5>1
        <5>3. q[(k - 1) + 1] = p[k - 1] /\ q[k + 1] = p[k]
          BY <3>7, <5>1
        <5> QED  BY <5>1, <5>2, <5>3
      <4> QED  BY <4>1, <4>2
    <3>9. \A k \in 1..M : (<<b>> \o d)[k] = <<"digit", Base + (q[k] % Base)>>
      <4> TAKE k \in 1..M
      <4>1. CASE k = 1
        BY <3>3, <3>6, <3>7, <4>1 DEF b
      <4>2. CASE k # 1
        <5>1. k - 1 \in 1..(M - 1) /\ (k - 1) + 1 = k /\ k - 1 \in 1..M
          BY <3>3, <4>2
        <5>2. d[k - 1] = <<"digit", Base + (p[k - 1] % Base)>>
          BY <3>3, <5>1
        <5>3. q[(k - 1) + 1] = p[k - 1] /\ (<<b>> \o d)[(k - 1) + 1] = d[k - 1]
          BY <3>6, <3>7, <5>1
        <5> QED  BY <5>1, <5>2, <5>3
      <4> QED  BY <4>1, <4>2
    <3>10. q[M + 1] = p[M] /\ (<<b>> \o d)[M + 1] = d[M]
      BY <3>3, <3>6, <3>7
    <3>11. (M + 1) - 1 = M /\ M + 1 \in Nat \ {0}
      BY <3>3
    <3>12. Spells(Digits[n], n, M + 1, q)
      BY <3>3, <3>4, <3>6, <3>7, <3>8, <3>9, <3>10, <3>11 DEF Spells
    <3> QED  BY <3>12
  <2> QED  BY <2>0, <2>1, <2>2
<1>2. S = Nat
  BY <1>1, Induct
<1> QED  BY <1>2

(* Uvarint reads back what Varint has written, whatever follows it.        *)
LEMMA VarintReadBack ==
  ASSUME NEW n \in Nat, NEW T, NEW t \in Seq(T)
  PROVE  Uvarint(Varint(n) \o t) = [value |-> n, width |-> Len(Varint(n))]
<1> DEFINE d == Varint(n)
           p == d \o t
<1>0. Base \in Nat /\ Base > 1
  BY Based
<1>1. PICK L, q : Spells(d, n, L, q)
  BY DigitsSpell DEF Varint
<1>2. /\ L \in Nat \ {0} /\ q \in [1..L -> Nat] /\ q[1] = n
      /\ \A k \in 1..(L - 1) : q[k] >= Base /\ q[k + 1] = q[k] \div Base
      /\ q[L] < Base
      /\ d \in Seq({"digit"} \X Nat) /\ Len(d) = L
      /\ \A k \in 1..(L - 1) : d[k] = <<"digit", Base + (q[k] % Base)>>
      /\ d[L] = <<"digit", q[L]>>
  BY <1>1 DEF Spells
<1> HIDE DEF d
<1>3. /\ Len(p) \in Nat /\ Len(p) >= L
      /\ \A k \in 1..L : p[k] = d[k]
  <2> DEFINE U == ({"digit"} \X Nat) \cup T
  <2>1. d \in Seq(U) /\ t \in Seq(U)
    BY <1>2, SeqMonotonic
  <2> HIDE DEF U
  <2> QED  BY <1>2, <2>1
<1> HIDE DEF p
<1>4. \A k \in 1..(L - 1) : Digit(p[k]) = Base + (q[k] % Base)
  <2> TAKE k \in 1..(L - 1)
  <2>1. k \in 1..L
    BY <1>2
  <2>2. p[k] = <<"digit", Base + (q[k] % Base)>>
    BY <1>2, <1>3, <2>1
  <2> QED  BY <2>2 DEF Digit
<1>5. Digit(p[L]) = q[L]
  <2>1. p[L] = <<"digit", q[L]>>
    BY <1>2, <1>3
  <2> QED  BY <2>1 DEF Digit
<1>6. \A k \in 1..(L - 1) : /\ Digit(p[k]) >= Base /\ Digit(p[k]) % Base = q[k] % Base
                            /\ q[k] % Base \in Nat
  <2> TAKE k \in 1..(L - 1)
  <2>1. q[k] \in Nat
    BY <1>2
  <2>2. q[k] % Base \in 0..(Base - 1)
    BY <2>1, Division
  <2> QED  BY <1>0, <1>4, <2>2, Marked
<1>7. Width(p) = L
  <2> DEFINE P(w) == Digit(p[w]) < Base /\ \A k \in 1..(w - 1) : Digit(p[k]) >= Base
  <2>1. L \in 1..Len(p) /\ P(L)
    BY <1>2, <1>3, <1>5, <1>6
  <2>2. ASSUME NEW w \in 1..Len(p), P(w) PROVE w = L
    <3>1. CASE w < L
      BY <1>0, <1>2, <1>3, <1>4, <1>6, <2>2, <3>1
    <3>2. CASE w > L
      BY <1>0, <1>2, <1>3, <1>5, <2>2, <3>2
    <3> QED  BY <1>2, <1>3, <3>1, <3>2
  <2>3. Width(p) = CHOOSE w \in 1..Len(p) : P(w)
    BY DEF Width
  <2> HIDE DEF P
  <2> QED  BY <2>1, <2>2, <2>3
<1> DEFINE Reads(g) ==
      g = [k \in 1..L |-> (Digit(p[k]) % Base) + (IF k = L THEN 0 ELSE Base * g[k + 1])]
<1>8. Reads(q)
  <2>1. ASSUME NEW k \in 1..L
        PROVE  q[k] = (Digit(p[k]) % Base) + (IF k = L THEN 0 ELSE Base * q[k + 1])
    <3>1. CASE k = L
      <4>1. q[L] \in Nat /\ q[L] % Base = q[L]
        BY <1>2, Division
      <4> QED  BY <1>5, <3>1, <4>1
    <3>2. CASE k # L
      <4>1. k \in 1..(L - 1) /\ q[k] \in Nat
        BY <1>2, <3>2
      <4>2. Base * (q[k] \div Base) + (q[k] % Base) = q[k] /\ q[k] \div Base \in Nat
              /\ q[k] % Base \in Nat
        BY <4>1, Division, <1>6
      <4>3. q[k + 1] = q[k] \div Base /\ Digit(p[k]) % Base = q[k] % Base
        BY <1>2, <1>6, <4>1
      <4>4. Base * (q[k] \div Base) \in Nat
        <5>1. \A x, y \in Nat : x * y \in Nat
          OBVIOUS
        <5> QED  BY <1>0, <4>2, <5>1
      <4> QED  BY <3>2, <4>1, <4>2, <4>3, <4>4
    <3> QED  BY <3>1, <3>2
  <2>2. q = [k \in 1..L |-> q[k]]
    BY <1>2
  <2> QED  BY <2>1, <2>2
<1>9. ASSUME NEW g, Reads(g) PROVE g[1] = n
  <2> DEFINE D == {j \in Nat : j < L => g[L - j] = q[L - j]}
  <2>1. ASSUME NEW j \in Nat, \A i \in Nat : i < j => i \in D PROVE j \in D
    <3> SUFFICES ASSUME j < L PROVE g[L - j] = q[L - j]
      OBVIOUS
    <3>1. L - j \in 1..L
      BY <1>2
    <3>2. /\ g[L - j] = (Digit(p[L - j]) % Base)
                          + (IF L - j = L THEN 0 ELSE Base * g[(L - j) + 1])
          /\ q[L - j] = (Digit(p[L - j]) % Base)
                          + (IF L - j = L THEN 0 ELSE Base * q[(L - j) + 1])
      BY <1>8, <1>9, <3>1
    <3>3. CASE j = 0
      BY <1>2, <3>2, <3>3
    <3>4. CASE j # 0
      <4>1. j - 1 \in Nat /\ j - 1 < j /\ j - 1 < L /\ L - (j - 1) = (L - j) + 1
        BY <1>2, <3>4
      <4>2. g[(L - j) + 1] = q[(L - j) + 1]
        BY <2>1, <4>1
      <4> QED  BY <3>2, <4>2
    <3> QED  BY <3>3, <3>4
  <2>2. D = Nat
    BY <2>1, Induct
  <2>3. L - 1 \in Nat /\ L - 1 < L /\ L - (L - 1) = 1
    BY <1>2
  <2>4. L - 1 \in D
    BY <2>2, <2>3
  <2> QED  BY <1>2, <2>3, <2>4
<1>10. \E g : Reads(g) /\ Uvarint(p) = [value |-> g[1], width |-> L]
  BY <1>7, <1>8 DEF Uvarint
<1> HIDE DEF Reads
<1>11. Uvarint(p) = [value |-> n, width |-> L]
  BY <1>9, <1>10
<1> QED  BY <1>2, <1>11 DEF p, d
-------------------------------------------------------------------------------
(* A text all of whose runes are whole and kept, and begin before the limit*)
(* of a name: what sanitizeStrict makes.                                   *)
Whole(s) ==
  \A i \in DOMAIN s :
    /\ s[i][1] \in Kept
    /\ s[i][2] # 1 => i > 1 /\ s[i - 1] = <<s[i][1], s[i][2] - 1>>
    /\ s[i][2] < Bytes[s[i][1]] => i < Len(s) /\ s[i + 1] = <<s[i][1], s[i][2] + 1>>
Begins(s) == \A i \in DOMAIN s : s[i][2] = 1 => i <= MaxName

(* What may be left of a name at its limit.                                *)
CutOf(s, f) == IsPrefix(s, f) /\ (s # f => Len(s) >= MaxName)

(* The next time sanitizeStrict goes through such a text rune by rune; with*)
(* a random suffix it may end before the last one.                         *)
NameInv ==
  /\ lines = 0 /\ Len(tmp) <= MaxName + 3
  /\ rest # <<>> => Len(tmp) < MaxName
  /\ round = "first" => Whole(tmp) /\ Begins(tmp)
  /\ round = "random" =>
       /\ Whole(former) /\ Whole(tmp) /\ Begins(tmp)
       /\ rest # <<>> => tmp \o rest = former /\ rest[1][2] = 1
       /\ rest = <<>> => CutOf(tmp, former)
  /\ round = "again" =>
       /\ Whole(former) /\ Begins(former)
       /\ tmp \o rest = former
       /\ rest # <<>> => rest[1][2] = 1

MessageInv ==
  /\ Len(tmp) <= MaxText + 3
  /\ rest # <<>> => Len(tmp) < MaxText /\ lines < MaxLines

EntryInv ==
  /\ entry.from \in Seq(Byte) /\ rest = <<>>
  /\ task = "stored" =>
       entry.bytes = Fixed \o Varint(Len(entry.from)) \o entry.from
                           \o Varint(Len(tmp)) \o tmp
  /\ RoundTrip

Newlines(s) == {k \in DOMAIN s : s[k] = <<Newline, 1>>}

TextInv ==
  /\ TextTypeOK
  /\ entry = [from |-> entry.from, bytes |-> entry.bytes, back |-> entry.back]
  /\ lines = Cardinality(Newlines(tmp))
  /\ task = "none" => round = "first" /\ tmp = <<>>
  /\ task = "name" => NameInv
  /\ task = "message" => MessageInv
  /\ task \in {"store", "stored", "loaded"} => EntryInv

-------------------------------------------------------------------------------
(* Bytes, runes and encodings.                                             *)
LEMMA ByteIs ==
  ASSUME NEW b \in Byte
  PROVE  b[1] \in Runes /\ b[2] \in 1..Bytes[b[1]] /\ b = <<b[1], b[2]>>
  BY DEF Byte

LEMMA EncodedIs ==
  ASSUME NEW r \in Runes
  PROVE  /\ Bytes[r] \in 1..4
         /\ Encoded(r) \in Seq(Byte) /\ Len(Encoded(r)) = Bytes[r]
         /\ \A k \in 1..Bytes[r] : Encoded(r)[k] = <<r, k>>
<1>1. Bytes[r] \in 1..4
  BY TextAssumption
<1>2. \A k \in 1..Bytes[r] : <<r, k>> \in Byte
  BY DEF Byte
<1>3. Bytes[r] \in Nat
  BY <1>1
<1> QED  BY <1>1, <1>2, <1>3 DEF Encoded

LEMMA FirstIs ==
  ASSUME NEW s \in Seq(Byte), s # <<>>
  PROVE  /\ First(s).rune \in Runes /\ First(s).width \in 1..Len(s)
         /\ Later(s) \in Seq(Byte)
         /\ Len(Later(s)) = Len(s) - First(s).width
         /\ \A i \in 1..(Len(s) - First(s).width) : Later(s)[i] = s[First(s).width + i]
<1>1. Len(s) \in Nat \ {0} /\ Head(s) \in Byte
  BY HeadTailProperties, EmptySeq
<1>2. Head(s)[1] \in Runes
  BY <1>1, ByteIs
<1>3. /\ First(s).rune \in Runes /\ First(s).width \in 1..Len(s)
  <2>1. CASE IsPrefix(Encoded(Head(s)[1]), s)
    <3>1. Len(Encoded(Head(s)[1])) = Bytes[Head(s)[1]] /\ Bytes[Head(s)[1]] \in 1..4
      BY <1>2, EncodedIs
    <3>2. Bytes[Head(s)[1]] <= Len(s)
      BY <2>1, <3>1 DEF IsPrefix
    <3> QED  BY <1>1, <1>2, <2>1, <3>1, <3>2 DEF First
  <2>2. CASE ~IsPrefix(Encoded(Head(s)[1]), s)
    <3>1. Bad \in Runes
      BY TextAssumption
    <3> QED  BY <1>1, <2>2, <3>1 DEF First
  <2> QED  BY <2>1, <2>2
<1> DEFINE w == First(s).width
<1>4. w \in 1..Len(s) /\ w + 1 \in Int /\ Len(s) \in Int
  BY <1>1, <1>3
<1> HIDE DEF w
<1>5. \A i \in (w + 1)..Len(s) : s[i] \in Byte
  BY <1>4
<1>6. /\ SubSeq(s, w + 1, Len(s)) \in Seq(Byte)
      /\ Len(SubSeq(s, w + 1, Len(s)))
           = IF w + 1 <= Len(s) THEN Len(s) - (w + 1) + 1 ELSE 0
      /\ \A i \in 1..(Len(s) - (w + 1) + 1) :
           SubSeq(s, w + 1, Len(s))[i] = s[(w + 1) + i - 1]
  BY <1>4, <1>5, SubSeqProperties
<1>7. Later(s) = SubSeq(s, w + 1, Len(s))
  BY DEF Later, w
<1>8. /\ Later(s) \in Seq(Byte) /\ Len(Later(s)) = Len(s) - w
      /\ \A i \in 1..(Len(s) - w) : Later(s)[i] = s[w + i]
  BY <1>4, <1>6, <1>7
<1> QED  BY <1>3, <1>8 DEF w

(* A rune that is whole and begins here is the first one.                  *)
LEMMA FirstWhole ==
  ASSUME NEW s \in Seq(Byte), NEW r \in Runes, Bytes[r] <= Len(s),
         \A k \in 1..Bytes[r] : s[k] = <<r, k>>
  PROVE  First(s) = [rune |-> r, width |-> Bytes[r]]
<1>1. Bytes[r] \in 1..4 /\ Encoded(r) \in Seq(Byte) /\ Len(Encoded(r)) = Bytes[r]
      /\ \A k \in 1..Bytes[r] : Encoded(r)[k] = <<r, k>>
  BY EncodedIs
<1>2. Len(s) \in Nat
  OBVIOUS
<1>3. Head(s) = <<r, 1>>
  BY <1>1, <1>2
<1>4. SubSeq(Encoded(r), 1, Bytes[r]) = SubSeq(s, 1, Bytes[r])
  <2>1. /\ SubSeq(Encoded(r), 1, Bytes[r]) \in Seq(Byte)
        /\ Len(SubSeq(Encoded(r), 1, Bytes[r])) = Bytes[r]
        /\ \A k \in 1..Bytes[r] : SubSeq(Encoded(r), 1, Bytes[r])[k] = Encoded(r)[k]
    BY <1>1
  <2>2. /\ SubSeq(s, 1, Bytes[r]) \in Seq(Byte)
        /\ Len(SubSeq(s, 1, Bytes[r])) = Bytes[r]
        /\ \A k \in 1..Bytes[r] : SubSeq(s, 1, Bytes[r])[k] = s[k]
    BY <1>1, <1>2
  <2> QED  BY <1>1, <2>1, <2>2, SeqEqual
<1>5. IsPrefix(Encoded(r), s)
  BY <1>1, <1>4 DEF IsPrefix
<1> QED  BY <1>3, <1>5 DEF First

(* A rune more.                                                            *)
LEMMA Longer ==
  ASSUME NEW s \in Seq(Byte), NEW r \in Runes
  PROVE  /\ s \o Encoded(r) \in Seq(Byte)
         /\ Len(s \o Encoded(r)) = Len(s) + Bytes[r]
         /\ \A i \in 1..Len(s) : (s \o Encoded(r))[i] = s[i]
         /\ \A k \in 1..Bytes[r] : (s \o Encoded(r))[Len(s) + k] = <<r, k>>
<1>1. /\ Bytes[r] \in 1..4 /\ Encoded(r) \in Seq(Byte) /\ Len(Encoded(r)) = Bytes[r]
      /\ \A k \in 1..Bytes[r] : Encoded(r)[k] = <<r, k>>
  BY EncodedIs
<1>2. Len(s) \in Nat
  OBVIOUS
<1>3. /\ s \o Encoded(r) \in Seq(Byte)
      /\ Len(s \o Encoded(r)) = Len(s) + Bytes[r]
      /\ \A i \in 1..(Len(s) + Bytes[r]) : (s \o Encoded(r))[i] =
           IF i <= Len(s) THEN s[i] ELSE Encoded(r)[i - Len(s)]
  BY <1>1, ConcatProperties
<1>4. \A i \in 1..Len(s) : (s \o Encoded(r))[i] = s[i]
  BY <1>1, <1>2, <1>3
<1>5. \A k \in 1..Bytes[r] : (s \o Encoded(r))[Len(s) + k] = <<r, k>>
  <2> TAKE k \in 1..Bytes[r]
  <2>1. Len(s) + k \in 1..(Len(s) + Bytes[r]) /\ ~(Len(s) + k <= Len(s))
          /\ (Len(s) + k) - Len(s) = k
    BY <1>1, <1>2
  <2> QED  BY <1>1, <1>3, <2>1
<1> QED  BY <1>3, <1>4, <1>5

LEMMA NewlinesGrow ==
  ASSUME NEW s \in Seq(Byte), NEW r \in Runes
  PROVE  /\ Cardinality(Newlines(s)) \in Nat
         /\ Cardinality(Newlines(s \o Encoded(r)))
              = Cardinality(Newlines(s)) + (IF r = Newline THEN 1 ELSE 0)
<1> DEFINE t == s \o Encoded(r)
<1>1. /\ t \in Seq(Byte) /\ Len(t) = Len(s) + Bytes[r]
      /\ \A i \in 1..Len(s) : t[i] = s[i]
      /\ \A k \in 1..Bytes[r] : t[Len(s) + k] = <<r, k>>
      /\ Bytes[r] \in 1..4 /\ Len(s) \in Nat
  <2>1. Bytes[r] \in 1..4
    BY EncodedIs
  <2>2. Len(s) \in Nat
    OBVIOUS
  <2> QED  BY <2>1, <2>2, Longer
<1> HIDE DEF t
<1>2. IsFiniteSet(Newlines(s))
  <2>1. Newlines(s) \subseteq 1..Len(s)
    BY DEF Newlines
  <2>2. IsFiniteSet(1..Len(s))
    <3>1. 1 \in Int /\ Len(s) \in Int
      BY <1>1
    <3> QED  BY <3>1, FS_Interval, Zenon
  <2> QED  BY <2>1, <2>2, FS_Subset
<1>3. DOMAIN t = 1..(Len(s) + Bytes[r]) /\ DOMAIN s = 1..Len(s)
  BY <1>1
<1>4. \A i \in 1..(Len(s) + Bytes[r]) : i \notin 1..Len(s) =>
        i - Len(s) \in 1..Bytes[r] /\ Len(s) + (i - Len(s)) = i
  BY <1>1
<1>5. \A i \in DOMAIN t : t[i] = IF i \in DOMAIN s THEN s[i] ELSE <<r, i - Len(s)>>
  <2> TAKE i \in DOMAIN t
  <2>1. CASE i \in DOMAIN s
    BY <1>1, <1>3, <2>1
  <2>2. CASE i \notin DOMAIN s
    <3>1. i - Len(s) \in 1..Bytes[r] /\ Len(s) + (i - Len(s)) = i
      BY <1>3, <1>4, <2>2
    <3>2. t[Len(s) + (i - Len(s))] = <<r, i - Len(s)>>
      BY <1>1, <3>1
    <3> QED  BY <2>2, <3>1, <3>2
  <2> QED  BY <2>1, <2>2
<1>6. DOMAIN s \subseteq DOMAIN t /\ Len(s) + 1 \in DOMAIN t /\ Len(s) + 1 \notin DOMAIN s
        /\ \A i \in DOMAIN t : i - Len(s) = 1 => i = Len(s) + 1
  BY <1>1, <1>3
<1>7. CASE r = Newline
  <2>1. Newlines(t) = Newlines(s) \cup {Len(s) + 1}
    <3>1. t[Len(s) + 1] = <<Newline, 1>>
      BY <1>1, <1>7
    <3> QED  BY <1>5, <1>6, <1>7, <3>1 DEF Newlines
  <2>2. Len(s) + 1 \notin Newlines(s)
    BY <1>6 DEF Newlines
  <2> QED  BY <1>2, <1>7, <2>1, <2>2, FS_AddElement, FS_CardinalityType DEF t
<1>8. CASE r # Newline
  <2>1. Newlines(t) = Newlines(s)
    BY <1>5, <1>6, <1>8 DEF Newlines
  <2> QED  BY <1>2, <1>8, <2>1, FS_CardinalityType DEF t
<1> QED  BY <1>7, <1>8
(* A kept rune that begins before the limit.                               *)
LEMMA WholeGrows ==
  ASSUME NEW s \in Seq(Byte), Whole(s), Begins(s), NEW r \in Kept, Len(s) < MaxName
  PROVE  Whole(s \o Encoded(r)) /\ Begins(s \o Encoded(r))
<1> DEFINE t == s \o Encoded(r)
           n == Len(s)
<1>1. r \in Runes /\ MaxName \in Nat
  BY TextAssumption
<1>2. /\ t \in Seq(Byte) /\ Len(t) = n + Bytes[r]
      /\ \A i \in 1..n : t[i] = s[i]
      /\ \A k \in 1..Bytes[r] : t[n + k] = <<r, k>>
      /\ Bytes[r] \in 1..4 /\ n \in Nat
      /\ DOMAIN t = 1..(n + Bytes[r]) /\ DOMAIN s = 1..n
  BY <1>1, Longer, EncodedIs
<1> HIDE DEF t, n
<1>3. ASSUME NEW i \in DOMAIN t
      PROVE  /\ t[i][1] \in Kept
             /\ t[i][2] # 1 => i > 1 /\ t[i - 1] = <<t[i][1], t[i][2] - 1>>
             /\ t[i][2] < Bytes[t[i][1]] =>
                  i < Len(t) /\ t[i + 1] = <<t[i][1], t[i][2] + 1>>
             /\ t[i][2] = 1 => i <= MaxName
  <2>1. CASE i \in 1..n
    <3>1. /\ s[i][1] \in Kept
          /\ s[i][2] # 1 => i > 1 /\ s[i - 1] = <<s[i][1], s[i][2] - 1>>
          /\ s[i][2] < Bytes[s[i][1]] => i < n /\ s[i + 1] = <<s[i][1], s[i][2] + 1>>
          /\ s[i][2] = 1 => i <= MaxName
      BY <1>2, <2>1 DEF Whole, Begins, n
    <3>2. t[i] = s[i]
      BY <1>2, <2>1
    <3>3. i > 1 => t[i - 1] = s[i - 1]
      BY <1>2, <2>1
    <3>4. i < n => t[i + 1] = s[i + 1] /\ i < Len(t)
      BY <1>2, <2>1
    <3> QED  BY <3>1, <3>2, <3>3, <3>4
  <2>2. CASE i \notin 1..n
    <3>1. PICK k \in 1..Bytes[r] : i = n + k
      <4>1. i - n \in 1..Bytes[r] /\ i = n + (i - n)
        BY <1>2, <2>2
      <4> QED  BY <4>1
    <3>2. t[i] = <<r, k>> /\ k \in Nat
      BY <1>2, <3>1
    <3>3. k # 1 => i > 1 /\ t[i - 1] = <<r, k - 1>>
      <4> SUFFICES ASSUME k # 1 PROVE i > 1 /\ t[i - 1] = <<r, k - 1>>
        OBVIOUS
      <4>1. k - 1 \in 1..Bytes[r] /\ i - 1 = n + (k - 1) /\ i > 1
        BY <1>2, <3>1
      <4> QED  BY <1>2, <4>1
    <3>4. k < Bytes[r] => i < Len(t) /\ t[i + 1] = <<r, k + 1>>
      <4> SUFFICES ASSUME k < Bytes[r] PROVE i < Len(t) /\ t[i + 1] = <<r, k + 1>>
        OBVIOUS
      <4>1. k + 1 \in 1..Bytes[r] /\ i + 1 = n + (k + 1) /\ i < Len(t)
        BY <1>2, <3>1
      <4> QED  BY <1>2, <4>1
    <3>5. k = 1 => i <= MaxName
      BY <1>1, <1>2, <3>1 DEF n
    <3> QED  BY <3>2, <3>3, <3>4, <3>5
  <2> QED  BY <2>1, <2>2
<1>4. Whole(t) /\ Begins(t)
  BY <1>3 DEF Whole, Begins
<1> QED  BY <1>4 DEF t

(* The next rune of such a text, when those of t are done and u is left.   *)
GoesOn(f, t, u) ==
  LET r == First(u).rune
  IN  /\ r \in Kept
      /\ (t \o Encoded(r)) \o Later(u) = f
      /\ Later(u) # <<>> =>
           Later(u)[1][2] = 1 /\ (Begins(f) => Len(t \o Encoded(r)) < MaxName)

LEMMA NextRune ==
  ASSUME NEW f \in Seq(Byte), Whole(f),
         NEW t \in Seq(Byte), NEW u \in Seq(Byte), t \o u = f,
         u # <<>>, u[1][2] = 1
  PROVE  GoesOn(f, t, u)
<1> DEFINE n == Len(t)
           m == Len(u)
           c == u[1][1]
           r == First(u).rune
<1>1. /\ n \in Nat /\ m \in Nat \ {0} /\ Len(f) = n + m /\ MaxName \in Nat
      /\ \A i \in 1..n : f[i] = t[i]
      /\ \A i \in 1..m : f[n + i] = u[i] /\ u[i] \in Byte
      /\ DOMAIN f = 1..(n + m)
  <2>1. MaxName \in Nat /\ m \in Nat \ {0} /\ n \in Nat
    BY TextAssumption, EmptySeq
  <2>2. /\ Len(f) = n + m
        /\ \A i \in 1..(n + m) : f[i] = IF i <= n THEN t[i] ELSE u[i - n]
    BY ConcatProperties
  <2>3. \A i \in 1..m : f[n + i] = u[i] /\ u[i] \in Byte
    BY <2>1, <2>2
  <2> QED  BY <2>1, <2>2, <2>3
<1>2. c \in Runes /\ u[1] = <<c, 1>> /\ Bytes[c] \in 1..4
  <2>1. u[1] \in Byte
    BY <1>1
  <2> QED  BY <2>1, ByteIs, EncodedIs
<1> HIDE DEF n, m, c
<1>3. ASSUME NEW i \in 1..m
      PROVE  /\ u[i][1] \in Kept
             /\ u[i][2] # 1 => n + i > 1 /\ f[n + i - 1] = <<u[i][1], u[i][2] - 1>>
             /\ u[i][2] < Bytes[u[i][1]] =>
                  i < m /\ u[i + 1] = <<u[i][1], u[i][2] + 1>>
             /\ Begins(f) /\ u[i][2] = 1 => n + i <= MaxName
  <2>1. n + i \in DOMAIN f /\ f[n + i] = u[i]
    BY <1>1
  <2>2. \A j \in DOMAIN f :
          /\ f[j][1] \in Kept
          /\ f[j][2] # 1 => j > 1 /\ f[j - 1] = <<f[j][1], f[j][2] - 1>>
          /\ f[j][2] < Bytes[f[j][1]] =>
               j < Len(f) /\ f[j + 1] = <<f[j][1], f[j][2] + 1>>
          /\ Begins(f) /\ f[j][2] = 1 => j <= MaxName
    BY DEF Whole, Begins
  <2>3. n + i < Len(f) => i < m /\ f[n + i + 1] = u[i + 1]
    <3> SUFFICES ASSUME n + i < Len(f) PROVE i < m /\ f[n + i + 1] = u[i + 1]
      OBVIOUS
    <3>1. i < m /\ i + 1 \in 1..m /\ n + i + 1 = n + (i + 1)
      BY <1>1
    <3> QED  BY <1>1, <3>1
  <2>4. PICK j \in DOMAIN f : j = n + i
    BY <2>1
  <2>5. j - 1 = n + i - 1
    BY <1>1, <2>1, <2>4
  <2>6. f[j] = u[i] /\ (j < Len(f) => i < m /\ f[j + 1] = u[i + 1])
    BY <2>1, <2>3, <2>4
  <2>7. /\ u[i][1] \in Kept
        /\ u[i][2] # 1 => j > 1 /\ f[j - 1] = <<u[i][1], u[i][2] - 1>>
        /\ u[i][2] < Bytes[u[i][1]] => j < Len(f) /\ f[j + 1] = <<u[i][1], u[i][2] + 1>>
        /\ Begins(f) /\ u[i][2] = 1 => j <= MaxName
    BY <2>2, <2>6
  <2> QED  BY <2>4, <2>5, <2>6, <2>7
<1>4. ASSUME NEW k \in 1..3, k < Bytes[c], k <= m, u[k] = <<c, k>>
      PROVE  k + 1 <= m /\ u[k + 1] = <<c, k + 1>>
  <2>1. k \in 1..m
    BY <1>1, <1>4
  <2> QED  BY <1>1, <1>3, <1>4, <2>1
<1>5. \A k \in 1..Bytes[c] : k <= m /\ u[k] = <<c, k>>
  <2>1. 1 <= m /\ u[1] = <<c, 1>>
    BY <1>1, <1>2
  <2>2. Bytes[c] > 1 => 2 <= m /\ u[2] = <<c, 2>>
    BY <1>2, <1>4, <2>1
  <2>3. Bytes[c] > 2 => 3 <= m /\ u[3] = <<c, 3>>
    BY <1>2, <1>4, <2>2
  <2>4. Bytes[c] > 3 => 4 <= m /\ u[4] = <<c, 4>>
    BY <1>2, <1>4, <2>3
  <2> QED  BY <1>2, <2>1, <2>2, <2>3, <2>4
<1>6. First(u) = [rune |-> c, width |-> Bytes[c]] /\ r = c /\ Bytes[r] <= m
  <2>1. Bytes[c] \in 1..Bytes[c]
    BY <1>2
  <2>2. Bytes[c] <= Len(u)
    BY <1>5, <2>1 DEF m
  <2> QED  BY <1>2, <1>5, <2>2, FirstWhole DEF m
<1>7. r \in Kept
  <2>1. 1 \in 1..m
    BY <1>1
  <2> QED  BY <1>3, <1>6, <2>1 DEF c
<1> HIDE DEF r
<1>8. PICK w : w = Bytes[r]
  OBVIOUS
<1>9. w \in 1..4 /\ w <= m /\ r \in Runes
  BY <1>2, <1>6, <1>8
<1> DEFINE a == t \o Encoded(r)
           z == Later(u)
<1>10. /\ z \in Seq(Byte) /\ Len(z) = m - w
       /\ \A i \in 1..(m - w) : z[i] = u[w + i]
  BY <1>6, <1>8, FirstIs DEF m
<1>11. /\ a \in Seq(Byte) /\ Len(a) = n + w
       /\ \A i \in 1..n : a[i] = t[i]
       /\ \A k \in 1..w : a[n + k] = <<r, k>>
  BY <1>8, <1>9, Longer DEF n
<1>12. \A k \in 1..w : u[k] = <<r, k>>
  BY <1>5, <1>6, <1>8
<1> HIDE DEF a, z
<1>13. a \o z = f
  <2>1. /\ a \o z \in Seq(Byte) /\ Len(a \o z) = (n + w) + (m - w)
        /\ \A i \in 1..((n + w) + (m - w)) : (a \o z)[i] =
             IF i <= n + w THEN a[i] ELSE z[i - (n + w)]
    <3>1. /\ a \o z \in Seq(Byte) /\ Len(a \o z) = Len(a) + Len(z)
          /\ \A i \in 1..(Len(a) + Len(z)) : (a \o z)[i] =
               IF i <= Len(a) THEN a[i] ELSE z[i - Len(a)]
      BY <1>10, <1>11, ConcatProperties
    <3>2. Len(a) = n + w /\ Len(z) = m - w
      BY <1>10, <1>11
    <3> QED  BY <3>1, <3>2
  <2>2. (n + w) + (m - w) = n + m
    BY <1>1, <1>9
  <2>3. ASSUME NEW i \in 1..(n + m) PROVE (a \o z)[i] = f[i]
    <3>0. (a \o z)[i] = IF i <= n + w THEN a[i] ELSE z[i - (n + w)]
      BY <2>1, <2>2
    <3>1. CASE i <= n
      <4>1. i \in 1..n /\ i <= n + w
        BY <1>1, <1>9, <3>1
      <4> QED  BY <1>1, <1>11, <3>0, <4>1
    <3>2. CASE i > n /\ i <= n + w
      <4>1. i - n \in 1..w /\ n + (i - n) = i /\ i - n \in 1..m
        BY <1>1, <1>9, <3>2
      <4>2. a[n + (i - n)] = <<r, i - n>> /\ f[n + (i - n)] = u[i - n]
              /\ u[i - n] = <<r, i - n>>
        BY <1>1, <1>11, <1>12, <4>1
      <4> QED  BY <3>0, <3>2, <4>1, <4>2
    <3>3. CASE i > n + w
      <4>1. /\ i - (n + w) \in 1..(m - w) /\ i - n \in 1..m
            /\ w + (i - (n + w)) = i - n /\ n + (i - n) = i
            /\ ~(i <= n + w)
        BY <1>1, <1>9, <3>3
      <4>2. z[i - (n + w)] = u[w + (i - (n + w))]
        BY <1>10, <4>1
      <4>3. f[n + (i - n)] = u[i - n]
        BY <1>1, <4>1
      <4> QED  BY <3>0, <4>1, <4>2, <4>3
    <3>4. i <= n \/ (i > n /\ i <= n + w) \/ i > n + w
      BY <1>1, <1>9
    <3> QED  BY <3>1, <3>2, <3>3, <3>4
  <2> QED  BY <1>1, <2>1, <2>2, <2>3, SeqEqual
<1>14. ASSUME z # <<>>
       PROVE  z[1][2] = 1 /\ (Begins(f) => Len(a) < MaxName)
  <2>1. m - w \in Nat \ {0}
    BY <1>1, <1>9, <1>10, <1>14, EmptySeq
  <2>2. w + 1 \in 1..m /\ n + (w + 1) - 1 = n + w /\ w \in 1..m /\ w \in 1..w
          /\ 1 \in 1..(m - w)
    BY <1>1, <1>9, <2>1, SMTT(30)
  <2> DEFINE b == u[w + 1]
  <2>3. b \in Byte /\ z[1] = b
    BY <1>1, <1>10, <2>2
  <2>4. b[1] \in Runes /\ b[2] \in 1..Bytes[b[1]] /\ Bytes[b[1]] \in 1..4
    BY <2>3, ByteIs, EncodedIs
  <2>5. b[2] = 1
    <3> SUFFICES ASSUME b[2] # 1 PROVE FALSE
      OBVIOUS
    <3>1. f[n + (w + 1) - 1] = <<b[1], b[2] - 1>>
      BY <1>3, <2>2
    <3>2. f[n + w] = u[w] /\ u[w] = <<r, w>>
      BY <1>1, <1>12, <2>2
    <3>3. b[1] = r /\ b[2] - 1 = w
      BY <2>2, <3>1, <3>2
    <3> QED  BY <1>8, <1>9, <2>4, <3>3
  <2>6. Begins(f) => n + (w + 1) <= MaxName
    BY <1>3, <2>2, <2>5
  <2>7. Begins(f) => n + w < MaxName
    BY <1>1, <1>9, <2>6
  <2> QED  BY <1>11, <2>3, <2>5, <2>7
<1>15. (t \o Encoded(r)) \o Later(u) = f
  BY <1>13 DEF a, z
<1>16. Later(u) # <<>> =>
         Later(u)[1][2] = 1 /\ (Begins(f) => Len(t \o Encoded(r)) < MaxName)
  BY <1>14 DEF a, z
<1> QED  BY <1>7, <1>15, <1>16, Zenon DEF GoesOn, r

LEMMA PrefixIs ==
  ASSUME NEW a \in Seq(Byte), NEW z \in Seq(Byte)
  PROVE  IsPrefix(a, a \o z)
<1> DEFINE t == a \o z
<1>1. /\ t \in Seq(Byte) /\ Len(t) = Len(a) + Len(z)
      /\ \A i \in 1..Len(a) : t[i] = a[i]
  <2>1. /\ t \in Seq(Byte) /\ Len(t) = Len(a) + Len(z)
        /\ \A i \in 1..(Len(a) + Len(z)) :
             t[i] = IF i <= Len(a) THEN a[i] ELSE z[i - Len(a)]
    BY ConcatProperties
  <2> QED  BY <2>1
<1> HIDE DEF t
<1>2. Len(a) \in Nat /\ Len(z) \in Nat /\ Len(a) <= Len(t)
  BY <1>1
<1>3. /\ SubSeq(a, 1, Len(a)) \in Seq(Byte) /\ Len(SubSeq(a, 1, Len(a))) = Len(a)
      /\ \A k \in 1..Len(a) : SubSeq(a, 1, Len(a))[k] = a[k]
  BY <1>2
<1>4. /\ SubSeq(t, 1, Len(a)) \in Seq(Byte) /\ Len(SubSeq(t, 1, Len(a))) = Len(a)
      /\ \A k \in 1..Len(a) : SubSeq(t, 1, Len(a))[k] = t[k]
  BY <1>1, <1>2
<1>5. SubSeq(a, 1, Len(a)) = SubSeq(t, 1, Len(a))
  BY <1>1, <1>3, <1>4, SeqEqual
<1>6. IsPrefix(a, t)
  BY <1>2, <1>5 DEF IsPrefix
<1> QED  BY <1>6 DEF t

(* A random suffix is of runes of one byte that are kept.                  *)
LEMMA TailWhole ==
  ASSUME NEW s \in Seq(Byte), Whole(s), NEW x \in RandomTails
  PROVE  s \o x \in Seq(Byte) /\ Whole(s \o x) /\ Len(s \o x) >= Len(s)
<1> DEFINE D == {<<r, 1>> : r \in {k \in Kept : Bytes[k] = 1}}
           t == s \o x
<1>1. x \in Seq(D)
  BY TextAssumption
<1>2. \A d \in D : d \in Byte /\ d[1] \in Kept /\ d[2] = 1 /\ Bytes[d[1]] = 1
  <2> TAKE d \in D
  <2>1. PICK r \in Kept : Bytes[r] = 1 /\ d = <<r, 1>>
    OBVIOUS
  <2>2. r \in Runes
    BY TextAssumption
  <2> QED  BY <2>1, <2>2 DEF Byte
<1> HIDE DEF D
<1>3. x \in Seq(Byte) /\ \A i \in 1..Len(x) : x[i] \in D
  BY <1>1, <1>2
<1>4. /\ t \in Seq(Byte) /\ Len(t) = Len(s) + Len(x)
      /\ \A i \in 1..(Len(s) + Len(x)) :
           t[i] = IF i <= Len(s) THEN s[i] ELSE x[i - Len(s)]
      /\ Len(s) \in Nat /\ Len(x) \in Nat
  BY <1>3, ConcatProperties
<1> HIDE DEF t
<1>5. ASSUME NEW i \in DOMAIN t
      PROVE  /\ t[i][1] \in Kept
             /\ t[i][2] # 1 => i > 1 /\ t[i - 1] = <<t[i][1], t[i][2] - 1>>
             /\ t[i][2] < Bytes[t[i][1]] =>
                  i < Len(t) /\ t[i + 1] = <<t[i][1], t[i][2] + 1>>
  <2>0. i \in 1..(Len(s) + Len(x))
    BY <1>4, <1>5
  <2>1. CASE i <= Len(s)
    <3>1. i \in DOMAIN s /\ t[i] = s[i]
      BY <1>4, <2>0, <2>1
    <3>2. /\ s[i][1] \in Kept
          /\ s[i][2] # 1 => i > 1 /\ s[i - 1] = <<s[i][1], s[i][2] - 1>>
          /\ s[i][2] < Bytes[s[i][1]] =>
               i < Len(s) /\ s[i + 1] = <<s[i][1], s[i][2] + 1>>
      BY <3>1 DEF Whole
    <3>3. i > 1 => t[i - 1] = s[i - 1]
      BY <1>4, <2>0, <2>1
    <3>4. i < Len(s) => t[i + 1] = s[i + 1] /\ i < Len(t)
      BY <1>4, <2>0
    <3> QED  BY <3>1, <3>2, <3>3, <3>4
  <2>2. CASE i > Len(s)
    <3>1. i - Len(s) \in 1..Len(x) /\ t[i] = x[i - Len(s)]
      BY <1>4, <2>0, <2>2
    <3>2. t[i] \in D
      BY <1>3, <3>1
    <3> QED  BY <1>2, <3>2
  <2> QED  BY <1>4, <2>0, <2>1, <2>2
<1>6. Whole(t)
  BY <1>5 DEF Whole
<1>7. Len(t) >= Len(s)
  BY <1>4
<1> QED  BY <1>4, <1>6, <1>7 DEF t
-------------------------------------------------------------------------------
(* Marshal and Unmarshal.                                                  *)
LEMMA Cutting ==
  ASSUME NEW S, NEW s \in Seq(S), NEW t \in Seq(S), NEW n, n = Len(s)
  PROVE  Cut(s \o t, n) = t /\ SubSeq(s \o t, 1, n) = s
<1>1. /\ s \o t \in Seq(S) /\ Len(s \o t) = n + Len(t)
      /\ \A i \in 1..(n + Len(t)) : (s \o t)[i] = IF i <= n THEN s[i] ELSE t[i - n]
      /\ n \in Nat /\ Len(t) \in Nat
  BY ConcatProperties
<1> DEFINE u == s \o t
           m == Len(t)
<1>2. \A i \in 1..n : u[i] = s[i] /\ u[i] \in S
  BY <1>1
<1>3. \A i \in 1..m : u[n + i] = t[i] /\ u[n + i] \in S
  BY <1>1
<1> HIDE DEF u, m
<1>4. n \in Nat /\ m \in Nat /\ Len(u) = n + m
  BY <1>1 DEF u, m
<1>5. Cut(u, n) = t
  <2>1. \A i \in (n + 1)..(n + m) : u[i] \in S
    <3> TAKE i \in (n + 1)..(n + m)
    <3>1. i - n \in 1..m /\ n + (i - n) = i
      BY <1>4
    <3> QED  BY <1>3, <3>1
  <2>2. /\ SubSeq(u, n + 1, n + m) \in Seq(S)
        /\ Len(SubSeq(u, n + 1, n + m)) = IF n + 1 <= n + m THEN (n + m) - (n + 1) + 1 ELSE 0
        /\ \A i \in 1..((n + m) - (n + 1) + 1) :
             SubSeq(u, n + 1, n + m)[i] = u[(n + 1) + i - 1]
    <3>1. n + 1 \in Int /\ n + m \in Int
      BY <1>4
    <3> QED  BY <2>1, <3>1, SubSeqProperties, SMTT(30)
  <2>3. Len(SubSeq(u, n + 1, n + m)) = m /\ (n + m) - (n + 1) + 1 = m
    BY <1>4, <2>2
  <2>4. \A i \in 1..m : SubSeq(u, n + 1, n + m)[i] = t[i]
    <3> TAKE i \in 1..m
    <3>1. (n + 1) + i - 1 = n + i
      BY <1>4
    <3> QED  BY <1>3, <2>2, <2>3, <3>1
  <2>5. SubSeq(u, n + 1, n + m) = t
    BY <2>2, <2>3, <2>4, SeqEqual DEF m
  <2> QED  BY <1>4, <2>5 DEF Cut
<1>6. SubSeq(u, 1, n) = s
  <2>1. /\ SubSeq(u, 1, n) \in Seq(S)
        /\ Len(SubSeq(u, 1, n)) = IF 1 <= n THEN n - 1 + 1 ELSE 0
        /\ \A i \in 1..(n - 1 + 1) : SubSeq(u, 1, n)[i] = u[1 + i - 1]
    <3>1. 1 \in Int /\ n \in Int
      BY <1>4
    <3> QED  BY <1>2, <3>1, SubSeqProperties
  <2>2. Len(SubSeq(u, 1, n)) = n /\ n - 1 + 1 = n
    BY <1>4, <2>1
  <2>3. \A i \in 1..n : SubSeq(u, 1, n)[i] = s[i]
    <3> TAKE i \in 1..n
    <3>1. 1 + i - 1 = i
      BY <1>4
    <3> QED  BY <1>2, <2>1, <2>2, <3>1
  <2> QED  BY <2>1, <2>2, <2>3, SeqEqual
<1> QED  BY <1>5, <1>6 DEF u

LEMMA VarintIs == \A n \in Nat : Varint(n) \in Seq({"digit"} \X Nat)
  BY DigitsSpell DEF Varint, Spells

LEMMA Associative ==
  ASSUME NEW S
  PROVE  \A a, c, d \in Seq(S) : (a \o c) \o d = a \o (c \o d)
  BY ConcatAssociative

Regrouped(a, c, d, e, g) ==
  (((a \o c) \o d) \o e) \o g = a \o (c \o (d \o (e \o g)))
LEMMA Regroup ==
  ASSUME NEW S
  PROVE  \A a, c, d, e, g \in Seq(S) : Regrouped(a, c, d, e, g)
<1> DEFINE T == Seq(S)
           Cat(x, y) == x \o y
<1>1. \A x, y \in T : Cat(x, y) \in T
  BY ConcatProperties
<1>2. \A x, y, z \in T : Cat(Cat(x, y), z) = Cat(x, Cat(y, z))
  BY Associative
<1> HIDE DEF T, Cat
<1>3. \A a, c, d, e, g \in T :
        Cat(Cat(Cat(Cat(a, c), d), e), g) = Cat(a, Cat(c, Cat(d, Cat(e, g))))
  <2> TAKE a, c, d, e, g \in T
  <2>1. Cat(a, c) \in T /\ Cat(Cat(a, c), d) \in T /\ Cat(e, g) \in T /\ Cat(d, Cat(e, g)) \in T
    BY <1>1
  <2>2. Cat(Cat(Cat(Cat(a, c), d), e), g) = Cat(Cat(Cat(a, c), d), Cat(e, g))
    BY <1>2, <2>1
  <2>3. Cat(Cat(Cat(a, c), d), Cat(e, g)) = Cat(Cat(a, c), Cat(d, Cat(e, g)))
    BY <1>2, <2>1
  <2>4. Cat(Cat(a, c), Cat(d, Cat(e, g))) = Cat(a, Cat(c, Cat(d, Cat(e, g))))
    BY <1>2, <2>1
  <2> QED  BY <2>2, <2>3, <2>4
<1> QED  BY <1>3 DEF T, Cat, Regrouped

(* Unmarshal, and what it makes of what Marshal has made.                  *)
ReadOf(b) ==
  LET p == Cut(b, Len(Fixed))
      n == Uvarint(p)
      q == Cut(p, n.width)
      m == Uvarint(Cut(q, n.value))
  IN  <<SubSeq(q, 1, n.value), SubSeq(Cut(Cut(q, n.value), m.width), 1, m.value)>>

LEMMA ReadBack ==
  ASSUME NEW f \in Seq(Byte), NEW t \in Seq(Byte),
         NEW b, b = Fixed \o Varint(Len(f)) \o f \o Varint(Len(t)) \o t
  PROVE  ReadOf(b) = <<f, t>>
<1> DEFINE U == ({"digit"} \X Nat) \cup Byte \cup {Fixed[i] : i \in 1..3}
           V == Varint(Len(f))
           W == Varint(Len(t))
           F == Fixed
<1>1. Len(f) \in Nat /\ Len(t) \in Nat
  OBVIOUS
<1>2. V \in Seq(U) /\ W \in Seq(U) /\ f \in Seq(U) /\ t \in Seq(U)
  BY <1>1, VarintIs, SeqMonotonic
<1>3. F \in Seq(U)
  BY DEF Fixed
<1> HIDE DEF U, V, W, F
<1>4. b = F \o (V \o (f \o (W \o t)))
  <2>1. b = (((F \o V) \o f) \o W) \o t
    BY DEF F, V, W
  <2>2. Regrouped(F, V, f, W, t)
    BY <1>2, <1>3, Regroup
  <2> QED  BY <2>1, <2>2 DEF Regrouped
<1>5. W \o t \in Seq(U)
  BY <1>2, ConcatProperties
<1>6. f \o (W \o t) \in Seq(U)
  BY <1>2, <1>5, ConcatProperties
<1>7. V \o (f \o (W \o t)) \in Seq(U)
  BY <1>2, <1>6, ConcatProperties
<1>15. \A x, y \in Seq(U) : /\ Cut(x \o y, Len(x)) = y
                              /\ SubSeq(x \o y, 1, Len(x)) = x
  BY Cutting
<1> DEFINE p == Cut(b, Len(Fixed))
           n == Uvarint(p)
           q == Cut(p, n.width)
           m == Uvarint(Cut(q, n.value))
<1>8. p = V \o (f \o (W \o t))
  BY <1>3, <1>4, <1>7, <1>15 DEF F
<1>9. n.value = Len(f) /\ n.width = Len(V)
  <2>1. n = [value |-> Len(f), width |-> Len(V)]
    BY <1>1, <1>6, <1>8, VarintReadBack DEF V
  <2> QED  BY <2>1
<1> HIDE DEF p, n
<1>10. q = f \o (W \o t)
  BY <1>2, <1>6, <1>8, <1>9, <1>15, ZenonT(40)
<1>11. SubSeq(q, 1, n.value) = f /\ Cut(q, n.value) = W \o t
  BY <1>2, <1>5, <1>6, <1>9, <1>10, <1>15, ZenonT(40)
<1>12. m.value = Len(t) /\ m.width = Len(W)
  <2>1. m = [value |-> Len(t), width |-> Len(W)]
    BY <1>1, <1>2, <1>11, VarintReadBack DEF W
  <2> QED  BY <2>1
<1>13. Cut(Cut(q, n.value), m.width) = t
  BY <1>2, <1>11, <1>12, <1>15
<1>14. SubSeq(t, 1, m.value) = t
  BY <1>12, SubSeqFull
<1>16. ReadOf(b) = <<SubSeq(q, 1, n.value), SubSeq(Cut(Cut(q, n.value), m.width), 1, m.value)>>
  BY DEF ReadOf, p, n
<1> HIDE DEF q, m
<1> QED  BY <1>11, <1>13, <1>14, <1>16
-------------------------------------------------------------------------------
(* The invariant.                                                          *)
LEMMA Limits == MaxName \in Nat \ {0} /\ MaxText \in Nat \ {0} /\ MaxLines \in Nat \ {0}
  BY TextAssumption

LEMMA InitText == TextInit => TextInv
<1> SUFFICES ASSUME TextInit PROVE TextInv
  OBVIOUS
<1> USE DEF TextInit
<1>1. TextTypeOK
  <2>1. <<>> \in Seq(Byte) /\ 0 \in 0..MaxLines
    BY Limits
  <2> QED  BY <2>1 DEF TextTypeOK
<1>2. entry = [from |-> entry.from, bytes |-> entry.bytes, back |-> entry.back]
  BY DEF NoEntry
<1>3. lines = Cardinality(Newlines(tmp))
  <2>1. Newlines(tmp) = {}
    BY DEF Newlines
  <2> QED  BY <2>1, FS_EmptySet
<1>4. task = "none" /\ round = "first" /\ tmp = <<>>
  BY Zenon
<1> HIDE DEF TextInit
<1> QED  BY <1>1, <1>2, <1>3, <1>4 DEF TextInv

LEMMA NoNewlines == Cardinality(Newlines(<<>>)) = 0
<1>1. Newlines(<<>>) = {}
  BY DEF Newlines
<1> QED  BY <1>1, FS_EmptySet

LEMMA NextNameRune == TextInv /\ NameRune => TextInv'
<1> SUFFICES ASSUME TextInv, NameRune PROVE TextInv'
  OBVIOUS
<1> DEFINE r == First(rest).rune
           kept == IF r \in Kept THEN tmp \o Encoded(r) ELSE tmp
<1>1. /\ task = "name" /\ rest # <<>> /\ UNCHANGED <<task, round, lines, former, entry>>
      /\ tmp' = kept
      /\ rest' = IF Len(kept) >= MaxName THEN <<>> ELSE Later(rest)
  BY DEF NameRune, Strict
<1>2. TextTypeOK /\ NameInv /\ lines = Cardinality(Newlines(tmp))
        /\ entry = [from |-> entry.from, bytes |-> entry.bytes, back |-> entry.back]
  BY <1>1 DEF TextInv
<1>3. /\ rest \in Seq(Byte) /\ tmp \in Seq(Byte) /\ former \in Seq(Byte)
      /\ round \in {"first", "random", "again"} /\ lines \in 0..MaxLines /\ lines = 0 /\ Len(tmp) < MaxName
      /\ MaxName \in Nat /\ Len(tmp) \in Nat
  BY <1>1, <1>2, Limits DEF TextTypeOK, NameInv
<1>4. r \in Runes /\ Later(rest) \in Seq(Byte)
  BY <1>1, <1>3, FirstIs
<1> HIDE DEF r
<1>5. /\ kept \in Seq(Byte) /\ Len(kept) \in Nat /\ Len(kept) <= MaxName + 3
      /\ Cardinality(Newlines(kept)) = Cardinality(Newlines(tmp))
  <2>1. CASE r \in Kept
    <3>1. r # Newline /\ Bytes[r] \in 1..4
      BY <1>4, <2>1, TextAssumption
    <3>2. /\ tmp \o Encoded(r) \in Seq(Byte) /\ Len(tmp \o Encoded(r)) = Len(tmp) + Bytes[r]
          /\ Cardinality(Newlines(tmp \o Encoded(r))) = Cardinality(Newlines(tmp)) + 0
          /\ Cardinality(Newlines(tmp)) \in Nat
      BY <1>3, <1>4, <3>1, Longer, NewlinesGrow
    <3> QED  BY <1>3, <2>1, <3>1, <3>2
  <2>2. CASE r \notin Kept
    BY <1>3, <2>2
  <2> QED  BY <2>1, <2>2
<1> HIDE DEF kept
<1>6. rest' \in Seq(Byte) /\ (rest' # <<>> => Len(kept) < MaxName)
  BY <1>1, <1>3, <1>4, <1>5
<1>7. CASE round # "first"
  <2>1. /\ Whole(former) /\ tmp \o rest = former /\ rest[1][2] = 1
        /\ round = "again" => Begins(former)
        /\ round = "random" => Whole(tmp) /\ Begins(tmp)
    BY <1>1, <1>2, <1>3, <1>7 DEF NameInv
  <2>2. /\ r \in Kept /\ (tmp \o Encoded(r)) \o Later(rest) = former
        /\ Later(rest) # <<>> =>
             /\ Later(rest)[1][2] = 1
             /\ Begins(former) => Len(tmp \o Encoded(r)) < MaxName
    <3>1. GoesOn(former, tmp, rest)
      BY <1>1, <1>3, <2>1, NextRune
    <3> QED  BY <3>1 DEF GoesOn, r
  <2>3. kept = tmp \o Encoded(r) /\ kept \o Later(rest) = former
    BY <2>2 DEF kept
  <2>4. ASSUME round = "again" PROVE NameInv'
    <3>1. Len(kept) >= MaxName => Later(rest) = <<>>
      BY <1>3, <1>5, <2>1, <2>2, <2>3, <2>4
    <3>2. rest' = Later(rest)
      BY <1>1, <3>1
    <3>3. tmp' \o rest' = former' /\ (rest' # <<>> => rest'[1][2] = 1)
      BY <1>1, <2>2, <2>3, <3>2
    <3>4. Whole(former') /\ Begins(former')
      BY <1>1, <2>1, <2>4
    <3>5. /\ round' = "again" /\ lines' = 0 /\ Len(tmp') <= MaxName + 3
          /\ rest' # <<>> => Len(tmp') < MaxName
      BY <1>1, <1>3, <1>5, <1>6, <2>4
    <3> QED  BY <3>3, <3>4, <3>5 DEF NameInv
  <2>5. ASSUME round = "random" PROVE NameInv'
    <3>1. Whole(kept) /\ Begins(kept)
      BY <1>3, <2>1, <2>2, <2>3, <2>5, WholeGrows
    <3>2. IsPrefix(kept, former)
      BY <1>4, <1>5, <2>3, PrefixIs
    <3>3. ASSUME rest' # <<>> PROVE tmp' \o rest' = former' /\ rest'[1][2] = 1
      BY <1>1, <2>2, <2>3, <3>3
    <3>4. ASSUME rest' = <<>> PROVE CutOf(tmp', former')
      <4>1. CASE Len(kept) >= MaxName
        BY <1>1, <3>2, <4>1 DEF CutOf
      <4>2. CASE ~(Len(kept) >= MaxName)
        <5>1. Later(rest) = <<>>
          BY <1>1, <3>4, <4>2
        <5>2. kept = former
          BY <1>5, <2>3, <5>1, ConcatEmptySeq
        <5> QED  BY <1>1, <3>2, <5>2 DEF CutOf
      <4> QED  BY <4>1, <4>2
    <3>5. /\ round' = "random" /\ lines' = 0 /\ Len(tmp') <= MaxName + 3
          /\ rest' # <<>> => Len(tmp') < MaxName
          /\ tmp' = kept /\ former' = former
      BY <1>1, <1>3, <1>5, <1>6, <2>5
    <3>6. Whole(former') /\ Whole(tmp') /\ Begins(tmp')
      BY <2>1, <3>1, <3>5
    <3> QED  BY <3>3, <3>4, <3>5, <3>6 DEF NameInv
  <2>6. NameInv'
    <3>1. round = "again" \/ round = "random"
      BY <1>3, <1>7
    <3> QED  BY <2>4, <2>5, <3>1
  <2> QED
    BY <1>1, <1>2, <1>3, <1>5, <1>6, <2>6 DEF TextInv, TextTypeOK
<1>8. CASE round = "first"
  <2>1. Whole(tmp) /\ Begins(tmp)
    BY <1>2, <1>8 DEF NameInv
  <2>2. Whole(kept) /\ Begins(kept)
    BY <1>3, <2>1, WholeGrows DEF kept
  <2>3. NameInv'
    BY <1>1, <1>3, <1>5, <1>6, <1>8, <2>2 DEF NameInv, Whole, Begins
  <2> QED
    BY <1>1, <1>2, <1>3, <1>5, <1>6, <2>3 DEF TextInv, TextTypeOK
<1> QED  BY <1>7, <1>8

(* The next round begins with a text.                                      *)
LEMMA NextRound ==
  ASSUME TextInv, task = "name", rest = <<>>, tmp # <<>>,
         NEW f \in Seq(Byte), Whole(f), Len(f) >= Len(tmp),
         rest' = f, former' = f, tmp' = <<>>, UNCHANGED <<task, lines, entry>>,
         \/ round' = "random"
         \/ round' = "again" /\ Begins(f)
  PROVE  TextInv'
<1>1. /\ TextTypeOK /\ lines = 0
      /\ entry = [from |-> entry.from, bytes |-> entry.bytes, back |-> entry.back]
  BY DEF TextInv, NameInv
<1>2. /\ tmp \in Seq(Byte) /\ <<>> \in Seq(Byte) /\ MaxName \in Nat \ {0}
      /\ lines \in 0..MaxLines /\ Len(<<>>) = 0
  BY <1>1, Limits DEF TextTypeOK
<1>3. f # <<>> /\ f[1][2] = 1
  <2>1. Len(tmp) # 0 /\ Len(tmp) \in Nat
    BY <1>2, EmptySeq
  <2>2. Len(f) \in Nat /\ Len(f) > 0
    BY <2>1
  <2>3. f # <<>> /\ 1 \in DOMAIN f
    BY <1>2, <2>2
  <2>4. \A i \in DOMAIN f : f[i][2] # 1 => i > 1
    BY DEF Whole
  <2> QED  BY <2>3, <2>4
<1>4. tmp' \o rest' = former'
  BY <1>2, ConcatEmptySeq
<1>5. Whole(<<>>) /\ Begins(<<>>)
  BY DEF Whole, Begins
<1>6. NameInv'
  BY <1>1, <1>2, <1>3, <1>4, <1>5 DEF NameInv, Whole, Begins
<1> QED
  BY <1>1, <1>2, <1>6, NoNewlines DEF TextInv, TextTypeOK

(* A name of a page that sends it again.                                   *)
LEMMA NextNameAgain == TextInv /\ NameAgain => TextInv'
<1> SUFFICES ASSUME TextInv, NameAgain PROVE TextInv'
  OBVIOUS
<1>1. /\ task = "name" /\ rest = <<>> /\ tmp # <<>> /\ round # "again"
      /\ round' = "again" /\ former' = tmp
      /\ rest' = tmp /\ tmp' = <<>> /\ UNCHANGED <<task, lines, entry>>
  BY DEF NameAgain
<1>2. TextTypeOK /\ NameInv
  BY <1>1 DEF TextInv
<1>3. tmp \in Seq(Byte) /\ round \in {"first", "random", "again"}
  BY <1>2 DEF TextTypeOK
<1>4. Whole(tmp) /\ Begins(tmp)
  BY <1>1, <1>2, <1>3 DEF NameInv
<1>5. Len(tmp) >= Len(tmp)
  BY <1>3
<1> QED  BY <1>1, <1>3, <1>4, <1>5, NextRound

(* A name with a random suffix.                                            *)
LEMMA NextRandomize ==
  ASSUME TextInv, NEW x \in RandomTails, Randomize(x)
  PROVE  TextInv'
<1>1. /\ task = "name" /\ rest = <<>> /\ tmp # <<>> /\ round = "first"
      /\ round' = "random" /\ former' = tmp \o x
      /\ rest' = tmp \o x /\ tmp' = <<>> /\ UNCHANGED <<task, lines, entry>>
  BY DEF Randomize
<1>2. tmp \in Seq(Byte) /\ Whole(tmp)
  BY <1>1 DEF TextInv, TextTypeOK, NameInv
<1>3. tmp \o x \in Seq(Byte) /\ Whole(tmp \o x) /\ Len(tmp \o x) >= Len(tmp)
  BY <1>2, TailWhole
<1> QED  BY <1>1, <1>3, NextRound

LEMMA NextMessageRune == TextInv /\ MessageRune => TextInv'
<1> SUFFICES ASSUME TextInv, MessageRune PROVE TextInv'
  OBVIOUS
<1> DEFINE r == First(rest).rune
           n == lines + (IF r = Newline THEN 1 ELSE 0)
           t == tmp \o Encoded(r)
<1>1. /\ task = "message" /\ rest # <<>> /\ UNCHANGED <<task, round, former, entry>>
      /\ \/ rest' = Later(rest) /\ UNCHANGED <<tmp, lines>>
         \/ /\ tmp' = t /\ lines' = n
            /\ rest' = IF Ends(t, n) THEN <<>> ELSE Later(rest)
  BY DEF MessageRune
<1>2. /\ TextTypeOK /\ MessageInv /\ lines = Cardinality(Newlines(tmp))
      /\ entry = [from |-> entry.from, bytes |-> entry.bytes, back |-> entry.back]
  BY <1>1 DEF TextInv
<1>3. /\ rest \in Seq(Byte) /\ tmp \in Seq(Byte) /\ former \in Seq(Byte)
      /\ round \in {"first", "random", "again"} /\ lines \in Nat /\ lines < MaxLines /\ Len(tmp) < MaxText
      /\ MaxText \in Nat /\ MaxLines \in Nat /\ Len(tmp) \in Nat
  BY <1>1, <1>2, Limits DEF TextTypeOK, MessageInv
<1>4. r \in Runes /\ Later(rest) \in Seq(Byte)
  BY <1>1, <1>3, FirstIs
<1> HIDE DEF r
<1>5. /\ t \in Seq(Byte) /\ Len(t) = Len(tmp) + Bytes[r] /\ Bytes[r] \in 1..4
      /\ Cardinality(Newlines(t)) = n
  BY <1>2, <1>3, <1>4, Longer, NewlinesGrow, EncodedIs
<1>6. n \in 0..MaxLines /\ Len(t) \in Nat /\ Len(t) <= MaxText + 3
  BY <1>3, <1>5
<1> HIDE DEF n, t
<1>7. CASE rest' = Later(rest) /\ UNCHANGED <<tmp, lines>>
  <2>1. MessageInv'
    BY <1>1, <1>2, <1>3, <1>7 DEF MessageInv
  <2> QED
    BY <1>1, <1>2, <1>3, <1>4, <1>7, <2>1 DEF TextInv, TextTypeOK
<1>8. CASE /\ tmp' = t /\ lines' = n
           /\ rest' = IF Ends(t, n) THEN <<>> ELSE Later(rest)
  <2>1. rest' \in Seq(Byte)
    BY <1>4, <1>8
  <2>2. rest' # <<>> => Len(t) < MaxText /\ n < MaxLines
    BY <1>3, <1>6, <1>8 DEF Ends
  <2>3. MessageInv'
    BY <1>6, <1>8, <2>2 DEF MessageInv
  <2> QED
    BY <1>1, <1>2, <1>3, <1>5, <1>6, <1>8, <2>1, <2>3 DEF TextInv, TextTypeOK
<1> QED  BY <1>1, <1>7, <1>8

LEMMA NextEntry ==
  TextInv /\ ((\E from \in Nicks : Sent(from)) \/ Marshal \/ Unmarshal) => TextInv'
<1> SUFFICES ASSUME TextInv, (\E from \in Nicks : Sent(from)) \/ Marshal \/ Unmarshal
             PROVE  TextInv'
  OBVIOUS
<1>1. /\ TextTypeOK /\ lines = Cardinality(Newlines(tmp))
      /\ entry = [from |-> entry.from, bytes |-> entry.bytes, back |-> entry.back]
  BY DEF TextInv
<1>2. ASSUME NEW f \in Nicks, Sent(f) PROVE TextInv'
  <2>1. /\ task' = "store" /\ rest = <<>> /\ UNCHANGED <<round, rest, tmp, lines, former>>
        /\ entry' = [entry EXCEPT !.from = f] /\ f \in Seq(Byte)
    BY <1>2, TextAssumption DEF Sent
  <2>2. entry' = [from |-> f, bytes |-> entry.bytes, back |-> entry.back]
    BY <1>1, <2>1
  <2>3. EntryInv'
    BY <2>1, <2>2 DEF EntryInv, RoundTrip
  <2> QED  BY <1>1, <2>1, <2>2, <2>3 DEF TextInv, TextTypeOK, Newlines
<1>3. CASE Marshal
  <2> DEFINE b == Fixed \o Varint(Len(entry.from)) \o entry.from
                    \o Varint(Len(tmp)) \o tmp
  <2>1. /\ task = "store" /\ task' = "stored" /\ UNCHANGED <<round, rest, tmp, lines, former>>
        /\ entry' = [entry EXCEPT !.bytes = b]
    BY <1>3 DEF Marshal
  <2>2. EntryInv
    BY <2>1 DEF TextInv
  <2>3. entry' = [from |-> entry.from, bytes |-> b, back |-> entry.back]
    <3> HIDE DEF b
    <3> QED  BY <1>1, <2>1
  <2>4. entry'.from = entry.from /\ entry'.bytes = b
    <3> HIDE DEF b
    <3> QED  BY <2>3
  <2>5. entry'.bytes = Fixed \o Varint(Len(entry'.from)) \o entry'.from
                         \o Varint(Len(tmp')) \o tmp'
    BY <2>1, <2>4
  <2> HIDE DEF b
  <2>6. EntryInv'
    BY <2>1, <2>2, <2>4, <2>5 DEF EntryInv, RoundTrip
  <2> QED  BY <1>1, <2>1, <2>3, <2>6 DEF TextInv, TextTypeOK, Newlines
<1>4. CASE Unmarshal
  <2> DEFINE back == ReadOf(entry.bytes)
  <2>1. /\ task = "stored" /\ task' = "loaded" /\ UNCHANGED <<round, rest, tmp, lines, former>>
        /\ entry' = [entry EXCEPT !.back = back]
    BY <1>4 DEF Unmarshal, ReadOf
  <2>2. EntryInv
    BY <2>1 DEF TextInv
  <2>3. /\ entry.from \in Seq(Byte) /\ tmp \in Seq(Byte)
        /\ entry.bytes = Fixed \o Varint(Len(entry.from)) \o entry.from
                           \o Varint(Len(tmp)) \o tmp
    BY <1>1, <2>1, <2>2 DEF EntryInv, TextTypeOK
  <2>4. back = <<entry.from, tmp>>
    BY <2>3, ReadBack
  <2> HIDE DEF back
  <2>5. entry' = [from |-> entry.from, bytes |-> entry.bytes, back |-> back]
    BY <1>1, <2>1
  <2>6. EntryInv'
    BY <2>1, <2>2, <2>4, <2>5 DEF EntryInv, RoundTrip
  <2> QED  BY <1>1, <2>1, <2>5, <2>6 DEF TextInv, TextTypeOK, Newlines
<1> QED  BY <1>2, <1>3, <1>4

LEMMA TextInvariance == TextSpec => []TextInv
<1>1. TextInv /\ [TextNext]_textVars => TextInv'
  <2> SUFFICES ASSUME TextInv, [TextNext]_textVars PROVE TextInv'
    OBVIOUS
  <2>1. CASE Comes
    <3>1. /\ task = "none" /\ task' \in {"name", "message"} /\ rest' \in Seq(Byte)
          /\ UNCHANGED <<round, tmp, lines, former, entry>>
      BY <2>1, TextAssumption DEF Comes
    <3>2. /\ round = "first" /\ tmp = <<>> /\ lines = 0 /\ TextTypeOK
      BY <3>1, NoNewlines DEF TextInv
    <3>3. NameInv' /\ MessageInv'
      BY <3>1, <3>2, Limits DEF NameInv, MessageInv, Whole, Begins
    <3> QED  BY <3>1, <3>2, <3>3 DEF TextInv, TextTypeOK, Newlines
  <2>2. CASE NextText
    <3>1. /\ task' = "none" /\ round' = "first" /\ rest' = <<>> /\ tmp' = <<>> /\ lines' = 0
          /\ former' = <<>> /\ entry' = NoEntry
      BY <2>2 DEF NextText
    <3>2. TextTypeOK'
      <4>1. <<>> \in Seq(Byte) /\ 0 \in 0..MaxLines
        BY Limits
      <4> QED  BY <3>1, <4>1 DEF TextTypeOK
    <3> QED  BY <3>1, <3>2, NoNewlines DEF TextInv, NoEntry
  <2>3. CASE UNCHANGED textVars
    BY <2>3 DEF textVars, TextInv, TextTypeOK, NameInv, MessageInv, EntryInv, RoundTrip,
       Newlines, Whole, Begins
  <2> QED
    BY <2>1, <2>2, <2>3, NextNameRune, NextNameAgain, NextRandomize,
       NextMessageRune, NextEntry
       DEF TextNext
<1> QED  BY <1>1, InitText, PTL DEF TextSpec
-------------------------------------------------------------------------------
(* What sanitizeStrict and sanitizeMessage build is a text of its type that*)
(* exceeds the limit by three bytes at most, a message has at most MaxLines*)
(* lines, and the count of newlines is right (index.go:157, 174).          *)
THEOREM LengthCorrect == TextSpec => []LengthLimited
<1>1. TextInv => LengthLimited
  <2> SUFFICES ASSUME TextInv PROVE LengthLimited
    OBVIOUS
  <2>1. TextTypeOK /\ lines = Cardinality(Newlines(tmp)) /\ MaxLines \in Nat
    BY Limits DEF TextInv
  <2>2. task = "name" => Len(tmp) <= MaxName + 3
    BY DEF TextInv, NameInv
  <2>3. task = "message" => Len(tmp) <= MaxText + 3 /\ lines <= MaxLines
    <3>1. lines \in 0..MaxLines
      BY <2>1 DEF TextTypeOK
    <3> QED  BY <2>1, <3>1 DEF TextInv, MessageInv
  <2> QED  BY <2>1, <2>2, <2>3 DEF LengthLimited, Newlines
<1> QED  BY <1>1, TextInvariance, PTL

(* A sanitized name is a fixed point of sanitizeStrict, a random suffix is *)
(* lost at the limit only, and what Unmarshal reads is what Marshal has    *)
(* written (index.go:18, 40, 126, 139; message.go:24-43).                  *)
THEOREM TextsCorrect == TextSpec => []TextsStay
<1>1. TextInv => TextsStay
  <2> SUFFICES ASSUME TextInv PROVE TextsStay
    OBVIOUS
  <2>1. NameIsStable
    <3> SUFFICES ASSUME task = "name", rest = <<>>
                 PROVE  /\ round = "again" => tmp = former
                        /\ round = "random" => CutOf(tmp, former)
      BY DEF NameIsStable, CutOf
    <3>1. ASSUME round = "again" PROVE tmp = former
      <4>1. tmp \o rest = former /\ tmp \in Seq(Byte)
        BY <3>1 DEF TextInv, NameInv, TextTypeOK
      <4> QED  BY <4>1, ConcatEmptySeq
    <3>2. ASSUME round = "random" PROVE CutOf(tmp, former)
      BY <3>2 DEF TextInv, NameInv
    <3> QED  BY <3>1, <3>2
  <2>2. RoundTrip
    BY DEF TextInv, EntryInv, RoundTrip
  <2> QED  BY <2>1, <2>2 DEF TextsStay
<1> QED  BY <1>1, TextInvariance, PTL

-------------------------------------------------------------------------------
USE SendGateAssumption

-------------------------------------------------------------------------------
(* Types.                                                                  *)

(* tokenStore is finite, and only tokens that could be decrypted get there.*)
Holding == {"look", "use"} \cup Spent
Store ==
  /\ IsFiniteSet(used)
  /\ \A r \in Req : pc[r] \in Holding => tok[r] \in Token

(* What is in tokenStore after Use.                                        *)
LEMMA UseBounded ==
  ASSUME IsFiniteSet(used), Cardinality(used) <= Cap, NEW t,
         NEW gone \in SUBSET (used \ {t}),
         Cardinality(gone) =
           IF Cardinality(used \cup {t}) > Room THEN 1 ELSE 0
  PROVE  /\ IsFiniteSet((used \cup {t}) \ gone)
         /\ Cardinality((used \cup {t}) \ gone) <= Cap
<1> DEFINE full == used \cup {t}
<1>1. /\ IsFiniteSet(full)
      /\ Cardinality(full) \in Nat /\ Cardinality(used) \in Nat
      /\ Cardinality(full) <= Cardinality(used) + 1
  <2>1. /\ IsFiniteSet(full)
        /\ Cardinality(full) =
             IF t \in used THEN Cardinality(used) ELSE Cardinality(used) + 1
    BY FS_AddElement
  <2> HIDE DEF full
  <2>2. Cardinality(used) \in Nat /\ Cardinality(full) \in Nat
    BY <2>1, FS_CardinalityType
  <2> QED  BY <2>1, <2>2
<1>2. IsFiniteSet(gone)
  BY <1>1, FS_Subset
<1>3. CASE Cardinality(full) > Room
  <2>1. PICK x : gone = {x}
    BY <1>2, <1>3, FS_Singleton
  <2>2. x \in full
    BY <2>1
  <2>3. /\ IsFiniteSet(full \ {x})
        /\ Cardinality(full \ {x}) = Cardinality(full) - 1
    BY <1>1, <2>2, FS_RemoveElement
  <2> HIDE DEF full
  <2>4. Cardinality(full \ {x}) <= Cap
    BY <1>1, <2>3
  <2> QED  BY <2>1, <2>3, <2>4 DEF full
<1>4. CASE ~(Cardinality(full) > Room)
  <2>1. gone = {}
    BY <1>2, <1>4, FS_EmptySet
  <2> QED  BY <1>1, <1>4, <2>1 DEF Room
<1> QED  BY <1>3, <1>4

LEMMA InitTypeOK == Init => TypeOK /\ Store
BY FS_EmptySet DEF Init, TypeOK, Store, Holding, Spent

LEMMA NextTypeOK == TypeOK /\ Store /\ [Next]_vars => TypeOK' /\ Store'
<1> SUFFICES ASSUME TypeOK, Store, [Next]_vars PROVE TypeOK' /\ Store'
  OBVIOUS
<1> USE DEF TypeOK, Store, Holding, Spent, Goto, Refused, gateVars, histVars,
            reqVars
<1>1. CASE UNCHANGED vars
  BY <1>1 DEF vars
<1>2. CASE \E t \in Token : Make(t)
  BY <1>2 DEF Make
<1>3. CASE \E a \in Ip : Cool(a)
  <2> PICK a \in Ip : Cool(a)
    BY <1>3
  <2>1. timers' \in [Ip -> Nat] /\ hot' \subseteq Ip
    BY DEF Cool
  <2> QED  BY <2>1 DEF Cool
<1>4. ASSUME NEW r \in Req,
             (\E t \in Token \cup {Forged} : Post(r, t)) \/ Runs(r)
      PROVE  TypeOK' /\ Store'
  <2>1. CASE \E t \in Token \cup {Forged} : Post(r, t)
    BY <2>1 DEF Post
  <2>2. CASE CheckIP(r)
    <3>1. besideIp' \in [Req -> SUBSET Req] /\ cooled' \in [Ip -> SUBSET Req]
      BY <2>2 DEF CheckIP, Adding
    <3> QED  BY <2>2, <3>1 DEF CheckIP
  <2>3. CASE AddIP(r)
    BY <2>3 DEF AddIP
  <2>4. CASE Arm(r)
    <3>1. timers' \in [Ip -> Nat]
      BY <2>4 DEF Arm
    <3> QED  BY <2>4, <3>1 DEF Arm
  <2>5. CASE OpenToken(r)
    BY <2>5 DEF OpenToken
  <2>6. CASE Look(r)
    <3>1. besideTok' \in [Req -> SUBSET Req]
      BY <2>6 DEF Look, Using
    <3> QED  BY <2>6, <3>1 DEF Look
  <2>7. CASE Use(r)
    <3>1. PICK gone \in SUBSET (used \ {tok[r]}) :
            /\ Cardinality(gone) =
                 IF Cardinality(used \cup {tok[r]}) > Room THEN 1 ELSE 0
            /\ used' = (used \cup {tok[r]}) \ gone
            /\ evicted' = evicted \cup gone
      BY <2>7 DEF Use
    <3>2. IsFiniteSet(used') /\ Cardinality(used') <= Cap
      BY <3>1, UseBounded
    <3>3. tok[r] \in Token
      BY <2>7 DEF Use
    <3>4. used' \subseteq Token /\ evicted' \subseteq Token
      BY <3>1, <3>3
    <3> QED  BY <2>7, <3>2, <3>4 DEF Use
  <2>8. CASE Judge(r)
    BY <2>8 DEF Judge
  <2> QED  BY <1>4, <2>1, <2>2, <2>3, <2>4, <2>5, <2>6, <2>7, <2>8 DEF Runs
<1> QED  BY <1>1, <1>2, <1>3, <1>4 DEF Next

(* The types of SendGate; in particular tokenStore never outgrows its      *)
(* capacity (send.go:29).                                                  *)
THEOREM TypeCorrect == Spec => []TypeOK
<1>1. TypeOK /\ Store /\ [Next]_vars => (TypeOK /\ Store)'
  BY NextTypeOK
<1> QED  BY InitTypeOK, <1>1, PTL DEF Spec

LEMMA Typed == Spec => [](TypeOK /\ Store)
<1>1. TypeOK /\ Store /\ [Next]_vars => (TypeOK /\ Store)'
  BY NextTypeOK
<1> QED  BY InitTypeOK, <1>1, PTL DEF Spec

-------------------------------------------------------------------------------
(* Tokens.                                                                 *)

(* The overlap of two requests with one token, from tokenStore.Get on; and *)
(* what has been used is in tokenStore, or was forgotten.                  *)
Overlap(r, q) == r \in besideTok[q] \/ q \in besideTok[r]
Past == {"use"} \cup Spent
Tokens ==
  /\ \A r \in Req : pc[r] \in Spent => tok[r] \in used \cup evicted
  /\ \A r, q \in Req :
       (r # q /\ tok[r] = tok[q] /\ pc[r] \in Past /\ pc[q] \in Past
          /\ tok[r] \notin evicted)
         => Overlap(r, q)

LEMMA TokensSuffice == Tokens => TokenOnce
BY DEF Tokens, TokenOnce, Past, Overlap

LEMMA InitTokens == Init => Tokens
BY DEF Init, Tokens, Past, Spent

(* A step that brings nobody past tokenStore and forgets nothing.          *)
LEMMA TokensKept ==
  ASSUME Tokens,
         \A r \in Req : pc'[r] \in Past =>
                          pc[r] \in Past /\ tok'[r] = tok[r],
         \A r \in Req : pc'[r] \in Spent => pc[r] \in Spent,
         \A r \in Req : besideTok[r] \subseteq besideTok'[r],
         UNCHANGED <<used, evicted>>
  PROVE  Tokens'
BY DEF Tokens, Past, Overlap

LEMMA NextTokens == TypeOK /\ Store /\ Tokens /\ [Next]_vars => Tokens'
<1> SUFFICES ASSUME TypeOK, Store, Tokens, [Next]_vars PROVE Tokens'
  OBVIOUS
<1> USE DEF Goto, gateVars, histVars, reqVars
<1>1. CASE UNCHANGED vars
  BY <1>1, TokensKept DEF vars, Past
<1>2. CASE \E t \in Token : Make(t)
  BY <1>2, TokensKept DEF Make, Past
<1>3. CASE \E a \in Ip : Cool(a)
  BY <1>3, TokensKept DEF Cool, Past
<1>4. ASSUME NEW r \in Req,
             (\E t \in Token \cup {Forged} : Post(r, t)) \/ Runs(r)
      PROVE  Tokens'
  <2>1. CASE \E t \in Token \cup {Forged} : Post(r, t)
    BY <2>1, TokensKept DEF Post, Past, Spent, TypeOK
  <2>2. CASE CheckIP(r)
    BY <2>2, TokensKept DEF CheckIP, Past, Spent, TypeOK
  <2>3. CASE AddIP(r)
    BY <2>3, TokensKept DEF AddIP, Past, Spent, TypeOK
  <2>4. CASE Arm(r)
    BY <2>4, TokensKept DEF Arm, Past, Spent, TypeOK
  <2>5. CASE OpenToken(r)
    BY <2>5, TokensKept DEF OpenToken, Past, Spent, TypeOK
  <2>6. CASE Look(r) /\ ~Fresh(r)
    BY <2>6, TokensKept DEF Look, Past, Spent, TypeOK
  <2>7. CASE Look(r) /\ Fresh(r)
    <3>1. /\ pc' = [pc EXCEPT ![r] = "use"]
          /\ besideTok' = [besideTok EXCEPT ![r] = @ \cup Using(r)]
          /\ UNCHANGED <<tok, used, evicted>>
      BY <2>7 DEF Look
    <3>2. \A q \in Req : besideTok[q] \subseteq besideTok'[q]
      BY <3>1 DEF TypeOK
    <3>3. \A q \in Req : q # r => pc'[q] = pc[q]
      BY <3>1 DEF TypeOK
    <3>4. pc'[r] = "use"
      BY <3>1 DEF TypeOK
    <3>5. ASSUME NEW q \in Req, q # r, tok[q] = tok[r], pc[q] \in Past,
                 tok[r] \notin evicted
          PROVE  q \in besideTok'[r]
      <4>1. pc[q] = "use"
        BY <2>7, <3>5 DEF Tokens, Fresh, Past
      <4>2. q \in Using(r)
        BY <3>5, <4>1 DEF Using
      <4> QED  BY <3>1, <4>2 DEF TypeOK
    <3>6. \A q \in Req : pc'[q] \in Spent => tok'[q] \in used' \cup evicted'
      BY <3>1, <3>3, <3>4 DEF Tokens, Spent
    <3>7. ASSUME NEW p \in Req, NEW q \in Req, p # q, tok'[p] = tok'[q],
                 pc'[p] \in Past, pc'[q] \in Past, tok'[p] \notin evicted'
          PROVE  Overlap(p, q)'
      <4>1. CASE p = r
        BY <3>1, <3>3, <3>5, <3>7, <4>1 DEF Overlap
      <4>2. CASE q = r
        BY <3>1, <3>3, <3>5, <3>7, <4>2 DEF Overlap
      <4>3. CASE p # r /\ q # r
        BY <3>1, <3>2, <3>3, <3>7, <4>3 DEF Tokens, Overlap
      <4> QED  BY <4>1, <4>2, <4>3
    <3> QED  BY <3>6, <3>7 DEF Tokens
  <2>8. CASE Use(r)
    <3>1. /\ tok[r] \in used'
          /\ used \subseteq used' \cup evicted' /\ evicted \subseteq evicted'
          /\ pc' = [pc EXCEPT ![r] = "judge"] /\ pc[r] = "use"
          /\ UNCHANGED <<tok, besideTok>>
      BY <2>8 DEF Use
    <3>2. \A q \in Req : q # r => pc'[q] = pc[q]
      BY <3>1 DEF TypeOK
    <3>3. \A q \in Req : pc'[q] \in Past => pc[q] \in Past
      BY <3>1, <3>2 DEF Past
    <3>4. \A q \in Req : pc'[q] \in Spent => tok'[q] \in used' \cup evicted'
      BY <3>1, <3>2 DEF Tokens
    <3> QED  BY <3>1, <3>3, <3>4 DEF Tokens, Overlap
  <2>9. CASE Judge(r)
    BY <2>9, TokensKept DEF Judge, Past, Spent, TypeOK
  <2> QED  BY <1>4, <2>1, <2>2, <2>3, <2>4, <2>5, <2>6, <2>7, <2>8, <2>9
           DEF Runs
<1> QED  BY <1>1, <1>2, <1>3, <1>4 DEF Next

(* A token is used twice only by requests that overlap between Get and Add *)
(* of tokenStore, or after tokenStore has forgotten it (send.go:64-67).    *)
THEOREM TokensCorrect == Spec => []TokenOnce
<1>1. Init => Tokens
  BY InitTokens
<1>2. TypeOK /\ Store /\ Tokens /\ [Next]_vars => Tokens'
  BY NextTokens
<1> QED  BY <1>1, <1>2, Typed, TokensSuffice, PTL DEF Spec

-------------------------------------------------------------------------------
(* Cooldowns.                                                              *)

(* Whoever passed CheckIP since cdMap lost its address is in cdMap, or is  *)
(* about to get there; and the overlap of two requests of one address.     *)
Along(r, q) == r \in besideIp[q] \/ q \in besideIp[r]
Cooldowns ==
  /\ \A a \in Ip : \A r \in cooled[a] :
       ip[r] = a /\ (pc[r] = "add" \/ a \in hot)
  /\ OnePerCooldown

LEMMA InitCooldowns == Init => Cooldowns
BY DEF Init, Cooldowns, OnePerCooldown

(* A step that leaves cdMap and those who are about to get there alone.    *)
LEMMA CooldownsKept ==
  ASSUME TypeOK, Cooldowns,
         \A r \in Req : pc[r] = "add" => pc'[r] = "add",
         \A r \in Req : besideIp[r] \subseteq besideIp'[r],
         UNCHANGED <<ip, hot, cooled>>
  PROVE  Cooldowns'
BY DEF TypeOK, Cooldowns, OnePerCooldown

LEMMA NextCooldowns == TypeOK /\ Cooldowns /\ [Next]_vars => Cooldowns'
<1> SUFFICES ASSUME TypeOK, Cooldowns, [Next]_vars PROVE Cooldowns'
  OBVIOUS
<1> USE DEF Goto, gateVars, histVars, reqVars
<1>1. CASE UNCHANGED vars
  BY <1>1, CooldownsKept DEF vars
<1>2. CASE \E t \in Token : Make(t)
  BY <1>2, CooldownsKept DEF Make
<1>3. CASE \E a \in Ip : Cool(a)
  <2> PICK a \in Ip : Cool(a)
    BY <1>3
  <2>1. /\ cooled' = [cooled EXCEPT ![a] = {}] /\ hot' = hot \ {a}
        /\ UNCHANGED <<pc, ip, besideIp>>
    BY DEF Cool
  <2> QED  BY <2>1 DEF TypeOK, Cooldowns, OnePerCooldown
<1>4. ASSUME NEW r \in Req,
             (\E t \in Token \cup {Forged} : Post(r, t)) \/ Runs(r)
      PROVE  Cooldowns'
  <2>1. CASE \E t \in Token \cup {Forged} : Post(r, t)
    BY <2>1, CooldownsKept DEF Post, TypeOK
  <2>2. CASE CheckIP(r) /\ ~Passes(r)
    BY <2>2, CooldownsKept DEF CheckIP, TypeOK
  <2>3. CASE CheckIP(r) /\ Passes(r)
    <3>1. /\ pc[r] = "check" /\ pc' = [pc EXCEPT ![r] = "add"]
          /\ besideIp' = [besideIp EXCEPT ![r] = @ \cup Adding(r)]
          /\ cooled' = [cooled EXCEPT ![ip[r]] = @ \cup {r}]
          /\ UNCHANGED <<ip, hot>>
      BY <2>3 DEF CheckIP
    <3>2. ip[r] \in Ip
      BY DEF TypeOK
    <3>3. \A q \in Req : besideIp[q] \subseteq besideIp'[q]
      BY <3>1 DEF TypeOK
    <3>4. \A a \in Ip :
            cooled'[a] = IF a = ip[r] THEN cooled[a] \cup {r} ELSE cooled[a]
      BY <3>1 DEF TypeOK
    <3>5. ASSUME NEW a \in Ip, NEW q \in cooled'[a]
          PROVE  ip'[q] = a /\ (pc'[q] = "add" \/ a \in hot')
      BY <3>1, <3>4, <3>5 DEF TypeOK, Cooldowns
    <3>6. ASSUME r \notin Admin, NEW q \in cooled[ip[r]]
          PROVE  q \in besideIp'[r]
      <4>1. ip[r] \notin hot
        BY <2>3, <3>6 DEF Passes
      <4>2. q \in Adding(r)
        BY <3>2, <3>6, <4>1 DEF Adding, Cooldowns, TypeOK
      <4> QED  BY <3>1, <4>2 DEF TypeOK
    <3>7. ASSUME NEW a \in Ip, NEW p \in cooled'[a] \ Admin,
                 NEW q \in cooled'[a] \ Admin, p # q
          PROVE  Along(p, q)'
      <4>1. CASE p = r
        BY <3>1, <3>4, <3>5, <3>6, <3>7, <4>1 DEF Along
      <4>2. CASE q = r
        BY <3>1, <3>4, <3>5, <3>6, <3>7, <4>2 DEF Along
      <4>3. CASE p # r /\ q # r
        <5>1. p \in cooled[a] \ Admin /\ q \in cooled[a] \ Admin
          BY <3>4, <4>3
        <5>2. p \in Req /\ q \in Req
          BY <5>1 DEF TypeOK
        <5>3. Along(p, q)
          BY <3>7, <5>1 DEF Cooldowns, OnePerCooldown, Along
        <5> QED  BY <3>3, <5>2, <5>3 DEF Along
      <4> QED  BY <4>1, <4>2, <4>3
    <3> QED  BY <3>5, <3>7 DEF Cooldowns, OnePerCooldown, Along
  <2>4. CASE AddIP(r)
    BY <2>4 DEF AddIP, TypeOK, Cooldowns, OnePerCooldown
  <2>5. CASE Arm(r)
    BY <2>5, CooldownsKept DEF Arm, TypeOK
  <2>6. CASE OpenToken(r)
    BY <2>6, CooldownsKept DEF OpenToken, TypeOK
  <2>7. CASE Look(r)
    BY <2>7, CooldownsKept DEF Look, TypeOK
  <2>8. CASE Use(r)
    BY <2>8, CooldownsKept DEF Use, TypeOK
  <2>9. CASE Judge(r)
    BY <2>9, CooldownsKept DEF Judge, TypeOK
  <2> QED  BY <1>4, <2>1, <2>2, <2>3, <2>4, <2>5, <2>6, <2>7, <2>8, <2>9
           DEF Runs
<1> QED  BY <1>1, <1>2, <1>3, <1>4 DEF Next

(* Between two deletions from cdMap an address that is not an admin's gets *)
(* one request through CheckIP, or requests that overlap (ctx.go:181-194). *)
THEOREM CooldownCorrect == Spec => []OnePerCooldown
<1>1. Cooldowns => OnePerCooldown
  BY DEF Cooldowns
<1> QED  BY <1>1, InitCooldowns, NextCooldowns, Typed, PTL DEF Spec

-------------------------------------------------------------------------------
(* Timers.                                                                 *)

LEMMA ArmingFinite ==
  ASSUME NEW a
  PROVE  IsFiniteSet(Arming(a)) /\ Cardinality(Arming(a)) \in Nat
<1>1. Arming(a) \in SUBSET Req
  BY DEF Arming
<1>2. IsFiniteSet(Req)
  BY DEF SendGateAssumption
<1> QED  BY <1>1, <1>2, FS_Subset, FS_CardinalityType

LEMMA InitTimers == Init => OneTimerPerAddress
<1> SUFFICES ASSUME Init, NEW a \in Ip
             PROVE  timers[a] + Cardinality(Arming(a))
                      = IF a \in hot THEN 1 ELSE 0
  BY DEF OneTimerPerAddress
<1>1. Arming(a) = {}
  BY DEF Init, Arming
<1> QED  BY <1>1, FS_EmptySet DEF Init

(* A step that leaves cdMap, its timers and those about to arm one alone.  *)
LEMMA TimersKept ==
  ASSUME OneTimerPerAddress,
         \A r \in Req : pc'[r] = "arm" <=> pc[r] = "arm",
         UNCHANGED <<ip, hot, timers>>
  PROVE  OneTimerPerAddress'
<1>1. \A a \in Ip : Arming(a)' = Arming(a)
  BY DEF Arming
<1> QED  BY <1>1 DEF OneTimerPerAddress

LEMMA NextTimers ==
  TypeOK /\ OneTimerPerAddress /\ [Next]_vars => OneTimerPerAddress'
<1> SUFFICES ASSUME TypeOK, OneTimerPerAddress, [Next]_vars
             PROVE  OneTimerPerAddress'
  OBVIOUS
<1> USE DEF Goto, gateVars, histVars, reqVars
<1>1. CASE UNCHANGED vars
  BY <1>1, TimersKept DEF vars
<1>2. CASE \E t \in Token : Make(t)
  BY <1>2, TimersKept DEF Make
<1>3. CASE \E a \in Ip : Cool(a)
  <2> PICK a \in Ip : Cool(a)
    BY <1>3
  <2>1. /\ timers[a] > 0
        /\ timers' = [timers EXCEPT ![a] = @ - 1] /\ hot' = hot \ {a}
        /\ UNCHANGED <<pc, ip>>
    BY DEF Cool
  <2>2. \A b \in Ip : Arming(b)' = Arming(b)
    BY <2>1 DEF Arming
  <2>3. timers[a] + Cardinality(Arming(a)) = IF a \in hot THEN 1 ELSE 0
    BY DEF OneTimerPerAddress
  <2>4. timers[a] = 1 /\ Cardinality(Arming(a)) = 0
    BY <2>1, <2>3, ArmingFinite DEF TypeOK
  <2>5. ASSUME NEW b \in Ip
        PROVE  timers'[b] + Cardinality(Arming(b)')
                 = IF b \in hot' THEN 1 ELSE 0
    <3>1. CASE b = a
      BY <2>1, <2>2, <2>4, <3>1 DEF TypeOK
    <3>2. CASE b # a
      BY <2>1, <2>2, <3>2 DEF TypeOK, OneTimerPerAddress
    <3> QED  BY <3>1, <3>2
  <2> QED  BY <2>5 DEF OneTimerPerAddress
<1>4. ASSUME NEW r \in Req,
             (\E t \in Token \cup {Forged} : Post(r, t)) \/ Runs(r)
      PROVE  OneTimerPerAddress'
  <2> DEFINE a == ip[r]
  <2>0. a \in Ip
    BY DEF TypeOK
  <2>1. CASE \E t \in Token \cup {Forged} : Post(r, t)
    BY <2>1, TimersKept DEF Post, TypeOK
  <2>2. CASE CheckIP(r)
    BY <2>2, TimersKept DEF CheckIP, TypeOK
  <2>3. CASE AddIP(r) /\ ~Arms(r)
    <3>1. hot' = hot
      BY <2>3 DEF AddIP, Arms
    <3> QED  BY <2>3, <3>1, TimersKept DEF AddIP, TypeOK
  <2>4. CASE AddIP(r) /\ Arms(r)
    <3>1. /\ pc[r] = "add" /\ pc' = [pc EXCEPT ![r] = "arm"]
          /\ a \notin hot /\ hot' = hot \cup {a}
          /\ UNCHANGED <<ip, timers>>
      BY <2>4 DEF AddIP, Arms
    <3>2. Arming(a)' = Arming(a) \cup {r} /\ r \notin Arming(a)
      BY <3>1 DEF Arming, TypeOK
    <3>3. Cardinality(Arming(a)') = Cardinality(Arming(a)) + 1
      BY <3>2, ArmingFinite, FS_AddElement
    <3>4. \A b \in Ip : b # a => Arming(b)' = Arming(b)
      BY <3>1 DEF Arming, TypeOK
    <3>5. timers[a] + Cardinality(Arming(a)) = 0
      BY <2>0, <3>1 DEF OneTimerPerAddress
    <3>6. timers[a] + Cardinality(Arming(a)') = 1
      BY <2>0, <3>3, <3>5, ArmingFinite DEF TypeOK
    <3>7. ASSUME NEW b \in Ip
          PROVE  timers'[b] + Cardinality(Arming(b)')
                   = IF b \in hot' THEN 1 ELSE 0
      <4>1. CASE b = a
        BY <3>1, <3>6, <4>1
      <4>2. CASE b # a
        BY <3>1, <3>4, <4>2 DEF OneTimerPerAddress
      <4> QED  BY <4>1, <4>2
    <3> QED  BY <3>7 DEF OneTimerPerAddress
  <2>5. CASE Arm(r)
    <3>1. /\ pc[r] = "arm" /\ pc' = [pc EXCEPT ![r] = "open"]
          /\ timers' = [timers EXCEPT ![a] = @ + 1]
          /\ UNCHANGED <<ip, hot>>
      BY <2>5 DEF Arm
    <3>2. Arming(a)' = Arming(a) \ {r} /\ r \in Arming(a)
      BY <3>1 DEF Arming, TypeOK
    <3>3. Cardinality(Arming(a)') = Cardinality(Arming(a)) - 1
      BY <3>2, ArmingFinite, FS_RemoveElement
    <3>4. \A b \in Ip : b # a => Arming(b)' = Arming(b)
      BY <3>1 DEF Arming, TypeOK
    <3>5. timers'[a] + Cardinality(Arming(a)')
            = timers[a] + Cardinality(Arming(a))
      BY <2>0, <3>1, <3>3, ArmingFinite DEF TypeOK
    <3>6. ASSUME NEW b \in Ip
          PROVE  timers'[b] + Cardinality(Arming(b)')
                   = IF b \in hot' THEN 1 ELSE 0
      <4>1. CASE b = a
        BY <3>1, <3>5, <4>1 DEF OneTimerPerAddress
      <4>2. CASE b # a
        BY <3>1, <3>4, <4>2 DEF OneTimerPerAddress, TypeOK
      <4> QED  BY <4>1, <4>2
    <3> QED  BY <3>6 DEF OneTimerPerAddress
  <2>6. CASE OpenToken(r)
    BY <2>6, TimersKept DEF OpenToken, TypeOK
  <2>7. CASE Look(r)
    BY <2>7, TimersKept DEF Look, TypeOK
  <2>8. CASE Use(r)
    BY <2>8, TimersKept DEF Use, TypeOK
  <2>9. CASE Judge(r)
    BY <2>9, TimersKept DEF Judge, TypeOK
  <2> QED  BY <1>4, <2>1, <2>2, <2>3, <2>4, <2>5, <2>6, <2>7, <2>8, <2>9
           DEF Runs
<1> QED  BY <1>1, <1>2, <1>3, <1>4 DEF Next

(* An address is in cdMap exactly as long as one timer is to take it out,  *)
(* armed or about to be (ctx.go:194-198).                                  *)
THEOREM TimerCorrect == Spec => []OneTimerPerAddress
BY InitTimers, NextTimers, TypeCorrect, PTL DEF Spec
===============================================================================
