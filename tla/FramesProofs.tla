---------------------------- MODULE FramesProofs ----------------------------
(***************************************************************************)
(* Proofs about the frames: a frame is read as it was written, and no      *)
(* cutting of the stream loses the frame boundaries - for every size of a  *)
(* byte, all limits, and all frames that fit into a ByteArray.             *)
(***************************************************************************)
EXTENDS Frames, ProofLemmas

LEMMA SizeFacts ==
  /\ Byte \in Nat /\ Half \in Nat /\ Byte = 2 * Half /\ Half >= 4
  /\ Medium = Half - 2 /\ Long = Half - 1
<1>1. Byte \in Nat /\ Byte % 2 = 0 /\ Byte >= 8
  BY FramesAssumption
<1>. QED
  BY <1>1 DEF Half, Medium, Long

\* Dividing twice is dividing by the product.
LEMMA DivisionTwice ==
  ASSUME NEW a \in Nat, NEW m \in Nat \ {0}, NEW n \in Nat \ {0}
  PROVE  (a \div m) \div n = a \div (n * m)
<1>. DEFINE q == a \div m
            r == a % m
            s == q \div n
            t == q % n
<1>1. q \in Nat /\ r \in 0 .. m - 1 /\ a = (m * q) + r
  BY Division
<1>2. s \in Nat /\ t \in 0 .. n - 1 /\ q = (n * s) + t
  BY <1>1, Division
<1>. HIDE DEF q, r, s, t
<1>3. n * m \in Nat \ {0} /\ (m * t) + r \in 0 .. (n * m) - 1
  <2>1. n * m \in Nat \ {0} /\ m * t \in Nat
    BY <1>2, SMTT(20)
  <2>2. m * t <= m * (n - 1)
    BY <1>2, SMTT(20)
  <2>3. m * (n - 1) = (n * m) - m
    BY SMTT(20)
  <2>. QED
    BY <1>1, <2>1, <2>2, <2>3
<1>4. a = ((n * m) * s) + ((m * t) + r)
  <2>1. m * ((n * s) + t) = ((n * m) * s) + (m * t)
    BY <1>2, SMTT(20)
  <2>2. (n * m) * s \in Nat /\ m * t \in Nat
    BY <1>2, SMTT(20)
  <2>. QED
    BY <1>1, <1>2, <2>1, <2>2
<1>5. a \div (n * m) = s
  <2>1. (((n * m) * s) + ((m * t) + r)) \div (n * m) = s
    BY <1>2, <1>3, Quotient
  <2>. QED
    BY <1>4, <2>1, Zenon
<1>. QED
  BY <1>5 DEF q, s

LEMMA PowerDef ==
  /\ Power[0] = 1
  /\ \A k \in 1 .. 8 : Power[k] = Byte * Power[k - 1]
<1>. DEFINE Def(f) == f = [n \in 0 .. 8 |-> IF n = 0 THEN 1 ELSE Byte * f[n - 1]]
            T == {k \in Nat :
                    \E f : f = [n \in 0 .. k |-> IF n = 0 THEN 1 ELSE Byte * f[n - 1]]}
<1>1. 0 \in T
  <2>. DEFINE f == [n \in 0 .. 0 |-> 1]
  <2>1. f = [n \in 0 .. 0 |-> IF n = 0 THEN 1 ELSE Byte * f[n - 1]]
    OBVIOUS
  <2>. QED
    BY <2>1
<1>2. ASSUME NEW k \in 0 .. 8 - 1, k \in T
      PROVE  k + 1 \in T
  <2>1. PICK f : f = [n \in 0 .. k |-> IF n = 0 THEN 1 ELSE Byte * f[n - 1]]
    BY <1>2
  <2>. DEFINE g == [n \in 0 .. k + 1 |-> IF n = k + 1 THEN Byte * f[k] ELSE f[n]]
  <2>2. ASSUME NEW n \in 0 .. k + 1
        PROVE  g[n] = IF n = 0 THEN 1 ELSE Byte * g[n - 1]
    <3>1. CASE n = k + 1
      BY <3>1
    <3>2. CASE n # k + 1
      <4>1. n \in 0 .. k /\ f[n] = IF n = 0 THEN 1 ELSE Byte * f[n - 1]
        BY <2>1, <3>2
      <4>2. n # 0 => n - 1 \in 0 .. k + 1 /\ n - 1 # k + 1
        BY <3>2
      <4>. QED
        BY <3>2, <4>1, <4>2
    <3>. QED
      BY <3>1, <3>2
  <2>3. g = [n \in 0 .. k + 1 |-> IF n = 0 THEN 1 ELSE Byte * g[n - 1]]
    <3>1. g = [n \in 0 .. k + 1 |-> g[n]]
      OBVIOUS
    <3>. HIDE DEF g
    <3>. QED
      BY <2>2, <3>1, Zenon
  <2>. HIDE DEF g
  <2>. QED
    BY <2>3
<1>3. \E f : Def(f)
  <2>1. 8 \in T
    <3>. HIDE DEF T
    <3>. QED
      BY <1>1, <1>2, UpTo, 8 \in Nat /\ 8 \in 0 .. 8
  <2>. QED
    BY <2>1
<1>4. Def(Power)
  <2>. HIDE DEF Def
  <2>1. Power = CHOOSE f : Def(f)
    BY DEF Power, Def
  <2>. QED
    BY <1>3, <2>1
<1>. QED
  BY <1>4
LEMMA PowerFacts == \A k \in 0 .. 8 : Power[k] \in Nat \ {0}
<1>. DEFINE T == {k \in 0 .. 8 : Power[k] \in Nat \ {0}}
<1>1. 0 \in T
  BY PowerDef
<1>2. ASSUME NEW k \in 0 .. 8 - 1, k \in T
      PROVE  k + 1 \in T
  <2>1. Power[k + 1] = Byte * Power[k]
    BY PowerDef, k + 1 \in 1 .. 8, (k + 1) - 1 = k
  <2>2. Byte \in Nat \ {0} /\ Power[k] \in Nat \ {0}
    BY <1>2, FramesAssumption
  <2>3. \A a, b \in Nat \ {0} : a * b \in Nat \ {0}
    BY SMTT(20)
  <2>. QED
    BY <2>1, <2>2, <2>3, k + 1 \in 0 .. 8
<1>3. \A k \in 0 .. 8 : k \in T
  <2>. HIDE DEF T
  <2>. QED
    BY <1>1, <1>2, UpTo, 8 \in Nat
<1>. QED
  BY <1>3

-----------------------------------------------------------------------------
(* The extended length.                                                    *)

LEMMA ValueUnfolded ==
  ASSUME NEW s
  PROVE  Value(s) = (CHOOSE f : f = [t \in SUBSET DOMAIN s |->
                       IF t = {} THEN 0
                       ELSE (f[t \ {Max(t)}] * Byte) + s[Max(t)]])[DOMAIN s]
  BY DEF Value, FoldLeft, MapThenFoldSet

LEMMA ValueDef ==
  ASSUME NEW n \in Nat, NEW s, \A k \in 1 .. n : s[k] \in Nat
  PROVE  \E f : f = [t \in SUBSET (1 .. n) |->
                       IF t = {} THEN 0
                       ELSE (f[t \ {Max(t)}] * Byte) + s[Max(t)]]
<1>. DEFINE G == [k \in 1 .. n |-> [x \in Nat |-> (x * Byte) + s[k]]]
<1>1. G \in [1 .. n -> [Nat -> Nat]]
  <2>1. \A x \in Nat : x * Byte \in Nat
    BY FramesAssumption
  <2>. QED
    BY <2>1
<1>. HIDE DEF G
<1>2. PICK f \in [SUBSET (1 .. n) -> Nat] : FoldsUpTo(n, G, 0, f)
  BY <1>1, FoldExists, 0 \in Nat, Zenon
<1>3. ASSUME NEW t \in SUBSET (1 .. n), t # {}
      PROVE  f[t] = (f[t \ {Max(t)}] * Byte) + s[Max(t)]
  <2>1. Max(t) \in 1 .. n
    BY <1>3, GreatestUpTo
  <2>2. f[t \ {Max(t)}] \in Nat
    OBVIOUS
  <2>3. f[t] = G[Max(t)][f[t \ {Max(t)}]]
    BY <1>2, <1>3 DEF FoldsUpTo
  <2>. QED
    BY <2>1, <2>2, <2>3 DEF G
<1>4. f = [t \in SUBSET (1 .. n) |-> f[t]]
  OBVIOUS
<1>5. f = [t \in SUBSET (1 .. n) |->
             IF t = {} THEN 0 ELSE (f[t \ {Max(t)}] * Byte) + s[Max(t)]]
  BY <1>2, <1>3, <1>4, Zenon DEF FoldsUpTo
<1>. QED
  BY <1>5

\* What has been read of a length after k bytes, and after the last one.
LEMMA ValueIsLast ==
  ASSUME NEW s, NEW n \in Nat, DOMAIN s = 1 .. n,
         \A k \in 1 .. n : s[k] \in Nat,
         NEW p, p[0] = 0, \A k \in 1 .. n : p[k] = (p[k - 1] * Byte) + s[k]
  PROVE  Value(s) = p[n]
<1>. DEFINE Def(f) == f = [t \in SUBSET (1 .. n) |->
                             IF t = {} THEN 0
                             ELSE (f[t \ {Max(t)}] * Byte) + s[Max(t)]]
            iter == CHOOSE f : Def(f)
            T == {k \in 0 .. n : iter[1 .. k] = p[k]}
<1>1. Value(s) = iter[1 .. n]
  BY ValueUnfolded
<1>2. Def(iter)
  <2>1. \E f : Def(f)
    BY ValueDef
  <2>. HIDE DEF Def
  <2>. QED
    BY <2>1
<1>. HIDE DEF iter
<1>3. 0 \in T
  <2>1. iter[1 .. 0] = 0
    BY <1>2, 1 .. 0 = {}
  <2>. QED
    BY <2>1
<1>4. ASSUME NEW k \in 0 .. n - 1, k \in T
      PROVE  k + 1 \in T
  <2>. DEFINE t == 1 .. k + 1
  <2>1. k + 1 \in 1 .. n /\ (k + 1) - 1 = k
    OBVIOUS
  <2>2. t \in SUBSET (1 .. n) /\ t # {} /\ Max(t) = k + 1 /\ t \ {k + 1} = 1 .. k
    BY <2>1, InitialSegment
  <2>. HIDE DEF t
  <2>3. iter[t] = (iter[t \ {Max(t)}] * Byte) + s[Max(t)]
    BY <1>2, <2>2, Zenon
  <2>4. iter[t] = (p[k] * Byte) + s[k + 1]
    BY <1>4, <2>2, <2>3
  <2>5. p[k + 1] = (p[k] * Byte) + s[k + 1]
    BY <2>1
  <2>6. k + 1 \in 0 .. n
    OBVIOUS
  <2>. QED
    BY <2>4, <2>5, <2>6 DEF t
<1>5. n \in T
  <2>. HIDE DEF T
  <2>. QED
    BY <1>3, <1>4, UpTo, n \in 0 .. n
<1>. QED
  BY <1>1, <1>5

\* A length that fits is read back from its bytes.
LEMMA LengthSurvives ==
  ASSUME NEW v \in Nat, NEW n \in 1 .. 8
  PROVE  /\ LengthBytes(v, n) \in Seq(0 .. Byte - 1)
         /\ Len(LengthBytes(v, n)) = n
         /\ v < Power[n] => Value(LengthBytes(v, n)) = v
<1>. DEFINE s == LengthBytes(v, n)
            p == [k \in 0 .. n |-> v \div Power[n - k]]
<1>0. Byte \in Nat \ {0} /\ \A k \in 0 .. 8 : Power[k] \in Nat \ {0}
  BY FramesAssumption, PowerFacts
<1>1. ASSUME NEW k \in 1 .. n
      PROVE  v \div Power[n - k] \in Nat /\ (v \div Power[n - k]) % Byte \in 0 .. Byte - 1
  <2>1. Power[n - k] \in Nat \ {0}
    BY <1>0, n - k \in 0 .. 8
  <2>2. v \div Power[n - k] \in Nat
    BY <2>1, Division
  <2>. QED
    BY <1>0, <2>2, Division
<1>2. s \in [1 .. n -> 0 .. Byte - 1]
  BY <1>1 DEF LengthBytes
<1>3. s \in Seq(0 .. Byte - 1) /\ Len(s) = n /\ DOMAIN s = 1 .. n
  <2>. HIDE DEF s
  <2>. QED
    BY <1>2, FunctionIsSeq, n \in Nat
<1>4. ASSUME v < Power[n]
      PROVE  Value(s) = v
  <2>1. p[0] = 0
    <3>1. n - 0 = n /\ Power[n] \in Nat \ {0} /\ v \in 0 .. Power[n] - 1
      BY <1>0, <1>4
    <3>2. ((Power[n] * 0) + v) \div Power[n] = 0
      BY <3>1, Quotient
    <3>3. (Power[n] * 0) + v = v
      BY <3>1
    <3>4. 0 \in 0 .. n
      OBVIOUS
    <3>. QED
      BY <3>1, <3>2, <3>3, <3>4
  <2>2. ASSUME NEW k \in 1 .. n
        PROVE  p[k] = (p[k - 1] * Byte) + s[k]
    <3>. DEFINE w == Power[n - k]
                x == v \div w
    <3>1. k \in 0 .. n /\ k - 1 \in 0 .. n /\ n - k \in 0 .. 8 /\ n - (k - 1) \in 1 .. 8
          /\ (n - (k - 1)) - 1 = n - k
      OBVIOUS
    <3>2. w \in Nat \ {0} /\ Power[n - (k - 1)] = Byte * w
      BY <1>0, <3>1, PowerDef
    <3>3. p[k] = x /\ p[k - 1] = v \div (Byte * w)
      BY <3>1, <3>2
    <3>4. s[k] = x % Byte
      BY DEF LengthBytes
    <3>5. x \in Nat
      BY <1>1
    <3>. HIDE DEF w, p, s
    <3>6. v \div (Byte * w) = x \div Byte
      BY <1>0, <3>2, DivisionTwice
    <3>. HIDE DEF x
    <3>7. x \div Byte \in Nat /\ x = (Byte * (x \div Byte)) + (x % Byte)
      BY <1>0, <3>5, Division
    <3>8. Byte * (x \div Byte) = (x \div Byte) * Byte
      BY <1>0, <3>7, SMTT(20)
    <3>. QED
      BY <3>3, <3>4, <3>6, <3>7, <3>8
  <2>3. p[n] = v
    <3>1. p[n] = v \div Power[0]
      BY n \in 0 .. n, n - n = 0
    <3>2. v \div 1 = v
      BY SMTT(20)
    <3>. QED
      BY <3>1, <3>2, PowerDef
  <2>4. \A k \in 1 .. n : s[k] \in Nat
    <3>1. TAKE k \in 1 .. n
    <3>2. s[k] \in 0 .. Byte - 1
      BY <1>2
    <3>. HIDE DEF s
    <3>. QED
      BY <1>0, <3>2
  <2>. HIDE DEF s, p
  <2>. QED
    BY <1>3, <2>1, <2>2, <2>3, <2>4, ValueIsLast, n \in Nat
<1>. QED
  BY <1>3, <1>4

-----------------------------------------------------------------------------
(* What a frame looks like on the wire.                                    *)

Bytes == 0 .. Byte - 1

\* Bytes of the extended length that Header writes for a payload of z bytes.
LengthBytesOf(z) == IF z < Medium THEN 0 ELSE IF z < Power[2] THEN 2 ELSE 8

\* The lower half of the second byte.
LengthCode(z) == IF z < Medium THEN z ELSE IF z < Power[2] THEN Medium ELSE Long

MaskFlag(f) == IF f.mask = << >> THEN 0 ELSE 1

LEMMA HalfByte ==
  ASSUME NEW flag \in {0, 1}, NEW low \in 0 .. Half - 1
  PROVE  /\ (flag * Half) + low \in Bytes
         /\ ((flag * Half) + low) % Half = low
         /\ (flag * Half) + low >= Half <=> flag = 1
<1>1. flag * Half = Half * flag /\ flag \in Nat
  BY SizeFacts
<1>2. ((Half * flag) + low) % Half = low
  BY <1>1, SizeFacts, Quotient
<1>3. CASE flag = 0
  BY <1>1, <1>2, <1>3, SizeFacts DEF Bytes
<1>4. CASE flag = 1
  BY <1>1, <1>2, <1>4, SizeFacts DEF Bytes
<1>. QED
  BY <1>3, <1>4

LEMMA HeaderFacts ==
  ASSUME NEW f, IsFrame(f), NEW z \in Nat
  PROVE  /\ Header(f, z) \in Seq(Bytes)
         /\ Len(Header(f, z)) = 2 + LengthBytesOf(z)
         /\ Header(f, z)[1] = (f.fin * Half) + f.type
         /\ Header(f, z)[2] = (MaskFlag(f) * Half) + LengthCode(z)
         /\ LengthCode(z) \in 0 .. Half - 1
         /\ \A k \in 1 .. LengthBytesOf(z) :
              Header(f, z)[2 + k] = LengthBytes(z, LengthBytesOf(z))[k]
<1>. DEFINE L == LengthBytesOf(z)
            Two == << (f.fin * Half) + f.type, (MaskFlag(f) * Half) + LengthCode(z) >>
            H == Header(f, z)
<1>1. LengthCode(z) \in 0 .. Half - 1 /\ L \in {0, 2, 8}
  BY SizeFacts DEF LengthCode, LengthBytesOf
<1>2. Two \in Seq(Bytes) /\ Len(Two) = 2
  <2>1. (f.fin * Half) + f.type \in Bytes
    BY HalfByte DEF IsFrame
  <2>2. MaskFlag(f) \in {0, 1}
    BY DEF MaskFlag
  <2>3. (MaskFlag(f) * Half) + LengthCode(z) \in Bytes
    BY <1>1, <2>2, HalfByte
  <2>. QED
    BY <2>1, <2>3
<1>3. H = IF L = 0 THEN Two ELSE Two \o LengthBytes(z, L)
  <2>1. CASE z < Medium
    <3>1. ~ (z >= Medium)
      BY <2>1, SizeFacts
    <3>. QED
      BY <2>1, <3>1 DEF Header, MaskFlag, LengthCode, LengthBytesOf
  <2>2. CASE ~ (z < Medium) /\ z < Power[2]
    <3>1. z >= Medium
      BY <2>2, SizeFacts
    <3>. QED
      BY <2>2, <3>1 DEF Header, MaskFlag, LengthCode, LengthBytesOf
  <2>3. CASE ~ (z < Medium) /\ ~ (z < Power[2])
    BY <2>3 DEF Header, MaskFlag, LengthCode, LengthBytesOf
  <2>. QED
    BY <2>1, <2>2, <2>3
<1>4. CASE L = 0
  <2>1. Two[1] = (f.fin * Half) + f.type /\ Two[2] = (MaskFlag(f) * Half) + LengthCode(z)
    OBVIOUS
  <2>. HIDE DEF Two, H
  <2>2. H = Two /\ \A k \in 1 .. L : FALSE
    BY <1>3, <1>4
  <2>. QED
    BY <1>1, <1>2, <1>4, <2>1, <2>2 DEF H
<1>5. CASE L # 0
  <2>1. L \in 1 .. 8
    BY <1>1, <1>5
  <2>2. LengthBytes(z, L) \in Seq(Bytes) /\ Len(LengthBytes(z, L)) = L
    BY <2>1, LengthSurvives DEF Bytes
  <2>3. Two[1] = (f.fin * Half) + f.type /\ Two[2] = (MaskFlag(f) * Half) + LengthCode(z)
    OBVIOUS
  <2>. HIDE DEF Two, H, L
  <2>4. /\ H \in Seq(Bytes)
        /\ Len(H) = 2 + L
        /\ \A i \in 1 .. 2 + L : H[i] = IF i <= 2 THEN Two[i] ELSE LengthBytes(z, L)[i - 2]
    <3>. DEFINE l == LengthBytes(z, L)
    <3>1. H = Two \o l
      BY <1>3, <1>5
    <3>2. l \in Seq(Bytes) /\ Len(l) = L
      BY <2>2
    <3>. HIDE DEF l
    <3>3. /\ Two \o l \in Seq(Bytes)
          /\ Len(Two \o l) = 2 + L
          /\ \A i \in 1 .. 2 + L : (Two \o l)[i] = IF i <= 2 THEN Two[i] ELSE l[i - 2]
      <4>1. /\ Two \o l \in Seq(Bytes)
            /\ Len(Two \o l) = Len(Two) + Len(l)
            /\ \A i \in 1 .. Len(Two) + Len(l) :
                 (Two \o l)[i] = IF i <= Len(Two) THEN Two[i] ELSE l[i - Len(Two)]
        BY <1>2, <3>2, ConcatProperties
      <4>. QED
        BY <1>2, <3>2, <4>1, Zenon
    <3>. QED
      BY <3>1, <3>3 DEF l
  <2>5. H[1] = Two[1] /\ H[2] = Two[2]
    BY <2>1, <2>4
  <2>6. ASSUME NEW k \in 1 .. L
        PROVE  H[2 + k] = LengthBytes(z, L)[k]
    <3>1. 2 + k \in 1 .. 2 + L /\ ~ (2 + k <= 2) /\ (2 + k) - 2 = k
      BY <2>1
    <3>. QED
      BY <2>4, <3>1
  <2>. QED
    BY <1>1, <2>3, <2>4, <2>5, <2>6 DEF H, L
<1>. QED
  BY <1>4, <1>5

LEMMA MaskIsSeq ==
  ASSUME NEW mask \in [1 .. 4 -> Bytes]
  PROVE  mask \in Seq(Bytes) /\ Len(mask) = 4
<1>. DEFINE n == 4
<1>1. n \in Nat /\ mask \in [1 .. n -> Bytes]
  OBVIOUS
<1>. HIDE DEF n
<1>2. mask \in Seq(Bytes) /\ Len(mask) = n
  BY <1>1, FunctionIsSeq
<1>. QED
  BY <1>2 DEF n

\* Masking twice with one mask changes nothing.
LEMMA MaskedFacts ==
  ASSUME NEW x \in Seq(Bytes), NEW mask \in [1 .. 4 -> Bytes]
  PROVE  /\ Masked(x, mask) \in Seq(Bytes)
         /\ Len(Masked(x, mask)) = Len(x)
         /\ Masked(Masked(x, mask), mask) = x
<1>. DEFINE n == Len(x)
            at(i) == mask[((i - 1) % 4) + 1]
            y == [i \in 1 .. n |-> Xor(x[i], at(i))]
<1>1. n \in Nat /\ \A i \in 1 .. n : x[i] \in Bytes
  BY LenProperties, ElementOfSeq
<1>2. \A i \in 1 .. n : at(i) \in Bytes
  <2>1. TAKE i \in 1 .. n
  <2>2. ((i - 1) % 4) + 1 \in 1 .. 4
    BY <1>1
  <2>. QED
    BY <2>2
<1>3. \A a, b \in Bytes : Xor(a, b) \in Bytes /\ Xor(Xor(a, b), b) = a
  BY FramesAssumption DEF Bytes
<1>4. Masked(x, mask) = y
  BY DEF Masked
<1>5. y \in [1 .. n -> Bytes]
  <2>. HIDE DEF n, at
  <2>. QED
    BY <1>1, <1>2, <1>3
<1>6. y \in Seq(Bytes) /\ Len(y) = n
  <2>. HIDE DEF y, n
  <2>. QED
    BY <1>1, <1>5, FunctionIsSeq
<1>7. Masked(y, mask) = [i \in 1 .. n |-> Xor(y[i], at(i))]
  <2>. HIDE DEF y, n
  <2>. QED
    BY <1>6 DEF Masked
<1>8. \A i \in 1 .. n : Xor(y[i], at(i)) = x[i]
  <2>. HIDE DEF at, n
  <2>. QED
    BY <1>1, <1>2, <1>3
<1>9. [i \in 1 .. n |-> Xor(y[i], at(i))] = x
  <2>1. x = [i \in 1 .. n |-> x[i]]
    BY <1>1, LenProperties
  <2>. HIDE DEF y, at, n
  <2>. QED
    BY <1>8, <2>1, Zenon
<1>. QED
  BY <1>4, <1>6, <1>7, <1>9

\* The payload on the wire, and the bytes in front of it.
Body(f) == IF f.mask = << >> THEN f.data ELSE Masked(f.data, f.mask)
MaskBytes(f) == IF f.mask = << >> THEN 0 ELSE 4
Overhead(f) == 2 + LengthBytesOf(Len(f.data)) + MaskBytes(f)

LEMMA FrameFacts ==
  ASSUME NEW f, IsFrame(f)
  PROVE  LET z == Len(f.data)
             L == LengthBytesOf(z)
             h == Overhead(f)
             e == RequestFrame(f)
         IN /\ z \in Nat /\ L \in {0, 2, 8} /\ Body(f) \in Seq(Bytes) /\ Len(Body(f)) = z
            /\ e \in Seq(Bytes) /\ Len(e) = h + z
            /\ e[1] = (f.fin * Half) + f.type
            /\ e[2] = (MaskFlag(f) * Half) + LengthCode(z)
            /\ \A i \in 1 .. L : e[2 + i] = LengthBytes(z, L)[i]
            /\ f.mask # << >> => \A i \in 1 .. 4 : e[2 + L + i] = f.mask[i]
            /\ \A i \in 1 .. z : e[h + i] = Body(f)[i]
<1>. DEFINE z == Len(f.data)
            L == LengthBytesOf(z)
            M == MaskBytes(f)
            h == Overhead(f)
            H == Header(f, z)
            b == Body(f)
            e == RequestFrame(f)
<1>1. f.data \in Seq(Bytes) /\ z \in Nat /\ L \in {0, 2, 8} /\ M \in {0, 4} /\ h = 2 + L + M
  BY LenProperties DEF IsFrame, Bytes, LengthBytesOf, MaskBytes, Overhead
<1>2. f.mask = << >> \/ f.mask \in [1 .. 4 -> Bytes]
  BY DEF IsFrame, Bytes
<1>3. f.mask \in Seq(Bytes) /\ Len(f.mask) = M
  <2>1. CASE f.mask = << >>
    BY <2>1, EmptySeq DEF MaskBytes
  <2>2. CASE f.mask # << >>
    <3>1. f.mask \in [1 .. 4 -> Bytes]
      BY <1>2, <2>2
    <3>2. f.mask \in Seq(Bytes) /\ Len(f.mask) = 4
      BY <3>1, MaskIsSeq
    <3>. QED
      BY <2>2, <3>2 DEF MaskBytes
  <2>. QED
    BY <2>1, <2>2
<1>4. b \in Seq(Bytes) /\ Len(b) = z
  <2>1. CASE f.mask = << >>
    BY <1>1, <2>1 DEF Body
  <2>2. CASE f.mask # << >>
    BY <1>1, <1>2, <2>2, MaskedFacts DEF Body
  <2>. QED
    BY <2>1, <2>2
<1>5. /\ H \in Seq(Bytes) /\ Len(H) = 2 + L
      /\ H[1] = (f.fin * Half) + f.type
      /\ H[2] = (MaskFlag(f) * Half) + LengthCode(z)
      /\ \A k \in 1 .. L : H[2 + k] = LengthBytes(z, L)[k]
  BY <1>1, HeaderFacts
<1>6. e = (H \o f.mask) \o b
  BY DEF RequestFrame, Body
<1>. HIDE DEF z, L, M, h, H, b, e
<1>. DEFINE hm == H \o f.mask
<1>7. /\ hm \in Seq(Bytes)
      /\ Len(hm) = h
      /\ \A i \in 1 .. h : hm[i] = IF i <= 2 + L THEN H[i] ELSE f.mask[i - (2 + L)]
  <2>1. /\ hm \in Seq(Bytes)
        /\ Len(hm) = Len(H) + Len(f.mask)
        /\ \A i \in 1 .. Len(H) + Len(f.mask) :
             hm[i] = IF i <= Len(H) THEN H[i] ELSE f.mask[i - Len(H)]
    BY <1>3, <1>5, ConcatProperties
  <2>2. Len(H) = 2 + L /\ Len(H) + Len(f.mask) = h
    BY <1>1, <1>3, <1>5
  <2>. HIDE DEF hm
  <2>. QED
    BY <2>1, <2>2, Zenon
<1>. HIDE DEF hm
<1>8. /\ e \in Seq(Bytes)
      /\ Len(e) = h + z
      /\ \A i \in 1 .. h + z : e[i] = IF i <= h THEN hm[i] ELSE b[i - h]
  <2>1. /\ hm \o b \in Seq(Bytes)
        /\ Len(hm \o b) = Len(hm) + Len(b)
        /\ \A i \in 1 .. Len(hm) + Len(b) :
             (hm \o b)[i] = IF i <= Len(hm) THEN hm[i] ELSE b[i - Len(hm)]
    BY <1>4, <1>7, ConcatProperties
  <2>2. e = hm \o b
    BY <1>6 DEF hm
  <2>. QED
    BY <1>4, <1>7, <2>1, <2>2, Zenon
<1>9. ASSUME NEW i \in 1 .. 2 + L
      PROVE  e[i] = H[i]
  <2>1. i \in 1 .. h /\ i \in 1 .. h + z /\ i <= h /\ i <= 2 + L
    BY <1>1
  <2>. QED
    BY <1>7, <1>8, <2>1
<1>10. e[1] = H[1] /\ e[2] = H[2]
  BY <1>1, <1>9
<1>11. ASSUME NEW i \in 1 .. L
       PROVE  e[2 + i] = LengthBytes(z, L)[i]
  BY <1>1, <1>5, <1>9, 2 + i \in 1 .. 2 + L
<1>12. ASSUME f.mask # << >>, NEW i \in 1 .. 4
       PROVE  e[2 + L + i] = f.mask[i]
  <2>1. M = 4
    BY <1>12 DEF M, MaskBytes
  <2>2. /\ 2 + L + i \in 1 .. h /\ 2 + L + i \in 1 .. h + z /\ 2 + L + i <= h
        /\ ~ (2 + L + i <= 2 + L) /\ (2 + L + i) - (2 + L) = i
    BY <1>1, <2>1
  <2>. QED
    BY <1>7, <1>8, <2>2
<1>13. ASSUME NEW i \in 1 .. z
       PROVE  e[h + i] = b[i]
  <2>1. h + i \in 1 .. h + z /\ ~ (h + i <= h) /\ (h + i) - h = i
    BY <1>1
  <2>. QED
    BY <1>8, <2>1
<1>. QED
  BY <1>1, <1>4, <1>5, <1>8, <1>10, <1>11, <1>12, <1>13 DEF z, L, h, e, b

\* A frame of the server carries no mask, so both ends write frames alike.
LEMMA FramesAlike ==
  ASSUME NEW f, IsFrame(f), f.mask = << >>
  PROVE  ResponseFrame(f) = RequestFrame(f)
<1>1. Len(f.data) \in Nat
  BY LenProperties DEF IsFrame
<1>2. Header(f, Len(f.data)) \in Seq(Bytes)
  BY <1>1, HeaderFacts
<1>3. Header(f, Len(f.data)) \o << >> = Header(f, Len(f.data))
  BY <1>2, ConcatEmptySeq
<1>. QED
  BY <1>3, Zenon DEF ResponseFrame, RequestFrame

-----------------------------------------------------------------------------
(* What Parse makes of bytes that begin like a frame.                      *)

Begins(d, e) == \A i \in 1 .. Len(d) : i <= Len(e) => d[i] = e[i]

\* The header is found as it was written, as soon as it is there.
LEMMA HeaderParsed ==
  ASSUME NEW f, IsFrame(f), NEW d \in Seq(Bytes), Begins(d, RequestFrame(f)),
         Len(d) >= 2
  PROVE  LET z == Len(f.data)
             L == LengthBytesOf(z)
         IN /\ d[1] % Half = f.type /\ (d[1] >= Half <=> f.fin = 1)
            /\ d[2] >= Half <=> f.mask # << >>
            /\ LengthSize(d) = L
            /\ HeaderSize(d) = Overhead(f)
            /\ HasHeader(d) <=> Len(d) >= 2 + L
            /\ Len(d) >= 2 + L => PayloadSize(d) = z
<1>. DEFINE z == Len(f.data)
            L == LengthBytesOf(z)
            h == Overhead(f)
            e == RequestFrame(f)
            len == LengthCode(z)
            lb == LengthBytes(z, L)
<1>1. /\ z \in Nat /\ L \in {0, 2, 8} /\ e \in Seq(Bytes) /\ Len(e) = h + z
      /\ e[1] = (f.fin * Half) + f.type
      /\ e[2] = (MaskFlag(f) * Half) + len
      /\ \A i \in 1 .. L : e[2 + i] = lb[i]
  BY FrameFacts
<1>2. Len(d) \in Nat /\ \A i \in 1 .. Len(d) : d[i] \in Bytes
  BY LenProperties, ElementOfSeq
<1>3. h = 2 + L + MaskBytes(f) /\ MaskBytes(f) \in {0, 4}
  BY DEF Overhead, MaskBytes
<1>4. len \in 0 .. Half - 1 /\ z + 14 < Word
  BY <1>1, HeaderFacts DEF IsFrame
<1>. HIDE DEF e, h
<1>5. d[1] = e[1] /\ d[2] = e[2]
  <2>1. 1 \in 1 .. Len(d) /\ 1 <= Len(e) /\ 2 \in 1 .. Len(d) /\ 2 <= Len(e)
    BY <1>1, <1>2, <1>3
  <2>. QED
    BY <2>1 DEF Begins, e
<1>. HIDE DEF z, L, len, lb
<1>6. d[1] % Half = f.type /\ (d[1] >= Half <=> f.fin = 1)
  <2>1. f.fin \in {0, 1} /\ f.type \in 0 .. Half - 1
    BY DEF IsFrame
  <2>. QED
    BY <1>1, <1>5, <2>1, HalfByte
<1>7. d[2] % Half = len /\ (d[2] >= Half <=> MaskFlag(f) = 1)
  <2>1. MaskFlag(f) \in {0, 1}
    BY DEF MaskFlag
  <2>. QED
    BY <1>1, <1>4, <1>5, <2>1, HalfByte
<1>8. d[2] >= Half <=> f.mask # << >>
  BY <1>7 DEF MaskFlag
<1>9. LengthSize(d) = L
  <2>1. CASE z < Medium
    <3>1. len = z /\ L = 0 /\ len # Medium /\ len # Long
      BY <1>1, <2>1, SizeFacts DEF len, L, LengthCode, LengthBytesOf
    <3>. QED
      BY <1>7, <3>1 DEF LengthSize
  <2>2. CASE ~ (z < Medium) /\ z < Power[2]
    <3>1. len = Medium /\ L = 2
      BY <2>2 DEF len, L, LengthCode, LengthBytesOf
    <3>. QED
      BY <1>7, <3>1, SizeFacts DEF LengthSize
  <2>3. CASE ~ (z < Medium) /\ ~ (z < Power[2])
    <3>1. len = Long /\ L = 8
      BY <2>3 DEF len, L, LengthCode, LengthBytesOf
    <3>2. len # Medium
      BY <3>1, SizeFacts
    <3>. QED
      BY <1>7, <3>1, <3>2 DEF LengthSize
  <2>. QED
    BY <2>1, <2>2, <2>3
<1>10. HeaderSize(d) = h
  BY <1>8, <1>9 DEF HeaderSize, h, Overhead, MaskBytes, L, z
<1>11. HasHeader(d) <=> Len(d) >= 2 + L
  BY <1>1, <1>2, <1>9 DEF HasHeader
<1>12. ASSUME Len(d) >= 2 + L
       PROVE  PayloadSize(d) = z
  <2>1. CASE L = 0
    <3>1. z < Medium
      BY <2>1 DEF L, LengthBytesOf
    <3>2. len = z
      BY <3>1 DEF len, LengthCode
    <3>. QED
      BY <1>7, <1>9, <2>1, <3>2 DEF PayloadSize
  <2>2. CASE L # 0
    <3>. DEFINE t == SubSeq(d, 3, 2 + L)
    <3>1. L \in 1 .. 8 /\ L \in {2, 8}
      BY <1>1, <2>2
    <3>2. lb \in Seq(Bytes) /\ Len(lb) = L /\ (z < Power[L] => Value(lb) = z)
      BY <1>1, <3>1, LengthSurvives DEF lb, Bytes
    <3>3. z < Power[L]
      <4>1. CASE L = 2
        <5>1. z < Power[2]
          BY <4>1 DEF L, LengthBytesOf
        <5>. QED
          BY <4>1, <5>1
      <4>2. CASE L = 8
        <5>1. Word \in Nat
          BY PowerFacts DEF Word
        <5>2. z < Word
          BY <1>1, <1>4, <5>1
        <5>. QED
          BY <4>2, <5>2 DEF Word
      <4>. QED
        BY <3>1, <4>1, <4>2
    <3>4. 2 + L <= Len(d) /\ 3 = 2 + 1 /\ 2 \in Nat /\ L \in Nat
      BY <1>2, <1>12, <3>1
    <3>5. /\ t \in Seq(Bytes) /\ Len(t) = L
          /\ \A i \in 1 .. L : t[i] = d[2 + i]
      BY <3>4, PartOf
    <3>6. \A i \in 1 .. L : t[i] = lb[i]
      <4>1. TAKE i \in 1 .. L
      <4>2. 2 + i \in 1 .. Len(d) /\ 2 + i <= Len(e)
        BY <1>1, <1>2, <1>3, <1>12, <3>1
      <4>3. d[2 + i] = e[2 + i]
        BY <4>2 DEF Begins, e
      <4>. QED
        BY <1>1, <3>5, <4>3
    <3>7. t = lb
      <4>. HIDE DEF t
      <4>. QED
        BY <3>2, <3>5, <3>6, SeqEqual
    <3>. QED
      BY <1>9, <2>2, <3>2, <3>3, <3>7 DEF PayloadSize
  <2>. QED
    BY <2>1, <2>2
<1>. QED
  BY <1>6, <1>8, <1>9, <1>10, <1>11, <1>12 DEF z, L, h

\* The payload of a frame that is there as a whole, and its mask.
LEMMA BodyParsed ==
  ASSUME NEW f, IsFrame(f), NEW d \in Seq(Bytes), Begins(d, RequestFrame(f)),
         Len(d) >= Len(RequestFrame(f))
  PROVE  LET h == Overhead(f)
             z == Len(f.data)
         IN /\ SubSeq(d, h + 1, h + z) = Body(f)
            /\ f.mask # << >> => SubSeq(d, h - 3, h) = f.mask
<1>. DEFINE z == Len(f.data)
            L == LengthBytesOf(z)
            h == Overhead(f)
            e == RequestFrame(f)
            t == SubSeq(d, h + 1, h + z)
            m == SubSeq(d, h - 3, h)
            b == Body(f)
<1>1. /\ z \in Nat /\ L \in {0, 2, 8} /\ e \in Seq(Bytes) /\ Len(e) = h + z
      /\ b \in Seq(Bytes) /\ Len(b) = z
      /\ f.mask # << >> => \A i \in 1 .. 4 : e[2 + L + i] = f.mask[i]
      /\ \A i \in 1 .. z : e[h + i] = b[i]
  BY FrameFacts
<1>2. Len(d) \in Nat /\ \A i \in 1 .. Len(d) : d[i] \in Bytes
  BY LenProperties, ElementOfSeq
<1>3. h = 2 + L + MaskBytes(f) /\ MaskBytes(f) \in {0, 4} /\ h \in Nat
  BY <1>1 DEF Overhead, MaskBytes
<1>. HIDE DEF z, L, h, e, b
<1>4. \A i \in 1 .. h + z : d[i] = e[i] /\ d[i] \in Bytes
  <2>1. TAKE i \in 1 .. h + z
  <2>2. i \in 1 .. Len(d) /\ i <= Len(e)
    BY <1>1, <1>2, <1>3 DEF e
  <2>. QED
    BY <1>2, <2>2 DEF Begins, e
<1>5. t = b
  <2>1. h + z <= Len(d)
    BY <1>1 DEF e
  <2>2. t \in Seq(Bytes) /\ Len(t) = z /\ \A i \in 1 .. z : t[i] = d[h + i]
    <3>. DEFINE first == h + 1
                last == h + z
    <3>0. h \in Nat
      BY <1>3
    <3>1. first = h + 1 /\ last = h + z /\ z \in Nat
      BY <1>1
    <3>. HIDE DEF first, last
    <3>2. /\ SubSeq(d, first, last) \in Seq(Bytes)
          /\ Len(SubSeq(d, first, last)) = z
          /\ \A i \in 1 .. z : SubSeq(d, first, last)[i] = d[h + i]
      BY <2>1, <3>1, <3>0, PartOf
    <3>. QED
      BY <3>2 DEF first, last
  <2>. HIDE DEF t
  <2>3. \A i \in 1 .. z : h + i \in 1 .. h + z
    BY <1>1, <1>3
  <2>4. \A i \in 1 .. z : t[i] = b[i]
    BY <1>1, <1>4, <2>2, <2>3
  <2>. QED
    BY <1>1, <2>2, <2>4, SeqEqual
<1>6. ASSUME f.mask # << >>
      PROVE  m = f.mask
  <2>1. h = 2 + L + 4
    BY <1>3, <1>6 DEF MaskBytes
  <2>2. f.mask \in Seq(Bytes) /\ Len(f.mask) = 4
    <3>1. f.mask \in [1 .. 4 -> Bytes]
      BY <1>6 DEF IsFrame, Bytes
    <3>. QED
      BY <3>1, MaskIsSeq
  <2>3. 2 + L \in Nat /\ (2 + L) + 4 <= Len(d) /\ h - 3 = (2 + L) + 1 /\ h = (2 + L) + 4
    BY <1>1, <1>2, <2>1 DEF e
  <2>4. m \in Seq(Bytes) /\ Len(m) = 4 /\ \A i \in 1 .. 4 : m[i] = d[(2 + L) + i]
    BY <2>3, PartOf, 4 \in Nat
  <2>. HIDE DEF m
  <2>5. \A i \in 1 .. 4 : (2 + L) + i \in 1 .. h + z
    BY <1>1, <2>3
  <2>6. \A i \in 1 .. 4 : m[i] = f.mask[i]
    BY <1>1, <1>4, <1>6, <2>4, <2>5
  <2>. QED
    BY <2>2, <2>4, <2>6, SeqEqual
<1>. QED
  BY <1>5, <1>6 DEF z, h, b

-----------------------------------------------------------------------------
(* The definitions of the model that depend on the receiver, for a         *)
(* receiver r and given sequences in place of the variables.               *)

FramesTo(r) == IF r = "server" THEN ToServer ELSE ToClient
EncodedTo(r, f) == IF r = "server" THEN RequestFrame(f) ELSE ResponseFrame(f)
ParsedBy(r, d) == IF r = "server" THEN RequestParse(d) ELSE ResponseParse(d)
UnderstoodBy(r, f) ==
  IF r = "server" THEN f.fin = 1 /\ Len(f.data) \in 1 .. Min({MaxFrame, MaxMessage})
                  ELSE Len(f.data) < Medium
MessageTo(r, f) ==
  [type |-> IF r = "server" THEN f.type % Opcodes ELSE Undefined, data |-> f.data]

LEMMA SmallerLimit ==
  ASSUME NEW z \in Nat
  PROVE  z \in 1 .. Min({MaxFrame, MaxMessage}) <=> z > 0 /\ z <= MaxFrame /\ z <= MaxMessage
<1>. DEFINE T == {MaxFrame, MaxMessage}
<1>1. MaxFrame \in Nat /\ MaxMessage \in Nat
  BY FramesAssumption
<1>2. T \subseteq Nat /\ T # {}
  BY <1>1
<1>. HIDE DEF T
<1>3. Min(T) \in T /\ \A t \in T : Min(T) <= t
  BY <1>2, LeastOfNats, Zenon
<1>4. Min(T) \in Nat /\ (Min(T) = MaxFrame \/ Min(T) = MaxMessage)
      /\ Min(T) <= MaxFrame /\ Min(T) <= MaxMessage
  BY <1>1, <1>3 DEF T
<1>5. z \in 1 .. Min(T) <=> z > 0 /\ z <= MaxFrame /\ z <= MaxMessage
  BY <1>1, <1>4
<1>. QED
  BY <1>5 DEF T

\* Frames as they are sent are all written by RequestFrame.
LEMMA Written ==
  ASSUME NEW r \in {"server", "client"}, NEW f \in FramesTo(r)
  PROVE  /\ IsFrame(f)
         /\ EncodedTo(r, f) = RequestFrame(f)
         /\ EncodedTo(r, f) \in Seq(Bytes)
         /\ Len(EncodedTo(r, f)) >= 2
         /\ r = "client" => f.fin = 1 /\ f.mask = << >>
<1>1. IsFrame(f) /\ (r = "client" => f.fin = 1 /\ f.mask = << >>)
  BY FramesAssumption DEF FramesTo
<1>2. EncodedTo(r, f) = RequestFrame(f)
  BY <1>1, FramesAlike DEF EncodedTo
<1>3. /\ RequestFrame(f) \in Seq(Bytes)
      /\ Len(RequestFrame(f)) = Overhead(f) + Len(f.data)
      /\ Len(f.data) \in Nat /\ LengthBytesOf(Len(f.data)) \in {0, 2, 8}
  BY <1>1, FrameFacts
<1>4. Overhead(f) + Len(f.data) >= 2
  BY <1>3 DEF Overhead, MaskBytes
<1>. QED
  BY <1>1, <1>2, <1>3, <1>4

\* The server parses a frame exactly when all of it is there and it is within
\* the limits, and finds what was sent.
LEMMA ServerParses ==
  ASSUME NEW f, IsFrame(f), NEW d \in Seq(Bytes), Begins(d, RequestFrame(f))
  PROVE  LET p == RequestParse(d) IN
         /\ p.ok <=> /\ UnderstoodBy("server", f)
                     /\ Len(d) >= Len(RequestFrame(f))
         /\ p.ok => /\ p.size = Len(RequestFrame(f))
                    /\ p.type = f.type % Opcodes /\ p.data = f.data
<1>. DEFINE z == Len(f.data)
            L == LengthBytesOf(z)
            h == Overhead(f)
            e == RequestFrame(f)
            u == UnderstoodBy("server", f)
<1>1. z \in Nat /\ L \in {0, 2, 8} /\ Len(e) = h + z
  BY FrameFacts
<1>2. Len(d) \in Nat
  BY LenProperties
<1>3. h = 2 + L + MaskBytes(f) /\ MaskBytes(f) \in {0, 4} /\ h \in Nat
  BY <1>1 DEF Overhead, MaskBytes
<1>4. u <=> f.fin = 1 /\ z > 0 /\ z <= MaxFrame /\ z <= MaxMessage
  BY <1>1, SmallerLimit DEF UnderstoodBy
<1>. HIDE DEF e, h, u
<1>5. CASE Len(d) < 2
  <2>1. ~ HasHeader(d)
    BY <1>2, <1>5 DEF HasHeader
  <2>2. RequestParse(d).ok = FALSE
    BY <2>1 DEF RequestParse, Nothing
  <2>3. ~ (Len(d) >= Len(e))
    BY <1>1, <1>2, <1>3, <1>5
  <2>. QED
    BY <2>2, <2>3 DEF e
<1>6. CASE Len(d) >= 2
  <2>1. /\ d[1] % Half = f.type /\ (d[1] >= Half <=> f.fin = 1)
        /\ d[2] >= Half <=> f.mask # << >>
        /\ HeaderSize(d) = h
        /\ HasHeader(d) <=> Len(d) >= 2 + L
        /\ Len(d) >= 2 + L => PayloadSize(d) = z
    BY <1>6, HeaderParsed DEF h
  <2>. HIDE DEF z, L
  <2>. DEFINE Guard == /\ HasHeader(d)
                       /\ PayloadSize(d) > 0
                       /\ PayloadSize(d) <= MaxFrame /\ PayloadSize(d) <= MaxMessage
                       /\ IsWhole(d)
                       /\ d[1] >= Half
              payload == SubSeq(d, h + 1, h + z)
              mask == SubSeq(d, h - 3, h)
  <2>2. Guard <=> u /\ Len(d) >= Len(e)
    <3>1. CASE Len(d) >= 2 + L
      BY <1>1, <1>4, <2>1, <3>1 DEF IsWhole
    <3>2. CASE ~ (Len(d) >= 2 + L)
      <4>1. ~ (Len(d) >= Len(e))
        BY <1>1, <1>2, <1>3, <3>2
      <4>. QED
        BY <2>1, <3>2, <4>1
    <3>. QED
      BY <3>1, <3>2
  <2>3. ~ Guard => RequestParse(d).ok = FALSE
    BY Zenon DEF RequestParse, Nothing
  <2>4. ASSUME Guard
        PROVE  RequestParse(d) =
                 [ok |-> TRUE, type |-> f.type % Opcodes, size |-> Len(e), data |-> f.data]
    <3>1. Len(d) >= Len(e) /\ Len(d) >= 2 + L
      BY <1>1, <1>2, <1>3, <2>2, <2>4
    <3>2. HeaderSize(d) = h /\ PayloadSize(d) = z
      BY <2>1, <3>1
    <3>. HIDE DEF payload, mask
    <3>3. RequestParse(d) =
            [ok |-> TRUE, type |-> (d[1] % Half) % Opcodes, size |-> h + z,
             data |-> IF d[2] >= Half THEN Masked(payload, mask) ELSE payload]
      BY <2>4, <3>2, Zenon DEF RequestParse, payload, mask
    <3>4. payload = Body(f) /\ (f.mask # << >> => mask = f.mask)
      BY <3>1, BodyParsed DEF payload, mask, h, e, z
    <3>5. (IF d[2] >= Half THEN Masked(payload, mask) ELSE payload) = f.data
      <4>1. CASE f.mask = << >>
        BY <2>1, <3>4, <4>1 DEF Body
      <4>2. CASE f.mask # << >>
        <5>1. f.data \in Seq(Bytes) /\ f.mask \in [1 .. 4 -> Bytes]
          BY <4>2 DEF IsFrame, Bytes
        <5>2. Masked(Masked(f.data, f.mask), f.mask) = f.data
          BY <5>1, MaskedFacts
        <5>. QED
          BY <2>1, <3>4, <4>2, <5>2 DEF Body
      <4>. QED
        BY <4>1, <4>2
    <3>. QED
      BY <1>1, <2>1, <3>3, <3>5
  <2>. HIDE DEF Guard
  <2>5. RequestParse(d).ok <=> Guard
    BY <2>3, <2>4
  <2>6. ASSUME RequestParse(d).ok
        PROVE  /\ RequestParse(d).size = Len(e)
               /\ RequestParse(d).type = f.type % Opcodes /\ RequestParse(d).data = f.data
    BY <2>4, <2>5, <2>6
  <2>. QED
    BY <2>2, <2>5, <2>6 DEF e, u
<1>. QED
  BY <1>2, <1>5, <1>6

\* So does the client, as long as there is no extended length.
LEMMA ClientParses ==
  ASSUME NEW f, IsFrame(f), f.mask = << >>, Len(f.data) < Medium,
         NEW d \in Seq(Bytes), Begins(d, RequestFrame(f))
  PROVE  LET p == ResponseParse(d) IN
         /\ p.ok <=> Len(d) >= Len(RequestFrame(f))
         /\ p.ok => /\ p.size = Len(RequestFrame(f))
                    /\ p.type = Undefined /\ p.data = f.data
<1>. DEFINE z == Len(f.data)
            e == RequestFrame(f)
<1>1. z \in Nat /\ Len(e) = Overhead(f) + z
  BY FrameFacts
<1>2. Len(d) \in Nat
  BY LenProperties
<1>3. LengthBytesOf(z) = 0 /\ Overhead(f) = 2
  BY DEF Overhead, MaskBytes, LengthBytesOf
<1>. HIDE DEF e
<1>4. CASE Len(d) < 2
  <2>1. ~ HasHeader(d)
    BY <1>2, <1>4 DEF HasHeader
  <2>2. ResponseParse(d).ok = FALSE
    BY <2>1 DEF ResponseParse, Nothing
  <2>3. ~ (Len(d) >= Len(e))
    BY <1>1, <1>2, <1>3, <1>4
  <2>. QED
    BY <2>2, <2>3 DEF e
<1>5. CASE Len(d) >= 2
  <2>1. /\ LengthSize(d) = 0
        /\ HasHeader(d)
        /\ PayloadSize(d) = z
    BY <1>2, <1>3, <1>5, HeaderParsed
  <2>2. d[2] % Half = z
    BY <2>1 DEF PayloadSize
  <2>3. (2 + z) % Word = 2 + z
    <3>1. Word \in Nat \ {0} /\ z + 14 < Word
      BY PowerFacts DEF Word, IsFrame
    <3>2. 2 + z \in 0 .. Word - 1
      BY <1>1, <3>1
    <3>3. ((Word * 0) + (2 + z)) % Word = 2 + z
      BY <3>1, <3>2, Quotient
    <3>4. (Word * 0) + (2 + z) = 2 + z
      BY <1>1, <3>1
    <3>. QED
      BY <3>3, <3>4
  <2>. HIDE DEF z
  <2>. DEFINE Guard == Len(d) >= 2 + z
  <2>4. ~ Guard => ResponseParse(d).ok = FALSE
    BY <2>1, <2>2, <2>3 DEF ResponseParse, Nothing
  <2>5. ASSUME Guard
        PROVE  ResponseParse(d) =
                 [ok |-> TRUE, type |-> Undefined, size |-> 2 + z, data |-> f.data]
    <3>0. 2 + LengthSize(d) = 2
      BY <2>1
    <3>. DEFINE found == [ok |-> TRUE, type |-> Undefined, size |-> 2 + z,
                          data |-> SubSeq(d, 2 + 1, 2 + z)]
    <3>1. ResponseParse(d) = IF Len(d) >= 2 + z THEN found ELSE Nothing
      BY <2>1, <2>2, <2>3, <3>0, Zenon DEF ResponseParse
    <3>2. SubSeq(d, 2 + 1, 2 + z) = Body(f)
      BY <1>1, <1>3, <2>5, BodyParsed DEF z, e
    <3>. QED
      BY <2>5, <3>1, <3>2 DEF Body
  <2>6. Len(e) = 2 + z
    BY <1>1, <1>3
  <2>7. ResponseParse(d).ok <=> Guard
    BY <2>4, <2>5
  <2>. HIDE DEF Guard
  <2>8. Guard <=> Len(d) >= Len(e)
    BY <2>6 DEF Guard
  <2>9. ASSUME Guard
        PROVE  /\ ResponseParse(d).size = Len(e)
               /\ ResponseParse(d).type = Undefined /\ ResponseParse(d).data = f.data
    BY <2>5, <2>6, <2>9
  <2>. QED
    BY <2>7, <2>8, <2>9 DEF e
<1>. QED
  BY <1>2, <1>4, <1>5

\* Both of them: what a receiver finds at the start of a frame that it
\* understands, or that the server gets at all.
LEMMA FrameParsed ==
  ASSUME NEW r \in {"server", "client"}, NEW f \in FramesTo(r),
         NEW d \in Seq(Bytes), Begins(d, EncodedTo(r, f)),
         r = "server" \/ UnderstoodBy(r, f)
  PROVE  LET p == ParsedBy(r, d) IN
         /\ p.ok <=> UnderstoodBy(r, f) /\ Len(d) >= Len(EncodedTo(r, f))
         /\ p.ok => /\ p.size = Len(EncodedTo(r, f))
                    /\ [type |-> p.type, data |-> p.data] = MessageTo(r, f)
<1>1. /\ IsFrame(f) /\ EncodedTo(r, f) = RequestFrame(f)
      /\ r = "client" => f.mask = << >>
  BY Written
<1>2. Begins(d, RequestFrame(f))
  BY <1>1
<1>3. CASE r = "server"
  BY <1>1, <1>2, <1>3, ServerParses DEF ParsedBy, MessageTo
<1>4. CASE r # "server"
  <2>1. r = "client"
    BY <1>4
  <2>2. Len(f.data) < Medium
    BY <1>4 DEF UnderstoodBy
  <2>. QED
    BY <1>1, <1>2, <1>4, <2>1, <2>2, ClientParses DEF ParsedBy, MessageTo, UnderstoodBy
<1>. QED
  BY <1>3, <1>4

LEMMA NothingParsed ==
  ASSUME NEW r
  PROVE  ~ ParsedBy(r, << >>).ok
<1>1. ~ (Len(<< >>) >= 2)
  BY EmptySeq
<1>2. ~ HasHeader(<< >>)
  BY <1>1 DEF HasHeader
<1>3. ~ RequestParse(<< >>).ok
  BY <1>2 DEF RequestParse, Nothing
<1>4. ~ ResponseParse(<< >>).ok
  BY <1>2 DEF ResponseParse, Nothing
<1>. QED
  BY <1>3, <1>4 DEF ParsedBy

-----------------------------------------------------------------------------
(* The stream.                                                             *)

\* Good, EncodedTo the frames after the first n of s joined, and StreamKept.
UnderstoodUpTo(r, s) ==
  LET Bad == {i \in 1 .. Len(s) : ~ UnderstoodBy(r, s[i])}
  IN IF Bad = {} THEN Len(s) ELSE Min(Bad) - 1

Rest(r, s, n) == FlattenSeq([i \in 1 .. Len(s) - n |-> EncodedTo(r, s[n + i])])

Kept(r, s, w, d, l) ==
  LET n == Len(l) IN
  r = "server" \/ UnderstoodUpTo(r, s) = Len(s) =>
    /\ n <= UnderstoodUpTo(r, s)
    /\ l = [i \in 1 .. n |-> MessageTo(r, s[i])]
    /\ d \o w = Rest(r, s, n)

LEMMA UpToFacts ==
  ASSUME NEW r, NEW F, NEW s \in Seq(F)
  PROVE  LET g == UnderstoodUpTo(r, s)
         IN /\ g \in 0 .. Len(s)
            /\ \A i \in 1 .. g : UnderstoodBy(r, s[i])
            /\ g < Len(s) => ~ UnderstoodBy(r, s[g + 1])
<1>. DEFINE Bad == {i \in 1 .. Len(s) : ~ UnderstoodBy(r, s[i])}
            g == UnderstoodUpTo(r, s)
<1>1. Len(s) \in Nat
  BY LenProperties
<1>2. g = IF Bad = {} THEN Len(s) ELSE Min(Bad) - 1
  BY DEF UnderstoodUpTo
<1>3. CASE Bad = {}
  <2>1. \A i \in 1 .. Len(s) : UnderstoodBy(r, s[i])
    BY <1>3
  <2>2. g = Len(s)
    BY <1>2, <1>3
  <2>. HIDE DEF g
  <2>. QED
    BY <1>1, <2>1, <2>2 DEF g
<1>4. CASE Bad # {}
  <2>1. Bad \subseteq Nat
    OBVIOUS
  <2>2. Min(Bad) \in Bad /\ \A i \in Bad : Min(Bad) <= i
    <3>. HIDE DEF Bad
    <3>. QED
      BY <1>4, <2>1, LeastOfNats, Zenon
  <2>. DEFINE m == Min(Bad)
  <2>3. m \in 1 .. Len(s) /\ ~ UnderstoodBy(r, s[m]) /\ \A i \in Bad : m <= i
    BY <2>2
  <2>4. g = m - 1
    BY <1>2, <1>4
  <2>. HIDE DEF m, g
  <2>5. \A i \in 1 .. g : UnderstoodBy(r, s[i])
    <3>1. TAKE i \in 1 .. g
    <3>2. i \in 1 .. Len(s) /\ ~ (m <= i)
      BY <1>1, <2>3, <2>4
    <3>. QED
      BY <2>3, <3>2
  <2>6. g \in 0 .. Len(s) /\ g + 1 = m
    BY <1>1, <2>3, <2>4
  <2>. QED
    BY <2>3, <2>5, <2>6 DEF g
<1>. QED
  BY <1>3, <1>4

\* One more frame leaves those that are understood, and the rest grows by it.
LEMMA OneMore ==
  ASSUME NEW r \in {"server", "client"}, NEW s \in Seq(FramesTo(r)),
         NEW f \in FramesTo(r), NEW n \in 0 .. Len(s)
  PROVE  LET t == Append(s, f) IN
         /\ t \in Seq(FramesTo(r))
         /\ UnderstoodUpTo(r, s) <= UnderstoodUpTo(r, t)
         /\ UnderstoodUpTo(r, t) = Len(t) => UnderstoodUpTo(r, s) = Len(s)
         /\ Rest(r, s, n) \in Seq(Bytes)
         /\ Rest(r, t, n) = Rest(r, s, n) \o EncodedTo(r, f)
         /\ \A i \in 1 .. Len(s) : t[i] = s[i]
<1>. DEFINE t == Append(s, f)
            a == UnderstoodUpTo(r, s)
            b == UnderstoodUpTo(r, t)
<1>1. /\ Len(s) \in Nat /\ t \in Seq(FramesTo(r)) /\ Len(t) = Len(s) + 1
      /\ \A i \in 1 .. Len(s) : t[i] = s[i]
      /\ t[Len(s) + 1] = f
  BY LenProperties, AppendProperties
<1>. HIDE DEF t
<1>2. /\ a \in 0 .. Len(s)
      /\ \A i \in 1 .. a : UnderstoodBy(r, s[i])
      /\ a < Len(s) => ~ UnderstoodBy(r, s[a + 1])
  BY UpToFacts
<1>3. /\ b \in 0 .. Len(t)
      /\ \A i \in 1 .. b : UnderstoodBy(r, t[i])
      /\ b < Len(t) => ~ UnderstoodBy(r, t[b + 1])
  BY <1>1, UpToFacts
<1>. HIDE DEF a, b
<1>4. a <= b
  <2>. SUFFICES ASSUME ~ (a <= b) PROVE FALSE
    OBVIOUS
  <2>1. b < Len(t) /\ b + 1 \in 1 .. a /\ b + 1 \in 1 .. Len(s)
    BY <1>1, <1>2, <1>3
  <2>. QED
    BY <1>1, <1>2, <1>3, <2>1
<1>5. ASSUME b = Len(t)
      PROVE  a = Len(s)
  <2>. SUFFICES ASSUME a # Len(s) PROVE FALSE
    OBVIOUS
  <2>1. a < Len(s) /\ a + 1 \in 1 .. b /\ a + 1 \in 1 .. Len(s)
    BY <1>1, <1>2, <1>5
  <2>. QED
    BY <1>1, <1>2, <1>3, <2>1
<1>. DEFINE m == Len(s) - n
            ss == [i \in 1 .. m |-> EncodedTo(r, s[n + i])]
            tt == [i \in 1 .. m + 1 |-> EncodedTo(r, t[n + i])]
<1>6. m \in Nat /\ Len(t) - n = m + 1 /\ n + (m + 1) = Len(s) + 1
  BY <1>1
<1>7. \A i \in 1 .. Len(s) : s[i] \in FramesTo(r)
  BY ElementOfSeq
<1>8. \A i \in 1 .. m : n + i \in 1 .. Len(s)
  BY <1>1
<1>9. \A i \in 1 .. m + 1 : n + i \in 1 .. Len(t)
  BY <1>1
<1>10. \A i \in 1 .. Len(t) : t[i] \in FramesTo(r)
  BY <1>1, ElementOfSeq
<1>11. \A x \in FramesTo(r) : EncodedTo(r, x) \in Seq(Bytes)
  BY Written
<1>. HIDE DEF m
<1>12. ss \in [1 .. m -> Seq(Bytes)]
  BY <1>7, <1>8, <1>11, Zenon
<1>13. tt \in [1 .. m + 1 -> Seq(Bytes)]
  BY <1>9, <1>10, <1>11, Zenon
<1>14. \A i \in 1 .. m : tt[i] = ss[i]
  <2>1. TAKE i \in 1 .. m
  <2>2. i \in 1 .. m + 1
    BY <1>6
  <2>3. t[n + i] = s[n + i]
    BY <1>1, <1>8
  <2>. QED
    BY <2>2, <2>3, Zenon
<1>15. tt[m + 1] = EncodedTo(r, f)
  <2>1. m + 1 \in 1 .. m + 1
    BY <1>6
  <2>2. t[n + (m + 1)] = f
    BY <1>1, <1>6
  <2>. QED
    BY <2>1, <2>2, Zenon
<1>16. Rest(r, s, n) = FlattenSeq(ss)
  BY DEF Rest, m
<1>17. Rest(r, t, n) = FlattenSeq(tt)
  BY <1>6 DEF Rest
<1>. HIDE DEF ss, tt
<1>18. /\ FlattenSeq(ss) \in Seq(Bytes)
       /\ FlattenSeq(tt) = FlattenSeq(ss) \o tt[m + 1]
  BY <1>6, <1>12, <1>13, <1>14, FlattenMore
<1>. QED
  BY <1>1, <1>4, <1>5, <1>15, <1>16, <1>17, <1>18, Zenon DEF t, a, b

\* The rest begins with the next frame, or is empty.
LEMMA NextOfRest ==
  ASSUME NEW r \in {"server", "client"}, NEW s \in Seq(FramesTo(r)), NEW n \in 0 .. Len(s)
  PROVE  /\ n = Len(s) => Rest(r, s, n) = << >>
         /\ n < Len(s) => /\ s[n + 1] \in FramesTo(r)
                          /\ Rest(r, s, n + 1) \in Seq(Bytes)
                          /\ Rest(r, s, n) = EncodedTo(r, s[n + 1]) \o Rest(r, s, n + 1)
<1>0. Len(s) \in Nat /\ \A i \in 1 .. Len(s) : s[i] \in FramesTo(r)
  BY LenProperties, ElementOfSeq
<1>1. ASSUME n = Len(s)
      PROVE  Rest(r, s, n) = << >>
  <2>. DEFINE ss == [i \in 1 .. 0 |-> EncodedTo(r, s[n + i])]
  <2>1. ss \in [1 .. 0 -> Seq(Bytes)]
    <3>1. \A i \in 1 .. 0 : FALSE
      OBVIOUS
    <3>. QED
      BY <3>1, Zenon
  <2>2. Rest(r, s, n) = FlattenSeq(ss)
    <3>1. Len(s) - n = 0
      BY <1>0, <1>1
    <3>. QED
      BY <3>1, Zenon DEF Rest
  <2>. HIDE DEF ss
  <2>3. PICK p \in [0 .. 0 -> Seq(Bytes)] : Joins(0, ss, p)
    BY <2>1, JoinsExist, 0 \in Nat, Zenon
  <2>4. FlattenSeq(ss) = p[0]
    BY <2>1, <2>3, FlattenIsLast, 0 \in Nat, Zenon
  <2>. QED
    BY <2>2, <2>3, <2>4, Zenon DEF Joins
<1>2. ASSUME n < Len(s)
      PROVE  /\ s[n + 1] \in FramesTo(r)
             /\ Rest(r, s, n + 1) \in Seq(Bytes)
             /\ Rest(r, s, n) = EncodedTo(r, s[n + 1]) \o Rest(r, s, n + 1)
  <2>. DEFINE m == Len(s) - (n + 1)
              ss == [i \in 1 .. m |-> EncodedTo(r, s[(n + 1) + i])]
              tt == [i \in 1 .. m + 1 |-> EncodedTo(r, s[n + i])]
  <2>1. m \in Nat /\ Len(s) - n = m + 1
    BY <1>0, <1>2
  <2>2. /\ \A i \in 1 .. m : (n + 1) + i \in 1 .. Len(s)
        /\ \A i \in 1 .. m + 1 : n + i \in 1 .. Len(s)
    BY <1>0
  <2>3. \A x \in FramesTo(r) : EncodedTo(r, x) \in Seq(Bytes)
    BY Written
  <2>4. Rest(r, s, n + 1) = FlattenSeq(ss)
    BY DEF Rest
  <2>. HIDE DEF m
  <2>5. Rest(r, s, n) = FlattenSeq(tt)
    BY <2>1 DEF Rest
  <2>6. ss \in [1 .. m -> Seq(Bytes)]
    BY <1>0, <2>2, <2>3, Zenon
  <2>7. tt \in [1 .. m + 1 -> Seq(Bytes)]
    BY <1>0, <2>2, <2>3, Zenon
  <2>8. \A i \in 1 .. m : tt[i + 1] = ss[i]
    <3>1. TAKE i \in 1 .. m
    <3>2. i + 1 \in 1 .. m + 1 /\ n + (i + 1) = (n + 1) + i
      BY <2>1
    <3>. QED
      BY <3>2, Zenon
  <2>9. tt[1] = EncodedTo(r, s[n + 1])
    BY <2>1, 1 \in 1 .. m + 1
  <2>. HIDE DEF ss, tt
  <2>10. /\ FlattenSeq(ss) \in Seq(Bytes)
         /\ FlattenSeq(tt) = tt[1] \o FlattenSeq(ss)
    BY <2>1, <2>6, <2>7, <2>8, FlattenFirst
  <2>11. s[n + 1] \in FramesTo(r)
    BY <1>0, <1>2, n + 1 \in 1 .. Len(s)
  <2>. QED
    BY <2>4, <2>5, <2>9, <2>10, <2>11, Zenon
<1>. QED
  BY <1>1, <1>2

\* The receivers and streams of which StreamKept and CutsInTime speak.
Followed(r, s) == r = "server" \/ UnderstoodUpTo(r, s) = Len(s)

\* The next frame, as the receiver finds it.
NextFound(r, s, w, d, l) ==
  LET n == Len(l)
      e == EncodedTo(r, s[n + 1])
      p == ParsedBy(r, d)
  IN /\ n \in 0 .. UnderstoodUpTo(r, s) /\ UnderstoodUpTo(r, s) \in 0 .. Len(s)
     /\ l = [i \in 1 .. n |-> MessageTo(r, s[i])]
     /\ d \o w = Rest(r, s, n)
     /\ p.ok <=> n < UnderstoodUpTo(r, s) /\ Len(d) >= Len(e)
     /\ p.ok => /\ p.size = Len(e) /\ e \in Seq(Bytes) /\ Len(d) >= Len(e)
                /\ [type |-> p.type, data |-> p.data] = MessageTo(r, s[n + 1])
                /\ d \o w = e \o Rest(r, s, n + 1)
                /\ Rest(r, s, n + 1) \in Seq(Bytes)

LEMMA NextParsed ==
  ASSUME NEW r \in {"server", "client"}, NEW s \in Seq(FramesTo(r)),
         NEW w \in Seq(Bytes), NEW d \in Seq(Bytes), NEW l, Len(l) \in Nat,
         Followed(r, s), Kept(r, s, w, d, l)
  PROVE  NextFound(r, s, w, d, l)
<1>. DEFINE n == Len(l)
            g == UnderstoodUpTo(r, s)
            e == EncodedTo(r, s[n + 1])
            p == ParsedBy(r, d)
            t == Rest(r, s, n + 1)
<1>1. /\ n <= g
      /\ l = [i \in 1 .. n |-> MessageTo(r, s[i])]
      /\ d \o w = Rest(r, s, n)
  BY DEF Kept, Followed
<1>2. /\ Len(s) \in Nat /\ g \in 0 .. Len(s)
      /\ \A i \in 1 .. g : UnderstoodBy(r, s[i])
      /\ g < Len(s) => ~ UnderstoodBy(r, s[g + 1])
  BY UpToFacts, LenProperties
<1>3. n \in 0 .. g /\ n \in 0 .. Len(s)
  BY <1>1, <1>2
<1>. HIDE DEF n, g
<1>4. CASE n = Len(s)
  <2>1. d \o w = << >>
    BY <1>1, <1>3, <1>4, NextOfRest
  <2>2. d = << >>
    BY <2>1, ConcatEqualIffEmpty
  <2>3. ~ p.ok
    BY <2>2, NothingParsed
  <2>4. ~ (n < g)
    BY <1>2, <1>3, <1>4
  <2>. QED
    BY <1>1, <1>2, <1>3, <2>3, <2>4 DEF n, g, NextFound
<1>5. CASE n < Len(s)
  <2>1. s[n + 1] \in FramesTo(r) /\ t \in Seq(Bytes) /\ Rest(r, s, n) = e \o t
    BY <1>3, <1>5, NextOfRest
  <2>2. e \in Seq(Bytes)
    BY <2>1, Written
  <2>. HIDE DEF e, t
  <2>3. d \o w = e \o t
    BY <1>1, <2>1
  <2>4. \A i \in 1 .. Len(d) : i <= Len(e) => d[i] = e[i]
    <3>1. Arriving(Bytes, d, w, e, t)
      BY <2>1, <2>2, <2>3 DEF Arriving
    <3>2. Divided(Bytes, d, w, e, t)
      BY <3>1, FirstPart, Zenon
    <3>. QED
      BY <3>2, Zenon DEF Divided
  <2>5. Begins(d, e)
    BY <2>4 DEF Begins
  <2>6. UnderstoodBy(r, s[n + 1]) <=> n < g
    <3>1. CASE n < g
      <4>1. n + 1 \in 1 .. g
        BY <1>2, <1>3, <3>1
      <4>. QED
        BY <1>2, <3>1, <4>1
    <3>2. CASE ~ (n < g)
      <4>1. n = g
        BY <1>2, <1>3, <3>2
      <4>. QED
        BY <1>2, <1>5, <3>2, <4>1
    <3>. QED
      BY <3>1, <3>2
  <2>7. r = "server" \/ UnderstoodBy(r, s[n + 1])
    <3>1. CASE r = "server"
      BY <3>1
    <3>2. CASE r # "server"
      <4>1. g = Len(s)
        BY <3>2 DEF Followed, g
      <4>. QED
        BY <1>5, <2>6, <4>1
    <3>. QED
      BY <3>1, <3>2
  <2>8. /\ p.ok <=> UnderstoodBy(r, s[n + 1]) /\ Len(d) >= Len(e)
        /\ p.ok => /\ p.size = Len(e)
                   /\ [type |-> p.type, data |-> p.data] = MessageTo(r, s[n + 1])
    BY <2>1, <2>5, <2>7, FrameParsed DEF e
  <2>. HIDE DEF p
  <2>. QED
    BY <1>1, <1>2, <1>3, <2>1, <2>2, <2>3, <2>6, <2>8 DEF n, g, e, p, t, NextFound
<1>6. n = Len(s) \/ n < Len(s)
  BY <1>2, <1>3
<1>. QED
  BY <1>4, <1>5, <1>6

-----------------------------------------------------------------------------
(* The invariant.  What a client holds after a frame that it misreads is   *)
(* not described; the server has no such frames.                           *)

StreamInv ==
  /\ to \in {"server", "client"}
  /\ sent \in Seq(FramesTo(to))
  /\ Followed(to, sent) =>
       wire \in Seq(Bytes) /\ data \in Seq(Bytes) /\ Len(list) \in Nat
  /\ Kept(to, sent, wire, data, list)

LEMMA Restated ==
  /\ StreamKept <=> Kept(to, sent, wire, data, list)
  /\ Parsed(data) = ParsedBy(to, data)
  /\ Good = UnderstoodUpTo(to, sent)
  /\ \A f : Encoded(f) = EncodedTo(to, f)
<1>1. \A f : /\ Encoded(f) = EncodedTo(to, f) /\ Message(f) = MessageTo(to, f)
             /\ Understood(f) = UnderstoodBy(to, f)
  BY Zenon DEF Encoded, EncodedTo, Message, MessageTo, Understood, UnderstoodBy
<1>2. Good = UnderstoodUpTo(to, sent)
  BY <1>1, Zenon DEF Good, UnderstoodUpTo
<1>3. FlattenSeq([i \in 1 .. Len(sent) - Len(list) |-> Encoded(sent[Len(list) + i])])
        = Rest(to, sent, Len(list))
  BY <1>1, Zenon DEF Rest
<1>4. [i \in 1 .. Len(list) |-> Message(sent[i])]
        = [i \in 1 .. Len(list) |-> MessageTo(to, sent[i])]
  BY <1>1, Zenon
<1>5. StreamKept <=> Kept(to, sent, wire, data, list)
  BY <1>2, <1>3, <1>4, Zenon DEF StreamKept, Kept
<1>6. Parsed(data) = ParsedBy(to, data)
  BY DEF Parsed, ParsedBy
<1>. QED
  BY <1>1, <1>2, <1>5, <1>6

LEMMA StreamInit == Init => StreamInv
<1>. SUFFICES ASSUME Init PROVE StreamInv
  OBVIOUS
<1>1. /\ to \in {"server", "client"}
      /\ sent = << >> /\ wire = << >> /\ data = << >> /\ list = << >>
  BY DEF Init
<1>2. sent \in Seq(FramesTo(to)) /\ wire \in Seq(Bytes) /\ data \in Seq(Bytes)
      /\ Len(sent) = 0 /\ Len(list) = 0
  BY <1>1, EmptySeq
<1>3. UnderstoodUpTo(to, sent) \in 0 .. 0
  BY <1>2, UpToFacts
<1>4. Rest(to, sent, 0) = << >>
  BY <1>1, <1>2, NextOfRest, 0 \in 0 .. 0
<1>5. data \o wire = << >>
  BY <1>1, <1>2, ConcatEqualIffEmpty
<1>6. list = [i \in 1 .. 0 |-> MessageTo(to, sent[i])]
  BY <1>1, 1 .. 0 = {}
<1>7. Kept(to, sent, wire, data, list)
  BY <1>2, <1>3, <1>4, <1>5, <1>6 DEF Kept
<1>. QED
  BY <1>1, <1>2, <1>7 DEF StreamInv

LEMMA SendKeeps ==
  ASSUME StreamInv, Send
  PROVE  StreamInv'
<1>1. /\ to \in {"server", "client"} /\ sent \in Seq(FramesTo(to))
      /\ Followed(to, sent) =>
           wire \in Seq(Bytes) /\ data \in Seq(Bytes) /\ Len(list) \in Nat
      /\ Kept(to, sent, wire, data, list)
  BY DEF StreamInv
<1>2. PICK f \in FramesTo(to) : sent' = Append(sent, f) /\ wire' = wire \o Encoded(f)
  BY DEF Send, FramesTo
<1>3. to' = to /\ data' = data /\ list' = list
  BY DEF Send
<1>4. Encoded(f) = EncodedTo(to, f) /\ EncodedTo(to, f) \in Seq(Bytes)
  BY <1>1, Restated, Written
<1>5. Len(sent) \in Nat
  BY <1>1, LenProperties
<1>6. /\ sent' \in Seq(FramesTo(to))
      /\ UnderstoodUpTo(to, sent) <= UnderstoodUpTo(to, sent')
      /\ UnderstoodUpTo(to, sent') = Len(sent') => UnderstoodUpTo(to, sent) = Len(sent)
      /\ \A i \in 1 .. Len(sent) : sent'[i] = sent[i]
      /\ \A n \in 0 .. Len(sent) :
           /\ Rest(to, sent, n) \in Seq(Bytes)
           /\ Rest(to, sent', n) = Rest(to, sent, n) \o EncodedTo(to, f)
  BY <1>1, <1>2, <1>5, OneMore, 0 \in 0 .. Len(sent)
<1>7. CASE Followed(to, sent')
  <2>. DEFINE n == Len(list)
              g == UnderstoodUpTo(to, sent)
  <2>1. Followed(to, sent)
    BY <1>6, <1>7 DEF Followed
  <2>2. wire \in Seq(Bytes) /\ data \in Seq(Bytes) /\ n \in Nat
    BY <1>1, <2>1
  <2>3. /\ n \in 0 .. g /\ g \in 0 .. Len(sent)
        /\ list = [i \in 1 .. n |-> MessageTo(to, sent[i])]
        /\ data \o wire = Rest(to, sent, n)
    <3>1. NextFound(to, sent, wire, data, list)
      BY <1>1, <2>1, <2>2, NextParsed
    <3>. QED
      BY <3>1 DEF NextFound
  <2>4. UnderstoodUpTo(to, sent') \in 0 .. Len(sent')
    BY <1>6, UpToFacts
  <2>5. Len(sent') \in Nat
    BY <1>6, LenProperties
  <2>. HIDE DEF n, g
  <2>6. n \in 0 .. Len(sent) /\ n <= UnderstoodUpTo(to, sent')
    BY <1>5, <1>6, <2>3, <2>4, <2>5 DEF g
  <2>7. list = [i \in 1 .. n |-> MessageTo(to, sent'[i])]
    <3>1. \A i \in 1 .. n : sent'[i] = sent[i]
      BY <1>5, <1>6, <2>6
    <3>. QED
      BY <2>3, <3>1, Zenon
  <2>8. wire' \in Seq(Bytes)
    BY <1>2, <1>4, <2>2, ConcatProperties
  <2>9. data \o wire' = Rest(to, sent', n)
    <3>1. Associative(Bytes)
      BY Joining, Zenon
    <3>2. (data \o wire) \o EncodedTo(to, f) = data \o (wire \o EncodedTo(to, f))
      BY <1>4, <2>2, <3>1, Zenon DEF Associative
    <3>3. Rest(to, sent', n) = Rest(to, sent, n) \o EncodedTo(to, f)
      BY <1>6, <2>6
    <3>. QED
      BY <1>2, <1>4, <2>3, <3>2, <3>3, Zenon
  <2>10. Kept(to, sent', wire', data, list)
    BY <2>6, <2>7, <2>9, Zenon DEF Kept, n
  <2>. QED
    BY <1>1, <1>3, <1>6, <2>2, <2>8, <2>10, Zenon DEF StreamInv, n
<1>8. CASE ~ Followed(to, sent')
  <2>1. Kept(to, sent', wire', data, list)
    BY <1>8, Zenon DEF Kept, Followed
  <2>. QED
    BY <1>1, <1>3, <1>6, <1>8, <2>1, Zenon DEF StreamInv
<1>. QED
  BY <1>7, <1>8

LEMMA ArriveKeeps ==
  ASSUME StreamInv, Arrive
  PROVE  StreamInv'
<1>1. /\ to \in {"server", "client"} /\ sent \in Seq(FramesTo(to))
      /\ Followed(to, sent) =>
           wire \in Seq(Bytes) /\ data \in Seq(Bytes) /\ Len(list) \in Nat
      /\ Kept(to, sent, wire, data, list)
  BY DEF StreamInv
<1>2. /\ wire # << >> /\ data' = Append(data, Head(wire)) /\ wire' = Tail(wire)
      /\ to' = to /\ sent' = sent /\ list' = list
  BY DEF Arrive
<1>3. CASE Followed(to, sent)
  <2>1. wire \in Seq(Bytes) /\ data \in Seq(Bytes) /\ Len(list) \in Nat
    BY <1>1, <1>3
  <2>2. Head(wire) \in Bytes /\ Tail(wire) \in Seq(Bytes)
    BY <1>2, <2>1, HeadTailProperties
  <2>. DEFINE b == << Head(wire) >>
              t == Tail(wire)
  <2>3. b \in Seq(Bytes)
    BY <2>2
  <2>4. data' \in Seq(Bytes) /\ data' = data \o b
    BY <1>2, <2>1, <2>2, AppendProperties, AppendIsConcat
  <2>5. b \o t = wire
    <3>1. wire = SubSeq(wire, 1, Len(wire)) /\ Len(wire) \in Nat \ {0}
          /\ Head(wire) = wire[1] /\ t = SubSeq(wire, 2, Len(wire))
      BY <1>2, <2>1, SubSeqFull, EmptySeq, TailIsSubSeq
    <3>2. SubSeq(wire, 1, Len(wire)) = << wire[1] >> \o SubSeq(wire, 1 + 1, Len(wire))
      BY <2>1, <3>1, SubSeqRecursiveFirst, 1 \in 1 .. Len(wire), Len(wire) \in 1 .. Len(wire)
    <3>3. 1 + 1 = 2
      OBVIOUS
    <3>. HIDE DEF t
    <3>. QED
      BY <3>1, <3>2, <3>3, Zenon
  <2>. HIDE DEF b, t
  <2>6. data' \o wire' = data \o wire
    <3>1. Associative(Bytes)
      BY Joining, Zenon
    <3>2. t \in Seq(Bytes)
      BY <2>2 DEF t
    <3>3. (data \o b) \o t = data \o (b \o t)
      BY <2>1, <2>3, <3>1, <3>2, Zenon DEF Associative
    <3>. QED
      BY <1>2, <2>4, <2>5, <3>3, Zenon DEF t
  <2>7. Kept(to, sent, wire', data', list)
    BY <1>1, <2>6, Zenon DEF Kept
  <2>. QED
    BY <1>1, <1>2, <2>1, <2>2, <2>4, <2>7, Zenon DEF StreamInv
<1>4. CASE ~ Followed(to, sent)
  <2>1. Kept(to, sent, wire', data', list)
    BY <1>4, Zenon DEF Kept, Followed
  <2>. QED
    BY <1>1, <1>2, <1>4, <2>1, Zenon DEF StreamInv
<1>. QED
  BY <1>3, <1>4

LEMMA CutKeeps ==
  ASSUME StreamInv, Cut
  PROVE  StreamInv'
<1>. DEFINE p == ParsedBy(to, data)
            message == [type |-> p.type, data |-> p.data]
<1>1. /\ to \in {"server", "client"} /\ sent \in Seq(FramesTo(to))
      /\ Followed(to, sent) =>
           wire \in Seq(Bytes) /\ data \in Seq(Bytes) /\ Len(list) \in Nat
      /\ Kept(to, sent, wire, data, list)
  BY DEF StreamInv
<1>2. Parsed(data) = p
  BY Restated
<1>. HIDE DEF p
<1>3. /\ p.ok
      /\ data' = SubSeq(data, p.size + 1, Len(data))
      /\ list' = Append(list, message)
      /\ to' = to /\ sent' = sent /\ wire' = wire
  BY <1>2, Zenon DEF Cut
<1>4. CASE Followed(to, sent)
  <2>. DEFINE n == Len(list)
              g == UnderstoodUpTo(to, sent)
              e == EncodedTo(to, sent[n + 1])
              t == Rest(to, sent, n + 1)
  <2>1. wire \in Seq(Bytes) /\ data \in Seq(Bytes) /\ n \in Nat
    BY <1>1, <1>4
  <2>2. /\ n \in 0 .. g /\ g \in 0 .. Len(sent)
        /\ list = [i \in 1 .. n |-> MessageTo(to, sent[i])]
        /\ p.ok <=> n < g /\ Len(data) >= Len(e)
        /\ p.ok => /\ p.size = Len(e) /\ e \in Seq(Bytes) /\ Len(data) >= Len(e)
                   /\ message = MessageTo(to, sent[n + 1])
                   /\ data \o wire = e \o t
                   /\ t \in Seq(Bytes)
    <3>1. NextFound(to, sent, wire, data, list)
      BY <1>1, <1>4, <2>1, NextParsed
    <3>. QED
      BY <3>1 DEF NextFound, p
  <2>. HIDE DEF n, g, e, t, message
  <2>3. n < g /\ n + 1 <= g
    BY <1>3, <2>1, <2>2
  <2>4. data' \in Seq(Bytes) /\ data' \o wire = t
    <3>1. e \in Seq(Bytes) /\ t \in Seq(Bytes) /\ data \o wire = e \o t
          /\ Len(data) >= Len(e) /\ p.size = Len(e)
      BY <1>3, <2>2
    <3>2. Arriving(Bytes, data, wire, e, t)
      BY <2>1, <3>1 DEF Arriving
    <3>3. Divided(Bytes, data, wire, e, t)
      BY <3>2, FirstPart, Zenon
    <3>. QED
      BY <1>3, <3>1, <3>3, Zenon DEF Divided
  <2>5. /\ list' = [i \in 1 .. n + 1 |-> MessageTo(to, sent[i])]
        /\ Len(list') = n + 1
    <3>. DEFINE M == {MessageTo(to, sent[i]) : i \in 1 .. n + 1}
                new == [i \in 1 .. n + 1 |-> MessageTo(to, sent[i])]
    <3>1. list \in [1 .. n -> M] /\ message \in M
      <4>1. \A i \in 1 .. n : i \in 1 .. n + 1
        BY <2>1
      <4>2. n + 1 \in 1 .. n + 1
        BY <2>1
      <4>3. \A i \in 1 .. n : MessageTo(to, sent[i]) \in M
        BY <4>1, Zenon
      <4>4. message \in M
        BY <1>3, <2>2, <4>2, Zenon
      <4>. HIDE DEF M
      <4>. QED
        BY <2>2, <4>3, <4>4, Zenon
    <3>2. new \in [1 .. n + 1 -> M]
      OBVIOUS
    <3>. HIDE DEF M
    <3>3. list \in Seq(M) /\ new \in Seq(M) /\ Len(new) = n + 1
      <4>1. n + 1 \in Nat
        BY <2>1
      <4>. HIDE DEF new
      <4>. QED
        BY <2>1, <3>1, <3>2, <4>1, FunctionIsSeq
    <3>4. /\ Append(list, message) \in Seq(M)
          /\ Len(Append(list, message)) = n + 1
          /\ \A i \in 1 .. n : Append(list, message)[i] = list[i]
          /\ Append(list, message)[n + 1] = message
      BY <3>1, <3>3, AppendProperties DEF n
    <3>5. ASSUME NEW i \in 1 .. n + 1
          PROVE  Append(list, message)[i] = new[i]
      <4>1. new[i] = MessageTo(to, sent[i])
        OBVIOUS
      <4>. HIDE DEF new
      <4>2. CASE i = n + 1
        BY <1>3, <2>2, <3>4, <4>1, <4>2
      <4>3. CASE i # n + 1
        <5>1. i \in 1 .. n
          BY <2>1, <4>3
        <5>2. list[i] = MessageTo(to, sent[i])
          BY <2>2, <5>1, Zenon
        <5>. QED
          BY <3>4, <4>1, <5>1, <5>2
      <4>. QED
        BY <4>2, <4>3
    <3>. HIDE DEF new
    <3>6. Append(list, message) = new
      BY <3>3, <3>4, <3>5, SeqEqual
    <3>. QED
      BY <1>3, <3>4, <3>6 DEF new
  <2>6. n + 1 \in Nat /\ n + 1 <= UnderstoodUpTo(to, sent)
    BY <2>1, <2>3 DEF g
  <2>7. Kept(to, sent, wire, data', list')
    BY <2>4, <2>5, <2>6, Zenon DEF Kept, t
  <2>. QED
    BY <1>1, <1>3, <2>1, <2>4, <2>5, <2>6, <2>7, Zenon DEF StreamInv
<1>5. CASE ~ Followed(to, sent)
  <2>1. Kept(to, sent, wire, data', list')
    BY <1>5, Zenon DEF Kept, Followed
  <2>. QED
    BY <1>1, <1>3, <1>5, <2>1, Zenon DEF StreamInv
<1>. QED
  BY <1>4, <1>5

-----------------------------------------------------------------------------

\* The invariant holds of every execution, for any byte size, limits and
\* frames that fit into a ByteArray.
THEOREM StreamInvariance == Spec => []StreamInv
<1>1. StreamInv /\ [Next]_vars => StreamInv'
  <2>. SUFFICES ASSUME StreamInv, [Next]_vars
                PROVE  StreamInv'
    OBVIOUS
  <2>1. CASE Send
    BY <2>1, SendKeeps
  <2>2. CASE Arrive
    BY <2>2, ArriveKeeps
  <2>3. CASE Cut
    BY <2>3, CutKeeps
  <2>4. CASE UNCHANGED vars
    <3>1. to' = to /\ sent' = sent /\ wire' = wire /\ data' = data /\ list' = list
      BY <2>4 DEF vars
    <3>. QED
      BY <3>1, Zenon DEF StreamInv
  <2>. QED
    BY <2>1, <2>2, <2>3, <2>4 DEF Next
<1>. QED
  BY <1>1, StreamInit, PTL DEF Spec

\* However the bytes are cut into reads, both ends find the frames that were
\* sent, in order, with their contents (RequestWebSocket::Parse with
\* CheckWsFrame, ResponseWebSocket::Parse with OnDataReady).
THEOREM FramesKept == Spec => []StreamKept
<1>1. StreamInv => StreamKept
  BY Restated DEF StreamInv
<1>. QED
  BY <1>1, StreamInvariance, PTL

\* A message is cut out when the last byte of its frame is there, not earlier
\* and not later.
THEOREM FramesCutInTime == Spec => []CutsInTime
<1>1. StreamInv => CutsInTime
  <2>. SUFFICES ASSUME StreamInv, Followed(to, sent)
                PROVE  LET n == Len(list) IN
                       ParsedBy(to, data).ok <=>
                         /\ n < UnderstoodUpTo(to, sent)
                         /\ Len(data) >= Len(EncodedTo(to, sent[n + 1]))
    BY Restated, Zenon DEF CutsInTime, Followed
  <2>1. /\ to \in {"server", "client"} /\ sent \in Seq(FramesTo(to))
        /\ wire \in Seq(Bytes) /\ data \in Seq(Bytes) /\ Len(list) \in Nat
        /\ Kept(to, sent, wire, data, list)
    BY DEF StreamInv
  <2>. QED
    BY <2>1, NextParsed DEF NextFound
<1>. QED
  BY <1>1, StreamInvariance, PTL
=============================================================================
