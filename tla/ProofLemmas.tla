---------------------------- MODULE ProofLemmas ----------------------------
(***************************************************************************)
(* Facts about the community modules' operators on sets and sequences that *)
(* the proofs of several components need.                                  *)
(***************************************************************************)
EXTENDS Integers, SequencesExt, SequenceTheorems, FiniteSetTheorems, TLAPS

\* A non-empty set of naturals has a least element, and Min is it.
LEMMA LeastOfNats ==
  ASSUME NEW T, T \subseteq Nat, T # {}
  PROVE  /\ Min(T) \in T
         /\ \A t \in T : Min(T) <= t
<1>1. PICK m \in T : \A t \in T : ~ (<<t, m>> \in OpToRel(<, Nat))
  BY NatLessThanWellFounded, WFMin
<1>2. \A t \in T : ~ (t < m)
  BY <1>1, Zenon DEF OpToRel
<1>3. \E x \in T : \A t \in T : x <= t
  BY <1>2
<1>. QED
  BY <1>3, Zenon DEF Min

\* Induction up to n, for a set in place of a predicate, which the provers
\* can instantiate.
LEMMA UpTo ==
  ASSUME NEW n \in Nat, NEW T, 0 \in T,
         \A k \in 0 .. n - 1 : k \in T => k + 1 \in T
  PROVE  \A k \in 0 .. n : k \in T
<1>. DEFINE Bad == (0 .. n) \ T
            m == Min(Bad)
<1>. SUFFICES ASSUME Bad # {}
              PROVE  FALSE
  OBVIOUS
<1>1. m \in Bad /\ \A k \in Bad : m <= k
  <2>. Bad \subseteq Nat
    OBVIOUS
  <2>. HIDE DEF Bad
  <2>. QED
    BY LeastOfNats, Zenon
<1>. HIDE DEF m
<1>2. m \in 0 .. n /\ m \notin T /\ m # 0
  BY <1>1
<1>3. m - 1 \in 0 .. n - 1 /\ (m - 1) + 1 = m /\ ~ (m <= m - 1)
  BY <1>2
<1>4. m - 1 \in T
  BY <1>1, <1>3
<1>. QED
  BY <1>2, <1>3, <1>4

\* The greatest element of a set of numbers up to k is one of them.
LEMMA GreatestUpTo ==
  ASSUME NEW k \in Nat, NEW t, t \subseteq 1 .. k, t # {}
  PROVE  /\ Max(t) \in t
         /\ \A x \in t : Max(t) >= x
<1>. DEFINE B == {m \in Nat : \A x \in t : x <= m}
            b == Min(B)
<1>1. k \in B
  OBVIOUS
<1>2. b \in B /\ \A m \in B : b <= m
  <2>. HIDE DEF B
  <2>. B \subseteq Nat
    BY DEF B
  <2>. QED
    BY <1>1, LeastOfNats, Zenon
<1>. HIDE DEF b
<1>3. b \in t
  <2>. SUFFICES ASSUME b \notin t
                PROVE  FALSE
    OBVIOUS
  <2>1. \A x \in t : x \in Nat /\ x # b /\ x <= b /\ x >= 1
    BY <1>2
  <2>2. b \in Nat /\ b # 0
    <3>1. b \in Nat
      BY <1>2
    <3>. HIDE DEF B
    <3>2. PICK x \in t : x \in Nat /\ x <= b /\ x >= 1
      BY <2>1
    <3>. QED
      BY <3>1, <3>2
  <2>3. b - 1 \in Nat /\ \A x \in t : x <= b - 1
    <3>. HIDE DEF B
    <3>. QED
      BY <2>1, <2>2
  <2>4. b - 1 \in B
    BY <2>3
  <2>. QED
    BY <1>2, <2>2, <2>4
<1>4. \E y \in t : \A x \in t : y >= x
  BY <1>2, <1>3
<1>. QED
  BY <1>4, Zenon DEF Max

\* A fold over the numbers up to n, the greatest last: the recursion of
\* MapThenFoldSet has a solution.  The operator is a function, so that the
\* provers can instantiate it.
FoldsUpTo(k, G, base, f) ==
  \A t \in SUBSET (1 .. k) :
    f[t] = IF t = {} THEN base ELSE G[Max(t)][f[t \ {Max(t)}]]

LEMMA FoldExists ==
  ASSUME NEW n \in Nat, NEW V, NEW base \in V, NEW G \in [1 .. n -> [V -> V]]
  PROVE  \E f \in [SUBSET (1 .. n) -> V] : FoldsUpTo(n, G, base, f)
<1>. DEFINE T == {k \in 0 .. n :
                    \E f \in [SUBSET (1 .. k) -> V] : FoldsUpTo(k, G, base, f)}
<1>1. 0 \in T
  <2>. DEFINE f == [t \in SUBSET (1 .. 0) |-> base]
  <2>1. \A t \in SUBSET (1 .. 0) : t = {}
    OBVIOUS
  <2>2. f \in [SUBSET (1 .. 0) -> V] /\ FoldsUpTo(0, G, base, f)
    BY <2>1 DEF FoldsUpTo
  <2>. HIDE DEF f
  <2>3. 0 \in 0 .. n
    OBVIOUS
  <2>. QED
    BY <2>2, <2>3
<1>2. ASSUME NEW k \in 0 .. n - 1, k \in T
      PROVE  k + 1 \in T
  <2>1. PICK f \in [SUBSET (1 .. k) -> V] : FoldsUpTo(k, G, base, f)
    BY <1>2
  <2>. DEFINE g == [t \in SUBSET (1 .. k + 1) |->
                      IF k + 1 \in t THEN G[k + 1][f[t \ {k + 1}]] ELSE f[t]]
  <2>2. g \in [SUBSET (1 .. k + 1) -> V]
    <3>. SUFFICES ASSUME NEW t \in SUBSET (1 .. k + 1)
                  PROVE  (IF k + 1 \in t THEN G[k + 1][f[t \ {k + 1}]] ELSE f[t]) \in V
      OBVIOUS
    <3>1. CASE k + 1 \in t
      <4>1. t \ {k + 1} \in SUBSET (1 .. k)
        OBVIOUS
      <4>2. f[t \ {k + 1}] \in V /\ k + 1 \in 1 .. n
        BY <4>1
      <4>. QED
        BY <3>1, <4>2
    <3>2. CASE k + 1 \notin t
      <4>1. t \in SUBSET (1 .. k)
        BY <3>2
      <4>. QED
        BY <3>2, <4>1
    <3>. QED
      BY <3>1, <3>2
  <2>3. ASSUME NEW t \in SUBSET (1 .. k + 1)
        PROVE  g[t] = IF t = {} THEN base ELSE G[Max(t)][g[t \ {Max(t)}]]
    <3>1. CASE k + 1 \in t
      <4>1. Max(t) = k + 1
        <5>1. Max(t) \in t /\ \A x \in t : Max(t) >= x
          BY <3>1, GreatestUpTo, k + 1 \in Nat
        <5>2. Max(t) \in 1 .. k + 1 /\ Max(t) >= k + 1
          BY <3>1, <5>1
        <5>. HIDE DEF g
        <5>. QED
          BY <5>2
      <4>2. t \ {k + 1} \in SUBSET (1 .. k + 1) /\ k + 1 \notin t \ {k + 1}
        OBVIOUS
      <4>3. g[t \ {k + 1}] = f[t \ {k + 1}]
        BY <4>2
      <4>4. g[t] = G[k + 1][f[t \ {k + 1}]]
        BY <3>1
      <4>. HIDE DEF g
      <4>. QED
        BY <3>1, <4>1, <4>3, <4>4
    <3>2. CASE k + 1 \notin t
      <4>1. t \in SUBSET (1 .. k)
        BY <3>2
      <4>2. g[t] = f[t]
        BY <3>2
      <4>3. f[t] = IF t = {} THEN base ELSE G[Max(t)][f[t \ {Max(t)}]]
        BY <2>1, <4>1 DEF FoldsUpTo
      <4>4. g[t \ {Max(t)}] = f[t \ {Max(t)}]
        <5>. t \ {Max(t)} \in SUBSET (1 .. k + 1) /\ k + 1 \notin t \ {Max(t)}
          BY <3>2
        <5>. QED
          OBVIOUS
      <4>. HIDE DEF g
      <4>. QED
        BY <4>2, <4>3, <4>4
    <3>. QED
      BY <3>1, <3>2
  <2>. HIDE DEF g
  <2>4. FoldsUpTo(k + 1, G, base, g)
    BY <2>3 DEF FoldsUpTo
  <2>5. k + 1 \in 0 .. n
    OBVIOUS
  <2>. QED
    BY <2>2, <2>4, <2>5
<1>3. n \in T
  <2>. HIDE DEF T
  <2>. QED
    BY <1>1, <1>2, UpTo, n \in 0 .. n
<1>. QED
  BY <1>3

\* The sets that a fold over a sequence goes through.
LEMMA InitialSegment ==
  ASSUME NEW n \in Nat, NEW k \in 1 .. n
  PROVE  /\ 1 .. k \in SUBSET (1 .. n) /\ 1 .. k # {}
         /\ Max(1 .. k) = k
         /\ (1 .. k) \ {k} = 1 .. k - 1
<1>. DEFINE t == 1 .. k
<1>1. k \in t /\ (\A x \in t : x <= k) /\ \A x \in t : x \in 1 .. n
  OBVIOUS
<1>2. t \ {k} = 1 .. k - 1
  OBVIOUS
<1>3. t \subseteq 1 .. k
  OBVIOUS
<1>. HIDE DEF t
<1>4. t \in SUBSET (1 .. n) /\ t # {}
  BY <1>1, Zenon
<1>5. Max(t) \in t /\ \A x \in t : Max(t) >= x
  BY <1>3, <1>4, GreatestUpTo, k \in Nat
<1>6. Max(t) \in 1 .. n /\ Max(t) <= k /\ Max(t) >= k
  BY <1>1, <1>5
<1>7. Max(t) = k
  BY <1>6
<1>. QED
  BY <1>2, <1>4, <1>7 DEF t

\* What Append does to the elements of a sequence.
LEMMA AppendRange ==
  ASSUME NEW S, NEW s \in Seq(S), NEW e \in S
  PROVE  Range(Append(s, e)) = Range(s) \cup {e}
<1>1. Append(s, e) = s \o <<e>>
  BY AppendIsConcat
<1>2. <<e>> \in Seq(S) /\ Len(<<e>>) = 1 /\ <<e>>[1] = e
  OBVIOUS
<1>3. Range(<<e>>) = {<<e>>[i] : i \in 1 .. Len(<<e>>)}
  BY <1>2, RangeEquality
<1>4. Range(<<e>>) = {e}
  BY <1>2, <1>3
<1>5. Range(s \o <<e>>) = Range(s) \cup Range(<<e>>)
  BY Zenon, <1>2, RangeConcatenation
<1>. QED
  BY <1>1, <1>4, <1>5

\* What Tail does to the elements of a sequence.
LEMMA TailRange ==
  ASSUME NEW S, NEW s \in Seq(S), s # << >>
  PROVE  /\ Len(s) \in Nat \ {0}
         /\ Head(s) = s[1]
         /\ Range(s) = Range(Tail(s)) \cup {Head(s)}
<1>1. Len(s) \in Nat \ {0} /\ Head(s) = s[1]
  BY EmptySeq
<1>2. /\ Tail(s) \in Seq(S)
      /\ Len(Tail(s)) = Len(s) - 1
      /\ \A i \in 1 .. Len(Tail(s)) : Tail(s)[i] = s[i + 1]
  BY HeadTailProperties
<1>3. /\ Range(s) = {s[i] : i \in 1 .. Len(s)}
      /\ Range(Tail(s)) = {Tail(s)[i] : i \in 1 .. Len(Tail(s))}
  BY <1>2, RangeEquality
<1>4. \A i \in 1 .. Len(s) : i = 1 \/ (i - 1 \in 1 .. Len(Tail(s)) /\ i = (i - 1) + 1)
  BY <1>1, <1>2
<1>5. \A i \in 1 .. Len(Tail(s)) : i + 1 \in 1 .. Len(s)
  BY <1>1, <1>2
<1>6. ASSUME NEW x \in Range(s)
      PROVE  x \in Range(Tail(s)) \cup {Head(s)}
  <2>1. PICK i \in 1 .. Len(s) : x = s[i]
    BY <1>3
  <2>. QED
    BY <2>1, <1>1, <1>2, <1>3, <1>4
<1>7. ASSUME NEW x \in Range(Tail(s)) \cup {Head(s)}
      PROVE  x \in Range(s)
  BY <1>1, <1>2, <1>3, <1>5
<1>. QED
  BY <1>1, <1>6, <1>7

\* What removing from a sequence gives, position by position.
LEMMA RemoveAtFacts ==
  ASSUME NEW S, NEW s \in Seq(S), NEW i \in 1 .. Len(s)
  PROVE  /\ RemoveAt(s, i) \in Seq(S)
         /\ Len(RemoveAt(s, i)) = Len(s) - 1
         /\ \A j \in 1 .. Len(s) - 1 :
              RemoveAt(s, i)[j] = IF j < i THEN s[j] ELSE s[j + 1]
<1>. DEFINE front == SubSeq(s, 1, i - 1)
            back  == SubSeq(s, i + 1, Len(s))
<1>0. Len(s) \in Nat /\ \A k \in 1 .. Len(s) : s[k] \in S
  BY LenProperties, ElementOfSeq
<1>1. /\ front \in Seq(S)
      /\ Len(front) = i - 1
      /\ \A j \in 1 .. i - 1 : front[j] = s[j]
  BY <1>0, SubSeqProperties
<1>2. /\ back \in Seq(S)
      /\ Len(back) = Len(s) - i
      /\ \A j \in 1 .. Len(s) - i : back[j] = s[i + j]
  BY <1>0, SubSeqProperties
<1>. HIDE DEF front, back
<1>3. RemoveAt(s, i) = front \o back
  BY DEF RemoveAt, front, back
<1>4. /\ front \o back \in Seq(S)
      /\ Len(front \o back) = Len(front) + Len(back)
      /\ \A j \in 1 .. Len(front) + Len(back) :
           (front \o back)[j] =
             IF j <= Len(front) THEN front[j] ELSE back[j - Len(front)]
  BY <1>1, <1>2, ConcatProperties
<1>5. ASSUME NEW j \in 1 .. Len(s) - 1
      PROVE  (front \o back)[j] = IF j < i THEN s[j] ELSE s[j + 1]
  <2>1. CASE j < i
    BY <1>0, <1>1, <1>2, <1>4, <2>1
  <2>2. CASE j = i \/ j > i
    <3>1. j - (i - 1) \in 1 .. Len(s) - i /\ i + (j - (i - 1)) = j + 1
      BY <1>0, <2>2
    <3>2. (front \o back)[j] = back[j - (i - 1)]
      BY <1>0, <1>1, <1>2, <1>4, <2>2
    <3>. QED
      BY <1>2, <2>2, <3>1, <3>2
  <2>3. j < i \/ j = i \/ j > i
    BY <1>0
  <2>. QED
    BY <2>1, <2>2, <2>3
<1>. QED
  BY <1>0, <1>1, <1>2, <1>3, <1>4, <1>5

\* A non-empty bounded set of naturals has a greatest element: Max is it.
LEMMA GreatestOfNats ==
  ASSUME NEW T, T \subseteq Nat, T # {}, NEW b \in Nat, \A t \in T : t <= b
  PROVE  /\ Max(T) \in T
         /\ \A t \in T : t <= Max(T)
<1>. DEFINE U == {u \in Nat : \E t \in T : u + t = b}
<1>1. U \subseteq Nat
  OBVIOUS
<1>2. \A t \in T : b - t \in U
  OBVIOUS
<1>3. U # {}
  BY <1>2
<1>. HIDE DEF U
<1>4. Min(U) \in U /\ \A u \in U : Min(U) <= u
  BY <1>1, <1>3, LeastOfNats
<1>5. PICK m \in T : Min(U) + m = b
  BY <1>4 DEF U
<1>6. ASSUME NEW t \in T
      PROVE  t <= m
  <2>1. Min(U) <= b - t
    BY <1>2, <1>4
  <2>2. Min(U) \in Nat /\ m \in Nat /\ t \in Nat
    BY <1>1, <1>4
  <2>. QED
    BY <1>5, <2>1, <2>2
<1>7. \E x \in T : \A y \in T : x >= y
  <2>1. \A t \in T : m >= t
    BY <1>6
  <2>. QED
    BY <2>1
<1>8. Max(T) \in T /\ \A y \in T : Max(T) >= y
  BY <1>7, Zenon DEF Max
<1>. QED
  BY <1>8

\* A function on 1 .. n is a sequence of length n.
LEMMA FunctionIsSeq ==
  ASSUME NEW S, NEW n \in Nat, NEW f \in [1 .. n -> S]
  PROVE  f \in Seq(S) /\ Len(f) = n
<1>1. f \in Seq(S)
  BY SeqDef
<1>2. Len(f) \in Nat /\ DOMAIN f = 1 .. Len(f)
  BY <1>1, LenProperties
<1>3. 1 .. n = 1 .. Len(f)
  BY <1>2
<1>. QED
  BY <1>1, <1>2, <1>3

\* Euclidean division.
LEMMA Division ==
  ASSUME NEW n \in Nat, NEW d \in Nat \ {0}
  PROVE  /\ n \div d \in Nat
         /\ n % d \in 0 .. d - 1
         /\ n = d * (n \div d) + (n % d)
OBVIOUS

\* The quotient and the remainder of a number written as d * q + r.
LEMMA Quotient ==
  ASSUME NEW q \in Nat, NEW d \in Nat \ {0}, NEW r \in 0 .. d - 1
  PROVE  /\ (d * q + r) \div d = q
         /\ (d * q + r) % d = r
OBVIOUS

\* A part of a sequence, position by position.
LEMMA PartOf ==
  ASSUME NEW S, NEW s \in Seq(S), NEW a \in Nat, NEW n \in Nat, a + n <= Len(s),
         NEW first, NEW last, first = a + 1, last = a + n
  PROVE  /\ SubSeq(s, first, last) \in Seq(S)
         /\ Len(SubSeq(s, first, last)) = n
         /\ \A i \in 1 .. n : SubSeq(s, first, last)[i] = s[a + i]
<1>. DEFINE t == SubSeq(s, first, last)
<1>1. Len(s) \in Nat /\ \A k \in 1 .. Len(s) : s[k] \in S
  BY LenProperties, ElementOfSeq
<1>2. first \in Int /\ last \in Int
  OBVIOUS
<1>3. \A k \in first .. last : s[k] \in S
  <2>1. TAKE k \in first .. last
  <2>2. k \in 1 .. Len(s)
    BY <1>1
  <2>. QED
    BY <1>1, <2>2
<1>4. /\ t \in Seq(S)
      /\ Len(t) = IF first <= last THEN last - first + 1 ELSE 0
      /\ \A i \in 1 .. last - first + 1 : t[i] = s[first + i - 1]
  BY <1>2, <1>3, SubSeqProperties
<1>5. last - first + 1 = n
  OBVIOUS
<1>6. first <= last \/ n = 0
  OBVIOUS
<1>. HIDE DEF t
<1>7. Len(t) = n
  BY <1>4, <1>5, <1>6
<1>8. ASSUME NEW i \in 1 .. n
      PROVE  t[i] = s[a + i]
  <2>1. first + i - 1 = a + i
    OBVIOUS
  <2>2. t[i] = s[first + i - 1]
    BY <1>4, <1>5
  <2>. QED
    BY <2>1, <2>2
<1>. QED
  BY <1>4, <1>7, <1>8 DEF t

\* The rest of a part of a sequence is a part of it that ends there too.
LEMMA RestOfSubSeq ==
  ASSUME NEW S, NEW s \in Seq(S), NEW a \in Nat, NEW b \in Nat, NEW c \in Nat,
         a <= b, b <= c, c <= Len(s)
  PROVE  SubSeq(SubSeq(s, a + 1, c), b - a + 1, c - a) = SubSeq(s, b + 1, c)
<1>. DEFINE t == SubSeq(s, a + 1, c)
            u == SubSeq(t, b - a + 1, c - a)
            v == SubSeq(s, b + 1, c)
<1>0. Len(s) \in Nat /\ \A k \in 1 .. Len(s) : s[k] \in S
  BY LenProperties, ElementOfSeq
<1>1. /\ t \in Seq(S) /\ Len(t) = c - a
      /\ \A k \in 1 .. c - a : t[k] = s[a + k]
  <2>1. \A k \in a + 1 .. c : s[k] \in S
    BY <1>0
  <2>2. /\ t \in Seq(S)
        /\ Len(t) = IF a + 1 <= c THEN c - (a + 1) + 1 ELSE 0
        /\ \A k \in 1 .. c - (a + 1) + 1 : t[k] = s[a + 1 + k - 1]
    BY <2>1, SubSeqProperties
  <2>3. c - (a + 1) + 1 = c - a /\ (IF a + 1 <= c THEN c - a ELSE 0) = c - a
    OBVIOUS
  <2>4. \A k \in 1 .. c - a : a + 1 + k - 1 = a + k
    OBVIOUS
  <2>. HIDE DEF t
  <2>. QED
    BY <2>2, <2>3, <2>4
<1>2. /\ v \in Seq(S) /\ Len(v) = c - b
      /\ \A k \in 1 .. c - b : v[k] = s[b + k]
  <2>1. \A k \in b + 1 .. c : s[k] \in S
    BY <1>0
  <2>2. /\ v \in Seq(S)
        /\ Len(v) = IF b + 1 <= c THEN c - (b + 1) + 1 ELSE 0
        /\ \A k \in 1 .. c - (b + 1) + 1 : v[k] = s[b + 1 + k - 1]
    BY <2>1, SubSeqProperties
  <2>3. c - (b + 1) + 1 = c - b /\ (IF b + 1 <= c THEN c - b ELSE 0) = c - b
    OBVIOUS
  <2>4. \A k \in 1 .. c - b : b + 1 + k - 1 = b + k
    OBVIOUS
  <2>. HIDE DEF v
  <2>. QED
    BY <2>2, <2>3, <2>4
<1>. HIDE DEF t, v
<1>3. /\ u \in Seq(S) /\ Len(u) = c - b
      /\ \A k \in 1 .. c - b : u[k] = t[b - a + k]
  <2>. DEFINE d == b - a
              f == c - a
  <2>0. d \in Nat /\ f \in Nat /\ d <= f /\ c - b = f - d
    OBVIOUS
  <2>1. \A k \in d + 1 .. f : t[k] \in S
    <3>1. \A k \in d + 1 .. f : k \in 1 .. Len(t)
      BY <1>1, <2>0
    <3>. QED
      BY <1>1, <3>1, ElementOfSeq
  <2>2. u = SubSeq(t, d + 1, f)
    OBVIOUS
  <2>. HIDE DEF d, f, u
  <2>3. /\ SubSeq(t, d + 1, f) \in Seq(S)
        /\ Len(SubSeq(t, d + 1, f)) = IF d + 1 <= f THEN f - (d + 1) + 1 ELSE 0
        /\ \A k \in 1 .. f - (d + 1) + 1 : SubSeq(t, d + 1, f)[k] = t[d + 1 + k - 1]
    BY <2>0, <2>1, SubSeqProperties
  <2>4. f - (d + 1) + 1 = f - d /\ (IF d + 1 <= f THEN f - d ELSE 0) = f - d
    BY <2>0
  <2>5. \A k \in 1 .. f - d : d + 1 + k - 1 = d + k
    BY <2>0
  <2>. QED
    BY <2>0, <2>2, <2>3, <2>4, <2>5 DEF d
<1>. HIDE DEF u
<1>4. \A k \in 1 .. c - b : u[k] = v[k]
  <2>1. \A k \in 1 .. c - b : b - a + k \in 1 .. c - a /\ a + (b - a + k) = b + k
    OBVIOUS
  <2>. QED
    BY <1>1, <1>2, <1>3, <2>1
<1>5. Len(u) = Len(v)
  BY <1>2, <1>3
<1>6. u = v
  BY <1>2, <1>3, <1>4, <1>5, SeqEqual
<1>. QED
  BY <1>6 DEF u, v, t

\* Multiples of d, and the place of a multiple of d in a sequence that is cut
\* into pieces of d.
LEMMA Multiples ==
  ASSUME NEW d \in Nat \ {0}, NEW m \in Nat, NEW n \in Nat
  PROVE  /\ m * d \in Nat
         /\ (m + n) * d = m * d + n * d
         /\ m <= n => m * d <= n * d
         /\ (m + 1) * d = m * d + d
         /\ (m + 1) * d >= 1
         /\ ((m + 1) * d - 1) \div d + 1 = m + 1
<1>1. m * d \in Nat /\ (m + n) * d = m * d + n * d /\ (m + 1) * d = m * d + d
  OBVIOUS
<1>2. m <= n => m * d <= n * d
  OBVIOUS
<1>3. (m + 1) * d - 1 = d * m + (d - 1)
  BY <1>1
<1>4. (d * m + (d - 1)) \div d = m
  <2>1. d - 1 \in 0 .. d - 1
    OBVIOUS
  <2>. QED
    BY <2>1, Quotient
<1>. QED
  BY <1>1, <1>2, <1>3, <1>4

\* What is in a sequence to which one more is appended.
LEMMA Appended ==
  ASSUME NEW S, NEW s \in Seq(S), NEW x \in S
  PROVE  \A j \in 1 .. Len(Append(s, x)) :
           Append(s, x)[j] = x \/ \E k \in 1 .. Len(s) : Append(s, x)[j] = s[k]
<1>1. /\ Len(s) \in Nat /\ Len(Append(s, x)) = Len(s) + 1
      /\ \A k \in 1 .. Len(s) : Append(s, x)[k] = s[k]
      /\ Append(s, x)[Len(s) + 1] = x
  BY AppendProperties, LenProperties
<1>2. \A j \in 1 .. Len(Append(s, x)) : j \in 1 .. Len(s) \/ j = Len(s) + 1
  BY <1>1
<1>. QED
  BY <1>1, <1>2

\* Joining sequences is associative, in a form the provers can instantiate.
Associative(S) == \A a, b, c \in Seq(S) : (a \o b) \o c = a \o (b \o c)

LEMMA Joining == ASSUME NEW S PROVE Associative(S)
<1>1. ASSUME NEW a \in Seq(S), NEW b \in Seq(S), NEW c \in Seq(S)
      PROVE  (a \o b) \o c = a \o (b \o c)
  BY ConcatAssociative
<1>. QED
  BY <1>1, Zenon DEF Associative

\* The sequences that joining m sequences goes through.  An operator of its
\* own, so that the provers can instantiate it.
Joins(m, ss, p) ==
  p[0] = << >> /\ \A k \in 1 .. m : p[k] = p[k - 1] \o ss[k]

LEMMA JoinsExist ==
  ASSUME NEW S, NEW m \in Nat, NEW ss \in [1 .. m -> Seq(S)]
  PROVE  \E p \in [0 .. m -> Seq(S)] : Joins(m, ss, p)
<1>. DEFINE T == {k \in 0 .. m : \E p \in [0 .. k -> Seq(S)] : Joins(k, ss, p)}
<1>1. 0 \in T
  <2>. DEFINE p == [i \in 0 .. 0 |-> << >>]
  <2>1. p \in [0 .. 0 -> Seq(S)]
    OBVIOUS
  <2>2. Joins(0, ss, p)
    BY DEF Joins
  <2>. HIDE DEF p
  <2>. QED
    BY <2>1, <2>2, 0 \in 0 .. m
<1>2. ASSUME NEW k \in 0 .. m - 1, k \in T
      PROVE  k + 1 \in T
  <2>1. PICK p \in [0 .. k -> Seq(S)] : Joins(k, ss, p)
    BY <1>2
  <2>. DEFINE last == p[k] \o ss[k + 1]
              q == [i \in 0 .. k + 1 |-> IF i = k + 1 THEN last ELSE p[i]]
  <2>2. last \in Seq(S)
    <3>1. p[k] \in Seq(S) /\ ss[k + 1] \in Seq(S)
      OBVIOUS
    <3>. QED
      BY <3>1, ConcatProperties
  <2>3. ASSUME NEW i \in 0 .. k + 1
        PROVE  (IF i = k + 1 THEN last ELSE p[i]) \in Seq(S)
    <3>1. CASE i = k + 1
      BY <2>2, <3>1
    <3>2. CASE i # k + 1
      <4>1. i \in 0 .. k
        BY <3>2
      <4>. QED
        BY <3>2, <4>1
    <3>. QED
      BY <3>1, <3>2
  <2>4. q \in [0 .. k + 1 -> Seq(S)]
    <3>. HIDE DEF last
    <3>. QED
      BY <2>3, Zenon
  <2>5. q[0] = << >>
    <3>1. 0 \in 0 .. k + 1 /\ 0 # k + 1
      OBVIOUS
    <3>. QED
      BY <2>1, <3>1, Zenon DEF Joins
  <2>6. ASSUME NEW i \in 1 .. k + 1
        PROVE  q[i] = q[i - 1] \o ss[i]
    <3>1. i \in 0 .. k + 1 /\ i - 1 \in 0 .. k + 1 /\ i - 1 # k + 1
      OBVIOUS
    <3>2. q[i - 1] = p[i - 1]
      BY <3>1
    <3>3. CASE i = k + 1
      <4>1. i - 1 = k
        BY <3>3
      <4>2. q[i] = p[k] \o ss[i]
        BY <3>1, <3>3
      <4>. HIDE DEF q
      <4>. QED
        BY <3>2, <4>1, <4>2
    <3>4. CASE i # k + 1
      <4>1. i \in 1 .. k
        BY <3>4
      <4>2. q[i] = p[i] /\ p[i] = p[i - 1] \o ss[i]
        BY <2>1, <3>1, <3>4, <4>1 DEF Joins
      <4>. HIDE DEF q
      <4>. QED
        BY <3>2, <4>2
    <3>. QED
      BY <3>3, <3>4
  <2>. HIDE DEF q
  <2>7. Joins(k + 1, ss, q)
    BY <2>5, <2>6 DEF Joins
  <2>8. k + 1 \in 0 .. m
    OBVIOUS
  <2>. QED
    BY <2>4, <2>7, <2>8
<1>3. m \in T
  <2>. HIDE DEF T
  <2>. QED
    BY <1>1, <1>2, UpTo, m \in 0 .. m
<1>. QED
  BY <1>3

\* FlattenSeq is the last of them.
LEMMA FlattenIsLast ==
  ASSUME NEW S, NEW m \in Nat, NEW ss \in [1 .. m -> Seq(S)],
         NEW p \in [0 .. m -> Seq(S)], Joins(m, ss, p)
  PROVE  FlattenSeq(ss) = p[m]
<1>. DEFINE Def(f) == f = [i \in 1 .. m |-> IF i = 1 THEN ss[i] ELSE f[i - 1] \o ss[i]]
            flatten == CHOOSE f : Def(f)
            T == {k \in 0 .. m : k = 0 \/ flatten[k] = p[k]}
<1>1. ss \in Seq(Seq(S)) /\ Len(ss) = m
  BY FunctionIsSeq
<1>2. p[0] = << >> /\ \A k \in 1 .. m : p[k] = p[k - 1] \o ss[k]
  BY DEF Joins
<1>3. CASE m = 0
  <2>1. ss = << >>
    BY <1>1, <1>3, EmptySeq
  <2>2. Len(ss) = 0
    BY <1>1, <1>3
  <2>. QED
    BY <1>2, <1>3, <2>1, <2>2 DEF FlattenSeq
<1>4. CASE m # 0
  <2>1. FlattenSeq(ss) = flatten[m]
    <3>1. Len(ss) # 0
      BY <1>1, <1>4
    <3>. QED
      BY <1>1, <3>1, Zenon DEF FlattenSeq
  <2>2. p[1] = ss[1]
    <3>1. 1 \in 1 .. m /\ 1 - 1 = 0
      BY <1>4
    <3>2. p[1] = << >> \o ss[1] /\ ss[1] \in Seq(S)
      BY <1>2, <3>1
    <3>. QED
      BY <3>2, ConcatEmptySeq
  <2>3. Def([i \in 1 .. m |-> p[i]])
    <3>. DEFINE f == [i \in 1 .. m |-> p[i]]
    <3>1. ASSUME NEW i \in 1 .. m
          PROVE  p[i] = IF i = 1 THEN ss[i] ELSE f[i - 1] \o ss[i]
      <4>1. CASE i = 1
        BY <2>2, <4>1
      <4>2. CASE i # 1
        <5>1. i - 1 \in 1 .. m
          BY <4>2
        <5>2. f[i - 1] = p[i - 1]
          BY <5>1
        <5>. HIDE DEF f
        <5>. QED
          BY <1>2, <4>2, <5>2
      <4>. QED
        BY <4>1, <4>2
    <3>2. [i \in 1 .. m |-> p[i]] = [i \in 1 .. m |-> IF i = 1 THEN ss[i] ELSE f[i - 1] \o ss[i]]
      <4>. HIDE DEF f
      <4>. QED
        BY <3>1, Zenon
    <3>. QED
      BY <3>2
  <2>4. Def(flatten)
    <3>. HIDE DEF Def
    <3>. QED
      BY <2>3, Zenon
  <2>. HIDE DEF flatten
  <2>5. 0 \in T
    BY 0 \in 0 .. m
  <2>6. ASSUME NEW k \in 0 .. m - 1, k \in T
        PROVE  k + 1 \in T
    <3>1. k + 1 \in 1 .. m /\ k + 1 \in 0 .. m /\ (k + 1) - 1 = k
      OBVIOUS
    <3>2. flatten[k + 1] = IF k + 1 = 1 THEN ss[k + 1] ELSE flatten[k] \o ss[k + 1]
      BY <2>4, <3>1
    <3>3. CASE k = 0
      <4>1. k + 1 = 1
        BY <3>3
      <4>. QED
        BY <2>2, <3>1, <3>2, <4>1
    <3>4. CASE k # 0
      <4>1. k + 1 # 1 /\ flatten[k] = p[k]
        BY <2>6, <3>4
      <4>2. p[k + 1] = p[k] \o ss[k + 1]
        BY <1>2, <3>1
      <4>. QED
        BY <3>1, <3>2, <4>1, <4>2
    <3>. QED
      BY <3>3, <3>4
  <2>7. m \in T
    <3>. HIDE DEF T
    <3>. QED
      BY <2>5, <2>6, UpTo, m \in 0 .. m
  <2>. QED
    BY <1>4, <2>1, <2>7
<1>. QED
  BY <1>3, <1>4

\* One sequence more at the end.
LEMMA FlattenMore ==
  ASSUME NEW S, NEW m \in Nat, NEW ss \in [1 .. m -> Seq(S)],
         NEW tt \in [1 .. m + 1 -> Seq(S)], \A i \in 1 .. m : tt[i] = ss[i]
  PROVE  /\ FlattenSeq(ss) \in Seq(S)
         /\ FlattenSeq(tt) = FlattenSeq(ss) \o tt[m + 1]
<1>1. PICK p \in [0 .. m + 1 -> Seq(S)] : Joins(m + 1, tt, p)
  BY JoinsExist, m + 1 \in Nat
<1>. DEFINE q == [i \in 0 .. m |-> p[i]]
<1>2. FlattenSeq(tt) = p[m + 1]
  BY <1>1, FlattenIsLast, m + 1 \in Nat
<1>3. q \in [0 .. m -> Seq(S)] /\ q[m] = p[m] /\ p[m] \in Seq(S)
  OBVIOUS
<1>4. Joins(m, ss, q)
  <2>1. q[0] = << >>
    BY <1>1, 0 \in 0 .. m DEF Joins
  <2>2. ASSUME NEW k \in 1 .. m
        PROVE  q[k] = q[k - 1] \o ss[k]
    <3>1. k \in 1 .. m + 1 /\ k \in 0 .. m /\ k - 1 \in 0 .. m
      OBVIOUS
    <3>2. q[k] = p[k] /\ q[k - 1] = p[k - 1]
      BY <3>1
    <3>3. p[k] = p[k - 1] \o tt[k]
      BY <1>1, <3>1 DEF Joins
    <3>. HIDE DEF q
    <3>. QED
      BY <3>2, <3>3
  <2>. HIDE DEF q
  <2>. QED
    BY <2>1, <2>2 DEF Joins
<1>. HIDE DEF q
<1>5. FlattenSeq(ss) = p[m]
  BY <1>3, <1>4, FlattenIsLast
<1>6. p[m + 1] = p[m] \o tt[m + 1]
  BY <1>1, m + 1 \in 1 .. m + 1, (m + 1) - 1 = m DEF Joins
<1>. QED
  BY <1>2, <1>3, <1>5, <1>6

\* The first sequence comes first.
LEMMA FlattenFirst ==
  ASSUME NEW S, NEW m \in Nat, NEW ss \in [1 .. m -> Seq(S)],
         NEW tt \in [1 .. m + 1 -> Seq(S)], \A i \in 1 .. m : tt[i + 1] = ss[i]
  PROVE  /\ FlattenSeq(ss) \in Seq(S)
         /\ FlattenSeq(tt) = tt[1] \o FlattenSeq(ss)
<1>0. Associative(S)
  BY Joining, Zenon
<1>1. PICK q \in [0 .. m -> Seq(S)] : Joins(m, ss, q)
  BY JoinsExist
<1>2. FlattenSeq(ss) = q[m] /\ q[m] \in Seq(S)
  <2>1. FlattenSeq(ss) = q[m]
    BY <1>1, FlattenIsLast, Zenon
  <2>. QED
    BY <2>1, m \in 0 .. m
<1>. DEFINE a == tt[1]
            p == [i \in 0 .. m + 1 |-> IF i = 0 THEN << >> ELSE a \o q[i - 1]]
<1>3. a \in Seq(S) /\ \A i \in 0 .. m : q[i] \in Seq(S)
  BY 1 \in 1 .. m + 1
<1>. HIDE DEF a
<1>4. ASSUME NEW i \in 0 .. m + 1
      PROVE  (IF i = 0 THEN << >> ELSE a \o q[i - 1]) \in Seq(S)
  <2>1. CASE i = 0
    BY <2>1
  <2>2. CASE i # 0
    <3>1. q[i - 1] \in Seq(S)
      BY <1>3, <2>2
    <3>2. a \o q[i - 1] \in Seq(S)
      BY <1>3, <3>1, ConcatProperties
    <3>. QED
      BY <2>2, <3>2
  <2>. QED
    BY <2>1, <2>2
<1>5. p \in [0 .. m + 1 -> Seq(S)]
  BY <1>4, Zenon
<1>6. p[0] = << >>
  BY 0 \in 0 .. m + 1
<1>7. ASSUME NEW k \in 1 .. m + 1
      PROVE  p[k] = p[k - 1] \o tt[k]
  <2>1. k \in 0 .. m + 1 /\ k - 1 \in 0 .. m + 1 /\ k # 0 /\ k - 1 \in 0 .. m
    OBVIOUS
  <2>2. p[k] = a \o q[k - 1]
    BY <2>1
  <2>3. CASE k = 1
    <3>1. p[k - 1] = << >> /\ q[k - 1] = << >> /\ tt[k] = a
      BY <1>1, <1>6, <2>3 DEF Joins, a
    <3>. HIDE DEF p
    <3>. QED
      BY <1>3, <2>2, <3>1, ConcatEmptySeq
  <2>4. CASE k # 1
    <3>1. k - 1 \in 1 .. m /\ k - 1 # 0 /\ (k - 1) + 1 = k /\ (k - 1) - 1 \in 0 .. m
      BY <2>4
    <3>2. p[k - 1] = a \o q[(k - 1) - 1]
      BY <2>1, <3>1
    <3>3. q[k - 1] = q[(k - 1) - 1] \o ss[k - 1] /\ ss[k - 1] = tt[k]
      <4>1. tt[(k - 1) + 1] = ss[k - 1]
        BY <3>1
      <4>. QED
        BY <1>1, <3>1, <4>1 DEF Joins
    <3>. HIDE DEF p
    <3>4. ss[k - 1] \in Seq(S) /\ q[(k - 1) - 1] \in Seq(S)
      BY <1>3, <3>1
    <3>5. (a \o q[(k - 1) - 1]) \o ss[k - 1] = a \o (q[(k - 1) - 1] \o ss[k - 1])
      BY <1>3, <1>0, <3>4, Zenon DEF Associative
    <3>. QED
      BY <2>2, <3>2, <3>3, <3>5, Zenon
  <2>. QED
    BY <2>3, <2>4
<1>8. p[m + 1] = a \o q[m]
  BY m + 1 \in 0 .. m + 1, m + 1 # 0, (m + 1) - 1 = m
<1>. HIDE DEF p
<1>9. Joins(m + 1, tt, p)
  BY <1>6, <1>7 DEF Joins
<1>10. FlattenSeq(tt) = p[m + 1]
  BY <1>5, <1>9, FlattenIsLast, m + 1 \in Nat
<1>. QED
  BY <1>2, <1>8, <1>10 DEF a

\* A stream of which d has arrived and w has not, and which begins with e.
Arriving(S, d, w, e, t) ==
  d \in Seq(S) /\ w \in Seq(S) /\ e \in Seq(S) /\ t \in Seq(S) /\ d \o w = e \o t

\* What has arrived of it begins like e; what is there behind e begins the rest.
Divided(S, d, w, e, t) ==
  /\ \A i \in 1 .. Len(d) : i <= Len(e) => d[i] = e[i]
  /\ Len(d) >= Len(e) => /\ SubSeq(d, Len(e) + 1, Len(d)) \in Seq(S)
                         /\ SubSeq(d, Len(e) + 1, Len(d)) \o w = t

LEMMA FirstPart ==
  ASSUME NEW S, NEW d, NEW w, NEW e, NEW t, Arriving(S, d, w, e, t)
  PROVE  Divided(S, d, w, e, t)
<1>. d \in Seq(S) /\ w \in Seq(S) /\ e \in Seq(S) /\ t \in Seq(S) /\ d \o w = e \o t
  BY DEF Arriving
<1>0. Associative(S)
  BY Joining, Zenon
<1>1. /\ Len(d) \in Nat /\ Len(w) \in Nat /\ Len(e) \in Nat /\ Len(t) \in Nat
      /\ \A i \in 1 .. Len(d) : d[i] \in S
  BY LenProperties, ElementOfSeq
<1>2. /\ \A i \in 1 .. Len(d) + Len(w) :
           (d \o w)[i] = IF i <= Len(d) THEN d[i] ELSE w[i - Len(d)]
      /\ \A i \in 1 .. Len(e) + Len(t) :
           (e \o t)[i] = IF i <= Len(e) THEN e[i] ELSE t[i - Len(e)]
  BY ConcatProperties
<1>3. ASSUME NEW i \in 1 .. Len(d), i <= Len(e)
      PROVE  d[i] = e[i]
  <2>1. i \in 1 .. Len(d) + Len(w) /\ i <= Len(d) /\ i \in 1 .. Len(e) + Len(t)
    BY <1>1, <1>3
  <2>2. (d \o w)[i] = d[i] /\ (e \o t)[i] = e[i]
    BY <1>2, <1>3, <2>1
  <2>. QED
    BY <2>2
<1>4. ASSUME Len(d) >= Len(e)
      PROVE  /\ SubSeq(d, Len(e) + 1, Len(d)) \in Seq(S)
             /\ SubSeq(d, Len(e) + 1, Len(d)) \o w = t
  <2>. DEFINE x == SubSeq(d, 1, Len(e))
              y == SubSeq(d, Len(e) + 1, Len(d))
  <2>1. 0 \in Nat /\ 0 + Len(e) <= Len(d) /\ 1 = 0 + 1 /\ Len(e) = 0 + Len(e)
    BY <1>1, <1>4
  <2>2. /\ x \in Seq(S) /\ Len(x) = Len(e)
        /\ \A i \in 1 .. Len(e) : x[i] = d[0 + i]
    BY <1>1, <2>1, PartOf
  <2>3. Len(d) - Len(e) \in Nat /\ Len(e) + (Len(d) - Len(e)) = Len(d)
    BY <1>1, <1>4
  <2>4. y \in Seq(S)
    BY <1>1, <2>3, PartOf
  <2>5. x \o y = d
    <3>1. SubSeq(d, 1, Len(d)) = d
      BY SubSeqFull
    <3>2. /\ 1 \in 1 .. Len(d) + 1 /\ Len(e) \in 1 - 1 .. Len(d)
          /\ Len(d) \in Len(e) .. Len(d)
      BY <1>1, <1>4
    <3>3. x \o y = SubSeq(d, 1, Len(d))
      BY <3>2, ConcatAdjacentSubSeq
    <3>. QED
      BY <3>1, <3>3
  <2>. HIDE DEF x, y
  <2>6. x = e
    <3>1. \A i \in 1 .. Len(x) : x[i] = e[i]
      <4>1. TAKE i \in 1 .. Len(x)
      <4>2. i \in 1 .. Len(d) /\ i <= Len(e) /\ 0 + i = i
        BY <1>1, <1>4, <2>2
      <4>. QED
        BY <1>3, <2>2, <4>2
    <3>. QED
      BY <2>2, <3>1, SeqEqual
  <2>7. e \o (y \o w) = e \o t
    <3>1. (x \o y) \o w = x \o (y \o w)
      <4>1. x \in Seq(S) /\ y \in Seq(S) /\ w \in Seq(S)
        BY <2>2, <2>4
      <4>2. \A a, b, c \in Seq(S) : (a \o b) \o c = a \o (b \o c)
        BY <1>0 DEF Associative
      <4>. QED
        BY <4>1, <4>2, ZenonT(40)
    <3>. QED
      BY <2>5, <2>6, <3>1, Zenon
  <2>8. y \o w \in Seq(S)
    BY <2>4, ConcatProperties
  <2>9. y \o w = t
    BY <2>7, <2>8, ConcatSimplifications, Zenon
  <2>. QED
    BY <2>4, <2>9 DEF y
<1>. QED
  BY <1>3, <1>4 DEF Divided
=============================================================================
