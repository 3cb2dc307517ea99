-------------------------- MODULE MemoryPoolProofs --------------------------
(***************************************************************************)
(* Theorems about MemoryPool, for every pool size, word size and set of    *)
(* requests.                                                               *)
(***************************************************************************)
EXTENDS MemoryPool, ProofLemmas

-----------------------------------------------------------------------------
(* Facts about the operators the model is built from.                      *)

\* What inserting into a sequence gives, position by position.
LEMMA InsertAtFacts ==
  ASSUME NEW S, NEW s \in Seq(S), NEW i \in 1 .. Len(s) + 1, NEW e \in S
  PROVE  /\ InsertAt(s, i, e) \in Seq(S)
         /\ Len(InsertAt(s, i, e)) = Len(s) + 1
         /\ \A j \in 1 .. Len(s) + 1 :
              InsertAt(s, i, e)[j] =
                IF j < i THEN s[j] ELSE IF j = i THEN e ELSE s[j - 1]
<1>. DEFINE front == SubSeq(s, 1, i - 1)
            back  == SubSeq(s, i, Len(s))
<1>0. Len(s) \in Nat /\ \A k \in 1 .. Len(s) : s[k] \in S
  BY LenProperties, ElementOfSeq
<1>1. /\ front \in Seq(S)
      /\ Len(front) = i - 1
      /\ \A j \in 1 .. i - 1 : front[j] = s[j]
  BY <1>0, SubSeqProperties
<1>2. /\ back \in Seq(S)
      /\ Len(back) = Len(s) - i + 1
      /\ \A j \in 1 .. Len(s) - i + 1 : back[j] = s[i + j - 1]
  BY <1>0, SubSeqProperties
<1>. HIDE DEF front, back
<1>. DEFINE init == front \o <<e>>
<1>3. <<e>> \in Seq(S) /\ Len(<<e>>) = 1 /\ <<e>>[1] = e
  OBVIOUS
<1>4. /\ init \in Seq(S)
      /\ Len(init) = i
      /\ \A j \in 1 .. i : init[j] = IF j < i THEN s[j] ELSE e
  BY <1>0, <1>1, <1>3, ConcatProperties
<1>5. InsertAt(s, i, e) = init \o back
  BY DEF InsertAt, front, back
<1>. HIDE DEF init
<1>6. /\ init \o back \in Seq(S)
      /\ Len(init \o back) = Len(init) + Len(back)
      /\ \A j \in 1 .. Len(init) + Len(back) :
           (init \o back)[j] = IF j <= Len(init) THEN init[j] ELSE back[j - Len(init)]
  BY <1>2, <1>4, ConcatProperties
<1>7. ASSUME NEW j \in 1 .. Len(s) + 1
      PROVE  (init \o back)[j] = IF j < i THEN s[j] ELSE IF j = i THEN e ELSE s[j - 1]
  <2>1. CASE j < i \/ j = i
    BY <1>0, <1>2, <1>4, <1>6, <2>1
  <2>2. CASE j > i
    <3>1. j - i \in 1 .. Len(s) - i + 1 /\ i + (j - i) - 1 = j - 1
      BY <1>0, <2>2
    <3>2. (init \o back)[j] = back[j - i]
      BY <1>0, <1>2, <1>4, <1>6, <2>2
    <3>. QED
      BY <1>2, <2>2, <3>1, <3>2
  <2>3. j < i \/ j = i \/ j > i
    BY <1>0
  <2>. QED
    BY <2>1, <2>2, <2>3
<1>. QED
  BY <1>0, <1>2, <1>4, <1>5, <1>6, <1>7

-----------------------------------------------------------------------------
(* The inductive invariant.  Sorted is not inductive without the types: a  *)
(* cursor that wrapped at WordSize would be placed anywhere.               *)

IInv == TypeOK /\ Sorted

\* The invariant, region by region.
LEMMA RegionFacts ==
  ASSUME IInv
  PROVE  /\ Len(regions) \in Nat
         /\ Total \in Nat
         /\ \A k \in 1 .. Len(regions) :
              /\ regions[k] \in Region
              /\ regions[k].offset \in Nat
              /\ regions[k].size \in Nat \ {0}
              /\ regions[k].offset + regions[k].size <= Total
         /\ \A j, k \in 1 .. Len(regions) :
              j < k => regions[j].offset + regions[j].size <= regions[k].offset
<1>1. Len(regions) \in Nat /\ \A k \in 1 .. Len(regions) : regions[k] \in Region
  BY LenProperties, ElementOfSeq DEF IInv, TypeOK
<1>2. \A k \in 1 .. Len(regions) :
        regions[k].offset \in Nat /\ regions[k].size \in Nat
  BY <1>1, SizesAssumption DEF Region
<1>3. Total \in Nat
  BY SizesAssumption
<1>4. ASSUME NEW k \in 1 .. Len(regions)
      PROVE  /\ regions[k].size \in Nat \ {0}
             /\ regions[k].offset + regions[k].size <= Total
  <2>1. regions[k].size > 0 /\ regions[k].offset + regions[k].size <= Total
    BY DEF IInv, Sorted
  <2>. QED
    BY <1>2, <2>1
<1>5. \A j, k \in 1 .. Len(regions) :
        j < k => regions[j].offset + regions[j].size <= regions[k].offset
  BY DEF IInv, Sorted
<1>. QED
  BY <1>1, <1>2, <1>3, <1>4, <1>5

\* In a sorted pool no cursor and no gap wraps.
LEMMA GapFacts ==
  ASSUME IInv, NEW i \in 1 .. Len(regions) + 1
  PROVE  /\ Cursor(i) = IF i = 1 THEN 0
                         ELSE regions[i - 1].offset + regions[i - 1].size
         /\ Cursor(i) \in 0 .. Total
         /\ Edge(i) \in 0 .. Total
         /\ Cursor(i) <= Edge(i)
         /\ Minus(Edge(i), Cursor(i)) = Edge(i) - Cursor(i)
<1>1. /\ Cursor(i) = IF i = 1 THEN 0
                     ELSE regions[i - 1].offset + regions[i - 1].size
      /\ Cursor(i) \in 0 .. Total
  <2>1. CASE i = 1
    BY <2>1, RegionFacts DEF Cursor
  <2>2. CASE i # 1
    <3>1. i - 1 \in 1 .. Len(regions)
      BY <2>2, RegionFacts
    <3>2. /\ regions[i - 1].offset + regions[i - 1].size < WordSize
          /\ regions[i - 1].offset + regions[i - 1].size \in 0 .. Total
      BY <3>1, RegionFacts, SizesAssumption
    <3>. QED
      BY <2>2, <3>2 DEF Cursor, Plus
  <2>. QED
    BY <2>1, <2>2
<1>2. Edge(i) \in 0 .. Total
  <2>1. CASE i <= Len(regions)
    <3>1. i \in 1 .. Len(regions)
      BY <2>1, RegionFacts
    <3>2. /\ regions[i].offset \in Nat /\ regions[i].size \in Nat
          /\ regions[i].offset + regions[i].size <= Total
      BY <3>1, RegionFacts
    <3>. QED
      BY <2>1, <3>2, RegionFacts DEF Edge
  <2>2. CASE ~ (i <= Len(regions))
    BY <2>2, RegionFacts DEF Edge
  <2>. QED
    BY <2>1, <2>2
<1>3. Cursor(i) <= Edge(i)
  <2>1. CASE i = 1
    BY <1>1, <1>2, <2>1
  <2>2. CASE i # 1 /\ i <= Len(regions)
    <3>1. i - 1 \in 1 .. Len(regions) /\ i - 1 < i /\ i \in 1 .. Len(regions)
      BY <2>2, RegionFacts
    <3>2. regions[i - 1].offset + regions[i - 1].size <= regions[i].offset
      BY <3>1, RegionFacts
    <3>. QED
      BY <1>1, <2>2, <3>2 DEF Edge
  <2>3. CASE ~ (i <= Len(regions))
    BY <1>1, <2>3, RegionFacts DEF Edge
  <2>. QED
    BY <2>1, <2>2, <2>3
<1>. QED
  BY <1>1, <1>2, <1>3 DEF Minus

\* What allocate does when it finds room, position by position.
LEMMA AllocateFacts ==
  ASSUME IInv, NEW size \in Requests, Allocate(size), size # 0, Fitting(size) # {}
  PROVE  \E i \in 1 .. Len(regions) + 1 :
           /\ \A k \in 1 .. i - 1 : Edge(k) - Cursor(k) < size
           /\ Cursor(i) + size <= Edge(i)
           /\ [offset |-> Cursor(i), size |-> size] \in Region
           /\ regions' \in Seq(Region)
           /\ Len(regions') = Len(regions) + 1
           /\ \A k \in 1 .. Len(regions) + 1 :
                regions'[k] = IF k < i THEN regions[k]
                              ELSE IF k = i
                                   THEN [offset |-> Cursor(i), size |-> size]
                                   ELSE regions[k - 1]
           /\ used' = Plus(used, size)
           /\ result' = Cursor(i)
<1>. DEFINE i == Min(Fitting(size))
<1>0. Len(regions) \in Nat /\ regions \in Seq(Region)
  BY LenProperties DEF IInv, TypeOK
<1>1. Fitting(size) \subseteq Nat
  BY <1>0 DEF Fitting
<1>2. i \in Fitting(size) /\ \A k \in Fitting(size) : i <= k
  BY <1>1, LeastOfNats, Zenon
<1>3. i \in 1 .. Len(regions) + 1 /\ Minus(Edge(i), Cursor(i)) >= size
  BY <1>2 DEF Fitting
<1>4. /\ regions' = InsertAt(regions, i, [offset |-> Cursor(i), size |-> size])
      /\ used' = Plus(used, size)
      /\ result' = Cursor(i)
  BY DEF Allocate
<1>. HIDE DEF i
<1>5. size \in Nat
  BY SizesAssumption
<1>6. \A k \in 1 .. i - 1 : Edge(k) - Cursor(k) < size
  <2>1. TAKE k \in 1 .. i - 1
  <2>2. k \in 1 .. Len(regions) + 1 /\ ~ (i <= k)
    BY <1>0, <1>3, <2>1
  <2>3. ~ (Minus(Edge(k), Cursor(k)) >= size)
    BY <1>2, <2>2 DEF Fitting
  <2>. QED
    BY <1>5, <2>2, <2>3, GapFacts
<1>7. Cursor(i) + size <= Edge(i) /\ Cursor(i) \in 0 .. Total /\ Edge(i) \in 0 .. Total
  BY <1>3, <1>5, GapFacts
<1>8. [offset |-> Cursor(i), size |-> size] \in Region
  BY <1>5, <1>7, SizesAssumption DEF Region
<1>9. /\ regions' \in Seq(Region)
      /\ Len(regions') = Len(regions) + 1
      /\ \A k \in 1 .. Len(regions) + 1 :
           regions'[k] = IF k < i THEN regions[k]
                         ELSE IF k = i
                              THEN [offset |-> Cursor(i), size |-> size]
                              ELSE regions[k - 1]
  BY <1>0, <1>3, <1>4, <1>8, InsertAtFacts
<1>. QED
  BY <1>3, <1>4, <1>6, <1>7, <1>8, <1>9

\* Placing a region in a gap that holds it keeps the pool sorted.
LEMMA AllocateKeeps ==
  ASSUME IInv, NEW size \in Requests, Allocate(size)
  PROVE  IInv'
<1>1. CASE size = 0 \/ Fitting(size) = {}
  BY <1>1 DEF Allocate, IInv, TypeOK, Sorted
<1>2. CASE size # 0 /\ Fitting(size) # {}
  <2>1. PICK i \in 1 .. Len(regions) + 1 :
           /\ Cursor(i) + size <= Edge(i)
           /\ [offset |-> Cursor(i), size |-> size] \in Region
           /\ regions' \in Seq(Region)
           /\ Len(regions') = Len(regions) + 1
           /\ \A k \in 1 .. Len(regions) + 1 :
                regions'[k] = IF k < i THEN regions[k]
                              ELSE IF k = i
                                   THEN [offset |-> Cursor(i), size |-> size]
                                   ELSE regions[k - 1]
           /\ used' = Plus(used, size)
           /\ result' = Cursor(i)
    BY <1>2, AllocateFacts
  <2>2. /\ Len(regions) \in Nat
        /\ \A k \in 1 .. Len(regions) : regions[k] \in Region
        /\ size \in 1 .. WordSize - 1
    BY <1>2, LenProperties, ElementOfSeq, SizesAssumption DEF IInv, TypeOK
  <2>3. Cursor(i) \in 0 .. Total /\ Edge(i) \in 0 .. Total
    BY GapFacts
  <2>4. TypeOK'
    BY <2>1, <2>2, <2>3, SizesAssumption DEF IInv, TypeOK, Plus
  <2>. DEFINE fresh == [offset |-> Cursor(i), size |-> size]
              end(r) == r.offset + r.size
  <2>5. \A k \in 1 .. Len(regions) : k < i => end(regions[k]) <= Cursor(i)
    <3>1. TAKE k \in 1 .. Len(regions)
    <3>2. HAVE k < i
    <3>3. Cursor(i) = end(regions[i - 1]) /\ i - 1 \in 1 .. Len(regions)
      BY <2>2, <3>2, GapFacts
    <3>4. CASE k = i - 1
      BY <2>2, <3>3, <3>4 DEF Region
    <3>5. CASE k < i - 1
      BY <2>2, <3>3, <3>5 DEF Region, IInv, Sorted
    <3>. QED
      BY <2>2, <3>2, <3>4, <3>5
  <2>6. \A k \in 1 .. Len(regions) : k >= i => Cursor(i) + size <= regions[k].offset
    <3>1. TAKE k \in 1 .. Len(regions)
    <3>2. HAVE k >= i
    <3>3. Edge(i) = regions[i].offset /\ i \in 1 .. Len(regions)
      BY <2>2, <3>2 DEF Edge
    <3>4. CASE k = i
      BY <2>1, <3>3, <3>4
    <3>5. CASE k > i
      <4>1. regions[i].offset + regions[i].size <= regions[k].offset
        BY <2>2, <3>3, <3>5, RegionFacts
      <4>2. regions[i].offset \in Nat /\ regions[i].size \in Nat /\ regions[k].offset \in Nat
        BY <3>3, RegionFacts
      <4>. QED
        BY <2>1, <2>2, <2>3, <3>3, <4>1, <4>2
    <3>. QED
      BY <2>2, <3>2, <3>4, <3>5
  <2>. HIDE DEF fresh, end
  <2>7. ASSUME NEW j \in 1 .. Len(regions) + 1
        PROVE  /\ regions'[j].size > 0
               /\ end(regions'[j]) <= Total
               /\ \A k \in 1 .. Len(regions) + 1 :
                    j < k => end(regions'[j]) <= regions'[k].offset
    <3>0. \A k \in 1 .. Len(regions) :
            /\ regions[k].size > 0
            /\ end(regions[k]) <= Total
            /\ \A l \in 1 .. Len(regions) : k < l => end(regions[k]) <= regions[l].offset
      BY DEF IInv, Sorted, end
    <3>1. /\ fresh.offset = Cursor(i) /\ fresh.size = size
          /\ end(fresh) = Cursor(i) + size
          /\ fresh.size > 0 /\ end(fresh) <= Total
      <4>1. fresh.offset = Cursor(i) /\ fresh.size = size
        BY DEF fresh
      <4>2. end(fresh) = Cursor(i) + size
        BY <4>1 DEF end
      <4>. QED
        BY <2>1, <2>2, <2>3, <4>1, <4>2, RegionFacts
    <3>2. \A k \in 1 .. Len(regions) + 1 :
            regions'[k] = IF k < i THEN regions[k]
                          ELSE IF k = i THEN fresh ELSE regions[k - 1]
      BY <2>1 DEF fresh
    <3>3. ASSUME NEW k \in 1 .. Len(regions) + 1, j < k
          PROVE  end(regions'[j]) <= regions'[k].offset
      <4>0. j \in Nat /\ k \in Nat /\ i \in Nat
        BY <2>2
      <4>1. CASE k < i
        <5>. j < i /\ j \in 1 .. Len(regions) /\ k \in 1 .. Len(regions)
          BY <2>2, <3>3, <4>0, <4>1
        <5>. QED
          BY <3>0, <3>2, <3>3, <4>1
      <4>2. CASE k = i
        <5>. j < i /\ j \in 1 .. Len(regions) /\ ~ (k < i)
          BY <2>2, <3>3, <4>0, <4>2
        <5>. QED
          BY <2>5, <3>1, <3>2, <4>2
      <4>3. CASE k > i
        <5>0. k - 1 \in 1 .. Len(regions) /\ regions'[k] = regions[k - 1]
          BY <2>2, <3>2, <4>0, <4>3
        <5>1. CASE j < i
          <6>. j \in 1 .. Len(regions) /\ j < k - 1
            BY <2>2, <4>0, <4>3, <5>1
          <6>. QED
            BY <3>0, <3>2, <5>0, <5>1
        <5>2. CASE j = i
          <6>. k - 1 >= i /\ ~ (j < i)
            BY <4>0, <4>3, <5>2
          <6>. QED
            BY <2>6, <3>1, <3>2, <5>0, <5>2
        <5>3. CASE j > i
          <6>. /\ j - 1 \in 1 .. Len(regions) /\ j - 1 < k - 1
               /\ regions'[j] = regions[j - 1]
            BY <2>2, <3>2, <3>3, <4>0, <5>3
          <6>. QED
            BY <3>0, <5>0
        <5>. QED
          BY <4>0, <5>1, <5>2, <5>3
      <4>. QED
        BY <4>0, <4>1, <4>2, <4>3
    <3>4. regions'[j] = fresh \/ \E k \in 1 .. Len(regions) : regions'[j] = regions[k]
      <4>1. CASE j < i
        BY <2>2, <3>2, <4>1
      <4>2. CASE j > i
        <5>. j - 1 \in 1 .. Len(regions) /\ regions'[j] = regions[j - 1]
          BY <2>2, <3>2, <4>2
        <5>. QED
          OBVIOUS
      <4>. QED
        BY <2>2, <3>2, <4>1, <4>2
    <3>. QED
      BY <3>0, <3>1, <3>3, <3>4
  <2>8. Sorted'
    BY <2>1, <2>7 DEF Sorted, end
  <2>. QED
    BY <2>4, <2>8 DEF IInv
<1>. QED
  BY <1>1, <1>2

\* Erasing a region keeps the pool sorted.
LEMMA FreeKeeps ==
  ASSUME IInv, NEW ptr, Free(ptr)
  PROVE  IInv'
<1>1. CASE At(ptr) = {}
  BY <1>1 DEF Free, IInv, TypeOK, Sorted
<1>2. ASSUME NEW i \in At(ptr),
             used' = Minus(used, regions[i].size),
             regions' = RemoveAt(regions, i)
      PROVE  IInv'
  <2>1. i \in 1 .. Len(regions) /\ result' = Void
    BY <1>2 DEF At, Free
  <2>2. /\ Len(regions) \in Nat
        /\ \A k \in 1 .. Len(regions) : regions[k] \in Region
        /\ regions \in Seq(Region)
    BY LenProperties, ElementOfSeq DEF IInv, TypeOK
  <2>3. /\ regions' \in Seq(Region)
        /\ Len(regions') = Len(regions) - 1
        /\ \A j \in 1 .. Len(regions) - 1 :
             regions'[j] = IF j < i THEN regions[j] ELSE regions[j + 1]
    BY <1>2, <2>1, <2>2, RemoveAtFacts
  <2>4. regions[i].size \in 0 .. WordSize - 1 /\ used \in 0 .. WordSize - 1
    BY <2>1, <2>2 DEF IInv, TypeOK, Region
  <2>5. used' \in 0 .. WordSize - 1
    BY <1>2, <2>4, SizesAssumption DEF Minus
  <2>6. TypeOK'
    BY <2>1, <2>3, <2>5 DEF TypeOK
  <2>7. \A j \in 1 .. Len(regions) - 1 :
          \E k \in 1 .. Len(regions) :
            /\ regions'[j] = regions[k]
            /\ k = IF j < i THEN j ELSE j + 1
    BY <2>1, <2>2, <2>3
  <2>8. ASSUME NEW j \in 1 .. Len(regions) - 1, NEW k \in 1 .. Len(regions) - 1, j < k
        PROVE  regions'[j].offset + regions'[j].size <= regions'[k].offset
    <3>1. PICK j1 \in 1 .. Len(regions) :
            regions'[j] = regions[j1] /\ j1 = IF j < i THEN j ELSE j + 1
      BY <2>7
    <3>2. PICK k1 \in 1 .. Len(regions) :
            regions'[k] = regions[k1] /\ k1 = IF k < i THEN k ELSE k + 1
      BY <2>7
    <3>3. j1 < k1
      BY <2>1, <2>2, <2>8, <3>1, <3>2
    <3>. QED
      BY <3>1, <3>2, <3>3 DEF IInv, Sorted
  <2>9. Sorted'
    <3>. SUFFICES ASSUME NEW j \in 1 .. Len(regions')
                  PROVE  /\ regions'[j].size > 0
                         /\ regions'[j].offset + regions'[j].size <= Total
      BY <2>3, <2>8 DEF Sorted
    <3>. QED
      BY <2>3, <2>7 DEF IInv, Sorted
  <2>. QED
    BY <2>6, <2>9 DEF IInv
<1>. QED
  BY <1>1, <1>2 DEF Free

LEMMA NextKeeps == IInv /\ [Next]_vars => IInv'
<1>. SUFFICES ASSUME IInv, [Next]_vars PROVE IInv'
  OBVIOUS
<1>1. ASSUME NEW size \in Requests, Allocate(size) PROVE IInv'
  BY <1>1, AllocateKeeps
<1>2. ASSUME NEW ptr \in (0 .. Total) \cup {Null}, Free(ptr) PROVE IInv'
  BY <1>2, FreeKeeps
<1>3. CASE Reset
  BY <1>3, SizesAssumption DEF Reset, IInv, TypeOK, Sorted
<1>4. CASE UNCHANGED vars
  BY <1>4 DEF vars, IInv, TypeOK, Sorted
<1>. QED
  BY <1>1, <1>2, <1>3, <1>4 DEF Next

LEMMA InitKeeps == Init => IInv
  BY SizesAssumption DEF Init, IInv, TypeOK, Sorted

LEMMA Inductive == Spec => []IInv
  BY InitKeeps, NextKeeps, PTL DEF Spec

\* Every variable keeps its type, for every pool size and set of requests.
THEOREM TypeCorrect == Spec => []TypeOK
  BY Inductive, PTL DEF IInv

\* The regions stay sorted, in bounds and disjoint: allocate never hands out
\* a byte that is still in use.
THEOREM StaysSorted == Spec => []Sorted
  BY Inductive, PTL DEF IInv

-----------------------------------------------------------------------------
(* Refinement: the pool is a ByteArena whose blocks are the regions.       *)

LEMMA BlocksAreRegions ==
  ASSUME IInv
  PROVE  Range(regions) = {regions[k] : k \in 1 .. Len(regions)}
  BY LenProperties DEF Range, IInv, TypeOK

\* A free stretch of the arena lies within one gap of the scan.
LEMMA RoomLiesInGap ==
  ASSUME IInv, NEW size \in Nat \ {0}, NEW a \in Arena!Room(size)
  PROVE  \E i \in 1 .. Len(regions) + 1 : Cursor(i) <= a /\ a + size <= Edge(i)
<1>. DEFINE After == {k \in 1 .. Len(regions) : a < regions[k].offset + regions[k].size}
<1>1. /\ a \in Nat
      /\ a + size <= Total
      /\ \A k \in 1 .. Len(regions) :
           ~ (a < regions[k].offset + regions[k].size /\ regions[k].offset < a + size)
  <2>1. \A b \in Range(regions) : ~ Arena!Overlap([offset |-> a, size |-> size], b)
    BY DEF Arena!Room
  <2>2. \A k \in 1 .. Len(regions) :
          ~ Arena!Overlap([offset |-> a, size |-> size], regions[k])
    BY <2>1, BlocksAreRegions
  <2>. QED
    BY <2>2, RegionFacts DEF Arena!Room, Arena!Overlap, Arena!End
<1>2. CASE After = {}
  <2>. DEFINE n == Len(regions) + 1
  <2>1. n \in 1 .. Len(regions) + 1 /\ Edge(n) = Total
    BY RegionFacts DEF Edge
  <2>2. Cursor(n) <= a
    <3>1. CASE n = 1
      BY <1>1, <2>1, <3>1, GapFacts
    <3>2. CASE n # 1
      <4>1. n - 1 \in 1 .. Len(regions) /\ n - 1 \notin After
        BY <1>2, <3>2, RegionFacts
      <4>2. ~ (a < regions[n - 1].offset + regions[n - 1].size)
        BY <4>1
      <4>3. Cursor(n) = regions[n - 1].offset + regions[n - 1].size /\ Cursor(n) \in Nat
        BY <2>1, <3>2, GapFacts, RegionFacts
      <4>. QED
        BY <1>1, <4>2, <4>3
    <3>. QED
      BY <3>1, <3>2
  <2>. QED
    BY <1>1, <2>1, <2>2
<1>3. CASE After # {}
  <2>. DEFINE m == Min(After)
  <2>1. After \subseteq Nat
    BY RegionFacts
  <2>2. m \in After /\ \A k \in After : m <= k
    BY <1>3, <2>1, LeastOfNats, Zenon
  <2>3. /\ m \in 1 .. Len(regions)
        /\ a < regions[m].offset + regions[m].size
        /\ \A k \in 1 .. m - 1 : ~ (a < regions[k].offset + regions[k].size)
    <3>1. m \in 1 .. Len(regions) /\ a < regions[m].offset + regions[m].size
      BY <2>2
    <3>2. ASSUME NEW k \in 1 .. m - 1
          PROVE  ~ (a < regions[k].offset + regions[k].size)
      <4>1. k \in 1 .. Len(regions) /\ ~ (m <= k)
        BY <3>1, RegionFacts
      <4>. QED
        BY <2>2, <4>1
    <3>. QED
      BY <3>1, <3>2
  <2>. HIDE DEF m
  <2>4. a + size <= Edge(m)
    <3>1. ~ (regions[m].offset < a + size)
      BY <1>1, <2>3
    <3>. QED
      BY <1>1, <2>3, <3>1, RegionFacts DEF Edge
  <2>5. Cursor(m) <= a
    <3>0. m \in 1 .. Len(regions) + 1
      BY <2>3, RegionFacts
    <3>1. CASE m = 1
      BY <1>1, <3>0, <3>1, GapFacts
    <3>2. CASE m # 1
      <4>1. m - 1 \in 1 .. m - 1 /\ m - 1 \in 1 .. Len(regions)
        BY <2>3, <3>2, RegionFacts
      <4>2. Cursor(m) = regions[m - 1].offset + regions[m - 1].size /\ Cursor(m) \in Nat
        BY <3>0, <3>2, GapFacts, RegionFacts
      <4>. QED
        BY <1>1, <2>3, <4>1, <4>2
    <3>. QED
      BY <3>1, <3>2
  <2>. QED
    BY <2>3, <2>4, <2>5, RegionFacts
<1>. QED
  BY <1>2, <1>3

\* The gap that allocate picks begins at the lowest address with room.
LEMMA FirstGapIsLowest ==
  ASSUME IInv, NEW size \in Nat \ {0}, NEW i \in 1 .. Len(regions) + 1,
         \A k \in 1 .. i - 1 : Edge(k) - Cursor(k) < size,
         Cursor(i) + size <= Edge(i)
  PROVE  /\ Cursor(i) \in Arena!Room(size)
         /\ \A a \in Arena!Room(size) : Cursor(i) <= a
<1>0. Cursor(i) \in 0 .. Total /\ Edge(i) \in 0 .. Total /\ Total \in Nat
  BY GapFacts, RegionFacts
<1>1. ASSUME NEW k \in 1 .. Len(regions)
      PROVE  ~ (/\ Cursor(i) < regions[k].offset + regions[k].size
                /\ regions[k].offset < Cursor(i) + size)
  <2>0. /\ regions[k].offset \in Nat /\ regions[k].size \in Nat
        /\ k \in Nat /\ i \in Nat
    BY RegionFacts
  <2>1. CASE k < i
    <3>1. i - 1 \in 1 .. Len(regions) /\ i # 1
      BY <2>0, <2>1, RegionFacts
    <3>2. Cursor(i) = regions[i - 1].offset + regions[i - 1].size
      BY <3>1, GapFacts
    <3>3. regions[k].offset + regions[k].size <= Cursor(i)
      <4>1. CASE k = i - 1
        BY <2>0, <3>2, <4>1
      <4>2. CASE k < i - 1
        <5>1. regions[k].offset + regions[k].size <= regions[i - 1].offset
          BY <3>1, <4>2, RegionFacts
        <5>2. regions[i - 1].offset \in Nat /\ regions[i - 1].size \in Nat
          BY <3>1, RegionFacts
        <5>. DEFINE u == regions[k].offset + regions[k].size
                    v == regions[i - 1].offset
                    w == regions[i - 1].size
        <5>3. u \in Nat /\ v \in Nat /\ w \in Nat /\ u <= v
          <6>1. u \in Nat
            BY <2>0
          <6>. QED
            BY <5>1, <5>2, <6>1, Zenon
        <5>. HIDE DEF u, v, w
        <5>4. u <= v + w
          BY <5>3
        <5>. QED
          BY <3>2, <5>4 DEF u, v, w
      <4>. QED
        BY <2>0, <2>1, <4>1, <4>2
    <3>. QED
      BY <1>0, <2>0, <3>3
  <2>2. CASE i <= k
    <3>1. i \in 1 .. Len(regions) /\ Edge(i) = regions[i].offset
      BY <2>0, <2>2, RegionFacts DEF Edge
    <3>2. Edge(i) <= regions[k].offset
      <4>1. CASE i = k
        BY <2>0, <3>1, <4>1
      <4>2. CASE i < k
        <5>1. regions[i].offset + regions[i].size <= regions[k].offset
          BY <3>1, <4>2, RegionFacts
        <5>2. regions[i].offset \in Nat /\ regions[i].size \in Nat
          BY <3>1, RegionFacts
        <5>. QED
          BY <2>0, <3>1, <5>1, <5>2
      <4>. QED
        BY <2>0, <2>2, <4>1, <4>2
    <3>. QED
      BY <1>0, <2>0, <3>2
  <2>. QED
    BY <2>0, <2>1, <2>2
<1>2. Cursor(i) \in Arena!Room(size)
  <2>1. ASSUME NEW b \in Range(regions)
        PROVE  ~ Arena!Overlap([offset |-> Cursor(i), size |-> size], b)
    <3>1. PICK k \in 1 .. Len(regions) : b = regions[k]
      BY BlocksAreRegions
    <3>. QED
      BY <1>1, <3>1 DEF Arena!Overlap, Arena!End
  <2>2. Cursor(i) + size <= Total
    BY <1>0
  <2>. QED
    BY <1>0, <2>1, <2>2 DEF Arena!Room
<1>3. ASSUME NEW a \in Arena!Room(size)
      PROVE  Cursor(i) <= a
  <2>1. PICK k \in 1 .. Len(regions) + 1 : Cursor(k) <= a /\ a + size <= Edge(k)
    BY RoomLiesInGap
  <2>2. /\ a \in Nat /\ k \in Nat /\ i \in Nat
        /\ Cursor(k) \in Nat /\ Edge(k) \in Nat
    BY GapFacts, RegionFacts DEF Arena!Room
  <2>3. ~ (k < i)
    <3>1. ~ (Edge(k) - Cursor(k) < size)
      BY <2>1, <2>2
    <3>. QED
      BY <2>2, <3>1
  <2>4. CASE k = i
    BY <2>1, <2>4
  <2>5. CASE i < k
    <3>1. i \in 1 .. Len(regions) /\ k - 1 \in 1 .. Len(regions) /\ k # 1
      BY <2>2, <2>5, RegionFacts
    <3>2. Cursor(i) <= regions[i].offset
      <4>. Edge(i) = regions[i].offset
        BY <3>1, RegionFacts DEF Edge
      <4>. QED
        BY GapFacts
    <3>3. Cursor(k) = regions[k - 1].offset + regions[k - 1].size
      BY <3>1, GapFacts
    <3>4. regions[i].offset <= Cursor(k)
      <4>1. CASE i = k - 1
        BY <3>1, <3>3, <4>1, RegionFacts
      <4>2. CASE i < k - 1
        <5>1. regions[i].offset + regions[i].size <= regions[k - 1].offset
          BY <3>1, <4>2, RegionFacts
        <5>2. /\ regions[i].offset \in Nat /\ regions[i].size \in Nat
              /\ regions[k - 1].offset \in Nat /\ regions[k - 1].size \in Nat
          BY <3>1, RegionFacts
        <5>. DEFINE u == regions[i].offset
                    v == regions[i].size
                    w == regions[k - 1].offset
                    x == regions[k - 1].size
        <5>3. regions[i].offset <= regions[k - 1].offset + regions[k - 1].size
          <6>1. u \in Nat /\ v \in Nat /\ w \in Nat /\ x \in Nat /\ u + v <= w
            BY <5>1, <5>2
          <6>. HIDE DEF u, v, w, x
          <6>2. u <= w + x
            BY <6>1
          <6>. QED
            BY <6>2 DEF u, w, x
        <5>. QED
          BY <3>3, <5>3
      <4>. QED
        BY <2>2, <2>5, <4>1, <4>2
    <3>5. regions[i].offset \in Nat
      BY <3>1, RegionFacts
    <3>. QED
      BY <1>0, <2>1, <2>2, <3>2, <3>4, <3>5
  <2>. QED
    BY <2>2, <2>3, <2>4, <2>5
<1>. QED
  BY <1>2, <1>3

LEMMA AllocateRefines ==
  ASSUME IInv, NEW size \in Requests, Allocate(size)
  PROVE  Arena!Grant(size) \/ Arena!Refuse(size)
<1>0. size \in Nat
  BY SizesAssumption
<1>1. CASE size = 0
  BY <1>1 DEF Allocate, Arena!Refuse
<1>2. CASE size # 0 /\ Fitting(size) = {}
  <2>1. Arena!Room(size) = {}
    <3>. SUFFICES ASSUME NEW a \in Arena!Room(size) PROVE FALSE
      OBVIOUS
    <3>1. PICK i \in 1 .. Len(regions) + 1 : Cursor(i) <= a /\ a + size <= Edge(i)
      BY <1>0, <1>2, RoomLiesInGap
    <3>2. /\ a \in Nat /\ Cursor(i) \in Nat /\ Edge(i) \in Nat
          /\ Minus(Edge(i), Cursor(i)) = Edge(i) - Cursor(i)
      BY GapFacts, RegionFacts DEF Arena!Room
    <3>3. Minus(Edge(i), Cursor(i)) >= size
      BY <1>0, <3>1, <3>2
    <3>. QED
      BY <1>2, <3>3 DEF Fitting
  <2>. QED
    BY <1>2, <2>1 DEF Allocate, Arena!Refuse
<1>3. CASE size # 0 /\ Fitting(size) # {}
  <2>1. PICK i \in 1 .. Len(regions) + 1 :
           /\ \A k \in 1 .. i - 1 : Edge(k) - Cursor(k) < size
           /\ Cursor(i) + size <= Edge(i)
           /\ [offset |-> Cursor(i), size |-> size] \in Region
           /\ regions' \in Seq(Region)
           /\ Len(regions') = Len(regions) + 1
           /\ \A k \in 1 .. Len(regions) + 1 :
                regions'[k] = IF k < i THEN regions[k]
                              ELSE IF k = i
                                   THEN [offset |-> Cursor(i), size |-> size]
                                   ELSE regions[k - 1]
           /\ result' = Cursor(i)
    BY <1>3, AllocateFacts
  <2>. DEFINE fresh == [offset |-> Cursor(i), size |-> size]
  <2>2. /\ Cursor(i) \in Arena!Room(size)
        /\ \A a \in Arena!Room(size) : Cursor(i) <= a
    BY <1>0, <1>3, <2>1, FirstGapIsLowest
  <2>3. Range(regions') = Range(regions) \cup {fresh}
    <3>0. /\ Len(regions) \in Nat
          /\ Range(regions') = {regions'[k] : k \in 1 .. Len(regions) + 1}
          /\ Range(regions) = {regions[k] : k \in 1 .. Len(regions)}
      BY <2>1, LenProperties, BlocksAreRegions, RegionFacts DEF Range
    <3>. HIDE DEF fresh
    <3>1. ASSUME NEW k \in 1 .. Len(regions) + 1
          PROVE  regions'[k] \in Range(regions) \cup {fresh}
      <4>1. CASE k < i
        BY <2>1, <3>0, <4>1
      <4>2. CASE k = i
        BY <2>1, <4>2 DEF fresh
      <4>3. CASE k > i
        <5>. k - 1 \in 1 .. Len(regions) /\ regions'[k] = regions[k - 1]
          BY <2>1, <3>0, <4>3
        <5>. QED
          BY <3>0
      <4>. QED
        BY <3>0, <4>1, <4>2, <4>3
    <3>2. ASSUME NEW k \in 1 .. Len(regions)
          PROVE  regions[k] \in Range(regions')
      <4>1. CASE k < i
        <5>. k \in 1 .. Len(regions) + 1 /\ regions'[k] = regions[k]
          BY <2>1, <3>0, <4>1
        <5>. QED
          BY <3>0
      <4>2. CASE ~ (k < i)
        <5>. k + 1 \in 1 .. Len(regions) + 1 /\ regions'[k + 1] = regions[k]
          <6>1. /\ k + 1 \in 1 .. Len(regions) + 1
                /\ ~ (k + 1 < i) /\ k + 1 # i /\ (k + 1) - 1 = k
            BY <3>0, <4>2
          <6>. QED
            BY <2>1, <6>1
        <5>. QED
          BY <3>0
      <4>. QED
        BY <4>1, <4>2
    <3>3. fresh \in Range(regions')
      <4>. regions'[i] = fresh
        BY <2>1, <3>0 DEF fresh
      <4>. QED
        BY <3>0
    <3>. QED
      BY <3>0, <3>1, <3>2, <3>3
  <2>. QED
    BY <1>0, <1>3, <2>1, <2>2, <2>3 DEF Arena!Grant
<1>. QED
  BY <1>1, <1>2, <1>3

LEMMA FreeRefines ==
  ASSUME IInv, NEW ptr \in (0 .. Total) \cup {Null}, Free(ptr)
  PROVE  Arena!GiveBack(ptr)
<1>0. Range(regions) = {regions[k] : k \in 1 .. Len(regions)} /\ Len(regions) \in Nat
  BY BlocksAreRegions, RegionFacts
<1>1. CASE At(ptr) = {}
  <2>1. \A k \in 1 .. Len(regions) : regions[k].offset # ptr
    BY <1>1 DEF At
  <2>2. regions' = regions /\ result' = Void
    BY <1>1 DEF Free
  <2>3. Range(regions') = {b \in Range(regions) : b.offset # ptr}
    BY <1>0, <2>1, <2>2
  <2>. QED
    BY <2>2, <2>3 DEF Arena!GiveBack
<1>2. ASSUME NEW i \in At(ptr), regions' = RemoveAt(regions, i)
      PROVE  Arena!GiveBack(ptr)
  <2>1. i \in 1 .. Len(regions) /\ regions[i].offset = ptr /\ result' = Void
    BY <1>2 DEF At, Free
  <2>2. /\ regions' \in Seq(Region)
        /\ Len(regions') = Len(regions) - 1
        /\ \A j \in 1 .. Len(regions) - 1 :
             regions'[j] = IF j < i THEN regions[j] ELSE regions[j + 1]
    BY <1>2, <2>1, RemoveAtFacts DEF IInv, TypeOK
  <2>3. Range(regions') = {regions'[j] : j \in 1 .. Len(regions) - 1}
    BY <2>2, LenProperties DEF Range
  <2>4. ASSUME NEW k \in 1 .. Len(regions), k # i
        PROVE  regions[k].offset # ptr
    <3>0. /\ regions[k].offset \in Nat /\ regions[k].size \in Nat \ {0}
          /\ regions[i].offset \in Nat /\ regions[i].size \in Nat \ {0}
      BY <2>1, RegionFacts
    <3>1. CASE k < i
      <4>. regions[k].offset + regions[k].size <= regions[i].offset
        BY <2>1, <3>1, RegionFacts
      <4>. QED
        BY <2>1, <3>0
    <3>2. CASE i < k
      <4>. regions[i].offset + regions[i].size <= regions[k].offset
        BY <2>1, <3>2, RegionFacts
      <4>. QED
        BY <2>1, <3>0
    <3>. QED
      BY <1>0, <2>1, <2>4, <3>1, <3>2
  <2>5. ASSUME NEW j \in 1 .. Len(regions) - 1
        PROVE  \E k \in 1 .. Len(regions) : k # i /\ regions'[j] = regions[k]
    <3>1. CASE j < i
      <4>. j \in 1 .. Len(regions) /\ j # i /\ regions'[j] = regions[j]
        BY <1>0, <2>1, <2>2, <3>1
      <4>. QED
        OBVIOUS
    <3>2. CASE ~ (j < i)
      <4>. j + 1 \in 1 .. Len(regions) /\ j + 1 # i /\ regions'[j] = regions[j + 1]
        BY <1>0, <2>1, <2>2, <3>2
      <4>. QED
        OBVIOUS
    <3>. QED
      BY <3>1, <3>2
  <2>6. ASSUME NEW k \in 1 .. Len(regions), k # i
        PROVE  \E j \in 1 .. Len(regions) - 1 : regions'[j] = regions[k]
    <3>1. CASE k < i
      <4>. k \in 1 .. Len(regions) - 1 /\ regions'[k] = regions[k]
        BY <1>0, <2>1, <2>2, <3>1
      <4>. QED
        OBVIOUS
    <3>2. CASE i < k
      <4>1. k - 1 \in 1 .. Len(regions) - 1 /\ ~ (k - 1 < i) /\ (k - 1) + 1 = k
        BY <1>0, <2>1, <3>2
      <4>2. regions'[k - 1] = regions[k]
        BY <2>2, <4>1
      <4>. QED
        BY <4>1, <4>2
    <3>. QED
      BY <1>0, <2>1, <2>6, <3>1, <3>2
  <2>7. Range(regions') = {b \in Range(regions) : b.offset # ptr}
    <3>1. ASSUME NEW b \in Range(regions')
          PROVE  b \in Range(regions) /\ b.offset # ptr
      BY <1>0, <2>3, <2>4, <2>5
    <3>2. ASSUME NEW b \in Range(regions), b.offset # ptr
          PROVE  b \in Range(regions')
      <4>1. PICK k \in 1 .. Len(regions) : b = regions[k]
        BY <1>0
      <4>2. k # i
        BY <2>1, <3>2, <4>1
      <4>. QED
        BY <2>3, <2>6, <4>1, <4>2
    <3>. QED
      BY <3>1, <3>2
  <2>. QED
    BY <2>1, <2>7 DEF Arena!GiveBack
<1>. QED
  BY <1>1, <1>2 DEF Free

\* First fit is right: every behaviour of the pool is a behaviour of the
\* arena, so allocate grants the lowest address with room and answers
\* nullptr only when there is none, and free gives back one block at most.
THEOREM Implements == Spec => ImplementsArena
<1>1. Init => Arena!Init
  BY DEF Init, Arena!Init, Range
<1>2. IInv /\ [Next]_vars => [Arena!Next]_(Arena!vars)
  <2>. SUFFICES ASSUME IInv, [Next]_vars PROVE [Arena!Next]_(Arena!vars)
    OBVIOUS
  <2>1. ASSUME NEW size \in Requests, Allocate(size) PROVE Arena!Next
    BY <2>1, AllocateRefines DEF Arena!Next
  <2>2. ASSUME NEW ptr \in (0 .. Total) \cup {Null}, Free(ptr) PROVE Arena!Next
    BY <2>2, FreeRefines DEF Arena!Next
  <2>3. CASE Reset
    BY <2>3 DEF Reset, Range, Arena!Next, Arena!Clear
  <2>4. CASE UNCHANGED vars
    BY <2>4 DEF vars, Arena!vars
  <2>. QED
    BY <2>1, <2>2, <2>3, <2>4 DEF Next
<1>. QED
  BY <1>1, <1>2, Inductive, PTL DEF Spec, ImplementsArena, Arena!Spec

-----------------------------------------------------------------------------
(* The account of used bytes.  UsedIsSum folds over the regions; the       *)
(* recursion of the fold is unfolded here, and each induction is the one   *)
(* over sets of ProofLemmas.                                               *)

\* What UsedIsSum folds, and its recursion.
Sizes(s) == FoldLeft(LAMBDA sum, r : sum + r.size, 0, s)

LEMMA SizesUnfolded ==
  ASSUME NEW s
  PROVE  Sizes(s) = (CHOOSE f : f = [t \in SUBSET DOMAIN s |->
                       IF t = {} THEN 0
                       ELSE f[t \ {Max(t)}] + s[Max(t)].size])[DOMAIN s]
  BY DEF Sizes, FoldLeft, MapThenFoldSet

LEMMA SizesDef ==
  ASSUME NEW n \in Nat, NEW s, \A k \in 1 .. n : s[k].size \in Nat
  PROVE  \E f : f = [t \in SUBSET (1 .. n) |->
                       IF t = {} THEN 0
                       ELSE f[t \ {Max(t)}] + s[Max(t)].size]
<1>. DEFINE G == [k \in 1 .. n |-> [x \in Nat |-> x + s[k].size]]
<1>1. G \in [1 .. n -> [Nat -> Nat]]
  OBVIOUS
<1>. HIDE DEF G
<1>2. PICK f \in [SUBSET (1 .. n) -> Nat] : FoldsUpTo(n, G, 0, f)
  BY <1>1, FoldExists, 0 \in Nat, Zenon
<1>3. ASSUME NEW t \in SUBSET (1 .. n), t # {}
      PROVE  f[t] = f[t \ {Max(t)}] + s[Max(t)].size
  <2>1. Max(t) \in 1 .. n
    BY <1>3, GreatestUpTo
  <2>2. f[t \ {Max(t)}] \in Nat
    OBVIOUS
  <2>3. f[t] = G[Max(t)][f[t \ {Max(t)}]]
    BY <1>2, <1>3 DEF FoldsUpTo
  <2>. QED
    BY <2>1, <2>2, <2>3 DEF G
<1>4. f = [t \in SUBSET (1 .. n) |-> f[t]]
  OBVIOUS
<1>5. f = [t \in SUBSET (1 .. n) |->
             IF t = {} THEN 0 ELSE f[t \ {Max(t)}] + s[Max(t)].size]
  BY <1>2, <1>3, <1>4, Zenon DEF FoldsUpTo
<1>. QED
  BY <1>5

\* Running totals of the sizes: what they are after n regions is what the
\* fold gives.
Totals(s, n, p) ==
  /\ p \in [0 .. n -> Nat]
  /\ p[0] = 0
  /\ \A k \in 1 .. n : p[k] = p[k - 1] + s[k].size

LEMMA SizesIsLast ==
  ASSUME NEW s, NEW n \in Nat, DOMAIN s = 1 .. n,
         \A k \in 1 .. n : s[k].size \in Nat,
         NEW p, Totals(s, n, p)
  PROVE  Sizes(s) = p[n]
<1>. DEFINE Def(f) == f = [t \in SUBSET (1 .. n) |->
                             IF t = {} THEN 0
                             ELSE f[t \ {Max(t)}] + s[Max(t)].size]
            iter == CHOOSE f : Def(f)
            T == {k \in 0 .. n : iter[1 .. k] = p[k]}
<1>1. Sizes(s) = iter[1 .. n]
  BY SizesUnfolded
<1>2. Def(iter)
  <2>1. \E f : Def(f)
    BY SizesDef
  <2>. HIDE DEF Def
  <2>. QED
    BY <2>1
<1>. HIDE DEF iter
<1>3. 0 \in T
  <2>1. iter[1 .. 0] = 0
    BY <1>2, 1 .. 0 = {}
  <2>. QED
    BY <2>1 DEF Totals
<1>4. ASSUME NEW k \in 0 .. n - 1, k \in T
      PROVE  k + 1 \in T
  <2>. DEFINE t == 1 .. k + 1
  <2>1. k + 1 \in 1 .. n /\ (k + 1) - 1 = k
    OBVIOUS
  <2>2. t \in SUBSET (1 .. n) /\ t # {} /\ Max(t) = k + 1 /\ t \ {k + 1} = 1 .. k
    BY <2>1, InitialSegment
  <2>. HIDE DEF t
  <2>3. iter[t] = iter[t \ {Max(t)}] + s[Max(t)].size
    BY <1>2, <2>2, Zenon
  <2>4. iter[t] = p[k] + s[k + 1].size
    BY <1>4, <2>2, <2>3
  <2>5. p[k + 1] = p[k] + s[k + 1].size
    BY <2>1 DEF Totals
  <2>6. k + 1 \in 0 .. n
    OBVIOUS
  <2>. QED
    BY <2>4, <2>5, <2>6 DEF t
<1>5. n \in T
  <2>. HIDE DEF T
  <2>. QED
    BY <1>3, <1>4, UpTo, n \in 0 .. n
<1>. QED
  BY <1>1, <1>5

\* Running totals exist.
LEMMA TotalsExist ==
  ASSUME NEW s, NEW n \in Nat, \A k \in 1 .. n : s[k].size \in Nat
  PROVE  \E p : Totals(s, n, p)
<1>. DEFINE T == {k \in 0 .. n : \E p : Totals(s, k, p)}
<1>1. 0 \in T
  <2>1. Totals(s, 0, [k \in 0 .. 0 |-> 0])
    BY DEF Totals
  <2>. QED
    BY <2>1
<1>2. ASSUME NEW k \in 0 .. n - 1, k \in T
      PROVE  k + 1 \in T
  <2>0. PICK p : Totals(s, k, p)
    BY <1>2
  <2>. DEFINE q == [j \in 0 .. k + 1 |->
                      IF j = k + 1 THEN p[k] + s[k + 1].size ELSE p[j]]
  <2>1. p \in [0 .. k -> Nat] /\ p[0] = 0 /\ k \in 0 .. k /\ k + 1 \in 1 .. n
    BY <2>0 DEF Totals
  <2>2. q \in [0 .. k + 1 -> Nat]
    BY <2>1
  <2>3. q[0] = 0
    BY <2>1
  <2>4. ASSUME NEW j \in 1 .. k + 1
        PROVE  q[j] = q[j - 1] + s[j].size
    <3>1. CASE j = k + 1
      BY <2>1, <3>1
    <3>2. CASE j # k + 1
      <4>1. j \in 1 .. k /\ j - 1 \in 0 .. k + 1 /\ j - 1 # k + 1 /\ j \in 0 .. k + 1
        BY <3>2
      <4>2. q[j] = p[j] /\ q[j - 1] = p[j - 1]
        BY <3>2, <4>1
      <4>. HIDE DEF q
      <4>. QED
        BY <2>0, <4>1, <4>2 DEF Totals
    <3>. QED
      BY <3>1, <3>2
  <2>. HIDE DEF q
  <2>5. Totals(s, k + 1, q)
    BY <2>2, <2>3, <2>4 DEF Totals
  <2>. QED
    BY <2>5
<1>3. n \in T
  <2>. HIDE DEF T
  <2>. QED
    BY <1>1, <1>2, UpTo, n \in 0 .. n
<1>. QED
  BY <1>3

\* One more region, wherever it is put, adds its size to the sum.
LEMMA SizesWithOneMore ==
  ASSUME NEW s, NEW t, NEW n \in Nat, NEW i \in 1 .. n + 1, NEW e,
         DOMAIN s = 1 .. n, DOMAIN t = 1 .. n + 1,
         \A k \in 1 .. n : s[k].size \in Nat,
         e.size \in Nat,
         \A k \in 1 .. n + 1 :
           t[k] = IF k < i THEN s[k] ELSE IF k = i THEN e ELSE s[k - 1]
  PROVE  /\ Sizes(t) = Sizes(s) + e.size
         /\ Sizes(s) \in Nat
<1>1. PICK p : Totals(s, n, p)
  BY TotalsExist
<1>2. p \in [0 .. n -> Nat] /\ p[0] = 0 /\ \A k \in 1 .. n : p[k] = p[k - 1] + s[k].size
  BY <1>1 DEF Totals
<1>. DEFINE q == [k \in 0 .. n + 1 |-> IF k < i THEN p[k] ELSE p[k - 1] + e.size]
<1>3. q \in [0 .. n + 1 -> Nat]
  <2>. SUFFICES ASSUME NEW k \in 0 .. n + 1
                PROVE  (IF k < i THEN p[k] ELSE p[k - 1] + e.size) \in Nat
    OBVIOUS
  <2>1. CASE k < i
    BY <1>2, <2>1
  <2>2. CASE ~ (k < i)
    <3>1. k - 1 \in 0 .. n
      BY <2>2
    <3>2. p[k - 1] \in Nat
      BY <1>2, <3>1
    <3>. QED
      BY <2>2, <3>2
  <2>. QED
    BY <2>1, <2>2
<1>4. q[0] = 0
  BY <1>2
<1>5. ASSUME NEW k \in 1 .. n + 1
      PROVE  q[k] = q[k - 1] + t[k].size
  <2>0. k \in 0 .. n + 1 /\ k - 1 \in 0 .. n + 1
    OBVIOUS
  <2>1. CASE k < i
    <3>1. k \in 1 .. n /\ k - 1 < i /\ t[k] = s[k]
      BY <2>1
    <3>2. q[k] = p[k] /\ q[k - 1] = p[k - 1]
      BY <2>0, <2>1, <3>1
    <3>. HIDE DEF q
    <3>. QED
      BY <1>2, <3>1, <3>2
  <2>2. CASE k = i
    <3>1. k - 1 < i /\ ~ (k < i) /\ t[k] = e
      BY <2>2
    <3>2. q[k] = p[k - 1] + e.size /\ q[k - 1] = p[k - 1]
      BY <2>0, <2>2, <3>1
    <3>. HIDE DEF q
    <3>. QED
      BY <3>1, <3>2
  <2>3. CASE k > i
    <3>1. k - 1 \in 1 .. n /\ ~ (k - 1 < i) /\ ~ (k < i) /\ t[k] = s[k - 1]
      BY <2>3
    <3>2. q[k] = p[k - 1] + e.size /\ q[k - 1] = p[k - 1 - 1] + e.size
      BY <2>0, <2>3, <3>1
    <3>. HIDE DEF q
    <3>3. p[k - 1] = p[k - 1 - 1] + s[k - 1].size
      BY <1>2, <3>1
    <3>4. p[k - 1 - 1] \in Nat /\ s[k - 1].size \in Nat
      BY <1>2, <3>1, k - 1 - 1 \in 0 .. n
    <3>. QED
      BY <3>1, <3>2, <3>3, <3>4
  <2>. QED
    BY <2>1, <2>2, <2>3
<1>. HIDE DEF q
<1>6. Totals(t, n + 1, q) /\ \A k \in 1 .. n + 1 : t[k].size \in Nat
  <2>1. Totals(t, n + 1, q)
    BY <1>3, <1>4, <1>5 DEF Totals
  <2>2. ASSUME NEW k \in 1 .. n + 1
        PROVE  t[k].size \in Nat
    <3>1. CASE k < i
      BY <3>1, k \in 1 .. n
    <3>2. CASE k = i
      BY <3>2
    <3>3. CASE k > i
      BY <3>3, k - 1 \in 1 .. n
    <3>. QED
      BY <3>1, <3>2, <3>3
  <2>. QED
    BY <2>1, <2>2
<1>7. Sizes(s) = p[n] /\ Sizes(t) = q[n + 1]
  BY <1>1, <1>6, SizesIsLast, n + 1 \in Nat
<1>8. q[n + 1] = p[n] + e.size
  BY DEF q
<1>. QED
  BY <1>2, <1>7, <1>8, n \in 0 .. n

\* Regions that follow one another in the pool are not larger than it.
LEMMA SizesFit ==
  ASSUME IInv
  PROVE  Sizes(regions) \in 0 .. Total
<1>. DEFINE n == Len(regions)
            end(k) == regions[k].offset + regions[k].size
<1>0. /\ n \in Nat /\ Total \in Nat /\ DOMAIN regions = 1 .. n
      /\ \A k \in 1 .. n : regions[k].size \in Nat
  BY RegionFacts, LenProperties DEF IInv, TypeOK
<1>1. PICK p : Totals(regions, n, p)
  BY <1>0, TotalsExist
<1>2. /\ p \in [0 .. n -> Nat] /\ p[0] = 0
      /\ \A k \in 1 .. n : p[k] = p[k - 1] + regions[k].size
  BY <1>1 DEF Totals
<1>. DEFINE T == {k \in 0 .. n : k # 0 => p[k] <= end(k)}
<1>3. ASSUME NEW k \in 0 .. n - 1, k \in T
      PROVE  k + 1 \in T
  <2>1. /\ k + 1 \in 1 .. n /\ (k + 1) - 1 = k /\ k \in 0 .. n /\ k + 1 \in 0 .. n
        /\ k # 0 => k \in 1 .. n /\ k < k + 1
    BY <1>0
  <2>2. p[k] <= regions[k + 1].offset
    <3>1. CASE k = 0
      BY <1>2, <2>1, <3>1, RegionFacts
    <3>2. CASE k # 0
      <4>1. p[k] <= end(k)
        BY <1>3, <3>2
      <4>2. end(k) <= regions[k + 1].offset
        BY <2>1, <3>2, RegionFacts
      <4>3. p[k] \in Nat /\ end(k) \in Nat /\ regions[k + 1].offset \in Nat
        <5>1. p[k] \in Nat
          BY <1>2, <2>1
        <5>2. regions[k].offset \in Nat /\ regions[k].size \in Nat
          BY <2>1, <3>2, RegionFacts
        <5>3. regions[k + 1].offset \in Nat
          BY <2>1, RegionFacts
        <5>. QED
          BY <5>1, <5>2, <5>3
      <4>. HIDE DEF end
      <4>. QED
        BY <4>1, <4>2, <4>3
    <3>. QED
      BY <3>1, <3>2
  <2>3. /\ p[k + 1] = p[k] + regions[k + 1].size
        /\ p[k] \in Nat
        /\ regions[k + 1].offset \in Nat /\ regions[k + 1].size \in Nat
    BY <1>2, <2>1, RegionFacts
  <2>4. p[k + 1] <= end(k + 1)
    <3>. HIDE DEF n, T
    <3>. QED
      BY <2>2, <2>3
  <2>. QED
    BY <2>1, <2>4
<1>4. Sizes(regions) = p[n]
  BY <1>0, <1>1, SizesIsLast
<1>5. p[n] <= Total
  <2>1. CASE n = 0
    BY <1>0, <1>2, <2>1
  <2>2. CASE n # 0
    <3>1. n \in 1 .. n /\ n \in T
      <4>1. n \in T
        <5>1. 0 \in T
          BY <1>0
        <5>. HIDE DEF T, n
        <5>. QED
          BY <1>0, <1>3, <5>1, UpTo, n \in 0 .. n
      <4>. QED
        BY <1>0, <2>2, <4>1
    <3>2. p[n] <= end(n) /\ end(n) <= Total
      BY <2>2, <3>1, RegionFacts
    <3>3. p[n] \in Nat /\ regions[n].offset \in Nat /\ regions[n].size \in Nat
      BY <1>0, <1>2, <3>1, RegionFacts
    <3>4. end(n) \in Nat
      BY <3>3
    <3>. HIDE DEF end
    <3>. QED
      BY <1>0, <3>2, <3>3, <3>4
  <2>. QED
    BY <2>1, <2>2
<1>6. p[n] \in Nat
  BY <1>0, <1>2, n \in 0 .. n
<1>. HIDE DEF n
<1>. QED
  BY <1>0, <1>4, <1>5, <1>6

LEMMA NoRegionsNoSizes == Sizes(<< >>) = 0
<1>. DEFINE p == [k \in 0 .. 0 |-> 0]
<1>1. Totals(<< >>, 0, p)
  BY DEF Totals
<1>2. DOMAIN << >> = 1 .. 0
  OBVIOUS
<1>3. p[0] = 0
  OBVIOUS
<1>. QED
  BY <1>1, <1>2, <1>3, SizesIsLast

\* The account, before and after a step.
LEMMA AccountNow ==
  /\ UsedIsSum <=> used = Sizes(regions)
  /\ UsedIsSum' <=> used' = Sizes(regions')
  BY DEF UsedIsSum, Sizes, FoldLeft, MapThenFoldSet

LEMMA SizesFitNext == IInv' => Sizes(regions') \in 0 .. Total
<1>1. IInv' => (Sizes(regions) \in 0 .. Total)'
  BY SizesFit, PTL
<1>. QED
  BY <1>1

\* The bytes a call takes or gives back are the bytes the account moves by:
\* the sum never wraps because the regions fit into the pool.
LEMMA AllocateCounts ==
  ASSUME IInv, IInv', UsedIsSum, NEW size \in Requests, Allocate(size)
  PROVE  UsedIsSum'
<1>0. used = Sizes(regions)
  BY AccountNow
<1>1. CASE size = 0 \/ Fitting(size) = {}
  <2>1. regions' = regions /\ used' = used
    BY <1>1 DEF Allocate
  <2>. QED
    BY <1>0, <2>1, AccountNow
<1>2. CASE size # 0 /\ Fitting(size) # {}
  <2>1. PICK i \in 1 .. Len(regions) + 1 :
           /\ regions' \in Seq(Region)
           /\ Len(regions') = Len(regions) + 1
           /\ \A k \in 1 .. Len(regions) + 1 :
                regions'[k] = IF k < i THEN regions[k]
                              ELSE IF k = i
                                   THEN [offset |-> Cursor(i), size |-> size]
                                   ELSE regions[k - 1]
           /\ used' = Plus(used, size)
    BY <1>2, AllocateFacts
  <2>. DEFINE fresh == [offset |-> Cursor(i), size |-> size]
  <2>2. /\ Len(regions) \in Nat
        /\ DOMAIN regions = 1 .. Len(regions)
        /\ DOMAIN regions' = 1 .. Len(regions) + 1
        /\ \A k \in 1 .. Len(regions) : regions[k].size \in Nat
        /\ size \in Nat /\ fresh.size = size
    BY <2>1, RegionFacts, LenProperties, SizesAssumption DEF IInv, TypeOK
  <2>3. \A k \in 1 .. Len(regions) + 1 :
          regions'[k] = IF k < i THEN regions[k]
                        ELSE IF k = i THEN fresh ELSE regions[k - 1]
    BY <2>1
  <2>. HIDE DEF fresh
  <2>4. Sizes(regions') = Sizes(regions) + size /\ Sizes(regions) \in Nat
    <3>1. fresh.size \in Nat
      BY <2>2
    <3>2. Sizes(regions') = Sizes(regions) + fresh.size /\ Sizes(regions) \in Nat
      BY <2>2, <2>3, <3>1, SizesWithOneMore, Zenon
    <3>. QED
      BY <2>2, <3>2
  <2>5. Sizes(regions') \in 0 .. Total
    BY SizesFitNext
  <2>6. used' = Sizes(regions')
    BY <1>0, <2>1, <2>2, <2>4, <2>5, SizesAssumption DEF Plus
  <2>. QED
    BY <2>6, AccountNow
<1>. QED
  BY <1>1, <1>2

LEMMA FreeCounts ==
  ASSUME IInv, IInv', UsedIsSum, NEW ptr, Free(ptr)
  PROVE  UsedIsSum'
<1>0. used = Sizes(regions)
  BY AccountNow
<1>1. CASE At(ptr) = {}
  <2>1. regions' = regions /\ used' = used
    BY <1>1 DEF Free
  <2>. QED
    BY <1>0, <2>1, AccountNow
<1>2. ASSUME NEW i \in At(ptr),
             used' = Minus(used, regions[i].size),
             regions' = RemoveAt(regions, i)
      PROVE  UsedIsSum'
  <2>1. i \in 1 .. Len(regions)
    BY DEF At
  <2>. DEFINE n == Len(regions) - 1
  <2>2. /\ regions' \in Seq(Region)
        /\ Len(regions') = n
        /\ \A j \in 1 .. n :
             regions'[j] = IF j < i THEN regions[j] ELSE regions[j + 1]
    BY <1>2, <2>1, RemoveAtFacts DEF IInv, TypeOK
  <2>3. /\ n \in Nat /\ i \in 1 .. n + 1
        /\ DOMAIN regions = 1 .. n + 1
        /\ DOMAIN regions' = 1 .. n
        /\ regions[i].size \in Nat
        /\ \A k \in 1 .. n + 1 : regions[k].size \in Nat
    BY <2>1, <2>2, RegionFacts, LenProperties DEF IInv, TypeOK
  <2>. HIDE DEF n
  <2>4. ASSUME NEW j \in 1 .. n
        PROVE  regions'[j].size \in Nat
    <3>1. CASE j < i
      BY <2>2, <2>3, <3>1, j \in 1 .. n + 1
    <3>2. CASE ~ (j < i)
      BY <2>2, <2>3, <3>2, j + 1 \in 1 .. n + 1
    <3>. QED
      BY <3>1, <3>2
  <2>5. ASSUME NEW k \in 1 .. n + 1
        PROVE  regions[k] = IF k < i THEN regions'[k]
                            ELSE IF k = i THEN regions[i] ELSE regions'[k - 1]
    <3>1. CASE k < i
      BY <2>2, <2>3, <3>1, k \in 1 .. n
    <3>2. CASE k = i
      BY <2>3, <3>2
    <3>3. CASE k > i
      <4>1. k - 1 \in 1 .. n /\ ~ (k - 1 < i) /\ (k - 1) + 1 = k
        BY <2>3, <3>3
      <4>. QED
        BY <2>2, <2>3, <3>3, <4>1
    <3>. QED
      BY <2>3, <3>1, <3>2, <3>3
  <2>6. Sizes(regions) = Sizes(regions') + regions[i].size /\ Sizes(regions') \in Nat
    BY <2>3, <2>4, <2>5, SizesWithOneMore, Zenon
  <2>7. used' = Sizes(regions')
    BY <1>0, <1>2, <2>3, <2>6 DEF Minus
  <2>. QED
    BY <2>7, AccountNow
<1>. QED
  BY <1>1, <1>2 DEF Free

\* The account is inductive once the regions are known to lie in the pool.
LEMMA AccountInductive == Spec => [](IInv /\ UsedIsSum)
<1>1. Init => UsedIsSum
  <2>. SUFFICES ASSUME Init PROVE UsedIsSum
    OBVIOUS
  <2>1. used = 0 /\ regions = << >>
    BY DEF Init
  <2>. QED
    BY <2>1, NoRegionsNoSizes, AccountNow
<1>2. IInv /\ IInv' /\ UsedIsSum /\ [Next]_vars => UsedIsSum'
  <2>. SUFFICES ASSUME IInv, IInv', UsedIsSum, [Next]_vars PROVE UsedIsSum'
    OBVIOUS
  <2>1. ASSUME NEW size \in Requests, Allocate(size) PROVE UsedIsSum'
    BY <2>1, AllocateCounts
  <2>2. ASSUME NEW ptr \in (0 .. Total) \cup {Null}, Free(ptr) PROVE UsedIsSum'
    BY <2>2, FreeCounts
  <2>3. CASE Reset
    <3>1. used' = 0 /\ regions' = << >>
      BY <2>3 DEF Reset
    <3>. QED
      BY <3>1, NoRegionsNoSizes, AccountNow
  <2>4. CASE UNCHANGED vars
    <3>1. used' = used /\ regions' = regions
      BY <2>4 DEF vars
    <3>. QED
      BY <3>1, AccountNow
  <2>. QED
    BY <2>1, <2>2, <2>3, <2>4 DEF Next
<1>. QED
  BY <1>1, <1>2, Inductive, PTL DEF Spec

-----------------------------------------------------------------------------
(* No fragments.  When every region has one size that divides the pool and *)
(* lies on a multiple of it, so does every gap; a gap too small for one    *)
(* more region is then no gap at all, and the running totals are the       *)
(* cursors.                                                                *)

\* What multiples of n are to each other.
LEMMA MultipleFacts ==
  ASSUME NEW n \in Nat \ {0}
  PROVE  /\ 0 % n = 0
         /\ \A a \in Nat : a % n = 0 => (a + n) % n = 0
         /\ \A a, b \in Nat :
              a % n = 0 /\ b % n = 0 /\ a <= b /\ b - a < n => a = b
<1>1. ASSUME NEW a \in Nat, a % n = 0
      PROVE  a \div n \in Nat /\ a = n * (a \div n)
  <2>1. a = (n * (a \div n)) + (a % n) /\ a \div n \in Nat
    BY SMTT(20)
  <2>. QED
    BY <1>1, <2>1
<1>2. ASSUME NEW a \in Nat, a % n = 0
      PROVE  (a + n) % n = 0
  <2>1. PICK q \in Nat : a = n * q
    BY <1>1, <1>2
  <2>2. n * q + n = n * (q + 1) /\ q + 1 \in Nat
    BY SMTT(20)
  <2>3. \A b, r \in Nat : b = n * r => b % n = 0
    BY SMTT(20)
  <2>. QED
    BY <2>1, <2>2, <2>3, a + n \in Nat
<1>3. ASSUME NEW a \in Nat, NEW b \in Nat,
             a % n = 0, b % n = 0, a <= b, b - a < n
      PROVE  a = b
  <2>1. PICK q \in Nat : a = n * q
    BY <1>1, <1>3
  <2>2. PICK r \in Nat : b = n * r
    BY <1>1, <1>3
  <2>3. \A x, y \in Nat : x + 1 <= y => n * x + n <= n * y
    BY SMTT(20)
  <2>4. ~ (q + 1 <= r)
    <3>1. n * q \in Nat /\ n * r \in Nat
      BY <2>1, <2>2
    <3>. QED
      BY <1>3, <2>1, <2>2, <2>3, <3>1
  <2>5. ~ (r + 1 <= q)
    <3>1. n * q \in Nat /\ n * r \in Nat
      BY <2>1, <2>2
    <3>. QED
      BY <1>3, <2>1, <2>2, <2>3, <3>1
  <2>6. q = r
    BY <2>4, <2>5
  <2>. QED
    BY <2>1, <2>2, <2>6
<1>4. 0 % n = 0
  BY SMTT(20)
<1>. QED
  BY <1>2, <1>3, <1>4
LEMMA GapsLieOnMultiples ==
  ASSUME IInv, NEW size \in Nat \ {0}, Total % size = 0,
         \A k \in 1 .. Len(regions) :
           regions[k].size = size /\ regions[k].offset % size = 0,
         NEW i \in 1 .. Len(regions) + 1
  PROVE  Cursor(i) % size = 0 /\ Edge(i) % size = 0
<1>1. Cursor(i) % size = 0
  <2>1. CASE i = 1
    BY <2>1, GapFacts, MultipleFacts
  <2>2. CASE i # 1
    <3>1. i - 1 \in 1 .. Len(regions)
      BY <2>2, RegionFacts
    <3>2. Cursor(i) = regions[i - 1].offset + size
      BY <2>2, <3>1, GapFacts
    <3>3. regions[i - 1].offset \in Nat /\ regions[i - 1].offset % size = 0
      BY <3>1, RegionFacts
    <3>. QED
      BY <3>2, <3>3, MultipleFacts
  <2>. QED
    BY <2>1, <2>2
<1>2. Edge(i) % size = 0
  <2>1. CASE i <= Len(regions)
    <3>1. i \in 1 .. Len(regions)
      BY <2>1, RegionFacts
    <3>. QED
      BY <2>1, <3>1 DEF Edge
  <2>2. CASE ~ (i <= Len(regions))
    BY <2>2 DEF Edge
  <2>. QED
    BY <2>1, <2>2
<1>. QED
  BY <1>1, <1>2

LEMMA FullWhenRefused ==
  ASSUME IInv, UsedIsSum, NEW size \in Requests \ {0}, Total % size = 0,
         \A k \in 1 .. Len(regions) :
           regions[k].size = size /\ regions[k].offset % size = 0,
         Fitting(size) = {}
  PROVE  used = Total
<1>. DEFINE n == Len(regions)
            p == [k \in 0 .. n |-> Cursor(k + 1)]
<1>0. size \in Nat \ {0} /\ n \in Nat /\ Total \in Nat /\ DOMAIN regions = 1 .. n
  BY RegionFacts, LenProperties, SizesAssumption DEF IInv, TypeOK
<1>1. ASSUME NEW i \in 1 .. n + 1
      PROVE  Cursor(i) = Edge(i) /\ Cursor(i) \in Nat
  <2>1. ~ (Minus(Edge(i), Cursor(i)) >= size)
    BY DEF Fitting
  <2>2. /\ Cursor(i) \in Nat /\ Edge(i) \in Nat /\ Cursor(i) <= Edge(i)
        /\ Edge(i) - Cursor(i) < size
    BY <1>0, <2>1, GapFacts
  <2>3. Cursor(i) % size = 0 /\ Edge(i) % size = 0
    BY <1>0, GapsLieOnMultiples
  <2>. QED
    BY <1>0, <2>2, <2>3, MultipleFacts
<1>2. Totals(regions, n, p)
  <2>1. p \in [0 .. n -> Nat]
    <3>. SUFFICES ASSUME NEW k \in 0 .. n PROVE Cursor(k + 1) \in Nat
      OBVIOUS
    <3>. QED
      BY <1>0, <1>1, k + 1 \in 1 .. n + 1
  <2>2. p[0] = 0
    <3>1. p[0] = Cursor(1)
      BY <1>0
    <3>. QED
      BY <3>1 DEF Cursor
  <2>3. ASSUME NEW k \in 1 .. n
        PROVE  p[k] = p[k - 1] + regions[k].size
    <3>1. /\ k + 1 \in 1 .. n + 1 /\ k + 1 # 1 /\ (k + 1) - 1 = k
          /\ k \in 1 .. n + 1 /\ (k - 1) + 1 = k /\ k <= n
          /\ k \in 0 .. n /\ k - 1 \in 0 .. n
      BY <1>0
    <3>2. p[k] = Cursor(k + 1) /\ p[k - 1] = Cursor(k)
      BY <3>1
    <3>3. Cursor(k + 1) = regions[k].offset + regions[k].size
      BY <3>1, GapFacts
    <3>4. Cursor(k) = Edge(k) /\ Edge(k) = regions[k].offset
      BY <1>1, <3>1 DEF Edge
    <3>. QED
      BY <3>2, <3>3, <3>4
  <2>. HIDE DEF p
  <2>. QED
    BY <2>1, <2>2, <2>3 DEF Totals
<1>3. Sizes(regions) = p[n]
  <2>. HIDE DEF p
  <2>. QED
    BY <1>0, <1>2, SizesIsLast
<1>4. p[n] = Cursor(n + 1)
  BY <1>0
<1>5. Edge(n + 1) = Total
  BY <1>0 DEF Edge
<1>6. Cursor(n + 1) = Edge(n + 1)
  BY <1>0, <1>1, n + 1 \in 1 .. n + 1
<1>7. used = Sizes(regions)
  BY AccountNow
<1>. QED
  BY <1>3, <1>4, <1>5, <1>6, <1>7, Zenon

LEMMA NothingInFragments ==
  ASSUME IInv, UsedIsSum
  PROVE  NoFragments
<1>. SUFFICES ASSUME NEW size \in Requests \ {0}, Total % size = 0,
                     \A k \in 1 .. Len(regions) :
                       regions[k].size = size /\ regions[k].offset % size = 0
              PROVE  IF Fitting(size) = {} THEN used = Total
                     ELSE Cursor(Min(Fitting(size))) % size = 0
  BY DEF NoFragments
<1>1. CASE Fitting(size) = {}
  BY <1>1, FullWhenRefused
<1>2. CASE Fitting(size) # {}
  <2>1. size \in Nat \ {0}
    BY SizesAssumption
  <2>2. Fitting(size) \subseteq Nat
    BY RegionFacts DEF Fitting
  <2>3. Min(Fitting(size)) \in Fitting(size)
    BY <1>2, <2>2, LeastOfNats, Zenon
  <2>4. Min(Fitting(size)) \in 1 .. Len(regions) + 1
    BY <2>3 DEF Fitting
  <2>5. Cursor(Min(Fitting(size))) % size = 0
    BY <2>1, <2>4, GapsLieOnMultiples
  <2>. QED
    BY <1>2, <2>5
<1>. QED
  BY <1>1, <1>2

\* m_used_size is the sum of the regions after any sequence of allocate, free
\* and reset, for every pool size, and a pool that is asked for one size
\* which divides it refuses only when every byte is in use.
THEOREM AccountsForEveryByte == Spec => []PoolAccounted
<1>1. IInv /\ UsedIsSum => PoolAccounted
  BY NothingInFragments DEF PoolAccounted
<1>. QED
  BY <1>1, AccountInductive, PTL
=============================================================================
